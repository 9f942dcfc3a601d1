---------------------------- MODULE MCPasswords ----------------------------
(***************************************************************************)
(* Passwords on one account: accounts and their tokens meet nowhere but in *)
(* the timer's transaction, which looks at no account.                     *)
(***************************************************************************)
EXTENDS Passwords, TLC

CONSTANTS ann, p1, p2

Untouched == [password |-> p1, isOpen |-> TRUE, version |-> 0]

Input(kind, old, new, link) ==
    [phase |-> "starting", kind |-> kind, target |-> ann, old |-> old,
     new |-> new, link |-> link, held |-> Untouched, snap |-> Untouched]

\* An input the request does not use has one value.
Inputs ==
    {Input("self", p1, p2, CHOOSE r \in Request : TRUE),
     Input("self", p2, p1, CHOOSE r \in Request : TRUE)}
    \cup {Input("reset", p1, p1, CHOOSE r \in Request : TRUE)}
    \cup {Input("admin", p1, new, CHOOSE r \in Request : TRUE) : new \in Password}
    \cup {Input("link", p1, new, r) : new \in Password, r \in Request}

MCInit ==
    /\ account = [a \in Account |-> Untouched]
    /\ request \in [Request -> Inputs]
    /\ Init

MCSpec     == MCInit /\ [][Next]_vars
MCFairSpec == MCSpec /\ Fairness
=============================================================================
