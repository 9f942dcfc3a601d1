---------------------------- MODULE Registrations ----------------------------
(***************************************************************************)
(* What registration, activation and the change of an address promise, as  *)
(* if each use of a link and each run of a timer took place at once, and   *)
(* every account that is not active had a link that works.                 *)
(***************************************************************************)
CONSTANTS Account, Email, NoEmail, Change

VARIABLES
    status,      \* of each account: none, inactive or active
    email,       \* its address
    reminded,    \* the inactive accounts whose owners have been reminded
    change,      \* the links for a new address
    activated    \* the accounts a page has called activated

vars == <<status, email, reminded, change, activated>>

Registered(a) == status[a] # "none"

Usable(c) == change[c].state = "mailed"

Free(e, a) == \A b \in Account \ {a} : email[b] # e

UsedUp(links) ==
    [c \in Change |-> IF c \in links THEN [change[c] EXCEPT !.state = "gone"]
                      ELSE change[c]]

-----------------------------------------------------------------------------
(* Accounts *)

Register(a, e) ==
    /\ ~Registered(a)
    /\ Free(e, a)
    /\ status' = [status EXCEPT ![a] = "inactive"]
    /\ email' = [email EXCEPT ![a] = e]
    /\ UNCHANGED <<reminded, change, activated>>

Activate(a) ==
    /\ status[a] = "inactive"
    /\ status' = [status EXCEPT ![a] = "active"]
    /\ reminded' = reminded \ {a}
    /\ UNCHANGED <<email, change, activated>>

Tell(a) ==
    /\ status[a] = "active"
    /\ activated' = activated \cup {a}
    /\ UNCHANGED <<status, email, reminded, change>>

\* Nobody is reminded twice, nor of an account that is active meanwhile.
Remind(list) ==
    /\ \A a \in list : status[a] = "inactive" /\ a \notin reminded
    /\ reminded' = reminded \cup list
    /\ UNCHANGED <<status, email, change, activated>>

-----------------------------------------------------------------------------
(* Addresses *)

\* Of several links for one account, the last that is used counts.
Ask(c, a, e) ==
    /\ change[c].state = "none"
    /\ Registered(a) /\ \A b \in Account : email[b] # e
    /\ change' = [change EXCEPT ![c] = [state |-> "mailed", of |-> a, email |-> e,
                                        expired |-> FALSE]]
    /\ UNCHANGED <<status, email, reminded, activated>>

\* Somebody else may have been given the address meanwhile.
Confirm(c) ==
    /\ Usable(c)
    /\ Free(change[c].email, change[c].of)
    /\ email' = [email EXCEPT ![change[c].of] = change[c].email]
    /\ change' = UsedUp({c})
    /\ UNCHANGED <<status, reminded, activated>>

\* The address was asked for twice, and another link has brought it; this one
\* changes nothing, whatever address the account has by now.
Repeat(c) ==
    /\ Usable(c)
    /\ \E d \in Change : /\ change[d].state = "gone"
                         /\ change[d].of = change[c].of
                         /\ change[d].email = change[c].email
    /\ change' = UsedUp({c})
    /\ UNCHANGED <<status, email, reminded, activated>>

Lapse(c) ==
    /\ Usable(c)
    /\ change' = [change EXCEPT ![c].expired = TRUE]
    /\ UNCHANGED <<status, email, reminded, activated>>

\* A link that has expired works until it is removed.
Remove(links) ==
    /\ \A c \in links : Usable(c) /\ change[c].expired
    /\ change' = UsedUp(links)
    /\ UNCHANGED <<status, email, reminded, activated>>

-----------------------------------------------------------------------------
Init ==
    /\ status = [a \in Account |-> "none"]
    /\ email = [a \in Account |-> NoEmail]
    /\ reminded = {}
    /\ change = [c \in Change |-> [state |-> "none"]]
    /\ activated = {}

Next == \/ \E a \in Account, e \in Email : Register(a, e)
        \/ \E a \in Account : Activate(a) \/ Tell(a)
        \/ \E list \in SUBSET Account : Remind(list)
        \/ \E c \in Change, a \in Account, e \in Email : Ask(c, a, e)
        \/ \E c \in Change : Confirm(c) \/ Repeat(c) \/ Lapse(c)
        \/ \E links \in SUBSET Change : Remove(links)

Spec == Init /\ [][Next]_vars
=============================================================================
