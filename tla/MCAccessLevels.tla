--------------------------- MODULE MCAccessLevels ---------------------------
(***************************************************************************)
(* AccessLevels on two administrators.  The first is an active owner too;  *)
(* the second has a revoked manager's or owner's row.                      *)
(***************************************************************************)
EXTENDS AccessLevels, TLC

CONSTANTS ann, bob, k1, k2

Active(k)  == [exists |-> TRUE, isActive |-> TRUE, key |-> k, version |-> 0]
Revoked(k) == [exists |-> TRUE, isActive |-> FALSE, key |-> k, version |-> 0]

Rows(owner, manager) ==
    [l \in Level |-> CASE l = "OWNER"   -> owner
                       [] l = "MANAGER" -> manager
                       [] l = "ADMIN"   -> Active(NoKey)]

\* Bob asks anything about ann, who may be an owner again with the second number
\* only; ann asks for levels with a key for bob, and for another phone number; bob
\* would revoke his own ADMIN level.  There is one license.  A revocation's key is
\* not used.
MCRequest(o) ==
    /\ \/ /\ request[o].caller = bob /\ request[o].target = ann
          /\ request[o].kind = "add" /\ request[o].level = "OWNER" => request[o].key = k2
       \/ /\ request[o].caller = ann /\ request[o].target = bob
          /\ request[o].kind = "add" /\ request[o].level \in Keyed
       \/ request[o].kind = "phone"
       \/ /\ request[o].caller = bob /\ request[o].target = bob
          /\ request[o].kind = "revoke" /\ request[o].level = "ADMIN"
    /\ request[o].level = "MANAGER" => request[o].key = k1

MCInit ==
    /\ account = [a \in Account |-> [isActive |-> a = ann, version |-> 0]]
    /\ \E levels \in {Rows(Absent, Revoked(k1)), Rows(Revoked(k2), Absent)} :
         mapping = [a \in Account |->
                      IF a = ann THEN Rows(Active(k1), Absent) ELSE levels]
    /\ Init
    /\ \A o \in Request :
         /\ MCRequest(o)
         /\ request[o].kind = "revoke" => request[o].key \in {NoKey, k1}

MCSpec == MCInit /\ [][Next]_vars

MCSymmetry == Permutations(Request)
=============================================================================
