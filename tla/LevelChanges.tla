---------------------------- MODULE LevelChanges ----------------------------
(***************************************************************************)
(* What the requests about access levels promise, as if each took place at *)
(* once, or was refused and changed nothing.  Only a revocation does not:  *)
(* whether the account has another level is looked up before.              *)
(***************************************************************************)
CONSTANTS Account, Request, Level, Keyed, Key, NoKey

VARIABLES
    confirmed,   \* the accounts whose registration was confirmed
    level,       \* each level of each account: never granted, active, revoked
    spare,       \* the revocations that have seen another level
    asked,       \* what is asked for
    state        \* what has become of it

vars == <<confirmed, level, spare, asked, state>>

Target(o) == asked[o].target

About(o) == level[Target(o)][asked[o].level]

Active(a) == {l \in Level : level[a][l].is = "active"}

\* A phone number and a license belong to one account, active or not.
KeyFree(o) ==
    asked[o].level \in Keyed =>
      \A a \in Account \ {Target(o)} :
        level[a][asked[o].level].is # "never" =>
          level[a][asked[o].level].key # asked[o].key

Becomes(o, is, key) ==
    level' = [level EXCEPT ![Target(o)][asked[o].level] = [is |-> is, key |-> key]]

End(o, outcome) ==
    /\ state[o] = "open"
    /\ state' = [state EXCEPT ![o] = outcome]
    /\ spare' = spare \ {o}
    /\ UNCHANGED <<confirmed, asked>>

ByAnother(o) == asked[o].caller # Target(o) /\ Target(o) \in confirmed

-----------------------------------------------------------------------------
Grant(o) ==
    /\ asked[o].kind = "add" /\ End(o, "done")
    /\ ByAnother(o)
    /\ About(o).is # "active" /\ KeyFree(o)
    /\ Becomes(o, "active", asked[o].key)

LookUp(o) ==
    /\ asked[o].kind = "revoke"
    /\ state[o] = "open"
    /\ \E l, m \in Active(Target(o)) : l # m
    /\ spare' = spare \cup {o}
    /\ UNCHANGED <<confirmed, level, asked, state>>

\* It may be the last one by now.
Revoke(o) ==
    /\ asked[o].kind = "revoke" /\ End(o, "done")
    /\ ByAnother(o)
    /\ About(o).is = "active" /\ o \in spare
    /\ Becomes(o, "revoked", About(o).key)

ChangePhone(o) ==
    /\ asked[o].kind = "phone" /\ End(o, "done")
    /\ About(o).is = "active" /\ About(o).key # asked[o].key /\ KeyFree(o)
    /\ Becomes(o, "active", asked[o].key)

Refuse(o) == End(o, "refused") /\ UNCHANGED level

Confirm(a) ==
    /\ a \notin confirmed
    /\ confirmed' = confirmed \cup {a}
    /\ UNCHANGED <<level, spare, asked, state>>

-----------------------------------------------------------------------------
Init ==
    /\ confirmed \subseteq Account
    /\ level \in [Account -> [Level -> [is : {"never", "active", "revoked"},
                                        key : Key \cup {NoKey}]]]
    /\ \A a \in Account : Active(a) # {}
    /\ spare = {}
    /\ asked \in [Request -> [kind : {"add", "revoke", "phone"}, caller : Account,
                              target : Account, level : Level,
                              key : Key \cup {NoKey}]]
    /\ state = [o \in Request |-> "open"]

Next == \/ \E o \in Request : \/ Grant(o) \/ LookUp(o) \/ Revoke(o)
                              \/ ChangePhone(o) \/ Refuse(o)
        \/ \E a \in Account : Confirm(a)

Spec == Init /\ [][Next]_vars
=============================================================================
