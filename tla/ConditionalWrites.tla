------------------------- MODULE ConditionalWrites -------------------------
(***************************************************************************)
(* What etag and version promise, without saying how: a client that asks   *)
(* for a write has seen some past or present state of the row, or nothing  *)
(* of it, and its write takes place, at most once, only while the row is   *)
(* still as it has seen it.                                                *)
(***************************************************************************)
EXTENDS Versioned

CONSTANTS Client, Content

VARIABLES
    row,        \* what is written
    pending     \* what the clients that wait for a write have seen

RowState == [content : Content, version : Nat]

Nothing == [is |-> "nothing"]     \* the client does not wait
Blind   == [is |-> "blind"]       \* it waits and has not seen the row

Init ==
    /\ row \in [content : Content, version : {0}]
    /\ pending = [c \in Client |-> Nothing]

Ask(c) ==
    /\ pending[c] = Nothing /\ pending'[c] # Nothing
    /\ \/ pending'[c] = Blind
       \/ pending'[c] \in RowState /\ SameIfSameVersion(pending'[c], row)
    /\ pending' = [pending EXCEPT ![c] = pending'[c]]
    /\ UNCHANGED row

Rewritten ==
    /\ row'.version = NextVersion(row)
    /\ row' \in RowState

\* Nobody has written what the client has not seen.
Write(c) ==
    /\ pending[c] = row
    /\ Rewritten
    /\ pending' = [pending EXCEPT ![c] = Nothing]

Refuse(c) ==
    /\ pending[c] # Nothing
    /\ pending' = [pending EXCEPT ![c] = Nothing]
    /\ UNCHANGED row

\* Somebody who is no client of the page.
WriteByOthers ==
    /\ Rewritten
    /\ UNCHANGED pending

Next == \/ \E c \in Client : Ask(c) \/ Write(c) \/ Refuse(c)
        \/ WriteByOthers

vars == <<row, pending>>

Spec == Init /\ [][Next]_vars
=============================================================================
