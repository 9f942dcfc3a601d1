------------------------- MODULE AccessLevelsProofs -------------------------
(***************************************************************************)
(* What AccessLevels guarantees for any accounts, keys and requests.       *)
(***************************************************************************)
EXTENDS AccessLevels, TLAPS

-----------------------------------------------------------------------------
(* Types *)

\* The fields of a row, and what a row that does not exist, or is active, is.
LEMMA RowFields ==
  ASSUME NEW row \in MappingRow
  PROVE  /\ row.exists \in BOOLEAN /\ row.isActive \in BOOLEAN
         /\ row.key \in Key \cup {NoKey} /\ row.version \in Nat
         /\ ~row.exists <=> row = Absent
         /\ row.isActive => row.exists
<1>1. CASE row = Absent
  BY <1>1 DEF Absent
<1>2. CASE row \in [exists : {TRUE}, isActive : BOOLEAN,
                    key : Key \cup {NoKey}, version : Nat]
  <2>1. /\ row.exists = TRUE /\ row.isActive \in BOOLEAN
        /\ row.key \in Key \cup {NoKey} /\ row.version \in Nat
    BY <1>2
  <2>2. Absent.exists = FALSE
    BY DEF Absent
  <2>3. QED
    BY <2>1, <2>2
<1>3. QED
  BY <1>1, <1>2 DEF MappingRow

\* A request stays well typed when its phase changes, when it fetches the
\* account and when it reads the levels.
LEMMA RequestUpdate ==
  ASSUME TypeOK, NEW o \in Request, NEW p \in Phase
  PROVE  /\ request[o] \in RequestRecord
         /\ request[o].target \in Account
         /\ request[o].level \in Level
         /\ [request EXCEPT ![o].phase = p] \in [Request -> RequestRecord]
         /\ \A row \in AccountRow :
              [request EXCEPT ![o].phase = p, ![o].held = row]
                \in [Request -> RequestRecord]
         /\ \A snap \in [Level -> MappingRow] :
              [request EXCEPT ![o].phase = p, ![o].snap = snap]
                \in [Request -> RequestRecord]
<1> request \in [Request -> RequestRecord]
  BY DEF TypeOK
<1>1. /\ request[o] \in RequestRecord
      /\ request[o].target \in Account
      /\ request[o].level \in Level
  BY DEF RequestRecord
<1>2. [request EXCEPT ![o].phase = p] \in [Request -> RequestRecord]
  BY DEF RequestRecord
<1>3. ASSUME NEW row \in AccountRow
      PROVE  [request EXCEPT ![o].phase = p, ![o].held = row]
               \in [Request -> RequestRecord]
  BY DEF RequestRecord
<1>4. ASSUME NEW snap \in [Level -> MappingRow]
      PROVE  [request EXCEPT ![o].phase = p, ![o].snap = snap]
               \in [Request -> RequestRecord]
  BY DEF RequestRecord
<1>5. QED
  BY <1>1, <1>2, <1>3, <1>4

\* What a flush writes is a row of the table.
LEMMA WrittenType ==
  ASSUME TypeOK, NEW o \in Request PROVE Written(o) \in MappingRow
<1>1. Seen(o) \in MappingRow
  BY DEF TypeOK, RequestRecord, Seen
<1>2. request[o].key \in Key \cup {NoKey}
  BY DEF TypeOK, RequestRecord
<1>3. Seen(o).key \in Key \cup {NoKey} /\ Seen(o).version \in Nat
  BY <1>1, RowFields
<1>4. QED
  BY <1>2, <1>3 DEF Written, RowKept, MappingRow, NextVersion

\* Type correctness.
THEOREM TypeCorrect == Spec => []TypeOK
<1>1. Init => TypeOK
  <2> SUFFICES ASSUME Init PROVE TypeOK
    OBVIOUS
  <2>1. account \in [Account -> AccountRow]
    BY LevelsAssumption DEF Init, AccountRow
  <2>2. UNION {InitialRow(l) : l \in Level} \subseteq MappingRow
    <3>1. ASSUME NEW l \in Level PROVE InitialRow(l) \subseteq MappingRow
      <4> DEFINE keys == IF l \in Keyed THEN Key ELSE {NoKey}
      <4>1. keys \subseteq Key \cup {NoKey}
        OBVIOUS
      <4>2. InitialRow(l) = {Absent} \cup [exists : {TRUE}, isActive : BOOLEAN,
                                          key : keys, version : {0}]
        BY DEF InitialRow
      <4> HIDE DEF keys
      <4>3. ASSUME NEW row \in [exists : {TRUE}, isActive : BOOLEAN,
                               key : keys, version : {0}]
            PROVE  row \in [exists : {TRUE}, isActive : BOOLEAN,
                            key : Key \cup {NoKey}, version : Nat]
        <5>1. row.key \in Key \cup {NoKey} /\ row.version \in Nat
          BY <4>1
        <5>2. QED
          BY <5>1
      <4>4. QED
        BY <4>2, <4>3 DEF MappingRow
    <3>2. QED
      BY <3>1
  <2>3. mapping \in [Account -> [Level -> MappingRow]]
    BY <2>2 DEF Init
  <2>4. /\ Unread \in [Level -> MappingRow]
        /\ [isActive : {FALSE}, version : {0}] \subseteq AccountRow
    <3>1. Absent \in MappingRow
      BY DEF MappingRow
    <3>2. QED
      <4>1. Unread \in [Level -> MappingRow]
        BY <3>1 DEF Unread
      <4>2. 0 \in 0..MaxVersion
        BY LevelsAssumption
      <4>3. [isActive : {FALSE}, version : {0}] \subseteq AccountRow
        BY <4>2 DEF AccountRow
      <4>4. QED
        BY <4>1, <4>3
  <2>5. request \in [Request -> RequestRecord]
    BY <2>4 DEF Init, RequestRecord, Phase
  <2>6. QED
    BY <2>1, <2>3, <2>5 DEF TypeOK
<1>2. TypeOK /\ [Next]_vars => TypeOK'
  <2> SUFFICES ASSUME TypeOK, [Next]_vars PROVE TypeOK'
    OBVIOUS
  <2>1. ASSUME NEW o \in Request, View(o) PROVE TypeOK'
    <3>1. account[request[o].target] \in AccountRow /\ "viewed" \in Phase
      BY RequestUpdate DEF TypeOK, Phase
    <3>2. QED
      BY <2>1, <3>1, RequestUpdate DEF View, TypeOK
  <2>2. ASSUME NEW o \in Request, Begin(o) PROVE TypeOK'
    <3>1. mapping[request[o].target] \in [Level -> MappingRow] /\ "flushing" \in Phase
      BY RequestUpdate DEF TypeOK, Phase
    <3>2. QED
      BY <2>2, <3>1, RequestUpdate DEF Begin, TypeOK
  <2>3. ASSUME NEW o \in Request, Refuse(o) \/ Fail(o) PROVE TypeOK'
    <3>1. "refused" \in Phase
      BY DEF Phase
    <3>2. request' = [request EXCEPT ![o].phase = "refused"]
      BY <2>3 DEF Refuse, Fail, SetPhase
    <3>3. request' \in [Request -> RequestRecord]
      BY <3>1, <3>2, RequestUpdate
    <3>4. QED
      BY <2>3, <3>3 DEF Refuse, Fail, TypeOK
  <2>4. ASSUME NEW o \in Request, Commit(o) PROVE TypeOK'
    <3>1. request' \in [Request -> RequestRecord]
      BY <2>4, RequestUpdate DEF Commit, SetPhase, Phase
    <3>2. mapping' \in [Account -> [Level -> MappingRow]]
      BY <2>4, WrittenType, RequestUpdate DEF Commit, TypeOK, Phase
    <3>3. QED
      BY <2>4, <3>1, <3>2 DEF Commit, TypeOK
  <2>5. ASSUME NEW a \in Account, ChangeAccount(a) PROVE TypeOK'
    <3>1. PICK active \in {account[a].isActive, TRUE} :
            account' = [account EXCEPT ![a] = [isActive |-> active,
                                               version  |-> NextVersion(@)]]
      BY <2>5 DEF ChangeAccount
    <3>2. active \in BOOLEAN /\ NextVersion(account[a]) \in 0..MaxVersion
      <4>1. account[a] \in AccountRow
        BY DEF TypeOK
      <4>2. account[a].isActive \in BOOLEAN /\ account[a].version \in 0..MaxVersion
        BY <4>1 DEF AccountRow
      <4>3. account[a].version < MaxVersion
        BY <2>5 DEF ChangeAccount
      <4>4. QED
        <5>1. active \in BOOLEAN
          BY <3>1, <4>2
        <5>2. account[a].version + 1 \in 0..MaxVersion
          BY <4>2, <4>3, LevelsAssumption
        <5>3. QED
          BY <5>1, <5>2 DEF NextVersion
    <3>3. account' \in [Account -> AccountRow]
      BY <3>1, <3>2 DEF TypeOK, AccountRow
    <3>4. QED
      BY <2>5, <3>3 DEF ChangeAccount, TypeOK
  <2>6. CASE UNCHANGED vars
    BY <2>6 DEF vars, TypeOK
  <2>7. QED
    BY <2>1, <2>2, <2>3, <2>4, <2>5, <2>6 DEF Next, RequestStep
<1>3. QED
  BY <1>1, <1>2, PTL DEF Spec

-----------------------------------------------------------------------------
(* The optimistic lock on the rows of the levels. *)

\* What an open transaction knows of its target's levels.
FlushingSaw ==
    \A o \in Request : request[o].phase = "flushing" =>
      /\ Seen(o).exists => SameIfSameVersion(Seen(o), Row(o))
      /\ request[o].kind # "add" => Seen(o).isActive
      /\ request[o].kind = "revoke" => SeveralActive(request[o].snap)

\* A transaction that commits has read the row it overwrites.
LEMMA CommitReads ==
  ASSUME TypeOK, FlushingSaw, NEW o \in Request, Commit(o)
  PROVE  Row(o) = Seen(o)
<1>1. Row(o) \in MappingRow /\ Seen(o) \in MappingRow
  BY DEF TypeOK, RequestRecord, Row, Seen
<1>2. CASE Seen(o).exists
  BY <1>2 DEF Commit, Flushes, RowFlushes, Fresh, FlushingSaw, SameIfSameVersion
<1>3. CASE ~Seen(o).exists
  <2>1. ~Row(o).exists
    BY <1>3 DEF Commit, Flushes, RowFlushes
  <2>2. QED
    BY <1>1, <1>3, <2>1, RowFields
<1>4. QED
  BY <1>2, <1>3

\* A row changes only by the commit of a request about it.
LEMMA RowChanges ==
  ASSUME TypeOK, [Next]_vars, NEW a \in Account, NEW l \in Level,
         mapping'[a][l] # mapping[a][l]
  PROVE  \E o \in Request : /\ Commit(o)
                            /\ request[o].target = a /\ request[o].level = l
                            /\ mapping'[a][l] = Written(o)
                            /\ \A m \in Level : m # l => mapping'[a][m] = mapping[a][m]
<1>1. ASSUME NEW o \in Request, Commit(o)
      PROVE  /\ request[o].target = a /\ request[o].level = l
             /\ mapping'[a][l] = Written(o)
             /\ \A m \in Level : m # l => mapping'[a][m] = mapping[a][m]
  BY <1>1 DEF Commit, TypeOK
<1>2. QED
  BY <1>1
  DEF Next, RequestStep, View, Begin, Refuse, Fail, ChangeAccount, vars

\* A request that is flushing after a step has just read its target's levels,
\* or was flushing before.
LEMMA RequestReads ==
  ASSUME TypeOK, [Next]_vars, NEW o \in Request, request'[o].phase = "flushing"
  PROVE  \/ request'[o] = request[o]
         \/ /\ Admitted(o)
            /\ mapping' = mapping
            /\ request'[o] = [request[o] EXCEPT
                                !.phase = "flushing",
                                !.snap = mapping[request[o].target]]
<1> request \in [Request -> RequestRecord]
  BY DEF TypeOK
<1>1. ASSUME NEW q \in Request, RequestStep(q), q # o PROVE request'[o] = request[o]
  BY <1>1 DEF RequestStep, View, Begin, Refuse, Commit, Fail, SetPhase
<1>2. CASE Begin(o)
  BY <1>2 DEF Begin, RequestRecord
<1>3. CASE View(o)
  BY <1>3 DEF View, RequestRecord
<1>4. CASE Refuse(o) \/ Commit(o) \/ Fail(o)
  BY <1>4 DEF Refuse, Commit, Fail, SetPhase, RequestRecord
<1>5. CASE request' = request
  BY <1>5
<1>6. QED
  BY <1>1, <1>2, <1>3, <1>4, <1>5 DEF Next, RequestStep, ChangeAccount, vars

\* FlushingSaw is an invariant: every update takes the next version.
LEMMA FlushingSawHolds == Spec => []FlushingSaw
<1>1. Init => FlushingSaw
  BY DEF Init, FlushingSaw
<1>2. TypeOK /\ FlushingSaw /\ [Next]_vars => FlushingSaw'
  <2> SUFFICES ASSUME TypeOK, FlushingSaw, [Next]_vars, NEW o \in Request,
                      request'[o].phase = "flushing"
               PROVE  /\ Seen(o)'.exists => SameIfSameVersion(Seen(o)', Row(o)')
                      /\ request'[o].kind # "add" => Seen(o)'.isActive
                      /\ request'[o].kind = "revoke" => SeveralActive(request'[o].snap)
    BY DEF FlushingSaw
  <2> DEFINE a == request[o].target
             l == request[o].level
  <2>1. /\ a \in Account /\ l \in Level
        /\ request[o] \in RequestRecord
        /\ mapping[a][l] \in MappingRow
        /\ Seen(o) \in MappingRow
    BY DEF TypeOK, RequestRecord, Seen
  <2>2. CASE request'[o] = request[o]
    <3>1. Seen(o)' = Seen(o) /\ Row(o) = mapping[a][l] /\ Row(o)' = mapping'[a][l]
      BY <2>2 DEF Seen, Row
    <3>2. ASSUME Seen(o).exists
          PROVE  Advances(mapping[a][l], mapping'[a][l])
      <4>1. CASE mapping'[a][l] = mapping[a][l]
        BY <4>1 DEF Advances
      <4>2. CASE mapping'[a][l] # mapping[a][l]
        <5>1. PICK q \in Request : /\ Commit(q)
                                   /\ request[q].target = a /\ request[q].level = l
                                   /\ mapping'[a][l] = Written(q)
          BY <2>1, <4>2, RowChanges
        <5>2. Seen(q) = mapping[a][l]
          BY <5>1, CommitReads DEF Row
        <5>3. SameIfSameVersion(Seen(o), mapping[a][l])
          BY <2>2, <3>1, <3>2 DEF FlushingSaw
        <5>4. mapping[a][l].exists
          BY <2>1, <3>2, <5>3, RowFields DEF SameIfSameVersion, Absent
        <5>5. QED
          BY <5>1, <5>2, <5>4 DEF Written, NextVersion, Advances
      <4>3. QED
        BY <4>1, <4>2
    <3>3. Seen(o).version \in Nat /\ mapping[a][l].version \in Nat
      BY <2>1, RowFields
    <3>4. ASSUME Seen(o).exists PROVE SameIfSameVersion(Seen(o), mapping'[a][l])
      BY <2>2, <3>1, <3>2, <3>3, <3>4
         DEF FlushingSaw, Advances, SameIfSameVersion
    <3>5. QED
      BY <2>2, <3>1, <3>4 DEF FlushingSaw
  <2>3. CASE /\ Admitted(o)
             /\ mapping' = mapping
             /\ request'[o] = [request[o] EXCEPT
                                 !.phase = "flushing",
                                 !.snap = mapping[request[o].target]]
    <3>1. /\ Seen(o)' = mapping[a][l] /\ Row(o)' = mapping[a][l]
          /\ Row(o) = mapping[a][l]
          /\ request'[o].kind = request[o].kind
          /\ request'[o].snap = mapping[a]
      BY <2>1, <2>3 DEF Seen, Row, RequestRecord
    <3>2. SameIfSameVersion(mapping[a][l], mapping[a][l])
      BY <2>1, RowFields DEF SameIfSameVersion
    <3>3. request[o].kind \in Kind
      BY <2>1 DEF RequestRecord
    <3>4. QED
      BY <2>3, <3>1, <3>2, <3>3
      DEF Admitted, MayAdd, MayRevoke, MayChangePhone, Kind
  <2>4. QED
    BY <2>2, <2>3, RequestReads
<1>3. QED
  BY <1>1, <1>2, TypeCorrect, PTL DEF Spec

-----------------------------------------------------------------------------
(* What follows from it. *)

\* A request commits on the very row its checks have read: of two grants, or a
\* grant, a revocation and a phone number, that read the same row one is lost.
CommitsOnWhatItRead ==
    [][\A o \in Request :
         request[o].phase = "flushing" /\ request'[o].phase = "done" =>
           Row(o) = Seen(o)]_vars

\* Two requests that read the same row never both commit.
THEOREM NoLostUpdate == Spec => CommitsOnWhatItRead
<1>1. TypeOK /\ FlushingSaw /\ [Next]_vars =>
        [\A o \in Request :
           request[o].phase = "flushing" /\ request'[o].phase = "done" =>
             Row(o) = Seen(o)]_vars
  <2> SUFFICES ASSUME TypeOK, FlushingSaw, [Next]_vars, NEW o \in Request,
                      request[o].phase = "flushing", request'[o].phase = "done"
               PROVE  Row(o) = Seen(o)
    OBVIOUS
  <2> request \in [Request -> RequestRecord]
    BY DEF TypeOK
  <2>1. CASE Commit(o)
    BY <2>1, CommitReads
  <2>2. ASSUME NEW q \in Request, RequestStep(q), q # o PROVE FALSE
    BY <2>2 DEF RequestStep, View, Begin, Refuse, Commit, Fail, SetPhase
  <2>3. ASSUME RequestStep(o), ~Commit(o) PROVE FALSE
    <3>1. Fail(o)
      BY <2>3 DEF RequestStep, View, Begin, Refuse
    <3>2. QED
      BY <3>1 DEF Fail, SetPhase
  <2>4. CASE request' = request
    BY <2>4
  <2>5. QED
    BY <2>1, <2>2, <2>3, <2>4 DEF Next, ChangeAccount, vars
<1>2. QED
  BY <1>1, TypeCorrect, FlushingSawHolds, PTL DEF Spec, CommitsOnWhatItRead

\* No phone number and no license is ever held twice.
THEOREM KeysAreUnique == Spec => []UniqueKeys
<1>1. Init => UniqueKeys
  BY DEF Init
<1>2. TypeOK /\ FlushingSaw /\ UniqueKeys /\ [Next]_vars => UniqueKeys'
  <2> SUFFICES ASSUME TypeOK, FlushingSaw, UniqueKeys, [Next]_vars
               PROVE  UniqueKeys'
    OBVIOUS
  <2>1. CASE mapping' = mapping
    BY <2>1 DEF UniqueKeys
  <2>2. ASSUME NEW o \in Request, Commit(o) PROVE UniqueKeys'
    <3> DEFINE t == request[o].target
               l == request[o].level
    <3>1. t \in Account /\ l \in Level
      BY DEF TypeOK, RequestRecord
    <3>2. /\ mapping'[t][l] = Written(o)
          /\ \A b \in Account, m \in Level :
               b # t \/ m # l => mapping'[b][m] = mapping[b][m]
      BY <2>2, <3>1 DEF Commit, TypeOK
    <3>3. ASSUME l \in Keyed, NEW b \in Account, b # t, mapping[b][l].exists
          PROVE  mapping[b][l].key # Written(o).key
      <4>1. CASE request[o].kind = "revoke"
        <5>1. Seen(o).isActive /\ Seen(o) = mapping[t][l]
          BY <2>2, <4>1, CommitReads DEF Commit, FlushingSaw, Row
        <5>2. mapping[t][l].exists
          BY <3>1, <5>1, RowFields DEF TypeOK
        <5>3. QED
          BY <3>1, <3>3, <4>1, <5>1, <5>2 DEF UniqueKeys, Written
      <4>2. CASE request[o].kind # "revoke"
        BY <2>2, <3>3, <4>2 DEF Commit, Flushes, UniqueIndex, KeyTaken, Written
      <4>3. QED
        BY <4>1, <4>2
    <3> HIDE DEF t, l
    <3>4. QED
      BY <3>1, <3>2, <3>3 DEF UniqueKeys, Keyed, Level
  <2>3. QED
    BY <2>1, <2>2
    DEF Next, RequestStep, View, Begin, Refuse, Fail, ChangeAccount, vars
<1>3. QED
  BY <1>1, <1>2, TypeCorrect, FlushingSawHolds, PTL DEF Spec

\* Only write skew takes the last active level.
THEOREM SkewTakesLastLevel == Spec => LastLevelLostOnlyBySkew
<1> DEFINE Skew(a) ==
      \E o \in Request, l \in Level :
        /\ request[o].phase = "flushing" /\ request[o].kind = "revoke"
        /\ request[o].target = a
        /\ l # request[o].level
        /\ request[o].snap[l].isActive /\ ~mapping[a][l].isActive
<1>1. TypeOK /\ FlushingSaw /\ [Next]_vars =>
        [\A a \in Account :
           AnyActive(mapping[a]) /\ ~AnyActive(mapping'[a]) => Skew(a)]_vars
  <2> SUFFICES ASSUME TypeOK, FlushingSaw, [Next]_vars, NEW a \in Account,
                      AnyActive(mapping[a]), ~AnyActive(mapping'[a])
               PROVE  Skew(a)
    OBVIOUS
  <2>1. PICK l \in Level : mapping[a][l].isActive /\ ~mapping'[a][l].isActive
    BY DEF AnyActive
  <2>2. PICK o \in Request :
          /\ Commit(o)
          /\ request[o].target = a /\ request[o].level = l
          /\ mapping'[a][l] = Written(o)
          /\ \A m \in Level : m # l => mapping'[a][m] = mapping[a][m]
    BY <2>1, RowChanges
  <2>3. request[o].phase = "flushing" /\ request[o].kind = "revoke"
    <3>1. ASSUME request[o].kind # "revoke" PROVE FALSE
      <4>1. Written(o).isActive = TRUE
        BY <3>1 DEF Written
      <4>2. QED
        BY <2>1, <2>2, <4>1
    <3>2. QED
      BY <2>2, <3>1 DEF Commit
  <2>4. PICK m \in Level : m # l /\ request[o].snap[m].isActive
    BY <2>3 DEF FlushingSaw, SeveralActive
  <2>5. ~mapping[a][m].isActive
    BY <2>2, <2>4 DEF AnyActive
  <2>6. QED
    BY <2>2, <2>3, <2>4, <2>5
<1>2. QED
  BY <1>1, TypeCorrect, FlushingSawHolds, PTL DEF Spec, LastLevelLostOnlyBySkew

\* A revoked level becomes active again only by a grant, never by a change of
\* the phone number that read the owner before the revocation and writes its
\* whole row after it.
RevocationSticks ==
    [][\A a \in Account, l \in Level :
         ~mapping[a][l].isActive /\ mapping'[a][l].isActive =>
           \E o \in Request :
             /\ request[o].phase = "flushing" /\ request[o].kind = "add"
             /\ request[o].target = a /\ request[o].level = l]_vars

\* Nothing but a grant reactivates a revoked level.
THEOREM RevocationsStick == Spec => RevocationSticks
<1> DEFINE Granted(a, l) ==
      \E o \in Request : /\ request[o].phase = "flushing" /\ request[o].kind = "add"
                         /\ request[o].target = a /\ request[o].level = l
<1>1. TypeOK /\ FlushingSaw /\ [Next]_vars =>
        [\A a \in Account, l \in Level :
           ~mapping[a][l].isActive /\ mapping'[a][l].isActive => Granted(a, l)]_vars
  <2> SUFFICES ASSUME TypeOK, FlushingSaw, [Next]_vars,
                      NEW a \in Account, NEW l \in Level,
                      ~mapping[a][l].isActive, mapping'[a][l].isActive
               PROVE  Granted(a, l)
    OBVIOUS
  <2>1. PICK o \in Request : /\ Commit(o)
                             /\ request[o].target = a /\ request[o].level = l
                             /\ mapping'[a][l] = Written(o)
    BY RowChanges
  <2>2. Seen(o) = mapping[a][l] /\ request[o].phase = "flushing"
    BY <2>1, CommitReads DEF Row, Commit
  <2>3. request[o].kind = "add"
    BY <2>2 DEF FlushingSaw
  <2>4. QED
    BY <2>1, <2>2, <2>3
<1>2. QED
  BY <1>1, TypeCorrect, FlushingSawHolds, PTL DEF Spec, RevocationSticks

-----------------------------------------------------------------------------
(* What the checks established, and still holds at the commit *)

\* Callers, targets and keys do not change, a confirmed account stays confirmed,
\* and the rest is about the row as it was read.
FlushingChecked ==
    \A o \in Request : request[o].phase = "flushing" =>
      /\ request[o].kind # "phone" =>
           NotOnSelf(o) /\ account[request[o].target].isActive
      /\ request[o].kind = "add" => ~Seen(o).isActive
      /\ request[o].kind = "phone" => Seen(o).key # request[o].key

\* No step takes back that an account is confirmed.
LEMMA ConfirmedStays ==
  ASSUME TypeOK, [Next]_vars, NEW a \in Account, account[a].isActive
  PROVE  account'[a].isActive
<1>1. ASSUME NEW b \in Account, ChangeAccount(b) PROVE account'[a].isActive
  <2>1. PICK active \in {account[b].isActive, TRUE} :
          account' = [account EXCEPT ![b] = [isActive |-> active,
                                             version  |-> NextVersion(@)]]
    BY <1>1 DEF ChangeAccount
  <2>2. account \in [Account -> AccountRow]
    BY DEF TypeOK
  <2>3. CASE a = b
    <3>1. account'[a].isActive = active
      BY <2>1, <2>2, <2>3
    <3>2. QED
      BY <2>1, <2>3, <3>1
  <2>4. CASE a # b
    BY <2>1, <2>2, <2>4
  <2>5. QED
    BY <2>3, <2>4
<1>2. CASE UNCHANGED account
  BY <1>2
<1>3. QED
  BY <1>1, <1>2
  DEF Next, RequestStep, View, Begin, Refuse, Commit, Fail, vars

\* It is an invariant.
LEMMA FlushingCheckedHolds == Spec => []FlushingChecked
<1>1. Init => FlushingChecked
  BY DEF Init, FlushingChecked
<1>2. TypeOK /\ FlushingChecked /\ [Next]_vars => FlushingChecked'
  <2> SUFFICES ASSUME TypeOK, FlushingChecked, [Next]_vars, NEW o \in Request,
                      request'[o].phase = "flushing"
               PROVE  /\ request'[o].kind # "phone" =>
                           NotOnSelf(o)' /\ account'[request'[o].target].isActive
                      /\ request'[o].kind = "add" => ~Seen(o)'.isActive
                      /\ request'[o].kind = "phone" =>
                           Seen(o)'.key # request'[o].key
    BY DEF FlushingChecked
  <2>1. request[o] \in RequestRecord /\ request[o].target \in Account
    BY DEF TypeOK, RequestRecord
  <2>2. CASE request'[o] = request[o]
    BY <2>1, <2>2, ConfirmedStays DEF FlushingChecked, Seen, NotOnSelf
  <2>3. CASE /\ Admitted(o)
             /\ mapping' = mapping
             /\ request'[o] = [request[o] EXCEPT
                                 !.phase = "flushing",
                                 !.snap = mapping[request[o].target]]
    <3>1. /\ request'[o].kind = request[o].kind /\ request'[o].key = request[o].key
          /\ request'[o].caller = request[o].caller
          /\ request'[o].target = request[o].target
          /\ Seen(o)' = Row(o)
      BY <2>1, <2>3 DEF Seen, Row, RequestRecord
    <3>2. CASE MayAdd(o) \/ MayRevoke(o)
      BY <2>1, <3>1, <3>2, ConfirmedStays DEF MayAdd, MayRevoke, NotOnSelf
    <3>3. CASE MayChangePhone(o)
      BY <3>1, <3>3 DEF MayChangePhone
    <3>4. QED
      BY <2>3, <3>2, <3>3 DEF Admitted
  <2>4. QED
    BY <2>2, <2>3, RequestReads
<1>3. QED
  BY <1>1, <1>2, TypeCorrect, PTL DEF Spec

-----------------------------------------------------------------------------
(* Every step is one of LevelChanges, or is not seen there *)

Public == <<Confirmed, Levels, Spared, Asked, Outcome>>

\* A request goes on with what it was asked for.
LEMMA PhaseMoves ==
  ASSUME TypeOK, TypeOK', NEW o \in Request,
         \A q \in Request \ {o} : request'[q] = request[q],
         request'[o].kind = request[o].kind, request'[o].caller = request[o].caller,
         request'[o].target = request[o].target, request'[o].level = request[o].level,
         request'[o].key = request[o].key
  PROVE  /\ Asked' = Asked
         /\ request[o].phase \notin {"done", "refused"} =>
              /\ Outcome[o] = "open"
              /\ request'[o].phase \in {"done", "refused"} =>
                   /\ Outcome' = [Outcome EXCEPT ![o] = request'[o].phase]
                   /\ Spared' = Spared \ {o}
              /\ request'[o].phase \notin {"done", "refused"} => Outcome' = Outcome
<1>1. Asked' = Asked
  BY DEF Asked
<1>2. ASSUME request[o].phase \notin {"done", "refused"}
      PROVE  /\ Outcome[o] = "open"
             /\ request'[o].phase \in {"done", "refused"} =>
                  Outcome' = [Outcome EXCEPT ![o] = request'[o].phase]
             /\ request'[o].phase \notin {"done", "refused"} => Outcome' = Outcome
  BY <1>2 DEF Outcome
<1>3. ASSUME request'[o].phase \in {"done", "refused"}
      PROVE  Spared' = Spared \ {o}
  BY <1>3 DEF Spared
<1>4. QED
  BY <1>1, <1>2, <1>3

\* What a step that only sets the phase of a request makes of it.
LEMMA PhaseSet ==
  ASSUME TypeOK, NEW o \in Request, NEW p, SetPhase(o, p)
  PROVE  /\ \A q \in Request \ {o} : request'[q] = request[q]
         /\ request'[o] = [request[o] EXCEPT !.phase = p]
         /\ request'[o].phase = p
         /\ request'[o].kind = request[o].kind
         /\ request'[o].caller = request[o].caller
         /\ request'[o].target = request[o].target
         /\ request'[o].level = request[o].level
         /\ request'[o].key = request[o].key
BY DEF TypeOK, SetPhase, RequestRecord

\* A request ends.
LEMMA RequestEnds ==
  ASSUME TypeOK, TypeOK', NEW o \in Request, NEW p \in {"done", "refused"},
         SetPhase(o, p), request[o].phase \notin {"done", "refused"},
         UNCHANGED account
  PROVE  Atomic!End(o, p)
<1>1. /\ \A q \in Request \ {o} : request'[q] = request[q]
      /\ request'[o].phase = p
      /\ request'[o].kind = request[o].kind /\ request'[o].caller = request[o].caller
      /\ request'[o].target = request[o].target
      /\ request'[o].level = request[o].level /\ request'[o].key = request[o].key
  BY PhaseSet
<1>2. /\ Asked' = Asked /\ Outcome[o] = "open"
      /\ Outcome' = [Outcome EXCEPT ![o] = p]
      /\ Spared' = Spared \ {o}
  BY <1>1, PhaseMoves
<1>3. Confirmed' = Confirmed
  BY DEF Confirmed
<1>4. QED
  BY <1>2, <1>3 DEF Atomic!End

\* A request is refused by the checks, the database or the mail server.
LEMMA Refuses ==
  ASSUME TypeOK, TypeOK', NEW o \in Request, Refuse(o) \/ Fail(o)
  PROVE  Atomic!Refuse(o)
<1>1. Atomic!End(o, "refused")
  BY RequestEnds DEF Refuse, Fail
<1>2. Levels' = Levels
  BY DEF Refuse, Fail, Levels
<1>3. QED
  BY <1>1, <1>2 DEF Atomic!Refuse

\* What is seen of the level a request asks for.
LEMMA AboutIt ==
  ASSUME TypeOK, NEW o \in Request
  PROVE  /\ Atomic!Target(o) = request[o].target
         /\ Atomic!About(o) = [is |-> Standing(Row(o)), key |-> Row(o).key]
         /\ Asked[o].kind = request[o].kind /\ Asked[o].caller = request[o].caller
         /\ Asked[o].level = request[o].level /\ Asked[o].key = request[o].key
<1>1. request[o].target \in Account /\ request[o].level \in Level
  BY DEF TypeOK, RequestRecord
<1>2. QED
  BY <1>1, Zenon DEF Atomic!Target, Atomic!About, Asked, Levels, Row

\* A row that exists is written.
LEMMA LevelWritten ==
  ASSUME TypeOK, NEW o \in Request, Commit(o)
  PROVE  Atomic!Becomes(o, IF request[o].kind = "revoke" THEN "revoked" ELSE "active",
                        Written(o).key)
<1> DEFINE t == request[o].target
           l == request[o].level
           seen == [is  |-> Standing(Written(o)), key |-> Written(o).key]
<1>1. t \in Account /\ l \in Level
  BY DEF TypeOK, RequestRecord
<1>2. /\ mapping' = [mapping EXCEPT ![t][l] = Written(o)]
      /\ mapping \in [Account -> [Level -> MappingRow]]
  BY DEF Commit, TypeOK
<1>3. \A a \in Account, m \in Level :
        mapping'[a][m] = IF a = t /\ m = l THEN Written(o) ELSE mapping[a][m]
  BY <1>1, <1>2
<1>4. Levels' = [Levels EXCEPT ![t][l] = seen]
  <2> DEFINE Cell(a, m) == IF a = t /\ m = l THEN seen ELSE Levels[a][m]
  <2>1. \A a \in Account, m \in Level : Levels'[a][m] = Cell(a, m)
    BY <1>3 DEF Levels
  <2>2. Levels' = [a \in Account |-> [m \in Level |-> Levels'[a][m]]]
    BY DEF Levels
  <2> HIDE DEF seen
  <2>3. [Levels EXCEPT ![t][l] = seen] = [a \in Account |-> [m \in Level |-> Cell(a, m)]]
    BY <1>1 DEF Levels
  <2> HIDE DEF Cell
  <2>4. QED
    BY <2>1, <2>2, <2>3
<1>5. Standing(Written(o)) = IF request[o].kind = "revoke" THEN "revoked" ELSE "active"
  BY DEF Standing, Written, RowKept
<1>6. Atomic!Target(o) = t /\ Asked[o].level = l
  BY AboutIt
<1>7. QED
  BY <1>4, <1>5, <1>6 DEF Atomic!Becomes

\* The unique index lets only a free key pass.
LEMMA IndexFrees ==
  ASSUME TypeOK, NEW o \in Request, UniqueIndex(o), request[o].kind # "revoke"
  PROVE  Atomic!KeyFree(o)
<1>1. ASSUME request[o].level \in Keyed, NEW a \in Account \ {request[o].target},
             Levels[a][request[o].level].is # "never"
      PROVE  Levels[a][request[o].level].key # request[o].key
  <2>1. request[o].level \in Level
    BY DEF TypeOK, RequestRecord
  <2>2. mapping[a][request[o].level].exists
    BY <1>1, <2>1 DEF Levels, Standing
  <2>3. mapping[a][request[o].level].key # request[o].key
    BY <1>1, <2>2 DEF UniqueIndex, KeyTaken
  <2>4. QED
    BY <2>1, <2>3 DEF Levels
<1>2. QED
  BY <1>1, AboutIt DEF Atomic!KeyFree

\* A commit is a grant, a revocation or a new phone number, under the conditions
\* that were checked on the row that is overwritten.
LEMMA CommitsAtOnce ==
  ASSUME TypeOK, TypeOK', FlushingSaw, FlushingChecked, NEW o \in Request, Commit(o)
  PROVE  Atomic!Grant(o) \/ Atomic!Revoke(o) \/ Atomic!ChangePhone(o)
<1>1. /\ request[o].phase = "flushing" /\ Flushes(o)
      /\ Row(o) = Seen(o)
  BY CommitReads DEF Commit
<1> Row(o) \in MappingRow /\ request[o].kind \in Kind
  BY DEF TypeOK, RequestRecord, Row
<1>2. Atomic!End(o, "done")
  BY <1>1, RequestEnds DEF Commit
<1>3. Row(o).isActive <=> Standing(Row(o)) = "active"
  BY <1>1, RowFields DEF Standing
<1>4. request[o].kind # "phone" => Atomic!ByAnother(o)
  BY <1>1, AboutIt DEF FlushingChecked, NotOnSelf, Atomic!ByAnother, Confirmed,
                       TypeOK, RequestRecord
<1>5. request[o].kind # "revoke" => Atomic!KeyFree(o)
  BY <1>1, IndexFrees DEF Flushes
<1>6. CASE request[o].kind = "add"
  <2>1. Atomic!Becomes(o, "active", request[o].key)
    BY <1>6, LevelWritten DEF Written
  <2>2. Atomic!About(o).is # "active"
    BY <1>1, <1>3, <1>6, AboutIt DEF FlushingChecked
  <2>3. QED
    BY <1>2, <1>4, <1>5, <1>6, <2>1, <2>2, AboutIt DEF Atomic!Grant
<1>7. CASE request[o].kind = "revoke"
  <2>1. Atomic!Becomes(o, "revoked", Atomic!About(o).key)
    BY <1>1, <1>7, LevelWritten, AboutIt DEF Written
  <2>2. Atomic!About(o).is = "active"
    BY <1>1, <1>3, <1>7, AboutIt DEF FlushingSaw
  <2>3. o \in Spared
    BY <1>1, <1>7 DEF Spared
  <2>4. QED
    BY <1>2, <1>4, <1>7, <2>1, <2>2, <2>3, AboutIt DEF Atomic!Revoke
<1>8. CASE request[o].kind = "phone"
  <2>1. Atomic!Becomes(o, "active", request[o].key)
    BY <1>8, LevelWritten DEF Written
  <2>2. Atomic!About(o).is = "active" /\ Atomic!About(o).key # request[o].key
    BY <1>1, <1>3, <1>8, AboutIt DEF FlushingSaw, FlushingChecked
  <2>3. QED
    BY <1>2, <1>5, <1>8, <2>1, <2>2, AboutIt DEF Atomic!ChangePhone
<1>9. QED
  BY <1>1, <1>6, <1>7, <1>8 DEF Kind

\* To pass the checks is seen of a revocation only.
LEMMA BeginLooksUp ==
  ASSUME TypeOK, TypeOK', NEW o \in Request, Begin(o)
  PROVE  Atomic!LookUp(o) \/ UNCHANGED Public
<1>1. /\ \A q \in Request \ {o} : request'[q] = request[q]
      /\ request[o].phase = "viewed" /\ request'[o].phase = "flushing"
      /\ request'[o].kind = request[o].kind /\ request'[o].caller = request[o].caller
      /\ request'[o].target = request[o].target
      /\ request'[o].level = request[o].level /\ request'[o].key = request[o].key
  BY DEF Begin, TypeOK, RequestRecord
<1>2. Asked' = Asked /\ Outcome[o] = "open" /\ Outcome' = Outcome
  BY <1>1, PhaseMoves
<1>3. Confirmed' = Confirmed /\ Levels' = Levels
  BY DEF Begin, Confirmed, Levels
<1>4. CASE request[o].kind = "revoke"
  <2>1. Spared' = Spared \cup {o}
    BY <1>1, <1>4 DEF Spared
  <2>2. SeveralActive(mapping[request[o].target])
    BY <1>4 DEF Begin, Admitted, MayAdd, MayRevoke, MayChangePhone
  <2>3. PICK l, m \in Level : /\ l # m
                              /\ mapping[request[o].target][l].isActive
                              /\ mapping[request[o].target][m].isActive
    BY <2>2 DEF SeveralActive
  <2>4. request[o].target \in Account
    BY DEF TypeOK, RequestRecord
  <2>5. l \in Atomic!Active(request[o].target) /\ m \in Atomic!Active(request[o].target)
    <3>1. /\ mapping[request[o].target][l].exists
          /\ mapping[request[o].target][m].exists
      BY <2>3, <2>4, RowFields DEF TypeOK
    <3>2. QED
      BY <2>3, <2>4, <3>1 DEF Atomic!Active, Levels, Standing
  <2>6. QED
    BY <1>2, <1>3, <1>4, <2>1, <2>3, <2>5, AboutIt DEF Atomic!LookUp
<1>5. CASE request[o].kind # "revoke"
  <2>1. Spared' = Spared
    BY <1>1, <1>5 DEF Spared
  <2>2. QED
    BY <1>2, <1>3, <2>1 DEF Public
<1>6. QED
  BY <1>4, <1>5

\* What a client sees of the account is not.
LEMMA ViewIsUnseen ==
  ASSUME TypeOK, TypeOK', NEW o \in Request, View(o)
  PROVE  UNCHANGED Public
<1>1. /\ \A q \in Request \ {o} : request'[q] = request[q]
      /\ request[o].phase = "viewing" /\ request'[o].phase = "viewed"
      /\ request'[o].kind = request[o].kind /\ request'[o].caller = request[o].caller
      /\ request'[o].target = request[o].target
      /\ request'[o].level = request[o].level /\ request'[o].key = request[o].key
  BY DEF View, TypeOK, RequestRecord
<1>2. Asked' = Asked /\ Outcome' = Outcome
  BY <1>1, PhaseMoves
<1>3. Spared' = Spared
  BY <1>1 DEF Spared
<1>4. Confirmed' = Confirmed /\ Levels' = Levels
  BY DEF View, Confirmed, Levels
<1>5. QED
  BY <1>2, <1>3, <1>4 DEF Public

\* Another operation confirms the account, or is not seen.
LEMMA ChangeConfirms ==
  ASSUME TypeOK, NEW a \in Account, ChangeAccount(a)
  PROVE  Atomic!Confirm(a) \/ UNCHANGED Public
<1>1. PICK active \in {account[a].isActive, TRUE} :
        account' = [account EXCEPT ![a] = [isActive |-> active,
                                           version  |-> NextVersion(@)]]
  BY DEF ChangeAccount
<1>2. account \in [Account -> AccountRow]
  BY DEF TypeOK
<1>3. /\ account'[a].isActive = active
      /\ \A b \in Account \ {a} : account'[b] = account[b]
  BY <1>1, <1>2
<1>4. UNCHANGED <<Levels, Spared, Asked, Outcome>>
  BY DEF ChangeAccount, Levels, Spared, Asked, Outcome
<1>5. CASE active = TRUE /\ ~account[a].isActive
  <2>1. Confirmed' = Confirmed \cup {a} /\ a \notin Confirmed
    BY <1>3, <1>5 DEF Confirmed
  <2>2. QED
    BY <1>4, <2>1 DEF Atomic!Confirm
<1>6. CASE active = account[a].isActive
  <2>1. Confirmed' = Confirmed
    BY <1>3, <1>6 DEF Confirmed
  <2>2. QED
    BY <1>4, <2>1 DEF Public
<1>7. account[a].isActive \in BOOLEAN
  BY <1>2 DEF AccountRow
<1>8. QED
  BY <1>1, <1>5, <1>6, <1>7

\* The initial states.
LEMMA InitImplements ==
  ASSUME Init, TypeOK
  PROVE  Atomic!Init
<1>1. Confirmed \subseteq Account
  BY DEF Confirmed
<1>2. ASSUME NEW a \in Account, NEW l \in Level
      PROVE  /\ Levels[a][l] \in [is : {"never", "active", "revoked"},
                                  key : Key \cup {NoKey}]
             /\ mapping[a][l].isActive => Levels[a][l].is = "active"
  <2>1. mapping[a][l] \in MappingRow
    BY DEF TypeOK
  <2>2. QED
    BY <2>1, RowFields DEF Levels, Standing
<1>3. Levels \in [Account -> [Level -> [is : {"never", "active", "revoked"},
                                        key : Key \cup {NoKey}]]]
  BY <1>2 DEF Levels
<1>4. \A a \in Account : Atomic!Active(a) # {}
  BY <1>2 DEF Init, AnyActive, Atomic!Active
<1>5. Spared = {} /\ Outcome = [o \in Request |-> "open"]
  BY DEF Init, Spared, Outcome
<1>6. Asked \in [Request -> [kind : {"add", "revoke", "phone"}, caller : Account,
                             target : Account, level : Level,
                             key : Key \cup {NoKey}]]
  BY DEF TypeOK, RequestRecord, Kind, Asked
<1>7. QED
  BY <1>1, <1>3, <1>4, <1>5, <1>6 DEF Atomic!Init

\* Every step.
LEMMA StepImplements ==
  ASSUME TypeOK, TypeOK', FlushingSaw, FlushingChecked, [Next]_vars
  PROVE  Atomic!Next \/ UNCHANGED Public
<1>1. ASSUME NEW o \in Request, View(o) PROVE UNCHANGED Public
  BY <1>1, ViewIsUnseen
<1>2. ASSUME NEW o \in Request, Begin(o) PROVE Atomic!Next \/ UNCHANGED Public
  BY <1>2, BeginLooksUp DEF Atomic!Next
<1>3. ASSUME NEW o \in Request, Refuse(o) \/ Fail(o) PROVE Atomic!Next
  BY <1>3, Refuses DEF Atomic!Next
<1>4. ASSUME NEW o \in Request, Commit(o) PROVE Atomic!Next
  BY <1>4, CommitsAtOnce DEF Atomic!Next
<1>5. ASSUME NEW a \in Account, ChangeAccount(a) PROVE Atomic!Next \/ UNCHANGED Public
  BY <1>5, ChangeConfirms DEF Atomic!Next
<1>6. CASE UNCHANGED vars
  BY <1>6 DEF vars, Public, Confirmed, Levels, Spared, Asked, Outcome
<1>7. QED
  BY <1>1, <1>2, <1>3, <1>4, <1>5, <1>6 DEF Next, RequestStep

\* Every behaviour of AccessLevels is one of LevelChanges.
THEOREM RequestsImplemented == Spec => RequestsAreAtomic
<1>1. TypeOK /\ TypeOK' /\ FlushingSaw /\ FlushingChecked /\ [Next]_vars =>
        [Atomic!Next]_(Atomic!vars)
  BY StepImplements DEF Atomic!vars, Public
<1>2. Init /\ TypeOK => Atomic!Init
  BY InitImplements
<1>3. QED
  BY <1>1, <1>2, TypeCorrect, FlushingSawHolds, FlushingCheckedHolds, PTL
     DEF Spec, RequestsAreAtomic, Atomic!Spec
=============================================================================
