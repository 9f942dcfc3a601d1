------------------------- MODULE LoginLockoutProofs -------------------------
(***************************************************************************)
(* What LoginLockout guarantees for any accounts, any number of concurrent *)
(* requests and any number of retries.                                     *)
(***************************************************************************)
EXTENDS LoginLockout, TLAPS

-----------------------------------------------------------------------------
(* Types. *)

\* A request without a transaction is well typed too.
LEMMA ClosedType ==
  /\ Closed \in Snapshot
  /\ Closed.account \in AccountRow /\ Closed.loginData \in LoginDataRow
  /\ NoSweep \in SweepTransaction
BY DEF Closed, Snapshot, AccountRow, LoginDataRow, InvalidLoginLimit, NoSweep,
       SweepTransaction

\* What a flush writes into a table are rows of that table.
LEMMA WriteTypes ==
  ASSUME TypeOK, NEW a \in Account
  PROVE  /\ \A flag \in BOOLEAN : SetEnable(a, flag) \in [Account -> AccountRow]
         /\ \A n \in 0..InvalidLoginLimit :
              SetCounter(a, n) \in [Account -> LoginDataRow]
BY DEF TypeOK, SetEnable, SetCounter, NextVersion, AccountRow, LoginDataRow

\* A login request stays well typed when it reads, and when its transaction ends.
LEMMA LoginUpdate ==
  ASSUME TypeOK, NEW r \in Login, NEW p \in LoginPhase
  PROVE  /\ login[r] \in LoginRequest
         /\ login[r].user \in Account
         /\ \A f \in BOOLEAN :
              [login EXCEPT ![r].phase = p, ![r].flag = f] \in [Login -> LoginRequest]
         /\ \A row \in AccountRow :
              [login EXCEPT ![r].phase = p, ![r].snap.account = row]
                \in [Login -> LoginRequest]
         /\ \A row \in LoginDataRow :
              [login EXCEPT ![r].phase = p, ![r].snap.loginData = row]
                \in [Login -> LoginRequest]
         /\ \A s \in Snapshot :
              [login EXCEPT ![r].phase = p, ![r].snap = s] \in [Login -> LoginRequest]
         /\ \A f \in BOOLEAN, s \in Snapshot :
              [login EXCEPT ![r].phase = p, ![r].flag = f, ![r].snap = s]
                \in [Login -> LoginRequest]
<1> login \in [Login -> LoginRequest]
  BY DEF TypeOK
<1>1. login[r] \in LoginRequest /\ login[r].user \in Account
  BY DEF LoginRequest
<1>2. ASSUME NEW f \in BOOLEAN
      PROVE  [login EXCEPT ![r].phase = p, ![r].flag = f] \in [Login -> LoginRequest]
  BY DEF LoginRequest
<1>3. ASSUME NEW row \in AccountRow
      PROVE  [login EXCEPT ![r].phase = p, ![r].snap.account = row]
               \in [Login -> LoginRequest]
  BY ZenonT(60) DEF LoginRequest, Snapshot
<1>4. ASSUME NEW row \in LoginDataRow
      PROVE  [login EXCEPT ![r].phase = p, ![r].snap.loginData = row]
               \in [Login -> LoginRequest]
  BY ZenonT(60) DEF LoginRequest, Snapshot
<1>5. ASSUME NEW s \in Snapshot
      PROVE  [login EXCEPT ![r].phase = p, ![r].snap = s] \in [Login -> LoginRequest]
  BY DEF LoginRequest
<1>6. ASSUME NEW f \in BOOLEAN, NEW s \in Snapshot
      PROVE  [login EXCEPT ![r].phase = p, ![r].flag = f, ![r].snap = s]
               \in [Login -> LoginRequest]
  BY DEF LoginRequest
<1>7. QED
  BY <1>1, <1>2, <1>3, <1>4, <1>5, <1>6

\* So does an enable or disable request.
LEMMA EditUpdate ==
  ASSUME TypeOK, NEW o \in Edit, NEW p \in EditPhase, NEW s \in AccountRow
  PROVE  /\ edit[o] \in EditRequest
         /\ edit[o].target \in Account
         /\ edit[o].flag \in BOOLEAN
         /\ [edit EXCEPT ![o].phase = p] \in [Edit -> EditRequest]
         /\ [edit EXCEPT ![o].phase = p, ![o].snap = s] \in [Edit -> EditRequest]
BY DEF TypeOK, EditRequest

\* Type correctness; the stored counter stays between 0 and 3.
THEOREM TypeCorrect == Spec => []TypeOK
<1>1. Init => TypeOK
  <2> SUFFICES ASSUME Init PROVE TypeOK
    OBVIOUS
  <2>1. account \in [Account -> AccountRow]
    <3>1. PICK enabled \in [Account -> BOOLEAN] :
            account = [a \in Account |-> [isEnable |-> enabled[a], version |-> 0]]
      BY DEF Init
    <3>2. QED
      BY <3>1 DEF AccountRow
  <2>2. loginData \in [Account -> LoginDataRow]
    <3>1. PICK failures \in [Account -> 0..InvalidLoginLimit] :
            loginData = [a \in Account |-> [counter |-> failures[a], version |-> 0]]
      BY DEF Init
    <3>2. QED
      BY <3>1 DEF LoginDataRow
  <2>3. aged \in SUBSET Account
    BY DEF Init
  <2>4. login \in [Login -> LoginRequest]
    <3>1. PICK user \in [Login -> Account], valid \in [Login -> BOOLEAN] :
            login = [r \in Login |-> [phase |-> "authenticating", user |-> user[r],
                                      valid |-> valid[r], flag |-> FALSE,
                                      snap |-> Closed]]
      BY DEF Init
    <3>2. QED
      BY <3>1, ClosedType DEF LoginRequest, LoginPhase
  <2>5. edit \in [Edit -> EditRequest]
    <3>1. PICK editor \in [Edit -> Account], target \in [Edit -> Account],
               flag \in [Edit -> BOOLEAN] :
            edit = [o \in Edit |->
                      [phase |-> "viewing", editor |-> editor[o],
                       target |-> target[o], flag |-> flag[o],
                       held |-> Closed.account, attempts |-> TxRetries,
                       snap |-> Closed.account]]
      BY DEF Init
    <3>2. Closed.account \in AccountRow
      BY DEF Closed, AccountRow
    <3>3. TxRetries \in 1..TxRetries
      BY LockoutAssumption
    <3>4. QED
      BY <3>1, <3>2, <3>3, ClosedType DEF EditRequest, EditPhase
  <2>6. sweep \in SweepTransaction
    BY ClosedType DEF Init
  <2>7. QED
    BY <2>1, <2>2, <2>3, <2>4, <2>5, <2>6 DEF TypeOK
<1>2. TypeOK /\ [Next]_vars => TypeOK'
  <2> SUFFICES ASSUME TypeOK, [Next]_vars PROVE TypeOK'
    OBVIOUS
  <2> USE ClosedType
  <2>1. ASSUME NEW r \in Login, Authenticate(r) PROVE TypeOK'
    <3> DEFINE flag == login[r].valid /\ account[login[r].user].isEnable
    <3>1. flag \in BOOLEAN /\ "beginning" \in LoginPhase
      BY DEF LoginPhase
    <3>2. login' = [login EXCEPT ![r].phase = "beginning", ![r].flag = flag]
      BY <2>1 DEF Authenticate
    <3> HIDE DEF flag
    <3>3. login' \in [Login -> LoginRequest]
      BY <3>1, <3>2, LoginUpdate
    <3>4. QED
      BY <2>1, <3>3 DEF Authenticate, TypeOK
  <2>2. ASSUME NEW r \in Login, BeginUpdate(r) \/ ReadLoginData(r) PROVE TypeOK'
    <3>1. /\ account[login[r].user] \in AccountRow
          /\ loginData[login[r].user] \in LoginDataRow
          /\ {"reading", "flushing"} \subseteq LoginPhase
      BY LoginUpdate DEF LoginPhase, TypeOK
    <3>2. login' \in [Login -> LoginRequest]
      <4>1. CASE BeginUpdate(r)
        BY <3>1, <4>1, LoginUpdate DEF BeginUpdate
      <4>2. CASE ReadLoginData(r)
        BY <3>1, <4>2, LoginUpdate DEF ReadLoginData
      <4>3. QED
        BY <2>2, <4>1, <4>2
    <3>3. QED
      BY <2>2, <3>2 DEF BeginUpdate, ReadLoginData, TypeOK
  <2>3. ASSUME NEW r \in Login, Grant(r) PROVE TypeOK'
    <3>1. login' \in [Login -> LoginRequest] /\ login[r].user \in Account
      BY <2>3, LoginUpdate DEF Grant, EndUpdate, LoginPhase
    <3>2. loginData' \in [Account -> LoginDataRow]
      BY <2>3, <3>1, WriteTypes DEF Grant, InvalidLoginLimit
    <3>3. QED
      BY <2>3, <3>1, <3>2 DEF Grant, TypeOK
  <2>4. ASSUME NEW r \in Login, GrantFails(r) PROVE TypeOK'
    <3>1. login' \in [Login -> LoginRequest]
      BY <2>4, LoginUpdate DEF GrantFails, LoginPhase
    <3>2. QED
      BY <2>4, <3>1 DEF GrantFails, TypeOK
  <2>5. ASSUME NEW r \in Login, Count(r) PROVE TypeOK'
    <3>1. login' \in [Login -> LoginRequest] /\ login[r].user \in Account
      BY <2>5, LoginUpdate DEF Count, EndUpdate, LoginPhase
    <3>2. NextCounter(r) \in 0..InvalidLoginLimit
      BY <2>5 DEF Count, CountFlushes, CounterValid, NextCounter, TypeOK,
                  LoginRequest, Snapshot, LoginDataRow, InvalidLoginLimit
    <3>3. /\ loginData' \in [Account -> LoginDataRow]
          /\ account' \in [Account -> AccountRow]
      BY <2>5, <3>1, <3>2, WriteTypes DEF Count, TypeOK
    <3>4. QED
      BY <2>5, <3>1, <3>3 DEF Count, TypeOK
  <2>6. ASSUME NEW r \in Login, CountFails(r) PROVE TypeOK'
    <3>1. login' \in [Login -> LoginRequest]
      BY <2>6, LoginUpdate DEF CountFails, EndUpdate, LoginPhase
    <3>2. QED
      BY <2>6, <3>1 DEF CountFails, TypeOK
  <2>7. ASSUME NEW o \in Edit, View(o) PROVE TypeOK'
    BY <2>7, ZenonT(60) DEF View, TypeOK, EditRequest, EditPhase
  <2>8. ASSUME NEW o \in Edit, BeginEdit(o) PROVE TypeOK'
    <3>1. account[edit[o].target] \in AccountRow
      BY EditUpdate DEF EditPhase, TypeOK
    <3>2. edit' \in [Edit -> EditRequest]
      BY <2>8, <3>1, EditUpdate DEF BeginEdit, EditPhase
    <3>3. QED
      BY <2>8, <3>2 DEF BeginEdit, TypeOK
  <2>9. ASSUME NEW o \in Edit, RefuseEdit(o) PROVE TypeOK'
    <3>1. edit' \in [Edit -> EditRequest]
      BY <2>9, EditUpdate DEF RefuseEdit, EditPhase
    <3>2. QED
      BY <2>9, <3>1 DEF RefuseEdit, TypeOK
  <2>10. ASSUME NEW o \in Edit, CommitEdit(o) PROVE TypeOK'
    <3>1. /\ edit' \in [Edit -> EditRequest]
          /\ edit[o].target \in Account
          /\ edit[o].flag \in BOOLEAN
      BY <2>10, EditUpdate DEF CommitEdit, EndEdit, EditPhase
    <3>2. account' \in [Account -> AccountRow]
      BY <2>10, <3>1, WriteTypes DEF CommitEdit, TypeOK
    <3>3. QED
      BY <2>10, <3>1, <3>2 DEF CommitEdit, TypeOK
  <2>11. ASSUME NEW o \in Edit, EditMailFails(o) PROVE TypeOK'
    <3>1. edit' \in [Edit -> EditRequest]
      BY <2>11, EditUpdate DEF EditMailFails, EndEdit, EditPhase
    <3>2. QED
      BY <2>11, <3>1 DEF EditMailFails, TypeOK
  <2>12. ASSUME NEW o \in Edit, EditConflict(o) PROVE TypeOK'
    <3>1. /\ EndEdit(o, "refused") \in [Edit -> EditRequest]
          /\ EndEdit(o, "viewed") \in [Edit -> EditRequest]
      BY EditUpdate DEF EndEdit, EditPhase
    <3>2. /\ EndEdit(o, "viewed")[o].attempts = edit[o].attempts
          /\ edit[o].attempts \in 1..TxRetries
      BY DEF EndEdit, TypeOK, EditRequest
    <3>3. ~(edit[o].attempts < 2) =>
            [EndEdit(o, "viewed") EXCEPT ![o].attempts = @ - 1]
              \in [Edit -> EditRequest]
      BY <3>1, <3>2, LockoutAssumption DEF EditRequest
    <3>4. edit' \in [Edit -> EditRequest]
      BY <2>12, <3>1, <3>3 DEF EditConflict
    <3>5. QED
      BY <2>12, <3>4 DEF EditConflict, TypeOK
  <2>13. CASE SweepStep /\ ~CommitSweep
    <3>1. CASE BeginSweep
      <4>1. sweep' \in SweepTransaction
        BY <3>1 DEF BeginSweep, SweepTransaction, TypeOK, Snapshot, Closed
      <4>2. QED
        BY <3>1, <4>1 DEF BeginSweep, TypeOK
    <3>2. ASSUME NEW a \in Account, LoadLoginData(a) PROVE TypeOK'
      <4>1. sweep' \in SweepTransaction
        BY <3>2 DEF LoadLoginData, SweepTransaction, TypeOK, Snapshot
      <4>2. QED
        BY <3>2, <4>1 DEF LoadLoginData, TypeOK
    <3>3. CASE SweepFails
      BY <3>3 DEF SweepFails, TypeOK
    <3>4. QED
      BY <2>13, <3>1, <3>2, <3>3 DEF SweepStep
  <2>14. CASE CommitSweep
    <3>1. /\ account' \in [Account -> AccountRow]
          /\ loginData' \in [Account -> LoginDataRow]
      BY <2>14 DEF CommitSweep, TypeOK, AccountRow, LoginDataRow, NextVersion,
                   InvalidLoginLimit
    <3>2. QED
      BY <2>14, <3>1 DEF CommitSweep, TypeOK
  <2>15. ASSUME NEW a \in Account, Age(a) PROVE TypeOK'
    BY <2>15 DEF Age, TypeOK
  <2>16. CASE UNCHANGED vars
    BY <2>16 DEF vars, TypeOK
  <2>17. QED
    BY <2>1, <2>2, <2>3, <2>4, <2>5, <2>6, <2>7, <2>8, <2>9, <2>10, <2>11,
       <2>12, <2>13, <2>14, <2>15, <2>16
    DEF Next, LoginStep, EditStep, SweepStep
<1>3. QED
  BY <1>1, <1>2, PTL DEF Spec

-----------------------------------------------------------------------------
(* Which actions change which variable. *)

\* Every change of a variable is the doing of one of a few actions.
LEMMA WhoWrites ==
  ASSUME [Next]_vars
  PROVE  /\ account' # account =>
              \/ \E r \in Login : Count(r)
              \/ \E o \in Edit : CommitEdit(o)
              \/ CommitSweep
         /\ loginData' # loginData =>
              \/ \E r \in Login : Grant(r) \/ Count(r)
              \/ CommitSweep
         /\ aged' # aged => \/ \E r \in Login : Count(r)
                            \/ \E a \in Account : Age(a)
         /\ login' # login => \E r \in Login : LoginStep(r)
         /\ edit' # edit => \E o \in Edit : EditStep(o)
         /\ sweep' # sweep => SweepStep
<1>1. ASSUME NEW r \in Login, LoginStep(r)
      PROVE  /\ account' # account => Count(r)
             /\ loginData' # loginData => Grant(r) \/ Count(r)
             /\ aged' # aged => Count(r)
             /\ edit' = edit /\ sweep' = sweep
  BY <1>1 DEF LoginStep, Authenticate, BeginUpdate, ReadLoginData, Grant,
              GrantFails, Count, CountFails
<1>2. ASSUME NEW o \in Edit, EditStep(o)
      PROVE  /\ account' # account => CommitEdit(o)
             /\ loginData' = loginData /\ aged' = aged
             /\ login' = login /\ sweep' = sweep
  BY <1>2 DEF EditStep, View, BeginEdit, RefuseEdit, CommitEdit, EditMailFails,
              EditConflict
<1>3. ASSUME SweepStep
      PROVE  /\ account' # account => CommitSweep
             /\ loginData' # loginData => CommitSweep
             /\ aged' = aged /\ login' = login /\ edit' = edit
  BY <1>3 DEF SweepStep, BeginSweep, LoadLoginData, CommitSweep, SweepFails
<1>4. ASSUME NEW a \in Account, Age(a)
      PROVE  UNCHANGED <<account, loginData, login, edit, sweep>>
  BY <1>4 DEF Age
<1>5. CASE UNCHANGED vars
  BY <1>5 DEF vars
<1>6. QED
  BY <1>1, <1>2, <1>3, <1>4, <1>5 DEF Next

\* A step about one request leaves the other requests of its kind alone.
LEMMA OneRequest ==
  ASSUME TypeOK
  PROVE  /\ \A q, r \in Login : LoginStep(q) /\ q # r => login'[r] = login[r]
         /\ \A q, o \in Edit : EditStep(q) /\ q # o => edit'[o] = edit[o]
<1> login \in [Login -> LoginRequest] /\ edit \in [Edit -> EditRequest]
  BY DEF TypeOK
<1>1. ASSUME NEW q \in Login, NEW r \in Login, LoginStep(q), q # r
      PROVE  login'[r] = login[r]
  BY <1>1 DEF LoginStep, Authenticate, BeginUpdate, ReadLoginData, Grant,
              GrantFails, Count, CountFails, EndUpdate
<1>2. ASSUME NEW q \in Edit, NEW o \in Edit, EditStep(q), q # o
      PROVE  edit'[o] = edit[o]
  BY <1>2 DEF EditStep, View, BeginEdit, RefuseEdit, CommitEdit, EditMailFails,
              EditConflict, EndEdit
<1>3. QED
  BY <1>1, <1>2

-----------------------------------------------------------------------------
(* The optimistic lock.  A step writes a row only together with its next     *)
(* version, so a row whose version a transaction has read is the row it read. *)

\* Every write of account or login_data takes the next version of its row.
LEMMA RowsAdvance ==
  ASSUME TypeOK, [Next]_vars, NEW a \in Account
  PROVE  /\ Advances(account[a], account'[a])
         /\ Advances(loginData[a], loginData'[a])
<1> USE DEF Advances
<1> account \in [Account -> AccountRow] /\ loginData \in [Account -> LoginDataRow]
  BY DEF TypeOK
<1>1. \A b \in Account, flag \in BOOLEAN :
        Advances(account[a], SetEnable(b, flag)[a])
  BY DEF SetEnable, NextVersion, AccountRow
<1>2. \A b \in Account, n \in Nat : Advances(loginData[a], SetCounter(b, n)[a])
  BY DEF SetCounter, NextVersion, LoginDataRow
<1>3. ASSUME NEW r \in Login, Grant(r) \/ Count(r)
      PROVE  /\ Advances(account[a], account'[a])
             /\ Advances(loginData[a], loginData'[a])
  <2>1. login[r].user \in Account /\ NextCounter(r) \in Nat
    BY DEF TypeOK, LoginRequest, Snapshot, LoginDataRow, NextCounter,
           InvalidLoginLimit
  <2>2. CASE Grant(r)
    BY <2>1, <2>2, <1>2 DEF Grant
  <2>3. CASE Count(r)
    BY <2>1, <2>3, <1>1, <1>2 DEF Count
  <2>4. QED
    BY <1>3, <2>2, <2>3
<1>4. ASSUME NEW o \in Edit, CommitEdit(o) PROVE Advances(account[a], account'[a])
  BY <1>4, <1>1 DEF CommitEdit, TypeOK, EditRequest
<1>5. CASE CommitSweep
  BY <1>5 DEF CommitSweep, NextVersion
<1>6. QED
  BY <1>3, <1>4, <1>5, WhoWrites

\* A row read before a step still agrees with the table after it.
LEMMA AgreementLasts ==
  ASSUME TypeOK, [Next]_vars, NEW a \in Account
  PROVE  /\ \A read \in AccountRow :
              SameIfSameVersion(read, account[a]) =>
                SameIfSameVersion(read, account'[a])
         /\ \A read \in AccountRow :
              read.version < account[a].version =>
                read.version < account'[a].version
         /\ \A read \in LoginDataRow :
              /\ SameIfSameVersion(read, loginData[a]) =>
                   SameIfSameVersion(read, loginData'[a])
              /\ read.version < loginData[a].version =>
                   read.version < loginData'[a].version
<1>1. /\ Advances(account[a], account'[a])
      /\ Advances(loginData[a], loginData'[a])
  BY RowsAdvance
<1>2. account[a] \in AccountRow /\ loginData[a] \in LoginDataRow
  BY DEF TypeOK
<1>3. \A read \in AccountRow :
        /\ SameIfSameVersion(read, account[a]) =>
             SameIfSameVersion(read, account'[a])
        /\ read.version < account[a].version => read.version < account'[a].version
  BY <1>1, <1>2 DEF AccountRow, Advances, SameIfSameVersion
<1>4. \A read \in LoginDataRow :
        /\ SameIfSameVersion(read, loginData[a]) =>
             SameIfSameVersion(read, loginData'[a])
        /\ read.version < loginData[a].version =>
             read.version < loginData'[a].version
  BY <1>1, <1>2 DEF LoginDataRow, Advances, SameIfSameVersion
<1>5. QED
  BY <1>3, <1>4

\* A row that has just been read agrees with the table.
LEMMA ReadAgrees ==
  ASSUME TypeOK, NEW a \in Account
  PROVE  /\ SameIfSameVersion(account[a], account[a])
         /\ SameIfSameVersion(loginData[a], loginData[a])
BY DEF TypeOK, SameIfSameVersion, AccountRow, LoginDataRow

\* A login request that holds an entity after a step has held it before, or has
\* just read the account, or its login data.
LEMMA LoginReads ==
  ASSUME TypeOK, [Next]_vars, NEW r \in Login,
         login'[r].phase \in {"reading", "flushing"}
  PROVE  /\ login'[r].user = login[r].user
         /\ \/ login'[r] = login[r]
            \/ /\ login[r].phase = "beginning" /\ login'[r].phase = "reading"
               /\ login'[r].snap.account = account[login[r].user]
               /\ UNCHANGED <<account, loginData>>
            \/ /\ login[r].phase = "reading" /\ login'[r].phase = "flushing"
               /\ login'[r].snap.account = login[r].snap.account
               /\ login'[r].snap.loginData = loginData[login[r].user]
               /\ UNCHANGED <<account, loginData>>
<1> login \in [Login -> LoginRequest]
  BY DEF TypeOK
<1>1. CASE BeginUpdate(r)
  BY <1>1 DEF BeginUpdate, LoginRequest, Snapshot
<1>2. CASE ReadLoginData(r)
  BY <1>2 DEF ReadLoginData, LoginRequest, Snapshot
<1>3. CASE Authenticate(r)
  BY <1>3 DEF Authenticate, LoginRequest
<1>4. ASSUME NEW p \in {"granted", "unauthorized"}, EndUpdate(r, p) PROVE FALSE
  BY <1>4 DEF EndUpdate, LoginRequest
<1>5. CASE GrantFails(r)
  BY <1>5 DEF GrantFails, LoginRequest
<1>6. QED
  BY <1>1, <1>2, <1>3, <1>4, <1>5, WhoWrites, OneRequest
  DEF LoginStep, Grant, Count, CountFails

\* The five things that can happen to an enable or disable request in a step.
Untouched(o) == edit'[o] = edit[o]

Fetches(o) ==
    /\ edit'[o] = [edit[o] EXCEPT !.phase = "viewed",
                                  !.held = account[edit[o].target]]
    /\ edit[o].phase = "viewing"
    /\ UNCHANGED <<account, loginData>>

Opens(o) ==
    /\ edit'[o] = [edit[o] EXCEPT !.phase = "flushing",
                                  !.snap = account[edit[o].target]]
    /\ edit[o].phase = "viewed"
    /\ edit[o].held = account[edit[o].target]
    /\ UNCHANGED <<account, loginData>>

Retries(o) ==
    /\ edit'[o] = [edit[o] EXCEPT !.phase = "viewed",
                                  !.snap = Closed.account,
                                  !.attempts = @ - 1]
    /\ edit[o].phase = "flushing"
    /\ edit[o].snap.version # account[edit[o].target].version
    /\ UNCHANGED <<account, loginData>>

Ends(o) == edit'[o].phase \in {"done", "refused"}

\* There is no sixth.
LEMMA EditReads ==
  ASSUME TypeOK, [Next]_vars, NEW o \in Edit
  PROVE  Untouched(o) \/ Fetches(o) \/ Opens(o) \/ Retries(o) \/ Ends(o)
<1> edit \in [Edit -> EditRequest]
  BY DEF TypeOK
<1>1. CASE View(o)
  BY <1>1 DEF View, Fetches, EditRequest
<1>2. CASE BeginEdit(o)
  BY <1>2 DEF BeginEdit, EditAllowed, EtagMatches, Opens, EditRequest
<1>3. CASE RefuseEdit(o)
  BY <1>3 DEF RefuseEdit, Ends, EditRequest
<1>4. CASE CommitEdit(o) \/ EditMailFails(o)
  BY <1>4 DEF CommitEdit, EditMailFails, EndEdit, Ends, EditRequest
<1>5. CASE EditConflict(o)
  <2>1. CASE edit[o].attempts < 2
    BY <1>5, <2>1 DEF EditConflict, EndEdit, Ends, EditRequest
  <2>2. CASE ~(edit[o].attempts < 2)
    <3>1. edit' = [EndEdit(o, "viewed") EXCEPT ![o].attempts = @ - 1]
      BY <1>5, <2>2 DEF EditConflict
    <3>2. EndEdit(o, "viewed")[o] = [edit[o] EXCEPT !.phase = "viewed",
                                                    !.snap = Closed.account]
      BY DEF EndEdit, EditRequest
    <3>3. edit'[o] = [EndEdit(o, "viewed")[o] EXCEPT !.attempts = @ - 1]
      BY <3>1 DEF EndEdit
    <3>4. edit'[o] = [edit[o] EXCEPT !.phase = "viewed",
                                     !.snap = Closed.account,
                                     !.attempts = @ - 1]
      BY <3>2, <3>3
    <3>5. QED
      BY <1>5, <3>4 DEF EditConflict, EditFlushes, Fresh, Retries
  <2>3. QED
    BY <2>1, <2>2
<1>6. CASE edit'[o] = edit[o]
  BY <1>6 DEF Untouched
<1>7. QED
  BY <1>1, <1>2, <1>3, <1>4, <1>5, <1>6, WhoWrites, OneRequest DEF EditStep

\* No transaction is open at the start, and no etag has been fetched.
LEMMA InitialRequests ==
  ASSUME Init
  PROVE  /\ \A r \in Login : login[r].phase = "authenticating"
         /\ \A o \in Edit : edit[o].phase = "viewing" /\ edit[o].attempts = TxRetries
         /\ sweep.batch = {}
<1>1. PICK user \in [Login -> Account], valid \in [Login -> BOOLEAN] :
        login = [r \in Login |-> [phase |-> "authenticating", user |-> user[r],
                                  valid |-> valid[r], flag |-> FALSE,
                                  snap |-> Closed]]
  BY DEF Init
<1>2. PICK editor \in [Edit -> Account], target \in [Edit -> Account],
           flag \in [Edit -> BOOLEAN] :
        edit = [o \in Edit |->
                  [phase |-> "viewing", editor |-> editor[o],
                   target |-> target[o], flag |-> flag[o],
                   held |-> Closed.account, attempts |-> TxRetries,
                   snap |-> Closed.account]]
  BY DEF Init
<1>3. sweep.batch = {}
  BY DEF Init, NoSweep
<1>4. QED
  BY <1>1, <1>2, <1>3

\* Equal versions mean equal rows, for every open transaction and every etag.
THEOREM OptimisticLock == Spec => []SnapshotsAgree
<1>1. Init => SnapshotsAgree
  <2> SUFFICES ASSUME Init PROVE SnapshotsAgree
    OBVIOUS
  <2> QED
    BY InitialRequests DEF SnapshotsAgree
<1>2. TypeOK /\ TypeOK' /\ SnapshotsAgree /\ [Next]_vars => SnapshotsAgree'
  <2> SUFFICES ASSUME TypeOK, TypeOK', SnapshotsAgree, [Next]_vars
               PROVE  SnapshotsAgree'
    OBVIOUS
  <2>1. ASSUME NEW r \in Login
        PROVE  /\ login'[r].phase \in {"reading", "flushing"} =>
                    SameIfSameVersion(login'[r].snap.account,
                                      account'[login'[r].user])
               /\ login'[r].phase = "flushing" =>
                    SameIfSameVersion(login'[r].snap.loginData,
                                      loginData'[login'[r].user])
    <3> DEFINE a == login[r].user
    <3> SUFFICES ASSUME login'[r].phase \in {"reading", "flushing"}
                 PROVE  /\ SameIfSameVersion(login'[r].snap.account, account'[a])
                        /\ login'[r].phase = "flushing" =>
                             SameIfSameVersion(login'[r].snap.loginData, loginData'[a])
      BY LoginReads
    <3>1. /\ a \in Account
          /\ login[r].snap.account \in AccountRow
          /\ login[r].snap.loginData \in LoginDataRow
      BY DEF TypeOK, LoginRequest, Snapshot
    <3>2. CASE login'[r] = login[r]
      BY <3>1, <3>2, AgreementLasts DEF SnapshotsAgree
    <3>3. CASE /\ login'[r].phase = "reading"
               /\ login'[r].snap.account = account[a]
               /\ UNCHANGED <<account, loginData>>
      BY <3>1, <3>3, ReadAgrees
    <3>4. CASE /\ login[r].phase = "reading"
               /\ login'[r].snap.account = login[r].snap.account
               /\ login'[r].snap.loginData = loginData[a]
               /\ UNCHANGED <<account, loginData>>
      BY <3>1, <3>4, ReadAgrees DEF SnapshotsAgree
    <3>5. QED
      BY <3>2, <3>3, <3>4, LoginReads
  <2>2. ASSUME NEW o \in Edit
        PROVE  /\ edit'[o].phase = "flushing" =>
                    SameIfSameVersion(edit'[o].snap, account'[edit'[o].target])
               /\ edit'[o].phase \in {"viewed", "flushing"} =>
                    SameIfSameVersion(edit'[o].held, account'[edit'[o].target])
    <3>1. /\ edit[o].target \in Account
          /\ edit[o].snap \in AccountRow
          /\ edit[o].held \in AccountRow
          /\ edit[o] \in EditRequest
      BY DEF TypeOK, EditRequest
    <3>2. CASE Untouched(o)
      BY <3>1, <3>2, AgreementLasts DEF Untouched, SnapshotsAgree
    <3>3. CASE Fetches(o)
      BY <3>1, <3>3, ReadAgrees DEF Fetches, EditRequest
    <3>4. CASE Opens(o)
      BY <3>1, <3>4, ReadAgrees DEF Opens, EditRequest
    <3>5. CASE Retries(o)
      BY <3>1, <3>5 DEF Retries, SnapshotsAgree, EditRequest
    <3>6. CASE Ends(o)
      BY <3>6 DEF Ends
    <3>7. QED
      BY <3>2, <3>3, <3>4, <3>5, <3>6, EditReads
  <2>3. ASSUME NEW a \in sweep'.batch
        PROVE  /\ SameIfSameVersion(sweep'.snap[a].account, account'[a])
               /\ a \notin sweep'.unread =>
                    SameIfSameVersion(sweep'.snap[a].loginData, loginData'[a])
    <3>1. CASE sweep' = sweep
      <4>1. /\ a \in Account
            /\ sweep.snap[a].account \in AccountRow
            /\ sweep.snap[a].loginData \in LoginDataRow
        BY <3>1 DEF TypeOK, SweepTransaction, Snapshot
      <4>2. QED
        BY <3>1, <4>1, AgreementLasts DEF SnapshotsAgree
    <3>2. CASE BeginSweep
      BY <3>2, ReadAgrees DEF BeginSweep, Closed
    <3>3. ASSUME NEW b \in Account, LoadLoginData(b)
          PROVE  /\ SameIfSameVersion(sweep'.snap[a].account, account'[a])
                 /\ a \notin sweep'.unread =>
                      SameIfSameVersion(sweep'.snap[a].loginData, loginData'[a])
      <4>1. /\ a \in Account /\ a \in sweep.batch
            /\ sweep'.unread = sweep.unread \ {b}
            /\ sweep'.snap[a].account = sweep.snap[a].account
            /\ a # b => sweep'.snap[a] = sweep.snap[a]
            /\ a = b => sweep'.snap[a].loginData = loginData[a]
            /\ UNCHANGED <<account, loginData>>
        BY <3>3 DEF LoadLoginData, TypeOK, SweepTransaction, Snapshot
      <4>2. QED
        BY <4>1, ReadAgrees DEF SnapshotsAgree
    <3>4. CASE sweep' = NoSweep
      BY <3>4 DEF NoSweep
    <3>5. QED
      BY <3>1, <3>2, <3>3, <3>4, WhoWrites DEF SweepStep, CommitSweep, SweepFails
  <2>4. QED
    BY <2>1, <2>2, <2>3 DEF SnapshotsAgree
<1>3. QED
  BY <1>1, <1>2, TypeCorrect, PTL DEF Spec

-----------------------------------------------------------------------------
(* What follows from it. *)

\* A later attempt of the retry loop holds the etag of a version that is gone.
RetryHoldsOldEtag ==
    \A o \in Edit :
      /\ edit[o].phase = "viewing" => edit[o].attempts = TxRetries
      /\ edit[o].phase = "viewed" /\ edit[o].attempts # TxRetries =>
           edit[o].held.version < account[edit[o].target].version
      /\ edit[o].phase = "flushing" =>
           edit[o].attempts = TxRetries /\ edit[o].held = edit[o].snap

\* The strengthening of RetryIsFutile that is inductive.
LEMMA RetryHolds == Spec => []RetryHoldsOldEtag
<1>1. Init => RetryHoldsOldEtag
  BY InitialRequests DEF RetryHoldsOldEtag
<1>2. /\ TypeOK /\ SnapshotsAgree /\ RetryHoldsOldEtag /\ [Next]_vars
      => RetryHoldsOldEtag'
  <2> SUFFICES ASSUME TypeOK, SnapshotsAgree, RetryHoldsOldEtag, [Next]_vars,
                      NEW o \in Edit
               PROVE  /\ edit'[o].phase = "viewing" => edit'[o].attempts = TxRetries
                      /\ edit'[o].phase = "viewed" /\ edit'[o].attempts # TxRetries =>
                           edit'[o].held.version < account'[edit'[o].target].version
                      /\ edit'[o].phase = "flushing" =>
                           /\ edit'[o].attempts = TxRetries
                           /\ edit'[o].held = edit'[o].snap
    BY DEF RetryHoldsOldEtag
  <2>1. /\ edit[o] \in EditRequest
        /\ edit[o].target \in Account
        /\ edit[o].held \in AccountRow
        /\ account[edit[o].target] \in AccountRow
    BY DEF TypeOK, EditRequest
  <2>2. CASE Untouched(o)
    BY <2>1, <2>2, AgreementLasts DEF Untouched, RetryHoldsOldEtag
  <2>3. CASE Fetches(o)
    BY <2>1, <2>3 DEF Fetches, RetryHoldsOldEtag, EditRequest
  <2>4. CASE Opens(o)
    <3>1. edit[o].attempts = TxRetries
      BY <2>1, <2>4 DEF Opens, RetryHoldsOldEtag, AccountRow
    <3>2. QED
      BY <2>1, <2>4, <3>1 DEF Opens, EditRequest
  <2>5. CASE Retries(o)
    <3>1. edit[o].held.version < account[edit[o].target].version
      BY <2>1, <2>5
      DEF Retries, RetryHoldsOldEtag, SnapshotsAgree, SameIfSameVersion, AccountRow
    <3>2. QED
      BY <2>1, <2>5, <3>1 DEF Retries, EditRequest
  <2>6. CASE Ends(o)
    BY <2>6 DEF Ends
  <2>7. QED
    BY <2>2, <2>3, <2>4, <2>5, <2>6, EditReads
<1>3. QED
  BY <1>1, <1>2, TypeCorrect, OptimisticLock, PTL DEF Spec

\* No attempt of the endpoint's retry loop but the first one reaches the flush.
THEOREM RetryNeverHelps == Spec => []RetryIsFutile
<1>1. RetryHoldsOldEtag => RetryIsFutile
  BY DEF RetryHoldsOldEtag, RetryIsFutile
<1>2. QED
  BY <1>1, RetryHolds, PTL

\* No failed login is lost by being merged into another one.
THEOREM FailuresAreCounted == Spec => EveryFailureCounts
<1>1. TypeOK /\ SnapshotsAgree /\ [Next]_vars =>
        [\A a \in Account :
           loginData'[a].version # loginData[a].version =>
             loginData'[a].counter \in {0, loginData[a].counter + 1}]_vars
  <2> SUFFICES ASSUME TypeOK, SnapshotsAgree, [Next]_vars, NEW a \in Account,
                      loginData'[a].version # loginData[a].version
               PROVE  loginData'[a].counter \in {0, loginData[a].counter + 1}
    OBVIOUS
  <2> loginData \in [Account -> LoginDataRow]
    BY DEF TypeOK
  <2>1. ASSUME NEW r \in Login, Grant(r) PROVE loginData'[a].counter = 0
    BY <2>1 DEF Grant, SetCounter
  <2>2. ASSUME NEW r \in Login, Count(r)
        PROVE  loginData'[a].counter = loginData[a].counter + 1
    <3>1. loginData' = SetCounter(login[r].user, NextCounter(r))
      BY <2>2 DEF Count
    <3>2. login[r].user = a
      BY <3>1 DEF SetCounter
    <3>3. login[r].snap.loginData = loginData[a]
      BY <2>2, <3>2 DEF Count, CountFlushes, Fresh, SnapshotsAgree,
                        SameIfSameVersion
    <3>4. QED
      BY <3>1, <3>2, <3>3 DEF SetCounter, NextCounter
  <2>3. CASE CommitSweep
    BY <2>3 DEF CommitSweep
  <2>4. QED
    BY <2>1, <2>2, <2>3, WhoWrites
<1>2. QED
  BY <1>1, TypeCorrect, OptimisticLock, PTL DEF Spec, EveryFailureCounts

\* The third failure disables the account, but for the one hole.
THEOREM ThirdFailureLocks == Spec => ThirdFailureDisables
<1> DEFINE Hole(a) == \E r \in Login :
                        /\ login[r].user = a
                        /\ login[r].phase = "flushing" /\ ~login[r].flag
                        /\ ~login[r].snap.account.isEnable
                        /\ login[r].snap.account.version < account[a].version
<1>1. TypeOK /\ SnapshotsAgree /\ [Next]_vars =>
        [\A a \in Account :
           /\ loginData'[a].counter = InvalidLoginLimit
           /\ loginData[a].counter # InvalidLoginLimit
           /\ account'[a].isEnable
           => Hole(a)]_vars
  <2> SUFFICES ASSUME TypeOK, SnapshotsAgree, [Next]_vars, NEW a \in Account,
                      loginData'[a].counter = InvalidLoginLimit,
                      loginData[a].counter # InvalidLoginLimit,
                      account'[a].isEnable
               PROVE  Hole(a)
    OBVIOUS
  <2> /\ loginData \in [Account -> LoginDataRow]
      /\ account \in [Account -> AccountRow]
    BY DEF TypeOK
  <2>1. ASSUME NEW r \in Login, Count(r) PROVE Hole(a)
    <3>1. loginData' = SetCounter(login[r].user, NextCounter(r))
      BY <2>1 DEF Count
    <3>2. login[r].user = a
      BY <3>1 DEF SetCounter
    <3>3. AtLimit(r)
      BY <3>1, <3>2 DEF SetCounter, AtLimit
    <3>4. ~Locks(r)
      BY <2>1, <3>2 DEF Count, SetEnable
    <3>5. ~login[r].snap.account.isEnable /\ account[a].isEnable
      BY <2>1, <3>3, <3>4 DEF Count, Locks
    <3>6. /\ SameIfSameVersion(login[r].snap.account, account[a])
          /\ login[r].phase = "flushing" /\ ~login[r].flag
      BY <2>1, <3>2 DEF Count, SnapshotsAgree
    <3>7. login[r].snap.account \in AccountRow /\ account[a] \in AccountRow
      BY DEF TypeOK, LoginRequest, Snapshot
    <3>8. login[r].snap.account.version < account[a].version
      BY <3>5, <3>6, <3>7 DEF SameIfSameVersion, AccountRow
    <3>9. QED
      BY <3>2, <3>5, <3>6, <3>8
  <2>2. ASSUME NEW r \in Login, Grant(r) PROVE FALSE
    BY <2>2 DEF Grant, SetCounter, InvalidLoginLimit
  <2>3. CASE CommitSweep
    BY <2>3 DEF CommitSweep, InvalidLoginLimit
  <2>4. QED
    BY <2>1, <2>2, <2>3, WhoWrites
<1>2. QED
  BY <1>1, TypeCorrect, OptimisticLock, PTL DEF Spec, ThirdFailureDisables

\* Nobody changed the account between the client's GET and the flag's commit.
THEOREM NoBlindEnable == Spec => IfMatchHonoured
<1>1. TypeOK /\ SnapshotsAgree /\ RetryHoldsOldEtag /\ [Next]_vars =>
        [\A o \in Edit :
           /\ edit[o].phase = "flushing"
           /\ edit'[o].phase = "done"
           /\ account'[edit[o].target] # account[edit[o].target]
           => account[edit[o].target] = edit[o].held]_vars
  <2> SUFFICES ASSUME TypeOK, SnapshotsAgree, RetryHoldsOldEtag, [Next]_vars,
                      NEW o \in Edit,
                      edit[o].phase = "flushing", edit'[o].phase = "done",
                      account'[edit[o].target] # account[edit[o].target]
               PROVE  account[edit[o].target] = edit[o].held
    OBVIOUS
  <2>1. CASE CommitEdit(o)
    <3>1. Fresh(edit[o].snap, account[edit[o].target])
      BY <2>1 DEF CommitEdit, EditFlushes
    <3>2. edit[o].snap = account[edit[o].target]
      BY <3>1 DEF Fresh, SnapshotsAgree, SameIfSameVersion
    <3>3. QED
      BY <3>2 DEF RetryHoldsOldEtag
  <2>2. EditStep(o)
    BY WhoWrites, OneRequest
  <2>3. ASSUME ~CommitEdit(o) PROVE account' = account
    BY <2>2, <2>3 DEF EditStep, View, BeginEdit, RefuseEdit, EditMailFails,
                      EditConflict
  <2>4. QED
    BY <2>1, <2>3
<1>2. QED
  BY <1>1, TypeCorrect, OptimisticLock, RetryHolds, PTL DEF Spec, IfMatchHonoured

-----------------------------------------------------------------------------
(* The timer. *)

\* What the timer knows of its batch: the query selected disabled accounts at
\* the limit; as long as nobody writes the login data it selected on, they are
\* still a day old, and they are what the second SELECT reads.
SweepSelectedExpiredLocks ==
    \A a \in sweep.batch :
      /\ ~sweep.snap[a].account.isEnable
      /\ sweep.selected[a].counter = InvalidLoginLimit
      /\ SameIfSameVersion(sweep.selected[a], loginData[a])
      /\ loginData[a].version = sweep.selected[a].version => a \in aged
      /\ a \notin sweep.unread =>
           SameIfSameVersion(sweep.selected[a], sweep.snap[a].loginData)

\* An invariant: only a counted failure makes a lock young again, and it takes
\* the next version of the login data.
LEMMA SweepSelects == Spec => []SweepSelectedExpiredLocks
<1>1. Init => SweepSelectedExpiredLocks
  BY InitialRequests DEF SweepSelectedExpiredLocks
<1>2. TypeOK /\ SweepSelectedExpiredLocks /\ [Next]_vars
      => SweepSelectedExpiredLocks'
  <2> SUFFICES ASSUME TypeOK, SweepSelectedExpiredLocks, [Next]_vars,
                      NEW a \in sweep'.batch
               PROVE  /\ ~sweep'.snap[a].account.isEnable
                      /\ sweep'.selected[a].counter = InvalidLoginLimit
                      /\ SameIfSameVersion(sweep'.selected[a], loginData'[a])
                      /\ loginData'[a].version = sweep'.selected[a].version
                           => a \in aged'
                      /\ a \notin sweep'.unread =>
                           SameIfSameVersion(sweep'.selected[a],
                                             sweep'.snap[a].loginData)
    BY DEF SweepSelectedExpiredLocks
  <2>1. CASE sweep' = sweep
    <3>1. /\ a \in sweep.batch
          /\ a \in Account
          /\ loginData[a] \in LoginDataRow
          /\ sweep.selected[a] \in LoginDataRow
      BY <2>1 DEF TypeOK, SweepTransaction
    <3>2. Advances(loginData[a], loginData'[a])
      BY <3>1, RowsAdvance
    <3>3. SameIfSameVersion(sweep.selected[a], loginData'[a])
      BY <3>1, AgreementLasts DEF SweepSelectedExpiredLocks
    <3>4. ASSUME loginData'[a].version = sweep.selected[a].version
          PROVE  a \in aged'
      <4>1. loginData'[a] = loginData[a] /\ a \in aged
        BY <3>1, <3>2, <3>4
        DEF Advances, LoginDataRow, SameIfSameVersion, SweepSelectedExpiredLocks
      <4>2. ASSUME NEW r \in Login, Count(r) PROVE a # login[r].user
        BY <3>1, <4>1, <4>2 DEF Count, SetCounter, NextVersion, LoginDataRow, TypeOK
      <4>3. ASSUME NEW r \in Login, Count(r) PROVE a \in aged'
        BY <4>1, <4>2, <4>3 DEF Count
      <4>4. QED
        BY <4>1, <4>3, WhoWrites DEF Age
    <3>5. QED
      BY <2>1, <3>1, <3>3, <3>4 DEF SweepSelectedExpiredLocks
  <2>2. CASE BeginSweep
    BY <2>2, ReadAgrees DEF BeginSweep, Blocked, Closed
  <2>3. ASSUME NEW b \in Account, LoadLoginData(b)
        PROVE  /\ a \in sweep.batch
               /\ sweep'.snap[a].account = sweep.snap[a].account
               /\ sweep'.selected = sweep.selected
               /\ loginData' = loginData /\ aged' = aged
               /\ \/ sweep'.snap[a].loginData = loginData[a]
                  \/ /\ sweep'.snap[a] = sweep.snap[a]
                     /\ a \notin sweep'.unread => a \notin sweep.unread
    BY <2>3 DEF LoadLoginData, TypeOK, SweepTransaction, Snapshot
  <2>4. CASE sweep' = NoSweep
    BY <2>4 DEF NoSweep
  <2>5. ASSUME NEW b \in Account, LoadLoginData(b)
        PROVE  /\ ~sweep'.snap[a].account.isEnable
               /\ sweep'.selected[a].counter = InvalidLoginLimit
               /\ SameIfSameVersion(sweep'.selected[a], loginData'[a])
               /\ loginData'[a].version = sweep'.selected[a].version => a \in aged'
               /\ a \notin sweep'.unread =>
                    SameIfSameVersion(sweep'.selected[a], sweep'.snap[a].loginData)
    BY <2>3, <2>5 DEF SweepSelectedExpiredLocks
  <2>6. QED
    BY <2>1, <2>2, <2>4, <2>5, WhoWrites DEF SweepStep, CommitSweep, SweepFails
<1>3. QED
  BY <1>1, <1>2, TypeCorrect, PTL DEF Spec

\* The timer enables nobody whose lock changed after the timer read it.
THEOREM SweepIsExact == Spec => SweepUnlocksOnlyExpiredLocks
<1>1. TypeOK /\ SnapshotsAgree /\ SweepSelectedExpiredLocks /\ [Next]_vars =>
        [\A a \in sweep.batch :
           sweep.running /\ ~sweep'.running /\ account'[a] # account[a] =>
             /\ ~account[a].isEnable
             /\ \/ loginData[a].counter = InvalidLoginLimit /\ a \in aged
                \/ sweep.selected[a].version < sweep.snap[a].loginData.version]_vars
  <2> SUFFICES ASSUME TypeOK, SnapshotsAgree, SweepSelectedExpiredLocks, [Next]_vars,
                      NEW a \in sweep.batch,
                      sweep.running, ~sweep'.running, account'[a] # account[a]
               PROVE  /\ ~account[a].isEnable
                      /\ \/ loginData[a].counter = InvalidLoginLimit /\ a \in aged
                         \/ sweep.selected[a].version < sweep.snap[a].loginData.version
    OBVIOUS
  <2>1. CASE CommitSweep
    <3>1. /\ Fresh(sweep.snap[a].account, account[a])
          /\ SweepResets(a) => Fresh(sweep.snap[a].loginData, loginData[a])
          /\ a \notin sweep.unread
      BY <2>1 DEF CommitSweep, SweepFlushes
    <3>2. sweep.snap[a].account = account[a]
      BY <3>1 DEF Fresh, SnapshotsAgree, SameIfSameVersion
    <3>3. /\ sweep.selected[a].version \in Nat
          /\ sweep.snap[a].loginData.version \in Nat
      BY DEF TypeOK, SweepTransaction, Snapshot, LoginDataRow
    <3>4. ASSUME ~(sweep.selected[a].version < sweep.snap[a].loginData.version)
          PROVE  loginData[a].counter = InvalidLoginLimit /\ a \in aged
      <4>1. sweep.snap[a].loginData = sweep.selected[a]
        BY <3>1, <3>3, <3>4 DEF SweepSelectedExpiredLocks, SameIfSameVersion
      <4>2. SweepResets(a)
        BY <4>1 DEF SweepResets, SweepSelectedExpiredLocks, InvalidLoginLimit
      <4>3. sweep.snap[a].loginData = loginData[a]
        BY <3>1, <4>2 DEF Fresh, SnapshotsAgree, SameIfSameVersion
      <4>4. QED
        BY <4>1, <4>3 DEF SweepSelectedExpiredLocks
    <3>5. QED
      BY <3>2, <3>4 DEF SweepSelectedExpiredLocks
  <2>2. ASSUME ~CommitSweep PROVE FALSE
    <3>1. SweepFails
      BY <2>2, WhoWrites DEF SweepStep, BeginSweep, LoadLoginData, TypeOK,
                             SweepTransaction
    <3>2. account' = account
      BY <3>1 DEF SweepFails
    <3>3. QED
      BY <3>2
  <2>3. QED
    BY <2>1, <2>2
<1>2. QED
  BY <1>1, TypeCorrect, OptimisticLock, SweepSelects, PTL
  DEF Spec, SweepUnlocksOnlyExpiredLocks

-----------------------------------------------------------------------------
(* The lockout as if everything took place at once. *)

\* The rows a step writes.
FlagWritten    == {a \in Account : account'[a] # account[a]}
CounterWritten == {a \in Account : loginData'[a] # loginData[a]}

\* The requests whose transaction goes on.
GoesOn(r) ==
    /\ login[r].phase \in {"reading", "flushing"} =>
         login'[r].phase \in {"reading", "flushing"}
    /\ login[r].phase = "flushing" => login'[r].phase = "flushing"

Over(r) == login'[r].phase \notin {"reading", "flushing"}

\* Nobody changes whose login it is, nor whether the password is right.
LEMMA AskedIsFixed ==
  ASSUME TypeOK, [Next]_vars
  PROVE  /\ Asked' = Asked
         /\ \A r \in Login : login'[r].user = login[r].user
<1> login \in [Login -> LoginRequest]
  BY DEF TypeOK
<1>1. ASSUME NEW r \in Login, LoginStep(r)
      PROVE  login'[r].user = login[r].user /\ login'[r].valid = login[r].valid
  <2>1. login[r] \in LoginRequest
    OBVIOUS
  <2>2. CASE Authenticate(r) \/ GrantFails(r)
    BY <2>1, <2>2 DEF Authenticate, GrantFails, LoginRequest
  <2>3. CASE BeginUpdate(r) \/ ReadLoginData(r)
    BY <2>1, <2>3 DEF BeginUpdate, ReadLoginData, LoginRequest
  <2>4. CASE \E p \in LoginPhase : EndUpdate(r, p)
    BY <2>1, <2>4 DEF EndUpdate, LoginRequest
  <2>5. QED
    BY <1>1, <2>2, <2>3, <2>4 DEF LoginStep, Grant, Count, CountFails, LoginPhase
<1>2. \A r \in Login : login'[r].user = login[r].user /\ login'[r].valid = login[r].valid
  BY <1>1, WhoWrites, OneRequest
<1>3. QED
  BY <1>2 DEF Asked

\* What an open login has read becomes old when somebody writes it, and stays old.
LEMMA LoginsOvertaken ==
  ASSUME TypeOK, SnapshotsAgree, [Next]_vars, NEW done \in SUBSET Login,
         \A r \in done : Over(r), \A r \in Login \ done : GoesOn(r)
  PROVE  /\ Atomic!Overtaken(Switched, Switched', FlagWritten, done)
         /\ Atomic!Overtaken(Recounted, Recounted', CounterWritten, done)
<1> login \in [Login -> LoginRequest]
  BY DEF TypeOK
<1>1. \A r \in Login : Asked[r].user = login[r].user
  BY DEF Asked
<1>2. ASSUME NEW r \in Login
      PROVE  /\ login[r].user \in Account
             /\ login[r].snap.account \in AccountRow
             /\ login[r].snap.loginData \in LoginDataRow
             /\ account[login[r].user] \in AccountRow
             /\ loginData[login[r].user] \in LoginDataRow
  BY DEF TypeOK, LoginRequest, Snapshot
<1>3. ASSUME NEW r \in Switched'
      PROVE  r \in (Switched \cup {q \in Login : Asked[q].user \in FlagWritten}) \ done
  <2>1. r \in Login /\ r \notin done /\ login'[r].phase \in {"reading", "flushing"}
        /\ login'[r].snap.account # account'[login'[r].user]
    BY <1>3 DEF Switched, Over
  <2>2. login'[r].user = login[r].user
    BY <2>1, LoginReads
  <2>3. CASE login'[r] = login[r]
    BY <1>1, <1>2, <2>1, <2>2, <2>3 DEF Switched, FlagWritten
  <2>4. CASE /\ login[r].phase = "reading"
             /\ login'[r].snap.account = login[r].snap.account
             /\ UNCHANGED account
    BY <2>1, <2>2, <2>4 DEF Switched
  <2>5. CASE login'[r].snap.account = account[login[r].user] /\ UNCHANGED account
    BY <2>1, <2>2, <2>5
  <2>6. QED
    BY <2>1, <2>3, <2>4, <2>5, LoginReads
<1>4. ASSUME NEW r \in Switched \ done PROVE r \in Switched'
  <2>1. /\ r \in Login /\ login[r].phase \in {"reading", "flushing"}
        /\ login'[r].phase \in {"reading", "flushing"}
        /\ login[r].snap.account # account[login[r].user]
    BY <1>4 DEF Switched, GoesOn
  <2>2. login'[r].user = login[r].user
        /\ login'[r].snap.account = login[r].snap.account
    BY <2>1, LoginReads
  <2>3. login[r].snap.account.version < account[login[r].user].version
    <3>1. SameIfSameVersion(login[r].snap.account, account[login[r].user])
      BY <2>1 DEF SnapshotsAgree
    <3>2. login[r].snap.account.version \in Nat /\ account[login[r].user].version \in Nat
      BY <1>2, <2>1 DEF AccountRow
    <3>3. QED
      BY <2>1, <3>1, <3>2 DEF SameIfSameVersion
  <2>4. login[r].snap.account.version < account'[login[r].user].version
    BY <1>2, <2>1, <2>3, AgreementLasts
  <2>5. login[r].snap.account # account'[login[r].user]
    BY <1>2, <2>1, <2>4 DEF AccountRow
  <2>6. QED
    BY <2>1, <2>2, <2>5 DEF Switched
<1>5. ASSUME NEW r \in Recounted'
      PROVE  r \in (Recounted \cup {q \in Login : Asked[q].user \in CounterWritten}) \ done
  <2>1. r \in Login /\ r \notin done /\ login'[r].phase = "flushing"
        /\ login'[r].snap.loginData # loginData'[login'[r].user]
    BY <1>5 DEF Recounted, Over
  <2>2. login'[r].user = login[r].user
    BY <2>1, LoginReads
  <2>3. CASE login'[r] = login[r]
    BY <1>1, <1>2, <2>1, <2>2, <2>3 DEF Recounted, CounterWritten
  <2>4. CASE login'[r].snap.loginData = loginData[login[r].user] /\ UNCHANGED loginData
    BY <2>1, <2>2, <2>4
  <2>5. QED
    BY <2>1, <2>3, <2>4, LoginReads
<1>6. ASSUME NEW r \in Recounted \ done PROVE r \in Recounted'
  <2>1. /\ r \in Login /\ login[r].phase = "flushing" /\ login'[r].phase = "flushing"
        /\ login[r].snap.loginData # loginData[login[r].user]
    BY <1>6 DEF Recounted, GoesOn
  <2>2. login'[r] = login[r]
    BY <2>1, LoginReads
  <2>3. login[r].snap.loginData.version < loginData[login[r].user].version
    <3>1. SameIfSameVersion(login[r].snap.loginData, loginData[login[r].user])
      BY <2>1 DEF SnapshotsAgree
    <3>2. login[r].snap.loginData.version \in Nat /\ loginData[login[r].user].version \in Nat
      BY <1>2, <2>1 DEF LoginDataRow
    <3>3. QED
      BY <2>1, <3>1, <3>2 DEF SameIfSameVersion
  <2>4. login[r].snap.loginData.version < loginData'[login[r].user].version
    BY <1>2, <2>1, <2>3, AgreementLasts
  <2>5. login[r].snap.loginData # loginData'[login[r].user]
    BY <1>2, <2>1, <2>4 DEF LoginDataRow
  <2>6. QED
    BY <2>1, <2>2, <2>5 DEF Recounted
<1>7. QED
  BY <1>3, <1>4, <1>5, <1>6 DEF Atomic!Overtaken, Atomic!User

\* So it is with what the timer has read, while it holds its accounts.
LEMMA TimerOvertaken ==
  ASSUME TypeOK, SnapshotsAgree, SweepSelectedExpiredLocks, [Next]_vars,
         sweep'.batch = sweep.batch, sweep'.selected = sweep.selected,
         \A a \in sweep.batch : sweep'.snap[a].account = sweep.snap[a].account
  PROVE  /\ Selected' = Selected
         /\ Toggled' = Toggled \cup (Selected \cap FlagWritten)
         /\ Refailed' = Refailed \cup (Selected \cap CounterWritten)
<1>1. ASSUME NEW a \in sweep.batch
      PROVE  /\ sweep.snap[a].account # account'[a] <=>
                  \/ sweep.snap[a].account # account[a]
                  \/ account'[a] # account[a]
             /\ sweep.selected[a] # loginData'[a] <=>
                  \/ sweep.selected[a] # loginData[a]
                  \/ loginData'[a] # loginData[a]
  <2>1. /\ a \in Account
        /\ sweep.snap[a].account \in AccountRow /\ sweep.selected[a] \in LoginDataRow
        /\ account[a] \in AccountRow /\ loginData[a] \in LoginDataRow
    BY DEF TypeOK, SweepTransaction, Snapshot
  <2>2. /\ Advances(account[a], account'[a])
        /\ Advances(loginData[a], loginData'[a])
    BY <2>1, RowsAdvance
  <2>3. /\ SameIfSameVersion(sweep.snap[a].account, account[a])
        /\ SameIfSameVersion(sweep.selected[a], loginData[a])
    BY DEF SnapshotsAgree, SweepSelectedExpiredLocks
  <2>4. sweep.snap[a].account # account'[a] <=>
          sweep.snap[a].account # account[a] \/ account'[a] # account[a]
    BY <2>1, <2>2, <2>3 DEF Advances, SameIfSameVersion, AccountRow
  <2>5. sweep.selected[a] # loginData'[a] <=>
          sweep.selected[a] # loginData[a] \/ loginData'[a] # loginData[a]
    BY <2>1, <2>2, <2>3 DEF Advances, SameIfSameVersion, LoginDataRow
  <2>6. QED
    BY <2>4, <2>5
<1>2. sweep.batch \subseteq Account
  BY DEF TypeOK, SweepTransaction
<1>3. Selected' = Selected
  BY DEF Selected
<1>4. Toggled' = Toggled \cup (Selected \cap FlagWritten)
  BY <1>1, <1>2 DEF Toggled, Selected, FlagWritten
<1>5. Refailed' = Refailed \cup (Selected \cap CounterWritten)
  BY <1>1, <1>2 DEF Refailed, Selected, CounterWritten
<1>6. QED
  BY <1>3, <1>4, <1>5

\* The facts about a state that the steps below rest on: types, the optimistic
\* lock, what the timer has selected, and that it holds nothing between two runs.
SweepIdle == ~sweep.running => sweep.batch = {}

Facts == TypeOK /\ SnapshotsAgree /\ SweepSelectedExpiredLocks /\ SweepIdle

\* Both together, for a step of anybody but the timer.
LEMMA OthersStep ==
  ASSUME Facts, [Next]_vars, sweep' = sweep, NEW done \in SUBSET Login,
         \A r \in done : Over(r), \A r \in Login \ done : GoesOn(r)
  PROVE  Atomic!Others(FlagWritten, CounterWritten, done)
<1>1. /\ Atomic!Overtaken(Switched, Switched', FlagWritten, done)
      /\ Atomic!Overtaken(Recounted, Recounted', CounterWritten, done)
  BY LoginsOvertaken DEF Facts
<1>2. /\ Selected' = Selected
      /\ Toggled' = Toggled \cup (Selected \cap FlagWritten)
      /\ Refailed' = Refailed \cup (Selected \cap CounterWritten)
  BY TimerOvertaken DEF Facts
<1>3. Asked' = Asked
  BY AskedIsFixed DEF Facts
<1>4. QED
  BY <1>1, <1>2, <1>3 DEF Atomic!Others

\* A step that writes no row changes nothing that is seen of them.
LEMMA RowsAlone ==
  /\ account' = account => FlagWritten = {} /\ Enabled' = Enabled
  /\ loginData' = loginData => CounterWritten = {} /\ Failures' = Failures
BY DEF FlagWritten, CounterWritten, Enabled, Failures

\* If it overtakes nobody either, and no login gets on, it changes nothing.
LEMMA Quiet ==
  ASSUME Atomic!Others({}, {}, {}),
         Enabled' = Enabled, Failures' = Failures, aged' = aged, State' = State
  PROVE  UNCHANGED Atomic!vars
<1>1. /\ Switched' = Switched /\ Recounted' = Recounted
      /\ Toggled' = Toggled /\ Refailed' = Refailed
      /\ Asked' = Asked /\ Selected' = Selected
  BY DEF Atomic!Others, Atomic!Overtaken
<1>2. QED
  BY <1>1 DEF Atomic!vars

\* What is seen of a request, by its phase and flag.
StateOf(q) ==
    IF q.phase \in {"granted", "unauthorized"} THEN q.phase
    ELSE IF q.phase # "authenticating" /\ q.flag THEN "passed"
    ELSE "new"

LEMMA StateMapping ==
  /\ State = [r \in Login |-> StateOf(login[r])]
  /\ State' = [r \in Login |-> StateOf(login'[r])]
BY DEF State, StateOf

\* A step of one login changes the state of that login only.
LEMMA OneState ==
  ASSUME TypeOK, NEW r \in Login, LoginStep(r)
  PROVE  /\ State' = [State EXCEPT ![r] = StateOf(login'[r])]
         /\ \A q \in Login \ {r} : GoesOn(q)
<1>1. \A q \in Login \ {r} : login'[q] = login[q]
  BY OneRequest
<1>2. State' = [State EXCEPT ![r] = StateOf(login'[r])]
  BY <1>1, StateMapping
<1>3. QED
  BY <1>1, <1>2 DEF GoesOn

LEMMA AuthenticateImplements ==
  ASSUME Facts, [Next]_vars, NEW r \in Login, Authenticate(r)
  PROVE  Atomic!Pass(r) \/ UNCHANGED Atomic!vars
<1> DEFINE flag == login[r].valid /\ account[login[r].user].isEnable
<1>1. UNCHANGED <<account, loginData, aged, sweep>>
  BY DEF Authenticate
<1>2. /\ login[r].phase = "authenticating" /\ login[r] \in LoginRequest
      /\ login'[r].phase = "beginning" /\ login'[r].flag = flag
  BY DEF Authenticate, Facts, TypeOK, LoginRequest
<1>3. /\ StateOf(login[r]) = "new"
      /\ StateOf(login'[r]) = IF flag THEN "passed" ELSE "new"
  BY <1>2 DEF StateOf
<1>4. /\ State[r] = "new"
      /\ State' = [State EXCEPT ![r] = StateOf(login'[r])]
      /\ \A q \in Login : GoesOn(q)
  BY <1>2, <1>3, OneState, StateMapping DEF LoginStep, GoesOn, Facts
<1>5. Atomic!Others({}, {}, {})
  BY <1>1, <1>4, OthersStep, RowsAlone
<1>6. CASE flag
  <2>1. /\ Asked[r].valid
        /\ Asked[r].user = login[r].user
        /\ Enabled[login[r].user]
    BY <1>2, <1>6 DEF Asked, Enabled, LoginRequest
  <2>2. State' = [State EXCEPT ![r] = "passed"]
    BY <1>3, <1>4, <1>6
  <2>3. QED
    BY <1>1, <1>4, <1>5, <2>1, <2>2, RowsAlone DEF Atomic!Pass, Atomic!User
<1>7. CASE ~flag
  <2>1. State' = State
    BY <1>3, <1>4, <1>7, StateMapping
  <2>2. QED
    BY <1>1, <1>5, <2>1, Quiet, RowsAlone
<1>8. QED
  BY <1>6, <1>7

\* Reading changes nothing that is seen.
LEMMA ReadImplements ==
  ASSUME Facts, [Next]_vars, NEW r \in Login, BeginUpdate(r) \/ ReadLoginData(r)
  PROVE  UNCHANGED Atomic!vars
<1>1. UNCHANGED <<account, loginData, aged, sweep>>
  BY DEF BeginUpdate, ReadLoginData
<1>2. /\ login[r] \in LoginRequest
      /\ login[r].phase \in {"beginning", "reading"}
      /\ login'[r].phase \in {"reading", "flushing"}
      /\ login'[r].flag = login[r].flag
  BY DEF BeginUpdate, ReadLoginData, Facts, TypeOK, LoginRequest
<1>3. StateOf(login'[r]) = StateOf(login[r])
  BY <1>2 DEF StateOf
<1>4. /\ State' = [State EXCEPT ![r] = StateOf(login'[r])]
      /\ \A q \in Login : GoesOn(q)
  BY <1>2, OneState DEF LoginStep, GoesOn, Facts
<1>5. State' = State
  BY <1>3, <1>4, StateMapping
<1>6. Atomic!Others({}, {}, {})
  BY <1>1, <1>4, OthersStep, RowsAlone
<1>7. QED
  BY <1>1, <1>5, <1>6, Quiet, RowsAlone

\* A request that ends is over, whatever its answer.
LEMMA EndedLogin ==
  ASSUME TypeOK, NEW r \in Login, NEW p \in {"granted", "unauthorized"},
         LoginStep(r), EndUpdate(r, p)
  PROVE  /\ State' = [State EXCEPT ![r] = p]
         /\ Over(r)
         /\ \A q \in Login \ {r} : GoesOn(q)
<1>1. login[r] \in LoginRequest /\ login'[r].phase = p
  BY DEF TypeOK, EndUpdate, LoginRequest
<1>2. QED
  BY <1>1, OneState DEF StateOf, Over

\* The write of the counter of one account.
LEMMA CounterWrite ==
  ASSUME TypeOK, NEW a \in Account, NEW n \in 0..InvalidLoginLimit,
         loginData' = SetCounter(a, n)
  PROVE  /\ CounterWritten = {a}
         /\ Failures' = [Failures EXCEPT ![a] = n]
<1>1. /\ loginData[a] \in LoginDataRow /\ loginData'[a].version = loginData[a].version + 1
      /\ loginData'[a].counter = n
      /\ \A b \in Account \ {a} : loginData'[b] = loginData[b]
  BY DEF TypeOK, SetCounter, NextVersion, LoginDataRow
<1>2. loginData'[a] # loginData[a]
  BY <1>1 DEF LoginDataRow
<1>3. QED
  BY <1>1, <1>2 DEF CounterWritten, Failures

LEMMA GrantImplements ==
  ASSUME Facts, [Next]_vars, NEW r \in Login, Grant(r)
  PROVE  Atomic!Succeed(r)
<1> DEFINE a == login[r].user
<1>1. UNCHANGED <<account, aged, sweep>>
  BY DEF Grant
<1>2. /\ a \in Account /\ login[r].phase = "flushing" /\ login[r].flag
      /\ Asked[r].user = a
  BY DEF Facts, TypeOK, LoginRequest, Grant, Asked
<1>3. State[r] = "passed"
  BY <1>2, StateMapping DEF StateOf
<1>4. r \notin Recounted
  BY <1>2 DEF Grant, GrantFlushes, Fresh, Facts, SnapshotsAgree, SameIfSameVersion,
              Recounted
<1>5. /\ State' = [State EXCEPT ![r] = "granted"]
      /\ Over(r) /\ \A q \in Login \ {r} : GoesOn(q)
  BY EndedLogin DEF Facts, Grant, LoginStep
<1>6. CounterWritten = {a} /\ Failures' = [Failures EXCEPT ![a] = 0]
  BY <1>2, CounterWrite DEF Grant, InvalidLoginLimit, Facts
<1>7. Atomic!Others({}, {a}, {r})
  BY <1>1, <1>5, <1>6, OthersStep, RowsAlone
<1>8. QED
  BY <1>1, <1>2, <1>3, <1>4, <1>5, <1>6, <1>7, RowsAlone DEF Atomic!Succeed, Atomic!User

LEMMA GrantFailsImplements ==
  ASSUME Facts, [Next]_vars, NEW r \in Login, GrantFails(r)
  PROVE  Atomic!StartOver(r)
<1>1. UNCHANGED <<account, loginData, aged, sweep>>
  BY DEF GrantFails
<1>2. /\ login[r] \in LoginRequest
      /\ login[r].phase = "flushing" /\ login[r].flag
      /\ login'[r].phase = "beginning" /\ login'[r].flag = FALSE
  BY DEF Facts, TypeOK, LoginRequest, GrantFails
<1>3. State[r] = "passed" /\ StateOf(login'[r]) = "new"
  BY <1>2, StateMapping DEF StateOf
<1>4. /\ State' = [State EXCEPT ![r] = "new"]
      /\ Over(r) /\ \A q \in Login \ {r} : GoesOn(q)
  BY <1>2, <1>3, OneState DEF LoginStep, Over, Facts
<1>5. Atomic!Others({}, {}, {r})
  BY <1>1, <1>4, OthersStep, RowsAlone
<1>6. QED
  BY <1>1, <1>3, <1>4, <1>5, RowsAlone DEF Atomic!StartOver

\* What a request has read and nobody has written since is what is stored.
LEMMA NotOvertaken ==
  ASSUME TypeOK, SnapshotsAgree, NEW r \in Login, login[r].phase = "flushing"
  PROVE  LET a == login[r].user
         IN  /\ login[r] \in LoginRequest /\ a \in Account
             /\ Asked[r].user = a
             /\ State[r] = IF login[r].flag THEN "passed" ELSE "new"
             /\ Failures[a] = loginData[a].counter /\ Failures[a] \in 0..InvalidLoginLimit
             /\ Enabled[a] = account[a].isEnable
             /\ NextCounter(r) = login[r].snap.loginData.counter + 1
             /\ r \in Switched <=> login[r].snap.account # account[a]
             /\ r \in Recounted <=> login[r].snap.loginData # loginData[a]
             /\ Fresh(login[r].snap.account, account[a]) <=> r \notin Switched
             /\ Fresh(login[r].snap.loginData, loginData[a]) <=> r \notin Recounted
<1> DEFINE a == login[r].user
<1>1. login[r] \in LoginRequest /\ a \in Account /\ Asked[r].user = a
  BY DEF TypeOK, LoginRequest, Asked
<1>2. /\ Failures[a] = loginData[a].counter /\ Enabled[a] = account[a].isEnable
      /\ Failures[a] \in 0..InvalidLoginLimit
  BY <1>1 DEF Failures, Enabled, TypeOK, LoginDataRow
<1>3. State[r] = IF login[r].flag THEN "passed" ELSE "new"
  BY StateMapping DEF StateOf
<1>4. /\ r \in Switched <=> login[r].snap.account # account[a]
      /\ r \in Recounted <=> login[r].snap.loginData # loginData[a]
  BY DEF Switched, Recounted
<1>5. /\ SameIfSameVersion(login[r].snap.account, account[a])
      /\ SameIfSameVersion(login[r].snap.loginData, loginData[a])
  BY DEF SnapshotsAgree
<1>6. /\ Fresh(login[r].snap.account, account[a]) <=> r \notin Switched
      /\ Fresh(login[r].snap.loginData, loginData[a]) <=> r \notin Recounted
  BY <1>4, <1>5 DEF Fresh, SameIfSameVersion
<1>7. QED
  BY <1>1, <1>2, <1>3, <1>4, <1>6 DEF NextCounter

\* The write of the flag of one account.
LEMMA FlagWrite ==
  ASSUME TypeOK, NEW a \in Account, NEW f \in BOOLEAN, account' = SetEnable(a, f)
  PROVE  /\ FlagWritten = {a}
         /\ Enabled' = [Enabled EXCEPT ![a] = f]
<1>1. /\ account[a] \in AccountRow /\ account'[a].version = account[a].version + 1
      /\ account'[a].isEnable = f
      /\ \A b \in Account \ {a} : account'[b] = account[b]
  BY DEF TypeOK, SetEnable, NextVersion, AccountRow
<1>2. account'[a] # account[a]
  BY <1>1 DEF AccountRow
<1>3. FlagWritten = {a}
  BY <1>1, <1>2 DEF FlagWritten
<1>4. Enabled' = [Enabled EXCEPT ![a] = f]
  BY <1>1 DEF Enabled
<1>5. QED
  BY <1>3, <1>4

LEMMA CountImplements ==
  ASSUME Facts, [Next]_vars, NEW r \in Login, Count(r)
  PROVE  Atomic!Fail(r)
<1> DEFINE a       == login[r].user
           flags   == {b \in Account : Enabled'[b] # Enabled[b]}
<1>1. /\ sweep' = sweep /\ aged' = aged \ {a}
      /\ login[r].phase = "flushing" /\ ~login[r].flag
      /\ loginData' = SetCounter(a, NextCounter(r))
      /\ account' = IF Locks(r) THEN SetEnable(a, FALSE) ELSE account
  BY DEF Count
<1>2. /\ a \in Account /\ Asked[r].user = a /\ State[r] = "new"
      /\ Failures[a] \in 0..InvalidLoginLimit
      /\ Enabled[a] = account[a].isEnable
  BY <1>1, NotOvertaken DEF Facts
<1>3. r \notin Recounted /\ (Locks(r) => r \notin Switched)
  BY <1>1, NotOvertaken DEF Facts, Count, CountFlushes
<1>4. /\ NextCounter(r) = Failures[a] + 1
      /\ NextCounter(r) \in 0..InvalidLoginLimit
      /\ Failures[a] < InvalidLoginLimit
  <2>1. NextCounter(r) = Failures[a] + 1
    BY <1>1, <1>3, NotOvertaken DEF Facts
  <2>2. NextCounter(r) <= InvalidLoginLimit
    BY DEF Count, CountFlushes, CounterValid
  <2>3. QED
    BY <1>2, <2>1, <2>2 DEF InvalidLoginLimit
<1>5. /\ State' = [State EXCEPT ![r] = "unauthorized"]
      /\ Over(r) /\ \A q \in Login \ {r} : GoesOn(q)
  BY EndedLogin DEF Facts, Count, LoginStep
<1>6. CounterWritten = {a} /\ Failures' = [Failures EXCEPT ![a] = @ + 1]
  <2>1. CounterWritten = {a} /\ Failures' = [Failures EXCEPT ![a] = NextCounter(r)]
    BY <1>1, <1>2, <1>4, CounterWrite DEF Facts
  <2>2. QED
    BY <1>4, <2>1
<1>7. /\ FlagWritten = flags
      /\ Enabled' = IF Atomic!Disables(r) THEN [Enabled EXCEPT ![a] = FALSE] ELSE Enabled
  <2>1. Atomic!Disables(r) <=> AtLimit(r) /\ r \notin Switched
    BY <1>2, <1>4 DEF Atomic!Disables, Atomic!User, AtLimit
  <2>2. CASE Locks(r)
    <3>1. FlagWritten = {a} /\ Enabled' = [Enabled EXCEPT ![a] = FALSE]
      BY <1>1, <1>2, <2>2, FlagWrite DEF Facts
    <3>2. Enabled[a]
      BY <1>1, <1>3, <2>2, NotOvertaken DEF Locks, Facts
    <3>3. DOMAIN Enabled = Account
      BY DEF Enabled
    <3>4. flags = {a}
      BY <1>2, <3>1, <3>2, <3>3
    <3>5. QED
      BY <1>3, <2>1, <2>2, <3>1, <3>4 DEF Locks
  <2>3. CASE ~Locks(r)
    <3>1. FlagWritten = {} /\ Enabled' = Enabled
      BY <1>1, <2>3, RowsAlone
    <3>2. ASSUME Atomic!Disables(r) PROVE Enabled[a] = FALSE
      <4>1. ~login[r].snap.account.isEnable /\ login[r].snap.account = account[a]
        BY <1>1, <2>1, <2>3, <3>2, NotOvertaken DEF Locks, Facts
      <4>2. account[a].isEnable \in BOOLEAN
        BY <1>2 DEF Facts, TypeOK, AccountRow
      <4>3. QED
        BY <1>2, <4>1, <4>2
    <3>3. Enabled = [b \in Account |-> Enabled[b]]
      BY DEF Enabled
    <3>4. Atomic!Disables(r) => Enabled = [Enabled EXCEPT ![a] = FALSE]
      BY <3>2, <3>3
    <3>5. QED
      BY <3>1, <3>4
  <2>4. QED
    BY <2>2, <2>3
<1>8. Atomic!Others(flags, {a}, {r})
  BY <1>1, <1>5, <1>6, <1>7, OthersStep
<1>9. QED
  BY <1>1, <1>2, <1>3, <1>4, <1>5, <1>6, <1>7, <1>8 DEF Atomic!Fail, Atomic!User

LEMMA CountFailsImplements ==
  ASSUME Facts, [Next]_vars, NEW r \in Login, CountFails(r)
  PROVE  Atomic!Ignore(r)
<1> DEFINE a == login[r].user
<1>1. /\ UNCHANGED <<account, loginData, aged, sweep>>
      /\ login[r].phase = "flushing" /\ ~login[r].flag
  BY DEF CountFails
<1>2. /\ Asked[r].user = a /\ State[r] = "new"
      /\ Failures[a] \in 0..InvalidLoginLimit
  BY <1>1, NotOvertaken DEF Facts
<1>3. r \in Recounted \/ Failures[a] + 1 >= InvalidLoginLimit
  <2> SUFFICES ASSUME r \notin Recounted
               PROVE  Failures[a] + 1 >= InvalidLoginLimit
    OBVIOUS
  <2>1. /\ NextCounter(r) = Failures[a] + 1
        /\ Fresh(login[r].snap.loginData, loginData[a])
        /\ Fresh(login[r].snap.account, account[a]) <=> r \notin Switched
    BY <1>1, NotOvertaken DEF Facts
  <2>2. NextCounter(r) > InvalidLoginLimit \/ AtLimit(r)
    BY <1>2, <2>1 DEF CountFails, CountFlushes, CounterValid, Locks, InvalidLoginLimit
  <2>3. QED
    BY <1>2, <2>1, <2>2 DEF AtLimit, InvalidLoginLimit
<1>4. /\ State' = [State EXCEPT ![r] = "unauthorized"]
      /\ Over(r) /\ \A q \in Login \ {r} : GoesOn(q)
  BY EndedLogin DEF Facts, CountFails, LoginStep
<1>5. Atomic!Others({}, {}, {r})
  BY <1>1, <1>4, OthersStep, RowsAlone
<1>6. QED
  BY <1>1, <1>2, <1>3, <1>4, <1>5, RowsAlone DEF Atomic!Ignore, Atomic!User

\* A step that is nobody's login lets every login go on.
LEMMA NoLogin ==
  ASSUME login' = login
  PROVE  State' = State /\ \A r \in Login : GoesOn(r)
BY StateMapping DEF GoesOn

\* Of the edits only the flush of a flag that differs is seen: it switches it.
LEMMA EditImplements ==
  ASSUME Facts, [Next]_vars, NEW o \in Edit, EditStep(o)
  PROVE  UNCHANGED Atomic!vars \/ \E a \in Account : Atomic!Switch(a)
<1>1. /\ UNCHANGED <<loginData, aged, login, sweep>>
      /\ account' = account \/ CommitEdit(o)
  BY DEF EditStep, View, BeginEdit, RefuseEdit, CommitEdit, EditMailFails, EditConflict
<1>2. Atomic!Others(FlagWritten, {}, {})
  BY <1>1, NoLogin, OthersStep, RowsAlone
<1>3. CASE account' = account
  BY <1>1, <1>2, <1>3, NoLogin, Quiet, RowsAlone
<1>4. CASE CommitEdit(o) /\ account' # account
  <2> DEFINE a == edit[o].target
  <2>1. a \in Account /\ edit[o].flag \in BOOLEAN /\ edit[o].snap \in AccountRow
    BY DEF Facts, TypeOK, EditRequest
  <2>2. EditDirty(o) /\ account' = SetEnable(a, edit[o].flag)
    BY <1>4 DEF CommitEdit
  <2>3. edit[o].snap = account[a]
    BY <1>4, <2>2 DEF CommitEdit, EditFlushes, Fresh, Facts, SnapshotsAgree,
                      SameIfSameVersion
  <2>4. Enabled[a] = account[a].isEnable /\ account[a].isEnable \in BOOLEAN
    BY <2>1 DEF Enabled, Facts, TypeOK, AccountRow
  <2>5. edit[o].flag = ~Enabled[a]
    BY <2>1, <2>2, <2>3, <2>4, Zenon DEF EditDirty
  <2>6. FlagWritten = {a} /\ Enabled' = [Enabled EXCEPT ![a] = ~@]
    BY <2>1, <2>2, <2>5, FlagWrite DEF Facts
  <2>7. Atomic!Switch(a)
    BY <1>1, <1>2, <2>6, NoLogin, RowsAlone DEF Atomic!Switch
  <2>8. QED
    BY <2>1, <2>7
<1>5. QED
  BY <1>1, <1>3, <1>4

LEMMA AgeImplements ==
  ASSUME Facts, [Next]_vars, NEW a \in Account, Age(a)
  PROVE  Atomic!Age(a)
<1>1. /\ UNCHANGED <<account, loginData, login, sweep>>
      /\ aged' = aged \cup {a}
      /\ Failures[a] > 0
  BY DEF Age, Failures
<1>2. Atomic!Others({}, {}, {})
  BY <1>1, NoLogin, OthersStep, RowsAlone
<1>3. QED
  BY <1>1, <1>2, NoLogin, RowsAlone DEF Atomic!Age

\* What the timer knows when it has just looked, and when it is done.
LEMMA Holding ==
  /\ sweep' = NoSweep => Selected' = {} /\ Toggled' = {} /\ Refailed' = {}
  /\ sweep.batch = {} => Selected = {} /\ Toggled = {} /\ Refailed = {}
BY DEF NoSweep, Selected, Toggled, Refailed

LEMMA BeginSweepImplements ==
  ASSUME Facts, [Next]_vars, BeginSweep
  PROVE  Atomic!Select
<1>1. UNCHANGED <<account, loginData, aged, login>>
  BY DEF BeginSweep
<1>2. Selected = {}
  BY Holding DEF BeginSweep, Facts, SweepIdle
<1>3. Selected' = {a \in Account : Atomic!Locked(a)}
  <2>1. \A a \in Account : Blocked(a) <=> Atomic!Locked(a)
    BY DEF Blocked, Atomic!Locked, Enabled, Failures
  <2>2. Selected' = {a \in Account : Blocked(a)}
    BY DEF BeginSweep, Selected
  <2>3. QED
    BY <2>1, <2>2
<1>4. Toggled' = {} /\ Refailed' = {}
  BY <1>1 DEF BeginSweep, Toggled, Refailed, Closed
<1>5. Asked' = Asked /\ Switched' = Switched /\ Recounted' = Recounted
  BY <1>1 DEF Asked, Switched, Recounted
<1>6. QED
  BY <1>1, <1>2, <1>3, <1>4, <1>5, NoLogin, RowsAlone DEF Atomic!Select

LEMMA LoadImplements ==
  ASSUME Facts, [Next]_vars, NEW b \in Account, LoadLoginData(b)
  PROVE  UNCHANGED Atomic!vars
<1>1. /\ UNCHANGED <<account, loginData, aged, login>>
      /\ sweep'.batch = sweep.batch /\ sweep'.selected = sweep.selected
      /\ \A a \in sweep.batch : sweep'.snap[a].account = sweep.snap[a].account
  BY DEF LoadLoginData, Facts, TypeOK, SweepTransaction, Snapshot
<1>2. Selected' = Selected /\ Toggled' = Toggled /\ Refailed' = Refailed
  BY <1>1 DEF Selected, Toggled, Refailed
<1>3. Asked' = Asked /\ Switched' = Switched /\ Recounted' = Recounted
  BY <1>1 DEF Asked, Switched, Recounted
<1>4. QED
  BY <1>1, <1>2, <1>3, NoLogin, RowsAlone DEF Atomic!vars

LEMMA SweepFailsImplements ==
  ASSUME Facts, [Next]_vars, SweepFails
  PROVE  Atomic!Abandon
<1>1. UNCHANGED <<account, loginData, aged, login>> /\ sweep' = NoSweep
  BY DEF SweepFails
<1>2. Asked' = Asked /\ Switched' = Switched /\ Recounted' = Recounted
  BY <1>1 DEF Asked, Switched, Recounted
<1>3. QED
  BY <1>1, <1>2, Holding, NoLogin, RowsAlone DEF Atomic!Abandon

\* The commit of the timer: what it reads of an account that nobody has switched
\* or whose failures nobody has written is what it selected it for.
LEMMA CommitSweepImplements ==
  ASSUME Facts, [Next]_vars, CommitSweep
  PROVE  Atomic!Unlock
<1>1. UNCHANGED <<aged, login>> /\ sweep' = NoSweep
  BY DEF CommitSweep
<1>2. /\ Selected = sweep.batch /\ sweep.batch \subseteq Account
      /\ Refailed \subseteq Selected
  BY DEF Selected, Refailed, Facts, TypeOK, SweepTransaction
<1>3. ASSUME NEW a \in Selected
      PROVE  /\ account[a] \in AccountRow /\ loginData[a] \in LoginDataRow
             /\ sweep.snap[a].account = account[a] /\ ~account[a].isEnable
             /\ account'[a].isEnable = TRUE
             /\ account'[a].version = account[a].version + 1
             /\ loginData'[a].counter \in {0, loginData[a].counter}
             /\ a \notin Refailed =>
                  /\ loginData[a].counter = InvalidLoginLimit /\ a \in aged
                  /\ loginData'[a].counter = 0
  <2>1. /\ a \in Account /\ a \in sweep.batch
        /\ account[a] \in AccountRow /\ loginData[a] \in LoginDataRow
        /\ sweep.selected[a] \in LoginDataRow
        /\ sweep.snap[a].loginData \in LoginDataRow
    BY <1>2 DEF Facts, TypeOK, SweepTransaction, Snapshot
  <2>2. /\ Fresh(sweep.snap[a].account, account[a])
        /\ SweepResets(a) => Fresh(sweep.snap[a].loginData, loginData[a])
        /\ a \notin sweep.unread
    BY <2>1 DEF CommitSweep, SweepFlushes
  <2>3. sweep.snap[a].account = account[a]
    BY <2>1, <2>2 DEF Fresh, Facts, SnapshotsAgree, SameIfSameVersion
  <2>4. ~account[a].isEnable
    BY <2>1, <2>3 DEF Facts, SweepSelectedExpiredLocks
  <2>5. /\ account'[a].isEnable = TRUE
        /\ account'[a].version = account[a].version + 1
        /\ loginData'[a] = IF SweepResets(a)
                           THEN [counter |-> 0, version |-> NextVersion(loginData[a])]
                           ELSE loginData[a]
    BY <2>1 DEF CommitSweep, NextVersion
  <2>6. ASSUME a \notin Refailed
        PROVE  /\ loginData[a].counter = InvalidLoginLimit /\ a \in aged
               /\ loginData'[a].counter = 0
    <3>1. sweep.selected[a] = loginData[a]
      BY <2>1, <2>6 DEF Refailed
    <3>2. loginData[a].counter = InvalidLoginLimit /\ a \in aged
      BY <2>1, <3>1 DEF Facts, SweepSelectedExpiredLocks
    <3>3. SameIfSameVersion(loginData[a], sweep.snap[a].loginData)
          /\ SameIfSameVersion(sweep.snap[a].loginData, loginData[a])
      BY <2>1, <2>2, <3>1 DEF Facts, SweepSelectedExpiredLocks, SnapshotsAgree
    <3>4. sweep.snap[a].loginData = loginData[a]
      BY <2>1, <3>3 DEF SameIfSameVersion, LoginDataRow
    <3>5. QED
      BY <2>5, <3>2, <3>4 DEF SweepResets, InvalidLoginLimit
  <2>7. QED
    BY <2>1, <2>3, <2>4, <2>5, <2>6
<1>4. ASSUME NEW a \in Account \ Selected
      PROVE  account'[a] = account[a] /\ loginData'[a] = loginData[a]
  BY <1>2, <1>4 DEF CommitSweep
<1>5. Toggled = {}
  BY <1>2, <1>3 DEF Toggled
<1>6. \A a \in Selected : ~Enabled[a] /\ (a \notin Refailed => Atomic!Locked(a))
  BY <1>2, <1>3 DEF Enabled, Failures, Atomic!Locked
<1>7. Enabled' = [a \in Account |-> Enabled[a] \/ a \in Selected]
  <2>1. ASSUME NEW a \in Account
        PROVE  account'[a].isEnable = (Enabled[a] \/ a \in Selected)
    <3>1. account[a].isEnable \in BOOLEAN /\ Enabled[a] = account[a].isEnable
      BY DEF Facts, TypeOK, AccountRow, Enabled
    <3>2. CASE a \in Selected
      BY <1>3, <3>2
    <3>3. CASE a \notin Selected
      BY <1>4, <3>1, <3>3
    <3>4. QED
      BY <3>2, <3>3
  <2>2. QED
    BY <2>1 DEF Enabled
<1>8. /\ Failures' \in [Account -> 0..InvalidLoginLimit]
      /\ \A a \in Account :
           /\ a \notin Selected => Failures'[a] = Failures[a]
           /\ a \in Selected \ Refailed => Failures'[a] = 0
           /\ a \in Refailed => Failures'[a] \in {0, Failures[a]}
  <2>1. \A a \in Account : loginData[a].counter \in 0..InvalidLoginLimit
    BY DEF Facts, TypeOK, LoginDataRow
  <2>2. \A a \in Account : /\ a \notin Selected => Failures'[a] = Failures[a]
                           /\ a \in Selected \ Refailed => Failures'[a] = 0
                           /\ a \in Refailed => Failures'[a] \in {0, Failures[a]}
    BY <1>2, <1>3, <1>4 DEF Failures
  <2>3. ASSUME NEW a \in Account PROVE loginData'[a].counter \in 0..InvalidLoginLimit
    <3>1. CASE a \in Selected
      <4>1. loginData'[a].counter \in {0, loginData[a].counter}
        BY <1>3, <3>1
      <4>2. QED
        BY <2>1, <4>1 DEF InvalidLoginLimit
    <3>2. CASE a \notin Selected
      BY <1>4, <2>1, <3>2
    <3>3. QED
      BY <3>1, <3>2
  <2>4. QED
    BY <2>2, <2>3 DEF Failures
<1>9. FlagWritten = Selected /\ CounterWritten \subseteq Selected
  <2>1. \A a \in Selected : account'[a] # account[a]
    BY <1>3 DEF AccountRow
  <2>2. QED
    BY <1>2, <1>4, <2>1 DEF FlagWritten, CounterWritten
<1>10. /\ Atomic!Overtaken(Switched, Switched', Selected, {})
       /\ Atomic!Overtaken(Recounted, Recounted', Selected, {})
  <2>1. /\ Atomic!Overtaken(Switched, Switched', FlagWritten, {})
        /\ Atomic!Overtaken(Recounted, Recounted', CounterWritten, {})
    BY <1>1, NoLogin, LoginsOvertaken DEF Facts
  <2>2. QED
    BY <1>9, <2>1 DEF Atomic!Overtaken
<1>11. Asked' = Asked
  BY <1>1 DEF Asked
<1>12. QED
  BY <1>1, <1>5, <1>6, <1>7, <1>8, <1>10, <1>11, Holding, NoLogin
  DEF Atomic!Unlock

-----------------------------------------------------------------------------
(* The whole. *)

\* The timer holds nothing between two runs.
LEMMA NothingHeld == Spec => []SweepIdle
<1>1. Init => SweepIdle
  BY InitialRequests DEF SweepIdle
<1>2. TypeOK /\ SweepIdle /\ [Next]_vars => SweepIdle'
  <2> SUFFICES ASSUME TypeOK, SweepIdle, [Next]_vars PROVE SweepIdle'
    OBVIOUS
  <2>1. CASE BeginSweep
    BY <2>1 DEF BeginSweep, SweepIdle
  <2>2. ASSUME NEW a \in Account, LoadLoginData(a) PROVE SweepIdle'
    BY <2>2 DEF LoadLoginData, TypeOK, SweepTransaction, SweepIdle
  <2>3. CASE sweep' = NoSweep
    BY <2>3 DEF NoSweep, SweepIdle
  <2>4. CASE sweep' = sweep
    BY <2>4 DEF SweepIdle
  <2>5. QED
    BY <2>1, <2>2, <2>3, <2>4, WhoWrites DEF SweepStep, CommitSweep, SweepFails
<1>3. QED
  BY <1>1, <1>2, TypeCorrect, PTL DEF Spec

LEMMA InitImplements == Init => Atomic!Init
<1> SUFFICES ASSUME Init PROVE Atomic!Init
  OBVIOUS
<1>1. /\ Enabled \in [Account -> BOOLEAN]
      /\ Failures \in [Account -> 0..InvalidLoginLimit]
      /\ \A a \in Account : Failures[a] = loginData[a].counter
  <2>1. PICK enabled \in [Account -> BOOLEAN] :
          account = [a \in Account |-> [isEnable |-> enabled[a], version |-> 0]]
    BY DEF Init
  <2>2. PICK failures \in [Account -> 0..InvalidLoginLimit] :
          loginData = [a \in Account |-> [counter |-> failures[a], version |-> 0]]
    BY DEF Init
  <2>3. QED
    BY <2>1, <2>2 DEF Enabled, Failures
<1>2. aged \subseteq {a \in Account : Failures[a] > 0}
  BY <1>1 DEF Init
<1>3. Asked \in [Login -> [user : Account, valid : BOOLEAN]]
  <2>1. PICK user \in [Login -> Account], valid \in [Login -> BOOLEAN] :
          login = [r \in Login |-> [phase |-> "authenticating", user |-> user[r],
                                    valid |-> valid[r], flag |-> FALSE,
                                    snap |-> Closed]]
    BY DEF Init
  <2>2. QED
    BY <2>1 DEF Asked
<1>4. /\ State = [r \in Login |-> "new"] /\ Switched = {} /\ Recounted = {}
      /\ Selected = {} /\ Toggled = {} /\ Refailed = {}
  BY InitialRequests, Holding DEF State, Switched, Recounted
<1>5. QED
  BY <1>1, <1>2, <1>3, <1>4 DEF Atomic!Init

LEMMA StepImplements == Facts /\ [Next]_vars => [Atomic!Next]_(Atomic!vars)
<1> SUFFICES ASSUME Facts, [Next]_vars PROVE Atomic!Next \/ UNCHANGED Atomic!vars
  OBVIOUS
<1>1. ASSUME NEW r \in Login, LoginStep(r)
      PROVE  \/ \E q \in Login : \/ Atomic!Pass(q) \/ Atomic!Succeed(q)
                                 \/ Atomic!StartOver(q) \/ Atomic!Fail(q)
                                 \/ Atomic!Ignore(q)
             \/ UNCHANGED Atomic!vars
  BY <1>1, AuthenticateImplements, ReadImplements, GrantImplements,
     GrantFailsImplements, CountImplements, CountFailsImplements DEF LoginStep
<1>2. CASE SweepStep
  BY <1>2, BeginSweepImplements, LoadImplements, CommitSweepImplements,
     SweepFailsImplements DEF SweepStep, Atomic!Next
<1>3. CASE UNCHANGED vars
  BY <1>3 DEF vars, Atomic!vars, Enabled, Failures, Asked, State, Switched,
              Recounted, Selected, Toggled, Refailed
<1>4. QED
  BY <1>1, <1>2, <1>3, EditImplements, AgeImplements DEF Next, Atomic!Next

\* Logins, edits and the timer, whose transactions interleave at every SELECT, do
\* what Lockout says they do at once.
THEOREM LockoutIsImplemented == Spec => LockoutImplemented
BY InitImplements, StepImplements, TypeCorrect, OptimisticLock, SweepSelects,
   NothingHeld, PTL DEF Spec, Facts, LockoutImplemented, Atomic!Spec

=============================================================================
