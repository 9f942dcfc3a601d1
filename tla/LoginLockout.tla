---------------------------- MODULE LoginLockout ----------------------------
(***************************************************************************)
(* Logging in, the three-failures lockout, and the ways out of it.         *)
(*                                                                         *)
(* A login request is served by the endpoint in up to three transactions:  *)
(* authenticate, updateLoginData(true) and, when either of them throws,    *)
(* updateLoginData(false).  An administrator or a manager enables or       *)
(* disables an account with the version and the etag of an earlier GET,    *)
(* and the endpoint retries a call that loses an optimistic-lock race.     *)
(* A timer enables the accounts whose lockout is at least a day old.       *)
(*                                                                         *)
(* A service transaction reads the account, then in another SELECT its     *)
(* login data, then flushes and commits or rolls back.  Between its steps  *)
(* other transactions commit; the @Version columns are what detects it.    *)
(* Row locks are held from the flush to the commit, so the last step is    *)
(* atomic.                                                                 *)
(***************************************************************************)
EXTENDS Naturals, Versioned

CONSTANTS
    Account,    \* the accounts
    Admins,     \* those with an access-level mapping ADMIN, active or revoked
    Login,      \* the login requests, each served once
    Edit,       \* the enable and disable requests, each served once
    TxRetries   \* the configured tx.retries

ASSUME LockoutAssumption ==
    /\ Admins \subseteq Account
    /\ TxRetries \in Nat \ {0}

VARIABLES
    account,    \* table account: the columns this module is about
    loginData,  \* table login_data
    aged,       \* accounts whose last_invalid_login_date is a day old or more
    login,      \* the login requests
    edit,       \* the enable and disable requests
    sweep       \* the transaction of the unlocking timer

vars == <<account, loginData, aged, login, edit, sweep>>

-----------------------------------------------------------------------------
(* Rows, and what one transaction has read of them. *)

InvalidLoginLimit == 3

AccountRow   == [isEnable : BOOLEAN, version : Nat]
LoginDataRow == [counter : 0..InvalidLoginLimit, version : Nat]
Snapshot     == [account : AccountRow, loginData : LoginDataRow]

\* A request outside a transaction holds no entity.
Closed == [account   |-> [isEnable |-> TRUE, version |-> 0],
           loginData |-> [counter |-> 0, version |-> 0]]

LoginPhase == {"authenticating", "beginning", "reading", "flushing",
               "granted", "unauthorized"}

LoginRequest ==
    [phase : LoginPhase,
     user  : Account,
     valid : BOOLEAN,   \* right password, account active and with a level
     flag  : BOOLEAN,   \* the argument of updateLoginData
     snap  : Snapshot]

EditPhase == {"viewing", "viewed", "flushing", "done", "refused"}

EditRequest ==
    [phase    : EditPhase,
     editor   : Account,
     target   : Account,
     flag     : BOOLEAN,        \* TRUE enables, FALSE disables
     held     : AccountRow,     \* the account the etag and version were made of
     attempts : 1..TxRetries,
     snap     : AccountRow]

SweepTransaction ==
    [running  : BOOLEAN,
     batch    : SUBSET Account,
     selected : [Account -> LoginDataRow],  \* what the query has selected on
     unread   : SUBSET Account,             \* those without their login data yet
     snap     : [Account -> Snapshot]]

NoSweep == [running  |-> FALSE,
            batch    |-> {},
            selected |-> [a \in Account |-> Closed.loginData],
            unread   |-> {},
            snap     |-> [a \in Account |-> Closed]]

-----------------------------------------------------------------------------
(* What a flush checks and writes. *)

SetEnable(a, flag) ==
    [account EXCEPT ![a] = [isEnable |-> flag, version |-> NextVersion(@)]]

SetCounter(a, n) ==
    [loginData EXCEPT ![a] = [counter |-> n, version |-> NextVersion(@)]]

AnyCounterValid(n) == TRUE                     \* mutant

\* Bean validation of invalidLoginCounter, at the flush.
CounterValid(n) == n <= InvalidLoginLimit

-----------------------------------------------------------------------------
(* POST /login *)

\* The identity store sees enabled accounts only (glassfish_auth_view).
Authenticate(r) ==
    /\ login[r].phase = "authenticating"
    /\ login' = [login EXCEPT
                   ![r].phase = "beginning",
                   ![r].flag = login[r].valid /\ account[login[r].user].isEnable]
    /\ UNCHANGED <<account, loginData, aged, edit, sweep>>

\* updateLoginData reads the account ...
BeginUpdate(r) ==
    /\ login[r].phase = "beginning"
    /\ login' = [login EXCEPT ![r].phase = "reading",
                              ![r].snap.account = account[login[r].user]]
    /\ UNCHANGED <<account, loginData, aged, edit, sweep>>

\* ... and its login data.
ReadLoginData(r) ==
    /\ login[r].phase = "reading"
    /\ login' = [login EXCEPT ![r].phase = "flushing",
                              ![r].snap.loginData = loginData[login[r].user]]
    /\ UNCHANGED <<account, loginData, aged, edit, sweep>>

EndUpdate(r, phase) ==
    login' = [login EXCEPT ![r].phase = phase, ![r].snap = Closed]

GrantAnyway(r) == TRUE                         \* mutant

GrantFlushes(r) == Fresh(login[r].snap.loginData, loginData[login[r].user])

\* updateLoginData(true) commits and the token is returned.
Grant(r) ==
    /\ login[r].phase = "flushing"
    /\ login[r].flag
    /\ GrantFlushes(r)
    /\ loginData' = SetCounter(login[r].user, 0)
    /\ EndUpdate(r, "granted")
    /\ UNCHANGED <<account, aged, edit, sweep>>

\* It fails, by a lost race or by the mail to an administrator: the endpoint
\* turns the login with the right password into a failed one.
GrantFails(r) ==
    /\ login[r].phase = "flushing"
    /\ login[r].flag
    /\ ~GrantFlushes(r) \/ login[r].user \in Admins
    /\ login' = [login EXCEPT ![r].phase = "beginning",
                              ![r].flag = FALSE, ![r].snap = Closed]
    /\ UNCHANGED <<account, loginData, aged, edit, sweep>>

NextCounter(r) == login[r].snap.loginData.counter + 1

NeverAtLimit(r) == FALSE                       \* mutant

AtLimit(r) == NextCounter(r) = InvalidLoginLimit

\* setIsEnable(false) makes the account dirty only if it was read enabled.
Locks(r) == AtLimit(r) /\ login[r].snap.account.isEnable

CountFlushes(r) ==
    LET a == login[r].user
    IN  /\ CounterValid(NextCounter(r))
        /\ Fresh(login[r].snap.loginData, loginData[a])
        /\ Locks(r) => Fresh(login[r].snap.account, account[a])

\* updateLoginData(false) commits: the failure is counted, the third locks.
Count(r) ==
    /\ login[r].phase = "flushing"
    /\ ~login[r].flag
    /\ CountFlushes(r)
    /\ loginData' = SetCounter(login[r].user, NextCounter(r))
    /\ account' = IF Locks(r) THEN SetEnable(login[r].user, FALSE) ELSE account
    /\ aged' = aged \ {login[r].user}
    /\ EndUpdate(r, "unauthorized")
    /\ UNCHANGED <<edit, sweep>>

\* It rolls back: a lost race, a fourth failure, or the mail about the lock.
CountFails(r) ==
    /\ login[r].phase = "flushing"
    /\ ~login[r].flag
    /\ ~CountFlushes(r) \/ AtLimit(r)
    /\ EndUpdate(r, "unauthorized")
    /\ UNCHANGED <<account, loginData, aged, edit, sweep>>

-----------------------------------------------------------------------------
(* PATCH /{username}/enable and /{username}/disable *)

\* The client fetches the account with its etag and version.
View(o) ==
    /\ edit[o].phase = "viewing"
    /\ edit' = [edit EXCEPT ![o].phase = "viewed",
                            ![o].held = account[edit[o].target]]
    /\ UNCHANGED <<account, loginData, aged, login, sweep>>

AnyEtag(o) == TRUE                             \* mutant

\* The etag signs the account with its version.
EtagMatches(o) == edit[o].held = account[edit[o].target]

EditAllowed(o) ==
    /\ edit[o].editor # edit[o].target
    /\ EtagMatches(o)
    /\ edit[o].editor \in Admins \/ edit[o].target \notin Admins

BeginEdit(o) ==
    /\ edit[o].phase = "viewed"
    /\ EditAllowed(o)
    /\ edit' = [edit EXCEPT ![o].phase = "flushing",
                            ![o].snap = account[edit[o].target]]
    /\ UNCHANGED <<account, loginData, aged, login, sweep>>

RefuseEdit(o) ==
    /\ edit[o].phase = "viewed"
    /\ ~EditAllowed(o)
    /\ edit' = [edit EXCEPT ![o].phase = "refused"]
    /\ UNCHANGED <<account, loginData, aged, login, sweep>>

EndEdit(o, phase) ==
    [edit EXCEPT ![o].phase = phase, ![o].snap = Closed.account]

EditDirty(o) == edit[o].snap.isEnable # edit[o].flag

EditFlushes(o) ==
    EditDirty(o) => Fresh(edit[o].snap, account[edit[o].target])

CommitEdit(o) ==
    /\ edit[o].phase = "flushing"
    /\ EditFlushes(o)
    /\ account' = IF EditDirty(o) THEN SetEnable(edit[o].target, edit[o].flag)
                                  ELSE account
    /\ edit' = EndEdit(o, "done")
    /\ UNCHANGED <<loginData, aged, login, sweep>>

\* The mail, sent after the flush, fails: the transaction rolls back.
EditMailFails(o) ==
    /\ edit[o].phase = "flushing"
    /\ EditFlushes(o)
    /\ edit' = EndEdit(o, "refused")
    /\ UNCHANGED <<account, loginData, aged, login, sweep>>

\* The flush loses the race: the endpoint calls the service again with the
\* same etag and version, or gives up at the last attempt.
EditConflict(o) ==
    /\ edit[o].phase = "flushing"
    /\ ~EditFlushes(o)
    /\ edit' = IF edit[o].attempts < 2
               THEN EndEdit(o, "refused")
               ELSE [EndEdit(o, "viewed") EXCEPT ![o].attempts = @ - 1]
    /\ UNCHANGED <<account, loginData, aged, login, sweep>>

-----------------------------------------------------------------------------
(* The timer unlockAccounts, and time. *)

\* A day passes since the last counted failure of a.
Age(a) ==
    /\ a \notin aged
    /\ loginData[a].counter > 0
    /\ aged' = aged \cup {a}
    /\ UNCHANGED <<account, loginData, login, edit, sweep>>

BlockedToday(a) ==                             \* mutant
    ~account[a].isEnable /\ loginData[a].counter = InvalidLoginLimit

BlockedPastLimit(a) ==                         \* mutant
    ~account[a].isEnable /\ a \in aged /\ loginData[a].counter > InvalidLoginLimit

\* The query findAllBlockedAccounts.
Blocked(a) ==
    /\ ~account[a].isEnable
    /\ a \in aged
    /\ loginData[a].counter = InvalidLoginLimit

BeginSweep ==
    /\ ~sweep.running
    /\ \E a \in Account : Blocked(a)
    /\ LET batch == {a \in Account : Blocked(a)}
       IN  sweep' =
             [running  |-> TRUE,
              batch    |-> batch,
              selected |-> [a \in Account |->
                              IF a \in batch THEN loginData[a] ELSE Closed.loginData],
              unread   |-> batch,
              snap     |-> [a \in Account |->
                              IF a \in batch
                              THEN [Closed EXCEPT !.account = account[a]]
                              ELSE Closed]]
    /\ UNCHANGED <<account, loginData, aged, login, edit>>

\* The login data of each account follows in a SELECT of its own.
LoadLoginData(a) ==
    /\ a \in sweep.unread
    /\ sweep' = [sweep EXCEPT !.unread = @ \ {a},
                              !.snap[a].loginData = loginData[a]]
    /\ UNCHANGED <<account, loginData, aged, login, edit>>

\* setInvalidLoginCounter(0) makes the login data dirty unless it is 0 already.
SweepResets(a) == sweep.snap[a].loginData.counter # 0

SweepFlushes ==
    \A a \in sweep.batch :
      /\ Fresh(sweep.snap[a].account, account[a])
      /\ SweepResets(a) => Fresh(sweep.snap[a].loginData, loginData[a])

\* One transaction for the whole batch.
CommitSweep ==
    /\ sweep.running
    /\ sweep.unread = {}
    /\ SweepFlushes
    /\ account' = [a \in Account |->
                     IF a \in sweep.batch
                     THEN [isEnable |-> TRUE, version |-> NextVersion(account[a])]
                     ELSE account[a]]
    /\ loginData' = [a \in Account |->
                       IF a \in sweep.batch /\ SweepResets(a)
                       THEN [counter |-> 0, version |-> NextVersion(loginData[a])]
                       ELSE loginData[a]]
    /\ sweep' = NoSweep
    /\ UNCHANGED <<aged, login, edit>>

\* A lost race or one failed mail rolls the whole batch back.
SweepFails ==
    /\ sweep.running
    /\ sweep.unread = {}
    /\ sweep' = NoSweep
    /\ UNCHANGED <<account, loginData, aged, login, edit>>

-----------------------------------------------------------------------------
Init ==
    /\ \E enabled \in [Account -> BOOLEAN] :
         account = [a \in Account |-> [isEnable |-> enabled[a], version |-> 0]]
    /\ \E failures \in [Account -> 0..InvalidLoginLimit] :
         loginData = [a \in Account |-> [counter |-> failures[a], version |-> 0]]
    /\ aged \in SUBSET {a \in Account : loginData[a].counter > 0}
    /\ \E user \in [Login -> Account], valid \in [Login -> BOOLEAN] :
         login = [r \in Login |-> [phase |-> "authenticating", user |-> user[r],
                                   valid |-> valid[r], flag |-> FALSE,
                                   snap |-> Closed]]
    /\ \E editor \in [Edit -> Account], target \in [Edit -> Account],
          flag \in [Edit -> BOOLEAN] :
         edit = [o \in Edit |->
                   [phase |-> "viewing", editor |-> editor[o],
                    target |-> target[o], flag |-> flag[o],
                    held |-> Closed.account, attempts |-> TxRetries,
                    snap |-> Closed.account]]
    /\ sweep = NoSweep

LoginStep(r) == \/ Authenticate(r) \/ BeginUpdate(r) \/ ReadLoginData(r)
                \/ Grant(r) \/ GrantFails(r)
                \/ Count(r) \/ CountFails(r)

EditStep(o) == \/ View(o) \/ BeginEdit(o) \/ RefuseEdit(o)
               \/ CommitEdit(o) \/ EditMailFails(o) \/ EditConflict(o)

SweepStep == \/ BeginSweep \/ CommitSweep \/ SweepFails
             \/ \E a \in Account : LoadLoginData(a)

Next == \/ \E r \in Login : LoginStep(r)
        \/ \E o \in Edit : EditStep(o)
        \/ SweepStep
        \/ \E a \in Account : Age(a)

Spec == Init /\ [][Next]_vars

\* Days pass, the timer fires every minute and its transaction ends; the mail
\* server does not refuse every attempt for ever.  Nobody is obliged to log in.
Fairness ==
    /\ \A a \in Account : WF_vars(Age(a))
    /\ WF_vars(BeginSweep)
    /\ \A a \in Account : WF_vars(LoadLoginData(a))
    /\ WF_vars(CommitSweep \/ SweepFails)
    /\ SF_vars(CommitSweep)

FairSpec == Spec /\ Fairness

-----------------------------------------------------------------------------
(* What it implements *)

\* What is seen of an account, and of a request: while it is under way, what it
\* found out about the password, and afterwards its answer.
Enabled  == [a \in Account |-> account[a].isEnable]
Failures == [a \in Account |-> loginData[a].counter]

Asked == [r \in Login |-> [user |-> login[r].user, valid |-> login[r].valid]]

State == [r \in Login |->
            IF login[r].phase \in {"granted", "unauthorized"} THEN login[r].phase
            ELSE IF login[r].phase # "authenticating" /\ login[r].flag THEN "passed"
            ELSE "new"]

\* The open transactions that have read an account, or login data, that is old.
Switched == {r \in Login :
               /\ login[r].phase \in {"reading", "flushing"}
               /\ login[r].snap.account # account[login[r].user]}

Recounted == {r \in Login :
                /\ login[r].phase = "flushing"
                /\ login[r].snap.loginData # loginData[login[r].user]}

\* The same for the accounts the timer has selected.
Selected == sweep.batch
Toggled  == {a \in sweep.batch : sweep.snap[a].account # account[a]}
Refailed == {a \in sweep.batch : sweep.selected[a] # loginData[a]}

Atomic == INSTANCE Lockout WITH
    Limit     <- InvalidLoginLimit,
    enabled   <- Enabled,
    failures  <- Failures,
    old       <- aged,
    asked     <- Asked,
    state     <- State,
    switched  <- Switched,
    recounted <- Recounted,
    selected  <- Selected,
    toggled   <- Toggled,
    refailed  <- Refailed

-----------------------------------------------------------------------------
(* Properties *)

\* Every variable has its type; in particular no failure, however many come at
\* once, ever takes the stored counter past the limit.
TypeOK ==
    /\ account \in [Account -> AccountRow]
    /\ loginData \in [Account -> LoginDataRow]
    /\ aged \in SUBSET Account
    /\ login \in [Login -> LoginRequest]
    /\ edit \in [Edit -> EditRequest]
    /\ sweep \in SweepTransaction

\* The optimistic lock: an open transaction, and a client holding an etag, has
\* read a version that is at most the stored one, and a row whose version is
\* still the stored one is still the row that was read.
SnapshotsAgree ==
    /\ \A r \in Login :
         /\ login[r].phase \in {"reading", "flushing"} =>
              SameIfSameVersion(login[r].snap.account, account[login[r].user])
         /\ login[r].phase = "flushing" =>
              SameIfSameVersion(login[r].snap.loginData, loginData[login[r].user])
    /\ \A o \in Edit :
         /\ edit[o].phase = "flushing" =>
              SameIfSameVersion(edit[o].snap, account[edit[o].target])
         /\ edit[o].phase \in {"viewed", "flushing"} =>
              SameIfSameVersion(edit[o].held, account[edit[o].target])
    /\ \A a \in sweep.batch :
         /\ SameIfSameVersion(sweep.snap[a].account, account[a])
         /\ a \notin sweep.unread =>
              SameIfSameVersion(sweep.snap[a].loginData, loginData[a])

\* Whoever writes login data either counts exactly one more failure than the
\* table held, or resets the counter: of two failed logins that read the same
\* counter, one is lost with its transaction, never merged into the other.
EveryFailureCounts ==
    [][\A a \in Account :
         loginData'[a].version # loginData[a].version =>
           loginData'[a].counter \in {0, loginData[a].counter + 1}]_vars

\* Logins, edits and the timer behave as if each of them took place at once, with
\* its exceptions stated: Lockout says which.
LockoutImplemented == Atomic!Spec

\* The step that takes the counter to the limit leaves the account disabled.
\* The code has one hole, and only one: the request read the account already
\* disabled, so that its setIsEnable(false) wrote nothing, and somebody enabled
\* the account before it committed.
ThirdFailureDisables ==
    [][\A a \in Account :
         /\ loginData'[a].counter = InvalidLoginLimit
         /\ loginData[a].counter # InvalidLoginLimit
         /\ account'[a].isEnable
         => \E r \in Login : /\ login[r].user = a
                             /\ login[r].phase = "flushing" /\ ~login[r].flag
                             /\ ~login[r].snap.account.isEnable
                             /\ login[r].snap.account.version < account[a].version]_vars

\* The timer works on what it read a while ago, yet it enables only accounts
\* that at the commit are disabled, at the limit and locked for a day.  The one
\* exception: a login wrote the login data between the timer's query and its
\* second SELECT, so that it resets a counter the query never saw.
SweepUnlocksOnlyExpiredLocks ==
    [][\A a \in sweep.batch :
         sweep.running /\ ~sweep'.running /\ account'[a] # account[a] =>
           /\ ~account[a].isEnable
           /\ \/ loginData[a].counter = InvalidLoginLimit /\ a \in aged
              \/ sweep.selected[a].version < sweep.snap[a].loginData.version]_vars

\* A client enables or disables only the account it saw: nobody changed the
\* account between the GET and the commit of the flag.
IfMatchHonoured ==
    [][\A o \in Edit :
         /\ edit[o].phase = "flushing"
         /\ edit'[o].phase = "done"
         /\ account'[edit[o].target] # account[edit[o].target]
         => account[edit[o].target] = edit[o].held]_vars

\* The retry loop of the endpoint never helps: an attempt after a lost race
\* carries the etag of a version that is gone, and is refused before it writes.
RetryIsFutile ==
    \A o \in Edit : edit[o].phase = "flushing" => edit[o].attempts = TxRetries

\* An account disabled at the limit does not stay so for ever.
LockIsLifted ==
    \A a \in Account :
      ~account[a].isEnable /\ loginData[a].counter = InvalidLoginLimit
        ~> account[a].isEnable \/ loginData[a].counter # InvalidLoginLimit

\* What AuthTest.ValidCredentialsOnDisabledUser expects: after three logins
\* with a wrong password answered 401, and none granted, the account is disabled
\* (until the lock is a day old).  Nobody enables accounts here: Edit = {}.
ThreeWrongPasswordsDisable ==
    \A a \in Account :
      LET wrong == {r \in Login : /\ login[r].user = a
                                  /\ ~login[r].valid
                                  /\ login[r].phase = "unauthorized"}
      IN  /\ \E r1, r2, r3 \in wrong : r1 # r2 /\ r2 # r3 /\ r1 # r3
          /\ \A r \in Login : login[r].user = a => login[r].phase # "granted"
          /\ a \notin aged
          => ~account[a].isEnable

=============================================================================
