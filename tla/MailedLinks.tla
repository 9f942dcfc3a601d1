---------------------------- MODULE MailedLinks ----------------------------
(***************************************************************************)
(* The two mails with a link that change an account: the one that          *)
(* activates it after its registration, and the one that confirms a new    *)
(* address.  Each link carries a token, a row that references the account. *)
(*                                                                         *)
(* The page behind a link asks the server by itself.  The transaction      *)
(* reads the token, then in another SELECT the account, writes the         *)
(* account and deletes the token.  The timers of SystemScheduler, a        *)
(* singleton, run one at a time; each transaction of theirs handles all    *)
(* rows it has selected.                                                   *)
(***************************************************************************)
EXTENDS Naturals, Versioned

CONSTANTS
    Account,      \* the user names
    Email,        \* the addresses
    NoEmail,      \* the address of an account that does not exist
    Change,       \* the changes of an address that are asked for
    Request,      \* bounds the requests served at a time
    MaxVersion    \* bounds the other changes of an account

ASSUME LinksAssumption == NoEmail \notin Email /\ MaxVersion \in Nat

VARIABLES
    account,      \* table account
    link,         \* table account_confirmation_token: the one of each account
    change,       \* table email_confirmation_token: the one of each change
    request,      \* what the pages behind the links have asked for
    timer,        \* the transaction of a timer
    activated     \* accounts a page has called activated

vars == <<account, link, change, request, timer, activated>>

-----------------------------------------------------------------------------
AccountRow == [state : {"none", "inactive", "active"},
               email : Email \cup {NoEmail}, version : Nat]

NoAccount == [state |-> "none", email |-> NoEmail, version |-> 0]

\* A reminder writes the token, and with it its version.
LinkState == {"none", "mailed", "reminded", "used"}
InTable   == {"mailed", "reminded"}

ChangeRow == [state : {"mailed", "gone"}, of : Account, email : Email,
              expired : BOOLEAN]

NoChange == [state |-> "none"]

RequestRecord ==
    [phase : {"sent", "reading", "flushing", "answered"},
     kind  : {"activate", "confirm"},
     of    : Account,
     by    : Change \cup {"none"},   \* whose link it is, if it confirms
     link  : LinkState,       \* the account's own token as it was read
     snap  : AccountRow,      \* the account as it was read
     ok    : BOOLEAN]

NoRequest == [phase |-> "idle"]

Idle == [job |-> "none", list |-> {}, changes |-> {}]

Exists(a) == account[a].state # "none"

AnyEmail(e, a) == TRUE                                           \* mutant

\* The unique index on the address.
EmailFree(e, a) == \A b \in Account \ {a} : account[b].email # e

\* checkIfAnAccountExistsByEmail
AccountExistsByEmail(e) == \E b \in Account : account[b].email = e

-----------------------------------------------------------------------------
(* Registration, and asking for a new address *)

\* Account, token and mail are one transaction; the unique indexes decide.
CreateOwner(a, e) ==
    /\ ~Exists(a)
    /\ EmailFree(e, a)
    /\ account' = [account EXCEPT ![a] = [state |-> "inactive", email |-> e,
                                          version |-> 0]]
    /\ link' = [link EXCEPT ![a] = "mailed"]
    /\ UNCHANGED <<change, request, timer, activated>>

\* The row of the account is not written: two changes may be under way.
ChangeEmail(c, a, e) ==
    /\ change[c] = NoChange
    /\ Exists(a)
    /\ ~AccountExistsByEmail(e)
    /\ change' = [change EXCEPT ![c] = [state |-> "mailed", of |-> a, email |-> e,
                                        expired |-> FALSE]]
    /\ UNCHANGED <<account, link, request, timer, activated>>

\* Another operation writes the account.
EditAccount(a) ==
    /\ Exists(a)
    /\ account[a].version < MaxVersion
    /\ account' = [account EXCEPT ![a].version = NextVersion(account[a])]
    /\ UNCHANGED <<link, change, request, timer, activated>>

\* The day is over in which a new address should be confirmed.
Expire(c) ==
    /\ change[c].state = "mailed" /\ ~change[c].expired
    /\ change' = [change EXCEPT ![c].expired = TRUE]
    /\ UNCHANGED <<account, link, request, timer, activated>>

-----------------------------------------------------------------------------
(* The pages behind the links *)

Post(r, kind, a, c) ==
    request' = [request EXCEPT ![r] =
                  [phase |-> "sent", kind |-> kind, of |-> a, by |-> c,
                   link |-> "none", snap |-> NoAccount, ok |-> FALSE]]

\* The page posts as soon as it is drawn, and whenever it is drawn again.
ActivateFromEmail(r, a) ==
    /\ request[r] = NoRequest
    /\ link[a] # "none"
    /\ Post(r, "activate", a, "none")
    /\ UNCHANGED <<account, link, change, timer, activated>>

\* The page needs a session, and uses one that has just expired once more.
ConfirmEmail(r, c) ==
    /\ request[r] = NoRequest
    /\ change[c] # NoChange
    /\ Post(r, "confirm", change[c].of, c)
    /\ UNCHANGED <<account, link, change, timer, activated>>

\* The page of a successful activation is drawn anew, and posts again; an error
\* is looked for where the answer has none, and changes nothing.
ReceiveAnswer(r) ==
    /\ request[r].phase = "answered"
    /\ IF request[r].kind = "activate" /\ request[r].ok
       THEN /\ activated' = activated \cup {request[r].of}
            /\ Post(r, "activate", request[r].of, request[r].by)
       ELSE /\ request' = [request EXCEPT ![r] = NoRequest]
            /\ UNCHANGED activated
    /\ UNCHANGED <<account, link, change, timer>>

\* The answer is lost, or the page was left.
LoseAnswer(r) ==
    /\ request[r].phase = "answered"
    /\ request' = [request EXCEPT ![r] = NoRequest]
    /\ UNCHANGED <<account, link, change, timer, activated>>

-----------------------------------------------------------------------------
(* The server *)

TokenFound(r) ==
    IF request[r].kind = "activate" THEN link[request[r].of] \in InTable
    ELSE change[request[r].by].state = "mailed"

FindToken(r) ==
    /\ request[r].phase = "sent"
    /\ TokenFound(r)
    /\ request' = [request EXCEPT ![r].phase = "reading",
                                  ![r].link = IF request[r].kind = "activate"
                                              THEN link[request[r].of] ELSE @]
    /\ UNCHANGED <<account, link, change, timer, activated>>

ReadAccount(r) ==
    /\ request[r].phase = "reading"
    /\ request' = [request EXCEPT ![r].phase = "flushing",
                                  ![r].snap = account[request[r].of]]
    /\ UNCHANGED <<account, link, change, timer, activated>>

\* What the transaction makes of the account.
Wanted(r) ==
    IF request[r].kind = "activate"
    THEN [request[r].snap EXCEPT !.state = "active"]
    ELSE [request[r].snap EXCEPT !.email = change[request[r].by].email]

\* Hibernate writes an entity only if it has been changed.
Writes(r) == Wanted(r) # request[r].snap

DeletesAny(r) == TRUE                                            \* mutant

\* The DELETE names the version of the token.
Deletes(r) ==
    IF request[r].kind = "activate" THEN link[request[r].of] = request[r].link
    ELSE change[request[r].by].state = "mailed"

Flushes(r) ==
    /\ Deletes(r)
    /\ Writes(r) =>
         /\ Fresh(request[r].snap, account[request[r].of])
         /\ EmailFree(Wanted(r).email, request[r].of)

CommitAccount(r) ==
    account' = IF Writes(r)
               THEN [account EXCEPT ![request[r].of] =
                       [Wanted(r) EXCEPT !.version = NextVersion(request[r].snap)]]
               ELSE account

CommitActivation(r) ==
    /\ request[r].kind = "activate"
    /\ link' = [link EXCEPT ![request[r].of] = "used"]
    /\ UNCHANGED change

CommitConfirmation(r) ==
    /\ request[r].kind = "confirm"
    /\ change' = [change EXCEPT ![request[r].by].state = "gone"]
    /\ UNCHANGED link

Commit(r) ==
    /\ request[r].phase = "flushing"
    /\ Flushes(r)
    /\ CommitAccount(r)
    /\ CommitActivation(r) \/ CommitConfirmation(r)
    /\ request' = [request EXCEPT ![r].phase = "answered", ![r].ok = TRUE]
    /\ UNCHANGED <<timer, activated>>

\* There is no such token, the caller is nobody, the flush is refused, or the
\* mail about the activation is not sent.
Refuse(r) ==
    /\ \/ /\ request[r].phase = "sent"
          /\ ~TokenFound(r) \/ request[r].kind = "confirm"
       \/ /\ request[r].phase = "flushing"
          /\ ~Flushes(r) \/ request[r].kind = "activate"
    /\ request' = [request EXCEPT ![r].phase = "answered", ![r].ok = FALSE]
    /\ UNCHANGED <<account, link, change, timer, activated>>

RequestStep(r) ==
    \/ \E a \in Account : ActivateFromEmail(r, a)
    \/ \E c \in Change : ConfirmEmail(r, c)
    \/ ReceiveAnswer(r) \/ LoseAnswer(r)
    \/ FindToken(r) \/ ReadAccount(r) \/ Commit(r) \/ Refuse(r)

-----------------------------------------------------------------------------
(* The timers *)

BeginJob(job, list, changes) ==
    /\ timer = Idle
    /\ list # {} \/ changes # {}
    /\ timer' = [job |-> job, list |-> list, changes |-> changes]
    /\ UNCHANGED <<account, link, change, request, activated>>

\* Of these, findAllUnconfirmedAccounts selects the ones that were registered a
\* day ago, or half a day: any of them.
Unconfirmed ==
    {a \in Account : link[a] \in InTable /\ account[a].state = "inactive"}

BeginCleaning == \E list \in SUBSET Unconfirmed : BeginJob("clean", list, {})

\* The account is deleted and flushed before the token it was found by, which
\* still references it: the database refuses, and the transaction is over.
CleanUnconfirmedAccounts ==
    /\ timer.job = "clean"
    /\ timer' = Idle
    /\ UNCHANGED <<account, link, change, request, activated>>

\* Those that have been reminded are passed over.
BeginReminder ==
    \E list \in SUBSET {a \in Unconfirmed : link[a] = "mailed"} :
      BeginJob("remind", list, {})

RemindAnyway ==                                                  \* mutant
    /\ timer.job = "remind"
    /\ link' = [a \in Account |-> IF a \in timer.list THEN "reminded" ELSE link[a]]
    /\ timer' = Idle
    /\ UNCHANGED <<account, change, request, activated>>

SendActivationReminder ==
    /\ timer.job = "remind"
    /\ \A a \in timer.list : link[a] = "mailed"
    /\ link' = [a \in Account |-> IF a \in timer.list THEN "reminded" ELSE link[a]]
    /\ timer' = Idle
    /\ UNCHANGED <<account, change, request, activated>>

\* An account was activated meanwhile, or a mail is not sent: none is reminded.
ReminderFails ==
    /\ timer.job = "remind"
    /\ timer' = Idle
    /\ UNCHANGED <<account, link, change, request, activated>>

ExpiredAnyway(c) == change[c].state = "mailed"                   \* mutant

\* getExpiredNewEmailTokensList selects it.
Expired(c) == /\ change[c].state = "mailed"
              /\ change[c].expired

BeginDeletion == BeginJob("delete", {}, {c \in Change : Expired(c)})

DeleteNewEmailExpiredTokens ==
    /\ timer.job = "delete"
    /\ \A c \in timer.changes : change[c].state = "mailed"
    /\ change' = [c \in Change |->
                    IF c \in timer.changes THEN [change[c] EXCEPT !.state = "gone"]
                    ELSE change[c]]
    /\ timer' = Idle
    /\ UNCHANGED <<account, link, request, activated>>

\* One address was confirmed in time: the others stay for the next minute.
DeletionFails ==
    /\ timer.job = "delete"
    /\ \E c \in timer.changes : change[c].state # "mailed"
    /\ timer' = Idle
    /\ UNCHANGED <<account, link, change, request, activated>>

BeginTimer == BeginCleaning \/ BeginReminder \/ BeginDeletion

EndTimer == CleanUnconfirmedAccounts \/ SendActivationReminder \/ ReminderFails
            \/ DeleteNewEmailExpiredTokens \/ DeletionFails

-----------------------------------------------------------------------------
Init ==
    /\ account = [a \in Account |-> NoAccount]
    /\ link = [a \in Account |-> "none"]
    /\ change = [c \in Change |-> NoChange]
    /\ request = [r \in Request |-> NoRequest]
    /\ timer = Idle
    /\ activated = {}

Next == \/ \E a \in Account, e \in Email : CreateOwner(a, e)
        \/ \E c \in Change, a \in Account, e \in Email : ChangeEmail(c, a, e)
        \/ \E a \in Account : EditAccount(a)
        \/ \E c \in Change : Expire(c)
        \/ \E r \in Request : RequestStep(r)
        \/ BeginTimer \/ EndTimer

Spec == Init /\ [][Next]_vars

-----------------------------------------------------------------------------
(* What it implements: of an account its version and the row of its token are   *)
(* not seen, nor are requests and the timer.                                     *)

Status   == [a \in Account |-> account[a].state]
Emails   == [a \in Account |-> account[a].email]
Reminded == {a \in Account : link[a] = "reminded"}

Atomic == INSTANCE Registrations WITH
    status   <- Status,
    email    <- Emails,
    reminded <- Reminded

-----------------------------------------------------------------------------
(* Properties *)

\* Every variable has its type; the timer deletes expired tokens only.
TypeOK ==
    /\ account \in [Account -> AccountRow]
    /\ link \in [Account -> LinkState]
    /\ change \in [Change -> ChangeRow \cup {NoChange}]
    /\ request \in [Request -> RequestRecord \cup {NoRequest}]
    /\ timer \in [job : {"none", "clean", "remind", "delete"},
                  list : SUBSET Account, changes : SUBSET Change]
    /\ \A c \in timer.changes : change[c] # NoChange /\ change[c].expired
    /\ activated \subseteq Account

\* An account that is not active has a link that works, though a reminder, other
\* writes of the account and several uses of the link race for it, and the first
\* successful use is followed by one that fails; what a page has called
\* activated is active.
LinkUntilActive ==
    \A a \in Account :
      /\ account[a].state = "inactive" <=> link[a] \in InTable
      /\ a \in activated => account[a].state = "active"

\* No two accounts have one address, though it is looked for when the change is
\* asked for and written when it is confirmed.
UniqueEmails ==
    \A a, b \in Account : Exists(a) /\ account[a].email = account[b].email => a = b

\* Every use of a link, every answer and every run of a timer happens as if at
\* once (Registrations), though each reads the token, the account and the rows it
\* has selected in steps of its own: an account that is not active has a link
\* that works, it is reminded once, and gets a new address by the link mailed to it.
LinksAreAtomic == Atomic!Spec
=============================================================================
