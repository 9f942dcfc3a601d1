----------------------------- MODULE Passwords -----------------------------
(***************************************************************************)
(* Changing a password: one's own, another's as an administrator, or with  *)
(* the link of a reset mail.                                               *)
(*                                                                         *)
(* A reset asked for by its owner, or a change made by an administrator,   *)
(* inserts a token and mails a link with it; an account may have several.  *)
(* Using the link reads the token, then in another SELECT its account, and *)
(* deletes the token in the transaction that sets the password.  A timer   *)
(* deletes all tokens past their expiration date in one transaction; until *)
(* it does, a link works.  One's own change and an administrator's carry   *)
(* the etag and the version of an earlier GET.                             *)
(***************************************************************************)
EXTENDS Naturals, Versioned

CONSTANTS
    Account,      \* the accounts
    Password,     \* the passwords; a hash is determined by its password
    Request,      \* the requests, each served once
    MaxVersion    \* bounds the other changes of an account

ASSUME PasswordsAssumption == MaxVersion \in Nat

VARIABLES
    account,    \* table account: the columns this module is about
    token,      \* table reset_password_token: the token a request inserts
    request,    \* the requests
    sweep       \* what the transaction of the timer has read; {} between two

vars == <<account, token, request, sweep>>

-----------------------------------------------------------------------------
\* isOpen: confirmed and not disabled (is_active and is_enable).
AccountRow == [password : Password, isOpen : BOOLEAN, version : Nat]

TokenRow == [state : {"none", "mailed", "gone"}, expired : BOOLEAN]

NoToken == [state |-> "none", expired |-> FALSE]

Kind == {"self", "admin", "reset", "link"}

\* Those that send etag and version, and those that insert and mail a token.
Matched == {"self", "admin"}
Mailing == {"admin", "reset"}

Phase == {"starting", "viewed", "reading", "flushing", "done", "refused"}

RequestRecord ==
    [phase  : Phase,
     kind   : Kind,
     target : Account,
     old    : Password,       \* given with one's own change
     new    : Password,
     link   : Request,        \* the request whose token the link carries
     held   : AccountRow,     \* what etag and version were made of
     snap   : AccountRow]     \* the account as the transaction read it

Row(r) == account[request[r].target]

-----------------------------------------------------------------------------
(* The checks *)

AnyEtag(r) == TRUE                                               \* mutant

\* The password is no part of the etag; the version is.
EtagMatches(r) ==
    /\ request[r].held.isOpen = Row(r).isOpen
    /\ request[r].held.version = Row(r).version

\* changePassword, for an administrator and for a link.
Changeable(r) == Row(r).isOpen /\ request[r].new # Row(r).password

OldPasswordCorrect(r) == request[r].old = Row(r).password

Admitted(r) ==
    \/ /\ request[r].kind = "self"
       /\ request[r].old # request[r].new
       /\ EtagMatches(r)
       /\ OldPasswordCorrect(r)
    \/ /\ request[r].kind = "admin"
       /\ EtagMatches(r)
       /\ Changeable(r)
    \/ /\ request[r].kind = "reset"
       /\ Row(r).isOpen
    \/ /\ request[r].kind = "link"
       /\ Changeable(r)

-----------------------------------------------------------------------------
(* A request *)

\* The link of a request works if its token is in the table.
TokenFound(r) == token[request[r].link].state = "mailed"

\* The phase in which a request reads its account: after a GET, after reading
\* the token, or at once.
ReadPhase(r) == CASE request[r].kind \in Matched -> "viewed"
                  [] request[r].kind = "link"    -> "reading"
                  [] request[r].kind = "reset"   -> "starting"

SetPhase(r, phase) == request' = [request EXCEPT ![r].phase = phase]

View(r) ==
    /\ request[r].kind \in Matched /\ request[r].phase = "starting"
    /\ request' = [request EXCEPT ![r].phase = "viewed", ![r].held = Row(r)]
    /\ UNCHANGED <<account, token, sweep>>

\* getResetPasswordByTokenValue: the token alone ...
ReadToken(r) ==
    /\ request[r].kind = "link" /\ request[r].phase = "starting"
    /\ TokenFound(r)
    /\ SetPhase(r, "reading")
    /\ UNCHANGED <<account, token, sweep>>

\* ... then the account, and the checks.
Begin(r) ==
    /\ request[r].phase = ReadPhase(r)
    /\ Admitted(r)
    /\ request' = [request EXCEPT ![r].phase = "flushing", ![r].snap = Row(r)]
    /\ UNCHANGED <<account, token, sweep>>

Refuse(r) ==
    /\ \/ request[r].phase = ReadPhase(r) /\ ~Admitted(r)
       \/ request[r].kind = "link" /\ request[r].phase = "starting" /\ ~TokenFound(r)
    /\ SetPhase(r, "refused")
    /\ UNCHANGED <<account, token, sweep>>

DeleteIgnored(t) == TRUE                                         \* mutant

\* A DELETE that finds no row is a lost optimistic-lock race too.
Deletes(t) == token[t].state = "mailed"

\* A request for a reset link only inserts.
Flushes(r) ==
    /\ request[r].kind # "reset" => Fresh(request[r].snap, Row(r))
    /\ request[r].kind = "link" => Deletes(request[r].link)

\* The UPDATE has all columns: the new password, the others as they were read.
Written(r) == [password |-> request[r].new,
               isOpen   |-> request[r].snap.isOpen,
               version  |-> NextVersion(request[r].snap)]

NewPassword(r) == [account EXCEPT ![request[r].target] = Written(r)]

\* One's own password is changed.
CommitSelf(r) ==
    /\ request[r].kind = "self"
    /\ account' = NewPassword(r)
    /\ UNCHANGED token

\* An administrator has changed the password and a link to change it is mailed.
CommitAdmin(r) ==
    /\ request[r].kind = "admin"
    /\ account' = NewPassword(r)
    /\ token' = [token EXCEPT ![r].state = "mailed"]

\* A link is mailed, though the account may have been disabled meanwhile.
CommitReset(r) ==
    /\ request[r].kind = "reset"
    /\ token' = [token EXCEPT ![r].state = "mailed"]
    /\ UNCHANGED account

\* The link has been used.
CommitLink(r) ==
    /\ request[r].kind = "link"
    /\ account' = NewPassword(r)
    /\ token' = [token EXCEPT ![request[r].link].state = "gone"]

Commit(r) ==
    /\ request[r].phase = "flushing"
    /\ Flushes(r)
    /\ CommitSelf(r) \/ CommitAdmin(r) \/ CommitReset(r) \/ CommitLink(r)
    /\ SetPhase(r, "done")
    /\ UNCHANGED sweep

\* The database refuses the flush, or the mail is not sent: all is rolled back.
Fail(r) ==
    /\ request[r].phase = "flushing"
    /\ ~Flushes(r) \/ request[r].kind \in Mailing
    /\ SetPhase(r, "refused")
    /\ UNCHANGED <<account, token, sweep>>

-----------------------------------------------------------------------------
(* Time, and the timer deleteResetPasswordExpiredTokens *)

\* Twenty minutes have passed.
Expire(t) ==
    /\ token[t].state = "mailed" /\ ~token[t].expired
    /\ token' = [token EXCEPT ![t].expired = TRUE]
    /\ UNCHANGED <<account, request, sweep>>

StillValid(t) == token[t].state = "mailed" /\ ~token[t].expired  \* mutant

\* getExpiredResetPasswordTokensList selects it.
Selected(t) == token[t].state = "mailed" /\ token[t].expired

BeginSweep ==
    /\ sweep = {}
    /\ \E t \in Request : Selected(t)
    /\ sweep' = {t \in Request : Selected(t)}
    /\ UNCHANGED <<account, token, request>>

CommitSweep ==
    /\ sweep # {}
    /\ \A t \in sweep : Deletes(t)
    /\ token' = [t \in Request |->
                   IF t \in sweep THEN [token[t] EXCEPT !.state = "gone"]
                   ELSE token[t]]
    /\ sweep' = {}
    /\ UNCHANGED <<account, request>>

\* Somebody used one of the links: the others stay for the next run.
SweepFails ==
    /\ \E t \in sweep : ~Deletes(t)
    /\ sweep' = {}
    /\ UNCHANGED <<account, token, request>>

-----------------------------------------------------------------------------
\* Another operation writes the account, which may disable or enable it.
ChangeAccount(a) ==
    /\ account[a].version < MaxVersion
    /\ \E open \in BOOLEAN :
         account' = [account EXCEPT ![a] = [password |-> account[a].password,
                                            isOpen   |-> open,
                                            version  |-> NextVersion(account[a])]]
    /\ UNCHANGED <<token, request, sweep>>

\* A link carries the token of a request that mails one to the same account.
Init ==
    /\ account \in [Account -> [password : Password, isOpen : BOOLEAN,
                                version : {0}]]
    /\ token = [t \in Request |-> NoToken]
    /\ request \in [Request -> [phase : {"starting"}, kind : Kind,
                                target : Account,
                                old : Password, new : Password,
                                link : Request,
                                held : AccountRow, snap : AccountRow]]
    /\ \A r \in Request :
         /\ request[r].kind = "link" =>
              /\ request[request[r].link].kind \in Mailing
              /\ request[request[r].link].target = request[r].target
    /\ sweep = {}

RequestStep(r) ==
    View(r) \/ ReadToken(r) \/ Begin(r) \/ Refuse(r) \/ Commit(r) \/ Fail(r)

EndSweep == CommitSweep \/ SweepFails

Next == \/ \E r \in Request : RequestStep(r)
        \/ \E t \in Request : Expire(t)
        \/ BeginSweep
        \/ EndSweep
        \/ \E a \in Account : ChangeAccount(a)

Spec == Init /\ [][Next]_vars

\* Time passes, the container fires the timer, and a transaction ends.
Fairness ==
    /\ \A t \in Request : WF_vars(Expire(t))
    /\ WF_vars(BeginSweep)
    /\ WF_vars(EndSweep)

FairSpec == Spec /\ Fairness

-----------------------------------------------------------------------------
(* What it implements: of a row its version is not seen, nor of a request how   *)
(* far it is.                                                                   *)

Stored == [a \in Account |-> account[a].password]
Open   == {a \in Account : account[a].isOpen}
Links  == [t \in Request |-> token[t].state]
Late   == {t \in Request : token[t].expired}

Asked == [r \in Request |->
            [kind |-> request[r].kind, target |-> request[r].target,
             old |-> request[r].old, new |-> request[r].new,
             link |-> request[r].link]]

Outcome == [r \in Request |->
              IF request[r].phase \in {"done", "refused"} THEN request[r].phase
              ELSE "open"]

Atomic == INSTANCE PasswordChanges WITH
    password <- Stored,
    open     <- Open,
    links    <- Links,
    late     <- Late,
    asked    <- Asked,
    state    <- Outcome

-----------------------------------------------------------------------------
(* Properties *)

\* Every variable has its type; the timer holds only expired tokens.
TypeOK ==
    /\ account \in [Account -> AccountRow]
    /\ token \in [Request -> TokenRow]
    /\ request \in [Request -> RequestRecord]
    /\ sweep \subseteq {t \in Request : token[t].expired}

\* A link changes a password once, even if two uses of it have both found the
\* token, and the second reads the account only after the first has committed.
LinkWorksOnce ==
    \A r, s \in Request :
      /\ request[r].kind = "link" /\ request[r].phase = "done"
      /\ request[s].kind = "link" /\ request[s].phase = "done"
      /\ request[r].link = request[s].link
      => r = s

\* Every request takes place at once, at its commit, though its conditions were
\* checked on an account, and its link on a token, that were read before: what it
\* promises (PasswordChanges) holds of them as they are then.
RequestsAreAtomic == Atomic!Spec

\* With etag and version a password is written only over the account that was
\* seen, its password, which is part of neither, included: no link was used and
\* nobody else set it between the GET and the commit.
SeenAccountChanged ==
    [][\A r \in Request :
         /\ request[r].kind \in Matched
         /\ request[r].phase = "flushing" /\ request'[r].phase = "done"
         => Row(r) = request[r].held]_vars

\* No token stays in the table for ever, though one link used in time rolls back
\* the timer's deletion of all the others.
TokensDisappear ==
    \A t \in Request : token[t].state = "mailed" ~> token[t].state = "gone"
=============================================================================
