---------------------------- MODULE AccessLevels ----------------------------
(***************************************************************************)
(* Granting and revoking access levels, and the owner's phone number.      *)
(*                                                                         *)
(* A level of an account is a row of access_level_mapping, unique for the  *)
(* account and the level and never removed: revoking deactivates it,       *)
(* granting it again reactivates it.  An owner has a phone number and a    *)
(* manager a license, each unique in its table.  A client sends the etag   *)
(* and the version of the account it saw; the rows of the levels are not   *)
(* part of either.  The code checks, mails, and leaves the flush to the    *)
(* commit, so that the database may refuse what the checks let pass.       *)
(***************************************************************************)
EXTENDS Naturals, Versioned

CONSTANTS
    Account,      \* the accounts
    Request,      \* the requests, each served once
    Key,          \* phone numbers, and licenses
    NoKey,        \* what an administrator's row has instead
    MaxVersion    \* bounds the other changes of an account

ASSUME LevelsAssumption == NoKey \notin Key /\ MaxVersion \in Nat

VARIABLES
    account,    \* table account: the columns the checks read
    mapping,    \* tables access_level_mapping, owner, manager and admin
    request     \* the requests

vars == <<account, mapping, request>>

-----------------------------------------------------------------------------
Level == {"OWNER", "MANAGER", "ADMIN"}
Keyed == {"OWNER", "MANAGER"}

AccountRow == [isActive : BOOLEAN, version : 0..MaxVersion]

Absent == [exists |-> FALSE, isActive |-> FALSE, key |-> NoKey, version |-> 0]

MappingRow == {Absent} \cup [exists : {TRUE}, isActive : BOOLEAN,
                             key : Key \cup {NoKey}, version : Nat]

\* The rows of a level before any request of this module.
InitialRow(l) ==
    {Absent} \cup
    [exists : {TRUE}, isActive : BOOLEAN,
     key : IF l \in Keyed THEN Key ELSE {NoKey}, version : {0}]

Kind  == {"add", "revoke", "phone"}
Phase == {"viewing", "viewed", "flushing", "done", "refused"}

RequestRecord ==
    [phase  : Phase,
     kind   : Kind,
     caller : Account,
     target : Account,
     level  : Level,
     key    : Key \cup {NoKey},
     held   : AccountRow,                \* what the etag and version were made of
     snap   : [Level -> MappingRow]]     \* the target's levels as read

Unread == [l \in Level |-> Absent]

\* The row a request is about, and the row as it was read.
Row(o)  == mapping[request[o].target][request[o].level]
Seen(o) == request[o].snap[request[o].level]

-----------------------------------------------------------------------------
(* The checks *)

\* Another account holds the key: findByLicense, checkIfAnOwnerExists...
KeyTaken(a, l, k) ==
    /\ l \in Keyed
    /\ \E b \in Account \ {a} : mapping[b][l].exists /\ mapping[b][l].key = k

EtagMatches(o) == request[o].held = account[request[o].target]

NotOnSelf(o) == request[o].caller # request[o].target

AnyActive(levels) == \E l \in Level : levels[l].isActive         \* mutant

SeveralActive(levels) ==
    \E l, m \in Level : l # m /\ levels[l].isActive /\ levels[m].isActive

MayAdd(o) ==
    /\ request[o].kind = "add"
    /\ NotOnSelf(o)
    /\ EtagMatches(o)
    /\ account[request[o].target].isActive
    /\ ~KeyTaken(request[o].target, request[o].level, request[o].key)
    /\ ~Row(o).isActive

MayRevoke(o) ==
    /\ request[o].kind = "revoke"
    /\ NotOnSelf(o)
    /\ EtagMatches(o)
    /\ account[request[o].target].isActive
    /\ SeveralActive(mapping[request[o].target])
    /\ Row(o).isActive

MayChangePhone(o) ==
    /\ request[o].kind = "phone"
    /\ Row(o).isActive
    /\ EtagMatches(o)
    /\ Row(o).key # request[o].key
    /\ ~KeyTaken(request[o].target, "OWNER", request[o].key)

Admitted(o) == MayAdd(o) \/ MayRevoke(o) \/ MayChangePhone(o)

-----------------------------------------------------------------------------
(* A request *)

\* Ending or refusing a request.
SetPhase(o, phase) == request' = [request EXCEPT ![o].phase = phase]

View(o) ==
    /\ request[o].phase = "viewing"
    /\ request' = [request EXCEPT ![o].phase = "viewed",
                                  ![o].held = account[request[o].target]]
    /\ UNCHANGED <<account, mapping>>

\* The service method passes its checks and changes its entity.
Begin(o) ==
    /\ request[o].phase = "viewed"
    /\ Admitted(o)
    /\ request' = [request EXCEPT ![o].phase = "flushing",
                                  ![o].snap = mapping[request[o].target]]
    /\ UNCHANGED <<account, mapping>>

Refuse(o) ==
    /\ request[o].phase = "viewed"
    /\ ~Admitted(o)
    /\ SetPhase(o, "refused")
    /\ UNCHANGED <<account, mapping>>

NoUniqueIndex(o) == TRUE                                         \* mutant

\* unique_phone_number and unique_license, for a flush that writes the key.
UniqueIndex(o) ==
    request[o].kind # "revoke" =>
      ~KeyTaken(request[o].target, request[o].level, request[o].key)

\* A row that was read is updated under its version, a new one is inserted
\* under access_level_account_unique_constraint.
RowFlushes(o) ==
    IF Seen(o).exists THEN Fresh(Seen(o), Row(o)) ELSE ~Row(o).exists

Flushes(o) == RowFlushes(o) /\ UniqueIndex(o)

RowRemoved(o) == request[o].kind # "revoke"                      \* mutant

\* A revoked level keeps its row, with its key.
RowKept(o) == TRUE

\* The whole row; a new phone number leaves the level active, as it was read.
Written(o) ==
    [exists   |-> RowKept(o),
     isActive |-> request[o].kind # "revoke",
     key      |-> IF request[o].kind = "revoke" THEN Seen(o).key ELSE request[o].key,
     version  |-> IF Seen(o).exists THEN NextVersion(Seen(o)) ELSE 0]

Commit(o) ==
    /\ request[o].phase = "flushing"
    /\ Flushes(o)
    /\ mapping' = [mapping EXCEPT
                     ![request[o].target][request[o].level] = Written(o)]
    /\ SetPhase(o, "done")
    /\ UNCHANGED account

\* The database refuses the flush, or, except for a phone number, nobody is told
\* by mail: the transaction rolls back.
Fail(o) ==
    /\ request[o].phase = "flushing"
    /\ ~Flushes(o) \/ request[o].kind # "phone"
    /\ SetPhase(o, "refused")
    /\ UNCHANGED <<account, mapping>>

\* Another operation writes the account: it is confirmed, or edited.
ChangeAccount(a) ==
    /\ account[a].version < MaxVersion
    /\ \E active \in {account[a].isActive, TRUE} :
         account' = [account EXCEPT ![a] = [isActive |-> active,
                                            version  |-> NextVersion(@)]]
    /\ UNCHANGED <<mapping, request>>

-----------------------------------------------------------------------------
\* No phone number and no license is ever held by two accounts, though every
\* request checks it long before the flush: the unique indexes decide the race.
UniqueKeys ==
    \A l \in Keyed, a, b \in Account :
      a # b /\ mapping[a][l].exists /\ mapping[b][l].exists =>
        mapping[a][l].key # mapping[b][l].key

\* Callers hold a token with the role they need, issued while they had it.
Init ==
    /\ account \in [Account -> [isActive : BOOLEAN, version : {0}]]
    /\ mapping \in [Account -> [Level -> UNION {InitialRow(l) : l \in Level}]]
    /\ \A a \in Account, l \in Level : mapping[a][l] \in InitialRow(l)
    /\ \A a \in Account : AnyActive(mapping[a])
    /\ UniqueKeys
    /\ request \in [Request -> [phase : {"viewing"}, kind : Kind,
                                caller : Account, target : Account,
                                level : Level, key : Key \cup {NoKey},
                                held : [isActive : {FALSE}, version : {0}],
                                snap : {Unread}]]
    /\ \A o \in Request :
         /\ request[o].key \in IF request[o].level \in Keyed THEN Key ELSE {NoKey}
         /\ IF request[o].kind = "phone"
            THEN /\ request[o].level = "OWNER"
                 /\ request[o].caller = request[o].target
                 /\ mapping[request[o].caller]["OWNER"].isActive
            ELSE mapping[request[o].caller]["ADMIN"].isActive

RequestStep(o) == View(o) \/ Begin(o) \/ Refuse(o) \/ Commit(o) \/ Fail(o)

Next == \/ \E o \in Request : RequestStep(o)
        \/ \E a \in Account : ChangeAccount(a)

Spec == Init /\ [][Next]_vars

-----------------------------------------------------------------------------
(* What it implements: of rows and accounts no version is seen, nor of a request *)
(* how far it is, but that a revocation has passed its checks.                   *)

Confirmed == {a \in Account : account[a].isActive}

Standing(row) == IF ~row.exists THEN "never"
                 ELSE IF row.isActive THEN "active" ELSE "revoked"

Levels == [a \in Account |->
             [l \in Level |-> [is  |-> Standing(mapping[a][l]),
                               key |-> mapping[a][l].key]]]

Spared == {o \in Request : request[o].kind = "revoke" /\ request[o].phase = "flushing"}

Asked == [o \in Request |->
            [kind |-> request[o].kind, caller |-> request[o].caller,
             target |-> request[o].target, level |-> request[o].level,
             key |-> request[o].key]]

Outcome == [o \in Request |->
              IF request[o].phase \in {"done", "refused"} THEN request[o].phase
              ELSE "open"]

Atomic == INSTANCE LevelChanges WITH
    confirmed <- Confirmed,
    level     <- Levels,
    spare     <- Spared,
    asked     <- Asked,
    state     <- Outcome

-----------------------------------------------------------------------------
(* Properties *)

\* Every variable has its type; only rows that exist are active or hold a key.
TypeOK ==
    /\ account \in [Account -> AccountRow]
    /\ mapping \in [Account -> [Level -> MappingRow]]
    /\ request \in [Request -> RequestRecord]

\* Every request takes place at once, at its commit, but that a revocation looks
\* for another level before: of two that read one row one is lost, a key is held
\* once, and a phone number that read the owner before a revocation and writes
\* its whole row after it does not bring the level back.
RequestsAreAtomic == Atomic!Spec

\* An account loses its last active level only by write skew: the revocation
\* that takes it read another level active, and somebody revoked that one
\* before the commit.
LastLevelLostOnlyBySkew ==
    [][\A a \in Account :
         AnyActive(mapping[a]) /\ ~AnyActive(mapping'[a]) =>
           \E o \in Request, l \in Level :
             /\ request[o].phase = "flushing" /\ request[o].kind = "revoke"
             /\ request[o].target = a
             /\ l # request[o].level
             /\ request[o].snap[l].isActive /\ ~mapping[a][l].isActive]_vars

\* "One level of access cannot be taken away" (AppException): every account
\* keeps an active level.
OneLevelKept == \A a \in Account : AnyActive(mapping[a])
=============================================================================
