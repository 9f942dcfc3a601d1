---------------------------- MODULE AccountPage ----------------------------
(***************************************************************************)
(* The page of an account, /accounts/:username for administrators and      *)
(* managers or a user's own profile, with the dialogs that edit it.        *)
(*                                                                         *)
(* A dialog asks the server for an etag and a version when it opens, waits *)
(* for nobody, and sends them back with the change once the user has       *)
(* confirmed it.  The etag of four dialogs is a cookie they share.  The    *)
(* answers come in any order, in whatever state the page is by then.  A    *)
(* notice lies above a confirmation, which lies above a dialog: only what  *)
(* is on top can be clicked.                                               *)
(***************************************************************************)
EXTENDS Naturals, Versioned

CONSTANTS
    Call,         \* bounds the calls under way, taken in this order
    Name,         \* the names validator.isAlpha accepts
    Bad,          \* a text it does not accept
    Empty,        \* the empty text
    OtherNames,   \* bounds the names other people give
    MaxVersion    \* bounds the versions of the two rows

ASSUME PageAssumption ==
    /\ Call \subseteq Nat
    /\ OtherNames \subseteq [{"firstName", "surname"} -> Name]
    /\ Bad \notin Name /\ Empty \notin Name /\ Bad # Empty
    /\ MaxVersion \in Nat

VARIABLES
    account,       \* table account: the flag isEnable and the version
    levels,        \* the active access levels of the account
    personal,      \* table personal_data
    call,          \* the calls of the page
    etagCookie,    \* the cookie etag
    visitor,       \* who visits which page; does not change but to leave
    view,          \* the account as the page shows it
    got,           \* etag and version as each dialog has kept them
    form,          \* the fields for the names
    valid,         \* what enables the OK button of a dialog
    dialog,        \* the open dialog
    confirm,       \* the dialog whose confirmation is open
    notices        \* the notices on top of the page

server == <<account, levels, personal>>
screen == <<view, got, form, valid, dialog, confirm, notices>>
vars   == <<server, call, etagCookie, visitor, screen>>

-----------------------------------------------------------------------------
Field == {"firstName", "surname"}
Level == {"OWNER", "MANAGER", "ADMIN"}
Text  == Name \cup {Bad, Empty}

NameDialog   == {"personalData", "ownPersonalData"}
EnableDialog == {"enable", "disable"}
LevelDialog  == {"manager", "owner", "admin", "revoke"}
EmailDialog  == {"email", "ownEmail"}
OwnDialog    == {"ownPersonalData", "ownEmail", "ownPassword", "phone"}
Dialog       == NameDialog \cup EnableDialog \cup LevelDialog \cup EmailDialog
                  \cup {"password", "ownPassword", "phone"}

\* Who keeps its etag in the cookie, and who asks no second time.
Cookied == NameDialog \cup EnableDialog
Direct  == EnableDialog \cup {"admin"}

\* The dialogs for the levels belong to the page: they share its state.
Holder(d) == IF d \in LevelDialog THEN "levels" ELSE d
Holders   == {Holder(d) : d \in Dialog}

\* The level a dialog grants.
Granted == [manager |-> "MANAGER", owner |-> "OWNER", admin |-> "ADMIN"]

\* What an etag signs; the names and not their version are signed for an account.
Etag == [of : {"none", "account", "personal"}, isEnable : BOOLEAN,
         names : [Field -> Text], version : 0..MaxVersion]

NoNames == [f \in Field |-> Empty]
NoEtag  == [of |-> "none", isEnable |-> FALSE, names |-> NoNames, version |-> 0]

AccountEtag == [of |-> "account", isEnable |-> account.isEnable,
                names |-> personal.names, version |-> account.version]
PersonalEtag == [of |-> "personal", isEnable |-> FALSE,
                 names |-> personal.names, version |-> personal.version]

EtagFor(d) == IF d \in NameDialog THEN PersonalEtag ELSE AccountEtag

CallRecord ==
    [phase   : {"idle", "sent", "handled"},
     heard   : BOOLEAN,                      \* the page that sent it is still there
     by      : Dialog \cup {"page"},
     method  : {"get", "patch"},
     outcome : {"none", "ok", "refused", "forbidden"},
     etag    : Etag,                         \* If-Match, or the etag of the answer
     held    : Etag,                         \* the answer whose version is sent
     levels  : SUBSET Level,                 \* those of the answer
     names   : [Field -> Text],
     typed   : SUBSET Field]                 \* not sent: fields typed since held came

NoCall == [phase |-> "idle", heard |-> FALSE, by |-> "page", method |-> "get",
           outcome |-> "none", etag |-> NoEtag, held |-> NoEtag, levels |-> {},
           names |-> NoNames, typed |-> {}]

Get(by) == [NoCall EXCEPT !.phase = "sent", !.heard = TRUE, !.by = by]

NoForm == [names |-> NoNames, error |-> [f \in Field |-> FALSE], typed |-> {}]
NoView == [shown |-> FALSE, isEnable |-> FALSE, levels |-> {}]

Free(c) == call[c] = NoCall /\ \A b \in Call : b < c => call[b] # NoCall

-----------------------------------------------------------------------------
(* The server *)

\* Nobody waits for the answer to a page that is gone.
Serve(c, outcome, etag, shown) ==
    call' = [call EXCEPT ![c] =
               IF call[c].heard
               THEN [NoCall EXCEPT !.phase = "handled", !.heard = TRUE,
                                   !.by = call[c].by, !.method = call[c].method,
                                   !.outcome = outcome,
                                   !.etag = etag, !.levels = shown]
               ELSE NoCall]

AnswerGet(c) ==
    /\ call[c].phase = "sent" /\ call[c].method = "get"
    /\ IF call[c].by = "page" THEN Serve(c, "ok", AccountEtag, levels)
                              ELSE Serve(c, "ok", EtagFor(call[c].by), {})
    /\ UNCHANGED <<server, etagCookie, visitor, screen>>

EtagMatches(c) == call[c].etag = EtagFor(call[c].by)

VersionMatches(c) ==
    /\ call[c].held.of # "none"
    /\ call[c].held.version = EtagFor(call[c].by).version

NoPrecondition(c) == TRUE                                        \* mutant

PreconditionHolds(c) == EtagMatches(c) /\ VersionMatches(c)

NewFlag(d) == IF d = "enable" THEN TRUE
              ELSE IF d = "disable" THEN FALSE ELSE account.isEnable

\* An entity is written, under its next version, when the method changes it.
WriteAccount(d) ==
    \/ /\ \/ NewFlag(d) # account.isEnable
          \/ d \in {"password", "ownPassword"}
       /\ account.version < MaxVersion
       /\ account' = [isEnable |-> NewFlag(d), version |-> NextVersion(account)]
    \/ /\ NewFlag(d) = account.isEnable
       /\ UNCHANGED account

WritePersonal(names) ==
    \/ /\ names # personal.names
       /\ personal.version < MaxVersion
       /\ personal' = [names |-> names, version |-> NextVersion(personal)]
    \/ /\ names = personal.names
       /\ UNCHANGED personal

WriteLevels(d) ==
    \/ /\ d \in DOMAIN Granted
       /\ Granted[d] \notin levels
       /\ levels' = levels \cup {Granted[d]}
    \/ /\ d = "revoke"
       /\ \E l \in levels : levels' = levels \ {l}

\* A new address only inserts a token, a new phone number is in another table.
Accept(c) ==
    /\ call[c].phase = "sent" /\ call[c].method = "patch"
    /\ PreconditionHolds(c)
    /\ \/ /\ call[c].by \in NameDialog
          /\ WritePersonal(call[c].names)
          /\ UNCHANGED <<account, levels>>
       \/ /\ call[c].by \in LevelDialog
          /\ WriteLevels(call[c].by)
          /\ UNCHANGED <<account, personal>>
       \/ /\ call[c].by \notin NameDialog \cup LevelDialog
          /\ WriteAccount(call[c].by)
          /\ UNCHANGED <<levels, personal>>
    /\ Serve(c, "ok", NoEtag, {})
    /\ UNCHANGED <<etagCookie, visitor, screen>>

\* For the etag, the version, or for another reason.
Reject(c) ==
    /\ call[c].phase = "sent" /\ call[c].method = "patch"
    /\ Serve(c, "refused", NoEtag, {})
    /\ UNCHANGED <<server, etagCookie, visitor, screen>>

Forbid(c) ==
    /\ call[c].phase = "sent"
    /\ Serve(c, "forbidden", NoEtag, {})
    /\ UNCHANGED <<server, etagCookie, visitor, screen>>

ServerStep(c) == AnswerGet(c) \/ Accept(c) \/ Reject(c) \/ Forbid(c)

\* Somebody else edits the account: another page, a login, the owner.
ChangeAccount ==
    /\ account.version < MaxVersion
    /\ \E flag \in BOOLEAN :
         account' = [isEnable |-> flag, version |-> NextVersion(account)]
    /\ UNCHANGED <<levels, personal, call, etagCookie, visitor, screen>>

ChangePersonal ==
    /\ personal.version < MaxVersion
    /\ \E names \in OtherNames \ {personal.names} :
         personal' = [names |-> names, version |-> NextVersion(personal)]
    /\ UNCHANGED <<account, levels, call, etagCookie, visitor, screen>>

-----------------------------------------------------------------------------
(* The page *)

\* The buttons on the page.
MayBlock == \/ visitor.role = "ADMIN"
            \/ visitor.role = "MANAGER" /\ "ADMIN" \notin view.levels

Offered(d) ==
    /\ view.shown
    /\ d \in visitor.opens
    /\ (d \in OwnDialog) <=> (visitor.page = "own")
    /\ d = "phone" => visitor.role = "OWNER"
    /\ d \in EnableDialog => MayBlock /\ view.isEnable = (d = "disable")
    /\ d = "password" => "MANAGER" \notin view.levels
    /\ d \in LevelDialog => visitor.role = "ADMIN"
    /\ d \in DOMAIN Granted => Granted[d] \notin view.levels

NoticeOfOne(d, kind) == [of |-> d, kind |-> kind]                \* mutant

Notice(d, kind) == [of |-> Holder(d), kind |-> kind]

InDialog(d)  == dialog = d /\ confirm = "none" /\ notices = {}
InConfirm(d) == confirm = d /\ notices = {}

ClearScreen ==
    /\ view' = NoView
    /\ got' = [h \in Holders |-> NoEtag]
    /\ form' = NoForm
    /\ valid' = [d \in Dialog |-> FALSE]
    /\ dialog' = "none" /\ confirm' = "none"
    /\ notices' = {}

\* No answer reaches a page that is gone; only a change may still be served.
Unloaded(calls) ==
    [c \in Call |-> IF calls[c].phase = "sent" /\ calls[c].method = "patch"
                    THEN [calls[c] EXCEPT !.heard = FALSE] ELSE NoCall]

\* window.location.reload(): the state is gone, the cookie is not.
ReloadAfter(calls) ==
    /\ \E c \in Call :
         /\ Unloaded(calls)[c] = NoCall
         /\ call' = [Unloaded(calls) EXCEPT ![c] = Get("page")]
    /\ ClearScreen
    /\ UNCHANGED <<server, etagCookie, visitor>>

HandleClickOpen(d) ==
    /\ Offered(d)
    /\ InDialog("none")
    /\ \E c \in Call : Free(c) /\ call' = [call EXCEPT ![c] = Get(d)]
    /\ dialog' = d
    /\ UNCHANGED <<server, etagCookie, visitor, view, got, form, valid, confirm,
                   notices>>

\* The text is checked as it is, the form as it was before this change.
HandleNameChange(d, f, text) ==
    /\ d \in NameDialog
    /\ InDialog(d)
    /\ form' = [names |-> [form.names EXCEPT ![f] = text],
                error |-> [form.error EXCEPT ![f] = text \notin Name],
                typed |-> form.typed \cup {f}]
    /\ valid' = [valid EXCEPT ![d] =
                   /\ \A g \in Field : ~form.error[g] /\ form.names[g] # Empty
                   /\ text # Empty]
    /\ UNCHANGED <<server, call, etagCookie, visitor, view, got, dialog, confirm,
                   notices>>

\* An address, a password, a phone number, a license; a level once chosen stays.
HandleInput(d) ==
    /\ d \notin NameDialog \cup Direct
    /\ InDialog(d)
    /\ \E accepted \in IF d = "revoke" THEN {TRUE} ELSE BOOLEAN :
         valid' = [valid EXCEPT ![d] = accepted]
    /\ UNCHANGED <<server, call, etagCookie, visitor, view, got, form, dialog,
                   confirm, notices>>

HandleConfirm(d) ==
    /\ d \notin Direct
    /\ InDialog(d)
    /\ valid[d]
    /\ confirm' = d
    /\ UNCHANGED <<server, call, etagCookie, visitor, view, got, form, valid,
                   dialog, notices>>

HandleConfirmClose(d) ==
    /\ InConfirm(d)
    /\ confirm' = "none"
    /\ UNCHANGED <<server, call, etagCookie, visitor, view, got, form, valid,
                   dialog, notices>>

\* Closing the dialog for one's own address reloads the page.
HandleClose(d) ==
    /\ InDialog(d)
    /\ \/ d = "ownEmail" /\ ReloadAfter(call)
       \/ /\ d # "ownEmail"
          /\ dialog' = "none"
          /\ UNCHANGED <<server, call, etagCookie, visitor, view, got, form, valid,
                         confirm, notices>>

Patch(d) ==
    [NoCall EXCEPT !.phase  = "sent",
                   !.heard  = TRUE,
                   !.by     = d,
                   !.method = "patch",
                   !.etag   = IF d \in Cookied THEN etagCookie ELSE got[Holder(d)],
                   !.held   = got[Holder(d)],
                   !.names  = IF d \in NameDialog THEN form.names ELSE NoNames,
                   !.typed  = IF d \in NameDialog THEN form.typed ELSE {}]

AlwaysSends(d) == TRUE                                           \* mutant

\* A form with an error is dropped without a word.
Sends(d) == d \in NameDialog => \A f \in Field : ~form.error[f]

NeverAlready(d) == FALSE                                         \* mutant

\* The flag is FALSE until the first answer.
Already(d) == \/ d = "enable" /\ got[d].isEnable
              \/ d = "disable" /\ ~got[d].isEnable

HandleConfirmConfirm(d) ==
    /\ IF d \in Direct THEN InDialog(d) ELSE InConfirm(d)
    /\ \/ /\ Already(d)
          /\ notices' = {Notice(d, "already")}
          /\ UNCHANGED <<call, dialog, confirm, view, got, form, valid>>
       \/ /\ ~Already(d) /\ Sends(d) /\ d # "ownEmail"
          /\ \E c \in Call : Free(c) /\ call' = [call EXCEPT ![c] = Patch(d)]
          /\ dialog' = "none" /\ confirm' = "none"
          /\ UNCHANGED <<view, got, form, valid, notices>>
       \/ /\ ~Sends(d)
          /\ dialog' = "none" /\ confirm' = "none"
          /\ UNCHANGED <<call, view, got, form, valid, notices>>
       \/ /\ d = "ownEmail"
          /\ \E c \in Call :
               Free(c) /\ ReloadAfter([call EXCEPT ![c] = Patch(d)])
    /\ UNCHANGED <<server, etagCookie, visitor>>

\* handleSuccessClose, handleErrorClose, handleAuthorizationErrorOpen and the
\* like.  An error of a level closes the dialogs of the levels, whichever is
\* open by then, but not a confirmed revocation.
CloseNotice(n) ==
    /\ n \in notices
    /\ \/ /\ n.kind = "success" /\ n.of # "ownEmail"
          /\ ReloadAfter(call)
       \/ /\ n.kind # "success" \/ n.of = "ownEmail"
          /\ notices' = notices \ {n}
          /\ dialog' = IF \/ n.of = "levels" /\ dialog \in LevelDialog
                          \/ n.of \in EnableDialog /\ n.kind # "error" /\ dialog = n.of
                       THEN "none" ELSE dialog
          /\ confirm' = IF \/ n.of = "levels" /\ confirm \in DOMAIN Granted
                           \/ n.of \in NameDialog /\ n.kind = "forbidden" /\ confirm = n.of
                        THEN "none" ELSE confirm
          /\ UNCHANGED <<server, call, etagCookie, visitor, view, got, form, valid>>

-----------------------------------------------------------------------------
(* The answers *)

Received(c, by) == call[c].phase = "handled" /\ call[c].by = by

\* The page draws itself, and with it the dialog that asks for the names at once.
ReceiveView(c) ==
    /\ Received(c, "page") /\ call[c].outcome = "ok"
    /\ view' = IF visitor.page = "profile"
               THEN [shown |-> TRUE, isEnable |-> call[c].etag.isEnable,
                     levels |-> call[c].levels]
               ELSE [NoView EXCEPT !.shown = TRUE]
    /\ call' = [call EXCEPT ![c] = Get(IF visitor.page = "profile"
                                       THEN "personalData" ELSE "ownPersonalData")]
    /\ UNCHANGED <<server, etagCookie, visitor, got, form, valid, dialog, confirm,
                   notices>>

\* navigate('/')
Leave ==
    /\ visitor' = [visitor EXCEPT !.page = "left"]
    /\ call' = Unloaded(call)
    /\ ClearScreen
    /\ UNCHANGED <<server, etagCookie>>

ReceiveNoView(c) ==
    /\ Received(c, "page") /\ call[c].outcome = "forbidden"
    /\ Leave

\* A user's own page asks for the account whenever it has been drawn, and draws
\* itself when it is answered: one of these answers is 403 at last.
PollForbidden ==
    /\ visitor.page = "own" /\ view.shown
    /\ Leave

\* What has been typed meanwhile is replaced by the names that are stored.
ReceiveCopy(c) ==
    /\ call[c].phase = "handled" /\ call[c].method = "get" /\ call[c].by # "page"
    /\ LET d == call[c].by
       IN \/ /\ call[c].outcome = "ok"
             /\ got' = [got EXCEPT ![Holder(d)] = call[c].etag]
             /\ etagCookie' = IF d \in Cookied THEN call[c].etag ELSE etagCookie
             /\ form' = IF d \in NameDialog
                        THEN [form EXCEPT !.names = call[c].etag.names, !.typed = {}]
                        ELSE form
             /\ UNCHANGED notices
          \/ /\ call[c].outcome = "forbidden"
             /\ notices' = notices \cup
                  (IF d \in Cookied THEN {Notice(d, "forbidden")} ELSE {})
             /\ UNCHANGED <<got, etagCookie, form>>
    /\ call' = [call EXCEPT ![c] = NoCall]
    /\ UNCHANGED <<server, visitor, view, valid, dialog, confirm>>

NoticeOf(outcome, d) ==
    IF outcome = "ok" THEN "success"
    ELSE IF outcome = "forbidden" /\ d \in Cookied THEN "forbidden" ELSE "error"

ReceiveResult(c) ==
    /\ call[c].phase = "handled" /\ call[c].method = "patch"
    /\ notices' = notices \cup
         {Notice(call[c].by, NoticeOf(call[c].outcome, call[c].by))}
    /\ call' = [call EXCEPT ![c] = NoCall]
    /\ UNCHANGED <<server, etagCookie, visitor, view, got, form, valid, dialog,
                   confirm>>

ToldOfLoss(d) == d \in EmailDialog

\* The network fails before or after the server has handled the call.  The error
\* has no response, which only the dialogs for an address do not look at.
Lose(c) ==
    /\ call[c] # NoCall
    /\ call' = [call EXCEPT ![c] = NoCall]
    /\ notices' = notices \cup
         (IF call[c].heard /\ call[c].method = "patch" /\ ToldOfLoss(call[c].by)
          THEN {Notice(call[c].by, "error")} ELSE {})
    /\ UNCHANGED <<server, etagCookie, visitor, view, got, form, valid, dialog,
                   confirm>>

Receive(c) == \/ ReceiveView(c) \/ ReceiveNoView(c) \/ ReceiveCopy(c)
              \/ ReceiveResult(c) \/ Lose(c)

-----------------------------------------------------------------------------
(* The components *)

ConfirmedDialog(d) ==
    \/ HandleClickOpen(d) \/ HandleConfirm(d) \/ HandleConfirmClose(d)
    \/ HandleConfirmConfirm(d) \/ HandleClose(d)
    \/ \E n \in notices : n.of = Holder(d) /\ CloseNotice(n)

EditNames(d) ==
    \/ ConfirmedDialog(d)
    \/ \E f \in Field, text \in Text : HandleNameChange(d, f, text)

EditValue(d) == ConfirmedDialog(d) \/ HandleInput(d)

EditPersonalData     == EditNames("ownPersonalData")
EditUserPersonalData == EditNames("personalData")
EnableAccount        == ConfirmedDialog("enable")
DisableAccount       == ConfirmedDialog("disable")
EditEmail            == EditValue("ownEmail")
EditUserEmail        == EditValue("email")
EditPassword         == EditValue("ownPassword")
EditUserPassword     == EditValue("password")
ChangePhoneNumber    == EditValue("phone")
AddAccessLevel       == EditValue("manager") \/ EditValue("owner") \/ EditValue("admin")
RevokeAccessLevel    == EditValue("revoke")

Profile == \/ EditUserPersonalData \/ EditUserEmail \/ EnableAccount
           \/ DisableAccount \/ EditUserPassword \/ AddAccessLevel
           \/ RevokeAccessLevel

OwnProfile == PollForbidden \/ EditPersonalData \/ EditEmail \/ EditPassword \/ ChangePhoneNumber

Init ==
    /\ account \in [isEnable : BOOLEAN, version : {0}]
    /\ levels \in SUBSET Level
    /\ personal \in [names : [Field -> Name], version : {0}]
    /\ call \in [Call -> {NoCall, Get("page")}]
    /\ \A c \in Call : call[c] = NoCall <=> \E b \in Call : b < c
    /\ etagCookie = NoEtag
    /\ visitor \in [page : {"profile", "own"}, role : Level, opens : SUBSET Dialog]
    /\ visitor.page = "profile" => visitor.role # "OWNER"
    /\ view = NoView
    /\ got = [h \in Holders |-> NoEtag]
    /\ form = NoForm
    /\ valid = [d \in Dialog |-> FALSE]
    /\ dialog = "none" /\ confirm = "none"
    /\ notices = {}

Next == \/ \E c \in Call : ServerStep(c) \/ Receive(c)
        \/ ChangeAccount \/ ChangePersonal
        \/ Profile \/ OwnProfile

Spec == Init /\ [][Next]_vars

-----------------------------------------------------------------------------
(* Properties *)

\* Every variable has its type.
TypeOK ==
    /\ account \in [isEnable : BOOLEAN, version : 0..MaxVersion]
    /\ levels \in SUBSET Level
    /\ personal \in [names : [Field -> Text], version : 0..MaxVersion]
    /\ call \in [Call -> CallRecord]
    /\ etagCookie \in Etag
    /\ visitor \in [page : {"profile", "own", "left"}, role : Level,
                    opens : SUBSET Dialog]
    /\ view \in [shown : BOOLEAN, isEnable : BOOLEAN, levels : SUBSET Level]
    /\ got \in [Holders -> Etag]
    /\ form \in [names : [Field -> Text], error : [Field -> BOOLEAN],
                 typed : SUBSET Field]
    /\ valid \in [Dialog -> BOOLEAN]
    /\ dialog \in Dialog \cup {"none"} /\ confirm \in Dialog \cup {"none"}
    /\ notices \in SUBSET [of : Holders,
                           kind : {"success", "error", "forbidden", "already"}]

\* The server stores any text as a name, and the form enables its OK button by
\* the state before the last change, with names an answer may replace: still no
\* name that is empty or malformed is ever stored.
NamesStayValid == \A f \in Field : personal.names[f] \in Name

Accepted(c, dialogs) ==
    /\ call[c].phase = "sent" /\ call[c].method = "patch"
    /\ call[c].by \in dialogs
    /\ <<account, personal>>' # <<account, personal>>
    /\ call'[c] # call[c]

\* The form sends both names, also the one that was not edited: that one is
\* stored as it was, whoever has changed it since the form was filled.
OnlyTypedFieldsChange ==
    [][\A c \in Call : Accepted(c, NameDialog) =>
         \A f \in Field \ call[c].typed :
           personal'.names[f] = personal.names[f]]_vars

\* An account is enabled that was disabled, and disabled that was enabled, with
\* an etag from a cookie other dialogs write and a flag that starts as FALSE.
EnableFlips ==
    \A c \in Call :
      call[c].phase = "sent" /\ call[c].method = "patch" /\ PreconditionHolds(c) =>
        /\ call[c].by = "enable" => ~account.isEnable
        /\ call[c].by = "disable" => account.isEnable

\* What the server has been sent by a dialog and not yet answered, for the row
\* whose etags are of this kind.
Pending(dialogs, of, Content(_)) ==
    [c \in Call |->
       IF call[c].phase = "sent" /\ call[c].method = "patch" /\ call[c].by \in dialogs
       THEN IF call[c].etag.of = of
            THEN [content |-> Content(call[c].etag), version |-> call[c].etag.version]
            ELSE [is |-> "blind"]
       ELSE [is |-> "nothing"]]

Flag(etag)  == etag.isEnable
Names(etag) == etag.names

AccountRow == INSTANCE ConditionalWrites WITH
    Client  <- Call,
    Content <- BOOLEAN,
    row     <- [content |-> account.isEnable, version |-> account.version],
    pending <- Pending(Dialog \ NameDialog, "account", Flag)

PersonalRow == INSTANCE ConditionalWrites WITH
    Client  <- Call,
    Content <- [Field -> Text],
    row     <- [content |-> personal.names, version |-> personal.version],
    pending <- Pending(NameDialog, "personal", Names)

\* The row of the account is written, by any dialog that writes it, only as the
\* user has seen it, though answers overtake each other, dialogs share a cookie,
\* and a page that is gone has sent changes nobody waits for.
AccountWrittenAsSeen == AccountRow!Spec

\* The same of the names.
NamesWrittenAsSeen == PersonalRow!Spec
=============================================================================
