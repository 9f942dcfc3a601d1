------------------------- MODULE AccountPageProofs -------------------------
(***************************************************************************)
(* What AccountPage guarantees for any number of calls, names and versions *)
(* and any visit; in particular that it implements ConditionalWrites.      *)
(***************************************************************************)
EXTENDS AccountPage, TLAPS

-----------------------------------------------------------------------------
(* Records *)

LEMMA NoEtagType == NoEtag \in Etag /\ NoNames \in [Field -> Text]
BY PageAssumption DEF NoEtag, Etag, NoNames, Text

\* No call, a question, a change, as records.
LEMMA NoCallFields ==
  /\ NoCall \in CallRecord
  /\ NoCall.phase = "idle" /\ NoCall.heard = FALSE /\ NoCall.by = "page"
  /\ NoCall.method = "get" /\ NoCall.etag = NoEtag /\ NoCall.held = NoEtag
BY NoEtagType DEF NoCall, CallRecord

LEMMA GetFields ==
  ASSUME NEW d \in Dialog \cup {"page"}
  PROVE  /\ Get(d) \in CallRecord
         /\ Get(d).phase = "sent" /\ Get(d).heard = TRUE /\ Get(d).by = d
         /\ Get(d).method = "get" /\ Get(d).etag = NoEtag /\ Get(d).held = NoEtag
<1>1. NoCall \in CallRecord
  BY NoCallFields
<1>2. Get(d) \in CallRecord
  BY <1>1 DEF Get, CallRecord
<1>3. QED
  BY <1>2, NoCallFields DEF Get, NoCall

PatchEtag(d)  == IF d \in Cookied THEN etagCookie ELSE got[Holder(d)]
PatchNames(d) == IF d \in NameDialog THEN form.names ELSE NoNames
PatchTyped(d) == IF d \in NameDialog THEN form.typed ELSE {}

LEMMA HolderType == \A d \in Dialog : Holder(d) \in Holders
BY DEF Holders

LEMMA PatchFields ==
  ASSUME TypeOK, NEW d \in Dialog
  PROVE  /\ Patch(d) \in CallRecord
         /\ Patch(d).phase = "sent" /\ Patch(d).heard = TRUE /\ Patch(d).by = d
         /\ Patch(d).method = "patch" /\ Patch(d).etag = PatchEtag(d)
         /\ Patch(d).held = got[Holder(d)]
         /\ Patch(d).names = PatchNames(d) /\ Patch(d).typed = PatchTyped(d)
<1>1. NoCall \in CallRecord
  BY NoCallFields
<1>2. /\ PatchEtag(d) \in Etag /\ got[Holder(d)] \in Etag
      /\ PatchNames(d) \in [Field -> Text] /\ PatchTyped(d) \in SUBSET Field
  BY HolderType, NoEtagType DEF PatchEtag, PatchNames, PatchTyped, TypeOK
<1>3. Patch(d) = [NoCall EXCEPT !.phase  = "sent",
                   !.heard  = TRUE,
                   !.by     = d,
                   !.method = "patch",
                   !.etag   = PatchEtag(d),
                   !.held   = got[Holder(d)],
                   !.names  = PatchNames(d),
                   !.typed  = PatchTyped(d)]
  BY DEF Patch, PatchEtag, PatchNames, PatchTyped
<1> HIDE DEF PatchEtag, PatchNames, PatchTyped
<1>4. Patch(d) \in CallRecord
  BY <1>1, <1>2, <1>3 DEF CallRecord
<1>5. QED
  BY <1>3, <1>4 DEF NoCall

\* What the server answers, if somebody waits for it.
Reply(r, outcome, etag, shown) ==
    [NoCall EXCEPT !.phase = "handled", !.heard = TRUE,
                   !.by = r.by, !.method = r.method,
                   !.outcome = outcome,
                   !.etag = etag, !.levels = shown]

LEMMA ReplyFields ==
  ASSUME NEW r, NEW outcome, NEW etag, NEW shown
  PROVE  /\ Reply(r, outcome, etag, shown).phase = "handled"
         /\ Reply(r, outcome, etag, shown).heard
         /\ Reply(r, outcome, etag, shown).by = r.by
         /\ Reply(r, outcome, etag, shown).method = r.method
         /\ Reply(r, outcome, etag, shown).outcome = outcome
         /\ Reply(r, outcome, etag, shown).etag = etag
         /\ Reply(r, outcome, etag, shown).held = NoEtag
BY DEF Reply, NoCall

LEMMA ReplyType ==
  ASSUME NEW r \in CallRecord, NEW outcome \in {"ok", "refused", "forbidden"},
         NEW etag \in Etag, NEW shown \in SUBSET Level
  PROVE  Reply(r, outcome, etag, shown) \in CallRecord
<1>1. NoCall \in CallRecord
  BY NoCallFields
<1>2. r.by \in Dialog \cup {"page"} /\ r.method \in {"get", "patch"}
  BY DEF CallRecord
<1>3. QED
  BY <1>1, <1>2 DEF Reply, CallRecord

Served(r, outcome, etag, shown) ==
    IF r.heard THEN Reply(r, outcome, etag, shown) ELSE NoCall

LEMMA ServeIsReply ==
  ASSUME NEW c, NEW outcome, NEW etag, NEW shown
  PROVE  Serve(c, outcome, etag, shown) <=>
           call' = [call EXCEPT ![c] = Served(call[c], outcome, etag, shown)]
BY DEF Serve, Served, Reply

\* A page that is gone.
Unheard(r) ==
    IF r.phase = "sent" /\ r.method = "patch" THEN [r EXCEPT !.heard = FALSE] ELSE NoCall

LEMMA UnheardFields ==
  ASSUME NEW r \in CallRecord
  PROVE  LET u == Unheard(r) IN
         /\ u \in CallRecord /\ u.heard = FALSE
         /\ \/ u = NoCall /\ ~(r.phase = "sent" /\ r.method = "patch")
            \/ /\ u.phase = "sent" /\ u.method = "patch"
               /\ r.phase = "sent" /\ r.method = "patch"
               /\ u.by = r.by /\ u.etag = r.etag /\ u.held = r.held
               /\ u.names = r.names /\ u.typed = r.typed
<1>1. CASE r.phase = "sent" /\ r.method = "patch"
  <2>1. Unheard(r) = [r EXCEPT !.heard = FALSE]
    BY <1>1 DEF Unheard
  <2>2. [r EXCEPT !.heard = FALSE] \in CallRecord
    BY DEF CallRecord
  <2>3. QED
    BY <1>1, <2>1, <2>2 DEF CallRecord
<1>2. CASE ~(r.phase = "sent" /\ r.method = "patch")
  BY <1>2, NoCallFields DEF Unheard
<1>3. QED
  BY <1>1, <1>2

LEMMA UnloadedIsUnheard ==
  ASSUME NEW calls
  PROVE  Unloaded(calls) = [c \in Call |-> Unheard(calls[c])]
BY DEF Unloaded, Unheard

-----------------------------------------------------------------------------
(* Types *)

ServerTyped ==
    /\ account \in [isEnable : BOOLEAN, version : 0..MaxVersion]
    /\ levels \in SUBSET Level
    /\ personal \in [names : [Field -> Text], version : 0..MaxVersion]

CallsTyped == call \in [Call -> CallRecord]

NoticeRecord == [of : Holders, kind : {"success", "error", "forbidden", "already"}]

ScreenTyped ==
    /\ view \in [shown : BOOLEAN, isEnable : BOOLEAN, levels : SUBSET Level]
    /\ got \in [Holders -> Etag]
    /\ form \in [names : [Field -> Text], error : [Field -> BOOLEAN],
                 typed : SUBSET Field]
    /\ valid \in [Dialog -> BOOLEAN]
    /\ dialog \in Dialog \cup {"none"} /\ confirm \in Dialog \cup {"none"}
    /\ notices \in SUBSET NoticeRecord

BrowserTyped ==
    /\ etagCookie \in Etag
    /\ visitor \in [page : {"profile", "own", "left"}, role : Level,
                    opens : SUBSET Dialog]

LEMMA TypeParts ==
  /\ TypeOK <=> ServerTyped /\ CallsTyped /\ ScreenTyped /\ BrowserTyped
  /\ TypeOK' <=> ServerTyped' /\ CallsTyped' /\ ScreenTyped' /\ BrowserTyped'
BY DEF TypeOK, ServerTyped, CallsTyped, ScreenTyped, BrowserTyped, NoticeRecord

LEMMA EtagTypes ==
  ASSUME TypeOK
  PROVE  AccountEtag \in Etag /\ PersonalEtag \in Etag /\ \A d : EtagFor(d) \in Etag
<1>1. AccountEtag \in Etag
  BY DEF TypeOK, AccountEtag, Etag
<1>2. PersonalEtag \in Etag
  BY DEF TypeOK, PersonalEtag, Etag
<1>3. QED
  BY <1>1, <1>2 DEF EtagFor

LEMMA ServeTypes ==
  ASSUME TypeOK, NEW c \in Call, NEW outcome \in {"ok", "refused", "forbidden"},
         NEW etag \in Etag, NEW shown \in SUBSET Level, Serve(c, outcome, etag, shown)
  PROVE  CallsTyped'
<1>1. call[c] \in CallRecord /\ call \in [Call -> CallRecord]
  BY DEF TypeOK
<1>2. Served(call[c], outcome, etag, shown) \in CallRecord
  BY <1>1, ReplyType, NoCallFields DEF Served
<1>3. QED
  BY <1>1, <1>2, ServeIsReply DEF CallsTyped

LEMMA ClearTypes == ClearScreen => ScreenTyped'
<1>1. /\ NoView \in [shown : BOOLEAN, isEnable : BOOLEAN, levels : SUBSET Level]
      /\ [h \in Holders |-> NoEtag] \in [Holders -> Etag]
      /\ [d \in Dialog |-> FALSE] \in [Dialog -> BOOLEAN]
  BY NoEtagType DEF NoView
<1>2. NoForm \in [names : [Field -> Text], error : [Field -> BOOLEAN],
                 typed : SUBSET Field]
  BY NoEtagType DEF NoForm
<1>3. QED
  BY <1>1, <1>2 DEF ClearScreen, ScreenTyped

LEMMA UnloadedTypes ==
  ASSUME NEW calls \in [Call -> CallRecord]
  PROVE  Unloaded(calls) \in [Call -> CallRecord]
<1>1. \A c \in Call : Unheard(calls[c]) \in CallRecord
  BY UnheardFields
<1>2. QED
  BY <1>1, UnloadedIsUnheard

LEMMA ReloadTypes ==
  ASSUME TypeOK, NEW calls \in [Call -> CallRecord], ReloadAfter(calls)
  PROVE  TypeOK'
<1>1. CallsTyped'
  <2>1. PICK c \in Call : call' = [Unloaded(calls) EXCEPT ![c] = Get("page")]
    BY DEF ReloadAfter
  <2>2. QED
    BY <2>1, UnloadedTypes, GetFields DEF CallsTyped
<1>2. ScreenTyped'
  BY ClearTypes DEF ReloadAfter
<1>3. ServerTyped' /\ BrowserTyped'
  BY TypeParts DEF ReloadAfter, server, ServerTyped, BrowserTyped
<1>4. QED
  BY <1>1, <1>2, <1>3, TypeParts

\* The server's steps.
LEMMA ServerTypes ==
  ASSUME TypeOK
  PROVE  /\ \A c \in Call : ServerStep(c) => TypeOK'
         /\ ChangeAccount \/ ChangePersonal => TypeOK'
<1> USE TypeParts
<1>1. ASSUME NEW c \in Call, AnswerGet(c) PROVE TypeOK'
  <2>1. CallsTyped'
    BY <1>1, ServeTypes, EtagTypes DEF AnswerGet, ServerTyped
  <2>2. QED
    BY <1>1, <2>1 DEF AnswerGet, server, screen, ServerTyped, BrowserTyped, ScreenTyped
<1>2. ASSUME NEW c \in Call, Reject(c) \/ Forbid(c) PROVE TypeOK'
  <2>1. CallsTyped'
    BY <1>2, ServeTypes, NoEtagType DEF Reject, Forbid
  <2>2. QED
    BY <1>2, <2>1 DEF Reject, Forbid, server, screen, ServerTyped, BrowserTyped, ScreenTyped
<1>3. ASSUME NEW c \in Call, Accept(c) PROVE TypeOK'
  <2>1. CallsTyped'
    BY <1>3, ServeTypes, NoEtagType DEF Accept
  <2>2. call[c].names \in [Field -> Text]
    BY DEF CallsTyped, CallRecord
  <2>3. MaxVersion \in Nat
    BY PageAssumption
  <2>4. ASSUME NEW d, WriteAccount(d)
        PROVE  account' \in [isEnable : BOOLEAN, version : 0..MaxVersion]
    <3>1. NewFlag(d) \in BOOLEAN
      BY DEF NewFlag, ServerTyped
    <3> HIDE DEF NewFlag
    <3>2. account.version < MaxVersion => NextVersion(account) \in 0..MaxVersion
      BY <2>3 DEF NextVersion, ServerTyped
    <3>3. QED
      BY <2>4, <3>1, <3>2 DEF WriteAccount, ServerTyped
  <2>5. WritePersonal(call[c].names)
          => personal' \in [names : [Field -> Text], version : 0..MaxVersion]
    BY <2>2, <2>3 DEF WritePersonal, NextVersion, ServerTyped
  <2>6. ASSUME NEW d, WriteLevels(d) PROVE levels' \in SUBSET Level
    BY <2>6 DEF WriteLevels, Granted, ServerTyped, Level
  <2>7. ServerTyped'
    BY <1>3, <2>4, <2>5, <2>6 DEF Accept, ServerTyped
  <2>8. QED
    BY <1>3, <2>1, <2>7 DEF Accept, screen, BrowserTyped, ScreenTyped
<1>4. CASE ChangeAccount \/ ChangePersonal
  <2>1. MaxVersion \in Nat /\ OtherNames \subseteq [Field -> Text]
    BY PageAssumption DEF Text, Field
  <2>2. ServerTyped'
    BY <1>4, <2>1 DEF ChangeAccount, ChangePersonal, NextVersion, ServerTyped
  <2>3. QED
    BY <1>4, <2>2 DEF ChangeAccount, ChangePersonal, screen, CallsTyped, BrowserTyped,
                      ScreenTyped
<1>5. QED
  BY <1>1, <1>2, <1>3, <1>4 DEF ServerStep

\* A call that is sent or forgotten.
LEMMA CallUpdate ==
  ASSUME CallsTyped, NEW c \in Call, NEW r \in CallRecord, call' = [call EXCEPT ![c] = r]
  PROVE  CallsTyped'
BY DEF CallsTyped

LEMMA NoticeType ==
  ASSUME NEW d \in Dialog, NEW kind \in {"success", "error", "forbidden", "already"}
  PROVE  Notice(d, kind) \in NoticeRecord
BY HolderType DEF Notice, NoticeRecord

\* The handlers of a dialog.
LEMMA DialogTypes ==
  ASSUME TypeOK, NEW d \in Dialog
  PROVE  EditNames(d) \/ EditValue(d) => TypeOK'
<1> USE TypeParts
<1>1. CASE HandleClickOpen(d)
  <2>1. CallsTyped'
    <3>1. PICK c \in Call : call' = [call EXCEPT ![c] = Get(d)]
      BY <1>1, Zenon DEF HandleClickOpen
    <3>2. Get(d) \in CallRecord
      BY GetFields
    <3>3. QED
      BY <3>1, <3>2, CallUpdate
  <2>2. QED
    BY <1>1, <2>1 DEF HandleClickOpen, server, ServerTyped, BrowserTyped, ScreenTyped
<1>2. ASSUME NEW f \in Field, NEW t \in Text, HandleNameChange(d, f, t) PROVE TypeOK'
  <2> DEFINE new == [names |-> [form.names EXCEPT ![f] = t],
                     error |-> [form.error EXCEPT ![f] = t \notin Name],
                     typed |-> form.typed \cup {f}]
             ok == /\ \A g \in Field : ~form.error[g] /\ form.names[g] # Empty
                   /\ t # Empty
  <2>1. new \in [names : [Field -> Text], error : [Field -> BOOLEAN],
                 typed : SUBSET Field]
    BY DEF ScreenTyped
  <2>2. ok \in BOOLEAN
    OBVIOUS
  <2>3. form' = new /\ valid' = [valid EXCEPT ![d] = ok]
    BY <1>2, Zenon DEF HandleNameChange
  <2> HIDE DEF new, ok
  <2>4. valid' \in [Dialog -> BOOLEAN]
    BY <2>2, <2>3 DEF ScreenTyped
  <2>5. QED
    BY <1>2, <2>1, <2>3, <2>4
       DEF HandleNameChange, server, ServerTyped, BrowserTyped, ScreenTyped, CallsTyped
<1>3. CASE HandleInput(d)
  <2>1. PICK accepted \in BOOLEAN : valid' = [valid EXCEPT ![d] = accepted]
    BY <1>3 DEF HandleInput
  <2>2. valid' \in [Dialog -> BOOLEAN]
    BY <2>1 DEF ScreenTyped
  <2>3. QED
    BY <1>3, <2>2
       DEF HandleInput, server, ServerTyped, BrowserTyped, ScreenTyped, CallsTyped
<1>4. CASE HandleConfirm(d) \/ HandleConfirmClose(d)
  BY <1>4 DEF HandleConfirm, HandleConfirmClose, server, ServerTyped, BrowserTyped,
              ScreenTyped, CallsTyped
<1>5. CASE HandleClose(d)
  <2>1. CASE ReloadAfter(call)
    BY <2>1, ReloadTypes DEF CallsTyped
  <2>2. CASE ~ReloadAfter(call)
    BY <1>5, <2>2 DEF HandleClose, server, ServerTyped, BrowserTyped,
                      ScreenTyped, CallsTyped
  <2>3. QED
    BY <2>1, <2>2
<1>6. CASE HandleConfirmConfirm(d)
  <2>1. CASE \E c \in Call : ReloadAfter([call EXCEPT ![c] = Patch(d)])
    <3>1. \A c \in Call : [call EXCEPT ![c] = Patch(d)] \in [Call -> CallRecord]
      BY PatchFields DEF CallsTyped
    <3>2. QED
      BY <2>1, <3>1, ReloadTypes
  <2>2. CASE ~\E c \in Call : ReloadAfter([call EXCEPT ![c] = Patch(d)])
    <3>1. CallsTyped'
      BY <1>6, <2>2, CallUpdate, PatchFields DEF HandleConfirmConfirm, CallsTyped
    <3>2. notices' \in SUBSET NoticeRecord
      BY <1>6, <2>2, NoticeType DEF HandleConfirmConfirm, ScreenTyped
    <3>3. /\ UNCHANGED <<view, got, form, valid>>
          /\ dialog' \in {dialog, "none"} /\ confirm' \in {confirm, "none"}
      BY <1>6, <2>2 DEF HandleConfirmConfirm
    <3>4. QED
      BY <1>6, <3>1, <3>2, <3>3
         DEF HandleConfirmConfirm, server, ServerTyped, BrowserTyped, ScreenTyped
  <2>3. QED
    BY <2>1, <2>2
<1>7. ASSUME NEW n \in notices, CloseNotice(n) PROVE TypeOK'
  <2>1. CASE ReloadAfter(call)
    BY <2>1, ReloadTypes DEF CallsTyped
  <2>2. CASE ~ReloadAfter(call)
    <3>1. dialog' \in {dialog, "none"} /\ confirm' \in {confirm, "none"}
      BY <1>7, <2>2 DEF CloseNotice
    <3>2. QED
      BY <1>7, <2>2, <3>1 DEF CloseNotice, server, ServerTyped, BrowserTyped,
                      ScreenTyped, CallsTyped
  <2>3. QED
    BY <2>1, <2>2
<1>8. QED
  BY <1>1, <1>2, <1>3, <1>4, <1>5, <1>6, <1>7 DEF EditNames, EditValue, ConfirmedDialog

\* The answers.
LEMMA LeaveTypes == TypeOK /\ Leave => TypeOK'
<1> SUFFICES ASSUME TypeOK, Leave PROVE TypeOK'
  OBVIOUS
<1>1. CallsTyped' /\ ScreenTyped'
  BY TypeParts, UnloadedTypes, ClearTypes DEF Leave, CallsTyped
<1>2. QED
  BY <1>1, TypeParts DEF Leave, server, ServerTyped, BrowserTyped

ChangesOfDialogs == \A c \in Call : call[c].method = "patch" => call[c].by \in Dialog

LEMMA AnswerTypes ==
  ASSUME TypeOK, ChangesOfDialogs, NEW c \in Call
  PROVE  Receive(c) => TypeOK'
<1> USE TypeParts
<1>0. call[c] \in CallRecord
  BY DEF CallsTyped
<1>1. CASE ReceiveView(c)
  <2>1. CallsTyped'
    BY <1>1, CallUpdate, GetFields DEF ReceiveView, Dialog, NameDialog
  <2>2. view' \in [shown : BOOLEAN, isEnable : BOOLEAN, levels : SUBSET Level]
    BY <1>0, <1>1 DEF ReceiveView, NoView, CallRecord, Etag
  <2>3. QED
    BY <1>1, <2>1, <2>2
       DEF ReceiveView, server, ServerTyped, BrowserTyped, ScreenTyped
<1>2. CASE ReceiveNoView(c)
  BY <1>2, LeaveTypes DEF ReceiveNoView
<1>3. CASE ReceiveCopy(c)
  <2>1. CallsTyped'
    BY <1>3, CallUpdate, NoCallFields DEF ReceiveCopy
  <2>2. call[c].by \in Dialog /\ call[c].etag \in Etag
        /\ call[c].etag.names \in [Field -> Text]
    BY <1>0, <1>3 DEF ReceiveCopy, CallRecord, Etag
  <2>3. got' \in [Holders -> Etag] /\ etagCookie' \in Etag
    BY <1>3, <2>2, HolderType DEF ReceiveCopy, ScreenTyped, BrowserTyped
  <2>4. form' \in [names : [Field -> Text], error : [Field -> BOOLEAN],
                   typed : SUBSET Field]
    BY <1>3, <2>2 DEF ReceiveCopy, ScreenTyped
  <2>5. notices' \in SUBSET NoticeRecord
    BY <1>3, <2>2, NoticeType DEF ReceiveCopy, ScreenTyped
  <2>6. QED
    BY <1>3, <2>1, <2>3, <2>4, <2>5
       DEF ReceiveCopy, server, ServerTyped, BrowserTyped, ScreenTyped
<1>4. CASE ReceiveResult(c) \/ Lose(c)
  <2>1. CallsTyped'
    BY <1>4, CallUpdate, NoCallFields DEF ReceiveResult, Lose
  <2>2. CASE call[c].by \in Dialog
    <3>1. \A outcome, d : NoticeOf(outcome, d) \in {"success", "error", "forbidden"}
      BY DEF NoticeOf
    <3>2. notices' \in SUBSET NoticeRecord
      BY <1>4, <2>2, <3>1, NoticeType DEF ReceiveResult, Lose, ScreenTyped
    <3>3. QED
      BY <1>4, <2>1, <3>2
         DEF ReceiveResult, Lose, server, ServerTyped, BrowserTyped, ScreenTyped
  <2>3. CASE call[c].by \notin Dialog
    <3>1. notices' = notices
      BY <1>4, <2>3 DEF ReceiveResult, Lose, ChangesOfDialogs
    <3>2. QED
      BY <1>4, <2>1, <3>1
         DEF ReceiveResult, Lose, server, ServerTyped, BrowserTyped, ScreenTyped
  <2>4. QED
    BY <2>2, <2>3
<1>5. QED
  BY <1>1, <1>2, <1>3, <1>4 DEF Receive

LEMMA InitTypes == Init => TypeOK
<1> SUFFICES ASSUME Init PROVE TypeOK
  OBVIOUS
<1>1. ServerTyped
  BY PageAssumption DEF Init, ServerTyped, Text
<1>2. CallsTyped
  <2>1. NoCall \in CallRecord /\ Get("page") \in CallRecord
    BY NoCallFields, GetFields
  <2>2. QED
    BY <2>1 DEF Init, CallsTyped
<1>3. ScreenTyped /\ BrowserTyped
  BY NoEtagType DEF Init, ScreenTyped, BrowserTyped, NoView, NoForm
<1>4. QED
  BY <1>1, <1>2, <1>3, TypeParts

\* Every step is one of a few handlers, of some dialog or call.
LEMMA Steps ==
  ASSUME [Next]_vars
  PROVE  \/ \E c \in Call : ServerStep(c) \/ Receive(c)
         \/ ChangeAccount \/ ChangePersonal
         \/ \E d \in Dialog : EditNames(d) \/ EditValue(d)
         \/ PollForbidden
         \/ UNCHANGED vars
BY DEF Next, Profile, OwnProfile, EditPersonalData, EditUserPersonalData, EnableAccount,
       DisableAccount, EditEmail, EditUserEmail, EditPassword, EditUserPassword,
       ChangePhoneNumber, AddAccessLevel, RevokeAccessLevel, EditNames, EditValue, Dialog,
       NameDialog, EnableDialog, LevelDialog, EmailDialog

LEMMA StepTypes ==
  ASSUME TypeOK, ChangesOfDialogs, [Next]_vars
  PROVE  TypeOK'
<1>1. CASE UNCHANGED vars
  BY <1>1 DEF vars, server, screen, TypeOK
<1>2. CASE PollForbidden
  BY <1>2, LeaveTypes DEF PollForbidden
<1>3. QED
  BY <1>1, <1>2, Steps, ServerTypes, AnswerTypes, DialogTypes

-----------------------------------------------------------------------------
(* What etags, calls and the form tell about the rows *)

Kind(d) == IF d \in NameDialog THEN "personal" ELSE "account"

\* The dialog for the names that this page has.
Mine(page) == IF page = "own" THEN "ownPersonalData" ELSE "personalData"

\* An etag is that of its row, or of an older version of it.
Sound(e, acc, per) ==
    /\ e.of = "account" =>
         /\ e.version <= acc.version
         /\ e.version = acc.version => e.isEnable = acc.isEnable
    /\ e.of = "personal" =>
         /\ e.version <= per.version
         /\ e.version = per.version => e.names = per.names
         /\ \A f \in Field : e.names[f] \in Name

\* A change that is sent: what it claims to have seen is of its own row; it would
\* flip the flag it has seen; names not typed are those seen, the others checked.
ChangeOK(r) ==
    /\ r.held.of \in {"none", Kind(r.by)}
    /\ r.by = "enable" => ~r.held.isEnable
    /\ r.by = "disable" => r.held.isEnable
    /\ r.by \in NameDialog =>
         /\ \A f \in Field \ r.typed : r.names[f] = r.held.names[f]
         /\ r.held.of # "none" => \A f \in Field : r.names[f] \in Name

CallOK(r, acc, per, page) ==
    /\ Sound(r.etag, acc, per) /\ Sound(r.held, acc, per)
    /\ r.method = "patch" => r.by \in Dialog
    /\ r.phase = "sent" /\ r.method = "patch" => ChangeOK(r)
    /\ r.phase = "handled" /\ r.method = "get" /\ r.outcome = "ok" /\ r.by \in Dialog
         => r.etag.of = Kind(r.by)
    /\ r.phase = "handled" => r.heard
    /\ r.heard => /\ page # "left"
                  /\ r.by \in NameDialog => r.by = Mine(page)

CallsOK == \A c \in Call : CallOK(call[c], account, personal, visitor.page)

KeptOK ==
    /\ Sound(etagCookie, account, personal)
    /\ \A h \in Holders : /\ Sound(got[h], account, personal)
                          /\ got[h].of \in {"none", Kind(h)}

FormOK(g) ==
    \A f \in Field :
      /\ f \notin form.typed => form.names[f] = g.names[f]
      /\ ~form.error[f] /\ g.of # "none" => form.names[f] \in Name

DialogsOK ==
    /\ dialog \in NameDialog => dialog = Mine(visitor.page)
    /\ confirm \in NameDialog => confirm = Mine(visitor.page)
    /\ visitor.page = "left" =>
         ~view.shown /\ dialog = "none" /\ confirm = "none" /\ notices = {}

ScreenOK == KeptOK /\ FormOK(got[Mine(visitor.page)]) /\ DialogsOK

IInv == TypeOK /\ NamesStayValid /\ CallsOK /\ ScreenOK

-----------------------------------------------------------------------------
(* The invariant holds *)

\* A row stays, or is written under its next version.
RowsAdvance ==
    /\ account' = account \/ account'.version = account.version + 1
    /\ \/ personal' = personal
       \/ /\ personal'.version = personal.version + 1
          /\ \A f \in Field : personal'.names[f] \in Name

LEMMA SoundSurvives ==
  ASSUME TypeOK, RowsAdvance, NEW e \in Etag, Sound(e, account, personal)
  PROVE  Sound(e, account', personal')
<1>1. e.version \in Nat /\ account.version \in Nat /\ personal.version \in Nat
  BY PageAssumption DEF Etag, TypeOK
<1>2. QED
  BY <1>1 DEF Sound, RowsAdvance

LEMMA NoEtagSound == \A acc, per : Sound(NoEtag, acc, per)
BY DEF Sound, NoEtag

LEMMA CallSurvives ==
  ASSUME TypeOK, RowsAdvance, NEW r \in CallRecord, NEW page,
         CallOK(r, account, personal, page)
  PROVE  CallOK(r, account', personal', page)
<1>1. r.etag \in Etag /\ r.held \in Etag
  BY DEF CallRecord
<1>2. QED
  BY <1>1, SoundSurvives DEF CallOK

LEMMA KeptSurvives ==
  ASSUME TypeOK, RowsAdvance, KeptOK, UNCHANGED <<etagCookie, got>>
  PROVE  KeptOK'
<1>1. etagCookie \in Etag /\ \A h \in Holders : got[h] \in Etag
  BY DEF TypeOK
<1>2. Sound(etagCookie, account', personal')
      /\ \A h \in Holders : Sound(got[h], account', personal')
  BY <1>1, SoundSurvives DEF KeptOK
<1>3. QED
  BY <1>2 DEF KeptOK

\* No call, and one to a page that is gone.
LEMMA NoCallOK == \A acc, per, page : CallOK(NoCall, acc, per, page)
BY NoCallFields, NoEtagSound DEF CallOK

LEMMA GetOK ==
  ASSUME NEW d \in Dialog \cup {"page"}, NEW page, page # "left",
         d \in NameDialog => d = Mine(page)
  PROVE  \A acc, per : CallOK(Get(d), acc, per, page)
BY GetFields, NoEtagSound DEF CallOK

LEMMA UnheardOK ==
  ASSUME NEW r \in CallRecord, NEW acc, NEW per, NEW page, CallOK(r, acc, per, page)
  PROVE  \A other : CallOK(Unheard(r), acc, per, other)
<1>1. CASE Unheard(r) = NoCall
  BY <1>1, NoCallOK
<1>2. CASE Unheard(r) # NoCall
  <2> DEFINE u == Unheard(r)
  <2>1. /\ u.heard = FALSE /\ u.phase = "sent" /\ u.method = "patch"
        /\ r.phase = "sent" /\ r.method = "patch"
        /\ u.by = r.by /\ u.etag = r.etag /\ u.held = r.held
        /\ u.names = r.names /\ u.typed = r.typed
    BY <1>2, UnheardFields
  <2> HIDE DEF u
  <2>2. \A other : CallOK(u, acc, per, other)
    BY <2>1 DEF CallOK, ChangeOK
  <2>3. QED
    BY <2>2 DEF u
<1>3. QED
  BY <1>1, <1>2

LEMMA ReplyOK ==
  ASSUME NEW r \in CallRecord, NEW outcome \in {"ok", "refused", "forbidden"},
         NEW etag \in Etag, NEW shown \in SUBSET Level, NEW acc, NEW per, NEW page,
         CallOK(r, acc, per, page), Sound(etag, acc, per),
         r.method = "get" /\ outcome = "ok" /\ r.by \in Dialog => etag.of = Kind(r.by)
  PROVE  CallOK(Served(r, outcome, etag, shown), acc, per, page)
<1>1. CASE ~r.heard
  BY <1>1, NoCallOK DEF Served
<1>2. CASE r.heard
  <2>1. CallOK(Reply(r, outcome, etag, shown), acc, per, page)
    BY <1>2, ReplyFields, NoEtagSound DEF CallOK
  <2>2. QED
    BY <1>2, <2>1 DEF Served
<1>3. QED
  BY <1>1, <1>2

\* A change that is sent has what its dialog has kept.
LEMMA PatchOK ==
  ASSUME IInv, NEW d \in Dialog, ~Already(d), Sends(d), visitor.page # "left",
         d \in NameDialog => d = Mine(visitor.page)
  PROVE  CallOK(Patch(d), account, personal, visitor.page)
<1> DEFINE p == Patch(d)
<1>1. /\ p.phase = "sent" /\ p.heard = TRUE /\ p.by = d
      /\ p.method = "patch" /\ p.etag = PatchEtag(d) /\ p.held = got[Holder(d)]
      /\ p.names = PatchNames(d) /\ p.typed = PatchTyped(d)
  BY PatchFields DEF IInv
<1> HIDE DEF p
<1>2. Sound(PatchEtag(d), account, personal) /\ Sound(got[Holder(d)], account, personal)
      /\ got[Holder(d)].of \in {"none", Kind(d)}
  <2>1. Kind(Holder(d)) = Kind(d)
    BY DEF Holder, Kind, NameDialog, LevelDialog
  <2>2. QED
    BY <2>1, HolderType DEF IInv, ScreenOK, KeptOK, PatchEtag
<1>3. d \in EnableDialog => Holder(d) = d
  BY DEF Holder, EnableDialog, LevelDialog
<1>4. /\ d = "enable" => ~got[Holder(d)].isEnable
      /\ d = "disable" => got[Holder(d)].isEnable
  BY <1>3 DEF Already, EnableDialog
<1>5. ASSUME d \in NameDialog
      PROVE  /\ \A f \in Field \ form.typed : form.names[f] = got[Holder(d)].names[f]
             /\ got[Holder(d)].of # "none" => \A f \in Field : form.names[f] \in Name
  <2>1. Holder(d) = d /\ d = Mine(visitor.page)
    BY <1>5 DEF Holder, NameDialog, LevelDialog
  <2>2. QED
    BY <1>5, <2>1 DEF IInv, ScreenOK, FormOK, Sends
<1>6. ChangeOK(p)
  BY <1>1, <1>2, <1>4, <1>5 DEF ChangeOK, PatchNames, PatchTyped
<1>7. CallOK(p, account, personal, visitor.page)
  BY <1>1, <1>2, <1>6 DEF CallOK
<1>8. QED
  BY <1>7 DEF p

\* The first state.
LEMMA InitOK == Init => IInv
<1> SUFFICES ASSUME Init PROVE IInv
  OBVIOUS
<1>1. TypeOK /\ NamesStayValid
  BY InitTypes DEF Init, NamesStayValid
<1>2. CallsOK
  <2>1. visitor.page # "left" /\ "page" \notin NameDialog
    BY DEF Init, NameDialog
  <2>2. \A c \in Call : call[c] \in {NoCall, Get("page")}
    BY DEF Init
  <2>3. QED
    BY <2>1, <2>2, NoCallOK, GetOK DEF CallsOK
<1>3. KeptOK
  BY NoEtagSound DEF Init, KeptOK, NoEtag
<1>4. FormOK(got[Mine(visitor.page)])
  <2>1. Mine(visitor.page) \in Holders
    BY DEF Mine, Holders, Dialog, Holder, NameDialog, LevelDialog
  <2>2. got[Mine(visitor.page)] = NoEtag
    BY <2>1 DEF Init
  <2>3. QED
    BY <2>2 DEF Init, FormOK, NoForm, NoEtag, NoNames
<1>5. DialogsOK
  BY DEF Init, DialogsOK, NameDialog
<1>6. QED
  BY <1>1, <1>2, <1>3, <1>4, <1>5 DEF IInv, ScreenOK

\* What is left of the screen when it is cleared tells nothing.
LEMMA MineIsHeld == \A page : Mine(page) \in Holders
BY DEF Mine, Holders, Dialog, Holder, NameDialog, LevelDialog

LEMMA ClearOK ==
  ASSUME ClearScreen, TypeOK, RowsAdvance, KeptOK, UNCHANGED etagCookie
  PROVE  ScreenOK'
<1>1. KeptOK'
  <2>1. Sound(etagCookie, account', personal')
    BY SoundSurvives DEF KeptOK, TypeOK
  <2>2. \A h \in Holders : got'[h] = NoEtag
    BY DEF ClearScreen
  <2>3. NoEtag.of = "none"
    BY DEF NoEtag
  <2>4. QED
    BY <2>1, <2>2, <2>3, NoEtagSound DEF KeptOK
<1>2. FormOK(got[Mine(visitor.page)])'
  <2>1. got'[Mine(visitor'.page)] = NoEtag
    BY MineIsHeld DEF ClearScreen
  <2>2. QED
    BY <2>1 DEF ClearScreen, FormOK, NoForm, NoEtag, NoNames
<1>3. DialogsOK'
  BY DEF ClearScreen, DialogsOK, NameDialog, NoView
<1>4. QED
  BY <1>1, <1>2, <1>3 DEF ScreenOK

\* Calls that are each as they were, or another that is in order.
LEMMA UpdateOK ==
  ASSUME IInv, RowsAdvance, visitor' = visitor, NEW c \in Call, NEW r,
         CallOK(r, account', personal', visitor.page),
         call' = [call EXCEPT ![c] = r]
  PROVE  CallsOK'
<1>1. ASSUME NEW b \in Call PROVE CallOK(call'[b], account', personal', visitor.page)
  <2>1. call[b] \in CallRecord /\ CallOK(call[b], account, personal, visitor.page)
    BY DEF IInv, CallsOK, TypeOK
  <2>2. CallOK(call[b], account', personal', visitor.page)
    BY <2>1, CallSurvives DEF IInv
  <2>3. QED
    BY <2>2 DEF IInv, TypeOK
<1>2. QED
  BY <1>1 DEF CallsOK

LEMMA SameCallsOK ==
  ASSUME IInv, RowsAdvance, visitor' = visitor, call' = call
  PROVE  CallsOK'
<1>1. ASSUME NEW b \in Call PROVE CallOK(call[b], account', personal', visitor.page)
  BY CallSurvives DEF IInv, CallsOK, TypeOK
<1>2. QED
  BY <1>1 DEF CallsOK

LEMMA ReloadOK ==
  ASSUME IInv, visitor.page # "left", NEW calls \in [Call -> CallRecord],
         \A c \in Call : CallOK(calls[c], account, personal, visitor.page),
         ReloadAfter(calls)
  PROVE  CallsOK' /\ ScreenOK' /\ NamesStayValid'
<1>1. RowsAdvance /\ UNCHANGED <<account, personal, visitor, etagCookie>>
  BY DEF ReloadAfter, server, RowsAdvance
<1>2. CallsOK'
  <2>1. PICK c \in Call : call' = [Unloaded(calls) EXCEPT ![c] = Get("page")]
    BY DEF ReloadAfter
  <2>2. \A b \in Call : call'[b] = Get("page") \/ call'[b] = Unheard(calls[b])
    BY <2>1, UnloadedIsUnheard
  <2>3. CallOK(Get("page"), account, personal, visitor.page)
    BY GetOK DEF NameDialog
  <2>4. \A b \in Call : CallOK(Unheard(calls[b]), account, personal, visitor.page)
    BY UnheardOK
  <2>5. QED
    BY <1>1, <2>2, <2>3, <2>4 DEF CallsOK
<1>3. ScreenOK'
  BY <1>1, ClearOK DEF IInv, ScreenOK, ReloadAfter
<1>4. QED
  BY <1>1, <1>2, <1>3 DEF IInv, NamesStayValid

LEMMA LeaveOK ==
  ASSUME IInv, Leave
  PROVE  CallsOK' /\ ScreenOK' /\ NamesStayValid'
<1>1. RowsAdvance /\ UNCHANGED <<account, personal, etagCookie>>
  BY DEF Leave, server, RowsAdvance
<1>2. CallsOK'
  <2>1. \A b \in Call : call'[b] = Unheard(call[b])
    BY UnloadedIsUnheard DEF Leave
  <2>2. \A b \in Call : \A other : CallOK(Unheard(call[b]), account, personal, other)
    BY UnheardOK DEF IInv, CallsOK, TypeOK
  <2>3. QED
    BY <1>1, <2>1, <2>2 DEF CallsOK
<1>3. ScreenOK'
  BY <1>1, ClearOK DEF IInv, ScreenOK, Leave
<1>4. QED
  BY <1>1, <1>2, <1>3 DEF IInv, NamesStayValid

\* Steps that leave what the screen has.
LEMMA ScreenKeeps ==
  ASSUME IInv, RowsAdvance, UNCHANGED <<etagCookie, got, form, visitor>>, DialogsOK'
  PROVE  ScreenOK'
<1>1. KeptOK'
  BY KeptSurvives DEF IInv, ScreenOK
<1>2. FormOK(got[Mine(visitor.page)])'
  BY DEF IInv, ScreenOK, FormOK
<1>3. QED
  BY <1>1, <1>2 DEF ScreenOK

\* What the server reads, it signs as it is; what it writes is the next version.
LEMMA RowEtags ==
  ASSUME IInv
  PROVE  /\ \A d : Sound(EtagFor(d), account, personal) /\ EtagFor(d).of = Kind(d)
         /\ Sound(AccountEtag, account, personal)
<1>1. AccountEtag.of = "account" /\ AccountEtag.version = account.version
      /\ AccountEtag.isEnable = account.isEnable
  BY DEF AccountEtag
<1>2. PersonalEtag.of = "personal" /\ PersonalEtag.version = personal.version
      /\ PersonalEtag.names = personal.names
  BY DEF PersonalEtag
<1>3. account.version \in Nat /\ personal.version \in Nat
  BY PageAssumption DEF IInv, TypeOK
<1>4. Sound(AccountEtag, account, personal)
  BY <1>1, <1>3 DEF Sound
<1>5. Sound(PersonalEtag, account, personal)
  BY <1>2, <1>3 DEF Sound, IInv, NamesStayValid
<1>6. QED
  BY <1>1, <1>2, <1>4, <1>5 DEF EtagFor, Kind

LEMMA ServeOK ==
  ASSUME IInv, RowsAdvance, visitor' = visitor, NEW c \in Call,
         NEW outcome \in {"ok", "refused", "forbidden"}, NEW etag \in Etag,
         NEW shown \in SUBSET Level,
         Sound(etag, account, personal),
         call[c].method = "get" /\ outcome = "ok" /\ call[c].by \in Dialog
           => etag.of = Kind(call[c].by),
         Serve(c, outcome, etag, shown)
  PROVE  CallsOK'
<1>1. call[c] \in CallRecord /\ CallOK(call[c], account, personal, visitor.page)
  BY DEF IInv, TypeOK, CallsOK
<1>2. CallOK(Served(call[c], outcome, etag, shown), account, personal, visitor.page)
  BY <1>1, ReplyOK
<1>3. Served(call[c], outcome, etag, shown) \in CallRecord
  BY <1>1, ReplyType, NoCallFields DEF Served
<1>4. CallOK(Served(call[c], outcome, etag, shown), account', personal', visitor.page)
  BY <1>2, <1>3, CallSurvives DEF IInv
<1>5. QED
  BY <1>4, ServeIsReply, UpdateOK

\* A change that meets its precondition has seen the row as it is.
LEMMA PreconditionTells ==
  ASSUME IInv, NEW c \in Call, call[c].phase = "sent", call[c].method = "patch",
         PreconditionHolds(c)
  PROVE  /\ ChangeOK(call[c]) /\ call[c].by \in Dialog
         /\ call[c].held.of = Kind(call[c].by)
         /\ call[c].by \notin NameDialog => call[c].held.isEnable = account.isEnable
         /\ call[c].by \in NameDialog => call[c].held.names = personal.names
<1>1. CallOK(call[c], account, personal, visitor.page)
  BY DEF IInv, CallsOK
<1>2. ChangeOK(call[c]) /\ call[c].by \in Dialog
  BY <1>1 DEF CallOK
<1>3. call[c].held.of = Kind(call[c].by)
  BY <1>2 DEF ChangeOK, PreconditionHolds, VersionMatches
<1>4. CASE call[c].by \in NameDialog
  BY <1>1, <1>2, <1>3, <1>4
     DEF CallOK, Sound, Kind, PreconditionHolds, VersionMatches, EtagFor, PersonalEtag
<1>5. CASE call[c].by \notin NameDialog
  BY <1>1, <1>2, <1>3, <1>5
     DEF CallOK, Sound, Kind, PreconditionHolds, VersionMatches, EtagFor, AccountEtag
<1>6. QED
  BY <1>2, <1>3, <1>4, <1>5

LEMMA AcceptAdvances ==
  ASSUME IInv, NEW c \in Call, Accept(c)
  PROVE  RowsAdvance /\ NamesStayValid'
<1>1. account' = account \/ account'.version = account.version + 1
  BY DEF Accept, WriteAccount, NextVersion
<1>2. CASE personal' = personal
  BY <1>1, <1>2 DEF RowsAdvance, IInv, NamesStayValid
<1>3. CASE personal' # personal
  <2>1. call[c].by \in NameDialog
        /\ personal' = [names |-> call[c].names, version |-> NextVersion(personal)]
    BY <1>3 DEF Accept, WritePersonal
  <2>2. \A f \in Field : call[c].names[f] \in Name
    BY <2>1, PreconditionTells DEF Accept, ChangeOK, Kind
  <2>3. QED
    BY <1>1, <2>1, <2>2 DEF RowsAdvance, NamesStayValid, NextVersion
<1>4. QED
  BY <1>2, <1>3

LEMMA ServerOK ==
  ASSUME IInv
  PROVE  /\ \A c \in Call : ServerStep(c) => CallsOK' /\ ScreenOK' /\ NamesStayValid'
         /\ ChangeAccount \/ ChangePersonal => CallsOK' /\ ScreenOK' /\ NamesStayValid'
<1>1. ASSUME RowsAdvance, UNCHANGED <<etagCookie, visitor, screen>>
      PROVE  ScreenOK'
  <2>1. DialogsOK'
    BY <1>1 DEF screen, IInv, ScreenOK, DialogsOK
  <2>2. QED
    BY <1>1, <2>1, ScreenKeeps DEF screen
<1>2. ASSUME UNCHANGED server PROVE RowsAdvance /\ NamesStayValid'
  BY <1>2 DEF server, RowsAdvance, IInv, NamesStayValid
<1>3. Sound(NoEtag, account, personal) /\ NoEtag \in Etag /\ {} \in SUBSET Level
  BY NoEtagSound, NoEtagType
<1>4. ASSUME NEW c \in Call, AnswerGet(c)
      PROVE  CallsOK' /\ ScreenOK' /\ NamesStayValid'
  <2>1. RowsAdvance /\ NamesStayValid' /\ ScreenOK'
    BY <1>1, <1>2, <1>4 DEF AnswerGet
  <2>2. CASE call[c].by = "page"
    <3>1. "page" \notin Dialog
      BY DEF Dialog, NameDialog, EnableDialog, LevelDialog, EmailDialog
    <3>2. AccountEtag \in Etag /\ levels \in SUBSET Level
      BY EtagTypes DEF IInv, TypeOK
    <3>3. Serve(c, "ok", AccountEtag, levels) /\ visitor' = visitor
      BY <1>4, <2>2 DEF AnswerGet
    <3>4. CallsOK'
      BY <2>1, <2>2, <3>1, <3>2, <3>3, RowEtags, ServeOK
    <3>5. QED
      BY <2>1, <3>4
  <2>3. CASE call[c].by # "page"
    <3>1. EtagFor(call[c].by) \in Etag
      BY EtagTypes DEF IInv
    <3>2. Serve(c, "ok", EtagFor(call[c].by), {}) /\ visitor' = visitor
      BY <1>4, <2>3 DEF AnswerGet
    <3>3. CallsOK'
      BY <1>3, <2>1, <3>1, <3>2, RowEtags, ServeOK
    <3>4. QED
      BY <2>1, <3>3
  <2>4. QED
    BY <2>2, <2>3
<1>5. ASSUME NEW c \in Call, Reject(c) \/ Forbid(c)
      PROVE  CallsOK' /\ ScreenOK' /\ NamesStayValid'
  <2>1. RowsAdvance /\ NamesStayValid' /\ ScreenOK' /\ visitor' = visitor
    BY <1>1, <1>2, <1>5 DEF Reject, Forbid
  <2>2. Serve(c, "refused", NoEtag, {}) \/ Serve(c, "forbidden", NoEtag, {})
    BY <1>5 DEF Reject, Forbid
  <2>3. CASE Serve(c, "refused", NoEtag, {})
    BY <1>3, <2>1, <2>3, ServeOK
  <2>4. CASE Serve(c, "forbidden", NoEtag, {})
    BY <1>3, <2>1, <2>4, ServeOK
  <2>5. QED
    BY <2>2, <2>3, <2>4
<1>6. ASSUME NEW c \in Call, Accept(c)
      PROVE  CallsOK' /\ ScreenOK' /\ NamesStayValid'
  <2>1. RowsAdvance /\ NamesStayValid'
    BY <1>6, AcceptAdvances
  <2>2. ScreenOK'
    BY <1>1, <1>6, <2>1 DEF Accept
  <2>3. CallsOK'
    BY <1>3, <1>6, <2>1, ServeOK DEF Accept
  <2>4. QED
    BY <2>1, <2>2, <2>3
<1>7. CASE ChangeAccount \/ ChangePersonal
  <2>1. RowsAdvance /\ NamesStayValid'
    BY <1>7, PageAssumption
       DEF ChangeAccount, ChangePersonal, RowsAdvance, NextVersion, IInv,
           NamesStayValid, Field
  <2>2. UNCHANGED <<call, etagCookie, visitor, screen>>
    BY <1>7 DEF ChangeAccount, ChangePersonal
  <2>3. QED
    BY <1>1, <2>1, <2>2, SameCallsOK
<1>8. QED
  BY <1>4, <1>5, <1>6, <1>7 DEF ServerStep

\* A dialog is open, a notice is shown, only on a page that is there.
LEMMA DialogTells ==
  ASSUME IInv, NEW d \in Dialog, InDialog(d) \/ InConfirm(d)
  PROVE  visitor.page # "left" /\ (d \in NameDialog => d = Mine(visitor.page))
<1>1. d # "none"
  BY DEF Dialog, NameDialog, EnableDialog, LevelDialog, EmailDialog
<1>2. QED
  BY <1>1 DEF IInv, ScreenOK, DialogsOK, InDialog, InConfirm

LEMMA SameCallsInOrder ==
  IInv => /\ call \in [Call -> CallRecord]
          /\ \A c \in Call : CallOK(call[c], account, personal, visitor.page)
BY DEF IInv, TypeOK, CallsOK

\* The handlers of a dialog.
LEMMA OpenOK ==
  ASSUME IInv, NEW d \in Dialog, HandleClickOpen(d)
  PROVE  CallsOK' /\ ScreenOK' /\ NamesStayValid'
<1>1. /\ RowsAdvance /\ NamesStayValid' /\ visitor' = visitor
      /\ UNCHANGED <<etagCookie, got, form>>
  BY DEF HandleClickOpen, server, RowsAdvance, IInv, NamesStayValid
<1>2. visitor.page # "left" /\ (d \in NameDialog => d = Mine(visitor.page))
  BY DEF HandleClickOpen, Offered, IInv, ScreenOK, DialogsOK, OwnDialog, NameDialog, Mine
<1>3. CallsOK'
  <2>1. PICK c \in Call : call' = [call EXCEPT ![c] = Get(d)]
    BY Zenon DEF HandleClickOpen
  <2>2. CallOK(Get(d), account', personal', visitor.page)
    BY <1>2, GetOK
  <2>3. QED
    BY <1>1, <2>1, <2>2, UpdateOK
<1>4. DialogsOK'
  BY <1>2 DEF HandleClickOpen, IInv, ScreenOK, DialogsOK
<1>5. QED
  BY <1>1, <1>3, <1>4, ScreenKeeps

LEMMA TypingOK ==
  ASSUME IInv, NEW d, NEW f \in Field, NEW t, HandleNameChange(d, f, t)
  PROVE  CallsOK' /\ ScreenOK' /\ NamesStayValid'
<1>1. /\ RowsAdvance /\ NamesStayValid'
      /\ UNCHANGED <<call, etagCookie, got, visitor, view, dialog, confirm, notices>>
  BY DEF HandleNameChange, server, RowsAdvance, IInv, NamesStayValid
<1>2. FormOK(got[Mine(visitor.page)])'
  <2>1. /\ form'.names = [form.names EXCEPT ![f] = t]
        /\ form'.error = [form.error EXCEPT ![f] = t \notin Name]
        /\ form'.typed = form.typed \cup {f}
    BY DEF HandleNameChange
  <2>2. \A g \in Field \ {f} : form'.names[g] = form.names[g] /\ (form'.error[g] <=> form.error[g])
    BY <2>1 DEF IInv, TypeOK
  <2>3. form'.names[f] = t /\ (form'.error[f] <=> t \notin Name)
    <3>1. DOMAIN form.names = Field /\ DOMAIN form.error = Field
      BY DEF IInv, TypeOK
    <3>2. QED
      BY <2>1, <3>1
  <2>4. FormOK(got[Mine(visitor.page)])
    BY DEF IInv, ScreenOK
  <2>5. QED
    BY <1>1, <2>1, <2>2, <2>3, <2>4 DEF FormOK
<1>3. KeptOK' /\ DialogsOK'
  BY <1>1, KeptSurvives DEF IInv, ScreenOK, DialogsOK
<1>4. QED
  BY <1>1, <1>2, <1>3, SameCallsOK DEF ScreenOK

LEMMA ConfirmConfirmOK ==
  ASSUME IInv, NEW d \in Dialog, HandleConfirmConfirm(d)
  PROVE  CallsOK' /\ ScreenOK' /\ NamesStayValid'
<1>1. visitor.page # "left" /\ (d \in NameDialog => d = Mine(visitor.page))
  BY DialogTells DEF HandleConfirmConfirm
<1>2. CASE \E c \in Call : d = "ownEmail" /\ ReloadAfter([call EXCEPT ![c] = Patch(d)])
  <2>1. PICK c \in Call : d = "ownEmail" /\ ReloadAfter([call EXCEPT ![c] = Patch(d)])
    BY <1>2
  <2> DEFINE calls == [call EXCEPT ![c] = Patch(d)]
  <2>2. Patch(d) \in CallRecord
    BY PatchFields DEF IInv
  <2>3. CallOK(Patch(d), account, personal, visitor.page)
    <3>1. ~Already(d) /\ Sends(d)
      BY <2>1 DEF Already, Sends, NameDialog
    <3>2. QED
      BY <1>1, <3>1, PatchOK
  <2>4. calls \in [Call -> CallRecord]
    BY <2>2, SameCallsInOrder
  <2>5. \A b \in Call : calls[b] = Patch(d) \/ calls[b] = call[b]
    BY SameCallsInOrder
  <2>6. \A b \in Call : CallOK(calls[b], account, personal, visitor.page)
    BY <2>3, <2>5, SameCallsInOrder
  <2> HIDE DEF calls
  <2>7. ReloadAfter(calls)
    BY <2>1 DEF calls
  <2>8. QED
    BY <1>1, <2>4, <2>6, <2>7, ReloadOK
<1>3. CASE ~\E c \in Call : d = "ownEmail" /\ ReloadAfter([call EXCEPT ![c] = Patch(d)])
  <2>1. /\ RowsAdvance /\ NamesStayValid'
        /\ UNCHANGED <<etagCookie, got, form, visitor, view>>
        /\ dialog' \in {dialog, "none"} /\ confirm' \in {confirm, "none"}
    BY <1>3 DEF HandleConfirmConfirm, server, RowsAdvance, IInv, NamesStayValid
  <2>2. CallsOK'
    <3>1. CASE call' = call
      BY <2>1, <3>1, SameCallsOK
    <3>2. CASE call' # call
      <4>1. /\ ~Already(d) /\ Sends(d)
            /\ \E c \in Call : call' = [call EXCEPT ![c] = Patch(d)]
        BY <1>3, <3>2 DEF HandleConfirmConfirm
      <4>2. PICK c \in Call : call' = [call EXCEPT ![c] = Patch(d)]
        BY <4>1
      <4>3. CallOK(Patch(d), account, personal, visitor.page)
        BY <1>1, <4>1, PatchOK
      <4>4. account' = account /\ personal' = personal
        BY DEF HandleConfirmConfirm, server
      <4>5. QED
        BY <2>1, <4>2, <4>3, <4>4, UpdateOK
    <3>3. QED
      BY <3>1, <3>2
  <2>3. DialogsOK'
    <3>1. "none" \notin NameDialog
      BY DEF NameDialog
    <3>2. QED
      BY <1>1, <2>1, <3>1 DEF IInv, ScreenOK, DialogsOK
  <2>4. QED
    BY <2>1, <2>2, <2>3, ScreenKeeps
<1>4. QED
  BY <1>2, <1>3

LEMMA DialogOK ==
  ASSUME IInv, NEW d \in Dialog, EditNames(d) \/ EditValue(d)
  PROVE  CallsOK' /\ ScreenOK' /\ NamesStayValid'
<1>1. ASSUME UNCHANGED <<server, call, etagCookie, visitor, view, got, form>>, DialogsOK'
      PROVE  CallsOK' /\ ScreenOK' /\ NamesStayValid'
  <2>1. RowsAdvance /\ NamesStayValid'
    BY <1>1 DEF server, RowsAdvance, IInv, NamesStayValid
  <2>2. QED
    BY <1>1, <2>1, SameCallsOK, ScreenKeeps
<1>2. "none" \notin NameDialog /\ DialogsOK
  BY DEF NameDialog, IInv, ScreenOK
<1>3. CASE HandleConfirm(d)
  <2>1. visitor.page # "left" /\ (d \in NameDialog => d = Mine(visitor.page))
    BY <1>3, DialogTells DEF HandleConfirm
  <2>2. DialogsOK'
    BY <1>2, <1>3, <2>1 DEF HandleConfirm, DialogsOK
  <2>3. QED
    BY <1>1, <1>3, <2>2 DEF HandleConfirm
<1>4. CASE HandleInput(d) \/ HandleConfirmClose(d)
  <2>1. DialogsOK'
    BY <1>2, <1>4 DEF HandleInput, HandleConfirmClose, DialogsOK
  <2>2. QED
    BY <1>1, <1>4, <2>1 DEF HandleInput, HandleConfirmClose
<1>5. CASE HandleClose(d)
  <2>1. visitor.page # "left"
    BY <1>5, DialogTells DEF HandleClose
  <2>2. CASE ReloadAfter(call)
    BY <2>1, <2>2, SameCallsInOrder, ReloadOK
  <2>3. CASE ~ReloadAfter(call)
    <3>1. DialogsOK'
      BY <1>2, <1>5, <2>3 DEF HandleClose, DialogsOK
    <3>2. QED
      BY <1>1, <1>5, <2>3, <3>1 DEF HandleClose
  <2>4. QED
    BY <2>2, <2>3
<1>6. ASSUME NEW n \in notices, CloseNotice(n)
      PROVE  CallsOK' /\ ScreenOK' /\ NamesStayValid'
  <2>1. visitor.page # "left"
    BY <1>2, <1>6 DEF DialogsOK
  <2>2. CASE ReloadAfter(call)
    BY <2>1, <2>2, SameCallsInOrder, ReloadOK
  <2>3. CASE ~ReloadAfter(call)
    <3>1. dialog' \in {dialog, "none"} /\ confirm' \in {confirm, "none"}
      BY <1>6, <2>3 DEF CloseNotice
    <3>2. UNCHANGED <<server, call, etagCookie, visitor, view, got, form>>
      BY <1>6, <2>3 DEF CloseNotice
    <3>3. DialogsOK'
      BY <1>2, <2>1, <3>1, <3>2 DEF DialogsOK
    <3>4. QED
      BY <1>1, <3>2, <3>3
  <2>4. QED
    BY <2>2, <2>3
<1>7. QED
  BY <1>3, <1>4, <1>5, <1>6, OpenOK, TypingOK, ConfirmConfirmOK
     DEF EditNames, EditValue, ConfirmedDialog

\* The answers.
LEMMA AnswerOK ==
  ASSUME IInv, NEW c \in Call, Receive(c)
  PROVE  CallsOK' /\ ScreenOK' /\ NamesStayValid'
<1>1. /\ call[c] \in CallRecord
      /\ CallOK(call[c], account, personal, visitor.page)
  BY SameCallsInOrder
<1>2. DialogsOK
  BY DEF IInv, ScreenOK
<1>3. CASE ReceiveView(c)
  <2>1. /\ RowsAdvance /\ NamesStayValid'
        /\ UNCHANGED <<etagCookie, got, form, visitor, dialog, confirm, notices>>
        /\ account' = account /\ personal' = personal
    BY <1>3 DEF ReceiveView, server, RowsAdvance, IInv, NamesStayValid
  <2>2. visitor.page # "left"
    BY <1>1, <1>3 DEF ReceiveView, Received, CallOK
  <2>3. CallsOK'
    <3>1. visitor.page \in {"profile", "own"}
      BY <2>2 DEF IInv, TypeOK
    <3>2. PICK d \in NameDialog : d = Mine(visitor.page) /\ call' = [call EXCEPT ![c] = Get(d)]
      BY <1>3, <3>1 DEF ReceiveView, Mine, NameDialog
    <3>3. CallOK(Get(d), account, personal, visitor.page)
      BY <2>2, <3>2, GetOK DEF Dialog
    <3>4. QED
      BY <2>1, <3>2, <3>3, UpdateOK
  <2>4. DialogsOK'
    BY <1>2, <2>1, <2>2 DEF DialogsOK
  <2>5. QED
    BY <2>1, <2>3, <2>4, ScreenKeeps
<1>4. CASE ReceiveNoView(c)
  BY <1>4, LeaveOK DEF ReceiveNoView
<1>5. CASE ReceiveCopy(c)
  <2> DEFINE d == call[c].by
  <2>1. /\ RowsAdvance /\ NamesStayValid'
        /\ UNCHANGED <<visitor, view, valid, dialog, confirm>>
        /\ account' = account /\ personal' = personal
        /\ call' = [call EXCEPT ![c] = NoCall]
    BY <1>5 DEF ReceiveCopy, server, RowsAdvance, IInv, NamesStayValid
  <2>2. /\ visitor.page # "left" /\ d \in Dialog
        /\ d \in NameDialog => d = Mine(visitor.page)
    BY <1>1, <1>5 DEF ReceiveCopy, CallOK, CallRecord
  <2>3. CallsOK'
    BY <2>1, NoCallOK, UpdateOK
  <2>4. DialogsOK'
    BY <1>2, <2>1, <2>2 DEF DialogsOK
  <2>5. CASE call[c].outcome = "ok"
    <3> DEFINE e == call[c].etag
    <3>1. e.of = Kind(d) /\ Sound(e, account, personal)
      BY <1>1, <1>5, <2>2, <2>5 DEF ReceiveCopy, CallOK
    <3>2. /\ got' = [got EXCEPT ![Holder(d)] = e]
          /\ etagCookie' \in {e, etagCookie}
          /\ form' = IF d \in NameDialog
                     THEN [form EXCEPT !.names = e.names, !.typed = {}] ELSE form
      BY <1>5, <2>5 DEF ReceiveCopy
    <3>3. Kind(Holder(d)) = Kind(d) /\ Holder(d) \in Holders
      BY <2>2, HolderType DEF Holder, Kind, NameDialog, LevelDialog
    <3>4. /\ got'[Holder(d)] = e
          /\ \A h \in Holders \ {Holder(d)} : got'[h] = got[h]
      BY <3>2, <3>3 DEF IInv, TypeOK
    <3>5. KeptOK'
      BY <2>1, <3>1, <3>2, <3>3, <3>4 DEF IInv, ScreenOK, KeptOK
    <3>6. FormOK(got[Mine(visitor.page)])'
      <4>1. CASE d \in NameDialog
        <5>1. Holder(d) = d /\ d = Mine(visitor.page)
          BY <2>2, <4>1 DEF Holder, NameDialog, LevelDialog
        <5>2. form'.names = e.names /\ form'.error = form.error
          BY <3>2, <4>1 DEF IInv, TypeOK
        <5>3. \A f \in Field : e.names[f] \in Name
          BY <3>1, <4>1 DEF Kind, Sound
        <5>4. QED
          BY <2>1, <3>4, <5>1, <5>2, <5>3 DEF FormOK
      <4>2. CASE d \notin NameDialog
        <5>1. Mine(visitor.page) \in Holders \ {Holder(d)}
          BY <4>2, <2>2, MineIsHeld DEF Mine, Holder, NameDialog, LevelDialog
        <5>2. QED
          BY <2>1, <3>2, <3>4, <4>2, <5>1 DEF IInv, ScreenOK, FormOK
      <4>3. QED
        BY <4>1, <4>2
    <3>7. QED
      BY <2>1, <2>3, <2>4, <3>5, <3>6 DEF ScreenOK
  <2>6. CASE call[c].outcome # "ok"
    <3>1. UNCHANGED <<got, etagCookie, form>>
      BY <1>5, <2>6 DEF ReceiveCopy
    <3>2. QED
      BY <2>1, <2>3, <2>4, <3>1, ScreenKeeps
  <2>7. QED
    BY <2>5, <2>6
<1>6. CASE ReceiveResult(c) \/ Lose(c)
  <2>1. /\ RowsAdvance /\ NamesStayValid'
        /\ UNCHANGED <<etagCookie, visitor, view, got, form, dialog, confirm>>
        /\ call' = [call EXCEPT ![c] = NoCall]
    BY <1>6 DEF ReceiveResult, Lose, server, RowsAdvance, IInv, NamesStayValid
  <2>2. notices' = notices \/ visitor.page # "left"
    BY <1>1, <1>6 DEF ReceiveResult, Lose, CallOK
  <2>3. CallsOK'
    BY <2>1, NoCallOK, UpdateOK
  <2>4. DialogsOK'
    BY <1>2, <2>1, <2>2 DEF DialogsOK
  <2>5. QED
    BY <2>1, <2>3, <2>4, ScreenKeeps
<1>7. QED
  BY <1>3, <1>4, <1>5, <1>6 DEF Receive

LEMMA StepOK == IInv /\ [Next]_vars => IInv'
<1> SUFFICES ASSUME IInv, [Next]_vars PROVE IInv'
  OBVIOUS
<1>1. TypeOK'
  <2>1. ChangesOfDialogs
    BY SameCallsInOrder DEF ChangesOfDialogs, CallOK
  <2>2. QED
    BY <2>1, StepTypes DEF IInv
<1>2. CallsOK' /\ ScreenOK' /\ NamesStayValid'
  <2>1. CASE UNCHANGED vars
    BY <2>1 DEF vars, server, screen, IInv, NamesStayValid, CallsOK, ScreenOK, KeptOK,
                FormOK, DialogsOK
  <2>2. CASE PollForbidden
    BY <2>2, LeaveOK DEF PollForbidden
  <2>3. QED
    BY <2>1, <2>2, Steps, ServerOK, AnswerOK, DialogOK
<1>3. QED
  BY <1>1, <1>2 DEF IInv

\* Etags, kept copies, calls and the form never tell more of a row than is so.
THEOREM Inductive == Spec => []IInv
BY InitOK, StepOK, PTL DEF Spec

\* Every variable has its type.
THEOREM TypeCorrect == Spec => []TypeOK
<1>1. IInv => TypeOK
  BY DEF IInv
<1>2. QED
  BY <1>1, Inductive, PTL

\* No name that is empty or malformed is ever stored, whatever was typed in
\* whichever order the answers came.
THEOREM NamesAreValid == Spec => []NamesStayValid
<1>1. IInv => NamesStayValid
  BY DEF IInv
<1>2. QED
  BY <1>1, Inductive, PTL

\* A change of isEnable that the server accepts changes it.
THEOREM EnablingFlips == Spec => []EnableFlips
<1>1. ASSUME IInv PROVE EnableFlips
  <2> SUFFICES ASSUME NEW c \in Call, call[c].phase = "sent", call[c].method = "patch",
                      PreconditionHolds(c)
               PROVE  /\ call[c].by = "enable" => ~account.isEnable
                      /\ call[c].by = "disable" => account.isEnable
    BY DEF EnableFlips
  <2>1. ChangeOK(call[c])
        /\ (call[c].by \notin NameDialog => call[c].held.isEnable = account.isEnable)
    BY <1>1, PreconditionTells
  <2>2. QED
    BY <2>1 DEF ChangeOK, NameDialog
<1>2. QED
  BY <1>1, Inductive, PTL

-----------------------------------------------------------------------------
(* What happens to the changes under way *)

\* The server has been sent a change, and has not answered.
Live(r) == r.phase = "sent" /\ r.method = "patch"

SameChange(r, s) ==
    /\ Live(r) <=> Live(s)
    /\ Live(r) => r.by = s.by /\ r.etag = s.etag

ChangeEnds(c) == ~Live(call'[c])

ChangeStarts(c) ==
    /\ ~Live(call[c]) /\ Live(call'[c])
    /\ call'[c].by \in Dialog /\ call'[c].etag = PatchEtag(call'[c].by)

ChangesStep ==
    \/ \A b \in Call : SameChange(call[b], call'[b])
    \/ \E c \in Call : /\ ChangeEnds(c) \/ ChangeStarts(c)
                       /\ \A b \in Call \ {c} : SameChange(call[b], call'[b])

LEMMA SameIsSame == \A r : SameChange(r, r)
BY DEF SameChange

LEMMA UnheardIsSame ==
  ASSUME NEW r \in CallRecord
  PROVE  SameChange(r, Unheard(r))
<1>1. CASE Live(r)
  BY <1>1, UnheardFields, NoCallFields DEF SameChange, Live
<1>2. CASE ~Live(r)
  BY <1>2, NoCallFields DEF SameChange, Live, Unheard
<1>3. QED
  BY <1>1, <1>2

LEMMA OneChange ==
  ASSUME IInv, NEW c \in Call, NEW r, call' = [call EXCEPT ![c] = r],
         \/ ~Live(r)
         \/ ~Live(call[c]) /\ \E d \in Dialog : r = Patch(d)
  PROVE  ChangesStep
<1>1. call'[c] = r /\ \A b \in Call \ {c} : call'[b] = call[b]
  BY SameCallsInOrder
<1>2. CASE ~Live(r)
  BY <1>1, <1>2, SameIsSame DEF ChangesStep, ChangeEnds
<1>3. ASSUME ~Live(call[c]), NEW d \in Dialog, r = Patch(d)
      PROVE  ChangesStep
  <2>1. /\ Patch(d).phase = "sent" /\ Patch(d).method = "patch"
        /\ Patch(d).by = d /\ Patch(d).etag = PatchEtag(d)
    BY PatchFields DEF IInv
  <2>2. ChangeStarts(c)
    BY <1>1, <1>3, <2>1 DEF ChangeStarts, Live
  <2>3. QED
    BY <1>1, <2>2, SameIsSame DEF ChangesStep
<1>4. QED
  BY <1>2, <1>3

LEMMA FreeIsNotLive ==
  \A c : Free(c) => ~Live(call[c])
BY NoCallFields DEF Free, Live

LEMMA ReloadStep ==
  ASSUME IInv, NEW calls \in [Call -> CallRecord], ReloadAfter(calls),
         \/ calls = call
         \/ \E b \in Call :
              ~Live(call[b]) /\ \E d \in Dialog : calls = [call EXCEPT ![b] = Patch(d)]
  PROVE  ChangesStep
<1>1. PICK c \in Call : /\ Unheard(calls[c]) = NoCall
                        /\ call' = [Unloaded(calls) EXCEPT ![c] = Get("page")]
  BY UnloadedIsUnheard DEF ReloadAfter
<1>2. \A b \in Call : call'[b] = IF b = c THEN Get("page") ELSE Unheard(calls[b])
  BY <1>1, UnloadedIsUnheard
<1>3. \A b \in Call : SameChange(calls[b], Unheard(calls[b]))
  BY UnheardIsSame
<1>4. ~Live(NoCall) /\ ~Live(Get("page"))
  BY NoCallFields, GetFields DEF Live
<1>5. \A b \in Call : SameChange(calls[b], call'[b])
  BY <1>1, <1>2, <1>3, <1>4 DEF SameChange
<1>6. CASE calls = call
  BY <1>5, <1>6 DEF ChangesStep
<1>7. ASSUME NEW b \in Call, ~Live(call[b]), NEW d \in Dialog,
             calls = [call EXCEPT ![b] = Patch(d)]
      PROVE  ChangesStep
  <2>1. calls[b] = Patch(d) /\ \A a \in Call \ {b} : calls[a] = call[a]
    BY <1>7, SameCallsInOrder
  <2>2. /\ Patch(d).phase = "sent" /\ Patch(d).method = "patch"
        /\ Patch(d).by = d /\ Patch(d).etag = PatchEtag(d)
    BY PatchFields DEF IInv
  <2>3. ChangeStarts(b)
    BY <1>5, <1>7, <2>1, <2>2 DEF ChangeStarts, SameChange, Live
  <2>4. QED
    BY <1>5, <2>1, <2>3 DEF ChangesStep
<1>8. QED
  BY <1>6, <1>7

LEMMA LeaveStep == IInv /\ Leave => ChangesStep
BY SameCallsInOrder, UnloadedIsUnheard, UnheardIsSame DEF Leave, ChangesStep

LEMMA ServeStep ==
  ASSUME IInv, NEW c \in Call, NEW outcome, NEW etag, NEW shown,
         Serve(c, outcome, etag, shown)
  PROVE  ChangesStep /\ ChangeEnds(c)
         /\ \A b \in Call \ {c} : call'[b] = call[b]
<1>1. call' = [call EXCEPT ![c] = Served(call[c], outcome, etag, shown)]
  BY ServeIsReply
<1>2. ~Live(Served(call[c], outcome, etag, shown))
  BY ReplyFields, NoCallFields DEF Served, Live
<1>3. QED
  BY <1>1, <1>2, OneChange, SameCallsInOrder DEF ChangeEnds

\* A step of the page leaves the rows alone and starts or ends one change.
PageStep == ChangesStep /\ UNCHANGED server

LEMMA DialogStep ==
  ASSUME IInv, NEW d \in Dialog, EditNames(d) \/ EditValue(d)
  PROVE  PageStep
<1>1. UNCHANGED <<server, call>> => PageStep
  BY SameIsSame DEF PageStep, ChangesStep
<1>2. ReloadAfter(call) => PageStep
  BY ReloadStep, SameCallsInOrder DEF PageStep, ReloadAfter
<1>3. CASE HandleClickOpen(d)
  <2>1. PICK c \in Call : call' = [call EXCEPT ![c] = Get(d)]
    BY <1>3, Zenon DEF HandleClickOpen
  <2>2. ~Live(Get(d))
    BY GetFields DEF Live
  <2>3. QED
    BY <1>3, <2>1, <2>2, OneChange DEF PageStep, HandleClickOpen
<1>4. CASE HandleConfirmConfirm(d)
  <2>1. UNCHANGED server
    BY <1>4 DEF HandleConfirmConfirm
  <2>2. CASE UNCHANGED call
    BY <1>1, <2>1, <2>2
  <2>3. ASSUME NEW c \in Call, Free(c), call' = [call EXCEPT ![c] = Patch(d)]
        PROVE  PageStep
    BY <2>1, <2>3, FreeIsNotLive, OneChange DEF PageStep
  <2>4. ASSUME NEW c \in Call, Free(c), ReloadAfter([call EXCEPT ![c] = Patch(d)])
        PROVE  PageStep
    <3>1. [call EXCEPT ![c] = Patch(d)] \in [Call -> CallRecord]
      BY SameCallsInOrder, PatchFields DEF IInv
    <3>2. QED
      BY <2>1, <2>4, <3>1, FreeIsNotLive, ReloadStep DEF PageStep
  <2>5. QED
    BY <1>4, <2>2, <2>3, <2>4, Zenon DEF HandleConfirmConfirm
<1>5. CASE HandleClose(d) \/ \E n \in notices : CloseNotice(n)
  BY <1>1, <1>2, <1>5 DEF HandleClose, CloseNotice
<1>6. CASE \/ HandleInput(d) \/ HandleConfirm(d) \/ HandleConfirmClose(d)
           \/ \E f \in Field, t \in Text : HandleNameChange(d, f, t)
  BY <1>1, <1>6 DEF HandleInput, HandleConfirm, HandleConfirmClose, HandleNameChange
<1>7. QED
  BY <1>3, <1>4, <1>5, <1>6 DEF EditNames, EditValue, ConfirmedDialog

LEMMA AnswerStep ==
  ASSUME IInv, NEW c \in Call, Receive(c)
  PROVE  PageStep
<1>1. ~Live(NoCall) /\ ~Live(Get("personalData")) /\ ~Live(Get("ownPersonalData"))
  BY NoCallFields, GetFields DEF Live, Dialog, NameDialog
<1>2. CASE ReceiveView(c)
  <2>1. PICK d \in NameDialog : call' = [call EXCEPT ![c] = Get(d)]
    BY <1>2 DEF ReceiveView, NameDialog
  <2>2. QED
    BY <1>1, <1>2, <2>1, OneChange DEF PageStep, ReceiveView, NameDialog
<1>3. CASE ReceiveNoView(c)
  BY <1>3, LeaveStep DEF ReceiveNoView, Leave, PageStep
<1>4. CASE ReceiveCopy(c) \/ ReceiveResult(c) \/ Lose(c)
  BY <1>1, <1>4, OneChange DEF PageStep, ReceiveCopy, ReceiveResult, Lose
<1>5. QED
  BY <1>2, <1>3, <1>4 DEF Receive

\* A step of the server that writes is an accepted change or somebody else's.
LEMMA ServerWrites ==
  ASSUME IInv, NEW c \in Call, ServerStep(c)
  PROVE  Accept(c) \/ PageStep
BY ServeStep DEF ServerStep, AnswerGet, Reject, Forbid, PageStep

LEMMA StepKinds ==
  ASSUME IInv, [Next]_vars
  PROVE  \/ PageStep
         \/ \E c \in Call : Accept(c)
         \/ ChangeAccount \/ ChangePersonal
<1>1. CASE UNCHANGED vars
  BY <1>1, SameIsSame DEF vars, PageStep, ChangesStep
<1>2. CASE PollForbidden
  BY <1>2, LeaveStep DEF PollForbidden, Leave, PageStep
<1>3. QED
  BY <1>1, <1>2, Steps, ServerWrites, AnswerStep, DialogStep

\* A name that was not typed is stored as it was.
THEOREM OnlyTypedChange == Spec => OnlyTypedFieldsChange
<1>1. ASSUME IInv, [Next]_vars, NEW c \in Call, Accepted(c, NameDialog)
      PROVE  \A f \in Field \ call[c].typed : personal'.names[f] = personal.names[f]
  <2>1. account' # account \/ personal' # personal
    BY <1>1 DEF Accepted
  <2>2. call' # call
    BY <1>1 DEF Accepted
  <2>3. PICK b \in Call : Accept(b)
    BY <1>1, <2>1, <2>2, StepKinds DEF PageStep, server, ChangeAccount, ChangePersonal
  <2>4. b = c
    <3>1. \A a \in Call \ {b} : call'[a] = call[a]
      BY <1>1, <2>3, ServeStep DEF Accept
    <3>2. QED
      BY <1>1, <3>1 DEF Accepted
  <2>5. call[c].by \in NameDialog
    BY <1>1 DEF Accepted
  <2>6. personal'.names = call[c].names
    BY <2>3, <2>4, <2>5 DEF Accept, WritePersonal, LevelDialog, NameDialog
  <2>7. ChangeOK(call[c]) /\ call[c].held.names = personal.names
    BY <1>1, <2>3, <2>4, <2>5, PreconditionTells DEF Accept
  <2>8. QED
    BY <2>5, <2>6, <2>7 DEF ChangeOK
<1>2. IInv /\ [Next]_vars =>
        [\A c \in Call : Accepted(c, NameDialog) =>
           \A f \in Field \ call[c].typed :
             personal'.names[f] = personal.names[f]]_vars
  BY <1>1
<1>3. QED
  BY <1>2, Inductive, PTL DEF Spec, OnlyTypedFieldsChange

-----------------------------------------------------------------------------
(* The page implements ConditionalWrites *)

\* What the row of the account is told by a call.
AccountSeen(r) ==
    IF Live(r) /\ r.by \in Dialog \ NameDialog
    THEN IF r.etag.of = "account"
         THEN [content |-> r.etag.isEnable, version |-> r.etag.version]
         ELSE AccountRow!Blind
    ELSE AccountRow!Nothing

AccountState   == [content |-> account.isEnable, version |-> account.version]
AccountPending == Pending(Dialog \ NameDialog, "account", Flag)

LEMMA AccountMapping ==
  /\ AccountPending = [c \in Call |-> AccountSeen(call[c])]
  /\ AccountPending' = [c \in Call |-> AccountSeen(call'[c])]
BY DEF AccountPending, AccountSeen, Pending, Flag, Live, AccountRow!Blind, AccountRow!Nothing

\* The abstract actions, about the row and what has been seen of it.
LEMMA AccountStutter ==
  AccountState' = AccountState /\ AccountPending' = AccountPending
    => UNCHANGED AccountRow!vars
BY DEF AccountRow!vars, AccountState, AccountPending, Pending, Flag

LEMMA AccountRefuse ==
  ASSUME NEW c, AccountState' = AccountState,
         AccountPending[c] # AccountRow!Nothing,
         AccountPending' = [AccountPending EXCEPT ![c] = AccountRow!Nothing]
  PROVE  AccountRow!Refuse(c)
BY SMTT(20) DEF AccountRow!Refuse, AccountState, AccountPending, Pending, Flag

LEMMA AccountAsk ==
  ASSUME NEW c, AccountState' = AccountState,
         AccountPending[c] = AccountRow!Nothing,
         AccountPending'[c] # AccountRow!Nothing,
         \/ AccountPending'[c] = AccountRow!Blind
         \/ /\ AccountPending'[c] \in AccountRow!RowState
            /\ AccountRow!SameIfSameVersion(AccountPending'[c], AccountState),
         AccountPending' = [AccountPending EXCEPT ![c] = AccountPending'[c]]
  PROVE  AccountRow!Ask(c)
BY SMTT(20) DEF AccountRow!Ask, AccountState, AccountPending, Pending, Flag

LEMMA AccountWrite ==
  ASSUME NEW c, AccountPending[c] = AccountState,
         AccountState'.version = NextVersion(AccountState),
         AccountState' \in [content : BOOLEAN, version : Nat],
         AccountPending' = [AccountPending EXCEPT ![c] = AccountRow!Nothing]
  PROVE  AccountRow!Write(c)
BY SMTT(20) DEF AccountRow!Write, AccountRow!Rewritten, AccountRow!RowState,
               AccountRow!NextVersion, NextVersion,
               AccountState, AccountPending, Pending, Flag

LEMMA AccountOthers ==
  ASSUME AccountState'.version = NextVersion(AccountState),
         AccountState' \in [content : BOOLEAN, version : Nat],
         AccountPending' = AccountPending
  PROVE  AccountRow!WriteByOthers
BY SMTT(20) DEF AccountRow!WriteByOthers, AccountRow!Rewritten, AccountRow!RowState,
               AccountRow!NextVersion, NextVersion,
               AccountState, AccountPending, Pending, Flag

LEMMA AccountSame == \A r, s : SameChange(r, s) => AccountSeen(r) = AccountSeen(s)
BY DEF SameChange, AccountSeen

\* A step of the page is one change more or less, or none.
LEMMA AccountPageStep ==
  ASSUME IInv, ChangesStep, account' = account
  PROVE  \/ \E c \in Call : AccountRow!Ask(c) \/ AccountRow!Refuse(c)
         \/ UNCHANGED AccountRow!vars
<1> USE AccountMapping
<1>1. AccountState' = AccountState
  BY DEF AccountState
<1>2. CASE \A b \in Call : AccountSeen(call'[b]) = AccountSeen(call[b])
  <2>1. AccountPending' = AccountPending
    BY <1>2
  <2>2. QED
    BY <1>1, <2>1, AccountStutter
<1>3. ASSUME NEW c \in Call, AccountSeen(call'[c]) # AccountSeen(call[c]),
             ChangeEnds(c) \/ ChangeStarts(c),
             \A b \in Call \ {c} : SameChange(call[b], call'[b])
      PROVE  AccountRow!Ask(c) \/ AccountRow!Refuse(c)
  <2>1. AccountPending' = [AccountPending EXCEPT ![c] = AccountPending'[c]]
    BY <1>3, AccountSame
  <2>2. CASE ChangeEnds(c)
    <3>1. AccountPending'[c] = AccountRow!Nothing
      BY <2>2 DEF ChangeEnds, AccountSeen
    <3>2. AccountPending[c] # AccountRow!Nothing
      BY <1>3, <3>1
    <3>3. AccountPending' = [AccountPending EXCEPT ![c] = AccountRow!Nothing]
      BY <2>1, <3>1
    <3>4. QED
      BY <1>1, <3>2, <3>3, AccountRefuse
  <2>3. CASE ChangeStarts(c)
    <3>1. AccountPending[c] = AccountRow!Nothing /\ AccountPending'[c] # AccountRow!Nothing
      BY <1>3, <2>3 DEF ChangeStarts, AccountSeen
    <3> DEFINE e == call'[c].etag
    <3>2. Sound(e, account, personal) /\ e \in Etag
      <4>1. PICK d \in Dialog : e = PatchEtag(d)
        BY <2>3 DEF ChangeStarts
      <4>2. QED
        BY <4>1, HolderType DEF PatchEtag, IInv, TypeOK, ScreenOK, KeptOK
    <3>3. CASE e.of # "account"
      <4>1. AccountPending'[c] = AccountRow!Blind
        BY <3>1, <3>3 DEF AccountSeen
      <4>2. QED
        BY <1>1, <2>1, <3>1, <4>1, AccountAsk
    <3>4. CASE e.of = "account"
      <4>1. AccountPending'[c] = [content |-> e.isEnable, version |-> e.version]
        BY <3>1, <3>4 DEF AccountSeen
      <4>2. /\ e.isEnable \in BOOLEAN /\ e.version \in Nat
            /\ e.version <= account.version
            /\ e.version = account.version => e.isEnable = account.isEnable
        BY <3>2, <3>4, PageAssumption DEF Sound, Etag
      <4>3. AccountPending'[c] \in AccountRow!RowState
        BY <4>1, <4>2 DEF AccountRow!RowState
      <4>4. AccountRow!SameIfSameVersion(AccountPending'[c], AccountState)
        BY <4>1, <4>2 DEF AccountRow!SameIfSameVersion, AccountState
      <4>5. QED
        BY <1>1, <2>1, <3>1, <4>3, <4>4, AccountAsk
    <3>5. QED
      BY <3>3, <3>4
  <2>4. QED
    BY <1>3, <2>2, <2>3
<1>4. QED
  BY <1>2, <1>3, AccountSame DEF ChangesStep

LEMMA AccountAcceptStep ==
  ASSUME IInv, NEW c \in Call, Accept(c)
  PROVE  \/ \E b \in Call : AccountRow!Ask(b) \/ AccountRow!Write(b) \/ AccountRow!Refuse(b)
         \/ UNCHANGED AccountRow!vars
<1>1. ChangesStep /\ ChangeEnds(c) /\ \A b \in Call \ {c} : call'[b] = call[b]
  BY ServeStep DEF Accept
<1>2. CASE account' = account
  BY <1>1, <1>2, AccountPageStep
<1>3. CASE account' # account
  <2> DEFINE d == call[c].by
             e == call[c].etag
  <2>1. /\ Live(call[c]) /\ d \in Dialog \ NameDialog
        /\ EtagMatches(c) /\ WriteAccount(d)
    BY <1>3, PreconditionTells DEF Accept, Live, PreconditionHolds
  <2>2. e = AccountEtag
    BY <2>1 DEF EtagMatches, EtagFor
  <2>3. e.of = "account" /\ e.isEnable = account.isEnable /\ e.version = account.version
    BY <2>2 DEF AccountEtag
  <2>4. AccountPending[c] = AccountState
    BY <2>1, <2>3, AccountMapping DEF AccountSeen, AccountState
  <2>5. AccountPending' = [AccountPending EXCEPT ![c] = AccountRow!Nothing]
    BY <1>1, AccountMapping DEF ChangeEnds, AccountSeen
  <2>6. /\ account'.version = account.version + 1 /\ account'.isEnable \in BOOLEAN
        /\ account.version \in Nat
    <3>1. account.isEnable \in BOOLEAN /\ account.version \in Nat
      BY PageAssumption DEF IInv, TypeOK
    <3>2. NewFlag(d) \in BOOLEAN
      BY <3>1 DEF NewFlag
    <3>3. account' = [isEnable |-> NewFlag(d), version |-> NextVersion(account)]
      BY <1>3, <2>1 DEF WriteAccount
    <3>4. QED
      BY <3>1, <3>2, <3>3 DEF NextVersion
  <2>7. AccountState' \in [content : BOOLEAN, version : Nat]
        /\ AccountState'.version = NextVersion(AccountState)
    BY <2>6 DEF AccountState, NextVersion
  <2>8. QED
    BY <2>4, <2>5, <2>7, AccountWrite
<1>4. QED
  BY <1>2, <1>3

\* The row of the account is written, by any dialog of the page, only while it is
\* as the user has seen it: AccountPage implements ConditionalWrites.
THEOREM AccountImplements == Spec => AccountWrittenAsSeen
<1>1. Init => AccountRow!Init
  <2> SUFFICES ASSUME Init PROVE AccountRow!Init
    OBVIOUS
  <2>1. \A c \in Call : AccountSeen(call[c]) = AccountRow!Nothing
    <3>1. ~Live(NoCall) /\ ~Live(Get("page"))
      BY NoCallFields, GetFields DEF Live
    <3>2. \A c \in Call : call[c] \in {NoCall, Get("page")}
      BY DEF Init
    <3>3. QED
      BY <3>1, <3>2 DEF AccountSeen
  <2>2. AccountPending = [c \in Call |-> AccountRow!Nothing]
    BY <2>1, AccountMapping
  <2>3. AccountState \in [content : BOOLEAN, version : {0}]
    BY DEF Init, AccountState
  <2>4. QED
    BY <2>2, <2>3 DEF AccountRow!Init, AccountPending, AccountState, Pending, Flag
<1>2. IInv /\ [Next]_vars => [AccountRow!Next]_(AccountRow!vars)
  <2> SUFFICES ASSUME IInv, [Next]_vars
               PROVE  AccountRow!Next \/ UNCHANGED AccountRow!vars
    OBVIOUS
  <2>1. CASE PageStep
    <3>1. ChangesStep /\ account' = account
      BY <2>1 DEF PageStep, server
    <3>2. QED
      BY <3>1, AccountPageStep DEF AccountRow!Next
  <2>2. CASE \E c \in Call : Accept(c)
    BY <2>2, AccountAcceptStep DEF AccountRow!Next
  <2>3. CASE ChangeAccount
    <3>1. call' = call
      BY <2>3 DEF ChangeAccount
    <3>2. AccountPending' = AccountPending
      BY <3>1, AccountMapping
    <3>3. /\ account'.version = account.version + 1 /\ account'.isEnable \in BOOLEAN
          /\ account.version \in Nat
      BY <2>3, PageAssumption DEF ChangeAccount, NextVersion, IInv, TypeOK
    <3>4. AccountState' \in [content : BOOLEAN, version : Nat]
          /\ AccountState'.version = NextVersion(AccountState)
      BY <3>3 DEF AccountState, NextVersion
    <3>5. QED
      BY <3>2, <3>4, AccountOthers DEF AccountRow!Next
  <2>4. CASE ChangePersonal
    <3>1. call' = call /\ account' = account
      BY <2>4 DEF ChangePersonal
    <3>2. AccountPending' = AccountPending /\ AccountState' = AccountState
      BY <3>1, AccountMapping DEF AccountState
    <3>3. QED
      BY <3>2, AccountStutter
  <2>5. QED
    BY <2>1, <2>2, <2>3, <2>4, StepKinds
<1>3. QED
  BY <1>1, <1>2, Inductive, PTL DEF Spec, AccountWrittenAsSeen, AccountRow!Spec

-----------------------------------------------------------------------------
(* The same of the names *)
NamesSeen(r) ==
    IF Live(r) /\ r.by \in NameDialog
    THEN IF r.etag.of = "personal"
         THEN [content |-> r.etag.names, version |-> r.etag.version]
         ELSE PersonalRow!Blind
    ELSE PersonalRow!Nothing

NamesState   == [content |-> personal.names, version |-> personal.version]
NamesPending == Pending(NameDialog, "personal", Names)

LEMMA NamesMapping ==
  /\ NamesPending = [c \in Call |-> NamesSeen(call[c])]
  /\ NamesPending' = [c \in Call |-> NamesSeen(call'[c])]
BY DEF NamesPending, NamesSeen, Pending, Names, Live, PersonalRow!Blind, PersonalRow!Nothing

\* The abstract actions, about the row and what has been seen of it.
LEMMA NamesStutter ==
  NamesState' = NamesState /\ NamesPending' = NamesPending
    => UNCHANGED PersonalRow!vars
BY DEF PersonalRow!vars, NamesState, NamesPending, Pending, Names

LEMMA NamesRefuse ==
  ASSUME NEW c, NamesState' = NamesState,
         NamesPending[c] # PersonalRow!Nothing,
         NamesPending' = [NamesPending EXCEPT ![c] = PersonalRow!Nothing]
  PROVE  PersonalRow!Refuse(c)
BY SMTT(20) DEF PersonalRow!Refuse, NamesState, NamesPending, Pending, Names

LEMMA NamesAsk ==
  ASSUME NEW c, NamesState' = NamesState,
         NamesPending[c] = PersonalRow!Nothing,
         NamesPending'[c] # PersonalRow!Nothing,
         \/ NamesPending'[c] = PersonalRow!Blind
         \/ /\ NamesPending'[c] \in PersonalRow!RowState
            /\ PersonalRow!SameIfSameVersion(NamesPending'[c], NamesState),
         NamesPending' = [NamesPending EXCEPT ![c] = NamesPending'[c]]
  PROVE  PersonalRow!Ask(c)
BY SMTT(20) DEF PersonalRow!Ask, NamesState, NamesPending, Pending, Names

LEMMA NamesWrite ==
  ASSUME NEW c, NamesPending[c] = NamesState,
         NamesState'.version = NextVersion(NamesState),
         NamesState' \in [content : [Field -> Text], version : Nat],
         NamesPending' = [NamesPending EXCEPT ![c] = PersonalRow!Nothing]
  PROVE  PersonalRow!Write(c)
BY SMTT(20) DEF PersonalRow!Write, PersonalRow!Rewritten, PersonalRow!RowState,
               PersonalRow!NextVersion, NextVersion,
               NamesState, NamesPending, Pending, Names

LEMMA NamesOthers ==
  ASSUME NamesState'.version = NextVersion(NamesState),
         NamesState' \in [content : [Field -> Text], version : Nat],
         NamesPending' = NamesPending
  PROVE  PersonalRow!WriteByOthers
BY SMTT(20) DEF PersonalRow!WriteByOthers, PersonalRow!Rewritten, PersonalRow!RowState,
               PersonalRow!NextVersion, NextVersion,
               NamesState, NamesPending, Pending, Names

LEMMA NamesSame == \A r, s : SameChange(r, s) => NamesSeen(r) = NamesSeen(s)
BY DEF SameChange, NamesSeen

\* A step of the page is one change more or less, or none.
LEMMA NamesPageStep ==
  ASSUME IInv, ChangesStep, personal' = personal
  PROVE  \/ \E c \in Call : PersonalRow!Ask(c) \/ PersonalRow!Refuse(c)
         \/ UNCHANGED PersonalRow!vars
<1> USE NamesMapping
<1>1. NamesState' = NamesState
  BY DEF NamesState
<1>2. CASE \A b \in Call : NamesSeen(call'[b]) = NamesSeen(call[b])
  <2>1. NamesPending' = NamesPending
    BY <1>2
  <2>2. QED
    BY <1>1, <2>1, NamesStutter
<1>3. ASSUME NEW c \in Call, NamesSeen(call'[c]) # NamesSeen(call[c]),
             ChangeEnds(c) \/ ChangeStarts(c),
             \A b \in Call \ {c} : SameChange(call[b], call'[b])
      PROVE  PersonalRow!Ask(c) \/ PersonalRow!Refuse(c)
  <2>1. NamesPending' = [NamesPending EXCEPT ![c] = NamesPending'[c]]
    BY <1>3, NamesSame
  <2>2. CASE ChangeEnds(c)
    <3>1. NamesPending'[c] = PersonalRow!Nothing
      BY <2>2 DEF ChangeEnds, NamesSeen
    <3>2. NamesPending[c] # PersonalRow!Nothing
      BY <1>3, <3>1
    <3>3. NamesPending' = [NamesPending EXCEPT ![c] = PersonalRow!Nothing]
      BY <2>1, <3>1
    <3>4. QED
      BY <1>1, <3>2, <3>3, NamesRefuse
  <2>3. CASE ChangeStarts(c)
    <3>1. NamesPending[c] = PersonalRow!Nothing /\ NamesPending'[c] # PersonalRow!Nothing
      BY <1>3, <2>3 DEF ChangeStarts, NamesSeen
    <3> DEFINE e == call'[c].etag
    <3>2. Sound(e, account, personal) /\ e \in Etag
      <4>1. PICK d \in Dialog : e = PatchEtag(d)
        BY <2>3 DEF ChangeStarts
      <4>2. QED
        BY <4>1, HolderType DEF PatchEtag, IInv, TypeOK, ScreenOK, KeptOK
    <3>3. CASE e.of # "personal"
      <4>1. NamesPending'[c] = PersonalRow!Blind
        BY <3>1, <3>3 DEF NamesSeen
      <4>2. QED
        BY <1>1, <2>1, <3>1, <4>1, NamesAsk
    <3>4. CASE e.of = "personal"
      <4>1. NamesPending'[c] = [content |-> e.names, version |-> e.version]
        BY <3>1, <3>4 DEF NamesSeen
      <4>2. /\ e.names \in [Field -> Text] /\ e.version \in Nat
            /\ e.version <= personal.version
            /\ e.version = personal.version => e.names = personal.names
        BY <3>2, <3>4, PageAssumption DEF Sound, Etag
      <4>3. NamesPending'[c] \in PersonalRow!RowState
        BY <4>1, <4>2 DEF PersonalRow!RowState
      <4>4. PersonalRow!SameIfSameVersion(NamesPending'[c], NamesState)
        BY <4>1, <4>2 DEF PersonalRow!SameIfSameVersion, NamesState
      <4>5. QED
        BY <1>1, <2>1, <3>1, <4>3, <4>4, NamesAsk
    <3>5. QED
      BY <3>3, <3>4
  <2>4. QED
    BY <1>3, <2>2, <2>3
<1>4. QED
  BY <1>2, <1>3, NamesSame DEF ChangesStep

LEMMA NamesAcceptStep ==
  ASSUME IInv, NEW c \in Call, Accept(c)
  PROVE  \/ \E b \in Call : PersonalRow!Ask(b) \/ PersonalRow!Write(b) \/ PersonalRow!Refuse(b)
         \/ UNCHANGED PersonalRow!vars
<1>1. ChangesStep /\ ChangeEnds(c) /\ \A b \in Call \ {c} : call'[b] = call[b]
  BY ServeStep DEF Accept
<1>2. CASE personal' = personal
  BY <1>1, <1>2, NamesPageStep
<1>3. CASE personal' # personal
  <2> DEFINE d == call[c].by
             e == call[c].etag
  <2>1. /\ Live(call[c]) /\ d \in NameDialog
        /\ EtagMatches(c) /\ WritePersonal(call[c].names)
    BY <1>3, PreconditionTells DEF Accept, Live, PreconditionHolds
  <2>2. e = PersonalEtag
    BY <2>1 DEF EtagMatches, EtagFor
  <2>3. e.of = "personal" /\ e.names = personal.names /\ e.version = personal.version
    BY <2>2 DEF PersonalEtag
  <2>4. NamesPending[c] = NamesState
    BY <2>1, <2>3, NamesMapping DEF NamesSeen, NamesState
  <2>5. NamesPending' = [NamesPending EXCEPT ![c] = PersonalRow!Nothing]
    BY <1>1, NamesMapping DEF ChangeEnds, NamesSeen
  <2>6. /\ personal'.version = personal.version + 1 /\ personal'.names \in [Field -> Text]
        /\ personal.version \in Nat
    <3>1. personal.names \in [Field -> Text] /\ personal.version \in Nat
      BY PageAssumption DEF IInv, TypeOK
    <3>2. call[c].names \in [Field -> Text]
      BY SameCallsInOrder DEF CallRecord
    <3>3. personal' = [names |-> call[c].names, version |-> NextVersion(personal)]
      BY <1>3, <2>1 DEF WritePersonal
    <3>4. QED
      BY <3>1, <3>2, <3>3 DEF NextVersion
  <2>7. NamesState' \in [content : [Field -> Text], version : Nat]
        /\ NamesState'.version = NextVersion(NamesState)
    BY <2>6 DEF NamesState, NextVersion
  <2>8. QED
    BY <2>4, <2>5, <2>7, NamesWrite
<1>4. QED
  BY <1>2, <1>3

\* The names are written only while they are as the user has seen them.
THEOREM NamesImplement == Spec => NamesWrittenAsSeen
<1>1. Init => PersonalRow!Init
  <2> SUFFICES ASSUME Init PROVE PersonalRow!Init
    OBVIOUS
  <2>1. \A c \in Call : NamesSeen(call[c]) = PersonalRow!Nothing
    <3>1. ~Live(NoCall) /\ ~Live(Get("page"))
      BY NoCallFields, GetFields DEF Live
    <3>2. \A c \in Call : call[c] \in {NoCall, Get("page")}
      BY DEF Init
    <3>3. QED
      BY <3>1, <3>2 DEF NamesSeen
  <2>2. NamesPending = [c \in Call |-> PersonalRow!Nothing]
    BY <2>1, NamesMapping
  <2>3. NamesState \in [content : [Field -> Text], version : {0}]
    BY DEF Init, NamesState, Text
  <2>4. QED
    BY <2>2, <2>3 DEF PersonalRow!Init, NamesPending, NamesState, Pending, Names
<1>2. IInv /\ [Next]_vars => [PersonalRow!Next]_(PersonalRow!vars)
  <2> SUFFICES ASSUME IInv, [Next]_vars
               PROVE  PersonalRow!Next \/ UNCHANGED PersonalRow!vars
    OBVIOUS
  <2>1. CASE PageStep
    <3>1. ChangesStep /\ personal' = personal
      BY <2>1 DEF PageStep, server
    <3>2. QED
      BY <3>1, NamesPageStep DEF PersonalRow!Next
  <2>2. CASE \E c \in Call : Accept(c)
    BY <2>2, NamesAcceptStep DEF PersonalRow!Next
  <2>3. CASE ChangePersonal
    <3>1. call' = call
      BY <2>3 DEF ChangePersonal
    <3>2. NamesPending' = NamesPending
      BY <3>1, NamesMapping
    <3>3. /\ personal'.version = personal.version + 1 /\ personal'.names \in [Field -> Text]
          /\ personal.version \in Nat
      <4>1. OtherNames \subseteq [Field -> Text]
        BY PageAssumption DEF Field, Text
      <4>2. personal.version \in Nat
        BY PageAssumption DEF IInv, TypeOK
      <4>3. QED
        BY <2>3, <4>1, <4>2 DEF ChangePersonal, NextVersion
    <3>4. NamesState' \in [content : [Field -> Text], version : Nat]
          /\ NamesState'.version = NextVersion(NamesState)
      BY <3>3 DEF NamesState, NextVersion
    <3>5. QED
      BY <3>2, <3>4, NamesOthers DEF PersonalRow!Next
  <2>4. CASE ChangeAccount
    <3>1. call' = call /\ personal' = personal
      BY <2>4 DEF ChangeAccount
    <3>2. NamesPending' = NamesPending /\ NamesState' = NamesState
      BY <3>1, NamesMapping DEF NamesState
    <3>3. QED
      BY <3>2, NamesStutter
  <2>5. QED
    BY <2>1, <2>2, <2>3, <2>4, StepKinds
<1>3. QED
  BY <1>1, <1>2, Inductive, PTL DEF Spec, NamesWrittenAsSeen, PersonalRow!Spec
=============================================================================
