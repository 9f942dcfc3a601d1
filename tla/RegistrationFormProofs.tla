----------------------- MODULE RegistrationFormProofs -----------------------
(***************************************************************************)
(* What RegistrationForm guarantees for any fields and texts and any       *)
(* number of calls under way.                                              *)
(***************************************************************************)
EXTENDS RegistrationForm, SequenceTheorems, TLAPS

-----------------------------------------------------------------------------
(* The stack of dialogs *)

LEMMA EmptyStack ==
  /\ <<>> \in Seq(Dialog) /\ IsInjective(<<>>) /\ ToSet(<<>>) = {}
BY DEF IsInjective, ToSet

LEMMA OneDialog ==
  ASSUME NEW d \in Dialog
  PROVE  /\ <<d>> \in Seq(Dialog) /\ IsInjective(<<d>>) /\ ToSet(<<d>>) = {d}
         /\ Head(<<d>>) = d
BY DEF IsInjective, ToSet

\* The dialog on top is one of those that are open.
LEMMA HeadIsOpen ==
  ASSUME NEW s \in Seq(Dialog), s # <<>>
  PROVE  Head(s) \in ToSet(s)
BY DEF ToSet

\* A dialog is opened on top, or is open already.
LEMMA OpenStack ==
  ASSUME NEW d \in Dialog, dialog \in Seq(Dialog), IsInjective(dialog)
  PROVE  /\ Open(d) \in Seq(Dialog) /\ IsInjective(Open(d))
         /\ ToSet(Open(d)) = ToSet(dialog) \cup {d}
         /\ IF d \in ToSet(dialog) THEN Open(d) = dialog ELSE Head(Open(d)) = d
<1>1. CASE d \in ToSet(dialog)
  BY <1>1 DEF Open
<1>2. CASE d \notin ToSet(dialog)
  <2> DEFINE s == <<d>> \o dialog
  <2>1. /\ s \in Seq(Dialog) /\ Len(s) = Len(dialog) + 1
        /\ \A i \in 1 .. Len(dialog) + 1 :
             s[i] = IF i = 1 THEN d ELSE dialog[i - 1]
    <3>1. <<d>> \in Seq(Dialog) /\ Len(<<d>>) = 1 /\ <<d>>[1] = d
      OBVIOUS
    <3>2. QED
      BY <3>1, ConcatProperties
  <2>2. Len(dialog) \in Nat /\ DOMAIN dialog = 1..Len(dialog)
    BY LenProperties
  <2>3. DOMAIN s = 1..(Len(dialog) + 1)
    BY <2>1, LenProperties
  <2> HIDE DEF s
  <2>4. \A i \in DOMAIN dialog : dialog[i] # d
    BY <1>2 DEF ToSet
  <2>5. IsInjective(s)
    <3> SUFFICES ASSUME NEW i \in DOMAIN s, NEW j \in DOMAIN s, s[i] = s[j]
                 PROVE  i = j
      BY DEF IsInjective
    <3>0. ASSUME NEW k \in DOMAIN s, k # 1 PROVE s[k] # d
      <4>1. k - 1 \in DOMAIN dialog /\ s[k] = dialog[k - 1]
        BY <2>1, <2>2, <2>3, <3>0
      <4>2. QED
        BY <2>4, <4>1
    <3>1. CASE i = 1 \/ j = 1
      <4>1. 1 \in DOMAIN s /\ s[1] = d
        BY <2>1, <2>2, <2>3
      <4>2. QED
        BY <3>0, <3>1, <4>1
    <3>2. CASE i # 1 /\ j # 1
      <4>1. i - 1 \in DOMAIN dialog /\ j - 1 \in DOMAIN dialog
        BY <2>2, <2>3, <3>2
      <4>2. dialog[i - 1] = dialog[j - 1]
        BY <2>1, <2>3, <3>2
      <4>3. i - 1 = j - 1
        BY <4>1, <4>2 DEF IsInjective
      <4>4. QED
        BY <2>2, <2>3, <4>3
    <3>3. QED
      BY <3>1, <3>2
  <2>6. ToSet(s) = ToSet(dialog) \cup {d}
    <3>1. ASSUME NEW e \in ToSet(s) PROVE e \in ToSet(dialog) \cup {d}
      <4>1. PICK i \in DOMAIN s : e = s[i]
        BY DEF ToSet
      <4>2. CASE i = 1
        BY <2>1, <2>3, <4>1, <4>2
      <4>3. CASE i # 1
        <5>1. i - 1 \in DOMAIN dialog /\ s[i] = dialog[i - 1]
          BY <2>1, <2>2, <2>3, <4>3
        <5>2. QED
          BY <4>1, <5>1 DEF ToSet
      <4>4. QED
        BY <4>2, <4>3
    <3>2. d \in ToSet(s)
      <4>1. 1 \in DOMAIN s /\ s[1] = d
        BY <2>1, <2>2, <2>3
      <4>2. QED
        BY <4>1 DEF ToSet
    <3>3. ASSUME NEW e \in ToSet(dialog) PROVE e \in ToSet(s)
      <4>1. PICK i \in DOMAIN dialog : e = dialog[i]
        BY DEF ToSet
      <4>2. i + 1 \in DOMAIN s /\ s[i + 1] = e
        BY <2>1, <2>2, <2>3, <4>1
      <4>3. QED
        BY <4>2 DEF ToSet
    <3>4. QED
      BY <3>1, <3>2, <3>3
  <2>7. Head(s) = d
    BY <2>1, <2>2
  <2>8. QED
    BY <1>2, <2>1, <2>5, <2>6, <2>7 DEF Open, s
<1>3. QED
  BY <1>1, <1>2

-----------------------------------------------------------------------------
(* The inductive invariant *)

\* A call that came back with an account has made one, and a name is only sent
\* if it is acceptable.  For that, a confirmation is only asked of fields that are
\* valid, which nobody can change under it.
CallsAreTrue ==
    \A c \in Call :
      /\ IsSuccess(c) => ours # {}
      /\ call[c].state # "none" => call[c].name \in Accepted["username"]

ConfirmedIsValid == "confirm" \in ToSet(dialog) => AllValid(text)

IInv ==
    /\ TypeOK
    /\ text \in [Field -> UNION {Text(f) : f \in Field}]
    /\ CallsAreTrue
    /\ ConfirmedIsValid
    /\ SuccessIsTrue

-----------------------------------------------------------------------------
(* Steps that leave some of the variables alone *)

\* A step that touches neither the dialogs nor what they are about.
LEMMA DialogsAlone ==
  ASSUME IInv, UNCHANGED <<text, dialog>>, ours # {} => ours' # {}
  PROVE  /\ ConfirmedIsValid' /\ SuccessIsTrue'
         /\ text' \in [Field -> UNION {Text(f) : f \in Field}]
         /\ \A f \in Field : text'[f] \in Text(f)
         /\ dialog' \in Seq(Dialog) /\ IsInjective(dialog')
BY DEF IInv, TypeOK, ConfirmedIsValid, SuccessIsTrue, AllValid, Validate

\* A step that leaves the calls alone, and so does the server.
LEMMA CallsAlone ==
  ASSUME IInv, UNCHANGED <<call, ours>>
  PROVE  /\ CallsAreTrue'
         /\ call' \in [Call -> CallRecord \cup {NoCall}]
BY DEF IInv, TypeOK, CallsAreTrue, IsSuccess

\* An answer is read once.
LEMMA Forgotten ==
  ASSUME IInv, NEW c \in Call, Forget(c), UNCHANGED ours
  PROVE  /\ CallsAreTrue'
         /\ call' \in [Call -> CallRecord \cup {NoCall}]
BY DEF IInv, TypeOK, CallsAreTrue, IsSuccess, Forget, NoCall

\* Opening a dialog the page was not asked a confirmation by keeps what the
\* confirmation relies on.
LEMMA Opened ==
  ASSUME IInv, NEW d \in {"success", "exists"}, dialog' = Open(d),
         d = "success" => ours # {}, UNCHANGED <<text, ours>>
  PROVE  /\ ConfirmedIsValid' /\ SuccessIsTrue'
         /\ text' \in [Field -> UNION {Text(f) : f \in Field}]
         /\ \A f \in Field : text'[f] \in Text(f)
         /\ dialog' \in Seq(Dialog) /\ IsInjective(dialog')
<1>1. d \in Dialog /\ dialog \in Seq(Dialog) /\ IsInjective(dialog)
  BY DEF IInv, TypeOK, Dialog
<1>2. /\ dialog' \in Seq(Dialog) /\ IsInjective(dialog')
      /\ ToSet(dialog') = ToSet(dialog) \cup {d}
      /\ IF d \in ToSet(dialog) THEN dialog' = dialog ELSE Head(dialog') = d
  BY <1>1, OpenStack
<1>3. ConfirmedIsValid'
  BY <1>2 DEF IInv, ConfirmedIsValid, AllValid, Validate
<1>4. SuccessIsTrue'
  <2>1. CASE d \in ToSet(dialog)
    BY <1>2, <2>1 DEF IInv, SuccessIsTrue
  <2>2. CASE d \notin ToSet(dialog) /\ d = "success"
    BY <1>2, <2>2 DEF SuccessIsTrue
  <2>3. CASE d \notin ToSet(dialog) /\ d = "exists"
    BY <1>2, <2>3 DEF IInv, SuccessIsTrue
  <2>4. QED
    BY <2>1, <2>2, <2>3
<1>5. QED
  BY <1>2, <1>3, <1>4 DEF IInv, TypeOK

-----------------------------------------------------------------------------
(* Every step preserves it *)

LEMMA InvariantInitially ==
  Init => IInv
<1> SUFFICES ASSUME Init PROVE IInv
  OBVIOUS
<1>1. TypeOK
  BY EmptyStack DEF Init, TypeOK, Text
<1>2. text \in [Field -> UNION {Text(f) : f \in Field}]
  <2>1. \A f \in Field : "" \in UNION {Text(g) : g \in Field}
    <3>1. \A f \in Field : "" \in Text(f)
      BY DEF Text
    <3>2. QED
      BY <3>1
  <2>2. QED
    BY <2>1 DEF Init
<1>3. CallsAreTrue
  BY DEF Init, CallsAreTrue, IsSuccess, NoCall
<1>4. ConfirmedIsValid /\ SuccessIsTrue
  BY EmptyStack DEF Init, ConfirmedIsValid, SuccessIsTrue
<1>5. QED
  BY <1>1, <1>2, <1>3, <1>4 DEF IInv

LEMMA HandleChangeStep ==
  ASSUME IInv, NEW f \in Field, NEW value \in Text(f), HandleChange(f, value)
  PROVE  IInv'
<1>1. /\ text' \in [Field -> UNION {Text(g) : g \in Field}]
      /\ \A g \in Field : text'[g] \in Text(g)
  BY DEF IInv, TypeOK, HandleChange
<1>2. dialog' = <<>>
  BY DEF HandleChange, Shows
<1>3. ConfirmedIsValid' /\ SuccessIsTrue'
  BY <1>2, EmptyStack DEF ConfirmedIsValid, SuccessIsTrue
<1>4. info' \in BOOLEAN
  BY DEF HandleChange
<1>5. UNCHANGED <<call, names, ours, page>>
  BY DEF HandleChange
<1>6. TypeOK'
  BY <1>1, <1>2, <1>4, <1>5, EmptyStack DEF IInv, TypeOK
<1>7. QED
  BY <1>1, <1>3, <1>5, <1>6, CallsAlone DEF IInv

LEMMA HandleFocusStep ==
  ASSUME IInv, HandleFocus PROVE IInv'
<1>1. info' \in BOOLEAN /\ UNCHANGED <<text, dialog, call, names, ours, page>>
  BY DEF HandleFocus
<1>2. TypeOK'
  BY <1>1, DialogsAlone, CallsAlone DEF IInv, TypeOK
<1>3. QED
  BY <1>1, <1>2, DialogsAlone, CallsAlone DEF IInv

LEMMA HandleConfirmStep ==
  ASSUME IInv, HandleConfirm PROVE IInv'
<1>1. info' \in BOOLEAN /\ UNCHANGED <<text, call, names, ours, page>>
  BY DEF HandleConfirm
<1>2. \/ dialog' = <<"confirm">> /\ AllValid(text)
      \/ dialog' = <<>>
  BY DEF HandleConfirm
<1>3. /\ dialog' \in Seq(Dialog) /\ IsInjective(dialog')
      /\ ToSet(dialog') \subseteq {"confirm"}
      /\ "confirm" \in ToSet(dialog') => AllValid(text)
  <2>1. "confirm" \in Dialog
    BY DEF Dialog
  <2>2. QED
    BY <1>2, <2>1, EmptyStack, OneDialog
<1>4. ConfirmedIsValid' /\ SuccessIsTrue'
  BY <1>1, <1>3 DEF ConfirmedIsValid, SuccessIsTrue, AllValid, Validate
<1>5. TypeOK'
  BY <1>1, <1>3 DEF IInv, TypeOK
<1>6. QED
  BY <1>1, <1>4, <1>5, CallsAlone DEF IInv

LEMMA HandleConfirmRegisterStep ==
  ASSUME IInv, HandleConfirmRegister PROVE IInv'
<1>1. dialog' = <<>> /\ UNCHANGED <<text, info, names, ours, page>>
  BY DEF HandleConfirmRegister
<1>2. PICK c \in Call :
        call' = [call EXCEPT ![c] = [state |-> "sent", name |-> text["username"]]]
  BY DEF HandleConfirmRegister
<1>3. text["username"] \in Text("username")
  BY FieldsAssumption DEF IInv, TypeOK
<1>4. call' \in [Call -> CallRecord \cup {NoCall}]
  BY <1>2, <1>3 DEF IInv, TypeOK, CallRecord
<1>5. CallsAreTrue'
  <2>1. text["username"] \in Accepted["username"]
    <3>1. "confirm" \in ToSet(dialog)
      BY HeadIsOpen DEF HandleConfirmRegister, OnTop, IInv, TypeOK
    <3>2. QED
      BY <3>1, FieldsAssumption DEF IInv, ConfirmedIsValid, AllValid, Validate
  <2>2. \A d \in Call : d # c => call'[d] = call[d]
    BY <1>2 DEF IInv, TypeOK
  <2>3. call'[c].state = "sent" /\ call'[c].name = text["username"]
    BY <1>2 DEF IInv, TypeOK
  <2>4. QED
    BY <1>1, <2>1, <2>2, <2>3 DEF IInv, CallsAreTrue, IsSuccess
<1>6. ConfirmedIsValid' /\ SuccessIsTrue'
  BY <1>1, EmptyStack DEF ConfirmedIsValid, SuccessIsTrue
<1>7. TypeOK'
  BY <1>1, <1>4, EmptyStack DEF IInv, TypeOK
<1>8. QED
  BY <1>1, <1>5, <1>6, <1>7 DEF IInv

LEMMA HandleSuccessCloseStep ==
  ASSUME IInv, HandleSuccessClose PROVE IInv'
<1>1. page' = "login" /\ UNCHANGED <<text, info, dialog, call, names, ours>>
  BY DEF HandleSuccessClose, Navigate
<1>2. TypeOK'
  BY <1>1, DialogsAlone, CallsAlone DEF IInv, TypeOK
<1>3. QED
  BY <1>1, <1>2, DialogsAlone, CallsAlone DEF IInv

LEMMA HandleAuthorizationErrorOpenStep ==
  ASSUME IInv, HandleAuthorizationErrorOpen PROVE IInv'
<1>1. UNCHANGED <<text, info, call, names, ours, page>>
  BY DEF HandleAuthorizationErrorOpen
<1>2. \/ dialog' = <<"confirm">> /\ "confirm" \in ToSet(dialog)
      \/ dialog' = <<>>
  BY DEF HandleAuthorizationErrorOpen
<1>3. /\ dialog' \in Seq(Dialog) /\ IsInjective(dialog')
      /\ ToSet(dialog') \subseteq {"confirm"}
      /\ "confirm" \in ToSet(dialog') => "confirm" \in ToSet(dialog)
  <2>1. "confirm" \in Dialog
    BY DEF Dialog
  <2>2. QED
    BY <1>2, <2>1, EmptyStack, OneDialog
<1>4. ConfirmedIsValid' /\ SuccessIsTrue'
  BY <1>1, <1>3 DEF IInv, ConfirmedIsValid, SuccessIsTrue, AllValid, Validate
<1>5. TypeOK'
  BY <1>1, <1>3 DEF IInv, TypeOK
<1>6. QED
  BY <1>1, <1>4, <1>5, CallsAlone DEF IInv

LEMMA HandleStep ==
  ASSUME IInv, NEW c \in Call, Handle(c) PROVE IInv'
<1>1. UNCHANGED <<text, info, dialog, page>>
  BY DEF Handle
<1>2. PICK o \in {"created", "conflict", "forbidden", "failed"} :
        /\ call' = [call EXCEPT ![c].state = o]
        /\ \/ /\ o = "created" /\ call[c].name \notin names
              /\ names' = names \cup {call[c].name}
              /\ ours' = ours \cup {call[c].name}
           \/ o # "created" /\ UNCHANGED <<names, ours>>
  BY DEF Handle
<1>3. /\ call[c] \in CallRecord
      /\ call[c].name \in Accepted["username"]
  <2>1. call[c].state = "sent"
    BY DEF Handle
  <2>2. NoCall.state = "none"
    BY DEF NoCall
  <2>3. call[c] # NoCall
    BY <2>1, <2>2
  <2>4. call[c] \in CallRecord \cup {NoCall}
    BY DEF IInv, TypeOK
  <2>5. QED
    BY <2>1, <2>3, <2>4 DEF IInv, CallsAreTrue
<1>4. [call[c] EXCEPT !.state = o] \in CallRecord
  BY <1>3 DEF CallRecord
<1>5. call' \in [Call -> CallRecord \cup {NoCall}]
  BY <1>2, <1>4 DEF IInv, TypeOK
<1>6. ours # {} => ours' # {}
  BY <1>2
<1>7. CallsAreTrue'
  <2>1. \A d \in Call : d # c => call'[d] = call[d]
    BY <1>2 DEF IInv, TypeOK
  <2>2. call'[c].state = o /\ call'[c].name = call[c].name
    BY <1>2, <1>3 DEF IInv, TypeOK, CallRecord
  <2>3. o = "created" => ours' # {}
    BY <1>2
  <2>4. QED
    BY <1>3, <1>6, <2>1, <2>2, <2>3 DEF IInv, CallsAreTrue, IsSuccess
<1>8. ours' \subseteq names' /\ names' \subseteq Accepted["username"]
  BY <1>2, <1>3 DEF IInv, TypeOK
<1>9. TypeOK'
  BY <1>1, <1>5, <1>6, <1>8, DialogsAlone DEF IInv, TypeOK
<1>10. QED
  BY <1>1, <1>6, <1>7, <1>9, DialogsAlone DEF IInv

LEMMA RegisterOwnerStep ==
  ASSUME IInv, RegisterOwner PROVE IInv'
<1>1. /\ UNCHANGED <<text, info, dialog, call, ours, page>>
      /\ names \subseteq names' /\ names' \subseteq Accepted["username"]
  BY DEF RegisterOwner, IInv, TypeOK
<1>2. TypeOK'
  BY <1>1, DialogsAlone, CallsAlone DEF IInv, TypeOK
<1>3. QED
  BY <1>1, <1>2, DialogsAlone, CallsAlone DEF IInv

LEMMA ReceiveStep ==
  ASSUME IInv, NEW c \in Call, Receive(c) PROVE IInv'
<1>1. /\ Forget(c)
      /\ UNCHANGED <<text, info, names, ours>>
      /\ page' \in {"register", "login", "landing"}
  BY DEF Receive, ReceiveCreated, ReceiveConflict, ReceiveForbidden, ReceiveError,
         IInv, TypeOK
<1>2. \/ UNCHANGED dialog
      \/ IsSuccess(c) /\ dialog' = Open("success")
      \/ dialog' = Open("exists")
  BY DEF Receive, ReceiveCreated, ReceiveConflict, ReceiveForbidden, ReceiveError
<1>3. /\ ConfirmedIsValid' /\ SuccessIsTrue'
      /\ text' \in [Field -> UNION {Text(f) : f \in Field}]
      /\ \A f \in Field : text'[f] \in Text(f)
      /\ dialog' \in Seq(Dialog) /\ IsInjective(dialog')
  <2>1. CASE UNCHANGED dialog
    BY <1>1, <2>1, DialogsAlone
  <2>2. CASE IsSuccess(c) /\ dialog' = Open("success")
    <3>1. ours # {}
      BY <2>2 DEF IInv, CallsAreTrue
    <3>2. QED
      BY <1>1, <2>2, <3>1, Opened
  <2>3. CASE dialog' = Open("exists")
    BY <1>1, <2>3, Opened
  <2>4. QED
    BY <1>2, <2>1, <2>2, <2>3
<1>4. CallsAreTrue' /\ call' \in [Call -> CallRecord \cup {NoCall}]
  BY <1>1, Forgotten
<1>5. TypeOK'
  BY <1>1, <1>3, <1>4 DEF IInv, TypeOK
<1>6. QED
  BY <1>3, <1>4, <1>5 DEF IInv

LEMMA InvariantPreserved ==
  IInv /\ [Next]_vars => IInv'
<1> SUFFICES ASSUME IInv, [Next]_vars PROVE IInv'
  OBVIOUS
<1>1. CASE UNCHANGED vars
  <2>1. UNCHANGED <<text, info, dialog, call, names, ours, page>>
    BY <1>1 DEF vars
  <2>2. TypeOK'
    BY <2>1, DialogsAlone, CallsAlone DEF IInv, TypeOK
  <2>3. QED
    BY <2>1, <2>2, DialogsAlone, CallsAlone DEF IInv
<1>2. ASSUME NEW f \in Field, NEW value \in Text(f), HandleChange(f, value)
      PROVE  IInv'
  BY <1>2, HandleChangeStep
<1>3. CASE HandleFocus
  BY <1>3, HandleFocusStep
<1>4. CASE HandleConfirm
  BY <1>4, HandleConfirmStep
<1>5. CASE HandleConfirmRegister
  BY <1>5, HandleConfirmRegisterStep
<1>6. CASE HandleSuccessClose
  BY <1>6, HandleSuccessCloseStep
<1>7. CASE HandleAuthorizationErrorOpen
  BY <1>7, HandleAuthorizationErrorOpenStep
<1>8. ASSUME NEW c \in Call, Handle(c) PROVE IInv'
  BY <1>8, HandleStep
<1>9. ASSUME NEW c \in Call, Receive(c) PROVE IInv'
  BY <1>9, ReceiveStep
<1>10. CASE RegisterOwner
  BY <1>10, RegisterOwnerStep
<1>11. QED
  BY <1>1, <1>2, <1>3, <1>4, <1>5, <1>6, <1>7, <1>8, <1>9, <1>10 DEF Next

LEMMA Invariant == Spec => []IInv
BY InvariantInitially, InvariantPreserved, PTL DEF Spec

-----------------------------------------------------------------------------
(* What follows *)

\* Every variable has its type: whatever the order of the answers, no dialog is
\* ever open twice, and only names that are acceptable are registered.
THEOREM TypeCorrect == Spec => []TypeOK
<1>1. IInv => TypeOK
  BY DEF IInv
<1>2. QED
  BY <1>1, Invariant, PTL

\* Whoever is told of success has registered an account by one of the names sent,
\* and sees it above every other dialog unless a conflict was met as well.
THEOREM SuccessIsTold == Spec => []SuccessIsTrue
<1>1. IInv => SuccessIsTrue
  BY DEF IInv
<1>2. QED
  BY <1>1, Invariant, PTL

\* What a call is sent with has passed every check, though they were made before
\* the confirmation was asked for.
THEOREM ValidIsSent == Spec => OnlyValidIsSent
<1> DEFINE Sends ==
      \A c \in Call :
        call'[c].state = "sent" /\ call[c].state # "sent" =>
          /\ \A f \in Field : text[f] \in Accepted[f]
          /\ text["repeatedPassword"] = text["password"]
<1>1. IInv /\ [Next]_vars => [Sends]_vars
  <2> SUFFICES ASSUME IInv, [Next]_vars,
                      NEW c \in Call, call'[c].state = "sent", call[c].state # "sent"
               PROVE  /\ \A f \in Field : text[f] \in Accepted[f]
                      /\ text["repeatedPassword"] = text["password"]
    OBVIOUS
  <2>1. CASE HandleConfirmRegister
    <3>1. "confirm" \in ToSet(dialog)
      BY <2>1, HeadIsOpen DEF HandleConfirmRegister, OnTop, IInv, TypeOK
    <3>2. QED
      BY <3>1, FieldsAssumption DEF IInv, ConfirmedIsValid, AllValid, Validate
  <2>2. ASSUME UNCHANGED call PROVE FALSE
    BY <2>2
  <2>3. ASSUME NEW d \in Call, Forget(d) PROVE FALSE
    BY <2>3 DEF IInv, TypeOK, Forget, NoCall
  <2>4. ASSUME NEW d \in Call, NEW o \in {"created", "conflict", "forbidden", "failed"},
               call' = [call EXCEPT ![d].state = o], call[d].state = "sent"
        PROVE  FALSE
    <3>1. c # d
      BY <2>4
    <3>2. call'[c] = call[c]
      BY <2>4, <3>1 DEF IInv, TypeOK
    <3>3. QED
      BY <3>2
  <2>5. \/ HandleConfirmRegister \/ UNCHANGED call
        \/ \E d \in Call : Forget(d)
        \/ \E d \in Call : Handle(d)
    BY DEF Next, vars, HandleChange, HandleFocus, HandleConfirm, HandleSuccessClose,
           Navigate, HandleAuthorizationErrorOpen, RegisterOwner, Receive,
           ReceiveCreated, ReceiveConflict, ReceiveForbidden, ReceiveError
  <2>6. ASSUME NEW d \in Call, Handle(d) PROVE FALSE
    <3>1. PICK o \in {"created", "conflict", "forbidden", "failed"} :
            call' = [call EXCEPT ![d].state = o]
      BY <2>6 DEF Handle
    <3>2. QED
      BY <2>4, <2>6, <3>1 DEF Handle
  <2>7. QED
    BY <2>1, <2>2, <2>3, <2>5, <2>6
<1>2. QED
  BY <1>1, Invariant, PTL DEF Spec, OnlyValidIsSent
=============================================================================
