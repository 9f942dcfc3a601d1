------------------------ MODULE PasswordFormsProofs ------------------------
(***************************************************************************)
(* What PasswordForms guarantees for any set of passwords: that flags      *)
(* which are never taken back do no harm.                                  *)
(***************************************************************************)
EXTENDS PasswordForms, TLAPS

\* The actions of the page that leave the fields and what is known of them.
KeepsFields ==
    \/ MessageTimeout \/ HandleClickOpen \/ HandleClose
    \/ HandleConfirm \/ HandleConfirmClose \/ HandleConfirmConfirm
    \/ Receive \/ HandleErrorClose \/ BackToLogin

-----------------------------------------------------------------------------
(* The handlers of the own form, field by field *)

OldChanged(t) ==
    /\ text'["old"] = t
    /\ \A p \in {"new", "repeated"} : text'[p] = text[p]
    /\ flag'["differ"] <=> t # text["new"]
    /\ flag'["old"] <=> flag["old"] \/ t \in Good
    /\ \A f \in {"new", "repeated", "same"} : flag'[f] = flag[f]
    /\ validData' <=> /\ t \in Good
                      /\ flag["new"] /\ flag["repeated"] /\ flag["same"]
                      /\ t # text["new"]

NewChanged(t) ==
    /\ text'["new"] = t
    /\ \A p \in {"old", "repeated"} : text'[p] = text[p]
    /\ flag'["differ"] <=> t # text["old"]
    /\ flag'["same"] <=> t = text["repeated"]
    /\ flag'["new"] <=> flag["new"] \/ t \in Good
    /\ \A f \in {"old", "repeated"} : flag'[f] = flag[f]
    /\ validData' <=> /\ t \in Good
                      /\ flag["old"] /\ flag["repeated"]
                      /\ t # text["old"] /\ t = text["repeated"]

RepeatedChanged(t) ==
    /\ text'["repeated"] = t
    /\ \A p \in {"old", "new"} : text'[p] = text[p]
    /\ flag'["same"] <=> t = text["new"]
    /\ flag'["repeated"] <=> t \in Good
    /\ \A f \in {"old", "new", "differ"} : flag'[f] = flag[f]
    /\ validData' <=> /\ t \in Good
                      /\ flag["old"] /\ flag["new"] /\ flag["differ"]
                      /\ t = text["new"]

FieldsTyped == /\ text \in [Part -> Text]
               /\ flag \in [Flag -> BOOLEAN]
               /\ validData \in BOOLEAN

\* handleOldPasswordChange
LEMMA OldChange ==
  ASSUME FieldsTyped, NEW t \in Text, HandleOldPasswordChange(t)
  PROVE  OldChanged(t) /\ FieldsTyped'
<1> USE DEF FieldsTyped
<1> DEFINE x == (t # text["new"])
           y == (flag["old"] \/ t \in Good)
<1>1. x \in BOOLEAN /\ y \in BOOLEAN
  OBVIOUS
<1>2. flag' = [flag EXCEPT !["differ"] = x, !["old"] = y]
  BY Zenon DEF HandleOldPasswordChange
<1>3. /\ validData' \in BOOLEAN
      /\ validData' <=> /\ t \in Good
                        /\ flag["new"] /\ flag["repeated"] /\ flag["same"]
                        /\ t # text["new"]
  BY Zenon DEF HandleOldPasswordChange
<1>4. /\ text' \in [Part -> Text] /\ text'["old"] = t
      /\ \A p \in {"new", "repeated"} : text'[p] = text[p]
  BY DEF HandleOldPasswordChange, Typed, Part
<1> HIDE DEF x, y
<1>5. /\ flag' \in [Flag -> BOOLEAN] /\ flag'["differ"] = x /\ flag'["old"] = y
      /\ \A f \in {"new", "repeated", "same"} : flag'[f] = flag[f]
  BY <1>1, <1>2 DEF Flag
<1>6. QED
  BY <1>3, <1>4, <1>5 DEF x, y, OldChanged

\* handleNewPasswordChange
LEMMA NewChange ==
  ASSUME FieldsTyped, NEW t \in Text, HandleNewPasswordChange(t)
  PROVE  NewChanged(t) /\ FieldsTyped'
<1> USE DEF FieldsTyped
<1> DEFINE x == (t # text["old"])
           y == (t = text["repeated"])
           z == (flag["new"] \/ t \in Good)
<1>1. x \in BOOLEAN /\ y \in BOOLEAN /\ z \in BOOLEAN
  OBVIOUS
<1>2. flag' = [flag EXCEPT !["differ"] = x, !["same"] = y, !["new"] = z]
  BY Zenon DEF HandleNewPasswordChange
<1>3. /\ validData' \in BOOLEAN
      /\ validData' <=> /\ t \in Good
                        /\ flag["old"] /\ flag["repeated"]
                        /\ t # text["old"] /\ t = text["repeated"]
  BY Zenon DEF HandleNewPasswordChange
<1>4. /\ text' \in [Part -> Text] /\ text'["new"] = t
      /\ \A p \in {"old", "repeated"} : text'[p] = text[p]
  BY DEF HandleNewPasswordChange, Typed, Part
<1> HIDE DEF x, y, z
<1>5. /\ flag' \in [Flag -> BOOLEAN]
      /\ flag'["differ"] = x /\ flag'["same"] = y /\ flag'["new"] = z
      /\ \A f \in {"old", "repeated"} : flag'[f] = flag[f]
  BY <1>1, <1>2 DEF Flag
<1>6. QED
  BY <1>3, <1>4, <1>5 DEF x, y, z, NewChanged

\* handleRepeatedNewPasswordChange
LEMMA RepeatedChange ==
  ASSUME FieldsTyped, NEW t \in Text, HandleRepeatedNewPasswordChange(t)
  PROVE  RepeatedChanged(t) /\ FieldsTyped'
<1> USE DEF FieldsTyped
<1> DEFINE x == (t = text["new"])
           y == (t \in Good)
<1>1. x \in BOOLEAN /\ y \in BOOLEAN
  OBVIOUS
<1>2. flag' = [flag EXCEPT !["same"] = x, !["repeated"] = y]
  BY Zenon DEF HandleRepeatedNewPasswordChange, RepeatedValid
<1>3. /\ validData' \in BOOLEAN
      /\ validData' <=> /\ t \in Good
                        /\ flag["old"] /\ flag["new"] /\ flag["differ"]
                        /\ t = text["new"]
  BY Zenon DEF HandleRepeatedNewPasswordChange
<1>4. /\ text' \in [Part -> Text] /\ text'["repeated"] = t
      /\ \A p \in {"old", "new"} : text'[p] = text[p]
  BY DEF HandleRepeatedNewPasswordChange, Typed, Part
<1> HIDE DEF x, y
<1>5. /\ flag' \in [Flag -> BOOLEAN] /\ flag'["same"] = x /\ flag'["repeated"] = y
      /\ \A f \in {"old", "new", "differ"} : flag'[f] = flag[f]
  BY <1>1, <1>2 DEF Flag
<1>6. QED
  BY <1>3, <1>4, <1>5 DEF x, y, RepeatedChanged

\* The handler of the other two forms: both passwords are looked at as they are.
TwiceChanged(p, other, t) ==
    /\ text'[p] = t
    /\ \A q \in Part \ {p} : text'[q] = text[q]
    /\ validData' <=> t \in Good /\ t = text[other]

LEMMA TwiceChange ==
  ASSUME FieldsTyped, NEW p \in Part, NEW other \in Part, NEW t \in Text,
         TypedTwice(p, other, t)
  PROVE  TwiceChanged(p, other, t) /\ FieldsTyped'
<1> USE DEF FieldsTyped
<1>1. /\ validData' \in BOOLEAN
      /\ validData' <=> t \in Good /\ t = text[other]
  BY Zenon DEF TypedTwice
<1>2. QED
  BY <1>1 DEF TypedTwice, Typed, TwiceChanged

-----------------------------------------------------------------------------
(* Types *)

\* Type correctness: of the fields, the flags, and what lies above them.
THEOREM TypeCorrect == Spec => []TypeOK
<1>1. Init => TypeOK
  BY FormsAssumption
     DEF Init, TypeOK, NoText, NoFlags, Text, InitialData, FormScreen, Part, Flag
<1>2. TypeOK /\ [Next]_vars => TypeOK'
  <2> SUFFICES ASSUME TypeOK, [Next]_vars PROVE TypeOK'
    OBVIOUS
  <2> USE DEF TypeOK
  <2>1. CASE EditPassword
    <3>1. PICK t \in Text : \/ HandleOldPasswordChange(t)
                            \/ HandleNewPasswordChange(t)
                            \/ HandleRepeatedNewPasswordChange(t)
      BY <2>1 DEF EditPassword
    <3>2. FieldsTyped'
      BY <3>1, OldChange, NewChange, RepeatedChange DEF FieldsTyped
    <3>3. UNCHANGED <<form, screen, notice, pending>>
      BY <3>1 DEF HandleOldPasswordChange, HandleNewPasswordChange,
                  HandleRepeatedNewPasswordChange, Typed
    <3>4. QED
      BY <3>2, <3>3 DEF FieldsTyped
  <2>2. CASE EditUserPassword \/ ResetPassword
    <3>1. PICK t \in Text : \/ TypedTwice("new", "repeated", t)
                            \/ TypedTwice("repeated", "new", t)
      BY <2>2 DEF EditUserPassword, ResetPassword, TwoFields
    <3>2. FieldsTyped'
      BY <3>1, TwiceChange DEF FieldsTyped, Part
    <3>3. UNCHANGED <<form, screen, notice, pending>>
      BY <3>1 DEF TypedTwice, Typed
    <3>4. QED
      BY <3>2, <3>3 DEF FieldsTyped
  <2>3. CASE HandleSuccessClose
    <3>1. validData' \in BOOLEAN
      BY <2>3 DEF HandleSuccessClose, InitialData
    <3>2. text' \in [Part -> Text] /\ flag' \in [Flag -> BOOLEAN]
      BY <2>3 DEF HandleSuccessClose, NoText, NoFlags, Text
    <3>3. QED
      BY <2>3, <3>1, <3>2, FormsAssumption DEF HandleSuccessClose
  <2>4. CASE MessageTimeout \/ HandleClickOpen \/ HandleClose
    BY <2>4 DEF MessageTimeout, HandleClickOpen, HandleClose
  <2>5. CASE HandleConfirm \/ HandleConfirmClose \/ HandleErrorClose \/ BackToLogin
    BY <2>5 DEF HandleConfirm, HandleConfirmClose, HandleErrorClose, BackToLogin
  <2>6. CASE HandleConfirmConfirm \/ Receive
    BY <2>6, FormsAssumption DEF HandleConfirmConfirm, Receive
  <2>7. CASE UNCHANGED vars
    BY <2>7 DEF vars
  <2>8. QED
    BY <2>1, <2>2, <2>3, <2>4, <2>5, <2>6, <2>7 DEF Next
<1>3. QED
  BY <1>1, <1>2, PTL DEF Spec

-----------------------------------------------------------------------------
(* What the flags are worth *)

\* The flags of the old and the new password may be set for a text that is no
\* longer well formed; the other three tell the truth, but that two empty
\* fields are not known to be the same.
FlagsTell ==
    form = "own" =>
      /\ text["old"] \in Good => flag["old"]
      /\ text["new"] \in Good => flag["new"]
      /\ flag["repeated"] <=> text["repeated"] \in Good
      /\ flag["differ"] <=> text["old"] # text["new"]
      /\ flag["same"] => text["new"] = text["repeated"]
      /\ text["new"] = text["repeated"] /\ text["new"] # Empty => flag["same"]

Right ==
    /\ text["new"] \in Good /\ text["new"] = text["repeated"]
    /\ form = "own" => text["old"] # text["new"]

\* A form can be confirmed when it is right; the old password may be anything
\* that has once been well formed.
ConfirmableIsRight ==
    /\ validData => \/ Right
                    \/ form = "reset" /\ text = NoText
    /\ RightFormIsAccepted

Untouched == UNCHANGED <<form, text, flag, validData>>

IInv == /\ FlagsTell
        /\ ConfirmableIsRight
        /\ screen = "confirm" => validData

\* The inductive invariant holds.
LEMMA FormInvariant == Spec => []IInv
<1>1. Init => IInv
  BY FormsAssumption
     DEF Init, IInv, FlagsTell, ConfirmableIsRight, Right, RightFormIsAccepted,
         NoText, NoFlags, InitialData, FormScreen, Part, Flag
<1>2. TypeOK /\ IInv /\ [Next]_vars => IInv'
  <2> SUFFICES ASSUME TypeOK, IInv, [Next]_vars PROVE IInv'
    OBVIOUS
  <2> FieldsTyped
    BY DEF TypeOK, FieldsTyped
  <2>1. CASE EditPassword
    <3>1. PICK t \in Text : \/ HandleOldPasswordChange(t)
                            \/ HandleNewPasswordChange(t)
                            \/ HandleRepeatedNewPasswordChange(t)
      BY <2>1 DEF EditPassword
    <3>2. form = "own" /\ form' = form /\ screen' = "form"
      BY <3>1 DEF HandleOldPasswordChange, HandleNewPasswordChange,
                  HandleRepeatedNewPasswordChange, Typed
    <3>3. CASE HandleOldPasswordChange(t)
      <4>1. OldChanged(t) /\ FieldsTyped'
        BY <3>3, OldChange
      <4>2. FlagsTell'
        BY <3>2, <4>1 DEF OldChanged, IInv, FlagsTell, FieldsTyped
      <4>3. ConfirmableIsRight'
        BY <3>2, <4>1, FormsAssumption
           DEF OldChanged, IInv, FlagsTell, ConfirmableIsRight, Right,
               RightFormIsAccepted, FieldsTyped, Flag
      <4>4. QED
        BY <3>2, <4>2, <4>3 DEF IInv
    <3>4. CASE HandleNewPasswordChange(t)
      <4>1. NewChanged(t) /\ FieldsTyped'
        BY <3>4, NewChange
      <4>2. FlagsTell'
        BY <3>2, <4>1 DEF NewChanged, IInv, FlagsTell, FieldsTyped
      <4>3. ConfirmableIsRight'
        BY <3>2, <4>1, FormsAssumption
           DEF NewChanged, IInv, FlagsTell, ConfirmableIsRight, Right,
               RightFormIsAccepted, FieldsTyped, Flag
      <4>4. QED
        BY <3>2, <4>2, <4>3 DEF IInv
    <3>5. CASE HandleRepeatedNewPasswordChange(t)
      <4>1. RepeatedChanged(t) /\ FieldsTyped'
        BY <3>5, RepeatedChange
      <4>2. FlagsTell'
        BY <3>2, <4>1 DEF RepeatedChanged, IInv, FlagsTell, FieldsTyped
      <4>3. ConfirmableIsRight'
        BY <3>2, <4>1, FormsAssumption
           DEF RepeatedChanged, IInv, FlagsTell, ConfirmableIsRight, Right,
               RightFormIsAccepted, FieldsTyped, Flag
      <4>4. QED
        BY <3>2, <4>2, <4>3 DEF IInv
    <3>6. QED
      BY <3>1, <3>3, <3>4, <3>5
  <2>2. CASE EditUserPassword \/ ResetPassword
    <3>1. form # "own" /\ form' = form /\ screen' = "form"
      BY <2>2 DEF EditUserPassword, ResetPassword, TwoFields, TypedTwice, Typed
    <3>2. PICK t \in Text : \/ TypedTwice("new", "repeated", t)
                            \/ TypedTwice("repeated", "new", t)
      BY <2>2 DEF EditUserPassword, ResetPassword, TwoFields
    <3>3. FieldsTyped' /\ \/ TwiceChanged("new", "repeated", t)
                           \/ TwiceChanged("repeated", "new", t)
      BY <3>2, TwiceChange DEF Part
    <3>4. ConfirmableIsRight'
      BY <3>1, <3>3
         DEF TwiceChanged, ConfirmableIsRight, Right, RightFormIsAccepted,
             FieldsTyped, Part
    <3>5. QED
      BY <3>1, <3>4 DEF IInv, FlagsTell
  <2>3. CASE HandleSuccessClose
    <3>1. CASE form = "reset"
      BY <2>3, <3>1 DEF HandleSuccessClose, IInv, FlagsTell, ConfirmableIsRight,
                         Right, RightFormIsAccepted
    <3>2. CASE form # "reset"
      BY <2>3, <3>2, FormsAssumption
         DEF HandleSuccessClose, IInv, FlagsTell, ConfirmableIsRight, Right,
             RightFormIsAccepted, NoText, NoFlags, InitialData, Part, Flag
    <3>3. QED
      BY <3>1, <3>2
  <2>4. CASE KeepsFields \/ UNCHANGED vars
    <3>1. Untouched
      BY <2>4 DEF KeepsFields, Untouched, vars, MessageTimeout, HandleClickOpen,
                  HandleClose, HandleConfirm, HandleConfirmClose,
                  HandleConfirmConfirm, Receive, HandleErrorClose, BackToLogin
    <3>2. screen' = "confirm" => screen = "confirm" \/ validData
      BY <2>4 DEF KeepsFields, vars, MessageTimeout, HandleClickOpen,
                  HandleClose, HandleConfirm, HandleConfirmClose,
                  HandleConfirmConfirm, Receive, HandleErrorClose, BackToLogin
    <3>3. QED
      BY <3>1, <3>2 DEF Untouched, IInv, FlagsTell, ConfirmableIsRight, Right,
                        RightFormIsAccepted
  <2>5. QED
    BY <2>1, <2>2, <2>3, <2>4 DEF Next, KeepsFields
<1>3. QED
  BY <1>1, <1>2, TypeCorrect, PTL DEF Spec

\* What can be confirmed is a well formed password, twice the same, not the old.
THEOREM ConfirmedIsSound == Spec => []ConfirmedPasswordIsSound
<1>1. IInv => ConfirmedPasswordIsSound
  BY DEF IInv, ConfirmableIsRight, Right, ConfirmedPasswordIsSound, NoText, Part
<1>2. QED
  BY <1>1, FormInvariant, PTL

\* A form that is right can be confirmed, in whichever order it was filled.
THEOREM RightIsAccepted == Spec => []RightFormIsAccepted
<1>1. IInv => RightFormIsAccepted
  BY DEF IInv, ConfirmableIsRight
<1>2. QED
  BY <1>1, FormInvariant, PTL
=============================================================================
