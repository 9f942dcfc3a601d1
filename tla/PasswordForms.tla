--------------------------- MODULE PasswordForms ---------------------------
(***************************************************************************)
(* The three forms for a new password: a user's own, the one for another   *)
(* user, and the page behind the link that was mailed.  Every change of a  *)
(* field decides anew whether the form can be confirmed, by the text typed *)
(* and by what the handlers remember of the other fields; not all of what  *)
(* they remember is ever taken back.                                       *)
(***************************************************************************)
EXTENDS Naturals

CONSTANTS
    Good,         \* the passwords the regular expression accepts
    Bad,          \* a text it does not accept
    Empty,        \* the empty text
    MaxPending    \* bounds the calls under way

ASSUME FormsAssumption ==
    /\ Bad \notin Good /\ Empty \notin Good /\ Bad # Empty
    /\ MaxPending \in Nat

VARIABLES
    form,       \* which of the forms
    text,       \* what its fields hold
    flag,       \* what the handlers of the own form remember
    validData,  \* the form can be confirmed
    screen,     \* what lies on top, but for a notice
    notice,     \* the notice above it
    pending     \* the calls without an answer

vars == <<form, text, flag, validData, screen, notice, pending>>

-----------------------------------------------------------------------------
Part == {"old", "new", "repeated"}
Text == Good \cup {Bad, Empty}

\* oldPasswordValid, newPasswordValid, repeatedNewPasswordValid,
\* oldAndNewPasswordSameValid, newAndRepeatedNewPasswordNotSameValid
Flag == {"old", "new", "repeated", "differ", "same"}

NoText  == [p \in Part |-> Empty]
NoFlags == [f \in Flag |-> FALSE]

\* The page behind the link is a form already, and can be confirmed at once.
FormScreen  == IF form = "reset" THEN "form" ELSE "page"
InitialData == form = "reset"

\* Without a token in its address it shows a message and leaves by itself.
Init ==
    /\ form \in {"own", "user", "reset"}
    /\ text = NoText
    /\ flag = NoFlags
    /\ validData = InitialData
    /\ \/ screen = FormScreen
       \/ form = "reset" /\ screen = "message"
    /\ notice = "none"
    /\ pending = 0

MessageTimeout ==
    /\ screen = "message"
    /\ screen' = "left"
    /\ UNCHANGED <<form, text, flag, validData, notice, pending>>

HandleClickOpen ==
    /\ screen = "page" /\ notice = "none"
    /\ screen' = "form"
    /\ UNCHANGED <<form, text, flag, validData, notice, pending>>

HandleClose ==
    /\ screen = "form" /\ notice = "none" /\ form # "reset"
    /\ screen' = "page"
    /\ UNCHANGED <<form, text, flag, validData, notice, pending>>

-----------------------------------------------------------------------------
(* The user's own password *)

Typed(p, t) ==
    /\ screen = "form" /\ notice = "none"
    /\ text' = [text EXCEPT ![p] = t]
    /\ UNCHANGED <<form, screen, notice, pending>>

\* A flag of the other fields is used as it is remembered.
HandleOldPasswordChange(t) ==
    /\ form = "own"
    /\ Typed("old", t)
    /\ flag' = [flag EXCEPT !["differ"] = (t # text["new"]),
                            !["old"] = (@ \/ t \in Good)]
    /\ validData' = /\ t \in Good
                    /\ flag["new"] /\ flag["repeated"] /\ flag["same"]
                    /\ t # text["new"]

HandleNewPasswordChangeStale(t) ==                               \* mutant
    /\ form = "own"
    /\ Typed("new", t)
    /\ flag' = [flag EXCEPT !["differ"] = (t # text["old"]),
                            !["new"] = (@ \/ t \in Good)]
    /\ validData' = /\ t \in Good
                    /\ flag["old"] /\ flag["repeated"] /\ flag["same"]
                    /\ t # text["old"]

HandleNewPasswordChange(t) ==
    /\ form = "own"
    /\ Typed("new", t)
    /\ flag' = [flag EXCEPT !["differ"] = (t # text["old"]),
                            !["same"] = (t = text["repeated"]),
                            !["new"] = (@ \/ t \in Good)]
    /\ validData' = /\ t \in Good
                    /\ flag["old"] /\ flag["repeated"]
                    /\ t # text["old"] /\ t = text["repeated"]

OnceValid(t) == flag["repeated"] \/ t \in Good                   \* mutant

\* Of the three texts this one alone is found invalid again.
RepeatedValid(t) == t \in Good

HandleRepeatedNewPasswordChange(t) ==
    /\ form = "own"
    /\ Typed("repeated", t)
    /\ flag' = [flag EXCEPT !["same"] = (t = text["new"]),
                            !["repeated"] = RepeatedValid(t)]
    /\ validData' = /\ t \in Good
                    /\ flag["old"] /\ flag["new"] /\ flag["differ"]
                    /\ t = text["new"]

EditPassword ==
    \E t \in Text : \/ HandleOldPasswordChange(t)
                    \/ HandleNewPasswordChange(t)
                    \/ HandleRepeatedNewPasswordChange(t)

-----------------------------------------------------------------------------
(* Another user's password, and a forgotten one *)

TypedTwice(p, other, t) ==
    /\ Typed(p, t)
    /\ validData' = (t \in Good /\ t = text[other])
    /\ UNCHANGED flag

TwoFields == \E t \in Text : TypedTwice("new", "repeated", t)
                             \/ TypedTwice("repeated", "new", t)

EditUserPassword == form = "user" /\ TwoFields
ResetPassword    == form = "reset" /\ TwoFields

-----------------------------------------------------------------------------
(* Confirming *)

HandleConfirm ==
    /\ screen = "form" /\ notice = "none"
    /\ validData
    /\ screen' = "confirm"
    /\ UNCHANGED <<form, text, flag, validData, notice, pending>>

HandleConfirmClose ==
    /\ screen = "confirm" /\ notice = "none"
    /\ screen' = "form"
    /\ UNCHANGED <<form, text, flag, validData, notice, pending>>

\* The confirmation of a forgotten password stays open and can be given again.
HandleConfirmConfirm ==
    /\ screen = "confirm" /\ notice = "none"
    /\ pending < MaxPending
    /\ pending' = pending + 1
    /\ screen' = IF form = "reset" THEN "confirm" ELSE "page"
    /\ UNCHANGED <<form, text, flag, validData, notice>>

\* mutant: an answer is handled twice
ReceiveTwice ==
    /\ screen # "left"
    /\ pending' = pending - 1
    /\ notice' \in {"success", "error", notice}
    /\ UNCHANGED <<form, text, flag, validData, screen>>

\* The answer comes in any state of the page, or the network fails.
Receive ==
    /\ pending > 0 /\ screen # "left"
    /\ pending' = pending - 1
    /\ notice' \in {"success", "error", notice}
    /\ UNCHANGED <<form, text, flag, validData, screen>>

\* The page is loaded anew, or left for the login.
HandleSuccessClose ==
    /\ notice = "success"
    /\ notice' = "none"
    /\ \/ /\ form = "reset"
          /\ screen' = "left"
          /\ UNCHANGED <<text, flag, validData>>
       \/ /\ form # "reset"
          /\ screen' = "page"
          /\ text' = NoText /\ flag' = NoFlags /\ validData' = InitialData
    /\ pending' = 0
    /\ UNCHANGED form

HandleErrorClose ==
    /\ notice = "error"
    /\ notice' = "none"
    /\ UNCHANGED <<form, text, flag, validData, screen, pending>>

BackToLogin ==
    /\ form = "reset" /\ screen = "form" /\ notice = "none"
    /\ screen' = "left"
    /\ UNCHANGED <<form, text, flag, validData, notice, pending>>

Next == \/ MessageTimeout \/ HandleClickOpen \/ HandleClose
        \/ EditPassword \/ EditUserPassword \/ ResetPassword
        \/ HandleConfirm \/ HandleConfirmClose \/ HandleConfirmConfirm
        \/ Receive \/ HandleSuccessClose \/ HandleErrorClose \/ BackToLogin

Spec == Init /\ [][Next]_vars

-----------------------------------------------------------------------------
(* Properties *)

\* Every variable has its type.
TypeOK ==
    /\ form \in {"own", "user", "reset"}
    /\ text \in [Part -> Text]
    /\ flag \in [Flag -> BOOLEAN]
    /\ validData \in BOOLEAN
    /\ screen \in {"page", "form", "confirm", "message", "left"}
    /\ notice \in {"none", "success", "error"}
    /\ pending \in 0..MaxPending

\* What can be confirmed is a well formed new password, twice the same and not
\* the old one, though the handlers forget that a text has become invalid; only
\* the form of a forgotten password can be confirmed untouched.
ConfirmedPasswordIsSound ==
    screen = "confirm" =>
      /\ text["new"] = text["repeated"]
      /\ \/ text["new"] \in Good
         \/ form = "reset" /\ text["new"] = Empty
      /\ form = "own" => text["old"] # text["new"]

\* In whichever order the fields were filled and corrected, a form that is right
\* can be confirmed.
RightFormIsAccepted ==
    /\ text["new"] \in Good /\ text["new"] = text["repeated"]
    /\ form = "own" => text["old"] \in Good /\ text["old"] # text["new"]
    => validData
=============================================================================
