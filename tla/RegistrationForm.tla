-------------------------- MODULE RegistrationForm --------------------------
(***************************************************************************)
(* The page /register.  The fields are checked when one of them changes,   *)
(* as it was before the change and for the message above the form only,    *)
(* and all together when the button is pressed; what a confirmation then   *)
(* sends is what the fields hold.  An answer finds the page in any state:  *)
(* the form can be sent again before it comes.                             *)
(***************************************************************************)
EXTENDS Naturals, Sequences, SequencesExt

CONSTANTS
    Call,         \* bounds the calls under way
    Field,        \* the fields of the form
    Typed,        \* what may be typed into each of them
    Accepted      \* what each of them accepts

\* Both passwords have to match one regular expression.
ASSUME FieldsAssumption ==
    /\ {"username", "password", "repeatedPassword"} \subseteq Field
    /\ \A f \in Field : "" \notin Accepted[f]
    /\ Accepted["password"] = Accepted["repeatedPassword"]

VARIABLES
    text,         \* what the fields hold
    info,         \* a message about a field stands above the form
    dialog,       \* the open dialogs, the one on top first
    call,         \* the calls of the page
    names,        \* the user names of all accounts
    ours,         \* those this page has registered
    page          \* the form is shown, or which page was gone to

vars == <<text, info, dialog, call, names, ours, page>>

-----------------------------------------------------------------------------
Text(f) == Typed[f] \cup {""}

\* confirmOpen, successOpen and authorizationErrorOpen
Dialog == {"confirm", "success", "exists"}

CallRecord == [state : {"sent", "created", "conflict", "forbidden", "failed"},
               name : Text("username")]

NoCall == [state |-> "none", name |-> ""]

NotCompared(t, f) == t[f] \in Accepted[f]                        \* mutant

\* validateFirstName and the others; validateConfirmPassword compares as well.
Validate(t, f) ==
    /\ t[f] \in Accepted[f]
    /\ f = "repeatedPassword" => t[f] = t["password"]

AllValid(t) == \A f \in Field : Validate(t, f)

Shows(dialogs) == page = "register" /\ dialog = dialogs

OnTop(d) == page = "register" /\ dialog # <<>> /\ Head(dialog) = d

OpenAgain(d) == <<d>> \o dialog                                  \* mutant

\* What is open already stays where it is.
Open(d) == IF d \in ToSet(dialog) THEN dialog ELSE <<d>> \o dialog

-----------------------------------------------------------------------------
(* Filling in the form *)

\* handleFirstNameChange and the others: the value checked is the one before.
HandleChange(f, value) ==
    /\ Shows(<<>>)
    /\ text' = [text EXCEPT ![f] = value]
    /\ info' = ~Validate(text, f)
    /\ UNCHANGED <<dialog, call, names, ours, page>>

HandleFocus ==
    /\ Shows(<<>>) /\ info
    /\ info' = FALSE
    /\ UNCHANGED <<text, dialog, call, names, ours, page>>

\* The button: the checks stop at the first field that fails.
HandleConfirm ==
    /\ Shows(<<>>)
    /\ info' = ~AllValid(text)
    /\ dialog' = IF AllValid(text) THEN <<"confirm">> ELSE <<>>
    /\ UNCHANGED <<text, call, names, ours, page>>

\* The answer "no" closes the dialogs of a success, of which there are none, and
\* not the one it is given in.  onSubmit
HandleConfirmRegister ==
    /\ OnTop("confirm")
    /\ \E c \in Call :
         /\ call[c] = NoCall
         /\ call' = [call EXCEPT ![c] = [state |-> "sent", name |-> text["username"]]]
    /\ dialog' = <<>>
    /\ UNCHANGED <<text, info, names, ours, page>>

\* Nothing comes back to a page that is left.
Navigate(where) ==
    /\ page' = where
    /\ UNCHANGED <<text, info, dialog, call, names, ours>>

\* A click beside the confirmation leaves for the login as success does.
HandleSuccessClose ==
    /\ OnTop("confirm") \/ OnTop("success")
    /\ Navigate("login")

\* Those of a success are closed with it.
HandleAuthorizationErrorOpen ==
    /\ OnTop("exists")
    /\ dialog' = IF "confirm" \in ToSet(dialog) THEN <<"confirm">> ELSE <<>>
    /\ UNCHANGED <<text, info, call, names, ours, page>>

-----------------------------------------------------------------------------
(* The server, whose unique indexes decide *)

Handle(c) ==
    /\ call[c].state = "sent"
    /\ LET Outcome(o) == call' = [call EXCEPT ![c].state = o]
       IN \/ /\ call[c].name \notin names
             /\ Outcome("created")
             /\ names' = names \cup {call[c].name}
             /\ ours' = ours \cup {call[c].name}
          \/ /\ \E o \in {"conflict", "forbidden", "failed"} : Outcome(o)
             /\ UNCHANGED <<names, ours>>
    /\ UNCHANGED <<text, info, dialog, page>>

\* Somebody else registers.
RegisterOwner ==
    /\ \E n \in Accepted["username"] \ names : names' = names \cup {n}
    /\ UNCHANGED <<text, info, dialog, call, ours, page>>

-----------------------------------------------------------------------------
(* The answers *)

AnyAnswer(c) == call[c].state \in {"created", "conflict"}         \* mutant

IsSuccess(c) == call[c].state = "created"

Forget(c) == call' = [call EXCEPT ![c] = NoCall]

ReceiveCreated(c) ==
    /\ page = "register" /\ IsSuccess(c)
    /\ dialog' = Open("success")
    /\ Forget(c)
    /\ UNCHANGED <<text, info, names, ours, page>>

ReceiveConflict(c) ==
    /\ page = "register" /\ call[c].state = "conflict"
    /\ dialog' = Open("exists")
    /\ Forget(c)
    /\ UNCHANGED <<text, info, names, ours, page>>

ReceiveForbidden(c) ==
    /\ page = "register" /\ call[c].state = "forbidden"
    /\ page' = "landing"
    /\ Forget(c)
    /\ UNCHANGED <<text, info, dialog, names, ours>>

\* Any other error is kept where nothing shows it; so is the network's.
ReceiveError(c) ==
    /\ page = "register" /\ call[c] # NoCall
    /\ Forget(c)
    /\ UNCHANGED <<text, info, dialog, names, ours, page>>

Receive(c) == ReceiveCreated(c) \/ ReceiveConflict(c) \/ ReceiveForbidden(c)
              \/ ReceiveError(c)

\* Who is logged in already is sent to the landing page.
Init ==
    /\ text = [f \in Field |-> ""]
    /\ info = FALSE
    /\ dialog = <<>>
    /\ call = [c \in Call |-> NoCall]
    /\ names \in SUBSET Accepted["username"]
    /\ ours = {}
    /\ page \in {"register", "landing"}

Next == \/ \E f \in Field : \E value \in Text(f) : HandleChange(f, value)
        \/ HandleFocus \/ HandleConfirm
        \/ HandleConfirmRegister
        \/ HandleSuccessClose \/ HandleAuthorizationErrorOpen
        \/ \E c \in Call : Handle(c) \/ Receive(c)
        \/ RegisterOwner

Spec == Init /\ [][Next]_vars

-----------------------------------------------------------------------------
(* Properties *)

\* Every variable has its type; no dialog is open twice.
TypeOK ==
    /\ \A f \in Field : text[f] \in Text(f)
    /\ info \in BOOLEAN
    /\ dialog \in Seq(Dialog) /\ IsInjective(dialog)
    /\ call \in [Call -> CallRecord \cup {NoCall}]
    /\ ours \subseteq names /\ names \subseteq Accepted["username"]
    /\ page \in {"register", "login", "landing"}

\* What is sent has passed every check and has the password twice, though the
\* checks are made before the confirmation and answers to earlier calls open and
\* close dialogs in between.
OnlyValidIsSent ==
    [][\A c \in Call :
         call'[c].state = "sent" /\ call[c].state # "sent" =>
           /\ \A f \in Field : text[f] \in Accepted[f]
           /\ text["repeatedPassword"] = text["password"]]_vars

\* Success is told only to who has an account by one of the names sent, whichever
\* of several calls is answered first; it is told above everything else, unless
\* an older or newer call has met a conflict.
SuccessIsTrue ==
    "success" \in ToSet(dialog) =>
      /\ ours # {}
      /\ Head(dialog) = "success" \/ "exists" \in ToSet(dialog)
=============================================================================
