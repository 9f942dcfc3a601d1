--------------------------- MODULE PasswordChanges ---------------------------
(***************************************************************************)
(* What the requests about passwords promise, as if each took place at     *)
(* once, under the conditions that hold then, or was refused and changed   *)
(* nothing.                                                                *)
(***************************************************************************)
CONSTANTS Account, Password, Request

VARIABLES
    password,   \* the password of each account
    open,       \* the accounts that are confirmed and not disabled
    links,      \* the link each request mails: none yet, mailed, or gone
    late,       \* the links that are past their expiration date
    asked,      \* what is asked for
    state       \* what has become of it

vars == <<password, open, links, late, asked, state>>

Target(r) == asked[r].target

End(r, outcome) ==
    /\ state[r] = "open"
    /\ state' = [state EXCEPT ![r] = outcome]
    /\ UNCHANGED <<open, late, asked>>

SetPassword(r) == password' = [password EXCEPT ![Target(r)] = asked[r].new]

\* Somebody else sets only passwords of open accounts, and only to another one.
MayBeSet(r) == Target(r) \in open /\ password[Target(r)] # asked[r].new

-----------------------------------------------------------------------------
(* The requests *)

\* One's own password is replaced if it is the one given as the old one.
ChangeOwn(r) ==
    /\ asked[r].kind = "self"
    /\ password[Target(r)] = asked[r].old /\ asked[r].old # asked[r].new
    /\ SetPassword(r)
    /\ End(r, "done")
    /\ UNCHANGED links

\* The owner of a password set by an administrator is mailed a link to change it.
ChangeAnothers(r) ==
    /\ asked[r].kind = "admin"
    /\ MayBeSet(r)
    /\ SetPassword(r)
    /\ links' = [links EXCEPT ![r] = "mailed"]
    /\ End(r, "done")

\* Whether the account is open was looked up before; it may not be any more.
MailLink(r) ==
    /\ asked[r].kind = "reset"
    /\ links' = [links EXCEPT ![r] = "mailed"]
    /\ End(r, "done")
    /\ UNCHANGED password

\* A late link works, until it is removed.
UseLink(r) ==
    /\ asked[r].kind = "link"
    /\ links[asked[r].link] = "mailed"
    /\ MayBeSet(r)
    /\ SetPassword(r)
    /\ links' = [links EXCEPT ![asked[r].link] = "gone"]
    /\ End(r, "done")

Refuse(r) == End(r, "refused") /\ UNCHANGED <<password, links>>

-----------------------------------------------------------------------------
(* Time, the timer, and the other changes of an account *)

Expire(t) ==
    /\ links[t] = "mailed"
    /\ late' = late \cup {t}
    /\ UNCHANGED <<password, open, links, asked, state>>

Remove(gone) ==
    /\ gone \subseteq late
    /\ \A t \in gone : links[t] = "mailed"
    /\ links' = [t \in Request |-> IF t \in gone THEN "gone" ELSE links[t]]
    /\ UNCHANGED <<password, open, late, asked, state>>

Switch(a) ==
    /\ open' \in {open \cup {a}, open \ {a}}
    /\ UNCHANGED <<password, links, late, asked, state>>

-----------------------------------------------------------------------------
Init ==
    /\ password \in [Account -> Password]
    /\ open \subseteq Account
    /\ links = [t \in Request |-> "none"]
    /\ late = {}
    /\ asked \in [Request -> [kind : {"self", "admin", "reset", "link"},
                              target : Account, old : Password, new : Password,
                              link : Request]]
    /\ \A r \in Request :
         asked[r].kind = "link" => Target(asked[r].link) = Target(r)
    /\ state = [r \in Request |-> "open"]

Next == \/ \E r \in Request : \/ ChangeOwn(r) \/ ChangeAnothers(r)
                              \/ MailLink(r) \/ UseLink(r) \/ Refuse(r)
        \/ \E t \in Request : Expire(t)
        \/ \E gone \in SUBSET Request : Remove(gone)
        \/ \E a \in Account : Switch(a)

Spec == Init /\ [][Next]_vars
=============================================================================
