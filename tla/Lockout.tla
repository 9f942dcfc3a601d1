------------------------------- MODULE Lockout -------------------------------
(***************************************************************************)
(* What the lockout promises, as if each login, each change of the flag    *)
(* and each run of the timer took place at once.  A login may look at the  *)
(* account and take effect later; what it does then depends on what others *)
(* have done meanwhile only in the ways that are said here.                *)
(***************************************************************************)
EXTENDS Naturals

CONSTANTS Account, Login, Limit

VARIABLES
    enabled,      \* the account can be logged in to
    failures,     \* how many failed logins it has counted
    old,          \* the accounts whose last counted failure is a day old
    asked,        \* the logins: to which account, and whether rightly
    state,        \* what has become of them
    switched,     \* those whose account was enabled or disabled meanwhile
    recounted,    \* those whose account's failures were written meanwhile
    selected,     \* the accounts the timer is about to unlock
    toggled,      \* those of them enabled or disabled since it selected them
    refailed      \* those of them whose failures were written since

vars == <<enabled, failures, old, asked, state, switched, recounted, selected,
          toggled, refailed>>

User(r) == asked[r].user

\* The logins in done end; of the others, some of those of the accounts in
\* written have been overtaken by this step.
Overtaken(before, after, written, done) ==
    /\ before \ done \subseteq after
    /\ after \subseteq (before \cup {r \in Login : User(r) \in written}) \ done

\* The flags of the accounts in flags are written, and the failures of those in
\* counters, while the timer stays where it is.
Others(flags, counters, done) ==
    /\ Overtaken(switched, switched', flags, done)
    /\ Overtaken(recounted, recounted', counters, done)
    /\ toggled' = toggled \cup (selected \cap flags)
    /\ refailed' = refailed \cup (selected \cap counters)
    /\ UNCHANGED <<asked, selected>>

-----------------------------------------------------------------------------
(* Logins *)

\* Only an enabled account is logged in to.
Pass(r) ==
    /\ state[r] = "new"
    /\ asked[r].valid /\ enabled[User(r)]
    /\ state' = [state EXCEPT ![r] = "passed"]
    /\ Others({}, {}, {})
    /\ UNCHANGED <<enabled, failures, old>>

\* The failures it clears have not been written since it looked at them.
Succeed(r) ==
    /\ state[r] = "passed" /\ r \notin recounted
    /\ state' = [state EXCEPT ![r] = "granted"]
    /\ failures' = [failures EXCEPT ![User(r)] = 0]
    /\ Others({}, {User(r)}, {r})
    /\ UNCHANGED <<enabled, old>>

\* A right password that cannot be granted becomes a failure.
StartOver(r) ==
    /\ state[r] = "passed"
    /\ state' = [state EXCEPT ![r] = "new"]
    /\ Others({}, {}, {r})
    /\ UNCHANGED <<enabled, failures, old>>

\* The failure that reaches the limit disables the account, unless it was
\* enabled or disabled meanwhile.
Disables(r) == failures[User(r)] + 1 = Limit /\ r \notin switched

Fail(r) ==
    /\ state[r] = "new" /\ r \notin recounted
    /\ failures[User(r)] < Limit
    /\ state' = [state EXCEPT ![r] = "unauthorized"]
    /\ failures' = [failures EXCEPT ![User(r)] = @ + 1]
    /\ old' = old \ {User(r)}
    /\ enabled' = IF Disables(r) THEN [enabled EXCEPT ![User(r)] = FALSE] ELSE enabled
    /\ Others({a \in Account : enabled'[a] # enabled[a]}, {User(r)}, {r})

\* A failure goes uncounted only if another login or the timer came between, or
\* if it would be the last one or one too many.
Ignore(r) ==
    /\ state[r] = "new"
    /\ r \in recounted \/ failures[User(r)] + 1 >= Limit
    /\ state' = [state EXCEPT ![r] = "unauthorized"]
    /\ Others({}, {}, {r})
    /\ UNCHANGED <<enabled, failures, old>>

-----------------------------------------------------------------------------
(* Administrators, the timer and the day *)

Switch(a) ==
    /\ enabled' = [enabled EXCEPT ![a] = ~@]
    /\ Others({a}, {}, {})
    /\ UNCHANGED <<failures, old, state>>

Locked(a) == ~enabled[a] /\ failures[a] = Limit /\ a \in old

Select ==
    /\ selected = {}
    /\ selected' = {a \in Account : Locked(a)}
    /\ toggled' = {} /\ refailed' = {}
    /\ UNCHANGED <<enabled, failures, old, asked, state, switched, recounted>>

\* All locks are lifted together, of accounts that nobody has enabled or disabled
\* since they were selected; one whose failures nobody has written is locked
\* still.
Unlock ==
    /\ toggled = {}
    /\ \A a \in selected : ~enabled[a] /\ (a \notin refailed => Locked(a))
    /\ enabled' = [a \in Account |-> enabled[a] \/ a \in selected]
    /\ failures' \in [Account -> 0..Limit]
    /\ \A a \in Account :
         /\ a \notin selected => failures'[a] = failures[a]
         /\ a \in selected \ refailed => failures'[a] = 0
         /\ a \in refailed => failures'[a] \in {0, failures[a]}
    /\ Overtaken(switched, switched', selected, {})
    /\ Overtaken(recounted, recounted', selected, {})
    /\ selected' = {} /\ toggled' = {} /\ refailed' = {}
    /\ UNCHANGED <<old, asked, state>>

Abandon ==
    /\ selected' = {} /\ toggled' = {} /\ refailed' = {}
    /\ UNCHANGED <<enabled, failures, old, asked, state, switched, recounted>>

Age(a) ==
    /\ failures[a] > 0
    /\ old' = old \cup {a}
    /\ Others({}, {}, {})
    /\ UNCHANGED <<enabled, failures, state>>

-----------------------------------------------------------------------------
Init ==
    /\ enabled \in [Account -> BOOLEAN]
    /\ failures \in [Account -> 0..Limit]
    /\ old \subseteq {a \in Account : failures[a] > 0}
    /\ asked \in [Login -> [user : Account, valid : BOOLEAN]]
    /\ state = [r \in Login |-> "new"]
    /\ switched = {} /\ recounted = {}
    /\ selected = {} /\ toggled = {} /\ refailed = {}

Next == \/ \E r \in Login : Pass(r) \/ Succeed(r) \/ StartOver(r) \/ Fail(r) \/ Ignore(r)
        \/ \E a \in Account : Switch(a) \/ Age(a)
        \/ Select \/ Unlock \/ Abandon

Spec == Init /\ [][Next]_vars
=============================================================================
