# SSBD03 accounts: specifications and proofs

SSBD03 is a web application for heating costs. What it does today is manage
accounts: registration, login, access levels, personal data, passwords and
e-mail addresses. This directory holds TLA+ models of that account module,
configurations that check them with TLC, and theorems about them that TLAPS
proves. Paths below are relative to the repository; `Impl` is
`src/main/java/pl/lodz/p/it/ssbd2023/ssbd03/mok/ejb/services/AccountServiceImpl.java`
and `Endpoint` is `mok/cdi/endpoints/AccountEndpoint.java` beside it.

## The system

```
 browser (front/) --REST--> Endpoint --EJB--> Impl --JPA--> PostgreSQL
                               |                |             READ COMMITTED
                               |                +--SMTP--> MailSender
                               |                              |
 SystemScheduler: five timers, every minute ----JPA-----------+
```

* Every method of `Impl` is a transaction of its own (`REQUIRES_NEW`). A timer
  method is one transaction as well.
* Every row has a `@Version` (`AbstractEntity`). An `UPDATE` names the version the
  transaction has read; if the table has another one the flush throws, and the
  transaction rolls back. This is the only concurrency control of the program
  besides the unique indexes.
* A mail is sent inside the transaction. If it cannot be sent, the transaction
  rolls back (`MailNotSentException` is an `AppException`, which is declared
  `@ApplicationException(rollback = true)`).
* A client fetches an entity with an etag, a signature over some of its fields
  and its version, and sends etag and version back with a change.

| Part | State | Operations | Hard behaviour | Correct when |
|---|---|---|---|---|
| Login and lockout | `account.is_enable`, `login_data` | login; enable, disable; unlock timer | three transactions a login, lost races, failing mails, stale snapshots of the timer | failures are counted once each, the third locks, a lock ends after a day and not before, nobody overwrites what he has not seen |
| Access levels | `access_level_mapping`, `owner`, `manager`, `admin` | grant, revoke, change phone number | check long before flush, several rows per account, etag that does not cover them | keys unique, no lost update, one level always left |
| Registration | the form; `account`, `account_confirmation_token` | register, activate, remind, clean | two submissions of a form, a page that posts again, three actors on a token, one transaction for all expired ones | only what was checked is sent, an account that is not active has a link that works |
| E-mail | `account.email`, `email_confirmation_token` | request, confirm, expire | tokens confirmed out of order | the address is one its owner confirmed, unique |
| Passwords | three forms; `account.password`, `reset_password_token` | change, reset, expire | handlers that remember, several tokens, locks meanwhile | what is confirmed is sound, a token works once and not when the account is locked |
| Personal data, language | `personal_data`, `account.language_` | edit own, edit another's | names are part of the account's etag, not of its version; the language of neither | no blind overwrite of names |
| Sessions | cookies `token` and `role`, `selectedRole` in the local storage | log in, renew, expire, change role, log out | effects in an order, answers after a logout, cookies that outlive the page, tokens that outlive a revocation | a page at rest is one the role may see, what a token says comes from a login by renewals in time |
| Optimistic lock | `version` of every row | flush | all of the above | a write replaces what was read |
| MOW (billing) | entities only | none | none | |
| Page of an account | fields, dialogs, notices, the cookie `etag` | open, type, confirm, close, reload, leave | answers that arrive late, one etag cookie for four dialogs | a row is written as the user saw it, and only where he typed |

## Modules

| Module | Contents |
|---|---|
| `Versioned` | the version check and increment of a row |
| `Lockout` | what the lockout promises, abstractly, each operation at once |
| `LoginLockout` | login, enable and disable, the unlocking timer; implements `Lockout` |
| `LevelChanges` | what the requests about access levels promise, abstractly, each at once |
| `AccessLevels` | grants, revocations and the phone number; implements `LevelChanges` |
| `PasswordChanges` | what requests about passwords promise, abstractly, each at once |
| `Passwords` | changing passwords, reset links, their expiry; implements `PasswordChanges` |
| `Registrations` | what registration, activation and a new address promise, abstractly |
| `MailedLinks` | registration, activation, changes of an address, three timers; implements `Registrations` |
| `ConditionalWrites` | what etag and version promise, abstractly |
| `AccountPage` | the page of an account with its dialogs and the server behind it; implements `ConditionalWrites` twice |
| `PasswordForms` | the three forms for a new password |
| `RegistrationForm` | the form for a new account |
| `Session` | cookies, guards, the navigation bar |
| `MC` and the name of a module | its instance for TLC |
| the name of a module and `Proofs` | theorems |

`Versioned` is used by the three models of the server above it, by `MailedLinks`,
and by the two of the page. The models of the browser (`AccountPage`,
`PasswordForms`, `RegistrationForm`, `Session`) have only as much of the server in
them as decides what it answers.

### LoginLockout

`account` and `loginData` are the two tables, reduced to `isEnable`,
`invalidLoginCounter` and the versions. `aged` stands for the clock: an account is
in it when its last counted failure is a day old or more. `login`, `edit` and
`sweep` are the open requests and the timer's transaction.

A service transaction reads, and later flushes and commits. The model has one
action for each read and one for the end:

* `Authenticate` is the first transaction of `POST /login`: the identity store
  looks the user up in the view `glassfish_auth_view`, which shows enabled
  accounts only. The outcome is the argument of the `updateLoginData` that follows.
* `BeginUpdate` and `ReadLoginData` are two actions because they are two `SELECT`s:
  at READ COMMITTED another transaction may commit between them.
* `Grant` and `Count` end `updateLoginData(true)` and `(false)`. `GrantFails`
  is the `catch` of `Endpoint`, which calls `updateLoginData(false)` after a login
  with the right password; `CountFails` is the `catch` of `Impl` that swallows a
  lost race, a refused fourth failure and a lockout mail that was not sent.
* `View`, `BeginEdit`, `RefuseEdit`, `CommitEdit`, `EditMailFails` and
  `EditConflict` are `PATCH /{username}/enable` and `/disable` with the GET before
  them and the retry loop around them. A retry (`EditConflict`) keeps etag and
  version.
* `BeginSweep`, `LoadLoginData`, `CommitSweep` and `SweepFails` are `unlockAccounts`.
  The query selects accounts; the login data of each is loaded by a `SELECT` of its
  own afterwards, so that the timer may reset a counter it has not selected on.

The end of a transaction is one step although it flushes several rows: a flushed
row stays locked until the commit, so that a check that passed still holds there.
Hibernate writes a row only if the transaction changed it (`Locks`, `EditDirty`,
`SweepResets`): this is what makes `setIsEnable(false)` on an account read as
disabled a no-op, and no version is checked for it.

Left out: the other writers of the account row (password, address, language,
activation), whose effect here is one more reason for a version to be old; a level
ADMIN granted while a request is served (`Admins` is constant; rows of
`access_level_mapping` are never removed, revoked ones count as well); the
addresses and dates of `login_data`. A client address that is not IPv4 fails the
validation of `LoginData` and every update with it; no such client is modelled.
A login of an unknown or inactive user behaves as one with a wrong password.

`Lockout` is the same without transactions: the flag and the counter of an account
are one value each, without versions, and a login, a change of the flag and a run of
the timer are a step or two. Where the code's concurrency shows in what it does, the
abstract action says so in its guard:

* `Pass` looks at the flag, `Succeed` does not: an account locked between the two is
  granted its token nevertheless. `Succeed` requires that nobody has written the
  counter since the login read it.
* `Fail` counts one more than the counter holds at that moment, and disables the
  account at the limit unless somebody switched it meanwhile (`Disables`).
* `Ignore` says when a failure may go uncounted: the counter was written meanwhile,
  or this is the failure that locks (its mail may fail) or one beyond it. A failure
  below the limit with nobody else about is always counted.
* `Unlock` enables all accounts selected, only if nobody has switched any of them
  since; a counter written since then may be left as it is.

The mapping is at the end of `LoginLockout`. `enabled`, `failures`, `asked` and
`state` are read off the rows and requests, `selected` is the timer's batch. Whether
something was written meanwhile is seen by comparing what a transaction has read
with the stored row (`Switched`, `Recounted`, `Toggled`, `Refailed`): since versions
never come back, it cannot look unwritten again. A login's "meanwhile" starts with
its reads, hence `Overtaken` adds some of the logins concerned, and takes none away.

### AccessLevels

`mapping[a][l]` is the row of level `l` of account `a`, `Absent` if there is none.
Rows are never removed. `account` holds what the checks read: `isActive` and the
version in the etag; `ChangeAccount` stands for all other writers of that row.

A request is `View` (the GET), then `Begin` or `Refuse` (all checks of the service
method), then `Commit` or `Fail` (the flush, which the methods leave to the commit,
and the mail). `Begin` is one step although a
method reads the account, then its levels, then the row of the key. It stands at
the last of these reads. If the request's own row changed since the levels were
read, its flush is refused, as it is in the model when the row changes after
`Begin`; a revocation reads nothing after the levels, which are one `SELECT`, and
counts them there. The account was read a little earlier than in the model; but
no later step reads it, `isActive` is never reset, and its version changes only by
`ChangeAccount`, which may as well come after `Begin`. `Written` is the whole row:
Hibernate's UPDATE has all its columns, which is why a stale phone number could
reactivate a revoked level were it not for the version.

`changePhoneNumber` sends no mail, so only a refused flush fails it.

In `LevelChanges` each level of an account was never granted, is active or is revoked;
rows, versions and snapshots are gone. `Grant`, `Revoke` and `ChangePhone` are the
commits, with the conditions of the checks. `LookUp` is the one read that cannot be
moved to the commit: that the account has another level, which is in another row.

Left out: the owner row that registration inserts.

### Passwords

`account` holds the password, the version and `isOpen`, which is `is_active` and
`is_enable` together: every check here asks for both. A token is named after the
request that inserts it; the ten digits it consists of are not modelled, and a
collision of two is a failing request. `expired` says that its date has passed.
`sweep` is what the timer has read, empty between two runs.

A request is one of four kinds:

* `self`, `changeSelfPassword`: `View`, `Begin`, `Commit`. It needs the old
  password, and not that the account is open.
* `admin`, `changeUserPassword`: the same, and a token is mailed.
* `reset`, `resetPassword`: `Begin` reads the account, `Commit` inserts the token.
  Nothing is updated, so no version is checked.
* `link`, `changePasswordFromResetPasswordLink`: `ReadToken`, then `Begin`, because
  Hibernate loads the account of the token in a second `SELECT`. The commit updates
  the account and deletes the token; a `DELETE` that finds no row throws as a stale
  `UPDATE` does. Nothing but the timer looks at the expiration date.

`Written` is the whole row, as an UPDATE of Hibernate writes it. The mail of an
administrator's change or of a reset can fail (`Fail`); the two others send none.
`ChangeAccount` stands for the other writers of the account.

`PasswordChanges` says what is promised of all this, without versions, phases and what
a transaction has read: a request is open, done or refused, and when it is done
the conditions hold of the accounts and links as they are at that moment.
`ChangeOwn`, `ChangeAnothers`, `MailLink` and `UseLink` are the four commits, `Remove`
is that of the timer, `Switch` the other writers. It also says what is not promised:
that an account a link is mailed for is still open, and that a late link is refused.

Left out: personal data in the etag; roles, the callers have those they need; the
check that both copies of a new password are equal, which reads no state.

### MailedLinks

`account` holds whether the account exists and is active, its address and version.
`link[a]` is the row of `account_confirmation_token` of `a`: mailed, reminded (a
reminder writes the row, so that its version is another), or used, that is, deleted.
`change[c]` is a row of `email_confirmation_token`. `request` is what the pages
behind the links have asked for, `timer` the transaction of a timer: the timers are
methods of one `@Singleton` and run one at a time.

* `CreateOwner` inserts account and token and mails the link, in one transaction.
* `ActivateFromEmail`, `FindToken`, `ReadAccount`, `Commit`: the token and the
  account are two `SELECT`s; the flush updates the account, if the transaction has
  changed it, and deletes the token. `Refuse` is every way it can fail.
* `ReceiveAnswer`: the page of an activation is drawn again when it is told of the
  success, and its effect posts again. The second post finds no token.
* `ChangeEmail`, `ConfirmEmail`, and the same steps, for a new address. Nothing is
  written when a change is asked for, so an account may have several under way.
* `BeginReminder`, `SendActivationReminder`, `ReminderFails`, and the same for the
  two other timers: each selects all its rows, and one that fails undoes all.
* `CleanUnconfirmedAccounts` has no effect, and that is what the code does:
  `SystemScheduler` removes and flushes the account before the token that
  references it. The foreign key refuses, and the transaction is rolled back. No
  account that was not confirmed is ever removed; its link stays valid.

`Registrations` has neither tokens of accounts, nor requests or versions: an account
that is inactive can be activated, and is reminded once. The steps that end in a
commit are its actions. One of them is there because the refinement could not be
proved without: `Repeat`, the use of a link that has no effect. The address was asked
for twice; the first link has brought it, and a request by the second has read the
account with it, so that it has nothing to write and checks no version. If a third
link changes the address before its flush, the second is used up and answered as a
success, and the address is that of the third.

Left out: the password, level and owner rows a registration inserts (`RegistrationForm`
and the unique user name stand for that side of it); the ten digits of a token.

### AccountPage and ConditionalWrites

The page an administrator or manager sees of an account, or a user of his own, and
its thirteen dialogs. `account`, `levels` and `personal` are the server's rows;
`call` the calls of the page, each sent, handled and heard of; `etagCookie` the one
cookie that four dialogs use; `got` what each dialog has kept of an answer; `form`,
`valid`, `dialog`, `confirm` and `notices` the state of the components.

A dialog is one action for each handler: `HandleClickOpen` (which asks for etag and
version), `HandleNameChange` or `HandleInput`, `HandleConfirm`,
`HandleConfirmConfirm` (which sends the change), `HandleClose`, `CloseNotice`. The
names of these operators are those of the handlers. `ReceiveCopy`, `ReceiveResult`,
`ReceiveView` and `Lose` are what happens when a call ends; nothing orders them, and
a dialog can be confirmed before its own copy has come. What has been typed by then
is sent with what was kept before. `ReloadAfter` is `window.location.reload()`: the
component state is gone, the cookie is not, and changes that were sent may still be
served.

`Accept` and `Reject` are the server: etag and version as they were at the request
must be those of the row. It is one step here; the race between check and commit is
what `LoginLockout`, `AccessLevels` and `Passwords` are about.

`ConditionalWrites` says what clients rely on: who asks for a write has seen the row,
or nothing of it; a write happens at most once, and only while the row is as its
client saw it. `AccountRow` and `PersonalRow` instantiate it for the two rows, with
the calls that are sent and not answered as the pending writes.

Left out: the requests of pages in the background; the dialog of languages.

### PasswordForms

`EditPassword`, `EditUserPassword` and `ResetPassword`. `flag` holds the five states
that the handlers of the first remember; `validData` is what enables the button.
Each handler computes it from the text that is typed, the texts of the other fields,
and flags. Two flags never become `FALSE` again (`"old"`, `"new"`), and one is
remembered instead of computed. `screen` and `notice` are what lies on top.

### RegistrationForm

`text` is what the fields hold; `HandleChange` checks the value *before* the change
and only shows a message by it (`info`), `HandleConfirm` checks all. `dialog` is the
stack of open dialogs. "No" in the confirmation calls `handleConfirmClose`, which
closes the dialogs of a success and not the one it is given in: it changes nothing,
and only "yes" or a click beside the dialog, which leaves for the login, gets out of
it. `Handle` is the server with its unique index on the user name; `names`
and `ours` are the accounts that exist and those this page has made.

### Session

`token` and `role` are cookies, `selected` the local storage, `page` the page shown
(four stand for all of the root directory), `current` the state of the navigation
bar. React runs the effects of a page after it is drawn, those of the bar, the page
and the guard in this order, all with the values of that drawing: `RunEffects` is
one step for them. `due` says which have not run; `Mount` and `Redraw` say which a
new page or a changed dependency makes due again. `reloading` is a reload that was
asked for and comes later. `Authenticate`, `RefreshToken`, `Fail` and `Receive` are
the calls; `Receive` may find any page. `authView` is `glassfish_auth_view`
(`init.sql`), in which a disabled account has no row: a login gives the levels it
finds there, while a renewal keeps those of the token it renews
(`JwtGenerator.refreshTokenJWT`). `Others` stands for everything that changes the
view. A login reads it and makes the token in one step: a revocation that commits
between the two in the code is, here, one that follows the answer.

Left out: the pages under `/accounts/self`, whose cookies have a directory of their
own (they are set without a path, and `Logout.tsx` removes those of `/` only). A role
`"null"`, which the dialog of levels may store, sends the landing page into reloads
without end; no liveness is claimed for it.

## Checks

`tlc -workers 2 -config <cfg> <module>`; every run ends within three minutes.

| Run | Module, cfg | Distinct states |
|---|---|---|
| `lockout_safety` | `MCLoginLockout`, `LoginLockout_safety.cfg` | 745 thousand |
| `lockout_liveness` | `MCLoginLockout`, `LoginLockout_liveness.cfg` | 104 thousand |
| `lockout_authtest` | `MCLoginLockout`, `LoginLockout_authtest.cfg` | stops at a violation |
| `levels_safety` | `MCAccessLevels`, `AccessLevels_safety.cfg` | 563 thousand |
| `levels_lastlevel` | `MCAccessLevels`, `AccessLevels_lastlevel.cfg` | stops at a violation |
| `passwords_safety` | `MCPasswords`, `Passwords_safety.cfg` | 1.0 million |
| `passwords_liveness` | `MCPasswords`, `Passwords_liveness.cfg` | 261 thousand |
| `links_safety` | `MCMailedLinks`, `MailedLinks_safety.cfg` | 1.7 million |
| `page_safety` | `MCAccountPage`, `AccountPage_safety.cfg` | 440 thousand |
| `forms_safety` | `MCPasswordForms`, `PasswordForms_safety.cfg` | 1596 |
| `registration_safety` | `MCRegistrationForm`, `RegistrationForm_safety.cfg` | 801 thousand |
| `session_safety` | `MCSession`, `Session_safety.cfg` | 1.2 million |

Deadlock is checked in `session_safety` only: a browser always has a next step. The
other systems may rest, when each request has been served once, a page has been
left, or an instance has come to the end of its bounds.

**lockout_safety** Two accounts. `user` is logged in to three times, with right
or wrong passwords, and enabled or disabled once by `boss`, who is either an
ordinary account or waits for the timer, so that a sweep can hold two accounts. Three logins are the fewest that reach the limit from zero;
the counter starts at 0, 1 or 2, so that a fourth failure, and a race of two
failures for the limit, happen too. Both may be administrators, so that the mail
that can fail is sent. `TxRetries` is 2: one retry. It shows:

* `SnapshotsAgree`: a transaction or a client has read a row that is the stored
  one, or an older version of it. The timer may have loaded one half of what it
  uses before and one half after somebody else's commit.
* `LockoutImplemented`: every behaviour is one of `Lockout`.
* `EveryFailureCounts`: a write of the counter is one more than the table held or a
  reset.
* `ThirdFailureDisables`: the write that takes the counter to three leaves the
  account disabled, except when the request had read the account disabled and
  somebody enabled it before the commit. TLC reaches the exception.
* `SweepUnlocksOnlyExpiredLocks`: at the timer's commit its accounts are disabled
  and locked for a day, except when a login wrote the login data between the query
  and the second `SELECT`. TLC reaches this exception too.
* `IfMatchHonoured`, `RetryIsFutile`: an enable or disable writes only over the
  account its client saw; hence the endpoint's retry never gets as far as writing.

**lockout_liveness** `LockIsLifted`, with two logins and without symmetry. Fairness:
time passes and the timer fires (`WF` of `Age` and `BeginSweep`, a schedule of the
container); its transaction reads on and ends (`WF`); and it does not fail for ever
(`SF` of `CommitSweep`): the mail server accepts mail again some time, and the logins
that can make it lose races are finitely many. Logins and edits are not fair. The
property allows an account to leave the limit and stay disabled: a login
authenticated before the lock may reset the counter after it, and then the timer
never selects the account. Only an administrator can enable it.

**lockout_authtest** `AuthTest.ValidCredentialsOnDisabledUser` expects that after
three wrong passwords the right one is refused because the account is disabled.
TLC finds a run where it is not: a count or the lockout mail fails, and `Impl` lines
144 and 145 swallow it.

**levels_safety** Two administrators, `ann`, who is an owner as well, and `bob`, who
has a revoked row of a manager or owner; two phone numbers and one license, three
requests, one other change of each account. Two numbers let a grant collide with, swap
or repeat one; three requests let two race and a third change what the first has seen.

* `UniqueKeys`: two accounts never share a phone number or a license.
* `RequestsAreAtomic`: `AccessLevels` implements `LevelChanges`. The row written is
  still the row that was read, so that a level is granted once, keeps the key it was
  granted with, and comes back only by a grant.
* `LastLevelLostOnlyBySkew`: an account without levels is the work of two
  revocations, each of which saw the level the other took.

**levels_lastlevel** The last property cannot be strengthened: TLC finds the two
revocations, contrary to the message "One level of access cannot be taken away". One
administrator is enough: in TLC's trace both requests are `bob`'s.

That one change of each account and two keys are enough for these properties is
what the theorems below show: they hold for any number of either.

**passwords_safety** One account, two passwords, three requests of any kinds, two
other changes of the account. One account is enough: those of several meet in the
timer's transaction only, which reads no account, and two tokens of one account
meet there as well. Three requests are a mailed link and two uses of it, or two
links of which one is used while the timer deletes both.

* `LinkWorksOnce`: the two uses may both find the token, and the second may read
  the account after the first has committed, so that its version is current. The
  deleted row is what stops it.
* `RequestsAreAtomic`: of the requests that interleave nothing can be told but that
  each took place at its commit (`PasswordChanges`). A lock that comes between the
  check and the commit changes the version, and the password is not set; of two
  changes of one's own password only one finds the old one correct. A link may still
  be *mailed* to an account locked meanwhile; it does not work until that is open again.
* `SeenAccountChanged`: the password is not part of the etag, but every writer of it
  takes the next version, which is.

**passwords_liveness** `TokensDisappear`. Time passes, the timer fires and its
transaction ends (`WF` of `Expire`, `BeginSweep`, `EndSweep`); users need not do
anything. Each use of a link rolls the timer's transaction back at most once, and
uses are finitely many.

**links_safety** Two accounts, three addresses, two changes and two requests at a
time, one other write of `ann`'s account; addresses, changes and requests are
symmetric. Only `ann` uses links of activation and is reminded: the two links meet in
one account as well as in two, and a timer's list of two is that of the third timer.
Two requests are two uses of one link, or of two; a third address lets an account
change twice.

* `LinkUntilActive`: an account has its link until it is active, whoever of reminder,
  cleaning timer and activation comes first. Would the timer work as intended, this
  could not be said of an account that exists.
* `UniqueEmails`: the address is looked for when the change is asked for and written
  much later; the index decides.
* `LinksAreAtomic`: `MailedLinks` implements `Registrations`. A new address is that of a
  change of this account, mailed and used in this step; the row that is deleted lets
  no second use, and no stale request, bring an older address back. `Repeat` needs
  three changes of one account, two of them to one address, and does not happen with
  two; the theorem covers it.

**page_safety** Eleven visits, each of a page, a role and one or two dialogs that
share a state or a cookie; two calls at a time, two names, one change of either row
by others, two versions. The versions count: one other write and one of the page's
own make an etag of every age.

* `AccountWrittenAsSeen`, `NamesWrittenAsSeen`: the page implements
  `ConditionalWrites`, for the row of the account and that of the names.
* `OnlyTypedFieldsChange`: both names are sent, and the one nobody edited is stored
  as it was. An answer may replace what was typed meanwhile; it then has the etag
  that goes with it.
* `EnableFlips`: enabling and disabling share the cookie; the flag that says which of
  them is needless starts as `FALSE`. The server accepts neither for an account that
  is so already.
* `NamesStayValid`: the button is enabled by the state before the last change, and
  the server accepts any text: no malformed name is stored, since the confirmation
  drops a form with an error.

**forms_safety** Two acceptable passwords, a malformed and an empty text, in any
order and any number of times: every reachable combination of fields and flags.
`ConfirmedPasswordIsSound`, with the exception the page of a forgotten password makes
(its button is enabled before anything is typed), and the converse
`RightFormIsAccepted`.

**registration_safety** All eight fields, two user names and passwords, two calls.
Names, address, number and language are filled in this order, since no handler reads
one of them for another. `OnlyValidIsSent`; `SuccessIsTrue`: two calls may be under
way, one answered 201 and one 409, and the dialogs of both be open.

**session_safety** Two calls, two accounts that have two levels, one or none and
change between these, tokens that live one unit of two; accounts are symmetric. A
renewal can be answered before and after its token has expired, after a logout, and
after a login to the other account. `ShownPageIsAllowed`, `LandingOfGuest`, and

* `RightsComeFromLogin`: a valid token says what a valid one before it said of the
  same account, or is a login's and says what the view says. A late answer to a
  renewal does log a browser in again after a logout, and a revoked level or a
  disabled account lives on in a browser that renews in time, for the server compares
  no token with the database; this is what remains true. `SessionProofs` draws two
  conclusions: an expired session needs a login (`ExpiredForGood`), and once no valid
  token of the browser has a revoked level none gets one again before something else
  is revoked (`RevokedForGood`).

## Proofs

`tlapm LoginLockoutProofs.tla`, and the same for the other `Proofs` modules. They
assume only what the modules name: `LockoutAssumption` (`Admins` are accounts, there
is at least one attempt), `LevelsAssumption` and `PasswordsAssumption` (the bound on
the version is a number), `LinksAssumption` (so is this one, and `NoEmail` is no
address), `FormsAssumption` and `PageAssumption` (texts differ; a bound is a number),
`FieldsAssumption` (the form has a name and two passwords, no field accepts nothing,
both passwords accept the same), `SessionAssumption` (a login gives some
level; times are numbers): any number of accounts, requests, calls, keys, addresses,
passwords and retries, from every initial state of `Init`, which is wider than that
of the instances, and for `Next` without what the `MC` modules leave out.

The argument in all models of the server is the same. If what was read agrees with the
stored row (`SameIfSameVersion`: older, or equal to it), and the row stays or takes
its next version (`Advances`), it still agrees. In `LoginLockoutProofs`, `WhoWrites` says
which actions write which row, `RowsAdvance` that every write takes the next
version, and `AgreementLasts` and `ReadAgrees` carry `SnapshotsAgree`, the
inductive invariant, over every step (`OptimisticLock`). At a flush the versions are
equal, so the row is the one that was read; the action properties follow by cases
on who wrote: `FailuresAreCounted`, `ThirdFailureLocks`, `NoBlindEnable`. Two more invariants are needed, since the snapshot alone does not
say under which condition it was taken: `RetryHoldsOldEtag` (a request on its
second attempt holds a version older than the stored one) for `RetryNeverHelps`
and `NoBlindEnable`, and `SweepSelectedExpiredLocks` (what the timer's query
selected was disabled, at the limit and a day old, and if the login data is still
that version it is still so) for `SweepIsExact`.

`LockoutIsImplemented` is the refinement. Its invariant (`Facts`) is
`TypeOK`, `SnapshotsAgree` and `SweepSelectedExpiredLocks`, with `SweepIdle` (the
timer holds nothing between two runs). `LoginsOvertaken` and
`TimerOvertaken` show once what every step does to the "meanwhile" sets, from which
rows it writes (`FlagWritten`, `CounterWritten`) and whose transaction it ends; they
rest on versions that only grow. `OthersStep` puts them together for everybody but
the timer. One lemma for each action follows: the two reads, the SELECTs of the timer
and every edit that writes nothing are stutters, `Grant` is `Succeed`, `Count` is
`Fail`, a flag that is flushed is `Switch`, `CommitSweep` is `Unlock`, each because a
version that is still the stored one means the row is (`NotOvertaken`).

In `AccessLevelsProofs`, `FlushingSaw` says the same of the row a request is about,
and in addition what its checks established on it; it gives `NoLostUpdate` (a request
commits on the row it has read), `SkewTakesLastLevel` and `RevocationsStick` (only a
grant reactivates a level). `KeysAreUnique` needs the unique index at the commit and
that a revoked row keeps its key. `RequestsImplemented` is the refinement: with
`FlushingChecked`, the other conditions of a request that has passed its checks, each
commit is `Grant`, `Revoke` or `ChangePhone` (`CommitsAtOnce`). `Begin` is `LookUp` for
a revocation and not seen otherwise; a failing flush is `Refuse`.

In `PasswordsProofs`, `RequestsSaw` says it of the row a client has seen and of the
row its transaction has read, which are the same row once the etag has been checked;
and of the row that was read what the checks established on it: that the account is
open and has another password, or that the old password is its own. Since a flush
needs the version to be the stored one, all that holds of the stored row at the
commit. `RequestsImplemented` is the refinement: one lemma for each commit, that of
the timer and the other writers; every other step ends a request as refused or is a
stutter. `LocksStopResets` (a locked account keeps its password), `OwnChangeIsExact`
(one's own change replaces the very password given as the old one) and `NoBlindChange`
follow from the same invariant. `LinksWorkOnce` rests on the tokens instead: `TokensAccounted` says that a token exists only after
its request is done, so that none is inserted twice, and that the token of a used
link is gone; a commit needs it mailed.

In `MailedLinksProofs`, `RequestSaw` says it of the account a request has read, and
`LinksMatch` that an account has a token exactly while it is registered and not
active. An activation deletes the version of the token it has read, and its account
is then inactive; this is what makes `LinksLast` inductive. `EmailsAreUnique` rests
on the index at the flush alone, `AddressFromLink` on the row of the change being
there when it is deleted. `LinksImplemented` is the
refinement. It needs one more invariant, `BroughtByLink`: if an account has the
address a mailed link is for, or had it when a request by that link read it, another
link has brought it, since the address was nobody's when it was asked for. Each
commit, each timer that succeeds and an answer that tells of an activation has a
lemma of its own; the other steps are stutters (`Unseen`).

`PasswordFormsProofs`: `FlagsTell` says what the flags still mean although two are
not taken back (an acceptable text has its flag, if not the converse; a comparison is
that of the texts as they are), and `ConfirmableIsRight` what `validData` says of the texts whoever set it last.

In `SessionProofs`, a call that has been answered, or asks for a renewal, has a token
(`SoundCall`). `TokensHandedOn` shows that only the two answers of the server make
tokens, and `Answers` what is in them. `GuestInv` says what effects that have run leave behind without one.
`Guarded` says that a page whose guard has run, for the role the cookie has now, was
let through; it is not inductive, since a page of the same group can follow without
its guard. `GuardInv` weakens it for the page of logging out, the only one such a
step can bring to a role that may not see it, and adds that this page is never at
rest (`LeavesAtOnce`).

In `AccountPageProofs`, `Sound` says of an etag, wherever it is (the cookie, a kept
copy, a call), what `SameIfSameVersion` says of a snapshot, and that names it signs
are valid. `ChangeOK` says what a change under way claims: it is about its own row,
it would flip the flag it has seen, the names not typed are those seen. `FormOK`
is why: the form differs from the copy its dialog has kept only where something was
typed since. It holds of the one dialog for names the page has (`Mine`); a call that
is heard belongs to that page (`CallOK`), or an answer could fill the form with the
names of another dialog's copy. `PreconditionTells` puts these together at the server.
For the refinement, `StepKinds` reduces every step to four kinds: a change is
accepted, somebody else writes one row or the other, or (`PageStep`) the rows stay
and at most one change starts or ends; a reload forgets who waits for a change, and
not the change. `AccountImplements` and `NamesImplement` map these to the actions of
`ConditionalWrites`.

In `RegistrationFormProofs`, the dialogs are a sequence, and `OpenStack` says what
opening one does to it: it stays free of repetitions and has the new one on top, or
is left alone. `CallsAreTrue` and `ConfirmedIsValid` make the rest inductive: a call
answered "created" has made an account, a name under way is acceptable, and while a
confirmation is open, even under other dialogs, the fields are what was checked.
`HandleChange` needs an empty stack, which is why the last one holds.

Only model-checked: `LockIsLifted` and `TokensDisappear`, since they are liveness
properties, and the two violations.

## Not modelled

* The language: `changeLanguage` assigns it to the account it has just read. It takes
  neither an etag nor a version from the client, so that the last of two changes wins;
  to the models of the account's row it is one more writer that takes the next version.
* The dialog of the login page that asks for a reset link (its request is `reset` in
  `Passwords`), and paging and sorting of the list: no property relates their state
  to any other.
* That the filter `EtagValidatorFilter` turns away a request without an etag: the
  endpoint would refuse it as well.
* The text of mails and answers, hashing, signing, mapping to DTOs and logging: no
  property is about them; a signature is modelled by the fields it covers. A mail
  that was sent cannot be taken back: where the transaction fails after it, the mail
  tells of something that did not happen, and no property speaks of it.
* MOW has no operations. Configuration is an assumption: READ COMMITTED, unique
  indexes and foreign keys as `init.sql` and the entities declare them, React in
  production mode.

## Plan

Done: the server's components and the front end's as above, the abstract
`ConditionalWrites`, `Lockout`, `LevelChanges`, `PasswordChanges` and `Registrations`,
theorems of all modules, a browser's tokens against revocations. What is left:

* `Accounts`: `LoginLockout` composed with `AccessLevels` (who is an administrator
  while a request is served) and with the other writers of the account row.
