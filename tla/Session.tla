------------------------------ MODULE Session ------------------------------
(***************************************************************************)
(* The session of a browser: the cookies token and role, the guards of the *)
(* routes, the navigation bar that renews the token, logging in and out,   *)
(* while others grant and revoke the levels of the accounts it logs in to. *)
(*                                                                         *)
(* Effects run after a page is drawn: those of the navigation bar, then    *)
(* the page's, then the guard's, all with the cookies of that drawing; a   *)
(* cookie they or an answer change is a reason to draw again.  A reload is *)
(* asked for and comes later: until then effects run and answers arrive.   *)
(*                                                                         *)
(* A cookie set without a path belongs to the directory of the page.  The  *)
(* pages here are those of the root directory, which share their cookies.  *)
(***************************************************************************)
EXTENDS Naturals

CONSTANTS
    Call,         \* bounds the calls under way
    Account,      \* the accounts whose passwords the user knows
    Grants,       \* bounds the sets of levels an account may have
    Life,         \* how long a token is valid
    MaxTime       \* bounds time

Level == {"OWNER", "MANAGER", "ADMIN"}

ASSUME SessionAssumption ==
    /\ Grants \subseteq (SUBSET Level) \ {{}}
    /\ Life \in Nat /\ MaxTime \in Nat

VARIABLES
    now,
    authView,     \* the active levels of an account, none while it is disabled
    token,        \* the cookie token
    role,         \* the cookie role
    selected,     \* selectedRole in the local storage
    page,         \* the page shown
    due,          \* the page was drawn for these and its effects have not run
    reloading,    \* a reload was asked for
    current,      \* currentRole of the navigation bar
    call          \* the calls of the page

vars == <<now, authView, token, role, selected, page, due, reloading, current, call>>

-----------------------------------------------------------------------------
(* Pages and their guards *)

Page == {"landing", "login", "logout", "list"}
HasNavbar == page \in {"landing", "list"}

AccessLevels ==
    [landing |-> Level \cup {"GUEST"}, login |-> {"GUEST"},
     logout |-> Level, list |-> {"ADMIN", "MANAGER"}]

\* mutant: the guard asks for some session
RefusedToGuests == "guard" \in due /\ role \in {"GUEST", "undefined"}
                                      /\ role \notin AccessLevels[page]

Refused == "guard" \in due /\ role \notin AccessLevels[page]

-----------------------------------------------------------------------------
(* Tokens *)

NoToken == [roles |-> {}, exp |-> 0]
Token   == [sub : Account, roles : Grants, exp : 0..(MaxTime + Life)]

HasToken   == token # NoToken
Expired(t) == t.exp < now
Dead       == HasToken /\ Expired(token)

\* The first level in the order of their names.
First(levels) ==
    CHOOSE l \in levels : \/ l = "ADMIN"
                          \/ l = "MANAGER" /\ "ADMIN" \notin levels
                          \/ levels = {"OWNER"}

Role == Level \cup {"GUEST", "null", "undefined"}

NoCall     == [kind |-> "none", answered |-> FALSE, token |-> NoToken]
CallRecord == [kind : {"login", "refresh"}, answered : BOOLEAN,
               token : Token \cup {NoToken}]

NoCalls == [c \in Call |-> NoCall]

Send(kind) ==
    \E c \in Call :
        /\ call[c] = NoCall
        /\ call' = [call EXCEPT ![c] = [kind |-> kind, answered |-> FALSE,
                                        token |-> token]]

-----------------------------------------------------------------------------
(* Drawing *)

Settled == due = {} /\ ~reloading

\* One guard stays for the pages of a group: it runs again for another role,
\* not for another page.
SameGroup(p, q) == p = "list" <=> q = "list"

\* Another page: its bar takes its role from the cookie.
Mount(p, left) ==
    /\ page' = p
    /\ due' = left \cup {"navbar"} \cup (IF SameGroup(page, p) /\ role' = role THEN {}
                                      ELSE {"guard"})
    /\ current' = role'

\* The same page: an effect runs again when what it depends on changed.
Redraw(left) ==
    /\ due' = left \cup (IF role' # role THEN {"guard"} ELSE {})
                   \cup (IF <<token', current'>> # <<token, current>>
                        THEN {"navbar"} ELSE {})
    /\ UNCHANGED page

\* A document loaded anew: cookies and storage are all that stays.
Load(p) ==
    /\ UNCHANGED <<now, authView, token, role, selected>>
    /\ page' = p
    /\ due' = {"navbar", "guard"}
    /\ reloading' = FALSE
    /\ current' = role
    /\ call' = NoCalls

Reload == reloading /\ Load(page)

-----------------------------------------------------------------------------
(* The effects *)

\* The bar: the level of a new session, the guest's without one.
Bar == HasNavbar /\ "navbar" \in due

NewSession == Bar /\ HasToken /\ current = "GUEST"

CurrentAfter ==
    IF NewSession THEN First(token.roles)
    ELSE IF Bar /\ ~HasToken THEN "GUEST" ELSE current

RoleOfNavbar == IF NewSession THEN First(token.roles) ELSE role

\* mutant: the landing page leaves the role alone
RoleOfNoPage(r) == r

\* The landing page and the guard: without a token the role is the guest's.
RoleOfLandingPage(r) == IF page = "landing" /\ ~HasToken THEN "GUEST" ELSE r
RoleOfGuard(r)       == IF "guard" \in due /\ ~HasToken THEN "GUEST" ELSE r
RoleOfLogout(r)      == IF page = "logout" THEN "undefined" ELSE r

TokenAfter ==
    IF page = "logout" \/ (Bar /\ Dead) THEN NoToken ELSE token

\* Where the page goes to; the last to navigate wins.
Destination ==
    IF Refused \/ (Bar /\ Dead) \/ (page = "login" /\ HasToken) THEN "landing"
    ELSE IF HasNavbar /\ Dead THEN "logout" ELSE page

Renews == HasNavbar /\ HasToken /\ ~Dead

RunEffects ==
    /\ due # {}
    /\ token' = TokenAfter
    /\ role' = RoleOfGuard(RoleOfLandingPage(RoleOfLogout(RoleOfNavbar)))
    /\ reloading' = (reloading \/ Refused \/ page = "logout")
    /\ IF Renews THEN Send("refresh") ELSE UNCHANGED call
    /\ UNCHANGED <<now, authView, selected>>
    /\ IF Destination # page THEN Mount(Destination, {})
       ELSE current' = CurrentAfter /\ Redraw({})

-----------------------------------------------------------------------------
(* Answers *)

Granted(account, levels) ==
    [sub |-> account, roles |-> levels, exp |-> now + Life]

\* mutant: the signature is checked, the expiry is not
AcceptsAny(c) == call[c].kind \in {"login", "refresh"}

\* The server: a login gives the levels the account has, if any; a renewal
\* those of a token that has not expired, without a look at the account.
Accepts(c) == call[c].kind = "login" \/ ~Expired(call[c].token)

Authenticate(c) ==
    /\ call[c].kind = "login" /\ ~call[c].answered
    /\ \E account \in Account :
         /\ authView[account] # {}
         /\ call' = [call EXCEPT ![c].answered = TRUE,
                                 ![c].token = Granted(account, authView[account])]
    /\ UNCHANGED <<now, authView, token, role, selected, page, due, reloading, current>>

RefreshToken(c) ==
    /\ call[c].kind = "refresh" /\ ~call[c].answered
    /\ Accepts(c)
    /\ call' = [call EXCEPT ![c].answered = TRUE,
                            ![c].token = Granted(call[c].token.sub, call[c].token.roles)]
    /\ UNCHANGED <<now, authView, token, role, selected, page, due, reloading, current>>

\* Refused or lost: the page hears of it and stays as it is.
Fail(c) ==
    /\ call[c] # NoCall /\ ~call[c].answered
    /\ call' = [call EXCEPT ![c] = NoCall]
    /\ UNCHANGED <<now, authView, token, role, selected, page, due, reloading, current>>

\* Whatever page is shown by now; a login goes on to the landing page.
Receive(c) ==
    /\ call[c].answered
    /\ call' = [call EXCEPT ![c] = NoCall]
    /\ token' = call[c].token
    /\ UNCHANGED <<now, authView, role, selected, reloading>>
    /\ IF call[c].kind = "login" /\ page # "landing"
       THEN Mount("landing", due)
       ELSE UNCHANGED current /\ Redraw(due)

-----------------------------------------------------------------------------
(* The user *)

Navigate(p) ==
    /\ Settled
    /\ UNCHANGED <<now, authView, token, role, selected, reloading, call>>
    /\ Mount(p, {})

\* Any page by its address.
OpenUrl == Settled /\ \E p \in Page : Load(p)

HandleButtonClick == page = "landing" /\ ~HasToken /\ Navigate("login")

HandleSubmit ==
    /\ Settled /\ page = "login"
    /\ Send("login")
    /\ UNCHANGED <<now, authView, token, role, selected, page, due, reloading, current>>

ClickLogo == page = "list" /\ Navigate("landing")

ClickList == page = "landing" /\ current \in {"ADMIN", "MANAGER"} /\ Navigate("list")

HandleClickOpenLogout == HasNavbar /\ HasToken /\ Navigate("logout")

\* The list without the levels in the token: the server refuses it.
FetchRefused ==
    /\ page = "list" /\ HasToken
    /\ token.roles \cap {"ADMIN", "MANAGER"} = {}
    /\ Navigate("landing")

\* mutant: the list of levels keeps the entry it starts with
OfferedAtFirst == {"GUEST"} \cup token.roles

OfferedRoles == token.roles

\* The dialog offers the levels of the token ...
HandleChangeRole ==
    /\ Settled /\ HasNavbar /\ HasToken
    /\ selected' \in OfferedRoles
    /\ UNCHANGED <<now, authView, token, role, page, due, reloading, current, call>>

\* ... and closes with what the storage holds, chosen now or in an earlier
\* session, or nothing.
HandleCloseRole ==
    /\ Settled /\ HasNavbar /\ HasToken
    /\ role' = selected
    /\ reloading' = TRUE
    /\ UNCHANGED <<now, authView, token, selected, current, call>>
    /\ Redraw({})

Tick ==
    /\ now < MaxTime
    /\ now' = now + 1
    /\ UNCHANGED <<authView, token, role, selected, page, due, reloading, current, call>>

\* Somebody grants or revokes levels, disables or enables an account.
Others ==
    /\ \E account \in Account, levels \in Grants \cup {{}} :
         authView' = [authView EXCEPT ![account] = levels]
    /\ UNCHANGED <<now, token, role, selected, page, due, reloading, current, call>>

-----------------------------------------------------------------------------
Init ==
    /\ now = 0
    /\ authView \in [Account -> Grants \cup {{}}]
    /\ token = NoToken
    /\ role = "undefined"
    /\ selected = "null"
    /\ page \in Page
    /\ due = {"navbar", "guard"}
    /\ reloading = FALSE
    /\ current = role
    /\ call = NoCalls

Next ==
    \/ RunEffects \/ Reload
    \/ OpenUrl \/ HandleButtonClick \/ HandleSubmit
    \/ ClickLogo \/ ClickList \/ FetchRefused
    \/ HandleChangeRole \/ HandleCloseRole \/ HandleClickOpenLogout
    \/ \E c \in Call : Authenticate(c) \/ RefreshToken(c) \/ Fail(c) \/ Receive(c)
    \/ Tick \/ Others

Spec == Init /\ [][Next]_vars

-----------------------------------------------------------------------------
(* Properties *)

\* The variables have the shapes the cookies and the page give them.
TypeOK ==
    /\ now \in 0..MaxTime
    /\ authView \in [Account -> Grants \cup {{}}]
    /\ token \in Token \cup {NoToken}
    /\ role \in Role /\ current \in Role
    /\ selected \in Level \cup {"null"}
    /\ page \in Page
    /\ due \subseteq {"navbar", "guard"}
    /\ reloading \in BOOLEAN
    /\ call \in [Call -> CallRecord \cup {NoCall}]

\* However cookies change under a page, by the bar, by an answer that comes
\* late or by the dialog of levels, a page that has come to rest is one its
\* guard lets this role see (PrivateRoute).
ShownPageIsAllowed == Settled => role \in AccessLevels[page]

\* A landing page at rest without a token is the guest's: the bar shows
\* nobody's role and the cookie does not keep the last one.
LandingOfGuest ==
    Settled /\ page = "landing" /\ ~HasToken
        => current = "GUEST" /\ role = "GUEST"

\* The tokens of the browser, held or under way, that the server accepts.
Alive == {t \in {token} \cup {call[c].token : c \in Call} :
            t # NoToken /\ ~Expired(t)}

JustAnswered(t) ==
    \E c \in Call : /\ call[c].kind = "login" /\ ~call[c].answered
                    /\ call'[c].token = t

\* A token that is valid says what one that was valid before it said, of the
\* same account, or is a login's that has just found these levels.  A level that
\* is revoked, or an account that is disabled, lives on in a browser only as
\* long as its renewals are never late, and no answer out of order revives it.
RightsComeFromLogin ==
    [][\A t \in Alive' :
         \/ \E s \in Alive : s.sub = t.sub /\ s.roles = t.roles
         \/ JustAnswered(t) /\ t.roles = authView[t.sub]]_vars

\* So an expired session needs a login, ...
ExpiredForGood ==
    [][Alive = {} /\ Alive' # {} => \E c \in Call : call[c].kind = "login"]_vars

\* ... and once no valid token of the browser has a revoked level, none gets
\* one again before something else is revoked.
Revoked(t) == ~(t.roles \subseteq authView[t.sub])

NoRevokedToken == \A t \in Alive : ~Revoked(t)

RevokedForGood ==
    [][NoRevokedToken /\ authView' = authView => NoRevokedToken']_vars
=============================================================================
