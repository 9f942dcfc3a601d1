--------------------------- MODULE SessionProofs ---------------------------
(***************************************************************************)
(* What Session guarantees for any number of accounts and of calls under   *)
(* way, any levels accounts may have and any time a token lives.           *)
(***************************************************************************)
EXTENDS Session, TLAPS

-----------------------------------------------------------------------------
(* Types *)

\* There is a first level wherever there is one.
LEMMA FirstIsLevel ==
  ASSUME NEW levels \in SUBSET Level, levels # {}
  PROVE  First(levels) \in levels
<1> DEFINE IsFirst(l) == \/ l = "ADMIN"
                         \/ l = "MANAGER" /\ "ADMIN" \notin levels
                         \/ levels = {"OWNER"}
<1>1. \E l \in levels : IsFirst(l)
  BY DEF Level
<1>2. QED
  BY <1>1, Zenon DEF First

\* A token that is given has levels, and an end in time.
LEMMA GrantedType ==
  ASSUME TypeOK, NEW account \in Account, NEW levels \in Grants
  PROVE  Granted(account, levels) \in Token
BY SessionAssumption DEF TypeOK, Granted, Token

\* No token that is given is the absence of one.
LEMMA TokenIsSome ==
  ASSUME NEW t \in Token
  PROVE  t # NoToken /\ t.roles \in SUBSET Level /\ t.roles # {}
<1>1. t.roles \in Grants
  BY DEF Token
<1>2. t.roles \in SUBSET Level /\ t.roles # {}
  BY <1>1, SessionAssumption
<1>3. NoToken.roles = {}
  BY DEF NoToken
<1>4. QED
  BY <1>2, <1>3

\* What a renewal is asked with and what an answer brings is a token.
SoundCall == {r \in CallRecord : r.kind = "refresh" \/ r.answered => r.token # NoToken}

CallsSound == call \in [Call -> SoundCall \cup {NoCall}]

Typed == TypeOK /\ CallsSound

\* A call is sent, answered, forgotten.
LEMMA CallUpdate ==
  ASSUME Typed, NEW c \in Call
  PROVE  /\ \A kind \in {"login", "refresh"} :
              (kind = "refresh" => HasToken) =>
              [call EXCEPT ![c] = [kind |-> kind, answered |-> FALSE, token |-> token]]
                \in [Call -> SoundCall \cup {NoCall}]
         /\ [call EXCEPT ![c] = NoCall] \in [Call -> SoundCall \cup {NoCall}]
         /\ \A t \in Token : call[c].kind \in {"login", "refresh"} =>
              [call EXCEPT ![c].answered = TRUE, ![c].token = t]
                \in [Call -> SoundCall \cup {NoCall}]
<1>1. CallsSound /\ token \in Token \cup {NoToken}
  BY DEF TypeOK, Typed
<1>2. ASSUME NEW kind \in {"login", "refresh"}, kind = "refresh" => HasToken
      PROVE  [call EXCEPT ![c] = [kind |-> kind, answered |-> FALSE, token |-> token]]
                \in [Call -> SoundCall \cup {NoCall}]
  <2>1. [kind |-> kind, answered |-> FALSE, token |-> token] \in SoundCall
    BY <1>1, <1>2 DEF SoundCall, CallRecord, HasToken
  <2>2. QED
    BY <1>1, <2>1 DEF CallsSound
<1>3. ASSUME NEW t \in Token, call[c].kind \in {"login", "refresh"}
      PROVE  [call EXCEPT ![c].answered = TRUE, ![c].token = t]
                \in [Call -> SoundCall \cup {NoCall}]
  <2> DEFINE new == [call[c] EXCEPT !.answered = TRUE, !.token = t]
  <2>1. call[c] \in CallRecord
    BY <1>1, <1>3 DEF NoCall, SoundCall, CallsSound
  <2>2. t # NoToken
    BY TokenIsSome
  <2>3. new \in SoundCall
    BY <2>1, <2>2 DEF CallRecord, SoundCall
  <2> HIDE DEF new
  <2>4. [call EXCEPT ![c] = new] \in [Call -> SoundCall \cup {NoCall}]
    BY <1>1, <2>3 DEF CallsSound
  <2>5. QED
    BY <2>4 DEF new
<1>4. [call EXCEPT ![c] = NoCall] \in [Call -> SoundCall \cup {NoCall}]
  BY <1>1 DEF CallsSound
<1>5. QED
  BY <1>2, <1>3, <1>4

\* The roles that effects give.
LEMMA RoleTypes ==
  ASSUME TypeOK
  PROVE  /\ CurrentAfter \in Role
         /\ RoleOfGuard(RoleOfLandingPage(RoleOfLogout(RoleOfNavbar))) \in Role
         /\ TokenAfter \in Token \cup {NoToken}
         /\ Destination \in Page
<1>1. HasToken => First(token.roles) \in Level
  <2> SUFFICES ASSUME HasToken PROVE First(token.roles) \in Level
    OBVIOUS
  <2>1. token \in Token
    BY DEF TypeOK, HasToken
  <2>2. token.roles \in SUBSET Level /\ token.roles # {}
    BY <2>1, TokenIsSome
  <2>3. QED
    BY <2>2, FirstIsLevel
<1>2. CurrentAfter \in Role
  BY <1>1 DEF CurrentAfter, NewSession, TypeOK, Role, Level
<1>3. RoleOfNavbar \in Role
  BY <1>1 DEF RoleOfNavbar, NewSession, TypeOK, Role, Level
<1>4. RoleOfLogout(RoleOfNavbar) \in Role
  BY <1>3 DEF RoleOfLogout, Role
<1>5. RoleOfLandingPage(RoleOfLogout(RoleOfNavbar)) \in Role
  BY <1>4 DEF RoleOfLandingPage, Role
<1>6. RoleOfGuard(RoleOfLandingPage(RoleOfLogout(RoleOfNavbar))) \in Role
  BY <1>5 DEF RoleOfGuard, Role
<1>7. TokenAfter \in Token \cup {NoToken} /\ Destination \in Page
  BY DEF TokenAfter, Destination, TypeOK, Page
<1>8. QED
  BY <1>2, <1>6, <1>7

Effects == {"navbar", "guard"}

LEMMA DrawingTypes ==
  ASSUME page \in Page, role' \in Role, NEW left \in SUBSET Effects
  PROVE  /\ \A p \in Page : Mount(p, left) =>
              page' \in Page /\ due' \subseteq Effects /\ current' \in Role
         /\ Redraw(left) => page' \in Page /\ due' \subseteq Effects
BY DEF Mount, Redraw, Effects

\* What an action leaves or sets, it leaves or sets to a value of its type.
LEMMA Start == Init => Typed
<1> SUFFICES ASSUME Init PROVE Typed
  OBVIOUS
<1>1. call \in [Call -> {NoCall}]
  BY DEF Init, NoCalls
<1>2. QED
  <2>1. CallsSound /\ call \in [Call -> CallRecord \cup {NoCall}]
    BY <1>1 DEF CallsSound
  <2>2. now \in 0..MaxTime /\ authView \in [Account -> Grants \cup {{}}]
    BY SessionAssumption DEF Init
  <2>3. /\ role \in Role /\ current \in Role /\ selected \in Level \cup {"null"}
        /\ page \in Page /\ due \subseteq {"navbar", "guard"}
        /\ token \in Token \cup {NoToken} /\ reloading \in BOOLEAN
    BY DEF Init, Role
  <2>4. TypeOK
    BY <2>1, <2>2, <2>3 DEF TypeOK
  <2>5. QED
    BY <2>1, <2>4 DEF Typed

LEMMA StepTypes == Typed /\ [Next]_vars => Typed'
<1> SUFFICES ASSUME Typed, [Next]_vars PROVE Typed'
  OBVIOUS
<1> USE DEF Typed
<1> /\ now \in 0..MaxTime
    /\ authView \in [Account -> Grants \cup {{}}]
    /\ token \in Token \cup {NoToken}
    /\ role \in Role /\ current \in Role
    /\ selected \in Level \cup {"null"}
    /\ page \in Page
    /\ due \in SUBSET Effects /\ {} \in SUBSET Effects
    /\ reloading \in BOOLEAN
    /\ call \in [Call -> CallRecord \cup {NoCall}]
  BY DEF TypeOK, Effects
<1>1. CASE RunEffects
  <2>1. /\ token' \in Token \cup {NoToken} /\ role' \in Role
        /\ Destination \in Page /\ UNCHANGED <<now, authView, selected>>
    BY <1>1, RoleTypes DEF RunEffects
  <2>2. reloading' \in BOOLEAN
    BY <1>1 DEF RunEffects
  <2>3. CallsSound'
    BY <1>1, CallUpdate DEF RunEffects, Send, CallsSound, Renews
  <2>4. page' \in Page /\ due' \subseteq Effects /\ current' \in Role
    BY <1>1, <2>1, DrawingTypes, RoleTypes DEF RunEffects
  <2>5. QED
    <3>1. call' \in [Call -> CallRecord \cup {NoCall}]
      BY <2>3 DEF CallsSound, SoundCall
    <3>2. QED
      BY <2>1, <2>2, <2>3, <2>4, <3>1 DEF TypeOK, Effects, Typed
<1>2. ASSUME NEW p \in Page, Load(p) PROVE Typed'
  BY <1>2 DEF Load, NoCalls, TypeOK, Typed, CallsSound
<1>3. ASSUME NEW p \in Page, Navigate(p) PROVE Typed'
  <2>1. role' \in Role
    BY <1>3 DEF Navigate
  <2>2. page' \in Page /\ due' \subseteq Effects /\ current' \in Role
    BY <1>3, <2>1, DrawingTypes DEF Navigate
  <2>3. QED
    BY <1>3, <2>2 DEF Navigate, TypeOK, Effects, Typed, CallsSound
<1>4. CASE Reload \/ OpenUrl
  BY <1>2, <1>4 DEF Reload, OpenUrl
<1>5. CASE HandleButtonClick \/ ClickLogo \/ ClickList \/ HandleClickOpenLogout
           \/ FetchRefused
  BY <1>3, <1>5 DEF HandleButtonClick, ClickLogo, ClickList, HandleClickOpenLogout,
                    FetchRefused, Page
<1>6. CASE HandleSubmit
  <2>1. CallsSound'
    BY <1>6, CallUpdate DEF HandleSubmit, Send, CallsSound
  <2>2. call' \in [Call -> CallRecord \cup {NoCall}]
    BY <2>1 DEF CallsSound, SoundCall
  <2>3. QED
    BY <1>6, <2>1, <2>2 DEF HandleSubmit, TypeOK
<1>7. CASE HandleChangeRole
  <2>1. token \in Token
    BY <1>7 DEF HandleChangeRole, HasToken
  <2>2. selected' \in Level
    BY <1>7, <2>1, TokenIsSome DEF HandleChangeRole, OfferedRoles
  <2>3. QED
    BY <1>7, <2>2 DEF HandleChangeRole, TypeOK, Typed, CallsSound
<1>8. CASE HandleCloseRole
  <2>1. role' \in Role
    BY <1>8 DEF HandleCloseRole, Role
  <2>2. page' \in Page /\ due' \subseteq Effects
    BY <1>8, <2>1, DrawingTypes DEF HandleCloseRole
  <2>3. QED
    BY <1>8, <2>1, <2>2 DEF HandleCloseRole, TypeOK, Effects, Typed, CallsSound
<1>9. ASSUME NEW c \in Call, Authenticate(c) \/ RefreshToken(c) \/ Fail(c)
      PROVE  Typed'
  <2>1. ASSUME Authenticate(c) PROVE CallsSound'
    <3>1. PICK account \in Account :
            /\ authView[account] # {}
            /\ call' = [call EXCEPT ![c].answered = TRUE,
                                    ![c].token = Granted(account, authView[account])]
      BY <2>1 DEF Authenticate
    <3>2. Granted(account, authView[account]) \in Token
      BY <3>1, GrantedType
    <3>3. QED
      BY <2>1, <3>1, <3>2, CallUpdate DEF Authenticate, CallsSound
  <2>2. ASSUME RefreshToken(c) PROVE CallsSound'
    <3>1. call[c].kind = "refresh" /\ call[c].token \in Token
      BY <2>2 DEF RefreshToken, NoCall, SoundCall, CallRecord, CallsSound, Typed
    <3>2. call[c].token.sub \in Account /\ call[c].token.roles \in Grants
      BY <3>1 DEF Token
    <3>3. Granted(call[c].token.sub, call[c].token.roles) \in Token
      BY <3>2, GrantedType
    <3>4. QED
      BY <2>2, <3>1, <3>3, CallUpdate DEF RefreshToken, CallsSound
  <2>3. ASSUME Fail(c) PROVE CallsSound'
    BY <2>3, CallUpdate DEF Fail, CallsSound
  <2>4. call' \in [Call -> CallRecord \cup {NoCall}]
    BY <1>9, <2>1, <2>2, <2>3 DEF CallsSound, SoundCall
  <2>5. QED
    BY <1>9, <2>1, <2>2, <2>3, <2>4 DEF Authenticate, RefreshToken, Fail, Typed, TypeOK
<1>10. ASSUME NEW c \in Call, Receive(c) PROVE Typed'
  <2>1. token' \in Token
    BY <1>10 DEF Receive, CallRecord, NoCall, SoundCall, CallsSound, Typed
  <2>2. page' \in Page /\ due' \subseteq Effects /\ current' \in Role
    BY <1>10, <2>1, DrawingTypes DEF Receive, Page
  <2>3. CallsSound'
    BY <1>10, CallUpdate DEF Receive, CallsSound
  <2>4. QED
    BY <1>10, <2>1, <2>2, <2>3 DEF Receive, TypeOK, Effects, Typed, CallsSound
<1>11. CASE Tick
  BY <1>11, SessionAssumption DEF Tick, TypeOK, Typed, CallsSound
<1>12. CASE Others
  BY <1>12 DEF Others, TypeOK, Typed, CallsSound
<1>13. CASE UNCHANGED vars
  BY <1>13 DEF vars, TypeOK, Typed, CallsSound
<1>14. QED
  BY <1>1, <1>4, <1>5, <1>6, <1>7, <1>8, <1>9, <1>10, <1>11, <1>12, <1>13 DEF Next

\* Type correctness: cookies, storage, the page and its calls keep their shapes.
THEOREM TypeCorrect == Spec => []TypeOK
<1>1. Spec => []Typed
  BY Start, StepTypes, PTL DEF Spec
<1>2. Typed => TypeOK
  BY DEF Typed
<1>3. QED
  BY <1>1, <1>2, PTL

-----------------------------------------------------------------------------
(* Tokens *)

Held == {token} \cup {call[c].token : c \in Call}

\* Only the server makes tokens: whatever else effects and answers do, they
\* hand tokens on or drop them.
LEMMA TokensHandedOn ==
  ASSUME Typed, [Next]_vars
  PROVE  \/ Held' \subseteq Held \cup {NoToken}
         \/ \E c \in Call :
              /\ Authenticate(c) \/ RefreshToken(c)
              /\ Held' \subseteq Held \cup {call'[c].token}
<1> USE DEF Held
<1> \A c \in Call : call \in [Call -> CallRecord \cup {NoCall}] /\ NoCall.token = NoToken
  BY DEF Typed, TypeOK, NoCall
<1>1. ASSUME NEW kind, Send(kind) PROVE {call'[c].token : c \in Call} \subseteq Held
  BY <1>1 DEF Send
<1>2. CASE RunEffects
  BY <1>1, <1>2 DEF RunEffects, TokenAfter
<1>3. ASSUME NEW p \in Page, Load(p) PROVE Held' \subseteq Held \cup {NoToken}
  BY <1>3 DEF Load, NoCalls
<1>4. ASSUME NEW p \in Page, Navigate(p) PROVE Held' \subseteq Held \cup {NoToken}
  BY <1>4 DEF Navigate
<1>5. CASE Reload \/ OpenUrl
  <2>1. PICK p \in Page : Load(p)
    BY <1>5 DEF Reload, OpenUrl, Typed, TypeOK
  <2>2. QED
    BY <2>1, <1>3
<1>6. CASE HandleButtonClick \/ ClickLogo \/ ClickList \/ HandleClickOpenLogout
           \/ FetchRefused
  BY <1>4, <1>6 DEF HandleButtonClick, ClickLogo, ClickList, HandleClickOpenLogout,
                    FetchRefused, Page
<1>7. CASE HandleSubmit
  BY <1>1, <1>7 DEF HandleSubmit
<1>8. CASE HandleChangeRole \/ HandleCloseRole \/ Tick \/ Others \/ UNCHANGED vars
  BY <1>8 DEF HandleChangeRole, HandleCloseRole, Tick, Others, vars
<1>9. ASSUME NEW c \in Call, Fail(c) \/ Receive(c)
      PROVE  Held' \subseteq Held \cup {NoToken}
  BY <1>9 DEF Fail, Receive
<1>10. ASSUME NEW c \in Call, Authenticate(c) \/ RefreshToken(c)
       PROVE  Held' \subseteq Held \cup {call'[c].token}
  BY <1>10 DEF Authenticate, RefreshToken
<1>11. QED
  BY <1>2, <1>5, <1>6, <1>7, <1>8, <1>9, <1>10 DEF Next

LEMMA TimePasses == Typed /\ [Next]_vars => now' \in Nat /\ now' >= now
<1> SUFFICES ASSUME Typed, [Next]_vars PROVE now' \in Nat /\ now' >= now
  OBVIOUS
<1>1. now \in Nat
  BY SessionAssumption DEF Typed, TypeOK
<1>2. now' \in {now, now + 1}
  BY DEF Next, vars, RunEffects, Reload, OpenUrl, Load, Navigate, HandleButtonClick,
         HandleSubmit, ClickLogo, ClickList, FetchRefused, HandleChangeRole,
         HandleCloseRole, HandleClickOpenLogout, Authenticate, RefreshToken, Fail,
         Receive, Tick, Others
<1>3. QED
  BY <1>1, <1>2

\* What a login answers with, and what a renewal does.
LEMMA Answers ==
  ASSUME Typed, NEW c \in Call
  PROVE  /\ Authenticate(c) =>
              JustAnswered(call'[c].token)
                /\ call'[c].token.roles = authView[call'[c].token.sub]
         /\ RefreshToken(c) =>
              \E s \in Alive : /\ s.sub = call'[c].token.sub
                               /\ s.roles = call'[c].token.roles
<1> call \in [Call -> SoundCall \cup {NoCall}]
  BY DEF Typed, CallsSound
<1>1. ASSUME Authenticate(c)
      PROVE  JustAnswered(call'[c].token)
               /\ call'[c].token.roles = authView[call'[c].token.sub]
  <2>1. PICK account \in Account :
          call' = [call EXCEPT ![c].answered = TRUE,
                               ![c].token = Granted(account, authView[account])]
    BY <1>1 DEF Authenticate
  <2>2. call[c] \in CallRecord
    BY <1>1 DEF Authenticate, NoCall, SoundCall
  <2>3. call'[c].token = Granted(account, authView[account])
    BY <2>1, <2>2 DEF CallRecord
  <2>4. QED
    BY <1>1, <2>3 DEF Authenticate, JustAnswered, Granted
<1>2. ASSUME RefreshToken(c)
      PROVE  \E s \in Alive : /\ s.sub = call'[c].token.sub
                              /\ s.roles = call'[c].token.roles
  <2>1. call[c] \in CallRecord /\ call[c].token # NoToken
    BY <1>2 DEF RefreshToken, NoCall, SoundCall
  <2>2. call[c].token \in Alive
    BY <1>2, <2>1 DEF RefreshToken, Accepts, Alive
  <2>3. call'[c].token = Granted(call[c].token.sub, call[c].token.roles)
    BY <1>2, <2>1 DEF RefreshToken, CallRecord
  <2>4. QED
    BY <2>2, <2>3 DEF Granted
<1>3. QED
  BY <1>1, <1>2

\* A token that was held and is valid now was valid before.
LEMMA StillAlive ==
  ASSUME Typed, [Next]_vars, NEW t \in Held, t \in Alive'
  PROVE  t \in Alive
<1>1. t # NoToken /\ ~(t.exp < now')
  BY DEF Alive, Expired
<1>2. t \in Token
  BY <1>1 DEF Held, Typed, TypeOK, CallRecord, NoCall
<1>3. t.exp \in Nat
  BY <1>2, SessionAssumption DEF Token
<1>4. ~(t.exp < now)
  BY <1>1, <1>3, TimePasses, SessionAssumption DEF Typed, TypeOK
<1>5. QED
  BY <1>1, <1>4 DEF Alive, Held, Expired

\* What a browser may do comes from a login and is handed on by renewals in
\* time, whatever is revoked or disabled meanwhile and however late answers come.
THEOREM RightsAreGiven == Spec => RightsComeFromLogin
<1>1. ASSUME Typed, [Next]_vars, NEW t \in Alive'
      PROVE  \/ \E s \in Alive : s.sub = t.sub /\ s.roles = t.roles
             \/ JustAnswered(t) /\ t.roles = authView[t.sub]
  <2>1. t \in Held' /\ t # NoToken
    BY DEF Alive, Held
  <2>2. CASE t \in Held
    BY <1>1, <2>2, StillAlive
  <2>3. CASE t \notin Held
    <3>1. PICK c \in Call : /\ Authenticate(c) \/ RefreshToken(c)
                            /\ t = call'[c].token
      BY <1>1, <2>1, <2>3, TokensHandedOn
    <3>2. QED
      BY <1>1, <3>1, Answers
  <2>4. QED
    BY <2>2, <2>3
<1>2. Typed /\ [Next]_vars =>
        [\A t \in Alive' :
           \/ \E s \in Alive : s.sub = t.sub /\ s.roles = t.roles
           \/ JustAnswered(t) /\ t.roles = authView[t.sub]]_vars
  BY <1>1
<1>3. Spec => []Typed
  BY Start, StepTypes, PTL DEF Spec
<1>4. QED
  BY <1>2, <1>3, PTL DEF Spec, RightsComeFromLogin

\* A session that expired comes back by a login only.
COROLLARY SessionEnds == Spec => ExpiredForGood
<1>1. [\A t \in Alive' :
         \/ \E s \in Alive : s.sub = t.sub /\ s.roles = t.roles
         \/ JustAnswered(t) /\ t.roles = authView[t.sub]]_vars
      => [Alive = {} /\ Alive' # {} => \E c \in Call : call[c].kind = "login"]_vars
  BY DEF JustAnswered
<1>2. QED
  BY <1>1, RightsAreGiven, PTL DEF RightsComeFromLogin, ExpiredForGood

\* A revoked level, or a disabled account, that no valid token of the browser
\* names any more does not come back with a late answer.
COROLLARY RevocationLasts == Spec => RevokedForGood
<1>1. ASSUME \A t \in Alive' :
               \/ \E s \in Alive : s.sub = t.sub /\ s.roles = t.roles
               \/ JustAnswered(t) /\ t.roles = authView[t.sub],
             NoRevokedToken, authView' = authView
      PROVE  NoRevokedToken'
  <2> SUFFICES ASSUME NEW t \in Alive' PROVE t.roles \subseteq authView'[t.sub]
    BY DEF NoRevokedToken, Revoked
  <2>1. CASE \E s \in Alive : s.sub = t.sub /\ s.roles = t.roles
    BY <1>1, <2>1 DEF NoRevokedToken, Revoked
  <2>2. CASE t.roles = authView[t.sub]
    BY <1>1, <2>2
  <2>3. QED
    BY <1>1, <2>1, <2>2
<1>2. [\A t \in Alive' :
         \/ \E s \in Alive : s.sub = t.sub /\ s.roles = t.roles
         \/ JustAnswered(t) /\ t.roles = authView[t.sub]]_vars
      => [NoRevokedToken /\ authView' = authView => NoRevokedToken']_vars
  BY <1>1
<1>3. QED
  BY <1>2, RightsAreGiven, PTL DEF RightsComeFromLogin, RevokedForGood

-----------------------------------------------------------------------------
(* Without a token *)

\* A bar whose effect has run without a token shows the guest's role, and the
\* landing page whose effects have run without one has reset the cookie.
GuestInv ==
    /\ HasNavbar /\ "navbar" \notin due /\ ~HasToken => current = "GUEST"
    /\ page = "landing" /\ due = {} /\ ~HasToken => role = "GUEST"

LEMMA GuestStep == Typed /\ GuestInv /\ [Next]_vars => GuestInv'
<1> SUFFICES ASSUME Typed, GuestInv, [Next]_vars PROVE GuestInv'
  OBVIOUS
<1> USE DEF GuestInv, HasNavbar, HasToken
<1>1. ASSUME NEW p, NEW left, Mount(p, left) PROVE GuestInv'
  BY <1>1 DEF Mount
<1>2. CASE RunEffects
  <2>1. CASE Destination = page
    <3>1. page' = page /\ current' = CurrentAfter /\ Redraw({})
      BY <1>2, <2>1 DEF RunEffects, Redraw
    <3>2. CASE token' # token
      <4>1. <<token', current'>> # <<token, current>>
        BY <3>2
      <4>2. "navbar" \in due'
        BY <3>1, <4>1, Zenon DEF Redraw
      <4>3. QED
        BY <4>2
    <3>3. CASE token' = token
      <4>1. HasNavbar /\ ~HasToken => current' = "GUEST"
        BY <3>1 DEF CurrentAfter, Bar, NewSession
      <4>2. page = "landing" /\ ~HasToken => role' = "GUEST"
        BY <1>2 DEF RunEffects, RoleOfGuard, RoleOfLandingPage
      <4>3. QED
        BY <3>1, <3>3, <4>1, <4>2
    <3>4. QED
      BY <3>2, <3>3
  <2>2. CASE Destination # page
    BY <1>1, <1>2, <2>2 DEF RunEffects
  <2>3. QED
    BY <2>1, <2>2
<1>3. ASSUME NEW p \in Page, Load(p) PROVE GuestInv'
  BY <1>3 DEF Load
<1>4. CASE Reload \/ OpenUrl
  <2>1. PICK p \in Page : Load(p)
    BY <1>4 DEF Reload, OpenUrl, Typed, TypeOK
  <2>2. QED
    BY <2>1, <1>3
<1>5. CASE HandleButtonClick \/ ClickLogo \/ ClickList \/ HandleClickOpenLogout
           \/ FetchRefused
  BY <1>1, <1>5 DEF HandleButtonClick, ClickLogo, ClickList, HandleClickOpenLogout,
                    FetchRefused, Navigate
<1>6. CASE HandleSubmit \/ HandleChangeRole \/ Tick \/ Others \/ UNCHANGED vars
  BY <1>6 DEF HandleSubmit, HandleChangeRole, Tick, Others, vars
<1>7. CASE HandleCloseRole
  BY <1>7 DEF HandleCloseRole, Redraw
<1>8. ASSUME NEW c \in Call, Authenticate(c) \/ RefreshToken(c) \/ Fail(c)
      PROVE  GuestInv'
  BY <1>8 DEF Authenticate, RefreshToken, Fail
<1>9. ASSUME NEW c \in Call, Receive(c) PROVE GuestInv'
  <2>1. token' # NoToken
    BY <1>9 DEF Receive, NoCall, SoundCall, CallsSound, Typed
  <2>2. QED
    BY <2>1
<1>10. QED
  BY <1>2, <1>4, <1>5, <1>6, <1>7, <1>8, <1>9 DEF Next

LEMMA GuestsAlways == Spec => [](Typed /\ GuestInv)
<1>1. Init => GuestInv
  BY DEF Init, GuestInv
<1>2. QED
  BY <1>1, Start, StepTypes, GuestStep, PTL DEF Spec

\* Logging out, and a token the bar throws away: a landing page that has come
\* to rest without a token is the guest's, in the bar and in the cookie.
THEOREM LandingIsGuests == Spec => []LandingOfGuest
<1>1. GuestInv => LandingOfGuest
  BY DEF GuestInv, LandingOfGuest, Settled, HasNavbar
<1>2. QED
  BY <1>1, GuestsAlways, PTL

-----------------------------------------------------------------------------
(* What a page shows *)

\* A guard that has run, with the role the page has, let it stay; a page of
\* the same group may follow without one, which only the page of logging out
\* can be that its guard would refuse, until its effect runs.
Guarded ==
    "guard" \in due \/ reloading \/ role \in AccessLevels[page]

LeavesAtOnce ==
    page = "logout" => reloading \/ due # {}

Waits ==
    \/ Guarded
    \/ page = "logout" /\ role \in AccessLevels["landing"]

GuardInv == Waits /\ LeavesAtOnce

\* The landing page is open to every role another page is.
LEMMA LandingIsOpen ==
  ASSUME NEW p \in Page
  PROVE  AccessLevels[p] \subseteq AccessLevels["landing"]
<1>1. AccessLevels["landing"] = Level \cup {"GUEST"}
  BY DEF AccessLevels
<1>2. AccessLevels["login"] = {"GUEST"} /\ AccessLevels["logout"] = Level
  BY DEF AccessLevels
<1>3. AccessLevels["list"] \subseteq Level
  BY DEF AccessLevels, Level
<1>4. QED
  BY <1>1, <1>2, <1>3 DEF Page

\* A page that is shown next, without its guard if one of its group stays.
LEMMA NextIsGuarded ==
  ASSUME Typed, NEW p \in Page, NEW left \in SUBSET Effects, Mount(p, left),
         reloading' = reloading,
         "guard" \in due => "guard" \in left,
         GuardInv,
         page = "login" => p = "landing",
         page = "landing" => p # "login" \/ role = "GUEST",
         page = "logout" => p = "landing"
  PROVE  GuardInv'
<1>1. page \in Page
  BY DEF Typed, TypeOK
<1>2. CASE reloading \/ "guard" \in left \/ ~SameGroup(page, p) \/ role' # role
  BY <1>2 DEF Mount, GuardInv, Waits, Guarded, LeavesAtOnce
<1>3. CASE ~reloading /\ "guard" \notin left /\ SameGroup(page, p) /\ role' = role
  <2>1. "guard" \notin due
    BY <1>3
  <2>2. role \in AccessLevels["landing"]
    BY <1>1, <1>3, <2>1, LandingIsOpen
       DEF GuardInv, Waits, Guarded, AccessLevels
  <2>3. page' = p /\ due' # {} /\ LeavesAtOnce'
    BY DEF Mount, LeavesAtOnce
  <2>4. CASE p \in {"landing", "logout"}
    BY <1>3, <2>2, <2>3, <2>4 DEF GuardInv, Waits, Guarded
  <2>5. CASE p = "login"
    BY <1>1, <1>3, <2>3, <2>5 DEF GuardInv, Waits, Guarded, SameGroup, Page, AccessLevels
  <2>6. CASE p = "list"
    BY <1>1, <1>3, <2>1, <2>3, <2>6
       DEF GuardInv, Waits, Guarded, SameGroup, AccessLevels, Page
  <2>7. QED
    BY <2>4, <2>5, <2>6 DEF Page
<1>4. QED
  BY <1>2, <1>3

\* PrivateRoute: a page at rest is one its guard lets this role see.
THEOREM PagesAreGuarded == Spec => []ShownPageIsAllowed
<1>1. Init => GuardInv
  BY DEF Init, GuardInv, Waits, Guarded, LeavesAtOnce
<1>2. Typed /\ GuestInv /\ GuardInv /\ [Next]_vars => GuardInv'
  <2> SUFFICES ASSUME Typed, GuestInv, GuardInv, [Next]_vars PROVE GuardInv'
    OBVIOUS
  <2> page \in Page /\ due \in SUBSET Effects /\ {} \in SUBSET Effects
    BY DEF Typed, TypeOK, Effects
  <2>1. CASE RunEffects
    <3>1. CASE Refused \/ page = "logout" \/ reloading
      BY <3>1, <2>1 DEF RunEffects, GuardInv, Waits, Guarded, LeavesAtOnce
    <3>2. CASE ~Refused /\ page # "logout" /\ ~reloading
      <4>1. role \in AccessLevels[page] /\ reloading' = reloading
        <5>1. role \in AccessLevels[page]
          BY <3>2 DEF Refused, GuardInv, Waits, Guarded
        <5>2. reloading' = FALSE /\ reloading \in BOOLEAN
          BY <2>1, <3>2 DEF RunEffects, Typed, TypeOK
        <5>3. QED
          BY <3>2, <5>1, <5>2
      <4>2. CASE Destination = page
        <5>1. page' = page /\ (role' # role => "guard" \in due')
          BY <2>1, <4>2 DEF RunEffects, Redraw
        <5>2. QED
          BY <3>2, <4>1, <5>1 DEF GuardInv, Waits, Guarded, LeavesAtOnce
      <4>3. CASE Destination # page
        <5>1. Mount(Destination, {}) /\ Destination \in {"landing", "logout"}
          BY <2>1, <4>3 DEF RunEffects, Destination
        <5>2. CASE role' = role /\ SameGroup(page, Destination)
          <6>1. page' = Destination /\ due' # {} /\ role \in AccessLevels["landing"]
            BY <4>1, <5>1, LandingIsOpen DEF Mount
          <6>2. QED
            BY <5>1, <5>2, <6>1 DEF GuardInv, Waits, Guarded, LeavesAtOnce
        <5>3. CASE ~(role' = role /\ SameGroup(page, Destination))
          BY <5>1, <5>3 DEF Mount, GuardInv, Waits, Guarded, LeavesAtOnce
        <5>4. QED
          BY <5>2, <5>3
      <4>4. QED
        BY <4>2, <4>3
    <3>3. QED
      BY <3>1, <3>2
  <2>2. ASSUME NEW p \in Page, Load(p) PROVE GuardInv'
    BY <2>2 DEF Load, GuardInv, Waits, Guarded, LeavesAtOnce
  <2>3. CASE Reload \/ OpenUrl
    BY <2>2, <2>3 DEF Reload, OpenUrl
  <2>4. ASSUME NEW p \in Page, Navigate(p), page \in {"landing", "list"},
               page = "landing" => p # "login" \/ role = "GUEST"
        PROVE  GuardInv'
    <3>1. Mount(p, {}) /\ due = {} /\ reloading' = reloading
      BY <2>4 DEF Navigate, Settled
    <3>2. QED
      BY <2>4, <3>1, NextIsGuarded
  <2>5. CASE ClickLogo \/ ClickList \/ HandleClickOpenLogout \/ FetchRefused
    BY <2>4, <2>5 DEF ClickLogo, ClickList, HandleClickOpenLogout, FetchRefused,
                      HasNavbar, Page
  <2>6. CASE HandleButtonClick
    <3>1. role = "GUEST"
      BY <2>6 DEF HandleButtonClick, Navigate, Settled, GuestInv
    <3>2. QED
      BY <2>4, <2>6, <3>1 DEF HandleButtonClick, Page
  <2>7. CASE HandleSubmit \/ HandleChangeRole \/ Tick \/ Others \/ UNCHANGED vars
    BY <2>7 DEF HandleSubmit, HandleChangeRole, Tick, Others, vars,
                GuardInv, Waits, Guarded, LeavesAtOnce
  <2>8. CASE HandleCloseRole
    BY <2>8 DEF HandleCloseRole, GuardInv, Waits, Guarded, LeavesAtOnce
  <2>9. ASSUME NEW c \in Call, Authenticate(c) \/ RefreshToken(c) \/ Fail(c)
        PROVE  GuardInv'
    BY <2>9 DEF Authenticate, RefreshToken, Fail, GuardInv, Waits, Guarded, LeavesAtOnce
  <2>10. ASSUME NEW c \in Call, Receive(c) PROVE GuardInv'
    <3>1. role' = role /\ reloading' = reloading
      BY <2>10 DEF Receive
    <3>2. CASE call[c].kind = "login" /\ page # "landing"
      BY <2>10, <3>1, <3>2, NextIsGuarded DEF Receive, Page
    <3>3. CASE ~(call[c].kind = "login" /\ page # "landing")
      <4>1. page' = page /\ due \subseteq due'
        BY <2>10, <3>3 DEF Receive, Redraw
      <4>2. QED
        BY <3>1, <4>1 DEF GuardInv, Waits, Guarded, LeavesAtOnce
    <3>4. QED
      BY <3>2, <3>3
  <2>11. QED
    BY <2>1, <2>3, <2>5, <2>6, <2>7, <2>8, <2>9, <2>10 DEF Next
<1>3. GuardInv => ShownPageIsAllowed
  BY DEF GuardInv, Waits, Guarded, LeavesAtOnce, ShownPageIsAllowed, Settled
<1>4. Spec => [](Typed /\ GuestInv)
  BY GuestsAlways
<1>5. QED
  BY <1>1, <1>2, <1>3, <1>4, PTL DEF Spec
=============================================================================
