------------------------- MODULE MailedLinksProofs -------------------------
(***************************************************************************)
(* What MailedLinks guarantees for any accounts, addresses, changes and    *)
(* requests.                                                               *)
(***************************************************************************)
EXTENDS MailedLinks, TLAPS

-----------------------------------------------------------------------------
(* Types *)

Phase == {"sent", "reading", "flushing", "answered"}

\* A request stays well typed when its phase changes and it keeps what was read.
LEMMA RequestUpdate ==
  ASSUME request \in [Request -> RequestRecord \cup {NoRequest}],
         NEW r \in Request, request[r] \in RequestRecord, NEW p \in Phase
  PROVE  /\ \A l \in LinkState : [request EXCEPT ![r].phase = p, ![r].link = l]
                                    \in [Request -> RequestRecord \cup {NoRequest}]
         /\ \A s \in AccountRow : [request EXCEPT ![r].phase = p, ![r].snap = s]
                                    \in [Request -> RequestRecord \cup {NoRequest}]
         /\ \A b \in BOOLEAN : [request EXCEPT ![r].phase = p, ![r].ok = b]
                                    \in [Request -> RequestRecord \cup {NoRequest}]
<1> DEFINE Requests == [Request -> RequestRecord \cup {NoRequest}]
<1>1. ASSUME NEW q \in RequestRecord
      PROVE  [request EXCEPT ![r] = q] \in Requests
  OBVIOUS
<1>2. ASSUME NEW l \in LinkState
      PROVE  [request EXCEPT ![r].phase = p, ![r].link = l] \in Requests
  <2> DEFINE new == [request[r] EXCEPT !.phase = p, !.link = l]
  <2>1. new \in RequestRecord
    BY DEF RequestRecord, Phase
  <2> HIDE DEF new
  <2>2. [request EXCEPT ![r] = new] \in Requests
    BY <1>1, <2>1
  <2>3. QED
    BY <2>2 DEF new
<1>3. ASSUME NEW s \in AccountRow
      PROVE  [request EXCEPT ![r].phase = p, ![r].snap = s] \in Requests
  <2> DEFINE new == [request[r] EXCEPT !.phase = p, !.snap = s]
  <2>1. new \in RequestRecord
    BY DEF RequestRecord, Phase
  <2> HIDE DEF new
  <2>2. [request EXCEPT ![r] = new] \in Requests
    BY <1>1, <2>1
  <2>3. QED
    BY <2>2 DEF new
<1>4. ASSUME NEW b \in BOOLEAN
      PROVE  [request EXCEPT ![r].phase = p, ![r].ok = b] \in Requests
  <2> DEFINE new == [request[r] EXCEPT !.phase = p, !.ok = b]
  <2>1. new \in RequestRecord
    BY DEF RequestRecord, Phase
  <2> HIDE DEF new
  <2>2. [request EXCEPT ![r] = new] \in Requests
    BY <1>1, <2>1
  <2>3. QED
    BY <2>2 DEF new
<1>5. QED
  BY <1>2, <1>3, <1>4

\* A request under way is a record with all its fields.
LEMMA RequestFields ==
  ASSUME TypeOK, NEW r \in Request, request[r].phase \in Phase
  PROVE  /\ request[r] \in RequestRecord
         /\ request[r].of \in Account
         /\ request[r].by \in Change \cup {"none"}
         /\ request[r].kind \in {"activate", "confirm"}
         /\ request[r].link \in LinkState
         /\ request[r].snap \in AccountRow
<1>1. request[r] \in RequestRecord
  <2>1. request[r] \in RequestRecord \cup {NoRequest}
    BY DEF TypeOK
  <2>2. request[r] # NoRequest
    BY DEF NoRequest, Phase
  <2>3. QED
    BY <2>1, <2>2
<1>2. QED
  BY <1>1 DEF RequestRecord

\* A request to confirm an address is about the change whose link it is.
LinksKnown ==
    \A r \in Request :
      request[r].phase \in Phase /\ request[r].kind = "confirm" =>
        /\ request[r].by \in Change
        /\ change[request[r].by] # NoChange
        /\ change[request[r].by].of = request[r].of

Typed == TypeOK /\ LinksKnown

\* A change that has been asked for stays one, of the same account.
ChangesStay ==
    \A c \in Change : change[c] # NoChange =>
      /\ change'[c] # NoChange
      /\ change'[c].of = change[c].of

\* What a page asks for.
Posted(k, a, c) == [phase |-> "sent", kind |-> k, of |-> a, by |-> c,
                    link |-> "none", snap |-> NoAccount, ok |-> FALSE]

LEMMA PostType ==
  ASSUME request \in [Request -> RequestRecord \cup {NoRequest}],
         NEW r \in Request, NEW k \in {"activate", "confirm"}, NEW a \in Account,
         NEW c \in Change \cup {"none"}, Post(r, k, a, c)
  PROVE  request' \in [Request -> RequestRecord \cup {NoRequest}]
<1>1. Posted(k, a, c) \in RequestRecord
  BY DEF Posted, RequestRecord, LinkState, NoAccount, AccountRow
<1>2. request' = [request EXCEPT ![r] = Posted(k, a, c)]
  BY DEF Post, Posted
<1>3. QED
  BY <1>1, <1>2

\* The mailed changes are rows with all their fields.
LEMMA ChangeFields ==
  ASSUME TypeOK, NEW c \in Change, change[c] # NoChange
  PROVE  /\ change[c] \in ChangeRow
         /\ change[c].state \in {"mailed", "gone"}
         /\ change[c].of \in Account /\ change[c].email \in Email
         /\ change[c].expired \in BOOLEAN
<1>1. change[c] \in ChangeRow
  BY DEF TypeOK
<1>2. QED
  BY <1>1 DEF ChangeRow

\* What is written over an account is a row of the table.
LEMMA WantedType ==
  ASSUME Typed, NEW r \in Request, request[r].phase = "flushing"
  PROVE  /\ Wanted(r) \in AccountRow
         /\ [Wanted(r) EXCEPT !.version = NextVersion(request[r].snap)] \in AccountRow
<1>1. /\ request[r].snap \in AccountRow
      /\ request[r].kind \in {"activate", "confirm"}
  BY RequestFields DEF Typed, Phase
<1>2. Wanted(r) \in AccountRow
  <2>1. CASE request[r].kind = "activate"
    BY <1>1, <2>1 DEF Wanted, AccountRow
  <2>2. CASE request[r].kind = "confirm"
    <3>1. change[request[r].by].email \in Email
      BY <2>2, ChangeFields DEF Typed, LinksKnown, Phase
    <3>2. Wanted(r) = [request[r].snap EXCEPT !.email = change[request[r].by].email]
      BY <2>2 DEF Wanted
    <3>3. QED
      BY <1>1, <3>1, <3>2 DEF AccountRow
  <2>3. QED
    BY <1>1, <2>1, <2>2
<1>3. NextVersion(request[r].snap) \in Nat
  BY <1>1 DEF AccountRow, NextVersion
<1>4. QED
  BY <1>2, <1>3 DEF AccountRow

-----------------------------------------------------------------------------
(* The types are kept: by the tables, the requests and the timers in turn *)

TablesTyped ==
    /\ account \in [Account -> AccountRow]
    /\ link \in [Account -> LinkState]
    /\ change \in [Change -> ChangeRow \cup {NoChange}]

\* Nothing takes back that a change has expired.
ExpiryStays ==
    \A c \in Change : change[c] # NoChange /\ change[c].expired =>
      change'[c] # NoChange /\ change'[c].expired

\* The state of a change is rewritten.
LEMMA ChangeUpdate ==
  ASSUME TypeOK, NEW c \in Change, change[c] # NoChange, NEW s \in {"mailed", "gone"},
         \/ change' = [change EXCEPT ![c].state = s]
         \/ change' = [change EXCEPT ![c].expired = TRUE]
  PROVE  /\ change' \in [Change -> ChangeRow \cup {NoChange}]
         /\ ChangesStay /\ ExpiryStays
<1>1. change[c] \in ChangeRow /\ change \in [Change -> ChangeRow \cup {NoChange}]
  BY ChangeFields DEF TypeOK
<1>2. /\ [change[c] EXCEPT !.state = s] \in ChangeRow
      /\ [change[c] EXCEPT !.expired = TRUE] \in ChangeRow
  BY <1>1 DEF ChangeRow
<1>3. ASSUME NEW row \in ChangeRow PROVE row # NoChange
  BY DEF ChangeRow, NoChange
<1>4. \A d \in Change \ {c} : change'[d] = change[d]
  BY <1>1
<1>5. \/ change'[c] = [change[c] EXCEPT !.state = s]
      \/ change'[c] = [change[c] EXCEPT !.expired = TRUE]
  BY <1>1
<1>6. /\ change'[c] \in ChangeRow
      /\ change'[c].of = change[c].of
      /\ change[c].expired => change'[c].expired
  BY <1>1, <1>2, <1>5 DEF ChangeRow
<1>7. change' \in [Change -> ChangeRow \cup {NoChange}]
  <2>1. DOMAIN change' = Change /\ change' = [d \in Change |-> change'[d]]
    BY <1>1
  <2>2. \A d \in Change : change'[d] \in ChangeRow \cup {NoChange}
    BY <1>1, <1>4, <1>6
  <2>3. QED
    BY <2>1, <2>2
<1>8. ChangesStay
  BY <1>3, <1>4, <1>6 DEF ChangesStay
<1>9. ExpiryStays
  BY <1>3, <1>4, <1>6 DEF ExpiryStays
<1>10. QED
  BY <1>7, <1>8, <1>9

\* A commit writes a row of each table at most.
LEMMA CommitTypes ==
  ASSUME Typed, NEW r \in Request, Commit(r)
  PROVE  TablesTyped' /\ ChangesStay /\ ExpiryStays
<1> request[r].phase = "flushing"
  BY DEF Commit
<1>1. /\ account \in [Account -> AccountRow] /\ link \in [Account -> LinkState]
      /\ change \in [Change -> ChangeRow \cup {NoChange}]
      /\ request[r].of \in Account
  BY RequestFields DEF Typed, TypeOK, Phase
<1>2. account' \in [Account -> AccountRow]
  <2> DEFINE new == [Wanted(r) EXCEPT !.version = NextVersion(request[r].snap)]
  <2>1. new \in AccountRow
    BY WantedType
  <2>2. account' = [account EXCEPT ![request[r].of] = new] \/ account' = account
    BY DEF Commit, CommitAccount
  <2> HIDE DEF new
  <2>3. QED
    BY <1>1, <2>1, <2>2
<1>3. CASE CommitActivation(r)
  <2>1. link' \in [Account -> LinkState] /\ change' = change
    BY <1>1, <1>3 DEF CommitActivation, LinkState
  <2>2. QED
    BY <1>1, <1>2, <2>1 DEF TablesTyped, ChangesStay, ExpiryStays
<1>4. CASE CommitConfirmation(r)
  <2>1. /\ request[r].by \in Change /\ change[request[r].by] # NoChange
        /\ change' = [change EXCEPT ![request[r].by].state = "gone"]
        /\ link' = link
    BY <1>4 DEF CommitConfirmation, Typed, LinksKnown, Phase
  <2>2. QED
    BY <1>1, <1>2, <2>1, ChangeUpdate DEF Typed, TablesTyped
<1>5. QED
  BY <1>3, <1>4 DEF Commit

\* Every step of a request, of its page or of the server, keeps the types.
LEMMA RequestStepTypes ==
  ASSUME Typed, NEW r \in Request, RequestStep(r)
  PROVE  /\ TablesTyped' /\ ChangesStay /\ ExpiryStays
         /\ request' \in [Request -> RequestRecord \cup {NoRequest}]
         /\ activated' \subseteq Account
         /\ timer' = timer
<1> TypeOK /\ request \in [Request -> RequestRecord \cup {NoRequest}]
  BY DEF Typed, TypeOK
<1> DEFINE Same == TablesTyped' /\ ChangesStay /\ ExpiryStays
<1>1. ASSUME UNCHANGED <<account, link, change>> PROVE Same
  BY <1>1 DEF TypeOK, TablesTyped, ChangesStay, ExpiryStays
<1>2. request[r].phase \in Phase =>
        /\ request[r] \in RequestRecord
        /\ request[r].of \in Account /\ request[r].by \in Change \cup {"none"}
        /\ request[r].kind \in {"activate", "confirm"} /\ request[r].link \in LinkState
  BY RequestFields
<1>3. activated \subseteq Account
  BY DEF TypeOK
<1> HIDE DEF Same
<1>4. ASSUME NEW a \in Account, ActivateFromEmail(r, a)
      PROVE  Same /\ request' \in [Request -> RequestRecord \cup {NoRequest}]
  BY <1>1, <1>4, PostType DEF ActivateFromEmail
<1>5. ASSUME NEW c \in Change, ConfirmEmail(r, c)
      PROVE  Same /\ request' \in [Request -> RequestRecord \cup {NoRequest}]
  BY <1>1, <1>5, PostType, ChangeFields DEF ConfirmEmail
<1>6. ASSUME ReceiveAnswer(r) \/ LoseAnswer(r)
      PROVE  /\ Same /\ request' \in [Request -> RequestRecord \cup {NoRequest}]
             /\ activated' \subseteq Account
  <2> request[r].phase \in Phase
    BY <1>6 DEF ReceiveAnswer, LoseAnswer, Phase
  <2>1. Same
    BY <1>1, <1>6 DEF ReceiveAnswer, LoseAnswer
  <2>2. CASE ReceiveAnswer(r) /\ request[r].kind = "activate" /\ request[r].ok
    BY <1>2, <1>3, <2>1, <2>2, PostType DEF ReceiveAnswer
  <2>3. CASE ~(ReceiveAnswer(r) /\ request[r].kind = "activate" /\ request[r].ok)
    BY <1>3, <1>6, <2>1, <2>3 DEF ReceiveAnswer, LoseAnswer
  <2>4. QED
    BY <2>2, <2>3
<1>7. ASSUME FindToken(r)
      PROVE  Same /\ request' \in [Request -> RequestRecord \cup {NoRequest}]
  <2> DEFINE l == IF request[r].kind = "activate" THEN link[request[r].of]
                  ELSE request[r].link
  <2>1. request[r].phase \in Phase /\ "reading" \in Phase
    BY <1>7 DEF FindToken, Phase
  <2>2. l \in LinkState
    BY <1>2, <2>1 DEF TypeOK
  <2>3. request' = [request EXCEPT ![r].phase = "reading", ![r].link = l]
    BY <1>7 DEF FindToken
  <2> HIDE DEF l
  <2>4. request' \in [Request -> RequestRecord \cup {NoRequest}]
    BY <1>2, <2>1, <2>2, <2>3, RequestUpdate
  <2>5. QED
    BY <1>1, <1>7, <2>4 DEF FindToken
<1>8. ASSUME ReadAccount(r)
      PROVE  Same /\ request' \in [Request -> RequestRecord \cup {NoRequest}]
  <2>1. request[r].phase \in Phase /\ "flushing" \in Phase
    BY <1>8 DEF ReadAccount, Phase
  <2>2. account[request[r].of] \in AccountRow
    BY <1>2, <2>1 DEF TypeOK
  <2>3. QED
    BY <1>1, <1>2, <1>8, <2>1, <2>2, RequestUpdate DEF ReadAccount
<1>9. ASSUME Commit(r)
      PROVE  Same /\ request' \in [Request -> RequestRecord \cup {NoRequest}]
  <2>1. request[r].phase \in Phase /\ "answered" \in Phase
    BY <1>9 DEF Commit, Phase
  <2>2. QED
    BY <1>2, <1>9, <2>1, CommitTypes, RequestUpdate DEF Commit, Same
<1>10. ASSUME Refuse(r)
       PROVE  Same /\ request' \in [Request -> RequestRecord \cup {NoRequest}]
  <2>1. request[r].phase \in Phase /\ "answered" \in Phase
    BY <1>10 DEF Refuse, Phase
  <2>2. QED
    BY <1>1, <1>2, <1>10, <2>1, RequestUpdate DEF Refuse
<1>11. timer' = timer /\ (ReceiveAnswer(r) \/ activated' = activated)
  BY DEF RequestStep, ActivateFromEmail, ConfirmEmail, ReceiveAnswer, LoseAnswer,
         FindToken, ReadAccount, Commit, Refuse
<1>12. Same /\ request' \in [Request -> RequestRecord \cup {NoRequest}]
  BY <1>4, <1>5, <1>6, <1>7, <1>8, <1>9, <1>10 DEF RequestStep
<1>13. QED
  BY <1>3, <1>6, <1>11, <1>12 DEF Same

\* Requests go on asking for the links they were sent with.
LEMMA LinksStayKnown ==
  ASSUME Typed, ChangesStay, NEW r \in Request,
         \/ request'[r] = request[r]
         \/ request'[r].phase \notin Phase
         \/ /\ request'[r].kind = request[r].kind /\ request'[r].of = request[r].of
            /\ request'[r].by = request[r].by /\ request[r].phase \in Phase
         \/ request'[r].kind = "activate"
         \/ \E c \in Change : /\ change[c] # NoChange
                              /\ request'[r].by = c /\ request'[r].of = change[c].of
  PROVE  request'[r].phase \in Phase /\ request'[r].kind = "confirm" =>
           /\ request'[r].by \in Change
           /\ change'[request'[r].by] # NoChange
           /\ change'[request'[r].by].of = request'[r].of
BY DEF Typed, LinksKnown, ChangesStay

\* What a step of a request makes of that request, and that it is the only one.
LEMMA RequestMoves ==
  ASSUME TypeOK, NEW r \in Request, RequestStep(r)
  PROVE  /\ \A q \in Request \ {r} : request'[q] = request[q]
         /\ \/ request'[r].phase \notin Phase
            \/ /\ request'[r].kind = request[r].kind /\ request'[r].of = request[r].of
               /\ request'[r].by = request[r].by /\ request[r].phase \in Phase
            \/ request'[r].kind = "activate"
            \/ \E c \in Change : /\ change[c] # NoChange
                                 /\ request'[r].by = c /\ request'[r].of = change[c].of
<1> request \in [Request -> RequestRecord \cup {NoRequest}]
  BY DEF TypeOK
<1>1. CASE \E a \in Account : ActivateFromEmail(r, a)
  BY <1>1 DEF ActivateFromEmail, Post
<1>2. CASE \E c \in Change : ConfirmEmail(r, c)
  BY <1>2 DEF ConfirmEmail, Post
<1>3. CASE ReceiveAnswer(r) \/ LoseAnswer(r)
  BY <1>3 DEF ReceiveAnswer, LoseAnswer, Post, NoRequest, Phase
<1>4. CASE FindToken(r) \/ ReadAccount(r) \/ Commit(r) \/ Refuse(r)
  <2>1. request[r].phase \in Phase
    BY <1>4 DEF FindToken, ReadAccount, Commit, Refuse, Phase
  <2>2. request[r] \in RequestRecord
    BY <2>1, RequestFields
  <2>3. CASE FindToken(r)
    <3> DEFINE l == IF request[r].kind = "activate" THEN link[request[r].of]
                    ELSE request[r].link
    <3>1. request' = [request EXCEPT ![r].phase = "reading", ![r].link = l]
      BY <2>3 DEF FindToken
    <3> HIDE DEF l
    <3>2. QED
      BY <2>1, <2>2, <3>1 DEF RequestRecord
  <2>4. CASE ReadAccount(r)
    BY <2>1, <2>2, <2>4 DEF ReadAccount, RequestRecord
  <2>5. CASE Commit(r)
    BY <2>1, <2>2, <2>5 DEF Commit, RequestRecord
  <2>6. CASE Refuse(r)
    BY <2>1, <2>2, <2>6 DEF Refuse, RequestRecord
  <2>7. QED
    BY <1>4, <2>3, <2>4, <2>5, <2>6
<1>5. QED
  BY <1>1, <1>2, <1>3, <1>4 DEF RequestStep

\* Every step but a request's: what it makes of the tables.
LEMMA OtherStepTypes ==
  ASSUME Typed,
         \/ \E a \in Account, e \in Email : CreateOwner(a, e)
         \/ \E c \in Change, a \in Account, e \in Email : ChangeEmail(c, a, e)
         \/ \E a \in Account : EditAccount(a)
         \/ \E c \in Change : Expire(c)
         \/ BeginTimer \/ EndTimer
         \/ UNCHANGED vars
  PROVE  /\ TablesTyped' /\ ChangesStay /\ ExpiryStays
         /\ UNCHANGED <<request, activated>>
         /\ timer' \in [job : {"none", "clean", "remind", "delete"},
                        list : SUBSET Account, changes : SUBSET Change]
         /\ \/ timer'.changes \subseteq timer.changes
            \/ timer'.changes = {c \in Change : Expired(c)} /\ change' = change
<1> /\ account \in [Account -> AccountRow] /\ link \in [Account -> LinkState]
    /\ change \in [Change -> ChangeRow \cup {NoChange}]
    /\ timer \in [job : {"none", "clean", "remind", "delete"},
                  list : SUBSET Account, changes : SUBSET Change]
    /\ \A c \in timer.changes : change[c] # NoChange
  BY DEF Typed, TypeOK
<1>1. ASSUME NEW a \in Account, NEW e \in Email, CreateOwner(a, e)
      PROVE  TablesTyped' /\ UNCHANGED <<change, request, timer, activated>>
  BY <1>1 DEF CreateOwner, TablesTyped, AccountRow, LinkState
<1>2. ASSUME NEW c \in Change, NEW a \in Account, NEW e \in Email, ChangeEmail(c, a, e)
      PROVE  /\ TablesTyped' /\ ChangesStay /\ ExpiryStays
             /\ UNCHANGED <<request, timer, activated>>
  BY <1>2 DEF ChangeEmail, TablesTyped, ChangesStay, ExpiryStays, ChangeRow
<1>3. ASSUME NEW a \in Account, EditAccount(a)
      PROVE  TablesTyped' /\ UNCHANGED <<change, request, timer, activated>>
  <2>1. [account[a] EXCEPT !.version = NextVersion(account[a])] \in AccountRow
    BY DEF AccountRow, NextVersion
  <2>2. QED
    BY <1>3, <2>1 DEF EditAccount, TablesTyped
<1>4. ASSUME NEW c \in Change, Expire(c)
      PROVE  /\ TablesTyped' /\ ChangesStay /\ ExpiryStays
             /\ UNCHANGED <<request, timer, activated>>
  <2>1. change[c] # NoChange /\ "gone" \in {"mailed", "gone"}
    BY <1>4 DEF Expire, NoChange
  <2>2. QED
    BY <1>4, <2>1, ChangeUpdate DEF Expire, TablesTyped, Typed
<1>5. ASSUME BeginTimer
      PROVE  /\ UNCHANGED <<account, link, change, request, activated>>
             /\ timer' \in [job : {"none", "clean", "remind", "delete"},
                            list : SUBSET Account, changes : SUBSET Change]
             /\ timer'.changes = {} \/ timer'.changes = {c \in Change : Expired(c)}
  <2>1. CASE BeginCleaning \/ BeginReminder
    BY <1>5, <2>1 DEF BeginCleaning, BeginReminder, BeginJob, Unconfirmed
  <2>2. CASE BeginDeletion
    BY <1>5, <2>2 DEF BeginDeletion, BeginJob
  <2>3. QED
    BY <1>5, <2>1, <2>2 DEF BeginTimer
<1>6. ASSUME EndTimer
      PROVE  /\ TablesTyped' /\ ChangesStay /\ ExpiryStays
             /\ UNCHANGED <<request, activated>>
             /\ timer' = Idle
  <2>1. CASE CleanUnconfirmedAccounts \/ ReminderFails \/ DeletionFails
    BY <2>1 DEF CleanUnconfirmedAccounts, ReminderFails, DeletionFails,
                TablesTyped, ChangesStay, ExpiryStays
  <2>2. CASE SendActivationReminder
    BY <2>2 DEF SendActivationReminder, TablesTyped, ChangesStay, ExpiryStays,
                LinkState
  <2>3. CASE DeleteNewEmailExpiredTokens
    <3> DEFINE New(c) == IF c \in timer.changes
                         THEN [change[c] EXCEPT !.state = "gone"] ELSE change[c]
    <3>1. change' = [c \in Change |-> New(c)]
      BY <2>3 DEF DeleteNewEmailExpiredTokens
    <3>2. ASSUME NEW c \in Change, change[c] # NoChange
          PROVE  /\ New(c) \in ChangeRow
                 /\ New(c).of = change[c].of /\ New(c).expired = change[c].expired
      <4>1. change[c] \in ChangeRow
        BY <3>2
      <4>2. QED
        BY <4>1 DEF ChangeRow
    <3>3. ASSUME NEW c \in Change, change[c] = NoChange PROVE New(c) = NoChange
      BY <3>3
    <3>4. ASSUME NEW row \in ChangeRow PROVE row # NoChange
      BY DEF ChangeRow, NoChange
    <3> HIDE DEF New
    <3>5. change' \in [Change -> ChangeRow \cup {NoChange}]
      BY <3>1, <3>2, <3>3
    <3>6. ChangesStay /\ ExpiryStays
      BY <3>1, <3>2, <3>4 DEF ChangesStay, ExpiryStays
    <3>7. QED
      BY <2>3, <3>5, <3>6 DEF DeleteNewEmailExpiredTokens, TablesTyped
  <2>4. QED
    BY <1>6, <2>1, <2>2, <2>3 DEF EndTimer
<1>7. ASSUME UNCHANGED change PROVE ChangesStay /\ ExpiryStays
  BY <1>7 DEF ChangesStay, ExpiryStays
<1>8. ASSUME UNCHANGED <<account, link, change>> PROVE TablesTyped'
  BY <1>8 DEF TablesTyped
<1>9. QED
  BY <1>1, <1>2, <1>3, <1>4, <1>5, <1>6, <1>7, <1>8 DEF vars, Idle

\* The types, and that every request to confirm has its link, are inductive.
LEMMA TypedInvariant == Spec => []Typed
<1>1. Init => Typed
  BY LinksAssumption
     DEF Init, Typed, TypeOK, LinksKnown, NoAccount, NoChange, NoRequest, AccountRow,
         LinkState, Idle, Phase
<1>2. Typed /\ [Next]_vars => Typed'
  <2> SUFFICES ASSUME Typed, [Next]_vars PROVE Typed'
    OBVIOUS
  <2>1. ASSUME NEW r \in Request, RequestStep(r) PROVE Typed'
    <3>1. TypeOK'
      BY <2>1, RequestStepTypes DEF Typed, TypeOK, TablesTyped, ExpiryStays
    <3>2. LinksKnown'
      <4> SUFFICES ASSUME NEW q \in Request
                   PROVE  request'[q].phase \in Phase /\ request'[q].kind = "confirm" =>
                            /\ request'[q].by \in Change
                            /\ change'[request'[q].by] # NoChange
                            /\ change'[request'[q].by].of = request'[q].of
        BY DEF LinksKnown
      <4>1. ChangesStay
        BY <2>1, RequestStepTypes
      <4>2. CASE q = r
        BY <2>1, <4>1, <4>2, RequestMoves, LinksStayKnown DEF Typed
      <4>3. CASE q # r
        BY <2>1, <4>1, <4>3, RequestMoves, LinksStayKnown DEF Typed
      <4>4. QED
        BY <4>2, <4>3
    <3>3. QED
      BY <3>1, <3>2 DEF Typed
  <2>2. CASE ~\E r \in Request : RequestStep(r)
    <3>1. /\ TablesTyped' /\ ChangesStay /\ ExpiryStays
          /\ UNCHANGED <<request, activated>>
          /\ timer' \in [job : {"none", "clean", "remind", "delete"},
                         list : SUBSET Account, changes : SUBSET Change]
          /\ \/ timer'.changes \subseteq timer.changes
             \/ timer'.changes = {c \in Change : Expired(c)} /\ change' = change
      BY <2>2, OtherStepTypes DEF Next
    <3>2. \A c \in timer'.changes : change'[c] # NoChange /\ change'[c].expired
      <4>1. \A c \in timer.changes : c \in Change /\ change[c] # NoChange
                                       /\ change[c].expired
        BY DEF Typed, TypeOK
      <4>2. QED
        BY <3>1, <4>1 DEF ExpiryStays, Expired, NoChange
    <3>3. TypeOK'
      BY <3>1, <3>2 DEF TypeOK, Typed, TablesTyped
    <3>4. LinksKnown'
      BY <3>1 DEF Typed, LinksKnown, ChangesStay
    <3>5. QED
      BY <3>3, <3>4 DEF Typed
  <2>3. QED
    BY <2>1, <2>2
<1>3. QED
  BY <1>1, <1>2, PTL DEF Spec

\* Type correctness.
THEOREM TypeCorrect == Spec => []TypeOK
<1>1. Typed => TypeOK
  BY DEF Typed
<1>2. QED
  BY <1>1, TypedInvariant, PTL

-----------------------------------------------------------------------------
(* What a request has read *)

\* The account as it was read is a past or present one, and was activated only if
\* it is active; an activation has read a token that was in the table.
RequestSaw(r) ==
    /\ request[r].phase \in Phase => Exists(request[r].of)
    /\ request[r].phase = "flushing" =>
         /\ SameIfSameVersion(request[r].snap, account[request[r].of])
         /\ request[r].snap.state # "none"
         /\ request[r].snap.state = "active" => account[request[r].of].state = "active"
    /\ request[r].phase \in {"reading", "flushing"} /\ request[r].kind = "activate" =>
         request[r].link \in InTable
    /\ request[r].phase = "answered" /\ request[r].kind = "activate" /\ request[r].ok =>
         account[request[r].of].state = "active"

LinksMatch ==
    \A a \in Account :
      /\ link[a] = "none" <=> ~Exists(a)
      /\ link[a] = "used" <=> account[a].state = "active"

IInv ==
    /\ LinksMatch
    /\ \A r \in Request : RequestSaw(r)
    /\ \A c \in Change : change[c] # NoChange => Exists(change[c].of)
    /\ \A a \in activated : account[a].state = "active"

\* A write of an account, by which nothing is deleted and nothing deactivated.
Written(a) ==
    \/ account'[a] = account[a] /\ link'[a] = link[a]
    \/ /\ account'[a] = account[a]
       /\ link[a] \in InTable /\ link'[a] \in InTable
    \/ ~Exists(a) /\ account'[a].state = "inactive" /\ link'[a] = "mailed"
    \/ /\ Exists(a)
       /\ account'[a].version = account[a].version + 1
       /\ \/ account'[a].state = account[a].state /\ link'[a] = link[a]
          \/ account'[a].state = "active" /\ link'[a] = "used"

\* What was read stays true while accounts are written.
LEMMA WritesKeep ==
  ASSUME TypeOK, IInv, TypeOK', \A a \in Account : Written(a)
  PROVE  /\ LinksMatch'
         /\ \A a \in Account : Exists(a) => Exists(a)'
         /\ \A a \in Account : account[a].state = "active" =>
                                 account'[a].state = "active"
         /\ \A r \in Request : request'[r] = request[r] => RequestSaw(r)'
<1> /\ account \in [Account -> AccountRow] /\ account' \in [Account -> AccountRow]
    /\ link \in [Account -> LinkState]
  BY DEF TypeOK
<1>1. ASSUME NEW a \in Account
      PROVE  /\ link'[a] = "none" <=> account'[a].state = "none"
             /\ link'[a] = "used" <=> account'[a].state = "active"
             /\ account[a].state # "none" => account'[a].state # "none"
             /\ account[a].state = "active" => account'[a].state = "active"
             /\ account[a].state # "none" => Advances(account[a], account'[a])
  <2>1. /\ link[a] = "none" <=> account[a].state = "none"
        /\ link[a] = "used" <=> account[a].state = "active"
        /\ account[a] \in AccountRow /\ account'[a] \in AccountRow
    BY DEF IInv, LinksMatch, Exists
  <2>2. QED
    BY <2>1 DEF Written, Exists, Advances, InTable, AccountRow
<1>2. ASSUME NEW r \in Request, request'[r] = request[r]
      PROVE  RequestSaw(r)'
  <2>1. RequestSaw(r)
    BY DEF IInv
  <2>2. CASE request[r].phase \notin Phase
    BY <1>2, <2>2 DEF RequestSaw, Phase
  <2>3. CASE request[r].phase \in Phase
    <3>1. request[r].of \in Account /\ request[r].snap \in AccountRow
      BY <2>3, RequestFields
    <3>2. /\ Exists(request[r].of)
          /\ request[r].snap.version \in Nat
          /\ account[request[r].of].version \in Nat
      BY <2>1, <2>3, <3>1 DEF RequestSaw, AccountRow
    <3>3. SameIfSameVersion(request[r].snap, account[request[r].of]) =>
            SameIfSameVersion(request[r].snap, account'[request[r].of])
      BY <1>1, <3>1, <3>2 DEF Exists, Advances, SameIfSameVersion
    <3>4. QED
      BY <1>1, <1>2, <2>1, <3>1, <3>2, <3>3 DEF RequestSaw, Exists
  <2>4. QED
    BY <2>2, <2>3
<1>3. QED
  BY <1>1, <1>2 DEF LinksMatch, Exists

\* A flush finds the account as it was read, or does not write it.
LEMMA FlushWrites ==
  ASSUME Typed, IInv, NEW r \in Request, Commit(r)
  PROVE  /\ request[r].of \in Account
         /\ \A a \in Account \ {request[r].of} :
               account'[a] = account[a] /\ link'[a] = link[a]
         /\ Written(request[r].of)
         /\ request[r].kind = "activate" => account'[request[r].of].state = "active"
         /\ request[r].kind = "activate" =>
              account'[request[r].of].email = account[request[r].of].email
         /\ request[r].kind = "confirm" =>
              \/ account'[request[r].of] = account[request[r].of]
              \/ account'[request[r].of].email = change[request[r].by].email
         /\ \/ account'[request[r].of] = account[request[r].of]
            \/ EmailFree(account'[request[r].of].email, request[r].of)
<1> DEFINE a == request[r].of
           snap == request[r].snap
<1>1. /\ request[r].phase = "flushing"
      /\ Deletes(r)
      /\ Writes(r) => Fresh(snap, account[a]) /\ EmailFree(Wanted(r).email, a)
  BY DEF Commit, Flushes
<1>2. /\ a \in Account /\ snap \in AccountRow
      /\ request[r].kind \in {"activate", "confirm"}
      /\ account \in [Account -> AccountRow] /\ link \in [Account -> LinkState]
  BY <1>1, RequestFields DEF Typed, TypeOK, Phase
<1>3. /\ Exists(a)
      /\ SameIfSameVersion(snap, account[a]) /\ snap.state # "none"
      /\ snap.state = "active" => account[a].state = "active"
      /\ request[r].kind = "activate" => request[r].link \in InTable
  BY <1>1 DEF IInv, RequestSaw, Phase
<1>4. Writes(r) => snap = account[a]
  BY <1>1, <1>3 DEF SameIfSameVersion, Fresh
<1>5. /\ \A b \in Account \ {a} : account'[b] = account[b]
      /\ ~Writes(r) => account'[a] = account[a]
      /\ Writes(r) => account'[a] = [Wanted(r) EXCEPT !.version = NextVersion(snap)]
  BY <1>2 DEF Commit, CommitAccount
<1>6. CASE request[r].kind = "activate"
  <2>1. link[a] \in InTable /\ account[a].state = "inactive"
    <3>1. link[a] = request[r].link
      BY <1>1, <1>6 DEF Deletes
    <3>2. link[a] \in InTable
      BY <1>3, <1>6, <3>1
    <3>3. account[a].state \in {"none", "inactive", "active"}
      BY <1>2 DEF AccountRow
    <3>4. QED
      BY <1>2, <1>3, <3>2, <3>3 DEF IInv, LinksMatch, InTable, Exists
  <2>2. /\ Wanted(r) = [snap EXCEPT !.state = "active"]
        /\ Wanted(r).state = "active" /\ Wanted(r).email = snap.email
    BY <1>2, <1>6 DEF Wanted, AccountRow
  <2>3. snap.state = "inactive"
    <3>1. snap.state \in {"none", "inactive", "active"}
      BY <1>2 DEF AccountRow
    <3>2. QED
      BY <1>3, <2>1, <3>1
  <2>4. Writes(r)
    BY <2>2, <2>3 DEF Writes
  <2>5. /\ account'[a] = [Wanted(r) EXCEPT !.version = NextVersion(snap)]
        /\ account'[a].state = "active" /\ account'[a].email = account[a].email
        /\ account'[a].version = account[a].version + 1
    BY <1>2, <1>4, <1>5, <2>2, <2>4 DEF AccountRow, NextVersion
  <2>6. link' = [link EXCEPT ![a] = "used"]
    BY <1>6 DEF Commit, CommitActivation, CommitConfirmation
  <2>7. EmailFree(account'[a].email, a)
    <3>1. account'[a].email = Wanted(r).email
      BY <1>4, <2>2, <2>4, <2>5
    <3>2. EmailFree(Wanted(r).email, a)
      BY <1>1, <2>4
    <3>3. QED
      BY <3>1, <3>2 DEF EmailFree
  <2>8. QED
    BY <1>2, <1>3, <1>5, <1>6, <2>5, <2>6, <2>7 DEF Written
<1>7. CASE request[r].kind = "confirm"
  <2>1. link' = link
    BY <1>7 DEF Commit, CommitActivation, CommitConfirmation
  <2>2. CASE ~Writes(r)
    BY <1>2, <1>5, <1>7, <2>1, <2>2 DEF Written
  <2>3. CASE Writes(r)
    <3>1. Wanted(r) = [account[a] EXCEPT !.email = change[request[r].by].email]
      BY <1>4, <1>7, <2>3 DEF Wanted
    <3>2. account[a] \in AccountRow /\ Wanted(r).email = change[request[r].by].email
      BY <1>2, <3>1 DEF AccountRow
    <3>3. /\ Wanted(r).state = account[a].state
          /\ account'[a] = [Wanted(r) EXCEPT !.version = NextVersion(snap)]
          /\ Wanted(r) \in AccountRow
      BY <1>1, <1>5, <2>3, <3>1, <3>2, WantedType DEF AccountRow
    <3>4. /\ account'[a].state = account[a].state
          /\ account'[a].email = Wanted(r).email
          /\ account'[a].version = account[a].version + 1
      BY <1>4, <2>3, <3>3 DEF AccountRow, NextVersion
    <3>5. EmailFree(account'[a].email, a)
      <4>1. EmailFree(Wanted(r).email, a)
        BY <1>1, <2>3
      <4>2. QED
        BY <3>4, <4>1 DEF EmailFree
    <3>6. QED
      BY <1>2, <1>3, <1>5, <1>7, <2>1, <3>2, <3>4, <3>5 DEF Written
  <2>4. QED
    BY <2>2, <2>3
<1>8. QED
  BY <1>2, <1>6, <1>7

\* A step that is no request's writes accounts in that way.
LEMMA OthersWrite ==
  ASSUME Typed, IInv,
         \/ \E a \in Account, e \in Email : CreateOwner(a, e)
         \/ \E c \in Change, a \in Account, e \in Email : ChangeEmail(c, a, e)
         \/ \E a \in Account : EditAccount(a)
         \/ \E c \in Change : Expire(c)
         \/ BeginTimer \/ EndTimer
         \/ UNCHANGED vars
  PROVE  /\ \A a \in Account : Written(a)
         /\ UNCHANGED <<request, activated>>
         /\ \A c \in Change : change'[c] # NoChange =>
              \/ change[c] # NoChange /\ change'[c].of = change[c].of
              \/ Exists(change'[c].of)
<1> /\ account \in [Account -> AccountRow] /\ link \in [Account -> LinkState]
    /\ change \in [Change -> ChangeRow \cup {NoChange}]
  BY DEF Typed, TypeOK
<1>1. ASSUME NEW a \in Account, NEW e \in Email, CreateOwner(a, e)
      PROVE  /\ \A b \in Account : Written(b)
             /\ UNCHANGED <<change, request, activated>>
  BY <1>1 DEF CreateOwner, Written
<1>2. ASSUME NEW c \in Change, NEW a \in Account, NEW e \in Email, ChangeEmail(c, a, e)
      PROVE  /\ \A b \in Account : Written(b)
             /\ UNCHANGED <<request, activated>>
             /\ \A d \in Change : change'[d] # NoChange =>
                  change'[d] = change[d] \/ Exists(change'[d].of)
  BY <1>2 DEF ChangeEmail, Written
<1>3. ASSUME NEW a \in Account, EditAccount(a)
      PROVE  /\ \A b \in Account : Written(b)
             /\ UNCHANGED <<change, request, activated>>
  <2>1. /\ account'[a].state = account[a].state
        /\ account'[a].version = account[a].version + 1
    BY <1>3 DEF EditAccount, NextVersion, AccountRow
  <2>2. QED
    BY <1>3, <2>1 DEF EditAccount, Written
<1>4. ASSUME NEW c \in Change, Expire(c)
      PROVE  /\ UNCHANGED <<account, link, request, activated>>
             /\ \A d \in Change : change'[d] # NoChange =>
                  change[d] # NoChange /\ change'[d].of = change[d].of
  <2>1. change[c] \in ChangeRow
    BY <1>4, ChangeFields DEF Typed, Expire, NoChange
  <2>2. change[c] # NoChange
    BY <2>1 DEF ChangeRow, NoChange
  <2>3. \A d \in Change \ {c} : change'[d] = change[d]
    BY <1>4 DEF Expire
  <2>4. change'[c].of = change[c].of
    BY <1>4, <2>1 DEF Expire, ChangeRow
  <2>5. QED
    BY <1>4, <2>2, <2>3, <2>4 DEF Expire
<1>5. ASSUME BeginTimer
      PROVE  UNCHANGED <<account, link, change, request, activated>>
  BY <1>5 DEF BeginTimer, BeginCleaning, BeginReminder, BeginDeletion, BeginJob
<1>6. ASSUME CleanUnconfirmedAccounts \/ ReminderFails \/ DeletionFails
      PROVE  UNCHANGED <<account, link, change, request, activated>>
  BY <1>6 DEF CleanUnconfirmedAccounts, ReminderFails, DeletionFails
<1>7. ASSUME SendActivationReminder
      PROVE  /\ \A a \in Account : Written(a)
             /\ UNCHANGED <<change, request, activated>>
  BY <1>7 DEF SendActivationReminder, Written, InTable
<1>8. ASSUME DeleteNewEmailExpiredTokens
      PROVE  /\ UNCHANGED <<account, link, request, activated>>
             /\ \A d \in Change : change'[d] # NoChange =>
                  change[d] # NoChange /\ change'[d].of = change[d].of
  <2>1. ASSUME NEW d \in Change, d \in timer.changes
        PROVE  change[d] # NoChange /\ change'[d].of = change[d].of
    <3>1. change[d] # NoChange
      BY <2>1 DEF Typed, TypeOK
    <3>2. change[d] \in ChangeRow
      BY <3>1
    <3>3. change'[d] = [change[d] EXCEPT !.state = "gone"]
      BY <1>8, <2>1 DEF DeleteNewEmailExpiredTokens
    <3>4. QED
      BY <3>1, <3>2, <3>3 DEF ChangeRow
  <2>2. ASSUME NEW d \in Change, d \notin timer.changes
        PROVE  change'[d] = change[d]
    BY <1>8, <2>2 DEF DeleteNewEmailExpiredTokens
  <2>3. QED
    BY <1>8, <2>1, <2>2 DEF DeleteNewEmailExpiredTokens
<1>9. UNCHANGED <<account, link>> => \A a \in Account : Written(a)
  BY DEF Written
<1>10. QED
  BY <1>1, <1>2, <1>3, <1>4, <1>5, <1>6, <1>7, <1>8, <1>9 DEF EndTimer, vars

\* A step of a request writes accounts in that way as well.
LEMMA RequestWrites ==
  ASSUME Typed, IInv, NEW r \in Request, RequestStep(r)
  PROVE  /\ \A a \in Account : Written(a)
         /\ \A c \in Change : change'[c] # NoChange =>
              change[c] # NoChange /\ change'[c].of = change[c].of
<1>1. CASE Commit(r)
  <2>1. \A a \in Account : Written(a)
    BY <1>1, FlushWrites DEF Written
  <2>2. ASSUME NEW c \in Change, change'[c] # NoChange
        PROVE  change[c] # NoChange /\ change'[c].of = change[c].of
    <3>1. CASE CommitActivation(r)
      BY <2>2, <3>1 DEF CommitActivation
    <3>2. CASE CommitConfirmation(r)
      <4>1. /\ request[r].by \in Change /\ change[request[r].by] \in ChangeRow
            /\ change[request[r].by] # NoChange
            /\ change \in [Change -> ChangeRow \cup {NoChange}]
        BY <1>1, <3>2, ChangeFields
           DEF Commit, CommitConfirmation, Typed, TypeOK, LinksKnown, Phase
      <4>2. CASE c = request[r].by
        BY <3>2, <4>1, <4>2 DEF CommitConfirmation, ChangeRow
      <4>3. CASE c # request[r].by
        BY <2>2, <3>2, <4>1, <4>3 DEF CommitConfirmation
      <4>4. QED
        BY <4>2, <4>3
    <3>3. QED
      BY <1>1, <3>1, <3>2 DEF Commit
  <2>3. QED
    BY <2>1, <2>2
<1>2. CASE ~Commit(r)
  <2>1. UNCHANGED <<account, link, change>>
    BY <1>2 DEF RequestStep, ActivateFromEmail, ConfirmEmail, ReceiveAnswer,
                LoseAnswer, FindToken, ReadAccount, Refuse
  <2>2. QED
    BY <2>1 DEF Written
<1>3. QED
  BY <1>1, <1>2

\* What the request itself sees by its step.
LEMMA RequestSees ==
  ASSUME Typed, Typed', IInv, NEW r \in Request, RequestStep(r)
  PROVE  /\ RequestSaw(r)'
         /\ \A a \in activated' : account'[a].state = "active"
<1> /\ account \in [Account -> AccountRow] /\ link \in [Account -> LinkState]
    /\ request \in [Request -> RequestRecord \cup {NoRequest}]
    /\ activated \subseteq Account
  BY DEF Typed, TypeOK
<1>1. /\ RequestSaw(r)
      /\ \A a \in activated : account[a].state = "active"
      /\ \A a \in Account : link[a] = "none" <=> ~Exists(a)
      /\ \A c \in Change : change[c] # NoChange => Exists(change[c].of)
  BY DEF IInv, LinksMatch
<1>2. /\ \A a \in Account : Exists(a) => Exists(a)'
      /\ \A a \in Account : account[a].state = "active" =>
                              account'[a].state = "active"
  <2>1. \A a \in Account : Written(a)
    BY RequestWrites
  <2>2. QED
    BY <2>1, WritesKeep DEF Typed
<1>3. request[r].phase \in Phase =>
        /\ request[r] \in RequestRecord
        /\ request[r].of \in Account /\ request[r].link \in LinkState
        /\ request[r].kind \in {"activate", "confirm"}
        /\ Exists(request[r].of)
  BY <1>1, RequestFields DEF Typed, RequestSaw
<1>4. CASE \E a \in Account : ActivateFromEmail(r, a)
  <2>1. PICK a \in Account : ActivateFromEmail(r, a)
    BY <1>4
  <2>2. request'[r].phase = "sent" /\ request'[r].of = a /\ Exists(a)
    BY <1>1, <2>1 DEF ActivateFromEmail, Post
  <2>3. QED
    BY <1>1, <2>1, <2>2 DEF ActivateFromEmail, RequestSaw, Exists
<1>5. CASE \E c \in Change : ConfirmEmail(r, c)
  <2>1. PICK c \in Change : ConfirmEmail(r, c)
    BY <1>5
  <2>2. request'[r].phase = "sent" /\ request'[r].of = change[c].of
        /\ Exists(change[c].of)
    BY <1>1, <2>1 DEF ConfirmEmail, Post
  <2>3. QED
    BY <1>1, <2>1, <2>2 DEF ConfirmEmail, RequestSaw, Exists
<1>6. CASE ReceiveAnswer(r)
  <2>1. request[r].phase \in Phase
    BY <1>6 DEF ReceiveAnswer, Phase
  <2>2. CASE request[r].kind = "activate" /\ request[r].ok
    <3>1. account[request[r].of].state = "active"
      BY <1>1, <1>6, <2>2 DEF RequestSaw, ReceiveAnswer
    <3>2. request'[r].phase = "sent" /\ request'[r].of = request[r].of
      BY <1>6, <2>2 DEF ReceiveAnswer, Post
    <3>3. QED
      BY <1>1, <1>3, <1>6, <2>1, <2>2, <3>1, <3>2
         DEF ReceiveAnswer, RequestSaw, Exists
  <2>3. CASE ~(request[r].kind = "activate" /\ request[r].ok)
    BY <1>1, <1>6, <2>3 DEF ReceiveAnswer, RequestSaw, NoRequest, Phase
  <2>4. QED
    BY <2>2, <2>3
<1>7. CASE LoseAnswer(r)
  BY <1>1, <1>7 DEF LoseAnswer, RequestSaw, NoRequest, Phase
<1>8. CASE FindToken(r)
  <2> DEFINE l == IF request[r].kind = "activate" THEN link[request[r].of]
                  ELSE request[r].link
  <2>1. request[r].phase \in Phase
    BY <1>8 DEF FindToken, Phase
  <2>2. request' = [request EXCEPT ![r].phase = "reading", ![r].link = l]
    BY <1>8 DEF FindToken
  <2>3. request[r].kind = "activate" => l \in InTable
    BY <1>8 DEF FindToken, TokenFound
  <2> HIDE DEF l
  <2>4. /\ request'[r].phase = "reading" /\ request'[r].of = request[r].of
        /\ request'[r].kind = request[r].kind /\ request'[r].link = l
    BY <1>3, <2>1, <2>2 DEF RequestRecord
  <2>5. QED
    BY <1>1, <1>3, <1>8, <2>1, <2>3, <2>4 DEF FindToken, RequestSaw, Exists
<1>9. CASE ReadAccount(r)
  <2>1. request[r].phase \in Phase
    BY <1>9 DEF ReadAccount, Phase
  <2>2. /\ request'[r].phase = "flushing" /\ request'[r].of = request[r].of
        /\ request'[r].kind = request[r].kind /\ request'[r].link = request[r].link
        /\ request'[r].snap = account[request[r].of]
    BY <1>3, <1>9, <2>1 DEF ReadAccount, RequestRecord
  <2>3. SameIfSameVersion(account[request[r].of], account[request[r].of])
    BY <1>3, <2>1 DEF SameIfSameVersion, AccountRow
  <2>4. QED
    BY <1>1, <1>3, <1>9, <2>1, <2>2, <2>3 DEF ReadAccount, RequestSaw, Exists
<1>10. CASE Commit(r)
  <2>1. request[r].phase \in Phase
    BY <1>10 DEF Commit, Phase
  <2>2. /\ request'[r].phase = "answered" /\ request'[r].of = request[r].of
        /\ request'[r].kind = request[r].kind
    BY <1>3, <1>10, <2>1 DEF Commit, RequestRecord
  <2>3. request[r].kind = "activate" => account'[request[r].of].state = "active"
    BY <1>10, FlushWrites
  <2>4. RequestSaw(r)'
    BY <1>2, <1>3, <2>1, <2>2, <2>3 DEF RequestSaw, Exists
  <2>5. QED
    BY <1>1, <1>2, <1>10, <2>4 DEF Commit
<1>11. CASE Refuse(r)
  <2>1. request[r].phase \in Phase
    BY <1>11 DEF Refuse, Phase
  <2>2. /\ request'[r].phase = "answered" /\ request'[r].of = request[r].of
        /\ request'[r].ok = FALSE
    BY <1>3, <1>11, <2>1 DEF Refuse, RequestRecord
  <2>3. QED
    BY <1>1, <1>3, <1>11, <2>1, <2>2 DEF Refuse, RequestSaw, Exists
<1>12. QED
  BY <1>4, <1>5, <1>6, <1>7, <1>8, <1>9, <1>10, <1>11 DEF RequestStep

\* The inductive invariant holds.
LEMMA LinksInvariant == Spec => []IInv
<1>1. Init => IInv
  BY DEF Init, IInv, LinksMatch, RequestSaw, Exists, NoAccount, NoRequest, NoChange,
         Phase
<1>2. Typed /\ Typed' /\ IInv /\ [Next]_vars => IInv'
  <2> SUFFICES ASSUME Typed, Typed', IInv, [Next]_vars PROVE IInv'
    OBVIOUS
  <2>1. ASSUME NEW r \in Request, RequestStep(r) PROVE IInv'
    <3>1. /\ \A a \in Account : Written(a)
          /\ \A c \in Change : change'[c] # NoChange =>
               change[c] # NoChange /\ change'[c].of = change[c].of
      BY <2>1, RequestWrites
    <3>2. /\ LinksMatch'
          /\ \A a \in Account : Exists(a) => Exists(a)'
          /\ \A q \in Request : request'[q] = request[q] => RequestSaw(q)'
      BY <3>1, WritesKeep DEF Typed
    <3>3. /\ RequestSaw(r)'
          /\ \A a \in activated' : account'[a].state = "active"
      BY <2>1, RequestSees
    <3>4. \A q \in Request : RequestSaw(q)'
      BY <2>1, <3>2, <3>3, RequestMoves DEF Typed
    <3>5. \A c \in Change : change'[c] # NoChange =>
                                account'[change'[c].of].state # "none"
      BY <3>1, <3>2, ChangeFields DEF IInv, Typed, Exists
    <3>6. QED
      BY <3>2, <3>3, <3>4, <3>5 DEF IInv, Exists
  <2>2. CASE ~\E r \in Request : RequestStep(r)
    <3>1. /\ \A a \in Account : Written(a)
          /\ UNCHANGED <<request, activated>>
          /\ \A c \in Change : change'[c] # NoChange =>
               \/ change[c] # NoChange /\ change'[c].of = change[c].of
               \/ Exists(change'[c].of)
      BY <2>2, OthersWrite DEF Next
    <3>2. /\ LinksMatch'
          /\ \A a \in Account : Exists(a) => Exists(a)'
          /\ \A a \in Account : account[a].state = "active" =>
                                  account'[a].state = "active"
          /\ \A q \in Request : request'[q] = request[q] => RequestSaw(q)'
      BY <3>1, WritesKeep DEF Typed
    <3>3. \A q \in Request : RequestSaw(q)'
      BY <3>1, <3>2
    <3>4. \A a \in activated' : account'[a].state = "active"
      BY <3>1, <3>2 DEF IInv, Typed, TypeOK
    <3>5. \A c \in Change : change'[c] # NoChange =>
                                account'[change'[c].of].state # "none"
      <4>1. \A c \in Change : change'[c] # NoChange => change'[c].of \in Account
        BY DEF Typed, TypeOK, ChangeRow
      <4>2. QED
        BY <3>1, <3>2, <4>1 DEF IInv, Exists
    <3>6. QED
      BY <3>2, <3>3, <3>4, <3>5 DEF IInv, Exists
  <2>3. QED
    BY <2>1, <2>2
<1>3. QED
  BY <1>1, <1>2, TypedInvariant, PTL DEF Spec

\* An account that is not active has its link, and what was called activated is.
THEOREM LinksLast == Spec => []LinkUntilActive
<1>1. TypeOK /\ IInv => LinkUntilActive
  BY DEF TypeOK, AccountRow, LinkState, IInv, LinksMatch, LinkUntilActive, InTable,
         Exists
<1>2. QED
  BY <1>1, TypeCorrect, LinksInvariant, PTL

-----------------------------------------------------------------------------
(* Addresses *)

EmailsStay ==
    \A a \in Account : /\ account'[a].email = account[a].email
                       /\ account'[a].state # "none" => account[a].state # "none"

\* A step leaves the addresses alone, or writes one that no other account has:
\* that of a new account, or one that was mailed a link.
LEMMA EmailWritten ==
  ASSUME Typed, IInv, [Next]_vars
  PROVE  \/ EmailsStay
         \/ \E a \in Account :
              /\ \A b \in Account \ {a} : account'[b] = account[b]
              /\ EmailFree(account'[a].email, a)
              /\ \/ ~Exists(a)
                 \/ account'[a].email = account[a].email
                 \/ \E c \in Change : /\ change[c].state = "mailed"
                                      /\ change'[c].state = "gone"
                                      /\ change[c].of = a
                                      /\ change[c].email = account'[a].email
<1> /\ account \in [Account -> AccountRow]
    /\ change \in [Change -> ChangeRow \cup {NoChange}]
  BY DEF Typed, TypeOK
<1>1. ASSUME NEW a \in Account, NEW e \in Email, CreateOwner(a, e)
      PROVE  /\ \A b \in Account \ {a} : account'[b] = account[b]
             /\ EmailFree(account'[a].email, a)
             /\ ~Exists(a)
  <2>1. account'[a].email = e
    BY <1>1 DEF CreateOwner
  <2>2. EmailFree(e, a)
    BY <1>1 DEF CreateOwner
  <2>3. EmailFree(account'[a].email, a)
    BY <2>1, <2>2 DEF EmailFree
  <2>4. QED
    BY <1>1, <2>3 DEF CreateOwner
<1>2. ASSUME NEW a \in Account, EditAccount(a) PROVE EmailsStay
  BY <1>2 DEF EditAccount, EmailsStay, AccountRow
<1>3. ASSUME NEW r \in Request, Commit(r)
      PROVE  /\ \A b \in Account \ {request[r].of} : account'[b] = account[b]
             /\ request[r].of \in Account
             /\ \/ EmailsStay
                \/ /\ EmailFree(account'[request[r].of].email, request[r].of)
                   /\ \/ account'[request[r].of].email = account[request[r].of].email
                      \/ \E c \in Change :
                           /\ change[c].state = "mailed"
                           /\ change'[c].state = "gone"
                           /\ change[c].of = request[r].of
                           /\ change[c].email = account'[request[r].of].email
  <2> DEFINE a == request[r].of
  <2>1. /\ a \in Account
        /\ \A b \in Account \ {a} : account'[b] = account[b]
        /\ request[r].kind = "activate" => account'[a].email = account[a].email
        /\ request[r].kind = "confirm" =>
             \/ account'[a] = account[a]
             \/ account'[a].email = change[request[r].by].email
        /\ account'[a] = account[a] \/ EmailFree(account'[a].email, a)
    BY <1>3, FlushWrites
  <2>2. CASE account'[a] = account[a]
    BY <2>1, <2>2 DEF EmailsStay
  <2>3. CASE account'[a] # account[a] /\ request[r].kind = "activate"
    BY <2>1, <2>3
  <2>4. CASE account'[a] # account[a] /\ request[r].kind = "confirm"
    <3>1. /\ request[r].by \in Change
          /\ change[request[r].by].of = a
          /\ change[request[r].by].state = "mailed"
      BY <1>3, <2>4 DEF Commit, Flushes, Deletes, Typed, LinksKnown, Phase
    <3>2. change[request[r].by] \in ChangeRow
      BY <3>1 DEF NoChange
    <3>3. change' = [change EXCEPT ![request[r].by].state = "gone"]
      BY <1>3, <2>4 DEF Commit, CommitActivation, CommitConfirmation
    <3>4. change'[request[r].by].state = "gone"
      BY <3>1, <3>2, <3>3 DEF ChangeRow
    <3>5. QED
      BY <2>1, <2>4, <3>1, <3>4
  <2>5. request[r].kind \in {"activate", "confirm"}
    BY <1>3, RequestFields DEF Commit, Typed, Phase
  <2>6. QED
    BY <2>1, <2>2, <2>3, <2>4, <2>5
<1>4. CASE \E a \in Account, e \in Email : CreateOwner(a, e)
  BY <1>1, <1>4
<1>5. CASE \E a \in Account : EditAccount(a)
  BY <1>2, <1>5
<1>6. CASE \E r \in Request : Commit(r)
  BY <1>3, <1>6
<1>7. CASE UNCHANGED account
  BY <1>7 DEF EmailsStay
<1>8. QED
  <2>1. ASSUME NEW r \in Request, RequestStep(r), ~Commit(r) PROVE UNCHANGED account
    BY <2>1 DEF RequestStep, ActivateFromEmail, ConfirmEmail, ReceiveAnswer,
                LoseAnswer, FindToken, ReadAccount, Refuse
  <2>2. ASSUME BeginTimer \/ EndTimer PROVE UNCHANGED account
    BY <2>2 DEF BeginTimer, BeginCleaning, BeginReminder, BeginDeletion, BeginJob,
                EndTimer, CleanUnconfirmedAccounts, SendActivationReminder,
                ReminderFails, DeleteNewEmailExpiredTokens, DeletionFails
  <2>3. ASSUME \/ \E c \in Change, a \in Account, e \in Email : ChangeEmail(c, a, e)
               \/ \E c \in Change : Expire(c)
        PROVE  UNCHANGED account
    BY <2>3 DEF ChangeEmail, Expire
  <2>4. QED
    BY <1>4, <1>5, <1>6, <1>7, <2>1, <2>2, <2>3 DEF Next, vars

\* No two accounts have one address.
THEOREM EmailsAreUnique == Spec => []UniqueEmails
<1>1. Init => UniqueEmails
  BY DEF Init, UniqueEmails, Exists, NoAccount
<1>2. Typed /\ IInv /\ UniqueEmails /\ [Next]_vars => UniqueEmails'
  <2> SUFFICES ASSUME Typed, IInv, UniqueEmails, [Next]_vars PROVE UniqueEmails'
    OBVIOUS
  <2>1. CASE EmailsStay
    BY <2>1 DEF UniqueEmails, EmailsStay, Exists
  <2>2. CASE \E a \in Account :
               /\ \A b \in Account \ {a} : account'[b] = account[b]
               /\ EmailFree(account'[a].email, a)
    <3>1. PICK a \in Account :
            /\ \A b \in Account \ {a} : account'[b] = account[b]
            /\ EmailFree(account'[a].email, a)
      BY <2>2
    <3>2. \A b \in Account \ {a} : account[b].email # account'[a].email
      BY <3>1 DEF EmailFree
    <3>3. QED
      BY <3>1, <3>2 DEF UniqueEmails, Exists
  <2>3. QED
    BY <2>1, <2>2, EmailWritten
<1>3. QED
  BY <1>1, <1>2, TypedInvariant, LinksInvariant, PTL DEF Spec

\* An account gets a new address only by the use of the link mailed to it, which
\* then works no more: of several pending changes each is made once, in
\* whichever order, and no late request makes an old one again.
AddressComesByLink ==
    [][\A a \in Account :
         Exists(a) /\ account'[a].email # account[a].email =>
           \E c \in Change : /\ change[c].state = "mailed"
                             /\ change'[c].state = "gone"
                             /\ change[c].of = a
                             /\ change[c].email = account'[a].email]_vars

\* An account gets a new address by the use of a link that was mailed to it.
THEOREM AddressFromLink == Spec => AddressComesByLink
<1> DEFINE ByLink ==
      \A a \in Account :
        Exists(a) /\ account'[a].email # account[a].email =>
          \E c \in Change : /\ change[c].state = "mailed"
                            /\ change'[c].state = "gone"
                            /\ change[c].of = a
                            /\ change[c].email = account'[a].email
<1>1. Typed /\ IInv /\ [Next]_vars => [ByLink]_vars
  <2> SUFFICES ASSUME Typed, IInv, [Next]_vars PROVE ByLink
    OBVIOUS
  <2>1. QED
    BY EmailWritten DEF EmailsStay
<1>2. QED
  BY <1>1, TypedInvariant, LinksInvariant, PTL DEF Spec, AddressComesByLink

-----------------------------------------------------------------------------
(* Addresses that were asked for twice *)

\* Another link has brought the account the address of this one.
Brought(c) == \E d \in Change : /\ change[d].state = "gone"
                                /\ change[d].of = change[c].of
                                /\ change[d].email = change[c].email

\* An address nobody has is asked for; who has it before its link is used, or
\* had it when it was read, got it by another link.
BroughtByLink ==
    /\ \A c \in Change :
         change[c].state = "mailed" /\ account[change[c].of].email = change[c].email
         => Brought(c)
    /\ \A r \in Request :
         /\ request[r].phase = "flushing" /\ request[r].kind = "confirm"
         /\ change[request[r].by].state = "mailed"
         /\ request[r].snap.email = change[request[r].by].email
         => Brought(request[r].by)

\* What was asked for does not change, and a link that is gone stays so.
LinksKept ==
    \A c \in Change : change[c] # NoChange =>
      /\ change'[c] # NoChange
      /\ change'[c].of = change[c].of /\ change'[c].email = change[c].email
      /\ change[c].state = "gone" => change'[c].state = "gone"

\* A link that is mailed by this step is for an address nobody has.
MailedForNew ==
    \A c \in Change : change[c] = NoChange /\ change'[c] # NoChange =>
      /\ change'[c].of \in Account
      /\ account' = account
      /\ \A a \in Account : account[a].email # change'[c].email

\* One field of a link is written.
LEMMA FieldWritten ==
  ASSUME TypeOK, NEW c \in Change, change[c] # NoChange,
         \/ change' = [change EXCEPT ![c].state = "gone"]
         \/ change' = [change EXCEPT ![c].expired = TRUE]
  PROVE  LinksKept /\ MailedForNew
<1>1. change[c] \in ChangeRow /\ change \in [Change -> ChangeRow \cup {NoChange}]
  BY ChangeFields DEF TypeOK
<1>2. \A d \in Change \ {c} : change'[d] = change[d]
  BY <1>1
<1>3. \/ change'[c] = [change[c] EXCEPT !.state = "gone"]
      \/ change'[c] = [change[c] EXCEPT !.expired = TRUE]
  BY <1>1
<1>4. /\ change'[c] \in ChangeRow
      /\ change'[c].of = change[c].of /\ change'[c].email = change[c].email
      /\ change[c].state = "gone" => change'[c].state = "gone"
  BY <1>1, <1>3 DEF ChangeRow
<1>5. ASSUME NEW row \in ChangeRow PROVE row # NoChange
  BY DEF ChangeRow, NoChange
<1>6. QED
  BY <1>2, <1>4, <1>5 DEF LinksKept, MailedForNew

\* What a step makes of the links.
LEMMA LinksWritten ==
  ASSUME Typed, [Next]_vars
  PROVE  LinksKept /\ MailedForNew
<1> TypeOK /\ change \in [Change -> ChangeRow \cup {NoChange}]
  BY DEF Typed, TypeOK
<1>1. ASSUME NEW c \in Change, NEW a \in Account, NEW e \in Email, ChangeEmail(c, a, e)
      PROVE  LinksKept /\ MailedForNew
  <2>1. /\ \A d \in Change \ {c} : change'[d] = change[d]
        /\ change[c] = NoChange
        /\ change'[c].of = a /\ change'[c].email = e
        /\ account' = account
        /\ \A b \in Account : account[b].email # e
    BY <1>1 DEF ChangeEmail, AccountExistsByEmail
  <2>2. QED
    BY <2>1 DEF LinksKept, MailedForNew
<1>2. ASSUME NEW c \in Change, Expire(c) PROVE LinksKept /\ MailedForNew
  <2>1. change[c] # NoChange
    BY <1>2 DEF Expire, NoChange
  <2>2. QED
    BY <1>2, <2>1, FieldWritten DEF Expire
<1>3. ASSUME NEW r \in Request, Commit(r), CommitConfirmation(r)
      PROVE  LinksKept /\ MailedForNew
  <2>1. request[r].by \in Change /\ change[request[r].by] # NoChange
    BY <1>3 DEF Commit, CommitConfirmation, Typed, LinksKnown, Phase
  <2>2. QED
    BY <1>3, <2>1, FieldWritten DEF CommitConfirmation
<1>4. ASSUME DeleteNewEmailExpiredTokens PROVE LinksKept /\ MailedForNew
  <2>1. ASSUME NEW c \in Change, change[c] # NoChange
        PROVE  /\ change'[c] # NoChange
               /\ change'[c].of = change[c].of /\ change'[c].email = change[c].email
               /\ change[c].state = "gone" => change'[c].state = "gone"
    <3>1. change[c] \in ChangeRow
      BY <2>1
    <3>2. change'[c] = change[c] \/ change'[c] = [change[c] EXCEPT !.state = "gone"]
      BY <1>4 DEF DeleteNewEmailExpiredTokens
    <3>3. change'[c] \in ChangeRow
      BY <3>1, <3>2 DEF ChangeRow
    <3>4. change'[c] # NoChange
      BY <3>3 DEF ChangeRow, NoChange
    <3>5. QED
      BY <3>1, <3>2, <3>4 DEF ChangeRow
  <2>2. ASSUME NEW c \in Change, change[c] = NoChange PROVE change'[c] = NoChange
    BY <1>4, <2>2 DEF DeleteNewEmailExpiredTokens, Typed, TypeOK
  <2>3. QED
    BY <2>1, <2>2 DEF LinksKept, MailedForNew
<1>5. UNCHANGED change => LinksKept /\ MailedForNew
  BY DEF LinksKept, MailedForNew
<1>6. ASSUME NEW r \in Request, RequestStep(r), ~CommitConfirmation(r) \/ ~Commit(r)
      PROVE  UNCHANGED change
  BY <1>6 DEF RequestStep, ActivateFromEmail, ConfirmEmail, ReceiveAnswer, LoseAnswer,
              FindToken, ReadAccount, Commit, CommitActivation, Refuse
<1>7. ASSUME BeginTimer \/ EndTimer, ~DeleteNewEmailExpiredTokens
      PROVE  UNCHANGED change
  BY <1>7 DEF BeginTimer, BeginCleaning, BeginReminder, BeginDeletion, BeginJob,
              EndTimer, CleanUnconfirmedAccounts, SendActivationReminder,
              ReminderFails, DeletionFails
<1>8. ASSUME \/ \E a \in Account, e \in Email : CreateOwner(a, e)
             \/ \E a \in Account : EditAccount(a)
      PROVE  UNCHANGED change
  BY <1>8 DEF CreateOwner, EditAccount
<1>9. QED
  BY <1>1, <1>2, <1>3, <1>4, <1>5, <1>6, <1>7, <1>8 DEF Next, vars

\* An address that came by a link is known to have.
LEMMA BroughtStays ==
  ASSUME TypeOK, LinksKept, NEW c \in Change, change[c] # NoChange, Brought(c)
  PROVE  Brought(c)'
<1>1. PICK d \in Change : /\ change[d].state = "gone"
                          /\ change[d].of = change[c].of
                          /\ change[d].email = change[c].email
  BY DEF Brought
<1>2. change[d] # NoChange
  BY <1>1 DEF NoChange
<1>3. QED
  BY <1>1, <1>2 DEF Brought, LinksKept

\* A request comes to its flush by reading the account.
LEMMA OnlyReadingFlushes ==
  ASSUME Typed, [Next]_vars, NEW r \in Request,
         request'[r].phase = "flushing", request'[r] # request[r]
  PROVE  ReadAccount(r)
<1> TypeOK /\ request \in [Request -> RequestRecord \cup {NoRequest}]
  BY DEF Typed, TypeOK
<1>1. PICK q \in Request : RequestStep(q)
  BY DEF Next, vars, CreateOwner, ChangeEmail, EditAccount, Expire,
         BeginTimer, BeginCleaning, BeginReminder, BeginDeletion, BeginJob,
         EndTimer, CleanUnconfirmedAccounts, SendActivationReminder,
         ReminderFails, DeleteNewEmailExpiredTokens, DeletionFails
<1>2. q = r
  BY <1>1, RequestMoves
<1>3. ASSUME \E a \in Account : ActivateFromEmail(r, a) PROVE FALSE
  BY <1>3 DEF ActivateFromEmail, Post
<1>4. ASSUME \E c \in Change : ConfirmEmail(r, c) PROVE FALSE
  BY <1>4 DEF ConfirmEmail, Post
<1>5. ASSUME ReceiveAnswer(r) \/ LoseAnswer(r) PROVE FALSE
  BY <1>5 DEF ReceiveAnswer, LoseAnswer, Post, NoRequest
<1>6. ASSUME FindToken(r) \/ Commit(r) \/ Refuse(r) PROVE FALSE
  <2>1. request[r] \in RequestRecord
    BY <1>6, RequestFields DEF FindToken, Commit, Refuse, Phase
  <2>2. request'[r].phase \in {"reading", "answered"}
    BY <1>6, <2>1 DEF FindToken, Commit, Refuse, RequestRecord
  <2>3. QED
    BY <2>2
<1>7. QED
  BY <1>1, <1>2, <1>3, <1>4, <1>5, <1>6 DEF RequestStep

\* It is an invariant.
LEMMA BroughtHolds == Spec => []BroughtByLink
<1>1. Init => BroughtByLink
  BY DEF Init, BroughtByLink, NoChange, NoRequest
<1>2. Typed /\ Typed' /\ IInv /\ BroughtByLink /\ [Next]_vars => BroughtByLink'
  <2> SUFFICES ASSUME Typed, Typed', IInv, BroughtByLink, [Next]_vars
               PROVE  BroughtByLink'
    OBVIOUS
  <2> TypeOK
    BY DEF Typed
  <2>1. LinksKept /\ MailedForNew
    BY LinksWritten
  <2>2. ASSUME NEW c \in Change, change'[c].state = "mailed",
               account'[change'[c].of].email = change'[c].email
        PROVE  Brought(c)'
    <3>1. change'[c] # NoChange
      BY <2>2 DEF NoChange
    <3>2. CASE change[c] = NoChange
      BY <2>1, <2>2, <3>1, <3>2 DEF MailedForNew
    <3>3. CASE change[c] # NoChange
      <4>1. /\ change'[c].of = change[c].of /\ change'[c].email = change[c].email
            /\ change[c].of \in Account /\ change[c].state = "mailed"
            /\ Exists(change[c].of)
        BY <2>1, <2>2, <3>3, ChangeFields DEF LinksKept, IInv
      <4>2. CASE account'[change[c].of].email = account[change[c].of].email
        BY <2>1, <2>2, <3>3, <4>1, <4>2, BroughtStays DEF BroughtByLink
      <4>3. CASE account'[change[c].of].email # account[change[c].of].email
        <5>1. PICK d \in Change : /\ change[d].state = "mailed"
                                  /\ change'[d].state = "gone"
                                  /\ change[d].of = change[c].of
                                  /\ change[d].email = account'[change[c].of].email
          BY <4>1, <4>3, EmailWritten DEF EmailsStay
        <5>2. change[d] # NoChange
          BY <5>1 DEF NoChange
        <5>3. QED
          BY <2>1, <2>2, <4>1, <5>1, <5>2 DEF LinksKept, Brought
      <4>4. QED
        BY <4>2, <4>3
    <3>4. QED
      BY <3>2, <3>3
  <2>3. ASSUME NEW r \in Request,
               request'[r].phase = "flushing", request'[r].kind = "confirm",
               change'[request'[r].by].state = "mailed",
               request'[r].snap.email = change'[request'[r].by].email
        PROVE  Brought(request[r].by)' /\ request'[r].by = request[r].by
    <3> request \in [Request -> RequestRecord \cup {NoRequest}]
      BY DEF TypeOK
    <3>1. CASE request'[r] = request[r]
      <4>1. /\ request[r].by \in Change /\ change[request[r].by] # NoChange
        BY <2>3, <3>1 DEF Typed, LinksKnown, Phase
      <4>2. /\ change[request[r].by].state = "mailed"
            /\ change'[request[r].by].email = change[request[r].by].email
        BY <2>1, <2>3, <3>1, <4>1, ChangeFields DEF LinksKept
      <4>3. QED
        BY <2>1, <2>3, <3>1, <4>1, <4>2, BroughtStays DEF BroughtByLink
    <3>2. CASE request'[r] # request[r]
      <4>1. ReadAccount(r)
        BY <2>3, <3>2, OnlyReadingFlushes
      <4>2. /\ request[r].phase \in Phase /\ request[r] \in RequestRecord
        BY <4>1, RequestFields DEF ReadAccount, Phase
      <4>3. /\ request'[r].snap = account[request[r].of]
            /\ request'[r].by = request[r].by /\ request'[r].kind = request[r].kind
            /\ change' = change
        BY <4>1, <4>2 DEF ReadAccount, RequestRecord
      <4>4. /\ request[r].by \in Change /\ change[request[r].by] # NoChange
            /\ change[request[r].by].of = request[r].of
        BY <2>3, <4>2, <4>3 DEF Typed, LinksKnown
      <4>5. Brought(request[r].by)
        BY <2>3, <4>3, <4>4 DEF BroughtByLink
      <4>6. QED
        BY <2>1, <4>3, <4>4, <4>5, BroughtStays
    <3>3. QED
      BY <3>1, <3>2
  <2>4. QED
    BY <2>2, <2>3 DEF BroughtByLink, Brought
<1>3. QED
  BY <1>1, <1>2, TypedInvariant, LinksInvariant, PTL DEF Spec
-----------------------------------------------------------------------------
(* Every step is one of Registrations, or is not seen there *)

Seen == <<Status, Emails, Reminded, change, activated>>

\* The part of the model that Registrations does not see.
LEMMA Unseen ==
  ASSUME UNCHANGED <<account, link, change, activated>>
  PROVE  UNCHANGED Seen
BY DEF Seen, Status, Emails, Reminded

\* One row of the account table is written: what is seen of it.
LEMMA RowSeen ==
  ASSUME TypeOK, TypeOK', NEW a \in Account,
         \A b \in Account \ {a} : account'[b] = account[b]
  PROVE  /\ Status' = [Status EXCEPT ![a] = account'[a].state]
         /\ Emails' = [Emails EXCEPT ![a] = account'[a].email]
BY DEF Status, Emails

\* The same of the tokens of the accounts.
LEMMA TokenSeen ==
  ASSUME NEW a \in Account, link \in [Account -> LinkState], NEW l \in LinkState,
         l # "reminded", link' = [link EXCEPT ![a] = l]
  PROVE  Reminded' = Reminded \ {a}
BY DEF Reminded

\* The account is new and has no token, so that it was never reminded.
LEMMA OwnerRegisters ==
  ASSUME TypeOK, TypeOK', IInv, NEW a \in Account, NEW e \in Email, CreateOwner(a, e)
  PROVE  Atomic!Register(a, e)
<1>1. /\ account' = [account EXCEPT ![a] = [state |-> "inactive", email |-> e,
                                            version |-> 0]]
      /\ link' = [link EXCEPT ![a] = "mailed"]
      /\ ~Exists(a) /\ EmailFree(e, a)
      /\ UNCHANGED <<change, activated>>
  BY DEF CreateOwner
<1>2. account \in [Account -> AccountRow] /\ link \in [Account -> LinkState]
  BY DEF TypeOK
<1>3. account'[a].state = "inactive" /\ account'[a].email = e
  BY <1>1, <1>2
<1>4. /\ Status' = [Status EXCEPT ![a] = "inactive"]
      /\ Emails' = [Emails EXCEPT ![a] = e]
  BY <1>1, <1>2, <1>3, RowSeen
<1>5. Reminded' = Reminded
  <2>1. a \notin Reminded
    BY <1>1 DEF IInv, LinksMatch, Reminded
  <2>2. Reminded' = Reminded \ {a}
    BY <1>1, <1>2, TokenSeen DEF LinkState
  <2>3. QED
    BY <2>1, <2>2
<1>6. ~Atomic!Registered(a)
  BY <1>1 DEF Exists, Atomic!Registered, Status
<1>7. Atomic!Free(e, a)
  BY <1>1 DEF EmailFree, Atomic!Free, Emails
<1>8. QED
  BY <1>1, <1>4, <1>5, <1>6, <1>7 DEF Atomic!Register

\* A change is asked for in one step, as in Registrations.
LEMMA ChangeIsAsked ==
  ASSUME NEW c \in Change, NEW a \in Account, NEW e \in Email, ChangeEmail(c, a, e)
  PROVE  Atomic!Ask(c, a, e)
<1>1. /\ change[c].state = "none"
      /\ Atomic!Registered(a)
      /\ \A b \in Account : Emails[b] # e
  BY DEF ChangeEmail, NoChange, Exists, AccountExistsByEmail, Atomic!Registered,
         Status, Emails
<1>2. UNCHANGED <<Status, Emails, Reminded>>
  BY DEF ChangeEmail, Status, Emails, Reminded
<1>3. QED
  BY <1>1, <1>2 DEF ChangeEmail, Atomic!Ask

\* So is the end of the day of a link.
LEMMA LinkLapses ==
  ASSUME NEW c \in Change, Expire(c)
  PROVE  Atomic!Lapse(c)
<1>1. UNCHANGED <<Status, Emails, Reminded>>
  BY DEF Expire, Status, Emails, Reminded
<1>2. QED
  BY <1>1 DEF Expire, Atomic!Lapse, Atomic!Usable

\* The version of an account is not seen.
LEMMA EditIsUnseen ==
  ASSUME TypeOK, TypeOK', NEW a \in Account, EditAccount(a)
  PROVE  UNCHANGED Seen
<1>1. /\ account' = [account EXCEPT ![a].version = NextVersion(account[a])]
      /\ UNCHANGED <<link, change, activated>>
  BY DEF EditAccount
<1>2. account \in [Account -> AccountRow]
  BY DEF TypeOK
<1>3. \A b \in Account : /\ account'[b].state = account[b].state
                         /\ account'[b].email = account[b].email
  BY <1>1, <1>2 DEF AccountRow
<1>4. Status' = Status /\ Emails' = Emails
  BY <1>3 DEF Status, Emails
<1>5. QED
  BY <1>1, <1>4 DEF Seen, Reminded

\* An answer that tells of an activation is told of an active account.
LEMMA AnswerTells ==
  ASSUME Typed, IInv, NEW r \in Request, ReceiveAnswer(r)
  PROVE  (\E a \in Account : Atomic!Tell(a)) \/ UNCHANGED Seen
<1>1. CASE request[r].kind = "activate" /\ request[r].ok
  <2>1. request[r].phase = "answered" /\ "answered" \in Phase
    BY DEF ReceiveAnswer, Phase
  <2>2. request[r].of \in Account
    BY <2>1, RequestFields DEF Typed
  <2>3. account[request[r].of].state = "active"
    BY <1>1, <2>1 DEF IInv, RequestSaw
  <2>4. /\ activated' = activated \cup {request[r].of}
        /\ UNCHANGED <<account, link, change>>
    BY <1>1 DEF ReceiveAnswer
  <2>5. UNCHANGED <<Status, Emails, Reminded>>
    BY <2>4 DEF Status, Emails, Reminded
  <2>6. QED
    BY <2>2, <2>3, <2>4, <2>5 DEF Atomic!Tell, Status
<1>2. CASE ~(request[r].kind = "activate" /\ request[r].ok)
  BY <1>2, Unseen DEF ReceiveAnswer
<1>3. QED
  BY <1>1, <1>2

\* Its token, deleted in the version that was read, means that the account is inactive.
LEMMA CommitActivates ==
  ASSUME Typed, Typed', IInv, NEW r \in Request, Commit(r), CommitActivation(r)
  PROVE  Atomic!Activate(request[r].of)
<1> DEFINE a == request[r].of
<1> /\ TypeOK /\ TypeOK'
    /\ account \in [Account -> AccountRow] /\ link \in [Account -> LinkState]
  BY DEF Typed, TypeOK
<1>1. /\ a \in Account
      /\ \A b \in Account \ {a} : account'[b] = account[b]
      /\ account'[a].state = "active" /\ account'[a].email = account[a].email
  BY FlushWrites DEF CommitActivation
<1>2. account[a].state = "inactive"
  <2>1. /\ link[a] = request[r].link /\ request[r].link \in InTable
    BY DEF Commit, Flushes, Deletes, CommitActivation, IInv, RequestSaw
  <2>2. account[a].state \in {"none", "inactive", "active"}
    BY <1>1 DEF AccountRow
  <2>3. QED
    BY <1>1, <2>1, <2>2 DEF IInv, LinksMatch, InTable, Exists
<1>3. Status' = [Status EXCEPT ![a] = "active"]
  BY <1>1, RowSeen
<1>4. Emails' = Emails
  <2>1. \A b \in Account : account'[b].email = account[b].email
    BY <1>1
  <2>2. QED
    BY <2>1 DEF Emails
<1>5. Reminded' = Reminded \ {a}
  BY <1>1, TokenSeen DEF CommitActivation, LinkState
<1>6. UNCHANGED <<change, activated>>
  BY DEF Commit, CommitActivation
<1>7. QED
  BY <1>1, <1>2, <1>3, <1>4, <1>5, <1>6 DEF Atomic!Activate, Status

\* A link is used up.
LEMMA OneUsedUp ==
  ASSUME TypeOK, NEW c \in Change, change' = [change EXCEPT ![c].state = "gone"]
  PROVE  change' = Atomic!UsedUp({c})
<1>1. change \in [Change -> ChangeRow \cup {NoChange}]
  BY DEF TypeOK
<1>2. QED
  BY <1>1 DEF Atomic!UsedUp

\* A confirmation that writes the account gives it the address, if that is free.
LEMMA ConfirmWrites ==
  ASSUME Typed, IInv, NEW r \in Request, Commit(r), CommitConfirmation(r), Writes(r)
  PROVE  /\ account'[request[r].of].state = account[request[r].of].state
         /\ account'[request[r].of].email = change[request[r].by].email
         /\ EmailFree(change[request[r].by].email, request[r].of)
<1> DEFINE a == request[r].of
           e == change[request[r].by].email
<1>1. /\ request[r].snap \in AccountRow /\ a \in Account
      /\ account \in [Account -> AccountRow]
  BY RequestFields DEF Commit, Typed, TypeOK, Phase
<1>2. request[r].snap = account[a]
  BY DEF Commit, Flushes, IInv, RequestSaw, SameIfSameVersion, Fresh
<1>3. Wanted(r) = [account[a] EXCEPT !.email = e]
  BY <1>2 DEF Wanted, CommitConfirmation
<1>4. Wanted(r).email = e /\ Wanted(r).state = account[a].state
  BY <1>1, <1>3 DEF AccountRow
<1>5. account'[a] = [Wanted(r) EXCEPT !.version = NextVersion(request[r].snap)]
  BY <1>1 DEF Commit, CommitAccount
<1>6. account'[a].email = e /\ account'[a].state = account[a].state
  BY <1>1, <1>3, <1>5 DEF AccountRow
<1>7. EmailFree(Wanted(r).email, a)
  BY DEF Commit, Flushes
<1>8. EmailFree(e, a)
  BY <1>4, <1>7 DEF EmailFree
<1>9. QED
  BY <1>6, <1>8

\* The confirmation of an address is one, or repeats another.
LEMMA CommitConfirms ==
  ASSUME Typed, Typed', IInv, BroughtByLink,
         NEW r \in Request, Commit(r), CommitConfirmation(r)
  PROVE  Atomic!Confirm(request[r].by) \/ Atomic!Repeat(request[r].by)
<1> DEFINE a == request[r].of
           c == request[r].by
<1> TypeOK /\ TypeOK' /\ account \in [Account -> AccountRow]
  BY DEF Typed, TypeOK
<1>1. /\ c \in Change /\ change[c] # NoChange /\ change[c].of = a
      /\ change[c].state = "mailed"
      /\ request[r].snap \in AccountRow
  BY RequestFields DEF Commit, CommitConfirmation, Flushes, Deletes, Typed, LinksKnown,
                       Phase
<1>2. /\ change' = Atomic!UsedUp({c})
      /\ UNCHANGED <<link, activated>>
  BY <1>1, OneUsedUp DEF Commit, CommitConfirmation
<1>3. Reminded' = Reminded
  BY <1>2 DEF Reminded
<1>4. CASE Writes(r)
  <2>1. /\ a \in Account
        /\ \A b \in Account \ {a} : account'[b] = account[b]
    BY FlushWrites
  <2>2. /\ account'[a].state = account[a].state
        /\ account'[a].email = change[c].email
        /\ EmailFree(change[c].email, a)
    BY <1>4, ConfirmWrites
  <2>3. Status' = Status
    <3>1. \A b \in Account : account'[b].state = account[b].state
      BY <2>1, <2>2
    <3>2. QED
      BY <3>1 DEF Status
  <2>4. Emails' = [Emails EXCEPT ![a] = change[c].email]
    BY <2>1, <2>2, RowSeen
  <2>5. Atomic!Free(change[c].email, a)
    BY <2>2 DEF EmailFree, Atomic!Free, Emails
  <2>6. QED
    BY <1>1, <1>2, <1>3, <2>3, <2>4, <2>5 DEF Atomic!Confirm, Atomic!Usable
<1>5. CASE ~Writes(r)
  <2>1. account' = account
    BY <1>5 DEF Commit, CommitAccount
  <2>2. request[r].snap.email = change[c].email
    <3>1. [request[r].snap EXCEPT !.email = change[c].email] = request[r].snap
      BY <1>5 DEF Writes, Wanted, CommitConfirmation
    <3>2. QED
      BY <1>1, <3>1 DEF AccountRow
  <2>3. Brought(c)
    BY <1>1, <2>2 DEF BroughtByLink, Commit, CommitConfirmation
  <2>4. UNCHANGED <<Status, Emails>>
    BY <2>1 DEF Status, Emails
  <2>5. QED
    BY <1>1, <1>2, <1>3, <2>3, <2>4 DEF Atomic!Repeat, Atomic!Usable, Brought
<1>6. QED
  BY <1>4, <1>5

\* A token that was never reminded is that of an account not active yet.
LEMMA OwnersAreReminded ==
  ASSUME TypeOK, IInv, SendActivationReminder
  PROVE  Atomic!Remind(timer.list)
<1>1. /\ timer.list \subseteq Account
      /\ account \in [Account -> AccountRow] /\ link \in [Account -> LinkState]
  BY DEF TypeOK
<1>2. ASSUME NEW a \in timer.list
      PROVE  Status[a] = "inactive" /\ a \notin Reminded
  <2>1. link[a] = "mailed" /\ a \in Account
    BY <1>1 DEF SendActivationReminder
  <2>2. account[a].state \in {"none", "inactive", "active"}
    BY <1>1, <2>1 DEF AccountRow
  <2>3. account[a].state = "inactive"
    BY <2>1, <2>2 DEF IInv, LinksMatch, Exists
  <2>4. QED
    BY <2>1, <2>3 DEF Status, Reminded
<1>3. Reminded' = Reminded \cup timer.list
  BY <1>1 DEF SendActivationReminder, Reminded
<1>4. UNCHANGED <<Status, Emails>>
  BY DEF SendActivationReminder, Status, Emails
<1>5. QED
  BY <1>2, <1>3, <1>4 DEF Atomic!Remind, SendActivationReminder

\* The timer has selected expired links only, and finds all of them.
LEMMA LapsedAreRemoved ==
  ASSUME TypeOK, DeleteNewEmailExpiredTokens
  PROVE  Atomic!Remove(timer.changes)
<1>1. \A c \in timer.changes : change[c].state = "mailed" /\ change[c].expired
  BY DEF TypeOK, DeleteNewEmailExpiredTokens
<1>2. change' = Atomic!UsedUp(timer.changes)
  BY DEF DeleteNewEmailExpiredTokens, Atomic!UsedUp
<1>3. UNCHANGED <<Status, Emails, Reminded>>
  BY DEF DeleteNewEmailExpiredTokens, Status, Emails, Reminded
<1>4. QED
  BY <1>1, <1>2, <1>3 DEF Atomic!Remove, Atomic!Usable, DeleteNewEmailExpiredTokens

\* The initial states.
LEMMA InitImplements == Init => Atomic!Init
BY DEF Init, Atomic!Init, Status, Emails, Reminded, NoAccount, NoChange

\* Every step.
LEMMA StepImplements ==
  ASSUME Typed, Typed', IInv, BroughtByLink, [Next]_vars
  PROVE  Atomic!Next \/ UNCHANGED Seen
<1> TypeOK /\ TypeOK'
  BY DEF Typed
<1>1. ASSUME NEW a \in Account, NEW e \in Email, CreateOwner(a, e) PROVE Atomic!Next
  BY <1>1, OwnerRegisters DEF Atomic!Next
<1>2. ASSUME NEW c \in Change, NEW a \in Account, NEW e \in Email, ChangeEmail(c, a, e)
      PROVE  Atomic!Next
  BY <1>2, ChangeIsAsked DEF Atomic!Next
<1>3. ASSUME NEW a \in Account, EditAccount(a) PROVE UNCHANGED Seen
  BY <1>3, EditIsUnseen
<1>4. ASSUME NEW c \in Change, Expire(c) PROVE Atomic!Next
  BY <1>4, LinkLapses DEF Atomic!Next
<1>5. ASSUME NEW r \in Request, RequestStep(r) PROVE Atomic!Next \/ UNCHANGED Seen
  <2>1. CASE ReceiveAnswer(r)
    BY <2>1, AnswerTells DEF Atomic!Next
  <2>2. CASE Commit(r) /\ CommitActivation(r)
    <3>1. request[r].of \in Account
      BY <2>2, FlushWrites
    <3>2. QED
      BY <2>2, <3>1, CommitActivates DEF Atomic!Next
  <2>3. CASE Commit(r) /\ CommitConfirmation(r)
    <3>1. request[r].by \in Change
      BY <2>3 DEF Commit, CommitConfirmation, Typed, LinksKnown, Phase
    <3>2. QED
      BY <2>3, <3>1, CommitConfirms DEF Atomic!Next
  <2>4. CASE ~ReceiveAnswer(r) /\ ~Commit(r)
    <3>1. UNCHANGED <<account, link, change, activated>>
      BY <1>5, <2>4 DEF RequestStep, ActivateFromEmail, ConfirmEmail, LoseAnswer,
                        FindToken, ReadAccount, Refuse
    <3>2. QED
      BY <3>1, Unseen
  <2>5. QED
    BY <2>1, <2>2, <2>3, <2>4 DEF Commit
<1>6. ASSUME SendActivationReminder PROVE Atomic!Next
  <2>1. timer.list \in SUBSET Account
    BY DEF TypeOK
  <2>2. QED
    BY <1>6, <2>1, OwnersAreReminded DEF Atomic!Next
<1>7. ASSUME DeleteNewEmailExpiredTokens PROVE Atomic!Next
  <2>1. timer.changes \in SUBSET Change
    BY DEF TypeOK
  <2>2. QED
    BY <1>7, <2>1, LapsedAreRemoved DEF Atomic!Next
<1>8. ASSUME \/ BeginTimer \/ UNCHANGED vars
             \/ CleanUnconfirmedAccounts \/ ReminderFails \/ DeletionFails
      PROVE  UNCHANGED Seen
  <2>1. UNCHANGED <<account, link, change, activated>>
    BY <1>8 DEF BeginTimer, BeginCleaning, BeginReminder, BeginDeletion, BeginJob,
                CleanUnconfirmedAccounts, ReminderFails, DeletionFails, vars
  <2>2. QED
    BY <2>1, Unseen
<1>9. QED
  BY <1>1, <1>2, <1>3, <1>4, <1>5, <1>6, <1>7, <1>8 DEF Next, EndTimer

\* Every behaviour of MailedLinks is one of Registrations.
THEOREM LinksImplemented == Spec => LinksAreAtomic
<1>1. Typed /\ Typed' /\ IInv /\ BroughtByLink /\ [Next]_vars =>
        [Atomic!Next]_(Atomic!vars)
  BY StepImplements DEF Atomic!vars, Seen
<1>2. QED
  BY InitImplements, <1>1, TypedInvariant, LinksInvariant, BroughtHolds, PTL
     DEF Spec, LinksAreAtomic, Atomic!Spec
=============================================================================
