-------------------------- MODULE PasswordsProofs --------------------------
(***************************************************************************)
(* What Passwords guarantees for any accounts, passwords and requests.     *)
(***************************************************************************)
EXTENDS Passwords, TLAPS

-----------------------------------------------------------------------------
(* Types *)

\* A request stays well typed when its phase changes and when it keeps a row.
LEMMA RequestUpdate ==
  ASSUME TypeOK, NEW r \in Request, NEW p \in Phase
  PROVE  /\ request[r] \in RequestRecord
         /\ request[r].target \in Account /\ request[r].link \in Request
         /\ Row(r) \in AccountRow
         /\ [request EXCEPT ![r].phase = p] \in [Request -> RequestRecord]
         /\ \A row \in AccountRow :
              /\ [request EXCEPT ![r].phase = p, ![r].held = row]
                   \in [Request -> RequestRecord]
              /\ [request EXCEPT ![r].phase = p, ![r].snap = row]
                   \in [Request -> RequestRecord]
<1> request \in [Request -> RequestRecord]
  BY DEF TypeOK
<1>1. /\ request[r] \in RequestRecord
      /\ request[r].target \in Account /\ request[r].link \in Request
  BY DEF RequestRecord
<1>2. Row(r) \in AccountRow
  BY <1>1 DEF TypeOK, Row
<1>3. [request EXCEPT ![r].phase = p] \in [Request -> RequestRecord]
  BY DEF RequestRecord
<1>4. ASSUME NEW row \in AccountRow
      PROVE  [request EXCEPT ![r].phase = p, ![r].held = row]
               \in [Request -> RequestRecord]
  <2> DEFINE new == [request[r] EXCEPT !.phase = p, !.held = row]
  <2>1. new \in RequestRecord
    BY <1>1 DEF RequestRecord
  <2> HIDE DEF new
  <2>2. [request EXCEPT ![r] = new] \in [Request -> RequestRecord]
    BY <2>1
  <2>3. QED
    BY <2>2 DEF new
<1>5. ASSUME NEW row \in AccountRow
      PROVE  [request EXCEPT ![r].phase = p, ![r].snap = row]
               \in [Request -> RequestRecord]
  <2> DEFINE new == [request[r] EXCEPT !.phase = p, !.snap = row]
  <2>1. new \in RequestRecord
    BY <1>1 DEF RequestRecord
  <2> HIDE DEF new
  <2>2. [request EXCEPT ![r] = new] \in [Request -> RequestRecord]
    BY <2>1
  <2>3. QED
    BY <2>2 DEF new
<1>6. QED
  BY <1>1, <1>2, <1>3, <1>4, <1>5

\* A flush that writes the account writes a row of the table.
LEMMA NewPasswordType ==
  ASSUME TypeOK, NEW r \in Request
  PROVE  NewPassword(r) \in [Account -> AccountRow]
<1>1. request[r].new \in Password /\ request[r].snap \in AccountRow
  BY DEF TypeOK, RequestRecord
<1>2. Written(r) \in AccountRow
  BY <1>1 DEF Written, NextVersion, AccountRow
<1>3. QED
  BY <1>2 DEF NewPassword, TypeOK

\* A commit changes a token's state only, and no request writes sweep.
LEMMA CommitTypes ==
  ASSUME TypeOK, NEW r \in Request, Commit(r)
  PROVE  /\ account' \in [Account -> AccountRow]
         /\ token' \in [Request -> TokenRow]
         /\ \A t \in Request : token'[t].expired = token[t].expired
<1>1. request[r].link \in Request
  BY DEF TypeOK, RequestRecord
<1>2. token \in [Request -> TokenRow] /\ account \in [Account -> AccountRow]
  BY DEF TypeOK
<1>3. ASSUME NEW t \in Request, NEW s \in {"mailed", "gone"}
      PROVE  /\ [token EXCEPT ![t].state = s] \in [Request -> TokenRow]
             /\ \A u \in Request : [token EXCEPT ![t].state = s][u].expired
                                     = token[u].expired
  BY <1>2 DEF TokenRow
<1>4. CASE CommitSelf(r)
  BY <1>2, <1>4, NewPasswordType DEF CommitSelf
<1>5. CASE CommitAdmin(r)
  BY <1>3, <1>5, NewPasswordType DEF CommitAdmin
<1>6. CASE CommitReset(r)
  BY <1>2, <1>3, <1>6 DEF CommitReset
<1>7. CASE CommitLink(r)
  BY <1>1, <1>3, <1>7, NewPasswordType DEF CommitLink
<1>8. QED
  BY <1>4, <1>5, <1>6, <1>7 DEF Commit

\* Type correctness.
THEOREM TypeCorrect == Spec => []TypeOK
<1>1. Init => TypeOK
  BY DEF Init, TypeOK, AccountRow, TokenRow, NoToken, RequestRecord, Phase
<1>2. TypeOK /\ [Next]_vars => TypeOK'
  <2> SUFFICES ASSUME TypeOK, [Next]_vars PROVE TypeOK'
    OBVIOUS
  <2> /\ token \in [Request -> TokenRow]
      /\ sweep \subseteq {t \in Request : token[t].expired}
    BY DEF TypeOK
  <2>1. ASSUME NEW r \in Request, View(r) PROVE TypeOK'
    <3>1. "viewed" \in Phase
      BY DEF Phase
    <3>2. QED
      BY <2>1, <3>1, RequestUpdate DEF View, TypeOK
  <2>2. ASSUME NEW r \in Request, Begin(r) PROVE TypeOK'
    <3>1. "flushing" \in Phase
      BY DEF Phase
    <3>2. QED
      BY <2>2, <3>1, RequestUpdate DEF Begin, TypeOK
  <2>3. ASSUME NEW r \in Request, ReadToken(r) \/ Refuse(r) \/ Fail(r) PROVE TypeOK'
    <3>1. "reading" \in Phase /\ "refused" \in Phase
      BY DEF Phase
    <3>2. request' \in [Request -> RequestRecord]
      <4>1. \/ request' = [request EXCEPT ![r].phase = "reading"]
            \/ request' = [request EXCEPT ![r].phase = "refused"]
        BY <2>3 DEF ReadToken, Refuse, Fail, SetPhase
      <4>2. ASSUME NEW p \in Phase
            PROVE  [request EXCEPT ![r].phase = p] \in [Request -> RequestRecord]
        BY RequestUpdate
      <4>3. QED
        BY <3>1, <4>1, <4>2
    <3>3. QED
      BY <2>3, <3>2 DEF ReadToken, Refuse, Fail, TypeOK
  <2>4. ASSUME NEW r \in Request, Commit(r) PROVE TypeOK'
    <3>1. request' \in [Request -> RequestRecord]
      BY <2>4, RequestUpdate DEF Commit, SetPhase, Phase
    <3>2. sweep' \subseteq {t \in Request : token'[t].expired}
      BY <2>4, CommitTypes DEF Commit
    <3>3. QED
      BY <2>4, <3>1, <3>2, CommitTypes DEF TypeOK
  <2>5. ASSUME NEW t \in Request, Expire(t) PROVE TypeOK'
    <3>1. /\ token' \in [Request -> TokenRow]
          /\ \A u \in Request : token[u].expired => token'[u].expired
      BY <2>5 DEF Expire, TokenRow
    <3>2. QED
      BY <2>5, <3>1 DEF Expire, TypeOK
  <2>6. CASE BeginSweep
    BY <2>6 DEF BeginSweep, Selected, TypeOK
  <2>7. CASE EndSweep
    <3>1. /\ token' \in [Request -> TokenRow]
          /\ sweep' = {}
      BY <2>7 DEF EndSweep, CommitSweep, SweepFails, TokenRow
    <3>2. QED
      BY <2>7, <3>1 DEF EndSweep, CommitSweep, SweepFails, TypeOK
  <2>8. ASSUME NEW a \in Account, ChangeAccount(a) PROVE TypeOK'
    <3>1. account' \in [Account -> AccountRow]
      BY <2>8 DEF ChangeAccount, NextVersion, TypeOK, AccountRow
    <3>2. QED
      BY <2>8, <3>1 DEF ChangeAccount, TypeOK
  <2>9. CASE UNCHANGED vars
    BY <2>9 DEF vars, TypeOK
  <2>10. QED
    BY <2>1, <2>2, <2>3, <2>4, <2>5, <2>6, <2>7, <2>8, <2>9 DEF Next, RequestStep
<1>3. QED
  BY <1>1, <1>2, PTL DEF Spec

-----------------------------------------------------------------------------
(* The optimistic lock on the account. *)

\* A request whose client, or whose transaction, relies on a row it has read.
Viewed(r) ==
    request[r].kind \in Matched /\ request[r].phase \in {"viewed", "flushing"}

\* What such a request knows of its account, and what its checks established.
RequestsSaw ==
    \A r \in Request :
      /\ Viewed(r) => SameIfSameVersion(request[r].held, Row(r))
      /\ request[r].phase = "flushing" =>
           /\ SameIfSameVersion(request[r].snap, Row(r))
           /\ request[r].kind \in Matched => request[r].snap = request[r].held
           /\ request[r].kind \in {"link", "admin"} =>
                request[r].snap.isOpen /\ request[r].snap.password # request[r].new
           /\ request[r].kind = "self" =>
                /\ request[r].snap.password = request[r].old
                /\ request[r].old # request[r].new

\* A commit that writes the account has read the row it overwrites.
LEMMA CommitReads ==
  ASSUME RequestsSaw, NEW r \in Request, Commit(r), request[r].kind # "reset"
  PROVE  Row(r) = request[r].snap
BY DEF Commit, Flushes, Fresh, RequestsSaw, SameIfSameVersion

\* An account row stays or takes its next version.
LEMMA RowsAdvance ==
  ASSUME TypeOK, RequestsSaw, [Next]_vars, NEW a \in Account
  PROVE  Advances(account[a], account'[a])
<1> account \in [Account -> AccountRow]
  BY DEF TypeOK
<1>1. ASSUME NEW r \in Request, Commit(r) PROVE Advances(account[a], account'[a])
  <2>1. CASE account' = NewPassword(r) /\ request[r].kind # "reset"
    <3>1. CASE a = request[r].target
      <4>1. account'[a] = Written(r)
        BY <2>1, <3>1 DEF NewPassword
      <4>2. account[a] = request[r].snap
        BY <1>1, <2>1, <3>1, CommitReads DEF Row
      <4>3. QED
        BY <4>1, <4>2 DEF Advances, Written, NextVersion
    <3>2. CASE a # request[r].target
      BY <2>1, <3>2 DEF NewPassword, Advances
    <3>3. QED
      BY <3>1, <3>2
  <2>2. CASE UNCHANGED account
    BY <2>2 DEF Advances
  <2>3. QED
    BY <1>1, <2>1, <2>2
    DEF Commit, CommitSelf, CommitAdmin, CommitReset, CommitLink
<1>2. ASSUME NEW b \in Account, ChangeAccount(b)
      PROVE  Advances(account[a], account'[a])
  BY <1>2 DEF ChangeAccount, NextVersion, Advances
<1>3. CASE UNCHANGED account
  BY <1>3 DEF Advances
<1>4. QED
  BY <1>1, <1>2, <1>3
  DEF Next, RequestStep, View, ReadToken, Begin, Refuse, Fail, Expire,
      BeginSweep, EndSweep, CommitSweep, SweepFails, vars

\* What a step does to a request: nothing, a GET, a read with its checks, or a
\* change of phase after which it relies on no row.
LEMMA RequestMoves ==
  ASSUME TypeOK, [Next]_vars, NEW r \in Request
  PROVE  \/ request'[r] = request[r]
         \/ View(r) /\ request'[r] = [request[r] EXCEPT !.phase = "viewed",
                                                       !.held = Row(r)]
         \/ Begin(r) /\ request'[r] = [request[r] EXCEPT !.phase = "flushing",
                                                        !.snap = Row(r)]
         \/ /\ ReadToken(r) \/ Refuse(r) \/ Commit(r) \/ Fail(r)
            /\ request'[r].phase \in {"reading", "refused", "done"}
            /\ \E p \in Phase : request'[r] = [request[r] EXCEPT !.phase = p]
            /\ request'[r].phase = "reading" => request[r].kind = "link"
<1> request \in [Request -> RequestRecord]
  BY DEF TypeOK
<1>1. ASSUME NEW q \in Request, RequestStep(q), q # r PROVE request'[r] = request[r]
  BY <1>1 DEF RequestStep, View, ReadToken, Begin, Refuse, Commit, Fail, SetPhase
<1>2. ASSUME View(r)
      PROVE  request'[r] = [request[r] EXCEPT !.phase = "viewed", !.held = Row(r)]
  BY <1>2 DEF View
<1>3. ASSUME Begin(r)
      PROVE  request'[r] = [request[r] EXCEPT !.phase = "flushing", !.snap = Row(r)]
  BY <1>3 DEF Begin
<1>4. ASSUME ReadToken(r) \/ Refuse(r) \/ Commit(r) \/ Fail(r)
      PROVE  /\ request'[r].phase \in {"reading", "refused", "done"}
             /\ \E p \in Phase : request'[r] = [request[r] EXCEPT !.phase = p]
             /\ request'[r].phase = "reading" => request[r].kind = "link"
  <2>1. PICK p \in {"reading", "refused", "done"} :
          /\ request' = [request EXCEPT ![r].phase = p]
          /\ p = "reading" => request[r].kind = "link"
    BY <1>4 DEF ReadToken, Refuse, Commit, Fail, SetPhase
  <2>2. request'[r] = [request[r] EXCEPT !.phase = p]
    BY <2>1
  <2>3. request'[r].phase = p /\ p \in Phase
    BY <2>2 DEF RequestRecord, Phase
  <2>4. QED
    BY <2>1, <2>2, <2>3
<1>5. CASE UNCHANGED request
  BY <1>5
<1>6. QED
  BY <1>1, <1>2, <1>3, <1>4, <1>5
  DEF Next, RequestStep, Expire, BeginSweep, EndSweep, CommitSweep, SweepFails,
      ChangeAccount, vars

\* RequestsSaw is an invariant.
LEMMA RequestsSawHolds == Spec => []RequestsSaw
<1>1. Init => RequestsSaw
  BY DEF Init, RequestsSaw, Viewed
<1>2. TypeOK /\ RequestsSaw /\ [Next]_vars => RequestsSaw'
  <2> SUFFICES ASSUME TypeOK, RequestsSaw, [Next]_vars, NEW r \in Request
               PROVE  /\ Viewed(r)' => SameIfSameVersion(request'[r].held, Row(r)')
                      /\ request'[r].phase = "flushing" =>
                           /\ SameIfSameVersion(request'[r].snap, Row(r)')
                           /\ request'[r].kind \in Matched =>
                                request'[r].snap = request'[r].held
                           /\ request'[r].kind \in {"link", "admin"} =>
                                /\ request'[r].snap.isOpen
                                /\ request'[r].snap.password # request'[r].new
                           /\ request'[r].kind = "self" =>
                                /\ request'[r].snap.password = request'[r].old
                                /\ request'[r].old # request'[r].new
    BY DEF RequestsSaw
  <2>1. /\ request[r] \in RequestRecord
        /\ request[r].target \in Account
        /\ Row(r) \in AccountRow
        /\ request[r].held \in AccountRow /\ request[r].snap \in AccountRow
    BY DEF TypeOK, RequestRecord, Row
  <2>2. Advances(Row(r), account'[request[r].target])
    BY <2>1, RowsAdvance DEF Row
  <2>3. CASE request'[r] = request[r]
    <3>1. Row(r)' = account'[request[r].target]
      BY <2>3 DEF Row
    <3>2. /\ request[r].held.version \in Nat /\ request[r].snap.version \in Nat
          /\ Row(r).version \in Nat
      BY <2>1 DEF AccountRow
    <3>3. SameIfSameVersion(request[r].held, Row(r)) =>
            SameIfSameVersion(request[r].held, Row(r)')
      BY <2>2, <3>1, <3>2 DEF Advances, SameIfSameVersion
    <3>4. SameIfSameVersion(request[r].snap, Row(r)) =>
            SameIfSameVersion(request[r].snap, Row(r)')
      BY <2>2, <3>1, <3>2 DEF Advances, SameIfSameVersion
    <3>5. QED
      BY <2>3, <3>3, <3>4 DEF RequestsSaw, Viewed
  <2>4. CASE View(r) /\ request'[r] = [request[r] EXCEPT !.phase = "viewed",
                                                       !.held = Row(r)]
    <3>1. /\ request'[r].phase = "viewed" /\ request'[r].held = Row(r)
          /\ request'[r].target = request[r].target
      BY <2>1, <2>4 DEF RequestRecord
    <3>2. Row(r)' = Row(r)
      BY <2>4, <3>1 DEF View, Row
    <3>3. SameIfSameVersion(Row(r), Row(r))
      BY <2>1 DEF SameIfSameVersion, AccountRow
    <3>4. QED
      BY <3>1, <3>2, <3>3
  <2>5. CASE Begin(r) /\ request'[r] = [request[r] EXCEPT !.phase = "flushing",
                                                        !.snap = Row(r)]
    <3>1. /\ request'[r].phase = "flushing" /\ request'[r].snap = Row(r)
          /\ request'[r].held = request[r].held
          /\ request'[r].kind = request[r].kind
          /\ request'[r].old = request[r].old /\ request'[r].new = request[r].new
          /\ request'[r].target = request[r].target
      BY <2>1, <2>5 DEF RequestRecord
    <3>2. Row(r)' = Row(r) /\ Admitted(r)
      BY <2>5, <3>1 DEF Begin, Row
    <3>3. SameIfSameVersion(Row(r), Row(r))
      BY <2>1 DEF SameIfSameVersion, AccountRow
    <3>4. request[r].kind \in Matched => request[r].held = Row(r)
      <4>1. SUFFICES ASSUME request[r].kind \in Matched PROVE request[r].held = Row(r)
        OBVIOUS
      <4>2. Viewed(r)
        BY <2>5, <4>1 DEF Begin, ReadPhase, Matched, Viewed
      <4>3. request[r].held.version = Row(r).version
        BY <3>2, <4>1 DEF Admitted, EtagMatches, Matched
      <4>4. QED
        BY <4>2, <4>3 DEF RequestsSaw, SameIfSameVersion
    <3>5. request[r].kind \in {"link", "admin"} =>
            Row(r).isOpen /\ Row(r).password # request[r].new
      BY <3>2 DEF Admitted, Changeable
    <3>6. request[r].kind = "self" =>
            Row(r).password = request[r].old /\ request[r].old # request[r].new
      BY <3>2 DEF Admitted, OldPasswordCorrect
    <3>7. QED
      BY <3>1, <3>2, <3>3, <3>4, <3>5, <3>6 DEF Viewed
  <2>6. CASE request'[r].phase \in {"reading", "refused", "done"}
    BY <2>6 DEF Viewed
  <2>7. QED
    BY <2>3, <2>4, <2>5, <2>6, RequestMoves
<1>3. QED
  BY <1>1, <1>2, TypeCorrect, PTL DEF Spec

-----------------------------------------------------------------------------
(* What follows from it. *)

\* A request that is done after a step was done before it, or has committed.
LEMMA DoneCommits ==
  ASSUME TypeOK, [Next]_vars, NEW r \in Request, request'[r].phase = "done",
         request[r].phase # "done"
  PROVE  Commit(r)
<1>1. request[r] \in RequestRecord
  BY DEF TypeOK
<1>2. ~View(r) \/ request'[r].phase = "viewed"
  BY <1>1 DEF View, TypeOK, RequestRecord
<1>3. ~Begin(r) \/ request'[r].phase = "flushing"
  BY <1>1 DEF Begin, TypeOK, RequestRecord
<1>4. ASSUME ReadToken(r) \/ Refuse(r) \/ Fail(r) PROVE FALSE
  BY <1>1, <1>4 DEF ReadToken, Refuse, Fail, SetPhase, TypeOK, RequestRecord
<1>5. QED
  BY <1>2, <1>3, <1>4, RequestMoves

\* A change with etag and version is written over the account its client saw.
THEOREM NoBlindChange == Spec => SeenAccountChanged
<1>1. TypeOK /\ RequestsSaw /\ [Next]_vars =>
        [\A r \in Request :
           /\ request[r].kind \in Matched
           /\ request[r].phase = "flushing" /\ request'[r].phase = "done"
           => Row(r) = request[r].held]_vars
  BY DoneCommits, CommitReads DEF RequestsSaw, Matched
<1>2. QED
  BY <1>1, TypeCorrect, RequestsSawHolds, PTL DEF Spec, SeenAccountChanged

-----------------------------------------------------------------------------
(* Tokens *)

\* A token comes from a request that is done, and the token of a used link is
\* gone.
TokensAccounted ==
    /\ \A t \in Request : token[t].state # "none" => request[t].phase = "done"
    /\ \A r \in Request :
         request[r].kind = "link" /\ request[r].phase = "done" =>
           token[request[r].link].state = "gone"

\* What a step does to a token: nothing to its state, an insertion by the commit
\* of its own request, a deletion of a mailed one.
LEMMA TokenMoves ==
  ASSUME TypeOK, [Next]_vars, NEW t \in Request
  PROVE  \/ token'[t].state = token[t].state
         \/ Commit(t)
         \/ token[t].state = "mailed" /\ token'[t].state = "gone"
<1> token \in [Request -> TokenRow]
  BY DEF TypeOK
<1>1. ASSUME NEW r \in Request, Commit(r), r # t
      PROVE  \/ token'[t].state = token[t].state
             \/ token[t].state = "mailed" /\ token'[t].state = "gone"
  <2>1. CASE CommitLink(r)
    <3>1. token[request[r].link].state = "mailed"
      BY <1>1, <2>1 DEF Commit, CommitLink, Flushes, Deletes
    <3>2. QED
      BY <2>1, <3>1 DEF CommitLink, TokenRow
  <2>2. CASE CommitAdmin(r) \/ CommitReset(r)
    BY <1>1, <2>2 DEF CommitAdmin, CommitReset
  <2>3. CASE CommitSelf(r)
    BY <2>3 DEF CommitSelf
  <2>4. QED
    BY <1>1, <2>1, <2>2, <2>3 DEF Commit
<1>2. ASSUME NEW u \in Request, Expire(u) PROVE token'[t].state = token[t].state
  BY <1>2 DEF Expire, TokenRow
<1>3. CASE CommitSweep
  BY <1>3 DEF CommitSweep, Deletes, TokenRow
<1>4. CASE UNCHANGED token
  BY <1>4
<1>5. QED
  BY <1>1, <1>2, <1>3, <1>4
  DEF Next, RequestStep, View, ReadToken, Begin, Refuse, Fail, BeginSweep,
      EndSweep, SweepFails, ChangeAccount, vars

\* What the commit of a link does: it finds its token, and deletes it.
LEMMA LinkCommits ==
  ASSUME TypeOK, NEW r \in Request, Commit(r), request[r].kind = "link"
  PROVE  /\ token[request[r].link].state = "mailed"
         /\ token'[request[r].link].state = "gone"
<1>1. request[r].link \in Request /\ token \in [Request -> TokenRow]
  BY DEF TypeOK, RequestRecord
<1>2. CommitLink(r)
  BY DEF Commit, CommitSelf, CommitAdmin, CommitReset
<1>3. QED
  BY <1>1, <1>2 DEF Commit, Flushes, Deletes, CommitLink, TokenRow

\* Together with TokensAccounted the property is inductive.
THEOREM LinksWorkOnce == Spec => []LinkWorksOnce
<1>1. Init => TokensAccounted /\ LinkWorksOnce
  BY DEF Init, NoToken, TokensAccounted, LinkWorksOnce
<1>2. TypeOK /\ TokensAccounted /\ LinkWorksOnce /\ [Next]_vars =>
        TokensAccounted' /\ LinkWorksOnce'
  <2> SUFFICES ASSUME TypeOK, TokensAccounted, LinkWorksOnce, [Next]_vars
               PROVE  TokensAccounted' /\ LinkWorksOnce'
    OBVIOUS
  <2>1. ASSUME NEW r \in Request
        PROVE  /\ request'[r].kind = request[r].kind
               /\ request'[r].link = request[r].link
               /\ request[r].link \in Request
               /\ Commit(r) => request'[r].phase = "done"
               /\ request[r].phase = "done" => request'[r].phase = "done"
    <3>1. request[r] \in RequestRecord /\ request \in [Request -> RequestRecord]
      BY DEF TypeOK
    <3>2. /\ request'[r].kind = request[r].kind
          /\ request'[r].link = request[r].link
      <4>1. CASE request'[r] = request[r]
        BY <4>1
      <4>2. CASE View(r)
        BY <3>1, <4>2 DEF View, RequestRecord
      <4>3. CASE Begin(r)
        BY <3>1, <4>3 DEF Begin, RequestRecord
      <4>4. CASE \E p \in Phase : request'[r] = [request[r] EXCEPT !.phase = p]
        BY <3>1, <4>4 DEF RequestRecord
      <4>5. QED
        BY <4>1, <4>2, <4>3, <4>4, RequestMoves
    <3>3. Commit(r) => request'[r].phase = "done"
      BY <3>1 DEF Commit, SetPhase, RequestRecord
    <3>4. request[r].phase = "done" => request'[r].phase = "done"
      BY <3>1, <3>3, RequestMoves
      DEF View, Begin, ReadPhase, Matched, ReadToken, Refuse, Fail, Kind, RequestRecord
    <3>5. QED
      BY <3>1, <3>2, <3>3, <3>4 DEF RequestRecord
  <2>2. ASSUME NEW t \in Request, token'[t].state # "none"
        PROVE  request'[t].phase = "done"
    BY <2>1, <2>2, TokenMoves DEF TokensAccounted
  <2>3. ASSUME NEW t \in Request, token[t].state = "gone" PROVE token'[t].state = "gone"
    <3>1. ~Commit(t)
      BY <2>3 DEF TokensAccounted, Commit
    <3>2. QED
      BY <2>3, <3>1, TokenMoves
  <2>4. ASSUME NEW r \in Request, request'[r].kind = "link", request'[r].phase = "done"
        PROVE  token'[request'[r].link].state = "gone"
    <3>1. CASE request[r].phase = "done"
      BY <2>1, <2>3, <2>4, <3>1 DEF TokensAccounted
    <3>2. CASE request[r].phase # "done"
      BY <2>1, <2>4, <3>2, DoneCommits, LinkCommits
    <3>3. QED
      BY <3>1, <3>2
  <2>5. ASSUME NEW r \in Request, NEW s \in Request, Commit(r),
               request'[r].kind = "link", request'[s].kind = "link",
               request'[s].phase = "done", request'[r].link = request'[s].link
        PROVE  r = s
    <3>1. token[request[s].link].state = "mailed"
      BY <2>1, <2>5, LinkCommits
    <3>2. request[s].phase # "done"
      BY <2>1, <2>5, <3>1 DEF TokensAccounted
    <3>3. request'[s] # request[s]
      BY <2>5, <3>2
    <3>4. QED
      BY <2>5, <3>3 DEF Commit, SetPhase, TypeOK
  <2>6. LinkWorksOnce'
    <3> SUFFICES ASSUME NEW r \in Request, NEW s \in Request,
                        request'[r].kind = "link", request'[r].phase = "done",
                        request'[s].kind = "link", request'[s].phase = "done",
                        request'[r].link = request'[s].link
                 PROVE  r = s
      BY DEF LinkWorksOnce
    <3>1. CASE request[r].phase = "done" /\ request[s].phase = "done"
      BY <2>1, <3>1 DEF LinkWorksOnce
    <3>2. CASE request[r].phase # "done"
      BY <2>5, <3>2, DoneCommits
    <3>3. CASE request[s].phase # "done"
      BY <2>5, <3>3, DoneCommits
    <3>4. QED
      BY <3>1, <3>2, <3>3
  <2>7. QED
    BY <2>2, <2>4, <2>6 DEF TokensAccounted
<1>3. QED
  BY <1>1, <1>2, TypeCorrect, PTL DEF Spec
-----------------------------------------------------------------------------
(* The requests as if each took place at once. *)

\* What is seen of a request once it is over.
OutcomeOf(q) == IF q.phase \in {"done", "refused"} THEN q.phase ELSE "open"

\* Nobody changes what a request asks for.
LEMMA InputsStay ==
  ASSUME TypeOK, [Next]_vars
  PROVE  Asked' = Asked
<1>1. ASSUME NEW r \in Request
      PROVE  /\ request'[r].kind = request[r].kind
             /\ request'[r].target = request[r].target
             /\ request'[r].old = request[r].old /\ request'[r].new = request[r].new
             /\ request'[r].link = request[r].link
  <2>1. request[r] \in RequestRecord
    BY DEF TypeOK
  <2>2. CASE request'[r] = request[r]
    BY <2>2
  <2>3. CASE request'[r] = [request[r] EXCEPT !.phase = "viewed", !.held = Row(r)]
    BY <2>1, <2>3 DEF RequestRecord
  <2>4. CASE request'[r] = [request[r] EXCEPT !.phase = "flushing", !.snap = Row(r)]
    BY <2>1, <2>4 DEF RequestRecord
  <2>5. CASE \E p \in Phase : request'[r] = [request[r] EXCEPT !.phase = p]
    BY <2>1, <2>5 DEF RequestRecord
  <2>6. QED
    BY <2>2, <2>3, <2>4, <2>5, RequestMoves
<1>2. QED
  BY <1>1 DEF Asked

\* A step of one request changes the outcome of that request only.
LEMMA OneOutcome ==
  ASSUME TypeOK, NEW r \in Request, RequestStep(r)
  PROVE  Outcome' = [Outcome EXCEPT ![r] = OutcomeOf(request'[r])]
<1>1. \A q \in Request \ {r} : request'[q] = request[q]
  BY DEF TypeOK, RequestStep, View, ReadToken, Begin, Refuse, Commit, Fail, SetPhase
<1>2. QED
  BY <1>1 DEF Outcome, OutcomeOf

\* A step that does not write the rows changes nothing that is seen of them.
LEMMA RowsAlone ==
  /\ account' = account => Stored' = Stored /\ Open' = Open
  /\ token' = token => Links' = Links /\ Late' = Late
BY DEF Stored, Open, Links, Late

\* Reading changes nothing that is seen.
LEMMA ReadImplements ==
  ASSUME TypeOK, [Next]_vars, NEW r \in Request, View(r) \/ ReadToken(r) \/ Begin(r)
  PROVE  UNCHANGED Atomic!vars
<1>1. UNCHANGED <<account, token>>
  BY DEF View, ReadToken, Begin
<1>2. /\ request[r] \in RequestRecord
      /\ request[r].phase \notin {"done", "refused"}
  BY DEF TypeOK, View, ReadToken, Begin, ReadPhase, RequestRecord, Kind, Matched
<1>3. request'[r].phase \in {"viewed", "reading", "flushing"}
  BY <1>2 DEF TypeOK, View, ReadToken, Begin, SetPhase, RequestRecord
<1>4. Outcome' = [Outcome EXCEPT ![r] = "open"] /\ Outcome[r] = "open"
  BY <1>2, <1>3, OneOutcome DEF RequestStep, Outcome, OutcomeOf
<1>5. Outcome' = Outcome
  BY <1>4 DEF Outcome
<1>6. QED
  BY <1>1, <1>5, InputsStay, RowsAlone DEF Atomic!vars

\* A request that ends was open before.
LEMMA EndOfRequest ==
  ASSUME TypeOK, [Next]_vars, NEW r \in Request, NEW p \in {"done", "refused"},
         RequestStep(r), SetPhase(r, p), request[r].phase \notin {"done", "refused"}
  PROVE  /\ Outcome[r] = "open"
         /\ Outcome' = [Outcome EXCEPT ![r] = p]
         /\ Asked' = Asked
<1>1. request'[r].phase = p
  BY DEF SetPhase, TypeOK, RequestRecord
<1>2. QED
  BY <1>1, OneOutcome, InputsStay DEF Outcome, OutcomeOf

LEMMA RefuseImplements ==
  ASSUME TypeOK, [Next]_vars, NEW r \in Request, Refuse(r) \/ Fail(r)
  PROVE  Atomic!Refuse(r)
<1>1. UNCHANGED <<account, token>> /\ SetPhase(r, "refused") /\ RequestStep(r)
  BY DEF Refuse, Fail, RequestStep
<1>2. request[r].phase \notin {"done", "refused"}
  BY DEF Refuse, Fail, ReadPhase, TypeOK, RequestRecord, Kind, Matched
<1>3. QED
  BY <1>1, <1>2, EndOfRequest, RowsAlone DEF Atomic!Refuse, Atomic!End

\* What is written of an account that has been read as it is: its password.
LEMMA PasswordWrite ==
  ASSUME TypeOK, RequestsSaw, NEW r \in Request, Commit(r),
         request[r].kind # "reset"
  PROVE  LET a == request[r].target
         IN  /\ Asked[r].target = a /\ a \in Account
             /\ Stored' = [Stored EXCEPT ![a] = request[r].new]
             /\ Open' = Open
             /\ request[r].kind \in {"link", "admin"} =>
                  a \in Open /\ Stored[a] # request[r].new
             /\ request[r].kind = "self" =>
                  Stored[a] = request[r].old /\ request[r].old # request[r].new
<1> DEFINE a == request[r].target
<1>1. Asked[r].target = a /\ a \in Account /\ account \in [Account -> AccountRow]
  BY DEF Asked, TypeOK, RequestRecord
<1>2. account[a] = request[r].snap
  BY CommitReads DEF Row
<1>3. account' = NewPassword(r)
  BY DEF Commit, CommitSelf, CommitAdmin, CommitReset, CommitLink
<1>4. /\ account'[a].password = request[r].new
      /\ account'[a].isOpen = account[a].isOpen
      /\ \A b \in Account \ {a} : account'[b] = account[b]
  BY <1>1, <1>2, <1>3 DEF NewPassword, Written
<1>5. Stored' = [Stored EXCEPT ![a] = request[r].new] /\ Open' = Open
  BY <1>1, <1>4 DEF Stored, Open
<1>6. Stored[a] = account[a].password /\ (a \in Open <=> account[a].isOpen)
  BY <1>1 DEF Stored, Open
<1>7. /\ request[r].kind \in {"link", "admin"} =>
           request[r].snap.isOpen /\ request[r].snap.password # request[r].new
      /\ request[r].kind = "self" =>
           request[r].snap.password = request[r].old /\ request[r].old # request[r].new
  BY DEF RequestsSaw, Commit
<1>8. QED
  BY <1>1, <1>2, <1>5, <1>6, <1>7

\* The state of a token is written, and when it expires is not.
LEMMA TokenWrite ==
  ASSUME TypeOK, NEW t \in Request, NEW s \in {"mailed", "gone"},
         token' = [token EXCEPT ![t].state = s]
  PROVE  Links' = [Links EXCEPT ![t] = s] /\ Late' = Late
<1>1. /\ token'[t].state = s /\ token'[t].expired = token[t].expired
      /\ \A u \in Request \ {t} : token'[u] = token[u]
  BY DEF TypeOK, TokenRow
<1>2. /\ \A u \in Request : token'[u].expired = token[u].expired
      /\ \A u \in Request : token'[u].state = IF u = t THEN s ELSE token[u].state
  BY <1>1
<1>3. Late' = Late
  BY <1>2 DEF Late
<1>4. Links' = [Links EXCEPT ![t] = s]
  BY <1>2 DEF Links
<1>5. QED
  BY <1>3, <1>4

LEMMA CommitImplements ==
  ASSUME TypeOK, RequestsSaw, [Next]_vars, NEW r \in Request, Commit(r)
  PROVE  \/ Atomic!ChangeOwn(r) \/ Atomic!ChangeAnothers(r)
         \/ Atomic!MailLink(r) \/ Atomic!UseLink(r)
<1>1. /\ Outcome[r] = "open" /\ Outcome' = [Outcome EXCEPT ![r] = "done"]
      /\ Asked' = Asked
  BY EndOfRequest DEF Commit, RequestStep
<1>2. /\ Asked[r].kind = request[r].kind /\ Asked[r].target = request[r].target
      /\ Asked[r].old = request[r].old /\ Asked[r].new = request[r].new
      /\ Asked[r].link = request[r].link /\ request[r].link \in Request
  BY DEF Asked, TypeOK, RequestRecord
<1>3. CASE CommitSelf(r)
  <2>1. request[r].kind = "self" /\ token' = token
    BY <1>3 DEF CommitSelf
  <2>2. QED
    BY <1>1, <1>2, <2>1, PasswordWrite, RowsAlone
    DEF Atomic!ChangeOwn, Atomic!SetPassword, Atomic!End, Atomic!Target
<1>4. CASE CommitAdmin(r)
  <2>1. request[r].kind = "admin" /\ token' = [token EXCEPT ![r].state = "mailed"]
    BY <1>4 DEF CommitAdmin
  <2>2. Links' = [Links EXCEPT ![r] = "mailed"] /\ Late' = Late
    BY <2>1, TokenWrite
  <2>3. QED
    BY <1>1, <1>2, <2>1, <2>2, PasswordWrite
    DEF Atomic!ChangeAnothers, Atomic!MayBeSet, Atomic!SetPassword, Atomic!End,
        Atomic!Target
<1>5. CASE CommitReset(r)
  <2>1. /\ request[r].kind = "reset" /\ account' = account
        /\ token' = [token EXCEPT ![r].state = "mailed"]
    BY <1>5 DEF CommitReset
  <2>2. Links' = [Links EXCEPT ![r] = "mailed"] /\ Late' = Late
    BY <2>1, TokenWrite
  <2>3. QED
    BY <1>1, <1>2, <2>1, <2>2, RowsAlone DEF Atomic!MailLink, Atomic!End
<1>6. CASE CommitLink(r)
  <2>1. /\ request[r].kind = "link"
        /\ token' = [token EXCEPT ![request[r].link].state = "gone"]
    BY <1>6 DEF CommitLink
  <2>2. Links' = [Links EXCEPT ![request[r].link] = "gone"] /\ Late' = Late
    BY <1>2, <2>1, TokenWrite
  <2>3. Links[request[r].link] = "mailed"
    BY <1>2, <2>1, LinkCommits DEF Links
  <2>4. QED
    BY <1>1, <1>2, <2>1, <2>2, <2>3, PasswordWrite
    DEF Atomic!UseLink, Atomic!MayBeSet, Atomic!SetPassword, Atomic!End,
        Atomic!Target
<1>7. QED
  BY <1>3, <1>4, <1>5, <1>6 DEF Commit

\* What is no request's step leaves the requests as they are.
LEMMA NoRequest ==
  ASSUME request' = request
  PROVE  Outcome' = Outcome /\ Asked' = Asked
BY DEF Outcome, Asked

LEMMA ExpireImplements ==
  ASSUME TypeOK, NEW t \in Request, Expire(t)
  PROVE  Atomic!Expire(t)
<1>1. /\ UNCHANGED <<account, request>> /\ token[t].state = "mailed"
      /\ token' = [token EXCEPT ![t].expired = TRUE]
  BY DEF Expire
<1>2. /\ token'[t].state = token[t].state /\ token'[t].expired = TRUE
      /\ \A u \in Request \ {t} : token'[u] = token[u]
  BY <1>1 DEF TypeOK, TokenRow
<1>3. Links' = Links /\ Late' = Late \cup {t}
  BY <1>2 DEF Links, Late
<1>4. QED
  BY <1>1, <1>3, NoRequest, RowsAlone DEF Atomic!Expire, Links

LEMMA SweepImplements ==
  ASSUME TypeOK, EndSweep
  PROVE  Atomic!Remove(sweep) \/ UNCHANGED Atomic!vars
<1>1. UNCHANGED <<account, request>>
  BY DEF EndSweep, CommitSweep, SweepFails
<1>2. CASE CommitSweep
  <2>1. sweep \subseteq Late /\ \A t \in sweep : Links[t] = "mailed"
    BY <1>2 DEF TypeOK, CommitSweep, Deletes, Late, Links
  <2>2. \A t \in Request :
          /\ token'[t].state = IF t \in sweep THEN "gone" ELSE token[t].state
          /\ token'[t].expired = token[t].expired
    BY <1>2 DEF TypeOK, TokenRow, CommitSweep
  <2>3. /\ Links' = [t \in Request |-> IF t \in sweep THEN "gone" ELSE Links[t]]
        /\ Late' = Late
    BY <2>2 DEF Links, Late
  <2>4. QED
    BY <1>1, <2>1, <2>3, NoRequest, RowsAlone DEF Atomic!Remove
<1>3. CASE SweepFails
  BY <1>1, <1>3, NoRequest, RowsAlone DEF SweepFails, Atomic!vars
<1>4. QED
  BY <1>2, <1>3 DEF EndSweep

LEMMA ChangeImplements ==
  ASSUME TypeOK, NEW a \in Account, ChangeAccount(a)
  PROVE  Atomic!Switch(a)
<1>1. PICK open \in BOOLEAN :
        account' = [account EXCEPT ![a] = [password |-> account[a].password,
                                           isOpen   |-> open,
                                           version  |-> NextVersion(account[a])]]
  BY DEF ChangeAccount
<1>2. /\ account'[a].password = account[a].password /\ account'[a].isOpen = open
      /\ \A b \in Account \ {a} : account'[b] = account[b]
  BY <1>1 DEF TypeOK
<1>3. Stored' = Stored
  BY <1>2 DEF Stored
<1>4. Open' = IF open THEN Open \cup {a} ELSE Open \ {a}
  BY <1>2 DEF Open
<1>5. UNCHANGED <<token, request>>
  BY DEF ChangeAccount
<1>6. QED
  BY <1>3, <1>4, <1>5, NoRequest, RowsAlone DEF Atomic!Switch

LEMMA InitImplements == Init => Atomic!Init
<1> SUFFICES ASSUME Init PROVE Atomic!Init
  OBVIOUS
<1>1. Stored \in [Account -> Password] /\ Open \subseteq Account
  BY DEF Init, Stored, Open
<1>2. Links = [t \in Request |-> "none"] /\ Late = {}
  BY DEF Init, NoToken, Links, Late
<1>3. /\ Asked \in [Request -> [kind : Kind, target : Account, old : Password,
                                new : Password, link : Request]]
      /\ Outcome = [r \in Request |-> "open"]
      /\ \A r \in Request : Asked[r].link \in Request
  BY DEF Init, Asked, Outcome
<1>4. \A r \in Request :
        Asked[r].kind = "link" => Asked[Asked[r].link].target = Asked[r].target
  BY <1>3 DEF Init, Asked
<1>5. QED
  BY <1>1, <1>2, <1>3, <1>4 DEF Atomic!Init, Atomic!Target, Kind

LEMMA StepImplements == TypeOK /\ RequestsSaw /\ [Next]_vars
                        => [Atomic!Next]_(Atomic!vars)
<1> SUFFICES ASSUME TypeOK, RequestsSaw, [Next]_vars
             PROVE  Atomic!Next \/ UNCHANGED Atomic!vars
  OBVIOUS
<1>1. ASSUME NEW r \in Request, RequestStep(r)
      PROVE  Atomic!Next \/ UNCHANGED Atomic!vars
  BY <1>1, ReadImplements, RefuseImplements, CommitImplements
  DEF RequestStep, Atomic!Next
<1>2. CASE BeginSweep
  BY <1>2, NoRequest, RowsAlone DEF BeginSweep, Atomic!vars
<1>3. CASE EndSweep
  <2>1. sweep \in SUBSET Request
    BY DEF TypeOK
  <2>2. QED
    BY <1>3, <2>1, SweepImplements DEF Atomic!Next
<1>4. CASE UNCHANGED vars
  BY <1>4, NoRequest, RowsAlone DEF vars, Atomic!vars
<1>5. QED
  BY <1>1, <1>2, <1>3, <1>4, ExpireImplements, ChangeImplements
  DEF Next, Atomic!Next

\* Every request does at its commit, at once, what PasswordChanges says it does,
\* or nothing.
THEOREM RequestsImplemented == Spec => RequestsAreAtomic
BY InitImplements, StepImplements, TypeCorrect, RequestsSawHolds, PTL
DEF Spec, RequestsAreAtomic, Atomic!Spec

-----------------------------------------------------------------------------
(* Two of its conditions, said of the requests. *)

\* No link and no administrator sets the password of an account that is
\* disabled when the password is written, however late a lock came.
OnlyOpenAccountsReset ==
    [][\A r \in Request :
         /\ request[r].kind \in {"link", "admin"}
         /\ request[r].phase = "flushing" /\ request'[r].phase = "done"
         => Row(r).isOpen]_vars

\* Whoever sets a password had read the account as it is at the commit, open if
\* he is an administrator or uses a link.
THEOREM LocksStopResets == Spec => OnlyOpenAccountsReset
<1>1. TypeOK /\ RequestsSaw /\ [Next]_vars =>
        [\A r \in Request :
           /\ request[r].kind \in {"link", "admin"}
           /\ request[r].phase = "flushing" /\ request'[r].phase = "done"
           => Row(r).isOpen]_vars
  BY DoneCommits, CommitReads DEF RequestsSaw
<1>2. QED
  BY <1>1, TypeCorrect, RequestsSawHolds, PTL DEF Spec, OnlyOpenAccountsReset

\* One's own change replaces the very password given as the old one: of two
\* changes that both passed that check, one is refused.
OldPasswordReplaced ==
    [][\A r \in Request :
         /\ request[r].kind = "self"
         /\ request[r].phase = "flushing" /\ request'[r].phase = "done"
         => Row(r).password = request[r].old]_vars

\* One's own change replaces the password given as the old one.
THEOREM OwnChangeIsExact == Spec => OldPasswordReplaced
<1>1. TypeOK /\ RequestsSaw /\ [Next]_vars =>
        [\A r \in Request :
           /\ request[r].kind = "self"
           /\ request[r].phase = "flushing" /\ request'[r].phase = "done"
           => Row(r).password = request[r].old]_vars
  BY DoneCommits, CommitReads DEF RequestsSaw
<1>2. QED
  BY <1>1, TypeCorrect, RequestsSawHolds, PTL DEF Spec, OldPasswordReplaced
=============================================================================
