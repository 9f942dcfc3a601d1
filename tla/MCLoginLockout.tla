--------------------------- MODULE MCLoginLockout ---------------------------
(***************************************************************************)
(* LoginLockout on one account, user, that is logged in to and edited      *)
(* while a second one, boss, may be waiting for the same sweep.            *)
(***************************************************************************)
EXTENDS LoginLockout, TLC

CONSTANTS user, boss

\* Some failures of the user may already have been counted today, and somebody
\* may have disabled the account.  The boss is either an ordinary enabled account
\* or was locked a day ago; it is who edits the user.
UserIsWatched ==
    /\ loginData[user].counter < InvalidLoginLimit
    /\ \/ account[boss].isEnable /\ loginData[boss].counter = 0
       \/ Blocked(boss)
    /\ aged \subseteq {boss}
    /\ \A r \in Login : login[r].user = user
    /\ \A o \in Edit : edit[o].target = user /\ edit[o].editor = boss

MCInit == Init /\ UserIsWatched

MCSpec     == MCInit /\ [][Next]_vars
MCFairSpec == MCSpec /\ Fairness

\* The requests of one kind differ only in the inputs Init gives them.
MCSymmetry == Permutations(Login)

\* AuthTest starts on an enabled account without failures.
AuthTestInit ==
    /\ Init
    /\ \A a \in Account : account[a].isEnable /\ loginData[a].counter = 0

AuthTestSpec == AuthTestInit /\ [][Next]_vars
=============================================================================
