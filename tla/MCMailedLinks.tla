--------------------------- MODULE MCMailedLinks ---------------------------
(***************************************************************************)
(* MailedLinks where ann uses all links and bob only those for a new       *)
(* address, and nothing else writes bob's account; the addresses, changes  *)
(* and requests can be exchanged for one another.                          *)
(***************************************************************************)
EXTENDS MailedLinks, TLC

CONSTANTS ann, bob, e1, e2, e3, c1, c2, r1, r2

Alike == Permutations({e1, e2, e3}) \cup Permutations({c1, c2})
           \cup Permutations({r1, r2})

MCNext ==
    /\ Next
    /\ bob \notin timer'.list
    /\ Exists(bob) /\ account'[bob] # account[bob] =>
         account'[bob].email # account[bob].email
    /\ \A r \in Request : request'[r] # NoRequest /\ request'[r].kind = "activate" =>
                           request'[r].of = ann

MCSpec == Init /\ [][MCNext]_vars
=============================================================================
