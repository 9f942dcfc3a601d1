----------------------------- MODULE MCSession -----------------------------
(* The session of a browser.  Accounts are owners and administrators as     *)
(* well, plain owners, or disabled, and become one another.                 *)
EXTENDS Session, TLC

MCGrants == {{"ADMIN", "OWNER"}, {"OWNER"}}

\* Accounts differ by their levels only, which change.
MCSymmetry == Permutations(Account)
=============================================================================
