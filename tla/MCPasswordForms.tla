-------------------------- MODULE MCPasswordForms --------------------------
(***************************************************************************)
(* PasswordForms with two well formed passwords.                           *)
(***************************************************************************)
EXTENDS PasswordForms

CONSTANTS p, q
=============================================================================
