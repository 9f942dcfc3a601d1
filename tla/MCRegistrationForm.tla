------------------------- MODULE MCRegistrationForm -------------------------
(***************************************************************************)
(* RegistrationForm with two user names, two passwords, and one text for   *)
(* each of the other fields; a field may also be empty, a user name and a  *)
(* password malformed.                                                     *)
(***************************************************************************)
EXTENDS RegistrationForm

MCField == {"firstName", "surname", "email", "username", "password",
            "repeatedPassword", "phoneNumber", "language"}

MCAccepted == [f \in MCField |->
                 IF f \in {"username", "password", "repeatedPassword"}
                 THEN {"a", "b"} ELSE {"a"}]

MCTyped == [f \in MCField |->
              IF f \in {"username", "repeatedPassword"} THEN {"a", "b", "bad"}
              ELSE MCAccepted[f]]

\* The names, the address, the number and the language are typed in this order.
MCNext ==
    /\ Next
    /\ text'["surname"] # "" => text'["firstName"] # ""
    /\ text'["email"] # "" => text'["surname"] # ""
    /\ text'["phoneNumber"] # "" => text'["email"] # ""
    /\ text'["language"] # "" => text'["phoneNumber"] # ""

MCSpec == Init /\ [][MCNext]_vars
=============================================================================
