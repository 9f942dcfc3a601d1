--------------------------- MODULE MCAccountPage ---------------------------
(***************************************************************************)
(* AccountPage for visits in which the user opens one or two dialogs that  *)
(* share state, a cookie, a row or a confirmation.  Other people write the *)
(* rows on which these dialogs depend.                                     *)
(***************************************************************************)
EXTENDS AccountPage

CONSTANTS ada, bea

Visit(page, role, opens) == [page |-> page, role |-> role, opens |-> opens]

Visits ==
    {Visit("profile", "ADMIN", {"personalData"}),
     Visit("profile", "MANAGER", {"enable", "disable"}),
     Visit("profile", "ADMIN", {"manager", "revoke"}),
     Visit("profile", "ADMIN", {"admin"}),
     Visit("profile", "ADMIN", {"owner"}),
     Visit("profile", "MANAGER", {"email"}),
     Visit("profile", "MANAGER", {"password"}),
     Visit("own", "OWNER", {"ownPersonalData"}),
     Visit("own", "OWNER", {"ownEmail"}),
     Visit("own", "MANAGER", {"ownPassword"}),
     Visit("own", "OWNER", {"phone"})}

MCNames == {[f \in Field |-> IF f = "surname" THEN bea ELSE ada]}

MCInit ==
    /\ visitor \in Visits
    /\ levels = IF "owner" \in visitor.opens THEN {} ELSE {"OWNER"}
    /\ account \in [isEnable : {visitor.opens \cap EnableDialog = {}, TRUE},
                    version : {0}]
    /\ personal = [names |-> [f \in Field |-> ada], version |-> 0]
    /\ Init

\* The step is somebody else's who writes a row.
OthersWrite == call' = call /\ <<account, personal>>' # <<account, personal>>

\* The two fields are alike: one is enough to be given a malformed text, and to
\* be edited at all on a user's own page.  There, and not on the other page, the
\* server may forbid to edit the names.  The user does not type the first names
\* again, and saves others a second time only after other people's change.
MCNext ==
    /\ Next
    /\ form'.names["surname"] # Bad
    /\ \A f \in form'.typed : form'.names[f] # ada
    /\ personal'.version = 2 => personal.version = 2 \/ personal.names \in OtherNames
    /\ visitor.page = "own" => form'.typed \subseteq {"firstName"}
    /\ "personalData" \in visitor.opens => \A c \in Call : call'[c].outcome # "forbidden"
    /\ OthersWrite =>
         /\ account' # account =>
              /\ account'.version = 1
              /\ visitor.opens \cap {"enable", "email", "admin", "phone"} # {}
         /\ personal' # personal =>
              /\ personal'.version = 1
              /\ visitor.opens \cap {"personalData", "enable"} # {}

MCSpec == MCInit /\ [][MCNext]_vars
=============================================================================
