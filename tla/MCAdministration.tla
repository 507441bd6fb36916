---------------------------- MODULE MCAdministration ----------------------------
(***************************************************************************)
(* Two requests of any kind are enough for one to disturb the other.  A    *)
(* third is only there when all of them replace permissions.               *)
(***************************************************************************)
EXTENDS Administration

CONSTANT Third   \* one of the requests

ThreeReplace == req'[Third].pc # "new" => \A r \in Requests : req'[r].op = "update_role"

MCSpec == Init /\ [][Next /\ ThreeReplace]_vars /\ Fairness
================================================================================
