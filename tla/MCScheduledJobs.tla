---------------------------- MODULE MCScheduledJobs ----------------------------
(***************************************************************************)
(* Two events of a customer are enough for one to be counted while the     *)
(* other is still on its way, and one for the jobs and the worker to lock  *)
(* in every order: one job of the two stays away from a second event.      *)
(***************************************************************************)
EXTENDS ScheduledJobs

OneJobBesideTwoEvents ==
    (\E c \in Customers : events'[c] + unstored'[c] > 1) => session'[Contact].pc = "idle"

MCSpec == Init /\ [][Next /\ OneJobBesideTwoEvents]_vars /\ Fairness
================================================================================
