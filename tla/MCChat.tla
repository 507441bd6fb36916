--------------------------------- MODULE MCChat ---------------------------------
(***************************************************************************)
(* Three requests are enough to leave the count of a session wrong: one    *)
(* opens it and two that overlap continue it.  The last request is there   *)
(* to repair that count: it begins when all before it are over, and when   *)
(* their exchanges are in one session.                                     *)
(***************************************************************************)
EXTENDS Chat

LastComesAlone ==
    (req[MaxRequests].pc = "new" /\ req'[MaxRequests].pc # "new")
      => /\ Open = {}
         /\ \E s \in sessions : req'[MaxRequests].asked = s /\ messages[s] = Requests \ {MaxRequests}

MCSpec == Init /\ [][Next /\ LastComesAlone]_chatVars /\ Fairness
================================================================================
