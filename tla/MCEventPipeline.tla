--------------------------- MODULE MCEventPipeline ---------------------------
(***************************************************************************)
(* Small instances of EventPipeline.  Both events are support tickets: e1  *)
(* identifies a customer by its name, e2 by its e-mail address, which is   *)
(* either one customer's (Mails) or two share it (SharedMails).            *)
(***************************************************************************)
EXTENDS EventPipeline, TLC

CONSTANTS Acme, Globex, e1, e2

Names == [e \in Events |-> IF e = e1 THEN {Acme} ELSE {}]
Mails == [e \in Events |-> IF e = e1 THEN {Acme, Globex} ELSE {Acme}]
SharedMails == [e \in Events |-> {Acme, Globex}]

=============================================================================
