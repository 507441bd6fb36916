-------------------------------- MODULE MCAgent --------------------------------
(***************************************************************************)
(* The callers of module Agent as they are seeded: one with every          *)
(* permission, one who may read customers and metrics, one with none.      *)
(* Tools are executed for the first message of a session alone: no message *)
(* knows of the tools of another.                                          *)
(***************************************************************************)
EXTENDS Agent

MCCallers == {{"customers.read", "events.read", "metrics.read", "metrics.catalog.read", "sources.read"},
              {"customers.read", "metrics.read"},
              {}}

ToolsAreForTheFirst == answers # <<>> => calls' = <<>>

MCSpec == Init /\ [][Next /\ ToolsAreForTheFirst]_vars
================================================================================
