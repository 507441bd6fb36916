------------------------------ MODULE MCChatScreen ------------------------------
(***************************************************************************)
(* The answer to the first message of the user alone is lost on its way    *)
(* back: no message knows what became of the answer to another.            *)
(***************************************************************************)
EXTENDS ChatScreen

LosesTheFirst == \A r \in Requests \ {1} : ~LoseAnswer(r)

MCSpec == ScreenInit /\ [][ScreenNext /\ LosesTheFirst]_vars /\ ScreenFairness
================================================================================
