------------------------------ MODULE LegacyUI ------------------------------
(***************************************************************************)
(* The legacy UI's chat as the user meets it: the conversations, the       *)
(* message that is revealed and the prompts of the agent, three parts that *)
(* share no state.                                                         *)
(***************************************************************************)
EXTENDS LegacyChat, LegacyTypewriter, Prompts

LegacyUISpec == LegacySpec /\ RevealSpec /\ PromptSpec

(* The legacy chat: an answer goes into the conversation of its question and nowhere else,
   all of it reaches the screen, and what the agent asks meanwhile has its time and its
   one answer (the parts are LegacyChat's, LegacyTypewriter's and Prompts'). *)
LegacyAnswersArrive == AnswersStayHome /\ NoWordLost /\ PromptsHaveTheirTime
=============================================================================
