------------------------------ MODULE Prompts -------------------------------
(***************************************************************************)
(* What the agent asks the user while it answers, in the legacy UI:        *)
(* components/Chat/ChatInteractionMessage.tsx and the modal's state in     *)
(* Chat.tsx.  There is one modal and no queue: a prompt that arrives while *)
(* another is open takes its place.  A prompt may have so many seconds, an *)
(* interval counts them down.  A handler, the render it causes and the     *)
(* effects of that render are one step.                                    *)
(***************************************************************************)
EXTENDS Integers, Sequences

CONSTANTS
    MaxPrompts,   \* bound: prompts of the agent
    Timeouts      \* content.timeout, in seconds; 0 for none

ASSUME PromptsAssumption == MaxPrompts \in Nat /\ Timeouts \subseteq Nat

Forms    == {"text", "radio", "binary_choice", "notification"}
NoPrompt == 0
Forever  == -1     \* remainingSeconds = null

VARIABLES
    asked,      \* the prompts of the agent, in order
    dialog,     \* modalOpen, interactionMessage and the state of the modal
    listening,  \* whether activeUserMessageId is set, of the conversation selected
    open,       \* whether webSocketRef.current, a socket that was opened, still is
    sent,       \* the answers the socket took: the prompt, and the one it was typed for
    withdrawn   \* the prompts said to be no longer available, after so many seconds

promptVars == <<asked, dialog, listening, open, sent, withdrawn>>

Dismissed(p) == [isOpen |-> FALSE, shows |-> p, userInput |-> NoPrompt,
                 remaining |-> Forever, intervals |-> 0, age |-> 0]

PromptInit ==
    /\ asked = <<>> /\ dialog = Dismissed(NoPrompt) /\ listening = TRUE /\ open = TRUE
    /\ sent = <<>> /\ withdrawn = <<>>

----------------------------------------------------------------------------
\* The effect of isOpen and the prompt's id: the interval of the prompt before ends, and
\* one of this prompt begins.  What was typed stays typed.
MutantOpenModal(p, timeout) ==  \* the effect has no cleanup
    [dialog EXCEPT !.isOpen = TRUE, !.shows = p, !.age = 0,
                   !.remaining = IF timeout > 0 THEN timeout ELSE Forever,
                   !.intervals = IF timeout > 0 THEN @ + 1 ELSE @]
OpenModal(p, timeout) ==
    [dialog EXCEPT !.isOpen = TRUE, !.shows = p, !.age = 0,
                   !.remaining = IF timeout > 0 THEN timeout ELSE Forever,
                   !.intervals = IF timeout > 0 THEN 1 ELSE 0]

\* A system_interaction_message: heard like every other message, or dropped.
AgentAsks ==
    /\ Len(asked) < MaxPrompts
    /\ \E form \in Forms, timeout \in Timeouts, required \in BOOLEAN :
          /\ asked' = Append(asked, [form |-> form, timeout |-> timeout, required |-> required])
          /\ dialog' = IF listening THEN OpenModal(Len(asked'), timeout) ELSE dialog
    /\ UNCHANGED <<listening, open, sent, withdrawn>>

Form(form) == dialog.isOpen /\ asked[dialog.shows].form = form

\* submitResponse: a socket that is gone swallows the answer, and the prompt closes too.
SubmitResponse(typed) ==
    /\ dialog' = Dismissed(dialog.shows)
    /\ sent' = IF open THEN Append(sent, [prompt |-> dialog.shows, typed |-> typed]) ELSE sent
    /\ UNCHANGED <<asked, listening, open, withdrawn>>

Types ==
    /\ Form("text") \/ Form("radio")
    /\ dialog' = [dialog EXCEPT !.userInput = dialog.shows]
    /\ UNCHANGED <<asked, listening, open, sent, withdrawn>>

HandleTextSubmit ==
    /\ Form("text") \/ Form("radio")
    /\ asked[dialog.shows].required => dialog.userInput # NoPrompt
    /\ SubmitResponse(dialog.userInput)

HandleChoiceSubmit == Form("binary_choice") /\ SubmitResponse(dialog.shows)

\* The interval, and at 0 the effect that withdraws the prompt.
Tick ==
    LET left == dialog.remaining - dialog.intervals
        old  == [dialog EXCEPT !.age = @ + 1]
    IN  /\ dialog.intervals > 0
        /\ IF left <= 0
             THEN /\ withdrawn' = Append(withdrawn, [prompt |-> old.shows, after |-> old.age])
                  /\ dialog' = Dismissed(old.shows)
             ELSE dialog' = [old EXCEPT !.remaining = left] /\ UNCHANGED withdrawn
        /\ UNCHANGED <<asked, listening, open, sent>>

\* A stop, a switch of the conversation, or a question asked: the dialog stays as it is.
HearingChanges ==
    /\ listening' = ~listening /\ UNCHANGED <<asked, dialog, open, sent, withdrawn>>

LinkChanges == open' = ~open /\ UNCHANGED <<asked, dialog, listening, sent, withdrawn>>

PromptNext ==
    \/ AgentAsks \/ Types \/ HandleTextSubmit \/ HandleChoiceSubmit \/ Tick
    \/ HearingChanges \/ LinkChanges

PromptSpec == PromptInit /\ [][PromptNext]_promptVars

----------------------------------------------------------------------------
(* However prompts replace each other, are answered, time out or lose their socket, a
   prompt is answered once at most, and not with nothing when an answer is required; it is
   withdrawn once at most, when its own seconds have passed, neither earlier nor later, and
   never with an answer sent. *)
PromptsHaveTheirTime ==
    /\ \A i, j \in DOMAIN sent : sent[i].prompt = sent[j].prompt => i = j
    /\ \A i \in DOMAIN sent :
          asked[sent[i].prompt].required => sent[i].typed # NoPrompt
    /\ \A i, j \in DOMAIN withdrawn : withdrawn[i].prompt = withdrawn[j].prompt => i = j
    /\ \A i \in DOMAIN withdrawn :
          /\ withdrawn[i].after = asked[withdrawn[i].prompt].timeout
          /\ \A j \in DOMAIN sent : sent[j].prompt # withdrawn[i].prompt
=============================================================================
