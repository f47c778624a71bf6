----------------------------- MODULE Attention ------------------------------
(***************************************************************************)
(* How the chat panel draws attention to an answer and follows it          *)
(* (components/chat/chat-panel.tsx, hooks/use-chat-scroll.ts): the title   *)
(* of the tab, the notice "Agente finalizado", the scroll position, the    *)
(* copy button and the thumbs under a message.                             *)
(***************************************************************************)
EXTENDS Integers

CONSTANT MaxAnswers   \* bound: answers of the agent

Own  == "own"     \* the title of the page
Done == "done"    \* "[LISTO] " before it
Absent == "none"

VARIABLES
    tab,      \* visibilityState, document.title, originalDocumentTitleRef, and
              \* whether the title's and the notice's timers are set
    answers,  \* so far
    follow,   \* isSending, or the typewriter has words left
    scroll,   \* the bottom is near; shouldStickToBottomRef; the button is shown;
              \* a smooth scroll is under way
    thumbs    \* of one message: what is shown, sent and stored, and where it is from

attentionVars == <<tab, answers, follow, scroll, thumbs>>

AttentionInit ==
    /\ tab = [hidden |-> FALSE, title |-> Own, saved |-> Absent, timer |-> FALSE,
              notice |-> FALSE]
    /\ answers = 0 /\ follow = FALSE
    /\ scroll = [near |-> TRUE, stick |-> TRUE, button |-> FALSE, moving |-> FALSE]
    /\ thumbs \in [from : {"stream", "history"}, shown : {Absent}, sent : {Absent},
                   stored : {Absent}, copied : {FALSE}]

----------------------------------------------------------------------------
\* restoreDocumentTitle.
RestoredTitle(t) == [t EXCEPT !.title = IF t.saved = Absent THEN t.title ELSE t.saved,
                         !.saved = Absent, !.timer = FALSE]

\* raiseBrowserAttention: only the first of several answers saves the title.
MutantRaised(t) ==  \* every answer saves the title it finds
    IF ~t.hidden THEN t
    ELSE [t EXCEPT !.saved = t.title, !.title = Done, !.timer = TRUE]
Raised(t) ==
    IF ~t.hidden THEN t
    ELSE [t EXCEPT !.saved = IF t.saved = Absent THEN t.title ELSE t.saved,
                   !.title = Done, !.timer = TRUE]

AnswerBegins ==
    /\ ~follow /\ answers < MaxAnswers
    /\ follow' = TRUE
    /\ scroll' = [scroll EXCEPT !.stick = TRUE, !.moving = TRUE]
    /\ UNCHANGED <<tab, answers, thumbs>>

\* notifyAgentCompletion, unless the stream failed or was stopped.
AnswerEnds ==
    /\ follow
    /\ follow' = FALSE /\ answers' = answers + 1
    /\ tab' \in {tab, Raised([tab EXCEPT !.notice = TRUE])}
    /\ UNCHANGED <<scroll, thumbs>>

TitleTimerFires ==
    /\ tab.timer /\ tab' = RestoredTitle(tab)
    /\ UNCHANGED <<answers, follow, scroll, thumbs>>

NoticeTimerFires ==
    /\ tab.notice /\ tab' = [tab EXCEPT !.notice = FALSE]
    /\ UNCHANGED <<answers, follow, scroll, thumbs>>

HandleVisibilityChange ==
    /\ tab' = IF tab.hidden THEN RestoredTitle([tab EXCEPT !.hidden = FALSE])
              ELSE [tab EXCEPT !.hidden = TRUE]
    /\ UNCHANGED <<answers, follow, scroll, thumbs>>

\* The panel of another conversation takes this one's place: its effects are undone.
PanelUnmounts ==
    /\ tab' = RestoredTitle([tab EXCEPT !.notice = FALSE]) /\ follow' = FALSE
    /\ scroll' = [near |-> TRUE, stick |-> TRUE, button |-> FALSE, moving |-> FALSE]
    /\ UNCHANGED <<answers, thumbs>>

----------------------------------------------------------------------------
\* The answer grows: the panel scrolls after it when it sticks to the bottom.
AnswerGrows ==
    /\ follow
    /\ scroll' \in IF scroll.stick THEN {[scroll EXCEPT !.near = n, !.moving = TRUE] : n \in BOOLEAN}
                   ELSE {[scroll EXCEPT !.near = FALSE]}
    /\ UNCHANGED <<tab, answers, follow, thumbs>>

\* handleMessagesContainerScroll, at a move of the user's or one of a smooth scroll on
\* its way, which may still be far from the bottom.
HandleMessagesContainerScroll ==
    /\ \E near, moving \in BOOLEAN :
          /\ moving => scroll.moving
          /\ scroll' = [near |-> near, stick |-> near, button |-> ~near, moving |-> moving]
    /\ UNCHANGED <<tab, answers, follow, thumbs>>

HandleScrollToLatest ==
    /\ scroll.button
    /\ scroll' = [scroll EXCEPT !.stick = TRUE, !.moving = TRUE]
    /\ UNCHANGED <<tab, answers, follow, thumbs>>

----------------------------------------------------------------------------
\* handleFeedback: the buttons are disabled while a request is under way.
HandleFeedback ==
    /\ thumbs.sent = Absent
    /\ \E r \in {"up", "down"} : thumbs' = [thumbs EXCEPT !.sent = r]
    /\ UNCHANGED <<tab, answers, follow, scroll>>

\* The session stores its messages under ids of its own: one that came by the stream is
\* not found until the history is loaded.  The history shows no reaction.
FeedbackReturns ==
    /\ thumbs.sent # Absent
    /\ thumbs' \in {[thumbs EXCEPT !.sent = Absent]} \cup
                   IF thumbs.from = "stream" THEN {}
                   ELSE {[thumbs EXCEPT !.sent = Absent, !.stored = thumbs.sent,
                                        !.shown = thumbs.sent]}
    /\ UNCHANGED <<tab, answers, follow, scroll>>

LoadHistory ==
    /\ thumbs.sent = Absent
    /\ thumbs' = [thumbs EXCEPT !.from = "history", !.shown = Absent]
    /\ UNCHANGED <<tab, answers, follow, scroll>>

HandleCopyMessage ==
    /\ thumbs' = [thumbs EXCEPT !.copied = ~@]     \* copied, then its timer
    /\ UNCHANGED <<tab, answers, follow, scroll>>

AttentionNext ==
    \/ AnswerBegins \/ AnswerEnds \/ TitleTimerFires \/ NoticeTimerFires
    \/ HandleVisibilityChange \/ PanelUnmounts
    \/ AnswerGrows \/ HandleMessagesContainerScroll \/ HandleScrollToLatest
    \/ HandleFeedback \/ FeedbackReturns \/ LoadHistory \/ HandleCopyMessage

AttentionSpec == AttentionInit /\ [][AttentionNext]_attentionVars

----------------------------------------------------------------------------
(* The page looked at has its own title, and so has one whose timer is over: however
   many answers ended while the tab was hidden, "[LISTO]" is neither left in the title
   nor taken for the title to come back to. *)
TitleIsOwn == (~tab.hidden \/ ~tab.timer) => tab.title = Own
=============================================================================
