----------------------------- MODULE LegacyChat -----------------------------
(***************************************************************************)
(* The chat of the legacy UI (ui/components/Chat/Chat.tsx with the         *)
(* conversation operations of pages/api/home/home.tsx and Chatbar.tsx):    *)
(* questions answered over HTTP streams or over one WebSocket, while the   *)
(* user edits, stops, switches, deletes and reloads.  A handler, the       *)
(* render it causes and the effects of that render are one step; what a    *)
(* handler read before an await it still uses after it.  The tokens of     *)
(* question s are <<s, 1>>, <<s, 2>> ...                                   *)
(***************************************************************************)
EXTENDS Integers, Sequences

CONSTANTS
    MaxQuestions,   \* bound: calls of handleSend
    MaxWords,       \* bound: tokens of one answer
    MaxThreads,     \* bound: conversations ever created
    MaxClicks,      \* bound: other inputs of the user
    MaxRetries      \* 3: reconnections after which the socket is given up

ASSUME LegacyAssumption ==
    /\ MaxQuestions \in Nat /\ MaxWords \in Nat /\ MaxClicks \in Nat /\ MaxRetries \in Nat
    /\ MaxThreads \in Nat \ {0}

Questions == 1 .. MaxQuestions
Threads   == 1 .. MaxThreads
NoQuestion == 0
NoThread  == [id |-> 0, log |-> <<>>]

VARIABLES
    mode,           \* webSocketMode, which this model leaves as it is
    conversations,  \* the messages of each conversation; sessionStorage has the same
    selected,       \* selectedConversation
    savedSelected,  \* what sessionStorage keeps of it
    streaming,      \* messageIsStreaming
    question,       \* what each call of handleSend is at
    timers,         \* timeouts of 200 ms that will end the streaming state, by conversation
    controller,     \* controllerRef: "fresh" or "aborted"
    active,         \* activeUserMessageId
    storedActive,   \* its copy in sessionStorage, by conversation
    link,           \* the socket
    clicks, threads \* inputs, and conversations created so far

http   == <<timers, controller>>
socket == <<active, storedActive, link>>
legacyVars == <<mode, conversations, selected, savedSelected, streaming, question,
                http, socket, clicks, threads>>

Asked(s)       == [role |-> "user", of |-> s, text |-> <<>>]
Answer(s, txt) == [role |-> "assistant", of |-> s, text |-> txt]

Unasked == [at |-> "idle", thread |-> 0, log |-> <<>>, before |-> <<>>, said |-> 0,
            aborted |-> FALSE]

LegacyInit ==
    /\ mode \in {"http", "ws"}
    /\ conversations = [c \in {1} |-> <<>>] /\ threads = 1
    /\ selected = [id |-> 1, log |-> <<>>] /\ savedSelected = selected
    /\ streaming = FALSE /\ clicks = 0
    /\ question = [s \in Questions |-> Unasked]
    /\ timers = [c \in Threads |-> 0] /\ controller = "fresh"
    /\ active = NoQuestion /\ storedActive = [c \in Threads |-> NoQuestion]
    /\ link = [at |-> "connecting", retries |-> 0]

----------------------------------------------------------------------------
Over(s)  == [Unasked EXCEPT !.at = "over", !.thread = question[s].thread]
Known(c) == c \in DOMAIN conversations

\* conversations.map: a conversation that is not in the list is not put there.
Mapped(cs, c, log) == IF c \in DOMAIN cs THEN [cs EXCEPT ![c] = log] ELSE cs

\* At the end of a stream it is, when no other is there.
MappedOrFirst(cs, c, log) == IF DOMAIN cs = {} THEN [d \in {c} |-> log] ELSE Mapped(cs, c, log)

\* The effect of another selected conversation: whatever it was, it streams no more.
Selects(c, s) == streaming' = (s /\ c.id = selected.id)
Forgets(c, a) == active' = IF c.id = selected.id THEN a ELSE NoQuestion

Click == clicks < MaxClicks /\ clicks' = clicks + 1

connected == link.at \in {"open", "retrying"}    \* webSocketConnectedRef

\* handleSend on the conversation it was called with, without its last n messages.
AskOverHttp(s, c, n) ==
    LET log == Append(SubSeq(c.log, 1, Len(c.log) - n), Asked(s))
    IN  /\ selected' = [c EXCEPT !.log = log] /\ streaming' = TRUE
        /\ active' = s /\ storedActive' = [storedActive EXCEPT ![c.id] = s]
        /\ question' = [question EXCEPT ![s] =
              [at |-> "fetching", thread |-> c.id, log |-> log, before |-> conversations,
               said |-> 0, aborted |-> controller = "aborted"]]
        /\ UNCHANGED <<conversations, savedSelected, link>>

\* A message sent while the socket is gone and not yet given up is lost.
AskOverSocket(s, c, n) ==
    LET log == Append(SubSeq(c.log, 1, Len(c.log) - n), Asked(s))
    IN  /\ selected' = [c EXCEPT !.log = log] /\ savedSelected' = selected'
        /\ conversations' = Mapped(conversations, c.id, log)
        /\ question' = [question EXCEPT ![s] =
              [Unasked EXCEPT !.at = IF link'.at = "open" THEN "answered" ELSE "over",
                              !.thread = c.id]]

\* The socket is opened first: connectWebSocket is awaited.
AskLater(s, c, n) ==
    /\ selected' = [c EXCEPT !.log = Append(SubSeq(c.log, 1, Len(c.log) - n), Asked(s))]
    /\ question' = [question EXCEPT ![s] =
          [Unasked EXCEPT !.at = "connecting", !.thread = c.id, !.log = c.log]]
    /\ UNCHANGED <<conversations, savedSelected>>

HandleSend(s, n) ==
    /\ question[s].at = "idle" /\ \A o \in 1 .. s - 1 : question[o].at # "idle"
    /\ IF mode = "http" THEN AskOverHttp(s, selected, n)
       ELSE /\ streaming' = TRUE
            /\ active' = s /\ storedActive' = [storedActive EXCEPT ![selected.id] = s]
            /\ UNCHANGED link
            /\ IF connected THEN AskOverSocket(s, selected, n) ELSE AskLater(s, selected, n)
    /\ UNCHANGED <<mode, http, clicks, threads>>

\* ChatInput and its regenerate button wait for the stream; an edit does not.
AskQuestion(s)     == ~streaming /\ HandleSend(s, 0)
AskAgain(s) == ~streaming /\ selected.log # <<>> /\ \E n \in {0, 1} : HandleSend(s, n)
EditMessage(s) ==
    \E i \in DOMAIN selected.log :
        selected.log[i].role = "user" /\ HandleSend(s, Len(selected.log) - i + 1)

----------------------------------------------------------------------------
\* An answer goes on at the end of a conversation.
AppendAssistantText(answer, text) == [answer EXCEPT !.text = @ \o text]
Continued(log, text) == [log EXCEPT ![Len(log)] = AppendAssistantText(@, text)]

\* HTTP.  The conversation the stream writes is shown, selected or not.
ShowsAnswer(s, log) ==
    LET c == [id |-> question[s].thread, log |-> log]
    IN  selected' = c /\ Selects(c, streaming) /\ Forgets(c, active)

AnswerChunk(s) ==
    LET q   == question[s]
        log == IF q.said = 0 THEN Append(q.log, Answer(s, <<<<s, 1>>>>))
               ELSE Continued(q.log, <<<<s, q.said + 1>>>>)
    IN  /\ q.at \in {"fetching", "reading"} /\ ~q.aborted /\ q.said < MaxWords
        /\ ShowsAnswer(s, log)
        /\ question' = [question EXCEPT ![s] =
              [q EXCEPT !.at = "reading", !.log = log, !.said = q.said + 1]]
        /\ UNCHANGED <<mode, conversations, savedSelected, http, storedActive, link, clicks,
                       threads>>

\* The end of the stream writes the list that was there when the question was sent.
MutantStreamCompletes(s) ==  \* the list is written at the conversation that is selected now
    LET q == question[s]
    IN  /\ q.at \in {"fetching", "reading"} /\ ~q.aborted
        /\ savedSelected' = [id |-> q.thread, log |-> q.log]
        /\ conversations' = MappedOrFirst(q.before, selected.id, q.log)
        /\ timers' = [timers EXCEPT ![q.thread] = @ + 1]
        /\ question' = [question EXCEPT ![s] = Over(s)]
        /\ UNCHANGED <<mode, selected, streaming, controller, socket, clicks, threads>>
StreamCompletes(s) ==
    LET q == question[s]
    IN  /\ q.at \in {"fetching", "reading"} /\ ~q.aborted
        /\ savedSelected' = [id |-> q.thread, log |-> q.log]
        /\ conversations' = MappedOrFirst(q.before, q.thread, q.log)
        /\ timers' = [timers EXCEPT ![q.thread] = @ + 1]
        /\ question' = [question EXCEPT ![s] = Over(s)]
        /\ UNCHANGED <<mode, selected, streaming, controller, socket, clicks, threads>>

\* A status that is no success, or no body.
MutantRefused(s) ==  \* says so and returns
    /\ question[s].at = "fetching" /\ ~question[s].aborted
    /\ question' = [question EXCEPT ![s] = Over(s)]
    /\ UNCHANGED <<mode, conversations, selected, savedSelected, streaming, http, socket, clicks,
                   threads>>
Refused(s) ==
    /\ question[s].at = "fetching" /\ ~question[s].aborted
    /\ streaming' = FALSE
    /\ question' = [question EXCEPT ![s] = Over(s)]
    /\ UNCHANGED <<mode, conversations, selected, savedSelected, http, socket, clicks, threads>>

\* 422: the error of the workflow is the answer.
WorkflowError(s) ==
    LET q == question[s]
        c == [id |-> q.thread, log |-> Append(q.log, Answer(s, <<>>))]
    IN  /\ q.at = "fetching" /\ ~q.aborted
        /\ selected' = c /\ Forgets(c, active) /\ savedSelected' = c
        /\ conversations' = Mapped(q.before, c.id, c.log)
        /\ streaming' = FALSE
        /\ question' = [question EXCEPT ![s] = Over(s)]
        /\ UNCHANGED <<mode, http, storedActive, link, clicks, threads>>

\* The catch block, of an abort or of a connection that broke.
Fails(s) ==
    LET q == question[s]
    IN  /\ q.at \in {"fetching", "reading"}
        /\ savedSelected' = [id |-> q.thread, log |-> q.log]
        /\ streaming' = FALSE
        /\ question' = [question EXCEPT ![s] = Over(s)]
        /\ UNCHANGED <<mode, conversations, selected, http, socket, clicks, threads>>

\* A timeout of 200 ms fires, whoever is streaming by then.
TimerFires(c) ==
    /\ timers[c] > 0 /\ timers' = [timers EXCEPT ![c] = @ - 1]
    /\ streaming' = FALSE
    /\ active' = IF mode = "ws" THEN NoQuestion ELSE active
    /\ storedActive' = IF mode = "ws" THEN [storedActive EXCEPT ![c] = NoQuestion] ELSE storedActive
    /\ UNCHANGED <<mode, conversations, selected, savedSelected, question, controller, link, clicks,
                   threads>>

\* handleStopConversation.
StopOverHttp ==
    /\ mode = "http" /\ streaming /\ controller = "fresh" /\ controller' = "aborted"
    /\ question' = [s \in Questions |->
          IF question[s].at \in {"fetching", "reading"} THEN [question[s] EXCEPT !.aborted = TRUE]
          ELSE question[s]]
    /\ UNCHANGED <<mode, conversations, selected, savedSelected, streaming, timers, socket, clicks,
                   threads>>
ControllerReset ==
    /\ controller = "aborted" /\ controller' = "fresh"
    /\ UNCHANGED <<mode, conversations, selected, savedSelected, streaming, question, timers, socket,
                   clicks, threads>>

StopOverSocket ==
    /\ mode = "ws" /\ streaming /\ streaming' = FALSE
    /\ active' = NoQuestion /\ storedActive' = [storedActive EXCEPT ![selected.id] = NoQuestion]
    /\ UNCHANGED <<mode, conversations, selected, savedSelected, question, http, link, clicks,
                   threads>>

----------------------------------------------------------------------------
\* WebSocket.  onopen takes up the question the selected conversation waited for.
Restored(c, a) == IF storedActive[c] = NoQuestion THEN a ELSE storedActive[c]

SocketOpens ==
    /\ mode = "ws" /\ link.at \in {"connecting", "retrying"}
    /\ link' = [link EXCEPT !.at = "open"]
    /\ active' = Restored(selected.id, active)
    /\ UNCHANGED <<mode, conversations, selected, savedSelected, streaming, question, http,
                   storedActive, clicks, threads>>

\* onclose, of an open socket or of an attempt.
SocketCloses ==
    /\ mode = "ws" /\ link.at # "down"
    /\ IF link.retries < MaxRetries
         THEN /\ link' = [at |-> IF link.at = "connecting" THEN "connecting" ELSE "retrying",
                          retries |-> link.retries + 1]
              /\ UNCHANGED streaming
         ELSE link' = [link EXCEPT !.at = "down"] /\ streaming' = FALSE
    /\ UNCHANGED <<mode, conversations, selected, savedSelected, question, http, active,
                   storedActive, clicks, threads>>

\* The attempt of a question: when it succeeds handleSend is called again, for the
\* same conversation as it was, without its last message.
Connected(s) ==
    LET q == question[s]
        c == [id |-> q.thread, log |-> q.log]
    IN  /\ q.at = "connecting"
        /\ link' = [at |-> "open", retries |-> 0]
        /\ AskOverSocket(s, c, IF q.log = <<>> THEN 0 ELSE 1)
        /\ storedActive' = [storedActive EXCEPT ![c.id] = s]
        /\ Forgets(c, s) /\ Selects(c, TRUE)
        /\ UNCHANGED <<mode, http, clicks, threads>>
NotConnected(s) ==
    /\ question[s].at = "connecting"
    /\ question' = [question EXCEPT ![s] = Over(s)]
    /\ streaming' = FALSE /\ link' = [link EXCEPT !.at = "down"]
    /\ UNCHANGED <<mode, conversations, selected, savedSelected, http, active, storedActive, clicks,
                   threads>>

\* handleWebSocketMessage: nothing without a question asked, nothing for another
\* conversation than the selected one, nothing for one that was deleted.
Heard(c) == active # NoQuestion /\ c = selected.id

Answering(log) == log # <<>> /\ log[Len(log)].role = "assistant"

ProcessSystemResponseMessage(log, s, text) ==
    IF Answering(log) THEN Continued(log, text)
    ELSE Append(log, Answer(s, text))

\* A step or an error is attached to an answer, a trace to whatever message is the last.
ProcessOtherMessage(log, s, kind) ==
    IF kind = "trace" \/ Answering(log) THEN log ELSE Append(log, Answer(s, <<>>))

UpdateRefsAndDispatch(c, log) ==
    /\ conversations' = [conversations EXCEPT ![c] = log]
    /\ selected' = [selected EXCEPT !.log = log] /\ savedSelected' = selected'

\* Steps that the settings hide are dropped, as if they had not come.
HandleWebSocketMessage(s, kind, text) ==
    LET c == question[s].thread
    IN  IF Heard(c) /\ Known(c)
        THEN UpdateRefsAndDispatch(c,
                 IF kind = "response" THEN ProcessSystemResponseMessage(conversations[c], s, text)
                 ELSE ProcessOtherMessage(conversations[c], s, kind))
        ELSE UNCHANGED <<conversations, selected, savedSelected>>

\* The backend goes on whether or not it is heard; without a socket it speaks to nobody.
BackendSays(s) ==
    /\ question[s].at = "answered"
    /\ \/ /\ question[s].said < MaxWords
          /\ question' = [question EXCEPT ![s] = [question[s] EXCEPT !.said = question[s].said + 1]]
          /\ IF link.at = "open"
               THEN HandleWebSocketMessage(s, "response", <<<<s, question[s].said + 1>>>>)
               ELSE UNCHANGED <<conversations, selected, savedSelected>>
       \/ /\ link.at = "open" /\ UNCHANGED question
          /\ \E kind \in {"step", "error", "trace"} : HandleWebSocketMessage(s, kind, <<>>)
    /\ UNCHANGED <<mode, streaming, http, socket, clicks, threads>>

BackendCompletes(s) ==
    /\ question[s].at = "answered"
    /\ question' = [question EXCEPT ![s] = Over(s)]
    /\ timers' = IF link.at = "open" /\ Heard(question[s].thread)
                   THEN [timers EXCEPT ![question[s].thread] = @ + 1] ELSE timers
    /\ UNCHANGED <<mode, conversations, selected, savedSelected, streaming, controller, socket,
                   clicks, threads>>

----------------------------------------------------------------------------
\* The conversations.
Switches(c) ==
    /\ selected' = c /\ Forgets(c, active)
    /\ UNCHANGED <<mode, question, http, storedActive, link>>

SelectConversation ==
    /\ Click /\ ~streaming
    /\ \E c \in DOMAIN conversations : Switches([id |-> c, log |-> conversations[c]])
    /\ savedSelected' = selected' /\ streaming' = FALSE
    /\ UNCHANGED <<conversations, threads>>

NewConversation ==
    /\ Click /\ threads < MaxThreads /\ threads' = threads + 1
    /\ Switches([id |-> threads + 1, log |-> <<>>]) /\ Selects(selected', streaming)
    /\ conversations' = [c \in DOMAIN conversations \cup {threads + 1} |->
                            IF Known(c) THEN conversations[c] ELSE <<>>]
    /\ savedSelected' = selected'

\* The last conversation is followed by one that is not in the list.
DeleteConversation ==
    /\ Click
    /\ \E c \in DOMAIN conversations :
          /\ conversations' = [d \in DOMAIN conversations \ {c} |-> conversations[d]]
          /\ IF DOMAIN conversations = {c}
               THEN /\ threads < MaxThreads /\ threads' = threads + 1
                    /\ Switches([id |-> threads + 1, log |-> <<>>]) /\ savedSelected' = NoThread
               ELSE /\ \E d \in DOMAIN conversations' : Switches([id |-> d, log |-> conversations[d]])
                    /\ savedSelected' = selected' /\ UNCHANGED threads
    /\ Selects(selected', streaming)

\* A message, with the answer that follows it.
DeleteMessage ==
    /\ Click
    /\ \E i \in DOMAIN selected.log :
          LET n == IF i < Len(selected.log) /\ selected.log[i + 1].role = "assistant" THEN 2 ELSE 1
          IN  selected' = [selected EXCEPT !.log = SubSeq(@, 1, i - 1) \o SubSeq(@, i + n, Len(@))]
    /\ savedSelected' = selected'
    /\ conversations' = Mapped(conversations, selected.id, selected'.log)
    /\ UNCHANGED <<mode, streaming, question, http, socket, threads>>

\* The page is loaded again: what awaited is gone, what sessionStorage keeps is not.
Reload ==
    /\ Click
    /\ IF savedSelected = NoThread
         THEN /\ threads < MaxThreads /\ threads' = threads + 1
              /\ selected' = [id |-> threads + 1, log |-> <<>>]
              /\ conversations' = [c \in {threads + 1} |-> <<>>]
         ELSE selected' = savedSelected /\ UNCHANGED <<conversations, threads>>
    /\ savedSelected' = selected' /\ streaming' = FALSE
    /\ question' = [s \in Questions |->
          IF question[s].at \in {"connecting", "fetching", "reading"} THEN Over(s) ELSE question[s]]
    /\ timers' = [c \in Threads |-> 0] /\ controller' = "fresh"
    /\ active' = NoQuestion /\ link' = [at |-> "connecting", retries |-> 0]
    /\ UNCHANGED <<mode, storedActive>>

AnswersComeIn(s) ==
    \/ AnswerChunk(s) \/ StreamCompletes(s) \/ Refused(s) \/ WorkflowError(s) \/ Fails(s)
    \/ Connected(s) \/ NotConnected(s) \/ BackendSays(s) \/ BackendCompletes(s)

LegacyNext ==
    \/ \E s \in Questions : AskQuestion(s) \/ AskAgain(s) \/ EditMessage(s) \/ AnswersComeIn(s)
    \/ \E c \in Threads : TimerFires(c)
    \/ StopOverHttp \/ ControllerReset \/ StopOverSocket \/ SocketOpens \/ SocketCloses
    \/ SelectConversation \/ NewConversation \/ DeleteConversation \/ DeleteMessage \/ Reload

LegacySpec == LegacyInit /\ [][LegacyNext]_legacyVars

\* The backend ends its streams and timeouts fire.
LegacyFairness ==
    /\ \A s \in Questions : WF_legacyVars(StreamCompletes(s) \/ Fails(s))
    /\ \A c \in Threads : WF_legacyVars(TimerFires(c))

----------------------------------------------------------------------------
Home(c) == \A i \in DOMAIN c.log :
    /\ question[c.log[i].of].thread = c.id
    /\ \A n \in DOMAIN c.log[i].text : question[c.log[i].text[n][1]].thread = c.id
InOrder(log) ==
    \A i, j \in DOMAIN log : \A m \in DOMAIN log[i].text, n \in DOMAIN log[j].text :
        log[i].text[m][1] = log[j].text[n][1] /\ (i < j \/ (i = j /\ m < n))
            => log[i].text[m][2] < log[j].text[n][2]

(* Whatever is edited, stopped, switched, deleted or reloaded while answers stream and
   sockets come and go, a conversation, in memory, on the screen and in storage, holds
   questions asked in it and answers to them only, no token twice and none before an
   earlier one of its answer. *)
AnswersStayHome ==
    \A c \in {selected, savedSelected}
            \cup {[id |-> d, log |-> conversations[d]] : d \in DOMAIN conversations} :
        Home(c) /\ InOrder(c.log)

(* Over HTTP the input comes back: refused, failed, stopped or ended, and with another
   question asked by an edit meanwhile, a stream leaves the streaming state. *)
InputComesBack == mode = "http" /\ streaming ~> ~streaming
=============================================================================
