----------------------------- MODULE ChatPanel ------------------------------
(***************************************************************************)
(* The chat panel of the cognitive UI (components/chat/chat-panel.tsx):    *)
(* questions sent to /api/chat, the answer streamed into the last message, *)
(* and the commands, deletions and reloads that change the same list of    *)
(* messages meanwhile.  A send is atomic between two awaits; the updaters  *)
(* it hands to setMessages run in their order, so messages is the state    *)
(* they are applied to.  What a text says is kept as the pieces it was     *)
(* made of: the n-th token of send s is <<"token", s, n>>.                 *)
(***************************************************************************)
EXTENDS Integers, FiniteSets, Sequences

CONSTANTS
    MaxSends,    \* bound: questions sent
    MaxTokens,   \* bound: tokens of one answer
    MaxInputs,   \* bound: commands, edits and the like besides
    MaxMessages  \* bound: messages of the panel

ASSUME PanelAssumption ==
    MaxSends \in Nat /\ MaxTokens \in Nat /\ MaxInputs \in Nat /\ MaxMessages \in Nat

Sends  == 1 .. MaxSends
Parts  == {"token", "error", "confirm"}   \* events of a stream that change messages
Chunks == UNION {[1 .. n -> Parts] : n \in 1 .. 2}

VARIABLES
    messages,   \* the list shown: who speaks, and the text in pieces
    isSending,
    abortRef,   \* streamAbortRef: the send it aborts, or 0
    send,       \* what each call of sendMessageToAgent is at
    editing,    \* editingMessageIndex, or 0
    pending,    \* requests of /status and /tools, and the history, under way
    modal,      \* pendingDeleteConfirm is set
    inputs      \* inputs so far

panelVars == <<messages, isSending, abortRef, send, editing, pending, modal, inputs>>

User(text)      == [role |-> "user", text |-> text]
Assistant(text) == [role |-> "assistant", text |-> text]
Piece(s, n)     == <<"token", s, n>>
Note(what)      == <<what, 0, 0>>     \* a text of the panel's own

\* alone: nothing else has changed the messages since the send began.
Unsent == [at |-> "idle", aborted |-> FALSE, failed |-> FALSE, said |-> 0,
           parts |-> <<>>, alone |-> TRUE]

PanelInit ==
    /\ messages = <<>> /\ isSending = FALSE /\ abortRef = 0
    /\ send = [s \in Sends |-> Unsent]
    /\ editing = 0 /\ modal = FALSE /\ inputs = 0
    /\ pending \in {{}, {"history"}}   \* bootstrap=new loads no history

----------------------------------------------------------------------------
Has(ms)  == ms # <<>>
Final(ms) == ms[Len(ms)]
Answers(ms) == Has(ms) /\ Final(ms).role = "assistant"
SetLast(ms, m) == [ms EXCEPT ![Len(ms)] = m]

\* appendAssistantToken, of some tokens in a row: to the last message, if the assistant
\* speaks in it.
appendAssistantToken(ms, pieces) ==
    IF Answers(ms) THEN SetLast(ms, Assistant(Final(ms).text \o pieces)) ELSE ms

\* setLastAssistantMessage: the last message, whoever speaks.
setLastAssistantMessage(ms, piece) ==
    IF Has(ms) THEN SetLast(ms, [Final(ms) EXCEPT !.text = <<piece>>]) ELSE ms

InFlight(s) == send[s].at \notin {"idle", "over"}

\* Something else than the send s changes the messages.
Disturbed(s) == [o \in Sends |-> IF o # s /\ InFlight(o) THEN [send[o] EXCEPT !.alone = FALSE]
                                 ELSE send[o]]

\* onSubmit of an edit drops the message edited and what follows it.
Kept == IF editing \in DOMAIN messages THEN SubSeq(messages, 1, editing - 1) ELSE messages

\* sendMessageToAgent: from onSubmit (with an edit or not), and with no edit from
\* regenerate and retry.  It does nothing while isSending.
SendMessageToAgent(s, ms) ==
    /\ send[s].at = "idle" /\ \A o \in 1 .. s - 1 : send[o].at # "idle"
    /\ ~isSending /\ Len(ms) + 2 <= MaxMessages
    /\ messages' = ms \o <<User(<<Note("typed")>>), Assistant(<<>>)>>
    /\ isSending' = TRUE /\ abortRef' = s
    /\ send' = [Disturbed(s) EXCEPT ![s] = [Unsent EXCEPT !.at = "fetching"]]
    /\ UNCHANGED <<pending, modal, inputs>>

Submit(s) == SendMessageToAgent(s, Kept) /\ editing' = 0
Regenerate(s) ==
    /\ \E i \in DOMAIN messages : messages[i].role = "user"
    /\ SendMessageToAgent(s, messages) /\ UNCHANGED editing

\* Enter while sending: the edit truncates, the text is not sent.
SubmitWhileSending ==
    /\ isSending /\ editing # 0
    /\ messages' = Kept /\ editing' = 0
    /\ send' = Disturbed(0)
    /\ UNCHANGED <<isSending, abortRef, pending, modal, inputs>>

----------------------------------------------------------------------------
\* The finally block: it does not look whose stream the reference holds.
Ends(s, said) ==
    /\ send' = [Disturbed(s) EXCEPT ![s] = [Unsent EXCEPT !.at = "over", !.said = said]]
    /\ abortRef' = 0 /\ isSending' = FALSE
    /\ UNCHANGED <<editing, pending, inputs>>

\* The parts of a chunk up to the first that asks for a confirmation, which
\* awaits its registration; the others wait behind it.
BeforeConfirm(parts) == {i \in DOMAIN parts : \A j \in 1 .. i : parts[j] # "confirm"}

WithTokens(ms, s, n) == appendAssistantToken(ms, [k \in 1 .. n |-> Piece(s, send[s].said + k)])

\* One read, or the rest of a chunk after a registration.
Process(s, parts, ms) ==
    LET now == BeforeConfirm(parts)
        n   == Cardinality({i \in now : parts[i] = "token"})
    IN  /\ send[s].said + n <= MaxTokens
        /\ messages' = WithTokens(ms, s, n)
        /\ send' = [Disturbed(s) EXCEPT ![s] =
               [at      |-> IF now = DOMAIN parts THEN "reading" ELSE "registering",
                aborted |-> send[s].aborted,
                failed  |-> send[s].failed \/ \E i \in now : parts[i] = "error",
                said    |-> send[s].said + n,
                parts   |-> SubSeq(parts, Cardinality(now) + 2, Len(parts)),
                alone   |-> send[s].alone /\ ms = messages]]
        /\ UNCHANGED <<isSending, abortRef, editing, pending, inputs>>

ReadChunk(s) ==
    /\ send[s].at \in {"fetching", "reading"} /\ ~send[s].aborted
    /\ \E parts \in Chunks : Process(s, parts, messages)
    /\ UNCHANGED modal

\* register-token has no signal: a stop does not end it.
Registered(s) ==
    /\ send[s].at = "registering" /\ modal' = TRUE
    /\ Process(s, send[s].parts, messages)
NotRegistered(s) ==
    /\ send[s].at = "registering" /\ Len(messages) < MaxMessages
    /\ Process(s, send[s].parts, Append(messages, Assistant(<<Note("reply")>>)))
    /\ UNCHANGED modal

\* A stream that failed shows its error in place of the answer.
WithError(ms, failed) ==
    IF failed /\ Answers(ms) THEN SetLast(ms, Assistant(<<Note("error")>>)) ELSE ms

\* The end of the body, with what the buffer still holds.
MutantStreamEnds(s) ==  \* what the buffer still holds is not counted as content
    /\ send[s].at \in {"fetching", "reading"} /\ ~send[s].aborted
    /\ \E n \in 0 .. 1 :
          /\ send[s].said + n <= MaxTokens
          /\ IF send[s].said = 0
               THEN /\ messages' = WithTokens(messages, s, n)
                    /\ send' = [Disturbed(s) EXCEPT ![s].at = "fallback", ![s].said = n]
                    /\ UNCHANGED <<isSending, abortRef, editing, pending, inputs>>
               ELSE /\ messages' = WithError(WithTokens(messages, s, n), send[s].failed)
                    /\ Ends(s, send[s].said + n)
    /\ UNCHANGED modal
StreamEnds(s) ==
    /\ send[s].at \in {"fetching", "reading"} /\ ~send[s].aborted
    /\ \E n \in 0 .. 1 :
          /\ send[s].said + n <= MaxTokens
          /\ IF send[s].said + n = 0
               THEN /\ send' = [send EXCEPT ![s].at = "fallback"]
                    /\ UNCHANGED <<messages, isSending, abortRef, editing, pending, inputs>>
               ELSE /\ messages' = WithError(WithTokens(messages, s, n), send[s].failed)
                    /\ Ends(s, send[s].said + n)
    /\ UNCHANGED modal

\* An answer without content: the latest one of the history, or a notice.  The
\* request has no signal; when it fails the error is shown.
FallbackReturns(s) ==
    /\ send[s].at = "fallback"
    /\ \E found \in {"history", "no answer", "error"} :
          messages' = IF found = "error" THEN setLastAssistantMessage(messages, Note(found))
                      ELSE WithError(setLastAssistantMessage(messages, Note(found)), send[s].failed)
    /\ Ends(s, send[s].said)
    /\ UNCHANGED modal

\* An HTTP error, no body, or a connection that breaks.
RequestFails(s) ==
    /\ send[s].at \in {"fetching", "reading"} /\ ~send[s].aborted
    /\ messages' = setLastAssistantMessage(messages, Note("error"))
    /\ Ends(s, send[s].said)
    /\ UNCHANGED modal

\* The await of an aborted send rejects with AbortError.
AbortReaches(s) ==
    /\ send[s].at \in {"fetching", "reading"} /\ send[s].aborted
    /\ messages' = IF Answers(messages) /\ Final(messages).text # <<>> THEN messages
                   ELSE setLastAssistantMessage(messages, Note("stopped"))
    /\ Ends(s, send[s].said)
    /\ UNCHANGED modal

\* The button: the finally block of the send does the rest.
HandleStopStreaming ==
    /\ abortRef # 0
    /\ send' = [send EXCEPT ![abortRef].aborted = TRUE]
    /\ UNCHANGED <<messages, isSending, abortRef, editing, pending, modal, inputs>>

----------------------------------------------------------------------------
\* An input that shows texts of the panel's own, after the edit it ends.
Local(texts) ==
    /\ inputs < MaxInputs /\ inputs' = inputs + 1
    /\ Len(Kept) + Len(texts) <= MaxMessages
    /\ messages' = Kept \o texts /\ editing' = 0

Command == User(<<Note("typed")>>)
Reply   == Assistant(<<Note("reply")>>)

\* /help at any time, what needs an idle panel while sending, an unknown command.
LocalCommand ==
    /\ Local(<<Command, Reply>>)
    /\ send' = Disturbed(0)
    /\ UNCHANGED <<isSending, abortRef, pending, modal>>

StopCommand ==
    /\ Local(<<Command, Reply>>)
    /\ send' = IF abortRef = 0 THEN Disturbed(0)
               ELSE [Disturbed(0) EXCEPT ![abortRef].aborted = TRUE]
    /\ abortRef' = 0 /\ isSending' = IF abortRef = 0 THEN isSending ELSE FALSE
    /\ UNCHANGED <<pending, modal>>

ResetCommand ==
    /\ ~isSending /\ inputs < MaxInputs /\ inputs' = inputs + 1
    /\ messages' = <<>> /\ editing' = 0
    /\ send' = Disturbed(0)
    /\ UNCHANGED <<isSending, abortRef, pending, modal>>

\* /status and /tools reply when their request returns.
AskCommand ==
    /\ ~isSending /\ "command" \notin pending
    /\ Local(<<Command>>)
    /\ pending' = pending \cup {"command"}
    /\ send' = Disturbed(0)
    /\ UNCHANGED <<isSending, abortRef, modal>>

\* pushAssistantMessage: from a request, the gateway's retry button, or the modal.
Pushes ==
    /\ Len(messages) < MaxMessages
    /\ messages' = Append(messages, Reply)
    /\ send' = Disturbed(0)
    /\ UNCHANGED <<isSending, abortRef, editing>>

AskReturns ==
    /\ "command" \in pending /\ pending' = pending \ {"command"}
    /\ Pushes /\ UNCHANGED <<modal, inputs>>

RetryConnection ==
    /\ inputs < MaxInputs /\ inputs' = inputs + 1
    /\ Pushes /\ UNCHANGED <<pending, modal>>

\* Deleted, cancelled or expired.
ModalCloses ==
    /\ modal /\ modal' = FALSE
    /\ Pushes /\ UNCHANGED <<pending, inputs>>

\* The edit button is not shown while sending.
HandleEditMessage ==
    /\ ~isSending
    /\ \E i \in DOMAIN messages : messages[i].role = "user" /\ editing' = i
    /\ inputs < MaxInputs /\ inputs' = inputs + 1
    /\ UNCHANGED <<messages, isSending, abortRef, send, pending, modal>>

\* The history replaces what is shown; sending need not have waited for it.
HistoryLoads ==
    /\ "history" \in pending /\ pending' = pending \ {"history"}
    /\ \E earlier \in {<<>>, <<User(<<Note("history")>>), Assistant(<<Note("history")>>)>>} :
          messages' = earlier
    /\ send' = Disturbed(0)
    /\ UNCHANGED <<isSending, abortRef, editing, modal, inputs>>

Streams(s) ==
    \/ ReadChunk(s) \/ Registered(s) \/ NotRegistered(s) \/ StreamEnds(s)
    \/ FallbackReturns(s) \/ RequestFails(s) \/ AbortReaches(s)

PanelNext ==
    \/ \E s \in Sends : Submit(s) \/ Regenerate(s) \/ Streams(s)
    \/ SubmitWhileSending \/ HandleStopStreaming
    \/ LocalCommand \/ StopCommand \/ ResetCommand \/ AskCommand \/ AskReturns
    \/ RetryConnection \/ ModalCloses \/ HandleEditMessage \/ HistoryLoads

PanelSpec == PanelInit /\ [][PanelNext]_panelVars

----------------------------------------------------------------------------
Tokens(s) == [n \in 1 .. send'[s].said |-> Piece(s, n)]

(* When a send ends into which nobody typed, the last message is its own and says what
   came of it: the whole answer, the notice of a stop or of a silence, or an error;
   never nothing, a part of the answer without a stop, or another send's text. *)
UndisturbedAnswer ==
    [][\A s \in Sends :
         InFlight(s) /\ send'[s].at = "over" /\ send[s].alone =>
            LET last == Final(messages')
            IN  /\ last.role = "assistant" /\ last.text # <<>>
                /\ \/ last.text = Tokens(s)
                   \/ send[s].aborted /\ last.text = <<Note("stopped")>> /\ send'[s].said = 0
                   \/ send'[s].said = 0 /\ last.text \in {<<Note("history")>>, <<Note("no answer")>>}
                   \/ last.text = <<Note("error")>> ]_panelVars
=============================================================================
