---------------------------- MODULE LineStreams -----------------------------
(***************************************************************************)
(* The readers of event streams: streamChatViaHttp of the cognitive UI     *)
(* (lib/nat-client.ts) and the two stream processors of the legacy proxy   *)
(* (ui/proxy/response-processors.js) read the backend's lines; the chat    *)
(* panel (lib/sse-parser.ts) reads the blocks of the chat route, and the   *)
(* legacy chat (ui/components/Chat/Chat.tsx) the text of the proxy with    *)
(* the tags of steps in it.  Chunks of bytes end anywhere; a line is a     *)
(* kind of payload in two halves, so that a chunk boundary can cut it, and *)
(* ends with NL, which for the panel is the empty line that ends a block   *)
(* and in the tagged text is not there.                                    *)
(***************************************************************************)
EXTENDS Integers, SequencesExt

CONSTANTS
    MaxSymbols,  \* bound: symbols of a stream
    MaxChunk     \* bound: symbols of a chunk

ASSUME LineAssumption == MaxSymbols \in Nat /\ MaxChunk \in Nat

Readers == {"nat", "chat", "generate", "panel", "browser"}
KindsFor(r) == IF r = "panel" THEN {"text", "step", "usage", "error", "done"}
               ELSE IF r = "browser" THEN {"text", "step", "trace"}
               ELSE {"text", "blank", "step", "trace", "json", "done"}
NL      == <<"nl", 0>>

VARIABLES
    reader,   \* who reads the stream
    sent,     \* what the backend has sent
    buffer,   \* what follows the last newline read
    out,      \* what was passed on, in order
    over      \* the response was ended

lineVars == <<reader, sent, buffer, out, over>>

LineInit ==
    /\ reader \in Readers
    /\ sent = <<>> /\ buffer = <<>> /\ out = <<>> /\ over = FALSE

----------------------------------------------------------------------------
IsLine(s, k) == s = <<<<k, 1>>, <<k, 2>>>>

\* parseDataChunk and parseIntermediateChunk: a payload that is no JSON, and a
\* chunk of the completion without content, pass nothing on.
natLine(s) ==
    IF IsLine(s, "text") THEN <<"token">> ELSE IF IsLine(s, "step") THEN <<"step">> ELSE <<>>

\* processCommonLineTypes: a JSON line is passed on as it is.
processCommonLineTypes(s) ==
    IF IsLine(s, "step") THEN <<"step">>
    ELSE IF IsLine(s, "trace") THEN <<"trace">>
    ELSE IF s # <<>> /\ Head(s) = <<"json", 1>> THEN <<"json">>
    ELSE <<>>

processedLine(r, s) ==
    IF IsLine(s, "text") THEN IF r = "chat" THEN <<"content">> ELSE <<"value">>
    ELSE processCommonLineTypes(s)

\* The extractors, in the panel's order: an activity, an error, a usage, a token.
panelBlock(s) ==
    IF IsLine(s, "step") THEN <<"activity">>
    ELSE IF IsLine(s, "error") \/ IsLine(s, "usage") THEN <<s[1][1]>>
    ELSE IF IsLine(s, "text") THEN <<"token">> ELSE <<>>

Passes(r, s) ==
    IF r = "nat" THEN natLine(s) ELSE IF r = "panel" THEN panelBlock(s) ELSE processedLine(r, s)

\* Only the proxy takes [DONE] for the end.
Stops(r, s) == r \in {"chat", "generate"} /\ IsLine(s, "done")

\* What was read of a text: the line not yet complete, what was passed on, and whether
\* [DONE] was met, behind which nothing is read.
NothingRead == [line |-> <<>>, out |-> <<>>, done |-> FALSE]

\* buffer.split and the loop over the lines: a newline completes a line, the last stays.
ReadText(r, read, symbol) ==
    IF symbol # NL THEN [read EXCEPT !.line = Append(@, symbol)]
    ELSE [line |-> <<>>,
          out  |-> IF read.done THEN read.out ELSE read.out \o Passes(r, read.line),
          done |-> read.done \/ Stops(r, read.line)]

\* The legacy chat takes the closed <intermediatestep>s and the trace ids out of the text;
\* the rest of a trace id whose beginning was not kept is shown.
ReadTagged(read, symbol) ==
    CASE symbol[1] = "text" -> [read EXCEPT !.out = Append(@, "text")]
      [] symbol \in {<<"step", 1>>, <<"trace", 1>>} -> [read EXCEPT !.line = <<symbol>>]
      [] symbol = <<"step", 2>> -> [read EXCEPT !.line = <<>>, !.out = Append(@, "step")]
      [] symbol = <<"trace", 2>> ->
            [read EXCEPT !.line = <<>>,
                         !.out = Append(@, IF read.line = <<>> THEN "raw" ELSE "trace")]

ReadSymbol(r, read, symbol) ==
    IF r = "browser" THEN ReadTagged(read, symbol) ELSE ReadText(r, read, symbol)

Reads(r, s) ==
    LET upTo[n \in 0 .. Len(s)] ==
          IF n = 0 THEN NothingRead ELSE ReadSymbol(r, upTo[n - 1], s[n])
    IN  upTo[Len(s)]

\* What is kept for the next chunk, and what is passed on of this one: the legacy chat
\* keeps a step that is open, but shows the beginning of a trace id.
CutsTrace(r, read) == r = "browser" /\ read.line = <<<<"trace", 1>>>>
MutantKeeps(r, read) == <<>>  \* the last line is taken for complete
Keeps(r, read) == IF CutsTrace(r, read) THEN <<>> ELSE read.line
PassedOn(r, read) == IF CutsTrace(r, read) THEN Append(read.out, "raw") ELSE read.out

\* The backend writes whole lines, the last of them so far; the proxy tags and text.
WritesLines(s) ==
    \A i \in DOMAIN s :
        LET before == IF i = 1 THEN NL ELSE s[i - 1]
        IN  /\ s[i] = NL   => before[2] = 2 /\ reader # "browser"
            /\ s[i][2] = 1 => before = NL \/ (reader = "browser" /\ before[2] = 2)
            /\ s[i][2] = 2 => before = <<s[i][1], 1>>

\* reader.read() returns a chunk.
ReadChunk ==
    \E chunk \in UNION {[1 .. n -> (KindsFor(reader) \X {1, 2}) \cup {NL}] : n \in 1 .. MaxChunk} :
        LET all  == sent \o chunk
            read == Reads(reader, buffer \o chunk)
        IN  /\ ~over /\ Len(all) <= MaxSymbols
            /\ WritesLines(all)
            /\ sent' = all
            /\ buffer' = Keeps(reader, read)
            /\ out' = out \o PassedOn(reader, read)
            /\ over' = read.done
            /\ UNCHANGED reader

\* What follows the last newline at the end: for the proxy a JSON error may come
\* without one; the panel takes the usage and the tokens of an unfinished block; an
\* open step is dropped.
processRemainingBuffer(s) == IF s # <<>> /\ Head(s) = <<"json", 1>> THEN <<"json">> ELSE <<>>
flushSSEBuffer(s) ==
    IF IsLine(s, "usage") THEN <<"usage">> ELSE IF IsLine(s, "text") THEN <<"token">> ELSE <<>>

Leftover(r, s) ==
    IF r \in {"nat", "browser"} THEN <<>> ELSE IF r = "panel" THEN flushSSEBuffer(s) ELSE processRemainingBuffer(s)

EndOfStream ==
    /\ ~over /\ over' = TRUE
    /\ out' = out \o Leftover(reader, buffer)
    /\ UNCHANGED <<reader, sent, buffer>>

\* The backend's connection breaks: the proxy's catch ends the response as if it were
\* complete, the cognitive UI fails the request.
StreamBreaks ==
    /\ ~over /\ over' = TRUE
    /\ UNCHANGED <<reader, sent, buffer, out>>

LineNext == ReadChunk \/ EndOfStream \/ StreamBreaks

LineSpec == LineInit /\ [][LineNext]_lineVars

----------------------------------------------------------------------------
(* What is passed on is what the complete lines before [DONE] hold, in their order and
   each once, wherever the chunks end; at the end an unfinished line counts only as the
   error a backend left without a newline, an unfinished block as its usage or token.
   Of tagged text it is all text outside of the tags, and every step, unless a chunk
   ended inside a trace id. *)
LinesSurviveChunks ==
    LET whole == Reads(reader, sent)
        cut   == "raw" \in ToSet(out)
    IN  cut \/ out = whole.out \/ (over /\ out = whole.out \o Leftover(reader, whole.line))
=============================================================================
