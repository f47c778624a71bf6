---------------------------- MODULE ThinkParser -----------------------------
(***************************************************************************)
(* The parser of lib/thinking.ts, which separates the thoughts of a model  *)
(* from the text of its answer while tokens arrive: a tag may be cut by    *)
(* any chunk boundary, so the end of the buffer is held back while it may  *)
(* be the beginning of one.  A character is one of the alphabet's symbols. *)
(***************************************************************************)
EXTENDS Integers, SequencesExt

CONSTANTS
    MaxText,    \* bound: characters of a stream
    MaxPiece    \* bound: characters of a chunk

ASSUME ThinkAssumption == MaxText \in Nat /\ MaxPiece \in Nat

OpenTag  == <<"<", "think", ">">>
CloseTag == <<"<", "/think", ">">>
TagFor(inside) == IF inside THEN CloseTag ELSE OpenTag
Alphabet == {"<", "think", "/think", ">", "a"}
Pieces   == UNION {[1 .. n -> Alphabet] : n \in 1 .. MaxPiece}

VARIABLES
    text,      \* all that has arrived
    parser,    \* ThinkStreamState and the events it has emitted so far
    flushed    \* the stream is over

thinkVars == <<text, parser, flushed>>

createThinkStreamState ==
    [insideThink |-> FALSE, buffer |-> <<>>, thinking |-> <<>>,
     visible |-> <<>>, thoughts |-> <<>>]

ThinkInit == text = <<>> /\ parser = createThinkStreamState /\ flushed = FALSE

----------------------------------------------------------------------------
Occurrences(s, tag) ==
    {i \in 1 .. Len(s) - Len(tag) + 1 : SubSeq(s, i, i + Len(tag) - 1) = tag}
IndexOf(s, tag) == CHOOSE i \in Occurrences(s, tag) : \A j \in Occurrences(s, tag) : i <= j

\* How much of the end of s is a proper beginning of the tag.
Ending(s, n) == SubSeq(s, Len(s) - n + 1, Len(s))
MutantLongestSuffixPrefix(s, tag) ==  \* tests one beginning only
    IF Len(s) > 0 /\ Ending(s, 1) = SubSeq(tag, 1, 1) THEN 1 ELSE 0
longestSuffixPrefix(s, tag) ==
    LET sizes == {n \in 1 .. Len(tag) - 1 : n <= Len(s) /\ Ending(s, n) = SubSeq(tag, 1, n)}
    IN  IF sizes = {} THEN 0 ELSE CHOOSE n \in sizes : \A m \in sizes : m <= n

\* A turn of the loop over the buffer: up to the next tag, or to what may be one.
Turn(st) ==
    LET tag     == TagFor(st.insideThink)
        Take(n) == SubSeq(st.buffer, 1, n)
        Drop(n) == SubSeq(st.buffer, n + 1, Len(st.buffer))
    IN  IF Occurrences(st.buffer, tag) = {}
        THEN LET n == Len(st.buffer) - longestSuffixPrefix(st.buffer, tag)
             IN  IF st.insideThink
                 THEN [st EXCEPT !.thinking = @ \o Take(n), !.buffer = Drop(n)]
                 ELSE [st EXCEPT !.visible = @ \o Take(n), !.buffer = Drop(n)]
        ELSE LET n    == IndexOf(st.buffer, tag) - 1
                 rest == Drop(n + Len(tag))
             IN  IF st.insideThink
                 THEN [st EXCEPT !.insideThink = FALSE, !.buffer = rest, !.thinking = <<>>,
                                 !.thoughts = Append(@, st.thinking \o Take(n))]
                 ELSE [st EXCEPT !.insideThink = TRUE, !.buffer = rest, !.thinking = <<>>,
                                 !.visible = @ \o Take(n)]

\* The loop ends with the turn that finds no tag; more turns would change nothing.
Consume(st) ==
    LET after[n \in 0 .. Len(st.buffer) + 1] == IF n = 0 THEN st ELSE Turn(after[n - 1])
    IN  after[Len(st.buffer) + 1]

parseThinkChunk(st, chunk) == Consume([st EXCEPT !.buffer = @ \o chunk])

\* The end of the stream ends an open thought, and shows what was held back.
flushThinkState(st) ==
    [createThinkStreamState EXCEPT
        !.visible = IF st.insideThink THEN st.visible ELSE st.visible \o st.buffer,
        !.thoughts = IF st.insideThink THEN Append(st.thoughts, st.thinking \o st.buffer)
                     ELSE st.thoughts]

Chunk == \E piece \in Pieces :
    /\ ~flushed /\ Len(text) + Len(piece) <= MaxText
    /\ text' = text \o piece
    /\ parser' = parseThinkChunk(parser, piece)
    /\ UNCHANGED flushed

EndOfText ==
    /\ ~flushed /\ flushed' = TRUE
    /\ parser' = flushThinkState(parser)
    /\ UNCHANGED text

ThinkNext == Chunk \/ EndOfText

ThinkSpec == ThinkInit /\ [][ThinkNext]_thinkVars

----------------------------------------------------------------------------
\* What a reader of the whole text sees who waits for a tag: the rest of the thought
\* that the close tag ends, the text outside the thoughts, and the thoughts that follow.
Other(tag) == IF tag = OpenTag THEN CloseTag ELSE OpenTag

Sees(rest, tag, after) ==
    LET before == SubSeq(rest, 1, IndexOf(rest, tag) - 1)
    IN  IF Occurrences(rest, tag) = {}
        THEN IF tag = CloseTag THEN [open |-> rest, visible |-> <<>>, thoughts |-> <<>>]
             ELSE [open |-> <<>>, visible |-> rest, thoughts |-> <<>>]
        ELSE IF tag = CloseTag
             THEN [open |-> before, visible |-> after.visible, thoughts |-> after.thoughts]
             ELSE [open     |-> <<>>,
                   visible  |-> before \o after.visible,
                   thoughts |-> <<after.open>> \o after.thoughts]

Seen(s, first) ==
    LET sees[n \in 0 .. Len(s)] ==  \* in the last n characters
          [tag \in {OpenTag, CloseTag} |->
              Sees(Ending(s, n), tag,
                   sees[n - (IndexOf(Ending(s, n), tag) + Len(tag) - 1)][Other(tag)])]
    IN  sees[Len(s)][first]

(* Where a stream was cut into chunks cannot be told from what is shown: at its end the
   answer and the thoughts are those of the whole text, and before its end the answer
   shown is a beginning of it, so that nothing shown has to be taken back. *)
ChunksInvisible ==
    LET whole == Seen(text, OpenTag)
    IN  /\ IsPrefix(parser.visible, whole.visible)
        /\ flushed => /\ parser.visible = whole.visible
                      /\ parser.thoughts = whole.thoughts
=============================================================================
