----------------------------- MODULE Typewriter -----------------------------
(***************************************************************************)
(* hooks/use-typewriter.ts of the cognitive UI: an answer that grows while *)
(* it streams is shown word by word, from a queue that animation frames    *)
(* drain; small deltas of a running stream are shown at once.  The content *)
(* is a sequence of pieces of text, each its generation and place in the   *)
(* answer and whether it ends with a space.  An effect, and the rerender   *)
(* its dispatches cause, is one step.                                      *)
(***************************************************************************)
EXTENDS Integers, SequencesExt

CONSTANTS
    MaxPieces,     \* bound: pieces of an answer
    MaxContents,   \* bound: answers shown one after the other
    BypassLength   \* the longest delta that is small, in pieces

ASSUME TypewriterAssumption == MaxPieces \in Nat /\ MaxContents \in Nat /\ BypassLength \in Nat

VARIABLES
    content,     \* the prop: what the answer holds so far
    generation,  \* how often the content was replaced
    isStreaming,   \* the prop isStreaming
    hook         \* displayedContent, isQueueDrained and the three refs; the queue is the
                 \* text of its words

typeVars == <<content, generation, isStreaming, hook>>

Cleared == [shown |-> <<>>, drained |-> TRUE, queue |-> <<>>, remainder |-> <<>>,
            consumed |-> <<>>]

TypeInit ==
    /\ content = <<>> /\ generation = 0 /\ isStreaming = FALSE
    /\ hook = Cleared

----------------------------------------------------------------------------
EndsWord(piece) == piece[3]

\* splitQueuedWords: the words that are complete, and what follows the last space.
splitQueuedWords(s) ==
    LET lastSpace == SelectLastInSeq(s, EndsWord)
    IN  [words     |-> SubSeq(s, 1, lastSpace),
         remainder |-> SubSeq(s, lastSpace + 1, Len(s))]

\* The effect of a new content: a content that does not continue what was consumed
\* starts again; while streaming, a small delta bypasses the queue.  After the stream what
\* follows the last space is a word as well.
MutantContentEffect(h, c, s) ==  \* the bypass forgets the remainder
    LET g     == IF IsPrefix(h.consumed, c) THEN h ELSE Cleared
        delta == SubSeq(c, Len(g.consumed) + 1, Len(c))
        text  == g.remainder \o delta
    IN  IF c = <<>> THEN Cleared
        ELSE IF delta = <<>> THEN g
        ELSE IF s /\ Len(delta) <= BypassLength
             THEN [g EXCEPT !.consumed = c, !.shown = @ \o delta, !.remainder = <<>>,
                            !.drained = FALSE]
        ELSE [g EXCEPT !.consumed = c, !.drained = FALSE,
                       !.queue = @ \o (IF s THEN splitQueuedWords(text).words ELSE text),
                       !.remainder = IF s THEN splitQueuedWords(text).remainder ELSE <<>>]
ContentEffect(h, c, s) ==
    LET g     == IF IsPrefix(h.consumed, c) THEN h ELSE Cleared
        delta == SubSeq(c, Len(g.consumed) + 1, Len(c))
        text  == g.remainder \o delta
    IN  IF c = <<>> THEN Cleared
        ELSE IF delta = <<>> THEN g
        ELSE IF s /\ Len(delta) <= BypassLength
             THEN [g EXCEPT !.consumed = c, !.shown = @ \o text, !.remainder = <<>>,
                            !.drained = FALSE]
        ELSE [g EXCEPT !.consumed = c, !.drained = FALSE,
                       !.queue = @ \o (IF s THEN splitQueuedWords(text).words ELSE text),
                       !.remainder = IF s THEN splitQueuedWords(text).remainder ELSE <<>>]

\* The effect of the end of the stream: what waits for a space is a word now.
EndEffect(h, s) ==
    IF s \/ h.remainder = <<>> THEN h
    ELSE [h EXCEPT !.queue = @ \o h.remainder, !.remainder = <<>>, !.drained = FALSE]

\* A rerender after the stream, with nothing left to show.
Settled(h, c, s) ==
    IF ~s /\ c # <<>> /\ h.queue = <<>> /\ h.remainder = <<>>
      THEN [h EXCEPT !.drained = (h.shown = c)] ELSE h

Rendered(h, c, s) == Settled(ContentEffect(h, c, s), c, s)

StreamStarts ==
    /\ ~isStreaming /\ generation < MaxContents
    /\ isStreaming' = TRUE /\ generation' = generation + 1 /\ content' = <<>>
    /\ hook' = ContentEffect(hook, <<>>, TRUE)

\* One render may bring several tokens.
ContentGrows ==
    /\ isStreaming
    /\ \E n \in 1 .. MaxPieces - Len(content) : \E spaces \in [1 .. n -> BOOLEAN] :
          content' = content \o [i \in 1 .. n |-> <<generation, Len(content) + i, spaces[i]>>]
    /\ hook' = Rendered(hook, content', isStreaming)
    /\ UNCHANGED <<generation, isStreaming>>

\* The answer is rewritten: sanitized, reloaded from the history, or an error text.
ContentReplaced ==
    /\ content # <<>> /\ generation < MaxContents
    /\ generation' = generation + 1
    /\ content' = [i \in DOMAIN content |-> <<generation + 1, i, TRUE>>]
    /\ hook' = Rendered(hook, content', isStreaming)
    /\ UNCHANGED isStreaming

StreamOver ==
    /\ isStreaming /\ isStreaming' = FALSE
    /\ hook' = Settled(EndEffect(ContentEffect(hook, content, FALSE), FALSE), content, FALSE)
    /\ UNCHANGED <<content, generation>>

wordsPerFrame(pending) ==
    IF ~isStreaming THEN 10 ELSE IF pending <= 30 THEN 1 ELSE IF pending <= 150 THEN 3 ELSE 10

\* drain, in an animation frame: the words end with a space, the last one with the queue.
Frame ==
    LET ends == {i \in DOMAIN hook.queue : EndsWord(hook.queue[i]) \/ i = Len(hook.queue)}
        n    == wordsPerFrame(Cardinality(ends))
    IN  \E last \in ends :
          /\ Cardinality({i \in ends : i <= last}) = Min({n, Cardinality(ends)})
          /\ hook' = Rendered([hook EXCEPT !.shown = @ \o SubSeq(hook.queue, 1, last),
                                           !.queue = SubSeq(@, last + 1, Len(@)),
                                           !.drained = FALSE],
                              content, isStreaming)
          /\ UNCHANGED <<content, generation, isStreaming>>

TypeNext == StreamStarts \/ ContentGrows \/ ContentReplaced \/ StreamOver \/ Frame

\* What the panel takes for an answer still being shown.
isVisualStreaming ==
    content # <<>> /\ (isStreaming \/ ~hook.drained \/ Len(hook.shown) < Len(content))

TypeSpec == TypeInit /\ [][TypeNext]_typeVars

----------------------------------------------------------------------------
(* Every piece of the answer that was consumed is shown or waits to be, once: neither
   the bypass nor the end of the stream nor a rewritten answer loses or doubles text. *)
EveryPieceOnce ==
    LET all == hook.shown \o hook.queue \o hook.remainder
    IN  Len(all) = Len(hook.consumed) /\ ToSet(all) = ToSet(hook.consumed)
=============================================================================
