-------------------------- MODULE LegacyTypewriter --------------------------
(***************************************************************************)
(* hooks/useTypewriter.ts of the legacy UI: a message is revealed word by  *)
(* word while frames drain a queue.  What a new content adds is taken from *)
(* what is displayed, not from what is queued, so a content that grows     *)
(* faster than it is revealed is queued again.  A word is its message and  *)
(* its place in it.                                                        *)
(***************************************************************************)
EXTENDS Integers, SequencesExt

CONSTANTS
    MaxReveal,    \* bound: words of a message
    MaxMessage    \* bound: messages the component is given one after the other

ASSUME RevealAssumption == MaxReveal \in Nat /\ MaxMessage \in Nat

VARIABLES
    message,  \* the prop content
    nth,      \* how often another message was given
    reveal    \* displayedContent, the queue, isDraining and whether a frame is asked for

revealVars == <<message, nth, reveal>>

Hidden == [displayed |-> <<>>, queued |-> <<>>, isDraining |-> FALSE, frame |-> FALSE]

RevealInit == message = <<>> /\ nth = 0 /\ reveal = Hidden

Words(k, n) == [i \in 1 .. n |-> <<k, i>>]

----------------------------------------------------------------------------
ScheduleFrame(r) == IF r.isDraining THEN r ELSE [r EXCEPT !.isDraining = TRUE, !.frame = TRUE]

Enqueue(r, words) == ScheduleFrame([r EXCEPT !.queued = @ \o words])

\* The effects of a content: nothing clears, a content that continues what is displayed
\* is queued from there, any other one starts again.
MutantContentArrives(r, c) ==  \* a cleared message keeps draining, without its frame
    IF c = <<>> THEN [Hidden EXCEPT !.isDraining = r.isDraining]
    ELSE IF c = r.displayed THEN r
    ELSE IF IsPrefix(r.displayed, c)
      THEN Enqueue(r, SubSeq(c, Len(r.displayed) + 1, Len(c)))
    ELSE Enqueue([r EXCEPT !.displayed = <<>>, !.queued = <<>>], c)
ContentArrives(r, c) ==
    IF c = <<>> THEN Hidden
    ELSE IF c = r.displayed THEN r
    ELSE IF IsPrefix(r.displayed, c)
      THEN Enqueue(r, SubSeq(c, Len(r.displayed) + 1, Len(c)))
    ELSE Enqueue([r EXCEPT !.displayed = <<>>, !.queued = <<>>], c)

MessageGrows ==
    /\ message # <<>> \/ nth < MaxMessage
    /\ nth' = IF message = <<>> THEN nth + 1 ELSE nth
    /\ \E n \in Len(message) + 1 .. MaxReveal : message' = Words(nth', n)
    /\ reveal' = ContentArrives(reveal, message')

\* Messages without an id are keyed by their index: the component of one conversation's
\* message is given the message of another.
AnotherMessage ==
    /\ message # <<>> /\ nth < MaxMessage /\ nth' = nth + 1
    /\ \E n \in 0 .. MaxReveal : message' = Words(nth', n)
    /\ reveal' = ContentArrives(reveal, message')

\* A frame whose pace has elapsed; one that is too early asks for the next.
OnFrame ==
    LET rest == Tail(reveal.queued)
    IN  /\ reveal.frame
        /\ reveal' = IF reveal.queued = <<>>
                       THEN [reveal EXCEPT !.isDraining = FALSE, !.frame = FALSE]
                       ELSE [reveal EXCEPT !.displayed = Append(@, Head(reveal.queued)),
                                           !.queued = rest,
                                           !.isDraining = rest # <<>>, !.frame = rest # <<>>]
        /\ UNCHANGED <<message, nth>>

RevealNext == MessageGrows \/ AnotherMessage \/ OnFrame

RevealSpec == RevealInit /\ [][RevealNext]_revealVars

----------------------------------------------------------------------------
(* However the content grows, is cleared or is another message's while frames drain the
   queue, nothing of the message is left out: what is displayed and queued begins as the
   message does and ends as it does, with no word missing (what else stands there is
   repeated, or was queued for the message before); and what is queued has a frame coming
   that reveals it. *)
NoWordLost ==
    LET all == reveal.displayed \o reveal.queued
    IN  /\ Len(all) >= Len(message)
        /\ \E k \in 0 .. Len(message) :
              /\ \A i \in 1 .. k : all[i] = message[i]
              /\ \A i \in k + 1 .. Len(message) : all[Len(all) - Len(message) + i] = message[i]
        /\ reveal.queued # <<>> <=> reveal.frame
        /\ reveal.frame = reveal.isDraining
=============================================================================
