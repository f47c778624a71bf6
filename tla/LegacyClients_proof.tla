------------------------ MODULE LegacyClients_proof -------------------------
(***************************************************************************)
(* Theorems about the legacy UI: the typewriter that reveals an answer,    *)
(* the prompts of the agent, the conversations its answers are written     *)
(* into, and the three together.                                           *)
(***************************************************************************)
EXTENDS LegacyUI, SequenceTheorems, TLAPS

----------------------------------------------------------------------------
(***************************************************************************)
(* The typewriter.  What is displayed with what is queued covers the       *)
(* content: it begins as the content does up to some word and ends as it   *)
(* does from there (Covers), for whatever the content was replaced by.     *)
(***************************************************************************)

\* The elements of two sequences, one after the other.
LEMMA ConcatIs ==
    ASSUME NEW S, NEW s \in Seq(S), NEW t \in Seq(S)
    PROVE  /\ s \o t \in Seq(S) /\ Len(s \o t) = Len(s) + Len(t)
           /\ \A i \in 1 .. Len(s) : (s \o t)[i] = s[i]
           /\ \A i \in 1 .. Len(t) : (s \o t)[Len(s) + i] = t[i]
<1>1. Len(s) \in Nat /\ Len(t) \in Nat
  BY LenProperties
<1> DEFINE c == s \o t
<1>2. /\ c \in Seq(S) /\ Len(c) = Len(s) + Len(t)
      /\ \A i \in 1 .. Len(s) + Len(t) : c[i] = IF i <= Len(s) THEN s[i] ELSE t[i - Len(s)]
  BY ConcatProperties
<1> HIDE DEF c
<1>3. ASSUME NEW i \in 1 .. Len(s) PROVE c[i] = s[i]
  <2>1. i \in 1 .. Len(s) + Len(t) /\ i <= Len(s)
    BY <1>1
  <2> QED
    BY <1>2, <2>1
<1>4. ASSUME NEW i \in 1 .. Len(t) PROVE c[Len(s) + i] = t[i]
  <2>1. /\ Len(s) + i \in 1 .. Len(s) + Len(t) /\ ~(Len(s) + i <= Len(s))
        /\ (Len(s) + i) - Len(s) = i
    BY <1>1
  <2> QED
    BY <1>2, <2>1
<1>5. /\ c \in Seq(S) /\ Len(c) = Len(s) + Len(t)
      /\ \A i \in 1 .. Len(s) : c[i] = s[i]
      /\ \A i \in 1 .. Len(t) : c[Len(s) + i] = t[i]
  BY <1>2, <1>3, <1>4
<1> QED
  BY <1>5 DEF c

WordIds == Nat \X Nat

RevealRecords ==
    [displayed : Seq(WordIds), queued : Seq(WordIds), isDraining : BOOLEAN, frame : BOOLEAN]

\* What stands begins as the content does and ends as it does.
Covers(all, content) ==
    /\ Len(all) >= Len(content)
    /\ \E k \in 0 .. Len(content) :
          /\ \A i \in 1 .. k : all[i] = content[i]
          /\ \A i \in k + 1 .. Len(content) : all[Len(all) - Len(content) + i] = content[i]

Framed(r) == (r.queued # <<>> <=> r.frame) /\ r.frame = r.isDraining

RevealInd ==
    /\ nth \in Nat /\ message \in Seq(WordIds) /\ reveal \in RevealRecords
    /\ Covers(reveal.displayed \o reveal.queued, message)
    /\ Framed(reveal)

LEMMA WordsAre == ASSUME NEW k \in Nat, NEW n \in Nat PROVE Words(k, n) \in Seq(WordIds) /\ Len(Words(k, n)) = n
<1>1. Words(k, n) \in [1 .. n -> WordIds]
  BY DEF Words, WordIds
<1> QED
  BY <1>1 DEF Words

\* All of a content covers it.
LEMMA CoversItself ==
    ASSUME NEW c \in Seq(WordIds), NEW rest \in Seq(WordIds) PROVE Covers(c \o rest, c)
<1> DEFINE all == c \o rest
<1>1. /\ all \in Seq(WordIds) /\ Len(all) = Len(c) + Len(rest)
      /\ \A i \in 1 .. Len(c) : all[i] = c[i]
  BY ConcatIs
<1>2. Len(c) \in Nat /\ Len(rest) \in Nat
  BY LenProperties
<1> HIDE DEF all
<1>3. Len(all) >= Len(c) /\ Len(c) \in 0 .. Len(c) /\ \A i \in Len(c) + 1 .. Len(c) : FALSE
  BY <1>1, <1>2
<1>4. Covers(all, c)
  BY <1>1, <1>3 DEF Covers
<1> QED
  BY <1>4 DEF all

\* What continues what is displayed is queued behind what was.
LEMMA CoversContinued ==
    ASSUME NEW c \in Seq(WordIds), NEW d \in Seq(WordIds), NEW q \in Seq(WordIds), IsPrefix(d, c)
    PROVE  Covers(d \o (q \o SubSeq(c, Len(d) + 1, Len(c))), c)
<1> DEFINE rest == SubSeq(c, Len(d) + 1, Len(c))
           more == q \o rest
           all  == d \o more
<1>1. Len(c) \in Nat /\ Len(d) \in Nat /\ Len(q) \in Nat /\ Len(d) <= Len(c)
  BY LenProperties DEF IsPrefix
<1>2. /\ rest \in Seq(WordIds) /\ Len(rest) = Len(c) - Len(d)
      /\ \A i \in 1 .. Len(c) - Len(d) : rest[i] = c[Len(d) + i]
  <2>1. Len(d) + 1 \in 1 .. Len(c) + 1 /\ Len(c) \in Len(d) + 1 - 1 .. Len(c)
    BY <1>1
  <2>2. \A i \in 1 .. Len(c) : c[i] \in WordIds
    BY ElementOfSeq
  <2> QED
    BY <1>1, <2>1, <2>2, SubSeqProperties
<1>3. \A i \in 1 .. Len(d) : d[i] = c[i]
  <2>1. SubSeq(d, 1, Len(d)) = SubSeq(c, 1, Len(d))
    BY DEF IsPrefix
  <2>2. \A i \in 1 .. Len(d) : SubSeq(d, 1, Len(d))[i] = d[i] /\ SubSeq(c, 1, Len(d))[i] = c[i]
    BY <1>1, SubSeqProperties
  <2> QED
    BY <2>1, <2>2
<1> HIDE DEF rest
<1>4. /\ more \in Seq(WordIds) /\ Len(more) = Len(q) + Len(rest)
      /\ \A i \in 1 .. Len(rest) : more[Len(q) + i] = rest[i]
  <2>1. rest \in Seq(WordIds)
    BY <1>2
  <2> QED
    BY <2>1, ConcatIs
<1> HIDE DEF more
<1>5. /\ all \in Seq(WordIds) /\ Len(all) = Len(d) + Len(more)
      /\ \A i \in 1 .. Len(d) : all[i] = d[i]
      /\ \A i \in 1 .. Len(more) : all[Len(d) + i] = more[i]
  <2>1. more \in Seq(WordIds)
    BY <1>4
  <2> QED
    BY <2>1, ConcatIs
<1> HIDE DEF all
<1>6. Len(all) = Len(c) + Len(q)
  BY <1>1, <1>2, <1>4, <1>5
<1>7. ASSUME NEW i \in Len(d) + 1 .. Len(c) PROVE all[Len(all) - Len(c) + i] = c[i]
  <2>1. /\ i - Len(d) \in 1 .. Len(rest) /\ Len(q) + (i - Len(d)) \in 1 .. Len(more)
        /\ Len(all) - Len(c) + i = Len(d) + (Len(q) + (i - Len(d)))
        /\ Len(d) + (i - Len(d)) = i /\ i - Len(d) \in 1 .. Len(c) - Len(d)
    BY <1>1, <1>2, <1>4, <1>6
  <2>2. rest[i - Len(d)] = c[i]
    BY <1>2, <2>1
  <2>3. more[Len(q) + (i - Len(d))] = rest[i - Len(d)]
    BY <1>4, <2>1
  <2> QED
    BY <1>5, <2>1, <2>2, <2>3
<1>8. Len(all) >= Len(c) /\ Len(d) \in 0 .. Len(c)
  BY <1>1, <1>6
<1>9. Covers(all, c)
  BY <1>3, <1>5, <1>7, <1>8 DEF Covers
<1> QED
  BY <1>9 DEF all, more, rest

LEMMA ScheduledIs ==
    ASSUME NEW r \in RevealRecords, Framed(r), NEW words \in Seq(WordIds), words # <<>>
    PROVE  LET e == Enqueue(r, words)
           IN  /\ e \in RevealRecords /\ Framed(e)
               /\ e.displayed = r.displayed /\ e.queued = r.queued \o words
<1> DEFINE q == r.queued \o words
           s == [r EXCEPT !.queued = q]
<1>1. q \in Seq(WordIds) /\ q # <<>>
  BY ConcatProperties, ConcatEqualIffEmpty, EmptySeq DEF RevealRecords
<1> HIDE DEF q
<1>2. /\ s \in RevealRecords /\ s.queued = q /\ s.displayed = r.displayed
      /\ s.isDraining = r.isDraining /\ s.frame = r.frame
  BY <1>1 DEF RevealRecords
<1> HIDE DEF s
<1>3. Enqueue(r, words) = ScheduleFrame(s)
  BY DEF Enqueue, s, q
<1>4. /\ ScheduleFrame(s) \in RevealRecords /\ ScheduleFrame(s).queued = q
      /\ ScheduleFrame(s).displayed = r.displayed
      /\ ScheduleFrame(s).frame /\ ScheduleFrame(s).isDraining
  BY <1>2 DEF ScheduleFrame, RevealRecords, Framed
<1> QED
  BY <1>1, <1>3, <1>4 DEF Framed, q

LEMMA ContentArrivesIs ==
    ASSUME NEW r \in RevealRecords, Framed(r), NEW c \in Seq(WordIds)
    PROVE  LET a == ContentArrives(r, c)
           IN  a \in RevealRecords /\ Framed(a) /\ Covers(a.displayed \o a.queued, c)
<1>1. CASE c = <<>>
  <2>1. Hidden \in RevealRecords /\ Framed(Hidden) /\ Hidden.displayed = <<>> /\ Hidden.queued = <<>>
    BY EmptySeq DEF Hidden, RevealRecords, Framed
  <2>2. Covers(<<>> \o <<>>, <<>>)
    BY CoversItself, EmptySeq
  <2> QED
    BY <1>1, <2>1, <2>2 DEF ContentArrives
<1>2. CASE c # <<>> /\ c = r.displayed
  <2>1. Covers(r.displayed \o r.queued, c)
    BY <1>2, CoversItself DEF RevealRecords
  <2> QED
    BY <1>2, <2>1 DEF ContentArrives
<1>3. CASE c # <<>> /\ c # r.displayed /\ IsPrefix(r.displayed, c)
  <2> DEFINE d == r.displayed
             q == r.queued
             rest == SubSeq(c, Len(d) + 1, Len(c))
  <2>1. d \in Seq(WordIds) /\ q \in Seq(WordIds)
    BY DEF RevealRecords
  <2>2. ContentArrives(r, c) = Enqueue(r, rest)
    BY <1>3 DEF ContentArrives
  <2> HIDE DEF d, q
  <2>3. rest \in Seq(WordIds) /\ rest # <<>>
    <3>1. Len(d) \in Nat /\ Len(c) \in Nat /\ Len(d) <= Len(c) /\ IsPrefix(d, c)
      BY <1>3, <2>1, LenProperties DEF IsPrefix, d
    <3>2. Len(d) # Len(c)
      <4> SUFFICES ASSUME Len(d) = Len(c) PROVE d = c
        BY <1>3 DEF d
      <4>1. SubSeq(d, 1, Len(d)) = d /\ SubSeq(c, 1, Len(c)) = c
        BY <2>1, SubSeqFull
      <4> QED
        BY <3>1, <4>1 DEF IsPrefix
    <3>3. Len(d) + 1 \in 1 .. Len(c) /\ Len(c) \in 1 .. Len(c) /\ Len(d) + 1 <= Len(c)
      BY <3>1, <3>2
    <3>4. /\ rest \in Seq(WordIds) /\ Len(rest) = Len(c) - (Len(d) + 1) + 1
      BY <3>1, <3>3, SubSeqProperties, ElementOfSeq
    <3> HIDE DEF rest
    <3>5. Len(rest) # 0
      BY <3>1, <3>3, <3>4
    <3> QED
      BY <3>4, <3>5, EmptySeq
  <2>4. Covers(d \o (q \o rest), c)
    BY <1>3, <2>1, CoversContinued DEF d
  <2> HIDE DEF rest
  <2>5. LET e == Enqueue(r, rest)
        IN  e \in RevealRecords /\ Framed(e) /\ e.displayed = r.displayed /\ e.queued = r.queued \o rest
    BY <2>3, ScheduledIs
  <2> QED
    BY <2>2, <2>4, <2>5 DEF d, q
<1>4. CASE c # <<>> /\ c # r.displayed /\ ~IsPrefix(r.displayed, c)
  <2> DEFINE empty == [r EXCEPT !.displayed = <<>>, !.queued = <<>>]
             e == Enqueue(empty, c)
  <2>1. ContentArrives(r, c) = e
    BY <1>4 DEF ContentArrives
  <2>2. /\ empty \in RevealRecords /\ empty.displayed = <<>> /\ empty.queued = <<>>
        /\ empty.isDraining = r.isDraining /\ empty.frame = r.frame
    BY EmptySeq DEF RevealRecords
  <2> HIDE DEF empty
  <2>3. e \in RevealRecords /\ Framed(e) /\ e.displayed = <<>> /\ e.queued = <<>> \o c
    <3> DEFINE s == [empty EXCEPT !.queued = <<>> \o c]
    <3>1. <<>> \o c = c
      BY ConcatEmptySeq
    <3>2. /\ s \in RevealRecords /\ s.queued = c /\ s.displayed = <<>>
          /\ s.isDraining = r.isDraining /\ s.frame = r.frame
      BY <2>2, <3>1 DEF RevealRecords
    <3>3. e = ScheduleFrame(s)
      BY <2>2 DEF Enqueue
    <3> HIDE DEF s
    <3>4. /\ ScheduleFrame(s) \in RevealRecords /\ ScheduleFrame(s).queued = c
          /\ ScheduleFrame(s).displayed = <<>>
          /\ ScheduleFrame(s).frame /\ ScheduleFrame(s).isDraining
      BY <3>2 DEF ScheduleFrame, RevealRecords, Framed
    <3> QED
      BY <1>4, <3>1, <3>3, <3>4 DEF Framed
  <2> HIDE DEF e
  <2>4. Covers(c \o <<>>, c) /\ c \o <<>> = c /\ <<>> \o c = c
    BY CoversItself, EmptySeq, ConcatEmptySeq
  <2> QED
    BY <2>1, <2>3, <2>4
<1> QED
  BY <1>1, <1>2, <1>3, <1>4

LEMMA RevealStarts == RevealInit => RevealInd
<1> SUFFICES ASSUME RevealInit PROVE RevealInd
  OBVIOUS
<1>1. Covers(<<>> \o <<>>, <<>>)
  BY CoversItself, EmptySeq
<1> QED
  BY <1>1, EmptySeq DEF RevealInit, RevealInd, Hidden, RevealRecords, Framed

LEMMA FrameKeeps == ASSUME RevealInd, OnFrame PROVE RevealInd'
<1> DEFINE d == reveal.displayed
           q == reveal.queued
<1>1. d \in Seq(WordIds) /\ q \in Seq(WordIds) /\ reveal \in RevealRecords /\ Framed(reveal)
  BY DEF RevealInd, RevealRecords
<1>2. q # <<>>
  BY <1>1 DEF OnFrame, Framed
<1>3. /\ reveal' = [reveal EXCEPT !.displayed = Append(@, Head(q)), !.queued = Tail(q),
                                  !.isDraining = Tail(q) # <<>>, !.frame = Tail(q) # <<>>]
      /\ UNCHANGED <<message, nth>>
  BY <1>2 DEF OnFrame
<1>4. Head(q) \in WordIds /\ Tail(q) \in Seq(WordIds) /\ q = <<Head(q)>> \o Tail(q)
  BY <1>1, <1>2, HeadTailProperties
<1>5. Append(d, Head(q)) \in Seq(WordIds) /\ Append(d, Head(q)) = d \o <<Head(q)>>
  BY <1>1, <1>4, AppendProperties, AppendIsConcat
<1>6. Append(d, Head(q)) \o Tail(q) = d \o q
  <2> DEFINE first == <<Head(q)>>
             rest  == Tail(q)
  <2>1. first \in Seq(WordIds) /\ rest \in Seq(WordIds) /\ q = first \o rest
    BY <1>4
  <2>2. Append(d, Head(q)) = d \o first
    BY <1>5
  <2>5. d \in Seq(WordIds)
    BY <1>1
  <2> HIDE DEF first, rest, d, q
  <2>3. (d \o first) \o rest = d \o (first \o rest)
    BY <2>1, <2>5, ConcatAssociative
  <2>4. Append(d, Head(q)) \o rest = d \o q
    BY <2>1, <2>2, <2>3
  <2> QED
    BY <2>4 DEF rest, d, q
<1>7. reveal' = [displayed |-> Append(d, Head(q)), queued |-> Tail(q),
                 isDraining |-> Tail(q) # <<>>, frame |-> Tail(q) # <<>>]
  BY <1>1, <1>3 DEF RevealRecords
<1>8. reveal' \in RevealRecords /\ Framed(reveal')
  BY <1>4, <1>5, <1>7 DEF RevealRecords, Framed
<1>9. reveal'.displayed \o reveal'.queued = d \o q
  BY <1>6, <1>7
<1> QED
  BY <1>3, <1>8, <1>9 DEF RevealInd

LEMMA RevealSteps == RevealInd /\ [RevealNext]_revealVars => RevealInd'
<1> SUFFICES ASSUME RevealInd, [RevealNext]_revealVars PROVE RevealInd'
  OBVIOUS
<1>1. CASE MessageGrows \/ AnotherMessage
  <2>1. nth' \in Nat /\ reveal' = ContentArrives(reveal, message')
    BY <1>1 DEF MessageGrows, AnotherMessage, RevealInd
  <2>2. \E n \in Nat : message' = Words(nth', n)
    <3>1. CASE MessageGrows
      <4>1. PICK n \in Len(message) + 1 .. MaxReveal : message' = Words(nth', n)
        BY <3>1 DEF MessageGrows
      <4>2. Len(message) \in Nat
        BY LenProperties DEF RevealInd
      <4>3. n \in Nat
        BY <4>2, RevealAssumption
      <4> QED
        BY <4>1, <4>3
    <3>2. CASE AnotherMessage
      BY <3>2, RevealAssumption DEF AnotherMessage
    <3> QED
      BY <1>1, <3>1, <3>2
  <2>3. message' \in Seq(WordIds)
    BY <2>1, <2>2, WordsAre
  <2>4. LET a == ContentArrives(reveal, message')
        IN  a \in RevealRecords /\ Framed(a) /\ Covers(a.displayed \o a.queued, message')
    BY <2>3, ContentArrivesIs DEF RevealInd
  <2> QED
    BY <2>1, <2>3, <2>4 DEF RevealInd
<1>2. CASE OnFrame
  BY <1>2, FrameKeeps
<1>3. CASE UNCHANGED revealVars
  BY <1>3 DEF revealVars, RevealInd
<1> QED
  BY <1>1, <1>2, <1>3 DEF RevealNext

(* NoWordLost is an invariant, for any words and any number of steps: however the content is
   continued or replaced while frames drain the queue, what is displayed with what is queued
   begins as the content does and ends as it does, and there is a frame to drain the queue
   exactly when something is in it. *)
THEOREM WordsArrive == RevealSpec => []NoWordLost
<1>1. RevealInd => NoWordLost
  BY DEF RevealInd, NoWordLost, Covers, Framed
<1> QED
  BY <1>1, RevealStarts, RevealSteps, PTL DEF RevealSpec

----------------------------------------------------------------------------
(***************************************************************************)
(* The prompts.  The dialog shows a prompt that was asked; those done with *)
(* are no later than it, and one with a timeout is counted down from it.   *)
(***************************************************************************)

PromptRecords == [form : Forms, timeout : Timeouts, required : BOOLEAN]
SentRecords   == [prompt : Nat, typed : Nat]
TakenRecords  == [prompt : Nat, after : Nat]
DialogRecords == [isOpen : BOOLEAN, shows : Nat, userInput : Nat, remaining : Int,
                  intervals : {0, 1}, age : Nat]

PromptTypes ==
    /\ asked \in Seq(PromptRecords) /\ sent \in Seq(SentRecords)
    /\ withdrawn \in Seq(TakenRecords) /\ dialog \in DialogRecords

\* The dialog shows a prompt that was asked; one with a timeout is counted down.
Counted(d) ==
    /\ d.shows <= Len(asked)
    /\ ~d.isOpen => d.intervals = 0
    /\ d.isOpen =>
          /\ d.shows \in 1 .. Len(asked)
          /\ d.intervals = 1 =>
                d.remaining > 0 /\ d.remaining + d.age = asked[d.shows].timeout

\* A prompt that is done with is not later than the one shown, which is not done with
\* as long as it is open.
DoneWith(d, n, p) == p \in 1 .. n /\ p <= d.shows /\ (d.isOpen => p # d.shows)

SentFine ==
    /\ \A i \in DOMAIN sent :
          /\ DoneWith(dialog, Len(asked), sent[i].prompt)
          /\ asked[sent[i].prompt].required => sent[i].typed # NoPrompt
    /\ \A i, j \in DOMAIN sent : sent[i].prompt = sent[j].prompt => i = j

TakenFine ==
    /\ \A i \in DOMAIN withdrawn :
          /\ DoneWith(dialog, Len(asked), withdrawn[i].prompt)
          /\ withdrawn[i].after = asked[withdrawn[i].prompt].timeout
    /\ \A i, j \in DOMAIN withdrawn : withdrawn[i].prompt = withdrawn[j].prompt => i = j
    /\ \A i \in DOMAIN withdrawn, j \in DOMAIN sent : sent[j].prompt # withdrawn[i].prompt

PromptInd == PromptTypes /\ Counted(dialog) /\ SentFine /\ TakenFine

\* What an element appended to a sequence leaves as it was.
LEMMA AppendIs ==
    ASSUME NEW S, NEW s \in Seq(S), NEW e \in S
    PROVE  /\ Append(s, e) \in Seq(S) /\ Len(Append(s, e)) = Len(s) + 1
           /\ Len(s) \in Nat /\ DOMAIN s = 1 .. Len(s) /\ DOMAIN Append(s, e) = 1 .. Len(s) + 1
           /\ \A i \in 1 .. Len(s) : Append(s, e)[i] = s[i]
           /\ Append(s, e)[Len(s) + 1] = e
           /\ \A i \in 1 .. Len(s) + 1 : i \in 1 .. Len(s) \/ i = Len(s) + 1
<1>1. /\ Append(s, e) \in Seq(S) /\ Len(Append(s, e)) = Len(s) + 1
      /\ \A i \in 1 .. Len(s) : Append(s, e)[i] = s[i]
      /\ Append(s, e)[Len(s) + 1] = e
  BY AppendProperties
<1>2. Len(s) \in Nat /\ DOMAIN s = 1 .. Len(s)
  BY LenProperties
<1>3. DOMAIN Append(s, e) = 1 .. Len(s) + 1
  BY <1>1, LenProperties
<1>4. \A i \in 1 .. Len(s) + 1 : i \in 1 .. Len(s) \/ i = Len(s) + 1
  BY <1>2
<1> QED
  BY <1>1, <1>2, <1>3, <1>4

LEMMA PromptStarts == PromptInit => PromptInd
<1> SUFFICES ASSUME PromptInit PROVE PromptInd
  OBVIOUS
<1>1. Dismissed(NoPrompt) \in DialogRecords
  BY DEF Dismissed, NoPrompt, Forever, DialogRecords
<1>2. /\ asked = <<>> /\ sent = <<>> /\ withdrawn = <<>> /\ dialog = Dismissed(NoPrompt)
  BY DEF PromptInit
<1>3. PromptTypes
  BY <1>1, <1>2, EmptySeq DEF PromptTypes
<1>4. Counted(dialog)
  BY <1>2, EmptySeq DEF Counted, Dismissed, NoPrompt
<1>5. SentFine /\ TakenFine
  BY <1>2 DEF SentFine, TakenFine
<1> QED
  BY <1>3, <1>4, <1>5 DEF PromptInd

\* A prompt more, which is shown or not: those before it are as they were.
LEMMA Asks ==
    ASSUME PromptInd, NEW q \in PromptRecords, asked' = Append(asked, q),
           UNCHANGED <<sent, withdrawn>>,
           dialog' = dialog \/ dialog' = OpenModal(Len(asked'), q.timeout)
    PROVE  PromptInd'
<1> DEFINE n == Len(asked)
<1>1. /\ asked' \in Seq(PromptRecords) /\ Len(asked') = n + 1 /\ n \in Nat
      /\ \A i \in 1 .. n : asked'[i] = asked[i]
      /\ asked'[n + 1] = q
  BY AppendIs DEF PromptInd, PromptTypes
<1>2. \A p \in 1 .. n : p \in 1 .. n + 1 /\ p < n + 1
  BY <1>1
<1>3. q.timeout \in Nat
  BY PromptsAssumption DEF PromptRecords
<1>4. /\ dialog.shows \in Nat /\ dialog.shows <= n
      /\ dialog.isOpen => dialog.shows \in 1 .. n
      /\ dialog \in DialogRecords
  BY DEF PromptInd, PromptTypes, Counted, DialogRecords
<1>5. dialog' \in DialogRecords /\ Counted(dialog)' /\ dialog'.shows \in {dialog.shows, n + 1}
      /\ (dialog'.isOpen => dialog'.shows = n + 1 \/ dialog' = dialog)
      /\ (dialog' = dialog \/ dialog'.shows = n + 1)
  <2>1. CASE dialog' = dialog
    BY <1>1, <1>2, <1>4, <2>1 DEF PromptInd, Counted
  <2>2. CASE dialog' = OpenModal(Len(asked'), q.timeout)
    <3> DEFINE left == IF q.timeout > 0 THEN q.timeout ELSE Forever
               ticks == IF q.timeout > 0 THEN 1 ELSE 0
    <3>1. dialog' = [isOpen |-> TRUE, shows |-> n + 1, userInput |-> dialog.userInput,
                     remaining |-> left, intervals |-> ticks, age |-> 0]
      BY <1>1, <1>4, <2>2 DEF OpenModal, DialogRecords
    <3>2. left \in Int /\ ticks \in {0, 1} /\ (ticks = 1 => left > 0 /\ left + 0 = q.timeout)
      BY <1>3 DEF Forever
    <3> HIDE DEF left, ticks
    <3>3. dialog' \in DialogRecords
      BY <1>1, <1>4, <3>1, <3>2 DEF DialogRecords
    <3>4. n + 1 <= n + 1 /\ n + 1 \in 1 .. n + 1
      BY <1>1
    <3>5. Counted(dialog)'
      BY <1>1, <3>1, <3>2, <3>4 DEF Counted
    <3> QED
      BY <3>1, <3>3, <3>5
  <2> QED
    BY <2>1, <2>2
<1>6. ASSUME NEW p, DoneWith(dialog, Len(asked), p)
      PROVE  DoneWith(dialog', Len(asked'), p) /\ asked'[p] = asked[p]
  <2>1. p \in 1 .. n /\ p <= dialog.shows /\ (dialog.isOpen => p # dialog.shows)
    BY <1>6 DEF DoneWith
  <2>2. p \in 1 .. n + 1 /\ p <= n + 1 /\ p # n + 1 /\ p <= dialog.shows
    BY <1>1, <1>2, <2>1
  <2> QED
    BY <1>1, <1>5, <2>1, <2>2 DEF DoneWith
<1>7. SentFine'
  BY <1>6 DEF PromptInd, SentFine
<1>8. TakenFine'
  BY <1>6 DEF PromptInd, TakenFine
<1> QED
  BY <1>1, <1>5, <1>7, <1>8 DEF PromptInd, PromptTypes

\* The prompt shown is done with: its answer goes, or is swallowed.
LEMMA Submits ==
    ASSUME PromptInd, dialog.isOpen, NEW typed \in Nat,
           asked[dialog.shows].required => typed # NoPrompt, SubmitResponse(typed)
    PROVE  PromptInd'
<1> DEFINE p == dialog.shows
           new == [prompt |-> p, typed |-> typed]
<1>1. /\ p \in 1 .. Len(asked) /\ p \in Nat /\ asked' = asked /\ withdrawn' = withdrawn
      /\ dialog' = Dismissed(p)
  BY DEF PromptInd, PromptTypes, Counted, DialogRecords, SubmitResponse
<1>2. dialog' \in DialogRecords /\ dialog'.shows = p /\ ~dialog'.isOpen /\ dialog'.intervals = 0
  BY <1>1 DEF Dismissed, DialogRecords, NoPrompt, Forever
<1>3. Counted(dialog)'
  <2>1. Len(asked) \in Nat
    BY LenProperties DEF PromptInd, PromptTypes
  <2>2. p <= Len(asked)
    BY <1>1, <2>1
  <2> QED
    BY <1>1, <1>2, <2>2 DEF Counted
<1>4. \A k : DoneWith(dialog, Len(asked), k) => DoneWith(dialog', Len(asked'), k) /\ k # p
  BY <1>1, <1>2 DEF DoneWith
<1>5. DoneWith(dialog', Len(asked'), p)
  <2>1. p <= p
    BY <1>1
  <2> QED
    BY <1>1, <1>2, <2>1 DEF DoneWith
<1>6. CASE sent' = sent
  BY <1>1, <1>2, <1>3, <1>4, <1>6 DEF PromptInd, PromptTypes, SentFine, TakenFine
<1>7. CASE sent' = Append(sent, new)
  <2>1. new \in SentRecords /\ new.prompt = p /\ new.typed = typed
    BY <1>1 DEF SentRecords
  <2> HIDE DEF new
  <2> DEFINE n == Len(sent)
  <2>2. /\ sent' \in Seq(SentRecords) /\ DOMAIN sent = 1 .. n /\ DOMAIN sent' = 1 .. n + 1
        /\ \A i \in 1 .. n : sent'[i] = sent[i]
        /\ sent'[n + 1] = new
        /\ \A i \in 1 .. n + 1 : i \in 1 .. n \/ i = n + 1
    BY <1>7, <2>1, AppendIs DEF PromptInd, PromptTypes
  <2> HIDE DEF n
  <2>3. SentFine'
    BY <1>1, <1>4, <1>5, <2>1, <2>2 DEF PromptInd, SentFine
  <2>4. TakenFine'
    BY <1>1, <1>4, <2>1, <2>2 DEF PromptInd, TakenFine
  <2> QED
    BY <1>1, <1>2, <1>3, <2>2, <2>3, <2>4 DEF PromptInd, PromptTypes
<1> QED
  BY <1>6, <1>7 DEF SubmitResponse

LEMMA Ticks == ASSUME PromptInd, Tick PROVE PromptInd'
<1> DEFINE p == dialog.shows
           left == dialog.remaining - dialog.intervals
           old == [dialog EXCEPT !.age = @ + 1]
<1>1. /\ dialog \in DialogRecords /\ dialog.intervals = 1 /\ dialog.isOpen
      /\ p \in 1 .. Len(asked) /\ p \in Nat /\ dialog.age \in Nat /\ dialog.remaining \in Int
      /\ dialog.remaining > 0 /\ dialog.remaining + dialog.age = asked[p].timeout
  BY DEF PromptInd, PromptTypes, Counted, DialogRecords, Tick
<1>2. /\ old \in DialogRecords /\ old.shows = p /\ old.age = dialog.age + 1 /\ old.isOpen
      /\ old.intervals = 1 /\ old.remaining = dialog.remaining
  BY <1>1 DEF DialogRecords
<1>3. left = dialog.remaining - 1
  BY <1>1
<1>4. UNCHANGED <<asked, sent>> /\ p <= Len(asked)
  BY DEF Tick, PromptInd, Counted
<1>5. /\ left <= 0 => withdrawn' = Append(withdrawn, [prompt |-> p, after |-> old.age])
                      /\ dialog' = Dismissed(p)
      /\ ~(left <= 0) => dialog' = [old EXCEPT !.remaining = left] /\ withdrawn' = withdrawn
  BY <1>2 DEF Tick
<1> HIDE DEF old, left
<1>6. CASE left <= 0
  <2> DEFINE new == [prompt |-> p, after |-> old.age]
  <2>1. old.age = asked[p].timeout /\ old.age \in Nat
    BY <1>1, <1>2, <1>3, <1>6
  <2>2. new \in TakenRecords /\ new.prompt = p /\ new.after = asked[p].timeout
    BY <1>1, <2>1 DEF TakenRecords
  <2>3. withdrawn' = Append(withdrawn, new)
    BY <1>5, <1>6
  <2> HIDE DEF new
  <2> DEFINE n == Len(withdrawn)
  <2>4. /\ withdrawn' \in Seq(TakenRecords) /\ DOMAIN withdrawn = 1 .. n
        /\ DOMAIN withdrawn' = 1 .. n + 1
        /\ \A i \in 1 .. n : withdrawn'[i] = withdrawn[i]
        /\ withdrawn'[n + 1] = new
        /\ \A i \in 1 .. n + 1 : i \in 1 .. n \/ i = n + 1
    BY <2>2, <2>3, AppendIs DEF PromptInd, PromptTypes
  <2> HIDE DEF n
  <2>5. dialog' \in DialogRecords /\ dialog'.shows = p /\ ~dialog'.isOpen /\ dialog'.intervals = 0
    <3>1. dialog' = Dismissed(p) /\ p \in Nat
      BY <1>1, <1>5, <1>6
    <3> HIDE DEF p
    <3> QED
      BY <3>1 DEF Dismissed, DialogRecords, NoPrompt, Forever
  <2>6. \A k : DoneWith(dialog, Len(asked), k) => DoneWith(dialog', Len(asked'), k) /\ k # p
    BY <1>1, <1>4, <2>5 DEF DoneWith
  <2>7. DoneWith(dialog', Len(asked'), p)
    <3>1. p <= p
      BY <1>1
    <3> QED
      BY <1>1, <1>4, <2>5, <3>1 DEF DoneWith
  <2>8. SentFine'
    BY <1>4, <2>6 DEF PromptInd, SentFine
  <2>9. TakenFine'
    BY <1>4, <2>2, <2>4, <2>6, <2>7 DEF PromptInd, TakenFine, SentFine
  <2>10. Counted(dialog)'
    BY <1>4, <2>5 DEF Counted
  <2> QED
    BY <1>4, <2>4, <2>5, <2>8, <2>9, <2>10 DEF PromptInd, PromptTypes
<1>7. CASE ~(left <= 0)
  <2>1. left \in Int /\ left > 0 /\ left + old.age = asked[p].timeout
    <3>1. \A r \in Int, a \in Nat : ~(r - 1 <= 0) =>
              r - 1 \in Int /\ r - 1 > 0 /\ (r - 1) + (a + 1) = r + a
      OBVIOUS
    <3>2. dialog.remaining \in Int /\ dialog.age \in Nat /\ ~(dialog.remaining - 1 <= 0)
      BY <1>1, <1>3, <1>7
    <3>3. /\ dialog.remaining - 1 \in Int /\ dialog.remaining - 1 > 0
          /\ (dialog.remaining - 1) + (dialog.age + 1) = dialog.remaining + dialog.age
      BY <3>1, <3>2
    <3> QED
      BY <1>1, <1>2, <1>3, <3>3
  <2>2. /\ dialog' \in DialogRecords /\ dialog'.shows = p /\ dialog'.isOpen
        /\ dialog'.remaining = left /\ dialog'.age = old.age
    BY <1>2, <1>5, <1>7, <2>1 DEF DialogRecords
  <2>3. Counted(dialog)'
    BY <1>1, <1>4, <2>1, <2>2 DEF Counted
  <2>4. \A k : DoneWith(dialog, Len(asked), k) => DoneWith(dialog', Len(asked'), k)
    BY <1>1, <1>4, <2>2 DEF DoneWith
  <2> QED
    BY <1>4, <1>5, <1>7, <2>2, <2>3, <2>4 DEF PromptInd, PromptTypes, SentFine, TakenFine
<1> QED
  BY <1>6, <1>7

LEMMA TypesKeeps == ASSUME PromptInd, Types PROVE PromptInd'
<1>1. /\ dialog' \in DialogRecords /\ dialog'.shows = dialog.shows /\ dialog'.isOpen = dialog.isOpen
      /\ dialog'.remaining = dialog.remaining /\ dialog'.age = dialog.age
      /\ dialog'.intervals = dialog.intervals /\ UNCHANGED <<asked, sent, withdrawn>>
  BY DEF Types, PromptInd, PromptTypes, DialogRecords
<1>2. \A k : DoneWith(dialog, Len(asked), k) => DoneWith(dialog', Len(asked'), k)
  BY <1>1 DEF DoneWith
<1>3. Counted(dialog)'
  BY <1>1 DEF PromptInd, Counted
<1> QED
  BY <1>1, <1>2, <1>3 DEF PromptInd, PromptTypes, SentFine, TakenFine

LEMMA PromptSteps == PromptInd /\ [PromptNext]_promptVars => PromptInd'
<1> SUFFICES ASSUME PromptInd, [PromptNext]_promptVars PROVE PromptInd'
  OBVIOUS
<1>1. CASE AgentAsks
  <2>1. PICK form \in Forms, timeout \in Timeouts, required \in BOOLEAN :
          /\ asked' = Append(asked, [form |-> form, timeout |-> timeout, required |-> required])
          /\ dialog' = IF listening THEN OpenModal(Len(asked'), timeout) ELSE dialog
    BY <1>1 DEF AgentAsks
  <2> DEFINE q == [form |-> form, timeout |-> timeout, required |-> required]
  <2>2. q \in PromptRecords /\ q.timeout = timeout /\ asked' = Append(asked, q)
    BY <2>1 DEF PromptRecords
  <2>3. UNCHANGED <<sent, withdrawn>>
    BY <1>1 DEF AgentAsks
  <2> HIDE DEF q
  <2> QED
    BY <2>1, <2>2, <2>3, Asks
<1>2. CASE Types
  BY <1>2, TypesKeeps
<1>3. CASE HandleTextSubmit
  <2>1. /\ dialog.isOpen /\ SubmitResponse(dialog.userInput)
        /\ asked[dialog.shows].required => dialog.userInput # NoPrompt
    BY <1>3 DEF HandleTextSubmit, Form
  <2>2. dialog.userInput \in Nat
    BY DEF PromptInd, PromptTypes, DialogRecords
  <2> QED
    BY <2>1, <2>2, Submits
<1>4. CASE HandleChoiceSubmit
  <2>1. dialog.isOpen /\ SubmitResponse(dialog.shows)
    BY <1>4 DEF HandleChoiceSubmit, Form
  <2>2. dialog.shows \in Nat /\ dialog.shows # NoPrompt
    BY <2>1 DEF PromptInd, PromptTypes, DialogRecords, Counted, NoPrompt
  <2> QED
    BY <2>1, <2>2, Submits
<1>5. CASE Tick
  BY <1>5, Ticks
<1>6. CASE HearingChanges \/ LinkChanges \/ UNCHANGED promptVars
  BY <1>6 DEF HearingChanges, LinkChanges, promptVars, PromptInd, PromptTypes, Counted, DoneWith,
              SentFine, TakenFine
<1> QED
  BY <1>1, <1>2, <1>3, <1>4, <1>5, <1>6 DEF PromptNext

(* PromptsHaveTheirTime is an invariant, for any number of prompts and any timeouts: a prompt
   of the agent is answered once at most, with the text it requires; it is withdrawn after
   its own timeout, never after that of a prompt that took its place in the dialog, and
   then it was not answered. *)
THEOREM PromptsAreDoneOnce == PromptSpec => []PromptsHaveTheirTime
<1>1. PromptInd => PromptsHaveTheirTime
  BY DEF PromptInd, SentFine, TakenFine, PromptsHaveTheirTime
<1> QED
  BY <1>1, PromptStarts, PromptSteps, PTL DEF PromptSpec

----------------------------------------------------------------------------
(***************************************************************************)
(* The conversations.  What is on the screen, in a list or in              *)
(* sessionStorage, and what a call of handleSend read before it awaited,   *)
(* is of one kind: a log (Good) whose questions and tokens are of one      *)
(* conversation and no later than what their calls have said.  A step may  *)
(* only let calls go on (Later), so what was read before an await stays    *)
(* good after it.                                                          *)
(***************************************************************************)

Tokens   == Questions \X (Nat \ {0})
Messages == [role : {"user", "assistant"}, of : Questions, text : Seq(Tokens)]
Places   == {"idle", "connecting", "fetching", "reading", "answered", "over"}

\* A token, a message, a log and a list of conversations as they may be when the
\* questions are at qs.
TokenFits(c, k, qs) ==
    qs[k[1]].thread = c /\ (qs[k[1]].at # "over" => k[2] <= qs[k[1]].said)
Fits(c, m, qs) ==
    qs[m.of].thread = c /\ \A n \in DOMAIN m.text : TokenFits(c, m.text[n], qs)
Good(c, log, qs) ==
    /\ log \in Seq(Messages) /\ (log # <<>> => c # 0)
    /\ \A i \in DOMAIN log : Fits(c, log[i], qs)
    /\ InOrder(log)
AllGood(cs, qs) ==
    /\ cs = [c \in DOMAIN cs |-> cs[c]] /\ DOMAIN cs \subseteq Nat \ {0}
    /\ \A c \in DOMAIN cs : Good(c, cs[c], qs)
Shown(c, qs) ==
    c \in [id : Nat, log : Seq(Messages)] /\ Good(c.id, c.log, qs)

\* What a call of handleSend holds.
IsCall(q) ==
    /\ q \in [at : Places, thread : Nat, log : {q.log}, before : {q.before}, said : Nat,
              aborted : {q.aborted}]
    /\ (q.at = "idle" <=> q.thread = 0)
    /\ (q.at \in {"idle", "connecting"} => q.said = 0)
    /\ (q.at \in {"fetching", "reading"} /\ q.said # 0 => q.log # <<>>)
CallFine(q, qs) == IsCall(q) /\ Good(q.thread, q.log, qs) /\ AllGood(q.before, qs)

\* A call keeps its conversation, ends once, and says no less than it did.
Later(q, r) ==
    /\ (q.thread # 0 => r.thread = q.thread)
    /\ (r.at # "over" => q.at # "over" /\ q.said <= r.said)

ChatInd ==
    /\ question = [s \in Questions |-> question[s]] /\ threads \in Nat
    /\ \A s \in Questions : CallFine(question[s], question)
    /\ Shown(selected, question) /\ selected.id # 0 /\ Shown(savedSelected, question)
    /\ AllGood(conversations, question)

Fresh(log, k) ==
    \A i \in DOMAIN log : \A n \in DOMAIN log[i].text :
        log[i].text[n][1] = k[1] => log[i].text[n][2] < k[2]

LEMMA TokenIs == \A k \in Tokens : k[1] \in Questions /\ k[2] \in Nat \ {0}
BY DEF Tokens

LEMMA MakesToken == \A s \in Questions, n \in Nat \ {0} :
    <<s, n>> \in Tokens /\ <<s, n>>[1] = s /\ <<s, n>>[2] = n
<1>1. \A S, T : \A a \in S, b \in T : <<a, b>> \in S \X T
  OBVIOUS
<1> QED
  BY <1>1 DEF Tokens

LEMMA TextsAre ==
    ASSUME NEW log \in Seq(Messages), NEW i \in DOMAIN log, NEW n \in DOMAIN log[i].text
    PROVE  /\ log[i] \in Messages /\ log[i].of \in Questions /\ log[i].text \in Seq(Tokens)
           /\ log[i].text[n] \in Tokens
<1>1. log[i] \in Messages
  BY ElementOfSeq, LenProperties
<1>2. log[i].of \in Questions /\ log[i].text \in Seq(Tokens)
  BY <1>1 DEF Messages
<1> DEFINE t == log[i].text
<1> HIDE DEF t
<1>3. t \in Seq(Tokens) /\ n \in DOMAIN t
  BY <1>2 DEF t
<1>4. t[n] \in Tokens
  BY <1>3, ElementOfSeq, LenProperties
<1> QED
  BY <1>1, <1>2, <1>4 DEF t

LEMMA OfIs ==
    ASSUME NEW log \in Seq(Messages), NEW i \in DOMAIN log
    PROVE  log[i] \in Messages /\ log[i].of \in Questions /\ log[i].text \in Seq(Tokens)
<1>1. log[i] \in Messages
  BY ElementOfSeq, LenProperties
<1> QED
  BY <1>1 DEF Messages

\* What was good stays so while the calls go on.
LEMMA GoodStays ==
    ASSUME NEW c, NEW log, NEW qs, NEW rs, Good(c, log, qs),
           \A s \in Questions : qs[s].said \in Nat /\ rs[s].said \in Nat /\ Later(qs[s], rs[s])
    PROVE  Good(c, log, rs)
<1>1. log \in Seq(Messages) /\ (log # <<>> => c # 0) /\ InOrder(log)
  BY DEF Good
<1>2. ASSUME NEW i \in DOMAIN log PROVE Fits(c, log[i], rs)
  <2>1. c # 0
    <3>1. log # <<>>
      BY <1>1, <1>2, EmptySeq, LenProperties
    <3> QED
      BY <1>1, <3>1
  <2>2. Fits(c, log[i], qs) /\ log[i].of \in Questions
    BY <1>1, OfIs DEF Good
  <2>3. rs[log[i].of].thread = c
    BY <2>1, <2>2 DEF Fits, Later
  <2>4. ASSUME NEW n \in DOMAIN log[i].text PROVE TokenFits(c, log[i].text[n], rs)
    <3> DEFINE k == log[i].text[n]
    <3>1. k[1] \in Questions /\ k[2] \in Nat
      BY <1>1, TextsAre, TokenIs
    <3>2. TokenFits(c, k, qs)
      BY <2>2 DEF Fits
    <3> HIDE DEF k
    <3>3. /\ rs[k[1]].thread = c
          /\ rs[k[1]].at # "over" => k[2] <= qs[k[1]].said /\ qs[k[1]].said <= rs[k[1]].said
      BY <2>1, <3>1, <3>2 DEF TokenFits, Later
    <3>4. qs[k[1]].said \in Nat /\ rs[k[1]].said \in Nat
      BY <3>1
    <3>5. TokenFits(c, k, rs)
      BY <3>1, <3>3, <3>4 DEF TokenFits
    <3> QED
      BY <3>5 DEF k
  <2> QED
    BY <2>3, <2>4 DEF Fits
<1> QED
  BY <1>1, <1>2 DEF Good

LEMMA AllStay ==
    ASSUME NEW cs, NEW qs, NEW rs, AllGood(cs, qs),
           \A s \in Questions : qs[s].said \in Nat /\ rs[s].said \in Nat /\ Later(qs[s], rs[s])
    PROVE  AllGood(cs, rs)
BY GoodStays DEF AllGood

\* What handlers make of a log.
LEMMA NoneGood == \A c, qs : Good(c, <<>>, qs)
BY EmptySeq DEF Good, InOrder

LEMMA PartGood ==
    ASSUME NEW c, NEW log, NEW qs, Good(c, log, qs), NEW part \in Seq(Messages), NEW from,
           \A i \in DOMAIN part : from[i] \in DOMAIN log /\ part[i] = log[from[i]],
           \A i, j \in DOMAIN part : i < j => from[i] < from[j]
    PROVE  Good(c, part, qs)
<1>1. InOrder(part)
  <2> SUFFICES ASSUME NEW i \in DOMAIN part, NEW j \in DOMAIN part,
                      NEW m \in DOMAIN part[i].text, NEW n \in DOMAIN part[j].text,
                      part[i].text[m][1] = part[j].text[n][1] /\ (i < j \/ (i = j /\ m < n))
               PROVE  part[i].text[m][2] < part[j].text[n][2]
    BY DEF InOrder
  <2>1. from[i] < from[j] \/ (from[i] = from[j] /\ m < n)
    OBVIOUS
  <2>2. /\ from[i] \in DOMAIN log /\ part[i] = log[from[i]]
        /\ from[j] \in DOMAIN log /\ part[j] = log[from[j]]
    OBVIOUS
  <2>3. m \in DOMAIN log[from[i]].text /\ n \in DOMAIN log[from[j]].text
    BY <2>2
  <2>4. log[from[i]].text[m][1] = log[from[j]].text[n][1]
    BY <2>2
  <2>5. log[from[i]].text[m][2] < log[from[j]].text[n][2]
    BY <2>1, <2>2, <2>3, <2>4 DEF Good, InOrder
  <2> QED
    BY <2>2, <2>5
<1>2. \A i \in DOMAIN part : Fits(c, part[i], qs)
  BY DEF Good
<1>3. part # <<>> => c # 0
  <2> SUFFICES ASSUME part # <<>>, log = <<>> PROVE FALSE
    BY DEF Good
  <2>1. 1 \in DOMAIN part
    BY EmptySeq, LenProperties
  <2>2. from[1] \in DOMAIN log
    BY <2>1
  <2> QED
    BY <2>2, EmptySeq
<1> QED
  BY <1>1, <1>2, <1>3 DEF Good

LEMMA FreshIs ==
    ASSUME NEW c, NEW log, NEW qs, Good(c, log, qs), NEW s \in Questions,
           qs[s].at # "over", qs[s].said \in Nat
    PROVE  Fresh(log, <<s, qs[s].said + 1>>)
<1> SUFFICES ASSUME NEW i \in DOMAIN log, NEW n \in DOMAIN log[i].text,
                    log[i].text[n][1] = s
             PROVE  log[i].text[n][2] < qs[s].said + 1
  BY DEF Fresh
<1> DEFINE k == log[i].text[n]
<1>1. k[1] \in Questions /\ k[2] \in Nat
  BY TextsAre, TokenIs DEF Good
<1>2. TokenFits(c, k, qs)
  BY DEF Good, Fits
<1>3. k[1] = s
  OBVIOUS
<1> HIDE DEF k
<1>4. k[2] <= qs[s].said
  BY <1>2, <1>3 DEF TokenFits
<1>5. k[2] < qs[s].said + 1
  BY <1>1, <1>4
<1> QED
  BY <1>5 DEF k

LEMMA AppendGood ==
    ASSUME NEW c, c # 0, NEW log, NEW qs, Good(c, log, qs), NEW m \in Messages, Fits(c, m, qs),
           m.text = <<>> \/ \E k \in Tokens : m.text = <<k>> /\ Fresh(log, k)
    PROVE  Good(c, Append(log, m), qs)
<1> DEFINE l == Append(log, m)
           z == Len(log) + 1
<1>1. /\ log \in Seq(Messages) /\ Len(log) \in Nat /\ DOMAIN log = 1 .. Len(log)
  BY LenProperties DEF Good
<1>2. /\ l \in Seq(Messages) /\ DOMAIN l = 1 .. z /\ l[z] = m
      /\ \A i \in 1 .. Len(log) : l[i] = log[i]
  <2>1. log \in Seq(Messages) /\ m \in Messages
    BY <1>1
  <2>2. /\ Append(log, m) \in Seq(Messages) /\ Len(Append(log, m)) = Len(log) + 1
        /\ \A i \in 1 .. Len(log) : Append(log, m)[i] = log[i]
        /\ Append(log, m)[Len(log) + 1] = m
    BY <2>1, AppendProperties
  <2> QED
    BY <2>2, LenProperties
<1> HIDE DEF l
<1>3. \A i \in DOMAIN l : \/ i \in DOMAIN log /\ l[i] = log[i]
                          \/ i = z /\ l[i] = m
  BY <1>1, <1>2
<1>4. InOrder(l)
  <2> SUFFICES ASSUME NEW i \in DOMAIN l, NEW j \in DOMAIN l,
                      NEW a \in DOMAIN l[i].text, NEW b \in DOMAIN l[j].text,
                      l[i].text[a][1] = l[j].text[b][1] /\ (i < j \/ (i = j /\ a < b))
               PROVE  l[i].text[a][2] < l[j].text[b][2]
    BY DEF InOrder
  <2>1. CASE i \in DOMAIN log /\ j \in DOMAIN log
    BY <1>1, <1>2, <2>1 DEF Good, InOrder
  <2>2. CASE j = z
    <3>1. DOMAIN l[j].text = {} \/ \E k \in Tokens : l[j].text = <<k>> /\ Fresh(log, k)
      BY <1>2, <2>2, EmptySeq
    <3>2. PICK k \in Tokens : l[j].text = <<k>> /\ Fresh(log, k)
      BY <3>1
    <3>3. b = 1 /\ l[j].text[b] = k
      BY <3>2
    <3>4. i \in DOMAIN log /\ l[i] = log[i]
      <4>1. i = z => l[i].text = <<k>> /\ a = 1
        BY <2>2, <3>2
      <4>2. i # z
        BY <2>2, <3>3, <4>1
      <4> QED
        BY <1>3, <4>2
    <3> QED
      BY <3>2, <3>3, <3>4 DEF Fresh
  <2>3. CASE i = z /\ j \in DOMAIN log
    BY <1>1, <2>3
  <2> QED
    BY <1>3, <2>1, <2>2, <2>3
<1>5. \A i \in DOMAIN l : Fits(c, l[i], qs)
  BY <1>3 DEF Good
<1>6. Good(c, l, qs)
  BY <1>2, <1>4, <1>5 DEF Good
<1> QED
  BY <1>6 DEF l

LEMMA ContinuedGood ==
    ASSUME NEW c, NEW log, NEW qs, Good(c, log, qs), log # <<>>, NEW k \in Tokens,
           TokenFits(c, k, qs), Fresh(log, k)
    PROVE  Good(c, Continued(log, <<k>>), qs) /\ Continued(log, <<k>>) # <<>>
<1> DEFINE l == Continued(log, <<k>>)
           z == Len(log)
           t == log[z].text \o <<k>>
           u == Len(log[z].text)
<1>1. /\ log \in Seq(Messages) /\ z \in Nat /\ DOMAIN log = 1 .. z /\ z \in DOMAIN log
      /\ log \in [1 .. z -> Messages]
  BY EmptySeq, LenProperties DEF Good
<1>2. log[z] \in Messages /\ log[z].of \in Questions /\ log[z].text \in Seq(Tokens)
  BY <1>1, OfIs
<1>3. /\ t \in Seq(Tokens) /\ u \in Nat /\ DOMAIN log[z].text = 1 .. u /\ DOMAIN t = 1 .. u + 1
      /\ t[u + 1] = k /\ \A n \in 1 .. u : t[n] = log[z].text[n]
  <2> DEFINE old == log[z].text
  <2>1. old \in Seq(Tokens)
    BY <1>2
  <2>2. t = old \o <<k>>
    OBVIOUS
  <2> HIDE DEF old, t
  <2>3. <<k>> \in Seq(Tokens) /\ Len(<<k>>) = 1 /\ <<k>>[1] = k
    OBVIOUS
  <2>4. old \o <<k>> = Append(old, k)
    BY <2>1, AppendIsConcat
  <2>5. /\ t \in Seq(Tokens) /\ Len(t) = Len(old) + 1
        /\ \A n \in 1 .. Len(old) : t[n] = old[n]
        /\ t[Len(old) + 1] = k
    BY <2>1, <2>2, <2>4, AppendProperties
  <2>6. Len(old) \in Nat /\ DOMAIN old = 1 .. Len(old) /\ DOMAIN t = 1 .. Len(t)
    BY <2>1, <2>5, LenProperties
  <2> QED
    BY <2>5, <2>6 DEF old
<1> DEFINE m == [log[z] EXCEPT !.text = t]
<1>4. m \in Messages /\ m.of = log[z].of /\ m.text = t
  BY <1>2, <1>3 DEF Messages
<1>5. l = [log EXCEPT ![z] = m]
  BY DEF Continued, AppendAssistantText
<1> HIDE DEF l, m
<1>6. l \in [1 .. z -> Messages] /\ l[z] = m /\ \A i \in 1 .. z : i # z => l[i] = log[i]
  BY <1>1, <1>4, <1>5
<1>7. l \in Seq(Messages) /\ DOMAIN l = 1 .. z /\ l # <<>>
  <2>1. l \in Seq(Messages) /\ Len(l) = z
    BY <1>1, <1>6
  <2> QED
    BY <1>1, <1>6, <2>1, EmptySeq
\* every token is an old one at its old place, or the new one at the end
<1>8. ASSUME NEW i \in DOMAIN l, NEW n \in DOMAIN l[i].text
      PROVE  /\ i \in DOMAIN log
             /\ \/ n \in DOMAIN log[i].text /\ l[i].text[n] = log[i].text[n]
                \/ i = z /\ n = u + 1 /\ l[i].text[n] = k
  <2>1. CASE i = z
    <3>1. n \in 1 .. u + 1 /\ l[i].text = t
      BY <1>3, <1>4, <1>6, <2>1
    <3> QED
      BY <1>1, <1>3, <2>1, <3>1
  <2>2. CASE i # z
    BY <1>1, <1>6, <1>7, <2>2
  <2> QED
    BY <2>1, <2>2
<1>9. ASSUME NEW i \in DOMAIN l PROVE Fits(c, l[i], qs)
  <2>1. i \in DOMAIN log /\ l[i].of = log[i].of
    BY <1>1, <1>4, <1>6, <1>7
  <2>2. \A n \in DOMAIN l[i].text : TokenFits(c, l[i].text[n], qs)
    BY <1>8, <2>1 DEF Good, Fits
  <2> QED
    BY <2>1, <2>2 DEF Good, Fits
<1>10. InOrder(l)
  <2> SUFFICES ASSUME NEW i \in DOMAIN l, NEW j \in DOMAIN l,
                      NEW a \in DOMAIN l[i].text, NEW b \in DOMAIN l[j].text,
                      l[i].text[a][1] = l[j].text[b][1] /\ (i < j \/ (i = j /\ a < b))
               PROVE  l[i].text[a][2] < l[j].text[b][2]
    BY DEF InOrder
  <2>1. CASE /\ a \in DOMAIN log[i].text /\ l[i].text[a] = log[i].text[a]
             /\ b \in DOMAIN log[j].text /\ l[j].text[b] = log[j].text[b]
    BY <1>8, <2>1 DEF Good, InOrder
  <2>2. CASE /\ a \in DOMAIN log[i].text /\ l[i].text[a] = log[i].text[a]
             /\ j = z /\ b = u + 1 /\ l[j].text[b] = k
    BY <1>8, <2>2 DEF Fresh
  <2>3. CASE i = z /\ a = u + 1
    <3>1. j \in 1 .. z /\ i \in 1 .. z
      BY <1>7
    <3>2. j = z /\ b \in 1 .. u + 1
      <4>1. j = z
        BY <1>1, <2>3, <3>1
      <4> QED
        BY <1>3, <1>4, <1>6, <4>1
    <3> QED
      BY <1>3, <2>3, <3>2
  <2> QED
    BY <1>8, <2>1, <2>2, <2>3
<1>11. Good(c, l, qs) /\ l # <<>>
  BY <1>7, <1>9, <1>10 DEF Good
<1> QED
  BY <1>11 DEF l

LEMMA Sub ==
    ASSUME NEW log \in Seq(Messages), NEW a \in Nat \ {0}, NEW b \in 0 .. Len(log)
    PROVE  LET part == SubSeq(log, a, b)
           IN  /\ part \in Seq(Messages)
               /\ Len(part) = IF a <= b THEN b - a + 1 ELSE 0
               /\ \A i \in 1 .. Len(part) : a + i - 1 \in DOMAIN log /\ part[i] = log[a + i - 1]
<1>1. Len(log) \in Nat /\ b \in Int /\ a \in Int /\ DOMAIN log = 1 .. Len(log)
  BY LenProperties
<1>2. \A i \in a .. b : i \in 1 .. Len(log)
  BY <1>1
<1>3. \A i \in a .. b : log[i] \in Messages
  BY <1>2, ElementOfSeq
<1> DEFINE part == SubSeq(log, a, b)
<1>4. /\ part \in Seq(Messages) /\ Len(part) = IF a <= b THEN b - a + 1 ELSE 0
      /\ \A i \in 1 .. b - a + 1 : part[i] = log[a + i - 1]
  BY <1>1, <1>3, SubSeqProperties
<1> HIDE DEF part
<1>5. Len(part) \in Nat /\ \A i \in 1 .. Len(part) : i \in 1 .. b - a + 1 /\ a + i - 1 \in a .. b
  BY <1>1, <1>4
<1>6. \A i \in 1 .. Len(part) : a + i - 1 \in DOMAIN log /\ part[i] = log[a + i - 1]
  BY <1>1, <1>2, <1>4, <1>5
<1> QED
  BY <1>4, <1>6 DEF part

LEMMA AskedGood ==
    ASSUME NEW c, c # 0, NEW log, NEW qs, Good(c, log, qs), NEW n \in 0 .. Len(log),
           NEW s \in Questions, qs[s].thread = c
    PROVE  LET l == Append(SubSeq(log, 1, Len(log) - n), Asked(s))
           IN  Good(c, l, qs) /\ l # <<>>
<1>1. log \in Seq(Messages) /\ Len(log) \in Nat
  BY LenProperties DEF Good
<1> DEFINE part == SubSeq(log, 1, Len(log) - n)
           from == [i \in Nat |-> i]
<1>2. Len(log) - n \in 0 .. Len(log)
  BY <1>1
<1>3. /\ part \in Seq(Messages) /\ DOMAIN part = 1 .. Len(part) /\ Len(part) \in Nat
      /\ \A i \in 1 .. Len(part) : 1 + i - 1 \in DOMAIN log /\ part[i] = log[1 + i - 1]
  BY <1>1, <1>2, Sub, LenProperties
<1> HIDE DEF part
<1>4. \A i \in DOMAIN part : from[i] = i /\ i \in DOMAIN log /\ part[i] = log[i]
  BY <1>3
<1> HIDE DEF from
<1>5. \A i, j \in DOMAIN part : i < j => from[i] < from[j]
  BY <1>4
<1>6. Good(c, part, qs)
  <2>1. \A i \in DOMAIN part : from[i] \in DOMAIN log /\ part[i] = log[from[i]]
    BY <1>4
  <2> QED
    <3>1. part \in Seq(Messages)
      BY <1>3
    <3> QED
      BY <1>5, <2>1, <3>1, PartGood
<1>7. Asked(s) \in Messages /\ Asked(s).text = <<>> /\ Asked(s).of = s
  BY EmptySeq DEF Asked, Messages
<1>8. Fits(c, Asked(s), qs)
  BY <1>7 DEF Fits
<1>9. Good(c, Append(part, Asked(s)), qs)
  BY <1>6, <1>7, <1>8, AppendGood
<1>10. Append(part, Asked(s)) # <<>>
  BY <1>3, <1>7, AppendProperties, EmptySeq
<1> QED
  BY <1>9, <1>10 DEF part

LEMMA AnswerIs ==
    ASSUME NEW s \in Questions
    PROVE  /\ Answer(s, <<>>) \in Messages /\ Answer(s, <<>>).text = <<>> /\ Answer(s, <<>>).of = s
           /\ \A k \in Tokens : /\ Answer(s, <<k>>) \in Messages /\ Answer(s, <<k>>).text = <<k>>
                                /\ Answer(s, <<k>>).of = s
<1>1. \A t \in Seq(Tokens) : Answer(s, t) \in Messages /\ Answer(s, t).text = t /\ Answer(s, t).of = s
  BY DEF Answer, Messages
<1>2. <<>> \in Seq(Tokens) /\ \A k \in Tokens : <<k>> \in Seq(Tokens)
  BY EmptySeq
<1> QED
  BY <1>1, <1>2

LEMMA SilentGood ==
    ASSUME NEW c, c # 0, NEW log, NEW qs, Good(c, log, qs), NEW s \in Questions, qs[s].thread = c
    PROVE  Good(c, Append(log, Answer(s, <<>>)), qs)
<1> DEFINE m == Answer(s, <<>>)
<1>1. m \in Messages /\ m.text = <<>> /\ m.of = s
  BY AnswerIs
<1> HIDE DEF m
<1>2. Fits(c, m, qs)
  BY <1>1, EmptySeq DEF Fits
<1>3. Good(c, Append(log, m), qs)
  BY <1>1, <1>2, AppendGood
<1> QED
  BY <1>3 DEF m

\* The next token of an answer, at the end of the log or as a message of its own.
LEMMA TokenGood ==
    ASSUME NEW c, c # 0, NEW log, NEW qs, NEW rs, Good(c, log, qs), Good(c, log, rs),
           NEW s \in Questions, qs[s].at # "over", qs[s].said \in Nat,
           rs[s].thread = c, rs[s].said = qs[s].said + 1
    PROVE  LET k == <<s, qs[s].said + 1>>
           IN  /\ Good(c, Append(log, Answer(s, <<k>>)), rs) /\ Append(log, Answer(s, <<k>>)) # <<>>
               /\ log # <<>> => Good(c, Continued(log, <<k>>), rs) /\ Continued(log, <<k>>) # <<>>
<1> DEFINE k == <<s, qs[s].said + 1>>
<1>1. qs[s].said + 1 \in Nat \ {0} /\ qs[s].said + 1 <= rs[s].said
  OBVIOUS
<1>2. k \in Tokens /\ k[1] = s /\ k[2] = qs[s].said + 1
  BY <1>1, MakesToken
<1>3. Fresh(log, k)
  BY FreshIs
<1> HIDE DEF k
<1>4. TokenFits(c, k, rs)
  BY <1>1, <1>2 DEF TokenFits
<1> DEFINE m == Answer(s, <<k>>)
<1>5. m \in Messages /\ m.text = <<k>> /\ m.of = s
  BY <1>2, AnswerIs
<1> HIDE DEF m
<1>6. Fits(c, m, rs)
  <2>1. \A n \in DOMAIN m.text : m.text[n] = k
    BY <1>5
  <2> QED
    BY <1>4, <1>5, <2>1 DEF Fits
<1>7. Good(c, Append(log, m), rs)
  BY <1>2, <1>3, <1>5, <1>6, AppendGood
<1>8. Append(log, m) # <<>>
  BY <1>5, AppendProperties, EmptySeq DEF Good
<1>9. log # <<>> => Good(c, Continued(log, <<k>>), rs) /\ Continued(log, <<k>>) # <<>>
  BY <1>2, <1>3, <1>4, ContinuedGood
<1> QED
  BY <1>7, <1>8, <1>9 DEF m, k

LEMMA MappedGood ==
    ASSUME NEW cs, NEW qs, AllGood(cs, qs), NEW c, NEW log, Good(c, log, qs)
    PROVE  /\ AllGood(Mapped(cs, c, log), qs)
           /\ c \in Nat \ {0} => AllGood(MappedOrFirst(cs, c, log), qs)
<1>1. AllGood(Mapped(cs, c, log), qs)
  BY DEF Mapped, AllGood
<1>2. c \in Nat \ {0} => AllGood([d \in {c} |-> log], qs)
  BY DEF AllGood
<1> QED
  BY <1>1, <1>2 DEF MappedOrFirst

LEMMA NoneAllGood == \A qs : AllGood(<<>>, qs)
<1>1. DOMAIN <<>> = {}
  BY EmptySeq, LenProperties
<1>2. <<>> = [c \in DOMAIN <<>> |-> <<>>[c]]
  BY EmptySeq
<1> QED
  BY <1>1, <1>2 DEF AllGood

\* A step of the chat: the calls go on, and what it writes is good by then.
Onward == \A s \in Questions :
    question[s].said \in Nat /\ question'[s].said \in Nat /\ Later(question[s], question'[s])

CallsFine ==
    /\ question' = [s \in Questions |-> question'[s]] /\ Onward
    /\ \A s \in Questions :
          /\ IsCall(question'[s])
          /\ \/ /\ question'[s].thread = question[s].thread /\ question'[s].log = question[s].log
                /\ question'[s].before = question[s].before
             \/ /\ Good(question'[s].thread, question'[s].log, question')
                /\ AllGood(question'[s].before, question')

LEMMA ChatMoves ==
    ASSUME ChatInd, CallsFine, threads' \in Nat,
           selected' = selected \/ (Shown(selected', question') /\ selected'.id # 0),
           savedSelected' = savedSelected \/ Shown(savedSelected', question'),
           conversations' = conversations \/ AllGood(conversations', question')
    PROVE  ChatInd'
<1>1. \A s \in Questions :
         question[s].said \in Nat /\ question'[s].said \in Nat /\ Later(question[s], question'[s])
  BY DEF CallsFine, Onward
<1>2. \A c, log : Good(c, log, question) => Good(c, log, question')
  BY <1>1, GoodStays
<1>3. \A cs : AllGood(cs, question) => AllGood(cs, question')
  BY <1>1, AllStay
<1>4. \A s \in Questions : CallFine(question'[s], question')
  BY <1>2, <1>3 DEF CallsFine, ChatInd, CallFine
<1>5. \A c : Shown(c, question) => Shown(c, question')
  BY <1>2 DEF Shown
<1>6. Shown(selected', question') /\ selected'.id # 0 /\ Shown(savedSelected', question')
  BY <1>5 DEF ChatInd
<1>7. AllGood(conversations', question')
  BY <1>3 DEF ChatInd
<1> QED
  BY <1>4, <1>6, <1>7 DEF ChatInd, CallsFine

LEMMA GoodOnward ==
    ASSUME Onward
    PROVE  /\ \A c, log : Good(c, log, question) => Good(c, log, question')
           /\ \A cs : AllGood(cs, question) => AllGood(cs, question')
<1>1. \A s \in Questions :
         question[s].said \in Nat /\ question'[s].said \in Nat /\ Later(question[s], question'[s])
  BY DEF Onward
<1> QED
  BY <1>1, GoodStays, AllStay

LEMMA OneOnward ==
    ASSUME ChatInd, NEW s \in Questions, NEW r, IsCall(r), Later(question[s], r),
           question' = [question EXCEPT ![s] = r]
    PROVE  /\ Onward /\ question' = [o \in Questions |-> question'[o]] /\ question'[s] = r
           /\ \A o \in Questions : o # s => question'[o] = question[o]
           /\ \A o \in Questions : IsCall(question'[o])
<1>1. question = [o \in Questions |-> question[o]] /\ \A o \in Questions : IsCall(question[o])
  BY DEF ChatInd, CallFine
<1>2. /\ question' = [o \in Questions |-> question'[o]] /\ question'[s] = r
      /\ \A o \in Questions : o # s => question'[o] = question[o]
  BY <1>1
<1>3. \A o \in Questions : IsCall(question'[o])
  BY <1>1, <1>2
<1>4. Onward
  <2> SUFFICES ASSUME NEW o \in Questions
               PROVE  question[o].said \in Nat /\ question'[o].said \in Nat /\ Later(question[o], question'[o])
    BY DEF Onward
  <2>1. question[o].said \in Nat /\ question'[o].said \in Nat
    BY <1>1, <1>3 DEF IsCall
  <2>2. Later(question[o], question[o])
    BY <2>1 DEF Later
  <2> QED
    BY <1>2, <2>1, <2>2
<1> QED
  BY <1>2, <1>3, <1>4

LEMMA OneCall ==
    ASSUME ChatInd, NEW s \in Questions, NEW r, IsCall(r), Later(question[s], r),
           question' = [question EXCEPT ![s] = r],
           Good(r.thread, r.log, question'), AllGood(r.before, question')
    PROVE  CallsFine
BY OneOnward DEF CallsFine

LEMMA SameCalls == ASSUME ChatInd, question' = question PROVE CallsFine /\ Onward
<1>1. \A o \in Questions : IsCall(question[o]) /\ question[o].said \in Nat
  BY DEF ChatInd, CallFine, IsCall
<1>2. \A o \in Questions : Later(question[o], question[o])
  BY <1>1 DEF Later
<1> QED
  BY <1>1, <1>2 DEF CallsFine, Onward, ChatInd

LEMMA CallEnds ==
    ASSUME ChatInd, NEW s \in Questions, question[s].at # "idle"
    PROVE  /\ IsCall(Over(s)) /\ Later(question[s], Over(s)) /\ Over(s).thread = question[s].thread
           /\ Over(s).log = <<>> /\ Over(s).before = <<>> /\ Over(s).at = "over"
<1>1. IsCall(question[s])
  BY DEF ChatInd, CallFine
<1>2. /\ Over(s).at = "over" /\ Over(s).thread = question[s].thread /\ Over(s).log = <<>>
      /\ Over(s).before = <<>> /\ Over(s).said = 0
      /\ Over(s) \in [at : {"over"}, thread : {question[s].thread}, log : {<<>>}, before : {<<>>},
                      said : {0}, aborted : {FALSE}]
  BY DEF Over, Unasked
<1>3. question[s].thread \in Nat /\ question[s].thread # 0
  BY <1>1 DEF IsCall
<1> HIDE DEF ChatInd
<1>4. IsCall(Over(s))
  BY <1>2, <1>3 DEF IsCall, Places
<1> QED
  BY <1>2, <1>4 DEF Later

LEMMA EndsFine ==
    ASSUME ChatInd, NEW s \in Questions, question[s].at # "idle",
           question' = [question EXCEPT ![s] = Over(s)]
    PROVE  CallsFine /\ Onward
<1>1. /\ IsCall(Over(s)) /\ Later(question[s], Over(s))
      /\ Over(s).log = <<>> /\ Over(s).before = <<>>
  BY CallEnds
<1> DEFINE r == Over(s)
<1> HIDE DEF r
<1>2. Good(r.thread, r.log, question') /\ AllGood(r.before, question')
  BY <1>1, NoneGood, NoneAllGood DEF r
<1>3. question' = [question EXCEPT ![s] = r] /\ IsCall(r) /\ Later(question[s], r)
  BY <1>1 DEF r
<1> QED
  BY <1>2, <1>3, OneCall, OneOnward

LEMMA ShownIs ==
    ASSUME NEW c, NEW log, NEW qs, c \in Nat, Good(c, log, qs)
    PROVE  Shown([id |-> c, log |-> log], qs) /\ [id |-> c, log |-> log].id = c
BY DEF Shown, Good

\* A question is asked in conversation c, without its last n messages.
LEMMA FitQuestion ==
    ASSUME ChatInd, NEW s \in Questions, NEW c, c.id \in Nat \ {0},
           question[s].at = "idle" \/ (question[s].at = "connecting" /\ question[s].thread = c.id),
           NEW r, r.thread = c.id, r.said = 0
    PROVE  Later(question[s], r)
<1>1. IsCall(question[s])
  BY DEF ChatInd, CallFine
<1> QED
  BY <1>1 DEF IsCall, Later

LEMMA SocketKeeps ==
    ASSUME ChatInd, NEW s \in Questions, NEW c, Shown(c, question), c.id # 0,
           question[s].at = "idle" \/ (question[s].at = "connecting" /\ question[s].thread = c.id),
           NEW n \in 0 .. Len(c.log), AskOverSocket(s, c, n), threads' = threads
    PROVE  ChatInd'
<1> DEFINE log == Append(SubSeq(c.log, 1, Len(c.log) - n), Asked(s))
           r == [Unasked EXCEPT !.at = IF link'.at = "open" THEN "answered" ELSE "over",
                                !.thread = c.id]
<1>1. c.id \in Nat \ {0} /\ Good(c.id, c.log, question) /\ threads' \in Nat
      /\ c \in [id : Nat, log : Seq(Messages)]
  BY DEF Shown, ChatInd
<1>2. /\ r.at \in {"answered", "over"} /\ r.thread = c.id /\ r.log = <<>> /\ r.before = <<>> /\ r.said = 0
      /\ r \in [at : {"answered", "over"}, thread : {c.id}, log : {<<>>}, before : {<<>>},
                said : {0}, aborted : {FALSE}]
  BY DEF Unasked
<1>3. /\ question' = [question EXCEPT ![s] = r]
      /\ selected' = [c EXCEPT !.log = log] /\ savedSelected' = selected'
      /\ conversations' = Mapped(conversations, c.id, log)
  BY DEF AskOverSocket
<1> HIDE DEF r
<1>4. IsCall(r)
  BY <1>1, <1>2 DEF IsCall, Places
<1>5. Later(question[s], r)
  BY <1>1, <1>2, FitQuestion
<1>6. Onward /\ question'[s] = r
  BY <1>3, <1>4, <1>5, OneOnward
<1>7. Good(r.thread, r.log, question') /\ AllGood(r.before, question')
  BY <1>2, NoneGood, NoneAllGood
<1>8. CallsFine
  BY <1>3, <1>4, <1>5, <1>7, OneCall
<1>9. Good(c.id, log, question')
  <2>1. Good(c.id, c.log, question') /\ question'[s].thread = c.id
    BY <1>1, <1>2, <1>6, GoodOnward
  <2> QED
    BY <1>1, <2>1, AskedGood
<1> HIDE DEF log
<1>10. Shown(selected', question') /\ selected'.id # 0
  BY <1>1, <1>3, <1>9 DEF Shown, Good
<1>11. AllGood(conversations', question')
  BY <1>3, <1>6, <1>9, GoodOnward, MappedGood DEF ChatInd
<1> QED
  BY <1>1, <1>3, <1>8, <1>10, <1>11, ChatMoves

LEMMA LaterKeeps ==
    ASSUME ChatInd, NEW s \in Questions, question[s].at = "idle",
           NEW n \in 0 .. Len(selected.log), AskLater(s, selected, n), threads' = threads
    PROVE  ChatInd'
<1> DEFINE c == selected
           log == Append(SubSeq(c.log, 1, Len(c.log) - n), Asked(s))
           r == [Unasked EXCEPT !.at = "connecting", !.thread = c.id, !.log = c.log]
<1>1. c.id \in Nat \ {0} /\ Good(c.id, c.log, question) /\ threads' \in Nat
      /\ c \in [id : Nat, log : Seq(Messages)]
  BY DEF Shown, ChatInd
<1>2. /\ r.at = "connecting" /\ r.thread = c.id /\ r.log = c.log /\ r.before = <<>> /\ r.said = 0
      /\ r \in [at : {"connecting"}, thread : {c.id}, log : {c.log}, before : {<<>>},
                said : {0}, aborted : {FALSE}]
  BY DEF Unasked
<1>3. /\ question' = [question EXCEPT ![s] = r] /\ selected' = [c EXCEPT !.log = log]
      /\ savedSelected' = savedSelected /\ conversations' = conversations
  BY DEF AskLater
<1> HIDE DEF r
<1>4. IsCall(r)
  BY <1>1, <1>2 DEF IsCall, Places
<1>5. Later(question[s], r)
  BY <1>1, <1>2, FitQuestion
<1>6. Onward /\ question'[s] = r
  BY <1>3, <1>4, <1>5, OneOnward
<1>7. Good(c.id, c.log, question')
  BY <1>1, <1>6, GoodOnward
<1>8. Good(r.thread, r.log, question') /\ AllGood(r.before, question')
  BY <1>2, <1>7, NoneAllGood
<1>9. CallsFine
  BY <1>3, <1>4, <1>5, <1>8, OneCall
<1>10. Good(c.id, log, question')
  BY <1>1, <1>2, <1>6, <1>7, AskedGood
<1> HIDE DEF log
<1>11. Shown(selected', question') /\ selected'.id # 0
  BY <1>1, <1>3, <1>10 DEF Shown, Good
<1> QED
  BY <1>1, <1>3, <1>9, <1>11, ChatMoves

LEMMA HttpKeeps ==
    ASSUME ChatInd, NEW s \in Questions, question[s].at = "idle",
           NEW n \in 0 .. Len(selected.log), AskOverHttp(s, selected, n), threads' = threads
    PROVE  ChatInd'
<1> DEFINE c == selected
           log == Append(SubSeq(c.log, 1, Len(c.log) - n), Asked(s))
           r == [at |-> "fetching", thread |-> c.id, log |-> log, before |-> conversations,
                 said |-> 0, aborted |-> controller = "aborted"]
<1>1. c.id \in Nat \ {0} /\ Good(c.id, c.log, question) /\ threads' \in Nat
      /\ c \in [id : Nat, log : Seq(Messages)]
  BY DEF Shown, ChatInd
<1>2. /\ question' = [question EXCEPT ![s] = r] /\ selected' = [c EXCEPT !.log = log]
      /\ savedSelected' = savedSelected /\ conversations' = conversations
  BY DEF AskOverHttp
<1> HIDE DEF log
<1>3. /\ r.at = "fetching" /\ r.thread = c.id /\ r.log = log /\ r.before = conversations /\ r.said = 0
      /\ r \in [at : {"fetching"}, thread : {c.id}, log : {log}, before : {conversations},
                said : {0}, aborted : {r.aborted}]
  OBVIOUS
<1> HIDE DEF r
<1>4. IsCall(r)
  BY <1>1, <1>3 DEF IsCall, Places
<1>5. Later(question[s], r)
  BY <1>1, <1>3, FitQuestion
<1>6. Onward /\ question'[s] = r
  BY <1>2, <1>4, <1>5, OneOnward
<1>7. Good(c.id, log, question') /\ AllGood(conversations, question')
  <2>1. Good(c.id, c.log, question') /\ question'[s].thread = c.id /\ AllGood(conversations, question')
    BY <1>1, <1>3, <1>6, GoodOnward DEF ChatInd
  <2> QED
    BY <1>1, <2>1, AskedGood DEF log
<1>8. CallsFine
  BY <1>2, <1>3, <1>4, <1>5, <1>7, OneCall
<1>9. Shown(selected', question') /\ selected'.id # 0
  BY <1>1, <1>2, <1>7 DEF Shown, Good
<1> QED
  BY <1>1, <1>2, <1>8, <1>9, ChatMoves

LEMMA SendKeeps ==
    ASSUME ChatInd, NEW s \in Questions, NEW n \in 0 .. Len(selected.log), HandleSend(s, n)
    PROVE  ChatInd'
<1>1. question[s].at = "idle" /\ threads' = threads
  BY DEF HandleSend
<1>2. AskOverHttp(s, selected, n) \/ AskOverSocket(s, selected, n) \/ AskLater(s, selected, n)
  BY DEF HandleSend
<1>3. Shown(selected, question) /\ selected.id # 0
  BY DEF ChatInd
<1> QED
  BY <1>1, <1>2, <1>3, HttpKeeps, SocketKeeps, LaterKeeps

LEMMA AsksKeep ==
    ASSUME ChatInd, NEW s \in Questions, AskQuestion(s) \/ AskAgain(s) \/ EditMessage(s)
    PROVE  ChatInd'
<1>1. selected.log \in Seq(Messages) /\ Len(selected.log) \in Nat
      /\ DOMAIN selected.log = 1 .. Len(selected.log)
  BY LenProperties DEF ChatInd, Shown, Good
<1>2. selected.log # <<>> => Len(selected.log) > 0
  BY <1>1, EmptySeq
<1>3. \E n \in 0 .. Len(selected.log) : HandleSend(s, n)
  <2>1. CASE AskQuestion(s)
    BY <1>1, <2>1 DEF AskQuestion
  <2>2. CASE AskAgain(s)
    <3>1. \A n \in {0, 1} : n \in 0 .. Len(selected.log)
      BY <1>1, <1>2, <2>2 DEF AskAgain
    <3> QED
      BY <2>2, <3>1 DEF AskAgain
  <2>3. CASE EditMessage(s)
    <3>1. \A i \in DOMAIN selected.log : Len(selected.log) - i + 1 \in 0 .. Len(selected.log)
      BY <1>1
    <3> QED
      BY <2>3, <3>1 DEF EditMessage
  <2> QED
    BY <2>1, <2>2, <2>3
<1> QED
  BY <1>3, SendKeeps

\* A stream of an answer.
LEMMA CallIs ==
    ASSUME ChatInd, NEW s \in Questions
    PROVE  /\ IsCall(question[s]) /\ question[s].said \in Nat /\ question[s].thread \in Nat
           /\ question[s].at # "idle" => question[s].thread # 0
           /\ Good(question[s].thread, question[s].log, question)
           /\ AllGood(question[s].before, question)
BY DEF ChatInd, CallFine, IsCall

LEMMA ChunkKeeps == ASSUME ChatInd, NEW s \in Questions, AnswerChunk(s) PROVE ChatInd'
<1> DEFINE q == question[s]
           k == <<s, q.said + 1>>
           log == IF q.said = 0 THEN Append(q.log, Answer(s, <<<<s, 1>>>>)) ELSE Continued(q.log, <<k>>)
           r == [q EXCEPT !.at = "reading", !.log = log, !.said = q.said + 1]
<1>1. /\ q.at \in {"fetching", "reading"}
      /\ selected' = [id |-> q.thread, log |-> log]
      /\ question' = [question EXCEPT ![s] = r]
      /\ conversations' = conversations /\ savedSelected' = savedSelected /\ threads' = threads
  BY DEF AnswerChunk, ShowsAnswer
<1>2. /\ IsCall(q) /\ q.said \in Nat /\ q.thread \in Nat /\ q.thread # 0
      /\ Good(q.thread, q.log, question) /\ AllGood(q.before, question)
      /\ q.said # 0 => q.log # <<>>
  BY <1>1, CallIs DEF IsCall
<1>3. /\ log = (IF q.said = 0 THEN Append(q.log, Answer(s, <<k>>)) ELSE Continued(q.log, <<k>>))
  BY <1>2
<1> HIDE DEF log
<1>4. /\ r.at = "reading" /\ r.thread = q.thread /\ r.log = log /\ r.before = q.before
      /\ r.said = q.said + 1 /\ r.aborted = q.aborted
      /\ r \in [at : {"reading"}, thread : Nat, log : {log}, before : {q.before}, said : Nat,
                aborted : {q.aborted}]
  <2>1. \A d \in [at : Places, thread : Nat, log : {q.log}, before : {q.before}, said : Nat,
                  aborted : {q.aborted}], n \in Nat : \A l :
           LET e == [d EXCEPT !.at = "reading", !.log = l, !.said = n]
           IN  /\ e.at = "reading" /\ e.thread = d.thread /\ e.log = l /\ e.before = d.before
               /\ e.said = n /\ e.aborted = d.aborted
               /\ e \in [at : {"reading"}, thread : Nat, log : {l}, before : {q.before}, said : Nat,
                         aborted : {q.aborted}]
    OBVIOUS
  <2>2. q \in [at : Places, thread : Nat, log : {q.log}, before : {q.before}, said : Nat,
               aborted : {q.aborted}] /\ q.said + 1 \in Nat
    BY <1>2 DEF IsCall
  <2> QED
    BY <2>1, <2>2
<1> HIDE DEF r
<1>5. Later(q, r)
  BY <1>1, <1>2, <1>4 DEF Later
<1> DEFINE qs == [question EXCEPT ![s] = r]
<1>6. /\ Good(q.thread, q.log, qs) /\ qs[s].thread = q.thread /\ qs[s].said = q.said + 1
  <2>1. \A o \in Questions : IsCall(question[o])
    BY CallIs
  <2>2. qs[s] = r /\ \A o \in Questions : o # s => qs[o] = question[o]
    BY DEF ChatInd
  <2>3. \A o \in Questions :
           question[o].said \in Nat /\ qs[o].said \in Nat /\ Later(question[o], qs[o])
    BY <1>2, <1>4, <1>5, <2>1, <2>2 DEF IsCall, Later
  <2> HIDE DEF qs
  <2> QED
    BY <1>2, <1>4, <2>2, <2>3, GoodStays
<1>7. qs = question'
  BY <1>1
<1> HIDE DEF qs
<1>8. Good(q.thread, log, question') /\ log # <<>>
  BY <1>1, <1>2, <1>3, <1>6, <1>7, TokenGood
<1>9. IsCall(r)
  BY <1>2, <1>4, <1>8 DEF IsCall, Places
<1>10. Onward
  BY <1>1, <1>5, <1>9, OneOnward
<1>11. CallsFine
  BY <1>1, <1>2, <1>4, <1>5, <1>8, <1>9, <1>10, GoodOnward, OneCall
<1>12. Shown(selected', question') /\ selected'.id # 0
  BY <1>1, <1>2, <1>8, ShownIs
<1> QED
  BY <1>1, <1>11, <1>12, ChatMoves DEF ChatInd

LEMMA EndKeeps ==
    ASSUME ChatInd, NEW s \in Questions,
           \/ StreamCompletes(s) \/ Refused(s) \/ WorkflowError(s) \/ Fails(s)
           \/ NotConnected(s) \/ BackendCompletes(s)
    PROVE  ChatInd'
<1> DEFINE q == question[s]
           c == [id |-> q.thread, log |-> Append(q.log, Answer(s, <<>>))]
<1>1. /\ question[s].at # "idle" /\ question' = [question EXCEPT ![s] = Over(s)] /\ threads' = threads
  BY DEF StreamCompletes, Refused, WorkflowError, Fails, NotConnected, BackendCompletes
<1>2. CallsFine /\ Onward
  BY <1>1, EndsFine
<1>3. q.thread \in Nat /\ q.thread # 0
      /\ Good(q.thread, q.log, question') /\ AllGood(q.before, question')
  BY <1>1, <1>2, CallIs, GoodOnward
<1>4. question'[s].thread = q.thread
  BY <1>1, CallEnds, OneOnward
<1>5. Good(c.id, c.log, question') /\ c.id = q.thread
  BY <1>3, <1>4, SilentGood
<1>6. Shown(c, question') /\ Shown([id |-> q.thread, log |-> q.log], question')
  BY <1>3, <1>5, ShownIs
<1>7. /\ AllGood(MappedOrFirst(q.before, q.thread, q.log), question')
      /\ AllGood(Mapped(q.before, c.id, c.log), question')
  BY <1>3, <1>5, MappedGood
<1> HIDE DEF c
<1>8. selected' = selected \/ selected' = c
  BY DEF StreamCompletes, Refused, WorkflowError, Fails, NotConnected, BackendCompletes, c
<1>9. savedSelected' = savedSelected \/ savedSelected' = c \/ savedSelected' = [id |-> q.thread, log |-> q.log]
  BY DEF StreamCompletes, Refused, WorkflowError, Fails, NotConnected, BackendCompletes, c
<1>10. \/ conversations' = conversations \/ conversations' = MappedOrFirst(q.before, q.thread, q.log)
       \/ conversations' = Mapped(q.before, c.id, c.log)
  BY DEF StreamCompletes, Refused, WorkflowError, Fails, NotConnected, BackendCompletes, c
<1> QED
  BY <1>1, <1>2, <1>3, <1>5, <1>6, <1>7, <1>8, <1>9, <1>10, ChatMoves DEF ChatInd

LEMMA ConnectedKeeps == ASSUME ChatInd, NEW s \in Questions, Connected(s) PROVE ChatInd'
<1> DEFINE q == question[s]
           c == [id |-> q.thread, log |-> q.log]
           n == IF q.log = <<>> THEN 0 ELSE 1
<1>1. q.at = "connecting" /\ AskOverSocket(s, c, n) /\ threads' = threads
  BY DEF Connected
<1>2. /\ q.thread \in Nat /\ q.thread # 0 /\ Good(q.thread, q.log, question)
      /\ q.log \in Seq(Messages)
  BY <1>1, CallIs DEF Good
<1>3. Shown(c, question) /\ c.id = q.thread /\ c.log = q.log
  BY <1>2, ShownIs
<1>4. n \in 0 .. Len(c.log)
  <2>1. Len(q.log) \in Nat /\ (q.log # <<>> => Len(q.log) # 0)
    BY <1>2, EmptySeq, LenProperties
  <2> QED
    BY <1>3, <2>1
<1> HIDE DEF c, n
<1> QED
  BY <1>1, <1>2, <1>3, <1>4, SocketKeeps

\* What the socket brings is written into a conversation that is in the list.
LEMMA DispatchKeeps ==
    ASSUME ChatInd, CallsFine, Onward, NEW log, Good(selected.id, log, question'),
           selected.id \in DOMAIN conversations, UpdateRefsAndDispatch(selected.id, log),
           threads' = threads
    PROVE  ChatInd'
<1>1. /\ selected \in [id : Nat, log : Seq(Messages)] /\ selected.id # 0
      /\ selected' = [selected EXCEPT !.log = log] /\ savedSelected' = selected'
  BY DEF ChatInd, Shown, UpdateRefsAndDispatch
<1>2. Shown(selected', question') /\ selected'.id # 0
  BY <1>1 DEF Shown, Good
<1>3. conversations' = Mapped(conversations, selected.id, log)
  BY DEF UpdateRefsAndDispatch, Mapped
<1>4. AllGood(conversations', question')
  BY <1>3, GoodOnward, MappedGood DEF ChatInd
<1> QED
  BY <1>1, <1>2, <1>4, ChatMoves DEF ChatInd

LEMMA SaysKeeps == ASSUME ChatInd, NEW s \in Questions, BackendSays(s) PROVE ChatInd'
<1> DEFINE q == question[s]
           k == <<s, q.said + 1>>
           r == [q EXCEPT !.said = q.said + 1]
<1>1. q.at = "answered" /\ threads' = threads
  BY DEF BackendSays
<1>2. /\ IsCall(q) /\ q.said \in Nat /\ q.thread \in Nat /\ q.thread # 0
      /\ Good(q.thread, q.log, question) /\ AllGood(q.before, question)
  BY <1>1, CallIs
<1>3. CASE question' = [question EXCEPT ![s] = r]
  <2>1. /\ r.at = "answered" /\ r.thread = q.thread /\ r.log = q.log /\ r.before = q.before
        /\ r.said = q.said + 1 /\ r.aborted = q.aborted
        /\ r \in [at : Places, thread : Nat, log : {q.log}, before : {q.before}, said : Nat,
                  aborted : {q.aborted}]
    <3>1. \A d \in [at : Places, thread : Nat, log : {q.log}, before : {q.before}, said : Nat,
                    aborted : {q.aborted}], n \in Nat :
             LET e == [d EXCEPT !.said = n]
             IN  /\ e.at = d.at /\ e.thread = d.thread /\ e.log = d.log /\ e.before = d.before
                 /\ e.said = n /\ e.aborted = d.aborted
                 /\ e \in [at : Places, thread : Nat, log : {q.log}, before : {q.before}, said : Nat,
                           aborted : {q.aborted}]
      OBVIOUS
    <3>2. q \in [at : Places, thread : Nat, log : {q.log}, before : {q.before}, said : Nat,
                 aborted : {q.aborted}] /\ q.said + 1 \in Nat
      BY <1>2 DEF IsCall
    <3> QED
      BY <1>1, <3>1, <3>2
  <2> HIDE DEF r
  <2>2. IsCall(r) /\ Later(q, r)
    BY <1>1, <1>2, <2>1 DEF IsCall, Later
  <2>3. Onward /\ question'[s] = r
    BY <1>3, <2>2, OneOnward
  <2>4. CallsFine
    BY <1>2, <1>3, <2>1, <2>2, <2>3, GoodOnward, OneCall
  <2>5. CASE conversations' = conversations /\ selected' = selected /\ savedSelected' = savedSelected
    BY <1>1, <2>4, <2>5, ChatMoves DEF ChatInd
  <2>6. CASE /\ Heard(q.thread) /\ Known(q.thread)
             /\ UpdateRefsAndDispatch(q.thread,
                    ProcessSystemResponseMessage(conversations[q.thread], s, <<k>>))
    <3> DEFINE old == conversations[q.thread]
               log == ProcessSystemResponseMessage(old, s, <<k>>)
    <3>1. q.thread = selected.id /\ selected.id \in DOMAIN conversations
      BY <2>6 DEF Heard, Known
    <3>2. Good(q.thread, old, question)
      BY <3>1 DEF ChatInd, AllGood
    <3>3. Good(q.thread, old, question')
      BY <2>3, <3>2, GoodOnward
    <3>4. /\ Good(q.thread, Append(old, Answer(s, <<k>>)), question')
          /\ old # <<>> => Good(q.thread, Continued(old, <<k>>), question')
      BY <1>1, <1>2, <2>1, <2>3, <3>2, <3>3, TokenGood
    <3>5. Good(selected.id, log, question')
      BY <3>1, <3>4 DEF ProcessSystemResponseMessage, Answering
    <3>6. UpdateRefsAndDispatch(selected.id, log)
      BY <2>6, <3>1
    <3> HIDE DEF log
    <3> QED
      BY <1>1, <2>3, <2>4, <3>1, <3>5, <3>6, DispatchKeeps
  <2> QED
    <3>1. \/ HandleWebSocketMessage(s, "response", <<k>>)
          \/ UNCHANGED <<conversations, selected, savedSelected>>
          \/ question' = question
      BY DEF BackendSays
    <3>2. question' # question
      BY <1>2, <2>1, <2>3
    <3> QED
      BY <2>5, <2>6, <3>1, <3>2 DEF HandleWebSocketMessage
<1>4. CASE question' = question
  <2>1. CallsFine /\ Onward
    BY <1>4, SameCalls
  <2>2. CASE conversations' = conversations /\ selected' = selected /\ savedSelected' = savedSelected
    BY <1>1, <2>1, <2>2, ChatMoves DEF ChatInd
  <2>3. ASSUME NEW kind \in {"step", "error", "trace"}, Heard(q.thread), Known(q.thread),
               UpdateRefsAndDispatch(q.thread, ProcessOtherMessage(conversations[q.thread], s, kind))
        PROVE  ChatInd'
    <3> DEFINE old == conversations[q.thread]
               log == ProcessOtherMessage(old, s, kind)
    <3>1. q.thread = selected.id /\ selected.id \in DOMAIN conversations
      BY <2>3 DEF Heard, Known
    <3>2. Good(q.thread, old, question') /\ question'[s].thread = q.thread
      BY <1>4, <3>1 DEF ChatInd, AllGood
    <3>3. Good(q.thread, Append(old, Answer(s, <<>>)), question')
      BY <1>2, <3>2, SilentGood
    <3>4. Good(selected.id, log, question') /\ UpdateRefsAndDispatch(selected.id, log)
      BY <2>3, <3>1, <3>2, <3>3 DEF ProcessOtherMessage
    <3> HIDE DEF log
    <3> QED
      BY <1>1, <2>1, <3>1, <3>4, DispatchKeeps
  <2> QED
    <3>1. \/ \E kind \in {"step", "error", "trace"} : HandleWebSocketMessage(s, kind, <<>>)
          \/ UNCHANGED <<conversations, selected, savedSelected>>
          \/ question' = [question EXCEPT ![s] = r]
      BY DEF BackendSays
    <3>2. question' # [question EXCEPT ![s] = r]
      <4>1. ASSUME question' = [question EXCEPT ![s] = r] PROVE FALSE
        <5>1. question[s] = r
          BY <1>4, <4>1 DEF ChatInd
        <5>2. r.said = q.said + 1
          BY <1>2 DEF IsCall
        <5> HIDE DEF r
        <5> QED
          BY <1>2, <5>1, <5>2
      <4> QED
        BY <4>1
    <3>3. ASSUME NEW kind \in {"step", "error", "trace"}, HandleWebSocketMessage(s, kind, <<>>)
          PROVE  ChatInd'
      <4>1. kind # "response"
        OBVIOUS
      <4> QED
        BY <2>2, <2>3, <3>3, <4>1 DEF HandleWebSocketMessage
    <3> QED
      BY <2>2, <3>1, <3>2, <3>3
<1> QED
  BY <1>3, <1>4 DEF BackendSays

LEMMA AnswersKeep == ASSUME ChatInd, NEW s \in Questions, AnswersComeIn(s) PROVE ChatInd'
BY ChunkKeeps, EndKeeps, ConnectedKeeps, SaysKeeps DEF AnswersComeIn

\* The user's other inputs, timers and the socket.
LEMMA StopKeeps == ASSUME ChatInd, StopOverHttp PROVE ChatInd'
<1>1. /\ question' = [s \in Questions |->
              IF question[s].at \in {"fetching", "reading"} THEN [question[s] EXCEPT !.aborted = TRUE]
              ELSE question[s]]
      /\ UNCHANGED <<conversations, selected, savedSelected, threads>>
  BY DEF StopOverHttp
<1>2. ASSUME NEW s \in Questions
      PROVE  /\ IsCall(question'[s]) /\ question[s].said \in Nat /\ question'[s].said \in Nat
             /\ Later(question[s], question'[s])
             /\ question'[s].thread = question[s].thread /\ question'[s].log = question[s].log
             /\ question'[s].before = question[s].before
  <2> DEFINE q == question[s]
             r == [q EXCEPT !.aborted = TRUE]
  <2>1. IsCall(q)
    BY CallIs
  <2>2. /\ r.at = q.at /\ r.thread = q.thread /\ r.log = q.log /\ r.before = q.before
        /\ r.said = q.said
        /\ r \in [at : Places, thread : Nat, log : {q.log}, before : {q.before}, said : Nat,
                  aborted : {r.aborted}]
    BY <2>1 DEF IsCall
  <2>3. question'[s] = r \/ question'[s] = q
    BY <1>1
  <2> HIDE DEF r
  <2>4. IsCall(r) /\ Later(q, r) /\ Later(q, q) /\ q.said \in Nat
    BY <2>1, <2>2 DEF IsCall, Later
  <2> QED
    BY <2>1, <2>2, <2>3, <2>4
<1>3. CallsFine
  BY <1>1, <1>2 DEF CallsFine, Onward
<1> QED
  BY <1>1, <1>3, ChatMoves DEF ChatInd

LEMMA DeleteKeeps == ASSUME ChatInd, DeleteMessage PROVE ChatInd'
<1> DEFINE log == selected.log
<1>1. /\ selected \in [id : Nat, log : Seq(Messages)] /\ selected.id # 0
      /\ Good(selected.id, log, question) /\ log \in Seq(Messages)
      /\ Len(log) \in Nat /\ DOMAIN log = 1 .. Len(log)
  BY LenProperties DEF ChatInd, Shown, Good
<1>2. PICK i \in DOMAIN log, n \in {1, 2} :
         /\ i + n <= Len(log) + 1
         /\ selected' = [selected EXCEPT !.log = SubSeq(log, 1, i - 1) \o SubSeq(log, i + n, Len(log))]
  <2>1. PICK i \in DOMAIN log :
           LET n == IF i < Len(log) /\ log[i + 1].role = "assistant" THEN 2 ELSE 1
           IN  selected' = [selected EXCEPT !.log = SubSeq(@, 1, i - 1) \o SubSeq(@, i + n, Len(@))]
    BY DEF DeleteMessage
  <2>2. i \in 1 .. Len(log)
    BY <1>1
  <2>3. CASE i < Len(log) /\ log[i + 1].role = "assistant"
    <3>1. i + 2 <= Len(log) + 1
      BY <1>1, <2>2, <2>3
    <3>2. selected' = [selected EXCEPT !.log = SubSeq(log, 1, i - 1) \o SubSeq(log, i + 2, Len(log))]
      BY <2>1, <2>3
    <3> QED
      BY <3>1, <3>2
  <2>4. CASE ~(i < Len(log) /\ log[i + 1].role = "assistant")
    <3>1. i + 1 <= Len(log) + 1
      BY <1>1, <2>2
    <3>2. selected' = [selected EXCEPT !.log = SubSeq(log, 1, i - 1) \o SubSeq(log, i + 1, Len(log))]
      BY <2>1, <2>4
    <3> QED
      BY <3>1, <3>2
  <2> QED
    BY <2>3, <2>4
<1> DEFINE a == SubSeq(log, 1, i - 1)
           b == SubSeq(log, i + n, Len(log))
           part == a \o b
           from == [j \in Nat |-> IF j < i THEN j ELSE j + n]
<1>3. i \in 1 .. Len(log) /\ n \in Nat \ {0} /\ i - 1 \in 0 .. Len(log) /\ i + n \in Nat \ {0}
      /\ Len(log) \in 0 .. Len(log) /\ 1 \in Nat \ {0}
  BY <1>1
<1>4. /\ a \in Seq(Messages) /\ Len(a) = i - 1
      /\ \A j \in 1 .. Len(a) : 1 + j - 1 \in DOMAIN log /\ a[j] = log[1 + j - 1]
  <2>1. /\ a \in Seq(Messages) /\ Len(a) = IF 1 <= i - 1 THEN (i - 1) - 1 + 1 ELSE 0
        /\ \A j \in 1 .. Len(a) : 1 + j - 1 \in DOMAIN log /\ a[j] = log[1 + j - 1]
    BY <1>1, <1>3, Sub
  <2> QED
    BY <1>3, <2>1
<1>5. /\ b \in Seq(Messages) /\ Len(b) \in Nat
      /\ \A j \in 1 .. Len(b) : (i + n) + j - 1 \in DOMAIN log /\ b[j] = log[(i + n) + j - 1]
  BY <1>1, <1>3, Sub, LenProperties
<1> HIDE DEF log, a, b
<1>6. /\ part \in Seq(Messages) /\ Len(part) = Len(a) + Len(b)
      /\ \A j \in 1 .. Len(a) : part[j] = a[j]
      /\ \A j \in 1 .. Len(b) : part[Len(a) + j] = b[j]
  <2>1. a \in Seq(Messages) /\ b \in Seq(Messages)
    BY <1>4, <1>5
  <2> QED
    BY <2>1, ConcatIs
<1> HIDE DEF part
<1>7. DOMAIN part = 1 .. i - 1 + Len(b)
  BY <1>4, <1>6, LenProperties
<1>8. ASSUME NEW j \in DOMAIN part PROVE from[j] \in DOMAIN log /\ part[j] = log[from[j]]
  <2>1. j \in Nat /\ from[j] = IF j < i THEN j ELSE j + n
    BY <1>3, <1>5, <1>7
  <2> HIDE DEF from
  <2>2. CASE j < i
    <3>1. j \in 1 .. Len(a) /\ 1 + j - 1 = j
      BY <1>3, <1>4, <1>7, <2>2
    <3> QED
      BY <1>4, <1>6, <2>1, <2>2, <3>1
  <2>3. CASE ~(j < i)
    <3>1. /\ j - (i - 1) \in 1 .. Len(b) /\ (i - 1) + (j - (i - 1)) = j
          /\ (i + n) + (j - (i - 1)) - 1 = j + n
      <4>1. i \in Nat /\ n \in Nat /\ Len(b) \in Nat /\ j \in 1 .. i - 1 + Len(b) /\ ~(j < i)
        BY <1>3, <1>5, <1>7, <2>3
      <4> DEFINE l == Len(b)
      <4> HIDE DEF l
      <4>2. /\ j - (i - 1) \in 1 .. l /\ (i - 1) + (j - (i - 1)) = j
            /\ (i + n) + (j - (i - 1)) - 1 = j + n
        BY <4>1 DEF l
      <4> QED
        BY <4>2 DEF l
    <3>2. part[j] = b[j - (i - 1)]
      BY <1>4, <1>6, <3>1
    <3>3. j + n \in DOMAIN log /\ b[j - (i - 1)] = log[j + n]
      BY <1>5, <3>1
    <3> QED
      BY <2>1, <2>3, <3>2, <3>3
  <2> QED
    BY <2>2, <2>3
<1>9. \A j, l \in DOMAIN part : j < l => from[j] < from[l]
  <2>1. \A j \in DOMAIN part : j \in Nat /\ from[j] = IF j < i THEN j ELSE j + n
    BY <1>3, <1>5, <1>7
  <2> HIDE DEF from
  <2> QED
    BY <1>3, <2>1
<1> HIDE DEF from
<1>10. Good(selected.id, part, question)
  <2>1. \A j \in DOMAIN part : from[j] \in DOMAIN log /\ part[j] = log[from[j]]
    BY <1>8
  <2>2. part \in Seq(Messages) /\ Good(selected.id, log, question)
    BY <1>1, <1>6
  <2> QED
    BY <1>9, <2>1, <2>2, PartGood
<1>11. selected' = [selected EXCEPT !.log = part]
  BY <1>2 DEF part, a, b
<1>12. question' = question /\ savedSelected' = selected' /\ threads' = threads
       /\ conversations' = Mapped(conversations, selected.id, selected'.log)
  BY DEF DeleteMessage
<1>13. Shown(selected', question') /\ selected'.id # 0 /\ selected'.log = part
  BY <1>1, <1>6, <1>10, <1>11, <1>12 DEF Shown
<1>14. AllGood(conversations', question')
  BY <1>10, <1>12, <1>13, MappedGood DEF ChatInd
<1>15. CallsFine
  BY <1>12, SameCalls
<1> QED
  BY <1>12, <1>13, <1>14, <1>15, ChatMoves DEF ChatInd

LEMMA NewShown ==
    ASSUME NEW c \in Nat, NEW qs
    PROVE  Shown([id |-> c, log |-> <<>>], qs) /\ [id |-> c, log |-> <<>>].id = c
<1> DEFINE none == <<>>
<1>1. Good(c, none, qs)
  BY NoneGood
<1> HIDE DEF none
<1>2. Shown([id |-> c, log |-> none], qs) /\ [id |-> c, log |-> none].id = c
  BY <1>1, ShownIs
<1> QED
  BY <1>2 DEF none

LEMMA ThreadsKeep ==
    ASSUME ChatInd, SelectConversation \/ NewConversation \/ DeleteConversation
    PROVE  ChatInd'
<1>1. question' = question
  BY DEF SelectConversation, NewConversation, DeleteConversation, Switches
<1>2. CallsFine
  BY <1>1, SameCalls
<1>3. threads \in Nat /\ threads + 1 \in Nat \ {0} /\ DOMAIN conversations \subseteq Nat \ {0}
      /\ \A c \in DOMAIN conversations : Good(c, conversations[c], question')
      /\ Good(threads + 1, <<>>, question') /\ Good(0, <<>>, question')
  BY <1>1, NoneGood DEF ChatInd, AllGood
<1>4. threads' \in Nat
  BY <1>3 DEF SelectConversation, NewConversation, DeleteConversation
<1>5. \A c \in DOMAIN conversations :
         LET d == [id |-> c, log |-> conversations[c]] IN Shown(d, question') /\ d.id # 0
  BY <1>3 DEF Shown, Good
<1>6. LET d == [id |-> threads + 1, log |-> <<>>] IN Shown(d, question') /\ d.id # 0
  BY <1>3, NewShown
<1>7. Shown(NoThread, question')
  <2>1. 0 \in Nat
    OBVIOUS
  <2> QED
    BY <1>3, <2>1, NewShown DEF NoThread
<1>8. Shown(selected', question') /\ selected'.id # 0
  BY <1>5, <1>6 DEF SelectConversation, NewConversation, DeleteConversation, Switches
<1>9. Shown(savedSelected', question')
  BY <1>7, <1>8 DEF SelectConversation, NewConversation, DeleteConversation
<1>10. CASE NewConversation
  <2>1. conversations' = [c \in DOMAIN conversations \cup {threads + 1} |->
                              IF c \in DOMAIN conversations THEN conversations[c] ELSE <<>>]
    BY <1>10 DEF NewConversation, Known
  <2> DEFINE cs == conversations'
             none == <<>>
  <2>2. Good(threads + 1, none, question')
    BY NoneGood
  <2>3. cs = [c \in DOMAIN conversations \cup {threads + 1} |->
                 IF c \in DOMAIN conversations THEN conversations[c] ELSE none]
    BY <2>1
  <2> HIDE DEF cs, none
  <2>4. DOMAIN cs = DOMAIN conversations \cup {threads + 1} /\ cs = [c \in DOMAIN cs |-> cs[c]]
    BY <2>3
  <2>5. \A c \in DOMAIN cs : Good(c, cs[c], question')
    BY <1>3, <2>2, <2>3, <2>4
  <2>6. AllGood(conversations', question')
    BY <1>3, <2>4, <2>5 DEF AllGood, cs
  <2> QED
    BY <1>2, <1>4, <1>8, <1>9, <2>6, ChatMoves
<1>11. CASE DeleteConversation
  <2>1. PICK c : conversations' = [d \in DOMAIN conversations \ {c} |-> conversations[d]]
    BY <1>11 DEF DeleteConversation
  <2>2. AllGood(conversations', question')
    BY <1>3, <2>1 DEF AllGood
  <2> QED
    BY <1>2, <1>4, <1>8, <1>9, <2>2, ChatMoves
<1>12. CASE SelectConversation
  <2>1. conversations' = conversations
    BY <1>12 DEF SelectConversation
  <2> QED
    BY <1>2, <1>4, <1>8, <1>9, <2>1, ChatMoves
<1> QED
  BY <1>10, <1>11, <1>12

LEMMA ReloadKeeps == ASSUME ChatInd, Reload PROVE ChatInd'
<1>1. /\ question' = [s \in Questions |->
              IF question[s].at \in {"connecting", "fetching", "reading"} THEN Over(s) ELSE question[s]]
      /\ savedSelected' = selected'
  BY DEF Reload
<1>2. ASSUME NEW s \in Questions
      PROVE  /\ IsCall(question'[s]) /\ question[s].said \in Nat /\ question'[s].said \in Nat
             /\ Later(question[s], question'[s])
             /\ \/ /\ question'[s].thread = question[s].thread /\ question'[s].log = question[s].log
                   /\ question'[s].before = question[s].before
                \/ question'[s].log = <<>> /\ question'[s].before = <<>>
  <2>1. CASE question[s].at \in {"connecting", "fetching", "reading"}
    <3>1. question'[s] = Over(s)
      BY <1>1, <2>1
    <3>2. /\ IsCall(Over(s)) /\ Later(question[s], Over(s)) /\ Over(s).log = <<>> /\ Over(s).before = <<>>
      BY <2>1, CallEnds
    <3> QED
      BY <3>1, <3>2, CallIs DEF IsCall
  <2>2. CASE question[s].at \notin {"connecting", "fetching", "reading"}
    <3>1. question'[s] = question[s]
      BY <1>1, <2>2
    <3>2. IsCall(question[s]) /\ question[s].said \in Nat
      BY CallIs
    <3>3. Later(question[s], question[s])
      BY <3>2 DEF Later
    <3> QED
      BY <3>1, <3>2, <3>3
  <2> QED
    BY <2>1, <2>2
<1>3. CallsFine /\ Onward
  BY <1>1, <1>2, NoneGood, NoneAllGood DEF CallsFine, Onward
<1>4. Shown(selected', question') /\ selected'.id # 0 /\ threads' \in Nat
      /\ (conversations' = conversations \/ AllGood(conversations', question'))
  <2>1. CASE savedSelected = NoThread
    <3>1. /\ threads' = threads + 1 /\ selected' = [id |-> threads + 1, log |-> <<>>]
          /\ conversations' = [c \in {threads + 1} |-> <<>>]
      BY <2>1 DEF Reload
    <3>2. threads \in Nat /\ threads + 1 \in Nat \ {0} /\ Good(threads + 1, <<>>, question')
      BY NoneGood DEF ChatInd
    <3>3. AllGood([c \in {threads + 1} |-> <<>>], question')
      BY <3>2 DEF AllGood
    <3>4. Shown(selected', question') /\ selected'.id # 0
      BY <3>1, <3>2, EmptySeq DEF Shown
    <3> QED
      BY <3>1, <3>2, <3>3, <3>4
  <2>2. CASE savedSelected # NoThread
    <3>1. selected' = savedSelected /\ UNCHANGED <<conversations, threads>>
      BY <2>2 DEF Reload
    <3>2. Shown(savedSelected, question')
      BY <1>3, GoodOnward DEF ChatInd, Shown
    <3>3. savedSelected.id # 0
      <4>1. /\ savedSelected \in [id : Nat, log : Seq(Messages)]
            /\ (savedSelected.log # <<>> => savedSelected.id # 0)
        BY DEF ChatInd, Shown, Good
      <4>2. savedSelected.id = 0 => savedSelected = [id |-> 0, log |-> <<>>]
        BY <4>1
      <4> QED
        BY <2>2, <4>2 DEF NoThread
    <3> QED
      BY <3>1, <3>2, <3>3 DEF ChatInd
  <2> QED
    BY <2>1, <2>2
<1> QED
  BY <1>1, <1>3, <1>4, ChatMoves

LEMMA ChatStarts == LegacyInit => ChatInd
<1> SUFFICES ASSUME LegacyInit PROVE ChatInd
  OBVIOUS
<1>1. \A s \in Questions : question[s] = Unasked
  BY DEF LegacyInit
<1>2. IsCall(Unasked) /\ Unasked.thread = 0 /\ Unasked.log = <<>> /\ Unasked.before = <<>>
  BY DEF Unasked, IsCall, Places
<1>3. \A s \in Questions : CallFine(question[s], question)
  BY <1>1, <1>2, NoneGood, NoneAllGood DEF CallFine
<1>4. Shown(selected, question) /\ selected.id # 0 /\ Shown(savedSelected, question)
  BY NoneGood, EmptySeq DEF LegacyInit, Shown
<1>5. AllGood(conversations, question)
  BY NoneGood DEF LegacyInit, AllGood
<1> QED
  BY <1>3, <1>4, <1>5 DEF LegacyInit, ChatInd

LEMMA ChatSteps == ChatInd /\ [LegacyNext]_legacyVars => ChatInd'
<1> SUFFICES ASSUME ChatInd, [LegacyNext]_legacyVars PROVE ChatInd'
  OBVIOUS
<1>1. ASSUME NEW s \in Questions, AskQuestion(s) \/ AskAgain(s) \/ EditMessage(s) \/ AnswersComeIn(s)
      PROVE  ChatInd'
  BY <1>1, AsksKeep, AnswersKeep
<1>2. ASSUME UNCHANGED <<question, conversations, selected, savedSelected, threads>> PROVE ChatInd'
  BY <1>2, SameCalls, ChatMoves DEF ChatInd
<1>3. CASE \/ \E c \in Threads : TimerFires(c)
           \/ ControllerReset \/ StopOverSocket \/ SocketOpens \/ SocketCloses \/ UNCHANGED legacyVars
  BY <1>2, <1>3 DEF TimerFires, ControllerReset, StopOverSocket, SocketOpens, SocketCloses, legacyVars
<1> QED
  BY <1>1, <1>3, StopKeeps, DeleteKeeps, ThreadsKeep, ReloadKeeps DEF LegacyNext

LEMMA HomeIs ==
    ASSUME NEW c, Good(c.id, c.log, question)
    PROVE  Home(c) /\ InOrder(c.log)
BY DEF Good, Fits, TokenFits, Home

(* AnswersStayHome is an invariant, for any numbers of questions, tokens, conversations and
   reconnections: what handleSend and handleWebSocketMessage write after an await or a
   callback goes into the conversation of its question, and into no other, each token once
   and in order. *)
THEOREM AnswersComeHome == LegacySpec => []AnswersStayHome
<1>1. ChatInd => AnswersStayHome
  <2> SUFFICES ASSUME ChatInd,
                      NEW c \in {selected, savedSelected}
                            \cup {[id |-> d, log |-> conversations[d]] : d \in DOMAIN conversations}
               PROVE  Home(c) /\ InOrder(c.log)
    BY DEF AnswersStayHome
  <2>1. Good(c.id, c.log, question)
    BY DEF ChatInd, Shown, AllGood
  <2> QED
    BY <2>1, HomeIs
<1> QED
  BY <1>1, ChatStarts, ChatSteps, PTL DEF LegacySpec

----------------------------------------------------------------------------
(***************************************************************************)
(* The three together.                                                     *)
(***************************************************************************)

(* LegacyAnswersArrive is an invariant of the legacy chat, whose three parts share no
   state: the answer that comes home is revealed to the last word, and what the agent asks
   meanwhile has its time. *)
THEOREM AnswersArrive == LegacyUISpec => []LegacyAnswersArrive
BY AnswersComeHome, WordsArrive, PromptsAreDoneOnce, PTL DEF LegacyUISpec, LegacyAnswersArrive
=============================================================================
