---------------------------- MODULE WorkingMemory ----------------------------
(***************************************************************************)
(* Mid-loop compaction and repair of the message history of one request    *)
(* (src/cognitive_code_agent/memory/working.py).  A history is a sequence  *)
(* of messages; texts are abstracted away, what is kept is what the two    *)
(* algorithms look at: the kind of a message, the tool calls an assistant  *)
(* message declares, the call a tool result answers and whether the result *)
(* carries status "error".  The calls of a message are a set: their ids    *)
(* grow with the place in the message, which gives their order.            *)
(***************************************************************************)
EXTENDS Integers, Sequences, FiniteSetsExt

Human   == [kind |-> "human",  calls |-> {}, id |-> 0, error |-> FALSE]
System  == [kind |-> "system", calls |-> {}, id |-> 0, error |-> FALSE]
\* The assistant message compress_state inserts, marked "[Context Summary]:".
Summary == [kind |-> "summary", calls |-> {}, id |-> 0, error |-> FALSE]

Assistant(calls)  == [kind |-> "ai", calls |-> calls, id |-> 0, error |-> FALSE]
Result(id, error) == [kind |-> "tool", calls |-> {}, id |-> id, error |-> error]

IsResult(m) == m.kind = "tool"

----------------------------------------------------------------------------
\* The call ids one message declares, a history declares, a history answers.
DeclaredBy(m) == {c.id : c \in m.calls}
Declared(ms)  == UNION {DeclaredBy(ms[i]) : i \in DOMAIN ms}
Answered(ms)  == {ms[i].id : i \in {j \in DOMAIN ms : IsResult(ms[j])}}

\* Results whose call is nowhere in the history, calls without a result.
OrphanResults(ms) == {i \in DOMAIN ms : IsResult(ms[i]) /\ ms[i].id \notin Declared(ms)}
OpenCalls(ms)     == Declared(ms) \ Answered(ms)

----------------------------------------------------------------------------
From(ms, b) == SubSeq(ms, b + 1, Len(ms))

\* The k-th number of I, and the messages at the places I of a history, in their order.
Nth(I, k)       == CHOOSE i \in I : Cardinality({j \in I : j <= i}) = k
Selected(ms, I) == [k \in 1 .. Cardinality(I) |-> ms[Nth(I, k)]]

\* The two reasons the loop of _find_pair_boundary moves the cut back: it
\* falls before a result whose call is older than the cut, or right after an
\* assistant message some result behind the cut answers.
SplitsPair(ms, b) ==
    \/ IsResult(ms[b + 1]) /\ ms[b + 1].id \notin Declared(From(ms, b))
    \/ b > 1 /\ DeclaredBy(ms[b]) \cap Answered(From(ms, b)) # {}

\* The loop moves the cut back one message at a time until it splits no pair
\* or has moved 2 * retain messages: it stops at the latest such cut.
MutantPairBoundary(ms, retain) == Len(ms) - retain  \* never moves the cut
PairBoundary(ms, retain) ==
    LET naive == Len(ms) - retain
        low   == Max({1, naive - 2 * retain})
    IN  Max({b \in low .. naive : b = low \/ ~SplitsPair(ms, b)})

\* compress_state with a summary model that answers: the first message, one
\* summary for the evicted ones, the evicted error results, the recent ones.
Compress(ms, retain) ==
    LET cut    == PairBoundary(ms, retain)
        errors == {i \in 2 .. cut : ms[i].error}
    IN  IF Len(ms) <= retain + 1 \/ errors = 2 .. cut
        THEN ms
        ELSE <<ms[1], Summary>> \o Selected(ms, errors) \o From(ms, cut)

\* repair_message_history: drop orphaned results and calls without a result.
Repair(ms) ==
    LET kept    == Selected(ms, DOMAIN ms \ OrphanResults(ms))
        Trim(m) == [m EXCEPT !.calls = {c \in @ : c.id \in Answered(ms)}]
    IN  [i \in DOMAIN kept |-> Trim(kept[i])]
=============================================================================
