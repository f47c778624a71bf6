----------------------------- MODULE TraceStats -----------------------------
(***************************************************************************)
(* computeTraceStats and computeTrendBuckets of lib/observability.ts: one  *)
(* pass over the lines of the trace file gathers a bucket per trace, then  *)
(* failures, percentiles, the trend and the parity of the file are         *)
(* computed from the buckets.  Events of several traces and components     *)
(* interleave, carry their time at several places or nowhere, and tell of  *)
(* a failure in several words.  Money is left out: the sums of costs are   *)
(* taken where those of requests are.                                      *)
(***************************************************************************)
EXTENDS Integers, FiniteSets, FiniteSetsExt, SequencesExt

CONSTANTS
    TraceLines,     \* lines a trace file may hold
    MaxTraceLines,  \* MAX_TRACE_LINES
    MaxLines,       \* bound: lines of a file
    TrendBuckets,   \* TREND_BUCKET_COUNT
    Window,         \* parityWindowMinutes
    ManySkipped,    \* the 5 of the parity check
    MsPerSecond,    \* 1000
    NamedTools,     \* tools whose name says so
    Malformed,      \* a line that is no JSON
    Missing         \* null

\* Another line is a record of what the first of the places looked at says: its trace,
\* its time and the unit of that, its duration, or the start of its span, its type, its
\* tool, the words of its texts, and whether it failed by a state that no text repeats.
TraceRecords == TraceLines \ {Malformed}

ASSUME StatsAssumption ==
    /\ Missing \notin Int
    /\ \A l \in TraceRecords : {l.time, l.since, l.lasted} \subseteq Nat \cup {Missing}
    /\ {MsPerSecond, Window} \subseteq Nat
    /\ TrendBuckets \in Nat \ {0}

VARIABLES
    readLines,  \* lines of the file that were read
    traces,     \* trace -> TraceBucket
    tools,      \* counters per tool, and the time of a trace's last tool event
    counters    \* linesProcessed and skippedLines

statsVars == <<readLines, traces, tools, counters>>

NoTrace == [started |-> Missing, ended |-> Missing, fallback |-> Missing,
            failed |-> FALSE, overflow |-> FALSE, categories |-> {}]

TraceIds == {l.trace : l \in TraceRecords} \ {Missing}
ToolNames == {l.tool : l \in TraceRecords} \ {Missing}

StatsInit ==
    /\ readLines = <<>>
    /\ traces = [t \in {} |-> NoTrace]
    /\ tools = [used   |-> [n \in ToolNames |-> 0],
                failed |-> [n \in ToolNames |-> 0],
                last   |-> [t \in TraceIds |-> Missing]]
    /\ counters = [processed |-> 0, skipped |-> 0]

----------------------------------------------------------------------------
Least(a, b)    == IF a = Missing \/ b < a THEN b ELSE a
Greatest(a, b) == IF a = Missing \/ b > a THEN b ELSE a

\* The time of an event in milliseconds, and how long it lasted: as it says, or since
\* the start of its span, which seconds are taken for.
pickTimestampMs(e) ==
    IF e.time = Missing \/ e.unit = "ms" THEN e.time ELSE e.time * MsPerSecond
pickDurationMs(e) ==
    IF e.lasted # Missing THEN e.lasted
    ELSE IF e.time = Missing \/ e.since = Missing \/ e.time < e.since THEN Missing
    ELSE (e.time - e.since) * MsPerSecond

isToolEvent(e) == e.type \in {"tool_start", "tool_end"} \/ e.tool \in NamedTools

isFailedEvent(e)      == e.state = "failed" \/ e.words \cap {"fail", "timeout"} # {}
hasContextOverflow(e) == "context window" \in e.words

\* The first category whose word is there, with the other categories like them; a
\* failure that only a state tells has none.  What a tool returned is read for it too.
classifyErrorCategory(e) ==
    IF e.words \cap {"context window", "context window returned"} # {} THEN {"context_overflow"}
    ELSE IF "timeout" \in e.words THEN {"timeout"}
    ELSE IF e.type \in {"tool_start", "tool_end"} THEN {"tool_failure"}
    ELSE IF e.words # {} \/ e.type # "" THEN {"other"} ELSE {}

\* The bucket of a trace after one more event.
Grown(b, e, started, ended) ==
    LET lasted == pickDurationMs(e)
    IN  [started    |-> started,
         ended      |-> ended,
         fallback   |-> IF e.time # Missing \/ lasted = Missing THEN b.fallback
                        ELSE Greatest(b.fallback, lasted),
         failed     |-> b.failed \/ isFailedEvent(e),
         overflow   |-> b.overflow \/ hasContextOverflow(e),
         categories |-> b.categories
                           \cup (IF isFailedEvent(e) THEN classifyErrorCategory(e) ELSE {})
                           \cup (IF hasContextOverflow(e) THEN {"context_overflow"} ELSE {})]
MutantGather(b, e) ==  \* an event that lasts does not move the end
    IF e.time = Missing THEN Grown(b, e, b.started, b.ended)
    ELSE LET time == pickTimestampMs(e) IN Grown(b, e, Least(b.started, time), time)
Gather(b, e) ==
    IF e.time = Missing THEN Grown(b, e, b.started, b.ended)
    ELSE LET time   == pickTimestampMs(e)
             lasted == pickDurationMs(e)
             end    == IF lasted = Missing THEN time ELSE time + lasted
         IN  Grown(b, e, Least(b.started, time), Greatest(b.ended, end))

BucketOf(t) == IF t \in DOMAIN traces THEN traces[t] ELSE NoTrace

\* A call is counted by its begin, a failure by what is no begin; an event without a
\* type counts for both.
CountTool(e) ==
    LET time == pickTimestampMs(e)
    IN  IF e.tool = Missing \/ ~isToolEvent(e) THEN tools
        ELSE [used   |-> [tools.used EXCEPT ![e.tool] = @ + (IF e.type \in {"tool_start", ""} THEN 1 ELSE 0)],
              failed |-> [tools.failed EXCEPT ![e.tool] =
                            @ + (IF isFailedEvent(e) /\ e.type # "tool_start" THEN 1 ELSE 0)],
              last   |-> IF time = Missing THEN tools.last
                         ELSE [tools.last EXCEPT ![e.trace] = Greatest(@, time)]]

Skips(line) == line = Malformed \/ line.trace = Missing

ReadLine ==
    \E line \in TraceLines :
        /\ Len(readLines) < MaxLines /\ counters.processed < MaxTraceLines
        /\ readLines' = Append(readLines, line)
        /\ IF Skips(line)
             THEN /\ counters' = [counters EXCEPT !.processed = @ + 1, !.skipped = @ + 1]
                  /\ UNCHANGED <<traces, tools>>
             ELSE /\ counters' = [counters EXCEPT !.processed = @ + 1]
                  /\ traces' = [t \in DOMAIN traces \cup {line.trace} |->
                                   IF t = line.trace THEN Gather(BucketOf(t), line) ELSE traces[t]]
                  /\ tools' = CountTool(line)

StatsNext == ReadLine

StatsSpec == StatsInit /\ [][StatsNext]_statsVars

----------------------------------------------------------------------------
\* What computeTraceStats returns.
duration(b) == IF b.started # Missing THEN b.ended - b.started ELSE b.fallback
Timed  == {t \in DOMAIN traces : traces[t].started # Missing}

\* The elements of S by their numbers, least first.
Ranked(S, numbers) ==
    CHOOSE f \in [1 .. Cardinality(S) -> S] :
        IsInjective(f) /\ \A i, j \in DOMAIN f : i < j => numbers[f[i]] <= numbers[f[j]]
durations ==
    LET lasted == {t \in DOMAIN traces : duration(traces[t]) # Missing}
        times  == [t \in lasted |-> duration(traces[t])]
        order  == Ranked(lasted, times)
    IN  [i \in 1 .. Cardinality(lasted) |-> times[order[i]]]

\* percentile: the nearest rank, of p in per cent.
Ceil(n, d) == (n + d - 1) \div d
percentile(sorted, p) ==
    IF sorted = <<>> THEN Missing
    ELSE sorted[IF Ceil(p * Len(sorted), 100) = 0 THEN 1 ELSE Ceil(p * Len(sorted), 100)]

requests       == Cardinality(DOMAIN traces)
failedRequests == Cardinality({t \in DOMAIN traces : traces[t].failed})

\* topErrorCategories: the requests of each category.
Categories == UNION {traces[t].categories : t \in DOMAIN traces}
errorCategories == [c \in Categories |-> Cardinality({t \in DOMAIN traces : c \in traces[t].categories})]

\* parity: the requests and those with tool events of the window that ends with the
\* latest time of the file, and whether the file could be read.
Stamps == {pickTimestampMs(readLines[i]) :
              i \in {j \in DOMAIN readLines : ~Skips(readLines[j])}} \ {Missing}
threshold == Max(Stamps) - Window
recentRuns ==
    Cardinality({t \in DOMAIN traces : traces[t].ended # Missing /\ traces[t].ended >= threshold})
recentToolEvents ==
    Cardinality({t \in TraceIds : tools.last[t] # Missing /\ tools.last[t] >= threshold})
parityStatus ==
    IF \/ counters.processed > 0 /\ requests = 0
       \/ counters.skipped > 0 /\ counters.skipped >= Max({ManySkipped, counters.processed \div 5})
      THEN "warning" ELSE "ok"

\* computeTrendBuckets, of the traces that have a time.
trendStart == CHOOSE m \in {traces[t].started : t \in Timed} : \A t \in Timed : m <= traces[t].started
trendEnd == CHOOSE m \in {traces[t].ended : t \in Timed} : \A t \in Timed : m >= traces[t].ended
trendRange == trendEnd - trendStart
bucketCount ==
    IF trendRange = 0 THEN 1
    ELSE IF Cardinality(Timed) < TrendBuckets THEN Cardinality(Timed) ELSE TrendBuckets
BucketIndex(t) ==
    LET i == IF trendRange = 0 THEN 0 ELSE ((traces[t].started - trendStart) * bucketCount) \div trendRange
    IN  IF i < bucketCount THEN i ELSE bucketCount - 1

trendBuckets ==
    IF Cardinality(Timed) < 3 THEN {}
    ELSE {b \in {[index    |-> i,
                  requests |-> Cardinality({t \in Timed : BucketIndex(t) = i}),
                  failures |-> Cardinality({t \in Timed : BucketIndex(t) = i /\ traces[t].failed})]
                 : i \in 0 .. bucketCount - 1} : b.requests > 0}

----------------------------------------------------------------------------
EventsOf(t)    == {readLines[i] : i \in {j \in DOMAIN readLines : ~Skips(readLines[j]) /\ readLines[j].trace = t}}
TimesOf(t)     == {pickTimestampMs(e) : e \in EventsOf(t)} \ {Missing}
LastsOf(t)     == {pickDurationMs(e) : e \in {x \in EventsOf(t) : x.time # Missing}} \ {Missing}
SumOver(numbers, S) == MapThenSumSet(LAMBDA x : numbers[x], S)

(* The dashboard adds up, in whatever order the events of interleaved traces were
   written: a request is a trace that was named, and failed if one of its events was.  It
   is never said to be shorter than the time between two of its events, nor than from one
   of them to the end of one that tells how long it lasted, and never longer than from one
   to another by more than what one of them lasted (the last span of a trace is counted
   twice, where its length is taken from the start of the span to the time of the event).
   The percentiles are durations that occurred, in order; each request that has a time is in
   one bucket of the trend, failed there if it failed, however short the time they share is
   (a trend of less than a minute is divided like any other); no tool fails but in a failed
   request, each overflow is in its category, and no more recent requests have called tools
   than there were; a file of which no line could be used is never taken for good. *)
DashboardAddsUp ==
    /\ DOMAIN traces = {t \in TraceIds : EventsOf(t) # {}}
    /\ \A t \in DOMAIN traces :
          /\ traces[t].failed = \E e \in EventsOf(t) : isFailedEvent(e)
          /\ \A s, n \in TimesOf(t) : duration(traces[t]) >= s - n
          /\ \A e \in EventsOf(t), n \in TimesOf(t) : Missing \notin {e.time, e.lasted} =>
                duration(traces[t]) >= pickTimestampMs(e) + e.lasted - n
          /\ TimesOf(t) # {} =>
                \E s, n \in TimesOf(t), d \in LastsOf(t) \cup {0} : duration(traces[t]) <= s - n + d
          /\ traces[t].categories # {} => traces[t].failed \/ traces[t].overflow
    /\ durations # <<>> =>
          /\ percentile(durations, 50) <= percentile(durations, 95)
          /\ Cardinality({i \in DOMAIN durations : durations[i] <= percentile(durations, 50)})
                * 2 >= Len(durations)
    /\ Cardinality(Timed) >= 3 =>
          /\ SumOver([b \in trendBuckets |-> b.requests], trendBuckets) = Cardinality(Timed)
          /\ SumOver([b \in trendBuckets |-> b.failures], trendBuckets)
                = Cardinality({t \in Timed : traces[t].failed})
    /\ \A n \in ToolNames : tools.failed[n] > 0 => failedRequests > 0
    /\ {t \in DOMAIN traces : traces[t].overflow} # {} =>
          errorCategories["context_overflow"]
             >= Cardinality({t \in DOMAIN traces : traces[t].overflow})
    /\ Stamps # {} => recentToolEvents <= recentRuns
    /\ counters.processed > 0 /\ DOMAIN traces = {} => parityStatus = "warning"
=============================================================================
