-------------------------- MODULE ResponseRecovery --------------------------
(***************************************************************************)
(* One chat request in _response_fn (agents/safe_tool_calling_agent.py):   *)
(* the streamed graph run, the context-reduction retry and the backoff     *)
(* retries of a transient failure, the probe of a degraded function, the   *)
(* ainvoke fallback, the compact-and-continue rounds and the last          *)
(* synthesis.  A graph run is one step: it ends, or it raises an exception *)
(* of some failure class, and which of the two is the environment's.       *)
(***************************************************************************)
EXTENDS Integers

CONSTANTS
    MaxRetries,        \* _RATE_LIMIT_MAX_RETRIES
    MaxRecoveryRounds  \* max_recovery_rounds of the mode's runtime

ASSUME RecoveryAssumption ==
    MaxRetries \in Nat \ {0} /\ MaxRecoveryRounds \in Nat

\* The classes _classify_failure returns.
FailureClass ==
    {"RECURSION_LIMIT", "TOOL_TIMEOUT", "TOOL_VALIDATION_ERROR", "TOOL_CALL_ID_MISMATCH",
     "DEGRADED_FUNCTION", "MEMORY_DEGRADED", "RATE_LIMITED", "CONTEXT_OVERFLOW",
     "SERVER_ERROR", "UNKNOWN_RUNTIME"}

AlwaysCompactRecoverable == {"RECURSION_LIMIT", "CONTEXT_OVERFLOW"}
Transient == {"SERVER_ERROR", "RATE_LIMITED"}

IsCompactRecoverable(class, hasProgress) ==
    class \in AlwaysCompactRecoverable \/ (class \in Transient /\ hasProgress)

VARIABLES
    pc,         \* the part of _response_fn that runs next
    failure,    \* the failure class it acts on, "none" before the first one
    exhausted,  \* observer: the last run to end ran out of steps or context
    retry,      \* attempts of the current retry loop
    round,      \* _recovery_round
    notes,      \* recovery_notes is not empty
    progress,   \* _measure_progress(state.messages, _recovery_checkpoint)
    content,    \* streamed tokens reached the client
    empty,      \* the run that ended the response had nothing to say
    answers,    \* texts of complete ainvoke runs yielded
    partials,   \* structured partial responses yielded
    completes,  \* task_complete activities emitted
    runs        \* graph runs started

recoveryVars == <<pc, failure, exhausted, retry, round, notes, progress, content, empty,
                  answers, partials, completes, runs>>

\* One stream, one context-reduction retry, the backoff retries, the ainvoke
\* attempts, the recovery rounds and the synthesis.
RunBudget == 3 + 2 * MaxRetries + MaxRecoveryRounds

\* runs is an observer; it stops counting just above the budget.
CountRun == runs' = IF runs <= RunBudget THEN runs + 1 ELSE runs

----------------------------------------------------------------------------
RecoveryInit ==
    /\ pc = "idle" /\ failure = "none" /\ retry = 0 /\ round = 0
    /\ notes = FALSE /\ progress = FALSE /\ content = FALSE /\ empty = FALSE
    /\ exhausted = FALSE
    /\ answers = 0 /\ partials = 0 /\ completes = 0 /\ runs = 0

\* A client calls the response function.
Request ==
    /\ pc = "idle"
    /\ pc' = "prepare"
    /\ UNCHANGED <<failure, exhausted, retry, round, notes, progress, content, empty,
                   answers, partials, completes, runs>>

\* Mode, runtime, skills, memory block, eviction summary and trimming; an
\* exception there reaches the outermost handler, which signals and re-raises.
Prepare ==
    /\ pc = "prepare"
    /\ \/ pc' = "stream" /\ UNCHANGED completes
       \/ pc' = "raised" /\ completes' = completes + 1
    /\ UNCHANGED <<failure, exhausted, retry, round, notes, progress, content, empty, answers, partials, runs>>

\* A run streams some tokens or none, on the request's own history: its tool
\* results may be visible in state.messages afterwards.
StreamSome ==
    /\ content' \in {content, TRUE}
    /\ progress' \in {progress, TRUE}
    /\ CountRun

\* Nothing streamed at all sends even a complete run to the ainvoke fallback.
StreamEnds ==
    /\ pc \in {"stream", "reduce", "backoff"}
    /\ StreamSome
    /\ retry' = 0 /\ exhausted' = FALSE
    /\ pc' = IF content' THEN "finish" ELSE "ainvoke"
    /\ UNCHANGED <<failure, round, notes, empty, answers, partials, completes>>

\* What follows a stream that is given up: a recovery round, the probe of a
\* degraded function whose id the error names, or the ainvoke fallback.
AfterStream(class, hasProgress) ==
    IF IsCompactRecoverable(class, hasProgress) THEN {"recover"}
    ELSE IF class = "DEGRADED_FUNCTION" THEN {"probe", "ainvoke"} ELSE {"ainvoke"}

\* The first failure; a server error after a truncated tool output is retried
\* at once with halved limits, other transient errors with backoff.
StreamFails ==
    /\ pc = "stream"
    /\ StreamSome
    /\ failure' \in FailureClass
    /\ exhausted' = (failure' \in AlwaysCompactRecoverable)
    /\ notes' = TRUE
    /\ pc' \in IF failure' = "SERVER_ERROR" THEN {"reduce", "backoff"}
               ELSE IF failure' \in Transient THEN {"backoff"}
               ELSE AfterStream(failure', progress')
    /\ UNCHANGED <<retry, round, empty, answers, partials, completes>>

ReducedStreamFails ==
    /\ pc = "reduce"
    /\ StreamSome
    /\ exhausted' \in BOOLEAN
    /\ pc' = "backoff"
    /\ UNCHANGED <<failure, retry, round, notes, empty, answers, partials, completes>>

\* Whatever a retry fails with, running out of steps or context included, the
\* class of the first failure stays the one acted on.
BackoffFails ==
    /\ pc = "backoff"
    /\ StreamSome
    /\ exhausted' \in BOOLEAN
    /\ IF retry + 1 < MaxRetries
         THEN pc' = "backoff" /\ retry' = retry + 1
         ELSE pc' \in AfterStream(failure, progress') /\ retry' = 0
    /\ UNCHANGED <<failure, round, notes, empty, answers, partials, completes>>

\* A complete ainvoke run: its last message is yielded unless it is empty.
Deliver ==
    \/ answers' = answers + 1 /\ empty' = FALSE
    \/ answers' = answers /\ empty' = TRUE

ProbeEnds ==
    /\ pc = "probe"
    /\ CountRun /\ Deliver
    /\ pc' = "finish"
    /\ UNCHANGED <<failure, exhausted, retry, round, notes, progress, content, partials, completes>>

MutantProbeFails ==  \* goes on to the ainvoke fallback it replaces
    /\ pc = "probe"
    /\ CountRun
    /\ partials' = partials + 1
    /\ pc' = "ainvoke"
    /\ UNCHANGED <<failure, exhausted, retry, round, notes, progress, content, empty, answers, completes>>
\* Degraded still, or another class: a partial response either way.
ProbeFails ==
    /\ pc = "probe"
    /\ CountRun
    /\ partials' = partials + 1
    /\ pc' = "finish"
    /\ UNCHANGED <<failure, exhausted, retry, round, notes, progress, content, empty, answers, completes>>

\* Without notes the fallback runs on state itself, else on a rebuilt copy.
InvokeSome ==
    /\ progress' \in IF notes THEN {progress} ELSE {progress, TRUE}
    /\ CountRun

AinvokeEnds ==
    /\ pc = "ainvoke"
    /\ InvokeSome /\ Deliver
    /\ pc' = "finish"
    /\ UNCHANGED <<failure, exhausted, retry, round, notes, content, partials, completes>>

AinvokeFails ==
    /\ pc = "ainvoke"
    /\ InvokeSome
    /\ failure' \in FailureClass
    /\ exhausted' = (failure' \in AlwaysCompactRecoverable)
    /\ \/ /\ failure' \in Transient /\ retry + 1 < MaxRetries
          /\ retry' = retry + 1
          /\ UNCHANGED <<pc, partials>>
       \/ /\ ~(failure' \in Transient /\ retry + 1 < MaxRetries)
          /\ retry' = 0
          /\ IF IsCompactRecoverable(failure', progress')
               THEN pc' = "recover" /\ UNCHANGED partials
               ELSE pc' = "finish" /\ partials' = partials + 1
    /\ UNCHANGED <<round, notes, content, empty, answers, completes>>

\* Usage, session summary, task_complete(success) and the stop chunk.
Finish ==
    /\ pc = "finish"
    /\ completes' = completes + 1
    /\ pc' = "done"
    /\ UNCHANGED <<failure, exhausted, retry, round, notes, progress, content, empty, answers, partials, runs>>

\* A round compacts the history, moves the checkpoint to its end and runs the
\* graph on a copy, so that no progress is ever visible after it.
Round ==
    /\ pc = "recover" /\ round < MaxRecoveryRounds
    /\ round' = round + 1
    /\ progress' = FALSE /\ exhausted' = FALSE
    /\ CountRun
    /\ UNCHANGED <<retry, notes, content, partials, completes>>

MutantRoundEnds ==  \* no break after a recovered answer
    /\ Round /\ Deliver /\ UNCHANGED failure
    /\ pc' \in {"recover", "done"}
RoundEnds ==
    /\ Round /\ Deliver /\ UNCHANGED failure
    /\ pc' = "done"

\* A class that is not recoverable breaks out of the loop, past its else.
RoundFails ==
    /\ Round /\ UNCHANGED <<answers, empty>>
    /\ failure' \in FailureClass
    /\ pc' = IF IsCompactRecoverable(failure', progress') THEN "recover" ELSE "done"

SynthesisEnds ==
    /\ pc = "recover" /\ round = MaxRecoveryRounds
    /\ CountRun /\ Deliver
    /\ pc' = "done"
    /\ UNCHANGED <<failure, exhausted, retry, round, notes, progress, content, partials, completes>>

MutantSynthesisFails ==  \* the failure of the last resort is only logged
    /\ pc = "recover" /\ round = MaxRecoveryRounds
    /\ CountRun
    /\ completes' = completes + 1
    /\ pc' = "done"
    /\ UNCHANGED <<failure, exhausted, retry, round, notes, progress, content, empty, answers, partials>>
SynthesisFails ==
    /\ pc = "recover" /\ round = MaxRecoveryRounds
    /\ CountRun
    /\ partials' = partials + 1
    /\ completes' = completes + 1
    /\ pc' = "done"
    /\ UNCHANGED <<failure, exhausted, retry, round, notes, progress, content, empty, answers>>

Over == pc \in {"done", "raised"}

RecoveryNext ==
    \/ Request \/ Prepare
    \/ StreamEnds \/ StreamFails \/ ReducedStreamFails \/ BackoffFails
    \/ ProbeEnds \/ ProbeFails
    \/ AinvokeEnds \/ AinvokeFails
    \/ RoundEnds \/ RoundFails
    \/ SynthesisEnds \/ SynthesisFails
    \/ Finish

RecoverySpec == RecoveryInit /\ [][RecoveryNext]_recoveryVars

\* Every graph run ends: tool calls time out, the recursion limit bounds the
\* nodes, and the endpoint's client gives up on a call that hangs.  Nothing
\* obliges a client to call.
RecoveryFairness == WF_recoveryVars(pc # "idle" /\ RecoveryNext)

FairRecovery == RecoverySpec /\ RecoveryFairness

----------------------------------------------------------------------------
\* Types of the state: where the request is, what it counts, what it notes.
PlaceOK ==
    /\ pc \in {"idle", "prepare", "stream", "reduce", "backoff", "probe", "ainvoke",
               "recover", "finish", "done", "raised"}
    /\ failure \in FailureClass \cup {"none"}
CountersOK ==
    /\ retry \in 0 .. MaxRetries - 1
    /\ round \in 0 .. MaxRecoveryRounds
    /\ answers \in Nat /\ partials \in Nat /\ completes \in Nat
    /\ runs \in Nat
FlagsOK ==
    /\ notes \in BOOLEAN /\ progress \in BOOLEAN /\ content \in BOOLEAN
    /\ empty \in BOOLEAN /\ exhausted \in BOOLEAN
RecoveryTypeOK == PlaceOK /\ CountersOK /\ FlagsOK

\* However retries, fallback and rounds follow one another, a request costs a
\* bounded number of graph runs: no retry loop restarts another one.
RunsBounded == runs <= RunBudget

\* The client never gets two verdicts: neither two answers, nor a partial
\* response ("budget was exhausted") beside an answer.
OneVerdict == answers + partials <= 1

\* A response may end with nothing said, but then either the model's own last
\* message was empty, or a recovery round met a failure it cannot recover.
SilenceExplained ==
    (pc = "done" /\ ~content /\ answers + partials = 0) =>
        \/ empty
        \/ round > 0 /\ failure \notin AlwaysCompactRecoverable

\* The response function implements the contract of a request, its end included.
Contract == INSTANCE RequestContract WITH
    Budget  <- RunBudget,
    used    <- runs,
    verdict <- IF answers > 0 THEN "answer" ELSE IF partials > 0 THEN "partial" ELSE "none",
    open    <- pc # "idle" /\ ~Over,
    asked   <- pc # "idle"

ContractHolds == Contract!FairContract

\* The safety half of it, stated about single steps.
ContractSafety == Contract!ContractSpec

\* What the documents say, and the code does not do: a recovery that cannot go
\* on "falls through to synthesis", so it leaves an answer or a partial response.
RecoveryLeavesVerdict ==
    (pc = "done" /\ round > 0) => (answers + partials > 0 \/ empty)

\* Likewise: a run that exhausted the recursion budget or the context window is
\* compacted before it "falls through to ainvoke", the runs of a retry included.
ExhaustedIsCompacted == pc \in {"probe", "ainvoke"} => ~exhausted
=============================================================================
