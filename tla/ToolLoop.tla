------------------------------- MODULE ToolLoop -------------------------------
(***************************************************************************)
(* The agent <-> tool loop of one request: agent_node and tool_node of     *)
(* SafeToolCallAgentGraph (agents/safe_tool_calling_agent.py), with the    *)
(* guards tool_node applies before it hands the calls to the NAT tool node *)
(* (deduplication, write-mode guard, parallel cap, total limit, loop       *)
(* guard), the tool timeout, mid-loop compaction and the repair of a       *)
(* history the model endpoint refuses.                                     *)
(*                                                                         *)
(* A tool call is a raw <<tool, arguments>> pair, a member of Raw.  ToolOf *)
(* gives its tool, SigOf the signature the loop guard compares (raw calls  *)
(* that differ only in surrounding blanks share one).                      *)
(***************************************************************************)
EXTENDS WorkingMemory, FiniteSets

CONSTANTS
    Raw,               \* the raw calls the model may emit
    ToolOf, SigOf,     \* functions on Raw
    WriteCalls,        \* the calls of WRITE_TOOL_NAMES
    Modes,             \* the modes a request may run in, "analyze" is READ_ONLY
    Limit,             \* max_tool_calls_per_request: limited tools -> Nat
    MaxParallel,       \* max_parallel_tool_calls
    LoopThreshold,     \* tool_loop_guard_threshold
    RecursionLimit,    \* (max_iterations + 1) * 2 node executions
    HasSummaryLLM,     \* summary_llm is not None
    MessageThreshold, RetainRecent, CooldownMessages,  \* compaction_*
    MaxBatch           \* bound: calls in one model answer

ASSUME LoopAssumption ==
    /\ WriteCalls \subseteq Raw
    /\ HasSummaryLLM \in BOOLEAN
    /\ {MaxParallel, LoopThreshold, RecursionLimit, RetainRecent} \subseteq Nat \ {0}
    /\ {MessageThreshold, CooldownMessages, MaxBatch} \subseteq Nat
    /\ DOMAIN ToolOf = Raw /\ DOMAIN SigOf = Raw
    /\ \A t \in DOMAIN Limit : Limit[t] \in Nat

VARIABLES
    mode,      \* mode_name of the request's graph
    msgs,      \* state.messages
    pc,        \* the node, or the part of agent_node, that runs next
    steps,     \* node executions so far, what recursion_limit counts
    cooldown,  \* _compaction_cooldown_counter, shared by the graph's requests
    nextId,    \* ids the model has not used yet
    ran,       \* the calls that were handed to the NAT tool node
    failure    \* what the graph raised

vars == <<mode, msgs, pc, steps, cooldown, nextId, ran, failure>>

----------------------------------------------------------------------------
Last(s)  == s[Len(s)]
Batch    == UNION {[1 .. n -> Raw] : n \in 0 .. MaxBatch}
Running  == pc \notin {"done", "failed"}

\* Counters of a history: how often earlier assistant messages called a tool,
\* and how often they made a call with the same signature.
CallsIn(ms) == UNION {ms[i].calls : i \in DOMAIN ms}
MutantNameCount(ms, t) ==  \* looks at the latest message only
    Cardinality({c \in ms[Len(ms)].calls : ToolOf[c.raw] = t})
NameCount(ms, t) == Cardinality({c \in CallsIn(ms) : ToolOf[c.raw] = t})
SigCount(ms, s)  == Cardinality({c \in CallsIn(ms) : SigOf[c.raw] = s})

\* Identical calls of one answer: the first occurrence stays.
Dedupe(calls) == {c \in calls : \A d \in calls : d.raw = c.raw => c.id <= d.id}

\* The results of calls, in their order; those of errors carry status "error".
Results(calls, errors) ==
    LET ids == {c.id : c \in calls}
    IN  [k \in 1 .. Cardinality(ids) |-> Result(Nth(ids, k), Nth(ids, k) \in errors)]
Refusals(calls) == Results(calls, {c.id : c \in calls})

\* The tests of the guards on one call, before holding the earlier messages.
DeniedWrite(c) == mode = "analyze" /\ c.raw \in WriteCalls
OverLimit(before, c) ==
    /\ ToolOf[c.raw] \in DOMAIN Limit
    /\ NameCount(before, ToolOf[c.raw]) >= Limit[ToolOf[c.raw]]
Looping(before, c) == SigCount(before, SigOf[c.raw]) >= LoopThreshold

\* The parallel cap keeps the first calls and puts the others off.
InParallel(calls) ==
    {c \in calls : Cardinality({d \in calls : d.id < c.id}) < MaxParallel}

\* What tool_node's guards make of a history that ends with an assistant
\* message: the calls put off by the parallel cap, the calls a guard refused
\* (their results are appended at once) and the calls left on the message.
\* A guard looks at messages[-1], so once one has appended a refusal those
\* after it see no call: a write refusal switches off the cap and both
\* limits, a total-limit refusal switches off the loop guard.
Screen(ms) ==
    LET before   == SubSeq(ms, 1, Len(ms) - 1)
        calls    == Dedupe(Last(ms).calls)
        kept     == InParallel(calls)
        writes   == {c \in calls : DeniedWrite(c)}
        over     == {c \in kept : OverLimit(before, c)}
        refused  == IF over # {} THEN over ELSE {c \in kept : Looping(before, c)}
    IN  IF writes # {}
        THEN [put_off |-> {}, refused |-> writes, admitted |-> calls]
        ELSE [put_off |-> calls \ kept, refused |-> refused, admitted |-> kept \ refused]

\* The history after the guards: trimmed calls, then the refusals.
Screened(ms) ==
    LET s == Screen(ms)
    IN  SubSeq(ms, 1, Len(ms) - 1) \o <<Assistant(s.admitted)>> \o Refusals(s.refused)

----------------------------------------------------------------------------
\* A request starts with its messages (a memory or skills block may come
\* first) on a graph other requests have used before it.
Init ==
    /\ mode \in Modes
    /\ msgs \in {<<Human>>, <<System, Human>>}
    /\ pc = "agent"
    /\ steps = 0
    /\ cooldown \in 0 .. CooldownMessages
    /\ nextId = 1
    /\ ran = {}
    /\ failure = "none"

Fail(why) == pc' = "failed" /\ failure' = why

\* LangGraph raises GraphRecursionError instead of running one node more.
RecursionLimitHit ==
    /\ pc \in {"agent", "tool"} /\ steps = RecursionLimit
    /\ Fail("recursion_limit")
    /\ UNCHANGED <<mode, msgs, steps, cooldown, nextId, ran>>

----------------------------------------------------------------------------
\* agent_node: compaction, then the model call.

\* The counter only matters up to CooldownMessages, so it saturates there.
Tick(c) == Min({c + 1, CooldownMessages})

MayCompact(long) ==
    /\ HasSummaryLLM /\ cooldown >= CooldownMessages
    /\ Len(msgs) > MessageThreshold \/ long

EnterAgentNode ==
    /\ pc = "agent" /\ pc' = "model"
    /\ steps < RecursionLimit /\ steps' = steps + 1

\* long: the characters exceed compaction_char_threshold.  Compaction that
\* was tried but changed nothing (summary failed, nothing to evict) leaves
\* the counter alone; only the else branch increments it.
CompactHistory(long, summarised) ==
    LET compacted == IF summarised THEN Compress(msgs, RetainRecent) ELSE msgs
    IN  /\ EnterAgentNode
        /\ IF MayCompact(long)
           THEN /\ msgs' = compacted
                /\ cooldown' = IF compacted # msgs THEN 0 ELSE cooldown
           ELSE cooldown' = Tick(cooldown) /\ UNCHANGED msgs
        /\ UNCHANGED <<mode, nextId, ran, failure>>

\* Requests that share the prebuilt graph run their own agent_node between
\* the awaits of this one and move the same counter.
OtherRequestTurn ==
    /\ Running
    /\ cooldown' \in {Tick(cooldown), 0}
    /\ UNCHANGED <<mode, msgs, pc, steps, nextId, ran, failure>>

\* The conditional edge: an answer without calls ends the graph.
ModelAnswers(batch) ==
    LET calls == {[id |-> nextId + i - 1, raw |-> batch[i]] : i \in DOMAIN batch}
    IN  /\ pc \in {"model", "retry"}
        /\ msgs' = Append(msgs, Assistant(calls))
        /\ nextId' = nextId + Len(batch)
        /\ pc' = IF batch = <<>> THEN "done" ELSE "tool"
        /\ UNCHANGED <<mode, steps, cooldown, ran, failure>>

\* An endpoint may refuse results it knows no call for ("unexpected tool call
\* id"); the history is repaired and the model called once more.
MutantRepairAndRetry ==  \* repairs and retries for as long as the endpoint refuses
    /\ pc \in {"model", "retry"}
    /\ msgs' = Repair(msgs)
    /\ pc' = IF pc = "model" THEN "retry" ELSE "model"
    /\ UNCHANGED <<mode, steps, cooldown, nextId, ran, failure>>

RepairAndRetry ==
    /\ pc = "model" /\ OrphanResults(msgs) # {}
    /\ msgs' = Repair(msgs)
    /\ pc' = "retry"
    /\ UNCHANGED <<mode, steps, cooldown, nextId, ran, failure>>

ModelFails ==
    /\ pc \in {"model", "retry"}
    /\ Fail("model")
    /\ UNCHANGED <<mode, msgs, steps, cooldown, nextId, ran>>

----------------------------------------------------------------------------
\* tool_node.

EnterToolNode == pc = "tool" /\ steps < RecursionLimit /\ steps' = steps + 1

\* Every call was put off or refused: back to the model.  The results for
\* the calls the parallel cap put off are not appended on this path.
Replan ==
    LET s == Screen(msgs)
    IN  /\ EnterToolNode
        /\ s.admitted = {} /\ s.refused # {}
        /\ msgs' = Screened(msgs)
        /\ pc' = "agent"
        /\ UNCHANGED <<mode, cooldown, nextId, ran, failure>>

\* Some calls were refused but not all, or a write was: the history now ends
\* with a result, and the NAT tool node, which reads the calls of messages[-1],
\* raises ("ToolMessage has no attribute tool_calls").
ToolNodeRaises ==
    LET s == Screen(msgs)
    IN  /\ EnterToolNode
        /\ s.admitted # {} /\ s.refused # {}
        /\ msgs' = Screened(msgs)
        /\ Fail("tool_node")
        /\ UNCHANGED <<mode, cooldown, nextId, ran>>

\* The NAT tool node runs the calls and appends their results, tool_node the
\* results for the calls that were put off.
RunTools(errors) ==
    LET s == Screen(msgs)
    IN  /\ EnterToolNode
        /\ s.admitted # {} /\ s.refused = {}
        /\ errors \subseteq DeclaredBy(Assistant(s.admitted))
        /\ msgs' = Screened(msgs) \o Results(s.admitted, errors) \o Refusals(s.put_off)
        /\ ran' = ran \cup s.admitted
        /\ pc' = "agent"
        /\ UNCHANGED <<mode, cooldown, nextId, failure>>

\* tool_call_timeout_seconds: the calls were made, each gets an error result;
\* the calls that were put off get none.
MutantToolsTimeOut ==  \* returns without a result for the calls it gave up on
    /\ EnterToolNode
    /\ Screen(msgs).admitted # {} /\ Screen(msgs).refused = {}
    /\ msgs' = Screened(msgs)
    /\ ran' = ran \cup Screen(msgs).admitted
    /\ pc' = "agent"
    /\ UNCHANGED <<mode, cooldown, nextId, failure>>

ToolsTimeOut ==
    LET s == Screen(msgs)
    IN  /\ EnterToolNode
        /\ s.admitted # {} /\ s.refused = {}
        /\ msgs' = Screened(msgs) \o Refusals(s.admitted)
        /\ ran' = ran \cup s.admitted
        /\ pc' = "agent"
        /\ UNCHANGED <<mode, cooldown, nextId, failure>>

----------------------------------------------------------------------------
AgentNode ==
    \/ \E long, summarised \in BOOLEAN : CompactHistory(long, summarised)
    \/ \E batch \in Batch : ModelAnswers(batch)
    \/ RepairAndRetry
    \/ ModelFails

ToolNode ==
    \/ Replan
    \/ ToolNodeRaises
    \/ \E errors \in SUBSET DeclaredBy(Last(msgs)) : RunTools(errors)
    \/ ToolsTimeOut

Next == RecursionLimitHit \/ AgentNode \/ ToolNode \/ OtherRequestTurn

\* The event loop keeps running the nodes of a request; nothing promises that
\* another request comes along.
Spec == Init /\ [][Next]_vars /\ WF_vars(RecursionLimitHit \/ AgentNode \/ ToolNode)

----------------------------------------------------------------------------
\* Properties.

\* The calls the limits are kept of: all that ran, until a compaction has evicted
\* some of their messages; then those of them the history still holds.
Compacted == \E i \in DOMAIN msgs : msgs[i] = Summary
Counted   == IF Compacted THEN ran \cap CallsIn(msgs) ELSE ran

CountOf(C, S) == Cardinality({c \in C : c.raw \in S})
Calling(t)    == {r \in Raw : ToolOf[r] = t}
Signed(s)     == {r \in Raw : SigOf[r] = s}

\* The per-request limit of a tool as the code enforces it: the limit guard
\* counts the earlier answers the history holds, so one answer may carry the
\* tool from just below its limit to MaxParallel - 1 above it and never further,
\* and a compaction lowers the count by the calls it evicts (LimitEnforced).
ToolBudget ==
    \A t \in DOMAIN Limit : CountOf(Counted, Calling(t)) <= Limit[t] + MaxParallel - 1

\* Of the calls counted, no more than LoopThreshold are equivalent, save for
\* the raw variants of one signature that a single answer makes side by side:
\* deduplication compares raw arguments, the loop guard normalised ones.
LoopBudget ==
    \A r \in Raw : CountOf(Counted, Signed(SigOf[r])) <=
        LoopThreshold - 1 + Min({MaxParallel, Cardinality(Signed(SigOf[r]))})

\* What the five guards admit together, in whatever order they hide calls from
\* one another, over a history that is appended to, repaired and compacted.
BudgetsHold == ToolBudget /\ LoopBudget

\* Whenever the model is about to be called, no call in the history lacks a
\* result: refusals, time-outs, compaction and repair never leave one open.
EveryCallAnswered == pc \in {"agent", "model", "retry"} => OpenCalls(msgs) = {}

\* Repair drops results whose call is gone.  Those are always refusals and
\* errors: compaction never separates a successful result from its call, so
\* repair never throws collected evidence away.  Of the results of errors
\* compaction keeps it does part some from their calls (CompactionPartsNoPair).
EvidenceKeepsItsCall == \A i \in OrphanResults(msgs) : msgs[i].error

\* No guard, time-out or refused history keeps a request from ending.
RequestEnds == <>(pc \in {"done", "failed"})

\* What ARCHITECTURE.md says of the guards: a denied call is fed back to the
\* model and the loop continues.
GuardrailsNonTerminating == failure # "tool_node"

\* What ARCHITECTURE.md says of max_tool_calls_per_request: a deterministic
\* budget, of the calls a request makes of a tool.
LimitEnforced == \A t \in DOMAIN Limit : CountOf(ran, Calling(t)) <= Limit[t]

\* What the specification of compaction says of every result it retains: the
\* call it answers is retained too, if the history had it before.
Orphaned(ms) == {ms[i].id : i \in OrphanResults(ms)}
CompactionPartsNoPair == [][pc = "agent" => Orphaned(msgs') \subseteq Orphaned(msgs)]_vars
============================================================================
