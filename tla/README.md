# A verification of WhaleOps

WhaleOps (package `cognitive_code_agent`) is an operations agent: a chat endpoint
that runs a language model with tools in a LangGraph loop, reachable from two web
UIs, a Telegram bot, an MCP server and a cron scheduler. This directory holds TLA+
models of its core, of the servers of the two UIs and of what runs in the browser, the
TLC runs that check them on small instances, and the theorems that TLAPS proves about
them for every value of their constants.

## 1. Inventory

### The agent server (`src/src/cognitive_code_agent/`)

| Component | State it keeps | Operations | What makes it correct |
|---|---|---|---|
| Response function and recovery (`agents/safe_tool_calling_agent.py`, `_response_fn`) | per request: recovery notes, round, checkpoint, what was streamed | stream, retries, probe, `ainvoke` fallback, recovery rounds, synthesis, completion | bounded cost, one verdict, silence only for a reason, an end |
| Agent/tool graph (`SafeToolCallAgentGraph`) | per request: messages; per graph: compaction cooldown | `agent_node`, `tool_node`, five guards, time-out | budgets hold, every call has a result when the model is called, the loop ends |
| Working memory (`memory/working.py`) | none of its own: rewrites message lists | eviction summary, mid-loop compaction, history repair | a call and its successful result stay together (results of failed calls do not) |
| Telegram gateway (`telegram/`) | chat locks, session overrides | `handle_update`, `reset_session` | one run per chat, no leaked lock, nothing forgotten without a message |
| Cron scheduler (`tools/cron_tools.py`, `jobs_api.py`, `register.py`) | job store in Redis, running instances | create (tool and REST), list, cancel, fire, start, shutdown | cancelled is cancelled, one run per cron time, jobs keep firing |
| Findings store (`tools/findings_store.py`, `tools/cache.py`) | circuit breaker, clients, Redis caches | persist, query, invalidate | no stale answer after a persist, the breaker closes again |
| Memory (`memory/retrieval.py`, `readiness.py`, `episodic.py`, `semantic.py`) | readiness cache, Redis and Milvus collections | retrieve, probe, persist, upsert | no lost update, a slow source never holds up a request |
| Spawned agents, workspace API, ops tools and notes, MCP server, prompts and skills, query classifier, code-analysis tools, evaluation | | | see section 5 |

### The cognitive UI (`src/ui-cognitive/`), its server

| Component | State it keeps | Operations | What makes it correct |
|---|---|---|---|
| Chat route and backend stream (`app/api/chat/route.ts`, `lib/nat-client.ts`, `lib/thinking.ts`) | per request: what was said, the open thought, the line buffer | relay, time out, persist, close | an exchange is stored once and whole, every stream is closed, chunk ends do not show |
| Cost governance (`lib/cost-governance.ts`, `lib/model-registry.ts`) | totals per session and user, in the process | preflight, registration of usage, snapshots | totals are the bills, a session at its limit is sent to the fallback |
| Session store (`lib/sessions.ts`, `app/api/sessions`) | one JSON file per session | create, append, rename, feedback, list, delete | a file only goes at its creator's request |
| Users (`lib/users.ts`, `app/api/users`) | one JSON file | create, deactivate | one user per address |
| Trace statistics (`lib/observability.ts`) | buckets of one pass over the trace file | `computeTraceStats`, `computeTrendBuckets` | the dashboard adds up |

### The cognitive UI, in the browser

| Component | State it keeps | Operations | What makes it correct |
|---|---|---|---|
| Chat panel (`components/chat/chat-panel.tsx`, `hooks/use-chat-scroll.ts`, `lib/file-attachment.ts`) | messages, the send under way, draft, file, title, scroll position | send, stop, edit, regenerate, commands, attach, feedback | the last message says what came of the send, a file goes once, the title comes back |
| Activity rows and page (`lib/activity-dedupe.ts`, `chat-session-layout.tsx`, `ops-session-context.tsx`) | rows of an answer, of the conversation, panel state | merge, reset, history, toggle | as many rows as calls, nothing keeps spinning, each row counted once |
| Typewriter (`hooks/use-typewriter.ts`) | queue, remainder, what is shown | deltas, frames, end | no piece lost or doubled |
| Session list, sidebar, new conversations (`hooks/use-sessions.ts`, `use-mcp-servers.ts`, `components/layout/sidebar.tsx`, `lib/new-conversation-latency.ts`) | cache, the shared load, pending attempt | load, force, rename, delete, begin | a refresh shows its change when it returns, milestones in order |
| Panels that poll (`hooks/use-ops-*.ts`, `gateway-status.tsx`, `cron-jobs-panel.tsx`, ...) | last answer, error, requests under way | poll, retry, change | the panel ends up with the truth |

### The legacy UI (`src/ui/`)

| Component | State it keeps | Operations | What makes it correct |
|---|---|---|---|
| Proxy (`proxy/server.js`, `response-processors.js`) | conversations initialised, sockets | route, fetch, rewrite, upgrade, exit | one head and one end per request |
| Chat (`components/Chat/Chat.tsx`, `utils/app/helper.ts`) | conversations, selected one, streaming state, socket | send over HTTP or WebSocket, edit, stop, switch, delete, reload | answers stay in their conversation, the input comes back, no step lost |
| Words and prompts of an answer (`hooks/useTypewriter.ts`, `ChatInteractionMessage.tsx`) | queue and what is displayed; the one modal, its countdown | grow, reveal, replace; ask, type, submit, time out | no word left out; a prompt has its own seconds and one answer |
| Conversations and folders (`pages/api/home/home.tsx`, `components/Chatbar`, `importExport.ts`) | lists, `sessionStorage` | create, move, delete, export, import, reload | only a deletion, or an answer to an older question, loses a conversation |
| Data streams (`pages/api/update-data-stream.ts`, `DataStreamDisplay`, `DataStreamManager`, `database-updates.tsx`) | live texts and entries, in the process | post, confirm, discover, poll | views end up with the truth |

**How they interact.** The front ends (REST, Telegram, cron, MCP, the UIs' servers) call
the workflow's streaming function, which is `_response_fn`. Each request chooses a mode
and with it a graph that was built at startup; requests of one mode share this graph
object, and with it the compaction cooldown. The graph alternates `agent_node` (compaction,
model call) and `tool_node` (guards, tool calls). Tools call the findings store, the
scheduler, Docker or a spawned agent. The browser posts to the chat route, which checks the
budget, relays the backend's stream event by event and, at its end, appends the exchange to
the session's file; the panel shows the events as rows and text, and other panels poll
other routes. The legacy browser talks to the backend through the proxy. Python and Node
both run one event loop: code between two awaits is atomic, and any two coroutines or
requests interleave at their awaits. The parts share HTTP, SSE, files and
`sessionStorage`, not memory.

**What is hard.** Failures of ten classes may interrupt every model call, and nested
retries, fallbacks and rounds follow them. Guards edit one history in turn, each looking at
a last message an earlier guard may have replaced. Telegram delivers again what was not
answered in time while the first delivery still runs. The job store outlives the process,
the runs do not. A cached answer must not outlive what it was computed from. Session and
user files are read whole and written whole without a lock. A stream is cut into chunks
anywhere. In the browser handlers go on after an await with what they read before it, while
the user stops, edits, switches, deletes or reloads. `PROJECT.json` lists each hazard at
the line where it bites, with the property that covers it.

Which workflow type `config.yml` selects is a matter of deployment; the modelled one is
`safe_tool_calling_agent`, which `ARCHITECTURE.md` describes and on which spawned
agents run.

## 2. Modules

| Module | Models | Checked by | Proved in |
|---|---|---|---|
| `RequestContract` | what one request is promised (abstract) | through `ResponseRecovery` | |
| `ResponseRecovery` | `_response_fn` | `MCBackend` | `ResponseRecovery_proof` |
| `WorkingMemory` | `_find_pair_boundary`, `compress_state`, `repair_message_history` as operators | through `ToolLoop` | `ToolLoop_proof` |
| `ToolLoop` | `agent_node`, `tool_node` and the guards over `WorkingMemory` | `MCToolLoop` | `ToolLoop_proof` |
| `TelegramGateway` | `handle_update`, the session bridge, Telegram's redelivery | `MCBackend` | `TelegramGateway_proof` |
| `CronScheduler` | the scheduler's tool, routes, lifecycle and dispatch | `MCBackend` | `CronScheduler_proof` |
| `FindingsStore` | persist and query, the breaker, clients and query cache | `MCBackend` | `FindingsStore_proof` |
| `SessionStore`, `ChatRoute` | session files and routes; the chat route above them | `MCWebServer` | `WebServer_proof` |
| `CostGovernance`, `UserStore` | budgets; users | `MCWebServer` | `WebServer_proof` |
| `LegacyProxy` | the proxy of the legacy UI | `MCWebServer` | `WebServer_proof` |
| `LineStreams` | five readers of event streams | `MCWebServer` | `WebServer_proof` |
| `ThinkParser` | the parser of thoughts | `MCWebServer` | `WebServer_proof` |
| `TraceStats` | statistics | `MCWebServer` | `WebServer_proof` |
| `DataStreams`, `Polls` | data streams and their views; polling panels | `MCWebServer` | |
| `ChatPanel`, `Composer`, `Attention` | the chat panel: messages; draft and file; title, scrolling, thumbs | `MCWebClients` | `WebClients_proof` |
| `ActivityLog`, `SessionLayout` | rows of an answer; the page that extends it | `MCWebClients` | `WebClients_proof` |
| `Typewriter`, `SessionList`, `NewConversation` | hooks and sidebar | `MCWebClients` | `WebClients_proof` |
| `StepTree`, `Library` | the tree of steps, conversations and folders of the legacy UI | `MCWebClients` | `WebClients_proof` |
| `LegacyChat`, `LegacyTypewriter`, `Prompts` | chat, words and prompts of the legacy UI | `MCWebClients` | `LegacyClients_proof` |
| `LegacyUI` | these three together, as the user meets them | `MCWebClients` | `LegacyClients_proof` |

Operators named `Mutant...` stand before the definition they vary: each is that
definition with a plausible bug, and a property is kept only if TLC finds it violated
once the bug is put in. Names of operators and variables are those of the source where
TLA+ allows it.

`MCBackend`, `MCWebServer` and `MCWebClients` put several modules into one model. Their parts share no
state in the code either (but for the session files, which `ChatRoute` extends, and the rows, which
`SessionLayout` extends): the variable `part` says which part a behaviour is about, and the
others keep their initial state. Nothing is gained or lost by it but the number of runs. The
modules of a model are extended together, so that their names differ (`CronInit`,
`StoreRestart`, `GatewayNext`).

### ResponseRecovery

A run of the graph is one step that ends or raises an exception of some failure class.
`pc` is the part of `_response_fn` that comes next: `idle` (nobody has called it: `Request`
does), `prepare`, `stream` (the first
run), `reduce` (the retry with halved output limits), `backoff`, `probe`, `ainvoke`,
`recover` (rounds and synthesis), `finish`, `done`, `raised`. `failure` is the class
the code acts on; a backoff retry does not change it, an `ainvoke` failure does.
`progress` is what `_measure_progress` would return. A streamed run works on the
request's own history, so progress *may* become visible; a recovery round compacts the
history, moves the checkpoint to its end and runs on a copy, so it never does, which is
why a transient failure in a round is never recoverable. `exhausted` (the last run to end
met the recursion limit or the context window), `answers`, `partials`, `completes` and
`runs` are observers. The handler of `GraphRecursionError` and the
synthesis branch of the `ainvoke` fallback are not modelled: the inner handlers leave
no path to them, since a recursion limit is recognised as recoverable before.

Abstracted: texts, token counts, trace events, the evidence gate (it rewrites text),
and the choice of mode and memory block (`Prepare`). Whether a degraded function's id
can be read from the error, and whether an output was truncated, are choices.

### ToolLoop and WorkingMemory

A history is a sequence of messages with the calls they declare, the call they answer and their
error flag. `Screen` computes what the guards leave of an answer, including that a guard which
appended a refusal hides the answer from the guards after it. Three things may follow: `Replan`
(nothing left), `ToolNodeRaises` (something left behind a refusal: the NAT tool node reads
`messages[-1].tool_calls` of a tool message) or `RunTools`/`ToolsTimeOut`. That the NAT node
raises is knowledge about code outside the repository; the comment in `_apply_parallel_tool_cap`
states it. `CompactHistory` is the head of `agent_node`; the summary may fail, and the cooldown
may be moved by `OtherRequestTurn`, the coroutines that share the graph. `RepairAndRetry` is
enabled when the history holds an orphaned result.

Abstracted: arguments are a member of `Raw`, and `SigOf` says which raw calls the loop
guard takes for one; truncation of outputs and the texts of refusals.
The message that replaces what a compaction evicted is `Summary`. `Counted` is the observer the
budgets are stated with: all calls that ran or, once the history holds a summary, those of them it
still holds, since the guards count what the history holds.

### TelegramGateway

`handler[d]` is the await the handler of delivery `d` is suspended at: `running` (the
workflow), `replying`, `resetting` and `refusing` (sending). Telegram is external:
`status` is its view of an update, which it keeps until a 2xx answer, and posts again
after an error, after it stopped waiting or after a restart. A send may fail although
the message arrived. `latest` observes the newest session a chat's run or reset used.

### CronScheduler

Time is cyclic: `phase[j]` ticks since the job's cron time last came round and `due[j]`
while the scheduler has not dealt with it. `Process` is APScheduler's decision (external,
modelled from the options the code passes): run, or skip because the grace time is over
or the job's previous run still goes on. `Stop` stands for `shutdown(wait=False)` and
for a crash; both leave the store as it is. A period may be as short as the grace time, as that
of the every-minute job is; `started` observes which jobs have started a run since their
last cron time.

### FindingsStore

A call of either tool is one step up to the await of the embedder (`PersistStarts`,
`AskStarts`) and one step from there on: the Milvus and Redis clients are synchronous, so
clearing the cache and the upsert are not interleaved with anything. Each of those steps
has failing variants, and `except Exception` makes them all one: `RecordFailure`. A
cancelled call (the tool batch timed out) records nothing. An answer is the set of findings
it ranks, so `top_k`, filters and similarity are left out, and a question is its cache key.
`redis` is decided at the first use, for the rest of the process. A failed upsert may have
been applied. Observers: `saved` (what was reported as persisted), `known` and `heard`
(what an asker is owed and gets) and `lacks` (what a cached answer misses because Redis could
not be cleared). Assumed of Milvus: a search sees the upserts that returned before it.


### SessionStore, ChatRoute

A session is one file that is read whole and written whole. `file[k]` is `Absent`,
`Torn` or the record it holds; `task[t]` is a request at one of its awaits, with what it
has read. `writeFile` truncates first, so a write is two steps with a torn file between
them, and a reader that meets it takes the session for missing, as the code's `catch` does.
`handle` is the open file of a writer: one whose file was removed meanwhile writes into
nothing. A record is reduced to title, creator, exchanges and thumbs.

`ChatRoute` is `POST /api/chat`: `phase[c]` goes from `streaming` to `persisting` (or `failing`,
a failure that persists what there was) to `closed`. A backend may end, fail or hang, which the
abort timer ends. The browser may leave at any time (`client`); the route goes on. `given`
and `said` count visible tokens sent by the backend and collected by the route. Requests
carry a session key, as the panel's do; whether the budget refuses a request is a choice
here, and `CostGovernance` models it.

### CostGovernance, UserStore, TraceStats

`evaluateBudgetPreflight` and `registerUsageCost` work on the `UsageTotals` of a session and of a
user in the process, each a total and the amounts per model; `toSnapshot` is what the
observability page shows of them. `bills` lists
the requests in the order of their preflights with what they cost, and `peers` remembers who
was under way: the observer the properties compare the totals with. `OwnModelsBelowLimit` is
what the preflight does give: a request reaches the model it asks for only below the limit.
Rounding, and the
small-talk path that asks no backend, are left out; a request reports its usage once at
most. As in the code every key of the registry has a price, so that the branch for
models without one is written but not taken.

In `UserStore` a request is at one of the awaits of `createUser` or `setUserActive` and
carries the list it will write.

`TraceStats` adds each line of the trace file to `traces`, `tools` and `counters` as the loop of
`computeTraceStats` does; percentiles, trend and categories are computed at the end, and
money is left out. Sorting is `Ranked`, which says what a sorted order is rather than how it is
found. A category may count more requests than the flag of an overflow: only the first is taken
from what a tool returned, too. The length of a span whose event has no duration is taken from its
start to the time of the event, and added to that time: the last span of a trace counts twice.
`DashboardAddsUp` bounds a duration from both sides rather than repeating this sum. The file is there: where the code looks for it is I/O.

### ThinkParser, LineStreams

`ThinkParser` feeds `createThinkStreamParser` a text in pieces, tags split over two or three
symbols, and compares what was emitted with a reference definition over the whole text
(`Seen`, a function on the lengths of its ends). A turn of the loop is `Turn`; `Consume` makes
one turn more than the buffer has symbols, since those behind the one that finds no tag change
nothing. `LineStreams` compares the readers of lines, fed by chunks, with one that
reads the whole text symbol by symbol (`Reads`): `nat`
(`streamChatViaHttp`), `chat` and `generate` (the proxy's processors), `panel`
(`sse-parser.ts`) and `browser` (the legacy chat, which finds steps in tags). A line has two
halves, so that a chunk can end inside it. Not represented: chunks that end inside an
opening tag of the browser's text, JSON error bodies there, and the event-stream fallback of
the generate processor.

### LegacyProxy, DataStreams, Polls

`LegacyProxy` counts heads and ends written per response (`reply`) while each await of a
request may throw into the catch block; sockets that were upgraded live until either side ends
them, and a clean exit waits for them for two seconds. `DataStreams` has the server's live
texts and entries, the discovery and the views that poll them (`view` selects which one a
behaviour follows). `Polls` has one action per step of a poll and, in `panel`, which of the
eight panels it is: they differ in what they clear, in whether they ignore overtaken answers
(`latest`, `requestIdRef`) and in whether they ask again by themselves. A health check of the
gateway takes three seconds at most and never overlaps the next poll, fifteen seconds later; a
change of a user and the fetch that follows it are one step.

### ChatPanel, Composer, Attention

`send[s]` is the await the `s`-th call of `sendMessageToAgent` is at. Messages are lists of
pieces, so that a piece that comes twice, late or from another send can be told. All handlers
act on the same list; `alone` observes whether anything else changed it since a send began,
because the panel makes no promise for a send into which somebody typed. `Composer` has the
draft with its autocompletion, the fetch of the tools, and the attached file from the choice to
the answer of the upload; an abort of the tools' fetch races its answer. `Attention` has the
tab's title, the notice, the scroll position and the thumbs of one message.

### ActivityLog, SessionLayout, Typewriter

`rows` is the log of an answer: an event of a step makes a row or is merged into one by step,
by label or by neighbourhood, and `progress` is what the step is really at. Rows
and steps do not correspond one by one: the begin of a second call of a tool may be taken for that
of the first and show no row, and its end may close the row of another call. They agree in number
(`RowsMatchCalls`). `SessionLayout`
extends it with the rows of the conversation, forty at most in the code and `MaxRows` here,
and the panel's state in `localStorage`, which other tabs change. `Typewriter` has one action
per delta, animation frame and end of the stream; a content is a sequence of pieces, of which
some end with a space, and may be replaced by another one. The queue is the text of its words: a
word ends with its space, or where the queue does, since what is put behind a word that was
flushed without a space is always a new answer. A frame takes as many words as
`resolveDrainConfig` says.

### SessionList, NewConversation

A list is the number of the server's change it was read after, which is all a sidebar's
refresh depends on; `load[l]` is a request of the list, `cache` and `inflight` are shared.
`request[r]` is a rename or deletion at its awaits: sent, carried out, answered or failed. The rows
stay clickable while one is under way, so a sidebar may have several, and several forced loads
(`awaits`), of which the one that returns last is shown and cached, be it the older.
`use-mcp-servers.ts` is the same hook over another list. `NewConversation` has the pending attempt
in one tab's `sessionStorage`, the milestones emitted for each attempt, the sidebars' locks and
the navigations, of which the newest arrives.

### LegacyChat, LegacyTypewriter, Prompts, LegacyUI, StepTree, Library

In `LegacyChat` a handler, the render it causes and that render's effects are one step; what
`handleSend` read before an await it writes back after it. Several sockets, which the code's
reconnection may leave behind, are one `link`. `conversationHistory` in `sessionStorage` always
equals `conversations`, so only `savedSelected` is kept apart. A message of the socket goes
through the code's helpers: a response is appended to the last answer, a step or an error makes an
answer where there is none, a trace changes no text. `LegacyTypewriter` has the effect of a new
content, whole words at a time, and the frame that reveals one. `Prompts` has the one modal of the
agent's prompts: `dialog` is its state, `age` the seconds a prompt has been shown, `intervals` the
timers that count it down, which the effect's cleanup keeps at one; the socket is one that was
opened, since the code keeps no other, and is open or gone. `StepTree` is
`processIntermediateMessage` over a tree of steps whose parents come in any order; `index` is left
out. `Library` has conversations and folders, what is stored for a reload, and exported files,
those of earlier versions among them; the storage is never full. A send over the socket is one
step on the list as it is; over HTTP `stream[k]` is one at its awaits, with the list it read
before them, which it writes back when the answer has ended or was an error. `lastStep` observes whether
a step removed, was the end of an answer, or neither.

## 3. Runs, bounds and fairness

| Run | Question | Instance |
|---|---|---|
| `tool_loop` | Do budgets, answers, pairs and termination survive the interplay of guards, compaction and repair? | three calls (two with one signature, one write), answers of up to 2 calls, cap 2, limit 1, compaction from 3 messages on, retaining 1, shared cooldown, recursion limit 6 |
| `guards_terminate` | Is a denied call always fed back? (no) | two calls, compaction off |
| `limit_enforced` | Is the per-request limit a budget? (no) | two calls, one per answer, limit 1, compaction from 3 messages on |
| `compaction_pairs` | Does every retained result keep its call? (no) | same |
| `backend` | Do the request's contract, Telegram's updates, cron jobs and findings survive failures, redelivery, restarts? | per part, see below; 334 000 states |
| `recovery_silence` | Does a recovery end with a verdict? (no) | same |
| `full_rerun` | Is an exhausted history compacted before it is run again? (no) | same |
| `cron_create` | Does POST return the job it made? (no) | same |
| `web_server` | Do the UIs' servers and the views that poll them survive what overlaps and what is cut? | per part, see below; 447 000 states |
| `chat_creator` | Does a session have its creator? (no) | same |
| `web_clients` | Does what the browser shows survive what happens meanwhile? | per part, see below; 800 000 states |
| `conversations_wiped` | Are conversations kept while an answer streams? (no) | same |

In the `tool_loop` instance `MaxBatch` keeps the results of one answer below the `2 *
RetainRecent` messages by which the cut of a compaction may move: with larger answers the cap of
the cut may separate a pair, as the trace event `compaction_boundary_capped` says, and the
configuration (3 parallel calls, 8 retained) is on the safe side. The second tool round already
meets every guard; both bounds of `BudgetsHold` are reached (a smaller right side is violated).

The parts of `backend`: the response function with the code's own 2 retries and 3 rounds and all ten
failure classes, which is exhaustive for them; Telegram with a prompt and a reset of one chat and
an ignored update of another, two deliveries each and one restart, which gives every order of
Telegram's steps for a lock; two cron jobs with periods of 2 and 5 ticks and a grace time of 2,
so that one cron time comes while the last is still in time, and two jobs are enough for the
orders that matter to `CreateReturnsItsJob`; two findings and two askers of one question against a
breaker of threshold 2 and a cooldown of 2 ticks, enough for a query to fill the cache inside a
persist and for another one to read it; a failure counter above its threshold is only compared with
it and is kept there.

The parts of `web_server`: two questions and one route request, or one question and two route
requests, of an owner and an administrator over one session (a lost update needs two writers, and a
third to meet what they left; with two requests a session is created by its user and removed by
another); three requests of two users in two sessions against a hard limit that two requests reach, under five
configurations; three requests to the users' file; texts of 6 symbols in pieces of 3, which splits
each tag in every way; streams of 10 symbols, five lines, in chunks of 3; trace files of five
lines, of which four are read, of nine kinds in three traces; two requests of one conversation and
one socket; eight panels with two requests under way and three changes; two data streams, two
events and two polls. Those of `web_clients`: two sends of two tokens and one other input in a
list of 4 messages; two files; two answers; four steps of two labels and three rows; two answers
of two steps in the page, once with the panel's state at rest and once with its rows; contents of 4
pieces, replaced once; two sidebars, three loads and two changes; three conversations and three visits; two questions of two words in two conversations
with one more input, over HTTP and over a socket that reconnects once; three messages of four
words, revealed one by one; two prompts of every form, with no time-out, 2 or 3 seconds; five
messages of three steps below one another; five operations on four conversations or folders and one
answer over HTTP. Each
bound lets the hazard happen: every property has a mutant that TLC refutes in the same instance.

Properties that gather what several guards give together: `BudgetsHold` is the loop guard's bound
and the per-tool bound, `StoredOnceWhole` (whole, and there once; that none is lost is no part of it),
`BudgetsAddUp` (`TotalsAreBills`, `OwnModelsBelowLimit` and `FallbacksAreDue`), `LegacyAnswersArrive`
(`AnswersStayHome`, `NoWordLost` and `PromptsHaveTheirTime`, with a mutant of each) and
`RowsCanBeTrusted` (`RowsMatchCalls`: of no tool more rows running, completed or failed than it
has such steps, and each way one of them ended is shown; and `WorkspaceUpToDate`: the conversation's
rows are those last seen, each once; with a mutant of each).

Deadlock is not checked where the system may stop for good: a tool loop that is done,
updates that are all settled, clients and servers at the end of their bounds.
`MCBackend` adds an explicit stuttering step instead (`AtRest`) for a response that is over and a
gateway with every update settled, so that only what is stuck is a deadlock.

Fairness. `ToolLoop`: the event loop keeps running the nodes of the request; nothing is
assumed of other requests. `ResponseRecovery`: each graph run ends, because tool calls
time out, the recursion limit bounds the nodes and the HTTP client of the model has a
time-out (`_apply_nim_timeout_patch`). `TelegramGateway`: Telegram keeps delivering, runs
and sends end somehow; neither time-outs nor restarts are forced. `CronScheduler`: time
passes, the loop gets to due jobs, runs end; nobody has to start or stop the server,
and `KeepsFiring` speaks of jobs that stay scheduled on a server that stays up.
`FindingsStore`: time passes, nothing else. `ChatRoute`: file operations return, the abort
timer of a stream fires and the handler closes; the backend need not do anything. `Polls`
and `DataStreams`: intervals go on while the page is open and requests return;
`PanelsCatchUp` and `ViewsCatchUp` speak of backends that have settled. `LegacyChat`: the
backend ends each HTTP stream, or it fails, and the time-outs of 200 ms fire; nothing is
assumed of the socket, and `InputComesBack` speaks of HTTP only.

### What the violated runs show

* `guards_terminate`: a partly refused answer ends the request with an exception,
  against `ARCHITECTURE.md` line 201. In analyze mode every refused write does.
* `limit_enforced`: compaction, which `configs/memory.yml` line 10 switches on, evicts the calls that
  the limit guard counts, and the tool is called again; `ARCHITECTURE.md` line 202 calls the limits
  deterministic budgets. `BudgetsHold` is the bound the code keeps.
* `compaction_pairs`: `compress_state` keeps evicted results of failed calls and summarises the
  answers that made them, against `openspec/specs/compaction-message-pairing/spec.md` line 4.
  `EvidenceKeepsItsCall` is what it keeps of that: successful results stay with their call.
* `recovery_silence`: `break` inside the recovery loop skips the loop's `else`, so the
  response ends with no text, against the comment on that line.
* `full_rerun`: a backoff retry that runs out of steps or context leaves the class of the first
  failure in force, which is not recoverable without progress: probe or fallback run the
  exhausted history again in full, against the comment on line 2591.
* `cron_create`: the REST route returns the job with the latest next run.
* `chat_creator`: nothing calls `POST /api/sessions`; the first exchange writes the session,
  without a creator, and the user who began it may not delete it.
* `conversations_wiped`: over HTTP `handleSend` writes back, at the end of an answer, the list its closure
  held before the answer began; a conversation begun meanwhile is lost. The comment at `Chat.tsx` line 895
  names this "conversation wiping" where the WebSocket path avoids it. `NothingLost` is what
  is left: nothing else is lost, and by nothing else.

### Observed while modelling

The models have the following as the code has it, and no property claims otherwise.

* A recovered response emits no `task_complete`, against
  `openspec/changes/platform-jobs-panel/specs/task-complete-signal/spec.md` line 16.
* Malformed findings and embedding errors are counted as failures of Milvus
  (`findings_store.py` lines 43 and 564).
* In the typewriter a small delta that arrives while words are queued is shown ahead of them
  (`use-typewriter.ts` line 134); `EveryPieceOnce` therefore speaks of which pieces, not
  of their order.
* The total of a user is computed and shown but compared with no limit, against
  `chat-cost-guardrails/spec.md` line 4 (of the change `model-cost-governance`), and the default
  fallback model is dearer than two of those it may stand in for, against its line 19. Requests to the
  fallback model are not limited, one after the other as often as anybody asks, and a usage may
  exceed its estimate: a session's total has no bound. An unknown fallback is refused only in production.
* The last span of a trace is counted twice in its duration (`observability.ts` lines 237 and 569): the
  time of an END event is the end already.
* Traces within one minute are spread over as many buckets as there are traces, ten at most, against
  `openspec/specs/observability-trend-charts/spec.md` line 16, which wants a single one.
* Of two requests that write a session's file, or the users', the later overwrites what the earlier added;
  `StoredOnceWhole` and `EmailsUnique` speak of what is there, and hold of it.
* After a rename or a deletion an older load of the same sidebar may return last: the list shows the state
  before, also in the cache, for up to a minute (`use-sessions.ts` line 58).
* A running step may show no row, and the end of a call closes the row of another call of its tool.
* The effect that loads the tools aborts its own fetch when the flag it set renders it again;
  the composer then stays without the list (`chat-panel.tsx` line 945).
* The thumb of an answer that was streamed is refused, since its message has no id on the
  server yet, and the history that is loaded later does not carry thumbs.
* The rows of the conversation count a step again whose row was cut, and a history that is
  loaded replaces rows of the answer under way.
* In the legacy UI an answer over HTTP brings a conversation back that was deleted while it streamed; a tag that a chunk cuts is shown as text, a socket's resend takes the last
  message away, and a deletion of a folder leaves the selected conversation in it.
* The legacy typewriter queues again what still waits whenever the content grows
  (`useTypewriter.ts` line 67), and what waits of another message stays in the queue when nothing of
  it was displayed: words are shown twice, until the end of the stream shows the content itself.
  `NoWordLost` therefore allows more words than the message has.
* A prompt of the agent that arrives while another is open replaces it, and a notification does too:
  the first can no longer be answered (the queue that
  `__tests__/components/InteractionModal.test.tsx` line 1372 tests is the test's own). What was
  typed stays and satisfies the next prompt's `required`; an answer goes out under the conversation
  selected by then, and is lost without a word when the socket is gone.
* Each token of the socket is trimmed before it is appended (`Chat.tsx` line 571), which drops the
  spaces between tokens; the model's tokens are whole.
* Upgraded sockets survive `closeAllConnections`, so that a clean exit with one open is a
  forced one after two seconds.

## 4. Proofs

Every safety property of a passing run is a theorem. Each holds for all values of the constants
that satisfy the `ASSUME` of their module, which states types and, where the code has it, more:
in `CronScheduler` the loop gets to a due job within the grace time; in `SessionStore` the name `"system"`
of a session nobody created is no user's, since user ids are `crypto.randomUUID()`
(`lib/users.ts` line 72); in `ToolLoop` `ToolOf` and `SigOf` are functions of the raw call. None
limits the number of users, messages, requests or steps. TLC evaluates them all.

* **ResponseRecovery.** Types, the bound on graph runs, one verdict and the reason for
  silence, for every number of retries and rounds. None is inductive by itself. The invariant `Ind` adds
  what each place of the program knows: how many runs the phases before it can have
  cost at most (which gives `RunsBounded` as a sum over phases), that no verdict was
  given before `finish` or `done`, that `finish` is reached with something to say or with an
  empty message (`Heard`), and that what is retried after the stream is a transient failure
  (`Blame`). `Implements`
  shows that each step is a step of `RequestContract` or a stutter.
* **TelegramGateway.** `LockInv` ties each lock to exactly one handler inside it; both
  mutual exclusion and the absence of leaked locks follow from it, for any set of
  updates, deliveries and restarts. `ForgottenWhenTold` and `SessionsAdvance` follow
  from it and from what the answers of superseded deliveries cannot do.
* **CronScheduler.** `DueIsScheduled`, that only jobs of the store have a run time
  left to deal with, makes cancelling final; `StartedIsNotDue`, that a cron time of which a run was
  started is dealt with, makes it the only one, for periods as short as the code allows.
* **FindingsStore.** `Ind` says what holds while calls wait for the embedder: an asker is
  owed no more than what is saved (`Waiting`), all of it is in the collection (`Durable`),
  and a cached answer holds all of it but for what it is known to lack (`CacheHolds`).
  `AnswersHoldWhatWasSaved` follows, and that nothing saved is lost.
* **ToolLoop** (`ToolLoop_proof`). First, what the operators on histories return: which messages
  `compress_state` and `repair_message_history` keep, what the guards leave of an answer, and
  that they add one result for each call they refuse. `NoCallLeftOpen` then needs that every
  message but the one `tool_node` works on has its results. `EvidenceStaysPaired` needs more: calls
  have ids of their own, and a successful result stands in an unbroken run of results behind its own
  assistant message, which is what the search for the cut relies on. It has a hypothesis,
  `MaxBatch <= 2 * RetainRecent`: `_find_pair_boundary` looks no further back than twice the
  messages it retains, and beyond that the code logs `compaction_boundary_capped` and cuts all the
  same. `BudgetsKept` counts, with compaction and without, the calls that ran and that the
  history, which the guards count, still holds: `RanKnown` says that before the first compaction
  these are all of them, and that an evicted call does not return. It has the hypothesis that there are
  finitely many raw calls. The bounds are those of the configuration, `RecursionLimit` included.
* **The web server** (`WebServer_proof`). `AddressesUnique`: every list of users that waits to be
  written is one with addresses of its own, whatever the file holds by then, so no order of
  the writes can mix two lists. `OneAnswerEach`: `Fits` says place by place what has been
  written to a response, which is what the catch block finds; `Initialised` that a RAG
  conversation being asked was initialised first, by whichever request. `ExchangesStoredOnce`: what
  a file, a request or a write not yet done holds is a record whose exchanges are those of
  chats that say no more, all of what each said and each once; a step may only add to what is said
  (`Later`), so what a request has read stays good while others write. `OnlyCreatorsRemove`
  follows for the owner of a record. `BillsAddUp`: an account is the sum of its bills, in all and
  model by model (`Accounted`), and only bills that were streaming when a request asked may
  still grow (`EarlierAreOver`), so the preflight's comparison stays true of the others. It says
  of a session that its requests reach the model they ask for below the limit only; what fallback
  requests add is not bounded.
  `LinesReadWhole`: a line held unfinished is read as itself, so what follows is read behind it
  as it would be behind everything sent (`ReadsOn`); until a trace id is cut, `buffer` and `out`
  are what `Reads` makes of `sent`. `ThoughtsSeenWhole`: no tag begins in what the parser of thoughts
  shows, whatever follows, because it holds back what may be the beginning of one
  (`HeldIsClear`); so a turn of its loop does not change what will have been told at the end
  (`Tells`), and after a chunk no tag is left in the buffer (`Waits`). `DashboardIsRight`: a bucket holds
  what the events of its trace tell (`Bears`): the least time, the greatest end, whether one
  failed, none of which depends on their order. What follows is about finite sets: they can
  be ranked by numbers (`RankingExists`), which orders the percentiles, and the sizes of the parts
  a key makes of one add up (`PartsAddUp`), as the buckets of the trend do.
* **The cognitive UI's page** (`WebClients_proof`). `RefreshIsFresh`: whoever
  awaits a load to show its change awaits one that was begun after it (`ChangesWillShow`), however
  many it awaits. `FilesGoOnce`, `TitleComesBack` and `MilestonesInOrder`: what the
  draft, the title and the pending attempt may hold at each place. `AnswersAreTheirOwn`: a send
  that nothing disturbed has the last message, with the tokens it has read, in order.
  `RowsAreTrusted`: every step pays for at most one row of its label, be it another's, in each state.
  `TextIsShownOnce`: what is shown, the queue and the remainder are three parts of what was
  consumed (`Whole`).
* **The legacy UI.** `StepsAreKept` (`WebClients_proof`): the tree is changed by one splice, whose
  rows are none of them less deep than the row they make way for, and so no row that stays loses
  its parent. `ConversationsAreKept`: what is stored is what is shown, but for a selection that is
  not stored, and then the list is empty; and the list that an answer under way will write back is one
  of conversations that were there when it was asked for, each once (`StreamsKnown`). `WordsArrive` (`LegacyClients_proof`): what is displayed
  with what is queued covers the content. `PromptsAreDoneOnce`: the prompts that are done with are no
  later than the one shown, and the countdown is as old as it. `AnswersComeHome`: what is on the
  screen, in a list or in `sessionStorage`, and what a call of `handleSend` read before its
  awaits, is a log of questions of one conversation and of tokens their calls have said.
  `AnswersArrive` combines the three.

**Counting and recursion without induction.** The library's induction theorems cannot be
instantiated here, but `WFMin` can be applied to a set: what would fail for some number fails
for a least one (`HasMin`). `Total` in `CostGovernance`, which is the community modules'
recursive `MapThenSumSet`, is handled so: a set of least size for which the sum did not exist
or did not split would have a smaller one. The rows below a step, the ranks of
`PickedIs` and the greatest place of a sequence are found the same way. It works where the
recursion goes over a set or a length that the theorem names, as `Reads`, `Seen` and `Consume` go
over a text; they are recursive functions, not recursive operators, for that reason.

**Only model-checked.** All liveness (`RequestEnds`, `UpdatesSettle`, `KeepsFiring`,
`CircuitCloses`, `StreamCloses`, `PanelsCatchUp`, `ViewsCatchUp`, `InputComesBack` and the
fairness half of `ContractHolds`), which the prover does not reach.

## 5. Not modelled, and the plan

* Memory (`memory/`): retrieval is best-effort context with a time-out per source, and readiness
  a cache of a minute. Two concurrent upserts of one statement lose a source id: the code reads,
  merges and writes without a lock, and nothing is promised.
* Workspace API and deletion tokens: the routes that used `workspace-delete-tokens.ts` are no
  longer in the repository; only tests call it.
* Spawned agents (one graph per call under one time-out, which is `ToolLoop` again), ops tools and
  notes (Docker and SQLite calls, one statement each), the MCP server (one call, one
  time-out), prompts, skills and the query classifier (text), code-analysis tools (dormant),
  evaluation and scripts (offline).
* Presentation of the UIs: rendering, formatting, icons, styles, sign-in pages.
  `JobsStatusIndicator` and `SessionWorkspace` are mounted nowhere.
* Of modelled components: the embedding cache of the findings tools, the search for the trace file,
  costs in the statistics. `config.yml` sets `max_recovery_rounds` per mode;
  `_build_and_register` drops the setting, so every mode gets three rounds: the model takes
  the number as a constant and the run uses three.

What the plan has left: the statistics of costs, and the liveness properties for larger instances.
Of safety nothing that the runs check is left to prove.
