-------------------------- MODULE TelegramGateway --------------------------
(***************************************************************************)
(* The Telegram webhook gateway (telegram/bot.py, session_bridge.py): the  *)
(* handlers of concurrent deliveries share one event loop and, per chat, a *)
(* lock and a session override.  A handler is atomic between two awaits.   *)
(* Telegram itself is external: it keeps an update until a 2xx answer, and *)
(* delivers it again after an error, a timeout or a lost connection.       *)
(***************************************************************************)
EXTENDS Integers, FiniteSets

CONSTANTS
    Updates,        \* the updates users send
    ChatOf,         \* the chat of an update
    KindOf,         \* "prompt", "reset", or "ignored" by the filters
    MaxDeliveries,  \* bound: deliveries before Telegram drops an update
    MaxCrashes      \* bound: restarts of the server process

Chats      == {ChatOf[u] : u \in Updates}
Deliveries == Updates \X (1 .. MaxDeliveries)

ASSUME GatewayAssumption ==
    /\ DOMAIN ChatOf = Updates
    /\ KindOf \in [Updates -> {"prompt", "reset", "ignored"}]
    /\ MaxDeliveries \in Nat \ {0} /\ MaxCrashes \in Nat

VARIABLES
    status,    \* Telegram's view of an update: those a user sent wait there at first,
               \* and are posted whenever Telegram gets to them
    tries,     \* deliveries of an update so far
    handler,   \* the await a delivery's handler is suspended at
    latest,    \* generation of the session a reset made or a run used last
    locked,    \* _locks[chat].locked()
    override,  \* _SESSION_OVERRIDES: generation of the chat's session, 0 the default
    wired,     \* builder_stream_fn was resolved
    crashes,
    told       \* updates whose chat was sent a message about them

gatewayVars == <<status, tries, handler, latest, locked, override, wired, crashes, told>>

chatOf(d) == ChatOf[d[1]]
Inside    == {"running", "replying"}         \* between acquire and release
Sending   == {"replying", "resetting", "refusing"}

GatewayInit ==
    /\ status \in [Updates -> {"unsent", "pending"}]
    /\ tries = [u \in Updates |-> 0]
    /\ handler = [d \in Deliveries |-> "none"]
    /\ latest = [c \in Chats |-> 0]
    /\ locked = [c \in Chats |-> FALSE]
    /\ override = [c \in Chats |-> 0]
    /\ wired \in BOOLEAN
    /\ crashes = 0
    /\ told = {}

----------------------------------------------------------------------------
\* Telegram posts a pending update, for the tries[u] + 1st time.
newest(u) == <<u, tries[u] + 1>>
Posts(u) ==
    /\ status[u] = "pending" /\ tries[u] < MaxDeliveries
    /\ tries' = [tries EXCEPT ![u] = @ + 1]
    /\ UNCHANGED <<wired, crashes, told>>

\* Wrong kind of update, group chat, chat not allowed, empty text: 200, no reply.
HandleIgnored(u) ==
    /\ Posts(u) /\ KindOf[u] = "ignored"
    /\ status' = [status EXCEPT ![u] = "done"]
    /\ handler' = [handler EXCEPT ![newest(u)] = "over"]
    /\ UNCHANGED <<latest, locked, override>>

\* /reset takes effect at once, whoever holds the chat's lock.
MutantHandleReset(u) ==  \* the new session id is not stored
    /\ Posts(u) /\ KindOf[u] = "reset"
    /\ status' = [status EXCEPT ![u] = "inflight"]
    /\ handler' = [handler EXCEPT ![newest(u)] = "resetting"]
    /\ latest' = [latest EXCEPT ![ChatOf[u]] = override[ChatOf[u]] + 1]
    /\ UNCHANGED <<locked, override>>
HandleReset(u) ==
    /\ Posts(u) /\ KindOf[u] = "reset"
    /\ status' = [status EXCEPT ![u] = "inflight"]
    /\ handler' = [handler EXCEPT ![newest(u)] = "resetting"]
    /\ override' = [override EXCEPT ![ChatOf[u]] = @ + 1]
    /\ latest' = [latest EXCEPT ![ChatOf[u]] = override'[ChatOf[u]]]
    /\ UNCHANGED locked

HandleBusy(u) ==
    /\ Posts(u) /\ KindOf[u] = "prompt"
    /\ locked[ChatOf[u]]
    /\ status' = [status EXCEPT ![u] = "inflight"]
    /\ handler' = [handler EXCEPT ![newest(u)] = "refusing"]
    /\ UNCHANGED <<latest, locked, override>>

\* No await separates the test of the lock from its acquisition, nor that from
\* the choice of the session the run uses.
MutantHandlePrompt(u) ==  \* a lock of its own for every handler
    /\ Posts(u) /\ KindOf[u] = "prompt"
    /\ locked' = [locked EXCEPT ![ChatOf[u]] = TRUE]
    /\ status' = [status EXCEPT ![u] = "inflight"]
    /\ handler' = [handler EXCEPT ![newest(u)] = IF wired THEN "running" ELSE "replying"]
    /\ latest' = [latest EXCEPT ![ChatOf[u]] = override[ChatOf[u]]]
    /\ UNCHANGED override
HandlePrompt(u) ==
    /\ Posts(u) /\ KindOf[u] = "prompt"
    /\ ~locked[ChatOf[u]]
    /\ locked' = [locked EXCEPT ![ChatOf[u]] = TRUE]
    /\ status' = [status EXCEPT ![u] = "inflight"]
    /\ handler' = [handler EXCEPT ![newest(u)] = IF wired THEN "running" ELSE "replying"]
    /\ latest' = [latest EXCEPT ![ChatOf[u]] = override[ChatOf[u]]]
    /\ UNCHANGED override

----------------------------------------------------------------------------
\* The answer of a delivery Telegram has given up waiting for is discarded.
Answers(d, verdict) ==
    status' = IF status[d[1]] = "inflight" /\ tries[d[1]] = d[2]
                THEN [status EXCEPT ![d[1]] = verdict] ELSE status

\* The handler returns or raises; leaving "async with" releases the lock.
Leaves(d) ==
    /\ handler' = [handler EXCEPT ![d] = "over"]
    /\ locked' = IF handler[d] \in Inside
                   THEN [locked EXCEPT ![chatOf(d)] = FALSE] ELSE locked

RunEnds(d) ==
    /\ handler[d] = "running"
    /\ handler' = [handler EXCEPT ![d] = "replying"]
    /\ UNCHANGED <<status, tries, latest, locked, override, wired, crashes, told>>

\* The workflow raises, or the typing loop did: its exception surfaces when
\* the finally clause awaits it, and the response of the run is lost.
MutantRunFails(d) ==  \* the exception path does not release the lock
    /\ handler[d] = "running"
    /\ handler' = [handler EXCEPT ![d] = "over"]
    /\ Answers(d, "pending")
    /\ UNCHANGED <<locked, tries, latest, override, wired, crashes, told>>
RunFails(d) ==
    /\ handler[d] = "running"
    /\ Leaves(d) /\ Answers(d, "pending")
    /\ UNCHANGED <<tries, latest, override, wired, crashes, told>>

SendEnds(d) ==
    /\ handler[d] \in Sending
    /\ Leaves(d) /\ Answers(d, "done")
    /\ told' = told \cup {d[1]}
    /\ UNCHANGED <<tries, latest, override, wired, crashes>>

\* Markdown the API refuses, a network error, or a timeout after the message
\* did arrive.
MutantSendFails(d) ==  \* a failed send is logged and answered with 200
    /\ handler[d] \in Sending
    /\ Leaves(d) /\ Answers(d, "done")
    /\ told' \in {told, told \cup {d[1]}}
    /\ UNCHANGED <<tries, latest, override, wired, crashes>>
MutantSendRetries(d) ==  \* a reply that cannot be sent is generated again, and again
    \/ /\ handler[d] = "replying"
       /\ handler' = [handler EXCEPT ![d] = "running"]
       /\ UNCHANGED <<status, tries, latest, locked, override, wired, crashes, told>>
    \/ /\ handler[d] \in Sending \ {"replying"}
       /\ Leaves(d) /\ Answers(d, "pending")
       /\ told' \in {told, told \cup {d[1]}}
       /\ UNCHANGED <<tries, latest, override, wired, crashes>>
SendFails(d) ==
    /\ handler[d] \in Sending
    /\ Leaves(d) /\ Answers(d, "pending")
    /\ told' \in {told, told \cup {d[1]}}
    /\ UNCHANGED <<tries, latest, override, wired, crashes>>

----------------------------------------------------------------------------
\* Telegram stops waiting for the answer; the handler goes on.
TimesOut(u) ==
    /\ status[u] = "inflight"
    /\ status' = [status EXCEPT ![u] = "pending"]
    /\ UNCHANGED <<tries, handler, latest, locked, override, wired, crashes, told>>

Drops(u) ==
    /\ status[u] = "pending" /\ tries[u] = MaxDeliveries
    /\ status' = [status EXCEPT ![u] = "dropped"]
    /\ UNCHANGED <<tries, handler, latest, locked, override, wired, crashes, told>>

\* Handlers, locks and overrides live in the process and are gone with it.
Restart ==
    /\ crashes < MaxCrashes
    /\ crashes' = crashes + 1
    /\ status' = [u \in Updates |-> IF status[u] = "inflight" THEN "pending" ELSE status[u]]
    /\ handler' = [d \in Deliveries |-> IF handler[d] = "none" THEN "none" ELSE "over"]
    /\ latest' = [c \in Chats |-> 0]
    /\ locked' = [c \in Chats |-> FALSE]
    /\ override' = [c \in Chats |-> 0]
    /\ UNCHANGED <<tries, wired, told>>

Handles(u) == HandleIgnored(u) \/ HandleReset(u) \/ HandleBusy(u) \/ HandlePrompt(u)
Proceeds(d) == RunEnds(d) \/ RunFails(d) \/ SendEnds(d) \/ SendFails(d)

GatewayNext ==
    \/ \E u \in Updates : Handles(u) \/ TimesOut(u) \/ Drops(u)
    \/ \E d \in Deliveries : Proceeds(d)
    \/ Restart

GatewaySpec == GatewayInit /\ [][GatewayNext]_gatewayVars

\* Telegram keeps delivering, workflow and sends end one way or the other (the
\* agent's runs are bounded, see ResponseRecovery; the bot's HTTP calls time
\* out).  Nothing obliges Telegram to time out, or the process to restart.
GatewayFairness ==
    /\ \A u \in Updates : WF_gatewayVars(Handles(u) \/ Drops(u))
    /\ \A d \in Deliveries : WF_gatewayVars(Proceeds(d))

FairGateway == GatewaySpec /\ GatewayFairness

----------------------------------------------------------------------------
\* Types of the state.
GatewayTypeOK ==
    /\ status \in [Updates -> {"unsent", "pending", "inflight", "done", "dropped"}]
    /\ tries \in [Updates -> 0 .. MaxDeliveries]
    /\ handler \in [Deliveries -> {"none", "over"} \cup Inside \cup Sending]
    /\ latest \in [Chats -> Nat] /\ override \in [Chats -> Nat]
    /\ locked \in [Chats -> BOOLEAN] /\ wired \in BOOLEAN
    /\ crashes \in 0 .. MaxCrashes
    /\ told \subseteq Updates

\* The per-chat concurrency guard: at most one agent request per chat at a time,
\* redeliveries of the same update included.
OneRunPerChat == \A d, e \in Deliveries :
    (handler[d] \in Inside /\ handler[e] \in Inside /\ chatOf(d) = chatOf(e)) => d = e

\* A chat is refused as busy only while a handler really works for it: no
\* exception path and no restart leaves the lock behind.
NoLeakedLock == \A c \in Chats :
    locked[c] => \E d \in Deliveries : chatOf(d) = c /\ handler[d] \in Inside

\* Telegram forgets an update only after its chat was told something about it:
\* an answer, the busy message or the confirmation of a reset.
ForgottenWhenTold == \A u \in Updates :
    (status[u] = "done" /\ KindOf[u] # "ignored") => u \in told

\* Within the life of the process no run works in a session older than one that
\* a reset or an earlier run of its chat has established.
SessionsAdvance ==
    [][\A c \in Chats : crashes' = crashes => latest[c] <= latest'[c]]_gatewayVars

\* Whatever fails, an update that was sent is settled in the end.
UpdatesSettle == <>[](\A u \in Updates : status[u] \in {"unsent", "done", "dropped"})
=============================================================================
