----------------------------- MODULE MCBackend ------------------------------
(***************************************************************************)
(* The backend around the agent's tool loop, for TLC: the response         *)
(* function with the two backoff attempts of the code and the three        *)
(* recovery rounds every mode gets; the Telegram gateway with a prompt and *)
(* a reset of one chat and an update the filters ignore from another, so   *)
(* that redelivery meets a busy chat and a changed session; two cron       *)
(* jobs, one of them due as often as the grace time is long; the store of  *)
(* findings with two askers of one question.  These share no state: a      *)
(* behaviour is one of the part it begins with, the others are at rest.    *)
(***************************************************************************)
EXTENDS ResponseRecovery, TelegramGateway, CronScheduler, FindingsStore, TLC

CONSTANTS p1, r1, q1, alice, bob, j1, j2, a1, a2, k1

MCUpdates == {p1, r1, q1}
MCChatOf  == [u \in MCUpdates |-> IF u = q1 THEN bob ELSE alice]
MCKindOf  == (p1 :> "prompt") @@ (r1 :> "reset") @@ (q1 :> "ignored")

\* A tick is half the grace time: a run time can be early, just in time, late.
MCIds     == {j1, j2}
MCPeriods == {2, 5}

MCKeyOf   == [a \in {a1, a2} |-> k1]

VARIABLE part

backendVars == <<recoveryVars, gatewayVars, cronVars, storeVars, part>>

BackendInit ==
    /\ part \in {"response", "telegram", "cron", "findings"}
    /\ RecoveryInit /\ GatewayInit /\ CronInit /\ StoreInit
    /\ status = [u \in Updates |-> IF part = "telegram" THEN "pending" ELSE "unsent"]
    /\ part = "telegram" \/ ~wired
    /\ part = "cron" \/ \A j \in Ids : period[j] = 5

Leave(p, v) == part # p => UNCHANGED v

\* A response that is over changes no more, nor does the gateway when every update
\* is settled; whatever else stops is a deadlock.
AtRest ==
    /\ \/ part = "response" /\ Over
       \/ part = "telegram" /\ \A u \in Updates : status[u] \in {"done", "dropped"}
    /\ UNCHANGED backendVars

BackendNext ==
    \/ /\ UNCHANGED part
       /\ Leave("response", recoveryVars) /\ Leave("telegram", gatewayVars)
       /\ Leave("cron", cronVars) /\ Leave("findings", storeVars)
       /\ \/ part = "response" /\ RecoveryNext
          \/ part = "telegram" /\ GatewayNext
          \/ part = "cron" /\ CronNext
          \/ part = "findings" /\ StoreNext
    \/ AtRest

\* At rest nothing that a part's fairness speaks of is enabled.
BackendSpec ==
    /\ BackendInit /\ [][BackendNext]_backendVars
    /\ RecoveryFairness /\ GatewayFairness /\ CronFairness /\ StoreFairness
=============================================================================
