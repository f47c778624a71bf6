--------------------------- MODULE CostGovernance ---------------------------
(***************************************************************************)
(* What chat requests may cost and have cost (lib/cost-governance.ts and   *)
(* the policy of lib/model-registry.ts): a request reads the total of its  *)
(* session before the backend is asked, and adds to it when the backend    *)
(* reports a usage, any number of awaits later.  The totals live in the    *)
(* process.  Rounding is left out.                                         *)
(***************************************************************************)
EXTENDS Integers, FiniteSets, Sequences, FiniteSetsExt

CONSTANTS
    Names,       \* what a request or the configuration may call a model
    Aliases,     \* MODEL_KEY_ALIASES: the keys of the names that are known
    Registry,    \* MODEL_REGISTRY: policyTag per environment ("none" without one), riskLevel
                 \* and costCategory of a key
    Price,       \* price of a unit of tokens, of the keys in the table
    UnitPrice,   \* that of any other model
    Callers,     \* who asks in which session
    Configs,     \* what readCostGovernanceConfig returns
    SoftLimit, HardLimit,
    Prompts,     \* units of tokens a request is estimated at
    Usages,      \* those the backend reports for it
    MaxBills     \* bound: requests

ASSUME CostAssumption ==
    /\ IsFiniteSet(Names) /\ DOMAIN Aliases \subseteq Names
    /\ \A m \in DOMAIN Price : Price[m] \in Nat
    /\ Prompts \subseteq Nat /\ Usages \subseteq Nat
    /\ UnitPrice \in Nat /\ SoftLimit \in Nat /\ HardLimit \in Nat /\ SoftLimit < HardLimit
    /\ \A c \in Configs : c.fallbackModelKey \in Names

VARIABLES
    config,         \* environment variables of the server
    sessionBudget,  \* sessionBudgetStore: UsageTotals per session
    userBudget,     \* userBudgetStore: UsageTotals per user
    bills           \* the requests in the order of their preflights

costVars == <<config, sessionBudget, userBudget, bills>>

Payers   == {c.user : c \in Callers}
Accounts == {c.session : c \in Callers}

resolveModelKey(name) == IF name \in DOMAIN Aliases THEN Aliases[name] ELSE name
Known(name)  == name \in DOMAIN Aliases /\ Aliases[name] \in DOMAIN Registry
Models       == {resolveModelKey(name) : name \in Names}

\* ensureUsageTotals: what an account begins with.
NoUsage == [totalUsd |-> 0, perModelUsd |-> [m \in Models |-> 0]]

CostInit ==
    /\ config \in Configs
    /\ sessionBudget = [s \in Accounts |-> NoUsage] /\ userBudget = [u \in Payers |-> NoUsage]
    /\ bills = <<>>

----------------------------------------------------------------------------
getModelCostMetadata(name) ==
    IF Known(name) THEN Registry[resolveModelKey(name)]
    ELSE [costCategory |-> "unknown", riskLevel |-> "high"]

getPricingForModel(name) ==
    LET m == resolveModelKey(name)
    IN  IF m \in DOMAIN Price THEN Price[m]
        ELSE IF getModelCostMetadata(m).costCategory = "free" THEN 0 ELSE UnitPrice
estimateRequestCost(units, name) == units * getPricingForModel(name)

getModelPolicyTag(name) ==
    LET env == config.policyEnvironment
        m   == resolveModelKey(name)
    IN  IF ~Known(name) THEN IF env = "production" THEN "block" ELSE "warn"
        ELSE IF Registry[m].policyTag[env] # "none" THEN Registry[m].policyTag[env]
        ELSE IF Registry[m].riskLevel = "high" THEN IF env = "production" THEN "block" ELSE "warn"
        ELSE IF env = "development" THEN "allow" ELSE "warn"

classifyBudgetState(total) ==
    IF total >= HardLimit THEN "limited" ELSE IF total >= SoftLimit THEN "warning" ELSE "ok"

Refusal      == [model |-> "none", state |-> "limited", event |-> "block"]
AtHardLimit(total) == config.enforceHardLimit /\ total >= HardLimit

\* The total of the user is read too, and only reported.
evaluateBudgetPreflight(session, m, estimate) ==
    LET projected == sessionBudget[session].totalUsd + estimate
        fallback  == config.fallbackModelKey
    IN  IF getModelPolicyTag(m) = "block" THEN Refusal
        ELSE IF ~config.enabled
          THEN [model |-> m, state |-> classifyBudgetState(projected),
                event |-> IF getModelPolicyTag(m) = "warn" THEN "warning" ELSE "none"]
        ELSE IF AtHardLimit(projected)
          THEN IF config.hardLimitAction = "block" \/ getModelPolicyTag(fallback) = "block" THEN Refusal
               ELSE [model |-> fallback, state |-> "limited", event |-> "fallback"]
        ELSE IF config.enforceSoftLimit /\ projected >= SoftLimit
          THEN [model |-> m, state |-> "warning", event |-> "warning"]
        ELSE [model |-> m, state |-> "ok", event |-> "none"]

Streaming(session) == {i \in DOMAIN bills : bills[i].at = "streaming" /\ bills[i].caller.session = session}

\* POST /api/chat up to the request to the backend: no await after the totals are read.
PostChat ==
    \E c \in Callers, m \in Names, units \in Prompts :
        LET estimate == estimateRequestCost(units, m)
            result   == evaluateBudgetPreflight(c.session, m, estimate)
        IN  /\ Len(bills) < MaxBills
            /\ bills' = Append(bills,
                   [caller |-> c, asked |-> m, estimate |-> estimate, model |-> result.model,
                    event |-> result.event, state |-> result.state, cost |-> 0,
                    at |-> IF result = Refusal THEN "refused" ELSE "streaming",
                    peers |-> Streaming(c.session)])
            /\ UNCHANGED <<config, sessionBudget, userBudget>>

Adds(totals, m, cost) == [totals EXCEPT !.totalUsd = @ + cost, !.perModelUsd[m] = @ + cost]

\* writeUsage: registerUsageCost for every chunk that reports a usage.
MutantRegisterUsageCost(i, units) ==  \* billed to the model that was asked for
    LET cost == units * getPricingForModel(bills[i].model)
        c    == bills[i].caller
        m    == resolveModelKey(bills[i].model)
    IN  /\ bills[i].at = "streaming"
        /\ sessionBudget' = [sessionBudget EXCEPT ![c.session] = Adds(@, m, cost)]
        /\ userBudget' = [userBudget EXCEPT ![c.user] = Adds(@, resolveModelKey(bills[i].asked), cost)]
        /\ bills' = [bills EXCEPT ![i].cost = @ + cost,
                                  ![i].state = classifyBudgetState(sessionBudget'[c.session].totalUsd)]
        /\ UNCHANGED config
RegisterUsageCost(i, units) ==
    LET cost == units * getPricingForModel(bills[i].model)
        c    == bills[i].caller
        m    == resolveModelKey(bills[i].model)
    IN  /\ bills[i].at = "streaming"
        /\ sessionBudget' = [sessionBudget EXCEPT ![c.session] = Adds(@, m, cost)]
        /\ userBudget' = [userBudget EXCEPT ![c.user] = Adds(@, m, cost)]
        /\ bills' = [bills EXCEPT ![i].cost = @ + cost,
                                  ![i].state = classifyBudgetState(sessionBudget'[c.session].totalUsd)]
        /\ UNCHANGED config

\* What the observability page shows; models that cost nothing need no entry.
toSnapshot(totals) ==
    [totalUsd |-> totals.totalUsd,
     perModel |-> {<<m, totals.perModelUsd[m]>> : m \in {n \in Models : totals.perModelUsd[n] > 0}}]
getSessionCostSnapshot(session) == toSnapshot(sessionBudget[session])
getUserCostSnapshot(user)       == toSnapshot(userBudget[user])

\* A stream that breaks, or times out, before its usage has cost nothing.
StreamOver(i) ==
    /\ bills[i].at = "streaming"
    /\ bills' = [bills EXCEPT ![i].at = "over"]
    /\ UNCHANGED <<config, sessionBudget, userBudget>>

\* Bound: one report of a request.
CostNext ==
    \/ PostChat
    \/ \E i \in DOMAIN bills :
          \/ \E units \in Usages : bills[i].cost = 0 /\ RegisterUsageCost(i, units)
          \/ StreamOver(i)

CostSpec == CostInit /\ [][CostNext]_costVars

----------------------------------------------------------------------------
Total(amounts, S) == MapThenSumSet(LAMBDA x : amounts[x], S)
CostOf(B) == Total([i \in DOMAIN bills |-> bills[i].cost], B)
Where(holds(_)) == {i \in DOMAIN bills : holds(bills[i])}

(* What the observability page shows a user is what the requests of the user have cost,
   in all and model by model, although requests of several users share a session and
   overlap; and so is the total of a session. *)
Bill(B) == [totalUsd |-> CostOf(B),
            perModel |-> {<<m, CostOf({i \in B : resolveModelKey(bills[i].model) = m})>> :
                             m \in {resolveModelKey(bills[i].model) : i \in {j \in B : bills[j].cost > 0}}}]
TotalsAreBills ==
    /\ \A s \in Accounts : getSessionCostSnapshot(s) = Bill(Where(LAMBDA b : b.caller.session = s))
    /\ \A u \in Payers : getUserCostSnapshot(u) = Bill(Where(LAMBDA b : b.caller.user = u))

\* The requests of its session before request i, and those of them that were over.
Earlier(i)  == {j \in 1 .. i - 1 : bills[j].caller.session = bills[i].caller.session}
Before(i)   == Earlier(i) \ bills[i].peers
AtFullPrice == {i \in DOMAIN bills : bills[i].at # "refused" /\ bills[i].event # "fallback"}

(* With enforcement a request reaches the model it asks for only if what its session's
   requests had cost, those apart that were still under way, is below the hard limit with
   the estimate of the request.  It does not bound what a session costs: the requests to
   the fallback model are not limited, and a usage may exceed the estimate.  A model that
   the environment blocks is never asked. *)
OwnModelsBelowLimit ==
    /\ config.enabled /\ config.enforceHardLimit =>
          \A i \in AtFullPrice : CostOf(Before(i)) + bills[i].estimate < HardLimit
    /\ \A i \in DOMAIN bills :
          bills[i].at # "refused" => getModelPolicyTag(bills[i].model) # "block"

(* Nobody gets the fallback model for what others spend: the requests of the session alone
   reach the limit, and the operator has not chosen to block there. *)
FallbacksAreDue == \A i \in DOMAIN bills : bills[i].event = "fallback" =>
    config.hardLimitAction # "block" /\ HardLimit <= CostOf(Earlier(i)) + bills[i].estimate

\* All three: what is let through depends on totals that are right.
BudgetsAddUp == TotalsAreBills /\ OwnModelsBelowLimit /\ FallbacksAreDue
=============================================================================
