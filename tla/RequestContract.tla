-------------------------- MODULE RequestContract --------------------------
(***************************************************************************)
(* What one chat request is promised, whatever the model endpoint does:    *)
(* a bounded number of graph runs, at most one verdict (the text of a      *)
(* complete run, or the structured partial response), no run and no        *)
(* verdict once the response is over, and an end.  How runs, retries and   *)
(* recovery rounds are ordered is left to ResponseRecovery.                *)
(***************************************************************************)
EXTENDS Integers

CONSTANT Budget   \* graph runs a request may cost

VARIABLES used, verdict, open, asked

contractVars == <<used, verdict, open, asked>>

Verdicts == {"none", "answer", "partial"}

ContractInit == used = 0 /\ verdict = "none" /\ open = FALSE /\ asked = FALSE

\* Asked once; nothing obliges a client to.
Open ==
    /\ ~asked
    /\ asked' = TRUE /\ open' = TRUE
    /\ UNCHANGED <<used, verdict>>

\* A verdict, once given, is final.
GiveVerdict == verdict' = verdict \/ (verdict = "none" /\ verdict' \in Verdicts)

\* A run of the graph; it may end the response at once.
Run ==
    /\ open /\ used < Budget
    /\ used' = used + 1
    /\ verdict = "none" /\ GiveVerdict
    /\ open' \in BOOLEAN
    /\ UNCHANGED asked

\* The response ends without another run.
Close ==
    /\ open
    /\ open' = FALSE
    /\ UNCHANGED <<used, verdict, asked>>

ContractNext == Open \/ Run \/ Close

ContractSpec == ContractInit /\ [][ContractNext]_contractVars
FairContract == ContractSpec /\ WF_contractVars(Close)
=============================================================================
