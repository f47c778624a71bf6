------------------------ MODULE CronScheduler_proof -------------------------
(***************************************************************************)
(* Theorems about CronScheduler for any set of jobs and cron expressions.  *)
(* DueIsScheduled is what makes cancelling final: a cancelled job has no   *)
(* run time left that the scheduler could still act on.                    *)
(***************************************************************************)
EXTENDS CronScheduler, TLAPS

DueIsScheduled == \A j \in Ids : due[j] => j \in jobs

\* What makes a cron time good for one run: a job that has run since its last
\* cron time is not due until the next one.
StartedIsNotDue == \A j \in started : ~due[j]

Ind == CronTypeOK /\ RunsHaveScheduler /\ DueIsScheduled /\ StartedIsNotDue

\* Cron times are at least a tick apart.
LEMMA PeriodsPositive ==
    ASSUME NEW p \in Periods
    PROVE  p \in Nat /\ 0 < p
<1>1. p \in Nat \ {0}
  BY CronAssumption
<1> QED BY <1>1

\* A cron time comes round within the period.
LEMMA TurnInPeriod ==
    ASSUME CronTypeOK, NEW j \in Ids
    PROVE  Turn(j) \in Nat /\ Turn(j) < period[j]
<1>1. period[j] \in Periods /\ phase[j] \in Nat
  BY DEF CronTypeOK
<1>2. period[j] \in Nat /\ 0 < period[j]
  BY <1>1, PeriodsPositive
<1> QED BY <1>1, <1>2 DEF Turn

LEMMA InitInd == CronInit => Ind
<1> SUFFICES ASSUME CronInit PROVE Ind
  OBVIOUS
<1>0. \A j \in Ids : period[j] \in Periods
  BY DEF CronInit
<1>1. \A j \in Ids : 0 < period[j]
  BY <1>0, PeriodsPositive
<1>2. CronTypeOK
  BY <1>1 DEF CronInit, CronTypeOK
<1>3. RunsHaveScheduler /\ DueIsScheduled /\ StartedIsNotDue
  BY DEF CronInit, RunsHaveScheduler, DueIsScheduled, StartedIsNotDue
<1> QED BY <1>2, <1>3 DEF Ind

LEMMA StepInd == Ind /\ [CronNext]_cronVars => Ind'
<1> SUFFICES ASSUME Ind, [CronNext]_cronVars PROVE Ind'
  OBVIOUS
<1>0. CronTypeOK /\ RunsHaveScheduler /\ DueIsScheduled /\ StartedIsNotDue
  BY DEF Ind
<1>1. ASSUME NEW j \in Ids, AddJob(j), reply' = NoReply \/ reply' \in [made : Ids, returned : Ids]
      PROVE  Ind'
  <2>1. PICK n \in 0 .. period[j] - 1 : phase' = [phase EXCEPT ![j] = n]
    BY <1>1 DEF AddJob
  <2>a. period[j] \in Periods
    BY <1>0 DEF CronTypeOK
  <2>2. n \in Nat /\ n < period[j]
    BY <2>1, <2>a, PeriodsPositive
  <2>3. CronTypeOK'
    BY <1>0, <1>1, <2>1, <2>2 DEF AddJob, CronTypeOK, NoReply
  <2>4. RunsHaveScheduler' /\ DueIsScheduled' /\ StartedIsNotDue'
    BY <1>0, <1>1 DEF AddJob, CronTypeOK, RunsHaveScheduler, DueIsScheduled, StartedIsNotDue
  <2> QED BY <2>3, <2>4 DEF Ind
<1>2. ASSUME NEW j \in Ids, ScheduleCreate(j) PROVE Ind'
  <2>1. reply' = NoReply \/ reply' \in [made : Ids, returned : Ids]
    BY <1>0, <1>2 DEF ScheduleCreate, CronTypeOK
  <2> QED BY <1>1, <1>2, <2>1 DEF ScheduleCreate
<1>3. ASSUME NEW j \in Ids, CreateCronJob(j) PROVE Ind'
  <2>1. PICK last \in jobs' : reply' = [made |-> j, returned |-> last]
    BY <1>3 DEF CreateCronJob
  <2>2. last \in Ids
    BY <1>0, <1>3, <2>1 DEF CreateCronJob, AddJob, CronTypeOK
  <2>3. reply' \in [made : Ids, returned : Ids]
    BY <2>1, <2>2
  <2> QED BY <1>1, <1>3, <2>3 DEF CreateCronJob
<1>4. ASSUME NEW j \in Ids, ScheduleCancel(j) PROVE Ind'
  <2>1. CronTypeOK'
    BY <1>0, <1>4 DEF ScheduleCancel, CronTypeOK, NoReply
  <2>2. RunsHaveScheduler' /\ DueIsScheduled' /\ StartedIsNotDue'
    BY <1>0, <1>4 DEF ScheduleCancel, CronTypeOK, RunsHaveScheduler, DueIsScheduled, StartedIsNotDue
  <2> QED BY <2>1, <2>2 DEF Ind
<1>5. CASE ClockTicks
  <2>1. phase' \in [Ids -> Nat] /\ \A j \in Ids : phase'[j] < period'[j]
    BY <1>0, <1>5, TurnInPeriod DEF ClockTicks, CronTypeOK
  <2>2. due' \in [Ids -> BOOLEAN]
    BY <1>0, <1>5 DEF ClockTicks, CronTypeOK
  <2>3. CronTypeOK'
    BY <1>0, <1>5, <2>1, <2>2 DEF ClockTicks, CronTypeOK, NoReply
  <2>4. RunsHaveScheduler' /\ DueIsScheduled' /\ StartedIsNotDue'
    BY <1>0, <1>5 DEF ClockTicks, CronTypeOK, RunsHaveScheduler, DueIsScheduled, StartedIsNotDue
  <2> QED BY <2>3, <2>4 DEF Ind
<1>6. ASSUME NEW j \in Ids, Process(j) PROVE Ind'
  <2>1. running' \subseteq running \cup {j} /\ j \in jobs
    BY <1>0, <1>6 DEF Process, DueIsScheduled
  <2>2. CronTypeOK'
    BY <1>0, <1>6, <2>1 DEF Process, CronTypeOK, NoReply
  <2>3. RunsHaveScheduler' /\ DueIsScheduled' /\ StartedIsNotDue'
    BY <1>0, <1>6 DEF Process, CronTypeOK, RunsHaveScheduler, DueIsScheduled, StartedIsNotDue
  <2> QED BY <2>2, <2>3 DEF Ind
<1>7. ASSUME NEW j \in Ids, CronRunEnds(j) PROVE Ind'
  BY <1>0, <1>7 DEF CronRunEnds, Ind, CronTypeOK, NoReply, RunsHaveScheduler, DueIsScheduled, StartedIsNotDue
<1>8. CASE Start \/ Stop
  BY <1>0, <1>8 DEF Start, Stop, Ind, CronTypeOK, NoReply, RunsHaveScheduler, DueIsScheduled, StartedIsNotDue
<1>9. CASE UNCHANGED cronVars
  BY <1>0, <1>9 DEF cronVars, Ind, CronTypeOK, NoReply, RunsHaveScheduler, DueIsScheduled, StartedIsNotDue
<1> QED BY <1>2, <1>3, <1>4, <1>5, <1>6, <1>7, <1>8, <1>9 DEF CronNext

THEOREM Invariant == CronSpec => []Ind
BY InitInd, StepInd, PTL DEF CronSpec

\* No scheduled run outlives the server it runs in.
THEOREM RunsDieWithServer == CronSpec => []RunsHaveScheduler
<1>1. Ind => RunsHaveScheduler
  BY DEF Ind
<1> QED BY <1>1, Invariant, PTL

\* Runs start from due jobs only.
LEMMA StartsAreDue ==
    ASSUME [CronNext]_cronVars, NEW j \in Ids, Starts(j)
    PROVE  due[j]
BY DEF CronNext, AddJob, ScheduleCreate, CreateCronJob, ScheduleCancel, ClockTicks, Process, CronRunEnds,
   Start, Stop, Starts, cronVars

\* Cancelling is final for every run that has not started.
THEOREM CancelIsFinal == CronSpec => CancelledStaysQuiet
<1>1. Ind /\ [CronNext]_cronVars => [\A j \in Ids : Starts(j) => j \in jobs]_cronVars
  BY StartsAreDue DEF Ind, DueIsScheduled
<1> QED BY <1>1, Invariant, PTL DEF CronSpec, CancelledStaysQuiet

\* A cron time starts one run at most, across overlaps, delays and restarts.
THEOREM OneRunEach == CronSpec => OneRunPerTime
<1>1. Ind /\ [CronNext]_cronVars => [\A j \in Ids : Starts(j) => j \notin started]_cronVars
  BY StartsAreDue DEF Ind, StartedIsNotDue
<1> QED BY <1>1, Invariant, PTL DEF CronSpec, OneRunPerTime
=============================================================================
