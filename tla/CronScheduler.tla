--------------------------- MODULE CronScheduler ----------------------------
(***************************************************************************)
(* Scheduled agent tasks: tools/cron_tools.py, the routes of jobs_api.py,  *)
(* and the scheduler's lifecycle and dispatch callback in register.py.     *)
(* APScheduler is external: its Redis job store outlives the process, and  *)
(* it hands a due job to the executor unless an instance of it still runs. *)
(*                                                                         *)
(* Time is cyclic: phase[j] counts the ticks since j's cron time last came *)
(* round, and due[j] says that the scheduler has not dealt with it yet.    *)
(***************************************************************************)
EXTENDS Integers

CONSTANTS
    Ids,       \* job ids
    Periods,   \* ticks between two cron times of a job, by its expression
    Grace,     \* misfire_grace_time
    MaxLag     \* bound: ticks the event loop may be late for a due job

ASSUME CronAssumption ==
    /\ Periods \subseteq Nat \ {0}
    /\ Grace \in Nat /\ MaxLag \in 1 .. Grace

NoReply == [made |-> "none", returned |-> "none"]

VARIABLES
    jobs,     \* ids in the job store
    used,     \* ids ever given to a job
    period, phase, due,
    running,  \* ids whose _run_cron_job is suspended in the callback
    started,  \* observer: ids a run of which started since their last cron time
    up,       \* the server process runs, and with it the scheduler
    reply     \* the job of the last POST /api/jobs/cron, made and returned

cronVars == <<jobs, used, period, phase, due, running, started, up, reply>>

CronInit ==
    /\ jobs = {} /\ used = {} /\ running = {} /\ started = {}
    /\ period \in [Ids -> Periods]
    /\ phase = [j \in Ids |-> 0]
    /\ due = [j \in Ids |-> FALSE]
    /\ up = FALSE
    /\ reply = NoReply

----------------------------------------------------------------------------
\* add_job, once expression and prompt are valid: the first cron time lies
\* ahead, at some distance that depends on the clock.
AddJob(j) ==
    /\ up /\ j \notin used
    /\ jobs' = jobs \cup {j} /\ used' = used \cup {j}
    /\ \E n \in 0 .. period[j] - 1 : phase' = [phase EXCEPT ![j] = n]
    /\ UNCHANGED <<period, due, running, started, up>>

ScheduleCreate(j) == AddJob(j) /\ UNCHANGED reply

\* get_jobs returns the store's jobs in the order of their next run times.
NextRun(j) == IF due'[j] THEN 0 - phase'[j] ELSE period'[j] - phase'[j]

\* The route answers with jobs[-1], under the client's expression and text.
CreateCronJob(j) ==
    /\ AddJob(j)
    /\ \E last \in jobs' :
        /\ \A i \in jobs' : NextRun(i) <= NextRun(last)
        /\ reply' = [made |-> j, returned |-> last]

\* A run that has started goes on.
MutantScheduleCancel(j) ==  \* takes the run time away, not the job
    /\ up /\ j \in jobs
    /\ jobs' = jobs \ {j}
    /\ UNCHANGED <<used, period, phase, due, running, started, up, reply>>
ScheduleCancel(j) ==
    /\ up /\ j \in jobs
    /\ jobs' = jobs \ {j}
    /\ due' = [due EXCEPT ![j] = FALSE]
    /\ UNCHANGED <<used, period, phase, running, started, up, reply>>

----------------------------------------------------------------------------
Turn(j) == (phase[j] + 1) % period[j]

\* While the server is up the loop deals with due jobs before they are late.
ClockTicks ==
    /\ up => \A j \in jobs : due[j] => phase[j] < MaxLag
    /\ phase' = [j \in Ids |-> IF j \in jobs THEN Turn(j) ELSE phase[j]]
    /\ due' = [j \in Ids |-> IF j \in jobs THEN due[j] \/ Turn(j) = 0 ELSE due[j]]
    /\ started' = {j \in started : j \in jobs => Turn(j) # 0}
    /\ UNCHANGED <<jobs, used, period, running, up, reply>>

MutantTimely(j) == phase[j] < 1  \* the library's default grace, a moment
Timely(j) == phase[j] <= Grace

\* A due job is run, or skipped as misfired or because it still runs.
Process(j) ==
    /\ up /\ due[j]
    /\ due' = [due EXCEPT ![j] = FALSE]
    /\ running' = IF Timely(j) THEN running \cup {j} ELSE running
    /\ started' = started \cup (running' \ running)
    /\ UNCHANGED <<jobs, used, period, phase, up, reply>>

\* The callback returns; it logs the exceptions of the agent's run and keeps
\* them from the scheduler.
CronRunEnds(j) ==
    /\ j \in running
    /\ running' = running \ {j}
    /\ UNCHANGED <<jobs, used, period, phase, due, started, up, reply>>

\* shutdown(wait=False), or a crash: runs are cut off, and since their run time
\* was already dealt with, they are not repeated.  The store keeps the jobs.
MutantStop ==  \* puts the run time of a run that is cut off back
    /\ up /\ up' = FALSE
    /\ running' = {}
    /\ due' = [j \in Ids |-> due[j] \/ j \in running \cap jobs]
    /\ reply' = NoReply
    /\ UNCHANGED <<jobs, used, period, phase, started>>
Stop ==
    /\ up /\ up' = FALSE
    /\ running' = {}
    /\ reply' = NoReply
    /\ UNCHANGED <<jobs, used, period, phase, due, started>>

Start ==
    /\ ~up /\ up' = TRUE
    /\ UNCHANGED <<jobs, used, period, phase, due, running, started, reply>>

CronNext ==
    \/ ClockTicks \/ Start \/ Stop
    \/ \E j \in Ids : \/ ScheduleCreate(j) \/ CreateCronJob(j) \/ ScheduleCancel(j)
                      \/ Process(j) \/ CronRunEnds(j)

CronSpec == CronInit /\ [][CronNext]_cronVars

\* Time passes, the loop gets to a due job, and an agent run ends (its graph
\* runs are bounded and its calls time out).  Nothing makes the server start,
\* stop, or a user create or cancel a job.
CronFairness ==
    /\ WF_cronVars(ClockTicks)
    /\ \A j \in Ids : WF_cronVars(Process(j)) /\ WF_cronVars(CronRunEnds(j))

FairCron == CronSpec /\ CronFairness

----------------------------------------------------------------------------
\* Types of the state.
CronTypeOK ==
    /\ jobs \subseteq used /\ used \subseteq Ids /\ running \subseteq used /\ started \subseteq used
    /\ period \in [Ids -> Periods]
    /\ phase \in [Ids -> Nat] /\ \A j \in Ids : phase[j] < period[j]
    /\ due \in [Ids -> BOOLEAN] /\ up \in BOOLEAN
    /\ reply = NoReply \/ reply \in [made : Ids, returned : Ids]

\* A run has a scheduler that knows of it: none survives the server it runs in.
RunsHaveScheduler == running # {} => up

Starts(j) == j \notin running /\ j \in running'

\* A cancelled job starts no further run, not even for a run time that was due
\* when it was cancelled.
CancelledStaysQuiet == [][\A j \in Ids : Starts(j) => j \in jobs]_cronVars

\* A cron time starts one run of its job at most, and the times that a stopped
\* server or an overlapping run missed are never made up for: between two cron
\* times no run starts twice, whatever is cut off, restarted, skipped or late.
OneRunPerTime == [][\A j \in Ids : Starts(j) => j \notin started]_cronVars

\* While the server stays up, a job that stays scheduled is run again and again:
\* neither a failing run nor one that overlaps the next cron time ends that.
KeepsFiring == \A j \in Ids : <>[](j \in jobs /\ up) => []<><<Starts(j)>>_cronVars

\* "The newest job is the last one added": POST answers with the job it made.
CreateReturnsItsJob == reply.made = reply.returned
=============================================================================
