---------------------------- MODULE ActivityLog -----------------------------
(***************************************************************************)
(* The activity rows of one answer (mergeActivityEntry of                  *)
(* components/chat/chat-panel.tsx, lib/activity-dedupe.ts): every step of  *)
(* the agent begins once and ends once, its events may be delivered again, *)
(* and the rows say which tools are running.  The rows keep the latest     *)
(* MaxRows of them.                                                        *)
(***************************************************************************)
EXTENDS Integers, FiniteSets, Sequences

CONSTANTS
    Steps,     \* the agent's steps, each with an id of its own
    LabelOf,   \* the label shown for a step: the name of its tool
    MaxRows    \* 40 in the code

ASSUME ActivityAssumption == IsFiniteSet(Steps) /\ MaxRows \in Nat \ {0}

VARIABLES
    progress,  \* what a step is at, in the agent
    rows,      \* activityLog: the row of a step, made by its begin or its end
    seen       \* seenActivityDedupeKeys

activityVars == <<progress, rows, seen>>

Open == {"running", "pending"}
Terminal == {"completed", "failed"}

ActivityInit ==
    /\ progress = [s \in Steps |-> "idle"]
    /\ rows = <<>> /\ seen = {}

----------------------------------------------------------------------------
\* buildActivityDedupeKey of an event with a step id.
MutantDedupeKey(s, status) == <<s>>  \* the end of a step is taken for its begin again
DedupeKey(s, status) == <<s, status>>

\* The row a terminal event closes: the latest open one of the step, else the latest
\* open one with the label.
Latest(is) == CHOOSE i \in is : \A j \in is : j <= i
OpenRows(log)         == {i \in DOMAIN log : log[i].status \in Open}
RowsOfStep(log, s)    == {i \in OpenRows(log) : log[i].step = s}
RowsOfLabel(log, s)   == {i \in OpenRows(log) : LabelOf[log[i].step] = LabelOf[s]}

Closed(log, i, status) == [log EXCEPT ![i].status = status]

LastMax(log) == IF Len(log) <= MaxRows THEN log ELSE SubSeq(log, Len(log) - MaxRows + 1, Len(log))

\* A row for the event, unless the last one says the same.
SaysTheSame(log, s, status) ==
    log # <<>> /\ LabelOf[log[Len(log)].step] = LabelOf[s] /\ log[Len(log)].status = status
Added(log, s, status) ==
    IF SaysTheSame(log, s, status) THEN log
    ELSE LastMax(Append(log, [step |-> s, by |-> status, status |-> status]))

mergeActivityEntry(log, s, status) ==
    IF status \in Terminal /\ RowsOfStep(log, s) # {}
      THEN Closed(log, Latest(RowsOfStep(log, s)), status)
    ELSE IF status \in Terminal /\ RowsOfLabel(log, s) # {}
      THEN Closed(log, Latest(RowsOfLabel(log, s)), status)
    ELSE Added(log, s, status)

\* The mood of the panel while an answer streams, of tools only.
resolveStreamingMood(log) ==
    LET active == Cardinality(OpenRows(log))
    IN  IF active >= 2 THEN "agitated" ELSE IF active = 1 THEN "executing" ELSE "thinking"

\* An event reaches the panel; one that was seen is not merged.
ShowsEvent(s, status) ==
    /\ rows' = IF DedupeKey(s, status) \in seen THEN rows ELSE mergeActivityEntry(rows, s, status)
    /\ seen' = seen \cup {DedupeKey(s, status)}

StepBegins(s, status) ==
    /\ progress[s] = "idle" /\ progress' = [progress EXCEPT ![s] = status]
    /\ ShowsEvent(s, status)

StepEnds(s, status) ==
    /\ progress[s] \in Open /\ progress' = [progress EXCEPT ![s] = status]
    /\ ShowsEvent(s, status)

\* The backend repeats an event, with the same step and status.
Repeated(s, status) ==
    /\ DedupeKey(s, status) \in seen
    /\ ShowsEvent(s, status) /\ UNCHANGED progress

StepReports(s) ==
    \/ \E status \in Open : StepBegins(s, status)
    \/ \E status \in Terminal : StepEnds(s, status)
    \/ \E status \in Open \cup Terminal : Repeated(s, status)

ActivityNext == \E s \in Steps : StepReports(s)

ActivitySpec == ActivityInit /\ [][ActivityNext]_activityVars

----------------------------------------------------------------------------
RowsShowing(log, s, status) == {i \in DOMAIN log : LabelOf[log[i].step] = LabelOf[s] /\ log[i].status = status}
CallsAt(s, statuses) == {o \in Steps : LabelOf[o] = LabelOf[s] /\ progress[o] \in statuses}

(* Of no tool are more rows shown running than it has steps that run, or more completed,
   or more failed, than have, although the begin of a step may show no row of its own and
   its end may close the row of another call of the tool: rows and calls agree in number,
   not one by one.  When all is done nothing is left spinning, the panel is not agitated
   over a single step, and until the earliest rows go each way a tool ended is shown. *)
RowsMatchCalls ==
    /\ \A s \in Steps :
          /\ Cardinality(RowsOfLabel(rows, s)) <= Cardinality(CallsAt(s, Open))
          /\ \A status \in Terminal :
                Cardinality(RowsShowing(rows, s, status)) <= Cardinality(CallsAt(s, {status}))
    /\ resolveStreamingMood(rows) = "agitated" => Cardinality({s \in Steps : progress[s] \in Open}) >= 2
    /\ Len(rows) < MaxRows =>
          \A s \in Steps : progress[s] \in Terminal => RowsShowing(rows, s, progress[s]) # {}
=============================================================================
