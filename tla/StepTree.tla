------------------------------ MODULE StepTree ------------------------------
(***************************************************************************)
(* The tree of intermediate steps of an answer of the legacy UI            *)
(* (processIntermediateMessage of ui/utils/app/helper.ts): every message   *)
(* of a step takes the place of an earlier one of its id and name, goes    *)
(* below its parent, or to the root.  The tree is written in preorder, the *)
(* order in which the code searches it and shows it, a row for each        *)
(* message and its depth.                                                  *)
(***************************************************************************)
EXTENDS Integers, SequencesExt

CONSTANTS
    StepIds,    \* ids of steps; a message without one is ignored
    StepNames,  \* content.name: a step begins and ends under two names, or one
    ParentId,   \* id -> id of its parent, or NoParent
    NoParent,   \* no parent_id, or one that no step has
    MaxHeard    \* bound: messages

ASSUME StepTreeAssumption ==
    NoParent \notin StepIds /\ ParentId \in [StepIds -> StepIds \cup {NoParent}]

VARIABLES
    override,  \* intermediateStepOverride
    heard,     \* the messages, in order
    tree       \* existingSteps

treeVars == <<override, heard, tree>>

TreeInit == override \in BOOLEAN /\ heard = <<>> /\ tree = <<>>

----------------------------------------------------------------------------
\* The row i with what is below it ends at the row Bottom(t, i).
Bottom(t, i) ==
    CHOOSE j \in i .. Len(t) :
        /\ \A k \in i + 1 .. j : t[k].depth > t[i].depth
        /\ j = Len(t) \/ t[j + 1].depth <= t[i].depth

\* The first of the rows, or 0.
First(is) == IF is = {} THEN 0 ELSE Min(is)

SameStep(r, m) == r.id = m.id /\ r.name = m.name

Row(m, depth) == [id |-> m.id, name |-> m.name, nth |-> m.nth, depth |-> depth]

\* replaceMessage: the steps below the one replaced go with it, and its depth stays.
Overridden(t, i, m) ==
    SubSeq(t, 1, i - 1) \o <<Row(m, t[i].depth)>> \o SubSeq(t, Bottom(t, i) + 1, Len(t))

\* findParentStep, and the message put after what is below the parent, or after all.
Placed(t, m) ==
    LET p == First({i \in DOMAIN t : t[i].id = ParentId[m.id]})
    IN  IF p = 0 THEN Append(t, Row(m, 0))
        ELSE InsertAt(t, Bottom(t, p) + 1, Row(m, t[p].depth + 1))

MutantProcessIntermediateMessage(t, m) ==  \* the names are not compared
    LET i == IF override THEN First({j \in DOMAIN t : t[j].id = m.id}) ELSE 0
    IN  IF i # 0 THEN Overridden(t, i, m) ELSE Placed(t, m)
ProcessIntermediateMessage(t, m) ==
    LET i == IF override THEN First({j \in DOMAIN t : SameStep(t[j], m)}) ELSE 0
    IN  IF i # 0 THEN Overridden(t, i, m) ELSE Placed(t, m)

\* A message of a step comes over the socket, or in the stream of an answer.
StepArrives ==
    \E s \in StepIds, n \in StepNames :
        LET m == [id |-> s, name |-> n, nth |-> Len(heard) + 1]
        IN  /\ Len(heard) < MaxHeard
            /\ heard' = Append(heard, m)
            /\ tree' = ProcessIntermediateMessage(tree, m)
            /\ UNCHANGED override

\* The setting of the user, at any time between two messages.
SetOverride == override' = ~override /\ UNCHANGED <<heard, tree>>

TreeNext == StepArrives \/ SetOverride

StepTreeSpec == TreeInit /\ [][TreeNext]_treeVars

----------------------------------------------------------------------------
Shown(n)   == \E i \in DOMAIN tree : tree[i].nth = n
\* r is in every set of steps that holds the parent of s and, with a step, its parent.
Above(s, r) ==
    \A up \in SUBSET StepIds :
        (\A u \in {s} \cup up : ParentId[u] \in up \cup {NoParent}) => r \in up
Repeats(n) == \E k \in 1 .. n - 1 : SameStep(heard[k], heard[n])

(* No message of a step is lost from the tree but one that a later message of its step
   took the place of, or one below a step that was replaced; and a message below another
   is directly below a message of its parent. *)
NoStepLost ==
    /\ \A n \in DOMAIN heard :
          Shown(n) \/ \E k \in n + 1 .. Len(heard) :
                         /\ Repeats(k)
                         /\ SameStep(heard[k], heard[n]) \/ Above(heard[n].id, heard[k].id)
    /\ \A i \in DOMAIN tree : tree[i].depth > 0 =>
          \E j \in 1 .. i - 1 :
             /\ tree[j].id = ParentId[tree[i].id]
             /\ tree[j].depth = tree[i].depth - 1
             /\ \A k \in j + 1 .. i : tree[k].depth > tree[j].depth
=============================================================================
