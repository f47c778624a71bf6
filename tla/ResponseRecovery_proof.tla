----------------------- MODULE ResponseRecovery_proof -----------------------
(***************************************************************************)
(* Theorems about ResponseRecovery, for every number of retries and rounds *)
(* and every failure the environment chooses.  One inductive invariant,    *)
(* Ind, carries them all: it says, for each place in _response_fn, how     *)
(* many runs can have been spent, that no verdict has been given yet, and  *)
(* which failure classes can lead there.                                   *)
(***************************************************************************)
EXTENDS ResponseRecovery, TLAPS

\* What the runs spent so far amount to, place by place.
Spent ==
    /\ pc \in {"idle", "prepare", "stream"} => runs = 0
    /\ pc = "reduce"  => runs <= 1
    /\ pc = "backoff" => runs <= 2 + retry
    /\ pc = "probe"   => runs <= 2 + MaxRetries
    /\ pc = "ainvoke" => runs <= 2 + MaxRetries + retry
    /\ pc = "recover" => runs <= 2 + 2 * MaxRetries + round
    /\ runs <= RunBudget

Working == {"idle", "prepare", "stream", "reduce", "backoff", "probe", "ainvoke", "recover"}

\* No verdict before the response is about to end, at most one then.
Unspoken ==
    /\ pc \in Working => answers = 0 /\ partials = 0
    /\ answers + partials <= 1

\* The usual end is reached with something to say, or with an empty message.
Heard == pc = "finish" => content \/ empty \/ answers + partials > 0

\* The failure class a retry loop works on is transient.
Blame ==
    /\ pc \in {"idle", "prepare", "stream"} => failure = "none"
    /\ pc \in {"reduce", "backoff"} => failure \in Transient

Ind == RecoveryTypeOK /\ Spent /\ Unspoken /\ Heard /\ Blame /\ SilenceExplained

----------------------------------------------------------------------------
\* The classes that decide where a failure leads are failure classes, and no
\* class is both always and conditionally recoverable.
LEMMA Classes ==
    /\ AlwaysCompactRecoverable \subseteq FailureClass
    /\ Transient \subseteq FailureClass
    /\ AlwaysCompactRecoverable \cap Transient = {}
    /\ "none" \notin FailureClass
BY DEF AlwaysCompactRecoverable, Transient, FailureClass

\* Where a given-up stream goes: to recovery exactly when that is allowed.
LEMMA WhereStreamsGo ==
    ASSUME NEW class, NEW p
    PROVE  /\ AfterStream(class, p) \subseteq {"recover", "probe", "ainvoke"}
           /\ "recover" \notin AfterStream(class, p) => class \notin AlwaysCompactRecoverable
           /\ \A to \in AfterStream(class, p) :
                 to \in {"probe", "ainvoke"} => class \notin AlwaysCompactRecoverable
BY DEF AfterStream, IsCompactRecoverable

LEMMA InitInd == RecoveryInit => Ind
<1> SUFFICES ASSUME RecoveryInit PROVE Ind
  OBVIOUS
<1>1. PlaceOK
  BY DEF RecoveryInit, PlaceOK
<1>2. CountersOK /\ Spent
  BY RecoveryAssumption DEF RecoveryInit, CountersOK, Spent, RunBudget
<1>3. FlagsOK
  BY DEF RecoveryInit, FlagsOK
<1>4. Unspoken
  BY DEF RecoveryInit, Unspoken
<1>5. Heard /\ Blame /\ SilenceExplained
  BY DEF RecoveryInit, Heard, Blame, SilenceExplained
<1> QED BY <1>1, <1>2, <1>3, <1>4, <1>5 DEF Ind, RecoveryTypeOK

\* The observer counts exactly while the budget is respected.
LEMMA Counting ==
    ASSUME Spent, runs \in Nat, CountRun
    PROVE  runs' = runs + 1 /\ runs' \in Nat
BY DEF Spent, CountRun

LEMMA StepInd == Ind /\ [RecoveryNext]_recoveryVars => Ind'
<1> SUFFICES ASSUME Ind, [RecoveryNext]_recoveryVars PROVE Ind'
  OBVIOUS
<1>0. /\ PlaceOK /\ CountersOK /\ FlagsOK
      /\ Spent /\ Unspoken /\ Heard /\ Blame /\ SilenceExplained
  BY DEF Ind, RecoveryTypeOK
<1>a. CountRun => runs' = runs + 1 /\ runs' \in Nat
  BY <1>0, Counting DEF CountersOK
<1>1. CASE Request \/ Prepare
  <2>1. PlaceOK'
    BY <1>1, <1>0, Classes DEF Request, Prepare, PlaceOK
  <2>2. CountersOK'
    BY <1>1, <1>0, RecoveryAssumption DEF Request, Prepare, CountersOK
  <2>3. FlagsOK'
    BY <1>1, <1>0 DEF Request, Prepare, FlagsOK
  <2>4. Spent'
    BY <1>1, <1>0, RecoveryAssumption DEF Request, Prepare, CountersOK, Spent, RunBudget
  <2>5. Unspoken'
    BY <1>1, <1>0 DEF Request, Prepare, CountersOK, Unspoken, Working
  <2>6. Heard'
    BY <1>1, <1>0 DEF Request, Prepare, CountersOK, Heard, Unspoken, Working
  <2>7. Blame'
    BY <1>1, <1>0, Classes DEF Request, Prepare, Blame, Transient, IsCompactRecoverable
  <2>8. SilenceExplained'
    BY <1>1, <1>0 DEF Request, Prepare, CountersOK, Heard, Unspoken, Working, SilenceExplained
  <2> QED BY <2>1, <2>2, <2>3, <2>4, <2>5, <2>6, <2>7, <2>8 DEF Ind, RecoveryTypeOK
<1>2. CASE StreamEnds
  <2>1. PlaceOK'
    BY <1>2, <1>0, Classes DEF StreamEnds, StreamSome, PlaceOK
  <2>2. CountersOK'
    BY <1>2, <1>0, <1>a, RecoveryAssumption DEF StreamEnds, StreamSome, CountersOK
  <2>3. FlagsOK'
    BY <1>2, <1>0 DEF StreamEnds, StreamSome, FlagsOK
  <2>4. Spent'
    BY <1>2, <1>0, <1>a, RecoveryAssumption DEF StreamEnds, StreamSome, CountersOK, Spent, RunBudget
  <2>5. Unspoken'
    BY <1>2, <1>0 DEF StreamEnds, StreamSome, CountersOK, Unspoken, Working
  <2>6. Heard'
    BY <1>2, <1>0 DEF StreamEnds, StreamSome, CountersOK, Heard, Unspoken, Working
  <2>7. Blame'
    BY <1>2, <1>0, Classes DEF StreamEnds, StreamSome, Blame, Transient, IsCompactRecoverable
  <2>8. SilenceExplained'
    BY <1>2, <1>0 DEF StreamEnds, StreamSome, CountersOK, Heard, Unspoken, Working, SilenceExplained
  <2> QED BY <2>1, <2>2, <2>3, <2>4, <2>5, <2>6, <2>7, <2>8 DEF Ind, RecoveryTypeOK
<1>3. CASE StreamFails
  <2>0. pc' \in {"reduce", "backoff", "recover", "probe", "ainvoke"}
    BY <1>3, WhereStreamsGo DEF StreamFails
  <2>1. PlaceOK'
    BY <1>3, <1>0, <2>0, Classes DEF StreamFails, StreamSome, PlaceOK
  <2>2. CountersOK'
    BY <1>3, <1>0, <1>a, RecoveryAssumption DEF StreamFails, StreamSome, CountersOK
  <2>3. FlagsOK'
    <3>1. exhausted' \in BOOLEAN
      <4>1. exhausted' = (failure' \in AlwaysCompactRecoverable)
        BY <1>3 DEF StreamFails
      <4>2. (failure' \in AlwaysCompactRecoverable) \in BOOLEAN
        OBVIOUS
      <4> QED BY <4>1, <4>2
    <3>2. notes' \in BOOLEAN /\ progress' \in BOOLEAN /\ content' \in BOOLEAN /\ empty' \in BOOLEAN
      BY <1>3, <1>0 DEF StreamFails, StreamSome, FlagsOK
    <3> QED BY <3>1, <3>2 DEF FlagsOK
  <2>4. Spent'
    BY <1>3, <1>0, <1>a, <2>0, RecoveryAssumption DEF StreamFails, StreamSome, CountersOK, Spent, RunBudget
  <2>5. Unspoken'
    BY <1>3, <1>0, <2>0 DEF StreamFails, StreamSome, CountersOK, Unspoken, Working
  <2>6. Heard'
    BY <1>3, <1>0, <2>0 DEF StreamFails, StreamSome, CountersOK, Heard, Unspoken, Working
  <2>7. Blame'
    BY <1>3, <1>0, <2>0, Classes, WhereStreamsGo DEF StreamFails, StreamSome, Blame, Transient, IsCompactRecoverable
  <2>8. SilenceExplained'
    BY <1>3, <1>0, <2>0 DEF StreamFails, StreamSome, CountersOK, Heard, Unspoken, Working, SilenceExplained
  <2> QED BY <2>1, <2>2, <2>3, <2>4, <2>5, <2>6, <2>7, <2>8 DEF Ind, RecoveryTypeOK
<1>4. CASE ReducedStreamFails
  <2>1. PlaceOK'
    BY <1>4, <1>0, Classes DEF ReducedStreamFails, StreamSome, PlaceOK
  <2>2. CountersOK'
    BY <1>4, <1>0, <1>a, RecoveryAssumption DEF ReducedStreamFails, StreamSome, CountersOK
  <2>3. FlagsOK'
    BY <1>4, <1>0 DEF ReducedStreamFails, StreamSome, FlagsOK
  <2>4. Spent'
    BY <1>4, <1>0, <1>a, RecoveryAssumption DEF ReducedStreamFails, StreamSome, CountersOK, Spent, RunBudget
  <2>5. Unspoken'
    BY <1>4, <1>0 DEF ReducedStreamFails, StreamSome, CountersOK, Unspoken, Working
  <2>6. Heard'
    BY <1>4, <1>0 DEF ReducedStreamFails, StreamSome, CountersOK, Heard, Unspoken, Working
  <2>7. Blame'
    BY <1>4, <1>0, Classes DEF ReducedStreamFails, StreamSome, Blame, Transient, IsCompactRecoverable
  <2>8. SilenceExplained'
    BY <1>4, <1>0 DEF ReducedStreamFails, StreamSome, CountersOK, Heard, Unspoken, Working, SilenceExplained
  <2> QED BY <2>1, <2>2, <2>3, <2>4, <2>5, <2>6, <2>7, <2>8 DEF Ind, RecoveryTypeOK
<1>5. CASE BackoffFails
  <2>0. pc' \in {"reduce", "backoff", "recover", "probe", "ainvoke"}
    BY <1>5, WhereStreamsGo DEF BackoffFails
  <2>1. PlaceOK'
    BY <1>5, <1>0, <2>0, Classes DEF BackoffFails, StreamSome, PlaceOK
  <2>2. CountersOK'
    BY <1>5, <1>0, <1>a, RecoveryAssumption DEF BackoffFails, StreamSome, CountersOK
  <2>3. FlagsOK'
    BY <1>5, <1>0 DEF BackoffFails, StreamSome, FlagsOK
  <2>4. Spent'
    <3>1. runs' = runs + 1 /\ runs <= 2 + retry
      BY <1>5, <1>0, <1>a DEF BackoffFails, StreamSome, Spent
    <3>2. CASE retry + 1 < MaxRetries
      BY <1>5, <1>0, <3>1, <3>2, RecoveryAssumption DEF BackoffFails, CountersOK, Spent, RunBudget
    <3>3. CASE ~(retry + 1 < MaxRetries)
      <4>1. retry' = 0 /\ pc' \in {"recover", "probe", "ainvoke"} /\ round' = round
        BY <1>5, <3>3, WhereStreamsGo DEF BackoffFails
      <4>2. runs' <= 2 + MaxRetries
        BY <1>0, <3>1, RecoveryAssumption DEF CountersOK
      <4> QED BY <4>1, <4>2, <3>1, <1>0, RecoveryAssumption DEF CountersOK, Spent, RunBudget
    <3> QED BY <3>2, <3>3
  <2>5. Unspoken'
    BY <1>5, <1>0, <2>0 DEF BackoffFails, StreamSome, CountersOK, Unspoken, Working
  <2>6. Heard'
    BY <1>5, <1>0, <2>0 DEF BackoffFails, StreamSome, CountersOK, Heard, Unspoken, Working
  <2>7. Blame'
    BY <1>5, <1>0, <2>0, Classes, WhereStreamsGo DEF BackoffFails, StreamSome, Blame, Transient, IsCompactRecoverable
  <2>8. SilenceExplained'
    BY <1>5, <1>0, <2>0 DEF BackoffFails, StreamSome, CountersOK, Heard, Unspoken, Working, SilenceExplained
  <2> QED BY <2>1, <2>2, <2>3, <2>4, <2>5, <2>6, <2>7, <2>8 DEF Ind, RecoveryTypeOK
<1>6. CASE ProbeEnds
  <2>1. PlaceOK'
    BY <1>6, <1>0, Classes DEF ProbeEnds, Deliver, PlaceOK
  <2>2. CountersOK'
    BY <1>6, <1>0, <1>a, RecoveryAssumption DEF ProbeEnds, Deliver, CountersOK
  <2>3. FlagsOK'
    BY <1>6, <1>0 DEF ProbeEnds, Deliver, FlagsOK
  <2>4. Spent'
    BY <1>6, <1>0, <1>a, RecoveryAssumption DEF ProbeEnds, Deliver, CountersOK, Spent, RunBudget
  <2>5. Unspoken'
    BY <1>6, <1>0 DEF ProbeEnds, Deliver, CountersOK, Unspoken, Working
  <2>6. Heard'
    BY <1>6, <1>0 DEF ProbeEnds, Deliver, CountersOK, Heard, Unspoken, Working
  <2>7. Blame'
    BY <1>6, <1>0, Classes DEF ProbeEnds, Deliver, Blame, Transient, IsCompactRecoverable
  <2>8. SilenceExplained'
    BY <1>6, <1>0 DEF ProbeEnds, Deliver, CountersOK, Heard, Unspoken, Working, SilenceExplained
  <2> QED BY <2>1, <2>2, <2>3, <2>4, <2>5, <2>6, <2>7, <2>8 DEF Ind, RecoveryTypeOK
<1>7. CASE ProbeFails
  <2>1. PlaceOK'
    BY <1>7, <1>0, Classes DEF ProbeFails, PlaceOK
  <2>2. CountersOK'
    BY <1>7, <1>0, <1>a, RecoveryAssumption DEF ProbeFails, CountersOK
  <2>3. FlagsOK'
    BY <1>7, <1>0 DEF ProbeFails, FlagsOK
  <2>4. Spent'
    BY <1>7, <1>0, <1>a, RecoveryAssumption DEF ProbeFails, CountersOK, Spent, RunBudget
  <2>5. Unspoken'
    BY <1>7, <1>0 DEF ProbeFails, CountersOK, Unspoken, Working
  <2>6. Heard'
    BY <1>7, <1>0 DEF ProbeFails, CountersOK, Heard, Unspoken, Working
  <2>7. Blame'
    BY <1>7, <1>0, Classes DEF ProbeFails, Blame, Transient, IsCompactRecoverable
  <2>8. SilenceExplained'
    BY <1>7, <1>0 DEF ProbeFails, CountersOK, Heard, Unspoken, Working, SilenceExplained
  <2> QED BY <2>1, <2>2, <2>3, <2>4, <2>5, <2>6, <2>7, <2>8 DEF Ind, RecoveryTypeOK
<1>8. CASE AinvokeEnds
  <2>1. PlaceOK'
    BY <1>8, <1>0, Classes DEF AinvokeEnds, InvokeSome, Deliver, PlaceOK
  <2>2. CountersOK'
    BY <1>8, <1>0, <1>a, RecoveryAssumption DEF AinvokeEnds, InvokeSome, Deliver, CountersOK
  <2>3. FlagsOK'
    BY <1>8, <1>0 DEF AinvokeEnds, InvokeSome, Deliver, FlagsOK
  <2>4. Spent'
    BY <1>8, <1>0, <1>a, RecoveryAssumption DEF AinvokeEnds, InvokeSome, Deliver, CountersOK, Spent, RunBudget
  <2>5. Unspoken'
    BY <1>8, <1>0 DEF AinvokeEnds, InvokeSome, Deliver, CountersOK, Unspoken, Working
  <2>6. Heard'
    BY <1>8, <1>0 DEF AinvokeEnds, InvokeSome, Deliver, CountersOK, Heard, Unspoken, Working
  <2>7. Blame'
    BY <1>8, <1>0, Classes DEF AinvokeEnds, InvokeSome, Deliver, Blame, Transient, IsCompactRecoverable
  <2>8. SilenceExplained'
    BY <1>8, <1>0 DEF AinvokeEnds, InvokeSome, Deliver, CountersOK, Heard, Unspoken, Working, SilenceExplained
  <2> QED BY <2>1, <2>2, <2>3, <2>4, <2>5, <2>6, <2>7, <2>8 DEF Ind, RecoveryTypeOK
<1>9. CASE AinvokeFails
  <2>1. PlaceOK'
    BY <1>9, <1>0, Classes DEF AinvokeFails, InvokeSome, PlaceOK
  <2>2. CountersOK'
    BY <1>9, <1>0, <1>a, RecoveryAssumption DEF AinvokeFails, InvokeSome, CountersOK
  <2>3. FlagsOK'
    <3>1. exhausted' \in BOOLEAN
      <4>1. exhausted' = (failure' \in AlwaysCompactRecoverable)
        BY <1>9 DEF AinvokeFails
      <4>2. (failure' \in AlwaysCompactRecoverable) \in BOOLEAN
        OBVIOUS
      <4> QED BY <4>1, <4>2
    <3>2. notes' \in BOOLEAN /\ progress' \in BOOLEAN /\ content' \in BOOLEAN /\ empty' \in BOOLEAN
      BY <1>9, <1>0 DEF AinvokeFails, InvokeSome, FlagsOK
    <3> QED BY <3>1, <3>2 DEF FlagsOK
  <2>4. Spent'
    BY <1>9, <1>0, <1>a, RecoveryAssumption DEF AinvokeFails, InvokeSome, CountersOK, Spent, RunBudget
  <2>5. Unspoken'
    BY <1>9, <1>0 DEF AinvokeFails, InvokeSome, CountersOK, Unspoken, Working
  <2>6. Heard'
    BY <1>9, <1>0 DEF AinvokeFails, InvokeSome, CountersOK, Heard, Unspoken, Working
  <2>7. Blame'
    BY <1>9, <1>0, Classes DEF AinvokeFails, InvokeSome, Blame, Transient, IsCompactRecoverable
  <2>8. SilenceExplained'
    BY <1>9, <1>0 DEF AinvokeFails, InvokeSome, CountersOK, Heard, Unspoken, Working, SilenceExplained, IsCompactRecoverable
  <2> QED BY <2>1, <2>2, <2>3, <2>4, <2>5, <2>6, <2>7, <2>8 DEF Ind, RecoveryTypeOK
<1>10. CASE Finish
  <2>1. PlaceOK'
    BY <1>10, <1>0, Classes DEF Finish, PlaceOK
  <2>2. CountersOK'
    BY <1>10, <1>0, RecoveryAssumption DEF Finish, CountersOK
  <2>3. FlagsOK'
    BY <1>10, <1>0 DEF Finish, FlagsOK
  <2>4. Spent'
    BY <1>10, <1>0, RecoveryAssumption DEF Finish, CountersOK, Spent, RunBudget
  <2>5. Unspoken'
    BY <1>10, <1>0 DEF Finish, CountersOK, Unspoken, Working
  <2>6. Heard'
    BY <1>10, <1>0 DEF Finish, CountersOK, Heard, Unspoken, Working
  <2>7. Blame'
    BY <1>10, <1>0, Classes DEF Finish, Blame, Transient, IsCompactRecoverable
  <2>8. SilenceExplained'
    BY <1>10, <1>0 DEF Finish, CountersOK, Heard, Unspoken, Working, SilenceExplained
  <2> QED BY <2>1, <2>2, <2>3, <2>4, <2>5, <2>6, <2>7, <2>8 DEF Ind, RecoveryTypeOK
<1>11. CASE RoundEnds
  <2>1. PlaceOK'
    BY <1>11, <1>0, Classes DEF RoundEnds, Round, Deliver, PlaceOK
  <2>2. CountersOK'
    BY <1>11, <1>0, <1>a, RecoveryAssumption DEF RoundEnds, Round, Deliver, CountersOK
  <2>3. FlagsOK'
    BY <1>11, <1>0 DEF RoundEnds, Round, Deliver, FlagsOK
  <2>4. Spent'
    BY <1>11, <1>0, <1>a, RecoveryAssumption DEF RoundEnds, Round, Deliver, CountersOK, Spent, RunBudget
  <2>5. Unspoken'
    BY <1>11, <1>0 DEF RoundEnds, Round, Deliver, CountersOK, Unspoken, Working
  <2>6. Heard'
    BY <1>11, <1>0 DEF RoundEnds, Round, Deliver, CountersOK, Heard, Unspoken, Working
  <2>7. Blame'
    BY <1>11, <1>0, Classes DEF RoundEnds, Round, Deliver, Blame, Transient, IsCompactRecoverable
  <2>8. SilenceExplained'
    BY <1>11, <1>0 DEF RoundEnds, Round, Deliver, CountersOK, Heard, Unspoken, Working, SilenceExplained
  <2> QED BY <2>1, <2>2, <2>3, <2>4, <2>5, <2>6, <2>7, <2>8 DEF Ind, RecoveryTypeOK
<1>12. CASE RoundFails
  <2>1. PlaceOK'
    BY <1>12, <1>0, Classes DEF RoundFails, Round, PlaceOK
  <2>2. CountersOK'
    BY <1>12, <1>0, <1>a, RecoveryAssumption DEF RoundFails, Round, CountersOK
  <2>3. FlagsOK'
    BY <1>12, <1>0 DEF RoundFails, Round, FlagsOK
  <2>4. Spent'
    BY <1>12, <1>0, <1>a, RecoveryAssumption DEF RoundFails, Round, CountersOK, Spent, RunBudget
  <2>5. Unspoken'
    BY <1>12, <1>0 DEF RoundFails, Round, CountersOK, Unspoken, Working
  <2>6. Heard'
    BY <1>12, <1>0 DEF RoundFails, Round, CountersOK, Heard, Unspoken, Working
  <2>7. Blame'
    BY <1>12, <1>0, Classes DEF RoundFails, Round, Blame, Transient, IsCompactRecoverable
  <2>8. SilenceExplained'
    BY <1>12, <1>0 DEF RoundFails, Round, CountersOK, Heard, Unspoken, Working, SilenceExplained, IsCompactRecoverable
  <2> QED BY <2>1, <2>2, <2>3, <2>4, <2>5, <2>6, <2>7, <2>8 DEF Ind, RecoveryTypeOK
<1>13. CASE SynthesisEnds
  <2>1. PlaceOK'
    BY <1>13, <1>0, Classes DEF SynthesisEnds, Deliver, PlaceOK
  <2>2. CountersOK'
    BY <1>13, <1>0, <1>a, RecoveryAssumption DEF SynthesisEnds, Deliver, CountersOK
  <2>3. FlagsOK'
    BY <1>13, <1>0 DEF SynthesisEnds, Deliver, FlagsOK
  <2>4. Spent'
    BY <1>13, <1>0, <1>a, RecoveryAssumption DEF SynthesisEnds, Deliver, CountersOK, Spent, RunBudget
  <2>5. Unspoken'
    BY <1>13, <1>0 DEF SynthesisEnds, Deliver, CountersOK, Unspoken, Working
  <2>6. Heard'
    BY <1>13, <1>0 DEF SynthesisEnds, Deliver, CountersOK, Heard, Unspoken, Working
  <2>7. Blame'
    BY <1>13, <1>0, Classes DEF SynthesisEnds, Deliver, Blame, Transient, IsCompactRecoverable
  <2>8. SilenceExplained'
    BY <1>13, <1>0 DEF SynthesisEnds, Deliver, CountersOK, Heard, Unspoken, Working, SilenceExplained
  <2> QED BY <2>1, <2>2, <2>3, <2>4, <2>5, <2>6, <2>7, <2>8 DEF Ind, RecoveryTypeOK
<1>14. CASE SynthesisFails
  <2>1. PlaceOK'
    BY <1>14, <1>0, Classes DEF SynthesisFails, PlaceOK
  <2>2. CountersOK'
    BY <1>14, <1>0, <1>a, RecoveryAssumption DEF SynthesisFails, CountersOK
  <2>3. FlagsOK'
    BY <1>14, <1>0 DEF SynthesisFails, FlagsOK
  <2>4. Spent'
    BY <1>14, <1>0, <1>a, RecoveryAssumption DEF SynthesisFails, CountersOK, Spent, RunBudget
  <2>5. Unspoken'
    BY <1>14, <1>0 DEF SynthesisFails, CountersOK, Unspoken, Working
  <2>6. Heard'
    BY <1>14, <1>0 DEF SynthesisFails, CountersOK, Heard, Unspoken, Working
  <2>7. Blame'
    BY <1>14, <1>0, Classes DEF SynthesisFails, Blame, Transient, IsCompactRecoverable
  <2>8. SilenceExplained'
    BY <1>14, <1>0 DEF SynthesisFails, CountersOK, Heard, Unspoken, Working, SilenceExplained
  <2> QED BY <2>1, <2>2, <2>3, <2>4, <2>5, <2>6, <2>7, <2>8 DEF Ind, RecoveryTypeOK
<1>15. CASE UNCHANGED recoveryVars
  <2>1. PlaceOK'
    BY <1>15, <1>0, Classes DEF recoveryVars, PlaceOK
  <2>2. CountersOK'
    BY <1>15, <1>0, RecoveryAssumption DEF recoveryVars, CountersOK
  <2>3. FlagsOK'
    BY <1>15, <1>0 DEF recoveryVars, FlagsOK
  <2>4. Spent'
    BY <1>15, <1>0, RecoveryAssumption DEF recoveryVars, CountersOK, Spent, RunBudget
  <2>5. Unspoken'
    BY <1>15, <1>0 DEF recoveryVars, CountersOK, Unspoken, Working
  <2>6. Heard'
    BY <1>15, <1>0 DEF recoveryVars, CountersOK, Heard, Unspoken, Working
  <2>7. Blame'
    BY <1>15, <1>0, Classes DEF recoveryVars, Blame, Transient, IsCompactRecoverable
  <2>8. SilenceExplained'
    BY <1>15, <1>0 DEF recoveryVars, CountersOK, Heard, Unspoken, Working, SilenceExplained
  <2> QED BY <2>1, <2>2, <2>3, <2>4, <2>5, <2>6, <2>7, <2>8 DEF Ind, RecoveryTypeOK
<1> QED
  BY <1>1, <1>2, <1>3, <1>4, <1>5, <1>6, <1>7, <1>8, <1>9, <1>10, <1>11, <1>12, <1>13, <1>14, <1>15 DEF RecoveryNext

\* The inductive invariant holds throughout.
THEOREM Invariant == RecoverySpec => []Ind
BY InitInd, StepInd, PTL DEF RecoverySpec

----------------------------------------------------------------------------
\* Type correctness.
THEOREM TypeCorrect == RecoverySpec => []RecoveryTypeOK
BY Invariant, PTL DEF Ind

\* A request costs at most RunBudget graph runs, whatever fails in whatever order.
THEOREM BudgetRespected == RecoverySpec => []RunsBounded
<1>1. Ind => RunsBounded
  BY DEF Ind, Spent, RunsBounded
<1> QED BY <1>1, Invariant, PTL

\* The client never gets an answer and a partial response, nor two of either.
THEOREM VerdictUnique == RecoverySpec => []OneVerdict
<1>1. Ind => OneVerdict
  BY DEF Ind, Unspoken, OneVerdict
<1> QED BY <1>1, Invariant, PTL

\* Silence has one of two reasons: an empty message of the model, or a recovery
\* round that failed for good.
THEOREM SilenceHasReason == RecoverySpec => []SilenceExplained
<1>1. Ind => SilenceExplained
  BY DEF Ind
<1> QED BY <1>1, Invariant, PTL

----------------------------------------------------------------------------
\* Runs start only below the budget and before any verdict.
LEMMA RoomForRun ==
    ASSUME Ind, pc \in Working \ {"idle", "prepare"} PROVE runs < RunBudget
BY RecoveryAssumption DEF Ind, RecoveryTypeOK, CountersOK, Spent, Working, RunBudget

LEMMA ContractStep == Ind /\ Ind' /\ [RecoveryNext]_recoveryVars => [Contract!ContractNext]_(Contract!contractVars)
<1> SUFFICES ASSUME Ind, Ind', [RecoveryNext]_recoveryVars
             PROVE  [Contract!ContractNext]_(Contract!contractVars)
  OBVIOUS
<1> DEFINE RunStep == /\ pc \in Working \ {"idle", "prepare"}
                      /\ CountRun
                      /\ pc' # "idle"
<1>1. ASSUME RunStep, answers' + partials' <= 1, answers' \in Nat, partials' \in Nat
      PROVE  Contract!Run
  <2>1. runs < RunBudget /\ runs' = runs + 1 /\ answers = 0 /\ partials = 0 /\ ~Over
       /\ pc # "idle" /\ pc' # "idle"
    BY <1>1, RoomForRun, Counting DEF Ind, RecoveryTypeOK, CountersOK, Unspoken, Working, Over
  <2> QED
    BY <1>1, <2>1 DEF Contract!Run, Contract!GiveVerdict, Contract!Verdicts
<1>2. answers' + partials' <= 1 /\ answers' \in Nat /\ partials' \in Nat
  BY DEF Ind, RecoveryTypeOK, CountersOK, Unspoken
<1>3. CASE RunStep
  BY <1>1, <1>2, <1>3 DEF Contract!ContractNext
<1>0. CASE Request
  BY <1>0 DEF Request, Over, Contract!ContractNext, Contract!Open, Contract!contractVars
<1>4. CASE Prepare
  BY <1>4 DEF Prepare, Over, Contract!ContractNext, Contract!Close, Contract!contractVars
<1>5. CASE Finish
  BY <1>5 DEF Finish, Over, Contract!ContractNext, Contract!Close, Contract!contractVars
<1>6. CASE UNCHANGED recoveryVars
  BY <1>6 DEF recoveryVars, Over, Contract!contractVars
<1>7. RecoveryNext => RunStep \/ Request \/ Prepare \/ Finish
  BY DEF RecoveryNext, RunStep, StreamEnds, StreamFails, ReducedStreamFails, BackoffFails, StreamSome,
     ProbeEnds, ProbeFails, AinvokeEnds, AinvokeFails, InvokeSome, RoundEnds, RoundFails, Round,
     SynthesisEnds, SynthesisFails, Working, AfterStream
<1> QED BY <1>0, <1>3, <1>4, <1>5, <1>6, <1>7

\* The response function implements the safety half of its contract: every step
\* of it is a run, the end, or a step the contract does not see.
THEOREM Implements == RecoverySpec => ContractSafety
<1>1. RecoveryInit => Contract!ContractInit
  BY DEF RecoveryInit, Over, Contract!ContractInit
<1> QED
  BY <1>1, Invariant, ContractStep, PTL DEF RecoverySpec, ContractSafety, Contract!ContractSpec
=============================================================================
