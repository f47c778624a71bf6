---------------------------- MODULE ToolLoop_proof ----------------------------
(***************************************************************************)
(* What holds of every request on the agent/tool graph, whatever the tools *)
(* called, the limits and the lengths: no call is left open (NoCallLeft-   *)
(* Open), a successful result keeps its call through guards, compaction    *)
(* and repair (EvidenceStaysPaired), and the guards keep the budgets       *)
(* (BudgetsKept).                                                          *)
(*                                                                         *)
(* Four parts: what the operators on histories return, the invariant that  *)
(* answers every call, the one that pairs evidence, and the one that       *)
(* counts calls.                                                           *)
(***************************************************************************)
EXTENDS ToolLoop, FiniteSetTheorems, SequenceTheorems, TLAPS

----------------------------------------------------------------------------
\* Histories and the operators on them.

CallRecords == [id : Nat, raw : Raw]
Messages == [kind : {"human", "system", "ai", "summary", "tool"}, calls : SUBSET CallRecords,
             id : Nat, error : BOOLEAN]

LEMMA FunctionIsSeq ==
    ASSUME NEW S, NEW n \in Nat, NEW f \in [1 .. n -> S]
    PROVE  f \in Seq(S) /\ Len(f) = n
OBVIOUS

UpTo(I, i) == {j \in I : j <= i}

\* The rank of a number in a finite set of them grows with it.
LEMMA Ranks ==
    ASSUME NEW I \in SUBSET Int, IsFiniteSet(I)
    PROVE  /\ Cardinality(I) \in Nat
           /\ \A i \in I : Cardinality(UpTo(I, i)) \in 1 .. Cardinality(I)
           /\ \A i, j \in I : i < j => Cardinality(UpTo(I, i)) < Cardinality(UpTo(I, j))
<1>1. Cardinality(I) \in Nat
  BY FS_CardinalityType
<1>2. ASSUME NEW i \in I PROVE IsFiniteSet(UpTo(I, i)) /\ Cardinality(UpTo(I, i)) \in 1 .. Cardinality(I)
  <2>1. UpTo(I, i) \in SUBSET I /\ UpTo(I, i) # {} 
    BY DEF UpTo
  <2>2. IsFiniteSet(UpTo(I, i)) /\ Cardinality(UpTo(I, i)) <= Cardinality(I)
    BY <2>1, FS_Subset
  <2>3. Cardinality(UpTo(I, i)) \in Nat /\ Cardinality(UpTo(I, i)) # 0
    BY <2>1, <2>2, FS_CardinalityType, FS_EmptySet
  <2> QED
    BY <1>1, <2>2, <2>3
<1>3. ASSUME NEW i \in I, NEW j \in I, i < j
      PROVE  Cardinality(UpTo(I, i)) < Cardinality(UpTo(I, j))
  <2>0. \A k \in I : k \in Int
    OBVIOUS
  <2>1. UpTo(I, i) \in SUBSET UpTo(I, j) /\ UpTo(I, i) # UpTo(I, j)
    <3>1. UpTo(I, i) \in SUBSET UpTo(I, j)
      <4> SUFFICES ASSUME NEW k \in I, k <= i PROVE k <= j
        BY DEF UpTo
      <4> QED
        BY <1>3, <2>0
    <3>2. j \in UpTo(I, j) /\ j \notin UpTo(I, i)
      BY <1>3, <2>0 DEF UpTo
    <3> QED
      BY <3>1, <3>2
  <2>2. Cardinality(UpTo(I, i)) <= Cardinality(UpTo(I, j)) /\ Cardinality(UpTo(I, i)) # Cardinality(UpTo(I, j))
    BY <1>2, <2>1, FS_Subset
  <2> QED
    BY <1>2, <2>2
<1> QED
  BY <1>1, <1>2, <1>3

\* The k-th number of I, for k = 1, 2, ...: all of I, in increasing order.
LEMMA NthIs ==
    ASSUME NEW I \in SUBSET Int, IsFiniteSet(I)
    PROVE  /\ Cardinality(I) \in Nat
           /\ \A k \in 1 .. Cardinality(I) : Nth(I, k) \in I
           /\ \A i \in I : \E k \in 1 .. Cardinality(I) : Nth(I, k) = i
           /\ \A k, l \in 1 .. Cardinality(I) : k < l <=> Nth(I, k) < Nth(I, l)
<1> DEFINE n == Cardinality(I)
           rank == [i \in I |-> Cardinality(UpTo(I, i))]
<1>1. n \in Nat /\ rank \in [I -> 1 .. n] /\ \A i, j \in I : i < j => rank[i] < rank[j]
  BY Ranks
<1>2. rank \in Injection(I, 1 .. n)
  <2>1. \A i, j \in I : rank[i] = rank[j] => i = j
    BY <1>1
  <2> QED
    BY <1>1, <2>1 DEF Injection, IsInjective
<1>3. rank \in Surjection(I, 1 .. n)
  <2>1. IsFiniteSet(1 .. n) /\ Cardinality(1 .. n) = n
    BY <1>1, FS_Interval
  <2> QED
    BY <1>2, <2>1, FS_Injection
<1>4. \A k \in 1 .. n : \E i \in I : rank[i] = k
  BY <1>3 DEF Surjection
<1>5. ASSUME NEW k \in 1 .. n PROVE Nth(I, k) \in I /\ rank[Nth(I, k)] = k
  <2>1. PICK i \in I : Cardinality({j \in I : j <= i}) = k
    BY <1>4 DEF UpTo
  <2> QED
    BY <2>1 DEF Nth, UpTo
<1>6. \A i \in I : Nth(I, rank[i]) = i /\ rank[i] \in 1 .. n
  BY <1>1, <1>2, <1>5 DEF Injection, IsInjective
<1> HIDE DEF rank
<1>7. ASSUME NEW k \in 1 .. n, NEW l \in 1 .. n PROVE k < l <=> Nth(I, k) < Nth(I, l)
  <2> DEFINE a == Nth(I, k)
             b == Nth(I, l)
  <2>1. a \in I /\ b \in I /\ rank[a] = k /\ rank[b] = l
    BY <1>5
  <2>2. a \in Int /\ b \in Int
    BY <2>1
  <2> HIDE DEF a, b
  <2>3. a < b => k < l
    BY <1>1, <2>1
  <2>4. b < a => l < k
    BY <1>1, <2>1
  <2>5. k < l <=> a < b
    BY <2>1, <2>2, <2>3, <2>4
  <2> QED
    BY <2>5 DEF a, b
<1> QED
  BY <1>1, <1>5, <1>6, <1>7

\* Selected takes the messages at the given places, in order.
LEMMA SelectedIs ==
    ASSUME NEW ms \in Seq(Messages), NEW I \in SUBSET DOMAIN ms
    PROVE  /\ Cardinality(I) \in Nat
           /\ Selected(ms, I) \in Seq(Messages) /\ Len(Selected(ms, I)) = Cardinality(I)
           /\ \A k \in 1 .. Cardinality(I) : Nth(I, k) \in I /\ Selected(ms, I)[k] = ms[Nth(I, k)]
           /\ \A i \in I : \E k \in 1 .. Cardinality(I) : Nth(I, k) = i
           /\ \A k, l \in 1 .. Cardinality(I) : k < l <=> Nth(I, k) < Nth(I, l)
<1>1. Len(ms) \in Nat /\ DOMAIN ms = 1 .. Len(ms)
  BY LenProperties
<1>2. I \in SUBSET Int /\ IsFiniteSet(I)
  <2>1. IsFiniteSet(1 .. Len(ms))
    BY <1>1, FS_Interval
  <2> QED
    BY <1>1, <2>1, FS_Subset
<1> DEFINE n == Cardinality(I)
<1>3. /\ n \in Nat /\ \A k \in 1 .. n : Nth(I, k) \in I
      /\ \A i \in I : \E k \in 1 .. n : Nth(I, k) = i
      /\ \A k, l \in 1 .. n : k < l <=> Nth(I, k) < Nth(I, l)
  BY <1>2, NthIs
<1> DEFINE f == [k \in 1 .. n |-> ms[Nth(I, k)]]
<1>4. f \in [1 .. n -> Messages]
  BY <1>1, <1>3, ElementOfSeq
<1>5. Selected(ms, I) = f
  BY DEF Selected
<1> HIDE DEF f, n
<1>6. f \in Seq(Messages) /\ Len(f) = n
  BY <1>3, <1>4, FunctionIsSeq
<1>7. \A k \in 1 .. n : f[k] = ms[Nth(I, k)]
  BY DEF f
<1> QED
  BY <1>3, <1>5, <1>6, <1>7 DEF n

\* A list of results, which declare no calls.
AreResults(R) ==
    /\ R \in Seq(Messages)
    /\ \A k \in DOMAIN R : IsResult(R[k]) /\ R[k].calls = {}

\* Every call of C has a result in R.
AnsweredIn(C, R) == \A c \in C : \E k \in DOMAIN R : R[k].id = c.id

\* Results answers each of the calls, and nothing else, at most once.
LEMMA ResultsAre ==
    ASSUME NEW C \in SUBSET CallRecords, IsFiniteSet(C), NEW errors
    PROVE  /\ AreResults(Results(C, errors)) /\ AnsweredIn(C, Results(C, errors))
           /\ \A k \in DOMAIN Results(C, errors) : \E c \in C : Results(C, errors)[k].id = c.id
           /\ Len(Results(C, errors)) <= Cardinality(C)
<1> DEFINE ids == {c.id : c \in C}
           n == Cardinality(ids)
           f == [k \in 1 .. n |-> Result(Nth(ids, k), Nth(ids, k) \in errors)]
           m == [c \in C |-> c.id]
<1>1. m \in Surjection(C, ids)
  BY DEF Surjection
<1>2. IsFiniteSet(ids) /\ n <= Cardinality(C)
  BY <1>1, FS_Surjection
<1>3. ids \in SUBSET Int /\ ids \in SUBSET Nat
  BY DEF CallRecords
<1> HIDE DEF ids, n
<1>4. /\ n \in Nat /\ \A k \in 1 .. n : Nth(ids, k) \in ids
      /\ \A i \in ids : \E k \in 1 .. n : Nth(ids, k) = i
  BY <1>2, <1>3, NthIs DEF n
<1>5. \A i \in Nat : Result(i, TRUE) \in Messages /\ Result(i, FALSE) \in Messages
  BY DEF Result, Messages
<1>6. f \in [1 .. n -> Messages]
  <2>1. ASSUME NEW k \in 1 .. n PROVE Result(Nth(ids, k), Nth(ids, k) \in errors) \in Messages
    <3>1. Nth(ids, k) \in Nat
      BY <1>3, <1>4
    <3>2. CASE Nth(ids, k) \in errors
      <4>1. (Nth(ids, k) \in errors) = TRUE
        BY <3>2
      <4> QED
        BY <1>5, <3>1, <4>1
    <3>3. CASE Nth(ids, k) \notin errors
      <4>1. (Nth(ids, k) \in errors) = FALSE
        BY <3>3
      <4> QED
        BY <1>5, <3>1, <4>1
    <3> QED
      BY <3>2, <3>3
  <2> QED
    BY <2>1
<1>7. \A k \in 1 .. n : f[k].id = Nth(ids, k) /\ IsResult(f[k]) /\ f[k].calls = {}
  BY DEF Result, IsResult
<1>8. Results(C, errors) = f
  BY DEF Results, n, ids
<1> HIDE DEF f
<1>9. f \in Seq(Messages) /\ Len(f) = n /\ DOMAIN f = 1 .. n
  BY <1>4, <1>6, FunctionIsSeq
<1>10. ASSUME NEW k \in 1 .. n PROVE \E c \in C : f[k].id = c.id
  <2>1. f[k].id \in ids
    BY <1>4, <1>7
  <2> QED
    BY <2>1 DEF ids
<1>11. ASSUME NEW c \in C PROVE \E k \in 1 .. n : f[k].id = c.id
  <2>1. c.id \in ids
    BY DEF ids
  <2> QED
    BY <1>4, <1>7, <2>1
<1>12. n <= Cardinality(C)
  BY <1>2
<1> QED
  BY <1>7, <1>8, <1>9, <1>10, <1>11, <1>12 DEF AreResults, AnsweredIn

\* A history of a request: it starts with no call and no result, only results carry errors.
WellFormed(ms) ==
    /\ ms \in Seq(Messages) /\ Len(ms) >= 1
    /\ ms[1].calls = {} /\ ~IsResult(ms[1])
    /\ \A i \in DOMAIN ms : /\ IsFiniteSet(ms[i].calls)
                            /\ IsResult(ms[i]) => ms[i].calls = {}
                            /\ ms[i].error => IsResult(ms[i])

\* The calls of the first n messages are answered behind them.
AnsweredTo(ms, n) ==
    \A i \in 1 .. n : \A c \in ms[i].calls :
        \E j \in i + 1 .. Len(ms) : IsResult(ms[j]) /\ ms[j].id = c.id

LEMMA AnsweredIsClosed ==
    ASSUME NEW ms, WellFormed(ms), AnsweredTo(ms, Len(ms))
    PROVE  OpenCalls(ms) = {}
<1>1. DOMAIN ms = 1 .. Len(ms) /\ Len(ms) \in Nat
  BY LenProperties DEF WellFormed
<1>2. ASSUME NEW x \in Declared(ms) PROVE x \in Answered(ms)
  <2>1. PICK i \in DOMAIN ms : \E c \in ms[i].calls : c.id = x
    BY DEF Declared, DeclaredBy
  <2>2. PICK j \in i + 1 .. Len(ms) : IsResult(ms[j]) /\ ms[j].id = x
    BY <1>1, <2>1 DEF AnsweredTo
  <2>3. j \in DOMAIN ms
    BY <1>1, <2>2
  <2> QED
    BY <2>2, <2>3 DEF Answered
<1> QED
  BY <1>2 DEF OpenCalls

\* The places repair_message_history keeps.
Paired(ms) == DOMAIN ms \ OrphanResults(ms)

\* What Repair keeps: every message but the orphans, with its answered calls.
LEMMA RepairIs ==
    ASSUME NEW ms, WellFormed(ms), NEW I, I = Paired(ms)
    PROVE  /\ Cardinality(I) \in Nat
           /\ Repair(ms) \in Seq(Messages) /\ Len(Repair(ms)) = Cardinality(I)
           /\ DOMAIN Repair(ms) = 1 .. Cardinality(I)
           /\ \A k \in 1 .. Cardinality(I) :
                 /\ Nth(I, k) \in I
                 /\ Repair(ms)[k] = [ms[Nth(I, k)] EXCEPT !.calls = {c \in @ : c.id \in Answered(ms)}]
           /\ \A i \in I : \E k \in 1 .. Cardinality(I) : Nth(I, k) = i
           /\ \A k, l \in 1 .. Cardinality(I) : k < l <=> Nth(I, k) < Nth(I, l)
<1> DEFINE n == Cardinality(I)
           kept == Selected(ms, I)
           f == [i \in DOMAIN kept |-> [kept[i] EXCEPT !.calls = {c \in @ : c.id \in Answered(ms)}]]
<1>1. ms \in Seq(Messages) /\ I \in SUBSET DOMAIN ms
  BY DEF WellFormed, Paired
<1>2. /\ n \in Nat /\ kept \in Seq(Messages) /\ Len(kept) = n
      /\ \A k \in 1 .. n : Nth(I, k) \in I /\ kept[k] = ms[Nth(I, k)]
      /\ \A i \in I : \E k \in 1 .. n : Nth(I, k) = i
      /\ \A k, l \in 1 .. n : k < l <=> Nth(I, k) < Nth(I, l)
  BY <1>1, SelectedIs
<1>3. Repair(ms) = f
  BY DEF Repair, Paired
<1>4. DOMAIN kept = 1 .. n
  BY <1>2
<1> HIDE DEF n, kept
<1>5. f \in [1 .. n -> Messages]
  <2>1. ASSUME NEW i \in 1 .. n
        PROVE [kept[i] EXCEPT !.calls = {c \in @ : c.id \in Answered(ms)}] \in Messages
    <3>1. kept[i] \in Messages
      BY <1>2
    <3> QED
      BY <3>1 DEF Messages
  <2> QED
    BY <1>4, <2>1
<1>6. \A k \in 1 .. n : f[k] = [ms[Nth(I, k)] EXCEPT !.calls = {c \in @ : c.id \in Answered(ms)}]
  BY <1>2, <1>4
<1> HIDE DEF f
<1>7. f \in Seq(Messages) /\ Len(f) = n /\ DOMAIN f = 1 .. n
  BY <1>2, <1>5, FunctionIsSeq
<1> QED
  BY <1>2, <1>3, <1>6, <1>7 DEF n

\* Repair leaves every call answered.
LEMMA RepairKeeps ==
    ASSUME NEW ms, WellFormed(ms), AnsweredTo(ms, Len(ms))
    PROVE  WellFormed(Repair(ms)) /\ AnsweredTo(Repair(ms), Len(Repair(ms)))
<1> DEFINE I == Paired(ms)
           n == Cardinality(I)
           rs == Repair(ms)
<1> HIDE DEF I
<1>1. /\ n \in Nat /\ rs \in Seq(Messages) /\ Len(rs) = n /\ DOMAIN rs = 1 .. n
      /\ \A k \in 1 .. n :
            /\ Nth(I, k) \in I
            /\ rs[k] = [ms[Nth(I, k)] EXCEPT !.calls = {c \in @ : c.id \in Answered(ms)}]
      /\ \A i \in I : \E k \in 1 .. n : Nth(I, k) = i
      /\ \A k, l \in 1 .. n : k < l <=> Nth(I, k) < Nth(I, l)
  BY RepairIs DEF I
<1>2. DOMAIN ms = 1 .. Len(ms) /\ Len(ms) \in Nat /\ ms \in Seq(Messages) /\ Len(ms) >= 1
  BY LenProperties DEF WellFormed
<1>8. I \subseteq DOMAIN ms
  BY DEF I, Paired
<1>3. 1 \in I
  BY <1>2 DEF WellFormed, OrphanResults, I, Paired
<1>4. n >= 1 /\ Nth(I, 1) = 1
  <2>1. PICK k \in 1 .. n : Nth(I, k) = 1
    BY <1>1, <1>3
  <2>2. 1 \in 1 .. n /\ Nth(I, 1) \in I
    BY <1>1, <2>1
  <2>3. k > 1 => Nth(I, 1) < Nth(I, k)
    BY <1>1, <2>1, <2>2
  <2> QED
    BY <1>2, <1>8, <2>1, <2>2, <2>3
<1> HIDE DEF n, rs
<1>5. ASSUME NEW k \in 1 .. n
      PROVE  /\ rs[k].kind = ms[Nth(I, k)].kind /\ rs[k].id = ms[Nth(I, k)].id
             /\ rs[k].error = ms[Nth(I, k)].error
             /\ rs[k].calls = {c \in ms[Nth(I, k)].calls : c.id \in Answered(ms)}
             /\ Nth(I, k) \in DOMAIN ms
  <2>1. Nth(I, k) \in DOMAIN ms
    BY <1>1, <1>8
  <2>2. ms[Nth(I, k)] \in Messages
    BY <1>2, <2>1
  <2> QED
    BY <1>1, <2>1, <2>2 DEF Messages
<1>6. WellFormed(rs)
  <2>1. rs[1].calls = {} /\ ~IsResult(rs[1])
    BY <1>1, <1>4, <1>5 DEF WellFormed, IsResult
  <2>2. ASSUME NEW k \in 1 .. n
        PROVE  /\ IsFiniteSet(rs[k].calls)
               /\ IsResult(rs[k]) => rs[k].calls = {}
               /\ rs[k].error => IsResult(rs[k])
    <3>1. rs[k].calls \in SUBSET ms[Nth(I, k)].calls /\ IsFiniteSet(ms[Nth(I, k)].calls)
      BY <1>5 DEF WellFormed
    <3>2. IsFiniteSet(rs[k].calls)
      BY <3>1, FS_Subset
    <3> QED
      BY <1>5, <3>2 DEF WellFormed, IsResult
  <2> QED
    BY <1>1, <1>4, <2>1, <2>2 DEF WellFormed
<1>7. AnsweredTo(rs, n)
  <2> SUFFICES ASSUME NEW k \in 1 .. n, NEW c \in rs[k].calls
               PROVE  \E l \in k + 1 .. Len(rs) : IsResult(rs[l]) /\ rs[l].id = c.id
    BY DEF AnsweredTo
  <2> DEFINE i == Nth(I, k)
  <2>1. i \in 1 .. Len(ms) /\ c \in ms[i].calls
    BY <1>2, <1>5
  <2>2. PICK j \in i + 1 .. Len(ms) : IsResult(ms[j]) /\ ms[j].id = c.id
    BY <2>1 DEF AnsweredTo
  <2>3. j \in I
    <3>1. c.id \in Declared(ms)
      BY <1>2, <2>1 DEF Declared, DeclaredBy
    <3> QED
      BY <1>2, <2>1, <2>2, <3>1 DEF OrphanResults, I, Paired
  <2>4. PICK l \in 1 .. n : Nth(I, l) = j
    BY <1>1, <2>3
  <2>5. k < l
    BY <1>1, <2>1, <2>2, <2>4
  <2>6. IsResult(rs[l]) /\ rs[l].id = c.id
    BY <1>5, <2>2, <2>4 DEF IsResult
  <2> QED
    BY <1>1, <2>5, <2>6
<1> QED
  BY <1>1, <1>6, <1>7 DEF rs

LEMMA MaxIs ==
    ASSUME NEW S \in SUBSET Int, IsFiniteSet(S), S # {}
    PROVE  Max(S) \in S /\ \A x \in S : x <= Max(S)
<1> DEFINE n == Cardinality(S)
<1>1. /\ n \in Nat /\ \A k \in 1 .. n : Nth(S, k) \in S
      /\ \A i \in S : \E k \in 1 .. n : Nth(S, k) = i
      /\ \A k, l \in 1 .. n : k < l <=> Nth(S, k) < Nth(S, l)
  BY NthIs
<1> HIDE DEF n
<1>2. n \in 1 .. n /\ Nth(S, n) \in S
  <2>1. PICK i \in S : TRUE
    OBVIOUS
  <2>2. PICK k \in 1 .. n : Nth(S, k) = i
    BY <1>1, <2>1
  <2>3. n \in 1 .. n
    BY <1>1, <2>2
  <2> QED
    BY <1>1, <2>3
<1>3. ASSUME NEW x \in S PROVE Nth(S, n) >= x
  <2>1. PICK k \in 1 .. n : Nth(S, k) = x
    BY <1>1
  <2>2. x \in Int /\ Nth(S, n) \in Int
    BY <1>2
  <2>3. ~(n < k)
    BY <1>1
  <2> QED
    BY <1>1, <1>2, <2>1, <2>2, <2>3
<1>4. \E m \in S : \A x \in S : m >= x
  BY <1>2, <1>3
<1>5. Max(S) \in S /\ \A x \in S : Max(S) >= x
  BY <1>4 DEF Max
<1> QED
  BY <1>5

\* Where the loop of _find_pair_boundary stops.
Lowest(ms, retain) == Max({1, Len(ms) - retain - 2 * retain})
LEMMA BoundaryIs ==
    ASSUME NEW ms \in Seq(Messages), NEW retain \in Nat, Len(ms) > retain + 1
    PROVE  /\ Lowest(ms, retain) \in 1 .. Len(ms) - retain
           /\ Lowest(ms, retain) = 1 \/ Lowest(ms, retain) = Len(ms) - 3 * retain
           /\ PairBoundary(ms, retain) \in Lowest(ms, retain) .. Len(ms) - retain
           /\ PairBoundary(ms, retain) = Lowest(ms, retain) \/ ~SplitsPair(ms, PairBoundary(ms, retain))
           /\ \A b \in Lowest(ms, retain) .. Len(ms) - retain :
                 PairBoundary(ms, retain) < b => SplitsPair(ms, b)
<1> DEFINE naive == Len(ms) - retain
           T == {1, naive - 2 * retain}
           low == Lowest(ms, retain)
           S == {b \in low .. naive : b = low \/ ~SplitsPair(ms, b)}
<1>1. Len(ms) \in Nat /\ naive \in Nat /\ naive > 1
  BY LenProperties
<1>2. T \in SUBSET Int /\ T # {} /\ IsFiniteSet(T)
  <2>1. IsFiniteSet({1}) /\ T = {1} \cup {naive - 2 * retain}
    BY FS_Singleton
  <2>2. IsFiniteSet(T)
    BY <2>1, FS_AddElement
  <2> QED
    BY <1>1, <2>2
<1>3. low \in T /\ \A x \in T : x <= low
  <2>1. low = Max(T)
    BY DEF Lowest
  <2> HIDE DEF T
  <2> QED
    BY <1>2, <2>1, MaxIs
<1>4. low \in 1 .. naive /\ (low = 1 \/ low = Len(ms) - 3 * retain)
  BY <1>1, <1>3
<1> HIDE DEF low
<1>5. S \in SUBSET Int /\ S # {} /\ IsFiniteSet(S)
  <2>1. IsFiniteSet(low .. naive)
    BY <1>1, <1>4, FS_Interval
  <2>2. IsFiniteSet(S)
    BY <2>1, FS_Subset
  <2> QED
    BY <1>1, <1>4, <2>2
<1>6. PairBoundary(ms, retain) = Max(S)
  BY DEF PairBoundary, low, Lowest
<1>7. Max(S) \in S /\ \A x \in S : x <= Max(S)
  BY <1>5, MaxIs
<1>8. \A b \in low .. naive : Max(S) < b => b \notin S
  BY <1>1, <1>4, <1>7
<1> QED
  BY <1>1, <1>4, <1>6, <1>7, <1>8 DEF low

ErrorsTo(ms, cut) == {i \in 2 .. cut : ms[i].error}

\* What Compress makes of a history it shortens.
LEMMA CompressIs ==
    ASSUME NEW ms, WellFormed(ms), NEW retain \in Nat,
           NEW cut, cut = PairBoundary(ms, retain),
           NEW p, p = Cardinality(ErrorsTo(ms, cut)),
           NEW cs, cs = Compress(ms, retain), cs # ms
    PROVE  /\ Len(ms) > retain + 1 /\ cut \in 1 .. Len(ms) /\ p \in Nat
           /\ cs \in Seq(Messages) /\ Len(cs) = 2 + p + (Len(ms) - cut)
           /\ cs[1] = ms[1] /\ cs[2] = Summary
           /\ \A k \in 1 .. p : cs[2 + k].error /\ IsResult(cs[2 + k]) /\ cs[2 + k].calls = {}
           /\ \A k \in 1 .. Len(ms) - cut : cs[2 + p + k] = ms[cut + k]
<1> DEFINE I == ErrorsTo(ms, cut)
           head == <<ms[1], Summary>>
           errors == Selected(ms, I)
           recent == From(ms, cut)
<1>1. ms \in Seq(Messages) /\ Len(ms) \in Nat /\ DOMAIN ms = 1 .. Len(ms)
  BY LenProperties DEF WellFormed
<1>14. cs = IF Len(ms) <= retain + 1 \/ I = 2 .. cut THEN ms ELSE head \o errors \o recent
  BY DEF Compress, ErrorsTo
<1> HIDE DEF head, errors, recent, I
<1>2. Len(ms) > retain + 1 /\ cs = head \o errors \o recent
  <2>1. cs = head \o errors \o recent
    BY <1>14, Zenon
  <2>3. ~(Len(ms) <= retain + 1)
    BY <1>14, Zenon
  <2>2. Len(ms) > retain + 1
    BY <1>1, <2>3
  <2> QED
    BY <2>1, <2>2, Zenon
<1>3. cut \in 1 .. Len(ms)
  <2>1. /\ Lowest(ms, retain) \in 1 .. Len(ms) - retain
        /\ cut \in Lowest(ms, retain) .. Len(ms) - retain
    BY <1>1, <1>2, BoundaryIs
  <2> QED
    BY <1>1, <2>1
<1>4. I \in SUBSET DOMAIN ms
  BY <1>1, <1>3 DEF ErrorsTo, I
<1>5. /\ p \in Nat /\ errors \in Seq(Messages) /\ Len(errors) = p
      /\ \A k \in 1 .. p : Nth(I, k) \in I /\ errors[k] = ms[Nth(I, k)]
  BY <1>1, <1>4, SelectedIs DEF errors, I
<1>6. recent \in Seq(Messages) /\ Len(recent) = Len(ms) - cut
      /\ \A k \in 1 .. Len(ms) - cut : recent[k] = ms[cut + k]
  <2>1. \A i \in cut + 1 .. Len(ms) : ms[i] \in Messages
    BY <1>1, <1>3, ElementOfSeq
  <2> QED
    BY <1>1, <1>3, <2>1, SubSeqProperties DEF From, recent
<1>7. head \in Seq(Messages) /\ Len(head) = 2 /\ head[1] = ms[1] /\ head[2] = Summary
  <2>1. ms[1] \in Messages
    BY <1>1, <1>3
  <2>2. Summary \in Messages
    BY DEF Summary, Messages
  <2> QED
    BY <2>1, <2>2 DEF head
<1>8. ASSUME NEW k \in 1 .. p PROVE errors[k].error /\ IsResult(errors[k]) /\ errors[k].calls = {}
  BY <1>4, <1>5 DEF ErrorsTo, WellFormed, I
<1>9. /\ head \o errors \in Seq(Messages) /\ Len(head \o errors) = 2 + p
      /\ \A i \in 1 .. 2 + p : (head \o errors)[i] = IF i <= 2 THEN head[i] ELSE errors[i - 2]
  <2>1. /\ head \o errors \in Seq(Messages) /\ Len(head \o errors) = Len(head) + Len(errors)
        /\ \A i \in 1 .. Len(head) + Len(errors) :
              (head \o errors)[i] = IF i <= Len(head) THEN head[i] ELSE errors[i - Len(head)]
    BY <1>5, <1>7, ConcatProperties
  <2> QED
    BY <1>5, <1>7, <2>1
<1>10. /\ cs \in Seq(Messages) /\ Len(cs) = 2 + p + (Len(ms) - cut)
       /\ \A i \in 1 .. 2 + p + (Len(ms) - cut) :
             cs[i] = IF i <= 2 + p THEN (head \o errors)[i] ELSE recent[i - (2 + p)]
  <2> DEFINE start == head \o errors
  <2>1. start \in Seq(Messages) /\ Len(start) = 2 + p
    BY <1>9
  <2> HIDE DEF start
  <2>2. /\ start \o recent \in Seq(Messages) /\ Len(start \o recent) = Len(start) + Len(recent)
        /\ \A i \in 1 .. Len(start) + Len(recent) :
              (start \o recent)[i] = IF i <= Len(start) THEN start[i] ELSE recent[i - Len(start)]
    BY <1>6, <2>1, ConcatProperties
  <2>3. cs = start \o recent
    BY <1>2 DEF start
  <2>4. Len(start) + Len(recent) = 2 + p + (Len(ms) - cut)
    BY <1>6, <2>1
  <2>5. \A i \in 1 .. 2 + p + (Len(ms) - cut) :
           cs[i] = IF i <= 2 + p THEN start[i] ELSE recent[i - (2 + p)]
    BY <2>1, <2>2, <2>3, <2>4
  <2> QED
    BY <2>2, <2>3, <2>4, <2>5 DEF start
<1>11. cs[1] = ms[1] /\ cs[2] = Summary
  BY <1>1, <1>3, <1>5, <1>7, <1>9, <1>10
<1>12. ASSUME NEW k \in 1 .. p PROVE cs[2 + k] = errors[k]
  <2>1. 2 + k \in 1 .. 2 + p /\ 2 + k > 2 /\ (2 + k) - 2 = k
    BY <1>5
  <2>2. cs[2 + k] = (head \o errors)[2 + k]
    <3>1. 2 + k \in 1 .. 2 + p + (Len(ms) - cut) /\ 2 + k <= 2 + p
      BY <1>1, <1>3, <1>5
    <3> QED
      BY <1>10, <3>1
  <2>3. (head \o errors)[2 + k] = errors[(2 + k) - 2]
    BY <1>9, <2>1
  <2> QED
    BY <2>1, <2>2, <2>3
<1>13. ASSUME NEW k \in 1 .. Len(ms) - cut PROVE cs[2 + p + k] = ms[cut + k]
  <2>1. /\ 2 + p + k \in 1 .. 2 + p + (Len(ms) - cut)
        /\ ~(2 + p + k <= 2 + p) /\ (2 + p + k) - (2 + p) = k
    BY <1>1, <1>3, <1>5
  <2>2. cs[2 + p + k] = recent[(2 + p + k) - (2 + p)]
    BY <1>10, <2>1
  <2> QED
    BY <1>6, <2>1, <2>2
<1> QED
  BY <1>2, <1>3, <1>5, <1>8, <1>10, <1>11, <1>12, <1>13

\* Compaction leaves every call answered: what is cut away is cut from the front.
LEMMA CompressKeeps ==
    ASSUME NEW ms, WellFormed(ms), AnsweredTo(ms, Len(ms)), NEW retain \in Nat
    PROVE  WellFormed(Compress(ms, retain))
           /\ AnsweredTo(Compress(ms, retain), Len(Compress(ms, retain)))
<1> DEFINE cs == Compress(ms, retain)
           cut == PairBoundary(ms, retain)
           p == Cardinality(ErrorsTo(ms, cut))
<1>1. CASE cs = ms
  BY <1>1
<1>2. CASE cs # ms
  <2>1. /\ Len(ms) > retain + 1 /\ cut \in 1 .. Len(ms) /\ p \in Nat
        /\ cs \in Seq(Messages) /\ Len(cs) = 2 + p + (Len(ms) - cut)
        /\ cs[1] = ms[1] /\ cs[2] = Summary
        /\ \A k \in 1 .. p : cs[2 + k].error /\ IsResult(cs[2 + k]) /\ cs[2 + k].calls = {}
        /\ \A k \in 1 .. Len(ms) - cut : cs[2 + p + k] = ms[cut + k]
    BY <1>2, CompressIs
  <2>2. ms \in Seq(Messages) /\ Len(ms) \in Nat /\ DOMAIN ms = 1 .. Len(ms)
    BY LenProperties DEF WellFormed
  <2> HIDE DEF cs, cut, p
  <2>3. DOMAIN cs = 1 .. Len(cs)
    BY <2>1
  <2>4. ASSUME NEW i \in 1 .. Len(cs)
        PROVE  \/ i = 1 /\ cs[i] = ms[1]
               \/ i = 2 /\ cs[i] = Summary
               \/ i \in 3 .. 2 + p /\ cs[i].error /\ IsResult(cs[i]) /\ cs[i].calls = {}
               \/ /\ i - (2 + p) \in 1 .. Len(ms) - cut
                  /\ cs[i] = ms[cut + (i - (2 + p))]
    <3>1. CASE i \in 3 .. 2 + p
      <4>1. i - 2 \in 1 .. p /\ 2 + (i - 2) = i
        BY <2>1, <3>1
      <4> QED
        BY <2>1, <3>1, <4>1
    <3>2. CASE i > 2 + p
      <4>1. i - (2 + p) \in 1 .. Len(ms) - cut /\ 2 + p + (i - (2 + p)) = i
        BY <2>1, <2>2, <3>2
      <4> QED
        BY <2>1, <4>1
    <3> QED
      BY <2>1, <3>1, <3>2
  <2>5. Summary.calls = {} /\ ~IsResult(Summary) /\ ~Summary.error /\ IsFiniteSet({})
    BY FS_EmptySet DEF Summary, IsResult
  <2>6. WellFormed(cs)
    <3>1. ASSUME NEW i \in 1 .. Len(cs)
          PROVE  /\ IsFiniteSet(cs[i].calls) /\ (IsResult(cs[i]) => cs[i].calls = {})
                 /\ (cs[i].error => IsResult(cs[i]))
      <4>1. i - (2 + p) \in 1 .. Len(ms) - cut => cut + (i - (2 + p)) \in DOMAIN ms
        BY <2>1, <2>2
      <4>2. 1 \in DOMAIN ms
        BY <2>1, <2>2
      <4> QED
        BY <2>4, <2>5, <4>1, <4>2 DEF WellFormed
    <3>2. Len(cs) >= 1
      BY <2>1, <2>2
    <3> QED
      BY <2>1, <2>3, <3>1, <3>2 DEF WellFormed
  <2>7. AnsweredTo(cs, Len(cs))
    <3> SUFFICES ASSUME NEW i \in 1 .. Len(cs), NEW c \in cs[i].calls
                 PROVE  \E j \in i + 1 .. Len(cs) : IsResult(cs[j]) /\ cs[j].id = c.id
      BY DEF AnsweredTo
    <3> DEFINE k == i - (2 + p)
    <3>1. k \in 1 .. Len(ms) - cut /\ cs[i] = ms[cut + k]
      BY <2>4, <2>5 DEF WellFormed
    <3>2. cut + k \in 1 .. Len(ms) /\ i = 2 + p + k
      <4>1. k = i - (2 + p) /\ i \in Int /\ k \in Int
        BY <2>1
      <4> HIDE DEF k
      <4> QED
        BY <2>1, <2>2, <3>1, <4>1
    <3>3. PICK j \in cut + k + 1 .. Len(ms) : IsResult(ms[j]) /\ ms[j].id = c.id
      BY <3>1, <3>2 DEF AnsweredTo
    <3> HIDE DEF k
    <3>4. j - cut \in 1 .. Len(ms) - cut /\ cut + (j - cut) = j
      BY <2>1, <2>2, <3>1, <3>3
    <3>5. cs[2 + p + (j - cut)] = ms[j]
      BY <2>1, <3>4
    <3>6. 2 + p + (j - cut) \in i + 1 .. Len(cs)
      BY <2>1, <2>2, <3>1, <3>2, <3>3, <3>4
    <3> QED
      BY <3>3, <3>5, <3>6
  <2> QED
    BY <2>6, <2>7 DEF cs
<1> QED
  BY <1>1, <1>2

LEMMA ResultsAppended ==
    ASSUME NEW ms, WellFormed(ms), NEW R, AreResults(R)
    PROVE  /\ WellFormed(ms \o R) /\ Len(ms \o R) = Len(ms) + Len(R)
           /\ \A i \in 1 .. Len(ms) : (ms \o R)[i] = ms[i]
           /\ \A k \in 1 .. Len(R) : (ms \o R)[Len(ms) + k] = R[k]
           /\ Len(R) \in Nat /\ DOMAIN R = 1 .. Len(R)
<1> DEFINE hs == ms \o R
<1>1. /\ ms \in Seq(Messages) /\ Len(ms) \in Nat /\ DOMAIN ms = 1 .. Len(ms) /\ Len(ms) >= 1
      /\ R \in Seq(Messages) /\ Len(R) \in Nat /\ DOMAIN R = 1 .. Len(R)
  BY LenProperties DEF WellFormed, AreResults
<1>2. /\ hs \in Seq(Messages) /\ Len(hs) = Len(ms) + Len(R)
      /\ \A i \in 1 .. Len(ms) + Len(R) : hs[i] = IF i <= Len(ms) THEN ms[i] ELSE R[i - Len(ms)]
  BY <1>1, ConcatProperties
<1> HIDE DEF hs
<1>3. \A i \in 1 .. Len(ms) : hs[i] = ms[i]
  BY <1>1, <1>2
<1>4. ASSUME NEW k \in 1 .. Len(R) PROVE hs[Len(ms) + k] = R[k]
  <2>1. Len(ms) + k \in 1 .. Len(ms) + Len(R) /\ ~(Len(ms) + k <= Len(ms)) /\ (Len(ms) + k) - Len(ms) = k
    BY <1>1
  <2> QED
    BY <1>2, <2>1
<1>5. ASSUME NEW i \in 1 .. Len(hs)
      PROVE  /\ IsFiniteSet(hs[i].calls) /\ (IsResult(hs[i]) => hs[i].calls = {})
             /\ (hs[i].error => IsResult(hs[i]))
  <2>1. CASE i \in 1 .. Len(ms)
    BY <1>1, <1>3, <2>1 DEF WellFormed
  <2>2. CASE i > Len(ms)
    <3>1. i - Len(ms) \in 1 .. Len(R) /\ Len(ms) + (i - Len(ms)) = i
      BY <1>1, <1>2, <2>2
    <3>2. hs[i] = R[i - Len(ms)]
      BY <1>4, <3>1
    <3> QED
      BY <1>1, <3>1, <3>2, FS_EmptySet DEF AreResults
  <2> QED
    BY <1>1, <1>2, <2>1, <2>2
<1>6. DOMAIN hs = 1 .. Len(hs) /\ Len(hs) >= 1 /\ hs[1] = ms[1]
  BY <1>1, <1>2, <1>3
<1>7. WellFormed(hs)
  BY <1>2, <1>5, <1>6 DEF WellFormed
<1> QED
  BY <1>1, <1>2, <1>3, <1>4, <1>7 DEF hs

\* Results answer what comes before them, and leave answered what was.
LEMMA ResultsAnswer ==
    ASSUME NEW ms, WellFormed(ms), NEW R, AreResults(R), NEW n \in 0 .. Len(ms),
           AnsweredTo(ms, n)
    PROVE  /\ AnsweredTo(ms \o R, n)
           /\ n = Len(ms) => AnsweredTo(ms \o R, Len(ms \o R))
           /\ n = Len(ms) - 1 /\ AnsweredIn(Last(ms).calls, R)
                 => AnsweredTo(ms \o R, Len(ms \o R))
<1> DEFINE hs == ms \o R
<1>1. /\ WellFormed(hs) /\ Len(hs) = Len(ms) + Len(R)
      /\ \A i \in 1 .. Len(ms) : hs[i] = ms[i]
      /\ \A k \in 1 .. Len(R) : hs[Len(ms) + k] = R[k]
      /\ Len(R) \in Nat /\ DOMAIN R = 1 .. Len(R)
  BY ResultsAppended
<1>2. Len(ms) \in Nat
  BY LenProperties DEF WellFormed
<1> HIDE DEF hs
<1>3. ASSUME NEW i \in 1 .. n, NEW c \in hs[i].calls
      PROVE  \E j \in i + 1 .. Len(hs) : IsResult(hs[j]) /\ hs[j].id = c.id
  <2>1. hs[i] = ms[i] /\ i \in 1 .. Len(ms)
    BY <1>1, <1>2
  <2>2. PICK j \in i + 1 .. Len(ms) : IsResult(ms[j]) /\ ms[j].id = c.id
    BY <2>1 DEF AnsweredTo
  <2>3. j \in 1 .. Len(ms) /\ j \in i + 1 .. Len(hs)
    BY <1>1, <1>2, <2>1, <2>2
  <2>4. hs[j] = ms[j]
    BY <1>1, <2>3
  <2> QED
    BY <2>2, <2>3, <2>4
<1>4. ASSUME NEW i \in Len(ms) + 1 .. Len(hs) PROVE hs[i].calls = {}
  <2>1. i - Len(ms) \in 1 .. Len(R) /\ Len(ms) + (i - Len(ms)) = i
    BY <1>1, <1>2
  <2> QED
    BY <1>1, <2>1 DEF AreResults
<1>5. ASSUME n = Len(ms) - 1, AnsweredIn(Last(ms).calls, R), NEW c \in hs[Len(ms)].calls
      PROVE  \E j \in Len(ms) + 1 .. Len(hs) : IsResult(hs[j]) /\ hs[j].id = c.id
  <2>1. hs[Len(ms)] = Last(ms)
    BY <1>1, <1>2, <1>5 DEF Last
  <2>2. PICK k \in 1 .. Len(R) : R[k].id = c.id
    BY <1>1, <1>5, <2>1 DEF AnsweredIn
  <2>3. hs[Len(ms) + k] = R[k] /\ Len(ms) + k \in Len(ms) + 1 .. Len(hs) /\ IsResult(R[k])
    BY <1>1, <1>2, <2>2 DEF AreResults
  <2> QED
    BY <2>2, <2>3
<1>6. AnsweredTo(hs, n)
  BY <1>3 DEF AnsweredTo
<1>7. ASSUME n = Len(ms) PROVE AnsweredTo(hs, Len(hs))
  <2>1. \A i \in 1 .. Len(hs) : i \in 1 .. n \/ i \in Len(ms) + 1 .. Len(hs)
    BY <1>1, <1>2, <1>7
  <2> QED
    BY <1>3, <1>4, <2>1 DEF AnsweredTo
<1>8. ASSUME n = Len(ms) - 1, AnsweredIn(Last(ms).calls, R) PROVE AnsweredTo(hs, Len(hs))
  <2>1. \A i \in 1 .. Len(hs) : i \in 1 .. n \/ i = Len(ms) \/ i \in Len(ms) + 1 .. Len(hs)
    BY <1>1, <1>2, <1>8
  <2> QED
    BY <1>3, <1>4, <1>5, <1>8, <2>1 DEF AnsweredTo
<1> QED
  BY <1>6, <1>7, <1>8 DEF hs

\* The history before the results: what the guards left of the last message.
Trimmed(ms, A) == SubSeq(ms, 1, Len(ms) - 1) \o <<Assistant(A)>>

LEMMA TrimmedIs ==
    ASSUME NEW ms, WellFormed(ms), Len(ms) >= 2, ~IsResult(Last(ms)),
           AnsweredTo(ms, Len(ms) - 1), NEW A \in SUBSET Last(ms).calls
    PROVE  /\ WellFormed(Trimmed(ms, A)) /\ Len(Trimmed(ms, A)) = Len(ms)
           /\ \A i \in 1 .. Len(ms) - 1 : Trimmed(ms, A)[i] = ms[i]
           /\ Last(Trimmed(ms, A)) = Assistant(A)
           /\ AnsweredTo(Trimmed(ms, A), Len(ms) - 1)
<1> DEFINE n == Len(ms)
           front == SubSeq(ms, 1, n - 1)
           hs == Trimmed(ms, A)
<1>1. ms \in Seq(Messages) /\ n \in Nat /\ n >= 2 /\ DOMAIN ms = 1 .. n
  BY LenProperties DEF WellFormed
<1>2. front \in Seq(Messages) /\ Len(front) = n - 1 /\ \A i \in 1 .. n - 1 : front[i] = ms[i]
  <2>1. \A i \in 1 .. n - 1 : ms[i] \in Messages
    BY <1>1, ElementOfSeq
  <2> HIDE DEF n
  <2>2. /\ SubSeq(ms, 1, n - 1) \in Seq(Messages)
        /\ Len(SubSeq(ms, 1, n - 1)) = IF 1 <= n - 1 THEN (n - 1) - 1 + 1 ELSE 0
        /\ \A i \in 1 .. (n - 1) - 1 + 1 : SubSeq(ms, 1, n - 1)[i] = ms[1 + i - 1]
    BY <1>1, <2>1, SubSeqProperties
  <2> QED
    BY <1>1, <2>2
<1>3. ms[n] \in Messages /\ Last(ms) = ms[n]
  BY <1>1 DEF Last
<1>4. Assistant(A) \in Messages /\ Assistant(A).calls = A /\ ~IsResult(Assistant(A)) /\ ~Assistant(A).error
  BY <1>3 DEF Assistant, Messages, IsResult
<1>5. <<Assistant(A)>> \in Seq(Messages) /\ Len(<<Assistant(A)>>) = 1 /\ <<Assistant(A)>>[1] = Assistant(A)
  BY <1>4
<1> HIDE DEF front, n
<1>6. /\ hs \in Seq(Messages) /\ Len(hs) = n
      /\ \A i \in 1 .. n : hs[i] = IF i <= n - 1 THEN ms[i] ELSE Assistant(A)
  <2> DEFINE last == <<Assistant(A)>>
  <2> HIDE DEF last
  <2>1. /\ front \o last \in Seq(Messages) /\ Len(front \o last) = Len(front) + Len(last)
        /\ \A i \in 1 .. Len(front) + Len(last) :
              (front \o last)[i] = IF i <= Len(front) THEN front[i] ELSE last[i - Len(front)]
    BY <1>2, <1>5, ConcatProperties DEF last
  <2>2. hs = front \o last
    BY DEF Trimmed, front, last, n
  <2>3. Len(last) = 1 /\ last[1] = Assistant(A) /\ Len(front) + Len(last) = n
    BY <1>1, <1>2, <1>5 DEF last
  <2>4. ASSUME NEW i \in 1 .. n PROVE hs[i] = IF i <= n - 1 THEN ms[i] ELSE Assistant(A)
    <3>1. CASE i <= n - 1
      BY <1>1, <1>2, <2>1, <2>2, <2>3, <3>1
    <3>2. CASE i = n
      <4>1. i - Len(front) = 1 /\ ~(i <= Len(front)) /\ ~(i <= n - 1)
        BY <1>1, <1>2, <3>2
      <4> QED
        BY <2>1, <2>2, <2>3, <4>1
    <3> QED
      BY <1>1, <3>1, <3>2
  <2> QED
    BY <2>1, <2>2, <2>3, <2>4
<1> HIDE DEF hs
<1>7. /\ \A i \in 1 .. n - 1 : hs[i] = ms[i]
      /\ hs[n] = Assistant(A) /\ Last(hs) = Assistant(A) /\ DOMAIN hs = 1 .. n
  BY <1>1, <1>6 DEF Last
<1>8. IsFiniteSet(A)
  BY <1>1, <1>3, FS_Subset DEF WellFormed
<1>9. WellFormed(hs)
  <2>1. ASSUME NEW i \in 1 .. n
        PROVE  /\ IsFiniteSet(hs[i].calls) /\ (IsResult(hs[i]) => hs[i].calls = {})
               /\ (hs[i].error => IsResult(hs[i]))
    <3>1. CASE i \in 1 .. n - 1
      BY <1>1, <1>7, <3>1 DEF WellFormed
    <3>2. CASE i = n
      BY <1>4, <1>7, <1>8, <3>2
    <3> QED
      BY <1>1, <3>1, <3>2
  <2>2. hs[1] = ms[1]
    BY <1>1, <1>7
  <2> QED
    BY <1>1, <1>6, <1>7, <2>1, <2>2 DEF WellFormed
<1>10. AnsweredTo(hs, n - 1)
  <2> SUFFICES ASSUME NEW i \in 1 .. n - 1, NEW c \in hs[i].calls
               PROVE  \E j \in i + 1 .. Len(hs) : IsResult(hs[j]) /\ hs[j].id = c.id
    BY DEF AnsweredTo
  <2>1. PICK j \in i + 1 .. n : IsResult(ms[j]) /\ ms[j].id = c.id
    BY <1>7 DEF AnsweredTo, n
  <2>2. j # n
    BY <1>3, <2>1
  <2>3. j \in 1 .. n - 1
    BY <1>1, <2>1, <2>2
  <2> QED
    BY <1>1, <1>6, <1>7, <2>1, <2>3
<1> QED
  BY <1>6, <1>7, <1>9, <1>10 DEF hs, n

\* The guards pick from the calls of the last message.
LEMMA ScreenIs ==
    ASSUME NEW ms, WellFormed(ms)
    PROVE  /\ Last(ms).calls \in SUBSET CallRecords /\ IsFiniteSet(Last(ms).calls)
           /\ Screen(ms).admitted \in SUBSET Last(ms).calls
           /\ Screen(ms).refused \in SUBSET Last(ms).calls
           /\ Screen(ms).put_off \in SUBSET Last(ms).calls
<1>1. ms \in Seq(Messages) /\ Len(ms) \in DOMAIN ms
  BY LenProperties DEF WellFormed
<1>2. Last(ms).calls \in SUBSET CallRecords /\ IsFiniteSet(Last(ms).calls)
  <2>1. ms[Len(ms)] \in Messages
    BY <1>1
  <2> QED
    BY <1>1, <2>1 DEF Last, Messages, WellFormed
<1> QED
  BY <1>2 DEF Screen, Dedupe, InParallel

LEMMA RefusalsAre ==
    ASSUME NEW C \in SUBSET CallRecords, IsFiniteSet(C), NEW errors
    PROVE  /\ AreResults(Results(C, errors)) /\ AnsweredIn(C, Results(C, errors))
           /\ AreResults(Refusals(C)) /\ AnsweredIn(C, Refusals(C))
<1>1. ASSUME NEW e PROVE AreResults(Results(C, e)) /\ AnsweredIn(C, Results(C, e))
  BY ResultsAre
<1> QED
  BY <1>1 DEF Refusals

----------------------------------------------------------------------------
\* Every call is answered.

Pcs == {"agent", "model", "retry", "tool", "done", "failed"}

TypeOK ==
    /\ mode \in Modes /\ pc \in Pcs
    /\ steps \in 0 .. RecursionLimit /\ cooldown \in Nat /\ nextId \in Nat \ {0}
    /\ ran \in SUBSET CallRecords /\ IsFiniteSet(ran)
    /\ WellFormed(msgs)

HistoryAnswered ==
    /\ pc \in {"agent", "model", "retry", "done"} => AnsweredTo(msgs, Len(msgs))
    /\ pc = "tool" =>
          Len(msgs) >= 2 /\ ~IsResult(Last(msgs)) /\ AnsweredTo(msgs, Len(msgs) - 1)

Ind == TypeOK /\ HistoryAnswered

\* What tool_node makes of the history, whatever the results R of the calls it admits.
LEMMA ToolNodeKeeps ==
    ASSUME WellFormed(msgs), HistoryAnswered, pc = "tool", NEW R, AreResults(R)
    PROVE  /\ WellFormed(Screened(msgs)) /\ WellFormed(Screened(msgs) \o R)
           /\ AnsweredIn(Screen(msgs).admitted, R)
                 => AnsweredTo(Screened(msgs) \o R, Len(Screened(msgs) \o R))
           /\ Screen(msgs).admitted = {} => AnsweredTo(Screened(msgs), Len(Screened(msgs)))
<1> DEFINE s == Screen(msgs)
           ts == Trimmed(msgs, s.admitted)
           ss == Screened(msgs)
           n == Len(msgs)
<1>1. /\ s.admitted \in SUBSET Last(msgs).calls /\ s.refused \in SUBSET CallRecords
      /\ IsFiniteSet(s.refused) /\ n \in Nat /\ n >= 2
  <2>1. n \in Nat
    BY LenProperties DEF WellFormed
  <2>2. /\ s.admitted \in SUBSET Last(msgs).calls /\ s.refused \in SUBSET Last(msgs).calls
        /\ Last(msgs).calls \in SUBSET CallRecords /\ IsFiniteSet(Last(msgs).calls)
    BY ScreenIs
  <2> QED
    BY <2>1, <2>2, FS_Subset DEF HistoryAnswered
<1> HIDE DEF s
<1>2. /\ WellFormed(ts) /\ Len(ts) = n /\ Last(ts).calls = s.admitted
      /\ AnsweredTo(ts, n - 1)
  BY <1>1, TrimmedIs DEF HistoryAnswered, Assistant
<1>3. AreResults(Refusals(s.refused))
  BY <1>1, RefusalsAre
<1>4. ss = ts \o Refusals(s.refused)
  BY DEF Screened, Trimmed, s
<1> HIDE DEF ts, ss, n
<1>5. n - 1 \in 0 .. Len(ts)
  BY <1>1, <1>2
<1>6. WellFormed(ss) /\ AnsweredTo(ss, n - 1)
  BY <1>2, <1>3, <1>4, <1>5, ResultsAppended, ResultsAnswer
<1>7. WellFormed(ss \o R)
  BY <1>6, ResultsAppended
<1>8. ASSUME s.admitted = {} PROVE AnsweredTo(ss, Len(ss))
  <2>1. AnsweredIn(Last(ts).calls, Refusals(s.refused))
    BY <1>2, <1>8 DEF AnsweredIn
  <2> QED
    BY <1>2, <1>3, <1>4, <1>5, <2>1, ResultsAnswer
<1>9. ASSUME AnsweredIn(s.admitted, R) PROVE AnsweredTo(ss \o R, Len(ss \o R))
  <2> DEFINE F == Refusals(s.refused)
             FR == F \o R
  <2>1. /\ F \in Seq(Messages) /\ R \in Seq(Messages) /\ ts \in Seq(Messages)
        /\ Len(F) \in Nat /\ Len(R) \in Nat /\ DOMAIN F = 1 .. Len(F) /\ DOMAIN R = 1 .. Len(R)
    BY <1>2, <1>3, LenProperties DEF AreResults, WellFormed
  <2> HIDE DEF F
  <2>2. ss \o R = ts \o FR
    BY <1>4, <2>1, ConcatAssociative DEF F
  <2>3. /\ FR \in Seq(Messages) /\ Len(FR) = Len(F) + Len(R)
        /\ \A i \in 1 .. Len(F) + Len(R) : FR[i] = IF i <= Len(F) THEN F[i] ELSE R[i - Len(F)]
    BY <2>1, ConcatProperties
  <2> HIDE DEF FR
  <2>4. DOMAIN FR = 1 .. Len(F) + Len(R)
    BY <2>1, <2>3
  <2>5. AreResults(FR)
    <3>1. ASSUME NEW i \in 1 .. Len(F) + Len(R) PROVE IsResult(FR[i]) /\ FR[i].calls = {}
      <4>1. i <= Len(F) => i \in DOMAIN F
        BY <2>1
      <4>2. ~(i <= Len(F)) => i - Len(F) \in DOMAIN R
        BY <2>1
      <4> QED
        BY <1>3, <2>3, <4>1, <4>2 DEF AreResults, F
    <3> QED
      BY <2>3, <2>4, <3>1 DEF AreResults
  <2>6. AnsweredIn(s.admitted, FR)
    <3> SUFFICES ASSUME NEW c \in s.admitted PROVE \E k \in DOMAIN FR : FR[k].id = c.id
      BY DEF AnsweredIn
    <3>1. PICK k \in 1 .. Len(R) : R[k].id = c.id
      BY <1>9, <2>1 DEF AnsweredIn
    <3>2. /\ Len(F) + k \in 1 .. Len(F) + Len(R) /\ ~(Len(F) + k <= Len(F))
          /\ (Len(F) + k) - Len(F) = k
      BY <2>1
    <3>3. FR[Len(F) + k] = R[k]
      BY <2>3, <3>2
    <3> QED
      BY <2>4, <3>1, <3>2, <3>3
  <2> QED
    BY <1>2, <1>5, <2>2, <2>5, <2>6, ResultsAnswer
<1> QED
  BY <1>6, <1>7, <1>8, <1>9 DEF s, ss

\* An answer of the model is put behind a history whose calls are answered.
LEMMA ModelAnswersKeeps ==
    ASSUME Ind, NEW batch \in Batch, ModelAnswers(batch)
    PROVE  Ind'
<1> DEFINE calls == {[id |-> nextId + i - 1, raw |-> batch[i]] : i \in DOMAIN batch}
           hs == Append(msgs, Assistant(calls))
           n == Len(msgs)
<1>1. /\ pc \in {"model", "retry"} /\ msgs' = hs /\ nextId' = nextId + Len(batch)
      /\ pc' = (IF batch = <<>> THEN "done" ELSE "tool")
      /\ UNCHANGED <<mode, steps, cooldown, ran, failure>>
  BY DEF ModelAnswers
<1>2. PICK m \in 0 .. MaxBatch : batch \in [1 .. m -> Raw]
  BY DEF Batch
<1>3. m \in Nat /\ Len(batch) = m /\ DOMAIN batch = 1 .. m
  BY <1>2, LoopAssumption
<1>4. calls \in SUBSET CallRecords /\ IsFiniteSet(calls) /\ (batch = <<>> => calls = {})
  <2>1. calls \in SUBSET CallRecords
    BY <1>2, <1>3 DEF CallRecords, Ind, TypeOK
  <2>2. IsFiniteSet(1 .. m)
    BY <1>3, FS_Interval
  <2> DEFINE f == [i \in 1 .. m |-> [id |-> nextId + i - 1, raw |-> batch[i]]]
  <2>3. f \in Surjection(1 .. m, calls)
    BY <1>3 DEF Surjection
  <2>4. IsFiniteSet(calls)
    BY <2>2, <2>3, FS_Surjection
  <2>5. batch = <<>> => calls = {}
    OBVIOUS
  <2> QED
    BY <2>1, <2>4, <2>5
<1> HIDE DEF calls
<1>5. Assistant(calls) \in Messages /\ ~IsResult(Assistant(calls)) /\ Assistant(calls).calls = calls
      /\ ~Assistant(calls).error
  BY <1>4 DEF Assistant, Messages, IsResult
<1>6. /\ msgs \in Seq(Messages) /\ n \in Nat /\ n >= 1 /\ DOMAIN msgs = 1 .. n
      /\ WellFormed(msgs) /\ AnsweredTo(msgs, n)
  BY <1>1, LenProperties DEF Ind, TypeOK, HistoryAnswered, WellFormed
<1>7. /\ hs \in Seq(Messages) /\ Len(hs) = n + 1 /\ hs[n + 1] = Assistant(calls)
      /\ \A i \in 1 .. n : hs[i] = msgs[i]
  BY <1>5, <1>6, AppendProperties
<1> HIDE DEF hs
<1>8. DOMAIN hs = 1 .. n + 1 /\ Last(hs) = Assistant(calls)
  BY <1>6, <1>7 DEF Last
<1>9. WellFormed(hs)
  <2>1. ASSUME NEW i \in 1 .. n + 1
        PROVE  /\ IsFiniteSet(hs[i].calls) /\ (IsResult(hs[i]) => hs[i].calls = {})
               /\ (hs[i].error => IsResult(hs[i]))
    <3>1. CASE i \in 1 .. n
      BY <1>6, <1>7, <3>1 DEF WellFormed
    <3>2. CASE i = n + 1
      BY <1>4, <1>5, <1>7, <3>2
    <3> QED
      BY <1>6, <3>1, <3>2
  <2>2. hs[1] = msgs[1] /\ n + 1 >= 1
    BY <1>6, <1>7
  <2> QED
    BY <1>6, <1>7, <1>8, <2>1, <2>2 DEF WellFormed
<1>10. AnsweredTo(hs, n)
  <2> SUFFICES ASSUME NEW i \in 1 .. n, NEW c \in hs[i].calls
               PROVE  \E j \in i + 1 .. Len(hs) : IsResult(hs[j]) /\ hs[j].id = c.id
    BY DEF AnsweredTo
  <2>1. PICK j \in i + 1 .. n : IsResult(msgs[j]) /\ msgs[j].id = c.id
    BY <1>6, <1>7 DEF AnsweredTo
  <2>2. j \in 1 .. n /\ j \in i + 1 .. Len(hs)
    BY <1>6, <1>7, <2>1
  <2> QED
    BY <1>7, <2>1, <2>2
<1>11. calls = {} => AnsweredTo(hs, n + 1)
  <2>1. \A i \in 1 .. n + 1 : i \in 1 .. n \/ i = n + 1
    BY <1>6
  <2> QED
    BY <1>5, <1>7, <1>10, <2>1 DEF AnsweredTo
<1>12. TypeOK'
  <2>1. nextId' \in Nat \ {0}
    BY <1>1, <1>3 DEF Ind, TypeOK
  <2> QED
    BY <1>1, <1>9, <2>1 DEF Ind, TypeOK, Pcs
<1>13. HistoryAnswered'
  BY <1>1, <1>4, <1>5, <1>6, <1>7, <1>8, <1>10, <1>11 DEF HistoryAnswered
<1> QED
  BY <1>12, <1>13 DEF Ind

LEMMA TickIs == \A c \in Nat : Tick(c) \in Nat
<1> SUFFICES ASSUME NEW c \in Nat PROVE Tick(c) \in Nat
  OBVIOUS
<1>1. \E x \in {c + 1, CooldownMessages} : \A y \in {c + 1, CooldownMessages} : x <= y
  BY LoopAssumption
<1> QED
  BY <1>1, LoopAssumption DEF Tick, Min

LEMMA CompactionStep ==
    ASSUME Ind, NEW long \in BOOLEAN, NEW summarised \in BOOLEAN, CompactHistory(long, summarised)
    PROVE  Ind'
<1>1. /\ pc = "agent" /\ pc' = "model" /\ steps < RecursionLimit /\ steps' = steps + 1
      /\ UNCHANGED <<mode, nextId, ran, failure>>
      /\ msgs' = msgs \/ msgs' = Compress(msgs, RetainRecent)
      /\ cooldown' \in {0, cooldown, Tick(cooldown)}
  BY DEF CompactHistory, EnterAgentNode
<1>2. WellFormed(msgs) /\ AnsweredTo(msgs, Len(msgs)) /\ RetainRecent \in Nat
  BY <1>1, LoopAssumption DEF Ind, TypeOK, HistoryAnswered
<1>3. WellFormed(msgs') /\ AnsweredTo(msgs', Len(msgs'))
  BY <1>1, <1>2, CompressKeeps
<1>4. steps' \in 0 .. RecursionLimit
  BY <1>1, LoopAssumption DEF Ind, TypeOK
<1>5. cooldown' \in Nat
  BY <1>1, TickIs DEF Ind, TypeOK
<1> QED
  BY <1>1, <1>3, <1>4, <1>5 DEF Ind, TypeOK, HistoryAnswered, Pcs

LEMMA Step == Ind /\ [Next]_vars => Ind'
<1> SUFFICES ASSUME Ind, [Next]_vars PROVE Ind'
  OBVIOUS
<1>1. CASE RecursionLimitHit
  BY <1>1 DEF RecursionLimitHit, Fail, Ind, TypeOK, HistoryAnswered, Pcs
<1>2. ASSUME NEW long \in BOOLEAN, NEW summarised \in BOOLEAN, CompactHistory(long, summarised)
      PROVE  Ind'
  BY <1>2, CompactionStep
<1>3. ASSUME NEW batch \in Batch, ModelAnswers(batch) PROVE Ind'
  BY <1>3, ModelAnswersKeeps
<1>4. CASE RepairAndRetry
  <2>1. WellFormed(Repair(msgs)) /\ AnsweredTo(Repair(msgs), Len(Repair(msgs)))
    BY <1>4, RepairKeeps DEF RepairAndRetry, Ind, TypeOK, HistoryAnswered
  <2> QED
    BY <1>4, <2>1 DEF RepairAndRetry, Ind, TypeOK, HistoryAnswered, Pcs
<1>5. CASE ModelFails
  BY <1>5 DEF ModelFails, Fail, Ind, TypeOK, HistoryAnswered, Pcs
<1>6. CASE ToolNode
  <2> DEFINE A == Screen(msgs).admitted
             P == Screen(msgs).put_off
  <2>1. /\ pc = "tool" /\ steps < RecursionLimit /\ steps' = steps + 1
        /\ UNCHANGED <<mode, cooldown, nextId>>
        /\ ran' \in {ran, ran \cup A}
    BY <1>6 DEF ToolNode, Replan, ToolNodeRaises, RunTools, ToolsTimeOut, EnterToolNode
  <2>2. /\ A \in SUBSET CallRecords /\ IsFiniteSet(A) /\ P \in SUBSET CallRecords /\ IsFiniteSet(P)
    <3>1. /\ A \in SUBSET Last(msgs).calls /\ P \in SUBSET Last(msgs).calls
          /\ Last(msgs).calls \in SUBSET CallRecords /\ IsFiniteSet(Last(msgs).calls)
      BY ScreenIs DEF Ind, TypeOK
    <3> QED
      BY <3>1, FS_Subset
  <2> HIDE DEF A, P
  <2>3. steps' \in 0 .. RecursionLimit
    BY <2>1, LoopAssumption DEF Ind, TypeOK
  <2>4. ran' \in SUBSET CallRecords /\ IsFiniteSet(ran')
    BY <2>1, <2>2, FS_Union DEF Ind, TypeOK
  <2>5. ASSUME NEW R, AreResults(R)
        PROVE  /\ WellFormed(Screened(msgs)) /\ WellFormed(Screened(msgs) \o R)
               /\ AnsweredIn(A, R) => AnsweredTo(Screened(msgs) \o R, Len(Screened(msgs) \o R))
               /\ A = {} => AnsweredTo(Screened(msgs), Len(Screened(msgs)))
    BY <2>1, <2>5, ToolNodeKeeps DEF Ind, TypeOK, A
  <2>6. AreResults(Refusals(A)) /\ AnsweredIn(A, Refusals(A)) /\ AreResults(Refusals(P))
    BY <2>2, RefusalsAre
  <2>7. CASE Replan
    <3>1. msgs' = Screened(msgs) /\ pc' = "agent" /\ A = {}
      BY <2>7 DEF Replan, A
    <3> QED
      BY <2>1, <2>3, <2>4, <2>5, <2>6, <3>1 DEF Ind, TypeOK, HistoryAnswered, Pcs
  <2>8. CASE ToolNodeRaises
    <3>1. msgs' = Screened(msgs) /\ pc' = "failed"
      BY <2>8 DEF ToolNodeRaises, Fail
    <3> QED
      BY <2>1, <2>3, <2>4, <2>5, <2>6, <3>1 DEF Ind, TypeOK, HistoryAnswered, Pcs
  <2>9. ASSUME NEW errors, RunTools(errors) PROVE Ind'
    <3> DEFINE R == Results(A, errors)
               Q == Refusals(P)
               S == Screened(msgs)
    <3>1. msgs' = S \o R \o Q /\ pc' = "agent"
      BY <2>9 DEF RunTools, A, P
    <3>2. AreResults(R) /\ AnsweredIn(A, R) /\ AreResults(Q)
      BY <2>2, RefusalsAre
    <3>3. WellFormed(S \o R) /\ AnsweredTo(S \o R, Len(S \o R))
      BY <2>5, <3>2
    <3> DEFINE T == S \o R
    <3> HIDE DEF R, Q, S, T
    <3>4. Len(T) \in 0 .. Len(T)
      BY <3>3, LenProperties DEF WellFormed, T
    <3>5. WellFormed(T \o Q) /\ AnsweredTo(T \o Q, Len(T \o Q))
      BY <3>2, <3>3, <3>4, ResultsAppended, ResultsAnswer DEF T
    <3>6. msgs' = T \o Q
      BY <3>1 DEF T
    <3> QED
      BY <2>1, <2>3, <2>4, <3>1, <3>5, <3>6 DEF Ind, TypeOK, HistoryAnswered, Pcs
  <2>10. CASE ToolsTimeOut
    <3>1. msgs' = Screened(msgs) \o Refusals(A) /\ pc' = "agent"
      BY <2>10 DEF ToolsTimeOut, A
    <3> QED
      BY <2>1, <2>3, <2>4, <2>5, <2>6, <3>1 DEF Ind, TypeOK, HistoryAnswered, Pcs
  <2> QED
    BY <1>6, <2>7, <2>8, <2>9, <2>10 DEF ToolNode
<1>7. CASE OtherRequestTurn
  BY <1>7, TickIs DEF OtherRequestTurn, Ind, TypeOK, HistoryAnswered
<1>8. CASE UNCHANGED vars
  BY <1>8 DEF vars, Ind, TypeOK, HistoryAnswered
<1> QED
  BY <1>1, <1>2, <1>3, <1>4, <1>5, <1>6, <1>7, <1>8 DEF Next, AgentNode

LEMMA Start == Init => Ind
<1> SUFFICES ASSUME Init PROVE Ind
  OBVIOUS
<1>1. /\ Human \in Messages /\ System \in Messages /\ Human.calls = {} /\ System.calls = {}
      /\ ~IsResult(Human) /\ ~IsResult(System) /\ ~Human.error /\ ~System.error /\ IsFiniteSet({})
  BY FS_EmptySet DEF Human, System, Messages, IsResult
<1>2. WellFormed(msgs) /\ AnsweredTo(msgs, Len(msgs))
  <2>1. CASE msgs = <<Human>>
    BY <1>1, <2>1 DEF WellFormed, AnsweredTo
  <2>2. CASE msgs = <<System, Human>>
    <3>1. /\ msgs \in Seq(Messages) /\ Len(msgs) = 2 /\ DOMAIN msgs = 1 .. 2
          /\ msgs[1] = System /\ msgs[2] = Human
      BY <1>1, <2>2
    <3>2. \A i \in 1 .. 2 : i = 1 \/ i = 2
      OBVIOUS
    <3>3. \A i \in 1 .. 2 : msgs[i] \in {System, Human}
      BY <3>1, <3>2
    <3>4. WellFormed(msgs)
      <4>1. ASSUME NEW m \in {System, Human}
            PROVE  /\ IsFiniteSet(m.calls) /\ (IsResult(m) => m.calls = {})
                   /\ (m.error => IsResult(m))
        BY <1>1
      <4>2. Len(msgs) >= 1 /\ msgs[1].calls = {} /\ ~IsResult(msgs[1])
        BY <1>1, <3>1
      <4> QED
        BY <3>1, <3>3, <4>1, <4>2 DEF WellFormed
    <3>5. \A i \in 1 .. 2 : msgs[i].calls = {}
      BY <1>1, <3>3
    <3> QED
      BY <3>1, <3>4, <3>5 DEF AnsweredTo
  <2> QED
    BY <2>1, <2>2 DEF Init
<1>3. ran \in SUBSET CallRecords /\ IsFiniteSet(ran)
  BY <1>1 DEF Init
<1>4. /\ mode \in Modes /\ pc = "agent" /\ steps \in 0 .. RecursionLimit /\ cooldown \in Nat
      /\ nextId \in Nat \ {0}
  BY LoopAssumption DEF Init
<1> QED
  BY <1>2, <1>3, <1>4 DEF Ind, TypeOK, HistoryAnswered, Pcs

(* Whenever agent_node is about to call the model, every tool call in the  *)
(* history has a result: the guards, the tool time-out, compress_state and *)
(* repair_message_history together never leave one open.  The inductive    *)
(* invariant says it of every message but the one tool_node works on.      *)
THEOREM NoCallLeftOpen == Spec => []EveryCallAnswered
<1>1. Ind => EveryCallAnswered
  BY AnsweredIsClosed DEF Ind, TypeOK, HistoryAnswered, EveryCallAnswered
<1> QED
  BY <1>1, Start, Step, PTL DEF Spec

----------------------------------------------------------------------------
\* The calls of a history have ids of their own.
\* Calls have ids of their own, the model's next ones are new.
IdsUnique(ms, next) ==
    /\ \A i \in DOMAIN ms : \A c \in ms[i].calls : c.id < next
    /\ \A i, j \in DOMAIN ms : \A c \in ms[i].calls, d \in ms[j].calls :
          c.id = d.id => i = j /\ c = d

\* Each message of hs has no calls, or some of those of a message of ms of its own.
CallsFrom(hs, ms, f) ==
    \A k \in DOMAIN hs :
        \/ hs[k].calls = {}
        \/ /\ f[k] \in DOMAIN ms /\ hs[k].calls \subseteq ms[f[k]].calls
           /\ \A l \in DOMAIN hs : hs[l].calls # {} /\ f[l] = f[k] => l = k

\* Ids stay unique in a history whose calls come from different messages of another.
LEMMA IdsStayUnique ==
    ASSUME NEW ms, NEW next, IdsUnique(ms, next), NEW hs, NEW f, CallsFrom(hs, ms, f)
    PROVE  IdsUnique(hs, next)
<1>1. ASSUME NEW k \in DOMAIN hs, NEW c \in hs[k].calls
      PROVE  /\ f[k] \in DOMAIN ms /\ c \in ms[f[k]].calls
             /\ \A l \in DOMAIN hs : hs[l].calls # {} /\ f[l] = f[k] => l = k
  BY DEF CallsFrom
<1>2. ASSUME NEW k \in DOMAIN hs, NEW l \in DOMAIN hs, NEW c \in hs[k].calls, NEW d \in hs[l].calls,
             c.id = d.id
      PROVE  k = l /\ c = d
  <2>1. f[k] = f[l] /\ c = d
    BY <1>1, <1>2 DEF IdsUnique
  <2> QED
    BY <1>1, <2>1
<1>3. ASSUME NEW k \in DOMAIN hs, NEW c \in hs[k].calls PROVE c.id < next
  BY <1>1 DEF IdsUnique
<1> QED
  BY <1>2, <1>3 DEF IdsUnique

\* hs is ms up to the calls A left on its last message, and then results.
Follows(hs, ms, A) ==
    /\ Len(hs) \in Nat /\ Len(hs) >= Len(ms)
    /\ \A i \in 1 .. Len(ms) - 1 : hs[i] = ms[i]
    /\ hs[Len(ms)] = Assistant(A)
    /\ \A i \in Len(ms) + 1 .. Len(hs) : IsResult(hs[i]) /\ hs[i].calls = {}

LEMMA FollowsOn ==
    ASSUME NEW ms, WellFormed(ms), NEW hs, WellFormed(hs), NEW A, Follows(hs, ms, A),
           NEW R, AreResults(R)
    PROVE  Follows(hs \o R, ms, A)
<1> DEFINE gs == hs \o R
<1>1. /\ Len(gs) = Len(hs) + Len(R)
      /\ \A i \in 1 .. Len(hs) : gs[i] = hs[i]
      /\ \A k \in 1 .. Len(R) : gs[Len(hs) + k] = R[k]
      /\ Len(R) \in Nat /\ DOMAIN R = 1 .. Len(R)
  BY ResultsAppended
<1>2. Len(ms) \in Nat /\ Len(ms) >= 1 /\ Len(hs) \in Nat /\ Len(hs) >= Len(ms)
  BY LenProperties DEF WellFormed, Follows
<1> HIDE DEF gs
<1>3. ASSUME NEW i \in Len(ms) + 1 .. Len(gs) PROVE IsResult(gs[i]) /\ gs[i].calls = {}
  <2>1. CASE i <= Len(hs)
    BY <1>1, <1>2, <2>1 DEF Follows
  <2>2. CASE i > Len(hs)
    <3>1. i - Len(hs) \in 1 .. Len(R) /\ Len(hs) + (i - Len(hs)) = i
      BY <1>1, <1>2, <2>2
    <3> QED
      BY <1>1, <3>1 DEF AreResults
  <2> QED
    BY <1>2, <2>1, <2>2
<1>4. \A i \in 1 .. Len(ms) - 1 : gs[i] = ms[i]
  BY <1>1, <1>2 DEF Follows
<1>5. gs[Len(ms)] = Assistant(A)
  BY <1>1, <1>2 DEF Follows
<1>6. Len(gs) \in Nat /\ Len(gs) >= Len(ms)
  BY <1>1, <1>2
<1> QED
  BY <1>3, <1>4, <1>5, <1>6 DEF Follows, gs

LEMMA FollowsIds ==
    ASSUME NEW ms, WellFormed(ms), NEW hs, WellFormed(hs), NEW A \in SUBSET Last(ms).calls,
           Follows(hs, ms, A), NEW next, IdsUnique(ms, next)
    PROVE  IdsUnique(hs, next)
<1> DEFINE f == [k \in DOMAIN hs |-> k]
<1>1. /\ Len(ms) \in Nat /\ DOMAIN ms = 1 .. Len(ms) /\ Len(hs) \in Nat /\ DOMAIN hs = 1 .. Len(hs)
      /\ Len(ms) >= 1
  BY LenProperties DEF WellFormed
<1>2. Assistant(A).calls = A /\ A \subseteq ms[Len(ms)].calls
  BY DEF Assistant, Last
<1>3. CallsFrom(hs, ms, f)
  <2> SUFFICES ASSUME NEW k \in 1 .. Len(hs), hs[k].calls # {}
               PROVE  k \in 1 .. Len(ms) /\ hs[k].calls \subseteq ms[k].calls
    BY <1>1 DEF CallsFrom
  <2>1. k \in 1 .. Len(ms)
    BY <1>1 DEF Follows
  <2>2. k \in 1 .. Len(ms) - 1 \/ k = Len(ms)
    <3>1. Len(ms) \in Nat
      BY <1>1
    <3> QED
      BY <2>1, <3>1
  <2> QED
    BY <1>2, <2>1, <2>2 DEF Follows
<1> QED
  BY <1>3, IdsStayUnique

LEMMA RepairIds ==
    ASSUME NEW ms, WellFormed(ms), NEW next, IdsUnique(ms, next)
    PROVE  IdsUnique(Repair(ms), next)
<1> DEFINE I == Paired(ms)
           n == Cardinality(I)
           rs == Repair(ms)
           f == [k \in 1 .. n |-> Nth(I, k)]
<1> HIDE DEF I
<1>1. /\ n \in Nat /\ DOMAIN rs = 1 .. n
      /\ \A k \in 1 .. n :
            /\ Nth(I, k) \in I
            /\ rs[k] = [ms[Nth(I, k)] EXCEPT !.calls = {c \in @ : c.id \in Answered(ms)}]
      /\ \A k, l \in 1 .. n : k < l <=> Nth(I, k) < Nth(I, l)
  BY RepairIs DEF I
<1>2. I \subseteq DOMAIN ms /\ DOMAIN ms = 1 .. Len(ms) /\ Len(ms) \in Nat /\ ms \in Seq(Messages)
  BY LenProperties DEF I, Paired, WellFormed
<1> HIDE DEF n, rs
<1>3. ASSUME NEW k \in 1 .. n PROVE Nth(I, k) \in DOMAIN ms /\ rs[k].calls \subseteq ms[Nth(I, k)].calls
  <2>1. Nth(I, k) \in DOMAIN ms
    BY <1>1, <1>2
  <2>2. ms[Nth(I, k)] \in Messages
    BY <1>2, <2>1
  <2> QED
    BY <1>1, <2>1, <2>2 DEF Messages
<1>4. ASSUME NEW k \in 1 .. n, NEW l \in 1 .. n, Nth(I, k) = Nth(I, l) PROVE l = k
  <2>1. Nth(I, k) \in Int /\ Nth(I, l) \in Int
    BY <1>2, <1>3
  <2>2. ~(k < l) /\ ~(l < k)
    BY <1>1, <1>4, <2>1
  <2> QED
    BY <1>1, <2>2
<1>5. CallsFrom(rs, ms, f)
  BY <1>1, <1>3, <1>4 DEF CallsFrom
<1> QED
  BY <1>5, IdsStayUnique DEF rs

LEMMA CompressIds ==
    ASSUME NEW ms, WellFormed(ms), NEW next, IdsUnique(ms, next), NEW retain \in Nat
    PROVE  IdsUnique(Compress(ms, retain), next)
<1> DEFINE cs == Compress(ms, retain)
           cut == PairBoundary(ms, retain)
           p == Cardinality(ErrorsTo(ms, cut))
           f == [k \in DOMAIN cs |-> IF k > 2 + p THEN cut + (k - (2 + p)) ELSE 0]
<1>1. CASE cs = ms
  BY <1>1
<1>2. CASE cs # ms
  <2>1. /\ cut \in 1 .. Len(ms) /\ p \in Nat
        /\ cs \in Seq(Messages) /\ Len(cs) = 2 + p + (Len(ms) - cut)
        /\ cs[1] = ms[1] /\ cs[2] = Summary
        /\ \A k \in 1 .. p : cs[2 + k].error /\ IsResult(cs[2 + k]) /\ cs[2 + k].calls = {}
        /\ \A k \in 1 .. Len(ms) - cut : cs[2 + p + k] = ms[cut + k]
    BY <1>2, CompressIs
  <2> HIDE DEF cs, cut, p
  <2>2. Len(ms) \in Nat /\ DOMAIN ms = 1 .. Len(ms)
    BY LenProperties DEF WellFormed
  <2>3. Len(cs) \in Nat /\ DOMAIN cs = 1 .. Len(cs)
    BY <2>1, LenProperties
  <2>4. ASSUME NEW k \in 1 .. Len(cs), k > 2 + p
        PROVE  f[k] = cut + (k - (2 + p)) /\ f[k] \in 1 .. Len(ms) /\ cs[k] = ms[f[k]]
    <3>1. f[k] = cut + (k - (2 + p))
      BY <2>3, <2>4
    <3>2. k - (2 + p) \in 1 .. Len(ms) - cut /\ 2 + p + (k - (2 + p)) = k
      BY <2>1, <2>2, <2>3, <2>4
    <3>3. cs[k] = ms[cut + (k - (2 + p))]
      BY <2>1, <3>2
    <3>4. cut + (k - (2 + p)) \in 1 .. Len(ms)
      BY <2>1, <2>2, <3>2
    <3> QED
      BY <3>1, <3>3, <3>4
  <2>5. ASSUME NEW k \in 1 .. Len(cs), k <= 2 + p PROVE cs[k].calls = {}
    <3>1. CASE k > 2
      <4>1. k - 2 \in 1 .. p /\ 2 + (k - 2) = k
        BY <2>1, <2>5, <3>1
      <4> QED
        BY <2>1, <4>1
    <3>2. CASE k = 1 \/ k = 2
      BY <2>1, <3>2 DEF WellFormed, Summary
    <3> QED
      BY <2>3, <3>1, <3>2
  <2> HIDE DEF f
  <2>6. ASSUME NEW k \in 1 .. Len(cs), NEW l \in 1 .. Len(cs), k > 2 + p, l > 2 + p, f[k] = f[l]
        PROVE  l = k
    <3>1. cut + (k - (2 + p)) = cut + (l - (2 + p))
      BY <2>4, <2>6
    <3> QED
      BY <2>1, <2>3, <3>1
  <2>7. CallsFrom(cs, ms, f)
    <3> SUFFICES ASSUME NEW k \in 1 .. Len(cs), cs[k].calls # {}
                 PROVE  /\ f[k] \in DOMAIN ms /\ cs[k].calls \subseteq ms[f[k]].calls
                        /\ \A l \in 1 .. Len(cs) : cs[l].calls # {} /\ f[l] = f[k] => l = k
      BY <2>3 DEF CallsFrom
    <3>1. \A l \in 1 .. Len(cs) : cs[l].calls # {} => l > 2 + p
      BY <2>1, <2>3, <2>5
    <3> QED
      BY <2>2, <2>4, <2>6, <3>1
  <2> QED
    BY <2>7, IdsStayUnique DEF cs
<1> QED
  BY <1>1, <1>2

----------------------------------------------------------------------------
\* A result without an error stands in the results of the message that declares its call;
\* they are at most MaxBatch, and something else follows them, or nothing.
Block(ms, i, j, e) ==
    /\ 1 <= i /\ i < j /\ j <= e /\ e <= Len(ms) /\ e <= i + MaxBatch
    /\ \A k \in i + 1 .. j : ms[k].id \in DeclaredBy(ms[i])
    /\ \A k \in i + 1 .. e : IsResult(ms[k])
    /\ e = Len(ms) \/ ~IsResult(ms[e + 1])

InBlock(ms, j) == \E i, e \in DOMAIN ms : Block(ms, i, j, e)
Evidence(ms)   == \A j \in DOMAIN ms : IsResult(ms[j]) => ms[j].error \/ InBlock(ms, j)

LEMMA EvidenceHasItsCall ==
    ASSUME NEW ms, WellFormed(ms), Evidence(ms), NEW j \in OrphanResults(ms)
    PROVE  ms[j].error
<1> SUFFICES ASSUME ~ms[j].error PROVE FALSE
  OBVIOUS
<1>1. j \in DOMAIN ms /\ IsResult(ms[j]) /\ ms[j].id \notin Declared(ms)
  BY DEF OrphanResults
<1>2. PICK i \in DOMAIN ms, e \in DOMAIN ms : Block(ms, i, j, e)
  BY <1>1 DEF Evidence, InBlock
<1>3. DOMAIN ms = 1 .. Len(ms) /\ Len(ms) \in Nat
  BY LenProperties DEF WellFormed
<1>4. j \in i + 1 .. j
  BY <1>1, <1>2, <1>3 DEF Block
<1>5. ms[j].id \in DeclaredBy(ms[i])
  BY <1>2, <1>4 DEF Block
<1> QED
  BY <1>1, <1>5 DEF Declared

\* An earlier place is not deeper among the places that are kept.
LEMMA NthSpreads ==
    ASSUME NEW I \in SUBSET Int, IsFiniteSet(I), NEW k \in 1 .. Cardinality(I),
           NEW l \in 1 .. Cardinality(I), k <= l
    PROVE  l - k <= Nth(I, l) - Nth(I, k)
<1> DEFINE n == Cardinality(I)
           S == k + 1 .. l
           T == Nth(I, k) + 1 .. Nth(I, l)
           f == [m \in S |-> Nth(I, m)]
<1>1. /\ n \in Nat /\ \A m \in 1 .. n : Nth(I, m) \in I /\ Nth(I, m) \in Int
      /\ \A a, b \in 1 .. n : a < b <=> Nth(I, a) < Nth(I, b)
  BY NthIs
<1> HIDE DEF n
<1>2. k \in 1 .. n /\ l \in 1 .. n /\ k \in Int /\ l \in Int
  BY <1>1 DEF n
<1>3. ASSUME NEW m \in S PROVE m \in 1 .. n /\ Nth(I, m) \in T
  <2>1. m \in 1 .. n /\ k < m /\ (m = l \/ m < l)
    BY <1>1, <1>2
  <2>2. Nth(I, k) < Nth(I, m) /\ (m = l \/ Nth(I, m) < Nth(I, l))
    BY <1>1, <1>2, <2>1
  <2>3. Nth(I, k) \in Int /\ Nth(I, m) \in Int /\ Nth(I, l) \in Int
    BY <1>1, <1>2, <2>1
  <2> QED
    BY <2>1, <2>2, <2>3
<1>4. \A a, b \in S : Nth(I, a) = Nth(I, b) => a = b
  <2> SUFFICES ASSUME NEW a \in S, NEW b \in S, Nth(I, a) = Nth(I, b) PROVE a = b
    OBVIOUS
  <2>1. a \in 1 .. n /\ b \in 1 .. n /\ Nth(I, a) \in Int
    BY <1>1, <1>3
  <2>2. ~(a < b) /\ ~(b < a)
    BY <1>1, <2>1
  <2> QED
    BY <2>1, <2>2
<1> HIDE DEF T
<1>5. f \in Injection(S, T)
  BY <1>3, <1>4 DEF Injection, IsInjective
<1>6. Nth(I, k) \in Int /\ Nth(I, l) \in Int /\ Nth(I, k) <= Nth(I, l)
  <2>1. k = l \/ k < l
    BY <1>2
  <2> QED
    BY <1>1, <1>2, <2>1
<1>7. IsFiniteSet(T) /\ Cardinality(T) = Nth(I, l) - Nth(I, k)
  BY <1>6, FS_Interval DEF T
<1>8. Cardinality(S) = l - k
  <2>1. k + 1 \in Int /\ l \in Int
    BY <1>2
  <2>2. Cardinality(k + 1 .. l) = IF k + 1 > l THEN 0 ELSE l - (k + 1) + 1
    BY <2>1, FS_Interval
  <2> QED
    BY <1>2, <2>2
<1> HIDE DEF f, S
<1>9. Cardinality(S) <= Cardinality(T)
  BY <1>5, <1>7, FS_Injection
<1> QED
  BY <1>7, <1>8, <1>9

\* Repair keeps evidence in its block: it drops results in front of it at most.
LEMMA RepairEvidence ==
    ASSUME NEW ms, WellFormed(ms), Evidence(ms)
    PROVE  Evidence(Repair(ms))
<1> DEFINE I == Paired(ms)
           n == Cardinality(I)
           rs == Repair(ms)
<1> HIDE DEF I
<1>1. /\ n \in Nat /\ rs \in Seq(Messages) /\ Len(rs) = n /\ DOMAIN rs = 1 .. n
      /\ \A k \in 1 .. n :
            /\ Nth(I, k) \in I
            /\ rs[k] = [ms[Nth(I, k)] EXCEPT !.calls = {c \in @ : c.id \in Answered(ms)}]
      /\ \A i \in I : \E k \in 1 .. n : Nth(I, k) = i
      /\ \A k, l \in 1 .. n : k < l <=> Nth(I, k) < Nth(I, l)
  BY RepairIs DEF I
<1>2. I \subseteq DOMAIN ms /\ DOMAIN ms = 1 .. Len(ms) /\ Len(ms) \in Nat /\ ms \in Seq(Messages)
  BY LenProperties DEF I, Paired, WellFormed
<1>3. IsFiniteSet(I) /\ I \in SUBSET Int
  <2>1. IsFiniteSet(1 .. Len(ms))
    BY <1>2, FS_Interval
  <2> QED
    BY <1>2, <2>1, FS_Subset
<1>4. \A k, l \in 1 .. n : k <= l => l - k <= Nth(I, l) - Nth(I, k)
  BY <1>3, NthSpreads
<1> HIDE DEF n, rs
<1>5. ASSUME NEW k \in 1 .. n
      PROVE  /\ Nth(I, k) \in 1 .. Len(ms)
             /\ rs[k].kind = ms[Nth(I, k)].kind /\ rs[k].id = ms[Nth(I, k)].id
             /\ rs[k].error = ms[Nth(I, k)].error
             /\ rs[k].calls = {c \in ms[Nth(I, k)].calls : c.id \in Answered(ms)}
  <2>1. Nth(I, k) \in DOMAIN ms
    BY <1>1, <1>2
  <2>2. ms[Nth(I, k)] \in Messages
    BY <1>2, <2>1
  <2> QED
    BY <1>1, <1>2, <2>1, <2>2 DEF Messages
<1> SUFFICES ASSUME NEW jj \in 1 .. n, IsResult(rs[jj]), ~rs[jj].error PROVE InBlock(rs, jj)
  BY <1>1 DEF Evidence, rs
<1> DEFINE j == Nth(I, jj)
<1>6. j \in 1 .. Len(ms) /\ IsResult(ms[j]) /\ ~ms[j].error
  BY <1>5 DEF IsResult
<1>7. PICK i \in DOMAIN ms, e \in DOMAIN ms : Block(ms, i, j, e)
  BY <1>2, <1>6 DEF Evidence, InBlock
<1> HIDE DEF j
<1>8. PICK ii \in 1 .. n : Nth(I, ii) = i
  <2>1. i \in I
    <3>1. j \in i + 1 .. j
      BY <1>2, <1>6, <1>7 DEF Block
    <3>2. ms[i].calls # {}
      BY <1>7, <3>1 DEF Block, DeclaredBy
    <3>3. ~IsResult(ms[i])
      BY <3>2 DEF WellFormed
    <3> QED
      BY <3>3 DEF I, Paired, OrphanResults
  <2> QED
    BY <1>1, <2>1
<1>9. ii < jj
  <2>1. Nth(I, ii) < Nth(I, jj)
    BY <1>7, <1>8 DEF Block, j
  <2> QED
    BY <1>1, <2>1
<1>10. PICK ee \in 1 .. n :
          /\ jj <= ee /\ Nth(I, ee) <= e
          /\ ee = n \/ ~IsResult(rs[ee + 1])
  <2>1. CASE e = Len(ms)
    <3>1. n \in 1 .. n /\ jj <= n /\ Nth(I, n) \in 1 .. Len(ms)
      BY <1>1, <1>5
    <3> QED
      BY <2>1, <3>1
  <2>2. CASE e # Len(ms)
    <3>1. ~IsResult(ms[e + 1]) /\ e + 1 \in DOMAIN ms
      BY <1>2, <1>7, <2>2 DEF Block
    <3>2. e + 1 \in I
      BY <3>1 DEF I, Paired, OrphanResults
    <3>3. PICK m \in 1 .. n : Nth(I, m) = e + 1
      BY <1>1, <3>2
    <3>4. Nth(I, jj) < Nth(I, m)
      BY <1>2, <1>6, <1>7, <3>3 DEF Block, j
    <3>5. jj < m
      BY <1>1, <3>4
    <3>6. m - 1 \in 1 .. n /\ jj <= m - 1 /\ m - 1 < m /\ (m - 1) + 1 = m
      BY <1>1, <3>5
    <3>7. Nth(I, m - 1) < Nth(I, m)
      BY <1>1, <3>6
    <3>8. Nth(I, m - 1) <= e
      BY <1>2, <1>5, <3>3, <3>6, <3>7
    <3>9. ~IsResult(rs[m])
      BY <1>5, <3>1, <3>3 DEF IsResult
    <3> QED
      BY <3>6, <3>8, <3>9
  <2> QED
    BY <2>1, <2>2
<1>15. /\ ii \in Int /\ jj \in Int /\ ee \in Int /\ i \in Int /\ e \in Int
       /\ 1 <= ii /\ ii < jj /\ jj <= ee /\ ee <= n
  BY <1>1, <1>2, <1>8, <1>9, <1>10
<1>11. ASSUME NEW k \in ii + 1 .. ee PROVE k \in 1 .. n /\ Nth(I, k) \in i + 1 .. e /\ IsResult(rs[k])
  <2>1. k \in 1 .. n /\ ii < k /\ (k = ee \/ k < ee)
    BY <1>1, <1>8, <1>10
  <2>2. Nth(I, ii) < Nth(I, k) /\ (k = ee \/ Nth(I, k) < Nth(I, ee))
    BY <1>1, <1>8, <1>10, <2>1
  <2>3. Nth(I, k) \in Int /\ Nth(I, ii) \in Int /\ Nth(I, ee) \in Int
    BY <1>5, <1>8, <1>10, <2>1
  <2>4. Nth(I, k) \in i + 1 .. e
    <3>1. i < Nth(I, k)
      BY <1>8, <2>2
    <3>2. Nth(I, k) <= e
      BY <1>10, <1>15, <2>2, <2>3
    <3> QED
      BY <1>15, <2>3, <3>1, <3>2
  <2>5. IsResult(ms[Nth(I, k)])
    BY <1>7, <2>4 DEF Block
  <2> QED
    BY <1>5, <2>1, <2>4, <2>5 DEF IsResult
<1>12. ASSUME NEW k \in ii + 1 .. jj PROVE rs[k].id \in DeclaredBy(rs[ii])
  <2>1. k \in ii + 1 .. ee /\ (k = jj \/ k < jj)
    BY <1>15
  <2>2. k \in 1 .. n /\ Nth(I, k) \in i + 1 .. e /\ IsResult(rs[k])
    BY <1>11, <2>1
  <2>3. k = jj \/ Nth(I, k) < j
    BY <1>1, <2>1, <2>2 DEF j
  <2>4. Nth(I, k) \in i + 1 .. j
    BY <1>2, <1>6, <2>2, <2>3 DEF j
  <2>5. ms[Nth(I, k)].id \in DeclaredBy(ms[i])
    BY <1>7, <2>4 DEF Block
  <2>6. PICK c \in ms[i].calls : c.id = rs[k].id
    BY <1>5, <2>2, <2>5 DEF DeclaredBy
  <2>7. rs[k].id \in Answered(ms)
    BY <1>2, <1>5, <2>2 DEF Answered, IsResult
  <2> QED
    BY <1>5, <1>8, <2>6, <2>7 DEF DeclaredBy
<1>13. ee <= ii + MaxBatch
  <2>1. ee - ii <= Nth(I, ee) - Nth(I, ii)
    <3>1. ii \in 1 .. n /\ ee \in 1 .. n /\ ii <= ee
      BY <1>8, <1>10, <1>15
    <3> QED
      BY <1>4, <3>1
  <2>2. Nth(I, ee) \in Int /\ Nth(I, ii) \in Int /\ MaxBatch \in Nat
    BY <1>5, <1>8, <1>10, LoopAssumption
  <2>3. e <= i + MaxBatch
    BY <1>7 DEF Block
  <2> QED
    <3>1. Nth(I, ee) <= e /\ Nth(I, ii) = i
      BY <1>8, <1>10
    <3> QED
      BY <1>15, <2>1, <2>2, <2>3, <3>1
<1>14. Block(rs, ii, jj, ee)
  <2>1. ee = Len(rs) \/ ~IsResult(rs[ee + 1])
    BY <1>1, <1>10
  <2>2. 1 <= ii /\ ii < jj /\ jj <= ee /\ ee <= Len(rs)
    BY <1>1, <1>15
  <2> QED
    BY <1>11, <1>12, <1>13, <2>1, <2>2 DEF Block
<1> QED
  BY <1>1, <1>8, <1>10, <1>14 DEF InBlock, rs

LEMMA PastTheCut ==
    ASSUME NEW x \in Int, NEW y \in Int, NEW z \in Int, NEW k \in 1 .. y - x, 1 <= x, z <= x
    PROVE  /\ k \in 1 .. y - (x + 1) + 1 /\ x + 1 + k - 1 = x + k
           /\ x + k \in 1 .. y /\ x + k # z
OBVIOUS

\* The cut of Compress falls into no block: the loop that looks for it goes back far enough
\* for the results of an answer of 2 * retain calls.
LEMMA CutsNoBlock ==
    ASSUME NEW ms, WellFormed(ms), NEW next, IdsUnique(ms, next),
           NEW retain \in Nat \ {0}, MaxBatch <= 2 * retain, Len(ms) > retain + 1,
           NEW cut, cut = PairBoundary(ms, retain),
           NEW i \in DOMAIN ms, NEW e \in DOMAIN ms, NEW j \in DOMAIN ms, Block(ms, i, j, e),
           j > cut
    PROVE  i > cut
<1> DEFINE low == Lowest(ms, retain)
           n == Len(ms)
<1>1. ms \in Seq(Messages) /\ n \in Nat /\ DOMAIN ms = 1 .. n
  BY LenProperties DEF WellFormed
<1>2. /\ low \in 1 .. n - retain /\ (low = 1 \/ low = n - 3 * retain)
      /\ cut \in low .. n - retain /\ (cut = low \/ ~SplitsPair(ms, cut))
      /\ \A b \in low .. n - retain : cut < b => SplitsPair(ms, b)
  BY <1>1, BoundaryIs
<1> HIDE DEF low
<1>0. low \in Int /\ cut \in Int /\ i \in Int /\ low <= cut /\ cut <= n - retain /\ 1 <= low
  <2> HIDE DEF n
  <2> QED
    BY <1>1, <1>2
<1> SUFFICES ASSUME i <= cut PROVE FALSE
  BY <1>0
<1>3. cut \in Int /\ i \in Int /\ j \in Int /\ e \in Int /\ 1 <= i /\ j <= e /\ e <= n /\ MaxBatch \in Nat
      /\ e <= i + MaxBatch
  <2>1. MaxBatch \in Nat
    BY LoopAssumption
  <2> QED
    BY <1>0, <1>1, <2>1 DEF Block
<1>4. cut + 1 \in i + 1 .. j /\ cut + 1 \in i + 1 .. e
  BY <1>3
<1>5. IsResult(ms[cut + 1]) /\ ms[cut + 1].id \in DeclaredBy(ms[i])
  BY <1>4 DEF Block
<1>6. PICK c \in ms[i].calls : c.id = ms[cut + 1].id
  BY <1>5 DEF DeclaredBy
<1>7. From(ms, cut) \in Seq(Messages) /\ DOMAIN From(ms, cut) = 1 .. n - cut
      /\ \A k \in 1 .. n - cut : From(ms, cut)[k] = ms[cut + k]
  <2> HIDE DEF n
  <2>1. \A k \in cut + 1 .. n : ms[k] \in Messages
    <3>1. \A k \in cut + 1 .. n : k \in 1 .. n
      BY <1>0, <1>1
    <3> QED
      BY <3>1, ElementOfSeq, <1>1 DEF n
  <2>2. /\ SubSeq(ms, cut + 1, n) \in Seq(Messages)
        /\ Len(SubSeq(ms, cut + 1, n)) = IF cut + 1 <= n THEN n - (cut + 1) + 1 ELSE 0
        /\ \A k \in 1 .. n - (cut + 1) + 1 : SubSeq(ms, cut + 1, n)[k] = ms[cut + 1 + k - 1]
    <3>1. cut + 1 \in Int /\ n \in Int
      BY <1>0, <1>1
    <3>2. \A k \in cut + 1 .. n : ms[k] \in Messages
      BY <2>1
    <3> QED
      BY <3>1, <3>2, SubSeqProperties
  <2>3. cut + 1 <= n
    BY <1>0, <1>1, <1>3, <1>4
  <2>4. Len(SubSeq(ms, cut + 1, n)) = n - cut
    BY <1>1, <1>3, <2>2, <2>3
  <2>5. \A k \in 1 .. n - cut : SubSeq(ms, cut + 1, n)[k] = ms[cut + k]
    <3> SUFFICES ASSUME NEW k \in 1 .. n - cut PROVE SubSeq(ms, cut + 1, n)[k] = ms[cut + k]
      OBVIOUS
    <3>1. k \in 1 .. n - (cut + 1) + 1 /\ cut + 1 + k - 1 = cut + k
      <4>1. n \in Int /\ 1 <= cut
        BY <1>0, <1>1
      <4> QED
        BY <1>0, <4>1, PastTheCut
    <3> QED
      BY <2>2, <3>1
  <2>6. From(ms, cut) = SubSeq(ms, cut + 1, n)
    BY DEF From, n
  <2> QED
    BY <2>2, <2>4, <2>5, <2>6, LenProperties
<1>8. ms[cut + 1].id \notin Declared(From(ms, cut))
  <2> SUFFICES ASSUME NEW k \in 1 .. n - cut, NEW d \in From(ms, cut)[k].calls, d.id = ms[cut + 1].id
               PROVE  FALSE
    BY <1>7 DEF Declared, DeclaredBy
  <2>1. cut + k \in 1 .. n /\ cut + k # i
    <3> HIDE DEF n
    <3>1. n \in Int /\ 1 <= cut
      BY <1>0, <1>1
    <3> QED
      BY <1>0, <3>1, PastTheCut
  <2>2. d \in ms[cut + k].calls
    BY <1>7
  <2> QED
    BY <1>1, <1>6, <2>1, <2>2 DEF IdsUnique
<1>9. cut = low
  BY <1>2, <1>5, <1>8 DEF SplitsPair
<1>10. low # 1
  <2>1. ms[i].calls # {}
    BY <1>6
  <2>2. i # 1
    BY <2>1 DEF WellFormed
  <2> QED
    BY <1>3, <1>9, <2>2
<1>11. e \in low .. n - retain /\ cut < e /\ e < n
  <2>1. low = n - 3 * retain
    BY <1>2, <1>10
  <2>2. cut < e
    BY <1>3, <1>4
  <2> HIDE DEF n
  <2> QED
    BY <1>0, <1>1, <1>3, <1>9, <2>1, <2>2
<1>12. ~SplitsPair(ms, e)
  <2>1. ~IsResult(ms[e + 1])
    BY <1>11 DEF Block
  <2>2. e \in i + 1 .. e
    BY <1>3, <1>11
  <2>3. ms[e].calls = {}
    BY <2>2 DEF Block, WellFormed
  <2>4. DeclaredBy(ms[e]) = {}
    BY <2>3 DEF DeclaredBy
  <2> QED
    BY <2>1, <2>4 DEF SplitsPair
<1> QED
  BY <1>2, <1>11, <1>12

\* Compaction keeps evidence in its block, or evicts the block with it.
LEMMA CompressEvidence ==
    ASSUME NEW ms, WellFormed(ms), NEW next, IdsUnique(ms, next), Evidence(ms),
           NEW retain \in Nat \ {0}, MaxBatch <= 2 * retain
    PROVE  Evidence(Compress(ms, retain))
<1> DEFINE cs == Compress(ms, retain)
           cut == PairBoundary(ms, retain)
           p == Cardinality(ErrorsTo(ms, cut))
           off == 2 + p - cut
<1>1. CASE cs = ms
  BY <1>1
<1>2. CASE cs # ms
  <2>1. /\ Len(ms) > retain + 1 /\ cut \in 1 .. Len(ms) /\ p \in Nat
        /\ cs \in Seq(Messages) /\ Len(cs) = 2 + p + (Len(ms) - cut)
        /\ cs[1] = ms[1] /\ cs[2] = Summary
        /\ \A k \in 1 .. p : cs[2 + k].error /\ IsResult(cs[2 + k]) /\ cs[2 + k].calls = {}
        /\ \A k \in 1 .. Len(ms) - cut : cs[2 + p + k] = ms[cut + k]
    <3>1. cut = PairBoundary(ms, retain) /\ p = Cardinality(ErrorsTo(ms, cut)) /\ retain \in Nat
          /\ cs = Compress(ms, retain)
      OBVIOUS
    <3> HIDE DEF off, cs, cut, p
    <3> QED
      BY <1>2, <3>1, CompressIs, SMTT(60)
  <2>2. Len(ms) \in Nat /\ DOMAIN ms = 1 .. Len(ms)
    BY LenProperties DEF WellFormed
  <2>3. \A i, e, j \in DOMAIN ms : Block(ms, i, j, e) /\ j > cut => i > cut
    BY <2>1, CutsNoBlock
  <2> HIDE DEF cs, cut, p
  <2>4. Len(cs) \in Nat /\ DOMAIN cs = 1 .. Len(cs) /\ off \in Int /\ Len(cs) = Len(ms) + off
        /\ cut \in Int
    BY <2>1, <2>2, LenProperties
  <2>5. ASSUME NEW k \in cut + 1 .. Len(ms) PROVE cs[k + off] = ms[k] /\ k + off \in 1 .. Len(cs)
    <3>1. k - cut \in 1 .. Len(ms) - cut /\ 2 + p + (k - cut) = k + off /\ cut + (k - cut) = k
      BY <2>1, <2>2
    <3>2. cs[2 + p + (k - cut)] = ms[cut + (k - cut)]
      BY <2>1, <3>1
    <3> QED
      BY <2>1, <2>2, <3>1, <3>2
  <2> SUFFICES ASSUME NEW jj \in 1 .. Len(cs), IsResult(cs[jj]), ~cs[jj].error
               PROVE  InBlock(cs, jj)
    BY <2>4 DEF Evidence, cs
  <2> DEFINE j == jj - off
  <2>6. j \in cut + 1 .. Len(ms)
    <3>1. jj # 1 /\ jj # 2
      BY <2>1 DEF WellFormed, Summary, IsResult
    <3>2. ~(jj \in 3 .. 2 + p)
      <4> SUFFICES ASSUME jj \in 3 .. 2 + p PROVE FALSE
        OBVIOUS
      <4>1. jj - 2 \in 1 .. p /\ 2 + (jj - 2) = jj
        BY <2>1
      <4> QED
        BY <2>1, <4>1
    <3> QED
      BY <2>1, <2>2, <2>4, <3>1, <3>2
  <2>7. j + off = jj /\ cs[jj] = ms[j]
    <3>1. j + off = jj
      BY <2>4
    <3> QED
      BY <2>5, <2>6, <3>1
  <2> HIDE DEF j, off
  <2>8. PICK i \in DOMAIN ms, e \in DOMAIN ms : Block(ms, i, j, e)
    <3>1. j \in DOMAIN ms /\ IsResult(ms[j]) /\ ~ms[j].error
      BY <2>1, <2>2, <2>6, <2>7
    <3> QED
      BY <3>1 DEF Evidence, InBlock
  <2>9. /\ i \in Int /\ j \in Int /\ e \in Int /\ i > cut /\ i < j /\ j <= e /\ e <= Len(ms)
        /\ e <= i + MaxBatch /\ MaxBatch \in Nat
    <3>1. j \in DOMAIN ms /\ j > cut
      BY <2>1, <2>2, <2>4, <2>6
    <3> QED
      <4>1. MaxBatch \in Nat /\ i \in Int /\ j \in Int /\ e \in Int
        BY <2>2, <3>1, LoopAssumption
      <4>2. i > cut
        BY <2>3, <2>8, <3>1
      <4> QED
        BY <2>8, <4>1, <4>2 DEF Block
  <2>10. ASSUME NEW kk \in i + off + 1 .. e + off
         PROVE  kk - off \in i + 1 .. e /\ cs[kk] = ms[kk - off] /\ (kk - off <= j <=> kk <= jj)
    <3>1. kk - off \in i + 1 .. e /\ kk - off \in cut + 1 .. Len(ms) /\ (kk - off) + off = kk
      BY <2>2, <2>4, <2>9
    <3> QED
      <4>1. kk - off \in Int /\ off \in Int /\ kk = (kk - off) + off /\ jj = j + off
        BY <2>4, <2>7, <3>1
      <4>2. kk - off <= j <=> kk <= jj
        BY <2>9, <4>1
      <4>3. cs[(kk - off) + off] = ms[kk - off]
        BY <2>5, <3>1
      <4> QED
        BY <3>1, <4>2, <4>3
  <2>11. cs[i + off] = ms[i] /\ i + off \in 1 .. Len(cs) /\ e + off \in 1 .. Len(cs)
    BY <2>2, <2>4, <2>5, <2>9
  <2>12. e + off = Len(cs) \/ ~IsResult(cs[e + off + 1])
    <3>1. CASE e = Len(ms)
      BY <2>4, <3>1
    <3>2. CASE e # Len(ms)
      <4>1. e + 1 \in cut + 1 .. Len(ms) /\ (e + 1) + off = e + off + 1
        BY <2>2, <2>4, <2>9, <3>2
      <4> QED
        BY <2>5, <2>8, <3>2, <4>1 DEF Block
    <3> QED
      BY <3>1, <3>2
  <2>13. Block(cs, i + off, jj, e + off)
    <3>1. ASSUME NEW kk \in i + off + 1 .. jj PROVE cs[kk].id \in DeclaredBy(cs[i + off])
      <4>1. kk \in i + off + 1 .. e + off /\ kk - off \in i + 1 .. j
        <5>1. \A a, b, c, o \in Int : \A x \in a + o + 1 .. b + o :
                 b <= c => x \in a + o + 1 .. c + o /\ x - o \in a + 1 .. b
          OBVIOUS
        <5>2. kk \in i + off + 1 .. j + off
          BY <2>7
        <5> QED
          BY <2>4, <2>9, <5>1, <5>2
      <4> QED
        BY <2>8, <2>10, <2>11, <4>1 DEF Block
    <3>2. ASSUME NEW kk \in i + off + 1 .. e + off PROVE IsResult(cs[kk])
      BY <2>8, <2>10, <3>2 DEF Block
    <3>3. /\ 1 <= i + off /\ i + off < jj /\ jj <= e + off /\ e + off <= Len(cs)
          /\ e + off <= i + off + MaxBatch
      <4>1. jj = j + off
        BY <2>7
      <4> QED
        <5>1. \A a, b, c, d, m, o \in Int : a < b /\ b <= c /\ c <= d /\ c <= a + m
                 => a + o < b + o /\ b + o <= c + o /\ c + o <= d + o /\ c + o <= a + o + m
          OBVIOUS
        <5>2. Len(ms) \in Int /\ MaxBatch \in Int
          BY <2>2, <2>9
        <5> QED
          BY <2>4, <2>9, <2>11, <4>1, <5>1, <5>2, SMTT(40)
    <3> QED
      BY <2>12, <3>1, <3>2, <3>3 DEF Block
  <2> QED
    BY <2>4, <2>11, <2>13 DEF InBlock
<1> QED
  BY <1>1, <1>2

----------------------------------------------------------------------------
\* What stands after the trimmed message answers it without an error, up to the refusals.
Backed(hs, ms, A) ==
    \A j \in Len(ms) + 1 .. Len(hs) :
        hs[j].error \/ \A k \in Len(ms) + 1 .. j : hs[k].id \in DeclaredBy(Assistant(A))

LEMMA RefusalsAreErrors ==
    ASSUME NEW C \in SUBSET CallRecords, IsFiniteSet(C)
    PROVE  /\ AreResults(Refusals(C)) /\ Len(Refusals(C)) <= Cardinality(C)
           /\ \A k \in DOMAIN Refusals(C) : Refusals(C)[k].error
<1> DEFINE ids == {c.id : c \in C}
           m == [c \in C |-> c.id]
<1>1. m \in Surjection(C, ids)
  BY DEF Surjection
<1>2. IsFiniteSet(ids) /\ ids \in SUBSET Int
  <2>1. IsFiniteSet(ids)
    BY <1>1, FS_Surjection
  <2> QED
    BY <2>1 DEF CallRecords
<1> HIDE DEF ids
<1>3. Cardinality(ids) \in Nat /\ \A k \in 1 .. Cardinality(ids) : Nth(ids, k) \in ids
  BY <1>2, NthIs
<1>4. Refusals(C) = Results(C, ids)
  BY DEF Refusals, ids
<1>5. Refusals(C) = [k \in 1 .. Cardinality(ids) |-> Result(Nth(ids, k), Nth(ids, k) \in ids)]
  BY <1>4 DEF Results, ids
<1>6. ASSUME NEW k \in DOMAIN Refusals(C) PROVE Refusals(C)[k].error
  <2>1. Nth(ids, k) \in ids /\ Refusals(C)[k] = Result(Nth(ids, k), Nth(ids, k) \in ids)
    BY <1>3, <1>5
  <2>2. (Nth(ids, k) \in ids) = TRUE
    BY <2>1
  <2>3. Refusals(C)[k] = Result(Nth(ids, k), TRUE)
    BY <2>1, <2>2
  <2> QED
    BY <2>3 DEF Result
<1>7. AreResults(Refusals(C)) /\ Len(Refusals(C)) <= Cardinality(C)
  BY <1>4, ResultsAre
<1> QED
  BY <1>6, <1>7

LEMMA RefusalsBack ==
    ASSUME NEW ms, WellFormed(ms), NEW hs, WellFormed(hs), NEW A, Follows(hs, ms, A),
           Backed(hs, ms, A), NEW C \in SUBSET CallRecords, IsFiniteSet(C)
    PROVE  /\ WellFormed(hs \o Refusals(C)) /\ Follows(hs \o Refusals(C), ms, A)
           /\ Backed(hs \o Refusals(C), ms, A)
           /\ Len(hs \o Refusals(C)) <= Len(hs) + Cardinality(C)
<1> DEFINE R == Refusals(C)
           gs == hs \o R
<1>1. /\ AreResults(R) /\ Len(R) <= Cardinality(C) /\ \A k \in DOMAIN R : R[k].error
      /\ Cardinality(C) \in Nat
  BY RefusalsAreErrors, FS_CardinalityType
<1> HIDE DEF R
<1>2. /\ WellFormed(gs) /\ Len(gs) = Len(hs) + Len(R)
      /\ \A i \in 1 .. Len(hs) : gs[i] = hs[i]
      /\ \A k \in 1 .. Len(R) : gs[Len(hs) + k] = R[k]
      /\ Len(R) \in Nat /\ DOMAIN R = 1 .. Len(R)
  BY <1>1, ResultsAppended
<1>3. Follows(gs, ms, A)
  BY <1>1, FollowsOn
<1>4. Len(ms) \in Nat /\ Len(ms) >= 1 /\ Len(hs) \in Nat /\ Len(hs) >= Len(ms)
  BY LenProperties DEF WellFormed, Follows
<1> HIDE DEF gs
<1>5. ASSUME NEW j \in Len(ms) + 1 .. Len(gs), ~gs[j].error, NEW k \in Len(ms) + 1 .. j
      PROVE  gs[k].id \in DeclaredBy(Assistant(A))
  <2>1. j <= Len(hs)
    <3> SUFFICES ASSUME j > Len(hs) PROVE FALSE
      BY <1>4
    <3>1. j - Len(hs) \in 1 .. Len(R) /\ Len(hs) + (j - Len(hs)) = j
      BY <1>2, <1>4
    <3> QED
      BY <1>1, <1>2, <1>5, <3>1
  <2>2. j \in Len(ms) + 1 .. Len(hs) /\ j \in 1 .. Len(hs) /\ k \in 1 .. Len(hs)
    BY <1>4, <2>1
  <2>3. gs[j] = hs[j] /\ gs[k] = hs[k]
    BY <1>2, <2>2
  <2> QED
    BY <1>5, <2>2, <2>3 DEF Backed
<1>6. Backed(gs, ms, A)
  BY <1>5 DEF Backed
<1>7. Len(gs) <= Len(hs) + Cardinality(C)
  BY <1>1, <1>2, <1>4
<1> QED
  BY <1>2, <1>3, <1>6, <1>7 DEF gs, R

LEMMA ResultsBack ==
    ASSUME NEW ms, WellFormed(ms), NEW hs, WellFormed(hs),
           NEW A \in SUBSET CallRecords, IsFiniteSet(A), Follows(hs, ms, A),
           Len(hs) = Len(ms), NEW errors
    PROVE  /\ WellFormed(hs \o Results(A, errors)) /\ Follows(hs \o Results(A, errors), ms, A)
           /\ Backed(hs \o Results(A, errors), ms, A)
           /\ Len(hs \o Results(A, errors)) <= Len(hs) + Cardinality(A)
<1> DEFINE R == Results(A, errors)
           gs == hs \o R
<1>1. /\ AreResults(R) /\ Len(R) <= Cardinality(A) /\ Cardinality(A) \in Nat
      /\ \A k \in DOMAIN R : \E c \in A : R[k].id = c.id
  BY ResultsAre, FS_CardinalityType
<1> HIDE DEF R
<1>2. /\ WellFormed(gs) /\ Len(gs) = Len(hs) + Len(R)
      /\ \A i \in 1 .. Len(hs) : gs[i] = hs[i]
      /\ \A k \in 1 .. Len(R) : gs[Len(hs) + k] = R[k]
      /\ Len(R) \in Nat /\ DOMAIN R = 1 .. Len(R)
  BY <1>1, ResultsAppended
<1>3. Follows(gs, ms, A)
  BY <1>1, FollowsOn
<1>4. Len(ms) \in Nat /\ Len(hs) \in Nat
  BY LenProperties DEF WellFormed
<1> HIDE DEF gs
<1>5. ASSUME NEW k \in Len(ms) + 1 .. Len(gs) PROVE gs[k].id \in DeclaredBy(Assistant(A))
  <2>1. k - Len(hs) \in 1 .. Len(R) /\ Len(hs) + (k - Len(hs)) = k
    BY <1>2, <1>4
  <2>2. \E c \in A : gs[k].id = c.id
    <3>1. gs[k] = R[k - Len(hs)] /\ k - Len(hs) \in DOMAIN R
      BY <1>2, <2>1
    <3> QED
      BY <1>1, <3>1
  <2> QED
    BY <2>2 DEF DeclaredBy, Assistant
<1>6. Backed(gs, ms, A)
  <2> SUFFICES ASSUME NEW j \in Len(ms) + 1 .. Len(gs), NEW k \in Len(ms) + 1 .. j
               PROVE  gs[k].id \in DeclaredBy(Assistant(A))
    BY DEF Backed
  <2>1. k \in Len(ms) + 1 .. Len(gs)
    BY <1>2, <1>4
  <2> QED
    BY <1>5, <2>1
<1>7. Len(gs) <= Len(hs) + Cardinality(A)
  BY <1>1, <1>2, <1>4
<1> QED
  BY <1>2, <1>3, <1>6, <1>7 DEF gs, R

\* The results tool_node appends stand in a block of their own, the last one.
LEMMA BackedEvidence ==
    ASSUME NEW ms, WellFormed(ms), Evidence(ms), ~IsResult(Last(ms)), NEW hs, WellFormed(hs),
           NEW A, Follows(hs, ms, A), Backed(hs, ms, A), Len(hs) <= Len(ms) + MaxBatch
    PROVE  Evidence(hs)
<1> DEFINE n == Len(ms)
<1>1. /\ n \in Nat /\ n >= 1 /\ Len(hs) \in Nat /\ Len(hs) >= n /\ DOMAIN ms = 1 .. n
      /\ DOMAIN hs = 1 .. Len(hs) /\ MaxBatch \in Nat
  BY LenProperties, LoopAssumption DEF WellFormed, Follows
<1>2. ~IsResult(hs[n])
  BY DEF Follows, Assistant, IsResult
<1>3. /\ \A i \in 1 .. n - 1 : hs[i] = ms[i]
      /\ \A i \in n + 1 .. Len(hs) : IsResult(hs[i])
      /\ hs[n] = Assistant(A) /\ ~IsResult(ms[n]) /\ Len(hs) <= n + MaxBatch
  BY DEF Follows, Last
<1> SUFFICES ASSUME NEW j \in 1 .. Len(hs), IsResult(hs[j]), ~hs[j].error PROVE InBlock(hs, j)
  BY <1>1 DEF Evidence
<1>4. CASE j < n
  <2>1. j \in DOMAIN ms /\ hs[j] = ms[j]
    BY <1>1, <1>3, <1>4
  <2>2. PICK i \in DOMAIN ms, e \in DOMAIN ms : Block(ms, i, j, e)
    BY <2>1 DEF Evidence, InBlock
  <2>3. /\ i \in Int /\ e \in Int /\ 1 <= i /\ i < j /\ j <= e /\ e <= n /\ e <= i + MaxBatch
    BY <1>1, <2>2 DEF Block
  <2>4. e # n
    <3>1. e \in i + 1 .. e
      BY <2>3
    <3>2. IsResult(ms[e])
      BY <2>2, <3>1 DEF Block
    <3> QED
      BY <1>3, <3>2
  <2> HIDE DEF n
  <2>5. e < n /\ e \in 1 .. Len(hs) /\ i \in 1 .. Len(hs) /\ i \in 1 .. n - 1 /\ e < Len(hs)
    BY <1>1, <2>3, <2>4
  <2>6. ~IsResult(hs[e + 1])
    <3>1. ~IsResult(ms[e + 1])
      BY <2>2, <2>4 DEF Block, n
    <3>2. e + 1 = n \/ e + 1 \in 1 .. n - 1
      BY <1>1, <2>3, <2>5
    <3> QED
      BY <1>2, <1>3, <3>1, <3>2 DEF n
  <2>7. ASSUME NEW k \in i + 1 .. e PROVE hs[k] = ms[k]
    <3>1. k \in 1 .. n - 1
      BY <1>1, <2>3, <2>5
    <3> QED
      BY <1>3, <3>1 DEF n
  <2>8. hs[i] = ms[i] /\ \A k \in i + 1 .. j : k \in i + 1 .. e
    BY <1>3, <2>3, <2>5 DEF n
  <2>9. Block(hs, i, j, e)
    <3>1. \A k \in i + 1 .. j : hs[k].id \in DeclaredBy(hs[i])
      BY <2>2, <2>7, <2>8 DEF Block
    <3>2. \A k \in i + 1 .. e : IsResult(hs[k])
      BY <2>2, <2>7 DEF Block
    <3>3. e <= Len(hs)
      BY <2>5
    <3> QED
      BY <2>3, <2>6, <3>1, <3>2, <3>3 DEF Block
  <2> QED
    BY <1>1, <2>5, <2>9 DEF InBlock
<1>5. CASE j >= n
  <2>1. j \in n + 1 .. Len(hs)
    BY <1>1, <1>2, <1>5
  <2>2. \A k \in n + 1 .. j : hs[k].id \in DeclaredBy(hs[n])
    BY <1>3, <2>1 DEF Backed
  <2>3. n \in 1 .. Len(hs) /\ Len(hs) \in 1 .. Len(hs) /\ n < j /\ j <= Len(hs) /\ 1 <= n
    BY <1>1, <2>1
  <2> HIDE DEF n
  <2>4. Block(hs, n, j, Len(hs))
    BY <1>1, <1>3, <2>2, <2>3 DEF Block, n
  <2> QED
    BY <1>1, <2>3, <2>4 DEF InBlock
<1> QED
  BY <1>1, <1>4, <1>5

ToolCallsFit == pc = "tool" => Cardinality(Last(msgs).calls) <= MaxBatch

Ind2 == Ind /\ IdsUnique(msgs, nextId) /\ ToolCallsFit

\* A history tool_node leaves behind: the guards left A of the last message, and results follow.
ToolNodeResult(A) ==
    /\ WellFormed(msgs') /\ Follows(msgs', msgs, A) /\ Backed(msgs', msgs, A)
    /\ Len(msgs') <= Len(msgs) + MaxBatch

LEMMA TrimmedFollows ==
    ASSUME Ind, pc = "tool", NEW A \in SUBSET Last(msgs).calls
    PROVE  /\ WellFormed(Trimmed(msgs, A)) /\ Follows(Trimmed(msgs, A), msgs, A)
           /\ Backed(Trimmed(msgs, A), msgs, A) /\ Len(Trimmed(msgs, A)) = Len(msgs)
<1> DEFINE ts == Trimmed(msgs, A)
<1>1. /\ WellFormed(ts) /\ Len(ts) = Len(msgs)
      /\ \A i \in 1 .. Len(msgs) - 1 : ts[i] = msgs[i]
      /\ Last(ts) = Assistant(A)
  BY TrimmedIs DEF Ind, TypeOK, HistoryAnswered
<1>2. Len(msgs) \in Nat
  BY LenProperties DEF Ind, TypeOK, WellFormed
<1> HIDE DEF ts
<1>3. \A i : ~(i \in Len(msgs) + 1 .. Len(msgs))
  BY <1>2
<1>4. Follows(ts, msgs, A)
  BY <1>1, <1>2, <1>3 DEF Follows, Last
<1>5. Backed(ts, msgs, A)
  BY <1>1, <1>3 DEF Backed
<1> QED
  BY <1>1, <1>4, <1>5 DEF ts

\* No call is both handed over and put off, or refused.
LEMMA ScreenSplits ==
    ASSUME NEW ms
    PROVE  Screen(ms).admitted \cap Screen(ms).put_off = {}
BY DEF Screen

\* Every way through tool_node leaves such a history.
LEMMA ToolNodeFollows ==
    ASSUME Ind, ToolCallsFit, ToolNode
    PROVE  ToolNodeResult(Screen(msgs).admitted)
<1> DEFINE A == Screen(msgs).admitted
           P == Screen(msgs).put_off
           F == Screen(msgs).refused
           C == Last(msgs).calls
           ts == Trimmed(msgs, A)
           S == Screened(msgs)
<1>1. pc = "tool"
  BY DEF ToolNode, Replan, ToolNodeRaises, RunTools, ToolsTimeOut, EnterToolNode
<1>2. /\ A \in SUBSET C /\ P \in SUBSET C /\ F \in SUBSET C
      /\ C \in SUBSET CallRecords /\ IsFiniteSet(C)
  BY ScreenIs DEF Ind, TypeOK
<1>3. A \cap P = {}
  BY ScreenSplits
<1> HIDE DEF A, P, F, C
<1>4. /\ IsFiniteSet(A) /\ IsFiniteSet(P) /\ IsFiniteSet(F) /\ A \in SUBSET CallRecords
      /\ P \in SUBSET CallRecords /\ F \in SUBSET CallRecords
  BY <1>2, FS_Subset
<1>5. /\ Cardinality(A) \in Nat /\ Cardinality(P) \in Nat /\ Cardinality(F) \in Nat
      /\ Cardinality(F) <= MaxBatch /\ Cardinality(A) <= MaxBatch
      /\ Cardinality(A) + Cardinality(P) <= MaxBatch
      /\ MaxBatch \in Nat /\ Len(msgs) \in Nat
  <2>1. /\ Cardinality(A) \in Nat /\ Cardinality(P) \in Nat /\ Cardinality(F) \in Nat
        /\ Cardinality(C) \in Nat /\ MaxBatch \in Nat /\ Len(msgs) \in Nat
    <3>1. Len(msgs) \in Nat
      BY LenProperties DEF Ind, TypeOK, WellFormed
    <3> QED
      BY <1>2, <1>4, <3>1, FS_CardinalityType, LoopAssumption
  <2>2. Cardinality(C) <= MaxBatch
    BY <1>1 DEF ToolCallsFit, C
  <2>3. Cardinality(F) <= Cardinality(C) /\ Cardinality(A) <= Cardinality(C)
    BY <1>2, FS_Subset
  <2>4. Cardinality(A \cup P) = Cardinality(A) + Cardinality(P)
    <3>1. Cardinality(A \cup P) = Cardinality(A) + Cardinality(P) - Cardinality(A \cap P)
      BY <1>4, FS_Union
    <3>2. Cardinality(A \cap P) = 0
      BY <1>3, FS_EmptySet
    <3> QED
      BY <2>1, <3>1, <3>2
  <2>5. Cardinality(A \cup P) <= Cardinality(C)
    <3>1. A \cup P \in SUBSET C
      BY <1>2
    <3> QED
      BY <1>2, <3>1, FS_Subset
  <2> QED
    BY <2>1, <2>2, <2>3, <2>4, <2>5
<1>6. WellFormed(ts) /\ Follows(ts, msgs, A) /\ Backed(ts, msgs, A) /\ Len(ts) = Len(msgs)
  BY <1>1, <1>2, TrimmedFollows DEF C
<1>7. S = ts \o Refusals(F)
  BY DEF Screened, Trimmed, A, F
<1> HIDE DEF ts, S
<1>8. WellFormed(msgs)
  BY DEF Ind, TypeOK
<1>9. WellFormed(S) /\ Follows(S, msgs, A) /\ Backed(S, msgs, A) /\ Len(S) <= Len(ts) + Cardinality(F)
  BY <1>4, <1>6, <1>7, <1>8, RefusalsBack
<1>10. Len(S) \in Nat /\ Len(S) >= Len(msgs)
  BY <1>9 DEF Follows
<1>11. F = {} => Len(S) = Len(msgs)
  BY <1>5, <1>6, <1>9, <1>10, FS_EmptySet
<1>12. ASSUME msgs' = S PROVE ToolNodeResult(A)
  BY <1>2, <1>5, <1>6, <1>9, <1>10, <1>12 DEF ToolNodeResult
<1>13. ASSUME NEW errors, RunTools(errors) PROVE ToolNodeResult(A)
  <2> DEFINE R == Results(A, errors)
             T == S \o R
             Q == Refusals(P)
  <2>1. msgs' = T \o Q /\ F = {}
    BY <1>13 DEF RunTools, A, P, F, S
  <2>2. WellFormed(T) /\ Follows(T, msgs, A) /\ Backed(T, msgs, A) /\ Len(T) <= Len(S) + Cardinality(A)
    BY <1>4, <1>8, <1>9, <1>11, <2>1, ResultsBack
  <2> HIDE DEF T
  <2>3. /\ WellFormed(T \o Q) /\ Follows(T \o Q, msgs, A) /\ Backed(T \o Q, msgs, A)
        /\ Len(T \o Q) <= Len(T) + Cardinality(P)
    BY <1>4, <1>8, <2>2, RefusalsBack
  <2> HIDE DEF Q
  <2>4. Len(T \o Q) <= Len(msgs) + MaxBatch
    <3>1. Len(T) \in Nat /\ Len(T \o Q) \in Nat
      BY <2>2, <2>3 DEF Follows
    <3> QED
      BY <1>5, <1>11, <2>1, <2>2, <2>3, <3>1
  <2> QED
    BY <1>2, <2>1, <2>3, <2>4 DEF ToolNodeResult
<1>14. ASSUME ToolsTimeOut PROVE ToolNodeResult(A)
  <2> DEFINE T == S \o Refusals(A)
  <2>1. msgs' = T /\ F = {}
    BY <1>14 DEF ToolsTimeOut, A, F, S
  <2>2. WellFormed(T) /\ Follows(T, msgs, A) /\ Backed(T, msgs, A) /\ Len(T) <= Len(S) + Cardinality(A)
    BY <1>4, <1>8, <1>9, RefusalsBack
  <2> HIDE DEF T
  <2>3. Len(T) \in Nat
    BY <2>2 DEF Follows
  <2>4. Len(T) <= Len(msgs) + MaxBatch
    BY <1>5, <1>11, <2>1, <2>2, <2>3
  <2> QED
    BY <1>2, <2>1, <2>2, <2>4 DEF ToolNodeResult
<1>15. Replan \/ ToolNodeRaises => msgs' = S
  BY DEF Replan, ToolNodeRaises, S
<1> QED
  BY <1>12, <1>13, <1>14, <1>15 DEF ToolNode, A

\* What an answer of the model adds: calls with new ids, few of them.
LEMMA FreshCalls ==
    ASSUME nextId \in Nat, NEW batch \in Batch, NEW calls,
           calls = {[id |-> nextId + i - 1, raw |-> batch[i]] : i \in DOMAIN batch}
    PROVE  /\ IsFiniteSet(calls) /\ Cardinality(calls) <= MaxBatch /\ Len(batch) \in Nat
           /\ \A c \in calls : c.id \in Nat /\ nextId <= c.id /\ c.id < nextId + Len(batch)
           /\ \A c, d \in calls : c.id = d.id => c = d
<1>1. PICK m \in 0 .. MaxBatch : batch \in [1 .. m -> Raw]
  BY DEF Batch
<1>2. m \in Nat /\ Len(batch) = m /\ DOMAIN batch = 1 .. m /\ MaxBatch \in Nat /\ m <= MaxBatch
  BY <1>1, LoopAssumption
<1> DEFINE f == [i \in 1 .. m |-> [id |-> nextId + i - 1, raw |-> batch[i]]]
<1>3. f \in Surjection(1 .. m, calls)
  BY <1>2 DEF Surjection
<1>4. IsFiniteSet(1 .. m) /\ Cardinality(1 .. m) = m
  BY <1>2, FS_Interval
<1>5. IsFiniteSet(calls) /\ Cardinality(calls) <= m
  BY <1>3, <1>4, FS_Surjection
<1>6. Cardinality(calls) <= MaxBatch
  BY <1>2, <1>5, FS_CardinalityType
<1>7. ASSUME NEW c \in calls
      PROVE  c.id \in Nat /\ nextId <= c.id /\ c.id < nextId + Len(batch)
  <2>1. PICK i \in 1 .. m : c = [id |-> nextId + i - 1, raw |-> batch[i]]
    BY <1>2
  <2>2. c.id = nextId + i - 1
    BY <2>1
  <2> QED
    BY <1>2, <2>2
<1>8. ASSUME NEW c \in calls, NEW d \in calls, c.id = d.id PROVE c = d
  <2>1. PICK i \in 1 .. m : c = [id |-> nextId + i - 1, raw |-> batch[i]]
    BY <1>2
  <2>2. PICK j \in 1 .. m : d = [id |-> nextId + j - 1, raw |-> batch[j]]
    BY <1>2
  <2>3. nextId + i - 1 = nextId + j - 1
    BY <1>8, <2>1, <2>2
  <2>4. i = j
    BY <2>3, <1>2
  <2> QED
    BY <2>1, <2>2, <2>4
<1> QED
  BY <1>2, <1>5, <1>6, <1>7, <1>8

LEMMA AnswerKeepsIds ==
    ASSUME NEW ms, WellFormed(ms), NEW next \in Nat, IdsUnique(ms, next),
           NEW calls \in SUBSET CallRecords, NEW more \in Nat,
           \A c \in calls : next <= c.id /\ c.id < next + more,
           \A c, d \in calls : c.id = d.id => c = d
    PROVE  IdsUnique(Append(ms, Assistant(calls)), next + more)
<1> DEFINE hs == Append(ms, Assistant(calls))
           n == Len(ms)
<1>1. ms \in Seq(Messages) /\ n \in Nat /\ DOMAIN ms = 1 .. n
  BY LenProperties DEF WellFormed
<1>2. Assistant(calls) \in Messages /\ Assistant(calls).calls = calls
  BY DEF Assistant, Messages
<1>3. /\ hs \in Seq(Messages) /\ Len(hs) = n + 1 /\ hs[n + 1] = Assistant(calls)
      /\ \A i \in 1 .. n : hs[i] = ms[i]
  BY <1>1, <1>2, AppendProperties
<1> HIDE DEF hs
<1>4. DOMAIN hs = 1 .. n + 1
  BY <1>1, <1>3
<1>5. \A i \in 1 .. n + 1 : i \in 1 .. n \/ i = n + 1
  BY <1>1
<1>6. ASSUME NEW i \in 1 .. n + 1, NEW c \in hs[i].calls
      PROVE  /\ c.id \in Nat /\ c.id < next + more
             /\ i = n + 1 <=> next <= c.id
             /\ i = n + 1 => c \in calls
             /\ i # n + 1 => i \in 1 .. n /\ c \in ms[i].calls
  <2>1. CASE i = n + 1
    BY <1>2, <1>3, <1>6, <2>1 DEF CallRecords
  <2>2. CASE i # n + 1
    <3>1. i \in 1 .. n /\ c \in ms[i].calls /\ ms[i] \in Messages
      BY <1>1, <1>3, <1>5, <1>6, <2>2, ElementOfSeq
    <3>2. c.id \in Nat /\ c.id < next
      BY <1>1, <3>1 DEF IdsUnique, Messages, CallRecords
    <3> QED
      BY <2>2, <3>1, <3>2
  <2> QED
    BY <2>1, <2>2
<1>7. ASSUME NEW i \in 1 .. n + 1, NEW j \in 1 .. n + 1, NEW c \in hs[i].calls,
             NEW d \in hs[j].calls, c.id = d.id
      PROVE  i = j /\ c = d
  <2>1. i = n + 1 <=> j = n + 1
    BY <1>6, <1>7
  <2>2. CASE i = n + 1
    BY <1>6, <1>7, <2>1, <2>2
  <2>3. CASE i # n + 1
    BY <1>1, <1>6, <1>7, <2>1, <2>3 DEF IdsUnique
  <2> QED
    BY <2>2, <2>3
<1> QED
  BY <1>4, <1>6, <1>7 DEF IdsUnique, hs

LEMMA AnswerKeepsEvidence ==
    ASSUME NEW ms, WellFormed(ms), Evidence(ms), NEW calls \in SUBSET CallRecords
    PROVE  Evidence(Append(ms, Assistant(calls)))
<1> DEFINE hs == Append(ms, Assistant(calls))
           n == Len(ms)
<1>1. ms \in Seq(Messages) /\ n \in Nat /\ DOMAIN ms = 1 .. n
  BY LenProperties DEF WellFormed
<1>2. Assistant(calls) \in Messages /\ ~IsResult(Assistant(calls))
  BY DEF Assistant, Messages, IsResult
<1>3. /\ hs \in Seq(Messages) /\ Len(hs) = n + 1 /\ hs[n + 1] = Assistant(calls)
      /\ \A i \in 1 .. n : hs[i] = ms[i]
  BY <1>1, <1>2, AppendProperties
<1> HIDE DEF hs
<1>4. DOMAIN hs = 1 .. n + 1
  BY <1>1, <1>3
<1> SUFFICES ASSUME NEW j \in 1 .. n + 1, IsResult(hs[j]), ~hs[j].error PROVE InBlock(hs, j)
  BY <1>4 DEF Evidence, hs
<1>5. j \in 1 .. n
  BY <1>1, <1>2, <1>3
<1>6. PICK i \in DOMAIN ms, e \in DOMAIN ms : Block(ms, i, j, e)
  BY <1>1, <1>3, <1>5 DEF Evidence, InBlock
<1>7. /\ i \in 1 .. n /\ e \in 1 .. n /\ i \in 1 .. n + 1 /\ e \in 1 .. n + 1 /\ e <= Len(hs)
      /\ 1 <= i /\ i < j /\ j <= e /\ e <= i + MaxBatch
  BY <1>1, <1>3, <1>6 DEF Block
<1>8. \A k \in i + 1 .. e : hs[k] = ms[k]
  BY <1>1, <1>3, <1>7
<1>9. \A k \in i + 1 .. j : k \in i + 1 .. e
  BY <1>1, <1>5, <1>7
<1>10. ~IsResult(hs[e + 1])
  <2>1. CASE e = n
    BY <1>2, <1>3, <2>1
  <2>2. CASE e # n
    <3>1. e + 1 \in 1 .. n
      BY <1>1, <1>7, <2>2
    <3> QED
      BY <1>3, <1>6, <2>2, <3>1 DEF Block
  <2> QED
    BY <2>1, <2>2
<1>11. Block(hs, i, j, e)
  <2>1. \A k \in i + 1 .. j : hs[k].id \in DeclaredBy(hs[i])
    BY <1>3, <1>6, <1>7, <1>8, <1>9 DEF Block
  <2>2. \A k \in i + 1 .. e : IsResult(hs[k])
    BY <1>6, <1>8 DEF Block
  <2> QED
    BY <1>7, <1>10, <2>1, <2>2 DEF Block
<1> QED
  BY <1>4, <1>7, <1>11 DEF InBlock

LEMMA ModelAnswersIs ==
    ASSUME Ind, IdsUnique(msgs, nextId), NEW batch \in Batch, ModelAnswers(batch)
    PROVE  /\ IdsUnique(msgs', nextId')
           /\ \E calls \in SUBSET CallRecords :
                 /\ msgs' = Append(msgs, Assistant(calls)) /\ Last(msgs').calls = calls
                 /\ Cardinality(calls) <= MaxBatch
<1> DEFINE calls == {[id |-> nextId + i - 1, raw |-> batch[i]] : i \in DOMAIN batch}
           hs == Append(msgs, Assistant(calls))
<1>1. /\ msgs' = hs /\ nextId' = nextId + Len(batch) /\ nextId \in Nat /\ WellFormed(msgs)
  BY DEF ModelAnswers, Ind, TypeOK
<1>2. /\ IsFiniteSet(calls) /\ Cardinality(calls) <= MaxBatch /\ Len(batch) \in Nat
      /\ \A c \in calls : c.id \in Nat /\ nextId <= c.id /\ c.id < nextId + Len(batch)
      /\ \A c, d \in calls : c.id = d.id => c = d
  BY <1>1, FreshCalls
<1>3. calls \in SUBSET CallRecords
  <2>1. ASSUME NEW i \in DOMAIN batch PROVE batch[i] \in Raw
    BY DEF Batch
  <2>2. ASSUME NEW c \in calls PROVE c \in CallRecords
    <3>1. PICK i \in DOMAIN batch : c = [id |-> nextId + i - 1, raw |-> batch[i]]
      OBVIOUS
    <3>2. c.id = nextId + i - 1 /\ c.id \in Nat
      BY <1>2, <3>1
    <3> QED
      BY <2>1, <3>1, <3>2 DEF CallRecords
  <2> QED
    BY <2>2
<1> HIDE DEF calls
<1>4. IdsUnique(hs, nextId + Len(batch))
  BY <1>1, <1>2, <1>3, AnswerKeepsIds
<1>5. Last(hs).calls = calls
  <2>1. msgs \in Seq(Messages) /\ Assistant(calls) \in Messages
    BY <1>1, <1>3 DEF WellFormed, Assistant, Messages
  <2>2. Len(hs) = Len(msgs) + 1 /\ hs[Len(msgs) + 1] = Assistant(calls)
    BY <2>1, AppendProperties
  <2> QED
    BY <2>2 DEF Last, Assistant
<1> QED
  BY <1>1, <1>2, <1>3, <1>4, <1>5 DEF Last

\* No two calls of a history share an id.
LEMMA IdsStep == Ind2 /\ [Next]_vars => Ind2'
<1> SUFFICES ASSUME Ind2, [Next]_vars PROVE Ind2'
  OBVIOUS
<1>1. Ind' /\ WellFormed(msgs) /\ IdsUnique(msgs, nextId) /\ ToolCallsFit /\ Ind
  BY Step DEF Ind2, Ind, TypeOK
<1>2. ASSUME msgs' = msgs, nextId' = nextId, pc' # "tool" \/ pc' = pc PROVE Ind2'
  BY <1>1, <1>2 DEF Ind2, ToolCallsFit, Last
<1>3. CASE RecursionLimitHit
  BY <1>2, <1>3 DEF RecursionLimitHit, Fail
<1>4. ASSUME NEW long \in BOOLEAN, NEW summarised \in BOOLEAN, CompactHistory(long, summarised)
      PROVE  Ind2'
  <2>1. pc' = "model" /\ nextId' = nextId /\ (msgs' = msgs \/ msgs' = Compress(msgs, RetainRecent))
    BY <1>4 DEF CompactHistory, EnterAgentNode
  <2>2. RetainRecent \in Nat
    BY LoopAssumption
  <2>3. IdsUnique(msgs', nextId')
    BY <1>1, <2>1, <2>2, CompressIds
  <2> QED
    BY <1>1, <2>1, <2>3 DEF Ind2, ToolCallsFit
<1>5. ASSUME NEW batch \in Batch, ModelAnswers(batch) PROVE Ind2'
  BY <1>1, <1>5, ModelAnswersIs DEF Ind2, ToolCallsFit
<1>6. CASE RepairAndRetry
  BY <1>1, <1>6, RepairIds DEF RepairAndRetry, Ind2, ToolCallsFit
<1>7. CASE ModelFails
  BY <1>2, <1>7 DEF ModelFails, Fail
<1>8. CASE ToolNode
  <2>1. pc' # "tool" /\ nextId' = nextId
    BY <1>8 DEF ToolNode, Replan, ToolNodeRaises, RunTools, ToolsTimeOut, EnterToolNode, Fail
  <2>2. WellFormed(msgs') /\ Follows(msgs', msgs, Screen(msgs).admitted)
    BY <1>1, <1>8, ToolNodeFollows DEF ToolNodeResult
  <2>3. IdsUnique(msgs', nextId)
    BY <1>1, <2>2, FollowsIds, ScreenIs
  <2> QED
    BY <1>1, <2>1, <2>3 DEF Ind2, ToolCallsFit
<1>9. CASE OtherRequestTurn
  BY <1>2, <1>9 DEF OtherRequestTurn
<1>10. CASE UNCHANGED vars
  BY <1>2, <1>10 DEF vars
<1> QED
  BY <1>3, <1>4, <1>5, <1>6, <1>7, <1>8, <1>9, <1>10 DEF Next, AgentNode

\* Evidence stays in its block whatever the request does next.
LEMMA EvidenceStep ==
    ASSUME MaxBatch <= 2 * RetainRecent, Ind2, Evidence(msgs), [Next]_vars
    PROVE  Evidence(msgs')
<1>1. WellFormed(msgs) /\ IdsUnique(msgs, nextId) /\ ToolCallsFit /\ Ind
  BY DEF Ind2, Ind, TypeOK
<1>2. CASE msgs' = msgs
  BY <1>2
<1>3. ASSUME NEW long \in BOOLEAN, NEW summarised \in BOOLEAN, CompactHistory(long, summarised)
      PROVE  Evidence(msgs')
  <2>1. msgs' = msgs \/ msgs' = Compress(msgs, RetainRecent)
    BY <1>3 DEF CompactHistory
  <2>2. RetainRecent \in Nat \ {0}
    BY LoopAssumption
  <2> QED
    BY <1>1, <2>1, <2>2, CompressEvidence
<1>4. ASSUME NEW batch \in Batch, ModelAnswers(batch) PROVE Evidence(msgs')
  <2>1. \E calls \in SUBSET CallRecords : msgs' = Append(msgs, Assistant(calls))
    BY <1>1, <1>4, ModelAnswersIs
  <2> QED
    BY <1>1, <2>1, AnswerKeepsEvidence
<1>5. CASE RepairAndRetry
  BY <1>1, <1>5, RepairEvidence DEF RepairAndRetry
<1>6. CASE ToolNode
  <2>1. pc = "tool"
    BY <1>6 DEF ToolNode, Replan, ToolNodeRaises, RunTools, ToolsTimeOut, EnterToolNode
  <2>2. ToolNodeResult(Screen(msgs).admitted)
    BY <1>1, <1>6, ToolNodeFollows
  <2>3. ~IsResult(Last(msgs))
    BY <1>1, <2>1 DEF Ind, HistoryAnswered
  <2> QED
    BY <1>1, <2>2, <2>3, BackedEvidence DEF ToolNodeResult
<1>7. RecursionLimitHit \/ ModelFails \/ OtherRequestTurn \/ UNCHANGED vars => msgs' = msgs
  BY DEF RecursionLimitHit, ModelFails, OtherRequestTurn, vars
<1> QED
  BY <1>2, <1>3, <1>4, <1>5, <1>6, <1>7 DEF Next, AgentNode

LEMMA EvidenceStart == Init => Ind2 /\ Evidence(msgs)
<1> SUFFICES ASSUME Init PROVE Ind2 /\ Evidence(msgs)
  OBVIOUS
<1>1. /\ msgs \in {<<Human>>, <<System, Human>>} /\ pc = "agent" /\ Ind
  BY Start DEF Init
<1>2. \A i \in DOMAIN msgs : msgs[i] \in {Human, System}
  <2>1. CASE msgs = <<Human>>
    BY <2>1
  <2>2. CASE msgs = <<System, Human>>
    BY <2>2
  <2> QED
    BY <1>1, <2>1, <2>2
<1>3. \A m \in {Human, System} : m.calls = {} /\ ~IsResult(m)
  BY DEF Human, System, IsResult
<1>4. IdsUnique(msgs, nextId) /\ Evidence(msgs)
  BY <1>2, <1>3 DEF IdsUnique, Evidence
<1> QED
  BY <1>1, <1>4 DEF Ind2, ToolCallsFit

(* Compaction and repair never throw collected evidence away: a result     *)
(* without an error keeps its call.  _find_pair_boundary looks for a cut   *)
(* no further back than twice the messages it retains; the hypothesis says *)
(* that it can pass the results of one answer (the default retains 8       *)
(* messages, so 16 calls; beyond, the code logs                            *)
(* "compaction_boundary_capped" and cuts all the same).  The invariant     *)
(* says that every such result stands in an unbroken run of results behind *)
(* its own assistant message.                                              *)
THEOREM EvidenceStaysPaired ==
    ASSUME MaxBatch <= 2 * RetainRecent
    PROVE  Spec => []EvidenceKeepsItsCall
<1>1. Ind2 /\ Evidence(msgs) => EvidenceKeepsItsCall
  BY EvidenceHasItsCall DEF Ind2, Ind, TypeOK, EvidenceKeepsItsCall
<1>2. Ind2 /\ Evidence(msgs) /\ [Next]_vars => (Ind2 /\ Evidence(msgs))'
  BY EvidenceStep, IdsStep
<1> QED
  BY <1>1, <1>2, EvidenceStart, PTL DEF Spec

----------------------------------------------------------------------------
\* The calls of a history but for the ones that wait for tool_node.
Past == IF pc = "tool" THEN SubSeq(msgs, 1, Len(msgs) - 1) ELSE msgs

\* The calls the limits are kept of are in the history; a call that ran is an old one.
RanKnown ==
    /\ Counted \subseteq CallsIn(Past)
    /\ \A c \in ran : c.id < nextId
    /\ pc = "tool" => Last(msgs) # Summary

LEMMA HistoryBefore ==
    ASSUME NEW ms, WellFormed(ms)
    PROVE  /\ DOMAIN SubSeq(ms, 1, Len(ms) - 1) = 1 .. Len(ms) - 1
           /\ \A i \in 1 .. Len(ms) - 1 : SubSeq(ms, 1, Len(ms) - 1)[i] = ms[i]
<1>1. ms \in Seq(Messages) /\ Len(ms) \in Nat /\ Len(ms) >= 1
  BY LenProperties DEF WellFormed
<1> DEFINE n == Len(ms) - 1
<1>2. n \in Nat /\ n <= Len(ms)
  BY <1>1
<1>3. /\ Len(SubSeq(ms, 1, n)) = n /\ SubSeq(ms, 1, n) \in Seq(Messages)
      /\ \A i \in 1 .. n : SubSeq(ms, 1, n)[i] = ms[i]
  <2>1. \A i \in 1 .. n : ms[i] \in Messages
    BY <1>1, <1>2, ElementOfSeq
  <2> HIDE DEF n
  <2>2. /\ SubSeq(ms, 1, n) \in Seq(Messages)
        /\ Len(SubSeq(ms, 1, n)) = IF 1 <= n THEN n - 1 + 1 ELSE 0
        /\ \A i \in 1 .. n - 1 + 1 : SubSeq(ms, 1, n)[i] = ms[1 + i - 1]
    BY <1>2, <2>1, SubSeqProperties
  <2>3. Len(SubSeq(ms, 1, n)) = n
    BY <1>2, <2>2
  <2>4. \A i \in 1 .. n : i \in 1 .. n - 1 + 1 /\ 1 + i - 1 = i
    BY <1>2
  <2> QED
    BY <2>2, <2>3, <2>4
<1> QED
  BY <1>3, LenProperties

LEMMA CallsAreFinite ==
    ASSUME NEW ms, WellFormed(ms)
    PROVE  /\ IsFiniteSet(CallsIn(SubSeq(ms, 1, Len(ms) - 1)))
           /\ CallsIn(SubSeq(ms, 1, Len(ms) - 1)) = UNION {ms[i].calls : i \in 1 .. Len(ms) - 1}
<1> DEFINE S == {ms[i].calls : i \in 1 .. Len(ms) - 1}
           f == [i \in 1 .. Len(ms) - 1 |-> ms[i].calls]
<1>1. Len(ms) \in Nat /\ DOMAIN ms = 1 .. Len(ms)
  BY LenProperties DEF WellFormed
<1>2. IsFiniteSet(1 .. Len(ms) - 1)
  BY <1>1, FS_Interval
<1>3. f \in Surjection(1 .. Len(ms) - 1, S)
  BY DEF Surjection
<1>4. IsFiniteSet(S)
  BY <1>2, <1>3, FS_Surjection
<1>5. \A i \in 1 .. Len(ms) - 1 : i \in DOMAIN ms
  BY <1>1
<1>6. \A T \in S : IsFiniteSet(T)
  BY <1>5 DEF WellFormed
<1>7. CallsIn(SubSeq(ms, 1, Len(ms) - 1)) = UNION S
  BY HistoryBefore DEF CallsIn
<1> HIDE DEF S
<1>8. IsFiniteSet(UNION S)
  BY <1>4, <1>6, FS_UNION
<1> QED
  BY <1>7, <1>8 DEF S

\* Repair of a history without open calls drops results only.
LEMMA RepairKeepsCalls ==
    ASSUME NEW ms, WellFormed(ms), AnsweredTo(ms, Len(ms))
    PROVE  CallsIn(ms) \subseteq CallsIn(Repair(ms))
<1> DEFINE I == Paired(ms)
           n == Cardinality(I)
           rs == Repair(ms)
<1> HIDE DEF I
<1>1. /\ DOMAIN rs = 1 .. n
      /\ \A k \in 1 .. n :
            rs[k] = [ms[Nth(I, k)] EXCEPT !.calls = {c \in @ : c.id \in Answered(ms)}]
      /\ \A i \in I : \E k \in 1 .. n : Nth(I, k) = i
  BY RepairIs DEF I
<1> HIDE DEF n, rs
<1> SUFFICES ASSUME NEW i \in DOMAIN ms, NEW c \in ms[i].calls PROVE c \in CallsIn(rs)
  BY DEF CallsIn, rs
<1>2. DOMAIN ms = 1 .. Len(ms) /\ Len(ms) \in Nat /\ ms[i] \in Messages
  BY LenProperties, ElementOfSeq DEF WellFormed
<1>3. i \in I
  BY DEF I, Paired, OrphanResults, WellFormed
<1>4. PICK k \in 1 .. n : Nth(I, k) = i
  BY <1>1, <1>3
<1>5. PICK j \in i + 1 .. Len(ms) : IsResult(ms[j]) /\ ms[j].id = c.id
  BY <1>2 DEF AnsweredTo
<1>6. c.id \in Answered(ms)
  <2>1. j \in DOMAIN ms
    BY <1>2
  <2> QED
    BY <1>5, <2>1 DEF Answered
<1>7. rs[k].calls = {d \in ms[i].calls : d.id \in Answered(ms)}
  BY <1>1, <1>2, <1>4 DEF Messages
<1> QED
  BY <1>1, <1>6, <1>7 DEF CallsIn

LEMMA AppendKeepsPast ==
    ASSUME NEW ms, WellFormed(ms), NEW m \in Messages
    PROVE  /\ CallsIn(SubSeq(Append(ms, m), 1, Len(Append(ms, m)) - 1)) = CallsIn(ms)
           /\ CallsIn(ms) \subseteq CallsIn(Append(ms, m))
<1> DEFINE hs == Append(ms, m)
           n == Len(ms)
<1>1. ms \in Seq(Messages) /\ n \in Nat /\ DOMAIN ms = 1 .. n
  BY LenProperties DEF WellFormed
<1>2. hs \in Seq(Messages) /\ Len(hs) = n + 1 /\ \A i \in 1 .. n : hs[i] = ms[i]
  BY <1>1, AppendProperties
<1> HIDE DEF hs, n
<1>3. DOMAIN hs = 1 .. n + 1 /\ Len(hs) - 1 = n /\ \A i \in 1 .. n : i \in 1 .. n + 1
  BY <1>1, <1>2, LenProperties
<1>4. /\ \A i \in 1 .. n : hs[i] \in Messages
      /\ SubSeq(hs, 1, n) \in Seq(Messages)
      /\ Len(SubSeq(hs, 1, n)) = n
      /\ \A i \in 1 .. n : SubSeq(hs, 1, n)[i] = hs[i]
  <2>1. \A i \in 1 .. n : hs[i] \in Messages
    BY <1>2, <1>3, ElementOfSeq
  <2>2. /\ SubSeq(hs, 1, n) \in Seq(Messages)
        /\ Len(SubSeq(hs, 1, n)) = IF 1 <= n THEN n - 1 + 1 ELSE 0
        /\ \A i \in 1 .. n - 1 + 1 : SubSeq(hs, 1, n)[i] = hs[1 + i - 1]
    BY <1>1, <2>1, SubSeqProperties
  <2>3. Len(SubSeq(hs, 1, n)) = n
    BY <1>1, <2>2
  <2>4. \A i \in 1 .. n : i \in 1 .. n - 1 + 1 /\ 1 + i - 1 = i
    BY <1>1
  <2> QED
    BY <2>1, <2>2, <2>3, <2>4
<1>5. DOMAIN SubSeq(hs, 1, n) = 1 .. n
  BY <1>4, LenProperties
<1>6. CallsIn(SubSeq(hs, 1, n)) = CallsIn(ms)
  BY <1>1, <1>2, <1>4, <1>5 DEF CallsIn
<1>7. CallsIn(ms) \subseteq CallsIn(hs)
  BY <1>1, <1>2, <1>3 DEF CallsIn
<1> QED
  BY <1>3, <1>6, <1>7 DEF hs

LEMMA FollowsCalls ==
    ASSUME NEW ms, WellFormed(ms), NEW hs, WellFormed(hs), NEW A, Follows(hs, ms, A)
    PROVE  CallsIn(SubSeq(ms, 1, Len(ms) - 1)) \cup A \subseteq CallsIn(hs)
<1>1. /\ Len(ms) \in Nat /\ Len(ms) >= 1 /\ Len(hs) \in Nat /\ DOMAIN hs = 1 .. Len(hs)
      /\ Len(hs) >= Len(ms)
  BY LenProperties DEF WellFormed, Follows
<1>2. CallsIn(SubSeq(ms, 1, Len(ms) - 1)) = UNION {ms[i].calls : i \in 1 .. Len(ms) - 1}
  BY CallsAreFinite
<1>3. \A i \in 1 .. Len(ms) - 1 : i \in DOMAIN hs /\ hs[i] = ms[i]
  BY <1>1 DEF Follows
<1>4. Len(ms) \in DOMAIN hs /\ hs[Len(ms)].calls = A
  BY <1>1 DEF Follows, Assistant
<1> QED
  BY <1>2, <1>3, <1>4 DEF CallsIn

\* Compaction adds no call, and leaves its summary.
LEMMA CompressCalls ==
    ASSUME NEW ms, WellFormed(ms), NEW retain \in Nat, Compress(ms, retain) # ms
    PROVE  /\ CallsIn(Compress(ms, retain)) \subseteq CallsIn(ms)
           /\ \E i \in DOMAIN Compress(ms, retain) : Compress(ms, retain)[i] = Summary
<1> DEFINE cs == Compress(ms, retain)
           cut == PairBoundary(ms, retain)
           p == Cardinality(ErrorsTo(ms, cut))
<1>1. /\ cut \in 1 .. Len(ms) /\ p \in Nat
      /\ cs \in Seq(Messages) /\ Len(cs) = 2 + p + (Len(ms) - cut)
      /\ cs[1] = ms[1] /\ cs[2] = Summary
      /\ \A k \in 1 .. p : cs[2 + k].error /\ IsResult(cs[2 + k]) /\ cs[2 + k].calls = {}
      /\ \A k \in 1 .. Len(ms) - cut : cs[2 + p + k] = ms[cut + k]
  BY CompressIs
<1> HIDE DEF cs, cut, p
<1>2. Len(ms) \in Nat /\ DOMAIN ms = 1 .. Len(ms) /\ ms[1].calls = {} /\ Summary.calls = {}
  BY LenProperties DEF WellFormed, Summary
<1>3. Len(cs) \in Nat /\ DOMAIN cs = 1 .. Len(cs)
  BY <1>1, LenProperties
<1>4. ASSUME NEW k \in 1 .. Len(cs), NEW c \in cs[k].calls PROVE c \in CallsIn(ms)
  <2>1. k # 1 /\ k # 2
    BY <1>1, <1>2
  <2>2. ~(k - 2 \in 1 .. p)
    <3>1. 2 + (k - 2) = k
      BY <1>3
    <3> QED
      BY <1>1, <3>1
  <2>3. k - (2 + p) \in 1 .. Len(ms) - cut /\ 2 + p + (k - (2 + p)) = k
    BY <1>1, <1>2, <1>3, <2>1, <2>2
  <2>4. cs[k] = ms[cut + (k - (2 + p))]
    BY <1>1, <2>3
  <2>5. cut + (k - (2 + p)) \in DOMAIN ms
    BY <1>1, <1>2, <2>3
  <2> QED
    BY <2>4, <2>5 DEF CallsIn
<1>5. 2 \in DOMAIN cs
  BY <1>1, <1>2, <1>3
<1> QED
  BY <1>1, <1>3, <1>4, <1>5 DEF CallsIn, cs

\* So does repair.
LEMMA RepairAddsNoCall ==
    ASSUME NEW ms, WellFormed(ms)
    PROVE  /\ CallsIn(Repair(ms)) \subseteq CallsIn(ms)
           /\ (\E i \in DOMAIN ms : ms[i] = Summary) => \E k \in DOMAIN Repair(ms) : Repair(ms)[k] = Summary
<1> DEFINE I == Paired(ms)
           n == Cardinality(I)
           rs == Repair(ms)
<1> HIDE DEF I
<1>1. /\ DOMAIN rs = 1 .. n
      /\ \A k \in 1 .. n :
            /\ Nth(I, k) \in I
            /\ rs[k] = [ms[Nth(I, k)] EXCEPT !.calls = {c \in @ : c.id \in Answered(ms)}]
      /\ \A i \in I : \E k \in 1 .. n : Nth(I, k) = i
  BY RepairIs DEF I
<1> HIDE DEF n, rs
<1>2. I \subseteq DOMAIN ms /\ \A i \in DOMAIN ms : ms[i] \in Messages
  <2>1. ms \in Seq(Messages) /\ DOMAIN ms = 1 .. Len(ms)
    BY LenProperties DEF WellFormed
  <2> QED
    BY <2>1, ElementOfSeq DEF I, Paired
<1>3. ASSUME NEW k \in 1 .. n, NEW c \in rs[k].calls PROVE c \in CallsIn(ms)
  <2>1. c \in ms[Nth(I, k)].calls /\ Nth(I, k) \in DOMAIN ms
    BY <1>1, <1>2 DEF Messages
  <2> QED
    BY <2>1 DEF CallsIn
<1>4. ASSUME NEW i \in DOMAIN ms, ms[i] = Summary PROVE \E k \in 1 .. n : rs[k] = Summary
  <2>1. i \in I
    BY <1>4 DEF I, Paired, OrphanResults, IsResult, Summary
  <2>2. PICK k \in 1 .. n : Nth(I, k) = i
    BY <1>1, <2>1
  <2>3. rs[k] = [Summary EXCEPT !.calls = {c \in @ : c.id \in Answered(ms)}]
    BY <1>1, <1>4, <2>2
  <2> QED
    BY <2>3 DEF Summary
<1> QED
  BY <1>1, <1>3, <1>4 DEF CallsIn, rs

\* A history stays compacted, and a call that has left it does not come back.
LEMMA HistoryGoesOn ==
    ASSUME Ind2, RanKnown, [Next]_vars
    PROVE  (Compacted => Compacted') /\ CallsIn(msgs') \cap ran \subseteq CallsIn(msgs)
<1>1. WellFormed(msgs) /\ IdsUnique(msgs, nextId) /\ ToolCallsFit /\ Ind
  BY DEF Ind2, Ind, TypeOK
<1>2. CASE msgs' = msgs
  BY <1>2 DEF Compacted
<1>3. ASSUME NEW long \in BOOLEAN, NEW summarised \in BOOLEAN, CompactHistory(long, summarised),
             msgs' # msgs
      PROVE  Compacted' /\ CallsIn(msgs') \subseteq CallsIn(msgs)
  <2>1. msgs' = Compress(msgs, RetainRecent) /\ RetainRecent \in Nat
    BY <1>3, LoopAssumption DEF CompactHistory
  <2> QED
    BY <1>1, <1>3, <2>1, CompressCalls DEF Compacted
<1>4. ASSUME NEW batch \in Batch, ModelAnswers(batch)
      PROVE  (Compacted => Compacted') /\ CallsIn(msgs') \cap ran \subseteq CallsIn(msgs)
  <2> DEFINE calls == {[id |-> nextId + i - 1, raw |-> batch[i]] : i \in DOMAIN batch}
  <2>1. msgs' = Append(msgs, Assistant(calls)) /\ nextId \in Nat
    BY <1>1, <1>4 DEF ModelAnswers, Ind, TypeOK
  <2>2. \A c \in calls : c.id \in Nat /\ nextId <= c.id
    BY <2>1, FreshCalls
  <2>3. \A c \in ran : c.id \in Nat /\ c.id < nextId
    BY <1>1 DEF RanKnown, Ind, TypeOK, CallRecords
  <2>4. calls \cap ran = {}
    BY <2>1, <2>2, <2>3
  <2> HIDE DEF calls
  <2>5. /\ DOMAIN msgs = 1 .. Len(msgs) /\ DOMAIN msgs' = 1 .. Len(msgs) + 1 /\ Len(msgs) \in Nat
        /\ \A i \in 1 .. Len(msgs) : msgs'[i] = msgs[i]
        /\ msgs'[Len(msgs) + 1] = Assistant(calls)
    BY <1>1, <2>1, LenProperties, AppendProperties DEF WellFormed
  <2>6. \A i \in 1 .. Len(msgs) + 1 : i \in 1 .. Len(msgs) \/ i = Len(msgs) + 1
    BY <2>5
  <2>7. CallsIn(msgs') \subseteq CallsIn(msgs) \cup calls
    BY <2>5, <2>6 DEF CallsIn, Assistant
  <2>8. \A i \in 1 .. Len(msgs) : i \in 1 .. Len(msgs) + 1
    BY <2>5
  <2>9. Compacted => Compacted'
    BY <2>5, <2>8 DEF Compacted
  <2> QED
    BY <2>4, <2>7, <2>9
<1>5. CASE RepairAndRetry
  BY <1>1, <1>5, RepairAddsNoCall DEF RepairAndRetry, Compacted
<1>6. CASE ToolNode
  <2> DEFINE A == Screen(msgs).admitted
  <2>1. pc = "tool"
    BY <1>6 DEF ToolNode, Replan, ToolNodeRaises, RunTools, ToolsTimeOut, EnterToolNode
  <2>2. WellFormed(msgs') /\ Follows(msgs', msgs, A)
    BY <1>1, <1>6, ToolNodeFollows DEF ToolNodeResult
  <2>3. A \in SUBSET Last(msgs).calls
    BY <1>1, ScreenIs
  <2> HIDE DEF A
  <2>4. /\ DOMAIN msgs = 1 .. Len(msgs) /\ Len(msgs) \in Nat /\ Len(msgs) >= 1
        /\ DOMAIN msgs' = 1 .. Len(msgs') /\ Len(msgs') \in Nat /\ Len(msgs') >= Len(msgs)
    BY <1>1, <2>2, LenProperties DEF WellFormed, Follows
  <2>5. \A i \in 1 .. Len(msgs') :
           \/ i \in 1 .. Len(msgs) - 1 \/ i = Len(msgs) \/ i \in Len(msgs) + 1 .. Len(msgs')
    <3>1. \A m, n \in Nat : m >= 1 /\ n >= m =>
             \A i \in 1 .. n : i \in 1 .. m - 1 \/ i = m \/ i \in m + 1 .. n
      OBVIOUS
    <3> QED
      BY <2>4, <3>1
  <2>6. ASSUME NEW i \in 1 .. Len(msgs'), NEW c \in msgs'[i].calls PROVE c \in CallsIn(msgs)
    <3>1. CASE i \in 1 .. Len(msgs) - 1
      <4>1. i \in DOMAIN msgs /\ msgs'[i] = msgs[i]
        BY <2>2, <2>4, <3>1 DEF Follows
      <4> QED
        BY <2>6, <4>1 DEF CallsIn
    <3>2. CASE i = Len(msgs)
      <4>1. Len(msgs) \in DOMAIN msgs /\ c \in A
        BY <2>2, <2>4, <2>6, <3>2 DEF Follows, Assistant
      <4> QED
        BY <2>3, <4>1 DEF CallsIn, Last
    <3>3. CASE i \in Len(msgs) + 1 .. Len(msgs')
      BY <2>2, <2>6, <3>3 DEF Follows
    <3> QED
      BY <2>5, <3>1, <3>2, <3>3
  <2>7. ASSUME NEW i \in DOMAIN msgs, msgs[i] = Summary PROVE Compacted'
    <3>1. i # Len(msgs)
      BY <2>1, <2>7 DEF RanKnown, Last
    <3>2. i \in 1 .. Len(msgs) - 1 /\ i \in 1 .. Len(msgs')
      BY <2>4, <3>1
    <3> QED
      BY <2>2, <2>4, <2>7, <3>2 DEF Follows, Compacted
  <2> QED
    BY <2>4, <2>6, <2>7 DEF Compacted, CallsIn
<1>7. RecursionLimitHit \/ ModelFails \/ OtherRequestTurn \/ UNCHANGED vars => msgs' = msgs
  BY DEF RecursionLimitHit, ModelFails, OtherRequestTurn, vars
<1> QED
  BY <1>2, <1>3, <1>4, <1>5, <1>6, <1>7 DEF Next, AgentNode

\* No step adds to the calls counted but the ones it runs.
LEMMA CountedStep ==
    ASSUME Ind2, RanKnown, [Next]_vars
    PROVE  Counted' \subseteq Counted \cup (ran' \ ran)
BY HistoryGoesOn DEF Counted

\* A call that was run stays in the history: nothing but compaction removes it.
LEMMA RanStep ==
    ASSUME Ind2, RanKnown, [Next]_vars
    PROVE  RanKnown'
<1>1. WellFormed(msgs) /\ Ind /\ ToolCallsFit /\ nextId \in Nat /\ IdsUnique(msgs, nextId)
  BY DEF Ind2, Ind, TypeOK
<1>2. CallsIn(SubSeq(msgs, 1, Len(msgs) - 1)) \subseteq CallsIn(msgs)
  <2>1. \A i \in 1 .. Len(msgs) - 1 : i \in DOMAIN msgs
    BY <1>1, LenProperties DEF WellFormed
  <2> QED
    BY <1>1, <2>1, CallsAreFinite DEF CallsIn
<1>3. CallsIn(Past) \subseteq CallsIn(msgs)
  BY <1>2 DEF Past
<1>4. ASSUME msgs' = msgs, ran' = ran, nextId' = nextId, pc' # "tool" \/ pc' = pc PROVE RanKnown'
  <2>1. Compacted' = Compacted /\ Counted' = Counted
    BY <1>4 DEF Compacted, Counted
  <2>2. CASE pc' # "tool"
    <3>1. Past' = msgs
      BY <1>4, <2>2 DEF Past
    <3> QED
      BY <1>3, <1>4, <2>1, <2>2, <3>1 DEF RanKnown
  <2>3. CASE pc' = pc
    <3>1. Past' = Past
      BY <1>4, <2>3 DEF Past
    <3> QED
      BY <1>4, <2>1, <2>3, <3>1 DEF RanKnown, Last
  <2> QED
    BY <1>4, <2>2, <2>3
\* A step that loses no call but to a compaction, and is not left with calls to run.
<1>5. ASSUME pc' # "tool", \A c \in ran' : c.id < nextId',
             ~Compacted' => ran' \subseteq CallsIn(msgs')
      PROVE  RanKnown'
  <2>1. Past' = msgs'
    BY <1>5 DEF Past
  <2> QED
    BY <1>5, <2>1 DEF RanKnown, Counted
<1>6. Compacted => Compacted'
  BY HistoryGoesOn
<1>7. ~Compacted => ran \subseteq CallsIn(Past)
  BY DEF RanKnown, Counted
<1>8. ASSUME NEW long \in BOOLEAN, NEW summarised \in BOOLEAN, CompactHistory(long, summarised)
      PROVE  RanKnown'
  <2>1. /\ pc' = "model" /\ ran' = ran /\ nextId' = nextId
        /\ msgs' = msgs \/ msgs' = Compress(msgs, RetainRecent)
    BY <1>8 DEF CompactHistory, EnterAgentNode
  <2>2. CASE msgs' = msgs
    BY <1>4, <2>1, <2>2
  <2>3. CASE msgs' # msgs
    <3>1. Compacted'
      BY <1>1, <2>1, <2>3, CompressCalls, LoopAssumption DEF Compacted
    <3> QED
      BY <1>5, <2>1, <3>1 DEF RanKnown
  <2> QED
    BY <2>2, <2>3
<1>9. ASSUME NEW batch \in Batch, ModelAnswers(batch) PROVE RanKnown'
  <2> DEFINE calls == {[id |-> nextId + i - 1, raw |-> batch[i]] : i \in DOMAIN batch}
  <2>1. /\ msgs' = Append(msgs, Assistant(calls)) /\ pc \in {"model", "retry"} /\ ran' = ran
        /\ nextId' = nextId + Len(batch)
    BY <1>9 DEF ModelAnswers
  <2>2. (\A c \in calls : c.id \in Nat) /\ Len(batch) \in Nat
    BY <1>1, FreshCalls
  <2>3. Assistant(calls) \in Messages
    <3>1. calls \in SUBSET CallRecords
      <4>1. ASSUME NEW i \in DOMAIN batch PROVE batch[i] \in Raw
        BY DEF Batch
      <4>2. ASSUME NEW c \in calls PROVE c \in CallRecords
        <5>1. PICK i \in DOMAIN batch : c = [id |-> nextId + i - 1, raw |-> batch[i]]
          OBVIOUS
        <5>2. c.id = nextId + i - 1 /\ c.id \in Nat
          BY <2>2, <5>1
        <5> QED
          BY <4>1, <5>1, <5>2 DEF CallRecords
      <4> QED
        BY <4>2
    <3> QED
      BY <3>1 DEF Assistant, Messages
  <2> HIDE DEF calls
  <2>4. /\ CallsIn(SubSeq(msgs', 1, Len(msgs') - 1)) = CallsIn(msgs)
        /\ CallsIn(msgs) \subseteq CallsIn(msgs')
    BY <1>1, <2>1, <2>3, AppendKeepsPast
  <2>5. CallsIn(Past') = CallsIn(msgs) \/ Past' = msgs'
    BY <2>4 DEF Past
  <2>6. Counted' \subseteq Counted
    BY <2>1, CountedStep
  <2>7. Counted' \subseteq CallsIn(Past')
    BY <1>3, <2>4, <2>5, <2>6 DEF RanKnown
  <2>8. \A c \in ran' : c.id < nextId'
    <3>1. \A c \in ran : c.id \in Nat /\ c.id < nextId
      BY <1>1 DEF RanKnown, Ind, TypeOK, CallRecords
    <3> QED
      BY <1>1, <2>1, <2>2, <3>1
  <2>9. Last(msgs') # Summary
    <3>1. Last(msgs') = Assistant(calls)
      BY <1>1, <2>1, <2>3, AppendProperties DEF Last, WellFormed
    <3> QED
      BY <3>1 DEF Assistant, Summary
  <2> QED
    BY <2>7, <2>8, <2>9 DEF RanKnown
<1>10. CASE RepairAndRetry
  <2>1. /\ pc = "model" /\ msgs' = Repair(msgs) /\ pc' = "retry" /\ ran' = ran
        /\ nextId' = nextId
    BY <1>10 DEF RepairAndRetry
  <2>2. CallsIn(msgs) \subseteq CallsIn(msgs')
    BY <1>1, <2>1, RepairKeepsCalls DEF Ind, HistoryAnswered
  <2>3. ~Compacted' => ran' \subseteq CallsIn(msgs')
    BY <1>3, <1>6, <1>7, <2>1, <2>2
  <2> QED
    BY <1>5, <2>1, <2>3 DEF RanKnown
<1>11. CASE ToolNode
  <2> DEFINE A == Screen(msgs).admitted
  <2>1. pc = "tool" /\ pc' # "tool" /\ ran' \subseteq ran \cup A /\ nextId' = nextId
    BY <1>11 DEF ToolNode, Replan, ToolNodeRaises, RunTools, ToolsTimeOut, EnterToolNode, Fail
  <2>2. WellFormed(msgs') /\ Follows(msgs', msgs, A)
    BY <1>1, <1>11, ToolNodeFollows DEF ToolNodeResult
  <2>3. A \in SUBSET Last(msgs).calls /\ Len(msgs) \in DOMAIN msgs
    <3>1. A \in SUBSET Last(msgs).calls
      BY <1>1, ScreenIs
    <3> QED
      BY <1>1, <3>1, LenProperties DEF WellFormed
  <2> HIDE DEF A
  <2>4. CallsIn(SubSeq(msgs, 1, Len(msgs) - 1)) \cup A \subseteq CallsIn(msgs')
    BY <1>1, <2>2, FollowsCalls
  <2>5. \A c \in A : c.id < nextId
    BY <1>1, <2>3 DEF IdsUnique, Last
  <2>6. ~Compacted' => ran' \subseteq CallsIn(msgs')
    BY <1>6, <1>7, <2>1, <2>4 DEF Past
  <2> QED
    BY <1>5, <2>1, <2>5, <2>6 DEF RanKnown
<1>12. RecursionLimitHit \/ ModelFails \/ OtherRequestTurn \/ UNCHANGED vars => RanKnown'
  BY <1>4 DEF RecursionLimitHit, ModelFails, OtherRequestTurn, Fail, vars
<1> QED
  BY <1>8, <1>9, <1>10, <1>11, <1>12 DEF Next, AgentNode

\* The parallel cap lets no more than MaxParallel calls through.
LEMMA ParallelCap ==
    ASSUME NEW C \in SUBSET CallRecords, IsFiniteSet(C), \A c, d \in C : c.id = d.id => c = d
    PROVE  IsFiniteSet(InParallel(C)) /\ Cardinality(InParallel(C)) <= MaxParallel
<1> DEFINE before(c) == {d \in C : d.id < c.id}
           K == InParallel(C)
           f == [c \in K |-> Cardinality(before(c))]
<1>1. MaxParallel \in Nat \ {0}
  BY LoopAssumption
<1>2. \A c \in C : IsFiniteSet(before(c)) /\ Cardinality(before(c)) \in Nat
  <2> SUFFICES ASSUME NEW c \in C PROVE IsFiniteSet(before(c)) /\ Cardinality(before(c)) \in Nat
    OBVIOUS
  <2>1. before(c) \in SUBSET C
    OBVIOUS
  <2> HIDE DEF before
  <2>2. IsFiniteSet(before(c))
    BY <2>1, FS_Subset
  <2> QED
    BY <2>2, FS_CardinalityType
<1>3. ASSUME NEW c \in C, NEW e \in C, c.id < e.id
      PROVE  Cardinality(before(c)) < Cardinality(before(e))
  <2>1. \A d \in C : d.id \in Nat
    BY DEF CallRecords
  <2>2. before(c) \in SUBSET before(e)
    BY <1>3, <2>1
  <2>3. c \in before(e) /\ c \notin before(c)
    BY <1>3, <2>1
  <2> HIDE DEF before
  <2>4. /\ Cardinality(before(c)) <= Cardinality(before(e))
        /\ Cardinality(before(c)) = Cardinality(before(e)) => before(c) = before(e)
    BY <1>2, <2>2, FS_Subset
  <2> QED
    BY <1>2, <2>3, <2>4
<1>4. K \subseteq C
  BY DEF InParallel
<1>5. \A c \in K : Cardinality(before(c)) < MaxParallel
  BY DEF InParallel
<1> HIDE DEF before, K
<1>6. f \in [K -> 0 .. MaxParallel - 1]
  BY <1>1, <1>2, <1>4, <1>5
<1>7. ASSUME NEW c \in K, NEW e \in K, f[c] = f[e] PROVE c = e
  <2>1. Cardinality(before(c)) = Cardinality(before(e)) /\ c \in C /\ e \in C
    BY <1>4, <1>7
  <2>2. Cardinality(before(c)) \in Nat /\ c.id \in Nat /\ e.id \in Nat
    BY <1>2, <2>1 DEF CallRecords
  <2>3. ~(c.id < e.id) /\ ~(e.id < c.id)
    BY <1>3, <2>1, <2>2
  <2>4. c.id = e.id
    BY <2>2, <2>3
  <2> QED
    BY <2>1, <2>4
<1> HIDE DEF f
<1>8. f \in Injection(K, 0 .. MaxParallel - 1)
  BY <1>6, <1>7 DEF Injection, IsInjective
<1>9. IsFiniteSet(0 .. MaxParallel - 1) /\ Cardinality(0 .. MaxParallel - 1) = MaxParallel
  BY <1>1, FS_Interval
<1>10. IsFiniteSet(K) /\ Cardinality(K) <= MaxParallel
  BY <1>8, <1>9, FS_Injection
<1> QED
  BY <1>10 DEF K

\* What is left when no guard refused a call.
LEMMA AdmittedIs ==
    ASSUME NEW ms, Screen(ms).refused = {}
    PROVE  /\ Screen(ms).admitted = InParallel(Dedupe(Last(ms).calls))
           /\ \A c \in Screen(ms).admitted :
                 /\ ~OverLimit(SubSeq(ms, 1, Len(ms) - 1), c)
                 /\ ~Looping(SubSeq(ms, 1, Len(ms) - 1), c)
<1> DEFINE before == SubSeq(ms, 1, Len(ms) - 1)
           calls == Dedupe(Last(ms).calls)
           kept == InParallel(calls)
           writes == {c \in calls : DeniedWrite(c)}
           over == {c \in kept : OverLimit(before, c)}
           loops == {c \in kept : Looping(before, c)}
           refused == IF over # {} THEN over ELSE loops
<1>1. Screen(ms) = IF writes # {}
                   THEN [put_off |-> {}, refused |-> writes, admitted |-> calls]
                   ELSE [put_off |-> calls \ kept, refused |-> refused, admitted |-> kept \ refused]
  BY DEF Screen
<1> HIDE DEF before, calls, writes
<1>2. writes = {}
  BY <1>1
<1>3. refused = {} /\ Screen(ms).admitted = kept \ refused
  BY <1>1, <1>2
<1>4. over = {} /\ loops = {}
  BY <1>3
<1> QED
  BY <1>3, <1>4 DEF before, calls

\* Few calls join those a guard has counted.
LEMMA RanGrows ==
    ASSUME NEW G, IsFiniteSet(G), NEW old \in SUBSET G, NEW new, IsFiniteSet(new),
           NEW limit \in Int, NEW k \in Nat,
           Cardinality(old) <= limit + k, Cardinality(new) <= k,
           new # {} => Cardinality(G) <= limit
    PROVE  Cardinality(old \cup new) <= limit + k
<1>1. /\ IsFiniteSet(old) /\ Cardinality(old) <= Cardinality(G) /\ Cardinality(old) \in Nat
      /\ Cardinality(new) \in Nat /\ Cardinality(G) \in Nat
  BY FS_Subset, FS_CardinalityType
<1>2. CASE new = {}
  <2>1. old \cup new = old
    BY <1>2
  <2> QED
    BY <2>1
<1>3. CASE new # {}
  <2>1. /\ Cardinality(old \cup new) = Cardinality(old) + Cardinality(new) - Cardinality(old \cap new)
        /\ Cardinality(old \cap new) \in Nat
    BY <1>1, FS_Union, FS_Intersection, FS_CardinalityType
  <2> QED
    BY <1>1, <1>3, <2>1
<1> QED
  BY <1>2, <1>3

LEMMA FewerAtMost ==
    ASSUME NEW G, IsFiniteSet(G), NEW F \in SUBSET G, NEW k \in Int, Cardinality(G) <= k
    PROVE  Cardinality(F) <= k
BY FS_Subset, FS_CardinalityType

\* The calls a round hands over keep the budgets.
LEMMA RunBudgets ==
    ASSUME Ind2, RanKnown, BudgetsHold, IsFiniteSet(Raw), pc = "tool",
           Screen(msgs).refused = {}, Counted' \subseteq Counted \cup Screen(msgs).admitted
    PROVE  BudgetsHold'
<1> DEFINE A == Screen(msgs).admitted
           C == Last(msgs).calls
           D == Dedupe(C)
           before == SubSeq(msgs, 1, Len(msgs) - 1)
           H == CallsIn(before)
           Of(S) == {c \in Counted : c.raw \in S}
           New(S) == {c \in A : c.raw \in S}
<1>1. WellFormed(msgs) /\ IdsUnique(msgs, nextId)
  BY DEF Ind2, Ind, TypeOK
<1>2. /\ A = InParallel(D)
      /\ \A c \in A : ~OverLimit(before, c) /\ ~Looping(before, c)
  BY AdmittedIs
<1>3. C \in SUBSET CallRecords /\ IsFiniteSet(C) /\ \A c, d \in C : c.id = d.id => c = d
  <2>1. Len(msgs) \in DOMAIN msgs
    BY <1>1, LenProperties DEF WellFormed
  <2> QED
    BY <1>1, <2>1, ScreenIs DEF Last, IdsUnique
<1>4. /\ D \in SUBSET CallRecords /\ IsFiniteSet(D) /\ \A c, d \in D : c.id = d.id => c = d
      /\ \A c, d \in D : c.raw = d.raw => c = d
  <2>1. D \in SUBSET C
    BY DEF Dedupe
  <2>2. IsFiniteSet(D)
    BY <1>3, <2>1, FS_Subset
  <2>3. ASSUME NEW c \in D, NEW d \in D, c.raw = d.raw PROVE c = d
    <3>1. c.id <= d.id /\ d.id <= c.id
      BY <2>3 DEF Dedupe
    <3>2. c \in C /\ d \in C /\ c.id \in Nat /\ d.id \in Nat
      BY <1>3, <2>1 DEF CallRecords
    <3>3. c.id = d.id
      BY <3>1, <3>2
    <3> QED
      BY <1>3, <3>2, <3>3
  <2> QED
    BY <1>3, <2>1, <2>2, <2>3
<1> HIDE DEF C, D, A
<1>5. IsFiniteSet(A) /\ Cardinality(A) <= MaxParallel /\ A \subseteq D
  <2>1. InParallel(D) \subseteq D
    BY DEF InParallel
  <2> QED
    BY <1>2, <1>4, <2>1, ParallelCap
<1>6. Counted \subseteq H /\ IsFiniteSet(H) /\ H \subseteq CallRecords
  <2>1. H = UNION {msgs[i].calls : i \in 1 .. Len(msgs) - 1} /\ IsFiniteSet(H)
    BY <1>1, CallsAreFinite
  <2>2. \A i \in 1 .. Len(msgs) - 1 : msgs[i] \in Messages
    BY <1>1, LenProperties, ElementOfSeq DEF WellFormed
  <2> QED
    BY <2>1, <2>2 DEF RanKnown, Past, Messages
<1> HIDE DEF H
<1>7. MaxParallel \in Nat \ {0} /\ LoopThreshold \in Nat \ {0} /\ \A t \in DOMAIN Limit : Limit[t] \in Nat
  BY LoopAssumption
<1>8. \A S : {c \in Counted' : c.raw \in S} \in SUBSET (Of(S) \cup New(S))
  BY DEF A
<1>9. \A S : IsFiniteSet(New(S)) /\ Cardinality(New(S)) \in Nat /\ Cardinality(New(S)) <= MaxParallel
  <2> SUFFICES ASSUME NEW S PROVE IsFiniteSet(New(S)) /\ Cardinality(New(S)) \in Nat
                                  /\ Cardinality(New(S)) <= MaxParallel
    OBVIOUS
  <2>1. New(S) \in SUBSET A
    OBVIOUS
  <2> HIDE DEF New
  <2>2. IsFiniteSet(New(S)) /\ Cardinality(New(S)) <= Cardinality(A)
    BY <1>5, <2>1, FS_Subset
  <2> QED
    BY <1>5, <1>7, <2>2, FS_CardinalityType
<1>10. ASSUME NEW t \in DOMAIN Limit
       PROVE  Cardinality({c \in Counted' : c.raw \in Calling(t)}) <= Limit[t] + MaxParallel - 1
  <2> DEFINE S == Calling(t)
             G == {c \in H : ToolOf[c.raw] = t}
  <2>1. Of(S) \in SUBSET G
    BY <1>6 DEF Calling
  <2>2. IsFiniteSet(G)
    <3>1. G \in SUBSET H
      OBVIOUS
    <3> QED
      BY <1>6, <3>1, FS_Subset
  <2>3. Cardinality(Of(S)) <= Limit[t] + MaxParallel - 1
    BY DEF BudgetsHold, ToolBudget, CountOf
  <2>4. New(S) # {} => Cardinality(G) <= Limit[t] - 1 /\ Limit[t] # 0
    <3> SUFFICES ASSUME NEW c \in A, c.raw \in S PROVE Cardinality(G) <= Limit[t] - 1 /\ Limit[t] # 0
      OBVIOUS
    <3>1. ToolOf[c.raw] = t /\ ~OverLimit(before, c)
      BY <1>2 DEF Calling
    <3>2. ~(NameCount(before, t) >= Limit[t])
      BY <3>1 DEF OverLimit
    <3>3. NameCount(before, t) = Cardinality(G)
      BY DEF NameCount, H
    <3>4. Cardinality(G) \in Nat
      BY <2>2, FS_CardinalityType
    <3> QED
      BY <1>7, <3>2, <3>3, <3>4
  <2>5. Cardinality(New(S)) <= MaxParallel /\ IsFiniteSet(New(S)) /\ Cardinality(New(S)) \in Nat
    BY <1>9
  <2> HIDE DEF S, G, Of, New
  <2>6. Cardinality(Of(S) \cup New(S)) <= Limit[t] + MaxParallel - 1
    <3>1. Limit[t] - 1 \in Int /\ MaxParallel \in Nat /\ Limit[t] \in Nat
      BY <1>7
    <3>2. Cardinality(Of(S)) <= (Limit[t] - 1) + MaxParallel
      BY <2>1, <2>2, <2>3, <3>1, FS_Subset, FS_CardinalityType
    <3>3. Cardinality(Of(S) \cup New(S)) <= (Limit[t] - 1) + MaxParallel
      BY <2>1, <2>2, <2>4, <2>5, <3>1, <3>2, RanGrows
    <3>4. \A x \in Int : x <= (Limit[t] - 1) + MaxParallel => x <= Limit[t] + MaxParallel - 1
      BY <3>1
    <3>5. Cardinality(Of(S) \cup New(S)) \in Int
      <4>1. IsFiniteSet(Of(S))
        BY <2>1, <2>2, FS_Subset
      <4>2. IsFiniteSet(Of(S) \cup New(S))
        BY <2>5, <4>1, FS_Union
      <4> QED
        BY <4>2, FS_CardinalityType
    <3> QED
      BY <3>3, <3>4, <3>5
  <2>7. IsFiniteSet(Of(S) \cup New(S))
    BY <2>1, <2>2, <2>5, FS_Subset, FS_Union
  <2>8. {c \in Counted' : c.raw \in S} \in SUBSET (Of(S) \cup New(S))
    BY <1>8
  <2>9. Cardinality({c \in Counted' : c.raw \in S}) <= Limit[t] + MaxParallel - 1
    BY <1>7, <2>6, <2>7, <2>8, FewerAtMost
  <2> QED
    BY <2>9 DEF S
<1>11. ASSUME NEW r \in Raw
       PROVE  Cardinality({c \in Counted' : c.raw \in Signed(SigOf[r])}) <=
                 LoopThreshold - 1 + Min({MaxParallel, Cardinality(Signed(SigOf[r]))})
  <2> DEFINE S == Signed(SigOf[r])
             G == {c \in H : SigOf[c.raw] = SigOf[r]}
             most == Min({MaxParallel, Cardinality(S)})
  <2>1. Of(S) \in SUBSET G
    BY <1>6 DEF Signed
  <2>2. IsFiniteSet(G) /\ IsFiniteSet(S) /\ Cardinality(S) \in Nat
    <3>1. G \in SUBSET H /\ S \in SUBSET Raw
      BY DEF Signed
    <3> HIDE DEF S, G
    <3> QED
      BY <1>6, <3>1, FS_Subset, FS_CardinalityType
  <2>3. Cardinality(Of(S)) <= LoopThreshold - 1 + most
    BY DEF BudgetsHold, LoopBudget, CountOf
  <2>4. New(S) # {} => Cardinality(G) <= LoopThreshold - 1
    <3> SUFFICES ASSUME NEW c \in A, c.raw \in S PROVE Cardinality(G) <= LoopThreshold - 1
      OBVIOUS
    <3>1. SigOf[c.raw] = SigOf[r] /\ ~Looping(before, c)
      BY <1>2 DEF Signed
    <3>2. ~(SigCount(before, SigOf[r]) >= LoopThreshold)
      BY <3>1 DEF Looping
    <3>3. SigCount(before, SigOf[r]) = Cardinality(G)
      BY DEF SigCount, H
    <3>4. Cardinality(G) \in Nat
      BY <2>2, FS_CardinalityType
    <3> QED
      BY <1>7, <3>2, <3>3, <3>4
  <2>5. Cardinality(New(S)) <= MaxParallel /\ IsFiniteSet(New(S)) /\ Cardinality(New(S)) \in Nat
    BY <1>9
  <2>6. Cardinality(New(S)) <= Cardinality(S)
    <3> DEFINE f == [c \in New(S) |-> c.raw]
    <3>1. f \in Injection(New(S), S)
      <4>1. f \in [New(S) -> S]
        OBVIOUS
      <4>2. \A c, d \in New(S) : f[c] = f[d] => c = d
        BY <1>4, <1>5
      <4> QED
        BY <4>1, <4>2 DEF Injection, IsInjective
    <3> HIDE DEF f, S, New
    <3> QED
      BY <2>2, <3>1, FS_Injection
  <2> HIDE DEF S, G, Of, New
  <2>7. most \in Nat /\ Cardinality(New(S)) <= most
    <3> DEFINE T == {MaxParallel, Cardinality(S)}
    <3>1. \E x \in T : \A y \in T : x <= y
      BY <1>7, <2>2
    <3>2. Min(T) \in T
      BY <3>1 DEF Min
    <3> QED
      BY <1>7, <2>2, <2>5, <2>6, <3>2
  <2> HIDE DEF most
  <2>8. Cardinality(Of(S) \cup New(S)) <= LoopThreshold - 1 + most
    <3>1. LoopThreshold - 1 \in Int
      BY <1>7
    <3> QED
      BY <2>1, <2>2, <2>3, <2>4, <2>5, <2>7, <3>1, RanGrows
  <2>9. IsFiniteSet(Of(S) \cup New(S)) /\ LoopThreshold - 1 + most \in Int
    <3>1. IsFiniteSet(Of(S))
      BY <2>1, <2>2, FS_Subset
    <3>2. LoopThreshold - 1 + most \in Int
      BY <1>7, <2>7
    <3> QED
      BY <2>5, <3>1, <3>2, FS_Union
  <2>10. {c \in Counted' : c.raw \in S} \in SUBSET (Of(S) \cup New(S))
    BY <1>8
  <2>11. Cardinality({c \in Counted' : c.raw \in S}) <= LoopThreshold - 1 + most
    BY <2>8, <2>9, <2>10, FewerAtMost
  <2> QED
    BY <2>11 DEF S, most
<1> QED
  BY <1>10, <1>11 DEF BudgetsHold, ToolBudget, LoopBudget, CountOf

LEMMA LoopBound ==
    ASSUME IsFiniteSet(Raw), NEW r \in Raw
    PROVE  Min({MaxParallel, Cardinality(Signed(SigOf[r]))}) \in Nat
<1> DEFINE T == {MaxParallel, Cardinality(Signed(SigOf[r]))}
<1>1. T \subseteq Nat
  <2>1. Signed(SigOf[r]) \in SUBSET Raw
    BY DEF Signed
  <2> QED
    BY <2>1, FS_Subset, FS_CardinalityType, LoopAssumption
<1>2. \E x \in T : \A y \in T : x <= y
  BY <1>1
<1>3. Min(T) \in T
  BY <1>2 DEF Min
<1> QED
  BY <1>1, <1>3

LEMMA BudgetStep ==
    ASSUME IsFiniteSet(Raw), Ind2, RanKnown, BudgetsHold, [Next]_vars
    PROVE  BudgetsHold'
<1>1. Counted' \subseteq Counted \cup (ran' \ ran)
  BY CountedStep
<1>2. IsFiniteSet(Counted) /\ IsFiniteSet(Raw) /\ IsFiniteSet(ran)
  BY FS_Subset DEF Ind2, Ind, TypeOK, Counted
<1>3. CASE ran' = ran
  <2>1. \A S : {c \in Counted' : c.raw \in S} \in SUBSET {c \in Counted : c.raw \in S}
    BY <1>1, <1>3
  <2>2. \A S : IsFiniteSet({c \in Counted : c.raw \in S})
    <3> SUFFICES ASSUME NEW S PROVE IsFiniteSet({c \in Counted : c.raw \in S})
      OBVIOUS
    <3>1. {c \in Counted : c.raw \in S} \in SUBSET Counted
      OBVIOUS
    <3> QED
      BY <1>2, <3>1, FS_Subset
  <2>3. ASSUME NEW S, NEW k \in Int, CountOf(Counted, S) <= k PROVE CountOf(Counted', S) <= k
    BY <2>1, <2>2, <2>3, FewerAtMost DEF CountOf
  <2>4. ToolBudget'
    <3> SUFFICES ASSUME NEW t \in DOMAIN Limit
                 PROVE  CountOf(Counted', Calling(t)) <= Limit[t] + MaxParallel - 1
      BY DEF ToolBudget
    <3>1. Limit[t] + MaxParallel - 1 \in Int
      BY LoopAssumption
    <3> QED
      BY <2>3, <3>1 DEF BudgetsHold, ToolBudget
  <2>5. LoopBudget'
    <3> SUFFICES ASSUME NEW r \in Raw
                 PROVE  CountOf(Counted', Signed(SigOf[r])) <=
                           LoopThreshold - 1 + Min({MaxParallel, Cardinality(Signed(SigOf[r]))})
      BY DEF LoopBudget
    <3>1. LoopThreshold - 1 + Min({MaxParallel, Cardinality(Signed(SigOf[r]))}) \in Int
      <4>1. LoopThreshold \in Nat
        BY LoopAssumption
      <4>2. Min({MaxParallel, Cardinality(Signed(SigOf[r]))}) \in Nat
        BY LoopBound
      <4> QED
        BY <4>1, <4>2
    <3> QED
      BY <2>3, <3>1 DEF BudgetsHold, LoopBudget
  <2> QED
    BY <2>4, <2>5 DEF BudgetsHold
<1>4. ASSUME NEW errors, RunTools(errors) PROVE BudgetsHold'
  BY <1>1, <1>4, RunBudgets DEF RunTools, EnterToolNode
<1>5. CASE ToolsTimeOut
  BY <1>1, <1>5, RunBudgets DEF ToolsTimeOut, EnterToolNode
<1>6. ASSUME NEW long \in BOOLEAN, NEW summarised \in BOOLEAN, CompactHistory(long, summarised)
      PROVE  ran' = ran
  BY <1>6 DEF CompactHistory
<1>7. ASSUME NEW batch \in Batch, ModelAnswers(batch) PROVE ran' = ran
  BY <1>7 DEF ModelAnswers
<1>8. RecursionLimitHit \/ RepairAndRetry \/ ModelFails \/ Replan \/ ToolNodeRaises
      \/ OtherRequestTurn \/ UNCHANGED vars => ran' = ran
  BY DEF RecursionLimitHit, RepairAndRetry, ModelFails, Replan, ToolNodeRaises, OtherRequestTurn, vars
<1> QED
  BY <1>3, <1>4, <1>5, <1>6, <1>7, <1>8 DEF Next, AgentNode, ToolNode

LEMMA BudgetStart == ASSUME IsFiniteSet(Raw), Init PROVE RanKnown /\ BudgetsHold
<1>1. Counted = {} /\ ran = {} /\ pc # "tool" /\ \A S : {c \in Counted : c.raw \in S} = {}
  BY DEF Init, Counted
<1>2. \A S : CountOf(Counted, S) = 0
  BY <1>1, FS_EmptySet DEF CountOf
<1>3. ToolBudget
  BY <1>2, LoopAssumption DEF ToolBudget
<1>4. LoopBudget
  <2> SUFFICES ASSUME NEW r \in Raw
               PROVE  0 <= LoopThreshold - 1 + Min({MaxParallel, Cardinality(Signed(SigOf[r]))})
    BY <1>2 DEF LoopBudget
  <2> QED
    BY LoopBound, LoopAssumption
<1> QED
  BY <1>1, <1>3, <1>4 DEF RanKnown, BudgetsHold

(* The guards of tool_node keep what one request may run of a limited tool *)
(* and of equivalent calls within the enforced budgets, of all the calls   *)
(* that ran while no compaction has cut the history, and of those it still *)
(* holds afterwards: the guards count calls in the history, so compaction  *)
(* gives back to a request what it evicts (the run limit_enforced shows    *)
(* it).  A model answer has bounded length, so there are finitely many raw *)
(* calls.  The invariant says that the calls counted are in the history,   *)
(* and that what has left it does not return.                              *)
THEOREM BudgetsKept ==
    ASSUME IsFiniteSet(Raw)
    PROVE  Spec => []BudgetsHold
<1>1. Ind2 /\ RanKnown /\ BudgetsHold /\ [Next]_vars => (Ind2 /\ RanKnown /\ BudgetsHold)'
  BY IdsStep, RanStep, BudgetStep
<1>2. Init => Ind2 /\ RanKnown /\ BudgetsHold
  BY EvidenceStart, BudgetStart
<1> QED
  BY <1>1, <1>2, PTL DEF Spec
=============================================================================
