------------------------- MODULE CpuSchedulerProofs -------------------------
(***************************************************************************)
(* Proofs about CpuScheduler.  The inductive invariant says what is in the *)
(* queues, what the accounts of memory, workers and pipelines sum up, and  *)
(* that a task is admitted after those it depends on: the order of         *)
(* admission is what rules out that tasks wait for one another.            *)
(***************************************************************************)
EXTENDS CpuScheduler, DataFacts

-----------------------------------------------------------------------------
(* What is left of a queue when tasks leave it. *)
IsKept(f, q, S, m) ==
  f = [n \in 0 .. m |-> IF n = 0 THEN <<>> ELSE
         IF q[n] \in S THEN f[n - 1] ELSE Append(f[n - 1], q[n])]

LEMMA WithoutDef ==
  ASSUME NEW q, NEW S
  PROVE  Without(q, S) = (CHOOSE f : IsKept(f, q, S, Len(q)))[Len(q)]
BY DEF Without, IsKept

LEMMA LeastFailure ==
  ASSUME NEW m \in Nat, NEW B, B \subseteq 0 .. m, B # {}
  PROVE  \E n \in B : \A k \in 0 .. m : k < n => k \notin B
<1>1. B \subseteq Nat
  OBVIOUS
<1> DEFINE n == Min(B)
<1>2. n \in B /\ \A x \in B : n =< x
  BY <1>1, MinIsLeast
<1> HIDE DEF n
<1>3. ASSUME NEW k \in 0 .. m, k < n PROVE k \notin B
  BY <1>1, <1>2, <1>3
<1> QED BY <1>2, <1>3

LEMMA KeptExists ==
  ASSUME NEW q, NEW S, NEW m \in Nat
  PROVE  \E f : IsKept(f, q, S, m)
<1> DEFINE B == {n \in 0 .. m : ~ \E f : IsKept(f, q, S, n)}
<1>1. SUFFICES ASSUME B # {} PROVE FALSE
  OBVIOUS
<1>2. B \subseteq 0 .. m
  OBVIOUS
<1> HIDE DEF B
<1>3. PICK n \in B : \A k \in 0 .. m : k < n => k \notin B
  BY <1>1, <1>2, LeastFailure
<1> USE DEF B
<1>4. n \in 0 .. m /\ ~ \E f : IsKept(f, q, S, n)
  BY <1>3
<1>5. CASE n = 0
  <2> DEFINE f == [i \in 0 .. 0 |-> <<>>]
  <2>1. IsKept(f, q, S, 0)
    BY DEF IsKept
  <2> QED BY <1>4, <1>5, <2>1
<1>6. CASE n # 0
  <2>1. n - 1 \in 0 .. m /\ n - 1 < n
    BY <1>4, <1>6
  <2>2. PICK f : IsKept(f, q, S, n - 1)
    BY <1>3, <2>1
  <2> DEFINE g == [i \in 0 .. n |-> IF i < n THEN f[i] ELSE
                     IF q[n] \in S THEN f[n - 1] ELSE Append(f[n - 1], q[n])]
  <2>3. \A i \in 0 .. n - 1 : f[i] = IF i = 0 THEN <<>> ELSE
                                IF q[i] \in S THEN f[i - 1] ELSE Append(f[i - 1], q[i])
    BY <2>2 DEF IsKept
  <2>4. \A i \in 0 .. n : g[i] = IF i = 0 THEN <<>> ELSE
                            IF q[i] \in S THEN g[i - 1] ELSE Append(g[i - 1], q[i])
    <3> TAKE i \in 0 .. n
    <3>1. CASE i < n
      BY <1>4, <2>3, <3>1
    <3>2. CASE i = n
      BY <1>4, <1>6, <3>2
    <3> QED BY <1>4, <3>1, <3>2
  <2>5. IsKept(g, q, S, n)
    <3> DEFINE e(i) == IF i = 0 THEN <<>> ELSE
                         IF q[i] \in S THEN g[i - 1] ELSE Append(g[i - 1], q[i])
    <3>1. g = [i \in 0 .. n |-> g[i]]
      OBVIOUS
    <3> HIDE DEF g
    <3>2. g = [i \in 0 .. n |-> e(i)]
      BY <2>4, <3>1
    <3> QED BY <3>2 DEF IsKept
  <2> HIDE DEF g
  <2> QED BY <1>4, <2>5
<1> QED BY <1>5, <1>6

(* What is kept of the first n tasks of the queue. *)
KeptOf(T, q, S, n, r) ==
  /\ r \in Seq(T) /\ Len(r) =< n
  /\ \A x : (\E i \in 1 .. Len(r) : r[i] = x) <=> x \notin S /\ \E k \in 1 .. n : q[k] = x
  /\ \A i, j \in 1 .. Len(r) : i < j =>
       \E k, l \in 1 .. n : k < l /\ q[k] = r[i] /\ q[l] = r[j]

LEMMA FirstTasks ==
  ASSUME NEW q, NEW n \in Nat, n # 0
  PROVE  /\ n - 1 \in Nat /\ n \in 1 .. n /\ \A k \in 1 .. n - 1 : k \in 1 .. n /\ k < n
         /\ \A x : (\E k \in 1 .. n : q[k] = x) <=> (\E k \in 1 .. n - 1 : q[k] = x) \/ x = q[n]
<1>1. n - 1 \in Nat /\ n \in 1 .. n /\ \A k \in 1 .. n - 1 : k \in 1 .. n /\ k < n
  OBVIOUS
<1>2. \A k \in 1 .. n : k \in 1 .. n - 1 \/ k = n
  OBVIOUS
<1>3. ASSUME NEW x, \E k \in 1 .. n : q[k] = x
      PROVE  (\E k \in 1 .. n - 1 : q[k] = x) \/ x = q[n]
  BY <1>2, <1>3
<1>4. ASSUME NEW x, (\E k \in 1 .. n - 1 : q[k] = x) \/ x = q[n]
      PROVE  \E k \in 1 .. n : q[k] = x
  BY <1>1, <1>4
<1> QED BY <1>1, <1>3, <1>4

LEMMA KeepNone ==
  ASSUME NEW T, NEW q, NEW S, NEW n \in Nat, n # 0, NEW r, KeptOf(T, q, S, n - 1, r),
         q[n] \in S
  PROVE  KeptOf(T, q, S, n, r)
<1>1. /\ n - 1 \in Nat /\ \A k \in 1 .. n - 1 : k \in 1 .. n
      /\ \A x : (\E k \in 1 .. n : q[k] = x) <=> (\E k \in 1 .. n - 1 : q[k] = x) \/ x = q[n]
  BY FirstTasks
<1>2. r \in Seq(T) /\ Len(r) =< n
  BY <1>1 DEF KeptOf
<1>3. \A x : (\E i \in 1 .. Len(r) : r[i] = x) <=> x \notin S /\ \E k \in 1 .. n : q[k] = x
  BY <1>1 DEF KeptOf
<1>4. \A i, j \in 1 .. Len(r) : i < j =>
        \E k, l \in 1 .. n : k < l /\ q[k] = r[i] /\ q[l] = r[j]
  BY <1>1 DEF KeptOf
<1> QED BY <1>2, <1>3, <1>4 DEF KeptOf

LEMMA KeepOne ==
  ASSUME NEW T, NEW q, NEW S, NEW n \in Nat, n # 0, NEW r, KeptOf(T, q, S, n - 1, r),
         q[n] \notin S, q[n] \in T
  PROVE  KeptOf(T, q, S, n, Append(r, q[n]))
<1> DEFINE a == Append(r, q[n])
<1>1. /\ n - 1 \in Nat /\ n \in 1 .. n /\ \A k \in 1 .. n - 1 : k \in 1 .. n /\ k < n
      /\ \A x : (\E k \in 1 .. n : q[k] = x) <=> (\E k \in 1 .. n - 1 : q[k] = x) \/ x = q[n]
  BY FirstTasks
<1>2. /\ r \in Seq(T) /\ Len(r) \in Nat /\ Len(r) =< n - 1
      /\ \A x : (\E i \in 1 .. Len(r) : r[i] = x)
                  <=> x \notin S /\ \E k \in 1 .. n - 1 : q[k] = x
      /\ \A i, j \in 1 .. Len(r) : i < j =>
           \E k, l \in 1 .. n - 1 : k < l /\ q[k] = r[i] /\ q[l] = r[j]
  BY DEF KeptOf
<1>3. /\ a \in Seq(T) /\ Len(a) = Len(r) + 1 /\ a[Len(r) + 1] = q[n]
      /\ \A i \in 1 .. Len(r) : a[i] = r[i]
  BY <1>2
<1> HIDE DEF a
<1>4. /\ \A i \in 1 .. Len(a) : i \in 1 .. Len(r) \/ i = Len(r) + 1
      /\ \A i \in 1 .. Len(r) : i \in 1 .. Len(a)
      /\ Len(r) + 1 \in 1 .. Len(a) /\ Len(a) =< n
  BY <1>2, <1>3
<1>5. \A x : (\E i \in 1 .. Len(a) : a[i] = x)
               <=> (\E i \in 1 .. Len(r) : r[i] = x) \/ x = q[n]
  <2> TAKE x
  <2>1. ASSUME NEW i \in 1 .. Len(a), a[i] = x
        PROVE  (\E k \in 1 .. Len(r) : r[k] = x) \/ x = q[n]
    BY <1>3, <1>4, <2>1
  <2>2. ASSUME NEW i \in 1 .. Len(r), r[i] = x PROVE \E k \in 1 .. Len(a) : a[k] = x
    BY <1>3, <1>4, <2>2
  <2>3. x = q[n] => \E k \in 1 .. Len(a) : a[k] = x
    BY <1>3, <1>4
  <2> QED BY <2>1, <2>2, <2>3
<1>6. \A x : (\E i \in 1 .. Len(a) : a[i] = x) <=> x \notin S /\ \E k \in 1 .. n : q[k] = x
  BY <1>1, <1>2, <1>5
<1>7. ASSUME NEW i \in 1 .. Len(a), NEW j \in 1 .. Len(a), i < j
      PROVE  \E k, l \in 1 .. n : k < l /\ q[k] = a[i] /\ q[l] = a[j]
  <2>1. i \in 1 .. Len(r) /\ a[i] = r[i]
    BY <1>2, <1>3, <1>4, <1>7
  <2>2. CASE j \in 1 .. Len(r)
    <3>1. PICK k \in 1 .. n - 1, l \in 1 .. n - 1 : k < l /\ q[k] = r[i] /\ q[l] = r[j]
      BY <1>2, <1>7, <2>1, <2>2
    <3> QED BY <1>1, <1>3, <2>1, <2>2, <3>1
  <2>3. CASE j \notin 1 .. Len(r)
    <3>1. a[j] = q[n]
      BY <1>3, <1>4, <2>3
    <3>2. PICK k \in 1 .. n - 1 : q[k] = r[i]
      BY <1>2, <2>1
    <3> QED BY <1>1, <2>1, <3>1, <3>2
  <2> QED BY <2>2, <2>3
<1>8. KeptOf(T, q, S, n, a)
  BY <1>3, <1>4, <1>6, <1>7 DEF KeptOf
<1> QED BY <1>8 DEF a

(* What follows in w follows in q. *)
KeepsOrder(w, q) ==
  \A i, j \in 1 .. Len(w) : i < j => \E k, l \in 1 .. Len(q) : k < l /\ q[k] = w[i] /\ q[l] = w[j]

LEMMA WithoutFacts ==
  ASSUME NEW T, NEW q \in Seq(T), NEW S
  PROVE  /\ Without(q, S) \in Seq(T) /\ Len(Without(q, S)) =< Len(q)
         /\ Range(Without(q, S)) = Range(q) \ S /\ KeepsOrder(Without(q, S), q)
<1> DEFINE m == Len(q)
           f == CHOOSE g : IsKept(g, q, S, m)
           w == Without(q, S)
           B == {n \in 0 .. m : ~ KeptOf(T, q, S, n, f[n])}
<1>1. m \in Nat /\ \A i \in 1 .. m : q[i] \in T
  OBVIOUS
<1>2. w = f[m]
  BY WithoutDef
<1>3. \E g : IsKept(g, q, S, m)
  BY <1>1, KeptExists
<1>4. IsKept(f, q, S, m)
  BY <1>3
<1> HIDE DEF w, f
<1>5. ASSUME NEW n \in 0 .. m
      PROVE  f[n] = IF n = 0 THEN <<>> ELSE
                      IF q[n] \in S THEN f[n - 1] ELSE Append(f[n - 1], q[n])
  BY <1>4 DEF IsKept
<1>6. ASSUME B # {} PROVE FALSE
  <2>1. B \subseteq 0 .. m
    OBVIOUS
  <2> HIDE DEF B
  <2>2. PICK n \in B : \A k \in 0 .. m : k < n => k \notin B
    BY <1>1, <1>6, <2>1, LeastFailure
  <2>3. n \in 0 .. m /\ ~ KeptOf(T, q, S, n, f[n])
    BY <2>2 DEF B
  <2>4. n \in Nat
    BY <1>1, <2>3
  <2>5. n # 0
    <3>1. n = 0 => f[n] = <<>>
      BY <1>5, <2>3
    <3>2. KeptOf(T, q, S, 0, <<>>)
      BY DEF KeptOf
    <3> QED BY <2>3, <3>1, <3>2
  <2>6. n - 1 \in 0 .. m /\ n - 1 < n /\ n \in 1 .. m
    BY <1>1, <2>3, <2>5
  <2>7. KeptOf(T, q, S, n - 1, f[n - 1])
    BY <2>2, <2>6 DEF B
  <2>8. f[n] = IF q[n] \in S THEN f[n - 1] ELSE Append(f[n - 1], q[n])
    BY <1>5, <2>3, <2>5
  <2>9. CASE q[n] \in S
    BY <2>3, <2>4, <2>5, <2>7, <2>8, <2>9, KeepNone
  <2>10. CASE q[n] \notin S
    <3>1. q[n] \in T
      BY <1>1, <2>6
    <3> QED BY <2>3, <2>4, <2>5, <2>7, <2>8, <2>10, <3>1, KeepOne
  <2> QED BY <2>9, <2>10
<1>7. KeptOf(T, q, S, m, w)
  <2>1. m \in 0 .. m
    BY <1>1
  <2> QED BY <1>2, <1>6, <2>1
<1>8. /\ w \in Seq(T) /\ Len(w) =< m
      /\ \A x : (\E i \in 1 .. Len(w) : w[i] = x) <=> x \notin S /\ \E k \in 1 .. m : q[k] = x
      /\ \A i, j \in 1 .. Len(w) : i < j =>
           \E k, l \in 1 .. m : k < l /\ q[k] = w[i] /\ q[l] = w[j]
  BY <1>7 DEF KeptOf
<1>9. \A x : x \in Range(q) <=> \E k \in 1 .. m : q[k] = x
  BY RangeFacts
<1>10. \A x : x \in Range(w) <=> \E i \in 1 .. Len(w) : w[i] = x
  BY <1>8, RangeFacts
<1>11. Range(w) = Range(q) \ S
  BY <1>8, <1>9, <1>10
<1> QED BY <1>8, <1>11 DEF w, KeepsOrder

-----------------------------------------------------------------------------
(* The inductive invariant. *)
IsTyped ==
  /\ state \in [Task -> State] /\ sequence \in [Task -> Nat]
  /\ enqueuedAt \in [Task -> 0..MaxClock] /\ cancelRequested \in [Task -> BOOLEAN]
  /\ queues \in [Priority -> Seq(Task)] /\ deficits \in [Priority -> Int]
  /\ degraded \in BOOLEAN /\ shutdown \subseteq {"DrainVisible", "AbortAll"}
  /\ token \in [Task -> BOOLEAN] /\ clock \in 0..MaxClock

KnownTasks == {t \in Task : Known(t)}

(* A task is numbered when it is admitted, after those it depends on. *)
NumberInv ==
  /\ \A t \in KnownTasks : /\ sequence[t] \in 1 .. Cardinality(KnownTasks) /\ ClaimIsValid(t)
                           /\ \A d \in Dependencies[t] :
                                d \in KnownTasks /\ sequence[d] < sequence[t]
  /\ \A t, u \in KnownTasks : sequence[t] = sequence[u] => t = u
  /\ \A t \in Task \ KnownTasks : sequence[t] = 0

QueueInv ==
  /\ \A t \in Task : state[t] = "Queued" => t \in Range(queues[PriorityOf[t]])
  /\ \A p \in Priority : \A t \in Range(queues[p]) : state[t] = "Queued" /\ PriorityOf[t] = p
  /\ \A p \in Priority : \A i, j \in 1 .. Len(queues[p]) :
       i < j => sequence[queues[p][i]] < sequence[queues[p][j]]
  /\ QueueLength =< TotalQueueLimit

(* What start_next has still to refresh is in the queues, once. *)
TodoInv ==
  ~Idle => /\ todo \in Seq(Task) /\ Distinct(todo)
           /\ \A t \in Range(todo) : state[t] = "Queued"

Queued == InState("Queued")
Running == InState("Running")
InHand == Queued \cup Running
Background == {t \in Task : ~Interactive(t)}

AccountInv ==
  /\ admittedMemory = MemoryOf(InHand) /\ admittedMemory =< MemoryLimit
  /\ activeMemory = MemoryOf(Running)
  /\ activeWorkers = SumFunctionOnSet(Workers, Running) /\ activeWorkers =< WorkerLimit
  /\ activePipelines = Cardinality(Running \cap Pipelines)
  /\ activePipelines =< ActivePipelineLimit
  /\ MemoryOf(InHand \cap Background) =< MemoryLimit - MemoryReservation

AbortInv == "AbortAll" \in shutdown => Queued = {}

-----------------------------------------------------------------------------
LEMMA PriorityFacts ==
  /\ Priority = {"InteractivePreview", "VisibleFullView", "UserExport", "VisibleThumbnail",
                 "PrefetchThumbnail", "BackgroundAnalysis", "Maintenance"}
  /\ IsFiniteSet(Priority)
<1> DEFINE Names == {"InteractivePreview", "VisibleFullView", "UserExport",
                     "VisibleThumbnail", "PrefetchThumbnail", "BackgroundAnalysis",
                     "Maintenance"}
<1>1. Priorities \in Seq(Names) /\ Len(Priorities) = 7
  BY DEF Priorities
<1>2. /\ Priorities[1] = "InteractivePreview" /\ Priorities[2] = "VisibleFullView"
      /\ Priorities[3] = "UserExport" /\ Priorities[4] = "VisibleThumbnail"
      /\ Priorities[5] = "PrefetchThumbnail" /\ Priorities[6] = "BackgroundAnalysis"
      /\ Priorities[7] = "Maintenance"
  BY DEF Priorities
<1>3. \A x : x \in Priority <=> \E i \in 1 .. 7 : Priorities[i] = x
  BY <1>1, RangeFacts DEF Priority
<1>4. \A i \in 1 .. 7 : i \in {1, 2, 3, 4, 5, 6, 7}
  OBVIOUS
<1>5. 1 \in 1 .. 7 /\ 2 \in 1 .. 7 /\ 3 \in 1 .. 7 /\ 4 \in 1 .. 7 /\ 5 \in 1 .. 7
      /\ 6 \in 1 .. 7 /\ 7 \in 1 .. 7
  OBVIOUS
<1>6. \A x : x \in Priority <=>
        x \in {Priorities[1], Priorities[2], Priorities[3], Priorities[4], Priorities[5],
               Priorities[6], Priorities[7]}
  BY <1>3, <1>4, <1>5
<1>7. Distinct(Priorities)
  BY <1>1, <1>2, <1>4 DEF Distinct
<1>8. IsFiniteSet(Priority)
  BY <1>1, <1>7, DistinctCardinality DEF Priority
<1> QED BY <1>2, <1>6, <1>8

LEMMA WeightType == \A p \in Priority : Weight[p] \in Nat
BY PriorityFacts DEF Weight

(* The claims of a set of tasks add up, and leave as they came. *)
LEMMA ClaimSums ==
  ASSUME NEW f \in [Task -> Nat \ {0}], NEW S, S \subseteq Task
  PROVE  /\ SumFunctionOnSet(f, S) \in Nat
         /\ \A t \in Task \ S : SumFunctionOnSet(f, S \cup {t}) = SumFunctionOnSet(f, S) + f[t]
         /\ \A X \in SUBSET S :
              /\ SumFunctionOnSet(f, X) \in Nat
              /\ SumFunctionOnSet(f, S \ X) = SumFunctionOnSet(f, S) - SumFunctionOnSet(f, X)
              /\ SumFunctionOnSet(f, X) =< SumFunctionOnSet(f, S)
         /\ \A t \in S : SumFunctionOnSet(f, S \ {t}) = SumFunctionOnSet(f, S) - f[t]
<1>1. IsFiniteSet(S) /\ \A y \in Task : f[y] \in Nat /\ f[y] \in Int
  BY SchedulerConstants, FS_Subset
<1>2. SumFunctionOnSet(f, S) \in Nat
  BY <1>1, SumOverType
<1>3. ASSUME NEW t \in Task \ S
      PROVE  SumFunctionOnSet(f, S \cup {t}) = SumFunctionOnSet(f, S) + f[t]
  <2>1. SumFunctionOnSet(f, S \cup {t}) = f[t] + SumFunctionOnSet(f, S)
    BY <1>1, SumOverAdd
  <2> QED BY <1>1, <1>2, <2>1
<1>4. ASSUME NEW X \in SUBSET S
      PROVE  /\ SumFunctionOnSet(f, X) \in Nat
             /\ SumFunctionOnSet(f, S \ X) = SumFunctionOnSet(f, S) - SumFunctionOnSet(f, X)
             /\ SumFunctionOnSet(f, X) =< SumFunctionOnSet(f, S)
  BY <1>1, SumOverLeave
<1>5. ASSUME NEW t \in S
      PROVE  SumFunctionOnSet(f, S \ {t}) = SumFunctionOnSet(f, S) - f[t]
  <2>1. SumFunctionOnSet(f, S) = f[t] + SumFunctionOnSet(f, S \ {t})
    BY <1>1, SumOverRemove
  <2>2. SumFunctionOnSet(f, S \ {t}) \in Nat
    BY <1>4
  <2> QED BY <1>1, <2>1, <2>2
<1> QED BY <1>2, <1>3, <1>4, <1>5

-----------------------------------------------------------------------------
(* start_next: the list it works through, and the class it selects. *)
LEMMA AllQueuedFacts ==
  ASSUME IsTyped, QueueInv, NumberInv
  PROVE  /\ AllQueued \in Seq(Task) /\ Distinct(AllQueued)
         /\ \A t \in Range(AllQueued) : state[t] = "Queued"
<1> DEFINE q(i) == queues[Priorities[i]]
<1>1. /\ Priorities[1] = "InteractivePreview" /\ Priorities[2] = "VisibleFullView"
      /\ Priorities[3] = "UserExport" /\ Priorities[4] = "VisibleThumbnail"
      /\ Priorities[5] = "PrefetchThumbnail" /\ Priorities[6] = "BackgroundAnalysis"
      /\ Priorities[7] = "Maintenance"
  BY DEF Priorities
<1>2. ASSUME NEW p \in Priority
      PROVE  /\ queues[p] \in Seq(Task) /\ Distinct(queues[p])
             /\ \A t \in Range(queues[p]) : state[t] = "Queued" /\ PriorityOf[t] = p
  <2>1. queues[p] \in Seq(Task)
    BY DEF IsTyped
  <2>2. \A i \in 1 .. Len(queues[p]) : queues[p][i] \in Task
    BY <2>1
  <2>3. \A i, j \in 1 .. Len(queues[p]) : queues[p][i] = queues[p][j] => i = j
    <3>1. SUFFICES ASSUME NEW i \in 1 .. Len(queues[p]), NEW j \in 1 .. Len(queues[p]),
                          queues[p][i] = queues[p][j], i # j
                   PROVE  FALSE
      OBVIOUS
    <3>2. i < j \/ j < i
      BY <3>1
    <3>3. sequence[queues[p][i]] \in Nat
      BY <2>2 DEF IsTyped
    <3> QED BY <3>1, <3>2, <3>3 DEF QueueInv
  <2> QED BY <2>1, <2>3 DEF QueueInv, Distinct
<1>3. \A i \in {1, 2, 3, 4, 5, 6, 7} : Priorities[i] \in Priority
  BY <1>1, PriorityFacts
<1>4. \A i \in {1, 2, 3, 4, 5, 6, 7} :
        /\ q(i) \in Seq(Task) /\ Distinct(q(i))
        /\ \A t \in Range(q(i)) : state[t] = "Queued" /\ PriorityOf[t] = Priorities[i]
  BY <1>2, <1>3
<1>5. \A i, j \in {1, 2, 3, 4, 5, 6, 7} : i # j => Priorities[i] # Priorities[j]
  BY <1>1
<1> HIDE DEF q
<1>6. \A i, j \in {1, 2, 3, 4, 5, 6, 7} : i # j => Range(q(i)) \cap Range(q(j)) = {}
  <2>1. SUFFICES ASSUME NEW i \in {1, 2, 3, 4, 5, 6, 7}, NEW j \in {1, 2, 3, 4, 5, 6, 7},
                        NEW t \in Range(q(i)), t \in Range(q(j))
                 PROVE  i = j
    OBVIOUS
  <2>2. PriorityOf[t] = Priorities[i]
    BY <1>4
  <2>3. PriorityOf[t] = Priorities[j]
    BY <1>4, <2>1
  <2> QED BY <1>5, <2>2, <2>3
<1>7. ASSUME NEW i \in {1, 2, 3, 4, 5, 6, 7}, NEW s \in Seq(Task), Distinct(s),
             \A t \in Range(s) : t \notin Range(q(i)) /\ state[t] = "Queued"
      PROVE  /\ s \o q(i) \in Seq(Task) /\ Distinct(s \o q(i))
             /\ Range(s \o q(i)) = Range(s) \cup Range(q(i))
             /\ \A t \in Range(s \o q(i)) : state[t] = "Queued"
  <2>1. Range(s) \cap Range(q(i)) = {}
    BY <1>7
  <2>2. /\ s \o q(i) \in Seq(Task) /\ Distinct(s \o q(i))
        /\ Range(s \o q(i)) = Range(s) \cup Range(q(i))
    BY <1>4, <1>7, <2>1, ConcatFacts
  <2> QED BY <1>4, <1>7, <2>2
<1> DEFINE a2 == q(1) \o q(2)
           a3 == a2 \o q(3)
           a4 == a3 \o q(4)
           a5 == a4 \o q(5)
           a6 == a5 \o q(6)
           a7 == a6 \o q(7)
<1> DEFINE Good(s) == /\ s \in Seq(Task) /\ Distinct(s)
                      /\ \A t \in Range(s) : state[t] = "Queued"
<1>8. Good(a2) /\ Range(a2) = Range(q(1)) \cup Range(q(2))
  <2>1. \A t \in Range(q(1)) : t \notin Range(q(2)) /\ state[t] = "Queued"
    BY <1>4, <1>6
  <2> QED BY <1>4, <1>7, <2>1
<1> HIDE DEF a2
<1>9. Good(a3) /\ Range(a3) = Range(a2) \cup Range(q(3))
  <2>1. \A t \in Range(a2) : t \notin Range(q(3)) /\ state[t] = "Queued"
    BY <1>6, <1>8
  <2> QED BY <1>7, <1>8, <2>1
<1> HIDE DEF a3
<1>10. Good(a4) /\ Range(a4) = Range(a3) \cup Range(q(4))
  <2>1. \A t \in Range(a3) : t \notin Range(q(4)) /\ state[t] = "Queued"
    BY <1>6, <1>8, <1>9
  <2> QED BY <1>7, <1>9, <2>1
<1> HIDE DEF a4
<1>11. Good(a5) /\ Range(a5) = Range(a4) \cup Range(q(5))
  <2>1. \A t \in Range(a4) : t \notin Range(q(5)) /\ state[t] = "Queued"
    BY <1>6, <1>8, <1>9, <1>10
  <2> QED BY <1>7, <1>10, <2>1
<1> HIDE DEF a5
<1>12. Good(a6) /\ Range(a6) = Range(a5) \cup Range(q(6))
  <2>1. \A t \in Range(a5) : t \notin Range(q(6)) /\ state[t] = "Queued"
    BY <1>6, <1>8, <1>9, <1>10, <1>11
  <2> QED BY <1>7, <1>11, <2>1
<1> HIDE DEF a6
<1>13. Good(a7)
  <2>1. \A t \in Range(a6) : t \notin Range(q(7)) /\ state[t] = "Queued"
    BY <1>6, <1>8, <1>9, <1>10, <1>11, <1>12
  <2> QED BY <1>7, <1>12, <2>1
<1>14. AllQueued = a7
  BY DEF AllQueued, a2, a3, a4, a5, a6, q
<1> HIDE DEF a7
<1> QED BY <1>13, <1>14

LEMMA RunnableFacts ==
  ASSUME IsTyped, QueueInv, NEW p \in Contending
  PROVE  /\ p \in Priority /\ RunnableTask(p) \in Task /\ state[RunnableTask(p)] = "Queued"
         /\ PriorityOf[RunnableTask(p)] = p /\ DependenciesPassed(RunnableTask(p))
<1> DEFINE q == queues[p]
           i == Min(Runnable(p))
<1>1. p \in Priority /\ RunnableTask(p) # NoTask
  BY DEF Contending
<1>2. Runnable(p) # {} /\ RunnableTask(p) = q[i]
  BY <1>1 DEF RunnableTask
<1>3. q \in Seq(Task) /\ DOMAIN q = 1 .. Len(q)
  BY <1>1 DEF IsTyped
<1>4. Runnable(p) \subseteq 1 .. Len(q)
  BY <1>3 DEF Runnable
<1>5. Runnable(p) \subseteq Nat
  BY <1>4
<1>6. i \in Runnable(p)
  BY <1>2, <1>5, MinIsLeast
<1> HIDE DEF i
<1>7. i \in 1 .. Len(q) /\ DependenciesPassed(q[i])
  BY <1>3, <1>6 DEF Runnable
<1>8. q[i] \in Range(q) /\ q[i] \in Task
  BY <1>3, <1>7, RangeFacts
<1> QED BY <1>1, <1>2, <1>7, <1>8 DEF QueueInv

(* The credit of the classes and the age of their tasks leave no tie: two    *)
(* tasks never have the same number.                                         *)
LEMMA SelectedFacts ==
  ASSUME IsTyped, QueueInv, NumberInv, Contending # {}
  PROVE  /\ SelectPriority \in Contending
         /\ RunnableTask(SelectPriority) \in Queued
         /\ DependenciesPassed(RunnableTask(SelectPriority))
<1> DEFINE R == {r \in Contending \X Contending : Before(r[1], r[2])}
<1>1. ASSUME NEW p \in Contending
      PROVE  /\ Score(p) \in Int /\ sequence[RunnableTask(p)] \in Nat
             /\ RunnableTask(p) \in KnownTasks /\ PriorityOf[RunnableTask(p)] = p
  <2>1. p \in Priority /\ RunnableTask(p) \in Task /\ state[RunnableTask(p)] = "Queued"
        /\ PriorityOf[RunnableTask(p)] = p
    BY RunnableFacts
  <2>2. Weight[p] \in Nat
    BY <2>1, WeightType
  <2>3. deficits[p] \in Int /\ clock \in Int /\ enqueuedAt[RunnableTask(p)] \in Int
    BY <2>1 DEF IsTyped
  <2>4. Score(p) \in Int
    BY <2>2, <2>3 DEF Score, Credit
  <2> QED BY <2>1, <2>4 DEF IsTyped, KnownTasks, Known
<1>2. \A p, q \in Contending :
        /\ <<p, q>> \in R <=> Before(p, q)
        /\ p # q => sequence[RunnableTask(p)] # sequence[RunnableTask(q)]
  <2>1. ASSUME NEW p \in Contending, NEW q \in Contending PROVE <<p, q>> \in R <=> Before(p, q)
    OBVIOUS
  <2>2. ASSUME NEW p \in Contending, NEW q \in Contending, p # q
        PROVE  sequence[RunnableTask(p)] # sequence[RunnableTask(q)]
    <3>1. RunnableTask(p) # RunnableTask(q)
      BY <1>1, <2>2
    <3> QED BY <1>1, <3>1 DEF NumberInv
  <2> QED BY <2>1, <2>2
<1> HIDE DEF R
<1>3. \A p, q \in Contending : p # q => <<p, q>> \in R \/ <<q, p>> \in R
  <2>1. SUFFICES ASSUME NEW p \in Contending, NEW q \in Contending, p # q
                 PROVE  Before(p, q) \/ Before(q, p)
    BY <1>2
  <2>2. /\ Score(p) \in Int /\ sequence[RunnableTask(p)] \in Int
        /\ Score(q) \in Int /\ sequence[RunnableTask(q)] \in Int
    BY <1>1
  <2>3. sequence[RunnableTask(p)] # sequence[RunnableTask(q)]
    BY <1>2, <2>1
  <2> QED BY <2>2, <2>3 DEF Before
<1>4. \A p, q, r \in Contending : <<p, q>> \in R /\ <<q, r>> \in R => <<p, r>> \in R
  <2>1. SUFFICES ASSUME NEW p \in Contending, NEW q \in Contending, NEW r \in Contending,
                        Before(p, q), Before(q, r)
                 PROVE  Before(p, r)
    BY <1>2
  <2>2. /\ Score(p) \in Int /\ Score(q) \in Int /\ Score(r) \in Int
        /\ sequence[RunnableTask(p)] \in Int /\ sequence[RunnableTask(q)] \in Int
        /\ sequence[RunnableTask(r)] \in Int
    BY <1>1
  <2> QED BY <2>1, <2>2 DEF Before
<1>5. IsFiniteSet(Contending)
  BY PriorityFacts, FS_Subset DEF Contending
<1>6. \E p \in Contending : \A q \in Contending \ {p} : <<p, q>> \in R
  BY <1>3, <1>4, <1>5, FirstInOrder
<1>7. \E p \in Contending : \A q \in Contending \ {p} : Before(p, q)
  BY <1>2, <1>6
<1>8. SelectPriority \in Contending
  BY <1>7 DEF SelectPriority
<1> QED BY <1>8, RunnableFacts DEF Queued, InState

-----------------------------------------------------------------------------
(* What the steps do to tasks, queues and accounts. *)
Steady ==
  UNCHANGED <<state, sequence, queues, admittedMemory, activeMemory, activeWorkers,
              activePipelines>>

Drops(S, to) ==
  /\ FinishQueued(S, to) /\ UNCHANGED sequence
  /\ to = "Skipped" => \A t \in S : DependencyFailed(t)

LEMMA StepKinds ==
  ASSUME IsTyped, TodoInv, [Next]_vars
  PROVE  \/ Steady
         \/ \E t \in Task : Submit(t)
         \/ \E S \in SUBSET Queued, to \in {"Cancelled", "Skipped"} : Drops(S, to)
         \/ \E t \in Running, to \in {"Passed", "Failed", "Cancelled"} : FinishRunning(t, to)
         \/ StartTask
<1> USE DEF Steady, taskVars, activeVars, callVars
<1>1. CASE UNCHANGED vars
  BY <1>1 DEF vars
<1>2. ASSUME NEW t \in Task,
             \/ WorkUnitBoundary(t) \/ CancelRunning(t) \/ CancelToken(t)
      PROVE  Steady
  BY <1>2 DEF WorkUnitBoundary, CancelRunning, CancelToken
<1>3. ASSUME NEW t \in Task,
             \/ CompleteSuccess(t) \/ CompleteCancelled(t) \/ CompleteFailure(t)
             \/ WorkPanics(t)
      PROVE  \E u \in Running, to \in {"Passed", "Failed", "Cancelled"} : FinishRunning(u, to)
  <2>1. \E to \in {"Passed", "Failed", "Cancelled"} : FinishRunning(t, to)
    BY <1>3 DEF CompleteSuccess, CompleteCancelled, CompleteFailure, WorkPanics
  <2>2. t \in Running
    BY <2>1 DEF FinishRunning, Running, InState
  <2> QED BY <2>1, <2>2
<1>4. ASSUME NEW t \in Task, CancelQueued(t) PROVE Drops({t}, "Cancelled") /\ t \in Queued
  BY <1>4 DEF CancelQueued, Drops, Queued, InState
<1>5. CASE StartNext \/ NothingRunnable \/ DoesNotFit \/ Tick
  BY <1>5 DEF StartNext, NothingRunnable, DoesNotFit, Tick
<1>6. CASE RefreshQueued
  <2>1. ~Idle /\ todo # <<>> /\ UNCHANGED sequence
    BY <1>6 DEF RefreshQueued
  <2>2. Head(todo) \in Task /\ Head(todo) \in Queued
    BY <2>1, TailFacts, RangeFacts DEF TodoInv, Queued, InState
  <2>3. \/ FinishQueued({Head(todo)}, "Cancelled")
        \/ FinishQueued({Head(todo)}, "Skipped") /\ DependencyFailed(Head(todo))
        \/ UNCHANGED <<state, queues, admittedMemory, activeVars>>
    BY <1>6 DEF RefreshQueued
  <2>4. {Head(todo)} \in SUBSET Queued
    BY <2>2
  <2>5. CASE FinishQueued({Head(todo)}, "Cancelled")
    <3>1. Drops({Head(todo)}, "Cancelled")
      BY <2>1, <2>5 DEF Drops
    <3> QED BY <2>4, <3>1
  <2>6. CASE FinishQueued({Head(todo)}, "Skipped") /\ DependencyFailed(Head(todo))
    <3>1. Drops({Head(todo)}, "Skipped")
      BY <2>1, <2>6 DEF Drops
    <3> QED BY <2>4, <3>1
  <2>7. CASE UNCHANGED <<state, queues, admittedMemory, activeVars>>
    BY <2>1, <2>7
  <2> QED BY <2>3, <2>5, <2>6, <2>7
<1>7. ASSUME NEW m \in {"DrainVisible", "AbortAll"}, Shutdown(m)
      PROVE  \E S \in SUBSET Queued, to \in {"Cancelled", "Skipped"} : Drops(S, to)
  <2>1. Drops(Queued \ Spared(m), "Cancelled")
    BY <1>7 DEF Shutdown, Drops, Queued
  <2>2. Queued \ Spared(m) \in SUBSET Queued
    OBVIOUS
  <2> QED BY <2>1, <2>2
<1>8. CASE \E t \in Task :
       \/ Submit(t) \/ WorkUnitBoundary(t) \/ CompleteSuccess(t) \/ CompleteCancelled(t)
       \/ CompleteFailure(t) \/ WorkPanics(t) \/ CancelQueued(t) \/ CancelRunning(t)
       \/ CancelToken(t)
  <2>1. PICK t \in Task :
          \/ Submit(t) \/ WorkUnitBoundary(t) \/ CompleteSuccess(t) \/ CompleteCancelled(t)
          \/ CompleteFailure(t) \/ WorkPanics(t) \/ CancelQueued(t) \/ CancelRunning(t)
          \/ CancelToken(t)
    BY <1>8
  <2>2. CASE CancelQueued(t)
    <3>1. {t} \in SUBSET Queued /\ Drops({t}, "Cancelled")
      BY <1>4, <2>2
    <3> QED BY <3>1
  <2> QED BY <1>2, <1>3, <2>1, <2>2
<1>9. \/ \E t \in Task :
       \/ Submit(t) \/ WorkUnitBoundary(t) \/ CompleteSuccess(t) \/ CompleteCancelled(t)
       \/ CompleteFailure(t) \/ WorkPanics(t) \/ CancelQueued(t) \/ CancelRunning(t)
       \/ CancelToken(t)
      \/ StartNext \/ NothingRunnable \/ DoesNotFit \/ Tick
      \/ RefreshQueued \/ StartTask
      \/ \E m \in {"DrainVisible", "AbortAll"} : Shutdown(m)
      \/ UNCHANGED vars
  BY DEF Next
<1> HIDE DEF Steady
<1> QED BY <1>1, <1>5, <1>6, <1>7, <1>8, <1>9

(* A step changes these sets of tasks, and no other states. *)
LEMMA DropStates ==
  ASSUME IsTyped, NEW S \in SUBSET Queued, NEW to \in {"Cancelled", "Skipped"}, Drops(S, to)
  PROVE  /\ \A t \in Task : state'[t] = IF t \in S THEN to ELSE state[t]
         /\ Queued' = Queued \ S /\ Running' = Running /\ InHand' = InHand \ S
         /\ S \subseteq InHand /\ KnownTasks' = KnownTasks
         /\ \A p \in Priority : queues'[p] = Without(queues[p], S)
<1>1. S \subseteq Task /\ \A t \in S : state[t] = "Queued"
  BY DEF Queued, InState
<1>2. \A t \in Task : state'[t] = IF t \in S THEN to ELSE state[t]
  BY DEF Drops, FinishQueued
<1>3. /\ \A t \in Task : state'[t] = "Queued" <=> state[t] = "Queued" /\ t \notin S
      /\ \A t \in Task : state'[t] = "Running" <=> state[t] = "Running"
      /\ \A t \in Task : state'[t] # "None" <=> state[t] # "None"
  BY <1>1, <1>2
<1>4. Queued' = Queued \ S /\ Running' = Running /\ KnownTasks' = KnownTasks
  BY <1>3 DEF Queued, Running, InState, KnownTasks, Known
<1>5. S \cap Running = {}
  BY <1>1 DEF Running, InState
<1>6. InHand' = InHand \ S
  BY <1>4, <1>5 DEF InHand
<1>7. \A p \in Priority : queues'[p] = Without(queues[p], S)
  BY DEF Drops, FinishQueued, Dequeue
<1> QED BY <1>2, <1>4, <1>6, <1>7 DEF InHand

LEMMA SubmitStates ==
  ASSUME IsTyped, NEW t \in Task, Submit(t)
  PROVE  /\ \A u \in Task : state'[u] = IF u = t THEN "Queued" ELSE state[u]
         /\ t \notin KnownTasks /\ t \notin InHand /\ t \notin Running /\ t \notin Queued
         /\ Queued' = Queued \cup {t} /\ Running' = Running /\ InHand' = InHand \cup {t}
         /\ KnownTasks' = KnownTasks \cup {t}
         /\ \A d \in Dependencies[t] : d \in KnownTasks
         /\ \A u \in Task : sequence'[u] =
              IF u = t THEN Cardinality(KnownTasks) + 1 ELSE sequence[u]
<1>1. \A u \in Task : state'[u] = IF u = t THEN "Queued" ELSE state[u]
  BY DEF Submit, IsTyped
<1>2. state[t] = "None"
  BY DEF Submit, Known
<1>3. /\ Queued' = Queued \cup {t} /\ Running' = Running
      /\ KnownTasks' = KnownTasks \cup {t}
      /\ t \notin KnownTasks /\ t \notin Running /\ t \notin Queued
  BY <1>1, <1>2 DEF Queued, Running, InState, KnownTasks, Known
<1>4. \A d \in Dependencies[t] : d \in KnownTasks
  BY SchedulerConstants DEF Submit, DependenciesKnown, KnownTasks
<1>5. \A u \in Task : sequence'[u] =
        IF u = t THEN Cardinality(KnownTasks) + 1 ELSE sequence[u]
  BY DEF Submit, KnownTasks, IsTyped
<1> QED BY <1>1, <1>3, <1>4, <1>5 DEF InHand

LEMMA FinishStates ==
  ASSUME IsTyped, NEW t \in Running, NEW to \in {"Passed", "Failed", "Cancelled"},
         FinishRunning(t, to)
  PROVE  /\ t \in Task /\ \A u \in Task : state'[u] = IF u = t THEN to ELSE state[u]
         /\ Queued' = Queued /\ Running' = Running \ {t} /\ InHand' = InHand \ {t}
         /\ t \in InHand /\ KnownTasks' = KnownTasks
         /\ UNCHANGED <<sequence, queues>>
<1>1. t \in Task /\ state[t] = "Running"
  BY DEF Running, InState
<1>2. \A u \in Task : state'[u] = IF u = t THEN to ELSE state[u]
  BY <1>1 DEF FinishRunning, IsTyped
<1>3. /\ \A u \in Task : state'[u] = "Running" <=> state[u] = "Running" /\ u # t
      /\ \A u \in Task : state'[u] = "Queued" <=> state[u] = "Queued"
      /\ \A u \in Task : state'[u] # "None" <=> state[u] # "None"
  BY <1>1, <1>2
<1>4. Queued' = Queued /\ Running' = Running \ {t} /\ KnownTasks' = KnownTasks
  BY <1>3 DEF Queued, Running, InState, KnownTasks, Known
<1>5. t \notin Queued
  BY <1>1 DEF Queued, InState
<1>6. InHand' = InHand \ {t}
  BY <1>4, <1>5 DEF InHand
<1> QED BY <1>1, <1>2, <1>4, <1>6 DEF InHand, FinishRunning

LEMMA StartStates ==
  ASSUME IsTyped, QueueInv, NumberInv, StartTask
  PROVE  \E t \in Queued :
           /\ t \in Task /\ t \notin Running /\ FitsActive(t) /\ DependenciesPassed(t)
           /\ t = RunnableTask(SelectPriority)
           /\ \A u \in Task : state'[u] = IF u = t THEN "Running" ELSE state[u]
           /\ Queued' = Queued \ {t} /\ Running' = Running \cup {t} /\ InHand' = InHand
           /\ KnownTasks' = KnownTasks /\ UNCHANGED sequence
           /\ \A p \in Priority : queues'[p] = Without(queues[p], {t})
<1> DEFINE t == RunnableTask(SelectPriority)
<1>1. /\ t \in Queued /\ DependenciesPassed(t) /\ FitsActive(t)
      /\ state' = [state EXCEPT ![t] = "Running"] /\ Dequeue({t}) /\ UNCHANGED sequence
  BY SelectedFacts DEF StartTask
<1> HIDE DEF t
<1>2. t \in Task /\ state[t] = "Queued"
  BY <1>1 DEF Queued, InState
<1>3. \A u \in Task : state'[u] = IF u = t THEN "Running" ELSE state[u]
  BY <1>1, <1>2 DEF IsTyped
<1>4. /\ \A u \in Task : state'[u] = "Running" <=> state[u] = "Running" \/ u = t
      /\ \A u \in Task : state'[u] = "Queued" <=> state[u] = "Queued" /\ u # t
      /\ \A u \in Task : state'[u] # "None" <=> state[u] # "None"
  BY <1>2, <1>3
<1>5. /\ Queued' = Queued \ {t} /\ Running' = Running \cup {t} /\ KnownTasks' = KnownTasks
      /\ t \notin Running
  BY <1>2, <1>4 DEF Queued, Running, InState, KnownTasks, Known
<1>6. InHand' = InHand
  BY <1>1, <1>5 DEF InHand
<1>7. \A p \in Priority : queues'[p] = Without(queues[p], {t})
  BY <1>1 DEF Dequeue
<1> QED BY <1>1, <1>2, <1>3, <1>5, <1>6, <1>7 DEF t

-----------------------------------------------------------------------------
(* Types, the numbers of the tasks, and the queues. *)
LEMMA TypedNext == IsTyped /\ TodoInv /\ [Next]_vars => IsTyped'
<1> SUFFICES ASSUME IsTyped, TodoInv, [Next]_vars PROVE IsTyped'
  OBVIOUS
<1> USE DEF taskVars, activeVars, callVars
<1>1. state' \in [Task -> State] /\ sequence' \in [Task -> Nat]
      /\ queues' \in [Priority -> Seq(Task)]
  <2>1. CASE Steady
    BY <2>1 DEF Steady, IsTyped
  <2>2. ASSUME NEW t \in Task, Submit(t)
        PROVE  state' \in [Task -> State] /\ sequence' \in [Task -> Nat]
               /\ queues' \in [Priority -> Seq(Task)]
    <3>1. Cardinality({u \in Task : Known(u)}) \in Nat
      BY SchedulerConstants, FS_Subset, FS_CardinalityType
    <3>2. PriorityOf[t] \in Priority /\ Append(queues[PriorityOf[t]], t) \in Seq(Task)
      BY SchedulerConstants DEF IsTyped
    <3>3. queues' = [queues EXCEPT ![PriorityOf[t]] = Append(queues[PriorityOf[t]], t)]
      BY <2>2 DEF Submit
    <3>4. queues' \in [Priority -> Seq(Task)]
      BY <3>2, <3>3 DEF IsTyped
    <3> QED BY <2>2, <3>1, <3>4 DEF Submit, IsTyped, State
  <2>3. ASSUME NEW S \in SUBSET Queued, NEW to \in {"Cancelled", "Skipped"}, Drops(S, to)
        PROVE  state' \in [Task -> State] /\ sequence' \in [Task -> Nat]
               /\ queues' \in [Priority -> Seq(Task)]
    <3>1. \A p \in Priority : Without(queues[p], S) \in Seq(Task)
      BY WithoutFacts DEF IsTyped
    <3>2. queues' = [p \in Priority |-> Without(queues[p], S)]
      BY <2>3 DEF Drops, FinishQueued, Dequeue
    <3>3. queues' \in [Priority -> Seq(Task)]
      BY <3>1, <3>2
    <3> QED BY <2>3, <3>3 DEF Drops, FinishQueued, IsTyped, State, Terminal
  <2>4. ASSUME NEW t \in Running, NEW to \in {"Passed", "Failed", "Cancelled"},
               FinishRunning(t, to)
        PROVE  state' \in [Task -> State] /\ sequence' \in [Task -> Nat]
               /\ queues' \in [Priority -> Seq(Task)]
    BY <2>4 DEF FinishRunning, IsTyped, State, Terminal
  <2>5. CASE StartTask
    <3>1. \A p \in Priority : Without(queues[p], {RunnableTask(SelectPriority)}) \in Seq(Task)
      BY WithoutFacts DEF IsTyped
    <3>2. queues' = [p \in Priority |-> Without(queues[p], {RunnableTask(SelectPriority)})]
      BY <2>5 DEF StartTask, Dequeue
    <3>3. queues' \in [Priority -> Seq(Task)]
      BY <3>1, <3>2
    <3> QED BY <2>5, <3>3 DEF StartTask, IsTyped, State
  <2> QED BY <2>1, <2>2, <2>3, <2>4, <2>5, StepKinds
<1>2. enqueuedAt' \in [Task -> 0..MaxClock] /\ clock' \in 0..MaxClock
  <2>1. ASSUME NEW t \in Task, Submit(t) PROVE enqueuedAt' \in [Task -> 0..MaxClock]
    BY <2>1 DEF Submit, IsTyped
  <2>2. clock' = clock \/ (clock < MaxClock /\ clock' = clock + 1)
    BY DEF Next, vars, Submit, WorkUnitBoundary, CompleteSuccess, CompleteCancelled,
           CompleteFailure, WorkPanics, CancelQueued, CancelRunning, CancelToken, StartNext,
           RefreshQueued, NothingRunnable, DoesNotFit, StartTask, Shutdown, Tick, FinishRunning
  <2>3. clock' \in 0..MaxClock
    BY <2>2, SchedulerConstants DEF IsTyped
  <2>4. \/ UNCHANGED enqueuedAt
        \/ \E t \in Task : Submit(t)
    BY DEF Next, vars, WorkUnitBoundary, CompleteSuccess, CompleteCancelled,
           CompleteFailure, WorkPanics, CancelQueued, CancelRunning, CancelToken, StartNext,
           RefreshQueued, NothingRunnable, DoesNotFit, StartTask, Shutdown, Tick, FinishRunning
  <2>5. enqueuedAt' \in [Task -> 0..MaxClock] \/ UNCHANGED enqueuedAt
    BY <2>1, <2>4
  <2> QED BY <2>3, <2>5 DEF IsTyped
<1>3. cancelRequested' \in [Task -> BOOLEAN] /\ token' \in [Task -> BOOLEAN]
  <2>1. cancelRequested' \in [Task -> BOOLEAN]
    <3>1. ASSUME NEW t \in Task, CompleteSuccess(t)
          PROVE  cancelRequested' \in [Task -> BOOLEAN]
      BY <3>1 DEF CompleteSuccess, Interrupted, ShuttingDown, IsTyped
    <3>2. ASSUME NEW m \in {"DrainVisible", "AbortAll"}, Shutdown(m)
          PROVE  cancelRequested' \in [Task -> BOOLEAN]
      BY <3>2 DEF Shutdown, IsTyped
    <3>3. ASSUME NEW t \in Task, \/ WorkUnitBoundary(t) \/ CancelRunning(t)
          PROVE  cancelRequested' \in [Task -> BOOLEAN]
      BY <3>3 DEF WorkUnitBoundary, CancelRunning, IsTyped
    <3>4. \/ UNCHANGED cancelRequested
          \/ \E t \in Task : CompleteSuccess(t) \/ WorkUnitBoundary(t) \/ CancelRunning(t)
          \/ \E m \in {"DrainVisible", "AbortAll"} : Shutdown(m)
      BY DEF Next, vars, Submit, CompleteCancelled,
             CompleteFailure, WorkPanics, CancelQueued, CancelToken, StartNext,
             RefreshQueued, NothingRunnable, DoesNotFit, StartTask, Tick, FinishRunning
    <3> QED BY <3>1, <3>2, <3>3, <3>4 DEF IsTyped
  <2>2. ASSUME NEW t \in Task, CancelToken(t) PROVE token' \in [Task -> BOOLEAN]
    BY <2>2 DEF CancelToken, IsTyped
  <2>3. \/ UNCHANGED token
        \/ \E t \in Task : CancelToken(t)
    BY DEF Next, vars, Submit, WorkUnitBoundary, CompleteSuccess, CompleteCancelled,
           CompleteFailure, WorkPanics, CancelQueued, CancelRunning, StartNext,
           RefreshQueued, NothingRunnable, DoesNotFit, StartTask, Shutdown, Tick, FinishRunning
  <2>4. token' \in [Task -> BOOLEAN]
    BY <2>2, <2>3 DEF IsTyped
  <2> QED BY <2>1, <2>4
<1>4. degraded' \in BOOLEAN /\ shutdown' \subseteq {"DrainVisible", "AbortAll"}
  <2>1. degraded' \in BOOLEAN
    BY DEF Next, vars, Submit, WorkUnitBoundary, CompleteSuccess, CompleteCancelled,
           CompleteFailure, WorkPanics, CancelQueued, CancelRunning, CancelToken, StartNext,
           RefreshQueued, NothingRunnable, DoesNotFit, StartTask, Shutdown, Tick, FinishRunning,
           IsTyped
  <2>2. \/ UNCHANGED shutdown
        \/ \E m \in {"DrainVisible", "AbortAll"} : shutdown' = shutdown \cup {m}
    BY DEF Next, vars, Submit, WorkUnitBoundary, CompleteSuccess, CompleteCancelled,
           CompleteFailure, WorkPanics, CancelQueued, CancelRunning, CancelToken, StartNext,
           RefreshQueued, NothingRunnable, DoesNotFit, StartTask, Shutdown, Tick, FinishRunning
  <2>3. shutdown' \subseteq {"DrainVisible", "AbortAll"}
    BY <2>2 DEF IsTyped
  <2> QED BY <2>1, <2>3
<1>5. deficits' \in [Priority -> Int]
  <2>1. \A p \in Priority : /\ Weight[p] \in Int /\ deficits[p] \in Int
                            /\ Credit(p) \in Int
    BY WeightType DEF Credit, IsTyped
  <2>2. \A p \in Priority : Credit(p) - (IF p = SelectPriority THEN Weight[p] ELSE 0) \in Int
    BY <2>1
  <2>3. \/ UNCHANGED deficits
        \/ deficits' = [q \in Priority |-> Credit(q)]
        \/ deficits' = Charged
    BY DEF Next, vars, Submit, WorkUnitBoundary, CompleteSuccess, CompleteCancelled,
           CompleteFailure, WorkPanics, CancelQueued, CancelRunning, CancelToken, StartNext,
           RefreshQueued, NothingRunnable, DoesNotFit, StartTask, Shutdown, Tick, FinishRunning
  <2>4. Charged \in [Priority -> Int]
    BY <2>2 DEF Charged
  <2>5. [q \in Priority |-> Credit(q)] \in [Priority -> Int]
    BY <2>1
  <2> QED BY <2>3, <2>4, <2>5 DEF IsTyped
<1> QED BY <1>1, <1>2, <1>3, <1>4, <1>5 DEF IsTyped

LEMMA KnownFinite ==
  /\ IsFiniteSet(KnownTasks) /\ Cardinality(KnownTasks) \in Nat
  /\ Cardinality(KnownTasks) =< Cardinality(Task) /\ Cardinality(Task) \in Nat
<1>1. KnownTasks \subseteq Task
  BY DEF KnownTasks
<1> QED BY <1>1, SchedulerConstants, FS_Subset, FS_CardinalityType

LEMMA NumberNext == IsTyped /\ TodoInv /\ QueueInv /\ NumberInv /\ [Next]_vars => NumberInv'
<1> SUFFICES ASSUME IsTyped, TodoInv, QueueInv, NumberInv, [Next]_vars PROVE NumberInv'
  OBVIOUS
<1>1. ASSUME KnownTasks' = KnownTasks, UNCHANGED sequence PROVE NumberInv'
  BY <1>1 DEF NumberInv, ClaimIsValid
<1>2. CASE Steady
  BY <1>1, <1>2 DEF Steady, KnownTasks, Known
<1>3. ASSUME NEW t \in Task, Submit(t) PROVE NumberInv'
  <2> DEFINE n == Cardinality(KnownTasks)
  <2>1. /\ t \notin KnownTasks /\ KnownTasks' = KnownTasks \cup {t}
        /\ \A d \in Dependencies[t] : d \in KnownTasks
        /\ \A u \in Task : sequence'[u] = IF u = t THEN n + 1 ELSE sequence[u]
    BY <1>3, SubmitStates
  <2>2. n \in Nat /\ Cardinality(KnownTasks') = n + 1
    <3>1. IsFiniteSet(KnownTasks)
      BY KnownFinite
    <3>2. Cardinality(KnownTasks \cup {t}) = n + 1
      BY <2>1, <3>1, FS_AddElement
    <3> QED BY <2>1, <3>2, KnownFinite
  <2>3. KnownTasks \subseteq Task
    BY DEF KnownTasks
  <2> HIDE DEF n
  <2>4. \A u \in KnownTasks : sequence[u] \in 1 .. n /\ sequence'[u] = sequence[u]
    BY <2>1, <2>3 DEF NumberInv, n
  <2>5. sequence'[t] = n + 1 /\ ClaimIsValid(t)'
    BY <1>3, <2>1 DEF Submit, ClaimIsValid
  <2>6. ASSUME NEW u \in KnownTasks'
        PROVE  /\ sequence'[u] \in 1 .. Cardinality(KnownTasks') /\ ClaimIsValid(u)'
               /\ \A d \in Dependencies[u] : d \in KnownTasks' /\ sequence'[d] < sequence'[u]
    <3>1. CASE u = t
      <4>1. \A d \in Dependencies[t] : d \in KnownTasks /\ sequence'[d] < n + 1
        BY <2>1, <2>2, <2>4
      <4> QED BY <2>1, <2>2, <2>5, <3>1, <4>1
    <3>2. CASE u \in KnownTasks
      <4>1. /\ ClaimIsValid(u)
            /\ \A d \in Dependencies[u] : d \in KnownTasks /\ sequence[d] < sequence[u]
        BY <3>2 DEF NumberInv
      <4>2. \A d \in Dependencies[u] : d \in KnownTasks' /\ sequence'[d] < sequence'[u]
        BY <2>1, <2>4, <3>2, <4>1
      <4>3. sequence'[u] \in 1 .. Cardinality(KnownTasks')
        BY <2>2, <2>4, <3>2
      <4> QED BY <4>1, <4>2, <4>3 DEF ClaimIsValid
    <3> QED BY <2>1, <3>1, <3>2
  <2>7. ASSUME NEW u \in KnownTasks', NEW w \in KnownTasks', sequence'[u] = sequence'[w]
        PROVE  u = w
    <3>1. \A x \in KnownTasks : sequence'[x] # n + 1
      BY <2>2, <2>4
    <3>2. (u \in KnownTasks \/ u = t) /\ (w \in KnownTasks \/ w = t)
      BY <2>1
    <3>3. CASE u \in KnownTasks /\ w \in KnownTasks
      BY <2>4, <2>7, <3>3 DEF NumberInv
    <3> QED BY <2>5, <2>7, <3>1, <3>2, <3>3
  <2>8. \A u \in Task \ KnownTasks' : sequence'[u] = 0
    BY <2>1 DEF NumberInv
  <2> QED BY <2>6, <2>7, <2>8 DEF NumberInv
<1>4. ASSUME NEW S \in SUBSET Queued, NEW to \in {"Cancelled", "Skipped"}, Drops(S, to)
      PROVE  NumberInv'
  <2>1. KnownTasks' = KnownTasks
    BY <1>4, DropStates
  <2>2. UNCHANGED sequence
    BY <1>4 DEF Drops
  <2> QED BY <1>1, <2>1, <2>2
<1>5. ASSUME NEW t \in Running, NEW to \in {"Passed", "Failed", "Cancelled"},
             FinishRunning(t, to)
      PROVE  NumberInv'
  BY <1>1, <1>5, FinishStates
<1>6. CASE StartTask
  BY <1>1, <1>6, StartStates
<1> QED BY <1>2, <1>3, <1>4, <1>5, <1>6, StepKinds

Lengths == [p \in Priority |-> Len(queues[p])]

LEMMA QueueLengthType ==
  IsTyped => QueueLength \in Nat /\ \A p \in Priority : Lengths[p] \in Nat
<1> SUFFICES ASSUME IsTyped PROVE QueueLength \in Nat /\ \A p \in Priority : Lengths[p] \in Nat
  OBVIOUS
<1>1. \A p \in Priority : Lengths[p] \in Nat /\ Lengths[p] \in Int
  BY DEF IsTyped, Lengths
<1>2. QueueLength = SumFunctionOnSet(Lengths, Priority)
  BY DEF QueueLength, Lengths
<1> QED BY <1>1, <1>2, PriorityFacts, SumOverType

LEMMA QueuesShrink ==
  ASSUME IsTyped, IsTyped', QueueInv, NEW S, UNCHANGED sequence,
         \A p \in Priority : queues'[p] = Without(queues[p], S)
  PROVE  /\ \A p \in Priority : Range(queues'[p]) = Range(queues[p]) \ S
         /\ \A p \in Priority : \A i, j \in 1 .. Len(queues'[p]) :
              i < j => sequence'[queues'[p][i]] < sequence'[queues'[p][j]]
         /\ QueueLength' =< TotalQueueLimit
<1>1. ASSUME NEW p \in Priority
      PROVE  /\ queues[p] \in Seq(Task) /\ Len(queues'[p]) =< Len(queues[p])
             /\ Range(queues'[p]) = Range(queues[p]) \ S
             /\ KeepsOrder(queues'[p], queues[p])
  <2>1. queues[p] \in Seq(Task)
    BY DEF IsTyped
  <2> DEFINE w == Without(queues[p], S)
  <2>2. queues'[p] = w
    OBVIOUS
  <2>3. /\ Len(w) =< Len(queues[p]) /\ Range(w) = Range(queues[p]) \ S
        /\ KeepsOrder(w, queues[p])
    BY <2>1, WithoutFacts
  <2> HIDE DEF w
  <2> QED BY <2>1, <2>2, <2>3
<1>2. ASSUME NEW p \in Priority, NEW i \in 1 .. Len(queues'[p]),
             NEW j \in 1 .. Len(queues'[p]), i < j
      PROVE  sequence'[queues'[p][i]] < sequence'[queues'[p][j]]
  <2>1. PICK k \in 1 .. Len(queues[p]), l \in 1 .. Len(queues[p]) :
          k < l /\ queues[p][k] = queues'[p][i] /\ queues[p][l] = queues'[p][j]
    BY <1>1, <1>2 DEF KeepsOrder
  <2>2. sequence[queues[p][k]] < sequence[queues[p][l]]
    BY <2>1 DEF QueueInv
  <2> QED BY <2>1, <2>2
<1>3. QueueLength' =< QueueLength
  <2>1. \A p \in Priority : /\ Lengths'[p] \in Int /\ Lengths[p] \in Int
                            /\ Lengths'[p] =< Lengths[p]
    BY <1>1, QueueLengthType DEF Lengths, IsTyped
  <2>2. /\ QueueLength = SumFunctionOnSet(Lengths, Priority)
        /\ QueueLength' = SumFunctionOnSet(Lengths', Priority)
    BY DEF QueueLength, Lengths
  <2> HIDE DEF Lengths
  <2> QED BY <2>1, <2>2, PriorityFacts, SumOverMonotone
<1>4. QueueLength \in Int /\ QueueLength' \in Int
  <2>1. QueueLength \in Nat
    BY QueueLengthType
  <2>2. QueueLength' \in Nat
    <3>1. \A p \in Priority : Lengths'[p] \in Nat /\ Lengths'[p] \in Int
      BY DEF IsTyped, Lengths
    <3>2. QueueLength' = SumFunctionOnSet(Lengths', Priority)
      BY DEF QueueLength, Lengths
    <3> HIDE DEF Lengths
    <3> QED BY <3>1, <3>2, PriorityFacts, SumOverType
  <2> QED BY <2>1, <2>2
<1>5. QueueLength' =< TotalQueueLimit
  BY <1>3, <1>4, SchedulerConstants DEF QueueInv
<1> QED BY <1>1, <1>2, <1>5

LEMMA QueueNext == IsTyped /\ TodoInv /\ QueueInv /\ NumberInv /\ [Next]_vars => QueueInv'
<1> SUFFICES ASSUME IsTyped, TodoInv, QueueInv, NumberInv, [Next]_vars PROVE QueueInv'
  OBVIOUS
<1>0. IsTyped'
  BY TypedNext
<1>1. CASE Steady
  BY <1>1 DEF Steady, QueueInv, QueueLength
<1>2. ASSUME NEW t \in Task, Submit(t) PROVE QueueInv'
  <2> DEFINE n == Cardinality(KnownTasks)
             p0 == PriorityOf[t]
             q0 == queues[p0]
  <2>1. /\ t \notin KnownTasks /\ t \notin Queued
        /\ \A u \in Task : state'[u] = IF u = t THEN "Queued" ELSE state[u]
        /\ \A u \in Task : sequence'[u] = IF u = t THEN n + 1 ELSE sequence[u]
    BY <1>2, SubmitStates
  <2>2. p0 \in Priority /\ q0 \in Seq(Task)
    BY SchedulerConstants DEF IsTyped
  <2>3. \A p \in Priority : queues'[p] = IF p = p0 THEN Append(q0, t) ELSE queues[p]
    BY <1>2, <2>2 DEF Submit, IsTyped
  <2>4. n \in Nat /\ \A u \in KnownTasks : sequence[u] \in 1 .. n
    BY KnownFinite DEF NumberInv
  <2> HIDE DEF n, q0, p0
  <2>5. Range(Append(q0, t)) = Range(q0) \cup {t}
    BY <2>2, AppendFacts
  <2>6. \A p \in Priority : \A u \in Range(queues[p]) :
          u \in Task /\ u \in KnownTasks /\ state[u] = "Queued" /\ PriorityOf[u] = p
    <3>1. \A p \in Priority : queues[p] \in Seq(Task)
      BY DEF IsTyped
    <3>2. \A p \in Priority : Range(queues[p]) \subseteq Task
      BY <3>1, RangeFacts
    <3> QED BY <3>2 DEF QueueInv, KnownTasks, Known
  <2>7. \A u \in Task : state'[u] = "Queued" => u \in Range(queues'[PriorityOf[u]])
    <3>1. SUFFICES ASSUME NEW u \in Task, state'[u] = "Queued"
                   PROVE  u \in Range(queues'[PriorityOf[u]])
      OBVIOUS
    <3>2. PriorityOf[u] \in Priority
      BY SchedulerConstants
    <3>3. CASE u = t
      BY <2>2, <2>3, <2>5, <3>3 DEF p0
    <3>4. CASE u # t
      <4>1. u \in Range(queues[PriorityOf[u]])
        BY <2>1, <3>1, <3>4 DEF QueueInv
      <4> QED BY <2>3, <2>5, <3>2, <4>1 DEF q0
    <3> QED BY <3>3, <3>4
  <2>8. \A p \in Priority : \A u \in Range(queues'[p]) :
          state'[u] = "Queued" /\ PriorityOf[u] = p
    <3>1. SUFFICES ASSUME NEW p \in Priority, NEW u \in Range(queues'[p])
                   PROVE  state'[u] = "Queued" /\ PriorityOf[u] = p
      OBVIOUS
    <3>2. CASE u \in Range(queues[p])
      BY <2>1, <2>6, <3>2
    <3>3. CASE u \notin Range(queues[p])
      <4>1. p = p0 /\ u = t
        BY <2>3, <2>5, <3>3 DEF q0
      <4> QED BY <2>1, <4>1 DEF p0
    <3> QED BY <3>2, <3>3
  <2>9. \A p \in Priority : \A i, j \in 1 .. Len(queues'[p]) :
          i < j => sequence'[queues'[p][i]] < sequence'[queues'[p][j]]
    <3>1. SUFFICES ASSUME NEW p \in Priority, NEW i \in 1 .. Len(queues'[p]),
                          NEW j \in 1 .. Len(queues'[p]), i < j
                   PROVE  sequence'[queues'[p][i]] < sequence'[queues'[p][j]]
      OBVIOUS
    <3>2. queues[p] \in Seq(Task)
      BY DEF IsTyped
    <3>3. \A x \in 1 .. Len(queues[p]) :
            /\ queues[p][x] \in Task /\ queues[p][x] \in KnownTasks
            /\ sequence'[queues[p][x]] = sequence[queues[p][x]]
            /\ sequence'[queues[p][x]] =< n /\ sequence'[queues[p][x]] \in Nat
      <4>1. \A x \in 1 .. Len(queues[p]) : queues[p][x] \in Range(queues[p])
        BY <3>2, RangeFacts
      <4>2. \A x \in 1 .. Len(queues[p]) :
              queues[p][x] \in Task /\ queues[p][x] \in KnownTasks /\ queues[p][x] # t
        BY <2>1, <2>6, <4>1
      <4> QED BY <2>1, <2>4, <4>2
    <3>4. CASE i \in 1 .. Len(queues[p]) /\ j \in 1 .. Len(queues[p])
      <4>1. queues'[p][i] = queues[p][i] /\ queues'[p][j] = queues[p][j]
        <5>1. /\ Append(queues[p], t)[i] = queues[p][i]
              /\ Append(queues[p], t)[j] = queues[p][j]
          BY <3>2, <3>4
        <5>2. queues'[p] = Append(queues[p], t) \/ queues'[p] = queues[p]
          BY <2>3 DEF q0
        <5> QED BY <5>1, <5>2
      <4>2. sequence[queues[p][i]] < sequence[queues[p][j]]
        BY <3>1, <3>4 DEF QueueInv
      <4> QED BY <3>3, <3>4, <4>1, <4>2
    <3>5. CASE ~ (i \in 1 .. Len(queues[p]) /\ j \in 1 .. Len(queues[p]))
      <4>1. p = p0
        BY <2>3, <3>5
      <4>2. queues'[p] = Append(queues[p], t) /\ Len(queues'[p]) = Len(queues[p]) + 1
        <5>1. queues'[p] = Append(queues[p], t)
          BY <2>3, <4>1 DEF q0
        <5>2. Len(Append(queues[p], t)) = Len(queues[p]) + 1
          BY <3>2
        <5> QED BY <5>1, <5>2
      <4>3. i \in 1 .. Len(queues[p]) /\ j = Len(queues[p]) + 1
        BY <3>1, <3>2, <3>5, <4>2
      <4>4. queues'[p][i] = queues[p][i] /\ queues'[p][j] = t
        BY <3>2, <4>2, <4>3
      <4> QED BY <2>1, <2>4, <3>3, <4>3, <4>4
    <3> QED BY <3>4, <3>5
  <2>10. QueueLength' =< TotalQueueLimit
    <3>1. p0 \in Priority /\ \A p \in Priority : Lengths[p] \in Int /\ Lengths'[p] \in Int
      <4>1. \A p \in Priority : Lengths[p] \in Int
        BY QueueLengthType
      <4>2. \A p \in Priority : Lengths'[p] \in Int
        BY <1>0 DEF Lengths, IsTyped
      <4> QED BY <2>2, <4>1, <4>2
    <3>2. \A p \in Priority : p # p0 => Lengths[p] = Lengths'[p]
      BY <2>3 DEF Lengths
    <3>3. Lengths'[p0] = Lengths[p0] + 1
      <4>1. Lengths[p0] = Len(queues[p0]) /\ Lengths'[p0] = Len(queues'[p0])
        BY <2>2 DEF Lengths
      <4>2. queues'[p0] = Append(q0, t)
        BY <2>2, <2>3
      <4>3. Len(Append(q0, t)) = Len(q0) + 1
        BY <2>2
      <4> QED BY <4>1, <4>2, <4>3 DEF q0
    <3>4. /\ QueueLength = SumFunctionOnSet(Lengths, Priority)
          /\ QueueLength' = SumFunctionOnSet(Lengths', Priority)
      BY DEF QueueLength, Lengths
    <3> HIDE DEF Lengths
    <3>5. SumFunctionOnSet(Lengths', Priority)
            = SumFunctionOnSet(Lengths, Priority) - Lengths[p0] + Lengths'[p0]
      BY <3>1, <3>2, PriorityFacts, SumOverChange
    <3>6. QueueLength \in Nat /\ QueueLength < TotalQueueLimit
      BY <1>2, QueueLengthType DEF Submit, QueuesHaveRoom
    <3> QED BY <3>1, <3>3, <3>4, <3>5, <3>6, SchedulerConstants
  <2> QED BY <2>7, <2>8, <2>9, <2>10 DEF QueueInv
<1>3. ASSUME NEW S \in SUBSET Queued, UNCHANGED sequence,
             \A p \in Priority : queues'[p] = Without(queues[p], S),
             \A u \in Task : state'[u] = "Queued" <=> state[u] = "Queued" /\ u \notin S
      PROVE  QueueInv'
  <2>1. /\ \A p \in Priority : Range(queues'[p]) = Range(queues[p]) \ S
        /\ \A p \in Priority : \A i, j \in 1 .. Len(queues'[p]) :
             i < j => sequence'[queues'[p][i]] < sequence'[queues'[p][j]]
        /\ QueueLength' =< TotalQueueLimit
    BY <1>0, <1>3, QueuesShrink
  <2>2. \A u \in Task : state'[u] = "Queued" => u \in Range(queues'[PriorityOf[u]])
    BY <1>3, <2>1, SchedulerConstants DEF QueueInv
  <2>3. \A p \in Priority : \A u \in Range(queues'[p]) :
          state'[u] = "Queued" /\ PriorityOf[u] = p
    <3>1. \A p \in Priority : queues[p] \in Seq(Task)
      BY DEF IsTyped
    <3>2. \A p \in Priority : Range(queues[p]) \subseteq Task
      BY <3>1, RangeFacts
    <3> QED BY <1>3, <2>1, <3>2 DEF QueueInv
  <2> QED BY <2>1, <2>2, <2>3 DEF QueueInv
<1>4. ASSUME NEW S \in SUBSET Queued, NEW to \in {"Cancelled", "Skipped"}, Drops(S, to)
      PROVE  QueueInv'
  <2>1. /\ \A p \in Priority : queues'[p] = Without(queues[p], S)
        /\ \A u \in Task : state'[u] = IF u \in S THEN to ELSE state[u]
    BY <1>4, DropStates
  <2>2. \A u \in Task : state'[u] = "Queued" <=> state[u] = "Queued" /\ u \notin S
    BY <2>1
  <2>3. UNCHANGED sequence
    BY <1>4 DEF Drops
  <2> QED BY <1>3, <2>1, <2>2, <2>3
<1>5. ASSUME NEW t \in Running, NEW to \in {"Passed", "Failed", "Cancelled"},
             FinishRunning(t, to)
      PROVE  QueueInv'
  <2>1. /\ \A u \in Task : state'[u] = IF u = t THEN to ELSE state[u]
        /\ UNCHANGED <<sequence, queues>>
    BY <1>5, FinishStates
  <2>2. state[t] = "Running"
    BY DEF Running, InState
  <2>3. \A p \in Priority : queues[p] \in Seq(Task)
    BY DEF IsTyped
  <2>4. \A p \in Priority : Range(queues[p]) \subseteq Task
    BY <2>3, RangeFacts
  <2>5. \A p \in Priority : \A u \in Range(queues'[p]) :
          state'[u] = "Queued" /\ PriorityOf[u] = p
    BY <2>1, <2>2, <2>4 DEF QueueInv
  <2>6. \A u \in Task : state'[u] = "Queued" => u \in Range(queues'[PriorityOf[u]])
    BY <2>1 DEF QueueInv
  <2> QED BY <2>1, <2>5, <2>6 DEF QueueInv, QueueLength
<1>6. CASE StartTask
  <2>1. PICK t \in Queued :
          /\ \A u \in Task : state'[u] = IF u = t THEN "Running" ELSE state[u]
          /\ UNCHANGED sequence
          /\ \A p \in Priority : queues'[p] = Without(queues[p], {t})
    BY <1>6, StartStates
  <2>2. \A u \in Task : state'[u] = "Queued" <=> state[u] = "Queued" /\ u \notin {t}
    BY <2>1
  <2>3. {t} \in SUBSET Queued
    OBVIOUS
  <2> QED BY <1>3, <2>1, <2>2, <2>3
<1> QED BY <1>1, <1>2, <1>4, <1>5, <1>6, StepKinds

LEMMA TodoNext == IsTyped /\ TodoInv /\ QueueInv /\ NumberInv /\ [Next]_vars => TodoInv'
<1> SUFFICES ASSUME IsTyped, TodoInv, QueueInv, NumberInv, [Next]_vars PROVE TodoInv'
  OBVIOUS
<1> USE DEF taskVars, activeVars, callVars
<1>1. ASSUME UNCHANGED todo, \/ UNCHANGED state
                             \/ Idle
      PROVE  TodoInv'
  BY <1>1 DEF TodoInv, Idle
<1>2. CASE UNCHANGED vars
  BY <1>1, <1>2 DEF vars
<1>3. ASSUME NEW t \in Task, \/ Submit(t) \/ WorkUnitBoundary(t) \/ CancelQueued(t)
                             \/ CancelRunning(t) \/ CancelToken(t)
      PROVE  TodoInv'
  <2>1. UNCHANGED todo /\ (Idle \/ UNCHANGED state)
    BY <1>3 DEF Submit, WorkUnitBoundary, CancelQueued, CancelRunning, CancelToken
  <2> QED BY <1>1, <2>1
<1>4. ASSUME NEW t \in Task, \/ CompleteSuccess(t) \/ CompleteCancelled(t)
                             \/ CompleteFailure(t) \/ WorkPanics(t)
      PROVE  TodoInv'
  <2>1. UNCHANGED todo /\ Idle
    BY <1>4 DEF CompleteSuccess, CompleteCancelled, CompleteFailure, WorkPanics, FinishRunning
  <2> QED BY <1>1, <2>1
<1>5. CASE StartNext
  <2>1. todo' = AllQueued /\ UNCHANGED state
    BY <1>5 DEF StartNext
  <2> QED BY <2>1, AllQueuedFacts DEF TodoInv
<1>6. CASE RefreshQueued
  <2>1. ~Idle /\ todo # <<>> /\ todo' = Tail(todo)
    BY <1>6 DEF RefreshQueued
  <2>2. todo \in Seq(Task) /\ Distinct(todo) /\ \A t \in Range(todo) : state[t] = "Queued"
    BY <2>1 DEF TodoInv
  <2>3. /\ todo' \in Seq(Task) /\ Distinct(todo') /\ Range(todo) = Range(todo') \cup {Head(todo)}
        /\ Head(todo) \notin Range(todo') /\ Range(todo) \subseteq Task
    BY <2>1, <2>2, TailFacts, RangeFacts
  <2>4. \A t \in Task : t # Head(todo) => state'[t] = state[t]
    BY <1>6 DEF RefreshQueued, FinishQueued
  <2>5. \A t \in Range(todo') : state'[t] = "Queued"
    BY <2>2, <2>3, <2>4
  <2> QED BY <2>3, <2>5 DEF TodoInv
<1>7. CASE NothingRunnable \/ DoesNotFit \/ StartTask
  <2>1. todo' = NotStarting
    BY <1>7 DEF NothingRunnable, DoesNotFit, StartTask
  <2> QED BY <2>1 DEF TodoInv, Idle
<1>8. ASSUME NEW m \in {"DrainVisible", "AbortAll"}, Shutdown(m) PROVE TodoInv'
  <2>1. UNCHANGED todo /\ Idle
    BY <1>8 DEF Shutdown
  <2> QED BY <1>1, <2>1
<1>9. CASE Tick
  <2>1. UNCHANGED <<todo, state>>
    BY <1>9 DEF Tick
  <2> QED BY <1>1, <2>1
<1> QED BY <1>2, <1>3, <1>4, <1>5, <1>6, <1>7, <1>8, <1>9 DEF Next

-----------------------------------------------------------------------------
(* The accounts. *)
LEMMA AccountNext ==
  IsTyped /\ TodoInv /\ QueueInv /\ NumberInv /\ AccountInv /\ [Next]_vars => AccountInv'
<1> SUFFICES ASSUME IsTyped, TodoInv, QueueInv, NumberInv, AccountInv, [Next]_vars
             PROVE  AccountInv'
  OBVIOUS
<1> DEFINE Limit == MemoryLimit - MemoryReservation
<1>1. /\ InHand \subseteq Task /\ Running \subseteq InHand /\ Running \subseteq Task
      /\ InHand \cap Background \in SUBSET InHand /\ InHand \cap Background \subseteq Task
  BY DEF InHand, Queued, Running, InState
<1>2. /\ Memory \in [Task -> Nat \ {0}] /\ Workers \in [Task -> Nat \ {0}]
      /\ MemoryLimit \in Nat \ {0} /\ WorkerLimit \in Nat \ {0}
      /\ ActivePipelineLimit \in Nat \ {0}
  BY SchedulerConstants
<1>3. Limit \in Int /\ Limit =< MemoryLimit
  BY <1>2 DEF MemoryReservation
<1>4. /\ MemoryOf(InHand) \in Nat /\ MemoryOf(Running) \in Nat
      /\ SumFunctionOnSet(Workers, Running) \in Nat
      /\ MemoryOf(InHand \cap Background) \in Nat
      /\ MemoryOf(InHand \cap Background) =< MemoryOf(InHand)
  BY <1>1, <1>2, ClaimSums DEF MemoryOf
<1>5. IsFiniteSet(Running \cap Pipelines) /\ Cardinality(Running \cap Pipelines) \in Nat
  BY <1>1, SchedulerConstants, FS_Subset, FS_CardinalityType
<1> HIDE DEF Limit
<1>6. ASSUME Queued' = Queued, Running' = Running,
             UNCHANGED <<admittedMemory, activeMemory, activeWorkers, activePipelines>>
      PROVE  AccountInv'
  <2>1. InHand' = InHand
    BY <1>6 DEF InHand
  <2> QED BY <1>6, <2>1 DEF AccountInv
<1>7. CASE Steady
  <2>1. Queued' = Queued /\ Running' = Running
    BY <1>7 DEF Steady, Queued, Running, InState
  <2> QED BY <1>6, <1>7, <2>1 DEF Steady
<1>8. ASSUME NEW t \in Task, Submit(t) PROVE AccountInv'
  <2>1. t \notin InHand /\ InHand' = InHand \cup {t} /\ Running' = Running
    BY <1>8, SubmitStates
  <2>2. /\ admittedMemory' = admittedMemory + Memory[t] /\ MemoryAvailable(t)
        /\ UNCHANGED <<activeMemory, activeWorkers, activePipelines>>
    BY <1>8 DEF Submit, activeVars
  <2>3. MemoryOf(InHand \cup {t}) = MemoryOf(InHand) + Memory[t]
    BY <1>1, <1>2, <2>1, ClaimSums DEF MemoryOf
  <2>4. Memory[t] \in Nat
    BY <1>2
  <2>5. /\ admittedMemory = MemoryOf(InHand)
        /\ admittedMemory + Memory[t] =< IF Interactive(t) THEN MemoryLimit ELSE Limit
    BY <2>2 DEF AccountInv, MemoryAvailable, Limit
  <2>6. admittedMemory' =< MemoryLimit
    BY <1>2, <1>3, <1>4, <2>2, <2>4, <2>5
  <2>7. MemoryOf((InHand \cup {t}) \cap Background) =< Limit
    <3>1. CASE Interactive(t)
      <4>1. (InHand \cup {t}) \cap Background = InHand \cap Background
        BY <3>1 DEF Background
      <4> QED BY <4>1 DEF AccountInv, Limit
    <3>2. CASE ~Interactive(t)
      <4>1. (InHand \cup {t}) \cap Background = (InHand \cap Background) \cup {t}
        BY <3>2 DEF Background
      <4>2. t \in Task \ (InHand \cap Background)
        BY <2>1
      <4>3. MemoryOf((InHand \cap Background) \cup {t})
              = MemoryOf(InHand \cap Background) + Memory[t]
        BY <1>1, <1>2, <4>2, ClaimSums DEF MemoryOf
      <4>4. MemoryOf(InHand) + Memory[t] =< Limit
        BY <2>5, <3>2
      <4>5. MemoryOf(InHand \cap Background) + Memory[t] =< Limit
        BY <1>3, <1>4, <2>4, <4>4
      <4> QED BY <4>1, <4>3, <4>5
    <3> QED BY <3>1, <3>2
  <2>8. /\ admittedMemory' = MemoryOf(InHand')
        /\ MemoryOf(InHand' \cap Background) =< Limit
    BY <2>1, <2>2, <2>3, <2>5, <2>7
  <2> QED BY <2>1, <2>2, <2>6, <2>8 DEF AccountInv, Limit
<1>9. ASSUME NEW S \in SUBSET InHand
      PROVE  /\ MemoryOf(S) \in Nat
             /\ MemoryOf(InHand \ S) = MemoryOf(InHand) - MemoryOf(S)
             /\ MemoryOf((InHand \ S) \cap Background) =< Limit
  <2>1. /\ MemoryOf(S) \in Nat
        /\ MemoryOf(InHand \ S) = MemoryOf(InHand) - MemoryOf(S)
    BY <1>1, <1>2, ClaimSums DEF MemoryOf
  <2>2. (InHand \ S) \cap Background \in SUBSET (InHand \cap Background)
    OBVIOUS
  <2>3. /\ MemoryOf((InHand \ S) \cap Background) \in Nat
        /\ MemoryOf((InHand \ S) \cap Background) =< MemoryOf(InHand \cap Background)
    BY <1>1, <1>2, <2>2, ClaimSums DEF MemoryOf
  <2>4. MemoryOf(InHand \cap Background) =< Limit
    BY DEF AccountInv, Limit
  <2> QED BY <1>3, <1>4, <2>1, <2>3, <2>4
<1>10. ASSUME NEW S \in SUBSET Queued, NEW to \in {"Cancelled", "Skipped"}, Drops(S, to)
       PROVE  AccountInv'
  <2>1. Running' = Running /\ InHand' = InHand \ S /\ S \in SUBSET InHand
    BY <1>10, DropStates
  <2>2. /\ admittedMemory' = admittedMemory - MemoryOf(S)
        /\ UNCHANGED <<activeMemory, activeWorkers, activePipelines>>
    BY <1>10 DEF Drops, FinishQueued, activeVars
  <2>3. /\ MemoryOf(S) \in Nat /\ MemoryOf(InHand \ S) = MemoryOf(InHand) - MemoryOf(S)
        /\ MemoryOf((InHand \ S) \cap Background) =< Limit
    BY <1>9, <2>1
  <2>4. admittedMemory' = MemoryOf(InHand') /\ admittedMemory' =< MemoryLimit
    BY <1>2, <1>4, <2>1, <2>2, <2>3 DEF AccountInv
  <2>5. MemoryOf(InHand' \cap Background) =< Limit
    BY <2>1, <2>3
  <2> QED BY <2>1, <2>2, <2>4, <2>5 DEF AccountInv, Limit
<1>11. ASSUME NEW t \in Running, NEW to \in {"Passed", "Failed", "Cancelled"},
              FinishRunning(t, to)
       PROVE  AccountInv'
  <2>1. t \in Task /\ t \in InHand /\ Running' = Running \ {t} /\ InHand' = InHand \ {t}
    BY <1>11, FinishStates
  <2>2. /\ admittedMemory' = admittedMemory - Memory[t]
        /\ activeMemory' = activeMemory - Memory[t]
        /\ activeWorkers' = activeWorkers - Workers[t]
        /\ activePipelines' = activePipelines - (IF t \in Pipelines THEN 1 ELSE 0)
    BY <1>11 DEF FinishRunning
  <2>3. Memory[t] \in Nat /\ Workers[t] \in Nat
    BY <1>2, <2>1
  <2>4. /\ MemoryOf(InHand \ {t}) = MemoryOf(InHand) - Memory[t]
        /\ MemoryOf(Running \ {t}) = MemoryOf(Running) - Memory[t]
        /\ SumFunctionOnSet(Workers, Running \ {t})
             = SumFunctionOnSet(Workers, Running) - Workers[t]
    BY <1>1, <1>2, <2>1, ClaimSums DEF MemoryOf
  <2>5. {t} \in SUBSET InHand
    BY <2>1
  <2>6. MemoryOf((InHand \ {t}) \cap Background) =< Limit
    BY <1>9, <2>5
  <2>7. Cardinality((Running \ {t}) \cap Pipelines)
          = Cardinality(Running \cap Pipelines) - (IF t \in Pipelines THEN 1 ELSE 0)
    <3>1. CASE t \in Pipelines
      <4>1. (Running \ {t}) \cap Pipelines = (Running \cap Pipelines) \ {t}
        OBVIOUS
      <4>2. t \in Running \cap Pipelines
        BY <3>1
      <4>3. Cardinality((Running \cap Pipelines) \ {t}) = Cardinality(Running \cap Pipelines) - 1
        BY <1>5, <4>2, FS_RemoveElement
      <4> QED BY <3>1, <4>1, <4>3
    <3>2. CASE t \notin Pipelines
      <4>1. (Running \ {t}) \cap Pipelines = Running \cap Pipelines
        BY <3>2
      <4>2. Cardinality((Running \ {t}) \cap Pipelines) = Cardinality(Running \cap Pipelines)
        BY <4>1, Zenon
      <4> QED BY <1>5, <3>2, <4>2
    <3> QED BY <3>1, <3>2
  <2>8. /\ admittedMemory' = MemoryOf(InHand') /\ admittedMemory' =< MemoryLimit
        /\ activeMemory' = MemoryOf(Running')
    BY <1>2, <1>4, <2>1, <2>2, <2>3, <2>4 DEF AccountInv
  <2>9. /\ activeWorkers' = SumFunctionOnSet(Workers, Running') /\ activeWorkers' =< WorkerLimit
        /\ activePipelines' = Cardinality(Running' \cap Pipelines)
        /\ activePipelines' =< ActivePipelineLimit
    BY <1>2, <1>4, <1>5, <2>1, <2>2, <2>3, <2>4, <2>7 DEF AccountInv
  <2>10. MemoryOf(InHand' \cap Background) =< Limit
    BY <2>1, <2>6
  <2> QED BY <2>8, <2>9, <2>10 DEF AccountInv, Limit
<1>12. CASE StartTask
  <2>1. PICK t \in Queued :
          /\ t \in Task /\ t \notin Running /\ FitsActive(t)
          /\ t = RunnableTask(SelectPriority)
          /\ Running' = Running \cup {t} /\ InHand' = InHand
    BY <1>12, StartStates
  <2>2. /\ UNCHANGED admittedMemory
        /\ activeMemory' = activeMemory + Memory[t]
        /\ activeWorkers' = activeWorkers + Workers[t]
        /\ activePipelines' = activePipelines + (IF t \in Pipelines THEN 1 ELSE 0)
    BY <1>12, <2>1 DEF StartTask
  <2>3. Memory[t] \in Nat /\ Workers[t] \in Nat
    BY <1>2, <2>1
  <2>4. /\ MemoryOf(Running \cup {t}) = MemoryOf(Running) + Memory[t]
        /\ SumFunctionOnSet(Workers, Running \cup {t})
             = SumFunctionOnSet(Workers, Running) + Workers[t]
    BY <1>1, <1>2, <2>1, ClaimSums DEF MemoryOf
  <2>5. Cardinality((Running \cup {t}) \cap Pipelines)
          = Cardinality(Running \cap Pipelines) + (IF t \in Pipelines THEN 1 ELSE 0)
    <3>1. CASE t \in Pipelines
      <4>1. (Running \cup {t}) \cap Pipelines = (Running \cap Pipelines) \cup {t}
        BY <3>1
      <4>2. t \notin Running \cap Pipelines
        BY <2>1
      <4>3. Cardinality((Running \cap Pipelines) \cup {t}) = Cardinality(Running \cap Pipelines) + 1
        BY <1>5, <4>2, FS_AddElement
      <4> QED BY <3>1, <4>1, <4>3
    <3>2. CASE t \notin Pipelines
      <4>1. (Running \cup {t}) \cap Pipelines = Running \cap Pipelines
        BY <3>2
      <4>2. Cardinality((Running \cup {t}) \cap Pipelines) = Cardinality(Running \cap Pipelines)
        BY <4>1, Zenon
      <4> QED BY <1>5, <3>2, <4>2
    <3> QED BY <3>1, <3>2
  <2>6. /\ activeWorkers + Workers[t] =< WorkerLimit
        /\ t \in Pipelines => activePipelines < ActivePipelineLimit
    BY <2>1 DEF FitsActive
  <2>7. activeMemory' = MemoryOf(Running')
    BY <1>4, <2>1, <2>2, <2>3, <2>4 DEF AccountInv
  <2>8. activeWorkers' = SumFunctionOnSet(Workers, Running') /\ activeWorkers' =< WorkerLimit
    BY <2>1, <2>2, <2>4, <2>6 DEF AccountInv
  <2>9. /\ activePipelines' = Cardinality(Running' \cap Pipelines)
        /\ activePipelines' =< ActivePipelineLimit
    BY <1>2, <1>5, <2>1, <2>2, <2>5, <2>6 DEF AccountInv
  <2>10. /\ admittedMemory' = MemoryOf(InHand') /\ admittedMemory' =< MemoryLimit
         /\ MemoryOf(InHand' \cap Background) =< Limit
    BY <2>1, <2>2 DEF AccountInv, Limit
  <2> QED BY <2>7, <2>8, <2>9, <2>10 DEF AccountInv, Limit
<1> QED BY <1>7, <1>8, <1>10, <1>11, <1>12, StepKinds

-----------------------------------------------------------------------------
(* The ends of tasks and of those that depend on them. *)
LEMMA OrderNext ==
  IsTyped /\ TodoInv /\ QueueInv /\ NumberInv /\ DependencyOrder /\ [Next]_vars
    => DependencyOrder'
<1> SUFFICES ASSUME IsTyped, TodoInv, QueueInv, NumberInv, DependencyOrder, [Next]_vars
             PROVE  DependencyOrder'
  OBVIOUS
<1>0. Dependencies \in [Task -> SUBSET Task] /\ \A t \in Task : t \notin Dependencies[t]
  BY SchedulerConstants
<1>1. CASE Steady
  BY <1>1 DEF Steady, DependencyOrder
<1>2. ASSUME NEW t \in Task, Submit(t) PROVE DependencyOrder'
  <2>1. state[t] = "None" /\ \A u \in Task : state'[u] = IF u = t THEN "Queued" ELSE state[u]
    BY <1>2, SubmitStates DEF Submit, Known
  <2> QED BY <1>0, <2>1 DEF DependencyOrder, Terminal
<1>3. ASSUME NEW S \in SUBSET Queued, NEW to \in {"Cancelled", "Skipped"}, Drops(S, to)
      PROVE  DependencyOrder'
  <2>1. \A u \in Task : state'[u] = IF u \in S THEN to ELSE state[u]
    BY <1>3, DropStates
  <2>2. \A u \in S : u \in Task /\ state[u] = "Queued" /\ (to = "Skipped" => DependencyFailed(u))
    BY <1>3 DEF Drops, Queued, InState
  <2>3. ASSUME NEW u \in Task
        PROVE  /\ state'[u] \in {"Running", "Passed"} =>
                    \A d \in Dependencies[u] : state'[d] = "Passed"
               /\ state'[u] = "Skipped" =>
                    \E d \in Dependencies[u] : state'[d] \in Terminal \ {"Passed"}
    <3>1. CASE u \in S
      <4>1. \A d \in Dependencies[u] : d \in Task /\ (state[d] # "Queued" => state'[d] = state[d])
        BY <1>0, <2>1, <2>2
      <4>2. to = "Skipped" =>
              \E d \in Dependencies[u] : state[d] \in {"Failed", "Cancelled", "Skipped"}
        BY <2>2, <3>1 DEF DependencyFailed
      <4> QED BY <2>1, <3>1, <4>1, <4>2 DEF Terminal
    <3>2. CASE u \notin S
      <4>1. \A d \in Dependencies[u] : d \in Task /\ (state[d] # "Queued" => state'[d] = state[d])
        BY <1>0, <2>1, <2>2
      <4>2. state'[u] = state[u]
        BY <2>1, <3>2
      <4> QED BY <4>1, <4>2 DEF DependencyOrder, Terminal
    <3> QED BY <3>1, <3>2
  <2> QED BY <2>3 DEF DependencyOrder
<1>4. ASSUME NEW t \in Running, NEW to \in {"Passed", "Failed", "Cancelled"},
             FinishRunning(t, to)
      PROVE  DependencyOrder'
  <2>1. t \in Task /\ \A u \in Task : state'[u] = IF u = t THEN to ELSE state[u]
    BY <1>4, FinishStates
  <2>2. state[t] = "Running"
    BY DEF Running, InState
  <2> QED BY <1>0, <2>1, <2>2 DEF DependencyOrder, Terminal
<1>5. CASE StartTask
  <2>1. PICK t \in Queued :
          /\ t \in Task /\ DependenciesPassed(t)
          /\ \A u \in Task : state'[u] = IF u = t THEN "Running" ELSE state[u]
    BY <1>5, StartStates
  <2>2. state[t] = "Queued"
    BY DEF Queued, InState
  <2> QED BY <1>0, <2>1, <2>2 DEF DependencyOrder, DependenciesPassed, Terminal
<1> QED BY <1>1, <1>2, <1>3, <1>4, <1>5, StepKinds

LEMMA AbortNext ==
  IsTyped /\ TodoInv /\ QueueInv /\ NumberInv /\ AbortInv /\ [Next]_vars => AbortInv'
<1> SUFFICES ASSUME IsTyped, TodoInv, QueueInv, NumberInv, AbortInv, [Next]_vars,
                    "AbortAll" \in shutdown'
             PROVE  Queued' = {}
  BY DEF AbortInv
<1>1. CASE \E m \in {"DrainVisible", "AbortAll"} : Shutdown(m)
  <2>1. PICK m \in {"DrainVisible", "AbortAll"} : Shutdown(m)
    BY <1>1
  <2>2. /\ shutdown' = shutdown \cup {m}
        /\ state' = [t \in Task |-> IF t \in Queued \ Spared(m) THEN "Cancelled" ELSE state[t]]
    BY <2>1 DEF Shutdown, FinishQueued, Queued
  <2>3. Queued = {} \/ Spared(m) = {}
    BY <2>2 DEF AbortInv, Spared
  <2> QED BY <2>2, <2>3 DEF Queued, InState
<1>2. CASE UNCHANGED shutdown
  <2>1. Queued = {} /\ ShuttingDown
    BY <1>2 DEF AbortInv, ShuttingDown
  <2>2. CASE Steady
    BY <2>1, <2>2 DEF Steady, Queued, InState
  <2>3. ASSUME NEW t \in Task, Submit(t) PROVE FALSE
    BY <2>1, <2>3 DEF Submit
  <2>4. ASSUME NEW S \in SUBSET Queued, NEW to \in {"Cancelled", "Skipped"}, Drops(S, to)
        PROVE  Queued' = {}
    BY <2>1, <2>4, DropStates
  <2>5. ASSUME NEW t \in Running, NEW to \in {"Passed", "Failed", "Cancelled"},
               FinishRunning(t, to)
        PROVE  Queued' = {}
    BY <2>1, <2>5, FinishStates
  <2>6. CASE StartTask
    BY <2>1, <2>6, StartStates
  <2> QED BY <2>2, <2>3, <2>4, <2>5, <2>6, StepKinds
<1>3. \/ UNCHANGED shutdown
      \/ \E m \in {"DrainVisible", "AbortAll"} : Shutdown(m)
  BY DEF Next, vars, callVars, Submit, WorkUnitBoundary, CompleteSuccess, CompleteCancelled,
         CompleteFailure, WorkPanics, CancelQueued, CancelRunning, CancelToken, StartNext,
         RefreshQueued, NothingRunnable, DoesNotFit, StartTask, Tick, FinishRunning
<1> QED BY <1>1, <1>2, <1>3

-----------------------------------------------------------------------------
SchedulerInv ==
  /\ IsTyped /\ NumberInv /\ QueueInv /\ TodoInv /\ AccountInv /\ DependencyOrder /\ AbortInv

LEMMA InitInv == Init => SchedulerInv
<1> SUFFICES ASSUME Init PROVE SchedulerInv
  OBVIOUS
<1>1. IsTyped
  <2>1. MaxClock \in Nat
    BY SchedulerConstants
  <2>2. queues \in [Priority -> Seq(Task)] /\ deficits \in [Priority -> Int]
    <3>1. <<>> \in Seq(Task) /\ 0 \in Int
      OBVIOUS
    <3> QED BY <3>1 DEF Init
  <2>3. /\ state \in [Task -> State] /\ sequence \in [Task -> Nat]
        /\ enqueuedAt \in [Task -> 0..MaxClock] /\ clock \in 0..MaxClock
    BY <2>1 DEF Init, State
  <2> QED BY <2>2, <2>3 DEF Init, IsTyped
<1>2. KnownTasks = {} /\ Queued = {} /\ Running = {}
  BY DEF Init, KnownTasks, Known, Queued, Running, InState
<1>3. NumberInv
  BY <1>2 DEF NumberInv, Init
<1>4. QueueInv
  <2>1. \A p \in Priority : queues[p] = <<>> /\ Len(queues[p]) = 0
    BY DEF Init
  <2>2. \A p \in Priority : Range(queues[p]) = {}
    <3>1. <<>> \in Seq(Task)
      OBVIOUS
    <3>2. \A x : x \in Range(<<>>) <=> \E i \in 1 .. Len(<<>>) : <<>>[i] = x
      BY <3>1, RangeFacts
    <3>3. Range(<<>>) = {}
      BY <3>2
    <3> QED BY <2>1, <3>3
  <2>3. QueueLength =< TotalQueueLimit
    <3>1. \A p \in Priority : Lengths[p] \in Int /\ Lengths[p] =< [q \in Priority |-> 0][p]
      BY <2>1 DEF Lengths
    <3>2. QueueLength = SumFunctionOnSet(Lengths, Priority)
      BY DEF QueueLength, Lengths
    <3>3. SumFunctionOnSet([q \in Priority |-> 0], Priority) = 0
      BY ZeroSum, PriorityFacts
    <3>4. QueueLength =< 0
      <4> DEFINE z == [q \in Priority |-> 0]
      <4>1. \A p \in Priority : Lengths[p] \in Int /\ z[p] \in Int /\ Lengths[p] =< z[p]
        BY <3>1
      <4> HIDE DEF z, Lengths
      <4>2. SumFunctionOnSet(Lengths, Priority) =< SumFunctionOnSet(z, Priority)
        BY <4>1, PriorityFacts, SumOverMonotone
      <4> QED BY <3>2, <3>3, <4>2 DEF z
    <3> QED BY <1>1, <3>4, QueueLengthType, SchedulerConstants
  <2>4. \A t \in Task : state[t] # "Queued"
    BY DEF Init
  <2> QED BY <2>1, <2>2, <2>3, <2>4 DEF QueueInv
<1>5. TodoInv
  BY DEF TodoInv, Idle, Init
<1>6. AccountInv
  <2>1. InHand = {} /\ InHand \cap Background = {} /\ Running \cap Pipelines = {}
    BY <1>2 DEF InHand
  <2>2. MemoryOf({}) = 0 /\ SumFunctionOnSet(Workers, {}) = 0 /\ Cardinality({}) = 0
    BY SumOverEmpty, FS_EmptySet DEF MemoryOf
  <2>3. MemoryLimit \in Nat \ {0} /\ WorkerLimit \in Nat /\ ActivePipelineLimit \in Nat
    BY SchedulerConstants
  <2>4. 0 =< MemoryLimit - MemoryReservation
    BY <2>3 DEF MemoryReservation
  <2>5. /\ MemoryOf(InHand) = 0 /\ MemoryOf(Running) = 0
        /\ MemoryOf(InHand \cap Background) = 0
        /\ SumFunctionOnSet(Workers, Running) = 0 /\ Cardinality(Running \cap Pipelines) = 0
    BY <1>2, <2>1, <2>2, Zenon
  <2> QED BY <2>3, <2>4, <2>5 DEF AccountInv, Init
<1>7. DependencyOrder
  BY DEF DependencyOrder, Init
<1>8. AbortInv
  BY DEF AbortInv, Init
<1> QED BY <1>1, <1>3, <1>4, <1>5, <1>6, <1>7, <1>8 DEF SchedulerInv

LEMMA NextInv == SchedulerInv /\ [Next]_vars => SchedulerInv'
BY TypedNext, NumberNext, QueueNext, TodoNext, AccountNext, OrderNext, AbortNext
   DEF SchedulerInv

THEOREM SchedulerInvHolds == Spec => []SchedulerInv
<1>1. Init => SchedulerInv
  BY InitInv
<1>2. SchedulerInv /\ [Next]_vars => SchedulerInv'
  BY NextInv
<1> QED BY <1>1, <1>2, PTL DEF Spec

(* The accounts of memory, workers and pipelines are what the tasks in hand  *)
(* claim and stay within their limits, background work leaves interactive    *)
(* tasks their memory, and the queues hold the queued tasks in the order of  *)
(* their admission, whatever way tasks end.                                  *)
THEOREM SchedulerIsWellFormed == Spec => []WellFormed
<1>1. SchedulerInv => WellFormed
  <2> SUFFICES ASSUME SchedulerInv PROVE WellFormed
    OBVIOUS
  <2> USE DEF SchedulerInv
  <2>1. InHand = InState("Queued") \cup InState("Running") /\ Running = InState("Running")
    BY DEF InHand, Queued, Running
  <2>2. TypeOK
    <3>1. sequence \in [Task -> 0 .. Cardinality(Task)]
      <4>1. \A t \in Task : sequence[t] \in 0 .. Cardinality(Task)
        BY KnownFinite DEF NumberInv
      <4> QED BY <4>1 DEF IsTyped
    <3>2. {admittedMemory, activeMemory, activeWorkers, activePipelines} \subseteq Nat
      <4>1. InHand \subseteq Task /\ Running \subseteq Task
        BY DEF InHand, Queued, Running, InState
      <4>2. /\ MemoryOf(InHand) \in Nat /\ MemoryOf(Running) \in Nat
            /\ SumFunctionOnSet(Workers, Running) \in Nat
        BY <4>1, ClaimSums, SchedulerConstants DEF MemoryOf
      <4>3. Cardinality(Running \cap Pipelines) \in Nat
        BY <4>1, SchedulerConstants, FS_Subset, FS_CardinalityType
      <4> QED BY <4>2, <4>3 DEF AccountInv
    <3>3. todo \in Seq(Task \cup {NoTask})
      <4>1. CASE Idle
        BY <4>1 DEF Idle, NotStarting
      <4>2. CASE ~Idle
        <5>1. todo \in Seq(Task)
          BY <4>2 DEF TodoInv
        <5> QED BY <5>1, SeqMonotonic
      <4> QED BY <4>1, <4>2
    <3>4. QueueLength =< TotalQueueLimit
      BY DEF QueueInv
    <3> QED BY <3>1, <3>2, <3>3, <3>4 DEF TypeOK, IsTyped
  <2>3. AccountsBalance
    BY <2>1 DEF AccountInv, AccountsBalance
  <2>4. InteractiveReserve
    <3>1. InHand \cap Background
            = {t \in InState("Queued") \cup InState("Running") : ~Interactive(t)}
      BY <2>1 DEF Background, InState
    <3> QED BY <3>1 DEF AccountInv, InteractiveReserve
  <2>5. QueuesHoldQueued
    <3>1. \A t \in Task : state[t] = "Queued" <=> \E p \in Priority : t \in Range(queues[p])
      BY SchedulerConstants DEF QueueInv
    <3>2. \A p \in Priority : \A i, j \in DOMAIN queues[p] :
            /\ PriorityOf[queues[p][i]] = p
            /\ i < j => sequence[queues[p][i]] < sequence[queues[p][j]]
      <4>1. \A p \in Priority : queues[p] \in Seq(Task) /\ DOMAIN queues[p] = 1 .. Len(queues[p])
        BY DEF IsTyped
      <4>2. \A p \in Priority : \A i \in DOMAIN queues[p] : queues[p][i] \in Range(queues[p])
        BY <4>1, RangeFacts
      <4> QED BY <4>1, <4>2 DEF QueueInv
    <3> QED BY <3>1, <3>2 DEF QueuesHoldQueued
  <2> QED BY <2>2, <2>3, <2>4, <2>5 DEF WellFormed
<1> QED BY <1>1, SchedulerInvHolds, PTL

(* A task runs, and passes, only after all it depends on; a task is skipped  *)
(* only because of one that did not pass.                                    *)
THEOREM DependenciesComeFirst == Spec => []DependencyOrder
<1>1. SchedulerInv => DependencyOrder
  BY DEF SchedulerInv
<1> QED BY <1>1, SchedulerInvHolds, PTL

(* Tasks never wait for one another: of the queued tasks, the one admitted   *)
(* first depends on tasks that have ended.                                   *)
THEOREM SchedulerNeverStalls == Spec => []NoStall
<1>1. SchedulerInv => NoStall
  <2> SUFFICES ASSUME SchedulerInv, InState("Running") = {}, InState("Queued") # {}
               PROVE  \E t \in InState("Queued") :
                        \/ token[t] \/ DependencyFailed(t)
                        \/ DependenciesPassed(t) /\ FitsActive(t)
    BY DEF NoStall
  <2> USE DEF SchedulerInv
  <2> DEFINE N == {sequence[t] : t \in InState("Queued")}
  <2>1. \A t \in InState("Queued") : t \in Task /\ t \in KnownTasks /\ sequence[t] \in Nat
    BY DEF InState, KnownTasks, Known, IsTyped
  <2>2. N \subseteq Nat /\ N # {}
    BY <2>1
  <2>3. Min(N) \in N /\ \A n \in N : Min(N) =< n
    BY <2>2, MinIsLeast
  <2>4. PICK t \in InState("Queued") : sequence[t] = Min(N)
    BY <2>3
  <2>5. \A u \in InState("Queued") : sequence[t] =< sequence[u]
    BY <2>3, <2>4
  <2>6. ClaimIsValid(t) /\ \A d \in Dependencies[t] : d \in KnownTasks /\ sequence[d] < sequence[t]
    BY <2>1 DEF NumberInv
  <2>7. ASSUME NEW d \in Dependencies[t] PROVE state[d] \in Terminal
    <3>1. d \in Task /\ state[d] # "None" /\ sequence[d] \in Nat /\ sequence[t] \in Nat
          /\ sequence[d] < sequence[t]
      BY <2>1, <2>6 DEF KnownTasks, Known, IsTyped
    <3>2. d \notin InState("Queued")
      BY <2>5, <3>1
    <3>3. state[d] # "Queued" /\ state[d] # "Running"
      BY <3>1, <3>2 DEF InState
    <3>4. state[d] \in State
      BY <3>1 DEF IsTyped
    <3> QED BY <3>1, <3>3, <3>4 DEF State
  <2>8. DependencyFailed(t) \/ DependenciesPassed(t)
    BY <2>7 DEF Terminal, DependencyFailed, DependenciesPassed
  <2>9. FitsActive(t)
    <3>1. Running = {} /\ Running \cap Pipelines = {}
      BY DEF Running
    <3>2. MemoryOf({}) = 0 /\ SumFunctionOnSet(Workers, {}) = 0 /\ Cardinality({}) = 0
      BY SumOverEmpty, FS_EmptySet DEF MemoryOf
    <3>3. MemoryOf(Running) = 0 /\ SumFunctionOnSet(Workers, Running) = 0
          /\ Cardinality(Running \cap Pipelines) = 0
      BY <3>1, <3>2, Zenon
    <3>4. activeMemory = 0 /\ activeWorkers = 0 /\ activePipelines = 0
      BY <3>3 DEF AccountInv
    <3>5. Workers[t] \in Nat /\ Memory[t] \in Nat /\ ActivePipelineLimit \in Nat \ {0}
      BY <2>1, SchedulerConstants
    <3> QED BY <2>6, <3>4, <3>5 DEF FitsActive, ClaimIsValid
  <2> QED BY <2>8, <2>9
<1> QED BY <1>1, SchedulerInvHolds, PTL

(* After AbortAll tasks only end, and none ends passed.                      *)
THEOREM AbortAllIsFinal == Spec => AbortAllStops
<1>1. SchedulerInv /\ SchedulerInv' /\ [Next]_vars =>
        [\A t \in Task : "AbortAll" \in shutdown /\ state'[t] # state[t] =>
           state'[t] \notin {"Queued", "Running", "Passed"}]_vars
  <2> SUFFICES ASSUME SchedulerInv, Next, NEW t \in Task, "AbortAll" \in shutdown,
                      state'[t] # state[t]
               PROVE  state'[t] \notin {"Queued", "Running", "Passed"}
    OBVIOUS
  <2>1. IsTyped /\ TodoInv /\ QueueInv /\ NumberInv /\ Queued = {} /\ ShuttingDown
    BY DEF SchedulerInv, AbortInv, ShuttingDown
  <2>2. CASE Steady
    BY <2>2 DEF Steady
  <2>3. ASSUME NEW u \in Task, Submit(u) PROVE FALSE
    BY <2>1, <2>3 DEF Submit
  <2>4. ASSUME NEW S \in SUBSET Queued, NEW to \in {"Cancelled", "Skipped"}, Drops(S, to)
        PROVE  FALSE
    BY <2>1, <2>4, DropStates
  <2>5. CASE StartTask
    BY <2>1, <2>5, StartStates
  <2>6. CASE \E u \in Running, to \in {"Passed", "Failed", "Cancelled"} : FinishRunning(u, to)
    <3>1. PICK u \in Running, to \in {"Passed", "Failed", "Cancelled"} : FinishRunning(u, to)
      BY <2>6
    <3>2. \A w \in Task : state'[w] = IF w = u THEN to ELSE state[w]
      BY <2>1, <3>1, FinishStates
    <3>3. state'[t] # "Passed"
      <4>1. ASSUME NEW w \in Task, CompleteSuccess(w) PROVE state'[t] # "Passed"
        <5>1. FinishRunning(w, "Cancelled")
          BY <2>1, <4>1 DEF CompleteSuccess, Interrupted
        <5> QED BY <2>1, <5>1 DEF FinishRunning, IsTyped
      <4>2. ASSUME NEW w \in Task, CompleteCancelled(w) \/ CompleteFailure(w) \/ WorkPanics(w)
            PROVE  state'[t] # "Passed"
        <5>1. FinishRunning(w, "Cancelled") \/ FinishRunning(w, "Failed")
          BY <4>2 DEF CompleteCancelled, CompleteFailure, WorkPanics
        <5> QED BY <2>1, <5>1 DEF FinishRunning, IsTyped
      <4>3. \A w \in Task :
              (WorkUnitBoundary(w) \/ CancelRunning(w) \/ CancelToken(w)) => UNCHANGED state
        BY DEF WorkUnitBoundary, CancelRunning, CancelToken, taskVars
      <4>4. \A w \in Task : CancelQueued(w) => w \in Queued
        BY DEF CancelQueued, Queued, InState
      <4>5. StartNext \/ NothingRunnable \/ DoesNotFit \/ Tick => UNCHANGED state
        BY DEF StartNext, NothingRunnable, DoesNotFit, Tick, taskVars
      <4>6. RefreshQueued => state'[t] # "Passed"
        BY DEF RefreshQueued, FinishQueued
      <4>7. \A m : Shutdown(m) => state'[t] # "Passed"
        BY DEF Shutdown, FinishQueued
      <4> QED BY <2>1, <2>3, <2>5, <4>1, <4>2, <4>3, <4>4, <4>5, <4>6, <4>7 DEF Next
    <3>4. t = u
      BY <3>2
    <3> QED BY <3>2, <3>3, <3>4
  <2> QED BY <2>1, <2>2, <2>3, <2>4, <2>5, <2>6, StepKinds
<1> QED BY <1>1, SchedulerInvHolds, PTL DEF Spec, AbortAllStops
=============================================================================
