------------------------ MODULE SchedulingCycleProofs ------------------------
(***************************************************************************)
(* Theorems about SchedulingCycle, for any snapshots and any number of     *)
(* admissions a cycle.                                                     *)
(***************************************************************************)
EXTENDS SchedulingCycle, PolicyFacts

\* Zenon is tried first, and SMT on what Zenon does not prove.
USE ZenonT(3), SMTT(20)

-----------------------------------------------------------------------------
(* A preemption ends the cycle. *)

\* Workloads are preempted only for a workload that finds too few free devices.
LEMMA VictimsMeanTooFew ==
  ASSUME NEW in, SelectOneForAdmission(in).victims # {}
  PROVE  ~VirtualAdmissionOK(in, in.queued[SelectOneForAdmission(in).index])
<1>1. ASSUME NEW w, SelectPreemptionVictimsGreedyMinimal(w, in) # {}
      PROVE  ~FitsGPUCount(w, in.fleet)
  <2>1. needToFree(w, in) # 0
    BY <1>1 DEF SelectPreemptionVictimsGreedyMinimal
  <2> QED BY <2>1 DEF needToFree
<1> DEFINE q == in.queued
           first(I) == CHOOSE i \in I : \A j \in I \ {i} :
                         WeightedRoundRobinByTenant(q, in.quotas, i, j)
           open == {i \in DOMAIN q : /\ ~ExceedsTenantGPUCap(q[i], in)
                                     /\ CompatibleProfileAndKind(q[i], in.fleet)}
           fitting == {i \in open : /\ FitsGPUCount(q[i], in.fleet)
                                    /\ FitsPerDeviceMemory(q[i], in.fleet)}
           preempting == {i \in open : SelectPreemptionVictimsGreedyMinimal(q[i], in) # {}}
           one == first(preempting)
<1>2. SelectOneForAdmission(in) =
        CASE fitting # {} -> [index |-> first(fitting), victims |-> {}]
          [] fitting = {} /\ preempting # {} ->
               [index |-> one, victims |-> SelectPreemptionVictimsGreedyMinimal(q[one], in)]
          [] OTHER -> [index |-> 0, victims |-> {}]
  BY DEF SelectOneForAdmission
<1> HIDE DEF first, fitting, preempting, one
<1>3. /\ SelectOneForAdmission(in).index = one
      /\ SelectPreemptionVictimsGreedyMinimal(q[one], in) # {}
  BY <1>2
<1>4. ~FitsGPUCount(q[one], in.fleet)
  BY <1>1, <1>3
<1> QED BY <1>3, <1>4 DEF VirtualAdmissionOK, FitsGPUCount

\* An admission either preempts nobody or ends the cycle.
LEMMA AdmitEnds == ASSUME Admit, victims = {} PROVE victims' = {} \/ pc' = "done"
<1>1. CASE choice.victims = {}
  <2>1. \A k : FirstVictims(k) = {}
    BY <1>1 DEF FirstVictims
  <2> QED BY <2>1 DEF Admit
<1>2. CASE choice.victims # {}
  <2>1. ~VirtualAdmissionOK(working, chosen)
    BY <1>2, VictimsMeanTooFew DEF choice, chosen
  <2> QED BY <2>1 DEF Admit
<1> QED BY <1>1, <1>2

\* A preemption is the last thing a cycle does, whatever MaxAdmissionsPerCycle is
\* and whatever calls fail: the virtual admission of a workload that needed
\* victims is refused, which ends the loop (inputs.go:315-317,
\* scheduler_loop.go:302-349).
THEOREM PreemptionIsLast == Spec => []PreemptionEndsCycle
<1>1. Init => PreemptionEndsCycle
  BY DEF Init, PreemptionEndsCycle
<1>2. PreemptionEndsCycle /\ [Next]_vars => PreemptionEndsCycle'
  <2> SUFFICES ASSUME PreemptionEndsCycle, [Next]_vars PROVE PreemptionEndsCycle'
    OBVIOUS
  <2>1. CASE Admit
    <3>1. victims = {}
      BY <2>1 DEF Admit, PreemptionEndsCycle
    <3> QED BY <2>1, <3>1, AdmitEnds DEF PreemptionEndsCycle
  <2>2. CASE NoCandidate \/ PreemptFails \/ PatchFails
    BY <2>2 DEF NoCandidate, PreemptFails, PatchFails, PreemptionEndsCycle
  <2>3. CASE UNCHANGED vars
    BY <2>3 DEF vars, PreemptionEndsCycle
  <2> QED BY <2>1, <2>2, <2>3 DEF Next
<1> QED BY <1>1, <1>2, PTL DEF Spec

-----------------------------------------------------------------------------
(* The sums of the model as sums of functions. *)

Count(D) == [w \in D |-> w.gpuCount]

Size(s) == [i \in DOMAIN s |-> s[i].gpuCount]

LEMMA SumOverTotal ==
  ASSUME NEW D, NEW S \in SUBSET D, IsFiniteSet(S), \A w \in S : w.gpuCount \in Int
  PROVE  SumOver(S) = Total(Count(D), S)
<1> DEFINE f == Count(D)
           Q(R) == R = [s \in SUBSET S |->
                          IF s = {} THEN 0 ELSE AnyOf(s).gpuCount + R[s \ {AnyOf(s)}]]
<1>1. \A w \in S : f[w] \in Int /\ f[w] = w.gpuCount
  BY DEF Count
<1>2. SumOver(S) = (CHOOSE R : Q(R))[S]
  BY DEF SumOver, MapThenSumSet, MapThenFoldSet, AnyOf
<1>3. \A s \in SUBSET S : s # {} => AnyOf(s) \in S
  BY DEF AnyOf
<1> HIDE DEF f
<1>4. \A R : Q(R) <=> Solves(R, f, S)
  BY <1>1, <1>3 DEF Solves
<1> HIDE DEF Q
<1>5. \E R : Q(R)
  BY <1>1, <1>4, SolutionExists
<1>6. Solves(CHOOSE R : Q(R), f, S)
  BY <1>4, <1>5
<1>7. (CHOOSE R : Q(R))[S] = Total(f, S)
  BY <1>1, <1>6, SolutionIsTotal
<1> QED BY <1>2, <1>7 DEF f

LEMMA GPUsTotal ==
  ASSUME NEW s, NEW I \in SUBSET (DOMAIN s), IsFiniteSet(I), \A i \in I : s[i].gpuCount \in Int
  PROVE  GPUs(s, I) = Total(Size(s), I)
<1> DEFINE f == Size(s)
           Q(R) == R = [t \in SUBSET I |->
                          IF t = {} THEN 0 ELSE s[AnyOf(t)].gpuCount + R[t \ {AnyOf(t)}]]
<1>1. \A i \in I : f[i] \in Int /\ f[i] = s[i].gpuCount
  BY DEF Size
<1>2. GPUs(s, I) = (CHOOSE R : Q(R))[I]
  BY DEF GPUs, MapThenSumSet, MapThenFoldSet, AnyOf
<1>3. \A t \in SUBSET I : t # {} => AnyOf(t) \in I
  BY DEF AnyOf
<1> HIDE DEF f
<1>4. \A R : Q(R) <=> Solves(R, f, I)
  BY <1>1, <1>3 DEF Solves
<1> HIDE DEF Q
<1>5. \E R : Q(R)
  BY <1>1, <1>4, SolutionExists
<1>6. Solves(CHOOSE R : Q(R), f, I)
  BY <1>4, <1>5
<1>7. (CHOOSE R : Q(R))[I] = Total(f, I)
  BY <1>1, <1>6, SolutionIsTotal
<1> QED BY <1>2, <1>7 DEF f

LEMMA SumOverEmpty == SumOver({}) = 0
BY SumOverTotal, TotalEmpty, FS_EmptySet

LEMMA SumOverType ==
  ASSUME NEW S, IsFiniteSet(S), \A w \in S : w.gpuCount \in Int
  PROVE  SumOver(S) \in Int
<1>1. \A w \in S : Count(S)[w] \in Int
  BY DEF Count
<1> QED BY <1>1, SumOverTotal, TotalType

LEMMA SumOverAdd ==
  ASSUME NEW S, IsFiniteSet(S), \A x \in S : x.gpuCount \in Int,
         NEW w, w \notin S, w.gpuCount \in Int
  PROVE  SumOver(S \cup {w}) = SumOver(S) + w.gpuCount
<1> DEFINE D == S \cup {w}
<1>1. IsFiniteSet(D)
  BY FS_AddElement
<1>2. \A x \in D : x.gpuCount \in Int /\ Count(D)[x] = x.gpuCount
  BY DEF Count
<1>3. SumOver(D) = Total(Count(D), D) /\ SumOver(S) = Total(Count(D), S)
  BY <1>1, <1>2, SumOverTotal
<1> HIDE DEF D
<1>4. S \subseteq D /\ w \in D
  BY DEF D
<1>5. Total(Count(D), S \cup {w}) = Count(D)[w] + Total(Count(D), S)
  BY <1>2, <1>4, TotalAdd
<1>6. SumOver(S \cup {w}) = Total(Count(D), S \cup {w})
  BY <1>3, Zenon DEF D
<1>7. SumOver(S) \in Int /\ Count(D)[w] = w.gpuCount
  BY <1>2, <1>4, SumOverType
<1> QED BY <1>3, <1>5, <1>6, <1>7

-----------------------------------------------------------------------------
(* The queue without an admitted workload. *)

\* What is in a sequence with one more element.
LEMMA AppendRange ==
  ASSUME NEW S, NEW s \in Seq(S), NEW e \in S
  PROVE  Range(Append(s, e)) = Range(s) \cup {e}
<1> DEFINE t == Append(s, e)
           n == Len(s)
<1>1. /\ n \in Nat /\ DOMAIN s = 1 .. n /\ DOMAIN t = 1 .. n + 1
      /\ t[n + 1] = e /\ \A i \in 1 .. n : t[i] = s[i]
  OBVIOUS
<1> HIDE DEF t, n
<1>2. \A i \in DOMAIN t : i \in 1 .. n \/ i = n + 1
  BY <1>1
<1>3. \A i \in 1 .. n : i \in DOMAIN t /\ i \in DOMAIN s
  BY <1>1
<1>4. n + 1 \in DOMAIN t
  BY <1>1
<1>5. ASSUME NEW x PROVE x \in Range(t) <=> x \in Range(s) \cup {e}
  BY <1>1, <1>2, <1>3, <1>4 DEF Range
<1> QED BY <1>5 DEF t

Without(S, w) == {x \in S : x.id # w.id}

\* RemoveFrom keeps exactly the workloads with another ID.
LEMMA RemoveFromFacts ==
  ASSUME NEW S, NEW q \in Seq(S), NEW w
  PROVE  LET r == RemoveFrom(q, w)
         IN  /\ r \in Seq(S)
             /\ Range(r) = Without(Range(q), w)
<1> DEFINE N == Len(q)
           Body(F, n) == IF n = 0 THEN << >>
                         ELSE IF q[n].id # w.id THEN Append(F[n - 1], q[n]) ELSE F[n - 1]
           Good(F, n) == \A k \in 0 .. n : F[k] = Body(F, k)
           Upto(n) == \E F \in [0 .. N -> Seq(S)] : Good(F, n)
           BadU == {n \in 0 .. N : ~Upto(n)}
<1>0. N \in Nat /\ DOMAIN q = 1 .. N /\ \A n \in 1 .. N : q[n] \in S
  OBVIOUS
<1> HIDE DEF N
<1>1. Upto(0)
  <2> DEFINE F == [n \in 0 .. N |-> << >>]
  <2>1. F \in [0 .. N -> Seq(S)] /\ Good(F, 0)
    BY <1>0
  <2> HIDE DEF F, Good
  <2> QED BY <2>1
<1>2. ASSUME NEW n \in 0 .. N, n # N, Upto(n) PROVE Upto(n + 1)
  <2>1. PICK F \in [0 .. N -> Seq(S)] : Good(F, n)
    BY <1>2
  <2> DEFINE G == [F EXCEPT ![n + 1] = Body(F, n + 1)]
  <2>a. n \in Nat /\ n + 1 \in 1 .. N /\ n + 1 \in 0 .. N /\ (n + 1) - 1 = n
    BY <1>0, <1>2
  <2>2. Body(F, n + 1) \in Seq(S)
    <3>1. q[n + 1] \in S /\ F[n] \in Seq(S) /\ n + 1 # 0
      BY <1>0, <2>a
    <3> QED BY <2>a, <3>1
  <2>3. G \in [0 .. N -> Seq(S)]
    BY <1>0, <1>2, <2>2
  <2>4. ASSUME NEW k \in 0 .. n + 1 PROVE G[k] = Body(G, k)
    <3>0. \A j \in 0 .. n : G[j] = F[j]
      <4> HIDE DEF Body
      <4> QED BY <1>0, <2>a
    <3>1. CASE k = n + 1
      <4>1. G[k] = Body(F, n + 1)
        <5> HIDE DEF Body
        <5> QED BY <2>a, <3>1
      <4>2. G[n] = F[n]
        BY <2>a, <3>0
      <4> HIDE DEF G
      <4> QED BY <2>a, <3>1, <4>1, <4>2
    <3>2. CASE k # n + 1
      <4>1. k \in 0 .. n /\ G[k] = F[k] /\ (k # 0 => G[k - 1] = F[k - 1])
        <5> HIDE DEF G
        <5> QED BY <2>a, <3>0, <3>2
      <4>2. F[k] = Body(F, k)
        BY <2>1, <4>1
      <4> QED BY <4>1, <4>2
    <3> QED BY <3>1, <3>2
  <2> HIDE DEF G, Body
  <2> QED BY <2>3, <2>4
<1>3. Upto(N)
  <2> HIDE DEF Upto
  <2> SUFFICES ASSUME ~Upto(N) PROVE FALSE
    OBVIOUS
  <2>1. N \in BadU
    BY <1>0
  <2>2. PICK n \in BadU : \A m \in BadU : n <= m
    <3>1. BadU \in SUBSET Nat
      BY <1>0
    <3> QED BY <2>1, <3>1, SmallestNumber
  <2>3. n # 0
    BY <1>1, <2>2
  <2>4. n - 1 \in 0 .. N /\ n - 1 # N /\ Upto(n - 1)
    BY <1>0, <2>2, <2>3
  <2>5. Upto((n - 1) + 1)
    BY <1>2, <2>4
  <2> QED BY <1>0, <2>2, <2>5
<1> DEFINE K == CHOOSE F : F = [n \in 0 .. N |-> Body(F, n)]
<1>4. RemoveFrom(q, w) = K[N]
  BY DEF RemoveFrom, N
<1>5. \E F : F = [n \in 0 .. N |-> Body(F, n)]
  <2>1. PICK F \in [0 .. N -> Seq(S)] : Good(F, N)
    BY <1>3
  <2>2. F = [n \in 0 .. N |-> Body(F, n)]
    BY <2>1
  <2> QED BY <2>2
<1>6. K = [n \in 0 .. N |-> Body(K, n)]
  <2> HIDE DEF Body
  <2> QED BY <1>5
<1> HIDE DEF K
<1>7. \A n \in 0 .. N : K[n] = Body(K, n)
  BY <1>6
<1> DEFINE Kept(n) == {x \in {q[i] : i \in 1 .. n} : x.id # w.id}
           Fine(n) == K[n] \in Seq(S) /\ Range(K[n]) = Kept(n)
           BadF == {n \in 0 .. N : ~Fine(n)}
<1>8. Fine(0)
  <2>1. K[0] = << >>
    BY <1>0, <1>7
  <2>2. << >> \in Seq(S) /\ Range(<< >>) = {} /\ Kept(0) = {}
    BY DEF Range
  <2> HIDE DEF Kept
  <2> QED BY <2>1, <2>2
<1>9. ASSUME NEW n \in 0 .. N, n # N, Fine(n) PROVE Fine(n + 1)
  <2>1. K[n + 1] = IF q[n + 1].id # w.id THEN Append(K[n], q[n + 1]) ELSE K[n]
    BY <1>0, <1>7, <1>9
  <2>2. Kept(n + 1) = IF q[n + 1].id # w.id THEN Kept(n) \cup {q[n + 1]} ELSE Kept(n)
    BY <1>0, <1>9
  <2>3. K[n] \in Seq(S) /\ Range(K[n]) = Kept(n) /\ q[n + 1] \in S
    <3>1. n + 1 \in 1 .. N
      BY <1>0, <1>9
    <3>2. q[n + 1] \in S
      BY <1>0, <3>1
    <3> HIDE DEF Kept
    <3> QED BY <1>9, <3>2
  <2> HIDE DEF Kept
  <2>4. CASE q[n + 1].id # w.id
    <3>1. Append(K[n], q[n + 1]) \in Seq(S)
      BY <2>3
    <3>2. Range(Append(K[n], q[n + 1])) = Range(K[n]) \cup {q[n + 1]}
      BY <2>3, AppendRange
    <3> QED BY <2>1, <2>2, <2>3, <2>4, <3>1, <3>2
  <2>5. CASE q[n + 1].id = w.id
    BY <2>1, <2>2, <2>3, <2>5
  <2> QED BY <2>4, <2>5
<1>10. Fine(N)
  <2> HIDE DEF Fine
  <2> SUFFICES ASSUME ~Fine(N) PROVE FALSE
    OBVIOUS
  <2>1. N \in BadF
    BY <1>0
  <2>2. PICK n \in BadF : \A m \in BadF : n <= m
    <3>1. BadF \in SUBSET Nat
      BY <1>0
    <3> QED BY <2>1, <3>1, SmallestNumber
  <2>3. n # 0
    BY <1>8, <2>2
  <2>4. n - 1 \in 0 .. N /\ n - 1 # N /\ Fine(n - 1)
    BY <1>0, <2>2, <2>3
  <2>5. Fine((n - 1) + 1)
    BY <1>9, <2>4
  <2> QED BY <1>0, <2>2, <2>5
<1>11. Kept(N) = Without(Range(q), w)
  BY <1>0 DEF Range, Without
<1> HIDE DEF Kept
<1> QED BY <1>4, <1>10, <1>11

-----------------------------------------------------------------------------
(* The order in which workloads are considered. *)

\* OrderQueued is a strict total order on the places of a queue.
LEMMA OrderIsTotal ==
  ASSUME NEW q \in Seq(QueuedWorkload)
  PROVE  /\ \A i \in DOMAIN q : ~OrderQueued(q, i, i)
         /\ \A i, j \in DOMAIN q : i # j => OrderQueued(q, i, j) \/ OrderQueued(q, j, i)
         /\ \A i, j, k \in DOMAIN q :
              OrderQueued(q, i, j) /\ OrderQueued(q, j, k) => OrderQueued(q, i, k)
<1>1. \A i \in DOMAIN q : i \in Int /\ q[i].priority \in Int /\ q[i].at \in Int
  BY DEF QueuedWorkload
<1> QED BY <1>1 DEF OrderQueued

LEMMA DomainFinite ==
  ASSUME NEW S, NEW q \in Seq(S)
  PROVE  IsFiniteSet(DOMAIN q) /\ \A I \in SUBSET (DOMAIN q) : IsFiniteSet(I)
<1>1. DOMAIN q = 1 .. Len(q) /\ 1 \in Int /\ Len(q) \in Int
  OBVIOUS
<1>2. IsFiniteSet(1 .. Len(q))
  BY <1>1, FS_Interval
<1> QED BY <1>1, <1>2, FS_Subset

LEMMA RangeFinite ==
  ASSUME NEW S, NEW q \in Seq(S)
  PROVE  IsFiniteSet(Range(q)) /\ Range(q) \subseteq S
<1>1. q \in Surjection(DOMAIN q, Range(q)) /\ Range(q) \subseteq S
  BY DEF Surjection, Range
<1> QED BY <1>1, DomainFinite, FS_Surjection

\* Every set of places has a first one.
LEMMA OrderHasFirst ==
  ASSUME NEW q \in Seq(QueuedWorkload), NEW I \in SUBSET (DOMAIN q), I # {}
  PROVE  \E i \in I : \A j \in I \ {i} : OrderQueued(q, i, j)
<1>1. PICK B : \A i, j \in I : <<i, j>> \in B <=> OrderQueued(q, i, j)
  <2> DEFINE B == {e \in I \X I : OrderQueued(q, e[1], e[2])}
  <2>1. \A i, j \in I : <<i, j>> \in B <=> OrderQueued(q, i, j)
    OBVIOUS
  <2> QED BY <2>1
<1>2. IsFiniteSet(I)
  BY DomainFinite
<1>3. \A x, y \in I : x # y => <<x, y>> \in B \/ <<y, x>> \in B
  BY <1>1, OrderIsTotal
<1>4. \A x, y, z \in I : <<x, y>> \in B /\ <<y, z>> \in B => <<x, z>> \in B
  BY <1>1, OrderIsTotal
<1>5. \E x \in I : \A y \in I \ {x} : <<x, y>> \in B
  BY <1>2, <1>3, <1>4, FirstExists
<1> QED BY <1>1, <1>5

\* TenantBefore is a strict total order on the tenants of the queue.
LEMMA TenantBeforeIsOrder ==
  ASSUME NEW q \in Seq(QueuedWorkload)
  PROVE  /\ \A s \in TenantsOf(q) : ~TenantBefore(q, s, s)
         /\ \A s, t \in TenantsOf(q) :
              s # t => TenantBefore(q, s, t) \/ TenantBefore(q, t, s)
         /\ \A s, t, u \in TenantsOf(q) :
              TenantBefore(q, s, t) /\ TenantBefore(q, t, u) => TenantBefore(q, s, u)
<1>1. IsQueue(q)
  <2>1. Len(q) \in Nat /\ DOMAIN q = 1 .. Len(q)
    OBVIOUS
  <2> QED BY <2>1 DEF IsQueue, QueuedWorkload
<1>2. \A s, t \in TenantsOf(q) : <<s, t>> \in TenantOrder(q) <=> TenantBefore(q, s, t)
  BY <1>1, TenantOrderIsStrict
<1>3. StrictOrder(TenantOrder(q), TenantsOf(q))
  BY <1>1, TenantOrderIsStrict
<1> QED BY <1>2, <1>3, Zenon DEF StrictOrder

\* Division by a positive number.
LEMMA DivFacts ==
  ASSUME NEW a \in Nat, NEW b \in Nat, NEW c \in Nat \ {0}
  PROVE  a \div c \in Nat /\ (a <= b => a \div c <= b \div c)
OBVIOUS

\* The workloads of the tenant of q[i] that are taken before it.
Ahead(q, i) == {j \in DOMAIN q : q[j].tenant = q[i].tenant /\ OrderQueued(q, j, i)}

LEMMA RoundOfQueued ==
  ASSUME NEW q \in Seq(QueuedWorkload), NEW quotas \in [Tenants -> TenantQuota]
  PROVE  /\ \A i \in DOMAIN q : Round(q, quotas, i) \in Nat
         /\ \A i, j \in DOMAIN q : q[i].tenant = q[j].tenant /\ OrderQueued(q, i, j) =>
              Round(q, quotas, i) <= Round(q, quotas, j)
<1>1. \A i \in DOMAIN q : /\ IsFiniteSet(Ahead(q, i))
                           /\ Cardinality(Ahead(q, i)) \in Nat
  BY DomainFinite, FS_CardinalityType DEF Ahead
<1>2. \A i \in DOMAIN q : Weight(quotas, q[i].tenant) \in Nat \ {0}
  <2>1. \A i \in DOMAIN q : q[i].tenant \in Tenants
    BY DEF QueuedWorkload
  <2>2. \A t \in Tenants : quotas[t].weight \in Int
    BY DEF TenantQuota
  <2> QED BY <2>1, <2>2 DEF Weight
<1>3. \A i \in DOMAIN q :
        Round(q, quotas, i) = Cardinality(Ahead(q, i)) \div Weight(quotas, q[i].tenant)
  BY DEF Round, Ahead
<1>4. ASSUME NEW i \in DOMAIN q, NEW j \in DOMAIN q,
             q[i].tenant = q[j].tenant, OrderQueued(q, i, j)
      PROVE  Cardinality(Ahead(q, i)) <= Cardinality(Ahead(q, j))
  <2>1. Ahead(q, i) \subseteq Ahead(q, j)
    BY <1>4, OrderIsTotal DEF Ahead
  <2> QED BY <1>1, <2>1, FS_Subset
<1> QED BY <1>1, <1>2, <1>3, <1>4, DivFacts

\* The order of the round robin is a strict total order on the places of a queue.
LEMMA RoundRobinIsTotal ==
  ASSUME NEW q \in Seq(QueuedWorkload), NEW quotas \in [Tenants -> TenantQuota]
  PROVE  /\ \A i, j \in DOMAIN q :
              i # j => \/ WeightedRoundRobinByTenant(q, quotas, i, j)
                       \/ WeightedRoundRobinByTenant(q, quotas, j, i)
         /\ \A i, j, k \in DOMAIN q :
              /\ WeightedRoundRobinByTenant(q, quotas, i, j)
              /\ WeightedRoundRobinByTenant(q, quotas, j, k)
              => WeightedRoundRobinByTenant(q, quotas, i, k)
<1> DEFINE r(i) == Round(q, quotas, i)
           t(i) == q[i].tenant
<1>1. \A i \in DOMAIN q : r(i) \in Nat /\ t(i) \in TenantsOf(q)
  BY RoundOfQueued DEF TenantsOf
<1>2. \A i, j : WeightedRoundRobinByTenant(q, quotas, i, j) <=>
        \/ r(i) < r(j)
        \/ r(i) = r(j) /\ TenantBefore(q, t(i), t(j))
        \/ r(i) = r(j) /\ t(i) = t(j) /\ OrderQueued(q, i, j)
  BY DEF WeightedRoundRobinByTenant
<1> HIDE DEF r, t
<1>3. ASSUME NEW i \in DOMAIN q, NEW j \in DOMAIN q, i # j
      PROVE  \/ WeightedRoundRobinByTenant(q, quotas, i, j)
             \/ WeightedRoundRobinByTenant(q, quotas, j, i)
  <2>1. r(i) < r(j) \/ r(j) < r(i) \/ r(i) = r(j)
    BY <1>1
  <2>2. t(i) = t(j) \/ TenantBefore(q, t(i), t(j)) \/ TenantBefore(q, t(j), t(i))
    BY <1>1, TenantBeforeIsOrder
  <2>3. OrderQueued(q, i, j) \/ OrderQueued(q, j, i)
    BY <1>3, OrderIsTotal
  <2> QED BY <1>2, <2>1, <2>2, <2>3
<1>4. ASSUME NEW i \in DOMAIN q, NEW j \in DOMAIN q, NEW k \in DOMAIN q,
             WeightedRoundRobinByTenant(q, quotas, i, j),
             WeightedRoundRobinByTenant(q, quotas, j, k)
      PROVE  WeightedRoundRobinByTenant(q, quotas, i, k)
  <2>1. CASE r(i) < r(j) \/ r(j) < r(k)
    <3>1. r(i) <= r(j) /\ r(j) <= r(k)
      BY <1>1, <1>2, <1>4
    <3> QED BY <1>1, <1>2, <2>1, <3>1
  <2>2. CASE ~(r(i) < r(j) \/ r(j) < r(k))
    <3>1. r(i) = r(k)
      BY <1>2, <1>4, <2>2
    <3>2. /\ TenantBefore(q, t(i), t(j)) \/ (t(i) = t(j) /\ OrderQueued(q, i, j))
          /\ TenantBefore(q, t(j), t(k)) \/ (t(j) = t(k) /\ OrderQueued(q, j, k))
      BY <1>2, <1>4, <2>2
    <3>3. \/ TenantBefore(q, t(i), t(k))
          \/ t(i) = t(k) /\ OrderQueued(q, i, k)
      BY <1>1, <3>2, TenantBeforeIsOrder, OrderIsTotal
    <3> QED BY <1>2, <3>1, <3>3
  <2> QED BY <2>1, <2>2
<1> QED BY <1>3, <1>4

\* So the place that the loop reaches first among some is well defined.
LEMMA RoundRobinHasFirst ==
  ASSUME NEW q \in Seq(QueuedWorkload), NEW I \in SUBSET (DOMAIN q), I # {},
         NEW quotas, quotas \in [Tenants -> TenantQuota]
  PROVE  \E i \in I : \A j \in I \ {i} : WeightedRoundRobinByTenant(q, quotas, i, j)
<1>1. PICK B : \A i, j \in I : <<i, j>> \in B <=> WeightedRoundRobinByTenant(q, quotas, i, j)
  <2> DEFINE B == {e \in I \X I : WeightedRoundRobinByTenant(q, quotas, e[1], e[2])}
  <2>1. \A i, j \in I : <<i, j>> \in B <=> WeightedRoundRobinByTenant(q, quotas, i, j)
    OBVIOUS
  <2> QED BY <2>1
<1>2. IsFiniteSet(I)
  BY DomainFinite
<1>3. \A x, y \in I : x # y => <<x, y>> \in B \/ <<y, x>> \in B
  BY <1>1, RoundRobinIsTotal
<1>4. \A x, y, z \in I : <<x, y>> \in B /\ <<y, z>> \in B => <<x, z>> \in B
  BY <1>1, RoundRobinIsTotal
<1>5. \E x \in I : \A y \in I \ {x} : <<x, y>> \in B
  BY ONLY I # {}, <1>2, <1>3, <1>4, FirstExists
<1> QED BY <1>1, <1>5

-----------------------------------------------------------------------------
(* What SelectOneForAdmission returns. *)

Open(in) == {i \in DOMAIN in.queued : /\ ~ExceedsTenantGPUCap(in.queued[i], in)
                                      /\ CompatibleProfileAndKind(in.queued[i], in.fleet)}

Fitting(in) == {i \in Open(in) : /\ FitsGPUCount(in.queued[i], in.fleet)
                                 /\ FitsPerDeviceMemory(in.queued[i], in.fleet)}

\* A workload that fits if there is one, and the first of those; otherwise one
\* for which there are victims.
LEMMA SelectionFacts ==
  ASSUME NEW P, NEW in \in SchedulingInputs(P)
  PROVE  LET c == SelectOneForAdmission(in)
         IN  /\ c.index # 0 => c.index \in Open(in)
             /\ c.index # 0 /\ c.victims = {} =>
                  /\ c.index \in Fitting(in)
                  /\ \A j \in Fitting(in) \ {c.index} :
                       WeightedRoundRobinByTenant(in.queued, in.quotas, c.index, j)
             /\ c.victims # {} =>
                  /\ c.index # 0
                  /\ c.victims = SelectPreemptionVictimsGreedyMinimal(in.queued[c.index], in)
             /\ Fitting(in) # {} => c.index # 0 /\ c.victims = {}
<1> DEFINE q == in.queued
           first(I) == CHOOSE i \in I : \A j \in I \ {i} :
                         WeightedRoundRobinByTenant(q, in.quotas, i, j)
           preempting == {i \in Open(in) : SelectPreemptionVictimsGreedyMinimal(q[i], in) # {}}
           f == first(Fitting(in))
           p == first(preempting)
<1>1. SelectOneForAdmission(in) =
        CASE Fitting(in) # {} -> [index |-> f, victims |-> {}]
          [] Fitting(in) = {} /\ preempting # {} ->
               [index |-> p, victims |-> SelectPreemptionVictimsGreedyMinimal(q[p], in)]
          [] OTHER -> [index |-> 0, victims |-> {}]
  BY DEF SelectOneForAdmission, Fitting, Open
<1>2. q \in Seq(QueuedWorkload) /\ in.quotas \in [Tenants -> TenantQuota]
  BY DEF SchedulingInputs
<1>3. \A i \in DOMAIN q : i # 0
  BY <1>2
<1>4. /\ Fitting(in) \subseteq Open(in) /\ preempting \subseteq Open(in)
      /\ Open(in) \subseteq DOMAIN q
  BY DEF Fitting, Open
<1>5. ASSUME NEW I \in SUBSET (DOMAIN q), I # {}
      PROVE  /\ first(I) \in I
             /\ \A j \in I \ {first(I)} : WeightedRoundRobinByTenant(q, in.quotas, first(I), j)
  <2>1. \E i \in I : \A j \in I \ {i} : WeightedRoundRobinByTenant(q, in.quotas, i, j)
    BY <1>2, <1>5, RoundRobinHasFirst
  <2> QED BY <2>1, Zenon
<1>6. Fitting(in) # {} =>
        /\ f \in Fitting(in)
        /\ \A j \in Fitting(in) \ {f} : WeightedRoundRobinByTenant(q, in.quotas, f, j)
  <2> HIDE DEF first, q
  <2> QED BY <1>4, <1>5
<1>7. preempting # {} => p \in preempting
  <2> HIDE DEF first, q, preempting
  <2> QED BY <1>4, <1>5
<1>8. preempting # {} =>
        p \in Open(in) /\ SelectPreemptionVictimsGreedyMinimal(q[p], in) # {}
  <2> HIDE DEF first, q, p
  <2> QED BY <1>7
<1> HIDE DEF first, f, p, preempting
<1>9. CASE Fitting(in) # {}
  <2>1. SelectOneForAdmission(in) = [index |-> f, victims |-> {}]
    BY <1>1, <1>9
  <2>2. f # 0 /\ f \in Open(in)
    BY <1>3, <1>4, <1>6, <1>9
  <2> QED BY <1>6, <1>9, <2>1, <2>2
<1>10. CASE Fitting(in) = {} /\ preempting # {}
  <2>1. SelectOneForAdmission(in) =
          [index |-> p, victims |-> SelectPreemptionVictimsGreedyMinimal(q[p], in)]
    BY <1>1, <1>10
  <2>2. p # 0 /\ p \in Open(in) /\ SelectPreemptionVictimsGreedyMinimal(q[p], in) # {}
    BY <1>3, <1>4, <1>8, <1>10
  <2> QED BY <1>10, <2>1, <2>2
<1>11. CASE Fitting(in) = {} /\ preempting = {}
  <2>1. SelectOneForAdmission(in) = [index |-> 0, victims |-> {}]
    BY <1>1, <1>11
  <2> QED BY <1>11, <2>1
<1> QED BY <1>9, <1>10, <1>11

-----------------------------------------------------------------------------
(* What a virtual admission does to the inputs. *)

\* The devices of w are taken from its profile, and nothing else changes.
Charged(new, old, w) ==
  /\ new[w.profile].freeDevices = old[w.profile].freeDevices - w.gpuCount
  /\ new[w.profile].memMiBPerDevice = old[w.profile].memMiBPerDevice
  /\ \A p \in DOMAIN old \ {w.profile} : new[p] = old[p]

LEMMA ApplyFacts ==
  ASSUME NEW P, NEW in \in SchedulingInputs(P), NEW w \in QueuedWorkload, w.profile \in P
  PROVE  LET r == ApplyVirtualAdmission(in, w, Now)
         IN  /\ r \in SchedulingInputs(P)
             /\ r.queued = RemoveFrom(in.queued, w)
             /\ r.scheduled = in.scheduled
             /\ r.running = Append(in.running, [w EXCEPT !.at = Now])
             /\ r.quotas = in.quotas
             /\ Charged(r.fleet, in.fleet, w)
<1> DEFINE cap == in.fleet[w.profile]
           mem == w.gpuCount * cap.memMiBPerDevice
           devicesLeft == cap.freeDevices - w.gpuCount
           memLeft == cap.freeMemMiB - mem
           cap2 == [cap EXCEPT !.freeDevices = devicesLeft, !.freeMemMiB = memLeft]
           fleet2 == [in.fleet EXCEPT ![w.profile] = cap2]
           w2 == [w EXCEPT !.at = Now]
           r == ApplyVirtualAdmission(in, w, Now)
           made == [queued |-> RemoveFrom(in.queued, w), scheduled |-> in.scheduled,
                    running |-> Append(in.running, w2), fleet |-> fleet2, quotas |-> in.quotas]
<1>1. /\ in.queued \in Seq(QueuedWorkload) /\ in.scheduled \in Seq(QueuedWorkload)
      /\ in.running \in Seq(QueuedWorkload) /\ in.quotas \in [Tenants -> TenantQuota]
      /\ in.fleet \in [P -> ProfileFreeCapacity] /\ w.gpuCount \in Int
  BY DEF SchedulingInputs, QueuedWorkload
<1>2. w2 \in QueuedWorkload
  BY CycleAssumption DEF QueuedWorkload
<1>3. cap \in ProfileFreeCapacity
  BY <1>1
<1>4. /\ cap2 \in ProfileFreeCapacity
      /\ cap2.freeDevices = cap.freeDevices - w.gpuCount
      /\ cap2.memMiBPerDevice = cap.memMiBPerDevice
  <2> HIDE DEF cap
  <2>1. mem \in Int
    BY <1>1, <1>3 DEF ProfileFreeCapacity
  <2> HIDE DEF mem
  <2>2. cap.freeDevices \in Int /\ cap.freeMemMiB \in Int
    BY <1>3 DEF ProfileFreeCapacity
  <2>3. devicesLeft \in Int /\ memLeft \in Int
    BY <1>1, <2>1, <2>2
  <2>4. /\ cap2 \in ProfileFreeCapacity
        /\ cap2.freeDevices = devicesLeft
        /\ cap2.memMiBPerDevice = cap.memMiBPerDevice
    <3> HIDE DEF devicesLeft, memLeft
    <3> QED BY <1>3, <2>3 DEF ProfileFreeCapacity
  <2> HIDE DEF cap2
  <2> QED BY <2>4
<1>5. r = made
  <2>1. r = [in EXCEPT !.queued = RemoveFrom(in.queued, w),
                       !.running = Append(in.running, w2), !.fleet[w.profile] = cap2]
    BY DEF ApplyVirtualAdmission
  <2> HIDE DEF cap2, w2, r
  <2> QED BY <2>1 DEF SchedulingInputs
<1>6. fleet2 \in [P -> ProfileFreeCapacity]
  <2> HIDE DEF cap2
  <2> QED BY <1>1, <1>4
<1>7. RemoveFrom(in.queued, w) \in Seq(QueuedWorkload)
  BY <1>1, RemoveFromFacts
<1>8. Append(in.running, w2) \in Seq(QueuedWorkload)
  <2> HIDE DEF w2
  <2> QED BY <1>1, <1>2
<1>9. \A p \in P : fleet2[p] = IF p = w.profile THEN cap2 ELSE in.fleet[p]
  <2> HIDE DEF cap2
  <2> QED BY <1>1
<1>10. made \in SchedulingInputs(P)
  <2> HIDE DEF fleet2, w2
  <2> QED BY <1>1, <1>6, <1>7, <1>8 DEF SchedulingInputs
<1>11. DOMAIN in.fleet = P
  BY <1>1
<1>12. Charged(fleet2, in.fleet, w)
  <2> HIDE DEF fleet2, cap2
  <2> QED BY <1>4, <1>9, <1>11 DEF Charged
<1> HIDE DEF r, fleet2
<1>13. /\ r.queued = RemoveFrom(in.queued, w) /\ r.scheduled = in.scheduled
       /\ r.running = Append(in.running, w2) /\ r.fleet = fleet2 /\ r.quotas = in.quotas
  BY <1>5
<1>14. r \in SchedulingInputs(P)
  <2> HIDE DEF made
  <2> QED BY <1>5, <1>10
<1> HIDE DEF made
<1> QED BY <1>12, <1>13, <1>14 DEF r

LEMMA ConcatAppend ==
  ASSUME NEW S, NEW s \in Seq(S), NEW r \in Seq(S), NEW e \in S
  PROVE  s \o Append(r, e) = Append(s \o r, e)
<1> DEFINE a == s \o Append(r, e)
           b == Append(s \o r, e)
<1>1. /\ Len(s) \in Nat /\ Len(r) \in Nat
      /\ a \in Seq(S) /\ b \in Seq(S)
      /\ Len(a) = Len(s) + Len(r) + 1 /\ Len(b) = Len(s) + Len(r) + 1
  OBVIOUS
<1>2. ASSUME NEW i \in 1 .. Len(s) + Len(r) + 1 PROVE a[i] = b[i]
  OBVIOUS
<1> HIDE DEF a, b
<1>3. DOMAIN a = 1 .. Len(a) /\ DOMAIN b = 1 .. Len(b)
  BY <1>1
<1>4. a = b
  BY <1>1, <1>2, <1>3
<1> QED BY <1>4 DEF a, b

\* The GPUs of one tenant in a sequence of workloads.
UseOf(s, t) == GPUs(s, {i \in DOMAIN s : s[i].tenant = t})

LEMMA UseOfAppend ==
  ASSUME NEW s \in Seq(QueuedWorkload), NEW e \in QueuedWorkload, NEW t
  PROVE  /\ UseOf(s, t) \in Int
         /\ UseOf(Append(s, e), t) = UseOf(s, t) + IF e.tenant = t THEN e.gpuCount ELSE 0
<1> DEFINE a == Append(s, e)
           of(x) == {i \in DOMAIN x : x[i].tenant = t}
           n == Len(s) + 1
<1>1. /\ a \in Seq(QueuedWorkload) /\ DOMAIN s \subseteq DOMAIN a /\ n \in DOMAIN a
      /\ n \notin DOMAIN s /\ DOMAIN a = DOMAIN s \cup {n}
      /\ a[n] = e /\ \A i \in DOMAIN s : a[i] = s[i]
  OBVIOUS
<1> HIDE DEF a, n
<1>2. of(a) = IF e.tenant = t THEN of(s) \cup {n} ELSE of(s)
  BY <1>1
<1>3. /\ IsFiniteSet(of(s)) /\ IsFiniteSet(of(a))
      /\ \A i \in DOMAIN s : s[i].gpuCount \in Int
      /\ \A i \in DOMAIN a : a[i].gpuCount \in Int
  BY <1>1, DomainFinite DEF QueuedWorkload
<1>4. GPUs(s, of(s)) = Total(Size(s), of(s)) /\ GPUs(a, of(a)) = Total(Size(a), of(a))
  BY <1>3, GPUsTotal
<1>5. \A i \in of(s) : Size(s)[i] \in Int /\ Size(a)[i] = Size(s)[i]
  BY <1>1, <1>3 DEF Size
<1>6. Size(a)[n] = e.gpuCount /\ e.gpuCount \in Int /\ n \notin of(s)
  BY <1>1, <1>3 DEF Size
<1> HIDE DEF of
<1>7. Total(Size(a), of(s)) = Total(Size(s), of(s)) /\ Total(Size(s), of(s)) \in Int
  BY <1>3, <1>5, TotalCongruence, TotalType
<1>8. Total(Size(a), of(s) \cup {n}) = Size(a)[n] + Total(Size(a), of(s))
  BY <1>3, <1>5, <1>6, TotalAdd
<1>9. GPUs(a, of(a)) = GPUs(s, of(s)) + IF e.tenant = t THEN e.gpuCount ELSE 0
  <2>1. CASE e.tenant = t
    <3>1. Total(Size(a), of(a)) = Total(Size(a), of(s) \cup {n})
      BY <1>2, <2>1
    <3> QED BY <1>4, <1>6, <1>7, <1>8, <2>1, <3>1
  <2>2. CASE e.tenant # t
    <3>1. Total(Size(a), of(a)) = Total(Size(a), of(s))
      BY <1>2, <2>2
    <3> QED BY <1>4, <1>7, <2>2, <3>1
  <2> QED BY <2>1, <2>2
<1> QED BY <1>4, <1>7, <1>9 DEF a, of, UseOf

LEMMA TenantUseAfter ==
  ASSUME NEW P, NEW in, in \in SchedulingInputs(P), NEW w, w \in QueuedWorkload,
         w.profile \in P, NEW t
  PROVE  /\ TenantGPUsUsed(in, t) \in Int
         /\ TenantGPUsUsed(ApplyVirtualAdmission(in, w, Now), t) =
              TenantGPUsUsed(in, t) + IF w.tenant = t THEN w.gpuCount ELSE 0
<1> DEFINE a == in.scheduled
           b == in.running
           e == [w EXCEPT !.at = Now]
           r == ApplyVirtualAdmission(in, w, Now)
<1>1. a \in Seq(QueuedWorkload) /\ b \in Seq(QueuedWorkload)
  BY DEF SchedulingInputs
<1>2. e \in QueuedWorkload /\ e.tenant = w.tenant /\ e.gpuCount = w.gpuCount
  BY CycleAssumption DEF QueuedWorkload
<1>3. r.scheduled = a /\ r.running = Append(b, e)
  BY ApplyFacts
<1>4. TenantGPUsUsed(in, t) = UseOf(a \o b, t)
  BY DEF TenantGPUsUsed, UseOf
<1>5. TenantGPUsUsed(r, t) = UseOf(r.scheduled \o r.running, t)
  BY DEF TenantGPUsUsed, UseOf
<1> HIDE DEF a, b, e, r
<1>6. a \o b \in Seq(QueuedWorkload)
  BY ONLY <1>1
<1>7. a \o Append(b, e) = Append(a \o b, e)
  BY ONLY <1>1, <1>2, ConcatAppend
<1>8. TenantGPUsUsed(r, t) = UseOf(Append(a \o b, e), t)
  BY ONLY <1>3, <1>5, <1>7
<1>9. /\ UseOf(a \o b, t) \in Int
      /\ UseOf(Append(a \o b, e), t) = UseOf(a \o b, t) + IF e.tenant = t THEN e.gpuCount ELSE 0
  BY ONLY <1>2, <1>6, UseOfAppend
<1> QED BY <1>2, <1>4, <1>8, <1>9 DEF r

LEMMA TenantUseType ==
  ASSUME NEW P, NEW in, in \in SchedulingInputs(P), NEW t
  PROVE  TenantGPUsUsed(in, t) \in Int
<1> DEFINE s == in.scheduled \o in.running
           I == {i \in DOMAIN s : s[i].tenant = t}
<1>1. in.scheduled \in Seq(QueuedWorkload) /\ in.running \in Seq(QueuedWorkload)
  BY DEF SchedulingInputs
<1>2. s \in Seq(QueuedWorkload)
  BY <1>1
<1>3. TenantGPUsUsed(in, t) = GPUs(s, I)
  BY DEF TenantGPUsUsed
<1> HIDE DEF s
<1>4. I \in SUBSET (DOMAIN s) /\ IsFiniteSet(I)
  BY <1>2, DomainFinite
<1>5. \A i \in I : s[i].gpuCount \in Int /\ Size(s)[i] = s[i].gpuCount
  BY <1>2 DEF QueuedWorkload, Size
<1> HIDE DEF I
<1> QED BY <1>3, <1>4, <1>5, GPUsTotal, TotalType

-----------------------------------------------------------------------------
(* A batch fits. *)

OfProfile(S, p) == {w \in S : w.profile = p}

OfTenant(S, t) == {w \in S : w.tenant = t}

FitsFleet(S, in) ==
  \A p \in DOMAIN in.fleet :
    OfProfile(S, p) # {} => SumOver(OfProfile(S, p)) <= in.fleet[p].freeDevices

FitsQuotas(S, in) ==
  \A t \in DOMAIN in.quotas :
    OfTenant(S, t) # {} /\ in.quotas[t].maxGPUs # 0 =>
      TenantGPUsUsed(in, t) + SumOver(OfTenant(S, t)) <= in.quotas[t].maxGPUs

\* wk is the snapshot in with the workloads of S accounted for.
Booked(S, in, wk) ==
  /\ wk.quotas = in.quotas
  /\ \A p \in DOMAIN in.fleet :
       /\ wk.fleet[p].freeDevices + SumOver(OfProfile(S, p)) = in.fleet[p].freeDevices
       /\ wk.fleet[p].memMiBPerDevice = in.fleet[p].memMiBPerDevice
  /\ \A t \in Tenants :
       TenantGPUsUsed(wk, t) = TenantGPUsUsed(in, t) + SumOver(OfTenant(S, t))

LEMMA OneMoreOfProfile ==
  ASSUME NEW S, S \subseteq QueuedWorkload, IsFiniteSet(S),
         NEW w, w \in QueuedWorkload, w \notin S, NEW p
  PROVE  /\ SumOver(OfProfile(S, p)) \in Int
         /\ SumOver(OfProfile(S \cup {w}, p)) =
              SumOver(OfProfile(S, p)) + IF w.profile = p THEN w.gpuCount ELSE 0
<1> DEFINE M == OfProfile(S, p)
<1>1. w.gpuCount \in Int /\ w \notin M /\ \A x \in M : x.gpuCount \in Int
  BY DEF QueuedWorkload, OfProfile
<1>2. IsFiniteSet(M)
  BY FS_Subset DEF OfProfile
<1>3. OfProfile(S \cup {w}, p) = IF w.profile = p THEN M \cup {w} ELSE M
  BY DEF OfProfile
<1> HIDE DEF M
<1>4. SumOver(M) \in Int /\ SumOver(M \cup {w}) = SumOver(M) + w.gpuCount
  BY <1>1, <1>2, SumOverAdd, SumOverType
<1> QED BY <1>1, <1>3, <1>4 DEF M

LEMMA OneMoreOfTenant ==
  ASSUME NEW S, S \subseteq QueuedWorkload, IsFiniteSet(S),
         NEW w, w \in QueuedWorkload, w \notin S, NEW t
  PROVE  /\ SumOver(OfTenant(S, t)) \in Int
         /\ SumOver(OfTenant(S \cup {w}, t)) =
              SumOver(OfTenant(S, t)) + IF w.tenant = t THEN w.gpuCount ELSE 0
<1> DEFINE M == OfTenant(S, t)
<1>1. w.gpuCount \in Int /\ w \notin M /\ \A x \in M : x.gpuCount \in Int
  BY DEF QueuedWorkload, OfTenant
<1>2. IsFiniteSet(M)
  BY FS_Subset DEF OfTenant
<1>3. OfTenant(S \cup {w}, t) = IF w.tenant = t THEN M \cup {w} ELSE M
  BY DEF OfTenant
<1> HIDE DEF M
<1>4. SumOver(M) \in Int /\ SumOver(M \cup {w}) = SumOver(M) + w.gpuCount
  BY <1>1, <1>2, SumOverAdd, SumOverType
<1> QED BY <1>1, <1>3, <1>4 DEF M

\* ApplyVirtualAdmission accounts for one more workload.
LEMMA BookOne ==
  ASSUME NEW P, NEW in, in \in SchedulingInputs(P), NEW wk, wk \in SchedulingInputs(P),
         NEW S, S \subseteq QueuedWorkload, IsFiniteSet(S),
         NEW w, w \in QueuedWorkload, w \notin S, w.profile \in P, Booked(S, in, wk)
  PROVE  Booked(S \cup {w}, in, ApplyVirtualAdmission(wk, w, Now))
<1> DEFINE r == ApplyVirtualAdmission(wk, w, Now)
<1>1. DOMAIN in.fleet = P /\ \A p \in P : wk.fleet[p].freeDevices \in Int
  BY DEF SchedulingInputs, ProfileFreeCapacity
<1>2. w.gpuCount \in Int
  BY DEF QueuedWorkload
<1>3. r.quotas = wk.quotas
  BY ApplyFacts
<1>4. ASSUME NEW p \in P
      PROVE  /\ r.fleet[p].freeDevices =
                  wk.fleet[p].freeDevices - (IF p = w.profile THEN w.gpuCount ELSE 0)
             /\ r.fleet[p].memMiBPerDevice = wk.fleet[p].memMiBPerDevice
  <2>1. Charged(r.fleet, wk.fleet, w)
    BY ApplyFacts
  <2>2. DOMAIN wk.fleet = P
    BY DEF SchedulingInputs
  <2> HIDE DEF r
  <2> QED BY <1>1, <2>1, <2>2 DEF Charged
<1>5. \A t : /\ TenantGPUsUsed(wk, t) \in Int /\ TenantGPUsUsed(in, t) \in Int
             /\ TenantGPUsUsed(r, t) =
                  TenantGPUsUsed(wk, t) + IF w.tenant = t THEN w.gpuCount ELSE 0
  BY TenantUseAfter
<1> HIDE DEF r
<1>6. ASSUME NEW p \in P
      PROVE  r.fleet[p].freeDevices + SumOver(OfProfile(S \cup {w}, p)) = in.fleet[p].freeDevices
  <2>1. wk.fleet[p].freeDevices + SumOver(OfProfile(S, p)) = in.fleet[p].freeDevices
    BY <1>1 DEF Booked
  <2>2. /\ SumOver(OfProfile(S, p)) \in Int
        /\ SumOver(OfProfile(S \cup {w}, p)) =
             SumOver(OfProfile(S, p)) + IF w.profile = p THEN w.gpuCount ELSE 0
    BY OneMoreOfProfile
  <2> QED BY <1>1, <1>2, <1>4, <2>1, <2>2
<1>7. ASSUME NEW t \in Tenants
      PROVE  TenantGPUsUsed(r, t) = TenantGPUsUsed(in, t) + SumOver(OfTenant(S \cup {w}, t))
  <2>1. TenantGPUsUsed(wk, t) = TenantGPUsUsed(in, t) + SumOver(OfTenant(S, t))
    BY DEF Booked
  <2>2. /\ SumOver(OfTenant(S, t)) \in Int
        /\ SumOver(OfTenant(S \cup {w}, t)) =
             SumOver(OfTenant(S, t)) + IF w.tenant = t THEN w.gpuCount ELSE 0
    BY OneMoreOfTenant
  <2> QED BY <1>2, <1>5, <2>1, <2>2
<1>8. \A p \in P : r.fleet[p].memMiBPerDevice = in.fleet[p].memMiBPerDevice
  BY <1>1, <1>4 DEF Booked
<1> QED BY <1>1, <1>3, <1>6, <1>7, <1>8 DEF Booked, r

\* One more workload that fits the accounts fits the snapshot with the others.
LEMMA FitsOne ==
  ASSUME NEW P, NEW in, in \in SchedulingInputs(P), NEW wk, wk \in SchedulingInputs(P),
         NEW S, S \subseteq QueuedWorkload, IsFiniteSet(S),
         NEW w, w \in QueuedWorkload, w \notin S, w.profile \in P, Booked(S, in, wk)
  PROVE  /\ FitsFleet(S, in) /\ FitsGPUCount(w, wk.fleet) => FitsFleet(S \cup {w}, in)
         /\ FitsQuotas(S, in) /\ ~ExceedsTenantGPUCap(w, wk) => FitsQuotas(S \cup {w}, in)
<1>1. /\ DOMAIN in.fleet = P /\ DOMAIN in.quotas = Tenants
      /\ \A p \in P : wk.fleet[p].freeDevices \in Int /\ in.fleet[p].freeDevices \in Int
      /\ \A t \in Tenants : in.quotas[t].maxGPUs \in Int
  BY DEF SchedulingInputs, ProfileFreeCapacity, TenantQuota
<1>2. w.gpuCount \in Int /\ w.tenant \in Tenants
  BY DEF QueuedWorkload
<1>3. \A t : TenantGPUsUsed(wk, t) \in Int /\ TenantGPUsUsed(in, t) \in Int
  BY TenantUseAfter
<1>4. ASSUME FitsFleet(S, in), FitsGPUCount(w, wk.fleet) PROVE FitsFleet(S \cup {w}, in)
  <2> SUFFICES ASSUME NEW p \in P, OfProfile(S \cup {w}, p) # {}
               PROVE  SumOver(OfProfile(S \cup {w}, p)) <= in.fleet[p].freeDevices
    BY <1>1 DEF FitsFleet
  <2>1. CASE p = w.profile
    <3>1. wk.fleet[p].freeDevices >= w.gpuCount
      BY <1>4, <2>1 DEF FitsGPUCount
    <3>2. wk.fleet[p].freeDevices + SumOver(OfProfile(S, p)) = in.fleet[p].freeDevices
      BY <1>1 DEF Booked
    <3>3. /\ SumOver(OfProfile(S, p)) \in Int
          /\ SumOver(OfProfile(S \cup {w}, p)) = SumOver(OfProfile(S, p)) + w.gpuCount
      BY <2>1, OneMoreOfProfile
    <3> QED BY <1>1, <1>2, <3>1, <3>2, <3>3
  <2>2. CASE p # w.profile
    <3>1. OfProfile(S \cup {w}, p) = OfProfile(S, p)
      BY <2>2 DEF OfProfile
    <3> QED BY <1>1, <1>4, <3>1 DEF FitsFleet
  <2> QED BY <2>1, <2>2
<1>5. ASSUME FitsQuotas(S, in), ~ExceedsTenantGPUCap(w, wk) PROVE FitsQuotas(S \cup {w}, in)
  <2> SUFFICES ASSUME NEW t \in Tenants, OfTenant(S \cup {w}, t) # {}, in.quotas[t].maxGPUs # 0
               PROVE  TenantGPUsUsed(in, t) + SumOver(OfTenant(S \cup {w}, t))
                        <= in.quotas[t].maxGPUs
    BY <1>1 DEF FitsQuotas
  <2>1. CASE t = w.tenant
    <3>1. TenantGPUsUsed(wk, t) + w.gpuCount <= in.quotas[t].maxGPUs
      BY <1>1, <1>2, <1>3, <1>5, <2>1 DEF ExceedsTenantGPUCap, Booked
    <3>2. TenantGPUsUsed(wk, t) = TenantGPUsUsed(in, t) + SumOver(OfTenant(S, t))
      BY DEF Booked
    <3>3. /\ SumOver(OfTenant(S, t)) \in Int
          /\ SumOver(OfTenant(S \cup {w}, t)) = SumOver(OfTenant(S, t)) + w.gpuCount
      BY <2>1, OneMoreOfTenant
    <3> QED BY <1>1, <1>2, <1>3, <3>1, <3>2, <3>3
  <2>2. CASE t # w.tenant
    <3>1. OfTenant(S \cup {w}, t) = OfTenant(S, t)
      BY <2>2 DEF OfTenant
    <3> QED BY <1>1, <1>5, <3>1 DEF FitsQuotas
  <2> QED BY <2>1, <2>2
<1> QED BY <1>4, <1>5

\* No two workloads have the same ID, and all of them want GPUs.
Distinct(wk) ==
  /\ \A i, j \in DOMAIN wk.running : wk.running[i].id = wk.running[j].id => i = j
  /\ \A i \in DOMAIN wk.running, x \in Range(wk.queued) : wk.running[i].id # x.id
  /\ \A i \in DOMAIN wk.running : wk.running[i].gpuCount > 0
  /\ \A x \in Range(wk.queued) : x.gpuCount > 0
  /\ \A x, y \in Range(wk.queued) : x.id = y.id => x = y

LEMMA ValidDistinct ==
  ASSUME NEW P, NEW in, in \in SchedulingInputs(P), Validate(in)
  PROVE  Distinct(in)
<1> DEFINE q == in.queued
           s == in.scheduled
           r == in.running
           all == q \o s \o r
           n == Len(q)
           m == Len(q) + Len(s)
<1>1. /\ q \in Seq(QueuedWorkload) /\ s \in Seq(QueuedWorkload) /\ r \in Seq(QueuedWorkload)
  BY DEF SchedulingInputs
<1>2. /\ \A i \in DOMAIN all : all[i].wellFormed
      /\ \A i, j \in DOMAIN all : all[i].id = all[j].id => i = j
  BY DEF Validate
<1> HIDE DEF q, s, r
<1>3. /\ DOMAIN q = 1 .. n /\ DOMAIN r = 1 .. Len(r) /\ n \in Nat /\ m \in Nat /\ n <= m
      /\ \A i \in DOMAIN q : i \in DOMAIN all /\ all[i] = q[i]
      /\ \A i \in DOMAIN r : m + i \in DOMAIN all /\ all[m + i] = r[i]
  BY ONLY <1>1
<1> HIDE DEF all, n, m
<1>4. /\ \A i \in DOMAIN q : q[i] \in QueuedWorkload /\ q[i].wellFormed
      /\ \A i \in DOMAIN r : r[i] \in QueuedWorkload /\ r[i].wellFormed
  BY <1>1, <1>2, <1>3
<1>5. /\ \A i \in DOMAIN q : q[i].gpuCount > 0
      /\ \A i \in DOMAIN r : r[i].gpuCount > 0
  BY <1>4 DEF QueuedWorkload
<1>6. ASSUME NEW i \in DOMAIN r, NEW j \in DOMAIN r, r[i].id = r[j].id PROVE i = j
  <2>1. m + i = m + j
    BY <1>2, <1>3, <1>6
  <2> QED BY <1>3, <2>1
<1>7. ASSUME NEW i \in DOMAIN r, NEW j \in DOMAIN q, r[i].id = q[j].id PROVE FALSE
  <2>1. m + i = j
    BY <1>2, <1>3, <1>7
  <2> QED BY <1>3, <2>1
<1>8. ASSUME NEW i \in DOMAIN q, NEW j \in DOMAIN q, q[i].id = q[j].id PROVE q[i] = q[j]
  BY <1>2, <1>3, <1>8
<1> QED BY <1>5, <1>6, <1>7, <1>8 DEF Distinct, Range, q, r

LEMMA DistinctAfter ==
  ASSUME NEW P, NEW wk, wk \in SchedulingInputs(P), NEW w, w \in Range(wk.queued),
         w.profile \in P, Distinct(wk)
  PROVE  Distinct(ApplyVirtualAdmission(wk, w, Now))
<1> DEFINE r == ApplyVirtualAdmission(wk, w, Now)
           e == [w EXCEPT !.at = Now]
           n == Len(wk.running) + 1
<1>1. wk.queued \in Seq(QueuedWorkload) /\ wk.running \in Seq(QueuedWorkload)
  BY DEF SchedulingInputs
<1>2. w \in QueuedWorkload
  BY <1>1 DEF Range
<1>3. e \in QueuedWorkload /\ e.id = w.id /\ e.gpuCount = w.gpuCount
  BY <1>2, CycleAssumption DEF QueuedWorkload
<1>4. r.running = Append(wk.running, e) /\ r.queued = RemoveFrom(wk.queued, w)
  BY <1>2, ApplyFacts
<1>5. Range(r.queued) = {x \in Range(wk.queued) : x.id # w.id}
  <2>1. Range(RemoveFrom(wk.queued, w)) = Without(Range(wk.queued), w)
    BY <1>1, RemoveFromFacts
  <2> HIDE DEF r
  <2> QED BY <1>4, <2>1 DEF Without
<1> HIDE DEF r, e
<1>6. /\ DOMAIN r.running = DOMAIN wk.running \cup {n} /\ n \notin DOMAIN wk.running
      /\ \A i \in DOMAIN wk.running : r.running[i] = wk.running[i]
      /\ r.running[n] = e
  <2> DEFINE s == wk.running
  <2> HIDE DEF s
  <2>1. s \in Seq(QueuedWorkload) => LET a == Append(s, e)
                                          k == Len(s) + 1
        IN /\ DOMAIN a = DOMAIN s \cup {k} /\ k \notin DOMAIN s
           /\ \A i \in DOMAIN s : a[i] = s[i]
           /\ a[k] = e
    BY ONLY <1>3
  <2> QED BY <1>1, <1>4, <2>1 DEF s
<1>7. w.gpuCount > 0
  BY DEF Distinct
<1> HIDE DEF n
<1>8. /\ \A i, j \in DOMAIN r.running : r.running[i].id = r.running[j].id => i = j
      /\ \A i \in DOMAIN r.running, x \in Range(r.queued) : r.running[i].id # x.id
      /\ \A i \in DOMAIN r.running : r.running[i].gpuCount > 0
  BY <1>3, <1>5, <1>6, <1>7 DEF Distinct
<1>9. \A x \in Range(r.queued) : x.gpuCount > 0
  BY <1>5 DEF Distinct
<1>10. \A x, y \in Range(r.queued) : x.id = y.id => x = y
  BY <1>5 DEF Distinct
<1> QED BY <1>8, <1>9, <1>10 DEF Distinct, r

Remaining(Q, A) == {x \in Q : \A y \in A : x.id # y.id}

\* In the loop, working is the snapshot with the admissions of the cycle accounted
\* for, and its queue is what they left of the snapshot's.
CycleInv ==
  /\ inputs \in SchedulingInputs(DOMAIN inputs.fleet)
  /\ admitted \in Seq(QueuedWorkload)
  /\ Range(admitted) \subseteq Range(inputs.queued)
  /\ FitsQuotas(Range(admitted), inputs)
  /\ victims = {} => FitsFleet(Range(admitted), inputs)
  /\ pc = "select" =>
       /\ victims = {}
       /\ working \in SchedulingInputs(DOMAIN inputs.fleet)
       /\ Distinct(inputs) /\ Distinct(working)
       /\ Booked(Range(admitted), inputs, working)
       /\ Range(working.queued) = Remaining(Range(inputs.queued), Range(admitted))

LEMMA CycleInit == Init => CycleInv
<1> SUFFICES ASSUME Init PROVE CycleInv
  OBVIOUS
<1>1. inputs \in SchedulingInputs(DOMAIN inputs.fleet)
  <2>1. PICK P \in SUBSET Profiles : inputs \in SchedulingInputs(P)
    BY CycleAssumption DEF Init
  <2>2. DOMAIN inputs.fleet = P
    BY <2>1 DEF SchedulingInputs
  <2> QED BY <2>1, <2>2
<1>2. admitted \in Seq(QueuedWorkload) /\ Range(admitted) = {}
  BY DEF Init, Range
<1>3. \A p : OfProfile({}, p) = {} /\ OfTenant({}, p) = {}
  BY DEF OfProfile, OfTenant
<1>4. FitsQuotas({}, inputs) /\ FitsFleet({}, inputs)
  BY <1>3 DEF FitsQuotas, FitsFleet
<1>5. Booked({}, inputs, inputs)
  <2>1. \A p \in DOMAIN inputs.fleet : inputs.fleet[p].freeDevices \in Int
    BY <1>1 DEF SchedulingInputs, ProfileFreeCapacity
  <2>2. \A t \in Tenants : TenantGPUsUsed(inputs, t) \in Int
    BY <1>1, TenantUseType
  <2>3. \A p : SumOver(OfProfile({}, p)) = 0 /\ SumOver(OfTenant({}, p)) = 0
    BY <1>3, SumOverEmpty, Zenon
  <2> QED BY <2>1, <2>2, <2>3 DEF Booked
<1>6. pc = "select" => Distinct(inputs)
  BY <1>1, ValidDistinct DEF Init
<1>7. Remaining(Range(inputs.queued), {}) = Range(inputs.queued)
  BY DEF Remaining
<1> QED BY <1>1, <1>2, <1>4, <1>5, <1>6, <1>7 DEF Init, CycleInv

\* The workload that SelectOneForAdmission returns.
LEMMA ChosenFacts ==
  ASSUME CycleInv, pc = "select", choice.index # 0
  PROVE  /\ choice.index \in DOMAIN working.queued
         /\ chosen \in Range(working.queued) /\ chosen \in QueuedWorkload
         /\ chosen.profile \in DOMAIN inputs.fleet
         /\ ~ExceedsTenantGPUCap(chosen, working)
         /\ choice.victims = {} => FitsGPUCount(chosen, working.fleet)
<1>1. working \in SchedulingInputs(DOMAIN inputs.fleet)
  BY DEF CycleInv
<1>2. choice.index \in Open(working) /\ (choice.victims = {} => choice.index \in Fitting(working))
  BY <1>1, SelectionFacts DEF choice
<1>3. working.queued \in Seq(QueuedWorkload) /\ DOMAIN working.fleet = DOMAIN inputs.fleet
  BY <1>1 DEF SchedulingInputs
<1>4. choice.index \in DOMAIN working.queued
  BY <1>2 DEF Open
<1> QED BY <1>2, <1>3, <1>4 DEF chosen, Open, Fitting, CompatibleProfileAndKind, Range

\* GreedyOrder puts no place before itself, so a victim has fewer victims before
\* it than there are.
LEMMA AllVictims ==
  ASSUME working.running \in Seq(QueuedWorkload), choice.victims \subseteq DOMAIN working.running
  PROVE  FirstVictims(Cardinality(choice.victims)) = {working.running[i] : i \in choice.victims}
<1> DEFINE V == choice.victims
           before(j) == {h \in V : GreedyOrder(working.running, h, j)}
<1>1. IsFiniteSet(V)
  BY DomainFinite
<1>2. ASSUME NEW j \in V PROVE Cardinality(before(j)) < Cardinality(V)
  <2>1. working.running[j].gpuCount \in Int /\ working.running[j].at \in Int
        /\ working.running[j].priority \in Int /\ j \in Int
    BY DEF QueuedWorkload
  <2>2. ~GreedyOrder(working.running, j, j)
    BY <2>1 DEF GreedyOrder, VictimOrder
  <2>3. before(j) \subseteq V /\ before(j) # V
    BY <2>2
  <2> HIDE DEF before
  <2>4. /\ Cardinality(before(j)) <= Cardinality(V)
        /\ Cardinality(before(j)) = Cardinality(V) => before(j) = V
        /\ Cardinality(before(j)) \in Nat /\ Cardinality(V) \in Nat
    BY <1>1, <2>3, FS_Subset, FS_CardinalityType
  <2> QED BY <2>3, <2>4
<1>3. {j \in V : Cardinality(before(j)) < Cardinality(V)} = V
  BY <1>2
<1>4. FirstVictims(Cardinality(V)) =
        {working.running[i] : i \in {j \in V : Cardinality(before(j)) < Cardinality(V)}}
  BY DEF FirstVictims
<1> HIDE DEF before
<1> QED BY <1>3, <1>4, Zenon

\* The victims are places among the running workloads.
LEMMA VictimsRun ==
  ASSUME NEW P, NEW in, in \in SchedulingInputs(P)
  PROVE  SelectOneForAdmission(in).victims \subseteq DOMAIN in.running
<1> DEFINE c == SelectOneForAdmission(in)
<1>1. CASE c.victims # {}
  <2>1. c.victims = SelectPreemptionVictimsGreedyMinimal(in.queued[c.index], in)
    BY <1>1, SelectionFacts
  <2>2. ASSUME NEW w PROVE SelectPreemptionVictimsGreedyMinimal(w, in) \subseteq DOMAIN in.running
    BY DEF SelectPreemptionVictimsGreedyMinimal, PickUntilFreed, candidates
  <2> QED BY <2>1, <2>2
<1> QED BY <1>1

LEMMA CycleAdmit == ASSUME CycleInv, Admit PROVE CycleInv'
<1> DEFINE P == DOMAIN inputs.fleet
           A == Range(admitted)
           w == chosen
<1>1. /\ pc = "select" /\ choice.index # 0 /\ inputs' = inputs
      /\ admitted' = Append(admitted, w)
      /\ victims' = victims \cup FirstVictims(Cardinality(choice.victims))
  BY DEF Admit
<1>2. /\ inputs \in SchedulingInputs(P) /\ working \in SchedulingInputs(P)
      /\ admitted \in Seq(QueuedWorkload)
      /\ A \subseteq Range(inputs.queued) /\ FitsQuotas(A, inputs) /\ FitsFleet(A, inputs)
      /\ victims = {} /\ Distinct(inputs) /\ Distinct(working)
      /\ Booked(A, inputs, working)
      /\ Range(working.queued) = Remaining(Range(inputs.queued), A)
  BY <1>1 DEF CycleInv
<1>3. /\ w \in Range(working.queued) /\ w \in QueuedWorkload /\ w.profile \in P
      /\ ~ExceedsTenantGPUCap(w, working)
      /\ choice.victims = {} => FitsGPUCount(w, working.fleet)
  BY <1>1, ChosenFacts
<1> HIDE DEF P, w
<1>4. w \notin A /\ w \in Range(inputs.queued)
  BY <1>2, <1>3 DEF Remaining
<1>5. A \subseteq QueuedWorkload /\ IsFiniteSet(A)
  BY <1>2, RangeFinite
<1>6. admitted' \in Seq(QueuedWorkload) /\ Range(admitted') = A \cup {w}
  BY <1>1, <1>2, <1>3, AppendRange
<1>7. FitsQuotas(A \cup {w}, inputs)
  BY <1>2, <1>3, <1>4, <1>5, FitsOne
<1>8. victims' = {} => FitsFleet(A \cup {w}, inputs)
  <2> SUFFICES ASSUME victims' = {} PROVE FitsFleet(A \cup {w}, inputs)
    OBVIOUS
  <2>1. working.running \in Seq(QueuedWorkload)
    BY <1>2 DEF SchedulingInputs
  <2>2. choice.victims \subseteq DOMAIN working.running
    BY <1>2, VictimsRun DEF choice
  <2>3. {working.running[i] : i \in choice.victims} = {}
    BY <1>1, <2>1, <2>2, AllVictims
  <2>4. choice.victims = {}
    BY <2>3
  <2> QED BY <1>2, <1>3, <1>4, <1>5, <2>4, FitsOne
<1>9. ASSUME pc' = "select"
      PROVE  /\ victims' = {} /\ working' \in SchedulingInputs(P) /\ Distinct(working')
             /\ Booked(A \cup {w}, inputs, working')
             /\ Range(working'.queued) = Remaining(Range(inputs.queued), A \cup {w})
  <2>1. working' = ApplyVirtualAdmission(working, w, Now)
    BY <1>9 DEF Admit, w
  <2>2. victims' = {}
    BY <1>2, <1>9, AdmitEnds
  <2>3. working' \in SchedulingInputs(P) /\ working'.queued = RemoveFrom(working.queued, w)
    BY <1>2, <1>3, <2>1, ApplyFacts
  <2>4. Distinct(working')
    BY <1>2, <1>3, <2>1, DistinctAfter
  <2>5. Booked(A \cup {w}, inputs, working')
    BY <1>2, <1>3, <1>4, <1>5, <2>1, BookOne
  <2>6. Range(working'.queued) = Without(Range(working.queued), w)
    <3>1. working.queued \in Seq(QueuedWorkload)
      BY <1>2 DEF SchedulingInputs
    <3>2. Range(RemoveFrom(working.queued, w)) = Without(Range(working.queued), w)
      BY <3>1, RemoveFromFacts
    <3> QED BY <2>3, <3>2
  <2>7. Range(working'.queued) = Remaining(Range(inputs.queued), A \cup {w})
    BY <1>2, <2>6 DEF Without, Remaining
  <2> QED BY <2>2, <2>3, <2>4, <2>5, <2>7
<1>10. Range(admitted') \subseteq Range(inputs.queued)
  BY <1>2, <1>4, <1>6
<1> QED BY <1>1, <1>2, <1>6, <1>7, <1>8, <1>9, <1>10 DEF CycleInv, P

LEMMA CycleStep == CycleInv /\ [Next]_vars => CycleInv'
<1> SUFFICES ASSUME CycleInv, [Next]_vars PROVE CycleInv'
  OBVIOUS
<1>1. CASE Admit
  BY <1>1, CycleAdmit
<1>2. ASSUME NoCandidate \/ PreemptFails \/ PatchFails PROVE CycleInv'
  <2>1. pc' # "select" /\ UNCHANGED <<inputs, admitted>> /\ (victims' = {} => victims = {})
    BY <1>2 DEF NoCandidate, PreemptFails, PatchFails
  <2> QED BY <2>1 DEF CycleInv
<1>3. CASE UNCHANGED vars
  BY <1>3 DEF vars, CycleInv
<1> QED BY <1>1, <1>2, <1>3 DEF Next

\* What a cycle admits fits, all together, for any snapshot, any number of tenants
\* and profiles and any limit on the admissions: without preemption into the free
\* devices of the snapshot, and never over a tenant's MaxGPUs (inputs.go:282-324,
\* selection.go:33, fairness.go:18-25).
THEOREM BatchAlwaysFits == Spec => []BatchFits
<1>1. CycleInv => BatchFits
  <2> SUFFICES ASSUME CycleInv PROVE BatchFits
    OBVIOUS
  <2>1. AdmittedOnes = Range(admitted)
    BY DEF AdmittedOnes, Range
  <2> QED BY <2>1, Zenon DEF CycleInv, BatchFits, FitsFleet, FitsQuotas, OfProfile, OfTenant
<1> QED BY <1>1, CycleInit, CycleStep, PTL DEF Spec

-----------------------------------------------------------------------------
(* Nobody is overtaken within a tenant. *)

\* In the round robin a tenant's workloads keep their order.
LEMMA RoundRobinKeepsOrder ==
  ASSUME NEW q \in Seq(QueuedWorkload), NEW quotas, quotas \in [Tenants -> TenantQuota],
         NEW i \in DOMAIN q, NEW j \in DOMAIN q, q[i].tenant = q[j].tenant,
         OrderQueued(q, i, j)
  PROVE  ~WeightedRoundRobinByTenant(q, quotas, j, i)
<1>1. Round(q, quotas, i) \in Nat /\ Round(q, quotas, j) \in Nat
      /\ Round(q, quotas, i) <= Round(q, quotas, j)
  BY RoundOfQueued
<1>2. ~TenantBefore(q, q[j].tenant, q[i].tenant)
  BY TenantBeforeIsOrder DEF TenantsOf
<1>3. ~OrderQueued(q, j, i)
  BY OrderIsTotal
<1> QED BY <1>1, <1>2, <1>3 DEF WeightedRoundRobinByTenant

\* Nobody is overtaken by a workload of the same tenant that has lower priority
\* or was queued later, if it fits as well, whatever the weights of the tenants
\* and whatever the cycle admitted before (ordering.go, selection.go:39-57).
THEOREM NobodyIsOvertaken == Spec => NoOvertakingWithinTenant
<1> DEFINE q == working.queued
           overtaken(i) ==
             /\ q[i].tenant = chosen.tenant
             /\ \/ q[i].priority > chosen.priority
                \/ q[i].priority = chosen.priority /\ q[i].at < chosen.at
             /\ q[i].gpuCount <= chosen.gpuCount
             /\ q[i].memMiB <= chosen.memMiB
             /\ q[i].profile = chosen.profile
<1>1. ASSUME CycleInv, Admit, choice.victims = {}, NEW i \in DOMAIN q, overtaken(i)
      PROVE  FALSE
  <2> DEFINE c == choice.index
             P == DOMAIN inputs.fleet
  <2>1. c # 0 /\ pc = "select"
    BY <1>1 DEF Admit
  <2>2. working \in SchedulingInputs(P)
    BY <1>1, <2>1 DEF CycleInv
  <2>3. q \in Seq(QueuedWorkload) /\ working.quotas \in [Tenants -> TenantQuota]
        /\ working.fleet \in [P -> ProfileFreeCapacity]
    BY <2>2 DEF SchedulingInputs
  <2>4. /\ c \in Fitting(working)
        /\ \A j \in Fitting(working) \ {c} :
             WeightedRoundRobinByTenant(q, working.quotas, c, j)
    BY <1>1, <2>1, <2>2, SelectionFacts DEF choice
  <2>5. c \in DOMAIN q /\ chosen = q[c]
    BY <2>4 DEF Fitting, Open, chosen
  <2>a. q[i] \in QueuedWorkload /\ q[c] \in QueuedWorkload
    BY <2>3, <2>5
  <2>b. \A x \in QueuedWorkload : x.gpuCount \in Int /\ x.memMiB \in Int /\ x.tenant \in Tenants
    BY DEF QueuedWorkload
  <2>6. OrderQueued(q, i, c) /\ i # c
    <3>1. OrderQueued(q, i, c)
      BY <1>1, <2>5 DEF OrderQueued
    <3> QED BY <2>3, <2>5, <3>1, OrderIsTotal
  <2>7. ~ExceedsTenantGPUCap(q[i], working)
    <3>1. q[i].tenant = q[c].tenant /\ q[i].gpuCount <= q[c].gpuCount
      BY <1>1, <2>5
    <3>2. q[i].gpuCount \in Int /\ q[c].gpuCount \in Int /\ q[c].tenant \in Tenants
      BY <2>a, <2>b
    <3>3. TenantGPUsUsed(working, q[c].tenant) \in Int
      BY <2>2, TenantUseType
    <3>4. working.quotas[q[c].tenant].maxGPUs \in Int
      BY <2>3, <3>2 DEF TenantQuota
    <3>5. ~ExceedsTenantGPUCap(q[c], working)
      BY <2>4 DEF Fitting, Open
    <3> HIDE DEF c, q
    <3> QED BY <3>1, <3>2, <3>3, <3>4, <3>5 DEF ExceedsTenantGPUCap
  <2>8. CompatibleProfileAndKind(q[i], working.fleet)
    BY <1>1, <2>4, <2>5 DEF Fitting, Open, CompatibleProfileAndKind
  <2>9. FitsGPUCount(q[i], working.fleet) /\ FitsPerDeviceMemory(q[i], working.fleet)
    <3>1. /\ q[i].profile = q[c].profile /\ q[i].gpuCount <= q[c].gpuCount
          /\ q[i].memMiB <= q[c].memMiB
      BY <1>1, <2>5
    <3>2. /\ q[i].gpuCount \in Int /\ q[c].gpuCount \in Int
          /\ q[i].memMiB \in Int /\ q[c].memMiB \in Int
      BY <2>a, <2>b
    <3>3. q[c].profile \in P
      BY <2>3, <2>4 DEF Fitting, Open, CompatibleProfileAndKind
    <3>4. /\ working.fleet[q[c].profile].freeDevices \in Int
          /\ working.fleet[q[c].profile].memMiBPerDevice \in Int
      BY <2>3, <3>3 DEF ProfileFreeCapacity
    <3>5. FitsGPUCount(q[c], working.fleet) /\ FitsPerDeviceMemory(q[c], working.fleet)
      BY <2>4 DEF Fitting
    <3> HIDE DEF c, q
    <3> QED BY <3>1, <3>2, <3>4, <3>5 DEF FitsGPUCount, FitsPerDeviceMemory
  <2>10. i \in Fitting(working)
    BY <2>7, <2>8, <2>9 DEF Fitting, Open
  <2>11. WeightedRoundRobinByTenant(q, working.quotas, c, i)
    BY <2>4, <2>6, <2>10
  <2>12. q[i].tenant = q[c].tenant
    BY <1>1, <2>5
  <2> HIDE DEF q, c
  <2> QED BY <2>3, <2>5, <2>6, <2>11, <2>12, RoundRobinKeepsOrder
<1>2. ASSUME CycleInv, Admit, choice.victims = {} PROVE ~\E i \in DOMAIN q : overtaken(i)
  <2> HIDE DEF overtaken
  <2> QED BY <1>1, <1>2
<1>3. CycleInv => [Admit /\ choice.victims = {} => ~\E i \in DOMAIN q : overtaken(i)]_vars
  <2> HIDE DEF overtaken
  <2> QED BY <1>2
<1>4. [][Admit /\ choice.victims = {} => ~\E i \in DOMAIN q : overtaken(i)]_vars
        => NoOvertakingWithinTenant
  BY DEF NoOvertakingWithinTenant
<1> HIDE DEF overtaken
<1> QED BY <1>3, <1>4, CycleInit, CycleStep, PTL DEF Spec

-----------------------------------------------------------------------------
(* Urgency decides alone where there is room for all. *)

\* The first place of the round robin is the first one of the ordered queue.
LEMMA RoundRobinStartsWithUrgent ==
  ASSUME NEW q \in Seq(QueuedWorkload), NEW quotas, quotas \in [Tenants -> TenantQuota],
         NEW c \in DOMAIN q,
         \A j \in DOMAIN q \ {c} : WeightedRoundRobinByTenant(q, quotas, c, j)
  PROVE  \A j \in DOMAIN q \ {c} : OrderQueued(q, c, j)
<1>1. PICK m \in DOMAIN q : \A j \in DOMAIN q \ {m} : OrderQueued(q, m, j)
  BY OrderHasFirst
<1> SUFFICES ASSUME m # c PROVE FALSE
  BY <1>1
<1>2. WeightedRoundRobinByTenant(q, quotas, c, m)
  OBVIOUS
<1>3. \A j \in DOMAIN q : ~OrderQueued(q, j, m)
  BY <1>1, OrderIsTotal
<1>4. Round(q, quotas, m) = 0
  <2>1. {j \in DOMAIN q : q[j].tenant = q[m].tenant /\ OrderQueued(q, j, m)} = {}
    BY <1>3
  <2>2. Weight(quotas, q[m].tenant) \in Nat \ {0}
    <3>1. q[m].tenant \in Tenants
      BY DEF QueuedWorkload
    <3>2. quotas[q[m].tenant].weight \in Int
      BY <3>1 DEF TenantQuota
    <3> QED BY <3>2 DEF Weight
  <2>3. Round(q, quotas, m) = 0 \div Weight(quotas, q[m].tenant)
    BY <2>1, FS_EmptySet DEF Round
  <2> HIDE DEF Weight
  <2> QED BY <2>2, <2>3
<1>5. Round(q, quotas, c) \in Nat
  BY RoundOfQueued
<1>6. ~TenantBefore(q, q[c].tenant, q[m].tenant)
  BY <1>3 DEF TenantBefore
<1> QED BY <1>2, <1>3, <1>4, <1>5, <1>6 DEF WeightedRoundRobinByTenant

LEMMA SumOverMonotone ==
  ASSUME NEW T, IsFiniteSet(T), \A w \in T : w.gpuCount \in Nat, NEW U \in SUBSET T
  PROVE  SumOver(U) <= SumOver(T)
<1>1. \A w \in T : Count(T)[w] \in Nat
  BY DEF Count
<1>2. IsFiniteSet(U)
  BY FS_Subset
<1>3. SumOver(U) = Total(Count(T), U) /\ SumOver(T) = Total(Count(T), T)
  BY <1>2, SumOverTotal
<1> QED BY <1>1, <1>3, TotalMonotone

\* Where there is room for all, what is left of the queue fits.
LEMMA RoomForOne ==
  ASSUME CycleInv, pc = "select", RoomForAll, NEW k \in DOMAIN working.queued
  PROVE  k \in Fitting(working)
<1> DEFINE P == DOMAIN inputs.fleet
           A == Range(admitted)
           Q == Range(inputs.queued)
           x == working.queued[k]
           free == working.fleet[x.profile].freeDevices
<1>1. /\ inputs \in SchedulingInputs(P) /\ working \in SchedulingInputs(P)
      /\ admitted \in Seq(QueuedWorkload) /\ A \subseteq Q
      /\ Distinct(inputs) /\ Booked(A, inputs, working)
      /\ Range(working.queued) = Remaining(Q, A)
  BY DEF CycleInv
<1>2. /\ inputs.queued \in Seq(QueuedWorkload) /\ working.queued \in Seq(QueuedWorkload)
      /\ DOMAIN working.fleet = P /\ DOMAIN inputs.quotas = Tenants
      /\ \A p \in P : inputs.fleet[p] \in ProfileFreeCapacity /\ working.fleet[p] \in ProfileFreeCapacity
      /\ \A t \in Tenants : inputs.quotas[t] \in TenantQuota
  BY <1>1 DEF SchedulingInputs
<1>3. QueuedOnes = Q
  BY DEF QueuedOnes, Range
<1>4. x \in Q /\ x \notin A
  <2>1. x \in Range(working.queued)
    BY DEF Range
  <2> HIDE DEF x, A, Q
  <2> QED BY <1>1, <2>1 DEF Remaining
<1>5. IsFiniteSet(Q) /\ Q \subseteq QueuedWorkload /\ IsFiniteSet(A) /\ A \subseteq QueuedWorkload
  BY <1>1, <1>2, RangeFinite
<1>6. x \in QueuedWorkload /\ x.gpuCount \in Int /\ x.tenant \in Tenants
  <2> HIDE DEF x
  <2>1. x \in QueuedWorkload
    BY <1>4, <1>5
  <2> QED BY <2>1 DEF QueuedWorkload
<1>7. \A w \in Q : w.gpuCount \in Nat
  BY <1>1, <1>5 DEF Distinct, QueuedWorkload
<1>8. x.profile \in P /\ CompatibleProfileAndKind(x, working.fleet)
  BY <1>2, <1>3, <1>4 DEF RoomForAll, CompatibleProfileAndKind
<1>9. FitsPerDeviceMemory(x, working.fleet)
  <2>1. FitsPerDeviceMemory(x, inputs.fleet)
    BY <1>3, <1>4 DEF RoomForAll
  <2>2. working.fleet[x.profile].memMiBPerDevice = inputs.fleet[x.profile].memMiBPerDevice
    BY <1>1, <1>8 DEF Booked
  <2> HIDE DEF x
  <2> QED BY <2>1, <2>2 DEF FitsPerDeviceMemory
<1> HIDE DEF x, A, Q
<1>10. FitsGPUCount(x, working.fleet)
  <2> DEFINE p == x.profile
  <2>1. SumOver(OfProfile(Q, p)) <= inputs.fleet[p].freeDevices
    BY <1>3, <1>8 DEF RoomForAll, OfProfile
  <2>2. working.fleet[p].freeDevices + SumOver(OfProfile(A, p)) = inputs.fleet[p].freeDevices
    BY <1>1, <1>8 DEF Booked
  <2>3. /\ SumOver(OfProfile(A, p)) \in Int
        /\ SumOver(OfProfile(A \cup {x}, p)) = SumOver(OfProfile(A, p)) + x.gpuCount
    BY <1>4, <1>5, <1>6, OneMoreOfProfile
  <2>4. SumOver(OfProfile(A \cup {x}, p)) <= SumOver(OfProfile(Q, p))
    <3>1. /\ OfProfile(A \cup {x}, p) \in SUBSET OfProfile(Q, p)
          /\ OfProfile(Q, p) \subseteq Q
      BY <1>1, <1>4 DEF OfProfile
    <3>2. IsFiniteSet(OfProfile(Q, p))
      BY <1>5, <3>1, FS_Subset
    <3> QED BY <1>7, <3>1, <3>2, SumOverMonotone
  <2>5. SumOver(OfProfile(Q, p)) \in Int
    <3>1. OfProfile(Q, p) \subseteq Q
      BY DEF OfProfile
    <3> QED BY <1>5, <1>7, <3>1, FS_Subset, SumOverType
  <2>6. working.fleet[p].freeDevices \in Int /\ inputs.fleet[p].freeDevices \in Int
    BY <1>2, <1>8 DEF ProfileFreeCapacity
  <2>7. working.fleet[p].freeDevices >= x.gpuCount
    BY <1>6, <2>1, <2>2, <2>3, <2>4, <2>5, <2>6
  <2> QED BY <2>7 DEF FitsGPUCount
<1>11. ~ExceedsTenantGPUCap(x, working)
  <2> DEFINE t == x.tenant
             cap == inputs.quotas[t].maxGPUs
  <2>0. working.quotas = inputs.quotas
    BY <1>1 DEF Booked
  <2> SUFFICES ASSUME cap # 0 PROVE TenantGPUsUsed(working, t) + x.gpuCount <= cap
    <3>1. TenantGPUsUsed(working, t) \in Int /\ cap \in Int
      BY <1>1, <1>2, <1>6, TenantUseType DEF TenantQuota
    <3> QED BY <1>6, <2>0, <3>1 DEF ExceedsTenantGPUCap
  <2>1. TenantGPUsUsed(inputs, t) + SumOver(OfTenant(Q, t)) <= cap
    BY <1>2, <1>3, <1>6 DEF RoomForAll, OfTenant
  <2>2. TenantGPUsUsed(working, t) = TenantGPUsUsed(inputs, t) + SumOver(OfTenant(A, t))
    BY <1>1, <1>6 DEF Booked
  <2>3. /\ SumOver(OfTenant(A, t)) \in Int
        /\ SumOver(OfTenant(A \cup {x}, t)) = SumOver(OfTenant(A, t)) + x.gpuCount
    BY <1>4, <1>5, <1>6, OneMoreOfTenant
  <2>4. SumOver(OfTenant(A \cup {x}, t)) <= SumOver(OfTenant(Q, t))
    <3>1. /\ OfTenant(A \cup {x}, t) \in SUBSET OfTenant(Q, t)
          /\ OfTenant(Q, t) \subseteq Q
      BY <1>1, <1>4 DEF OfTenant
    <3>2. IsFiniteSet(OfTenant(Q, t))
      BY <1>5, <3>1, FS_Subset
    <3> QED BY <1>7, <3>1, <3>2, SumOverMonotone
  <2>5. SumOver(OfTenant(Q, t)) \in Int
    <3>1. OfTenant(Q, t) \subseteq Q
      BY DEF OfTenant
    <3> QED BY <1>5, <1>7, <3>1, FS_Subset, SumOverType
  <2>6. TenantGPUsUsed(working, t) \in Int /\ TenantGPUsUsed(inputs, t) \in Int /\ cap \in Int
    BY <1>1, <1>2, <1>6, TenantUseType DEF TenantQuota
  <2> QED BY <1>6, <2>1, <2>2, <2>3, <2>4, <2>5, <2>6
<1> QED BY <1>8, <1>9, <1>10, <1>11 DEF Fitting, Open, x

MoreUrgent(v, w) == v.priority > w.priority \/ (v.priority = w.priority /\ v.at < w.at)

\* Whoever is more urgent than the chosen workload is admitted already.
LEMMA UrgentFirst ==
  ASSUME CycleInv, RoomForAll, Admit, NEW x \in QueuedOnes, MoreUrgent(x, chosen)
  PROVE  \E j \in DOMAIN admitted : admitted[j] = x
<1> DEFINE q == working.queued
           c == choice.index
           P == DOMAIN inputs.fleet
           A == Range(admitted)
           Q == Range(inputs.queued)
<1> SUFFICES ASSUME x \notin A PROVE FALSE
  BY DEF Range
<1>1. pc = "select" /\ c # 0
  BY DEF Admit
<1>2. /\ working \in SchedulingInputs(P) /\ Distinct(inputs) /\ A \subseteq Q
      /\ Range(q) = Remaining(Q, A)
  BY <1>1 DEF CycleInv
<1>3. q \in Seq(QueuedWorkload) /\ working.quotas \in [Tenants -> TenantQuota]
  BY <1>2 DEF SchedulingInputs
<1>4. x \in Range(q)
  <2>1. x \in Q
    BY DEF QueuedOnes, Range
  <2>2. \A y \in A : x.id # y.id
    BY <1>2, <2>1 DEF Distinct
  <2> QED BY <1>2, <2>1, <2>2 DEF Remaining
<1>5. PICK k \in DOMAIN q : q[k] = x
  BY <1>4 DEF Range
<1>6. \A i \in DOMAIN q : i \in Fitting(working)
  BY <1>1, RoomForOne
<1>7. c \in DOMAIN q /\ \A j \in DOMAIN q \ {c} : WeightedRoundRobinByTenant(q, working.quotas, c, j)
  <2>1. choice.victims = {}
    BY <1>2, <1>5, <1>6, SelectionFacts DEF choice
  <2>2. c \in Fitting(working) /\ \A j \in Fitting(working) \ {c} :
                                   WeightedRoundRobinByTenant(q, working.quotas, c, j)
    BY <1>1, <1>2, <2>1, SelectionFacts DEF choice
  <2> QED BY <1>6, <2>2 DEF Fitting, Open
<1>8. \A j \in DOMAIN q \ {c} : OrderQueued(q, c, j)
  <2> HIDE DEF q, c
  <2> QED BY <1>3, <1>7, RoundRobinStartsWithUrgent
<1>9. OrderQueued(q, k, c)
  BY <1>5 DEF MoreUrgent, OrderQueued, chosen
<1>10. k = c \/ OrderQueued(q, c, k)
  BY <1>5, <1>8
<1> HIDE DEF q, c
<1> QED BY <1>3, <1>5, <1>7, <1>9, <1>10, OrderIsTotal

\* Where there is room for the whole queue, a batch admits higher priorities first,
\* also across tenants and whatever their weights (scheduler_loop.go:302,
\* selection.go:24-26).
THEOREM PriorityDecides == Spec => []HigherPriorityFirst
<1>1. Init => HigherPriorityFirst
  BY DEF Init, HigherPriorityFirst
<1>2. CycleInv /\ HigherPriorityFirst /\ [Next]_vars => HigherPriorityFirst'
  <2> SUFFICES ASSUME CycleInv, HigherPriorityFirst, [Next]_vars PROVE HigherPriorityFirst'
    OBVIOUS
  <2>1. ASSUME Admit PROVE HigherPriorityFirst'
    <3>1. inputs' = inputs /\ admitted' = Append(admitted, chosen) /\ pc = "select"
          /\ choice.index # 0
      BY <2>1 DEF Admit
    <3>2. RoomForAll' = RoomForAll /\ QueuedOnes' = QueuedOnes
      BY <3>1 DEF RoomForAll, QueuedOnes
    <3>3. admitted \in Seq(QueuedWorkload) /\ chosen \in QueuedWorkload
      BY <3>1, ChosenFacts DEF CycleInv
    <3> SUFFICES ASSUME RoomForAll, NEW i \in DOMAIN admitted', NEW w \in QueuedOnes,
                        w.priority > admitted'[i].priority
                 PROVE  \E j \in 1 .. i - 1 : admitted'[j] = w
      BY <3>2 DEF HigherPriorityFirst
    <3> DEFINE n == Len(admitted)
    <3>4. /\ n \in Nat /\ DOMAIN admitted = 1 .. n /\ DOMAIN admitted' = 1 .. n + 1
          /\ admitted'[n + 1] = chosen /\ \A j \in 1 .. n : admitted'[j] = admitted[j]
      BY <3>1, <3>3
    <3> HIDE DEF n
    <3>5. CASE i = n + 1
      <4>1. \E j \in DOMAIN admitted : admitted[j] = w
        BY <2>1, <3>4, <3>5, UrgentFirst DEF MoreUrgent
      <4> QED BY <3>4, <3>5, <4>1
    <3>6. CASE i # n + 1
      <4>1. i \in 1 .. n /\ admitted'[i] = admitted[i]
        BY <3>4, <3>6
      <4>2. \E j \in 1 .. i - 1 : admitted[j] = w
        BY <3>4, <4>1 DEF HigherPriorityFirst
      <4> QED BY <3>4, <4>1, <4>2
    <3> QED BY <3>5, <3>6
  <2>2. ASSUME UNCHANGED <<inputs, admitted>> PROVE HigherPriorityFirst'
    BY <2>2 DEF HigherPriorityFirst, RoomForAll, QueuedOnes
  <2>3. CASE NoCandidate \/ PreemptFails \/ PatchFails
    BY <2>2, <2>3 DEF NoCandidate, PreemptFails, PatchFails
  <2>4. CASE UNCHANGED vars
    BY <2>2, <2>4 DEF vars
  <2> QED BY <2>1, <2>3, <2>4 DEF Next
<1> QED BY <1>1, <1>2, CycleInit, CycleStep, PTL DEF Spec

-----------------------------------------------------------------------------
(* Victims are needed. *)

\* PickUntilFreed, on places of the running workloads.
LEMMA PickIsPicked ==
  ASSUME NEW r \in Seq(QueuedWorkload), NEW I \in SUBSET (DOMAIN r), NEW need, NEW B
  PROVE  PickUntilFreed(r, I, need, B) = Picked(Size(r), I, need, B)
<1>1. \A i \in DOMAIN r : r[i].gpuCount \in Int
  BY DEF QueuedWorkload
<1>2. ASSUME NEW i
      PROVE  GPUs(r, {j \in I : <<j, i>> \in B}) = Total(Size(r), {j \in I : <<j, i>> \in B})
  <2> DEFINE T == {j \in I : <<j, i>> \in B}
  <2>1. T \in SUBSET (DOMAIN r) /\ IsFiniteSet(T)
    BY DomainFinite
  <2> HIDE DEF T
  <2>2. GPUs(r, T) = Total(Size(r), T)
    BY <1>1, <2>1, GPUsTotal
  <2> QED BY <2>2 DEF T
<1>3. ASSUME NEW i \in I
      PROVE  i \in PickUntilFreed(r, I, need, B) <=> i \in Picked(Size(r), I, need, B)
  BY <1>2, Zenon DEF PickUntilFreed, Picked
<1>4. PickUntilFreed(r, I, need, B) \subseteq I /\ Picked(Size(r), I, need, B) \subseteq I
  BY DEF PickUntilFreed, Picked
<1> QED BY <1>3, <1>4

\* The orders of the two selections are strict and total.
LEMMA VictimOrdersAreStrict ==
  ASSUME NEW r \in Seq(QueuedWorkload), NEW C \in SUBSET (DOMAIN r), NEW I \in SUBSET C
  PROVE  /\ StrictOrder({e \in C \X C : GreedyOrder(r, e[1], e[2])}, I)
         /\ StrictOrder({e \in C \X C : VictimOrder(r, e[1], e[2])}, I)
<1>1. \A i \in C : /\ r[i].gpuCount \in Int /\ r[i].at \in Int /\ r[i].priority \in Int
                   /\ i \in Int
  BY DEF QueuedWorkload
<1>2. /\ \A i \in C : ~VictimOrder(r, i, i)
      /\ \A i, j \in C : i # j => VictimOrder(r, i, j) \/ VictimOrder(r, j, i)
      /\ \A i, j, k \in C : VictimOrder(r, i, j) /\ VictimOrder(r, j, k) => VictimOrder(r, i, k)
  BY <1>1 DEF VictimOrder
<1>3. /\ \A i \in C : ~GreedyOrder(r, i, i)
      /\ \A i, j \in C : i # j => GreedyOrder(r, i, j) \/ GreedyOrder(r, j, i)
      /\ \A i, j, k \in C : GreedyOrder(r, i, j) /\ GreedyOrder(r, j, k) => GreedyOrder(r, i, k)
  BY <1>1, <1>2 DEF GreedyOrder
<1> DEFINE G == {e \in C \X C : GreedyOrder(r, e[1], e[2])}
           O == {e \in C \X C : VictimOrder(r, e[1], e[2])}
<1>4. \A i, j \in C : <<i, j>> \in G <=> GreedyOrder(r, i, j)
  OBVIOUS
<1>5. \A i, j \in C : <<i, j>> \in O <=> VictimOrder(r, i, j)
  OBVIOUS
<1> HIDE DEF G, O
<1>6. StrictOrder(G, I)
  BY <1>3, <1>4 DEF StrictOrder
<1>7. StrictOrder(O, I)
  BY <1>2, <1>5 DEF StrictOrder
<1> QED BY <1>6, <1>7 DEF G, O

\* The GPUs of workloads with different IDs, and those of their places.
LEMMA SumOverPlaces ==
  ASSUME NEW r \in Seq(QueuedWorkload), NEW I \in SUBSET (DOMAIN r),
         \A i, j \in DOMAIN r : r[i].id = r[j].id => i = j
  PROVE  /\ SumOver(ImageOf(r, I)) = Total(Size(r), I)
         /\ Cardinality(ImageOf(r, I)) = Cardinality(I)
<1> DEFINE f == Count(QueuedWorkload)
           g == Size(r)
<1>1. IsFiniteSet(I)
  BY DomainFinite
<1>2. \A i, j \in I : r[i] = r[j] => i = j
  OBVIOUS
<1>3. \A w \in QueuedWorkload : w.gpuCount \in Int
  BY DEF QueuedWorkload
<1>4. \A i \in I : f[r[i]] \in Int /\ g[i] = f[r[i]]
  BY <1>3 DEF Count, Size
<1>5. ImageOf(r, I) \in SUBSET QueuedWorkload
  BY DEF ImageOf
<1> HIDE DEF f, g
<1>6. /\ IsFiniteSet(ImageOf(r, I)) /\ Cardinality(ImageOf(r, I)) = Cardinality(I)
      /\ Total(f, ImageOf(r, I)) = Total(g, I)
  BY ONLY <1>1, <1>2, <1>4, TotalOfImage
<1>7. SumOver(ImageOf(r, I)) = Total(f, ImageOf(r, I))
  BY <1>3, <1>5, <1>6, SumOverTotal DEF f
<1> QED BY <1>6, <1>7 DEF g

\* The places that may be victims for w and have a lower priority than b.
Below(w, r, b) == {i \in DOMAIN r : r[i].profile = w.profile /\ r[i].priority < b}

\* V frees need; without one of them it does not; nor do the workloads below some
\* priority that none of V exceeds; and n are not enough.
AreNeeded(V, w, r, need, n) ==
  /\ V \subseteq DOMAIN r
  /\ Total(Size(r), V) >= need
  /\ \A v \in V : Total(Size(r), V \ {v}) < need
  /\ \E b \in Int : /\ \A i \in V : r[i].priority <= b
                    /\ Total(Size(r), Below(w, r, b)) < need
  /\ Cardinality(V) <= n

LEMMA GreedyVictimsAreNeeded ==
  ASSUME NEW P, NEW in, in \in SchedulingInputs(P), Distinct(in),
         NEW w, w \in QueuedWorkload, w.profile \in P,
         SelectPreemptionVictimsGreedyMinimal(w, in) # {}
  PROVE  /\ needToFree(w, in) = w.gpuCount - in.fleet[w.profile].freeDevices
         /\ AreNeeded(SelectPreemptionVictimsGreedyMinimal(w, in), w, in.running,
                      needToFree(w, in), Cardinality(SelectPreemptionVictims(w, in)))
<1> DEFINE r == in.running
           f == Size(r)
           need == needToFree(w, in)
           C == candidates(w, in)
           upTo(p) == {i \in C : r[i].priority <= p}
           prios == {r[i].priority : i \in C}
           bands == {p \in prios : GPUs(r, upTo(p)) >= need}
           b == Min(bands)
           G == {e \in C \X C : GreedyOrder(r, e[1], e[2])}
           O == {e \in C \X C : VictimOrder(r, e[1], e[2])}
           V == SelectPreemptionVictimsGreedyMinimal(w, in)
           W == SelectPreemptionVictims(w, in)
<1>1. need # 0 /\ bands # {} /\ V = PickUntilFreed(r, upTo(b), need, G)
  BY DEF SelectPreemptionVictimsGreedyMinimal
<1>2. W = IF GPUs(r, C) < need THEN {} ELSE PickUntilFreed(r, C, need, O)
  BY <1>1 DEF SelectPreemptionVictims
<1>3. need = w.gpuCount - in.fleet[w.profile].freeDevices /\ need \in Nat \ {0}
  <2>1. w.gpuCount \in Int /\ in.fleet[w.profile].freeDevices \in Int
    BY DEF SchedulingInputs, ProfileFreeCapacity, QueuedWorkload
  <2>2. needToFree(w, in) # 0
    BY <1>1, Zenon
  <2> QED BY <2>1, <2>2 DEF needToFree, FitsGPUCount
<1>4. r \in Seq(QueuedWorkload)
  BY DEF SchedulingInputs
<1>5. C \in SUBSET (DOMAIN r) /\ \A i \in DOMAIN r : i \in C <=> r[i].profile = w.profile
  BY DEF candidates
<1>6. \A i \in DOMAIN r : /\ f[i] \in Nat /\ f[i] = r[i].gpuCount
                          /\ r[i].gpuCount \in Int /\ r[i].priority \in Int
  <2>1. \A i \in DOMAIN r : r[i].gpuCount \in Int /\ r[i].priority \in Int
    <3> HIDE DEF r
    <3> QED BY <1>4 DEF QueuedWorkload
  <2>2. \A i \in DOMAIN r : r[i].gpuCount > 0
    BY DEF Distinct
  <2> HIDE DEF r
  <2> QED BY <2>1, <2>2 DEF Size
<1> HIDE DEF V, W, need, C, f, r
<1>7. ASSUME NEW I \in SUBSET C
      PROVE  /\ IsFiniteSet(I) /\ GPUs(r, I) = Total(f, I) /\ Total(f, I) \in Nat
             /\ \A x \in I : f[x] \in Nat
  <2>1. IsFiniteSet(I) /\ I \in SUBSET (DOMAIN r)
    BY <1>4, <1>5, DomainFinite
  <2>2. \A i \in I : r[i].gpuCount \in Int /\ f[i] \in Nat
    BY <1>6, <2>1
  <2> QED BY <2>1, <2>2, GPUsTotal, TotalNat DEF f
<1>8. bands \subseteq Int /\ IsFiniteSet(bands)
  <2>1. prios \subseteq Int /\ bands \subseteq prios
    BY <1>5, <1>6
  <2>2. IsFiniteSet(prios)
    <3> DEFINE g == [i \in C |-> r[i].priority]
    <3>1. g \in Surjection(C, prios)
      BY DEF Surjection
    <3>2. IsFiniteSet(C)
      BY <1>7
    <3> QED BY <3>1, <3>2, FS_Surjection
  <2> HIDE DEF bands, prios
  <2> QED BY <2>1, <2>2, FS_Subset
<1>9. b \in bands /\ b \in Int /\ \A p \in bands : b <= p
  <2> HIDE DEF bands
  <2> QED BY <1>1, <1>8, Extremes
<1> DEFINE U == upTo(b)
           D == {i \in C : r[i].priority < b}
<1>10. U \subseteq C /\ Total(f, U) >= need
  <2>1. U \in SUBSET C /\ GPUs(r, U) >= need
    BY <1>9
  <2> HIDE DEF U
  <2> QED BY <1>7, <2>1
<1>11. StrictOrder(G, U) /\ StrictOrder(O, C)
  <2> HIDE DEF U
  <2>1. C \in SUBSET C /\ U \in SUBSET C
    BY <1>10
  <2> QED BY <1>4, <1>5, <2>1, VictimOrdersAreStrict
<1>12. V = Picked(f, U, need, G)
  <2>1. U \in SUBSET (DOMAIN r) /\ V = PickUntilFreed(r, U, need, G)
    BY <1>1, <1>5
  <2> HIDE DEF U, G
  <2> QED BY <1>4, <2>1, PickIsPicked DEF f
<1>13. V \subseteq U /\ Total(f, V) >= need
       /\ \E l \in V : LastOf(l, V, U, G) /\ Total(f, V \ {l}) < need
  <2>1. IsFiniteSet(U) /\ \A x \in U : f[x] \in Nat
    BY <1>7, <1>10
  <2> HIDE DEF U, G
  <2> QED BY <1>3, <1>10, <1>11, <1>12, <2>1, PickedFacts
<1>14. PICK l \in V : LastOf(l, V, U, G) /\ Total(f, V \ {l}) < need
  BY <1>13
<1>15. V \in SUBSET C /\ l \in C /\ f[l] \in Nat /\ \A i \in C : f[i] \in Nat /\ f[i] = r[i].gpuCount
  <2>1. V \in SUBSET C
    BY <1>10, <1>13
  <2> QED BY <1>5, <1>6, <2>1
<1>16. (\A v \in V : f[v] >= f[l]) /\ (\A i \in U \ V : f[i] <= f[l])
  <2>1. \A i, j \in C : <<i, j>> \in G => f[i] >= f[j]
    BY <1>15 DEF GreedyOrder
  <2>2. \A v \in V \ {l} : <<v, l>> \in G
    BY <1>14 DEF LastOf
  <2>3. \A i \in U \ V : <<l, i>> \in G
    BY <1>14 DEF LastOf
  <2> HIDE DEF G
  <2>4. \A v \in V \ {l} : f[v] >= f[l]
    BY <1>15, <2>1, <2>2
  <2>5. \A i \in U \ V : f[i] <= f[l]
    BY <1>10, <1>15, <2>1, <2>3
  <2> QED BY <1>15, <2>4, <2>5
<1>17. ASSUME NEW v \in V PROVE Total(f, V \ {v}) < need
  <2>1. IsFiniteSet(V) /\ \A x \in V : f[x] \in Int
    BY <1>7, <1>15
  <2>2. /\ Total(f, V) = f[v] + Total(f, V \ {v})
        /\ Total(f, V) = f[l] + Total(f, V \ {l})
    BY <1>14, <2>1, TotalRemove
  <2>3. V \ {v} \in SUBSET C /\ V \ {l} \in SUBSET C
    BY <1>15
  <2>4. Total(f, V \ {v}) \in Nat /\ Total(f, V \ {l}) \in Nat
    BY <1>7, <2>3
  <2> QED BY <1>3, <1>14, <1>15, <1>16, <2>1, <2>2, <2>4
<1>18. Total(f, D) < need
  <2>1. CASE D = {}
    <3> HIDE DEF D
    <3> QED BY <1>3, <2>1, TotalEmpty
  <2>2. CASE D # {}
    <3> DEFINE S == {r[i].priority : i \in D}
               g == [i \in D |-> r[i].priority]
               m == Max(S)
    <3>1. D \in SUBSET C
      OBVIOUS
    <3>2. S \in SUBSET Int /\ S # {}
      BY <1>5, <1>6, <2>2
    <3>3. IsFiniteSet(S)
      <4>1. g \in Surjection(D, S)
        BY DEF Surjection
      <4> HIDE DEF D, S, g
      <4> QED BY <1>7, <3>1, <4>1, FS_Surjection
    <3>4. m \in S /\ \A x \in S : x <= m
      <4> HIDE DEF S
      <4> QED BY <3>2, <3>3, Extremes
    <3>5. m \in prios /\ m < b /\ m \in Int
      BY <3>2, <3>4
    <3> HIDE DEF m
    <3>6. D = upTo(m)
      <4>1. ASSUME NEW i \in C PROVE r[i].priority < b <=> r[i].priority <= m
        <5>1. r[i].priority \in Int
          BY <1>5, <1>6
        <5>2. r[i].priority < b => r[i].priority <= m
          BY <3>4
        <5> QED BY <1>9, <3>5, <5>1, <5>2
      <4> QED BY <4>1
    <3>7. m \notin bands
      <4> HIDE DEF bands
      <4> QED BY <1>9, <3>5
    <3>8. ~(GPUs(r, upTo(m)) >= need)
      BY <3>5, <3>7
    <3>9. ~(Total(f, D) >= need) /\ Total(f, D) \in Nat
      <4>1. GPUs(r, D) = Total(f, D) /\ Total(f, D) \in Nat
        <5> HIDE DEF D
        <5> QED BY <1>7, <3>1
      <4>2. GPUs(r, upTo(m)) = GPUs(r, D)
        BY <3>6, Zenon
      <4> HIDE DEF D, upTo
      <4> QED BY <3>8, <4>1, <4>2
    <3> HIDE DEF D
    <3> QED BY <1>3, <3>9
  <2> QED BY <2>1, <2>2
<1>19. D = Below(w, r, b) /\ \A i \in V : r[i].priority <= b
  BY <1>5, <1>13 DEF Below
<1>20. W = Picked(f, C, need, O)
  <2>1. Total(f, U) <= Total(f, C) /\ GPUs(r, C) = Total(f, C) /\ Total(f, C) \in Nat
    <3>1. IsFiniteSet(C) /\ \A x \in C : f[x] \in Nat
      BY <1>7
    <3> HIDE DEF U
    <3> QED BY <1>7, <1>10, <3>1, TotalMonotone
  <2>2. Total(f, U) \in Nat
    <3> HIDE DEF U
    <3> QED BY <1>7, <1>10
  <2> HIDE DEF U, O
  <2>3. W = PickUntilFreed(r, C, need, O)
    BY <1>2, <1>3, <1>10, <2>1, <2>2
  <2> QED BY <1>4, <1>5, <2>3, PickIsPicked DEF f
<1>21. Total(f, W) >= need /\ W \subseteq C
  <2>1. IsFiniteSet(C) /\ (\A x \in C : f[x] \in Nat) /\ Total(f, C) >= need
    <3>1. IsFiniteSet(C) /\ (\A x \in C : f[x] \in Nat) /\ Total(f, C) \in Nat
      BY <1>7
    <3> HIDE DEF U
    <3>2. Total(f, U) <= Total(f, C) /\ Total(f, U) \in Nat
      BY <1>7, <1>10, <3>1, TotalMonotone
    <3> QED BY <1>3, <1>10, <3>1, <3>2
  <2> HIDE DEF O
  <2> QED BY <1>3, <1>11, <1>20, <2>1, PickedFacts
<1>22. W \subseteq U
  <2> SUFFICES ASSUME NEW i \in W, i \notin U PROVE FALSE
    OBVIOUS
  <2> DEFINE before == {j \in C : <<j, i>> \in O}
  <2>1. i \in C /\ Total(f, before) < need
    BY <1>20, <1>21 DEF Picked
  <2>2. r[i].priority > b
    BY <1>5, <1>6, <1>9, <2>1
  <2>3. U \subseteq before
    BY <1>5, <1>6, <1>9, <2>1, <2>2 DEF VictimOrder
  <2>4. before \in SUBSET C
    OBVIOUS
  <2> HIDE DEF before, U
  <2>5. Total(f, U) <= Total(f, before) /\ Total(f, before) \in Nat /\ Total(f, U) \in Nat
    BY <1>7, <1>10, <2>3, <2>4, TotalMonotone
  <2> QED BY <1>3, <1>10, <2>1, <2>5
<1>23. Cardinality(V) <= Cardinality(W)
  <2>1. IsFiniteSet(U) /\ \A x \in U : f[x] \in Nat
    BY <1>7, <1>10
  <2>2. need \in Int
    BY <1>3
  <2> HIDE DEF U, G
  <2> QED BY <1>13, <1>14, <1>16, <1>21, <1>22, <2>1, <2>2, LargestAreFewest
<1>24. \E x \in Int : (\A i \in V : r[i].priority <= x) /\ Total(f, Below(w, r, x)) < need
  BY <1>9, <1>18, <1>19
<1>25. V \subseteq DOMAIN r
  BY <1>5, <1>15
<1> HIDE DEF b, G, O, upTo
<1>26. AreNeeded(V, w, r, need, Cardinality(W))
  BY <1>13, <1>17, <1>23, <1>24, <1>25 DEF AreNeeded, f
<1> QED BY <1>3, <1>26 DEF V, W, r, need

\* The same of the workloads themselves.
WorkloadsAreNeeded(I, w, r, need, n) ==
  LET V == {r[i] : i \in I}
      top == Max({v.priority : v \in V})
      lower == {r[i] : i \in {j \in DOMAIN r : /\ r[j].profile = w.profile
                                               /\ r[j].priority < top}}
  IN  /\ SumOver(V) >= need
      /\ \A v \in V : SumOver(V \ {v}) < need
      /\ SumOver(lower) < need
      /\ Cardinality(V) <= n

LEMMA NeededWorkloads ==
  ASSUME NEW r, r \in Seq(QueuedWorkload), \A i, j \in DOMAIN r : r[i].id = r[j].id => i = j,
         \A i \in DOMAIN r : r[i].gpuCount > 0, NEW w, NEW need \in Int, NEW n \in Int,
         NEW I, I # {}, AreNeeded(I, w, r, need, n)
  PROVE  WorkloadsAreNeeded(I, w, r, need, n)
<1> DEFINE V == {r[i] : i \in I}
           S == {v.priority : v \in V}
           top == Max(S)
           lower == {r[i] : i \in {j \in DOMAIN r : /\ r[j].profile = w.profile
                                                    /\ r[j].priority < top}}
<1>1. /\ I \in SUBSET (DOMAIN r) /\ Total(Size(r), I) >= need
      /\ \A v \in I : Total(Size(r), I \ {v}) < need /\ Cardinality(I) <= n
  BY DEF AreNeeded
<1>2. PICK b \in Int : /\ \A i \in I : r[i].priority <= b
                       /\ Total(Size(r), Below(w, r, b)) < need
  BY DEF AreNeeded
<1>3. V = ImageOf(r, I)
  BY DEF ImageOf
<1>4. ASSUME NEW v \in V PROVE SumOver(V \ {v}) < need
  <2>1. PICK k \in I : v = r[k]
    BY <1>4
  <2>2. V \ {v} = ImageOf(r, I \ {k})
    BY <1>1, <2>1 DEF ImageOf
  <2>3. I \ {k} \in SUBSET (DOMAIN r)
    BY <1>1
  <2>4. SumOver(ImageOf(r, I \ {k})) = Total(Size(r), I \ {k})
    BY <2>3, SumOverPlaces
  <2> HIDE DEF V
  <2> QED BY <1>1, <2>1, <2>2, <2>4
<1>5. top \in Int /\ top <= b
  <2>1. \A i \in DOMAIN r : r[i].priority \in Int
    BY DEF QueuedWorkload
  <2>2. S \in SUBSET Int /\ S # {} /\ \A x \in S : x <= b
    BY <1>1, <1>2, <2>1
  <2>3. IsFiniteSet(S)
    <3> DEFINE g == [i \in I |-> r[i].priority]
    <3>1. g \in Surjection(I, S)
      BY DEF Surjection
    <3>2. IsFiniteSet(I)
      BY <1>1, DomainFinite
    <3> HIDE DEF g, S
    <3> QED BY <3>1, <3>2, FS_Surjection
  <2> HIDE DEF S
  <2> QED BY <2>2, <2>3, Extremes
<1>6. lower = ImageOf(r, Below(w, r, top))
  BY DEF ImageOf, Below
<1> HIDE DEF V, top, lower
<1>7. SumOver(lower) < need
  <2> DEFINE X == Below(w, r, top)
             Y == Below(w, r, b)
  <2>1. X \in SUBSET (DOMAIN r) /\ Y \in SUBSET (DOMAIN r)
    BY DEF Below
  <2>2. X \subseteq Y
    <3>1. \A i \in DOMAIN r : r[i].priority \in Int
      BY DEF QueuedWorkload
    <3> QED BY <1>5, <3>1 DEF Below
  <2>3. \A i \in DOMAIN r : Size(r)[i] \in Nat
    <3>1. \A i \in DOMAIN r : r[i].gpuCount \in Int
      BY DEF QueuedWorkload
    <3> QED BY <3>1 DEF Size
  <2>4. IsFiniteSet(X) /\ IsFiniteSet(Y)
    BY <2>1, DomainFinite
  <2> HIDE DEF X, Y
  <2>5. Total(Size(r), X) <= Total(Size(r), Y)
    BY <2>1, <2>2, <2>3, <2>4, TotalMonotone
  <2>6. Total(Size(r), X) \in Nat /\ Total(Size(r), Y) \in Nat
    BY <2>1, <2>3, <2>4, TotalNat
  <2>7. SumOver(ImageOf(r, X)) = Total(Size(r), X)
    BY <2>1, SumOverPlaces
  <2> QED BY <1>2, <1>6, <2>5, <2>6, <2>7 DEF X, Y
<1>8. SumOver(V) >= need /\ Cardinality(V) <= n
  BY <1>1, <1>3, SumOverPlaces
<1> QED BY <1>4, <1>7, <1>8 DEF V, top, lower, WorkloadsAreNeeded

\* The victims of an admission free enough; none of them is spared without
\* missing the goal; no set of workloads that are all of lower priority than the
\* highest victim would do; and there are no more of them than
\* SelectPreemptionVictims would take (preemption.go:78-172).  The last part is
\* the claim of minimality: the largest ones of the bands that are needed are no
\* more than any others of these that free as much.
THEOREM PreemptionIsMinimal == Spec => VictimsAreNeeded
<1> DEFINE w == chosen
           r == working.running
           V == {r[i] : i \in choice.victims}
           need == w.gpuCount - working.fleet[w.profile].freeDevices
           top == Max({v.priority : v \in V})
           lower == {r[i] : i \in {j \in DOMAIN r : /\ r[j].profile = w.profile
                                                    /\ r[j].priority < top}}
           Claim == /\ SumOver(V) >= need
                    /\ \A v \in V : SumOver(V \ {v}) < need
                    /\ SumOver(lower) < need
                    /\ Cardinality(V) <= Cardinality(SelectPreemptionVictims(w, working))
<1>1. ASSUME CycleInv, Admit, choice.victims # {} PROVE Claim
  <2> DEFINE P == DOMAIN inputs.fleet
             I == choice.victims
             n == Cardinality(SelectPreemptionVictims(w, working))
  <2>1. pc = "select" /\ choice.index # 0
    BY <1>1 DEF Admit
  <2>2. working \in SchedulingInputs(P) /\ Distinct(working)
    BY <1>1, <2>1 DEF CycleInv
  <2>3. w \in QueuedWorkload /\ w.profile \in P
    BY <1>1, <2>1, ChosenFacts
  <2>4. I = SelectPreemptionVictimsGreedyMinimal(w, working)
    BY <1>1, <2>2, SelectionFacts DEF choice, chosen
  <2>5. needToFree(w, working) = need /\ AreNeeded(I, w, r, needToFree(w, working), n)
    <3> HIDE DEF w, I, P
    <3> QED BY <1>1, <2>2, <2>3, <2>4, GreedyVictimsAreNeeded DEF I
  <2>6. r \in Seq(QueuedWorkload)
    BY <2>2 DEF SchedulingInputs
  <2>7. /\ \A i, j \in DOMAIN r : r[i].id = r[j].id => i = j
        /\ \A i \in DOMAIN r : r[i].gpuCount > 0
    BY <2>2 DEF Distinct
  <2>8. need \in Int
    BY <2>2, <2>3 DEF SchedulingInputs, ProfileFreeCapacity, QueuedWorkload
  <2>9. n \in Int
    <3>1. SelectPreemptionVictims(w, working) \subseteq DOMAIN r
      BY DEF SelectPreemptionVictims, PickUntilFreed, candidates
    <3>2. IsFiniteSet(SelectPreemptionVictims(w, working))
      BY <2>6, <3>1, DomainFinite
    <3> QED BY <3>2, FS_CardinalityType
  <2>10. WorkloadsAreNeeded(I, w, r, need, n)
    <3> HIDE DEF w, r, need, n
    <3> QED BY <1>1, <2>5, <2>6, <2>7, <2>8, <2>9, NeededWorkloads
  <2> QED BY <2>10, Zenon DEF WorkloadsAreNeeded
<1>2. CycleInv => [Admit /\ choice.victims # {} => Claim]_vars
  <2> HIDE DEF Claim
  <2> QED BY <1>1
<1>3. [][Admit /\ choice.victims # {} => Claim]_vars => VictimsAreNeeded
  BY DEF VictimsAreNeeded
<1> HIDE DEF Claim
<1> QED BY <1>2, <1>3, CycleInit, CycleStep, PTL DEF Spec
==============================================================================
