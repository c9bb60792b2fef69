-------------------------- MODULE SimulatorProofs --------------------------
(***************************************************************************)
(* Theorems about Simulator, for every set of pools, specs, workloads,     *)
(* requests and callers and every bound on the number of runs.             *)
(***************************************************************************)
EXTENDS Simulator, PolicyFacts

\* Zenon is tried first, and SMT on what Zenon does not prove.
USE ZenonT(3), SMTT(20)

-----------------------------------------------------------------------------
(* Placement only ever picks eligible devices. *)

\* Walking the nodes in any order picks eligible devices.
LEMMA FirstFitPicksEligible ==
  ASSUME NEW E, NEW ord, NEW need, NEW maxNodes
  PROVE  selectFirstFit(E, ord, need, maxNodes) \subseteq E
BY DEF selectFirstFit, FillNodes, Take, Leading

LEMMA PackPicksEligible ==
  ASSUME NEW E, NEW ord, NEW need, NEW maxNodes
  PROVE  selectPack(E, ord, need, maxNodes) \subseteq E
BY DEF selectPack, FillNodes, Take, Leading

LEMMA SpreadPicksEligible ==
  ASSUME NEW E, NEW ord, NEW need, NEW maxNodes
  PROVE  selectSpread(E, ord, need, maxNodes) \subseteq E
BY DEF selectSpread, Take, Leading

\* Both single-node choices walk the devices of one node.
LEMMA OneNodePicksEligible ==
  ASSUME NEW E, NEW ord, NEW need, NEW N
  PROVE  selectFirstFit({d \in E : NodeOf(d) \in N}, ord, need, 0) \subseteq E
<1> DEFINE F == {d \in E : NodeOf(d) \in N}
<1>1. selectFirstFit(F, ord, need, 0) \subseteq F
  BY FirstFitPicksEligible
<1>2. F \subseteq E
  OBVIOUS
<1> QED BY <1>1, <1>2

LEMMA SameNodePicksEligible ==
  ASSUME NEW E, NEW ord, NEW need
  PROVE  selectSameNode(E, ord, need) \subseteq E
<1> DEFINE enough == {n \in NodesOf(E) : Cardinality(OnNode(E, n)) >= need}
           best == {n \in enough : \A m \in enough \ {n} :
                      LET cm == Cardinality(OnNode(E, m))
                          cn == Cardinality(OnNode(E, n))
                      IN  cn > cm \/ (cn = cm /\ NodeBefore(ord, n, m))}
<1>1. selectSameNode(E, ord, need) =
        selectFirstFit({d \in E : NodeOf(d) \in best}, ord, need, 0)
  BY Zenon DEF selectSameNode
<1> HIDE DEF best
<1> QED BY <1>1, OneNodePicksEligible

LEMMA LocalityPicksEligible ==
  ASSUME NEW E, NEW ord, NEW need, NEW maxNodes
  PROVE  selectLocality(E, ord, need, maxNodes) \subseteq E
<1> DEFINE enough == {n \in NodesOf(E) : Cardinality(OnNode(E, n)) >= need}
           first == {n \in enough : \A m \in enough \ {n} : NodeBefore(ord, n, m)}
<1>1. selectLocality(E, ord, need, maxNodes) =
        IF enough = {} THEN selectPack(E, ord, need, maxNodes)
        ELSE selectFirstFit({d \in E : NodeOf(d) \in first}, ord, need, 0)
  BY Zenon DEF selectLocality
<1> HIDE DEF enough, first
<1>2. selectPack(E, ord, need, maxNodes) \subseteq E
  BY PackPicksEligible
<1>3. selectFirstFit({d \in E : NodeOf(d) \in first}, ord, need, 0) \subseteq E
  BY OneNodePicksEligible
<1> QED BY <1>1, <1>2, <1>3

\* Whatever the policy, pickDevices returns eligible devices only: the fact
\* that AllocateWithOptions rests on (contract.go:199-296).
LEMMA PickDevicesPicksEligible ==
  ASSUME NEW E, NEW ord, NEW need, NEW opts
  PROVE  pickDevices(E, ord, need, opts) \subseteq E
BY FirstFitPicksEligible, PackPicksEligible, SpreadPicksEligible,
   SameNodePicksEligible, LocalityPicksEligible DEF pickDevices

-----------------------------------------------------------------------------
(* The inductive invariant. *)

\* A call that has been alone between the check and the lock is the only one there,
\* and its workload still has no devices.
AloneFindsNothing ==
  \A c \in Callers : pending[c] # None /\ c \notin overlaps =>
    /\ Asking(pending[c].workload) = {c}
    /\ allocations[pending[c].workload] = {}

IInv == TypeOK /\ DeviceExclusive /\ RunningIsLatest /\ AloneFindsNothing

LEMMA NodesAreDevices ==
  TypeOK => allNodes \subseteq Device
BY DEF TypeOK, allNodes, DevicesOf, Device

\* What the locked half of AllocateWithOptions may do to the allocations: give
\* the workload of the request devices that nobody holds, or nothing.
LEMMA CommitGivesFreeDevices ==
  ASSUME TypeOK, NEW c \in Callers, AllocateCommit(c)
  PROVE  \/ allocations' = allocations
         \/ \E S \in SUBSET Device, w \in Workloads :
              /\ S \cap usedDevices = {} /\ w = pending[c].workload
              /\ allocations' = [allocations EXCEPT ![w] = S]
<1> DEFINE req == pending[c]
           E == computeEligibleDevicesPerNode(req)
           picked(ord) == pickDevices(E, ord, req.gpuCount, req.opts)
<1>1. req \in Requests /\ req.workload \in Workloads
  BY SimulatorAssumption DEF TypeOK, AllocateCommit
<1>2. PICK ord \in PoolOrders :
        IF Cardinality(picked(ord)) < req.gpuCount
          THEN UNCHANGED allocations
          ELSE allocations' = [allocations EXCEPT ![req.workload] = picked(ord)]
  BY DEF AllocateCommit
<1>3. picked(ord) \subseteq E
  BY PickDevicesPicksEligible
<1>4. E \subseteq Device /\ E \cap usedDevices = {}
  BY NodesAreDevices DEF computeEligibleDevicesPerNode
<1> HIDE DEF picked, E
<1> QED BY <1>1, <1>2, <1>3, <1>4

LEMMA InitIInv == Init => IInv
BY DEF Init, IInv, TypeOK, DeviceExclusive, RunningIsLatest, AloneFindsNothing, Run

\* A change of one field of one run keeps runs a sequence of runs.
LEMMA RunUpdate ==
  ASSUME TypeOK, NEW r \in DOMAIN runs, NEW st \in RunStatus, NEW e \in BOOLEAN
  PROVE  /\ [runs EXCEPT ![r].status = st] \in Seq(Run)
         /\ [runs EXCEPT ![r].ended = e] \in Seq(Run)
<1>1. runs[r] \in Run
  BY DEF TypeOK
<1>2. [runs[r] EXCEPT !.status = st] \in Run
  BY <1>1 DEF Run
<1>3. [runs[r] EXCEPT !.ended = e] \in Run
  BY <1>1 DEF Run
<1> QED BY <1>2, <1>3 DEF TypeOK

LEMMA NextTypeOK == TypeOK /\ [Next]_vars => TypeOK'
<1> SUFFICES ASSUME TypeOK, [Next]_vars PROVE TypeOK'
  OBVIOUS
<1> USE DEF TypeOK, calls
<1>1. ASSUME NEW k \in PoolKeys, NEW spec \in PoolSpecs, RegisterFleet(k, spec)
      PROVE  TypeOK'
  BY <1>1 DEF RegisterFleet
<1>2. ASSUME NEW k \in PoolKeys, DeleteFleet(k) PROVE TypeOK'
  BY <1>2 DEF DeleteFleet
<1>3. ASSUME NEW c \in Callers, NEW req \in Requests, AllocateCheck(c, req)
      PROVE  TypeOK'
  <2>1. overlaps' \in SUBSET Callers
    BY <1>3 DEF AllocateCheck, NowAsking, Asking
  <2> QED BY <1>3, <2>1 DEF AllocateCheck, NowAsking
<1>4. ASSUME NEW c \in Callers, AllocateCommit(c) PROVE TypeOK'
  <2>1. allocations' \in [Workloads -> SUBSET Device]
    BY <1>4, CommitGivesFreeDevices
  <2> QED BY <1>4, <2>1 DEF AllocateCommit
<1>5. ASSUME NEW w \in Workloads, Start(w) PROVE TypeOK'
  <2>1. [workload |-> w, status |-> "Running", ended |-> FALSE] \in Run
    BY DEF Run, RunStatus
  <2> QED BY <1>5, <2>1 DEF Start
<1>6. ASSUME NEW r \in DOMAIN runs, RunEnds(r) PROVE TypeOK'
  BY <1>6, RunUpdate DEF RunEnds, RunStatus
<1>7. ASSUME NEW r \in DOMAIN runs, Complete(r) PROVE TypeOK'
  BY <1>7, RunUpdate DEF Complete, RunStatus
<1>8. ASSUME NEW w \in Workloads, Preempt(w) PROVE TypeOK'
  BY <1>8, RunUpdate DEF Preempt, RunsOf, RunStatus
<1>9. ASSUME NEW w \in Workloads, Release(w) PROVE TypeOK'
  BY <1>9 DEF Release
<1>10. CASE Restart
  BY <1>10 DEF Restart
<1>11. CASE UNCHANGED vars
  BY <1>11 DEF vars
<1> QED
  BY <1>1, <1>2, <1>3, <1>4, <1>5, <1>6, <1>7, <1>8, <1>9, <1>10, <1>11
  DEF Next, GetStatus, GetLatestRunStatusForWorkload, RunsOf

\* Only the locked half of an allocation, Release and Restart touch the
\* allocations.
LEMMA NextDeviceExclusive ==
  TypeOK /\ DeviceExclusive /\ [Next]_vars => DeviceExclusive'
<1> SUFFICES ASSUME TypeOK, DeviceExclusive, [Next]_vars PROVE DeviceExclusive'
  OBVIOUS
<1>1. ASSUME NEW c \in Callers, AllocateCommit(c) PROVE DeviceExclusive'
  <2>1. CASE allocations' = allocations
    BY <2>1 DEF DeviceExclusive
  <2>2. ASSUME NEW S \in SUBSET Device, NEW w \in Workloads,
               S \cap usedDevices = {}, w = pending[c].workload,
               allocations' = [allocations EXCEPT ![w] = S]
        PROVE  DeviceExclusive'
    BY <2>2 DEF TypeOK, DeviceExclusive, usedDevices
  <2> QED BY <1>1, <2>1, <2>2, CommitGivesFreeDevices
<1>2. ASSUME NEW w \in Workloads, Release(w) PROVE DeviceExclusive'
  BY <1>2 DEF Release, TypeOK, DeviceExclusive
<1>3. CASE Restart
  BY <1>3 DEF Restart, DeviceExclusive
<1>4. CASE UNCHANGED allocations
  BY <1>4 DEF DeviceExclusive
<1> QED
  BY <1>1, <1>2, <1>3, <1>4
  DEF Next, vars, RegisterFleet, DeleteFleet, AllocateCheck, Start, RunEnds,
      GetStatus, GetLatestRunStatusForWorkload, Complete, Preempt

\* A new run is the last one, and Start has checked that no other run of the
\* workload is Running; every other step only takes runs out of Running.
LEMMA NextRunningIsLatest ==
  TypeOK /\ RunningIsLatest /\ [Next]_vars => RunningIsLatest'
<1> SUFFICES ASSUME TypeOK, RunningIsLatest, [Next]_vars PROVE RunningIsLatest'
  OBVIOUS
<1> USE DEF RunningIsLatest, IsRunning
<1>1. ASSUME NEW w \in Workloads, Start(w) PROVE RunningIsLatest'
  <2> DEFINE new == [workload |-> w, status |-> "Running", ended |-> FALSE]
  <2>1. /\ Len(runs) \in Nat
        /\ DOMAIN runs = 1 .. Len(runs)
        /\ DOMAIN runs' = 1 .. Len(runs) + 1
        /\ \A r \in DOMAIN runs : runs'[r] = runs[r]
        /\ runs'[Len(runs) + 1] = new
    BY <1>1 DEF Start, TypeOK
  <2>2. \A r \in DOMAIN runs : runs[r].workload = w => runs[r].status # "Running"
    BY <1>1 DEF Start, RunsOf
  <2> QED BY <2>1, <2>2
<1>2. ASSUME NEW r \in DOMAIN runs, RunEnds(r) PROVE RunningIsLatest'
  BY <1>2 DEF RunEnds, TypeOK, Run
<1>3. ASSUME NEW r \in DOMAIN runs, Complete(r) PROVE RunningIsLatest'
  BY <1>3 DEF Complete, TypeOK, Run
<1>4. ASSUME NEW w \in Workloads, Preempt(w) PROVE RunningIsLatest'
  BY <1>4 DEF Preempt, RunsOf, TypeOK, Run
<1>5. CASE Restart
  BY <1>5 DEF Restart
<1>6. CASE UNCHANGED runs
  BY <1>6
<1> QED
  BY <1>1, <1>2, <1>3, <1>4, <1>5, <1>6
  DEF Next, vars, RegisterFleet, DeleteFleet, AllocateCheck, AllocateCommit,
      GetStatus, GetLatestRunStatusForWorkload, RunsOf, Release

\* A call that met no other one for its workload finds the workload without devices.
LEMMA NextAloneFindsNothing ==
  ASSUME TypeOK, AloneFindsNothing, [Next]_vars
  PROVE  AloneFindsNothing'
<1> DEFINE Fine(d) == pending[d] # None /\ d \notin overlaps =>
                        /\ Asking(pending[d].workload) = {d}
                        /\ allocations[pending[d].workload] = {}
<1>1. ASSUME NEW c \in Callers, NEW req \in Requests, AllocateCheck(c, req)
      PROVE  AloneFindsNothing'
  <2>1. /\ pending[c] = None /\ allocations[req.workload] = {}
        /\ allocations' = allocations
        /\ pending' = [pending EXCEPT ![c] = req]
        /\ overlaps' = IF Asking(req.workload) = {} THEN overlaps
                       ELSE overlaps \cup Asking(req.workload) \cup {c}
    BY <1>1 DEF AllocateCheck, NowAsking
  <2>2. pending'[c] = req /\ \A d \in Callers \ {c} : pending'[d] = pending[d]
    BY <2>1 DEF TypeOK
  <2>3. req # None
    BY SimulatorAssumption
  <2>4. \A w : Asking(w)' = IF w = req.workload THEN Asking(w) \cup {c} ELSE Asking(w)
    BY <2>1, <2>2, <2>3 DEF Asking
  <2>5. ASSUME NEW d \in Callers PROVE Fine(d)'
    <3>1. CASE d = c
      <4>1. Asking(req.workload) = {} \/ c \in overlaps'
        BY <2>1
      <4> QED BY <2>1, <2>2, <2>4, <3>1, <4>1
    <3>2. CASE d # c /\ pending[d] # None /\ d \notin overlaps'
      <4>1. d \notin overlaps /\ Fine(d) /\ pending'[d] = pending[d]
        BY <2>1, <2>2, <3>2 DEF AloneFindsNothing
      <4>2. pending[d].workload # req.workload
        BY <2>1, <3>2 DEF Asking
      <4> QED BY <2>1, <2>4, <3>2, <4>1, <4>2
    <3>3. CASE d # c /\ (pending[d] = None \/ d \in overlaps')
      BY <2>2, <3>3
    <3> QED BY <3>1, <3>2, <3>3
  <2> QED BY <2>5 DEF AloneFindsNothing
<1>2. ASSUME NEW c \in Callers, AllocateCommit(c)
      PROVE  AloneFindsNothing'
  <2>1. /\ pending[c] # None /\ overlaps' = overlaps \ {c}
        /\ pending' = [pending EXCEPT ![c] = None]
    BY <1>2 DEF AllocateCommit
  <2>2. pending'[c] = None /\ \A d \in Callers \ {c} : pending'[d] = pending[d]
    BY <2>1 DEF TypeOK
  <2>3. \A w : Asking(w)' = Asking(w) \ {c}
    BY <2>2 DEF Asking
  <2>4. \A w \in Workloads : w # pending[c].workload => allocations'[w] = allocations[w]
    BY <1>2, CommitGivesFreeDevices DEF TypeOK
  <2>5. ASSUME NEW d \in Callers, pending'[d] # None, d \notin overlaps' PROVE Fine(d)'
    <3>1. d # c /\ pending'[d] = pending[d] /\ d \notin overlaps
      BY <2>1, <2>2, <2>5
    <3>2. Fine(d)
      BY DEF AloneFindsNothing
    <3>3. pending[c].workload # pending[d].workload
      BY <2>1, <2>5, <3>1, <3>2 DEF Asking
    <3>4. pending[d].workload \in Workloads
      BY <2>5, <3>1, SimulatorAssumption DEF TypeOK
    <3> QED BY <2>3, <2>4, <2>5, <3>1, <3>2, <3>3, <3>4
  <2> QED BY <2>5 DEF AloneFindsNothing
<1>3. ASSUME NEW w \in Workloads, Release(w) PROVE AloneFindsNothing'
  <2>1. \A v \in Workloads : allocations[v] = {} => allocations'[v] = {}
    BY <1>3 DEF Release, TypeOK
  <2>2. \A d \in Callers : pending[d] # None => pending[d].workload \in Workloads
    BY SimulatorAssumption DEF TypeOK
  <2>3. UNCHANGED <<pending, overlaps>>
    BY <1>3 DEF Release, calls
  <2> QED BY <2>1, <2>2, <2>3 DEF AloneFindsNothing, Asking
<1>4. CASE Restart
  BY <1>4 DEF Restart, AloneFindsNothing
<1>5. CASE UNCHANGED <<allocations, pending, overlaps>>
  BY <1>5 DEF AloneFindsNothing, Asking
<1> QED
  BY <1>1, <1>2, <1>3, <1>4, <1>5
  DEF Next, vars, calls, RegisterFleet, DeleteFleet, Start, RunEnds,
      GetStatus, GetLatestRunStatusForWorkload, Complete, Preempt

LEMMA Invariance == Spec => []IInv
<1>1. IInv /\ [Next]_vars => IInv'
  BY NextTypeOK, NextDeviceExclusive, NextRunningIsLatest, NextAloneFindsNothing DEF IInv
<1> QED BY InitIInv, <1>1, PTL DEF Spec

\* The simulator keeps its state well formed whatever is called in which order.
THEOREM SimulatorTypeCorrect == Spec => []TypeOK
BY Invariance, PTL DEF IInv

\* The simulator never gives one device to two workloads, although it checks
\* for an existing allocation before it takes its lock (contract.go:114-160).
THEOREM SimulatorDeviceExclusive == Spec => []DeviceExclusive
BY Invariance, PTL DEF IInv

\* At most one run of a workload is Running, and it is the one that
\* GetLatestRunStatusForWorkload reads (contract.go:468-472, 536-544).
THEOREM SimulatorRunningIsLatest == Spec => []RunningIsLatest
BY Invariance, PTL DEF IInv

\* A run that has left Running never changes again while the process lives:
\* neither a late status poll nor a late Preempt rewrites an outcome.
THEOREM SimulatorTerminalIsFinal == Spec => TerminalIsFinal
<1> DEFINE Kept == runs' = << >> \/ \A r \in DOMAIN runs :
                     /\ r \in DOMAIN runs'
                     /\ runs'[r].workload = runs[r].workload
                     /\ ~IsRunning(r) => runs'[r].status = runs[r].status
<1>1. TypeOK /\ [Next]_vars => [Kept]_vars
  <2> SUFFICES ASSUME TypeOK, Next PROVE Kept
    OBVIOUS
  <2> USE DEF IsRunning
  <2>1. ASSUME NEW w \in Workloads, Start(w) PROVE Kept
    BY <2>1 DEF Start, TypeOK
  <2>2. ASSUME NEW r \in DOMAIN runs, RunEnds(r) PROVE Kept
    BY <2>2 DEF RunEnds, TypeOK, Run
  <2>3. ASSUME NEW r \in DOMAIN runs, Complete(r) PROVE Kept
    BY <2>3 DEF Complete, TypeOK, Run
  <2>4. ASSUME NEW w \in Workloads, Preempt(w) PROVE Kept
    BY <2>4 DEF Preempt, RunsOf, TypeOK, Run
  <2>5. CASE Restart
    BY <2>5 DEF Restart
  <2>6. CASE UNCHANGED runs
    BY <2>6
  <2> QED
    BY <2>1, <2>2, <2>3, <2>4, <2>5, <2>6
    DEF Next, RegisterFleet, DeleteFleet, AllocateCheck, AllocateCommit,
        GetStatus, GetLatestRunStatusForWorkload, RunsOf, Release
<1> QED BY <1>1, SimulatorTypeCorrect, PTL DEF Spec, TerminalIsFinal

-----------------------------------------------------------------------------
(* The simulator implements the ledger of devices. *)

Owner == [d \in usedDevices |-> CHOOSE w \in Workloads : d \in allocations[w]]

Asked == [c \in Callers |-> IF pending[c] = None THEN None ELSE pending[c].workload]

\* Exclusive allocation makes the choice in the refinement mapping unique.
LEMMA OwnerIsHolder ==
  ASSUME DeviceExclusive, NEW w \in Workloads, NEW d \in allocations[w]
  PROVE  d \in DOMAIN Owner /\ Owner[d] = w
<1>1. d \in usedDevices
  BY DEF usedDevices
<1>2. \A v \in Workloads : d \in allocations[v] => v = w
  BY DEF DeviceExclusive
<1>3. (CHOOSE v \in Workloads : d \in allocations[v]) = w
  BY <1>2
<1> QED BY <1>1, <1>3 DEF Owner

LEMMA LedgerHeldBy ==
  ASSUME DeviceExclusive, NEW w \in Workloads
  PROVE  {d \in DOMAIN Owner : Owner[d] = w} = allocations[w]
<1>1. ASSUME NEW d \in DOMAIN Owner, Owner[d] = w PROVE d \in allocations[w]
  <2>1. PICK v \in Workloads : d \in allocations[v]
    BY DEF Owner, usedDevices
  <2> QED BY <1>1, <2>1, OwnerIsHolder
<1> QED BY <1>1, OwnerIsHolder

\* The ledger after the devices of w are replaced by S.
Updated(w, S) == [d \in (DOMAIN Owner \ allocations[w]) \cup S |->
                    IF d \in S THEN w ELSE Owner[d]]

\* Replacing the devices of one workload by free ones replaces its entries in
\* the ledger and no others.
LEMMA LedgerUpdate ==
  ASSUME TypeOK, DeviceExclusive, DeviceExclusive',
         NEW w \in Workloads, NEW S \in SUBSET Device,
         S \cap usedDevices = {},
         allocations' = [allocations EXCEPT ![w] = S]
  PROVE  Owner' = Updated(w, S)
<1> DEFINE D == (DOMAIN Owner \ allocations[w]) \cup S
<1>1. /\ allocations'[w] = S
      /\ \A v \in Workloads \ {w} : allocations'[v] = allocations[v]
  BY DEF TypeOK
<1>2. usedDevices' = D
  <2>1. usedDevices' = S \cup UNION {allocations[v] : v \in Workloads \ {w}}
    BY <1>1 DEF usedDevices
  <2>2. usedDevices \ allocations[w] = UNION {allocations[v] : v \in Workloads \ {w}}
    BY DEF usedDevices, DeviceExclusive
  <2> QED BY <2>1, <2>2 DEF Owner
<1>3. ASSUME NEW d \in D PROVE Owner'[d] = IF d \in S THEN w ELSE Owner[d]
  <2>1. CASE d \in S
    <3>1. \A v \in Workloads : d \in allocations'[v] => v = w
      BY <1>1, <2>1 DEF DeviceExclusive
    <3>2. (CHOOSE v \in Workloads : d \in allocations'[v]) = w
      BY <1>1, <2>1, <3>1
    <3> QED BY <1>2, <2>1, <3>2 DEF Owner
  <2>2. CASE d \notin S
    <3>1. PICK v \in Workloads : d \in allocations[v]
      BY <2>2 DEF Owner, usedDevices
    <3>2. v # w /\ d \in allocations'[v]
      BY <1>1, <2>2, <3>1
    <3>3. \A u \in Workloads : d \in allocations'[u] => u = v
      BY <3>2 DEF DeviceExclusive
    <3>4. (CHOOSE u \in Workloads : d \in allocations'[u]) = v
      BY <3>2, <3>3
    <3>5. Owner'[d] = v
      BY <1>2, <3>4 DEF Owner
    <3> QED BY <2>2, <3>1, <3>5, OwnerIsHolder
  <2> QED BY <2>1, <2>2
<1> QED BY <1>2, <1>3 DEF Owner, Updated

\* A call that begins or ends is entered and taken out.
LEMMA AskedUpdate ==
  ASSUME TypeOK, NEW c \in Callers, NEW req \in Requests \cup {None},
         pending' = [pending EXCEPT ![c] = req]
  PROVE  Asked' = [Asked EXCEPT ![c] = IF req = None THEN None ELSE req.workload]
BY DEF Asked, TypeOK

LEMMA AskedIsAsking ==
  ASSUME NEW w \in Workloads
  PROVE  {c \in Callers : Asked[c] = w} = Asking(w)
BY SimulatorAssumption DEF Asked, Asking

\* Every step of the simulator is a step of the ledger or does not change it.
LEMMA LedgerStep ==
  ASSUME IInv, IInv', [Next]_vars
  PROVE  Ledger!Next \/ UNCHANGED <<Owner, Asked, overlaps>>
<1> USE DEF IInv
<1>1. ASSUME NEW c \in Callers, AllocateCommit(c)
      PROVE  Ledger!Refuse(c) \/ \E S \in SUBSET Device : Ledger!Reserve(c, S)
  <2>1. pending[c] # None /\ pending' = [pending EXCEPT ![c] = None]
        /\ overlaps' = overlaps \ {c}
    BY <1>1 DEF AllocateCommit
  <2>2. Asked[c] = pending[c].workload /\ Asked[c] # None
    BY <2>1, SimulatorAssumption DEF Asked, TypeOK
  <2>3. Asked' = [Asked EXCEPT ![c] = None]
    BY <2>1, AskedUpdate
  <2>4. Ledger!Answered(c)
    BY <2>1, <2>2, <2>3, Zenon DEF Ledger!Answered, Asked
  <2>5. CASE allocations' = allocations
    <3>1. UNCHANGED Owner
      BY <2>5 DEF Owner, usedDevices
    <3> QED BY <2>4, <3>1, Zenon DEF Ledger!Refuse, Owner
  <2>6. ASSUME NEW S \in SUBSET Device, NEW w \in Workloads,
               S \cap usedDevices = {}, w = pending[c].workload,
               allocations' = [allocations EXCEPT ![w] = S]
        PROVE  Ledger!Reserve(c, S)
    <3>1. S \cap DOMAIN Owner = {}
      BY <2>6 DEF Owner
    <3>2. Owner' = Updated(w, S)
      BY <2>6, LedgerUpdate
    <3>3. Ledger!HeldBy(w) = allocations[w]
      BY LedgerHeldBy DEF Ledger!HeldBy, Owner
    <3>4. Ledger!HeldBy(w) = {} \/ c \in overlaps
      BY <2>1, <2>6, <3>3 DEF AloneFindsNothing
    <3>5. w = Asked[c]
      BY <2>2, <2>6
    <3>6. Ledger!HeldBy(Asked[c]) = {} \/ c \in overlaps
      BY <3>4, <3>5, Zenon
    <3>7. Owner' = [d \in (DOMAIN Owner \ Ledger!HeldBy(Asked[c])) \cup S |->
                      IF d \in S THEN Asked[c] ELSE Owner[d]]
      BY <3>2, <3>3, <3>5, Zenon DEF Updated
    <3> QED BY <2>4, <3>1, <3>6, <3>7, Zenon DEF Ledger!Reserve, Owner, Asked
  <2> QED BY <1>1, <2>5, <2>6, CommitGivesFreeDevices
<1>2. ASSUME NEW c \in Callers, NEW req \in Requests, AllocateCheck(c, req)
      PROVE  Ledger!Ask(c, req.workload)
  <2> DEFINE w == req.workload
  <2>1. /\ pending[c] = None /\ allocations[w] = {} /\ allocations' = allocations
        /\ pending' = [pending EXCEPT ![c] = req]
        /\ overlaps' = IF Asking(w) = {} THEN overlaps ELSE overlaps \cup Asking(w) \cup {c}
    BY <1>2 DEF AllocateCheck, NowAsking
  <2>2. w \in Workloads /\ req # None
    BY SimulatorAssumption
  <2>3. Asked[c] = None
    BY <2>1 DEF Asked
  <2>4. Asked' = [Asked EXCEPT ![c] = w]
    BY <2>1, <2>2, AskedUpdate
  <2>5. {d \in Callers : Asked[d] = w} = Asking(w)
    BY <2>2, AskedIsAsking
  <2>6. Ledger!HeldBy(w) = {}
    BY <2>1, <2>2, LedgerHeldBy DEF Ledger!HeldBy, Owner
  <2>7. UNCHANGED Owner
    BY <2>1 DEF Owner, usedDevices
  <2> HIDE DEF w
  <2> QED BY <2>1, <2>3, <2>4, <2>5, <2>6, <2>7, Zenon DEF Ledger!Ask, Owner, Asked, w
<1>3. ASSUME NEW w \in Workloads, Release(w)
      PROVE  Ledger!Relinquish(w)
  <2>1. PICK S \in SUBSET Device : S = {}
    OBVIOUS
  <2>2. S \cap usedDevices = {} /\ allocations' = [allocations EXCEPT ![w] = S]
    BY <1>3, <2>1 DEF Release
  <2>3. Owner' = Updated(w, S)
    BY <2>2, LedgerUpdate
  <2>4. Owner' = [d \in DOMAIN Owner \ allocations[w] |-> Owner[d]]
    <3> DEFINE D == DOMAIN Owner \ allocations[w]
    <3>1. D \cup S = D
      BY <2>1
    <3>2. Owner' = [d \in D |-> IF d \in S THEN w ELSE Owner[d]]
      BY <2>3, <3>1 DEF Updated
    <3>3. [d \in D |-> IF d \in S THEN w ELSE Owner[d]] = [d \in D |-> Owner[d]]
      BY <2>1
    <3> QED BY Zenon, <3>2, <3>3
  <2>5. Ledger!HeldBy(w) = allocations[w]
    BY LedgerHeldBy DEF Ledger!HeldBy, Owner
  <2>6. UNCHANGED <<Asked, overlaps>>
    BY <1>3 DEF Release, calls, Asked
  <2> QED BY Zenon, <2>4, <2>5, <2>6 DEF Ledger!Relinquish, Owner, Asked
<1>4. ASSUME Restart PROVE Ledger!Reset
  <2>1. usedDevices' = {}
    BY <1>4 DEF Restart, usedDevices
  <2>2. Asked' = [c \in Callers |-> None] /\ overlaps' = {}
    BY <1>4 DEF Restart, Asked
  <2> QED BY <2>1, <2>2 DEF Ledger!Reset, Asked
<1>5. CASE UNCHANGED <<allocations, pending, overlaps>>
  BY <1>5 DEF Owner, usedDevices, Asked
<1>6. CASE \E c \in Callers, req \in Requests : AllocateCheck(c, req)
  BY <1>2, <1>6, SimulatorAssumption DEF Ledger!Next
<1>7. CASE \E c \in Callers : AllocateCommit(c)
  BY <1>1, <1>7 DEF Ledger!Next
<1>8. CASE \/ \E w \in Workloads : Release(w)
           \/ Restart
  BY <1>3, <1>4, <1>8 DEF Ledger!Next
<1> QED
  BY <1>5, <1>6, <1>7, <1>8
  DEF Next, vars, calls, RegisterFleet, DeleteFleet, Start, RunEnds,
      GetStatus, GetLatestRunStatusForWorkload, Complete, Preempt

\* The simulator implements DeviceLedger: for every interleaving of its calls,
\* devices are handed out only while free, never move between workloads, and are
\* never taken from a workload by a call that overlapped no other one for it.
THEOREM SimulatorImplementsLedger == Spec => ImplementsLedger
<1>1. Init => Ledger!Init
  <2> SUFFICES ASSUME Init PROVE Ledger!Init
    OBVIOUS
  <2>1. usedDevices = {}
    BY DEF Init, usedDevices
  <2>2. Asked = [c \in Callers |-> None] /\ overlaps = {}
    BY DEF Init, Asked
  <2> QED BY <2>1, <2>2 DEF Ledger!Init, Asked
<1>2. IInv /\ IInv' /\ [Next]_vars =>
        [Ledger!Next]_<<[d \in usedDevices |->
                            CHOOSE w \in Workloads : d \in allocations[w]],
                        [c \in Callers |-> IF pending[c] = None THEN None
                                           ELSE pending[c].workload],
                        overlaps>>
  BY LedgerStep DEF Owner, Asked
<1> QED BY <1>1, <1>2, Invariance, PTL DEF Spec, ImplementsLedger, Ledger!Spec

-----------------------------------------------------------------------------
(* The reported usage. *)

\* A pool has finitely many devices.
LEMMA DevicesFinite ==
  ASSUME TypeOK, NEW k \in PoolKeys
  PROVE  IsFiniteSet(DevicesOf(k))
<1>1. CASE pools[k] = None
  BY <1>1, FS_EmptySet DEF DevicesOf
<1>2. CASE pools[k] # None
  <2> DEFINE spec == pools[k]
             N == 0 .. spec.nodeCount - 1
             G == 0 .. spec.devicesPerNode - 1
             dev == [x \in N \X G |-> [pool |-> k, node |-> x[1], gpu |-> x[2]]]
  <2>1. spec.nodeCount \in Nat \ {0} /\ spec.devicesPerNode \in Nat \ {0}
    BY <1>2, SimulatorAssumption DEF TypeOK
  <2>2. IsFiniteSet(N \X G)
    <3>1. IsFiniteSet(N) /\ IsFiniteSet(G)
      <4>1. 0 \in Int /\ spec.nodeCount - 1 \in Int /\ spec.devicesPerNode - 1 \in Int
        BY <2>1
      <4> HIDE DEF spec
      <4> QED BY <4>1, FS_Interval
    <3> HIDE DEF N, G
    <3> QED BY <3>1, FS_Product
  <2>3. dev \in Surjection(N \X G, DevicesOf(k))
    <3>1. DevicesOf(k) = {[pool |-> k, node |-> i, gpu |-> j] : i \in N, j \in G}
      BY <1>2 DEF DevicesOf, buildNodesWithPoolKey
    <3> HIDE DEF N, G
    <3>2. \A i \in N, j \in G : dev[<<i, j>>] = [pool |-> k, node |-> i, gpu |-> j]
      OBVIOUS
    <3>3. dev \in [N \X G -> DevicesOf(k)]
      BY <3>1
    <3>4. ASSUME NEW d \in DevicesOf(k) PROVE \E x \in N \X G : dev[x] = d
      <4>1. PICK i \in N, j \in G : d = [pool |-> k, node |-> i, gpu |-> j]
        BY <3>1
      <4>2. <<i, j>> \in N \X G
        OBVIOUS
      <4> HIDE DEF dev
      <4> QED BY <3>2, <4>1, <4>2
    <3> QED BY <3>3, <3>4 DEF Surjection
  <2> QED BY <2>2, <2>3, FS_Surjection
<1> QED BY <1>1, <1>2

LEMMA AllNodesFinite ==
  TypeOK => IsFiniteSet(allNodes)
<1> SUFFICES ASSUME TypeOK PROVE IsFiniteSet(allNodes)
  OBVIOUS
<1> DEFINE D == [k \in PoolKeys |-> DevicesOf(k)]
           S == {DevicesOf(k) : k \in PoolKeys}
<1>1. D \in Surjection(PoolKeys, S)
  BY DEF Surjection
<1>2. IsFiniteSet(S)
  BY <1>1, FS_Surjection, SimulatorFinite
<1>3. \A T \in S : IsFiniteSet(T)
  BY DevicesFinite
<1> QED BY <1>2, <1>3, FS_UNION DEF allNodes

\* Allocations are finite: they are taken from the devices of the pools.
AllocationsFinite == \A w \in Workloads : IsFiniteSet(allocations[w])

LEMMA NextAllocationsFinite ==
  TypeOK /\ AllocationsFinite /\ [Next]_vars => AllocationsFinite'
<1> SUFFICES ASSUME TypeOK, AllocationsFinite, [Next]_vars PROVE AllocationsFinite'
  OBVIOUS
<1>1. ASSUME NEW c \in Callers, AllocateCommit(c) PROVE AllocationsFinite'
  <2> DEFINE req == pending[c]
             E == computeEligibleDevicesPerNode(req)
             picked(ord) == pickDevices(E, ord, req.gpuCount, req.opts)
  <2>1. PICK ord \in PoolOrders :
          IF Cardinality(picked(ord)) < req.gpuCount
            THEN UNCHANGED allocations
            ELSE allocations' = [allocations EXCEPT ![req.workload] = picked(ord)]
    BY <1>1 DEF AllocateCommit
  <2>2. E \subseteq allNodes
    BY DEF computeEligibleDevicesPerNode
  <2>3. picked(ord) \subseteq E
    BY PickDevicesPicksEligible
  <2> HIDE DEF picked, E
  <2>4. IsFiniteSet(picked(ord))
    BY <2>2, <2>3, AllNodesFinite, FS_Subset
  <2> QED BY <2>1, <2>4 DEF TypeOK, AllocationsFinite
<1>2. ASSUME NEW w \in Workloads, Release(w) PROVE AllocationsFinite'
  BY <1>2, FS_EmptySet DEF Release, TypeOK, AllocationsFinite
<1>3. CASE Restart
  BY <1>3, FS_EmptySet DEF Restart, AllocationsFinite
<1>4. CASE UNCHANGED allocations
  BY <1>4 DEF AllocationsFinite
<1> QED
  BY <1>1, <1>2, <1>3, <1>4
  DEF Next, vars, RegisterFleet, DeleteFleet, AllocateCheck, Start, RunEnds,
      GetStatus, GetLatestRunStatusForWorkload, Complete, Preempt

\* The devices of a pool in use, workload by workload.
HeldIn(k) == [w \in Workloads |-> {d \in allocations[w] : d.pool = k}]

LEMMA PoolSum ==
  ASSUME AllocationsFinite, NEW k
  PROVE  FleetUsageForPool(k).allocated =
           Total([w \in Workloads |-> Cardinality(HeldIn(k)[w])], Workloads)
<1> DEFINE f == [w \in Workloads |-> Cardinality(HeldIn(k)[w])]
           Q(R) == R = [s \in SUBSET Workloads |->
                          IF s = {} THEN 0
                          ELSE Cardinality({d \in allocations[AnyOf(s)] : d.pool = k})
                                 + R[s \ {AnyOf(s)}]]
<1>1. \A w \in Workloads : f[w] \in Int /\ f[w] = Cardinality({d \in allocations[w] : d.pool = k})
  BY FS_Subset, FS_CardinalityType DEF HeldIn, AllocationsFinite
<1>2. FleetUsageForPool(k).allocated = (CHOOSE R : Q(R))[Workloads]
  BY DEF FleetUsageForPool, MapThenSumSet, MapThenFoldSet, AnyOf
<1>3. \A s \in SUBSET Workloads : s # {} => AnyOf(s) \in Workloads
  BY DEF AnyOf
<1>4. \A R : Q(R) <=> Solves(R, f, Workloads)
  BY <1>1, <1>3 DEF Solves
<1> HIDE DEF Q, f
<1>5. \E R : Q(R)
  BY <1>1, <1>4, SolutionExists, SimulatorFinite
<1>6. Solves(CHOOSE R : Q(R), f, Workloads)
  BY <1>4, <1>5
<1>7. (CHOOSE R : Q(R))[Workloads] = Total(f, Workloads)
  BY <1>1, <1>6, SolutionIsTotal, SimulatorFinite
<1> QED BY <1>2, <1>7 DEF f

LEMMA FleetSum ==
  ASSUME AllocationsFinite
  PROVE  FleetUsage.allocated =
           Total([w \in Workloads |-> Cardinality(allocations[w])], Workloads)
<1> DEFINE f == [w \in Workloads |-> Cardinality(allocations[w])]
           Q(R) == R = [s \in SUBSET Workloads |->
                          IF s = {} THEN 0
                          ELSE Cardinality(allocations[AnyOf(s)]) + R[s \ {AnyOf(s)}]]
<1>1. \A w \in Workloads : f[w] \in Int /\ f[w] = Cardinality(allocations[w])
  BY FS_CardinalityType DEF AllocationsFinite
<1>2. FleetUsage.allocated = (CHOOSE R : Q(R))[Workloads]
  BY DEF FleetUsage, MapThenSumSet, MapThenFoldSet, AnyOf
<1>3. \A s \in SUBSET Workloads : s # {} => AnyOf(s) \in Workloads
  BY DEF AnyOf
<1>4. \A R : Q(R) <=> Solves(R, f, Workloads)
  BY <1>1, <1>3 DEF Solves
<1> HIDE DEF Q, f
<1>5. \E R : Q(R)
  BY <1>1, <1>4, SolutionExists, SimulatorFinite
<1>6. Solves(CHOOSE R : Q(R), f, Workloads)
  BY <1>4, <1>5
<1>7. (CHOOSE R : Q(R))[Workloads] = Total(f, Workloads)
  BY <1>1, <1>6, SolutionIsTotal, SimulatorFinite
<1> QED BY <1>2, <1>7 DEF f

LEMMA SubsetGap ==
  ASSUME NEW S, IsFiniteSet(S), NEW T \in SUBSET S, IsFiniteSet(T)
  PROVE  Cardinality(S) - Cardinality(T) = Cardinality(S \ T)
<1>1. S \cap T = T
  OBVIOUS
<1>2. Cardinality(S \ T) = Cardinality(S) - Cardinality(T)
  BY <1>1, FS_Difference
<1> QED BY <1>2

\* Because no device is allocated twice, the sums over the allocations count
\* every device in use once.
LEMMA ExactUsage ==
  TypeOK /\ DeviceExclusive /\ AllocationsFinite => UsageIsExact
<1> SUFFICES ASSUME TypeOK, DeviceExclusive, AllocationsFinite PROVE UsageIsExact
  OBVIOUS
<1>1. ASSUME NEW k \in PoolKeys
      PROVE  LET used == {d \in usedDevices : d.pool = k}
             IN  used \subseteq DevicesOf(k) =>
                   FleetUsageForPool(k).available = Cardinality(DevicesOf(k) \ used)
  <2> DEFINE used == {d \in usedDevices : d.pool = k}
             A == HeldIn(k)
  <2>1. \A w \in Workloads : IsFiniteSet(A[w])
    BY FS_Subset DEF AllocationsFinite, HeldIn
  <2>2. \A v, w \in Workloads : v # w => A[v] \cap A[w] = {}
    BY DEF DeviceExclusive, HeldIn
  <2>3. used = UNION {A[w] : w \in Workloads}
    BY DEF usedDevices, HeldIn
  <2> HIDE DEF A, used
  <2>4. /\ IsFiniteSet(used)
        /\ Cardinality(used) = Total([w \in Workloads |-> Cardinality(A[w])], Workloads)
    BY <2>1, <2>2, <2>3, TotalOfDisjoint, SimulatorFinite
  <2>5. FleetUsageForPool(k).available = Cardinality(DevicesOf(k)) - Cardinality(used)
    <3>1. FleetUsageForPool(k).allocated = Cardinality(used)
      BY <2>4, PoolSum DEF A
    <3>2. FleetUsageForPool(k).available =
            Cardinality(DevicesOf(k)) - FleetUsageForPool(k).allocated
      BY DEF FleetUsageForPool
    <3> QED BY <3>1, <3>2
  <2> QED BY <2>4, <2>5, DevicesFinite, SubsetGap DEF used
<1>2. usedDevices \subseteq allNodes =>
        FleetUsage.available = Cardinality(allNodes \ usedDevices)
  <2>1. /\ IsFiniteSet(usedDevices)
        /\ Cardinality(usedDevices) =
             Total([w \in Workloads |-> Cardinality(allocations[w])], Workloads)
    BY TotalOfDisjoint, SimulatorFinite DEF AllocationsFinite, DeviceExclusive, usedDevices
  <2>2. FleetUsage.available = Cardinality(allNodes) - Cardinality(usedDevices)
    <3>1. FleetUsage.allocated = Cardinality(usedDevices)
      BY <2>1, FleetSum
    <3>2. FleetUsage.available = Cardinality(allNodes) - FleetUsage.allocated
      BY DEF FleetUsage
    <3> QED BY <3>1, <3>2
  <2> QED BY <2>1, <2>2, AllNodesFinite, SubsetGap
<1> QED BY <1>1, <1>2 DEF UsageIsExact

\* The usage that the simulator reports is exact in every state in which no device
\* is held that its pool no longer has, for every number of pools, workloads and
\* callers (state.go:53-120).
THEOREM SimulatorUsageIsExact == Spec => []UsageIsExact
<1>1. Init => AllocationsFinite
  BY FS_EmptySet DEF Init, AllocationsFinite
<1>2. IInv /\ AllocationsFinite /\ [Next]_vars => AllocationsFinite'
  BY NextAllocationsFinite DEF IInv
<1>3. IInv /\ AllocationsFinite => UsageIsExact
  BY ExactUsage DEF IInv
<1> QED BY <1>1, <1>2, <1>3, Invariance, PTL DEF Spec
=============================================================================
