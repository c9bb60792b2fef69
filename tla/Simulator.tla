----------------------------- MODULE Simulator -----------------------------
(***************************************************************************)
(* The accelerator simulator of internal/sim: a registry of device pools,  *)
(* the device allocations of workloads, and their runs.                    *)
(*                                                                         *)
(* Every exported method is one action, because it holds s.mu from start   *)
(* to end, except AllocateWithOptions: it checks that the workload has no  *)
(* allocation before it takes the lock, so it is two actions.  A call that *)
(* returns an error before it changes anything is a stuttering step and    *)
(* has no action.                                                          *)
(***************************************************************************)
EXTENDS Placement, Sequences, FiniteSetsExt

CONSTANTS
  PoolKeys,   \* keys of device pools, namespace/name of a GPUNodePool
  PoolSpecs,  \* the GPUNodePoolSpecs that pools are registered with
  Workloads,  \* workload IDs
  Requests,   \* the arguments AllocateWithOptions is called with
  Callers,    \* goroutines that call AllocateWithOptions
  MaxRuns,    \* bound on the runs started by one process
  None        \* "no such thing": a pool or a call that does not exist

\* buildNodesWithPoolKey and AllocateWithOptions reject everything else.
ASSUME SimulatorAssumption ==
  /\ \A s \in PoolSpecs : /\ {s.nodeCount, s.devicesPerNode} \subseteq Nat \ {0}
                          /\ s.memMiB \in Nat \ {0}
  /\ \A r \in Requests : /\ r.workload \in Workloads
                         /\ {r.gpuCount, r.memMiB} \subseteq Nat \ {0}
  /\ None \notin PoolSpecs \cup Requests \cup Workloads
  /\ MaxRuns \in Nat

\* The maps of a process hold finitely many entries.
ASSUME SimulatorFinite == IsFiniteSet(PoolKeys) /\ IsFiniteSet(Workloads)

VARIABLES
  pools,        \* s.pools: the spec of each registered pool, or None
  allocations,  \* s.allocations: the devices of each workload, {} if none
  runs,         \* s.runs, in the order of their run IDs, which restart at 1
  pending,      \* for each caller the request that passed the unlocked check
  overlaps      \* history: the callers in pending that met another one of their
                \* workload there; no action depends on it

calls == <<pending, overlaps>>

vars == <<pools, allocations, runs, pending, overlaps>>

-----------------------------------------------------------------------------
RunStatus == {"Running", "Succeeded", "Preempted"}

\* ended: the clock has reached EndsAt.
Run == [workload : Workloads, status : RunStatus, ended : BOOLEAN]

\* The IDs of the devices a pool consists of.  They say nothing of the
\* device's memory or profile.
buildNodesWithPoolKey(spec, k) ==
  {[pool |-> k, node |-> i, gpu |-> j] :
     i \in 0 .. spec.nodeCount - 1, j \in 0 .. spec.devicesPerNode - 1}

\* Every device some registration can create.
Device == UNION {buildNodesWithPoolKey(spec, k) : spec \in PoolSpecs, k \in PoolKeys}

DevicesOf(k) == IF pools[k] = None THEN {} ELSE buildNodesWithPoolKey(pools[k], k)

allNodes == UNION {DevicesOf(k) : k \in PoolKeys}

PoolOrders == {f \in [PoolKeys -> 1 .. Cardinality(PoolKeys)] :
                 \A j, k \in PoolKeys : f[j] = f[k] => j = k}

usedDevices == UNION {allocations[w] : w \in Workloads}

\* An empty preference accepts every device.
Matches(preferred, actual) == preferred = "" \/ preferred = actual

\* Mutant of computeEligibleDevicesPerNode: devices in use are not skipped.
EligibleThoughTaken(req) ==
  {d \in allNodes : pools[d.pool].memMiB >= req.memMiB}

computeEligibleDevicesPerNode(req) ==
  {d \in allNodes \ usedDevices :
     LET spec == pools[d.pool]
     IN  /\ spec.memMiB >= req.memMiB
         /\ Matches(req.opts.deviceType, spec.deviceType)
         /\ Matches(req.opts.profile, spec.profile)}

RunsOf(w) == {r \in DOMAIN runs : runs[r].workload = w}

IsRunning(r) == runs[r].status = "Running"

\* Mutant of FleetUsageForPool: an allocation that touches the pool counts whole.
UsageByAllocation(k) ==
  LET total == Cardinality(DevicesOf(k))
      allocated == MapThenSumSet(
                     LAMBDA w : IF \E d \in allocations[w] : d.pool = k
                                  THEN Cardinality(allocations[w]) ELSE 0,
                     Workloads)
  IN  [total |-> total, allocated |-> allocated, available |-> total - allocated]

\* FleetUsageForPool of a registered pool.  The devices of a pool are counted
\* over all allocations, by the prefix of their IDs.
FleetUsageForPool(k) ==
  LET total == Cardinality(DevicesOf(k))
      allocated == MapThenSumSet(
                     LAMBDA w : Cardinality({d \in allocations[w] : d.pool = k}),
                     Workloads)
  IN  [total |-> total, allocated |-> allocated, available |-> total - allocated]

FleetUsage ==
  LET total == Cardinality(allNodes)
      allocated == MapThenSumSet(LAMBDA w : Cardinality(allocations[w]), Workloads)
  IN  [total |-> total, allocated |-> allocated, available |-> total - allocated]

-----------------------------------------------------------------------------
\* NewSimulator
Init ==
  /\ pools = [k \in PoolKeys |-> None]
  /\ allocations = [w \in Workloads |-> {}]
  /\ runs = << >>
  /\ pending = [c \in Callers |-> None]
  /\ overlaps = {}

\* Allocations are left as they are, whatever the new spec.
RegisterFleet(k, spec) ==
  /\ pools' = [pools EXCEPT ![k] = spec]
  /\ UNCHANGED <<allocations, runs, calls>>

DeleteFleet(k) ==
  /\ pools[k] # None
  /\ pools' = [pools EXCEPT ![k] = None]
  /\ UNCHANGED <<allocations, runs, calls>>

\* The callers between the check and the lock with a request for w.
Asking(w) == {c \in Callers : pending[c] # None /\ pending[c].workload = w}

NowAsking(c, req) ==
  LET others == Asking(req.workload)
  IN  /\ pending' = [pending EXCEPT ![c] = req]
      /\ overlaps' = IF others = {} THEN overlaps ELSE overlaps \cup others \cup {c}

\* Mutant of AllocateCheck: no check for an existing allocation.
AllocateCheckPools(c, req) ==
  /\ pending[c] = None
  /\ \E k \in PoolKeys : pools[k] # None
  /\ NowAsking(c, req)
  /\ UNCHANGED <<pools, allocations, runs>>

\* AllocateWithOptions up to s.mu.Lock(): the checks read the maps unlocked.
AllocateCheck(c, req) ==
  /\ pending[c] = None
  /\ allocations[req.workload] = {}
  /\ \E k \in PoolKeys : pools[k] # None
  /\ NowAsking(c, req)
  /\ UNCHANGED <<pools, allocations, runs>>

\* The rest of AllocateWithOptions, under the lock.
AllocateCommit(c) ==
  /\ pending[c] # None
  /\ pending' = [pending EXCEPT ![c] = None]
  /\ overlaps' = overlaps \ {c}
  /\ UNCHANGED <<pools, runs>>
  /\ LET req == pending[c]
     IN  \E ord \in PoolOrders :
           LET picked == pickDevices(computeEligibleDevicesPerNode(req), ord,
                                     req.gpuCount, req.opts)
           IN  IF Cardinality(picked) < req.gpuCount
                 THEN UNCHANGED allocations
                 ELSE allocations' = [allocations EXCEPT ![req.workload] = picked]

\* Mutant of Start: no check for a run that is still Running.
StartAgain(w) ==
  /\ Len(runs) < MaxRuns
  /\ allocations[w] # {}
  /\ runs' = Append(runs, [workload |-> w, status |-> "Running", ended |-> FALSE])
  /\ UNCHANGED <<pools, allocations, calls>>

\* StartWithRuntimeInput.  A run takes at least one second (estimateDuration).
Start(w) ==
  /\ Len(runs) < MaxRuns
  /\ allocations[w] # {}
  /\ ~\E r \in RunsOf(w) : IsRunning(r)
  /\ runs' = Append(runs, [workload |-> w, status |-> "Running", ended |-> FALSE])
  /\ UNCHANGED <<pools, allocations, calls>>

\* The clock reaches EndsAt of run r.
RunEnds(r) ==
  /\ IsRunning(r) /\ ~runs[r].ended
  /\ runs' = [runs EXCEPT ![r].ended = TRUE]
  /\ UNCHANGED <<pools, allocations, calls>>

\* Mutant of Complete: the run is left with the status of a new record.
CompleteUnset(r) ==
  /\ IsRunning(r) /\ runs[r].ended
  /\ runs' = [runs EXCEPT ![r].status = ""]
  /\ UNCHANGED <<pools, allocations, calls>>

\* Reading the status of a run is what completes it.
Complete(r) ==
  /\ IsRunning(r) /\ runs[r].ended
  /\ runs' = [runs EXCEPT ![r].status = "Succeeded"]
  /\ UNCHANGED <<pools, allocations, calls>>

GetStatus(r) == Complete(r)

\* Mutant of GetLatestRunStatusForWorkload: the comparison of start times is
\* the wrong way round.
GetEarliestRunStatusForWorkload(w) ==
  \E r \in RunsOf(w) : (\A s \in RunsOf(w) : r <= s) /\ Complete(r)

GetLatestRunStatusForWorkload(w) ==
  \E r \in RunsOf(w) : (\A s \in RunsOf(w) : s <= r) /\ Complete(r)

\* Mutant of Preempt: any run of the workload is stopped, finished ones too.
PreemptAny(w) ==
  \E r \in RunsOf(w) :
    /\ runs' = [runs EXCEPT ![r].status = "Preempted"]
    /\ UNCHANGED <<pools, allocations, calls>>

\* A run that has ended but whose status nobody has read is preempted too.
\* The devices stay allocated.
Preempt(w) ==
  \E r \in RunsOf(w) :
    /\ IsRunning(r)
    /\ runs' = [runs EXCEPT ![r].status = "Preempted"]
    /\ UNCHANGED <<pools, allocations, calls>>

\* The runs of the workload stay as they are.
Release(w) ==
  /\ allocations[w] # {}
  /\ allocations' = [allocations EXCEPT ![w] = {}]
  /\ UNCHANGED <<pools, runs, calls>>

\* The process restarts; nothing is persisted.
Restart ==
  /\ pools' = [k \in PoolKeys |-> None]
  /\ allocations' = [w \in Workloads |-> {}]
  /\ runs' = << >>
  /\ pending' = [c \in Callers |-> None]
  /\ overlaps' = {}

Next ==
  \/ \E k \in PoolKeys, spec \in PoolSpecs : RegisterFleet(k, spec)
  \/ \E k \in PoolKeys : DeleteFleet(k)
  \/ \E c \in Callers, req \in Requests : AllocateCheck(c, req)
  \/ \E c \in Callers : AllocateCommit(c)
  \/ \E w \in Workloads : Start(w)
  \/ \E r \in DOMAIN runs : RunEnds(r)
  \/ \E r \in DOMAIN runs : GetStatus(r)
  \/ \E w \in Workloads : GetLatestRunStatusForWorkload(w)
  \/ \E w \in Workloads : Preempt(w)
  \/ \E w \in Workloads : Release(w)
  \/ Restart

Spec == Init /\ [][Next]_vars

\* Time passes, and callers poll the latest run of each workload: the operator
\* requeues a Running workload (pollRunningStatus).
FairSpec ==
  /\ Spec
  /\ \A r \in 1 .. MaxRuns : WF_vars(r \in DOMAIN runs /\ RunEnds(r))
  /\ \A w \in Workloads : WF_vars(GetLatestRunStatusForWorkload(w))
-----------------------------------------------------------------------------
TypeOK ==
  /\ pools \in [PoolKeys -> PoolSpecs \cup {None}]
  /\ allocations \in [Workloads -> SUBSET Device]
  /\ runs \in Seq(Run)
  /\ pending \in [Callers -> Requests \cup {None}]
  /\ overlaps \in SUBSET Callers

\* No device is allocated to two workloads, whatever the interleaving of the
\* two halves of concurrent allocations, re-registrations and releases
\* (contract.go:126-160: used devices are collected under the lock).
DeviceExclusive ==
  \A v, w \in Workloads : v # w => allocations[v] \cap allocations[w] = {}

\* A Running run is the latest run of its workload.  Hence at most one run per
\* workload is Running, Preempt finds it, and polling only the latest run
\* (GetLatestRunStatusForWorkload) misses none.
RunningIsLatest ==
  \A r, s \in DOMAIN runs :
    IsRunning(r) /\ runs[s].workload = runs[r].workload => s <= r

\* A run that was reported Succeeded or Preempted keeps that status and its
\* workload for as long as the process lives (contract.go:514-517, 549-553,
\* 581-585): Preempt and the lazy completion only change Running runs.
TerminalIsFinal ==
  [][ runs' = << >> \/ \A r \in DOMAIN runs :
        /\ r \in DOMAIN runs'
        /\ runs'[r].workload = runs[r].workload
        /\ ~IsRunning(r) => runs'[r].status = runs[r].status ]_vars

\* The number of available devices reported for a registered pool, computed as
\* total minus the sum over allocations (state.go:99-120), is the number of its
\* free devices (gpunodepool_types.go:45), unless devices are still held that its
\* spec no longer has: a pool that shrinks, or is deleted and registered again,
\* counts those too.  The same for the whole fleet (state.go:53-81).
UsageIsExact ==
  /\ \A k \in PoolKeys :
       LET used == {d \in usedDevices : d.pool = k}
       IN  pools[k] # None /\ used \subseteq DevicesOf(k) =>
             FleetUsageForPool(k).available = Cardinality(DevicesOf(k) \ used)
  /\ usedDevices \subseteq allNodes =>
       FleetUsage.available = Cardinality(allNodes \ usedDevices)

\* Every run that starts is stopped, or is seen to succeed, or its process
\* restarts: polling the latest run of each workload is enough.
RunFinishes ==
  \A r \in 1 .. MaxRuns :
    (r \in DOMAIN runs /\ IsRunning(r)) ~> ~(r \in DOMAIN runs /\ IsRunning(r))

\* The devices in use with the workload that holds each of them, and the calls.
Ledger == INSTANCE DeviceLedger WITH
  Devices <- Device,
  owner <- [d \in usedDevices |-> CHOOSE w \in Workloads : d \in allocations[w]],
  asked <- [c \in Callers |-> IF pending[c] = None THEN None ELSE pending[c].workload]

\* The simulator implements the ledger: it hands out only free devices, all of
\* them at once; no step passes a device from one workload to another; and a call
\* never takes away what the workload holds, unless it overlapped another call for
\* the same workload (contract.go:81, 114-125, 158: the existing allocation is
\* looked for before the lock).
ImplementsLedger == Ledger!Spec
=============================================================================
