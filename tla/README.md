# GpuScheduler: TLA+ models and proofs

TLA+ specifications of the GPU scheduler in this repository, with the TLC
configurations that check them and TLAPS proofs about most of them. Paths are
relative to the root of the repository. `PROJECT.json` lists components, runs,
findings, hazards and theorems, and maps every definition to the lines it
models.

    tlc -workers 2 -config MCSimulator.cfg MCSimulator     # any run
    tlapm SimulatorProofs.tla                              # any *Proofs module, PolicyFacts

## The system

| Part | State | Operations | What is hard about it |
|---|---|---|---|
| Submitter (`internal/submitter`) | reader position, committed offset | fetch, validate, create, dead-letter, commit | redelivery, failure between two offsets, names |
| API server (external) | versions of GPUWorkload, GPUNodePool, TenantQuota | create, update, status update, watch | versions and conflicts, late events |
| Scheduler loop (`internal/controller/scheduler_loop.go`) | by namespace: buckets of queued, scheduled and running workloads, free devices, quotas; a trigger of one token | event handlers, cycle, preempt, admit, start-up | the state is late; triggers coalesce; a cycle stops at the first namespace that admits |
| Admission policy (`internal/scheduler`) | none | validate, order, round robin, fit, victims, virtual admission | batches, ties, weights |
| GPUWorkload reconciler | work queue | finalizer, Queued, allocate, start, Running, poll, terminal, delete | late copies, conflicts between any two calls |
| GPUNodePool reconciler, fleet registrar | pool status, pools of the local and of the remote simulator | register, deregister, report usage, requeue every two minutes | two copies of the fleet, requests that are lost or late, restarts of both sides |
| Simulator (`internal/sim`) | pools, allocations, runs | register, allocate, start, status, preempt, release | a check outside the lock, pools that shrink, runs completed by reading them |
| Worker pool (`internal/worker`) | informer store, trigger, the workload in hand | discover, claim, allocate, start, poll, final phase, release | claims race, answers get lost, pods die |

A message becomes a GPUWorkload; the reconciler gives it a finalizer and the
phase Queued; the scheduler loop admits it (Scheduled), with or without
preempting others; then either the reconciler runs it on the simulator in the
operator's process, or a worker pod claims it and runs it on a remote
simulator. The phase ends as Succeeded, Failed or Preempted.

## Modules

| Module | Models | State and actions |
|---|---|---|
| `Placement` | `pickDevices` and its policies | none: operators from eligible devices per node to a pick |
| `RuntimeEstimate` | what `StartWithRuntimeInput` accepts, `estimateDuration` | none: factors, fractions and seconds in thousandths |
| `WorkloadRequest` | the submitter's `Validate`, the schema of the CRD | none: a name is its trimmed lower-case word and its spelling |
| `RequestPath` | the checks a workload passes one after the other: submitter, schema, scheduler, allocation, start | none: extends the two above and `FleetCapacity` |
| `FairOrder` | the loop of `WeightedRoundRobinByTenant` | none: a recursive function over turns |
| `MCFunctions` | | one initial state per problem, one action per function that solves it |
| `DeviceLedger` | what device allocation promises | who holds which device, who has asked; take free devices, give all back, replace only where calls overlap |
| `Simulator` | the simulator | `pools`, `allocations`, `runs`; `pending` holds callers between the unlocked check (`AllocateCheck`) and the lock (`AllocateCommit`) |
| `Admission` | the policy, as closed-form operators | none |
| `FleetCapacity` | `aggregateFleetFromPools` | none |
| `SchedulingCycle` | one namespace of `runSchedulingCycle` with a batch | inputs, admissions and victims so far; one action per way an iteration ends |
| `Operator` | scheduler loop, workload reconciler, informer caches, API server, reduced simulator, one namespace | extends `Admission`; one action per call that others can interleave with: the end of a run is a status update, an update of the annotation and a release, a deletion is a release and the removal of the finalizer |
| `FleetSync` | pool reconciler and fleet registrar with both simulators | pool objects, cache, work queue, timers, the reconcile in progress, late requests |
| `SchedulerLoop` | the scheduler loop over several namespaces, composed with `FleetSync` | objects, undelivered events, `schedulerState`, the cycle in progress |
| `WorkerPool` | workers, in each discovery mode, the admissions that feed them, and the remote simulator | `work[k]` is where worker k is, `topic` how many messages were sent and read; one action per API or HTTP call |
| `Submitter` | consumer loop, naming | log, position, commit, objects, dead letters; a call that fails may have taken effect; extends `WorkloadRequest` |
| `PolicyFacts` | | what the proofs below share: lemmas about sums over finite sets, smallest elements and the first elements of an order, and what follows for `FairOrder` and `Placement` |
| `FunctionsProofs` | | the theorems about `RuntimeEstimate`, `RequestPath` and the problems of `MCFunctions` |
| other `*Proofs` | | the theorems about `Simulator`, `SchedulingCycle`, `Operator`, `SchedulerLoop` (with `FleetSync`), `WorkerPool` and `Submitter` |

`Admission` is shared: `SchedulingCycle` runs it over all small inputs,
`Operator` and `SchedulerLoop` embed the same operators in the concurrent
system, `RequestPath` applies its fit to requests. The two models of the loop
look at different things. `Operator` has the age of every copy that is read and
written, in one namespace with one pool, together with the reconciler and the
simulator's allocations. `SchedulerLoop` has namespaces, pools, quotas and
start-up, in worker-pool mode: workers are its environment, an object's phase
is enough, and a conflict is a step that may happen while an event of the object
is undelivered.

`Operator` and `WorkerPool` reduce the simulator to who holds devices and the
latest run of each workload; `RunningIsLatest`, proved of `Simulator`, is why
the latest run is enough. Definitions named `Mutant of X` in their comment are
plausible bugs; they are not part of any specification and show that a property
can fail.

Conventions. An update with a stale version is refused. In `Operator` no
version of an object comes back, so equality of copies stands for equality of
versions; in `WorkerPool` claims and phases do come back, so `outdated` records
which workers have an old copy; `FleetSync` counts versions of a pool's spec.
After a status update the client's copy has the stored status and still its own
annotation, since JSON is decoded into the map that is there. A data race (the
check before the lock) is a step of its own. The iteration order of a Go map is
a choice. A failed call is a disjunct bounded by a constant, and where the
answer may be lost after the effect there is one disjunct for each case. A float
that no `time.Duration` holds becomes the constant `Beyond`, the least or the
greatest one as the build has it.
Logging, metrics and wording are left out.

A Running workload is removed from its bucket and added again under two locks.
`Operator` has the window between the two; `SchedulerLoop` moves the workload at
once, since a cycle in the window only counts less usage, as it does while the
event is on its way.

## Runs that pass

| Run | Shows | Bounds |
|---|---|---|
| `functions` | picks respect count, node limit and policy; the round robin's loop takes every workload and equals the closed form; run lengths are in range and more devices never slow a run; what one stage of a request's path accepts the next one does | two pools of two nodes of two devices, requests of up to four; queues of up to four of three tenants, weights 0 (taken as 1) and 2; all kinds and profiles, with the edges of each clamp; objects that differ from a good one in up to three fields; up to two pools that differ in spelling, memory and free devices |
| `simulator` | exclusive devices, exact usage, at most one running run, final statuses, refinement of `DeviceLedger`; every run finishes | two pools, each with a large and a small specification, a workload of one device and one of two, two concurrent callers, two runs |
| `cycle` | a batch fits capacity and caps together; order within a tenant; with room for all, higher priorities first across tenants; preemption comes last; victims are needed | up to three queued and three running workloads, two tenants, two admissions a cycle; mixed profiles and inputs that `Validate` rejects |
| `operator` | buckets are disjoint, Running workloads hold devices, phases follow the lifecycle, what is gone holds no device; when nothing can go on every workload has ended and its devices are free | two workloads of different priority, one device, one deletable workload, one restart, backlog 2 |
| `control_plane` | status, fleet and quotas follow the objects; both simulators converge to the pools; no workload that fits is left without a wake-up | two namespaces, three pools of up to two devices, four workloads (one needs two devices, one is malformed), two quota objects; the scenarios of `MCLimits` |
| `workers` | with queue discovery a workload runs no more often than messages were sent for it, whatever is lost or dies, and with one message on devices that stay its own; claimants never all lose; Scheduled workloads end and devices come back | the deployments of `MCDeployments` |
| `submitter` | redelivery is harmless, and without failed calls nothing is lost | all logs of three messages out of eight kinds; one failed call, failed commit, restart and deletion |

Two workloads on one device is the smallest system with contention, preemption
and a conflict between any two writers; a second caller or worker is what the
races need. A backlog of two versions lets a reader be more than one write
behind; the invariants of this run are proved for a backlog of any length.
`MaxStarts` only caps a counter: two
starts of one workload are already one too many.

`SchedulerLoop` chooses its scenario in `Init`: which pools and workloads there
are and how often each thing that need not happen may (edits, faults, restarts
of the operator and of the remote simulator, quota edits, deletions, failed
calls). The scenarios of `MCLimits` pair the causes that meet: edits with lost
and late requests; an edit with a fault and a remote restart; an edit, a restart
and a fault; pools that appear and vanish; a restart and a failed list while a
pool changes; two namespaces that compete for cycles; a deletion and a failed
call, with a second workload and with a malformed one; a pool that appears while
a workload waits; quota edits while a workload waits that one of them forbids; a
quota edit with a restart; a restart with a workload. Two edits are needed for a
deletion and a re-creation, one fault for a late request that overtakes.
`StrictRemote` is off in the first of these, on in the third, either in the
second.

`WorkerPool` chooses its deployment in the same way: the discovery mode, the
worker pods, the workloads, which of them may be preempted, how often a workload
that is no longer Queued is admitted again, and how many calls may be lost and
pods may die.

Some properties hold under a condition, and say so in their statement:

* `QueueRunsOnce`, `RunHoldsDevices` and `TerminalIsFinal` are about queue
  discovery, the last two about workloads for which one message was sent: with
  two messages two workers race for a workload as they do when they poll
  (`workers_twice`); `ClaimIsPursued` and `EveryScheduledEnds` about deployments in which
  nothing is lost and nobody dies.
* `RunningHoldsDevices` and `NothingIsForgotten` are about the time before a
  restart, after which the simulator has lost its runs; `CommittedIsHandled`
  and `EveryMessageAnswered` about the time before a call fails.
* `PhaseFollowsLifecycle` excepts a victim that has ended since the snapshot and
  is marked Preempted; `UsageIsExact` a pool, and the fleet, while devices are
  held that the pool no longer has; `ImplementsLedger` calls that overlap.
* `RunLengthInRange` and `MoreDevicesNeverSlower` are about runs whose longest
  duration fits a `time.Duration`; beyond, the conversion may yield anything.
* `MirrorsConverge` promises that a deleted pool leaves the remote simulator only
  without faults and restarts: nothing repeats a deregistration.
* `AdmissibleIsAdmitted` excepts room that is made without a request for a cycle
  (`unprompted`), quotas that no longer follow the objects (`plain`) and a fleet
  that missed an event (`missed`). Each is a history variable that names the
  code's path, and each path is in the model.
* `QuotasFollowObjects` excepts objects that change their tenant, share it, or
  are deleted without one; `FleetFollowsPools` a failed list, and an event
  between the list of start-up and its use.
* `AcceptedIsValid` excepts 0 MiB and names that are blank, `AcceptedCanStart`
  an unknown teacher profile and jitter of 0, `FitIsAllocatable` pools whose
  profile is not in lower case or that differ in memory per device, and devices
  of other namespaces, which `Allocate` takes too. TLC finds a
  counterexample when one of these conditions is dropped.

Deadlock is not checked where the system may stop: when a cycle is over, every
workload has ended, every message is consumed or a function is evaluated.

## Where the code and the repository's text disagree

Five runs check one statement of the repository each, which TLC finds violated;
`findings` quotes the lines.

* `cycle_priority`: victims of equal or higher priority than the workload they
  make room for.
* `operator_requeue`: a Preempted workload is never queued again. The run assumes
  fairness, has no restart and no deletion, and ends at rest.
* `operator_quota`: a tenant's cap exceeded, because the buckets are late.
* `workers_twice`: one workload run by two polling workers.
* `submitter_skipped`: a message that failed is covered by the next commit.

Four more are visible in what a passing run has to allow, and are findings of
that run:

* `operator`, `PhaseFollowsLifecycle`: a Succeeded workload can become Preempted;
  the diagram in `README.md` has no such edge.
* `simulator`, `UsageIsExact`: a pool that shrinks reports fewer devices than are
  free, and a utilization above 100 %; the API's comments say otherwise.
* `simulator`, `ImplementsLedger`: of two overlapping calls to `Allocate` the later
  replaces what the earlier got; its comment asks for a release first.
* `cycle`, `HigherPriorityFirst`: the round robin starts over with each admission,
  so that with room for all priority alone decides and weights matter only behind
  workloads that do not fit; `README.md` says admission "interleaves across
  tenants".

The models contain further behaviour that a reader may not expect and that no
run is about; `hazards` names the lines. In worker-pool mode nothing limits
admissions to devices that are free; a workload that waits may stay in the queue
when a Scheduled one fails; a pool whose deregistration is lost stays in the
remote simulator; a Running workload whose operator or worker restarts stays
Running; a worker that loses a race on polling can release the devices of the one
that won. `MaxRuntimeSeconds` and a tenant's `MaxMemoryMiB` are checked for their
range and used nowhere.

## Fairness

* `Simulator`: the clock reaches the end of each run, and the latest run of
  each workload is polled, as the reconciler's two-second requeue does.
* `Operator`, for `operator_requeue`: weak fairness of the watch and of the
  process's goroutines together with the clock. Attempts that change nothing are
  stuttering steps.
* `SchedulerLoop`: weak fairness of informers, handlers, cycle and workers
  together, since none of them can go on for ever; of the reconcile in
  progress, whose request is answered if it does not fail; of each pool's
  timer. Strong fairness of taking each pool from the work queue: the queue is
  first in, first out, and the single worker is busy with another pool only for
  a while.
* `WorkerPool`: each worker's informer, its loop, and the clock, since they are
  goroutines of a pod that lives. With one condition for informer and loop
  together TLC shows two watch workers in conflict for ever on stale stores.
* `Submitter`: the consumer's loop.

Users, faults and losses are never assumed to happen.

## Proofs

All theorems are about every value of the constants, under the assumptions
named in the modules, which TLC evaluates in its runs. They say that bounds are
natural numbers, that the sets of pools, workloads and quota objects are
finite (`SimulatorFinite`, `LoopAssumption`, `MCFunctionsBounds`: a sum over an
infinite set means nothing), that no tenant's name is blank (`LoopAssumption`),
that a snapshot has the fields of `SchedulingInputs` and a well-formed workload
asks for devices, as `Validate` sees to (`CycleAssumption`), and that profiles and
kinds are those of the simulator's tables (`MCFunctionsTables`). Each invariant below is
inductive; the property alone is not. Type correctness is part of the invariants
of `Simulator`, `Operator`, `FleetSync` and `Submitter`, and of `WorkerPool` with
queue discovery; a run checks it for `Simulator` only.

* `SimulatorProofs`: `TypeOK`, `DeviceExclusive`, `RunningIsLatest`,
  `TerminalIsFinal`, and that `Simulator` implements `DeviceLedger`. The
  invariant is the conjunction of the first three and of `AloneFindsNothing`: a
  caller that met no other call for its workload finds no allocation when it gets
  the lock. A commit picks from eligible
  devices, and eligible means not in any allocation, so exclusiveness survives
  although the check for an existing allocation may be stale: the caller's old
  devices are replaced, never shared. Start refuses a workload with a running
  run, so the appended run is the only running one and the latest. A commit maps
  to the ledger's `Reserve`, which replaces devices only for a caller in
  `overlaps`. `UsageIsExact` needs
  that allocations are finite and disjoint: then the sum over workloads that the
  code computes counts each device once.
* `SchedulingCycleProofs`: `PreemptionEndsCycle`, `BatchFits`,
  `HigherPriorityFirst`, `NoOvertakingWithinTenant`, `VictimsAreNeeded`. Victims are
  chosen only for a workload that finds too few free devices (`VictimsMeanTooFew`),
  and for such a workload the virtual admission fails. `CycleInv` says that in the
  loop `working` is the snapshot with exactly the admissions so far booked
  (`Booked`) and that its queue is what they left: so what fits `working` fits
  the snapshot together with them. The order results come from lemmas about the
  round robin: it is a total order (`RoundRobinIsTotal`) that agrees with priority
  and age within a tenant and starts with the most urgent workload of all.
  For the victims, the greedy choice is the shortest sufficient prefix of its
  order (`PickedFacts`), and the largest workloads of the bands that are needed
  are no more than any others that free as much (`LargestAreFewest`).
* `OperatorProofs`: `BucketsDisjoint`, `RunningHoldsDevices`,
  `GoneHoldsNoDevices`, `PhaseFollowsLifecycle`. `OperatorInv` rests on an order of
  versions, `Older`: the rank of the phase never decreases, and finalizer, deletion and annotation
  are set for good. The cache, each undelivered event, the reconciler's copy and
  the cycle's victims are earlier points of one history (`History`, `Copies`,
  `Victims`), so a write that the API server accepts continues it, and a stale
  copy that shows Running or Queued bounds what may have happened since.
  `Buckets` describes the gap between the two critical sections of a Running
  workload. `Devices` ties the steps of a reconcile to the allocation: devices
  are there before Running is stored and until a later phase is, and none are left
  when the finalizer goes. The lifecycle's edges then follow action by action: a
  write that is accepted is of the version that was read.
* `SchedulerLoopProofs`: `StatusIsBacked`, `FleetFollowsPools`,
  `QuotasFollowObjects`. `FleetInv` orders the versions of a
  pool's spec (cache not newer than object, equal versions of equal size) and
  says what the reconcile in progress has registered: a status update that the
  API server accepts is for the object that was registered. `FollowInv` adds that
  a list of start-up that is not used yet belongs to a namespace with an event
  that is pending or was missed. `QuotaInv` compares the caps of a tenant with its
  object if no event about them is on its way, and otherwise the last event with
  the object, whatever is queued before it.
* `WorkerPoolProofs`: `QueueRunsOnce`, `RunHoldsDevices`, `TerminalIsFinal`,
  `ClaimIsPursued`.
  `QueueInv` counts (`Counted`): workers with a workload, and runs begun or yet to
  begin, are no more than the messages read, a message being read once. Where one
  message was sent one worker at most is responsible: only it moves the workload
  on (`Claimed`); where no answer is lost, it gives devices back only after its
  run (`Returning`); where nothing is preempted, it alone writes the phase
  (`Holding`). `RaceInv` is for all modes: while a workload
  that is claimed is Scheduled, some worker is about to read it again, or has read
  it and nobody wrote it since (`Pursues`); and nobody knows of a workload before
  it is Scheduled (`Unknown`).
* `SubmitterProofs`: `CommittedIsHandled`, `CreatedOnce`, `CRKeepsItsRequest`.
  `SubmitterInv` relates reader position, commit and the record of creations:
  what was created and not deleted is still there (`Objects`), so `AlreadyExists`
  answers every redelivery, also after a creation whose answer was lost.
* `FunctionsProofs`, with `PolicyFacts`: the properties of the run `functions`, for
  fleets, queues, requests and numbers of devices and tokens of any size. Each answer
  is the function of its problem (`AnswersAreTheFunctions`); the rest is about the
  functions.
  - Placement: first fit and pack are the first devices of an order on the nodes
    that are within the limit (`Filled`), spread is the first rounds of a deal
    (`Dealt`), the other two are one node (`OneNode`). Pack is optimal because the
    fullest nodes hold no fewer devices than any others of their number
    (`PackUsesFewest`).
  - Order of the queue: `LoopIsTheOrder` is about any queue that is not empty and any
    weights. `TurnOf` is the turn in which the loop takes a workload: its round times
    the number of tenants, plus the rank of its tenant. The round robin is the order
    of the turns, and within a turn that of the queue (`RoundRobinIsByTurn`). After n
    turns the tenants have left what has turn n or later, and the result has the
    others in order (`LoopInvariant`, by induction over the turns). The next turn
    takes the workloads whose turn it is, because those before it were whole rounds
    of its tenant (`SliceIsRound`), and every workload has its turn among those the
    loop takes (`TurnInTime`).
  - Runtime estimate: `EstimateIsSound` holds for any input with integers in its
    section whose longest duration fits a `time.Duration`. Each multiplier is clamped, the throughput grows with the devices
    (`ThroughputBounds`: what the interconnect's share takes away is less than
    what the device adds), and division and jitter keep the order.
  - Requests: `AcceptedObjectsAreValid`, `AcceptedObjectsCanStart` and
    `FittingIsAllocating` are about any object and any pools, the three theorems
    after them about the run's.

Sums over sets and the loop over the tenants are recursive functions. The proofs
reason about them by a smallest counterexample (`PolicyFacts`): the set of sizes, of
subsets or of turns for which a claim fails has a least element, and that one leads
to a contradiction. For the loop this shows first that the recursion has a solution
at all (`TurnByTurn`).

The proof modules set the order of the provers with `USE ZenonT(3), SMTT(20)`: Zenon
first, and the SMT solver where it fails. The lemmas about arithmetic in
`FunctionsProofs` come before that line.

Every safety property that a passing run checks is the subject of a theorem,
except `NothingIsForgotten`, whose statement contains `ENABLED`. Model-checked
only are that one and liveness under fairness (`RunFinishes`,
`EveryScheduledEnds`, `MirrorsConverge`, `AdmissibleIsAdmitted`,
`EveryMessageAnswered`): both are beyond the prover used here.

## Not modelled

* The worker-Job mode (`ensureWorkerJob`, `syncWorkloadPhaseFromWorkerJob`, the
  Job template): it has no caller.
* `Preempt` over HTTP: it has no caller either.
* The exact floating-point values of the runtime estimate: `RuntimeEstimate`
  rounds down to thousandths, and logarithms to whole numbers. Its properties
  are bounds and monotonicity, with a margin for that.
* The deletion of a workload while a worker has it: the worker's calls then fail
  as lost ones do, which `WorkerPool` has, but the object does not disappear.
* Metrics, events and logging, including the completion counter: nothing reads
  them.
* The load producer, start-up flags, deep-copy code and the profile tool.
* Leader election, which is taken to give one scheduler; a change of leader is
  the restart of `SchedulerLoop`.
