------------------------------ MODULE Operator ------------------------------
(***************************************************************************)
(* The operator process in its in-process mode (no worker pool): the       *)
(* scheduler loop, the GPUWorkload reconciler and the GPUNodePool          *)
(* reconciler of internal/controller around the API server, for one        *)
(* namespace with one pool and with the default of one admission a cycle.  *)
(*                                                                         *)
(* Every client read comes from the informer cache, which follows the API  *)
(* server through a watch; the scheduler's in-memory buckets follow the    *)
(* cache through the informer's event handlers.  An update succeeds only   *)
(* on the version it was read from.  No version of an object ever comes    *)
(* back, so a copy is current exactly when it equals the stored object.    *)
(*                                                                         *)
(* The policy is Admission's.  The simulator is reduced to the set of      *)
(* workloads that hold devices and the status of each one's latest run;    *)
(* Simulator models it in full.                                            *)
(***************************************************************************)
EXTENDS Admission

CONSTANTS Workloads,     \* names of the GPUWorkload objects that may exist
          WorkloadSpecs, \* [Workloads -> the scheduling fields of the object]
          Quotas,        \* the TenantQuota objects, by tenant
          Profile,       \* the hardware profile of the pool
          PoolDevices,   \* devices of the pool
          Deletable,     \* the workloads that a user may delete
          MaxRestarts,   \* bound: restarts of the operator process
          MaxBacklog,    \* bound: versions and events on their way at once
          None

ASSUME OperatorAssumption ==
  /\ {PoolDevices, MaxRestarts, MaxBacklog} \subseteq Nat
  /\ IsFiniteSet(Workloads) /\ Deletable \subseteq Workloads
  /\ None \notin Workloads

VARIABLES obj,        \* API server: the stored GPUWorkload objects
          watch,      \* versions the cache has not received, oldest first
          cache,      \* informer cache of the manager's client
          notify,     \* events the scheduler's handler has not handled
          queued, scheduled, running,   \* schedulerState: the three buckets
          moving,     \* workload between removeWorkload and upsertRunning
          fleet,      \* schedulerState: free devices of the pool
          trigger,    \* triggerCh holds a token
          cycle,      \* runSchedulingCycle in progress
          dirty,      \* keys in the reconciler's work queue
          rec,        \* Reconcile in progress
          registered, \* simulator: the pool is registered
          alloc,      \* simulator: the workloads that hold devices
          run,        \* simulator: the status of the latest run
          poolStatus, \* API server: status.availableDevices of the pool
          poolEvent,  \* a pool event is on its way to the scheduler
          restarts

api == <<obj, watch>>
sched == <<queued, scheduled, running, moving, fleet>>
sim == <<registered, alloc, run>>
pool == <<poolStatus, poolEvent>>
vars == <<api, cache, notify, sched, trigger, cycle, dirty, rec, sim, pool, restarts>>

-----------------------------------------------------------------------------
Terminal == {"Succeeded", "Preempted"}
Phases == {"New", "Queued", "Scheduled", "Running"} \cup Terminal
Absent == {"None", "Gone"}

Object == [phase : Phases \cup Absent, fin : BOOLEAN, deleting : BOOLEAN,
           counted : BOOLEAN]
NoObject == [phase |-> "None", fin |-> FALSE, deleting |-> FALSE, counted |-> FALSE]

\* An update of this copy is accepted; otherwise it is a conflict.
Current(w, copy) == obj[w] = copy

\* The API server stores a version and sends it to the watch.
Store(w, o) ==
  /\ Len(watch) + Len(notify) < MaxBacklog
  /\ obj' = [obj EXCEPT ![w] = o]
  /\ watch' = Append(watch, [w |-> w, new |-> o])

Idle == [pc |-> "idle", w |-> None, victims |-> {}, freeing |-> None]
NoReconcile == [pc |-> "idle", w |-> None, copy |-> NoObject, target |-> "None"]

RunStatus == {"None", "Running", "Ended", "Succeeded", "Preempted"}

AllocatedGPUs(A) == MapThenSumSet(LAMBDA w : WorkloadSpecs[w].gpuCount, A)

\* FleetUsageForPool of the one pool.
Available == PoolDevices - AllocatedGPUs(alloc)

Init ==
  /\ obj = [w \in Workloads |-> NoObject]
  /\ cache = obj
  /\ watch = <<>> /\ notify = <<>>
  /\ queued = {} /\ scheduled = {} /\ running = {} /\ moving = None
  /\ fleet = 0 /\ trigger = TRUE
  /\ cycle = Idle /\ rec = NoReconcile /\ dirty = {}
  /\ registered = FALSE /\ alloc = {} /\ run = [w \in Workloads |-> "None"]
  /\ poolStatus = 0 /\ poolEvent = FALSE
  /\ restarts = 0

-----------------------------------------------------------------------------
\* Users.  A name is used for one object.
Create(w) ==
  /\ obj[w].phase = "None"
  /\ Store(w, [NoObject EXCEPT !.phase = "New"])
  /\ UNCHANGED <<cache, notify, sched, trigger, cycle, dirty, rec, sim, pool, restarts>>

\* An object with a finalizer stays until the finalizer is removed.
Delete(w) ==
  /\ w \in Deletable
  /\ obj[w].phase \in Phases
  /\ ~obj[w].deleting
  /\ Store(w, IF obj[w].fin THEN [obj[w] EXCEPT !.deleting = TRUE]
                            ELSE [obj[w] EXCEPT !.phase = "Gone"])
  /\ UNCHANGED <<cache, notify, sched, trigger, cycle, dirty, rec, sim, pool, restarts>>

\* The watch delivers the next version: the cache changes, the reconciler's
\* work queue gets the key and the scheduler's handler an event.
WatchEvent ==
  /\ watch # <<>>
  /\ LET e == Head(watch)
     IN  /\ cache' = [cache EXCEPT ![e.w] = e.new]
         /\ notify' = Append(notify, [w |-> e.w, old |-> cache[e.w].phase, new |-> e.new])
         /\ dirty' = dirty \cup {e.w}
  /\ watch' = Tail(watch)
  /\ UNCHANGED <<obj, sched, trigger, cycle, rec, sim, pool, restarts>>

-----------------------------------------------------------------------------
\* The scheduler loop's handlers.
upsertQueued(w) ==
  /\ queued' = queued \cup {w}
  /\ UNCHANGED <<scheduled, running>>

\* Mutant of upsertScheduled: the workload stays in the queue.
upsertScheduledOnly(w) ==
  /\ scheduled' = scheduled \cup {w}
  /\ UNCHANGED <<queued, running>>

upsertScheduled(w) ==
  /\ queued' = queued \ {w}
  /\ scheduled' = scheduled \cup {w}
  /\ UNCHANGED running

upsertRunning(w) ==
  /\ queued' = queued \ {w}
  /\ scheduled' = scheduled \ {w}
  /\ running' = running \cup {w}

removeWorkload(w) ==
  /\ queued' = queued \ {w}
  /\ scheduled' = scheduled \ {w}
  /\ running' = running \ {w}

\* applyWorkloadToState.  A workload that is Running leaves the buckets in one
\* critical section and enters the running one in a second.
applyWorkloadToState(w, o) ==
  CASE o.deleting \/ o.phase = "Gone"       -> removeWorkload(w) /\ moving' = None
    [] ~o.deleting /\ o.phase = "Queued"    -> upsertQueued(w) /\ moving' = None
    [] ~o.deleting /\ o.phase = "Scheduled" -> upsertScheduled(w) /\ moving' = None
    [] ~o.deleting /\ o.phase = "Running"   -> removeWorkload(w) /\ moving' = w
    [] OTHER                                -> removeWorkload(w) /\ moving' = None

\* The add, update and delete handlers request a cycle on this event.
Triggers(old, new) ==
  \/ new.phase = "Queued" /\ ~new.deleting
  \/ old = "Running" /\ new.phase # "Running"

HandleEvent ==
  /\ moving = None
  /\ notify # <<>>
  /\ LET e == Head(notify)
     IN  /\ applyWorkloadToState(e.w, e.new)
         /\ trigger' = (trigger \/ Triggers(e.old, e.new))
  /\ notify' = Tail(notify)
  /\ UNCHANGED <<api, cache, fleet, cycle, dirty, rec, sim, pool, restarts>>

FinishMoving ==
  /\ moving # None
  /\ upsertRunning(moving)
  /\ moving' = None
  /\ UNCHANGED <<api, cache, notify, fleet, trigger, cycle, dirty, rec, sim, pool, restarts>>

\* Mutant of handlePoolEvent: no cycle is requested.
handlePoolEventQuiet ==
  /\ poolEvent
  /\ fleet' = poolStatus
  /\ poolEvent' = FALSE
  /\ UNCHANGED <<api, cache, notify, queued, scheduled, running, moving, trigger, cycle,
                 dirty, rec, sim, poolStatus, restarts>>

\* A pool's status has changed: the capacity is read again.
handlePoolEvent ==
  /\ poolEvent
  /\ fleet' = poolStatus
  /\ trigger' = TRUE
  /\ poolEvent' = FALSE
  /\ UNCHANGED <<api, cache, notify, queued, scheduled, running, moving, cycle, dirty,
                 rec, sim, poolStatus, restarts>>

-----------------------------------------------------------------------------
\* The scheduler loop's cycle.
Entry(w) ==
  [f \in {"id"} \cup DOMAIN WorkloadSpecs[w] |-> IF f = "id" THEN w ELSE WorkloadSpecs[w][f]]

\* The orders of S.
Orders(S) == Injection(1..Cardinality(S), S)

\* The slices come from maps: their order is arbitrary.
Slices(S) == {[i \in DOMAIN s |-> Entry(s[i])] : s \in Orders(S)}

snapshotForNamespace(q, s, r) ==
  [queued |-> q, scheduled |-> s, running |-> r, quotas |-> Quotas,
   fleet |-> [p \in {Profile} |-> [freeDevices |-> fleet, freeMemMiB |-> fleet,
                                   memMiBPerDevice |-> 1]]]

\* The decision of a cycle on a snapshot: the workload to admit and its victims.
Decision(in) ==
  LET choice == SelectOneForAdmission(in)
  IN  IF queued = {} \/ ~Validate(in) \/ choice.index \notin DOMAIN in.queued THEN Idle
      ELSE [Idle EXCEPT !.pc = IF choice.victims = {} THEN "admit" ELSE "mark",
                        !.w = in.queued[choice.index].id,
                        !.victims = {in.running[i].id : i \in choice.victims}]

runSchedulingCycle ==
  /\ cycle.pc = "idle"
  /\ trigger
  /\ trigger' = FALSE
  /\ UNCHANGED <<api, cache, notify, sched, dirty, rec, sim, pool, restarts>>
  /\ \E q \in Slices(queued), s \in Slices(scheduled), r \in Slices(running) :
       cycle' = Decision(snapshotForNamespace(q, s, r))

\* The update of a victim or of the admitted workload is retried on a conflict;
\* when the retries are used up the error ends the cycle.
GiveUp(w) ==
  /\ ~Current(w, cache[w])
  /\ cycle' = Idle
  /\ UNCHANGED api

\* Mutant of MarkVictim: the victim is freed before it is marked, and stays
\* unmarked when the update fails.
MarkVictimSkips(v) ==
  /\ cycle.pc = "mark"
  /\ v \in cycle.victims
  /\ cycle' = [cycle EXCEPT !.pc = "free", !.victims = @ \ {v}, !.freeing = v]
  /\ UNCHANGED <<api, cache, notify, sched, trigger, dirty, rec, sim, pool,
                 restarts>>

\* markVictimsPreemptedAndRelease: the status of one victim.
MarkVictim(v) ==
  /\ cycle.pc = "mark"
  /\ v \in cycle.victims
  /\ LET marked == [cycle EXCEPT !.pc = "free", !.victims = @ \ {v}, !.freeing = v]
     IN  \/ /\ cache[v].phase \in Absent \cup {"Preempted"}
            /\ cycle' = marked
            /\ UNCHANGED api
         \/ /\ cache[v].phase \in Phases \ {"Preempted"}
            /\ \/ /\ Current(v, cache[v])
                  /\ Store(v, [cache[v] EXCEPT !.phase = "Preempted"])
                  /\ cycle' = marked
               \/ GiveUp(v)
  /\ UNCHANGED <<cache, notify, sched, trigger, dirty, rec, sim, pool, restarts>>

\* markVictimsPreemptedAndRelease: Preempt and Release of the marked victim.
FreeVictim ==
  /\ cycle.pc = "free"
  /\ LET v == cycle.freeing
     IN  /\ run' = [run EXCEPT ![v] = IF @ \in {"Running", "Ended"} THEN "Preempted" ELSE @]
         /\ alloc' = alloc \ {v}
  /\ cycle' = [cycle EXCEPT !.pc = IF cycle.victims = {} THEN "admit" ELSE "mark",
                            !.freeing = None]
  /\ UNCHANGED <<api, cache, notify, sched, trigger, dirty, rec, registered, pool, restarts>>

\* Mutant of patchWorkloadAdmittedAndScheduled: the phase is not looked at.
PatchAnyPhase ==
  /\ cycle.pc = "admit"
  /\ LET w == cycle.w
     IN  \/ /\ cache[w].phase \in Phases
            /\ Current(w, cache[w])
            /\ Store(w, [cache[w] EXCEPT !.phase = "Scheduled"])
            /\ cycle' = Idle
         \/ GiveUp(w)
  /\ UNCHANGED <<cache, notify, sched, trigger, dirty, rec, sim, pool, restarts>>

\* A workload that is gone from the cache is an error, one that is not Queued
\* any more needs nothing; either way the cycle is over.
patchWorkloadAdmittedAndScheduled ==
  /\ cycle.pc = "admit"
  /\ LET w == cycle.w
     IN  \/ /\ cache[w].phase # "Queued"
            /\ cycle' = Idle
            /\ UNCHANGED api
         \/ /\ cache[w].phase = "Queued"
            /\ \/ /\ Current(w, cache[w])
                  /\ Store(w, [cache[w] EXCEPT !.phase = "Scheduled"])
                  /\ cycle' = Idle
               \/ GiveUp(w)
  /\ UNCHANGED <<cache, notify, sched, trigger, dirty, rec, sim, pool, restarts>>

-----------------------------------------------------------------------------
\* The GPUWorkload reconciler: one worker takes a key and reads the cache.  What
\* it does next depends on the copy it read.
NextStep(o) ==
  CASE o.phase \in Absent -> "idle"
    [] o.phase \in Phases /\ o.deleting -> "delete"
    [] ~o.deleting /\ o.phase \in Terminal -> "terminal"
    [] ~o.deleting /\ o.phase \in Phases \ Terminal /\ ~o.fin -> "finalizer"
    [] ~o.deleting /\ o.fin /\ o.phase = "New" -> "queue"
    [] ~o.deleting /\ o.fin /\ o.phase = "Queued" -> "idle"
    [] ~o.deleting /\ o.fin /\ o.phase = "Scheduled" -> "allocate"
    [] ~o.deleting /\ o.fin /\ o.phase = "Running" -> "poll"

\* An allocation that finds too few devices, and a poll of a run that goes on or
\* is not known, change nothing and leave the key for a later attempt.  These
\* attempts are stuttering steps; only the ones that get further are actions.
GetsFurther(w, step) ==
  /\ step = "allocate" => w \in alloc \/ (registered /\ WorkloadSpecs[w].gpuCount <= Available)
  /\ step = "poll" => run[w] \notin {"None", "Running"}

Reconcile(w) ==
  /\ rec.pc = "idle"
  /\ w \in dirty
  /\ GetsFurther(w, NextStep(cache[w]))
  /\ dirty' = dirty \ {w}
  /\ rec' = IF NextStep(cache[w]) = "idle" THEN NoReconcile
            ELSE [NoReconcile EXCEPT !.pc = NextStep(cache[w]), !.w = w, !.copy = cache[w]]
  /\ UNCHANGED <<api, cache, notify, sched, trigger, cycle, sim, pool, restarts>>

Done == rec' = NoReconcile /\ UNCHANGED dirty

\* An error, or RequeueAfter: the key is tried again later.
Requeue == rec' = NoReconcile /\ dirty' = dirty \cup {rec.w}

\* An update that ends the reconcile.
UpdateTo(o) ==
  IF Current(rec.w, rec.copy) THEN Store(rec.w, o) /\ Done
                              ELSE UNCHANGED api /\ Requeue

AddFinalizer ==
  /\ rec.pc = "finalizer"
  /\ UpdateTo([rec.copy EXCEPT !.fin = TRUE])
  /\ UNCHANGED <<cache, notify, sched, trigger, cycle, sim, pool, restarts>>

InitializeQueueStatus ==
  /\ rec.pc = "queue"
  /\ UpdateTo([rec.copy EXCEPT !.phase = "Queued"])
  /\ UNCHANGED <<cache, notify, sched, trigger, cycle, sim, pool, restarts>>

\* executeAdmission: allocation, start, status.
executeAdmissionAllocate ==
  /\ rec.pc = "allocate"
  /\ GetsFurther(rec.w, "allocate")
  /\ alloc' = alloc \cup {rec.w}
  /\ rec' = [rec EXCEPT !.pc = "start"]
  /\ UNCHANGED <<api, cache, notify, sched, trigger, cycle, dirty, registered, run, pool, restarts>>

executeAdmissionStart ==
  /\ rec.pc = "start"
  /\ IF rec.w \in alloc
     THEN /\ run' = [run EXCEPT ![rec.w] = IF @ \in {"Running", "Ended"} THEN @ ELSE "Running"]
          /\ rec' = [rec EXCEPT !.pc = "run"]
          /\ UNCHANGED dirty
     ELSE Requeue /\ UNCHANGED run
  /\ UNCHANGED <<api, cache, notify, sched, trigger, cycle, registered, alloc, pool, restarts>>

executeAdmissionRunning ==
  /\ rec.pc = "run"
  /\ UpdateTo([rec.copy EXCEPT !.phase = "Running"])
  /\ UNCHANGED <<cache, notify, sched, trigger, cycle, sim, pool, restarts>>

\* pollRunningStatus: the simulator is asked for the latest run.
pollRunningStatus ==
  /\ rec.pc = "poll"
  /\ GetsFurther(rec.w, "poll")
  /\ LET status == IF run[rec.w] = "Ended" THEN "Succeeded" ELSE run[rec.w]
     IN  /\ run' = [run EXCEPT ![rec.w] = status]
         /\ rec' = [rec EXCEPT !.pc = "finish", !.target = status]
  /\ UNCHANGED <<api, cache, notify, sched, trigger, cycle, dirty, registered, alloc, pool, restarts>>

\* What the API server stores of a status update: only the status.  The answer is
\* decoded into the caller's copy, which gets the new version and keeps the
\* completion-counted annotation that was set in it.
StatusOnly(copy, phase) == [copy EXCEPT !.phase = phase]

\* pollRunningStatus: the terminal phase is written.
pollRunningStatusFinish ==
  /\ rec.pc = "finish"
  /\ IF Current(rec.w, rec.copy)
     THEN /\ Store(rec.w, StatusOnly(rec.copy, rec.target))
          /\ rec' = [rec EXCEPT !.pc = "count"]
          /\ UNCHANGED dirty
     ELSE UNCHANGED api /\ Requeue
  /\ UNCHANGED <<cache, notify, sched, trigger, cycle, sim, pool, restarts>>

\* A success is counted and then annotated; that the annotation cannot be written
\* is only logged.
Count(copy) ==
  /\ IF copy.phase = "Succeeded" /\ ~copy.counted /\ Current(rec.w, copy)
     THEN Store(rec.w, [copy EXCEPT !.counted = TRUE])
     ELSE UNCHANGED api
  /\ rec' = [rec EXCEPT !.pc = "release"]
  /\ UNCHANGED <<cache, notify, sched, trigger, cycle, dirty, sim, pool, restarts>>

\* pollRunningStatus, after the status; and Reconcile on a terminal phase, unless
\* the annotation is there.
pollRunningStatusCount == rec.pc = "count" /\ Count(StatusOnly(rec.copy, rec.target))

ReconcileTerminal == rec.pc = "terminal" /\ Count(rec.copy)

\* Both then release the devices.
ReleaseTerminal ==
  /\ rec.pc = "release"
  /\ alloc' = alloc \ {rec.w}
  /\ Done
  /\ UNCHANGED <<api, cache, notify, sched, trigger, cycle, registered, run, pool, restarts>>

\* Mutant of ReconcileDelete: the finalizer goes without a release.
ReconcileDeleteOnly ==
  /\ rec.pc = "delete"
  /\ rec' = [rec EXCEPT !.pc = "unfinalize"]
  /\ UNCHANGED <<api, cache, notify, sched, trigger, cycle, dirty, sim, pool, restarts>>

\* Deletion: the devices are released, then the finalizer is removed, with which
\* the object is gone.
ReconcileDelete ==
  /\ rec.pc = "delete"
  /\ alloc' = alloc \ {rec.w}
  /\ rec' = [rec EXCEPT !.pc = "unfinalize"]
  /\ UNCHANGED <<api, cache, notify, sched, trigger, cycle, dirty, registered, run, pool,
                 restarts>>

RemoveFinalizer ==
  /\ rec.pc = "unfinalize"
  /\ UpdateTo([rec.copy EXCEPT !.phase = "Gone"])
  /\ UNCHANGED <<cache, notify, sched, trigger, cycle, sim, pool, restarts>>

-----------------------------------------------------------------------------
\* The run's duration passes.
RunEnds(w) ==
  /\ run[w] = "Running"
  /\ run' = [run EXCEPT ![w] = "Ended"]
  /\ UNCHANGED <<api, cache, notify, sched, trigger, cycle, dirty, rec, registered, alloc,
                 pool, restarts>>

\* The GPUNodePool reconciler, on an event or two minutes after the last time:
\* the pool is registered and its status follows the simulator's usage.
ReconcilePool ==
  /\ ~registered \/ poolStatus # Available
  /\ registered' = TRUE
  /\ poolStatus' = Available
  /\ poolEvent' = (poolEvent \/ poolStatus # Available)
  /\ UNCHANGED <<api, cache, notify, sched, trigger, cycle, dirty, rec, alloc, run, restarts>>

\* The process stops and starts again: its memory and the simulator in it are
\* lost, and every object that exists is listed as an added one.
Restart ==
  /\ restarts < MaxRestarts
  /\ restarts' = restarts + 1
  /\ cache' = obj /\ watch' = <<>>
  /\ LET present == {w \in Workloads : obj[w].phase \in Phases}
     IN  /\ dirty' = present
         /\ \E s \in Orders(present) :
              notify' = [i \in DOMAIN s |-> [w |-> s[i], old |-> "None", new |-> obj[s[i]]]]
  /\ queued' = {} /\ scheduled' = {} /\ running' = {} /\ moving' = None
  /\ fleet' = poolStatus /\ trigger' = TRUE /\ poolEvent' = FALSE
  /\ cycle' = Idle /\ rec' = NoReconcile
  /\ registered' = FALSE /\ alloc' = {} /\ run' = [w \in Workloads |-> "None"]
  /\ UNCHANGED <<obj, poolStatus>>

-----------------------------------------------------------------------------
Cycle == \/ runSchedulingCycle
         \/ \E v \in Workloads : MarkVictim(v)
         \/ FreeVictim
         \/ patchWorkloadAdmittedAndScheduled

ReconcileStep ==
  \/ AddFinalizer \/ InitializeQueueStatus
  \/ executeAdmissionAllocate \/ executeAdmissionStart \/ executeAdmissionRunning
  \/ pollRunningStatus \/ pollRunningStatusFinish \/ pollRunningStatusCount
  \/ ReconcileTerminal \/ ReleaseTerminal \/ ReconcileDelete \/ RemoveFinalizer

\* What goes on by itself beside the watch.
Progress ==
  \/ HandleEvent \/ FinishMoving \/ handlePoolEvent
  \/ \E w \in Workloads : Reconcile(w) \/ RunEnds(w)
  \/ ReconcileStep
  \/ ReconcilePool
  \/ Cycle

Next ==
  \/ \E w \in Workloads : Create(w) \/ Delete(w)
  \/ WatchEvent
  \/ Progress
  \/ Restart

Spec == Init /\ [][Next]_vars

\* The watch delivers, and while anything else can go on something does.  Weaker
\* than fairness to each goroutine, and enough: only a reconcile that meets a
\* conflict can repeat for ever, and the watch ends that.  Users need not act, the
\* process need not restart.
FairSpec == Spec /\ WF_vars(WatchEvent) /\ WF_vars(Progress)

-----------------------------------------------------------------------------
\* A workload is in one bucket at most.  With a workload in two of them Validate
\* rejects the inputs and the cycle skips the namespace.
BucketsDisjoint ==
  /\ queued \cap scheduled = {}
  /\ queued \cap running = {}
  /\ scheduled \cap running = {}

\* While the stored phase is Running the workload holds its devices and the
\* simulator knows its run: neither the reconciler nor a preemption that works
\* on old copies takes them away before the phase changes.  (A restart loses the
\* simulator and with it all devices and runs.)
RunningHoldsDevices ==
  restarts = 0 =>
    \A w \in Workloads :
      obj[w].phase = "Running" /\ ~obj[w].deleting => w \in alloc /\ run[w] # "None"

\* A workload that is gone holds no devices: nothing allocates for it after the
\* finalizer's release, although the reconciler works on old copies and the
\* process may restart at any point.
GoneHoldsNoDevices == \A w \in Workloads : obj[w].phase = "Gone" => w \notin alloc

\* The lifecycle as README.md draws it, from the object's creation to its removal.
Lifecycle ==
  {<<"None", "New">>, <<"New", "Queued">>, <<"Queued", "Scheduled">>,
   <<"Scheduled", "Running">>, <<"Running", "Succeeded">>, <<"Running", "Preempted">>,
   <<"Preempted", "Queued">>} \cup (Phases \X {"Gone"})

\* A stored phase changes along the lifecycle only, although the scheduler loop
\* and the reconciler each write on copies that may be old: neither undoes or
\* skips what the other has written.  The one step that leaves the lifecycle is
\* the mark of a victim, which does not look at the phase it replaces: a victim
\* that has Succeeded since the snapshot becomes Preempted all the same.
PhaseFollowsLifecycle ==
  [][\A w \in Workloads :
       \/ obj'[w].phase = obj[w].phase
       \/ <<obj[w].phase, obj'[w].phase>> \in Lifecycle
       \/ /\ cycle.pc = "mark" /\ w \in cycle.victims
          /\ obj'[w].phase = "Preempted"]_vars

Ended(w) == obj[w].phase \in Terminal \cup {"Gone"}

\* No workload is forgotten: when the operator comes to rest, with every version
\* received and no handler, cycle, reconcile or run that could go on, every
\* workload that was created has ended and its devices are free.  Each wake-up
\* between the cache, the buckets, the cycle and the pool's status must reach
\* the next one for this.  (After a restart the simulator does not know the runs
\* of the workloads that are Running, and these are polled for ever.)
NothingIsForgotten ==
  restarts = 0 /\ watch = <<>> /\ ~ENABLED Progress =>
    \A w \in Workloads : obj[w].phase # "None" => Ended(w) /\ w \notin alloc

-----------------------------------------------------------------------------
\* What the repository says and the operator does not do.

\* docs/architecture.md: a tenant cannot exceed its cap by accumulating admitted
\* workloads that are not running yet.
WithinGPUCap ==
  \A t \in DOMAIN Quotas :
    Quotas[t].maxGPUs # 0 =>
      AllocatedGPUs({w \in Workloads : /\ WorkloadSpecs[w].tenant = t
                                       /\ obj[w].phase \in {"Scheduled", "Running"}})
        <= Quotas[t].maxGPUs

\* README.md: preempted workloads are re-queued and rescheduled when capacity
\* frees.
PreemptedIsRequeued ==
  \A w \in Workloads : obj[w].phase = "Preempted" ~> obj[w].phase # "Preempted"
=============================================================================
