---------------------------- MODULE SchedulerLoop ----------------------------
(***************************************************************************)
(* The scheduler loop of internal/controller/scheduler_loop.go over        *)
(* several namespaces, with the pools of FleetSync: informer events feed   *)
(* the in-memory state and request cycles, cycles admit and preempt.  The  *)
(* operator runs with a worker pool, so the workers are the environment    *)
(* that moves an admitted workload on.  (Operator has the same loop for    *)
(* one namespace, with the old copies of the objects it works on.)         *)
(***************************************************************************)
EXTENDS FleetCapacity, FleetSync

CONSTANTS Namespaces,
          Workloads,
          Job,         \* for each workload ns and the fields of Admission
          PoolSpec,    \* for each pool ns, profile and memMiB
          Tenants,
          Quotas,      \* the names of TenantQuota objects
          QuotaNs,     \* their namespaces
          QuotaSpecs,  \* what they may say: tenant, Blank or another, and maxGPUs
          MaxAdmissionsPerCycle,
          Limits,      \* the values of limit
          NoFleet      \* no entry in schedulerState.fleet

Blank == ""

Counters == {"edits", "faults", "remoteRestarts", "restarts", "quotaEdits", "deletes", "failures"}

ASSUME LoopAssumption ==
  /\ MaxAdmissionsPerCycle \in Nat \ {0}
  /\ IsFiniteSet(Pools) /\ IsFiniteSet(Quotas) /\ Blank \notin Tenants
  /\ \A q \in Quotas : QuotaNs[q] \in Namespaces
  /\ \A l \in Limits : /\ \A c \in Counters : l[c] \in Nat
                       /\ l.submitted \subseteq Workloads
                       /\ l.pools \subseteq Pools /\ l.editable \subseteq Pools
                       /\ l.timers \in BOOLEAN /\ l.strict \subseteq BOOLEAN

VARIABLES phase,       \* API server: the phases of the workloads
          deleting,    \* those with a deletion timestamp
          quotaObj,    \* the TenantQuota objects
          events,      \* workload events the handler has not seen yet
          quotaEvents, \* the same for quotas
          poolEvents,  \* namespaces with a pool event the handler has not seen yet
          bucket,      \* schedulerState: queued, scheduled, running
          fleet,       \* schedulerState.fleet
          quotas,      \* schedulerState.quotas
          refresh,     \* what Start has listed and not set yet, by namespace
          trigger,     \* triggerCh
          cycle,       \* runSchedulingCycle in progress
          unprompted,  \* history: room was made, or an admission failed, since the
                       \* last cycle began, and no cycle was requested for it
          plain,       \* history: no quota has changed or shared its tenant
          missed       \* history: namespaces whose fleet may be older than the cache

apiVars == <<phase, deleting, quotaObj>>
eventVars == <<events, quotaEvents, poolEvents>>
stateVars == <<bucket, fleet, quotas, refresh>>
history == <<unprompted, plain, missed>>
loopVars == <<apiVars, eventVars, stateVars, trigger, cycle, history>>
vars == <<fleetVars, limit, spent, loopVars>>

NoQuota == [maxGPUs |-> 0, weight |-> 0]
Unset == [tenant |-> Blank, maxGPUs |-> 0]
Idle == [pc |-> "idle"]
NoRefresh == [n \in {} |-> NoFleet]

\* The orders in which the members of a set can be listed, and one of them.
Orders(S) == Injection(1 .. Cardinality(S), S)
Listed(S) == CHOOSE s \in Orders(S) : TRUE

\* The pools of a namespace as the client lists them from objects.  Pools of one
\* profile have the same memory here, so the order of a list tells no difference.
Aggregate(objects, n) ==
  LET listed == Listed({p \in Pools : PoolSpec[p].ns = n /\ objects[p].size > 0})
  IN  IF listed = << >> THEN NoFleet
      ELSE aggregateFleetFromPools([i \in DOMAIN listed |->
             [profile |-> PoolSpec[listed[i]].profile, memMiB |-> PoolSpec[listed[i]].memMiB,
              available |-> objects[listed[i]].status]])

\* A quiet operator with the pools of limit registered everywhere.
Init ==
  /\ limit \in Limits /\ spent = [c \in Counters |-> 0]
  /\ stored = [p \in Pools |-> IF p \in limit.pools THEN [size |-> 1, ver |-> 1, status |-> 1]
                               ELSE Nothing]
  /\ seen = stored
  /\ due = {} /\ timer = limit.pools /\ rec = NoReconcile
  /\ local = [p \in Pools |-> stored[p].size] /\ remote = local /\ late = {}
  /\ strict \in limit.strict
  /\ phase = [w \in Workloads |-> "None"] /\ deleting = {}
  /\ quotaObj = [q \in Quotas |-> Unset]
  /\ events = << >> /\ quotaEvents = << >> /\ poolEvents = {}
  /\ bucket = [w \in Workloads |-> "none"]
  /\ fleet = [n \in Namespaces |-> Aggregate(stored, n)]
  /\ quotas = [n \in Namespaces |-> [t \in Tenants |-> NoQuota]]
  /\ refresh = NoRefresh
  /\ trigger = FALSE /\ cycle = Idle
  /\ unprompted = FALSE /\ plain = TRUE /\ missed = {}

-----------------------------------------------------------------------------
\* Users, the workload reconciler and the workers.

SetPhase(w, ph) ==
  /\ phase' = [phase EXCEPT ![w] = ph]
  /\ events' = Append(events, [w |-> w, old |-> phase[w], new |-> ph, deleting |-> w \in deleting])

Outside == UNCHANGED <<fleetVars, limit, quotaObj, quotaEvents, poolEvents, stateVars,
                       trigger, cycle, history>>

\* The reconciler has initialised the status of a new object.
Submit(w) ==
  /\ w \in limit.submitted /\ phase[w] = "None"
  /\ SetPhase(w, "Queued")
  /\ Outside /\ UNCHANGED <<deleting, spent>>

\* A worker runs the workload to its end, or fails it before it runs.
Work(w) ==
  /\ \/ phase[w] = "Scheduled" /\ \E ph \in {"Running", "Ended"} : SetPhase(w, ph)
     \/ phase[w] = "Running" /\ SetPhase(w, "Ended")
  /\ Outside /\ UNCHANGED <<deleting, spent>>

Delete(w) ==
  /\ Spend("deletes")
  /\ phase[w] \notin {"None", "Gone"} /\ w \notin deleting
  /\ deleting' = deleting \cup {w}
  /\ events' = Append(events, [w |-> w, old |-> phase[w], new |-> phase[w], deleting |-> TRUE])
  /\ Outside /\ UNCHANGED phase

\* The finalizer is removed.
Finalize(w) ==
  /\ w \in deleting /\ phase[w] # "Gone"
  /\ SetPhase(w, "Gone")
  /\ Outside /\ UNCHANGED <<deleting, spent>>

\* A quota object is created, changed or, with Unset, deleted.
EditQuota(q, spec) ==
  /\ Spend("quotaEdits")
  /\ quotaObj[q] # spec
  /\ quotaObj' = [quotaObj EXCEPT ![q] = spec]
  /\ quotaEvents' = Append(quotaEvents,
       [ns |-> QuotaNs[q], gone |-> spec = Unset, spec |-> IF spec = Unset THEN quotaObj[q] ELSE spec])
  /\ plain' = /\ plain
              /\ IF spec = Unset THEN quotaObj[q].tenant # Blank
                 ELSE /\ quotaObj[q] # Unset => quotaObj[q].tenant = spec.tenant
                      /\ \A r \in Quotas \ {q} :
                           QuotaNs[r] = QuotaNs[q] => quotaObj[r].tenant # spec.tenant
  /\ UNCHANGED <<fleetVars, limit, phase, deleting, events, poolEvents, stateVars,
                 trigger, cycle, unprompted, missed>>

-----------------------------------------------------------------------------
\* Event handlers.

BucketOf(ph) ==
  CASE ph = "Queued" -> "queued" [] ph = "Scheduled" -> "scheduled" [] ph = "Running" -> "running"
    [] OTHER -> "none"

\* In the code a Running workload is removed from its bucket and put into the
\* running one under two locks. A cycle between the two counts it nowhere; that
\* window is a step of its own in Operator (FinishMoving), where snapshots are
\* compared with the devices in use. Here the bucket changes at once.
applyWorkloadToState(e) ==
  bucket' = [bucket EXCEPT ![e.w] = IF e.deleting THEN "none" ELSE BucketOf(e.new)]

\* Mutant of RequestsCycle: the end of a running workload requests nothing.
RequestsCycleQueued(e) == e.new = "Queued" /\ ~e.deleting

\* handleWorkloadAdd, handleWorkloadUpdate and handleWorkloadDelete: which
\* events request a cycle.
RequestsCycle(e) ==
  \/ e.new = "Queued" /\ ~e.deleting
  \/ e.old = "Running" /\ e.new # "Running"

\* A Scheduled workload that leaves gives back its tenant's quota, a malformed
\* one that leaves the queue had stopped the whole namespace.
MakesRoom(w) == bucket[w] = "scheduled" \/ (bucket[w] = "queued" /\ ~Job[w].wellFormed)

\* One event. handleWorkloadDelete requests its cycle before it removes the
\* workload; the order does not show, since the event that brought the deletion
\* timestamp has emptied the workload's bucket before.
HandleWorkload ==
  /\ events # << >>
  /\ LET e == Head(events) IN
       /\ applyWorkloadToState(e)
       /\ trigger' = (trigger \/ RequestsCycle(e))
       /\ unprompted' = \/ unprompted
                        \/ MakesRoom(e.w) /\ bucket'[e.w] = "none" /\ ~RequestsCycle(e)
  /\ events' = Tail(events)
  /\ UNCHANGED <<fleetVars, limit, spent, apiVars, quotaEvents, poolEvents, fleet, quotas,
                 refresh, cycle, plain, missed>>

\* Mutant of handlePoolEvent: the last pool's capacity stays.
handlePoolEventKeepsLast(n) ==
  /\ n \in poolEvents
  /\ poolEvents' = poolEvents \ {n}
  /\ fleet' = [fleet EXCEPT ![n] = IF Aggregate(seen, n) = NoFleet THEN @ ELSE Aggregate(seen, n)]
  /\ trigger' = TRUE
  /\ missed' = IF n \in DOMAIN refresh THEN missed \cup {n} ELSE missed \ {n}
  /\ UNCHANGED <<fleetVars, limit, spent, apiVars, events, quotaEvents, bucket, quotas,
                 refresh, cycle, unprompted, plain>>

\* Whatever the event is, the pools of the namespace are listed again.
handlePoolEvent(n) ==
  /\ n \in poolEvents
  /\ poolEvents' = poolEvents \ {n}
  /\ fleet' = [fleet EXCEPT ![n] = Aggregate(seen, n)]
  /\ trigger' = TRUE
  /\ missed' = IF n \in DOMAIN refresh THEN missed \cup {n} ELSE missed \ {n}
  /\ UNCHANGED <<fleetVars, limit, spent, apiVars, events, quotaEvents, bucket, quotas,
                 refresh, cycle, unprompted, plain>>

\* The list fails, which is only logged.
handlePoolEventFails(n) ==
  /\ n \in poolEvents /\ Spend("failures")
  /\ poolEvents' = poolEvents \ {n}
  /\ missed' = missed \cup {n}
  /\ UNCHANGED <<fleetVars, limit, apiVars, events, quotaEvents, stateVars, trigger, cycle,
                 unprompted, plain>>

\* Mutant of QuotasAfter: deleted quotas stay.
QuotasAfterKeeps(e) ==
  [t \in Tenants |-> IF t = e.spec.tenant THEN [maxGPUs |-> e.spec.maxGPUs, weight |-> 1]
                     ELSE quotas[e.ns][t]]

\* deleteQuota, deleteAllQuotasInNamespace and upsertQuota: a quota without a
\* tenant says nothing, and takes all others with it when it is deleted.
QuotasAfter(e) ==
  [t \in Tenants |->
     IF e.gone /\ e.spec.tenant \in {t, Blank} THEN NoQuota
     ELSE IF ~e.gone /\ t = e.spec.tenant THEN [maxGPUs |-> e.spec.maxGPUs, weight |-> 1]
     ELSE quotas[e.ns][t]]

handleQuotaEvent ==
  /\ quotaEvents # << >>
  /\ LET e == Head(quotaEvents) IN
       /\ quotas' = [quotas EXCEPT ![e.ns] = QuotasAfter(e)]
       /\ trigger' = (trigger \/ e.gone \/ e.spec.tenant # Blank)
  /\ quotaEvents' = Tail(quotaEvents)
  /\ UNCHANGED <<fleetVars, limit, spent, apiVars, events, poolEvents, bucket, fleet, refresh,
                 cycle, history>>

-----------------------------------------------------------------------------
\* Scheduling cycles.

\* The workloads in an order of their own, as slices take it from Go maps: only
\* workloads with the same priority and time would be told apart by it.
Order == Listed(Workloads)

JobsOf(W) == LET s == SelectSeq(Order, LAMBDA w : w \in W) IN [i \in DOMAIN s |-> Job[s[i]]]

InBucket(n, b) == {w \in Workloads : Job[w].ns = n /\ bucket[w] = b}

snapshotForNamespace(n) ==
  [queued |-> JobsOf(InBucket(n, "queued")), scheduled |-> JobsOf(InBucket(n, "scheduled")),
   running |-> JobsOf(InBucket(n, "running")), fleet |-> fleet[n], quotas |-> quotas[n]]

namespacesWithQueueAndFleet ==
  {n \in Namespaces : InBucket(n, "queued") # {} /\ fleet[n] # NoFleet}

CycleStep == UNCHANGED <<fleetVars, limit, deleting, quotaObj, quotaEvents, poolEvents, stateVars,
                         plain, missed>>

BeginCycle ==
  /\ trigger /\ cycle = Idle /\ refresh = NoRefresh
  /\ trigger' = FALSE /\ unprompted' = FALSE
  /\ cycle' = [pc |-> "visit", todo |-> namespacesWithQueueAndFleet]
  /\ CycleStep /\ UNCHANGED <<spent, phase, events>>

\* After the last admission in a namespace: the first namespace with one ends
\* the cycle.
NextNamespace(admitted, todo) ==
  IF admitted > 0 \/ todo = {} THEN Idle ELSE [pc |-> "visit", todo |-> todo]

\* The time of the cycle, after everything that is queued.
Now == 1 + Max({Job[w].at : w \in Workloads})

\* The namespaces come in the order of a Go map.
VisitNamespace(n) ==
  /\ cycle.pc = "visit" /\ n \in cycle.todo
  /\ CycleStep /\ UNCHANGED <<spent, phase, events, trigger, unprompted>>
  /\ LET in == snapshotForNamespace(n)
         todo == cycle.todo \ {n}
     IN  cycle' = IF in.fleet = NoFleet \/ in.queued = << >> \/ ~Validate(in)
                  THEN NextNamespace(0, todo)
                  ELSE [pc |-> "select", todo |-> todo, admitted |-> 0, in |-> in]

\* The loop over admissions in the namespace.
SelectWorkload ==
  /\ cycle.pc = "select"
  /\ CycleStep /\ UNCHANGED <<spent, phase, events, trigger, unprompted>>
  /\ \E sel \in {SelectOneForAdmission(cycle.in)} :
       cycle' = IF cycle.admitted = MaxAdmissionsPerCycle \/ sel.index = 0
                THEN NextNamespace(cycle.admitted, cycle.todo)
                ELSE [pc |-> "admit", todo |-> cycle.todo, admitted |-> cycle.admitted,
                      in |-> cycle.in, w |-> cycle.in.queued[sel.index],
                      victims |-> {cycle.in.running[i].id : i \in sel.victims}]

NothingToVisit ==
  /\ cycle.pc = "visit" /\ cycle.todo = {}
  /\ cycle' = Idle
  /\ CycleStep /\ UNCHANGED <<spent, phase, events, trigger, unprompted>>

\* markVictimsPreemptedAndRelease, one victim.  The local simulator knows no
\* runs.
MarkVictim(v) ==
  /\ cycle.pc = "admit" /\ v \in cycle.victims
  /\ IF phase[v] \in {"Gone", "Ended"} THEN UNCHANGED <<phase, events>> ELSE SetPhase(v, "Ended")
  /\ cycle' = [cycle EXCEPT !.victims = @ \ {v}]
  /\ CycleStep /\ UNCHANGED <<spent, trigger, unprompted>>

\* patchWorkloadAdmittedAndScheduled.  A workload that is no longer Queued is
\* left as it is and counted as admitted.
Admit ==
  /\ cycle.pc = "admit" /\ cycle.victims = {} /\ phase[cycle.w.id] # "Gone"
  /\ IF phase[cycle.w.id] = "Queued" THEN SetPhase(cycle.w.id, "Scheduled")
     ELSE UNCHANGED <<phase, events>>
  /\ cycle' = IF VirtualAdmissionOK(cycle.in, cycle.w)
              THEN [pc |-> "select", todo |-> cycle.todo, admitted |-> cycle.admitted + 1,
                    in |-> ApplyVirtualAdmission(cycle.in, cycle.w, Now)]
              ELSE NextNamespace(cycle.admitted + 1, cycle.todo)
  /\ CycleStep /\ UNCHANGED <<spent, trigger, unprompted>>

\* A call to the API server fails.  The copy in the cache is older than the
\* object in all five attempts, or the object is gone, or something else.
Changed(w) == phase[w] = "Gone" \/ \E i \in DOMAIN events : events[i].w = w

AdmitFails ==
  /\ cycle.pc = "admit"
  /\ \/ Spend("failures")
     \/ /\ \E w \in cycle.victims : phase[w] # "Gone" /\ Changed(w)
        /\ UNCHANGED spent
     \/ cycle.victims = {} /\ Changed(cycle.w.id) /\ UNCHANGED spent
  /\ cycle' = NextNamespace(cycle.admitted, cycle.todo)
  /\ unprompted' = TRUE
  /\ CycleStep /\ UNCHANGED <<phase, events, trigger>>

-----------------------------------------------------------------------------
\* The operator restarts, or another becomes leader.  Start registers the
\* handlers, which see every object that exists as an Add, and lists the pools;
\* when the list fails it goes on without.
Restart ==
  /\ Spend("restarts")
  /\ FleetRestart
  /\ LET W == {w \in Workloads : phase[w] \notin {"None", "Gone"}}
         Q == {q \in Quotas : quotaObj[q] # Unset}
         N == {n \in Namespaces : Aggregate(stored, n) # NoFleet}
     IN  /\ \E s \in Orders(W) :
              events' = [i \in DOMAIN s |-> [w |-> s[i], old |-> "None", new |-> phase[s[i]],
                                            deleting |-> s[i] \in deleting]]
         /\ \E s \in Orders(Q) :
              quotaEvents' = [i \in DOMAIN s |-> [ns |-> QuotaNs[s[i]], gone |-> FALSE,
                                                 spec |-> quotaObj[s[i]]]]
         /\ poolEvents' = N
         /\ \/ refresh' = [n \in N |-> Aggregate(stored, n)] /\ trigger' = (N = {})
            \/ refresh' = NoRefresh /\ trigger' = FALSE
  /\ bucket' = [w \in Workloads |-> "none"]
  /\ fleet' = [n \in Namespaces |-> NoFleet]
  /\ quotas' = [n \in Namespaces |-> [t \in Tenants |-> NoQuota]]
  /\ cycle' = Idle /\ unprompted' = FALSE /\ missed' = {}
  /\ UNCHANGED <<limit, apiVars, plain>>

\* refreshFleetFromAPI sets the fleet of one namespace after another, then the
\* first cycle is requested and the worker starts.
refreshFleetFromAPI(n) ==
  /\ n \in DOMAIN refresh
  /\ fleet' = [fleet EXCEPT ![n] = refresh[n]]
  /\ refresh' = [m \in DOMAIN refresh \ {n} |-> refresh[m]]
  /\ trigger' = (trigger \/ DOMAIN refresh = {n})
  /\ UNCHANGED <<fleetVars, limit, spent, apiVars, eventVars, bucket, quotas, cycle, history>>

-----------------------------------------------------------------------------
\* The cache tells the reconciler and the scheduler loop.
Watch(p) ==
  /\ WatchPool(p)
  /\ poolEvents' = poolEvents \cup {PoolSpec[p].ns}
  /\ UNCHANGED <<limit, apiVars, events, quotaEvents, stateVars, trigger, cycle, history>>

Handlers == \/ HandleWorkload \/ handleQuotaEvent
            \/ \E n \in Namespaces : handlePoolEvent(n) \/ refreshFleetFromAPI(n)

Cycle == \/ BeginCycle \/ NothingToVisit \/ Admit \/ AdmitFails
         \/ \E n \in Namespaces : VisitNamespace(n)
         \/ \E v \in Workloads : MarkVictim(v)
         \/ SelectWorkload

Fleet == FleetNext /\ UNCHANGED <<limit, loopVars>>

Workers == \E w \in Workloads : Work(w) \/ Finalize(w)

Loop == Workers \/ (\E p \in Pools : Watch(p)) \/ Handlers \/ Cycle

Next ==
  \/ \E w \in Workloads : Submit(w) \/ Delete(w)
  \/ \E q \in Quotas : \E spec \in QuotaSpecs \cup {Unset} : EditQuota(q, spec)
  \/ \E n \in Namespaces : handlePoolEventFails(n)
  \/ Loop \/ Fleet \/ Restart

Spec == Init /\ [][Next]_vars

\* While the informers, the handlers, the cycle or the workers can go on, one of
\* them does; none can go on for ever.  Timers expire, a request that does not
\* fail is answered, and a key in the reconciler's queue is taken in the end: the
\* queue is first in, first out, and the reconciler is busy with other keys only
\* for a while.  Users need not act and nothing need fail.
Fairness ==
  /\ WF_vars(Loop)
  /\ WF_vars((PostDone \/ UpdateStatus) /\ UNCHANGED <<limit, loopVars>>)
  /\ \A p \in Pools : /\ WF_vars(Resync(p) /\ UNCHANGED <<limit, loopVars>>)
                      /\ SF_vars(ReconcilePool(p) /\ UNCHANGED <<limit, loopVars>>)

FairSpec == Spec /\ Fairness

-----------------------------------------------------------------------------
\* The fleet of a namespace, which handlePoolEvent and refreshFleetFromAPI write
\* from two goroutines, is that of the pools in the cache once no event is on
\* its way: no pool is forgotten or outlives its object.  Not so when a list
\* failed, or when an event was handled between the list of Start and its use.
FleetFollowsPools ==
  \A n \in Namespaces \ (poolEvents \cup missed \cup DOMAIN refresh) :
    fleet[n] = Aggregate(seen, n)

\* The quotas that handleQuotaEvent keeps by tenant are those of the objects,
\* which have names of their own, as long as no object changes its tenant or
\* shares it with another and none without a tenant is deleted.
QuotaObjectOf(n, t) == {q \in Quotas : QuotaNs[q] = n /\ quotaObj[q].tenant = t}

QuotasFollowObjects ==
  quotaEvents = << >> /\ plain =>
    \A n \in Namespaces, t \in Tenants :
      /\ QuotaObjectOf(n, t) = {} => quotas[n][t] = NoQuota
      /\ \A q \in QuotaObjectOf(n, t) : quotas[n][t].maxGPUs = quotaObj[q].maxGPUs

-----------------------------------------------------------------------------
\* What a cycle would see if its state were the objects.
Stored(n, ph) == JobsOf({w \in Workloads \ deleting : Job[w].ns = n /\ phase[w] = ph})

Objects(n) ==
  [queued |-> Stored(n, "Queued"), scheduled |-> Stored(n, "Scheduled"),
   running |-> Stored(n, "Running"), fleet |-> Aggregate(stored, n),
   quotas |-> [t \in Tenants |->
     IF QuotaObjectOf(n, t) = {} THEN NoQuota
     ELSE [maxGPUs |-> quotaObj[CHOOSE q \in QuotaObjectOf(n, t) : TRUE].maxGPUs, weight |-> 1]]]

CanAdmit(n) ==
  LET in == Objects(n)
  IN  /\ in.fleet # NoFleet /\ in.queued # << >> /\ Validate(in)
      /\ SelectOneForAdmission(in).index # 0

\* No wake-up is lost: what the objects allow to admit does not wait for ever.
\* Requests coalesce, a cycle ends with the first namespace that admits something,
\* and an admission counts although the workload was not Queued any more; still,
\* each of these leaves a workload whose end requests the next cycle.  Not so
\* (unprompted) after a failed call, or when room is made by a workload that was
\* never Running, for which requestScheduling is not called.
AdmissibleIsAdmitted ==
  <>[](unprompted \/ ~plain \/ missed # {} \/ \A n \in Namespaces : ~CanAdmit(n))
==============================================================================
