------------------------- MODULE SchedulerLoopProofs -------------------------
(***************************************************************************)
(* The pools of the control plane, for every set of pools, namespaces,     *)
(* workloads and quotas, and without the bounds of the model.              *)
(***************************************************************************)
EXTENDS SchedulerLoop, FiniteSetTheorems, TLAPS

\* Zenon is tried first, and SMT on what Zenon does not prove.
USE ZenonT(3), SMTT(20)

\* What the reconciler knows of a pool is not newer than what the cache knows,
\* and that is not newer than the object; equal versions have equal sizes.  So
\* an update that the API server accepts is one of the object that was
\* registered.
FleetInv ==
  /\ FleetTypeOK
  /\ \A p \in Pools :
       /\ seen[p].ver <= stored[p].ver
       /\ seen[p].ver = stored[p].ver => seen[p].size = stored[p].size
       /\ stored[p].status > 0 => stored[p].size > 0 /\ seen[p].size > 0
  /\ StatusIsBacked
  /\ rec.pc # "idle" => rec.copy.ver <= seen[rec.p].ver
  /\ rec.pc = "status" => rec.copy.size > 0

\* Everything but the reconciler, its cache and the faults leaves the pools as
\* they are.
LEMMA StepCases ==
  ASSUME [Next]_vars
  PROVE  \/ UNCHANGED fleetVars
         \/ FleetNext
         \/ \E p \in Pools : WatchPool(p)
         \/ FleetRestart
<1>1. CASE \E w \in Workloads : Submit(w) \/ Delete(w)
  BY <1>1 DEF Submit, Delete, Outside
<1>2. CASE \E q \in Quotas : \E spec \in QuotaSpecs \cup {Unset} : EditQuota(q, spec)
  BY <1>2 DEF EditQuota
<1>3. CASE \E n \in Namespaces : handlePoolEventFails(n)
  BY <1>3 DEF handlePoolEventFails
<1>4. CASE Loop
  <2>1. CASE Workers
    BY <2>1 DEF Workers, Work, Finalize, Outside
  <2>2. CASE Handlers
    BY <2>2 DEF Handlers, HandleWorkload, handleQuotaEvent, handlePoolEvent, refreshFleetFromAPI
  <2>3. CASE Cycle
    BY <2>3 DEF Cycle, BeginCycle, NothingToVisit, SelectWorkload, Admit, AdmitFails,
                VisitNamespace, MarkVictim, CycleStep
  <2>4. CASE \E p \in Pools : Watch(p)
    BY <2>4 DEF Watch
  <2> QED BY <1>4, <2>1, <2>2, <2>3, <2>4 DEF Loop
<1>5. CASE Fleet
  BY <1>5 DEF Fleet
<1>6. CASE Restart
  BY <1>6 DEF Restart
<1>7. CASE UNCHANGED vars
  BY <1>7 DEF vars
<1> QED BY <1>1, <1>2, <1>3, <1>4, <1>5, <1>6, <1>7 DEF Next

\* The quiet operator of Init satisfies the invariant.
LEMMA FleetInvInit == Init => FleetInv
<1> SUFFICES ASSUME Init PROVE FleetInv
  OBVIOUS
<1>1. stored \in [Pools -> Object]
  BY FleetAssumption DEF Init, Object, Nothing
<1>2. FleetTypeOK
  <2>1. limit.pools \subseteq Pools /\ strict \in BOOLEAN
    BY LoopAssumption DEF Init
  <2>2. local \in [Pools -> 0 .. MaxSize]
    BY <1>1 DEF Init, Object
  <2> QED BY <1>1, <2>1, <2>2 DEF Init, FleetTypeOK
<1>3. \A p \in Pools : stored[p].status > 0 => stored[p].size > 0 /\ local[p] > 0
  BY FleetAssumption DEF Init, Nothing
<1>4. seen = stored /\ rec.pc = "idle"
  BY DEF Init, NoReconcile
<1> QED
  <2>1. \A p \in Pools : stored[p].ver \in Nat
    BY <1>1 DEF Object
  <2> QED BY <1>1, <1>2, <1>3, <1>4, <2>1 DEF FleetInv, StatusIsBacked

\* Users change one object and its version.
LEMMA EditPoolKeeps ==
  ASSUME FleetInv, NEW p \in Pools, NEW n \in 0 .. MaxSize, EditPool(p, n)
  PROVE  FleetInv'
<1> DEFINE o == [size |-> n, ver |-> stored[p].ver + 1,
                 status |-> IF stored[p].size > 0 /\ n > 0 THEN stored[p].status ELSE 0]
<1>1. /\ stored \in [Pools -> Object] /\ seen \in [Pools -> Object]
      /\ stored' = [stored EXCEPT ![p] = o]
      /\ UNCHANGED <<seen, due, timer, rec, local, remote, late, strict>>
  BY DEF EditPool, FleetInv, FleetTypeOK
<1>2. o \in Object
  BY <1>1, FleetAssumption DEF Object
<1>3. FleetTypeOK'
  BY <1>1, <1>2 DEF FleetInv, FleetTypeOK
<1>4. \A q \in Pools : /\ seen'[q].ver <= stored'[q].ver
                       /\ seen'[q].ver = stored'[q].ver => seen'[q].size = stored'[q].size
                       /\ stored'[q].status > 0 => stored'[q].size > 0 /\ seen'[q].size > 0
  BY <1>1, <1>2 DEF FleetInv, Object
<1>5. StatusIsBacked'
  BY <1>1, <1>2 DEF FleetInv, StatusIsBacked, Object
<1> HIDE DEF o
<1> QED BY <1>1, <1>3, <1>4, <1>5 DEF FleetInv

\* The cache takes the object over.
LEMMA WatchPoolKeeps ==
  ASSUME FleetInv, NEW p \in Pools, WatchPool(p)
  PROVE  FleetInv'
<1>1. /\ stored \in [Pools -> Object] /\ seen \in [Pools -> Object]
      /\ seen' = [seen EXCEPT ![p] = stored[p]]
      /\ due' = due \cup {p}
      /\ UNCHANGED <<stored, rec, local, remote, late, strict>>
  BY DEF WatchPool, FleetInv, FleetTypeOK
<1>2. FleetTypeOK'
  BY <1>1 DEF WatchPool, FleetInv, FleetTypeOK
<1>3. \A q \in Pools : seen[q].ver \in Nat /\ stored[q].ver \in Nat /\ stored[q].status \in Int
  BY <1>1 DEF Object
<1>4. \A q \in Pools : /\ seen'[q].ver <= stored'[q].ver
                       /\ seen'[q].ver = stored'[q].ver => seen'[q].size = stored'[q].size
                       /\ stored'[q].status > 0 => stored'[q].size > 0 /\ seen'[q].size > 0
                       /\ seen[q].ver <= seen'[q].ver
  BY <1>1, <1>3 DEF FleetInv
<1>5. StatusIsBacked'
  BY <1>1 DEF FleetInv, StatusIsBacked
<1>6. rec.pc # "idle" => rec.p \in Pools /\ rec.copy.ver \in Nat
  BY DEF FleetInv, FleetTypeOK, NoReconcile, Object
<1>7. (rec.pc # "idle" => rec.copy.ver <= seen[rec.p].ver)'
  BY <1>1, <1>3, <1>4, <1>6 DEF FleetInv
<1> QED BY <1>1, <1>2, <1>4, <1>5, <1>7 DEF FleetInv

\* A reconcile registers what the cache has; an object with a status is in the
\* cache with its devices.
LEMMA ReconcilePoolKeeps ==
  ASSUME FleetInv, NEW p \in Pools, ReconcilePool(p)
  PROVE  FleetInv'
<1>1. /\ stored \in [Pools -> Object] /\ seen \in [Pools -> Object]
      /\ local \in [Pools -> 0 .. MaxSize]
      /\ due' = due \ {p}
      /\ local' = [local EXCEPT ![p] = seen[p].size]
      /\ rec' = [pc |-> "post", p |-> p, copy |-> seen[p]]
      /\ UNCHANGED <<stored, seen, timer, remote, late, strict>>
  BY DEF ReconcilePool, FleetInv, FleetTypeOK
<1>2. FleetTypeOK'
  <2>1. local' \in [Pools -> 0 .. MaxSize]
    BY <1>1 DEF Object
  <2> QED BY <1>1, <2>1 DEF FleetInv, FleetTypeOK
<1>3. StatusIsBacked'
  BY <1>1 DEF FleetInv, StatusIsBacked
<1>4. rec'.copy.ver <= seen'[rec'.p].ver
  BY <1>1 DEF Object
<1> QED BY <1>1, <1>2, <1>3, <1>4 DEF FleetInv

\* The status is written only to the version that was registered.
LEMMA UpdateStatusKeeps ==
  ASSUME FleetInv, UpdateStatus
  PROVE  FleetInv'
<1> DEFINE p == rec.p
<1>1. /\ stored \in [Pools -> Object] /\ seen \in [Pools -> Object]
      /\ local \in [Pools -> 0 .. MaxSize]
      /\ rec.copy \in Object /\ p \in Pools
      /\ rec' = NoReconcile
      /\ UNCHANGED <<seen, local, remote, late, strict>>
      /\ due \subseteq due' /\ due' \subseteq Pools /\ timer' \subseteq Pools
  BY DEF UpdateStatus, FleetInv, FleetTypeOK, NoReconcile
<1>2. rec'.pc = "idle"
  BY <1>1 DEF NoReconcile
<1>3. CASE stored' = stored
  <2>1. FleetTypeOK' /\ StatusIsBacked'
    BY <1>1, <1>3 DEF FleetInv, FleetTypeOK, StatusIsBacked
  <2> QED BY <1>1, <1>2, <1>3, <2>1 DEF FleetInv
<1>4. CASE rec.copy = stored[p] /\ stored' = [stored EXCEPT ![p].status = local[p]]
  <2>1. /\ stored' \in [Pools -> Object]
        /\ \A q \in Pools : /\ stored'[q].ver = stored[q].ver /\ stored'[q].size = stored[q].size
                            /\ stored'[q].status = IF q = p THEN local[p] ELSE stored[q].status
    BY <1>1, <1>4 DEF Object
  <2>2. stored[p].size > 0 /\ seen[p].size > 0
    <3>1. rec.pc = "status"
      BY DEF UpdateStatus
    <3>2. rec.copy.ver <= seen[p].ver /\ seen[p].ver <= stored[p].ver /\ rec.copy.size > 0
      BY <1>1, <3>1 DEF FleetInv
    <3>3. rec.copy.ver = stored[p].ver /\ rec.copy.size = stored[p].size
      BY <1>4
    <3>4. seen[p].ver \in Nat /\ stored[p].ver \in Nat
      BY <1>1 DEF Object
    <3>5. seen[p].ver = stored[p].ver
      BY <3>2, <3>3, <3>4
    <3> QED BY <1>1, <3>2, <3>3, <3>5 DEF FleetInv
  <2>3. FleetTypeOK'
    BY <1>1, <2>1 DEF FleetInv, FleetTypeOK
  <2>4. StatusIsBacked'
    BY <1>1, <2>1 DEF FleetInv, StatusIsBacked
  <2>5. \A q \in Pools : /\ seen'[q].ver <= stored'[q].ver
                         /\ seen'[q].ver = stored'[q].ver => seen'[q].size = stored'[q].size
                         /\ stored'[q].status > 0 => stored'[q].size > 0 /\ seen'[q].size > 0
    BY <1>1, <2>1, <2>2 DEF FleetInv
  <2> QED BY <1>1, <1>2, <2>3, <2>4, <2>5 DEF FleetInv
<1>5. \/ stored' = stored
      \/ rec.copy = stored[p] /\ stored' = [stored EXCEPT ![p].status = local[p]]
  BY DEF UpdateStatus
<1> QED BY <1>3, <1>4, <1>5

\* The requests to the remote simulator touch neither the objects nor the local
\* simulator.
LEMMA RemoteKeeps ==
  ASSUME FleetInv, PostDone \/ PostFails \/ LatePost \/ RemoteRestart
  PROVE  FleetInv'
<1>1. /\ UNCHANGED <<stored, seen, local, strict>>
      /\ due \subseteq due' /\ timer' = timer
  BY DEF PostDone, PostFails, LatePost, RemoteRestart
<1>2. /\ rec.pc # "idle" => rec \in [pc : {"post", "status"}, p : Pools, copy : Object]
      /\ remote \in [Pools -> 0 .. MaxSize] /\ late \subseteq [p : Pools, size : 0 .. MaxSize]
      /\ due \subseteq Pools
  BY DEF FleetInv, FleetTypeOK, NoReconcile
<1>3. rec.pc # "idle" => rec.p \in Pools /\ rec.copy \in Object /\ rec.copy.size \in 0 .. MaxSize
  BY <1>2 DEF Object
<1>4. \/ rec' = rec
      \/ rec' = NoReconcile
      \/ rec.pc # "idle" /\ rec.copy.size # 0 /\ rec' = [rec EXCEPT !.pc = "status"]
  BY <1>2 DEF PostDone, PostFails, LatePost, RemoteRestart, AfterPost
<1>5. /\ remote' \in [Pools -> 0 .. MaxSize] /\ late' \subseteq [p : Pools, size : 0 .. MaxSize]
      /\ due' \subseteq Pools
  <2>1. CASE PostDone
    BY <1>2, <1>3, <2>1 DEF PostDone
  <2>2. CASE PostFails
    BY <1>2, <1>3, <2>2 DEF PostFails
  <2>3. CASE LatePost
    BY <1>2, <2>3 DEF LatePost
  <2>4. CASE RemoteRestart
    BY <1>2, <2>4, FleetAssumption DEF RemoteRestart
  <2> QED BY <2>1, <2>2, <2>3, <2>4
<1>6. \/ rec' = NoReconcile
      \/ rec' \in [pc : {"post", "status"}, p : Pools, copy : Object]
  BY <1>2, <1>4 DEF FleetInv, FleetTypeOK, NoReconcile
<1>7. FleetTypeOK'
  BY <1>1, <1>5, <1>6 DEF FleetInv, FleetTypeOK
<1>8. StatusIsBacked'
  BY <1>1 DEF FleetInv, StatusIsBacked
<1>9. (rec.pc # "idle" => rec.copy.ver <= seen[rec.p].ver)'
      /\ (rec.pc = "status" => rec.copy.size > 0)'
  <2>1. CASE rec' = rec
    BY <1>1, <2>1 DEF FleetInv
  <2>2. CASE rec' = NoReconcile
    BY <2>2 DEF NoReconcile
  <2>3. CASE rec.pc # "idle" /\ rec.copy.size # 0 /\ rec' = [rec EXCEPT !.pc = "status"]
    <3>1. rec'.copy = rec.copy /\ rec'.p = rec.p
      BY <1>2, <2>3
    <3>2. rec.copy.size > 0
      BY <1>3, <2>3
    <3> QED BY <1>1, <2>3, <3>1, <3>2 DEF FleetInv
  <2> QED BY <1>4, <2>1, <2>2, <2>3
<1> QED BY <1>1, <1>7, <1>8, <1>9 DEF FleetInv

\* A timer only fills the queue.
LEMMA ResyncKeeps ==
  ASSUME FleetInv, NEW p \in Pools, Resync(p)
  PROVE  FleetInv'
BY DEF FleetInv, FleetTypeOK, StatusIsBacked, Resync

\* A restarted operator has every object that exists in its queue.
LEMMA RestartKeeps ==
  ASSUME FleetInv, FleetRestart
  PROVE  FleetInv'
<1>1. /\ stored \in [Pools -> Object] /\ stored' = stored /\ seen' = stored
      /\ due' = {p \in Pools : stored[p].size > 0} /\ rec' = NoReconcile
  BY DEF FleetRestart, FleetInv, FleetTypeOK
<1>2. FleetTypeOK'
  BY <1>1, FleetAssumption DEF FleetRestart, FleetInv, FleetTypeOK
<1>3. \A p \in Pools : stored[p].ver \in Nat /\ (stored[p].status > 0 => stored[p].size > 0)
  BY <1>1 DEF Object, FleetInv
<1>4. StatusIsBacked'
  BY <1>1, <1>3 DEF StatusIsBacked
<1> QED BY <1>1, <1>2, <1>3, <1>4 DEF FleetInv, NoReconcile

\* Every step keeps the invariant.
LEMMA FleetInvNext == FleetInv /\ [Next]_vars => FleetInv'
<1> SUFFICES ASSUME FleetInv, [Next]_vars PROVE FleetInv'
  OBVIOUS
<1>1. CASE UNCHANGED fleetVars
  BY <1>1 DEF fleetVars, FleetInv, FleetTypeOK, StatusIsBacked
<1>2. CASE FleetNext
  BY <1>2, EditPoolKeeps, ResyncKeeps, ReconcilePoolKeeps, UpdateStatusKeeps, RemoteKeeps
     DEF FleetNext, ReconcilerStep
<1>3. CASE \E p \in Pools : WatchPool(p)
  BY <1>3, WatchPoolKeeps
<1>4. CASE FleetRestart
  BY <1>4, RestartKeeps
<1> QED BY <1>1, <1>2, <1>3, <1>4, StepCases

\* The devices in the status of a pool, on which the scheduler loop admits, are
\* those of a pool that the local simulator has, or that the reconciler has in
\* its queue: for any pools, faults and restarts.
THEOREM LoopStatusIsBacked == Spec => []StatusIsBacked
<1>1. FleetInv => StatusIsBacked
  BY DEF FleetInv
<1> QED BY <1>1, FleetInvInit, FleetInvNext, PTL DEF Spec

-----------------------------------------------------------------------------
\* The fleet of a namespace.

\* A finite set can be listed, and a list of it has its members only.
LEMMA ListedAreMembers ==
  ASSUME NEW S, IsFiniteSet(S)
  PROVE  Listed(S) \in [1 .. Cardinality(S) -> S]
<1>1. \E f \in Orders(S) : TRUE
  BY FS_CardinalityType DEF ExistsBijection, Bijection, Orders
<1> QED BY <1>1 DEF Listed, Orders, Injection

\* What is listed for a namespace depends on the objects of its own pools only.
LEMMA SameAggregate ==
  ASSUME NEW a, NEW b, NEW n,
         \A p \in Pools : PoolSpec[p].ns = n => a[p] = b[p]
  PROVE  Aggregate(a, n) = Aggregate(b, n)
<1> DEFINE S == {p \in Pools : PoolSpec[p].ns = n /\ a[p].size > 0}
           T == {p \in Pools : PoolSpec[p].ns = n /\ b[p].size > 0}
           listed == Listed(S)
           L(o) == [i \in DOMAIN listed |->
                     [profile |-> PoolSpec[listed[i]].profile, memMiB |-> PoolSpec[listed[i]].memMiB,
                      available |-> o[listed[i]].status]]
           A(o) == IF listed = << >> THEN NoFleet ELSE aggregateFleetFromPools(L(o))
<1>1. S = T
  OBVIOUS
<1>2. listed \in [1 .. Cardinality(S) -> S]
  BY FS_Subset, ListedAreMembers, LoopAssumption
<1>3. \A i \in DOMAIN listed : a[listed[i]] = b[listed[i]]
  <2> HIDE DEF listed
  <2> QED BY <1>2
<1>4. L(a) = L(b)
  <2> HIDE DEF listed
  <2> QED BY <1>3
<1>5. Aggregate(a, n) = A(a)
  BY DEF Aggregate
<1>6. Aggregate(b, n) = A(b)
  BY <1>1, Zenon DEF Aggregate
<1> HIDE DEF listed, L
<1> QED BY <1>4, <1>5, <1>6

\* A namespace whose list of Start is not used yet has a pool event that is
\* pending, or that was handled and may be overwritten.
FollowInv ==
  /\ FleetFollowsPools
  /\ DOMAIN fleet = Namespaces
  /\ DOMAIN refresh \subseteq poolEvents \cup missed

\* The steps that change a fleet, or what it is compared with.
LEMMA FollowCases ==
  ASSUME [Next]_vars
  PROVE  \/ UNCHANGED <<seen, fleet, refresh, poolEvents, missed>>
         \/ \E n \in Namespaces : handlePoolEvent(n) \/ handlePoolEventFails(n) \/ refreshFleetFromAPI(n)
         \/ \E p \in Pools : Watch(p)
         \/ Restart
<1> USE DEF history, stateVars, eventVars, fleetVars, loopVars
<1>1. CASE \E w \in Workloads : Submit(w) \/ Delete(w)
  BY <1>1 DEF Submit, Delete, Outside
<1>2. CASE \E q \in Quotas : \E spec \in QuotaSpecs \cup {Unset} : EditQuota(q, spec)
  BY <1>2 DEF EditQuota
<1>3. CASE Loop
  <2>1. CASE Workers
    BY <2>1 DEF Workers, Work, Finalize, Outside
  <2>2. CASE Handlers
    BY <2>2 DEF Handlers, HandleWorkload, handleQuotaEvent
  <2>3. CASE Cycle
    BY <2>3 DEF Cycle, BeginCycle, NothingToVisit, SelectWorkload, Admit, AdmitFails,
                VisitNamespace, MarkVictim, CycleStep
  <2> QED BY <1>3, <2>1, <2>2, <2>3 DEF Loop
<1>4. CASE Fleet
  BY <1>4 DEF Fleet, FleetNext, EditPool, Resync, ReconcilerStep, PostDone, UpdateStatus,
              ReconcilePool, PostFails, LatePost, RemoteRestart
<1>5. CASE UNCHANGED vars
  BY <1>5 DEF vars
<1> QED BY <1>1, <1>2, <1>3, <1>4, <1>5 DEF Next

\* Every step keeps the fleets up to date.
LEMMA FollowInvNext == FleetInv /\ FollowInv /\ [Next]_vars => FollowInv'
<1> SUFFICES ASSUME FleetInv, FollowInv, [Next]_vars PROVE FollowInv'
  OBVIOUS
<1>1. CASE UNCHANGED <<seen, fleet, refresh, poolEvents, missed>>
  <2>1. \A n : Aggregate(seen', n) = Aggregate(seen, n)
    BY <1>1
  <2> QED BY <1>1, <2>1 DEF FollowInv, FleetFollowsPools
<1>2. ASSUME NEW n \in Namespaces, handlePoolEvent(n)
      PROVE  FollowInv'
  <2>1. /\ poolEvents' = poolEvents \ {n}
        /\ fleet' = [fleet EXCEPT ![n] = Aggregate(seen, n)]
        /\ missed' = IF n \in DOMAIN refresh THEN missed \cup {n} ELSE missed \ {n}
        /\ refresh' = refresh /\ seen' = seen
    BY <1>2 DEF handlePoolEvent, fleetVars
  <2>2. \A m : Aggregate(seen', m) = Aggregate(seen, m)
    BY <2>1
  <2> QED BY <2>1, <2>2 DEF FollowInv, FleetFollowsPools
<1>3. ASSUME NEW n \in Namespaces, handlePoolEventFails(n)
      PROVE  FollowInv'
  <2>1. /\ poolEvents' = poolEvents \ {n} /\ missed' = missed \cup {n}
        /\ fleet' = fleet /\ refresh' = refresh /\ seen' = seen
    BY <1>3 DEF handlePoolEventFails, fleetVars, stateVars
  <2>2. \A m : Aggregate(seen', m) = Aggregate(seen, m)
    BY <2>1
  <2> QED BY <2>1, <2>2 DEF FollowInv, FleetFollowsPools
<1>4. ASSUME NEW n \in Namespaces, refreshFleetFromAPI(n)
      PROVE  FollowInv'
  <2>1. /\ n \in DOMAIN refresh /\ fleet' = [fleet EXCEPT ![n] = refresh[n]]
        /\ DOMAIN refresh' = DOMAIN refresh \ {n}
        /\ poolEvents' = poolEvents /\ missed' = missed /\ seen' = seen
    BY <1>4 DEF refreshFleetFromAPI, fleetVars, eventVars, history
  <2>2. \A m : Aggregate(seen', m) = Aggregate(seen, m)
    BY <2>1
  <2> QED BY <2>1, <2>2 DEF FollowInv, FleetFollowsPools
<1>5. ASSUME NEW p \in Pools, Watch(p)
      PROVE  FollowInv'
  <2>1. /\ seen' = [seen EXCEPT ![p] = stored[p]] /\ DOMAIN seen = Pools
        /\ poolEvents' = poolEvents \cup {PoolSpec[p].ns}
        /\ missed' = missed /\ fleet' = fleet /\ refresh' = refresh
    BY <1>5 DEF Watch, WatchPool, stateVars, history, FleetInv, FleetTypeOK
  <2>2. ASSUME NEW m, m # PoolSpec[p].ns
        PROVE  Aggregate(seen', m) = Aggregate(seen, m)
    <3>1. \A q \in Pools : PoolSpec[q].ns = m => seen'[q] = seen[q]
      BY <2>1, <2>2
    <3> HIDE <2>1
    <3> QED BY <3>1, SameAggregate
  <2> QED BY <2>1, <2>2 DEF FollowInv, FleetFollowsPools
<1>6. CASE Restart
  <2> DEFINE N == {n \in Namespaces : Aggregate(stored, n) # NoFleet}
  <2>1. /\ poolEvents' = N /\ fleet' = [n \in Namespaces |-> NoFleet]
        /\ DOMAIN refresh' \subseteq N /\ seen' = stored
    BY <1>6 DEF Restart, FleetRestart, NoRefresh
  <2>2. \A m : Aggregate(seen', m) = Aggregate(stored, m)
    BY <2>1
  <2> QED BY <2>1, <2>2 DEF FollowInv, FleetFollowsPools
<1> QED BY <1>1, <1>2, <1>3, <1>4, <1>5, <1>6, FollowCases

\* The fleet of a namespace, which two goroutines write, is that of the pools in
\* the cache once no event is on its way: for any pools and namespaces, however
\* the events, the lists and the restarts of the operator come.
THEOREM FleetIsUpToDate == Spec => []FleetFollowsPools
<1>1. Init => FollowInv
  <2> SUFFICES ASSUME Init PROVE FollowInv
    OBVIOUS
  <2>1. DOMAIN refresh = {}
    BY DEF Init, NoRefresh
  <2>2. fleet = [n \in Namespaces |-> Aggregate(seen, n)]
    BY DEF Init
  <2> QED BY <2>1, <2>2 DEF FollowInv, FleetFollowsPools
<1>2. FollowInv => FleetFollowsPools
  BY DEF FollowInv
<1> QED BY <1>1, <1>2, FleetInvInit, FleetInvNext, FollowInvNext, PTL DEF Spec

-----------------------------------------------------------------------------
\* The quotas of a namespace.

QuotaEvent == [ns : Namespaces, gone : BOOLEAN, spec : QuotaSpecs \cup {Unset}]

\* The events about a tenant that the handler has not seen yet, and the one that
\* it sees last.
Pending(n, t) == {i \in DOMAIN quotaEvents : quotaEvents[i].ns = n /\ quotaEvents[i].spec.tenant = t}
IsLast(i, n, t) == i \in Pending(n, t) /\ \A j \in Pending(n, t) : j <= i

\* The state, or an event, says of a tenant what the objects say.
StateAgrees(n, t) ==
  /\ QuotaObjectOf(n, t) = {} => quotas[n][t] = NoQuota
  /\ \A q \in QuotaObjectOf(n, t) : quotas[n][t].maxGPUs = quotaObj[q].maxGPUs

EventAgrees(e, n, t) ==
  IF e.gone THEN QuotaObjectOf(n, t) = {}
  ELSE /\ QuotaObjectOf(n, t) # {}
       /\ \A q \in QuotaObjectOf(n, t) : quotaObj[q].maxGPUs = e.spec.maxGPUs

\* The last event about a tenant, or without one the state, agrees with the
\* objects; no event about a deletion is one about all tenants.
QuotaAgreement ==
  /\ \A q, r \in Quotas : q # r /\ QuotaNs[q] = QuotaNs[r] /\ quotaObj[q].tenant # Blank =>
                            quotaObj[q].tenant # quotaObj[r].tenant
  /\ \A i \in DOMAIN quotaEvents : quotaEvents[i].gone => quotaEvents[i].spec.tenant # Blank
  /\ \A n \in Namespaces, t \in Tenants :
       /\ Pending(n, t) = {} => StateAgrees(n, t)
       /\ \A i : IsLast(i, n, t) => EventAgrees(quotaEvents[i], n, t)

QuotaInv ==
  /\ quotaObj \in [Quotas -> QuotaSpecs \cup {Unset}]
  /\ quotaEvents \in Seq(QuotaEvent)
  /\ DOMAIN quotas = Namespaces
  /\ plain => QuotaAgreement

\* A sequence of all members of a finite set has them all.
LEMMA SequenceHasAll ==
  ASSUME NEW S, IsFiniteSet(S), NEW s \in Orders(S)
  PROVE  /\ Cardinality(S) \in Nat /\ s \in [1 .. Cardinality(S) -> S]
         /\ \A x \in S : \E i \in 1 .. Cardinality(S) : s[i] = x
<1> DEFINE D == 1 .. Cardinality(S)
<1>1. Cardinality(S) \in Nat
  BY FS_CardinalityType
<1>2. s \in Injection(D, S)
  BY DEF Orders
<1>3. Cardinality(D) = Cardinality(S)
  BY <1>1, FS_Interval
<1>4. s \in Surjection(D, S)
  BY <1>2, <1>3, FS_Injection
<1> QED BY <1>1, <1>4 DEF Surjection

\* A function on an initial segment is a sequence.
LEMMA FunctionIsSequence ==
  ASSUME NEW S, NEW k \in Nat, NEW f \in [1 .. k -> S]
  PROVE  f \in Seq(S)
OBVIOUS

\* The steps that change quotas.
LEMMA QuotaCases ==
  ASSUME [Next]_vars
  PROVE  \/ UNCHANGED <<quotaObj, quotaEvents, quotas, plain>>
         \/ \E q \in Quotas : \E spec \in QuotaSpecs \cup {Unset} : EditQuota(q, spec)
         \/ handleQuotaEvent
         \/ Restart
<1> USE DEF history, stateVars, apiVars, eventVars, loopVars
<1>1. CASE \E w \in Workloads : Submit(w) \/ Delete(w)
  BY <1>1 DEF Submit, Delete, Outside
<1>2. CASE \E n \in Namespaces : handlePoolEventFails(n)
  BY <1>2 DEF handlePoolEventFails
<1>3. CASE Loop
  <2>1. CASE Workers
    BY <2>1 DEF Workers, Work, Finalize, Outside
  <2>2. CASE Handlers
    BY <2>2 DEF Handlers, HandleWorkload, handlePoolEvent, refreshFleetFromAPI
  <2>3. CASE Cycle
    BY <2>3 DEF Cycle, BeginCycle, NothingToVisit, SelectWorkload, Admit, AdmitFails,
                VisitNamespace, MarkVictim, CycleStep
  <2>4. CASE \E p \in Pools : Watch(p)
    BY <2>4 DEF Watch
  <2> QED BY <1>3, <2>1, <2>2, <2>3, <2>4 DEF Loop
<1>4. CASE Fleet
  BY <1>4 DEF Fleet
<1>5. CASE UNCHANGED vars
  BY <1>5 DEF vars
<1> QED BY <1>1, <1>2, <1>3, <1>4, <1>5 DEF Next

\* A new event is the last about its tenant and says what the object now says.
LEMMA EditQuotaKeeps ==
  ASSUME QuotaInv, NEW q \in Quotas, NEW spec \in QuotaSpecs \cup {Unset}, EditQuota(q, spec)
  PROVE  QuotaInv'
<1> PICK old : old = quotaObj[q]
  OBVIOUS
<1> PICK len : len = Len(quotaEvents)
  OBVIOUS
<1> PICK e : e = [ns |-> QuotaNs[q], gone |-> spec = Unset, spec |-> IF spec = Unset THEN old ELSE spec]
  OBVIOUS
<1> DEFINE said == IF spec = Unset THEN old ELSE spec
<1>1. /\ old # spec /\ quotaObj' = [quotaObj EXCEPT ![q] = spec]
      /\ quotaEvents' = Append(quotaEvents, e)
      /\ quotas' = quotas
      /\ plain' = /\ plain
                  /\ IF spec = Unset THEN old.tenant # Blank
                     ELSE /\ old # Unset => old.tenant = spec.tenant
                          /\ \A r \in Quotas \ {q} :
                               QuotaNs[r] = QuotaNs[q] => quotaObj[r].tenant # spec.tenant
  BY DEF EditQuota, stateVars
<1>2. /\ quotaObj \in [Quotas -> QuotaSpecs \cup {Unset}] /\ old \in QuotaSpecs \cup {Unset}
      /\ quotaEvents \in Seq(QuotaEvent) /\ DOMAIN quotas = Namespaces
  BY DEF QuotaInv
<1>3. e \in QuotaEvent
  BY <1>2, LoopAssumption DEF QuotaEvent
<1>4. e.ns = QuotaNs[q] /\ (e.gone <=> spec = Unset) /\ e.spec = said
  OBVIOUS
<1>5. /\ quotaEvents' \in Seq(QuotaEvent) /\ len \in Nat
      /\ DOMAIN quotaEvents = 1 .. len /\ DOMAIN quotaEvents' = 1 .. len + 1
      /\ quotaEvents'[len + 1] = e
      /\ \A i \in 1 .. len : quotaEvents'[i] = quotaEvents[i]
  BY <1>1, <1>2, <1>3
<1>6. quotaObj' \in [Quotas -> QuotaSpecs \cup {Unset}] /\ quotaObj'[q] = spec
      /\ \A r \in Quotas : r # q => quotaObj'[r] = quotaObj[r]
  BY <1>1, <1>2
<1>7. ASSUME plain'
      PROVE  QuotaAgreement'
  <2>1. /\ QuotaAgreement
        /\ spec = Unset => old.tenant # Blank
        /\ spec # Unset => /\ old # Unset => old.tenant = spec.tenant
                           /\ \A r \in Quotas \ {q} :
                                QuotaNs[r] = QuotaNs[q] => quotaObj[r].tenant # spec.tenant
    BY <1>1, <1>7 DEF QuotaInv
  <2>2. Unset.tenant = Blank
    BY DEF Unset
  <2>3. \A r, x \in Quotas : r # x /\ QuotaNs[r] = QuotaNs[x] /\ quotaObj'[r].tenant # Blank =>
                               quotaObj'[r].tenant # quotaObj'[x].tenant
    BY <1>6, <2>1, <2>2 DEF QuotaAgreement
  <2>4. \A i \in DOMAIN quotaEvents' : quotaEvents'[i].gone => quotaEvents'[i].spec.tenant # Blank
    BY <1>4, <1>5, <2>1 DEF QuotaAgreement
  <2>5. ASSUME NEW n \in Namespaces, NEW t \in Tenants
        PROVE  /\ Pending(n, t)' = {} => StateAgrees(n, t)'
               /\ \A i : IsLast(i, n, t)' => EventAgrees(quotaEvents[i], n, t)'
    <3>1. t # Blank
      BY LoopAssumption
    <3>2. CASE n = QuotaNs[q] /\ t = said.tenant
      <4>1. len + 1 \in Pending(n, t)'
        BY <1>4, <1>5, <3>2 DEF Pending
      <4>2. \A i : IsLast(i, n, t)' => i = len + 1
        BY <1>5, <4>1 DEF IsLast, Pending
      <4>3. EventAgrees(e, n, t)'
        <5>1. CASE spec = Unset
          BY <1>4, <1>6, <2>1, <2>2, <3>1, <3>2, <5>1 DEF EventAgrees, QuotaObjectOf, QuotaAgreement
        <5>2. CASE spec # Unset
          BY <1>4, <1>6, <2>1, <3>2, <5>2 DEF EventAgrees, QuotaObjectOf
        <5> QED BY <5>1, <5>2
      <4> QED BY <1>5, <4>1, <4>2, <4>3
    <3>3. CASE ~(n = QuotaNs[q] /\ t = said.tenant)
      <4>1. Pending(n, t)' = Pending(n, t)
        BY <1>4, <1>5, <3>3 DEF Pending
      <4>2. QuotaObjectOf(n, t)' = QuotaObjectOf(n, t) /\ (n = QuotaNs[q] => q \notin QuotaObjectOf(n, t))
        BY <1>6, <2>1, <2>2, <3>1, <3>3 DEF QuotaObjectOf
      <4>3. \A r \in QuotaObjectOf(n, t) : quotaObj'[r] = quotaObj[r]
        BY <1>6, <4>2 DEF QuotaObjectOf
      <4>4. \A i \in Pending(n, t) : quotaEvents'[i] = quotaEvents[i]
        BY <1>5 DEF Pending
      <4>5. StateAgrees(n, t)' <=> StateAgrees(n, t)
        BY <1>1, <4>2, <4>3 DEF StateAgrees
      <4>6. \A i \in Pending(n, t) : EventAgrees(quotaEvents[i], n, t)' <=> EventAgrees(quotaEvents[i], n, t)
        BY <4>2, <4>3, <4>4 DEF EventAgrees
      <4> QED BY <2>1, <4>1, <4>5, <4>6 DEF QuotaAgreement, IsLast
    <3> QED BY <3>2, <3>3
  <2> QED BY <2>3, <2>4, <2>5 DEF QuotaAgreement
<1> QED BY <1>1, <1>2, <1>5, <1>6, <1>7 DEF QuotaInv

\* The state takes over what the first event says; all others stay in place.
LEMMA QuotaEventKeeps ==
  ASSUME QuotaInv, handleQuotaEvent
  PROVE  QuotaInv'
<1> PICK e : e = Head(quotaEvents)
  OBVIOUS
<1> PICK len : len = Len(quotaEvents)
  OBVIOUS
<1>1. /\ quotaEvents # << >> /\ quotaEvents' = Tail(quotaEvents)
      /\ quotas' = [quotas EXCEPT ![e.ns] = QuotasAfter(e)]
      /\ quotaObj' = quotaObj /\ plain' = plain
  BY DEF handleQuotaEvent, apiVars, history
<1>2. /\ quotaObj \in [Quotas -> QuotaSpecs \cup {Unset}]
      /\ quotaEvents \in Seq(QuotaEvent) /\ DOMAIN quotas = Namespaces
  BY DEF QuotaInv
<1>3. /\ len \in Nat \ {0} /\ DOMAIN quotaEvents = 1 .. len /\ DOMAIN quotaEvents' = 1 .. len - 1
      /\ quotaEvents' \in Seq(QuotaEvent) /\ quotaEvents[1] = e
      /\ \A i \in 1 .. len - 1 : quotaEvents'[i] = quotaEvents[i + 1]
  BY <1>1, <1>2
<1>4. ASSUME plain
      PROVE  QuotaAgreement'
  <2>1. QuotaAgreement
    BY <1>4 DEF QuotaInv
  <2>2. \A i \in DOMAIN quotaEvents' : quotaEvents'[i].gone => quotaEvents'[i].spec.tenant # Blank
    BY <1>3, <2>1 DEF QuotaAgreement
  <2>3. e.gone => e.spec.tenant # Blank
    BY <1>3, <2>1 DEF QuotaAgreement
  <2>4. ASSUME NEW n \in Namespaces, NEW t \in Tenants
        PROVE  /\ Pending(n, t)' = {} => StateAgrees(n, t)'
               /\ \A i : IsLast(i, n, t)' => EventAgrees(quotaEvents[i], n, t)'
    <3>1. /\ QuotaObjectOf(n, t)' = QuotaObjectOf(n, t)
          /\ Pending(n, t) = {} => StateAgrees(n, t)
          /\ \A i : IsLast(i, n, t) => EventAgrees(quotaEvents[i], n, t)
      BY <1>1, <2>1 DEF QuotaAgreement, QuotaObjectOf
    <3>2. /\ \A i \in Pending(n, t)' : i \in 1 .. len - 1 /\ i + 1 \in Pending(n, t)
          /\ \A j \in Pending(n, t) : j \in 1 .. len /\ (j # 1 => j - 1 \in Pending(n, t)')
      BY <1>3 DEF Pending
    <3>3. ASSUME NEW i, IsLast(i, n, t)'
          PROVE  EventAgrees(quotaEvents[i], n, t)'
      <4>1. i \in 1 .. len - 1 /\ IsLast(i + 1, n, t)
        BY <1>3, <3>2, <3>3 DEF IsLast
      <4>2. EventAgrees(quotaEvents[i + 1], n, t)
        BY <3>1, <4>1
      <4>3. quotaEvents'[i] = quotaEvents[i + 1]
        BY <1>3, <4>1
      <4> QED BY <1>1, <3>1, <4>2, <4>3 DEF EventAgrees
    <3>4. ASSUME Pending(n, t)' = {}, 1 \in Pending(n, t)
          PROVE  StateAgrees(n, t)'
      <4>1. IsLast(1, n, t)
        BY <3>2, <3>4 DEF IsLast
      <4>2. EventAgrees(e, n, t)
        BY <1>3, <3>1, <4>1
      <4>3. e.ns = n /\ e.spec.tenant = t
        BY <1>3, <3>4 DEF Pending
      <4>4. quotas'[n][t] = IF e.gone THEN NoQuota ELSE [maxGPUs |-> e.spec.maxGPUs, weight |-> 1]
        BY <1>1, <1>2, <4>3 DEF QuotasAfter
      <4> QED BY <1>1, <3>1, <4>2, <4>4 DEF EventAgrees, StateAgrees
    <3>5. ASSUME Pending(n, t)' = {}, 1 \notin Pending(n, t)
          PROVE  StateAgrees(n, t)'
      <4>1. Pending(n, t) = {}
        BY <3>2, <3>5
      <4>2. ~(e.ns = n /\ e.spec.tenant = t)
        BY <1>3, <3>5 DEF Pending
      <4>3. quotas'[n][t] = quotas[n][t]
        BY <1>1, <1>2, <2>3, <4>2 DEF QuotasAfter
      <4> QED BY <1>1, <3>1, <4>1, <4>3 DEF StateAgrees
    <3> QED BY <3>3, <3>4, <3>5
  <2> QED BY <1>1, <2>1, <2>2, <2>4 DEF QuotaAgreement
<1>5. DOMAIN quotas' = Namespaces
  BY <1>1, <1>2
<1> QED BY <1>1, <1>2, <1>3, <1>4, <1>5 DEF QuotaInv

\* A restarted operator knows no quota and is told of every one that there is,
\* in any order.
LEMMA QuotaRestartKeeps ==
  ASSUME QuotaInv, Restart
  PROVE  QuotaInv'
<1> DEFINE Q == {q \in Quotas : quotaObj[q] # Unset}
<1>1. /\ quotas' = [n \in Namespaces |-> [t \in Tenants |-> NoQuota]]
      /\ quotaObj' = quotaObj /\ plain' = plain
  BY DEF Restart, apiVars
<1>2. PICK s \in Orders(Q) :
        quotaEvents' = [i \in DOMAIN s |-> [ns |-> QuotaNs[s[i]], gone |-> FALSE,
                                           spec |-> quotaObj[s[i]]]]
  BY DEF Restart
<1> PICK len : len = Cardinality(Q)
  OBVIOUS
<1>3. /\ len \in Nat /\ s \in [1 .. len -> Q]
      /\ \A q \in Q : \E i \in 1 .. len : s[i] = q
  <2>1. IsFiniteSet(Q)
    BY FS_Subset, LoopAssumption
  <2> HIDE DEF Q
  <2> QED BY <2>1, SequenceHasAll
<1>4. /\ DOMAIN quotaEvents' = 1 .. len
      /\ \A i \in 1 .. len : /\ s[i] \in Quotas /\ s[i] \in Q
                             /\ quotaEvents'[i] = [ns |-> QuotaNs[s[i]], gone |-> FALSE,
                                                  spec |-> quotaObj[s[i]]]
  BY <1>2, <1>3
<1>5. quotaObj \in [Quotas -> QuotaSpecs \cup {Unset}]
  BY DEF QuotaInv
<1>6. quotaEvents' \in Seq(QuotaEvent)
  <2>1. \A i \in 1 .. len : quotaEvents'[i] \in QuotaEvent
    <3> SUFFICES ASSUME NEW i \in 1 .. len PROVE quotaEvents'[i] \in QuotaEvent
      OBVIOUS
    <3>1. QuotaNs[s[i]] \in Namespaces /\ quotaObj[s[i]] \in QuotaSpecs \cup {Unset}
      BY <1>4, <1>5, LoopAssumption
    <3>2. quotaEvents'[i] = [ns |-> QuotaNs[s[i]], gone |-> FALSE, spec |-> quotaObj[s[i]]]
      BY <1>4
    <3> QED BY <3>1, <3>2 DEF QuotaEvent
  <2>2. quotaEvents' \in [1 .. len -> QuotaEvent]
    BY <1>2, <1>4, <2>1
  <2> QED BY <1>3, <2>2, FunctionIsSequence
<1>7. ASSUME plain
      PROVE  QuotaAgreement'
  <2>1. QuotaAgreement
    BY <1>7 DEF QuotaInv
  <2>2. \A i \in DOMAIN quotaEvents' : ~quotaEvents'[i].gone
    BY <1>4
  <2>3. ASSUME NEW n \in Namespaces, NEW t \in Tenants
        PROVE  /\ Pending(n, t)' = {} => StateAgrees(n, t)'
               /\ \A i : IsLast(i, n, t)' => EventAgrees(quotaEvents[i], n, t)'
    <3>1. QuotaObjectOf(n, t)' = QuotaObjectOf(n, t)
      BY <1>1 DEF QuotaObjectOf
    <3>2. \A q \in QuotaObjectOf(n, t) : q \in Q
      BY LoopAssumption DEF QuotaObjectOf, Unset
    <3>3. ASSUME NEW q \in QuotaObjectOf(n, t)
          PROVE  \E i \in Pending(n, t)' : s[i] = q
      <4>1. PICK i \in 1 .. len : s[i] = q
        BY <1>3, <3>2
      <4>2. quotaEvents'[i].ns = n /\ quotaEvents'[i].spec.tenant = t
        BY <1>4, <4>1 DEF QuotaObjectOf
      <4>3. i \in Pending(n, t)'
        BY <1>4, <4>2 DEF Pending
      <4> QED BY <4>1, <4>3
    <3>4. \A i \in Pending(n, t)' : s[i] \in QuotaObjectOf(n, t) /\ i \in 1 .. len
      BY <1>4 DEF Pending, QuotaObjectOf
    <3>5. \A q, r \in QuotaObjectOf(n, t) : q = r
      BY <2>1, LoopAssumption DEF QuotaAgreement, QuotaObjectOf
    <3>6. Pending(n, t)' = {} => StateAgrees(n, t)'
      BY <1>1, <3>1, <3>3 DEF StateAgrees
    <3>7. ASSUME NEW i, i \in Pending(n, t)'
          PROVE  EventAgrees(quotaEvents[i], n, t)'
      <4>1. s[i] \in QuotaObjectOf(n, t) /\ i \in 1 .. len
        BY <3>4, <3>7
      <4>2. ~quotaEvents'[i].gone /\ quotaEvents'[i].spec = quotaObj[s[i]]
        BY <1>4, <4>1
      <4> QED BY <1>1, <3>1, <3>5, <4>1, <4>2 DEF EventAgrees
    <3> QED BY <3>6, <3>7 DEF IsLast
  <2> QED BY <1>1, <2>1, <2>2, <2>3 DEF QuotaAgreement
<1> QED BY <1>1, <1>5, <1>6, <1>7 DEF QuotaInv

\* Every step keeps the agreement.
LEMMA QuotaInvNext == QuotaInv /\ [Next]_vars => QuotaInv'
<1> SUFFICES ASSUME QuotaInv, [Next]_vars PROVE QuotaInv'
  OBVIOUS
<1>1. CASE UNCHANGED <<quotaObj, quotaEvents, quotas, plain>>
  BY <1>1 DEF QuotaInv, QuotaAgreement, Pending, IsLast, StateAgrees, EventAgrees, QuotaObjectOf
<1> QED BY <1>1, QuotaCases, EditQuotaKeeps, QuotaEventKeeps, QuotaRestartKeeps

\* The quotas that the scheduler enforces are those of the TenantQuota objects
\* when no event is on its way: for any objects, tenants and namespaces, whatever
\* the order in which a restarted operator is told of them.
THEOREM QuotasAreUpToDate == Spec => []QuotasFollowObjects
<1>1. Init => QuotaInv
  <2> SUFFICES ASSUME Init PROVE QuotaInv
    OBVIOUS
  <2>1. /\ quotaObj = [q \in Quotas |-> Unset] /\ quotaEvents = << >>
        /\ quotas = [n \in Namespaces |-> [t \in Tenants |-> NoQuota]]
    BY DEF Init
  <2>2. Unset.tenant = Blank
    BY DEF Unset
  <2>3. \A q \in Quotas : quotaObj[q].tenant = Blank
    BY <2>1, <2>2
  <2>4. \A n \in Namespaces, t \in Tenants : QuotaObjectOf(n, t) = {} /\ Pending(n, t) = {}
    BY <2>1, <2>3, LoopAssumption DEF QuotaObjectOf, Pending
  <2>5. QuotaAgreement
    BY <2>1, <2>3, <2>4 DEF QuotaAgreement, StateAgrees, IsLast
  <2> QED BY <2>1, <2>5 DEF QuotaInv
<1>2. QuotaInv => QuotasFollowObjects
  <2> SUFFICES ASSUME QuotaInv, quotaEvents = << >>, plain PROVE QuotasFollowObjects
    BY DEF QuotasFollowObjects
  <2>1. \A n \in Namespaces, t \in Tenants : StateAgrees(n, t)
    BY DEF QuotaInv, QuotaAgreement, Pending
  <2> QED BY <2>1 DEF QuotasFollowObjects, StateAgrees
<1> QED BY <1>1, <1>2, QuotaInvNext, PTL DEF Spec
==============================================================================
