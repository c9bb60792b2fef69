------------------------------ MODULE FleetSync ------------------------------
(***************************************************************************)
(* How the GPUNodePool objects reach the two simulators: the GPUNodePool   *)
(* reconciler and MultiFleetRegistrar of internal/controller, with the     *)
(* simulator inside the operator (local) and the one the workers use       *)
(* (remote), for an operator that runs with a worker pool: nothing is      *)
(* allocated in the local simulator.                                       *)
(*                                                                         *)
(* A pool object has its number of devices (size, 0 when there is no such  *)
(* object), the version of its spec (ver) and status.availableDevices.     *)
(* The cache jumps to the stored object: to deliver an older version late  *)
(* is the same as to deliver it before the newer one is stored.            *)
(***************************************************************************)
EXTENDS Integers

CONSTANTS Pools,
          MaxSize   \* bound: devices of a pool

ASSUME FleetAssumption == MaxSize \in Nat \ {0}

VARIABLES stored,  \* API server: the pool objects
          seen,    \* informer cache: the same
          due,     \* keys in the reconciler's work queue
          timer,   \* keys that RequeueAfter will put there
          rec,     \* Reconcile in progress
          local,   \* local simulator: devices of each pool, 0 if not registered
          remote,  \* remote simulator: the same
          late,    \* requests the client gave up and the server may yet execute
          strict,  \* StrictRemote
          limit,   \* bounds: how often each thing that need not happen may,
                   \* which pools are edited, whether two minutes pass at all
          spent    \* how often it has

fleetVars == <<stored, seen, due, timer, rec, local, remote, late, strict>>

Nothing == [size |-> 0, ver |-> 0, status |-> 0]
NoReconcile == [pc |-> "idle"]

Spend(f) == spent[f] < limit[f] /\ spent' = [spent EXCEPT ![f] = @ + 1]

-----------------------------------------------------------------------------
\* Users create, resize and delete pools.  The status goes with the object.
EditPool(p, n) ==
  /\ p \in limit.editable /\ Spend("edits")
  /\ stored[p].size # n
  /\ stored' = [stored EXCEPT ![p] =
       [size |-> n, ver |-> @.ver + 1,
        status |-> IF @.size > 0 /\ n > 0 THEN @.status ELSE 0]]
  /\ UNCHANGED <<seen, due, timer, rec, local, remote, late, strict>>

\* The cache receives the object.  Depending on the work queue the new entry
\* takes the place of one that waits for its time.
WatchPool(p) ==
  /\ seen[p] # stored[p]
  /\ seen' = [seen EXCEPT ![p] = stored[p]]
  /\ due' = due \cup {p}
  /\ timer' \in {timer, timer \ {p}}
  /\ UNCHANGED <<stored, rec, local, remote, late, strict, spent>>

\* Two minutes have passed.
Resync(p) ==
  /\ p \in timer /\ limit.timers
  /\ timer' = timer \ {p} /\ due' = due \cup {p}
  /\ UNCHANGED <<stored, seen, rec, local, remote, late, strict, spent>>

-----------------------------------------------------------------------------
\* Reconcile reads the cache and registers the pool in the local simulator, or
\* deletes it there when the object is gone.
ReconcilePool(p) ==
  /\ rec.pc = "idle" /\ p \in due
  /\ due' = due \ {p}
  /\ local' = [local EXCEPT ![p] = seen[p].size]
  /\ rec' = [pc |-> "post", p |-> p, copy |-> seen[p]]
  /\ UNCHANGED <<stored, seen, timer, remote, late, strict, spent>>

\* A deletion ends the reconcile; a registration goes on with the status.
AfterPost == rec' = IF rec.copy.size = 0 THEN NoReconcile ELSE [rec EXCEPT !.pc = "status"]

\* The remote simulator executes /v1/fleet/register or /v1/fleet/deregister.
PostDone ==
  /\ rec.pc = "post"
  /\ remote' = [remote EXCEPT ![rec.p] = rec.copy.size]
  /\ AfterPost
  /\ UNCHANGED <<stored, seen, due, timer, local, late, strict, spent>>

\* The client gets no answer: the request is lost, or its answer is, or it is
\* executed later.  Only a strict registration is an error.
PostFails ==
  /\ rec.pc = "post" /\ Spend("faults")
  /\ \/ UNCHANGED <<remote, late>>
     \/ remote' = [remote EXCEPT ![rec.p] = rec.copy.size] /\ UNCHANGED late
     \/ late' = late \cup {[p |-> rec.p, size |-> rec.copy.size]} /\ UNCHANGED remote
  /\ IF strict /\ rec.copy.size > 0
     THEN rec' = NoReconcile /\ due' = due \cup {rec.p}
     ELSE AfterPost /\ UNCHANGED due
  /\ UNCHANGED <<stored, seen, timer, local, strict>>

LatePost ==
  /\ \E r \in late : late' = late \ {r} /\ remote' = [remote EXCEPT ![r.p] = r.size]
  /\ UNCHANGED <<stored, seen, due, timer, rec, local, strict, spent>>

\* Mutant of UpdateStatus: the status is patched whatever the version.
UpdateStatusForced ==
  /\ rec.pc = "status"
  /\ stored' = [stored EXCEPT ![rec.p].status = IF stored[rec.p].size = 0 THEN 0 ELSE local[rec.p]]
  /\ timer' = timer \cup {rec.p}
  /\ rec' = NoReconcile
  /\ UNCHANGED <<seen, due, local, remote, late, strict, spent>>

\* Mutant of UpdateStatus: no RequeueAfter.
UpdateStatusOnce ==
  /\ rec.pc = "status"
  /\ LET p == rec.p IN
       IF rec.copy.status = local[p] \/ rec.copy = stored[p]
       THEN /\ stored' = IF rec.copy.status = local[p] THEN stored
                         ELSE [stored EXCEPT ![p].status = local[p]]
            /\ UNCHANGED <<timer, due>>
       ELSE /\ due' = due \cup {p}
            /\ UNCHANGED <<stored, timer>>
  /\ rec' = NoReconcile
  /\ UNCHANGED <<seen, local, remote, late, strict, spent>>

\* The status follows FleetUsageForPool, the local usage.  An update of an old
\* copy is a conflict, which is tried again; otherwise RequeueAfter.
UpdateStatus ==
  /\ rec.pc = "status"
  /\ LET p == rec.p IN
       IF rec.copy.status = local[p] \/ rec.copy = stored[p]
       THEN /\ stored' = IF rec.copy.status = local[p] THEN stored
                         ELSE [stored EXCEPT ![p].status = local[p]]
            /\ timer' = timer \cup {p}
            /\ UNCHANGED due
       ELSE /\ due' = due \cup {p}
            /\ UNCHANGED <<stored, timer>>
  /\ rec' = NoReconcile
  /\ UNCHANGED <<seen, local, remote, late, strict, spent>>

-----------------------------------------------------------------------------
\* The remote simulator starts again, with no pools.
RemoteRestart ==
  /\ Spend("remoteRestarts")
  /\ remote' = [p \in Pools |-> 0]
  /\ UNCHANGED <<stored, seen, due, timer, rec, local, late, strict>>

\* What a restart of the operator does to the reconciler: the local simulator
\* is new, the objects that exist are listed and reconciled.  An object that was
\* deleted meanwhile is not among them.
FleetRestart ==
  /\ seen' = stored
  /\ due' = {p \in Pools : stored[p].size > 0} /\ timer' = {}
  /\ rec' = NoReconcile
  /\ local' = [p \in Pools |-> 0]
  /\ UNCHANGED <<stored, remote, late, strict>>

ReconcilerStep == PostDone \/ UpdateStatus \/ \E p \in Pools : ReconcilePool(p)

\* The steps of the reconciler, its queue and its cache, and what may happen to
\* it; the scheduler loop sees WatchPool as well.
FleetNext ==
  \/ \E p \in Pools : \E n \in 0 .. MaxSize : EditPool(p, n)
  \/ \E p \in Pools : Resync(p)
  \/ ReconcilerStep
  \/ PostFails \/ LatePost \/ RemoteRestart

-----------------------------------------------------------------------------
Object == [size : 0 .. MaxSize, ver : Nat, status : 0 .. MaxSize]

FleetTypeOK ==
  /\ stored \in [Pools -> Object] /\ seen \in [Pools -> Object]
  /\ due \subseteq Pools /\ timer \subseteq Pools
  /\ \/ rec = NoReconcile
     \/ rec \in [pc : {"post", "status"}, p : Pools, copy : Object]
  /\ local \in [Pools -> 0 .. MaxSize] /\ remote \in [Pools -> 0 .. MaxSize]
  /\ late \subseteq [p : Pools, size : 0 .. MaxSize]
  /\ strict \in BOOLEAN

\* The available devices in the status, which the scheduler admits on, are those
\* of a pool that the local simulator has or is about to get: no status is
\* written for an object that came after the one that was registered, although
\* the reconciler works on copies that may be old and may start again.
StatusIsBacked ==
  \A p \in Pools : stored[p].status > 0 => local[p] > 0 \/ p \in due

\* In the end both simulators and the status agree with every pool that there
\* is: the requeue after two minutes repairs the remote simulator after lost,
\* late and repeated requests and after it, or the operator, starts again.  A
\* deleted pool leaves the local simulator.  Nothing repeats
\* /v1/fleet/deregister: when that request fails, the operator is not there to
\* send it or an older registration arrives late, the remote simulator keeps it.
MirrorsConverge ==
  \A p \in Pools :
    <>[](/\ stored[p].size > 0 \/ (spent["faults"] = 0 /\ spent["restarts"] = 0) =>
              remote[p] = stored[p].size
         /\ local[p] = stored[p].size /\ stored[p].status = stored[p].size)
==============================================================================
