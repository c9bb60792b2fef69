--------------------------- MODULE OperatorProofs ---------------------------
(***************************************************************************)
(* The operator's promises for any workloads, any pool, any number of      *)
(* restarts and any backlog of versions and events.                        *)
(*                                                                         *)
(* The argument rests on one order: every version the API server stores is *)
(* a successor of the one before it.  The cache, the events the scheduler  *)
(* has not handled and the reconciler's copy are earlier points of the     *)
(* same history, so what they show bounds what is stored.                  *)
(***************************************************************************)
EXTENDS Operator, FiniteSetTheorems, TLAPS

\* Zenon is tried first, and SMT on what Zenon does not prove.
USE ZenonT(3), SMTT(20)

\* The order in which phases are stored; a victim that has Succeeded may be marked.
Rank(phase) ==
  CASE phase = "None" -> 0 [] phase = "New" -> 1 [] phase = "Queued" -> 2
    [] phase = "Scheduled" -> 3 [] phase = "Running" -> 4
    [] phase = "Succeeded" -> 5 [] phase = "Preempted" -> 6 [] phase = "Gone" -> 7

\* The phase of n is not behind that of o, and n keeps what is set for good in o.
Older(o, n) ==
  /\ Rank(o.phase) <= Rank(n.phase)
  /\ o.deleting => n.deleting
  /\ o.fin => n.fin
  /\ o.counted => n.counted

Cycles == [pc : {"idle", "mark", "free", "admit"}, w : Workloads \cup {None},
           victims : SUBSET Workloads, freeing : Workloads \cup {None}]

Reconciles == [pc : {"idle", "delete", "terminal", "finalizer", "queue", "allocate",
                     "start", "run", "poll", "finish", "count", "release", "unfinalize"},
               w : Workloads \cup {None}, copy : Object, target : RunStatus]

Types ==
  /\ obj \in [Workloads -> Object] /\ cache \in [Workloads -> Object]
  /\ watch \in Seq([w : Workloads, new : Object])
  /\ notify \in Seq([w : Workloads, old : Phases \cup Absent, new : Object])
  /\ queued \subseteq Workloads /\ scheduled \subseteq Workloads /\ running \subseteq Workloads
  /\ moving \in Workloads \cup {None}
  /\ cycle \in Cycles
  /\ rec \in Reconciles
  /\ dirty \subseteq Workloads
  /\ alloc \subseteq Workloads
  /\ run \in [Workloads -> RunStatus]
  /\ restarts \in Nat

\* Entries of a queue of versions that are of one workload are in order.
InOrder(q) ==
  \A i, j \in 1..Len(q) : i < j /\ q[i].w = q[j].w => Older(q[i].new, q[j].new)

\* One history: events not handled, then the cache, then versions not received,
\* then what is stored.
History ==
  /\ \A w \in Workloads : Older(cache[w], obj[w])
  /\ \A i \in 1..Len(watch) : /\ Older(cache[watch[i].w], watch[i].new)
                              /\ Older(watch[i].new, obj[watch[i].w])
  /\ \A i \in 1..Len(notify) : Older(notify[i].new, cache[notify[i].w])
  /\ InOrder(watch) /\ InOrder(notify)
  /\ \A w \in Workloads : obj[w].phase = "None" => obj[w] = NoObject

\* The handler has seen w at this rank: so has the cache, and so will the
\* handler from every later event.
Seen(w, rank) ==
  /\ rank <= Rank(cache[w].phase)
  /\ \A i \in 1..Len(notify) : notify[i].w = w => rank <= Rank(notify[i].new.phase)

Buckets ==
  /\ BucketsDisjoint
  /\ \A w \in scheduled : Seen(w, 3)
  /\ \A w \in running : Seen(w, 4)
  /\ moving # None => Seen(moving, 4)

\* A victim was seen Running, and is stored as Preempted or gone when its
\* devices are taken.
Victims ==
  /\ \A v \in cycle.victims : 4 <= Rank(cache[v].phase)
  /\ cycle.pc = "free" => cycle.freeing \in Workloads /\ 6 <= Rank(obj[cycle.freeing].phase)
  /\ cycle.pc # "idle" => cycle.w \in Workloads

\* What the reconciler does fits the copy it read.
Copies ==
  rec.pc # "idle" =>
    /\ rec.w \in Workloads
    /\ Older(rec.copy, cache[rec.w])
    /\ rec.pc = "finalizer" => rec.copy.phase \in Phases
    /\ rec.pc = "queue" => rec.copy.phase = "New"
    /\ rec.pc \in {"allocate", "start", "run"} =>
         rec.copy.phase = "Scheduled" /\ rec.copy.fin /\ ~rec.copy.deleting
    /\ rec.pc \in {"poll", "finish", "count"} => rec.copy.phase = "Running"
    /\ rec.pc \in {"finish", "count"} => rec.target \in Terminal
    /\ rec.pc = "terminal" => rec.copy.phase \in Terminal
    /\ rec.pc \in {"delete", "unfinalize"} => rec.copy.deleting /\ rec.copy.phase \in Phases

\* Only objects with a finalizer hold devices; one that is gone with it was read
\* as being deleted, from which no allocation follows.
Devices ==
  /\ \A w \in alloc : obj[w].fin
  /\ \A w \in Workloads :
       obj[w].phase = "Gone" /\ obj[w].fin =>
         /\ cache[w].deleting /\ w \notin alloc
         /\ rec.pc # "idle" /\ rec.w = w => rec.copy.deleting
  /\ rec.pc = "run" => /\ run[rec.w] # "None"
                       /\ Current(rec.w, rec.copy) => rec.w \in alloc
  /\ rec.pc \in {"count", "release"} => 5 <= Rank(obj[rec.w].phase)
  /\ rec.pc = "unfinalize" => rec.w \notin alloc
  /\ RunningHoldsDevices

OperatorInv == Types /\ History /\ Buckets /\ Victims /\ Copies /\ Devices

-----------------------------------------------------------------------------
(* The order. *)

\* The phases are ranked one by one.
LEMMA RankOfPhase ==
  /\ Rank("None") = 0 /\ Rank("New") = 1 /\ Rank("Queued") = 2 /\ Rank("Scheduled") = 3
  /\ Rank("Running") = 4 /\ Rank("Succeeded") = 5 /\ Rank("Preempted") = 6 /\ Rank("Gone") = 7
BY DEF Rank

\* Ranks are numbers, and tell the phases apart.
LEMMA RankOfObject ==
  /\ \A p \in Phases \cup Absent : Rank(p) \in 0..7
  /\ \A p, q \in Phases \cup Absent : Rank(p) = Rank(q) => p = q
<1> USE RankOfPhase DEF Phases, Absent, Terminal
<1>1. \A p \in Phases \cup Absent : Rank(p) \in 0..7
  OBVIOUS
<1>2. ASSUME NEW p \in Phases \cup Absent, NEW q \in Phases \cup Absent, Rank(p) = Rank(q)
      PROVE  p = q
  BY <1>2
<1> QED BY <1>1, <1>2

\* Older is a partial order.
LEMMA OlderOrder ==
  /\ \A o \in Object : Older(o, o)
  /\ \A o, p, q \in Object : Older(o, p) /\ Older(p, q) => Older(o, q)
  /\ \A o, p \in Object : Older(o, p) /\ Older(p, o) => o = p
<1>1. \A o \in Object : Rank(o.phase) \in 0..7
  BY RankOfObject DEF Object
<1>2. \A o \in Object : Older(o, o)
  BY <1>1 DEF Older
<1>3. \A o, p, q \in Object : Older(o, p) /\ Older(p, q) => Older(o, q)
  BY <1>1 DEF Older
<1>4. ASSUME NEW o \in Object, NEW p \in Object, Older(o, p), Older(p, o)
      PROVE  o = p
  <2>1. Rank(o.phase) = Rank(p.phase)
    BY <1>1, <1>4 DEF Older
  <2>2. o.phase = p.phase
    BY <2>1, RankOfObject DEF Object
  <2>3. (o.deleting <=> p.deleting) /\ (o.fin <=> p.fin) /\ (o.counted <=> p.counted)
    BY <1>4 DEF Older
  <2>4. o.deleting = p.deleting /\ o.fin = p.fin /\ o.counted = p.counted
    BY <2>3, Zenon DEF Object
  <2> QED BY <2>2, <2>4 DEF Object
<1> QED BY <1>2, <1>3, <1>4

\* What changing one field makes of an object.
LEMMA Successors ==
  ASSUME NEW o \in Object
  PROVE  /\ \A p \in Phases \cup Absent :
              /\ [o EXCEPT !.phase = p] \in Object
              /\ [o EXCEPT !.phase = p].phase = p
              /\ [o EXCEPT !.phase = p].fin = o.fin
              /\ [o EXCEPT !.phase = p].deleting = o.deleting
              /\ Rank(o.phase) <= Rank(p) => Older(o, [o EXCEPT !.phase = p])
         /\ [o EXCEPT !.fin = TRUE] \in Object /\ Older(o, [o EXCEPT !.fin = TRUE])
         /\ [o EXCEPT !.fin = TRUE].phase = o.phase
         /\ [o EXCEPT !.fin = TRUE].deleting = o.deleting
         /\ [o EXCEPT !.deleting = TRUE] \in Object /\ Older(o, [o EXCEPT !.deleting = TRUE])
         /\ [o EXCEPT !.deleting = TRUE].phase = o.phase
         /\ [o EXCEPT !.deleting = TRUE].deleting = TRUE
         /\ [o EXCEPT !.counted = TRUE] \in Object /\ Older(o, [o EXCEPT !.counted = TRUE])
         /\ [o EXCEPT !.counted = TRUE].phase = o.phase
         /\ [o EXCEPT !.counted = TRUE].deleting = o.deleting
<1>1. Rank(o.phase) \in 0..7
  BY RankOfObject DEF Object
<1>2. \A p \in Phases \cup Absent :
              /\ [o EXCEPT !.phase = p] \in Object
              /\ [o EXCEPT !.phase = p].phase = p
              /\ [o EXCEPT !.phase = p].fin = o.fin
              /\ [o EXCEPT !.phase = p].deleting = o.deleting
              /\ Rank(o.phase) <= Rank(p) => Older(o, [o EXCEPT !.phase = p])
  BY DEF Object, Older
<1>3. /\ [o EXCEPT !.fin = TRUE] \in Object /\ Older(o, [o EXCEPT !.fin = TRUE])
      /\ [o EXCEPT !.fin = TRUE].phase = o.phase
      /\ [o EXCEPT !.fin = TRUE].deleting = o.deleting
  <2> DEFINE n == [o EXCEPT !.fin = TRUE]
  <2>1. n \in Object
    BY DEF Object
  <2>2. n.fin = TRUE /\ n.phase = o.phase /\ n.deleting = o.deleting /\ n.counted = o.counted
    BY DEF Object
  <2> HIDE DEF n
  <2>3. Older(o, n)
    BY <1>1, <2>2 DEF Older
  <2> QED BY <2>1, <2>2, <2>3 DEF n
<1>4. /\ [o EXCEPT !.deleting = TRUE] \in Object /\ Older(o, [o EXCEPT !.deleting = TRUE])
      /\ [o EXCEPT !.deleting = TRUE].phase = o.phase
      /\ [o EXCEPT !.deleting = TRUE].deleting = TRUE
  <2> DEFINE n == [o EXCEPT !.deleting = TRUE]
  <2>1. n \in Object
    BY DEF Object
  <2>2. n.deleting = TRUE /\ n.phase = o.phase /\ n.fin = o.fin /\ n.counted = o.counted
    BY DEF Object
  <2> HIDE DEF n
  <2>3. Older(o, n)
    BY <1>1, <2>2 DEF Older
  <2> QED BY <2>1, <2>2, <2>3 DEF n
<1>5. /\ [o EXCEPT !.counted = TRUE] \in Object /\ Older(o, [o EXCEPT !.counted = TRUE])
      /\ [o EXCEPT !.counted = TRUE].phase = o.phase
      /\ [o EXCEPT !.counted = TRUE].deleting = o.deleting
  <2> DEFINE n == [o EXCEPT !.counted = TRUE]
  <2>1. n \in Object
    BY DEF Object
  <2>2. n.counted = TRUE /\ n.phase = o.phase /\ n.fin = o.fin /\ n.deleting = o.deleting
    BY DEF Object
  <2> HIDE DEF n
  <2>3. Older(o, n)
    BY <1>1, <2>2 DEF Older
  <2> QED BY <2>1, <2>2, <2>3 DEF n
<1> QED BY <1>2, <1>3, <1>4, <1>5

\* What the queues of versions and events are after one more.
LEMMA AfterAppend ==
  ASSUME NEW S, NEW q \in Seq(S), NEW x \in S
  PROVE  /\ Append(q, x) \in Seq(S)
         /\ Len(Append(q, x)) = Len(q) + 1 /\ Len(q) \in Nat
         /\ \A n \in 1..Len(q) : Append(q, x)[n] = q[n]
         /\ Append(q, x)[Len(q) + 1] = x
OBVIOUS

\* What they are after the first is taken.
LEMMA AfterTail ==
  ASSUME NEW S, NEW q \in Seq(S), q # <<>>
  PROVE  /\ Tail(q) \in Seq(S) /\ Head(q) = q[1] /\ Head(q) \in S
         /\ Len(Tail(q)) = Len(q) - 1 /\ Len(q) \in Nat /\ 1 <= Len(q)
         /\ \A n \in 1..Len(Tail(q)) : Tail(q)[n] = q[n + 1]
OBVIOUS

\* The queues hold versions of workloads.
LEMMA EntryTypes ==
  ASSUME Types
  PROVE  /\ \A n \in 1..Len(watch) : watch[n].w \in Workloads /\ watch[n].new \in Object
         /\ \A n \in 1..Len(notify) : notify[n].w \in Workloads /\ notify[n].new \in Object
<1> DEFINE V == [w : Workloads, new : Object]
           N == [w : Workloads, old : Phases \cup Absent, new : Object]
<1>1. (\A v \in V : v.w \in Workloads /\ v.new \in Object)
      /\ (\A v \in N : v.w \in Workloads /\ v.new \in Object)
  OBVIOUS
<1>2. watch \in Seq(V) /\ notify \in Seq(N)
  BY DEF Types
<1> HIDE DEF V, N
<1>3. \A n \in 1..Len(watch) : watch[n] \in V
  BY <1>2
<1>4. \A n \in 1..Len(notify) : notify[n] \in N
  BY <1>2
<1> QED BY <1>1, <1>3, <1>4

-----------------------------------------------------------------------------
(* Stores. *)

\* A successor is stored: it is the last of the history.
LEMMA StoreKeepsHistory ==
  ASSUME Types, History, NEW w \in Workloads, NEW o \in Object, Older(obj[w], o), Store(w, o),
         o.phase # "None", UNCHANGED <<cache, notify>>
  PROVE  /\ obj' \in [Workloads -> Object] /\ watch' \in Seq([w : Workloads, new : Object])
         /\ obj'[w] = o
         /\ \A x \in Workloads : x # w => obj'[x] = obj[x]
         /\ \A x \in Workloads : Older(obj[x], obj'[x])
         /\ History'
<1> DEFINE V == [w : Workloads, new : Object]
           e == [w |-> w, new |-> o]
<1>1. obj' = [obj EXCEPT ![w] = o] /\ watch' = Append(watch, e)
  BY DEF Store
<1>2. /\ obj \in [Workloads -> Object] /\ cache \in [Workloads -> Object] /\ watch \in Seq(V)
      /\ notify \in Seq([w : Workloads, old : Phases \cup Absent, new : Object])
  BY DEF Types
<1>3. /\ obj' \in [Workloads -> Object] /\ obj'[w] = o
      /\ \A x \in Workloads : x # w => obj'[x] = obj[x]
  BY <1>1, <1>2
<1>4. e \in V /\ e.w = w /\ e.new = o
  OBVIOUS
<1> HIDE DEF e
<1>5. /\ watch' \in Seq(V) /\ Len(watch') = Len(watch) + 1 /\ Len(watch) \in Nat
      /\ \A n \in 1..Len(watch) : watch'[n] = watch[n]
      /\ watch'[Len(watch) + 1] = e
  <2> HIDE DEF V
  <2> QED BY <1>1, <1>2, <1>4, AfterAppend
<1>6. \A x \in Workloads : Older(obj[x], obj'[x])
  BY <1>2, <1>3, OlderOrder
<1>7. \A x \in Workloads : Older(cache'[x], obj'[x])
  BY <1>2, <1>3, <1>6, OlderOrder DEF History
<1>8. \A n \in 1..Len(watch) : watch[n].w \in Workloads /\ watch[n].new \in Object
  BY EntryTypes
<1>9. \A n \in 1..Len(watch) : Older(watch[n].new, obj[watch[n].w])
  BY DEF History
<1>10. \A n \in 1..Len(watch') : /\ Older(cache'[watch'[n].w], watch'[n].new)
                                 /\ Older(watch'[n].new, obj'[watch'[n].w])
  <2> SUFFICES ASSUME NEW n \in 1..Len(watch')
               PROVE  /\ Older(cache'[watch'[n].w], watch'[n].new)
                      /\ Older(watch'[n].new, obj'[watch'[n].w])
    OBVIOUS
  <2>1. CASE n \in 1..Len(watch)
    <3>1. Older(cache[watch[n].w], watch[n].new)
      BY <2>1 DEF History
    <3>2. Older(watch[n].new, obj'[watch[n].w])
      BY <1>2, <1>3, <1>6, <1>8, <1>9, <2>1, OlderOrder
    <3> QED BY <1>5, <2>1, <3>1, <3>2
  <2>2. CASE n = Len(watch) + 1
    BY <1>3, <1>4, <1>5, <1>7, <2>2, OlderOrder
  <2> QED BY <1>5, <2>1, <2>2
<1>11. InOrder(watch')
  <2> SUFFICES ASSUME NEW m \in 1..Len(watch'), NEW n \in 1..Len(watch'), m < n,
                      watch'[m].w = watch'[n].w
               PROVE  Older(watch'[m].new, watch'[n].new)
    BY DEF InOrder
  <2>1. m \in 1..Len(watch)
    BY <1>5
  <2>2. CASE n \in 1..Len(watch)
    BY <1>5, <2>1, <2>2 DEF History, InOrder
  <2>3. CASE n = Len(watch) + 1
    <3>1. watch[m].w = w /\ watch'[n].new = o
      BY <1>4, <1>5, <2>1, <2>3
    <3>2. Older(watch[m].new, obj[w]) /\ watch[m].new \in Object /\ obj[w] \in Object
      BY <1>2, <1>8, <1>9, <2>1, <3>1
    <3> QED BY <1>5, <2>1, <3>1, <3>2, OlderOrder
  <2> QED BY <1>5, <2>2, <2>3
<1>12. History'
  BY <1>3, <1>7, <1>10, <1>11 DEF History, InOrder
<1> QED BY <1>3, <1>5, <1>6, <1>12

\* The victims of a cycle stay what they are while versions are stored.
LEMMA StoreKeepsVictims ==
  ASSUME Types, Victims, obj' \in [Workloads -> Object],
         \A x \in Workloads : Older(obj[x], obj'[x]), UNCHANGED <<cycle, cache>>
  PROVE  Victims'
<1>1. \A x \in Workloads : Rank(obj[x].phase) \in 0..7 /\ Rank(obj'[x].phase) \in 0..7
  BY RankOfObject DEF Types, Object
<1> QED BY <1>1 DEF Victims, Older

\* Neither a store that removes no object with a finalizer nor one that starts
\* nothing changes who holds devices.
LEMMA StoreKeepsDevices ==
  ASSUME Types, History, Copies, Devices,
         NEW w \in Workloads, NEW o \in Object, Older(obj[w], o), Store(w, o),
         o.phase = "Gone" => ~o.fin, o.phase = "Running" => obj[w].phase = "Running",
         UNCHANGED <<cache, alloc, run, restarts>>, rec' = rec \/ rec'.pc = "idle"
  PROVE  Devices'
<1>1. /\ obj \in [Workloads -> Object] /\ cache \in [Workloads -> Object]
      /\ alloc \subseteq Workloads /\ rec \in Reconciles
  BY DEF Types
<1>2. /\ obj'[w] = o /\ \A x \in Workloads : x # w => obj'[x] = obj[x]
  BY <1>1 DEF Store
<1>3. \A x \in alloc' : obj'[x].fin
  BY <1>1, <1>2 DEF Devices, Older
<1>4. ASSUME NEW x \in Workloads, obj'[x].phase = "Gone", obj'[x].fin
      PROVE  /\ cache'[x].deleting /\ x \notin alloc'
             /\ rec'.pc # "idle" /\ rec'.w = x => rec'.copy.deleting
  BY <1>2, <1>4 DEF Devices
<1>5. rec'.pc = "run" => /\ run'[rec'.w] # "None"
                         /\ obj'[rec'.w] = rec'.copy => rec'.w \in alloc'
  <2> SUFFICES ASSUME rec' = rec, rec.pc = "run", obj'[rec.w] = rec.copy
               PROVE  rec.w \in alloc
    BY DEF Devices
  <2>1. rec.w \in Workloads /\ Older(rec.copy, cache[rec.w]) /\ rec.copy \in Object
    BY <1>1 DEF Copies, Reconciles
  <2>2. Older(rec.copy, obj[rec.w])
    BY <1>1, <2>1, OlderOrder DEF History
  <2>3. Older(obj[rec.w], obj'[rec.w])
    BY <1>1, <1>2, <2>1, OlderOrder
  <2>4. obj[rec.w] = rec.copy
    BY <1>1, <2>1, <2>2, <2>3, OlderOrder
  <2> QED BY <2>4 DEF Devices, Current
<1>6. RunningHoldsDevices'
  <2> SUFFICES ASSUME restarts = 0, NEW x \in Workloads, obj'[x].phase = "Running", ~obj'[x].deleting
               PROVE  x \in alloc /\ run[x] # "None"
    BY DEF RunningHoldsDevices
  <2>1. obj[x].phase = "Running" /\ ~obj[x].deleting
    BY <1>2 DEF Older
  <2> QED BY <2>1 DEF Devices, RunningHoldsDevices
<1>7. rec'.pc \in {"count", "release"} => 5 <= Rank(obj'[rec'.w].phase)
  <2> SUFFICES ASSUME rec' = rec, rec.pc \in {"count", "release"} PROVE 5 <= Rank(obj'[rec.w].phase)
    OBVIOUS
  <2>1. rec.w \in Workloads /\ 5 <= Rank(obj[rec.w].phase)
    BY DEF Copies, Devices
  <2>2. CASE rec.w = w
    <3>1. Rank(o.phase) \in 0..7 /\ Rank(obj[w].phase) \in 0..7
      BY <1>1, RankOfObject DEF Object
    <3> QED BY <1>2, <2>1, <2>2, <3>1 DEF Older
  <2> QED BY <1>2, <2>1, <2>2
<1> QED BY <1>3, <1>4, <1>5, <1>6, <1>7 DEF Devices, Current

\* The three together, with the parts of the state a store leaves alone.
LEMMA StoreKeeps ==
  ASSUME OperatorInv, NEW w \in Workloads, NEW o \in Object, Older(obj[w], o), Store(w, o),
         o.phase # "None", o.phase = "Gone" => ~o.fin, o.phase = "Running" => obj[w].phase = "Running",
         UNCHANGED <<cache, notify, queued, scheduled, running, moving, cycle, rec, alloc, run,
                     restarts, dirty>>
  PROVE  OperatorInv'
<1>1. /\ obj' \in [Workloads -> Object] /\ watch' \in Seq([w : Workloads, new : Object])
      /\ \A x \in Workloads : Older(obj[x], obj'[x])
      /\ History'
  BY StoreKeepsHistory DEF OperatorInv
<1>2. Types'
  BY <1>1 DEF OperatorInv, Types
<1>3. Victims'
  BY <1>1, StoreKeepsVictims DEF OperatorInv
<1>4. Devices'
  BY StoreKeepsDevices DEF OperatorInv
<1>5. Buckets' /\ Copies'
  BY DEF OperatorInv, Buckets, BucketsDisjoint, Seen, Copies
<1> QED BY <1>1, <1>2, <1>3, <1>4, <1>5 DEF OperatorInv

\* Users create and delete.
LEMMA UserKeeps ==
  ASSUME OperatorInv, NEW w \in Workloads, Create(w) \/ Delete(w)
  PROVE  OperatorInv'
<1>1. obj[w] \in Object /\ NoObject \in Object
  BY DEF OperatorInv, Types, NoObject, Object, Absent
<1>2. UNCHANGED <<cache, notify, queued, scheduled, running, moving, cycle, rec, alloc, run,
                  restarts, dirty>>
  BY DEF Create, Delete, sched, sim
<1>3. CASE Create(w)
  <2> DEFINE o == [NoObject EXCEPT !.phase = "New"]
  <2>1. o \in Object /\ o.phase = "New"
    BY <1>1, Successors DEF Phases
  <2>2. Older(obj[w], o)
    <3>1. obj[w] = NoObject
      BY <1>3 DEF Create, OperatorInv, History
    <3>2. Rank(NoObject.phase) <= Rank("New")
      BY RankOfPhase DEF NoObject
    <3> QED BY <1>1, <3>1, <3>2, Successors DEF Phases
  <2> HIDE DEF o
  <2>3. Store(w, o)
    BY <1>3 DEF Create, o
  <2> QED BY <1>2, <2>1, <2>2, <2>3, StoreKeeps
<1>4. CASE Delete(w) /\ obj[w].fin
  <2> DEFINE o == [obj[w] EXCEPT !.deleting = TRUE]
  <2>1. o \in Object /\ Older(obj[w], o) /\ o.phase = obj[w].phase
    BY <1>1, Successors
  <2>2. Store(w, o) /\ o.phase # "Gone" /\ o.phase # "None"
    BY <1>4, <2>1 DEF Delete, Phases, Terminal
  <2> HIDE DEF o
  <2> QED BY <1>2, <2>1, <2>2, StoreKeeps
<1>5. CASE Delete(w) /\ ~obj[w].fin
  <2> DEFINE o == [obj[w] EXCEPT !.phase = "Gone"]
  <2>1. o \in Object /\ Older(obj[w], o) /\ o.phase = "Gone" /\ o.fin = obj[w].fin
    <3>1. Rank(obj[w].phase) <= Rank("Gone")
      BY <1>1, RankOfPhase, RankOfObject DEF Object
    <3>2. obj[w] \in Object /\ "Gone" \in Phases \cup Absent
      BY <1>1 DEF Absent
    <3> QED BY <3>1, <3>2, Successors
  <2>2. Store(w, o)
    BY <1>5 DEF Delete
  <2> HIDE DEF o
  <2> QED BY <1>2, <1>5, <2>1, <2>2, StoreKeeps
<1> QED BY <1>3, <1>4, <1>5

-----------------------------------------------------------------------------
(* The watch and the scheduler's handlers. *)

\* The cache moves one version forward.
LEMMA WatchKeeps == ASSUME OperatorInv, WatchEvent PROVE OperatorInv'
<1> DEFINE V == [w : Workloads, new : Object]
           N == [w : Workloads, old : Phases \cup Absent, new : Object]
           e == watch[1]
           n == [w |-> e.w, old |-> cache[e.w].phase, new |-> e.new]
<1>1. /\ obj \in [Workloads -> Object] /\ cache \in [Workloads -> Object]
      /\ watch \in Seq(V) /\ notify \in Seq(N) /\ dirty \subseteq Workloads
  BY DEF OperatorInv, Types
<1>2. /\ Tail(watch) \in Seq(V) /\ Head(watch) = e
      /\ Len(Tail(watch)) = Len(watch) - 1 /\ Len(watch) \in Nat /\ 1 <= Len(watch)
      /\ \A k \in 1..Len(Tail(watch)) : Tail(watch)[k] = watch[k + 1]
  <2> HIDE DEF V
  <2> QED BY <1>1, AfterTail DEF WatchEvent
<1>3. \A k \in 1..Len(watch) : watch[k].w \in Workloads /\ watch[k].new \in Object
  BY EntryTypes DEF OperatorInv
<1>4. e.w \in Workloads /\ e.new \in Object
  BY <1>2, <1>3
<1>5. n \in N /\ n.w = e.w /\ n.new = e.new
  BY <1>1, <1>4 DEF Object
<1>6. /\ cache' = [cache EXCEPT ![e.w] = e.new] /\ notify' = Append(notify, n)
      /\ watch' = Tail(watch) /\ dirty' = dirty \cup {e.w}
      /\ UNCHANGED <<obj, queued, scheduled, running, moving, cycle, rec, alloc, run, restarts>>
  BY <1>2 DEF WatchEvent, sched, sim
<1> HIDE DEF n, e
<1>7. /\ cache' \in [Workloads -> Object] /\ cache'[e.w] = e.new
      /\ \A x \in Workloads : x # e.w => cache'[x] = cache[x]
  BY <1>1, <1>4, <1>6
<1>8. /\ notify' \in Seq(N) /\ Len(notify') = Len(notify) + 1 /\ Len(notify) \in Nat
      /\ \A k \in 1..Len(notify) : notify'[k] = notify[k]
      /\ notify'[Len(notify) + 1] = n
  <2> HIDE DEF N
  <2> QED BY <1>1, <1>5, <1>6, AfterAppend
<1>9. Types'
  BY <1>2, <1>4, <1>6, <1>7, <1>8 DEF OperatorInv, Types
<1>10. /\ \A k \in 1..Len(watch) : /\ Older(cache[watch[k].w], watch[k].new)
                                   /\ Older(watch[k].new, obj[watch[k].w])
       /\ InOrder(watch) /\ InOrder(notify)
       /\ \A k \in 1..Len(notify) : Older(notify[k].new, cache[notify[k].w])
       /\ \A w \in Workloads : Older(cache[w], obj[w])
       /\ \A w \in Workloads : obj[w].phase = "None" => obj[w] = NoObject
  BY DEF OperatorInv, History
<1>11. Older(cache[e.w], e.new) /\ Older(e.new, obj[e.w])
  BY <1>2, <1>10 DEF e
<1>12. \A x \in Workloads : Older(cache[x], cache'[x])
  BY <1>1, <1>7, <1>11, OlderOrder
<1>13. History'
  <2>1. \A w \in Workloads : Older(cache'[w], obj'[w])
    BY <1>6, <1>7, <1>10, <1>11
  <2>2. ASSUME NEW k \in 1..Len(watch')
        PROVE  Older(cache'[watch'[k].w], watch'[k].new) /\ Older(watch'[k].new, obj'[watch'[k].w])
    <3>1. watch'[k] = watch[k + 1] /\ k + 1 \in 1..Len(watch) /\ 1 \in 1..Len(watch) /\ 1 < k + 1
      BY <1>2, <1>6
    <3>2. Older(watch[k + 1].new, obj[watch[k + 1].w]) /\ Older(cache[watch[k + 1].w], watch[k + 1].new)
      BY <1>10, <3>1
    <3>3. watch[k + 1].w = e.w => Older(e.new, watch[k + 1].new)
      BY <1>10, <3>1 DEF InOrder, e
    <3> QED BY <1>3, <1>6, <1>7, <3>1, <3>2, <3>3
  <2>3. InOrder(watch')
    <3> SUFFICES ASSUME NEW k \in 1..Len(watch'), NEW l \in 1..Len(watch'), k < l,
                        watch'[k].w = watch'[l].w
                 PROVE  Older(watch'[k].new, watch'[l].new)
      BY DEF InOrder
    <3>1. /\ watch'[k] = watch[k + 1] /\ k + 1 \in 1..Len(watch)
          /\ watch'[l] = watch[l + 1] /\ l + 1 \in 1..Len(watch) /\ k + 1 < l + 1
      BY <1>2, <1>6
    <3> QED BY <1>10, <3>1 DEF InOrder
  <2>4. \A k \in 1..Len(notify) : /\ notify[k].w \in Workloads /\ notify[k].new \in Object
                                  /\ Older(notify[k].new, cache'[notify[k].w])
    BY <1>1, <1>7, <1>10, <1>12, EntryTypes, OlderOrder DEF OperatorInv
  <2>5. \A k \in 1..Len(notify') : Older(notify'[k].new, cache'[notify'[k].w])
    <3>1. Older(n.new, cache'[n.w])
      BY <1>4, <1>5, <1>7, OlderOrder
    <3> QED BY <1>8, <2>4, <3>1
  <2>6. InOrder(notify')
    <3> SUFFICES ASSUME NEW k \in 1..Len(notify'), NEW l \in 1..Len(notify'), k < l,
                        notify'[k].w = notify'[l].w
                 PROVE  Older(notify'[k].new, notify'[l].new)
      BY DEF InOrder
    <3>1. k \in 1..Len(notify)
      BY <1>8
    <3>2. CASE l \in 1..Len(notify)
      BY <1>8, <1>10, <3>1, <3>2 DEF InOrder
    <3>3. CASE l = Len(notify) + 1
      BY <1>5, <1>7, <1>8, <2>4, <3>1, <3>3
    <3> QED BY <1>8, <3>2, <3>3
  <2> QED BY <1>6, <1>10, <2>1, <2>2, <2>3, <2>5, <2>6 DEF History, InOrder
<1>14. \A x \in Workloads : /\ Rank(cache[x].phase) <= Rank(cache'[x].phase)
                            /\ Rank(cache[x].phase) \in 0..7 /\ Rank(cache'[x].phase) \in 0..7
  BY <1>1, <1>7, <1>12, RankOfObject DEF Older, Object
<1>15. ASSUME NEW x \in Workloads, NEW r \in Nat, Seen(x, r) PROVE Seen(x, r)'
  <2>1. r <= Rank(cache'[x].phase)
    BY <1>14, <1>15 DEF Seen
  <2>2. ASSUME NEW k \in 1..Len(notify'), notify'[k].w = x PROVE r <= Rank(notify'[k].new.phase)
    <3>1. CASE k \in 1..Len(notify)
      BY <1>8, <1>15, <2>2, <3>1 DEF Seen
    <3>2. CASE k = Len(notify) + 1
      BY <1>5, <1>7, <1>8, <2>1, <2>2, <3>2
    <3> QED BY <1>8, <3>1, <3>2
  <2> QED BY <2>1, <2>2 DEF Seen
<1>16. Buckets'
  <2>1. scheduled \subseteq Workloads /\ running \subseteq Workloads /\ moving \in Workloads \cup {None}
    BY DEF OperatorInv, Types
  <2> QED BY <1>6, <1>15, <2>1 DEF OperatorInv, Buckets, BucketsDisjoint
<1>17. Victims'
  <2>1. cycle \in Cycles
    BY DEF OperatorInv, Types
  <2>2. cycle.victims \subseteq Workloads
    BY <2>1 DEF Cycles
  <2>3. \A v \in cycle.victims : 4 <= Rank(cache'[v].phase)
    BY <1>14, <2>2 DEF OperatorInv, Victims
  <2> QED BY <1>6, <2>3 DEF OperatorInv, Victims
<1>18. Copies'
  <2>1. rec.pc # "idle" => rec.w \in Workloads /\ Older(rec.copy, cache'[rec.w])
    <3>1. rec.copy \in Object
      BY DEF OperatorInv, Types, Reconciles
    <3> QED BY <1>1, <1>7, <1>12, <3>1, OlderOrder DEF OperatorInv, Copies
  <2> QED BY <1>6, <2>1 DEF OperatorInv, Copies
<1>19. Devices'
  <2>1. \A x \in Workloads : cache[x].deleting => cache'[x].deleting
    BY <1>12 DEF Older
  <2> QED BY <1>6, <2>1 DEF OperatorInv, Devices, RunningHoldsDevices, Current
<1> QED BY <1>9, <1>13, <1>16, <1>17, <1>18, <1>19 DEF OperatorInv

\* The handler moves the workload of the next event to its bucket.
LEMMA HandleKeeps == ASSUME OperatorInv, HandleEvent PROVE OperatorInv'
<1> DEFINE N == [w : Workloads, old : Phases \cup Absent, new : Object]
<1>1. /\ cache \in [Workloads -> Object] /\ notify \in Seq(N)
      /\ queued \subseteq Workloads /\ scheduled \subseteq Workloads /\ running \subseteq Workloads
  BY DEF OperatorInv, Types
<1>2. /\ Tail(notify) \in Seq(N) /\ Head(notify) = notify[1]
      /\ Len(Tail(notify)) = Len(notify) - 1 /\ Len(notify) \in Nat /\ 1 <= Len(notify)
      /\ \A k \in 1..Len(Tail(notify)) : Tail(notify)[k] = notify[k + 1]
  <2> HIDE DEF N
  <2> QED BY <1>1, AfterTail DEF HandleEvent
<1>3. \A k \in 1..Len(notify) : notify[k].w \in Workloads /\ notify[k].new \in Object
  BY EntryTypes DEF OperatorInv
<1>4. PICK w \in Workloads, o \in Object : w = notify[1].w /\ o = notify[1].new
  BY <1>2, <1>3
<1>5. /\ notify' = Tail(notify) /\ moving = None /\ applyWorkloadToState(w, o)
      /\ UNCHANGED <<obj, watch, cache, cycle, rec, alloc, run, restarts, dirty>>
  BY <1>2, <1>4 DEF HandleEvent, api, sim
<1>6. \A k \in 1..Len(notify') : notify'[k] = notify[k + 1] /\ k + 1 \in 1..Len(notify) /\ 1 < k + 1
  BY <1>2, <1>5
<1>7. /\ \A k \in 1..Len(notify) : Older(notify[k].new, cache[notify[k].w])
      /\ InOrder(notify)
  BY DEF OperatorInv, History
<1>8. Seen(w, Rank(o.phase))'
  <2>1. Rank(o.phase) <= Rank(cache'[w].phase)
    <3>1. Older(o, cache[w])
      BY <1>2, <1>4, <1>7
    <3>2. cache'[w] = cache[w]
      BY <1>5
    <3> QED BY <3>1, <3>2 DEF Older
  <2>2. ASSUME NEW k \in 1..Len(notify'), notify'[k].w = w
        PROVE  Rank(o.phase) <= Rank(notify'[k].new.phase)
    BY <1>2, <1>4, <1>6, <1>7, <2>2 DEF InOrder, Older
  <2> QED BY <2>1, <2>2 DEF Seen
<1>9. \A x \in Workloads, r \in Nat : Seen(x, r) => Seen(x, r)'
  BY <1>5, <1>6 DEF Seen
<1>10. Seen(w, 3) => 3 <= Rank(o.phase)
  BY <1>2, <1>4 DEF Seen
<1>11. Seen(w, 4) => 4 <= Rank(o.phase)
  BY <1>2, <1>4 DEF Seen
<1>12. Buckets
  BY DEF OperatorInv
<1>13. /\ queued' \subseteq Workloads /\ scheduled' \subseteq Workloads /\ running' \subseteq Workloads
       /\ moving' \in Workloads \cup {None} /\ Buckets'
  <2>1. CASE removeWorkload(w) /\ moving' = None
    BY <1>1, <1>9, <1>12, <2>1 DEF removeWorkload, Buckets, BucketsDisjoint
  <2>2. CASE upsertQueued(w) /\ moving' = None /\ o.phase = "Queued"
    <3>1. w \notin scheduled /\ w \notin running
      BY <1>10, <1>11, <1>12, <2>2, RankOfPhase DEF Buckets
    <3> QED BY <1>1, <1>9, <1>12, <2>2, <3>1 DEF upsertQueued, Buckets, BucketsDisjoint
  <2>3. CASE upsertScheduled(w) /\ moving' = None /\ o.phase = "Scheduled"
    <3>1. w \notin running /\ Seen(w, 3)'
      BY <1>8, <1>11, <1>12, <2>3, RankOfPhase DEF Buckets
    <3> QED BY <1>1, <1>9, <1>12, <2>3, <3>1 DEF upsertScheduled, Buckets, BucketsDisjoint
  <2>4. CASE removeWorkload(w) /\ moving' = w /\ o.phase = "Running"
    <3>1. Seen(w, 4)'
      BY <1>8, <2>4, RankOfPhase
    <3> QED BY <1>1, <1>9, <1>12, <2>4, <3>1 DEF removeWorkload, Buckets, BucketsDisjoint
  <2> QED BY <1>5, <2>1, <2>2, <2>3, <2>4 DEF applyWorkloadToState
<1>14. Types'
  BY <1>2, <1>5, <1>13 DEF OperatorInv, Types
<1>15. History'
  <2>1. \A k \in 1..Len(notify') : Older(notify'[k].new, cache'[notify'[k].w])
    BY <1>5, <1>6, <1>7
  <2>2. InOrder(notify')
    <3> SUFFICES ASSUME NEW k \in 1..Len(notify'), NEW l \in 1..Len(notify'), k < l,
                        notify'[k].w = notify'[l].w
                 PROVE  Older(notify'[k].new, notify'[l].new)
      BY DEF InOrder
    <3>1. Len(notify') \in Int
      <4>1. Len(Tail(notify)) \in Int
        BY <1>2
      <4>2. notify' = Tail(notify)
        BY <1>5
      <4> QED BY <4>1, <4>2
    <3>2. k + 1 < l + 1
      BY <3>1
    <3> QED BY <1>6, <1>7, <3>2 DEF InOrder
  <2> QED BY <1>5, <2>1, <2>2 DEF OperatorInv, History, InOrder
<1>16. Victims' /\ Copies' /\ Devices'
  BY <1>5 DEF OperatorInv, Victims, Copies, Devices, RunningHoldsDevices, Current
<1> QED BY <1>13, <1>14, <1>15, <1>16 DEF OperatorInv

\* The second half of a move to the running bucket, and steps that leave all of
\* this alone.
LEMMA QuietKeeps ==
  ASSUME OperatorInv, FinishMoving \/ handlePoolEvent \/ ReconcilePool \/ UNCHANGED vars
  PROVE  OperatorInv'
<1>1. UNCHANGED <<obj, watch, notify, cache, cycle, rec, alloc, run, restarts, dirty>>
  BY DEF FinishMoving, handlePoolEvent, ReconcilePool, vars, api, sim
<1>2. History' /\ Victims' /\ Copies' /\ Devices'
  <2>1. History'
    BY <1>1 DEF OperatorInv, History, InOrder
  <2>2. Victims' /\ Copies'
    BY <1>1 DEF OperatorInv, Victims, Copies
  <2>3. Devices'
    BY <1>1 DEF OperatorInv, Devices, RunningHoldsDevices, Current
  <2> QED BY <2>1, <2>2, <2>3
<1>3. \A x, r : Seen(x, r) <=> Seen(x, r)'
  BY <1>1 DEF Seen
<1>4. CASE FinishMoving
  <2>1. PICK w \in Workloads : w = moving
    BY <1>4 DEF FinishMoving, OperatorInv, Types
  <2>2. upsertRunning(w) /\ moving' = None /\ Seen(w, 4)
    BY <1>4, <2>1 DEF FinishMoving, OperatorInv, Buckets
  <2>3. Types'
    BY <1>1, <2>2 DEF OperatorInv, Types, upsertRunning
  <2>4. Buckets'
    BY <1>3, <2>2 DEF OperatorInv, Buckets, BucketsDisjoint, upsertRunning
  <2> QED BY <1>2, <2>3, <2>4 DEF OperatorInv
<1>5. CASE UNCHANGED <<queued, scheduled, running, moving>>
  <2>1. Types'
    BY <1>1, <1>5 DEF OperatorInv, Types
  <2>2. Buckets'
    BY <1>3, <1>5 DEF OperatorInv, Buckets, BucketsDisjoint
  <2> QED BY <1>2, <2>1, <2>2 DEF OperatorInv
<1> QED BY <1>4, <1>5 DEF handlePoolEvent, ReconcilePool, vars, sched

-----------------------------------------------------------------------------
(* The cycle. *)

\* A slice holds the workloads of its bucket.
LEMMA SliceEntries ==
  ASSUME NEW S, NEW q \in Slices(S), NEW i \in DOMAIN q
  PROVE  q[i].id \in S
<1>1. PICK s \in Orders(S) : q = [k \in DOMAIN s |-> Entry(s[k])]
  BY DEF Slices
<1>2. s[i] \in S /\ q[i] = Entry(s[i])
  BY <1>1 DEF Orders, Injection
<1>3. Entry(s[i]).id = s[i]
  BY DEF Entry
<1> QED BY <1>2, <1>3

\* The victims of a choice are indices of the running slice.
LEMMA ChoiceVictims ==
  ASSUME NEW in
  PROVE  SelectOneForAdmission(in).victims \subseteq DOMAIN in.running
<1>1. \A w : SelectPreemptionVictimsGreedyMinimal(w, in) \subseteq DOMAIN in.running
  BY DEF SelectPreemptionVictimsGreedyMinimal, PickUntilFreed, candidates
<1> DEFINE q == in.queued
           first(I) == CHOOSE i \in I : \A j \in I \ {i} :
                         WeightedRoundRobinByTenant(q, in.quotas, i, j)
           open == {i \in DOMAIN q : /\ ~ExceedsTenantGPUCap(q[i], in)
                                     /\ CompatibleProfileAndKind(q[i], in.fleet)}
           fitting == {i \in open : /\ FitsGPUCount(q[i], in.fleet)
                                    /\ FitsPerDeviceMemory(q[i], in.fleet)}
           preempting == {i \in open : SelectPreemptionVictimsGreedyMinimal(q[i], in) # {}}
<1>2. SelectOneForAdmission(in) =
        CASE fitting # {} -> [index |-> first(fitting), victims |-> {}]
          [] fitting = {} /\ preempting # {} ->
               [index |-> first(preempting),
                victims |-> SelectPreemptionVictimsGreedyMinimal(q[first(preempting)], in)]
          [] OTHER -> [index |-> 0, victims |-> {}]
  BY DEF SelectOneForAdmission
<1> HIDE DEF first, fitting, preempting
<1> QED BY <1>1, <1>2

\* What depends on the history, the buckets and the reconciler stays as it is
\* when only the cycle moves.
LEMMA CycleMoves ==
  ASSUME OperatorInv, cycle' \in Cycles, Victims',
         UNCHANGED <<obj, watch, cache, notify, queued, scheduled, running, moving, rec, alloc, run,
                     restarts, dirty>>
  PROVE  OperatorInv'
<1>1. Types'
  BY DEF OperatorInv, Types
<1>2. History' /\ Copies' /\ Devices'
  BY DEF OperatorInv, History, InOrder, Copies, Devices, RunningHoldsDevices, Current
<1>3. Buckets'
  BY DEF OperatorInv, Buckets, BucketsDisjoint, Seen
<1> QED BY <1>1, <1>2, <1>3 DEF OperatorInv

\* A cycle takes its victims from the running bucket.
LEMMA DecideKeeps == ASSUME OperatorInv, runSchedulingCycle PROVE OperatorInv'
<1>1. PICK q \in Slices(queued), s \in Slices(scheduled), r \in Slices(running) :
        cycle' = Decision(snapshotForNamespace(q, s, r))
  BY DEF runSchedulingCycle
<1>2. PICK in : in = snapshotForNamespace(q, s, r) /\ in.queued = q /\ in.running = r
  <2>1. snapshotForNamespace(q, s, r).queued = q /\ snapshotForNamespace(q, s, r).running = r
    BY DEF snapshotForNamespace
  <2> QED BY <2>1
<1>3. queued \subseteq Workloads /\ running \subseteq Workloads
  BY DEF OperatorInv, Types
<1> DEFINE choice == SelectOneForAdmission(in)
           V == {in.running[i].id : i \in choice.victims}
<1>4. V \subseteq running
  <2>1. choice.victims \subseteq DOMAIN r
    BY <1>2, ChoiceVictims
  <2> QED BY <1>2, <2>1, SliceEntries
<1>5. Idle \in Cycles /\ Idle.victims = {} /\ Idle.pc = "idle"
  BY DEF Idle, Cycles
<1>6. \/ cycle' = Idle
      \/ /\ choice.index \in DOMAIN q
         /\ cycle' = [Idle EXCEPT !.pc = IF choice.victims = {} THEN "admit" ELSE "mark",
                                  !.w = q[choice.index].id, !.victims = V]
  BY <1>1, <1>2 DEF Decision
<1>7. choice.index \in DOMAIN q => q[choice.index].id \in Workloads
  BY <1>3, SliceEntries
<1> HIDE DEF choice, V
<1>8. /\ cycle' \in Cycles /\ cycle'.victims \subseteq running /\ cycle'.pc # "free"
      /\ cycle'.pc # "idle" => cycle'.w \in Workloads
  <2>1. CASE cycle' = Idle
    BY <1>5, <2>1
  <2>2. ASSUME NEW w \in Workloads, NEW p \in {"admit", "mark"},
               cycle' = [Idle EXCEPT !.pc = p, !.w = w, !.victims = V]
        PROVE  cycle' \in Cycles /\ cycle'.victims = V /\ cycle'.pc = p /\ cycle'.w = w
    BY <1>3, <1>4, <2>2 DEF Idle, Cycles
  <2> QED BY <1>4, <1>6, <1>7, <2>1, <2>2
<1>9. UNCHANGED <<obj, watch, cache, notify, queued, scheduled, running, moving, rec, alloc, run,
                  restarts, dirty>>
  BY DEF runSchedulingCycle, api, sched, sim
<1>10. \A v \in running : 4 <= Rank(cache[v].phase)
  BY DEF OperatorInv, Buckets, Seen
<1>11. Victims'
  BY <1>8, <1>9, <1>10 DEF Victims
<1> QED BY <1>8, <1>9, <1>11, CycleMoves

\* A victim is marked, found marked, or left with the rest of the cycle.
LEMMA MarkKeeps ==
  ASSUME OperatorInv, NEW v \in Workloads, MarkVictim(v) PROVE OperatorInv'
<1> DEFINE marked == [cycle EXCEPT !.pc = "free", !.victims = @ \ {v}, !.freeing = v]
           o == [cache[v] EXCEPT !.phase = "Preempted"]
<1>1. /\ cycle \in Cycles /\ cache \in [Workloads -> Object] /\ obj \in [Workloads -> Object]
      /\ v \in cycle.victims
  BY DEF OperatorInv, Types, MarkVictim
<1>2. /\ marked \in Cycles /\ marked.victims \subseteq cycle.victims /\ marked.w \in Workloads
      /\ marked.freeing = v /\ Idle \in Cycles /\ Idle.victims = {} /\ Idle.pc = "idle"
  <2>1. cycle.w \in Workloads
    BY DEF OperatorInv, Victims, MarkVictim
  <2> QED BY <1>1, <2>1 DEF Cycles, Idle
<1>3. UNCHANGED <<cache, notify, queued, scheduled, running, moving, rec, alloc, run, restarts,
                  dirty>>
  BY DEF MarkVictim, sched, sim
<1>4. 4 <= Rank(cache[v].phase) /\ \A x \in cycle.victims : 4 <= Rank(cache[x].phase)
  BY <1>1 DEF OperatorInv, Victims
<1>5. cache[v] \in Object /\ obj[v] \in Object /\ Older(cache[v], obj[v])
  BY <1>1 DEF OperatorInv, History
<1> HIDE DEF marked
<1>6. CASE cache[v].phase \in Absent \cup {"Preempted"} /\ cycle' = marked /\ UNCHANGED api
  <2>1. 6 <= Rank(cache[v].phase)
    BY <1>4, <1>6, RankOfPhase DEF Absent
  <2>2. 6 <= Rank(obj[v].phase)
    BY <1>5, <2>1, RankOfObject DEF Older, Object
  <2>3. Victims'
    BY <1>2, <1>3, <1>4, <1>6, <2>2 DEF Victims, api
  <2> QED BY <1>2, <1>3, <1>6, <2>3, CycleMoves DEF api
<1>7. CASE cycle' = Idle /\ UNCHANGED api
  <2>1. Victims'
    BY <1>2, <1>7 DEF Victims
  <2> QED BY <1>2, <1>3, <1>7, <2>1, CycleMoves DEF api
<1>8. CASE cache[v].phase \in Phases \ {"Preempted"} /\ Current(v, cache[v]) /\ Store(v, o)
           /\ cycle' = marked
  <2>1. obj[v] = cache[v]
    BY <1>8 DEF Current
  <2>2. o \in Object /\ o.phase = "Preempted" /\ Older(obj[v], o)
    <3>1. Rank(cache[v].phase) <= Rank("Preempted")
      BY <1>8, RankOfPhase DEF Phases, Terminal
    <3> QED BY <1>5, <2>1, <3>1, Successors, ZenonT(30) DEF Phases, Terminal
  <2> HIDE DEF o
  <2>3. /\ obj' \in [Workloads -> Object] /\ watch' \in Seq([w : Workloads, new : Object])
        /\ obj'[v] = o /\ History'
    BY <1>3, <1>8, <2>2, StoreKeepsHistory DEF OperatorInv
  <2>4. Devices'
    BY <1>3, <1>8, <2>2, StoreKeepsDevices DEF OperatorInv
  <2>5. Types'
    BY <1>2, <1>3, <1>8, <2>3 DEF OperatorInv, Types
  <2>6. Victims'
    <3>1. cache' = cache /\ cycle' = marked
      BY <1>3, <1>8
    <3>2. 6 <= Rank(obj'[v].phase)
      BY <2>2, <2>3, RankOfPhase
    <3> QED BY <1>2, <1>4, <3>1, <3>2 DEF Victims
  <2>7. Buckets' /\ Copies'
    BY <1>3 DEF OperatorInv, Buckets, BucketsDisjoint, Seen, Copies
  <2> QED BY <2>3, <2>4, <2>5, <2>6, <2>7 DEF OperatorInv
<1> QED BY <1>6, <1>7, <1>8 DEF MarkVictim, GiveUp, marked

\* Devices are taken from a workload that is stored as Preempted or gone.
LEMMA FreeKeeps == ASSUME OperatorInv, FreeVictim PROVE OperatorInv'
<1>1. /\ cycle \in Cycles /\ alloc \subseteq Workloads /\ run \in [Workloads -> RunStatus]
      /\ cycle.pc = "free"
  BY DEF OperatorInv, Types, FreeVictim
<1>2. PICK v \in Workloads : v = cycle.freeing /\ 6 <= Rank(obj[v].phase)
  BY <1>1 DEF OperatorInv, Victims
<1>3. /\ run' = [run EXCEPT ![v] = IF @ \in {"Running", "Ended"} THEN "Preempted" ELSE @]
      /\ alloc' = alloc \ {v}
      /\ cycle' = [cycle EXCEPT !.pc = IF cycle.victims = {} THEN "admit" ELSE "mark",
                                !.freeing = None]
      /\ UNCHANGED <<obj, watch, cache, notify, queued, scheduled, running, moving, rec, restarts,
                     dirty>>
  BY <1>2 DEF FreeVictim, api, sched
<1>4. /\ run' \in [Workloads -> RunStatus]
      /\ \A x \in Workloads : run[x] # "None" => run'[x] # "None"
  BY <1>1, <1>3 DEF RunStatus
<1>5. /\ cycle' \in Cycles /\ cycle'.victims = cycle.victims /\ cycle'.pc # "free"
      /\ cycle'.w = cycle.w
  BY <1>1, <1>3 DEF Cycles
<1>6. Types'
  BY <1>1, <1>3, <1>4, <1>5 DEF OperatorInv, Types
<1>7. History' /\ Copies'
  BY <1>3 DEF OperatorInv, History, InOrder, Copies
<1>8. Buckets'
  BY <1>3 DEF OperatorInv, Buckets, BucketsDisjoint, Seen
<1>9. Victims'
  BY <1>1, <1>3, <1>5 DEF OperatorInv, Victims
<1>10. obj[v].phase # "Running" /\ obj[v].phase # "Scheduled"
  BY <1>2, RankOfPhase
<1>11. rec.pc = "run" => rec.w \in Workloads /\ rec.copy.phase = "Scheduled"
  BY DEF OperatorInv, Copies
<1>12. RunningHoldsDevices'
  BY <1>3, <1>4, <1>10 DEF OperatorInv, Devices, RunningHoldsDevices
<1>13. rec'.pc = "run" => /\ run'[rec'.w] # "None"
                          /\ Current(rec.w, rec.copy)' => rec'.w \in alloc'
  BY <1>3, <1>4, <1>10, <1>11 DEF OperatorInv, Devices, Current
<1>14. Devices'
  BY <1>3, <1>12, <1>13 DEF OperatorInv, Devices
<1> QED BY <1>6, <1>7, <1>8, <1>9, <1>14 DEF OperatorInv

\* The chosen workload is patched if it is still Queued.
LEMMA PatchKeeps == ASSUME OperatorInv, patchWorkloadAdmittedAndScheduled PROVE OperatorInv'
<1>1. /\ cycle \in Cycles /\ cache \in [Workloads -> Object] /\ obj \in [Workloads -> Object]
  BY DEF OperatorInv, Types
<1>2. Idle \in Cycles /\ Idle.victims = {} /\ Idle.pc = "idle"
  BY DEF Cycles, Idle
<1>3. UNCHANGED <<cache, notify, queued, scheduled, running, moving, rec, alloc, run, restarts,
                  dirty>>
  BY DEF patchWorkloadAdmittedAndScheduled, sched, sim
<1>4. cycle' = Idle
  BY DEF patchWorkloadAdmittedAndScheduled, GiveUp
<1>5. Victims'
  BY <1>2, <1>4 DEF Victims
<1>6. CASE UNCHANGED api
  BY <1>2, <1>3, <1>4, <1>5, <1>6, CycleMoves DEF api
<1>7. CASE ~UNCHANGED api
  <2>1. PICK w : w = cycle.w
    OBVIOUS
  <2> DEFINE o == [cache[w] EXCEPT !.phase = "Scheduled"]
  <2>2. cache[w].phase = "Queued" /\ obj[w] = cache[w] /\ Store(w, o) /\ cycle.pc = "admit"
    BY <1>7, <2>1 DEF patchWorkloadAdmittedAndScheduled, GiveUp, Current
  <2>3. w \in Workloads
    BY <1>1, <2>1, <2>2 DEF OperatorInv, Victims, Cycles
  <2>4. o \in Object /\ o.phase = "Scheduled" /\ Older(obj[w], o)
    <3>1. Rank(cache[w].phase) <= Rank("Scheduled")
      BY <2>2, RankOfPhase
    <3>2. cache[w] \in Object /\ "Scheduled" \in Phases \cup Absent
      BY <1>1, <2>3 DEF Phases
    <3> QED BY <2>2, <3>1, <3>2, Successors
  <2> HIDE DEF o
  <2>5. /\ obj' \in [Workloads -> Object] /\ watch' \in Seq([w : Workloads, new : Object])
        /\ History'
    BY <1>3, <2>2, <2>3, <2>4, StoreKeepsHistory DEF OperatorInv
  <2>6. Devices'
    BY <1>3, <2>2, <2>3, <2>4, StoreKeepsDevices DEF OperatorInv
  <2>7. Types'
    BY <1>2, <1>3, <1>4, <2>5 DEF OperatorInv, Types
  <2>8. Buckets' /\ Copies'
    BY <1>3 DEF OperatorInv, Buckets, BucketsDisjoint, Seen, Copies
  <2> QED BY <1>5, <2>5, <2>6, <2>7, <2>8 DEF OperatorInv
<1> QED BY <1>6, <1>7

-----------------------------------------------------------------------------
(* The reconciler. *)

\* The reconciler's copy is of a workload, and older than what is stored.
LEMMA CopyIsOlder ==
  ASSUME OperatorInv, rec.pc # "idle"
  PROVE  /\ rec.w \in Workloads /\ rec.copy \in Object /\ obj[rec.w] \in Object
         /\ Older(rec.copy, obj[rec.w])
<1>1. rec.w \in Workloads /\ Older(rec.copy, cache[rec.w])
  BY DEF OperatorInv, Copies
<1>2. /\ rec.copy \in Object /\ obj[rec.w] \in Object /\ cache[rec.w] \in Object
  BY <1>1 DEF OperatorInv, Types, Reconciles
<1>3. Older(cache[rec.w], obj[rec.w])
  BY <1>1 DEF OperatorInv, History
<1>4. Older(rec.copy, obj[rec.w])
  BY <1>1, <1>2, <1>3, OlderOrder
<1> QED BY <1>1, <1>2, <1>4

\* No reconcile in progress: nothing to keep of it.
LEMMA NoReconcileType == NoReconcile \in Reconciles /\ NoReconcile.pc = "idle"
BY DEF NoReconcile, Reconciles, NoObject, Object, Absent, RunStatus

\* What does not depend on the reconciler stays as it is when only the
\* reconciler moves.
LEMMA ReconcilerMoves ==
  ASSUME OperatorInv, rec' \in Reconciles, dirty' \subseteq Workloads, alloc' \subseteq Workloads,
         run' \in [Workloads -> RunStatus], Copies', Devices',
         UNCHANGED <<obj, watch, cache, notify, queued, scheduled, running, moving, cycle, restarts>>
  PROVE  OperatorInv'
<1>1. Types'
  BY DEF OperatorInv, Types
<1>2. History' /\ Victims'
  BY DEF OperatorInv, History, InOrder, Victims
<1>3. Buckets'
  BY DEF OperatorInv, Buckets, BucketsDisjoint, Seen
<1> QED BY <1>1, <1>2, <1>3 DEF OperatorInv

\* What the reconciler does with the copy it reads.
LEMMA StepOfCopy ==
  ASSUME NEW o \in Object
  PROVE  /\ NextStep(o) \in {"idle", "delete", "terminal", "finalizer", "queue", "allocate", "poll"}
         /\ NextStep(o) = "finalizer" => o.phase \in Phases
         /\ NextStep(o) = "queue" => o.phase = "New"
         /\ NextStep(o) = "allocate" => o.phase = "Scheduled" /\ o.fin /\ ~o.deleting
         /\ NextStep(o) = "poll" => o.phase = "Running"
         /\ NextStep(o) = "terminal" => o.phase \in Terminal
         /\ NextStep(o) = "delete" => o.deleting /\ o.phase \in Phases
         /\ o.deleting => NextStep(o) \in {"idle", "delete"}
BY DEF NextStep, Object, Phases, Absent, Terminal

\* A key is taken from the queue and the cache read.
LEMMA ReconcileKeeps ==
  ASSUME OperatorInv, NEW w \in Workloads, Reconcile(w) PROVE OperatorInv'
<1>1. cache[w] \in Object /\ rec.pc = "idle" /\ Older(cache[w], cache[w])
  BY OlderOrder DEF OperatorInv, Types, Reconcile
<1>2. UNCHANGED <<obj, watch, cache, notify, queued, scheduled, running, moving, cycle, alloc, run,
                  restarts>>
  BY DEF Reconcile, api, sched, sim
<1>3. dirty' \subseteq Workloads /\ alloc' \subseteq Workloads /\ run' \in [Workloads -> RunStatus]
  BY <1>2 DEF Reconcile, OperatorInv, Types
<1>4. CASE rec' = NoReconcile
  <2>1. Copies' /\ Devices'
    BY <1>2, <1>4, NoReconcileType
       DEF OperatorInv, Copies, Devices, RunningHoldsDevices, Current
  <2> QED BY <1>2, <1>3, <1>4, <2>1, NoReconcileType, ReconcilerMoves
<1>5. CASE rec' # NoReconcile
  <2> DEFINE step == NextStep(cache[w])
  <2>1. rec' = [NoReconcile EXCEPT !.pc = step, !.w = w, !.copy = cache[w]]
    BY <1>5 DEF Reconcile
  <2>2. step \in {"idle", "delete", "terminal", "finalizer", "queue", "allocate", "poll"}
    BY <1>1, StepOfCopy
  <2>3. /\ rec' \in Reconciles /\ rec'.pc = step /\ rec'.w = w /\ rec'.copy = cache[w]
    <3> HIDE DEF step
    <3> QED BY <1>1, <2>1, <2>2, NoReconcileType DEF NoReconcile, Reconciles
  <2>4. Copies'
    <3>1. step \notin {"start", "run", "finish", "count", "release", "unfinalize"}
      BY <2>2
    <3> QED BY <1>1, <1>2, <2>3, <3>1, StepOfCopy DEF Copies
  <2>5. Devices'
    <3>1. rec'.pc \notin {"run", "count", "release", "unfinalize"}
      BY <2>2, <2>3
    <3> QED BY <1>2, <2>3, <3>1 DEF OperatorInv, Devices, RunningHoldsDevices
  <2> QED BY <1>2, <1>3, <2>3, <2>4, <2>5, ReconcilerMoves
<1> QED BY <1>4, <1>5

\* The reconcile is over without an update.
LEMMA ReconcileEnds ==
  ASSUME OperatorInv, rec' = NoReconcile, dirty' \subseteq Workloads, alloc' \subseteq alloc,
         \A x \in Workloads : obj[x].phase = "Running" /\ ~obj[x].deleting /\ x \in alloc => x \in alloc',
         UNCHANGED <<obj, watch, cache, notify, queued, scheduled, running, moving, cycle, run,
                     restarts>>
  PROVE  OperatorInv'
<1>1. alloc \subseteq Workloads /\ run \in [Workloads -> RunStatus]
  BY DEF OperatorInv, Types
<1>2. Copies' /\ Devices'
  BY <1>1, NoReconcileType DEF OperatorInv, Copies, Devices, RunningHoldsDevices, Current
<1> QED BY <1>1, <1>2, NoReconcileType, ReconcilerMoves

\* The reconcile is over with an update, which leaves the devices in order.
LEMMA ReconcileStores ==
  ASSUME OperatorInv, rec.pc # "idle", NEW o \in Object, Older(rec.copy, o), o.phase # "None",
         Current(rec.w, rec.copy), Store(rec.w, o), rec' = NoReconcile, dirty' = dirty,
         alloc' \subseteq Workloads, Devices',
         UNCHANGED <<cache, notify, queued, scheduled, running, moving, cycle, run, restarts>>
  PROVE  OperatorInv'
<1>1. PICK w \in Workloads : w = rec.w /\ obj[w] = rec.copy
  BY CopyIsOlder DEF Current
<1>2. /\ obj' \in [Workloads -> Object] /\ watch' \in Seq([w : Workloads, new : Object])
      /\ \A x \in Workloads : Older(obj[x], obj'[x])
      /\ History'
  BY <1>1, StoreKeepsHistory DEF OperatorInv
<1>3. Types'
  BY <1>2, NoReconcileType DEF OperatorInv, Types
<1>4. Victims'
  BY <1>2, StoreKeepsVictims DEF OperatorInv
<1>5. Copies'
  BY NoReconcileType DEF Copies
<1>6. Buckets'
  BY DEF OperatorInv, Buckets, BucketsDisjoint, Seen
<1> QED BY <1>2, <1>3, <1>4, <1>5, <1>6 DEF OperatorInv

\* An update that leaves the devices alone, or meets a conflict.
LEMMA UpdateKeeps ==
  ASSUME OperatorInv, rec.pc # "idle", NEW o \in Object, Older(rec.copy, o), o.phase # "None",
         o.phase # "Gone", o.phase = "Running" => rec.copy.phase = "Running", UpdateTo(o),
         UNCHANGED <<cache, notify, queued, scheduled, running, moving, cycle, alloc, run, restarts>>
  PROVE  OperatorInv'
<1>1. rec.w \in Workloads /\ dirty \subseteq Workloads /\ alloc \subseteq Workloads
  BY CopyIsOlder DEF OperatorInv, Types
<1>2. CASE Current(rec.w, rec.copy)
  <2>1. Store(rec.w, o) /\ rec' = NoReconcile /\ dirty' = dirty /\ obj[rec.w] = rec.copy
    BY <1>2 DEF UpdateTo, Done, Current
  <2>2. Devices'
    BY <1>1, <2>1, NoReconcileType, StoreKeepsDevices DEF OperatorInv
  <2> QED BY <1>1, <1>2, <2>1, <2>2, ReconcileStores
<1>3. CASE ~Current(rec.w, rec.copy)
  <2>1. UNCHANGED <<obj, watch>> /\ rec' = NoReconcile /\ dirty' \subseteq Workloads
    BY <1>1, <1>3 DEF UpdateTo, Requeue, api
  <2> QED BY <2>1, ReconcileEnds
<1> QED BY <1>2, <1>3

\* An update with which the workload's devices go.
LEMMA EndKeepsDevices ==
  ASSUME OperatorInv, rec.pc # "idle", NEW o \in Object, Older(rec.copy, o),
         o.phase = "Gone" => rec.copy.deleting, o.phase # "Running",
         Current(rec.w, rec.copy), Store(rec.w, o), rec' = NoReconcile, alloc' = alloc \ {rec.w},
         UNCHANGED <<cache, run, restarts>>
  PROVE  Devices'
<1>1. PICK w \in Workloads : w = rec.w
  BY CopyIsOlder
<1>2. obj'[w] = o /\ \A x \in Workloads : x # w => obj'[x] = obj[x]
  BY <1>1 DEF Store, OperatorInv, Types
<1>3. o.phase = "Gone" => cache[w].deleting
  BY <1>1 DEF OperatorInv, Copies, Older
<1>4. alloc \subseteq Workloads /\ Devices
  BY DEF OperatorInv, Types
<1>5. \A x \in alloc' : obj'[x].fin
  BY <1>1, <1>2, <1>4 DEF Devices
<1>6. RunningHoldsDevices'
  BY <1>1, <1>2, <1>4 DEF Devices, RunningHoldsDevices
<1> QED BY <1>1, <1>2, <1>3, <1>4, <1>5, <1>6, NoReconcileType DEF Devices

\* The reconciler's steps up to the update to Running.
LEMMA AdmissionKeeps ==
  ASSUME OperatorInv,
         \/ AddFinalizer \/ InitializeQueueStatus
         \/ executeAdmissionAllocate \/ executeAdmissionStart \/ executeAdmissionRunning
  PROVE  OperatorInv'
<1>1. rec.pc # "idle"
  BY DEF AddFinalizer, InitializeQueueStatus, executeAdmissionAllocate, executeAdmissionStart,
         executeAdmissionRunning
<1>2. PICK w \in Workloads, c \in Object :
        w = rec.w /\ c = rec.copy /\ obj[w] \in Object /\ Older(c, obj[w]) /\ Older(c, cache[w])
  BY <1>1, CopyIsOlder DEF OperatorInv, Copies
<1>3. /\ dirty \subseteq Workloads /\ alloc \subseteq Workloads /\ run \in [Workloads -> RunStatus]
      /\ rec \in Reconciles
  BY DEF OperatorInv, Types
<1>4. CASE AddFinalizer
  <2> DEFINE o == [c EXCEPT !.fin = TRUE]
  <2>1. o \in Object /\ Older(c, o) /\ o.phase = c.phase
    BY Successors
  <2>2. c.phase \in Phases
    BY <1>2, <1>4 DEF OperatorInv, Copies, AddFinalizer
  <2>3. o.phase # "None" /\ o.phase # "Gone"
    BY <2>1, <2>2 DEF Phases, Terminal
  <2>4. /\ UpdateTo(o)
        /\ UNCHANGED <<cache, notify, queued, scheduled, running, moving, cycle, alloc, run, restarts>>
    BY <1>2, <1>4 DEF AddFinalizer, sched, sim
  <2> HIDE DEF o
  <2> QED BY <1>1, <1>2, <2>1, <2>3, <2>4, UpdateKeeps
<1>5. CASE InitializeQueueStatus
  <2> DEFINE o == [c EXCEPT !.phase = "Queued"]
  <2>1. c.phase = "New"
    BY <1>2, <1>5 DEF OperatorInv, Copies, InitializeQueueStatus
  <2>2. Rank(c.phase) <= Rank("Queued")
    BY <2>1, RankOfPhase
  <2>3. o \in Object /\ Older(c, o) /\ o.phase = "Queued"
    BY <2>2, Successors DEF Phases
  <2>4. /\ UpdateTo(o)
        /\ UNCHANGED <<cache, notify, queued, scheduled, running, moving, cycle, alloc, run, restarts>>
    BY <1>2, <1>5 DEF InitializeQueueStatus, sched, sim
  <2> HIDE DEF o
  <2> QED BY <1>1, <1>2, <2>3, <2>4, UpdateKeeps
<1>6. CASE executeAdmissionAllocate
  <2>1. /\ alloc' = alloc \cup {w} /\ rec' = [rec EXCEPT !.pc = "start"]
        /\ UNCHANGED <<obj, watch, cache, notify, queued, scheduled, running, moving, cycle, restarts,
                       dirty, run>>
    BY <1>2, <1>6 DEF executeAdmissionAllocate, api, sched
  <2>2. /\ rec' \in Reconciles /\ rec'.pc = "start" /\ rec'.w = w /\ rec'.copy = c
    BY <1>2, <1>3, <2>1 DEF Reconciles
  <2>3. c.phase = "Scheduled" /\ c.fin /\ ~c.deleting
    BY <1>2, <1>6 DEF OperatorInv, Copies, executeAdmissionAllocate
  <2>4. Copies'
    BY <1>2, <2>1, <2>2, <2>3 DEF Copies
  <2>5. obj[w].fin /\ obj[w].phase # "Gone"
    BY <1>1, <1>2, <2>3 DEF OperatorInv, Devices, Older
  <2>6. Devices'
    BY <1>1, <1>2, <2>1, <2>2, <2>5 DEF OperatorInv, Devices, RunningHoldsDevices
  <2> QED BY <1>3, <2>1, <2>2, <2>4, <2>6, ReconcilerMoves
<1>7. CASE executeAdmissionStart /\ w \in alloc
  <2>1. /\ run' = [run EXCEPT ![w] = IF @ \in {"Running", "Ended"} THEN @ ELSE "Running"]
        /\ rec' = [rec EXCEPT !.pc = "run"]
        /\ UNCHANGED <<obj, watch, cache, notify, queued, scheduled, running, moving, cycle, restarts,
                       dirty, alloc>>
    BY <1>2, <1>7 DEF executeAdmissionStart, api, sched
  <2>2. /\ rec' \in Reconciles /\ rec'.pc = "run" /\ rec'.w = w /\ rec'.copy = c
    BY <1>2, <1>3, <2>1 DEF Reconciles
  <2>3. /\ run' \in [Workloads -> RunStatus] /\ run'[w] # "None"
        /\ \A x \in Workloads : run[x] # "None" => run'[x] # "None"
    BY <1>3, <2>1 DEF RunStatus
  <2>4. c.phase = "Scheduled" /\ c.fin /\ ~c.deleting
    BY <1>2, <1>7 DEF OperatorInv, Copies, executeAdmissionStart
  <2>5. Copies'
    BY <1>2, <2>1, <2>2, <2>4 DEF Copies
  <2>6. Devices'
    BY <1>1, <1>2, <1>7, <2>1, <2>2, <2>3 DEF OperatorInv, Devices, RunningHoldsDevices
  <2> QED BY <1>3, <2>1, <2>2, <2>3, <2>5, <2>6, ReconcilerMoves
<1>8. CASE executeAdmissionStart /\ w \notin alloc
  <2>1. /\ rec' = NoReconcile /\ dirty' = dirty \cup {w}
        /\ UNCHANGED <<obj, watch, cache, notify, queued, scheduled, running, moving, cycle, restarts,
                       alloc, run>>
    BY <1>2, <1>8 DEF executeAdmissionStart, Requeue, api, sched
  <2> QED BY <1>3, <2>1, ReconcileEnds
<1>9. CASE executeAdmissionRunning
  <2> DEFINE o == [c EXCEPT !.phase = "Running"]
  <2>1. c.phase = "Scheduled" /\ rec.pc = "run"
    BY <1>2, <1>9 DEF OperatorInv, Copies, executeAdmissionRunning
  <2>2. Rank(c.phase) <= Rank("Running")
    BY <2>1, RankOfPhase
  <2>3. o \in Object /\ Older(c, o) /\ o.phase = "Running" /\ o.fin = c.fin
    BY <2>2, Successors, ZenonT(30) DEF Phases
  <2>4. /\ UpdateTo(o)
        /\ UNCHANGED <<cache, notify, queued, scheduled, running, moving, cycle, alloc, run, restarts>>
    BY <1>2, <1>9 DEF executeAdmissionRunning, sched, sim
  <2> HIDE DEF o
  <2>5. CASE Current(w, c)
    <3>1. Store(w, o) /\ rec' = NoReconcile /\ dirty' = dirty /\ obj[w] = c
      BY <1>2, <2>4, <2>5 DEF UpdateTo, Done, Current
    <3>2. obj'[w] = o /\ \A x \in Workloads : x # w => obj'[x] = obj[x]
      BY <3>1 DEF Store, OperatorInv, Types
    <3>3. w \in alloc /\ run[w] # "None"
      BY <1>2, <2>1, <2>5 DEF OperatorInv, Devices
    <3>4. \A x \in alloc' : obj'[x].fin
      BY <1>3, <2>3, <2>4, <3>1, <3>2 DEF OperatorInv, Devices
    <3>5. RunningHoldsDevices'
      BY <2>4, <3>2, <3>3 DEF OperatorInv, Devices, RunningHoldsDevices
    <3>6. Devices'
      BY <2>3, <2>4, <3>1, <3>2, <3>4, <3>5, NoReconcileType DEF OperatorInv, Devices
    <3> QED BY <1>1, <1>2, <1>3, <2>3, <2>4, <2>5, <3>1, <3>6, ReconcileStores
  <2>6. CASE ~Current(w, c)
    <3>1. UNCHANGED <<obj, watch>> /\ rec' = NoReconcile /\ dirty' \subseteq Workloads
      BY <1>2, <1>3, <2>4, <2>6 DEF UpdateTo, Requeue, api
    <3> QED BY <2>4, <3>1, ReconcileEnds
  <2> QED BY <2>5, <2>6
<1> QED BY <1>4, <1>5, <1>6, <1>7, <1>8, <1>9

\* A success is annotated, or not; the devices are still to be released.
LEMMA CountKeeps ==
  ASSUME OperatorInv, rec.pc # "idle", NEW d \in Object, d.phase \in Terminal,
         5 <= Rank(obj[rec.w].phase), Count(d)
  PROVE  OperatorInv'
<1>1. PICK w \in Workloads, c \in Object :
        w = rec.w /\ c = rec.copy /\ obj[w] \in Object /\ Older(c, obj[w]) /\ Older(c, cache[w])
  BY CopyIsOlder DEF OperatorInv, Copies
<1>2. /\ dirty \subseteq Workloads /\ alloc \subseteq Workloads /\ run \in [Workloads -> RunStatus]
      /\ rec \in Reconciles
  BY DEF OperatorInv, Types
<1> DEFINE o == [d EXCEPT !.counted = TRUE]
<1>3. o \in Object /\ Older(d, o) /\ o.phase = d.phase
  BY Successors
<1>4. /\ rec' = [rec EXCEPT !.pc = "release"]
      /\ UNCHANGED <<cache, notify, queued, scheduled, running, moving, cycle, alloc, run, restarts,
                     dirty>>
      /\ (Current(w, d) /\ Store(w, o)) \/ UNCHANGED <<obj, watch>>
  BY <1>1 DEF Count, api, sched, sim
<1>5. o.phase # "None" /\ o.phase # "Gone" /\ o.phase # "Running"
  BY <1>3 DEF Terminal
<1> HIDE DEF o
<1>6. /\ rec' \in Reconciles /\ rec'.pc = "release" /\ rec'.w = w /\ rec'.copy = c
  BY <1>1, <1>2, <1>4 DEF Reconciles
<1>7. Copies'
  BY <1>1, <1>4, <1>6 DEF Copies
<1>8. CASE Current(w, d) /\ Store(w, o)
  <2>1. Older(obj[w], o) /\ obj[w].phase = d.phase
    BY <1>3, <1>8 DEF Current
  <2>2. /\ obj' \in [Workloads -> Object] /\ watch' \in Seq([w : Workloads, new : Object])
        /\ obj'[w] = o /\ \A x \in Workloads : x # w => obj'[x] = obj[x]
        /\ \A x \in Workloads : Older(obj[x], obj'[x])
        /\ History'
    BY <1>3, <1>4, <1>5, <1>8, <2>1, StoreKeepsHistory DEF OperatorInv
  <2>3. Types'
    BY <1>2, <1>4, <1>6, <2>2 DEF OperatorInv, Types
  <2>4. Victims'
    BY <1>4, <2>2, StoreKeepsVictims DEF OperatorInv
  <2>5. Buckets'
    BY <1>4 DEF OperatorInv, Buckets, BucketsDisjoint, Seen
  <2>6. Devices'
    <3>1. \A x \in alloc' : obj'[x].fin
      BY <1>2, <1>4, <2>2 DEF OperatorInv, Devices, Older
    <3>2. ASSUME NEW x \in Workloads, obj'[x].phase = "Gone", obj'[x].fin
          PROVE  /\ cache'[x].deleting /\ x \notin alloc'
                 /\ rec'.pc # "idle" /\ rec'.w = x => rec'.copy.deleting
      BY <1>4, <1>5, <1>6, <2>2, <3>2 DEF OperatorInv, Devices
    <3>3. RunningHoldsDevices'
      BY <1>4, <1>5, <2>2 DEF OperatorInv, Devices, RunningHoldsDevices
    <3>4. 5 <= Rank(obj'[w].phase)
      BY <1>1, <1>3, <2>1, <2>2
    <3> QED BY <1>6, <3>1, <3>2, <3>3, <3>4 DEF Devices
  <2> QED BY <1>7, <2>2, <2>3, <2>4, <2>5, <2>6 DEF OperatorInv
<1>9. CASE UNCHANGED <<obj, watch>>
  <2>1. Devices'
    BY <1>1, <1>4, <1>6, <1>9 DEF OperatorInv, Devices, RunningHoldsDevices
  <2> QED BY <1>2, <1>4, <1>6, <1>7, <1>9, <2>1, ReconcilerMoves
<1> QED BY <1>4, <1>8, <1>9

\* The reconciler's steps from the end of a run on.
LEMMA CompletionKeeps ==
  ASSUME OperatorInv,
         \/ pollRunningStatus \/ pollRunningStatusFinish \/ pollRunningStatusCount
         \/ ReconcileTerminal \/ ReleaseTerminal \/ ReconcileDelete \/ RemoveFinalizer
  PROVE  OperatorInv'
<1>1. rec.pc # "idle"
  BY DEF pollRunningStatus, pollRunningStatusFinish, pollRunningStatusCount, ReconcileTerminal,
         ReleaseTerminal, ReconcileDelete, RemoveFinalizer
<1>2. PICK w \in Workloads, c \in Object :
        w = rec.w /\ c = rec.copy /\ obj[w] \in Object /\ Older(c, obj[w]) /\ Older(c, cache[w])
  BY <1>1, CopyIsOlder DEF OperatorInv, Copies
<1>3. /\ dirty \subseteq Workloads /\ alloc \subseteq Workloads /\ run \in [Workloads -> RunStatus]
      /\ rec \in Reconciles
  BY DEF OperatorInv, Types
<1>4. CASE pollRunningStatus
  <2> DEFINE status == IF run[w] = "Ended" THEN "Succeeded" ELSE run[w]
  <2>1. /\ run' = [run EXCEPT ![w] = status] /\ rec' = [rec EXCEPT !.pc = "finish", !.target = status]
        /\ UNCHANGED <<obj, watch, cache, notify, queued, scheduled, running, moving, cycle, restarts,
                       dirty, alloc>>
    BY <1>2, <1>4 DEF pollRunningStatus, api, sched
  <2>2. run[w] \notin {"None", "Running"}
    BY <1>2, <1>4 DEF pollRunningStatus, GetsFurther
  <2>3. status \in Terminal /\ status \in RunStatus /\ status # "None"
    BY <1>3, <2>2 DEF RunStatus, Terminal
  <2> HIDE DEF status
  <2>4. /\ rec' \in Reconciles /\ rec'.pc = "finish" /\ rec'.w = w /\ rec'.copy = c
        /\ rec'.target = status
    BY <1>2, <1>3, <2>1, <2>3 DEF Reconciles
  <2>5. /\ run' \in [Workloads -> RunStatus]
        /\ \A x \in Workloads : run[x] # "None" => run'[x] # "None"
    BY <1>3, <2>1, <2>3
  <2>6. c.phase = "Running"
    BY <1>2, <1>4 DEF OperatorInv, Copies, pollRunningStatus
  <2>7. Copies'
    BY <1>2, <2>1, <2>3, <2>4, <2>6 DEF Copies
  <2>8. Devices'
    BY <1>1, <1>2, <2>1, <2>4, <2>5 DEF OperatorInv, Devices, RunningHoldsDevices
  <2> QED BY <1>3, <2>1, <2>4, <2>5, <2>7, <2>8, ReconcilerMoves
<1>5. CASE pollRunningStatusFinish /\ Current(w, c)
  <2> DEFINE o == [c EXCEPT !.phase = rec.target]
  <2>1. c.phase = "Running" /\ rec.target \in Terminal /\ obj[w] = c
    BY <1>2, <1>5 DEF OperatorInv, Copies, pollRunningStatusFinish, Current
  <2>2. Rank(c.phase) <= Rank(rec.target) /\ 5 <= Rank(rec.target)
    BY <2>1, RankOfPhase DEF Terminal
  <2>3. o \in Object /\ Older(c, o) /\ o.phase = rec.target
    BY <2>1, <2>2, Successors, ZenonT(30) DEF Phases
  <2>4. /\ Store(w, o) /\ rec' = [rec EXCEPT !.pc = "count"]
        /\ UNCHANGED <<cache, notify, queued, scheduled, running, moving, cycle, alloc, run, restarts,
                       dirty>>
    BY <1>2, <1>5 DEF pollRunningStatusFinish, StatusOnly, sched, sim
  <2>5. o.phase # "None" /\ o.phase # "Gone" /\ o.phase # "Running"
    BY <2>1, <2>3 DEF Terminal
  <2> HIDE DEF o
  <2>6. /\ rec' \in Reconciles /\ rec'.pc = "count" /\ rec'.w = w /\ rec'.copy = c
        /\ rec'.target = rec.target
    BY <1>2, <1>3, <2>4 DEF Reconciles
  <2>7. /\ obj' \in [Workloads -> Object] /\ watch' \in Seq([w : Workloads, new : Object])
        /\ obj'[w] = o /\ \A x \in Workloads : x # w => obj'[x] = obj[x]
        /\ \A x \in Workloads : Older(obj[x], obj'[x])
        /\ History'
    BY <2>1, <2>3, <2>4, <2>5, StoreKeepsHistory DEF OperatorInv
  <2>8. Types'
    BY <1>3, <2>4, <2>6, <2>7 DEF OperatorInv, Types
  <2>9. Victims' /\ Buckets'
    <3>1. Victims'
      BY <2>4, <2>7, StoreKeepsVictims DEF OperatorInv
    <3> QED BY <2>4, <3>1 DEF OperatorInv, Buckets, BucketsDisjoint, Seen
  <2>10. Copies'
    BY <1>2, <2>1, <2>4, <2>6 DEF Copies
  <2>11. Devices'
    <3>1. \A x \in alloc' : obj'[x].fin
      BY <1>3, <2>4, <2>7 DEF OperatorInv, Devices, Older
    <3>2. ASSUME NEW x \in Workloads, obj'[x].phase = "Gone", obj'[x].fin
          PROVE  /\ cache'[x].deleting /\ x \notin alloc'
                 /\ rec'.pc # "idle" /\ rec'.w = x => rec'.copy.deleting
      BY <2>4, <2>5, <2>6, <2>7, <3>2 DEF OperatorInv, Devices
    <3>3. RunningHoldsDevices'
      BY <2>4, <2>5, <2>7 DEF OperatorInv, Devices, RunningHoldsDevices
    <3>4. 5 <= Rank(obj'[w].phase)
      BY <2>2, <2>3, <2>7
    <3> QED BY <2>6, <3>1, <3>2, <3>3, <3>4 DEF Devices
  <2> QED BY <2>7, <2>8, <2>9, <2>10, <2>11 DEF OperatorInv
<1>8. CASE pollRunningStatusFinish /\ ~Current(w, c)
  <2>1. /\ rec' = NoReconcile /\ dirty' \subseteq Workloads
        /\ UNCHANGED <<obj, watch, cache, notify, queued, scheduled, running, moving, cycle, alloc, run,
                       restarts>>
    BY <1>2, <1>3, <1>8 DEF pollRunningStatusFinish, Requeue, api, sched, sim
  <2> QED BY <2>1, ReconcileEnds
<1>9. CASE pollRunningStatusCount
  <2>1. c.phase = "Running" /\ rec.target \in Terminal /\ 5 <= Rank(obj[w].phase)
    BY <1>2, <1>9 DEF OperatorInv, Copies, Devices, pollRunningStatusCount
  <2>2. Rank(c.phase) <= Rank(rec.target)
    BY <2>1, RankOfPhase DEF Terminal
  <2>3. PICK d : d = [c EXCEPT !.phase = rec.target]
    OBVIOUS
  <2>4. d \in Object /\ Older(c, d) /\ d.phase = rec.target
    BY <2>1, <2>2, <2>3, Successors DEF Phases
  <2>5. Count(d)
    BY <1>2, <1>9, <2>3 DEF pollRunningStatusCount, StatusOnly
  <2> QED BY <1>1, <1>2, <2>1, <2>4, <2>5, CountKeeps
<1>6. CASE ReconcileTerminal
  <2>1. c.phase \in Terminal
    BY <1>2, <1>6 DEF OperatorInv, Copies, ReconcileTerminal
  <2>2. 5 <= Rank(c.phase) /\ Rank(c.phase) \in 0..7 /\ Rank(obj[w].phase) \in 0..7
    BY <1>2, <2>1, RankOfPhase, RankOfObject DEF Terminal, Object
  <2>3. 5 <= Rank(obj[w].phase)
    BY <1>2, <2>2 DEF Older
  <2>4. Count(c)
    BY <1>2, <1>6 DEF ReconcileTerminal
  <2> QED BY <1>1, <1>2, <2>1, <2>3, <2>4, CountKeeps
<1>10. CASE ReleaseTerminal
  <2>1. 5 <= Rank(obj[w].phase)
    BY <1>2, <1>10 DEF OperatorInv, Devices, ReleaseTerminal
  <2>2. obj[w].phase # "Running"
    BY <2>1, RankOfPhase
  <2>3. /\ rec' = NoReconcile /\ dirty' = dirty /\ alloc' = alloc \ {w}
        /\ UNCHANGED <<obj, watch, cache, notify, queued, scheduled, running, moving, cycle, run,
                       restarts>>
    BY <1>2, <1>10 DEF ReleaseTerminal, Done, api, sched
  <2> QED BY <1>2, <1>3, <2>2, <2>3, ReconcileEnds
<1>7. CASE ReconcileDelete
  <2>1. c.deleting /\ obj[w].deleting /\ c.phase \in Phases
    BY <1>2, <1>7 DEF OperatorInv, Copies, ReconcileDelete, Older
  <2>2. /\ rec' = [rec EXCEPT !.pc = "unfinalize"] /\ alloc' = alloc \ {w}
        /\ UNCHANGED <<obj, watch, cache, notify, queued, scheduled, running, moving, cycle, run,
                       restarts, dirty>>
    BY <1>2, <1>7 DEF ReconcileDelete, api, sched
  <2>3. /\ rec' \in Reconciles /\ rec'.pc = "unfinalize" /\ rec'.w = w /\ rec'.copy = c
    BY <1>2, <1>3, <2>2 DEF Reconciles
  <2>4. Copies'
    BY <1>2, <2>1, <2>2, <2>3 DEF Copies
  <2>5. Devices'
    BY <1>1, <1>2, <1>3, <2>1, <2>2, <2>3 DEF OperatorInv, Devices, RunningHoldsDevices
  <2> QED BY <1>3, <2>2, <2>3, <2>4, <2>5, ReconcilerMoves
<1>11. CASE RemoveFinalizer
  <2> DEFINE o == [c EXCEPT !.phase = "Gone"]
  <2>1. c.deleting /\ obj[w].deleting /\ w \notin alloc
    BY <1>2, <1>11 DEF OperatorInv, Copies, Devices, RemoveFinalizer, Older
  <2>2. Rank(c.phase) <= Rank("Gone")
    BY RankOfPhase, RankOfObject DEF Object
  <2>3. o \in Object /\ Older(c, o) /\ o.phase = "Gone"
    BY <2>2, Successors DEF Absent
  <2>4. /\ UpdateTo(o) /\ alloc' = alloc
        /\ UNCHANGED <<cache, notify, queued, scheduled, running, moving, cycle, run, restarts>>
    BY <1>2, <1>11 DEF RemoveFinalizer, sched, sim
  <2>7. alloc' = alloc \ {w}
    BY <2>1, <2>4
  <2> HIDE DEF o
  <2>5. CASE Current(w, c)
    <3>1. Store(w, o) /\ rec' = NoReconcile /\ dirty' = dirty
      BY <1>2, <2>4, <2>5 DEF UpdateTo, Done
    <3>2. Devices'
      BY <1>1, <1>2, <2>1, <2>3, <2>4, <2>5, <2>7, <3>1, EndKeepsDevices
    <3> QED BY <1>1, <1>2, <1>3, <2>3, <2>4, <2>5, <3>1, <3>2, ReconcileStores
  <2>6. CASE ~Current(w, c)
    <3>1. UNCHANGED <<obj, watch>> /\ rec' = NoReconcile /\ dirty' \subseteq Workloads
      BY <1>2, <1>3, <2>4, <2>6 DEF UpdateTo, Requeue, api
    <3> QED BY <2>1, <2>4, <3>1, ReconcileEnds
  <2> QED BY <2>5, <2>6
<1> QED BY <1>2, <1>4, <1>5, <1>6, <1>7, <1>8, <1>9, <1>10, <1>11

\* A run's time is over.
LEMMA RunEndsKeeps == ASSUME OperatorInv, NEW w \in Workloads, RunEnds(w) PROVE OperatorInv'
<1>1. /\ run' = [run EXCEPT ![w] = "Ended"]
      /\ UNCHANGED <<obj, watch, cache, notify, queued, scheduled, running, moving, cycle, restarts,
                     dirty, rec, alloc>>
  BY DEF RunEnds, api, sched
<1>2. /\ dirty \subseteq Workloads /\ alloc \subseteq Workloads /\ run \in [Workloads -> RunStatus]
      /\ rec \in Reconciles
  BY DEF OperatorInv, Types
<1>3. /\ run' \in [Workloads -> RunStatus]
      /\ \A x \in Workloads : run[x] # "None" => run'[x] # "None"
  BY <1>1, <1>2 DEF RunStatus
<1>4. Copies'
  BY <1>1 DEF OperatorInv, Copies
<1>5. Devices'
  <2>1. rec.pc = "run" => rec.w \in Workloads
    BY DEF OperatorInv, Copies
  <2> QED BY <1>1, <1>3, <2>1 DEF OperatorInv, Devices, RunningHoldsDevices, Current
<1> QED BY <1>1, <1>2, <1>3, <1>4, <1>5, ReconcilerMoves

-----------------------------------------------------------------------------
(* Restarts, and the whole. *)

\* After a restart everything is read from what is stored.
LEMMA RestartKeeps == ASSUME OperatorInv, Restart PROVE OperatorInv'
<1> DEFINE N == [w : Workloads, old : Phases \cup Absent, new : Object]
           present == {w \in Workloads : obj[w].phase \in Phases}
<1>1. /\ obj \in [Workloads -> Object] /\ restarts \in Nat
      /\ \A w \in Workloads : Older(cache[w], obj[w])
      /\ \A w \in Workloads : obj[w].phase = "None" => obj[w] = NoObject
  BY DEF OperatorInv, Types, History
<1>2. /\ cache' = obj /\ obj' = obj /\ watch' = <<>> /\ dirty' = present
      /\ queued' = {} /\ scheduled' = {} /\ running' = {} /\ moving' = None
      /\ cycle' = Idle /\ rec' = NoReconcile /\ alloc' = {} /\ run' = [w \in Workloads |-> "None"]
      /\ restarts' = restarts + 1
  BY DEF Restart
<1>3. PICK s \in Orders(present) :
        notify' = [i \in DOMAIN s |-> [w |-> s[i], old |-> "None", new |-> obj[s[i]]]]
  BY DEF Restart
<1>4. PICK n \in Nat : DOMAIN s = 1..n
  <2>1. IsFiniteSet(present)
    BY OperatorAssumption, FS_Subset
  <2>2. Cardinality(present) \in Nat
    BY <2>1, FS_CardinalityType
  <2>3. DOMAIN s = 1..Cardinality(present)
    BY DEF Orders, Injection
  <2> QED BY <2>2, <2>3
<1>5. /\ notify' \in Seq(N)
      /\ \A i \in 1..Len(notify') : notify'[i].w \in Workloads /\ notify'[i].new = obj[notify'[i].w]
  <2>1. \A i \in 1..n : s[i] \in Workloads
    BY <1>4 DEF Orders, Injection
  <2>2. \A i \in 1..n : /\ notify'[i] \in N
                        /\ notify'[i].w \in Workloads /\ notify'[i].new = obj[notify'[i].w]
    BY <1>1, <1>3, <1>4, <2>1 DEF Absent
  <2> HIDE DEF N
  <2>3. notify' \in [1..n -> N]
    BY <1>3, <1>4, <2>2
  <2>4. notify' \in Seq(N) /\ Len(notify') = n
    BY <1>4, <2>3
  <2> QED BY <2>2, <2>4
<1>6. Types'
  <2>1. Idle \in Cycles
    BY DEF Idle, Cycles
  <2>2. run' \in [Workloads -> RunStatus]
    BY <1>2 DEF RunStatus
  <2>3. notify' \in Seq([w : Workloads, old : Phases \cup Absent, new : Object])
    BY <1>5
  <2> HIDE DEF N
  <2> QED BY <1>1, <1>2, <2>1, <2>2, <2>3, NoReconcileType DEF Types
<1>7. History'
  <2>1. \A w \in Workloads : Older(obj[w], obj[w])
    BY <1>1, OlderOrder
  <2>2. \A i, j \in 1..Len(notify') : notify'[i].w = notify'[j].w => Older(notify'[i].new, notify'[j].new)
    BY <1>5, <2>1
  <2>3. 1..Len(watch') = {}
    BY <1>2
  <2> QED BY <1>1, <1>2, <1>5, <2>1, <2>2, <2>3 DEF History, InOrder
<1>8. Buckets' /\ Victims' /\ Copies'
  BY <1>2, NoReconcileType DEF Buckets, BucketsDisjoint, Victims, Copies, Idle
<1>9. Devices'
  <2>1. \A w \in Workloads : obj[w].phase = "Gone" /\ obj[w].fin => obj[w].deleting
    BY <1>1 DEF OperatorInv, Devices, Older
  <2>2. restarts' # 0
    BY <1>1, <1>2
  <2> QED BY <1>2, <2>1, <2>2, NoReconcileType DEF Devices, RunningHoldsDevices
<1> QED BY <1>6, <1>7, <1>8, <1>9 DEF OperatorInv

\* The operator starts with nothing stored.
LEMMA OperatorInvInit == Init => OperatorInv
<1> SUFFICES ASSUME Init PROVE OperatorInv
  OBVIOUS
<1>1. /\ obj = [w \in Workloads |-> NoObject] /\ cache = obj /\ watch = <<>> /\ notify = <<>>
      /\ queued = {} /\ scheduled = {} /\ running = {} /\ moving = None
      /\ cycle = Idle /\ rec = NoReconcile /\ dirty = {} /\ alloc = {}
      /\ run = [w \in Workloads |-> "None"] /\ restarts = 0
  BY DEF Init
<1>2. NoObject \in Object /\ NoObject.phase = "None"
  BY DEF NoObject, Object, Absent
<1>3. Idle \in Cycles /\ Idle.pc = "idle" /\ Idle.victims = {}
  BY DEF Idle, Cycles
<1>4. 1..Len(watch) = {} /\ 1..Len(notify) = {}
  BY <1>1
<1>5. Types
  <2>1. obj \in [Workloads -> Object] /\ run \in [Workloads -> RunStatus]
    BY <1>1, <1>2 DEF RunStatus
  <2>2. restarts \in Nat /\ watch \in Seq([w : Workloads, new : Object])
        /\ notify \in Seq([w : Workloads, old : Phases \cup Absent, new : Object])
    BY <1>1
  <2> QED BY <1>1, <1>3, <2>1, <2>2, NoReconcileType DEF Types
<1>6. History
  <2>1. \A w \in Workloads : cache[w] = NoObject /\ obj[w] = NoObject
    BY <1>1
  <2>2. Older(NoObject, NoObject)
    BY <1>2, OlderOrder
  <2> QED BY <1>4, <2>1, <2>2 DEF History, InOrder
<1>7. Buckets /\ Victims /\ Copies
  BY <1>1, <1>3, NoReconcileType DEF Buckets, BucketsDisjoint, Victims, Copies
<1>8. Devices
  <2>1. \A w \in Workloads : obj[w].phase = "None"
    BY <1>1, <1>2
  <2> QED BY <1>1, <2>1, NoReconcileType DEF Devices, RunningHoldsDevices
<1> QED BY <1>5, <1>6, <1>7, <1>8 DEF OperatorInv

\* Every step keeps the invariant.
LEMMA OperatorInvNext == OperatorInv /\ [Next]_vars => OperatorInv'
<1> SUFFICES ASSUME OperatorInv, [Next]_vars PROVE OperatorInv'
  OBVIOUS
<1>1. CASE \E w \in Workloads : Create(w) \/ Delete(w)
  BY <1>1, UserKeeps
<1>2. CASE WatchEvent \/ HandleEvent \/ Restart
  BY <1>2, WatchKeeps, HandleKeeps, RestartKeeps
<1>3. CASE FinishMoving \/ handlePoolEvent \/ ReconcilePool \/ UNCHANGED vars
  BY <1>3, QuietKeeps
<1>4. CASE Cycle
  BY <1>4, DecideKeeps, MarkKeeps, FreeKeeps, PatchKeeps DEF Cycle
<1>5. CASE \E w \in Workloads : Reconcile(w) \/ RunEnds(w)
  BY <1>5, ReconcileKeeps, RunEndsKeeps
<1>6. CASE ReconcileStep
  BY <1>6, AdmissionKeeps, CompletionKeeps DEF ReconcileStep
<1> QED BY <1>1, <1>2, <1>3, <1>4, <1>5, <1>6 DEF Next, Progress

\* The invariant holds throughout.
LEMMA OperatorInvHolds == Spec => []OperatorInv
BY OperatorInvInit, OperatorInvNext, PTL DEF Spec

\* A workload is in one bucket of the scheduler at most, however many versions
\* and events are on their way (scheduler_loop.go:58-124).
THEOREM OneBucket == Spec => []BucketsDisjoint
<1>1. OperatorInv => BucketsDisjoint
  BY DEF OperatorInv, Buckets
<1> QED BY <1>1, OperatorInvHolds, PTL

\* As long as the process does not restart, a workload that is stored as Running
\* holds its devices and has a run, although the scheduler and the reconciler
\* work on old copies (scheduler_loop.go:403-443, gpuworkload_controller.go).
THEOREM RunningHasDevices == Spec => []RunningHoldsDevices
<1>1. OperatorInv => RunningHoldsDevices
  BY DEF OperatorInv, Devices
<1> QED BY <1>1, OperatorInvHolds, PTL

\* A workload that is gone holds no devices, restarts or not
\* (gpuworkload_controller.go).
THEOREM GoneWithoutDevices == Spec => []GoneHoldsNoDevices
<1>1. OperatorInv => GoneHoldsNoDevices
  BY DEF OperatorInv, Devices, GoneHoldsNoDevices
<1> QED BY <1>1, OperatorInvHolds, PTL

-----------------------------------------------------------------------------
(* The stored phase. *)

\* The lifecycle allows q after p, or the phase stays.
Follows(p, q) == q = p \/ <<p, q>> \in Lifecycle

\* The cycle may mark w.
Marks(w, q) == cycle.pc = "mark" /\ w \in cycle.victims /\ q = "Preempted"

\* One workload gets a version that follows or marks the stored one, or none does.
OneForward ==
  \/ obj' = obj
  \/ \E w \in Workloads : \E o : /\ obj' = [obj EXCEPT ![w] = o]
                                 /\ Follows(obj[w].phase, o.phase) \/ Marks(w, o.phase)

\* An update of the reconciler moves the phase of its copy, which is the stored
\* one or the update is refused.
LEMMA UpdateForward ==
  ASSUME OperatorInv, rec.pc # "idle", NEW o, Follows(rec.copy.phase, o.phase), UpdateTo(o)
  PROVE  OneForward
<1>1. rec.w \in Workloads
  BY CopyIsOlder
<1> QED BY <1>1 DEF UpdateTo, Store, Current, OneForward, api

\* The annotation of a success leaves the phase as it is.
LEMMA CountForward ==
  ASSUME OperatorInv, rec.pc # "idle", NEW d \in Object, Count(d) PROVE OneForward
<1> DEFINE o == [d EXCEPT !.counted = TRUE]
<1>1. rec.w \in Workloads
  BY CopyIsOlder
<1>2. o.phase = d.phase
  BY Successors
<1>3. (Current(rec.w, d) /\ Store(rec.w, o)) \/ obj' = obj
  BY DEF Count, api
<1> HIDE DEF o
<1>4. obj' = obj \/ (obj' = [obj EXCEPT ![rec.w] = o] /\ obj[rec.w] = d)
  BY <1>3 DEF Store, Current
<1>5. Follows(d.phase, o.phase)
  BY <1>2 DEF Follows
<1> QED BY <1>1, <1>4, <1>5 DEF OneForward

\* What users and the cycle store.
LEMMA CycleForward ==
  ASSUME OperatorInv, NEW w \in Workloads,
         Create(w) \/ Delete(w) \/ MarkVictim(w) \/ patchWorkloadAdmittedAndScheduled
  PROVE  OneForward
<1>1. /\ obj \in [Workloads -> Object] /\ cache \in [Workloads -> Object]
      /\ \A x \in Workloads : obj[x].phase \in Phases \cup Absent
  BY DEF OperatorInv, Types, Object
<1>2. CASE Create(w)
  <2> DEFINE o == [NoObject EXCEPT !.phase = "New"]
  <2>1. obj' = [obj EXCEPT ![w] = o] /\ obj[w].phase = "None" /\ o.phase = "New"
    BY <1>2 DEF Create, Store, NoObject
  <2>2. Follows(obj[w].phase, o.phase)
    BY <2>1 DEF Follows, Lifecycle
  <2> QED BY <2>1, <2>2 DEF OneForward
<1>3. CASE Delete(w)
  <2> DEFINE o == IF obj[w].fin THEN [obj[w] EXCEPT !.deleting = TRUE] ELSE [obj[w] EXCEPT !.phase = "Gone"]
  <2>1. obj' = [obj EXCEPT ![w] = o]
    BY <1>3 DEF Delete, Store
  <2>2. obj[w].phase \in Phases /\ (o.phase = obj[w].phase \/ o.phase = "Gone")
    BY <1>1, <1>3, Successors DEF Delete, Absent
  <2>3. Follows(obj[w].phase, o.phase)
    BY <2>2 DEF Follows, Lifecycle
  <2> QED BY <2>1, <2>3 DEF OneForward
<1>4. CASE MarkVictim(w)
  <2> DEFINE o == [cache[w] EXCEPT !.phase = "Preempted"]
  <2>1. \/ obj' = obj
        \/ obj' = [obj EXCEPT ![w] = o] /\ obj[w] = cache[w] /\ cache[w].phase \in Phases
    BY <1>4 DEF MarkVictim, GiveUp, Store, Current, api
  <2>2. o.phase = "Preempted"
    BY <1>1, Successors DEF Phases, Terminal
  <2>3. Marks(w, o.phase)
    BY <1>4, <2>2 DEF MarkVictim, Marks
  <2> QED BY <2>1, <2>3 DEF OneForward
<1>5. CASE patchWorkloadAdmittedAndScheduled
  <2>1. PICK x \in Workloads : x = cycle.w
    BY <1>5 DEF patchWorkloadAdmittedAndScheduled, OperatorInv, Victims
  <2> DEFINE o == [cache[x] EXCEPT !.phase = "Scheduled"]
  <2>2. \/ obj' = obj
        \/ obj' = [obj EXCEPT ![x] = o] /\ obj[x] = cache[x] /\ cache[x].phase = "Queued"
    BY <1>5, <2>1 DEF patchWorkloadAdmittedAndScheduled, GiveUp, Store, Current, api
  <2>3. o.phase = "Scheduled"
    BY <1>1, Successors DEF Phases
  <2>4. cache[x].phase = "Queued" => Follows(cache[x].phase, o.phase)
    BY <2>3 DEF Follows, Lifecycle
  <2> QED BY <2>2, <2>4 DEF OneForward
<1> QED BY <1>2, <1>3, <1>4, <1>5

\* What the reconciler stores.
LEMMA ReconcileForward == ASSUME OperatorInv, ReconcileStep PROVE OneForward
<1>1. rec.pc # "idle"
  BY DEF ReconcileStep, AddFinalizer, InitializeQueueStatus, executeAdmissionAllocate,
         executeAdmissionStart, executeAdmissionRunning, pollRunningStatus,
         pollRunningStatusFinish, pollRunningStatusCount, ReconcileTerminal, ReleaseTerminal,
         ReconcileDelete, RemoveFinalizer
<1>2. /\ rec.copy \in Object /\ rec.copy.phase \in Phases \cup Absent /\ rec.w \in Workloads
  BY <1>1, CopyIsOlder DEF Object
<1>4. CASE AddFinalizer
  <2>1. [rec.copy EXCEPT !.fin = TRUE].phase = rec.copy.phase
    BY <1>2, Successors
  <2>2. Follows(rec.copy.phase, [rec.copy EXCEPT !.fin = TRUE].phase)
    BY <2>1 DEF Follows
  <2> QED BY <1>1, <1>4, <2>2, UpdateForward DEF AddFinalizer
<1>5. CASE InitializeQueueStatus
  <2>1. [rec.copy EXCEPT !.phase = "Queued"].phase = "Queued"
    BY <1>2, Successors DEF Phases
  <2>2. rec.copy.phase = "New"
    BY <1>5 DEF InitializeQueueStatus, OperatorInv, Copies
  <2>3. Follows(rec.copy.phase, [rec.copy EXCEPT !.phase = "Queued"].phase)
    BY <2>1, <2>2 DEF Follows, Lifecycle
  <2> QED BY <1>1, <1>5, <2>3, UpdateForward DEF InitializeQueueStatus
<1>6. CASE executeAdmissionRunning
  <2>1. [rec.copy EXCEPT !.phase = "Running"].phase = "Running"
    BY <1>2, Successors DEF Phases
  <2>2. rec.copy.phase = "Scheduled"
    BY <1>6 DEF executeAdmissionRunning, OperatorInv, Copies
  <2>3. Follows(rec.copy.phase, [rec.copy EXCEPT !.phase = "Running"].phase)
    BY <2>1, <2>2 DEF Follows, Lifecycle
  <2> QED BY <1>1, <1>6, <2>3, UpdateForward DEF executeAdmissionRunning
<1>7. CASE pollRunningStatusFinish
  <2>1. rec.copy.phase = "Running" /\ rec.target \in Terminal
    BY <1>7 DEF pollRunningStatusFinish, OperatorInv, Copies
  <2>2. StatusOnly(rec.copy, rec.target).phase = rec.target
    BY <1>2, <2>1, Successors DEF Phases, StatusOnly
  <2>3. Follows(rec.copy.phase, rec.target)
    BY <2>1 DEF Terminal, Follows, Lifecycle
  <2>4. \/ obj' = obj
        \/ /\ obj' = [obj EXCEPT ![rec.w] = StatusOnly(rec.copy, rec.target)]
           /\ obj[rec.w] = rec.copy
    BY <1>7 DEF pollRunningStatusFinish, Store, Current, api
  <2> QED BY <1>2, <2>2, <2>3, <2>4 DEF OneForward
<1>11. CASE pollRunningStatusCount
  <2>1. PICK d : d = StatusOnly(rec.copy, rec.target)
    OBVIOUS
  <2>2. rec.target \in Terminal
    BY <1>11 DEF pollRunningStatusCount, OperatorInv, Copies
  <2>3. d \in Object
    BY <1>2, <2>1, <2>2, Successors DEF Phases, StatusOnly
  <2> QED BY <1>1, <1>11, <2>1, <2>3, CountForward DEF pollRunningStatusCount
<1>8. CASE ReconcileTerminal
  BY <1>1, <1>2, <1>8, CountForward DEF ReconcileTerminal
<1>9. CASE RemoveFinalizer
  <2>3. rec.copy.phase \in Phases
    BY <1>9 DEF RemoveFinalizer, OperatorInv, Copies
  <2>1. [rec.copy EXCEPT !.phase = "Gone"].phase = "Gone"
    BY <1>2, Successors DEF Absent
  <2>2. Follows(rec.copy.phase, [rec.copy EXCEPT !.phase = "Gone"].phase)
    BY <2>1, <2>3 DEF Follows, Lifecycle
  <2> QED BY <1>1, <1>9, <2>2, UpdateForward DEF RemoveFinalizer
<1>10. CASE \/ executeAdmissionAllocate \/ executeAdmissionStart \/ pollRunningStatus
            \/ ReleaseTerminal \/ ReconcileDelete
  BY <1>10 DEF executeAdmissionAllocate, executeAdmissionStart, pollRunningStatus, ReleaseTerminal,
               ReconcileDelete, OneForward, api
<1> QED BY <1>4, <1>5, <1>6, <1>7, <1>8, <1>9, <1>10, <1>11 DEF ReconcileStep

\* No step of the operator or of a user leaves the lifecycle, but for the mark of a
\* victim (scheduler_loop.go, gpuworkload_controller.go).
THEOREM PhasesFollowLifecycle == Spec => PhaseFollowsLifecycle
<1> DEFINE A == \A w \in Workloads :
                  \/ obj'[w].phase = obj[w].phase
                  \/ <<obj[w].phase, obj'[w].phase>> \in Lifecycle
                  \/ /\ cycle.pc = "mark" /\ w \in cycle.victims
                     /\ obj'[w].phase = "Preempted"
<1>1. OperatorInv /\ [Next]_vars => [A]_vars
  <2> SUFFICES ASSUME OperatorInv, Next PROVE A
    OBVIOUS
  <2>1. OneForward
    <3>1. CASE ReconcileStep
      BY <3>1, ReconcileForward
    <3>2. CASE Cycle \/ \E w \in Workloads : Create(w) \/ Delete(w)
      <4>1. CASE patchWorkloadAdmittedAndScheduled
        <5>1. cycle.w \in Workloads
          BY <4>1 DEF patchWorkloadAdmittedAndScheduled, OperatorInv, Victims
        <5> QED BY <4>1, <5>1, CycleForward
      <4>2. CASE runSchedulingCycle \/ FreeVictim
        BY <4>2 DEF runSchedulingCycle, FreeVictim, OneForward, api
      <4> QED BY <3>2, <4>1, <4>2, CycleForward DEF Cycle
    <3>3. CASE \/ WatchEvent \/ HandleEvent \/ FinishMoving \/ handlePoolEvent \/ ReconcilePool
               \/ Restart \/ \E w \in Workloads : Reconcile(w) \/ RunEnds(w)
      BY <3>3 DEF WatchEvent, HandleEvent, FinishMoving, handlePoolEvent, ReconcilePool, Restart,
                  Reconcile, RunEnds, OneForward, api
    <3> QED BY <3>1, <3>2, <3>3 DEF Next, Progress
  <2>2. obj \in [Workloads -> Object]
    BY DEF OperatorInv, Types
  <2>3. CASE obj' = obj
    BY <2>3
  <2>4. CASE obj' # obj
    <3>4. PICK w \in Workloads :
            \E o : obj' = [obj EXCEPT ![w] = o] /\ (Follows(obj[w].phase, o.phase) \/ Marks(w, o.phase))
      BY <2>1, <2>4 DEF OneForward
    <3>5. PICK o : obj' = [obj EXCEPT ![w] = o] /\ (Follows(obj[w].phase, o.phase) \/ Marks(w, o.phase))
      BY <3>4
    <3>1. obj'[w] = o /\ \A x \in Workloads \ {w} : obj'[x] = obj[x]
      BY <2>2, <3>5
    <3>2. ASSUME NEW x \in Workloads, x # w PROVE obj'[x].phase = obj[x].phase
      BY <3>1, <3>2
    <3>3. \/ obj'[w].phase = obj[w].phase
          \/ <<obj[w].phase, obj'[w].phase>> \in Lifecycle
          \/ cycle.pc = "mark" /\ w \in cycle.victims /\ obj'[w].phase = "Preempted"
      BY <3>1, <3>5 DEF Follows, Marks
    <3> QED BY <3>2, <3>3
  <2> QED BY <2>3, <2>4
<1>2. Spec => [][A]_vars
  BY <1>1, OperatorInvHolds, PTL DEF Spec
<1> QED BY <1>2 DEF PhaseFollowsLifecycle
==============================================================================
