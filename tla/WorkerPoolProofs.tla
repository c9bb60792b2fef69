--------------------------- MODULE WorkerPoolProofs ---------------------------
(***************************************************************************)
(* What queue discovery promises, for any workers, workloads and devices   *)
(* and any number of messages, lost calls and dying pods; and, for every   *)
(* kind of discovery, that a race for a workload has a winner.             *)
(***************************************************************************)
EXTENDS WorkerPool, FiniteSetTheorems, TLAPS

\* Zenon is tried first, and SMT on what Zenon does not prove.
USE ZenonT(3), SMTT(20)

Jobs == [pc : Steps, w : Workloads \cup {None}, to : Terminal \cup {None}, frees : BOOLEAN]

Types ==
  /\ deployment \in Deployments
  /\ obj \in [Workloads -> [phase : Phases, claim : Workers \cup {None}]]
  /\ topic \in [Workloads -> [sent : Nat, read : Nat]]
  /\ trigger \subseteq Workers
  /\ work \in [Workers -> Jobs]
  /\ \A k \in Workers : work[k].pc # "idle" => work[k].w \in Workloads
  /\ \A k \in Workers : work[k].pc = "idle" => work[k].w = None
  /\ \A k \in Workers : work[k].pc \in {"phase", "store"} => work[k].to \in Terminal
  /\ run \in [Workloads -> {"none", "Running", "Ended", "Succeeded"}]
  /\ starts \in [Workloads -> Nat]
  /\ lost \in Nat

\* The workers that work on w, and those of them that have not started it.
Doing(w) == {k \in Workers : work[k].w = w}
Early == Claiming \cup {"allocate", "start"}
Trying(w) == {k \in Doing(w) : work[k].pc \in Early}

\* A message that was read stands for at most one worker and for at most one
\* run, which has begun or may still begin.
Counted(w) ==
  /\ topic[w].read <= topic[w].sent
  /\ obj[w].phase = "Queued" => topic[w].sent = 0
  /\ Cardinality(Doing(w)) <= topic[w].read
  /\ starts[w] + Cardinality(Trying(w)) <= topic[w].read
  /\ starts[w] = 0 => run[w] = "none"

Once(w) == topic[w].sent <= 1

\* Only the worker that has read the message moves the workload on.
Claimed(w) ==
  /\ topic[w].read = 0 => obj[w].phase \in {"Queued", "Scheduled"}
  /\ \A k \in Doing(w) : work[k].pc \in Claiming => obj[w].phase = "Scheduled"

Frees(k) == work[k].pc = "release" \/ (work[k].pc \in {"phase", "store"} /\ work[k].frees)

\* As long as no answer is lost devices are given back when no run needs them.
Returning(w) ==
  /\ \A k \in Doing(w) : work[k].pc = "start" => w \in alloc
  /\ \A k \in Doing(w) : Frees(k) => run[w] \notin {"Running", "Ended"}
  /\ run[w] \in {"Running", "Ended"} => w \in alloc

Late == {"allocate", "start", "poll", "phase", "store"}

\* A worker that has claimed is the only one to write the phase.
Holding(w) == \A k \in Doing(w) : work[k].pc \in Late => obj[w].phase = "Running"

Orderly(w) ==
  /\ Counted(w)
  /\ Once(w) => /\ Claimed(w)
                /\ deployment.maxLost = 0 => Returning(w)
                /\ deployment.preemptible = {} => Holding(w)

Queue == Mode = "queue" /\ Types /\ trigger = {} /\ \A w \in Workloads : Orderly(w)

QueueInv == Mode = "queue" => Queue

\* A phase that ends a lifecycle stays.
Final(w) ==
  Once(w) /\ deployment.preemptible = {} /\ obj[w].phase \in Terminal =>
    obj'[w].phase = obj[w].phase

\* What a step of a deployment with queue discovery keeps.
Kept == Types' /\ trigger' = {} /\ \A w \in Workloads : Orderly(w)' /\ Final(w)

-----------------------------------------------------------------------------
(* A worker's job. *)

\* The worker goes on with its workload.
LEMMA GotoJob ==
  ASSUME Types, NEW k \in Workers, work[k].pc # "idle", NEW pc \in Steps \ {"idle"}, Goto(k, pc)
  PROVE  /\ work' \in [Workers -> Jobs] /\ \A l \in Workers : l # k => work'[l] = work[l]
         /\ work'[k].pc = pc /\ work'[k].w = work[k].w
         /\ work'[k].to = work[k].to /\ work'[k].frees = work[k].frees
BY DEF Types, Goto, Jobs

\* The worker is to write a final phase.
LEMMA WriteJob ==
  ASSUME Types, NEW k \in Workers, work[k].pc # "idle", NEW phase \in Terminal,
         NEW frees \in BOOLEAN, WritePhase(k, phase, frees)
  PROVE  /\ work' \in [Workers -> Jobs] /\ \A l \in Workers : l # k => work'[l] = work[l]
         /\ work'[k].pc = "phase" /\ work'[k].w = work[k].w
         /\ work'[k].to = phase /\ work'[k].frees = frees
BY ZenonT(30) DEF Types, WritePhase, Jobs, Steps

\* The worker is done with its workload.
LEMMA LeaveJob ==
  ASSUME Types, NEW k \in Workers, NEW again \in BOOLEAN, Leave(k, again)
  PROVE  /\ work' \in [Workers -> Jobs] /\ \A l \in Workers : l # k => work'[l] = work[l]
         /\ work'[k] = Idle /\ work'[k].pc = "idle" /\ work'[k].w = None
         /\ trigger' \subseteq Workers
         /\ Mode = "queue" => trigger' = trigger
<1>1. Idle \in Jobs /\ Idle.pc = "idle" /\ Idle.w = None
  BY DEF Idle, Jobs, Steps
<1> QED BY <1>1 DEF Leave, Types

\* A worker that goes on with a workload or leaves it keeps everybody's job well
\* formed.
LEMMA JobsStay ==
  ASSUME Types, NEW k \in Workers, \A l \in Workers : l # k => work'[l] = work[l],
         work'[k].pc # "idle" => work'[k].w \in Workloads,
         work'[k].pc = "idle" => work'[k].w = None,
         work'[k].pc \in {"phase", "store"} => work'[k].to \in Terminal
  PROVE  /\ \A l \in Workers : work'[l].pc # "idle" => work'[l].w \in Workloads
         /\ \A l \in Workers : work'[l].pc = "idle" => work'[l].w = None
         /\ \A l \in Workers : work'[l].pc \in {"phase", "store"} => work'[l].to \in Terminal
BY DEF Types

\* A deployment is of workers and workloads.
LEMMA DeploymentType ==
  ASSUME Types
  PROVE  /\ deployment.pods \subseteq Workers /\ deployment.submitted \subseteq Workloads
         /\ None \notin Workloads
         /\ deployment.maxLost \in Nat
BY WorkerPoolAssumption DEF Types

\* A lost answer is counted, and there is none when none may be lost.
LEMMA FailureCounts ==
  ASSUME Types, UNCHANGED faults \/ CanFail
  PROVE  /\ lost' \in Nat /\ deployment' = deployment
         /\ deployment.maxLost = 0 => UNCHANGED faults /\ ~CanFail
BY DeploymentType DEF CanFail, faults, Types

-----------------------------------------------------------------------------
(* Steps that leave a workload alone, and steps of its worker. *)

\* What a step on another workload may do to x.
Apart(x) ==
  /\ topic'[x] = topic[x] /\ obj'[x].phase = obj[x].phase
  /\ starts'[x] = starts[x] /\ run'[x] = run[x]
  /\ x \in alloc => x \in alloc'
  /\ Doing(x)' = Doing(x) /\ \A k \in Doing(x) : work'[k] = work[k]

LEMMA ApartKeeps ==
  ASSUME NEW x \in Workloads, Orderly(x), Apart(x), deployment' = deployment
  PROVE  Orderly(x)' /\ Final(x)
<1>1. Trying(x)' = Trying(x)
  BY DEF Apart, Trying
<1>2. Counted(x)' /\ (Once(x)' <=> Once(x))
  BY <1>1 DEF Orderly, Counted, Apart, Once
<1>3. Claimed(x) => Claimed(x)'
  BY DEF Claimed, Apart
<1>4. Returning(x) => Returning(x)'
  BY DEF Returning, Apart, Frees
<1>5. Holding(x) => Holding(x)'
  BY DEF Holding, Apart
<1> QED BY <1>2, <1>3, <1>4, <1>5 DEF Orderly, Final, Apart

\* How many workers there are to count.
LEMMA Sizes ==
  ASSUME NEW w
  PROVE  /\ IsFiniteSet(Doing(w)) /\ Cardinality(Doing(w)) \in Nat
         /\ IsFiniteSet(Trying(w)) /\ Cardinality(Trying(w)) \in Nat
         /\ IsFiniteSet(Doing(w)') /\ Cardinality(Doing(w)') \in Nat
         /\ IsFiniteSet(Trying(w)') /\ Cardinality(Trying(w)') \in Nat
<1>1. /\ Doing(w) \subseteq Workers /\ Doing(w)' \subseteq Workers
      /\ Trying(w) \subseteq Workers /\ Trying(w)' \subseteq Workers
  BY DEF Doing, Trying
<1>2. IsFiniteSet(Workers)
  BY WorkerPoolAssumption
<1>3. ASSUME NEW S, S \subseteq Workers
      PROVE  IsFiniteSet(S) /\ Cardinality(S) \in Nat
  BY <1>2, <1>3, FS_Subset, FS_CardinalityType
<1> QED BY <1>1, <1>3

\* A step of worker k on its workload w keeps the rest as it is.
Local(k, w) ==
  /\ w \in Workloads /\ work[k].w = w
  /\ \A l \in Workers : l # k => work'[l] = work[l]
  /\ work'[k].w \in {w, None} /\ (work'[k].pc # "idle" => work'[k].w = w)
  /\ \A x \in Workloads : x # w => /\ obj'[x].phase = obj[x].phase
                                   /\ starts'[x] = starts[x] /\ run'[x] = run[x]
                                   /\ x \in alloc => x \in alloc'
  /\ UNCHANGED <<topic, deployment, trigger>>

\* What is known of a worker that is at work.
LEMMA AtWork ==
  ASSUME Queue, NEW k \in Workers, work[k].pc # "idle"
  PROVE  LET w == work[k].w IN
         /\ w \in Workloads /\ w # None /\ k \in Doing(w) /\ topic[w].read # 0
         /\ obj[w].phase # "Queued" /\ obj[w].phase \in Phases
         /\ work[k].pc \in Steps /\ work[k].frees \in BOOLEAN
         /\ starts[w] \in Nat /\ (starts[w] = 0 => run[w] = "none")
         /\ Once(w) => /\ Claimed(w) /\ \A l \in Doing(w) : l = k
                       /\ work[k].pc \in Early => starts[w] = 0
<1> DEFINE w == work[k].w
<1>1. /\ w \in Workloads /\ w # None /\ k \in Doing(w)
      /\ obj[w].phase \in Phases /\ work[k].pc \in Steps /\ work[k].frees \in BOOLEAN
      /\ starts[w] \in Nat /\ topic[w].sent \in Nat /\ topic[w].read \in Nat
  BY DeploymentType DEF Queue, Types, Jobs, Doing
<1>2. Orderly(w) /\ Counted(w)
  BY <1>1 DEF Queue, Orderly
<1>3. /\ IsFiniteSet(Doing(w)) /\ Cardinality(Doing(w)) \in Nat
      /\ IsFiniteSet(Trying(w)) /\ Cardinality(Trying(w)) \in Nat
  BY Sizes
<1>4. Cardinality(Doing(w)) # 0
  BY <1>1, <1>3, FS_EmptySet
<1>5. topic[w].read # 0 /\ obj[w].phase # "Queued"
  BY <1>1, <1>2, <1>3, <1>4 DEF Counted
<1>6. ASSUME Once(w)
      PROVE  \A l \in Doing(w) : l = k
  <2>1. Cardinality(Doing(w)) = 1
    BY <1>1, <1>2, <1>3, <1>4, <1>6 DEF Counted, Once
  <2>2. \E l : Doing(w) = {l}
    BY <1>3, <2>1, FS_Singleton
  <2> QED BY <1>1, <2>2
<1>7. ASSUME Once(w), work[k].pc \in Early
      PROVE  starts[w] = 0
  <2>1. k \in Trying(w)
    BY <1>1, <1>7 DEF Trying
  <2>2. Cardinality(Trying(w)) # 0
    BY <1>3, <2>1, FS_EmptySet
  <2> QED BY <1>1, <1>2, <1>3, <1>7, <2>2 DEF Counted, Once
<1>8. Once(w) => Claimed(w)
  BY <1>2 DEF Orderly
<1> QED BY <1>1, <1>2, <1>5, <1>6, <1>7, <1>8 DEF Counted

\* Such a step keeps the count of its workload: it starts it once at most, and
\* then it has started.
LEMMA LocalCounted ==
  ASSUME Queue, NEW k \in Workers, work[k].pc # "idle", NEW w, Local(k, w), Types',
         obj'[w].phase # "Queued",
         work'[k].pc \in Early => work[k].pc \in Early,
         \/ starts'[w] = starts[w]
         \/ starts'[w] <= starts[w] + 1 /\ work[k].pc \in Early /\ work'[k].pc \notin Early,
         starts'[w] = 0 => run'[w] = "none"
  PROVE  Counted(w)'
<1>1. /\ w \in Workloads /\ w # None /\ k \in Doing(w) /\ work[k].w = w
      /\ starts[w] \in Nat /\ starts'[w] \in Nat /\ topic[w].read \in Nat /\ topic'[w] = topic[w]
  BY AtWork DEF Local, Queue, Types
<1>2. Counted(w)
  BY <1>1 DEF Queue, Orderly
<1>3. /\ \A l \in Workers : l # k => work'[l] = work[l]
      /\ work'[k].pc \in Early => work'[k].w = w
  BY DEF Local, Early, Claiming
<1>4. Doing(w)' \subseteq Doing(w) /\ Trying(w)' \subseteq Trying(w)
  BY <1>1, <1>3 DEF Doing, Trying
<1>5. /\ IsFiniteSet(Doing(w)) /\ Cardinality(Doing(w)) \in Nat
      /\ IsFiniteSet(Trying(w)) /\ Cardinality(Trying(w)) \in Nat
      /\ Cardinality(Doing(w)') \in Nat /\ Cardinality(Trying(w)') \in Nat
  BY Sizes
<1>6. Cardinality(Doing(w)') <= Cardinality(Doing(w))
  BY <1>4, <1>5, FS_Subset
<1>7. Cardinality(Trying(w)') <= Cardinality(Trying(w))
  BY <1>4, <1>5, FS_Subset
<1>8. starts'[w] + Cardinality(Trying(w)') <= starts[w] + Cardinality(Trying(w))
  <2>1. CASE starts'[w] = starts[w]
    BY <1>1, <1>5, <1>7, <2>1
  <2>2. CASE starts'[w] <= starts[w] + 1 /\ work[k].pc \in Early /\ work'[k].pc \notin Early
    <3>1. k \in Trying(w) /\ Trying(w)' \subseteq Trying(w) \ {k}
      BY <1>1, <1>4, <2>2 DEF Trying
    <3>2. /\ IsFiniteSet(Trying(w) \ {k})
          /\ Cardinality(Trying(w) \ {k}) = Cardinality(Trying(w)) - 1
      BY <1>5, <3>1, FS_RemoveElement
    <3>3. Cardinality(Trying(w)') <= Cardinality(Trying(w)) - 1
      BY <3>1, <3>2, FS_Subset
    <3> QED BY <1>1, <1>5, <2>2, <3>3
  <2> QED BY <2>1, <2>2
<1>9. /\ Cardinality(Doing(w)') <= topic[w].read
      /\ starts'[w] + Cardinality(Trying(w)') <= topic[w].read
  BY <1>1, <1>2, <1>5, <1>6, <1>8 DEF Counted
<1> QED BY <1>1, <1>2, <1>9 DEF Counted

\* So it keeps the invariant if it does right by its own workload.
LEMMA LocalKeeps ==
  ASSUME Queue, NEW k \in Workers, work[k].pc # "idle", NEW w, Local(k, w), Types',
         Counted(w)',
         Once(w) /\ work'[k].pc \in Claiming => obj'[w].phase = "Scheduled",
         Once(w) /\ deployment.maxLost = 0 /\ Returning(w) =>
           /\ work'[k].pc = "start" => w \in alloc'
           /\ Frees(k)' => run'[w] \notin {"Running", "Ended"}
           /\ run'[w] \in {"Running", "Ended"} => w \in alloc',
         Once(w) /\ deployment.preemptible = {} /\ Holding(w) =>
           /\ work'[k].pc \in Late => obj'[w].phase = "Running"
           /\ obj[w].phase \in Terminal => obj'[w].phase = obj[w].phase
  PROVE  Kept
<1>1. /\ w \in Workloads /\ w # None /\ work[k].w = w /\ topic[w].read # 0
      /\ Once(w) => \A l \in Doing(w) : l = k
  BY AtWork DEF Local
<1>2. /\ \A l \in Workers : l # k => work'[l] = work[l]
      /\ work'[k].w \in {w, None}
      /\ UNCHANGED <<topic, deployment, trigger>>
  BY DEF Local
<1>3. ASSUME NEW x \in Workloads, x # w
      PROVE  Orderly(x)' /\ Final(x)
  <2>1. x # None
    BY DeploymentType DEF Queue
  <2>2. Doing(x)' = Doing(x) /\ \A l \in Doing(x) : work'[l] = work[l]
    BY <1>1, <1>2, <1>3, <2>1 DEF Doing
  <2>3. Apart(x)
    BY <1>2, <1>3, <2>2 DEF Apart, Local
  <2> QED BY <1>2, <1>3, <2>3, ApartKeeps DEF Queue
<1>4. ASSUME Once(w)
      PROVE  \A l \in Doing(w)' : l = k
  BY <1>1, <1>2, <1>4 DEF Doing
<1>5. Once(w)' => Once(w)
  BY <1>2 DEF Once
<1>6. Once(w) => Claimed(w)'
  BY <1>1, <1>2, <1>4 DEF Claimed
<1>7. Once(w) /\ deployment.maxLost = 0 => Returning(w)'
  <2> SUFFICES ASSUME Once(w), deployment.maxLost = 0 PROVE Returning(w)'
    OBVIOUS
  <2>1. Returning(w)
    BY <1>1 DEF Queue, Orderly
  <2> QED BY <1>4, <2>1 DEF Returning
<1>8. Once(w) /\ deployment.preemptible = {} =>
        Holding(w)' /\ (obj[w].phase \in Terminal => obj'[w].phase = obj[w].phase)
  <2> SUFFICES ASSUME Once(w), deployment.preemptible = {}
               PROVE  Holding(w)' /\ (obj[w].phase \in Terminal => obj'[w].phase = obj[w].phase)
    OBVIOUS
  <2>1. Holding(w)
    BY <1>1 DEF Queue, Orderly
  <2> QED BY <1>4, <2>1 DEF Holding
<1>9. Orderly(w)' /\ Final(w)
  BY <1>2, <1>5, <1>6, <1>7, <1>8 DEF Orderly, Final
<1> QED BY <1>2, <1>3, <1>9 DEF Kept, Queue

-----------------------------------------------------------------------------
(* The steps of a worker. *)

LEMMA ClaimGetKeeps ==
  ASSUME Queue, NEW k \in Workers, ClaimGet(k)
  PROVE  Kept
<1> PICK w : w = work[k].w
  OBVIOUS
<1>0. Mode = "queue" /\ Types
  BY DEF Queue
<1>1. work[k].pc = "get" /\ work[k].pc # "idle" /\ work[k].pc \in Claiming /\ work[k].pc \in Early
  BY DEF ClaimGet, Claiming, Early
<1>2. /\ w \in Workloads /\ obj[w].phase # "Queued" /\ (starts[w] = 0 => run[w] = "none")
      /\ Once(w) => obj[w].phase = "Scheduled"
  BY <1>1, AtWork DEF Claimed
<1>3. /\ UNCHANGED <<obj, trigger, topic, remote, faults>>
      /\ Goto(k, "patch") \/ (obj[w].phase # "Scheduled" /\ Goto(k, "allocate"))
  BY DEF ClaimGet
<1>4. {"patch", "allocate"} \subseteq Steps \ {"idle"} /\ {"patch", "allocate"} \subseteq Early
  BY DEF Steps, Early, Claiming
<1>5. /\ work' \in [Workers -> Jobs] /\ \A l \in Workers : l # k => work'[l] = work[l]
      /\ work'[k].w = w
      /\ work'[k].pc = "patch" \/ (work'[k].pc = "allocate" /\ obj[w].phase # "Scheduled")
  BY <1>0, <1>1, <1>3, <1>4, GotoJob
<1>6. Types'
  <2>1. UNCHANGED <<deployment, topic, trigger, run, starts, lost>>
    BY <1>3 DEF faults, remote
  <2>2. work'[k].pc # "idle" /\ work'[k].pc \notin {"phase", "store"} /\ work'[k].w \in Workloads
    BY <1>2, <1>5
  <2> QED BY <1>0, <1>3, <1>5, <2>1, <2>2, JobsStay DEF Types
<1>7. Local(k, w)
  BY <1>2, <1>3, <1>5 DEF Local, faults, remote
<1>8. Counted(w)'
  BY <1>1, <1>2, <1>3, <1>6, <1>7, LocalCounted DEF remote
<1>9. Returning(w) => (run'[w] \in {"Running", "Ended"} => w \in alloc')
  BY <1>3 DEF Returning, remote
<1>10. work'[k].pc # "start" /\ ~Frees(k)'
  BY <1>5 DEF Frees
<1>11. Once(w) => work'[k].pc \notin Late
  BY <1>2, <1>5 DEF Late
<1> QED BY <1>1, <1>2, <1>3, <1>6, <1>7, <1>8, <1>9, <1>10, <1>11, LocalKeeps

\* The other steps of a claim that go on.
LEMMA ClaimGoesOn ==
  ASSUME Queue, NEW k \in Workers, work[k].pc \in Claiming,
         NEW pc \in Claiming, Goto(k, pc), UNCHANGED <<discovery, remote, faults>>,
         obj' \in [Workloads -> [phase : Phases, claim : Workers \cup {None}]],
         \A x \in Workloads : obj'[x].phase = obj[x].phase
  PROVE  Kept
<1> PICK w : w = work[k].w
  OBVIOUS
<1>0. Mode = "queue" /\ Types
  BY DEF Queue
<1>1. work[k].pc # "idle" /\ work[k].pc \in Early
  BY DEF Claiming, Early
<1>2. /\ w \in Workloads /\ obj[w].phase # "Queued" /\ (starts[w] = 0 => run[w] = "none")
      /\ Once(w) => obj[w].phase = "Scheduled"
  BY <1>1, AtWork DEF Claimed
<1>3. pc \in Steps \ {"idle"} /\ pc \in Early /\ pc \notin {"start", "phase", "store"} /\ pc \notin Late
  BY DEF Steps, Claiming, Early, Late
<1>4. /\ work' \in [Workers -> Jobs] /\ \A l \in Workers : l # k => work'[l] = work[l]
      /\ work'[k].pc = pc /\ work'[k].w = w
  BY <1>0, <1>1, <1>3, GotoJob
<1>5. UNCHANGED <<deployment, topic, trigger, run, starts, lost, alloc>>
  BY DEF faults, remote, discovery
<1>6. Types'
  BY <1>0, <1>2, <1>3, <1>4, <1>5, JobsStay DEF Types
<1>7. Local(k, w)
  BY <1>2, <1>4, <1>5 DEF Local
<1>8. Counted(w)'
  BY <1>1, <1>2, <1>5, <1>6, <1>7, LocalCounted
<1>9. ~Frees(k)'
  BY <1>3, <1>4 DEF Frees, Claiming
<1>10. Returning(w) => (run'[w] \in {"Running", "Ended"} => w \in alloc')
  BY <1>5 DEF Returning
<1> QED BY <1>1, <1>2, <1>3, <1>4, <1>6, <1>7, <1>8, <1>9, <1>10, LocalKeeps

LEMMA ClaimPatchKeeps ==
  ASSUME Queue, NEW k \in Workers, ClaimPatch(k)
  PROVE  Kept
<1>1. /\ work[k].pc \in Claiming /\ work[k].pc # "idle" /\ "reget" \in Claiming /\ Goto(k, "reget")
      /\ UNCHANGED <<discovery, remote, faults>>
      /\ Store(work[k].w, [obj[work[k].w] EXCEPT !.claim = k])
  BY DEF ClaimPatch, Claiming
<1>2. work[k].w \in Workloads
  BY <1>1, AtWork
<1>3. /\ obj' \in [Workloads -> [phase : Phases, claim : Workers \cup {None}]]
      /\ \A x \in Workloads : obj'[x].phase = obj[x].phase
  BY <1>1, <1>2 DEF Queue, Types, Store
<1> QED BY <1>1, <1>3, ClaimGoesOn

LEMMA ClaimRegetKeeps ==
  ASSUME Queue, NEW k \in Workers, ClaimReget(k)
  PROVE  Kept
<1>1. /\ work[k].pc \in Claiming /\ "update" \in Claiming /\ Goto(k, "update")
      /\ UNCHANGED <<obj, discovery, remote, faults>>
  BY DEF ClaimReget, Claiming
<1>2. obj \in [Workloads -> [phase : Phases, claim : Workers \cup {None}]]
  BY DEF Queue, Types
<1> QED BY <1>1, <1>2, ClaimGoesOn

\* A worker that stops working on w, for whatever reason, leaves it as it is.
LEMMA LeavingKeeps ==
  ASSUME Queue, NEW k \in Workers, work[k].pc # "idle",
         NEW again \in BOOLEAN, Leave(k, again),
         UNCHANGED <<obj, topic, run, starts, deployment>>,
         lost' \in Nat,
         \A x \in Workloads : x # work[k].w /\ x \in alloc => x \in alloc',
         deployment.maxLost = 0 /\ Returning(work[k].w) /\ run[work[k].w] \in {"Running", "Ended"} =>
           work[k].w \in alloc'
  PROVE  Kept
<1> PICK w : w = work[k].w
  OBVIOUS
<1>0. Mode = "queue" /\ Types
  BY DEF Queue
<1>1. w \in Workloads /\ obj[w].phase # "Queued" /\ (starts[w] = 0 => run[w] = "none")
  BY AtWork
<1>2. /\ work' \in [Workers -> Jobs] /\ \A l \in Workers : l # k => work'[l] = work[l]
      /\ work'[k].pc = "idle" /\ work'[k].w = None /\ trigger' = trigger
  BY <1>0, LeaveJob
<1>3. Types'
  BY <1>0, <1>1, <1>2 DEF Types
<1>4. Local(k, w)
  BY <1>1, <1>2 DEF Local
<1>5. work'[k].pc \notin Early /\ work'[k].pc \notin Claiming /\ work'[k].pc \notin Late
      /\ work'[k].pc # "start" /\ ~Frees(k)'
  BY <1>2 DEF Early, Claiming, Late, Frees
<1>6. Counted(w)'
  BY <1>1, <1>3, <1>4, <1>5, LocalCounted
<1> QED BY <1>1, <1>3, <1>4, <1>5, <1>6, LocalKeeps

LEMMA ClaimUpdateKeeps ==
  ASSUME Queue, NEW k \in Workers, ClaimUpdate(k)
  PROVE  Kept
<1> PICK w : w = work[k].w
  OBVIOUS
<1>0. Mode = "queue" /\ Types
  BY DEF Queue
<1>1. work[k].pc = "update" /\ work[k].pc # "idle" /\ work[k].pc \in Claiming /\ work[k].pc \in Early
  BY DEF ClaimUpdate, Claiming, Early
<1>2. /\ w \in Workloads /\ (starts[w] = 0 => run[w] = "none")
      /\ Once(w) => obj[w].phase = "Scheduled"
  BY <1>1, AtWork DEF Claimed
<1>3. UNCHANGED <<deployment, topic, run, starts, lost, alloc>>
  BY DEF ClaimUpdate, remote, faults
<1>4. Returning(w) => (run'[w] \in {"Running", "Ended"} => w \in alloc')
  BY <1>3 DEF Returning
<1>5. CASE CopyIsCurrent(k)
  <2>1. /\ Goto(k, "allocate") /\ UNCHANGED trigger
        /\ Store(w, [obj[w] EXCEPT !.phase = "Running"])
    BY <1>5 DEF ClaimUpdate
  <2>2. "allocate" \in Steps \ {"idle"} /\ "Running" \in Phases
    BY DEF Steps, Phases
  <2>3. /\ work' \in [Workers -> Jobs] /\ \A l \in Workers : l # k => work'[l] = work[l]
        /\ work'[k].pc = "allocate" /\ work'[k].w = w
    BY <1>0, <1>1, <2>1, <2>2, GotoJob
  <2>4. /\ obj' \in [Workloads -> [phase : Phases, claim : Workers \cup {None}]]
        /\ obj'[w].phase = "Running" /\ \A x \in Workloads : x # w => obj'[x] = obj[x]
    BY <1>0, <1>2, <2>1, <2>2 DEF Types, Store
  <2>5. Types'
    <3>1. work'[k].pc # "idle" /\ work'[k].pc \notin {"phase", "store"} /\ work'[k].w \in Workloads
      BY <1>2, <2>3
    <3> QED BY <1>0, <1>3, <2>1, <2>3, <2>4, <3>1, JobsStay DEF Types
  <2>6. Local(k, w)
    BY <1>2, <1>3, <2>1, <2>3, <2>4 DEF Local
  <2>7. obj'[w].phase # "Queued" /\ work'[k].pc \notin Claiming /\ work'[k].pc # "start" /\ ~Frees(k)'
    BY <2>3, <2>4 DEF Claiming, Frees
  <2>8. Counted(w)'
    BY <1>1, <1>2, <1>3, <2>5, <2>6, <2>7, LocalCounted
  <2>9. Once(w) => obj[w].phase \notin Terminal
    BY <1>2 DEF Terminal
  <2> QED BY <1>1, <1>4, <2>4, <2>5, <2>6, <2>7, <2>8, <2>9, LocalKeeps
<1>6. CASE ~CopyIsCurrent(k)
  <2>1. Leave(k, TRUE) /\ UNCHANGED obj
    BY <1>6 DEF ClaimUpdate
  <2>2. lost' \in Nat
    BY <1>0, <1>3 DEF Types
  <2> QED BY <1>1, <1>3, <1>4, <2>1, <2>2, LeavingKeeps
<1> QED BY <1>5, <1>6

LEMMA ClaimFailsKeeps ==
  ASSUME Queue, NEW k \in Workers, ClaimFails(k)
  PROVE  Kept
<1>1. /\ work[k].pc # "idle" /\ Leave(k, FALSE) /\ CanFail
      /\ UNCHANGED <<obj, topic, remote, deployment>>
  BY DEF ClaimFails, Claiming, CanFail
<1>2. lost' \in Nat /\ deployment.maxLost # 0
  BY <1>1, FailureCounts DEF Queue
<1>3. UNCHANGED <<obj, topic, run, starts, deployment, alloc>>
  BY <1>1 DEF remote
<1> QED BY <1>1, <1>2, <1>3, LeavingKeeps

LEMMA CrashKeeps ==
  ASSUME Queue, NEW k \in Workers, Crash(k)
  PROVE  Kept
<1>0. Mode = "queue" /\ Types
  BY DEF Queue
<1>1. /\ work[k] # Idle /\ Leave(k, TRUE)
      /\ UNCHANGED <<obj, topic, remote, deployment, lost>>
  BY DEF Crash
<1>2. UNCHANGED <<obj, topic, run, starts, deployment, alloc, lost>> /\ lost' \in Nat
  BY <1>0, <1>1 DEF remote, Types
<1>3. CASE work[k].pc # "idle"
  <2>1. Returning(work[k].w) /\ run[work[k].w] \in {"Running", "Ended"} => work[k].w \in alloc'
    BY <1>2 DEF Returning
  <2> QED BY <1>1, <1>2, <1>3, <2>1, LeavingKeeps
<1>4. CASE work[k].pc = "idle"
  <2>1. work[k].w = None /\ \A x \in Workloads : x # None
    BY <1>0, <1>4, DeploymentType DEF Types
  <2>2. /\ work' \in [Workers -> Jobs] /\ \A l \in Workers : l # k => work'[l] = work[l]
        /\ work'[k].pc = "idle" /\ work'[k].w = None /\ trigger' = trigger
    BY <1>0, <1>1, LeaveJob
  <2>3. Types'
    BY <1>0, <1>2, <2>2 DEF Types
  <2>4. ASSUME NEW x \in Workloads
        PROVE  Apart(x)
    <3>1. Doing(x)' = Doing(x) /\ \A l \in Doing(x) : work'[l] = work[l]
      BY <2>1, <2>2 DEF Doing
    <3> QED BY <1>2, <3>1 DEF Apart
  <2> QED BY <1>2, <2>2, <2>3, <2>4, ApartKeeps DEF Kept, Queue
<1> QED BY <1>3, <1>4

LEMMA ReleaseKeeps ==
  ASSUME Queue, NEW k \in Workers, Release(k)
  PROVE  Kept
<1>1. /\ work[k].pc = "release" /\ work[k].pc # "idle" /\ Leave(k, TRUE)
      /\ UNCHANGED <<obj, topic, run, starts>>
      /\ (alloc' = alloc \ {work[k].w} /\ UNCHANGED faults) \/ (CanFail /\ UNCHANGED alloc)
  BY DEF Release
<1>2. lost' \in Nat /\ deployment' = deployment
  BY <1>1, FailureCounts DEF Queue
<1>3. Returning(work[k].w) => run[work[k].w] \notin {"Running", "Ended"}
  BY <1>1, AtWork DEF Returning, Frees
<1>4. \A x \in Workloads : x # work[k].w /\ x \in alloc => x \in alloc'
  BY <1>1
<1> QED BY <1>1, <1>2, <1>3, <1>4, LeavingKeeps

LEMMA AllocateKeeps ==
  ASSUME Queue, NEW k \in Workers, Allocate(k)
  PROVE  Kept
<1> PICK w : w = work[k].w
  OBVIOUS
<1>0. Types
  BY DEF Queue
<1>1. work[k].pc = "allocate" /\ work[k].pc # "idle" /\ work[k].pc \in Early
  BY DEF Allocate, Early
<1>2. /\ w \in Workloads /\ k \in Doing(w)
      /\ (starts[w] = 0 => run[w] = "none") /\ obj[w].phase # "Queued"
  BY <1>1, AtWork
<1>3. UNCHANGED <<obj, discovery, run, starts>> /\ (UNCHANGED faults \/ CanFail)
  BY DEF Allocate
<1>4. \A x \in alloc : x \in alloc'
  BY DEF Allocate
<1>5. \/ Goto(k, "start") /\ w \in alloc'
      \/ WritePhase(k, "Failed", FALSE)
  BY DEF Allocate
<1>6. "start" \in Steps \ {"idle"} /\ "Failed" \in Terminal
  BY DEF Steps, Terminal
<1>7. /\ work' \in [Workers -> Jobs] /\ \A l \in Workers : l # k => work'[l] = work[l]
      /\ work'[k].w = w
      /\ \/ work'[k].pc = "start" /\ w \in alloc'
         \/ work'[k].pc = "phase" /\ work'[k].to \in Terminal /\ work'[k].frees = FALSE
  <2>1. CASE Goto(k, "start") /\ w \in alloc'
    BY <1>0, <1>1, <1>6, <2>1, GotoJob
  <2>2. CASE WritePhase(k, "Failed", FALSE)
    BY <1>0, <1>1, <1>6, <2>2, WriteJob
  <2> QED BY <1>5, <2>1, <2>2
<1>8. lost' \in Nat /\ deployment' = deployment
  BY <1>0, <1>3, FailureCounts
<1>9. Types'
  <2>1. UNCHANGED <<topic, trigger>>
    BY <1>3 DEF discovery
  <2>2. /\ work'[k].pc # "idle" /\ work'[k].w \in Workloads
        /\ work'[k].pc \in {"phase", "store"} => work'[k].to \in Terminal
    BY <1>2, <1>7
  <2> QED BY <1>0, <1>3, <1>7, <1>8, <2>1, <2>2, JobsStay DEF Types
<1>10. Local(k, w)
  BY <1>2, <1>3, <1>4, <1>7, <1>8 DEF Local, discovery
<1>11. Holding(w) => obj'[w].phase = "Running"
  BY <1>1, <1>2, <1>3 DEF Holding, Late
<1>12. work'[k].pc \notin Claiming /\ ~Frees(k)'
  BY <1>7 DEF Claiming, Frees
<1>13. Counted(w)'
  BY <1>1, <1>2, <1>3, <1>9, <1>10, LocalCounted
<1>14. Returning(w) => (run'[w] \in {"Running", "Ended"} => w \in alloc')
  BY <1>3, <1>4 DEF Returning
<1> QED BY <1>1, <1>3, <1>7, <1>9, <1>10, <1>11, <1>12, <1>13, <1>14, LocalKeeps

\* Start counts the runs of a workload up to MaxStarts.
LEMMA CountedUp ==
  ASSUME NEW n \in Nat
  PROVE  /\ Min({n + 1, MaxStarts}) \in Nat \ {0}
         /\ Min({n + 1, MaxStarts}) <= n + 1
<1> DEFINE S == {n + 1, MaxStarts}
<1>1. MaxStarts \in Nat \ {0}
  BY WorkerPoolAssumption
<1>2. \E m \in S : \A x \in S : m <= x
  BY <1>1
<1>3. Min(S) \in S /\ \A x \in S : Min(S) <= x
  <2> HIDE DEF S
  <2> QED BY <1>2 DEF Min
<1> QED BY <1>1, <1>3

\* What Start does to the runs of its workload.
LEMMA StartedRuns ==
  ASSUME Types, NEW w \in Workloads, Begin(w) \/ UNCHANGED <<run, starts>>
  PROVE  /\ run' \in [Workloads -> {"none", "Running", "Ended", "Succeeded"}]
         /\ starts' \in [Workloads -> Nat]
         /\ \A x \in Workloads : x # w => run'[x] = run[x] /\ starts'[x] = starts[x]
         /\ \/ run'[w] = run[w] /\ starts'[w] = starts[w]
            \/ run'[w] = "Running" /\ starts'[w] # 0 /\ starts'[w] <= starts[w] + 1 /\ w \in alloc
<1>1. CASE Begin(w)
  <2> PICK n : n = Min({starts[w] + 1, MaxStarts})
    OBVIOUS
  <2>1. /\ run' = [run EXCEPT ![w] = "Running"] /\ starts' = [starts EXCEPT ![w] = n]
        /\ w \in alloc
    BY <1>1 DEF Begin, CanStart
  <2>2. n \in Nat \ {0} /\ n <= starts[w] + 1
    BY CountedUp DEF Types
  <2> QED BY <2>1, <2>2 DEF Types
<1>2. CASE UNCHANGED <<run, starts>>
  BY <1>2 DEF Types
<1> QED BY <1>1, <1>2

LEMMA StartKeeps ==
  ASSUME Queue, NEW k \in Workers, Start(k)
  PROVE  Kept
<1> PICK w : w = work[k].w
  OBVIOUS
<1>0. Types
  BY DEF Queue
<1>1. work[k].pc = "start" /\ work[k].pc # "idle" /\ work[k].pc \in Early
  BY DEF Start, Early
<1>2. /\ w \in Workloads /\ k \in Doing(w) /\ obj[w].phase # "Queued"
      /\ (starts[w] = 0 => run[w] = "none") /\ (Once(w) => run[w] = "none")
  BY <1>1, AtWork
<1>3. UNCHANGED <<obj, discovery, alloc>> /\ (UNCHANGED faults \/ CanFail)
  BY DEF Start
<1>4. /\ Begin(w) \/ UNCHANGED <<run, starts>>
      /\ \/ Goto(k, "poll") /\ Begin(w)
         \/ WritePhase(k, "Failed", TRUE) /\ (CanFail \/ UNCHANGED run)
  BY DEF Start
<1>5. "poll" \in Steps \ {"idle"} /\ "Failed" \in Terminal
  BY DEF Steps, Terminal
<1>6. /\ work' \in [Workers -> Jobs] /\ \A l \in Workers : l # k => work'[l] = work[l]
      /\ work'[k].w = w
      /\ \/ work'[k].pc = "poll"
         \/ work'[k].pc = "phase" /\ work'[k].to \in Terminal /\ (CanFail \/ UNCHANGED run)
  <2>1. CASE Goto(k, "poll")
    BY <1>0, <1>1, <1>5, <2>1, GotoJob
  <2>2. CASE WritePhase(k, "Failed", TRUE) /\ (CanFail \/ UNCHANGED run)
    BY <1>0, <1>1, <1>5, <2>2, WriteJob
  <2> QED BY <1>4, <2>1, <2>2
<1>7. lost' \in Nat /\ deployment' = deployment /\ (deployment.maxLost = 0 => ~CanFail)
  BY <1>0, <1>3, FailureCounts
<1>8. /\ run' \in [Workloads -> {"none", "Running", "Ended", "Succeeded"}]
      /\ starts' \in [Workloads -> Nat]
      /\ \A x \in Workloads : x # w => run'[x] = run[x] /\ starts'[x] = starts[x]
      /\ \/ run'[w] = run[w] /\ starts'[w] = starts[w]
         \/ run'[w] = "Running" /\ starts'[w] # 0 /\ starts'[w] <= starts[w] + 1 /\ w \in alloc
  BY <1>0, <1>2, <1>4, StartedRuns
<1>9. Types'
  <2>1. UNCHANGED <<obj, topic, trigger>>
    BY <1>3 DEF discovery
  <2>2. /\ work'[k].pc # "idle" /\ work'[k].w \in Workloads
        /\ work'[k].pc \in {"phase", "store"} => work'[k].to \in Terminal
    BY <1>2, <1>6
  <2> QED BY <1>0, <1>6, <1>7, <1>8, <2>1, <2>2, JobsStay DEF Types
<1>10. Local(k, w)
  BY <1>2, <1>3, <1>6, <1>7, <1>8 DEF Local, discovery
<1>11. work'[k].pc \notin Claiming /\ work'[k].pc \notin Early /\ work'[k].pc # "start"
  BY <1>6 DEF Claiming, Early
<1>12. Counted(w)'
  BY <1>1, <1>2, <1>3, <1>8, <1>9, <1>10, <1>11, LocalCounted
<1>13. Holding(w) => obj'[w].phase = "Running"
  BY <1>1, <1>2, <1>3 DEF Holding, Late
<1>14. Returning(w) => w \in alloc'
  BY <1>1, <1>2, <1>3 DEF Returning
<1>15. Once(w) /\ deployment.maxLost = 0 /\ Frees(k)' => run'[w] \notin {"Running", "Ended"}
  BY <1>2, <1>6, <1>7 DEF Frees
<1> QED BY <1>1, <1>3, <1>9, <1>10, <1>11, <1>12, <1>13, <1>14, <1>15, LocalKeeps

LEMMA GetRunStatusKeeps ==
  ASSUME Queue, NEW k \in Workers, GetRunStatus(k)
  PROVE  Kept
<1> PICK w : w = work[k].w
  OBVIOUS
<1>0. Types
  BY DEF Queue
<1>1. work[k].pc = "poll" /\ work[k].pc # "idle" /\ run[w] = "Ended"
  BY DEF GetRunStatus
<1>2. /\ w \in Workloads /\ k \in Doing(w) /\ obj[w].phase # "Queued"
      /\ (starts[w] = 0 => run[w] = "none")
  BY <1>1, AtWork
<1>3. /\ UNCHANGED <<obj, discovery, alloc, starts, faults>>
      /\ run' = [run EXCEPT ![w] = "Succeeded"] /\ WritePhase(k, "Succeeded", TRUE)
  BY DEF GetRunStatus
<1>4. "Succeeded" \in Terminal
  BY DEF Terminal
<1>5. /\ work' \in [Workers -> Jobs] /\ \A l \in Workers : l # k => work'[l] = work[l]
      /\ work'[k].pc = "phase" /\ work'[k].w = w /\ work'[k].to \in Terminal
  BY <1>0, <1>1, <1>3, <1>4, WriteJob
<1>6. /\ run' \in [Workloads -> {"none", "Running", "Ended", "Succeeded"}]
      /\ run'[w] = "Succeeded" /\ \A x \in Workloads : x # w => run'[x] = run[x]
  BY <1>0, <1>2, <1>3 DEF Types
<1>7. Types'
  <2>1. UNCHANGED <<obj, topic, trigger, deployment, starts, lost>>
    BY <1>3 DEF discovery, faults
  <2>2. work'[k].pc # "idle" /\ work'[k].w \in Workloads /\ work'[k].to \in Terminal
    BY <1>2, <1>5
  <2> QED BY <1>0, <1>5, <1>6, <2>1, <2>2, JobsStay DEF Types
<1>8. Local(k, w)
  BY <1>2, <1>3, <1>5, <1>6 DEF Local, discovery, faults
<1>9. Holding(w) => obj'[w].phase = "Running"
  BY <1>1, <1>2, <1>3 DEF Holding, Late
<1>10. work'[k].pc \notin Claiming /\ work'[k].pc \notin Early /\ work'[k].pc # "start"
  BY <1>5 DEF Claiming, Early
<1>11. starts'[w] # 0
  BY <1>1, <1>2, <1>3
<1>12. Counted(w)'
  BY <1>1, <1>2, <1>3, <1>7, <1>8, <1>10, <1>11, LocalCounted
<1> QED BY <1>1, <1>3, <1>6, <1>7, <1>8, <1>9, <1>10, <1>12, LocalKeeps

LEMMA SetPhaseGetKeeps ==
  ASSUME Queue, NEW k \in Workers, SetPhaseGet(k)
  PROVE  Kept
<1> PICK w : w = work[k].w
  OBVIOUS
<1>0. Types
  BY DEF Queue
<1>1. work[k].pc = "phase" /\ work[k].pc # "idle"
  BY DEF SetPhaseGet
<1>2. /\ w \in Workloads /\ k \in Doing(w) /\ obj[w].phase # "Queued"
      /\ (starts[w] = 0 => run[w] = "none") /\ work[k].to \in Terminal
  BY <1>0, <1>1, AtWork DEF Types
<1>3. UNCHANGED <<obj, discovery, remote, faults>> /\ Goto(k, "store")
  BY DEF SetPhaseGet
<1>4. "store" \in Steps \ {"idle"}
  BY DEF Steps
<1>5. /\ work' \in [Workers -> Jobs] /\ \A l \in Workers : l # k => work'[l] = work[l]
      /\ work'[k].pc = "store" /\ work'[k].w = w
      /\ work'[k].to = work[k].to /\ work'[k].frees = work[k].frees
  BY <1>0, <1>1, <1>3, <1>4, GotoJob
<1>6. Types'
  <2>1. UNCHANGED <<obj, topic, trigger, deployment, run, starts, lost>>
    BY <1>3 DEF discovery, faults, remote
  <2>2. work'[k].pc # "idle" /\ work'[k].w \in Workloads /\ work'[k].to \in Terminal
    BY <1>2, <1>5
  <2> QED BY <1>0, <1>5, <2>1, <2>2, JobsStay DEF Types
<1>7. Local(k, w)
  BY <1>2, <1>3, <1>5 DEF Local, discovery, faults, remote
<1>8. Holding(w) => obj'[w].phase = "Running"
  BY <1>1, <1>2, <1>3 DEF Holding, Late
<1>9. Returning(w) => /\ Frees(k)' => run'[w] \notin {"Running", "Ended"}
                      /\ run'[w] \in {"Running", "Ended"} => w \in alloc'
  BY <1>1, <1>2, <1>3, <1>5 DEF Returning, Frees, remote
<1>10. work'[k].pc \notin Claiming /\ work'[k].pc \notin Early /\ work'[k].pc # "start"
  BY <1>5 DEF Claiming, Early
<1>11. Counted(w)'
  BY <1>1, <1>2, <1>3, <1>6, <1>7, <1>10, LocalCounted DEF remote
<1> QED BY <1>1, <1>3, <1>6, <1>7, <1>8, <1>9, <1>10, <1>11, LocalKeeps

LEMMA SetPhaseUpdateKeeps ==
  ASSUME Queue, NEW k \in Workers, SetPhaseUpdate(k)
  PROVE  Kept
<1> PICK w : w = work[k].w
  OBVIOUS
<1>0. Mode = "queue" /\ Types
  BY DEF Queue
<1>1. work[k].pc = "store" /\ work[k].pc # "idle"
  BY DEF SetPhaseUpdate
<1>2. /\ w \in Workloads /\ k \in Doing(w) /\ obj[w].phase # "Queued"
      /\ (starts[w] = 0 => run[w] = "none") /\ work[k].to \in Terminal /\ work[k].frees \in BOOLEAN
  BY <1>0, <1>1, AtWork DEF Types
<1>3. UNCHANGED <<topic, remote>> /\ (UNCHANGED faults \/ CanFail)
  BY DEF SetPhaseUpdate
<1>4. obj' = obj \/ Store(w, [obj[w] EXCEPT !.phase = work[k].to])
  BY DEF SetPhaseUpdate
<1>5. /\ obj' \in [Workloads -> [phase : Phases, claim : Workers \cup {None}]]
      /\ obj'[w].phase \in {obj[w].phase, work[k].to}
      /\ \A x \in Workloads : x # w => obj'[x] = obj[x]
  BY <1>0, <1>2, <1>4 DEF Types, Store, Phases
<1>6. obj'[w].phase # "Queued"
  BY <1>2, <1>5 DEF Terminal
<1>7. /\ work' \in [Workers -> Jobs] /\ \A l \in Workers : l # k => work'[l] = work[l]
      /\ trigger' = trigger
      /\ \/ work'[k].pc = "release" /\ work'[k].w = w /\ work[k].frees
         \/ work'[k].pc = "idle" /\ work'[k].w = None
  <2>1. CASE work[k].frees
    <3>1. Goto(k, "release") /\ UNCHANGED trigger /\ "release" \in Steps \ {"idle"}
      BY <2>1 DEF SetPhaseUpdate, AfterPhase, Steps
    <3> QED BY <1>0, <1>1, <2>1, <3>1, GotoJob
  <2>2. CASE ~work[k].frees
    <3>1. Leave(k, TRUE)
      BY <2>2 DEF SetPhaseUpdate, AfterPhase
    <3> QED BY <1>0, <3>1, LeaveJob
  <2> QED BY <2>1, <2>2
<1>8. lost' \in Nat /\ deployment' = deployment
  BY <1>0, <1>3, FailureCounts
<1>9. Types'
  <2>1. UNCHANGED <<topic, trigger, deployment, run, starts>>
    BY <1>3, <1>7, <1>8 DEF remote
  <2>2. /\ work'[k].pc # "idle" => work'[k].w \in Workloads
        /\ work'[k].pc = "idle" => work'[k].w = None
        /\ work'[k].pc \notin {"phase", "store"}
    BY <1>2, <1>7
  <2> QED BY <1>0, <1>5, <1>7, <1>8, <2>1, <2>2, JobsStay DEF Types
<1>10. Local(k, w)
  BY <1>2, <1>3, <1>5, <1>7, <1>8 DEF Local, remote
<1>11. Holding(w) => obj[w].phase \notin Terminal
  BY <1>1, <1>2 DEF Holding, Terminal, Late
<1>12. Returning(w) => /\ Frees(k)' => run'[w] \notin {"Running", "Ended"}
                       /\ run'[w] \in {"Running", "Ended"} => w \in alloc'
  BY <1>1, <1>2, <1>3, <1>7 DEF Returning, Frees, remote
<1>13. /\ work'[k].pc \notin Claiming /\ work'[k].pc \notin Early /\ work'[k].pc # "start"
       /\ work'[k].pc \notin Late
  BY <1>7 DEF Claiming, Early, Late
<1>14. Counted(w)'
  BY <1>1, <1>2, <1>3, <1>6, <1>9, <1>10, <1>13, LocalCounted DEF remote
<1> QED BY <1>1, <1>9, <1>10, <1>11, <1>12, <1>13, <1>14, LocalKeeps

-----------------------------------------------------------------------------
(* The other steps. *)

\* A step on workload w that moves no worker.
LEMMA OthersKeep ==
  ASSUME Queue, NEW w \in Workloads, UNCHANGED <<work, alloc, deployment, trigger>>, Types',
         \A x \in Workloads : x # w => /\ topic'[x] = topic[x] /\ obj'[x].phase = obj[x].phase
                                       /\ starts'[x] = starts[x] /\ run'[x] = run[x],
         Orderly(w)', Final(w)
  PROVE  Kept
<1>1. ASSUME NEW x \in Workloads, x # w
      PROVE  Orderly(x)' /\ Final(x)
  <2>1. Apart(x)
    BY <1>1 DEF Apart, Doing
  <2> QED BY <1>1, <2>1, ApartKeeps DEF Queue
<1> QED BY <1>1 DEF Kept, Queue

\* Messages are added to the log.
LEMMA ProduceSends ==
  ASSUME Queue, NEW w \in Workloads, Produce(w)
  PROVE  /\ topic' \in [Workloads -> [sent : Nat, read : Nat]]
         /\ topic'[w].sent >= topic[w].sent /\ topic'[w].read = topic[w].read
         /\ \A x \in Workloads : x # w => topic'[x] = topic[x]
         /\ lost' \in Nat /\ deployment' = deployment
<1>1. PICK n \in {0, 1, 2} : topic' = [topic EXCEPT ![w].sent = @ + n]
  BY DEF Produce, Queue
<1>2. (UNCHANGED faults \/ CanFail) /\ Types
  BY DEF Produce, Queue
<1>3. /\ topic \in [Workloads -> [sent : Nat, read : Nat]]
      /\ topic[w].sent + n \in Nat /\ topic[w].sent + n >= topic[w].sent
  BY <1>2 DEF Types
<1>4. /\ topic' \in [Workloads -> [sent : Nat, read : Nat]]
      /\ topic'[w].sent = topic[w].sent + n /\ topic'[w].read = topic[w].read
      /\ \A x \in Workloads : x # w => topic'[x] = topic[x]
  BY <1>1, <1>3
<1> QED BY <1>2, <1>3, <1>4, FailureCounts

LEMMA ScheduleKeeps ==
  ASSUME Queue, NEW w \in Workloads, Schedule(w)
  PROVE  Kept
<1>0. Types /\ Orderly(w)
  BY DEF Queue
<1>1. /\ topic' \in [Workloads -> [sent : Nat, read : Nat]]
      /\ topic'[w].sent >= topic[w].sent /\ topic'[w].read = topic[w].read
      /\ \A x \in Workloads : x # w => topic'[x] = topic[x]
      /\ lost' \in Nat /\ deployment' = deployment
  BY ProduceSends DEF Schedule
<1>2. UNCHANGED <<trigger, work, alloc, run, starts>>
  BY DEF Schedule, remote
<1>3. /\ obj' \in [Workloads -> [phase : Phases, claim : Workers \cup {None}]]
      /\ \A x \in Workloads : x # w => obj'[x] = obj[x]
      /\ \/ obj[w].phase = "Queued" /\ obj'[w].phase = "Scheduled"
         \/ obj[w].phase # "Queued" /\ obj'[w].phase = obj[w].phase
  <2>1. CASE obj[w].phase = "Queued"
    <3>1. Store(w, [obj[w] EXCEPT !.phase = "Scheduled"])
      BY <2>1 DEF Schedule
    <3> QED BY <1>0, <2>1, <3>1 DEF Types, Store, Phases
  <2>2. CASE obj[w].phase # "Queued"
    BY <1>0, <2>2 DEF Schedule, Types
  <2> QED BY <2>1, <2>2
<1>4. Types'
  BY <1>0, <1>1, <1>2, <1>3 DEF Types
<1>5. Doing(w)' = Doing(w) /\ Trying(w)' = Trying(w)
  BY <1>2 DEF Doing, Trying
<1>6. /\ topic[w].sent \in Nat /\ topic'[w].sent \in Nat /\ topic[w].read \in Nat
      /\ Cardinality(Doing(w)) \in Nat
  BY <1>0, <1>1, Sizes DEF Types
<1>7. Counted(w)'
  BY <1>0, <1>1, <1>2, <1>3, <1>5, <1>6 DEF Orderly, Counted
<1>8. Once(w)' => Once(w)
  BY <1>1, <1>6 DEF Once
<1>9. obj[w].phase = "Queued" => Doing(w) = {} /\ topic[w].read = 0
  <2> SUFFICES ASSUME obj[w].phase = "Queued" PROVE Doing(w) = {} /\ topic[w].read = 0
    OBVIOUS
  <2>1. topic[w].read = 0 /\ Cardinality(Doing(w)) = 0
    BY <1>0, <1>6 DEF Orderly, Counted
  <2> QED BY <2>1, Sizes, FS_EmptySet
<1>10. Claimed(w) => Claimed(w)'
  BY <1>1, <1>2, <1>3, <1>5, <1>9 DEF Claimed
<1>11. Returning(w) => Returning(w)'
  BY <1>2, <1>5 DEF Returning, Frees
<1>12. Holding(w) => Holding(w)'
  BY <1>2, <1>3, <1>5, <1>9 DEF Holding
<1>13. Orderly(w)'
  BY <1>0, <1>1, <1>7, <1>8, <1>10, <1>11, <1>12 DEF Orderly
<1>14. Final(w)
  BY <1>3 DEF Final, Terminal
<1> QED BY <1>1, <1>2, <1>3, <1>4, <1>13, <1>14, OthersKeep

LEMMA MarkVictimKeeps ==
  ASSUME Queue, NEW w \in Workloads, MarkVictim(w)
  PROVE  Kept
<1>0. Types /\ Orderly(w)
  BY DEF Queue
<1>1. /\ obj[w].phase = "Running" /\ Store(w, [obj[w] EXCEPT !.phase = "Preempted"])
      /\ deployment.preemptible # {} /\ UNCHANGED <<discovery, work, remote, faults>>
  BY DEF MarkVictim
<1>2. /\ obj' \in [Workloads -> [phase : Phases, claim : Workers \cup {None}]]
      /\ obj'[w].phase = "Preempted" /\ \A x \in Workloads : x # w => obj'[x] = obj[x]
  BY <1>0, <1>1 DEF Types, Store, Phases, Terminal
<1>3. UNCHANGED <<topic, trigger, work, alloc, run, starts, deployment, lost>>
  BY <1>1 DEF discovery, remote, faults
<1>4. Types'
  BY <1>0, <1>2, <1>3 DEF Types
<1>5. Doing(w)' = Doing(w) /\ Trying(w)' = Trying(w)
  BY <1>3 DEF Doing, Trying
<1>6. Counted(w)'
  BY <1>0, <1>2, <1>3, <1>5 DEF Orderly, Counted
<1>7. Claimed(w) => Claimed(w)'
  BY <1>1, <1>3, <1>5 DEF Claimed
<1>8. Returning(w) => Returning(w)'
  BY <1>3, <1>5 DEF Returning, Frees
<1>9. Orderly(w)' /\ Final(w)
  BY <1>0, <1>1, <1>3, <1>6, <1>7, <1>8 DEF Orderly, Once, Final
<1> QED BY <1>2, <1>3, <1>4, <1>9, OthersKeep

LEMMA RunEndsKeeps ==
  ASSUME Queue, NEW w \in Workloads, RunEnds(w)
  PROVE  Kept
<1>0. Types /\ Orderly(w)
  BY DEF Queue
<1>1. /\ run[w] = "Running" /\ run' = [run EXCEPT ![w] = "Ended"]
      /\ UNCHANGED <<obj, discovery, work, alloc, starts, faults>>
  BY DEF RunEnds
<1>2. /\ run' \in [Workloads -> {"none", "Running", "Ended", "Succeeded"}]
      /\ run'[w] = "Ended" /\ \A x \in Workloads : x # w => run'[x] = run[x]
  BY <1>0, <1>1 DEF Types
<1>3. UNCHANGED <<obj, topic, trigger, work, alloc, starts, deployment, lost>>
  BY <1>1 DEF discovery, faults
<1>4. Types'
  BY <1>0, <1>2, <1>3 DEF Types
<1>5. Doing(w)' = Doing(w) /\ Trying(w)' = Trying(w)
  BY <1>3 DEF Doing, Trying
<1>6. Counted(w)'
  BY <1>0, <1>1, <1>3, <1>5 DEF Orderly, Counted
<1>7. Claimed(w) => Claimed(w)'
  BY <1>3, <1>5 DEF Claimed
<1>8. Returning(w) => Returning(w)'
  BY <1>1, <1>3, <1>5 DEF Returning, Frees
<1>9. Holding(w) => Holding(w)'
  BY <1>3, <1>5 DEF Holding
<1>10. Orderly(w)' /\ Final(w)
  BY <1>0, <1>3, <1>6, <1>7, <1>8, <1>9 DEF Orderly, Once, Final
<1> QED BY <1>2, <1>3, <1>4, <1>10, OthersKeep

\* The message leaves the topic as the worker takes the workload.
LEMMA ReadMessageKeeps ==
  ASSUME Queue, NEW k \in Workers, ReadMessage(k)
  PROVE  Kept
<1>0. Mode = "queue" /\ Types
  BY DEF Queue
<1>1. PICK w \in Workloads :
        /\ topic[w].read < topic[w].sent
        /\ topic' = [topic EXCEPT ![w].read = @ + 1] /\ (UNCHANGED faults \/ CanFail)
        /\ \/ work' = work
           \/ work' = [work EXCEPT ![k].pc = "get", ![k].w = w] /\ obj[w].phase = "Scheduled"
  BY DEF ReadMessage, IsScheduledAndUnclaimed
<1>2. work[k] = Idle /\ UNCHANGED <<obj, trigger, run, starts, alloc>>
  BY DEF ReadMessage, remote
<1>3. w # None /\ work[k].pc = "idle" /\ work[k].w = None /\ Orderly(w)
  BY <1>0, <1>2, DeploymentType DEF Idle, Queue
<1>4. /\ work' \in [Workers -> Jobs] /\ \A l \in Workers : l # k => work'[l] = work[l]
      /\ \/ work'[k] = work[k]
         \/ work'[k].pc = "get" /\ work'[k].w = w /\ obj[w].phase = "Scheduled"
  <2>1. CASE work' = work
    BY <1>0, <2>1 DEF Types
  <2>2. CASE work' = [work EXCEPT ![k].pc = "get", ![k].w = w] /\ obj[w].phase = "Scheduled"
    <3>1. work \in [Workers -> Jobs] /\ "get" \in Steps
      BY <1>0 DEF Types, Steps, Claiming
    <3>2. /\ work' \in [Workers -> Jobs] /\ \A l \in Workers : l # k => work'[l] = work[l]
          /\ work'[k].pc = "get" /\ work'[k].w = w
      BY <2>2, <3>1 DEF Jobs
    <3> QED BY <2>2, <3>2
  <2> QED BY <1>1, <2>1, <2>2
<1>5. lost' \in Nat /\ deployment' = deployment
  BY <1>0, <1>1, FailureCounts
<1>6. /\ topic' \in [Workloads -> [sent : Nat, read : Nat]]
      /\ topic'[w].read = topic[w].read + 1 /\ topic'[w].sent = topic[w].sent
      /\ topic[w].read \in Nat /\ topic[w].sent \in Nat
      /\ \A x \in Workloads : x # w => topic'[x] = topic[x]
  BY <1>0, <1>1 DEF Types
<1>7. Types'
  <2>1. /\ work'[k].pc # "idle" => work'[k].w \in Workloads
        /\ work'[k].pc = "idle" => work'[k].w = None
        /\ work'[k].pc \notin {"phase", "store"}
    BY <1>3, <1>4
  <2> QED BY <1>0, <1>2, <1>4, <1>5, <1>6, <2>1, JobsStay DEF Types
<1>8. ASSUME NEW x \in Workloads, x # w
      PROVE  Orderly(x)' /\ Final(x)
  <2>1. x # None
    BY <1>0, DeploymentType
  <2>2. Doing(x)' = Doing(x) /\ \A l \in Doing(x) : work'[l] = work[l]
    BY <1>3, <1>4, <1>8, <2>1 DEF Doing
  <2>3. Apart(x)
    BY <1>2, <1>6, <1>8, <2>2 DEF Apart
  <2> QED BY <1>5, <1>8, <2>3, ApartKeeps DEF Queue
<1>9. /\ IsFiniteSet(Doing(w)) /\ Cardinality(Doing(w)) \in Nat
      /\ IsFiniteSet(Trying(w)) /\ Cardinality(Trying(w)) \in Nat
      /\ Cardinality(Doing(w)') \in Nat /\ Cardinality(Trying(w)') \in Nat
  BY Sizes
<1>10. /\ Doing(w)' \subseteq Doing(w) \cup {k} /\ Trying(w)' \subseteq Trying(w) \cup {k}
  BY <1>4 DEF Doing, Trying
<1>11. /\ Cardinality(Doing(w)') <= Cardinality(Doing(w)) + 1
       /\ Cardinality(Trying(w)') <= Cardinality(Trying(w)) + 1
  <2>1. ASSUME NEW S, NEW T, IsFiniteSet(S), Cardinality(S) \in Nat, Cardinality(T) \in Nat,
               T \subseteq S \cup {k}
        PROVE  Cardinality(T) <= Cardinality(S) + 1
    <3>1. IsFiniteSet(S \cup {k}) /\ Cardinality(S \cup {k}) \in {Cardinality(S), Cardinality(S) + 1}
      BY <2>1, FS_AddElement
    <3>2. Cardinality(T) <= Cardinality(S \cup {k})
      BY <2>1, <3>1, FS_Subset
    <3> QED BY <2>1, <3>1, <3>2
  <2> QED BY <1>9, <1>10, <2>1
<1>12. Counted(w)'
  <2>1. Counted(w) /\ starts[w] \in Nat
    BY <1>0, <1>3 DEF Orderly, Types
  <2>2. Cardinality(Doing(w)') <= topic[w].read + 1
    BY <1>6, <1>9, <1>11, <2>1 DEF Counted
  <2>3. starts[w] + Cardinality(Trying(w)') <= topic[w].read + 1
    BY <1>6, <1>9, <1>11, <2>1 DEF Counted
  <2>4. topic[w].read + 1 <= topic[w].sent
    BY <1>1, <1>6
  <2> QED BY <1>2, <1>6, <2>1, <2>2, <2>3, <2>4 DEF Counted
<1>13. ASSUME Once(w)
       PROVE  topic[w].read = 0 /\ Doing(w) = {} /\ run[w] = "none"
  <2>1. topic[w].read = 0
    BY <1>1, <1>6, <1>13 DEF Once
  <2>2. Cardinality(Doing(w)) = 0 /\ starts[w] = 0 /\ run[w] = "none"
    <3>1. Counted(w) /\ starts[w] \in Nat
      BY <1>0, <1>3 DEF Orderly, Types
    <3> QED BY <1>9, <2>1, <3>1 DEF Counted
  <2> QED BY <1>9, <2>1, <2>2, FS_EmptySet
<1>14. ASSUME Once(w)
       PROVE  Claimed(w)' /\ Returning(w)' /\ Holding(w)'
  <2>1. \A l \in Doing(w)' : l = k /\ work'[l].pc = "get" /\ obj'[w].phase = "Scheduled"
    BY <1>2, <1>3, <1>4, <1>13, <1>14 DEF Doing
  <2> QED BY <1>2, <1>6, <1>13, <1>14, <2>1 DEF Claimed, Returning, Holding, Frees, Late
<1>15. Orderly(w)' /\ Final(w)
  BY <1>2, <1>6, <1>12, <1>14 DEF Orderly, Once, Final
<1> QED BY <1>2, <1>7, <1>8, <1>15 DEF Kept, Queue

-----------------------------------------------------------------------------

LEMMA QueueInvInit == Init => QueueInv
<1> SUFFICES ASSUME Init, Mode = "queue"
             PROVE  Types /\ trigger = {} /\ \A w \in Workloads : Orderly(w)
  BY DEF QueueInv, Queue
<1>1. Idle \in Jobs /\ Idle.pc = "idle" /\ Idle.w = None
  BY DEF Idle, Jobs, Steps
<1>2. \A k \in Workers : work[k] \in Jobs /\ work[k].pc = "idle" /\ work[k].w = None
  BY <1>1 DEF Init
<1>3. /\ None \notin Workloads /\ trigger = {}
      /\ topic \in [Workloads -> [sent : Nat, read : Nat]]
      /\ \A w \in Workloads : topic[w].sent = 0 /\ topic[w].read = 0
  BY WorkerPoolAssumption DEF Init
<1>4. Types
  <2>1. work \in [Workers -> Jobs]
    BY <1>1 DEF Init
  <2>2. obj \in [Workloads -> [phase : Phases, claim : Workers \cup {None}]]
    BY DEF Init, Phases
  <2>3. /\ run \in [Workloads -> {"none", "Running", "Ended", "Succeeded"}]
        /\ starts \in [Workloads -> Nat] /\ lost \in Nat /\ deployment \in Deployments
    BY DEF Init
  <2> QED BY <1>2, <1>3, <2>1, <2>2, <2>3 DEF Types
<1>5. ASSUME NEW w \in Workloads
      PROVE  Orderly(w)
  <2>1. Doing(w) = {} /\ Trying(w) = {} /\ starts[w] = 0 /\ run[w] = "none" /\ obj[w].phase = "Queued"
    BY <1>2, <1>3 DEF Doing, Trying, Init
  <2>2. Counted(w)
    BY <1>3, <2>1, FS_EmptySet DEF Counted
  <2>3. Claimed(w) /\ Returning(w) /\ Holding(w)
    BY <2>1 DEF Claimed, Returning, Holding
  <2> QED BY <2>2, <2>3 DEF Orderly
<1> QED BY <1>3, <1>4, <1>5

LEMMA QueueStep ==
  ASSUME Queue, Next
  PROVE  Kept
<1>0. deployment.pods \subseteq Workers /\ deployment.submitted \subseteq Workloads
  BY DeploymentType DEF Queue
<1>1. ASSUME NEW w \in deployment.submitted, Schedule(w) \/ MarkVictim(w) \/ RunEnds(w)
      PROVE  Kept
  BY <1>0, <1>1, ScheduleKeeps, MarkVictimKeeps, RunEndsKeeps
<1>2. ASSUME NEW k \in deployment.pods, Informer(k) \/ Loop(k) \/ ClaimFails(k) \/ Crash(k)
      PROVE  Kept
  <2>1. ~Informer(k) /\ ~findClaimableFromStore(k) /\ ~List(k) /\ ~NextItem(k)
    BY DEF Informer, InformerEvent, findClaimableFromStore, List, NextItem, Queue
  <2>2. k \in Workers
    BY <1>0
  <2>3. CASE ReadMessage(k) \/ ClaimGet(k) \/ ClaimPatch(k) \/ ClaimReget(k) \/ ClaimUpdate(k)
    BY <2>2, <2>3, ReadMessageKeeps, ClaimGetKeeps, ClaimPatchKeeps, ClaimRegetKeeps,
       ClaimUpdateKeeps
  <2>4. CASE Allocate(k) \/ Start(k) \/ GetRunStatus(k)
    BY <2>2, <2>4, AllocateKeeps, StartKeeps, GetRunStatusKeeps
  <2>5. CASE SetPhaseGet(k) \/ SetPhaseUpdate(k) \/ Release(k)
    BY <2>2, <2>5, SetPhaseGetKeeps, SetPhaseUpdateKeeps, ReleaseKeeps
  <2>6. CASE ClaimFails(k) \/ Crash(k)
    BY <2>2, <2>6, ClaimFailsKeeps, CrashKeeps
  <2> QED BY <1>2, <2>1, <2>3, <2>4, <2>5, <2>6 DEF Loop
<1> QED BY <1>1, <1>2 DEF Next

\* A deployment keeps its kind of discovery.
LEMMA DeploymentStays ==
  ASSUME [Next]_vars
  PROVE  deployment' = deployment
<1>1. CASE UNCHANGED vars
  BY <1>1 DEF vars, faults
<1>2. ASSUME NEW w, Schedule(w) \/ MarkVictim(w) \/ RunEnds(w)
      PROVE  deployment' = deployment
  BY <1>2 DEF Schedule, Produce, MarkVictim, RunEnds, CanFail, faults
<1>3. ASSUME NEW k, Informer(k) \/ Loop(k) \/ ClaimFails(k) \/ Crash(k)
      PROVE  deployment' = deployment
  <2>1. CASE Informer(k)
    BY <2>1 DEF Informer, InformerEvent, faults
  <2>2. CASE findClaimableFromStore(k) \/ List(k) \/ NextItem(k) \/ ReadMessage(k)
    BY <2>2 DEF findClaimableFromStore, List, NextItem, ReadMessage, CanFail, faults
  <2>3. CASE ClaimGet(k) \/ ClaimPatch(k) \/ ClaimReget(k) \/ ClaimUpdate(k)
    BY <2>3 DEF ClaimGet, ClaimPatch, ClaimReget, ClaimUpdate, faults
  <2>4. CASE Allocate(k) \/ Start(k) \/ GetRunStatus(k)
    BY <2>4 DEF Allocate, Start, GetRunStatus, CanFail, faults
  <2>5. CASE SetPhaseGet(k) \/ SetPhaseUpdate(k) \/ Release(k)
    BY <2>5 DEF SetPhaseGet, SetPhaseUpdate, Release, CanFail, faults
  <2>6. CASE ClaimFails(k) \/ Crash(k)
    BY <2>6 DEF ClaimFails, Crash, CanFail
  <2> QED BY <1>3, <2>1, <2>2, <2>3, <2>4, <2>5, <2>6 DEF Loop
<1> QED BY <1>1, <1>2, <1>3 DEF Next

LEMMA QueueInvNext == QueueInv /\ [Next]_vars => QueueInv'
<1> SUFFICES ASSUME QueueInv, [Next]_vars
             PROVE  QueueInv'
  OBVIOUS
<1>1. deployment' = deployment /\ Mode' = Mode
  BY DeploymentStays DEF Mode
<1>2. CASE Mode # "queue"
  BY <1>1, <1>2 DEF QueueInv
<1>3. CASE Mode = "queue" /\ Next
  <2>1. Kept
    BY <1>3, QueueStep DEF QueueInv
  <2> QED BY <1>1, <1>3, <2>1 DEF QueueInv, Queue, Kept
<1>4. CASE Mode = "queue" /\ UNCHANGED vars
  <2>1. UNCHANGED <<deployment, obj, topic, trigger, work, run, starts, alloc, lost>>
    BY <1>4 DEF vars, discovery, remote, faults
  <2>2. Queue
    BY <1>4 DEF QueueInv
  <2>3. Types'
    BY <2>1, <2>2 DEF Queue, Types
  <2>4. ASSUME NEW w \in Workloads
        PROVE  Orderly(w)'
    <3>1. Apart(w)
      BY <2>1 DEF Apart, Doing
    <3> QED BY <2>1, <2>2, <3>1, ApartKeeps DEF Queue
  <2> QED BY <1>1, <2>1, <2>2, <2>3, <2>4 DEF QueueInv, Queue
<1> QED BY <1>2, <1>3, <1>4

LEMMA QueueInvHolds == Spec => []QueueInv
BY QueueInvInit, QueueInvNext, PTL DEF Spec

\* With queue discovery no workload is run more often than messages were sent
\* for it, for any number of workers, messages, lost calls and dying pods:
\* ReadMessage takes a message before the claim, and a message that was read
\* stands for one start at most.
THEOREM OneRunFromQueue == Spec => []QueueRunsOnce
<1>1. QueueInv => QueueRunsOnce
  <2> SUFFICES ASSUME QueueInv, Mode = "queue", NEW w \in Workloads
               PROVE  starts[w] <= topic[w].sent
    BY DEF QueueRunsOnce
  <2>1. /\ starts[w] \in Nat /\ topic[w].sent \in Nat /\ topic[w].read \in Nat
        /\ Cardinality(Trying(w)) \in Nat /\ Counted(w)
    BY Sizes DEF QueueInv, Queue, Types, Orderly
  <2> QED BY <2>1 DEF Counted
<1> QED BY <1>1, QueueInvHolds, PTL

\* With queue discovery releaseRemoteAllocation takes no devices from the run of
\* a workload for which one message was sent, as long as no answer of the
\* simulator is lost; others may be sent for and run any number of times.
THEOREM RunsKeepDevices == Spec => []RunHoldsDevices
<1>1. QueueInv => RunHoldsDevices
  BY DEF QueueInv, Queue, Orderly, Once, SentOnce, RunHoldsDevices, Returning
<1> QED BY <1>1, QueueInvHolds, PTL

\* With queue discovery and no preemption claimWorkload and setWorkloadPhase
\* leave Succeeded, Failed and Preempted alone where one message was sent.
THEOREM FinalPhaseStays == Spec => TerminalIsFinal
<1> DEFINE Stays == \A w \in Workloads :
                      SentOnce(w) /\ deployment.preemptible = {} /\ obj[w].phase \in Terminal =>
                        obj'[w].phase = obj[w].phase
<1>1. QueueInv /\ [Next]_vars => [Stays]_vars
  <2> SUFFICES ASSUME QueueInv, Next, NEW w \in Workloads,
                      SentOnce(w), deployment.preemptible = {}, obj[w].phase \in Terminal
               PROVE  obj'[w].phase = obj[w].phase
    OBVIOUS
  <2>1. Kept
    BY QueueStep DEF QueueInv, SentOnce
  <2> QED BY <2>1 DEF Kept, Final, SentOnce, Once
<1> QED BY <1>1, QueueInvHolds, PTL DEF Spec, TerminalIsFinal

-----------------------------------------------------------------------------
(* Workers that race for a workload, with any kind of discovery. *)

\* The worker is going to write Running and will not be refused.
Pursues(k, w) ==
  work[k].w = w /\ (work[k].pc = "reget" \/ (work[k].pc = "update" /\ k \notin outdated))

\* The workloads that a message was sent for.
Announced == {w \in Workloads : topic[w].sent # 0}

\* Nobody knows a workload, let alone claims it, before the scheduler admits it.
Unknown(w) ==
  /\ obj[w].claim = None /\ w \notin Announced
  /\ \A k \in Workers : w \notin view[k] /\ work[k].w # w

Pursued ==
  \A w \in Workloads : /\ obj[w].phase = "Queued" => Unknown(w)
                       /\ obj[w].phase = "Scheduled" /\ obj[w].claim # None =>
                            \E k \in Workers : Pursues(k, w)

RaceTypes ==
  /\ Types /\ crashes \in Nat /\ view \in [Workers -> SUBSET Workloads]
  /\ \A w \in Workloads : topic[w].read <= topic[w].sent

RaceInv == Reliable => RaceTypes /\ Pursued

\* A step of worker k that writes no object and is not one of the last two of a
\* claim.
LEMMA QuietStep ==
  ASSUME Pursued, NEW k \in Workers,
         UNCHANGED obj, Announced' = Announced, outdated' \subseteq outdated,
         \A l \in Workers : \A w \in view'[l] : w \in view[l] \/ IsScheduledAndUnclaimed(w),
         \A l \in Workers : l # k => work'[l] = work[l],
         work'[k].w \notin Workloads \/ work'[k].w \in {work[k].w} \cup view[k] \cup Announced,
         \A w : ~Pursues(k, w)
  PROVE  Pursued'
<1> SUFFICES ASSUME NEW w \in Workloads
             PROVE  /\ obj[w].phase = "Queued" => Unknown(w)'
                    /\ obj[w].phase = "Scheduled" /\ obj[w].claim # None =>
                         \E l \in Workers : Pursues(l, w)'
  BY DEF Pursued
<1>1. ASSUME obj[w].phase = "Queued"
      PROVE  Unknown(w)'
  <2>1. Unknown(w) /\ ~IsScheduledAndUnclaimed(w)
    BY <1>1 DEF Pursued, IsScheduledAndUnclaimed
  <2>2. \A l \in Workers : w \notin view'[l] /\ work'[l].w # w
    BY <2>1 DEF Unknown
  <2> QED BY <2>1, <2>2 DEF Unknown
<1>2. ASSUME obj[w].phase = "Scheduled", obj[w].claim # None
      PROVE  \E l \in Workers : Pursues(l, w)'
  <2>1. PICK l \in Workers : Pursues(l, w)
    BY <1>2 DEF Pursued
  <2>2. l # k
    BY <2>1
  <2> QED BY <2>1, <2>2 DEF Pursues
<1> QED BY <1>1, <1>2

\* A write to a workload is not seen by those who work on another.
LEMMA StoreFacts ==
  ASSUME obj \in [Workloads -> [phase : Phases, claim : Workers \cup {None}]],
         NEW w \in Workloads, NEW o, o \in [phase : Phases, claim : Workers \cup {None}], Store(w, o)
  PROVE  /\ obj' \in [Workloads -> [phase : Phases, claim : Workers \cup {None}]]
         /\ obj'[w] = o /\ \A v \in Workloads : v # w => obj'[v] = obj[v]
         /\ \A l \in Workers : work[l].w # w /\ l \notin outdated => l \notin outdated'
BY DEF Store

\* A write of worker k to its workload w, which was admitted: either the worker
\* goes on to pursue its claim or nobody has to.
LEMMA WritingStep ==
  ASSUME Pursued, NEW k \in Workers, NEW w \in Workloads, work[k].w = w,
         \A v \in Workloads : v # w => obj'[v] = obj[v],
         \A l \in Workers : work[l].w # w /\ l \notin outdated => l \notin outdated',
         \A l \in Workers : l # k => work'[l] = work[l],
         work'[k].w \in {w, None}, None \notin Workloads,
         \A l \in Workers : \A v \in view'[l] : v \in view[l], Announced' = Announced,
         obj'[w].phase # "Queued",
         obj'[w].phase = "Scheduled" => Pursues(k, w)'
  PROVE  Pursued'
<1> SUFFICES ASSUME NEW v \in Workloads
             PROVE  /\ obj'[v].phase = "Queued" => Unknown(v)'
                    /\ obj'[v].phase = "Scheduled" /\ obj'[v].claim # None =>
                         \E l \in Workers : Pursues(l, v)'
  BY DEF Pursued
<1>1. CASE v = w
  BY <1>1
<1>2. CASE v # w
  <2>1. ASSUME obj'[v].phase = "Queued"
        PROVE  Unknown(v)'
    <3>1. Unknown(v)
      BY <1>2, <2>1 DEF Pursued
    <3>2. \A l \in Workers : v \notin view'[l] /\ work'[l].w # v
      BY <1>2, <3>1 DEF Unknown
    <3> QED BY <1>2, <3>1, <3>2 DEF Unknown
  <2>2. ASSUME obj'[v].phase = "Scheduled", obj'[v].claim # None
        PROVE  \E l \in Workers : Pursues(l, v)'
    <3>1. PICK l \in Workers : Pursues(l, v)
      BY <1>2, <2>2 DEF Pursued
    <3>2. l # k /\ work[l].w # w
      BY <1>2, <3>1 DEF Pursues
    <3> QED BY <3>1, <3>2 DEF Pursues
  <2> QED BY <2>1, <2>2
<1> QED BY <1>1, <1>2

\* Nothing fails in a reliable deployment.
LEMMA NothingFails ==
  ASSUME Reliable, RaceTypes
  PROVE  ~CanFail /\ \A k : ~ClaimFails(k) /\ ~Crash(k)
<1>1. /\ lost \in Nat /\ crashes \in Nat
      /\ deployment.maxLost = 0 /\ deployment.maxCrashes = 0
  BY DEF Reliable, RaceTypes, Types
<1>2. ~CanFail
  BY <1>1 DEF CanFail
<1>3. \A k : ~Crash(k)
  <2>1. ~(crashes < deployment.maxCrashes)
    BY <1>1
  <2> QED BY <2>1, Zenon DEF Crash
<1> QED BY <1>2, <1>3 DEF ClaimFails

\* The scheduler and the clock.
LEMMA OperatorRaces ==
  ASSUME Reliable, RaceTypes, Pursued, NEW w \in Workloads, Schedule(w) \/ MarkVictim(w) \/ RunEnds(w)
  PROVE  RaceTypes' /\ Pursued'
<1>0. obj \in [Workloads -> [phase : Phases, claim : Workers \cup {None}]]
  BY DEF RaceTypes, Types
<1>1. CASE Schedule(w)
  <2> PICK n \in {0, 1} : topic' = [topic EXCEPT ![w].sent = @ + n]
    BY <1>1, NothingFails DEF Schedule, Produce
  <2>1. UNCHANGED <<view, trigger, work, remote, faults>>
    BY <1>1, NothingFails DEF Schedule, Produce
  <2>2. /\ obj' \in [Workloads -> [phase : Phases, claim : Workers \cup {None}]]
        /\ obj'[w].phase # "Queued" /\ obj'[w].claim = obj[w].claim
        /\ obj[w].phase # "Queued" => obj' = obj /\ outdated' = outdated
        /\ \A v \in Workloads : v # w => obj'[v] = obj[v]
        /\ \A l \in Workers : work[l].w # w /\ l \notin outdated => l \notin outdated'
    <3>1. CASE obj[w].phase = "Queued"
      <4> PICK o : o = [obj[w] EXCEPT !.phase = "Scheduled"]
        OBVIOUS
      <4>1. /\ Store(w, o) /\ o \in [phase : Phases, claim : Workers \cup {None}]
            /\ o.phase = "Scheduled" /\ o.claim = obj[w].claim
        BY <1>0, <1>1, <3>1 DEF Schedule, Phases
      <4> QED BY <1>0, <3>1, <4>1, StoreFacts
    <3>2. CASE obj[w].phase # "Queued"
      BY <1>0, <1>1, <3>2 DEF Schedule
    <3> QED BY <3>1, <3>2
  <2>3. /\ topic' \in [Workloads -> [sent : Nat, read : Nat]]
        /\ \A v \in Workloads : topic'[v].read <= topic'[v].sent
        /\ \A v \in Workloads : v # w => topic'[v] = topic[v]
    <3>1. /\ topic \in [Workloads -> [sent : Nat, read : Nat]] /\ topic[w].read <= topic[w].sent
          /\ topic[w].sent + n \in Nat /\ topic[w].sent <= topic[w].sent + n
          /\ \A v \in Workloads : topic[v].read <= topic[v].sent
      BY DEF RaceTypes, Types
    <3> QED BY <3>1
  <2>4. RaceTypes'
    BY <2>1, <2>2, <2>3 DEF RaceTypes, Types, remote, faults
  <2>5. ASSUME NEW v \in Workloads
        PROVE  /\ obj'[v].phase = "Queued" => Unknown(v)'
               /\ obj'[v].phase = "Scheduled" /\ obj'[v].claim # None =>
                    \E l \in Workers : Pursues(l, v)'
    <3>1. CASE v = w /\ obj[w].phase = "Queued"
      BY <2>2, <3>1 DEF Pursued, Unknown
    <3>2. CASE v # w \/ obj[w].phase # "Queued"
      <4>1. v # w => (Unknown(v) => Unknown(v)')
        BY <2>1, <2>2, <2>3 DEF Unknown, Announced
      <4>2. \A l \in Workers : Pursues(l, v) => Pursues(l, v)'
        BY <2>1, <2>2, <3>2 DEF Pursues
      <4> QED BY <2>2, <3>2, <4>1, <4>2 DEF Pursued
    <3> QED BY <3>1, <3>2
  <2> QED BY <2>4, <2>5 DEF Pursued
<1>2. CASE MarkVictim(w)
  <2> PICK o : o = [obj[w] EXCEPT !.phase = "Preempted"]
    OBVIOUS
  <2>1. Store(w, o) /\ UNCHANGED <<discovery, work, remote, faults>>
    BY <1>2 DEF MarkVictim
  <2>2. o \in [phase : Phases, claim : Workers \cup {None}] /\ o.phase = "Preempted"
    BY <1>0 DEF Phases, Terminal
  <2>3. /\ obj' \in [Workloads -> [phase : Phases, claim : Workers \cup {None}]]
        /\ obj'[w] = o /\ \A v \in Workloads : v # w => obj'[v] = obj[v]
        /\ \A l \in Workers : work[l].w # w /\ l \notin outdated => l \notin outdated'
    BY <1>0, <2>1, <2>2, StoreFacts
  <2>4. RaceTypes'
    BY <2>1, <2>3 DEF RaceTypes, Types, discovery, remote, faults
  <2>5. ASSUME NEW v \in Workloads
        PROVE  /\ obj'[v].phase = "Queued" => Unknown(v)'
               /\ obj'[v].phase = "Scheduled" /\ obj'[v].claim # None =>
                    \E l \in Workers : Pursues(l, v)'
    <3>1. CASE v = w
      BY <2>2, <2>3, <3>1
    <3>2. CASE v # w
      <4>1. Unknown(v) => Unknown(v)'
        BY <2>1, <2>3, <3>2 DEF Unknown, Announced, discovery
      <4>2. \A l \in Workers : Pursues(l, v) => Pursues(l, v)'
        BY <2>1, <2>3, <3>2 DEF Pursues
      <4> QED BY <2>3, <3>2, <4>1, <4>2 DEF Pursued
    <3> QED BY <3>1, <3>2
  <2> QED BY <2>4, <2>5 DEF Pursued
<1>3. CASE RunEnds(w)
  <2>1. /\ UNCHANGED <<obj, outdated, discovery, work, alloc, starts, faults>>
        /\ run' = [run EXCEPT ![w] = "Ended"]
    BY <1>3 DEF RunEnds
  <2>2. run' \in [Workloads -> {"none", "Running", "Ended", "Succeeded"}]
    BY <2>1 DEF RaceTypes, Types
  <2>3. RaceTypes'
    BY <2>1, <2>2 DEF RaceTypes, Types, discovery, faults
  <2> QED BY <2>1, <2>3 DEF Pursued, Unknown, Announced, Pursues, discovery
<1> QED BY <1>1, <1>2, <1>3

\* The informer, and the steps that take up a workload.
LEMMA DiscoveryRaces ==
  ASSUME Reliable, RaceTypes, Pursued, NEW k \in Workers,
         \/ Informer(k) \/ findClaimableFromStore(k) \/ List(k)
         \/ NextItem(k) \/ ReadMessage(k)
  PROVE  RaceTypes' /\ Pursued'
<1>0. trigger \subseteq Workers /\ topic \in [Workloads -> [sent : Nat, read : Nat]]
  BY DEF RaceTypes, Types
<1>1. /\ UNCHANGED <<obj, outdated, remote, faults>> /\ trigger' \subseteq Workers
      /\ \/ work' = work
         \/ \E w \in view[k] \cup Announced :
              work[k] = Idle /\ work' = [work EXCEPT ![k].pc = "get", ![k].w = w]
      /\ topic' \in [Workloads -> [sent : Nat, read : Nat]] /\ Announced' = Announced
      /\ \A w \in Workloads : topic'[w].read <= topic'[w].sent
  <2>1. CASE ReadMessage(k)
    <3>1. PICK w \in Workloads :
            /\ topic[w].read < topic[w].sent /\ topic' = [topic EXCEPT ![w].read = @ + 1]
            /\ UNCHANGED <<obj, outdated, view, trigger, remote, faults>>
            /\ \/ work' = work
               \/ work[k] = Idle /\ work' = [work EXCEPT ![k].pc = "get", ![k].w = w]
      BY <2>1, NothingFails DEF ReadMessage
    <3>2. /\ topic[w].read \in Nat /\ topic[w].sent \in Nat /\ topic[w].sent # 0
          /\ topic[w].read + 1 \in Nat /\ topic[w].read + 1 <= topic[w].sent
      BY <1>0, <3>1
    <3>3. /\ topic' \in [Workloads -> [sent : Nat, read : Nat]]
          /\ topic'[w].read = topic[w].read + 1
          /\ \A v \in Workloads : topic'[v].sent = topic[v].sent
          /\ \A v \in Workloads : v # w => topic'[v] = topic[v]
      BY <1>0, <3>1, <3>2
    <3>4. w \in Announced /\ Announced' = Announced
      BY <3>2, <3>3 DEF Announced
    <3>5. \A v \in Workloads : topic'[v].read <= topic'[v].sent
      BY <3>2, <3>3 DEF RaceTypes
    <3> QED BY <1>0, <3>1, <3>3, <3>4, <3>5
  <2>2. CASE Informer(k) \/ findClaimableFromStore(k) \/ List(k) \/ NextItem(k)
    <3>1. UNCHANGED topic
      BY <2>2 DEF Informer, InformerEvent, findClaimableFromStore, List, NextItem
    <3>2. Announced' = Announced
      BY <3>1 DEF Announced
    <3>3. /\ UNCHANGED <<obj, outdated, remote, faults>> /\ trigger' \subseteq Workers
          /\ \/ work' = work
             \/ \E w \in view[k] :
                  work[k] = Idle /\ work' = [work EXCEPT ![k].pc = "get", ![k].w = w]
      BY <1>0, <2>2 DEF Informer, InformerEvent, findClaimableFromStore, List, NextItem
    <3> QED BY <1>0, <3>1, <3>2, <3>3 DEF RaceTypes
  <2> QED BY <2>1, <2>2
<1>2. /\ view' \in [Workers -> SUBSET Workloads]
      /\ \A l \in Workers : \A w \in view'[l] : w \in view[l] \/ IsScheduledAndUnclaimed(w)
  BY DEF Informer, InformerEvent, findClaimableFromStore, List, NextItem, ReadMessage, RaceTypes
<1>3. CASE work' = work
  <2>1. RaceTypes'
    BY <1>1, <1>2, <1>3 DEF RaceTypes, Types, remote, faults
  <2>2. ASSUME NEW w \in Workloads
        PROVE  /\ obj[w].phase = "Queued" => Unknown(w)'
               /\ \A l \in Workers : Pursues(l, w) => Pursues(l, w)'
    BY <1>1, <1>2, <1>3 DEF Pursued, Unknown, Pursues, IsScheduledAndUnclaimed
  <2> QED BY <1>1, <2>1, <2>2 DEF Pursued
<1>4. ASSUME NEW w \in view[k] \cup Announced, work[k] = Idle,
             work' = [work EXCEPT ![k].pc = "get", ![k].w = w]
      PROVE  RaceTypes' /\ Pursued'
  <2>1. w \in Workloads
    BY <1>4 DEF RaceTypes, Announced
  <2>2. /\ work' \in [Workers -> Jobs] /\ \A l \in Workers : l # k => work'[l] = work[l]
        /\ work'[k].pc = "get" /\ work'[k].w = w
    <3>1. work \in [Workers -> Jobs] /\ "get" \in Steps
      BY DEF RaceTypes, Types, Steps, Claiming
    <3> QED BY <1>4, <2>1, <3>1 DEF Jobs
  <2>3. RaceTypes'
    BY <1>1, <1>2, <2>1, <2>2 DEF RaceTypes, Types, remote, faults
  <2>4. \A v : ~Pursues(k, v)
    BY <1>4 DEF Pursues, Idle
  <2> QED BY <1>1, <1>2, <2>2, <2>3, <2>4, QuietStep
<1> QED BY <1>1, <1>3, <1>4

\* The steps of runOneWorkload that only speak to the simulator, and those of a
\* claim before the worker writes.
LEMMA QuietRaces ==
  ASSUME Reliable, RaceTypes, Pursued, NEW k \in Workers,
         \/ ClaimGet(k) \/ Allocate(k) \/ Start(k) \/ GetRunStatus(k)
         \/ SetPhaseGet(k) \/ Release(k)
  PROVE  RaceTypes' /\ Pursued'
<1> DEFINE job == work[k]
<1>1. Types /\ work \in [Workers -> Jobs] /\ view \in [Workers -> SUBSET Workloads]
  BY DEF RaceTypes, Types
<1>2. /\ UNCHANGED <<obj, topic, faults>> /\ outdated' \subseteq outdated
      /\ \A l \in Workers : view'[l] \subseteq view[l]
      /\ view' \in [Workers -> SUBSET Workloads]
      /\ job.pc \in {"get", "allocate", "start", "poll", "phase", "release"}
  BY <1>1, NothingFails DEF ClaimGet, Allocate, Start, GetRunStatus, SetPhaseGet, Release, discovery
<1>3. job.pc # "idle" /\ job.w \in Workloads /\ \A w : ~Pursues(k, w)
  BY <1>1, <1>2 DEF Types, Pursues
<1>4. \/ \E pc \in {"patch", "allocate", "start", "poll", "store"} :
           Goto(k, pc) /\ trigger' = trigger /\ (pc = "store" => job.pc = "phase")
      \/ \E phase \in Terminal, frees \in BOOLEAN : WritePhase(k, phase, frees) /\ trigger' = trigger
      \/ Leave(k, TRUE)
  <2>1. CASE ClaimGet(k)
    BY <2>1 DEF ClaimGet
  <2>2. CASE Allocate(k)
    BY <2>2, NothingFails DEF Allocate, discovery, Terminal
  <2>3. CASE Start(k)
    BY <2>3, NothingFails DEF Start, discovery, Terminal
  <2>4. CASE GetRunStatus(k)
    BY <2>4 DEF GetRunStatus, discovery, Terminal
  <2>5. CASE SetPhaseGet(k)
    BY <2>5 DEF SetPhaseGet, discovery
  <2>6. CASE Release(k)
    BY <2>6 DEF Release
  <2> QED BY <2>1, <2>2, <2>3, <2>4, <2>5, <2>6
<1>5. /\ work' \in [Workers -> Jobs] /\ trigger' \subseteq Workers
      /\ \A l \in Workers : l # k => work'[l] = work[l]
      /\ \/ work'[k].pc # "idle" /\ work'[k].w = job.w
         \/ work'[k].pc = "idle" /\ work'[k].w = None
      /\ work'[k].pc \in {"phase", "store"} => work'[k].to \in Terminal
  <2>0. trigger \subseteq Workers
    BY <1>1 DEF Types
  <2>1. ASSUME NEW pc \in {"patch", "allocate", "start", "poll", "store"}, Goto(k, pc), trigger' = trigger,
               pc = "store" => job.pc = "phase"
        PROVE  <1>5!:
    <3>1. pc \in Steps \ {"idle"}
      BY <2>1 DEF Steps, Claiming
    <3>2. pc \in {"phase", "store"} => job.to \in Terminal
      BY <1>1, <2>1 DEF Types
    <3> QED BY <1>1, <1>3, <2>0, <2>1, <3>1, <3>2, GotoJob
  <2>2. ASSUME NEW phase \in Terminal, NEW frees \in BOOLEAN, WritePhase(k, phase, frees), trigger' = trigger
        PROVE  <1>5!:
    BY <1>1, <1>3, <2>0, <2>2, WriteJob
  <2>3. CASE Leave(k, TRUE)
    BY <1>1, <2>3, LeaveJob
  <2> QED BY <1>4, <2>1, <2>2, <2>3
<1>6. /\ run' \in [Workloads -> {"none", "Running", "Ended", "Succeeded"}]
      /\ starts' \in [Workloads -> Nat]
  <2>1. CASE UNCHANGED <<run, starts>>
    BY <1>1, <2>1 DEF Types
  <2>2. CASE Start(k)
    <3>1. Begin(job.w) \/ UNCHANGED <<run, starts>>
      BY <2>2 DEF Start
    <3> QED BY <1>1, <1>3, <3>1, StartedRuns
  <2>3. CASE GetRunStatus(k)
    BY <1>1, <2>3 DEF GetRunStatus, Types
  <2> QED BY <2>1, <2>2, <2>3 DEF ClaimGet, Allocate, SetPhaseGet, Release, remote
<1>7. RaceTypes'
  BY <1>1, <1>2, <1>3, <1>5, <1>6 DEF RaceTypes, Types, faults
<1> QED
  <2>1. work'[k].w \notin Workloads \/ work'[k].w \in {job.w} \cup view[k] \cup Announced
    BY <1>1, <1>5, DeploymentType
  <2>2. \A l \in Workers : \A w \in view'[l] : w \in view[l] \/ IsScheduledAndUnclaimed(w)
    BY <1>2
  <2>3. Announced' = Announced
    BY <1>2 DEF Announced
  <2> QED BY <1>2, <1>3, <1>5, <1>7, <2>1, <2>2, <2>3, QuietStep

\* The steps of a claim that write, or read what they are going to write, and
\* the end of setWorkloadPhase.
LEMMA WritingRaces ==
  ASSUME Reliable, RaceTypes, Pursued, NEW k \in Workers,
         ClaimPatch(k) \/ ClaimReget(k) \/ ClaimUpdate(k) \/ SetPhaseUpdate(k)
  PROVE  RaceTypes' /\ Pursued'
<1> PICK w : w = work[k].w
  OBVIOUS
<1>1. /\ Types /\ work \in [Workers -> Jobs] /\ view \in [Workers -> SUBSET Workloads]
      /\ trigger \subseteq Workers /\ None \notin Workloads
      /\ obj \in [Workloads -> [phase : Phases, claim : Workers \cup {None}]]
  BY DeploymentType DEF RaceTypes, Types
<1>2. work[k].pc \in {"patch", "reget", "update", "store"}
  BY DEF ClaimPatch, ClaimReget, ClaimUpdate, SetPhaseUpdate
<1>3. work[k].pc # "idle" /\ w \in Workloads /\ obj[w].phase # "Queued"
  BY <1>1, <1>2 DEF Types, Pursued, Unknown
<1>0. topic' = topic /\ Announced' = Announced
  BY NothingFails DEF ClaimPatch, ClaimReget, ClaimUpdate, SetPhaseUpdate, discovery, Announced
<1>4. CASE ClaimPatch(k)
  <2> PICK o : o = [obj[w] EXCEPT !.claim = k]
    OBVIOUS
  <2>1. Store(w, o) /\ Goto(k, "reget") /\ UNCHANGED <<discovery, remote, faults>>
    BY <1>4 DEF ClaimPatch
  <2>2. o \in [phase : Phases, claim : Workers \cup {None}] /\ o.phase = obj[w].phase
    BY <1>1, <1>3
  <2>3. /\ obj' \in [Workloads -> [phase : Phases, claim : Workers \cup {None}]]
        /\ obj'[w] = o /\ \A v \in Workloads : v # w => obj'[v] = obj[v]
        /\ \A l \in Workers : work[l].w # w /\ l \notin outdated => l \notin outdated'
    BY <1>1, <1>3, <2>1, <2>2, StoreFacts
  <2>4. "reget" \in Steps \ {"idle"}
    BY DEF Steps, Claiming
  <2>5. /\ work' \in [Workers -> Jobs] /\ \A l \in Workers : l # k => work'[l] = work[l]
        /\ work'[k].pc = "reget" /\ work'[k].w = w
    BY <1>1, <1>3, <2>1, <2>4, GotoJob
  <2>6. RaceTypes'
    BY <1>1, <1>3, <2>1, <2>3, <2>5, ZenonT(30) DEF RaceTypes, Types, discovery, remote, faults
  <2>7. Pursues(k, w)'
    BY <2>5 DEF Pursues
  <2> QED BY <1>0, <1>1, <1>3, <2>1, <2>2, <2>3, <2>5, <2>6, <2>7, WritingStep DEF discovery
<1>5. CASE ClaimReget(k)
  <2>1. /\ outdated' = outdated \ {k} /\ Goto(k, "update")
        /\ UNCHANGED <<obj, discovery, remote, faults>>
    BY <1>5 DEF ClaimReget
  <2>2. "update" \in Steps \ {"idle"}
    BY DEF Steps, Claiming
  <2>3. /\ work' \in [Workers -> Jobs] /\ \A l \in Workers : l # k => work'[l] = work[l]
        /\ work'[k].pc = "update" /\ work'[k].w = w
    BY <1>1, <1>3, <2>1, <2>2, GotoJob
  <2>4. RaceTypes'
    BY <1>1, <1>3, <2>1, <2>3 DEF RaceTypes, Types, discovery, remote, faults
  <2>5. Pursues(k, w)'
    BY <2>1, <2>3 DEF Pursues
  <2> QED BY <1>0, <1>1, <1>3, <2>1, <2>3, <2>4, <2>5, WritingStep DEF discovery
<1>6. CASE (ClaimUpdate(k) \/ SetPhaseUpdate(k)) /\ CopyIsCurrent(k)
  <2>1. PICK ph \in Terminal \cup {"Running"} : Store(w, [obj[w] EXCEPT !.phase = ph])
    BY <1>1, <1>6, NothingFails DEF ClaimUpdate, SetPhaseUpdate, Types
  <2> PICK o : o = [obj[w] EXCEPT !.phase = ph]
    OBVIOUS
  <2>2. /\ o \in [phase : Phases, claim : Workers \cup {None}] /\ o.phase = ph
        /\ ph \notin {"Queued", "Scheduled"}
    BY <1>1, <1>3 DEF Phases, Terminal
  <2>3. /\ obj' \in [Workloads -> [phase : Phases, claim : Workers \cup {None}]]
        /\ obj'[w] = o /\ \A v \in Workloads : v # w => obj'[v] = obj[v]
        /\ \A l \in Workers : work[l].w # w /\ l \notin outdated => l \notin outdated'
    BY <1>1, <1>3, <2>1, <2>2, StoreFacts
  <2>4. /\ UNCHANGED <<topic, remote, faults>>
        /\ \/ \E pc \in {"allocate", "release"} : Goto(k, pc) /\ trigger' = trigger
           \/ Leave(k, TRUE)
        /\ view' \in [Workers -> SUBSET Workloads]
        /\ \A l \in Workers : \A v \in view'[l] : v \in view[l]
    BY <1>1, <1>6, NothingFails DEF ClaimUpdate, SetPhaseUpdate
  <2>5. /\ work' \in [Workers -> Jobs] /\ \A l \in Workers : l # k => work'[l] = work[l]
        /\ trigger' \subseteq Workers
        /\ \/ work'[k].pc \in {"allocate", "release"} /\ work'[k].w = w
           \/ work'[k].pc = "idle" /\ work'[k].w = None
    <3>1. {"allocate", "release"} \subseteq Steps \ {"idle"}
      BY DEF Steps
    <3> QED BY <1>1, <1>3, <2>4, <3>1, GotoJob, LeaveJob, ZenonT(30)
  <2>6. RaceTypes'
    <3>1. /\ \A l \in Workers : work'[l].pc # "idle" => work'[l].w \in Workloads
          /\ \A l \in Workers : work'[l].pc = "idle" => work'[l].w = None
          /\ \A l \in Workers : work'[l].pc \in {"phase", "store"} => work'[l].to \in Terminal
      BY <1>1, <1>3, <2>5 DEF Types
    <3> QED BY <1>1, <2>3, <2>4, <2>5, <3>1 DEF RaceTypes, Types, remote, faults
  <2> QED BY <1>0, <1>1, <1>3, <2>2, <2>3, <2>4, <2>5, <2>6, WritingStep
<1>7. CASE (ClaimUpdate(k) \/ SetPhaseUpdate(k)) /\ ~CopyIsCurrent(k)
  <2>1. /\ UNCHANGED <<obj, outdated, view, topic, remote, faults>>
        /\ \/ Goto(k, "release") /\ trigger' = trigger
           \/ Leave(k, TRUE)
    BY <1>7, NothingFails DEF ClaimUpdate, SetPhaseUpdate
  <2>2. /\ work' \in [Workers -> Jobs] /\ \A l \in Workers : l # k => work'[l] = work[l]
        /\ trigger' \subseteq Workers
        /\ \/ work'[k].pc = "release" /\ work'[k].w = w
           \/ work'[k].pc = "idle" /\ work'[k].w = None
    <3>1. "release" \in Steps \ {"idle"}
      BY DEF Steps
    <3> QED BY <1>1, <1>3, <2>1, <3>1, GotoJob, LeaveJob
  <2>3. RaceTypes'
    BY <1>1, <1>3, <2>1, <2>2 DEF RaceTypes, Types, remote, faults
  <2>4. \A v : ~Pursues(k, v)
    BY <1>7 DEF Pursues, ClaimUpdate, SetPhaseUpdate, CopyIsCurrent
  <2> QED BY <1>0, <1>1, <2>1, <2>2, <2>3, <2>4, QuietStep
<1> QED BY <1>4, <1>5, <1>6, <1>7

LEMMA RaceInvNext == RaceInv /\ [Next]_vars => RaceInv'
<1> SUFFICES ASSUME RaceInv, [Next]_vars, Reliable
             PROVE  RaceTypes' /\ Pursued'
  <2>1. [Next]_vars => (Reliable' => Reliable)
    BY DeploymentStays DEF Reliable
  <2> QED BY <2>1 DEF RaceInv
<1>1. RaceTypes /\ Pursued
  BY DEF RaceInv
<1>2. deployment.pods \subseteq Workers /\ deployment.submitted \subseteq Workloads
  BY <1>1, DeploymentType DEF RaceTypes
<1>3. CASE UNCHANGED vars
  BY <1>1, <1>3 DEF RaceTypes, Types, Pursued, Unknown, Announced, Pursues, vars, discovery, remote, faults
<1>4. CASE \E w \in deployment.submitted : Schedule(w) \/ MarkVictim(w) \/ RunEnds(w)
  BY <1>1, <1>2, <1>4, OperatorRaces
<1>5. ASSUME NEW k \in deployment.pods, Informer(k) \/ Loop(k) \/ ClaimFails(k) \/ Crash(k)
      PROVE  RaceTypes' /\ Pursued'
  BY <1>1, <1>2, <1>5, NothingFails, DiscoveryRaces, QuietRaces, WritingRaces DEF Loop
<1> QED BY <1>3, <1>4, <1>5 DEF Next

\* Workers that race for a workload do not all lose, with every kind of discovery
\* and for any number of workers: the last one to write the annotation and read
\* the object again is the one whose status update claimWorkload is not refused.
THEOREM RaceHasWinner == Spec => []ClaimIsPursued
<1>1. Init => RaceInv
  <2> SUFFICES ASSUME Init PROVE RaceTypes /\ Pursued
    BY DEF RaceInv
  <2>1. Idle \in Jobs /\ Idle.pc = "idle" /\ Idle.w = None
    BY DEF Idle, Jobs, Steps
  <2>2. \A k \in Workers : work[k] \in Jobs /\ work[k].pc = "idle" /\ work[k].w = None
    BY <2>1 DEF Init
  <2>3. work \in [Workers -> Jobs]
    BY <2>1 DEF Init
  <2>4. obj \in [Workloads -> [phase : Phases, claim : Workers \cup {None}]]
    BY DEF Init, Phases
  <2>5. /\ run \in [Workloads -> {"none", "Running", "Ended", "Succeeded"}]
        /\ starts \in [Workloads -> Nat] /\ lost \in Nat /\ crashes \in Nat
        /\ deployment \in Deployments /\ view = [k \in Workers |-> {}]
    BY DEF Init
  <2>6. trigger \subseteq Workers
    BY <2>5, WorkerPoolAssumption DEF Init
  <2>7. /\ topic \in [Workloads -> [sent : Nat, read : Nat]]
        /\ \A w \in Workloads : topic[w].sent = 0 /\ topic[w].read = 0 /\ obj[w].claim = None
    BY DEF Init
  <2>8. RaceTypes
    BY <2>2, <2>3, <2>4, <2>5, <2>6, <2>7 DEF RaceTypes, Types
  <2>9. Pursued
    BY <2>2, <2>5, <2>7, WorkerPoolAssumption DEF Pursued, Unknown, Announced
  <2> QED BY <2>8, <2>9
<1>2. RaceInv => ClaimIsPursued
  BY DEF RaceInv, Pursued, Pursues, ClaimIsPursued
<1> QED BY <1>1, <1>2, RaceInvNext, PTL DEF Spec
===============================================================================
