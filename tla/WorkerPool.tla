----------------------------- MODULE WorkerPool -----------------------------
(***************************************************************************)
(* The worker deployment (internal/worker, cmd/worker-deployment): worker  *)
(* pods that discover Scheduled workloads through an informer ("watch"),   *)
(* by listing ("poll") or from a Kafka topic ("queue"), claim one at a     *)
(* time, run it on the remote simulator and write its final phase.         *)
(*                                                                         *)
(* Workers read the API server itself, not a cache.  A status update is    *)
(* refused when the object has changed since the worker read it; the merge *)
(* patch that writes the claim carries no version and is never refused.    *)
(* The operator appears as the two writes it makes to these workloads; the *)
(* remote simulator is the set of workloads that hold devices and the      *)
(* latest run of each (Simulator models it in full).                       *)
(***************************************************************************)
EXTENDS Naturals, FiniteSets, FiniteSetsExt

CONSTANTS Workers,
          Workloads,
          GPUCount,    \* [Workloads -> devices each one needs]
          Capacity,    \* devices of the remote fleet
          Deployments, \* the deployments to consider
          MaxStarts,   \* bound: runs of one workload that are told apart
          None

\* A deployment: how its workers discover work, its pods, the workloads it gets,
\* which of them the scheduler may preempt and which have a runtime input that
\* the simulator rejects; and bounds on the messages that are sent for one
\* workload by cycles with old buckets, on the calls that fail or lose their
\* answer and on the pods that die.
ASSUME WorkerPoolAssumption ==
  /\ IsFiniteSet(Workers) /\ Capacity \in Nat /\ MaxStarts \in Nat \ {0}
  /\ GPUCount \in [Workloads -> Nat \ {0}]
  /\ Deployments \subseteq
       [mode : {"watch", "poll", "queue"}, pods : SUBSET Workers,
        submitted : SUBSET Workloads, preemptible : SUBSET Workloads,
        rejected : SUBSET Workloads, maxSent : Nat, maxLost : Nat, maxCrashes : Nat]
  /\ None \notin Workers \cup Workloads

VARIABLES deployment,
          obj,      \* API server: phase and claimed-by annotation
          outdated, \* workers whose copy of their workload is not the latest
          view,     \* workloads a worker's store or list shows as claimable
          trigger,  \* workers whose TriggerCh holds a token
          topic,    \* gpu.workloads.claimable: the messages that were sent for
                    \* each workload, and those of them that were read
          work,     \* where each worker is, and with which workload
          alloc,    \* remote simulator: the workloads that hold devices
          run,      \* remote simulator: the latest run of each workload
          starts,   \* runs of each workload so far
          lost, crashes

discovery == <<view, trigger, topic>>
remote == <<alloc, run, starts>>
faults == <<deployment, lost, crashes>>
vars == <<obj, outdated, discovery, work, remote, faults>>

Mode == deployment.mode

Terminal == {"Succeeded", "Failed", "Preempted"}
Phases == {"Queued", "Scheduled", "Running"} \cup Terminal
Claiming == {"get", "patch", "reget", "update"}
Steps == {"idle", "allocate", "start", "poll", "phase", "store", "release"}
           \cup Claiming

\* "to" is the phase the worker is to write; "frees" whether it calls Release
\* after that.
Idle == [pc |-> "idle", w |-> None, to |-> None, frees |-> FALSE]

Init ==
  /\ deployment \in Deployments
  /\ obj = [w \in Workloads |-> [phase |-> "Queued", claim |-> None]]
  /\ outdated = {}
  /\ view = [k \in Workers |-> {}]
  /\ trigger = IF Mode = "watch" THEN deployment.pods ELSE {}
  /\ topic = [w \in Workloads |-> [sent |-> 0, read |-> 0]]
  /\ work = [k \in Workers |-> Idle]
  /\ alloc = {}
  /\ run = [w \in Workloads |-> "none"]
  /\ starts = [w \in Workloads |-> 0]
  /\ lost = 0 /\ crashes = 0

-----------------------------------------------------------------------------
\* A write of o to workload w.  One that changes nothing makes no new version.
Store(w, o) ==
  /\ obj' = [obj EXCEPT ![w] = o]
  /\ outdated' = outdated \cup {k \in Workers : work[k].w = w /\ o # obj[w]}

\* isScheduledAndUnclaimedUnstructured, and the same test in each loop.
IsScheduledAndUnclaimed(w) == obj[w].phase = "Scheduled" /\ obj[w].claim = None

CopyIsCurrent(k) == k \notin outdated

Goto(k, pc) == work' = [work EXCEPT ![k].pc = pc]

\* Mutant of Leave: the watch loop waits for the next event.
LeaveQuietly(k, retrigger) ==
  work' = [work EXCEPT ![k] = Idle] /\ retrigger \in BOOLEAN /\ UNCHANGED trigger

\* Back to the top of the loop; retrigger: the loop puts a token in TriggerCh.
Leave(k, retrigger) ==
  /\ work' = [work EXCEPT ![k] = Idle]
  /\ trigger' = IF Mode = "watch" /\ retrigger THEN trigger \cup {k} ELSE trigger

CanFail == lost < deployment.maxLost /\ lost' = lost + 1 /\ UNCHANGED <<deployment, crashes>>

-----------------------------------------------------------------------------
(* The operator. *)

\* Produce, which is best effort: its failure is logged.  The writer tries again
\* when an acknowledgement is lost, so the message may be there twice.
Produce(w) ==
  LET Send(n) == topic' = [topic EXCEPT ![w].sent = @ + n]
  IN  \/ Send(IF Mode = "queue" THEN 1 ELSE 0) /\ UNCHANGED faults
      \/ Mode = "queue" /\ CanFail /\ (Send(0) \/ Send(2))

\* Mutant of Schedule: the phase is not looked at before it is written.
ScheduleAnyPhase(w) ==
  /\ obj[w].phase = "Queued" \/ topic[w].sent < deployment.maxSent
  /\ Store(w, [obj[w] EXCEPT !.phase = "Scheduled"])
  /\ Produce(w)
  /\ UNCHANGED <<view, trigger, work, remote>>

\* patchWorkloadAdmittedAndScheduled.  A cycle whose buckets are old chooses a
\* workload that is no longer Queued: nothing is written then, and the message
\* is sent all the same.
Schedule(w) ==
  /\ \/ /\ obj[w].phase = "Queued"
        /\ Store(w, [obj[w] EXCEPT !.phase = "Scheduled"])
     \/ /\ obj[w].phase # "Queued" /\ topic[w].sent < deployment.maxSent
        /\ UNCHANGED <<obj, outdated>>
  /\ Produce(w)
  /\ UNCHANGED <<view, trigger, work, remote>>

\* markVictimsPreemptedAndReleaseAllocation.  It releases in the operator's own
\* simulator; nothing reaches the remote one.
MarkVictim(w) ==
  /\ w \in deployment.preemptible /\ obj[w].phase = "Running"
  /\ Store(w, [obj[w] EXCEPT !.phase = "Preempted"])
  /\ UNCHANGED <<discovery, work, remote, faults>>

-----------------------------------------------------------------------------
(* Discovery. *)

\* The informer of worker k catches up with workload w.
InformerEvent(k, w) ==
  /\ Mode = "watch"
  /\ (w \in view[k]) # IsScheduledAndUnclaimed(w)
  /\ IF IsScheduledAndUnclaimed(w)
     THEN /\ view' = [view EXCEPT ![k] = @ \cup {w}]
          /\ trigger' = trigger \cup {k}
     ELSE view' = [view EXCEPT ![k] = @ \ {w}] /\ UNCHANGED trigger
  /\ UNCHANGED <<obj, outdated, topic, work, remote, faults>>

\* RunDeploymentLoopWatch takes the token and reads the informer's store.
findClaimableFromStore(k) ==
  /\ k \in trigger /\ work[k] = Idle
  /\ trigger' = trigger \ {k}
  /\ IF view[k] = {}
     THEN UNCHANGED work
     ELSE \E w \in view[k] : work' = [work EXCEPT ![k].pc = "get", ![k].w = w]
  /\ UNCHANGED <<obj, outdated, view, topic, remote, faults>>

\* findAndClaimScheduledWorkload: the List.  An empty one is tried again later.
List(k) ==
  /\ Mode = "poll" /\ work[k] = Idle /\ view[k] = {}
  /\ \E w \in Workloads : IsScheduledAndUnclaimed(w)
  /\ view' = [view EXCEPT ![k] = {w \in Workloads : IsScheduledAndUnclaimed(w)}]
  /\ UNCHANGED <<obj, outdated, trigger, topic, work, remote, faults>>

\* findAndClaimScheduledWorkload: the loop takes the next item of its list.
NextItem(k) ==
  /\ Mode = "poll" /\ work[k] = Idle
  /\ \E w \in view[k] :
       /\ work' = [work EXCEPT ![k].pc = "get", ![k].w = w]
       /\ view' = [view EXCEPT ![k] = @ \ {w}]
  /\ UNCHANGED <<obj, outdated, trigger, topic, remote, faults>>

\* Mutant of ReadMessage: a message that is being worked on is delivered again.
ReadMessageAgain(k) ==
  /\ work[k] = Idle
  /\ \E w \in Workloads :
       /\ topic[w].read < topic[w].sent
       /\ IF IsScheduledAndUnclaimed(w)
          THEN work' = [work EXCEPT ![k].pc = "get", ![k].w = w] /\ UNCHANGED topic
          ELSE topic' = [topic EXCEPT ![w].read = @ + 1] /\ UNCHANGED work
  /\ UNCHANGED <<obj, outdated, view, trigger, remote, faults>>

\* RunDeploymentLoopQueue: ReadMessage commits the offset before the workload
\* is looked at; a workload that is not claimable is dropped, and so is one
\* whose Get fails.  Messages of one workload may be in different partitions.
ReadMessage(k) ==
  /\ work[k] = Idle
  /\ \E w \in Workloads :
       /\ topic[w].read < topic[w].sent
       /\ topic' = [topic EXCEPT ![w].read = @ + 1]
       /\ \/ /\ IF IsScheduledAndUnclaimed(w)
                THEN work' = [work EXCEPT ![k].pc = "get", ![k].w = w]
                ELSE UNCHANGED work
             /\ UNCHANGED faults
          \/ CanFail /\ UNCHANGED work
  /\ UNCHANGED <<obj, outdated, view, trigger, remote>>

-----------------------------------------------------------------------------
(* claimWorkload. *)

\* The first Get.  The claim annotation is not looked at again, and a workload
\* that is no longer Scheduled makes claimWorkload return nil, which its
\* callers take for a claim.
ClaimGet(k) ==
  /\ work[k].pc = "get"
  /\ IF obj[work[k].w].phase = "Scheduled"
     THEN Goto(k, "patch") /\ UNCHANGED view
     ELSE Goto(k, "allocate") /\ view' = IF Mode = "poll" THEN [view EXCEPT ![k] = {}] ELSE view
  /\ UNCHANGED <<obj, outdated, trigger, topic, remote, faults>>

\* The merge patch of the annotation: no version, so the last writer wins.
ClaimPatch(k) ==
  /\ work[k].pc = "patch"
  /\ Store(work[k].w, [obj[work[k].w] EXCEPT !.claim = k])
  /\ Goto(k, "reget")
  /\ UNCHANGED <<discovery, remote, faults>>

\* Mutant of ClaimReget: the status update uses the copy from before the patch.
ClaimWithoutReget(k) ==
  /\ work[k].pc = "reget"
  /\ Goto(k, "update")
  /\ UNCHANGED <<obj, outdated, discovery, remote, faults>>

\* The second Get.  The phase and the claim it returns are not looked at.
ClaimReget(k) ==
  /\ work[k].pc = "reget"
  /\ outdated' = outdated \ {k}
  /\ Goto(k, "update")
  /\ UNCHANGED <<obj, discovery, remote, faults>>

\* Status().Update.  After a conflict the watch loop triggers itself, the poll
\* loop goes on with its list and the queue loop reads the next message.
ClaimUpdate(k) ==
  /\ work[k].pc = "update"
  /\ IF CopyIsCurrent(k)
     THEN /\ Store(work[k].w, [obj[work[k].w] EXCEPT !.phase = "Running"])
          /\ Goto(k, "allocate")
          /\ view' = IF Mode = "poll" THEN [view EXCEPT ![k] = {}] ELSE view
          /\ UNCHANGED trigger
     ELSE /\ Leave(k, TRUE)
          /\ UNCHANGED <<obj, outdated, view>>
  /\ UNCHANGED <<topic, remote, faults>>

\* One of the four calls fails for another reason: the loop drops the workload
\* (the poll loop drops its list), and the watch loop does not trigger itself.
ClaimFails(k) ==
  /\ work[k].pc \in Claiming
  /\ CanFail
  /\ Leave(k, FALSE)
  /\ view' = IF Mode = "poll" THEN [view EXCEPT ![k] = {}] ELSE view
  /\ UNCHANGED <<obj, outdated, topic, remote>>

-----------------------------------------------------------------------------
(* runOneWorkload. *)

\* setWorkloadPhase(phase), then Release if frees.
WritePhase(k, phase, frees) ==
  work' = [work EXCEPT ![k].pc = "phase", ![k].to = phase, ![k].frees = frees]

\* The remote AllocateWithOptions finds enough free devices (400 otherwise).
Fits(w) ==
  MapThenSumSet(LAMBDA v : GPUCount[v], alloc) + GPUCount[w] <= Capacity

\* HTTPSimClient.Allocate takes 409 (already allocated) for success.  When the
\* answer is lost the devices may have been taken, and nothing gives them back.
Allocate(k) ==
  LET w == work[k].w
      taken == IF w \in alloc \/ Fits(w) THEN alloc \cup {w} ELSE alloc IN
  /\ work[k].pc = "allocate"
  /\ \/ /\ alloc' = taken
        /\ IF w \in taken THEN Goto(k, "start") ELSE WritePhase(k, "Failed", FALSE)
        /\ UNCHANGED faults
     \/ CanFail /\ alloc' \in {alloc, taken} /\ WritePhase(k, "Failed", FALSE)
  /\ UNCHANGED <<obj, outdated, discovery, run, starts>>

\* StartWithRuntimeInput accepts: its input is valid, the workload has devices
\* and no run that nobody has read as ended.
CanStart(w) ==
  w \notin deployment.rejected /\ w \in alloc /\ run[w] \notin {"Running", "Ended"}

Begin(w) ==
  /\ CanStart(w)
  /\ run' = [run EXCEPT ![w] = "Running"]
  /\ starts' = [starts EXCEPT ![w] = Min({@ + 1, MaxStarts})]

\* HTTPSimClient.Start takes 409 (already running) and 400 for an error; then the
\* allocation is released, whoever is running on it.  When the answer is lost
\* the run may have begun.
Start(k) ==
  LET w == work[k].w IN
  /\ work[k].pc = "start"
  /\ \/ Begin(w) /\ Goto(k, "poll") /\ UNCHANGED faults
     \/ ~CanStart(w) /\ WritePhase(k, "Failed", TRUE) /\ UNCHANGED <<run, starts, faults>>
     \/ CanFail /\ WritePhase(k, "Failed", TRUE) /\ (Begin(w) \/ UNCHANGED <<run, starts>>)
  /\ UNCHANGED <<obj, outdated, discovery, alloc>>

\* The run's time is over; it stays recorded as Running until it is read.
RunEnds(w) ==
  /\ run[w] = "Running"
  /\ run' = [run EXCEPT ![w] = "Ended"]
  /\ UNCHANGED <<obj, outdated, discovery, work, alloc, starts, faults>>

\* Mutant of GetRunStatus: a run that is going on is taken for one that is over.
GetAnyRunStatus(k) ==
  /\ work[k].pc = "poll" /\ run[work[k].w] \in {"Running", "Ended"}
  /\ WritePhase(k, "Succeeded", TRUE)
  /\ UNCHANGED <<obj, outdated, discovery, remote, faults>>

\* A worker polls the run it started.  Start refuses a second run until the
\* first is read as ended, so that run is the workload's latest.  A failing
\* GetRunStatus is tried again.
GetRunStatus(k) ==
  /\ work[k].pc = "poll" /\ run[work[k].w] = "Ended"
  /\ run' = [run EXCEPT ![work[k].w] = "Succeeded"]
  /\ WritePhase(k, "Succeeded", TRUE)
  /\ UNCHANGED <<obj, outdated, discovery, alloc, starts, faults>>

\* setWorkloadPhase: the Get.
SetPhaseGet(k) ==
  /\ work[k].pc = "phase"
  /\ outdated' = outdated \ {k}
  /\ Goto(k, "store")
  /\ UNCHANGED <<obj, discovery, remote, faults>>

AfterPhase(k) == IF work[k].frees THEN "release" ELSE "idle"

\* setWorkloadPhase: the update.  The phase it overwrites is not looked at; an
\* error is logged and the phase is not written again.
SetPhaseUpdate(k) ==
  /\ work[k].pc = "store"
  /\ \/ /\ IF CopyIsCurrent(k)
           THEN Store(work[k].w, [obj[work[k].w] EXCEPT !.phase = work[k].to])
           ELSE UNCHANGED <<obj, outdated>>
        /\ UNCHANGED faults
     \/ CanFail /\ UNCHANGED <<obj, outdated>>
  /\ IF AfterPhase(k) = "release"
     THEN Goto(k, "release") /\ UNCHANGED trigger
     ELSE Leave(k, TRUE)
  /\ UNCHANGED <<view, topic, remote>>

\* releaseRemoteAllocation: an error is logged and the devices stay allocated.
Release(k) ==
  /\ work[k].pc = "release"
  /\ \/ alloc' = alloc \ {work[k].w} /\ UNCHANGED faults
     \/ CanFail /\ UNCHANGED alloc
  /\ Leave(k, TRUE)
  /\ UNCHANGED <<obj, outdated, view, topic, run, starts>>

\* The pod dies and its replacement starts: a new informer lists the objects.
Crash(k) ==
  /\ work[k] # Idle /\ crashes < deployment.maxCrashes
  /\ crashes' = crashes + 1
  /\ Leave(k, TRUE)
  /\ view' = [view EXCEPT ![k] = IF Mode = "watch"
                                 THEN {w \in Workloads : IsScheduledAndUnclaimed(w)}
                                 ELSE {}]
  /\ UNCHANGED <<obj, outdated, topic, remote, deployment, lost>>

-----------------------------------------------------------------------------
Informer(k) == \E w \in Workloads : InformerEvent(k, w)

\* What the loop of worker k does next when nothing fails.
Loop(k) ==
  \/ findClaimableFromStore(k) \/ List(k) \/ NextItem(k) \/ ReadMessage(k)
  \/ ClaimGet(k) \/ ClaimPatch(k) \/ ClaimReget(k) \/ ClaimUpdate(k)
  \/ Allocate(k) \/ Start(k) \/ GetRunStatus(k)
  \/ SetPhaseGet(k) \/ SetPhaseUpdate(k) \/ Release(k)

Next ==
  \/ \E w \in deployment.submitted : Schedule(w) \/ MarkVictim(w) \/ RunEnds(w)
  \/ \E k \in deployment.pods : Informer(k) \/ Loop(k) \/ ClaimFails(k) \/ Crash(k)

Spec == Init /\ [][Next]_vars

\* Each worker's informer and its loop keep running, and so does the clock.
FairSpec ==
  /\ Spec
  /\ \A k \in Workers : /\ WF_vars(k \in deployment.pods /\ Informer(k))
                       /\ WF_vars(k \in deployment.pods /\ Loop(k))
  /\ \A w \in Workloads : WF_vars(RunEnds(w))

-----------------------------------------------------------------------------
(* Properties. *)

Reliable == deployment.maxLost = 0 /\ deployment.maxCrashes = 0

\* "claims one safely (annotation + status update)": a workload that is
\* admitted once is run at most once, whichever worker claims it.
RunsOnce == \A w \in Workloads : starts[w] <= 1

\* With queue discovery a workload is run no more often than messages were sent
\* for it, whatever is lost and whoever dies: a message reaches one worker, once,
\* and no worker starts twice on one message.
QueueRunsOnce == Mode = "queue" => \A w \in Workloads : starts[w] <= topic[w].sent

\* One message at most was sent for w.
SentOnce(w) == Mode = "queue" /\ topic[w].sent <= 1

\* The devices a run is using stay allocated to its workload if one message was
\* sent for it and no answer is lost: releaseRemoteAllocation is only called
\* for runs that are over, although others may run a second time meanwhile.
RunHoldsDevices ==
  \A w \in Workloads :
    SentOnce(w) /\ deployment.maxLost = 0 /\ run[w] \in {"Running", "Ended"} => w \in alloc

\* Without preemption setWorkloadPhase overwrites no phase that ends the lifecycle
\* of a workload for which one message was sent.
TerminalIsFinal ==
  [][\A w \in Workloads :
       SentOnce(w) /\ deployment.preemptible = {} /\ obj[w].phase \in Terminal =>
         obj'[w].phase = obj[w].phase]_vars

\* Workers that race for one workload do not all lose: as long as it is marked
\* as claimed and not yet Running, some worker is still going to write Running
\* and will not be refused.
ClaimIsPursued ==
  \A w \in Workloads : Reliable /\ obj[w].phase = "Scheduled" /\ obj[w].claim # None =>
    \E k \in Workers : /\ work[k].w = w
                       /\ work[k].pc = "reget" \/ (work[k].pc = "update" /\ k \notin outdated)

\* If no call is lost and no worker dies, every workload handed to the worker
\* pool reaches a terminal phase and its devices come back to the fleet, although
\* one token in the trigger channel may stand for several workloads.
EveryScheduledEnds ==
  \A w \in Workloads :
    (Reliable /\ (obj[w].phase = "Scheduled" \/ w \in alloc)) ~>
      (obj[w].phase \in Terminal /\ w \notin alloc)
=============================================================================
