--------------------------- MODULE SchedulingCycle ---------------------------
(***************************************************************************)
(* One namespace of one scheduling cycle (runSchedulingCycle): up to       *)
(* MaxAdmissionsPerCycle workloads are chosen one after the other, each on *)
(* a copy of the snapshot to which the previous ones are already applied.  *)
(* Each action is one iteration of the loop with one outcome of its calls  *)
(* to the API server.                                                      *)
(***************************************************************************)
EXTENDS Admission

CONSTANTS
  Ids, Tenants, Profiles,
  Inputs,                 \* the snapshots to start from
  MaxAdmissionsPerCycle,
  Now                     \* the time of the cycle

\* A workload, queued or running.  Validate rejects one without GPUs.
QueuedWorkload ==
  {w \in [id : Ids, tenant : Tenants, priority : Int, at : Int, gpuCount : Int,
          memMiB : Int, profile : Profiles, wellFormed : BOOLEAN] :
     w.wellFormed => w.gpuCount > 0}

ProfileFreeCapacity == [freeDevices : Int, freeMemMiB : Int, memMiBPerDevice : Int]

TenantQuota == [maxGPUs : Int, weight : Int]

\* P: the profiles of the fleet.
SchedulingInputs(P) ==
  [queued : Seq(QueuedWorkload), scheduled : Seq(QueuedWorkload), running : Seq(QueuedWorkload),
   fleet : [P -> ProfileFreeCapacity], quotas : [Tenants -> TenantQuota]]

ASSUME CycleAssumption ==
  /\ MaxAdmissionsPerCycle \in Nat \ {0}
  /\ Now \in Int
  /\ \A in \in Inputs : \E P \in SUBSET Profiles : in \in SchedulingInputs(P)

VARIABLES
  inputs,     \* the snapshot
  working,    \* the snapshot with the admissions of this cycle applied
  admitted,   \* the workloads admitted, in order
  victims,    \* the workloads preempted
  pc          \* "select": in the loop; "done": after it; "failed": after a
              \* break on an API error

vars == <<inputs, working, admitted, victims, pc>>

Init ==
  /\ inputs \in Inputs
  /\ working = inputs
  /\ admitted = << >>
  /\ victims = {}
  /\ pc = IF Validate(inputs) /\ inputs.queued # << >> THEN "select" ELSE "done"

choice == SelectOneForAdmission(working)

chosen == working.queued[choice.index]

\* The first k victims, in the order in which they are preempted.
FirstVictims(k) ==
  {working.running[i] : i \in
     {j \in choice.victims :
        Cardinality({h \in choice.victims : GreedyOrder(working.running, h, j)}) < k}}

NoCandidate ==
  /\ pc = "select"
  /\ choice.index = 0
  /\ pc' = "done"
  /\ UNCHANGED <<inputs, working, admitted, victims>>

\* All victims are preempted and the workload is patched to Scheduled.
Admit ==
  /\ pc = "select"
  /\ choice.index # 0
  /\ victims' = victims \cup FirstVictims(Cardinality(choice.victims))
  /\ admitted' = Append(admitted, chosen)
  /\ IF VirtualAdmissionOK(working, chosen)
       THEN /\ working' = ApplyVirtualAdmission(working, chosen, Now)
            /\ pc' = IF Len(admitted') < MaxAdmissionsPerCycle THEN "select" ELSE "done"
       ELSE /\ pc' = "done"
            /\ UNCHANGED working
  /\ UNCHANGED inputs

\* Marking a victim fails: the ones before it stay preempted.
PreemptFails ==
  /\ pc = "select"
  /\ choice.index # 0
  /\ \E k \in 0 .. Cardinality(choice.victims) - 1 :
       victims' = victims \cup FirstVictims(k)
  /\ pc' = "failed"
  /\ UNCHANGED <<inputs, working, admitted>>

\* Patching the workload fails: its victims stay preempted.
PatchFails ==
  /\ pc = "select"
  /\ choice.index # 0
  /\ victims' = victims \cup FirstVictims(Cardinality(choice.victims))
  /\ pc' = "failed"
  /\ UNCHANGED <<inputs, working, admitted>>

Next == NoCandidate \/ Admit \/ PreemptFails \/ PatchFails

Spec == Init /\ [][Next]_vars
-----------------------------------------------------------------------------
SumOver(S) == MapThenSumSet(LAMBDA w : w.gpuCount, S)

AdmittedOnes == {admitted[i] : i \in DOMAIN admitted}

QueuedOnes == {inputs.queued[i] : i \in DOMAIN inputs.queued}

\* What a cycle admits fits, all together.  Without preemption the workloads fit
\* into the capacity of the snapshot: the virtual admissions of a batch
\* (inputs.go:282-324) stand for devices that the simulator has not allocated
\* yet.  And none takes its tenant over MaxGPUs, counting what is scheduled and
\* running in the snapshot (selection.go:33, fairness.go:18-25).
BatchFits ==
  /\ victims = {} =>
       \A p \in DOMAIN inputs.fleet :
         LET mine == {w \in AdmittedOnes : w.profile = p}
         IN  mine # {} => SumOver(mine) <= inputs.fleet[p].freeDevices
  /\ \A t \in DOMAIN inputs.quotas :
       LET mine == {w \in AdmittedOnes : w.tenant = t}
           cap == inputs.quotas[t].maxGPUs
       IN  mine # {} /\ cap # 0 => TenantGPUsUsed(inputs, t) + SumOver(mine) <= cap

\* A preemption is the last thing a cycle does: victims of an earlier admission
\* are never counted as free or as victims again (the virtual admission fails,
\* inputs.go:315-317).
PreemptionEndsCycle == victims # {} => pc # "select"

\* The victims of an admission free enough; none of them is spared without
\* missing the goal; no set of workloads that are all of lower priority than the
\* highest victim would do (preemption.go:103-109); and there are no more of them
\* than SelectPreemptionVictims would take.
VictimsAreNeeded ==
  [][ Admit /\ choice.victims # {} =>
        LET w == chosen
            V == {working.running[i] : i \in choice.victims}
            need == w.gpuCount - working.fleet[w.profile].freeDevices
            top == Max({v.priority : v \in V})
            lower == {working.running[i] : i \in
                        {j \in DOMAIN working.running :
                           /\ working.running[j].profile = w.profile
                           /\ working.running[j].priority < top}}
        IN  /\ SumOver(V) >= need
            /\ \A v \in V : SumOver(V \ {v}) < need
            /\ SumOver(lower) < need
            /\ Cardinality(V) <= Cardinality(SelectPreemptionVictims(w, working)) ]_vars

\* Nobody is overtaken by a workload of the same tenant that has lower priority
\* or was queued later, if it fits as well (ordering.go, selection.go:39-57).
NoOvertakingWithinTenant ==
  [][ Admit /\ choice.victims = {} =>
        ~\E i \in DOMAIN working.queued :
           LET u == working.queued[i]
           IN  /\ u.tenant = chosen.tenant
               /\ \/ u.priority > chosen.priority
                  \/ u.priority = chosen.priority /\ u.at < chosen.at
               /\ u.gpuCount <= chosen.gpuCount
               /\ u.memMiB <= chosen.memMiB
               /\ u.profile = chosen.profile ]_vars

\* The fleet and the tenants' caps have room for the whole queue.
RoomForAll ==
  /\ \A w \in QueuedOnes : /\ CompatibleProfileAndKind(w, inputs.fleet)
                           /\ FitsPerDeviceMemory(w, inputs.fleet)
  /\ \A p \in DOMAIN inputs.fleet :
       SumOver({w \in QueuedOnes : w.profile = p}) <= inputs.fleet[p].freeDevices
  /\ \A t \in DOMAIN inputs.quotas :
       \/ inputs.quotas[t].maxGPUs = 0
       \/ TenantGPUsUsed(inputs, t) + SumOver({w \in QueuedOnes : w.tenant = t})
            <= inputs.quotas[t].maxGPUs

\* Where there is room for all, a batch admits higher priorities strictly before
\* lower ones, also across tenants and whatever their weights (README.md:15, 88):
\* the round robin is computed anew for every admission (scheduler_loop.go:302,
\* selection.go:24-26), so each time it starts with the most urgent workload.
HigherPriorityFirst ==
  RoomForAll =>
    \A i \in DOMAIN admitted, w \in QueuedOnes :
      w.priority > admitted[i].priority => \E j \in 1 .. i - 1 : admitted[j] = w
-----------------------------------------------------------------------------
\* README.md:16, "high-priority work evicts lower-priority running workloads":
\* every victim has a lower priority than the workload it makes room for.
VictimsHaveLowerPriority ==
  [][ Admit => \A i \in choice.victims :
        working.running[i].priority < chosen.priority ]_vars
==============================================================================
