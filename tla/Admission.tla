----------------------------- MODULE Admission -----------------------------
(***************************************************************************)
(* The admission policy of internal/scheduler, as operators.               *)
(*                                                                         *)
(* A scheduling input is a record with the fields of SchedulingInputs:     *)
(*   queued, scheduled, running   sequences of workloads (Go slices)       *)
(*   fleet    for each profile of the namespace its free devices and       *)
(*            memory, and the memory per device                            *)
(*   quotas   for each tenant maxGPUs and weight, 0 where there is none    *)
(* A workload is a record with the fields id, tenant, priority, at         *)
(* (QueuedAt or StartedAt), gpuCount, memMiB, profile and wellFormed: the  *)
(* fields that only Validate looks at are acceptable.                      *)
(*                                                                         *)
(* Slices are sorted stably.  Here the sorted slice is the order relation  *)
(* on the indices of the unsorted one, the index being the last tie-break. *)
(***************************************************************************)
EXTENDS Integers, Sequences, FiniteSetsExt

CONSTANT HardwareProfiles   \* the profiles the simulator has metadata for

GPUs(s, I) == MapThenSumSet(LAMBDA i : s[i].gpuCount, I)

-----------------------------------------------------------------------------
\* Validate: the cycle skips a namespace whose inputs it rejects.
Validate(in) ==
  LET all == in.queued \o in.scheduled \o in.running
  IN  /\ \A i \in DOMAIN all : all[i].wellFormed /\ all[i].memMiB > 0
      /\ \A i, j \in DOMAIN all : all[i].id = all[j].id => i = j
      /\ \A p \in DOMAIN in.fleet :
           /\ in.fleet[p].freeDevices >= 0
           /\ in.fleet[p].freeMemMiB >= 0
           /\ in.fleet[p].freeDevices > 0 => in.fleet[p].memMiBPerDevice > 0

CompatibleProfileAndKind(w, fleet) ==
  w.profile \in DOMAIN fleet \cap HardwareProfiles

FitsGPUCount(w, fleet) == fleet[w.profile].freeDevices >= w.gpuCount

\* A profile without memory per device is an error, which is no fit either.
FitsPerDeviceMemory(w, fleet) ==
  /\ fleet[w.profile].memMiBPerDevice > 0
  /\ fleet[w.profile].memMiBPerDevice >= w.memMiB

TenantGPUsUsed(in, tenant) ==
  LET all == in.scheduled \o in.running
  IN  GPUs(all, {i \in DOMAIN all : all[i].tenant = tenant})

ExceedsTenantGPUCap(w, in) ==
  LET cap == in.quotas[w.tenant].maxGPUs
  IN  cap # 0 /\ TenantGPUsUsed(in, w.tenant) + w.gpuCount > cap

-----------------------------------------------------------------------------
\* Mutant of OrderQueued: the priority comparison is the wrong way round.
OrderQueuedAscending(q, i, j) ==
  \/ q[i].priority < q[j].priority
  \/ q[i].priority = q[j].priority /\ q[i].at < q[j].at
  \/ q[i].priority = q[j].priority /\ q[i].at = q[j].at /\ i < j

\* q[i] comes before q[j] in OrderQueued(q).
OrderQueued(q, i, j) ==
  \/ q[i].priority > q[j].priority
  \/ q[i].priority = q[j].priority /\ q[i].at < q[j].at
  \/ q[i].priority = q[j].priority /\ q[i].at = q[j].at /\ i < j

Weight(quotas, tenant) ==
  IF quotas[tenant].weight > 0 THEN quotas[tenant].weight ELSE 1

\* The round of the outer loop in which q[i] is taken: each round takes as many
\* workloads of a tenant as its weight, in their order.
Round(q, quotas, i) ==
  Cardinality({j \in DOMAIN q : q[j].tenant = q[i].tenant /\ OrderQueued(q, j, i)})
    \div Weight(quotas, q[i].tenant)

\* Mutant of TenantBefore: the tenants are visited from last to first.
TenantBeforeReversed(q, s, t) ==
  \E i \in DOMAIN q : /\ q[i].tenant = t
                      /\ \A j \in DOMAIN q : q[j].tenant = s => OrderQueued(q, i, j)

\* Tenant s appears before tenant t in the ordered queue.
TenantBefore(q, s, t) ==
  \E i \in DOMAIN q : /\ q[i].tenant = s
                      /\ \A j \in DOMAIN q : q[j].tenant = t => OrderQueued(q, i, j)

\* q[i] comes before q[j] in WeightedRoundRobinByTenant(OrderQueued(q), quotas).
WeightedRoundRobinByTenant(q, quotas, i, j) ==
  LET ri == Round(q, quotas, i)
      rj == Round(q, quotas, j)
  IN  \/ ri < rj
      \/ ri = rj /\ TenantBefore(q, q[i].tenant, q[j].tenant)
      \/ ri = rj /\ q[i].tenant = q[j].tenant /\ OrderQueued(q, i, j)

-----------------------------------------------------------------------------
\* r[i] comes before r[j] in the candidates that buildPreemptionContext sorts.
VictimOrder(r, i, j) ==
  \/ r[i].priority < r[j].priority
  \/ r[i].priority = r[j].priority /\ r[i].at > r[j].at
  \/ r[i].priority = r[j].priority /\ r[i].at = r[j].at /\ i < j

\* Mutant of GreedyOrder: the smallest workloads first.
GreedySmallestFirst(r, i, j) ==
  \/ r[i].gpuCount < r[j].gpuCount
  \/ r[i].gpuCount = r[j].gpuCount /\ VictimOrder(r, i, j)

\* r[i] comes before r[j] in the order greedyPickVictimsByGPUCount picks in.
GreedyOrder(r, i, j) ==
  \/ r[i].gpuCount > r[j].gpuCount
  \/ r[i].gpuCount = r[j].gpuCount /\ r[i].at > r[j].at
  \/ r[i].gpuCount = r[j].gpuCount /\ r[i].at = r[j].at /\ VictimOrder(r, i, j)

\* The GPUs that victims have to free, and the workloads that may be victims;
\* 0 where there is nothing to free or freeing GPUs does not help.
needToFree(w, in) ==
  IF CompatibleProfileAndKind(w, in.fleet) /\ FitsPerDeviceMemory(w, in.fleet)
     /\ ~FitsGPUCount(w, in.fleet)
  THEN w.gpuCount - in.fleet[w.profile].freeDevices
  ELSE 0

candidates(w, in) == {i \in DOMAIN in.running : in.running[i].profile = w.profile}

\* The candidates that are picked until need is freed; before is the order, as a
\* set of pairs.
PickUntilFreed(r, C, need, before) ==
  {i \in C : GPUs(r, {j \in C : <<j, i>> \in before}) < need}

\* Indices of the victims, {} if there are none or not enough.  (Only tests
\* call this one.)
SelectPreemptionVictims(w, in) ==
  LET need == needToFree(w, in)
      C == candidates(w, in)
  IN  IF need = 0 \/ GPUs(in.running, C) < need THEN {}
      ELSE PickUntilFreed(in.running, C, need,
             {e \in C \X C : VictimOrder(in.running, e[1], e[2])})

\* The candidates up to the lowest priority that frees enough, largest first.
SelectPreemptionVictimsGreedyMinimal(w, in) ==
  LET need == needToFree(w, in)
      C == candidates(w, in)
      upTo(p) == {i \in C : in.running[i].priority <= p}
      bands == {p \in {in.running[i].priority : i \in C} :
                  GPUs(in.running, upTo(p)) >= need}
  IN  IF need = 0 \/ bands = {} THEN {}
      ELSE PickUntilFreed(in.running, upTo(Min(bands)), need,
             {e \in C \X C : GreedyOrder(in.running, e[1], e[2])})

-----------------------------------------------------------------------------
\* The index in the queue of the workload to admit, 0 for none, and the
\* indices of the victims among the running workloads.
SelectOneForAdmission(in) ==
  LET q == in.queued
      first(I) == CHOOSE i \in I : \A j \in I \ {i} :
                    WeightedRoundRobinByTenant(q, in.quotas, i, j)
      open == {i \in DOMAIN q : /\ ~ExceedsTenantGPUCap(q[i], in)
                                /\ CompatibleProfileAndKind(q[i], in.fleet)}
      fitting == {i \in open : /\ FitsGPUCount(q[i], in.fleet)
                               /\ FitsPerDeviceMemory(q[i], in.fleet)}
      preempting == {i \in open : SelectPreemptionVictimsGreedyMinimal(q[i], in) # {}}
  IN  CASE fitting # {} -> [index |-> first(fitting), victims |-> {}]
        [] fitting = {} /\ preempting # {} ->
             LET i == first(preempting)
             IN  [index |-> i, victims |-> SelectPreemptionVictimsGreedyMinimal(q[i], in)]
        [] OTHER -> [index |-> 0, victims |-> {}]

\* The loop that copies the queue without w.
RemoveFrom(q, w) ==
  LET kept[n \in 0 .. Len(q)] ==
        IF n = 0 THEN << >>
        ELSE IF q[n].id # w.id THEN Append(kept[n - 1], q[n]) ELSE kept[n - 1]
  IN  kept[Len(q)]

\* Mutant of ApplyVirtualAdmission: the admitted workload uses no quota.
ApplyVirtualAdmissionNoUsage(in, w, now) ==
  [in EXCEPT !.queued = RemoveFrom(@, w),
             !.fleet[w.profile].freeDevices = @ - w.gpuCount]

\* The inputs after w is admitted.
ApplyVirtualAdmission(in, w, now) ==
  LET cap == in.fleet[w.profile]
  IN  [in EXCEPT !.queued = RemoveFrom(@, w),
                 !.running = Append(@, [w EXCEPT !.at = now]),
                 !.fleet[w.profile] =
                   [cap EXCEPT !.freeDevices = @ - w.gpuCount,
                               !.freeMemMiB = @ - w.gpuCount * cap.memMiBPerDevice]]

\* Mutant of VirtualAdmissionOK: negative capacity is accepted.
VirtualAdmissionAlwaysOK(in, w) == TRUE

\* ApplyVirtualAdmission returns no error: the capacity stays non-negative.
VirtualAdmissionOK(in, w) ==
  LET cap == in.fleet[w.profile]
  IN  /\ cap.freeDevices >= w.gpuCount
      /\ cap.freeMemMiB >= w.gpuCount * cap.memMiBPerDevice
=============================================================================
