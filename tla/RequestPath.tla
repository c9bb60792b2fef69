----------------------------- MODULE RequestPath -----------------------------
(***************************************************************************)
(* The checks a workload passes on its way to a device, one after another: *)
(* the submitter, the CRD schema, the scheduler's inputs and fit, the      *)
(* simulator's Allocate and Start.  Each is written without looking at the *)
(* others, so what one accepts need not be what the next one expects.      *)
(*                                                                         *)
(* An object is a request (WorkloadRequest) with the fields via, who made  *)
(* it, overhead, the value of the fractions in its payload, teacher, a     *)
(* name, and jitter, a set of at most one pct.                             *)
(***************************************************************************)
EXTENDS WorkloadRequest, RuntimeEstimate, FleetCapacity

\* A user may write an object without the submitter.
Accepted(obj) == SchemaAccepts(obj) /\ (obj.via = "submitter" => ValidateRequest(obj))

\* What Validate asks of the fields of a workload that Admission leaves out.
WellFormed(obj) ==
  /\ obj.tenant.word # "" /\ obj.profile.word # ""
  /\ obj.gpuCount > 0 /\ obj.tokens > 0
  /\ obj.kind.spelling = "exact" /\ obj.kind.word \in SupportedKinds

\* The tenant is copied, the profile trimmed and in lower case.
GPUWorkloadToQueuedWorkload(obj) ==
  [id |-> obj.id, tenant |-> obj.tenant, priority |-> 0, at |-> 0,
   gpuCount |-> obj.gpuCount, memMiB |-> obj.gpuMemoryMiB,
   profile |-> obj.profile.word, wellFormed |-> WellFormed(obj)]

\* The cycle's view of an object that is alone in its namespace.
SchedulingInputs(obj, pools) ==
  [queued |-> <<GPUWorkloadToQueuedWorkload(obj)>>, scheduled |-> << >>, running |-> << >>,
   fleet |-> aggregateFleetFromPools(pools)]

Fits(obj, pools) ==
  LET w == GPUWorkloadToQueuedWorkload(obj)
      fleet == aggregateFleetFromPools(pools)
  IN  /\ CompatibleProfileAndKind(w, fleet)
      /\ FitsGPUCount(w, fleet)
      /\ FitsPerDeviceMemory(w, fleet)

\* The free devices of the pools that an allocation may use.  The simulator has
\* the pools as they are spelled and compares profiles as they are; the caller
\* asks for the trimmed profile in lower case.
Eligible(obj, pools) ==
  MapThenSumSet(LAMBDA i : pools[i].available,
    {i \in DOMAIN pools : /\ pools[i].profile = [word |-> obj.profile.word, spelling |-> "exact"]
                          /\ pools[i].memMiB >= obj.gpuMemoryMiB})

\* One simulator serves all namespaces: Allocate takes devices of the pools of the
\* workload's own namespace and of the others'.
CanAllocate(obj, pools, others) ==
  Eligible(obj, pools) + Eligible(obj, others) >= obj.gpuCount

Spelled(kind) == IF kind.spelling = "exact" THEN kind.word ELSE kind.spelling

\* A kind that is not in the enumeration stays as it is.
MapWorkloadKind(kind) == IF kind \in {[word |-> k, spelling |-> "exact"] : k \in SupportedKinds}
                         THEN kind.word ELSE Spelled(kind)

\* Sections other than the kind's own are not looked at: one record serves all.
Sections(obj) ==
  [metric |-> obj.overhead, validation |-> obj.overhead,
   warmStart |-> obj.overhead, checkpointLoad |-> obj.overhead,
   tokenization |-> obj.overhead, augmentation |-> obj.overhead,
   teacherForward |-> obj.overhead, teacher |-> obj.teacher.word]

\* What the reconciler starts, and what a worker starts.
buildRuntimeInput(obj) ==
  [kind |-> MapWorkloadKind(obj.kind), profile |-> obj.profile.word, tokens |-> obj.tokens,
   jitter |-> obj.jitter, knobs |-> Sections(obj)]

WorkloadToRuntimeInput(obj) ==
  [kind |-> Spelled(obj.kind), profile |-> obj.profile.word, tokens |-> obj.tokens,
   jitter |-> obj.jitter, knobs |-> Sections(obj)]
==============================================================================
