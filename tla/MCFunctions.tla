----------------------------- MODULE MCFunctions -----------------------------
(***************************************************************************)
(* The pure functions of the system on every problem of a bounded size:    *)
(* placement, the order of the queue, the runtime estimate and the checks  *)
(* on the way of a request.  Each initial state is one problem, and the    *)
(* one step solves it.                                                     *)
(***************************************************************************)
EXTENDS Placement, FairOrder, RequestPath

CONSTANTS
  Pools, NodesPerPool, GPUsPerNode, MaxNeed, MaxMaxNodes,   \* placement
  Tenants, MaxLen, Weights,                                 \* order of the queue
  MaxDevices, TokenCounts, Batches,                         \* runtime estimate
  MaxAvailable                                              \* devices in a pool

ASSUME MCFunctionsBounds ==
  /\ {NodesPerPool, GPUsPerNode, MaxNeed, MaxLen, MaxDevices} \subseteq Nat \ {0}
  /\ {MaxMaxNodes, MaxAvailable} \cup Weights \cup Batches \cup TokenCounts \subseteq Nat
  /\ IsFiniteSet(Pools)

\* The profiles and kinds are those of the simulator's own tables.
ASSUME MCFunctionsTables == HardwareProfiles = Known /\ Kinds = SupportedKinds

VARIABLES problem,   \* its kind (tag) and input (in)
          answer     \* << >> before the step, then the answer

vars == <<problem, answer>>

-----------------------------------------------------------------------------
Devices == [pool : Pools, node : 0 .. NodesPerPool - 1, gpu : 0 .. GPUsPerNode - 1]

Options == [policy : PlacementPolicies, requireSameNode : BOOLEAN,
            maxNodes : 0 .. MaxMaxNodes]

\* What amd64 makes of a float that is too large for an int64.
LeastDuration == -MaxDuration - 1

\* Every order in which Go may iterate over the pools.
PoolOrders == {f \in [Pools -> 1 .. Cardinality(Pools)] :
                 \A p, q \in Pools : f[p] = f[q] => p = q}

PlacementProblems == [eligible : SUBSET Devices, ord : PoolOrders,
                      need : 1 .. MaxNeed, opts : Options]

\* Tenants and priorities of up to MaxLen workloads.
Queues ==
  {[i \in 1 .. n |-> [id |-> i, tenant |-> f[i].tenant, priority |-> f[i].priority, at |-> i]] :
     n \in 1 .. MaxLen, f \in [1 .. MaxLen -> [tenant : Tenants, priority : {1, 2}]]}

OrderProblems == [queue : Queues, quotas : [Tenants -> [weight : Weights]]]

Fractions == {0, One}
SeqLens == {0, 1024, 8192}
Rollouts == {0, 4}
Steps == {0, 64}
VectorDims == {0, 256, 4096}
TokenLens == {0, 4096}
InputBytes == {0, 1000000, 100000000}
Teachers == {""} \cup Known

Knobs(kind) ==
  CASE kind = "training"  -> [globalBatch : Batches, microBatch : Batches, gradAccum : Batches,
                              seqLen : SeqLens]
    [] kind = "inference" -> [batch : Batches]
    [] kind = "eval"      -> [batch : Batches, metric : Fractions, validation : Fractions]
    [] kind = "fine_tune" -> [globalBatch : Batches, microBatch : Batches, gradAccum : Batches,
                              warmStart : Fractions, checkpointLoad : Fractions]
    [] kind = "rlhf"      -> [rollout : Rollouts, reward : Rollouts, update : {1},
                              policySteps : Steps]
    [] kind = "embedding" -> [batch : Batches, vectorDim : VectorDims, tokenLen : TokenLens]
    [] kind = "data_preprocess" ->
         [inputBytes : InputBytes, tokenization : Fractions, augmentation : Fractions]
    [] kind = "distillation" ->
         [batch : Batches, teacher : Teachers, teacherForward : Fractions]

\* A run, and the random number of its jitter.
RuntimeProblems(kind, jitter) ==
  [input : [kind : {kind}, profile : Known, tokens : TokenCounts, knobs : Knobs(kind),
            jitter : {jitter}],
   deviceCount : 1 .. MaxDevices,
   delta : IF jitter = {} THEN {0} ELSE {-One, One}]

-----------------------------------------------------------------------------
Name(word) == [word |-> word, spelling |-> "exact"]
Blank == [word |-> "", spelling |-> "blank"]
Empty == [word |-> "", spelling |-> "empty"]
Cased(word) == [word |-> word, spelling |-> "cased"]

GoodObject ==
  [id |-> Name("x"), via |-> "submitter", tenant |-> Name("t"), profile |-> Name("h100_sxm"),
   gpuCount |-> 1, gpuMemoryMiB |-> 4, tokens |-> 1, maxRuntimeSeconds |-> {},
   kind |-> Name("distillation"), payloads |-> Kinds, overhead |-> 0, teacher |-> Empty,
   jitter |-> {}]

\* The values each field is tried with.
FieldValues ==
  [via |-> {"submitter", "kubectl"},
   tenant |-> {Blank, Empty},
   profile |-> {Cased("h100_sxm"), Name("other"), Blank, Empty},
   gpuCount |-> {0, 2}, gpuMemoryMiB |-> {-1, 0}, tokens |-> {0},
   maxRuntimeSeconds |-> {{0}, {1}},
   kind |-> {Name("eval"), Name("training"), Name("other"), Cased("eval")},
   payloads |-> {{}, {"eval"}}, overhead |-> {-1, One, One + 1},
   teacher |-> {Blank, Cased("a100_80gb"), Name("other")},
   jitter |-> {{0}, {One}, {One + 1}}]

Changed(objs) ==
  objs \cup UNION {UNION {{[o EXCEPT ![f] = v] : v \in FieldValues[f]} : f \in DOMAIN FieldValues}
                   : o \in objs}

\* Objects that differ from the good one in up to three fields.
RequestProblems == Changed(Changed(Changed({GoodObject})))

PoolLists ==
  LET pools == [profile : {Name("h100_sxm"), Cased("h100_sxm"), Name("a100_80gb")},
                available : 0 .. MaxAvailable, memMiB : {4, 8}]
  IN  {<< >>} \cup {<<p>> : p \in pools} \cup {<<p, q>> : p, q \in pools}

Roomy(pool) == pool.profile.spelling = "exact" /\ pool.available = MaxAvailable /\ pool.memMiB = 8

\* A workload, the pools of its namespace and those of the other namespaces.
FitProblems ==
  [obj : {[GoodObject EXCEPT !.profile = p, !.gpuCount = n, !.gpuMemoryMiB = m] :
            p \in {Name("h100_sxm"), Cased("a100_80gb"), Name("other")},
            n \in 1 .. 3, m \in {4, 5, 8, 9}},
   pools : PoolLists,
   others : {l \in PoolLists : Len(l) < 2 /\ \A i \in DOMAIN l : Roomy(l[i])}]

-----------------------------------------------------------------------------
Posed ==
  \/ problem \in [tag : {"place"}, in : PlacementProblems]
  \/ problem \in [tag : {"order"}, in : OrderProblems]
  \/ \E kind \in Kinds, jitter \in {{}, {One}} :
       problem \in [tag : {"run"}, in : RuntimeProblems(kind, jitter)]
  \/ problem \in [tag : {"request"}, in : RequestProblems]
  \/ problem \in [tag : {"fit"}, in : FitProblems]

Init == Posed /\ answer = << >>

in == problem.in

Pick ==
  /\ problem.tag = "place" /\ answer = << >>
  /\ answer' = <<pickDevices(in.eligible, in.ord, in.need, in.opts)>>
  /\ UNCHANGED problem

Order ==
  /\ problem.tag = "order" /\ answer = << >>
  /\ answer' = AfterTurns(in.queue, in.quotas, Turns(in.queue)).out
  /\ UNCHANGED problem

Estimate ==
  /\ problem.tag = "run" /\ answer = << >>
  /\ answer' = <<estimateDuration(in.input, in.deviceCount, in.delta)>>
  /\ UNCHANGED problem

\* The checks in their order: what each one says.
Follow ==
  /\ problem.tag = "request" /\ answer = << >>
  /\ answer' = <<Accepted(in), Validate(SchedulingInputs(in, << >>)),
                 /\ StartAccepts(buildRuntimeInput(in))
                 /\ StartAccepts(WorkloadToRuntimeInput(in))>>
  /\ UNCHANGED problem

Fit ==
  /\ problem.tag = "fit" /\ answer = << >>
  /\ answer' = <<Fits(in.obj, in.pools), CanAllocate(in.obj, in.pools, in.others)>>
  /\ UNCHANGED problem

Next == Pick \/ Order \/ Estimate \/ Follow \/ Fit

Spec == Init /\ [][Next]_vars

Solved(tag) == problem.tag = tag /\ answer # << >>

-----------------------------------------------------------------------------
(* Placement. *)

E == in.eligible
need == in.need
opts == in.opts
picked == answer[1]
placed == Cardinality(picked) = need

\* Some set of at most k nodes (0: any number) has need eligible devices.
FitsOn(k) ==
  \E N \in SUBSET NodesOf(E) :
    /\ k = 0 \/ Cardinality(N) <= k
    /\ Cardinality({d \in E : NodeOf(d) \in N}) >= need

\* pickDevices never returns a device that is not eligible, never more than
\* gpuCount of them, and what it returns respects requireSameNode and maxNodes
\* (contract.go:199-296).  Allocate relies on it: it only checks the length.
PickRespectsLimits ==
  Solved("place") =>
    /\ picked \subseteq E
    /\ Cardinality(picked) <= need
    /\ opts.requireSameNode => Cardinality(NodesOf(picked)) <= 1
    /\ opts.maxNodes > 0 => Cardinality(NodesOf(picked)) <= opts.maxNodes

\* Without a node limit no policy fails while enough devices are eligible.  Pack,
\* which is greedy, does not even fail under a limit that some choice of nodes
\* satisfies, and when it places, it uses as few nodes as possible.
\* locality_aware and requireSameNode use one node whenever one node suffices
\* (contract.go:200-263).
PlacementIsComplete ==
  Solved("place") =>
    /\ ~opts.requireSameNode /\ opts.maxNodes = 0 => (placed <=> Cardinality(E) >= need)
    /\ ~opts.requireSameNode /\ opts.policy = "pack" =>
         /\ placed <=> FitsOn(opts.maxNodes)
         /\ placed => ~\E k \in 1 .. Cardinality(NodesOf(picked)) - 1 : FitsOn(k)
    /\ (opts.requireSameNode \/ opts.policy = "locality_aware") /\ FitsOn(1) =>
         placed /\ Cardinality(NodesOf(picked)) = 1

\* spread is balanced: a node gives two devices more than another one only if
\* the other has no eligible device left or maxNodes excluded it
\* (contract.go:265-296).
SpreadIsBalanced ==
  Solved("place") /\ opts.policy = "spread" /\ ~opts.requireSameNode /\ placed =>
    \A m \in NodesOf(picked),
       n \in IF opts.maxNodes = 0 THEN NodesOf(E) ELSE NodesOf(picked) :
      LET taken(x) == Cardinality(OnNode(picked, x))
      IN  taken(m) > taken(n) + 1 => taken(n) = Cardinality(OnNode(E, n))

-----------------------------------------------------------------------------
(* The order of the queue. *)

\* The loop yields the order that SelectOneForAdmission uses in Admission: the
\* k-th workload of the result has k - 1 workloads before it.  And it yields every
\* workload: the progress flag, which would end the loop early, is never false
\* before that (fairness_wrr.go:49-71).
LoopYieldsOrder ==
  Solved("order") =>
    /\ Len(answer) = Len(in.queue)
    /\ \A k \in DOMAIN answer :
         \E i \in DOMAIN in.queue :
           /\ in.queue[i] = answer[k]
           /\ Cardinality({j \in DOMAIN in.queue :
                WeightedRoundRobinByTenant(in.queue, in.quotas, j, i)}) = k - 1

-----------------------------------------------------------------------------
(* The runtime estimate. *)

\* estimateDuration floors a run to one second, whatever the jitter takes away,
\* and no run takes more than two seconds and 3.2 ms for each token
\* (contract.go:766-811), as long as so many seconds fit a time.Duration: below
\* 2.8 * 10^12 tokens.  The schema has no such limit, and beyond it the conversion
\* may turn the longest runs into negative ones.
RunLengthInRange ==
  Solved("run") /\ MaxSeconds(in.input.tokens) <= MaxDuration =>
    1 <= answer[1] /\ answer[1] <= MaxSeconds(in.input.tokens)

\* More devices never make a run longer, with the same limit: the interconnect's
\* share, which enters hardwareThroughputFactor with the second device, takes less
\* away than the device adds (contract.go:1367-1412).
MoreDevicesNeverSlower ==
  Solved("run") /\ MaxSeconds(in.input.tokens) <= MaxDuration =>
    answer[1] >= estimateDuration(in.input, in.deviceCount + 1, in.delta)

-----------------------------------------------------------------------------
(* The way of a request. *)

\* The scheduler's Validate rejects no object that was accepted, so that no
\* workload stops the cycle of its namespace (scheduler_loop.go:292-295), but
\* for a workload of 0 MiB and an object with a blank name that a user writes.
AcceptedIsValid ==
  /\ Solved("request") /\ answer[1]
  /\ in.gpuMemoryMiB > 0
  /\ in.via = "submitter" \/ "" \notin {in.tenant.word, in.profile.word}
  => answer[2]

\* A workload that was accepted and whose profile is known can be started once
\* it has its devices, by the reconciler or by a worker: executeAdmission would
\* repeat a Start that fails for ever with the devices held
\* (gpuworkload_controller.go:223-226).  But the schema accepts any teacher
\* profile, and jitter of 0.
AcceptedCanStart ==
  /\ Solved("request") /\ answer[1]
  /\ in.profile.word \in Known
  /\ in.kind.word = "distillation" => in.teacher.word \in Known \cup {""}
  /\ 0 \notin in.jitter
  => answer[3]

\* What fits the scheduler's view of the fleet, which has the pools of one
\* namespace, can be allocated by the idle simulator, and what does not fit cannot
\* be allocated unless a pool of another namespace has the profile: Allocate takes
\* the devices of every pool.  Both as long as the pools spell their profile as the
\* table does and agree on the memory per device (scheduler_loop.go:730-753,
\* contract.go:133, 169-197).
FitIsAllocatable ==
  /\ Solved("fit")
  /\ in.obj.profile.word \in Known
  /\ \A i, j \in DOMAIN in.pools :
       /\ in.pools[i].profile.spelling = "exact"
       /\ in.pools[i].profile = in.pools[j].profile => in.pools[i].memMiB = in.pools[j].memMiB
  => /\ answer[1] => answer[2]
     /\ answer[2] => \/ answer[1]
                     \/ \E i \in DOMAIN in.others :
                          in.others[i].profile.word = in.obj.profile.word
==============================================================================
