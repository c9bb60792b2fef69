------------------------- MODULE MCSchedulingCycle -------------------------
(* Snapshots for SchedulingCycle. *)
EXTENDS SchedulingCycle, TLC

W(id, tenant, priority, at, gpuCount) ==
  [id |-> id, tenant |-> tenant, priority |-> priority, at |-> at,
   gpuCount |-> gpuCount, memMiB |-> 40, profile |-> "h100", wellFormed |-> TRUE]

Capacity(free, mem) ==
  [freeDevices |-> free, freeMemMiB |-> free * mem, memMiBPerDevice |-> mem]

Fleet(free) == [p \in {"h100"} |-> Capacity(free, 80)]

Quota(maxGPUs, weight) == [maxGPUs |-> maxGPUs, weight |-> weight]

NoQuotas == [t \in {"a", "b"} |-> Quota(0, 0)]

CapA == [NoQuotas EXCEPT !["a"] = Quota(3, 2)]

Snapshot(q, s, r, fleet, quotas) ==
  [queued |-> q, scheduled |-> s, running |-> r, fleet |-> fleet, quotas |-> quotas]

\* Three queued workloads of two tenants; the slice is in the order of QueuedAt
\* or in the opposite order.
Queues ==
  LET attrs == [tenant : {"a", "b"}, priority : {1, 2}, gpuCount : {1, 2}]
      w(id, at, x) == W(id, x.tenant, x.priority, at, x.gpuCount)
  IN  {<<w(1, 1, x), w(2, 2, y), w(3, 3, z)>> : x \in attrs, y \in attrs, z \in attrs}
      \cup
      {<<w(1, 3, x), w(2, 2, y), w(3, 1, z)>> : x \in attrs, y \in attrs, z \in attrs}

\* With nothing in use, or one device of each tenant and a cap for one of them.
BatchInputs ==
  {Snapshot(q, << >>, << >>, Fleet(free), NoQuotas) : q \in Queues, free \in {1, 3}}
  \cup
  {Snapshot(q, <<W(4, "a", 1, 0, 1)>>, <<W(5, "b", 2, 0, 1)>>, Fleet(free), CapA) :
     q \in Queues, free \in {1, 3}}

\* One queued workload, or one of two priorities and an urgent one behind it;
\* three running workloads.
PreemptInputs ==
  LET queuedAttrs == [priority : {1, 2}, gpuCount : {1, 3}]
      runningAttrs == [priority : {1, 3}, at : {1, 2}, gpuCount : {1, 2}]
      wq(id, x) == W(id, "a", x.priority, id, x.gpuCount)
      wr(id, x) == W(id, "b", x.priority, x.at, x.gpuCount)
      urgent == {x \in queuedAttrs : x.priority = 2}
      oldest == {x \in runningAttrs : x.at = 1}
  IN  {Snapshot(q, << >>, r, Fleet(free), NoQuotas) :
         q \in {<<wq(1, x)>> : x \in queuedAttrs}
               \cup {<<wq(1, x), wq(2, y)>> : x \in queuedAttrs, y \in urgent},
         r \in {<<wr(3, x), wr(4, y), wr(5, z)>> :
                  x \in oldest, y \in runningAttrs, z \in runningAttrs},
         free \in {0, 1}}

\* Profiles that differ, that are missing, that are unknown to the simulator or
\* over-allocated, devices that are too small, and inputs that are rejected.
MixedInputs ==
  LET attrs == [profile : {"h100", "a100", "v1"}, memMiB : {0, 40, 100}, wellFormed : BOOLEAN]
      w(id, x) == [W(id, "a", 1, id, 1) EXCEPT !.profile = x.profile,
                     !.memMiB = x.memMiB, !.wellFormed = x.wellFormed]
      fleets == {[p \in {"h100", "v1"} |-> IF p = "h100" THEN Capacity(m, 80)
                                                         ELSE Capacity(n, 80)] :
                   m \in {-1, 0, 1}, n \in {0, 1}}
  IN  {Snapshot(<<w(1, x), w(2, y)>>, << >>, r, fleet, NoQuotas) :
         x \in attrs, y \in {z \in attrs : z.wellFormed}, fleet \in fleets,
         r \in {<<W(3, "b", 1, 0, 1)>>, <<W(1, "b", 1, 0, 1)>>}}

AllInputs == BatchInputs \cup MixedInputs \cup PreemptInputs
=============================================================================
