---- MODULE MCSchedulerLoop ----
EXTENDS SchedulerLoop, TLC

CONSTANTS n1, n2, p1, p2, p3, a, b, c, bad, q1, q2

Name(word) == [word |-> word, spelling |-> "exact"]

MCPoolSpec == [p \in Pools |-> [ns |-> IF p = p3 THEN n2 ELSE n1, profile |-> Name("h100"), memMiB |-> 1]]

Small == [id |-> a, ns |-> n1, tenant |-> "t", priority |-> 0, at |-> 1, gpuCount |-> 1, memMiB |-> 1,
          profile |-> "h100", wellFormed |-> TRUE]

\* a and b share a namespace and a tenant, b needs two devices; c has a namespace
\* to itself; bad is rejected by Validate.
MCJob == [w \in Workloads |->
  CASE w = a -> Small
    [] w = b -> [Small EXCEPT !.id = b, !.at = 2, !.gpuCount = 2]
    [] w = c -> [Small EXCEPT !.id = c, !.ns = n2]
    [] w = bad -> [Small EXCEPT !.id = bad, !.at = 0, !.wellFormed = FALSE]]

MCQuotaNs == [q \in Quotas |-> n1]
MCQuotaSpecs == {[tenant |-> x, maxGPUs |-> 1] : x \in {"", "s", "t"}} \cup {[tenant |-> "t", maxGPUs |-> 2]}

Quietly == [x \in Counters |-> 0] @@ [pools |-> {p1, p3}, editable |-> {}, submitted |-> {},
                                      timers |-> FALSE, strict |-> {TRUE}]
Fleets == [Quietly EXCEPT !.pools = {p1}, !.editable = {p1}, !.timers = TRUE, !.strict = BOOLEAN]

MCLimits ==
  { [Fleets EXCEPT !.edits = 2, !.faults = 1, !.strict = {FALSE}],
    [Fleets EXCEPT !.edits = 1, !.faults = 1, !.remoteRestarts = 1],
    [Fleets EXCEPT !.edits = 1, !.restarts = 1, !.faults = 1, !.strict = {TRUE}],
    [Quietly EXCEPT !.pools = {}, !.editable = {p1, p2}, !.edits = 2],
    [Quietly EXCEPT !.pools = {p1}, !.editable = {p1}, !.edits = 1, !.restarts = 1, !.failures = 1],
    [Quietly EXCEPT !.submitted = {a, c}],
    [Quietly EXCEPT !.submitted = {b, c}],
    [Quietly EXCEPT !.submitted = {a, b}, !.deletes = 1, !.failures = 1],
    [Quietly EXCEPT !.submitted = {a, bad}, !.deletes = 1, !.failures = 1],
    [Quietly EXCEPT !.pools = {p1}, !.submitted = {a}, !.edits = 1, !.editable = {p2}],
    [Quietly EXCEPT !.pools = {p1}, !.submitted = {b}, !.edits = 1, !.editable = {p2}],
    [Quietly EXCEPT !.pools = {p1, p2}, !.submitted = {b}, !.quotaEdits = 2],
    [Quietly EXCEPT !.pools = {p1}, !.restarts = 1, !.quotaEdits = 1],
    [Quietly EXCEPT !.pools = {p1}, !.submitted = {a}, !.restarts = 1] }
====
