---------------------------- MODULE MCWorkerPool ----------------------------
(* Two workers and two workloads of one device each, on a fleet of one      *)
(* device or two.                                                           *)
EXTENDS WorkerPool

CONSTANTS k1, k2, a, b

OneEach == [w \in Workloads |-> 1]

Deployed(mode, pods, submitted) ==
  [mode |-> mode, pods |-> pods, submitted |-> submitted, preemptible |-> {},
   rejected |-> {}, maxSent |-> 0, maxLost |-> 0, maxCrashes |-> 0]

\* Contention for a token, a claim and a device, and then what may go wrong.
\* Two watch workers get one workload only: with two there are millions of
\* states.
MCDeployments ==
  {Deployed("watch", {k1}, {a, b}),
   Deployed("watch", {k1, k2}, {a}),
   Deployed("poll", {k1, k2}, {a, b}),
   [Deployed("queue", {k1, k2}, {a, b}) EXCEPT !.maxSent = 2],
   [Deployed("queue", {k1, k2}, {a, b}) EXCEPT !.maxCrashes = 2],
   [Deployed("queue", {k1, k2}, {a, b})
      EXCEPT !.preemptible = {a}, !.rejected = {b}, !.maxSent = 1, !.maxLost = 1,
             !.maxCrashes = 1],
   [Deployed("queue", {k1, k2}, {a})
      EXCEPT !.preemptible = {a}, !.maxSent = 2, !.maxLost = 2],
   [Deployed("poll", {k1, k2}, {a}) EXCEPT !.maxLost = 1]}

Polling == {Deployed("poll", {k1, k2}, {a})}
=============================================================================
