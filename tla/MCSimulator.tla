---------------------------- MODULE MCSimulator ----------------------------
(* The instance of Simulator for TLC. *)
EXTENDS Simulator

CONSTANTS small, large   \* two workloads

MCWorkloads == {small, large}

Spec1(n, d, mem, profile) ==
  [nodeCount |-> n, devicesPerNode |-> d, memMiB |-> mem,
   deviceType |-> "gpu", profile |-> profile]

\* A large and a small spec: registering a pool again can shrink it, and can
\* change the memory and the profile of devices that are in use.
MCPoolSpecs == {Spec1(2, 1, 80, "h100"), Spec1(1, 1, 40, "a100")}

Request(w, gpuCount, mem, policy, sameNode) ==
  [workload |-> w, gpuCount |-> gpuCount, memMiB |-> mem,
   opts |-> [policy |-> policy, requireSameNode |-> sameNode, maxNodes |-> 0,
             deviceType |-> "", profile |-> ""]]

\* One device with much memory; two devices, on any nodes of any pools.
MCRequests == {Request(small, 1, 80, "first_fit", TRUE),
               Request(large, 2, 40, "spread", FALSE)}
=============================================================================
