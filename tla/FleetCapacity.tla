---------------------------- MODULE FleetCapacity ----------------------------
(***************************************************************************)
(* The free capacity of a namespace, as scheduler_loop.go takes it from    *)
(* the status of the GPUNodePool objects.  A pool is a record of profile,  *)
(* a name with its spelling (WorkloadRequest), available and memMiB.       *)
(***************************************************************************)
EXTENDS Admission

\* Mutant of aggregateFleetFromPools: every pool of a profile counts as the
\* first one.
aggregateFleetOverwrites(pools) ==
  LET of(p) == {i \in DOMAIN pools : pools[i].profile.word = p}
  IN  [p \in {pools[i].profile.word : i \in DOMAIN pools} \ {""} |->
        [freeDevices |-> Cardinality(of(p)) * pools[Min(of(p))].available,
         freeMemMiB |-> MapThenSumSet(LAMBDA i : pools[i].available * pools[i].memMiB, of(p)),
         memMiBPerDevice |-> pools[Min(of(p))].memMiB]]

\* The namespace's pools in the order of the list: profiles trimmed and in lower
\* case, the memory per device that of the first pool.
aggregateFleetFromPools(pools) ==
  LET of(p) == {i \in DOMAIN pools : pools[i].profile.word = p}
  IN  [p \in {pools[i].profile.word : i \in DOMAIN pools} \ {""} |->
        [freeDevices |-> MapThenSumSet(LAMBDA i : pools[i].available, of(p)),
         freeMemMiB |-> MapThenSumSet(LAMBDA i : pools[i].available * pools[i].memMiB, of(p)),
         memMiBPerDevice |-> pools[Min(of(p))].memMiB]]
==============================================================================
