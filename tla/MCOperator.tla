---- MODULE MCOperator ----
EXTENDS Operator

CONSTANTS a, b, tenant

Fields == [tenant |-> tenant, priority |-> 0, at |-> 0, gpuCount |-> 1, memMiB |-> 1,
           profile |-> Profile, wellFormed |-> TRUE]

MCWorkloadSpecs == [w \in Workloads |-> [Fields EXCEPT !.priority = IF w = a THEN 0 ELSE 1]]
MCQuotas == [t \in {tenant} |-> [maxGPUs |-> 1, maxMemoryMiB |-> 0, weight |-> 0]]
NoQuotas == [t \in {tenant} |-> [maxGPUs |-> 0, maxMemoryMiB |-> 0, weight |-> 0]]
====
