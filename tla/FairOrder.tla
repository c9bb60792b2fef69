------------------------------ MODULE FairOrder ------------------------------
(***************************************************************************)
(* The loop of WeightedRoundRobinByTenant, one turn per tenant and round.  *)
(* Admission describes its result as an order relation.                    *)
(***************************************************************************)
EXTENDS Admission

\* The workloads at the places I of the queue, in the order OrderQueued gives them.
ordered(q, I) ==
  [k \in 1 .. Cardinality(I) |->
    q[CHOOSE i \in I : Cardinality({j \in I : OrderQueued(q, j, i)}) = k - 1]]

TenantsOf(q) == {q[i].tenant : i \in DOMAIN q}

\* The places of a tenant's workloads.
itemsOf(q, t) == {i \in DOMAIN q : q[i].tenant = t}

\* Tenants in the order in which they first appear in the ordered queue.
tenantsInOrder(q) ==
  [k \in 1 .. Cardinality(TenantsOf(q)) |->
    CHOOSE t \in TenantsOf(q) :
      Cardinality({s \in TenantsOf(q) : TenantBefore(q, s, t)}) = k - 1]

\* The first n places of I.
FirstItems(q, I, n) == {i \in I : Cardinality({j \in I : OrderQueued(q, j, i)}) < n}

\* Mutant of Turn: the tenant's slice is cut one too far.
TurnDropsOne(q, s, t, weight) ==
  [rest |-> [s.rest EXCEPT ![t] = @ \ FirstItems(q, @, weight + 1)],
   out |-> s.out \o ordered(q, FirstItems(q, s.rest[t], weight))]

\* One iteration of the inner loop: what is left of each tenant, and the result
\* so far.  A tenant that has nothing left is passed.
Turn(q, s, t, weight) ==
  [rest |-> [s.rest EXCEPT ![t] = @ \ FirstItems(q, @, weight)],
   out |-> s.out \o ordered(q, FirstItems(q, s.rest[t], weight))]

\* The state of the loop after n turns.
AfterTurns(q, quotas, n) ==
  LET tenants == tenantsInOrder(q)
      after[k \in Nat] ==
        IF k = 0
        THEN [rest |-> [t \in TenantsOf(q) |-> itemsOf(q, t)], out |-> << >>]
        ELSE LET t == tenants[((k - 1) % Len(tenants)) + 1]
             IN  Turn(q, after[k - 1], t, Weight(quotas, t))
  IN  after[n]

\* Each round takes at least one workload, so that as many rounds suffice as
\* there are workloads.
Turns(q) == Len(q) * Cardinality(TenantsOf(q))
==============================================================================
