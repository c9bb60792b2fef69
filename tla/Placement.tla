----------------------------- MODULE Placement -----------------------------
(***************************************************************************)
(* The device placement policies of internal/sim/contract.go.              *)
(*                                                                         *)
(* The code walks slices of nodes and appends device IDs until it has      *)
(* enough.  Here every loop is the order it visits devices in: the result  *)
(* of "append until need" is the set of devices that fewer than need       *)
(* others precede in that order.                                           *)
(*                                                                         *)
(* E is the set of eligible devices.  A device is a record with the fields *)
(* pool, node and gpu, which together are its ID.  ord ranks the pools in  *)
(* the order allNodes() visits them: Go iterates over a map there, so any  *)
(* injective ranking is possible.                                          *)
(***************************************************************************)
EXTENDS Integers, FiniteSets

PlacementPolicies == {"first_fit", "pack", "spread", "locality_aware"}

NodeOf(d) == [pool |-> d.pool, node |-> d.node]

NodesOf(E) == {NodeOf(d) : d \in E}

OnNode(E, n) == {d \in E : NodeOf(d) = n}

\* Node m comes before node n in the slice allNodes() returns.
NodeBefore(ord, m, n) ==
  \/ ord[m.pool] < ord[n.pool]
  \/ m.pool = n.pool /\ m.node < n.node

\* The first need devices of E in the order Before.
Take(E, need, Before(_, _)) ==
  {d \in E : Cardinality({e \in E : Before(e, d)}) < need}

\* Mutant of WithinNodeLimit: the node limit is compared one too late.
WithinNodeLimitOneMore(used, maxNodes) == maxNodes = 0 \/ used <= maxNodes

\* The loop enters another node after used ones; 0 means no limit.
WithinNodeLimit(used, maxNodes) == maxNodes = 0 \/ used < maxNodes

\* The devices on the first maxNodes nodes that have one.
Leading(E, maxNodes, Before(_, _)) ==
  {d \in E : WithinNodeLimit(Cardinality({n \in NodesOf(E) : Before(n, NodeOf(d))}), maxNodes)}

\* Node after node, and within a node in device order.
FillNodes(E, need, maxNodes, Before(_, _)) ==
  Take(Leading(E, maxNodes, Before), need,
       LAMBDA e, d : \/ Before(NodeOf(e), NodeOf(d))
                     \/ NodeOf(e) = NodeOf(d) /\ e.gpu < d.gpu)

selectFirstFit(E, ord, need, maxNodes) ==
  FillNodes(E, need, maxNodes, LAMBDA m, n : NodeBefore(ord, m, n))

\* The stable sort puts the nodes with most eligible devices first.
selectPack(E, ord, need, maxNodes) ==
  LET count(n) == Cardinality(OnNode(E, n))
  IN  FillNodes(E, need, maxNodes,
                LAMBDA m, n : \/ count(m) > count(n)
                              \/ count(m) = count(n) /\ NodeBefore(ord, m, n))

\* Mutant of selectSpread: the inner loop drains a node before the next one.
selectSpreadDrainsNode(E, ord, need, maxNodes) ==
  selectFirstFit(E, ord, need, maxNodes)

\* Round after round: the k-th eligible device of every node is taken before
\* the (k+1)-st of any.
selectSpread(E, ord, need, maxNodes) ==
  LET round(d) == Cardinality({e \in OnNode(E, NodeOf(d)) : e.gpu < d.gpu})
  IN  Take(Leading(E, maxNodes, LAMBDA m, n : NodeBefore(ord, m, n)), need,
           LAMBDA e, d : \/ round(e) < round(d)
                         \/ /\ round(e) = round(d)
                            /\ NodeBefore(ord, NodeOf(e), NodeOf(d)))

\* requireSameNode: the node with most eligible devices among those with
\* enough, the first of them when several tie.
selectSameNode(E, ord, need) ==
  LET enough == {n \in NodesOf(E) : Cardinality(OnNode(E, n)) >= need}
      best == {n \in enough : \A m \in enough \ {n} :
                 LET cm == Cardinality(OnNode(E, m))
                     cn == Cardinality(OnNode(E, n))
                 IN  cn > cm \/ (cn = cm /\ NodeBefore(ord, n, m))}
  IN  selectFirstFit({d \in E : NodeOf(d) \in best}, ord, need, 0)

\* Mutant of selectLocality: the single-node attempt is missing, the
\* devices are taken as they come.
selectLocalityFirstFit(E, ord, need, maxNodes) ==
  selectFirstFit(E, ord, need, maxNodes)

\* locality_aware: the first node with enough devices, else pack.
selectLocality(E, ord, need, maxNodes) ==
  LET enough == {n \in NodesOf(E) : Cardinality(OnNode(E, n)) >= need}
      first == {n \in enough : \A m \in enough \ {n} : NodeBefore(ord, n, m)}
  IN  IF enough = {} THEN selectPack(E, ord, need, maxNodes)
      ELSE selectFirstFit({d \in E : NodeOf(d) \in first}, ord, need, 0)

\* The devices picked for need GPUs under opts; fewer than need means that the
\* caller reports an error.  An unknown policy is an error too.
pickDevices(E, ord, need, opts) ==
  CASE opts.requireSameNode -> selectSameNode(E, ord, need)
    [] ~opts.requireSameNode /\ opts.policy = "first_fit" ->
         selectFirstFit(E, ord, need, opts.maxNodes)
    [] ~opts.requireSameNode /\ opts.policy = "pack" ->
         selectPack(E, ord, need, opts.maxNodes)
    [] ~opts.requireSameNode /\ opts.policy = "spread" ->
         selectSpread(E, ord, need, opts.maxNodes)
    [] ~opts.requireSameNode /\ opts.policy = "locality_aware" ->
         selectLocality(E, ord, need, opts.maxNodes)
    [] OTHER -> {}
=============================================================================
