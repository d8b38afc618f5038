------------------------------ MODULE PlanTree ------------------------------
(***************************************************************************)
(* The tree of an execution plan, as new_parse_plan of analyzer.py builds  *)
(* it.  A plan that EXPLAIN has returned is a record of its nodes, its     *)
(* root, the children ("Plans") of each node in their order, the fields of *)
(* each node, and the time JIT took.                                       *)
(***************************************************************************)
EXTENDS Integers, Sequences, FiniteSets, SequencesExt

CONSTANT NoNode   \* Python's None: the parent of the root

\* Every node but the root is the child of one node, once, and no nodes are
\* above one another in a circle.
IsPlan(plan) ==
  /\ plan.root \in plan.nodes /\ NoNode \notin plan.nodes
  /\ plan.kids \in [plan.nodes -> Seq(plan.nodes \ {plan.root})]
  /\ \A n \in plan.nodes : \A i, j \in DOMAIN plan.kids[n] :
       plan.kids[n][i] = plan.kids[n][j] => i = j
  /\ \A n \in plan.nodes \ {plan.root} :
       \E p \in plan.nodes : n \in ToSet(plan.kids[p])
  /\ \A n, p, q \in plan.nodes :
       n \in ToSet(plan.kids[p]) /\ n \in ToSet(plan.kids[q]) => p = q
  /\ \A S \in SUBSET (plan.nodes \ {plan.root}) : S # {} =>
       \E n \in S : \A p \in S : n \notin ToSet(plan.kids[p])

\* node.parent
Parent(plan, n) ==
  IF n = plan.root THEN NoNode
  ELSE CHOOSE p \in plan.nodes : n \in ToSet(plan.kids[p])

\* The place of a node among its siblings, counted from 0.
Sibling(plan, n) ==
  IF n = plan.root THEN 0
  ELSE (CHOOSE i \in DOMAIN plan.kids[Parent(plan, n)] :
          plan.kids[Parent(plan, n)][i] = n) - 1

\* node.path: a segment "depth:sibling" for every node from the root down.
Path(plan, n) ==
  LET path[m \in plan.nodes] ==
        IF m = plan.root THEN <<<<0, 0>>>>
        ELSE LET above == path[Parent(plan, m)]
             IN Append(above, <<Len(above), Sibling(plan, m)>>)
  IN path[n]

Depth(plan, n) == Len(Path(plan, n)) - 1

\* Mutated form: only the parent, not those above it.
ParentOnly(plan, n) == IF n = plan.root THEN <<>> ELSE <<Parent(plan, n)>>

\* node.ancestors(): from the parent up to the root.
Ancestors(plan, n) ==
  LET above[m \in plan.nodes] ==
        IF m = plan.root THEN <<>> ELSE <<Parent(plan, m)>> \o above[Parent(plan, m)]
  IN above[n]

-----------------------------------------------------------------------------
(***************************************************************************)
(* Fields.                                                                 *)
(***************************************************************************)
\* node.get(key, default)
Get(fields, key, default) == IF key \in DOMAIN fields THEN fields[key] ELSE default

NodeType(plan, n) == Get(plan.fields[n], "Node Type", "?")

IsUnder(plan, n, type) ==
  \/ NodeType(plan, n) = type
  \/ \E a \in ToSet(Ancestors(plan, n)) : NodeType(plan, a) = type

=============================================================================
