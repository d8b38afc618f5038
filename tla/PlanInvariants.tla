--------------------------- MODULE PlanInvariants ---------------------------
(***************************************************************************)
(* What the tools that explain a query promise of their answers.           *)
(***************************************************************************)
EXTENDS PlanReport

TypeOK ==
  /\ config \in Configs /\ catalog \in Catalogs
  /\ pc \in {"idle", "explain", "load", "walk", "check", "double", "policy", "visit"}
  /\ tool \in Tools
  /\ plan \in Plans \cup {NoPlan}
  /\ stack \in Seq(plan.nodes) /\ order \in Seq(plan.nodes)
  /\ pos \in 1 .. Len(order) + 1 /\ k \in Nat \ {0}
  /\ cache \in Catalogs \cup {NoNode}
  /\ target \in Nat
  /\ \A i \in DOMAIN issues : issues[i].node \in plan.nodes /\ issues[i].target \in Nat
  /\ \A i \in DOMAIN frames : frames[i].node \in plan.nodes
  /\ reply \in {"none", "answered", "rejected", "failed", "nothing", "crashed"}
  /\ seen \subseteq Catalogs /\ catalog \in seen
  /\ calls \in 0 .. MaxCalls /\ changes \in 0 .. MaxChanges

-----------------------------------------------------------------------------
(***************************************************************************)
(* The order of the nodes.  The reference is the lexicographic order of    *)
(* the paths of the nodes.                                                 *)
(***************************************************************************)
ToTheLeft(a, b) ==
  \E i \in DOMAIN a \cap DOMAIN b :
    a[i][2] < b[i][2] /\ SubSeq(a, 1, i - 1) = SubSeq(b, 1, i - 1)

PathBefore(a, b) == IsStrictPrefix(a, b) \/ ToTheLeft(a, b)

Before(p, m, n) == PathBefore(Path(p, m), Path(p, n))

\* How many nodes come before n in pre-order.
Number(n) == Cardinality({m \in plan.nodes : Before(plan, m, n)})

\* analyzer.py:88, "All descendants in DFS pre-order", and server.py:383, ids
\* are in pre-order: the loop with a stack and the recursion that writes the
\* list number the nodes alike, so that the issues stand in the order of
\* plan_nodes.
OrdersAgree ==
  /\ \A i \in DOMAIN order : Number(order[i]) = i - 1
  /\ \A i \in DOMAIN list : ~AsText =>
       \E n \in plan.nodes :
         list[i].path = Path(plan, n) /\ list[i].id = i - 1 /\ Number(n) = i - 1
  /\ pc \in {"check", "policy"} /\ order # <<>> => ToSet(order) = plan.nodes
  /\ reply = "answered" => Len(list) = Cardinality(plan.nodes)

\* server.py:381-389: parent_id and children_ids of the list are the two sides
\* of one relation, that of the plan, in the order of the plan.
EntriesLinked ==
  reply = "answered" /\ ~AsText =>
    \A i \in DOMAIN list :
      LET ids == list[i].children_ids
      IN /\ ToSet(ids) = {j - 1 : j \in {h \in DOMAIN list : list[h].parent_id = i - 1}}
         /\ \A c, d \in DOMAIN ids : c < d => ids[c] < ids[d]
         /\ \A c \in DOMAIN ids :
              list[ids[c] + 1].path = Append(list[i].path, <<list[i].depth + 1, c - 1>>)

\* server.py:413, the text has the same data as the tree: the indentation and
\* the markers of the lines are enough to find the parent of every node and
\* its place among its siblings.
TextShowsTree ==
  reply = "answered" /\ AsText =>
    \A i \in 2 .. Len(list) :
      LET above == {j \in 1 .. i - 1 : list[j].indent < list[i].indent}
          parent == CHOOSE j \in above : \A h \in above : h <= j
          siblings == {j \in parent + 1 .. i - 1 : list[j].indent = list[i].indent}
      IN /\ above # {}
         /\ list[parent].indent = list[i].indent - 1
         /\ list[i].marker = <<list[i].indent, Cardinality(siblings)>>

-----------------------------------------------------------------------------
(***************************************************************************)
(* The issues.                                                             *)
(***************************************************************************)
\* The place of a check among those that load_checks has made.
CheckNo(check) == CHOOSE c \in DOMAIN checks.checks : checks.checks[c] = check

\* analyzer.py:358-381, the issues stand in the order of the nodes and of the
\* checks, none comes twice, and each has the depth and the parent of its node.
IssuesInOrder ==
  /\ \A i, j \in DOMAIN issues : i < j =>
       \/ Number(issues[i].node) < Number(issues[j].node)
       \/ /\ issues[i].node = issues[j].node
          /\ CheckNo(issues[i].check) < CheckNo(issues[j].check)
  /\ \A i \in DOMAIN issues :
       LET n == issues[i].node
       IN /\ issues[i].depth = Depth(plan, n)
          /\ \/ n = plan.root /\ issues[i].parent = ""
             \/ \E p \in plan.nodes : n \in ToSet(plan.kids[p])
                                        /\ issues[i].parent = NodeType(plan, p)

\* analyzer.py:370-372, every check is applied to every node: an answer has an
\* issue for each node and each check of the plan whose rule holds there, by
\* the parameters the checks were made with, whatever the registry holds now.
NoIssueLost ==
  reply = "answered" =>
    \A c \in ToSet(checks.checks) \ {"NonSargableCheck"} : \A n \in plan.nodes :
      Fires(c, plan, n, checks.params[c])
        => \E j \in DOMAIN issues : issues[j].check = c /\ issues[j].node = n

\* analyzer.py:1093, the indexes are read once: whatever others do to the
\* indexes during a call, its answer judges all nodes by the same indexes,
\* that the database has had during the call.
OneSnapshot ==
  reply = "answered" /\ "NonSargableCheck" \in ToSet(checks.checks) =>
    \E indexes \in seen : \A n \in plan.nodes :
      LET columns == NonSargable(plan, n, checks.params["NonSargableCheck"], indexes)
          told == {issues[i].column : i \in {j \in DOMAIN issues :
                     issues[j].check = "NonSargableCheck" /\ issues[j].node = n}}
      IN told \subseteq columns /\ (columns # {} => told # {})

\* A spill of kb with headroom fits into mb.
Holds(mb, kb, p) == mb * 1024 * p.headroom_ratio[2] >= kb * p.headroom_ratio[1]

\* It fits into mb and would not have fitted into the value before.
IsFirst(mb, kb, p) ==
  /\ Holds(mb, kb, p)
  /\ mb > p.min_work_mem_mb => mb = 2 * (mb \div 2) /\ ~Holds(mb \div 2, kb, p)

WorkMemFits ==
  \A i \in DOMAIN issues : issues[i].target > 0 =>
    IsFirst(issues[i].target, SpillKb(plan, issues[i].node), checks.params["DiskSpillSortCheck"])

\* The only odd number that q is a multiple of is 1.
IsPowerOfTwo(q) == \A d, x \in 1 .. q : q = d * x /\ d % 2 = 1 => d = 1

\* mb is one of the values min_work_mem_mb, 2x, 4x, ...
InSeries(mb, p) == \E q \in 1 .. mb : mb = p.min_work_mem_mb * q /\ IsPowerOfTwo(q)

\* analyzer.py:621-623, the suggested work_mem is the least value of the
\* series min_work_mem_mb, 2x, 4x, ... that holds the spill with headroom.
WorkMemIsLeast ==
  /\ WorkMemFits
  /\ \A i \in DOMAIN issues : issues[i].target > 0 =>
       InSeries(issues[i].target, checks.params["DiskSpillSortCheck"])

\* analyzer.py:519, no estimate is compared anywhere below a Limit.
LimitSilences ==
  \A i \in DOMAIN issues : issues[i].check = "EstimateMismatchCheck" =>
    \A m \in plan.nodes :
      IsPrefix(Path(plan, m), Path(plan, issues[i].node)) => NodeType(plan, m) # "Limit"

-----------------------------------------------------------------------------
\* Every call comes to an end.
CallsEnd == pc # "idle" ~> pc = "idle"

-----------------------------------------------------------------------------
(***************************************************************************)
(* The inductive invariant.                                                *)
(***************************************************************************)
IsSeq(s) == Len(s) \in Nat /\ s = [i \in 1 .. Len(s) |-> s[i]]

Frames == [node : plan.nodes, id : Nat, done : Nat]

\* Everything that is kept of a call is as it should be at its place.
Shaped ==
  /\ TypeOK
  /\ IsSeq(issues) /\ IsSeq(list)
  /\ frames \in Seq(Frames)
  /\ checks = NoChecks \/ \E c \in Configs :
       checks = [checks |-> c.checks, params |-> c.params] /\ ToSet(c.checks) \subseteq DOMAIN c.params

\* Nothing has been judged yet.
Fresh == order = <<>> /\ stack = <<>> /\ pos = 1 /\ k = 1 /\ cache = NoNode /\ issues = <<>>

\* What is known of a node's children: they have been yielded or are on the
\* stack.
Walking ==
  /\ plan.root \in ToSet(order)
  /\ \A n \in ToSet(order) : ToSet(plan.kids[n]) \subseteq ToSet(order) \cup ToSet(stack)

\* Every check has been applied to every node.
Finished == checks.checks = <<>> \/ (ToSet(order) = plan.nodes /\ pos > Len(order))

Doubling ==
  /\ pos <= Len(order) /\ k <= Len(checks.checks) /\ Check = "DiskSpillSortCheck"
  /\ target > 0
  /\ target > Params.min_work_mem_mb =>
       /\ target = 2 * (target \div 2)
       /\ ~Holds(target \div 2, SpillKb(plan, Node), Params)

Phases ==
  /\ pc = "explain" => plan = NoPlan /\ checks = NoChecks /\ Fresh /\ frames = <<>>
  /\ pc \in {"load", "policy", "visit"} => plan \in Plans
  /\ pc = "load" => Fresh /\ frames = <<>>
  /\ pc \in {"walk", "check", "double"} => plan \in Plans /\ frames = <<>>
  /\ pc = "walk" => Walking /\ pos = 1 /\ k = 1 /\ cache = NoNode /\ issues = <<>>
  /\ pc \in {"check", "double"} => ToSet(order) = plan.nodes
  /\ pc = "double" => Doubling
  /\ pc \in {"policy", "visit"} => Finished
  /\ pc # "idle" => reply = "none"
  /\ reply = "answered" => Finished

\* Check c has been applied to node i of the walk.
Done(i, c) == i < pos \/ (i = pos /\ c < k)

Reported(n) ==
  \E j \in DOMAIN issues : issues[j].check = "NonSargableCheck" /\ issues[j].node = n

\* The columns a node can be reported for by the indexes that were read.
Columns(n) == NonSargable(plan, n, checks.params["NonSargableCheck"], cache)

\* All that is said of filters is said by the indexes that were read.
ByCache ==
  /\ cache \in seen \cup {NoNode}
  /\ \A j \in DOMAIN issues : issues[j].check = "NonSargableCheck" =>
       cache # NoNode /\ issues[j].column \in Columns(issues[j].node)
  /\ \A i \in DOMAIN order, c \in DOMAIN checks.checks :
       Done(i, c) /\ checks.checks[c] = "NonSargableCheck" =>
         cache # NoNode /\ (Columns(order[i]) # {} => Reported(order[i]))

\* A check whose rule holds at a node it has been applied to has an issue.
ByChecks ==
  \A i \in DOMAIN order, c \in DOMAIN checks.checks :
    LET check == checks.checks[c]
    IN Done(i, c) /\ check # "NonSargableCheck"
         /\ Fires(check, plan, order[i], checks.params[check]) =>
           \E j \in DOMAIN issues : issues[j].check = check /\ issues[j].node = order[i]

\* The nodes of v have been visited, in pre-order, and those of P, with all
\* that is below them, have not.
Traversed(p, v, P) ==
  /\ \A m \in p.nodes : m \in ToSet(v) \/ \E t \in P : IsPrefix(Path(p, t), Path(p, m))
  /\ \A i \in DOMAIN v : \A t \in P : Before(p, v[i], t)
  /\ \A i, j \in DOMAIN v : i < j => Before(p, v[i], v[j])
  /\ \A i \in DOMAIN v : \A m \in p.nodes :
       Before(p, m, v[i]) => \E j \in DOMAIN v : j < i /\ v[j] = m

\* The walk: what is nearer to the top of the stack is to the left.
WalkInv ==
  order # <<>> =>
    /\ plan \in Plans /\ Traversed(plan, order, ToSet(stack))
    /\ \A i, j \in DOMAIN stack : i < j => ToTheLeft(Path(plan, stack[j]), Path(plan, stack[i]))

\* The children that the recursion fs has still to come to.
Pending(p, fs) ==
  UNION {{p.kids[fs[f].node][d] : d \in fs[f].done + 1 .. Len(p.kids[fs[f].node])} : f \in DOMAIN fs}

\* The frames stand one below the other, each below the child its caller is
\* at, and each for a node that has been put out.
FramesInv(p, fs, v) ==
  /\ \A f \in DOMAIN fs :
       /\ fs[f].id + 1 \in DOMAIN v /\ v[fs[f].id + 1] = fs[f].node
       /\ fs[f].done \in 0 .. Len(p.kids[fs[f].node])
  /\ \A f, g \in DOMAIN fs : f < g =>
       /\ fs[f].done > 0
       /\ IsPrefix(Path(p, p.kids[fs[f].node][fs[f].done]), Path(p, fs[g].node))
  /\ \A f \in DOMAIN fs : f + 1 \in DOMAIN fs =>
       p.kids[fs[f].node][fs[f].done] = fs[f + 1].node

\* How many children have returned to a frame: all it has called, but for the
\* one that is above it.
Returned(fs, f) == IF f = Len(fs) THEN fs[f].done ELSE fs[f].done - 1

EntryFields == {"id", "parent_id", "depth", "path", "children_ids", "fields"}

\* An entry of the list is that of the i-th node; it has the children that
\* have returned to it, and all of them if its own call has returned.
EntryInv(p, l, fs, v, i) ==
  LET n == v[i]
      ids == l[i].children_ids
  IN /\ DOMAIN l[i] = EntryFields
     /\ l[i].id = i - 1 /\ l[i].path = Path(p, n) /\ l[i].depth = Depth(p, n)
     /\ \/ n = p.root /\ l[i].parent_id = NoNode
        \/ \E j \in DOMAIN v : v[j] = Parent(p, n) /\ n # p.root /\ l[i].parent_id = j - 1
     /\ ids \in Seq(Nat) /\ Len(ids) <= Len(p.kids[n])
     /\ \A c \in DOMAIN ids : ids[c] + 1 \in DOMAIN v /\ v[ids[c] + 1] = p.kids[n][c]
     /\ (\A f \in DOMAIN fs : fs[f].id # i - 1) => Len(ids) = Len(p.kids[n])
     /\ \A f \in DOMAIN fs : fs[f].id = i - 1 => Len(ids) = Returned(fs, f)

\* So is a block of the text.
BlockInv(p, l, v, i) ==
  l[i].indent = Depth(p, v[i]) /\ l[i].marker = Last(Path(p, v[i]))

VisitInv ==
  /\ pc \in {"visit", "idle"} \/ list = <<>>
  /\ list = <<>> => frames = <<>>
  /\ reply = "answered" => list # <<>> /\ frames = <<>>
  /\ list # <<>> =>
       /\ plan \in Plans
       /\ \E v \in [DOMAIN list -> plan.nodes] :
            /\ Traversed(plan, v, Pending(plan, frames))
            /\ FramesInv(plan, frames, v)
            /\ \A i \in DOMAIN list : IF AsText THEN BlockInv(plan, list, v, i)
                                     ELSE EntryInv(plan, list, frames, v, i)

\* The walk is over before the checks begin.
WalkEnds == pc \in {"check", "double", "policy"} /\ order # <<>> => ToSet(order) = plan.nodes

\* An issue has been found where the check has been applied.
PlaceInv ==
  \A i \in DOMAIN issues :
    /\ issues[i].check \in ToSet(checks.checks) /\ issues[i].node \in ToSet(order)
    /\ Done(Number(issues[i].node) + 1, CheckNo(issues[i].check))
    /\ issues[i].check = "EstimateMismatchCheck" => ~IsUnder(plan, issues[i].node, "Limit")

\* The loop goes through that series.
SeriesInv == WorkMemIsLeast /\ (pc = "double" => InSeries(target, Params))

TreeInv == WalkInv /\ WalkEnds /\ VisitInv /\ PlaceInv /\ IssuesInOrder

PlanInv == Shaped /\ Phases /\ ByCache /\ ByChecks /\ WorkMemFits

-----------------------------------------------------------------------------
(***************************************************************************)
(* What comments and docs say and the code does not do.                    *)
(***************************************************************************)
\* analyzer.py:1050-1054, what is reported wraps the column in a function: it
\* stands in the parentheses of a word that is no operator.
FunctionWraps ==
  \A i \in DOMAIN issues : issues[i].check = "NonSargableCheck" =>
    LET filter == plan.fields[issues[i].node]["Filter"]
    IN \E j \in DOMAIN filter :
         /\ IsCall(filter, j) /\ filter[j] \notin {"AND", "OR", "NOT"}
         /\ issues[i].column \in Inner(filter, j)

=============================================================================
