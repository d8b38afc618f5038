----------------------------- MODULE PlanChecks -----------------------------
(***************************************************************************)
(* The checks of analyzer.py: what each of them gathers of a node and when *)
(* its rule holds.  A ratio of the parameters is a pair <<num, den>>, and  *)
(* ratios are compared exactly; rows and blocks are whole numbers.         *)
(***************************************************************************)
EXTENDS PlanTree

\* _REGISTRY: the checks there are.
CheckNames ==
  {"SeqScanCheck", "EstimateMismatchCheck", "DiskSpillSortCheck", "DiskSpillHashCheck",
   "NestedLoopCheck", "BitmapHeapScanCheck", "IndexRegularScanCheck", "IndexOnlyScanCheck",
   "PartitionPruningCheck", "NonSargableCheck", "JitDecisionCheck"}

\* a / b >= ratio, for b > 0
AtLeast(a, b, ratio) == a * ratio[2] >= ratio[1] * b

Larger(a, b) == IF a > b THEN a ELSE b
Smaller(a, b) == IF a < b THEN a ELSE b

SeqScan(plan, n, p) ==
  LET f == plan.fields[n]
      loops == Larger(Get(f, "Actual Loops", 1), 1)
      removed == Get(f, "Rows Removed by Filter", 0) * loops
      total == Get(f, "Actual Rows", 0) * loops + removed
  IN /\ NodeType(plan, n) = "Seq Scan"
     /\ total > 0 /\ total > p.threshold_rows
     /\ removed # 0 /\ AtLeast(removed, total, p.min_filter_ratio)

EstimateMismatch(plan, n, p) ==
  LET planned == Get(plan.fields[n], "Plan Rows", 0)
      actual == Get(plan.fields[n], "Actual Rows", 0)
  IN /\ ~IsUnder(plan, n, "Limit")
     /\ planned > 0 /\ actual > 0
     /\ planned >= p.min_rows /\ actual >= p.min_rows
     /\ Larger(planned, actual) * p.threshold_ratio[2]
          > p.threshold_ratio[1] * Smaller(planned, actual)

SpillKb(plan, n) == Get(plan.fields[n], "Sort Space Used", 0)

DiskSpillSort(plan, n, p) ==
  /\ Get(plan.fields[n], "Sort Method", "") \in {"external merge", "external sort"}
  /\ SpillKb(plan, n) >= p.min_spill_kb

\* Mutated form: without headroom.
NoHeadroom(target, kb, p) == target * 1024 < kb

\* target < ceiling, of the loop that doubles the suggested work_mem: a spill
\* of kb, with headroom, does not fit into target MB.
TooSmall(target, kb, p) == target * 1024 * p.headroom_ratio[2] < kb * p.headroom_ratio[1]

DiskSpillHash(plan, n, p) ==
  LET batches == Get(plan.fields[n], "Hash Batches", 1)
  IN batches > 0 /\ batches >= p.min_batches

NestedLoop(plan, n, p) ==
  /\ NodeType(plan, n) = "Nested Loop"
  /\ Len(plan.kids[n]) >= 2
  /\ Get(plan.fields[plan.kids[n][2]], "Actual Loops", 1) > p.threshold_loops

BitmapHeapScan(plan, n, p) ==
  /\ NodeType(plan, n) = "Bitmap Heap Scan"
  /\ Get(plan.fields[n], "Actual Rows", 0) > p.threshold_rows

IndexOnlyScan(plan, n, p) ==
  LET fetches == Get(plan.fields[n], "Heap Fetches", 0)
      actual == Get(plan.fields[n], "Actual Rows", 0)
  IN /\ NodeType(plan, n) = "Index Only Scan"
     /\ fetches > 0 /\ actual > 0
     /\ actual >= p.min_rows /\ AtLeast(fetches, actual, p.heap_fetch_ratio)

IndexRegularScan(plan, n, p) ==
  LET actual == Get(plan.fields[n], "Actual Rows", 0)
  IN /\ NodeType(plan, n) = "Index Scan"
     /\ actual > 0 /\ actual >= p.min_rows
     /\ Get(plan.fields[n], "Shared Read Blocks", 0) >= p.min_disk_blocks

PartitionPruning(plan, n, p) ==
  /\ NodeType(plan, n) \in {"Append", "Merge Append"}
  /\ Len(plan.kids[n]) > p.max_children

JitDecision(plan, n, p) ==
  LET time == Get(plan.fields[n], "Actual Total Time", 0)
  IN /\ Parent(plan, n) = NoNode
     /\ plan.jit > 0 /\ time > 0
     /\ plan.jit >= p.min_jit_ms /\ AtLeast(plan.jit, time, p.overhead_ratio)

-----------------------------------------------------------------------------
(***************************************************************************)
(* NonSargableCheck.  A filter is a sequence of tokens: parentheses,       *)
(* words, and "=" for whatever else stands between them.                   *)
(***************************************************************************)
Symbols == {"(", ")", "="}

NoCall == {"array", "row", "values"}

\* A word in front of an opening parenthesis, at i.
IsCall(filter, i) ==
  /\ i + 1 \in DOMAIN filter
  /\ filter[i] \notin Symbols \cup NoCall
  /\ filter[i + 1] = "("

\* How many parentheses are open behind j, of those from i on.
Open(filter, i, j) ==
  Cardinality({k \in i .. j : filter[k] = "("}) - Cardinality({k \in i .. j : filter[k] = ")"})

\* What the parentheses of the call at i hold.
Inner(filter, i) ==
  {filter[j] : j \in {k \in i + 2 .. Len(filter) : \A l \in i + 1 .. k : Open(filter, i + 1, l) > 0}}
    \ Symbols

\* Whether column is somewhere inside the parentheses of a call.
Wrapped(filter, column) ==
  \E i \in DOMAIN filter : IsCall(filter, i) /\ column \in Inner(filter, i)

\* The leading columns of the plain indexes of a relation.  An index is a
\* record of its table and its leading column, NoNode for an expression.
PlainColumns(catalog, relation) ==
  {x.leading : x \in {y \in catalog : y.table = relation}} \ {NoNode}

\* The columns NonSargableCheck may report: the first that is wrapped, in the
\* order of a Python set.
NonSargable(plan, n, p, catalog) ==
  LET f == plan.fields[n]
      relation == Get(f, "Relation Name", NoNode)
      filter == Get(f, "Filter", <<>>)
  IN IF Get(f, "Actual Rows", 0) + Get(f, "Rows Removed by Filter", 0) >= p.threshold_rows
     THEN {c \in PlainColumns(catalog, relation) : Wrapped(filter, c)}
     ELSE {}

-----------------------------------------------------------------------------
\* check.check(node), of a check that needs nothing but the plan.
Fires(check, plan, n, p) ==
  CASE check = "SeqScanCheck" -> SeqScan(plan, n, p)
    [] check = "EstimateMismatchCheck" -> EstimateMismatch(plan, n, p)
    [] check = "DiskSpillSortCheck" -> DiskSpillSort(plan, n, p)
    [] check = "DiskSpillHashCheck" -> DiskSpillHash(plan, n, p)
    [] check = "NestedLoopCheck" -> NestedLoop(plan, n, p)
    [] check = "BitmapHeapScanCheck" -> BitmapHeapScan(plan, n, p)
    [] check = "IndexOnlyScanCheck" -> IndexOnlyScan(plan, n, p)
    [] check = "IndexRegularScanCheck" -> IndexRegularScan(plan, n, p)
    [] check = "PartitionPruningCheck" -> PartitionPruning(plan, n, p)
    [] check = "JitDecisionCheck" -> JitDecision(plan, n, p)

=============================================================================
