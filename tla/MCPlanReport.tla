---------------------------- MODULE MCPlanReport ----------------------------
(***************************************************************************)
(* Small instances of PlanReport for TLC: every shape of up to four nodes, *)
(* and plans as PostgreSQL makes them for the checks to find something in. *)
(***************************************************************************)
EXTENDS PlanInvariants

\* A plan of the nodes 1 .. Len(kids); the root is the last of them.
Plan(kids, fields, jit) ==
  [nodes |-> DOMAIN kids, root |-> Len(kids), kids |-> kids, fields |-> fields, jit |-> jit]

Type(t) == "Node Type" :> t
Rows(planned, actual) == "Plan Rows" :> planned @@ "Actual Rows" :> actual
Removed(n) == "Rows Removed by Filter" :> n
Loops(n) == "Actual Loops" :> n
On(relation) == "Relation Name" :> relation
Is(side) == "Parent Relationship" :> side
Where(filter) == "Filter" :> filter

Shapes ==
  {<<<<>>>>, <<<<>>, <<1>>>>, <<<<>>, <<1>>, <<2>>>>, <<<<>>, <<>>, <<2, 1>>>>,
   <<<<>>, <<1>>, <<2>>, <<3>>>>, <<<<>>, <<>>, <<1, 2>>, <<3>>>>,
   <<<<>>, <<>>, <<1>>, <<3, 2>>>>, <<<<>>, <<>>, <<2>>, <<1, 3>>>>,
   <<<<>>, <<>>, <<>>, <<3, 1, 2>>>>}

Plain(kids) ==
  Plan(kids, [n \in DOMAIN kids |-> Type("Result") @@ Removed(0) @@ Rows(n, n)], 0)

Call == <<"lower", "(", "email", ")">>
And == <<"(", "(", "id", "=", ")", "AND", "(", "email", "=", ")", ")">>
Row == <<"row", "(", "email", ")", "=", "(", "id", ")">>

\* A Limit over a misestimated Sort; a Seq Scan outside of it.
Limited ==
  Plan(<<<<>>, <<1>>, <<2>>, <<>>, <<3, 4>>>>,
       <<Type("Seq Scan") @@ Rows(10, 200) @@ Removed(0) @@ On("users") @@ Where(Call),
         Type("Sort") @@ Rows(10, 200) @@ "Sort Method" :> "external merge"
           @@ "Sort Space Used" :> 30000,
         Type("Limit") @@ Rows(10, 10),
         Type("Seq Scan") @@ Rows(10, 200) @@ Removed(900) @@ On("users") @@ Where(Call),
         Type("Append") @@ Rows(10, 200) @@ "Actual Total Time" :> 10>>, 4)

\* A Nested Loop whose inner side runs often, without and with an InitPlan.
Joined ==
  Plan(<<<<>>, <<>>, <<2, 1>>>>,
       <<Type("Index Scan") @@ Is("Inner") @@ Rows(1, 1) @@ Loops(50),
         Type("Seq Scan") @@ Is("Outer") @@ Rows(50, 50) @@ Loops(1) @@ On("users")
           @@ Where(Call),
         Type("Nested Loop") @@ Rows(50, 50) @@ Loops(1)>>, 0)

WithInitPlan ==
  Plan(<<<<>>, <<>>, <<>>, <<3, 2, 1>>>>,
       <<Type("Index Scan") @@ Is("Inner") @@ Rows(1, 1) @@ Loops(50),
         Type("Seq Scan") @@ Is("Outer") @@ Rows(50, 50) @@ Loops(1) @@ On("users")
           @@ Where(Row),
         Type("Aggregate") @@ Is("InitPlan") @@ Rows(1, 1) @@ Loops(1),
         Type("Nested Loop") @@ Rows(50, 50) @@ Loops(1)>>, 0)

\* Scans of partitions, a spilled Hash and a Sort without a size.
Scans ==
  Plan(<<<<>>, <<>>, <<>>, <<2, 3, 1>>, <<4>>>>,
       <<Type("Index Only Scan") @@ Rows(20, 20) @@ "Heap Fetches" :> 15,
         Type("Bitmap Heap Scan") @@ Rows(200, 200) @@ On("users") @@ Where(And),
         Type("Index Scan") @@ Rows(20, 20) @@ "Shared Read Blocks" :> 30,
         Type("Append") @@ Rows(200, 240) @@ "Hash Batches" :> 2,
         Type("Sort") @@ Rows(200, 240) @@ "Sort Method" :> "external sort">>, 0)

SmallPlans == {Plain(s) : s \in Shapes} \cup {Limited, Joined, WithInitPlan, Scans}

Seed ==
  [checks |-> <<"SeqScanCheck", "EstimateMismatchCheck", "DiskSpillSortCheck",
                "DiskSpillHashCheck", "NestedLoopCheck", "BitmapHeapScanCheck",
                "IndexRegularScanCheck", "IndexOnlyScanCheck", "PartitionPruningCheck",
                "NonSargableCheck", "JitDecisionCheck">>,
   params |->
     [SeqScanCheck |-> [threshold_rows |-> 100, min_filter_ratio |-> <<8, 10>>],
      EstimateMismatchCheck |-> [threshold_ratio |-> <<10, 1>>, min_rows |-> 10],
      DiskSpillSortCheck |-> [min_spill_kb |-> 0, min_work_mem_mb |-> 4,
                              headroom_ratio |-> <<11, 10>>],
      DiskSpillHashCheck |-> [min_batches |-> 2],
      NestedLoopCheck |-> [threshold_loops |-> 10],
      BitmapHeapScanCheck |-> [threshold_rows |-> 100],
      IndexRegularScanCheck |-> [min_rows |-> 10, min_disk_blocks |-> 30],
      IndexOnlyScanCheck |-> [min_rows |-> 10, heap_fetch_ratio |-> <<1, 2>>],
      PartitionPruningCheck |-> [max_children |-> 2],
      NonSargableCheck |-> [threshold_rows |-> 50],
      JitDecisionCheck |-> [min_jit_ms |-> 1, overhead_ratio |-> <<3, 10>>]],
   fields |-> "Rows Removed by Filter" :> 1 @@ "Actual Loops" :> 0]

\* Others have switched all checks off but two, or lost a parameter.
Few == [Seed EXCEPT !.checks = <<"SeqScanCheck", "NonSargableCheck">>, !.fields = "Plan Rows" :> 0]
Lost == [Seed EXCEPT !.params = [c \in {"SeqScanCheck"} |-> Seed.params[c]]]

SmallConfigs == {Seed, Few, Lost}

Index(column) == [table |-> "users", leading |-> column]

SmallCatalogs == {{Index("email")}, {Index("email"), Index("id")}, {Index(NoNode)}}

Numbers == {"Plan Rows", "Actual Rows", "Rows Removed by Filter", "Actual Loops"}

=============================================================================
