----------------------------- MODULE PlanReport -----------------------------
(***************************************************************************)
(* A call of one of the tools that explain a query - explain,              *)
(* explain_tree and explain_tree_text of server.py, and both modes of      *)
(* pg-explain-parse - step by step, while others change the registry and   *)
(* the indexes of the database.                                            *)
(***************************************************************************)
EXTENDS PlanChecks

CONSTANTS
  Plans,       \* what EXPLAIN may return
  Configs,     \* what the registry may hold
  Catalogs,    \* the sets of indexes the database may have
  Numeric,     \* the fields with a number
  AllFields,   \* no field policy: --all-fields
  MaxCalls,    \* bound: how many calls are made
  MaxChanges   \* bound: how often the registry or the indexes change

VARIABLES
  config,      \* checks.db: the enabled checks in order of num, their
               \* parameters, and the modes of plan_fields
  catalog,     \* the indexes
  pc,          \* where the call is
  tool,        \* which tool has been called
  plan,        \* what EXPLAIN has returned
  checks,      \* the checks that load_checks has made
  stack,       \* of descendants()
  order,       \* the nodes it has yielded
  pos,         \* the loops over nodes and checks are at check k of order[pos]
  k,
  cache,       \* NonSargableCheck._indexes
  target,      \* of the loop in DiskSpillSortCheck.generate_msg
  issues,
  policy,      \* the field policy
  frames,      \* the recursion of visit and of render: node, its id, and how
               \* many of its children are done
  list,        \* what it has put out
  reply,       \* how the last call has ended
  seen,        \* the indexes there have been during the call
  calls, changes

outside == <<config, catalog, seen, calls, changes>>
judging == <<checks, stack, order, pos, k, cache, target, issues>>
serving == <<policy, frames, list>>
vars == <<outside, pc, tool, plan, judging, serving, reply>>

Tools == {"explain", "explain_tree", "explain_tree_text", "parse_plan", "parse_json", "parse_sql"}

\* Those that read a saved plan, as text or as JSON.
OfFile == {"parse_plan", "parse_json"}

NoPlan == [nodes |-> {}, root |-> NoNode]
NoChecks == [checks |-> <<>>, params |-> <<>>]

\* Sizes are whole numbers of kB, and the loop for work_mem starts above 0.
ASSUME PlanAssumption ==
  /\ \A p \in Plans : IsPlan(p) /\ \A n \in p.nodes : SpillKb(p, n) \in Nat
  /\ NoNode \notin Catalogs /\ NoNode \notin Nat
  /\ MaxCalls \in Nat /\ MaxChanges \in Nat
  /\ \A c \in Configs :
       /\ c.checks \in Seq(CheckNames)
       /\ \A i, j \in DOMAIN c.checks : c.checks[i] = c.checks[j] => i = j
       /\ "DiskSpillSortCheck" \in DOMAIN c.params =>
            /\ c.params["DiskSpillSortCheck"].min_work_mem_mb \in Nat \ {0}
            /\ c.params["DiskSpillSortCheck"].headroom_ratio[1] \in Nat
            /\ c.params["DiskSpillSortCheck"].headroom_ratio[2] \in Nat \ {0}

\* What a call begins with: nothing is carried over from the one before.
Clear ==
  /\ plan' = NoPlan
  /\ checks' = NoChecks
  /\ stack' = <<>> /\ order' = <<>>
  /\ pos' = 1 /\ k' = 1
  /\ cache' = NoNode /\ target' = 0
  /\ issues' = <<>>
  /\ policy' = AllFields
  /\ frames' = <<>> /\ list' = <<>>
  /\ reply' = "none"

Ask ==
  /\ pc = "idle" /\ calls < MaxCalls
  /\ \E t \in Tools : tool' = t
  /\ Clear
  /\ pc' = "explain"
  /\ calls' = calls + 1
  /\ seen' = {catalog}
  /\ UNCHANGED <<config, catalog, changes>>

\* The call ends, with an answer or the message of an error.
End(answer) ==
  /\ reply' = answer
  /\ pc' = "idle"
  /\ UNCHANGED <<outside, tool, plan, judging, serving>>

\* No SELECT, no SQL, or a file without JSON in it.
Reject == pc = "explain" /\ End("rejected")

\* The database, or the registry, raises an error.
Fails == pc \in {"explain", "load", "policy"} /\ End("failed")

\* explain_query, or a plan read from a file.
Explain ==
  /\ pc = "explain"
  /\ plan' \in Plans
  /\ pc' = IF tool = "explain" THEN "load" ELSE "policy"
  /\ UNCHANGED <<outside, tool, judging, serving, reply>>

\* A file may hold an empty list of plans.
ReadNothing == pc = "explain" /\ tool \in OfFile /\ End("nothing")

-----------------------------------------------------------------------------
(***************************************************************************)
(* new_analyze_plan.                                                       *)
(***************************************************************************)
\* load_checks; the walk over the nodes begins.
Load ==
  /\ pc = "load"
  /\ ToSet(config.checks) \subseteq DOMAIN config.params
  /\ checks' = [checks |-> config.checks, params |-> config.params]
  /\ order' = <<plan.root>>
  /\ stack' = Reverse(plan.kids[plan.root])
  /\ pc' = "walk"
  /\ UNCHANGED <<outside, tool, plan, pos, k, cache, target, issues, serving, reply>>

\* "missing required param"
LoadRejects ==
  /\ pc = "load"
  /\ ~(ToSet(config.checks) \subseteq DOMAIN config.params)
  /\ End("rejected")

\* Mutated form: the children go on the stack as they come.
NextUnturned ==
  /\ pc = "walk" /\ stack # <<>>
  /\ order' = Append(order, Last(stack))
  /\ stack' = Front(stack) \o plan.kids[Last(stack)]
  /\ UNCHANGED <<outside, pc, tool, plan, checks, pos, k, cache, target, issues, serving, reply>>

\* A turn of the loop of descendants().
NextNode ==
  /\ pc = "walk" /\ stack # <<>>
  /\ order' = Append(order, Last(stack))
  /\ stack' = Front(stack) \o Reverse(plan.kids[Last(stack)])
  /\ UNCHANGED <<outside, pc, tool, plan, checks, pos, k, cache, target, issues, serving, reply>>

Walked ==
  /\ pc = "walk" /\ stack = <<>>
  /\ pc' = "check"
  /\ UNCHANGED <<outside, tool, plan, judging, serving, reply>>

Node == order[pos]
Check == checks.checks[k]
Params == checks.params[Check]

Checking == pc = "check" /\ pos <= Len(order) /\ k <= Len(checks.checks)

\* Mutated form: the parent is taken to be the node before.
IssueAfter(column, mb) ==
  [check |-> Check, node |-> Node, depth |-> Depth(plan, Node),
   parent |-> IF pos = 1 THEN "" ELSE NodeType(plan, order[pos - 1]),
   column |-> column, target |-> mb]

\* The issue with the context new_analyze_plan gives it.
Issue(column, mb) ==
  [check |-> Check, node |-> Node, depth |-> Depth(plan, Node),
   parent |-> IF Parent(plan, Node) = NoNode THEN "" ELSE NodeType(plan, Parent(plan, Node)),
   column |-> column, target |-> mb]

\* Mutated form: behind the last check a node is passed over.
SkipNode ==
  IF k < Len(checks.checks) THEN k' = k + 1 /\ pos' = pos ELSE k' = 1 /\ pos' = pos + 2

\* On to the next check, or to the next node.
NextCheck ==
  IF k < Len(checks.checks) THEN k' = k + 1 /\ pos' = pos ELSE k' = 1 /\ pos' = pos + 1

\* A sort whose spill has a size goes through the loop for work_mem.
Sized == Check = "DiskSpillSortCheck" /\ SpillKb(plan, Node) > 0

Judge ==
  /\ Checking /\ Check # "NonSargableCheck"
  /\ LET fires == Fires(Check, plan, Node, Params)
     IN /\ ~(fires /\ Sized)
        /\ issues' = IF fires THEN Append(issues, Issue(NoNode, 0)) ELSE issues
  /\ NextCheck
  /\ UNCHANGED <<outside, pc, tool, plan, checks, stack, order, cache, target, serving, reply>>

Spilled ==
  /\ Checking /\ Sized /\ Fires(Check, plan, Node, Params)
  /\ target' = Params.min_work_mem_mb
  /\ pc' = "double"
  /\ UNCHANGED <<outside, tool, plan, checks, stack, order, pos, k, cache, issues, serving, reply>>

\* Mutated form: the next value of the series is not the double one.
Stay ==
  /\ pc = "double" /\ TooSmall(target, SpillKb(plan, Node), Params)
  /\ target' = Smaller(target * 2, 8)
  /\ UNCHANGED <<outside, pc, tool, plan, checks, stack, order, pos, k, cache, issues, serving,
                 reply>>

Double ==
  /\ pc = "double" /\ TooSmall(target, SpillKb(plan, Node), Params)
  /\ target' = target * 2
  /\ UNCHANGED <<outside, pc, tool, plan, checks, stack, order, pos, k, cache, issues, serving,
                 reply>>

Doubled ==
  /\ pc = "double" /\ ~TooSmall(target, SpillKb(plan, Node), Params)
  /\ issues' = Append(issues, Issue(NoNode, target))
  /\ target' = 0
  /\ NextCheck
  /\ pc' = "check"
  /\ UNCHANGED <<outside, tool, plan, checks, stack, order, cache, serving, reply>>

\* Mutated form: the indexes are read for every node.
FetchAgain ==
  /\ Checking /\ Check = "NonSargableCheck"
  /\ cache # catalog
  /\ cache' = catalog
  /\ UNCHANGED <<outside, pc, tool, plan, checks, stack, order, pos, k, target, issues, serving,
                 reply>>

\* _load_indexes, when the check comes to its first node.
Fetch ==
  /\ Checking /\ Check = "NonSargableCheck"
  /\ cache = NoNode
  /\ cache' = catalog
  /\ UNCHANGED <<outside, pc, tool, plan, checks, stack, order, pos, k, target, issues, serving,
                 reply>>

FetchFails ==
  /\ Checking /\ Check = "NonSargableCheck"
  /\ cache = NoNode
  /\ End("failed")

JudgeFilter ==
  /\ Checking /\ Check = "NonSargableCheck"
  /\ cache # NoNode
  /\ LET columns == NonSargable(plan, Node, Params, cache)
     IN \/ columns = {} /\ UNCHANGED issues
        \/ \E c \in columns : issues' = Append(issues, Issue(c, 0))
  /\ NextCheck
  /\ UNCHANGED <<outside, pc, tool, plan, checks, stack, order, cache, target, serving, reply>>

Judged ==
  /\ pc = "check" /\ (pos > Len(order) \/ checks.checks = <<>>)
  /\ pc' = "policy"
  /\ UNCHANGED <<outside, tool, plan, judging, serving, reply>>

-----------------------------------------------------------------------------
(***************************************************************************)
(* new_plan_to_list and new_format_plan_tree.                              *)
(***************************************************************************)
IsZero(raw, value) == raw \in Numeric /\ value = 0

\* Modes: 0 hides a field, 1 keeps it, 999 keeps it unless it is zero; a field
\* without a mode is as one with 999.
Kept(raw, value) ==
  \/ policy = AllFields
  \/ LET mode == IF raw \in DOMAIN policy THEN policy[raw] ELSE 999
     IN mode # 0 /\ (mode = 1 \/ ~IsZero(raw, value))

KeptFields(n) ==
  LET f == plan.fields[n] IN [raw \in {r \in DOMAIN f : Kept(r, f[r])} |-> f[raw]]

Entry(n, id, parent) ==
  [id |-> id, parent_id |-> parent, depth |-> Depth(plan, n), path |-> Path(plan, n),
   children_ids |-> <<>>, fields |-> KeptFields(n)]

\* A block of lines of the text: its indentation, "Node Type", "[depth:sibling]".
Block(n) ==
  [indent |-> Depth(plan, n), type |-> NodeType(plan, n), marker |-> Last(Path(plan, n)),
   fields |-> KeptFields(n)]

Frame(n, id) == [node |-> n, id |-> id, done |-> 0]

\* load_field_config; --all-fields does without.
Policy ==
  /\ pc = "policy" /\ tool # "parse_sql"
  /\ \/ policy' = config.fields
     \/ tool \in OfFile /\ policy' = AllFields
  /\ pc' = "visit"
  /\ UNCHANGED <<outside, tool, plan, judging, frames, list, reply>>

\* main of parse.py calls _emit without root_meta: the field policy that
\* arrives in new_plan_to_list or new_format_plan_tree is a bool.
EmitBreaks == pc = "policy" /\ tool = "parse_sql" /\ End("crashed")

AsText == tool \in {"explain_tree_text", "parse_plan"}

\* visit(node, parent_id), up to the loop over the children.
Put(n, parent) ==
  list' = Append(list, IF AsText THEN Block(n) ELSE Entry(n, Len(list), parent))

VisitRoot ==
  /\ pc = "visit" /\ list = <<>>
  /\ Put(plan.root, NoNode)
  /\ frames' = <<Frame(plan.root, 0)>>
  /\ UNCHANGED <<outside, pc, tool, plan, judging, policy, reply>>

\* Mutated form: the last child comes first.
VisitLast ==
  /\ pc = "visit" /\ frames # <<>>
  /\ LET top == Last(frames)
         kids == Reverse(plan.kids[top.node])
     IN /\ top.done < Len(kids)
        /\ Put(kids[top.done + 1], top.id)
        /\ frames' = Append([frames EXCEPT ![Len(frames)].done = @ + 1],
                            Frame(kids[top.done + 1], Len(list)))
  /\ UNCHANGED <<outside, pc, tool, plan, judging, policy, reply>>

VisitChild ==
  /\ pc = "visit" /\ frames # <<>>
  /\ LET top == Last(frames)
         kids == plan.kids[top.node]
     IN /\ top.done < Len(kids)
        /\ Put(kids[top.done + 1], top.id)
        /\ frames' = Append([frames EXCEPT ![Len(frames)].done = @ + 1],
                            Frame(kids[top.done + 1], Len(list)))
  /\ UNCHANGED <<outside, pc, tool, plan, judging, policy, reply>>

\* Mutated form: the ids are collected in the entry of the grandparent.
ReturnToFirst ==
  /\ pc = "visit" /\ frames # <<>>
  /\ Last(frames).done = Len(plan.kids[Last(frames).node])
  /\ frames' = Front(frames)
  /\ list' = IF AsText \/ Len(frames) = 1 THEN list
             ELSE [list EXCEPT ![frames[1].id + 1].children_ids = Append(@, Last(frames).id)]
  /\ UNCHANGED <<outside, pc, tool, plan, judging, policy, reply>>

\* visit returns its id, which the caller adds to its children_ids.
Return ==
  /\ pc = "visit" /\ frames # <<>>
  /\ Last(frames).done = Len(plan.kids[Last(frames).node])
  /\ frames' = Front(frames)
  /\ list' = IF AsText \/ Len(frames) = 1 THEN list
             ELSE [list EXCEPT ![frames[Len(frames) - 1].id + 1].children_ids =
                                  Append(@, Last(frames).id)]
  /\ UNCHANGED <<outside, pc, tool, plan, judging, policy, reply>>

Answer ==
  /\ pc = "visit" /\ list # <<>> /\ frames = <<>>
  /\ End("answered")

-----------------------------------------------------------------------------
(***************************************************************************)
(* Others.                                                                 *)
(***************************************************************************)
ChangeConfig ==
  /\ changes < MaxChanges
  /\ config' \in Configs \ {config}
  /\ changes' = changes + 1
  /\ UNCHANGED <<catalog, seen, calls, pc, tool, plan, judging, serving, reply>>

ChangeIndexes ==
  /\ changes < MaxChanges
  /\ catalog' \in Catalogs \ {catalog}
  /\ seen' = seen \cup {catalog'}
  /\ changes' = changes + 1
  /\ UNCHANGED <<config, calls, pc, tool, plan, judging, serving, reply>>

CallStep ==
  \/ Reject \/ Fails \/ Explain \/ ReadNothing
  \/ Load \/ LoadRejects \/ NextNode \/ Walked
  \/ Judge \/ Spilled \/ Double \/ Doubled \/ Fetch \/ FetchFails \/ JudgeFilter \/ Judged
  \/ Policy \/ EmitBreaks \/ VisitRoot \/ VisitChild \/ Return \/ Answer

Next == Ask \/ CallStep \/ ChangeConfig \/ ChangeIndexes

Init ==
  /\ config \in Configs
  /\ catalog \in Catalogs
  /\ pc = "idle" /\ tool = "explain"
  /\ plan = NoPlan
  /\ checks = NoChecks
  /\ stack = <<>> /\ order = <<>>
  /\ pos = 1 /\ k = 1
  /\ cache = NoNode /\ target = 0
  /\ issues = <<>>
  /\ policy = AllFields
  /\ frames = <<>> /\ list = <<>>
  /\ reply = "none"
  /\ seen = {catalog}
  /\ calls = 0 /\ changes = 0

Spec == Init /\ [][Next]_vars

\* A call runs to its end.
FairSpec == Spec /\ WF_vars(CallStep)

=============================================================================
