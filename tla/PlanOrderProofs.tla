-------------------------- MODULE PlanOrderProofs --------------------------
(***************************************************************************)
(* TreeInv for any plans: the walk that judges the nodes goes through them *)
(* in pre-order, the recursion that lists them lists as many as the walk   *)
(* has found, each under the entry of its parent, and the issues come in   *)
(* the order of the walk and of the checks.  From it: the two orders       *)
(* agree, the list shows the tree, and the series of suggestions is that   *)
(* of the powers of two.                                                   *)
(***************************************************************************)
EXTENDS PlanProofs

-----------------------------------------------------------------------------
(***************************************************************************)
(* The order of the walk.                                                  *)
(***************************************************************************)
\* What is nearer to the top of the stack is to the left.
StackLeft(p, s) ==
  \A i, j \in DOMAIN s : i < j => ToTheLeft(Path(p, s[j]), Path(p, s[i]))

LEMMA KidsStacked ==
  ASSUME NEW p, IsPlan(p), NEW n \in p.nodes
  PROVE  StackLeft(p, Reverse(p.kids[n]))
<1> DEFINE s == p.kids[n]
           r == Reverse(s)
<1>1. s \in Seq(p.nodes)
  BY PlanIs
<1>2. /\ r \in Seq(p.nodes) /\ Len(r) = Len(s)
      /\ \A i \in 1 .. Len(s) : Len(s) - i + 1 \in 1 .. Len(s) /\ r[i] = s[Len(s) - i + 1]
  BY <1>1, ReverseIs
<1>3. Len(s) \in Nat /\ DOMAIN r = 1 .. Len(s)
  <2> HIDE DEF r
  <2> QED
    BY <1>1, <1>2, LenProperties
<1>4. ASSUME NEW i \in DOMAIN r, NEW j \in DOMAIN r, i < j
      PROVE  ToTheLeft(Path(p, r[j]), Path(p, r[i]))
  <2> DEFINE a == Len(s) - j + 1
             b == Len(s) - i + 1
  <2>1. a \in 1 .. Len(s) /\ b \in 1 .. Len(s) /\ r[j] = s[a] /\ r[i] = s[b]
    BY <1>2, <1>3
  <2>2. a < b
    BY <1>3, <1>4
  <2>3. IsLeftOf(Path(p, s[a]), Path(p, s[b]))
    <3> HIDE DEF a, b
    <3> QED
      BY <2>1, <2>2, KidsLeft
  <2>4. s[a] \in p.nodes /\ s[b] \in p.nodes
    <3> HIDE DEF a, b
    <3> QED
      BY <1>1, <2>1, ElementOfSeq
  <2> QED
    BY <2>1, <2>3, <2>4, BeforeNodes
<1> QED
  BY <1>4 DEF StackLeft

LEMMA StackGoesOn ==
  ASSUME NEW p, IsPlan(p), NEW s \in Seq(p.nodes), s # <<>>, StackLeft(p, s)
  PROVE  /\ Last(s) \in ToSet(s) /\ Last(s) \in p.nodes
         /\ \A u \in ToSet(s) \ {Last(s)} : ToTheLeft(Path(p, Last(s)), Path(p, u))
         /\ StackLeft(p, Front(s) \o Reverse(p.kids[Last(s)]))
         /\ ToSet(Front(s) \o Reverse(p.kids[Last(s)])) =
              (ToSet(s) \ {Last(s)}) \cup ToSet(p.kids[Last(s)])
<1> DEFINE t == Last(s)
           f == Front(s)
           r == Reverse(p.kids[t])
           n == Len(s) - 1
           w == f \o r
<1>1. /\ t \in p.nodes /\ f \in Seq(p.nodes) /\ Len(s) \in Nat \ {0} /\ t = s[Len(s)]
      /\ Len(f) = n /\ \A i \in 1 .. n : f[i] = s[i]
      /\ ToSet(s) = ToSet(f) \cup {t}
  BY LastIs
<1>2. /\ r \in Seq(p.nodes) /\ ToSet(r) = ToSet(p.kids[t]) /\ StackLeft(p, r)
  BY <1>1, PlanIs, ReverseIs, KidsStacked
<1> HIDE DEF t, f, r
<1>3. n \in Nat /\ n < Len(s) /\ DOMAIN s = 1 .. Len(s) /\ DOMAIN f = 1 .. n
  BY <1>1, LenProperties
<1>4. ASSUME NEW i \in 1 .. n PROVE f[i] \in p.nodes /\ ToTheLeft(Path(p, t), Path(p, f[i]))
  <2>1. i \in DOMAIN s /\ Len(s) \in DOMAIN s /\ i < Len(s) /\ i \in 1 .. Len(f)
    BY <1>1, <1>3
  <2> QED
    BY <1>1, <2>1, ElementOfSeq DEF StackLeft
<1>5. ASSUME NEW u \in ToSet(f) PROVE u # t /\ u \in p.nodes /\ ToTheLeft(Path(p, t), Path(p, u))
  <2>1. PICK i \in 1 .. n : f[i] = u
    BY <1>3 DEF ToSet
  <2> QED
    BY <1>1, <1>4, <2>1, BeforeNodes
<1>6. /\ w \in Seq(p.nodes) /\ Len(w) = n + Len(r)
      /\ \A i \in 1 .. n : w[i] = f[i]
      /\ \A i \in 1 .. Len(r) : w[n + i] = r[i]
      /\ ToSet(w) = ToSet(f) \cup ToSet(r)
  <2>1. ToSet(w) = ToSet(f) \cup ToSet(r)
    BY <1>1, <1>2, ConcatSet
  <2>2. /\ w \in Seq(p.nodes) /\ Len(w) = Len(f) + Len(r)
        /\ \A i \in 1 .. Len(f) : w[i] = f[i]
        /\ \A i \in 1 .. Len(r) : w[Len(f) + i] = r[i]
    <3>1. f \in Seq(p.nodes) /\ r \in Seq(p.nodes)
      BY <1>1, <1>2
    <3> QED
      BY ONLY <3>1, ConcatProperties
  <2> HIDE DEF w, n
  <2> QED
    BY <1>1, <2>1, <2>2
<1>7. Len(r) \in Nat /\ DOMAIN r = 1 .. Len(r) /\ DOMAIN w = 1 .. n + Len(r)
  <2> HIDE DEF w, n
  <2> QED
    BY <1>2, <1>6, LenProperties
<1> HIDE DEF w, n
<1>8. ASSUME NEW i \in DOMAIN w, NEW j \in DOMAIN w, i < j
      PROVE  ToTheLeft(Path(p, w[j]), Path(p, w[i]))
  <2>1. CASE j \in 1 .. n
    <3>1. i \in 1 .. n /\ i \in DOMAIN s /\ j \in DOMAIN s
      BY <1>3, <1>7, <1>8, <2>1
    <3> QED
      BY <1>1, <1>6, <1>8, <2>1, <3>1 DEF StackLeft
  <2>2. CASE i \in 1 .. n /\ j \notin 1 .. n
    <3>1. j - n \in 1 .. Len(r) /\ j = n + (j - n)
      BY <1>3, <1>7, <2>2
    <3>2. w[j] = r[j - n] /\ r[j - n] \in ToSet(r) /\ w[i] = f[i]
      BY <1>6, <1>7, <2>2, <3>1 DEF ToSet
    <3>3. w[j] \in ToSet(p.kids[t])
      BY <1>2, <3>2
    <3> QED
      BY <1>1, <1>4, <2>2, <3>2, <3>3, BeforeKid
  <2>3. CASE i \notin 1 .. n
    <3>1. /\ j - n \in DOMAIN r /\ j = n + (j - n)
          /\ i - n \in DOMAIN r /\ i = n + (i - n)
          /\ i - n < j - n
      BY <1>3, <1>7, <1>8, <2>3
    <3>2. w[j] = r[j - n] /\ w[i] = r[i - n]
      BY <1>6, <1>7, <3>1
    <3> QED
      BY <1>2, <3>1, <3>2 DEF StackLeft
  <2> QED
    BY <2>1, <2>2, <2>3
<1>9. ToSet(w) = (ToSet(s) \ {t}) \cup ToSet(p.kids[t])
  BY <1>1, <1>2, <1>5, <1>6
<1>10. \A u \in ToSet(s) \ {t} : ToTheLeft(Path(p, t), Path(p, u))
  BY <1>1, <1>5
<1>11. t \in ToSet(s) /\ t \in p.nodes /\ StackLeft(p, w)
  BY <1>1, <1>8 DEF StackLeft
<1> QED
  BY <1>9, <1>10, <1>11 DEF w, t, f, r

\* Every step keeps the loop with the stack in pre-order.
LEMMA WalkStep ==
  ASSUME PlanInv, WalkInv, [Next]_vars
  PROVE  WalkInv'
<1>1. CASE UNCHANGED <<plan, stack, order>>
  BY <1>1 DEF WalkInv
<1>2. CASE Ask
  BY <1>2 DEF Ask, Clear, WalkInv
<1>3. CASE Explain
  BY <1>3 DEF PlanInv, Phases, Fresh, Explain, WalkInv, judging
<1>4. CASE Load
  <2>1. /\ plan \in Plans /\ plan' = plan /\ order' = <<plan.root>>
        /\ stack' = Reverse(plan.kids[plan.root])
    BY <1>4 DEF PlanInv, Phases, Load
  <2>2. IsPlan(plan) /\ plan.root \in plan.nodes
    BY <2>1, PlanAssumption, PlanFacts
  <2>3. Traversed(plan, order', ToSet(plan.kids[plan.root]))
    BY <2>1, <2>2, WalkBegins
  <2>4. ToSet(stack') = ToSet(plan.kids[plan.root])
    BY <2>1, <2>2, PlanIs, ReverseIs
  <2>5. StackLeft(plan, stack')
    BY <2>1, <2>2, KidsStacked
  <2> QED
    BY <2>1, <2>3, <2>4, <2>5 DEF WalkInv, StackLeft
<1>5. CASE NextNode
  <2> DEFINE t == Last(stack)
  <2>1. /\ plan \in Plans /\ plan' = plan /\ order' = Append(order, t) /\ stack # <<>>
        /\ stack' = Front(stack) \o Reverse(plan.kids[t])
        /\ plan.root \in ToSet(order)
    BY <1>5 DEF PlanInv, Phases, Walking, NextNode
  <2>2. IsPlan(plan) /\ stack \in Seq(plan.nodes) /\ order \in Seq(plan.nodes)
    BY <2>1, PlanAssumption DEF PlanInv, Shaped, TypeOK
  <2>3. order # <<>>
    BY <2>1 DEF ToSet
  <2>4. Traversed(plan, order, ToSet(stack)) /\ StackLeft(plan, stack)
    BY <2>3 DEF WalkInv, StackLeft
  <2>5. /\ t \in ToSet(stack)
        /\ \A u \in ToSet(stack) \ {t} : ToTheLeft(Path(plan, t), Path(plan, u))
        /\ StackLeft(plan, stack')
        /\ ToSet(stack') = (ToSet(stack) \ {t}) \cup ToSet(plan.kids[t])
    BY <2>1, <2>2, <2>4, StackGoesOn
  <2>6. ToSet(stack) \in SUBSET plan.nodes
    BY <2>2, ElementOfSeq DEF ToSet
  <2>7. Traversed(plan, order', ToSet(stack'))
    <3> DEFINE P == ToSet(stack)
    <3>1. Traversed(plan, Append(order, t), (P \ {t}) \cup ToSet(plan.kids[t]))
      <4> HIDE DEF t, P
      <4>1. t \in P /\ P \in SUBSET plan.nodes /\ Traversed(plan, order, P)
            /\ \A u \in P \ {t} : ToTheLeft(Path(plan, t), Path(plan, u))
        BY <2>4, <2>5, <2>6 DEF P
      <4> QED
        BY <2>2, <4>1, WalkGoesOn
    <3> QED
      BY <2>1, <2>5, <3>1
  <2> QED
    BY <2>1, <2>5, <2>7 DEF WalkInv, StackLeft
<1> QED
  <2>1. CASE Reject \/ Fails \/ ReadNothing \/ LoadRejects \/ FetchFails \/ EmitBreaks \/ Answer
    BY <2>1, <1>1 DEF Reject, Fails, ReadNothing, LoadRejects, FetchFails, EmitBreaks, Answer, End,
                  judging
  <2>2. CASE Walked \/ Policy \/ VisitRoot \/ VisitChild \/ Return \/ Judged
    BY <2>2, <1>1 DEF Walked, Policy, VisitRoot, VisitChild, Return, Judged, judging
  <2>3. CASE Judge \/ Spilled \/ Double \/ Doubled \/ Fetch \/ JudgeFilter
    BY <2>3, <1>1 DEF Judge, Spilled, Double, Doubled, Fetch, JudgeFilter
  <2>4. CASE ChangeConfig \/ ChangeIndexes
    BY <2>4, <1>1 DEF ChangeConfig, ChangeIndexes, judging
  <2>5. CASE UNCHANGED vars
    BY <2>5, <1>1 DEF vars, judging
  <2> QED
    BY <1>2, <1>3, <1>4, <1>5, <2>1, <2>2, <2>3, <2>4, <2>5 DEF Next, CallStep

\* The i-th node of the walk has i - 1 nodes before it.
LEMMA OrderCounts ==
  ASSUME PlanInv, WalkInv
  PROVE  /\ \A i \in DOMAIN order : Number(order[i]) = i - 1
         /\ \A i, j \in DOMAIN order : order[i] = order[j] => i = j
<1>1. order \in Seq(plan.nodes) /\ DOMAIN order = 1 .. Len(order)
  BY DEF PlanInv, Shaped, TypeOK
<1>2. CASE order = <<>>
  BY <1>2
<1>3. CASE order # <<>>
  <2>1. IsPlan(plan) /\ Traversed(plan, order, ToSet(stack))
    BY <1>3, PlanAssumption DEF WalkInv
  <2> QED
    BY <1>1, <2>1, WalkCounts DEF Number
<1> QED
  BY <1>2, <1>3

-----------------------------------------------------------------------------
(***************************************************************************)
(* The order of the issues.                                                *)
(***************************************************************************)
LEMMA CheckPlaces ==
  ASSUME PlanInv
  PROVE  /\ checks.checks \in Seq(CheckNames)
         /\ \A c \in DOMAIN checks.checks : CheckNo(checks.checks[c]) = c
         /\ \A x \in ToSet(checks.checks) :
              CheckNo(x) \in DOMAIN checks.checks /\ checks.checks[CheckNo(x)] = x
<1>1. checks.checks \in Seq(CheckNames)
  BY ChecksAre DEF PlanInv
<1>2. \A c, d \in DOMAIN checks.checks : checks.checks[c] = checks.checks[d] => c = d
  <2>1. CASE checks = NoChecks
    BY <2>1 DEF NoChecks
  <2>2. CASE checks # NoChecks
    BY <2>2, PlanAssumption DEF PlanInv, Shaped
  <2> QED
    BY <2>1, <2>2
<1>3. ASSUME NEW c \in DOMAIN checks.checks PROVE CheckNo(checks.checks[c]) = c
  BY <1>2 DEF CheckNo
<1>4. ASSUME NEW x \in ToSet(checks.checks)
      PROVE  CheckNo(x) \in DOMAIN checks.checks /\ checks.checks[CheckNo(x)] = x
  BY DEF CheckNo, ToSet
<1> QED
  BY <1>1, <1>3, <1>4

\* Where an issue stands.
LEMMA PlaceOfIssue ==
  ASSUME PlanInv, WalkInv, PlaceInv, NEW i \in DOMAIN issues
  PROVE  /\ Number(issues[i].node) \in Nat /\ Number(issues[i].node) + 1 \in DOMAIN order
         /\ order[Number(issues[i].node) + 1] = issues[i].node
         /\ CheckNo(issues[i].check) \in Nat
         /\ \/ Number(issues[i].node) + 1 < pos
            \/ Number(issues[i].node) + 1 = pos /\ CheckNo(issues[i].check) < k
<1>1. order \in Seq(plan.nodes) /\ DOMAIN order = 1 .. Len(order)
  BY DEF PlanInv, Shaped, TypeOK
<1>2. PICK j \in DOMAIN order : order[j] = issues[i].node
  BY DEF PlaceInv, ToSet
<1>3. Number(issues[i].node) = j - 1 /\ j \in Nat /\ j > 0
  BY <1>1, <1>2, OrderCounts
<1>4. CheckNo(issues[i].check) \in Nat
  BY CheckPlaces DEF PlaceInv
<1> QED
  BY <1>2, <1>3, <1>4 DEF PlaceInv, Done

\* What is done stays done, and one thing more is done.
LEMMA DoneOn ==
  ASSUME PlanInv, NextCheck, pos <= Len(order), k <= Len(checks.checks)
  PROVE  (pos < pos' \/ (pos = pos' /\ k < k')) /\ \A i, c \in Nat : Done(i, c) => Done(i, c)'
<1>1. pos \in Nat /\ k \in Nat
  BY DEF PlanInv, Shaped, TypeOK
<1>2. CASE k < Len(checks.checks)
  BY <1>1, <1>2 DEF NextCheck, Done
<1>3. CASE ~(k < Len(checks.checks))
  BY <1>1, <1>3 DEF NextCheck, Done
<1> QED
  BY <1>2, <1>3

\* Places depend on the plan and the checks alone.
LEMMA PlacesKept ==
  ASSUME UNCHANGED <<plan, checks>>, NEW i
  PROVE  /\ Number(issues[i].node)' = Number(issues'[i].node)
         /\ CheckNo(issues[i].check)' = CheckNo(issues'[i].check)
BY DEF Number, CheckNo

\* An issue more, behind all others.
LEMMA PlaceFound ==
  ASSUME PlanInv, WalkInv, PlaceInv, IssuesInOrder, plan \in Plans,
         pos <= Len(order), k <= Len(checks.checks), NextCheck, UNCHANGED <<plan, checks, order>>,
         NEW column, NEW mb \in Nat, issues' = Append(issues, Issue(column, mb)),
         Check = "EstimateMismatchCheck" => ~IsUnder(plan, Node, "Limit")
  PROVE  PlaceInv' /\ IssuesInOrder'
<1> DEFINE e == Issue(column, mb)
           n == Len(issues)
<1>1. IsPlan(plan) /\ order \in Seq(plan.nodes) /\ pos \in 1 .. Len(order) /\ k \in Nat \ {0}
  BY PlanAssumption DEF PlanInv, Shaped, TypeOK
<1>2. Node \in plan.nodes /\ Node \in ToSet(order) /\ Number(Node) = pos - 1
  <2>1. pos \in DOMAIN order
    BY <1>1
  <2> QED
    BY <1>1, <2>1, ElementOfSeq, OrderCounts DEF Node, ToSet
<1>3. Check \in ToSet(checks.checks) /\ CheckNo(Check) = k
  <2>1. k \in DOMAIN checks.checks
    BY <1>1, CheckPlaces
  <2> QED
    BY <2>1, CheckPlaces DEF Check, ToSet
<1>4. e.node = Node /\ e.check = Check /\ e.target = mb /\ e.depth = Depth(plan, Node)
      /\ e.parent = IF Parent(plan, Node) = NoNode THEN "" ELSE NodeType(plan, Parent(plan, Node))
  BY DEF Issue
<1> HIDE DEF e
<1>5. /\ n \in Nat /\ DOMAIN issues = 1 .. n /\ DOMAIN issues' = 1 .. n + 1
      /\ \A i \in DOMAIN issues : issues'[i] = issues[i]
      /\ issues'[n + 1] = e
  <2>1. Shaped /\ issues' = Append(issues, e) /\ e.node \in plan.nodes /\ e.target \in Nat
    BY <1>2, <1>4 DEF PlanInv, e
  <2> QED
    BY <2>1, IssueAdded
<1> DEFINE Placed(i) == /\ issues'[i].check \in ToSet(checks.checks) /\ issues'[i].node \in ToSet(order)
                        /\ \/ Number(issues'[i].node) + 1 < pos'
                           \/ /\ Number(issues'[i].node) + 1 = pos'
                              /\ CheckNo(issues'[i].check) < k'
                        /\ issues'[i].check = "EstimateMismatchCheck" =>
                              ~IsUnder(plan, issues'[i].node, "Limit")
           Less(i, j) == \/ Number(issues'[i].node) < Number(issues'[j].node)
                         \/ /\ issues'[i].node = issues'[j].node
                            /\ CheckNo(issues'[i].check) < CheckNo(issues'[j].check)
           Told(i) == LET m == issues'[i].node
                      IN /\ issues'[i].depth = Depth(plan, m)
                         /\ \/ m = plan.root /\ issues'[i].parent = ""
                            \/ \E p \in plan.nodes : m \in ToSet(plan.kids[p])
                                              /\ issues'[i].parent = NodeType(plan, p)
<1>6. (\A i \in DOMAIN issues' : Placed(i)) => PlaceInv'
  BY DEF PlaceInv, Done, Number, CheckNo
<1>7. ASSUME \A i, j \in DOMAIN issues' : i < j => Less(i, j), \A i \in DOMAIN issues' : Told(i)
      PROVE  IssuesInOrder'
  <2>1. ASSUME NEW i \in DOMAIN issues', NEW j \in DOMAIN issues', i < j
        PROVE  \/ Number(issues[i].node)' < Number(issues[j].node)'
               \/ /\ issues'[i].node = issues'[j].node
                  /\ CheckNo(issues[i].check)' < CheckNo(issues[j].check)'
    <3>1. /\ Number(issues[i].node)' = Number(issues'[i].node)
          /\ Number(issues[j].node)' = Number(issues'[j].node)
          /\ CheckNo(issues[i].check)' = CheckNo(issues'[i].check)
          /\ CheckNo(issues[j].check)' = CheckNo(issues'[j].check)
      BY DEF Number, CheckNo
    <3>2. Less(i, j)
      BY <1>7, <2>1
    <3> QED
      BY <3>1, <3>2
  <2> QED
    BY <1>7, <2>1 DEF IssuesInOrder
<1>8. ASSUME NEW i \in DOMAIN issues
      PROVE  Placed(i) /\ Told(i) /\ Less(i, n + 1)
  <2>1. issues'[i] = issues[i]
    BY <1>5
  <2>2. /\ issues[i].check \in ToSet(checks.checks) /\ issues[i].node \in ToSet(order)
        /\ issues[i].check = "EstimateMismatchCheck" => ~IsUnder(plan, issues[i].node, "Limit")
    BY DEF PlaceInv
  <2> DEFINE a == Number(issues[i].node)
             c == CheckNo(issues[i].check)
  <2>3. a \in Nat /\ c \in Nat /\ (a + 1 < pos \/ (a + 1 = pos /\ c < k))
    BY PlaceOfIssue
  <2>4. a + 1 < pos' \/ (a + 1 = pos' /\ c < k')
    <3>1. \A x, y \in Nat : Done(x, y) => Done(x, y)'
      BY DoneOn
    <3>2. \A x, y \in Nat : x < pos \/ (x = pos /\ y < k) => x < pos' \/ (x = pos' /\ y < k')
      BY <3>1 DEF Done
    <3> HIDE DEF a, c
    <3> QED
      BY <2>3, <3>2
  <2>5. Placed(i)
    BY <2>1, <2>2, <2>4
  <2>6. Told(i)
    BY <2>1 DEF IssuesInOrder
  <2>7. Less(i, n + 1)
    <3>1. issues'[n + 1].node = Node /\ issues'[n + 1].check = Check
      BY <1>4, <1>5
    <3>2. a < pos - 1 \/ (a = pos - 1 /\ c < k)
      <4> HIDE DEF a, c
      <4> QED
        BY <1>1, <2>3
    <3>3. a = pos - 1 => issues[i].node = Node
      <4>1. order[a + 1] = issues[i].node
        BY PlaceOfIssue
      <4> HIDE DEF a
      <4> QED
        BY <1>1, <4>1 DEF Node
    <3> QED
      BY <1>2, <1>3, <2>1, <3>1, <3>2, <3>3
  <2> QED
    BY <2>5, <2>6, <2>7
<1>9. Placed(n + 1) /\ Told(n + 1)
  <2>1. issues'[n + 1] = e
    BY <1>5
  <2>2. Number(Node) + 1 = pos
    BY <1>1, <1>2
  <2>3. pos < pos' \/ (pos = pos' /\ k < k')
    BY DoneOn
  <2>4. Placed(n + 1)
    BY <1>2, <1>3, <1>4, <2>1, <2>2, <2>3
  <2>5. CASE Node = plan.root
    <3>1. Parent(plan, Node) = NoNode
      BY <2>5 DEF Parent
    <3> QED
      BY <1>4, <2>1, <2>4, <2>5, <3>1
  <2>6. CASE Node # plan.root
    <3>1. /\ Parent(plan, Node) \in plan.nodes /\ Node \in ToSet(plan.kids[Parent(plan, Node)])
          /\ Parent(plan, Node) # NoNode
      BY <1>1, <1>2, <2>6, ParentIs, PlanIs
    <3> QED
      BY <1>4, <2>1, <2>4, <3>1
  <2> QED
    BY <2>5, <2>6
<1>10. ASSUME NEW i \in DOMAIN issues, NEW j \in DOMAIN issues, i < j PROVE Less(i, j)
  <2>1. issues'[i] = issues[i] /\ issues'[j] = issues[j]
    BY <1>5
  <2> QED
    BY <1>10, <2>1 DEF IssuesInOrder
<1>11. \A i \in DOMAIN issues' : Placed(i) /\ Told(i)
  <2> HIDE DEF Placed, Told, n
  <2> QED
    BY <1>5, <1>8, <1>9
<1>12. \A i, j \in DOMAIN issues' : i < j => Less(i, j)
  <2> HIDE DEF Less, n
  <2>1. \A i, j \in 1 .. n + 1 : i < j => i \in 1 .. n /\ (j \in 1 .. n \/ j = n + 1)
    BY <1>5
  <2>2. \A i \in 1 .. n : Less(i, n + 1)
    BY <1>5, <1>8
  <2>3. \A i, j \in 1 .. n : i < j => Less(i, j)
    BY <1>5, <1>10
  <2> QED
    BY <1>5, <2>1, <2>2, <2>3
<1> HIDE DEF Placed, Told, Less
<1> QED
  BY <1>6, <1>7, <1>11, <1>12

\* Nothing new has been found.
LEMMA PlaceKept ==
  ASSUME PlaceInv, IssuesInOrder, UNCHANGED <<plan, checks, order, issues>>,
         \A i, c \in Nat : Done(i, c) => Done(i, c)',
         \A i \in DOMAIN issues :
           Number(issues[i].node) + 1 \in Nat /\ CheckNo(issues[i].check) \in Nat
  PROVE  PlaceInv' /\ IssuesInOrder'
<1>1. IssuesInOrder'
  <2>1. ASSUME NEW i \in DOMAIN issues', NEW j \in DOMAIN issues', i < j
        PROVE  \/ Number(issues[i].node)' < Number(issues[j].node)'
               \/ /\ issues'[i].node = issues'[j].node
                  /\ CheckNo(issues[i].check)' < CheckNo(issues[j].check)'
    <3>1. /\ Number(issues[i].node)' = Number(issues[i].node)
          /\ Number(issues[j].node)' = Number(issues[j].node)
          /\ CheckNo(issues[i].check)' = CheckNo(issues[i].check)
          /\ CheckNo(issues[j].check)' = CheckNo(issues[j].check)
      BY DEF Number, CheckNo
    <3>2. \/ Number(issues[i].node) < Number(issues[j].node)
          \/ issues[i].node = issues[j].node /\ CheckNo(issues[i].check) < CheckNo(issues[j].check)
      BY <2>1 DEF IssuesInOrder
    <3> QED
      BY <3>1, <3>2
  <2>2. \A i \in DOMAIN issues' :
          LET n == issues'[i].node
          IN /\ issues'[i].depth = Depth(plan', n)
             /\ \/ n = plan'.root /\ issues'[i].parent = ""
                \/ \E p \in plan'.nodes : n \in ToSet(plan'.kids[p])
                                           /\ issues'[i].parent = NodeType(plan', p)
    BY DEF IssuesInOrder
  <2> QED
    BY <2>1, <2>2 DEF IssuesInOrder
<1>2. ASSUME NEW i \in DOMAIN issues
      PROVE  \/ Number(issues[i].node) + 1 < pos'
             \/ /\ Number(issues[i].node) + 1 = pos'
                /\ CheckNo(issues[i].check) < k'
  <2> DEFINE a == Number(issues[i].node) + 1
             c == CheckNo(issues[i].check)
  <2>1. a \in Nat /\ c \in Nat /\ Done(a, c)
    BY DEF PlaceInv
  <2>2. a < pos' \/ (a = pos' /\ c < k')
    <3> HIDE DEF a, c
    <3>1. \A x, y \in Nat : x < pos \/ (x = pos /\ y < k) => x < pos' \/ (x = pos' /\ y < k')
      BY DEF Done
    <3>2. a < pos \/ (a = pos /\ c < k)
      BY <2>1 DEF Done
    <3> QED
      BY <2>1, <3>1, <3>2
  <2> QED
    BY <2>2
<1> QED
  BY <1>1, <1>2 DEF PlaceInv, Done, Number, CheckNo

LEMMA NonePlaced ==
  ASSUME issues' = <<>>
  PROVE  PlaceInv' /\ IssuesInOrder'
BY DEF PlaceInv, IssuesInOrder

\* Every step keeps the issues at places the loops have been at.
LEMMA PlaceStep ==
  ASSUME PlanInv, WalkInv, PlaceInv, IssuesInOrder, [Next]_vars
  PROVE  PlaceInv' /\ IssuesInOrder'
<1>1. \A i \in DOMAIN issues :
        Number(issues[i].node) + 1 \in Nat /\ CheckNo(issues[i].check) \in Nat
  BY PlaceOfIssue
<1>2. ASSUME UNCHANGED <<plan, checks, order, issues, pos, k>>
      PROVE  PlaceInv' /\ IssuesInOrder'
  <2>1. \A i, c \in Nat : Done(i, c) => Done(i, c)'
    BY <1>2 DEF Done
  <2> QED
    BY <1>1, <1>2, <2>1, PlaceKept
<1>3. CASE Ask
  BY <1>3, NonePlaced DEF Ask, Clear
<1>4. CASE Explain \/ Load \/ NextNode
  <2>1. issues = <<>> /\ issues' = issues
    BY <1>4 DEF PlanInv, Phases, Fresh, Explain, Load, NextNode, judging
  <2> QED
    BY <2>1, NonePlaced
<1>5. CASE Judge
  <2> DEFINE fires == Fires(Check, plan, Node, Params)
  <2>1. /\ pos <= Len(order) /\ k <= Len(checks.checks) /\ NextCheck /\ plan \in Plans
        /\ UNCHANGED <<plan, checks, order>>
        /\ issues' = IF fires THEN Append(issues, Issue(NoNode, 0)) ELSE issues
    BY <1>5 DEF PlanInv, Phases, Judge, Checking
  <2>2. CASE ~fires
    <3>1. issues' = issues
      BY <2>1, <2>2
    <3>2. \A i, c \in Nat : Done(i, c) => Done(i, c)'
      BY <2>1, DoneOn
    <3> QED
      BY <1>1, <2>1, <3>1, <3>2, PlaceKept
  <2>3. CASE fires
    <3>1. issues' = Append(issues, Issue(NoNode, 0))
      BY <2>1, <2>3
    <3>2. Check = "EstimateMismatchCheck" => ~IsUnder(plan, Node, "Limit")
      <4> SUFFICES ASSUME Check = "EstimateMismatchCheck" PROVE ~IsUnder(plan, Node, "Limit")
        OBVIOUS
      <4>1. EstimateMismatch(plan, Node, Params)
        BY <2>3 DEF Fires
      <4> QED
        BY <4>1 DEF EstimateMismatch
    <3>3. 0 \in Nat
      OBVIOUS
    <3> QED
      BY <2>1, <3>1, <3>2, <3>3, PlaceFound
  <2> QED
    BY <2>2, <2>3
<1>6. CASE Doubled
  <2>1. /\ pos <= Len(order) /\ k <= Len(checks.checks) /\ NextCheck /\ plan \in Plans
        /\ UNCHANGED <<plan, checks, order>> /\ Check = "DiskSpillSortCheck"
        /\ issues' = Append(issues, Issue(NoNode, target)) /\ target \in Nat
    BY <1>6 DEF PlanInv, Shaped, TypeOK, Phases, Doubling, Doubled
  <2> QED
    BY <2>1, PlaceFound
<1>7. CASE JudgeFilter
  <2>1. /\ pos <= Len(order) /\ k <= Len(checks.checks) /\ NextCheck /\ plan \in Plans
        /\ UNCHANGED <<plan, checks, order>> /\ Check = "NonSargableCheck"
        /\ issues' = issues \/ \E c : issues' = Append(issues, Issue(c, 0))
    BY <1>7 DEF PlanInv, Phases, JudgeFilter, Checking
  <2>2. CASE issues' = issues
    <3>1. \A i, c \in Nat : Done(i, c) => Done(i, c)'
      BY <2>1, DoneOn
    <3> QED
      BY <1>1, <2>1, <2>2, <3>1, PlaceKept
  <2>3. CASE \E c : issues' = Append(issues, Issue(c, 0))
    <3>1. PICK c : issues' = Append(issues, Issue(c, 0))
      BY <2>3
    <3>2. 0 \in Nat
      OBVIOUS
    <3> QED
      BY <2>1, <3>1, <3>2, PlaceFound
  <2> QED
    BY <2>1, <2>2, <2>3
<1> QED
  <2>1. CASE Reject \/ Fails \/ ReadNothing \/ LoadRejects \/ FetchFails \/ EmitBreaks \/ Answer
    BY <2>1, <1>2 DEF Reject, Fails, ReadNothing, LoadRejects, FetchFails, EmitBreaks, Answer, End,
                  judging
  <2>2. CASE Walked \/ Policy \/ VisitRoot \/ VisitChild \/ Return \/ Judged
    BY <2>2, <1>2 DEF Walked, Policy, VisitRoot, VisitChild, Return, Judged, judging
  <2>3. CASE Spilled \/ Double \/ Fetch
    BY <2>3, <1>2 DEF Spilled, Double, Fetch
  <2>4. CASE ChangeConfig \/ ChangeIndexes
    BY <2>4, <1>2 DEF ChangeConfig, ChangeIndexes, judging
  <2>5. CASE UNCHANGED vars
    BY <2>5, <1>2 DEF vars, judging
  <2> QED
    BY <1>3, <1>4, <1>5, <1>6, <1>7, <2>1, <2>2, <2>3, <2>4, <2>5 DEF Next, CallStep

-----------------------------------------------------------------------------
(***************************************************************************)
(* The recursion that lists the nodes.                                     *)
(***************************************************************************)
FramesOf(p) == [node : p.nodes, id : Nat, done : Nat]

LEMMA PendingIs ==
  ASSUME NEW p, NEW fs, NEW u
  PROVE  u \in Pending(p, fs) <=>
           \E f \in DOMAIN fs : \E d \in fs[f].done + 1 .. Len(p.kids[fs[f].node]) :
             u = p.kids[fs[f].node][d]
BY DEF Pending

LEMMA FrameIs ==
  ASSUME NEW p, IsPlan(p), NEW fs \in Seq(FramesOf(p)), NEW f \in DOMAIN fs
  PROVE  /\ fs[f].node \in p.nodes /\ fs[f].id \in Nat /\ fs[f].done \in Nat
         /\ Len(p.kids[fs[f].node]) \in Nat
         /\ Len(fs) \in Nat /\ DOMAIN fs = 1 .. Len(fs)
<1>1. fs[f] \in FramesOf(p)
  OBVIOUS
<1>2. fs[f].node \in p.nodes /\ fs[f].id \in Nat /\ fs[f].done \in Nat
  BY <1>1 DEF FramesOf
<1>3. p.kids[fs[f].node] \in Seq(p.nodes)
  BY <1>2, PlanIs
<1> QED
  BY <1>2, <1>3, LenProperties

\* The call for a child: its caller is at that child, no other frame changes.
Pushed(fs, gs, t, id) ==
  /\ Len(fs) \in Nat \ {0} /\ DOMAIN fs = 1 .. Len(fs)
  /\ Len(gs) = Len(fs) + 1 /\ DOMAIN gs = 1 .. Len(fs) + 1
  /\ \A f \in 1 .. Len(fs) : gs[f].node = fs[f].node /\ gs[f].id = fs[f].id
  /\ \A f \in 1 .. Len(fs) : f # Len(fs) => gs[f].done = fs[f].done
  /\ gs[Len(fs)].done = fs[Len(fs)].done + 1
  /\ gs[Len(fs) + 1].node = t /\ gs[Len(fs) + 1].id = id /\ gs[Len(fs) + 1].done = 0

LEMMA PushIs ==
  ASSUME NEW p, NEW fs \in Seq(FramesOf(p)), fs # <<>>, NEW t \in p.nodes, NEW id \in Nat,
         NEW gs, gs = Append([fs EXCEPT ![Len(fs)].done = @ + 1], Frame(t, id))
  PROVE  Pushed(fs, gs, t, id) /\ gs \in Seq(FramesOf(p))
<1> DEFINE n == Len(fs)
           top == [fs[n] EXCEPT !.done = @ + 1]
           hs == [fs EXCEPT ![n] = top]
           e == Frame(t, id)
<1>1. n \in Nat \ {0} /\ n \in 1 .. n /\ DOMAIN fs = 1 .. n
  <2>1. n \in Nat \ {0}
    BY EmptySeq
  <2> HIDE DEF n
  <2>2. n \in 1 .. n
    BY <2>1
  <2> QED
    BY <2>1, <2>2, LenProperties DEF n
<1>2. fs[n] \in FramesOf(p)
  BY <1>1, ElementOfSeq
<1>3. /\ top \in FramesOf(p) /\ top.node = fs[n].node /\ top.id = fs[n].id
      /\ top.done = fs[n].done + 1
  BY <1>2 DEF FramesOf
<1>4. e \in FramesOf(p) /\ e.node = t /\ e.id = id /\ e.done = 0
  BY DEF e, Frame, FramesOf
<1>5. gs = Append(hs, e)
  OBVIOUS
<1> HIDE DEF top, e
<1>6. /\ hs \in Seq(FramesOf(p)) /\ Len(hs) = n
      /\ \A j \in 1 .. n : hs[j] = IF j = n THEN top ELSE fs[j]
  BY <1>1, <1>3, ExceptSeq
<1> HIDE DEF hs, n
<1>7. /\ gs \in Seq(FramesOf(p)) /\ Len(gs) = n + 1
      /\ \A j \in 1 .. n : gs[j] = hs[j]
      /\ gs[n + 1] = e
  BY <1>4, <1>5, <1>6, AppendProperties
<1>8. DOMAIN gs = 1 .. n + 1
  BY <1>7, LenProperties
<1> QED
  BY <1>1, <1>3, <1>4, <1>6, <1>7, <1>8 DEF Pushed, n

\* What is pending stands to the right of the child that is called.
LEMMA PendingRight ==
  ASSUME NEW p, IsPlan(p), NEW fs \in Seq(FramesOf(p)), fs # <<>>, NEW v, FramesInv(p, fs, v),
         NEW t, t = p.kids[fs[Len(fs)].node][fs[Len(fs)].done + 1],
         fs[Len(fs)].done < Len(p.kids[fs[Len(fs)].node])
  PROVE  /\ t \in p.nodes /\ t \in ToSet(p.kids[fs[Len(fs)].node])
         /\ \A f \in DOMAIN fs : \A d \in fs[f].done + 1 .. Len(p.kids[fs[f].node]) :
              /\ p.kids[fs[f].node][d] \in p.nodes
              /\ f # Len(fs) \/ d # fs[f].done + 1 =>
                   /\ p.kids[fs[f].node][d] # t
                   /\ ToTheLeft(Path(p, t), Path(p, p.kids[fs[f].node][d]))
<1> DEFINE n == Len(fs)
           m == fs[n].node
           e == fs[n].done
<1>1. n \in Nat \ {0} /\ DOMAIN fs = 1 .. n
  BY EmptySeq, LenProperties
<1>2. m \in p.nodes /\ e \in Nat /\ Len(p.kids[m]) \in Nat /\ e + 1 \in 1 .. Len(p.kids[m])
  <2>1. n \in DOMAIN fs
    <3> HIDE DEF n
    <3> QED
      BY <1>1
  <2>2. m \in p.nodes /\ e \in Nat /\ Len(p.kids[m]) \in Nat /\ e < Len(p.kids[m])
    BY <2>1, FrameIs
  <2> HIDE DEF m, e
  <2> QED
    BY <2>2
<1>3. t \in p.nodes /\ t \in ToSet(p.kids[m]) /\ t = p.kids[m][e + 1]
  BY <1>2, SiblingIs
<1>4. ASSUME NEW f \in DOMAIN fs, NEW d \in fs[f].done + 1 .. Len(p.kids[fs[f].node])
      PROVE  /\ p.kids[fs[f].node][d] \in p.nodes
             /\ f # n \/ d # fs[f].done + 1 =>
                  /\ p.kids[fs[f].node][d] # t
                  /\ ToTheLeft(Path(p, t), Path(p, p.kids[fs[f].node][d]))
  <2> DEFINE a == fs[f].node
             c == fs[f].done
             u == p.kids[a][d]
  <2>1. a \in p.nodes /\ c \in Nat /\ Len(p.kids[a]) \in Nat
    BY FrameIs
  <2>2. d \in 1 .. Len(p.kids[a]) /\ d \in Nat /\ d > c
    <3> HIDE DEF a, c
    <3>1. d \in c + 1 .. Len(p.kids[a])
      BY DEF a, c
    <3> QED
      BY <2>1, <3>1
  <2>3. u \in p.nodes
    BY <2>1, <2>2, SiblingIs
  <2>4. ASSUME IsLeftOf(Path(p, t), Path(p, u)) PROVE u # t /\ ToTheLeft(Path(p, t), Path(p, u))
    <3>1. ToTheLeft(Path(p, t), Path(p, u))
      BY <1>3, <2>3, <2>4, BeforeNodes
    <3> QED
      BY <1>3, <2>3, <3>1, BeforeNodes
  <2>5. CASE f = n /\ d # c + 1
    <3>1. IsLeftOf(Path(p, p.kids[m][e + 1]), Path(p, p.kids[m][d]))
      <4>1. d \in 1 .. Len(p.kids[m]) /\ e + 1 < d
        <5> HIDE DEF a, c, m, e
        <5>1. a = m /\ c = e
          BY <2>5 DEF a, c, m, e
        <5> QED
          BY <1>2, <2>2, <2>5, <5>1
      <4> HIDE DEF m, e
      <4> QED
        BY <1>2, <4>1, KidsLeft
    <3> QED
      BY <1>3, <2>3, <2>4, <2>5, <3>1
  <2>6. CASE f # n
    <3>1. f < n /\ n \in DOMAIN fs
      <4> HIDE DEF n
      <4> QED
        BY <1>1, <2>6
    <3>2. c > 0 /\ IsPrefix(Path(p, p.kids[a][c]), Path(p, m))
      BY <3>1 DEF FramesInv
    <3>3. c \in 1 .. Len(p.kids[a]) /\ c < d
      <4> HIDE DEF a, c
      <4> QED
        BY <2>1, <2>2, <3>2
    <3> DEFINE b == p.kids[a][c]
    <3>4. b \in p.nodes /\ IsLeftOf(Path(p, b), Path(p, u))
      <4> HIDE DEF a, c
      <4> QED
        BY <2>1, <2>2, <3>3, SiblingIs, KidsLeft
    <3>5. Leads(Path(p, b), Path(p, m)) /\ Leads(Path(p, m), Path(p, t))
      <4>1. Leads(Path(p, b), Path(p, m))
        <5> HIDE DEF m
        <5> QED
          BY <1>2, <3>2, <3>4, BeforeNodes
      <4>2. Leads(Path(p, m), Path(p, t))
        <5> HIDE DEF m
        <5> QED
          BY <1>2, <1>3, PathOfKid
      <4> QED
        BY <4>1, <4>2
    <3> HIDE DEF b, u, m
    <3>6. Path(p, b) \in Paths /\ Path(p, m) \in Paths /\ Path(p, t) \in Paths /\ Path(p, u) \in Paths
      BY <1>2, <1>3, <2>3, <3>4, PathTypes
    <3>7. IsLeftOf(Path(p, t), Path(p, u))
      BY <3>4, <3>5, <3>6, LeadsOn, LeadsSelf, LeftExtends
    <3> QED
      BY <2>3, <2>4, <3>7 DEF u
  <2> QED
    BY <2>3, <2>5, <2>6
<1> QED
  BY <1>3, <1>4

\* After the call for the next child: that child is pending no more, its children are.
LEMMA PendingCalled ==
  ASSUME NEW p, IsPlan(p), NEW fs \in Seq(FramesOf(p)), fs # <<>>, NEW v, FramesInv(p, fs, v),
         NEW t, t = p.kids[fs[Len(fs)].node][fs[Len(fs)].done + 1],
         fs[Len(fs)].done < Len(p.kids[fs[Len(fs)].node]),
         NEW gs, NEW id, Pushed(fs, gs, t, id)
  PROVE  /\ t \in Pending(p, fs) /\ Pending(p, fs) \in SUBSET p.nodes
         /\ \A u \in Pending(p, fs) \ {t} : ToTheLeft(Path(p, t), Path(p, u))
         /\ Pending(p, gs) = (Pending(p, fs) \ {t}) \cup ToSet(p.kids[t])
<1> DEFINE n == Len(fs)
           P == Pending(p, fs)
           Kid(f, d) == p.kids[fs[f].node][d]
           Left(f) == fs[f].done + 1 .. Len(p.kids[fs[f].node])
<1>1. n \in Nat \ {0} /\ DOMAIN fs = 1 .. n /\ n \in DOMAIN fs
  <2>1. n \in Nat \ {0} /\ DOMAIN fs = 1 .. n
    BY DEF Pushed
  <2> HIDE DEF n
  <2> QED
    BY <2>1
<1>2. /\ t \in p.nodes
      /\ \A f \in DOMAIN fs : \A d \in Left(f) :
           /\ Kid(f, d) \in p.nodes
           /\ f # n \/ d # fs[f].done + 1 =>
                Kid(f, d) # t /\ ToTheLeft(Path(p, t), Path(p, Kid(f, d)))
  BY PendingRight
<1>3. \A f \in DOMAIN fs : fs[f].done \in Nat /\ Len(p.kids[fs[f].node]) \in Nat
  BY FrameIs
<1>4. \A u : u \in P <=> \E f \in DOMAIN fs : \E d \in Left(f) : u = Kid(f, d)
  BY PendingIs
<1>5. t = Kid(n, fs[n].done + 1) /\ fs[n].done + 1 \in Left(n)
  BY <1>1, <1>3
<1>6. t \in P /\ P \in SUBSET p.nodes /\ \A u \in P \ {t} : ToTheLeft(Path(p, t), Path(p, u))
  <2> HIDE DEF P, Kid, Left
  <2>1. t \in P
    BY <1>1, <1>4, <1>5
  <2>2. ASSUME NEW u \in P PROVE u \in p.nodes /\ (u # t => ToTheLeft(Path(p, t), Path(p, u)))
    <3>1. PICK f \in DOMAIN fs : \E d \in Left(f) : u = Kid(f, d)
      BY <1>4
    <3>2. PICK d \in Left(f) : u = Kid(f, d)
      BY <3>1
    <3> QED
      BY <1>2, <1>5, <3>2
  <2> QED
    BY <2>1, <2>2
<1>7. \A u : u \in ToSet(p.kids[t]) <=> \E d \in 1 .. Len(p.kids[t]) : u = p.kids[t][d]
  <2>1. p.kids[t] \in Seq(p.nodes)
    BY <1>2, PlanIs
  <2>2. DOMAIN p.kids[t] = 1 .. Len(p.kids[t])
    BY <2>1, LenProperties
  <2> QED
    BY ONLY <2>2 DEF ToSet
<1>8. ASSUME NEW u \in Pending(p, gs) PROVE u \in (P \ {t}) \cup ToSet(p.kids[t])
  <2>1. PICK f \in DOMAIN gs : \E d \in gs[f].done + 1 .. Len(p.kids[gs[f].node]) :
                                 u = p.kids[gs[f].node][d]
    BY PendingIs
  <2>2. PICK d \in gs[f].done + 1 .. Len(p.kids[gs[f].node]) : u = p.kids[gs[f].node][d]
    BY <2>1
  <2>3. CASE f \in 1 .. n /\ f # n
    <3>1. u = Kid(f, d) /\ d \in Left(f) /\ f \in DOMAIN fs
      BY <1>1, <2>2, <2>3 DEF Pushed
    <3> HIDE DEF P, Kid, Left
    <3> QED
      BY <1>2, <1>4, <2>3, <3>1
  <2>4. CASE f = n
    <3>1. u = Kid(n, d) /\ d \in fs[n].done + 1 + 1 .. Len(p.kids[fs[n].node])
      BY <1>1, <2>2, <2>4 DEF Pushed
    <3>2. d \in Left(n) /\ d # fs[n].done + 1
      BY <1>1, <1>3, <3>1
    <3> HIDE DEF P, Kid, Left, n
    <3> QED
      BY <1>1, <1>2, <1>4, <3>1, <3>2
  <2>5. CASE f = n + 1
    <3>1. u = p.kids[t][d] /\ d \in 0 + 1 .. Len(p.kids[t])
      BY <2>2, <2>5 DEF Pushed
    <3>2. d \in 1 .. Len(p.kids[t])
      BY ONLY <3>1
    <3> QED
      BY <1>7, <3>1, <3>2
  <2>6. DOMAIN gs = 1 .. n + 1
    BY DEF Pushed
  <2> HIDE DEF n
  <2>7. f \in 1 .. n + 1
    BY <2>6
  <2> QED
    BY <1>1, <2>3, <2>4, <2>5, <2>7
<1>9. ASSUME NEW u \in (P \ {t}) \cup ToSet(p.kids[t]) PROVE u \in Pending(p, gs)
  <2>1. CASE u \in P \ {t}
    <3>1. PICK f \in DOMAIN fs : \E d \in Left(f) : u = Kid(f, d)
      BY <1>4, <2>1
    <3>2. PICK d \in Left(f) : u = Kid(f, d)
      BY <3>1
    <3>3. f \in DOMAIN gs /\ gs[f].node = fs[f].node
      <4>1. \A i \in 1 .. n : i \in 1 .. n + 1
        <5> HIDE DEF n
        <5> QED
          BY <1>1
      <4> QED
        BY <1>1, <4>1 DEF Pushed
    <3>4. d \in gs[f].done + 1 .. Len(p.kids[fs[f].node])
      <4>1. CASE f # n
        BY <1>1, <3>2, <4>1 DEF Pushed
      <4>2. CASE f = n
        <5>1. d # fs[n].done + 1
          BY <2>1, <3>2, <4>2
        <5>2. gs[f].done = fs[f].done + 1
          BY <4>2 DEF Pushed
        <5> QED
          BY <1>3, <3>2, <4>2, <5>1, <5>2
      <4> QED
        BY <4>1, <4>2
    <3> QED
      BY <3>2, <3>3, <3>4, PendingIs
  <2>2. CASE u \in ToSet(p.kids[t])
    <3>1. PICK d \in 1 .. Len(p.kids[t]) : u = p.kids[t][d]
      BY <1>7, <2>2
    <3>2. n + 1 \in DOMAIN gs /\ gs[n + 1].node = t /\ gs[n + 1].done = 0
      <4>1. n + 1 \in 1 .. n + 1
        <5> HIDE DEF n
        <5> QED
          BY <1>1
      <4> QED
        BY <4>1 DEF Pushed
    <3>3. d \in gs[n + 1].done + 1 .. Len(p.kids[gs[n + 1].node])
      BY <3>1, <3>2
    <3> HIDE DEF n
    <3> QED
      BY <3>1, <3>2, <3>3, PendingIs
  <2> QED
    BY <2>1, <2>2
<1>10. Pending(p, gs) = (P \ {t}) \cup ToSet(p.kids[t])
  BY <1>8, <1>9
<1> QED
  BY <1>6, <1>10

\* The frames of a call for a child.
LEMMA FramesCalled ==
  ASSUME NEW p, IsPlan(p), NEW fs \in Seq(FramesOf(p)), fs # <<>>, NEW v \in Seq(p.nodes),
         FramesInv(p, fs, v),
         NEW t, t = p.kids[fs[Len(fs)].node][fs[Len(fs)].done + 1],
         fs[Len(fs)].done < Len(p.kids[fs[Len(fs)].node]),
         NEW gs, Pushed(fs, gs, t, Len(v))
  PROVE  FramesInv(p, gs, Append(v, t))
<1> DEFINE n == Len(fs)
           w == Append(v, t)
           m == fs[n].node
<1>1. n \in Nat \ {0} /\ DOMAIN fs = 1 .. n /\ n \in DOMAIN fs /\ DOMAIN gs = 1 .. n + 1
  <2>1. n \in Nat \ {0} /\ DOMAIN fs = 1 .. n /\ DOMAIN gs = 1 .. n + 1
    BY DEF Pushed
  <2> HIDE DEF n
  <2> QED
    BY <2>1
<1>2. m \in p.nodes /\ t \in p.nodes /\ t \in ToSet(p.kids[m])
  BY <1>1, PendingRight, FrameIs
<1>3. /\ Len(v) \in Nat /\ DOMAIN v = 1 .. Len(v) /\ DOMAIN w = 1 .. Len(v) + 1
      /\ \A i \in DOMAIN v : w[i] = v[i]
      /\ w[Len(v) + 1] = t
  <2>1. w \in Seq(p.nodes) /\ Len(w) = Len(v) + 1 /\ w[Len(v) + 1] = t
        /\ \A i \in 1 .. Len(v) : w[i] = v[i]
    <3>1. v \in Seq(p.nodes) /\ t \in p.nodes
      BY <1>2
    <3> QED
      BY ONLY <3>1, AppendProperties
  <2>2. DOMAIN v = 1 .. Len(v) /\ Len(v) \in Nat
    BY LenProperties
  <2> HIDE DEF w
  <2>3. DOMAIN w = 1 .. Len(w)
    BY <2>1, LenProperties
  <2> QED
    BY <2>1, <2>2, <2>3
<1>4. /\ \A f \in 1 .. n : gs[f].node = fs[f].node /\ gs[f].id = fs[f].id
      /\ \A f \in 1 .. n : f # n => gs[f].done = fs[f].done
      /\ gs[n].done = fs[n].done + 1
      /\ gs[n + 1].node = t /\ gs[n + 1].id = Len(v) /\ gs[n + 1].done = 0
  BY DEF Pushed
<1>5. \A f \in DOMAIN fs : fs[f].done \in Nat /\ Len(p.kids[fs[f].node]) \in Nat
  BY FrameIs
<1>6. Len(p.kids[t]) \in Nat
  BY <1>2, PlanIs, LenProperties
<1>7. /\ \A f \in DOMAIN fs :
           /\ fs[f].id + 1 \in DOMAIN v /\ v[fs[f].id + 1] = fs[f].node
           /\ fs[f].done \in 0 .. Len(p.kids[fs[f].node])
      /\ \A f, g \in DOMAIN fs : f < g =>
           /\ fs[f].done > 0
           /\ IsPrefix(Path(p, p.kids[fs[f].node][fs[f].done]), Path(p, fs[g].node))
      /\ \A f \in DOMAIN fs : f + 1 \in DOMAIN fs => p.kids[fs[f].node][fs[f].done] = fs[f + 1].node
  BY DEF FramesInv
<1> HIDE DEF w
<1>8. ASSUME NEW f \in DOMAIN gs
      PROVE  /\ gs[f].id + 1 \in DOMAIN w /\ w[gs[f].id + 1] = gs[f].node
             /\ gs[f].done \in 0 .. Len(p.kids[gs[f].node])
  <2>1. CASE f \in 1 .. n
    <3>1. /\ fs[f].id + 1 \in DOMAIN v /\ v[fs[f].id + 1] = fs[f].node
          /\ gs[f].node = fs[f].node /\ gs[f].id = fs[f].id
      BY <1>1, <1>4, <1>7, <2>1
    <3>2. gs[f].done \in 0 .. Len(p.kids[fs[f].node])
      <4>1. CASE f = n
        <5>1. gs[n].done = fs[n].done + 1 /\ fs[n].done < Len(p.kids[fs[n].node])
          BY <1>4
        <5> HIDE DEF n
        <5> QED
          BY <1>1, <1>5, <4>1, <5>1
      <4>2. CASE f # n
        BY <1>1, <1>4, <1>7, <2>1, <4>2
      <4> QED
        BY <4>1, <4>2
    <3>3. \A i \in DOMAIN v : i \in DOMAIN w
      BY <1>3
    <3> QED
      BY <1>3, <3>1, <3>2, <3>3
  <2>2. CASE f = n + 1
    BY <1>3, <1>4, <1>6, <2>2
  <2> HIDE DEF n
  <2> QED
    BY <1>1, <2>1, <2>2
<1>9. ASSUME NEW f \in DOMAIN gs, NEW g \in DOMAIN gs, f < g
      PROVE  /\ gs[f].done > 0
             /\ IsPrefix(Path(p, p.kids[gs[f].node][gs[f].done]), Path(p, gs[g].node))
  <2>0. f \in 1 .. n /\ (g \in 1 .. n \/ g = n + 1) /\ (f = n => g = n + 1)
    <3> HIDE DEF n
    <3> QED
      BY <1>1, <1>9
  <2>1. CASE g \in 1 .. n
    <3>1. f # n
      <4> HIDE DEF n
      <4> QED
        BY <1>1, <1>9, <2>0, <2>1
    <3> QED
      BY <1>1, <1>4, <1>7, <1>9, <2>0, <2>1, <3>1
  <2>2. CASE g = n + 1 /\ f # n
    <3> DEFINE b == p.kids[fs[f].node][fs[f].done]
    <3>1. f < n
      <4> HIDE DEF n
      <4> QED
        BY <1>1, <2>0, <2>2
    <3>2. fs[f].done > 0 /\ IsPrefix(Path(p, b), Path(p, m))
      BY <1>1, <1>7, <2>0, <3>1
    <3>3. b \in p.nodes
      <4>1. fs[f].done \in 1 .. Len(p.kids[fs[f].node])
        BY <1>1, <1>5, <1>7, <2>0, <3>2
      <4>2. fs[f].node \in p.nodes
        BY <1>1, <2>0, FrameIs
      <4> QED
        BY <4>1, <4>2, SiblingIs
    <3>4. Leads(Path(p, b), Path(p, m)) /\ Leads(Path(p, m), Path(p, t))
      <4> HIDE DEF b, m
      <4> QED
        BY <1>2, <3>2, <3>3, BeforeNodes, PathOfKid
    <3>5. IsPrefix(Path(p, b), Path(p, t))
      <4> HIDE DEF b, m
      <4>1. Path(p, b) \in Paths /\ Path(p, m) \in Paths /\ Path(p, t) \in Paths
        BY <1>2, <3>3, PathTypes
      <4> QED
        BY <1>2, <3>3, <3>4, <4>1, LeadsOn, BeforeNodes
    <3> QED
      BY <1>1, <1>4, <2>0, <2>2, <3>2, <3>5
  <2>3. CASE g = n + 1 /\ f = n
    <3>0. n \in 1 .. n /\ fs[n].done + 1 > 0
      <4>1. fs[n].done \in Nat
        BY <1>1, <1>5
      <4> HIDE DEF n
      <4> QED
        BY <1>1, <4>1
    <3>1. p.kids[gs[f].node][gs[f].done] = t /\ gs[g].node = t /\ gs[f].done > 0
      <4>1. gs[n].node = fs[n].node /\ gs[n].done = fs[n].done + 1 /\ gs[n + 1].node = t
        BY <1>4, <3>0
      <4> QED
        BY <2>3, <3>0, <4>1
    <3>2. IsPrefix(Path(p, t), Path(p, t))
      BY <1>2, PathTypes, LeadsSelf, BeforeNodes
    <3> QED
      BY <3>1, <3>2
  <2> QED
    BY <2>0, <2>1, <2>2, <2>3
<1>10. ASSUME NEW f \in DOMAIN gs, f + 1 \in DOMAIN gs
       PROVE  p.kids[gs[f].node][gs[f].done] = gs[f + 1].node
  <2>0. f \in 1 .. n /\ (f # n => f + 1 \in 1 .. n)
    <3> HIDE DEF n
    <3> QED
      BY <1>1, <1>10
  <2>1. CASE f = n
    BY <1>1, <1>4, <2>1
  <2>2. CASE f # n
    BY <1>1, <1>4, <1>7, <2>0, <2>2
  <2> QED
    BY <2>1, <2>2
<1> QED
  BY <1>8, <1>9, <1>10 DEF FramesInv, w

\* No two frames are for the same node.
LEMMA FramesApart ==
  ASSUME NEW p, IsPlan(p), NEW fs \in Seq(FramesOf(p)), NEW v, FramesInv(p, fs, v),
         NEW f \in DOMAIN fs, NEW g \in DOMAIN fs, fs[f].id = fs[g].id
  PROVE  f = g
<1>1. \A a, b \in DOMAIN fs : a < b => fs[a].node # fs[b].node
  <2> SUFFICES ASSUME NEW a \in DOMAIN fs, NEW b \in DOMAIN fs, a < b, fs[a].node = fs[b].node
               PROVE  FALSE
    OBVIOUS
  <2> DEFINE m == fs[a].node
             d == fs[a].done
             c == p.kids[m][d]
  <2>1. m \in p.nodes /\ d \in 1 .. Len(p.kids[m]) /\ IsPrefix(Path(p, c), Path(p, m))
    <3>1. m \in p.nodes /\ d \in Nat /\ Len(p.kids[m]) \in Nat
      BY FrameIs
    <3>2. d > 0 /\ d \in 0 .. Len(p.kids[m]) /\ IsPrefix(Path(p, c), Path(p, m))
      BY DEF FramesInv
    <3> HIDE DEF m, d
    <3> QED
      BY <3>1, <3>2
  <2>2. c \in ToSet(p.kids[m]) /\ c \in p.nodes
    <3> HIDE DEF m, d
    <3> QED
      BY <2>1, SiblingIs
  <2> HIDE DEF c, m
  <2> QED
    BY <2>1, <2>2, BeforeKid, BeforeNodes
<1>2. fs[f].node = fs[g].node
  BY DEF FramesInv
<1>3. DOMAIN fs = 1 .. Len(fs) /\ Len(fs) \in Nat
  BY LenProperties
<1> QED
  BY <1>1, <1>2, <1>3

\* The return of a call: its frame is gone.
Popped(fs, hs) ==
  /\ Len(fs) \in Nat \ {0} /\ DOMAIN fs = 1 .. Len(fs)
  /\ Len(hs) = Len(fs) - 1 /\ DOMAIN hs = 1 .. Len(fs) - 1
  /\ \A f \in 1 .. Len(fs) - 1 : hs[f] = fs[f]

LEMMA PopIs ==
  ASSUME NEW p, NEW fs \in Seq(FramesOf(p)), fs # <<>>
  PROVE  Popped(fs, Front(fs)) /\ Front(fs) \in Seq(FramesOf(p))
<1>1. /\ Front(fs) \in Seq(FramesOf(p)) /\ Len(fs) \in Nat \ {0}
      /\ Len(Front(fs)) = Len(fs) - 1 /\ \A i \in 1 .. Len(fs) - 1 : Front(fs)[i] = fs[i]
  BY LastIs
<1>2. DOMAIN fs = 1 .. Len(fs) /\ DOMAIN Front(fs) = 1 .. Len(Front(fs))
  BY <1>1, LenProperties
<1> QED
  BY <1>1, <1>2 DEF Popped

\* The frames after the innermost call has returned.
LEMMA FramesReturned ==
  ASSUME NEW p, IsPlan(p), NEW fs \in Seq(FramesOf(p)), fs # <<>>, NEW v, FramesInv(p, fs, v),
         fs[Len(fs)].done = Len(p.kids[fs[Len(fs)].node]),
         NEW hs, Popped(fs, hs)
  PROVE  FramesInv(p, hs, v) /\ Pending(p, hs) = Pending(p, fs)
<1> DEFINE n == Len(fs)
<1>1. n \in Nat \ {0} /\ DOMAIN fs = 1 .. n /\ n \in DOMAIN fs /\ DOMAIN hs = 1 .. n - 1
  <2>1. n \in Nat \ {0} /\ DOMAIN fs = 1 .. n /\ DOMAIN hs = 1 .. n - 1
    BY DEF Popped
  <2> HIDE DEF n
  <2> QED
    BY <2>1
<1>2. \A f \in DOMAIN hs : f \in DOMAIN fs /\ f # n /\ hs[f] = fs[f]
  <2>1. \A f \in 1 .. n - 1 : hs[f] = fs[f]
    BY DEF Popped
  <2> HIDE DEF n
  <2> QED
    BY <1>1, <2>1
<1>3. FramesInv(p, hs, v)
  <2> HIDE DEF n
  <2>1. \A f \in DOMAIN hs :
          /\ hs[f].id + 1 \in DOMAIN v /\ v[hs[f].id + 1] = hs[f].node
          /\ hs[f].done \in 0 .. Len(p.kids[hs[f].node])
    BY <1>2 DEF FramesInv
  <2>2. \A f, g \in DOMAIN hs : f < g =>
          /\ hs[f].done > 0
          /\ IsPrefix(Path(p, p.kids[hs[f].node][hs[f].done]), Path(p, hs[g].node))
    BY <1>2 DEF FramesInv
  <2>3. \A f \in DOMAIN hs : f + 1 \in DOMAIN hs =>
          p.kids[hs[f].node][hs[f].done] = hs[f + 1].node
    BY <1>2 DEF FramesInv
  <2> QED
    BY <2>1, <2>2, <2>3 DEF FramesInv
<1>4. ASSUME NEW u \in Pending(p, hs) PROVE u \in Pending(p, fs)
  <2>1. PICK f \in DOMAIN hs : \E d \in hs[f].done + 1 .. Len(p.kids[hs[f].node]) :
                                 u = p.kids[hs[f].node][d]
    BY PendingIs
  <2> QED
    BY <1>2, <2>1, PendingIs
<1>5. ASSUME NEW u \in Pending(p, fs) PROVE u \in Pending(p, hs)
  <2>1. PICK f \in DOMAIN fs : \E d \in fs[f].done + 1 .. Len(p.kids[fs[f].node]) :
                                 u = p.kids[fs[f].node][d]
    BY PendingIs
  <2>2. f # n
    <3> SUFFICES ASSUME f = n PROVE FALSE
      OBVIOUS
    <3>1. Len(p.kids[fs[n].node]) \in Nat
      BY <1>1, FrameIs
    <3>2. \E d \in Len(p.kids[fs[n].node]) + 1 .. Len(p.kids[fs[n].node]) : TRUE
      BY <2>1
    <3> HIDE DEF n
    <3> QED
      BY <3>1, <3>2
  <2>3. f \in DOMAIN hs
    <3> HIDE DEF n
    <3> QED
      BY <1>1, <2>2
  <2> QED
    BY <1>2, <2>1, <2>3, PendingIs
<1> QED
  BY <1>3, <1>4, <1>5

\* An entry stays as it is while a child of some node is called.
LEMMA EntryKept ==
  ASSUME NEW p, IsPlan(p), NEW fs \in Seq(FramesOf(p)), fs # <<>>, NEW v \in Seq(p.nodes),
         FramesInv(p, fs, v), NEW t \in p.nodes, NEW gs, Pushed(fs, gs, t, Len(v)),
         NEW l, NEW i \in 1 .. Len(v), EntryInv(p, l, fs, v, i), NEW l2, l2[i] = l[i]
  PROVE  EntryInv(p, l2, gs, Append(v, t), i)
<1> DEFINE n == Len(fs)
           w == Append(v, t)
           ids == l[i].children_ids
<1>1. n \in Nat \ {0} /\ DOMAIN fs = 1 .. n /\ DOMAIN gs = 1 .. n + 1 /\ Len(gs) = n + 1
  BY DEF Pushed
<1>2. /\ Len(v) \in Nat /\ DOMAIN v = 1 .. Len(v)
      /\ \A j \in DOMAIN v : j \in DOMAIN w /\ w[j] = v[j]
  <2>1. w \in Seq(p.nodes) /\ Len(w) = Len(v) + 1 /\ \A j \in 1 .. Len(v) : w[j] = v[j]
    BY AppendProperties
  <2>2. Len(v) \in Nat /\ DOMAIN v = 1 .. Len(v)
    BY LenProperties
  <2> HIDE DEF w
  <2>3. DOMAIN w = 1 .. Len(w)
    BY <2>1, LenProperties
  <2> QED
    BY <2>1, <2>2, <2>3
<1>3. /\ \A f \in 1 .. n : gs[f].id = fs[f].id
      /\ \A f \in 1 .. n : f # n => gs[f].done = fs[f].done
      /\ gs[n].done = fs[n].done + 1 /\ gs[n + 1].id = Len(v)
  BY DEF Pushed
<1>4. \A f \in DOMAIN fs : fs[f].done \in Nat /\ fs[f].id \in Nat
  BY FrameIs
<1>5. /\ DOMAIN l[i] = EntryFields
      /\ l[i].id = i - 1 /\ l[i].path = Path(p, v[i]) /\ l[i].depth = Depth(p, v[i])
      /\ \/ v[i] = p.root /\ l[i].parent_id = NoNode
         \/ \E j \in DOMAIN v :
              v[j] = Parent(p, v[i]) /\ v[i] # p.root /\ l[i].parent_id = j - 1
      /\ ids \in Seq(Nat) /\ Len(ids) <= Len(p.kids[v[i]])
      /\ \A c \in DOMAIN ids : ids[c] + 1 \in DOMAIN v /\ v[ids[c] + 1] = p.kids[v[i]][c]
      /\ (\A f \in DOMAIN fs : fs[f].id # i - 1) => Len(ids) = Len(p.kids[v[i]])
      /\ \A f \in DOMAIN fs : fs[f].id = i - 1 => Len(ids) = Returned(fs, f)
  BY DEF EntryInv
<1> HIDE DEF w, ids, n
<1>6. w[i] = v[i]
  BY <1>2
<1>7. \/ v[i] = p.root /\ l[i].parent_id = NoNode
      \/ \E j \in DOMAIN w : w[j] = Parent(p, v[i]) /\ v[i] # p.root /\ l[i].parent_id = j - 1
  BY <1>2, <1>5
<1>8. \A c \in DOMAIN ids : ids[c] + 1 \in DOMAIN w /\ w[ids[c] + 1] = p.kids[v[i]][c]
  BY <1>2, <1>5
<1>9. \A f \in 1 .. n : f \in DOMAIN gs /\ f # Len(gs)
  BY <1>1
<1>10. ASSUME \A f \in DOMAIN gs : gs[f].id # i - 1 PROVE Len(ids) = Len(p.kids[v[i]])
  BY <1>1, <1>3, <1>5, <1>9, <1>10
<1>11. ASSUME NEW f \in DOMAIN gs, gs[f].id = i - 1 PROVE Len(ids) = Returned(gs, f)
  <2>1. f \in 1 .. n
    <3>1. i - 1 # Len(v)
      BY <1>2
    <3>2. f # n + 1
      BY <1>3, <1>11, <3>1
    <3> QED
      BY <1>1, <3>2
  <2>2. Len(ids) = Returned(fs, f)
    BY <1>1, <1>3, <1>5, <1>11, <2>1
  <2>3. Returned(gs, f) = gs[f].done - 1
    BY <1>9, <2>1 DEF Returned
  <2>4. CASE f = n
    <3>1. Returned(fs, f) = fs[n].done
      BY <2>4 DEF Returned, n
    <3> QED
      BY <1>1, <1>3, <1>4, <2>1, <2>2, <2>3, <2>4, <3>1
  <2>5. CASE f # n
    <3>1. Returned(fs, f) = fs[f].done - 1
      BY <2>5 DEF Returned, n
    <3> QED
      BY <1>3, <2>1, <2>2, <2>3, <2>5, <3>1
  <2> QED
    BY <2>4, <2>5
<1>12. l2[i].children_ids = ids
  BY DEF ids
<1>13. EntryInv(p, l2, gs, w, i)
  BY <1>5, <1>6, <1>7, <1>8, <1>10, <1>11, <1>12 DEF EntryInv
<1> QED
  BY <1>13 DEF w

\* The entry of the child.
LEMMA EntryCalled ==
  ASSUME NEW p, IsPlan(p), NEW fs \in Seq(FramesOf(p)), fs # <<>>, NEW v \in Seq(p.nodes),
         FramesInv(p, fs, v), NEW t \in ToSet(p.kids[fs[Len(fs)].node]),
         NEW gs, Pushed(fs, gs, t, Len(v)),
         NEW l, NEW x, l[Len(v) + 1] = x, x.id = Len(v), x.parent_id = fs[Len(fs)].id,
         x.path = Path(p, t), x.depth = Depth(p, t), x.children_ids = <<>>,
         DOMAIN x = EntryFields
  PROVE  EntryInv(p, l, gs, Append(v, t), Len(v) + 1)
<1> DEFINE n == Len(fs)
           w == Append(v, t)
           i == Len(v) + 1
           m == fs[n].node
<1>1. /\ n \in Nat \ {0} /\ DOMAIN fs = 1 .. n /\ n \in DOMAIN fs
      /\ DOMAIN gs = 1 .. n + 1 /\ Len(gs) = n + 1
  <2>1. n \in Nat \ {0} /\ DOMAIN fs = 1 .. n /\ DOMAIN gs = 1 .. n + 1 /\ Len(gs) = n + 1
    BY DEF Pushed
  <2> HIDE DEF n
  <2> QED
    BY <2>1
<1>2. m \in p.nodes /\ t \in p.nodes /\ t # p.root /\ Parent(p, t) = m
  <2>1. m \in p.nodes /\ t \in ToSet(p.kids[m])
    BY <1>1, FrameIs
  <2> HIDE DEF m
  <2> QED
    BY <2>1, KidIs
<1>3. /\ Len(v) \in Nat /\ DOMAIN v = 1 .. Len(v)
      /\ (\A j \in DOMAIN v : j \in DOMAIN w /\ w[j] = v[j]) /\ w[i] = t
  <2>1. w \in Seq(p.nodes) /\ Len(w) = Len(v) + 1 /\ w[Len(v) + 1] = t
        /\ \A j \in 1 .. Len(v) : w[j] = v[j]
    <3>1. v \in Seq(p.nodes) /\ t \in p.nodes
      BY <1>2
    <3> QED
      BY ONLY <3>1, AppendProperties
  <2>2. Len(v) \in Nat /\ DOMAIN v = 1 .. Len(v)
    BY LenProperties
  <2> HIDE DEF w
  <2>3. DOMAIN w = 1 .. Len(w)
    BY <2>1, LenProperties
  <2> QED
    BY <2>1, <2>2, <2>3
<1>4. /\ \A f \in 1 .. n : gs[f].id = fs[f].id
      /\ gs[n + 1].id = Len(v) /\ gs[n + 1].done = 0
  BY DEF Pushed
<1>5. \A f \in DOMAIN fs : fs[f].id \in Nat /\ fs[f].id + 1 \in DOMAIN v
  BY FrameIs DEF FramesInv
<1>6. fs[n].id + 1 \in DOMAIN w /\ w[fs[n].id + 1] = m
  BY <1>1, <1>3 DEF FramesInv
<1>7. fs[n].id \in Nat /\ (fs[n].id + 1) - 1 = fs[n].id
  <2>1. fs[n].id \in Nat
    BY <1>1, <1>5
  <2> QED
    BY ONLY <2>1
<1>8. Len(p.kids[t]) \in Nat
  BY <1>2, PlanIs, LenProperties
<1>9. (i - 1) = Len(v)
  BY <1>3
<1> HIDE DEF w, n, i
<1>10. n + 1 \in DOMAIN gs /\ gs[n + 1].id = i - 1
  BY <1>1, <1>4, <1>9
<1>11. ASSUME NEW f \in DOMAIN gs, gs[f].id = i - 1 PROVE Returned(gs, f) = 0
  <2>1. f \notin 1 .. n
    BY <1>1, <1>3, <1>4, <1>5, <1>9, <1>11
  <2>2. f = n + 1
    BY <1>1, <2>1
  <2> QED
    BY <1>1, <1>4, <2>2 DEF Returned
<1>12. EntryInv(p, l, gs, w, i)
  <2>1. l[i] = x
    BY DEF i
  <2>2. \E j \in DOMAIN w : w[j] = Parent(p, t) /\ t # p.root /\ x.parent_id = j - 1
    BY <1>2, <1>6, <1>7 DEF n
  <2>3. <<>> \in Seq(Nat) /\ Len(<<>>) = 0 /\ DOMAIN <<>> = {}
    OBVIOUS
  <2>4. 0 <= Len(p.kids[t])
    BY <1>8
  <2> QED
    BY <1>3, <1>9, <1>10, <1>11, <2>1, <2>2, <2>3, <2>4 DEF EntryInv
<1> QED
  BY <1>12 DEF w, i

\* An entry stays as it is when a call returns to another node.
LEMMA EntryStays ==
  ASSUME NEW p, IsPlan(p), NEW fs \in Seq(FramesOf(p)), fs # <<>>, NEW v, FramesInv(p, fs, v),
         fs[Len(fs)].done = Len(p.kids[fs[Len(fs)].node]), NEW hs, Popped(fs, hs),
         NEW l, NEW i \in Nat, EntryInv(p, l, fs, v, i), NEW l2, l2[i] = l[i],
         Len(fs) > 1 => fs[Len(fs) - 1].id # i - 1
  PROVE  EntryInv(p, l2, hs, v, i)
<1> DEFINE n == Len(fs)
           ids == l[i].children_ids
<1>1. /\ n \in Nat \ {0} /\ DOMAIN fs = 1 .. n /\ DOMAIN hs = 1 .. n - 1 /\ Len(hs) = n - 1
      /\ \A f \in 1 .. n - 1 : hs[f] = fs[f]
      /\ n > 1 => fs[n - 1].id # i - 1
      /\ fs[n].done = Len(p.kids[fs[n].node])
  BY DEF Popped
<1>2. /\ DOMAIN l[i] = EntryFields
      /\ l[i].id = i - 1 /\ l[i].path = Path(p, v[i]) /\ l[i].depth = Depth(p, v[i])
      /\ \/ v[i] = p.root /\ l[i].parent_id = NoNode
         \/ \E j \in DOMAIN v :
              v[j] = Parent(p, v[i]) /\ v[i] # p.root /\ l[i].parent_id = j - 1
      /\ ids \in Seq(Nat) /\ Len(ids) <= Len(p.kids[v[i]])
      /\ \A c \in DOMAIN ids : ids[c] + 1 \in DOMAIN v /\ v[ids[c] + 1] = p.kids[v[i]][c]
      /\ (\A f \in DOMAIN fs : fs[f].id # i - 1) => Len(ids) = Len(p.kids[v[i]])
      /\ \A f \in DOMAIN fs : fs[f].id = i - 1 => Len(ids) = Returned(fs, f)
  BY DEF EntryInv
<1>3. \A f \in DOMAIN fs : fs[f].id \in Nat /\ v[fs[f].id + 1] = fs[f].node
  BY FrameIs DEF FramesInv
<1>4. \A f \in DOMAIN fs : fs[f].id = i - 1 => v[i] = fs[f].node
  <2> SUFFICES ASSUME NEW f \in DOMAIN fs, fs[f].id = i - 1 PROVE v[i] = fs[f].node
    OBVIOUS
  <2>1. fs[f].id + 1 = i
    BY <1>3
  <2> QED
    BY <1>3, <2>1
<1> HIDE DEF ids, n
<1>5. ASSUME \A f \in DOMAIN hs : hs[f].id # i - 1 PROVE Len(ids) = Len(p.kids[v[i]])
  <2>1. CASE fs[n].id = i - 1
    <3>1. n \in DOMAIN fs
      BY <1>1
    <3>2. Len(ids) = Returned(fs, n) /\ v[i] = fs[n].node
      BY <1>2, <1>4, <2>1, <3>1
    <3>3. Returned(fs, n) = fs[n].done
      BY DEF Returned, n
    <3> QED
      BY <1>1, <3>2, <3>3
  <2>2. CASE fs[n].id # i - 1
    <3>1. \A f \in DOMAIN fs : f \in 1 .. n - 1 \/ f = n
      BY <1>1
    <3>2. \A f \in DOMAIN fs : fs[f].id # i - 1
      BY <1>1, <1>5, <2>2, <3>1
    <3> QED
      BY <1>2, <3>2
  <2> QED
    BY <2>1, <2>2
<1>6. ASSUME NEW f \in DOMAIN hs, hs[f].id = i - 1 PROVE Len(ids) = Returned(hs, f)
  <2>1. f \in DOMAIN fs /\ hs[f] = fs[f] /\ f # n
    BY <1>1
  <2>2. f # n - 1
    BY <1>1, <1>6, <2>1
  <2>3. Len(ids) = Returned(fs, f)
    BY <1>2, <1>6, <2>1
  <2>4. Returned(fs, f) = fs[f].done - 1
    BY <2>1 DEF Returned, n
  <2>5. Returned(hs, f) = hs[f].done - 1
    BY <1>1, <2>2 DEF Returned
  <2> QED
    BY <2>1, <2>3, <2>4, <2>5
<1> QED
  BY <1>2, <1>5, <1>6 DEF EntryInv, ids

\* The entry of the caller takes the id of the call that returns.
LEMMA EntryGrows ==
  ASSUME NEW p, IsPlan(p), NEW fs \in Seq(FramesOf(p)), Len(fs) > 1, NEW v, FramesInv(p, fs, v),
         NEW hs, Popped(fs, hs),
         NEW l, NEW i \in Nat, EntryInv(p, l, fs, v, i), fs[Len(fs) - 1].id = i - 1,
         NEW l2, DOMAIN l2[i] = DOMAIN l[i], l2[i].id = l[i].id, l2[i].path = l[i].path,
         l2[i].depth = l[i].depth, l2[i].parent_id = l[i].parent_id,
         l2[i].children_ids = Append(l[i].children_ids, fs[Len(fs)].id)
  PROVE  EntryInv(p, l2, hs, v, i)
<1> DEFINE n == Len(fs)
           ids == l[i].children_ids
           jds == l2[i].children_ids
           id == fs[n].id
           m == v[i]
           e == fs[n - 1].done
<1>1. /\ n \in Nat \ {0} /\ DOMAIN fs = 1 .. n /\ DOMAIN hs = 1 .. n - 1 /\ Len(hs) = n - 1
      /\ \A f \in 1 .. n - 1 : hs[f] = fs[f]
      /\ n > 1
  BY DEF Popped
<1>2. n - 1 \in DOMAIN fs /\ n \in DOMAIN fs /\ n - 1 \in DOMAIN hs /\ n - 1 # n /\ n - 1 < n
      /\ (n - 1) + 1 = n
  <2> HIDE DEF n
  <2> QED
    BY <1>1
<1>3. /\ DOMAIN l[i] = EntryFields
      /\ l[i].id = i - 1 /\ l[i].path = Path(p, m) /\ l[i].depth = Depth(p, m)
      /\ \/ m = p.root /\ l[i].parent_id = NoNode
         \/ \E j \in DOMAIN v : v[j] = Parent(p, m) /\ m # p.root /\ l[i].parent_id = j - 1
      /\ ids \in Seq(Nat)
      /\ \A c \in DOMAIN ids : ids[c] + 1 \in DOMAIN v /\ v[ids[c] + 1] = p.kids[m][c]
      /\ \A f \in DOMAIN fs : fs[f].id = i - 1 => Len(ids) = Returned(fs, f)
  BY DEF EntryInv
<1>4. id \in Nat /\ id + 1 \in DOMAIN v /\ v[id + 1] = fs[n].node
  BY <1>2, FrameIs DEF FramesInv
<1>5. /\ fs[n - 1].node = m /\ e \in Nat /\ e > 0 /\ e <= Len(p.kids[m])
      /\ p.kids[m][e] = fs[n].node
  <2>1. fs[n - 1].node = m
    <3>1. fs[n - 1].id + 1 = i
      OBVIOUS
    <3> QED
      BY <1>2, <3>1 DEF FramesInv
  <2>2. e \in Nat /\ e > 0 /\ p.kids[fs[n - 1].node][e] = fs[n].node
    BY <1>2, FrameIs DEF FramesInv
  <2>3. e \in 0 .. Len(p.kids[fs[n - 1].node])
    BY <1>2 DEF FramesInv
  <2> HIDE DEF e, m, n
  <2> QED
    BY <2>1, <2>2, <2>3
<1>6. Len(ids) = e - 1
  <2>1. Len(ids) = Returned(fs, n - 1)
    BY <1>2, <1>3
  <2> QED
    BY <1>2, <2>1 DEF Returned
<1>7. /\ jds \in Seq(Nat) /\ Len(jds) = Len(ids) + 1 /\ DOMAIN ids = 1 .. Len(ids)
      /\ DOMAIN jds = 1 .. Len(ids) + 1
      /\ \A c \in 1 .. Len(ids) : jds[c] = ids[c]
      /\ jds[Len(ids) + 1] = id
  <2>1. jds = Append(ids, id)
    OBVIOUS
  <2> HIDE DEF ids, jds, id
  <2>2. /\ jds \in Seq(Nat) /\ Len(jds) = Len(ids) + 1
        /\ \A c \in 1 .. Len(ids) : jds[c] = ids[c]
        /\ jds[Len(ids) + 1] = id
    BY <1>3, <1>4, <2>1, AppendProperties
  <2>3. DOMAIN ids = 1 .. Len(ids) /\ DOMAIN jds = 1 .. Len(jds)
    BY <1>3, <2>2, LenProperties
  <2> QED
    BY <2>2, <2>3
<1> HIDE DEF ids, jds, id, m, e, n
<1>8. Len(ids) + 1 = e /\ Len(jds) = e
  BY <1>5, <1>6, <1>7
<1>9. ASSUME NEW c \in DOMAIN jds PROVE jds[c] + 1 \in DOMAIN v /\ v[jds[c] + 1] = p.kids[m][c]
  <2>1. CASE c \in 1 .. Len(ids)
    BY <1>3, <1>7, <2>1
  <2>2. CASE c = Len(ids) + 1
    BY <1>4, <1>5, <1>7, <1>8, <2>2
  <2>3. c \in 1 .. Len(ids) \/ c = Len(ids) + 1
    <3>1. c \in 1 .. Len(ids) + 1 /\ Len(ids) \in Nat
      BY <1>3, <1>7, LenProperties
    <3> QED
      BY ONLY <3>1
  <2> QED
    BY <2>1, <2>2, <2>3
<1>10. hs[n - 1].id = i - 1 /\ Returned(hs, n - 1) = e
  BY <1>1, <1>2 DEF Returned, e, n
<1>11. ASSUME NEW f \in DOMAIN hs, hs[f].id = i - 1 PROVE f = n - 1
  <2>1. f \in DOMAIN fs /\ fs[f].id = fs[n - 1].id
    BY <1>1, <1>2, <1>10, <1>11
  <2> QED
    BY <1>2, <2>1, FramesApart
<1>12. EntryInv(p, l2, hs, v, i)
  <2>1. \/ m = p.root /\ l2[i].parent_id = NoNode
        \/ \E j \in DOMAIN v : v[j] = Parent(p, m) /\ m # p.root /\ l2[i].parent_id = j - 1
    BY <1>3
  <2>2. Len(jds) <= Len(p.kids[m])
    BY <1>5, <1>8
  <2>3. \A f \in DOMAIN hs : hs[f].id = i - 1 => Len(jds) = Returned(hs, f)
    BY <1>8, <1>10, <1>11
  <2>4. ~(\A f \in DOMAIN hs : hs[f].id # i - 1)
    BY <1>2, <1>10
  <2>5. l2[i].children_ids = jds /\ v[i] = m
    BY DEF jds, m
  <2>6. /\ DOMAIN l2[i] = EntryFields
        /\ l2[i].id = i - 1 /\ l2[i].path = Path(p, m) /\ l2[i].depth = Depth(p, m)
    BY <1>3
  <2> QED
    BY ONLY <1>7, <1>9, <2>1, <2>2, <2>3, <2>4, <2>5, <2>6 DEF EntryInv
<1> QED
  BY <1>12

-----------------------------------------------------------------------------
(***************************************************************************)
(* The list, and the recursion that makes it.                              *)
(***************************************************************************)
\* The nodes that have been put out.
IsVisit(p, l, fs, v, text) ==
  /\ v \in Seq(p.nodes) /\ Len(v) = Len(l)
  /\ Traversed(p, v, Pending(p, fs))
  /\ FramesInv(p, fs, v)
  /\ \A i \in 1 .. Len(l) : IF text THEN BlockInv(p, l, v, i) ELSE EntryInv(p, l, fs, v, i)

LEMMA VisitIs ==
  ASSUME PlanInv, VisitInv, list # <<>>
  PROVE  plan \in Plans /\ IsPlan(plan) /\ \E v : IsVisit(plan, list, frames, v, AsText)
<1>1. IsSeq(list) /\ DOMAIN list = 1 .. Len(list) /\ Len(list) \in Nat
  BY IsSeqDomain DEF PlanInv, Shaped
<1>2. plan \in Plans
  BY DEF VisitInv
<1>3. PICK v \in [DOMAIN list -> plan.nodes] :
        /\ Traversed(plan, v, Pending(plan, frames))
        /\ FramesInv(plan, frames, v)
        /\ \A i \in DOMAIN list : IF AsText THEN BlockInv(plan, list, v, i)
                                 ELSE EntryInv(plan, list, frames, v, i)
  BY DEF VisitInv
<1>4. v \in Seq(plan.nodes) /\ Len(v) = Len(list)
  BY <1>1, SeqOfFunction
<1>5. IsVisit(plan, list, frames, v, AsText)
  BY <1>1, <1>3, <1>4 DEF IsVisit
<1> QED
  BY <1>2, <1>5, PlanAssumption

LEMMA VisitMade ==
  ASSUME PlanInv', plan' \in Plans, pc' = "visit", reply' # "answered", list' # <<>>,
         NEW v, IsVisit(plan', list', frames', v, AsText')
  PROVE  VisitInv'
<1>1. DOMAIN list' = 1 .. Len(list')
  BY IsSeqDomain DEF PlanInv, Shaped
<1>2. v \in [1 .. Len(list') -> plan'.nodes]
  BY LenProperties DEF IsVisit
<1> QED
  BY <1>1, <1>2 DEF VisitInv, IsVisit

LEMMA VisitKept ==
  ASSUME VisitInv, UNCHANGED <<plan, tool, list, frames>>,
         pc' \in {"visit", "idle"} \/ list = <<>>,
         reply' = "answered" => list # <<>> /\ frames = <<>>
  PROVE  VisitInv'
<1>1. AsText' = AsText
  BY DEF AsText
<1> QED
  BY <1>1 DEF VisitInv

LEMMA NothingVisited ==
  ASSUME list' = <<>>, frames' = <<>>, reply' # "answered"
  PROVE  VisitInv'
BY DEF VisitInv

\* The new element of the list, and the elements there were.
LEMMA ElementPut ==
  ASSUME IsSeq(list), NEW n, NEW parent, Put(n, parent)
  PROVE  /\ Len(list) \in Nat /\ Len(list') = Len(list) + 1 /\ list' # <<>>
         /\ \A i \in 1 .. Len(list) : list'[i] = list[i]
         /\ list'[Len(list) + 1] = IF AsText THEN Block(n) ELSE Entry(n, Len(list), parent)
<1> DEFINE x == IF AsText THEN Block(n) ELSE Entry(n, Len(list), parent)
<1>1. list' = Append(list, x)
  BY DEF Put
<1> HIDE DEF x
<1>2. /\ IsSeq(list') /\ Len(list') = Len(list) + 1
      /\ \A i \in 1 .. Len(list) : list'[i] = list[i]
      /\ list'[Len(list) + 1] = x
  BY <1>1, AppendIs
<1>3. Len(list) \in Nat
  BY DEF IsSeq
<1>4. list' # <<>>
  <2> SUFFICES ASSUME list' = <<>> PROVE FALSE
    OBVIOUS
  <2>1. Len(list') = 0
    OBVIOUS
  <2> QED
    BY ONLY <1>2, <1>3, <2>1
<1> QED
  BY <1>2, <1>3, <1>4 DEF x

LEMMA EntryOf ==
  ASSUME NEW n, NEW id, NEW parent
  PROVE  /\ DOMAIN Entry(n, id, parent) = EntryFields
         /\ Entry(n, id, parent).id = id /\ Entry(n, id, parent).parent_id = parent
         /\ Entry(n, id, parent).depth = Depth(plan, n) /\ Entry(n, id, parent).path = Path(plan, n)
         /\ Entry(n, id, parent).children_ids = <<>>
         /\ Block(n).indent = Depth(plan, n) /\ Block(n).marker = Last(Path(plan, n))
BY DEF Entry, Block, EntryFields

LEMMA RootVisited ==
  ASSUME PlanInv, VisitInv, VisitRoot, PlanInv'
  PROVE  VisitInv'
<1> DEFINE r == plan.root
           v == <<r>>
           f == Frame(r, 0)
<1>1. /\ plan \in Plans /\ IsSeq(list) /\ list = <<>> /\ frames' = <<f>> /\ Put(r, NoNode)
      /\ UNCHANGED <<pc, tool, plan, reply>> /\ pc = "visit" /\ reply = "none"
  BY DEF VisitRoot, PlanInv, Shaped, Phases
<1>2. IsPlan(plan) /\ r \in plan.nodes /\ plan.kids[r] \in Seq(plan.nodes)
  <2>1. IsPlan(plan)
    BY <1>1, PlanAssumption
  <2> QED
    BY <2>1, PlanIs
<1>3. Len(list) = 0 /\ AsText' = AsText
  BY <1>1 DEF AsText
<1>4. /\ Len(list') = 1 /\ list' # <<>>
      /\ list'[1] = IF AsText THEN Block(r) ELSE Entry(r, 0, NoNode)
  <2>1. /\ Len(list') = Len(list) + 1 /\ list' # <<>>
        /\ list'[Len(list) + 1] = IF AsText THEN Block(r) ELSE Entry(r, Len(list), NoNode)
    BY <1>1, ElementPut
  <2>2. 0 + 1 = 1
    OBVIOUS
  <2> QED
    BY ONLY <1>3, <2>1, <2>2
<1>5. /\ v \in Seq(plan.nodes) /\ Len(v) = 1 /\ v[1] = r /\ DOMAIN v = {1}
  <2>1. v \in Seq(plan.nodes) /\ Len(v) = 1 /\ v[1] = r
    BY <1>2, OneIs
  <2> HIDE DEF v
  <2>2. DOMAIN v = 1 .. 1
    BY <2>1, LenProperties
  <2> QED
    BY <2>1, <2>2
<1>6. /\ DOMAIN frames' = {1} /\ Len(frames') = 1 /\ frames'[1].node = r /\ frames'[1].id = 0
      /\ frames'[1].done = 0
  BY <1>1 DEF Frame
<1>7. Pending(plan, frames') = ToSet(plan.kids[r])
  <2>1. \A u : u \in ToSet(plan.kids[r]) <=> \E d \in 1 .. Len(plan.kids[r]) : u = plan.kids[r][d]
    <3>1. DOMAIN plan.kids[r] = 1 .. Len(plan.kids[r])
      BY <1>2, LenProperties
    <3> QED
      BY ONLY <3>1 DEF ToSet
  <2>2. \A u : u \in Pending(plan, frames') <=> \E d \in 0 + 1 .. Len(plan.kids[r]) : u = plan.kids[r][d]
    <3> SUFFICES ASSUME NEW u
                 PROVE  u \in Pending(plan, frames') <=>
                          \E d \in 0 + 1 .. Len(plan.kids[r]) : u = plan.kids[r][d]
      OBVIOUS
    <3>1. u \in Pending(plan, frames') <=>
            \E g \in DOMAIN frames' :
              \E d \in frames'[g].done + 1 .. Len(plan.kids[frames'[g].node]) :
                u = plan.kids[frames'[g].node][d]
      BY PendingIs
    <3> QED
      BY ONLY <1>6, <3>1
  <2>3. 0 + 1 = 1
    OBVIOUS
  <2> QED
    BY <2>1, <2>2, <2>3
<1>8. Traversed(plan, v, Pending(plan, frames'))
  BY <1>2, <1>7, WalkBegins
<1>9. FramesInv(plan, frames', v)
  <2>1. Len(plan.kids[r]) \in Nat
    BY <1>2, LenProperties
  <2>2. 0 + 1 = 1 /\ 0 \in 0 .. Len(plan.kids[r]) /\ 1 + 1 # 1 /\ ~(1 < 1)
    BY <2>1
  <2> HIDE DEF v
  <2> QED
    BY ONLY <1>5, <1>6, <2>2 DEF FramesInv
<1>10. ASSUME AsText PROVE BlockInv(plan, list', v, 1)
  BY <1>4, <1>5, <1>10, EntryOf DEF BlockInv
<1>11. ASSUME ~AsText PROVE EntryInv(plan, list', frames', v, 1)
  <2> DEFINE x == list'[1]
  <2>1. /\ DOMAIN x = EntryFields /\ x.id = 0 /\ x.parent_id = NoNode
        /\ x.depth = Depth(plan, r) /\ x.path = Path(plan, r) /\ x.children_ids = <<>>
    BY <1>4, <1>11, EntryOf
  <2>2. <<>> \in Seq(Nat) /\ Len(<<>>) = 0 /\ DOMAIN <<>> = {} /\ 1 - 1 = 0
    OBVIOUS
  <2>3. 0 <= Len(plan.kids[r])
    BY <1>2, LenProperties
  <2>4. Returned(frames', 1) = 0
    BY <1>6 DEF Returned
  <2> HIDE DEF v
  <2> QED
    BY <1>5, <1>6, <2>1, <2>2, <2>3, <2>4 DEF EntryInv
<1>12. \A i \in 1 .. Len(list') : i = 1
  BY <1>4
<1>13. IsVisit(plan, list', frames', v, AsText)
  <2>1. \A i \in 1 .. Len(list') : IF AsText THEN BlockInv(plan, list', v, i)
                                   ELSE EntryInv(plan, list', frames', v, i)
    BY <1>10, <1>11, <1>12
  <2>2. v \in Seq(plan.nodes) /\ Len(v) = Len(list')
    BY <1>4, <1>5
  <2> HIDE DEF v
  <2> QED
    BY <1>8, <1>9, <2>1, <2>2 DEF IsVisit
<1> HIDE DEF v
<1> QED
  BY <1>1, <1>3, <1>4, <1>13, VisitMade

LEMMA ChildVisited ==
  ASSUME PlanInv, VisitInv, VisitChild, PlanInv'
  PROVE  VisitInv'
<1> DEFINE n == Len(frames)
           top == frames[n]
           t == plan.kids[top.node][top.done + 1]
<1>1. /\ frames # <<>> /\ frames \in Seq(Frames) /\ IsSeq(list)
      /\ UNCHANGED <<pc, tool, plan, reply>> /\ pc = "visit" /\ reply = "none"
      /\ top.done < Len(plan.kids[top.node])
      /\ Put(t, top.id)
      /\ frames' = Append([frames EXCEPT ![n].done = @ + 1], Frame(t, Len(list)))
  BY DEF VisitChild, PlanInv, Shaped, Phases, Last
<1>2. frames \in Seq(FramesOf(plan))
  BY <1>1 DEF Frames, FramesOf
<1>3. list # <<>> /\ AsText' = AsText
  BY <1>1 DEF VisitInv, AsText
<1>4. plan \in Plans /\ IsPlan(plan)
  BY <1>3, VisitIs
<1>5. PICK v : IsVisit(plan, list, frames, v, AsText)
  BY <1>3, VisitIs
<1>6. /\ v \in Seq(plan.nodes) /\ Len(v) = Len(list) /\ FramesInv(plan, frames, v)
      /\ Traversed(plan, v, Pending(plan, frames))
  BY <1>5 DEF IsVisit
<1>7. t \in plan.nodes /\ t \in ToSet(plan.kids[top.node])
  BY <1>1, <1>2, <1>4, <1>6, PendingRight
<1> HIDE DEF t
<1>8. Len(v) \in Nat
  BY <1>6, LenProperties
<1>9. Pushed(frames, frames', t, Len(v))
  BY <1>1, <1>2, <1>6, <1>7, <1>8, PushIs
<1> DEFINE w == Append(v, t)
<1>10. FramesInv(plan, frames', w)
  BY <1>1, <1>2, <1>4, <1>6, <1>9, FramesCalled DEF t
<1>11. Traversed(plan, w, Pending(plan, frames'))
  <2> DEFINE P == Pending(plan, frames)
  <2>1. /\ t \in P /\ P \in SUBSET plan.nodes
        /\ \A u \in P \ {t} : ToTheLeft(Path(plan, t), Path(plan, u))
        /\ Pending(plan, frames') = (P \ {t}) \cup ToSet(plan.kids[t])
    BY <1>1, <1>2, <1>4, <1>6, <1>9, PendingCalled DEF t
  <2>2. Traversed(plan, v, P)
    BY <1>6
  <2> HIDE DEF P
  <2>3. Traversed(plan, w, (P \ {t}) \cup ToSet(plan.kids[t]))
    BY <1>4, <1>6, <2>1, <2>2, WalkGoesOn
  <2> QED
    BY <2>1, <2>3
<1>12. /\ Len(list) \in Nat /\ Len(list') = Len(list) + 1 /\ list' # <<>>
       /\ \A i \in 1 .. Len(list) : list'[i] = list[i]
       /\ list'[Len(list) + 1] = IF AsText THEN Block(t) ELSE Entry(t, Len(list), top.id)
  BY <1>1, ElementPut
<1>13. /\ w \in Seq(plan.nodes) /\ Len(w) = Len(v) + 1 /\ w[Len(v) + 1] = t
       /\ \A i \in 1 .. Len(v) : w[i] = v[i]
  <2>1. v \in Seq(plan.nodes) /\ t \in plan.nodes
    BY <1>6, <1>7
  <2> QED
    BY ONLY <2>1, AppendProperties
<1>14. ASSUME AsText, NEW i \in 1 .. Len(list') PROVE BlockInv(plan, list', w, i)
  <2> HIDE DEF w
  <2>1. CASE i \in 1 .. Len(list)
    <3>1. BlockInv(plan, list, v, i)
      BY <1>5, <1>14, <2>1 DEF IsVisit
    <3>2. list'[i] = list[i] /\ w[i] = v[i]
      BY <1>6, <1>12, <1>13, <2>1
    <3> QED
      BY <3>1, <3>2 DEF BlockInv
  <2>2. CASE i = Len(list) + 1
    <3>1. list'[i] = Block(t) /\ w[i] = t
      BY <1>6, <1>12, <1>13, <1>14, <2>2
    <3> QED
      BY <3>1, EntryOf DEF BlockInv
  <2>3. i \in 1 .. Len(list) \/ i = Len(list) + 1
    <3>1. i \in 1 .. Len(list) + 1 /\ Len(list) \in Nat
      BY <1>12
    <3> QED
      BY ONLY <3>1
  <2> QED
    BY <2>1, <2>2, <2>3
<1>15. ASSUME ~AsText, NEW i \in 1 .. Len(list') PROVE EntryInv(plan, list', frames', w, i)
  <2>1. CASE i \in 1 .. Len(list)
    <3>1. EntryInv(plan, list, frames, v, i)
      BY <1>5, <1>15, <2>1 DEF IsVisit
    <3>2. i \in 1 .. Len(v) /\ list'[i] = list[i]
      BY <1>6, <1>12, <2>1
    <3> QED
      BY <1>1, <1>2, <1>4, <1>6, <1>7, <1>9, <3>1, <3>2, EntryKept
  <2>2. CASE i = Len(list) + 1
    <3> DEFINE x == Entry(t, Len(list), top.id)
    <3>1. /\ DOMAIN x = EntryFields /\ x.id = Len(v) /\ x.parent_id = top.id
          /\ x.depth = Depth(plan, t) /\ x.path = Path(plan, t) /\ x.children_ids = <<>>
      BY <1>6, EntryOf
    <3>2. list'[Len(v) + 1] = x /\ i = Len(v) + 1
      BY <1>6, <1>12, <1>15, <2>2
    <3> HIDE DEF x
    <3> QED
      BY <1>1, <1>2, <1>4, <1>6, <1>7, <1>9, <3>1, <3>2, EntryCalled
  <2>3. i \in 1 .. Len(list) \/ i = Len(list) + 1
    <3>1. i \in 1 .. Len(list) + 1 /\ Len(list) \in Nat
      BY <1>12
    <3> QED
      BY ONLY <3>1
  <2> QED
    BY <2>1, <2>2, <2>3
<1>16. IsVisit(plan, list', frames', w, AsText)
  <2> HIDE DEF w
  <2>1. w \in Seq(plan.nodes) /\ Len(w) = Len(list')
    BY <1>6, <1>12, <1>13
  <2> QED
    BY <1>10, <1>11, <1>14, <1>15, <2>1 DEF IsVisit
<1> HIDE DEF w
<1> QED
  BY <1>1, <1>3, <1>4, <1>12, <1>16, VisitMade

\* The entry of the caller, and the other elements of the list.
LEMMA IdAdded ==
  ASSUME NEW l, IsSeq(l), NEW m \in 1 .. Len(l), DOMAIN l[m] = EntryFields, NEW id,
         NEW l2, l2 = [l EXCEPT ![m].children_ids = Append(@, id)]
  PROVE  /\ Len(l2) = Len(l) /\ DOMAIN l2 = 1 .. Len(l) /\ Len(l) \in Nat
         /\ \A i \in 1 .. Len(l) : i # m => l2[i] = l[i]
         /\ DOMAIN l2[m] = DOMAIN l[m]
         /\ l2[m].id = l[m].id /\ l2[m].path = l[m].path /\ l2[m].depth = l[m].depth
         /\ l2[m].parent_id = l[m].parent_id
         /\ l2[m].children_ids = Append(l[m].children_ids, id)
<1> DEFINE ids == Append(l[m].children_ids, id)
           x == [l[m] EXCEPT !.children_ids = ids]
<1>1. DOMAIN l = 1 .. Len(l) /\ Len(l) \in Nat /\ l = [i \in 1 .. Len(l) |-> l[i]]
  BY IsSeqDomain DEF IsSeq
<1>2. l2 = [l EXCEPT ![m] = x]
  OBVIOUS
<1> HIDE DEF ids
<1>3. /\ DOMAIN x = DOMAIN l[m] /\ x.id = l[m].id /\ x.path = l[m].path /\ x.depth = l[m].depth
      /\ x.parent_id = l[m].parent_id /\ x.children_ids = ids
  BY DEF EntryFields
<1> HIDE DEF x
<1>4. l2[m] = x /\ DOMAIN l2 = 1 .. Len(l) /\ \A i \in 1 .. Len(l) : i # m => l2[i] = l[i]
  BY <1>1, <1>2
<1>5. Len(l2) = Len(l)
  <2>1. l2 \in [1 .. Len(l) -> {l2[i] : i \in 1 .. Len(l)}]
    BY <1>1, <1>2
  <2> QED
    BY <1>1, <2>1, SeqOfFunction
<1> QED
  BY <1>1, <1>3, <1>4, <1>5 DEF ids

LEMMA ReturnVisited ==
  ASSUME PlanInv, VisitInv, Return, PlanInv'
  PROVE  VisitInv'
<1> DEFINE n == Len(frames)
           top == frames[n]
           m == frames[n - 1].id + 1
<1>1. /\ frames # <<>> /\ frames \in Seq(Frames) /\ IsSeq(list)
      /\ UNCHANGED <<pc, tool, plan, reply>> /\ pc = "visit" /\ reply = "none"
      /\ top.done = Len(plan.kids[top.node])
      /\ frames' = Front(frames)
      /\ list' = IF AsText \/ n = 1 THEN list
                 ELSE [list EXCEPT ![m].children_ids = Append(@, top.id)]
  BY DEF Return, PlanInv, Shaped, Phases, Last
<1>2. frames \in Seq(FramesOf(plan))
  BY <1>1 DEF Frames, FramesOf
<1>3. list # <<>> /\ AsText' = AsText
  BY <1>1 DEF VisitInv, AsText
<1>4. plan \in Plans /\ IsPlan(plan)
  BY <1>3, VisitIs
<1>5. PICK v : IsVisit(plan, list, frames, v, AsText)
  BY <1>3, VisitIs
<1>6. /\ v \in Seq(plan.nodes) /\ Len(v) = Len(list) /\ FramesInv(plan, frames, v)
      /\ Traversed(plan, v, Pending(plan, frames))
  BY <1>5 DEF IsVisit
<1>7. Popped(frames, frames')
  BY <1>1, <1>2, PopIs
<1>8. FramesInv(plan, frames', v) /\ Traversed(plan, v, Pending(plan, frames'))
  BY <1>1, <1>2, <1>4, <1>6, <1>7, FramesReturned
<1>9. n \in Nat \ {0} /\ DOMAIN frames = 1 .. n /\ n \in DOMAIN frames
  <2>1. n \in Nat \ {0} /\ DOMAIN frames = 1 .. n
    BY <1>7 DEF Popped
  <2> HIDE DEF n
  <2> QED
    BY <2>1
<1>10. Len(list) \in Nat /\ \A i \in 1 .. Len(list) : i \in Nat
  BY <1>1 DEF IsSeq
<1>11. CASE AsText
  <2>1. list' = list
    BY <1>1, <1>11
  <2>2. \A i \in 1 .. Len(list) : BlockInv(plan, list, v, i)
    BY <1>5, <1>11 DEF IsVisit
  <2>3. IsVisit(plan, list', frames', v, AsText)
    BY <1>6, <1>8, <1>11, <2>1, <2>2 DEF IsVisit
  <2> QED
    BY <1>1, <1>3, <1>4, <2>1, <2>3, VisitMade
<1>12. CASE ~AsText
  <2>1. \A i \in 1 .. Len(list) : EntryInv(plan, list, frames, v, i)
    BY <1>5, <1>12 DEF IsVisit
  <2>2. CASE n = 1
    <3>1. list' = list
      BY <1>1, <2>2
    <3>2. ~(n > 1)
      BY <2>2
    <3>3. ASSUME NEW i \in 1 .. Len(list) PROVE EntryInv(plan, list, frames', v, i)
      <4>1. i \in Nat /\ EntryInv(plan, list, frames, v, i)
        BY <1>10, <2>1
      <4> QED
        BY <1>1, <1>2, <1>4, <1>6, <1>7, <3>2, <4>1, EntryStays
    <3>4. IsVisit(plan, list', frames', v, AsText)
      BY <1>6, <1>8, <1>12, <3>1, <3>3 DEF IsVisit
    <3> QED
      BY <1>1, <1>3, <1>4, <3>1, <3>4, VisitMade
  <2>3. CASE n # 1
    <3>1. n > 1 /\ n - 1 \in DOMAIN frames
      <4> HIDE DEF n
      <4> QED
        BY <1>9, <2>3
    <3>2. m \in 1 .. Len(list) /\ frames[n - 1].id \in Nat /\ m \in Nat /\ frames[n - 1].id = m - 1
      <4>1. frames[n - 1].id \in Nat
        BY <1>2, <1>4, <3>1, FrameIs
      <4>2. m \in DOMAIN v /\ DOMAIN v = 1 .. Len(v)
        BY <1>6, <3>1, LenProperties DEF FramesInv
      <4> QED
        BY <1>6, <4>1, <4>2
    <3>3. DOMAIN list[m] = EntryFields
      BY <2>1, <3>2 DEF EntryInv
    <3>4. /\ Len(list') = Len(list)
          /\ \A i \in 1 .. Len(list) : i # m => list'[i] = list[i]
          /\ DOMAIN list'[m] = DOMAIN list[m]
          /\ list'[m].id = list[m].id /\ list'[m].path = list[m].path
          /\ list'[m].depth = list[m].depth /\ list'[m].parent_id = list[m].parent_id
          /\ list'[m].children_ids = Append(list[m].children_ids, top.id)
      <4>1. list' = [list EXCEPT ![m].children_ids = Append(@, top.id)]
        BY <1>1, <1>12, <2>3
      <4>2. IsSeq(list)
        BY <1>1
      <4> HIDE DEF m, top
      <4> QED
        BY ONLY <3>2, <3>3, <4>1, <4>2, IdAdded
    <3>5. ASSUME NEW i \in 1 .. Len(list) PROVE EntryInv(plan, list', frames', v, i)
      <4>1. i \in Nat /\ EntryInv(plan, list, frames, v, i)
        BY <1>10, <2>1
      <4>2. CASE i # m
        <5>1. list'[i] = list[i]
          BY <3>4, <4>2
        <5>2. frames[n - 1].id # i - 1
          <6> HIDE DEF n, m
          <6> QED
            BY <3>2, <4>1, <4>2
        <5> QED
          BY <1>1, <1>2, <1>4, <1>6, <1>7, <4>1, <5>1, <5>2, EntryStays
      <4>3. CASE i = m
        <5>1. /\ DOMAIN list'[i] = DOMAIN list[i]
              /\ list'[i].id = list[i].id /\ list'[i].path = list[i].path
              /\ list'[i].depth = list[i].depth /\ list'[i].parent_id = list[i].parent_id
              /\ list'[i].children_ids = Append(list[i].children_ids, frames[Len(frames)].id)
          BY <3>4, <4>3
        <5>2. frames[Len(frames) - 1].id = i - 1
          BY <3>2, <4>3
        <5> HIDE DEF m
        <5> QED
          BY <1>2, <1>4, <1>6, <1>7, <3>1, <4>1, <5>1, <5>2, EntryGrows
      <4> QED
        BY <4>2, <4>3
    <3>6. list' # <<>>
      <4> SUFFICES ASSUME list' = <<>> PROVE FALSE
        OBVIOUS
      <4>1. Len(list') = 0
        OBVIOUS
      <4> HIDE DEF m
      <4> QED
        BY <1>10, <3>2, <3>4, <4>1
    <3>7. IsVisit(plan, list', frames', v, AsText)
      BY <1>6, <1>8, <1>12, <3>4, <3>5 DEF IsVisit
    <3> QED
      BY <1>1, <1>3, <1>4, <3>6, <3>7, VisitMade
  <2> QED
    BY <2>2, <2>3
<1> QED
  BY <1>11, <1>12

\* Every step keeps the list and the frames of the recursion together.
LEMMA VisitStep ==
  ASSUME PlanInv, VisitInv, [Next]_vars, PlanInv'
  PROVE  VisitInv'
<1>1. CASE VisitRoot
  BY <1>1, RootVisited
<1>2. CASE VisitChild
  BY <1>2, ChildVisited
<1>3. CASE Return
  BY <1>3, ReturnVisited
<1>4. CASE Ask
  BY <1>4, NothingVisited DEF Ask, Clear
<1>5. CASE Explain
  BY <1>5, NothingVisited DEF Explain, serving, PlanInv, Phases, VisitInv
<1>6. CASE Reject \/ Fails \/ ReadNothing \/ LoadRejects \/ FetchFails \/ EmitBreaks
  BY <1>6, VisitKept DEF Reject, Fails, ReadNothing, LoadRejects, FetchFails, EmitBreaks, End, serving
<1>7. CASE Answer
  BY <1>7, VisitKept DEF Answer, End, serving
<1>8. ASSUME pc \notin {"visit", "idle"}, UNCHANGED <<plan, tool, list, frames, reply>>
      PROVE  VisitInv'
  BY <1>8, VisitKept DEF VisitInv
<1>9. ASSUME UNCHANGED <<pc, plan, tool, list, frames, reply>>
      PROVE  VisitInv'
  BY <1>9, VisitKept DEF VisitInv
<1> QED
  <2>1. CASE Load \/ NextNode \/ Walked
    BY <2>1, <1>8 DEF Load, NextNode, Walked, serving
  <2>2. CASE Judge \/ Spilled \/ Double \/ Doubled
    BY <2>2, <1>8 DEF Judge, Checking, Spilled, Double, Doubled, serving
  <2>3. CASE Fetch \/ JudgeFilter \/ Judged \/ Policy
    BY <2>3, <1>8 DEF Fetch, Checking, JudgeFilter, Judged, Policy, serving
  <2>4. CASE ChangeConfig \/ ChangeIndexes
    BY <2>4, <1>9 DEF ChangeConfig, ChangeIndexes, serving
  <2>5. CASE UNCHANGED vars
    BY <2>5, <1>9 DEF vars, serving
  <2> QED
    BY <1>1, <1>2, <1>3, <1>4, <1>5, <1>6, <1>7, <2>1, <2>2, <2>3, <2>4, <2>5 DEF Next, CallStep

LEMMA WalkEndsStep ==
  ASSUME PlanInv, WalkEnds, [Next]_vars, PlanInv'
  PROVE  WalkEnds'
<1>1. ASSUME UNCHANGED <<plan, order>>, pc \in {"check", "double", "policy"}
      PROVE  WalkEnds'
  BY <1>1 DEF WalkEnds
<1>2. ASSUME pc' \in {"idle", "explain", "load", "walk", "visit"}
      PROVE  WalkEnds'
  BY <1>2 DEF WalkEnds
<1>3. ASSUME pc' \in {"check", "double"}
      PROVE  WalkEnds'
  BY <1>3 DEF WalkEnds, PlanInv, Phases
<1>4. CASE Explain
  BY <1>4 DEF Explain, judging, PlanInv, Phases, Fresh, WalkEnds
<1>5. CASE Judged
  BY <1>1, <1>5 DEF Judged, judging
<1>6. CASE Ask \/ Load \/ Policy \/ NextNode
  BY <1>2, <1>6 DEF Ask, Load, Policy, NextNode
<1>7. CASE Reject \/ Fails \/ ReadNothing \/ LoadRejects \/ FetchFails \/ EmitBreaks \/ Answer
  BY <1>2, <1>7 DEF Reject, Fails, ReadNothing, LoadRejects, FetchFails, EmitBreaks, Answer, End
<1>8. CASE Walked \/ Judge \/ Spilled \/ Double \/ Doubled \/ Fetch \/ JudgeFilter
  BY <1>3, <1>8 DEF Walked, Judge, Checking, Spilled, Double, Doubled, Fetch, JudgeFilter
<1>9. CASE VisitRoot \/ VisitChild \/ Return
  BY <1>2, <1>9 DEF VisitRoot, VisitChild, Return
<1>10. CASE ChangeConfig \/ ChangeIndexes \/ UNCHANGED vars
  BY <1>10 DEF ChangeConfig, ChangeIndexes, vars, judging, WalkEnds
<1> QED
  BY <1>4, <1>5, <1>6, <1>7, <1>8, <1>9, <1>10 DEF Next, CallStep

\* What a call has walked, listed and found is in the order of the plan.
THEOREM TreeHolds == Spec => []TreeInv
<1>1. Init => TreeInv
  BY DEF Init, TreeInv, WalkInv, WalkEnds, VisitInv, PlaceInv, IssuesInOrder
<1>2. PlanInv /\ PlanInv' /\ TreeInv /\ [Next]_vars => TreeInv'
  BY WalkStep, WalkEndsStep, VisitStep, PlaceStep DEF TreeInv
<1>3. Spec => []PlanInv
  BY PlanInvariance
<1> QED
  BY <1>1, <1>2, <1>3, PTL DEF Spec

\* LimitSilences: the estimate of a node is not judged if a Limit is that node
\* or anywhere above it.
THEOREM LimitHolds == Spec => []LimitSilences
<1>1. PlanInv /\ TreeInv => LimitSilences
  <2> SUFFICES ASSUME PlanInv, TreeInv, NEW i \in DOMAIN issues,
                      issues[i].check = "EstimateMismatchCheck", NEW m \in plan.nodes,
                      IsPrefix(Path(plan, m), Path(plan, issues[i].node))
               PROVE  NodeType(plan, m) # "Limit"
    BY DEF LimitSilences
  <2> DEFINE n == issues[i].node
  <2>1. n \in ToSet(order) /\ ~IsUnder(plan, n, "Limit")
    BY DEF TreeInv, PlaceInv
  <2>2. order # <<>>
    BY <2>1 DEF ToSet
  <2>3. IsPlan(plan)
    BY <2>2, PlanAssumption DEF TreeInv, WalkInv
  <2>4. n \in plan.nodes
    BY DEF PlanInv, Shaped, TypeOK
  <2> HIDE DEF n
  <2>5. m = n \/ m \in ToSet(Ancestors(plan, n))
    <3>1. IsPrefix(Path(plan, m), Path(plan, n))
      BY DEF n
    <3>2. Leads(Path(plan, m), Path(plan, n))
      BY <2>3, <2>4, <3>1, BeforeNodes
    <3> QED
      BY <2>3, <2>4, <3>2, AncestorsLead
  <2> QED
    BY <2>1, <2>5 DEF IsUnder
<1> QED
  BY <1>1, PlanInvariance, TreeHolds, PTL

\* IssuesInOrder: the issues stand in the order of the nodes and of the checks,
\* each with the depth and the parent of its node.
THEOREM IssuesOrdered == Spec => []IssuesInOrder
<1>1. TreeInv => IssuesInOrder
  BY DEF TreeInv
<1> QED
  BY <1>1, TreeHolds, PTL

\* A walk that has nothing left before it has come to every node, in pre-order.
LEMMA WalkDone ==
  ASSUME NEW p, IsPlan(p), NEW v \in Seq(p.nodes), Traversed(p, v, {})
  PROVE  /\ Len(v) \in Nat /\ DOMAIN v = 1 .. Len(v) /\ \A i \in 1 .. Len(v) : v[i] \in p.nodes
         /\ \A m \in p.nodes : \E i \in 1 .. Len(v) : v[i] = m
         /\ \A i, j \in 1 .. Len(v) : v[i] = v[j] => i = j
         /\ \A i, j \in 1 .. Len(v) : i < j <=> Before(p, v[i], v[j])
         /\ \A i \in 1 .. Len(v) : Cardinality({m \in p.nodes : Before(p, m, v[i])}) = i - 1
         /\ Cardinality(p.nodes) = Len(v)
<1>1. Len(v) \in Nat /\ DOMAIN v = 1 .. Len(v) /\ \A i \in 1 .. Len(v) : v[i] \in p.nodes
  BY LenProperties, ElementOfSeq
<1>2. \A m \in p.nodes : \E i \in 1 .. Len(v) : v[i] = m
  BY <1>1 DEF Traversed, ToSet
<1>3. /\ \A i \in 1 .. Len(v) : Cardinality({m \in p.nodes : Before(p, m, v[i])}) = i - 1
      /\ \A i, j \in 1 .. Len(v) : v[i] = v[j] => i = j
      /\ Cardinality(p.nodes) = Len(v)
  BY WalkCounts
<1>4. ASSUME NEW i \in 1 .. Len(v), NEW j \in 1 .. Len(v), Before(p, v[i], v[j]) PROVE i < j
  <2>1. PICK h \in DOMAIN v : h < j /\ v[h] = v[i]
    BY <1>1, <1>4 DEF Traversed
  <2> QED
    BY <1>1, <1>3, <2>1
<1>5. ASSUME NEW i \in 1 .. Len(v), NEW j \in 1 .. Len(v), i < j PROVE Before(p, v[i], v[j])
  BY <1>1, <1>5 DEF Traversed
<1> QED
  BY <1>1, <1>2, <1>3, <1>4, <1>5

LEMMA ListDone ==
  ASSUME PlanInv, VisitInv, reply = "answered"
  PROVE  /\ IsPlan(plan) /\ Len(list) \in Nat /\ DOMAIN list = 1 .. Len(list) /\ frames = <<>>
         /\ \E v \in Seq(plan.nodes) :
              /\ Len(v) = Len(list) /\ Traversed(plan, v, {})
              /\ \A i \in 1 .. Len(list) : IF AsText THEN BlockInv(plan, list, v, i)
                                          ELSE EntryInv(plan, list, <<>>, v, i)
<1>1. list # <<>> /\ frames = <<>>
  BY DEF VisitInv
<1>2. PICK v : IsVisit(plan, list, frames, v, AsText)
  BY <1>1, VisitIs
<1>3. Pending(plan, frames) = {}
  BY <1>1 DEF Pending
<1>4. DOMAIN list = 1 .. Len(list) /\ Len(list) \in Nat
  BY IsSeqDomain DEF PlanInv, Shaped
<1>5. IsPlan(plan)
  BY <1>1, VisitIs
<1>6. /\ v \in Seq(plan.nodes) /\ Len(v) = Len(list) /\ Traversed(plan, v, {})
      /\ \A i \in 1 .. Len(list) : IF AsText THEN BlockInv(plan, list, v, i)
                                  ELSE EntryInv(plan, list, <<>>, v, i)
  BY <1>1, <1>2, <1>3 DEF IsVisit
<1> QED
  BY <1>1, <1>4, <1>5, <1>6

\* OrdersAgree: the loop with a stack and the recursion number the nodes alike,
\* in pre-order, and both come to every node.
THEOREM OrdersHold == Spec => []OrdersAgree
<1>1. ASSUME PlanInv, TreeInv PROVE \A i \in DOMAIN order : Number(order[i]) = i - 1
  BY <1>1, OrderCounts DEF TreeInv
<1>2. ASSUME PlanInv, TreeInv, ~AsText, NEW i \in DOMAIN list
      PROVE  \E n \in plan.nodes :
               list[i].path = Path(plan, n) /\ list[i].id = i - 1 /\ Number(n) = i - 1
  <2>1. list # <<>> /\ DOMAIN list = 1 .. Len(list)
    BY <1>2, IsSeqDomain DEF PlanInv, Shaped
  <2>2. IsPlan(plan)
    BY <1>2, <2>1, VisitIs DEF TreeInv
  <2>3. PICK v : IsVisit(plan, list, frames, v, AsText)
    BY <1>2, <2>1, VisitIs DEF TreeInv
  <2>4. /\ v \in Seq(plan.nodes) /\ Len(v) = Len(list)
        /\ Traversed(plan, v, Pending(plan, frames))
        /\ EntryInv(plan, list, frames, v, i)
    BY <1>2, <2>1, <2>3 DEF IsVisit
  <2>5. v[i] \in plan.nodes
    BY <2>1, <2>4, ElementOfSeq
  <2>6. Cardinality({m \in plan.nodes : Before(plan, m, v[i])}) = i - 1
    BY <2>1, <2>2, <2>4, WalkCounts
  <2>7. list[i].path = Path(plan, v[i]) /\ list[i].id = i - 1
    BY <2>4 DEF EntryInv
  <2> QED
    BY <2>5, <2>6, <2>7 DEF Number
<1>3. ASSUME PlanInv, TreeInv, pc \in {"check", "policy"}, order # <<>>
      PROVE  ToSet(order) = plan.nodes
  BY <1>3 DEF TreeInv, WalkEnds
<1>4. ASSUME PlanInv, TreeInv, reply = "answered" PROVE Len(list) = Cardinality(plan.nodes)
  <2>1. IsPlan(plan) /\ \E v \in Seq(plan.nodes) : Len(v) = Len(list) /\ Traversed(plan, v, {})
    BY <1>4, ListDone DEF TreeInv
  <2>2. PICK v \in Seq(plan.nodes) : Len(v) = Len(list) /\ Traversed(plan, v, {})
    BY <2>1
  <2> QED
    BY <2>1, <2>2, WalkDone
<1>5. PlanInv /\ TreeInv => OrdersAgree
  BY <1>1, <1>2, <1>3, <1>4 DEF OrdersAgree
<1> QED
  BY <1>5, PlanInvariance, TreeHolds, PTL

\* Parents and children of a complete list.
Linked(l, n, i, ids) ==
  /\ ToSet(ids) = {j - 1 : j \in {h \in 1 .. n : l[h].parent_id = i - 1}}
  /\ \A c, d \in DOMAIN ids : c < d => ids[c] < ids[d]
  /\ \A c \in DOMAIN ids :
       l[ids[c] + 1].path = Append(l[i].path, <<l[i].depth + 1, c - 1>>)

\* The list of a recursion that is over has all its links.
LEMMA LinksOf ==
  ASSUME NEW p, IsPlan(p), NEW v \in Seq(p.nodes), Traversed(p, v, {}), NoNode \notin Nat,
         NEW l, \A i \in 1 .. Len(v) : EntryInv(p, l, <<>>, v, i),
         NEW i \in 1 .. Len(v), NEW ids, ids = l[i].children_ids
  PROVE  Linked(l, Len(v), i, ids)
<1> DEFINE n == v[i]
           kids == p.kids[n]
<1>1. /\ Len(v) \in Nat /\ DOMAIN v = 1 .. Len(v) /\ \A j \in 1 .. Len(v) : v[j] \in p.nodes
      /\ \A h, j \in 1 .. Len(v) : v[h] = v[j] => h = j
      /\ \A h, j \in 1 .. Len(v) : h < j <=> Before(p, v[h], v[j])
  BY WalkDone
<1>2. /\ l[i].path = Path(p, n) /\ l[i].depth = Depth(p, n)
      /\ ids \in Seq(Nat) /\ Len(ids) = Len(kids)
      /\ \A c \in DOMAIN ids : ids[c] + 1 \in 1 .. Len(v) /\ v[ids[c] + 1] = kids[c]
  BY <1>1 DEF EntryInv
<1>3. n \in p.nodes /\ kids \in Seq(p.nodes)
  BY <1>1, PlanIs
<1> HIDE DEF n
<1>4. /\ DOMAIN ids = 1 .. Len(kids) /\ Len(kids) \in Nat
      /\ \A c \in 1 .. Len(kids) : ids[c] \in Nat
  <2>1. DOMAIN ids = 1 .. Len(ids) /\ \A c \in 1 .. Len(ids) : ids[c] \in Nat
    BY <1>2, LenProperties, ElementOfSeq
  <2>2. Len(kids) \in Nat
    BY <1>3, LenProperties
  <2> QED
    BY <1>2, <2>1, <2>2
<1>5. \A h \in 1 .. Len(v) :
        \/ v[h] = p.root /\ l[h].parent_id = NoNode
        \/ \E j \in 1 .. Len(v) : v[j] = Parent(p, v[h]) /\ v[h] # p.root /\ l[h].parent_id = j - 1
  BY <1>1 DEF EntryInv
<1>6. \A c \in 1 .. Len(kids) :
        kids[c] \in p.nodes /\ kids[c] # p.root /\ Parent(p, kids[c]) = n /\ Sibling(p, kids[c]) = c - 1
  BY <1>3, SiblingIs
<1>7. i \in Nat /\ v[i] = n /\ i - 1 \in Nat
  <2>1. i \in Nat /\ i >= 1
    BY <1>1
  <2> QED
    BY <2>1 DEF n
<1>8. ASSUME NEW c \in 1 .. Len(kids)
      PROVE  ids[c] + 1 \in 1 .. Len(v) /\ l[ids[c] + 1].parent_id = i - 1
  <2> DEFINE h == ids[c] + 1
  <2>1. h \in 1 .. Len(v) /\ v[h] = kids[c]
    BY <1>2, <1>4
  <2> HIDE DEF h
  <2>2. PICK j \in 1 .. Len(v) : v[j] = n /\ l[h].parent_id = j - 1
    BY <1>5, <1>6, <2>1
  <2>3. j = i
    BY <1>1, <1>7, <2>2
  <2> QED
    BY <2>1, <2>2, <2>3 DEF h
<1>9. ASSUME NEW h \in 1 .. Len(v), l[h].parent_id = i - 1
      PROVE  \E c \in 1 .. Len(kids) : ids[c] = h - 1
  <2>1. l[h].parent_id # NoNode
    BY <1>7, <1>9
  <2>2. PICK j \in 1 .. Len(v) : v[j] = Parent(p, v[h]) /\ v[h] # p.root /\ l[h].parent_id = j - 1
    BY <1>5, <2>1
  <2>3. j = i
    BY <1>1, <1>7, <1>9, <2>2
  <2>4. v[h] \in p.nodes /\ Parent(p, v[h]) = n /\ v[h] # p.root
    BY <1>1, <1>7, <2>2, <2>3
  <2>5. /\ Sibling(p, v[h]) + 1 \in 1 .. Len(kids) /\ kids[Sibling(p, v[h]) + 1] = v[h]
    BY <2>4, PlaceIs
  <2> DEFINE c == Sibling(p, v[h]) + 1
  <2>6. ids[c] + 1 \in 1 .. Len(v) /\ v[ids[c] + 1] = v[h] /\ ids[c] \in Nat
    BY <1>2, <1>4, <2>5
  <2> HIDE DEF c
  <2>7. ids[c] + 1 = h
    BY <1>1, <2>6
  <2>8. ids[c] = h - 1
    BY <2>6, <2>7
  <2> QED
    BY <2>5, <2>8 DEF c
<1>10. ToSet(ids) = {j - 1 : j \in {h \in 1 .. Len(v) : l[h].parent_id = i - 1}}
  <2>1. ASSUME NEW x \in ToSet(ids)
        PROVE  x \in {j - 1 : j \in {h \in 1 .. Len(v) : l[h].parent_id = i - 1}}
    <3>1. PICK c \in 1 .. Len(kids) : ids[c] = x
      BY <1>4 DEF ToSet
    <3>2. x + 1 \in 1 .. Len(v) /\ l[x + 1].parent_id = i - 1 /\ x \in Nat
      BY <1>4, <1>8, <3>1
    <3>3. x = (x + 1) - 1
      BY <3>2
    <3> QED
      BY <3>2, <3>3
  <2>2. ASSUME NEW h \in 1 .. Len(v), l[h].parent_id = i - 1 PROVE h - 1 \in ToSet(ids)
    BY <1>4, <1>9, <2>2 DEF ToSet
  <2> QED
    BY <2>1, <2>2
<1>11. ASSUME NEW c \in 1 .. Len(kids), NEW d \in 1 .. Len(kids), c < d PROVE ids[c] < ids[d]
  <2>1. IsLeftOf(Path(p, kids[c]), Path(p, kids[d]))
    BY <1>3, <1>11, KidsLeft
  <2>2. Before(p, kids[c], kids[d])
    <3>1. kids[c] \in p.nodes /\ kids[d] \in p.nodes
      BY <1>6
    <3> HIDE DEF kids
    <3> QED
      BY <2>1, <3>1, BeforeNodes
  <2>3. /\ ids[c] + 1 \in 1 .. Len(v) /\ v[ids[c] + 1] = kids[c] /\ ids[c] \in Nat
        /\ ids[d] + 1 \in 1 .. Len(v) /\ v[ids[d] + 1] = kids[d] /\ ids[d] \in Nat
    BY <1>2, <1>4
  <2>4. ids[c] + 1 < ids[d] + 1
    BY <1>1, <2>2, <2>3
  <2> QED
    BY <2>3, <2>4
<1>12. ASSUME NEW c \in 1 .. Len(kids)
       PROVE  l[ids[c] + 1].path = Append(l[i].path, <<l[i].depth + 1, c - 1>>)
  <2> DEFINE h == ids[c] + 1
  <2>1. h \in 1 .. Len(v) /\ v[h] = kids[c]
    BY <1>2, <1>4
  <2>2. l[h].path = Path(p, kids[c])
    <3> HIDE DEF h, kids
    <3> QED
      BY <2>1 DEF EntryInv
  <2>3. Path(p, kids[c]) = Append(Path(p, n), <<Len(Path(p, n)), c - 1>>)
    BY <1>6, PathIs
  <2>4. Len(Path(p, n)) = l[i].depth + 1
    <3>1. Len(Path(p, n)) \in Nat
      BY <1>3, PathTypes
    <3>2. l[i].depth = Len(Path(p, n)) - 1
      BY <1>2 DEF Depth
    <3> QED
      BY ONLY <3>1, <3>2
  <2> QED
    BY <1>2, <2>2, <2>3, <2>4
<1> HIDE DEF kids
<1> QED
  BY ONLY <1>4, <1>10, <1>11, <1>12 DEF Linked

\* EntriesLinked: the parent_id and the children_ids of an answer are the two
\* sides of the relation of the plan, the children in its order.
THEOREM LinksHold == Spec => []EntriesLinked
<1>1. PlanInv /\ TreeInv => EntriesLinked
  <2> SUFFICES ASSUME PlanInv, TreeInv, reply = "answered", ~AsText, NEW i \in DOMAIN list,
                      NEW ids, ids = list[i].children_ids
               PROVE  /\ ToSet(ids) = {j - 1 : j \in {h \in DOMAIN list : list[h].parent_id = i - 1}}
                      /\ \A c, d \in DOMAIN ids : c < d => ids[c] < ids[d]
                      /\ \A c \in DOMAIN ids :
                           list[ids[c] + 1].path = Append(list[i].path, <<list[i].depth + 1, c - 1>>)
    BY DEF EntriesLinked
  <2>1. IsPlan(plan) /\ DOMAIN list = 1 .. Len(list)
    BY ListDone DEF TreeInv
  <2>2. PICK v \in Seq(plan.nodes) :
          /\ Len(v) = Len(list) /\ Traversed(plan, v, {})
          /\ \A j \in 1 .. Len(list) : IF AsText THEN BlockInv(plan, list, v, j)
                                      ELSE EntryInv(plan, list, <<>>, v, j)
    BY ListDone DEF TreeInv
  <2>3. i \in 1 .. Len(v) /\ \A j \in 1 .. Len(v) : EntryInv(plan, list, <<>>, v, j)
    BY <2>1, <2>2
  <2>4. NoNode \notin Nat
    BY PlanAssumption
  <2>5. Linked(list, Len(v), i, ids)
    <3>1. v \in Seq(plan.nodes) /\ Traversed(plan, v, {}) /\ ids = list[i].children_ids
      BY <2>2
    <3> QED
      BY ONLY <2>1, <2>3, <2>4, <3>1, LinksOf
  <2>6. DOMAIN list = 1 .. Len(v)
    BY <2>1, <2>2
  <2> QED
    BY ONLY <2>5, <2>6 DEF Linked
<1> QED
  BY <1>1, PlanInvariance, TreeHolds, PTL

\* What comes between a node and one of its children is below the node.
LEMMA Between ==
  ASSUME NEW p, IsPlan(p), NEW m \in p.nodes, NEW n \in ToSet(p.kids[m]), NEW x \in p.nodes,
         Before(p, m, x), Before(p, x, n)
  PROVE  Leads(Path(p, m), Path(p, x)) /\ Len(Path(p, x)) >= Len(Path(p, n))
<1> DEFINE a == Path(p, m)
           b == Path(p, n)
           c == Path(p, x)
<1>1. n \in p.nodes
  BY KidIs
<1>2. a \in Paths /\ b \in Paths /\ c \in Paths /\ Len(a) \in Nat /\ Len(b) \in Nat /\ Len(c) \in Nat
  BY <1>1, PathTypes
<1>3. Len(b) = Len(a) + 1 /\ Leads(a, b)
  BY PathOfKid
<1>4. ~IsLeftOf(b, c)
  <2>1. ~Before(p, n, x)
    BY <1>1, BeforeNodes
  <2> QED
    BY <1>1, <2>1, BeforeNodes
<1>5. PathBefore(a, c)
  BY DEF Before
<1> HIDE DEF a, b, c
<1>6. ~IsLeftOf(a, c)
  BY <1>2, <1>3, <1>4, LeadsSelf, LeftExtends
<1>7. Leads(a, c) /\ Len(a) < Len(c)
  BY <1>2, <1>5, <1>6, BeforeIs
<1> QED
  BY <1>2, <1>3, <1>7 DEF a, b, c

\* What is below a node, one step, is one of its children.
LEMMA OneBelow ==
  ASSUME NEW p, IsPlan(p), NEW m \in p.nodes, NEW x \in p.nodes,
         Leads(Path(p, m), Path(p, x)), Len(Path(p, x)) = Len(Path(p, m)) + 1
  PROVE  x \in ToSet(p.kids[m])
<1>1. Len(Path(p, m)) \in Nat /\ Path(p, x) \in Paths
  BY PathTypes
<1>2. x # m
  BY <1>1
<1>3. PICK c \in ToSet(p.kids[m]) : Leads(Path(p, c), Path(p, x))
  BY <1>2, BelowKid
<1>4. c \in p.nodes /\ Path(p, c) \in Paths /\ Len(Path(p, c)) = Len(Path(p, x))
  BY KidIs, PathTypes, PathOfKid
<1>5. Path(p, c) = Path(p, x)
  BY <1>1, <1>3, <1>4, SeqEqual DEF Leads, Paths
<1> QED
  BY <1>4, <1>5, PathInjective

\* Indentations and markers of a complete text.
Shown(l, i) ==
  LET above == {j \in 1 .. i - 1 : l[j].indent < l[i].indent}
      parent == CHOOSE j \in above : \A h \in above : h <= j
      siblings == {j \in parent + 1 .. i - 1 : l[j].indent = l[i].indent}
  IN /\ above # {}
     /\ l[parent].indent = l[i].indent - 1
     /\ l[i].marker = <<l[i].indent, Cardinality(siblings)>>

\* The text of a recursion that is over shows the tree.
LEMMA TextOf ==
  ASSUME NEW p, IsPlan(p), NEW v \in Seq(p.nodes), Traversed(p, v, {}),
         NEW l, \A i \in 1 .. Len(v) : BlockInv(p, l, v, i), NEW i \in 2 .. Len(v)
  PROVE  Shown(l, i)
<1> DEFINE n == v[i]
           m == Parent(p, n)
           kids == p.kids[m]
           s == Sibling(p, n)
           Size(x) == Len(Path(p, x))
<1>1. /\ Len(v) \in Nat /\ \A j \in 1 .. Len(v) : v[j] \in p.nodes
      /\ \A h, j \in 1 .. Len(v) : v[h] = v[j] => h = j
      /\ \A h, j \in 1 .. Len(v) : h < j <=> Before(p, v[h], v[j])
      /\ \A x \in p.nodes : \E j \in 1 .. Len(v) : v[j] = x
  BY WalkDone
<1>2. i \in 1 .. Len(v) /\ 1 \in 1 .. Len(v) /\ 1 < i /\ i \in Nat
      /\ \A j \in 1 .. i - 1 : j \in 1 .. Len(v) /\ j < i
  <2>1. Len(v) \in Nat /\ i \in 2 .. Len(v)
    BY <1>1
  <2> QED
    BY ONLY <2>1
<1>3. n \in p.nodes /\ n # p.root
  <2>1. n \in p.nodes /\ v[1] \in p.nodes /\ Before(p, v[1], n)
    BY <1>1, <1>2
  <2>2. Leads(Path(p, p.root), Path(p, v[1])) /\ p.root \in p.nodes
    BY <2>1, PathOfRoot, PlanIs
  <2> HIDE DEF n
  <2> QED
    BY <2>1, <2>2, BeforeNodes
<1>4. m \in p.nodes /\ n \in ToSet(kids)
  <2> HIDE DEF n
  <2> QED
    BY <1>3, ParentIs
<1>5. s \in Nat /\ s + 1 \in 1 .. Len(kids) /\ kids[s + 1] = n
  <2> HIDE DEF n
  <2> QED
    BY <1>3, PlaceIs
<1>6. PICK q \in 1 .. Len(v) : v[q] = m
  BY <1>1, <1>4
<1>7. q < i /\ q \in Nat /\ q \in 1 .. i - 1
  <2>1. Before(p, m, n)
    <3> HIDE DEF n, m
    <3> QED
      BY <1>4, BeforeKid
  <2>2. q < i
    BY <1>1, <1>2, <1>6, <2>1
  <2> QED
    BY <1>1, <1>2, <2>2
<1>8. /\ \A x \in p.nodes : Size(x) \in Nat
      /\ Size(n) = Size(m) + 1
      /\ Path(p, n)[Size(n)] = <<Size(m), s>>
      /\ \A c \in ToSet(kids) : c \in p.nodes /\ Size(c) = Size(n) /\ Before(p, m, c)
  <2> HIDE DEF n, m
  <2>1. \A x \in p.nodes : Size(x) \in Nat
    BY PathTypes
  <2>2. Size(n) = Size(m) + 1 /\ Path(p, n)[Size(n)] = <<Size(m), s>>
    BY <1>4, PathOfKid
  <2>3. \A c \in ToSet(kids) : c \in p.nodes /\ Size(c) = Size(m) + 1 /\ Before(p, m, c)
    BY <1>4, PathOfKid, BeforeKid
  <2> QED
    BY <2>1, <2>2, <2>3
<1>9. \A j \in 1 .. Len(v) : l[j].indent = Size(v[j]) - 1 /\ l[j].marker = Last(Path(p, v[j]))
  BY DEF BlockInv, Depth
<1> HIDE DEF n, m, s, Size
<1>10. /\ l[i].indent = Size(n) - 1 /\ Size(n) \in Nat
       /\ l[q].indent = Size(m) - 1 /\ Size(m) \in Nat
       /\ \A j \in 1 .. i - 1 : l[j].indent = Size(v[j]) - 1 /\ Size(v[j]) \in Nat
  BY <1>1, <1>2, <1>3, <1>4, <1>6, <1>8, <1>9 DEF n
<1>11. ASSUME NEW j \in 1 .. i - 1, q < j
       PROVE  Leads(Path(p, m), Path(p, v[j])) /\ Size(v[j]) >= Size(n)
  <2>1. v[j] \in p.nodes /\ Before(p, m, v[j]) /\ Before(p, v[j], n)
    BY <1>1, <1>2, <1>6, <1>11 DEF n
  <2> QED
    BY <1>4, <2>1, Between DEF Size
<1> DEFINE above == {j \in 1 .. i - 1 : l[j].indent < l[i].indent}
           parent == CHOOSE j \in above : \A h \in above : h <= j
           siblings == {j \in q + 1 .. i - 1 : l[j].indent = l[i].indent}
<1>12. parent = q /\ q \in above
  <2>1. q \in above
    BY <1>7, <1>8, <1>10
  <2>2. ASSUME NEW j \in above PROVE j <= q
    <3> SUFFICES ASSUME q < j PROVE FALSE
      BY <1>2, <1>7
    <3>1. j \in 1 .. i - 1 /\ l[j].indent < l[i].indent
      OBVIOUS
    <3>2. Size(v[j]) >= Size(n)
      BY <1>11, <3>1
    <3> QED
      BY <1>10, <3>1, <3>2
  <2>3. \A j \in above : j \in Nat
    BY <1>2
  <2> HIDE DEF above
  <2>4. \A j \in above : (\A h \in above : h <= j) => j = q
    BY <1>7, <2>1, <2>2, <2>3
  <2> QED
    BY <2>1, <2>2, <2>4
<1>13. l[i].marker = <<l[i].indent, s>>
  <2>1. l[i].marker = Last(Path(p, n))
    BY <1>2, <1>9 DEF n
  <2>2. Last(Path(p, n)) = Path(p, n)[Size(n)]
    BY DEF Last, Size
  <2>3. Size(m) = l[i].indent
    BY <1>8, <1>10
  <2> QED
    BY <1>8, <2>1, <2>2, <2>3
<1>14. Cardinality(siblings) = s
  <2> DEFINE f == [c \in 1 .. s |-> CHOOSE j \in 1 .. Len(v) : v[j] = kids[c]]
  <2>1. \A c \in 1 .. Len(kids) : kids[c] \in ToSet(kids) /\ Sibling(p, kids[c]) = c - 1
    BY <1>4, SiblingIs
  <2>2. Len(kids) \in Nat /\ \A c \in 1 .. s : c \in 1 .. Len(kids) /\ c < s + 1
    <3>1. kids \in Seq(p.nodes)
      BY <1>4, PlanIs
    <3>2. Len(kids) \in Nat
      BY <3>1, LenProperties
    <3> HIDE DEF kids
    <3> QED
      BY <1>5, <3>2
  <2> HIDE DEF kids
  <2>3. ASSUME NEW c \in 1 .. s
        PROVE  f[c] \in 1 .. Len(v) /\ v[f[c]] = kids[c]
    <3>1. \E j \in 1 .. Len(v) : v[j] = kids[c]
      BY <1>1, <1>8, <2>1, <2>2
    <3> QED
      BY <3>1
  <2> HIDE DEF f
  <2>4. ASSUME NEW c \in 1 .. s PROVE f[c] \in siblings
    <3>1. kids[c] \in p.nodes /\ Size(kids[c]) = Size(n) /\ Before(p, m, kids[c])
      BY <1>8, <2>1, <2>2
    <3>2. Before(p, kids[c], n)
      <4>1. IsLeftOf(Path(p, kids[c]), Path(p, n))
        BY <1>4, <1>5, <2>2, KidsLeft DEF kids
      <4> QED
        BY <1>3, <3>1, <4>1, BeforeNodes
    <3>3. q < f[c] /\ f[c] < i
      BY <1>1, <1>2, <1>6, <2>3, <3>1, <3>2 DEF n
    <3>4. l[f[c]].indent = l[i].indent
      BY <1>9, <1>10, <2>3, <3>1
    <3>5. f[c] \in q + 1 .. i - 1
      <4>1. f[c] \in Nat
        <5>1. Len(v) \in Nat /\ f[c] \in 1 .. Len(v)
          BY <1>1, <2>3
        <5> QED
          BY ONLY <5>1
      <4> QED
        BY <1>2, <1>7, <3>3, <4>1
    <3> QED
      BY <3>4, <3>5
  <2>5. ASSUME NEW c \in 1 .. s, NEW d \in 1 .. s, f[c] = f[d] PROVE c = d
    <3>1. c - 1 = d - 1
      BY <2>1, <2>2, <2>3, <2>5
    <3> QED
      BY <1>5, <3>1
  <2>6. ASSUME NEW j \in siblings PROVE \E c \in 1 .. s : f[c] = j
    <3> DEFINE x == v[j]
    <3>1. j \in 1 .. i - 1 /\ q < j /\ j \in 1 .. Len(v) /\ j # i /\ l[j].indent = l[i].indent
      BY <1>2, <1>7
    <3>2. x \in p.nodes /\ Leads(Path(p, m), Path(p, x)) /\ Size(x) = Size(n)
      BY <1>1, <1>10, <1>11, <3>1
    <3> HIDE DEF x
    <3>3. x \in ToSet(p.kids[m])
      BY <1>4, <1>8, <3>2, OneBelow DEF Size
    <3>4. x # p.root /\ Parent(p, x) = m
      BY <1>4, <3>3, KidIs
    <3> DEFINE d == Sibling(p, x) + 1
    <3>5. d \in 1 .. Len(kids) /\ kids[d] = x
      BY <3>2, <3>4, PlaceIs DEF kids
    <3> HIDE DEF d
    <3>6. d # s + 1
      BY <1>1, <1>2, <1>5, <3>1, <3>5 DEF x, n
    <3>7. ~(s + 1 < d)
      <4> SUFFICES ASSUME s + 1 < d PROVE FALSE
        OBVIOUS
      <4>1. IsLeftOf(Path(p, n), Path(p, x))
        BY <1>4, <1>5, <3>5, KidsLeft DEF kids
      <4>2. Before(p, n, x)
        BY <1>3, <3>2, <4>1, BeforeNodes
      <4>3. i < j
        BY <1>1, <1>2, <3>1, <4>2 DEF n, x
      <4> QED
        BY <1>2, <3>1, <4>3
    <3>8. d \in 1 .. s
      BY <1>5, <2>2, <3>5, <3>6, <3>7
    <3>9. f[d] = j
      BY <1>1, <2>3, <3>1, <3>5, <3>8 DEF x
    <3> QED
      BY <3>8, <3>9
  <2>7. f \in [1 .. s -> siblings]
    <3>1. f = [c \in 1 .. s |-> f[c]]
      BY DEF f
    <3> HIDE DEF siblings
    <3> QED
      BY <2>4, <3>1
  <2> HIDE DEF siblings
  <2> QED
    BY <1>5, <2>5, <2>6, <2>7, CountIs
<1>15. l[q].indent = l[i].indent - 1
  BY <1>8, <1>10
<1> QED
  BY <1>12, <1>13, <1>14, <1>15 DEF Shown

\* TextShowsTree: in the text of an answer the parent of a node is the last
\* line above it that is less indented, one step less, and the marker counts the
\* siblings that stand between.
THEOREM TextHolds == Spec => []TextShowsTree
<1>1. PlanInv /\ TreeInv => TextShowsTree
  <2> SUFFICES ASSUME PlanInv, TreeInv, reply = "answered", AsText PROVE \A i \in 2 .. Len(list) : Shown(list, i)
    BY DEF TextShowsTree, Shown
  <2>1. IsPlan(plan)
    BY ListDone DEF TreeInv
  <2>2. PICK v \in Seq(plan.nodes) :
          /\ Len(v) = Len(list) /\ Traversed(plan, v, {})
          /\ \A j \in 1 .. Len(list) : IF AsText THEN BlockInv(plan, list, v, j)
                                      ELSE EntryInv(plan, list, <<>>, v, j)
    BY ListDone DEF TreeInv
  <2>3. \A j \in 1 .. Len(v) : BlockInv(plan, list, v, j)
    BY <2>2
  <2>4. \A i \in 2 .. Len(v) : Shown(list, i)
    BY <2>1, <2>2, <2>3, TextOf
  <2> QED
    BY <2>2, <2>4
<1> QED
  BY <1>1, PlanInvariance, TreeHolds, PTL

-----------------------------------------------------------------------------
(***************************************************************************)
(* The series of the values of work_mem.                                   *)
(***************************************************************************)
LEMMA SeriesBegins ==
  ASSUME NEW p, p.min_work_mem_mb \in Nat \ {0}
  PROVE  InSeries(p.min_work_mem_mb, p)
<1> DEFINE m == p.min_work_mem_mb
<1>1. 1 \in 1 .. m /\ m = m * 1
  <2> HIDE DEF m
  <2>1. m \in Nat \ {0}
    BY DEF m
  <2> QED
    BY <2>1
<1>2. IsPowerOfTwo(1)
  BY DEF IsPowerOfTwo
<1> QED
  BY <1>1, <1>2 DEF InSeries

LEMMA SeriesDoubles ==
  ASSUME NEW p, p.min_work_mem_mb \in Nat \ {0}, NEW mb \in Nat, InSeries(mb, p)
  PROVE  InSeries(mb * 2, p)
<1> DEFINE m == p.min_work_mem_mb
<1>1. PICK q \in 1 .. mb : mb = m * q /\ IsPowerOfTwo(q)
  BY DEF InSeries
<1>2. q \in Nat \ {0} /\ q * 2 \in 1 .. mb * 2
  BY <1>1
<1>3. mb * 2 = m * (q * 2)
  <2> HIDE DEF m
  <2>1. m \in Nat
    BY DEF m
  <2> QED
    BY <1>1, <1>2, <2>1
<1>4. ASSUME NEW d \in 1 .. q * 2, NEW x \in 1 .. q * 2, q * 2 = d * x, d % 2 = 1 PROVE d = 1
  <2>1. d \in Nat /\ x \in Nat /\ d >= 1 /\ x >= 1
    BY <1>2
  <2>2. PICK a \in Nat : d = 2 * a + 1
    <3>1. d \div 2 \in Nat /\ d = 2 * (d \div 2) + 1
      BY <1>4, <2>1
    <3> QED
      BY <3>1
  <2> DEFINE y == q - a * x
  <2>3. a * x \in Nat
    BY <2>1, <2>2
  <2>4. y \in Int /\ x = 2 * y
    <3>1. q * 2 = 2 * (a * x) + x
      BY <1>2, <1>4, <2>1, <2>2
    <3> QED
      BY <1>2, <2>1, <2>3, <3>1
  <2> HIDE DEF y
  <2>5. y >= 1
    BY <2>1, <2>4
  <2>6. q = d * y
    <3>1. d * x = 2 * (d * y) /\ d * y \in Int
      BY <2>1, <2>4
    <3> QED
      BY <1>2, <1>4, <3>1
  <2>7. d <= q /\ y <= q
    BY <2>1, <2>4, <2>5, <2>6
  <2>8. d \in 1 .. q /\ y \in 1 .. q
    BY <1>2, <2>1, <2>4, <2>5, <2>7
  <2> QED
    BY <1>1, <1>4, <2>6, <2>8 DEF IsPowerOfTwo
<1>5. IsPowerOfTwo(q * 2)
  BY <1>4 DEF IsPowerOfTwo
<1> QED
  BY <1>2, <1>3, <1>5 DEF InSeries

\* Every step keeps target, and what issues suggest, in the series.
LEMMA SeriesStep ==
  ASSUME PlanInv, SeriesInv, [Next]_vars, PlanInv'
  PROVE  SeriesInv'
<1> DEFINE All == \A i \in DOMAIN issues' : issues'[i].target > 0 =>
                    InSeries(issues'[i].target, checks'.params["DiskSpillSortCheck"])
<1>0. WorkMemFits'
  BY DEF PlanInv
<1>1. ASSUME All, pc' # "double" PROVE SeriesInv'
  BY <1>0, <1>1 DEF SeriesInv, WorkMemIsLeast
<1>2. ASSUME UNCHANGED <<checks, issues>> PROVE All
  BY <1>2 DEF SeriesInv, WorkMemIsLeast
<1>3. ASSUME issues' = <<>> PROVE All
  BY <1>3
<1>4. ASSUME NEW column, NEW mb \in Nat, UNCHANGED <<checks, plan>>,
             issues' = Append(issues, Issue(column, mb)), plan \in Plans,
             pos <= Len(order), k <= Len(checks.checks),
             mb > 0 => InSeries(mb, checks.params["DiskSpillSortCheck"])
      PROVE  All
  <2> DEFINE e == Issue(column, mb)
  <2>1. e.target = mb /\ e.node = Node
    BY DEF Issue
  <2> HIDE DEF e
  <2>2. Node \in plan.nodes
    BY <1>4, ElementOfSeq DEF PlanInv, Shaped, TypeOK, Node
  <2>3. /\ Len(issues) \in Nat
        /\ DOMAIN issues' = 1 .. Len(issues) + 1 /\ DOMAIN issues = 1 .. Len(issues)
        /\ \A i \in DOMAIN issues : issues'[i] = issues[i]
        /\ issues'[Len(issues) + 1] = e
    <3>1. Shaped /\ issues' = Append(issues, e) /\ e.node \in plan.nodes /\ e.target \in Nat
      BY <1>4, <2>1, <2>2 DEF PlanInv, e
    <3> QED
      BY <1>4, <3>1, IssueAdded
  <2>4. \A i \in DOMAIN issues : issues[i].target > 0 =>
          InSeries(issues[i].target, checks.params["DiskSpillSortCheck"])
    BY DEF SeriesInv, WorkMemIsLeast
  <2>5. \A i \in DOMAIN issues' : i \in DOMAIN issues \/ i = Len(issues) + 1
    BY <2>3
  <2> QED
    BY <1>4, <2>1, <2>3, <2>4, <2>5
<1> HIDE DEF All
<1>5. CASE Judge
  <2>1. /\ pos <= Len(order) /\ k <= Len(checks.checks) /\ plan \in Plans /\ pc' # "double"
        /\ UNCHANGED <<checks, plan>>
        /\ issues' = issues \/ issues' = Append(issues, Issue(NoNode, 0))
    BY <1>5 DEF PlanInv, Phases, Judge, Checking
  <2>2. 0 \in Nat /\ ~(0 > 0)
    OBVIOUS
  <2> QED
    BY <1>1, <1>2, <1>4, <2>1, <2>2
<1>6. CASE JudgeFilter
  <2>1. /\ pos <= Len(order) /\ k <= Len(checks.checks) /\ plan \in Plans /\ pc' # "double"
        /\ UNCHANGED <<checks, plan>>
        /\ issues' = issues \/ \E c : issues' = Append(issues, Issue(c, 0))
    BY <1>6 DEF PlanInv, Phases, JudgeFilter, Checking
  <2>2. 0 \in Nat /\ ~(0 > 0)
    OBVIOUS
  <2> QED
    BY <1>1, <1>2, <1>4, <2>1, <2>2
<1>7. CASE Spilled
  <2>1. /\ pos <= Len(order) /\ k <= Len(checks.checks) /\ plan \in Plans /\ Params' = Params
        /\ Check = "DiskSpillSortCheck" /\ UNCHANGED <<checks, issues>>
        /\ target' = Params.min_work_mem_mb
    BY <1>7 DEF PlanInv, Phases, Spilled, Checking, Sized, Params, Check
  <2>2. Params.min_work_mem_mb \in Nat \ {0}
    BY <2>1, WorkMemParams DEF PlanInv
  <2>3. InSeries(target', Params')
    BY <2>1, <2>2, SeriesBegins
  <2>4. All
    BY <1>2, <2>1
  <2> QED
    BY <1>0, <2>3, <2>4 DEF SeriesInv, WorkMemIsLeast, All
<1>8. CASE Double
  <2>1. /\ plan \in Plans /\ Params' = Params /\ UNCHANGED <<checks, issues>> /\ target' = target * 2
        /\ target \in Nat /\ Doubling /\ InSeries(target, Params)
    BY <1>8 DEF PlanInv, Shaped, TypeOK, Phases, Double, SeriesInv, Params, Check
  <2>2. Params.min_work_mem_mb \in Nat \ {0}
    BY <2>1, WorkMemParams DEF PlanInv, Doubling
  <2>3. InSeries(target', Params')
    BY <2>1, <2>2, SeriesDoubles
  <2>4. All
    BY <1>2, <2>1
  <2> QED
    BY <1>0, <2>3, <2>4 DEF SeriesInv, WorkMemIsLeast, All
<1>9. CASE Doubled
  <2>1. /\ pos <= Len(order) /\ k <= Len(checks.checks) /\ Check = "DiskSpillSortCheck"
        /\ plan \in Plans /\ UNCHANGED <<checks, plan>> /\ target \in Nat /\ pc' # "double"
        /\ issues' = Append(issues, Issue(NoNode, target)) /\ InSeries(target, Params)
    BY <1>9 DEF PlanInv, Shaped, TypeOK, Phases, Doubling, Doubled, SeriesInv
  <2>2. Params = checks.params["DiskSpillSortCheck"]
    BY <2>1, WorkMemParams DEF PlanInv
  <2> QED
    BY <1>1, <1>4, <2>1, <2>2
<1>10. CASE Ask
  BY <1>1, <1>3, <1>10 DEF Ask, Clear
<1>11. CASE Load
  <2>1. issues' = <<>> /\ pc' # "double"
    BY <1>11 DEF Load, PlanInv, Phases, Fresh
  <2> QED
    BY <1>1, <1>3, <2>1
<1>12. ASSUME pc' # "double", UNCHANGED <<checks, issues>> PROVE SeriesInv'
  BY <1>1, <1>2, <1>12
<1>13. CASE Explain \/ NextNode \/ Walked \/ Fetch \/ Judged \/ Policy
  BY <1>12, <1>13 DEF Explain, NextNode, Walked, Fetch, Checking, Judged, Policy, judging
<1>14. CASE Reject \/ Fails \/ ReadNothing \/ LoadRejects \/ FetchFails \/ EmitBreaks \/ Answer
  BY <1>12, <1>14 DEF Reject, Fails, ReadNothing, LoadRejects, FetchFails, EmitBreaks, Answer, End,
                      judging
<1>15. CASE VisitRoot \/ VisitChild \/ Return
  BY <1>12, <1>15 DEF VisitRoot, VisitChild, Return, judging
<1>16. CASE ChangeConfig \/ ChangeIndexes \/ UNCHANGED vars
  <2>1. UNCHANGED <<pc, target, checks, issues>> /\ Params' = Params
    BY <1>16 DEF ChangeConfig, ChangeIndexes, vars, judging, Params, Check
  <2>2. All
    BY <1>2, <2>1
  <2> QED
    BY <1>0, <2>1, <2>2 DEF SeriesInv, WorkMemIsLeast, All
<1> QED
  BY <1>5, <1>6, <1>7, <1>8, <1>9, <1>10, <1>11, <1>13, <1>14, <1>15, <1>16 DEF Next, CallStep

\* WorkMemIsLeast: the work_mem that is suggested for a spilled sort is one of
\* the values min_work_mem_mb, 2x, 4x, ..., and the least that holds the spill
\* with headroom.
THEOREM WorkMemSuggested == Spec => []WorkMemIsLeast
<1>1. Init => SeriesInv
  BY DEF Init, SeriesInv, WorkMemIsLeast, WorkMemFits
<1>2. PlanInv /\ PlanInv' /\ SeriesInv /\ [Next]_vars => SeriesInv'
  BY SeriesStep
<1>3. SeriesInv => WorkMemIsLeast
  BY DEF SeriesInv
<1> QED
  BY <1>1, <1>2, <1>3, PlanInvariance, PTL DEF Spec
=============================================================================
