-------------------------- MODULE ConfigAuditProofs --------------------------
(***************************************************************************)
(* The schema and the audit log of checks.db, for any number of            *)
(* parameters, servers, --init runs and manual edits.  Processes that      *)
(* rebuild the file at the same time drop each other's tables and make     *)
(* each other's statements fail, and still leave the whole schema behind,  *)
(* provided that none of them is killed.  The entries of the log are well  *)
(* formed however the processes interleave and die; every change is        *)
(* recorded while the file stays as it is; the tags are right and the      *)
(* reports whole when nobody works on the file at the same time as         *)
(* somebody else.                                                          *)
(***************************************************************************)
EXTENDS ConfigAudit, SequenceTheorems, FiniteSetTheorems, FunctionTheorems, TLAPS

\* Where in the script of init_db a table, and the triggers of one, are
\* created.
CreateAt == [databases |-> 7, checks |-> 8, tags |-> 9, checks_tags |-> 10,
             check_params |-> 11, plan_fields |-> 12, _audit_session |-> 13,
             config_audit |-> 14]
TriggerAt == [checks |-> 15, check_params |-> 16, plan_fields |-> 17]

PlaceOK ==
  /\ pc \in [Procs -> PcLabels]
  /\ at \in [Procs -> 0..26]
  /\ back \in [Procs -> PcLabels \ {"init"}]
  /\ \A w \in Procs : pc[w] = "init" => at[w] # 0

\* A process in init_db that has not passed the i-th statement.
Coming(i) == \E w \in Procs : pc[w] = "init" /\ at[w] <= i

Passed(i) == \E w \in Procs : pc[w] = "init" /\ at[w] > i

\* What is missing from a file that has an audit log, or that a process relies
\* on having created, some process is going to create.
TablesComing ==
  \A t \in Required \ tables :
    "config_audit" \in tables \/ Passed(CreateAt[t]) => Coming(CreateAt[t])

TriggersComing ==
  \A t \in AuditedTables \ triggers :
    "config_audit" \in tables => Coming(TriggerAt[t])

SchemaInv ==
  /\ PlaceOK
  /\ tables \subseteq Required
  /\ triggers \subseteq AuditedTables
  /\ TablesComing
  /\ TriggersComing

-----------------------------------------------------------------------------
\* The sets of names.
LEMMA Names ==
  /\ Required = {"databases", "checks", "tags", "checks_tags", "check_params",
                 "plan_fields", "_audit_session", "config_audit"}
  /\ AuditedTables = {"checks", "check_params", "plan_fields"}
  /\ SeedTables = {"databases", "tags", "checks", "checks_tags", "check_params",
                   "plan_fields"}
<1>1. Required = {"databases", "checks", "tags", "checks_tags", "check_params",
                  "plan_fields", "_audit_session", "config_audit"}
  <2>1. DOMAIN Creates = 1..8
    BY DEF Creates
  <2> QED
    BY <2>1 DEF Required, Creates
<1>2. AuditedTables = {"checks", "check_params", "plan_fields"}
  BY DEF AuditedTables, Audited
<1>3. SeedTables = {"databases", "tags", "checks", "checks_tags", "check_params",
                    "plan_fields"}
  BY DEF SeedTables, Inserts
<1> QED
  BY <1>1, <1>2, <1>3

Verbs == {"drop", "create", "trigger", "insert", "who", "count"}
Args == Required \cup {"seed", "system"}
Stmts == [do : Verbs, arg : Args]

\* A part of the script has one statement for each name.
LEMMA EachIs ==
  ASSUME NEW verb \in Verbs, NEW names \in Seq(Args)
  PROVE  /\ Each(verb, names) \in Seq(Stmts)
         /\ Len(Each(verb, names)) = Len(names)
         /\ \A i \in 1..Len(names) :
              /\ Each(verb, names)[i].do = verb
              /\ Each(verb, names)[i].arg = names[i]
<1>1. DOMAIN names = 1..Len(names) /\ Len(names) \in Nat
  OBVIOUS
<1>2. Each(verb, names) = [i \in 1..Len(names) |-> [do |-> verb, arg |-> names[i]]]
  BY <1>1 DEF Each
<1>3. \A i \in 1..Len(names) : [do |-> verb, arg |-> names[i]] \in Stmts
  BY DEF Stmts
<1>4. Each(verb, names) \in Seq(Stmts)
  BY <1>1, <1>2, <1>3, IsASeq
<1> QED
  BY <1>1, <1>2, <1>4

\* Two parts one after the other.
LEMMA Joined ==
  ASSUME NEW a \in Seq(Stmts), NEW b \in Seq(Stmts)
  PROVE  /\ a \o b \in Seq(Stmts)
         /\ Len(a \o b) = Len(a) + Len(b)
         /\ \A i \in 1..Len(a) : (a \o b)[i] = a[i]
         /\ \A i \in Len(a) + 1 .. Len(a) + Len(b) : (a \o b)[i] = b[i - Len(a)]
BY ConcatProperties

\* The script of init_db, statement by statement: six drops, eight creations,
\* three sets of triggers, and six inserts between two changes of the tag.
LEMMA ScriptIs ==
  /\ Len(Script) = 26
  /\ \A i \in 1..6 : Script[i].do = "drop" /\ Script[i].arg = Drops[i]
  /\ \A i \in 7..14 : Script[i].do = "create" /\ Script[i].arg = Creates[i - 6]
  /\ \A i \in 15..17 : Script[i].do = "trigger" /\ Script[i].arg = Audited[i - 14]
  /\ Script[18].do = "who" /\ Script[18].arg = "seed"
  /\ \A i \in 19..24 : Script[i].do = "insert" /\ Script[i].arg = Inserts[i - 18]
  /\ Script[25].do = "who" /\ Script[25].arg = "system"
  /\ Script[26].do = "count"
<1> DEFINE d == Each("drop", Drops)
           c == Each("create", Creates)
           g == Each("trigger", Audited)
           s == <<[do |-> "who", arg |-> "seed"]>>
           n == Each("insert", Inserts)
           e == <<[do |-> "who", arg |-> "system"], [do |-> "count", arg |-> "checks"]>>
           dc == d \o c
           dcg == dc \o g
           dcgs == dcg \o s
           dcgsn == dcgs \o n
<1>1. d \in Seq(Stmts) /\ Len(d) = 6 /\ \A i \in 1..6 : d[i].do = "drop" /\ d[i].arg = Drops[i]
  <2>1. Drops \in Seq(Args) /\ Len(Drops) = 6
    BY Names DEF Drops, Args
  <2> QED
    BY <2>1, EachIs DEF Verbs
<1>2. c \in Seq(Stmts) /\ Len(c) = 8 /\ \A i \in 1..8 : c[i].do = "create" /\ c[i].arg = Creates[i]
  <2>1. Creates \in Seq(Args) /\ Len(Creates) = 8
    BY Names DEF Creates, Args
  <2> QED
    BY <2>1, EachIs DEF Verbs
<1>3. g \in Seq(Stmts) /\ Len(g) = 3 /\ \A i \in 1..3 : g[i].do = "trigger" /\ g[i].arg = Audited[i]
  <2>1. Audited \in Seq(Args) /\ Len(Audited) = 3
    BY Names DEF Audited, Args
  <2> QED
    BY <2>1, EachIs DEF Verbs
<1>4. s \in Seq(Stmts) /\ Len(s) = 1 /\ s[1].do = "who" /\ s[1].arg = "seed"
  BY DEF Stmts, Verbs, Args
<1>5. n \in Seq(Stmts) /\ Len(n) = 6 /\ \A i \in 1..6 : n[i].do = "insert" /\ n[i].arg = Inserts[i]
  <2>1. Inserts \in Seq(Args) /\ Len(Inserts) = 6
    BY Names DEF Inserts, Args
  <2> QED
    BY <2>1, EachIs DEF Verbs
<1>6. /\ e \in Seq(Stmts) /\ Len(e) = 2
      /\ e[1].do = "who" /\ e[1].arg = "system" /\ e[2].do = "count"
  BY Names DEF Stmts, Verbs, Args
<1>7. d \in Seq(Stmts) /\ c \in Seq(Stmts) /\ g \in Seq(Stmts)
      /\ s \in Seq(Stmts) /\ n \in Seq(Stmts) /\ e \in Seq(Stmts)
  BY <1>1, <1>2, <1>3, <1>4, <1>5, <1>6
<1> HIDE DEF d, c, g, s, n, e
<1>8. /\ dc \in Seq(Stmts)
      /\ Len(dc) = Len(d) + Len(c)
      /\ \A i \in 1..Len(d) : dc[i] = d[i]
      /\ \A i \in Len(d) + 1 .. Len(d) + Len(c) : dc[i] = c[i - Len(d)]
  BY <1>7, Joined
<1> HIDE DEF dc
<1>9. /\ dcg \in Seq(Stmts)
      /\ Len(dcg) = Len(dc) + Len(g)
      /\ \A i \in 1..Len(dc) : dcg[i] = dc[i]
      /\ \A i \in Len(dc) + 1 .. Len(dc) + Len(g) : dcg[i] = g[i - Len(dc)]
  BY <1>7, <1>8, Joined
<1> HIDE DEF dcg
<1>10. /\ dcgs \in Seq(Stmts)
       /\ Len(dcgs) = Len(dcg) + Len(s)
       /\ \A i \in 1..Len(dcg) : dcgs[i] = dcg[i]
       /\ \A i \in Len(dcg) + 1 .. Len(dcg) + Len(s) : dcgs[i] = s[i - Len(dcg)]
  BY <1>7, <1>9, Joined
<1> HIDE DEF dcgs
<1>11. /\ dcgsn \in Seq(Stmts)
       /\ Len(dcgsn) = Len(dcgs) + Len(n)
       /\ \A i \in 1..Len(dcgs) : dcgsn[i] = dcgs[i]
       /\ \A i \in Len(dcgs) + 1 .. Len(dcgs) + Len(n) : dcgsn[i] = n[i - Len(dcgs)]
  BY <1>7, <1>10, Joined
<1> HIDE DEF dcgsn
<1> DEFINE all == dcgsn \o e
<1>12. /\ all \in Seq(Stmts)
       /\ Len(all) = Len(dcgsn) + Len(e)
       /\ \A i \in 1..Len(dcgsn) : all[i] = dcgsn[i]
       /\ \A i \in Len(dcgsn) + 1 .. Len(dcgsn) + Len(e) : all[i] = e[i - Len(dcgsn)]
  BY <1>7, <1>11, Joined
<1>13. Script = all
  BY DEF Script, d, c, g, s, n, e, dc, dcg, dcgs, dcgsn
<1> HIDE DEF all
<1>14. /\ Len(dc) = 14 /\ Len(dcg) = 17 /\ Len(dcgs) = 18 /\ Len(dcgsn) = 24 /\ Len(all) = 26
  BY <1>1, <1>2, <1>3, <1>4, <1>5, <1>6, <1>8, <1>9, <1>10, <1>11, <1>12
<1>15. \A i \in 1..24 : all[i] = dcgsn[i]
  BY <1>12, <1>14
<1>16. \A i \in 1..18 : all[i] = dcgs[i]
  <2>1. \A i \in 1..18 : dcgsn[i] = dcgs[i]
    BY <1>11, <1>14
  <2> QED
    BY <1>15, <2>1
<1>17. \A i \in 1..17 : all[i] = dcg[i]
  BY <1>10, <1>14, <1>16
<1>18. \A i \in 1..14 : all[i] = dc[i]
  BY <1>9, <1>14, <1>17
<1>19. \A i \in 1..6 : Script[i].do = "drop" /\ Script[i].arg = Drops[i]
  <2>1. \A i \in 1..6 : Script[i] = d[i]
    BY <1>1, <1>8, <1>13, <1>14, <1>18
  <2> QED
    BY <1>1, <2>1
<1>20. \A i \in 7..14 : Script[i].do = "create" /\ Script[i].arg = Creates[i - 6]
  <2>1. \A i \in 7..14 : Script[i] = c[i - 6]
    BY <1>1, <1>2, <1>8, <1>13, <1>14, <1>18
  <2> QED
    BY <1>2, <2>1
<1>21. \A i \in 15..17 : Script[i].do = "trigger" /\ Script[i].arg = Audited[i - 14]
  <2>1. \A i \in 15..17 : Script[i] = g[i - 14]
    BY <1>3, <1>9, <1>13, <1>14, <1>17
  <2> QED
    BY <1>3, <2>1
<1>22. Script[18].do = "who" /\ Script[18].arg = "seed"
  BY <1>4, <1>10, <1>13, <1>14, <1>16
<1>23. \A i \in 19..24 : Script[i].do = "insert" /\ Script[i].arg = Inserts[i - 18]
  <2>1. \A i \in 19..24 : /\ dcgsn[i] = n[i - 18]
                          /\ Script[i] = dcgsn[i]
    <3>1. Len(n) = 6 /\ Len(dcgs) = 18
      BY <1>5, <1>14
    <3>2. \A i \in 19..24 : dcgsn[i] = n[i - 18]
      BY <1>11, <3>1
    <3> QED
      BY <1>13, <1>15, <3>2
  <2> QED
    BY <1>5, <2>1
<1>24. Script[25].do = "who" /\ Script[25].arg = "system" /\ Script[26].do = "count"
  BY <1>6, <1>12, <1>13, <1>14
<1> QED
  BY <1>13, <1>14, <1>19, <1>20, <1>21, <1>22, <1>23, <1>24

\* The order of the creations: all triggers after all tables, the audit log
\* last of these.
LEMMA ScriptSteps ==
  /\ Len(Script) = 26
  /\ \A i \in 1..6 :
       Script[i].do = "drop" /\ Script[i].arg \in Required \ {"config_audit", "_audit_session"}
  /\ \A i \in 7..14 :
       /\ Script[i].do = "create"
       /\ Script[i].arg \in Required
       /\ CreateAt[Script[i].arg] = i
  /\ \A i \in 15..17 :
       /\ Script[i].do = "trigger"
       /\ Script[i].arg \in AuditedTables
       /\ TriggerAt[Script[i].arg] = i
  /\ \A i \in 18..26 : Script[i].do \in {"who", "insert", "count"}
<1>1. \A i \in 1..6 : Drops[i] \in Required \ {"config_audit", "_audit_session"}
  BY Names DEF Drops
<1>2. \A i \in 1..8 : Creates[i] \in Required /\ CreateAt[Creates[i]] = i + 6
  BY Names DEF Creates, CreateAt
<1>3. \A i \in 1..3 : Audited[i] \in AuditedTables /\ TriggerAt[Audited[i]] = i + 14
  BY Names DEF Audited, TriggerAt
<1>4. /\ \A i \in 1..6 :
           Script[i].do = "drop" /\ Script[i].arg \in Required \ {"config_audit", "_audit_session"}
      /\ \A i \in 7..14 : /\ Script[i].do = "create"
                          /\ Script[i].arg \in Required
                          /\ CreateAt[Script[i].arg] = i
  BY <1>1, <1>2, ScriptIs
<1>5. \A i \in 15..17 : /\ Script[i].do = "trigger"
                        /\ Script[i].arg \in AuditedTables
                        /\ TriggerAt[Script[i].arg] = i
  BY <1>3, ScriptIs
<1>6. \A i \in 18..26 : Script[i].do \in {"who", "insert", "count"}
  BY ScriptIs
<1> QED
  BY <1>4, <1>5, <1>6, ScriptIs

-----------------------------------------------------------------------------
\* What init_db's callers go on with is never init_db itself.
LEMMA Labels ==
  /\ DOMAIN After = {"enter", "inner", "open", "reopen", "list"}
  /\ \A l \in DOMAIN After : l \in PcLabels \ {"init"} /\ After[l] \in PcLabels \ {"init"}
  /\ \A c \in {"set", "reset", "explain", "history"} : FirstStep[c] \in PcLabels \ {"init"}
  /\ \A l \in PcLabels : OnError(l) \in PcLabels \ {"init"}
BY DEF After, FirstStep, OnError, PcLabels

\* Every tool call is one of four kinds.
LEMMA CallKinds ==
  ASSUME NEW c \in Calls
  PROVE  c.op \in {"set", "reset", "explain", "history"}
<1>1. \A p \in Params, v \in Values \cup {Invalid} : SetCall(p, v).op = "set"
  BY DEF SetCall, NoCall
<1>2. \A S \in Checks \cup {{p} : p \in Params} : ResetCall(S).op = "reset"
  BY DEF ResetCall, NoCall
<1>3. ExplainCall.op = "explain"
  BY DEF ExplainCall, NoCall
<1>4. \A b \in BOOLEAN : HistoryCall(b).op = "history"
  BY DEF HistoryCall, NoCall
<1>5. \/ \E p \in Params, v \in Values \cup {Invalid} : c = SetCall(p, v)
      \/ \E S \in Checks \cup {{p} : p \in Params} : c = ResetCall(S)
      \/ c = ExplainCall
      \/ \E b \in BOOLEAN : c = HistoryCall(b)
  BY DEF Calls
<1> QED
  BY <1>1, <1>2, <1>3, <1>4, <1>5

\* The initial states: no process is in init_db, and a file with an audit log
\* has all tables and triggers.
LEMMA SchemaInit ==
  Init => SchemaInv
<1> SUFFICES ASSUME Init PROVE SchemaInv
  OBVIOUS
<1>1. PlaceOK /\ \A w \in Procs : pc[w] # "init"
  BY DEF Init, CallersInit, PlaceOK, PcLabels
<1>2. /\ tables \subseteq Required
      /\ triggers \subseteq AuditedTables
      /\ "config_audit" \in tables => tables = Required /\ triggers = AuditedTables
  BY Names DEF Init, NoFile, OldFile, SeededFile
<1>3. TablesComing /\ TriggersComing
  BY <1>1, <1>2 DEF TablesComing, TriggersComing, Passed
<1> QED
  BY <1>1, <1>2, <1>3 DEF SchemaInv

\* A step outside init_db.
LEMMA FrameSchema ==
  ASSUME NEW w \in Procs, SchemaInv, UNCHANGED <<tables, triggers>>,
         pc[w] # "init", PlaceOK',
         \A o \in Procs \ {w} : pc'[o] = pc[o] /\ at'[o] = at[o],
         pc'[w] = "init" => at'[w] = 1
  PROVE  SchemaInv'
<1>1. \A i \in Nat \ {0} : /\ Coming(i) => Coming(i)'
                           /\ Passed(i)' => Passed(i)
  BY DEF Coming, Passed, PlaceOK, SchemaInv
<1>2. /\ \A t \in Required : CreateAt[t] \in Nat \ {0}
      /\ \A t \in AuditedTables : TriggerAt[t] \in Nat \ {0}
  BY Names DEF CreateAt, TriggerAt
<1>3. TablesComing'
  BY <1>1, <1>2 DEF SchemaInv, TablesComing
<1>4. TriggersComing'
  BY <1>1, <1>2 DEF SchemaInv, TriggersComing
<1> QED
  BY <1>3, <1>4 DEF SchemaInv

\* A statement of the script that is executed: the process that has dropped a
\* table has its creation ahead.
LEMMA StatementSchema ==
  ASSUME NEW w \in Procs, SchemaInv, Statement(w)
  PROVE  SchemaInv'
<1> DEFINE i == at[w]
<1>1. i \in 1..26 /\ pc[w] = "init"
  BY ScriptSteps DEF Statement, SchemaInv, PlaceOK
<1>2. PlaceOK'
  BY ScriptSteps DEF Statement, SchemaInv, PlaceOK, Goto, PcLabels
<1>3. /\ \A o \in Procs \ {w} : pc'[o] = pc[o] /\ at'[o] = at[o]
      /\ i # 26 => pc'[w] = "init" /\ at'[w] = i + 1
      /\ i = 26 => pc'[w] # "init"
  BY ScriptSteps, <1>1 DEF Statement, SchemaInv, PlaceOK, Goto
<1>4. \A k \in 1..25 :
        /\ k # i /\ Coming(k) => Coming(k)'
        /\ k # i /\ Passed(k)' => Passed(k)
        /\ i < k => Coming(k)'
  BY <1>1, <1>3 DEF Coming, Passed, SchemaInv, PlaceOK
<1>5. /\ \A t \in Required : CreateAt[t] \in 7..14
      /\ \A t \in AuditedTables : TriggerAt[t] \in 15..17
      /\ CreateAt["config_audit"] = 14
      /\ \A t \in Required : CreateAt[t] = 14 => t = "config_audit"
  BY Names DEF CreateAt, TriggerAt
<1>6. Execute(Script[i])
  BY DEF Statement
<1>7. CASE i \in 1..6
  <2>1. /\ tables' = tables \ {Script[i].arg}
        /\ triggers' = triggers \ {Script[i].arg}
        /\ "config_audit" \in tables' => "config_audit" \in tables
    BY <1>6, <1>7, ScriptSteps DEF Execute, DropTable
  <2>2. TablesComing' /\ TriggersComing'
    BY <1>4, <1>5, <1>7 DEF TablesComing, TriggersComing
  <2> QED
    BY <1>2, <2>1, <2>2 DEF SchemaInv
<1>8. CASE i \in 7..14
  <2> DEFINE a == Script[i].arg
  <2>1. /\ tables' = tables \cup {a}
        /\ triggers' = triggers
        /\ a \in Required /\ CreateAt[a] = i
    BY <1>6, <1>8, ScriptSteps DEF Execute, CreateTable
  <2> HIDE DEF a
  <2>2. TablesComing'
    <3> SUFFICES ASSUME NEW t \in Required \ tables',
                        "config_audit" \in tables' \/ Passed(CreateAt[t])'
                 PROVE  Coming(CreateAt[t])'
      BY DEF TablesComing
    <3>1. t # a /\ t \in Required \ tables
      BY <2>1
    <3>2. CASE CreateAt[t] > i
      BY <1>4, <1>5, <3>1, <3>2
    <3>3. CASE CreateAt[t] = i
      BY <2>1, <3>1, <3>3, Names DEF CreateAt
    <3>4. CASE CreateAt[t] < i
      <4>1. Passed(CreateAt[t])
        BY <1>1, <1>5, <3>1, <3>4 DEF Passed
      <4>2. Coming(CreateAt[t])
        BY <3>1, <4>1 DEF SchemaInv, TablesComing
      <4> QED
        BY <1>4, <1>5, <3>1, <3>4, <4>2
    <3> QED
      BY <1>1, <1>5, <3>1, <3>2, <3>3, <3>4
  <2>3. TriggersComing'
    BY <1>4, <1>5, <1>8 DEF TriggersComing
  <2> QED
    BY <1>2, <2>1, <2>2, <2>3 DEF SchemaInv
<1>9. CASE i \in 15..17
  <2> DEFINE a == Script[i].arg
  <2>1. /\ tables' = tables
        /\ triggers' = triggers \cup {a}
        /\ a \in AuditedTables /\ TriggerAt[a] = i
    BY <1>6, <1>9, ScriptSteps DEF Execute, CreateTriggers
  <2> HIDE DEF a
  <2>2. TablesComing'
    BY <1>1, <1>4, <1>5, <1>9, <2>1 DEF SchemaInv, TablesComing
  <2>3. TriggersComing'
    <3> SUFFICES ASSUME NEW t \in AuditedTables \ triggers', "config_audit" \in tables'
                 PROVE  Coming(TriggerAt[t])'
      BY DEF TriggersComing
    <3>1. t # a /\ t \in AuditedTables \ triggers /\ Coming(TriggerAt[t])
      BY <2>1 DEF SchemaInv, TriggersComing
    <3>2. TriggerAt[t] # i
      BY <2>1, <3>1, Names DEF TriggerAt
    <3> QED
      BY <1>4, <1>5, <3>1, <3>2
  <2> QED
    BY <1>2, <2>1, <2>2, <2>3 DEF SchemaInv
<1>10. CASE i \in 18..26
  <2>1. UNCHANGED <<tables, triggers>>
    BY <1>6, <1>10, ScriptSteps DEF Execute, SetWho, InsertSeed, CountSeed, store
  <2>2. TablesComing' /\ TriggersComing'
    BY <1>1, <1>4, <1>5, <1>10, <2>1 DEF SchemaInv, TablesComing, TriggersComing
  <2> QED
    BY <1>2, <2>1, <2>2 DEF SchemaInv
<1> QED
  BY <1>1, <1>7, <1>8, <1>9, <1>10

\* A statement that fails, because another process has dropped the table or
\* inserted the rows: whoever dropped it is still ahead of all the triggers.
LEMMA FailureSchema ==
  ASSUME NEW w \in Procs, SchemaInv, StatementFails(w)
  PROVE  SchemaInv'
<1> DEFINE i == at[w]
<1>1. i \in 1..26 /\ pc[w] = "init"
  BY ScriptSteps DEF StatementFails, SchemaInv, PlaceOK
<1>2. PlaceOK'
  BY Labels DEF StatementFails, SchemaInv, PlaceOK, Goto
<1>3. /\ UNCHANGED <<tables, triggers>>
      /\ pc'[w] # "init"
      /\ \A o \in Procs \ {w} : pc'[o] = pc[o] /\ at'[o] = at[o]
  BY Labels DEF StatementFails, SchemaInv, PlaceOK, Goto, store
<1>4. \/ i \in 15..17 /\ \E t \in AuditedTables : t \notin tables
      \/ i \in 18..26
  BY <1>1, ScriptSteps DEF StatementFails, Fails
<1>5. /\ \A t \in Required : CreateAt[t] \in 7..14
      /\ \A t \in AuditedTables : TriggerAt[t] \in 15..17 /\ t \in Required
  BY Names DEF CreateAt, TriggerAt
<1>6. \A t \in Required \ tables : Coming(CreateAt[t])'
  <2> SUFFICES ASSUME NEW t \in Required \ tables
               PROVE  Coming(CreateAt[t])'
    OBVIOUS
  <2>1. Passed(CreateAt[t])
    BY <1>1, <1>4, <1>5 DEF Passed
  <2>2. PICK o \in Procs : pc[o] = "init" /\ at[o] <= CreateAt[t]
    BY <2>1 DEF SchemaInv, TablesComing, Coming
  <2>3. o # w
    BY <1>4, <1>5, <2>2
  <2> QED
    BY <1>3, <2>2, <2>3 DEF Coming
<1>7. TablesComing'
  BY <1>3, <1>6 DEF TablesComing
<1>8. TriggersComing'
  <2> SUFFICES ASSUME NEW t \in AuditedTables \ triggers, "config_audit" \in tables
               PROVE  Coming(TriggerAt[t])'
    BY <1>3 DEF TriggersComing
  <2>1. PICK o \in Procs : pc[o] = "init" /\ at[o] <= TriggerAt[t]
    BY DEF SchemaInv, TriggersComing, Coming
  <2>2. CASE o # w
    BY <1>3, <2>1, <2>2 DEF Coming
  <2>3. CASE o = w
    <3>1. PICK u \in AuditedTables : u \notin tables
      BY <1>4, <1>5, <2>1, <2>3
    <3>2. PICK v \in Procs : pc'[v] = "init" /\ at'[v] <= CreateAt[u]
      BY <1>5, <1>6, <3>1 DEF Coming
    <3>3. v # w /\ at'[v] \in 0..26
      BY <1>2, <1>3, <3>2 DEF PlaceOK
    <3> QED
      BY <1>5, <3>1, <3>2, <3>3 DEF Coming
  <2> QED
    BY <2>2, <2>3
<1> QED
  BY <1>2, <1>3, <1>7, <1>8 DEF SchemaInv

\* The steps of the tool calls, --init and edits: only _ensure_db and --init
\* enter init_db, at its first statement.
LEMMA OtherSchema ==
  ASSUME NEW w \in Procs, SchemaInv,
         ServerStep(w) \/ Ensure(w) \/ StartInit(w) \/ Edit(w)
  PROVE  SchemaInv'
<1>1. CASE Begin(w)
  <2>1. PICK c \in Calls : Goto(w, FirstStep[c.op])
    BY <1>1 DEF Begin
  <2>2. FirstStep[c.op] \in PcLabels \ {"init"}
    BY CallKinds, Labels
  <2>3. PlaceOK'
    BY <1>1, <2>1, <2>2 DEF Begin, Goto, SchemaInv, PlaceOK
  <2> QED
    BY <1>1, <2>1, <2>2, <2>3, FrameSchema DEF Begin, Goto, SchemaInv, PlaceOK, store
<1>2. CASE Ensure(w)
  <2>1. pc[w] \in DOMAIN After /\ After[pc[w]] \in PcLabels \ {"init"} /\ pc[w] # "init"
    BY <1>2, Labels DEF Ensure
  <2>2. PlaceOK'
    BY <1>2, <2>1 DEF Ensure, Goto, SchemaInv, PlaceOK, PcLabels
  <2> QED
    BY <1>2, <2>1, <2>2, FrameSchema DEF Ensure, Goto, SchemaInv, PlaceOK, store
<1>3. CASE StartInit(w)
  <2>1. PlaceOK'
    BY <1>3 DEF StartInit, Goto, SchemaInv, PlaceOK, PcLabels
  <2> QED
    BY <1>3, <2>1, FrameSchema DEF StartInit, Goto, SchemaInv, PlaceOK, store
<1>4. CASE Edit(w)
  BY <1>4 DEF Edit, UpdateParams, SchemaInv, PlaceOK, TablesComing, TriggersComing, Coming, Passed
<1>5. CASE \/ ReadWho(w) \/ TagWho(w) \/ ReadParams(w) \/ WriteParams(w) \/ Exit(w)
           \/ LoadChecks(w) \/ LoadParams(w) \/ LoadFields(w) \/ ShowHistory(w)
  <2>1. /\ UNCHANGED <<tables, triggers, at, back>>
        /\ pc[w] # "init"
        /\ \E l \in PcLabels \ {"init"} : Goto(w, l)
    BY <1>5 DEF ReadWho, TagWho, SetWho, ReadParams, WriteParams, UpdateParams, Exit,
       LoadChecks, LoadParams, LoadFields, ShowHistory, store, PcLabels
  <2>2. PlaceOK'
    BY <2>1 DEF Goto, SchemaInv, PlaceOK
  <2> QED
    BY <2>1, <2>2, FrameSchema DEF Goto, SchemaInv, PlaceOK
<1> QED
  BY <1>1, <1>2, <1>3, <1>4, <1>5 DEF ServerStep

\* SchemaInv is inductive as long as no process is killed.
LEMMA SchemaInductive ==
  ASSUME Mortal = {}
  PROVE  SchemaInv /\ [Next]_vars => SchemaInv'
<1> SUFFICES ASSUME SchemaInv, [Next]_vars
             PROVE  SchemaInv'
  OBVIOUS
<1>1. CASE Next
  <2>1. PICK w \in Procs :
          \/ ServerStep(w) \/ Ensure(w) \/ StartInit(w) \/ Edit(w)
          \/ Statement(w)
          \/ StatementFails(w)
          \/ Crash(w)
    BY <1>1 DEF Next
  <2>2. CASE Crash(w)
    BY <2>2 DEF Crash
  <2> QED
    BY <2>1, <2>2, OtherSchema, StatementSchema, FailureSchema
<1>2. CASE UNCHANGED vars
  BY <1>2 DEF vars, store, callers, SchemaInv, PlaceOK, TablesComing, TriggersComing,
     Coming, Passed
<1> QED
  BY <1>1, <1>2

\* A file with an audit log on which nobody works has every table and every
\* trigger, whatever rebuilds of it have raced (_ensure_db, init_db).
THEOREM SchemaSafety ==
  ASSUME Mortal = {}
  PROVE  Spec => []SchemaWhenIdle
<1>1. SchemaInv => SchemaWhenIdle
  <2> SUFFICES ASSUME SchemaInv, \A w \in Procs : pc[w] \in Resting,
                      "config_audit" \in tables
               PROVE  tables = Required /\ triggers = AuditedTables
    BY DEF SchemaWhenIdle
  <2>1. \A i \in Nat : ~Coming(i)
    BY DEF Coming, Resting
  <2>2. /\ \A t \in Required : CreateAt[t] \in Nat
        /\ \A t \in AuditedTables : TriggerAt[t] \in Nat
    BY Names DEF CreateAt, TriggerAt
  <2> QED
    BY <2>1, <2>2 DEF SchemaInv, TablesComing, TriggersComing
<1> QED
  BY <1>1, SchemaInit, SchemaInductive, PTL DEF Spec

-----------------------------------------------------------------------------
(* Orders of rows, and what is appended to the log.                        *)

\* Each of the parameters has one place in their order.
LEMMA RowOrderIs ==
  ASSUME NEW S, IsFiniteSet(S)
  PROVE  /\ Cardinality(S) \in Nat
         /\ RowOrder(S) \in [1..Cardinality(S) -> S]
         /\ \A i, j \in 1..Cardinality(S) : RowOrder(S)[i] = RowOrder(S)[j] => i = j
         /\ \A p \in S : \E i \in 1..Cardinality(S) : RowOrder(S)[i] = p
<1> DEFINE n == Cardinality(S)
           IsOrder(s) == \A i, j \in DOMAIN s : s[i] = s[j] => i = j
<1>1. n \in Nat /\ ExistsBijection(1..n, S)
  BY FS_CardinalityType
<1>2. PICK f \in Bijection(1..n, S) : TRUE
  BY <1>1, Fun_ExistsBij
<1>3. f \in [1..n -> S] /\ \A i, j \in 1..n : f[i] = f[j] => i = j
  BY <1>2, Fun_BijectionProperties
<1>4. \E s \in [1..n -> S] : IsOrder(s)
  BY <1>3
<1>5. RowOrder(S) = CHOOSE s \in [1..n -> S] : IsOrder(s)
  BY DEF RowOrder
<1>6. RowOrder(S) \in [1..n -> S] /\ IsOrder(RowOrder(S))
  BY <1>4, <1>5
<1>7. \A i, j \in 1..n : RowOrder(S)[i] = RowOrder(S)[j] => i = j
  BY <1>6
<1>8. RowOrder(S) \in Injection(1..n, S)
  BY <1>6, <1>7, Fun_IsInj
<1>9. Cardinality(1..n) = n
  BY <1>1, FS_Interval
<1>10. RowOrder(S) \in Surjection(1..n, S)
  BY <1>8, <1>9, FS_Injection
<1>11. \A p \in S : \E i \in 1..n : RowOrder(S)[i] = p
  BY <1>10 DEF Surjection
<1>12. RowOrder(S) \in [1..n -> S]
  BY <1>6
<1> QED
  BY <1>1, <1>7, <1>11, <1>12

\* A log to which entries are added keeps what it has.
LEMMA Appended ==
  ASSUME NEW E, NEW L \in Seq(E), NEW n \in Nat, NEW f \in [1..n -> E]
  PROVE  /\ L \o f \in Seq(E)
         /\ Len(L \o f) = Len(L) + n
         /\ \A i \in 1..Len(L) : (L \o f)[i] = L[i]
         /\ \A i \in 1..n : (L \o f)[Len(L) + i] = f[i]
<1>1. f \in Seq(E) /\ Len(f) = n
  BY IsASeq
<1>2. /\ L \o f \in Seq(E)
      /\ Len(L \o f) = Len(L) + Len(f)
      /\ \A i \in 1..Len(L) + Len(f) :
           (L \o f)[i] = IF i <= Len(L) THEN L[i] ELSE f[i - Len(L)]
  BY <1>1, ConcatProperties
<1>3. Len(L) \in Nat
  OBVIOUS
<1>4. \A i \in 1..Len(L) : (L \o f)[i] = L[i]
  BY <1>1, <1>2, <1>3
<1>5. ASSUME NEW i \in 1..n PROVE (L \o f)[Len(L) + i] = f[i]
  <2>1. Len(L) + i \in 1..Len(L) + Len(f) /\ ~(Len(L) + i <= Len(L)) /\ (Len(L) + i) - Len(L) = i
    BY <1>1, <1>3
  <2> QED
    BY <1>2, <2>1
<1> QED
  BY <1>1, <1>2, <1>4, <1>5

-----------------------------------------------------------------------------
(* Types: what a process has in hand at each step of a call.               *)

\* The steps of a call that the finally of audit_writer comes after.
InBlock == {"tag", "inner", "read", "write", "exit"}

\* Where init_db's callers go on.
BackLabels == {"idle", "done", "readWho", "read", "checks", "fields", "rows"}

\* The row of _audit_session is there as soon as anything needs it, and a call
\* has a tag to give back.
SessionInv ==
  /\ "_audit_session" \in tables => who # Null
  /\ triggers # {} => who # Null
  /\ \A w \in Procs :
       /\ pc[w] = "init" /\ at[w] > 13 => who # Null
       /\ pc[w] \in InBlock => prev[w] # Null
       /\ pc[w] = "init" /\ back[w] = "read" => prev[w] # Null
       /\ back[w] \in BackLabels

\* Only values that are valid are written.
ValidInv ==
  \A w \in Procs : pc[w] = "write" => \A p \in call[w].on : call[w].to[p] \in Values

\* The parameters have their rows together.
RowsInv == \A p \in Params : value[p] # Null <=> "check_params" \in rows

AuditInv == TypeOK /\ PlaceOK /\ SessionInv /\ ValidInv /\ RowsInv

\* The parts of a tool call.
LEMMA CallTypes ==
  ASSUME NEW c \in {NoCall} \cup Calls
  PROVE  /\ c.on \subseteq Params
         /\ c.to \in [Params -> Values \cup {Invalid}]
         /\ c.op = "reset" => \A p \in c.on : c.to[p] = Default
<1>1. NoCall.on = {} /\ NoCall.to = [p \in Params |-> Default] /\ NoCall.op = "none"
  BY DEF NoCall
<1>2. ASSUME NEW p \in Params, NEW v \in Values \cup {Invalid}
      PROVE  /\ SetCall(p, v).op = "set" /\ SetCall(p, v).on = {p}
             /\ SetCall(p, v).to = [NoCall.to EXCEPT ![p] = v]
  BY DEF SetCall, NoCall
<1>3. ASSUME NEW S \in Checks \cup {{p} : p \in Params}
      PROVE  /\ ResetCall(S).on = S /\ S \subseteq Params
             /\ ResetCall(S).to = NoCall.to
  <2>1. S \subseteq Params
    BY CallersAssumption
  <2> QED
    BY <2>1 DEF ResetCall, NoCall
<1>4. ExplainCall.on = {} /\ ExplainCall.to = NoCall.to
  BY DEF ExplainCall, NoCall
<1>5. \A b \in BOOLEAN : HistoryCall(b).on = {} /\ HistoryCall(b).to = NoCall.to
  BY DEF HistoryCall, NoCall
<1>6. \/ c = NoCall
      \/ \E p \in Params, v \in Values \cup {Invalid} : c = SetCall(p, v)
      \/ \E S \in Checks \cup {{p} : p \in Params} : c = ResetCall(S)
      \/ c = ExplainCall
      \/ \E b \in BOOLEAN : c = HistoryCall(b)
  BY DEF Calls
<1>7. CASE \E p \in Params, v \in Values \cup {Invalid} : c = SetCall(p, v)
  <2>1. PICK p \in Params, v \in Values \cup {Invalid} : c = SetCall(p, v)
    BY <1>7
  <2>2. c.op = "set" /\ c.on = {p} /\ c.to = [NoCall.to EXCEPT ![p] = v]
    BY <1>2, <2>1
  <2> QED
    BY <1>1, <2>2, StoreAssumption
<1>8. CASE c.on \subseteq Params /\ c.to = NoCall.to
  BY <1>1, <1>8, StoreAssumption
<1> QED
  BY <1>1, <1>3, <1>4, <1>5, <1>6, <1>7, <1>8

\* The rows an update changes, and the entries it adds.
Changed(S, new) ==
  {p \in S \cap Found : new[p] # value[p] /\ "check_params" \in triggers}

Added(S, new, by) ==
  [i \in 1..Cardinality(Changed(S, new)) |->
     Entry("check_params", RowOrder(Changed(S, new))[i], "U",
           value[RowOrder(Changed(S, new))[i]], new[RowOrder(Changed(S, new))[i]], by)]

\* An update by somebody who writes valid values.
LEMMA UpdateIs ==
  ASSUME NEW S, NEW new, NEW by \in Writers, AuditInv, UpdateParams(S, new, by),
         \A p \in S \cap Params : new[p] \in Values
  PROVE  /\ value' \in [Params -> Values \cup {Null}]
         /\ \A p \in Params :
              /\ p \in S \cap Found => value'[p] = new[p] /\ new[p] \in Values
              /\ p \notin S \cap Found => value'[p] = value[p]
         /\ Cardinality(Changed(S, new)) \in Nat
         /\ Added(S, new, by) \in [1..Cardinality(Changed(S, new)) -> LogEntries]
         /\ log' = log \o Added(S, new, by)
         /\ UNCHANGED <<tables, triggers, rows, who>>
<1> DEFINE C == Changed(S, new)
           n == Cardinality(C)
           o == RowOrder(C)
<1>1. C \subseteq Params /\ Found \subseteq Params /\ IsFiniteSet(C)
  <2>1. Found \subseteq Params
    BY DEF Found
  <2>2. C \in SUBSET Params
    BY <2>1 DEF Changed
  <2> QED
    BY <2>1, <2>2, StoreAssumption, FS_Subset
<1>2. n \in Nat /\ o \in [1..n -> C] /\ DOMAIN o = 1..n
  BY <1>1, RowOrderIs
<1>3. /\ value' = [p \in Params |-> IF p \in S \cap Found THEN new[p] ELSE value[p]]
      /\ log' = log \o Added(S, new, by)
      /\ UNCHANGED <<tables, triggers, rows, who>>
  BY <1>2 DEF UpdateParams, Changed, Added
<1>4. ASSUME NEW i \in 1..n
      PROVE  Entry("check_params", o[i], "U", value[o[i]], new[o[i]], by) \in LogEntries
  <2>1. /\ o[i] \in C /\ o[i] \in Params /\ o[i] \in S
        /\ "check_params" \in triggers
    BY <1>1, <1>2 DEF Changed
  <2>2. who \in Writers
    BY <2>1 DEF AuditInv, SessionInv, TypeOK
  <2>3. "check_params" \in AuditedTables
    BY Names
  <2> QED
    BY <2>1, <2>2, <2>3 DEF Entry, LogEntries, AuditInv, TypeOK
<1>5. Added(S, new, by) \in [1..n -> LogEntries]
  BY <1>4 DEF Added
<1>6. \A p \in Params :
        /\ p \in S \cap Found => value'[p] = new[p] /\ new[p] \in Values
        /\ p \notin S \cap Found => value'[p] = value[p]
  BY <1>3
<1>7. value' \in [Params -> Values \cup {Null}]
  BY <1>3 DEF AuditInv, TypeOK
<1> QED
  BY <1>2, <1>3, <1>5, <1>6, <1>7

\* The orders of all parameters, and what seeding them adds to the log.
LEMMA SeedsAre ==
  /\ Cardinality(Params) \in Nat
  /\ ParamRows \in [1..Cardinality(Params) -> Params]
  /\ DOMAIN ParamRows = 1..Cardinality(Params)
  /\ \A i, j \in 1..Cardinality(Params) : ParamRows[i] = ParamRows[j] => i = j
  /\ \A p \in Params : \E i \in 1..Cardinality(Params) : ParamRows[i] = p
<1>1. /\ Cardinality(Params) \in Nat
      /\ ParamRows \in [1..Cardinality(Params) -> Params]
      /\ \A i, j \in 1..Cardinality(Params) : ParamRows[i] = ParamRows[j] => i = j
      /\ \A p \in Params : \E i \in 1..Cardinality(Params) : ParamRows[i] = p
  BY StoreAssumption, RowOrderIs DEF ParamRows
<1> QED
  BY <1>1

LEMMA SeedEntriesType ==
  ASSUME NEW t \in SeedTables, AuditInv
  PROVE  \E n \in Nat : SeedEntries(t) \in [1..n -> LogEntries]
<1>1. CASE t \notin triggers
  <2>1. SeedEntries(t) \in [1..0 -> LogEntries]
    BY <1>1 DEF SeedEntries
  <2> QED
    BY <2>1
<1>2. CASE t \in triggers
  <2>1. t \in AuditedTables /\ who \in Writers
    BY <1>2 DEF AuditInv, SessionInv, TypeOK
  <2>2. \A of \in Params \cup AuditedTables :
          Entry(t, of, "I", Null, Default, "seed") \in LogEntries
    BY <2>1, StoreAssumption DEF Entry, LogEntries, Writers
  <2>3. CASE t = "check_params"
    <3>1. SeedEntries(t) =
            [i \in DOMAIN ParamRows |-> Entry(t, ParamRows[i], "I", Null, Default, "seed")]
      BY <1>2, <2>3 DEF SeedEntries
    <3>2. SeedEntries(t) \in [1..Cardinality(Params) -> LogEntries]
      BY <2>2, <3>1, SeedsAre
    <3> QED
      BY <3>2, SeedsAre
  <2>4. CASE t # "check_params"
    <3>1. SeedEntries(t) = <<Entry(t, t, "I", Null, Default, "seed")>>
      BY <1>2, <2>4 DEF SeedEntries
    <3>2. SeedEntries(t) \in [1..1 -> LogEntries]
      BY <2>1, <2>2, <3>1
    <3> QED
      BY <3>2
  <2> QED
    BY <2>3, <2>4
<1> QED
  BY <1>1, <1>2

\* The three files a process may find.
LEMMA AuditInit ==
  Init => AuditInv
<1> SUFFICES ASSUME Init PROVE AuditInv
  OBVIOUS
<1>1. /\ \A w \in Procs : pc[w] = "idle" /\ at[w] = 0 /\ back[w] = "idle"
      /\ PlaceOK
  BY DEF Init, CallersInit, PlaceOK, PcLabels
<1>2. /\ pc \in [Procs -> PcLabels]
      /\ at \in [Procs -> 0..Len(Script)]
      /\ back \in [Procs -> PcLabels]
      /\ call \in [Procs -> {NoCall} \cup Calls]
      /\ prev \in [Procs -> Writers \cup {Null}]
      /\ seen \in [Procs -> [Params -> Values \cup {Null}]]
      /\ reply \in [Procs -> SUBSET ({"error", "report"} \cup SeedTables \cup Writers)]
      /\ calls \in [Procs -> 0..MaxCalls]
  BY ScriptIs, CallersAssumption DEF Init, CallersInit, PcLabels
<1>3. /\ tables \subseteq Required
      /\ triggers \subseteq AuditedTables \cap tables
      /\ rows \subseteq SeedTables \cap tables
      /\ value \in [Params -> Values \cup {Null}]
      /\ who \in Writers \cup {Null}
      /\ RowsInv
      /\ "_audit_session" \in tables => who # Null
      /\ triggers # {} => who # Null
  BY Names, StoreAssumption DEF Init, NoFile, OldFile, SeededFile, RowsInv, Writers
<1>4. log \in Seq(LogEntries)
  <2>1. CASE SeededFile
    <3>1. log = [i \in 1..Cardinality(Params) |->
                   [table |-> "check_params", of |-> ParamRows[i], op |-> "I", old |-> Null,
                    new |-> Default, who |-> "seed", by |-> "seed"]]
      BY <2>1, SeedsAre DEF SeededFile
    <3>2. \A i \in 1..Cardinality(Params) :
            [table |-> "check_params", of |-> ParamRows[i], op |-> "I", old |-> Null,
             new |-> Default, who |-> "seed", by |-> "seed"] \in LogEntries
      BY SeedsAre, Names, StoreAssumption DEF LogEntries, Writers
    <3> QED
      BY <3>1, <3>2, SeedsAre, IsASeq
  <2>2. CASE NoFile \/ OldFile
    <3>1. log = <<>>
      BY <2>2 DEF NoFile, OldFile
    <3> QED
      BY <3>1
  <2> QED
    BY <2>1, <2>2 DEF Init
<1> QED
  BY <1>1, <1>2, <1>3, <1>4 DEF AuditInv, TypeOK, SessionInv, ValidInv, InBlock, BackLabels

\* The statements of init_db.
LEMMA StatementAudit ==
  ASSUME NEW w \in Procs, AuditInv, Statement(w)
  PROVE  AuditInv'
<1> DEFINE i == at[w]
<1>1. i \in 1..26 /\ pc[w] = "init"
  BY ScriptIs DEF Statement, AuditInv, PlaceOK
<1>2. /\ PlaceOK'
      /\ pc' \in [Procs -> PcLabels] /\ at' \in [Procs -> 0..Len(Script)]
  BY <1>1, ScriptIs DEF Statement, AuditInv, PlaceOK, Goto, PcLabels
<1>3. /\ UNCHANGED <<back, call, prev, seen, reply, calls>>
      /\ \A o \in Procs \ {w} : pc'[o] = pc[o] /\ at'[o] = at[o]
      /\ i # 26 => pc'[w] = "init" /\ at'[w] = i + 1
      /\ i = 26 => pc'[w] = back[w] /\ back[w] # "init"
  BY <1>1, ScriptIs DEF Statement, AuditInv, PlaceOK, Goto
<1>4. Execute(Script[i])
  BY DEF Statement
<1> DEFINE StoreOK == /\ tables \subseteq Required
                      /\ triggers \subseteq AuditedTables \cap tables
                      /\ rows \subseteq SeedTables \cap tables
                      /\ value \in [Params -> Values \cup {Null}]
                      /\ who \in Writers \cup {Null}
                      /\ log \in Seq(LogEntries)
                      /\ RowsInv
                      /\ "_audit_session" \in tables => who # Null
                      /\ triggers # {} => who # Null
<1>5. StoreOK /\ (i > 13 => who # Null)
  BY <1>1 DEF AuditInv, TypeOK, SessionInv
<1>6. StoreOK' /\ (who # Null => who' # Null) /\ (i = 13 => who' # Null)
  <2>1. CASE i \in 1..6
    <3>1. DropTable(Script[i].arg) /\ Script[i].arg # "_audit_session"
      BY <1>4, <2>1, ScriptSteps DEF Execute
    <3> QED
      BY <1>5, <2>1, <3>1 DEF DropTable, RowsInv
  <2>2. CASE i \in 7..14
    <3>1. /\ CreateTable(Script[i].arg) /\ Script[i].arg \in Required
          /\ i = 13 => Script[i].arg = "_audit_session"
      BY <1>4, <2>2, ScriptSteps, Names DEF Execute, CreateAt
    <3> QED
      BY <1>5, <2>2, <3>1, StoreAssumption DEF CreateTable, RowsInv, Writers
  <2>3. CASE i \in 15..17
    <3>1. CreateTriggers(Script[i].arg) /\ Script[i].arg \in AuditedTables
      BY <1>4, <2>3, ScriptSteps DEF Execute
    <3> QED
      BY <1>5, <2>3, <3>1 DEF CreateTriggers, RowsInv
  <2>4. CASE i = 18 \/ i = 25
    <3>1. SetWho("seed") \/ SetWho("system")
      BY <1>4, <2>4, ScriptIs DEF Execute
    <3> QED
      BY <1>5, <2>4, <3>1, StoreAssumption DEF SetWho, RowsInv, Writers
  <2>5. CASE i \in 19..24
    <3> DEFINE t == Script[i].arg
    <3>1. InsertSeed(t)
      BY <1>4, <2>5, ScriptIs DEF Execute
    <3>2. t \in SeedTables
      <4>1. t = Inserts[i - 18] /\ i - 18 \in 1..6
        BY <2>5, ScriptIs
      <4> QED
        BY <4>1, Names DEF Inserts
    <3>3. PICK n \in Nat : SeedEntries(t) \in [1..n -> LogEntries]
      BY <3>2, SeedEntriesType
    <3>4. log' \in Seq(LogEntries)
      BY <1>5, <3>1, <3>3, Appended DEF InsertSeed
    <3> HIDE DEF t
    <3> QED
      BY <1>5, <2>5, <3>1, <3>2, <3>4, StoreAssumption DEF InsertSeed, RowsInv
  <2>6. CASE i = 26
    BY <1>4, <1>5, <2>6, ScriptIs DEF Execute, CountSeed, store, RowsInv
  <2>7. i \in 1..6 \/ i \in 7..14 \/ i \in 15..17 \/ i = 18 \/ i \in 19..24 \/ i = 25 \/ i = 26
    BY <1>1
  <2> HIDE DEF i, StoreOK
  <2> QED
    BY <2>1, <2>2, <2>3, <2>4, <2>5, <2>6, <2>7
<1>7. TypeOK'
  BY <1>2, <1>3, <1>6 DEF AuditInv, TypeOK
<1>8. SessionInv'
  <2>1. \A o \in Procs : pc'[o] = "init" /\ at'[o] > 13 => who' # Null
    <3>1. /\ i > 13 => who # Null
          /\ who # Null => who' # Null
          /\ i = 13 => who' # Null
      BY <1>5, <1>6
    <3> QED
      BY <1>1, <1>3, <3>1 DEF AuditInv, SessionInv, PlaceOK
  <2>2. \A o \in Procs :
          /\ pc'[o] \in InBlock => prev'[o] # Null
          /\ pc'[o] = "init" /\ back'[o] = "read" => prev'[o] # Null
          /\ back'[o] \in BackLabels
    BY <1>1, <1>3 DEF AuditInv, SessionInv, InBlock, BackLabels
  <2> QED
    BY <1>6, <2>1, <2>2 DEF SessionInv
<1>9. ValidInv'
  <2>1. pc'[w] # "write"
    BY <1>1, <1>3 DEF AuditInv, SessionInv, BackLabels
  <2> QED
    BY <1>3, <2>1 DEF AuditInv, ValidInv
<1> QED
  BY <1>2, <1>6, <1>7, <1>8, <1>9 DEF AuditInv

\* What the types say of the file.
StoreTypes ==
  /\ tables \subseteq Required
  /\ triggers \subseteq AuditedTables \cap tables
  /\ rows \subseteq SeedTables \cap tables
  /\ value \in [Params -> Values \cup {Null}]
  /\ who \in Writers \cup {Null}
  /\ log \in Seq(LogEntries)
  /\ RowsInv
  /\ "_audit_session" \in tables => who # Null
  /\ triggers # {} => who # Null

\* A step of a process other than a statement of init_db: the rest of the
\* invariant follows from what the step does to the file and to the process.
LEMMA FrameAudit ==
  ASSUME NEW w \in Procs, AuditInv, StoreTypes', who # Null => who' # Null,
         NEW l \in PcLabels, Goto(w, l),
         l = "init" => at'[w] = 1 /\ (back'[w] = "read" => prev'[w] # Null),
         l \in InBlock => prev'[w] # Null,
         l = "write" => \A p \in call'[w].on : call'[w].to[p] \in Values,
         \A o \in Procs \ {w} : /\ at'[o] = at[o] /\ back'[o] = back[o]
                               /\ prev'[o] = prev[o] /\ call'[o] = call[o],
         at' \in [Procs -> 0..Len(Script)],
         back' \in [Procs -> PcLabels], back'[w] \in BackLabels,
         call' \in [Procs -> {NoCall} \cup Calls],
         prev' \in [Procs -> Writers \cup {Null}],
         seen' \in [Procs -> [Params -> Values \cup {Null}]],
         reply' \in [Procs -> SUBSET ({"error", "report"} \cup SeedTables \cup Writers)],
         calls' \in [Procs -> 0..MaxCalls]
  PROVE  AuditInv'
<1>1. /\ pc' \in [Procs -> PcLabels] /\ pc'[w] = l
      /\ \A o \in Procs \ {w} : pc'[o] = pc[o]
  BY DEF Goto, AuditInv, TypeOK
<1>2. TypeOK'
  BY <1>1 DEF TypeOK, StoreTypes
<1>3. \A o \in Procs : back'[o] \in BackLabels
  BY DEF AuditInv, SessionInv
<1>4. PlaceOK'
  <2>1. at' \in [Procs -> 0..26]
    BY ScriptIs
  <2>2. back' \in [Procs -> PcLabels \ {"init"}]
    BY <1>3 DEF BackLabels, PcLabels
  <2>3. ASSUME NEW o \in Procs, pc'[o] = "init"
        PROVE  at'[o] # 0
    BY <1>1, <2>3 DEF AuditInv, PlaceOK
  <2> QED
    BY <1>1, <2>1, <2>2, <2>3 DEF PlaceOK
<1>5. SessionInv'
  <2>1. ASSUME NEW o \in Procs
        PROVE  /\ pc'[o] = "init" /\ at'[o] > 13 => who' # Null
               /\ pc'[o] \in InBlock => prev'[o] # Null
               /\ pc'[o] = "init" /\ back'[o] = "read" => prev'[o] # Null
    <3>1. CASE o = w
      <4>1. ~(1 > 13)
        OBVIOUS
      <4> QED
        BY <1>1, <3>1, <4>1
    <3>2. CASE o # w
      BY <1>1, <3>2 DEF AuditInv, SessionInv
    <3> QED
      BY <3>1, <3>2
  <2> QED
    BY <1>3, <2>1 DEF SessionInv, StoreTypes
<1>6. ValidInv'
  BY <1>1 DEF AuditInv, ValidInv
<1> QED
  BY <1>2, <1>4, <1>5, <1>6 DEF AuditInv, StoreTypes

\* An update keeps the file well formed.
LEMMA UpdateTypes ==
  ASSUME NEW S, NEW new, NEW by \in Writers, AuditInv, UpdateParams(S, new, by),
         \A p \in S \cap Params : new[p] \in Values
  PROVE  StoreTypes' /\ UNCHANGED who
<1>1. /\ value' \in [Params -> Values \cup {Null}]
      /\ \A p \in Params :
           /\ p \in S \cap Found => value'[p] = new[p] /\ new[p] \in Values
           /\ p \notin S \cap Found => value'[p] = value[p]
      /\ Cardinality(Changed(S, new)) \in Nat
      /\ Added(S, new, by) \in [1..Cardinality(Changed(S, new)) -> LogEntries]
      /\ log' = log \o Added(S, new, by)
      /\ UNCHANGED <<tables, triggers, rows, who>>
  BY UpdateIs
<1>2. log' \in Seq(LogEntries)
  BY <1>1, Appended DEF AuditInv, TypeOK
<1>3. RowsInv'
  <2>1. \A p \in Found : value[p] # Null
    BY DEF Found
  <2> QED
    BY <1>1, <2>1, StoreAssumption DEF AuditInv, RowsInv
<1> QED
  BY <1>1, <1>2, <1>3 DEF StoreTypes, AuditInv, TypeOK, SessionInv

\* Steps that leave the file alone, or write the tag only.
LEMMA SameStore ==
  ASSUME AuditInv, UNCHANGED store
  PROVE  StoreTypes' /\ UNCHANGED who
BY DEF AuditInv, TypeOK, SessionInv, RowsInv, StoreTypes, store

LEMMA TagTypes ==
  ASSUME AuditInv, NEW tag \in Writers, SetWho(tag)
  PROVE  StoreTypes' /\ (who # Null => who' # Null)
<1>1. tag # Null
  BY StoreAssumption DEF Writers
<1> QED
  BY <1>1 DEF AuditInv, TypeOK, SessionInv, RowsInv, StoreTypes, SetWho

\* Beginnings of calls and the looks at the file before their steps.
LEMMA BeginAudit ==
  ASSUME NEW w \in Procs, AuditInv,
         Begin(w) \/ Ensure(w) \/ StartInit(w)
  PROVE  AuditInv'
<1>1. CASE Begin(w)
  <2>1. PICK c \in Calls : call' = [call EXCEPT ![w] = c] /\ Goto(w, FirstStep[c.op])
    BY <1>1 DEF Begin
  <2>2. FirstStep[c.op] \in {"enter", "open", "list"}
    BY CallKinds DEF FirstStep
  <2>3. StoreTypes' /\ UNCHANGED who
    BY <1>1, SameStore DEF Begin
  <2>4. calls' \in [Procs -> 0..MaxCalls]
    BY <1>1, CallersAssumption DEF Begin, AuditInv, TypeOK
  <2>5. /\ call' \in [Procs -> {NoCall} \cup Calls]
        /\ \A o \in Procs \ {w} : call'[o] = call[o]
    BY <2>1 DEF AuditInv, TypeOK
  <2>6. reply' \in [Procs -> SUBSET ({"error", "report"} \cup SeedTables \cup Writers)]
    BY <1>1 DEF Begin, AuditInv, TypeOK
  <2>7. /\ pc[w] # "init"
        /\ UNCHANGED <<at, back, prev, seen>>
        /\ at \in [Procs -> 0..Len(Script)]
        /\ back \in [Procs -> PcLabels] /\ back[w] \in BackLabels
        /\ prev \in [Procs -> Writers \cup {Null}]
        /\ seen \in [Procs -> [Params -> Values \cup {Null}]]
    BY <1>1 DEF Begin, AuditInv, TypeOK, SessionInv
  <2> DEFINE l == FirstStep[c.op]
  <2>8. l \in PcLabels /\ l # "init" /\ l # "write" /\ l \notin InBlock
    BY <2>2 DEF PcLabels, InBlock
  <2> HIDE DEF l
  <2> QED
    BY <2>1, <2>3, <2>4, <2>5, <2>6, <2>7, <2>8, FrameAudit DEF l
<1>2. CASE Ensure(w)
  <2>1. /\ StoreTypes' /\ UNCHANGED <<who, call, prev, seen, reply, calls>>
        /\ pc[w] \in DOMAIN After
    BY <1>2, SameStore DEF Ensure
  <2>2. /\ call' \in [Procs -> {NoCall} \cup Calls]
        /\ prev' \in [Procs -> Writers \cup {Null}]
        /\ seen' \in [Procs -> [Params -> Values \cup {Null}]]
        /\ reply' \in [Procs -> SUBSET ({"error", "report"} \cup SeedTables \cup Writers)]
        /\ calls' \in [Procs -> 0..MaxCalls]
    BY <2>1 DEF AuditInv, TypeOK
  <2>3. /\ pc[w] # "init"
        /\ After[pc[w]] \in {"readWho", "read", "checks", "fields", "rows"}
        /\ After[pc[w]] = "read" => prev[w] # Null
    BY <2>1 DEF After, AuditInv, SessionInv, InBlock
  <2>4. CASE Goto(w, After[pc[w]]) /\ UNCHANGED <<at, back>>
    <3> DEFINE l == After[pc[w]]
    <3>1. /\ l \in PcLabels /\ l # "init" /\ l # "write"
          /\ l \in InBlock => prev'[w] # Null
      BY <2>1, <2>3 DEF PcLabels, InBlock
    <3>2. /\ at' \in [Procs -> 0..Len(Script)]
          /\ back' \in [Procs -> PcLabels] /\ back'[w] \in BackLabels
      BY <2>4 DEF AuditInv, TypeOK, SessionInv
    <3> HIDE DEF l
    <3> QED
      BY <2>1, <2>2, <2>3, <2>4, <3>1, <3>2, FrameAudit DEF l
  <2>5. CASE /\ Goto(w, "init") /\ at' = [at EXCEPT ![w] = 1]
             /\ back' = [back EXCEPT ![w] = After[pc[w]]]
    <3>1. /\ at' \in [Procs -> 0..Len(Script)] /\ at'[w] = 1
          /\ back' \in [Procs -> PcLabels] /\ back'[w] = After[pc[w]]
          /\ back'[w] \in BackLabels
          /\ \A o \in Procs \ {w} : at'[o] = at[o] /\ back'[o] = back[o]
      BY <2>3, <2>5, ScriptIs DEF AuditInv, TypeOK, PcLabels, BackLabels
    <3>2. "init" \in PcLabels /\ "init" \notin InBlock /\ "init" # "write"
      BY DEF PcLabels, InBlock
    <3> QED
      BY <2>1, <2>2, <2>3, <2>5, <3>1, <3>2, FrameAudit
  <2> QED
    BY <1>2, <2>4, <2>5 DEF Ensure
<1>3. CASE StartInit(w)
  <2>1. StoreTypes' /\ UNCHANGED <<who, call, prev, seen, reply, calls>>
    BY <1>3, SameStore DEF StartInit
  <2>2. /\ call' \in [Procs -> {NoCall} \cup Calls]
        /\ prev' \in [Procs -> Writers \cup {Null}]
        /\ seen' \in [Procs -> [Params -> Values \cup {Null}]]
        /\ reply' \in [Procs -> SUBSET ({"error", "report"} \cup SeedTables \cup Writers)]
        /\ calls' \in [Procs -> 0..MaxCalls]
    BY <2>1 DEF AuditInv, TypeOK
  <2>3. /\ at' \in [Procs -> 0..Len(Script)] /\ at'[w] = 1
        /\ back' \in [Procs -> PcLabels] /\ back'[w] = "done"
        /\ back'[w] \in BackLabels
        /\ \A o \in Procs \ {w} : at'[o] = at[o] /\ back'[o] = back[o]
    <3>1. at' = [at EXCEPT ![w] = 1] /\ back' = [back EXCEPT ![w] = "done"]
      BY <1>3 DEF StartInit
    <3>2. 1 \in 0..Len(Script) /\ "done" \in PcLabels /\ "done" \in BackLabels
      BY ScriptIs DEF PcLabels, BackLabels
    <3> QED
      BY <3>1, <3>2 DEF AuditInv, TypeOK
  <2>4. "init" \in PcLabels /\ "init" \notin InBlock /\ "init" # "write"
    BY DEF PcLabels, InBlock
  <2>5. pc[w] # "init" /\ Goto(w, "init")
    BY <1>3 DEF StartInit
  <2> QED
    BY <2>1, <2>2, <2>3, <2>4, <2>5, FrameAudit
<1> QED
  BY <1>1, <1>2, <1>3

\* A statement that fails ends the call, inside an audit_writer block by way
\* of its finally.
LEMMA FailureAudit ==
  ASSUME NEW w \in Procs, AuditInv, StatementFails(w)
  PROVE  AuditInv'
<1> DEFINE l == OnError(back[w])
<1>1. /\ pc[w] = "init" /\ Goto(w, l)
      /\ at' = [at EXCEPT ![w] = 0]
      /\ UNCHANGED <<store, back, call, prev, seen, reply, calls>>
  BY DEF StatementFails
<1>2. StoreTypes' /\ UNCHANGED who
  BY <1>1, SameStore
<1>3. l \in {"exit", "done", "idle"} /\ (l = "exit" => back[w] = "read")
  BY DEF AuditInv, SessionInv, BackLabels, OnError
<1>4. /\ l \in PcLabels /\ l # "init" /\ l # "write"
      /\ l \in InBlock => prev'[w] # Null
  BY <1>1, <1>3 DEF PcLabels, InBlock, AuditInv, SessionInv
<1>5. /\ at' \in [Procs -> 0..Len(Script)]
      /\ \A o \in Procs \ {w} : at'[o] = at[o]
  BY <1>1, ScriptIs DEF AuditInv, TypeOK
<1>6. /\ back' \in [Procs -> PcLabels] /\ back'[w] \in BackLabels
      /\ call' \in [Procs -> {NoCall} \cup Calls]
      /\ prev' \in [Procs -> Writers \cup {Null}]
      /\ seen' \in [Procs -> [Params -> Values \cup {Null}]]
      /\ reply' \in [Procs -> SUBSET ({"error", "report"} \cup SeedTables \cup Writers)]
      /\ calls' \in [Procs -> 0..MaxCalls]
  BY <1>1 DEF AuditInv, TypeOK, SessionInv
<1> HIDE DEF l
<1> QED
  BY <1>1, <1>2, <1>4, <1>5, <1>6, FrameAudit

\* The steps of set and reset calls.
LEMMA WriterAudit ==
  ASSUME NEW w \in Procs, AuditInv,
         ReadWho(w) \/ TagWho(w) \/ ReadParams(w) \/ WriteParams(w) \/ Exit(w)
  PROVE  AuditInv'
<1>1. /\ UNCHANGED <<at, back, call, reply, calls>>
      /\ at \in [Procs -> 0..Len(Script)]
      /\ back \in [Procs -> PcLabels] /\ back[w] \in BackLabels
      /\ call \in [Procs -> {NoCall} \cup Calls]
      /\ prev \in [Procs -> Writers \cup {Null}]
      /\ seen \in [Procs -> [Params -> Values \cup {Null}]]
      /\ reply \in [Procs -> SUBSET ({"error", "report"} \cup SeedTables \cup Writers)]
      /\ calls \in [Procs -> 0..MaxCalls]
  BY DEF AuditInv, TypeOK, SessionInv, ReadWho, TagWho, ReadParams, WriteParams, Exit
<1>2. {"idle", "tag", "inner", "write", "exit"} \subseteq PcLabels
  BY DEF PcLabels
<1>3. CASE ReadWho(w)
  <2> DEFINE l == IF who = Null THEN "idle" ELSE "tag"
  <2>1. StoreTypes' /\ UNCHANGED who
    BY <1>3, SameStore DEF ReadWho
  <2>2. /\ Goto(w, l)
        /\ prev' \in [Procs -> Writers \cup {Null}]
        /\ prev'[w] = who
        /\ \A o \in Procs \ {w} : prev'[o] = prev[o]
        /\ UNCHANGED seen
    BY <1>3 DEF ReadWho, AuditInv, TypeOK
  <2>3. /\ l \in PcLabels /\ l # "init" /\ l # "write"
        /\ l \in InBlock => prev'[w] # Null
    BY <1>2, <2>2 DEF InBlock
  <2> HIDE DEF l
  <2> QED
    BY <1>1, <2>1, <2>2, <2>3, FrameAudit
<1>4. CASE TagWho(w)
  <2>1. StoreTypes' /\ (who # Null => who' # Null)
    BY <1>4, TagTypes DEF TagWho, Writers
  <2>2. Goto(w, "inner") /\ UNCHANGED <<prev, seen>> /\ prev[w] # Null
    BY <1>4 DEF TagWho, AuditInv, SessionInv, InBlock
  <2> QED
    BY <1>1, <1>2, <2>1, <2>2, FrameAudit
<1>5. CASE ReadParams(w)
  <2>1. StoreTypes' /\ UNCHANGED who /\ UNCHANGED prev /\ prev[w] # Null
    BY <1>5, SameStore DEF ReadParams, AuditInv, SessionInv, InBlock
  <2>2. seen' \in [Procs -> [Params -> Values \cup {Null}]]
    <3> DEFINE row(f) == [p \in Params |-> IF p \in f THEN value[p] ELSE Null]
    <3>1. \A f \in SUBSET Params : row(f) \in [Params -> Values \cup {Null}]
      BY DEF AuditInv, TypeOK
    <3>2. \/ seen' = [seen EXCEPT ![w] = row(call[w].on \cap Found)]
          \/ seen' = seen
      BY <1>5 DEF ReadParams
    <3>3. call[w].on \cap Found \in SUBSET Params
      BY DEF Found
    <3> HIDE DEF row
    <3> QED
      BY <1>1, <3>1, <3>2, <3>3
  <2>3. CASE Goto(w, "write") /\ \A p \in call[w].on : call[w].to[p] \in Values
    BY <1>1, <1>2, <2>1, <2>2, <2>3, FrameAudit
  <2>4. CASE Goto(w, "exit")
    BY <1>1, <1>2, <2>1, <2>2, <2>4, FrameAudit
  <2> QED
    BY <1>5, <2>3, <2>4 DEF ReadParams
<1>6. CASE WriteParams(w)
  <2>1. Goto(w, "exit") /\ UNCHANGED <<prev, seen>> /\ prev[w] # Null /\ pc[w] = "write"
    BY <1>6 DEF WriteParams, AuditInv, SessionInv, InBlock
  <2>2. CASE UpdateParams(ToWrite(w), call[w].to, "llm")
    <3>1. \A p \in ToWrite(w) \cap Params : call[w].to[p] \in Values
      BY <2>1 DEF ToWrite, AuditInv, ValidInv
    <3>2. StoreTypes' /\ UNCHANGED who
      BY <2>2, <3>1, UpdateTypes DEF Writers
    <3> QED
      BY <1>1, <1>2, <2>1, <3>2, FrameAudit
  <2>3. CASE UNCHANGED store
    <3>1. StoreTypes' /\ UNCHANGED who
      BY <2>3, SameStore
    <3> QED
      BY <1>1, <1>2, <2>1, <3>1, FrameAudit
  <2> QED
    BY <1>6, <2>2, <2>3 DEF WriteParams
<1>7. CASE Exit(w)
  <2>1. prev[w] \in Writers
    BY <1>7 DEF Exit, AuditInv, SessionInv, TypeOK, InBlock
  <2>2. StoreTypes' /\ (who # Null => who' # Null)
    BY <1>7, <2>1, TagTypes DEF Exit
  <2>3. Goto(w, "idle") /\ UNCHANGED <<prev, seen>> /\ "idle" \notin InBlock
    BY <1>7 DEF Exit, InBlock
  <2> QED
    BY <1>1, <1>2, <2>2, <2>3, FrameAudit
<1> QED
  BY <1>3, <1>4, <1>5, <1>6, <1>7

\* The writers a history shows are writers.
LEMMA HistoryType ==
  ASSUME AuditInv
  PROVE  History(TRUE) \subseteq Writers
<1>1. \A i \in DOMAIN log : log[i] \in LogEntries
  BY DEF AuditInv, TypeOK
<1>2. \A e \in LogEntries : e.who \in Writers
  BY DEF LogEntries
<1> QED
  BY <1>1, <1>2 DEF History

\* The steps of explain and history calls.
LEMMA ReaderAudit ==
  ASSUME NEW w \in Procs, AuditInv,
         LoadChecks(w) \/ LoadParams(w) \/ LoadFields(w) \/ ShowHistory(w)
  PROVE  AuditInv'
<1>1. /\ UNCHANGED <<store, at, back, call, prev, seen, calls>>
      /\ at \in [Procs -> 0..Len(Script)]
      /\ back \in [Procs -> PcLabels] /\ back[w] \in BackLabels
      /\ call \in [Procs -> {NoCall} \cup Calls]
      /\ prev \in [Procs -> Writers \cup {Null}]
      /\ seen \in [Procs -> [Params -> Values \cup {Null}]]
      /\ calls \in [Procs -> 0..MaxCalls]
  BY DEF AuditInv, TypeOK, SessionInv, LoadChecks, LoadParams, LoadFields, ShowHistory
<1>2. StoreTypes' /\ UNCHANGED who
  BY <1>1, SameStore
<1>3. PICK l \in {"idle", "params", "reopen"} : Goto(w, l)
  BY DEF LoadChecks, LoadParams, LoadFields, ShowHistory
<1>4. l \in PcLabels /\ l # "init" /\ l # "write" /\ l \notin InBlock
  BY DEF PcLabels, InBlock
<1> DEFINE R == {"error", "report"} \cup SeedTables \cup Writers
<1>5. reply' \in [Procs -> SUBSET R]
  <2>1. reply \in [Procs -> SUBSET R] /\ {"checks", "check_params", "plan_fields"} \subseteq R
    BY Names DEF AuditInv, TypeOK
  <2>2. \E r \in SUBSET R : reply' = [reply EXCEPT ![w] = r]
    <3>1. CASE LoadChecks(w)
      <4>1. {"error"} \in SUBSET R /\ {"checks"} \in SUBSET R /\ {} \in SUBSET R
        BY <2>1
      <4> QED
        BY <3>1, <4>1 DEF LoadChecks
    <3>2. CASE LoadParams(w)
      <4>1. {"error"} \in SUBSET R /\ reply[w] \cup {"check_params"} \in SUBSET R
        BY <2>1
      <4> QED
        BY <3>2, <4>1 DEF LoadParams
    <3>3. CASE LoadFields(w)
      <4>1. /\ {"error"} \in SUBSET R
            /\ reply[w] \cup {"report"} \cup ({"plan_fields"} \cap rows) \in SUBSET R
        BY <2>1
      <4> QED
        BY <3>3, <4>1 DEF LoadFields
    <3>4. CASE ShowHistory(w)
      <4>1. History(TRUE) \in SUBSET R
        BY HistoryType
      <4> QED
        BY <3>4, <4>1 DEF ShowHistory
    <3> QED
      BY <3>1, <3>2, <3>3, <3>4
  <2> HIDE DEF R
  <2> QED
    BY <2>1, <2>2
<1> QED
  BY <1>1, <1>2, <1>3, <1>4, <1>5, FrameAudit

\* AuditInv is inductive, whatever is killed and however the steps interleave.
LEMMA AuditInductive ==
  AuditInv /\ [Next]_vars => AuditInv'
<1> SUFFICES ASSUME AuditInv, [Next]_vars
             PROVE  AuditInv'
  OBVIOUS
<1>1. CASE Next
  <2>1. PICK w \in Procs :
          \/ ServerStep(w) \/ Ensure(w)
          \/ Statement(w) \/ StatementFails(w)
          \/ StartInit(w) \/ Edit(w) \/ Crash(w)
    BY <1>1 DEF Next
  <2>2. /\ at \in [Procs -> 0..Len(Script)]
        /\ back \in [Procs -> PcLabels] /\ back[w] \in BackLabels
        /\ call \in [Procs -> {NoCall} \cup Calls]
        /\ prev \in [Procs -> Writers \cup {Null}]
        /\ seen \in [Procs -> [Params -> Values \cup {Null}]]
        /\ reply \in [Procs -> SUBSET ({"error", "report"} \cup SeedTables \cup Writers)]
        /\ pc \in [Procs -> PcLabels]
        /\ calls \in [Procs -> 0..MaxCalls]
    BY DEF AuditInv, TypeOK, SessionInv
  <2>3. CASE Edit(w)
    <3>1. PICK p \in Found, v \in Values : UpdateParams({p}, [q \in Params |-> v], "system")
      BY <2>3 DEF Edit
    <3>2. \A q \in {p} \cap Params : [r \in Params |-> v][q] \in Values
      OBVIOUS
    <3>3. StoreTypes' /\ UNCHANGED who
      BY <3>1, <3>2, UpdateTypes DEF Writers
    <3>4. calls' \in [Procs -> 0..MaxCalls]
      BY <2>2, <2>3, CallersAssumption DEF Edit
    <3>5. UNCHANGED <<pc, at, back, call, prev, seen, reply>>
      BY <2>3 DEF Edit
    <3>6. TypeOK' /\ RowsInv'
      BY <2>2, <3>3, <3>4, <3>5 DEF TypeOK, StoreTypes
    <3> QED
      BY <3>3, <3>5, <3>6 DEF AuditInv, PlaceOK, SessionInv, ValidInv, StoreTypes
  <2>4. CASE Crash(w)
    <3>1. Goto(w, "dead") /\ UNCHANGED <<store, at, back, call, prev, seen, reply, calls>>
      BY <2>4 DEF Crash
    <3>2. StoreTypes' /\ UNCHANGED who
      BY <3>1, SameStore
    <3>3. "dead" \in PcLabels /\ "dead" \notin InBlock
      BY DEF PcLabels, InBlock
    <3> QED
      BY <2>2, <3>1, <3>2, <3>3, FrameAudit
  <2> QED
    BY <2>1, <2>3, <2>4, BeginAudit, WriterAudit, ReaderAudit, StatementAudit, FailureAudit
       DEF ServerStep
<1>2. CASE UNCHANGED vars
  <2>1. UNCHANGED store /\ UNCHANGED callers
    BY <1>2 DEF vars
  <2>2. StoreTypes' /\ UNCHANGED who
    BY <2>1, SameStore
  <2> QED
    BY <2>1, <2>2 DEF callers, StoreTypes, AuditInv, TypeOK, PlaceOK, SessionInv, ValidInv
<1> QED
  BY <1>1, <1>2

\* The registry, its log and the processes are of their types: in particular
\* every entry of the log names who wrote it, and no update stores a value
\* that is not valid.
THEOREM AuditTypes == Spec => []TypeOK
<1>1. AuditInv => TypeOK
  BY DEF AuditInv
<1> QED
  BY <1>1, AuditInit, AuditInductive, PTL DEF Spec

-----------------------------------------------------------------------------
(* The log replays the parameters.                                         *)

\* Entry i of the log L is the last one about p before entry j.
LastOf(L, p, i, j) ==
  /\ i < j /\ L[i].of = p
  /\ \A k \in i + 1 .. j - 1 : L[k].of # p

\* The entries f of one statement are about each parameter once if they update
\* it, from the value it has; the last one about a parameter has its new value.
StartsRight(n, f) ==
  \A p \in Params, k \in 1..n : f[k].of = p /\ f[k].op = "U" =>
    /\ \A m \in 1..k-1 : f[m].of # p
    /\ f[k].old = value[p]
    /\ value[p] # Null /\ "check_params" \in triggers

EndsRight(n, f) ==
  \A p \in Params : value'[p] # Null /\ "check_params" \in triggers' =>
    \/ /\ \A k \in 1..n : f[k].of # p
       /\ value'[p] = value[p] /\ "check_params" \in triggers
    \/ \E k \in 1..n : /\ f[k].of = p /\ f[k].new = value'[p]
                      /\ \A m \in k+1..n : f[m].of # p

\* A step that adds such entries.
LEMMA LogStep ==
  ASSUME AuditInv, LogReplays,
         NEW n \in Nat, NEW f \in [1..n -> LogEntries], log' = log \o f,
         StartsRight(n, f), EndsRight(n, f)
  PROVE  LogReplays'
<1> DEFINE N == log \o f
           len == Len(log)
<1>1. /\ log \in Seq(LogEntries) /\ len \in Nat
      /\ N \in Seq(LogEntries) /\ Len(N) = len + n
      /\ \A i \in 1..len : N[i] = log[i]
      /\ \A k \in 1..n : N[len + k] = f[k]
  BY Appended DEF AuditInv, TypeOK
<1>2. DOMAIN log = 1..len /\ DOMAIN N = 1..len + n
  BY <1>1
<1>3. /\ log' = N
      /\ \A q, i, j : LastBefore(q, i, j) <=> LastOf(log, q, i, j)
  BY DEF LastBefore, LastOf
<1> HIDE DEF N, len
<1>4. SUFFICES ASSUME NEW p \in Params
      PROVE  /\ value'[p] # Null /\ "check_params" \in triggers'
                  => \E i \in DOMAIN N : LastOf(N, p, i, Len(N) + 1) /\ N[i].new = value'[p]
             /\ \A j \in DOMAIN N : N[j].of = p /\ N[j].op = "U"
                  => \E i \in DOMAIN N : LastOf(N, p, i, j) /\ N[i].new = N[j].old
  BY <1>3 DEF LogReplays, LastBefore, LastOf
<1>5. /\ value[p] # Null /\ "check_params" \in triggers
           => \E i \in 1..len : LastOf(log, p, i, len + 1) /\ log[i].new = value[p]
      /\ \A j \in 1..len : log[j].of = p /\ log[j].op = "U"
           => \E i \in 1..len : LastOf(log, p, i, j) /\ log[i].new = log[j].old
  BY <1>2, <1>3 DEF LogReplays, len
\* Entries that were there before.
<1>6. ASSUME NEW i \in 1..len, NEW j \in 1..len + 1, LastOf(log, p, i, j)
      PROVE  LastOf(N, p, i, j) /\ N[i].new = log[i].new
  <2>1. \A k \in i + 1 .. j - 1 : k \in 1..len
    BY <1>1
  <2>2. \A k \in i + 1 .. j - 1 : N[k].of # p
    BY <1>1, <1>6, <2>1 DEF LastOf
  <2> QED
    BY <1>1, <1>6, <2>2 DEF LastOf
\* The last entry of all before the step, and new entries about others.
<1>7. ASSUME NEW i \in 1..len, LastOf(log, p, i, len + 1),
             NEW m \in 1..n + 1, \A k \in 1..m-1 : f[k].of # p
      PROVE  LastOf(N, p, i, len + m) /\ N[i].new = log[i].new
  <2>1. i < len + m /\ N[i].of = p
    BY <1>1, <1>7 DEF LastOf
  <2>2. ASSUME NEW k \in i + 1 .. len + m - 1 PROVE N[k].of # p
    <3>1. CASE k <= len
      <4>1. k \in 1..len /\ k \in i + 1 .. (len + 1) - 1
        BY <1>1, <3>1
      <4>2. log[k].of # p
        BY <1>7, <4>1 DEF LastOf
      <4> QED
        BY <1>1, <4>1, <4>2
    <3>2. CASE k > len
      <4>1. PICK q \in 1..n : k = len + q /\ q \in 1..m-1
        <5>1. k - len \in 1..n /\ k = len + (k - len) /\ k - len \in 1..m-1
          BY <1>1, <3>2
        <5> QED
          BY <5>1
      <4>2. N[len + q] = f[q] /\ f[q].of # p
        BY <1>1, <1>7, <4>1
      <4> QED
        BY <4>1, <4>2
    <3> QED
      BY <1>1, <3>1, <3>2
  <2> QED
    BY <1>1, <2>1, <2>2 DEF LastOf
<1>8. ASSUME value'[p] # Null, "check_params" \in triggers'
      PROVE  \E i \in DOMAIN N : LastOf(N, p, i, Len(N) + 1) /\ N[i].new = value'[p]
  <2> USE DEF EndsRight
  <2>1. CASE /\ \A k \in 1..n : f[k].of # p
             /\ value'[p] = value[p] /\ "check_params" \in triggers
    <3>1. PICK i \in 1..len : LastOf(log, p, i, len + 1) /\ log[i].new = value[p]
      BY <1>5, <1>8, <2>1
    <3>2. n + 1 \in 1..n + 1 /\ (n + 1) - 1 = n /\ len + (n + 1) = Len(N) + 1
      BY <1>1
    <3>3. LastOf(N, p, i, Len(N) + 1) /\ N[i].new = log[i].new
      BY <1>7, <2>1, <3>1, <3>2
    <3>4. i \in DOMAIN N
      BY <1>1, <1>2
    <3> QED
      BY <2>1, <3>1, <3>3, <3>4
  <2>2. CASE \E k \in 1..n : /\ f[k].of = p /\ f[k].new = value'[p]
                            /\ \A m \in k+1..n : f[m].of # p
    <3>1. PICK k \in 1..n : /\ f[k].of = p /\ f[k].new = value'[p]
                            /\ \A m \in k+1..n : f[m].of # p
      BY <2>2
    <3>2. len + k \in DOMAIN N /\ N[len + k] = f[k] /\ len + k < Len(N) + 1
      BY <1>1, <1>2
    <3>3. ASSUME NEW m \in len + k + 1 .. (Len(N) + 1) - 1 PROVE N[m].of # p
      <4>1. PICK q \in 1..n : m = len + q /\ q \in k + 1 .. n
        <5>1. m - len \in 1..n /\ m = len + (m - len) /\ m - len \in k + 1 .. n
          BY <1>1
        <5> QED
          BY <5>1
      <4>2. N[len + q] = f[q] /\ f[q].of # p
        BY <1>1, <3>1, <4>1
      <4> QED
        BY <4>1, <4>2
    <3> QED
      BY <3>1, <3>2, <3>3 DEF LastOf
  <2> QED
    BY <1>8, <2>1, <2>2
<1>9. ASSUME NEW j \in DOMAIN N, N[j].of = p, N[j].op = "U"
      PROVE  \E i \in DOMAIN N : LastOf(N, p, i, j) /\ N[i].new = N[j].old
  <2>1. CASE j <= len
    <3>1. j \in 1..len /\ N[j] = log[j]
      BY <1>1, <1>2, <2>1
    <3>2. PICK i \in 1..len : LastOf(log, p, i, j) /\ log[i].new = log[j].old
      BY <1>5, <1>9, <3>1
    <3>3. i \in DOMAIN N /\ j \in 1..len + 1
      BY <1>1, <1>2, <3>1
    <3> QED
      BY <1>6, <3>1, <3>2, <3>3
  <2>2. CASE j > len
    <3>1. /\ j - len \in 1..n /\ len + (j - len) = j /\ N[j] = f[j - len]
          /\ j - len \in 1..n + 1
      <4>1. j - len \in 1..n /\ len + (j - len) = j
        BY <1>1, <1>2, <2>2
      <4> QED
        BY <1>1, <4>1
    <3>2. /\ \A m \in 1..(j - len)-1 : f[m].of # p
          /\ f[j - len].old = value[p]
          /\ value[p] # Null /\ "check_params" \in triggers
      BY <1>9, <3>1 DEF StartsRight
    <3>3. PICK i \in 1..len : LastOf(log, p, i, len + 1) /\ log[i].new = value[p]
      BY <1>5, <3>2
    <3>4. LastOf(N, p, i, j) /\ N[i].new = log[i].new
      BY <1>7, <3>1, <3>2, <3>3
    <3>5. i \in DOMAIN N
      BY <1>1, <1>2
    <3> QED
      BY <3>1, <3>2, <3>3, <3>4, <3>5
  <2> QED
    BY <1>1, <1>2, <2>1, <2>2
<1> QED
  BY <1>8, <1>9

\* Steps that add nothing.
LEMMA LogSame ==
  ASSUME AuditInv, LogReplays, UNCHANGED log,
         \A p \in Params : value'[p] # Null /\ "check_params" \in triggers' =>
           value'[p] = value[p] /\ "check_params" \in triggers
  PROVE  LogReplays'
BY DEF LogReplays, LastBefore

\* The update trigger logs each row that changes once.
LEMMA LogUpdate ==
  ASSUME NEW S, NEW new, NEW by \in Writers, AuditInv, LogReplays,
         UpdateParams(S, new, by),
         \A p \in S \cap Params : new[p] \in Values
  PROVE  LogReplays'
<1> DEFINE C == Changed(S, new)
           n == Cardinality(C)
           o == RowOrder(C)
           f == Added(S, new, by)
<1>1. /\ \A p \in Params :
           /\ p \in S \cap Found => value'[p] = new[p] /\ new[p] \in Values
           /\ p \notin S \cap Found => value'[p] = value[p]
      /\ n \in Nat /\ f \in [1..n -> LogEntries]
      /\ log' = log \o f
      /\ UNCHANGED <<tables, triggers, rows, who>>
  BY UpdateIs
<1>2. C \subseteq Params /\ C \subseteq Found /\ IsFiniteSet(C)
  <2>1. C \in SUBSET Params /\ C \subseteq Found
    BY DEF Found, Changed
  <2> QED
    BY <2>1, StoreAssumption, FS_Subset
<1>3. /\ o \in [1..n -> C]
      /\ \A i, j \in 1..n : o[i] = o[j] => i = j
      /\ \A p \in C : \E i \in 1..n : o[i] = p
  BY <1>2, RowOrderIs
<1>4. \A k \in 1..n : f[k].of = o[k] /\ f[k].old = value[o[k]] /\ f[k].new = new[o[k]]
  BY DEF Added, Entry
<1>5. \A p \in C : /\ value[p] # Null /\ "check_params" \in triggers
                   /\ p \in S \cap Found
  BY <1>2 DEF Changed, Found
<1>6. \A p \in Params : p \notin C /\ "check_params" \in triggers => value'[p] = value[p]
  BY <1>1 DEF Changed
<1> HIDE DEF C, n, o, f
<1>7. ASSUME NEW p \in Params, NEW k \in 1..n, f[k].of = p, f[k].op = "U"
      PROVE  /\ \A m \in 1..k-1 : f[m].of # p
             /\ f[k].old = value[p]
             /\ value[p] # Null /\ "check_params" \in triggers
  <2>1. p = o[k] /\ p \in C
    BY <1>3, <1>4, <1>7
  <2>2. ASSUME NEW m \in 1..k-1 PROVE f[m].of # p
    <3>1. m \in 1..n /\ m # k
      BY <1>1
    <3> QED
      BY <1>3, <1>4, <2>1, <3>1
  <2> QED
    BY <1>4, <1>5, <2>1, <2>2
<1>8. ASSUME NEW p \in Params, value'[p] # Null, "check_params" \in triggers'
      PROVE  \/ /\ \A k \in 1..n : f[k].of # p
                /\ value'[p] = value[p] /\ "check_params" \in triggers
             \/ \E k \in 1..n : /\ f[k].of = p /\ f[k].new = value'[p]
                               /\ \A m \in k+1..n : f[m].of # p
  <2>1. CASE p \in C
    <3>1. PICK k \in 1..n : o[k] = p
      BY <1>3, <2>1
    <3>2. f[k].of = p /\ f[k].new = value'[p]
      BY <1>1, <1>4, <1>5, <2>1, <3>1
    <3>3. ASSUME NEW m \in k+1..n PROVE f[m].of # p
      <4>1. m \in 1..n /\ m # k
        BY <1>1
      <4> QED
        BY <1>3, <1>4, <3>1, <4>1
    <3> QED
      BY <3>2, <3>3
  <2>2. CASE p \notin C
    BY <1>1, <1>3, <1>4, <1>6, <1>8, <2>2
  <2> QED
    BY <2>1, <2>2
<1>9. StartsRight(n, f) /\ EndsRight(n, f)
  BY <1>7, <1>8 DEF StartsRight, EndsRight
<1> QED
  BY <1>1, <1>9, LogStep

\* The insert triggers log every parameter once, with its default.
LEMMA LogInsert ==
  ASSUME NEW t \in SeedTables, AuditInv, LogReplays, InsertSeed(t)
  PROVE  LogReplays'
<1>1. /\ log' = log \o SeedEntries(t)
      /\ UNCHANGED triggers
      /\ value' = IF t = "check_params" THEN [p \in Params |-> Default] ELSE value
  BY DEF InsertSeed
<1>2. PICK l \in Nat : SeedEntries(t) \in [1..l -> LogEntries]
  BY SeedEntriesType
<1>3. CASE t \notin triggers
  <2>1. SeedEntries(t) = <<>> /\ log \in Seq(LogEntries)
    BY <1>3 DEF SeedEntries, AuditInv, TypeOK
  <2>2. UNCHANGED log
    BY <1>1, <2>1
  <2> QED
    BY <1>1, <1>3, <2>2, LogSame
<1>4. CASE t \in triggers /\ t = "check_params"
  <2> DEFINE n == Cardinality(Params)
             f == SeedEntries(t)
  <2>1. f = [i \in 1..n |-> Entry(t, ParamRows[i], "I", Null, Default, "seed")]
    BY <1>4, SeedsAre DEF SeedEntries
  <2>2. \A k \in 1..n : f[k].of = ParamRows[k] /\ f[k].op = "I" /\ f[k].new = Default
    BY <2>1 DEF Entry
  <2>3. n \in Nat /\ f \in [1..n -> LogEntries]
    <3>1. DOMAIN f = 1..n /\ DOMAIN f = 1..l
      BY <1>2, <2>1
    <3> QED
      BY <1>2, <3>1, SeedsAre
  <2> HIDE DEF n, f
  <2>4. ASSUME NEW p \in Params
        PROVE  \E k \in 1..n : /\ f[k].of = p /\ f[k].new = value'[p]
                             /\ \A m \in k+1..n : f[m].of # p
    <3>1. PICK k \in 1..n : ParamRows[k] = p
      BY SeedsAre DEF n
    <3>2. ASSUME NEW m \in k+1..n PROVE f[m].of # p
      <4>1. m \in 1..n /\ m # k
        BY <2>3
      <4> QED
        BY <2>2, <3>1, <4>1, SeedsAre DEF n
    <3> QED
      BY <1>1, <1>4, <2>2, <3>1, <3>2
  <2>5. log' = log \o f /\ \A p \in Params, k \in 1..n : f[k].op # "U"
    BY <1>1, <2>2 DEF f
  <2>6. StartsRight(n, f) /\ EndsRight(n, f)
    BY <2>4, <2>5 DEF StartsRight, EndsRight
  <2> QED
    BY <2>3, <2>5, <2>6, LogStep
<1>5. CASE t \in triggers /\ t # "check_params"
  <2> DEFINE f == SeedEntries(t)
  <2>1. f = <<Entry(t, t, "I", Null, Default, "seed")>>
    BY <1>5 DEF SeedEntries
  <2>2. f[1].of = t /\ f[1].op = "I"
    BY <2>1 DEF Entry
  <2>3. t \notin Params
    BY <1>5, Names, StoreAssumption DEF AuditInv, TypeOK
  <2>4. f \in [1..1 -> LogEntries]
    <3>1. DOMAIN f = 1..1 /\ DOMAIN f = 1..l
      BY <1>2, <2>1
    <3> QED
      BY <1>2, <3>1
  <2> HIDE DEF f
  <2>5. \A p \in Params, k \in 1..1 : f[k].of # p
    BY <2>2, <2>3
  <2>6. log' = log \o f
    BY <1>1 DEF f
  <2>7. StartsRight(1, f) /\ EndsRight(1, f)
    BY <1>1, <1>5, <2>5 DEF StartsRight, EndsRight
  <2> QED
    BY <2>4, <2>6, <2>7, LogStep
<1> QED
  BY <1>3, <1>4, <1>5

\* A step that neither rebuilds the file nor writes parameters.
LEMMA LogOther ==
  ASSUME NEW w \in Procs, AuditInv, LogReplays,
         \/ Begin(w) \/ ReadWho(w) \/ TagWho(w) \/ ReadParams(w) \/ Exit(w)
         \/ LoadChecks(w) \/ LoadParams(w) \/ LoadFields(w) \/ ShowHistory(w)
         \/ Ensure(w) \/ StatementFails(w) \/ StartInit(w) \/ Crash(w)
  PROVE  LogReplays' /\ UNCHANGED <<tables, triggers>>
<1>1. UNCHANGED <<tables, triggers, value, log>>
  BY DEF Begin, ReadWho, TagWho, SetWho, ReadParams, Exit, LoadChecks, LoadParams, LoadFields,
     ShowHistory, Ensure, StatementFails, StartInit, Crash, store
<1> QED
  BY <1>1, LogSame

\* A step that writes parameters.
LEMMA LogWrite ==
  ASSUME NEW w \in Procs, AuditInv, LogReplays, WriteParams(w) \/ Edit(w)
  PROVE  LogReplays' /\ UNCHANGED <<tables, triggers>>
<1>1. CASE WriteParams(w)
  <2>1. CASE UpdateParams(ToWrite(w), call[w].to, "llm")
    <3>1. \A p \in ToWrite(w) \cap Params : call[w].to[p] \in Values
      BY <1>1 DEF WriteParams, ToWrite, AuditInv, ValidInv
    <3>2. LogReplays'
      BY <2>1, <3>1, LogUpdate DEF Writers
    <3> QED
      BY <2>1, <3>2 DEF UpdateParams
  <2>2. CASE UNCHANGED store
    <3>1. UNCHANGED <<tables, triggers, value, log>>
      BY <2>2 DEF store
    <3> QED
      BY <3>1, LogSame
  <2> QED
    BY <1>1, <2>1, <2>2 DEF WriteParams
<1>2. CASE Edit(w)
  <2>1. PICK p \in Found, v \in Values : UpdateParams({p}, [q \in Params |-> v], "system")
    BY <1>2 DEF Edit
  <2>2. \A q \in {p} \cap Params : [r \in Params |-> v][q] \in Values
    OBVIOUS
  <2>3. LogReplays'
    BY <2>1, <2>2, LogUpdate DEF Writers
  <2> QED
    BY <2>1, <2>3 DEF UpdateParams
<1> QED
  BY <1>1, <1>2

\* A file that is ready is never rebuilt.
ReadyInv ==
  /\ AuditInv
  /\ Required \subseteq tables
  /\ \A w \in Procs : pc[w] # "init"
  /\ LogReplays

LEMMA ReadyIsInit ==
  ReadyInit => ReadyInv
<1> SUFFICES ASSUME ReadyInit PROVE ReadyInv
  OBVIOUS
<1>1. AuditInv
  BY AuditInit DEF ReadyInit, Init
<1>2. Required \subseteq tables /\ \A w \in Procs : pc[w] # "init"
  BY DEF ReadyInit, SeededFile, CallersInit
<1> DEFINE n == Cardinality(Params)
<1>3. /\ DOMAIN log = 1..n /\ Len(log) = n /\ n \in Nat
      /\ \A i \in 1..n : log[i].of = ParamRows[i] /\ log[i].op = "I" /\ log[i].new = Default
      /\ \A p \in Params : value[p] = Default
  <2>1. log = [i \in 1..n |->
                 [table |-> "check_params", of |-> ParamRows[i], op |-> "I", old |-> Null,
                  new |-> Default, who |-> "seed", by |-> "seed"]]
    BY SeedsAre DEF ReadyInit, SeededFile
  <2>2. Len(log) = n /\ n \in Nat
    BY <1>1, <2>1, SeedsAre DEF AuditInv, TypeOK
  <2>3. \A p \in Params : value[p] = Default
    BY DEF ReadyInit, SeededFile
  <2> QED
    BY <2>1, <2>2, <2>3
<1> HIDE DEF n
<1>4. ASSUME NEW p \in Params
      PROVE  \E i \in DOMAIN log : LastBefore(p, i, Len(log) + 1) /\ log[i].new = value[p]
  <2>1. PICK i \in 1..n : ParamRows[i] = p
    BY SeedsAre DEF n
  <2>2. ASSUME NEW k \in i + 1 .. (n + 1) - 1 PROVE log[k].of # p
    <3>1. k \in 1..n /\ k # i
      BY <1>3
    <3> QED
      BY <1>3, <2>1, <3>1, SeedsAre DEF n
  <2>3. i < n + 1
    BY <1>3
  <2> QED
    BY <1>3, <2>1, <2>2, <2>3 DEF LastBefore
<1>5. LogReplays
  BY <1>3, <1>4 DEF LogReplays
<1> QED
  BY <1>1, <1>2, <1>5 DEF ReadyInv

LEMMA ReadyInductive ==
  ASSUME Admins = {}
  PROVE  ReadyInv /\ [Next]_vars => ReadyInv'
<1> SUFFICES ASSUME ReadyInv, [Next]_vars PROVE ReadyInv'
  OBVIOUS
<1>1. AuditInv'
  BY AuditInductive DEF ReadyInv
<1>2. CASE Next
  <2>1. PICK w \in Procs :
          \/ ServerStep(w) \/ Ensure(w)
          \/ Statement(w) \/ StatementFails(w)
          \/ StartInit(w) \/ Edit(w) \/ Crash(w)
    BY <1>2 DEF Next
  <2>2. ~Statement(w) /\ ~StatementFails(w) /\ ~StartInit(w)
    BY DEF ReadyInv, Statement, StatementFails, StartInit
  <2>3. LogReplays' /\ UNCHANGED <<tables, triggers>>
    BY <2>1, <2>2, LogOther, LogWrite DEF ReadyInv, ServerStep
  <2>4. (\E l : l # "init" /\ Goto(w, l)) \/ UNCHANGED pc
    <3>1. CASE Begin(w)
      <4>1. PICK c \in Calls : Goto(w, FirstStep[c.op])
        BY <3>1 DEF Begin
      <4>2. FirstStep[c.op] # "init"
        BY CallKinds DEF FirstStep
      <4> QED
        BY <4>1, <4>2
    <3>2. CASE Ensure(w)
      <4>1. Goto(w, After[pc[w]]) /\ After[pc[w]] # "init"
        BY <3>2, Labels DEF Ensure, ReadyInv
      <4> QED
        BY <4>1
    <3>3. CASE WriteParams(w)
      <4>1. Goto(w, "exit")
        BY <3>3 DEF WriteParams
      <4> QED
        BY <4>1
    <3>4. CASE Edit(w)
      BY <3>4 DEF Edit
    <3>5. CASE ReadWho(w) \/ TagWho(w) \/ ReadParams(w) \/ Exit(w) \/ Crash(w)
      <4>1. \E l \in {"idle", "tag", "inner", "write", "exit", "dead"} : Goto(w, l)
        BY <3>5 DEF ReadWho, TagWho, ReadParams, Exit, Crash
      <4> QED
        BY <4>1
    <3>6. CASE LoadChecks(w) \/ LoadParams(w) \/ LoadFields(w) \/ ShowHistory(w)
      <4>1. \E l \in {"idle", "params", "reopen"} : Goto(w, l)
        BY <3>6 DEF LoadChecks, LoadParams, LoadFields, ShowHistory
      <4> QED
        BY <4>1
    <3> QED
      BY <2>1, <2>2, <3>1, <3>2, <3>3, <3>4, <3>5, <3>6 DEF ServerStep
  <2>5. \A o \in Procs : pc'[o] # "init"
    BY <2>4 DEF Goto, ReadyInv, AuditInv, TypeOK
  <2> QED
    BY <1>1, <2>3, <2>5 DEF ReadyInv
<1>3. CASE UNCHANGED vars
  <2>1. UNCHANGED <<tables, triggers, value, log, pc>>
    BY <1>3 DEF vars, store, callers
  <2>2. LogReplays'
    BY <2>1, LogSame DEF ReadyInv
  <2> QED
    BY <1>1, <2>1, <2>2 DEF ReadyInv
<1> QED
  BY <1>2, <1>3

\* README.md:314, every change is recorded: while checks.db stays ready, each
\* parameter has the value of its last entry, and every entry starts from the
\* value of the one before, however the calls and edits interleave and
\* whatever is killed.
THEOREM LogSafety ==
  ASSUME Admins = {}
  PROVE  ReadySpec => []LogReplays
<1>1. ReadyInv => LogReplays
  BY DEF ReadyInv
<1> QED
  BY <1>1, ReadyIsInit, ReadyInductive, PTL DEF ReadySpec

-----------------------------------------------------------------------------
(* Nobody works on the file while somebody else does.                      *)

DropAt == [check_params |-> 1, checks_tags |-> 2, checks |-> 3, tags |-> 4,
           plan_fields |-> 5, databases |-> 6]
InsertAt == [databases |-> 19, tags |-> 20, checks |-> 21, checks_tags |-> 22,
             check_params |-> 23, plan_fields |-> 24]

\* A call before its audit_writer block, or one that has none; the steps of a
\* block; the steps of a call that have been through _ensure_db.
Untagged == {"enter", "readWho", "open", "checks", "params", "reopen", "fields", "list", "rows"}
Tagged == {"inner", "read", "write", "exit"}
Ensured == {"readWho", "tag", "inner", "read", "write", "checks", "params", "reopen",
            "fields", "rows"}

Alone ==
  /\ \A w, o \in Procs : pc[w] \notin Resting /\ pc[o] \notin Resting => w = o
  /\ \A w \in Editors : pc[w] = "idle"

\* The tag is 'system' outside the blocks of audit_writer and the inserts of
\* init_db.
WhoAt(w) ==
  /\ pc[w] \in Untagged => who \in {Null, "system"}
  /\ pc[w] = "tag" => who = "system" /\ prev[w] = "system"
  /\ pc[w] \in Tagged => who = "llm" /\ prev[w] = "system"
  /\ pc[w] = "init" =>
       /\ at[w] \in 1..18 => who \in {Null, "system"}
       /\ at[w] \in 19..25 => who = "seed"
       /\ at[w] = 26 => who = "system"
       /\ back[w] \in {"readWho", "checks", "rows", "done"}

\* init_db has done what it has passed, and nothing has undone it.
FileAt(w) ==
  /\ pc[w] \in Ensured => Required \subseteq tables
  /\ pc[w] = "init" =>
       /\ \A t \in Required : at[w] > CreateAt[t] => t \in tables
       /\ \A t \in AuditedTables : at[w] > TriggerAt[t] => t \in triggers
       /\ \A t \in SeedTables : at[w] > InsertAt[t] => t \in rows
       /\ \A t \in SeedTables : at[w] > DropAt[t] /\ at[w] <= InsertAt[t] => t \notin rows

\* An explain has what it has been through.
ReplyAt(w) ==
  /\ pc[w] = "params" => "checks" \in reply[w]
  /\ pc[w] \in {"reopen", "fields"} => {"checks", "check_params"} \subseteq reply[w]
  /\ "report" \in reply[w] => {"checks", "check_params", "plan_fields"} \subseteq reply[w]

\* A file with all its tables has its rows and its triggers.
Whole ==
  Required \subseteq tables => SeedTables \subseteq rows /\ AuditedTables \subseteq triggers

ApartInv ==
  /\ Alone
  /\ (\A w \in Procs : pc[w] \in Resting) => who \in {Null, "system"}
  /\ (\A w \in Procs : pc[w] # "init") => Whole
  /\ \A w \in Procs : WhoAt(w) /\ FileAt(w) /\ ReplyAt(w)
  /\ TagsTruthful

\* Where in the script each table is dropped, created and filled.
LEMMA Places ==
  /\ \A t \in SeedTables : /\ DropAt[t] \in 1..6 /\ Drops[DropAt[t]] = t
                           /\ InsertAt[t] \in 19..24 /\ Inserts[InsertAt[t] - 18] = t
  /\ \A i \in 19..24 : Inserts[i - 18] \in SeedTables /\ InsertAt[Inserts[i - 18]] = i
  /\ \A t \in Required : CreateAt[t] \in 7..14 /\ Creates[CreateAt[t] - 6] = t
  /\ \A t \in AuditedTables : TriggerAt[t] \in 15..17 /\ Audited[TriggerAt[t] - 14] = t
<1>1. \A t \in SeedTables : /\ DropAt[t] \in 1..6 /\ Drops[DropAt[t]] = t
                            /\ InsertAt[t] \in 19..24 /\ Inserts[InsertAt[t] - 18] = t
  BY Names DEF DropAt, Drops, InsertAt, Inserts
<1>2. \A i \in 19..24 : Inserts[i - 18] \in SeedTables /\ InsertAt[Inserts[i - 18]] = i
  BY Names DEF InsertAt, Inserts
<1>3. \A t \in Required : CreateAt[t] \in 7..14 /\ Creates[CreateAt[t] - 6] = t
  BY Names DEF CreateAt, Creates
<1>4. \A t \in AuditedTables : TriggerAt[t] \in 15..17 /\ Audited[TriggerAt[t] - 14] = t
  BY Names DEF TriggerAt, Audited
<1> QED
  BY <1>1, <1>2, <1>3, <1>4

\* Who takes a step is the only one that works on the file.
LEMMA Turn ==
  ASSUME Apart, AuditInv, ApartInv, NEW w \in Procs,
         ServerStep(w) \/ Ensure(w) \/ Statement(w) \/ StatementFails(w) \/ StartInit(w)
  PROVE  w \notin Editors /\ \A o \in Procs \ {w} : pc[o] \in Resting
<1>1. CASE Begin(w) \/ StartInit(w)
  BY <1>1, CallersAssumption DEF Begin, StartInit, Free
<1>2. CASE pc[w] \notin Resting
  BY <1>2 DEF ApartInv, Alone, Resting
<1>3. DOMAIN After = {"enter", "inner", "open", "reopen", "list"}
  BY DEF After
<1> QED
  BY <1>1, <1>2, <1>3
     DEF ServerStep, ReadWho, TagWho, ReadParams, WriteParams, Exit, LoadChecks, LoadParams,
         LoadFields, ShowHistory, Ensure, Statement, StatementFails, Resting

\* What its step has to keep.
LEMMA ApartFrame ==
  ASSUME AuditInv, ApartInv, NEW w \in Procs \ Editors, NEW l, Goto(w, l),
         \A o \in Procs \ {w} : pc[o] \in Resting /\ reply'[o] = reply[o],
         l \in Resting => who' \in {Null, "system"},
         l # "init" => Whole',
         WhoAt(w)', FileAt(w)', ReplyAt(w)', TagsTruthful'
  PROVE  ApartInv'
<1>1. pc'[w] = l /\ \A o \in Procs \ {w} : pc'[o] = pc[o]
  BY DEF Goto, AuditInv, TypeOK
<1>2. Alone'
  <2>1. ASSUME NEW a \in Procs, NEW b \in Procs, pc'[a] \notin Resting, pc'[b] \notin Resting
        PROVE  a = b
    <3>1. \A o \in Procs : o # w => pc'[o] \in Resting
      BY <1>1
    <3> QED
      BY <2>1, <3>1
  <2>2. \A o \in Editors : pc'[o] = "idle"
    BY <1>1 DEF ApartInv, Alone, Procs
  <2> QED
    BY <2>1, <2>2 DEF Alone
<1>3. (\A o \in Procs : pc'[o] \in Resting) => who' \in {Null, "system"}
  BY <1>1
<1>4. (\A o \in Procs : pc'[o] # "init") => Whole'
  BY <1>1
<1>5. ASSUME NEW o \in Procs
      PROVE  WhoAt(o)' /\ FileAt(o)' /\ ReplyAt(o)'
  <2>1. CASE o # w
    <3>1. pc'[o] \in Resting /\ reply'[o] = reply[o]
      BY <1>1, <2>1
    <3>2. "report" \in reply[o] => {"checks", "check_params", "plan_fields"} \subseteq reply[o]
      BY DEF ApartInv, ReplyAt
    <3> QED
      BY <3>1, <3>2 DEF WhoAt, FileAt, ReplyAt, Untagged, Tagged, Ensured, Resting
  <2>2. CASE o = w
    BY <2>2
  <2> QED
    BY <2>1, <2>2
<1> QED
  BY <1>2, <1>3, <1>4, <1>5 DEF ApartInv

\* Entries whose writer is the one of the tag.
LEMMA TagsStep ==
  ASSUME AuditInv, TagsTruthful,
         NEW n \in Nat, NEW f \in [1..n -> LogEntries], log' = log \o f,
         \A k \in 1..n : f[k].who = f[k].by
  PROVE  TagsTruthful'
<1> DEFINE N == log \o f
           len == Len(log)
<1>1. /\ log \in Seq(LogEntries) /\ len \in Nat
      /\ N \in Seq(LogEntries) /\ Len(N) = len + n
      /\ \A i \in 1..len : N[i] = log[i]
      /\ \A k \in 1..n : N[len + k] = f[k]
  BY Appended DEF AuditInv, TypeOK
<1>2. DOMAIN log = 1..len /\ DOMAIN N = 1..len + n
  BY <1>1
<1>3. log' = N
  OBVIOUS
<1> HIDE DEF N, len
<1>4. ASSUME NEW i \in 1..len + n PROVE N[i].who = N[i].by
  <2>1. CASE i \in 1..len
    BY <1>1, <1>2, <2>1 DEF TagsTruthful
  <2>2. CASE i \notin 1..len
    <3>1. i - len \in 1..n /\ i = len + (i - len)
      BY <1>1, <2>2
    <3>2. PICK k \in 1..n : i = len + k
      BY <3>1
    <3> QED
      BY <1>1, <3>2
  <2> QED
    BY <2>1, <2>2
<1> QED
  BY <1>2, <1>3, <1>4 DEF TagsTruthful

\* An update whose writer is the one of the tag.
LEMMA TagsUpdate ==
  ASSUME AuditInv, TagsTruthful, NEW S, NEW new, NEW by \in Writers,
         UpdateParams(S, new, by), \A p \in S \cap Params : new[p] \in Values,
         who \in {Null, by}
  PROVE  TagsTruthful'
<1> DEFINE n == Cardinality(Changed(S, new))
           f == Added(S, new, by)
<1>1. /\ n \in Nat /\ f \in [1..n -> LogEntries] /\ log' = log \o f
  BY UpdateIs
<1>2. ASSUME NEW k \in 1..n PROVE f[k].who = who /\ f[k].by = by
  BY DEF Added, Entry
<1>3. ASSUME NEW k \in 1..n PROVE who # Null
  <2>1. f[k] \in LogEntries /\ f[k].who = who
    BY <1>1, <1>2
  <2>2. \A e \in LogEntries : e.who \in Writers
    BY DEF LogEntries
  <2>3. Null \notin Writers
    BY StoreAssumption DEF Writers
  <2> QED
    BY <2>1, <2>2, <2>3
<1> HIDE DEF n, f
<1> QED
  BY <1>1, <1>2, <1>3, TagsStep

LEMMA TagsSame ==
  ASSUME TagsTruthful, log' = log
  PROVE  TagsTruthful'
BY DEF TagsTruthful

\* The steps of init_db.
LEMMA StatementApart ==
  ASSUME Apart, AuditInv, ApartInv, NEW w \in Procs, Statement(w)
  PROVE  ApartInv'
<1> DEFINE i == at[w]
<1>1. /\ w \in Procs \ Editors
      /\ \A o \in Procs \ {w} : pc[o] \in Resting /\ reply'[o] = reply[o]
      /\ UNCHANGED <<back, prev, reply>>
  BY Turn DEF Statement
<1>2. pc[w] = "init" /\ i \in 1..26 /\ at \in [Procs -> 0..26] /\ Execute(Script[i])
  BY ScriptIs DEF Statement, AuditInv, PlaceOK
<1>3. WhoAt(w) /\ FileAt(w) /\ ReplyAt(w) /\ TagsTruthful
  BY DEF ApartInv
<1>4. /\ i \in 1..18 => who \in {Null, "system"}
      /\ i \in 19..25 => who = "seed"
      /\ i = 26 => who = "system"
      /\ back[w] \in {"readWho", "checks", "rows", "done"}
      /\ i > 13 => who # Null
      /\ \A t \in Required : i > CreateAt[t] => t \in tables
      /\ \A t \in AuditedTables : i > TriggerAt[t] => t \in triggers
      /\ \A t \in SeedTables : i > InsertAt[t] => t \in rows
      /\ \A t \in SeedTables : i > DropAt[t] /\ i <= InsertAt[t] => t \notin rows
  BY <1>2, <1>3 DEF WhoAt, FileAt, AuditInv, SessionInv
<1> DEFINE NextFile ==
      /\ \A t \in Required : i + 1 > CreateAt[t] => t \in tables'
      /\ \A t \in AuditedTables : i + 1 > TriggerAt[t] => t \in triggers'
      /\ \A t \in SeedTables : i + 1 > InsertAt[t] => t \in rows'
      /\ \A t \in SeedTables : i + 1 > DropAt[t] /\ i + 1 <= InsertAt[t] => t \notin rows'
<1> DEFINE NextWho ==
      /\ i + 1 \in 1..18 => who' \in {Null, "system"}
      /\ i + 1 \in 19..25 => who' = "seed"
      /\ i + 1 > 25 => who' = "system"
<1>5. NextFile /\ NextWho /\ TagsTruthful'
  <2>1. CASE i \in 1..6
    <3>1. DropTable(Drops[i])
      BY <1>2, <2>1, ScriptIs DEF Execute
    <3>2. /\ tables' = tables \ {Drops[i]} /\ triggers' = triggers \ {Drops[i]}
          /\ rows' = rows \ {Drops[i]} /\ UNCHANGED <<who, log>>
      BY <3>1 DEF DropTable
    <3>3. NextFile
      BY <1>4, <2>1, <3>2, Places
    <3>4. NextWho
      BY <1>4, <2>1, <3>2
    <3> QED
      BY <1>3, <3>2, <3>3, <3>4, TagsSame
  <2>2. CASE i \in 7..14
    <3>1. CreateTable(Creates[i - 6])
      BY <1>2, <2>2, ScriptIs DEF Execute
    <3>2. /\ tables' = tables \cup {Creates[i - 6]} /\ UNCHANGED <<triggers, rows, log>>
          /\ who' \in {who, "system"}
      BY <3>1 DEF CreateTable
    <3>3. NextFile
      BY <1>4, <2>2, <3>2, Places
    <3>4. NextWho
      BY <1>4, <2>2, <3>2
    <3> QED
      BY <1>3, <3>2, <3>3, <3>4, TagsSame
  <2>3. CASE i \in 15..17
    <3>1. CreateTriggers(Audited[i - 14])
      BY <1>2, <2>3, ScriptIs DEF Execute
    <3>2. /\ triggers' = triggers \cup {Audited[i - 14]} /\ UNCHANGED <<tables, rows, who, log>>
      BY <3>1 DEF CreateTriggers
    <3>3. NextFile
      BY <1>4, <2>3, <3>2, Places
    <3>4. NextWho
      BY <1>4, <2>3, <3>2
    <3> QED
      BY <1>3, <3>2, <3>3, <3>4, TagsSame
  <2>4. CASE i = 18
    <3>1. SetWho("seed")
      BY <1>2, <2>4, ScriptIs DEF Execute
    <3>2. who' = "seed" /\ UNCHANGED <<tables, triggers, rows, log>>
      BY <1>4, <2>4, <3>1 DEF SetWho
    <3>3. NextFile
      BY <1>4, <2>4, <3>2, Places
    <3>4. NextWho
      BY <2>4, <3>2
    <3> QED
      BY <1>3, <3>2, <3>3, <3>4, TagsSame
  <2>5. CASE i \in 19..24
    <3> DEFINE t == Inserts[i - 18]
    <3>1. InsertSeed(t) /\ t \in SeedTables /\ InsertAt[t] = i
      BY <1>2, <2>5, ScriptIs, Places DEF Execute
    <3>2. /\ rows' = rows \cup {t} /\ UNCHANGED <<tables, triggers, who>>
          /\ log' = log \o SeedEntries(t)
      BY <3>1 DEF InsertSeed
    <3>3. NextFile
      <4>2. \A s \in SeedTables : i + 1 > InsertAt[s] => s \in rows'
        <5> SUFFICES ASSUME NEW s \in SeedTables, i + 1 > InsertAt[s] PROVE s \in rows'
          OBVIOUS
        <5>1. i > InsertAt[s] \/ i = InsertAt[s]
          <6>1. InsertAt[s] \in 19..24 /\ i \in 19..24
            BY <2>5, Places
          <6> QED
            BY <6>1
        <5>2. CASE i > InsertAt[s]
          BY <1>4, <3>2, <5>2
        <5>3. CASE i = InsertAt[s]
          <6>1. s = Inserts[InsertAt[s] - 18]
            BY Places
          <6> QED
            BY <3>2, <5>3, <6>1
        <5> QED
          BY <5>1, <5>2, <5>3
      <4>3. \A s \in SeedTables : i + 1 > DropAt[s] /\ i + 1 <= InsertAt[s] => s \notin rows'
        <5> SUFFICES ASSUME NEW s \in SeedTables, i + 1 <= InsertAt[s] PROVE s \notin rows'
          OBVIOUS
        <5>1. i > DropAt[s] /\ i <= InsertAt[s] /\ i # InsertAt[s]
          BY <2>5, Places
        <5>2. s \notin rows
          BY <1>4, <5>1
        <5>3. s # t
          BY <3>1, <5>1
        <5> HIDE DEF t
        <5> QED
          BY <3>2, <5>2, <5>3
      <4>4. ASSUME NEW s \in Required PROVE s \in tables'
        <5>1. i > CreateAt[s]
          <6>1. CreateAt[s] \in 7..14 /\ i \in 19..24
            BY <2>5, Places
          <6> QED
            BY <6>1
        <5> QED
          BY <1>4, <3>2, <5>1
      <4>5. ASSUME NEW s \in AuditedTables PROVE s \in triggers'
        <5>1. i > TriggerAt[s]
          <6>1. TriggerAt[s] \in 15..17 /\ i \in 19..24
            BY <2>5, Places
          <6> QED
            BY <6>1
        <5> QED
          BY <1>4, <3>2, <5>1
      <4> QED
        BY <4>2, <4>3, <4>4, <4>5
    <3>4. NextWho
      <4>1. who = "seed" /\ who' = who
        BY <1>4, <2>5, <3>2
      <4>2. ~(i + 1 \in 1..18) /\ ~(i + 1 > 25)
        BY <2>5
      <4> QED
        BY <4>1, <4>2
    <3>5. TagsTruthful'
      <4>1. PICK n \in Nat : SeedEntries(t) \in [1..n -> LogEntries]
        BY <3>1, SeedEntriesType
      <4>2. \A k \in 1..n : SeedEntries(t)[k].who = SeedEntries(t)[k].by
        <5>1. CASE t \notin triggers
          <6>1. SeedEntries(t) = <<>>
            BY <5>1 DEF SeedEntries
          <6> QED
            BY <4>1, <6>1
        <5>2. CASE t \in triggers /\ t = "check_params"
          <6>1. SeedEntries(t) =
                  [k \in DOMAIN ParamRows |-> Entry(t, ParamRows[k], "I", Null, Default, "seed")]
            BY <5>2 DEF SeedEntries
          <6>2. \A k \in DOMAIN ParamRows : SeedEntries(t)[k].who = who /\ SeedEntries(t)[k].by = "seed"
            BY <6>1 DEF Entry
          <6>3. DOMAIN ParamRows = 1..n
            BY <4>1, <6>1
          <6> QED
            BY <1>4, <2>5, <6>2, <6>3
        <5>3. CASE t \in triggers /\ t # "check_params"
          <6>1. SeedEntries(t) = <<Entry(t, t, "I", Null, Default, "seed")>>
            BY <5>3 DEF SeedEntries
          <6>2. \A k \in DOMAIN SeedEntries(t) :
                  SeedEntries(t)[k].who = who /\ SeedEntries(t)[k].by = "seed"
            BY <6>1 DEF Entry
          <6>3. DOMAIN SeedEntries(t) = 1..n
            BY <4>1
          <6> QED
            BY <1>4, <2>5, <6>2, <6>3
        <5> QED
          BY <5>1, <5>2, <5>3
      <4> HIDE DEF t
      <4> QED
        BY <1>3, <3>2, <4>1, <4>2, TagsStep
    <3> QED
      BY <3>3, <3>4, <3>5
  <2>6. CASE i = 25
    <3>1. SetWho("system")
      BY <1>2, <2>6, ScriptIs DEF Execute
    <3>2. who' = "system" /\ UNCHANGED <<tables, triggers, rows, log>>
      BY <1>4, <2>6, <3>1 DEF SetWho
    <3>3. NextFile
      BY <1>4, <2>6, <3>2, Places
    <3>4. NextWho
      BY <2>6, <3>2
    <3> QED
      BY <1>3, <3>2, <3>3, <3>4, TagsSame
  <2>7. CASE i = 26
    <3>1. UNCHANGED <<tables, triggers, rows, who, log>>
      BY <1>2, <2>7, ScriptIs DEF Execute, CountSeed, store
    <3>3. NextFile
      BY <1>4, <2>7, <3>1, Places
    <3>4. NextWho
      BY <1>4, <2>7, <3>1
    <3> QED
      BY <1>3, <3>1, <3>3, <3>4, TagsSame
  <2>8. i \in 1..6 \/ i \in 7..14 \/ i \in 15..17 \/ i = 18 \/ i \in 19..24 \/ i = 25 \/ i = 26
    BY <1>2
  <2> HIDE DEF i, NextFile, NextWho
  <2> QED
    BY <2>1, <2>2, <2>3, <2>4, <2>5, <2>6, <2>7, <2>8
<1>6. CASE i # 26
  <2>1. Goto(w, "init") /\ at'[w] = i + 1 /\ pc'[w] = "init"
    BY <1>2, <1>6, ScriptIs DEF Statement, Goto, AuditInv, TypeOK
  <2>2. WhoAt(w)'
    BY <1>1, <1>2, <1>4, <1>5, <1>6, <2>1 DEF WhoAt, Untagged, Tagged
  <2>3. FileAt(w)'
    <3>1. pc'[w] \notin Ensured
      BY <2>1 DEF Ensured
    <3>2. NextFile
      BY <1>5
    <3> QED
      BY <2>1, <3>1, <3>2 DEF FileAt
  <2>4. ReplyAt(w)'
    BY <1>1, <1>3, <2>1 DEF ReplyAt
  <2>5. "init" \notin Resting
    BY DEF Resting
  <2> HIDE DEF i, NextFile, NextWho
  <2> QED
    BY <1>1, <1>5, <2>1, <2>2, <2>3, <2>4, <2>5, ApartFrame
<1>7. CASE i = 26
  <2> DEFINE l == back[w]
  <2>1. Goto(w, l) /\ pc'[w] = l /\ l \in {"readWho", "checks", "rows", "done"}
    BY <1>2, <1>4, <1>7, ScriptIs DEF Statement, Goto, AuditInv, TypeOK
  <2>2. who' = "system"
    BY <1>5, <1>7
  <2>3. WhoAt(w)'
    BY <2>1, <2>2 DEF WhoAt, Untagged, Tagged
  <2>4. Required \subseteq tables' /\ SeedTables \subseteq rows' /\ AuditedTables \subseteq triggers'
    <3>1. NextFile /\ i + 1 = 27
      BY <1>5, <1>7
    <3>2. ASSUME NEW t \in Required PROVE t \in tables'
      <4>1. i + 1 > CreateAt[t]
        BY <3>1, Places
      <4> QED
        BY <3>1, <4>1
    <3>3. ASSUME NEW t \in AuditedTables PROVE t \in triggers'
      <4>1. i + 1 > TriggerAt[t]
        BY <3>1, Places
      <4> QED
        BY <3>1, <4>1
    <3>4. ASSUME NEW t \in SeedTables PROVE t \in rows'
      <4>1. i + 1 > InsertAt[t]
        BY <3>1, Places
      <4> QED
        BY <3>1, <4>1
    <3> QED
      BY <3>2, <3>3, <3>4
  <2>5. FileAt(w)' /\ Whole'
    BY <2>1, <2>4 DEF FileAt, Whole
  <2>6. ReplyAt(w)'
    BY <1>1, <1>3, <2>1 DEF ReplyAt
  <2> HIDE DEF i, l, NextFile, NextWho
  <2> QED
    BY <1>1, <1>5, <2>1, <2>2, <2>3, <2>5, <2>6, ApartFrame
<1> QED
  BY <1>6, <1>7

\* Nothing makes a statement of init_db fail.
LEMMA NoFailure ==
  ASSUME Apart, AuditInv, ApartInv, NEW w \in Procs
  PROVE  ~StatementFails(w)
<1> SUFFICES ASSUME StatementFails(w) PROVE FALSE
  OBVIOUS
<1> DEFINE i == at[w]
<1>1. pc[w] = "init" /\ i \in 1..26 /\ Fails(Script[i])
  BY DEF StatementFails, AuditInv, PlaceOK
<1>2. /\ \A t \in Required : i > CreateAt[t] => t \in tables
      /\ \A t \in SeedTables : i > InsertAt[t] => t \in rows
      /\ \A t \in SeedTables : i > DropAt[t] /\ i <= InsertAt[t] => t \notin rows
  BY <1>1 DEF ApartInv, FileAt
<1> HIDE DEF i
<1>3. CASE i \in 15..17
  <2>1. Script[i].do = "trigger" /\ Script[i].arg \in AuditedTables
    BY <1>3, ScriptSteps
  <2>2. Script[i].arg \in Required
    BY <2>1, Names
  <2> QED
    BY <1>1, <1>2, <1>3, <2>1, <2>2, Places DEF Fails
<1>4. CASE i \in 19..24
  <2>1. Script[i].do = "insert" /\ Script[i].arg = Inserts[i - 18]
    BY <1>4, ScriptIs
  <2>2. /\ Inserts[i - 18] \in SeedTables /\ InsertAt[Inserts[i - 18]] = i
        /\ Inserts[i - 18] \in Required
    BY <1>4, Places, Names
  <2> QED
    BY <1>1, <1>2, <1>4, <2>1, <2>2, Places DEF Fails
<1>5. CASE i = 26
  <2>1. Script[i].do = "count"
    BY <1>5, ScriptIs
  <2>2. ASSUME NEW t \in SeedTables PROVE t \in rows
    <3>1. i > InsertAt[t]
      BY <1>5, Places
    <3> QED
      BY <1>2, <3>1
  <2>3. {"checks", "plan_fields"} \subseteq rows
    BY <2>2, Names
  <2> QED
    BY <1>1, <2>1, <2>3 DEF Fails
<1>6. CASE i \in 1..14 \/ i = 18 \/ i = 25
  <2>1. Script[i].do \in {"drop", "create", "who"}
    BY <1>6, ScriptIs
  <2> QED
    BY <1>1, <2>1 DEF Fails
<1> QED
  BY <1>1, <1>3, <1>4, <1>5, <1>6

\* The beginning of a call or of an --init, and the look at the file before
\* the steps of a call.
LEMMA BeginApart ==
  ASSUME Apart, AuditInv, ApartInv, NEW w \in Procs,
         Begin(w) \/ Ensure(w) \/ StartInit(w)
  PROVE  ApartInv'
<1>1. /\ w \in Procs \ Editors
      /\ \A o \in Procs \ {w} : pc[o] \in Resting
  BY Turn DEF ServerStep
<1>2. /\ UNCHANGED <<tables, triggers, rows, who, log, prev>>
      /\ TagsTruthful'
  BY TagsSame DEF Begin, Ensure, StartInit, store, ApartInv
<1>3. WhoAt(w) /\ FileAt(w) /\ ReplyAt(w)
  BY DEF ApartInv
<1>4. CASE Begin(w)
  <2>1. PICK c \in Calls : Goto(w, FirstStep[c.op])
    BY <1>4 DEF Begin
  <2> DEFINE l == FirstStep[c.op]
  <2>2. l \in {"enter", "open", "list"} /\ pc'[w] = l
    BY <2>1, CallKinds DEF FirstStep, Goto, AuditInv, TypeOK
  <2>3. \A o \in Procs : pc[o] \in Resting
    BY <1>1, <1>4 DEF Begin, Resting
  <2>4. who \in {Null, "system"} /\ Whole
    BY <2>3 DEF ApartInv, Resting
  <2>5. /\ reply'[w] = {} /\ \A o \in Procs \ {w} : reply'[o] = reply[o]
    BY <1>4 DEF Begin, AuditInv, TypeOK
  <2> HIDE DEF l
  <2>6. WhoAt(w)' /\ FileAt(w)' /\ ReplyAt(w)' /\ Whole'
    BY <1>2, <2>2, <2>4, <2>5 DEF WhoAt, FileAt, ReplyAt, Whole, Tagged, Ensured
  <2> QED
    BY <1>1, <1>2, <2>1, <2>2, <2>4, <2>5, <2>6, ApartFrame DEF l
<1>5. CASE Ensure(w)
  <2>1. /\ pc[w] \in {"enter", "inner", "open", "reopen", "list"}
        /\ UNCHANGED reply
    BY <1>5 DEF Ensure, After
  <2>2. pc[w] # "inner" => who \in {Null, "system"}
    BY <1>3, <2>1 DEF WhoAt, Untagged
  <2>3. \A o \in Procs : pc[o] # "init"
    BY <1>1, <2>1 DEF Resting
  <2>4. CASE Required \subseteq tables /\ Goto(w, After[pc[w]])
    <3> DEFINE l == After[pc[w]]
    <3>1. l \in {"readWho", "read", "checks", "fields", "rows"} /\ pc'[w] = l
          /\ (l = "read" <=> pc[w] = "inner")
          /\ (l = "fields" => pc[w] = "reopen")
      BY <2>1, <2>4 DEF After, Goto, AuditInv, TypeOK
    <3>2. Whole'
      BY <1>2, <2>3 DEF ApartInv, Whole
    <3>3. WhoAt(w)'
      <4>1. CASE l = "read"
        <5>1. who' = "llm" /\ prev'[w] = "system"
          BY <1>2, <1>3, <3>1, <4>1 DEF WhoAt, Tagged
        <5> QED
          BY <3>1, <4>1, <5>1 DEF WhoAt, Untagged, Tagged
      <4>2. CASE l # "read"
        <5>1. who' \in {Null, "system"}
          BY <1>2, <2>2, <3>1, <4>2
        <5>2. pc'[w] \in {"readWho", "checks", "fields", "rows"}
          BY <3>1, <4>2
        <5> HIDE DEF l
        <5> QED
          BY <5>1, <5>2 DEF WhoAt, Untagged, Tagged
      <4> QED
        BY <4>1, <4>2
    <3>4. FileAt(w)' /\ ReplyAt(w)'
      BY <1>2, <1>3, <2>1, <2>4, <3>1 DEF FileAt, ReplyAt
    <3>5. l \notin Resting
      BY <3>1 DEF Resting
    <3> HIDE DEF l
    <3> QED
      BY <1>1, <1>2, <2>1, <2>4, <3>2, <3>3, <3>4, <3>5, ApartFrame DEF l
  <2>5. CASE /\ ~(Required \subseteq tables) /\ Goto(w, "init")
             /\ at' = [at EXCEPT ![w] = 1]
             /\ back' = [back EXCEPT ![w] = After[pc[w]]]
    <3>1. /\ pc'[w] = "init" /\ at'[w] = 1
          /\ back'[w] = After[pc[w]]
      BY <2>5 DEF Goto, AuditInv, TypeOK
    <3>2. pc[w] \in {"enter", "open", "list"}
      <4>1. CASE pc[w] = "inner"
        <5>1. pc[w] \in Tagged \cap Ensured
          BY <4>1 DEF Tagged, Ensured
        <5> QED
          BY <1>3, <2>5, <5>1 DEF FileAt
      <4>2. CASE pc[w] = "reopen"
        BY <1>3, <2>5, <4>2 DEF FileAt, Ensured
      <4> QED
        BY <2>1, <4>1, <4>2
    <3>3. WhoAt(w)'
      BY <1>2, <2>2, <3>1, <3>2 DEF WhoAt, After, Untagged, Tagged
    <3>4. FileAt(w)'
      <4>1. ~("init" \in Ensured)
        BY DEF Ensured
      <4> QED
        BY <3>1, <4>1, Places DEF FileAt
    <3>5. ReplyAt(w)'
      BY <1>3, <2>1, <3>1 DEF ReplyAt
    <3>6. "init" \notin Resting
      BY DEF Resting
    <3> QED
      BY <1>1, <1>2, <2>1, <2>5, <3>3, <3>4, <3>5, <3>6, ApartFrame
  <2> QED
    BY <1>5, <2>4, <2>5 DEF Ensure
<1>6. CASE StartInit(w)
  <2>1. /\ pc[w] = "idle" /\ Goto(w, "init") /\ UNCHANGED reply
        /\ pc'[w] = "init" /\ at'[w] = 1 /\ back'[w] = "done"
    BY <1>6 DEF StartInit, Goto, AuditInv, TypeOK
  <2>2. who \in {Null, "system"}
    BY <1>1, <2>1 DEF ApartInv, Resting
  <2>3. WhoAt(w)'
    BY <1>2, <2>1, <2>2 DEF WhoAt, Untagged, Tagged
  <2>4. FileAt(w)'
    <3>1. ~("init" \in Ensured)
      BY DEF Ensured
    <3> QED
      BY <2>1, <3>1, Places DEF FileAt
  <2>5. ReplyAt(w)'
    BY <1>3, <2>1 DEF ReplyAt
  <2>6. "init" \notin Resting
    BY DEF Resting
  <2> QED
    BY <1>1, <1>2, <2>1, <2>3, <2>4, <2>5, <2>6, ApartFrame
<1> QED
  BY <1>4, <1>5, <1>6

\* The steps of set and reset calls: the block of audit_writer gives back the
\* tag it found.
LEMMA WriterApart ==
  ASSUME Apart, AuditInv, ApartInv, NEW w \in Procs,
         ReadWho(w) \/ TagWho(w) \/ ReadParams(w) \/ WriteParams(w) \/ Exit(w)
  PROVE  ApartInv'
<1>1. /\ w \in Procs \ Editors
      /\ \A o \in Procs \ {w} : pc[o] \in Resting /\ reply'[o] = reply[o]
      /\ UNCHANGED reply
  BY Turn DEF ServerStep, ReadWho, TagWho, ReadParams, WriteParams, Exit
<1>2. /\ UNCHANGED <<tables, triggers, rows>>
      /\ pc[w] \in {"readWho", "tag", "read", "write", "exit"}
  BY DEF ReadWho, TagWho, ReadParams, WriteParams, Exit, store, SetWho, UpdateParams
<1>3. WhoAt(w) /\ FileAt(w) /\ ReplyAt(w) /\ TagsTruthful
  BY DEF ApartInv
<1>4. Whole'
  <2>1. \A o \in Procs : pc[o] # "init"
    BY <1>1, <1>2 DEF Resting
  <2> QED
    BY <1>2, <2>1 DEF ApartInv, Whole
<1>5. pc[w] # "exit" => Required \subseteq tables'
  BY <1>2, <1>3 DEF FileAt, Ensured
<1>6. ASSUME NEW l \in {"idle", "tag", "inner", "write", "exit"}, Goto(w, l)
      PROVE  /\ pc'[w] = l
             /\ pc[w] # "exit" \/ l = "idle" => FileAt(w)'
             /\ ReplyAt(w)'
  <2>1. pc'[w] = l
    BY <1>6 DEF Goto, AuditInv, TypeOK
  <2> QED
    BY <1>1, <1>3, <1>5, <2>1 DEF FileAt, ReplyAt, Ensured
<1>7. CASE ReadWho(w)
  <2>1. /\ pc[w] = "readWho" /\ prev'[w] = who /\ UNCHANGED <<who, log>>
        /\ who = Null => Goto(w, "idle")
        /\ who # Null => Goto(w, "tag")
        /\ who \in {Null, "system"}
    BY <1>3, <1>7 DEF ReadWho, store, AuditInv, TypeOK, WhoAt, Untagged
  <2>2. TagsTruthful'
    BY <1>3, <2>1, TagsSame
  <2>3. CASE who = Null
    <3>1. pc'[w] = "idle" /\ FileAt(w)' /\ ReplyAt(w)'
      BY <1>6, <2>1, <2>3
    <3>2. WhoAt(w)'
      BY <3>1 DEF WhoAt, Untagged, Tagged
    <3> QED
      BY <1>1, <1>4, <2>1, <2>2, <2>3, <3>1, <3>2, ApartFrame
  <2>4. CASE who # Null
    <3>1. pc'[w] = "tag" /\ FileAt(w)' /\ ReplyAt(w)'
      BY <1>6, <2>1, <2>4
    <3>2. WhoAt(w)'
      BY <2>1, <2>4, <3>1 DEF WhoAt, Untagged, Tagged
    <3> QED
      BY <1>1, <1>4, <2>1, <2>2, <2>4, <3>1, <3>2, ApartFrame
  <2> QED
    BY <2>3, <2>4
<1>8. CASE TagWho(w)
  <2>1. /\ pc[w] = "tag" /\ Goto(w, "inner") /\ UNCHANGED <<log, prev>>
        /\ SetWho("llm") /\ who = "system" /\ prev[w] = "system"
    BY <1>3, <1>8 DEF TagWho, WhoAt, SetWho
  <2>2. who' = "llm"
    BY <2>1, StoreAssumption DEF SetWho
  <2>3. TagsTruthful'
    BY <1>3, <2>1, TagsSame
  <2>4. pc'[w] = "inner" /\ FileAt(w)' /\ ReplyAt(w)'
    BY <1>6, <2>1
  <2>5. WhoAt(w)'
    BY <2>1, <2>2, <2>4 DEF WhoAt, Untagged, Tagged
  <2>6. "inner" \notin Resting
    BY DEF Resting
  <2> QED
    BY <1>1, <1>4, <2>1, <2>3, <2>4, <2>5, <2>6, ApartFrame
<1>9. CASE ReadParams(w)
  <2>1. /\ pc[w] = "read" /\ UNCHANGED <<who, log, prev>>
        /\ who = "llm" /\ prev[w] = "system"
    BY <1>3, <1>9 DEF ReadParams, store, WhoAt, Tagged
  <2>2. PICK l \in {"write", "exit"} : Goto(w, l)
    BY <1>9 DEF ReadParams
  <2>3. TagsTruthful'
    BY <1>3, <2>1, TagsSame
  <2>4. pc'[w] = l /\ FileAt(w)' /\ ReplyAt(w)'
    BY <1>6, <2>1, <2>2
  <2>5. WhoAt(w)' /\ l \notin Resting
    BY <2>1, <2>4 DEF WhoAt, Untagged, Tagged, Resting
  <2> QED
    BY <1>1, <1>4, <2>2, <2>3, <2>4, <2>5, ApartFrame
<1>10. CASE WriteParams(w)
  <2>1. /\ pc[w] = "write" /\ Goto(w, "exit") /\ UNCHANGED <<who, prev>>
        /\ who = "llm" /\ prev[w] = "system"
    BY <1>3, <1>10 DEF WriteParams, store, UpdateParams, WhoAt, Tagged
  <2>2. TagsTruthful'
    <3>1. CASE UpdateParams(ToWrite(w), call[w].to, "llm")
      <4>1. \A p \in ToWrite(w) \cap Params : call[w].to[p] \in Values
        BY <2>1 DEF ToWrite, AuditInv, ValidInv
      <4> QED
        BY <1>3, <2>1, <3>1, <4>1, TagsUpdate DEF Writers
    <3>2. CASE UNCHANGED store
      BY <1>3, <3>2, TagsSame DEF store
    <3> QED
      BY <1>10, <3>1, <3>2 DEF WriteParams
  <2>3. pc'[w] = "exit" /\ FileAt(w)' /\ ReplyAt(w)'
    BY <1>6, <2>1
  <2>4. WhoAt(w)' /\ "exit" \notin Resting
    BY <2>1, <2>3 DEF WhoAt, Untagged, Tagged, Resting
  <2> QED
    BY <1>1, <1>4, <2>1, <2>2, <2>3, <2>4, ApartFrame
<1>11. CASE Exit(w)
  <2>1. /\ pc[w] = "exit" /\ Goto(w, "idle") /\ UNCHANGED log
        /\ who = "llm" /\ SetWho("system")
    BY <1>3, <1>11 DEF Exit, SetWho, WhoAt, Tagged
  <2>2. who' \in {Null, "system"}
    BY <2>1 DEF SetWho
  <2>3. TagsTruthful'
    BY <1>3, <2>1, TagsSame
  <2>4. pc'[w] = "idle" /\ FileAt(w)' /\ ReplyAt(w)'
    BY <1>6, <2>1
  <2>5. WhoAt(w)'
    BY <2>4 DEF WhoAt, Untagged, Tagged
  <2> QED
    BY <1>1, <1>4, <2>1, <2>2, <2>3, <2>4, <2>5, ApartFrame
<1> QED
  BY <1>7, <1>8, <1>9, <1>10, <1>11

\* The steps of explain and history calls: a report is made of the rows of a
\* whole file.
LEMMA ReaderApart ==
  ASSUME Apart, AuditInv, ApartInv, NEW w \in Procs,
         LoadChecks(w) \/ LoadParams(w) \/ LoadFields(w) \/ ShowHistory(w)
  PROVE  ApartInv'
<1>1. /\ w \in Procs \ Editors
      /\ \A o \in Procs \ {w} : pc[o] \in Resting
  BY Turn DEF ServerStep
<1>2. /\ UNCHANGED <<tables, triggers, rows, who, log, prev>>
      /\ pc[w] \in {"checks", "params", "fields", "rows"}
      /\ reply \in [Procs -> SUBSET ({"error", "report"} \cup SeedTables \cup Writers)]
  BY DEF LoadChecks, LoadParams, LoadFields, ShowHistory, store, AuditInv, TypeOK
<1>3. WhoAt(w) /\ FileAt(w) /\ ReplyAt(w) /\ TagsTruthful
  BY DEF ApartInv
<1>4. /\ Required \subseteq tables /\ SeedTables \subseteq rows
      /\ who \in {Null, "system"} /\ Whole' /\ TagsTruthful'
  <2>1. \A o \in Procs : pc[o] # "init"
    BY <1>1, <1>2 DEF Resting
  <2>2. Required \subseteq tables /\ who \in {Null, "system"}
    BY <1>2, <1>3 DEF FileAt, WhoAt, Ensured, Untagged
  <2> QED
    BY <1>2, <1>3, <2>1, <2>2, TagsSame DEF ApartInv, Whole
<1>5. /\ {"checks", "check_params", "plan_fields"} \subseteq rows
      /\ {"checks", "plan_fields"} \subseteq tables
  BY <1>4, Names
<1>6. ASSUME NEW l \in {"params", "reopen", "idle"}, Goto(w, l), NEW r,
             reply' = [reply EXCEPT ![w] = r],
             l = "params" => "checks" \in r,
             l = "reopen" => {"checks", "check_params"} \subseteq r,
             "report" \in r => {"checks", "check_params", "plan_fields"} \subseteq r
      PROVE  ApartInv'
  <2>1. pc'[w] = l
    BY <1>6 DEF Goto, AuditInv, TypeOK
  <2>2. reply'[w] = r /\ \A o \in Procs \ {w} : reply'[o] = reply[o]
    BY <1>2, <1>6
  <2>3. WhoAt(w)'
    BY <1>2, <1>4, <2>1 DEF WhoAt, Tagged
  <2>4. FileAt(w)'
    BY <1>2, <1>4, <2>1 DEF FileAt
  <2>5. ReplyAt(w)'
    BY <1>6, <2>1, <2>2 DEF ReplyAt
  <2> QED
    BY <1>1, <1>2, <1>4, <1>6, <2>2, <2>3, <2>4, <2>5, ApartFrame
<1>7. CASE LoadChecks(w)
  <2>1. reply' = [reply EXCEPT ![w] = {"checks"}] /\ Goto(w, "params")
    BY <1>5, <1>7 DEF LoadChecks
  <2> QED
    BY <1>6, <2>1
<1>8. CASE LoadParams(w)
  <2> DEFINE r == reply[w] \cup {"check_params"}
  <2>1. reply' = [reply EXCEPT ![w] = r] /\ Goto(w, "reopen")
    BY <1>5, <1>8 DEF LoadParams
  <2>2. "checks" \in r /\ ("report" \in r => "plan_fields" \in r)
    BY <1>3, <1>8 DEF LoadParams, ReplyAt
  <2>3. "check_params" \in r
    OBVIOUS
  <2> HIDE DEF r
  <2> QED
    BY <1>6, <2>1, <2>2, <2>3
<1>9. CASE LoadFields(w)
  <2> DEFINE r == reply[w] \cup {"report"} \cup ({"plan_fields"} \cap rows)
  <2>1. reply' = [reply EXCEPT ![w] = r] /\ Goto(w, "idle")
    BY <1>5, <1>9 DEF LoadFields
  <2>2. {"checks", "check_params", "plan_fields"} \subseteq r
    BY <1>3, <1>5, <1>9 DEF LoadFields, ReplyAt
  <2> HIDE DEF r
  <2> QED
    BY <1>6, <2>1, <2>2
<1>10. CASE ShowHistory(w)
  <2> DEFINE r == History(TRUE)
  <2>1. reply' = [reply EXCEPT ![w] = r] /\ Goto(w, "idle")
    BY <1>10 DEF ShowHistory
  <2>2. "report" \notin r
    BY HistoryType DEF Writers
  <2> HIDE DEF r
  <2> QED
    BY <1>6, <2>1, <2>2
<1> QED
  BY <1>7, <1>8, <1>9, <1>10

\* A manual edit while all rest is one by "system", who the tag says.
LEMMA EditApart ==
  ASSUME Apart, AuditInv, ApartInv, NEW w \in Procs, Edit(w)
  PROVE  ApartInv'
<1>1. PICK p \in Found, v \in Values : UpdateParams({p}, [q \in Params |-> v], "system")
  BY DEF Edit
<1>2. \A o \in Procs : pc[o] \in Resting
  BY DEF Edit, Free, ApartInv, Alone, Resting
<1>3. /\ UNCHANGED <<tables, triggers, rows, who>>
      /\ UNCHANGED <<pc, at, back, prev, reply>>
      /\ who \in {Null, "system"}
  BY <1>1, <1>2 DEF UpdateParams, Edit, ApartInv
<1>4. TagsTruthful'
  <2>1. \A q \in {p} \cap Params : [r \in Params |-> v][q] \in Values
    OBVIOUS
  <2> QED
    BY <1>1, <1>3, <2>1, TagsUpdate DEF ApartInv, Writers
<1>5. Alone' /\ (Whole <=> Whole')
  BY <1>3 DEF ApartInv, Alone, Whole
<1>6. \A o \in Procs : WhoAt(o)' /\ FileAt(o)' /\ ReplyAt(o)'
  BY <1>3 DEF ApartInv, WhoAt, FileAt, ReplyAt
<1> QED
  BY <1>3, <1>4, <1>5, <1>6 DEF ApartInv

LEMMA ApartInit ==
  Init => ApartInv
<1> SUFFICES ASSUME Init PROVE ApartInv
  OBVIOUS
<1>1. \A w \in Procs : pc[w] = "idle" /\ reply[w] = {}
  BY DEF Init, CallersInit
<1>2. Alone
  BY <1>1 DEF Alone, Resting, Procs
<1>3. who \in {Null, "system"}
  BY DEF Init, NoFile, OldFile, SeededFile
<1>4. Whole
  BY Names DEF Whole, Init, NoFile, OldFile, SeededFile
<1>5. \A w \in Procs : WhoAt(w) /\ FileAt(w) /\ ReplyAt(w)
  BY <1>1 DEF WhoAt, FileAt, ReplyAt, Untagged, Tagged, Ensured
<1>6. TagsTruthful
  BY DEF TagsTruthful, Init, NoFile, OldFile, SeededFile
<1> QED
  BY <1>2, <1>3, <1>4, <1>5, <1>6 DEF ApartInv

LEMMA ApartInductive ==
  ASSUME Apart, Mortal = {}
  PROVE  (AuditInv /\ ApartInv) /\ [Next]_vars => (AuditInv /\ ApartInv)'
<1> SUFFICES ASSUME AuditInv, ApartInv, [Next]_vars
             PROVE  ApartInv'
  BY AuditInductive
<1>1. CASE Next
  <2>1. PICK w \in Procs :
          \/ ServerStep(w) \/ Ensure(w)
          \/ Statement(w) \/ StatementFails(w)
          \/ StartInit(w) \/ Edit(w) \/ Crash(w)
    BY <1>1 DEF Next
  <2>2. ~Crash(w)
    BY DEF Crash
  <2> QED
    BY <2>1, <2>2, BeginApart, WriterApart, ReaderApart, StatementApart, NoFailure, EditApart
       DEF ServerStep
<1>2. CASE UNCHANGED vars
  <2>1. /\ UNCHANGED <<tables, triggers, rows, who, log>>
        /\ UNCHANGED <<pc, at, back, prev, reply>>
    BY <1>2 DEF vars, store, callers
  <2>2. TagsTruthful'
    BY <2>1, TagsSame DEF ApartInv
  <2>3. Alone' /\ (Whole <=> Whole')
    BY <2>1 DEF ApartInv, Alone, Whole
  <2>4. \A o \in Procs : WhoAt(o)' /\ FileAt(o)' /\ ReplyAt(o)'
    BY <2>1 DEF ApartInv, WhoAt, FileAt, ReplyAt
  <2> QED
    BY <2>1, <2>2, <2>3, <2>4 DEF ApartInv
<1> QED
  BY <1>1, <1>2

\* config.py:31, every entry of the log is tagged with who wrote it, when no
\* two processes work on the file at once and none is killed: the rebuilds and
\* the failing calls included.
THEOREM TagSafety ==
  ASSUME Apart, Mortal = {}
  PROVE  Spec => []TagsTruthful
<1>1. AuditInv /\ ApartInv => TagsTruthful
  BY DEF ApartInv
<1> QED
  BY <1>1, AuditInit, ApartInit, ApartInductive, PTL DEF Spec

\* Then a report is made with all checks, their parameters and the field
\* policy, whatever file the servers find: missing, old or ready.
THEOREM ReportSafety ==
  ASSUME Apart, Mortal = {}
  PROVE  Spec => []ReportsAreFull
<1>1. AuditInv /\ ApartInv => ReportsAreFull
  BY DEF ApartInv, ReplyAt, ReportsAreFull, Procs
<1> QED
  BY <1>1, AuditInit, ApartInit, ApartInductive, PTL DEF Spec

\* Each rebuild records the rows it inserts: their table is empty when their
\* trigger is created.
LEMMA StatementReplays ==
  ASSUME Apart, AuditInv, ApartInv, LogReplays, NEW w \in Procs, Statement(w)
  PROVE  LogReplays'
<1> DEFINE i == at[w]
<1>1. pc[w] = "init" /\ i \in 1..26 /\ Execute(Script[i])
  BY ScriptIs DEF Statement, AuditInv, PlaceOK
<1>2. CASE i \in 1..6
  <2>1. DropTable(Drops[i])
    BY <1>1, <1>2, ScriptIs DEF Execute
  <2>2. UNCHANGED log /\ triggers' \subseteq triggers
        /\ \A p \in Params : value'[p] \in {value[p], Null}
    BY <2>1 DEF DropTable, AuditInv, TypeOK
  <2> QED
    BY <2>2, LogSame
<1>3. CASE i \in 7..14
  <2>1. CreateTable(Creates[i - 6])
    BY <1>1, <1>3, ScriptIs DEF Execute
  <2>2. UNCHANGED <<log, triggers, value>>
    BY <2>1 DEF CreateTable
  <2> QED
    BY <2>2, LogSame
<1>4. CASE i \in 15..17
  <2>1. CreateTriggers(Audited[i - 14])
    BY <1>1, <1>4, ScriptIs DEF Execute
  <2>2. UNCHANGED <<log, value>> /\ triggers' = triggers \cup {Audited[i - 14]}
    BY <2>1 DEF CreateTriggers
  <2>3. "check_params" \in SeedTables /\ DropAt["check_params"] = 1 /\ InsertAt["check_params"] = 23
    BY Names DEF DropAt, InsertAt
  <2>4. "check_params" \notin rows
    BY <1>1, <1>4, <2>3 DEF ApartInv, FileAt
  <2>5. \A p \in Params : value'[p] = Null
    BY <2>2, <2>4 DEF AuditInv, RowsInv
  <2> QED
    BY <2>2, <2>5, LogSame
<1>5. CASE i = 18 \/ i = 25
  <2>1. \E tag : SetWho(tag)
    BY <1>1, <1>5, ScriptIs DEF Execute
  <2>2. UNCHANGED <<log, triggers, value>>
    BY <2>1 DEF SetWho
  <2> QED
    BY <2>2, LogSame
<1>6. CASE i \in 19..24
  <2>1. InsertSeed(Inserts[i - 18]) /\ Inserts[i - 18] \in SeedTables
    BY <1>1, <1>6, ScriptIs, Places DEF Execute
  <2> QED
    BY <2>1, LogInsert
<1>7. CASE i = 26
  <2>1. UNCHANGED <<log, triggers, value>>
    BY <1>1, <1>7, ScriptIs DEF Execute, CountSeed, store
  <2> QED
    BY <2>1, LogSame
<1>8. i \in 1..6 \/ i \in 7..14 \/ i \in 15..17 \/ (i = 18 \/ i = 25) \/ i \in 19..24 \/ i = 26
  BY <1>1
<1> HIDE DEF i
<1> QED
  BY <1>2, <1>3, <1>4, <1>5, <1>6, <1>7, <1>8

\* The log replays through every rebuild too, when nobody works on the file
\* at the same time as somebody else and nobody is killed.
THEOREM LogSafetyApart ==
  ASSUME Apart, Mortal = {}
  PROVE  Spec => []LogReplays
<1> DEFINE Inv == AuditInv /\ ApartInv /\ LogReplays
<1>1. Init => LogReplays
  <2> SUFFICES ASSUME Init PROVE LogReplays
    OBVIOUS
  <2>1. CASE SeededFile
    BY <2>1, ReadyIsInit DEF Init, ReadyInit, ReadyInv
  <2>2. CASE NoFile \/ OldFile
    <3>1. DOMAIN log = {} /\ (\A p \in Params : value[p] = Null \/ triggers = {})
      BY <2>2 DEF NoFile, OldFile
    <3> QED
      BY <3>1 DEF LogReplays
  <2> QED
    BY <2>1, <2>2 DEF Init
<1>2. Inv /\ [Next]_vars => Inv'
  <2> SUFFICES ASSUME Inv, [Next]_vars PROVE LogReplays'
    BY ApartInductive
  <2>1. CASE Next
    <3>1. PICK w \in Procs :
            \/ ServerStep(w) \/ Ensure(w)
            \/ Statement(w) \/ StatementFails(w)
            \/ StartInit(w) \/ Edit(w) \/ Crash(w)
      BY <2>1 DEF Next
    <3> QED
      BY <3>1, StatementReplays, LogOther, LogWrite DEF ServerStep
  <2>2. CASE UNCHANGED vars
    <3>1. UNCHANGED <<tables, triggers, value, log>>
      BY <2>2 DEF vars, store
    <3> QED
      BY <3>1, LogSame
  <2> QED
    BY <2>1, <2>2
<1>3. Inv => LogReplays
  OBVIOUS
<1> QED
  BY <1>1, <1>2, <1>3, AuditInit, ApartInit, PTL DEF Spec
=============================================================================
