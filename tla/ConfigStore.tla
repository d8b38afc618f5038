----------------------------- MODULE ConfigStore -----------------------------
(***************************************************************************)
(* checks.db, the SQLite file with pg-explain's registry of checks and its *)
(* audit log: the statements of schema.sql, seed.sql and config.py.        *)
(*                                                                         *)
(* A statement is one step.  sqlite3.Connection.executescript and DROP run *)
(* outside any transaction, so every statement of a rebuild is committed   *)
(* by itself and others may work on the file between two of them.          *)
(***************************************************************************)
EXTENDS Integers, Sequences, FiniteSets

CONSTANTS
  Params,     \* the rows of check_params: one parameter of one check
  Values,     \* the values a parameter may have
  Default,    \* the one every parameter has in seed.sql
  Null        \* SQL NULL: no row, no old or new value

\* NULL is neither a value nor a name; a parameter is no table (an entry of the
\* log is about one or the other).
ASSUME StoreAssumption ==
  /\ IsFiniteSet(Params) /\ Params # {}
  /\ Params \cap {"checks", "check_params", "plan_fields"} = {}
  /\ Default \in Values
  /\ Null \notin Values \cup {"system", "llm", "seed"}

VARIABLES
  tables,     \* the tables that exist
  triggers,   \* the audited tables whose audit triggers exist
  rows,       \* the tables that have their seed rows
  value,      \* check_params.value, Null where there is no row
  who,        \* _audit_session.who, Null while that table has no row
  log         \* config_audit, with two columns it does not have: of, the
              \* parameter (or table) an entry is about, and by, its writer

store == <<tables, triggers, rows, value, who, log>>

-----------------------------------------------------------------------------
\* Mutated form: a table missing from the list of those to drop.
DropsButDatabases == <<"check_params", "checks_tags", "checks", "tags", "plan_fields">>

\* The orders of _SEED_OBJECTS_DROP, schema.sql and seed.sql.
Drops == <<"check_params", "checks_tags", "checks", "tags", "plan_fields", "databases">>
Creates == <<"databases", "checks", "tags", "checks_tags", "check_params",
             "plan_fields", "_audit_session", "config_audit">>
Audited == <<"checks", "check_params", "plan_fields">>
Inserts == <<"databases", "tags", "checks", "checks_tags", "check_params", "plan_fields">>

SeedTables == {Inserts[i] : i \in DOMAIN Inserts}
AuditedTables == {Audited[i] : i \in DOMAIN Audited}

\* _REQUIRED_COLUMNS: what _ensure_db looks for.
Required == {Creates[i] : i \in DOMAIN Creates}

Each(verb, names) == [i \in DOMAIN names |-> [do |-> verb, arg |-> names[i]]]

\* Mutated form: the rows are inserted before there are triggers.
TriggersLast ==
  Each("drop", Drops)
  \o Each("create", Creates)
  \o <<[do |-> "who", arg |-> "seed"]>>
  \o Each("insert", Inserts)
  \o Each("trigger", Audited)
  \o <<[do |-> "who", arg |-> "system"], [do |-> "count", arg |-> "checks"]>>

\* The statements of init_db.  The row of _audit_session is inserted when its
\* table is created; the view and the indexes are left out, and the triggers
\* of a table are created in one step.
Script ==
  Each("drop", Drops)
  \o Each("create", Creates)
  \o Each("trigger", Audited)
  \o <<[do |-> "who", arg |-> "seed"]>>
  \o Each("insert", Inserts)
  \o <<[do |-> "who", arg |-> "system"], [do |-> "count", arg |-> "checks"]>>

-----------------------------------------------------------------------------
Entry(t, of, op, old, new, by) ==
  [table |-> t, of |-> of, op |-> op, old |-> old, new |-> new,
   who |-> who, by |-> by]

\* An order of the parameters S, in which their rows are written.
RowOrder(S) ==
  CHOOSE s \in [1..Cardinality(S) -> S] : \A i, j \in DOMAIN s : s[i] = s[j] => i = j

ParamRows == RowOrder(Params)

\* What the insert triggers of a table log of its seed rows; one entry stands
\* for all rows of checks and of plan_fields.
SeedEntries(t) ==
  IF t \notin triggers THEN <<>>
  ELSE IF t = "check_params"
       THEN [i \in DOMAIN ParamRows |->
               Entry(t, ParamRows[i], "I", Null, Default, "seed")]
       ELSE <<Entry(t, t, "I", Null, Default, "seed")>>

\* DROP TABLE drops the triggers too and fires none.
DropTable(t) ==
  /\ tables' = tables \ {t}
  /\ triggers' = triggers \ {t}
  /\ rows' = rows \ {t}
  /\ value' = IF t = "check_params" THEN [p \in Params |-> Null] ELSE value
  /\ UNCHANGED <<who, log>>

\* Mutated form: the row of _audit_session is forgotten.
CreateOnlyTable(t) ==
  /\ tables' = tables \cup {t}
  /\ UNCHANGED <<triggers, rows, value, who, log>>

CreateTable(t) ==
  /\ tables' = tables \cup {t}
  /\ who' = IF t = "_audit_session" /\ who = Null THEN "system" ELSE who
  /\ UNCHANGED <<triggers, rows, value, log>>

CreateTriggers(t) ==
  /\ t \in tables
  /\ triggers' = triggers \cup {t}
  /\ UNCHANGED <<tables, rows, value, who, log>>

\* UPDATE _audit_session ... WHERE id = 1
SetWho(tag) ==
  /\ who' = IF who = Null THEN Null ELSE tag
  /\ UNCHANGED <<tables, triggers, rows, value, log>>

\* The primary keys make a second insert of the same rows fail.
InsertSeed(t) ==
  /\ t \in tables \ rows
  /\ rows' = rows \cup {t}
  /\ value' = IF t = "check_params" THEN [p \in Params |-> Default] ELSE value
  /\ log' = log \o SeedEntries(t)
  /\ UNCHANGED <<tables, triggers, who>>

\* init_db's last look: no checks or no plan fields is an error.
CountSeed ==
  /\ {"checks", "plan_fields"} \subseteq rows
  /\ UNCHANGED store

Execute(s) ==
  \/ s.do = "drop" /\ DropTable(s.arg)
  \/ s.do = "create" /\ CreateTable(s.arg)
  \/ s.do = "trigger" /\ CreateTriggers(s.arg)
  \/ s.do = "who" /\ SetWho(s.arg)
  \/ s.do = "insert" /\ InsertSeed(s.arg)
  \/ s.do = "count" /\ CountSeed

\* Mutated form: CREATE TABLE without IF NOT EXISTS.
FailsIfExists(s) ==
  \/ s.do = "create" /\ s.arg \in tables
  \/ s.do = "trigger" /\ s.arg \notin tables
  \/ s.do = "insert" /\ s.arg \notin tables \ rows
  \/ s.do = "count" /\ ~({"checks", "plan_fields"} \subseteq rows)

\* no such table, UNIQUE constraint failed, or nothing counted
Fails(s) ==
  \/ s.do = "trigger" /\ s.arg \notin tables
  \/ s.do = "insert" /\ s.arg \notin tables \ rows
  \/ s.do = "count" /\ ~({"checks", "plan_fields"} \subseteq rows)

-----------------------------------------------------------------------------
\* The parameters a query joining checks and check_params finds.
Found == IF "checks" \in rows THEN {p \in Params : value[p] # Null} ELSE {}

CanQuery == {"checks", "check_params"} \subseteq tables

\* UPDATE check_params SET value = new[p] for the parameters S, in one
\* transaction.  The update trigger logs the rows whose value changes, with
\* the value they had.
UpdateParams(S, new, by) ==
  LET hit == S \cap Found
      changed == {p \in hit : new[p] # value[p] /\ "check_params" \in triggers}
      order == RowOrder(changed)
  IN /\ CanQuery
     /\ value' = [p \in Params |-> IF p \in hit THEN new[p] ELSE value[p]]
     /\ log' = log \o [i \in DOMAIN order |->
          Entry("check_params", order[i], "U", value[order[i]], new[order[i]], by)]
     /\ UNCHANGED <<tables, triggers, rows, who>>

-----------------------------------------------------------------------------
\* No file.
NoFile ==
  /\ tables = {} /\ triggers = {} /\ rows = {}
  /\ value = [p \in Params |-> Null]
  /\ who = Null
  /\ log = <<>>

\* A file made by a version before 0.5.1, which had no audit log.
OldFile ==
  /\ tables = SeedTables /\ triggers = {} /\ rows = SeedTables
  /\ value = [p \in Params |-> Default]
  /\ who = Null
  /\ log = <<>>

\* A file init_db has made; of the log, the entries of the parameters.
SeededFile ==
  /\ tables = Required /\ triggers = AuditedTables /\ rows = SeedTables
  /\ value = [p \in Params |-> Default]
  /\ who = "system"
  /\ log = [i \in DOMAIN ParamRows |->
              [table |-> "check_params", of |-> ParamRows[i], op |-> "I", old |-> Null,
               new |-> Default, who |-> "seed", by |-> "seed"]]

=============================================================================
