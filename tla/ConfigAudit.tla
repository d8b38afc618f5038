----------------------------- MODULE ConfigAudit -----------------------------
(***************************************************************************)
(* The registry of checks, its audit log and everyone who works on them.   *)
(***************************************************************************)
EXTENDS ConfigCallers

Next ==
  \E w \in Procs :
    \/ ServerStep(w) \/ Ensure(w)
    \/ Statement(w) \/ StatementFails(w)
    \/ StartInit(w) \/ Edit(w) \/ Crash(w)

\* A file that is missing, of an old version, or ready.
Init == (NoFile \/ OldFile \/ SeededFile) /\ CallersInit
ReadyInit == SeededFile /\ CallersInit

Spec == Init /\ [][Next]_vars
ReadySpec == ReadyInit /\ [][Next]_vars

-----------------------------------------------------------------------------
PcLabels == {"idle", "enter", "readWho", "tag", "inner", "read", "write", "exit",
             "open", "checks", "params", "reopen", "fields", "list", "rows",
             "init", "done", "dead"}

Writers == {"system", "llm", "seed"}

LogEntries ==
  [table : AuditedTables, of : Params \cup AuditedTables, op : {"I", "U"},
   old : Values \cup {Null}, new : Values, who : Writers, by : Writers]

TypeOK ==
  /\ tables \subseteq Required
  /\ triggers \subseteq AuditedTables \cap tables
  /\ rows \subseteq SeedTables \cap tables
  /\ value \in [Params -> Values \cup {Null}]
  /\ who \in Writers \cup {Null}
  /\ log \in Seq(LogEntries)
  /\ pc \in [Procs -> PcLabels]
  /\ at \in [Procs -> 0..Len(Script)]
  /\ back \in [Procs -> PcLabels]
  /\ call \in [Procs -> {NoCall} \cup Calls]
  /\ prev \in [Procs -> Writers \cup {Null}]
  /\ seen \in [Procs -> [Params -> Values \cup {Null}]]
  /\ reply \in [Procs -> SUBSET ({"error", "report"} \cup SeedTables \cup Writers)]
  /\ calls \in [Procs -> 0..MaxCalls]

\* Entry i is the last one about the parameter p before entry j.
LastBefore(p, i, j) ==
  /\ i < j /\ log[i].of = p
  /\ \A k \in i + 1 .. j - 1 : log[k].of # p

\* README.md:314, every change is recorded: a parameter has the value of its
\* last entry, and every update entry starts from the value of the one before.
LogReplays ==
  \A p \in Params :
    /\ value[p] # Null /\ "check_params" \in triggers
         => \E i \in DOMAIN log : LastBefore(p, i, Len(log) + 1) /\ log[i].new = value[p]
    /\ \A j \in DOMAIN log :
         log[j].of = p /\ log[j].op = "U"
           => \E i \in DOMAIN log : LastBefore(p, i, j) /\ log[i].new = log[j].old

\* config.py:31: an entry is tagged with who wrote it: 'llm' for tool calls,
\* 'seed' for seed.sql, 'system' for manual edits.
TagsTruthful ==
  \A i \in DOMAIN log : log[i].who = log[i].by

\* However many processes found the file missing and built it at once, when
\* nobody works on it any more its tables and triggers are there: the last one
\* to drop a table goes on to create it.
SchemaWhenIdle ==
  (\A w \in Procs : pc[w] \in Resting) /\ "config_audit" \in tables
    => tables = Required /\ triggers = AuditedTables

\* A report is made with all checks and the field policy, or not at all.
ReportsAreFull ==
  \A w \in Servers :
    "report" \in reply[w] => {"checks", "check_params", "plan_fields"} \subseteq reply[w]

-----------------------------------------------------------------------------
(***************************************************************************)
(* What the documentation says and the code does not do.                   *)
(***************************************************************************)

\* config.py:460, a missing database is created from schema.sql and seed.sql,
\* and config.py:303, it is rebuilt when anything is missing: when nobody
\* works on the file any more, its seed rows are there.
SeededWhenIdle ==
  (\A w \in Procs : pc[w] \in Resting) /\ "config_audit" \in tables => rows = SeedTables

=============================================================================
