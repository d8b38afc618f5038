---------------------------- MODULE ConfigCallers ----------------------------
(***************************************************************************)
(* The processes that work on checks.db: MCP servers (one per client, each *)
(* serving one tool call after the other), pg-explain-config --init, and   *)
(* manual edits with sqlite3.  Between two statements or transactions of   *)
(* one process the others may run.                                         *)
(***************************************************************************)
EXTENDS ConfigStore

CONSTANTS
  Servers,    \* server.py
  Admins,     \* config.py --init
  Editors,    \* sqlite3 checks.db "update check_params ..."
  Mortal,     \* the processes that may be killed
  Checks,     \* the parameters of each check
  Invalid,    \* a value that _validate_value rejects
  MaxCalls,   \* calls of one server, edits of one editor
  Apart       \* no call begins while another is under way

Procs == Servers \cup Admins \cup Editors

ASSUME CallersAssumption ==
  /\ Servers \cap (Admins \cup Editors) = {}
  /\ Admins \cap Editors = {}
  /\ Mortal \subseteq Procs
  /\ UNION Checks = Params
  /\ Invalid \notin Values \cup {Null}
  /\ MaxCalls \in Nat
  /\ Apart \in BOOLEAN

VARIABLES
  pc,         \* where each process is
  at,         \* the statement of init_db it comes to
  back,       \* where it goes on after init_db
  call,       \* the tool call it serves
  prev,       \* who before its audit_writer block
  seen,       \* the values it has read
  reply,      \* what its last call has returned
  calls       \* how many calls it has begun

callers == <<pc, at, back, call, prev, seen, reply, calls>>
vars == <<store, callers>>

NoCall == [op |-> "none", on |-> {}, to |-> [p \in Params |-> Default], seed |-> FALSE]

SetCall(p, v) == [NoCall EXCEPT !.op = "set", !.on = {p}, !.to[p] = v]
ResetCall(S) == [NoCall EXCEPT !.op = "reset", !.on = S]
ExplainCall == [NoCall EXCEPT !.op = "explain"]
HistoryCall(b) == [NoCall EXCEPT !.op = "history", !.seed = b]

Calls ==
  {SetCall(p, v) : p \in Params, v \in Values \cup {Invalid}}
    \cup {ResetCall(S) : S \in Checks \cup {{p} : p \in Params}}
    \cup {ExplainCall}
    \cup {HistoryCall(b) : b \in BOOLEAN}

CallersInit ==
  /\ pc = [w \in Procs |-> "idle"]
  /\ at = [w \in Procs |-> 0]
  /\ back = [w \in Procs |-> "idle"]
  /\ call = [w \in Procs |-> NoCall]
  /\ prev = [w \in Procs |-> Null]
  /\ seen = [w \in Procs |-> [p \in Params |-> Null]]
  /\ reply = [w \in Procs |-> {}]
  /\ calls = [w \in Procs |-> 0]

Resting == {"idle", "done", "dead"}

Free(w) == Apart => \A o \in Procs \ {w} : pc[o] \in Resting

Goto(w, label) == pc' = [pc EXCEPT ![w] = label]

-----------------------------------------------------------------------------
\* Where each function of a call begins: with its own _ensure_db.
FirstStep == [set |-> "enter", reset |-> "enter", explain |-> "open", history |-> "list"]

\* What comes after an _ensure_db that finds everything.
After == [enter |-> "readWho", inner |-> "read", open |-> "checks",
          reopen |-> "fields", list |-> "rows"]

Begin(w) ==
  /\ w \in Servers /\ pc[w] = "idle" /\ calls[w] < MaxCalls /\ Free(w)
  /\ \E c \in Calls :
       /\ call' = [call EXCEPT ![w] = c]
       /\ Goto(w, FirstStep[c.op])
  /\ calls' = [calls EXCEPT ![w] = @ + 1]
  /\ reply' = [reply EXCEPT ![w] = {}]
  /\ UNCHANGED <<store, at, back, prev, seen>>

\* _ensure_db: rebuild the file if a table is missing.
Ensure(w) ==
  /\ pc[w] \in DOMAIN After
  /\ \/ /\ Required \subseteq tables
        /\ Goto(w, After[pc[w]])
        /\ UNCHANGED <<at, back>>
     \/ /\ ~(Required \subseteq tables)
        /\ Goto(w, "init")
        /\ at' = [at EXCEPT ![w] = 1]
        /\ back' = [back EXCEPT ![w] = After[pc[w]]]
  /\ UNCHANGED <<store, call, prev, seen, reply, calls>>

\* A failed init_db ends the tool call with an error, after the exit of its
\* audit_writer block if it is inside one.
OnError(label) == IF label \in {"read", "write"} THEN "exit"
                  ELSE IF label = "done" THEN "done" ELSE "idle"

Statement(w) ==
  /\ pc[w] = "init"
  /\ Execute(Script[at[w]])
  /\ at' = [at EXCEPT ![w] = IF @ = Len(Script) THEN 0 ELSE @ + 1]
  /\ Goto(w, IF at[w] = Len(Script) THEN back[w] ELSE "init")
  /\ UNCHANGED <<back, call, prev, seen, reply, calls>>

StatementFails(w) ==
  /\ pc[w] = "init"
  /\ Fails(Script[at[w]])
  /\ at' = [at EXCEPT ![w] = 0]
  /\ Goto(w, OnError(back[w]))
  /\ UNCHANGED <<store, back, call, prev, seen, reply, calls>>

\* audit_writer, up to the yield: read the tag, then set it to 'llm'.
ReadWho(w) ==
  /\ pc[w] = "readWho"
  /\ prev' = [prev EXCEPT ![w] = who]
  /\ Goto(w, IF who = Null THEN "idle" ELSE "tag")
  /\ UNCHANGED <<store, at, back, call, seen, reply, calls>>

TagWho(w) ==
  /\ pc[w] = "tag"
  /\ SetWho("llm")
  /\ Goto(w, "inner")
  /\ UNCHANGED <<at, back, call, prev, seen, reply, calls>>

\* set_param and reset_param read the rows the call is about; a value that is
\* not valid, a missing table or no rows raise an error.
ReadParams(w) ==
  /\ pc[w] = "read"
  /\ LET found == call[w].on \cap Found
         valid == \A p \in call[w].on : call[w].to[p] \in Values
     IN \/ /\ CanQuery /\ valid /\ found # {}
           /\ seen' = [seen EXCEPT ![w] =
                         [p \in Params |-> IF p \in found THEN value[p] ELSE Null]]
           /\ Goto(w, "write")
        \/ /\ ~(CanQuery /\ valid /\ found # {})
           /\ Goto(w, "exit")
           /\ UNCHANGED seen
  /\ UNCHANGED <<store, at, back, call, prev, reply, calls>>

\* What the call writes: set_param its row, reset_param those it has seen
\* changed.
ToWrite(w) ==
  {p \in call[w].on : seen[w][p] # Null /\ (call[w].op = "reset" => seen[w][p] # Default)}

\* Mutated form: the caller logs what it has read instead of the trigger.
WriteParamsLogged(w) ==
  /\ pc[w] = "write"
  /\ CanQuery
  /\ LET order == RowOrder(ToWrite(w) \cap Found)
     IN /\ value' = [p \in Params |->
                       IF p \in ToWrite(w) \cap Found THEN call[w].to[p] ELSE value[p]]
        /\ log' = log \o [i \in DOMAIN order |->
             Entry("check_params", order[i], "U", seen[w][order[i]],
                   call[w].to[order[i]], "llm")]
  /\ Goto(w, "exit")
  /\ UNCHANGED <<tables, triggers, rows, who, at, back, call, prev, seen, reply, calls>>

WriteParams(w) ==
  /\ pc[w] = "write"
  /\ \/ UpdateParams(ToWrite(w), call[w].to, "llm")
     \/ ~CanQuery /\ UNCHANGED store
  /\ Goto(w, "exit")
  /\ UNCHANGED <<at, back, call, prev, seen, reply, calls>>

\* Mutated form: audit_writer without its try ... finally.
ExitUnlessFailed(w) ==
  /\ pc[w] = "exit"
  /\ SetWho(IF \A p \in call[w].on : call[w].to[p] # Invalid THEN prev[w] ELSE who)
  /\ Goto(w, "idle")
  /\ UNCHANGED <<at, back, call, prev, seen, reply, calls>>

\* The finally of audit_writer.
Exit(w) ==
  /\ pc[w] = "exit"
  /\ SetWho(prev[w])
  /\ Goto(w, "idle")
  /\ UNCHANGED <<at, back, call, prev, seen, reply, calls>>

-----------------------------------------------------------------------------
\* explain: load_checks reads the checks, then the parameters of each; without
\* its parameters a check cannot be made.
LoadChecks(w) ==
  /\ pc[w] = "checks"
  /\ reply' = [reply EXCEPT ![w] = IF "checks" \notin tables THEN {"error"}
                                  ELSE IF "checks" \in rows THEN {"checks"} ELSE {}]
  /\ Goto(w, IF "checks" \notin tables THEN "idle"
             ELSE IF "checks" \in rows THEN "params" ELSE "reopen")
  /\ UNCHANGED <<store, at, back, call, prev, seen, calls>>

LoadParams(w) ==
  /\ pc[w] = "params"
  /\ reply' = [reply EXCEPT ![w] = IF "check_params" \in rows
                                  THEN @ \cup {"check_params"} ELSE {"error"}]
  /\ Goto(w, IF "check_params" \in rows THEN "reopen" ELSE "idle")
  /\ UNCHANGED <<store, at, back, call, prev, seen, calls>>

\* load_field_config: without rows the report is made with every field.
LoadFields(w) ==
  /\ pc[w] = "fields"
  /\ reply' = [reply EXCEPT ![w] =
                 IF "plan_fields" \notin tables THEN {"error"}
                 ELSE @ \cup {"report"} \cup ({"plan_fields"} \cap rows)]
  /\ Goto(w, "idle")
  /\ UNCHANGED <<store, at, back, call, prev, seen, calls>>

\* history of config.py, up to its filters and its order: the writers shown.
History(include_seed) == {log[i].who : i \in DOMAIN log} \ (IF include_seed THEN {} ELSE {"seed"})

\* CheckRegistry.history passes the path of the file where history expects
\* include_seed, and a path counts as true.
ShowHistory(w) ==
  /\ pc[w] = "rows"
  /\ reply' = [reply EXCEPT ![w] = History(TRUE)]
  /\ Goto(w, "idle")
  /\ UNCHANGED <<store, at, back, call, prev, seen, calls>>

ServerStep(w) ==
  \/ Begin(w) \/ ReadWho(w) \/ TagWho(w) \/ ReadParams(w) \/ WriteParams(w) \/ Exit(w)
  \/ LoadChecks(w) \/ LoadParams(w) \/ LoadFields(w) \/ ShowHistory(w)

-----------------------------------------------------------------------------
\* pg-explain-config --init
StartInit(w) ==
  /\ w \in Admins /\ pc[w] = "idle" /\ Free(w)
  /\ Goto(w, "init")
  /\ at' = [at EXCEPT ![w] = 1]
  /\ back' = [back EXCEPT ![w] = "done"]
  /\ UNCHANGED <<store, call, prev, seen, reply, calls>>

\* A manual edit of one row.
Edit(w) ==
  /\ w \in Editors /\ calls[w] < MaxCalls /\ Free(w)
  /\ \E p \in Found, v \in Values :
       /\ v # value[p]
       /\ UpdateParams({p}, [q \in Params |-> v], "system")
  /\ calls' = [calls EXCEPT ![w] = @ + 1]
  /\ UNCHANGED <<pc, at, back, call, prev, seen, reply>>

\* The process is killed; no statement is left half done.
Crash(w) ==
  /\ w \in Mortal /\ pc[w] \notin {"done", "dead"}
  /\ Goto(w, "dead")
  /\ UNCHANGED <<store, at, back, call, prev, seen, reply, calls>>

=============================================================================
