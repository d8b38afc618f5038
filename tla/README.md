# A verification of pg-explain-mcp

The repository holds four programs that share no code and meet only through
PostgreSQL:

| program | directory | what it is |
|---|---|---|
| pg-explain | `src/pg_explain_mcp`, `config` | an MCP server that runs EXPLAIN and looks for problems in the plan, with a registry of checks in SQLite |
| pg-tune | `pg-tune` | an MCP server for maintenance: backups and restores of databases, a registry of its tools |
| yt-parser | `yt-parser` | a pipeline of processes that load, embed and analyse YouTube videos, with a queue in PostgreSQL |
| utils | `utils` | a loader of books into PostgreSQL and the search over them |

The TLA+ modules here are translated from the code, not from its
documentation. `PROJECT.json` says for every definition which lines it stands
for, for every run what it checks, and for every property which plausible bug
of the code (a *mutated form* in the module) makes TLC find it violated.

## 1. Inventory

**A. yt-parser.** State: the tables `yt_source` (transcript, average vector),
`yt_chunks` (text and vector of each chunk), `yt_status` (one row per video: a
state machine added → process_load → loaded → process_embed → embedded →
process_solution → solution, with three failed_* statuses), `yt_solution`,
`yt_attributes`, channels and tags.  Operations: `enqueue_api.py` inserts a
video; three worker programs (`load_video.py -p`, `embed_chunks.py -p`,
`exec_llm.py -p`) claim batches by status, work, and write the next status;
`recover_stuck` puts rows back whose status is over 30 minutes old;
`load_video.py -y` and `embed_chunks.py` without `-p` go past the queue;
`mcp_server.py` answers tool calls.  The parts interact only through the
tables.  Hard: any number of processes run at once and each step of one is a
transaction of its own, processes die with work in hand, minutes pass between
a read and the write that depends on it (a download, a model), the timeout
cannot tell a slow worker from a dead one.  Correct means: no video is in two
hands, a status promises what is stored, vectors, averages and solutions belong
to the text beside them, every video gets to an end.

**B. pg-explain registry** (`config.py`, `config/schema.sql`, the tools of
`server.py`).  State: a SQLite file with `databases`, `checks`, `tags`,
`check_params` and `plan_fields`; triggers append every change to
`config_audit` with the name of who made it, kept in the one-row table
`_audit_session`.
Operations: `set_param`, `reset_param`, `history`, `show_params`, `init_db`,
`_ensure_db` (rebuild what is missing), `audit_writer`, `load_checks`.  Callers: the command line (`parse.py`), the MCP
tools (`set_checker_value`, `reset_checker_value`, `history`).  Hard: several
connections and processes write one file, each in several transactions; the
writer's name is shared state; a rebuild commits statement by statement under
readers and other rebuilds; a process may die inside `audit_writer`.  Correct
means: the log replays to the present values, every entry names its writer, a
rebuilt file is complete, readers see whole configurations.

**C. pg-explain analyzer** (`analyzer.py`).  State of a call: the tree of the
plan, the stack of the walk over it, the checks with what they cache, the issues,
the list or text that is put out.  Operations: `new_parse_plan`,
`new_analyze_plan` with eleven checks, `new_plan_to_list`,
`new_format_plan_tree`.  It is called by the MCP tools `explain`, `explain_tree`
and `explain_tree_text` and by the command line.  Hard: the walk of the checks
uses a stack and the output a recursion, and the answer refers from one to the
other; one check reads the indexes of the database in the middle of the walk, and
the registry is read twice, while others change both; a doubling loop needs a
positive start.  Correct means: issues, tree and text are about the same nodes,
every check is applied to every node by one set of parameters and indexes, every
call ends.

**D. pg-explain command line** (`parse.py`) and **E. database access**
(`db.py`): argument handling, printing, read-only queries on one connection per
call.

**F. pg-tune.**  State: a SQLite registry (`tune_settings` with the permissions,
`tune_backups`, and `tune_audit`, `tune_vec_params`, `tune_audit_vector`, which
no code writes yet), dump files on disk, the databases themselves.  Operations:
`set_setting`, `reset_setting`, `is_allowed`, `make_backup` (pg_dump, then
record it), `inspect_restore`, `do_restore` (checks, DROP DATABASE, CREATE,
pg_restore, mark), the MCP tools and the command line around them.  Hard: checks
made before a long external command that relies on them (permission, checksum,
existence), steps of a destructive sequence that fail or are interrupted,
backups and restores of one database at once, files and registry that must
agree.  Correct means: no restore without a confirmed preview and a permission,
a registered backup has a file of its checksum, a database is never lost
without its dump.

**G. utils.**  `load_to_pg.py` downloads a data set to a raw file, cuts its books
into chunks with the chapter each begins in (`chapter_parser.py`) in two CSV
files, creates the tables `book_header` and `book_text` and copies the files into
them; `tools/book_search.py` searches them.  State: the files of the storage
directory, named by `--limit` and `--chunk-size` alone, and the tables.  Hard:
`--use-cache` takes files by their names, whoever has left them there and
wherever that run died; two runs use the same files and tables; the tables are
looked at, created, filled in separate transactions with locks in different
orders; the splitter's boundaries.  Correct means: a fresh run loads its whole
data set, no text stands under another book's title, loaded books are replaced
with `--override` only, the chunks are the text.

## 2. Plan

In the order of how much depends on them; each step is a group of modules with a
section below:

1. yt-parser: `YtPipeline` and its parts (sections 3 to 5), with the abstract
   `VideoLifecycle` it refines.
2. Registry and audit of pg-explain: `ConfigAudit` and its parts (section 6).
3. pg-tune: `TuneOps` and its parts (section 7).
4. The analyzer: `PlanReport` and its parts (section 8).
5. The book loader: `BookLoad` and its parts (section 9).

What could follow: `yt_attributes` and `mcp_server.py` of yt-parser, and what two
overlapping runs of the book loader still guarantee.

The runs stay few: each asks a question of its own of one component.

Every invariant, action property and refinement that a passing run checks is also a
theorem.  Liveness stays with TLC (`EventuallySettled`, `LoadedIsClaimed`,
`CallsEnd`): it needs fairness and ENABLED, which the prover does not have.  No
module uses a RECURSIVE operator: recursion is a function on a set of numbers, so
that what it computes can be proved (section 9 says how).  `Induction` has the lemmas
about numbers, recursive functions and sequences that several proofs share.

## 3. yt-parser: the modules

| module | models |
|---|---|
| `YtStatus` | the statuses and the three stages (`db.py`) |
| `YtDb` | the tables and the functions of `db.py` on them; `source_fully_embedded` |
| `YtWorker` | the processes, their place in the loop, what they hold in memory; the loop all three workers share; crashes and passing time |
| `YtLoad` | `enqueue_api.py`, `process_video`, the `-y` run |
| `YtChunks` | `chunk_text`, a function of a text and a size |
| `YtEmbed` | `embed_one_source` and the rest of the embedder's turn, the legacy run |
| `YtSolve` | the analyst's turn (`exec_llm.py`) |
| `YtPipeline` | all of them side by side: `Init`, `Next`, fairness, the properties |
| `VideoLifecycle` | abstract: the queue as its users see it, a status and an owner per video |
| `YtRefinement` | the mapping of `YtPipeline` to `VideoLifecycle` |
| `YtInvariants` | the inductive strengthenings of the invariants |
| `YtPipelineProofs` | theorems and proofs, the refinement included |
| `MCYtPipeline` | the instances for TLC (`Yt*.cfg`) |

**State.** One record of the tables per video: `status`, `contain` (the
transcript), `chunkText` (the text the chunk rows were cut from), `vector` (of
each chunk: the text it was computed from), `average` (the vectors
`yt_source.embedding` was averaged from), `solution` (the text the answer was
extracted from).  Keeping *which text* a derived value came from, instead of the
value, is what makes staleness visible.  A transcript is a model value; `Blank`
is the empty transcript, which has no chunks.  `yt_status.updated_at` is kept as
what the code asks of it: `stale` (older than 30 minutes, `recover_stuck`) and
`before` (the order of `ORDER BY updated_at`, with ties for rows written in one
statement).  Of a process: `pc`, the claimed `batch`, the source in hand `cur`,
the transcript in memory `text`, the chunk rows read and not yet written `rows`.

**Steps.** One committed transaction is one step, with the memory work next to
it; so other processes come in between any two transactions, as in the code.
PostgreSQL runs these transactions READ COMMITTED.  Three facts of the database
are used:

- A claim with `FOR UPDATE SKIP LOCKED` running beside another takes what a
  later claim would take, so claims are serial.
- `UPDATE yt_chunks ... WHERE id = ...` on a row deleted meanwhile changes
  nothing: `SaveChunks`, whose new rows have new ids, removes the source's rows
  from what other processes have read.
- Two `save_chunks` of one source at once serialise, or one fails with the
  UNIQUE constraint on (source_id, chunk_no) and is rolled back: an error step.

`now()` is the time a transaction began; that two overlapping transactions may
commit in the other order is not modelled.

**Correspondence.** `Claim`, `Recover`, `FindEmpty`, `Pick`, `BatchDone` are the
loop of `process_queue`, `process_embed_queue` and `process_llm_queue`.
`FetchOk`/`FetchFail`, `UpsertSource`, `SaveChunks`, `MarkLoaded` are
`process_video` in its order; `LoadError` and `EmbedError`, `SolveError` are the
`except` branches, possible at each step of the `try`; `CliError` is the end of
a `-y` run, which touches no status.  `ReadChunks`, `WriteVectors`,
`CheckComplete`, `GiveBack`, `UpdateAverage`, `MarkEmbedded` are a turn of the
embedder; `LegacyRead`, `WriteVectors`, `LegacyAverage` the legacy run, with
`--force` and `--limit` chosen freely.  `ReadText`/`NoTextFound`, `AnalyzeOk`,
`SaveSolution`, `MarkSolved` are a turn of the analyst.  `Crash` is a killed
process, or a database error that reaches `main`; its transaction is rolled back
and nothing of the tables changes.  A process runs once: a restart is another
member of the set, so the instances have two of the kind whose restart matters.
`GrowStale` is half an hour passing over a process_* row.

`Prompt` is the assumption `recover_stuck` makes silently: a live worker
finishes each claimed row within 30 minutes of the claim.  With `Prompt = FALSE`
the timeout may strike at any time.

## 4. yt-parser: the properties and the runs

| run | instance | checks |
|---|---|---|
| `yt_prompt` | 2 videos, 2 transcripts and the empty one, 4 workers, 3 of them mortal, a legacy run, batches of 2, prompt | `TypeOK`; `ChunksAreTight`: for every text up to 5 words and every size up to 6, words of every length up to one above it, the chunks are the words in order, of the size or a single word, and none ends too early; `Exclusive`: no video in two hands; `EmbeddedIsComplete`, also with an average left by the legacy run: from 'embedded' on every chunk has its vector, the average is of these vectors and the chunks of the stored transcript; `SolutionIsCurrent`; `ImplementsLifecycle`: the refinement of `VideoLifecycle` |
| `yt_bypass` | 1 video of 2 chunks, a `--watch` loader, 2 embedders, an analyst, a `-y` run, a legacy run, not prompt | `VectorsMatchText`; `StatusBacked`: a status is backed by stored data |
| `yt_live` | 2 videos, batches of 1, 4 workers, one of them mortal, empty transcripts, fair | `EventuallySettled`; `LoadedIsClaimed`: nobody starves behind sources that come back for ever |

*Bounds.*  Interference needs two processes on one video, a difference of texts
needs two transcripts, a partly claimed queue needs two videos and a batch
smaller than the queue (`yt_live`), a partly embedded source two chunks and a
legacy run with `--limit` (`yt_bypass`; the queue embeds all chunks of a source
in one transaction, so the other runs have one chunk).  The legacy run of
`yt_prompt` may average a source that is loaded again before the queue embeds it.  `yt_bypass` has no
crashes: without `Prompt`, a process that is never scheduled again does the same.
More of each adds no new kind of step: the processes of a kind are alike and
every step touches one video, one batch or one source's chunks.
A text of the pipeline has the chunks `ChunkNos`, whatever its words are; how many
`chunk_text` makes of a text is the matter of `YtChunks`, whose bounds let words
be shorter, as long as and longer than a chunk, at its beginning and end.
The proofs (section 5) have no bounds.  Symmetry over videos and transcripts is
used for safety only.  Runs stop in states where every one-shot process has
ended, so deadlock is not checked.

*Fairness.*  A process that is not dead keeps running (weak fairness of its next
step: each is an operating-system process or a container of
`docker-compose`, none blocks another but for the time of a transaction), and
time passes.  Nobody has to enqueue, start a `-y` run or be killed, and
downloads may fail every time.  `EventuallySettled` needs a `--watch` worker of
each kind that stays alive, and excepts videos with an empty transcript, which
go round between 'loaded' and 'process_embed' for ever.

*Seen while modelling, without a run of its own.*  (1) README.md:168 says that
several `-p --watch` workers do not overlap; `Exclusive` needs `Prompt`: when a
batch takes longer than 30 minutes `recover_stuck` gives its rows to a second
worker, since `updated_at` is set at the claim of the whole batch.  (2) The comment
in `embed_chunks.py:216` says a source left in 'loaded' is finished *in the next
run*; the run itself claims it again, and with an empty transcript, which has no
chunks, a run without `--watch` never ends.  (3) CHANGELOG.md:14 says
`yt_source.embedding` is an average only if all chunks have a vector; loading an
embedded video again with `-y` leaves the old average beside new chunks without
vectors, and with a `-y` run TLC finds `EmbeddedIsComplete` and `SolutionIsCurrent`
violated.  (4) `extract_and_save` of `mcp_server.py` writes a new answer and keeps
the attributes of the earlier one.

## 5. yt-parser: the proofs

All proofs are for any finite or infinite sets of videos, texts, chunks and
processes and any batch size, from `DbAssumption`, `WorkerAssumption` and
`OwnerAssumption` (the sets of processes are disjoint, NULL and the empty text
are not transcripts, "no owner" is not a worker).

- `TypeCorrect`: `Spec => []TypeOK`.  `TypeOK` is not inductive: the actions
  write to the source in hand, so that a process at work has one (`CurOK`) and
  that its transcript is in memory (`TextOK`) are part of `TypeInv`.
- `VectorSafety`: `Spec => []VectorsMatchText`.  The strengthening is
  `RowsMatch`: a row in the memory of an embedder still has the text it was read
  with, because `SaveChunks` gives new ids.
- `StatusSafety`: `Spec => []StatusBacked`, with slow workers, crashes, `-y` and
  legacy runs.  First, nothing stored ever disappears (`Kept`).  Then
  `HolderBacked`: what a worker has in hand already has what the status it will
  write promises, which stays true when the row is taken from it.
- `OwnerSafety`: `Spec => []Exclusive` if `Prompt` and there is no `-y` run.
  `OwnerInv` adds that what a worker holds is marked as in work in its stage and
  is not stale (`Owned`), so that neither claim nor recovery can take it, and
  that a worker has empty hands when it claims (`BatchOK`).
- `EmbeddedSafety` and `SolutionSafety`: `Spec => []EmbeddedIsComplete` and
  `Spec => []SolutionIsCurrent` if `Prompt` and there is no `-y` run; legacy runs
  may write vectors and averages at any time.  Neither is inductive: `CurrentInv`
  says for every status what is true of the source (`Promised`; 'loaded' already
  promises that the chunks fit the transcript) and for every worker what it has
  done so far to the source in its hands (`Achieved`).  A step is `Steady` for a
  source if it leaves what is promised of it; all steps are, for all sources but
  the one in the worker's own hands (`OneHolder`, from `OwnerInv`), and writing
  vectors again writes the same (`WriteSteady`, from `VectorInv`).
- `LifecycleImplemented`: `Spec => ImplementsLifecycle`, the refinement of
  `VideoLifecycle`, under the same premises.  `OwnerOf` says that `Owner` is the
  one worker that holds a source.  One lemma for each step the queue's users see:
  the end of a source's work is `Conclude`, `recover_stuck` is `Requeue` (what is
  stale nobody holds), the claim is `Take`, an insert is `Add`, a crash is `Die`;
  all others change neither statuses nor owners.
- `ChunksPacked` and with it `ChunkSafety` (`Spec => []ChunksAreTight`, for any
  bounds): for every transcript and every `max_bytes`.  `Packed` says what holds
  after each word: the chunks and the words in `buf` are the words read, their length
  is counted right and fits, and the word that `buf` begins with, or any word if
  `buf` is empty, is too much for the last chunk.  That the recursive functions are
  total is `Recursion`, by induction on sets of naturals as in section 9.

Each of the others is the argument: initially, preserved by every action, implies the
property; one lemma per group of actions.  Liveness is model-checked only, since
fairness is out of the prover's reach.

## 6. pg-explain: the registry and its audit log

| module | models |
|---|---|
| `ConfigStore` | the SQLite file: tables, triggers, seed rows, values, the writer's tag, the log; each statement of `init_db` |
| `ConfigCallers` | the processes: MCP servers with their tool calls, `--init`, manual edits; `_ensure_db`, `audit_writer`, `set_param`, `reset_param`, `load_checks`, `history` |
| `ConfigAudit` | all of them side by side, the properties |
| `ConfigAuditProofs` | theorems and proofs about the schema, the log and the reports |
| `MCConfigAudit` | the instances for TLC (`Config*.cfg`) |

**State.**  Of the file: which `tables` exist, which of the audited ones have
their `triggers`, which have their seed `rows`, `value` (of each parameter),
`who` (the row of `_audit_session`), `log` (`config_audit`).  Log entries have
two columns the table has not: `of`, the parameter they are about, and `by`,
who really wrote them; the properties compare these with what is logged.  Of a
process: `pc`, the statement `at` which it is in `init_db` and where it goes
`back` to, its `call`, the tag before its block (`prev`), what it has read
(`seen`), what it returned (`reply`).

**Steps.**  `executescript` commits what is open and then runs every statement
in autocommit, and Python's `sqlite3` opens a transaction only before INSERT,
UPDATE and DELETE.  So each statement of a rebuild is a step, and a read and the
UPDATE after it are two.  `DROP TABLE` drops the table's triggers and fires
none.  `_ensure_db` is one look at the file.  The row of `_audit_session` comes
with its table, the triggers of one table come together, the view and the
indexes are left out.  A failed statement (`no such table`, `UNIQUE`) ends the
rebuild and the tool call, after the exit of its `audit_writer` block if it is in
one.  `OldFile` is a file of a version before 0.5.1, without the log.

| run | instance | checks |
|---|---|---|
| `config_apart` | 2 servers, `--init`, a manual edit, any of the three files; calls do not overlap (`Apart`) | `TypeOK`; `TagsTruthful`: an entry's `who` is who wrote it, also after calls that failed; `ReportsAreFull`: explain works with all checks and the field policy; `LogReplays` through every rebuild |
| `config_shared` | 2 servers, one mortal, and manual edits overlapping on a ready file | `LogReplays`: a parameter has the value of its last entry, and an update entry starts where the one before ended |
| `config_race` | 2 servers overlapping on a missing, old or ready file | `SchemaWhenIdle`: when nobody works, all tables and triggers are there |
| `config_first_start` | the same | finds `SeededWhenIdle` violated |

*Bounds.*  `MaxCalls` calls of each server (1 in all runs): a process is alike
before each call, and what a call leaves for the next one is in the file.  Two
parameters of one check, so that a reset may change one, both or none; two
values, so that a change may be one back to the default.

*Finding.*  `config_first_start`: two servers that start on a missing file each
make the other's seed fail; both calls end with errors, and since all tables
exist `_ensure_db` never seeds the file again.  Seen while modelling, without a
run: (a) `TagsTruthful` fails as soon as calls of two servers overlap, because
each `audit_writer` (config.py:29-48) puts back the tag it found, and so does
`ReportsAreFull`, because `explain` reads in separate queries; (b)
`CheckRegistry.history` (config.py:397) passes the path of the file in the place
of `include_seed`, so that seed entries are always shown, where README.md:334
says they are hidden; (c) a server killed in `init_db` between schema and seed
leaves a file that `_ensure_db` takes for good, which alone violates
`SeededWhenIdle` (nobody is killed in `config_first_start`); (d) two servers rebuilding an
old file at once may undo a setting already made, and rows inserted between
`CREATE TABLE` and `CREATE TRIGGER` are not logged; (e) a file that is locked for
5 seconds raises the same `OperationalError` as one without tables, and
`_ensure_db` rebuilds it (locks are not modelled); (f) a server killed inside
`audit_writer` leaves its tag, under which manual edits are logged from then on.

*Proofs.*  `SchemaSafety`: if no process is killed, `Spec => []SchemaWhenIdle`,
for any number of servers, admins, editors, parameters and calls, overlapping or
not.  By itself the property is not inductive: while rebuilds run, tables are
missing.  The strengthening says that what is missing is still to come: if the
file has an audit log, or somebody has passed the `create` statement of the
table, then some process in `init_db` has that statement before it
(`TablesComing`), and in the same way for the triggers (`TriggersComing`).
Whoever drops a table has its `create` before itself; and a rebuild that fails
at a trigger or an insert because its table is gone leaves behind the process
that dropped it.  A killed process breaks this, so `Mortal = {}` is
assumed, and the run has no mortal server either.

`AuditTypes` (`Spec => []TypeOK`) is without premises but those of the constants
(the parameters are finitely many, no value is the absent one).  `AuditInv` adds
where a process can be in its rebuild and its call, that the row of
`_audit_session` is there as soon as a trigger may read it, and that what a call
is about to write is valid.

`LogSafety`: `ReadySpec => []LogReplays` if there is no `--init`, with any servers
and editors overlapping and killed at any statement.  It holds because no step
of a ready file's users comes between an UPDATE and the entry its trigger makes:
what must be shown besides is that nobody finds a ready file unready
(`ReadyInv`).  The lemmas behind it are about the log as a sequence: the last
entry of a parameter after an append, and after the entries that one statement
makes for the parameters of a check in the order of its rows.

`TagSafety`, `ReportSafety` and `LogSafetyApart`: `TagsTruthful`,
`ReportsAreFull` and `LogReplays` for `Spec`, on whatever file is found, if calls do
not overlap (`Apart`) and nobody is killed (`Mortal = {}`).  `ApartInv` says for
the one process at work how far its rebuild is: which tables, triggers and rows
the statements before `at` have made, whose tag is in `_audit_session`, and what
its block will put back.  Without `Apart`, TLC finds `TagsTruthful` violated (a), and
a killed server leaves its tag (f).

## 7. pg-tune: backups and restores

| module | models |
|---|---|
| `TuneStore` | `tune_settings` (category ALLOWS), `tune_backups`, the backup directory, the databases and their sessions |
| `TuneBackup` | `make_backup` |
| `TuneRestore` | `inspect_restore` as the dry run, `do_restore`, called with an id or with `@latest` |
| `TuneOps` | both side by side, with administration, applications and people at the backup directory; the properties |
| `TuneInvariants`, `TuneProofs` | the inductive invariant, theorems and proofs |
| `MCTuneOps` | the instances for TLC (`Tune*.cfg`) |

**State.**  A database has as `content` one of its whole `Versions`, or is
"absent", "empty" (just created), "partial" (a `pg_restore` is in it or has
failed in it) or "mixed" (two were).  A file is a record for its bytes: no file,
cut off, a dump of some content of some database, or altered; it is its own
sha256.  `backups` is a sequence: the index is the id, and its order is that of
`ts`.  `session` is the database in which a process's `pg_dump` or `pg_restore`
is connected, which `DROP DATABASE ... WITH (FORCE)` ends.  `touched` remembers
the files somebody else has changed.

**Steps.**  `StartBackup`, `ZstdRejected`, `DumpBegins`, `DumpEnds`, `Digest`,
`Record` are `make_backup` in its order, `DumpFails` its error paths, which
unlink the file.  A dump is one snapshot: it is of the content at its beginning.
`Preview` is the dry run, `Confirm` or `ConfirmLatest` the second call, then
`CheckAllowed`, `Inspect` (row, file and digest), `Drop`, `Create`, `LoadBegins`,
`LoadEnds`, `Mark`; `Refused`, `LoadClashes` and `LoadFails` are the errors, after
which the code cleans nothing up.  A killed restore leaves its `pg_restore`
running (`orphan`).  `Administer` is `pg-tune-config` and the tool `set_allow`;
`init_db` is one step here (that the same code of pg-explain runs statement by
statement is the subject of section 6).  `Touch` is people who delete or damage
registered dumps, *except* those a restore under way has checked or the
databases of which are not whole (`Needed`): the code cannot protect itself from
a file that disappears after the DROP, and this is the one assumption about the
surroundings.  Without it TLC finds `Recoverable` violated.

| run | instance | checks |
|---|---|---|
| `tune_ops` | 1 database, 2 dumpers, a restorer by id and one of `@latest`, one of each mortal, `--init`, files touched | `TypeOK`; `RowsHaveFiles`: a registered backup nobody touched is a whole dump of its database with its digest; `Recoverable`: while a database is missing or not whole, a dump of it is on disk |
| `tune_latest` | 2 databases, 2 dumpers, `@latest` without `PGDATABASE`, no `--init` | finds `ConfirmedIsRestored` violated |

*Bounds.*  Two restores and two dumps of one database meet in every way two
can; with two databases nothing new happens in `tune_ops`, since no step of one
reads the other (`@latest` apart, for which `tune_latest` has two).  Two contents
suffice to tell an old dump from a new one.  Every process runs once.

*Finding.*  `tune_latest`: the confirmed call looks `@latest` up again, so that a
backup which ends between the dry run and `--confirm` is restored in the place of
the one that was shown.  Seen while modelling, without a run:
`pg-tune-config --deny backup` has no effect, since `make_backup` never asks
`is_allowed`, where pg-tune/README.md:265 says no action runs unless it is
enabled; a restore asks for its permission before it hashes the dump, which takes
minutes, so that a `--deny restore` meanwhile comes too late; two restores of one
database may load into the same new database and one of them report success; a
half loaded database is backed up like any other; ids begin anew after `--init`,
so that an id seen before it names another backup.

*Proofs.*  `TuneTypes`, `BackupSafety` (`RowsHaveFiles`) and `RestoreSafety`
(`Recoverable`), for any databases, contents, files and processes, all of them
mortal, from `TuneAssumption` and `RestoreAssumption`.  The inductive invariant
`TuneInv` adds what the processes rely on: every dumper writes under a name of
its own (`FilesApart`); registered and touched files are of dumpers that have
come to their end, so that nobody writes or unlinks them any more (`Settled`);
after `pg_dump` the file is a dump and stays the one whose digest was taken
(`Dumping`); the digests in the rows are those of dumps (`RowsOfDumps`); and from
`Inspect` to the start of `pg_restore` the file of a restore is unchanged
(`Checked`), whatever other backups and restores do meanwhile.  So what a DROP
destroys has its dump, and no step takes a dump away from a database that is not
whole.

## 8. pg-explain: explaining a query

| module | models |
|---|---|
| `PlanTree` | the tree `new_parse_plan` builds: parents, places among siblings, paths, depths, ancestors; access to fields |
| `PlanChecks` | the eleven checks: what each reads of a node and when its rule holds |
| `PlanReport` | a call of a tool from `Ask` to its end, and others who change the registry and the indexes |
| `PlanInvariants` | the properties and the inductive invariants `PlanInv`, `TreeInv` and `SeriesInv` |
| `PlanProofs` | lemmas about the paths of a tree and pre-order; theorems and proofs about a call and its issues |
| `PlanOrderProofs` | theorems and proofs about both walks, the list, the text and the order of the issues |
| `MCPlanReport` | the plans, registries and catalogues for TLC (`Plan*.cfg`) |

**State.**  A plan is what EXPLAIN returns: a tree of nodes with their fields.  A
number is a whole number, a ratio of a parameter a pair that is compared exactly
(the code divides floats).  A filter is a sequence of tokens: parentheses, words,
and one token for all else.  An index has its table and its leading column; the
catalogue has one schema.  Of a call: `stack` and `order` of `descendants()`, the
place `pos`, `k` of the two loops of `new_analyze_plan`, `cache`
(`NonSargableCheck._indexes`), `target` (the loop for work_mem), `issues`,
`frames` (the recursion of `visit` and `render`), `list` (what they put out).
`seen` collects the sets of indexes there have been during the call.

**Steps.**  `Explain`, `Load`, then a turn of each loop is a step: `NextNode` of the
walk, `Judge`, `JudgeFilter` and `Fetch` of the loops over nodes and checks,
`Spilled`, `Double`, `Doubled` of the doubling of work_mem, `VisitRoot`,
`VisitChild`, `Return` of the recursion.  `load_checks` is one step here; that it
reads statement by statement is part of section 6.  The set of candidate columns
is a Python set, so which of several is reported is left open.  `Reject`, `Fails`,
`ReadNothing`, `LoadRejects`, `FetchFails`, `EmitBreaks` are the ends without an
answer.  `ChangeConfig` and `ChangeIndexes` are others who write `checks.db` and
create or drop indexes, at any time.

| run | instance | checks |
|---|---|---|
| `plan_report` | every tree of up to 4 nodes and 4 plans with something to find, 3 registries, 3 sets of indexes, 2 calls, 2 changes | `TypeOK`; `OrdersAgree`: stack and recursion number the nodes alike, in the order of their paths; `EntriesLinked`: parent_id and children_ids are two sides of the plan's relation; `TextShowsTree`: indentation and markers lead back to the tree; `IssuesInOrder`; `NoIssueLost`; `OneSnapshot`: all filters of an answer are judged by the indexes of one moment; `WorkMemIsLeast`: the suggested work_mem is the first of its series that holds the spill; `LimitSilences`: no estimate is compared anywhere below a Limit; `CallsEnd` |
| `plan_function` | the same | finds `FunctionWraps` violated |

*Bounds.*  Four nodes have all relations two nodes can have (above, below, before
and after in another branch, with a sibling in between), and the checks look at
a node, its ancestors and its second child only.  Two calls show that nothing is
carried over, two changes that one may come between any two steps, before and after
the one reading of the indexes.

*Fairness.*  `CallsEnd` assumes that a call goes on (weak fairness of its steps):
nothing in it waits but for the database, which answers or fails.

*Finding.*  `plan_function`: the pattern of `NonSargableCheck` takes the AND in
front of a condition in parentheses for a function.  Seen while modelling, without
a run: `NestedLoopCheck` takes `children[1]` for the inner side (analyzer.py:762),
which is the outer side if the loop has an InitPlan; every call of
`pg-explain-parse` with SQL ends with an `AttributeError`, since `main` calls
`_emit` without `root_meta` (parse.py:235); `set_param` accepts
`min_work_mem_mb = 0`, with which the loop for work_mem never ends
(`PlanAssumption` excludes it); indexes are grouped by the bare name of the table
(analyzer.py:1100), so that tables of one name in two schemas share them; rows per
loop are compared with totals (analyzer.py:883); `explain_tree` says "every field"
(server.py:379) where the policy hides some; `JitDecisionCheck` speaks of the
execution time and takes the root's actual total time (analyzer.py:1253).

*Proofs.*  For any plans, registries and sets of indexes, any number of calls and
changes, from `PlanAssumption`: plans are trees, sizes whole numbers, the minimum
for work_mem above 0, `NoNode` (the `parent_id` of the root) is no number, and no
registry has two checks of one name (a unique index of `schema.sql`, line 22).

`PlanTypes` (`TypeOK`), `EveryRuleTold` (`NoIssueLost`) and `SnapshotHolds`
(`OneSnapshot`) rest on `PlanInv`.  It says for each phase of a call what has been
done so far: during the walk, children of yielded nodes are yielded or on the
stack (`Walking`), so that when the stack is empty nodes that are left would have
all their parents among themselves, which no tree allows (`AllYielded`); in the
loops, every pair of a node and a check that is `Done` has its issue (`ByChecks`,
`ByCache`); while target is doubled, the value before was too small (`Doubling`).
Each action keeps it; the two lemmas `NothingFound` and `IssueFound` are what all
steps of the loops have in common.  `WorkMemSuggested` (`WorkMemIsLeast`) adds that
the loop stays in its series (`SeriesInv`): a power of two is a number with no odd
divisor but 1, and doubling adds none (`SeriesDoubles`).

`OrdersHold`, `LinksHold`, `TextHolds`, `IssuesOrdered` and `LimitHolds` rest on
`TreeInv` (`TreeHolds`), for trees of any size and shape.  None of the five is
inductive: what the walks have put out says nothing of what they have still to
come to.  `Traversed(p, v, P)` relates the two, for nodes `v` visited and nodes `P`
pending: every node is visited or at or below a pending one, what is visited comes
before what is pending, in pre-order and without a gap.  For the loop, `P` is the
stack, which descends from right to left (`WalkInv`); for the recursion, `P` are the
children its frames have not called yet, and `v` a sequence of nodes that the list
has an entry for each (`VisitInv`).  To put out a pending node and make its children
pending keeps `Traversed` if the node is the first of `P`: the top of the stack is,
and so is the next child of the innermost frame (`FramesInv`).  An entry has
the ids of the children that have returned to it (`EntryInv`), all of them
once its own call has returned.  `PlaceInv` says the same of an issue: it was found
where the loops have been.

Paths and ancestors are defined by recursion over the tree, and the prover cannot use
the library's theorems on induction.  `TreeInduction` takes their place: a set that
has the root and with a node its children has all nodes, since the others would be
a set `IsPlan` excludes.  With it every node has one chain from the root
(`ChainIs`), the recursive definitions are those of the chain (`PathIs`,
`AncestorsAre`), and it follows that a path belongs to one node, that its prefixes
are the paths of the ancestors, and that of two nodes one comes before the other.
`CallsEnd` stays with TLC.

## 9. utils: loading books

| module | models |
|---|---|
| `BookText` | `_split_text` and `ChapterParser`: squeezing blanks, the end of a chunk, the headings that count, the chapter of a chunk |
| `BookStore` | the data sets, the files, the tables and their locks; lines and rows |
| `BookLoad` | a run of `load_to_pg.py` step by step, several at once |
| `BookInvariants` | the properties |
| `Induction` | lemmas about induction, recursive functions and sequences, used by other proofs too |
| `BookTextProofs` | theorems and proofs about `_split_text` and the chapters |
| `BookProofs` | theorems and proofs about runs, files and tables |
| `MCBookLoad` | the instance for TLC (`BookLoad.cfg`) |

**State.**  A text is a sequence of characters of three kinds: of a word, space,
newline.  A heading is a match of one of the patterns, with its position and its
number, or none if the words name no number.  A file is a sequence of lines, or
`Missing`.  A run that writes a file has it in `holds` until it closes it or
somebody else removes the name.  `db.by` remembers which command line the rows are of, and
whether another run was under way meanwhile (`alone`).

**Steps.**  The three steps of the program in its order: `TakeRaw` or `OpenRaw`,
`Download`, `Downloaded`; `TakeCsv` or `OpenHeader`, `OpenText`, `ProcessBook`,
`Processed`; `Look`, `Create` or `DropText` and `DropHeader`, `CopyHeader`,
`CopyText`, `Commit`, `RemoveHeader`, `RemoveText`; `PostProcess` is
`process_data`, with or without `--skip-process`.  `create_obj` commits for itself;
both tables are filled in one transaction.  Who reads a file that is being written
sees any part of it that may have been flushed, the last line perhaps cut off, and
a killed run (`Crash`) leaves such a part.  A writer whose file is truncated by
another goes on at its place (`WriteAt`); for this, lines have equal lengths.  A line
that is cut in its last column is a row for COPY, and may be (`Taken`).  The two
orders of locks deadlock, and PostgreSQL ends one of the two transactions
(`DeadlockDetected`).  A failed connection, VACUUM and the index over the texts
change nothing of this.

| run | instance | checks |
|---|---|---|
| `book_load` | 2 processes, one mortal, 3 runs, 2 data sets (a book with double blanks, long words, headings that count and that refer back; a short one and one of blanks), with the cache, with `--override`, with `--keep-csv` | `TypeOK`: lines and rows are of books of their data set or of chunks of one, whole or cut off; `SplitIsSound`: for every text up to 7 characters and chunk size up to 5, no chunk is too long, no letter of a word is lost, and words shorter than half a chunk are not cut (each begins where it began in the text) if spaces part them; `FreshIsWhole`: a run without the cache that no other overlaps loads its whole data set, whatever killed runs have left; `TitlesMatchText`: no text under a title of another data set, as long as no runs overlap; `KeptUnlessOverride`: loaded rows only leave the tables by a run with `--override` |

*Bounds.*  Three runs: one that is killed, one that takes or truncates what it
left, one beside it.  Limit and chunk size are the same for all, as files of
different names do not meet.  A break needs a text longer than the chunk and a space in
each half of it: 7 characters and chunks of up to 5 have both, with odd and even
sizes.

*Seen while modelling, without a run.*  Without the premise that runs do not overlap
`TitlesMatchText` is violated: nothing locks the files.  With `--override`, the new
empty tables are committed before the load, so that a load that fails leaves neither
the old nor the new books.  With three processes, a run without `--override` that has
looked at the tables another one has just emptied may add the rows of half-written
files to books that a third has loaded meanwhile; it takes nothing away, and the
property holds there too.  `--chunk-size 0` never ends (`BookAssumption`
excludes it).  The README of utils names a chunk size of 250 000 as the default, the
code has 4096.

*Proofs.*  For any library, command lines, number of runs and kills, from
`BookAssumption` (the library gives each data set a sequence of books of spaces,
newlines and other characters; limits are numbers and chunk sizes above 0) and
`MissingAssumption` (that there is no file is not the content of one).

- `BookTypes`: `Spec => []TypeOK`, with runs that overlap, truncate and remove each
  other's files.  `OpenOK` adds that what a run has open is a file of lines, and
  that a raw file once downloaded stays one.
- `OverrideSafety`: `Spec => KeptUnlessOverride`.  `KeepInv` follows what a run has
  found of the tables up to its DROP: only one with `--override` gets past `Look`
  with tables there, and tables that do not exist have no rows.
- `TitleSafety`: `Spec => []TitlesMatchText`.  `TitlesInv` says, as long as no two
  runs have overlapped, that a raw file has lines of one data set, and that the
  two CSV files of a name do, *if the header CSV is there and not empty* (`CsvOne`):
  a run empties the header CSV before it opens the text CSV and writes the first
  line when both are open, so that whoever is killed between them leaves a pair
  that COPY refuses.  `AtWork` says what the run at work has done so far.
- `FreshSafety`: `Spec => []FreshIsWhole`.  The property is about the tables, at the end
  of a dozen steps, so `FreshInv` says of a run that nobody overlaps and that does
  without the cache what its files hold at each step: the raw file the first `at`
  books, the CSV files the lines of the first `at` books and of their chunks with
  nothing before, between or behind them (`HeaderUpTo`, `TextUpTo`), and between
  `Create` or `DropHeader` and the commit the tables are empty.  The run has
  truncated each file, so what killed runs left does not count; nobody else is
  at work, so it reads what it wrote (`FreshReads`); COPY takes lines as
  they are since none is cut (`TakenAll`).  Alone means: when it started no other run
  was under way and none has started since (`FreshAlone`).
- `WholeReadsBack`: what such a run commits, `ChunksUpTo` of all the books asked for,
  is as `ReadsBack` and `ChaptersAscend` say.  The chunks with a book's keys are the
  rows of that book in their order (`PiecesAre`), the rest is about one text.
- `SplitSound`: `Spec => []SplitIsSound`, for any `MaxText` and `MaxSize`
  (`BoundsAssumption` makes them numbers), from facts about every text and chunk size:
  `SplitCuts`, the chunks are cuts of the text at places that ascend from its
  beginning to its end, each at a space in the second half of the chunk if there is
  one; `ChunksFit`, none is longer than the chunk size; `WordsKept`, their letters
  are the letters of the text in order, and if spaces alone part the words and none is
  as long as half a chunk, the words begin at the same letters (`Capitals` marks where
  a word begins).  A chunk ends where no word goes on, because a word that
  reaches over the second half would be too long, and `Trim` and `Dense` take
  blanks only and leave one where words were parted.
- `ChaptersCountUp`: for every text and any headings found in it, in any order, the
  chapters of the chunks never count backwards.  `ParseChapters` keeps a
  heading only if its number is above the last one kept, and the chunks look their
  place up in the list it makes.

Recursive functions and folds are the hard part of these proofs, since the
library's theorems on induction take a predicate as a parameter, which the prover
cannot instantiate.  `Induction` has sets in their place: a set of naturals that is
not empty has a least element (`Least`), so one with 0 and with n also n + 1 has all
(`NatInd`), and one with the empty sequence and with a sequence all that are one
longer has all sequences (`SeqInd`).  `Recursion` says that a recursive function on
`0 .. N` exists, so that the definition is about it and not about an arbitrary
value, and `SameRecursion` that there is one only.  For the recursion from a place
of the text to a later one, `ChainTotal` builds the function the definition asks
for, and `ChainIs` follows it from place to place.

That a run ends is not checked: a download may wait for ever.

## 10. What is not modelled

*yt-parser.*  Channels, tags, comments and metadata (no property looks at them),
`yt_attributes` and `mcp_server.py` (its queries name columns the schema does not
have; `extract_and_save` keeps the attributes of an earlier answer), that a `--watch`
worker whose queue never runs empty never recovers stuck rows (the instances have
finitely many videos).  A transcript of blanks only would have no chunks like the
empty one; it is `Blank` here too, though the analyst would not reject it.

*Registry.*  The queries of `_ensure_db`, and those `load_checks` makes for each
check, as steps of their own; unique indexes; file locks and `database is locked`; `show_params`, `load_plan_fields`,
`load_field_policy` and `--show`, which only read; manual edits of
`checks.enabled` and `plan_fields`; filters and order of `history`.

*pg-tune.*  `--init` in several steps, so that `RowsHaveFiles` meets it as a whole only;
the gate `PG_TUNE_ALLOW_WRITES`, constant for a process; the
category SETTINGS, which no code reads; the vector tables and tools; the tools
that list; sizes, versions and `restored_by`; sessions other than those of
`pg_dump` and `pg_restore`; applications that write to a database half loaded.

*Analyzer, command line and database access.*  The wording of messages and of
the summary; the renaming of fields to compact keys; the metadata of the root;
`summarize_plan_node`, which tests alone call; output options that change the
layout; the tools that read the catalogue once and format it (`db.py`).

*utils.*  A CSV file that another run removes between `exists()` and `unlink()`; that
COPY of rows without equal keys need not wait for another's; the patterns of headings and the conversion of their numbers; lines of
different lengths; `tools/book_search.py`, which builds one read-only query;
the script that downloads samples.

*Never.*  `fixtures`, `usage_examples`, `images`, the documentation for MCP
clients (`config_mcp`), the browser plugin's popup, the scripts that only print
or download.
