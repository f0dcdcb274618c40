# Models of the equivalence fuzzer (eqgen)

`eqgen` looks for bugs in SQL engines. It invents a base table, generates an
*equivalent* relation (a tree of views, tables and rewrites that must hold the
same rows), runs the same random queries on both, and reports every query whose
two results differ, that fails on one side only, or that takes the engine down.
These modules model the parts whose correctness is a matter of control: what a
round does when its worker crashes, hangs or answers late; what a campaign
counts and writes; how results are compared; what can be read back from a log
that a crash has cut off; how the generator searches and backtracks; whether
each rewrite keeps the rows it is given; in which order the statements of a tree
reach an engine; and who starts, restarts and stops the engine.

## The system

| component | source | state it keeps | hard behaviour |
|---|---|---|---|
| Round | `fuzz/round.py` | pipe, process, results, crash fields, journal | worker crash, hang, late answer, Ctrl-C, cleanup |
| Campaign | `fuzz/cli.py` (`run_fuzz`) | report, consecutive unbuildable rounds | exceptions and Ctrl-C between any two writes |
| Report | `fuzz/report.py` | totals, findings, repro files, index | every query counted once; partial writes |
| Comparison | `fuzz/compare.py` | none | two sides, each with rows or an error |
| Multiset oracle | `fuzz/database.py` | two Counters | a tolerance that is not transitive, duplicates |
| Journal | `fuzz/journal.py` | a text file | cut off inside a line; several-line text |
| Builder framework | `builder/` | depth, node and attempt counters | backtracking, budgets, deadline |
| Equivalence generator | `equivalence/generator.py`, `factory.py` | one context per generation | forks share names |
| Equivalence builders | `equivalence/builders/`, `ast.py` | none | each rewrite has to keep the rows, in any nesting |
| Dialect builders | `dialects/*/builders.py`, `ast.py` | none | types, keys and NULLs an engine refuses |
| Emitter, actions | `equivalence/emitter.py`, `visitor.py` | nodes visited | shared relations, writes in place |
| Write fence | `dialects/cratedb/refresh.py`, `adapter.py` | known and dirty tables | reads that miss unrefreshed writes |
| Scheduler | `fuzz/schedule.py` | rates | budgets out of weights |
| Sweep | `fuzz/sweep.py` | verdict per builder | classification of failures |
| Clusters | `dialects/*/cluster.py` | server, owner pid, handlers | fork, restart in a worker, signals, exit |
| Connections | `dialects/*/adapter.py`, `duckdb/cli.py` | session, watchdog, CLI process | lost connections, late answers and KILL QUERYs |
| Generators, IR, config, evaluation, repros | `generators/`, `ir/`, `core/`, `config/`, `src/evaluation`, `src/repro` | data | none that is concurrent |

(Paths are under `src/eqgen/` unless they start with `src/`.)

How they interact. `main` builds a query source and calls `run_fuzz`, which for
each round opens a `QueryJournal` and calls `run_round`. `run_round` asks the
generator for an equivalence (dispatch over the builders), journals its DDL,
forks a worker, and talks to it over one duplex pipe: the worker builds both
databases, compares the object, says `ready`, and then answers one query at a
time. The server both databases are on is started once, by the process that runs
the campaign, and every worker inherits its cluster object, with the exit and
signal handlers. Each answer is the `QueryComparison` of `compare_one`, which
rests on `compare_multisets`. `run_round` returns a `RoundOutcome`;
`record_round` folds it into the report, and `write_finding` writes a repro for
every finding.

What makes each correct:

* **Round** - one account of every query pulled, whatever the worker does; the
  journal is ahead of the engine; the crash note is true; no worker stays
  behind unless a Ctrl-C cut the cleanup short; the round ends.
* **Campaign and report** - totals add up; findings are the reportable
  comparisons of rounds that can be trusted and nothing else; every finding has
  a repro of its own; the run aborts exactly on a run of unbuildable rounds.
* **Oracle** - a difference is never passed, agreement is never reported.
* **Journal** - what is read back is what was run, whenever the file was cut.
* **Builder framework** - counters follow the surviving tree; depth is bounded;
  a budget that runs out costs neither the tree nor unbounded work; it ends.
* **Builders** - the rewritten relation has the rows of the base.
* **Emitter and fence** - a shared relation is created once, before its readers,
  and finished before it is copied; no read misses a row written before it.
* **Clusters** - only the owner stops the server, and leaves none behind; a
  server that is down comes back.
* **Connections** - a query that kills the engine is the one reported; a
  one-sided error has its cause in that query and not in a time limit or a late
  answer.

## Modules

`Round` is specified in detail and shown to implement `RoundContract`;
`Campaign` starts from what that contract and `SetupFailureIsFinal` say of an
outcome, so the two compose through the contract. `Campaign` and `Engines`
extend `Comparison`, `Engines` extends `Servers`, and `Setup` is `Emission` and
`Fence` put together. `EquivalenceTrees` composes `Rewrites` with the builders
of the six dialect modules. `Multisets`, `Journal` and `Factory` stand alone,
each the implementation of one step of the others. A module named `MC...` gives
a run its constants, one named `...Proofs` has the theorems about its component
(`RewritesProofs` about `EquivalenceTrees`).

### Round

State: `ppc` and `wpc` are where `run_round` and `_worker` stand; `toWorker` and
`toParent` are the two directions of the pipe; `exit` is `process.exitcode`; the
rest are the locals of `run_round` that end up in the `RoundOutcome` (`results`,
`crashed`, `note`, `object`, `stopped`), the journal, the worker's local query,
and the schemas on the server.

One action per step between two observable effects. Parent: `Generate`,
`NotGenerated`, `JournalDDL`, `StartWorker`; `RecvSetup`, `PollTimeout` followed
by `SetupHung`, `SetupDied`; `SetDeadline`, `CheckDeadline`, `PullQuery`,
`JournalBegin`, `SendQuery`, `RecvResult`, `PollTimeout` followed by
`QueryHung`, `QueryDied`, `RecvTorn`; and the `finally`, `AskToLeave`, `Join`,
`Reap`. `PollTimeout` and the kill are two steps because the worker can answer,
or die, in between. Worker: `WorkerBuildsBase`, `WorkerBuildsEquivalent`,
`WorkerSetupFails`, `WorkerReady`, `WorkerReadFails`, `WorkerReceives`,
`WorkerAnswers`, and the four ways in which it ends early: an exception that
escapes (`WorkerRaises`), a crash of the engine it hosts at any point
(`WorkerCrashes`), the same in the middle of a large message
(`WorkerCrashesSending`), and the parent's SIGKILL (`WorkerKilled`).

Abstractions: a query is its position in the source, its result a verdict.
`_crash_note` joins the dead worker with a timeout first; the model reads the
exit status of a worker that is dead, since end of file implies that it is on
its way out. A worker that *hangs* has no action: nothing obliges it to step.
Ctrl-C reaches both processes (one process group). In the parent it can fall
anywhere and more than once: up to the fork it leaves at once, inside the `try`
through the `finally` (`InterruptRound`), and inside the `finally` it is no
`Exception`, so `suppress` lets it through and what is left of the cleanup, the
kill included, is skipped (`InterruptFinally`). One that falls between
`process.start` and the `try` has no `finally` to go through (`InterruptStart`).
`abandoned` is history: one of the last two has happened. The complexity score
of an outcome and the text of the DDL are data.

`RoundContract` is what `run_round` promises: answers one after the other, then
one fate, settled once - discarded (only before any answer), finished, crashed
(only with a query left to blame) or raised - and always settled. It is settled
when `run_round` is left, as a Ctrl-C in the `finally` can still turn a finished
round into a raise.

### Comparison and Campaign

`Comparison` has `compare_one` over the outcomes a side can have (rows, an
error, an error the adapter recognises as a known issue) and the predicates by
which the report classifies the result. `Campaign` is `run_fuzz`, with
`record_round` as the operator on the report and `write_finding` as the two
writes it makes (`WriteRepro`, `WriteIndex`), because an exception of
`engine_banner` or Ctrl-C may fall before and between them. `RunRound` is one
step that yields any well-formed `RoundOutcome`; `RoundRaises` and `HookRaises`
are the exceptions that nothing in the loop catches. `record_round` itself is
one step: a Ctrl-C inside it is not modelled. `logs` is the run directory's
round logs, each with the outcome it records: the history the properties compare
the report with.

### Multisets

`compare_multisets` over rows of one numeric cell, with an absolute tolerance in
place of `math.isclose`; cells further apart than `Tolerance` stand for rows
that differ in a type, a string or a NULL. Rows are fetched one by one
(`FetchBase`, `FetchOther`), so that every pair of results is reached, and
counted (`Count`). Counters are functions from cells to counts, which iterate in
the order of first appearance, as in Python: the loops go through the positions
of the rows and stop at those where a row appears first (`IsKey`). The first
loop is `ExactRow`, a row a step; the two nested ones are `NextBaseRow` and
`Pair`, a pair of rows a step.

### Journal

`QueryJournal` appends lines (`NoteAndRecord`, `Begin`, `End`); `parse_journal`
is `ReadUpTo`, a recursive function that applies `ReadLine` to one line after
the other. A line is abstracted to the kind that the
parser tells apart and, if it belongs to a query, to which line of which query
it is: enough to say that a query came back whole, in part, or mixed with
another. `CutOff` ends the file inside any line of the last write; `Stump` is
what may be left of the line.

### Factory

`build_subtree`, `_dispatch`, `_filter_builders`, `_enter_builder` and the node
accounting of `BuilderContext`, as a stack machine: a frame is a dispatch and
the builder it is running. A request is the node type and constraints asked for,
a subtree its number of nodes. The weighted shuffle becomes a choice among all
orders, which is sound for properties that hold of every order. `settings` is
chosen once, from the constant `Settings`, so that one run covers several.

A builder can decline in three places: before it asks for anything, for
conditions of its own (`Fickle`); when a child did not come; and when it has all
its children and has no use for them (`Picky`), such as an index builder over a
query without the column it needs. In each case the nodes are rolled back and
the attempts are not. `MCFactory` gives the requests and children of two sets of
builders, read from their `_build` methods: twelve of `equivalence/builders`,
and nine, of which four are `Picky`: `PartialIndex` and `DistinctOn` (of
PostgreSQL), `LateralReproject` and `SequenceOuterJoin`. `settings.root`, the
request that `generate` starts with, says which set a behaviour is about.

### Relations, Rewrites and the dialects

`Relations` has the part of SQL the builders use: a relation is a bag of rows, a
predicate gives each row `true`, `false` or `null`, and the joins, set
operations, groupings and row numbers are operators on bags. A bag is a function
from its rows to how often each is there, and how many rows there are (`Total`)
is the number of its copies of rows. Values are `NULL`, integers, and
`MinusZero`, which equals 0 and can be told from it. Integers from `OtherType` on
stand for values that are not of their column's type until a CAST makes them so
again; it is a constant, larger than any value and any row number.
`CatalogsAssumption` says what a base table may be: finitely many rows of two
values, of any two of the modelled types, -0.0 in floating point columns only,
and in a table with `c_pk` a whole number in the first column that no two rows
share.

`Rewrites` has one action per portable builder, and the modules
`PostgresRewrites`, `SqliteRewrites`, `DuckDBRewrites`, `ClickHouseRewrites`,
`CrateDBRewrites` and `MySQLRewrites` (with TiDB's) one per native builder.
MariaDB and Dolt use MySQL's emitter and the portable builders. The state `tree`
is the subtree built so far along one path from a leaf to the root: what was
asked for (its columns and the rows to be kept) and `reads`, the set of results
that reading it may return. A table has one result among these once it exists, a
view is evaluated anew by every reader; a statement that the engine refuses
leaves no result at all. An action's guard is what the builder's `_build` asks
its children for and what its constraints admit; the further children of a
builder with several are any that keep what they were asked for, which is sound
because each of them is, in some other behaviour, the tree itself. So a property
of `tree` in every reachable state is a property of every node of every tree, of
any depth: the reachable states are few because trees that read alike are one
state.

The builders' weights in the GCL files are left out: every builder that the
dialect registers is possible, more than any one configuration allows.
Statements that set a session's plan switches are the identity on rows. The
campaigns' tables have a first column `c_pk`, unique and never NULL
(`journal.py`, `sample_catalog` and `sample_rows`); the tables without it stand
for catalogs given by hand.

### Emission, Fence and Setup

`Emission` generates the trees of one fork or two as nodes with their inputs,
names and steps: which object each builder creates, under which name, what it
writes afterwards, which node it shares between parents. `Decline` drops the
subtree on top, whose names and counts stay used. The emitter's depth-first visit of a
finished tree is a stack machine: `walking` is the stack of calls of `walk`, each
a node and how far the call has come in its inputs and steps (`Frame`), `seen`
is the set of nodes visited, and `setup_statements` is what has been written so
far. `SkipChild` passes an input that was seen, `WalkChild` calls itself for one
that was not, `WriteStep` visits the next action of the node, `Return` and
`EndFork` end a call. `written` is history: the nodes whose calls have ended.
`Setup` turns the trees into the statements of `build_base`
or `build_equivalent` and runs them, one at a time, on CrateDB, which shows a
write to a table only after a refresh: the engine's own (`EngineRefreshes`, at
any time or never) or the one that `Fence` asks for from the text of the
statement alone. `phase` goes from `generate` to `set up` and then to `query`,
where the workload reads any of the exposed names, or to `failed`. The rows
themselves are the business of `Rewrites`. The teardown statements are written
by the emitter and never run by the harness, which drops schemas or containers
instead.

### Servers and Engines

`Servers` is what the cluster modules do, for seven kinds of engine: PostgreSQL
and ClickHouse (local, with signal handlers), MySQL, CrateDB and TiDB in a
container, TiDB local, and DuckDB's CLI, which has no server. MariaDB's cluster
is MySQL's, Dolt's is TiDB's. The process that runs the campaign constructs a
cluster, waits for it, registers the teardown; a worker has a copy of the
object, so a server that a worker starts is unknown to the owner. `Engines` adds
the workers and their two connections: every round opens them, runs each query
on the base and on the equivalent, and closes them. The engine, a backend, or
the CLI process may die at any step, with or without a query to blame;
statements run into their time limit; a `KILL QUERY` of MySQL's watchdog may
arrive after its statement has ended (`LateKill`, `KillMisses`); signals and
Ctrl-C hit either process. What each adapter's `execute` does with a lost
connection is in `AbortsAlways`, `AbortsDuring` and `AbortsForgotten`. `Round`
has the pipe between worker and parent: here a verdict, or the end of the
worker, reaches the parent in the step that causes it.

`killers`, `faults` and `trouble` are history: which query killed the engine,
which the equivalent rejected of itself, and what else has happened in the
round.

## Runs

| run | asks | instance | states |
|---|---|---|---|
| `round` | outcome, journal, note and cleanup agree however the worker behaves and wherever Ctrl-C falls; the round ends and the worker goes away or is killed; the contract is implemented | 3 queries, 2 verdicts | all, 35 thousand |
| `round_schemas` | finding: a failed build leaves a schema behind | 2 queries | to the violation |
| `round_torn` | finding: a death inside an answer ends the campaign | 2 queries | to the violation |
| `campaign` | totals, findings, repros and index agree with the logs; aborts exactly on a run of unbuildable rounds | 3 rounds, limit 2, 31 outcomes of every class | all, 672 thousand |
| `multisets` | equal up to the tolerance, and what is left over, against the definition | 5 cells, 3 rows a side | all, 310 thousand |
| `journal` | replays the round; a cut costs the tail only | 3 queries, of 1 to 3 lines | all, 3 thousand |
| `journal_replay` | finding: a verdict of several lines comes back as queries | 2 queries | to the violation |
| `factory` | counters, depth, budgets, termination; a tree, but for one named case | 12 portable builders, and 9 of which 4 drop finished children; each with 2 nodes (depth 5, one with a deadline) and with 1 attempt (depth 7) | all, 910 thousand |
| `setup` | statements of shared, copied and written relations run, and no read misses a write | 1 and 2 forks, 9 nodes, 2 seed rows | all, 2.2 million |
| `rewrites` | every nesting of builders keeps the rows, keys and tags; nothing is refused but MIN and MAX of a uuid | 20 tables of 2 or 3 rows on 7 engines | all, 787 |
| `engines` | custody of the server, attribution of crashes and errors, recovery | 7 engines, 2 queries a round, any number of rounds | all, 62 thousand |
| `engines_blame` | finding: PostgreSQL's crashes on the base's side are not reported | PostgreSQL, 2 queries | to the violation |

Bounds and why they are enough:

* **Round**: the loop body is the same for every query, and the state that
  crosses an iteration is `current`, `results` and the journal. Three queries
  have a first, a middle and a last. `run_round` never looks at a verdict, so
  two suffice. The theorems below do without the bound for the safety properties
  that are proved.
* **Campaign**: three rounds with a limit of two are the smallest instance in
  which the count of unbuildable rounds is reset between two of them, and show
  every pair of consecutive outcomes. A round has any one class of comparison,
  two findings of one kind or of two, with or without a crash, so that indices
  in file names and positions differ. `BannerMayFail` is on, as CrateDB's
  `engine_banner` asks the server, which may be down.
* **Multisets**: four cells in a chain, each close to its neighbours only, is
  the smallest case in which the greedy pairing goes wrong, and a fifth cell is
  close to none; three rows a side allow a duplicate beside another row.
* **Journal**: a cut only concerns the last write, the entry before it and the
  first; three queries have one of each. The shapes include a blank line inside
  a query, which is dropped on reading.
* **Factory**: depth 5 reaches the shortest tree with a keyed rewrite and one
  level of backtracking over it; the setting with one attempt is as deep as the
  state space allows. Both budgets run out inside nearly every tree. That the
  bound of `BudgetsHold` holds for more builders and any settings is proved.
* **Setup**: nine nodes are room for a tag expansion with its shared table under
  a reduction, written in place and read by two parents, or for two forks, one
  of them with a table that is copied. Two seed rows make the writes to one
  table follow each other without a refresh in between.
* **Rewrites**: the depth of the tree has no bound. The tables have a duplicate,
  a row that is NULL (all of it without `c_pk`, all but the key with it), rows
  that a row number may order either way, and a pair of zeros; one table per
  type that a builder treats apart. Predicates range over all three-valued
  functions of the rows. `MaxRows` bounds the table that a further expansion is
  stacked on, where each would multiply the rows again: six is a table of three
  rows, each of them twice. Types are those of the catalogs the adapters have:
  no catalog has a boolean column (`postgres/adapter.py:104`,
  `duckdb/adapter.py:85`), PostgreSQL's rich one has a uuid.
* **Engines**: two queries have one after the query that went wrong; rounds and
  restarts have no bound. One signal to a worker in a campaign is enough to run
  its handlers with every state of the owner. Four server numbers suffice: two
  processes name one each, and at most one more runs (`OneIsFree` in
  `EnginesProofs` proves that one is always free).

Deadlock is not checked where the modelled activity stops with its inputs:
`multisets`, `journal`, `setup`, `rewrites`. The other modules stutter
explicitly once they have ended.

Fairness:

* **Round**: `WF(Parent)`, since the parent is a process of its own and every
  wait in it has a timeout (`_recv` polls, `join` is bounded), and
  `WF(WorkerKilled)`, since the kernel delivers a SIGKILL. Nothing is assumed of
  the worker, of the deadline, or of Ctrl-C.
* **Factory**: `WF(Step)`, a single thread.
* **Engines**: `WF(Work)` and `WF(Own)`: the worker runs as long as it can,
  because every statement has a time limit and the parent kills a worker that is
  silent (`Round`'s `RoundEnds`); the owner runs its loop. Nothing is assumed of
  the engines, the watchdog or the signals.

## What the runs show

The properties of the passing runs hold. The ones worth a reader's time:

* `NoQueryLost`, `JournalAgrees`, `CrashNoteIsTrue`: whatever dies, hangs or
  answers after the parent has stopped waiting, results are those of the first
  queries in order, a blamed query is the one after them, the log says the same,
  and the note says what happened to the process. A worker that dies idle
  between two queries gets the next one blamed, which it has never received.
* `FindingsAreTheReportable`, `ReportAddsUp`, `EveryFindingHasARepro`: an
  interrupted or aborted run has lost at most the round it was in.
* `NoFalsePass`, `ReportsTheRemainder`: the greedy pairing never passes a
  difference, and what it reports is maximal. `NoFalseMismatch` needs agreement
  to be transitive among the rows at hand: without it, the order of arrival
  decides whether two results are paired off.
* `CutOffLosesTheTailOnly`: no cut damages an earlier query or its verdict. The
  last query may come back in part, as what is pending at the end of the file
  becomes an entry; the docstring says otherwise (`StopsAtCompleteEntry`, below).
* `WorkerReaped`, `RoundEnds`: on every way out the worker is dead or killed,
  except after a Ctrl-C inside the `finally`, or between the fork and the `try`.
  A `KeyboardInterrupt` in `process.join` passes `suppress(Exception)` and skips
  the kill, so a worker stuck in the engine is left running; as a daemon it is
  ended when the interpreter exits, by `multiprocessing` and not by this code.
* `GenerationSucceeds`, `BudgetsHold`: when a budget runs out the builders
  already listed by a dispatch keep the search alive, and each level can add a
  bounded number of nodes after that. Attempts are not given back when a builder
  drops its children, so past `max_attempts` each builder that may drop a leaf
  can still waste one on each level; and where an *outermost* builder may drop
  its child, the ones after it may be left with no attempt for a query, and the
  generation without a tree. `GenerationSucceeds` makes that exception, and
  `NeverUnlucky`, below, is the docstring without it.
* `RowsKept`, `KeysTellRowsApart`, `TaggedRowsKept`: the rewrites commute with
  nesting because of what they demand of each other. A row number identifies a
  row only as long as it is read once, which is why the builders that join or
  delete by it ask for a child that accepts DML (`WritableReadsAgree`).
* `StatementsRun`: on ClickHouse a key for `PARTITION BY` has to be a whole
  number, on CrateDB one for `CLUSTERED BY` must not be NULL, a unique index
  needs distinct first columns: `c_pk` provides all three. The property passes
  over tables with a type that counts as aggregatable and has no MIN or MAX: on
  PostgreSQL the uuid, which is `BuildersDecline`, below. (A boolean would be
  another, which is why the adapter keeps it out of its catalog.)
* `ReadsSeeEverything`, `FenceKnowsObjects`: the fence is right even through
  views, renamed tables and a statement that fails, and whether or not the
  engine refreshes by itself, because every statement that may read refreshes
  everything that is known.
* `BuildersAreCounted`: the statistics count dropped subtrees too, so they are
  an upper bound, and never miss a builder that is in a tree.
* `OnlyTheOwnerStops`, `NothingLeftBehind`: a worker inherits the owner's signal
  handlers, and the guard on the owner's pid is what keeps it from stopping the
  server. (`atexit` handlers do not run in a worker of `multiprocessing`, which
  leaves by `os._exit`.)
* `KillersAreBlamed`, `FindingsHaveACause`: a mismatch always has its cause in
  the equivalent's execution of that query. A one-sided error has, but for what
  `Excused` lists: PostgreSQL after a crash, DuckDB and CrateDB after their
  process or server has died, and ClickHouse, whose time limit has no label
  among the known issues.

Three things `Engines` shows that are no disagreement with a stated intention,
or are outside of what its properties cover:

* A server of TiDB or Dolt that a worker has restarted is the worker's, and
  stays when the campaign ends: `NothingLeftBehind` makes that exception.
* If the server does not come up in time, or its construction raises, nothing
  has been registered yet: the engines other than ClickHouse leave what they had
  started. The property speaks of registered clusters.
* After a time limit, DuckDB's CLI process is dead, and the errors of all later
  queries of that side are findings if the side is the equivalent's.
  `known_issue_label` (`duckdb/adapter.py:253`) demotes such a flood when an
  invalidated database is the cause, and does not know this one.

Seven disagreements between the code and what it says of itself. Each of the
first four is a run that finds a violation:

1. `SchemasDropped` - `dialects/postgres/cluster.py:159` says "every schema is
   created and dropped inside a round". If the equivalent does not build, the
   worker returns without closing the base, whose schema stays.
2. `CrashIsNotTheEnd` - `round.py:28` says a crash becomes a finding "rather
   than the end of the run". A worker that dies while writing an answer larger
   than the pipe's buffer makes `recv` raise an `OSError` that no handler names.
3. `ReplaysQueryForQuery` - `journal.py:31` says "so a run can be replayed query
   for query". An error message of several lines comes back as queries.
4. `CrashIsBlamed` - `dialects/postgres/cluster.py:27` says an abort "is
   something this harness attributes to the exact query that caused it". A query
   that crashes PostgreSQL's backend on the base's connection is an error of the
   base, which makes it uncomparable; the postmaster then ends the other backend
   as well, and so the remaining queries are uncomparable too.

The other three are cases that the property of a passing run excepts. Each is
stated beside that property, without the exception, and has a configuration with
which TLC finds it violated (`MCJournalCut.cfg` for `MCJournal`,
`MCFactoryUnlucky.cfg` for `MCFactory`, `MCRewritesRefused.cfg` for
`MCRewrites`):

5. `StopsAtCompleteEntry` (`CutOffLosesTheTailOnly`) - `fuzz/journal.py:131`
   says that of a file cut off mid-write "parsing stops cleanly at the last
   complete entry". What is left of a query of several lines comes back as an
   entry.
6. `NeverUnlucky` (`GenerationSucceeds`) - `equivalence/generator.py:143` says
   that a generation without a tree "means the configuration is wrong rather
   than the draw being unlucky". Under `max_attempts` it also means that an
   outermost builder dropped a child whose attempts were the last. The
   configurations of the repository leave `max_attempts` unlimited; the setting
   allows any number.
7. `BuildersDecline` (`StatementsRun`) - `core/types.py:117` says that a type
   without an order or aggregates overrides `get_properties` and builders then
   decline. `UuidType` does not, and the window rewrites ask PostgreSQL for MIN
   or MAX of a uuid, which it refuses;
   `src/evaluation/coverage/matched_arms.py:23` knows of it.

## What is proved

Eight modules of proofs, each about every value of the constants that the
component's assumption admits. The pattern is the same: the properties are not
inductive, the component states a stronger invariant (in its last section, in
named parts; that of the trees is in `RewritesProofs`), TLC has confirmed it on
the run's instance, and the proof has one step per action. The invariants are
not properties of a run, as they would repeat the theorems. Two theorems have a
hypothesis on the constants beyond the assumption, `OneLineVerdicts` and
`LeavesAreOnlyChildren`; both are below, with what in the code they stand for.

**RoundProofs** (`MaxQueriesAssumption`: at least one query; any verdicts).
`TypeOK`, `NoQueryLost`, `SetupFailureIsFinal`, `CrashNoteIsTrue`,
`JournalAhead`, `WorkerReaped` and `JournalAgrees` are invariants of `Spec`, and
`Spec` implements `RoundContract` (`RoundImplementsContract`). That an answer is
appended under the right number depends on what can be in the pipe when the
parent reads it. The inductive invariant is

    IInv == TypeOK /\ Synchrony /\ Safety

and `Synchrony` carries the argument: the pipe holds at most one message, and
where the parent stands says which. Before the setup is over nothing has been
learnt or sent (`BeforeSetup`) and the worker has sent at most its one setup
message (`SetupPipe`); between two queries the pipe is empty and the worker
waits or is dead (`IdlePipe`); while the parent waits, the query is in the pipe,
in the worker, or answered - exactly one of these (`BusyPipe`). So an answer
read can only be the one to the query in flight. A parent that has timed out
never reads again: that is why a late answer is harmless. `Progress` counts
answers against queries pulled by where the parent stands, `Process` relates
`wpc`, `exit` and the pipe, and `NoQueryAfterFailure` keeps the worker of a
failed setup idle. Preservation is split by who steps: `ParentStep`,
`WorkerStep`, `ClockStep`, `InterruptStep`, `Stutter`.

The refinement is proved from `IInv`: an answer received is an `Answer` of the
contract, the step in which the round's fate is settled is its counterpart, and
every other step is a stutter. `ImplementsContract` is the contract's initial
states and steps; that a fate is always settled is liveness (`RoundEnds`). The
log is a second induction on top: `LogInStep` says that the journal has the
shape of the results (`LogShape`) and that a query is begun and not ended
exactly while the parent is between sending it and hearing of it.

`WorkerReaped` says nothing of a round that a Ctrl-C abandoned, and for the rest
follows from `Process`: after `Join`, a worker that is alive is killed by `Reap`.

**EnginesProofs** (`EnginesAssumption`: any of the seven engines;
`QueriesAssumption`: at least one query). `OnlyTheOwnerStops`,
`NothingLeftBehind`, `KillersAreBlamed`, `FindingsHaveACause` and `TypeOK`.
`NothingLeftBehind` is about an owner that leaves by itself, on Ctrl-C, on an
exception or through its handler of SIGTERM, with its cluster registered: a
SIGTERM ends the engines without a handler (MySQL, CrateDB, TiDB), and any
engine before it has registered, on the spot, and their server stays
(`ended = "killed"`).
`IInv` is in two parts, proved one after the other. `Custody` is about servers:
how far the owner is says what it holds (`OwnerStages`), and as servers share a
port one runs at a time, the owner's except on TiDB (`OneServer`). `Attribution`
is about verdicts: a connection is only lost for a reason that the round's
`trouble` knows (`Losses`), the base has answered the query that the equivalent
is asked (`InStep`), and a killer ends its round where connections abort
(`KillersEndTheRound`). `FindingsHaveACause` needs `Losses`, since an error of a
lost connection is excused only by what lost it.

**FactoryProofs** (`FactoryAssumption`: what the requests and children of the
builders are, that there are finitely many builders, and that leaves ask for
nothing). `TypeOK`, `DepthIsBounded`,
`SurvivorsCounted` and `BudgetsHold`, in three inductions.

* `DepthIsBounded` is strengthened by `EveryCallRuns` and `LeavesAtTheLimit`: a
  frame that waits for a child runs a builder which asks for children, and so is
  no leaf.
* `SurvivorsCounted` needs `SavedCounts`: a builder was entered with the nodes of
  the calls around it on the count and no others, so that rolling back to
  `saved` gives back exactly what the children had added. `Held` counts the
  nodes of the frames as pairs of a frame and a number, of which a step changes
  those of the last frame (`OneMoreHolds`).
* `BudgetsHold` (`BudgetsAreKept`) takes `LeavesAreOnlyChildren`: what a leaf can
  answer is asked for by builders that ask for nothing else. In the source the
  one leaf is the base table, only `_dispatch_source`
  (`equivalence/builders/base.py:61`) admits it, and each builder that calls it
  calls `build_subtree` once; `MCFactory` has TLC evaluate it for its builders.
  `BudgetInv` is the invariant. `CallsAreAsked`: each call is for what the
  builder around it asked for last. `NodesLeft`: once `max_nodes` is reached a
  call can only begin for a leaf, whose parent has built nothing, so the tree
  was as large when the parent's own call began, which is absurd; hence no call
  begins, and each in progress adds one node. `AttemptsLeft`: past
  `max_attempts` each call in progress has a share of attempts (`Share`): one for
  its own node, one for a leaf, and one for each builder that can drop a leaf it
  was given (`Dropping`), as no builder has a second turn in a call
  (`NoSecondTurn`). `Owing` counts what of its share a call can still use, by the
  builders that have not had their turn. A leaf that fails returns its share with
  the call; one that succeeds completes its parent (`Completing`), whose node is
  then the other attempt, or which drops it and has used up one of the builders.
  Without the hypothesis a builder with several leaf children
  could exceed both bounds, as each of them could still be built.

**CampaignProofs** (`CampaignAssumption`: outcomes are well formed, as
`RoundContract` has it). `AbortsOnlyAfterARun` follows from `Aborting`, the
counts against the logs by where the loop stands. `EveryFindingHasARepro`
follows from `Writing`: every file is behind the place the writing has come to,
by round and position (`FilesAreBehind`), so the next one is new and adds one to
the cardinality; and the findings without a line in the index are exactly those
still to be written (`Unwritten`). `ReportAddsUp` and `FindingsAreTheReportable`
are inductive with `Totals`, by which a round's number is its place in the
report: recording a round adds its queries to those of the rounds before
(`OneMoreRan`), and findings of a round that no earlier one has. `record_round`
is one pass over the results, so how many findings it appends is counted by
position (`RanksAreExact`): the reportable queries are listed in order, each at
its rank.

**MultisetsProofs** (`MultisetsAssumption`: any cells, any tolerance, results of
any length). `NoFalsePass`, `NoFalseMismatch` and `ReportsTheRemainder`. Behind
all three is a pairing of the rows that no variable of the program holds:
`Accounted` says that at every turn of the loops some injection from rows of
`base` to rows of `other`, close pair by close pair, leaves over what the
Counters still have and has as many inexact pairs as `reconciled` says. A turn
that consumes `shared` rows of each side extends it by as many pairs. `Visited`
says that no two rows left over where the loops have been are close; at the end
that is everywhere. `NoFalsePass` is then immediate. `NoFalseMismatch` goes by
counting. Suppose a row of `base` is left over. If all rows can be paired off
and closeness is transitive, `base` has no more rows close to it than `other`
has; but those of `other` have all been consumed, each by a row of `base` that
is close to it as well, and the row left over is one more.

**SetupProofs** (`BoundsAssumption` only: any number of forks, trees of any
size, and any order of statements that the engine accepts). All five properties
of the run, in five inductions, each on top of the one before:

* `Tree` is what the builders grow. A node has one of four shapes: it is only
  read through (`Silent`), it makes an object of what queries read (`Made`), it
  adds rows to a channel's table (`Grown`), or it prunes one (`Pruned`). Only the
  links of one channel share a name (`Apart`); the writers of a table are a
  chain, each above the one before (`InChain`); and whatever writes to a table
  comes before the node that reads it (`Settled`). The last is what could go
  wrong with shared nodes: a channel that is read by one parent could be extended
  by another. It cannot, since a builder takes its inputs off the stack and a
  channel on the stack was written last by its own root (`Waiting`).
* `WalksAt` is about the walk: its frames are a path down the tree, what is seen
  is on the path or written, and the inputs of a written node are written. With
  `CountedAt`, the counters against the nodes of each builder, these make up
  `EmissionOK`, from which `BuildersAreCounted` follows.
* `Out` says of the statements written so far that they are in order (`InOrder`,
  `ReadLast`), that each comes from a written step, and that what written steps
  create is there. A step is written when all steps of its inputs and the ones
  before it in its node have been, which the innermost frame says; that it
  follows what is there is then a matter of `Tree`.
* `SetupOK` turns a list into a run: `Leads` says that a program, statement by
  statement, leads from some names and tables to others. The statements of the
  seed, the rename and the written ones lead from no object to the exposed names
  (`EquivalentStarts`; `BaseStarts` for the base side), and the rest of a
  program under way leads on from the objects that are there (`Going`).
  `NextStatementRuns` is its first step; `FinishedBeforeCopied` adds that views
  only read what the program no longer writes to.
* `Fenced`: what the fence has learnt from the texts of the statements is what
  the engine has (`FenceOK`), also across a rename, a statement that fails and a
  refresh that the engine makes by itself. `FenceKnowsObjects` and
  `ReadsSeeEverything` follow.

**JournalProofs** (`JournalAssumption`: a query begins and ends with text, and
may have blank lines inside), under `OneLineVerdicts`: no verdict has a line of
text of its own. The journal writes verdicts as they are, and an engine's
message of several lines breaks the three properties, which is the finding of
`journal_replay`; so the hypothesis is what separates the logs that replay from
those that do not. `ReplaysTheRound`, `VerdictsStayWithQueries` and
`CutOffLosesTheTailOnly`. `IInv` says that the last query begun stands after
some line `at` up to which the file reads as the queries before it, each with
its verdict, and that behind it there is its verdict or nothing
(`LastStandsAfter`). A new query moves `at` to the end of the file. A cut
removes lines after `at` only, and damages one of them, so what it may cost is
that query or that verdict.

**RewritesProofs** (`ValuesAssumption`, `CatalogsAssumption`: any base tables as
above, with as many rows and values as may be; for DuckDB also `BoundAssumption`,
that no table has 100000 rows). `RowsKept`, `KeysTellRowsApart`, `TaggedRowsKept`
and `WritableReadsAgree`, for every base table and every stack of portable and
native builders. The inductive invariant is `TreeInv`, what a subtree promises
to the builder above it; TLC has confirmed it on the run's tables. It has to say
more than the properties do:

* row numbers are among 1 .. n for n rows (`KeyedRows`). `RankModUnion` splits a
  keyed table by the residues of 1 .. n, and DuckDB's positional join puts its
  halves next to each other by position: n keys among 1 .. n, each greater than
  the one before, stand at their own places (`Increasing`, `PositionsAre`).
* a subtree just keyed has each row once, and one just tagged is the base table,
  each row with the tag: these are the rows that an expander writes out again.
* a query is of rows that were asked for or of a whole table that was keyed or
  tagged, never of an expansion. A primary key or unique index over a query is
  satisfied for that reason (`OneRowEach`).
* whole tables only are keyed or tagged.

There is one lemma for each builder, `...KeepsRows` or `...KeepsPromise`, which
says which law of SQL the rewrite rests on. The laws are proved once, above the
builders: SELECTs compose and do not care how rows are named (`SelectComposes`,
`SelectReindex`), the parts into which a function sorts the rows are together
the relation (`UnionOfParts`), a bag is the list of its rows (`SelectOfList`),
lists of columns that carry the key are paired by it (`CarriersPair`). Most are
about how often a row occurs, which is a cardinality; a correspondence of copies
takes the place of an induction over rows (`TotalReindex`, `TotalByParts`).

The theorems are about what is read. A statement that the engine refuses leaves
nothing to read; that none is refused, but for MIN and MAX of a uuid, is
`StatementsRun`.

What the recursive functions and the counts of these modules come to is proved
without induction over data: the induction theorems of the library take a
predicate as a parameter, which the provers cannot instantiate. `ReadUpTo` is
shown to satisfy its recursion by the least number for which it would not
(`LeastNumber`, from the well-foundedness of the natural numbers); sums are
cardinalities of sets of pairs.

Only model-checked:

* liveness: `RoundEnds`, `GenerationSucceeds`, `Recovers`; temporal reasoning
  under fairness is out of the prover's reach.
* `StatementsRun`: that there is something to read at all takes for each operator
  a witness (some order of the rows, some row of each group), whose existence is
  an induction over the rows. The run has a table for each type that a builder
  of its engine treats apart.

## What is not modelled, and the plan

Left out, and why:

* **Scheduler** (`fuzz/schedule.py`): a pure score with floating-point weights;
  `Round` has the deadline it yields.
* **Sweep** (`fuzz/sweep.py`): a sequential loop over the builders that reuses
  the databases and the comparison modelled here.
* **Query and predicate generators** (`generators/`, `plugins.py`): random SQL
  text, seen by `Round` as a source that yields, ends or raises, and by
  `Rewrites` as any predicate.
* **Configuration**: a reader of settings; the values are constants of
  `Factory`.
* **Evaluation** (`src/evaluation`): measurement scripts beside the product.
* **Repros** (`src/repro`): records of engine bugs.
* Parts of modelled components: argument parsing and the sampling of catalogs in
  `main`; `canonical_row` and the comparison of the object (`compare_env`);
  labels of single known bugs; literals and the reading of catalogs in
  connections.

Next, in this order:

1. `canonical_row` and `compare_env` in front of `Multisets`.
2. The stop rule and the classification of failures of the sweep.
