-------------------------------- MODULE Setup --------------------------------
(***************************************************************************)
(* Setting a database up on CrateDB: the trees of all forks are generated, *)
(* their statements are written for one of the two databases of a round,   *)
(* and the connection runs them behind its write fence; then the workload  *)
(* reads the exposed names.                                                *)
(*                                                                         *)
(* An object is a table, with `pending` as long as a write to it has not   *)
(* been refreshed, or a view, with the names it reads.  `missed` are the   *)
(* tables that a statement read while a write to them was pending.         *)
(***************************************************************************)
EXTENDS Emission, Fence

CONSTANT SeedRows     \* the rows of the seed table, one INSERT for each

ASSUME SeedRowsAssumption == SeedRows \in Nat

VARIABLES phase,      \* "generate", then "set up", then "query" or "failed"
          side,       \* "base" or "equivalent"
          program,    \* the statements still to be run
          objects, missed
setupVars == <<phase, side, program, objects, missed>>
vars == <<emissionVars, fence, setupVars>>

Tables == {name \in DOMAIN objects : objects[name].kind = "table"}
Pending == {name \in Tables : objects[name].pending}
TableObject(pending) == [kind |-> "table", reads |-> {}, pending |-> pending]
ViewObject(reads) == [kind |-> "view", reads |-> reads, pending |-> FALSE]

-----------------------------------------------------------------------------
(* The statements of one database. *)
base_setup_statements ==
  <<Statement("create table", seed_name, {})>>
    \o [row \in 1 .. SeedRows |-> Statement("insert values", seed_name, {})]
\* the seed table is the only fork or none of them
fork_copy_statements ==
  [i \in {i \in DOMAIN exposed_names : exposed_names[i] # seed_name} |->
     Statement("create table as", exposed_names[i], {seed_name})]
rename_aside_sql == [Statement("rename", seed_name, {}) EXCEPT !.to = hidden_base_name]

build_base == base_setup_statements \o fork_copy_statements
\* Mutant: what deletes rows goes last.
deletes_last ==
  LET deletes(statement) == statement.verb = "delete"
  IN base_setup_statements \o <<rename_aside_sql>>
       \o SelectSeq(setup_statements, LAMBDA statement : ~deletes(statement))
       \o SelectSeq(setup_statements, deletes)
build_equivalent == base_setup_statements \o <<rename_aside_sql>> \o setup_statements

-----------------------------------------------------------------------------
(* What a statement does to the objects, and what it reads. *)
tables_below(from) ==
  LET deepest == Cardinality(DOMAIN objects)
      below[depth \in 0 .. deepest] ==
        IF depth = 0 THEN from
        ELSE UNION {{name} \cup objects[name].reads : name \in below[depth - 1]}
  IN below[deepest] \cap Tables

\* VALUES read nothing, and DELETE finds the rows to delete as a query would
tables_read(statement) ==
  IF statement.verb \in {"create view", "insert values"} THEN {}
  ELSE tables_below(statement.reads) \cup IF statement.verb = "delete" THEN {statement.target} ELSE {}

Put(now, target, object) ==
  [name \in DOMAIN now \cup {target} |-> IF name = target THEN object ELSE now[name]]
Creates == {"create table", "create table as", "create view"}
ObjectsAfter(statement, now) ==
  CASE statement.verb = "create table" -> Put(now, statement.target, TableObject(FALSE))
    [] statement.verb = "create table as" -> Put(now, statement.target, TableObject(TRUE))
    [] statement.verb = "create view" -> Put(now, statement.target, ViewObject(statement.reads))
    [] statement.verb \in {"insert values", "insert", "delete"} ->
         Put(now, statement.target, TableObject(TRUE))
    [] statement.verb = "rename" ->
         [name \in (DOMAIN now \ {statement.target}) \cup {statement.to} |->
            IF name = statement.to THEN now[statement.target] ELSE now[name]]
    [] statement.verb = "select" -> now

\* The engine takes a statement only if what it reads and writes is there and
\* what it creates is not there yet.
RunVerbs == Creates \cup {"insert values", "insert", "delete", "rename", "select"}
Accepts(statement) ==
  /\ statement.verb \in RunVerbs
  /\ statement.reads \subseteq DOMAIN objects
  /\ statement.verb \in Creates => statement.target \notin DOMAIN objects
  /\ statement.verb \notin Creates \cup {"select"} => statement.target \in Tables
  /\ statement.verb = "rename" => statement.to \notin DOMAIN objects

\* REFRESH TABLE of what does not exist is skipped (42P01)
Refreshed(refreshed) ==
  [name \in DOMAIN objects |->
     IF name \in refreshed /\ name \in Tables THEN TableObject(FALSE) ELSE objects[name]]

-----------------------------------------------------------------------------
Init ==
  /\ EmissionInit /\ FenceInit
  /\ phase = "generate" /\ side \in {"base", "equivalent"}
  /\ program = <<>> /\ objects = <<>> /\ missed = {}

GenerateForks ==
  /\ phase = "generate"
  /\ Generate \/ emit_equivalence
  /\ UNCHANGED <<fence, setupVars>>

\* run_round opens a new connection, with a schema of its own, and builds one side
Build ==
  /\ phase = "generate" /\ walking = <<>> /\ ~Generating
  /\ phase' = "set up"
  /\ program' = IF side = "base" THEN build_base ELSE build_equivalent
  /\ UNCHANGED <<emissionVars, fence, side, objects, missed>>

\* execute: the fence, the statement, and the fence again
execute(statement) ==
  LET fenced == refreshes(statement)
      now == Refreshed(fenced)
  IN /\ objects' = ObjectsAfter(statement, now)
     /\ missed' = missed \cup {name \in tables_read(statement) : now[name].pending}
     /\ fence' = after(flushed(fence, fenced), statement)

run ==
  /\ phase = "set up" /\ program # <<>> /\ Accepts(Head(program))
  /\ execute(Head(program))
  /\ program' = Tail(program)
  /\ UNCHANGED <<emissionVars, phase, side>>

\* the engine refuses a statement, after the refreshes; nothing more is run
StatementFails ==
  /\ phase = "set up" /\ program # <<>>
  /\ phase' = "failed"
  /\ objects' = Refreshed(refreshes(Head(program)))
  /\ fence' = flushed(fence, refreshes(Head(program)))
  /\ UNCHANGED <<emissionVars, side, program, missed>>

SetupDone ==
  /\ phase = "set up" /\ program = <<>>
  /\ phase' = "query"
  /\ UNCHANGED <<emissionVars, fence, side, program, objects, missed>>

\* a query of the workload reads some of the exposed names
query ==
  /\ phase = "query"
  /\ \E from \in SUBSET Range(exposed_names) \ {{}} :
       LET select == Statement("select", seed_name, from)
       IN Accepts(select) /\ execute(select)
  /\ UNCHANGED <<emissionVars, phase, side, program>>

\* the engine refreshes a table by itself now and then
EngineRefreshes ==
  /\ phase \in {"set up", "query"}
  /\ \E name \in Pending : objects' = Refreshed({name})
  /\ UNCHANGED <<emissionVars, fence, phase, side, program, missed>>

Next == GenerateForks \/ Build \/ run \/ StatementFails \/ SetupDone \/ query \/ EngineRefreshes
Spec == Init /\ [][Next]_vars

-----------------------------------------------------------------------------
(* Properties. *)

\* Statements come in an order that works (emit_equivalence): what the next one reads and writes
\* is there, what it creates is not there yet, and in the end the exposed names are.
NextStatementRuns ==
  /\ phase = "set up" /\ program # <<>> => Accepts(Head(program))
  /\ phase = "query" => Range(exposed_names) \subseteq DOMAIN objects

\* Rows are copied out of finished tables: no later statement of the program writes to a table
\* that the next one copies rows from into another.
FinishedBeforeCopied ==
  phase = "set up" /\ program # <<>> /\ NextStatementRuns =>
    \A i \in 2 .. Len(program) :
      program[i].verb \in {"insert", "insert values", "delete"} /\ program[i].target # Head(program).target
        => program[i].target \notin tables_read(Head(program))

\* Whatever the engine refreshes by itself, no statement of the setup and no query of the
\* workload has missed a row that was written before (the fence of _CrateConnection).
ReadsSeeEverything == missed = {}

\* The fence, which sees only texts, knows which tables and which views there are
\* (FenceState.after, also across the renaming of the base table), and holds every table
\* with a write that has not been refreshed for dirty.
FenceKnowsObjects ==
  /\ fence.tables = Tables
  /\ fence.views = DOMAIN objects \ Tables
  /\ Pending \subseteq fence.dirty

\* The counts that generate_forks adds up cover every node in the trees it returns.
BuildersAreCounted ==
  walking = <<>> => \A b \in BuilderNames : Cardinality({id \in written : nodes[id].by = b}) <= builders[b]

-----------------------------------------------------------------------------
(* The inductive invariant behind the two about the fence. *)
ObjectsOK ==
  \A name \in DOMAIN objects :
    /\ objects[name].kind \in {"table", "view"} /\ objects[name].pending \in BOOLEAN
    /\ objects[name].kind = "view" => ~objects[name].pending
FenceOK ==
  /\ fence \in [tables : SUBSET DOMAIN objects, views : SUBSET DOMAIN objects, dirty : SUBSET Tables]
  /\ FenceKnowsObjects
Fenced == ObjectsOK /\ FenceOK /\ ReadsSeeEverything
=============================================================================
