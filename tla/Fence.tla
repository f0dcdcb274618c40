-------------------------------- MODULE Fence --------------------------------
(***************************************************************************)
(* The write fence of the CrateDB connection.  CrateDB shows what was      *)
(* written to a table only after a REFRESH of it, its own now and then or  *)
(* one that is asked for; the fence keeps a list of the tables written to  *)
(* and refreshes before it lets a statement read.                          *)
(*                                                                         *)
(* A statement is [verb, target, to, reads].                               *)
(***************************************************************************)
VARIABLE fence

Verbs == {"insert values", "write", "read", "rename", "create table", "create view", "drop", "opaque"}
\* Mutant: no write reads.
may_read_queries(effect) == effect \notin {"insert values", "write"}
may_read(effect) == effect # "insert values"

\* what the text of a statement is taken for, as far as the first words tell
classify(statement) ==
  CASE statement.verb = "create table as" -> "write"
    [] statement.verb \in {"insert", "delete", "update"} -> "write"
    [] statement.verb = "select" -> "read"
    [] statement.verb = "create temporary table" -> "opaque"
    [] statement.verb \in Verbs -> statement.verb

FenceState(tables, views, dirty) == [tables |-> tables, views |-> views, dirty |-> dirty]
FenceInit == fence = FenceState({}, {}, {})

\* before: everything dirty, unless nothing is read
before(statement) == IF may_read(classify(statement)) THEN fence.dirty ELSE {}
paranoid_before == fence.tables

\* _run_fence: every known table if there is one, otherwise what is dirty
refreshes(statement) ==
  IF may_read(classify(statement)) /\ paranoid_before # {} THEN paranoid_before ELSE before(statement)
flushed(state, refreshed) == IF refreshed = {} THEN state ELSE FenceState(state.tables, state.views, {})

-----------------------------------------------------------------------------
marked(state, target) ==
  LET written == {target} \ state.views
  IN FenceState(state.tables \cup written, state.views, state.dirty \cup written)

\* Mutant: the table keeps its old name.
renamed_keeps(state, target, to) == FenceState(state.tables, state.views, state.dirty \ {target})
renamed(state, target, to) ==
  FenceState((state.tables \ {target}) \cup {to}, state.views, state.dirty \ {target})

after(state, statement) ==
  LET effect == classify(statement)
      target == statement.target
      known == state.tables
      views == state.views
      dirty == state.dirty
  IN CASE effect \in {"insert values", "write"} -> marked(state, target)
       [] effect = "rename" -> renamed(state, target, statement.to)
       [] effect = "create table" -> FenceState(known \cup {target}, views, dirty)
       [] effect = "create view" -> FenceState(known \ {target}, views \cup {target}, dirty)
       [] effect = "drop" -> FenceState(known \ {target}, views \ {target}, dirty \ {target})
       [] effect = "opaque" -> FenceState(known, views, dirty \cup known)
       [] effect = "read" -> state
=============================================================================
