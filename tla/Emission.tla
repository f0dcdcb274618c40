------------------------------ MODULE Emission ------------------------------
(***************************************************************************)
(* Equivalence trees as structures: how nodes are named and share what     *)
(* they read, and in which order their statements are written.             *)
(*                                                                         *)
(* `nodes` are all nodes built, numbered as they were; `stack` holds the   *)
(* finished subtrees that no builder has taken yet, so that a builder      *)
(* takes its children off the top.  A node has inputs, the name it is read *)
(* under, and steps; a builder may put several nodes and may read one of   *)
(* them twice.  A subtree is dropped when the builder that asked for it    *)
(* declines.  When the outermost object is built, it gets the exposed name *)
(* and ends the generation of one fork.                                    *)
(***************************************************************************)
EXTENDS Integers, Sequences, FiniteSets, Functions

CONSTANTS MaxForks,    \* bound: forks of one base table
          MaxNodes     \* bound: nodes built in all

ASSUME BoundsAssumption == MaxForks \in Nat \ {0} /\ MaxNodes \in Nat

VARIABLES exposed_names,   \* one fork for each
          nodes, stack,
          names,       \* NameGenerator's counters, one per prefix
          forks,       \* the roots of the finished forks
          chosen,      \* the factory's counters of the nodes that builders made
          builders     \* the counters generate_forks adds up
VARIABLES walking,     \* the calls of walk, the innermost last
          seen,        \* the nodes that a call was made for
          setup_statements,
          written      \* history: the nodes whose steps have been written
treeVars == <<exposed_names, nodes, stack, names, forks, chosen, builders>>
walkVars == <<walking, seen, setup_statements, written>>
emissionVars == <<treeVars, walkVars>>

NameKinds == {"table", "view"}
BuilderNames == {"BaseTableSource", "SelectStar", "UnionAll", "FlagTableJoin", "CreateView", "CreateTable",
                 "DeleteReinsert", "TagExplode", "TagInsertExtras", "TagPruneDelete"}
hidden_base_name == <<"base", 0>>
seed_name == <<"t", 0>>
exposed_fork_names(count) ==
  IF count = 1 THEN <<seed_name>> ELSE [i \in 1 .. count |-> <<"t", i>>]

-----------------------------------------------------------------------------
(* Nodes and their steps. *)
Node(by, kind, inputs, ref, steps) ==
  [by |-> by, kind |-> kind, inputs |-> inputs, ref |-> ref, steps |-> steps]
Part == "a part of another"
Step(verb, target, reads) == [verb |-> verb, target |-> target, reads |-> reads]
\* what a statement that reads these nodes names: a query stands for its sources
Sources(pool, ids) ==
  UNION {IF pool[id].kind = "query" THEN {pool[c].ref : c \in Range(pool[id].inputs)} ELSE {pool[id].ref} :
           id \in Range(ids)}
Query(by, inputs) == Node(by, "query", inputs, hidden_base_name, <<>>)

mint(kind, counters) == <<kind, counters[kind] + 1>>

-----------------------------------------------------------------------------
EmissionInit ==
  /\ exposed_names \in {exposed_fork_names(count) : count \in 1 .. MaxForks}
  /\ nodes = <<>> /\ stack = <<>> /\ forks = <<>>
  /\ names = [p \in NameKinds |-> 0]
  /\ chosen = [b \in BuilderNames |-> 0] /\ builders = [b \in BuilderNames |-> 0]
  /\ walking = <<>> /\ seen = {} /\ setup_statements = <<>> /\ written = {}

Generating == walking = <<>> /\ Len(forks) < Len(exposed_names)
Taken(n) == SubSeq(stack, Len(stack) - n + 1, Len(stack))
Kinds(n) == [i \in 1 .. n |-> nodes[Taken(n)[i]].kind]
Rest(n) == SubSeq(stack, 1, Len(stack) - n)

\* a builder takes the n topmost subtrees and makes `more` nodes, with `minted` new names
Makes(builder, more, kind, minted) ==
  /\ Generating /\ Len(nodes) + Len(more) <= MaxNodes
  /\ nodes' = nodes \o more
  /\ names' = [names EXCEPT ![kind] = @ + minted]
  /\ chosen' = [chosen EXCEPT ![builder] = @ + 1]
  /\ UNCHANGED <<exposed_names, forks, builders, setup_statements, written>>
\* the last of them takes the place of the subtrees
Puts(builder, n, more, kind, minted) ==
  /\ Makes(builder, more, kind, minted)
  /\ stack' = Append(Rest(n), Len(nodes) + Len(more))
  /\ UNCHANGED <<walking, seen>>

\* a call of walk: the node, and the child or, after the children, the step that is next
Frame(node, next) == [node |-> node, next |-> next]

\* an object above its children, made for each name it may get: the root's takes the exposed
\* name, and its tree is walked
NamesFor(kind) == {mint(kind, names)} \cup Range(exposed_names)
PutsObject(builder, n, kind, made) ==
  \/ Puts(builder, n, <<made[mint(kind, names)]>>, kind, 1)
  \/ /\ Makes(builder, <<made[exposed_names[Len(forks) + 1]]>>, kind, 0)
     /\ Len(stack) = n /\ stack' = <<>>
     /\ walking' = <<Frame(Len(nodes) + 1, 1)>> /\ seen' = {Len(nodes) + 1}

-----------------------------------------------------------------------------
(* The builders: one of each way to name, share and write. *)
BaseTableSourceBuilder == 
  Puts("BaseTableSource", 0, <<Node("BaseTableSource", "base", <<>>, hidden_base_name, <<>>)>>, "table", 0)

SelectStarQueryBuilder ==
  /\ Len(stack) >= 1 /\ Kinds(1)[1] \in {"base", "view", "table"}
  /\ Puts("SelectStar", 1, <<Query("SelectStar", Taken(1))>>, "table", 0)

UnionEmptyRoundTripBuilder ==
  /\ Len(stack) >= 2 /\ \A i \in 1 .. 2 : Kinds(2)[i] \in {"view", "table"}
  /\ Puts("UnionAll", 2, <<Query("UnionAll", Taken(2))>>, "table", 0)

\* a table is read by the flag table made of it and by the join of both
FlagTableJoinQueryBuilder ==
  LET keyed == Taken(1)[1]
      flags == Len(nodes) + 2
      name == mint("table", names)
  IN /\ Len(stack) >= 1 /\ Kinds(1) = <<"table">>
     /\ Puts("FlagTableJoin", 1,
             <<Query(Part, <<keyed>>),
               Node(Part, "table", <<Len(nodes) + 1>>, name,
                    <<Step("create table", name, {nodes[keyed].ref})>>),
               Query("FlagTableJoin", <<keyed, flags>>)>>, "table", 1)

CreateViewBuilder ==
  LET made == [name \in NamesFor("view") |->
                 Node("CreateView", "view", Taken(1), name,
                      <<Step("create view", name, Sources(nodes, Taken(1)))>>)]
  IN Len(stack) >= 1 /\ Kinds(1) = <<"query">> /\ PutsObject("CreateView", 1, "view", made)

CreateTableBuilder ==
  LET made == [name \in NamesFor("table") |->
                 Node("CreateTable", "table", Taken(1), name,
                      <<Step("create table", name, Sources(nodes, Taken(1)))>>)]
  IN Len(stack) >= 1 /\ Kinds(1) = <<"query">> /\ PutsObject("CreateTable", 1, "table", made)

DeleteReinsertTableBuilder ==
  LET made == [name \in NamesFor("table") |->
                 Node("DeleteReinsert", "table", Taken(1), name,
                      <<Step("create table", name, Sources(nodes, Taken(1))),
                        Step("delete", name, {}), Step("insert", name, {hidden_base_name})>>)]
  IN Len(stack) >= 1 /\ Kinds(1) = <<"query">> /\ PutsObject("DeleteReinsert", 1, "table", made)

\* rows to keep, a table of copies to throw away, and the union of the rows and some of the copies
TagExplodeExpansionBuilder ==
  LET keep == Taken(1)[1]
      throw == mint("table", names)
      both == <<"table", names["table"] + 2>>
      id == Len(nodes)
  IN /\ Len(stack) >= 1 /\ Kinds(1) = <<"table">>
     /\ \E rowcount \in {1, 3} :
          LET union == Query(Part, <<keep>> \o [copy \in 1 .. rowcount - 1 |-> id + 2])
              read == {nodes[keep].ref} \cup {throw : copy \in 2 .. rowcount}
          IN Puts("TagExplode", 1,
                  <<Query(Part, <<keep>>),
                    Node(Part, "table", <<id + 1>>, throw,
                         <<Step("create table", throw, {nodes[keep].ref})>>),
                    union,
                    Node("TagExplode", "channel", <<id + 3>>, both, <<Step("create table", both, read)>>)>>,
                  "table", 2)

\* more copies, in the table that is there
TagInsertExtrasExpansionBuilder ==
  LET table == nodes[Taken(1)[1]].ref
  IN /\ Len(stack) >= 1 /\ Kinds(1) = <<"channel">>
     /\ Puts("TagInsertExtras", 1,
             <<Node("TagInsertExtras", "channel", Taken(1), table, <<Step("insert", table, {table})>>)>>,
             "table", 0)

TagPruneDeleteReduceBuilder ==
  LET table == nodes[Taken(1)[1]].ref
      made == [name \in NamesFor("view") |->
                 Node("TagPruneDelete", "view", Taken(1), name,
                      <<Step("delete", table, {}), Step("create view", name, {table})>>)]
  IN Len(stack) >= 1 /\ Kinds(1) = <<"channel">> /\ PutsObject("TagPruneDelete", 1, "view", made)

\* the builder that asked for the topmost subtree declines
Decline ==
  /\ Generating /\ stack # <<>>
  /\ stack' = Rest(1)
  /\ UNCHANGED <<exposed_names, nodes, names, forks, chosen, builders, walkVars>>

Generate ==
  \/ BaseTableSourceBuilder \/ SelectStarQueryBuilder \/ UnionEmptyRoundTripBuilder
  \/ FlagTableJoinQueryBuilder \/ CreateViewBuilder \/ CreateTableBuilder
  \/ DeleteReinsertTableBuilder \/ TagExplodeExpansionBuilder
  \/ TagInsertExtrasExpansionBuilder \/ TagPruneDeleteReduceBuilder \/ Decline

-----------------------------------------------------------------------------
(* Emission: depth first, children before parents, each node once. *)
Statement(verb, target, reads) == [verb |-> verb, target |-> target, to |-> target, reads |-> reads]
\* CrateDB's emitter makes a table and fills it in two statements
visit(step) ==
  IF step.verb = "create table"
  THEN <<Statement("create table", step.target, {}), Statement("insert", step.target, step.reads)>>
  ELSE <<Statement(step.verb, step.target, step.reads)>>

\* Mutant: a shared child is written for every parent.
never_visited(node) == FALSE
visited(node) == node \in seen

Call == walking[Len(walking)]
Walked == nodes[Call.node]
Moved == [walking EXCEPT ![Len(walking)] = Frame(Call.node, Call.next + 1)]
AtChild == walking # <<>> /\ Call.next <= Len(Walked.inputs)
NextChild == Walked.inputs[Call.next]
NextStep == Call.next - Len(Walked.inputs)

SkipChild ==
  /\ AtChild /\ visited(NextChild)
  /\ walking' = Moved
  /\ UNCHANGED <<treeVars, seen, setup_statements, written>>

WalkChild ==
  /\ AtChild /\ ~visited(NextChild)
  /\ walking' = Append(Moved, Frame(NextChild, 1))
  /\ seen' = seen \cup {NextChild}
  /\ UNCHANGED <<treeVars, setup_statements, written>>

WriteStep ==
  /\ walking # <<>> /\ ~AtChild /\ NextStep <= Len(Walked.steps)
  /\ setup_statements' = setup_statements \o visit(Walked.steps[NextStep])
  /\ walking' = Moved
  /\ UNCHANGED <<treeVars, seen, written>>

AllWritten == walking # <<>> /\ ~AtChild /\ NextStep > Len(Walked.steps)
Return ==
  /\ AllWritten /\ Len(walking) > 1
  /\ walking' = SubSeq(walking, 1, Len(walking) - 1)
  /\ written' = written \cup {Call.node}
  /\ UNCHANGED <<treeVars, seen, setup_statements>>

\* the walk of the whole tree is over, and the fork is complete
\* Mutant: the counter of the last fork stands for all.
CountLastFork == chosen
CountFork == [b \in BuilderNames |-> builders[b] + chosen[b]]
EndFork ==
  /\ AllWritten /\ Len(walking) = 1
  /\ walking' = <<>> /\ seen' = {}
  /\ written' = written \cup {Call.node}
  /\ forks' = Append(forks, Call.node)
  /\ builders' = CountFork
  /\ chosen' = [b \in BuilderNames |-> 0]
  /\ UNCHANGED <<exposed_names, nodes, stack, names, setup_statements>>

emit_equivalence == SkipChild \/ WalkChild \/ WriteStep \/ Return \/ EndFork
=============================================================================
