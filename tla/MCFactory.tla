----------------------------- MODULE MCFactory -----------------------------
(* Fifteen builders.  From "root", builders of eqgen/equivalence/builders, at   *)
(* least one for each way of asking for children: "filtered" is a relation with *)
(* a row filter on it, "rowkey" what _materialize_row_key asks for, a table     *)
(* with a key column, and "rewrite" what that table asks for in turn.  From     *)
(* "native_root", builders that look at what they are given: an index of        *)
(* PostgreSQL's that needs a text column, outermost or not, two queries that    *)
(* look at their source, and SequenceOuterJoin, which declines over a keyed     *)
(* table of one column.                                                         *)
EXTENDS Factory

PortableRequests ==
  {"root", "relation", "filtered", "source", "query", "filteredquery",
   "keyed", "rowkey", "rewrite"}
NativeRequests ==
  {"native_root", "native_source", "native_query", "native_rowkey",
   "native_rewrite"}
MCRequests == PortableRequests \cup NativeRequests

Creates == {"CreateView", "CreateTable"}
Reducers == {"KeyGroupAggregateReduce", "KeyDistinctReduce"}

MCAnswers ==
  [r \in MCRequests |->
     CASE r \in {"root", "relation"} -> Creates \cup Reducers
       [] r = "filtered" -> Creates
       [] r = "source" -> Creates \cup Reducers \cup {"BaseTableSource"}
       [] r = "query" -> {"SelectStar", "PartitionUnion", "IntersectSelf",
                          "SequenceOuterJoin"}
       [] r = "filteredquery" -> {"SelectStar", "PartitionUnion"}
       [] r = "keyed" -> {"KeyExplode", "KeyInsertExtras"}
       [] r \in {"rowkey", "native_rowkey"} -> {"CreateTable"}
       [] r \in {"rewrite", "native_rewrite"} -> {"Projection"}
       [] r = "native_root" -> {"CreateView", "PartialIndex"}
       [] r = "native_source" -> {"CreateView", "PartialIndex",
                                  "BaseTableSource"}
       [] r = "native_query" -> {"SelectStar", "DistinctOn",
                                 "LateralReproject", "SequenceOuterJoin"}]

MCBuilders == UNION {MCAnswers[r] : r \in MCRequests}

\* The query that a CREATE of each kind of relation is asked to wrap.
Wrapped(r) ==
  CASE r = "rowkey" -> "rewrite"
    [] r = "native_rowkey" -> "native_rewrite"
    [] r = "filtered" -> "filteredquery"
    [] r \in {"native_root", "native_source"} -> "native_query"
    [] OTHER -> "query"

MCAsks ==
  [b \in MCBuilders |-> [r \in MCRequests |->
     LET Of(portable, native) ==
           <<IF r \in NativeRequests THEN native ELSE portable>>
     IN CASE b \in Creates \cup {"PartialIndex"} -> <<Wrapped(r)>>
          [] b \in Reducers \cup {"KeyInsertExtras"} -> <<"keyed">>
          [] b \in {"KeyExplode", "SequenceOuterJoin"} ->
               Of("rowkey", "native_rowkey")
          [] b \in {"SelectStar", "Projection", "DistinctOn",
                    "LateralReproject"} -> Of("source", "native_source")
          [] b = "PartitionUnion" -> <<"filtered", "filtered">>
          [] b = "IntersectSelf" -> <<"relation", "relation">>
          [] b = "BaseTableSource" -> <<>>]]

\* A deadline and a budget of nodes with a small tree, and a budget of attempts
\* with one as deep as the state space allows, for both sets of builders.
MCSettings ==
  UNION {{[max_depth |-> 5, max_nodes |-> 2, max_attempts |-> 0,
           has_deadline |-> r = "root", root |-> r],
          [max_depth |-> 7, max_nodes |-> 0, max_attempts |-> 1,
           has_deadline |-> FALSE, root |-> r]} : r \in {"root", "native_root"}}

MCLeaves == {"BaseTableSource"}
MCStubborn == {"IntersectSelf"}
MCFickle == {"PartitionUnion", "KeyDistinctReduce", "DistinctOn"}
MCPicky ==
  {"PartialIndex", "DistinctOn", "LateralReproject", "SequenceOuterJoin"}

\* What the proof of BudgetsHold takes the builders to do is what these do.
ASSUME LeavesAssumption == LeavesAreOnlyChildren
=============================================================================
