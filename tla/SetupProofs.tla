----------------------------- MODULE SetupProofs -----------------------------
(***************************************************************************)
(* The setup of the two databases goes through, and CrateDB's write fence  *)
(* works: for any number of forks, trees of any size grown by the builders *)
(* in any order, and any statement that the engine takes.                  *)
(*                                                                         *)
(* The argument, in the order of the sections:                             *)
(*   - Tree: what the builders grow.  Every node has one of four shapes;   *)
(*     no two nodes that make an object share a name; whoever else writes  *)
(*     to a table comes before the node that reads it.  The subtrees on    *)
(*     the stack wait: a channel there was written last by its own root.   *)
(*   - WalksAt: the walk in emission order.  The frames are a path, the    *)
(*     nodes seen are those on it and those written, and a written node's  *)
(*     inputs are written.  EmissionOK adds the counters of the builders.  *)
(*   - Out: what the walk has written is a list of statements in order.    *)
(*     What a statement reads was created before, no name is created       *)
(*     twice, and a table that was read is written to no more.             *)
(*   - SetupOK: a list in order, behind the statements that make the seed  *)
(*     and move it aside, is a program that runs from no object to the     *)
(*     exposed names; the rest of it still does after each statement.      *)
(*   - Fenced: the fence sees the texts of the statements only, so what it *)
(*     keeps must agree with what the engine keeps.                        *)
(***************************************************************************)
EXTENDS Setup, SequenceTheorems, FiniteSetTheorems, WellFoundedInduction, TLAPS

\* Every non-empty set of natural numbers has a least element.
LEMMA LeastNumber ==
  ASSUME NEW S \in SUBSET Nat, S # {}
  PROVE  \E m \in S : \A k \in S : m <= k
<1>1. PICK m \in S : \A k \in S : ~(<<k, m>> \in OpToRel(<, Nat))
  BY NatLessThanWellFounded, WFMin
<1>2. \A k \in S : ~(k < m)
  BY <1>1 DEF OpToRel
<1> QED
  BY <1>2

-----------------------------------------------------------------------------
(* The trees *)

\* The types of names, steps and nodes.
Names == {"base", "t", "table", "view"} \X Nat
StepVerbs == {"create table", "create view", "insert", "delete"}
Bys == BuilderNames \cup {Part}
NodeKinds == {"base", "query", "table", "view", "channel"}
StepType == [verb : StepVerbs, target : Names, reads : SUBSET Names]
NodeType == [by : Bys, kind : NodeKinds, inputs : Seq(Nat), ref : Names, steps : Seq(StepType)]

\* A node has a name of its own; it writes to a table; it reads what it does not write.
Named(p, x) == p[x].kind \in {"table", "view", "channel"}
Writes(p, x, m) ==
  \E i \in DOMAIN p[x].steps :
    p[x].steps[i].target = m /\ p[x].steps[i].verb \in {"create table", "insert", "delete"}
ReadsFrom(p, x, m) ==
  \E i \in DOMAIN p[x].steps : m \in p[x].steps[i].reads /\ p[x].steps[i].target # m
\* The four shapes of a node n above the nodes p: it is only read through, it makes an object of
\* what queries read, it adds to a channel table, or it prunes one.
Silent(p, n) ==
  /\ n.kind \in {"base", "query"} /\ n.ref = hidden_base_name /\ n.steps = <<>>
  /\ \A i \in DOMAIN n.inputs : p[n.inputs[i]].kind \in {"base", "table", "view"}
Made(p, n) ==
  /\ n.kind \in {"table", "view", "channel"} /\ n.steps # <<>>
  /\ \A i \in DOMAIN n.inputs : p[n.inputs[i]].kind = "query"
  /\ n.steps[1].verb = IF n.kind = "view" THEN "create view" ELSE "create table"
  /\ n.steps[1].reads \subseteq Sources(p, n.inputs)
  /\ \A i \in DOMAIN n.steps : n.steps[i].target = n.ref
  /\ \A i \in DOMAIN n.steps : i > 1 =>
       n.kind = "table" /\ n.steps[i].verb \in {"insert", "delete"} /\ n.steps[i].reads \subseteq {hidden_base_name}
Grown(p, n) ==
  \E c \in DOMAIN p : /\ n.kind = "channel" /\ n.inputs = <<c>> /\ p[c].kind = "channel" /\ n.ref = p[c].ref
                      /\ n.steps = <<Step("insert", n.ref, {n.ref})>>
PruningSteps(n, table) == n.steps = <<Step("delete", table, {}), Step("create view", n.ref, {table})>>
Pruned(p, n) ==
  \E c \in DOMAIN p : /\ n.kind = "view" /\ n.inputs = <<c>> /\ p[c].kind = "channel"
                      /\ PruningSteps(n, p[c].ref)

\* A node is above its inputs; a named node's name is in use; two nodes of one name are links of the
\* same channel, and not both made it; the writers of a table are a chain, each above the one
\* before; and all other writers of what a node reads come before the node.
TypedNodes(p) == p \in Seq(NodeType)
InputsBefore(p) == \A x \in DOMAIN p : \A i \in DOMAIN p[x].inputs : p[x].inputs[i] \in 1 .. x - 1
Shaped(p) == \A x \in DOMAIN p : Silent(p, p[x]) \/ Made(p, p[x]) \/ Grown(p, p[x]) \/ Pruned(p, p[x])
InUse(p, u) == hidden_base_name \notin u /\ \A x \in DOMAIN p : Named(p, x) => p[x].ref \in u
Apart(p) ==
  \A x, y \in DOMAIN p : Named(p, x) /\ Named(p, y) /\ x # y /\ p[x].ref = p[y].ref =>
    /\ p[x].kind = "channel" /\ p[y].kind = "channel"
    /\ ~(Made(p, p[x]) /\ Made(p, p[y]))
InChain(p) ==
  \A x, y \in DOMAIN p : \A m \in Names : Writes(p, x, m) /\ Writes(p, y, m) /\ y < x =>
    \E i \in DOMAIN p[x].inputs : Writes(p, p[x].inputs[i], m) /\ y <= p[x].inputs[i]
\* y is an input of an input of x, or comes before an input that writes to m as well
Before(p, y, x, m) ==
  \E i \in DOMAIN p[x].inputs :
    LET c == p[x].inputs[i]
    IN (Writes(p, c, m) /\ y <= c) \/ \E j \in DOMAIN p[c].inputs : y = p[c].inputs[j]
Settled(p) ==
  \A x, y \in DOMAIN p : \A m \in Names : ReadsFrom(p, x, m) /\ Writes(p, y, m) => y = x \/ Before(p, y, x, m)

\* The nodes p are trees that use the names u.
Tree(p, u) ==
  /\ TypedNodes(p) /\ InputsBefore(p) /\ Shaped(p) /\ InUse(p, u)
  /\ Apart(p) /\ InChain(p) /\ Settled(p)

\* Nothing has written to the channel since its node c.
LastWriter(p, c) == \A x \in DOMAIN p : Writes(p, x, p[c].ref) => x <= c
\* the subtrees that wait for a parent, all of the tree above node `low`
Waiting(p, st, low) ==
  /\ st \in Seq(Nat)
  /\ \A i \in DOMAIN st : st[i] > low /\ st[i] \in DOMAIN p
  /\ \A i, j \in DOMAIN st : i < j => st[i] < st[j]
  /\ \A i \in DOMAIN st : p[st[i]].kind = "channel" => LastWriter(p, st[i])
\* The tree of a fork has no node of the forks before.
ForkApart(p, low) == \A x \in DOMAIN p : x > low => \A i \in DOMAIN p[x].inputs : p[x].inputs[i] > low

\* The root of the last fork that is done, and the number of forks whose root is there.
LastRoot == IF forks = <<>> THEN 0 ELSE forks[Len(forks)]
Started == Len(forks) + IF walking = <<>> THEN 0 ELSE 1
\* the names given out: by the counters, and to the first forks
UsedOf(counters, exposed, count) ==
  {name \in NameKinds \X Nat : name[2] \in 1 .. counters[name[1]]} \cup {exposed[i] : i \in 1 .. count}
UsedNames == UsedOf(names, exposed_names, Started)
\* The exposed names: distinct, and one fork alone is exposed as the seed.
ExposedOK(exposed) ==
  /\ exposed \in Seq({"t"} \X Nat) /\ exposed # <<>>
  /\ \A i, j \in DOMAIN exposed : exposed[i] = exposed[j] => i = j
  /\ \A i \in DOMAIN exposed : exposed[i] = seed_name => Len(exposed) = 1

-----------------------------------------------------------------------------
(* The walk and what it writes: types and order *)

FrameType == [node : Nat, next : Nat]
StatementType ==
  [verb : {"create table", "create view", "insert", "delete"}, target : Names, to : Names, reads : SUBSET Names]
\* The statement s is written for the step.
Comes(s, step) ==
  /\ s.target = step.target /\ s.reads \subseteq step.reads
  /\ s.verb = step.verb \/ (s.verb = "insert" /\ step.verb = "create table")
\* What has been made before statement k.
MadeBefore(S, k, m) == \E j \in 1 .. k - 1 : S[j].verb \in {"create table", "create view"} /\ S[j].target = m
TableBefore(S, k, m) == \E j \in 1 .. k - 1 : S[j].verb = "create table" /\ S[j].target = m
\* What a statement reads or writes to is made before, and nothing is made twice.
InOrder(S) ==
  \A k \in DOMAIN S :
    /\ \A m \in S[k].reads : m = hidden_base_name \/ MadeBefore(S, k, m)
    /\ S[k].verb \in {"create table", "create view"} =>
         S[k].target # hidden_base_name /\ ~MadeBefore(S, k, S[k].target)
    /\ S[k].verb \in {"insert", "delete"} => TableBefore(S, k, S[k].target)
\* No table is written to after it has been read, but by its own statements.
ReadLast(S) ==
  \A j, k \in DOMAIN S :
    j < k /\ S[k].verb \in {"insert", "delete"} /\ S[k].target \in S[j].reads => S[k].target = S[j].target

-----------------------------------------------------------------------------
(* One node more *)

\* q is p and one node n more.
IsMore(p, n, q) ==
  /\ p \in Seq(NodeType) /\ n \in NodeType /\ q \in Seq(NodeType)
  /\ Len(p) \in Nat /\ Len(q) = Len(p) + 1
  /\ DOMAIN p = 1 .. Len(p) /\ DOMAIN q = 1 .. Len(p) + 1
  /\ \A x \in DOMAIN p : q[x] = p[x]
  /\ q[Len(p) + 1] = n

\* Appending a node gives one node more.
LEMMA OneMore ==
  ASSUME NEW p \in Seq(NodeType), NEW n \in NodeType
  PROVE  IsMore(p, n, Append(p, n))
<1>1. PICK S : S = NodeType
  OBVIOUS
<1>2. /\ Append(p, n) \in Seq(S) /\ Len(p) \in Nat /\ Len(Append(p, n)) = Len(p) + 1
      /\ DOMAIN p = 1 .. Len(p) /\ DOMAIN Append(p, n) = 1 .. Len(p) + 1
      /\ \A x \in 1 .. Len(p) : Append(p, n)[x] = p[x]
      /\ Append(p, n)[Len(p) + 1] = n
  BY <1>1
<1> QED
  BY <1>1, <1>2 DEF IsMore

\* The fields of a node are of their types.
LEMMA NodeFields ==
  ASSUME NEW p \in Seq(NodeType), NEW x \in DOMAIN p
  PROVE  /\ p[x] \in NodeType
         /\ p[x].inputs \in Seq(Nat) /\ p[x].ref \in Names /\ p[x].steps \in Seq(StepType)
<1>1. PICK S : S = NodeType
  OBVIOUS
<1>2. p[x] \in NodeType
  BY <1>1
<1> QED
  BY <1>2 DEF NodeType

\* What statements that read these nodes name.
LEMMA SourcesAre ==
  ASSUME NEW p, NEW ids, NEW m
  PROVE  m \in Sources(p, ids) <=>
           \E i \in DOMAIN ids :
             IF p[ids[i]].kind = "query"
             THEN \E j \in DOMAIN p[ids[i]].inputs : m = p[p[ids[i]].inputs[j]].ref
             ELSE m = p[ids[i]].ref
BY DEF Sources, Range

-----------------------------------------------------------------------------
(* What nodes of each shape read and write *)

\* The domain and the values of a pair.
LEMMA Pairs == ASSUME NEW s, NEW a, NEW b, s = <<a, b>> PROVE DOMAIN s = {1, 2} /\ s[1] = a /\ s[2] = b
<1>1. DOMAIN <<a, b>> = 1 .. 2
  OBVIOUS
<1>2. 1 .. 2 = {1, 2}
  OBVIOUS
<1> QED
  BY <1>1, <1>2

\* A node that is only read through has no name, writes nothing and reads nothing.
LEMMA SilentNodes ==
  ASSUME NEW p, NEW x, Silent(p, p[x])
  PROVE  ~Named(p, x) /\ \A m : ~Writes(p, x, m) /\ ~ReadsFrom(p, x, m)
BY DEF Silent, Named, Writes, ReadsFrom

\* A made node writes, at most, to its own name, and reads the hidden base and what its inputs read.
LEMMA MadeNodes ==
  ASSUME NEW p \in Seq(NodeType), NEW x \in DOMAIN p, Made(p, p[x])
  PROVE  /\ Named(p, x)
         /\ \A m : Writes(p, x, m) => m = p[x].ref /\ p[x].kind # "view"
         /\ p[x].kind # "view" => Writes(p, x, p[x].ref)
         /\ \A m : ReadsFrom(p, x, m) => m # p[x].ref /\ (m = hidden_base_name \/ m \in Sources(p, p[x].inputs))
<1>1. PICK n : n = p[x]
  OBVIOUS
<1>2. n.steps \in Seq(StepType)
  BY <1>1, NodeFields
<1>3. /\ n.kind \in {"table", "view", "channel"} /\ n.steps # <<>>
      /\ n.steps[1].verb = IF n.kind = "view" THEN "create view" ELSE "create table"
      /\ n.steps[1].reads \subseteq Sources(p, n.inputs)
      /\ \A i \in DOMAIN n.steps : n.steps[i].target = n.ref
      /\ \A i \in DOMAIN n.steps : i > 1 =>
           n.kind = "table" /\ n.steps[i].verb \in {"insert", "delete"} /\ n.steps[i].reads \subseteq {hidden_base_name}
  BY <1>1 DEF Made
<1>4. 1 \in DOMAIN n.steps /\ \A i \in DOMAIN n.steps : i = 1 \/ i > 1
  <2>1. PICK s, S : s = n.steps /\ S = StepType
    OBVIOUS
  <2>2. s \in Seq(S) /\ s # <<>>
    BY <1>2, <1>3, <2>1
  <2>3. Len(s) \in Nat /\ Len(s) # 0 /\ DOMAIN s = 1 .. Len(s)
    BY <2>2
  <2> QED
    BY <2>1, <2>3
<1>5. Named(p, x)
  BY <1>1, <1>3 DEF Named
<1>6. ASSUME NEW m, Writes(p, x, m) PROVE m = p[x].ref /\ p[x].kind # "view"
  <2>1. PICK i \in DOMAIN n.steps : n.steps[i].target = m /\ n.steps[i].verb \in {"create table", "insert", "delete"}
    BY <1>1, <1>6 DEF Writes
  <2> QED
    BY <1>1, <1>3, <1>4, <2>1
<1>7. p[x].kind # "view" => Writes(p, x, p[x].ref)
  BY <1>1, <1>3, <1>4 DEF Writes
<1>8. ASSUME NEW m, ReadsFrom(p, x, m)
      PROVE  m # p[x].ref /\ (m = hidden_base_name \/ m \in Sources(p, p[x].inputs))
  <2>1. PICK i \in DOMAIN n.steps : m \in n.steps[i].reads /\ n.steps[i].target # m
    BY <1>1, <1>8 DEF ReadsFrom
  <2> QED
    BY <1>1, <1>3, <1>4, <2>1
<1> QED
  BY <1>5, <1>6, <1>7, <1>8

\* A grown node writes to the table of the channel below, and reads nothing else.
LEMMA GrownNodes ==
  ASSUME NEW p, NEW x \in DOMAIN p, Grown(p, p[x])
  PROVE  /\ Named(p, x) /\ p[x].kind = "channel" /\ ~Made(p, p[x])
         /\ \A m : Writes(p, x, m) <=> m = p[x].ref
         /\ \A m : ~ReadsFrom(p, x, m)
         /\ \E c \in DOMAIN p : p[x].inputs = <<c>> /\ p[c].kind = "channel" /\ p[x].ref = p[c].ref
<1>1. PICK c \in DOMAIN p : /\ p[x].kind = "channel" /\ p[x].inputs = <<c>> /\ p[c].kind = "channel"
                            /\ p[x].ref = p[c].ref /\ p[x].steps = <<Step("insert", p[x].ref, {p[x].ref})>>
  BY DEF Grown
<1>2. PICK a : /\ p[x].steps = <<a>>
               /\ a.verb = "insert" /\ a.target = p[x].ref /\ a.reads = {p[x].ref}
  BY <1>1 DEF Step
<1>3. DOMAIN p[x].steps = {1} /\ p[x].steps[1] = a
  BY <1>2
<1>4. \A m : Writes(p, x, m) <=> m = p[x].ref
  BY <1>2, <1>3 DEF Writes
<1>5. \A m : ~ReadsFrom(p, x, m)
  BY <1>2, <1>3 DEF ReadsFrom
<1>6. ~Made(p, p[x])
  BY <1>1, <1>2, <1>3 DEF Made
<1> QED
  BY <1>1, <1>4, <1>5, <1>6 DEF Named

\* A pruned node writes to the table of the channel below, and reads from it.
LEMMA PrunedNodes ==
  ASSUME NEW p, NEW x \in DOMAIN p, Pruned(p, p[x])
  PROVE  /\ Named(p, x) /\ p[x].kind = "view"
         /\ \E c \in DOMAIN p :
              /\ p[x].inputs = <<c>> /\ p[c].kind = "channel"
              /\ \A m : Writes(p, x, m) <=> m = p[c].ref
              /\ \A m : ReadsFrom(p, x, m) => m = p[c].ref
<1>1. PICK c \in DOMAIN p : /\ p[x].kind = "view" /\ p[x].inputs = <<c>> /\ p[c].kind = "channel"
                            /\ PruningSteps(p[x], p[c].ref)
  BY DEF Pruned
<1>2. PICK a, b : /\ p[x].steps = <<a, b>>
                  /\ a.verb = "delete" /\ a.target = p[c].ref /\ a.reads = {}
                  /\ b.verb = "create view" /\ b.target = p[x].ref /\ b.reads = {p[c].ref}
  <2>1. PICK a, b : a = Step("delete", p[c].ref, {}) /\ b = Step("create view", p[x].ref, {p[c].ref})
    OBVIOUS
  <2>2. p[x].steps = <<a, b>>
    BY <1>1, <2>1 DEF PruningSteps
  <2>3. a.verb = "delete" /\ a.target = p[c].ref /\ a.reads = {}
    BY <2>1 DEF Step
  <2>4. b.verb = "create view" /\ b.target = p[x].ref /\ b.reads = {p[c].ref}
    BY <2>1 DEF Step
  <2> QED
    BY <2>2, <2>3, <2>4
<1>3. DOMAIN p[x].steps = {1, 2} /\ p[x].steps[1] = a /\ p[x].steps[2] = b
  <2>1. PICK s : s = p[x].steps /\ s = <<a, b>>
    BY <1>2
  <2> QED
    BY <2>1, Pairs
<1>4. \A m : Writes(p, x, m) <=> m = p[c].ref
  BY <1>2, <1>3 DEF Writes
<1>5. \A m : ReadsFrom(p, x, m) => m = p[c].ref
  BY <1>2, <1>3 DEF ReadsFrom
<1> QED
  BY <1>1, <1>4, <1>5 DEF Named

-----------------------------------------------------------------------------
(* What one node more leaves as it is *)

\* What old nodes read from does not change.
LEMMA SourcesStay ==
  ASSUME NEW p, NEW n, NEW q, IsMore(p, n, q), InputsBefore(p), NEW ids,
         \A i \in DOMAIN ids : ids[i] \in DOMAIN p
  PROVE  Sources(q, ids) = Sources(p, ids)
<1>1. /\ DOMAIN p = 1 .. Len(p) /\ Len(p) \in Nat /\ p \in Seq(NodeType)
      /\ \A x \in DOMAIN p : q[x] = p[x]
  BY DEF IsMore
<1>2. \A x \in DOMAIN p : \A j \in DOMAIN p[x].inputs : p[x].inputs[j] \in DOMAIN p
  BY <1>1 DEF InputsBefore
<1>3. \A m : m \in Sources(q, ids) <=> m \in Sources(p, ids)
  <2> SUFFICES ASSUME NEW m PROVE m \in Sources(q, ids) <=> m \in Sources(p, ids)
    OBVIOUS
  <2>1. /\ m \in Sources(p, ids) <=>
             \E i \in DOMAIN ids : IF p[ids[i]].kind = "query"
                                   THEN \E j \in DOMAIN p[ids[i]].inputs : m = p[p[ids[i]].inputs[j]].ref
                                   ELSE m = p[ids[i]].ref
        /\ m \in Sources(q, ids) <=>
             \E i \in DOMAIN ids : IF q[ids[i]].kind = "query"
                                   THEN \E j \in DOMAIN q[ids[i]].inputs : m = q[q[ids[i]].inputs[j]].ref
                                   ELSE m = q[ids[i]].ref
    BY SourcesAre
  <2> QED
    BY <1>1, <1>2, <2>1
<1> QED
  BY <1>3

\* Node x is the same in q as in p.
SameIn(p, q, x) ==
  /\ q[x] = p[x] /\ (Named(q, x) <=> Named(p, x))
  /\ \A m : (Writes(q, x, m) <=> Writes(p, x, m)) /\ (ReadsFrom(q, x, m) <=> ReadsFrom(p, x, m))
  /\ (Made(q, q[x]) <=> Made(p, p[x])) /\ (Silent(p, p[x]) => Silent(q, q[x]))
  /\ (Grown(p, p[x]) => Grown(q, q[x])) /\ (Pruned(p, p[x]) => Pruned(q, q[x]))

\* An old node keeps its shape, its name, what it writes and what it reads.
LEMMA OlderStay ==
  ASSUME NEW p, NEW n, NEW q, IsMore(p, n, q), InputsBefore(p), NEW x \in DOMAIN p
  PROVE  SameIn(p, q, x)
<1>1. /\ DOMAIN p = 1 .. Len(p) /\ Len(p) \in Nat /\ DOMAIN q = 1 .. Len(p) + 1
      /\ \A y \in DOMAIN p : q[y] = p[y]
  BY DEF IsMore
<1>2. q[x] = p[x] /\ DOMAIN p \subseteq DOMAIN q
  BY <1>1
<1>3. \A j \in DOMAIN p[x].inputs : p[x].inputs[j] \in DOMAIN p /\ q[p[x].inputs[j]] = p[p[x].inputs[j]]
  BY <1>1 DEF InputsBefore
<1>4. Sources(q, p[x].inputs) = Sources(p, p[x].inputs)
  BY <1>3, SourcesStay
<1>5. Named(q, x) <=> Named(p, x)
  BY <1>2 DEF Named
<1>6. \A m : (Writes(q, x, m) <=> Writes(p, x, m)) /\ (ReadsFrom(q, x, m) <=> ReadsFrom(p, x, m))
  BY <1>2 DEF Writes, ReadsFrom
<1>7. Made(q, q[x]) <=> Made(p, p[x])
  BY <1>2, <1>3, <1>4 DEF Made
<1>8. Silent(p, p[x]) => Silent(q, q[x])
  BY <1>2, <1>3 DEF Silent
<1>9. Grown(p, p[x]) => Grown(q, q[x])
  BY <1>1, <1>2 DEF Grown
<1>10. Pruned(p, p[x]) => Pruned(q, q[x])
  BY <1>1, <1>2 DEF Pruned
<1> QED
  BY <1>2, <1>5, <1>6, <1>7, <1>8, <1>9, <1>10 DEF SameIn

\* Who writes to m, and what is read, in a tree.
LEMMA WritersAre ==
  ASSUME NEW p, NEW u, Tree(p, u), NEW x \in DOMAIN p, NEW m, Writes(p, x, m)
  PROVE  /\ m \in u /\ m # hidden_base_name
         /\ \/ Named(p, x) /\ p[x].kind # "view" /\ p[x].ref = m
            \/ \E c \in DOMAIN p : /\ p[x].kind = "view" /\ p[x].inputs = <<c>>
                                   /\ p[c].kind = "channel" /\ p[c].ref = m /\ Named(p, c)
<1>1. /\ p \in Seq(NodeType)
      /\ Silent(p, p[x]) \/ Made(p, p[x]) \/ Grown(p, p[x]) \/ Pruned(p, p[x])
      /\ hidden_base_name \notin u /\ \A y \in DOMAIN p : Named(p, y) => p[y].ref \in u
  BY DEF Tree, TypedNodes, Shaped, InUse
<1>2. CASE Silent(p, p[x])
  BY <1>2, SilentNodes
<1>3. CASE Made(p, p[x])
  BY <1>1, <1>3, MadeNodes
<1>4. CASE Grown(p, p[x])
  BY <1>1, <1>4, GrownNodes
<1>5. CASE Pruned(p, p[x])
  <2>1. PICK c \in DOMAIN p : /\ p[x].inputs = <<c>> /\ p[c].kind = "channel" /\ p[x].kind = "view"
                              /\ \A k : Writes(p, x, k) <=> k = p[c].ref
    BY <1>5, PrunedNodes
  <2>2. Named(p, c)
    BY <2>1 DEF Named
  <2> QED
    BY <1>1, <2>1, <2>2
<1> QED
  BY <1>1, <1>2, <1>3, <1>4, <1>5

\* What a node reads is the hidden base, a table or view of another node, or the channel it prunes.
LEMMA ReadsAre ==
  ASSUME NEW p, NEW u, Tree(p, u), NEW x \in DOMAIN p, NEW m, ReadsFrom(p, x, m)
  PROVE  \/ m = hidden_base_name
         \/ \E z \in DOMAIN p : Named(p, z) /\ p[z].kind # "channel" /\ p[z].ref = m
         \/ \E c \in DOMAIN p : /\ Pruned(p, p[x]) /\ Writes(p, x, m) /\ p[x].inputs = <<c>>
                                /\ p[c].kind = "channel" /\ p[c].ref = m /\ Named(p, c)
<1>1. /\ p \in Seq(NodeType) /\ InputsBefore(p) /\ Shaped(p)
      /\ Silent(p, p[x]) \/ Made(p, p[x]) \/ Grown(p, p[x]) \/ Pruned(p, p[x])
  BY DEF Tree, TypedNodes, Shaped
<1>2. CASE Silent(p, p[x])
  BY <1>2, SilentNodes
<1>3. CASE Made(p, p[x])
  <2>1. m = hidden_base_name \/ m \in Sources(p, p[x].inputs)
    BY <1>1, <1>3, MadeNodes
  <2>2. ASSUME m \in Sources(p, p[x].inputs), m # hidden_base_name
        PROVE  \E z \in DOMAIN p : Named(p, z) /\ p[z].kind # "channel" /\ p[z].ref = m
    <3>1. PICK i \in DOMAIN p[x].inputs :
             IF p[p[x].inputs[i]].kind = "query"
             THEN \E j \in DOMAIN p[p[x].inputs[i]].inputs : m = p[p[p[x].inputs[i]].inputs[j]].ref
             ELSE m = p[p[x].inputs[i]].ref
      BY <2>2, SourcesAre
    <3>2. PICK c : c = p[x].inputs[i]
      OBVIOUS
    <3>3. p[c].kind = "query" /\ c \in 1 .. x - 1
      BY <1>1, <1>3, <3>2 DEF Made, InputsBefore
    <3>4. DOMAIN p = 1 .. Len(p) /\ Len(p) \in Nat
      <4>1. PICK S : S = NodeType
        OBVIOUS
      <4> QED
        BY <1>1, <4>1
    <3>5. c \in DOMAIN p
      BY <3>3, <3>4
    <3>6. PICK j \in DOMAIN p[c].inputs : m = p[p[c].inputs[j]].ref
      BY <3>1, <3>2, <3>3
    <3>7. PICK z : z = p[c].inputs[j]
      OBVIOUS
    <3>8. z \in 1 .. c - 1
      BY <1>1, <3>5, <3>7 DEF InputsBefore
    <3>9. z \in DOMAIN p
      BY <3>3, <3>4, <3>8
    <3>10. Silent(p, p[c])
      BY <1>1, <3>3, <3>5 DEF Shaped, Made, Grown, Pruned
    <3>11. p[z].kind \in {"base", "table", "view"}
      BY <3>7, <3>10 DEF Silent
    <3>12. p[z].kind # "base"
      <4>1. ASSUME p[z].kind = "base" PROVE FALSE
        <5>1. Silent(p, p[z])
          BY <1>1, <3>9, <4>1 DEF Shaped, Made, Grown, Pruned
        <5> QED
          BY <2>2, <3>6, <3>7, <5>1 DEF Silent
      <4> QED
        BY <4>1
    <3> QED
      BY <3>6, <3>7, <3>9, <3>11, <3>12 DEF Named
  <2> QED
    BY <2>1, <2>2
<1>4. CASE Grown(p, p[x])
  BY <1>4, GrownNodes
<1>5. CASE Pruned(p, p[x])
  <2>1. PICK c \in DOMAIN p : /\ p[x].inputs = <<c>> /\ p[c].kind = "channel"
                              /\ \A k : Writes(p, x, k) <=> k = p[c].ref
                              /\ \A k : ReadsFrom(p, x, k) => k = p[c].ref
    BY <1>5, PrunedNodes
  <2>2. Named(p, c)
    BY <2>1 DEF Named
  <2> QED
    BY <1>5, <2>1, <2>2
<1> QED
  BY <1>1, <1>2, <1>3, <1>4, <1>5

-----------------------------------------------------------------------------
(* A tree with one node more is a tree *)

\* The new node n of q fits in the tree p, among the names v.
Fits(p, n, q, v) ==
  LET y == Len(p) + 1
  IN /\ \A i \in DOMAIN n.inputs : n.inputs[i] \in DOMAIN p
     /\ Silent(q, n) \/ Made(q, n) \/ Grown(q, n) \/ Pruned(q, n)
     /\ Named(q, y) => n.ref \in v
     /\ \A x \in DOMAIN p : Named(p, x) /\ Named(q, y) /\ p[x].ref = n.ref =>
          p[x].kind = "channel" /\ n.kind = "channel" /\ ~(Made(p, p[x]) /\ Made(q, n))
     /\ \A x \in DOMAIN p : \A m : Writes(q, y, m) /\ Writes(p, x, m) =>
          \E i \in DOMAIN n.inputs : Writes(p, n.inputs[i], m) /\ x <= n.inputs[i]
     /\ \A x \in DOMAIN p : \A m : ReadsFrom(p, x, m) => ~Writes(q, y, m)
     /\ \A x \in DOMAIN p : \A m : ReadsFrom(q, y, m) /\ Writes(p, x, m) => Before(q, x, y, m)

\* One node more keeps a tree a tree, if the node fits.
LEMMA AddNode ==
  ASSUME NEW p, NEW u, Tree(p, u), NEW n, NEW q, IsMore(p, n, q),
         NEW v, u \subseteq v, hidden_base_name \notin v, Fits(p, n, q, v)
  PROVE  Tree(q, v)
<1>1. /\ DOMAIN p = 1 .. Len(p) /\ Len(p) \in Nat /\ DOMAIN q = 1 .. Len(p) + 1
      /\ q \in Seq(NodeType) /\ n \in NodeType /\ q[Len(p) + 1] = n
      /\ \A x \in DOMAIN p : q[x] = p[x]
  BY DEF IsMore
<1>2. PICK y : y = Len(p) + 1
  OBVIOUS
<1>3. /\ q[y] = n /\ y \in DOMAIN q /\ y \notin DOMAIN p
      /\ \A x \in DOMAIN q : x = y \/ (x \in DOMAIN p /\ x < y)
      /\ \A x \in DOMAIN p : x < y /\ x \in DOMAIN q
  BY <1>1, <1>2
<1>4. /\ InputsBefore(p) /\ Shaped(p) /\ InUse(p, u) /\ Apart(p) /\ InChain(p) /\ Settled(p)
  BY DEF Tree
<1>5. \A x \in DOMAIN p : SameIn(p, q, x)
  BY <1>4, OlderStay
<1>6. \A x \in DOMAIN p : \A i \in DOMAIN p[x].inputs : p[x].inputs[i] \in DOMAIN p
  BY <1>1, <1>4 DEF InputsBefore
<1>7. /\ \A i \in DOMAIN n.inputs : n.inputs[i] \in DOMAIN p
      /\ Silent(q, n) \/ Made(q, n) \/ Grown(q, n) \/ Pruned(q, n)
      /\ Named(q, y) => n.ref \in v
      /\ \A x \in DOMAIN p : Named(p, x) /\ Named(q, y) /\ p[x].ref = n.ref =>
           p[x].kind = "channel" /\ n.kind = "channel" /\ ~(Made(p, p[x]) /\ Made(q, n))
  BY <1>2 DEF Fits
<1>8. /\ \A x \in DOMAIN p : \A m : Writes(q, y, m) /\ Writes(p, x, m) =>
           \E i \in DOMAIN n.inputs : Writes(p, n.inputs[i], m) /\ x <= n.inputs[i]
      /\ \A x \in DOMAIN p : \A m : ReadsFrom(p, x, m) => ~Writes(q, y, m)
      /\ \A x \in DOMAIN p : \A m : ReadsFrom(q, y, m) /\ Writes(p, x, m) => Before(q, x, y, m)
  BY <1>2 DEF Fits
<1>9. InputsBefore(q)
  <2> SUFFICES ASSUME NEW x \in DOMAIN q, NEW i \in DOMAIN q[x].inputs PROVE q[x].inputs[i] \in 1 .. x - 1
    BY DEF InputsBefore
  <2>1. CASE x = y
    BY <1>1, <1>2, <1>3, <1>7, <2>1
  <2>2. CASE x \in DOMAIN p
    BY <1>1, <1>4, <2>2 DEF InputsBefore
  <2> QED
    BY <1>3, <2>1, <2>2
<1>10. Shaped(q)
  <2> SUFFICES ASSUME NEW x \in DOMAIN q
               PROVE  Silent(q, q[x]) \/ Made(q, q[x]) \/ Grown(q, q[x]) \/ Pruned(q, q[x])
    BY DEF Shaped
  <2>1. CASE x = y
    BY <1>3, <1>7, <2>1
  <2>2. CASE x \in DOMAIN p
    BY <1>4, <1>5, <2>2 DEF Shaped, SameIn
  <2> QED
    BY <1>3, <2>1, <2>2
<1>11. InUse(q, v)
  <2> SUFFICES ASSUME NEW x \in DOMAIN q, Named(q, x) PROVE q[x].ref \in v
    BY DEF InUse
  <2>1. CASE x = y
    BY <1>3, <1>7, <2>1
  <2>2. CASE x \in DOMAIN p
    BY <1>4, <1>5, <2>2 DEF InUse, SameIn
  <2> QED
    BY <1>3, <2>1, <2>2
<1>12. Apart(q)
  <2> SUFFICES ASSUME NEW x \in DOMAIN q, NEW z \in DOMAIN q,
                      Named(q, x), Named(q, z), x # z, q[x].ref = q[z].ref
               PROVE  /\ q[x].kind = "channel" /\ q[z].kind = "channel"
                      /\ ~(Made(q, q[x]) /\ Made(q, q[z]))
    BY DEF Apart
  <2>1. CASE x \in DOMAIN p /\ z \in DOMAIN p
    BY <1>4, <1>5, <2>1 DEF Apart, SameIn
  <2>2. CASE x = y /\ z \in DOMAIN p
    BY <1>3, <1>5, <1>7, <2>2 DEF SameIn
  <2>3. CASE x \in DOMAIN p /\ z = y
    BY <1>3, <1>5, <1>7, <2>3 DEF SameIn
  <2> QED
    BY <1>3, <2>1, <2>2, <2>3
<1>13. InChain(q)
  <2> SUFFICES ASSUME NEW x \in DOMAIN q, NEW z \in DOMAIN q, NEW m \in Names,
                      Writes(q, x, m), Writes(q, z, m), z < x
               PROVE  \E i \in DOMAIN q[x].inputs : Writes(q, q[x].inputs[i], m) /\ z <= q[x].inputs[i]
    BY DEF InChain
  <2>1. z \in DOMAIN p /\ Writes(p, z, m)
    BY <1>1, <1>2, <1>3, <1>5 DEF SameIn
  <2>2. CASE x \in DOMAIN p
    <3>1. PICK i \in DOMAIN p[x].inputs : Writes(p, p[x].inputs[i], m) /\ z <= p[x].inputs[i]
      BY <1>4, <1>5, <2>1, <2>2 DEF InChain, SameIn
    <3> QED
      BY <1>3, <1>5, <1>6, <2>2, <3>1 DEF SameIn
  <2>3. CASE x = y
    BY <1>3, <1>5, <1>7, <1>8, <2>1, <2>3 DEF SameIn
  <2> QED
    BY <1>3, <2>2, <2>3
<1>14. Settled(q)
  <2> SUFFICES ASSUME NEW x \in DOMAIN q, NEW z \in DOMAIN q, NEW m \in Names,
                      ReadsFrom(q, x, m), Writes(q, z, m)
               PROVE  z = x \/ Before(q, z, x, m)
    BY DEF Settled
  <2>1. CASE x \in DOMAIN p /\ z \in DOMAIN p
    <3>1. z = x \/ Before(p, z, x, m)
      BY <1>4, <1>5, <2>1 DEF Settled, SameIn
    <3>2. ASSUME Before(p, z, x, m) PROVE Before(q, z, x, m)
      <4>1. PICK i \in DOMAIN p[x].inputs :
               LET c == p[x].inputs[i]
               IN (Writes(p, c, m) /\ z <= c) \/ \E j \in DOMAIN p[c].inputs : z = p[c].inputs[j]
        BY <3>2 DEF Before
      <4>2. PICK c : c = p[x].inputs[i]
        OBVIOUS
      <4>3. c \in DOMAIN p /\ q[c] = p[c] /\ (Writes(q, c, m) <=> Writes(p, c, m)) /\ q[x] = p[x]
        BY <1>5, <1>6, <2>1, <4>2 DEF SameIn
      <4> QED
        BY <4>1, <4>2, <4>3 DEF Before
    <3> QED
      BY <3>1, <3>2
  <2>2. CASE x = y /\ z \in DOMAIN p
    BY <1>5, <1>8, <2>2 DEF SameIn
  <2>3. CASE x \in DOMAIN p /\ z = y
    BY <1>5, <1>8, <2>3 DEF SameIn
  <2> QED
    BY <1>3, <2>1, <2>2, <2>3
<1> QED
  BY <1>1, <1>9, <1>10, <1>11, <1>12, <1>13, <1>14 DEF Tree, TypedNodes

\* A node that is only read through may always be added.
LEMMA AddSilent ==
  ASSUME NEW p, NEW u, Tree(p, u), NEW n \in NodeType, Silent(p, n),
         \A i \in DOMAIN n.inputs : n.inputs[i] \in DOMAIN p
  PROVE  Tree(Append(p, n), u)
<1>1. PICK q : q = Append(p, n)
  OBVIOUS
<1>2. IsMore(p, n, q)
  BY <1>1, OneMore DEF Tree, TypedNodes
<1>3. PICK y : y = Len(p) + 1
  OBVIOUS
<1>4. q[y] = n /\ \A x \in DOMAIN p : q[x] = p[x]
  BY <1>2, <1>3 DEF IsMore
<1>5. Silent(q, n)
  BY <1>4 DEF Silent
<1>6. ~Named(q, y) /\ \A m : ~Writes(q, y, m) /\ ~ReadsFrom(q, y, m)
  BY <1>4, <1>5, SilentNodes
<1>7. Fits(p, n, q, u)
  BY <1>3, <1>5, <1>6 DEF Fits
<1>8. hidden_base_name \notin u
  BY DEF Tree, InUse
<1> QED
  BY <1>1, <1>2, <1>7, <1>8, AddNode

\* A made node may be added if its name is new.
LEMMA AddMade ==
  ASSUME NEW p, NEW u, Tree(p, u), NEW n \in NodeType, Made(p, n),
         \A i \in DOMAIN n.inputs : n.inputs[i] \in DOMAIN p,
         n.ref \notin u, n.ref # hidden_base_name
  PROVE  Tree(Append(p, n), u \cup {n.ref})
<1>1. PICK q : q = Append(p, n)
  OBVIOUS
<1>2. IsMore(p, n, q)
  BY <1>1, OneMore DEF Tree, TypedNodes
<1>3. PICK y : y = Len(p) + 1
  OBVIOUS
<1>4. /\ q[y] = n /\ \A x \in DOMAIN p : q[x] = p[x]
      /\ q \in Seq(NodeType) /\ y \in DOMAIN q /\ Len(p) \in Nat /\ DOMAIN p = 1 .. Len(p)
  BY <1>2, <1>3 DEF IsMore
<1>5. InputsBefore(p) /\ InUse(p, u) /\ Apart(p) /\ Shaped(p)
  BY DEF Tree
<1>6. Sources(q, n.inputs) = Sources(p, n.inputs)
  BY <1>2, <1>5, SourcesStay
<1>7. Made(q, n)
  BY <1>4, <1>6 DEF Made
<1>8. /\ Named(q, y) /\ \A m : Writes(q, y, m) => m = n.ref
      /\ \A m : ReadsFrom(q, y, m) => m # n.ref /\ (m = hidden_base_name \/ m \in Sources(q, n.inputs))
  BY <1>4, <1>7, MadeNodes
<1>9. \A x \in DOMAIN p : \A m : Writes(p, x, m) => m # n.ref
  BY WritersAre
<1>10. \A x \in DOMAIN p : \A m : ReadsFrom(p, x, m) => m # n.ref
  BY <1>5, ReadsAre, WritersAre DEF InUse
<1>11. \A x \in DOMAIN p : Named(p, x) => p[x].ref # n.ref
  BY <1>5 DEF InUse
<1>12. ASSUME NEW x \in DOMAIN p, NEW m, ReadsFrom(q, y, m), Writes(p, x, m)
       PROVE  Before(q, x, y, m)
  <2>1. m # hidden_base_name
    BY <1>12, WritersAre
  <2>2. m \in Sources(p, n.inputs)
    BY <1>6, <1>8, <1>12, <2>1
  <2>3. PICK i \in DOMAIN n.inputs :
           IF p[n.inputs[i]].kind = "query"
           THEN \E j \in DOMAIN p[n.inputs[i]].inputs : m = p[p[n.inputs[i]].inputs[j]].ref
           ELSE m = p[n.inputs[i]].ref
    BY <2>2, SourcesAre
  <2>4. PICK c : c = n.inputs[i]
    OBVIOUS
  <2>5. c \in DOMAIN p /\ p[c].kind = "query"
    BY <2>4 DEF Made
  <2>6. PICK j \in DOMAIN p[c].inputs : m = p[p[c].inputs[j]].ref
    BY <2>3, <2>4, <2>5
  <2>7. PICK z : z = p[c].inputs[j]
    OBVIOUS
  <2>8. z \in DOMAIN p
    BY <1>4, <1>5, <2>5, <2>7 DEF InputsBefore
  <2>9. Silent(p, p[c])
    BY <1>5, <2>5 DEF Shaped, Made, Grown, Pruned
  <2>10. p[z].kind \in {"base", "table", "view"}
    BY <2>7, <2>9 DEF Silent
  <2>11. p[z].kind # "base"
    <3>1. ASSUME p[z].kind = "base" PROVE FALSE
      <4>1. Silent(p, p[z])
        BY <1>5, <2>8, <3>1 DEF Shaped, Made, Grown, Pruned
      <4> QED
        BY <2>1, <2>6, <2>7, <4>1 DEF Silent
    <3> QED
      BY <3>1
  <2>12. Named(p, z) /\ p[z].kind # "channel" /\ p[z].ref = m
    BY <2>6, <2>7, <2>10, <2>11 DEF Named
  <2>13. x = z
    <3>1. CASE Named(p, x) /\ p[x].kind # "view" /\ p[x].ref = m
      BY <1>5, <2>8, <2>12, <3>1 DEF Apart
    <3>2. CASE \E d \in DOMAIN p : /\ p[x].kind = "view" /\ p[x].inputs = <<d>>
                                   /\ p[d].kind = "channel" /\ p[d].ref = m /\ Named(p, d)
      <4>1. PICK d \in DOMAIN p : p[d].kind = "channel" /\ p[d].ref = m /\ Named(p, d)
        BY <3>2
      <4> QED
        BY <1>5, <2>8, <2>12, <4>1 DEF Apart
    <3> QED
      BY <1>12, <3>1, <3>2, WritersAre
  <2>14. q[c] = p[c] /\ q[y].inputs[i] = c /\ i \in DOMAIN q[y].inputs
    BY <1>4, <2>4, <2>5
  <2> QED
    BY <2>6, <2>7, <2>13, <2>14 DEF Before
<1>13. Fits(p, n, q, u \cup {n.ref})
  <2>1. PICK v : v = u \cup {n.ref}
    OBVIOUS
  <2>2. Fits(p, n, q, v)
    BY <1>3, <1>7, <1>8, <1>9, <1>10, <1>11, <1>12, <2>1 DEF Fits
  <2> QED
    BY <2>1, <2>2
<1>14. hidden_base_name \notin u \cup {n.ref} /\ u \subseteq u \cup {n.ref}
  BY <1>5 DEF InUse
<1> QED
  BY <1>1, <1>2, <1>13, <1>14, AddNode

\* A channel table is written by what stands for it, and only read when nothing more is written.
LEMMA Channels ==
  ASSUME NEW p, NEW u, Tree(p, u), NEW c \in DOMAIN p, p[c].kind = "channel"
  PROVE  /\ Named(p, c) /\ Writes(p, c, p[c].ref) /\ p[c].ref \in u /\ p[c].ref \in Names
         /\ LastWriter(p, c) => \A x \in DOMAIN p : ~ReadsFrom(p, x, p[c].ref)
<1>1. /\ p \in Seq(NodeType) /\ Shaped(p) /\ InUse(p, u) /\ Apart(p) /\ Settled(p) /\ InputsBefore(p)
  BY DEF Tree, TypedNodes
<1>2. Named(p, c)
  BY DEF Named
<1>3. Made(p, p[c]) \/ Grown(p, p[c])
  BY <1>1 DEF Shaped, Silent, Pruned
<1>4. Writes(p, c, p[c].ref)
  BY <1>1, <1>3, MadeNodes, GrownNodes
<1>5. p[c].ref \in u /\ p[c].ref # hidden_base_name /\ p[c].ref \in Names
  BY <1>1, <1>2, NodeFields DEF InUse
<1>6. ASSUME LastWriter(p, c), NEW x \in DOMAIN p, ReadsFrom(p, x, p[c].ref) PROVE FALSE
  <2>1. PICK m : m = p[c].ref
    OBVIOUS
  <2>2. ~\E z \in DOMAIN p : Named(p, z) /\ p[z].kind # "channel" /\ p[z].ref = m
    BY <1>1, <1>2, <2>1 DEF Apart
  <2>3. PICK d \in DOMAIN p : Pruned(p, p[x]) /\ Writes(p, x, m) /\ p[x].inputs = <<d>>
    BY <1>5, <1>6, <2>1, <2>2, ReadsAre
  <2>4. x <= c
    BY <1>6, <2>1, <2>3 DEF LastWriter
  <2>5. c # x
    BY <2>3 DEF Pruned
  <2>6. Before(p, c, x, m)
    BY <1>1, <1>4, <1>5, <1>6, <2>1, <2>5 DEF Settled
  <2>7. PICK i \in DOMAIN p[x].inputs :
           LET e == p[x].inputs[i]
           IN (Writes(p, e, m) /\ c <= e) \/ \E j \in DOMAIN p[e].inputs : c = p[e].inputs[j]
    BY <2>6 DEF Before
  <2>8. PICK e : e = p[x].inputs[i]
    OBVIOUS
  <2>9. DOMAIN p = 1 .. Len(p) /\ Len(p) \in Nat
    <3>1. PICK S : S = NodeType
      OBVIOUS
    <3> QED
      BY <1>1, <3>1
  <2>10. e \in 1 .. x - 1
    BY <1>1, <2>8 DEF InputsBefore
  <2>11. e \in DOMAIN p /\ e < x
    BY <2>9, <2>10
  <2>12. c <= e
    <3>1. CASE \E j \in DOMAIN p[e].inputs : c = p[e].inputs[j]
      <4>1. c \in 1 .. e - 1
        BY <1>1, <2>11, <3>1 DEF InputsBefore
      <4> QED
        BY <2>10, <4>1
    <3> QED
      BY <2>7, <2>8, <3>1
  <2> QED
    BY <2>4, <2>9, <2>11, <2>12
<1> QED
  BY <1>2, <1>4, <1>5, <1>6

\* A grown node may be added above the last writer of its channel.
LEMMA AddGrown ==
  ASSUME NEW p, NEW u, Tree(p, u), NEW n \in NodeType, NEW c \in DOMAIN p, LastWriter(p, c),
         n.kind = "channel", n.inputs = <<c>>, p[c].kind = "channel", n.ref = p[c].ref,
         n.steps = <<Step("insert", n.ref, {n.ref})>>
  PROVE  Tree(Append(p, n), u)
<1>1. PICK q : q = Append(p, n)
  OBVIOUS
<1>2. IsMore(p, n, q)
  BY <1>1, OneMore DEF Tree, TypedNodes
<1>3. PICK y : y = Len(p) + 1
  OBVIOUS
<1>4. /\ q[y] = n /\ \A x \in DOMAIN p : q[x] = p[x] /\ x \in DOMAIN q
      /\ y \in DOMAIN q /\ Len(p) \in Nat /\ DOMAIN p = 1 .. Len(p)
  BY <1>2, <1>3 DEF IsMore
<1>5. InUse(p, u) /\ Apart(p)
  BY DEF Tree
<1>6. Grown(q, n)
  BY <1>4 DEF Grown
<1>7. /\ Named(q, y) /\ ~Made(q, n)
      /\ \A m : Writes(q, y, m) <=> m = n.ref
      /\ \A m : ~ReadsFrom(q, y, m)
  BY <1>4, <1>6, GrownNodes
<1>8. /\ Named(p, c) /\ Writes(p, c, n.ref) /\ n.ref \in u
      /\ \A x \in DOMAIN p : ~ReadsFrom(p, x, n.ref)
  BY Channels
<1>9. \A x \in DOMAIN p : Named(p, x) /\ p[x].ref = n.ref => p[x].kind = "channel"
  BY <1>5, <1>8 DEF Apart
<1>10. \A i \in DOMAIN n.inputs : n.inputs[i] = c
  OBVIOUS
<1>11. \A x \in DOMAIN p : \A m : Writes(q, y, m) /\ Writes(p, x, m) =>
         \E i \in DOMAIN n.inputs : Writes(p, n.inputs[i], m) /\ x <= n.inputs[i]
  <2> SUFFICES ASSUME NEW x \in DOMAIN p, Writes(p, x, n.ref)
               PROVE  \E i \in DOMAIN n.inputs : Writes(p, n.inputs[i], n.ref) /\ x <= n.inputs[i]
    BY <1>7
  <2>1. x <= c
    BY DEF LastWriter
  <2>2. 1 \in DOMAIN n.inputs /\ n.inputs[1] = c
    OBVIOUS
  <2> QED
    BY <1>8, <2>1, <2>2
<1>12. Fits(p, n, q, u)
  BY <1>3, <1>6, <1>7, <1>8, <1>9, <1>10, <1>11 DEF Fits
<1>13. hidden_base_name \notin u
  BY <1>5 DEF InUse
<1> QED
  BY <1>1, <1>2, <1>12, <1>13, AddNode

\* A pruned node may be added, under a new name, above the last writer of its channel.
LEMMA AddPruned ==
  ASSUME NEW p, NEW u, Tree(p, u), NEW n \in NodeType, NEW c \in DOMAIN p, LastWriter(p, c),
         n.kind = "view", n.inputs = <<c>>, p[c].kind = "channel",
         PruningSteps(n, p[c].ref),
         n.ref \notin u, n.ref # hidden_base_name
  PROVE  Tree(Append(p, n), u \cup {n.ref})
<1>1. PICK q : q = Append(p, n)
  OBVIOUS
<1>2. IsMore(p, n, q)
  BY <1>1, OneMore DEF Tree, TypedNodes
<1>3. PICK y : y = Len(p) + 1
  OBVIOUS
<1>4. /\ q[y] = n /\ \A x \in DOMAIN p : q[x] = p[x] /\ x \in DOMAIN q
      /\ y \in DOMAIN q /\ Len(p) \in Nat /\ DOMAIN p = 1 .. Len(p)
  BY <1>2, <1>3 DEF IsMore
<1>5. InUse(p, u) /\ InputsBefore(p)
  BY DEF Tree
<1>6. Pruned(q, n)
  BY <1>4 DEF Pruned
<1>7. PICK m : m = p[c].ref
  OBVIOUS
<1>8. /\ Named(q, y)
      /\ \A k : Writes(q, y, k) => k = m
      /\ \A k : ReadsFrom(q, y, k) => k = m
  <2>1. PICK d \in DOMAIN q : /\ q[y].inputs = <<d>>
                              /\ \A k : Writes(q, y, k) <=> k = q[d].ref
                              /\ \A k : ReadsFrom(q, y, k) => k = q[d].ref
    BY <1>4, <1>6, PrunedNodes
  <2>2. d = c /\ q[d].ref = m
    BY <1>4, <1>7, <2>1
  <2> QED
    BY <1>4, <1>6, <2>1, <2>2, PrunedNodes
<1>9. /\ Writes(p, c, m) /\ \A x \in DOMAIN p : ~ReadsFrom(p, x, m)
  BY <1>7, Channels
<1>10. \A i \in DOMAIN n.inputs : n.inputs[i] = c
  OBVIOUS
<1>11. 1 \in DOMAIN n.inputs /\ n.inputs[1] = c
  OBVIOUS
<1>12. \A x \in DOMAIN p : Writes(p, x, m) => x <= c
  BY <1>7 DEF LastWriter
<1>13. Writes(q, c, m)
  BY <1>2, <1>5, <1>9, OlderStay DEF SameIn
<1>14. \A x \in DOMAIN p : Writes(p, x, m) => Before(q, x, y, m)
  BY <1>4, <1>11, <1>12, <1>13 DEF Before
<1>15. \A x \in DOMAIN p : Named(p, x) => p[x].ref # n.ref
  BY <1>5 DEF InUse
<1>16. Fits(p, n, q, u \cup {n.ref})
  <2>1. PICK v : v = u \cup {n.ref}
    OBVIOUS
  <2>2. Fits(p, n, q, v)
    BY <1>3, <1>6, <1>8, <1>9, <1>10, <1>11, <1>12, <1>14, <1>15, <2>1 DEF Fits
  <2> QED
    BY <2>1, <2>2
<1>17. hidden_base_name \notin u \cup {n.ref} /\ u \subseteq u \cup {n.ref}
  BY <1>5 DEF InUse
<1> QED
  BY <1>1, <1>2, <1>16, <1>17, AddNode

-----------------------------------------------------------------------------
(* Names *)

\* The names a counter gives out next are not used yet.
LEMMA NewNames ==
  ASSUME NEW counters \in [NameKinds -> Nat], NEW exposed, ExposedOK(exposed), NEW count \in 0 .. Len(exposed),
         NEW kind \in NameKinds, NEW k \in Nat \ {0}
  PROVE  LET name == <<kind, counters[kind] + k>>
         IN /\ name \in Names /\ name # hidden_base_name /\ name \notin UsedOf(counters, exposed, count)
<1>1. PICK name : name = <<kind, counters[kind] + k>>
  OBVIOUS
<1>2. counters[kind] \in Nat /\ name[1] = kind /\ name[2] = counters[kind] + k /\ name \in {"base", "t", "table", "view"} \X Nat
  <2>1. counters[kind] \in Nat
    OBVIOUS
  <2>2. kind \in {"base", "t", "table", "view"}
    BY DEF NameKinds
  <2>3. PICK b : b = counters[kind] + k
    OBVIOUS
  <2>4. b \in Nat
    BY <2>1, <2>3
  <2>5. name = <<kind, b>>
    BY <1>1, <2>3
  <2> QED
    BY <2>1, <2>2, <2>3, <2>4, <2>5
<1>3. \A i \in 1 .. count : exposed[i][1] = "t"
  <2>1. PICK S : S = {"t"} \X Nat
    OBVIOUS
  <2>2. exposed \in Seq(S)
    BY <2>1 DEF ExposedOK
  <2>3. \A i \in 1 .. count : exposed[i] \in S
    BY <2>2
  <2> QED
    BY <2>1, <2>3
<1>4. name[1] # "t" /\ name[1] # "base" /\ hidden_base_name[1] = "base"
  BY <1>2 DEF NameKinds, hidden_base_name
<1>5. name \notin {exposed[i] : i \in 1 .. count}
  BY <1>3, <1>4
<1>6. name \notin {m \in NameKinds \X Nat : m[2] \in 1 .. counters[m[1]]}
  BY <1>2
<1> QED
  BY <1>1, <1>2, <1>4, <1>5, <1>6 DEF UsedOf, Names

\* The exposed name of the next fork is not used yet.
LEMMA ExposedIsNew ==
  ASSUME NEW counters \in [NameKinds -> Nat], NEW exposed, ExposedOK(exposed), NEW count \in Nat, count < Len(exposed)
  PROVE  LET name == exposed[count + 1]
         IN /\ name \in Names /\ name # hidden_base_name /\ name \notin UsedOf(counters, exposed, count)
            /\ UsedOf(counters, exposed, count + 1) = UsedOf(counters, exposed, count) \cup {name}
<1>1. PICK name : name = exposed[count + 1]
  OBVIOUS
<1>2. PICK S : S = {"t"} \X Nat
  OBVIOUS
<1>3. exposed \in Seq(S) /\ \A i, j \in DOMAIN exposed : exposed[i] = exposed[j] => i = j
  BY <1>2 DEF ExposedOK
<1>4. DOMAIN exposed = 1 .. Len(exposed) /\ Len(exposed) \in Nat /\ name \in S
  BY <1>1, <1>3
<1>5. name[1] = "t" /\ name \in Names /\ "t" \notin NameKinds
  <2>1. name \in {"t"} \X Nat
    BY <1>2, <1>4
  <2>2. name[1] = "t" /\ name[2] \in Nat /\ name = <<name[1], name[2]>>
    BY <2>1
  <2>3. name \in {"base", "t", "table", "view"} \X Nat
    BY <2>2
  <2>4. "t" \notin NameKinds
    BY DEF NameKinds
  <2> QED
    BY <2>2, <2>3, <2>4 DEF Names
<1>6. name # hidden_base_name
  BY <1>5 DEF hidden_base_name
<1>7. \A i \in 1 .. count : exposed[i] # name
  BY <1>1, <1>3, <1>4
<1>8. name \notin UsedOf(counters, exposed, count)
  BY <1>5, <1>7 DEF UsedOf
<1>9. {exposed[i] : i \in 1 .. count + 1} = {exposed[i] : i \in 1 .. count} \cup {name}
  BY <1>1
<1> QED
  BY <1>1, <1>5, <1>6, <1>8, <1>9 DEF UsedOf

Advanced(counters, kind, k, next) == next = [counters EXCEPT ![kind] = @ + k]
\* A counter that advances uses the names it passes, and forgets none.
LEMMA CountersUse ==
  ASSUME NEW counters \in [NameKinds -> Nat], NEW exposed, NEW count, NEW kind \in NameKinds, NEW k \in Nat,
         NEW next, Advanced(counters, kind, k, next)
  PROVE  /\ next \in [NameKinds -> Nat]
         /\ UsedOf(counters, exposed, count) \subseteq UsedOf(next, exposed, count)
         /\ \A j \in 1 .. k : <<kind, counters[kind] + j>> \in UsedOf(next, exposed, count)
<1>1. next \in [NameKinds -> Nat] /\ next[kind] = counters[kind] + k
  BY DEF Advanced
<1>2. \A m \in NameKinds : next[m] >= counters[m]
  BY DEF Advanced
<1>3. ASSUME NEW m \in NameKinds \X Nat, m[2] \in 1 .. counters[m[1]] PROVE m[2] \in 1 .. next[m[1]]
  <2>1. PICK a, b : a = m[1] /\ b = m[2]
    OBVIOUS
  <2>2. a \in NameKinds /\ b \in Nat
    BY <2>1
  <2>3. b \in 1 .. next[a]
    BY <1>1, <1>2, <1>3, <2>1, <2>2
  <2> QED
    BY <2>1, <2>3
<1>4. UsedOf(counters, exposed, count) \subseteq UsedOf(next, exposed, count)
  BY <1>3 DEF UsedOf
<1>5. ASSUME NEW j \in 1 .. k PROVE <<kind, counters[kind] + j>> \in UsedOf(next, exposed, count)
  <2>1. PICK b : b = counters[kind] + j
    OBVIOUS
  <2>2. b \in Nat /\ b \in 1 .. next[kind]
    BY <1>1, <2>1
  <2>3. PICK m : m = <<kind, b>>
    OBVIOUS
  <2>4. m \in NameKinds \X Nat /\ m[1] = kind /\ m[2] = b
    BY <2>2, <2>3
  <2>5. m \in UsedOf(next, exposed, count)
    BY <2>2, <2>4 DEF UsedOf
  <2> QED
    BY <2>1, <2>3, <2>5
<1> QED
  BY <1>1, <1>4, <1>5

\* No fork and no builder is given the name of the hidden base.
LEMMA HiddenIsNotUsed ==
  ASSUME NEW counters, NEW exposed, ExposedOK(exposed), NEW count \in 0 .. Len(exposed)
  PROVE  hidden_base_name \notin UsedOf(counters, exposed, count)
<1>1. PICK S : S = {"t"} \X Nat
  OBVIOUS
<1>2. exposed \in Seq(S)
  BY <1>1 DEF ExposedOK
<1>3. \A i \in 1 .. count : exposed[i] \in S
  BY <1>2
<1>4. \A i \in 1 .. count : exposed[i][1] = "t"
  BY <1>1, <1>3
<1>5. hidden_base_name[1] = "base" /\ "base" \notin NameKinds
  BY DEF hidden_base_name, NameKinds
<1> QED
  BY <1>4, <1>5 DEF UsedOf

-----------------------------------------------------------------------------
(* The trees and the subtrees that wait for a parent *)

Growing(p, u, st, low) ==
  /\ Tree(p, u) /\ Waiting(p, st, low) /\ ForkApart(p, low) /\ low \in 0 .. Len(p)

\* One node more leaves the waiting subtrees as they are, if it writes to none of their channels.
LEMMA GrowNode ==
  ASSUME NEW p, NEW u, NEW st, NEW low, Growing(p, u, st, low), NEW n \in NodeType, NEW v,
         Tree(Append(p, n), v),
         \A i \in DOMAIN n.inputs : n.inputs[i] > low,
         \A i \in DOMAIN st : p[st[i]].kind = "channel" =>
           ~Writes(Append(p, n), Len(p) + 1, p[st[i]].ref)
  PROVE  /\ Growing(Append(p, n), v, st, low)
         /\ \A i \in DOMAIN st : st[i] < Len(Append(p, n))
         /\ Len(Append(p, n)) = Len(p) + 1 /\ low < Len(p) + 1
<1>1. PICK q : q = Append(p, n)
  OBVIOUS
<1>2. InputsBefore(p) /\ Waiting(p, st, low) /\ ForkApart(p, low) /\ low \in 0 .. Len(p) /\ p \in Seq(NodeType)
  BY DEF Growing, Tree, TypedNodes
<1>3. IsMore(p, n, q)
  BY <1>1, <1>2, OneMore
<1>4. PICK y : y = Len(p) + 1
  OBVIOUS
<1>5. /\ DOMAIN p = 1 .. Len(p) /\ Len(p) \in Nat /\ DOMAIN q = 1 .. Len(p) + 1 /\ Len(q) = Len(p) + 1
      /\ q[y] = n /\ y \notin DOMAIN p /\ \A x \in DOMAIN q : x \in DOMAIN p \/ x = y
  BY <1>3, <1>4 DEF IsMore
<1>6. \A x \in DOMAIN p : q[x] = p[x] /\ \A m : Writes(q, x, m) <=> Writes(p, x, m)
  BY <1>2, <1>3, OlderStay DEF SameIn
<1>7. /\ st \in Seq(Nat) /\ \A i \in DOMAIN st : st[i] > low /\ st[i] \in DOMAIN p
      /\ \A i, j \in DOMAIN st : i < j => st[i] < st[j]
      /\ \A i \in DOMAIN st : p[st[i]].kind = "channel" => LastWriter(p, st[i])
  BY <1>2 DEF Waiting
<1>8. ASSUME NEW i \in DOMAIN st, q[st[i]].kind = "channel" PROVE LastWriter(q, st[i])
  <2>1. p[st[i]].kind = "channel" /\ q[st[i]].ref = p[st[i]].ref
    BY <1>6, <1>7, <1>8
  <2>2. ~Writes(q, y, p[st[i]].ref)
    BY <1>1, <1>4, <2>1
  <2>3. LastWriter(p, st[i])
    BY <1>7, <2>1
  <2> QED
    BY <1>5, <1>6, <2>1, <2>2, <2>3 DEF LastWriter
<1>9. \A i \in DOMAIN st : st[i] \in DOMAIN q
  BY <1>5, <1>7
<1>10. Waiting(q, st, low)
  BY <1>7, <1>8, <1>9 DEF Waiting
<1>11. ForkApart(q, low)
  BY <1>2, <1>5, <1>6 DEF ForkApart
<1>12. low \in 0 .. Len(q)
  BY <1>2, <1>5
<1>13. \A i \in DOMAIN st : st[i] < Len(q)
  BY <1>5, <1>7
<1> QED
  BY <1>1, <1>2, <1>5, <1>10, <1>11, <1>12, <1>13 DEF Growing

\* The newest node may wait for a parent.
LEMMA GrowTop ==
  ASSUME NEW p, NEW u, NEW st, NEW low, Growing(p, u, st, low), low < Len(p),
         \A i \in DOMAIN st : st[i] < Len(p)
  PROVE  Growing(p, u, Append(st, Len(p)), low)
<1>1. /\ Tree(p, u) /\ ForkApart(p, low) /\ low \in 0 .. Len(p) /\ p \in Seq(NodeType) /\ Waiting(p, st, low)
  BY DEF Growing, Tree, TypedNodes
<1>2. /\ st \in Seq(Nat) /\ \A i \in DOMAIN st : st[i] > low /\ st[i] \in DOMAIN p
      /\ \A i, j \in DOMAIN st : i < j => st[i] < st[j]
      /\ \A i \in DOMAIN st : p[st[i]].kind = "channel" => LastWriter(p, st[i])
  BY <1>1 DEF Waiting
<1>3. DOMAIN p = 1 .. Len(p) /\ Len(p) \in Nat
  <2>1. PICK S : S = NodeType
    OBVIOUS
  <2> QED
    BY <1>1, <2>1
<1>4. PICK t, top : t = Append(st, Len(p)) /\ top = Len(st) + 1
  OBVIOUS
<1>5. /\ t \in Seq(Nat) /\ DOMAIN t = 1 .. top /\ t[top] = Len(p) /\ DOMAIN st = 1 .. top - 1 /\ top \in Nat
      /\ \A i \in DOMAIN st : t[i] = st[i]
  BY <1>2, <1>3, <1>4
<1>6. \A i \in DOMAIN t : (i = top /\ t[i] = Len(p)) \/ (i \in DOMAIN st /\ i < top /\ t[i] = st[i])
  BY <1>5
<1>7. \A i \in DOMAIN t : t[i] > low /\ t[i] \in DOMAIN p
  BY <1>1, <1>2, <1>3, <1>6
<1>8. \A i, j \in DOMAIN t : i < j => t[i] < t[j]
  BY <1>2, <1>5, <1>6
<1>9. LastWriter(p, Len(p))
  BY <1>3 DEF LastWriter
<1>10. \A i \in DOMAIN t : p[t[i]].kind = "channel" => LastWriter(p, t[i])
  BY <1>2, <1>6, <1>9
<1> QED
  BY <1>1, <1>4, <1>5, <1>7, <1>8, <1>10 DEF Growing, Waiting

\* A node that writes only to what is new, or to nothing.
LEMMA GrowSilent ==
  ASSUME NEW p, NEW u, NEW st, NEW low, Growing(p, u, st, low), NEW n \in NodeType, Silent(p, n),
         \A i \in DOMAIN n.inputs : n.inputs[i] \in DOMAIN p /\ n.inputs[i] > low
  PROVE  /\ Growing(Append(p, n), u, st, low)
         /\ \A i \in DOMAIN st : st[i] < Len(Append(p, n))
         /\ Len(Append(p, n)) = Len(p) + 1 /\ low < Len(p) + 1
<1>1. Tree(p, u) /\ p \in Seq(NodeType)
  BY DEF Growing, Tree, TypedNodes
<1>2. Tree(Append(p, n), u)
  BY <1>1, AddSilent
<1>3. PICK q, y : q = Append(p, n) /\ y = Len(p) + 1
  OBVIOUS
<1>4. IsMore(p, n, q)
  BY <1>1, <1>3, OneMore
<1>5. q[y] = n
  BY <1>3, <1>4 DEF IsMore
<1>6. Silent(q, q[y])
  BY <1>4, <1>5 DEF Silent, IsMore
<1>7. \A m : ~Writes(q, y, m)
  BY <1>6, SilentNodes
<1> QED
  BY <1>2, <1>3, <1>7, GrowNode

\* A made node under a new name leaves the waiting subtrees as they are.
LEMMA GrowMade ==
  ASSUME NEW p, NEW u, NEW st, NEW low, Growing(p, u, st, low), NEW n \in NodeType, Made(p, n),
         \A i \in DOMAIN n.inputs : n.inputs[i] \in DOMAIN p /\ n.inputs[i] > low,
         n.ref \notin u, n.ref # hidden_base_name
  PROVE  /\ Growing(Append(p, n), u \cup {n.ref}, st, low)
         /\ \A i \in DOMAIN st : st[i] < Len(Append(p, n))
         /\ Len(Append(p, n)) = Len(p) + 1 /\ low < Len(p) + 1
         /\ Made(Append(p, n), n)
<1>1. Tree(p, u) /\ p \in Seq(NodeType) /\ InputsBefore(p) /\ InUse(p, u) /\ Waiting(p, st, low)
  BY DEF Growing, Tree, TypedNodes
<1>2. Tree(Append(p, n), u \cup {n.ref})
  BY <1>1, AddMade
<1>3. PICK q, y : q = Append(p, n) /\ y = Len(p) + 1
  OBVIOUS
<1>4. IsMore(p, n, q)
  BY <1>1, <1>3, OneMore
<1>5. q[y] = n /\ q \in Seq(NodeType) /\ y \in DOMAIN q /\ \A x \in DOMAIN p : q[x] = p[x]
  BY <1>3, <1>4 DEF IsMore
<1>6. Sources(q, n.inputs) = Sources(p, n.inputs)
  BY <1>1, <1>4, SourcesStay
<1>7. Made(q, n)
  BY <1>5, <1>6 DEF Made
<1>8. \A m : Writes(q, y, m) => m = n.ref
  BY <1>5, <1>7, MadeNodes
<1>9. \A i \in DOMAIN st : p[st[i]].kind = "channel" => p[st[i]].ref \in u
  BY <1>1 DEF Waiting, InUse, Named
<1>10. \A i \in DOMAIN st : p[st[i]].kind = "channel" => ~Writes(q, y, p[st[i]].ref)
  BY <1>8, <1>9
<1>11. PICK v : v = u \cup {n.ref}
  OBVIOUS
<1>12. /\ Growing(q, v, st, low) /\ \A i \in DOMAIN st : st[i] < Len(q)
       /\ Len(q) = Len(p) + 1 /\ low < Len(p) + 1
  BY <1>2, <1>3, <1>10, <1>11, GrowNode
<1> QED
  BY <1>3, <1>7, <1>11, <1>12

\* A node on top of a channel, which is not among those that wait.
LEMMA GrowChannel ==
  ASSUME NEW p, NEW u, NEW st, NEW low, Growing(p, u, st, low), NEW n \in NodeType,
         NEW c \in DOMAIN p, p[c].kind = "channel", LastWriter(p, c), c > low,
         n.inputs = <<c>>, \A i \in DOMAIN st : st[i] # c,
         NEW v, Tree(Append(p, n), v),
         Grown(Append(p, n), n) \/ Pruned(Append(p, n), n)
  PROVE  /\ Growing(Append(p, n), v, st, low)
         /\ \A i \in DOMAIN st : st[i] < Len(Append(p, n))
         /\ Len(Append(p, n)) = Len(p) + 1 /\ low < Len(p) + 1
<1>1. Tree(p, u) /\ p \in Seq(NodeType) /\ InputsBefore(p) /\ Waiting(p, st, low)
  BY DEF Growing, Tree, TypedNodes
<1>2. PICK q, y : q = Append(p, n) /\ y = Len(p) + 1
  OBVIOUS
<1>3. IsMore(p, n, q)
  BY <1>1, <1>2, OneMore
<1>4. q[y] = n /\ y \in DOMAIN q /\ \A x \in DOMAIN p : q[x] = p[x]
  BY <1>2, <1>3 DEF IsMore
<1>5. \A m : Writes(q, y, m) => m = p[c].ref
  <2>1. CASE Grown(q, n)
    <3>1. PICK d \in DOMAIN q : q[y].inputs = <<d>> /\ q[y].ref = q[d].ref
      BY <1>4, <2>1, GrownNodes
    <3>2. d = c /\ q[d] = p[c]
      BY <1>4, <3>1
    <3> QED
      BY <1>4, <2>1, <3>1, <3>2, GrownNodes
  <2>2. CASE Pruned(q, n)
    <3>1. PICK d \in DOMAIN q : q[y].inputs = <<d>> /\ \A m : Writes(q, y, m) <=> m = q[d].ref
      BY <1>4, <2>2, PrunedNodes
    <3>2. d = c /\ q[d] = p[c]
      BY <1>4, <3>1
    <3> QED
      BY <3>1, <3>2
  <2> QED
    BY <1>2, <2>1, <2>2
<1>6. ASSUME NEW i \in DOMAIN st, p[st[i]].kind = "channel" PROVE p[st[i]].ref # p[c].ref
  <2>1. PICK d : d = st[i]
    OBVIOUS
  <2>2. d \in DOMAIN p /\ LastWriter(p, d) /\ p[d].kind = "channel" /\ d # c
    BY <1>1, <1>6, <2>1 DEF Waiting
  <2>3. Writes(p, c, p[c].ref) /\ Writes(p, d, p[d].ref)
    BY <1>1, <2>2, Channels
  <2>4. DOMAIN p \subseteq Nat
    BY <1>3 DEF IsMore
  <2>5. p[d].ref = p[c].ref => c <= d /\ d <= c
    BY <2>2, <2>3 DEF LastWriter
  <2> QED
    BY <2>1, <2>2, <2>4, <2>5
<1>7. \A i \in DOMAIN n.inputs : n.inputs[i] > low
  OBVIOUS
<1>8. \A i \in DOMAIN st : p[st[i]].kind = "channel" => ~Writes(q, y, p[st[i]].ref)
  BY <1>5, <1>6
<1> QED
  BY <1>2, <1>7, <1>8, GrowNode

-----------------------------------------------------------------------------
(* The builders *)

GenOK ==
  /\ names \in [NameKinds -> Nat] /\ ExposedOK(exposed_names)
  /\ forks \in Seq(Nat) /\ Len(forks) <= Len(exposed_names)
  /\ walking # <<>> => Len(forks) < Len(exposed_names) /\ stack = <<>> /\ LastRoot < Len(nodes)
  /\ Growing(nodes, UsedNames, stack, LastRoot)

\* More names may be in use than the nodes have.
LEMMA MoreNames ==
  ASSUME NEW p, NEW u, NEW v, NEW st, NEW low, Growing(p, u, st, low), u \subseteq v, hidden_base_name \notin v
  PROVE  Growing(p, v, st, low)
BY DEF Growing, Tree, InUse

\* The subtrees that a builder does not take go on waiting.
LEMMA RestWaits ==
  ASSUME NEW p, NEW u, NEW low, Growing(p, u, stack, low), NEW n \in Nat, n <= Len(stack)
  PROVE  /\ Growing(p, u, Rest(n), low)
         /\ Rest(n) \in Seq(Nat) /\ DOMAIN Rest(n) = 1 .. Len(stack) - n
         /\ \A i \in 1 .. Len(stack) - n : Rest(n)[i] = stack[i]
<1>1. /\ stack \in Seq(Nat) /\ \A i \in DOMAIN stack : stack[i] > low /\ stack[i] \in DOMAIN p
      /\ \A i, j \in DOMAIN stack : i < j => stack[i] < stack[j]
      /\ \A i \in DOMAIN stack : p[stack[i]].kind = "channel" => LastWriter(p, stack[i])
  BY DEF Growing, Waiting
<1>2. PICK r : r = Rest(n)
  OBVIOUS
<1>3. /\ r \in Seq(Nat) /\ DOMAIN r = 1 .. Len(stack) - n /\ DOMAIN stack = 1 .. Len(stack) /\ Len(stack) \in Nat
      /\ \A i \in 1 .. Len(stack) - n : r[i] = stack[i]
  <2>1. Len(stack) \in Nat /\ Len(stack) - n \in 0 .. Len(stack) /\ DOMAIN stack = 1 .. Len(stack)
    BY <1>1
  <2>2. PICK k : k = Len(stack) - n
    OBVIOUS
  <2>3. r = SubSeq(stack, 1, k) /\ k \in 0 .. Len(stack)
    BY <1>2, <2>1, <2>2 DEF Rest
  <2>4. r \in Seq(Nat) /\ Len(r) = k /\ DOMAIN r = 1 .. k /\ \A i \in 1 .. k : r[i] = stack[i]
    BY <1>1, <2>1, <2>3
  <2> QED
    BY <2>1, <2>2, <2>4
<1>4. \A i \in DOMAIN r : i \in DOMAIN stack /\ r[i] = stack[i]
  BY <1>3
<1>5. Waiting(p, r, low)
  BY <1>1, <1>3, <1>4 DEF Waiting
<1> QED
  BY <1>2, <1>3, <1>5 DEF Growing

\* What a builder of one input takes: the newest subtree, which no other one is.
LEMMA TopOne ==
  ASSUME NEW p, NEW u, NEW low, Growing(p, u, stack, low), Len(stack) >= 1
  PROVE  \E t \in DOMAIN p :
           /\ Taken(1) = <<t>> /\ t > low /\ t \in Nat
           /\ Growing(p, u, Rest(1), low) /\ \A i \in DOMAIN Rest(1) : Rest(1)[i] # t
           /\ p[t].kind = "channel" => LastWriter(p, t)
           /\ Kinds(1) = <<nodes[t].kind>>
<1>1. /\ stack \in Seq(Nat) /\ \A i \in DOMAIN stack : stack[i] > low /\ stack[i] \in DOMAIN p
      /\ \A i, j \in DOMAIN stack : i < j => stack[i] < stack[j]
      /\ \A i \in DOMAIN stack : p[stack[i]].kind = "channel" => LastWriter(p, stack[i])
  BY DEF Growing, Waiting
<1>2. PICK k : k = Len(stack)
  OBVIOUS
<1>3. k \in Nat /\ k >= 1 /\ k \in DOMAIN stack /\ DOMAIN stack = 1 .. k /\ k - 1 + 1 = k /\ stack[k] \in Nat
  BY <1>1, <1>2
<1>4. PICK t : t = stack[k]
  OBVIOUS
<1>5. Taken(1) = <<t>>
  <2>1. Taken(1) = SubSeq(stack, k, k)
    BY <1>2, <1>3 DEF Taken
  <2>2. SubSeq(stack, k, k) = <<stack[k]>>
    <3>1. PICK r : r = SubSeq(stack, k, k)
      OBVIOUS
    <3>2. r \in Seq(Nat) /\ Len(r) = 1
      BY <1>1, <1>2, <1>3, <3>1
    <3>3. r[1] = stack[k]
      BY <1>1, <1>2, <1>3, <3>1
    <3>4. r = <<r[1]>>
      BY <3>2
    <3> QED
      BY <3>1, <3>3, <3>4
  <2> QED
    BY <1>4, <2>1, <2>2
<1>6. Kinds(1) = <<nodes[t].kind>>
  <2>1. Kinds(1) = [i \in 1 .. 1 |-> nodes[<<t>>[i]].kind]
    BY <1>5 DEF Kinds
  <2>2. [i \in 1 .. 1 |-> nodes[<<t>>[i]].kind] = <<nodes[t].kind>>
    OBVIOUS
  <2> QED
    BY <2>1, <2>2
<1>7. /\ Growing(p, u, Rest(1), low) /\ DOMAIN Rest(1) = 1 .. k - 1
      /\ \A i \in 1 .. k - 1 : Rest(1)[i] = stack[i]
  BY <1>2, <1>3, RestWaits
<1>8. \A i \in DOMAIN Rest(1) : Rest(1)[i] # t
  <2> SUFFICES ASSUME NEW i \in 1 .. k - 1 PROVE stack[i] # t
    BY <1>7
  <2>1. i \in DOMAIN stack /\ i < k
    BY <1>3
  <2>2. stack[i] < stack[k] /\ stack[i] \in Nat
    BY <1>1, <1>3, <2>1
  <2> QED
    BY <1>3, <1>4, <2>2
<1> QED
  BY <1>1, <1>3, <1>4, <1>5, <1>6, <1>7, <1>8

\* The new subtree waits in the place of the ones taken.
LEMMA PutsKeeps ==
  ASSUME GenOK, NEW builder, NEW n, NEW more, NEW kind \in NameKinds, NEW minted \in Nat,
         Puts(builder, n, more, kind, minted),
         NEW v, v \subseteq UsedOf(names', exposed_names, Len(forks)),
         Growing(nodes \o more, v, Rest(n), LastRoot), LastRoot < Len(nodes \o more),
         Len(nodes \o more) = Len(nodes) + Len(more),
         \A i \in DOMAIN Rest(n) : Rest(n)[i] < Len(nodes \o more)
  PROVE  GenOK'
<1>1. /\ names \in [NameKinds -> Nat] /\ ExposedOK(exposed_names) /\ forks \in Seq(Nat)
      /\ Len(forks) <= Len(exposed_names)
  BY DEF GenOK
<1>2. /\ walking = <<>> /\ nodes' = nodes \o more /\ stack' = Append(Rest(n), Len(nodes) + Len(more))
      /\ names' = [names EXCEPT ![kind] = @ + minted]
      /\ exposed_names' = exposed_names /\ forks' = forks /\ walking' = walking
  BY DEF Puts, Makes, Generating
<1>3. names' \in [NameKinds -> Nat]
  <2>1. PICK next : next = names' /\ Advanced(names, kind, minted, next)
    BY <1>2 DEF Advanced
  <2> QED
    BY <1>1, <2>1, CountersUse
<1>4. LastRoot' = LastRoot /\ UsedNames' = UsedOf(names', exposed_names, Len(forks))
  BY <1>1, <1>2 DEF LastRoot, UsedNames, Started
<1>5. Len(forks) \in 0 .. Len(exposed_names)
  BY <1>1
<1>6. hidden_base_name \notin UsedNames'
  BY <1>1, <1>4, <1>5, HiddenIsNotUsed
<1>7. Growing(nodes', v, stack', LastRoot)
  BY <1>2, GrowTop
<1>8. Growing(nodes', UsedNames', stack', LastRoot')
  BY <1>4, <1>6, <1>7, MoreNames
<1> QED
  BY <1>1, <1>2, <1>3, <1>8 DEF GenOK

\* The object that an object builder makes under any name fits in the place of the ones taken.
Fitting(n, made, name) ==
  /\ Growing(Append(nodes, made[name]), UsedNames \cup {name}, Rest(n), LastRoot)
  /\ LastRoot < Len(nodes) + 1 /\ Len(Append(nodes, made[name])) = Len(nodes) + 1
  /\ \A i \in DOMAIN Rest(n) : Rest(n)[i] < Len(Append(nodes, made[name]))
  /\ nodes \o <<made[name]>> = Append(nodes, made[name])

\* A builder that puts one object keeps the trees, if what it makes fits under every name it may get.
LEMMA PutsObjectKeeps ==
  ASSUME GenOK, NEW builder, NEW n \in Nat, NEW kind \in NameKinds, NEW made, PutsObject(builder, n, kind, made),
         \A name \in NamesFor(kind) :
           name \in Names /\ name \notin UsedNames /\ name # hidden_base_name => Fitting(n, made, name)
  PROVE  GenOK'
<1>1. /\ names \in [NameKinds -> Nat] /\ ExposedOK(exposed_names) /\ forks \in Seq(Nat)
      /\ Len(forks) <= Len(exposed_names) /\ Growing(nodes, UsedNames, stack, LastRoot)
  BY DEF GenOK
<1>2. Len(forks) \in Nat /\ Len(exposed_names) \in Nat
  BY <1>1 DEF ExposedOK
<1>3. walking = <<>> /\ Len(forks) < Len(exposed_names)
  BY DEF PutsObject, Puts, Makes, Generating
<1>4. UsedNames = UsedOf(names, exposed_names, Len(forks))
  BY <1>2, <1>3 DEF UsedNames, Started
<1>5. CASE Puts(builder, n, <<made[mint(kind, names)]>>, kind, 1)
  <2>1. PICK name : name = mint(kind, names)
    OBVIOUS
  <2>2. name \in NamesFor(kind) /\ name = <<kind, names[kind] + 1>>
    BY <2>1 DEF NamesFor, mint
  <2>3. name \in Names /\ name \notin UsedNames /\ name # hidden_base_name
    <3>1. Len(forks) \in 0 .. Len(exposed_names) /\ 1 \in Nat \ {0}
      BY <1>2, <1>3
    <3> QED
      BY <1>1, <1>4, <2>2, <3>1, NewNames
  <2>4. Fitting(n, made, name)
    BY <2>2, <2>3
  <2>5. names' = [names EXCEPT ![kind] = @ + 1]
    BY <1>5 DEF Puts, Makes
  <2>6. UsedNames \cup {name} \subseteq UsedOf(names', exposed_names, Len(forks))
    <3>1. PICK k : k = 1 /\ k \in Nat /\ k \in 1 .. k
      OBVIOUS
    <3>2. PICK next : next = names' /\ Advanced(names, kind, k, next)
      BY <2>5, <3>1 DEF Advanced
    <3>3. /\ UsedOf(names, exposed_names, Len(forks)) \subseteq UsedOf(next, exposed_names, Len(forks))
          /\ \A j \in 1 .. k : <<kind, names[kind] + j>> \in UsedOf(next, exposed_names, Len(forks))
      BY <1>1, <3>1, <3>2, CountersUse
    <3>4. <<kind, names[kind] + 1>> \in UsedOf(next, exposed_names, Len(forks))
      BY <3>1, <3>3
    <3> QED
      BY <1>4, <2>2, <3>2, <3>3, <3>4
  <2>7. PICK more, v : more = <<made[name]>> /\ v = UsedNames \cup {name}
    OBVIOUS
  <2>8. Puts(builder, n, more, kind, 1) /\ Len(more) = 1
    BY <1>5, <2>1, <2>7
  <2>9. nodes \o more = Append(nodes, made[name])
    BY <2>4, <2>7 DEF Fitting
  <2>10. /\ Growing(nodes \o more, v, Rest(n), LastRoot) /\ LastRoot < Len(nodes \o more)
         /\ Len(nodes \o more) = Len(nodes) + Len(more)
         /\ \A i \in DOMAIN Rest(n) : Rest(n)[i] < Len(nodes \o more)
    BY <2>4, <2>7, <2>8, <2>9 DEF Fitting
  <2>11. v \subseteq UsedOf(names', exposed_names, Len(forks)) /\ 1 \in Nat
    BY <2>6, <2>7
  <2> QED
    BY <2>8, <2>10, <2>11, PutsKeeps
<1>6. CASE /\ Makes(builder, <<made[exposed_names[Len(forks) + 1]]>>, kind, 0)
           /\ Len(stack) = n /\ stack' = <<>>
           /\ walking' = <<Frame(Len(nodes) + 1, 1)>> /\ seen' = {Len(nodes) + 1}
  <2>1. PICK name : name = exposed_names[Len(forks) + 1]
    OBVIOUS
  <2>2. name \in NamesFor(kind)
    <3>1. PICK S : S = {"t"} \X Nat
      OBVIOUS
    <3>2. exposed_names \in Seq(S)
      BY <1>1, <3>1 DEF ExposedOK
    <3>3. Len(forks) + 1 \in DOMAIN exposed_names
      BY <1>2, <1>3, <3>2
    <3> QED
      BY <2>1, <3>3 DEF NamesFor, Range
  <2>3. /\ name \in Names /\ name # hidden_base_name /\ name \notin UsedNames
        /\ UsedOf(names, exposed_names, Len(forks) + 1) = UsedNames \cup {name}
    BY <1>1, <1>2, <1>3, <1>4, <2>1, ExposedIsNew
  <2>4. Fitting(n, made, name)
    BY <2>2, <2>3
  <2>5. /\ nodes' = Append(nodes, made[name]) /\ exposed_names' = exposed_names /\ forks' = forks
        /\ names' = [names EXCEPT ![kind] = @ + 0]
    BY <1>6, <2>1, <2>4 DEF Makes, Fitting
  <2>6. names' = names
    BY <1>1, <2>5
  <2>7. LastRoot' = LastRoot
    BY <2>5 DEF LastRoot
  <2>8. walking' # <<>> /\ Started' = Len(forks) + 1
    BY <1>6, <2>5 DEF Started
  <2>9. UsedNames' = UsedNames \cup {name}
    BY <2>3, <2>5, <2>6, <2>8 DEF UsedNames
  <2>10. Rest(n) = <<>>
    <3>1. stack \in Seq(Nat)
      BY <1>1 DEF Growing, Waiting
    <3>2. Len(stack) - n = 0
      BY <1>6, <3>1
    <3> QED
      BY <3>1, <3>2 DEF Rest
  <2>11. Growing(nodes', UsedNames', stack', LastRoot')
    BY <1>6, <2>4, <2>5, <2>7, <2>9, <2>10 DEF Fitting
  <2>12. LastRoot' < Len(nodes')
    BY <2>4, <2>5, <2>7 DEF Fitting
  <2> QED
    BY <1>1, <1>3, <1>6, <2>5, <2>6, <2>11, <2>12 DEF GenOK
<1> QED
  BY <1>5, <1>6 DEF PutsObject

\* The fields of a step.
LEMMA StepIs ==
  ASSUME NEW verb \in StepVerbs, NEW target \in Names, NEW reads \in SUBSET Names
  PROVE  LET a == Step(verb, target, reads)
         IN a \in StepType /\ a.verb = verb /\ a.target = target /\ a.reads = reads
BY DEF Step, StepType

\* The hidden base is a name.
LEMMA HiddenIsName == hidden_base_name \in Names
<1>1. PICK name, z : name = hidden_base_name /\ z = 0
  OBVIOUS
<1>2. name = <<"base", z>> /\ z \in Nat
  BY <1>1 DEF hidden_base_name
<1> QED
  BY <1>1, <1>2 DEF Names

\* A query over tables and views is only read through.
LEMMA QueryIs ==
  ASSUME NEW by \in Bys, NEW inputs \in Seq(Nat), NEW p,
         \A i \in DOMAIN inputs : p[inputs[i]].kind \in {"base", "table", "view"}
  PROVE  LET n == Query(by, inputs)
         IN n \in NodeType /\ n.by = by /\ n.inputs = inputs /\ n.kind = "query" /\ Silent(p, n)
<1>1. PICK n, steps, kind, ref :
        /\ n = Node(by, kind, inputs, ref, steps) /\ n = Query(by, inputs)
        /\ steps = <<>> /\ kind = "query" /\ ref = hidden_base_name
  BY DEF Query
<1>2. steps \in Seq(StepType) /\ kind \in NodeKinds /\ ref \in Names
  BY <1>1, HiddenIsName DEF NodeKinds
<1>3. n \in NodeType /\ n.by = by /\ n.kind = kind /\ n.inputs = inputs /\ n.ref = ref /\ n.steps = steps
  BY <1>1, <1>2, SMT DEF Node, NodeType
<1>4. Silent(p, n)
  BY <1>1, <1>3 DEF Silent
<1> QED
  BY <1>1, <1>3, <1>4

\* An object of one step, which creates it, or of more, which fill it anew.
MakingSteps(p, kind, inputs, name, steps) ==
  /\ steps # <<>>
  /\ \A i \in DOMAIN inputs : p[inputs[i]].kind = "query"
  /\ steps[1].verb = IF kind = "view" THEN "create view" ELSE "create table"
  /\ steps[1].reads \subseteq Sources(p, inputs)
  /\ \A i \in DOMAIN steps : steps[i].target = name
  /\ \A i \in DOMAIN steps : i > 1 =>
       kind = "table" /\ steps[i].verb \in {"insert", "delete"} /\ steps[i].reads \subseteq {hidden_base_name}

ObjectKinds == {"table", "view", "channel"}
IsNode(n, by, kind, inputs, name, steps) == n = Node(by, kind, inputs, name, steps)
\* The fields of a node.
LEMMA FieldsAre ==
  ASSUME NEW by \in Bys, NEW kind \in NodeKinds, NEW inputs \in Seq(Nat), NEW name \in Names,
         NEW steps \in Seq(StepType), NEW n, IsNode(n, by, kind, inputs, name, steps)
  PROVE  n \in NodeType /\ n.by = by /\ n.kind = kind /\ n.inputs = inputs /\ n.ref = name /\ n.steps = steps
BY SMT DEF IsNode, Node, NodeType

\* A node with the steps that make its object is a made node.
LEMMA ObjectIs ==
  ASSUME NEW by \in Bys, NEW kind \in ObjectKinds, NEW inputs \in Seq(Nat),
         NEW p, NEW name \in Names, NEW steps \in Seq(StepType), MakingSteps(p, kind, inputs, name, steps),
         NEW n, IsNode(n, by, kind, inputs, name, steps)
  PROVE  n \in NodeType /\ n.by = by /\ n.inputs = inputs /\ n.kind = kind /\ n.ref = name /\ Made(p, n)
<1>2. kind \in NodeKinds
  BY DEF NodeKinds, ObjectKinds
<1>3. n \in NodeType /\ n.by = by /\ n.kind = kind /\ n.inputs = inputs /\ n.ref = name /\ n.steps = steps
  BY <1>2, SMT DEF IsNode, Node, NodeType
<1>4. Made(p, n)
  BY <1>3 DEF Made, MakingSteps, ObjectKinds
<1> QED
  BY <1>3, <1>4

IsStep(steps, verb, target, reads) == steps = <<Step(verb, target, reads)>>
\* The fields of the only step of a node.
LEMMA OneStep ==
  ASSUME NEW verb \in StepVerbs, NEW target \in Names, NEW reads \in SUBSET Names,
         NEW steps, IsStep(steps, verb, target, reads)
  PROVE  /\ steps \in Seq(StepType) /\ steps # <<>>
         /\ DOMAIN steps = {1} /\ steps[1].verb = verb /\ steps[1].target = target /\ steps[1].reads = reads
<1>1. PICK a : /\ a = Step(verb, target, reads) /\ a \in StepType
               /\ a.verb = verb /\ a.target = target /\ a.reads = reads
  BY StepIs
<1>2. PICK S : S = StepType
  OBVIOUS
<1>3. <<a>> \in Seq(S) /\ <<a>> # <<>> /\ DOMAIN <<a>> = {1} /\ <<a>>[1] = a
  BY <1>1, <1>2
<1> QED
  BY <1>1, <1>2, <1>3 DEF IsStep

\* A table, a view or a channel with the one step that creates it.
Creation(kind, verb) == verb = IF kind = "view" THEN "create view" ELSE "create table"
CreatedFrom(p, inputs, reads) ==
  /\ \A i \in DOMAIN inputs : p[inputs[i]].kind = "query"
  /\ reads \subseteq Sources(p, inputs)
\* A node whose only step creates its object is a made node.
LEMMA CreatedIs ==
  ASSUME NEW by \in Bys, NEW kind \in ObjectKinds, NEW inputs \in Seq(Nat),
         NEW p, NEW name \in Names, NEW verb \in StepVerbs, NEW reads \in SUBSET Names,
         CreatedFrom(p, inputs, reads), Creation(kind, verb), NEW steps, IsStep(steps, verb, name, reads),
         NEW n, IsNode(n, by, kind, inputs, name, steps)
  PROVE  n \in NodeType /\ n.by = by /\ n.inputs = inputs /\ n.kind = kind /\ n.ref = name /\ Made(p, n)
<1>1. /\ steps \in Seq(StepType) /\ steps # <<>>
      /\ DOMAIN steps = {1} /\ steps[1].verb = verb /\ steps[1].target = name /\ steps[1].reads = reads
  BY OneStep
<1>2. \A i \in DOMAIN steps : ~(i > 1)
  BY <1>1
<1>3. MakingSteps(p, kind, inputs, name, steps)
  BY <1>1, <1>2 DEF MakingSteps, CreatedFrom, Creation
<1> QED
  BY <1>1, <1>3, ObjectIs

AreSteps(steps, a, b, c) == steps = <<a, b, c>>
\* The steps of a node with three.
LEMMA ThreeSteps ==
  ASSUME NEW a \in StepType, NEW b \in StepType, NEW c \in StepType, NEW steps, AreSteps(steps, a, b, c)
  PROVE  /\ steps \in Seq(StepType) /\ steps # <<>> /\ DOMAIN steps = {1, 2, 3}
         /\ steps[1] = a /\ steps[2] = b /\ steps[3] = c
<1>1. PICK S : S = StepType
  OBVIOUS
<1>2. <<a, b, c>> \in Seq(S) /\ <<a, b, c>> # <<>> /\ <<a, b, c>>[1] = a /\ <<a, b, c>>[2] = b /\ <<a, b, c>>[3] = c
  BY <1>1
<1>3. DOMAIN <<a, b, c>> = 1 .. 3 /\ 1 .. 3 = {1, 2, 3}
  OBVIOUS
<1> QED
  BY <1>1, <1>2, <1>3 DEF AreSteps

\* What a builder takes: nodes above the last fork, of the kinds it sees.
LEMMA TakenAre ==
  ASSUME NEW p, NEW u, NEW low, Growing(p, u, stack, low), NEW n \in Nat, n <= Len(stack)
  PROVE  /\ Taken(n) \in Seq(Nat) /\ DOMAIN Taken(n) = 1 .. n
         /\ \A i \in 1 .. n : Taken(n)[i] \in DOMAIN p /\ Taken(n)[i] > low
         /\ \A i \in 1 .. n : Kinds(n)[i] = nodes[Taken(n)[i]].kind
<1>1. stack \in Seq(Nat) /\ \A i \in DOMAIN stack : stack[i] > low /\ stack[i] \in DOMAIN p
  BY DEF Growing, Waiting
<1>2. PICK k, l : k = Len(stack) /\ l = k - n + 1
  OBVIOUS
<1>3. k \in Nat /\ l \in 1 .. k + 1 /\ DOMAIN stack = 1 .. k
  BY <1>1, <1>2
<1>4. PICK t : t = SubSeq(stack, l, k)
  OBVIOUS
<1>5. t \in Seq(Nat) /\ Len(t) = n /\ \A i \in 1 .. n : t[i] = stack[l + i - 1]
  BY <1>1, <1>2, <1>3, <1>4
<1>6. \A i \in 1 .. n : l + i - 1 \in DOMAIN stack
  BY <1>2, <1>3
<1>7. Taken(n) = t
  BY <1>2, <1>4 DEF Taken
<1>8. DOMAIN t = 1 .. n
  BY <1>5
<1> QED
  BY <1>1, <1>5, <1>6, <1>7, <1>8 DEF Kinds

\* Sequences: one element more.
LEMMA CatOne == ASSUME NEW S, NEW p \in Seq(S), NEW a \in S PROVE p \o <<a>> = Append(p, a)
BY AppendIsConcat

\* What a node reads from are names.
LEMMA RefsAreNames ==
  ASSUME NEW p \in Seq(NodeType), InputsBefore(p), NEW ids, \A i \in DOMAIN ids : ids[i] \in DOMAIN p
  PROVE  Sources(p, ids) \subseteq Names
<1> SUFFICES ASSUME NEW m \in Sources(p, ids) PROVE m \in Names
  OBVIOUS
<1>1. PICK i \in DOMAIN ids : IF p[ids[i]].kind = "query"
                              THEN \E j \in DOMAIN p[ids[i]].inputs : m = p[p[ids[i]].inputs[j]].ref
                              ELSE m = p[ids[i]].ref
  BY SourcesAre
<1>2. PICK c : c = ids[i] /\ c \in DOMAIN p
  OBVIOUS
<1>3. CASE p[c].kind = "query"
  <2>1. PICK j \in DOMAIN p[c].inputs : m = p[p[c].inputs[j]].ref
    BY <1>1, <1>2, <1>3
  <2>2. DOMAIN p = 1 .. Len(p) /\ Len(p) \in Nat
    <3>1. PICK S : S = NodeType
      OBVIOUS
    <3> QED
      BY <3>1
  <2>3. p[c].inputs[j] \in DOMAIN p
    BY <1>2, <2>2 DEF InputsBefore
  <2> QED
    BY <2>1, <2>3, NodeFields
<1>4. CASE p[c].kind # "query"
  BY <1>1, <1>2, <1>4, NodeFields
<1> QED
  BY <1>3, <1>4

\* Sequences: one element more behind a sequence.
LEMMA CatAppend ==
  ASSUME NEW S, NEW p \in Seq(S), NEW s \in Seq(S), NEW a \in S
  PROVE  p \o Append(s, a) = Append(p \o s, a)
<1>1. Append(s, a) = s \o <<a>> /\ p \o s \in Seq(S) /\ <<a>> \in Seq(S)
  BY AppendIsConcat, ConcatProperties
<1>2. Append(p \o s, a) = (p \o s) \o <<a>>
  BY <1>1, AppendIsConcat
<1>3. p \o (s \o <<a>>) = (p \o s) \o <<a>>
  BY <1>1, ConcatAssociative
<1> QED
  BY <1>1, <1>2, <1>3

\* Sequences: three elements more.
LEMMA CatThree ==
  ASSUME NEW S, NEW p \in Seq(S), NEW a \in S, NEW b \in S, NEW c \in S
  PROVE  p \o <<a, b, c>> = Append(Append(Append(p, a), b), c)
<1>1. <<a, b, c>> = Append(<<a, b>>, c) /\ <<a, b>> = Append(<<a>>, b) /\ <<a>> \in Seq(S) /\ <<a, b>> \in Seq(S)
  OBVIOUS
<1>2. p \o <<a, b>> = Append(p \o <<a>>, b)
  BY <1>1, CatAppend
<1>3. p \o <<a, b, c>> = Append(p \o <<a, b>>, c)
  BY <1>1, CatAppend
<1> QED
  BY <1>2, <1>3, CatOne

\* Sequences: four elements more.
LEMMA CatFour ==
  ASSUME NEW S, NEW p \in Seq(S), NEW a \in S, NEW b \in S, NEW c \in S, NEW d \in S
  PROVE  p \o <<a, b, c, d>> = Append(Append(Append(Append(p, a), b), c), d)
<1>1. <<a, b, c, d>> = Append(<<a, b, c>>, d) /\ <<a, b, c>> \in Seq(S)
  OBVIOUS
<1>2. p \o <<a, b, c, d>> = Append(p \o <<a, b, c>>, d)
  BY <1>1, CatAppend
<1> QED
  BY <1>2, CatThree

\* What a builder finds when it is chosen.
LEMMA Ready ==
  ASSUME GenOK, walking = <<>>
  PROVE  /\ Growing(nodes, UsedNames, stack, LastRoot) /\ nodes \in Seq(NodeType) /\ InputsBefore(nodes)
         /\ Tree(nodes, UsedNames)
         /\ UsedNames = UsedOf(names, exposed_names, Len(forks)) /\ Len(forks) \in 0 .. Len(exposed_names)
         /\ stack \in Seq(Nat) /\ Len(stack) \in Nat
         /\ names \in [NameKinds -> Nat] /\ ExposedOK(exposed_names)
<1>1. /\ Growing(nodes, UsedNames, stack, LastRoot) /\ forks \in Seq(Nat) /\ Len(forks) <= Len(exposed_names)
      /\ names \in [NameKinds -> Nat] /\ ExposedOK(exposed_names)
  BY DEF GenOK
<1>2. Tree(nodes, UsedNames) /\ Waiting(nodes, stack, LastRoot)
  BY <1>1 DEF Growing
<1>3. nodes \in Seq(NodeType) /\ InputsBefore(nodes)
  BY <1>2 DEF Tree, TypedNodes
<1>4. stack \in Seq(Nat) /\ Len(stack) \in Nat
  BY <1>2 DEF Waiting
<1>5. exposed_names \in Seq({"t"} \X Nat)
  BY <1>1 DEF ExposedOK
<1>6. Len(forks) \in Nat /\ Len(exposed_names) \in Nat
  <2>1. PICK S : S = {"t"} \X Nat
    OBVIOUS
  <2> QED
    BY <1>1, <1>5, <2>1
<1>7. Len(forks) \in 0 .. Len(exposed_names)
  BY <1>1, <1>6
<1>8. UsedNames = UsedOf(names, exposed_names, Len(forks))
  BY <1>6 DEF UsedNames, Started
<1> QED
  BY <1>1, <1>2, <1>3, <1>4, <1>7, <1>8

\* A builder puts one node that is only read through.
LEMMA PutsSilent ==
  ASSUME GenOK, NEW builder, NEW n \in Nat, n <= Len(stack), NEW a \in NodeType, Silent(nodes, a),
         \A i \in DOMAIN a.inputs : a.inputs[i] \in DOMAIN nodes /\ a.inputs[i] > LastRoot,
         Puts(builder, n, <<a>>, "table", 0)
  PROVE  GenOK'
<1>1. walking = <<>>
  BY DEF Puts, Makes, Generating
<1>2. /\ Growing(nodes, UsedNames, stack, LastRoot) /\ nodes \in Seq(NodeType)
      /\ UsedNames = UsedOf(names, exposed_names, Len(forks)) /\ names \in [NameKinds -> Nat]
  BY <1>1, Ready
<1>3. Growing(nodes, UsedNames, Rest(n), LastRoot)
  BY <1>2, RestWaits
<1>4. PICK st : st = Rest(n)
  OBVIOUS
<1>5. /\ Growing(Append(nodes, a), UsedNames, st, LastRoot) /\ \A i \in DOMAIN st : st[i] < Len(Append(nodes, a))
      /\ Len(Append(nodes, a)) = Len(nodes) + 1 /\ LastRoot < Len(nodes) + 1
  BY <1>3, <1>4, GrowSilent
<1>6. PICK more, kind, minted : more = <<a>> /\ Len(more) = 1 /\ kind = "table" /\ minted = 0
  OBVIOUS
<1>7. nodes \o more = Append(nodes, a)
  BY <1>2, <1>6, CatOne
<1>8. names' = [names EXCEPT ![kind] = @ + minted] /\ kind \in NameKinds /\ minted \in Nat
  BY <1>6 DEF Puts, Makes, NameKinds
<1>9. UsedNames \subseteq UsedOf(names', exposed_names, Len(forks))
  <2>1. PICK next : next = names' /\ Advanced(names, kind, minted, next)
    BY <1>8 DEF Advanced
  <2>2. UsedOf(names, exposed_names, Len(forks)) \subseteq UsedOf(next, exposed_names, Len(forks))
    BY <1>2, <1>8, <2>1, CountersUse
  <2> QED
    BY <1>2, <2>1, <2>2
<1>10. PICK v : v = UsedNames
  OBVIOUS
<1>11. Puts(builder, n, more, kind, minted)
  BY <1>6
<1> QED
  BY <1>4, <1>5, <1>6, <1>7, <1>8, <1>9, <1>10, <1>11, PutsKeeps

\* The leaf of a tree.
LEMMA BaseTableSourceKeeps ==
  ASSUME GenOK, BaseTableSourceBuilder
  PROVE  GenOK'
<1>1. PICK by, kind, inputs, ref, steps, a :
        /\ a = Node(by, kind, inputs, ref, steps)
        /\ by = "BaseTableSource" /\ kind = "base" /\ inputs = <<>> /\ ref = hidden_base_name /\ steps = <<>>
  OBVIOUS
<1>2. by \in Bys /\ kind \in NodeKinds /\ ref \in Names
  BY <1>1, HiddenIsName DEF BuilderNames, Bys, NodeKinds
<1>3. inputs \in Seq(Nat) /\ steps \in Seq(StepType) /\ DOMAIN inputs = {}
  BY <1>1
<1>4. a \in NodeType /\ a.kind = kind /\ a.inputs = inputs /\ a.ref = ref /\ a.steps = steps
  BY <1>1, <1>2, <1>3, SMT DEF Node, NodeType
<1>5. Silent(nodes, a)
  BY <1>1, <1>3, <1>4 DEF Silent
<1>6. Puts("BaseTableSource", 0, <<a>>, "table", 0)
  BY <1>1 DEF BaseTableSourceBuilder
<1>7. 0 \in Nat /\ 0 <= Len(stack)
  <2>1. walking = <<>>
    BY <1>6 DEF Puts, Makes, Generating
  <2> QED
    BY <2>1, Ready
<1> QED
  BY <1>3, <1>4, <1>5, <1>6, <1>7, PutsSilent

\* The query of one table or view.
LEMMA SelectStarKeeps ==
  ASSUME GenOK, SelectStarQueryBuilder
  PROVE  GenOK'
<1>1. PICK a, by : a = Query(by, Taken(1)) /\ by = "SelectStar"
  OBVIOUS
<1>2. /\ Len(stack) >= 1 /\ Kinds(1)[1] \in {"base", "view", "table"}
      /\ Puts("SelectStar", 1, <<a>>, "table", 0)
  BY <1>1 DEF SelectStarQueryBuilder
<1>3. walking = <<>>
  BY <1>2 DEF Puts, Makes, Generating
<1>4. Growing(nodes, UsedNames, stack, LastRoot) /\ Len(stack) \in Nat
  BY <1>3, Ready
<1>5. 1 \in Nat /\ 1 <= Len(stack)
  BY <1>2, <1>4
<1>6. /\ Taken(1) \in Seq(Nat) /\ DOMAIN Taken(1) = 1 .. 1
      /\ \A i \in 1 .. 1 : Taken(1)[i] \in DOMAIN nodes /\ Taken(1)[i] > LastRoot
      /\ \A i \in 1 .. 1 : Kinds(1)[i] = nodes[Taken(1)[i]].kind
  BY <1>4, <1>5, TakenAre
<1>7. by \in Bys
  BY <1>1 DEF BuilderNames, Bys
<1>8. \A i \in DOMAIN Taken(1) : nodes[Taken(1)[i]].kind \in {"base", "table", "view"}
  BY <1>2, <1>6
<1>9. a \in NodeType /\ a.inputs = Taken(1) /\ Silent(nodes, a)
  BY <1>1, <1>6, <1>7, <1>8, QueryIs
<1> QED
  BY <1>2, <1>5, <1>6, <1>9, PutsSilent

\* The union with the rows that are not there.
LEMMA UnionEmptyRoundTripKeeps ==
  ASSUME GenOK, UnionEmptyRoundTripBuilder
  PROVE  GenOK'
<1>1. PICK a, by : a = Query(by, Taken(2)) /\ by = "UnionAll"
  OBVIOUS
<1>2. /\ Len(stack) >= 2 /\ \A i \in 1 .. 2 : Kinds(2)[i] \in {"view", "table"}
      /\ Puts("UnionAll", 2, <<a>>, "table", 0)
  BY <1>1 DEF UnionEmptyRoundTripBuilder
<1>3. walking = <<>>
  BY <1>2 DEF Puts, Makes, Generating
<1>4. Growing(nodes, UsedNames, stack, LastRoot) /\ Len(stack) \in Nat
  BY <1>3, Ready
<1>5. 2 \in Nat /\ 2 <= Len(stack)
  BY <1>2, <1>4
<1>6. /\ Taken(2) \in Seq(Nat) /\ DOMAIN Taken(2) = 1 .. 2
      /\ \A i \in 1 .. 2 : Taken(2)[i] \in DOMAIN nodes /\ Taken(2)[i] > LastRoot
      /\ \A i \in 1 .. 2 : Kinds(2)[i] = nodes[Taken(2)[i]].kind
  BY <1>4, <1>5, TakenAre
<1>7. by \in Bys
  BY <1>1 DEF BuilderNames, Bys
<1>8. \A i \in DOMAIN Taken(2) : nodes[Taken(2)[i]].kind \in {"base", "table", "view"}
  BY <1>2, <1>6
<1>9. a \in NodeType /\ a.inputs = Taken(2) /\ Silent(nodes, a)
  BY <1>1, <1>6, <1>7, <1>8, QueryIs
<1> QED
  BY <1>2, <1>5, <1>6, <1>9, PutsSilent

\* A query over node t and a table of its rows.
QueryOf(t, a) == a = Query(Part, <<t>>)
TableOf(k, name, ref, b) == b = Node(Part, "table", <<k>>, name, <<Step("create table", name, {ref})>>)
TwoMore(p, a, b, q) == q = Append(Append(p, a), b)
Readable(p, t, low) == t \in DOMAIN p /\ t \in Nat /\ t > low /\ p[t].kind = "table"
IsNew(name, u) == name \in Names /\ name \notin u /\ name # hidden_base_name
Sided(p, t, q, u, st, low, b, name) ==
  /\ Growing(q, u \cup {name}, st, low)
  /\ Len(p) \in Nat /\ Len(q) = Len(p) + 2 /\ DOMAIN q = 1 .. Len(p) + 2 /\ DOMAIN p = 1 .. Len(p)
  /\ q[t] = p[t] /\ q[Len(p) + 2] = b /\ b.kind = "table" /\ b.ref = name
  /\ low < Len(p) + 2
\* A table made beside the tree, of a query of a table in it: it has a name of its own, and nothing waits for it.
LEMMA SideTable ==
  ASSUME NEW p, NEW u, NEW st, NEW low, Growing(p, u, st, low), NEW t, Readable(p, t, low), NEW name, IsNew(name, u),
         NEW a, QueryOf(t, a), NEW b, TableOf(Len(p) + 1, name, p[t].ref, b), NEW q, TwoMore(p, a, b, q)
  PROVE  a \in NodeType /\ b \in NodeType /\ Sided(p, t, q, u, st, low, b, name)
<1>0. /\ t \in DOMAIN p /\ t \in Nat /\ t > low /\ p[t].kind = "table"
      /\ name \in Names /\ name \notin u /\ name # hidden_base_name /\ q = Append(Append(p, a), b)
  BY DEF Readable, IsNew, TwoMore
<1>1. Tree(p, u) /\ p \in Seq(NodeType) /\ InputsBefore(p)
  BY DEF Growing, Tree, TypedNodes
<1>2. Len(p) \in Nat /\ DOMAIN p = 1 .. Len(p) /\ p[t].ref \in Names
  <2>1. PICK S : S = NodeType
    OBVIOUS
  <2>2. Len(p) \in Nat /\ DOMAIN p = 1 .. Len(p)
    BY <1>0, <1>1, <2>1
  <2> QED
    BY <1>0, <1>1, <2>2, NodeFields
<1>3. PICK one, by : one = <<t>> /\ one \in Seq(Nat) /\ DOMAIN one = {1} /\ one[1] = t /\ by = Part
  <2>1. <<t>> \in Seq(Nat) /\ DOMAIN <<t>> = {1} /\ <<t>>[1] = t
    BY <1>0
  <2> QED
    BY <2>1
<1>4. by \in Bys
  BY <1>0, <1>3 DEF Bys
<1>5. \A i \in DOMAIN one : p[one[i]].kind \in {"base", "table", "view"}
  BY <1>0, <1>3
<1>6. a \in NodeType /\ a.inputs = one /\ a.kind = "query" /\ Silent(p, a)
  BY <1>0, <1>3, <1>4, <1>5, QueryIs DEF QueryOf
<1>7. \A i \in DOMAIN a.inputs : a.inputs[i] \in DOMAIN p /\ a.inputs[i] > low
  BY <1>0, <1>3, <1>6
<1>8. PICK r : r = Append(p, a)
  OBVIOUS
<1>9. Growing(r, u, st, low) /\ Len(r) = Len(p) + 1 /\ low < Len(p) + 1
  BY <1>0, <1>6, <1>7, <1>8, GrowSilent
<1>10. IsMore(p, a, r)
  BY <1>0, <1>1, <1>6, <1>8, OneMore
<1>11. /\ DOMAIN r = 1 .. Len(p) + 1 /\ r[Len(p) + 1] = a /\ r \in Seq(NodeType)
       /\ \A x \in DOMAIN p : r[x] = p[x]
  BY <1>0, <1>10 DEF IsMore
<1>12. PICK two, k : two = <<k>> /\ k = Len(p) + 1 /\ two \in Seq(Nat) /\ DOMAIN two = {1} /\ two[1] = k
  <2>1. PICK k : k = Len(p) + 1 /\ k \in Nat
    BY <1>0, <1>2
  <2>2. <<k>> \in Seq(Nat) /\ DOMAIN <<k>> = {1} /\ <<k>>[1] = k
    BY <2>1
  <2> QED
    BY <2>1, <2>2
<1>13. PICK reads, verb : reads = {p[t].ref} /\ verb = "create table" /\ reads \in SUBSET Names /\ verb \in StepVerbs
  BY <1>0, <1>2 DEF StepVerbs
<1>14. PICK steps : steps = <<Step(verb, name, reads)>> /\ IsStep(steps, verb, name, reads)
  BY DEF IsStep
<1>15. p[t].ref \in Sources(r, two)
  <2>1. r[two[1]].kind = "query" /\ r[two[1]].inputs = one
    BY <1>0, <1>6, <1>11, <1>12
  <2>2. 1 \in DOMAIN r[two[1]].inputs /\ r[r[two[1]].inputs[1]].ref = p[t].ref
    BY <1>0, <1>3, <1>11, <2>1
  <2>3. 1 \in DOMAIN two
    BY <1>0, <1>12
  <2> QED
    BY <2>1, <2>2, <2>3, SourcesAre
<1>16. \A i \in DOMAIN two : r[two[i]].kind = "query"
  BY <1>0, <1>6, <1>11, <1>12
<1>17. PICK kind : kind = "table" /\ kind \in ObjectKinds
  BY DEF ObjectKinds
<1>18. IsNode(b, by, kind, two, name, steps)
  BY <1>0, <1>3, <1>12, <1>13, <1>14, <1>17 DEF TableOf, IsNode
<1>19. b \in NodeType /\ b.inputs = two /\ b.kind = "table" /\ b.ref = name /\ Made(r, b)
  <2>1. CreatedFrom(r, two, reads) /\ Creation(kind, verb)
    BY <1>0, <1>13, <1>15, <1>16, <1>17 DEF CreatedFrom, Creation
  <2>2. b \in NodeType /\ b.inputs = two /\ b.kind = kind /\ b.ref = name /\ Made(r, b)
    <3>1. two \in Seq(Nat) /\ verb \in StepVerbs /\ reads \in SUBSET Names /\ IsStep(steps, verb, name, reads)
      BY <1>0, <1>12, <1>13, <1>14
    <3>2. kind \in ObjectKinds
      BY <1>0, <1>17
    <3> QED
      BY <1>0, <1>4, <1>18, <2>1, <3>1, <3>2, CreatedIs
  <2> QED
    BY <1>0, <1>17, <2>2
<1>20. \A i \in DOMAIN b.inputs : b.inputs[i] \in DOMAIN r /\ b.inputs[i] > low
  BY <1>0, <1>2, <1>9, <1>11, <1>12, <1>19
<1>21. Growing(q, u \cup {name}, st, low) /\ Len(q) = Len(r) + 1
  <2>1. q = Append(r, b)
    BY <1>0, <1>8
  <2> QED
    BY <1>0, <1>9, <1>19, <1>20, <2>1, GrowMade
<1>22. IsMore(r, b, q)
  BY <1>0, <1>8, <1>11, <1>19, OneMore
<1>23. DOMAIN q = 1 .. Len(p) + 2 /\ q[Len(p) + 2] = b /\ \A x \in DOMAIN r : q[x] = r[x]
  <2>1. PICK l : l = Len(r) /\ l = Len(p) + 1 /\ l + 1 = Len(p) + 2
    BY <1>0, <1>2, <1>9
  <2> QED
    BY <1>0, <1>22, <2>1 DEF IsMore
<1>24a. low \in Nat
  BY DEF Growing
<1>24. q[t] = p[t] /\ low < Len(p) + 2
  <2>1. t \in DOMAIN r
    BY <1>0, <1>2, <1>11
  <2>2. q[t] = p[t]
    BY <1>0, <1>11, <1>23, <2>1
  <2>3. low < Len(p) + 2
    BY <1>0, <1>2, <1>24a
  <2> QED
    BY <2>2, <2>3
<1>25. Len(q) = Len(p) + 2
  BY <1>0, <1>2, <1>9, <1>21
<1> QED
  BY <1>2, <1>6, <1>19, <1>21, <1>23, <1>24, <1>25 DEF Sided

\* The names that the counters give out next.
LEMMA Minting ==
  ASSUME GenOK, walking = <<>>, NEW kind \in NameKinds, NEW k \in Nat, NEW next,
         Advanced(names, kind, k, next)
  PROVE  /\ UsedNames \subseteq UsedOf(next, exposed_names, Len(forks))
         /\ \A j \in 1 .. k : LET name == <<kind, names[kind] + j>>
                              IN /\ name \in UsedOf(next, exposed_names, Len(forks))
                                 /\ name \in Names /\ name # hidden_base_name /\ name \notin UsedNames
<1>1. /\ UsedNames = UsedOf(names, exposed_names, Len(forks)) /\ Len(forks) \in 0 .. Len(exposed_names)
      /\ names \in [NameKinds -> Nat] /\ ExposedOK(exposed_names)
  BY Ready
<1>2. /\ UsedOf(names, exposed_names, Len(forks)) \subseteq UsedOf(next, exposed_names, Len(forks))
      /\ \A j \in 1 .. k : <<kind, names[kind] + j>> \in UsedOf(next, exposed_names, Len(forks))
  BY <1>1, CountersUse
<1>3. ASSUME NEW j \in 1 .. k
      PROVE  LET name == <<kind, names[kind] + j>>
             IN name \in Names /\ name # hidden_base_name /\ name \notin UsedNames
  <2>1. j \in Nat \ {0}
    OBVIOUS
  <2> QED
    BY <1>1, <2>1, NewNames
<1> QED
  BY <1>1, <1>2, <1>3

\* What the flag join puts: a side table, and the join of it with the table it was made of.
FlagNodes(t, name, more) ==
  more = <<Query(Part, <<t>>),
           Node(Part, "table", <<Len(nodes) + 1>>, name, <<Step("create table", name, {nodes[t].ref})>>),
           Query("FlagTableJoin", <<t, Len(nodes) + 2>>)>>
JoinOf(t, k, c) == c = Query("FlagTableJoin", <<t, k>>)

\* The three nodes of the flag table join.
LEMMA FlagNodesAre ==
  ASSUME NEW t, NEW name, NEW more, FlagNodes(t, name, more)
  PROVE  \E a, b, c : /\ QueryOf(t, a) /\ TableOf(Len(nodes) + 1, name, nodes[t].ref, b)
                      /\ JoinOf(t, Len(nodes) + 2, c) /\ more = <<a, b, c>>
BY Zenon DEF FlagNodes, QueryOf, TableOf, JoinOf

\* The join with a flag table.
LEMMA FlagTableJoinKeeps ==
  ASSUME GenOK, FlagTableJoinQueryBuilder
  PROVE  GenOK'
<1>1. PICK t, name, more : t = Taken(1)[1] /\ name = mint("table", names) /\ FlagNodes(t, name, more)
  BY Zenon DEF FlagNodes
<1>2. /\ Len(stack) >= 1 /\ Kinds(1) = <<"table">>
      /\ Puts("FlagTableJoin", 1, more, "table", 1)
  BY <1>1, Zenon DEF FlagTableJoinQueryBuilder, FlagNodes
<1>3. walking = <<>> /\ names' = [names EXCEPT !["table"] = @ + 1]
  BY <1>2 DEF Puts, Makes, Generating
<1>4. Growing(nodes, UsedNames, stack, LastRoot) /\ nodes \in Seq(NodeType)
  BY <1>3, Ready
<1>5. /\ t \in DOMAIN nodes /\ t > LastRoot /\ t \in Nat /\ nodes[t].kind = "table"
      /\ Growing(nodes, UsedNames, Rest(1), LastRoot)
  <2>1. PICK z \in DOMAIN nodes : /\ Taken(1) = <<z>> /\ z > LastRoot /\ z \in Nat
                                  /\ Growing(nodes, UsedNames, Rest(1), LastRoot)
                                  /\ Kinds(1) = <<nodes[z].kind>>
    BY <1>2, <1>4, TopOne
  <2>2. t = z /\ nodes[z].kind = "table"
    BY <1>1, <1>2, <2>1
  <2> QED
    BY <2>1, <2>2
<1>6. PICK kind, k, next : /\ kind = "table" /\ kind \in NameKinds /\ k = 1 /\ k \in Nat
                           /\ next = names' /\ Advanced(names, kind, k, next)
  BY <1>3 DEF NameKinds, Advanced
<1>7. name = <<kind, names[kind] + k>> /\ k \in 1 .. k
  BY <1>1, <1>6 DEF mint
<1>8. /\ UsedNames \subseteq UsedOf(next, exposed_names, Len(forks))
      /\ name \in UsedOf(next, exposed_names, Len(forks))
      /\ name \in Names /\ name # hidden_base_name /\ name \notin UsedNames
  BY <1>3, <1>6, <1>7, Minting
<1>9. PICK a, b, c : /\ QueryOf(t, a) /\ TableOf(Len(nodes) + 1, name, nodes[t].ref, b)
                     /\ JoinOf(t, Len(nodes) + 2, c) /\ more = <<a, b, c>>
  BY <1>1, FlagNodesAre
<1>10. PICK q, v, st, low : q = Append(Append(nodes, a), b) /\ v = UsedNames \cup {name} /\ st = Rest(1) /\ low = LastRoot
  OBVIOUS
<1>11. /\ a \in NodeType /\ b \in NodeType /\ Growing(q, v, st, low)
       /\ Len(nodes) \in Nat /\ Len(q) = Len(nodes) + 2 /\ DOMAIN q = 1 .. Len(nodes) + 2 /\ DOMAIN nodes = 1 .. Len(nodes)
       /\ q[t] = nodes[t] /\ q[Len(nodes) + 2] = b /\ b.kind = "table" /\ low < Len(nodes) + 2
  <2>1. QueryOf(t, a) /\ TableOf(Len(nodes) + 1, name, nodes[t].ref, b)
    BY <1>9
  <2>2. /\ a \in NodeType /\ b \in NodeType /\ Growing(q, UsedNames \cup {name}, Rest(1), LastRoot)
        /\ Len(nodes) \in Nat /\ Len(q) = Len(nodes) + 2 /\ DOMAIN q = 1 .. Len(nodes) + 2
        /\ DOMAIN nodes = 1 .. Len(nodes)
        /\ q[t] = nodes[t] /\ q[Len(nodes) + 2] = b /\ b.kind = "table" /\ LastRoot < Len(nodes) + 2
    <3>1. TwoMore(nodes, a, b, q) /\ Readable(nodes, t, LastRoot) /\ IsNew(name, UsedNames)
      BY <1>5, <1>8, <1>10 DEF TwoMore, Readable, IsNew
    <3>2. a \in NodeType /\ b \in NodeType /\ Sided(nodes, t, q, UsedNames, Rest(1), LastRoot, b, name)
      BY <1>5, <2>1, <3>1, SideTable
    <3> QED
      BY <3>2 DEF Sided
  <2> QED
    BY <1>10, <2>2
<1>12. PICK both, by : /\ both = <<t, Len(nodes) + 2>> /\ both \in Seq(Nat) /\ DOMAIN both = {1, 2}
                       /\ both[1] = t /\ both[2] = Len(nodes) + 2 /\ by = "FlagTableJoin"
  <2>1. PICK k2 : k2 = Len(nodes) + 2 /\ k2 \in Nat
    BY <1>11
  <2>2. <<t, k2>> \in Seq(Nat)
    BY <1>5, <2>1
  <2>3. DOMAIN <<t, k2>> = {1, 2} /\ <<t, k2>>[1] = t /\ <<t, k2>>[2] = k2
    BY Pairs
  <2> QED
    BY <2>1, <2>2, <2>3
<1>13. \A i \in DOMAIN both : q[both[i]].kind \in {"base", "table", "view"} /\ both[i] \in DOMAIN q /\ both[i] > low
  <2>1. t \in DOMAIN q /\ Len(nodes) + 2 \in DOMAIN q /\ Len(nodes) + 2 > low
    <3>1. low \in Nat
      BY <1>11 DEF Growing
    <3> QED
      BY <1>5, <1>11, <3>1
  <2> QED
    BY <1>5, <1>10, <1>11, <1>12, <2>1
<1>14. by \in Bys
  BY <1>12 DEF BuilderNames, Bys
<1>15. c = Query(by, both)
  BY <1>9, <1>12 DEF JoinOf
<1>16. c \in NodeType /\ c.inputs = both /\ Silent(q, c)
  BY <1>12, <1>13, <1>14, <1>15, QueryIs
<1>17. PICK r : r = Append(q, c)
  OBVIOUS
<1>18. /\ Growing(r, v, st, low) /\ \A i \in DOMAIN st : st[i] < Len(r)
       /\ Len(r) = Len(q) + 1 /\ low < Len(q) + 1
  BY <1>11, <1>13, <1>16, <1>17, GrowSilent
<1>19. nodes \o more = r /\ Len(more) = 3
  <2>1. nodes \o <<a, b, c>> = r
    BY <1>4, <1>10, <1>11, <1>16, <1>17, CatThree
  <2>2. Len(<<a, b, c>>) = 3
    OBVIOUS
  <2> QED
    BY <1>9, <2>1, <2>2
<1>20. Len(r) = Len(nodes) + Len(more) /\ low < Len(r)
  BY <1>11, <1>18, <1>19
<1>21. v \subseteq UsedOf(names', exposed_names, Len(forks))
  BY <1>6, <1>8, <1>10
<1>22. Puts("FlagTableJoin", 1, more, kind, k) /\ k \in Nat
  BY <1>2, <1>6
<1>23. /\ Growing(nodes \o more, v, Rest(1), LastRoot) /\ LastRoot < Len(nodes \o more)
       /\ Len(nodes \o more) = Len(nodes) + Len(more)
       /\ \A i \in DOMAIN Rest(1) : Rest(1)[i] < Len(nodes \o more)
  BY <1>10, <1>18, <1>19, <1>20
<1>24. kind \in NameKinds
  BY <1>6
<1> QED
  BY <1>21, <1>22, <1>23, <1>24, PutsKeeps

\* What the explosion puts: a side table of copies, their union, and the channel made of it.
UnionIn(t, k, rowcount, ins) == ins = <<t>> \o [copy \in 1 .. rowcount - 1 |-> k]
UnionOf(t, k, rowcount, c) == c = Query(Part, <<t>> \o [copy \in 1 .. rowcount - 1 |-> k])
ChannelReads(ref, throw, rowcount) == {ref} \cup {throw : copy \in 2 .. rowcount}
ChannelOf(k, both, reads, d) == d = Node("TagExplode", "channel", <<k>>, both, <<Step("create table", both, reads)>>)
ExplodeNodes(t, throw, both, rowcount, more) ==
  more = <<Query(Part, <<t>>),
           Node(Part, "table", <<Len(nodes) + 1>>, throw, <<Step("create table", throw, {nodes[t].ref})>>),
           Query(Part, <<t>> \o [copy \in 1 .. rowcount - 1 |-> Len(nodes) + 2]),
           Node("TagExplode", "channel", <<Len(nodes) + 3>>, both,
                <<Step("create table", both, ChannelReads(nodes[t].ref, throw, rowcount))>>)>>

\* The four nodes of an exploded tag channel.
LEMMA ExplodeNodesAre ==
  ASSUME NEW t, NEW throw, NEW both, NEW rowcount, NEW more, ExplodeNodes(t, throw, both, rowcount, more)
  PROVE  \E a, b, c, d : /\ QueryOf(t, a) /\ TableOf(Len(nodes) + 1, throw, nodes[t].ref, b)
                         /\ UnionOf(t, Len(nodes) + 2, rowcount, c)
                         /\ ChannelOf(Len(nodes) + 3, both, ChannelReads(nodes[t].ref, throw, rowcount), d)
                         /\ more = <<a, b, c, d>>
BY Zenon DEF ExplodeNodes, QueryOf, TableOf, UnionOf, ChannelOf

\* The inputs of the union of an exploded channel.
LEMMA UnionInputs ==
  ASSUME NEW t \in Nat, NEW k \in Nat, NEW rowcount \in {1, 3}, NEW ins, UnionIn(t, k, rowcount, ins)
  PROVE  /\ ins \in Seq(Nat) /\ 1 \in DOMAIN ins /\ ins[1] = t
         /\ \A i \in DOMAIN ins : ins[i] = t \/ ins[i] = k
         /\ rowcount = 3 => 2 \in DOMAIN ins /\ ins[2] = k
<1>1. PICK n, copies : n = rowcount - 1 /\ copies = [copy \in 1 .. n |-> k]
  OBVIOUS
<1>2. n \in {0, 2} /\ (rowcount = 3 => n = 2)
  BY <1>1
<1>3. copies \in Seq(Nat) /\ Len(copies) = n /\ \A i \in 1 .. n : copies[i] = k
  BY <1>1, <1>2
<1>4. PICK one : one = <<t>> /\ one \in Seq(Nat) /\ Len(one) = 1 /\ one[1] = t
  <2>1. <<t>> \in Seq(Nat) /\ Len(<<t>>) = 1 /\ <<t>>[1] = t
    OBVIOUS
  <2> QED
    BY <2>1
<1>5. ins = one \o copies
  BY <1>1, <1>4 DEF UnionIn
<1>6. ins \in Seq(Nat) /\ Len(ins) = 1 + n /\ ins[1] = t /\ \A i \in 2 .. 1 + n : ins[i] = copies[i - 1]
  BY <1>2, <1>3, <1>4, <1>5
<1>7. DOMAIN ins = 1 .. 1 + n
  BY <1>6
<1>8. ASSUME NEW i \in 2 .. 1 + n PROVE ins[i] = k
  <2>1. i - 1 \in 1 .. n
    BY <1>2
  <2> QED
    BY <1>3, <1>6, <2>1
<1>9. \A i \in DOMAIN ins : i = 1 \/ i \in 2 .. 1 + n
  BY <1>2, <1>7
<1>10. 1 \in DOMAIN ins /\ (rowcount = 3 => 2 \in DOMAIN ins /\ 2 \in 2 .. 1 + n)
  BY <1>2, <1>7
<1> QED
  BY <1>6, <1>8, <1>9, <1>10

\* The union and the channel above a side table b of t.
Rowcounts == {1, 3}
\* An exploded channel fits: a table beside the tree, the union of both, and the channel made of it.
LEMMA GrowExplode ==
  ASSUME NEW p, NEW u, NEW st, NEW low, Growing(p, u, st, low), NEW t, Readable(p, t, low),
         NEW throw, IsNew(throw, u), NEW both, IsNew(both, u), both # throw, NEW rowcount \in Rowcounts,
         NEW a, QueryOf(t, a), NEW b, TableOf(Len(p) + 1, throw, p[t].ref, b),
         NEW c, UnionOf(t, Len(p) + 2, rowcount, c),
         NEW d, ChannelOf(Len(p) + 3, both, ChannelReads(p[t].ref, throw, rowcount), d),
         NEW q, TwoMore(p, a, b, q), NEW r, TwoMore(q, c, d, r)
  PROVE  /\ a \in NodeType /\ b \in NodeType /\ c \in NodeType /\ d \in NodeType
         /\ Growing(r, u \cup {throw, both}, st, low) /\ Len(r) = Len(p) + 4 /\ low < Len(r)
         /\ \A i \in DOMAIN st : st[i] < Len(r)
<1>1. a \in NodeType /\ b \in NodeType /\ Sided(p, t, q, u, st, low, b, throw)
  BY SideTable
<1>2. PICK v : v = u \cup {throw}
  OBVIOUS
<1>3. /\ Growing(q, v, st, low) /\ Len(p) \in Nat /\ Len(q) = Len(p) + 2 /\ DOMAIN q = 1 .. Len(p) + 2
      /\ DOMAIN p = 1 .. Len(p) /\ q[t] = p[t] /\ q[Len(p) + 2] = b /\ b.kind = "table" /\ b.ref = throw
      /\ low < Len(p) + 2 /\ low \in Nat
  BY <1>1, <1>2 DEF Sided, Growing
<1>4. t \in DOMAIN p /\ t \in Nat /\ t > low /\ p[t].kind = "table" /\ both \in Names /\ throw \in Names
  BY DEF Readable, IsNew
<1>5. both \notin v /\ both # hidden_base_name
  BY <1>2 DEF IsNew
<1>6. Tree(q, v) /\ q \in Seq(NodeType) /\ InputsBefore(q)
  BY <1>3 DEF Growing, Tree, TypedNodes
<1>7. PICK k, ins, by : k = Len(p) + 2 /\ k \in Nat /\ UnionIn(t, k, rowcount, ins) /\ by = Part
  <2>1. PICK k : k = Len(p) + 2 /\ k \in Nat
    BY <1>3
  <2>2. PICK ins : UnionIn(t, k, rowcount, ins)
    BY DEF UnionIn
  <2> QED
    BY <2>1, <2>2
<1>8. /\ ins \in Seq(Nat) /\ 1 \in DOMAIN ins /\ ins[1] = t
      /\ \A i \in DOMAIN ins : ins[i] = t \/ ins[i] = k
      /\ rowcount = 3 => 2 \in DOMAIN ins /\ ins[2] = k
  BY <1>4, <1>7, UnionInputs DEF Rowcounts
<1>9. \A i \in DOMAIN ins : q[ins[i]].kind \in {"base", "table", "view"} /\ ins[i] \in DOMAIN q /\ ins[i] > low
  <2>1. t \in DOMAIN q /\ k \in DOMAIN q /\ k > low
    BY <1>3, <1>4, <1>7
  <2> QED
    BY <1>3, <1>4, <1>7, <1>8, <2>1
<1>10. by \in Bys /\ c = Query(by, ins)
  BY <1>7 DEF Bys, UnionOf, UnionIn
<1>11. c \in NodeType /\ c.inputs = ins /\ c.kind = "query" /\ Silent(q, c)
  BY <1>8, <1>9, <1>10, QueryIs
<1>12. PICK s : s = Append(q, c)
  OBVIOUS
<1>13. Growing(s, v, st, low) /\ Len(s) = Len(q) + 1 /\ low < Len(q) + 1
  BY <1>3, <1>9, <1>11, <1>12, GrowSilent
<1>14. IsMore(q, c, s)
  BY <1>6, <1>11, <1>12, OneMore
<1>15. PICK l : l = Len(p) + 3 /\ l \in Nat /\ l = Len(q) + 1
  BY <1>3
<1>16. DOMAIN s = 1 .. l /\ s[l] = c /\ s \in Seq(NodeType) /\ \A x \in DOMAIN q : s[x] = q[x]
  BY <1>14, <1>15 DEF IsMore
<1>17. PICK three : three = <<l>> /\ three \in Seq(Nat) /\ DOMAIN three = {1} /\ three[1] = l
  <2>1. <<l>> \in Seq(Nat) /\ DOMAIN <<l>> = {1} /\ <<l>>[1] = l
    BY <1>15
  <2> QED
    BY <2>1
<1>18. PICK reads : reads = ChannelReads(p[t].ref, throw, rowcount)
  OBVIOUS
<1>19. reads \subseteq Sources(s, three) /\ reads \in SUBSET Names
  <2>1. s[three[1]].kind = "query" /\ s[three[1]].inputs = ins /\ 1 \in DOMAIN three
    BY <1>11, <1>16, <1>17
  <2>2. s[ins[1]].ref = p[t].ref /\ (rowcount = 3 => s[ins[2]].ref = throw)
    <3>1. t \in DOMAIN q /\ k \in DOMAIN q
      BY <1>3, <1>4, <1>7
    <3> QED
      BY <1>3, <1>7, <1>8, <1>16, <3>1
  <2>3. p[t].ref \in Sources(s, three)
    BY <1>8, <2>1, <2>2, SourcesAre
  <2>4. rowcount = 3 => throw \in Sources(s, three)
    BY <1>8, <2>1, <2>2, SourcesAre
  <2>5. \A m \in reads : m = p[t].ref \/ (rowcount = 3 /\ m = throw)
    BY <1>18 DEF ChannelReads, Rowcounts
  <2>6. p[t].ref \in Names
    <3>1. t \in DOMAIN q
      BY <1>3, <1>4
    <3> QED
      BY <1>3, <1>6, <3>1, NodeFields
  <2> QED
    BY <1>4, <2>3, <2>4, <2>5, <2>6
<1>20. \A i \in DOMAIN three : s[three[i]].kind = "query" /\ three[i] \in DOMAIN s /\ three[i] > low
  BY <1>3, <1>11, <1>13, <1>15, <1>16, <1>17
<1>21. PICK kind, verb, made : /\ kind = "channel" /\ kind \in ObjectKinds /\ verb = "create table" /\ verb \in StepVerbs
                               /\ made = "TagExplode" /\ made \in Bys
  BY DEF ObjectKinds, StepVerbs, Bys, BuilderNames
<1>22. CreatedFrom(s, three, reads) /\ Creation(kind, verb)
  BY <1>19, <1>20, <1>21 DEF CreatedFrom, Creation
<1>23. PICK steps : steps = <<Step(verb, both, reads)>> /\ IsStep(steps, verb, both, reads)
  BY DEF IsStep
<1>24. IsNode(d, made, kind, three, both, steps)
  BY <1>15, <1>17, <1>18, <1>21, <1>23 DEF IsNode, ChannelOf
<1>25. d \in NodeType /\ d.inputs = three /\ d.ref = both /\ Made(s, d)
  <2>1. three \in Seq(Nat) /\ IsStep(steps, verb, both, reads) /\ kind \in ObjectKinds /\ verb \in StepVerbs /\ made \in Bys
    BY <1>17, <1>21, <1>23
  <2> QED
    BY <1>4, <1>19, <1>22, <1>24, <2>1, CreatedIs
<1>26. Growing(r, v \cup {both}, st, low) /\ Len(r) = Len(s) + 1 /\ low < Len(s) + 1 /\ \A i \in DOMAIN st : st[i] < Len(r)
  <2>1. r = Append(s, d)
    BY <1>12 DEF TwoMore
  <2>2. \A i \in DOMAIN d.inputs : d.inputs[i] \in DOMAIN s /\ d.inputs[i] > low
    BY <1>20, <1>25
  <2> QED
    BY <1>5, <1>13, <1>25, <2>1, <2>2, GrowMade
<1>27. Len(r) = Len(p) + 4 /\ low < Len(r)
  BY <1>3, <1>13, <1>26
<1>28. v \cup {both} = u \cup {throw, both}
  BY <1>2
<1> QED
  BY <1>1, <1>11, <1>25, <1>26, <1>27, <1>28

\* The channel with the rows of a table and of the throwaway table.
LEMMA TagExplodeKeeps ==
  ASSUME GenOK, TagExplodeExpansionBuilder
  PROVE  GenOK'
<1>1. PICK t, throw, both : t = Taken(1)[1] /\ throw = mint("table", names) /\ both = <<"table", names["table"] + 2>>
  OBVIOUS
<1>2. PICK rowcount, more :
        /\ rowcount \in {1, 3}
        /\ ExplodeNodes(t, throw, both, rowcount, more) /\ Puts("TagExplode", 1, more, "table", 2)
  <2>1. PICK rowcount \in {1, 3} :
          \E more : ExplodeNodes(t, throw, both, rowcount, more) /\ Puts("TagExplode", 1, more, "table", 2)
    BY <1>1, Zenon DEF TagExplodeExpansionBuilder, ExplodeNodes, ChannelReads
  <2>2. PICK more : ExplodeNodes(t, throw, both, rowcount, more) /\ Puts("TagExplode", 1, more, "table", 2)
    BY <2>1, Zenon
  <2> QED
    BY <2>2
<1>3. Len(stack) >= 1 /\ Kinds(1) = <<"table">>
  BY Zenon DEF TagExplodeExpansionBuilder
<1>4. walking = <<>> /\ names' = [names EXCEPT !["table"] = @ + 2]
  BY <1>2 DEF Puts, Makes, Generating
<1>5. Growing(nodes, UsedNames, stack, LastRoot) /\ nodes \in Seq(NodeType) /\ names \in [NameKinds -> Nat]
  BY <1>4, Ready
<1>6. Readable(nodes, t, LastRoot) /\ Growing(nodes, UsedNames, Rest(1), LastRoot)
  <2>1. PICK z \in DOMAIN nodes : /\ Taken(1) = <<z>> /\ z > LastRoot /\ z \in Nat
                                  /\ Growing(nodes, UsedNames, Rest(1), LastRoot)
                                  /\ Kinds(1) = <<nodes[z].kind>>
    BY <1>3, <1>5, TopOne
  <2>2. t = z /\ nodes[z].kind = "table"
    BY <1>1, <1>3, <2>1
  <2> QED
    BY <2>1, <2>2 DEF Readable
<1>7. PICK kind, k, next : /\ kind = "table" /\ kind \in NameKinds /\ k = 2 /\ k \in Nat
                           /\ next = names' /\ Advanced(names, kind, k, next)
  BY <1>4 DEF NameKinds, Advanced
<1>8. /\ throw = <<kind, names[kind] + 1>> /\ 1 \in 1 .. k /\ both = <<kind, names[kind] + 2>> /\ 2 \in 1 .. k
      /\ names[kind] \in Nat
  BY <1>1, <1>5, <1>7 DEF mint
<1>9. both # throw
  BY <1>8
<1>10. /\ UsedNames \subseteq UsedOf(next, exposed_names, Len(forks))
       /\ \A j \in 1 .. k : LET name == <<kind, names[kind] + j>>
                            IN /\ name \in UsedOf(next, exposed_names, Len(forks))
                               /\ name \in Names /\ name # hidden_base_name /\ name \notin UsedNames
  BY <1>4, <1>7, Minting
<1>11. /\ throw \in UsedOf(next, exposed_names, Len(forks))
       /\ throw \in Names /\ throw # hidden_base_name /\ throw \notin UsedNames
  BY <1>8, <1>10
<1>12. /\ both \in UsedOf(next, exposed_names, Len(forks))
       /\ both \in Names /\ both # hidden_base_name /\ both \notin UsedNames
  BY <1>8, <1>10
<1>13. PICK a, b, c, d : /\ QueryOf(t, a) /\ TableOf(Len(nodes) + 1, throw, nodes[t].ref, b)
                         /\ UnionOf(t, Len(nodes) + 2, rowcount, c)
                         /\ ChannelOf(Len(nodes) + 3, both, ChannelReads(nodes[t].ref, throw, rowcount), d)
                         /\ more = <<a, b, c, d>>
  BY <1>2, ExplodeNodesAre
<1>14. PICK q, r : q = Append(Append(nodes, a), b) /\ r = Append(Append(q, c), d)
  OBVIOUS
<1>15. /\ a \in NodeType /\ b \in NodeType /\ c \in NodeType /\ d \in NodeType
       /\ Growing(r, UsedNames \cup {throw, both}, Rest(1), LastRoot) /\ Len(r) = Len(nodes) + 4 /\ LastRoot < Len(r)
       /\ \A i \in DOMAIN Rest(1) : Rest(1)[i] < Len(r)
  <2>1. TwoMore(nodes, a, b, q) /\ TwoMore(q, c, d, r) /\ IsNew(throw, UsedNames) /\ IsNew(both, UsedNames)
    BY <1>11, <1>12, <1>14 DEF TwoMore, IsNew
  <2>2. /\ QueryOf(t, a) /\ TableOf(Len(nodes) + 1, throw, nodes[t].ref, b)
        /\ UnionOf(t, Len(nodes) + 2, rowcount, c)
        /\ ChannelOf(Len(nodes) + 3, both, ChannelReads(nodes[t].ref, throw, rowcount), d)
    BY <1>13
  <2>3. rowcount \in Rowcounts
    BY <1>2 DEF Rowcounts
  <2> QED
    BY <1>6, <1>9, <2>1, <2>2, <2>3, GrowExplode
<1>16. nodes \o more = r /\ Len(more) = 4
  <2>1. nodes \o <<a, b, c, d>> = r
    BY <1>5, <1>14, <1>15, CatFour
  <2>2. Len(<<a, b, c, d>>) = 4
    OBVIOUS
  <2> QED
    BY <1>13, <2>1, <2>2
<1>17. PICK v : v = UsedNames \cup {throw, both}
  OBVIOUS
<1>18. v \subseteq UsedOf(names', exposed_names, Len(forks))
  BY <1>7, <1>10, <1>11, <1>12, <1>17
<1>19. Puts("TagExplode", 1, more, kind, k) /\ k \in Nat /\ kind \in NameKinds
  BY <1>2, <1>7
<1>20. /\ Growing(nodes \o more, v, Rest(1), LastRoot) /\ LastRoot < Len(nodes \o more)
       /\ Len(nodes \o more) = Len(nodes) + Len(more)
       /\ \A i \in DOMAIN Rest(1) : Rest(1)[i] < Len(nodes \o more)
  BY <1>15, <1>16, <1>17
<1> QED
  BY <1>18, <1>19, <1>20, PutsKeeps

\* The channel with extra rows.
LEMMA TagInsertExtrasKeeps ==
  ASSUME GenOK, TagInsertExtrasExpansionBuilder
  PROVE  GenOK'
<1>1. PICK table, verb, steps, a :
        /\ table = nodes[Taken(1)[1]].ref /\ verb = "insert" /\ steps = <<Step(verb, table, {table})>>
        /\ a = Node("TagInsertExtras", "channel", Taken(1), table, steps)
  OBVIOUS
<1>2. Len(stack) >= 1 /\ Kinds(1) = <<"channel">> /\ Puts("TagInsertExtras", 1, <<a>>, "table", 0)
  BY <1>1, Zenon DEF TagInsertExtrasExpansionBuilder
<1>3. walking = <<>> /\ names' = [names EXCEPT !["table"] = @ + 0]
  BY <1>2 DEF Puts, Makes, Generating
<1>4. /\ Growing(nodes, UsedNames, stack, LastRoot) /\ nodes \in Seq(NodeType) /\ Tree(nodes, UsedNames)
      /\ names \in [NameKinds -> Nat] /\ UsedNames = UsedOf(names, exposed_names, Len(forks))
  BY <1>3, Ready
<1>5. PICK c \in DOMAIN nodes : /\ Taken(1) = <<c>> /\ c > LastRoot /\ c \in Nat
                                /\ Growing(nodes, UsedNames, Rest(1), LastRoot) /\ \A i \in DOMAIN Rest(1) : Rest(1)[i] # c
                                /\ nodes[c].kind = "channel" => LastWriter(nodes, c)
                                /\ Kinds(1) = <<nodes[c].kind>>
  BY <1>2, <1>4, TopOne
<1>6. nodes[c].kind = "channel" /\ LastWriter(nodes, c) /\ table = nodes[c].ref
  BY <1>1, <1>2, <1>5
<1>7. nodes[c].ref \in Names
  BY <1>4, NodeFields
<1>8. PICK reads : reads = {table} /\ reads \in SUBSET Names
  BY <1>6, <1>7
<1>9. IsStep(steps, verb, table, reads) /\ verb \in StepVerbs /\ table \in Names
  BY <1>1, <1>6, <1>7, <1>8 DEF IsStep, StepVerbs
<1>10. steps \in Seq(StepType)
  BY <1>8, <1>9, OneStep
<1>11. PICK by, kind, ins : by = "TagInsertExtras" /\ kind = "channel" /\ ins = <<c>> /\ by \in Bys /\ kind \in NodeKinds
  BY DEF Bys, BuilderNames, NodeKinds
<1>12. ins \in Seq(Nat)
  BY <1>5, <1>11
<1>13. a = Node(by, kind, ins, table, steps)
  BY <1>1, <1>5, <1>11
<1>14. a \in NodeType /\ a.kind = kind /\ a.inputs = ins /\ a.ref = table /\ a.steps = steps
  <2>1. IsNode(a, by, kind, ins, table, steps)
    BY <1>13 DEF IsNode
  <2>2. by \in Bys /\ kind \in NodeKinds /\ ins \in Seq(Nat) /\ table \in Names
    BY <1>9, <1>11, <1>12
  <2> QED
    BY <1>10, <2>1, <2>2, FieldsAre
<1>15. a.kind = "channel" /\ a.inputs = <<c>> /\ a.ref = nodes[c].ref /\ a.steps = <<Step("insert", a.ref, {a.ref})>>
  BY <1>1, <1>6, <1>11, <1>14
<1>16. Tree(Append(nodes, a), UsedNames)
  BY <1>4, <1>6, <1>14, <1>15, AddGrown
<1>17. Grown(Append(nodes, a), a)
  <2>1. IsMore(nodes, a, Append(nodes, a))
    BY <1>4, <1>14, OneMore
  <2>2. Append(nodes, a)[c] = nodes[c] /\ c \in DOMAIN Append(nodes, a)
    BY <2>1 DEF IsMore
  <2> QED
    BY <1>6, <1>15, <2>2 DEF Grown
<1>18. PICK st : st = Rest(1)
  OBVIOUS
<1>19. /\ Growing(Append(nodes, a), UsedNames, st, LastRoot) /\ \A i \in DOMAIN st : st[i] < Len(Append(nodes, a))
       /\ Len(Append(nodes, a)) = Len(nodes) + 1 /\ LastRoot < Len(nodes) + 1
  BY <1>5, <1>6, <1>14, <1>15, <1>16, <1>17, <1>18, GrowChannel
<1>20. PICK more, kd, minted : more = <<a>> /\ Len(more) = 1 /\ kd = "table" /\ minted = 0
  <2>1. Len(<<a>>) = 1
    OBVIOUS
  <2> QED
    BY <2>1
<1>21. nodes \o more = Append(nodes, a)
  BY <1>4, <1>14, <1>20, CatOne
<1>22. kd \in NameKinds /\ minted \in Nat /\ Puts("TagInsertExtras", 1, more, kd, minted)
  BY <1>2, <1>20 DEF NameKinds
<1>23. UsedNames \subseteq UsedOf(names', exposed_names, Len(forks))
  <2>1. PICK next : next = names' /\ Advanced(names, kd, minted, next)
    BY <1>3, <1>20 DEF Advanced
  <2> QED
    BY <1>3, <1>22, <2>1, Minting
<1>24. PICK v : v = UsedNames
  OBVIOUS
<1> QED
  BY <1>18, <1>19, <1>20, <1>21, <1>22, <1>23, <1>24, PutsKeeps

-----------------------------------------------------------------------------
(* Builders of objects *)

\* A made node of the newest subtree fits under any new name.
LEMMA MadeFits ==
  ASSUME GenOK, walking = <<>>, Len(stack) >= 1, NEW a \in NodeType, Made(nodes, a), a.inputs = Taken(1),
         NEW made, NEW name, made[name] = a, a.ref = name, IsNew(name, UsedNames)
  PROVE  Fitting(1, made, name)
<1>1. Growing(nodes, UsedNames, stack, LastRoot) /\ nodes \in Seq(NodeType) /\ Len(stack) \in Nat
  BY Ready
<1>2. 1 \in Nat /\ 1 <= Len(stack)
  BY <1>1
<1>3. /\ DOMAIN Taken(1) = 1 .. 1 /\ \A i \in 1 .. 1 : Taken(1)[i] \in DOMAIN nodes /\ Taken(1)[i] > LastRoot
  BY <1>1, <1>2, TakenAre
<1>4. \A i \in DOMAIN a.inputs : a.inputs[i] \in DOMAIN nodes /\ a.inputs[i] > LastRoot
  BY <1>3
<1>5. Growing(nodes, UsedNames, Rest(1), LastRoot)
  BY <1>1, <1>2, RestWaits
<1>6. PICK st : st = Rest(1)
  OBVIOUS
<1>7. a.ref \notin UsedNames /\ a.ref # hidden_base_name
  BY DEF IsNew
<1>8. /\ Growing(Append(nodes, a), UsedNames \cup {a.ref}, st, LastRoot)
      /\ \A i \in DOMAIN st : st[i] < Len(Append(nodes, a))
      /\ Len(Append(nodes, a)) = Len(nodes) + 1 /\ LastRoot < Len(nodes) + 1
  BY <1>4, <1>5, <1>6, <1>7, GrowMade
<1>9. nodes \o <<a>> = Append(nodes, a)
  BY <1>1, CatOne
<1> QED
  BY <1>6, <1>8, <1>9 DEF Fitting

\* The queries on top of the stack, and what they read.
LEMMA QueryOnTop ==
  ASSUME GenOK, walking = <<>>, Len(stack) >= 1, Kinds(1) = <<"query">>
  PROVE  /\ Taken(1) \in Seq(Nat) /\ CreatedFrom(nodes, Taken(1), Sources(nodes, Taken(1)))
         /\ Sources(nodes, Taken(1)) \in SUBSET Names
<1>1. Growing(nodes, UsedNames, stack, LastRoot) /\ nodes \in Seq(NodeType) /\ Len(stack) \in Nat /\ InputsBefore(nodes)
  BY Ready
<1>2. 1 \in Nat /\ 1 <= Len(stack)
  BY <1>1
<1>3. /\ Taken(1) \in Seq(Nat) /\ DOMAIN Taken(1) = 1 .. 1 /\ \A i \in 1 .. 1 : Taken(1)[i] \in DOMAIN nodes
      /\ \A i \in 1 .. 1 : Kinds(1)[i] = nodes[Taken(1)[i]].kind
  BY <1>1, <1>2, TakenAre
<1>4. Kinds(1)[1] = "query"
  OBVIOUS
<1>5. \A i \in DOMAIN Taken(1) : nodes[Taken(1)[i]].kind = "query"
  BY <1>3, <1>4
<1>6. Sources(nodes, Taken(1)) \subseteq Names
  BY <1>1, <1>3, RefsAreNames
<1> QED
  BY <1>3, <1>5, <1>6 DEF CreatedFrom

CreatedAs(builder, kind, verb, made) ==
  made = [name \in NamesFor(kind) |->
            Node(builder, kind, Taken(1), name, <<Step(verb, name, Sources(nodes, Taken(1)))>>)]

ReadyForObject == GenOK /\ walking = <<>> /\ Len(stack) >= 1 /\ Kinds(1) = <<"query">>
\* So does one whose only step creates its object.
LEMMA CreatedFits ==
  ASSUME ReadyForObject,
         NEW builder \in Bys, NEW kind \in ObjectKinds, NEW verb \in StepVerbs, Creation(kind, verb),
         NEW made, CreatedAs(builder, kind, verb, made),
         NEW name \in NamesFor(kind), IsNew(name, UsedNames)
  PROVE  Fitting(1, made, name)
<1>1. PICK ins, reads, steps, a :
        /\ ins = Taken(1) /\ reads = Sources(nodes, Taken(1)) /\ steps = <<Step(verb, name, reads)>>
        /\ a = Node(builder, kind, ins, name, steps)
  OBVIOUS
<1>2. made[name] = a
  BY <1>1 DEF CreatedAs
<1>3. IsStep(steps, verb, name, reads) /\ IsNode(a, builder, kind, ins, name, steps)
  BY <1>1 DEF IsStep, IsNode
<1>4. ins \in Seq(Nat) /\ CreatedFrom(nodes, ins, reads) /\ reads \in SUBSET Names
  BY <1>1, QueryOnTop DEF ReadyForObject
<1>5. name \in Names
  BY DEF IsNew
<1>6. a \in NodeType /\ a.inputs = ins /\ a.ref = name /\ Made(nodes, a)
  BY <1>3, <1>4, <1>5, CreatedIs
<1>7. a.inputs = Taken(1)
  BY <1>1, <1>6
<1> QED
  BY <1>2, <1>6, <1>7, MadeFits DEF ReadyForObject

\* The view of a query.
LEMMA CreateViewKeeps ==
  ASSUME GenOK, CreateViewBuilder
  PROVE  GenOK'
<1>1. PICK made : CreatedAs("CreateView", "view", "create view", made)
  BY DEF CreatedAs
<1>2. Len(stack) >= 1 /\ Kinds(1) = <<"query">> /\ PutsObject("CreateView", 1, "view", made)
  BY <1>1, Zenon DEF CreateViewBuilder, CreatedAs
<1>3. walking = <<>>
  BY <1>2 DEF PutsObject, Puts, Makes, Generating
<1>4. PICK builder, kind, verb :
        /\ builder = "CreateView" /\ kind = "view" /\ verb = "create view"
        /\ builder \in Bys /\ kind \in ObjectKinds /\ verb \in StepVerbs /\ kind \in NameKinds /\ Creation(kind, verb)
  BY DEF Bys, BuilderNames, ObjectKinds, StepVerbs, NameKinds, Creation
<1>5. CreatedAs(builder, kind, verb, made) /\ PutsObject(builder, 1, kind, made)
  BY <1>1, <1>2, <1>4
<1>6. builder \in Bys /\ kind \in ObjectKinds /\ verb \in StepVerbs /\ kind \in NameKinds /\ Creation(kind, verb)
  BY <1>4
<1>7. ASSUME NEW name \in NamesFor(kind), name \in Names /\ name \notin UsedNames /\ name # hidden_base_name
      PROVE  Fitting(1, made, name)
  <2>1. IsNew(name, UsedNames) /\ ReadyForObject
    BY <1>2, <1>3, <1>7 DEF IsNew, ReadyForObject
  <2> QED
    BY <1>5, <1>6, <2>1, CreatedFits
<1>8. 1 \in Nat
  OBVIOUS
<1> QED
  BY <1>5, <1>6, <1>7, <1>8, PutsObjectKeeps

\* The table of a query.
LEMMA CreateTableKeeps ==
  ASSUME GenOK, CreateTableBuilder
  PROVE  GenOK'
<1>1. PICK made : CreatedAs("CreateTable", "table", "create table", made)
  BY DEF CreatedAs
<1>2. Len(stack) >= 1 /\ Kinds(1) = <<"query">> /\ PutsObject("CreateTable", 1, "table", made)
  BY <1>1, Zenon DEF CreateTableBuilder, CreatedAs
<1>3. walking = <<>>
  BY <1>2 DEF PutsObject, Puts, Makes, Generating
<1>4. PICK builder, kind, verb :
        /\ builder = "CreateTable" /\ kind = "table" /\ verb = "create table"
        /\ builder \in Bys /\ kind \in ObjectKinds /\ verb \in StepVerbs /\ kind \in NameKinds /\ Creation(kind, verb)
  BY DEF Bys, BuilderNames, ObjectKinds, StepVerbs, NameKinds, Creation
<1>5. CreatedAs(builder, kind, verb, made) /\ PutsObject(builder, 1, kind, made)
  BY <1>1, <1>2, <1>4
<1>6. builder \in Bys /\ kind \in ObjectKinds /\ verb \in StepVerbs /\ kind \in NameKinds /\ Creation(kind, verb)
  BY <1>4
<1>7. ASSUME NEW name \in NamesFor(kind), name \in Names /\ name \notin UsedNames /\ name # hidden_base_name
      PROVE  Fitting(1, made, name)
  <2>1. IsNew(name, UsedNames) /\ ReadyForObject
    BY <1>2, <1>3, <1>7 DEF IsNew, ReadyForObject
  <2> QED
    BY <1>5, <1>6, <2>1, CreatedFits
<1>8. 1 \in Nat
  OBVIOUS
<1> QED
  BY <1>5, <1>6, <1>7, <1>8, PutsObjectKeeps

ReinsertSteps(name, reads, steps) ==
  steps = <<Step("create table", name, reads), Step("delete", name, {}), Step("insert", name, {hidden_base_name})>>
ReinsertedAs(made) ==
  made = [name \in NamesFor("table") |->
            Node("DeleteReinsert", "table", Taken(1), name,
                 <<Step("create table", name, Sources(nodes, Taken(1))),
                   Step("delete", name, {}), Step("insert", name, {hidden_base_name})>>)]

\* The steps of a table that is made, emptied and filled again.
LEMMA ReinsertIs ==
  ASSUME NEW name \in Names, NEW reads \in SUBSET Names, NEW steps, ReinsertSteps(name, reads, steps)
  PROVE  /\ steps \in Seq(StepType) /\ steps # <<>> /\ steps[1].verb = "create table" /\ steps[1].reads = reads
         /\ \A i \in DOMAIN steps : steps[i].target = name
         /\ \A i \in DOMAIN steps : i > 1 =>
              steps[i].verb \in {"insert", "delete"} /\ steps[i].reads \subseteq {hidden_base_name}
<1>1. PICK a, b, c : /\ a = Step("create table", name, reads) /\ b = Step("delete", name, {})
                     /\ c = Step("insert", name, {hidden_base_name})
  OBVIOUS
<1>2. a \in StepType /\ a.verb = "create table" /\ a.target = name /\ a.reads = reads
  BY <1>1 DEF Step, StepType, StepVerbs
<1>3. b \in StepType /\ b.verb = "delete" /\ b.target = name /\ b.reads = {}
  BY <1>1 DEF Step, StepType, StepVerbs
<1>4. c \in StepType /\ c.verb = "insert" /\ c.target = name /\ c.reads = {hidden_base_name}
  BY <1>1, HiddenIsName DEF Step, StepType, StepVerbs
<1>5. AreSteps(steps, a, b, c)
  BY <1>1 DEF ReinsertSteps, AreSteps
<1>6. /\ steps \in Seq(StepType) /\ steps # <<>> /\ DOMAIN steps = {1, 2, 3}
      /\ steps[1] = a /\ steps[2] = b /\ steps[3] = c
  <2>1. a \in StepType /\ b \in StepType /\ c \in StepType
    BY <1>2, <1>3, <1>4
  <2> QED
    BY <1>5, <2>1, ThreeSteps
<1>7. \A i \in DOMAIN steps : i = 1 \/ i = 2 \/ i = 3
  BY <1>6
<1>8. steps[1].verb = "create table" /\ steps[1].reads = reads /\ steps[1].target = name
  BY <1>2, <1>6
<1>9. steps[2].verb \in {"insert", "delete"} /\ steps[2].reads \subseteq {hidden_base_name} /\ steps[2].target = name
  BY <1>3, <1>6
<1>10. steps[3].verb \in {"insert", "delete"} /\ steps[3].reads \subseteq {hidden_base_name} /\ steps[3].target = name
  BY <1>4, <1>6
<1>11. \A i \in DOMAIN steps : steps[i].target = name
  BY <1>7, <1>8, <1>9, <1>10
<1>12. \A i \in DOMAIN steps : i > 1 =>
         steps[i].verb \in {"insert", "delete"} /\ steps[i].reads \subseteq {hidden_base_name}
  BY <1>7, <1>9, <1>10
<1>13. steps \in Seq(StepType) /\ steps # <<>>
  BY <1>6
<1> QED
  BY <1>8, <1>11, <1>12, <1>13

\* The table that is emptied and filled again.
LEMMA DeleteReinsertKeeps ==
  ASSUME GenOK, DeleteReinsertTableBuilder
  PROVE  GenOK'
<1>1. PICK made : ReinsertedAs(made)
  BY DEF ReinsertedAs
<1>2. Len(stack) >= 1 /\ Kinds(1) = <<"query">> /\ PutsObject("DeleteReinsert", 1, "table", made)
  BY <1>1, Zenon DEF DeleteReinsertTableBuilder, ReinsertedAs
<1>3. walking = <<>>
  BY <1>2 DEF PutsObject, Puts, Makes, Generating
<1>4. PICK builder, kind :
        /\ builder = "DeleteReinsert" /\ kind = "table"
        /\ builder \in Bys /\ kind \in ObjectKinds /\ kind \in NameKinds
  BY DEF Bys, BuilderNames, ObjectKinds, NameKinds
<1>5. builder \in Bys /\ kind \in ObjectKinds /\ kind \in NameKinds
  BY <1>4
<1>6. ASSUME NEW name \in NamesFor(kind), name \in Names /\ name \notin UsedNames /\ name # hidden_base_name
      PROVE  Fitting(1, made, name)
  <2>1. IsNew(name, UsedNames) /\ name \in Names /\ name \in NamesFor("table")
    BY <1>4, <1>6 DEF IsNew
  <2>2. PICK ins, reads, steps, a :
          /\ ins = Taken(1) /\ reads = Sources(nodes, Taken(1)) /\ ReinsertSteps(name, reads, steps)
          /\ a = Node(builder, kind, ins, name, steps)
    BY DEF ReinsertSteps
  <2>3. made[name] = a
    BY <1>1, <1>4, <2>1, <2>2 DEF ReinsertedAs, ReinsertSteps
  <2>4. ins \in Seq(Nat) /\ CreatedFrom(nodes, ins, reads) /\ reads \in SUBSET Names
    BY <1>2, <1>3, <2>2, QueryOnTop
  <2>5. ReinsertSteps(name, reads, steps) /\ IsNode(a, builder, kind, ins, name, steps)
    BY <2>2 DEF IsNode
  <2>6. /\ steps \in Seq(StepType) /\ steps # <<>> /\ steps[1].verb = "create table" /\ steps[1].reads = reads
        /\ \A i \in DOMAIN steps : steps[i].target = name
        /\ \A i \in DOMAIN steps : i > 1 =>
             steps[i].verb \in {"insert", "delete"} /\ steps[i].reads \subseteq {hidden_base_name}
    BY <2>1, <2>4, <2>5, ReinsertIs
  <2>7. MakingSteps(nodes, kind, ins, name, steps)
    BY <1>4, <2>4, <2>6 DEF MakingSteps, CreatedFrom
  <2>8. steps \in Seq(StepType)
    BY <2>6
  <2>9. a \in NodeType /\ a.inputs = ins /\ a.ref = name /\ Made(nodes, a)
    BY <1>5, <2>1, <2>4, <2>5, <2>7, <2>8, ObjectIs
  <2>10. a.inputs = Taken(1)
    BY <2>2, <2>9
  <2> QED
    BY <1>2, <1>3, <2>1, <2>3, <2>9, <2>10, MadeFits
<1>7. 1 \in Nat /\ PutsObject(builder, 1, kind, made)
  BY <1>2, <1>4
<1> QED
  BY <1>5, <1>6, <1>7, PutsObjectKeeps

PrunedAs(table, made) ==
  made = [name \in NamesFor("view") |->
            Node("TagPruneDelete", "view", Taken(1), name,
                 <<Step("delete", table, {}), Step("create view", name, {table})>>)]
PruneSteps(table, name, steps) == steps = <<Step("delete", table, {}), Step("create view", name, {table})>>

\* The steps of a pruned node.
LEMMA TwoSteps ==
  ASSUME NEW table \in Names, NEW name \in Names, NEW steps, PruneSteps(table, name, steps)
  PROVE  steps \in Seq(StepType)
<1>1. PICK a, b : a = Step("delete", table, {}) /\ b = Step("create view", name, {table})
  OBVIOUS
<1>2. a \in StepType
  BY <1>1 DEF Step, StepType, StepVerbs
<1>3. b \in StepType
  BY <1>1 DEF Step, StepType, StepVerbs
<1>4. PICK S : S = StepType
  OBVIOUS
<1>5. <<a, b>> \in Seq(S)
  BY <1>2, <1>3, <1>4
<1> QED
  BY <1>1, <1>4, <1>5 DEF PruneSteps

\* The view of the channel that is pruned.
LEMMA TagPruneDeleteKeeps ==
  ASSUME GenOK, TagPruneDeleteReduceBuilder
  PROVE  GenOK'
<1>1. PICK table, made : table = nodes[Taken(1)[1]].ref /\ PrunedAs(table, made)
  BY DEF PrunedAs
<1>2. Len(stack) >= 1 /\ Kinds(1) = <<"channel">> /\ PutsObject("TagPruneDelete", 1, "view", made)
  BY <1>1, Zenon DEF TagPruneDeleteReduceBuilder, PrunedAs
<1>3. walking = <<>>
  BY <1>2 DEF PutsObject, Puts, Makes, Generating
<1>4. PICK builder, kind :
        /\ builder = "TagPruneDelete" /\ kind = "view"
        /\ builder \in Bys /\ kind \in NodeKinds /\ kind \in NameKinds
  BY DEF Bys, BuilderNames, NodeKinds, NameKinds
<1>5. builder \in Bys /\ kind \in NodeKinds /\ kind \in NameKinds
  BY <1>4
<1>6. Growing(nodes, UsedNames, stack, LastRoot) /\ nodes \in Seq(NodeType) /\ Tree(nodes, UsedNames)
  BY <1>3, Ready
<1>7. PICK c \in DOMAIN nodes : /\ Taken(1) = <<c>> /\ c > LastRoot /\ c \in Nat
                                /\ Growing(nodes, UsedNames, Rest(1), LastRoot) /\ \A i \in DOMAIN Rest(1) : Rest(1)[i] # c
                                /\ nodes[c].kind = "channel" => LastWriter(nodes, c)
                                /\ Kinds(1) = <<nodes[c].kind>>
  BY <1>2, <1>6, TopOne
<1>8. nodes[c].kind = "channel" /\ LastWriter(nodes, c) /\ table = nodes[c].ref
  BY <1>1, <1>2, <1>7
<1>9. table \in Names
  BY <1>6, <1>8, NodeFields
<1>10. PICK ins : ins = <<c>> /\ ins = Taken(1) /\ ins \in Seq(Nat)
  <2>1. <<c>> \in Seq(Nat)
    BY <1>7
  <2> QED
    BY <1>7, <2>1
<1>11. ASSUME NEW name \in NamesFor(kind), name \in Names /\ name \notin UsedNames /\ name # hidden_base_name
       PROVE  Fitting(1, made, name)
  <2>1. PICK steps, a : PruneSteps(table, name, steps) /\ a = Node(builder, kind, ins, name, steps)
    BY DEF PruneSteps
  <2>2. made[name] = a
    <3>1. name \in NamesFor("view")
      BY <1>4
    <3>2. made[name] = Node("TagPruneDelete", "view", Taken(1), name,
                            <<Step("delete", table, {}), Step("create view", name, {table})>>)
      BY <1>1, <3>1, Zenon DEF PrunedAs
    <3> QED
      BY <1>4, <1>10, <2>1, <3>2, Zenon DEF PruneSteps
  <2>3. steps \in Seq(StepType)
    BY <1>9, <1>11, <2>1, TwoSteps
  <2>4. IsNode(a, builder, kind, ins, name, steps) /\ ins \in Seq(Nat)
    BY <1>10, <2>1 DEF IsNode
  <2>5. a \in NodeType /\ a.kind = kind /\ a.inputs = ins /\ a.ref = name /\ a.steps = steps
    BY <1>5, <1>11, <2>3, <2>4, FieldsAre
  <2>6. a.kind = "view" /\ a.inputs = <<c>> /\ PruningSteps(a, nodes[c].ref)
    BY <1>4, <1>8, <1>10, <2>1, <2>5 DEF PruningSteps, PruneSteps
  <2>7. a.ref \notin UsedNames /\ a.ref # hidden_base_name
    BY <1>11, <2>5
  <2>8. Tree(Append(nodes, a), UsedNames \cup {a.ref})
    BY <1>6, <1>8, <2>5, <2>6, <2>7, AddPruned
  <2>9. Pruned(Append(nodes, a), a)
    <3>1. IsMore(nodes, a, Append(nodes, a))
      BY <1>6, <2>5, OneMore
    <3>2. Append(nodes, a)[c] = nodes[c] /\ c \in DOMAIN Append(nodes, a)
      BY <3>1 DEF IsMore
    <3> QED
      BY <1>8, <2>6, <3>2 DEF Pruned
  <2>10. PICK st, v : st = Rest(1) /\ v = UsedNames \cup {a.ref}
    OBVIOUS
  <2>11. /\ Growing(Append(nodes, a), v, st, LastRoot) /\ \A i \in DOMAIN st : st[i] < Len(Append(nodes, a))
         /\ Len(Append(nodes, a)) = Len(nodes) + 1 /\ LastRoot < Len(nodes) + 1
    BY <1>7, <1>8, <2>5, <2>6, <2>8, <2>9, <2>10, GrowChannel
  <2>12. nodes \o <<a>> = Append(nodes, a)
    BY <1>6, <2>5, CatOne
  <2> QED
    BY <2>2, <2>5, <2>10, <2>11, <2>12 DEF Fitting
<1>12. 1 \in Nat /\ PutsObject(builder, 1, kind, made)
  BY <1>2, <1>4
<1> QED
  BY <1>5, <1>11, <1>12, PutsObjectKeeps

\* A builder that declines changes no tree.
LEMMA DeclineKeeps ==
  ASSUME GenOK, Decline
  PROVE  GenOK'
<1>1. /\ walking = <<>> /\ stack # <<>> /\ stack' = Rest(1) /\ exposed_names' = exposed_names /\ nodes' = nodes
      /\ names' = names /\ forks' = forks /\ walking' = walking
  BY DEF Decline, Generating, walkVars
<1>2. Growing(nodes, UsedNames, stack, LastRoot) /\ stack \in Seq(Nat) /\ Len(stack) \in Nat
  BY <1>1, Ready
<1>3. 1 <= Len(stack) /\ 1 \in Nat
  BY <1>1, <1>2
<1>4. Growing(nodes, UsedNames, Rest(1), LastRoot)
  BY <1>2, <1>3, RestWaits
<1>5. LastRoot' = LastRoot /\ UsedNames' = UsedNames
  BY <1>1 DEF LastRoot, UsedNames, Started
<1>6. Growing(nodes', UsedNames', stack', LastRoot')
  BY <1>1, <1>4, <1>5
<1> QED
  BY <1>1, <1>6 DEF GenOK

\* Generation makes trees.
LEMMA GenerateKeeps ==
  ASSUME GenOK, Generate
  PROVE  GenOK'
BY BaseTableSourceKeeps, SelectStarKeeps, UnionEmptyRoundTripKeeps, FlagTableJoinKeeps, CreateViewKeeps,
   CreateTableKeeps, DeleteReinsertKeeps, TagExplodeKeeps, TagInsertExtrasKeeps, TagPruneDeleteKeeps, DeclineKeeps
   DEF Generate

-----------------------------------------------------------------------------
(* What a builder adds *)

\* The nodes that a builder puts: the last is its own, the others are parts.
Given(builder, more) ==
  /\ \E S : more \in Seq(S)
  /\ Len(more) > 0 /\ more[Len(more)].by = builder
  /\ \A i \in 1 .. Len(more) : i < Len(more) => more[i].by = Part
\* A node that creates what it is read under.
CreatesItself(n, name) ==
  n.ref = name /\ \E i \in DOMAIN n.steps : n.steps[i].verb \in {"create table", "create view"} /\ n.steps[i].target = name
Starts(more) ==
  /\ Len(more) = 1 /\ CreatesItself(more[1], exposed_names[Len(forks) + 1])
  /\ stack' = <<>> /\ walking' = <<Frame(Len(nodes) + 1, 1)>> /\ seen' = {Len(nodes) + 1}
Adds(builder, more) ==
  /\ builder \in BuilderNames /\ Given(builder, more) /\ Generating
  /\ nodes' = nodes \o more
  /\ chosen' = [chosen EXCEPT ![builder] = @ + 1]
  /\ UNCHANGED <<exposed_names, forks, builders, setup_statements, written>>
  /\ UNCHANGED <<walking, seen>> \/ Starts(more)

\* A builder that puts one node of its own.
LEMMA GivenOne ==
  ASSUME NEW builder, NEW a, a.by = builder
  PROVE  Given(builder, <<a>>)
<1>1. <<a>> \in Seq({a})
  OBVIOUS
<1>2. Len(<<a>>) = 1 /\ <<a>>[1] = a
  OBVIOUS
<1>3. PICK more : more = <<a>>
  OBVIOUS
<1>4. Len(more) = 1 /\ more[1].by = builder
  BY <1>2, <1>3
<1>5. \A i \in 1 .. Len(more) : ~(i < Len(more))
  BY <1>4
<1>6. \E S : more \in Seq(S)
  BY <1>1, <1>3, Zenon
<1>7. Given(builder, more)
  <2>1. Len(more) > 0 /\ more[Len(more)].by = builder
    BY <1>4
  <2> QED
    BY <1>5, <1>6, <2>1, Zenon DEF Given
<1> QED
  BY <1>3, <1>7

\* A builder that puts its nodes adds them.
LEMMA PutsAdds ==
  ASSUME NEW builder \in BuilderNames, NEW n, NEW more, NEW kind, NEW minted, Puts(builder, n, more, kind, minted),
         Given(builder, more)
  PROVE  Adds(builder, more)
BY DEF Puts, Makes, Adds

\* A builder that puts an object adds it: below the root under a minted name, at the root under the exposed one.
LEMMA PutsObjectAdds ==
  ASSUME ExposedOK(exposed_names), forks \in Seq(Nat),
         NEW builder \in BuilderNames, NEW n, NEW kind, NEW made, PutsObject(builder, n, kind, made),
         \A name \in NamesFor(kind) : made[name].by = builder /\ CreatesItself(made[name], name)
  PROVE  \E more : Adds(builder, more)
<1>1. CASE Puts(builder, n, <<made[mint(kind, names)]>>, kind, 1)
  <2>1. mint(kind, names) \in NamesFor(kind)
    BY DEF NamesFor
  <2>2. Given(builder, <<made[mint(kind, names)]>>)
    BY <2>1, GivenOne
  <2> QED
    BY <1>1, <2>2, PutsAdds
<1>2. CASE /\ Makes(builder, <<made[exposed_names[Len(forks) + 1]]>>, kind, 0)
           /\ Len(stack) = n /\ stack' = <<>>
           /\ walking' = <<Frame(Len(nodes) + 1, 1)>> /\ seen' = {Len(nodes) + 1}
  <2>1. PICK name, a, more : name = exposed_names[Len(forks) + 1] /\ a = made[name] /\ more = <<a>>
    OBVIOUS
  <2>2. name \in NamesFor(kind)
    <3>1. PICK S : S = {"t"} \X Nat
      OBVIOUS
    <3>2. exposed_names \in Seq(S)
      BY <3>1 DEF ExposedOK
    <3>3. Len(forks) < Len(exposed_names)
      BY <1>2 DEF Makes, Generating
    <3>4. Len(forks) + 1 \in DOMAIN exposed_names
      BY <3>2, <3>3
    <3> QED
      BY <2>1, <3>4 DEF NamesFor, Range
  <2>3. a.by = builder /\ CreatesItself(a, name)
    BY <2>1, <2>2
  <2>4. Given(builder, more)
    BY <2>1, <2>3, GivenOne
  <2>5. Len(more) = 1 /\ more[1] = a
    BY <2>1
  <2>6. Starts(more)
    BY <1>2, <2>1, <2>3, <2>5 DEF Starts
  <2>7. Makes(builder, more, kind, 0)
    BY <1>2, <2>1
  <2> QED
    BY <2>4, <2>6, <2>7 DEF Adds, Makes
<1> QED
  BY <1>1, <1>2 DEF PutsObject

\* Whose node it is.
LEMMA ByIs ==
  ASSUME NEW by, NEW kind, NEW inputs, NEW ref, NEW steps
  PROVE  Node(by, kind, inputs, ref, steps).by = by
BY DEF Node

\* A node with a step that creates its name creates itself.
LEMMA CreatesIs ==
  ASSUME NEW by, NEW kind, NEW inputs, NEW name, NEW steps, NEW i \in DOMAIN steps,
         steps[i].verb \in {"create table", "create view"}, steps[i].target = name
  PROVE  CreatesItself(Node(by, kind, inputs, name, steps), name)
<1>1. PICK n : n = Node(by, kind, inputs, name, steps)
  OBVIOUS
<1>2. n.ref = name /\ n.steps = steps
  BY <1>1 DEF Node
<1> QED
  BY <1>1, <1>2 DEF CreatesItself

\* The verb and the target of a step.
LEMMA StepFields ==
  ASSUME NEW verb, NEW target, NEW reads
  PROVE  Step(verb, target, reads).verb = verb /\ Step(verb, target, reads).target = target
BY DEF Step

CreationVerbs == {"create table", "create view"}
\* A node whose first step creates its name creates itself.
LEMMA FirstCreates ==
  ASSUME NEW verb \in CreationVerbs, NEW name, NEW reads, NEW a, a = Step(verb, name, reads),
         NEW steps, 1 \in DOMAIN steps, steps[1] = a, NEW by, NEW kind, NEW inputs, NEW n,
         IsNode(n, by, kind, inputs, name, steps)
  PROVE  n.by = by /\ CreatesItself(n, name)
<1>1. a.verb = verb /\ a.target = name
  BY StepFields
<1>2. steps[1].verb \in {"create table", "create view"} /\ steps[1].target = name
  BY <1>1 DEF CreationVerbs
<1>3. CreatesItself(Node(by, kind, inputs, name, steps), name)
  BY <1>2, CreatesIs
<1>4. Node(by, kind, inputs, name, steps).by = by
  BY ByIs
<1> QED
  BY <1>3, <1>4 DEF IsNode

\* The domain and the value of a sequence of one.
LEMMA One == ASSUME NEW a PROVE 1 \in DOMAIN <<a>> /\ <<a>>[1] = a
OBVIOUS

\* The builders of objects add their one node.
LEMMA CreateBuildersAdd ==
  ASSUME ExposedOK(exposed_names), forks \in Seq(Nat),
         CreateViewBuilder \/ CreateTableBuilder \/ DeleteReinsertTableBuilder \/ TagPruneDeleteReduceBuilder
  PROVE  \E builder, more : Adds(builder, more)
<1>1. CASE CreateViewBuilder
  <2>1. PICK made : CreatedAs("CreateView", "view", "create view", made)
    BY DEF CreatedAs
  <2>2. PutsObject("CreateView", 1, "view", made)
    BY <1>1, <2>1, Zenon DEF CreateViewBuilder, CreatedAs
  <2>3. ASSUME NEW name \in NamesFor("view") PROVE made[name].by = "CreateView" /\ CreatesItself(made[name], name)
    <3>1. PICK a, steps : a = Step("create view", name, Sources(nodes, Taken(1))) /\ steps = <<a>>
      OBVIOUS
    <3>2. 1 \in DOMAIN steps /\ steps[1] = a
      BY <3>1, One
    <3>3. IsNode(made[name], "CreateView", "view", Taken(1), name, steps) /\ "create view" \in CreationVerbs
      BY <2>1, <3>1 DEF CreatedAs, IsNode, CreationVerbs
    <3> QED
      BY <3>1, <3>2, <3>3, FirstCreates
  <2>4. "CreateView" \in BuilderNames
    BY DEF BuilderNames
  <2> QED
    BY <2>2, <2>3, <2>4, PutsObjectAdds
<1>2. CASE CreateTableBuilder
  <2>1. PICK made : CreatedAs("CreateTable", "table", "create table", made)
    BY DEF CreatedAs
  <2>2. PutsObject("CreateTable", 1, "table", made)
    BY <1>2, <2>1, Zenon DEF CreateTableBuilder, CreatedAs
  <2>3. ASSUME NEW name \in NamesFor("table") PROVE made[name].by = "CreateTable" /\ CreatesItself(made[name], name)
    <3>1. PICK a, steps : a = Step("create table", name, Sources(nodes, Taken(1))) /\ steps = <<a>>
      OBVIOUS
    <3>2. 1 \in DOMAIN steps /\ steps[1] = a
      BY <3>1, One
    <3>3. IsNode(made[name], "CreateTable", "table", Taken(1), name, steps) /\ "create table" \in CreationVerbs
      BY <2>1, <3>1 DEF CreatedAs, IsNode, CreationVerbs
    <3> QED
      BY <3>1, <3>2, <3>3, FirstCreates
  <2>4. "CreateTable" \in BuilderNames
    BY DEF BuilderNames
  <2> QED
    BY <2>2, <2>3, <2>4, PutsObjectAdds
<1>3. CASE DeleteReinsertTableBuilder
  <2>1. PICK made : ReinsertedAs(made)
    BY DEF ReinsertedAs
  <2>2. PutsObject("DeleteReinsert", 1, "table", made)
    BY <1>3, <2>1, Zenon DEF DeleteReinsertTableBuilder, ReinsertedAs
  <2>3. ASSUME NEW name \in NamesFor("table") PROVE made[name].by = "DeleteReinsert" /\ CreatesItself(made[name], name)
    <3>1. PICK a, b, c, steps : a = Step("create table", name, Sources(nodes, Taken(1)))
                                /\ b = Step("delete", name, {}) /\ c = Step("insert", name, {hidden_base_name})
                                /\ steps = <<a, b, c>>
      OBVIOUS
    <3>2. 1 \in DOMAIN steps /\ steps[1] = a
      <4>1. DOMAIN <<a, b, c>> = 1 .. 3 /\ <<a, b, c>>[1] = a /\ 1 \in 1 .. 3
        OBVIOUS
      <4> QED
        BY <3>1, <4>1
    <3>3. IsNode(made[name], "DeleteReinsert", "table", Taken(1), name, steps) /\ "create table" \in CreationVerbs
      BY <2>1, <3>1 DEF ReinsertedAs, IsNode, CreationVerbs
    <3> QED
      BY <3>1, <3>2, <3>3, FirstCreates
  <2>4. "DeleteReinsert" \in BuilderNames
    BY DEF BuilderNames
  <2> QED
    BY <2>2, <2>3, <2>4, PutsObjectAdds
<1>4. CASE TagPruneDeleteReduceBuilder
  <2>1. PICK table, made : table = nodes[Taken(1)[1]].ref /\ PrunedAs(table, made)
    BY DEF PrunedAs
  <2>2. PutsObject("TagPruneDelete", 1, "view", made)
    BY <1>4, <2>1, Zenon DEF TagPruneDeleteReduceBuilder, PrunedAs
  <2>3. ASSUME NEW name \in NamesFor("view") PROVE made[name].by = "TagPruneDelete" /\ CreatesItself(made[name], name)
    <3>1. PICK a, b, steps : a = Step("delete", table, {}) /\ b = Step("create view", name, {table}) /\ steps = <<a, b>>
      OBVIOUS
    <3>2. 2 \in DOMAIN steps /\ steps[2] = b
      BY <3>1, Pairs
    <3>3. b.verb = "create view" /\ b.target = name
      BY <3>1 DEF Step
    <3>4. made[name] = Node("TagPruneDelete", "view", Taken(1), name, steps)
      BY <2>1, <3>1, Zenon DEF PrunedAs
    <3>5. CreatesItself(Node("TagPruneDelete", "view", Taken(1), name, steps), name)
      BY <3>2, <3>3, CreatesIs
    <3> QED
      BY <3>4, <3>5, ByIs
  <2>4. "TagPruneDelete" \in BuilderNames
    BY DEF BuilderNames
  <2> QED
    BY <2>2, <2>3, <2>4, PutsObjectAdds
<1> QED
  BY <1>1, <1>2, <1>3, <1>4

\* Whose query it is.
LEMMA QueryBy == ASSUME NEW by, NEW inputs PROVE Query(by, inputs).by = by
BY ByIs DEF Query

\* Whose node it is, by its arguments.
LEMMA NodeBy ==
  ASSUME NEW n, NEW by, \E kind, ins, name, steps : IsNode(n, by, kind, ins, name, steps)
  PROVE  n.by = by
<1>1. PICK kind, ins, name, steps : IsNode(n, by, kind, ins, name, steps)
  OBVIOUS
<1> QED
  BY <1>1 DEF IsNode, Node

\* A builder that puts three nodes, the last its own.
LEMMA GivenThree ==
  ASSUME NEW builder, NEW a, NEW b, NEW c, a.by = Part, b.by = Part, c.by = builder
  PROVE  Given(builder, <<a, b, c>>)
<1>1. <<a, b, c>> \in Seq({a, b, c})
  OBVIOUS
<1>2. Len(<<a, b, c>>) = 3 /\ <<a, b, c>>[1] = a /\ <<a, b, c>>[2] = b /\ <<a, b, c>>[3] = c
  OBVIOUS
<1>3. PICK more : more = <<a, b, c>>
  OBVIOUS
<1>4. Len(more) = 3 /\ more[1].by = Part /\ more[2].by = Part /\ more[3].by = builder
  BY <1>2, <1>3
<1>5. \A i \in 1 .. Len(more) : i < Len(more) => i = 1 \/ i = 2
  BY <1>4
<1>6. \E S : more \in Seq(S)
  BY <1>1, <1>3, Zenon
<1>7. Given(builder, more)
  <2>1. Len(more) > 0 /\ more[Len(more)].by = builder
    BY <1>4
  <2>2. \A i \in 1 .. Len(more) : i < Len(more) => more[i].by = Part
    BY <1>4, <1>5
  <2> QED
    BY <1>6, <2>1, <2>2, Zenon DEF Given
<1> QED
  BY <1>3, <1>7

\* A builder that puts four nodes, the last its own.
LEMMA GivenFour ==
  ASSUME NEW builder, NEW a, NEW b, NEW c, NEW d, a.by = Part, b.by = Part, c.by = Part, d.by = builder
  PROVE  Given(builder, <<a, b, c, d>>)
<1>1. <<a, b, c, d>> \in Seq({a, b, c, d})
  OBVIOUS
<1>2. /\ Len(<<a, b, c, d>>) = 4 /\ <<a, b, c, d>>[1] = a /\ <<a, b, c, d>>[2] = b
      /\ <<a, b, c, d>>[3] = c /\ <<a, b, c, d>>[4] = d
  OBVIOUS
<1>3. PICK more : more = <<a, b, c, d>>
  OBVIOUS
<1>4. Len(more) = 4 /\ more[1].by = Part /\ more[2].by = Part /\ more[3].by = Part /\ more[4].by = builder
  BY <1>2, <1>3
<1>5. \A i \in 1 .. Len(more) : i < Len(more) => i = 1 \/ i = 2 \/ i = 3
  BY <1>4
<1>6. \E S : more \in Seq(S)
  BY <1>1, <1>3, Zenon
<1>7. Given(builder, more)
  <2>1. Len(more) > 0 /\ more[Len(more)].by = builder
    BY <1>4
  <2>2. \A i \in 1 .. Len(more) : i < Len(more) => more[i].by = Part
    BY <1>4, <1>5
  <2> QED
    BY <1>6, <2>1, <2>2, Zenon DEF Given
<1> QED
  BY <1>3, <1>7

\* Every step of the generation adds the nodes of one builder, or a builder declines.
LEMMA GenerateAdds ==
  ASSUME ExposedOK(exposed_names), forks \in Seq(Nat), Generate
  PROVE  Decline \/ \E builder, more : Adds(builder, more)
<1>1. CASE BaseTableSourceBuilder
  <2>1. PICK a : a = Node("BaseTableSource", "base", <<>>, hidden_base_name, <<>>)
    OBVIOUS
  <2>2. a.by = "BaseTableSource" /\ "BaseTableSource" \in BuilderNames
    BY <2>1, ByIs DEF BuilderNames
  <2>3. Puts("BaseTableSource", 0, <<a>>, "table", 0)
    BY <1>1, <2>1 DEF BaseTableSourceBuilder
  <2> QED
    BY <2>2, <2>3, GivenOne, PutsAdds
<1>2. CASE SelectStarQueryBuilder
  <2>1. PICK a : a = Query("SelectStar", Taken(1))
    OBVIOUS
  <2>2. a.by = "SelectStar" /\ "SelectStar" \in BuilderNames
    BY <2>1, QueryBy DEF BuilderNames
  <2>3. Puts("SelectStar", 1, <<a>>, "table", 0)
    BY <1>2, <2>1 DEF SelectStarQueryBuilder
  <2> QED
    BY <2>2, <2>3, GivenOne, PutsAdds
<1>3. CASE UnionEmptyRoundTripBuilder
  <2>1. PICK a : a = Query("UnionAll", Taken(2))
    OBVIOUS
  <2>2. a.by = "UnionAll" /\ "UnionAll" \in BuilderNames
    BY <2>1, QueryBy DEF BuilderNames
  <2>3. Puts("UnionAll", 2, <<a>>, "table", 0)
    BY <1>3, <2>1 DEF UnionEmptyRoundTripBuilder
  <2> QED
    BY <2>2, <2>3, GivenOne, PutsAdds
<1>4. CASE FlagTableJoinQueryBuilder
  <2>1. PICK t, name, more : t = Taken(1)[1] /\ name = mint("table", names) /\ FlagNodes(t, name, more)
    BY Zenon DEF FlagNodes
  <2>2. Puts("FlagTableJoin", 1, more, "table", 1)
    BY <1>4, <2>1, Zenon DEF FlagTableJoinQueryBuilder, FlagNodes
  <2>3. PICK a, b, c : /\ QueryOf(t, a) /\ TableOf(Len(nodes) + 1, name, nodes[t].ref, b)
                       /\ JoinOf(t, Len(nodes) + 2, c) /\ more = <<a, b, c>>
    BY <2>1, FlagNodesAre
  <2>4. a.by = Part /\ b.by = Part /\ c.by = "FlagTableJoin"
    <3>1. a.by = Part
      BY <2>3, QueryBy DEF QueryOf
    <3>2. b.by = Part
      <4>1. \E kind, ins, nm, steps : IsNode(b, Part, kind, ins, nm, steps)
        BY <2>3, Zenon DEF TableOf, IsNode
      <4> QED
        BY <4>1, NodeBy
    <3>3. c.by = "FlagTableJoin"
      BY <2>3, QueryBy DEF JoinOf
    <3> QED
      BY <3>1, <3>2, <3>3
  <2>5. Given("FlagTableJoin", more) /\ "FlagTableJoin" \in BuilderNames
    BY <2>3, <2>4, GivenThree DEF BuilderNames
  <2> QED
    BY <2>2, <2>5, PutsAdds
<1>5. CASE TagExplodeExpansionBuilder
  <2>1. PICK t, throw, both : t = Taken(1)[1] /\ throw = mint("table", names) /\ both = <<"table", names["table"] + 2>>
    OBVIOUS
  <2>2. PICK rowcount, more :
          /\ rowcount \in {1, 3}
          /\ ExplodeNodes(t, throw, both, rowcount, more) /\ Puts("TagExplode", 1, more, "table", 2)
    <3>1. PICK rowcount \in {1, 3} :
            \E more : ExplodeNodes(t, throw, both, rowcount, more) /\ Puts("TagExplode", 1, more, "table", 2)
      BY <1>5, <2>1, Zenon DEF TagExplodeExpansionBuilder, ExplodeNodes, ChannelReads
    <3>2. PICK more : ExplodeNodes(t, throw, both, rowcount, more) /\ Puts("TagExplode", 1, more, "table", 2)
      BY <3>1, Zenon
    <3> QED
      BY <3>2
  <2>3. PICK a, b, c, d : /\ QueryOf(t, a) /\ TableOf(Len(nodes) + 1, throw, nodes[t].ref, b)
                          /\ UnionOf(t, Len(nodes) + 2, rowcount, c)
                          /\ ChannelOf(Len(nodes) + 3, both, ChannelReads(nodes[t].ref, throw, rowcount), d)
                          /\ more = <<a, b, c, d>>
    BY <2>2, ExplodeNodesAre
  <2>4. a.by = Part /\ b.by = Part /\ c.by = Part /\ d.by = "TagExplode"
    <3>1. a.by = Part
      BY <2>3, QueryBy DEF QueryOf
    <3>2. b.by = Part
      <4>1. \E kind, ins, nm, steps : IsNode(b, Part, kind, ins, nm, steps)
        BY <2>3, Zenon DEF TableOf, IsNode
      <4> QED
        BY <4>1, NodeBy
    <3>3. c.by = Part
      BY <2>3, QueryBy, Zenon DEF UnionOf
    <3>4. d.by = "TagExplode"
      <4>1. \E kind, ins, nm, steps : IsNode(d, "TagExplode", kind, ins, nm, steps)
        BY <2>3, Zenon DEF ChannelOf, IsNode
      <4> QED
        BY <4>1, NodeBy
    <3> QED
      BY <3>1, <3>2, <3>3, <3>4
  <2>5. Given("TagExplode", more) /\ "TagExplode" \in BuilderNames
    BY <2>3, <2>4, GivenFour DEF BuilderNames
  <2> QED
    BY <2>2, <2>5, PutsAdds
<1>6. CASE TagInsertExtrasExpansionBuilder
  <2>1. PICK table, a : /\ table = nodes[Taken(1)[1]].ref
                        /\ a = Node("TagInsertExtras", "channel", Taken(1), table, <<Step("insert", table, {table})>>)
    OBVIOUS
  <2>2. a.by = "TagInsertExtras" /\ "TagInsertExtras" \in BuilderNames
    <3>1. a.by = "TagInsertExtras"
      <4>1. \E kind, ins, nm, steps : IsNode(a, "TagInsertExtras", kind, ins, nm, steps)
        BY <2>1, Zenon DEF IsNode
      <4> QED
        BY <4>1, NodeBy
    <3> QED
      BY <3>1 DEF BuilderNames
  <2>3. Puts("TagInsertExtras", 1, <<a>>, "table", 0)
    BY <1>6, <2>1, Zenon DEF TagInsertExtrasExpansionBuilder
  <2> QED
    BY <2>2, <2>3, GivenOne, PutsAdds
<1>7. CASE CreateViewBuilder \/ CreateTableBuilder \/ DeleteReinsertTableBuilder \/ TagPruneDeleteReduceBuilder
  BY <1>7, CreateBuildersAdd
<1> QED
  BY <1>1, <1>2, <1>3, <1>4, <1>5, <1>6, <1>7 DEF Generate

-----------------------------------------------------------------------------
(* The nodes stay, and each builder is counted *)

\* The nodes of one builder.
By(p, b) == {id \in DOMAIN p : p[id].by = b}
Older(p, q) == DOMAIN p = 1 .. Len(p) /\ DOMAIN q = 1 .. Len(q) /\ Len(p) \in Nat /\ Len(q) \in Nat /\ Len(p) <= Len(q)
               /\ \A x \in 1 .. Len(p) : q[x] = p[x]

\* q is p and more: one node of the builder, the last, and none of another.
Extended(p, q, builder, more) ==
  /\ Older(p, q) /\ Len(q) = Len(p) + Len(more) /\ Len(more) \in Nat \ {0}
  /\ Len(more) = 1 => q[Len(q)] = more[1]
  /\ Len(q) \notin By(p, builder)
  /\ \A b \in BuilderNames : By(q, b) = IF b = builder THEN By(p, b) \cup {Len(q)} ELSE By(p, b)
\* The nodes that a builder adds leave the others, and one is its own.
LEMMA MoreNodes ==
  ASSUME NEW S, NEW p \in Seq(S), NEW builder \in BuilderNames, NEW more, Given(builder, more), NEW q, q = p \o more
  PROVE  Extended(p, q, builder, more)
<1>1. PICK T : more \in Seq(T)
  BY DEF Given
<1>2. PICK U : U = S \cup T
  OBVIOUS
<1>3. p \in Seq(U) /\ more \in Seq(U)
  BY <1>1, <1>2
<1>4. PICK l, m : l = Len(p) /\ m = Len(more)
  OBVIOUS
<1>5. /\ l \in Nat /\ m \in Nat /\ m > 0 /\ Len(q) = l + m /\ q \in Seq(U)
      /\ \A x \in 1 .. l : q[x] = p[x]
      /\ \A x \in 1 .. m : q[l + x] = more[x]
  <2>1. m > 0
    BY <1>4 DEF Given
  <2> QED
    BY <1>3, <1>4, <2>1
<1>6. DOMAIN p = 1 .. l /\ DOMAIN q = 1 .. l + m
  BY <1>3, <1>4, <1>5
<1>7. more[m].by = builder /\ \A i \in 1 .. m : i < m => more[i].by = Part
  BY <1>4 DEF Given
<1>8. ASSUME NEW x \in l + 1 .. l + m PROVE q[x].by = IF x = l + m THEN builder ELSE Part
  <2>1. PICK i : i = x - l
    OBVIOUS
  <2>2. i \in 1 .. m /\ x = l + i /\ (x = l + m <=> i = m) /\ (i = m \/ i < m)
    BY <1>5, <2>1
  <2>3. q[x] = more[i]
    BY <1>5, <2>2
  <2> QED
    BY <1>7, <2>2, <2>3
<1>9. Part \notin BuilderNames
  BY DEF Part, BuilderNames
<1>10. ASSUME NEW b \in BuilderNames PROVE By(q, b) = IF b = builder THEN By(p, b) \cup {l + m} ELSE By(p, b)
  <2>1. \A x \in 1 .. l : x \in By(q, b) <=> x \in By(p, b)
    BY <1>5, <1>6 DEF By
  <2>2. \A x \in l + 1 .. l + m : x \in By(q, b) <=> b = builder /\ x = l + m
    BY <1>5, <1>6, <1>8, <1>9 DEF By
  <2>3. By(p, b) \subseteq 1 .. l /\ By(q, b) \subseteq 1 .. l + m
    BY <1>6 DEF By
  <2>4. \A x \in 1 .. l + m : x \in 1 .. l \/ x \in l + 1 .. l + m
    BY <1>5
  <2>5. l + m \in l + 1 .. l + m /\ 1 .. l \subseteq 1 .. l + m
    BY <1>5
  <2>6. CASE b = builder
    BY <2>1, <2>2, <2>3, <2>4, <2>5, <2>6
  <2>7. CASE b # builder
    BY <2>1, <2>2, <2>3, <2>4, <2>5, <2>7
  <2> QED
    BY <2>6, <2>7
<1>11. l + m \notin By(p, builder)
  BY <1>5, <1>6 DEF By
<1>12. m = 1 => q[l + m] = more[1]
  BY <1>5
<1>13. Older(p, q)
  BY <1>4, <1>5, <1>6 DEF Older
<1> QED
  BY <1>4, <1>5, <1>10, <1>11, <1>12, <1>13 DEF Extended

-----------------------------------------------------------------------------
(* The walk: w are the frames, s the nodes seen, wr the nodes written, low the last fork's root. *)

\* Where a call ends; the frames are a path that goes down in the tree.
NextMost(p, x) == Len(p[x].inputs) + Len(p[x].steps) + 1
FramesAt(p, w, s, wr, low) ==
  /\ w \in Seq(FrameType)
  /\ \A i \in 1 .. Len(w) :
       /\ w[i].node \in DOMAIN p /\ w[i].node > low /\ w[i].next \in 1 .. NextMost(p, w[i].node)
       /\ w[i].node \in s /\ w[i].node \notin wr
       /\ i < Len(w) => w[i].next <= Len(p[w[i].node].inputs) + 1
  /\ \A i, j \in 1 .. Len(w) : i < j => w[j].node < w[i].node
\* the inputs a frame is past are written, or the frame above is at the last of them
WalkedAt(p, w, wr) ==
  \A i \in 1 .. Len(w) : \A j \in DOMAIN p[w[i].node].inputs : j < w[i].next =>
    \/ p[w[i].node].inputs[j] \in wr
    \/ i < Len(w) /\ p[w[i].node].inputs[j] = w[i + 1].node
\* The nodes seen are those written and those on the path.
SeenAt(p, w, s, wr, low) ==
  \A x \in DOMAIN p : x > low => (x \in s <=> x \in wr \/ \E i \in 1 .. Len(w) : w[i].node = x)
\* The inputs of a written node are written.
WrittenAt(p, w, wr, low) ==
  /\ wr \subseteq DOMAIN p
  /\ \A x \in wr : \A i \in DOMAIN p[x].inputs : p[x].inputs[i] \in wr
  /\ w = <<>> => \A x \in wr : x <= low
WalksAt(p, w, s, wr, low) ==
  /\ FramesAt(p, w, s, wr, low) /\ WalkedAt(p, w, wr)
  /\ SeenAt(p, w, s, wr, low) /\ WrittenAt(p, w, wr, low)

\* The innermost call.
Inner(p, w, wr, low, x, k) ==
  /\ Len(w) \in Nat \ {0} /\ x = w[Len(w)].node /\ k = w[Len(w)].next
  /\ x \in DOMAIN p /\ x \in Nat /\ x > low /\ low \in Nat /\ k \in 1 .. NextMost(p, x) /\ k \in Nat
  /\ Len(p[x].inputs) \in Nat /\ Len(p[x].steps) \in Nat /\ DOMAIN p[x].inputs = 1 .. Len(p[x].inputs)
  /\ DOMAIN p[x].steps = 1 .. Len(p[x].steps)
  /\ \A j \in 1 .. Len(p[x].inputs) :
       p[x].inputs[j] \in DOMAIN p /\ p[x].inputs[j] \in Nat /\ p[x].inputs[j] < x /\ p[x].inputs[j] > low
  /\ \A j \in 1 .. Len(p[x].inputs) : j < k => p[x].inputs[j] \in wr
  /\ \A i \in 1 .. Len(w) : i < Len(w) => w[i].node > x

\* A frame holds two numbers.
LEMMA FrameFields ==
  ASSUME NEW w \in Seq(FrameType), NEW i \in 1 .. Len(w)
  PROVE  w[i].node \in Nat /\ w[i].next \in Nat
<1>1. PICK S : S = FrameType
  OBVIOUS
<1>2. w[i] \in FrameType
  BY <1>1
<1> QED
  BY <1>2 DEF FrameType

\* A walk under way has an innermost call.
LEMMA InnerIs ==
  ASSUME NEW p, NEW u, NEW st, NEW low, Growing(p, u, st, low), NEW w, NEW s, NEW wr, WalksAt(p, w, s, wr, low), w # <<>>
  PROVE  \E x, k : Inner(p, w, wr, low, x, k)
<1>1. p \in Seq(NodeType) /\ InputsBefore(p) /\ ForkApart(p, low) /\ low \in 0 .. Len(p)
  BY DEF Growing, Tree, TypedNodes
<1>2. FramesAt(p, w, s, wr, low) /\ WalkedAt(p, w, wr)
  BY DEF WalksAt
<1>3. w \in Seq(FrameType)
  BY <1>2 DEF FramesAt
<1>4. Len(w) \in Nat \ {0}
  <2>1. PICK S : S = FrameType
    OBVIOUS
  <2> QED
    BY <1>3, <2>1
<1>5. PICK l : l = Len(w) /\ l \in 1 .. Len(w) /\ ~(l < Len(w)) /\ \A i \in 1 .. Len(w) : i < Len(w) => i < l
  BY <1>4
<1>6. PICK x, k : x = w[l].node /\ k = w[l].next
  OBVIOUS
<1>7. x \in Nat /\ k \in Nat
  BY <1>3, <1>5, <1>6, FrameFields
<1>8. x \in DOMAIN p /\ x > low /\ k \in 1 .. NextMost(p, x)
  BY <1>2, <1>5, <1>6 DEF FramesAt
<1>9. Len(p) \in Nat /\ DOMAIN p = 1 .. Len(p)
  <2>1. PICK S : S = NodeType
    OBVIOUS
  <2> QED
    BY <1>1, <2>1
<1>10. p[x].inputs \in Seq(Nat) /\ p[x].steps \in Seq(StepType)
  BY <1>1, <1>8, NodeFields
<1>11. Len(p[x].inputs) \in Nat /\ DOMAIN p[x].inputs = 1 .. Len(p[x].inputs)
  BY <1>10
<1>12. Len(p[x].steps) \in Nat /\ DOMAIN p[x].steps = 1 .. Len(p[x].steps)
  <2>1. PICK S : S = StepType
    OBVIOUS
  <2> QED
    BY <1>10, <2>1
<1>13. ASSUME NEW j \in 1 .. Len(p[x].inputs)
       PROVE  p[x].inputs[j] \in DOMAIN p /\ p[x].inputs[j] \in Nat /\ p[x].inputs[j] < x /\ p[x].inputs[j] > low
  <2>1. p[x].inputs[j] \in 1 .. x - 1
    BY <1>1, <1>8, <1>11 DEF InputsBefore
  <2>2. p[x].inputs[j] > low
    BY <1>1, <1>8, <1>11 DEF ForkApart
  <2> QED
    BY <1>7, <1>8, <1>9, <2>1, <2>2
<1>14. \A j \in 1 .. Len(p[x].inputs) : j < k => p[x].inputs[j] \in wr
  BY <1>2, <1>5, <1>6, <1>11 DEF WalkedAt
<1>15. \A i \in 1 .. Len(w) : i < Len(w) => w[i].node > x
  <2> SUFFICES ASSUME NEW i \in 1 .. Len(w), i < Len(w) PROVE w[i].node > x
    OBVIOUS
  <2>1. i < l
    BY <1>5
  <2>2. w[l].node < w[i].node
    BY <1>2, <1>5, <2>1 DEF FramesAt
  <2>3. w[i].node \in Nat
    BY <1>3, FrameFields
  <2> QED
    BY <1>6, <1>7, <2>2, <2>3
<1>16. low \in Nat
  BY <1>1
<1> QED
  BY <1>4, <1>5, <1>6, <1>7, <1>8, <1>11, <1>12, <1>13, <1>14, <1>15, <1>16 DEF Inner

\* m is w after a step of the innermost call.
Moves(w, m) ==
  /\ m \in Seq(FrameType) /\ Len(m) = Len(w)
  /\ \A i \in 1 .. Len(w) : i < Len(w) => m[i] = w[i]
  /\ m[Len(w)].node = w[Len(w)].node /\ m[Len(w)].next = w[Len(w)].next + 1

\* The innermost call goes on to its next input or step.
LEMMA MovesIs ==
  ASSUME NEW w \in Seq(FrameType), w # <<>>, NEW m,
         m = [w EXCEPT ![Len(w)] = Frame(w[Len(w)].node, w[Len(w)].next + 1)]
  PROVE  Moves(w, m)
<1>1. PICK S, l : S = FrameType /\ l = Len(w)
  OBVIOUS
<1>2. l \in Nat /\ l \in 1 .. l /\ w \in Seq(S) /\ l # 0
  BY <1>1
<1>3. PICK f : f = Frame(w[l].node, w[l].next + 1)
  OBVIOUS
<1>4. w[l].node \in Nat /\ w[l].next \in Nat
  BY <1>1, <1>2, FrameFields
<1>5. f \in S /\ f.node = w[l].node /\ f.next = w[l].next + 1
  BY <1>1, <1>3, <1>4 DEF Frame, FrameType
<1>6. m = [w EXCEPT ![l] = f]
  BY <1>1, <1>3
<1>7. m \in Seq(S) /\ Len(m) = l /\ m[l] = f /\ \A i \in 1 .. l : i < l => m[i] = w[i]
  BY <1>1, <1>2, <1>5, <1>6
<1> QED
  BY <1>1, <1>5, <1>7 DEF Moves

\* A call ends behind its last step.
LEMMA MostIs ==
  ASSUME NEW p, NEW x, Len(p[x].inputs) \in Nat, Len(p[x].steps) \in Nat
  PROVE  /\ NextMost(p, x) \in Nat /\ NextMost(p, x) >= 1
         /\ \A k \in Nat : k <= Len(p[x].inputs) => k + 1 <= NextMost(p, x)
<1>1. PICK a, b : a = Len(p[x].inputs) /\ b = Len(p[x].steps)
  OBVIOUS
<1>2. a \in Nat /\ b \in Nat /\ NextMost(p, x) = a + b + 1
  BY <1>1 DEF NextMost
<1>3. PICK n : n = NextMost(p, x)
  OBVIOUS
<1>4. n = a + b + 1
  BY <1>2, <1>3
<1>5. n \in Nat /\ n >= 1 /\ \A k \in Nat : k <= a => k + 1 <= n
  BY <1>2, <1>4
<1> QED
  BY <1>1, <1>3, <1>5

\* The frames after a step of the innermost call, whose children so far are written.
LEMMA MovedFrames ==
  ASSUME NEW p, NEW w, NEW s, NEW wr, NEW low, FramesAt(p, w, s, wr, low), WalkedAt(p, w, wr), SeenAt(p, w, s, wr, low),
         NEW x, NEW k, Inner(p, w, wr, low, x, k), k + 1 <= NextMost(p, x), NEW m, Moves(w, m)
  PROVE  /\ FramesAt(p, m, s, wr, low) /\ SeenAt(p, m, s, wr, low)
         /\ (k <= Len(p[x].inputs) => p[x].inputs[k] \in wr) => WalkedAt(p, m, wr)
         /\ m # <<>>
<1>1. PICK l : l = Len(w)
  OBVIOUS
<1>0. NextMost(p, x) \in Nat
  BY MostIs DEF Inner
<1>2. /\ l \in Nat \ {0} /\ x = w[l].node /\ k = w[l].next /\ k \in Nat /\ NextMost(p, x) \in Nat
      /\ k \in 1 .. NextMost(p, x) /\ Len(p[x].inputs) \in Nat /\ DOMAIN p[x].inputs = 1 .. Len(p[x].inputs)
      /\ \A j \in 1 .. Len(p[x].inputs) : j < k => p[x].inputs[j] \in wr
  BY <1>0, <1>1 DEF Inner
<1>3. /\ m \in Seq(FrameType) /\ Len(m) = l /\ \A i \in 1 .. l : i < l => m[i] = w[i]
      /\ m[l].node = x /\ m[l].next = k + 1
  BY <1>1, <1>2 DEF Moves
<1>4. \A i \in 1 .. l : m[i].node = w[i].node
  <2>1. \A i \in 1 .. l : i = l \/ i < l
    BY <1>2
  <2> QED
    BY <1>2, <1>3, <2>1
<1>5. FramesAt(p, m, s, wr, low)
  <2>1. \A i, j \in 1 .. l : i < j => m[j].node < m[i].node
    BY <1>1, <1>4 DEF FramesAt
  <2>2. ASSUME NEW i \in 1 .. l
        PROVE  /\ m[i].node \in DOMAIN p /\ m[i].node > low /\ m[i].next \in 1 .. NextMost(p, m[i].node)
               /\ m[i].node \in s /\ m[i].node \notin wr
               /\ i < l => m[i].next <= Len(p[m[i].node].inputs) + 1
    <3>1. /\ w[i].node \in DOMAIN p /\ w[i].node > low /\ w[i].next \in 1 .. NextMost(p, w[i].node)
          /\ w[i].node \in s /\ w[i].node \notin wr
          /\ i < l => w[i].next <= Len(p[w[i].node].inputs) + 1
      BY <1>1 DEF FramesAt
    <3>2. CASE i < l
      BY <1>3, <3>1, <3>2
    <3>3. CASE i = l
      <4>1. m[i].next \in 1 .. NextMost(p, x) /\ ~(i < l)
        BY <1>2, <1>3, <3>3
      <4> QED
        BY <1>4, <1>2, <3>1, <3>3, <4>1
    <3> QED
      BY <1>2, <3>2, <3>3
  <2> QED
    BY <1>3, <2>1, <2>2 DEF FramesAt
<1>6. SeenAt(p, m, s, wr, low)
  BY <1>1, <1>3, <1>4 DEF SeenAt
<1>7. ASSUME k <= Len(p[x].inputs) => p[x].inputs[k] \in wr PROVE WalkedAt(p, m, wr)
  <2> SUFFICES ASSUME NEW i \in 1 .. l, NEW j \in DOMAIN p[m[i].node].inputs, j < m[i].next
               PROVE  \/ p[m[i].node].inputs[j] \in wr
                      \/ i < l /\ p[m[i].node].inputs[j] = m[i + 1].node
    BY <1>3 DEF WalkedAt
  <2>1. CASE i < l
    <3>1. i + 1 \in 1 .. l /\ m[i] = w[i] /\ m[i + 1].node = w[i + 1].node
      BY <1>2, <1>3, <1>4, <2>1
    <3>2. \/ p[w[i].node].inputs[j] \in wr
          \/ i < l /\ p[w[i].node].inputs[j] = w[i + 1].node
      BY <1>1, <3>1 DEF WalkedAt
    <3> QED
      BY <2>1, <3>1, <3>2
  <2>2. CASE i = l
    <3>1. j \in 1 .. Len(p[x].inputs) /\ j < k + 1
      BY <1>2, <1>3, <2>2
    <3>2. j < k \/ j = k
      BY <1>2, <3>1
    <3>3. p[x].inputs[j] \in wr
      BY <1>2, <1>7, <3>1, <3>2
    <3> QED
      BY <1>3, <2>2, <3>3
  <2> QED
    BY <1>2, <2>1, <2>2
<1>8. m # <<>>
  BY <1>2, <1>3
<1> QED
  BY <1>5, <1>6, <1>7, <1>8

\* A child that was seen has been written: the calls that are open are for nodes above it.
LEMMA SkippedIsWritten ==
  ASSUME NEW p, NEW w, NEW s, NEW wr, NEW low, SeenAt(p, w, s, wr, low),
         NEW x, NEW k, Inner(p, w, wr, low, x, k), k <= Len(p[x].inputs)
  PROVE  p[x].inputs[k] \in s <=> p[x].inputs[k] \in wr
<1>1. PICK c : c = p[x].inputs[k]
  OBVIOUS
<1>2. c \in DOMAIN p /\ c \in Nat /\ c < x /\ c > low /\ x \in Nat
  BY <1>1 DEF Inner
<1>3. ASSUME NEW i \in 1 .. Len(w), w[i].node = c PROVE FALSE
  <2>1. i = Len(w) \/ i < Len(w)
    BY DEF Inner
  <2>2. i = Len(w) => c = x
    BY <1>3 DEF Inner
  <2>3. i < Len(w) => c > x
    BY <1>3 DEF Inner
  <2> QED
    BY <1>2, <2>1, <2>2, <2>3
<1>4. c \in s <=> c \in wr \/ \E i \in 1 .. Len(w) : w[i].node = c
  BY <1>2 DEF SeenAt
<1> QED
  BY <1>1, <1>3, <1>4

\* Skipping an input that has been seen.
LEMMA WalkSkips ==
  ASSUME NEW p, NEW w, NEW s, NEW wr, NEW low, WalksAt(p, w, s, wr, low),
         NEW x, NEW k, Inner(p, w, wr, low, x, k), k <= Len(p[x].inputs), p[x].inputs[k] \in s, NEW m, Moves(w, m)
  PROVE  WalksAt(p, m, s, wr, low)
<1>1. p[x].inputs[k] \in wr
  BY SkippedIsWritten DEF WalksAt
<1>2. k + 1 <= NextMost(p, x)
  BY MostIs DEF Inner
<1>3. FramesAt(p, m, s, wr, low) /\ SeenAt(p, m, s, wr, low) /\ WalkedAt(p, m, wr) /\ m # <<>>
  BY <1>1, <1>2, MovedFrames DEF WalksAt
<1> QED
  BY <1>3 DEF WalksAt, WrittenAt

\* Writing a step, all inputs of the node being written.
LEMMA WalkWrites ==
  ASSUME NEW p, NEW w, NEW s, NEW wr, NEW low, WalksAt(p, w, s, wr, low),
         NEW x, NEW k, Inner(p, w, wr, low, x, k), ~(k <= Len(p[x].inputs)), k + 1 <= NextMost(p, x), NEW m, Moves(w, m)
  PROVE  WalksAt(p, m, s, wr, low)
<1>1. FramesAt(p, m, s, wr, low) /\ SeenAt(p, m, s, wr, low) /\ WalkedAt(p, m, wr) /\ m # <<>>
  BY MovedFrames DEF WalksAt
<1> QED
  BY <1>1 DEF WalksAt, WrittenAt

\* A call for a child.
Calls(m, c, v) == v = Append(m, Frame(c, 1))
ChildIs(p, x, k, c) ==
  /\ k <= Len(p[x].inputs) /\ c = p[x].inputs[k]
  /\ Len(p[c].inputs) \in Nat /\ Len(p[c].steps) \in Nat /\ DOMAIN p[c].inputs = 1 .. Len(p[c].inputs)
\* Walking into an input that has not been seen: it is none of the nodes on the path, and none written.
LEMMA WalkCalls ==
  ASSUME NEW p, NEW w, NEW s, NEW wr, NEW low, WalksAt(p, w, s, wr, low),
         NEW x, NEW k, Inner(p, w, wr, low, x, k), NEW c, ChildIs(p, x, k, c), c \notin s,
         NEW m, Moves(w, m), NEW v, Calls(m, c, v)
  PROVE  WalksAt(p, v, s \cup {c}, wr, low)
<1>1. PICK l : l = Len(w)
  OBVIOUS
<1>2. /\ l \in Nat \ {0} /\ x = w[l].node /\ k = w[l].next /\ k \in Nat /\ k \in 1 .. Len(p[x].inputs) /\ k \in 1 .. NextMost(p, x)
      /\ Len(p[x].inputs) \in Nat /\ DOMAIN p[x].inputs = 1 .. Len(p[x].inputs)
      /\ \A j \in 1 .. Len(p[x].inputs) : j < k => p[x].inputs[j] \in wr
      /\ \A i \in 1 .. l : i < l => w[i].node > x
      /\ c \in DOMAIN p /\ c \in Nat /\ c < x /\ c > low /\ x \in Nat
  <2>1. /\ l \in Nat \ {0} /\ x = w[l].node /\ k = w[l].next /\ k \in Nat /\ k \in 1 .. NextMost(p, x)
        /\ Len(p[x].inputs) \in Nat /\ DOMAIN p[x].inputs = 1 .. Len(p[x].inputs)
        /\ \A j \in 1 .. Len(p[x].inputs) : j < k => p[x].inputs[j] \in wr
        /\ \A i \in 1 .. l : i < l => w[i].node > x
    BY <1>1 DEF Inner
  <2>2. k \in 1 .. Len(p[x].inputs)
    <3>1. k <= Len(p[x].inputs) /\ k >= 1
      <4>1. NextMost(p, x) \in Nat
        BY MostIs DEF Inner
      <4>2. k <= Len(p[x].inputs)
        BY DEF ChildIs
      <4> QED
        BY <2>1, <4>1, <4>2
    <3> QED
      BY <2>1, <3>1
  <2>3. c \in DOMAIN p /\ c \in Nat /\ c < x /\ c > low /\ x \in Nat
    BY <2>2 DEF Inner, ChildIs
  <2> QED
    BY <2>1, <2>2, <2>3
<1>3. /\ m \in Seq(FrameType) /\ Len(m) = l /\ \A i \in 1 .. l : i < l => m[i] = w[i]
      /\ m[l].node = x /\ m[l].next = k + 1
  BY <1>1, <1>2 DEF Moves
<1>4. k + 1 <= NextMost(p, x) /\ NextMost(p, c) \in Nat /\ NextMost(p, c) >= 1
  <2>1. k + 1 <= NextMost(p, x)
    BY <1>2, MostIs DEF Inner
  <2> QED
    BY <2>1, MostIs DEF ChildIs
<1>5. FramesAt(p, m, s, wr, low) /\ SeenAt(p, m, s, wr, low) /\ m # <<>>
  BY <1>4, MovedFrames DEF WalksAt
<1>6. PICK f : f = Frame(c, 1) /\ f \in FrameType /\ f.node = c /\ f.next = 1
  <2>1. PICK f : f = Frame(c, 1)
    OBVIOUS
  <2>2. f \in FrameType /\ f.node = c /\ f.next = 1
    BY <1>2, <2>1 DEF Frame, FrameType
  <2> QED
    BY <2>1, <2>2
<1>7. /\ v \in Seq(FrameType) /\ Len(v) = l + 1 /\ \A i \in 1 .. l : v[i] = m[i]
      /\ v[l + 1] = f
  <2>1. PICK S : S = FrameType
    OBVIOUS
  <2>2. m \in Seq(S) /\ f \in S /\ v = Append(m, f)
    BY <1>3, <1>6, <2>1 DEF Calls
  <2> QED
    BY <1>2, <1>3, <2>1, <2>2
<1>8. c \notin wr
  <2>1. c \in s <=> c \in wr
    BY SkippedIsWritten DEF WalksAt, ChildIs
  <2> QED
    BY <2>1
<1>2a. l \in Nat /\ l # 0 /\ l >= 1
  BY <1>2
<1>9. \A i \in 1 .. l + 1 : (i \in 1 .. l /\ i < l) \/ (i \in 1 .. l /\ i = l) \/ i = l + 1
  BY <1>2a
<1>10. \A i \in 1 .. l : m[i].node > c
  <2> SUFFICES ASSUME NEW i \in 1 .. l PROVE m[i].node > c
    OBVIOUS
  <2>1. m[i].node \in Nat
    BY <1>3, FrameFields
  <2>2. CASE i < l
    <3>1. m[i].node = w[i].node /\ w[i].node > x
      BY <1>2, <1>3, <2>2
    <3> QED
      BY <1>2, <2>1, <3>1
  <2>3. CASE i = l
    BY <1>2, <1>3, <2>3
  <2> QED
    BY <1>2, <2>2, <2>3
<1>11. FramesAt(p, v, s \cup {c}, wr, low)
  <2>1. ASSUME NEW i \in 1 .. l + 1
        PROVE  /\ v[i].node \in DOMAIN p /\ v[i].node > low /\ v[i].next \in 1 .. NextMost(p, v[i].node)
               /\ v[i].node \in s \cup {c} /\ v[i].node \notin wr
               /\ i < l + 1 => v[i].next <= Len(p[v[i].node].inputs) + 1
    <3>1. CASE i \in 1 .. l
      <4>1. /\ m[i].node \in DOMAIN p /\ m[i].node > low /\ m[i].next \in 1 .. NextMost(p, m[i].node)
            /\ m[i].node \in s /\ m[i].node \notin wr
            /\ i < l => m[i].next <= Len(p[m[i].node].inputs) + 1
        BY <1>3, <1>5, <3>1 DEF FramesAt
      <4>2. i = l => m[i].next <= Len(p[m[i].node].inputs) + 1
        BY <1>2, <1>3
      <4>3. i < l \/ i = l
        BY <1>2a, <3>1
      <4> QED
        BY <1>7, <3>1, <4>1, <4>2, <4>3
    <3>2. CASE i = l + 1
      <4>1. v[i].next \in 1 .. NextMost(p, c) /\ ~(i < l + 1)
        BY <1>2, <1>4, <1>6, <1>7, <3>2
      <4> QED
        BY <1>2, <1>6, <1>7, <1>8, <3>2, <4>1
    <3> QED
      BY <1>9, <3>1, <3>2
  <2>2. ASSUME NEW i \in 1 .. l + 1, NEW j \in 1 .. l + 1, i < j PROVE v[j].node < v[i].node
    <3>1. i \in 1 .. l
      BY <1>2a, <2>2
    <3>2. CASE j \in 1 .. l
      <4>1. m[j].node < m[i].node
        BY <1>3, <1>5, <2>2, <3>1, <3>2 DEF FramesAt
      <4> QED
        BY <1>7, <3>1, <3>2, <4>1
    <3>3. CASE j = l + 1
      <4>1. m[i].node > c /\ m[i].node \in Nat
        BY <1>3, <1>10, <3>1, FrameFields
      <4> QED
        BY <1>2, <1>6, <1>7, <3>1, <3>3, <4>1
    <3> QED
      BY <1>9, <3>2, <3>3
  <2> QED
    BY <1>7, <2>1, <2>2 DEF FramesAt
<1>12. WalkedAt(p, v, wr)
  <2> SUFFICES ASSUME NEW i \in 1 .. l + 1, NEW j \in DOMAIN p[v[i].node].inputs, j < v[i].next
               PROVE  \/ p[v[i].node].inputs[j] \in wr
                      \/ i < l + 1 /\ p[v[i].node].inputs[j] = v[i + 1].node
    BY <1>7 DEF WalkedAt
  <2>1. CASE i \in 1 .. l /\ i < l
    <3>1. i + 1 \in 1 .. l /\ v[i] = w[i]
      BY <1>2, <1>3, <1>7, <2>1
    <3>2. v[i + 1].node = w[i + 1].node
      <4>1. v[i + 1] = m[i + 1]
        BY <1>7, <3>1
      <4>2. i + 1 < l \/ i + 1 = l
        BY <1>2a, <3>1
      <4> QED
        BY <1>2, <1>3, <3>1, <4>1, <4>2
    <3>3. \/ p[w[i].node].inputs[j] \in wr
          \/ i < l /\ p[w[i].node].inputs[j] = w[i + 1].node
      BY <1>1, <2>1, <3>1 DEF WalksAt, WalkedAt
    <3> QED
      BY <1>2, <2>1, <3>1, <3>2, <3>3
  <2>2. CASE i \in 1 .. l /\ i = l
    <3>1. v[i].node = x /\ v[i].next = k + 1 /\ v[i + 1].node = c /\ i < l + 1
      BY <1>2, <1>3, <1>6, <1>7, <2>2
    <3>2. j \in 1 .. Len(p[x].inputs) /\ (j < k \/ j = k)
      <4>1. j \in DOMAIN p[x].inputs /\ j < k + 1
        BY <3>1
      <4>2. j \in 1 .. Len(p[x].inputs) /\ j \in Nat /\ k \in Nat
        BY <1>2, <4>1
      <4> QED
        BY <4>1, <4>2
    <3>3. c = p[x].inputs[k]
      BY DEF ChildIs
    <3>4. j < k => p[x].inputs[j] \in wr
      BY <1>2, <3>2
    <3> QED
      BY <3>1, <3>2, <3>3, <3>4
  <2>3. CASE i = l + 1
    <3>1. j < 1 /\ v[i].node = c
      BY <1>6, <1>7, <2>3
    <3>2. DOMAIN p[c].inputs \subseteq Nat \ {0}
      BY DEF ChildIs
    <3> QED
      BY <3>1, <3>2
  <2> QED
    BY <1>9, <2>1, <2>2, <2>3
<1>13. SeenAt(p, v, s \cup {c}, wr, low)
  <2> SUFFICES ASSUME NEW y \in DOMAIN p, y > low
               PROVE  y \in s \cup {c} <=> y \in wr \/ \E i \in 1 .. l + 1 : v[i].node = y
    BY <1>7 DEF SeenAt
  <2>1. y \in s <=> y \in wr \/ \E i \in 1 .. l : m[i].node = y
    BY <1>3, <1>5 DEF SeenAt
  <2>2. (\E i \in 1 .. l + 1 : v[i].node = y) <=> y = c \/ \E i \in 1 .. l : m[i].node = y
    <3>1. l + 1 \in 1 .. l + 1 /\ 1 .. l \subseteq 1 .. l + 1 /\ \A i \in 1 .. l + 1 : i \in 1 .. l \/ i = l + 1
      BY <1>2a
    <3> QED
      BY <1>6, <1>7, <3>1
  <2> QED
    BY <2>1, <2>2
<1>14. v # <<>>
  BY <1>2, <1>7
<1>15. WrittenAt(p, v, wr, low)
  BY <1>14 DEF WalksAt, WrittenAt
<1> QED
  BY <1>11, <1>12, <1>13, <1>15 DEF WalksAt

\* The call of a node that has been written returns.
Pops(w, v) == v = SubSeq(w, 1, Len(w) - 1)
\* Returning from an input to the node above.
LEMMA WalkReturns ==
  ASSUME NEW p, NEW w, NEW s, NEW wr, NEW low, WalksAt(p, w, s, wr, low),
         NEW x, NEW k, Inner(p, w, wr, low, x, k), ~(k <= Len(p[x].inputs)), Len(w) > 1,
         NEW v, Pops(w, v)
  PROVE  WalksAt(p, v, s, wr \cup {x}, low)
<1>1. PICK l : l = Len(w) - 1 /\ l + 1 = Len(w) /\ l \in Nat /\ l >= 1
  BY DEF Inner
<1>2. FramesAt(p, w, s, wr, low) /\ WalkedAt(p, w, wr) /\ SeenAt(p, w, s, wr, low) /\ WrittenAt(p, w, wr, low)
  BY DEF WalksAt
<1>3. w \in Seq(FrameType)
  BY <1>2 DEF FramesAt
<1>4. /\ v \in Seq(FrameType) /\ Len(v) = l /\ \A i \in 1 .. l : v[i] = w[i]
  <2>1. PICK S : S = FrameType
    OBVIOUS
  <2>2. w \in Seq(S) /\ v = SubSeq(w, 1, l) /\ l \in 0 .. Len(w)
    BY <1>1, <1>3, <2>1 DEF Pops
  <2> QED
    BY <1>1, <2>1, <2>2
<1>5. x = w[l + 1].node /\ x \in DOMAIN p /\ \A i \in 1 .. l : w[i].node > x
  <2>1. x = w[Len(w)].node /\ x \in DOMAIN p /\ \A i \in 1 .. Len(w) : i < Len(w) => w[i].node > x
    BY DEF Inner
  <2>2. \A i \in 1 .. l : i \in 1 .. Len(w) /\ i < Len(w)
    BY <1>1
  <2> QED
    BY <1>1, <2>1, <2>2
<1>6. \A i \in 1 .. l : i \in 1 .. Len(w) /\ i < Len(w) /\ i + 1 \in 1 .. Len(w) /\ w[i].node \in Nat /\ x \in Nat
  <2>1. \A i \in 1 .. l : i \in 1 .. Len(w) /\ i < Len(w) /\ i + 1 \in 1 .. Len(w)
    BY <1>1
  <2>2. x \in Nat
    BY DEF Inner
  <2> QED
    BY <1>3, <2>1, <2>2, FrameFields
<1>7. FramesAt(p, v, s, wr \cup {x}, low)
  <2>1. ASSUME NEW i \in 1 .. l
        PROVE  /\ w[i].node \in DOMAIN p /\ w[i].node > low /\ w[i].next \in 1 .. NextMost(p, w[i].node)
               /\ w[i].node \in s /\ w[i].node \notin wr \cup {x}
               /\ w[i].next <= Len(p[w[i].node].inputs) + 1
    <3>1. /\ w[i].node \in DOMAIN p /\ w[i].node > low /\ w[i].next \in 1 .. NextMost(p, w[i].node)
          /\ w[i].node \in s /\ w[i].node \notin wr
          /\ w[i].next <= Len(p[w[i].node].inputs) + 1
      BY <1>2, <1>6 DEF FramesAt
    <3>2. w[i].node # x
      BY <1>5, <1>6
    <3> QED
      BY <3>1, <3>2
  <2>2. \A i, j \in 1 .. l : i < j => w[j].node < w[i].node
    BY <1>2, <1>6 DEF FramesAt
  <2> QED
    BY <1>4, <2>1, <2>2 DEF FramesAt
<1>8. WalkedAt(p, v, wr \cup {x})
  <2> SUFFICES ASSUME NEW i \in 1 .. Len(v), NEW j \in DOMAIN p[v[i].node].inputs, j < v[i].next
               PROVE  \/ p[v[i].node].inputs[j] \in wr \cup {x}
                      \/ i < Len(v) /\ p[v[i].node].inputs[j] = v[i + 1].node
    BY DEF WalkedAt
  <2>0. i \in 1 .. l /\ v[i] = w[i]
    BY <1>4
  <2>1. p[w[i].node].inputs[j] \in wr \/ p[w[i].node].inputs[j] = w[i + 1].node
    BY <1>2, <1>6, <2>0 DEF WalkedAt
  <2>2. CASE i < l
    <3>1. i + 1 \in 1 .. l
      BY <1>1, <2>0, <2>2
    <3> QED
      BY <1>4, <2>0, <2>1, <2>2, <3>1
  <2>3. CASE i = l
    BY <1>5, <2>0, <2>1, <2>3
  <2> QED
    BY <1>1, <2>0, <2>2, <2>3
<1>9. SeenAt(p, v, s, wr \cup {x}, low)
  <2> SUFFICES ASSUME NEW y \in DOMAIN p, y > low
               PROVE  y \in s <=> y \in wr \cup {x} \/ \E i \in 1 .. l : w[i].node = y
    BY <1>4 DEF SeenAt
  <2>1. y \in s <=> y \in wr \/ \E i \in 1 .. Len(w) : w[i].node = y
    BY <1>2 DEF SeenAt
  <2>2. (\E i \in 1 .. Len(w) : w[i].node = y) <=> y = x \/ \E i \in 1 .. l : w[i].node = y
    <3>1. l + 1 \in 1 .. Len(w) /\ 1 .. l \subseteq 1 .. Len(w) /\ \A i \in 1 .. Len(w) : i \in 1 .. l \/ i = l + 1
      BY <1>1
    <3> QED
      BY <1>5, <3>1
  <2> QED
    BY <2>1, <2>2
<1>10. v # <<>>
  <2>1. SUFFICES ASSUME v = <<>> PROVE FALSE
    OBVIOUS
  <2>2. Len(v) = 0
    BY <2>1
  <2>3. Len(v) = l
    BY <1>4
  <2>4. l \in Nat /\ l >= 1
    BY <1>1
  <2> QED
    BY <2>2, <2>3, <2>4
<1>11. \A i \in DOMAIN p[x].inputs : p[x].inputs[i] \in wr
  <2> SUFFICES ASSUME NEW i \in DOMAIN p[x].inputs PROVE p[x].inputs[i] \in wr
    OBVIOUS
  <2>1. i \in 1 .. Len(p[x].inputs) /\ Len(p[x].inputs) \in Nat /\ k \in Nat
    BY DEF Inner
  <2>2. i < k
    BY <2>1
  <2> QED
    BY <2>1, <2>2 DEF Inner
<1>12. WrittenAt(p, v, wr \cup {x}, low)
  BY <1>2, <1>5, <1>10, <1>11 DEF WrittenAt
<1> QED
  BY <1>7, <1>8, <1>9, <1>12 DEF WalksAt

\* The call of the root returns.
LEMMA WalkEnds ==
  ASSUME NEW p, NEW w, NEW s, NEW wr, NEW low, WalksAt(p, w, s, wr, low), DOMAIN p = 1 .. Len(p),
         NEW x, NEW k, Inner(p, w, wr, low, x, k), ~(k <= Len(p[x].inputs)), x = Len(p)
  PROVE  WalksAt(p, <<>>, {}, wr \cup {x}, x)
<1>1. \A i \in DOMAIN p[x].inputs : p[x].inputs[i] \in wr
  <2> SUFFICES ASSUME NEW i \in DOMAIN p[x].inputs PROVE p[x].inputs[i] \in wr
    OBVIOUS
  <2>1. i \in 1 .. Len(p[x].inputs) /\ Len(p[x].inputs) \in Nat /\ k \in Nat
    BY DEF Inner
  <2>2. i < k
    BY <2>1
  <2> QED
    BY <2>1, <2>2 DEF Inner
<1>2. x \in DOMAIN p /\ x \in Nat /\ \A y \in DOMAIN p : y <= x /\ ~(y > x)
  BY DEF Inner
<1>3. wr \subseteq DOMAIN p /\ \A y \in wr : \A i \in DOMAIN p[y].inputs : p[y].inputs[i] \in wr
  BY DEF WalksAt, WrittenAt
<1>4. WrittenAt(p, <<>>, wr \cup {x}, x)
  BY <1>1, <1>2, <1>3 DEF WrittenAt
<1>5. PICK e, S : e = <<>> /\ S = FrameType
  OBVIOUS
<1>6. e \in Seq(S) /\ 1 .. Len(e) = {}
  BY <1>5
<1>7. FramesAt(p, e, {}, wr \cup {x}, x) /\ WalkedAt(p, e, wr \cup {x})
  BY <1>5, <1>6 DEF FramesAt, WalkedAt
<1>8. SeenAt(p, e, {}, wr \cup {x}, x)
  BY <1>2 DEF SeenAt
<1> QED
  BY <1>4, <1>5, <1>7, <1>8 DEF WalksAt

\* New nodes, while nothing is walked.
LEMMA WalkWaits ==
  ASSUME NEW p, NEW wr, NEW low, WalksAt(p, <<>>, {}, wr, low), low \in 0 .. Len(p), NEW q, Older(p, q)
  PROVE  WalksAt(q, <<>>, {}, wr, low)
<1>1. wr \subseteq DOMAIN p /\ \A x \in wr : x <= low /\ \A i \in DOMAIN p[x].inputs : p[x].inputs[i] \in wr
  BY DEF WalksAt, WrittenAt
<1>2. DOMAIN p \subseteq DOMAIN q /\ DOMAIN q \subseteq Nat /\ \A x \in DOMAIN p : q[x] = p[x]
  BY DEF Older
<1>3. WrittenAt(q, <<>>, wr, low)
  BY <1>1, <1>2 DEF WrittenAt
<1>4. PICK e, S : e = <<>> /\ S = FrameType
  OBVIOUS
<1>5. e \in Seq(S) /\ 1 .. Len(e) = {}
  BY <1>4
<1>6. FramesAt(q, e, {}, wr, low) /\ WalkedAt(q, e, wr)
  BY <1>4, <1>5 DEF FramesAt, WalkedAt
<1>7. \A x \in wr : ~(x > low)
  <2>1. low \in Nat
    BY DEF Older
  <2> QED
    BY <1>1, <1>2, <2>1
<1>8. SeenAt(q, e, {}, wr, low)
  BY <1>5, <1>7 DEF SeenAt
<1> QED
  BY <1>3, <1>4, <1>6, <1>8 DEF WalksAt

Fresh(q) == /\ Len(q[Len(q)].inputs) \in Nat /\ Len(q[Len(q)].steps) \in Nat
            /\ DOMAIN q[Len(q)].inputs = 1 .. Len(q[Len(q)].inputs)
\* Starting at the root of a new tree.
LEMMA WalkStarts ==
  ASSUME NEW p, NEW wr, NEW low, WalksAt(p, <<>>, {}, wr, low), low \in 0 .. Len(p), NEW q, Older(p, q),
         Len(q) = Len(p) + 1, Fresh(q),
         NEW w, w = <<Frame(Len(p) + 1, 1)>>
  PROVE  WalksAt(q, w, {Len(p) + 1}, wr, low)
<1>1. wr \subseteq DOMAIN p /\ \A x \in wr : x <= low /\ \A i \in DOMAIN p[x].inputs : p[x].inputs[i] \in wr
  BY DEF WalksAt, WrittenAt
<1>2. DOMAIN p \subseteq DOMAIN q /\ DOMAIN q \subseteq Nat /\ \A x \in DOMAIN p : q[x] = p[x]
  BY DEF Older
<1>3. PICK r : r = Len(p) + 1 /\ r = Len(q) /\ r \in Nat /\ r \in DOMAIN q /\ r > low /\ r \notin DOMAIN p
  BY DEF Older
<1>4. PICK f : f = Frame(r, 1)
  OBVIOUS
<1>5. f \in FrameType /\ f.node = r /\ f.next = 1
  BY <1>3, <1>4 DEF Frame, FrameType
<1>6. w = <<f>>
  BY <1>3, <1>4
<1>7. w \in Seq(FrameType) /\ Len(w) = 1 /\ w[1] = f /\ w # <<>>
  <2>1. PICK S : S = FrameType
    OBVIOUS
  <2>2. <<f>> \in Seq(S) /\ Len(<<f>>) = 1 /\ <<f>>[1] = f /\ <<f>> # <<>>
    BY <1>5, <2>1
  <2> QED
    BY <1>6, <2>1, <2>2
<1>8. PICK s, n : s = {Len(p) + 1} /\ r \in s /\ (\A y \in s : y = r) /\ n = NextMost(q, r)
  <2>1. PICK s : s = {Len(p) + 1}
    OBVIOUS
  <2>2. r \in s /\ \A y \in s : y = r
    BY <1>3, <2>1
  <2> QED
    BY <2>1, <2>2
<1>9. n \in Nat /\ n >= 1
  BY <1>3, <1>8, MostIs DEF Fresh
<1> HIDE <1>6
<1>10. \A i \in 1 .. Len(w) : i = 1 /\ w[i] = f /\ ~(i < Len(w))
  BY <1>7
<1>11. 1 \in 1 .. Len(w)
  BY <1>7
<1>12. FramesAt(q, w, s, wr, low)
  <2>1. ASSUME NEW i \in 1 .. Len(w)
        PROVE  /\ w[i].node \in DOMAIN q /\ w[i].node > low /\ w[i].next \in 1 .. NextMost(q, w[i].node)
               /\ w[i].node \in s /\ w[i].node \notin wr
    <3>1. w[i].node = r /\ w[i].next = 1
      BY <1>5, <1>10
    <3>2. r \notin wr
      BY <1>1, <1>3
    <3>3. 1 \in 1 .. NextMost(q, r)
      BY <1>8, <1>9
    <3> QED
      BY <1>3, <1>8, <3>1, <3>2, <3>3
  <2>2. \A i, j \in 1 .. Len(w) : ~(i < j)
    BY <1>10
  <2> QED
    BY <1>7, <1>10, <2>1, <2>2 DEF FramesAt
<1>13. WalkedAt(q, w, wr)
  <2> SUFFICES ASSUME NEW i \in 1 .. Len(w), NEW j \in DOMAIN q[w[i].node].inputs, j < w[i].next PROVE FALSE
    BY DEF WalkedAt
  <2>1. w[i].node = r /\ w[i].next = 1
    BY <1>5, <1>10
  <2>2. j \in Nat \ {0}
    BY <1>3, <2>1 DEF Fresh
  <2> QED
    BY <2>1, <2>2
<1>14. SeenAt(q, w, s, wr, low)
  <2> SUFFICES ASSUME NEW y \in DOMAIN q, y > low
               PROVE  y \in s <=> y \in wr \/ \E i \in 1 .. Len(w) : w[i].node = y
    BY DEF SeenAt
  <2>1. y \notin wr
    <3>1. low \in Nat
      BY DEF Older
    <3> QED
      BY <1>1, <1>2, <3>1
  <2>2. (\E i \in 1 .. Len(w) : w[i].node = y) <=> y = r
    BY <1>5, <1>10, <1>11
  <2> QED
    BY <1>8, <2>1, <2>2
<1>15. WrittenAt(q, w, wr, low)
  BY <1>1, <1>2, <1>7 DEF WrittenAt
<1> QED
  BY <1>8, <1>12, <1>13, <1>14, <1>15 DEF WalksAt

-----------------------------------------------------------------------------
(* The counters of the builders *)

\* The root of every fork that is done is written and creates the exposed name; so does the one walked.
RootsAt(p, exposed, roots, w, wr) ==
  /\ \A i \in 1 .. Len(roots) : roots[i] \in wr /\ CreatesItself(p[roots[i]], exposed[i])
  /\ w # <<>> => w[1].node = Len(p) /\ CreatesItself(p[Len(p)], exposed[Len(roots) + 1])
\* The counters of this fork and of the forks that are done count every node of a builder.
CountedAt(p, now, counted) ==
  /\ now \in [BuilderNames -> Nat] /\ counted \in [BuilderNames -> Nat]
  /\ \A b \in BuilderNames : counted[b] + now[b] = Cardinality(By(p, b))
\* No builder has more written nodes than it is counted for.
CoveredAt(p, wr, counted) == \A b \in BuilderNames : Cardinality({id \in wr : p[id].by = b}) <= counted[b]

\* The invariant of the emission.
EmissionOK ==
  /\ GenOK /\ WalksAt(nodes, walking, seen, written, LastRoot) /\ (walking = <<>> => seen = {})
  /\ RootsAt(nodes, exposed_names, forks, walking, written)
  /\ CountedAt(nodes, chosen, builders)
  /\ walking = <<>> => CoveredAt(nodes, written, builders)

\* A builder has finitely many nodes.
LEMMA ByFinite ==
  ASSUME NEW p, DOMAIN p = 1 .. Len(p), Len(p) \in Nat, NEW b
  PROVE  IsFiniteSet(By(p, b)) /\ Cardinality(By(p, b)) \in Nat
<1>1. IsFiniteSet(1 .. Len(p))
  BY FS_Interval
<1>2. By(p, b) \in SUBSET (1 .. Len(p))
  BY DEF By
<1>3. IsFiniteSet(By(p, b))
  BY <1>1, <1>2, FS_Subset
<1> QED
  BY <1>3, FS_CardinalityType

\* One node more is counted for one builder.
LEMMA OneMoreCounted ==
  ASSUME NEW p, NEW now, NEW counted, CountedAt(p, now, counted), DOMAIN p = 1 .. Len(p), Len(p) \in Nat,
         NEW q, NEW builder \in BuilderNames, NEW x, x \notin By(p, builder),
         \A b \in BuilderNames : By(q, b) = IF b = builder THEN By(p, b) \cup {x} ELSE By(p, b),
         NEW next, next = [now EXCEPT ![builder] = @ + 1]
  PROVE  CountedAt(q, next, counted)
<1>1. now \in [BuilderNames -> Nat] /\ counted \in [BuilderNames -> Nat]
  BY DEF CountedAt
<1>2. next \in [BuilderNames -> Nat]
  BY <1>1
<1>3. ASSUME NEW b \in BuilderNames PROVE counted[b] + next[b] = Cardinality(By(q, b))
  <2>1. counted[b] + now[b] = Cardinality(By(p, b)) /\ now[b] \in Nat /\ counted[b] \in Nat
    BY <1>1 DEF CountedAt
  <2>2. CASE b = builder
    <3>1. Cardinality(By(p, b) \cup {x}) = Cardinality(By(p, b)) + 1
      BY <2>2, ByFinite, FS_AddElement
    <3>2. next[b] = now[b] + 1
      BY <1>1, <2>2
    <3>3. By(q, b) = By(p, b) \cup {x}
      BY <2>2
    <3>4. Cardinality(By(q, b)) = Cardinality(By(p, b)) + 1
      BY <3>1, <3>3
    <3> QED
      BY <2>1, <3>2, <3>4
  <2>3. CASE b # builder
    <3>1. next[b] = now[b]
      BY <1>1, <2>3
    <3> QED
      BY <2>1, <2>3, <3>1
  <2> QED
    BY <2>2, <2>3
<1> QED
  BY <1>1, <1>2, <1>3 DEF CountedAt

\* New nodes leave the counters of the written ones as they are.
LEMMA StillCovered ==
  ASSUME NEW p, NEW q, Older(p, q), NEW wr, wr \subseteq DOMAIN p, NEW counted, CoveredAt(p, wr, counted)
  PROVE  CoveredAt(q, wr, counted)
<1> SUFFICES ASSUME NEW b \in BuilderNames PROVE Cardinality({id \in wr : q[id].by = b}) <= counted[b]
  BY DEF CoveredAt
<1>1. {id \in wr : q[id].by = b} = {id \in wr : p[id].by = b}
  BY DEF Older
<1> QED
  BY <1>1 DEF CoveredAt

\* At the end of a fork the counters take over what has been chosen for it.
LEMMA CoveredAtEnd ==
  ASSUME NEW p, DOMAIN p = 1 .. Len(p), Len(p) \in Nat, NEW wr, wr \subseteq DOMAIN p,
         NEW now, NEW counted, CountedAt(p, now, counted),
         NEW next, next = [b \in BuilderNames |-> counted[b] + now[b]], NEW none, none = [b \in BuilderNames |-> 0]
  PROVE  CoveredAt(p, wr, next) /\ CountedAt(p, none, next)
<1>1. now \in [BuilderNames -> Nat] /\ counted \in [BuilderNames -> Nat]
  BY DEF CountedAt
<1>2. next \in [BuilderNames -> Nat] /\ none \in [BuilderNames -> Nat]
  BY <1>1
<1>3. ASSUME NEW b \in BuilderNames
      PROVE  /\ next[b] = Cardinality(By(p, b)) /\ none[b] = 0 /\ next[b] \in Nat
             /\ Cardinality({id \in wr : p[id].by = b}) <= next[b]
  <2>1. next[b] = Cardinality(By(p, b)) /\ none[b] = 0 /\ next[b] \in Nat
    BY <1>2 DEF CountedAt
  <2>2. PICK T : T = {id \in wr : p[id].by = b}
    OBVIOUS
  <2>3. T \in SUBSET By(p, b)
    BY <2>2 DEF By
  <2>4. Cardinality(T) <= Cardinality(By(p, b))
    BY <2>3, ByFinite, FS_Subset
  <2> QED
    BY <2>1, <2>2, <2>4
<1> QED
  BY <1>2, <1>3 DEF CoveredAt, CountedAt

-----------------------------------------------------------------------------
(* The steps of the emission keep its invariant *)

\* The nodes and the last root.
LEMMA NodesAre ==
  ASSUME GenOK
  PROVE  /\ nodes \in Seq(NodeType) /\ DOMAIN nodes = 1 .. Len(nodes) /\ Len(nodes) \in Nat
         /\ LastRoot \in 0 .. Len(nodes) /\ LastRoot \in Nat
<1>1. nodes \in Seq(NodeType) /\ LastRoot \in 0 .. Len(nodes)
  BY DEF GenOK, Growing, Tree, TypedNodes
<1>2. PICK S : S = NodeType
  OBVIOUS
<1>3. DOMAIN nodes = 1 .. Len(nodes) /\ Len(nodes) \in Nat
  BY <1>1, <1>2
<1> QED
  BY <1>1, <1>3

\* Declining keeps the invariant.
LEMMA DeclineKeepsEmission ==
  ASSUME EmissionOK, Decline
  PROVE  EmissionOK'
<1>1. GenOK'
  BY DeclineKeeps DEF EmissionOK
<1>2. UNCHANGED <<exposed_names, nodes, forks, chosen, builders, walking, seen, setup_statements, written>>
  BY DEF Decline, walkVars
<1>3. LastRoot' = LastRoot
  BY <1>2 DEF LastRoot
<1> QED
  BY <1>1, <1>2, <1>3, Zenon DEF EmissionOK, Decline

\* The roots of the forks that are done stay, and the new one creates its exposed name.
LEMMA RootsStay ==
  ASSUME NEW p, NEW q, Older(p, q), NEW exposed, NEW roots, NEW wr, wr \subseteq DOMAIN p, NEW w,
         RootsAt(p, exposed, roots, <<>>, wr),
         w # <<>> => w[1].node = Len(q) /\ CreatesItself(q[Len(q)], exposed[Len(roots) + 1])
  PROVE  RootsAt(q, exposed, roots, w, wr)
<1>1. \A i \in 1 .. Len(roots) : roots[i] \in wr /\ CreatesItself(p[roots[i]], exposed[i])
  BY DEF RootsAt
<1>2. \A x \in wr : q[x] = p[x]
  BY DEF Older
<1> QED
  BY <1>1, <1>2 DEF RootsAt

\* Every builder keeps the invariant; one at the root starts the walk.
LEMMA GenerateKeepsEmission ==
  ASSUME EmissionOK, Generate
  PROVE  EmissionOK'
<1>1. GenOK /\ GenOK' /\ ExposedOK(exposed_names) /\ forks \in Seq(Nat)
  BY GenerateKeeps DEF EmissionOK, GenOK
<1>2. CASE Decline
  BY <1>2, DeclineKeepsEmission
<1>3. ASSUME NEW builder, NEW more, Adds(builder, more) PROVE EmissionOK'
  <2>1. /\ builder \in BuilderNames /\ Given(builder, more) /\ walking = <<>> /\ nodes' = nodes \o more
        /\ chosen' = [chosen EXCEPT ![builder] = @ + 1]
        /\ exposed_names' = exposed_names /\ forks' = forks /\ builders' = builders /\ written' = written
    BY <1>3 DEF Adds, Generating
  <2>2. /\ nodes \in Seq(NodeType) /\ DOMAIN nodes = 1 .. Len(nodes) /\ Len(nodes) \in Nat
        /\ LastRoot \in 0 .. Len(nodes)
    BY <1>1, NodesAre
  <2>3. nodes' \in Seq(NodeType)
    BY <1>1 DEF GenOK, Growing, Tree, TypedNodes
  <2>4. PICK q : q = nodes'
    OBVIOUS
  <2>5. /\ Older(nodes, q) /\ Len(q) = Len(nodes) + Len(more) /\ Len(more) \in Nat \ {0}
        /\ Len(more) = 1 => q[Len(q)] = more[1]
        /\ Len(q) \notin By(nodes, builder)
        /\ \A b \in BuilderNames : By(q, b) = IF b = builder THEN By(nodes, b) \cup {Len(q)} ELSE By(nodes, b)
    <3>1. PICK S : S = NodeType
      OBVIOUS
    <3>2. nodes \in Seq(S) /\ builder \in BuilderNames /\ Given(builder, more) /\ q = nodes \o more
      BY <2>1, <2>2, <2>4, <3>1
    <3>3. Extended(nodes, q, builder, more)
      BY <3>2, MoreNodes
    <3> QED
      BY <3>3 DEF Extended
  <2>6. LastRoot' = LastRoot
    BY <2>1 DEF LastRoot
  <2>7. seen = {} /\ WalksAt(nodes, <<>>, {}, written, LastRoot) /\ written \subseteq DOMAIN nodes
    BY <2>1 DEF EmissionOK, WalksAt, WrittenAt
  <2>8. CountedAt(q, chosen', builders)
    BY <2>1, <2>2, <2>5, OneMoreCounted DEF EmissionOK
  <2>9. CoveredAt(q, written, builders)
    BY <2>1, <2>5, <2>7, StillCovered DEF EmissionOK
  <2>10. RootsAt(nodes, exposed_names, forks, <<>>, written)
    BY <2>1 DEF EmissionOK
  <2>11. CASE UNCHANGED <<walking, seen>>
    <3>1. WalksAt(q, <<>>, {}, written, LastRoot)
      BY <2>2, <2>5, <2>7, WalkWaits
    <3>2. RootsAt(q, exposed_names, forks, <<>>, written)
      BY <2>5, <2>7, <2>10, RootsStay
    <3> QED
      BY <1>1, <2>1, <2>4, <2>6, <2>7, <2>8, <2>9, <2>11, <3>1, <3>2, Zenon DEF EmissionOK
  <2>12. CASE Starts(more)
    <3>1. Len(q) = Len(nodes) + 1 /\ q[Len(q)] = more[1] /\ CreatesItself(q[Len(q)], exposed_names[Len(forks) + 1])
      BY <2>5, <2>12 DEF Starts
    <3>2. Fresh(q)
      <4>1. Len(q) \in DOMAIN q /\ q \in Seq(NodeType)
        BY <2>2, <2>3, <2>4, <2>5, <3>1 DEF Older
      <4>2. q[Len(q)].inputs \in Seq(Nat) /\ q[Len(q)].steps \in Seq(StepType)
        BY <4>1, NodeFields
      <4>3. Len(q[Len(q)].inputs) \in Nat /\ DOMAIN q[Len(q)].inputs = 1 .. Len(q[Len(q)].inputs)
        BY <4>2
      <4>4. Len(q[Len(q)].steps) \in Nat
        <5>1. PICK S : S = StepType
          OBVIOUS
        <5> QED
          BY <4>2, <5>1
      <4> QED
        BY <4>3, <4>4 DEF Fresh
    <3>3. PICK w : w = walking' /\ w = <<Frame(Len(nodes) + 1, 1)>>
      BY <2>12 DEF Starts
    <3>4. seen' = {Len(nodes) + 1}
      BY <2>12 DEF Starts
    <3>5. WalksAt(q, w, {Len(nodes) + 1}, written, LastRoot)
      BY <2>2, <2>5, <2>7, <3>1, <3>2, <3>3, WalkStarts
    <3>6. w[1].node = Len(nodes) + 1 /\ w # <<>>
      <4>1. PICK f : f = Frame(Len(nodes) + 1, 1)
        OBVIOUS
      <4>2. f.node = Len(nodes) + 1
        BY <4>1 DEF Frame
      <4>3. w = <<f>>
        BY <3>3, <4>1
      <4>4. <<f>>[1] = f /\ <<f>> # <<>>
        OBVIOUS
      <4> QED
        BY <4>2, <4>3, <4>4
    <3>7. RootsAt(q, exposed_names, forks, w, written)
      BY <2>5, <2>7, <2>10, <3>1, <3>6, RootsStay
    <3> QED
      BY <1>1, <2>1, <2>4, <2>6, <2>8, <2>9, <3>3, <3>4, <3>5, <3>6, <3>7, Zenon DEF EmissionOK
  <2> QED
    BY <1>3, <2>11, <2>12 DEF Adds
<1> QED
  BY <1>1, <1>2, <1>3, GenerateAdds

\* Where the innermost call is.
At(x, k) ==
  /\ Inner(nodes, walking, written, LastRoot, x, k) /\ walking # <<>> /\ walking \in Seq(FrameType)
  /\ Call.node = x /\ Call.next = k /\ Walked = nodes[x] /\ NextChild = nodes[x].inputs[k]
  /\ AtChild <=> k <= Len(nodes[x].inputs)
  /\ NextStep = k - Len(nodes[x].inputs)

\* The innermost call of the walk.
LEMMA CallIs ==
  ASSUME EmissionOK, walking # <<>>
  PROVE  \E x, k : At(x, k)
<1>1. Growing(nodes, UsedNames, stack, LastRoot) /\ WalksAt(nodes, walking, seen, written, LastRoot)
  BY DEF EmissionOK, GenOK
<1>2. PICK x, k : Inner(nodes, walking, written, LastRoot, x, k)
  BY <1>1, InnerIs
<1>3. x = walking[Len(walking)].node /\ k = walking[Len(walking)].next
  BY <1>2 DEF Inner
<1>4. Call.node = x /\ Call.next = k
  BY <1>3 DEF Call
<1>5. walking \in Seq(FrameType)
  BY <1>1 DEF WalksAt, FramesAt
<1>6. /\ Walked = nodes[x] /\ NextChild = nodes[x].inputs[k]
      /\ AtChild <=> k <= Len(nodes[x].inputs)
      /\ NextStep = k - Len(nodes[x].inputs)
  BY <1>4 DEF Walked, NextChild, AtChild, NextStep
<1>7. At(x, k)
  BY <1>2, <1>4, <1>5, <1>6 DEF At
<1> QED
  BY <1>7

\* The walk leaves the trees as they are.
LEMMA WalkingKeepsGen ==
  ASSUME GenOK, walking # <<>>, walking' # <<>>, UNCHANGED treeVars
  PROVE  GenOK'
<1>1. /\ exposed_names' = exposed_names /\ nodes' = nodes /\ stack' = stack /\ names' = names /\ forks' = forks
  BY DEF treeVars
<1>2. LastRoot' = LastRoot /\ Started' = Started
  BY <1>1 DEF LastRoot, Started
<1>3. UsedNames' = UsedNames
  BY <1>1, <1>2 DEF UsedNames
<1> QED
  BY <1>1, <1>2, <1>3, Zenon DEF GenOK

\* The frames of calls that go on.
GoesOn(w, v) == v # <<>> /\ v[1].node = w[1].node

\* A step of the innermost call leaves the walk at the same root.
LEMMA MovesGoesOn == ASSUME NEW w, NEW m, Len(w) \in Nat \ {0}, Moves(w, m) PROVE GoesOn(w, m)
<1>1. m # <<>>
  <2>1. SUFFICES ASSUME m = <<>> PROVE FALSE
    OBVIOUS
  <2>2. Len(m) = 0
    BY <2>1
  <2> QED
    BY <2>2 DEF Moves
<1>2. PICK l : l = Len(w)
  OBVIOUS
<1>3. l \in Nat \ {0} /\ (\A i \in 1 .. l : i < l => m[i] = w[i]) /\ m[l].node = w[l].node
  BY <1>2 DEF Moves
<1>4. m[1].node = w[1].node
  <2>1. CASE l = 1
    BY <1>3, <2>1
  <2>2. CASE l # 1
    <3>1. 1 \in 1 .. l /\ 1 < l
      BY <1>3, <2>2
    <3> QED
      BY <1>3, <3>1
  <2> QED
    BY <2>1, <2>2
<1> QED
  BY <1>1, <1>4 DEF GoesOn

\* The walk keeps the invariant while it goes on.
LEMMA WalkingKeepsEmission ==
  ASSUME EmissionOK, walking # <<>>, UNCHANGED treeVars, GoesOn(walking, walking'),
         WalksAt(nodes, walking', seen', written', LastRoot), written \subseteq written'
  PROVE  EmissionOK'
<1>1. /\ exposed_names' = exposed_names /\ nodes' = nodes /\ forks' = forks /\ chosen' = chosen /\ builders' = builders
  BY DEF treeVars
<1>2. walking' # <<>> /\ walking'[1].node = walking[1].node
  BY DEF GoesOn
<1>3. GenOK'
  BY <1>2, WalkingKeepsGen DEF EmissionOK
<1>4. LastRoot' = LastRoot
  BY <1>1 DEF LastRoot
<1>5. RootsAt(nodes, exposed_names, forks, walking', written')
  BY <1>2 DEF EmissionOK, RootsAt
<1>6. CountedAt(nodes, chosen, builders)
  BY DEF EmissionOK
<1> QED
  BY <1>1, <1>2, <1>3, <1>4, <1>5, <1>6, Zenon DEF EmissionOK

\* The call that goes on.
LEMMA MovedIs ==
  ASSUME EmissionOK, walking # <<>>
  PROVE  Moves(walking, Moved)
<1>1. walking \in Seq(FrameType)
  BY DEF EmissionOK, WalksAt, FramesAt
<1>2. PICK m : m = Moved /\ m = [walking EXCEPT ![Len(walking)] = Frame(walking[Len(walking)].node, walking[Len(walking)].next + 1)]
  BY Zenon DEF Moved, Call
<1> QED
  BY <1>1, <1>2, MovesIs

\* Skipping a seen input keeps the invariant.
LEMMA SkipChildKeeps ==
  ASSUME EmissionOK, SkipChild
  PROVE  EmissionOK'
<1>1. /\ walking # <<>> /\ AtChild /\ NextChild \in seen /\ walking' = Moved
      /\ UNCHANGED treeVars /\ seen' = seen /\ written' = written
  BY DEF SkipChild, AtChild, visited
<1>2. PICK x, k : At(x, k)
  BY <1>1, CallIs
<1>3. Inner(nodes, walking, written, LastRoot, x, k) /\ k <= Len(nodes[x].inputs) /\ nodes[x].inputs[k] \in seen
  BY <1>1, <1>2 DEF At
<1>4. PICK m : m = walking' /\ Moves(walking, m)
  BY <1>1, MovedIs
<1>5. WalksAt(nodes, m, seen, written, LastRoot)
  BY <1>3, <1>4, WalkSkips DEF EmissionOK
<1>6. GoesOn(walking, m)
  BY <1>3, <1>4, MovesGoesOn DEF Inner
<1> QED
  BY <1>1, <1>4, <1>5, <1>6, WalkingKeepsEmission

\* Walking into an input keeps the invariant.
LEMMA WalkChildKeeps ==
  ASSUME EmissionOK, WalkChild
  PROVE  EmissionOK'
<1>1. /\ walking # <<>> /\ AtChild /\ NextChild \notin seen /\ walking' = Append(Moved, Frame(NextChild, 1))
      /\ UNCHANGED treeVars /\ seen' = seen \cup {NextChild} /\ written' = written
  BY DEF WalkChild, AtChild, visited
<1>2. PICK x, k : At(x, k)
  BY <1>1, CallIs
<1>3. PICK c : c = NextChild
  OBVIOUS
<1>4. Inner(nodes, walking, written, LastRoot, x, k) /\ k <= Len(nodes[x].inputs) /\ nodes[x].inputs[k] = c
  BY <1>1, <1>2, <1>3 DEF At
<1>5. PICK m : m = Moved /\ Moves(walking, m)
  BY <1>1, MovedIs
<1>6. PICK v : v = walking' /\ Calls(m, c, v)
  BY <1>1, <1>3, <1>5 DEF Calls
<1>7. c \in DOMAIN nodes
  <2>1. k \in 1 .. Len(nodes[x].inputs)
    BY <1>4, MostIs DEF Inner
  <2> QED
    BY <1>4, <2>1 DEF Inner
<1>8. ChildIs(nodes, x, k, c)
  <2>1. nodes \in Seq(NodeType)
    BY NodesAre DEF EmissionOK
  <2>2. nodes[c].inputs \in Seq(Nat) /\ nodes[c].steps \in Seq(StepType)
    BY <1>7, <2>1, NodeFields
  <2>3. Len(nodes[c].inputs) \in Nat /\ DOMAIN nodes[c].inputs = 1 .. Len(nodes[c].inputs)
    BY <2>2
  <2>4. Len(nodes[c].steps) \in Nat
    <3>1. PICK S : S = StepType
      OBVIOUS
    <3> QED
      BY <2>2, <3>1
  <2> QED
    BY <1>4, <2>3, <2>4 DEF ChildIs
<1>9. WalksAt(nodes, v, seen \cup {c}, written, LastRoot)
  BY <1>1, <1>3, <1>4, <1>5, <1>6, <1>8, WalkCalls DEF EmissionOK
<1>10. GoesOn(walking, v)
  <2>1. GoesOn(walking, m) /\ Len(m) \in Nat \ {0} /\ m \in Seq(FrameType)
    BY <1>4, <1>5, MovesGoesOn DEF Inner, Moves
  <2>2. PICK S, f : S = FrameType \cup {f} /\ f = Frame(c, 1)
    OBVIOUS
  <2>3. m \in Seq(S) /\ f \in S /\ v = Append(m, f)
    BY <1>6, <2>1, <2>2 DEF Calls
  <2>4. v \in Seq(S) /\ v[1] = m[1] /\ Len(v) = Len(m) + 1
    BY <2>1, <2>3
  <2>5. v # <<>>
    BY <2>1, <2>4
  <2> QED
    BY <2>1, <2>4, <2>5 DEF GoesOn
<1> QED
  BY <1>1, <1>3, <1>6, <1>9, <1>10, WalkingKeepsEmission

\* Writing a step keeps the invariant.
LEMMA WriteStepKeeps ==
  ASSUME EmissionOK, WriteStep
  PROVE  EmissionOK'
<1>1. /\ walking # <<>> /\ ~AtChild /\ NextStep <= Len(Walked.steps) /\ walking' = Moved
      /\ UNCHANGED treeVars /\ seen' = seen /\ written' = written
  BY DEF WriteStep
<1>2. PICK x, k : At(x, k)
  BY <1>1, CallIs
<1>3. Inner(nodes, walking, written, LastRoot, x, k) /\ ~(k <= Len(nodes[x].inputs)) /\ k - Len(nodes[x].inputs) <= Len(nodes[x].steps)
  BY <1>1, <1>2 DEF At
<1>4. PICK m : m = walking' /\ Moves(walking, m)
  BY <1>1, MovedIs
<1>5. k + 1 <= NextMost(nodes, x)
  <2>1. PICK a, b : a = Len(nodes[x].inputs) /\ b = Len(nodes[x].steps)
    OBVIOUS
  <2>2. a \in Nat /\ b \in Nat /\ k \in Nat /\ k - a <= b /\ NextMost(nodes, x) = a + b + 1
    BY <1>3, <2>1 DEF Inner, NextMost
  <2> QED
    BY <2>2
<1>6. WalksAt(nodes, m, seen, written, LastRoot)
  BY <1>3, <1>4, <1>5, WalkWrites DEF EmissionOK
<1>7. GoesOn(walking, m)
  BY <1>3, <1>4, MovesGoesOn DEF Inner
<1> QED
  BY <1>1, <1>4, <1>6, <1>7, WalkingKeepsEmission

\* Returning from an input keeps the invariant.
LEMMA ReturnKeeps ==
  ASSUME EmissionOK, Return
  PROVE  EmissionOK'
<1>1. /\ walking # <<>> /\ ~AtChild /\ Len(walking) > 1
      /\ UNCHANGED treeVars /\ seen' = seen /\ written' = written \cup {Call.node}
  BY DEF Return, AllWritten
<1>2. PICK x, k : At(x, k)
  BY <1>1, CallIs
<1>3. Inner(nodes, walking, written, LastRoot, x, k) /\ ~(k <= Len(nodes[x].inputs)) /\ Call.node = x
  BY <1>1, <1>2 DEF At
<1>4. PICK v : v = walking' /\ Pops(walking, v)
  BY Zenon DEF Return, Pops
<1>5. WalksAt(nodes, v, seen, written \cup {x}, LastRoot)
  BY <1>1, <1>3, <1>4, WalkReturns DEF EmissionOK
<1>6. GoesOn(walking, v)
  <2>1. PICK S, l : S = FrameType /\ l = Len(walking)
    OBVIOUS
  <2>2. walking \in Seq(S)
    BY <1>2, <2>1 DEF At
  <2>3. l \in Nat /\ l > 1 /\ v = SubSeq(walking, 1, l - 1)
    BY <1>1, <1>4, <2>1, <2>2 DEF Pops
  <2>4. v \in Seq(S) /\ Len(v) = l - 1 /\ v[1] = walking[1]
    BY <2>1, <2>2, <2>3
  <2>5. v # <<>>
    <3>1. SUFFICES ASSUME v = <<>> PROVE FALSE
      OBVIOUS
    <3>2. Len(v) = 0
      BY <3>1
    <3> QED
      BY <2>3, <2>4, <3>2
  <2> QED
    BY <2>4, <2>5 DEF GoesOn
<1> QED
  BY <1>1, <1>3, <1>4, <1>5, <1>6, WalkingKeepsEmission

\* Nothing waits, and the next fork's nodes are all to come.
LEMMA GrowingOver ==
  ASSUME NEW p, NEW u, NEW st, NEW low, Growing(p, u, st, low), NEW e, e = <<>>
  PROVE  Growing(p, u, e, Len(p))
<1>1. p \in Seq(NodeType)
  BY DEF Growing, Tree, TypedNodes
<1>2. PICK S : S = NodeType
  OBVIOUS
<1>3. Len(p) \in Nat /\ DOMAIN p = 1 .. Len(p)
  BY <1>1, <1>2
<1>4. \A x \in DOMAIN p : ~(x > Len(p))
  BY <1>3
<1>5. ForkApart(p, Len(p))
  BY <1>4 DEF ForkApart
<1>6. e \in Seq(Nat) /\ DOMAIN e = {}
  BY DEF Growing
<1>7. Waiting(p, e, Len(p))
  BY <1>6 DEF Waiting
<1> QED
  BY <1>3, <1>5, <1>7 DEF Growing

\* The end of a fork keeps the invariant: its name is used now, and its builders are counted.
LEMMA EndForkKeeps ==
  ASSUME EmissionOK, EndFork
  PROVE  EmissionOK'
<1>1. /\ walking # <<>> /\ ~AtChild /\ Len(walking) = 1
      /\ walking' = <<>> /\ seen' = {} /\ written' = written \cup {Call.node} /\ forks' = Append(forks, Call.node)
      /\ builders' = [b \in BuilderNames |-> builders[b] + chosen[b]]
      /\ chosen' = [b \in BuilderNames |-> 0]
      /\ exposed_names' = exposed_names /\ nodes' = nodes /\ stack' = stack /\ names' = names
  BY DEF EndFork, AllWritten, CountFork
<1>2. PICK x, k : At(x, k)
  BY <1>1, CallIs
<1>3. /\ Inner(nodes, walking, written, LastRoot, x, k) /\ ~(k <= Len(nodes[x].inputs)) /\ Call.node = x
      /\ x = walking[1].node
  BY <1>1, <1>2 DEF At, Inner
<1>4. x = Len(nodes) /\ CreatesItself(nodes[x], exposed_names[Len(forks) + 1])
  BY <1>1, <1>3 DEF EmissionOK, RootsAt
<1>5. /\ nodes \in Seq(NodeType) /\ DOMAIN nodes = 1 .. Len(nodes) /\ Len(nodes) \in Nat
  BY NodesAre DEF EmissionOK
<1>6. WalksAt(nodes, <<>>, {}, written \cup {x}, x)
  BY <1>3, <1>4, <1>5, WalkEnds DEF EmissionOK
<1>7. PICK next : next = forks' /\ next = Append(forks, x)
  BY <1>1, <1>3
<1>8. PICK f : f = Len(forks) /\ f \in Nat /\ forks \in Seq(Nat) /\ f < Len(exposed_names) /\ Len(exposed_names) \in Nat
  <2>1. PICK S : S = {"t"} \X Nat
    OBVIOUS
  <2>2. exposed_names \in Seq(S) /\ forks \in Seq(Nat) /\ Len(forks) < Len(exposed_names)
    BY <1>1, <2>1 DEF EmissionOK, GenOK, ExposedOK
  <2> QED
    BY <2>2
<1>9. /\ next \in Seq(Nat) /\ Len(next) = f + 1 /\ next[f + 1] = x /\ \A i \in 1 .. f : next[i] = forks[i]
      /\ next # <<>>
  BY <1>4, <1>5, <1>7, <1>8
<1>10. LastRoot' = x
  BY <1>7, <1>9 DEF LastRoot
<1>11. Started' = f + 1 /\ Started = f + 1
  <2>1. Started = f + 1
    BY <1>1, <1>8 DEF Started
  <2>2. Started' = f + 1
    BY <1>1, <1>7, <1>8, <1>9 DEF Started
  <2> QED
    BY <2>1, <2>2
<1>12. UsedNames' = UsedNames
  BY <1>1, <1>11 DEF UsedNames
<1>13. Growing(nodes, UsedNames, stack, x)
  <2>1. stack = <<>> /\ Growing(nodes, UsedNames, stack, LastRoot)
    BY <1>1 DEF EmissionOK, GenOK
  <2> QED
    BY <1>4, <2>1, GrowingOver
<1>14. GenOK'
  <2>1. names \in [NameKinds -> Nat] /\ ExposedOK(exposed_names)
    BY DEF EmissionOK, GenOK
  <2>2. Len(next) <= Len(exposed_names)
    BY <1>8, <1>9
  <2>3. Growing(nodes', UsedNames', stack', LastRoot')
    BY <1>1, <1>10, <1>12, <1>13, Zenon
  <2> QED
    BY <1>1, <1>7, <1>9, <2>1, <2>2, <2>3, Zenon DEF GenOK
<1>15. RootsAt(nodes, exposed_names, next, <<>>, written \cup {x})
  <2>1. \A i \in 1 .. f : forks[i] \in written /\ CreatesItself(nodes[forks[i]], exposed_names[i])
    BY <1>8 DEF EmissionOK, RootsAt
  <2>2. ASSUME NEW i \in 1 .. f + 1 PROVE next[i] \in written \cup {x} /\ CreatesItself(nodes[next[i]], exposed_names[i])
    <3>1. i \in 1 .. f \/ i = f + 1
      BY <1>8
    <3> QED
      BY <1>4, <1>8, <1>9, <2>1, <3>1
  <2> QED
    BY <1>9, <2>2 DEF RootsAt
<1>16. CoveredAt(nodes, written \cup {x}, builders') /\ CountedAt(nodes, chosen', builders')
  <2>1. written \cup {x} \subseteq DOMAIN nodes
    BY <1>6 DEF WalksAt, WrittenAt
  <2>2. CountedAt(nodes, chosen, builders)
    BY DEF EmissionOK
  <2> QED
    BY <1>1, <1>5, <2>1, <2>2, CoveredAtEnd
<1> QED
  BY <1>1, <1>3, <1>6, <1>7, <1>10, <1>14, <1>15, <1>16, Zenon DEF EmissionOK

\* Every step of the generator keeps the invariant.
LEMMA EmissionStepKeeps ==
  ASSUME EmissionOK, emit_equivalence
  PROVE  EmissionOK'
BY SkipChildKeeps, WalkChildKeeps, WriteStepKeeps, ReturnKeeps, EndForkKeeps DEF emit_equivalence

\* The exposed names are distinct, and the seed is one only if it is the only one.
LEMMA ExposedNamesOK ==
  ASSUME NEW count \in Nat \ {0}
  PROVE  ExposedOK(exposed_fork_names(count))
<1>1. PICK e, S : e = exposed_fork_names(count) /\ S = {"t"} \X Nat
  OBVIOUS
<1>2. CASE count = 1
  <2>1. e = <<seed_name>>
    BY <1>1, <1>2 DEF exposed_fork_names
  <2>2. seed_name \in S
    BY <1>1 DEF seed_name
  <2>3. e \in Seq(S) /\ Len(e) = 1 /\ e[1] = seed_name /\ e # <<>>
    <3>1. <<seed_name>> \in Seq(S) /\ Len(<<seed_name>>) = 1 /\ <<seed_name>>[1] = seed_name
      BY <2>2
    <3> QED
      BY <2>1, <3>1
  <2>4. DOMAIN e = 1 .. 1
    BY <2>3
  <2>5. \A i \in DOMAIN e : i = 1
    BY <2>4
  <2> QED
    BY <1>1, <2>3, <2>5 DEF ExposedOK
<1>3. CASE count # 1
  <2>1. e = [i \in 1 .. count |-> <<"t", i>>]
    BY <1>1, <1>3 DEF exposed_fork_names
  <2>2. \A i \in 1 .. count : e[i] = <<"t", i>> /\ e[i] \in S
    BY <1>1, <2>1
  <2>3. e \in Seq(S) /\ Len(e) = count /\ DOMAIN e = 1 .. count
    <3>1. e \in [1 .. count -> S]
      BY <2>1, <2>2
    <3> QED
      BY <3>1
  <2>4. e # <<>>
    BY <2>3
  <2>5. \A i, j \in 1 .. count : e[i] = e[j] => i = j
    BY <2>2
  <2>6. \A i \in 1 .. count : e[i] # seed_name
    <3> SUFFICES ASSUME NEW i \in 1 .. count, e[i] = seed_name PROVE FALSE
      OBVIOUS
    <3>1. <<"t", i>> = <<"t", 0>> /\ i # 0
      BY <2>2 DEF seed_name
    <3> QED
      BY <3>1
  <2> QED
    BY <1>1, <2>3, <2>4, <2>5, <2>6 DEF ExposedOK
<1> QED
  BY <1>2, <1>3

\* No node is a tree.
LEMMA NoNodesTree ==
  ASSUME NEW e, e = <<>>, NEW u, hidden_base_name \notin u
  PROVE  Growing(e, u, e, 0)
<1>1. PICK S : S = NodeType
  OBVIOUS
<1>2. e \in Seq(S) /\ e \in Seq(Nat) /\ DOMAIN e = {} /\ Len(e) = 0
  BY <1>1
<1>3. TypedNodes(e) /\ InputsBefore(e) /\ Shaped(e) /\ InUse(e, u)
  BY <1>1, <1>2 DEF TypedNodes, InputsBefore, Shaped, InUse
<1>4. Apart(e) /\ InChain(e) /\ Settled(e)
  BY <1>2 DEF Apart, InChain, Settled
<1>5. Waiting(e, e, 0) /\ ForkApart(e, 0)
  BY <1>2 DEF Waiting, ForkApart
<1> QED
  BY <1>2, <1>3, <1>4, <1>5 DEF Growing, Tree

\* The invariant holds before the first fork.
LEMMA EmissionStarts ==
  ASSUME EmissionInit
  PROVE  EmissionOK
<1>1. /\ nodes = <<>> /\ stack = <<>> /\ forks = <<>> /\ walking = <<>> /\ seen = {} /\ written = {}
      /\ names = [p \in NameKinds |-> 0]
      /\ chosen = [b \in BuilderNames |-> 0] /\ builders = [b \in BuilderNames |-> 0]
  BY DEF EmissionInit
<1>2. ExposedOK(exposed_names)
  <2>1. PICK count \in 1 .. MaxForks : exposed_names = exposed_fork_names(count)
    BY DEF EmissionInit
  <2>2. count \in Nat \ {0}
    BY BoundsAssumption
  <2> QED
    BY <2>1, <2>2, ExposedNamesOK
<1>3. LastRoot = 0 /\ Started = 0
  <2>1. Len(forks) = 0
    BY <1>1
  <2> QED
    BY <1>1, <2>1 DEF LastRoot, Started
<1>4. hidden_base_name \notin UsedNames
  <2>1. \A k \in NameKinds : names[k] = 0
    BY <1>1
  <2>2. \A name \in NameKinds \X Nat : name[1] \in NameKinds
    OBVIOUS
  <2>3. UsedNames = {}
    <3>1. {name \in NameKinds \X Nat : name[2] \in 1 .. names[name[1]]} = {}
      BY <2>1, <2>2
    <3>2. {exposed_names[i] : i \in 1 .. Started} = {}
      BY <1>3
    <3> QED
      BY <3>1, <3>2, <1>3 DEF UsedNames, UsedOf
  <2> QED
    BY <2>3
<1>5. GenOK
  <2>1. names \in [NameKinds -> Nat]
    BY <1>1
  <2>2. forks \in Seq(Nat) /\ Len(forks) = 0
    BY <1>1
  <2>3. Len(forks) <= Len(exposed_names)
    <3>1. PICK S : S = {"t"} \X Nat
      OBVIOUS
    <3>2. exposed_names \in Seq(S)
      BY <1>2, <3>1 DEF ExposedOK
    <3> QED
      BY <2>2, <3>2
  <2>4. Growing(nodes, UsedNames, stack, LastRoot)
    <3>1. Growing(nodes, UsedNames, nodes, 0)
      BY <1>1, <1>4, NoNodesTree
    <3> QED
      BY <1>1, <1>3, <3>1
  <2> QED
    BY <1>1, <1>2, <2>1, <2>2, <2>3, <2>4 DEF GenOK
<1>6. WalksAt(nodes, walking, seen, written, LastRoot)
  <2>1. PICK e, S : e = <<>> /\ S = FrameType
    OBVIOUS
  <2>2. e \in Seq(S) /\ 1 .. Len(e) = {} /\ DOMAIN e = {}
    BY <2>1
  <2>3. FramesAt(e, e, {}, {}, 0) /\ WalkedAt(e, e, {}) /\ SeenAt(e, e, {}, {}, 0) /\ WrittenAt(e, e, {}, 0)
    BY <2>1, <2>2 DEF FramesAt, WalkedAt, SeenAt, WrittenAt
  <2> QED
    BY <1>1, <1>3, <2>1, <2>3 DEF WalksAt
<1>7. RootsAt(nodes, exposed_names, forks, walking, written)
  <2>1. 1 .. Len(forks) = {}
    BY <1>1
  <2> QED
    BY <1>1, <2>1 DEF RootsAt
<1>8. ASSUME NEW b \in BuilderNames
      PROVE  /\ chosen[b] = 0 /\ builders[b] = 0
             /\ Cardinality(By(nodes, b)) = 0 /\ Cardinality({id \in written : nodes[id].by = b}) = 0
  <2>1. By(nodes, b) = {} /\ {id \in written : nodes[id].by = b} = {}
    <3>1. DOMAIN nodes = {}
      BY <1>1
    <3> QED
      BY <1>1, <3>1 DEF By
  <2>2. Cardinality({}) = 0
    BY FS_EmptySet
  <2> QED
    BY <1>1, <2>1, <2>2
<1>9. chosen \in [BuilderNames -> Nat] /\ builders \in [BuilderNames -> Nat]
  BY <1>1
<1>10. CountedAt(nodes, chosen, builders) /\ CoveredAt(nodes, written, builders)
  <2>1. \A b \in BuilderNames : builders[b] + chosen[b] = Cardinality(By(nodes, b))
    <3> SUFFICES ASSUME NEW b \in BuilderNames PROVE builders[b] + chosen[b] = Cardinality(By(nodes, b))
      OBVIOUS
    <3>1. chosen[b] = 0 /\ builders[b] = 0 /\ Cardinality(By(nodes, b)) = 0
      BY <1>8
    <3> QED
      BY <3>1
  <2>2. \A b \in BuilderNames : Cardinality({id \in written : nodes[id].by = b}) <= builders[b]
    <3> SUFFICES ASSUME NEW b \in BuilderNames PROVE Cardinality({id \in written : nodes[id].by = b}) <= builders[b]
      OBVIOUS
    <3>1. builders[b] = 0 /\ Cardinality({id \in written : nodes[id].by = b}) = 0
      BY <1>8
    <3> QED
      BY <3>1
  <2> QED
    BY <1>9, <2>1, <2>2 DEF CountedAt, CoveredAt
<1> QED
  BY <1>1, <1>5, <1>6, <1>7, <1>10 DEF EmissionOK

\* Every step keeps the invariant of the emission: those of a setup leave the trees as they are.
LEMMA SetupStepKeepsEmission ==
  ASSUME EmissionOK, [Next]_vars
  PROVE  EmissionOK'
<1>1. CASE GenerateForks
  BY <1>1, GenerateKeepsEmission, EmissionStepKeeps DEF GenerateForks
<1>2. CASE UNCHANGED emissionVars
  <2>1. UNCHANGED <<exposed_names, nodes, stack, names, forks, chosen, builders, walking, seen, setup_statements, written>>
    BY <1>2 DEF emissionVars, treeVars, walkVars
  <2>2. LastRoot' = LastRoot /\ Started' = Started
    BY <2>1 DEF LastRoot, Started
  <2>3. UsedNames' = UsedNames
    BY <2>1, <2>2 DEF UsedNames
  <2>4. GenOK'
    BY <2>1, <2>2, <2>3, Zenon DEF EmissionOK, GenOK
  <2> QED
    BY <2>1, <2>2, <2>4, Zenon DEF EmissionOK
<1>3. CASE Build \/ run \/ StatementFails \/ SetupDone \/ query \/ EngineRefreshes
  BY <1>2, <1>3 DEF Build, run, StatementFails, SetupDone, query, EngineRefreshes
<1>4. CASE UNCHANGED vars
  BY <1>2, <1>4 DEF vars
<1> QED
  BY <1>1, <1>3, <1>4 DEF Next

\* The trees and the walk of every reachable state.
THEOREM EmissionHolds == Spec => []EmissionOK
<1>1. Init => EmissionOK
  BY EmissionStarts DEF Init
<1> QED
  BY <1>1, SetupStepKeepsEmission, PTL DEF Spec

\* A builder is counted at least as often as it stands in the trees that are written: no fork that
\* is done has a builder that the statistics of the equivalence leave out.
THEOREM EveryBuilderIsCounted == Spec => []BuildersAreCounted
<1>1. EmissionOK => BuildersAreCounted
  BY DEF EmissionOK, CoveredAt, BuildersAreCounted
<1> QED
  BY <1>1, EmissionHolds, PTL

-----------------------------------------------------------------------------
(* What has been written *)

\* Step i of node y has been written.
FrameEmits(p, frame, y, i) == frame.node = y /\ i < frame.next - Len(p[y].inputs)
EmittedAt(p, w, wr, y, i) == y \in wr \/ \E f \in 1 .. Len(w) : FrameEmits(p, w[f], y, i)
SameEmitted(p, w, wr, v, now) ==
  \A y \in DOMAIN p : \A i \in DOMAIN p[y].steps : EmittedAt(p, v, now, y, i) <=> EmittedAt(p, w, wr, y, i)
\* Every statement comes from a written step; what written steps create, a statement creates.
ComesAt(p, w, wr, S) ==
  \A j \in DOMAIN S : \E y \in DOMAIN p : \E i \in DOMAIN p[y].steps :
    EmittedAt(p, w, wr, y, i) /\ Comes(S[j], p[y].steps[i])
MadeIn(S, m) == \E j \in DOMAIN S : S[j].verb \in CreationVerbs /\ S[j].target = m
TableIn(S, m) == \E j \in DOMAIN S : S[j].verb = "create table" /\ S[j].target = m
CreatedAt(p, w, wr, S) ==
  \A y \in DOMAIN p : \A i \in DOMAIN p[y].steps : EmittedAt(p, w, wr, y, i) =>
    /\ p[y].steps[i].verb \in CreationVerbs => MadeIn(S, p[y].steps[i].target)
    /\ p[y].steps[i].verb = "create table" => TableIn(S, p[y].steps[i].target)
ChannelsAt(p, wr, S) == \A y \in wr : p[y].kind = "channel" => TableIn(S, p[y].ref)
OrderedOut(S) == S \in Seq(StatementType) /\ InOrder(S) /\ ReadLast(S)
OutAt(p, w, wr, S) == OrderedOut(S) /\ ComesAt(p, w, wr, S) /\ CreatedAt(p, w, wr, S) /\ ChannelsAt(p, wr, S)

\* The steps and the inputs of a node are numbered from one.
LEMMA StepsFrom ==
  ASSUME NEW p \in Seq(NodeType), NEW y \in DOMAIN p
  PROVE  /\ DOMAIN p[y].steps = 1 .. Len(p[y].steps) /\ Len(p[y].steps) \in Nat
         /\ Len(p[y].inputs) \in Nat /\ DOMAIN p[y].inputs = 1 .. Len(p[y].inputs)
<1>1. p[y].inputs \in Seq(Nat) /\ p[y].steps \in Seq(StepType)
  BY NodeFields
<1>2. PICK S : S = StepType
  OBVIOUS
<1>3. DOMAIN p[y].steps = 1 .. Len(p[y].steps) /\ Len(p[y].steps) \in Nat
  BY <1>1, <1>2
<1> QED
  BY <1>1, <1>3

\* A step of the innermost call.
LEMMA MovedEmits ==
  ASSUME NEW p, NEW w, NEW wr, NEW low, NEW x, NEW k, Inner(p, w, wr, low, x, k), NEW m, Moves(w, m), NEW y, NEW i \in Nat
  PROVE  EmittedAt(p, m, wr, y, i) <=> EmittedAt(p, w, wr, y, i) \/ (y = x /\ i < (k + 1) - Len(p[x].inputs))
<1>1. PICK l, a : l = Len(w) /\ a = Len(p[x].inputs)
  OBVIOUS
<1>2. /\ l \in Nat \ {0} /\ a \in Nat /\ k \in Nat /\ w[l].node = x /\ w[l].next = k
      /\ Len(m) = l /\ (\A f \in 1 .. l : f < l => m[f] = w[f]) /\ m[l].node = x /\ m[l].next = k + 1
  BY <1>1 DEF Inner, Moves
<1>3. l \in 1 .. l /\ \A f \in 1 .. l : f = l \/ f < l
  BY <1>2
<1>4. (\E f \in 1 .. l : FrameEmits(p, w[f], y, i)) <=> (\E f \in 1 .. l : f < l /\ FrameEmits(p, w[f], y, i)) \/ (y = x /\ i < k - a)
  <2>1. FrameEmits(p, w[l], y, i) <=> y = x /\ i < k - a
    BY <1>1, <1>2 DEF FrameEmits
  <2> QED
    BY <1>3, <2>1
<1>5. (\E f \in 1 .. l : FrameEmits(p, m[f], y, i)) <=> (\E f \in 1 .. l : f < l /\ FrameEmits(p, w[f], y, i)) \/ (y = x /\ i < (k + 1) - a)
  <2>1. FrameEmits(p, m[l], y, i) <=> y = x /\ i < (k + 1) - a
    <3>1. PICK n : n = k + 1
      OBVIOUS
    <3>2. m[l].node = x /\ m[l].next = n
      BY <1>2, <3>1
    <3>3. FrameEmits(p, m[l], y, i) <=> y = x /\ i < n - a
      BY <1>1, <3>2 DEF FrameEmits
    <3> QED
      BY <3>1, <3>3
  <2>2. \A f \in 1 .. l : f < l => m[f] = w[f]
    BY <1>2
  <2> QED
    BY <1>3, <2>1, <2>2
<1>6. i < k - a => i < (k + 1) - a
  BY <1>2
<1> QED
  BY <1>1, <1>2, <1>4, <1>5, <1>6 DEF EmittedAt, FrameEmits

\* Skipping an input writes nothing.
LEMMA SkipEmits ==
  ASSUME NEW p \in Seq(NodeType), NEW w, NEW wr, NEW low, NEW x, NEW k, Inner(p, w, wr, low, x, k), k <= Len(p[x].inputs),
         NEW m, Moves(w, m)
  PROVE  SameEmitted(p, w, wr, m, wr)
<1> SUFFICES ASSUME NEW y \in DOMAIN p, NEW i \in DOMAIN p[y].steps
             PROVE  EmittedAt(p, m, wr, y, i) <=> EmittedAt(p, w, wr, y, i)
  BY DEF SameEmitted
<1>1. i \in Nat /\ i >= 1
  BY StepsFrom
<1>2. PICK a : a = Len(p[x].inputs)
  OBVIOUS
<1>3. a \in Nat /\ k \in Nat /\ k <= a
  BY <1>2 DEF Inner
<1>4. ~(i < (k + 1) - a)
  BY <1>1, <1>3
<1> QED
  BY <1>1, <1>2, <1>4, MovedEmits

\* A call that starts has written nothing.
LEMMA CallEmits ==
  ASSUME NEW p \in Seq(NodeType), NEW m \in Seq(FrameType), NEW wr, NEW c \in DOMAIN p, c \in Nat, NEW v, Calls(m, c, v)
  PROVE  SameEmitted(p, m, wr, v, wr)
<1> SUFFICES ASSUME NEW y \in DOMAIN p, NEW i \in DOMAIN p[y].steps
             PROVE  EmittedAt(p, v, wr, y, i) <=> EmittedAt(p, m, wr, y, i)
  BY DEF SameEmitted
<1>1. i \in Nat /\ i >= 1 /\ Len(p[y].inputs) \in Nat
  BY StepsFrom
<1>2. PICK l, f : l = Len(m) /\ f = Frame(c, 1)
  OBVIOUS
<1>3. f \in FrameType /\ f.node = c /\ f.next = 1
  BY <1>2 DEF Frame, FrameType
<1>4. l \in Nat /\ Len(v) = l + 1 /\ (\A g \in 1 .. l : v[g] = m[g]) /\ v[l + 1] = f
  <2>1. PICK S : S = FrameType
    OBVIOUS
  <2>2. m \in Seq(S) /\ f \in S /\ v = Append(m, f)
    BY <1>2, <1>3, <2>1 DEF Calls
  <2> QED
    BY <1>2, <2>2
<1>5. 1 .. l \subseteq 1 .. l + 1 /\ \A g \in 1 .. l + 1 : g \in 1 .. l \/ g = l + 1
  BY <1>4
<1>6. ~(i < v[l + 1].next - Len(p[y].inputs))
  <2>1. v[l + 1].next = 1
    BY <1>3, <1>4
  <2> QED
    BY <1>1, <2>1
<1>7. (\E g \in 1 .. l + 1 : v[g].node = y /\ i < v[g].next - Len(p[y].inputs)) <=>
        (\E g \in 1 .. l : m[g].node = y /\ i < m[g].next - Len(p[y].inputs))
  BY <1>4, <1>5, <1>6
<1> QED
  BY <1>2, <1>4, <1>7 DEF EmittedAt, FrameEmits

\* A call that ends has written all of its node.
LEMMA ReturnEmits ==
  ASSUME NEW p \in Seq(NodeType), NEW w, NEW wr, NEW low, NEW x, NEW k, Inner(p, w, wr, low, x, k),
         k - Len(p[x].inputs) > Len(p[x].steps),
         NEW v, Len(v) = Len(w) - 1, \A f \in 1 .. Len(w) - 1 : v[f] = w[f]
  PROVE  SameEmitted(p, w, wr, v, wr \cup {x})
<1> SUFFICES ASSUME NEW y \in DOMAIN p, NEW i \in DOMAIN p[y].steps
             PROVE  EmittedAt(p, v, wr \cup {x}, y, i) <=> EmittedAt(p, w, wr, y, i)
  BY DEF SameEmitted
<1>1. PICK l : l = Len(w) - 1 /\ l \in Nat /\ Len(w) = l + 1
  BY DEF Inner
<1>2. w[l + 1].node = x /\ w[l + 1].next = k
  BY <1>1 DEF Inner
<1>3. 1 .. l \subseteq 1 .. l + 1 /\ l + 1 \in 1 .. l + 1 /\ \A g \in 1 .. l + 1 : g \in 1 .. l \/ g = l + 1
  BY <1>1
<1>4. CASE y = x
  <2>1. PICK a, b : a = Len(p[x].inputs) /\ b = Len(p[x].steps)
    OBVIOUS
  <2>2. a \in Nat /\ b \in Nat /\ k \in Nat /\ i \in 1 .. b /\ k - a > b
    BY <1>4, <2>1, StepsFrom DEF Inner
  <2>3. i < k - a
    BY <2>2
  <2>4. EmittedAt(p, w, wr, y, i)
    BY <1>1, <1>2, <1>3, <1>4, <2>1, <2>3 DEF EmittedAt, FrameEmits
  <2> QED
    BY <1>4, <2>4 DEF EmittedAt, FrameEmits
<1>5. CASE y # x
  <2>1. (\E g \in 1 .. l + 1 : w[g].node = y /\ i < w[g].next - Len(p[y].inputs)) <=>
          (\E g \in 1 .. l : v[g].node = y /\ i < v[g].next - Len(p[y].inputs))
    BY <1>1, <1>2, <1>3, <1>5
  <2> QED
    BY <1>1, <1>5, <2>1 DEF EmittedAt, FrameEmits
<1> QED
  BY <1>4, <1>5

\* The same is written.
LEMMA OutStays ==
  ASSUME NEW p, NEW w, NEW wr, NEW S, OutAt(p, w, wr, S), NEW v, NEW now, SameEmitted(p, w, wr, v, now), ChannelsAt(p, now, S)
  PROVE  OutAt(p, v, now, S)
<1>1. ComesAt(p, v, now, S)
  BY DEF OutAt, ComesAt, SameEmitted
<1>2. CreatedAt(p, v, now, S)
  BY DEF OutAt, CreatedAt, SameEmitted
<1> QED
  BY <1>1, <1>2 DEF OutAt

\* New nodes, of which nothing is written.
LEMMA OutWaits ==
  ASSUME NEW p, NEW q, Older(p, q), NEW wr, wr \subseteq DOMAIN p, NEW e, e = <<>>, NEW S, OutAt(p, e, wr, S), NEW w,
         \A f \in 1 .. Len(w) : \A i \in DOMAIN q[w[f].node].steps : ~(i < w[f].next - Len(q[w[f].node].inputs))
  PROVE  OutAt(q, w, wr, S)
<1>1. DOMAIN p \subseteq DOMAIN q /\ \A y \in DOMAIN p : q[y] = p[y]
  BY DEF Older
<1>2. 1 .. Len(e) = {}
  BY DEF OutAt
<1>3. \A y, i : EmittedAt(p, e, wr, y, i) <=> y \in wr
  BY <1>2 DEF EmittedAt, FrameEmits
<1>4. \A y \in DOMAIN q : \A i \in DOMAIN q[y].steps : EmittedAt(q, w, wr, y, i) <=> y \in wr
  BY DEF EmittedAt, FrameEmits
<1>5. ComesAt(q, w, wr, S)
  <2> SUFFICES ASSUME NEW j \in DOMAIN S
               PROVE  \E y \in DOMAIN q : \E i \in DOMAIN q[y].steps : EmittedAt(q, w, wr, y, i) /\ Comes(S[j], q[y].steps[i])
    BY DEF ComesAt
  <2>1. PICK y \in DOMAIN p : \E i \in DOMAIN p[y].steps : EmittedAt(p, e, wr, y, i) /\ Comes(S[j], p[y].steps[i])
    BY DEF OutAt, ComesAt
  <2>2. y \in DOMAIN q /\ q[y] = p[y]
    BY <1>1
  <2> QED
    BY <1>3, <1>4, <2>1, <2>2
<1>6. CreatedAt(q, w, wr, S)
  <2> SUFFICES ASSUME NEW y \in DOMAIN q, NEW i \in DOMAIN q[y].steps, EmittedAt(q, w, wr, y, i)
               PROVE  /\ q[y].steps[i].verb \in CreationVerbs => MadeIn(S, q[y].steps[i].target)
                      /\ q[y].steps[i].verb = "create table" => TableIn(S, q[y].steps[i].target)
    BY DEF CreatedAt
  <2>1. y \in wr /\ y \in DOMAIN p /\ q[y] = p[y]
    BY <1>1, <1>4
  <2> QED
    BY <1>3, <2>1 DEF OutAt, CreatedAt
<1>7. ChannelsAt(q, wr, S)
  <2>1. \A y \in wr : q[y] = p[y]
    BY <1>1
  <2> QED
    BY <2>1 DEF OutAt, ChannelsAt
<1> QED
  BY <1>5, <1>6, <1>7 DEF OutAt

-----------------------------------------------------------------------------
(* One statement more *)

\* T is S and t.
OneOut(S, t, T) ==
  /\ S \in Seq(StatementType) /\ T \in Seq(StatementType) /\ t \in StatementType
  /\ Len(S) \in Nat /\ Len(T) = Len(S) + 1 /\ DOMAIN S = 1 .. Len(S) /\ DOMAIN T = 1 .. Len(S) + 1
  /\ \A j \in 1 .. Len(S) : T[j] = S[j]
  /\ T[Len(S) + 1] = t
\* Appending a statement gives one statement more.
LEMMA OneOutIs ==
  ASSUME NEW S \in Seq(StatementType), NEW t \in StatementType, NEW T, T = Append(S, t)
  PROVE  OneOut(S, t, T)
<1>1. PICK U : U = StatementType
  OBVIOUS
<1>2. S \in Seq(U) /\ t \in U
  BY <1>1
<1>3. /\ T \in Seq(U) /\ Len(S) \in Nat /\ Len(T) = Len(S) + 1 /\ DOMAIN S = 1 .. Len(S) /\ DOMAIN T = 1 .. Len(S) + 1
      /\ \A j \in 1 .. Len(S) : T[j] = S[j]
      /\ T[Len(S) + 1] = t
  BY <1>2
<1> QED
  BY <1>1, <1>3 DEF OneOut

\* What makes t the right statement to follow S.
Follows(S, t) ==
  /\ \A m \in t.reads : m = hidden_base_name \/ MadeIn(S, m)
  /\ t.verb \in CreationVerbs => t.target # hidden_base_name /\ ~MadeIn(S, t.target)
  /\ t.verb \in {"insert", "delete"} =>
       TableIn(S, t.target) /\ \A j \in DOMAIN S : t.target \in S[j].reads => t.target = S[j].target

\* What came before an old statement stays.
LEMMA PrefixMade ==
  ASSUME NEW S, NEW t, NEW T, OneOut(S, t, T), NEW k \in 1 .. Len(S), NEW m
  PROVE  (MadeBefore(T, k, m) <=> MadeBefore(S, k, m)) /\ (TableBefore(T, k, m) <=> TableBefore(S, k, m))
<1>1. \A j \in 1 .. k - 1 : j \in 1 .. Len(S) /\ T[j] = S[j]
  BY DEF OneOut
<1> QED
  BY <1>1 DEF MadeBefore, TableBefore

\* Before the new statement come all the old ones.
LEMMA AllMade ==
  ASSUME NEW S, NEW t, NEW T, OneOut(S, t, T), NEW m
  PROVE  (MadeBefore(T, Len(S) + 1, m) <=> MadeIn(S, m)) /\ (TableBefore(T, Len(S) + 1, m) <=> TableIn(S, m))
<1>1. PICK l : l = Len(S) + 1
  OBVIOUS
<1>2. 1 .. l - 1 = DOMAIN S /\ \A j \in DOMAIN S : T[j] = S[j]
  BY <1>1 DEF OneOut
<1>3. (MadeBefore(T, l, m) <=> MadeIn(S, m)) /\ (TableBefore(T, l, m) <=> TableIn(S, m))
  BY <1>2 DEF MadeBefore, TableBefore, MadeIn, TableIn, CreationVerbs
<1> QED
  BY <1>1, <1>3

\* A statement that follows leaves the statements in order.
LEMMA OneOutOrdered ==
  ASSUME NEW S, NEW t, NEW T, OneOut(S, t, T), OrderedOut(S), Follows(S, t)
  PROVE  OrderedOut(T)
<1>1. /\ DOMAIN S = 1 .. Len(S) /\ DOMAIN T = 1 .. Len(S) + 1 /\ Len(S) \in Nat
      /\ (\A j \in 1 .. Len(S) : T[j] = S[j]) /\ T[Len(S) + 1] = t
  BY DEF OneOut
<1>2. \A k \in DOMAIN T : k \in 1 .. Len(S) \/ k = Len(S) + 1
  BY <1>1
<1>3. InOrder(T)
  <2> SUFFICES ASSUME NEW k \in DOMAIN T
               PROVE  /\ \A m \in T[k].reads : m = hidden_base_name \/ MadeBefore(T, k, m)
                      /\ T[k].verb \in CreationVerbs => T[k].target # hidden_base_name /\ ~MadeBefore(T, k, T[k].target)
                      /\ T[k].verb \in {"insert", "delete"} => TableBefore(T, k, T[k].target)
    BY DEF InOrder, CreationVerbs
  <2>1. CASE k \in 1 .. Len(S)
    <3>1. /\ \A m \in S[k].reads : m = hidden_base_name \/ MadeBefore(S, k, m)
          /\ S[k].verb \in CreationVerbs => S[k].target # hidden_base_name /\ ~MadeBefore(S, k, S[k].target)
          /\ S[k].verb \in {"insert", "delete"} => TableBefore(S, k, S[k].target)
      BY <1>1, <2>1 DEF OrderedOut, InOrder, CreationVerbs
    <3>2. T[k] = S[k]
      BY <1>1, <2>1
    <3> QED
      BY <2>1, <3>1, <3>2, PrefixMade
  <2>2. CASE k = Len(S) + 1
    <3>1. T[k] = t
      BY <1>1, <2>2
    <3>2. \A m : (MadeBefore(T, k, m) <=> MadeIn(S, m)) /\ (TableBefore(T, k, m) <=> TableIn(S, m))
      BY <2>2, AllMade
    <3> QED
      BY <3>1, <3>2 DEF Follows
  <2> QED
    BY <1>2, <2>1, <2>2
<1>4. ReadLast(T)
  <2> SUFFICES ASSUME NEW j \in DOMAIN T, NEW k \in DOMAIN T, j < k, T[k].verb \in {"insert", "delete"},
                      T[k].target \in T[j].reads
               PROVE  T[k].target = T[j].target
    BY DEF ReadLast
  <2>1. j \in 1 .. Len(S) /\ T[j] = S[j]
    BY <1>1, <1>2
  <2>2. CASE k \in 1 .. Len(S)
    <3>1. T[k] = S[k]
      BY <1>1, <2>2
    <3> QED
      BY <1>1, <2>1, <2>2, <3>1 DEF OrderedOut, ReadLast
  <2>3. CASE k = Len(S) + 1
    <3>1. T[k] = t
      BY <1>1, <2>3
    <3> QED
      BY <1>1, <2>1, <3>1 DEF Follows
  <2> QED
    BY <1>2, <2>2, <2>3
<1> QED
  BY <1>3, <1>4 DEF OneOut, OrderedOut

\* The new statement makes at most what it creates.
LEMMA MoreMade ==
  ASSUME NEW S, NEW t, NEW T, OneOut(S, t, T)
  PROVE  /\ \A m : MadeIn(T, m) <=> MadeIn(S, m) \/ (t.verb \in CreationVerbs /\ t.target = m)
         /\ \A m : TableIn(T, m) <=> TableIn(S, m) \/ (t.verb = "create table" /\ t.target = m)
<1>1. /\ DOMAIN S = 1 .. Len(S) /\ DOMAIN T = 1 .. Len(S) + 1 /\ Len(S) \in Nat
      /\ (\A j \in 1 .. Len(S) : T[j] = S[j]) /\ T[Len(S) + 1] = t
  BY DEF OneOut
<1>2. /\ \A k \in DOMAIN T : k \in 1 .. Len(S) \/ k = Len(S) + 1
      /\ 1 .. Len(S) \subseteq DOMAIN T /\ Len(S) + 1 \in DOMAIN T
  BY <1>1
<1> QED
  BY <1>1, <1>2 DEF MadeIn, TableIn

-----------------------------------------------------------------------------
(* The step that is written *)

\* Step i of node x is the next to be written, and S has been.
Writing(p, u, wr, S, x, i) ==
  /\ Tree(p, u) /\ OrderedOut(S) /\ ChannelsAt(p, wr, S)
  /\ x \in DOMAIN p /\ x \notin wr /\ i \in DOMAIN p[x].steps /\ wr \subseteq DOMAIN p
  /\ \A c \in DOMAIN p[x].inputs : p[x].inputs[c] \in wr
  /\ \A y \in wr : \A c \in DOMAIN p[y].inputs : p[y].inputs[c] \in wr
  /\ \A j \in DOMAIN S : \E y \in DOMAIN p : \E n \in DOMAIN p[y].steps :
       (y \in wr \/ (y = x /\ n < i)) /\ Comes(S[j], p[y].steps[n])
  /\ \A y \in DOMAIN p : \A n \in DOMAIN p[y].steps : y \in wr \/ (y = x /\ n < i) =>
       /\ p[y].steps[n].verb \in CreationVerbs => MadeIn(S, p[y].steps[n].target)
       /\ p[y].steps[n].verb = "create table" => TableIn(S, p[y].steps[n].target)

\* The steps of a node that creates what it is read under.
LEMMA MadeSteps ==
  ASSUME NEW p \in Seq(NodeType), NEW x \in DOMAIN p, Made(p, p[x])
  PROVE  /\ 1 \in DOMAIN p[x].steps
         /\ p[x].steps[1].verb = IF p[x].kind = "view" THEN "create view" ELSE "create table"
         /\ \A i \in DOMAIN p[x].steps : /\ p[x].steps[i].target = p[x].ref /\ i \in Nat /\ i >= 1
                                         /\ i # 1 => /\ i > 1 /\ p[x].kind = "table" /\ p[x].steps[i].verb \in {"insert", "delete"}
                                                     /\ p[x].steps[i].reads \subseteq {hidden_base_name}
<1>1. p[x].steps # <<>> /\ p[x].steps \in Seq(StepType)
  BY NodeFields DEF Made
<1>2. DOMAIN p[x].steps = 1 .. Len(p[x].steps) /\ Len(p[x].steps) \in Nat
  BY StepsFrom
<1>3. Len(p[x].steps) # 0
  <2>1. PICK S, s : S = StepType /\ s = p[x].steps
    OBVIOUS
  <2>2. s \in Seq(S) /\ s # <<>>
    BY <1>1, <2>1
  <2>3. Len(s) # 0
    BY <2>2
  <2> QED
    BY <2>1, <2>3
<1>4. 1 \in DOMAIN p[x].steps
  BY <1>2, <1>3
<1>5. \A i \in DOMAIN p[x].steps : i \in Nat /\ i >= 1 /\ (i # 1 => i > 1)
  BY <1>2
<1> QED
  BY <1>4, <1>5 DEF Made

\* The steps of a node that prunes a channel, and of one that adds to it.
PrunedSteps(p, x, c) ==
  /\ c \in DOMAIN p /\ p[x].kind = "view" /\ p[x].inputs = <<c>> /\ p[c].kind = "channel"
  /\ DOMAIN p[x].steps = {1, 2}
  /\ p[x].steps[1].verb = "delete" /\ p[x].steps[1].target = p[c].ref /\ p[x].steps[1].reads = {}
  /\ p[x].steps[2].verb = "create view" /\ p[x].steps[2].target = p[x].ref /\ p[x].steps[2].reads = {p[c].ref}
\* The steps of a pruned node: rows are deleted, then the view is made.
LEMMA PrunedStepsAre ==
  ASSUME NEW p, NEW x \in DOMAIN p, Pruned(p, p[x])
  PROVE  \E c : PrunedSteps(p, x, c)
<1>1. PICK c \in DOMAIN p : p[x].kind = "view" /\ p[x].inputs = <<c>> /\ p[c].kind = "channel" /\ PruningSteps(p[x], p[c].ref)
  BY DEF Pruned
<1>2. PICK s, a, b : s = p[x].steps /\ a = Step("delete", p[c].ref, {}) /\ b = Step("create view", p[x].ref, {p[c].ref})
  OBVIOUS
<1>3. s = <<a, b>>
  BY <1>1, <1>2 DEF PruningSteps
<1>4. DOMAIN s = {1, 2} /\ s[1] = a /\ s[2] = b
  BY <1>3, Pairs
<1>5. a.verb = "delete" /\ a.target = p[c].ref /\ a.reads = {}
  BY <1>2 DEF Step
<1>6. b.verb = "create view" /\ b.target = p[x].ref /\ b.reads = {p[c].ref}
  BY <1>2 DEF Step
<1>7. PrunedSteps(p, x, c)
  BY <1>1, <1>2, <1>4, <1>5, <1>6 DEF PrunedSteps
<1> QED
  BY <1>7

GrownSteps(p, x, c) ==
  /\ c \in DOMAIN p /\ p[x].kind = "channel" /\ p[x].inputs = <<c>> /\ p[c].kind = "channel" /\ p[x].ref = p[c].ref
  /\ DOMAIN p[x].steps = {1}
  /\ p[x].steps[1].verb = "insert" /\ p[x].steps[1].target = p[x].ref /\ p[x].steps[1].reads = {p[x].ref}
\* The step of a grown node: rows are inserted.
LEMMA GrownStepsAre ==
  ASSUME NEW p, NEW x \in DOMAIN p, Grown(p, p[x])
  PROVE  \E c : GrownSteps(p, x, c)
<1>1. PICK c \in DOMAIN p : /\ p[x].kind = "channel" /\ p[x].inputs = <<c>> /\ p[c].kind = "channel"
                            /\ p[x].ref = p[c].ref /\ p[x].steps = <<Step("insert", p[x].ref, {p[x].ref})>>
  BY DEF Grown
<1>2. PICK s, a : s = p[x].steps /\ a = Step("insert", p[x].ref, {p[x].ref})
  OBVIOUS
<1>3. s = <<a>>
  BY <1>1, <1>2
<1>4. DOMAIN s = {1} /\ s[1] = a
  BY <1>3
<1>5. a.verb = "insert" /\ a.target = p[x].ref /\ a.reads = {p[x].ref}
  BY <1>2 DEF Step
<1>6. GrownSteps(p, x, c)
  BY <1>1, <1>2, <1>4, <1>5 DEF GrownSteps
<1> QED
  BY <1>6

\* The shapes of a node that writes something.
LEMMA WritingShapes ==
  ASSUME NEW p, NEW u, Tree(p, u), NEW x \in DOMAIN p, NEW i \in DOMAIN p[x].steps
  PROVE  /\ p \in Seq(NodeType)
         /\ Made(p, p[x]) \/ (\E c : GrownSteps(p, x, c)) \/ (\E c : PrunedSteps(p, x, c))
<1>1. p \in Seq(NodeType)
  BY DEF Tree, TypedNodes
<1>2. ~Silent(p, p[x])
  BY DEF Silent
<1> QED
  BY <1>1, <1>2, GrownStepsAre, PrunedStepsAre DEF Tree, Shaped

\* A step that creates: its target is the node's own name, and no other step of the node creates.
LEMMA CreatingSteps ==
  ASSUME NEW p, NEW u, Tree(p, u), NEW x \in DOMAIN p, NEW i \in DOMAIN p[x].steps, p[x].steps[i].verb \in CreationVerbs
  PROVE  /\ Named(p, x) /\ p[x].steps[i].target = p[x].ref
         /\ (Made(p, p[x]) /\ i = 1) \/ (i = 2 /\ \E c : PrunedSteps(p, x, c))
<1>1. p \in Seq(NodeType) /\ (Made(p, p[x]) \/ (\E c : GrownSteps(p, x, c)) \/ (\E c : PrunedSteps(p, x, c)))
  BY WritingShapes
<1>2. CASE Made(p, p[x])
  <2>1. i = 1 /\ p[x].steps[i].target = p[x].ref
    BY <1>1, <1>2, MadeSteps DEF CreationVerbs
  <2>2. Named(p, x)
    BY <1>2 DEF Made, Named
  <2> QED
    BY <1>2, <2>1, <2>2
<1>3. ASSUME NEW c, GrownSteps(p, x, c) PROVE FALSE
  BY <1>3 DEF GrownSteps, CreationVerbs
<1>4. ASSUME NEW c, PrunedSteps(p, x, c) PROVE i = 2 /\ Named(p, x) /\ p[x].steps[i].target = p[x].ref
  BY <1>4 DEF PrunedSteps, CreationVerbs, Named
<1> QED
  BY <1>1, <1>2, <1>3, <1>4

\* What has been written is there.
LEMMA WrittenIsThere ==
  ASSUME NEW p, NEW u, NEW wr, NEW S, NEW x, NEW i, Writing(p, u, wr, S, x, i), NEW y \in wr, Named(p, y)
  PROVE  MadeIn(S, p[y].ref) /\ (p[y].kind = "channel" => TableIn(S, p[y].ref))
<1>1. y \in DOMAIN p /\ p \in Seq(NodeType) /\ Shaped(p)
  BY DEF Writing, Tree, TypedNodes
<1>2. \A n \in DOMAIN p[y].steps : p[y].steps[n].verb \in CreationVerbs => MadeIn(S, p[y].steps[n].target)
  BY <1>1 DEF Writing
<1>3. p[y].kind = "channel" => TableIn(S, p[y].ref)
  BY DEF Writing, ChannelsAt
<1>4. TableIn(S, p[y].ref) => MadeIn(S, p[y].ref)
  BY DEF TableIn, MadeIn, CreationVerbs
<1>5. CASE Made(p, p[y])
  BY <1>1, <1>2, <1>3, <1>5, MadeSteps DEF CreationVerbs
<1>6. CASE Pruned(p, p[y])
  <2>1. PICK c : PrunedSteps(p, y, c)
    BY <1>1, <1>6, PrunedStepsAre
  <2>2. 2 \in DOMAIN p[y].steps /\ p[y].steps[2].verb \in CreationVerbs /\ p[y].steps[2].target = p[y].ref
    BY <2>1 DEF PrunedSteps, CreationVerbs
  <2> QED
    BY <1>2, <1>3, <2>2
<1>7. CASE Grown(p, p[y])
  <2>1. p[y].kind = "channel"
    BY <1>7 DEF Grown
  <2> QED
    BY <1>3, <1>4, <2>1
<1>8. ~Silent(p, p[y])
  BY DEF Silent, Named
<1> QED
  BY <1>1, <1>5, <1>6, <1>7, <1>8 DEF Shaped

\* Leaves and queries are only read through.
LEMMA QueriesAreSilent ==
  ASSUME NEW p, NEW u, Tree(p, u), NEW y \in DOMAIN p, p[y].kind \in {"base", "query"}
  PROVE  Silent(p, p[y])
BY DEF Tree, Shaped, Made, Grown, Pruned

\* What a step reads has been created: the nodes below are written, and the ones before in the same node.
LEMMA ReadsAreThere ==
  ASSUME NEW p, NEW u, NEW wr, NEW S, NEW x, NEW i, Writing(p, u, wr, S, x, i), NEW m \in p[x].steps[i].reads
  PROVE  m = hidden_base_name \/ MadeIn(S, m)
<1>1. /\ Tree(p, u) /\ x \in DOMAIN p /\ i \in DOMAIN p[x].steps /\ wr \subseteq DOMAIN p
      /\ \A c \in DOMAIN p[x].inputs : p[x].inputs[c] \in wr
      /\ \A y \in wr : \A c \in DOMAIN p[y].inputs : p[y].inputs[c] \in wr
  BY DEF Writing
<1>2. p \in Seq(NodeType) /\ (Made(p, p[x]) \/ (\E c : GrownSteps(p, x, c)) \/ (\E c : PrunedSteps(p, x, c)))
  BY <1>1, WritingShapes
<1>3. CASE Made(p, p[x]) /\ i = 1
  <2>1. m \in Sources(p, p[x].inputs)
    BY <1>3 DEF Made
  <2>2. PICK c \in DOMAIN p[x].inputs :
          IF p[p[x].inputs[c]].kind = "query"
          THEN \E j \in DOMAIN p[p[x].inputs[c]].inputs : m = p[p[p[x].inputs[c]].inputs[j]].ref
          ELSE m = p[p[x].inputs[c]].ref
    BY <2>1, SourcesAre
  <2>3. PICK y : y = p[x].inputs[c]
    OBVIOUS
  <2>4. y \in wr /\ y \in DOMAIN p /\ p[y].kind = "query"
    BY <1>1, <1>3, <2>3 DEF Made
  <2>5. PICK j \in DOMAIN p[y].inputs : m = p[p[y].inputs[j]].ref
    BY <2>2, <2>3, <2>4
  <2>6. PICK z : z = p[y].inputs[j]
    OBVIOUS
  <2>7. z \in wr /\ z \in DOMAIN p /\ p[z].kind \in {"base", "table", "view"}
    BY <1>1, <2>4, <2>6, QueriesAreSilent DEF Silent
  <2>8. CASE p[z].kind = "base"
    <3>1. p[z].ref = hidden_base_name
      BY <1>1, <2>7, <2>8, QueriesAreSilent DEF Silent
    <3> QED
      BY <2>5, <2>6, <3>1
  <2>9. CASE p[z].kind # "base"
    <3>1. Named(p, z)
      BY <2>7, <2>9 DEF Named
    <3> QED
      BY <2>5, <2>6, <2>7, <3>1, WrittenIsThere
  <2> QED
    BY <2>8, <2>9
<1>4. CASE Made(p, p[x]) /\ i # 1
  BY <1>1, <1>2, <1>4, MadeSteps
<1>5. ASSUME NEW c, GrownSteps(p, x, c) \/ PrunedSteps(p, x, c) PROVE m = hidden_base_name \/ MadeIn(S, m)
  <2>1. c \in wr
    <3>1. p[x].inputs = <<c>>
      BY <1>5 DEF GrownSteps, PrunedSteps
    <3>2. 1 \in DOMAIN p[x].inputs /\ p[x].inputs[1] = c
      BY <3>1, One
    <3> QED
      BY <1>1, <3>2
  <2>2. p[c].kind = "channel"
    BY <1>5 DEF GrownSteps, PrunedSteps
  <2>3. m = p[c].ref
    BY <1>1, <1>5 DEF GrownSteps, PrunedSteps
  <2>4. Named(p, c)
    BY <2>2 DEF Named
  <2> QED
    BY <2>1, <2>3, <2>4, WrittenIsThere
<1> QED
  BY <1>2, <1>3, <1>4, <1>5

\* No step creates a name that is there.
LEMMA CreatedOnce ==
  ASSUME NEW p, NEW u, NEW wr, NEW S, NEW x, NEW i, Writing(p, u, wr, S, x, i), p[x].steps[i].verb \in CreationVerbs
  PROVE  p[x].steps[i].target # hidden_base_name /\ ~MadeIn(S, p[x].steps[i].target)
<1>1. Tree(p, u) /\ x \in DOMAIN p /\ i \in DOMAIN p[x].steps /\ x \notin wr /\ wr \subseteq DOMAIN p
  BY DEF Writing
<1>2. /\ Named(p, x) /\ p[x].steps[i].target = p[x].ref
      /\ (Made(p, p[x]) /\ i = 1) \/ (i = 2 /\ \E c : PrunedSteps(p, x, c))
  BY <1>1, CreatingSteps
<1>3. p[x].ref # hidden_base_name
  BY <1>1, <1>2 DEF Tree, InUse
<1>4. ASSUME MadeIn(S, p[x].ref) PROVE FALSE
  <2>1. PICK j \in DOMAIN S : S[j].verb \in CreationVerbs /\ S[j].target = p[x].ref
    BY <1>4 DEF MadeIn
  <2>2a. PICK y \in DOMAIN p : \E n \in DOMAIN p[y].steps : (y \in wr \/ (y = x /\ n < i)) /\ Comes(S[j], p[y].steps[n])
    BY DEF Writing
  <2>2. PICK n \in DOMAIN p[y].steps : (y \in wr \/ (y = x /\ n < i)) /\ Comes(S[j], p[y].steps[n])
    BY <2>2a
  <2>3. p[y].steps[n].verb \in CreationVerbs /\ p[y].steps[n].target = p[x].ref
    BY <2>1, <2>2 DEF Comes, CreationVerbs
  <2>4. /\ Named(p, y) /\ p[y].ref = p[x].ref
        /\ (Made(p, p[y]) /\ n = 1) \/ (n = 2 /\ \E c : PrunedSteps(p, y, c))
    BY <1>1, <2>3, CreatingSteps
  <2>5. CASE y = x
    <3>1. n < i
      BY <1>1, <2>2, <2>5
    <3>2. n = 1 /\ i = 2 /\ Made(p, p[x]) /\ \E c : PrunedSteps(p, x, c)
      BY <1>2, <2>4, <2>5, <3>1
    <3> QED
      BY <3>2, <2>3, <2>5 DEF PrunedSteps, CreationVerbs
  <2>6. CASE y # x
    <3>1. p[x].kind = "channel" /\ p[y].kind = "channel" /\ ~(Made(p, p[x]) /\ Made(p, p[y]))
      BY <1>1, <1>2, <2>4, <2>6 DEF Tree, Apart
    <3> QED
      BY <1>2, <2>4, <3>1 DEF PrunedSteps
  <2> QED
    BY <2>5, <2>6
<1> QED
  BY <1>2, <1>3, <1>4

\* Rows are inserted into and deleted from tables that have been created.
LEMMA WritesToTables ==
  ASSUME NEW p, NEW u, NEW wr, NEW S, NEW x, NEW i, Writing(p, u, wr, S, x, i), p[x].steps[i].verb \in {"insert", "delete"}
  PROVE  TableIn(S, p[x].steps[i].target)
<1>1. /\ Tree(p, u) /\ x \in DOMAIN p /\ i \in DOMAIN p[x].steps
      /\ \A c \in DOMAIN p[x].inputs : p[x].inputs[c] \in wr
  BY DEF Writing
<1>2. p \in Seq(NodeType) /\ (Made(p, p[x]) \/ (\E c : GrownSteps(p, x, c)) \/ (\E c : PrunedSteps(p, x, c)))
  BY <1>1, WritingShapes
<1>3. CASE Made(p, p[x])
  <2>1. /\ 1 \in DOMAIN p[x].steps /\ p[x].steps[1].target = p[x].ref
        /\ p[x].steps[1].verb = IF p[x].kind = "view" THEN "create view" ELSE "create table"
        /\ p[x].steps[i].target = p[x].ref
        /\ i # 1 => i > 1 /\ p[x].kind = "table"
    BY <1>1, <1>2, <1>3, MadeSteps
  <2>2. i # 1
    BY <2>1
  <2>3. i > 1 /\ p[x].kind = "table"
    BY <2>1, <2>2
  <2>4. 1 < i /\ p[x].steps[1].verb = "create table"
    <3>1. i \in Nat
      BY <1>1, <1>2, <1>3, MadeSteps
    <3>2. 1 < i
      BY <2>3, <3>1
    <3> QED
      BY <2>1, <2>3, <3>2
  <2> QED
    BY <1>1, <2>1, <2>4 DEF Writing
<1>4. ASSUME NEW c, GrownSteps(p, x, c) \/ PrunedSteps(p, x, c) PROVE TableIn(S, p[x].steps[i].target)
  <2>1. c \in wr
    <3>1. p[x].inputs = <<c>>
      BY <1>4 DEF GrownSteps, PrunedSteps
    <3>2. 1 \in DOMAIN p[x].inputs /\ p[x].inputs[1] = c
      BY <3>1, One
    <3> QED
      BY <1>1, <3>2
  <2>2. p[c].kind = "channel" /\ p[x].steps[i].target = p[c].ref
    BY <1>1, <1>4 DEF GrownSteps, PrunedSteps
  <2> QED
    BY <2>1, <2>2 DEF Writing, ChannelsAt
<1> QED
  BY <1>2, <1>3, <1>4

\* A table is written to from the bottom up: whoever writes to it before a written node has been written.
LEMMA WritersBelow ==
  ASSUME NEW p, NEW u, Tree(p, u), NEW wr, wr \subseteq DOMAIN p,
         \A y \in wr : \A c \in DOMAIN p[y].inputs : p[y].inputs[c] \in wr,
         NEW m \in Names, NEW x \in DOMAIN p, Writes(p, x, m), NEW y \in wr, Writes(p, y, m), x <= y
  PROVE  x \in wr
<1>1. DOMAIN p \subseteq Nat
  <2>1. PICK S : S = NodeType
    OBVIOUS
  <2>2. p \in Seq(S)
    BY <2>1 DEF Tree, TypedNodes
  <2> QED
    BY <2>2
<1>2. PICK B : B = {c \in wr : Writes(p, c, m) /\ x <= c}
  OBVIOUS
<1>3. B \in SUBSET Nat /\ B # {}
  BY <1>1, <1>2
<1>4. PICK c \in B : \A d \in B : c <= d
  BY <1>3, LeastNumber
<1>5. c \in wr /\ Writes(p, c, m) /\ x <= c /\ c \in DOMAIN p /\ c \in Nat /\ x \in Nat
  BY <1>1, <1>2, <1>4
<1>6. CASE x = c
  BY <1>5, <1>6
<1>7. CASE x # c
  <2>1. x < c
    BY <1>5, <1>7
  <2>2. PICK i \in DOMAIN p[c].inputs : Writes(p, p[c].inputs[i], m) /\ x <= p[c].inputs[i]
    BY <1>5, <2>1 DEF Tree, InChain
  <2>3. PICK d : d = p[c].inputs[i]
    OBVIOUS
  <2>4. d \in B
    BY <1>2, <1>5, <2>2, <2>3
  <2>5. d \in 1 .. c - 1
    BY <1>5, <2>3 DEF Tree, InputsBefore
  <2>6. c <= d
    BY <1>4, <2>4
  <2> QED
    BY <1>5, <2>5, <2>6
<1> QED
  BY <1>6, <1>7

WriteVerbs == {"create table", "insert", "delete"}
\* No step writes to a table that another one has read from before: the other writers come before the reader.
LEMMA ReadBeforeWritten ==
  ASSUME NEW p, NEW u, NEW wr, NEW S, NEW x, NEW i, Writing(p, u, wr, S, x, i),
         p[x].steps[i].verb \in WriteVerbs, NEW j \in DOMAIN S, p[x].steps[i].target \in S[j].reads
  PROVE  p[x].steps[i].target = S[j].target
<1>1. /\ Tree(p, u) /\ x \in DOMAIN p /\ i \in DOMAIN p[x].steps /\ x \notin wr /\ wr \subseteq DOMAIN p
      /\ \A y \in wr : \A c \in DOMAIN p[y].inputs : p[y].inputs[c] \in wr
  BY DEF Writing
<1>2. p \in Seq(NodeType) /\ (Made(p, p[x]) \/ (\E c : GrownSteps(p, x, c)) \/ (\E c : PrunedSteps(p, x, c)))
  BY <1>1, WritingShapes
<1>3. PICK m : m = p[x].steps[i].target
  OBVIOUS
<1>4a. PICK y \in DOMAIN p : \E n \in DOMAIN p[y].steps : (y \in wr \/ (y = x /\ n < i)) /\ Comes(S[j], p[y].steps[n])
  BY DEF Writing
<1>4. PICK n \in DOMAIN p[y].steps : (y \in wr \/ (y = x /\ n < i)) /\ Comes(S[j], p[y].steps[n])
  BY <1>4a
<1>5. m \in p[y].steps[n].reads /\ S[j].target = p[y].steps[n].target
  BY <1>3, <1>4 DEF Comes
<1> SUFFICES ASSUME m # p[y].steps[n].target PROVE FALSE
  BY <1>3, <1>5
<1>6. ReadsFrom(p, y, m) /\ Writes(p, x, m)
  BY <1>1, <1>3, <1>5 DEF ReadsFrom, Writes, WriteVerbs
<1>7. CASE y = x
  <2>1. n < i
    BY <1>1, <1>4, <1>7
  <2>2. CASE Made(p, p[x])
    <3>1. p[x].steps[n].target = p[x].ref /\ p[x].steps[i].target = p[x].ref
      BY <1>1, <1>2, <1>4, <1>7, <2>2, MadeSteps
    <3> QED
      BY <1>3, <1>7, <3>1
  <2>3. ASSUME NEW c, GrownSteps(p, x, c) PROVE FALSE
    <3>1. n \in {1} /\ i \in {1}
      BY <1>1, <1>4, <1>7, <2>3 DEF GrownSteps
    <3> QED
      BY <2>1, <3>1
  <2>4. ASSUME NEW c, PrunedSteps(p, x, c) PROVE FALSE
    <3>1. n \in {1, 2} /\ i \in {1, 2} /\ p[x].steps[2].verb = "create view"
      BY <1>1, <1>4, <1>7, <2>4 DEF PrunedSteps
    <3>2. i # 1
      <4>1. SUFFICES ASSUME i = 1 PROVE FALSE
        OBVIOUS
      <4>2. n < 1
        BY <2>1, <4>1
      <4>3. n = 1 \/ n = 2
        BY <3>1
      <4> QED
        BY <4>2, <4>3
    <3> QED
      BY <3>1, <3>2 DEF WriteVerbs
  <2> QED
    BY <1>2, <2>2, <2>3, <2>4
<1>8. CASE y # x
  <2>1. y \in wr
    BY <1>4, <1>8
  <2>2. m \in Names
    <3>1. p[x].steps \in Seq(StepType)
      BY <1>1, <1>2, NodeFields
    <3>2. PICK T, s : T = StepType /\ s = p[x].steps
      OBVIOUS
    <3>3. s \in Seq(T) /\ i \in DOMAIN s
      BY <1>1, <3>1, <3>2
    <3>4a. s[i] \in T
      BY <3>3
    <3>4. s[i] \in StepType
      BY <3>2, <3>4a
    <3> QED
      BY <1>3, <3>2, <3>4 DEF StepType
  <2>3. Before(p, x, y, m)
    BY <1>1, <1>6, <1>8, <2>2 DEF Tree, Settled
  <2>4. PICK c \in DOMAIN p[y].inputs :
          \/ Writes(p, p[y].inputs[c], m) /\ x <= p[y].inputs[c]
          \/ \E k \in DOMAIN p[p[y].inputs[c]].inputs : x = p[p[y].inputs[c]].inputs[k]
    BY <2>3 DEF Before
  <2>5. p[y].inputs[c] \in wr
    BY <1>1, <2>1
  <2> QED
    BY <1>1, <1>6, <2>2, <2>4, <2>5, WritersBelow
<1> QED
  BY <1>7, <1>8

-----------------------------------------------------------------------------
(* The statements of a step *)

IsStatement(s, verb, target, reads) ==
  s \in StatementType /\ s.verb = verb /\ s.target = target /\ s.reads = reads
\* The fields of a statement.
LEMMA StatementIs ==
  ASSUME NEW verb \in StepVerbs, NEW target \in Names, NEW reads \in SUBSET Names, NEW s, s = Statement(verb, target, reads)
  PROVE  IsStatement(s, verb, target, reads)
<1>1. s.verb = verb /\ s.target = target /\ s.reads = reads
  BY DEF Statement
<1>2. s \in StatementType
  BY DEF Statement, StatementType, StepVerbs
<1> QED
  BY <1>1, <1>2 DEF IsStatement

\* T is S and what the step writes.
Wrote(S, step, T) ==
  /\ OrderedOut(T)
  /\ \A j \in DOMAIN T : (j \in DOMAIN S /\ T[j] = S[j]) \/ Comes(T[j], step)
  /\ \A m : /\ MadeIn(S, m) => MadeIn(T, m)
            /\ TableIn(S, m) => TableIn(T, m)
  /\ step.verb \in CreationVerbs => MadeIn(T, step.target)
  /\ step.verb = "create table" => TableIn(T, step.target)

\* A step of one statement.
LEMMA OneWrote ==
  ASSUME NEW S, OrderedOut(S), NEW t, Follows(S, t), NEW T, OneOut(S, t, T), NEW step, Comes(t, step)
  PROVE  /\ OrderedOut(T)
         /\ \A j \in DOMAIN T : (j \in DOMAIN S /\ T[j] = S[j]) \/ Comes(T[j], step)
         /\ \A m : /\ MadeIn(S, m) => MadeIn(T, m)
                   /\ TableIn(S, m) => TableIn(T, m)
<1>1. OrderedOut(T)
  BY OneOutOrdered
<1>2. \A j \in DOMAIN T : (j \in DOMAIN S /\ T[j] = S[j]) \/ Comes(T[j], step)
  <2>1. /\ DOMAIN S = 1 .. Len(S) /\ DOMAIN T = 1 .. Len(S) + 1 /\ Len(S) \in Nat
        /\ (\A j \in 1 .. Len(S) : T[j] = S[j]) /\ T[Len(S) + 1] = t
    BY DEF OneOut
  <2>2. \A k \in DOMAIN T : k \in 1 .. Len(S) \/ k = Len(S) + 1
    BY <2>1
  <2> QED
    BY <2>1, <2>2
<1> QED
  BY <1>1, <1>2, MoreMade

Visited(S, step, T) == T = S \o visit(step)
IsCreateTable(step) == step.verb = "create table"

\* What the step to be written needs of what has been.
FitsNext(S, step) ==
  /\ \A m \in step.reads : m = hidden_base_name \/ MadeIn(S, m)
  /\ step.verb \in CreationVerbs => step.target # hidden_base_name /\ ~MadeIn(S, step.target)
  /\ step.verb \in {"insert", "delete"} => TableIn(S, step.target)
  /\ step.verb \in WriteVerbs => \A j \in DOMAIN S : step.target \in S[j].reads => step.target = S[j].target

\* Sequences: two elements more.
LEMMA CatTwo ==
  ASSUME NEW S, NEW p \in Seq(S), NEW a \in S, NEW b \in S
  PROVE  p \o <<a, b>> = Append(Append(p, a), b)
<1>1. <<a, b>> = Append(<<a>>, b) /\ <<a>> \in Seq(S)
  OBVIOUS
<1>2. p \o <<a, b>> = Append(p \o <<a>>, b)
  BY <1>1, CatAppend
<1> QED
  BY <1>2, CatOne

\* The step of a new table is written as two statements: the table is created, then filled.
LEMMA TableWrote ==
  ASSUME NEW S, OrderedOut(S), NEW step \in StepType, IsCreateTable(step), FitsNext(S, step), NEW T, Visited(S, step, T)
  PROVE  Wrote(S, step, T)
<1>1. step.target \in Names /\ step.reads \in SUBSET Names /\ S \in Seq(StatementType)
  BY DEF StepType, OrderedOut
<1>2. PICK a, b : a = Statement("create table", step.target, {}) /\ b = Statement("insert", step.target, step.reads)
  OBVIOUS
<1>3. T = S \o <<a, b>>
  BY <1>2 DEF visit, Visited, IsCreateTable
<1>4. IsStatement(a, "create table", step.target, {}) /\ IsStatement(b, "insert", step.target, step.reads)
  <2>1. "create table" \in StepVerbs /\ "insert" \in StepVerbs /\ {} \in SUBSET Names
    BY DEF StepVerbs
  <2> QED
    BY <1>1, <1>2, <2>1, StatementIs
<1>5. PICK U : U = Append(S, a)
  OBVIOUS
<1>6. T = Append(U, b)
  <2>1. PICK V : V = StatementType
    OBVIOUS
  <2>2. S \in Seq(V) /\ a \in V /\ b \in V
    BY <1>1, <1>4, <2>1 DEF IsStatement
  <2>3. S \o <<a, b>> = Append(Append(S, a), b)
    BY <2>2, CatTwo
  <2> QED
    BY <1>3, <1>5, <2>3
<1>7. OneOut(S, a, U)
  BY <1>1, <1>4, <1>5, OneOutIs DEF IsStatement
<1>8. OneOut(U, b, T)
  <2>1. U \in Seq(StatementType) /\ b \in StatementType
    BY <1>4, <1>7 DEF IsStatement, OneOut
  <2> QED
    BY <1>6, <2>1, OneOutIs
<1>9. Comes(a, step) /\ Comes(b, step)
  BY <1>4 DEF IsStatement, Comes, IsCreateTable
<1>10. Follows(S, a)
  <2>1. a.verb = "create table" /\ a.target = step.target /\ a.reads = {}
    BY <1>4 DEF IsStatement
  <2> QED
    BY <2>1 DEF Follows, FitsNext, CreationVerbs, IsCreateTable
<1>11. OrderedOut(U) /\ (\A j \in DOMAIN U : (j \in DOMAIN S /\ U[j] = S[j]) \/ Comes(U[j], step))
       /\ \A m : (MadeIn(S, m) => MadeIn(U, m)) /\ (TableIn(S, m) => TableIn(U, m))
  BY <1>7, <1>9, <1>10, OneWrote
<1>12. TableIn(U, step.target) /\ MadeIn(U, step.target)
  BY <1>4, <1>7, MoreMade DEF IsStatement, CreationVerbs
<1>13. Follows(U, b)
  <2>1. b.verb = "insert" /\ b.target = step.target /\ b.reads = step.reads
    BY <1>4 DEF IsStatement
  <2>2. \A m \in b.reads : m = hidden_base_name \/ MadeIn(U, m)
    BY <1>11, <2>1 DEF FitsNext
  <2>3. ASSUME NEW j \in DOMAIN U, b.target \in U[j].reads PROVE b.target = U[j].target
    <3>1. j \in 1 .. Len(S) \/ j = Len(S) + 1
      BY <1>7 DEF OneOut
    <3>2. CASE j \in 1 .. Len(S)
      <4>1. U[j] = S[j] /\ j \in DOMAIN S
        BY <1>7, <3>2 DEF OneOut
      <4> QED
        BY <2>1, <2>3, <4>1 DEF FitsNext, WriteVerbs, IsCreateTable
    <3>3. CASE j = Len(S) + 1
      <4>1. U[j] = a
        <5>1. U[Len(S) + 1] = a
          BY <1>7 DEF OneOut
        <5> QED
          BY <3>3, <5>1
      <4> QED
        BY <1>4, <2>1, <4>1 DEF IsStatement
    <3> QED
      BY <3>1, <3>2, <3>3
  <2>4. ~(b.verb \in CreationVerbs)
    BY <2>1 DEF CreationVerbs
  <2> QED
    BY <1>12, <2>1, <2>2, <2>3, <2>4 DEF Follows
<1>14. OrderedOut(T) /\ (\A j \in DOMAIN T : (j \in DOMAIN U /\ T[j] = U[j]) \/ Comes(T[j], step))
       /\ \A m : (MadeIn(U, m) => MadeIn(T, m)) /\ (TableIn(U, m) => TableIn(T, m))
  BY <1>8, <1>9, <1>11, <1>13, OneWrote
<1> QED
  BY <1>11, <1>12, <1>14 DEF Wrote

\* Every other step is written as one statement.
LEMMA OtherWrote ==
  ASSUME NEW S, OrderedOut(S), NEW step \in StepType, ~IsCreateTable(step), FitsNext(S, step), NEW T, Visited(S, step, T)
  PROVE  Wrote(S, step, T)
<1>1. step.verb \in StepVerbs /\ step.target \in Names /\ step.reads \in SUBSET Names /\ S \in Seq(StatementType)
  BY DEF StepType, OrderedOut
<1>2. PICK a : a = Statement(step.verb, step.target, step.reads)
  OBVIOUS
<1>3. T = S \o <<a>>
  BY <1>2 DEF visit, Visited, IsCreateTable
<1>4. IsStatement(a, step.verb, step.target, step.reads)
  BY <1>1, <1>2, StatementIs
<1>5. T = Append(S, a)
  <2>1. PICK V : V = StatementType
    OBVIOUS
  <2>2. S \in Seq(V) /\ a \in V
    BY <1>1, <1>4, <2>1 DEF IsStatement
  <2> QED
    BY <1>3, <2>2, CatOne
<1>6. OneOut(S, a, T)
  BY <1>1, <1>4, <1>5, OneOutIs DEF IsStatement
<1>7. a.verb = step.verb /\ a.target = step.target /\ a.reads = step.reads
  BY <1>4 DEF IsStatement
<1>8. Comes(a, step)
  BY <1>7 DEF Comes
<1>9. Follows(S, a)
  BY <1>7 DEF Follows, FitsNext, WriteVerbs
<1>10. OrderedOut(T) /\ (\A j \in DOMAIN T : (j \in DOMAIN S /\ T[j] = S[j]) \/ Comes(T[j], step))
       /\ \A m : (MadeIn(S, m) => MadeIn(T, m)) /\ (TableIn(S, m) => TableIn(T, m))
  BY <1>6, <1>8, <1>9, OneWrote
<1>11. step.verb \in CreationVerbs => MadeIn(T, step.target)
  BY <1>6, <1>7, MoreMade
<1> QED
  BY <1>10, <1>11 DEF Wrote, IsCreateTable

\* The step that is written next leaves the statements in order.
LEMMA StepWrote ==
  ASSUME NEW p, NEW u, NEW wr, NEW S, NEW x, NEW i, Writing(p, u, wr, S, x, i), NEW T, Visited(S, p[x].steps[i], T)
  PROVE  Wrote(S, p[x].steps[i], T)
<1>1. PICK step : step = p[x].steps[i]
  OBVIOUS
<1>2. step \in StepType
  <2>1. p \in Seq(NodeType) /\ x \in DOMAIN p /\ i \in DOMAIN p[x].steps
    BY DEF Writing, Tree, TypedNodes
  <2>2. PICK V, s : V = StepType /\ s = p[x].steps
    OBVIOUS
  <2>3. s \in Seq(V) /\ i \in DOMAIN s
    BY <2>1, <2>2, NodeFields
  <2>4. s[i] \in V
    BY <2>3
  <2> QED
    BY <1>1, <2>2, <2>4
<1>3. FitsNext(S, step)
  <2>1. \A m \in step.reads : m = hidden_base_name \/ MadeIn(S, m)
    BY <1>1, ReadsAreThere
  <2>2. step.verb \in CreationVerbs => step.target # hidden_base_name /\ ~MadeIn(S, step.target)
    BY <1>1, CreatedOnce
  <2>3. step.verb \in {"insert", "delete"} => TableIn(S, step.target)
    BY <1>1, WritesToTables
  <2>4. step.verb \in WriteVerbs => \A j \in DOMAIN S : step.target \in S[j].reads => step.target = S[j].target
    BY <1>1, ReadBeforeWritten
  <2> QED
    BY <2>1, <2>2, <2>3, <2>4 DEF FitsNext
<1>4. OrderedOut(S)
  BY DEF Writing
<1> QED
  BY <1>1, <1>2, <1>3, <1>4, TableWrote, OtherWrote

-----------------------------------------------------------------------------
(* The emission keeps what has been written in order *)

\* Only the innermost call has written steps of its node.
LEMMA EmittedIs ==
  ASSUME NEW p \in Seq(NodeType), NEW w, NEW s, NEW wr, NEW low, WalksAt(p, w, s, wr, low),
         NEW x, NEW k, Inner(p, w, wr, low, x, k), NEW y \in DOMAIN p, NEW i \in DOMAIN p[y].steps
  PROVE  EmittedAt(p, w, wr, y, i) <=> y \in wr \/ (y = x /\ i < k - Len(p[x].inputs))
<1>1. PICK l : l = Len(w) /\ l \in Nat \ {0}
  BY DEF Inner
<1>2. w[l].node = x /\ w[l].next = k /\ l \in 1 .. l /\ \A f \in 1 .. l : f < l \/ f = l
  BY <1>1 DEF Inner
<1>3. i \in Nat /\ i >= 1
  BY StepsFrom
<1>4. ASSUME NEW f \in 1 .. l, f < l PROVE ~FrameEmits(p, w[f], y, i)
  <2>1. SUFFICES ASSUME w[f].node = y PROVE ~(i < w[f].next - Len(p[y].inputs))
    BY DEF FrameEmits
  <2>2. w[f].next <= Len(p[y].inputs) + 1
    BY <1>1, <1>4, <2>1 DEF WalksAt, FramesAt
  <2>3. w[f].next \in Nat
    BY <1>1, FrameFields DEF WalksAt, FramesAt
  <2>4. PICK a, b : a = Len(p[y].inputs) /\ b = w[f].next /\ a \in Nat
    BY StepsFrom
  <2>5. ~(i < b - a)
    BY <1>3, <2>2, <2>3, <2>4
  <2> QED
    BY <2>4, <2>5
<1>5. FrameEmits(p, w[l], y, i) <=> y = x /\ i < k - Len(p[x].inputs)
  BY <1>2 DEF FrameEmits
<1> QED
  BY <1>1, <1>2, <1>4, <1>5 DEF EmittedAt

AtStep(p, x, k, i) == ~(k <= Len(p[x].inputs)) /\ i = k - Len(p[x].inputs) /\ i <= Len(p[x].steps)
\* The innermost call, its inputs done, writes its next step.
LEMMA WritingNow ==
  ASSUME NEW p, NEW u, NEW st, NEW low, Growing(p, u, st, low), NEW w, NEW s, NEW wr, WalksAt(p, w, s, wr, low),
         NEW S, OutAt(p, w, wr, S), NEW x, NEW k, Inner(p, w, wr, low, x, k), NEW i, AtStep(p, x, k, i)
  PROVE  Writing(p, u, wr, S, x, i)
<1>1. Tree(p, u) /\ p \in Seq(NodeType)
  BY DEF Growing, Tree, TypedNodes
<1>2. \A y \in DOMAIN p : \A n \in DOMAIN p[y].steps : EmittedAt(p, w, wr, y, n) <=> y \in wr \/ (y = x /\ n < i)
  BY <1>1, EmittedIs DEF AtStep
<1>3. x \in DOMAIN p /\ x \notin wr
  <2>1. x = w[Len(w)].node /\ Len(w) \in 1 .. Len(w)
    BY DEF Inner
  <2> QED
    BY <2>1 DEF WalksAt, FramesAt
<1>4. i \in DOMAIN p[x].steps
  <2>1. PICK a, b : a = Len(p[x].inputs) /\ b = Len(p[x].steps)
    OBVIOUS
  <2>2. a \in Nat /\ b \in Nat /\ k \in Nat /\ ~(k <= a) /\ i = k - a /\ i <= b /\ DOMAIN p[x].steps = 1 .. b
    BY <2>1 DEF Inner, AtStep
  <2>3. i \in 1 .. b
    BY <2>2
  <2> QED
    BY <2>2, <2>3
<1>5. \A c \in DOMAIN p[x].inputs : p[x].inputs[c] \in wr
  <2> SUFFICES ASSUME NEW c \in DOMAIN p[x].inputs PROVE p[x].inputs[c] \in wr
    OBVIOUS
  <2>1. c \in 1 .. Len(p[x].inputs) /\ Len(p[x].inputs) \in Nat /\ k \in Nat
    BY DEF Inner
  <2>2. c < k
    BY <2>1 DEF AtStep
  <2> QED
    BY <2>1, <2>2 DEF Inner
<1>6. wr \subseteq DOMAIN p /\ \A y \in wr : \A c \in DOMAIN p[y].inputs : p[y].inputs[c] \in wr
  BY DEF WalksAt, WrittenAt
<1>7. OrderedOut(S) /\ ChannelsAt(p, wr, S)
  BY DEF OutAt
<1>8. \A j \in DOMAIN S : \E y \in DOMAIN p : \E n \in DOMAIN p[y].steps :
        (y \in wr \/ (y = x /\ n < i)) /\ Comes(S[j], p[y].steps[n])
  BY <1>2 DEF OutAt, ComesAt
<1>9. \A y \in DOMAIN p : \A n \in DOMAIN p[y].steps : y \in wr \/ (y = x /\ n < i) =>
        /\ p[y].steps[n].verb \in CreationVerbs => MadeIn(S, p[y].steps[n].target)
        /\ p[y].steps[n].verb = "create table" => TableIn(S, p[y].steps[n].target)
  BY <1>2 DEF OutAt, CreatedAt
<1> QED
  BY <1>1, <1>3, <1>4, <1>5, <1>6, <1>7, <1>8, <1>9 DEF Writing

\* Numbers: what is before the next one.
LEMMA OneFurther ==
  ASSUME NEW k \in Nat, NEW a \in Nat, NEW i, i = k - a, NEW n \in Nat
  PROVE  n < (k + 1) - a <=> n < i \/ n = i
OBVIOUS

\* Writing a step keeps what the written statements are.
LEMMA OutWrites ==
  ASSUME NEW p, NEW u, NEW st, NEW low, Growing(p, u, st, low), NEW w, NEW s, NEW wr, WalksAt(p, w, s, wr, low),
         NEW S, OutAt(p, w, wr, S), NEW x, NEW k, Inner(p, w, wr, low, x, k), NEW i, AtStep(p, x, k, i),
         NEW m, Moves(w, m), NEW T, Visited(S, p[x].steps[i], T)
  PROVE  OutAt(p, m, wr, T)
<1>1. p \in Seq(NodeType)
  BY DEF Growing, Tree, TypedNodes
<1>2. Writing(p, u, wr, S, x, i)
  BY WritingNow
<1>3. Wrote(S, p[x].steps[i], T)
  BY <1>2, StepWrote
<1>4. x \in DOMAIN p /\ i \in DOMAIN p[x].steps
  BY <1>2 DEF Writing
<1>5. ASSUME NEW y \in DOMAIN p, NEW n \in DOMAIN p[y].steps
      PROVE  EmittedAt(p, m, wr, y, n) <=> EmittedAt(p, w, wr, y, n) \/ (y = x /\ n = i)
  <2>1. n \in Nat /\ n >= 1
    BY <1>1, StepsFrom
  <2>2. EmittedAt(p, m, wr, y, n) <=> EmittedAt(p, w, wr, y, n) \/ (y = x /\ n < (k + 1) - Len(p[x].inputs))
    BY <2>1, MovedEmits
  <2>3. EmittedAt(p, w, wr, y, n) <=> y \in wr \/ (y = x /\ n < i)
    BY <1>1, EmittedIs DEF AtStep
  <2>4. n < (k + 1) - Len(p[x].inputs) <=> n < i \/ n = i
    <3>1. PICK a : a = Len(p[x].inputs)
      OBVIOUS
    <3>2. a \in Nat /\ k \in Nat /\ i = k - a
      BY <3>1 DEF Inner, AtStep
    <3>3. n < (k + 1) - a <=> n < i \/ n = i
      BY <2>1, <3>2, OneFurther
    <3> QED
      BY <3>1, <3>3
  <2> QED
    BY <2>2, <2>3, <2>4
<1>6. ComesAt(p, m, wr, T)
  <2> SUFFICES ASSUME NEW j \in DOMAIN T
               PROVE  \E y \in DOMAIN p : \E n \in DOMAIN p[y].steps : EmittedAt(p, m, wr, y, n) /\ Comes(T[j], p[y].steps[n])
    BY DEF ComesAt
  <2>1. CASE j \in DOMAIN S /\ T[j] = S[j]
    BY <1>5, <2>1 DEF OutAt, ComesAt
  <2>2. CASE Comes(T[j], p[x].steps[i])
    BY <1>4, <1>5, <2>2
  <2> QED
    BY <1>3, <2>1, <2>2 DEF Wrote
<1>7. CreatedAt(p, m, wr, T)
  <2> SUFFICES ASSUME NEW y \in DOMAIN p, NEW n \in DOMAIN p[y].steps, EmittedAt(p, m, wr, y, n)
               PROVE  /\ p[y].steps[n].verb \in CreationVerbs => MadeIn(T, p[y].steps[n].target)
                      /\ p[y].steps[n].verb = "create table" => TableIn(T, p[y].steps[n].target)
    BY DEF CreatedAt
  <2>1. CASE EmittedAt(p, w, wr, y, n)
    <3>1. /\ p[y].steps[n].verb \in CreationVerbs => MadeIn(S, p[y].steps[n].target)
          /\ p[y].steps[n].verb = "create table" => TableIn(S, p[y].steps[n].target)
      BY <2>1 DEF OutAt, CreatedAt
    <3> QED
      BY <1>3, <3>1 DEF Wrote
  <2>2. CASE y = x /\ n = i
    BY <1>3, <2>2 DEF Wrote
  <2> QED
    BY <1>5, <2>1, <2>2
<1>8. ChannelsAt(p, wr, T)
  BY <1>3 DEF OutAt, ChannelsAt, Wrote
<1>9. OrderedOut(T)
  BY <1>3 DEF Wrote
<1> QED
  BY <1>6, <1>7, <1>8, <1>9 DEF OutAt

\* A node whose steps are all written leaves its channel table there.
LEMMA ChannelWritten ==
  ASSUME NEW p, NEW u, NEW st, NEW low, Growing(p, u, st, low), NEW w, NEW s, NEW wr, WalksAt(p, w, s, wr, low),
         NEW S, OutAt(p, w, wr, S), NEW x, NEW k, Inner(p, w, wr, low, x, k), ~(k <= Len(p[x].inputs)),
         k - Len(p[x].inputs) > Len(p[x].steps)
  PROVE  ChannelsAt(p, wr \cup {x}, S)
<1>1. Tree(p, u) /\ p \in Seq(NodeType) /\ x \in DOMAIN p
  BY DEF Growing, Tree, TypedNodes, Inner
<1>2. ASSUME p[x].kind = "channel" PROVE TableIn(S, p[x].ref)
  <2>1. Made(p, p[x]) \/ Grown(p, p[x])
    BY <1>1, <1>2 DEF Tree, Shaped, Silent, Pruned
  <2>2. CASE Made(p, p[x])
    <3>1. 1 \in DOMAIN p[x].steps /\ p[x].steps[1].verb = "create table" /\ p[x].steps[1].target = p[x].ref
      BY <1>1, <1>2, <2>2, MadeSteps
    <3>2. 1 < k - Len(p[x].inputs)
      <4>1. PICK a, b : a = Len(p[x].inputs) /\ b = Len(p[x].steps)
        OBVIOUS
      <4>2. a \in Nat /\ b \in Nat /\ k \in Nat /\ 1 \in 1 .. b /\ k - a > b
        BY <1>1, <3>1, <4>1, StepsFrom DEF Inner
      <4>3. 1 < k - a
        BY <4>2
      <4> QED
        BY <4>1, <4>3
    <3>3. EmittedAt(p, w, wr, x, 1)
      BY <1>1, <3>1, <3>2, EmittedIs
    <3> QED
      BY <1>1, <3>1, <3>3 DEF OutAt, CreatedAt
  <2>3. CASE Grown(p, p[x])
    <3>1. PICK c : GrownSteps(p, x, c)
      BY <1>1, <2>3, GrownStepsAre
    <3>2. p[x].inputs = <<c>> /\ p[c].kind = "channel" /\ p[x].ref = p[c].ref
      BY <3>1 DEF GrownSteps
    <3>3. 1 \in DOMAIN p[x].inputs /\ p[x].inputs[1] = c
      BY <3>2, One
    <3>4. c \in wr
      <4>1. 1 \in 1 .. Len(p[x].inputs) /\ Len(p[x].inputs) \in Nat /\ k \in Nat
        BY <3>3 DEF Inner
      <4>2. 1 < k
        BY <4>1
      <4> QED
        BY <3>3, <4>1, <4>2 DEF Inner
    <3> QED
      BY <3>2, <3>4 DEF OutAt, ChannelsAt
  <2> QED
    BY <2>1, <2>2, <2>3
<1> QED
  BY <1>2 DEF OutAt, ChannelsAt

Out == OutAt(nodes, walking, written, setup_statements)

\* What the innermost call finds.
LEMMA AtInner ==
  ASSUME EmissionOK, NEW x, NEW k, At(x, k)
  PROVE  /\ nodes \in Seq(NodeType) /\ Growing(nodes, UsedNames, stack, LastRoot)
         /\ WalksAt(nodes, walking, seen, written, LastRoot)
         /\ Inner(nodes, walking, written, LastRoot, x, k)
         /\ x \in DOMAIN nodes /\ Len(nodes[x].inputs) \in Nat /\ Len(nodes[x].steps) \in Nat /\ k \in Nat
BY NodesAre DEF EmissionOK, GenOK, At, Inner

\* Skipping a seen input leaves the statements in order.
LEMMA SkipChildOut ==
  ASSUME EmissionOK, Out, SkipChild
  PROVE  Out'
<1>1. /\ walking # <<>> /\ AtChild /\ walking' = Moved
      /\ nodes' = nodes /\ written' = written /\ setup_statements' = setup_statements
  BY DEF SkipChild, AtChild, treeVars
<1>2. PICK x, k : At(x, k)
  BY <1>1, CallIs
<1>3. k <= Len(nodes[x].inputs)
  BY <1>1, <1>2 DEF At
<1>4. PICK m : m = walking' /\ Moves(walking, m)
  BY <1>1, MovedIs
<1>5. SameEmitted(nodes, walking, written, m, written)
  BY <1>2, <1>3, <1>4, AtInner, SkipEmits
<1>6. OutAt(nodes, m, written, setup_statements)
  BY <1>5, OutStays DEF Out, OutAt
<1> QED
  BY <1>1, <1>4, <1>6 DEF Out

\* Walking into an input leaves the statements in order.
LEMMA WalkChildOut ==
  ASSUME EmissionOK, Out, WalkChild
  PROVE  Out'
<1>1. /\ walking # <<>> /\ AtChild /\ walking' = Append(Moved, Frame(NextChild, 1))
      /\ nodes' = nodes /\ written' = written /\ setup_statements' = setup_statements
  BY DEF WalkChild, AtChild, treeVars
<1>2. PICK x, k : At(x, k)
  BY <1>1, CallIs
<1>3. k <= Len(nodes[x].inputs)
  BY <1>1, <1>2 DEF At
<1>4. PICK m : m = Moved /\ Moves(walking, m)
  BY <1>1, MovedIs
<1>5. PICK c, v : c = NextChild /\ v = walking' /\ Calls(m, c, v)
  BY <1>1, <1>4 DEF Calls
<1>6. OutAt(nodes, m, written, setup_statements)
  <2>1. SameEmitted(nodes, walking, written, m, written)
    BY <1>2, <1>3, <1>4, AtInner, SkipEmits
  <2> QED
    BY <2>1, OutStays DEF Out, OutAt
<1>7. c \in DOMAIN nodes /\ c \in Nat
  <2>1. Inner(nodes, walking, written, LastRoot, x, k) /\ c = nodes[x].inputs[k]
    BY <1>2, <1>5 DEF At
  <2>2. k \in 1 .. Len(nodes[x].inputs)
    BY <1>3, <2>1, MostIs DEF Inner
  <2> QED
    BY <2>1, <2>2 DEF Inner
<1>8. SameEmitted(nodes, m, written, v, written)
  <2>1. m \in Seq(FrameType)
    BY <1>4 DEF Moves
  <2> QED
    BY <1>2, <1>5, <1>7, <2>1, AtInner, CallEmits
<1>9. OutAt(nodes, v, written, setup_statements)
  BY <1>6, <1>8, OutStays DEF OutAt
<1> QED
  BY <1>1, <1>5, <1>9 DEF Out

\* Writing a step leaves the statements in order.
LEMMA WriteStepOut ==
  ASSUME EmissionOK, Out, WriteStep
  PROVE  Out'
<1>1. /\ walking # <<>> /\ ~AtChild /\ NextStep <= Len(Walked.steps) /\ walking' = Moved
      /\ nodes' = nodes /\ written' = written
  BY DEF WriteStep, treeVars
<1>2. PICK x, k : At(x, k)
  BY <1>1, CallIs
<1>3. PICK i : i = NextStep /\ AtStep(nodes, x, k, i)
  BY <1>1, <1>2 DEF At, AtStep
<1>4. PICK T : T = setup_statements' /\ Visited(setup_statements, nodes[x].steps[i], T)
  <2>1. Walked = nodes[x]
    BY <1>2 DEF At
  <2> QED
    BY <1>3, <2>1, Zenon DEF WriteStep, Visited
<1>5. PICK m : m = walking' /\ Moves(walking, m)
  BY <1>1, MovedIs
<1>6. OutAt(nodes, m, written, T)
  BY <1>2, <1>3, <1>4, <1>5, AtInner, OutWrites DEF Out
<1> QED
  BY <1>1, <1>4, <1>5, <1>6 DEF Out

\* All of the node has been written.
LEMMA AllOut ==
  ASSUME EmissionOK, Out, AllWritten, NEW x, NEW k, At(x, k), NEW v, Len(v) = Len(walking) - 1,
         \A f \in 1 .. Len(walking) - 1 : v[f] = walking[f]
  PROVE  OutAt(nodes, v, written \cup {x}, setup_statements)
<1>1. ~(k <= Len(nodes[x].inputs)) /\ k - Len(nodes[x].inputs) > Len(nodes[x].steps)
  BY DEF AllWritten, At
<1>2. SameEmitted(nodes, walking, written, v, written \cup {x})
  BY <1>1, AtInner, ReturnEmits
<1>3. ChannelsAt(nodes, written \cup {x}, setup_statements)
  BY <1>1, AtInner, ChannelWritten DEF Out
<1> QED
  BY <1>2, <1>3, OutStays DEF Out

\* Returning from an input leaves the statements in order.
LEMMA ReturnOut ==
  ASSUME EmissionOK, Out, Return
  PROVE  Out'
<1>1. /\ walking # <<>> /\ AllWritten /\ Len(walking) > 1
      /\ nodes' = nodes /\ setup_statements' = setup_statements /\ written' = written \cup {Call.node}
  BY DEF Return, AllWritten, treeVars
<1>2. PICK x, k : At(x, k)
  BY <1>1, CallIs
<1>3. Call.node = x
  BY <1>2 DEF At
<1>4. PICK v : v = walking' /\ Pops(walking, v)
  BY Zenon DEF Return, Pops
<1>5. Len(v) = Len(walking) - 1 /\ \A f \in 1 .. Len(walking) - 1 : v[f] = walking[f]
  <2>1. PICK S, l : S = FrameType /\ l = Len(walking)
    OBVIOUS
  <2>2. walking \in Seq(S)
    BY <1>2, <2>1 DEF At
  <2>3. l \in Nat /\ l > 1 /\ v = SubSeq(walking, 1, l - 1)
    BY <1>1, <1>4, <2>1, <2>2 DEF Pops
  <2>4. Len(v) = l - 1 /\ \A f \in 1 .. l - 1 : v[f] = walking[f]
    BY <2>1, <2>2, <2>3
  <2> QED
    BY <2>1, <2>4
<1>6. OutAt(nodes, v, written \cup {x}, setup_statements)
  BY <1>1, <1>2, <1>5, AllOut
<1> QED
  BY <1>1, <1>3, <1>4, <1>6 DEF Out

\* The end of a fork leaves the statements in order.
LEMMA EndForkOut ==
  ASSUME EmissionOK, Out, EndFork
  PROVE  Out'
<1>1. /\ walking # <<>> /\ AllWritten /\ Len(walking) = 1 /\ walking' = <<>>
      /\ nodes' = nodes /\ setup_statements' = setup_statements /\ written' = written \cup {Call.node}
  BY DEF EndFork, AllWritten
<1>2. PICK x, k : At(x, k)
  BY <1>1, CallIs
<1>3. Call.node = x
  BY <1>2 DEF At
<1>4. PICK v : v = walking' /\ v = <<>>
  BY <1>1
<1>5. Len(v) = Len(walking) - 1 /\ \A f \in 1 .. Len(walking) - 1 : v[f] = walking[f]
  <2>1. Len(v) = 0
    BY <1>4
  <2> QED
    BY <1>1, <2>1
<1>6. OutAt(nodes, v, written \cup {x}, setup_statements)
  BY <1>1, <1>2, <1>5, AllOut
<1> QED
  BY <1>1, <1>3, <1>4, <1>6 DEF Out

\* A builder writes nothing.
LEMMA GenerateOut ==
  ASSUME EmissionOK, Out, Generate
  PROVE  Out'
<1>1. GenOK /\ GenOK' /\ ExposedOK(exposed_names) /\ forks \in Seq(Nat)
  BY GenerateKeeps DEF EmissionOK, GenOK
<1>2. CASE Decline
  <2>1. UNCHANGED <<nodes, walking, setup_statements, written>>
    BY <1>2 DEF Decline, walkVars
  <2> QED
    BY <2>1 DEF Out
<1>3. ASSUME NEW builder, NEW more, Adds(builder, more) PROVE Out'
  <2>1. /\ builder \in BuilderNames /\ Given(builder, more) /\ walking = <<>> /\ nodes' = nodes \o more
        /\ setup_statements' = setup_statements /\ written' = written
    BY <1>3 DEF Adds, Generating
  <2>2. nodes \in Seq(NodeType) /\ nodes' \in Seq(NodeType) /\ Len(nodes) \in Nat
    <3>1. nodes' \in Seq(NodeType)
      BY <1>1 DEF GenOK, Growing, Tree, TypedNodes
    <3> QED
      BY <1>1, <3>1, NodesAre
  <2>3. PICK q : q = nodes'
    OBVIOUS
  <2>4. Extended(nodes, q, builder, more)
    <3>1. PICK S : S = NodeType
      OBVIOUS
    <3>2. nodes \in Seq(S) /\ builder \in BuilderNames /\ Given(builder, more) /\ q = nodes \o more
      BY <2>1, <2>2, <2>3, <3>1
    <3> QED
      BY <3>2, MoreNodes
  <2>5. Older(nodes, q) /\ Len(q) = Len(nodes) + Len(more)
    BY <2>4 DEF Extended
  <2>6. PICK e : e = <<>> /\ Len(e) = 0 /\ OutAt(nodes, e, written, setup_statements)
    <3>1. Len(<<>>) = 0
      OBVIOUS
    <3> QED
      BY <2>1, <3>1 DEF Out
  <2>7. written \subseteq DOMAIN nodes
    BY DEF EmissionOK, WalksAt, WrittenAt
  <2>8. PICK w : w = walking' /\ \A f \in 1 .. Len(w) : \A i \in DOMAIN q[w[f].node].steps : ~(i < w[f].next - Len(q[w[f].node].inputs))
    <3>1. CASE walking' = walking
      <4>1. 1 .. Len(walking) = {}
        BY <2>1
      <4> QED
        BY <3>1, <4>1
    <3>2. CASE Starts(more)
      <4>1. PICK r, f : r = Len(nodes) + 1 /\ f = Frame(r, 1)
        OBVIOUS
      <4>2. f.node = r /\ f.next = 1
        BY <4>1 DEF Frame
      <4>3. PICK w : w = walking' /\ w = <<f>>
        BY <3>2, <4>1 DEF Starts
      <4>4. 1 .. Len(w) = {1} /\ w[1] = f
        BY <4>3
      <4>5. r \in DOMAIN q
        <5>1. Len(q) = r
          BY <2>5, <3>2, <4>1 DEF Starts
        <5>2. DOMAIN q = 1 .. Len(q) /\ r \in Nat /\ r >= 1
          BY <2>2, <2>5, <4>1 DEF Older
        <5> QED
          BY <5>1, <5>2
      <4>6. DOMAIN q[r].steps = 1 .. Len(q[r].steps) /\ Len(q[r].inputs) \in Nat
        BY <2>2, <2>3, <4>5, StepsFrom
      <4>7. \A i \in DOMAIN q[r].steps : ~(i < 1 - Len(q[r].inputs))
        BY <4>6
      <4>8. \A g \in 1 .. Len(w) : \A i \in DOMAIN q[w[g].node].steps : ~(i < w[g].next - Len(q[w[g].node].inputs))
        BY <4>2, <4>4, <4>7
      <4> QED
        BY <4>3, <4>8
    <3> QED
      BY <1>3, <3>1, <3>2 DEF Adds
  <2>9. OutAt(q, w, written, setup_statements)
    BY <2>5, <2>6, <2>7, <2>8, OutWaits
  <2> QED
    BY <2>1, <2>3, <2>8, <2>9 DEF Out
<1> QED
  BY <1>1, <1>2, <1>3, GenerateAdds

\* Before the first fork nothing is written.
LEMMA OutStarts ==
  ASSUME EmissionInit
  PROVE  Out
<1>1. PICK e, S : e = <<>> /\ S = StatementType
  OBVIOUS
<1>2. e \in Seq(S) /\ DOMAIN e = {}
  BY <1>1
<1>3. OutAt(e, e, {}, e)
  BY <1>1, <1>2 DEF OutAt, OrderedOut, InOrder, ReadLast, ComesAt, CreatedAt, ChannelsAt
<1>4. nodes = e /\ walking = e /\ written = {} /\ setup_statements = e
  BY <1>1 DEF EmissionInit
<1> QED
  BY <1>3, <1>4 DEF Out

\* Every step leaves the statements in order.
LEMMA SetupStepKeepsOut ==
  ASSUME EmissionOK, Out, [Next]_vars
  PROVE  Out'
<1>1. CASE GenerateForks
  BY <1>1, GenerateOut, SkipChildOut, WalkChildOut, WriteStepOut, ReturnOut, EndForkOut DEF GenerateForks, emit_equivalence
<1>2. CASE UNCHANGED emissionVars
  BY <1>2 DEF Out, emissionVars, treeVars, walkVars
<1>3. CASE Build \/ run \/ StatementFails \/ SetupDone \/ query \/ EngineRefreshes
  BY <1>2, <1>3 DEF Build, run, StatementFails, SetupDone, query, EngineRefreshes
<1>4. CASE UNCHANGED vars
  BY <1>2, <1>4 DEF vars
<1> QED
  BY <1>1, <1>3, <1>4 DEF Next

\* What has been written, in every reachable state.
THEOREM EmittedInOrder == Spec => []Out
<1>1. Init => EmissionOK /\ Out
  BY EmissionStarts, OutStarts DEF Init
<1>2. (EmissionOK /\ Out) /\ [Next]_vars => (EmissionOK /\ Out)'
  BY SetupStepKeepsEmission, SetupStepKeepsOut
<1> QED
  BY <1>1, <1>2, PTL DEF Spec

-----------------------------------------------------------------------------
(* Programs of statements *)

\* Statements of a setup, and what they need.
RunType == [verb : RunVerbs, target : Names, to : Names, reads : SUBSET Names]
TableVerbs == {"create table", "create table as"}
RowVerbs == {"insert", "insert values", "delete"}
Renames(s) == s.verb = "rename"
MakesName(s) == s.verb \in Creates
MakesTable(s) == s.verb \in TableVerbs
NeedsTable(s) == s.verb \notin Creates \cup {"select"}
WritesRows(s) == s.verb \in RowVerbs

\* A statement may run when these names are there, these of them tables; and what is there then.
Takes(s, names_there, tables) ==
  /\ s.reads \subseteq names_there
  /\ MakesName(s) => s.target \notin names_there
  /\ NeedsTable(s) => s.target \in tables
  /\ Renames(s) => s.to \notin names_there /\ tables = names_there
Renamed(s, set) == (set \ {s.target}) \cup {s.to}
NamesAfter(s, set) == IF Renames(s) THEN Renamed(s, set) ELSE IF MakesName(s) THEN set \cup {s.target} ELSE set
TablesAfter(s, set) == IF Renames(s) THEN Renamed(s, set) ELSE IF MakesTable(s) THEN set \cup {s.target} ELSE set

\* The statements of P run one after the other; d and t say what is there before each of them.
Runs(P, d, t) ==
  \A k \in 1 .. Len(P) :
    /\ Takes(P[k], d[k], t[k])
    /\ d[k + 1] = NamesAfter(P[k], d[k]) /\ t[k + 1] = TablesAfter(P[k], t[k])
Leads(P, d0, t0, d1, t1) ==
  \E d, t : /\ Runs(P, d, t)
            /\ d[1] = d0 /\ t[1] = t0 /\ d[Len(P) + 1] = d1 /\ t[Len(P) + 1] = t1

\* The first statement of a program, and the rest.
LEMMA FirstRuns ==
  ASSUME NEW S, NEW P \in Seq(S), P # <<>>, NEW d0, NEW t0, NEW d1, NEW t1, Leads(P, d0, t0, d1, t1)
  PROVE  /\ Takes(Head(P), d0, t0)
         /\ Leads(Tail(P), NamesAfter(Head(P), d0), TablesAfter(Head(P), t0), d1, t1)
<1>1. PICK d, t : /\ Runs(P, d, t)
                  /\ d[1] = d0 /\ t[1] = t0 /\ d[Len(P) + 1] = d1 /\ t[Len(P) + 1] = t1
  BY DEF Leads
<1>2. PICK l : l = Len(P) /\ l \in Nat /\ l >= 1
  <2>1. Len(P) \in Nat /\ Len(P) # 0
    OBVIOUS
  <2> QED
    BY <2>1
<1>3. PICK Q : Q = Tail(P) /\ Len(Q) = l - 1 /\ \A k \in 1 .. l - 1 : Q[k] = P[k + 1]
  <2>1. PICK Q : Q = Tail(P)
    OBVIOUS
  <2>2. Len(Q) = Len(P) - 1 /\ \A k \in 1 .. Len(Q) : Q[k] = P[k + 1]
    BY <2>1, HeadTailProperties
  <2>3. Len(Q) = l - 1
    BY <1>2, <2>2
  <2> QED
    BY <2>1, <2>2, <2>3
<1>4. Head(P) = P[1]
  OBVIOUS
<1>5. PICK e, u : e = [k \in 1 .. l |-> d[k + 1]] /\ u = [k \in 1 .. l |-> t[k + 1]]
  OBVIOUS
<1>6. \A k \in 1 .. l : e[k] = d[k + 1] /\ u[k] = t[k + 1]
  BY <1>5
<1>7. Runs(Q, e, u)
  <2> SUFFICES ASSUME NEW k \in 1 .. l - 1
               PROVE  /\ Takes(Q[k], e[k], u[k])
                      /\ e[k + 1] = NamesAfter(Q[k], e[k]) /\ u[k + 1] = TablesAfter(Q[k], u[k])
    BY <1>3 DEF Runs
  <2>1. PICK n : n = k + 1 /\ n \in 1 .. l /\ k \in 1 .. l
    BY <1>2
  <2>2. e[k] = d[n] /\ u[k] = t[n] /\ e[n] = d[n + 1] /\ u[n] = t[n + 1] /\ Q[k] = P[n]
    BY <1>3, <1>6, <2>1
  <2>3. /\ Takes(P[n], d[n], t[n])
        /\ d[n + 1] = NamesAfter(P[n], d[n]) /\ t[n + 1] = TablesAfter(P[n], t[n])
    BY <1>1, <1>2, <2>1 DEF Runs
  <2> QED
    BY <2>1, <2>2, <2>3
<1>8. Takes(P[1], d0, t0) /\ d[2] = NamesAfter(P[1], d0) /\ t[2] = TablesAfter(P[1], t0)
  <2>1. 1 \in 1 .. Len(P) /\ 1 + 1 = 2
    BY <1>2
  <2> QED
    BY <1>1, <2>1 DEF Runs
<1>9. e[1] = d[2] /\ u[1] = t[2] /\ e[Len(Q) + 1] = d1 /\ u[Len(Q) + 1] = t1
  <2>1. 1 \in 1 .. l /\ l \in 1 .. l /\ Len(Q) + 1 = l /\ 1 + 1 = 2
    BY <1>2, <1>3
  <2> QED
    BY <1>1, <1>2, <1>6, <2>1
<1>10. Leads(Q, NamesAfter(P[1], d0), TablesAfter(P[1], t0), d1, t1)
  BY <1>7, <1>8, <1>9 DEF Leads
<1> QED
  BY <1>3, <1>4, <1>8, <1>10

\* One program after another.
LEMMA OneAfterTheOther ==
  ASSUME NEW S, NEW P \in Seq(S), NEW Q \in Seq(S), NEW d0, NEW t0, NEW d1, NEW t1, NEW d2, NEW t2,
         Leads(P, d0, t0, d1, t1), Leads(Q, d1, t1, d2, t2)
  PROVE  Leads(P \o Q, d0, t0, d2, t2)
<1>1. PICK d, t : /\ Runs(P, d, t)
                  /\ d[1] = d0 /\ t[1] = t0 /\ d[Len(P) + 1] = d1 /\ t[Len(P) + 1] = t1
  BY DEF Leads
<1>2. PICK e, u : /\ Runs(Q, e, u)
                  /\ e[1] = d1 /\ u[1] = t1 /\ e[Len(Q) + 1] = d2 /\ u[Len(Q) + 1] = t2
  BY DEF Leads
<1>3. PICK a, b, R : a = Len(P) /\ b = Len(Q) /\ R = P \o Q
  OBVIOUS
<1>4. /\ a \in Nat /\ b \in Nat /\ Len(R) = a + b
      /\ \A k \in 1 .. a : R[k] = P[k]
      /\ \A k \in a + 1 .. a + b : R[k] = Q[k - a]
  BY <1>3
<1>5. PICK f, v : /\ f = [k \in 1 .. a + b + 1 |-> IF k <= a THEN d[k] ELSE e[k - a]]
                  /\ v = [k \in 1 .. a + b + 1 |-> IF k <= a THEN t[k] ELSE u[k - a]]
  OBVIOUS
<1>6. /\ \A k \in 1 .. a : f[k] = d[k] /\ v[k] = t[k]
      /\ \A k \in a + 1 .. a + b + 1 : f[k] = e[k - a] /\ v[k] = u[k - a]
  BY <1>4, <1>5
<1>7. f[a + 1] = d[a + 1] /\ v[a + 1] = t[a + 1]
  <2>1. a + 1 \in a + 1 .. a + b + 1 /\ (a + 1) - a = 1
    BY <1>4
  <2> QED
    BY <1>1, <1>2, <1>3, <1>6, <2>1
<1>8. \A k \in 1 .. a + 1 : f[k] = d[k] /\ v[k] = t[k]
  <2>1. \A k \in 1 .. a + 1 : k \in 1 .. a \/ k = a + 1
    BY <1>4
  <2> QED
    BY <1>6, <1>7, <2>1
<1>9. Runs(R, f, v)
  <2> SUFFICES ASSUME NEW k \in 1 .. a + b
               PROVE  /\ Takes(R[k], f[k], v[k])
                      /\ f[k + 1] = NamesAfter(R[k], f[k]) /\ v[k + 1] = TablesAfter(R[k], v[k])
    BY <1>4 DEF Runs
  <2>1. CASE k \in 1 .. a
    <3>1. /\ Takes(P[k], d[k], t[k])
          /\ d[k + 1] = NamesAfter(P[k], d[k]) /\ t[k + 1] = TablesAfter(P[k], t[k])
      BY <1>1, <1>3, <2>1 DEF Runs
    <3>2. k \in 1 .. a + 1 /\ k + 1 \in 1 .. a + 1
      BY <1>4, <2>1
    <3> QED
      BY <1>4, <1>8, <2>1, <3>1, <3>2
  <2>2. CASE k \in a + 1 .. a + b
    <3>1. PICK n : n = k - a /\ n \in 1 .. b /\ n + 1 = (k + 1) - a
      BY <1>4, <2>2
    <3>2. /\ Takes(Q[n], e[n], u[n])
          /\ e[n + 1] = NamesAfter(Q[n], e[n]) /\ u[n + 1] = TablesAfter(Q[n], u[n])
      BY <1>2, <1>3, <3>1 DEF Runs
    <3>3. k \in a + 1 .. a + b + 1 /\ k + 1 \in a + 1 .. a + b + 1
      BY <1>4, <2>2
    <3>4. f[k] = e[n] /\ v[k] = u[n] /\ f[k + 1] = e[n + 1] /\ v[k + 1] = u[n + 1]
      BY <1>6, <3>1, <3>3
    <3> QED
      BY <1>4, <2>2, <3>1, <3>2, <3>4
  <2>3. k \in 1 .. a \/ k \in a + 1 .. a + b
    BY <1>4
  <2> QED
    BY <2>1, <2>2, <2>3
<1>10. f[1] = d0 /\ v[1] = t0 /\ f[Len(R) + 1] = d2 /\ v[Len(R) + 1] = t2
  <2>1. 1 \in 1 .. a + 1 /\ a + b + 1 \in a + 1 .. a + b + 1 /\ (a + b + 1) - a = b + 1
    BY <1>4
  <2> QED
    BY <1>1, <1>2, <1>3, <1>4, <1>6, <1>8, <2>1
<1>11. Leads(R, d0, t0, d2, t2)
  BY <1>9, <1>10 DEF Leads
<1> QED
  BY <1>3, <1>11

\* What a program without renaming has made before its statement k.
MadeSoFar(P, k) == {m \in Names : \E j \in 1 .. k - 1 : MakesName(P[j]) /\ P[j].target = m}
TablesSoFar(P, k) == {m \in Names : \E j \in 1 .. k - 1 : MakesTable(P[j]) /\ P[j].target = m}

\* A program without renames runs if each statement finds what it needs among what was there and what came before.
LEMMA RunsOn ==
  ASSUME NEW P \in Seq(RunType), NEW d0, NEW t0,
         \A k \in 1 .. Len(P) : /\ ~Renames(P[k])
                                /\ Takes(P[k], d0 \cup MadeSoFar(P, k), t0 \cup TablesSoFar(P, k))
  PROVE  Leads(P, d0, t0, d0 \cup MadeSoFar(P, Len(P) + 1), t0 \cup TablesSoFar(P, Len(P) + 1))
<1>1. PICK l : l = Len(P) /\ l \in Nat
  <2>1. PICK S : S = RunType
    OBVIOUS
  <2>2. Len(P) \in Nat
    BY <2>1
  <2> QED
    BY <2>2
<1>2. \A k \in 1 .. l : P[k].target \in Names
  <2>1. PICK S : S = RunType
    OBVIOUS
  <2>2. \A k \in 1 .. l : P[k] \in S
    BY <1>1, <2>1
  <2> QED
    BY <2>1, <2>2 DEF RunType
<1>3. PICK d, t : /\ d = [k \in 1 .. l + 1 |-> d0 \cup MadeSoFar(P, k)]
                  /\ t = [k \in 1 .. l + 1 |-> t0 \cup TablesSoFar(P, k)]
  OBVIOUS
<1>4. \A k \in 1 .. l + 1 : d[k] = d0 \cup MadeSoFar(P, k) /\ t[k] = t0 \cup TablesSoFar(P, k)
  BY <1>3
<1>5. MadeSoFar(P, 1) = {} /\ TablesSoFar(P, 1) = {}
  <2>1. 1 .. 1 - 1 = {}
    OBVIOUS
  <2> QED
    BY <2>1 DEF MadeSoFar, TablesSoFar
<1>6. ASSUME NEW k \in 1 .. l
      PROVE  /\ MadeSoFar(P, k + 1) = MadeSoFar(P, k) \cup (IF MakesName(P[k]) THEN {P[k].target} ELSE {})
             /\ TablesSoFar(P, k + 1) = TablesSoFar(P, k) \cup (IF MakesTable(P[k]) THEN {P[k].target} ELSE {})
  <2>1. (k + 1) - 1 = k /\ k \in 1 .. k /\ (\A j \in 1 .. k : j \in 1 .. k - 1 \/ j = k) /\ \A j \in 1 .. k - 1 : j \in 1 .. k
    BY <1>1
  <2> QED
    BY <1>2, <2>1 DEF MadeSoFar, TablesSoFar
<1>7. Runs(P, d, t)
  <2> SUFFICES ASSUME NEW k \in 1 .. l
               PROVE  /\ Takes(P[k], d[k], t[k])
                      /\ d[k + 1] = NamesAfter(P[k], d[k]) /\ t[k + 1] = TablesAfter(P[k], t[k])
    BY <1>1 DEF Runs
  <2>1. k \in 1 .. l + 1 /\ k + 1 \in 1 .. l + 1
    BY <1>1
  <2>2. ~Renames(P[k]) /\ Takes(P[k], d[k], t[k])
    BY <1>1, <1>4, <2>1
  <2>3. d[k + 1] = NamesAfter(P[k], d[k]) /\ t[k + 1] = TablesAfter(P[k], t[k])
    BY <1>4, <1>6, <2>1, <2>2 DEF NamesAfter, TablesAfter
  <2> QED
    BY <2>2, <2>3
<1>8. 1 \in 1 .. l + 1 /\ l + 1 \in 1 .. l + 1
  BY <1>1
<1>9. d[1] = d0 /\ t[1] = t0
  BY <1>4, <1>5, <1>8
<1>10. PICK d1, t1 : d1 = d0 \cup MadeSoFar(P, l + 1) /\ t1 = t0 \cup TablesSoFar(P, l + 1)
  OBVIOUS
<1>11. d[l + 1] = d1 /\ t[l + 1] = t1
  BY <1>4, <1>8, <1>10
<1>12. Leads(P, d0, t0, d1, t1)
  BY <1>1, <1>7, <1>9, <1>11 DEF Leads
<1> QED
  BY <1>1, <1>10, <1>12

-----------------------------------------------------------------------------
(* What a statement does to the objects *)

TableNames(o) == {m \in DOMAIN o : o[m].kind = "table"}
ObjectShape(o) ==
  \A m \in DOMAIN o : /\ o[m].kind \in {"table", "view"} /\ o[m].reads \subseteq DOMAIN o
                      /\ o[m].kind = "table" => o[m].reads = {}
SameShape(o, n) ==
  DOMAIN n = DOMAIN o /\ \A m \in DOMAIN o : n[m].kind = o[m].kind /\ n[m].reads = o[m].reads

\* A refresh changes no kind and no text.
LEMMA RefreshedShape ==
  ASSUME ObjectShape(objects), NEW S
  PROVE  SameShape(objects, Refreshed(S))
BY DEF ObjectShape, SameShape, Refreshed, Tables, TableObject

\* Objects of the same shape have the same tables.
LEMMA ShapeStays ==
  ASSUME NEW o, NEW n, SameShape(o, n), ObjectShape(o)
  PROVE  ObjectShape(n) /\ TableNames(n) = TableNames(o)
BY DEF ObjectShape, SameShape, TableNames

\* n is o with one table, or one view, more or anew.
TablePut(o, target, n) ==
  /\ ObjectShape(n) /\ DOMAIN n = DOMAIN o \cup {target} /\ TableNames(n) = TableNames(o) \cup {target}
  /\ \A m \in DOMAIN n : n[m].reads = {} \/ (m \in DOMAIN o /\ n[m].reads = o[m].reads)
ViewPut(o, target, reads, n) ==
  /\ ObjectShape(n) /\ DOMAIN n = DOMAIN o \cup {target} /\ TableNames(n) = TableNames(o)
  /\ \A m \in DOMAIN n : n[m].reads = reads \/ (m \in DOMAIN o /\ n[m].reads = o[m].reads)

\* A table is put among the objects.
LEMMA PutTable ==
  ASSUME NEW o, ObjectShape(o), NEW target, target \in DOMAIN o => target \in TableNames(o), NEW pending
  PROVE  TablePut(o, target, Put(o, target, TableObject(pending)))
<1>1. PICK object, n : object = TableObject(pending) /\ n = Put(o, target, object)
  OBVIOUS
<1>2. object.kind = "table" /\ object.reads = {}
  BY <1>1 DEF TableObject
<1>3. /\ DOMAIN n = DOMAIN o \cup {target} /\ n[target] = object
      /\ \A m \in DOMAIN o : m # target => n[m] = o[m]
  BY <1>1 DEF Put
<1>4. ObjectShape(n)
  BY <1>2, <1>3 DEF ObjectShape
<1>5. TableNames(n) = TableNames(o) \cup {target}
  BY <1>2, <1>3 DEF TableNames
<1> QED
  BY <1>1, <1>2, <1>3, <1>4, <1>5 DEF TablePut

\* A view is put among the objects.
LEMMA PutView ==
  ASSUME NEW o, ObjectShape(o), NEW target, target \notin DOMAIN o, NEW reads, reads \subseteq DOMAIN o
  PROVE  ViewPut(o, target, reads, Put(o, target, ViewObject(reads)))
<1>1. PICK object, n : object = ViewObject(reads) /\ n = Put(o, target, object)
  OBVIOUS
<1>2. object.kind = "view" /\ object.reads = reads
  BY <1>1 DEF ViewObject
<1>3. /\ DOMAIN n = DOMAIN o \cup {target} /\ n[target] = object
      /\ \A m \in DOMAIN o : m # target => n[m] = o[m]
  BY <1>1 DEF Put
<1>4. ObjectShape(n)
  BY <1>2, <1>3 DEF ObjectShape
<1>5. TableNames(n) = TableNames(o)
  BY <1>2, <1>3 DEF TableNames
<1> QED
  BY <1>1, <1>2, <1>3, <1>4, <1>5 DEF ViewPut

\* What is there after a statement; what an object reads it read before, or the statement reads.
Leaves(s, o, n) ==
  /\ ObjectShape(n) /\ DOMAIN n = NamesAfter(s, DOMAIN o) /\ TableNames(n) = TablesAfter(s, TableNames(o))
  /\ \A m \in DOMAIN n : \/ n[m].reads = {}
                         \/ m \in DOMAIN o /\ n[m].reads = o[m].reads
                         \/ s.verb = "create view" /\ n[m].reads = s.reads

\* What the engine has after a statement that may run is what the statement says.
LEMMA StatementLeaves ==
  ASSUME NEW s, s.verb \in RunVerbs, NEW o, ObjectShape(o), Takes(s, DOMAIN o, TableNames(o))
  PROVE  Leaves(s, o, ObjectsAfter(s, o))
<1>1. PICK n, x : n = ObjectsAfter(s, o) /\ x = s.target
  OBVIOUS
<1>2. /\ s.reads \subseteq DOMAIN o
      /\ MakesName(s) => x \notin DOMAIN o
      /\ NeedsTable(s) => x \in TableNames(o)
      /\ Renames(s) => s.to \notin DOMAIN o /\ TableNames(o) = DOMAIN o
  BY <1>1 DEF Takes
<1>5. CASE s.verb = "create table"
  <2>1. n = Put(o, x, TableObject(FALSE)) /\ ~Renames(s) /\ MakesName(s) /\ MakesTable(s)
    BY <1>1, <1>5 DEF ObjectsAfter, Renames, MakesName, MakesTable, Creates, TableVerbs
  <2>2. TablePut(o, x, n)
    <3>1. x \in DOMAIN o => x \in TableNames(o)
      BY <1>2, <2>1
    <3>2. TablePut(o, x, Put(o, x, TableObject(FALSE)))
      BY <3>1, PutTable
    <3> QED
      BY <2>1, <3>2
  <2> QED
    BY <1>1, <2>1, <2>2 DEF Leaves, NamesAfter, TablesAfter, TablePut
<1>6. CASE s.verb = "create table as"
  <2>1. n = Put(o, x, TableObject(TRUE)) /\ ~Renames(s) /\ MakesName(s) /\ MakesTable(s)
    BY <1>1, <1>6 DEF ObjectsAfter, Renames, MakesName, MakesTable, Creates, TableVerbs
  <2>2. TablePut(o, x, n)
    <3>1. x \in DOMAIN o => x \in TableNames(o)
      BY <1>2, <2>1
    <3>2. TablePut(o, x, Put(o, x, TableObject(TRUE)))
      BY <3>1, PutTable
    <3> QED
      BY <2>1, <3>2
  <2> QED
    BY <1>1, <2>1, <2>2 DEF Leaves, NamesAfter, TablesAfter, TablePut
<1>7. CASE s.verb \in RowVerbs
  <2>1. n = Put(o, x, TableObject(TRUE)) /\ ~Renames(s) /\ ~MakesName(s) /\ ~MakesTable(s) /\ NeedsTable(s)
    BY <1>1, <1>7 DEF ObjectsAfter, Renames, MakesName, MakesTable, NeedsTable, Creates, TableVerbs, RowVerbs
  <2>2. TablePut(o, x, n)
    <3>1. TablePut(o, x, Put(o, x, TableObject(TRUE)))
      BY <1>2, <2>1, PutTable
    <3> QED
      BY <2>1, <3>1
  <2>3. DOMAIN o \cup {x} = DOMAIN o /\ TableNames(o) \cup {x} = TableNames(o)
    BY <1>2, <2>1 DEF TableNames
  <2> QED
    BY <1>1, <2>1, <2>2, <2>3 DEF Leaves, NamesAfter, TablesAfter, TablePut
<1>8. CASE s.verb = "create view"
  <2>1. n = Put(o, x, ViewObject(s.reads)) /\ ~Renames(s) /\ MakesName(s) /\ ~MakesTable(s)
    BY <1>1, <1>8 DEF ObjectsAfter, Renames, MakesName, MakesTable, Creates, TableVerbs
  <2>2. ViewPut(o, x, s.reads, n)
    <3>1. ViewPut(o, x, s.reads, Put(o, x, ViewObject(s.reads)))
      BY <1>2, <2>1, PutView
    <3> QED
      BY <2>1, <3>1
  <2> QED
    BY <1>1, <1>8, <2>1, <2>2 DEF Leaves, NamesAfter, TablesAfter, ViewPut
<1>9. CASE s.verb = "rename"
  <2>1. /\ Renames(s) /\ NeedsTable(s)
        /\ n = [m \in (DOMAIN o \ {s.target}) \cup {s.to} |-> IF m = s.to THEN o[s.target] ELSE o[m]]
    BY <1>1, <1>9 DEF ObjectsAfter, Renames, NeedsTable, Creates
  <2>2. \A m \in DOMAIN o : o[m].kind = "table" /\ o[m].reads = {}
    BY <1>2, <2>1 DEF TableNames, ObjectShape
  <2>3. DOMAIN n = (DOMAIN o \ {s.target}) \cup {s.to} /\ \A m \in DOMAIN n : n[m].kind = "table" /\ n[m].reads = {}
    BY <1>1, <1>2, <2>1, <2>2
  <2>4. ObjectShape(n) /\ TableNames(n) = DOMAIN n
    BY <2>3 DEF ObjectShape, TableNames
  <2>5. DOMAIN n = Renamed(s, DOMAIN o) /\ TableNames(n) = Renamed(s, TableNames(o))
    BY <1>2, <2>1, <2>3, <2>4 DEF Renamed
  <2> QED
    BY <1>1, <2>1, <2>3, <2>4, <2>5 DEF Leaves, NamesAfter, TablesAfter
<1>10. CASE s.verb = "select"
  <2>1. n = o /\ ~Renames(s) /\ ~MakesName(s) /\ ~MakesTable(s)
    BY <1>1, <1>10 DEF ObjectsAfter, Renames, MakesName, MakesTable, Creates, TableVerbs
  <2> QED
    BY <1>1, <2>1 DEF Leaves, NamesAfter, TablesAfter
<1> QED
  BY <1>5, <1>6, <1>7, <1>8, <1>9, <1>10 DEF RunVerbs, Creates, RowVerbs

-----------------------------------------------------------------------------
(* A setup under way *)

\* What has been read is not written to any more, but by the statement that read it.
ReadFirst(P) ==
  \A j, k \in DOMAIN P : j < k /\ WritesRows(P[k]) /\ P[k].target \in P[j].reads =>
    P[j].verb # "create view" /\ P[k].target = P[j].target
Clear(P, o) == \A v \in DOMAIN o : \A i \in DOMAIN P : WritesRows(P[i]) => P[i].target \notin o[v].reads
\* The program P runs from the objects o on, and leaves the names x behind.
Going(P, o, x) ==
  /\ P \in Seq(RunType) /\ IsFiniteSet(DOMAIN o) /\ ObjectShape(o) /\ Clear(P, o) /\ ReadFirst(P)
  /\ \E d, t : x \subseteq d /\ Leads(P, DOMAIN o, TableNames(o), d, t)

\* A refresh leaves a program under way.
LEMMA GoingStays ==
  ASSUME NEW P, NEW o, NEW x, Going(P, o, x), NEW n, SameShape(o, n)
  PROVE  Going(P, n, x)
<1>1. ObjectShape(n) /\ TableNames(n) = TableNames(o) /\ DOMAIN n = DOMAIN o
  BY ShapeStays DEF Going, SameShape
<1>2. Clear(P, n)
  BY DEF Going, Clear, SameShape
<1> QED
  BY <1>1, <1>2 DEF Going

\* At the end of a program the names it was for are there.
LEMMA RunsOut ==
  ASSUME NEW o, NEW x, Going(<<>>, o, x)
  PROVE  x \subseteq DOMAIN o
<1>1. Len(<<>>) + 1 = 1
  OBVIOUS
<1> QED
  BY <1>1 DEF Going, Leads

\* The next statement of a program under way is accepted.
LEMMA NextAccepted ==
  ASSUME NEW P, NEW x, Going(P, objects, x), P # <<>>
  PROVE  Accepts(Head(P))
<1>1. PICK S, s : S = RunType /\ s = Head(P)
  OBVIOUS
<1>2. P \in Seq(S)
  BY <1>1 DEF Going
<1>3. s \in S
  BY <1>1, <1>2
<1>4. Takes(s, DOMAIN objects, TableNames(objects))
  BY <1>1, <1>2, FirstRuns DEF Going
<1>5. s.verb \in RunVerbs
  BY <1>1, <1>3 DEF RunType
<1>6. TableNames(objects) = Tables
  BY DEF TableNames, Tables
<1> QED
  BY <1>1, <1>4, <1>5, <1>6 DEF Accepts, Takes, MakesName, NeedsTable, Renames

\* After its next statement, a program is under way with the rest.
LEMMA ProgramGoesOn ==
  ASSUME NEW P, NEW o, NEW x, Going(P, o, x), P # <<>>
  PROVE  Going(Tail(P), ObjectsAfter(Head(P), o), x)
<1>1. PICK S, s, Q, n : S = RunType /\ s = Head(P) /\ Q = Tail(P) /\ n = ObjectsAfter(Head(P), o)
  OBVIOUS
<1>2. P \in Seq(S) /\ ObjectShape(o) /\ Clear(P, o) /\ ReadFirst(P) /\ IsFiniteSet(DOMAIN o)
  BY <1>1 DEF Going
<1>3. s \in S /\ Q \in Seq(S) /\ s = P[1]
  BY <1>1, <1>2
<1>4. PICK d, t : x \subseteq d /\ Leads(P, DOMAIN o, TableNames(o), d, t)
  BY DEF Going
<1>5. /\ Takes(s, DOMAIN o, TableNames(o))
      /\ Leads(Q, NamesAfter(s, DOMAIN o), TablesAfter(s, TableNames(o)), d, t)
  BY <1>1, <1>2, <1>4, FirstRuns
<1>6. s.verb \in RunVerbs
  BY <1>1, <1>3 DEF RunType
<1>7. Leaves(s, o, n)
  BY <1>1, <1>2, <1>5, <1>6, StatementLeaves
<1>8. Leads(Q, DOMAIN n, TableNames(n), d, t) /\ ObjectShape(n)
  BY <1>5, <1>7 DEF Leaves
<1>9. IsFiniteSet(DOMAIN n)
  <2>1. IsFiniteSet(DOMAIN o \cup {s.target}) /\ IsFiniteSet((DOMAIN o \ {s.target}) \cup {s.to})
    <3>1. IsFiniteSet(DOMAIN o \ {s.target})
      BY <1>2, FS_Subset
    <3>2. PICK a, b, c, e : a = DOMAIN o /\ b = DOMAIN o \ {s.target} /\ c = s.target /\ e = s.to
      OBVIOUS
    <3>3. IsFiniteSet(a \cup {c}) /\ IsFiniteSet(b \cup {e})
      BY <1>2, <3>1, <3>2, FS_AddElement
    <3> QED
      BY <3>2, <3>3
  <2> QED
    BY <1>2, <1>7, <2>1 DEF Leaves, NamesAfter, Renamed
<1>10. DOMAIN P = 1 .. Len(P) /\ Len(P) \in Nat /\ Len(P) # 0
  BY <1>1, <1>2
<1>11. \A k \in DOMAIN Q : k + 1 \in DOMAIN P /\ 1 < k + 1 /\ Q[k] = P[k + 1] /\ k \in Nat
  <2>1. Len(Q) = Len(P) - 1 /\ \A k \in 1 .. Len(Q) : Q[k] = P[k + 1]
    BY <1>1, <1>2, HeadTailProperties
  <2>2. DOMAIN Q = 1 .. Len(Q)
    BY <1>3
  <2> QED
    BY <1>10, <2>1, <2>2
<1>12. ReadFirst(Q)
  <2> SUFFICES ASSUME NEW j \in DOMAIN Q, NEW k \in DOMAIN Q, j < k, WritesRows(Q[k]), Q[k].target \in Q[j].reads
               PROVE  Q[j].verb # "create view" /\ Q[k].target = Q[j].target
    BY DEF ReadFirst
  <2>1. PICK a, b : a = j + 1 /\ b = k + 1 /\ a \in DOMAIN P /\ b \in DOMAIN P /\ a < b /\ Q[j] = P[a] /\ Q[k] = P[b]
    BY <1>11
  <2>2. WritesRows(P[b]) /\ P[b].target \in P[a].reads
    BY <2>1
  <2>3. P[a].verb # "create view" /\ P[b].target = P[a].target
    BY <1>2, <2>1, <2>2 DEF ReadFirst
  <2> QED
    BY <2>1, <2>3
<1>13. Clear(Q, n)
  <2> SUFFICES ASSUME NEW v \in DOMAIN n, NEW i \in DOMAIN Q, WritesRows(Q[i])
               PROVE  Q[i].target \notin n[v].reads
    BY DEF Clear
  <2>1. PICK k : k = i + 1 /\ k \in DOMAIN P /\ 1 < k /\ Q[i] = P[k]
    BY <1>11
  <2>2. 1 \in DOMAIN P
    BY <1>10
  <2>3. CASE v \in DOMAIN o /\ n[v].reads = o[v].reads
    BY <1>2, <2>1, <2>3 DEF Clear
  <2>4. CASE s.verb = "create view" /\ n[v].reads = s.reads
    BY <1>2, <1>3, <2>1, <2>2, <2>4 DEF ReadFirst
  <2> QED
    BY <1>7, <2>3, <2>4 DEF Leaves
<1>14. Going(Q, n, x)
  BY <1>1, <1>3, <1>4, <1>8, <1>9, <1>12, <1>13 DEF Going
<1> QED
  BY <1>1, <1>14

-----------------------------------------------------------------------------
(* The programs of the two databases *)

\* Makes the seed table, or writes its rows.
MakesSeed(s) ==
  /\ s \in RunType /\ s.target = seed_name /\ s.reads = {}
  /\ MakesTable(s) /\ MakesName(s) /\ ~Renames(s) /\ ~NeedsTable(s) /\ ~WritesRows(s)
FillsSeed(s) ==
  /\ s \in RunType /\ s.target = seed_name /\ s.reads = {}
  /\ ~MakesTable(s) /\ ~MakesName(s) /\ ~Renames(s) /\ NeedsTable(s) /\ WritesRows(s)
CopiesSeed(s, name) ==
  /\ s \in RunType /\ s.target = name /\ s.reads = {seed_name}
  /\ MakesTable(s) /\ MakesName(s) /\ ~Renames(s) /\ ~NeedsTable(s) /\ ~WritesRows(s)
RenamesSeed(s) ==
  /\ s \in RunType /\ s.target = seed_name /\ s.reads = {} /\ s.to = hidden_base_name
  /\ Renames(s) /\ NeedsTable(s) /\ ~MakesName(s) /\ ~MakesTable(s) /\ ~WritesRows(s)

\* The names of the seed and of the hidden base are two.
LEMMA NamesThere == seed_name \in Names /\ hidden_base_name \in Names /\ seed_name # hidden_base_name
BY DEF seed_name, hidden_base_name, Names

StatementHas(s, verb, name, reads) == s \in RunType /\ s.verb = verb /\ s.target = name /\ s.reads = reads
\* The fields of a statement of a setup.
LEMMA StatementFields ==
  ASSUME NEW verb \in RunVerbs, NEW name \in Names, NEW reads \in SUBSET Names
  PROVE  StatementHas(Statement(verb, name, reads), verb, name, reads)
BY DEF Statement, RunType, StatementHas

\* The statements before those of the trees.
LEMMA StatementsAre ==
  /\ MakesSeed(Statement("create table", seed_name, {}))
  /\ FillsSeed(Statement("insert values", seed_name, {}))
  /\ RenamesSeed(rename_aside_sql)
  /\ \A name \in Names : CopiesSeed(Statement("create table as", name, {seed_name}), name)
<1>2. {} \in SUBSET Names /\ {seed_name} \in SUBSET Names
  BY NamesThere
<1>3. MakesSeed(Statement("create table", seed_name, {}))
  <2>1. PICK s, verb : s = Statement(verb, seed_name, {}) /\ verb = "create table"
    OBVIOUS
  <2>2. verb \in RunVerbs
    BY <2>1 DEF RunVerbs, Creates
  <2>3. s \in RunType /\ s.verb = verb /\ s.target = seed_name /\ s.reads = {}
    <3>1. PICK none : none = {} /\ none \in SUBSET Names
      BY <1>2
    <3>2. StatementHas(Statement(verb, seed_name, none), verb, seed_name, none)
      BY <2>2, <3>1, NamesThere, StatementFields
    <3> QED
      BY <2>1, <3>1, <3>2 DEF StatementHas
  <2>4. MakesTable(s) /\ MakesName(s) /\ ~Renames(s) /\ ~NeedsTable(s) /\ ~WritesRows(s)
    BY <2>1, <2>3 DEF MakesTable, MakesName, Renames, NeedsTable, WritesRows, TableVerbs, Creates, RowVerbs
  <2> QED
    BY <2>1, <2>3, <2>4 DEF MakesSeed
<1>4. FillsSeed(Statement("insert values", seed_name, {}))
  <2>1. PICK s, verb : s = Statement(verb, seed_name, {}) /\ verb = "insert values"
    OBVIOUS
  <2>2. verb \in RunVerbs
    BY <2>1 DEF RunVerbs, Creates
  <2>3. s \in RunType /\ s.verb = verb /\ s.target = seed_name /\ s.reads = {}
    <3>1. PICK none : none = {} /\ none \in SUBSET Names
      BY <1>2
    <3>2. StatementHas(Statement(verb, seed_name, none), verb, seed_name, none)
      BY <2>2, <3>1, NamesThere, StatementFields
    <3> QED
      BY <2>1, <3>1, <3>2 DEF StatementHas
  <2>4. ~MakesTable(s) /\ ~MakesName(s) /\ ~Renames(s) /\ NeedsTable(s) /\ WritesRows(s)
    BY <2>1, <2>3 DEF MakesTable, MakesName, Renames, NeedsTable, WritesRows, TableVerbs, Creates, RowVerbs
  <2> QED
    BY <2>1, <2>3, <2>4 DEF FillsSeed
<1>5. ASSUME NEW name \in Names PROVE CopiesSeed(Statement("create table as", name, {seed_name}), name)
  <2>1. PICK s, verb, reads : s = Statement(verb, name, reads) /\ verb = "create table as" /\ reads = {seed_name}
    OBVIOUS
  <2>2. verb \in RunVerbs /\ reads \in SUBSET Names
    BY <1>2, <2>1 DEF RunVerbs, Creates
  <2>3. s \in RunType /\ s.verb = verb /\ s.target = name /\ s.reads = reads
    <3>1. StatementHas(Statement(verb, name, reads), verb, name, reads)
      BY <2>2, StatementFields
    <3> QED
      BY <2>1, <3>1 DEF StatementHas
  <2>4. MakesTable(s) /\ MakesName(s) /\ ~Renames(s) /\ ~NeedsTable(s) /\ ~WritesRows(s)
    BY <2>1, <2>3 DEF MakesTable, MakesName, Renames, NeedsTable, WritesRows, TableVerbs, Creates, RowVerbs
  <2> QED
    BY <2>1, <2>3, <2>4 DEF CopiesSeed
<1>6. RenamesSeed(rename_aside_sql)
  <2>1. PICK s, verb, old : s = rename_aside_sql /\ verb = "rename" /\ old = Statement(verb, seed_name, {})
    OBVIOUS
  <2>2. verb \in RunVerbs
    BY <2>1 DEF RunVerbs
  <2>3. s = [old EXCEPT !.to = hidden_base_name]
    BY <2>1 DEF rename_aside_sql
  <2>4. s = [verb |-> verb, target |-> seed_name, to |-> hidden_base_name, reads |-> {}]
    BY <2>1, <2>3 DEF Statement
  <2>5. s \in RunType /\ s.verb = verb /\ s.target = seed_name /\ s.reads = {} /\ s.to = hidden_base_name
    BY <1>2, <2>2, <2>4, NamesThere DEF RunType
  <2>6. ~MakesTable(s) /\ ~MakesName(s) /\ Renames(s) /\ NeedsTable(s) /\ ~WritesRows(s)
    BY <2>1, <2>5 DEF MakesTable, MakesName, Renames, NeedsTable, WritesRows, TableVerbs, Creates, RowVerbs
  <2> QED
    BY <2>1, <2>5, <2>6 DEF RenamesSeed
<1> QED
  BY <1>3, <1>4, <1>5, <1>6

\* The seed table and its rows.
LEMMA SeedSetUp ==
  LET P == base_setup_statements
  IN /\ P \in Seq(RunType) /\ Leads(P, {}, {}, {seed_name}, {seed_name})
     /\ \A k \in DOMAIN P : P[k].reads = {}
<1>1. PICK S, a, b : S = RunType /\ a = Statement("create table", seed_name, {}) /\ b = Statement("insert values", seed_name, {})
  OBVIOUS
<1>2. MakesSeed(a) /\ FillsSeed(b) /\ a \in S /\ b \in S
  BY <1>1, StatementsAre DEF MakesSeed, FillsSeed
<1>3. PICK n, f : n = SeedRows /\ f = [row \in 1 .. n |-> b]
  OBVIOUS
<1>4. n \in Nat /\ f \in Seq(S) /\ Len(f) = n /\ \A k \in 1 .. n : f[k] = b
  <2>1. n \in Nat
    BY <1>3, SeedRowsAssumption
  <2> QED
    BY <1>2, <1>3, <2>1
<1>5. PICK P : P = base_setup_statements /\ P = <<a>> \o f
  BY <1>1, <1>3 DEF base_setup_statements
<1>6. P \in Seq(S) /\ Len(P) = n + 1 /\ P[1] = a /\ \A k \in 2 .. n + 1 : P[k] = b
  <2>1. <<a>> \in Seq(S) /\ Len(<<a>>) = 1 /\ <<a>>[1] = a
    BY <1>2
  <2>2. PICK A : A = <<a>> /\ A \in Seq(S) /\ Len(A) = 1 /\ A[1] = a
    BY <2>1
  <2>3. P \in Seq(S) /\ Len(P) = n + 1 /\ P[1] = A[1] /\ \A k \in 2 .. n + 1 : P[k] = f[k - 1]
    BY <1>4, <1>5, <2>2
  <2>4. \A k \in 2 .. n + 1 : k - 1 \in 1 .. n
    BY <1>4
  <2> QED
    BY <1>4, <2>2, <2>3, <2>4
<1>7. /\ 1 \in 1 .. n + 1 /\ DOMAIN P = 1 .. n + 1
      /\ \A k \in 1 .. n + 1 : k = 1 \/ (k \in 2 .. n + 1 /\ 1 \in 1 .. k - 1 /\ 1 .. k - 1 \subseteq 1 .. n + 1)
  BY <1>4, <1>6
<1>8. \A k \in 1 .. n + 1 : P[k].target = seed_name /\ P[k].reads = {} /\ ~Renames(P[k])
  BY <1>2, <1>6, <1>7 DEF MakesSeed, FillsSeed
<1>9. MakesTable(P[1]) /\ MakesName(P[1])
  BY <1>2, <1>6 DEF MakesSeed
<1>10. ASSUME NEW k \in 2 .. n + 2 PROVE MadeSoFar(P, k) = {seed_name} /\ TablesSoFar(P, k) = {seed_name}
  <2>1. 1 \in 1 .. k - 1 /\ 1 .. k - 1 \subseteq 1 .. n + 1
    BY <1>4
  <2> QED
    BY <1>8, <1>9, <2>1, NamesThere DEF MadeSoFar, TablesSoFar
<1>11. MadeSoFar(P, 1) = {} /\ TablesSoFar(P, 1) = {}
  <2>1. 1 .. 1 - 1 = {}
    OBVIOUS
  <2> QED
    BY <2>1 DEF MadeSoFar, TablesSoFar
<1>12. ASSUME NEW k \in 1 .. n + 1
       PROVE  ~Renames(P[k]) /\ Takes(P[k], {} \cup MadeSoFar(P, k), {} \cup TablesSoFar(P, k))
  <2>1. CASE k = 1
    BY <1>2, <1>6, <1>11, <2>1 DEF MakesSeed, Takes
  <2>2. CASE k \in 2 .. n + 1
    <3>1. k \in 2 .. n + 2
      BY <1>4, <2>2
    <3>2. P[k] = b
      BY <1>6, <2>2
    <3> QED
      BY <1>2, <1>10, <3>1, <3>2 DEF FillsSeed, Takes
  <2> QED
    BY <1>7, <2>1, <2>2
<1>13. n + 2 \in 2 .. n + 2 /\ Len(P) + 1 = n + 2
  BY <1>4, <1>6
<1>14. Leads(P, {}, {}, {seed_name}, {seed_name})
  <2>1. P \in Seq(RunType)
    BY <1>1, <1>6
  <2>2. Leads(P, {}, {}, {} \cup MadeSoFar(P, Len(P) + 1), {} \cup TablesSoFar(P, Len(P) + 1))
    BY <1>6, <1>12, <2>1, RunsOn
  <2> QED
    BY <1>10, <1>13, <2>2
<1> QED
  BY <1>1, <1>5, <1>6, <1>7, <1>8, <1>14

\* The seed is moved aside.
LEMMA SeedMovedAside ==
  LET P == <<rename_aside_sql>>
  IN P \in Seq(RunType) /\ Leads(P, {seed_name}, {seed_name}, {hidden_base_name}, {hidden_base_name})
     /\ \A k \in DOMAIN P : P[k].reads = {}
<1>1. PICK S, a : S = RunType /\ a = rename_aside_sql
  OBVIOUS
<1>2. RenamesSeed(a) /\ a \in S
  BY <1>1, StatementsAre DEF RenamesSeed
<1>3. PICK P : P = <<a>> /\ P \in Seq(S) /\ Len(P) = 1 /\ DOMAIN P = {1} /\ P[1] = a
  <2>1. <<a>> \in Seq(S) /\ Len(<<a>>) = 1 /\ DOMAIN <<a>> = {1} /\ <<a>>[1] = a
    BY <1>2
  <2> QED
    BY <2>1
<1>4. PICK old, new : old = {seed_name} /\ new = {hidden_base_name}
  OBVIOUS
<1>5. Takes(a, old, old)
  BY <1>2, <1>4, NamesThere DEF Takes, RenamesSeed
<1>6. NamesAfter(a, old) = new /\ TablesAfter(a, old) = new
  BY <1>2, <1>4 DEF NamesAfter, TablesAfter, Renamed, RenamesSeed
<1>7. PICK d : d[1] = old /\ d[2] = new
  <2>1. <<old, new>>[1] = old /\ <<old, new>>[2] = new
    OBVIOUS
  <2> QED
    BY <2>1
<1>8. Runs(P, d, d)
  <2>1. 1 .. Len(P) = {1} /\ 1 + 1 = 2
    BY <1>3
  <2> QED
    BY <1>3, <1>5, <1>6, <1>7, <2>1 DEF Runs
<1>9. Len(P) + 1 = 2
  BY <1>3
<1>10. Leads(P, old, old, new, new)
  BY <1>7, <1>8, <1>9 DEF Leads
<1> QED
  BY <1>1, <1>2, <1>3, <1>4, <1>10 DEF RenamesSeed

\* The forks are copies of the seed table, if it is not the only fork.
LEMMA ForksCopied ==
  ASSUME ExposedOK(exposed_names)
  PROVE  LET P == fork_copy_statements
         IN /\ P \in Seq(RunType) /\ (\A k \in DOMAIN P : ~WritesRows(P[k]))
            /\ \E d, t : Range(exposed_names) \subseteq d /\ Leads(P, {seed_name}, {seed_name}, d, t)
<1>1. PICK S, x, n : S = RunType /\ x = exposed_names /\ n = Len(exposed_names)
  OBVIOUS
<1>2. /\ n \in Nat \ {0} /\ DOMAIN x = 1 .. n /\ \A i \in 1 .. n : x[i] \in Names
      /\ \A i, j \in 1 .. n : x[i] = x[j] => i = j
      /\ \A i \in 1 .. n : x[i] = seed_name => n = 1
  <2>1. PICK T : T = {"t"} \X Nat
    OBVIOUS
  <2>2. x \in Seq(T) /\ x # <<>>
    BY <1>1, <2>1 DEF ExposedOK
  <2>3. n \in Nat /\ n # 0 /\ DOMAIN x = 1 .. n /\ \A i \in 1 .. n : x[i] \in T
    BY <1>1, <2>2
  <2>4. T \subseteq Names
    BY <2>1 DEF Names
  <2> QED
    BY <1>1, <2>3, <2>4 DEF ExposedOK
<1>3. PICK P : P = fork_copy_statements
  OBVIOUS
<1>4. Range(exposed_names) = {x[i] : i \in 1 .. n}
  BY <1>1, <1>2 DEF Range
<1>5. CASE \E i \in 1 .. n : x[i] = seed_name
  <2>1. n = 1 /\ x[1] = seed_name
    BY <1>2, <1>5
  <2>2. {i \in DOMAIN x : x[i] # seed_name} = {}
    BY <1>2, <2>1
  <2>3. P = [i \in {} |-> Statement("create table as", x[i], {seed_name})]
    BY <1>1, <1>3, <2>2 DEF fork_copy_statements
  <2>4. P = <<>>
    BY <2>3
  <2>5. PICK e : e = P /\ e \in Seq(S) /\ Len(e) = 0 /\ DOMAIN e = {}
    <3>1. <<>> \in Seq(S) /\ Len(<<>>) = 0 /\ DOMAIN <<>> = {}
      OBVIOUS
    <3> QED
      BY <2>4, <3>1
  <2>6. Leads(e, {seed_name}, {seed_name}, {seed_name}, {seed_name})
    <3>1. PICK d, old : old = {seed_name} /\ d[1] = old
      <4>1. <<{seed_name}>>[1] = {seed_name}
        OBVIOUS
      <4> QED
        BY <4>1
    <3>2. 1 .. Len(e) = {} /\ Len(e) + 1 = 1
      BY <2>5
    <3>3. Runs(e, d, d)
      BY <3>2 DEF Runs
    <3>4. Leads(e, old, old, old, old)
      BY <3>1, <3>2, <3>3 DEF Leads
    <3> QED
      BY <3>1, <3>4
  <2>7. Range(exposed_names) \subseteq {seed_name}
    BY <1>4, <2>1
  <2> QED
    BY <1>1, <1>3, <2>5, <2>6, <2>7
<1>6. CASE \A i \in 1 .. n : x[i] # seed_name
  <2>1. {i \in DOMAIN x : x[i] # seed_name} = 1 .. n
    BY <1>2, <1>6
  <2>2. P = [i \in 1 .. n |-> Statement("create table as", x[i], {seed_name})]
    BY <1>1, <1>3, <2>1 DEF fork_copy_statements
  <2>3. \A i \in 1 .. n : CopiesSeed(P[i], x[i])
    BY <1>2, <2>2, StatementsAre
  <2>4. \A i \in 1 .. n : P[i] \in S
    BY <1>1, <2>3 DEF CopiesSeed
  <2>5. P \in Seq(S) /\ Len(P) = n /\ DOMAIN P = 1 .. n
    <3>1. PICK g : g = P /\ g = [i \in 1 .. n |-> g[i]] /\ n \in Nat
      BY <1>2, <2>2
    <3>2. \A i \in 1 .. n : g[i] \in S
      BY <2>4, <3>1
    <3>3. g \in Seq(S) /\ Len(g) = n /\ DOMAIN g = 1 .. n
      BY <3>1, <3>2
    <3> QED
      BY <3>1, <3>3
  <2>6. ASSUME NEW k \in 1 .. Len(P)
        PROVE  ~Renames(P[k]) /\ Takes(P[k], {seed_name} \cup MadeSoFar(P, k), {seed_name} \cup TablesSoFar(P, k))
    <3>1. CopiesSeed(P[k], x[k]) /\ k \in 1 .. n
      BY <2>3, <2>5, <2>6
    <3>2. \A j \in 1 .. k - 1 : j \in 1 .. n /\ j # k /\ P[j].target = x[j]
      <4>1. \A j \in 1 .. k - 1 : j \in 1 .. n /\ j # k
        BY <1>2, <3>1
      <4> QED
        BY <2>3, <4>1 DEF CopiesSeed
    <3>3. x[k] \notin MadeSoFar(P, k) /\ x[k] # seed_name
      BY <1>2, <1>6, <3>1, <3>2 DEF MadeSoFar
    <3> QED
      BY <3>1, <3>3 DEF CopiesSeed, Takes
  <2>7. PICK old, d, t : old = {seed_name} /\ d = old \cup MadeSoFar(P, Len(P) + 1) /\ t = old \cup TablesSoFar(P, Len(P) + 1)
    OBVIOUS
  <2>8. Leads(P, old, old, d, t)
    <3>1. P \in Seq(RunType)
      BY <1>1, <2>5
    <3> QED
      BY <2>6, <2>7, <3>1, RunsOn
  <2>9. Range(exposed_names) \subseteq d
    <3>1. \A i \in 1 .. n : x[i] \in MadeSoFar(P, n + 1)
      <4>1. (n + 1) - 1 = n
        BY <1>2
      <4> QED
        BY <1>2, <2>3, <4>1 DEF MadeSoFar, CopiesSeed
    <3> QED
      BY <1>4, <2>5, <2>7, <3>1
  <2>10. \A k \in DOMAIN P : ~WritesRows(P[k])
    BY <2>3, <2>5 DEF CopiesSeed
  <2> QED
    BY <1>1, <1>3, <2>5, <2>7, <2>8, <2>9, <2>10
<1> QED
  BY <1>5, <1>6

EmittedVerbs == {"create table", "create view", "insert", "delete"}
RowChanges == {"insert", "delete"}
\* What a statement of an equivalence tree is.
AsEmitted(s) ==
  /\ s.verb \in RunVerbs /\ ~Renames(s)
  /\ MakesName(s) <=> s.verb \in CreationVerbs
  /\ MakesTable(s) <=> s.verb = "create table"
  /\ NeedsTable(s) <=> s.verb \in RowChanges
  /\ WritesRows(s) <=> s.verb \in RowChanges
\* Which of the written statements make names, make tables and write rows.
LEMMA EmittedAre ==
  ASSUME NEW s, s.verb \in EmittedVerbs
  PROVE  AsEmitted(s)
BY DEF EmittedVerbs, AsEmitted, RunVerbs, RowChanges, CreationVerbs, Renames, MakesName, MakesTable, NeedsTable, WritesRows,
       TableVerbs, Creates, RowVerbs

\* The statements of the trees, after the base table has got its hidden name.
LEMMA TreesSetUp ==
  ASSUME NEW P, OrderedOut(P)
  PROVE  /\ P \in Seq(RunType) /\ ReadFirst(P)
         /\ \E d, t : (\A m \in Names : MadeIn(P, m) => m \in d) /\ Leads(P, {hidden_base_name}, {hidden_base_name}, d, t)
<1>1. PICK S, T : S = StatementType /\ T = RunType
  OBVIOUS
<1>2. P \in Seq(S) /\ InOrder(P) /\ ReadLast(P)
  BY <1>1 DEF OrderedOut
<1>3. DOMAIN P = 1 .. Len(P) /\ Len(P) \in Nat /\ \A k \in DOMAIN P : P[k] \in S
  BY <1>2
<1>4. \A s \in S : s \in T
  <2>1. PICK V : V = {"create table", "create view", "insert", "delete"}
    OBVIOUS
  <2>2. V \subseteq RunVerbs
    BY <2>1 DEF RunVerbs, Creates
  <2> QED
    BY <1>1, <2>1, <2>2 DEF StatementType, RunType
<1>5. P \in Seq(T)
  <2>1. P = [k \in 1 .. Len(P) |-> P[k]]
    BY <1>2
  <2>2. \A k \in 1 .. Len(P) : P[k] \in T
    BY <1>3, <1>4
  <2> QED
    BY <1>3, <2>1, <2>2
<1>6. ASSUME NEW k \in DOMAIN P
      PROVE  AsEmitted(P[k]) /\ P[k].target \in Names /\ P[k].reads \subseteq Names
  <2>1. P[k].verb \in EmittedVerbs /\ P[k].target \in Names /\ P[k].reads \subseteq Names
    BY <1>1, <1>3 DEF StatementType, EmittedVerbs
  <2> QED
    BY <2>1, EmittedAre
<1>8. ASSUME NEW k \in 1 .. Len(P) + 1, NEW m \in Names
      PROVE  /\ m \in MadeSoFar(P, k) <=> MadeBefore(P, k, m)
             /\ m \in TablesSoFar(P, k) <=> TableBefore(P, k, m)
  <2>1. \A j \in 1 .. k - 1 : j \in DOMAIN P
    BY <1>3
  <2>2. \A j \in 1 .. k - 1 : /\ MakesName(P[j]) <=> P[j].verb \in CreationVerbs
                              /\ MakesTable(P[j]) <=> P[j].verb = "create table"
    BY <1>6, <2>1 DEF AsEmitted
  <2> QED
    BY <2>2 DEF MadeSoFar, TablesSoFar, MadeBefore, TableBefore, CreationVerbs
<1>9. ASSUME NEW k \in 1 .. Len(P)
      PROVE  ~Renames(P[k]) /\ Takes(P[k], {hidden_base_name} \cup MadeSoFar(P, k), {hidden_base_name} \cup TablesSoFar(P, k))
  <2>1. k \in DOMAIN P /\ k \in 1 .. Len(P) + 1
    BY <1>3
  <2>2. /\ \A m \in P[k].reads : m = hidden_base_name \/ MadeBefore(P, k, m)
        /\ P[k].verb \in CreationVerbs => P[k].target # hidden_base_name /\ ~MadeBefore(P, k, P[k].target)
        /\ P[k].verb \in RowChanges => TableBefore(P, k, P[k].target)
    BY <1>2, <2>1 DEF InOrder, CreationVerbs, RowChanges
  <2>3. /\ P[k].target \in Names /\ P[k].reads \subseteq Names /\ ~Renames(P[k])
        /\ MakesName(P[k]) <=> P[k].verb \in CreationVerbs
        /\ NeedsTable(P[k]) <=> P[k].verb \in RowChanges
    BY <1>6, <2>1 DEF AsEmitted
  <2>4. P[k].reads \subseteq {hidden_base_name} \cup MadeSoFar(P, k)
    BY <1>8, <2>1, <2>2, <2>3
  <2>5. MakesName(P[k]) => P[k].target \notin {hidden_base_name} \cup MadeSoFar(P, k)
    BY <1>8, <2>1, <2>2, <2>3
  <2>6. NeedsTable(P[k]) => P[k].target \in {hidden_base_name} \cup TablesSoFar(P, k)
    BY <1>8, <2>1, <2>2, <2>3
  <2> QED
    BY <2>3, <2>4, <2>5, <2>6 DEF Takes
<1>10. PICK old, d, t : /\ old = {hidden_base_name}
                        /\ d = old \cup MadeSoFar(P, Len(P) + 1) /\ t = old \cup TablesSoFar(P, Len(P) + 1)
  OBVIOUS
<1>11. Leads(P, old, old, d, t)
  <2>1. P \in Seq(RunType)
    BY <1>1, <1>5
  <2> QED
    BY <1>9, <1>10, <2>1, RunsOn
<1>12. \A m \in Names : MadeIn(P, m) => m \in d
  <2>1. Len(P) + 1 \in 1 .. Len(P) + 1 /\ (Len(P) + 1) - 1 = Len(P)
    BY <1>3
  <2>2. \A m : MadeIn(P, m) => MadeBefore(P, Len(P) + 1, m)
    BY <1>3, <2>1 DEF MadeIn, MadeBefore, CreationVerbs
  <2> QED
    BY <1>8, <1>10, <2>1, <2>2
<1>13. ReadFirst(P)
  <2> SUFFICES ASSUME NEW j \in DOMAIN P, NEW k \in DOMAIN P, j < k, WritesRows(P[k]), P[k].target \in P[j].reads
               PROVE  P[j].verb # "create view" /\ P[k].target = P[j].target
    BY DEF ReadFirst
  <2>1. P[k].verb \in {"insert", "delete"}
    BY <1>6 DEF AsEmitted, RowChanges
  <2>2. P[k].target = P[j].target
    BY <1>2, <2>1 DEF ReadLast
  <2>3. PICK i \in 1 .. k - 1 : P[i].verb = "create table" /\ P[i].target = P[k].target
    BY <1>2, <2>1 DEF InOrder, TableBefore
  <2>4. ASSUME P[j].verb = "create view" PROVE FALSE
    <3>1. ~MadeBefore(P, j, P[j].target)
      BY <1>2, <2>4 DEF InOrder
    <3>2. ~(i < j)
      <4>1. i < j => i \in 1 .. j - 1
        <5>1. PICK l : l = Len(P) /\ l \in Nat /\ j \in 1 .. l /\ k \in 1 .. l /\ i \in 1 .. k - 1
          BY <1>3
        <5> QED
          BY <5>1
      <4> QED
        BY <2>2, <2>3, <3>1, <4>1 DEF MadeBefore
    <3>3. i # j
      BY <2>3, <2>4
    <3>4. j < i /\ i \in DOMAIN P /\ j \in 1 .. i - 1
      BY <1>3, <3>2, <3>3
    <3>5. ~MadeBefore(P, i, P[i].target)
      BY <1>2, <2>3, <3>4 DEF InOrder
    <3> QED
      BY <2>2, <2>3, <2>4, <3>4, <3>5 DEF MadeBefore
  <2> QED
    BY <2>2, <2>4
<1> QED
  BY <1>1, <1>5, <1>10, <1>11, <1>12, <1>13

\* What reads nothing goes before.
LEMMA ReadFirstBehind ==
  ASSUME NEW S, NEW P \in Seq(S), NEW Q \in Seq(S), \A k \in DOMAIN P : P[k].reads = {}, ReadFirst(Q)
  PROVE  ReadFirst(P \o Q)
<1>1. PICK a, b, R : a = Len(P) /\ b = Len(Q) /\ R = P \o Q
  OBVIOUS
<1>2. /\ a \in Nat /\ b \in Nat /\ DOMAIN R = 1 .. a + b /\ DOMAIN P = 1 .. a /\ DOMAIN Q = 1 .. b
      /\ \A k \in 1 .. a : R[k] = P[k]
      /\ \A k \in a + 1 .. a + b : R[k] = Q[k - a]
  BY <1>1
<1>3. ReadFirst(R)
  <2> SUFFICES ASSUME NEW j \in DOMAIN R, NEW k \in DOMAIN R, j < k, WritesRows(R[k]), R[k].target \in R[j].reads
               PROVE  R[j].verb # "create view" /\ R[k].target = R[j].target
    BY DEF ReadFirst
  <2>1. j \notin 1 .. a
    BY <1>2
  <2>2. j \in a + 1 .. a + b /\ k \in a + 1 .. a + b
    BY <1>2, <2>1
  <2>3. PICK i, n : i = j - a /\ n = k - a /\ i \in DOMAIN Q /\ n \in DOMAIN Q /\ i < n
    BY <1>2, <2>2
  <2>4. R[j] = Q[i] /\ R[k] = Q[n]
    BY <1>2, <2>2, <2>3
  <2>5. WritesRows(Q[n]) /\ Q[n].target \in Q[i].reads
    BY <2>4
  <2>6. Q[i].verb # "create view" /\ Q[n].target = Q[i].target
    BY <2>3, <2>5 DEF ReadFirst
  <2> QED
    BY <2>4, <2>6
<1> QED
  BY <1>1, <1>3

\* A program that runs from nothing is under way before its first statement.
LEMMA GoingStarts ==
  ASSUME NEW P \in Seq(RunType), NEW o, o = <<>>, ReadFirst(P), NEW x, NEW d, NEW t, x \subseteq d, Leads(P, {}, {}, d, t)
  PROVE  Going(P, o, x)
<1>1. DOMAIN o = {}
  OBVIOUS
<1>2. TableNames(o) = {} /\ ObjectShape(o) /\ Clear(P, o)
  BY <1>1 DEF TableNames, ObjectShape, Clear
<1>3. IsFiniteSet(DOMAIN o)
  BY <1>1, FS_EmptySet
<1> QED
  BY <1>1, <1>2, <1>3 DEF Going

\* The setup of the base side runs from nothing, to the exposed names.
LEMMA BaseStarts ==
  ASSUME ExposedOK(exposed_names), NEW o, o = <<>>
  PROVE  Going(build_base, o, Range(exposed_names))
<1>1. PICK S, A, B : S = RunType /\ A = base_setup_statements /\ B = fork_copy_statements
  OBVIOUS
<1>2. A \in Seq(S) /\ Leads(A, {}, {}, {seed_name}, {seed_name}) /\ \A k \in DOMAIN A : A[k].reads = {}
  BY <1>1, SeedSetUp
<1>3. B \in Seq(S) /\ (\A k \in DOMAIN B : ~WritesRows(B[k]))
  BY <1>1, ForksCopied
<1>4. PICK d, t : Range(exposed_names) \subseteq d /\ Leads(B, {seed_name}, {seed_name}, d, t)
  BY <1>1, ForksCopied
<1>5. PICK P : P = build_base /\ P = A \o B
  BY <1>1 DEF build_base
<1>6. ReadFirst(B)
  BY <1>3 DEF ReadFirst
<1>7. ReadFirst(P)
  BY <1>2, <1>3, <1>5, <1>6, ReadFirstBehind
<1>8. Leads(P, {}, {}, d, t)
  BY <1>2, <1>3, <1>4, <1>5, OneAfterTheOther
<1>9. P \in Seq(S)
  BY <1>2, <1>3, <1>5
<1>10. Going(P, o, Range(exposed_names))
  BY <1>1, <1>4, <1>7, <1>8, <1>9, GoingStarts
<1> QED
  BY <1>5, <1>10

\* The setup of the equivalent side runs from nothing, to the exposed names, once all forks are written.
LEMMA EquivalentStarts ==
  ASSUME EmissionOK, Out, walking = <<>>, ~Generating, NEW o, o = <<>>
  PROVE  Going(build_equivalent, o, Range(exposed_names))
<1>1. PICK S, A, B, C : S = RunType /\ A = base_setup_statements /\ B = <<rename_aside_sql>> /\ C = setup_statements
  OBVIOUS
<1>2. A \in Seq(S) /\ Leads(A, {}, {}, {seed_name}, {seed_name}) /\ \A k \in DOMAIN A : A[k].reads = {}
  BY <1>1, SeedSetUp
<1>3. /\ B \in Seq(S) /\ Leads(B, {seed_name}, {seed_name}, {hidden_base_name}, {hidden_base_name})
      /\ \A k \in DOMAIN B : B[k].reads = {}
  BY <1>1, SeedMovedAside
<1>4. OrderedOut(C)
  BY <1>1 DEF Out, OutAt
<1>5. C \in Seq(S) /\ ReadFirst(C)
  BY <1>1, <1>4, TreesSetUp
<1>6. PICK d, t : /\ \A m \in Names : MadeIn(C, m) => m \in d
                  /\ Leads(C, {hidden_base_name}, {hidden_base_name}, d, t)
  BY <1>4, TreesSetUp
<1>7. PICK P, Q : Q = A \o B /\ P = build_equivalent /\ P = Q \o C
  BY <1>1 DEF build_equivalent
<1>8. Q \in Seq(S) /\ P \in Seq(S) /\ A \o B \in Seq(S)
  BY <1>2, <1>3, <1>5, <1>7
<1>9. \A k \in DOMAIN Q : Q[k].reads = {}
  <2>1. PICK a, b : a = Len(A) /\ b = Len(B) /\ a \in Nat /\ b \in Nat
    <3>1. Len(A) \in Nat /\ Len(B) \in Nat
      BY <1>2, <1>3
    <3> QED
      BY <3>1
  <2>2. /\ DOMAIN Q = 1 .. a + b /\ DOMAIN A = 1 .. a /\ DOMAIN B = 1 .. b
        /\ \A k \in 1 .. a : Q[k] = A[k]
        /\ \A k \in a + 1 .. a + b : Q[k] = B[k - a]
    BY <1>2, <1>3, <1>7, <2>1
  <2>3. \A k \in 1 .. a + b : k \in 1 .. a \/ (k \in a + 1 .. a + b /\ k - a \in 1 .. b)
    BY <2>1
  <2> QED
    BY <1>2, <1>3, <2>2, <2>3
<1>10. ReadFirst(P)
  BY <1>5, <1>7, <1>8, <1>9, ReadFirstBehind
<1>11. Leads(Q, {}, {}, {hidden_base_name}, {hidden_base_name})
  BY <1>2, <1>3, <1>7, OneAfterTheOther
<1>12. Leads(P, {}, {}, d, t)
  BY <1>5, <1>6, <1>7, <1>8, <1>11, OneAfterTheOther
<1>13. Range(exposed_names) \subseteq d
  <2>1. PICK n, x : n = Len(exposed_names) /\ x = exposed_names
    OBVIOUS
  <2>2. /\ n \in Nat /\ DOMAIN x = 1 .. n /\ \A i \in 1 .. n : x[i] \in Names
    <3>1. PICK T : T = {"t"} \X Nat
      OBVIOUS
    <3>2. x \in Seq(T)
      BY <2>1, <3>1 DEF EmissionOK, GenOK, ExposedOK
    <3>3. T \subseteq Names
      BY <3>1 DEF Names
    <3>4. n \in Nat /\ DOMAIN x = 1 .. n /\ \A i \in 1 .. n : x[i] \in T
      BY <2>1, <3>2
    <3> QED
      BY <3>3, <3>4
  <2>3. Len(forks) = n
    <3>1. Len(forks) \in Nat /\ Len(forks) <= n
      BY <2>1 DEF EmissionOK, GenOK
    <3>2. ~(Len(forks) < n)
      BY <2>1 DEF Generating
    <3> QED
      BY <2>2, <3>1, <3>2
  <2>4. ASSUME NEW i \in 1 .. n PROVE MadeIn(C, x[i])
    <3>1. forks[i] \in written /\ CreatesItself(nodes[forks[i]], x[i])
      BY <2>1, <2>3 DEF EmissionOK, RootsAt
    <3>2. PICK y : y = forks[i] /\ y \in written /\ y \in DOMAIN nodes
      BY <3>1 DEF EmissionOK, WalksAt, WrittenAt
    <3>3. PICK j \in DOMAIN nodes[y].steps :
            nodes[y].steps[j].verb \in CreationVerbs /\ nodes[y].steps[j].target = x[i]
      BY <3>1, <3>2 DEF CreatesItself, CreationVerbs
    <3>4. EmittedAt(nodes, walking, written, y, j)
      BY <3>2 DEF EmittedAt
    <3>5. CreatedAt(nodes, walking, written, C)
      BY <1>1 DEF Out, OutAt
    <3> QED
      BY <3>2, <3>3, <3>4, <3>5 DEF CreatedAt
  <2>5. Range(exposed_names) = {x[i] : i \in 1 .. n}
    BY <2>1, <2>2 DEF Range
  <2> QED
    BY <1>6, <2>2, <2>4, <2>5
<1>14. Going(P, o, Range(exposed_names))
  BY <1>1, <1>8, <1>10, <1>12, <1>13, GoingStarts
<1> QED
  BY <1>7, <1>14

-----------------------------------------------------------------------------
(* The invariant of a setup *)

\* In a setup under way the rest of the program runs from the objects to the exposed names.
SetupOK ==
  /\ phase \in {"generate", "set up", "query", "failed"}
  /\ side \in {"base", "equivalent"}
  /\ phase = "generate" => objects = <<>>
  /\ phase \in {"set up", "query"} => Going(program, objects, Range(exposed_names))
  /\ phase = "query" => program = <<>>

\* Every step keeps the invariant of the setup.
LEMMA SetupKept ==
  ASSUME EmissionOK, Out, SetupOK, [Next]_vars
  PROVE  SetupOK'
<1>1. CASE GenerateForks
  <2>1. phase = "generate" /\ UNCHANGED <<phase, side, objects>>
    BY <1>1 DEF GenerateForks, setupVars
  <2> QED
    BY <2>1 DEF SetupOK
<1>2. CASE Build
  <2>1. /\ phase = "generate" /\ phase' = "set up" /\ walking = <<>> /\ ~Generating
        /\ program' = IF side = "base" THEN build_base ELSE build_equivalent
        /\ objects' = objects /\ side' = side /\ exposed_names' = exposed_names
    BY <1>2 DEF Build, emissionVars, treeVars
  <2>2. PICK o : o = objects /\ o = <<>>
    BY <2>1 DEF SetupOK
  <2>3. Going(build_base, o, Range(exposed_names)) /\ Going(build_equivalent, o, Range(exposed_names))
    BY <2>1, <2>2, BaseStarts, EquivalentStarts DEF EmissionOK, GenOK
  <2>4. Going(program', o, Range(exposed_names))
    BY <2>1, <2>3
  <2> QED
    BY <2>1, <2>2, <2>4 DEF SetupOK
<1>3. CASE run
  <2>1. /\ phase = "set up" /\ program # <<>> /\ execute(Head(program)) /\ program' = Tail(program)
        /\ phase' = phase /\ side' = side /\ exposed_names' = exposed_names
    BY <1>3 DEF run, emissionVars, treeVars
  <2>2. PICK now : now = Refreshed(refreshes(Head(program))) /\ objects' = ObjectsAfter(Head(program), now)
    BY <2>1 DEF execute
  <2>3. PICK x : x = Range(exposed_names) /\ Going(program, objects, x)
    BY <2>1 DEF SetupOK
  <2>4. Going(program, now, x)
    BY <2>2, <2>3, RefreshedShape, GoingStays DEF Going
  <2>5. Going(program', objects', x)
    BY <2>1, <2>2, <2>4, ProgramGoesOn
  <2> QED
    BY <2>1, <2>3, <2>5 DEF SetupOK
<1>4. CASE StatementFails
  <2>1. phase' = "failed" /\ side' = side
    BY <1>4 DEF StatementFails
  <2> QED
    BY <2>1 DEF SetupOK
<1>5. CASE SetupDone
  <2>1. /\ phase = "set up" /\ program = <<>> /\ phase' = "query" /\ program' = program
        /\ side' = side /\ objects' = objects /\ exposed_names' = exposed_names
    BY <1>5 DEF SetupDone, emissionVars, treeVars
  <2> QED
    BY <2>1 DEF SetupOK
<1>6. CASE query \/ EngineRefreshes
  <2>1. /\ phase \in {"set up", "query"} /\ phase' = phase /\ side' = side /\ program' = program
        /\ exposed_names' = exposed_names
    BY <1>6 DEF query, EngineRefreshes, emissionVars, treeVars
  <2>2. \E S : objects' = Refreshed(S)
    <3>1. CASE query
      <4>1. PICK from : execute(Statement("select", seed_name, from))
        BY <3>1 DEF query
      <4>2. PICK s : s = Statement("select", seed_name, from) /\ s.verb = "select" /\ execute(s)
        <5>1. Statement("select", seed_name, from).verb = "select"
          BY DEF Statement
        <5> QED
          BY <4>1, <5>1
      <4>3. objects' = ObjectsAfter(s, Refreshed(refreshes(s)))
        BY <4>2 DEF execute
      <4>4. objects' = Refreshed(refreshes(s))
        BY <4>2, <4>3 DEF ObjectsAfter
      <4> QED
        BY <4>4
    <3>2. CASE EngineRefreshes
      BY <3>2 DEF EngineRefreshes
    <3> QED
      BY <1>6, <3>1, <3>2
  <2>3. PICK S : objects' = Refreshed(S)
    BY <2>2
  <2>4. PICK x : x = Range(exposed_names) /\ Going(program, objects, x)
    BY <2>1 DEF SetupOK
  <2>5. Going(program, objects', x)
    BY <2>3, <2>4, RefreshedShape, GoingStays DEF Going
  <2> QED
    BY <2>1, <2>4, <2>5 DEF SetupOK
<1>7. CASE UNCHANGED vars
  BY <1>7 DEF SetupOK, vars, setupVars, emissionVars, treeVars
<1> QED
  BY <1>1, <1>2, <1>3, <1>4, <1>5, <1>6, <1>7 DEF Next

\* The whole invariant of the setup.
SetupInv == EmissionOK /\ Out /\ SetupOK

\* From the first fork to the last query: the trees, the walk and the counters; the written
\* statements; and the program under way.
THEOREM SetupGoes == Spec => []SetupInv
<1>1. Init => SetupInv
  <2> SUFFICES ASSUME Init PROVE SetupInv
    OBVIOUS
  <2>1. SetupOK
    BY DEF Init, SetupOK
  <2> QED
    BY <2>1, EmissionStarts, OutStarts DEF Init, SetupInv
<1>2. SetupInv /\ [Next]_vars => SetupInv'
  <2> SUFFICES ASSUME SetupInv, [Next]_vars PROVE SetupInv'
    OBVIOUS
  <2>1. EmissionOK' /\ Out' /\ SetupOK'
    BY SetupStepKeepsEmission, SetupStepKeepsOut, SetupKept DEF SetupInv
  <2> QED
    BY <2>1 DEF SetupInv
<1> QED
  BY <1>1, <1>2, PTL DEF Spec

\* Every statement of a setup, on either side, finds what it needs, and in the end the exposed names are there.
THEOREM StatementsComeInOrder == Spec => []NextStatementRuns
<1>1. SetupInv => NextStatementRuns
  <2> SUFFICES ASSUME SetupInv PROVE NextStatementRuns
    OBVIOUS
  <2>1. ASSUME phase = "set up", program # <<>> PROVE Accepts(Head(program))
    BY <2>1, NextAccepted DEF SetupInv, SetupOK
  <2>2. ASSUME phase = "query" PROVE Range(exposed_names) \subseteq DOMAIN objects
    <3>1. PICK P : P = program /\ P = <<>>
      BY <2>2 DEF SetupInv, SetupOK
    <3>2. Going(P, objects, Range(exposed_names))
      BY <2>2, <3>1 DEF SetupInv, SetupOK
    <3> QED
      BY <3>1, <3>2, RunsOut
  <2> QED
    BY <2>1, <2>2 DEF NextStatementRuns
<1> QED
  BY <1>1, SetupGoes, PTL

-----------------------------------------------------------------------------
(* What a statement reads, through the views *)

\* f gives what is read in so many steps from the names a on, with the objects o.
IsBelow(f, a, o, n) ==
  f = [depth \in 0 .. n |-> IF depth = 0 THEN a ELSE UNION {{name} \cup o[name].reads : name \in f[depth - 1]}]

\* The names that are read in so many steps are defined, by a function.
LEMMA BelowExists ==
  ASSUME NEW a, NEW o, NEW n \in Nat
  PROVE  \E f : IsBelow(f, a, o, n)
<1> DEFINE S == {m \in Nat : ~\E f : IsBelow(f, a, o, m)}
<1>1. SUFFICES ASSUME S # {} PROVE FALSE
  OBVIOUS
<1>2. PICK m \in S : \A k \in S : m <= k
  BY <1>1, LeastNumber
<1>3. m # 0
  <2>1. IsBelow([depth \in 0 .. 0 |-> a], a, o, 0)
    BY DEF IsBelow
  <2> QED
    BY <1>2, <2>1
<1>4. PICK l \in Nat : m = l + 1 /\ l \notin S
  <2>1. m - 1 \in Nat /\ m = (m - 1) + 1 /\ ~(m <= m - 1)
    BY <1>2, <1>3
  <2> QED
    BY <1>2, <2>1
<1>5. PICK f : IsBelow(f, a, o, l)
  BY <1>4
<1>6. PICK last : last = UNION {{name} \cup o[name].reads : name \in f[l]}
  OBVIOUS
<1>7. PICK g : g = [depth \in 0 .. m |-> IF depth = m THEN last ELSE f[depth]]
  OBVIOUS
<1>8. IsBelow(g, a, o, m)
  <2>1. \A depth \in 0 .. l : f[depth] = IF depth = 0 THEN a ELSE UNION {{name} \cup o[name].reads : name \in f[depth - 1]}
    BY <1>5 DEF IsBelow
  <2>2. \A depth \in 0 .. l : g[depth] = f[depth] /\ depth # m
    BY <1>4, <1>7
  <2>3. ASSUME NEW depth \in 0 .. m
        PROVE  g[depth] = IF depth = 0 THEN a ELSE UNION {{name} \cup o[name].reads : name \in g[depth - 1]}
    <3>1. CASE depth = m
      <4>1. depth # 0 /\ depth - 1 = l /\ g[depth] = last /\ g[l] = f[l]
        BY <1>4, <1>7, <2>2, <3>1
      <4> QED
        BY <1>6, <4>1
    <3>2. CASE depth # m /\ depth # 0
      <4>1. depth \in 0 .. l /\ depth - 1 \in 0 .. l
        BY <1>4, <3>2
      <4> QED
        BY <2>1, <2>2, <3>2, <4>1
    <3>3. CASE depth = 0
      <4>1. 0 \in 0 .. l
        BY <1>4
      <4> QED
        BY <2>1, <2>2, <3>3, <4>1
    <3> QED
      BY <3>1, <3>2, <3>3
  <2>4. g = [depth \in 0 .. m |-> g[depth]]
    BY <1>7
  <2> QED
    BY <2>3, <2>4 DEF IsBelow
<1> QED
  BY <1>2, <1>8

\* What is read from the names in a closed set on is in that set.
LEMMA BelowStays ==
  ASSUME NEW a, NEW o, NEW n \in Nat, NEW f, IsBelow(f, a, o, n), NEW C, a \subseteq C, \A name \in C : o[name].reads \subseteq C
  PROVE  f[n] \subseteq C
<1>1. \A depth \in 0 .. n : f[depth] = IF depth = 0 THEN a ELSE UNION {{name} \cup o[name].reads : name \in f[depth - 1]}
  BY DEF IsBelow
<1> DEFINE S == {depth \in 0 .. n : ~(f[depth] \subseteq C)}
<1>2. SUFFICES ASSUME S # {} PROVE FALSE
  <2>1. n \in 0 .. n
    OBVIOUS
  <2> QED
    BY <2>1
<1>3. PICK m \in S : \A k \in S : m <= k
  <2>1. S \in SUBSET Nat
    OBVIOUS
  <2> QED
    BY <1>2, <2>1, LeastNumber
<1>4. m # 0
  BY <1>1, <1>3
<1>5. m - 1 \in 0 .. n /\ ~(m <= m - 1)
  BY <1>3, <1>4
<1>6. f[m - 1] \subseteq C
  BY <1>3, <1>5
<1>7. f[m] = UNION {{name} \cup o[name].reads : name \in f[m - 1]}
  BY <1>1, <1>3, <1>4
<1>8. f[m] \subseteq C
  BY <1>6, <1>7
<1> QED
  BY <1>3, <1>8

\* What a statement reads through views stays within a set that is closed under reading.
LEMMA TablesBelow ==
  ASSUME IsFiniteSet(DOMAIN objects), NEW from, NEW C, from \subseteq C, C \subseteq DOMAIN objects,
         \A name \in C : objects[name].reads \subseteq C
  PROVE  tables_below(from) \subseteq C
<1>1. PICK n : n = Cardinality(DOMAIN objects) /\ n \in Nat
  BY FS_CardinalityType
<1> DEFINE g == CHOOSE f : IsBelow(f, from, objects, n)
<1>2. tables_below(from) = g[n] \cap Tables
  BY <1>1 DEF tables_below, IsBelow
<1>3. IsBelow(g, from, objects, n)
  BY <1>1, BelowExists
<1> HIDE DEF g
<1>4. g[n] \subseteq C
  BY <1>1, <1>3, BelowStays
<1> QED
  BY <1>2, <1>4

\* What the first statement of a program reads, no later one writes to.
LEMMA NotWrittenLater ==
  ASSUME NEW P, NEW x, Going(P, objects, x), NEW i \in 2 .. Len(P), WritesRows(P[i]),
         P[i].target # P[1].target, P[1].reads \subseteq DOMAIN objects
  PROVE  P[i].target \notin tables_below(P[1].reads)
<1>1. IsFiniteSet(DOMAIN objects) /\ ObjectShape(objects) /\ Clear(P, objects) /\ ReadFirst(P)
  BY DEF Going
<1>2. 1 \in DOMAIN P /\ i \in DOMAIN P /\ 1 < i
  <2>1. PICK S : S = RunType
    OBVIOUS
  <2>2. P \in Seq(S)
    BY <2>1 DEF Going
  <2>3. Len(P) \in Nat /\ DOMAIN P = 1 .. Len(P)
    BY <2>2
  <2> QED
    BY <2>3
<1>3. PICK t, reads : t = P[i].target /\ reads = P[1].reads
  OBVIOUS
<1>4. t \notin reads
  BY <1>1, <1>2, <1>3 DEF ReadFirst
<1>5. PICK C : C = DOMAIN objects \ {t}
  OBVIOUS
<1>6. \A name \in DOMAIN objects : objects[name].reads \subseteq DOMAIN objects /\ t \notin objects[name].reads
  BY <1>1, <1>2, <1>3 DEF ObjectShape, Clear
<1>7. reads \subseteq C /\ C \subseteq DOMAIN objects /\ \A name \in C : objects[name].reads \subseteq C
  BY <1>3, <1>4, <1>5, <1>6
<1>8. tables_below(reads) \subseteq C
  BY <1>1, <1>7, TablesBelow
<1> QED
  BY <1>3, <1>5, <1>8

\* The first statement of a program under way.
LEMMA HeadIs ==
  ASSUME NEW P, NEW o, NEW x, Going(P, o, x), P # <<>>
  PROVE  Head(P) = P[1]
<1>1. PICK S : S = RunType
  OBVIOUS
<1>2. P \in Seq(S)
  BY <1>1 DEF Going
<1> QED
  BY <1>2

\* No later statement writes to a table that the next one copies rows from into another.
THEOREM TablesAreFinished == Spec => []FinishedBeforeCopied
<1>1. SetupInv => FinishedBeforeCopied
  <2> SUFFICES ASSUME SetupInv, phase = "set up", program # <<>>, NextStatementRuns,
                      NEW i \in 2 .. Len(program), program[i].verb \in {"insert", "insert values", "delete"},
                      program[i].target # Head(program).target
               PROVE  program[i].target \notin tables_read(Head(program))
    BY DEF FinishedBeforeCopied
  <2>1. PICK P, x : P = program /\ x = Range(exposed_names) /\ Going(P, objects, x)
    BY DEF SetupInv, SetupOK
  <2>2. Head(P) = P[1]
    BY <2>1, HeadIs
  <2>3. WritesRows(P[i]) /\ P[i].target # P[1].target
    BY <2>1, <2>2 DEF WritesRows, RowVerbs
  <2>4. P[1].reads \subseteq DOMAIN objects
    BY <2>1, <2>2 DEF NextStatementRuns, Accepts
  <2>5. i \in 2 .. Len(P)
    BY <2>1
  <2>6. P[i].target \notin tables_below(P[1].reads)
    BY <2>1, <2>3, <2>4, <2>5, NotWrittenLater
  <2> QED
    BY <2>1, <2>2, <2>3, <2>6 DEF tables_read
<1> QED
  BY <1>1, SetupGoes, PTL

-----------------------------------------------------------------------------
(* The fence *)

\* An object is a table or a view; and the fence f agrees with the objects o.
Proper(object) ==
  /\ object.kind \in {"table", "view"} /\ object.pending \in BOOLEAN
  /\ object.kind = "view" => ~object.pending
InStep(o, f) ==
  /\ \A name \in DOMAIN o : Proper(o[name])
  /\ f = FenceState(f.tables, f.views, f.dirty)
  /\ f.tables = {name \in DOMAIN o : o[name].kind = "table"}
  /\ f.views = {name \in DOMAIN o : o[name].kind = "view"}
  /\ f.dirty \subseteq f.tables
  /\ \A name \in DOMAIN o : o[name].pending => name \in f.dirty

\* The invariant of the fence says that fence and objects are in step.
LEMMA FencedMeansAgree == ObjectsOK /\ FenceOK <=> InStep(objects, fence)
<1> USE DEF ObjectsOK, InStep, Proper, FenceState
<1>1. ASSUME ObjectsOK
      PROVE  /\ Tables = {name \in DOMAIN objects : objects[name].kind = "table"}
             /\ DOMAIN objects \ Tables =
                  {name \in DOMAIN objects : objects[name].kind = "view"}
             /\ Tables \subseteq DOMAIN objects
             /\ Pending \subseteq fence.dirty <=>
                  \A name \in DOMAIN objects :
                    objects[name].pending => name \in fence.dirty
  BY <1>1 DEF Tables, Pending
<1>2. ASSUME ObjectsOK, FenceOK PROVE InStep(objects, fence)
  <2>1. /\ fence.tables = Tables /\ fence.views = DOMAIN objects \ Tables
        /\ Pending \subseteq fence.dirty /\ fence.dirty \subseteq Tables
        /\ fence = FenceState(fence.tables, fence.views, fence.dirty)
    BY <1>2 DEF FenceOK, FenceKnowsObjects
  <2> QED
    BY <1>1, <1>2, <2>1
<1>3. ASSUME InStep(objects, fence) PROVE ObjectsOK /\ FenceOK
  <2>1. ObjectsOK
    BY <1>3
  <2>2. /\ fence.tables = Tables /\ fence.views = DOMAIN objects \ Tables
        /\ Pending \subseteq fence.dirty /\ fence.dirty \subseteq Tables
        /\ fence = FenceState(fence.tables, fence.views, fence.dirty)
        /\ Tables \subseteq DOMAIN objects
    BY <1>1, <1>3, <2>1
  <2>3. FenceOK
    BY <2>2 DEF FenceOK, FenceKnowsObjects
  <2> QED
    BY <2>1, <2>3
<1> QED
  BY <1>2, <1>3

-----------------------------------------------------------------------------
(* The fence: before the statement *)

\* A refresh of any tables leaves the objects as they are but for the writes
\* that it makes visible.
LEMMA RefreshShows ==
  ASSUME InStep(objects, fence), NEW S
  PROVE  /\ DOMAIN Refreshed(S) = DOMAIN objects
         /\ \A name \in DOMAIN objects :
              /\ Proper(Refreshed(S)[name])
              /\ Refreshed(S)[name].kind = objects[name].kind
              /\ Refreshed(S)[name].pending => objects[name].pending
              /\ Refreshed(S)[name].pending => name \notin S
BY DEF InStep, Proper, Refreshed, Tables, TableObject

\* What the fence does first: the two still agree, and before a statement that
\* may read nothing is left to be refreshed.
LEMMA FenceRuns ==
  ASSUME InStep(objects, fence), NEW statement
  PROVE  LET refreshed == refreshes(statement)
             now == Refreshed(refreshed)
         IN  /\ InStep(now, flushed(fence, refreshed))
             /\ DOMAIN now = DOMAIN objects
             /\ may_read(classify(statement)) =>
                  \A name \in DOMAIN now : ~now[name].pending
<1> DEFINE refreshed == refreshes(statement)
           now == Refreshed(refreshed)
           f == flushed(fence, refreshed)
<1>1. /\ DOMAIN now = DOMAIN objects
      /\ \A name \in DOMAIN objects :
           /\ Proper(now[name]) /\ now[name].kind = objects[name].kind
           /\ now[name].pending => objects[name].pending
           /\ now[name].pending => name \notin refreshed
  BY RefreshShows
<1>2. /\ fence = FenceState(fence.tables, fence.views, fence.dirty)
      /\ fence.tables = {name \in DOMAIN objects : objects[name].kind = "table"}
      /\ fence.views = {name \in DOMAIN objects : objects[name].kind = "view"}
      /\ fence.dirty \subseteq fence.tables
      /\ \A name \in DOMAIN objects : objects[name].pending => name \in fence.dirty
  BY DEF InStep
<1> HIDE DEF now
<1>3. CASE may_read(classify(statement))
  <2>1. refreshed = fence.tables
    BY <1>2, <1>3 DEF refreshes, paranoid_before, before
  <2>2. /\ f = FenceState(fence.tables, fence.views, f.dirty)
        /\ f.tables = fence.tables /\ f.views = fence.views /\ f.dirty = {}
    <3>1. CASE fence.tables = {}
      <4>1. f = fence /\ fence.dirty = {}
        BY <1>2, <2>1, <3>1 DEF flushed
      <4> QED
        BY <4>1, <1>2
    <3>2. CASE fence.tables # {}
      <4>1. f = FenceState(fence.tables, fence.views, {})
        BY <2>1, <3>2 DEF flushed
      <4> QED
        BY <4>1 DEF FenceState
    <3> QED
      BY <3>1, <3>2
  <2> HIDE DEF f, refreshed
  <2>3. \A name \in DOMAIN now : ~now[name].pending
    BY <1>1, <1>2, <2>1
  <2>4. InStep(now, f)
    BY <1>1, <1>2, <2>2, <2>3 DEF InStep
  <2> QED
    BY <1>1, <2>3, <2>4 DEF now, f, refreshed
<1>4. CASE ~may_read(classify(statement))
  <2>1. refreshed = {}
    BY <1>4 DEF refreshes, before
  <2>2. f = fence
    BY <2>1 DEF flushed
  <2> HIDE DEF f, refreshed
  <2>3. InStep(now, f)
    BY <1>1, <1>2, <2>2, ZenonT(60) DEF InStep
  <2> QED
    BY <1>1, <1>4, <2>3 DEF now, f, refreshed
<1> QED
  BY <1>3, <1>4

-----------------------------------------------------------------------------
(* The fence: the statement *)

\* How the fence classifies each statement of a setup or of the workload.
LEMMA Classified ==
  ASSUME NEW statement, statement.verb \in RunVerbs
  PROVE  /\ statement.verb \in {"create table as", "insert", "delete"} =>
              classify(statement) = "write"
         /\ statement.verb = "select" => classify(statement) = "read"
         /\ statement.verb \in {"create table", "create view", "insert values",
                                "rename"} => classify(statement) = statement.verb
         /\ may_read(classify(statement)) <=> statement.verb # "insert values"
BY DEF RunVerbs, Creates, classify, Verbs, may_read

\* An object is made, or a table written to, and the fence told.
LEMMA PutAgrees ==
  ASSUME NEW o, NEW f, InStep(o, f), NEW target, NEW object, Proper(object),
         target \in DOMAIN o => o[target].kind = object.kind /\ object.pending,
         NEW g, g = FenceState(g.tables, g.views, g.dirty),
         g.tables = f.tables \cup (IF object.kind = "table" THEN {target} ELSE {}),
         g.views = f.views \cup (IF object.kind = "view" THEN {target} ELSE {}),
         g.dirty = f.dirty \cup (IF object.pending THEN {target} ELSE {})
  PROVE  InStep(Put(o, target, object), g)
<1> DEFINE new == Put(o, target, object)
<1>1. /\ DOMAIN new = DOMAIN o \cup {target} /\ new[target] = object
      /\ \A name \in DOMAIN o : name # target => new[name] = o[name]
  BY DEF Put
<1> HIDE DEF new
<1>2. \A name \in DOMAIN new : Proper(new[name])
  BY <1>1 DEF InStep
<1>3. /\ object.kind \in {"table", "view"} /\ object.pending \in BOOLEAN
      /\ object.kind = "view" => ~object.pending
  BY DEF Proper
<1>4. /\ g.tables = {name \in DOMAIN new : new[name].kind = "table"}
      /\ g.views = {name \in DOMAIN new : new[name].kind = "view"}
  BY <1>1, <1>3 DEF InStep
<1>5. /\ g.dirty \subseteq g.tables
      /\ \A name \in DOMAIN new : new[name].pending => name \in g.dirty
  BY <1>1, <1>3 DEF InStep
<1>6. InStep(new, g)
  BY <1>2, <1>4, <1>5 DEF InStep
<1> QED
  BY <1>6 DEF new

\* A table gets another name, with every write to it refreshed before.
LEMMA RenameAgrees ==
  ASSUME NEW o, NEW f, InStep(o, f), NEW target \in f.tables, NEW to,
         to \notin DOMAIN o, \A name \in DOMAIN o : ~o[name].pending
  PROVE  InStep([name \in (DOMAIN o \ {target}) \cup {to} |->
                  IF name = to THEN o[target] ELSE o[name]],
               renamed(f, target, to))
<1> DEFINE new == [name \in (DOMAIN o \ {target}) \cup {to} |->
                     IF name = to THEN o[target] ELSE o[name]]
           g == renamed(f, target, to)
<1>1. /\ target \in DOMAIN o /\ o[target].kind = "table" /\ target # to
      /\ \A name \in DOMAIN o : Proper(o[name])
      /\ f.dirty \subseteq f.tables
      /\ f.tables = {name \in DOMAIN o : o[name].kind = "table"}
      /\ f.views = {name \in DOMAIN o : o[name].kind = "view"}
  BY DEF InStep
<1>2. /\ DOMAIN new = (DOMAIN o \ {target}) \cup {to} /\ new[to] = o[target]
      /\ \A name \in DOMAIN o \ {target} : new[name] = o[name] /\ name # to
  OBVIOUS
<1>3. /\ g = FenceState(g.tables, g.views, g.dirty)
      /\ g.tables = (f.tables \ {target}) \cup {to} /\ g.views = f.views
      /\ g.dirty = f.dirty \ {target}
  BY DEF renamed, FenceState
<1> HIDE DEF new, g
<1>4. \A name \in DOMAIN new : Proper(new[name])
  BY <1>1, <1>2
<1>5. /\ g.tables = {name \in DOMAIN new : new[name].kind = "table"}
      /\ g.views = {name \in DOMAIN new : new[name].kind = "view"}
  BY <1>1, <1>2, <1>3
<1>6. /\ g.dirty \subseteq g.tables
      /\ \A name \in DOMAIN new : new[name].pending => name \in g.dirty
  BY <1>1, <1>2, <1>3
<1>7. InStep(new, g)
  BY <1>3, <1>4, <1>5, <1>6 DEF InStep
<1> QED
  BY <1>7 DEF new, g

\* Whatever statement the engine takes, the fence follows.
LEMMA StatementAgrees ==
  ASSUME NEW statement, Accepts(statement), NEW o, NEW f, InStep(o, f),
         DOMAIN o = DOMAIN objects,
         \A name \in DOMAIN o : o[name].kind = objects[name].kind,
         may_read(classify(statement)) => \A name \in DOMAIN o : ~o[name].pending
  PROVE  InStep(ObjectsAfter(statement, o), after(f, statement))
<1> DEFINE target == statement.target
           effect == classify(statement)
<1>1. /\ statement.verb \in RunVerbs
      /\ statement.verb \in Creates => target \notin DOMAIN o
      /\ statement.verb \notin Creates \cup {"select"} =>
           target \in DOMAIN o /\ o[target].kind = "table"
      /\ statement.verb = "rename" => statement.to \notin DOMAIN o
  BY DEF Accepts, Tables
<1>2. /\ Proper(TableObject(TRUE)) /\ Proper(TableObject(FALSE))
      /\ Proper(ViewObject(statement.reads))
      /\ TableObject(TRUE).kind = "table" /\ TableObject(TRUE).pending = TRUE
      /\ TableObject(FALSE).kind = "table" /\ TableObject(FALSE).pending = FALSE
      /\ ViewObject(statement.reads).kind = "view"
      /\ ViewObject(statement.reads).pending = FALSE
  BY DEF Proper, TableObject, ViewObject
<1>3. /\ f.tables = {name \in DOMAIN o : o[name].kind = "table"}
      /\ f.views = {name \in DOMAIN o : o[name].kind = "view"}
  BY DEF InStep
<1>4. CASE statement.verb \in {"create table as", "insert values", "insert", "delete"}
  <2> DEFINE g == after(f, statement)
  <2>1. effect \in {"insert values", "write"}
    BY <1>1, <1>4, Classified
  <2>2. target \notin f.views
    BY <1>1, <1>3, <1>4 DEF Creates
  <2>3. g = marked(f, target)
    BY <2>1 DEF after
  <2>4. {target} \ f.views = {target}
    BY <2>2
  <2>5. g = FenceState(f.tables \cup {target}, f.views, f.dirty \cup {target})
    BY <2>3, <2>4 DEF marked
  <2> HIDE DEF g
  <2>6. /\ g = FenceState(g.tables, g.views, g.dirty)
        /\ g.tables = f.tables \cup {target} /\ g.views = f.views
        /\ g.dirty = f.dirty \cup {target}
    BY <2>5 DEF FenceState
  <2>7. ObjectsAfter(statement, o) = Put(o, target, TableObject(TRUE))
    BY <1>4 DEF ObjectsAfter
  <2>8. InStep(Put(o, target, TableObject(TRUE)), g)
    <3>1. target \in DOMAIN o =>
            o[target].kind = TableObject(TRUE).kind /\ TableObject(TRUE).pending
      BY <1>1, <1>2, <1>4 DEF Creates
    <3>2. /\ g.tables = f.tables \cup
               (IF TableObject(TRUE).kind = "table" THEN {target} ELSE {})
          /\ g.views = f.views \cup
               (IF TableObject(TRUE).kind = "view" THEN {target} ELSE {})
          /\ g.dirty = f.dirty \cup (IF TableObject(TRUE).pending THEN {target} ELSE {})
      BY <1>2, <2>6
    <3> HIDE DEF target
    <3> QED
      BY <1>2, <2>6, <3>1, <3>2, PutAgrees, ZenonT(60)
  <2> QED
    BY <2>7, <2>8 DEF g
<1>5. CASE statement.verb = "create table"
  <2> DEFINE g == after(f, statement)
  <2>1. effect = "create table"
    BY <1>1, <1>5, Classified
  <2>2. g = FenceState(f.tables \cup {target}, f.views, f.dirty)
    BY <2>1 DEF after
  <2> HIDE DEF g
  <2>3. /\ g = FenceState(g.tables, g.views, g.dirty)
        /\ g.tables = f.tables \cup {target} /\ g.views = f.views
        /\ g.dirty = f.dirty
    BY <2>2 DEF FenceState
  <2>4. ObjectsAfter(statement, o) = Put(o, target, TableObject(FALSE))
    BY <1>5 DEF ObjectsAfter
  <2>5. InStep(Put(o, target, TableObject(FALSE)), g)
    <3>1. target \notin DOMAIN o
      BY <1>1, <1>5 DEF Creates
    <3>2. /\ g.tables = f.tables \cup
               (IF TableObject(FALSE).kind = "table" THEN {target} ELSE {})
          /\ g.views = f.views \cup
               (IF TableObject(FALSE).kind = "view" THEN {target} ELSE {})
          /\ g.dirty = f.dirty \cup (IF TableObject(FALSE).pending THEN {target} ELSE {})
      BY <1>2, <2>3
    <3> HIDE DEF target
    <3> QED
      BY <1>2, <2>3, <3>1, <3>2, PutAgrees
  <2> QED
    BY <2>4, <2>5 DEF g
<1>6. CASE statement.verb = "create view"
  <2> DEFINE g == after(f, statement)
             view == ViewObject(statement.reads)
  <2>1. effect = "create view"
    BY <1>1, <1>6, Classified
  <2>2. target \notin DOMAIN o
    BY <1>1, <1>6 DEF Creates
  <2>3. g = FenceState(f.tables \ {target}, f.views \cup {target}, f.dirty)
    BY <2>1 DEF after
  <2> HIDE DEF g
  <2>4. /\ g = FenceState(g.tables, g.views, g.dirty)
        /\ g.tables = f.tables \ {target} /\ g.views = f.views \cup {target}
        /\ g.dirty = f.dirty
    BY <2>3 DEF FenceState
  <2>5. f.tables \ {target} = f.tables
    BY <1>3, <2>2
  <2>6. ObjectsAfter(statement, o) = Put(o, target, view)
    BY <1>6 DEF ObjectsAfter
  <2>7. InStep(Put(o, target, view), g)
    <3>1. /\ g.tables = f.tables \cup (IF view.kind = "table" THEN {target} ELSE {})
          /\ g.views = f.views \cup (IF view.kind = "view" THEN {target} ELSE {})
          /\ g.dirty = f.dirty \cup (IF view.pending THEN {target} ELSE {})
      BY <1>2, <2>4, <2>5
    <3>2. Proper(view)
      BY <1>2
    <3> HIDE DEF target, view
    <3> QED
      BY <2>2, <2>4, <3>1, <3>2, PutAgrees, ZenonT(60)
  <2> QED
    BY <2>6, <2>7 DEF g
<1>7. CASE statement.verb = "rename"
  <2>1. effect = "rename" /\ may_read(effect)
    BY <1>1, <1>7, Classified
  <2>2. target \in f.tables
    BY <1>1, <1>3, <1>7 DEF Creates
  <2>3. after(f, statement) = renamed(f, target, statement.to)
    BY <2>1 DEF after
  <2>4. ObjectsAfter(statement, o) =
          [name \in (DOMAIN o \ {target}) \cup {statement.to} |->
             IF name = statement.to THEN o[target] ELSE o[name]]
    BY <1>7 DEF ObjectsAfter
  <2>5. statement.to \notin DOMAIN o /\ \A name \in DOMAIN o : ~o[name].pending
    BY <1>1, <1>7, <2>1
  <2>6. PICK from, to : from = target /\ to = statement.to
    OBVIOUS
  <2> HIDE DEF target
  <2>7. InStep([name \in (DOMAIN o \ {from}) \cup {to} |->
                 IF name = to THEN o[from] ELSE o[name]], renamed(f, from, to))
    BY <2>2, <2>5, <2>6, RenameAgrees
  <2> QED
    BY <2>3, <2>4, <2>6, <2>7
<1>8. CASE statement.verb = "select"
  <2>1. effect = "read"
    BY <1>1, <1>8, Classified
  <2> QED
    BY <1>8, <2>1 DEF after, ObjectsAfter
<1> QED
  BY <1>1, <1>4, <1>5, <1>6, <1>7, <1>8 DEF RunVerbs, Creates

-----------------------------------------------------------------------------
(* The fence: the invariant *)

\* A statement that is executed keeps the invariant of the fence.
LEMMA ExecuteKeeps ==
  ASSUME Fenced, NEW statement, Accepts(statement), execute(statement)
  PROVE  Fenced'
<1> DEFINE refreshed == refreshes(statement)
           now == Refreshed(refreshed)
           f == flushed(fence, refreshed)
<1>1. InStep(objects, fence)
  BY FencedMeansAgree DEF Fenced
<1>2. /\ InStep(now, f) /\ DOMAIN now = DOMAIN objects
      /\ may_read(classify(statement)) => \A name \in DOMAIN now : ~now[name].pending
  BY <1>1, FenceRuns
<1>3. \A name \in DOMAIN now : now[name].kind = objects[name].kind
  BY <1>1, RefreshShows
<1>4. /\ objects' = ObjectsAfter(statement, now) /\ fence' = after(f, statement)
      /\ missed' = missed \cup {name \in tables_read(statement) : now[name].pending}
  BY DEF execute
<1> HIDE DEF now, f
<1>5. InStep(objects', fence')
  BY <1>2, <1>3, <1>4, StatementAgrees
<1>6. missed' = {}
  <2>1. statement.verb \in RunVerbs
    BY DEF Accepts
  <2>2. tables_read(statement) \subseteq DOMAIN objects
    <3>1. \A from : tables_below(from) \subseteq DOMAIN objects
      BY DEF tables_below, Tables
    <3>2. statement.verb = "delete" => statement.target \in DOMAIN objects
      BY DEF Accepts, Tables, Creates
    <3> QED
      BY <3>1, <3>2 DEF tables_read
  <2>3. CASE statement.verb = "insert values"
    BY <1>4, <2>3 DEF tables_read, Fenced, ReadsSeeEverything
  <2>4. CASE statement.verb # "insert values"
    <3>1. \A name \in tables_read(statement) : ~now[name].pending
      BY <1>2, <2>1, <2>2, <2>4, Classified
    <3> QED
      BY <1>4, <3>1 DEF Fenced, ReadsSeeEverything
  <2> QED
    BY <2>3, <2>4
<1>7. ObjectsOK' /\ FenceOK'
  <2>1. (ObjectsOK /\ FenceOK <=> InStep(objects, fence))'
    BY FencedMeansAgree, PTL
  <2> QED
    BY <1>5, <2>1
<1> QED
  BY <1>6, <1>7 DEF Fenced, ReadsSeeEverything

\* Before the setup there are no objects, and the fence knows none.
LEMMA InitFenced == Init => Fenced
<1> SUFFICES ASSUME Init PROVE Fenced
  OBVIOUS
<1>1. /\ objects = <<>> /\ missed = {} /\ fence = FenceState({}, {}, {})
  BY DEF Init, FenceInit
<1>2. DOMAIN objects = {}
  BY <1>1
<1>3. /\ fence = FenceState(fence.tables, fence.views, fence.dirty)
      /\ fence.tables = {} /\ fence.views = {} /\ fence.dirty = {}
  BY <1>1 DEF FenceState
<1>4. InStep(objects, fence)
  BY <1>2, <1>3 DEF InStep
<1> QED
  BY <1>1, <1>4, FencedMeansAgree DEF Fenced, ReadsSeeEverything

\* The steps in which the fence refreshes at most, or the engine does.
LEMMA RefreshKeeps ==
  ASSUME Fenced, UNCHANGED missed,
         \/ UNCHANGED <<objects, fence>>
         \/ \E S : objects' = Refreshed(S) /\ UNCHANGED fence
         \/ \E statement : /\ objects' = Refreshed(refreshes(statement))
                           /\ fence' = flushed(fence, refreshes(statement))
  PROVE  Fenced'
<1>1. InStep(objects, fence)
  BY FencedMeansAgree DEF Fenced
<1>2. InStep(objects', fence')
  <2>1. CASE UNCHANGED <<objects, fence>>
    BY <1>1, <2>1
  <2>2. CASE \E S : objects' = Refreshed(S) /\ UNCHANGED fence
    <3>1. PICK S : objects' = Refreshed(S) /\ fence' = fence
      BY <2>2
    <3>2. /\ DOMAIN objects' = DOMAIN objects
          /\ \A name \in DOMAIN objects :
               /\ Proper(objects'[name]) /\ objects'[name].kind = objects[name].kind
               /\ objects'[name].pending => objects[name].pending
      BY <1>1, <3>1, RefreshShows
    <3>3. InStep(objects', fence)
      BY <1>1, <3>2 DEF InStep
    <3> QED
      BY <3>1, <3>3
  <2>3. CASE \E statement : /\ objects' = Refreshed(refreshes(statement))
                            /\ fence' = flushed(fence, refreshes(statement))
    BY <1>1, <2>3, FenceRuns
  <2> QED
    BY <2>1, <2>2, <2>3
<1>3. (ObjectsOK /\ FenceOK <=> InStep(objects, fence))'
  BY FencedMeansAgree, PTL
<1> QED
  BY <1>2, <1>3 DEF Fenced, ReadsSeeEverything

\* The fence follows every step of the connection.
THEOREM FenceHolds == Spec => []Fenced
<1>1. Fenced /\ [Next]_vars => Fenced'
  <2> SUFFICES ASSUME Fenced, [Next]_vars PROVE Fenced'
    OBVIOUS
  <2>1. CASE run
    BY <2>1, ExecuteKeeps DEF run
  <2>2. CASE query
    BY <2>2, ExecuteKeeps DEF query
  <2>3. CASE StatementFails
    BY <2>3, RefreshKeeps DEF StatementFails
  <2>4. CASE EngineRefreshes
    BY <2>4, RefreshKeeps DEF EngineRefreshes
  <2>5. CASE GenerateForks \/ Build \/ SetupDone \/ UNCHANGED vars
    <3>1. UNCHANGED <<objects, fence, missed>>
      BY <2>5 DEF GenerateForks, Build, SetupDone, vars, setupVars
    <3> QED
      BY <3>1, RefreshKeeps
  <2> QED
    BY <2>1, <2>2, <2>3, <2>4, <2>5 DEF Next
<1> QED
  BY <1>1, InitFenced, PTL DEF Spec

\* The fence, which sees only texts, knows the tables and the views, and which
\* tables wait for a refresh.
THEOREM FenceSeesThroughTexts == Spec => []FenceKnowsObjects
<1>1. Fenced => FenceKnowsObjects
  BY DEF Fenced, FenceOK
<1> QED
  BY <1>1, FenceHolds, PTL

\* No statement of a setup and no query of the workload misses a row that was
\* written before it, whatever the engine refreshes by itself.
THEOREM NothingIsMissed == Spec => []ReadsSeeEverything
<1>1. Fenced => ReadsSeeEverything
  BY DEF Fenced
<1> QED
  BY <1>1, FenceHolds, PTL
=============================================================================
