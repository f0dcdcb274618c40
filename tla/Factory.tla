------------------------------ MODULE Factory ------------------------------
(***************************************************************************)
(* How an equivalence is generated: WeightedBuilderFactory._dispatch tries *)
(* the builders eligible for a request until one succeeds, each of them    *)
(* asks build_subtree for its children, and BuilderContext keeps the depth *)
(* and the node budgets.  A request stands for the node type asked for and *)
(* the constraints on it; a subtree is abstracted to its number of nodes,  *)
(* 0 for None.  The weighted shuffle is a choice among all the orders; a   *)
(* builder of weight 0 is no builder, or does not answer the root request  *)
(* if only its weight at the root is 0.                                    *)
(***************************************************************************)
EXTENDS Integers, Sequences, FiniteSets

CONSTANTS
  Builders,    \* the builders of the configuration
  Leaves,      \* those whose is_leaf is true
  Requests,    \* what a builder can ask for
  Answers,     \* Answers[r]: the builders that can meet the request r
  Asks,        \* Asks[b][r]: what b asks for, in order, to meet r
  Stubborn,    \* builders that ask for a sibling of a child they did not get
  Fickle,      \* builders that may decline before they ask for anything
  Picky,       \* builders that may decline when they have all their children
  Settings     \* what it can run with: the limits, a budget of 0 being unlimited,
               \* and the request of generate, by the dialect's builders

ASSUME FactoryAssumption ==
  /\ Leaves \subseteq Builders /\ Stubborn \subseteq Builders
  /\ Fickle \subseteq Builders /\ Picky \subseteq Builders
  /\ IsFiniteSet(Builders) /\ "none" \notin Builders
  /\ Answers \in [Requests -> SUBSET Builders]
  /\ Asks \in [Builders -> [Requests -> Seq(Requests)]]
  /\ \A b \in Leaves, r \in Requests : Asks[b][r] = <<>>
  /\ Settings \subseteq [max_depth : Nat, max_nodes : Nat, max_attempts : Nat,
                           has_deadline : BOOLEAN, root : Requests]

VARIABLES
  settings,         \* BuilderSettings, the request, and whether there is a deadline
  mode,             \* what the innermost call is doing
  stack,            \* the calls of _dispatch in progress, outermost first
  request,          \* what build_subtree is called for
  value,            \* what it returns
  node_count,       \* nodes in the surviving tree
  nodes_attempted   \* nodes ever built

vars ==
  <<settings, mode, stack, request, value, node_count, nodes_attempted>>

max_depth == settings.max_depth
max_nodes == settings.max_nodes
max_attempts == settings.max_attempts

\* A dispatch, the builder it is running, and how far that builder has come.
\* todo: the eligible builders not tried yet; asked: the children asked for;
\* kept: the nodes of those it has; lost: a child came back None; saved: the
\* node_count on entry.
Frames ==
  [request : Requests, todo : SUBSET Builders, builder : Builders \cup {"none"},
   asked : Nat, kept : Nat, lost : BOOLEAN, saved : Nat]

TypeOK ==
  /\ settings \in Settings
  /\ mode \in {"dispatch", "choose", "build", "return", "done", "raised"}
  /\ stack \in Seq(Frames)
  /\ request \in Requests
  /\ value \in Nat
  /\ node_count \in Nat
  /\ nodes_attempted \in Nat

Top == stack[Len(stack)]
Pop == SubSeq(stack, 1, Len(stack) - 1)
SetTop(frame) == stack' = [stack EXCEPT ![Len(stack)] = frame]

Init ==
  /\ settings \in Settings
  /\ mode = "dispatch" /\ stack = <<>> /\ request = settings.root /\ value = 0
  /\ node_count = 0 /\ nodes_attempted = 0

\* build_subtree: the deadline is looked at on every call, and the exception
\* unwinds every builder, which rolls its nodes back.
DeadlineExceeded ==
  /\ mode = "dispatch" /\ settings.has_deadline
  /\ mode' = "raised"
  /\ stack' = <<>>
  /\ node_count' = IF stack = <<>> THEN node_count ELSE stack[1].saved
  /\ UNCHANGED <<settings, request, value, nodes_attempted>>

\* Mutant: only the work has a budget.
ExhaustedByAttempts == max_attempts > 0 /\ nodes_attempted >= max_attempts

\* The two budgets.
Exhausted ==
  \/ max_nodes > 0 /\ node_count >= max_nodes
  \/ max_attempts > 0 /\ nodes_attempted >= max_attempts

\* Mutant: the depth of the dispatch is taken for that of its builders.
EligibleOneDeeper(r, depth) ==
  {b \in Answers[r] :
     /\ depth <= max_depth
     /\ depth >= max_depth \/ Exhausted => b \in Leaves}

\* _filter_builders; when a dispatch starts, the depth is the number of builders
\* that are running, one for each call in progress.
Eligible(r, depth) ==
  {b \in Answers[r] :
     /\ depth < max_depth
     /\ depth >= max_depth - 1 \/ Exhausted => b \in Leaves}

\* The eligible builders are settled here, once for all of their turns.
Dispatch ==
  /\ mode = "dispatch"
  /\ LET eligible == Eligible(request, Len(stack)) IN
     \/ /\ eligible # {}
        /\ stack' = Append(stack,
             [request |-> request, todo |-> eligible, builder |-> "none",
              asked |-> 0, kept |-> 0, lost |-> FALSE, saved |-> 0])
        /\ mode' = "choose"
        /\ UNCHANGED value
     \/ /\ eligible = {}
        /\ mode' = "return" /\ value' = 0
        /\ UNCHANGED stack
  /\ UNCHANGED <<settings, request, node_count, nodes_attempted>>

\* Mutant: the budgets are looked at again before every turn.
EnterBuilderRefilters ==
  /\ mode = "choose" /\ Top.todo # {}
  /\ LET eligible == Top.todo \cap Eligible(Top.request, Len(stack) - 1) IN
     \/ /\ eligible = {}
        /\ SetTop([Top EXCEPT !.todo = {}])
        /\ UNCHANGED mode
     \/ /\ \E b \in eligible :
             SetTop([Top EXCEPT !.todo = @ \ {b}, !.builder = b, !.asked = 0,
                                !.kept = 0, !.lost = FALSE,
                                !.saved = node_count])
        /\ mode' = "build"
  /\ UNCHANGED <<settings, request, value, node_count, nodes_attempted>>

\* The next builder in the shuffled order; _enter_builder saves the count.
EnterBuilder ==
  /\ mode = "choose"
  /\ \E b \in Top.todo :
       SetTop([Top EXCEPT !.todo = @ \ {b}, !.builder = b, !.asked = 0,
                          !.kept = 0, !.lost = FALSE, !.saved = node_count])
  /\ mode' = "build"
  /\ UNCHANGED <<settings, request, value, node_count, nodes_attempted>>

\* Every eligible builder has declined.
NoBuilderLeft ==
  /\ mode = "choose" /\ Top.todo = {}
  /\ stack' = Pop
  /\ mode' = "return" /\ value' = 0
  /\ UNCHANGED <<settings, request, node_count, nodes_attempted>>

Wanted == Asks[Top.builder][Top.request]
AsksOn == Top.asked < Len(Wanted) /\ (Top.lost => Top.builder \in Stubborn)

\* _build asks for its next child.
AskForChild ==
  /\ mode = "build" /\ AsksOn
  /\ SetTop([Top EXCEPT !.asked = @ + 1])
  /\ request' = Wanted[Top.asked + 1]
  /\ mode' = "dispatch"
  /\ UNCHANGED <<settings, value, node_count, nodes_attempted>>

\* The child, or None, comes back to the builder that asked.
ReceiveChild ==
  /\ mode = "return" /\ stack # <<>>
  /\ SetTop([Top EXCEPT !.kept = @ + value, !.lost = @ \/ value = 0])
  /\ mode' = "build" /\ value' = 0
  /\ UNCHANGED <<settings, request, node_count, nodes_attempted>>

\* _build returns a node, and it is committed.
Succeed ==
  /\ mode = "build" /\ Top.asked = Len(Wanted) /\ ~Top.lost
  /\ node_count' = node_count + 1
  /\ nodes_attempted' = nodes_attempted + 1
  /\ stack' = Pop
  /\ mode' = "return" /\ value' = Top.kept + 1
  /\ UNCHANGED <<settings, request>>

\* When _build may return None: its conditions on the base table, a child it did
\* not get, or children it has no use for, such as a query without the column
\* that it is to index.
Declines ==
  \/ Top.builder \in Fickle /\ Top.asked = 0
  \/ Top.lost /\ ~AsksOn
  \/ /\ Top.builder \in Picky
     /\ Top.asked > 0 /\ Top.asked = Len(Wanted) /\ ~Top.lost

\* Mutant: the nodes of the children that are dropped stay in the count.
DeclineKeepsCount ==
  /\ mode = "build" /\ Declines
  /\ SetTop([Top EXCEPT !.builder = "none", !.kept = 0, !.lost = FALSE])
  /\ mode' = "choose"
  /\ UNCHANGED <<settings, request, value, node_count, nodes_attempted>>

\* Mutant: the node that was not built is taken off the count as well.
DeclineSubtracts ==
  /\ mode = "build" /\ Declines
  /\ node_count' = node_count - Top.kept - 1
  /\ SetTop([Top EXCEPT !.builder = "none", !.kept = 0, !.lost = FALSE])
  /\ mode' = "choose"
  /\ UNCHANGED <<settings, request, value, nodes_attempted>>

\* _build returns None: what was built for it is rolled back, and the next
\* builder has its turn.
Decline ==
  /\ mode = "build" /\ Declines
  /\ node_count' = Top.saved
  /\ SetTop([Top EXCEPT !.builder = "none", !.kept = 0, !.lost = FALSE])
  /\ mode' = "choose"
  /\ UNCHANGED <<settings, request, value, nodes_attempted>>

\* The outermost build_subtree returns to generate.
Finish ==
  /\ mode = "return" /\ stack = <<>>
  /\ mode' = "done"
  /\ UNCHANGED <<settings, stack, request, value, node_count, nodes_attempted>>

Step ==
  \/ DeadlineExceeded \/ Dispatch \/ EnterBuilder \/ NoBuilderLeft
  \/ AskForChild \/ ReceiveChild \/ Succeed \/ Decline \/ Finish

Ended == mode \in {"done", "raised"} /\ UNCHANGED vars

Next == Step \/ Ended

\* A single thread.
Spec == Init /\ [][Next]_vars /\ WF_vars(Step)

-----------------------------------------------------------------------------
(* Properties *)

\* The nodes that the builders of the k outermost calls hold, each as a call and a number.
Held(k) == Cardinality(UNION {{i} \X (1..stack[i].kept) : i \in 1..k})

\* Whatever was built and dropped on the way: the docstring of node_count,
\* "number of nodes in the surviving tree (rolled back on failure)", holds at
\* every moment, for the subtrees the builders in progress hold, and an
\* exception leaves nothing behind.
SurvivorsCounted == node_count = value + Held(Len(stack))

\* No builder runs deeper than max_depth, and one that runs there is a leaf.
DepthIsBounded ==
  /\ Len(stack) <= max_depth
  /\ \A i \in 1..Len(stack) : i = max_depth =>
       stack[i].todo \cup {stack[i].builder} \subseteq Leaves \cup {"none"}

\* The builders that may decline when they have got a leaf: after the last
\* attempt allowed, each can still waste one more.
Dropping ==
  {b \in Picky : \E r \in Requests : \E k \in 1..Len(Asks[b][r]) :
                   Answers[Asks[b][r][k]] \cap Leaves # {}}

\* What each call in progress may still attempt: the leaves that are wasted, one
\* leaf more, and its own node.
Share == 2 + Cardinality(Dropping)

\* The wind-down works.  Past max_nodes a tree only gains the nodes that were
\* already being built, at most one on each level; past max_attempts, "a work
\* ceiling", each level has its share, whichever builders decline and hand over
\* to the next with what they were given already attempted.
BudgetsHold ==
  /\ max_nodes > 0 => node_count < max_nodes + max_depth
  /\ max_attempts > 0 => nodes_attempted < max_attempts + max_depth * Share

\* The search ends, and unless it is the deadline that ends it, with a tree:
\* with SELECT * and the base table there is always one, however the draws go
\* and whichever budget runs out on the way.  The exception: an outermost builder
\* that declines over a finished child may have used up the attempts, and then
\* no query but a leaf is left to the builders after it.
GenerationSucceeds ==
  <>(\/ mode = "raised"
     \/ mode = "done" /\ value > 0
     \/ mode = "done" /\ max_attempts > 0 /\ Answers[settings.root] \cap Picky # {})

\* The docstring of generate, without the exception: None "means the configuration
\* is wrong rather than the draw being unlucky".  Under max_attempts it does not
\* hold, as MCFactoryUnlucky.cfg shows.
NeverUnlucky == mode = "done" => value > 0

-----------------------------------------------------------------------------
(* The inductive invariant behind DepthIsBounded                           *)

\* Every call but one that is between two builders is running a builder.
EveryCallRuns ==
  /\ mode \in {"choose", "build"} => stack # <<>>
  /\ \A i \in 1..Len(stack) : i < Len(stack) \/ mode # "choose" =>
       stack[i].builder \in Builders

\* At the depth limit only leaves run, and as they ask for nothing no call is
\* made from there.
LeavesAtTheLimit ==
  /\ Len(stack) <= max_depth
  /\ \A i \in 1..Len(stack) : i = max_depth =>
       /\ stack[i].todo \subseteq Leaves
       /\ stack[i].builder \in IF mode = "choose" THEN {"none"} ELSE Leaves
  /\ mode = "dispatch" /\ stack # <<>> => Len(stack) < max_depth

IInv == TypeOK /\ EveryCallRuns /\ LeavesAtTheLimit

\* What makes the count right after a roll back: a builder was entered with the
\* nodes of the calls around it on the count, and no others; one that is yet to
\* be chosen holds nothing, and a subtree is only handed over on a return.
SavedCounts ==
  /\ SurvivorsCounted
  /\ \A i \in 1..Len(stack) : i < Len(stack) \/ mode # "choose" =>
       stack[i].saved = Held(i - 1)
  /\ mode = "choose" => Top.kept = 0
  /\ mode \in {"dispatch", "choose", "build"} => value = 0

-----------------------------------------------------------------------------
(* The inductive invariant behind BudgetsHold.  The bounds on what is still  *)
(* built after a budget has run out rest on a fact about the builders: the   *)
(* base table, the one leaf, is only admitted by _dispatch_source, and every *)
(* builder that calls it asks for nothing else.                              *)
LeavesAreOnlyChildren ==
  \A b \in Builders, r \in Requests : \A k \in 1..Len(Asks[b][r]) :
    Answers[Asks[b][r][k]] \cap Leaves # {} => Len(Asks[b][r]) = 1

\* A builder that waits for a child has asked for it, and has none before the first.
Wants(frame) == Asks[frame.builder][frame.request]
Waiting(frame) ==
  /\ frame.asked \in 1..Len(Wants(frame))
  /\ frame.asked = 1 => frame.kept = 0 /\ ~frame.lost

\* Each call is for what the builder around it has asked for last, and tries
\* builders that can meet it.
CallsAreAsked ==
  /\ \A i \in 1..Len(stack) :
       /\ stack[i].todo \subseteq Answers[stack[i].request]
       /\ i < Len(stack) \/ mode # "choose" =>
            stack[i].builder \in Answers[stack[i].request]
       /\ i < Len(stack) \/ mode \in {"dispatch", "return"} => Waiting(stack[i])
       /\ i < Len(stack) => stack[i + 1].request = Wants(stack[i])[stack[i].asked]
  /\ mode = "build" => /\ Top.asked <= Len(Wanted)
                       /\ Top.asked = 0 => Top.kept = 0 /\ ~Top.lost
  /\ mode = "dispatch" => IF stack = <<>> THEN node_count = 0 /\ nodes_attempted = 0
                          ELSE request = Wanted[Top.asked]

\* No call begins once the tree is large enough, and each that is in progress adds
\* its own node at most.
NodesLeft ==
  max_nodes > 0 =>
    /\ \A k \in 0..(Len(stack) - 1) : Held(k) < max_nodes
    /\ node_count + Len(stack) < max_nodes + max_depth

\* No builder has a second turn in a call.
NoSecondTurn == \A i \in 1..Len(stack) : stack[i].builder \notin stack[i].todo

\* After the last attempt allowed: what a call may still attempt, by the builders
\* that have not declined in it; and the calls in progress, k of them with their
\* whole share.
Owing(frame) ==
  2 + Cardinality((frame.todo \cup {frame.builder}) \cap Dropping)
Shares(k) == k * Share
Spent(k) == nodes_attempted + Shares(k)
Limit == max_attempts + Shares(max_depth)

\* A leaf is owed by the call that asked for it; that call then completes, or
\* one builder less can waste a leaf.
LeafTried ==
  /\ Len(stack) >= 2 /\ Top.todo \subseteq Leaves
  /\ mode = "choose" \/ (mode = "build" /\ Top.builder \in Leaves)
Completing ==
  /\ stack # <<>> /\ Top.asked > 0 /\ Top.asked = Len(Wanted) /\ ~Top.lost
  /\ Top.builder \in Picky => Top.builder \in Dropping
  /\ mode = "build" \/ (mode = "return" /\ value > 0)
AttemptsLeft ==
  max_attempts > 0 /\ nodes_attempted >= max_attempts =>
    \/ stack = <<>> /\ Spent(1) <= Limit
    \/ stack # <<>> /\ Spent(Len(stack)) + Owing(Top) <= Limit
    \/ Completing /\ Spent(Len(stack)) + Owing(Top) <= Limit + 1
    \/ LeafTried /\ Spent(Len(stack) - 1) + Owing(stack[Len(stack) - 1]) <= Limit

BudgetInv == CallsAreAsked /\ NodesLeft /\ NoSecondTurn /\ AttemptsLeft
=============================================================================
