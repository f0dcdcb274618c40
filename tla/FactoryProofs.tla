--------------------------- MODULE FactoryProofs ---------------------------
(***************************************************************************)
(* For every set of builders, requests and settings, whatever the builders *)
(* ask for and however the draws go: generation keeps to max_depth, its    *)
(* count is that of the surviving nodes, and what it still builds once a   *)
(* budget has run out is bounded by the depth and by how many builders can *)
(* decline over a child they got.                                          *)
(***************************************************************************)
EXTENDS Factory, FiniteSetTheorems, SequenceTheorems, TLAPS

\* A frame with a field changed is a frame.
LEMMA TopIsAFrame ==
  ASSUME TypeOK, stack # <<>>
  PROVE  /\ Len(stack) \in Nat \ {0}
         /\ Top \in Frames /\ stack[Len(stack)] = Top
BY DEF TypeOK, Top

\* Replacing the innermost call leaves the others.
LEMMA SettingTheTop ==
  ASSUME TypeOK, stack # <<>>, NEW frame \in Frames, SetTop(frame)
  PROVE  /\ stack' \in Seq(Frames) /\ Len(stack') = Len(stack)
         /\ stack' # <<>>
         /\ stack'[Len(stack)] = frame
         /\ \A i \in 1..Len(stack) : i # Len(stack) => stack'[i] = stack[i]
BY TopIsAFrame DEF TypeOK, SetTop

\* The end of the innermost call leaves the others.
LEMMA Popping ==
  ASSUME TypeOK, stack # <<>>, stack' = Pop
  PROVE  /\ stack' \in Seq(Frames) /\ Len(stack') = Len(stack) - 1
         /\ \A i \in 1..(Len(stack) - 1) : stack'[i] = stack[i]
<1> DEFINE n == Len(stack) - 1
<1>1. n \in Nat /\ \A i \in 1..n : stack[i] \in Frames
  BY TopIsAFrame DEF TypeOK
<1> HIDE DEF n
<1>2. /\ SubSeq(stack, 1, n) \in Seq(Frames)
      /\ Len(SubSeq(stack, 1, n)) = IF 1 <= n THEN n - 1 + 1 ELSE 0
      /\ \A i \in 1..(n - 1 + 1) : SubSeq(stack, 1, n)[i] = stack[1 + i - 1]
  BY <1>1, SubSeqProperties
<1>3. /\ stack' = SubSeq(stack, 1, n) /\ n - 1 + 1 = n
      /\ \A i \in 1..n : 1 + i - 1 = i
  BY <1>1 DEF Pop, n
<1>4. /\ stack' \in Seq(Frames) /\ Len(stack') = n
      /\ \A i \in 1..n : stack'[i] = stack[i]
  BY <1>1, <1>2, <1>3
<1> QED
  BY <1>4 DEF n

\* A call begins.
LEMMA Pushing ==
  ASSUME TypeOK, NEW frame \in Frames, stack' = Append(stack, frame)
  PROVE  /\ stack' \in Seq(Frames) /\ Len(stack') = Len(stack) + 1
         /\ stack' # <<>>
         /\ stack'[Len(stack) + 1] = frame
         /\ \A i \in 1..Len(stack) : stack'[i] = stack[i]
BY DEF TypeOK

\* The builders eligible for a request.
LEMMA EligibleBuilders ==
  ASSUME NEW r \in Requests, NEW depth \in Nat, settings \in Settings
  PROVE  /\ Eligible(r, depth) \subseteq Builders
         /\ Eligible(r, depth) # {} => depth < max_depth
         /\ depth + 1 = max_depth => Eligible(r, depth) \subseteq Leaves
<1>1. max_depth \in Nat
  BY FactoryAssumption DEF max_depth
<1>2. Answers[r] \subseteq Builders
  BY FactoryAssumption
<1> QED
  BY <1>1, <1>2 DEF Eligible

\* At first no call is in progress.
LEMMA InitInvariant == Init => IInv
<1> SUFFICES ASSUME Init PROVE IInv
  OBVIOUS
<1>1. max_depth \in Nat
  BY FactoryAssumption DEF Init, max_depth
<1> QED
  BY <1>1, FactoryAssumption DEF Init, IInv, TypeOK, EveryCallRuns, LeavesAtTheLimit

\* A call begins, if a builder is eligible.
LEMMA DispatchKeeps == IInv /\ Dispatch => IInv'
<1> SUFFICES ASSUME IInv, Dispatch PROVE IInv'
  OBVIOUS
<1> DEFINE eligible == Eligible(request, Len(stack))
           frame == [request |-> request, todo |-> eligible, builder |-> "none",
                     asked |-> 0, kept |-> 0, lost |-> FALSE, saved |-> 0]
<1>1. /\ TypeOK /\ mode = "dispatch" /\ Len(stack) \in Nat
      /\ max_depth \in Nat
      /\ UNCHANGED <<settings, request, node_count, nodes_attempted>>
      /\ max_depth' = max_depth
  BY FactoryAssumption DEF IInv, TypeOK, Dispatch, max_depth
<1>2. /\ eligible \subseteq Builders
      /\ eligible # {} => Len(stack) < max_depth
      /\ Len(stack) + 1 = max_depth => eligible \subseteq Leaves
  BY <1>1, EligibleBuilders DEF TypeOK
<1>3. CASE eligible = {}
  <2>1. UNCHANGED stack /\ mode' = "return" /\ value' = 0
    BY <1>3 DEF Dispatch
  <2> QED
    BY <1>1, <2>1 DEF IInv, TypeOK, EveryCallRuns, LeavesAtTheLimit
<1>4. CASE eligible # {}
  <2>1. mode' = "choose" /\ UNCHANGED value /\ stack' = Append(stack, frame)
    BY <1>4 DEF Dispatch
  <2>2. frame \in Frames
    BY <1>1, <1>2 DEF TypeOK, Frames
  <2>3. /\ stack' \in Seq(Frames) /\ Len(stack') = Len(stack) + 1
        /\ stack' # <<>>
        /\ stack'[Len(stack) + 1].todo = eligible
        /\ stack'[Len(stack) + 1].builder = "none"
        /\ \A i \in 1..Len(stack) : stack'[i] = stack[i]
    BY <1>1, <2>1, <2>2, Pushing
  <2> HIDE DEF eligible, frame
  <2>4. TypeOK'
    BY <1>1, <2>1, <2>3 DEF TypeOK
  <2>5. EveryCallRuns'
    BY <1>1, <2>1, <2>3 DEF IInv, EveryCallRuns
  <2>6. LeavesAtTheLimit'
    <3>1. Len(stack') <= max_depth'
      BY <1>1, <1>2, <1>4, <2>3
    <3>2. ASSUME NEW i \in 1..Len(stack'), i = max_depth'
          PROVE  stack'[i].todo \subseteq Leaves /\ stack'[i].builder = "none"
      <4>1. i = Len(stack) + 1
        BY <1>1, <1>2, <1>4, <2>3, <3>2
      <4> QED
        BY <1>1, <1>2, <2>3, <3>2, <4>1
    <3> QED
      BY <2>1, <3>1, <3>2 DEF LeavesAtTheLimit
  <2> QED
    BY <2>4, <2>5, <2>6 DEF IInv
<1> QED
  BY <1>3, <1>4

\* A builder is entered, asks, hears of its child or declines: the innermost call
\* changes, and stays at its depth.
LEMMA TopKeeps ==
  ASSUME IInv, stack # <<>>, NEW frame \in Frames, SetTop(frame), TypeOK',
         UNCHANGED settings, mode' \in {"choose", "build", "dispatch"},
         frame.todo \subseteq Top.todo,
         mode' # "choose" => frame.builder \in Builders,
         Len(stack) = max_depth =>
           /\ mode' # "dispatch"
           /\ frame.builder \in IF mode' = "choose" THEN {"none"} ELSE Leaves
  PROVE  IInv'
<1>1. /\ TypeOK /\ Len(stack) \in Nat \ {0}
      /\ max_depth \in Nat /\ max_depth' = max_depth
  BY TopIsAFrame, FactoryAssumption DEF IInv, TypeOK, max_depth
<1>2. /\ Len(stack') = Len(stack) /\ stack' # <<>> /\ stack' \in Seq(Frames)
      /\ stack'[Len(stack)] = frame
      /\ \A i \in 1..Len(stack) : i # Len(stack) => stack'[i] = stack[i]
  BY ONLY <1>1, SettingTheTop, stack # <<>>, frame \in Frames, SetTop(frame)
<1>3. EveryCallRuns'
  BY <1>1, <1>2 DEF IInv, EveryCallRuns
<1>4. LeavesAtTheLimit'
  <2>1. Len(stack') <= max_depth'
    BY <1>1, <1>2 DEF IInv, LeavesAtTheLimit
  <2>2. ASSUME NEW i \in 1..Len(stack'), i = max_depth'
        PROVE  /\ stack'[i].todo \subseteq Leaves
               /\ stack'[i].builder \in IF mode' = "choose" THEN {"none"} ELSE Leaves
    <3>1. i = Len(stack)
      BY <1>1, <1>2, <2>1, <2>2
    <3>2. Top.todo \subseteq Leaves
      BY <1>1, <2>2, <3>1 DEF IInv, LeavesAtTheLimit, Top
    <3> QED
      BY <1>1, <1>2, <2>2, <3>1, <3>2
  <2>3. mode' = "dispatch" => Len(stack') < max_depth'
    BY <1>1, <1>2, <2>1
  <2> QED
    BY <2>1, <2>2, <2>3 DEF LeavesAtTheLimit
<1> QED
  BY <1>3, <1>4 DEF IInv

\* A call ends, with a node or without.
LEMMA PopKeeps ==
  ASSUME IInv, stack # <<>>, stack' = Pop, TypeOK', UNCHANGED settings,
         mode' = "return"
  PROVE  IInv'
<1>1. /\ TypeOK /\ Len(stack) \in Nat \ {0}
      /\ max_depth \in Nat /\ max_depth' = max_depth
  BY TopIsAFrame, FactoryAssumption DEF IInv, TypeOK, max_depth
<1>2. /\ Len(stack') = Len(stack) - 1 /\ stack' \in Seq(Frames)
      /\ \A i \in 1..(Len(stack) - 1) : stack'[i] = stack[i]
  BY ONLY <1>1, Popping, stack # <<>>, stack' = Pop
<1>3. EveryCallRuns'
  BY <1>1, <1>2 DEF IInv, EveryCallRuns
<1>4. LeavesAtTheLimit'
  BY <1>1, <1>2 DEF IInv, LeavesAtTheLimit
<1> QED
  BY <1>3, <1>4 DEF IInv

\* The turns of the builders.
LEMMA TurnsKeep == IInv /\ (EnterBuilder \/ Decline \/ NoBuilderLeft) => IInv'
<1> SUFFICES ASSUME IInv, EnterBuilder \/ Decline \/ NoBuilderLeft PROVE IInv'
  OBVIOUS
<1>1. /\ TypeOK /\ stack # <<>> /\ mode \in {"choose", "build"}
      /\ UNCHANGED <<settings, request>>
  BY DEF IInv, EveryCallRuns, EnterBuilder, Decline, NoBuilderLeft
<1>2. Top \in Frames /\ Len(stack) \in Nat \ {0}
  BY <1>1, TopIsAFrame
<1>3. CASE EnterBuilder
  <2>1. PICK b \in Top.todo :
          SetTop([Top EXCEPT !.todo = @ \ {b}, !.builder = b, !.asked = 0,
                             !.kept = 0, !.lost = FALSE, !.saved = node_count])
    BY <1>3 DEF EnterBuilder
  <2> DEFINE frame == [Top EXCEPT !.todo = @ \ {b}, !.builder = b, !.asked = 0,
                                  !.kept = 0, !.lost = FALSE, !.saved = node_count]
  <2>2. /\ frame \in Frames /\ b \in Builders /\ frame.builder = b
        /\ frame.todo \subseteq Top.todo
    BY <1>1, <1>2 DEF Frames, TypeOK
  <2>3. /\ mode' = "build" /\ SetTop(frame)
        /\ UNCHANGED <<value, node_count, nodes_attempted>>
    BY <1>3, <2>1 DEF EnterBuilder
  <2> HIDE DEF frame
  <2>4. TypeOK'
    BY <1>1, <2>2, <2>3, SettingTheTop DEF TypeOK
  <2>5. Len(stack) = max_depth => b \in Leaves
    BY <1>1, <1>2, <2>1 DEF IInv, LeavesAtTheLimit, Top
  <2> QED
    BY <1>1, <2>2, <2>3, <2>4, <2>5, TopKeeps
<1>4. CASE Decline
  <2> DEFINE frame == [Top EXCEPT !.builder = "none", !.kept = 0, !.lost = FALSE]
  <2>1. /\ frame \in Frames /\ frame.builder = "none" /\ frame.todo = Top.todo
        /\ Top.saved \in Nat
    BY <1>2 DEF Frames
  <2>2. /\ mode' = "choose" /\ SetTop(frame) /\ node_count' = Top.saved
        /\ UNCHANGED <<value, nodes_attempted>>
    BY <1>4 DEF Decline
  <2> HIDE DEF frame
  <2>3. TypeOK'
    BY <1>1, <2>1, <2>2, SettingTheTop DEF TypeOK
  <2> QED
    BY <1>1, <2>1, <2>2, <2>3, TopKeeps
<1>5. CASE NoBuilderLeft
  <2>1. /\ stack' = Pop /\ mode' = "return" /\ value' = 0
        /\ UNCHANGED <<node_count, nodes_attempted>>
    BY <1>5 DEF NoBuilderLeft
  <2>2. TypeOK'
    BY <1>1, <2>1, Popping DEF TypeOK
  <2> QED
    BY <1>1, <2>1, <2>2, PopKeeps
<1> QED
  BY <1>3, <1>4, <1>5

\* A builder and its children.
LEMMA ChildrenKeep == IInv /\ (AskForChild \/ ReceiveChild \/ Succeed) => IInv'
<1> SUFFICES ASSUME IInv, AskForChild \/ ReceiveChild \/ Succeed PROVE IInv'
  OBVIOUS
<1>1. /\ TypeOK /\ stack # <<>> /\ mode \in {"build", "return"}
      /\ UNCHANGED settings
  BY DEF IInv, EveryCallRuns, AskForChild, ReceiveChild, Succeed
<1>2. /\ Top \in Frames /\ Len(stack) \in Nat \ {0} /\ Top.builder \in Builders
      /\ Len(stack) = max_depth => Top.builder \in Leaves
  BY <1>1, TopIsAFrame DEF IInv, EveryCallRuns, LeavesAtTheLimit, Top
<1>3. Wanted \in Seq(Requests) /\ (Top.builder \in Leaves => Wanted = <<>>)
  BY <1>2, FactoryAssumption DEF Wanted, Frames
<1>4. CASE AskForChild
  <2> DEFINE frame == [Top EXCEPT !.asked = @ + 1]
  <2>1. /\ frame \in Frames /\ frame.builder = Top.builder /\ frame.todo = Top.todo
    BY <1>2 DEF Frames
  <2>2. /\ mode' = "dispatch" /\ SetTop(frame) /\ request' = Wanted[Top.asked + 1]
        /\ UNCHANGED <<value, node_count, nodes_attempted>>
        /\ Top.asked < Len(Wanted)
    BY <1>4 DEF AskForChild, AsksOn
  <2>3. request' \in Requests /\ Wanted # <<>>
    BY <1>2, <1>3, <2>2 DEF Frames
  <2> HIDE DEF frame
  <2>4. TypeOK'
    BY <1>1, <2>1, <2>2, <2>3, SettingTheTop DEF TypeOK
  <2>5. Len(stack) # max_depth
    BY <1>2, <1>3, <2>3
  <2> QED
    BY <1>1, <1>2, <2>1, <2>2, <2>4, <2>5, TopKeeps
<1>5. CASE ReceiveChild
  <2> DEFINE frame ==
        [Top EXCEPT !.kept = @ + value, !.lost = @ \/ value = 0]
  <2>1. /\ frame \in Frames /\ frame.builder = Top.builder /\ frame.todo = Top.todo
    <3>1. value \in Nat /\ Top.kept + value \in Nat
      BY <1>1, <1>2 DEF TypeOK, Frames
    <3>2. PICK k \in Nat : k = Top.kept + value
      BY <3>1
    <3>3. [Top EXCEPT !.kept = k, !.lost = @ \/ value = 0] \in Frames
      BY <1>2 DEF Frames
    <3>4. frame = [Top EXCEPT !.kept = k, !.lost = @ \/ value = 0]
      BY <3>2
    <3> QED
      BY <1>2, <3>3, <3>4 DEF Frames
  <2>2. /\ mode' = "build" /\ SetTop(frame) /\ value' = 0
        /\ UNCHANGED <<request, node_count, nodes_attempted>>
    BY <1>5 DEF ReceiveChild
  <2> HIDE DEF frame
  <2>3. TypeOK'
    BY <1>1, <2>1, <2>2, SettingTheTop DEF TypeOK
  <2> QED
    BY <1>1, <1>2, <2>1, <2>2, <2>3, TopKeeps
<1>6. CASE Succeed
  <2>1. /\ stack' = Pop /\ mode' = "return" /\ value' = Top.kept + 1
        /\ node_count' = node_count + 1 /\ nodes_attempted' = nodes_attempted + 1
        /\ UNCHANGED request /\ Top.kept \in Nat
    BY <1>2, <1>6 DEF Succeed, Frames
  <2>2. TypeOK'
    BY <1>1, <2>1, Popping DEF TypeOK
  <2> QED
    BY <1>1, <2>1, <2>2, PopKeeps
<1> QED
  BY <1>4, <1>5, <1>6

\* The two ends of a generation, and no step at all.
LEMMA EndsKeep ==
  IInv /\ (DeadlineExceeded \/ Finish \/ Ended \/ UNCHANGED vars) => IInv'
<1> SUFFICES ASSUME IInv, DeadlineExceeded \/ Finish \/ Ended \/ UNCHANGED vars
             PROVE  IInv'
  OBVIOUS
<1>1. TypeOK /\ max_depth \in Nat
  BY FactoryAssumption DEF IInv, TypeOK, max_depth
<1>2. CASE DeadlineExceeded
  <2>1. /\ mode' = "raised" /\ stack' = <<>>
        /\ UNCHANGED <<settings, request, value, nodes_attempted>>
        /\ node_count' = IF stack = <<>> THEN node_count ELSE stack[1].saved
    BY <1>2 DEF DeadlineExceeded
  <2>2. stack # <<>> => stack[1] \in Frames
    BY <1>1 DEF TypeOK
  <2>3. node_count' \in Nat
    BY <1>1, <2>1, <2>2 DEF TypeOK, Frames
  <2>4. TypeOK' /\ max_depth' = max_depth
    BY <1>1, <2>1, <2>3 DEF TypeOK, max_depth
  <2> QED
    BY <1>1, <2>1, <2>4 DEF IInv, EveryCallRuns, LeavesAtTheLimit
<1>3. CASE Finish
  <2>1. /\ mode' = "done" /\ stack = <<>>
        /\ UNCHANGED <<settings, stack, request, value, node_count, nodes_attempted>>
    BY <1>3 DEF Finish
  <2>2. TypeOK' /\ max_depth' = max_depth
    BY <1>1, <2>1 DEF TypeOK, max_depth
  <2> QED
    BY <1>1, <2>1, <2>2 DEF IInv, EveryCallRuns, LeavesAtTheLimit
<1>4. CASE Ended \/ UNCHANGED vars
  BY <1>4 DEF Ended, vars, IInv, TypeOK, EveryCallRuns, LeavesAtTheLimit, max_depth
<1> QED
  BY <1>2, <1>3, <1>4

\* The invariant behind the next theorem, for every configuration.
THEOREM GenerationInvariant == Spec => []IInv
<1>1. IInv /\ [Next]_vars => IInv'
  BY DispatchKeeps, TurnsKeep, ChildrenKeep, EndsKeep DEF Next, Step
<1> QED
  BY <1>1, InitInvariant, PTL DEF Spec

\* Every variable keeps its type.
THEOREM FactoryTypes == Spec => []TypeOK
<1>1. IInv => TypeOK
  BY DEF IInv
<1> QED
  BY <1>1, GenerationInvariant, PTL

\* Whatever the builders ask for and however the draws go, no builder runs deeper
\* than max_depth, and those that run there are leaves.
THEOREM DepthKeepsToItsLimit == Spec => []DepthIsBounded
<1>1. IInv => DepthIsBounded
  <2> SUFFICES ASSUME IInv PROVE DepthIsBounded
    OBVIOUS
  <2>1. Len(stack) <= max_depth
    BY DEF IInv, LeavesAtTheLimit
  <2>2. ASSUME NEW i \in 1..Len(stack), i = max_depth
        PROVE  stack[i].todo \cup {stack[i].builder} \subseteq Leaves \cup {"none"}
    BY <2>2 DEF IInv, LeavesAtTheLimit
  <2> QED
    BY <2>1, <2>2 DEF DepthIsBounded
<1> QED
  BY <1>1, GenerationInvariant, PTL

-----------------------------------------------------------------------------
(* The count of the surviving nodes.  A step that changes the innermost call  *)
(* changes only what that call holds.                                         *)

\* What the k outermost of some calls hold.
HeldIn(frames, k) == Cardinality(UNION {{i} \X (1..frames[i].kept) : i \in 1..k})

\* A call holds as many nodes as it keeps.
LEMMA HeldInOne ==
  ASSUME NEW i, NEW k \in Nat
  PROVE  IsFiniteSet({i} \X (1..k)) /\ Cardinality({i} \X (1..k)) = k
<1>1. IsFiniteSet(1..k) /\ Cardinality(1..k) = IF 1 > k THEN 0 ELSE k - 1 + 1
  BY FS_Interval
<1>2. IsFiniteSet(1..k) /\ Cardinality(1..k) = k
  BY <1>1
<1>3. IsFiniteSet({i}) /\ Cardinality({i}) = 1
  BY FS_Singleton
<1>4. /\ IsFiniteSet({i} \X (1..k))
      /\ Cardinality({i} \X (1..k)) = Cardinality({i}) * Cardinality(1..k)
  BY <1>2, <1>3, FS_Product
<1> QED
  BY <1>2, <1>3, <1>4

\* Some calls hold finitely many.
LEMMA HeldIsFinite ==
  ASSUME NEW frames, NEW n \in Nat, \A i \in 1..n : frames[i].kept \in Nat
  PROVE  /\ IsFiniteSet(UNION {{i} \X (1..frames[i].kept) : i \in 1..n})
         /\ HeldIn(frames, n) \in Nat
<1> DEFINE T == {{i} \X (1..frames[i].kept) : i \in 1..n}
           g == [i \in 1..n |-> {i} \X (1..frames[i].kept)]
<1>1. IsFiniteSet(1..n)
  <2>1. 1 \in Int /\ n \in Int
    OBVIOUS
  <2> QED
    BY <2>1, FS_Interval
<1>2. g \in Surjection(1..n, T)
  BY DEF Surjection
<1>3. IsFiniteSet(T)
  BY <1>1, <1>2, FS_Surjection
<1>4. \A t \in T : IsFiniteSet(t)
  <2>1. ASSUME NEW i \in 1..n PROVE IsFiniteSet({i} \X (1..frames[i].kept))
    <3>1. frames[i].kept \in Nat
      OBVIOUS
    <3> QED
      BY <3>1, HeldInOne
  <2> QED
    BY <2>1
<1>5. IsFiniteSet(UNION T)
  BY <1>3, <1>4, FS_UNION
<1> QED
  BY <1>5, FS_CardinalityType DEF HeldIn

\* No calls hold nothing.
LEMMA NobodyHolds == ASSUME NEW frames PROVE HeldIn(frames, 0) = 0
<1>1. UNION {{i} \X (1..frames[i].kept) : i \in 1..0} = {}
  OBVIOUS
<1> QED
  BY <1>1, FS_EmptySet DEF HeldIn

\* One more call adds what it holds.
LEMMA OneMoreHolds ==
  ASSUME NEW frames, NEW n \in Nat, \A i \in 1..(n + 1) : frames[i].kept \in Nat
  PROVE  HeldIn(frames, n + 1) = HeldIn(frames, n) + frames[n + 1].kept
<1> DEFINE S(k) == UNION {{i} \X (1..frames[i].kept) : i \in 1..k}
           last == {n + 1} \X (1..frames[n + 1].kept)
<1>1. frames[n + 1].kept \in Nat /\ \A i \in 1..n : frames[i].kept \in Nat
  OBVIOUS
<1>2. IsFiniteSet(S(n)) /\ HeldIn(frames, n) = Cardinality(S(n)) /\ Cardinality(S(n)) \in Nat
  BY <1>1, HeldIsFinite DEF HeldIn
<1>3. IsFiniteSet(last) /\ Cardinality(last) = frames[n + 1].kept
  BY <1>1, HeldInOne
<1>4. S(n + 1) = S(n) \cup last
  <2>1. 1..(n + 1) = 1..n \cup {n + 1}
    OBVIOUS
  <2> QED
    BY <2>1
<1>5. S(n) \cap last = {}
  OBVIOUS
<1>6. HeldIn(frames, n + 1) = Cardinality(S(n + 1))
  BY DEF HeldIn
<1>7. PICK a, b : a = S(n) /\ b = last
  OBVIOUS
<1> HIDE DEF S, last
<1>8. Cardinality(a \cup b) = Cardinality(a) + Cardinality(b) - Cardinality(a \cap b)
  BY <1>2, <1>3, <1>7, FS_Union
<1>9. Cardinality(a \cap b) = 0
  BY <1>5, <1>7, FS_EmptySet
<1>10. HeldIn(frames, n + 1) = Cardinality(a \cup b) /\ HeldIn(frames, n) = Cardinality(a)
  BY <1>2, <1>4, <1>6, <1>7
<1> QED
  BY <1>1, <1>2, <1>3, <1>7, <1>8, <1>9, <1>10

\* What calls hold depends on what they keep only.
LEMMA HeldInDepends ==
  ASSUME NEW a, NEW b, NEW n \in Nat, \A i \in 1..n : a[i].kept = b[i].kept
  PROVE  HeldIn(a, n) = HeldIn(b, n)
BY DEF HeldIn

\* Held is that of the calls in progress, before a step and after it.
LEMMA HeldIsIn ==
  /\ \A k : Held(k) = HeldIn(stack, k)
  /\ \A k : Held(k)' = HeldIn(stack', k)
BY DEF Held, HeldIn

\* Calls that keep what they hold keep its count.
LEMMA HeldAgrees ==
  ASSUME stack \in Seq(Frames), stack' \in Seq(Frames),
         NEW k \in Nat, k <= Len(stack), k <= Len(stack'),
         \A i \in 1..k : stack'[i].kept = stack[i].kept
  PROVE  Held(k)' = Held(k)
<1>1. HeldIn(stack', k) = HeldIn(stack, k)
  BY HeldInDepends
<1> QED
  BY <1>1, HeldIsIn

\* The innermost call holds the rest, before a step and after it.
LEMMA HeldByTop ==
  ASSUME stack \in Seq(Frames), stack # <<>>
  PROVE  /\ Held(Len(stack)) = Held(Len(stack) - 1) + Top.kept
         /\ Held(Len(stack) - 1) \in Nat /\ Top.kept \in Nat
<1> DEFINE n == Len(stack) - 1
<1>1. n \in Nat /\ Len(stack) = n + 1 /\ Top = stack[n + 1]
  BY DEF Top
<1>2. \A i \in 1..(n + 1) : stack[i] \in Frames
  BY <1>1
<1>3. \A i \in 1..(n + 1) : stack[i].kept \in Nat
  BY <1>1, <1>2 DEF Frames
<1> HIDE DEF n
<1>4. HeldIn(stack, n + 1) = HeldIn(stack, n) + stack[n + 1].kept
  BY <1>1, <1>3, OneMoreHolds
<1>5. HeldIn(stack, n) \in Nat
  <2>1. \A i \in 1..n : stack[i].kept \in Nat
    BY <1>1, <1>3
  <2> QED
    BY <1>1, <2>1, HeldIsFinite
<1>6. stack[n + 1].kept = Top.kept /\ Top.kept \in Nat
  BY <1>1, <1>3
<1>7. Held(n + 1) = Held(n) + Top.kept /\ Held(n) \in Nat
  BY <1>4, <1>5, <1>6, HeldIsIn
<1> QED
  BY <1>1, <1>6, <1>7 DEF n

LEMMA HeldByTopNext ==
  ASSUME stack' \in Seq(Frames), stack' # <<>>
  PROVE  Held(Len(stack))' = Held(Len(stack) - 1)' + stack'[Len(stack')].kept
<1> DEFINE n == Len(stack') - 1
<1>1. n \in Nat /\ Len(stack') = n + 1
  OBVIOUS
<1> HIDE DEF n
<1>3. HeldIn(stack', n + 1) = HeldIn(stack', n) + stack'[n + 1].kept
  <2>1. ASSUME NEW i \in 1..(n + 1) PROVE stack'[i].kept \in Nat
    <3>1. stack'[i] \in Frames
      BY <1>1
    <3> QED
      BY <3>1 DEF Frames
  <2> QED
    BY <1>1, <2>1, OneMoreHolds
<1>4. /\ Held(Len(stack))' = HeldIn(stack', Len(stack'))
      /\ Held(Len(stack) - 1)' = HeldIn(stack', Len(stack') - 1)
  BY DEF Held, HeldIn
<1>5. Len(stack') - 1 = n
  BY DEF n
<1> QED
  BY <1>1, <1>3, <1>4, <1>5

\* No calls hold nothing.
LEMMA HeldByNone == Held(0) = 0 /\ (stack' = <<>> => Held(Len(stack))' = 0)
<1>1. Held(0) = 0
  BY NobodyHolds, HeldIsIn
<1>2. ASSUME stack' = <<>> PROVE Held(Len(stack))' = 0
  <2>1. Held(Len(stack))' = HeldIn(stack', 0)
    BY <1>2 DEF Held, HeldIn
  <2> QED
    BY <2>1, NobodyHolds
<1> QED
  BY <1>1, <1>2

\* A step on the innermost call leaves what the others hold.
LEMMA TopHolds ==
  ASSUME TypeOK, stack # <<>>, NEW frame \in Frames, SetTop(frame)
  PROVE  /\ Len(stack) \in Nat \ {0} /\ Len(stack') = Len(stack)
         /\ \A i \in 1..Len(stack) : i < Len(stack) => stack'[i] = stack[i]
         /\ stack'[Len(stack)] = frame
         /\ \A k \in 0..(Len(stack) - 1) : Held(k)' = Held(k)
         /\ Held(Len(stack))' = Held(Len(stack) - 1) + frame.kept
<1>1. /\ stack \in Seq(Frames) /\ stack' \in Seq(Frames) /\ stack' # <<>>
      /\ Len(stack) \in Nat \ {0} /\ Len(stack') = Len(stack)
      /\ stack'[Len(stack)] = frame
      /\ \A i \in 1..Len(stack) : i # Len(stack) => stack'[i] = stack[i]
  BY SettingTheTop, TopIsAFrame DEF TypeOK
<1>2. ASSUME NEW k \in 0..(Len(stack) - 1) PROVE Held(k)' = Held(k)
  <2>1. /\ k \in Nat /\ k <= Len(stack) /\ k <= Len(stack')
        /\ \A i \in 1..k : stack'[i].kept = stack[i].kept
    BY <1>1
  <2> QED
    BY <1>1, <2>1, HeldAgrees
<1>3. Held(Len(stack) - 1)' = Held(Len(stack) - 1)
  <2>1. PICK n \in 0..(Len(stack) - 1) : n = Len(stack) - 1
    BY <1>1
  <2>2. Held(Len(stack) - 1)' = HeldIn(stack', n)
    BY <1>1, <2>1 DEF Held, HeldIn
  <2>3. Held(n)' = Held(n) /\ Held(n)' = HeldIn(stack', n)
    BY <1>2, HeldIsIn
  <2> QED
    BY <2>1, <2>2, <2>3
<1>4. Held(Len(stack))' = Held(Len(stack) - 1)' + stack'[Len(stack')].kept
  BY <1>1, HeldByTopNext
<1> QED
  BY <1>1, <1>2, <1>3, <1>4

\* What a builder was entered with stays right while the calls around it keep
\* what they hold, and a new count of the innermost one is right by itself.
LEMMA TopCounts ==
  ASSUME IInv, SavedCounts, stack # <<>>, NEW frame \in Frames, SetTop(frame),
         mode' # "choose" => frame.saved = Held(Len(stack) - 1),
         mode' = "choose" => frame.kept = 0,
         mode' \in {"dispatch", "choose", "build"}, value' = 0,
         node_count' = Held(Len(stack) - 1) + frame.kept
  PROVE  SavedCounts'
<1>0. TypeOK
  BY DEF IInv
<1>1. /\ Len(stack) \in Nat \ {0} /\ Len(stack') = Len(stack)
      /\ \A i \in 1..Len(stack) : i < Len(stack) => stack'[i] = stack[i]
      /\ stack'[Len(stack)] = frame
      /\ \A k \in 0..(Len(stack) - 1) : Held(k)' = Held(k)
      /\ Held(Len(stack))' = Held(Len(stack) - 1) + frame.kept
  BY <1>0, TopHolds
<1>2. Held(Len(stack) - 1) \in Nat /\ frame.kept \in Nat
  BY <1>0, HeldByTop DEF TypeOK, Frames
<1>3. SurvivorsCounted'
  BY <1>1, <1>2 DEF SurvivorsCounted
<1>4. ASSUME NEW i \in 1..Len(stack'), i < Len(stack') \/ mode' # "choose"
      PROVE  stack'[i].saved = Held(i - 1)'
  <2>1. i \in 1..Len(stack) /\ i - 1 \in 0..(Len(stack) - 1)
    BY <1>1
  <2>2. Held(i - 1)' = Held(i - 1)
    BY <1>1, <2>1
  <2>3. CASE i < Len(stack)
    <3>1. stack[i].saved = Held(i - 1)
      BY <2>1, <2>3 DEF SavedCounts
    <3> QED
      BY <1>1, <2>1, <2>2, <2>3, <3>1
  <2>4. CASE i = Len(stack)
    BY <1>1, <1>4, <2>2, <2>4
  <2> QED
    BY <1>1, <2>1, <2>3, <2>4
<1>5. mode' = "choose" => Top'.kept = 0
  BY <1>1 DEF Top
<1> QED
  BY <1>3, <1>4, <1>5 DEF SavedCounts

\* A call that ends hands over what it has built.
LEMMA PopCounts ==
  ASSUME IInv, SavedCounts, stack # <<>>, stack' = Pop, mode' = "return",
         value' \in Nat, node_count' = Held(Len(stack) - 1) + value'
  PROVE  SavedCounts'
<1>0. TypeOK
  BY DEF IInv
<1>n. PICK n \in Nat : n = Len(stack) - 1
  BY <1>0, TopIsAFrame, SMTT(30)
<1>1. /\ stack \in Seq(Frames) /\ stack' \in Seq(Frames)
      /\ n \in Nat /\ Len(stack) = n + 1 /\ Len(stack') = n
      /\ \A i \in 1..n : stack'[i] = stack[i]
  BY <1>0, <1>n, Popping, TopIsAFrame DEF TypeOK
<1>2. ASSUME NEW k \in 0..n PROVE Held(k)' = Held(k)
  <2>1. /\ k \in Nat /\ k <= Len(stack) /\ k <= Len(stack')
        /\ \A i \in 1..k : stack'[i].kept = stack[i].kept
    BY <1>1
  <2> QED
    BY <1>1, <2>1, HeldAgrees
<1>3. Held(Len(stack))' = Held(n)
  <2>1. Held(n)' = HeldIn(stack', n)
    BY HeldIsIn
  <2>2. Held(Len(stack))' = HeldIn(stack', n)
    BY <1>1 DEF Held, HeldIn
  <2> QED
    BY <1>1, <1>2, <2>1, <2>2
<1>4. node_count' = Held(n) + value' /\ Held(n) \in Nat
  BY <1>1, <1>n, HeldByTop
<1>5. SurvivorsCounted'
  BY <1>3, <1>4 DEF SurvivorsCounted
<1>6. ASSUME NEW i \in 1..Len(stack') PROVE stack'[i].saved = Held(i - 1)'
  <2>1. i \in 1..Len(stack) /\ i < Len(stack) /\ i - 1 \in 0..n
    BY <1>1
  <2>2. stack[i].saved = Held(i - 1)
    BY <2>1 DEF SavedCounts
  <2> QED
    BY <1>1, <1>2, <2>1, <2>2
<1> QED
  BY <1>5, <1>6 DEF SavedCounts

\* A call that begins holds nothing.
LEMMA PushCounts ==
  ASSUME IInv, SavedCounts, mode = "dispatch", mode' = "choose", value' = value,
         NEW frame \in Frames, frame.kept = 0, stack' = Append(stack, frame),
         node_count' = node_count
  PROVE  SavedCounts'
<1>0. TypeOK
  BY DEF IInv
<1>n. PICK n \in Nat : n = Len(stack)
  BY <1>0 DEF TypeOK
<1>1. /\ stack \in Seq(Frames) /\ stack' \in Seq(Frames) /\ n \in Nat
      /\ Len(stack') = n + 1 /\ stack' # <<>> /\ stack'[n + 1] = frame
      /\ \A i \in 1..n : stack'[i] = stack[i]
  BY <1>0, <1>n, Pushing DEF TypeOK
<1>2. ASSUME NEW k \in 0..n PROVE Held(k)' = Held(k)
  <2>1. /\ k \in Nat /\ k <= Len(stack) /\ k <= Len(stack')
        /\ \A i \in 1..k : stack'[i].kept = stack[i].kept
    BY <1>1, <1>n
  <2> QED
    BY <1>1, <2>1, HeldAgrees
<1>3. Held(Len(stack))' = Held(n) + 0
  <2>1. Held(Len(stack))' = Held(Len(stack) - 1)' + frame.kept
    BY <1>1, HeldByTopNext
  <2>2. Held(Len(stack) - 1)' = HeldIn(stack', n)
    <3>1. Held(Len(stack) - 1)' = HeldIn(stack', Len(stack') - 1)
      BY DEF Held, HeldIn
    <3>2. Len(stack') - 1 = n
      BY <1>1
    <3> QED
      BY <3>1, <3>2
  <2>3. Held(n)' = HeldIn(stack', n)
    BY HeldIsIn
  <2> QED
    BY <1>1, <1>2, <2>1, <2>2, <2>3
<1>4. value = 0 /\ node_count = value + Held(n) /\ node_count \in Nat
  BY <1>0, <1>n DEF SavedCounts, SurvivorsCounted, TypeOK
<1>5. Held(n) \in Nat
  <2>1. \A i \in 1..n : stack[i] \in Frames
    BY <1>1, <1>n
  <2>2. \A i \in 1..n : stack[i].kept \in Nat
    BY <1>n, <2>1 DEF Frames
  <2>3. HeldIn(stack, n) \in Nat
    BY <1>1, <2>2, HeldIsFinite
  <2> QED
    BY <2>3, HeldIsIn
<1>6. SurvivorsCounted'
  BY <1>3, <1>4, <1>5 DEF SurvivorsCounted
<1>7. ASSUME NEW i \in 1..Len(stack'), i < Len(stack')
      PROVE  stack'[i].saved = Held(i - 1)'
  <2>1. i \in 1..Len(stack) /\ i - 1 \in 0..n
    BY <1>1, <1>7, <1>n
  <2>2. stack[i].saved = Held(i - 1)
    BY <2>1 DEF SavedCounts
  <2> QED
    BY <1>1, <1>2, <1>n, <2>1, <2>2
<1>8. Top'.kept = 0
  BY <1>1 DEF Top
<1> QED
  BY <1>4, <1>6, <1>7, <1>8 DEF SavedCounts

\* Every step keeps the count right.
LEMMA CountStep == IInv /\ SavedCounts /\ [Next]_vars => SavedCounts'
<1> SUFFICES ASSUME IInv, SavedCounts, [Next]_vars PROVE SavedCounts'
  OBVIOUS
<1>0. TypeOK /\ EveryCallRuns
  BY DEF IInv
<1>a. stack # <<>> => /\ Top \in Frames /\ Top.kept \in Nat
                      /\ Len(stack) \in Nat \ {0} /\ Top = stack[Len(stack)]
                      /\ Held(Len(stack)) = Held(Len(stack) - 1) + Top.kept
                      /\ Held(Len(stack) - 1) \in Nat
  BY <1>0, TopIsAFrame, HeldByTop DEF TypeOK, Frames
<1>b. /\ node_count = value + Held(Len(stack)) /\ value \in Nat
      /\ node_count \in Nat
  BY <1>0 DEF SavedCounts, SurvivorsCounted, TypeOK
<1>c. mode \in {"build", "return"} /\ stack # <<>> =>
        Top.saved = Held(Len(stack) - 1)
  BY <1>a DEF SavedCounts
<1>1. CASE DeadlineExceeded
  <2>1. /\ mode = "dispatch" /\ mode' = "raised" /\ stack' = <<>>
        /\ UNCHANGED value
        /\ node_count' = IF stack = <<>> THEN node_count ELSE stack[1].saved
    BY <1>1 DEF DeadlineExceeded
  <2>2. value = 0 /\ Held(Len(stack))' = 0
    BY <2>1, HeldByNone DEF SavedCounts
  <2>3. node_count' = 0
    <3>1. CASE stack = <<>>
      BY <1>b, <2>1, <2>2, <3>1, HeldByNone
    <3>2. CASE stack # <<>>
      <4>1. 1 \in 1..Len(stack) /\ 1 - 1 = 0
        BY <1>a, <3>2
      <4>2. stack[1].saved = Held(1 - 1)
        BY <2>1, <4>1 DEF SavedCounts
      <4> QED
        BY <2>1, <3>2, <4>1, <4>2, HeldByNone
    <3> QED
      BY <3>1, <3>2
  <2> QED
    BY <2>1, <2>2, <2>3 DEF SavedCounts, SurvivorsCounted
<1>2. CASE Dispatch
  <2> DEFINE eligible == Eligible(request, Len(stack))
             frame == [request |-> request, todo |-> eligible,
                       builder |-> "none", asked |-> 0, kept |-> 0,
                       lost |-> FALSE, saved |-> 0]
  <2>1. mode = "dispatch" /\ value = 0 /\ UNCHANGED node_count
    BY <1>2 DEF Dispatch, SavedCounts
  <2>2. CASE eligible = {}
    <3>1. UNCHANGED stack /\ mode' = "return" /\ value' = value
      BY <1>2, <2>1, <2>2 DEF Dispatch
    <3> QED
      BY <2>1, <3>1 DEF SavedCounts, SurvivorsCounted, Held, Top
  <2>3. CASE eligible # {}
    <3>1. mode' = "choose" /\ UNCHANGED value /\ stack' = Append(stack, frame)
      BY <1>2, <2>3 DEF Dispatch
    <3>2. eligible \subseteq Builders
      BY <1>0, EligibleBuilders DEF TypeOK
    <3>3. frame \in Frames /\ frame.kept = 0
      BY <1>0, <3>2 DEF TypeOK, Frames
    <3> HIDE DEF frame
    <3> QED
      BY <2>1, <3>1, <3>3, PushCounts
  <2> QED
    BY <2>2, <2>3
<1>3. CASE EnterBuilder
  <2>1. PICK b \in Top.todo :
          SetTop([Top EXCEPT !.todo = @ \ {b}, !.builder = b, !.asked = 0,
                             !.kept = 0, !.lost = FALSE, !.saved = node_count])
    BY <1>3 DEF EnterBuilder
  <2> DEFINE frame == [Top EXCEPT !.todo = @ \ {b}, !.builder = b, !.asked = 0,
                                  !.kept = 0, !.lost = FALSE, !.saved = node_count]
  <2>2. /\ mode = "choose" /\ mode' = "build" /\ stack # <<>>
        /\ UNCHANGED <<value, node_count>>
    BY <1>0, <1>3 DEF EnterBuilder, EveryCallRuns
  <2>3. /\ frame \in Frames /\ frame.saved = node_count /\ frame.kept = 0
    BY <1>0, <1>a, <2>2 DEF Frames, TypeOK
  <2>4. value = 0 /\ node_count = Held(Len(stack) - 1)
    BY <1>a, <1>b, <2>2 DEF SavedCounts
  <2> HIDE DEF frame
  <2>5. node_count' = Held(Len(stack) - 1) + frame.kept /\ SetTop(frame)
    BY <1>b, <2>1, <2>2, <2>3, <2>4 DEF frame
  <2> QED
    BY <2>2, <2>3, <2>4, <2>5, TopCounts
<1>4. CASE NoBuilderLeft
  <2>1. /\ mode = "choose" /\ mode' = "return" /\ value' = 0 /\ stack' = Pop
        /\ UNCHANGED node_count /\ stack # <<>>
    BY <1>0, <1>4 DEF NoBuilderLeft, EveryCallRuns
  <2>2. value = 0 /\ Top.kept = 0
    BY <2>1 DEF SavedCounts
  <2>3. node_count' = Held(Len(stack) - 1) + value'
    BY <1>a, <1>b, <2>1, <2>2
  <2> QED
    BY <2>1, <2>3, PopCounts
<1>5. CASE AskForChild
  <2> DEFINE frame == [Top EXCEPT !.asked = @ + 1]
  <2>1. /\ mode = "build" /\ mode' = "dispatch" /\ SetTop(frame) /\ stack # <<>>
        /\ UNCHANGED <<value, node_count>>
    BY <1>0, <1>5 DEF AskForChild, EveryCallRuns
  <2>2. /\ frame \in Frames /\ frame.saved = Top.saved /\ frame.kept = Top.kept
    BY <1>a, <2>1 DEF Frames
  <2>3. value = 0
    BY <2>1 DEF SavedCounts
  <2> HIDE DEF frame
  <2>4. node_count' = Held(Len(stack) - 1) + frame.kept
    BY <1>a, <1>b, <2>1, <2>2, <2>3
  <2> QED
    BY <1>c, <2>1, <2>2, <2>3, <2>4, TopCounts
<1>6. CASE ReceiveChild
  <2> DEFINE frame == [Top EXCEPT !.kept = @ + value, !.lost = @ \/ value = 0]
  <2>1. /\ mode = "return" /\ mode' = "build" /\ SetTop(frame) /\ stack # <<>>
        /\ value' = 0 /\ UNCHANGED node_count
    BY <1>6 DEF ReceiveChild
  <2>2. /\ frame \in Frames /\ frame.saved = Top.saved
        /\ frame.kept = Top.kept + value
    <3>1. PICK k \in Nat : k = Top.kept + value
      BY <1>a, <1>b, <2>1
    <3>2. /\ [Top EXCEPT !.kept = k, !.lost = @ \/ value = 0] \in Frames
          /\ frame = [Top EXCEPT !.kept = k, !.lost = @ \/ value = 0]
      BY <1>a, <2>1, <3>1 DEF Frames
    <3> QED
      BY <1>a, <2>1, <3>1, <3>2 DEF Frames
  <2> HIDE DEF frame
  <2>3. node_count' = Held(Len(stack) - 1) + frame.kept
    BY <1>a, <1>b, <2>1, <2>2
  <2> QED
    BY <1>c, <2>1, <2>2, <2>3, TopCounts
<1>7. CASE Succeed
  <2>1. /\ mode = "build" /\ mode' = "return" /\ stack' = Pop /\ stack # <<>>
        /\ value' = Top.kept + 1 /\ node_count' = node_count + 1
    BY <1>0, <1>7 DEF Succeed, EveryCallRuns
  <2>2. value = 0
    BY <2>1 DEF SavedCounts
  <2>3. value' \in Nat /\ node_count' = Held(Len(stack) - 1) + value'
    BY <1>a, <1>b, <2>1, <2>2
  <2> QED
    BY <2>1, <2>3, PopCounts
<1>8. CASE Decline
  <2> DEFINE frame == [Top EXCEPT !.builder = "none", !.kept = 0, !.lost = FALSE]
  <2>1. /\ mode = "build" /\ mode' = "choose" /\ SetTop(frame) /\ stack # <<>>
        /\ node_count' = Top.saved /\ UNCHANGED value
    BY <1>0, <1>8 DEF Decline, EveryCallRuns
  <2>2. frame \in Frames /\ frame.kept = 0
    BY <1>a, <2>1 DEF Frames
  <2>3. value = 0
    BY <2>1 DEF SavedCounts
  <2> HIDE DEF frame
  <2>4. node_count' = Held(Len(stack) - 1) + frame.kept
    BY <1>a, <1>c, <2>1, <2>2
  <2> QED
    BY <2>1, <2>2, <2>3, <2>4, TopCounts
<1>9. CASE Finish \/ Ended \/ UNCHANGED vars
  <2>1. /\ UNCHANGED <<stack, value, node_count>>
        /\ mode' = mode \/ (mode' = "done" /\ stack = <<>>)
    BY <1>9 DEF Finish, Ended, vars
  <2>2. mode' = "done" /\ stack = <<>> => 1..Len(stack') = {}
    BY <2>1
  <2> QED
    BY <2>1, <2>2 DEF SavedCounts, SurvivorsCounted, Held, Top
<1> QED
  BY <1>1, <1>2, <1>3, <1>4, <1>5, <1>6, <1>7, <1>8, <1>9 DEF Next, Step

\* Whatever was built, dropped and rolled back: node_count is the number of nodes
\* in the trees that survive, for every configuration, so the node budget stops
\* the growth of the tree and nothing else.
THEOREM CountIsOfSurvivors == Spec => []SurvivorsCounted
<1>1. Init => SavedCounts
  BY HeldByNone DEF Init, SavedCounts, SurvivorsCounted
<1>2. IInv /\ SavedCounts /\ [Next]_vars => SavedCounts'
  BY CountStep
<1>3. SavedCounts => SurvivorsCounted
  BY DEF SavedCounts
<1> QED
  BY <1>1, <1>2, <1>3, GenerationInvariant, PTL DEF Spec
-----------------------------------------------------------------------------
(* The budgets.  First, that a call is for what its builder asked for.        *)

\* A leaf is the only child of the builder that asks for it, and the first.
LEMMA LeafIsTheOnlyChild ==
  ASSUME LeavesAreOnlyChildren, NEW frame \in Frames, frame.builder \in Builders,
         Waiting(frame), Answers[Wants(frame)[frame.asked]] \cap Leaves # {}
  PROVE  /\ frame.asked = 1 /\ Len(Wants(frame)) = 1
         /\ frame.kept = 0 /\ ~frame.lost
<1>1. frame.request \in Requests /\ frame.asked \in 1..Len(Wants(frame))
  BY DEF Waiting, Frames
<1>2. Len(Wants(frame)) = 1
  BY <1>1 DEF LeavesAreOnlyChildren, Wants
<1>3. frame.asked = 1
  BY <1>1, <1>2
<1> QED
  BY <1>2, <1>3 DEF Waiting

\* What a call is for does not change while its builders take their turns.
LEMMA TopAsks ==
  ASSUME TypeOK, CallsAreAsked, stack # <<>>, NEW frame \in Frames, SetTop(frame),
         frame.request = Top.request, frame.todo \subseteq Top.todo,
         mode' \in {"choose", "build", "dispatch"},
         mode' # "choose" => frame.builder \in Answers[frame.request],
         mode' = "dispatch" =>
           Waiting(frame) /\ request' = Wants(frame)[frame.asked],
         mode' = "build" =>
           /\ frame.asked <= Len(Wants(frame))
           /\ frame.asked = 0 => frame.kept = 0 /\ ~frame.lost
  PROVE  CallsAreAsked'
<1>1. /\ Len(stack) \in Nat \ {0} /\ Len(stack') = Len(stack) /\ stack' # <<>>
      /\ stack'[Len(stack)] = frame /\ stack[Len(stack)] = Top
      /\ \A i \in 1..Len(stack) : i # Len(stack) => stack'[i] = stack[i]
  BY SettingTheTop, TopIsAFrame
<1>2. \A i \in 1..Len(stack) : stack'[i].request = stack[i].request
  BY <1>1
<1>3. ASSUME NEW i \in 1..Len(stack)
      PROVE  stack'[i].todo \subseteq Answers[stack'[i].request]
  <2>1. stack[i].todo \subseteq Answers[stack[i].request]
    BY DEF CallsAreAsked
  <2>2. stack'[i].todo \subseteq stack[i].todo
    BY <1>1
  <2> QED
    BY <1>2, <2>1, <2>2
<1>4. ASSUME NEW i \in 1..Len(stack), i < Len(stack) \/ mode' # "choose"
      PROVE  stack'[i].builder \in Answers[stack'[i].request]
  <2>1. CASE i = Len(stack)
    BY <1>1, <1>4, <2>1
  <2>2. CASE i # Len(stack)
    <3>1. i < Len(stack) /\ stack'[i] = stack[i]
      BY <1>1, <2>2
    <3> QED
      BY <3>1 DEF CallsAreAsked
  <2> QED
    BY <2>1, <2>2
<1>5. ASSUME NEW i \in 1..Len(stack), i < Len(stack) \/ mode' \in {"dispatch", "return"}
      PROVE  Waiting(stack'[i])
  <2>1. CASE i = Len(stack)
    BY <1>1, <1>5, <2>1
  <2>2. CASE i # Len(stack)
    <3>1. i < Len(stack) /\ stack'[i] = stack[i]
      BY <1>1, <2>2
    <3> QED
      BY <3>1 DEF CallsAreAsked
  <2> QED
    BY <2>1, <2>2
<1>6. ASSUME NEW i \in 1..Len(stack), i < Len(stack)
      PROVE  stack'[i + 1].request = Wants(stack'[i])[stack'[i].asked]
  <2>1. /\ stack'[i] = stack[i] /\ i + 1 \in 1..Len(stack)
        /\ stack[i + 1].request = Wants(stack[i])[stack[i].asked]
    BY <1>1, <1>6 DEF CallsAreAsked
  <2> QED
    BY <1>2, <2>1
<1>7. Top' = frame /\ Wanted' = Wants(frame)
  BY <1>1 DEF Top, Wanted, Wants
<1>8. \A i \in 1..Len(stack') :
        /\ stack'[i].todo \subseteq Answers[stack'[i].request]
        /\ i < Len(stack') \/ mode' # "choose" =>
             stack'[i].builder \in Answers[stack'[i].request]
        /\ i < Len(stack') \/ mode' \in {"dispatch", "return"} => Waiting(stack'[i])
        /\ i < Len(stack') =>
             stack'[i + 1].request = Wants(stack'[i])[stack'[i].asked]
  BY <1>1, <1>3, <1>4, <1>5, <1>6
<1>9. mode' = "build" => /\ Top'.asked <= Len(Wanted')
                         /\ Top'.asked = 0 => Top'.kept = 0 /\ ~Top'.lost
  BY <1>7
<1>10. mode' = "dispatch" => request' = Wanted'[Top'.asked]
  BY <1>7
<1> QED
  BY <1>1, <1>8, <1>9, <1>10 DEF CallsAreAsked, Waiting, Wants

\* A builder whose call ended is still waiting until it hears of the child.
LEMMA PopAsks ==
  ASSUME TypeOK, CallsAreAsked, stack # <<>>, stack' = Pop, mode' = "return"
  PROVE  CallsAreAsked'
<1>1. /\ Len(stack) \in Nat \ {0} /\ Len(stack') = Len(stack) - 1
      /\ \A i \in 1..(Len(stack) - 1) : stack'[i] = stack[i]
  BY Popping, TopIsAFrame
<1>2. ASSUME NEW i \in 1..Len(stack')
      PROVE  /\ stack'[i].todo \subseteq Answers[stack'[i].request]
             /\ stack'[i].builder \in Answers[stack'[i].request]
             /\ Waiting(stack'[i])
             /\ i < Len(stack') =>
                  stack'[i + 1].request = Wants(stack'[i])[stack'[i].asked]
  <2>1. i \in 1..Len(stack) /\ i < Len(stack) /\ stack'[i] = stack[i]
    BY <1>1
  <2>2. i < Len(stack') => stack'[i + 1] = stack[i + 1]
    BY <1>1
  <2> QED
    BY <2>1, <2>2 DEF CallsAreAsked
<1> QED
  BY <1>2 DEF CallsAreAsked, Waiting, Wants

\* A call begins for what was asked for.
LEMMA PushAsks ==
  ASSUME TypeOK, CallsAreAsked, mode = "dispatch", mode' = "choose",
         NEW frame \in Frames, stack' = Append(stack, frame),
         frame.request = request, frame.todo \subseteq Answers[request]
  PROVE  CallsAreAsked'
<1>1. /\ Len(stack) \in Nat /\ Len(stack') = Len(stack) + 1
      /\ stack'[Len(stack) + 1] = frame
      /\ \A i \in 1..Len(stack) : stack'[i] = stack[i]
  BY Pushing DEF TypeOK
<1>2. ASSUME NEW i \in 1..Len(stack)
      PROVE  /\ stack'[i].todo \subseteq Answers[stack'[i].request]
             /\ stack'[i].builder \in Answers[stack'[i].request]
             /\ Waiting(stack'[i])
             /\ stack'[i + 1].request = Wants(stack'[i])[stack'[i].asked]
  <2>1. /\ stack[i].todo \subseteq Answers[stack[i].request]
        /\ stack[i].builder \in Answers[stack[i].request]
        /\ Waiting(stack[i])
        /\ i < Len(stack) =>
             stack[i + 1].request = Wants(stack[i])[stack[i].asked]
    BY DEF CallsAreAsked
  <2>2. CASE i < Len(stack)
    <3>1. stack'[i] = stack[i] /\ stack'[i + 1] = stack[i + 1]
      BY <1>1, <2>2
    <3> QED
      BY <2>1, <2>2, <3>1
  <2>3. CASE i = Len(stack)
    <3>1. stack # <<>> /\ stack[i] = Top /\ stack'[i] = stack[i]
      BY <1>1, <2>3 DEF Top, TypeOK
    <3>2. request = Wants(stack[i])[stack[i].asked]
      BY <3>1 DEF CallsAreAsked, Wanted, Wants
    <3>3. stack'[i + 1] = frame
      BY <1>1, <2>3
    <3> QED
      BY <2>1, <3>1, <3>2, <3>3
  <2> QED
    BY <1>1, <2>2, <2>3
<1>3. \A i \in 1..Len(stack') :
        /\ stack'[i].todo \subseteq Answers[stack'[i].request]
        /\ i < Len(stack') \/ mode' # "choose" =>
             stack'[i].builder \in Answers[stack'[i].request]
        /\ i < Len(stack') \/ mode' \in {"dispatch", "return"} => Waiting(stack'[i])
        /\ i < Len(stack') =>
             stack'[i + 1].request = Wants(stack'[i])[stack'[i].asked]
  <2> SUFFICES ASSUME NEW i \in 1..Len(stack')
               PROVE  /\ stack'[i].todo \subseteq Answers[stack'[i].request]
                      /\ i < Len(stack') =>
                           /\ stack'[i].builder \in Answers[stack'[i].request]
                           /\ Waiting(stack'[i])
                           /\ stack'[i + 1].request =
                                Wants(stack'[i])[stack'[i].asked]
    OBVIOUS
  <2>1. i \in 1..Len(stack) \/ i = Len(stack) + 1
    BY <1>1
  <2>2. CASE i = Len(stack) + 1
    BY <1>1, <2>2
  <2> QED
    BY <1>2, <2>1, <2>2
<1> QED
  BY <1>3 DEF CallsAreAsked, Waiting, Wants

\* What each step makes of the innermost call.
LEMMA Entering ==
  ASSUME TypeOK, stack # <<>>, EnterBuilder
  PROVE  \E frame \in Frames :
           /\ SetTop(frame) /\ frame.request = Top.request
           /\ frame.todo \subseteq Top.todo /\ frame.builder \in Top.todo
           /\ frame.builder \notin frame.todo
           /\ frame.asked = 0 /\ frame.kept = 0 /\ ~frame.lost
<1>1. PICK b \in Top.todo :
        SetTop([Top EXCEPT !.todo = @ \ {b}, !.builder = b, !.asked = 0,
                           !.kept = 0, !.lost = FALSE, !.saved = node_count])
  BY DEF EnterBuilder
<1> DEFINE frame == [Top EXCEPT !.todo = @ \ {b}, !.builder = b, !.asked = 0,
                                !.kept = 0, !.lost = FALSE, !.saved = node_count]
<1>2. /\ frame \in Frames /\ frame.request = Top.request
      /\ frame.todo \subseteq Top.todo /\ frame.builder = b /\ b \notin frame.todo
      /\ frame.asked = 0 /\ frame.kept = 0 /\ frame.lost = FALSE
  BY TopIsAFrame DEF Frames, TypeOK
<1>3. SetTop(frame)
  BY <1>1
<1> HIDE DEF frame
<1> QED
  BY <1>2, <1>3

LEMMA Asking ==
  ASSUME TypeOK, stack # <<>>, AskForChild
  PROVE  \E frame \in Frames :
           /\ SetTop(frame) /\ frame.request = Top.request
           /\ frame.todo = Top.todo /\ frame.builder = Top.builder
           /\ frame.asked = Top.asked + 1 /\ frame.kept = Top.kept
           /\ frame.lost = Top.lost
<1> DEFINE frame == [Top EXCEPT !.asked = @ + 1]
<1>1. /\ frame \in Frames /\ frame.request = Top.request
      /\ frame.todo = Top.todo /\ frame.builder = Top.builder
      /\ frame.asked = Top.asked + 1 /\ frame.kept = Top.kept
      /\ frame.lost = Top.lost
  BY TopIsAFrame DEF Frames
<1>2. SetTop(frame)
  BY DEF AskForChild
<1> HIDE DEF frame
<1> QED
  BY <1>1, <1>2

LEMMA Receiving ==
  ASSUME TypeOK, stack # <<>>, ReceiveChild
  PROVE  \E frame \in Frames :
           /\ SetTop(frame) /\ frame.request = Top.request
           /\ frame.todo = Top.todo /\ frame.builder = Top.builder
           /\ frame.asked = Top.asked /\ frame.kept = Top.kept + value
           /\ frame.lost => Top.lost \/ value = 0
<1>1. Top \in Frames /\ Top.kept \in Nat /\ value \in Nat
  BY TopIsAFrame DEF Frames, TypeOK
<1>2. PICK k \in Nat : k = Top.kept + value
  BY <1>1
<1>3. PICK l \in BOOLEAN : l = (Top.lost \/ value = 0)
  OBVIOUS
<1> DEFINE frame == [Top EXCEPT !.kept = k, !.lost = l]
<1>4. /\ frame \in Frames /\ frame.request = Top.request
      /\ frame.todo = Top.todo /\ frame.builder = Top.builder
      /\ frame.asked = Top.asked /\ frame.kept = k /\ frame.lost = l
  BY <1>1 DEF Frames
<1>5. SetTop(frame)
  <2>1. SetTop([Top EXCEPT !.kept = @ + value, !.lost = @ \/ value = 0])
    BY DEF ReceiveChild
  <2> QED
    BY <1>2, <1>3, <2>1
<1> HIDE DEF frame
<1> QED
  BY <1>2, <1>3, <1>4, <1>5

LEMMA Declining ==
  ASSUME TypeOK, stack # <<>>, Decline
  PROVE  \E frame \in Frames :
           /\ SetTop(frame) /\ frame.request = Top.request
           /\ frame.todo = Top.todo /\ frame.kept = 0 /\ frame.builder = "none"
<1> DEFINE frame == [Top EXCEPT !.builder = "none", !.kept = 0, !.lost = FALSE]
<1>1. /\ frame \in Frames /\ frame.request = Top.request
      /\ frame.todo = Top.todo /\ frame.kept = 0 /\ frame.builder = "none"
  BY TopIsAFrame DEF Frames
<1>2. SetTop(frame)
  BY DEF Decline
<1> HIDE DEF frame
<1> QED
  BY <1>1, <1>2

LEMMA Dispatching ==
  ASSUME IInv, Dispatch, Eligible(request, Len(stack)) # {}
  PROVE  \E frame \in Frames :
           /\ stack' = Append(stack, frame) /\ frame.request = request
           /\ frame.todo = Eligible(request, Len(stack)) /\ frame.kept = 0
           /\ frame.builder = "none"
           /\ mode' = "choose" /\ UNCHANGED value
<1> DEFINE frame == [request |-> request, todo |-> Eligible(request, Len(stack)),
                     builder |-> "none", asked |-> 0, kept |-> 0, lost |-> FALSE,
                     saved |-> 0]
<1>1. Eligible(request, Len(stack)) \subseteq Builders /\ request \in Requests
  BY EligibleBuilders DEF IInv, TypeOK
<1>2. /\ frame \in Frames /\ frame.request = request /\ frame.kept = 0
      /\ frame.builder = "none"
      /\ frame.todo = Eligible(request, Len(stack))
  BY <1>1 DEF Frames
<1>3. stack' = Append(stack, frame) /\ mode' = "choose" /\ UNCHANGED value
  BY DEF Dispatch
<1> HIDE DEF frame
<1> QED
  BY <1>2, <1>3

\* Every step keeps the calls to what was asked for.
LEMMA AskedStep == IInv /\ CallsAreAsked /\ [Next]_vars => CallsAreAsked'
<1> SUFFICES ASSUME IInv, CallsAreAsked, [Next]_vars PROVE CallsAreAsked'
  OBVIOUS
<1>0. TypeOK /\ EveryCallRuns
  BY DEF IInv
<1>a. stack # <<>> => /\ Len(stack) \in Nat \ {0} /\ Len(stack) \in 1..Len(stack)
                      /\ Top \in Frames /\ Top.asked \in Nat
                      /\ Top = stack[Len(stack)] /\ Wanted = Wants(Top)
                      /\ Top.todo \subseteq Answers[Top.request]
                      /\ Top.request \in Requests
  BY <1>0, TopIsAFrame DEF Frames, Wanted, Wants, CallsAreAsked
<1>b. stack # <<>> /\ mode # "choose" =>
        Top.builder \in Builders /\ Top.builder \in Answers[Top.request]
  BY <1>0, <1>a DEF EveryCallRuns, CallsAreAsked
<1>c. stack # <<>> /\ mode # "choose" => Len(Wanted) \in Nat
  BY <1>a, <1>b, FactoryAssumption DEF Wanted
<1>1. CASE DeadlineExceeded
  BY <1>1 DEF DeadlineExceeded, CallsAreAsked
<1>2. CASE Dispatch
  <2>1. CASE Eligible(request, Len(stack)) = {}
    <3>1. UNCHANGED stack /\ mode = "dispatch" /\ mode' = "return"
      BY <1>2, <2>1 DEF Dispatch
    <3> QED
      BY <3>1 DEF CallsAreAsked, Waiting, Wants
  <2>2. CASE Eligible(request, Len(stack)) # {}
    <3>1. PICK frame \in Frames :
            /\ stack' = Append(stack, frame) /\ frame.request = request
            /\ frame.todo = Eligible(request, Len(stack)) /\ mode' = "choose"
      BY <1>2, <2>2, Dispatching
    <3>2. frame.todo \subseteq Answers[request] /\ mode = "dispatch"
      BY <1>2, <3>1 DEF Eligible, Dispatch
    <3> QED
      BY <1>0, <3>1, <3>2, PushAsks
  <2> QED
    BY <2>1, <2>2
<1>3. CASE EnterBuilder
  <2>1. mode = "choose" /\ mode' = "build" /\ stack # <<>>
    BY <1>0, <1>3 DEF EnterBuilder, EveryCallRuns
  <2>2. PICK frame \in Frames :
          /\ SetTop(frame) /\ frame.request = Top.request
          /\ frame.todo \subseteq Top.todo /\ frame.builder \in Top.todo
          /\ frame.asked = 0 /\ frame.kept = 0 /\ ~frame.lost
    BY <1>0, <1>3, <2>1, Entering
  <2>3. frame.builder \in Answers[frame.request] /\ frame.builder \in Builders
    BY <1>a, <2>1, <2>2 DEF Frames
  <2>4. 0 <= Len(Wants(frame))
    BY <2>3, FactoryAssumption DEF Wants, Frames
  <2> QED
    BY <1>0, <2>1, <2>2, <2>3, <2>4, TopAsks
<1>4. CASE NoBuilderLeft \/ Succeed
  <2>1. stack # <<>> /\ stack' = Pop /\ mode' = "return"
    BY <1>0, <1>4 DEF NoBuilderLeft, Succeed, EveryCallRuns
  <2> QED
    BY <1>0, <2>1, PopAsks
<1>5. CASE AskForChild
  <2>1. /\ mode = "build" /\ mode' = "dispatch" /\ stack # <<>>
        /\ request' = Wanted[Top.asked + 1] /\ Top.asked < Len(Wanted)
    BY <1>0, <1>5 DEF AskForChild, AsksOn, EveryCallRuns
  <2>2. PICK frame \in Frames :
          /\ SetTop(frame) /\ frame.request = Top.request
          /\ frame.todo = Top.todo /\ frame.builder = Top.builder
          /\ frame.asked = Top.asked + 1 /\ frame.kept = Top.kept
          /\ frame.lost = Top.lost
    BY <1>0, <1>5, <2>1, Asking
  <2>3. Wants(frame) = Wanted
    BY <2>2 DEF Wants, Wanted
  <2>4. Top.asked = 0 => Top.kept = 0 /\ ~Top.lost
    BY <2>1 DEF CallsAreAsked
  <2>5. frame.asked \in 1..Len(Wanted) /\ (frame.asked = 1 => Top.asked = 0)
    BY <1>a, <1>c, <2>1, <2>2
  <2>6. Waiting(frame)
    BY <2>2, <2>3, <2>4, <2>5 DEF Waiting
  <2> QED
    BY <1>0, <1>b, <2>1, <2>2, <2>3, <2>6, TopAsks
<1>6. CASE ReceiveChild
  <2>1. mode = "return" /\ mode' = "build" /\ stack # <<>>
    BY <1>6 DEF ReceiveChild
  <2>2. PICK frame \in Frames :
          /\ SetTop(frame) /\ frame.request = Top.request
          /\ frame.todo = Top.todo /\ frame.builder = Top.builder
          /\ frame.asked = Top.asked
    BY <1>0, <1>6, <2>1, Receiving
  <2>3. Wants(frame) = Wants(Top)
    BY <2>2 DEF Wants
  <2>4. Waiting(Top)
    BY <1>a, <2>1 DEF CallsAreAsked
  <2>5. frame.asked <= Len(Wants(frame)) /\ frame.asked # 0
    BY <2>2, <2>3, <2>4 DEF Waiting
  <2> QED
    BY <1>0, <1>b, <2>1, <2>2, <2>5, TopAsks
<1>7. CASE Decline
  <2>1. mode' = "choose" /\ stack # <<>>
    BY <1>0, <1>7 DEF Decline, EveryCallRuns
  <2>2. PICK frame \in Frames :
          /\ SetTop(frame) /\ frame.request = Top.request /\ frame.todo = Top.todo
    BY <1>0, <1>7, <2>1, Declining
  <2> QED
    BY <1>0, <2>1, <2>2, TopAsks
<1>8. CASE Finish \/ Ended \/ UNCHANGED vars
  <2>1. CASE Finish
    BY <2>1 DEF Finish, CallsAreAsked
  <2>2. CASE Ended \/ UNCHANGED vars
    BY <2>2 DEF Ended, vars, CallsAreAsked, Waiting, Wants, Wanted, Top
  <2> QED
    BY <1>8, <2>1, <2>2
<1> QED
  BY <1>1, <1>2, <1>3, <1>4, <1>5, <1>6, <1>7, <1>8 DEF Next, Step

\* The settings are numbers, and do not change.
LEMMA SettingsStay ==
  ASSUME TypeOK, UNCHANGED settings
  PROVE  /\ max_depth \in Nat /\ max_nodes \in Nat /\ max_attempts \in Nat
         /\ max_depth' = max_depth /\ max_nodes' = max_nodes
         /\ max_attempts' = max_attempts
BY FactoryAssumption DEF TypeOK, max_depth, max_nodes, max_attempts

\* Once a budget has run out a call is only made for a leaf, and so by a builder
\* that has asked for nothing before.
LEMMA OnlyLeavesAreTried ==
  ASSUME LeavesAreOnlyChildren, IInv, CallsAreAsked, mode = "dispatch",
         stack # <<>>, Exhausted, Eligible(request, Len(stack)) # {}
  PROVE  /\ Eligible(request, Len(stack)) \subseteq Leaves
         /\ Top.kept = 0
<1>1. Eligible(request, Len(stack)) \subseteq Answers[request] \cap Leaves
  BY DEF Eligible
<1>2. /\ Top \in Frames /\ Len(stack) \in 1..Len(stack) /\ stack[Len(stack)] = Top
  BY TopIsAFrame DEF IInv
<1>3. Top.builder \in Builders /\ Waiting(Top) /\ request = Wants(Top)[Top.asked]
  BY <1>2 DEF IInv, EveryCallRuns, CallsAreAsked, Wanted, Wants
<1>4. Answers[Wants(Top)[Top.asked]] \cap Leaves # {}
  BY <1>1, <1>3
<1> QED
  BY <1>1, <1>2, <1>3, <1>4, LeafIsTheOnlyChild

\* A step on the innermost call, or its end, keeps the bound of the nodes if the
\* count does.
LEMMA TopNodes ==
  ASSUME TypeOK, NodesLeft, UNCHANGED settings, stack # <<>>,
         NEW frame \in Frames, SetTop(frame),
         max_nodes > 0 => node_count' + Len(stack) < max_nodes + max_depth
  PROVE  NodesLeft'
<1>1. /\ Len(stack') = Len(stack)
      /\ \A k \in 0..(Len(stack) - 1) : Held(k)' = Held(k)
  BY TopHolds
<1>2. max_nodes' = max_nodes /\ max_depth' = max_depth
  BY SettingsStay
<1> SUFFICES ASSUME max_nodes > 0
             PROVE  /\ \A k \in 0..(Len(stack') - 1) : Held(k)' < max_nodes
                    /\ node_count' + Len(stack') < max_nodes + max_depth
  BY <1>2 DEF NodesLeft
<1> QED
  BY <1>1 DEF NodesLeft

LEMMA PopNodes ==
  ASSUME TypeOK, NodesLeft, UNCHANGED settings, stack # <<>>, stack' = Pop,
         max_nodes > 0 => node_count' + Len(stack) - 1 < max_nodes + max_depth
  PROVE  NodesLeft'
<1>1. /\ Len(stack) \in Nat \ {0} /\ Len(stack') = Len(stack) - 1
      /\ stack \in Seq(Frames) /\ stack' \in Seq(Frames)
      /\ \A i \in 1..(Len(stack) - 1) : stack'[i] = stack[i]
  BY Popping, TopIsAFrame DEF TypeOK
<1>2. max_nodes' = max_nodes /\ max_depth' = max_depth
  BY SettingsStay
<1>3. ASSUME max_nodes > 0, NEW k \in 0..(Len(stack') - 1)
      PROVE  Held(k)' < max_nodes
  <2>1. /\ k \in Nat /\ k <= Len(stack) /\ k <= Len(stack')
        /\ k \in 0..(Len(stack) - 1)
        /\ \A i \in 1..k : stack'[i].kept = stack[i].kept
    BY <1>1
  <2>2. Held(k)' = Held(k)
    BY <1>1, <2>1, HeldAgrees
  <2> QED
    BY <1>3, <2>1, <2>2 DEF NodesLeft
<1> QED
  BY <1>1, <1>2, <1>3 DEF NodesLeft

LEMMA PushNodes ==
  ASSUME TypeOK, NodesLeft, UNCHANGED <<settings, node_count>>,
         NEW frame \in Frames, stack' = Append(stack, frame),
         Len(stack) < max_depth,
         max_nodes > 0 => node_count < max_nodes /\ Held(Len(stack)) < max_nodes
  PROVE  NodesLeft'
<1>1. /\ Len(stack) \in Nat /\ Len(stack') = Len(stack) + 1
      /\ stack \in Seq(Frames) /\ stack' \in Seq(Frames)
      /\ \A i \in 1..Len(stack) : stack'[i] = stack[i]
  BY Pushing DEF TypeOK
<1>2. /\ max_nodes \in Nat /\ max_depth \in Nat /\ node_count \in Nat
      /\ max_nodes' = max_nodes /\ max_depth' = max_depth
  BY SettingsStay DEF TypeOK
<1>3. ASSUME max_nodes > 0, NEW k \in 0..(Len(stack') - 1)
      PROVE  Held(k)' < max_nodes
  <2>1. /\ k \in Nat /\ k <= Len(stack) /\ k <= Len(stack')
        /\ k = Len(stack) \/ k \in 0..(Len(stack) - 1)
        /\ \A i \in 1..k : stack'[i].kept = stack[i].kept
    BY <1>1
  <2>2. Held(k)' = Held(k)
    BY <1>1, <2>1, HeldAgrees
  <2> QED
    BY <1>3, <2>1, <2>2 DEF NodesLeft
<1>4. max_nodes > 0 => node_count + (Len(stack) + 1) < max_nodes + max_depth
  BY <1>1, <1>2
<1> QED
  BY <1>1, <1>2, <1>3, <1>4 DEF NodesLeft

\* Every step leaves room for the nodes that are being built.
LEMMA NodesStep ==
  ASSUME LeavesAreOnlyChildren, IInv, SavedCounts, CallsAreAsked, NodesLeft,
         [Next]_vars
  PROVE  NodesLeft'
<1>0. TypeOK /\ EveryCallRuns /\ LeavesAtTheLimit
  BY DEF IInv
<1>a. /\ max_depth \in Nat /\ max_nodes \in Nat /\ node_count \in Nat
      /\ Len(stack) \in Nat /\ Len(stack) <= max_depth
  BY <1>0, FactoryAssumption DEF TypeOK, max_depth, max_nodes, LeavesAtTheLimit
<1>b. max_nodes > 0 => node_count + Len(stack) < max_nodes + max_depth
  BY DEF NodesLeft
<1>c. stack # <<>> => /\ Len(stack) \in Nat \ {0} /\ Top.kept \in Nat
                      /\ Held(Len(stack)) = Held(Len(stack) - 1) + Top.kept
                      /\ Held(Len(stack) - 1) \in Nat
                      /\ max_nodes > 0 => Held(Len(stack) - 1) < max_nodes
  BY <1>0, TopIsAFrame, HeldByTop DEF TypeOK, NodesLeft
<1>1. CASE DeadlineExceeded
  <2>1. /\ stack' = <<>> /\ UNCHANGED <<settings, value>> /\ mode = "dispatch"
    BY <1>1 DEF DeadlineExceeded
  <2>2. SavedCounts' /\ value = 0 /\ Held(Len(stack))' = 0
    BY <2>1, CountStep, HeldByNone DEF SavedCounts
  <2>3. node_count' = 0 + 0
    BY <2>1, <2>2 DEF SavedCounts, SurvivorsCounted
  <2>4. max_nodes' = max_nodes /\ max_depth' = max_depth
    BY <1>0, <2>1, SettingsStay
  <2>5. Len(stack') = 0 /\ 0..(Len(stack') - 1) = {}
    BY <2>1
  <2> QED
    BY <1>a, <2>3, <2>4, <2>5 DEF NodesLeft
<1>2. CASE Dispatch
  <2>1. mode = "dispatch" /\ UNCHANGED <<settings, node_count>> /\ request \in Requests
    BY <1>0, <1>2 DEF Dispatch, TypeOK
  <2>2. CASE Eligible(request, Len(stack)) = {}
    <3>1. UNCHANGED stack
      BY <1>2, <2>2 DEF Dispatch
    <3> QED
      BY <2>1, <3>1 DEF NodesLeft, Held, max_nodes, max_depth
  <2>3. CASE Eligible(request, Len(stack)) # {}
    <3>1. PICK frame \in Frames : stack' = Append(stack, frame)
      BY <1>2, <2>3, Dispatching
    <3>2. Len(stack) < max_depth
      BY <1>0, <1>a, <2>1, <2>3, EligibleBuilders DEF TypeOK
    <3>3. node_count = Held(Len(stack))
      <4>1. value = 0 /\ node_count = value + Held(Len(stack))
        BY <2>1 DEF SavedCounts, SurvivorsCounted
      <4>2. Held(Len(stack)) \in Nat
        <5>1. CASE stack = <<>>
          BY <5>1, HeldByNone
        <5> QED
          BY <1>c, <5>1
      <4> QED
        BY <4>1, <4>2
    <3>4. ASSUME max_nodes > 0, node_count >= max_nodes PROVE FALSE
      <4>1. stack # <<>>
        BY <1>a, <2>1, <3>4 DEF CallsAreAsked
      <4>2. Exhausted
        BY <3>4 DEF Exhausted
      <4>3. Top.kept = 0
        BY <2>1, <2>3, <4>1, <4>2, OnlyLeavesAreTried
      <4> QED
        BY <1>a, <1>c, <3>3, <3>4, <4>1, <4>3
    <3>5. max_nodes > 0 => node_count < max_nodes
      BY <1>a, <3>4
    <3> QED
      BY <1>0, <2>1, <3>1, <3>2, <3>3, <3>5, PushNodes
  <2> QED
    BY <2>2, <2>3
<1>3. CASE EnterBuilder
  <2>1. stack # <<>> /\ UNCHANGED <<settings, node_count>>
    BY <1>0, <1>3 DEF EnterBuilder, EveryCallRuns
  <2>2. PICK frame \in Frames : SetTop(frame)
    BY <1>0, <1>3, <2>1, Entering
  <2> QED
    BY <1>0, <1>b, <2>1, <2>2, TopNodes
<1>4. CASE NoBuilderLeft
  <2>1. stack # <<>> /\ UNCHANGED <<settings, node_count>> /\ stack' = Pop
    BY <1>0, <1>4 DEF NoBuilderLeft, EveryCallRuns
  <2>2. max_nodes > 0 => node_count' + Len(stack) - 1 < max_nodes + max_depth
    BY <1>a, <1>b, <2>1
  <2> QED
    BY <1>0, <2>1, <2>2, PopNodes
<1>5. CASE AskForChild
  <2>1. stack # <<>> /\ UNCHANGED <<settings, node_count>>
    BY <1>0, <1>5 DEF AskForChild, EveryCallRuns
  <2>2. PICK frame \in Frames : SetTop(frame)
    BY <1>0, <1>5, <2>1, Asking
  <2> QED
    BY <1>0, <1>b, <2>1, <2>2, TopNodes
<1>6. CASE ReceiveChild
  <2>1. stack # <<>> /\ UNCHANGED <<settings, node_count>>
    BY <1>6 DEF ReceiveChild
  <2>2. PICK frame \in Frames : SetTop(frame)
    BY <1>0, <1>6, <2>1, Receiving
  <2> QED
    BY <1>0, <1>b, <2>1, <2>2, TopNodes
<1>7. CASE Succeed
  <2>1. /\ stack # <<>> /\ UNCHANGED settings /\ node_count' = node_count + 1
        /\ stack' = Pop
    BY <1>0, <1>7 DEF Succeed, EveryCallRuns
  <2>2. max_nodes > 0 => node_count' + Len(stack) - 1 < max_nodes + max_depth
    BY <1>a, <1>b, <2>1
  <2> QED
    BY <1>0, <2>1, <2>2, PopNodes
<1>8. CASE Decline
  <2>1. /\ stack # <<>> /\ UNCHANGED settings /\ node_count' = Top.saved
        /\ mode = "build"
    BY <1>0, <1>8 DEF Decline, EveryCallRuns
  <2>2. PICK frame \in Frames : SetTop(frame)
    BY <1>0, <1>8, <2>1, Declining
  <2>3. Top.saved = Held(Len(stack) - 1)
    BY <1>c, <2>1 DEF SavedCounts, Top
  <2>4. max_nodes > 0 => node_count' + Len(stack) < max_nodes + max_depth
    BY <1>a, <1>c, <2>1, <2>3
  <2> QED
    BY <1>0, <2>1, <2>2, <2>4, TopNodes
<1>9. CASE Finish \/ Ended \/ UNCHANGED vars
  BY <1>9 DEF Finish, Ended, vars, NodesLeft, Held, max_nodes, max_depth
<1> QED
  BY <1>1, <1>2, <1>3, <1>4, <1>5, <1>6, <1>7, <1>8, <1>9 DEF Next, Step

\* A builder that is running has had its turn: it is not among those left.
LEMMA TurnsStep == IInv /\ NoSecondTurn /\ [Next]_vars => NoSecondTurn'
<1> SUFFICES ASSUME IInv, NoSecondTurn, [Next]_vars PROVE NoSecondTurn'
  OBVIOUS
<1>0. TypeOK /\ EveryCallRuns
  BY DEF IInv
<1>a. stack # <<>> =>
        /\ Len(stack) \in Nat \ {0} /\ Top \in Frames
        /\ Top.builder \notin Top.todo /\ "none" \notin Top.todo
  <2> SUFFICES ASSUME stack # <<>>
               PROVE  /\ Len(stack) \in Nat \ {0} /\ Top \in Frames
                      /\ Top.builder \notin Top.todo /\ "none" \notin Top.todo
    OBVIOUS
  <2>1. Len(stack) \in Nat \ {0} /\ Top \in Frames /\ stack[Len(stack)] = Top
    BY <1>0, TopIsAFrame
  <2>2. stack[Len(stack)].builder \notin stack[Len(stack)].todo
    BY <2>1 DEF NoSecondTurn
  <2>3. "none" \notin Top.todo
    BY <2>1, FactoryAssumption DEF Frames
  <2> QED
    BY <2>1, <2>2, <2>3
<1>b. ASSUME stack # <<>>, NEW frame \in Frames, SetTop(frame),
             frame.builder \notin frame.todo
      PROVE  NoSecondTurn'
  BY <1>0, <1>b, SettingTheTop DEF NoSecondTurn
<1>1. CASE DeadlineExceeded
  BY <1>1 DEF DeadlineExceeded, NoSecondTurn
<1>2. CASE Dispatch
  <2>1. CASE Eligible(request, Len(stack)) = {}
    BY <1>2, <2>1 DEF Dispatch, NoSecondTurn
  <2>2. CASE Eligible(request, Len(stack)) # {}
    <3>1. PICK frame \in Frames :
            stack' = Append(stack, frame) /\ frame.builder = "none"
      BY <1>2, <2>2, Dispatching
    <3>2. "none" \notin frame.todo
      BY FactoryAssumption DEF Frames
    <3>3. /\ Len(stack') = Len(stack) + 1 /\ stack'[Len(stack) + 1] = frame
          /\ \A i \in 1..Len(stack) : stack'[i] = stack[i]
          /\ Len(stack) \in Nat
      BY <1>0, <3>1, Pushing DEF TypeOK
    <3> QED
      BY <3>1, <3>2, <3>3 DEF NoSecondTurn
  <2> QED
    BY <2>1, <2>2
<1>3. CASE EnterBuilder
  <2>1. stack # <<>>
    BY <1>0, <1>3 DEF EnterBuilder, EveryCallRuns
  <2> QED
    BY <1>0, <1>3, <1>b, <2>1, Entering
<1>4. CASE NoBuilderLeft \/ Succeed
  <2>1. stack # <<>> /\ stack' = Pop
    BY <1>0, <1>4 DEF NoBuilderLeft, Succeed, EveryCallRuns
  <2> QED
    BY <1>0, <1>a, <2>1, Popping DEF NoSecondTurn
<1>5. CASE AskForChild
  <2>1. stack # <<>>
    BY <1>0, <1>5 DEF AskForChild, EveryCallRuns
  <2> QED
    BY <1>0, <1>5, <1>a, <1>b, <2>1, Asking
<1>6. CASE ReceiveChild
  <2>1. stack # <<>>
    BY <1>6 DEF ReceiveChild
  <2> QED
    BY <1>0, <1>6, <1>a, <1>b, <2>1, Receiving
<1>7. CASE Decline
  <2>1. stack # <<>>
    BY <1>0, <1>7 DEF Decline, EveryCallRuns
  <2> QED
    BY <1>0, <1>7, <1>a, <1>b, <2>1, Declining
<1>8. CASE Finish \/ Ended \/ UNCHANGED vars
  BY <1>8 DEF Finish, Ended, vars, NoSecondTurn
<1> QED
  BY <1>1, <1>2, <1>3, <1>4, <1>5, <1>6, <1>7, <1>8 DEF Next, Step

\* What a call owes is at most its share, and at least a leaf and its node.
LEMMA ShareIsANumber ==
  /\ IsFiniteSet(Dropping) /\ Dropping \subseteq Builders
  /\ Share \in Nat /\ Share >= 2 /\ Share = 2 + Cardinality(Dropping)
<1>1. Dropping \subseteq Builders
  BY FactoryAssumption DEF Dropping
<1>2. IsFiniteSet(Dropping)
  BY <1>1, FactoryAssumption, FS_Subset
<1>3. Cardinality(Dropping) \in Nat
  BY <1>2, FS_CardinalityType
<1> QED
  BY <1>1, <1>2, <1>3 DEF Share

LEMMA OwingIsAShare ==
  ASSUME NEW frame
  PROVE  Owing(frame) \in Nat /\ 2 <= Owing(frame) /\ Owing(frame) <= Share
<1> DEFINE S == (frame.todo \cup {frame.builder}) \cap Dropping
<1>1. IsFiniteSet(S) /\ Cardinality(S) <= Cardinality(Dropping)
  BY ShareIsANumber, FS_Subset
<1>2. Cardinality(S) \in Nat /\ Cardinality(Dropping) \in Nat
  BY <1>1, ShareIsANumber, FS_CardinalityType
<1>3. Owing(frame) = 2 + Cardinality(S)
  BY DEF Owing
<1> HIDE DEF S
<1> QED
  BY <1>1, <1>2, <1>3, ShareIsANumber

\* A call does not owe more as its builders have their turns.
LEMMA OwingLess ==
  ASSUME NEW f, NEW g,
         (g.todo \cup {g.builder}) \cap Dropping
           \subseteq (f.todo \cup {f.builder}) \cap Dropping
  PROVE  Owing(g) <= Owing(f)
<1> DEFINE S == (f.todo \cup {f.builder}) \cap Dropping
           T == (g.todo \cup {g.builder}) \cap Dropping
<1>1. IsFiniteSet(S) /\ T \subseteq S
  BY ShareIsANumber, FS_Subset
<1>2. Owing(f) = 2 + Cardinality(S) /\ Owing(g) = 2 + Cardinality(T)
  BY DEF Owing
<1> HIDE DEF S, T
<1>3. /\ Cardinality(T) <= Cardinality(S)
      /\ Cardinality(S) \in Nat /\ Cardinality(T) \in Nat
  BY <1>1, FS_Subset, FS_CardinalityType
<1> QED
  BY <1>2, <1>3

\* It owes a leaf less once a builder that can waste one has declined.
LEMMA OwingOneLess ==
  ASSUME NEW f \in Frames, NEW g \in Frames, g.todo = f.todo, g.builder = "none",
         f.builder \in Dropping, f.builder \notin f.todo
  PROVE  Owing(g) + 1 <= Owing(f)
<1> DEFINE S == (f.todo \cup {f.builder}) \cap Dropping
           T == (g.todo \cup {g.builder}) \cap Dropping
<1>1. IsFiniteSet(S) /\ f.builder \in S
  BY ShareIsANumber, FS_Subset
<1>2. T \subseteq S \ {f.builder}
  BY ShareIsANumber, FactoryAssumption
<1>3. Owing(f) = 2 + Cardinality(S) /\ Owing(g) = 2 + Cardinality(T)
  BY DEF Owing
<1> HIDE DEF S, T
<1>4. /\ IsFiniteSet(S \ {f.builder})
      /\ Cardinality(S \ {f.builder}) = Cardinality(S) - 1
  BY <1>1, FS_RemoveElement
<1>5. Cardinality(T) <= Cardinality(S \ {f.builder}) /\ IsFiniteSet(T)
  BY <1>2, <1>4, FS_Subset
<1>6. Cardinality(S) \in Nat /\ Cardinality(T) \in Nat
  BY <1>1, <1>5, FS_CardinalityType
<1> QED
  BY <1>3, <1>4, <1>5, <1>6

\* Shares add up.
LEMMA SharesAddUp ==
  ASSUME NEW k \in Nat
  PROVE  /\ Shares(k) \in Nat /\ Shares(1) = Share
         /\ Shares(k + 1) = Shares(k) + Share
<1>1. PICK s \in Nat : s = Share
  BY ShareIsANumber
<1>2. k * s \in Nat /\ (k + 1) * s = k * s + s /\ 1 * s = s
  OBVIOUS
<1> HIDE DEF Share
<1> QED
  BY <1>1, <1>2 DEF Shares

LEMMA SharesGrow ==
  ASSUME NEW k \in Nat, NEW n \in Nat, k <= n
  PROVE  Shares(k) <= Shares(n)
<1>1. PICK s \in Nat : s = Share
  BY ShareIsANumber
<1>2. PICK d \in Nat : n = k + d
  <2>1. n - k \in Nat /\ n = k + (n - k)
    OBVIOUS
  <2> QED
    BY <2>1
<1>3. k * s \in Nat /\ d * s \in Nat /\ (k + d) * s = k * s + d * s
  OBVIOUS
<1> HIDE DEF Share
<1> QED
  BY <1>1, <1>2, <1>3 DEF Shares

LEMMA SpentAndLimit ==
  ASSUME TypeOK, NEW k \in Nat, k <= max_depth
  PROVE  /\ Spent(k) \in Nat /\ Limit \in Nat
         /\ Spent(k + 1) = Spent(k) + Share
         /\ nodes_attempted <= Spent(k)
         /\ nodes_attempted < max_attempts => Spent(k) < Limit
<1>1. max_depth \in Nat /\ max_attempts \in Nat /\ nodes_attempted \in Nat
  BY FactoryAssumption DEF TypeOK, max_depth, max_attempts
<1>2. /\ Shares(k) \in Nat /\ Shares(max_depth) \in Nat
      /\ Shares(k + 1) = Shares(k) + Share /\ Shares(k) <= Shares(max_depth)
  BY <1>1, SharesAddUp, SharesGrow
<1>3. Share \in Nat
  BY ShareIsANumber
<1> QED
  BY <1>1, <1>2, <1>3 DEF Spent, Limit

\* A call that ends leaves its share to the builder that hears of it.
LEMMA PopLeaves ==
  ASSUME TypeOK, LeavesAtTheLimit, stack # <<>>, stack' = Pop, UNCHANGED settings,
         nodes_attempted' \in Nat,
         nodes_attempted' + Shares(Len(stack)) <= Limit
  PROVE  AttemptsLeft'
<1>1. /\ Len(stack) \in Nat \ {0} /\ Len(stack') = Len(stack) - 1
      /\ stack' \in Seq(Frames)
  BY Popping, TopIsAFrame
<1>2. max_depth' = max_depth /\ max_attempts' = max_attempts
  BY SettingsStay
<1>3. Limit' = Limit
  BY <1>2 DEF Limit
<1>4. CASE stack' = <<>>
  <2>1. Len(stack) = 1
    BY <1>1, <1>4
  <2>2. Spent(1)' <= Limit'
    BY <1>3, <2>1 DEF Spent, Shares
  <2> QED
    BY <1>4, <2>2 DEF AttemptsLeft
<1>5. CASE stack' # <<>>
  <2>1. PICK k \in Nat : k = Len(stack') /\ k + 1 = Len(stack)
    BY <1>1
  <2>2. Shares(k) \in Nat /\ Shares(k + 1) = Shares(k) + Share /\ Share \in Nat
    BY SharesAddUp, ShareIsANumber
  <2>3. Limit \in Nat
    <3>1. max_attempts \in Nat /\ max_depth \in Nat
      BY SettingsStay
    <3>2. Shares(max_depth) \in Nat
      BY <3>1, SharesAddUp
    <3> QED
      BY <3>1, <3>2 DEF Limit
  <2>4. Owing(Top') \in Nat /\ Owing(Top') <= Share
    BY OwingIsAShare
  <2>5. nodes_attempted' + Shares(k) + Owing(Top') <= Limit
    BY <2>1, <2>2, <2>3, <2>4
  <2>6. (Spent(Len(stack)) + Owing(Top))' <= Limit'
    BY <1>3, <2>1, <2>5 DEF Spent, Owing
  <2> QED
    BY <1>5, <2>6 DEF AttemptsLeft
<1> QED
  BY <1>4, <1>5

\* A call that begins once the attempts have run out is for a leaf.
LEMMA DispatchLeaves ==
  ASSUME LeavesAreOnlyChildren, IInv, CallsAreAsked, AttemptsLeft, Dispatch
  PROVE  AttemptsLeft'
<1>0. TypeOK
  BY DEF IInv
<1>1. /\ mode = "dispatch" /\ UNCHANGED <<settings, nodes_attempted>>
      /\ max_depth \in Nat /\ max_attempts \in Nat /\ nodes_attempted \in Nat
      /\ max_depth' = max_depth /\ max_attempts' = max_attempts
      /\ Len(stack) \in Nat
  BY <1>0, SettingsStay DEF Dispatch, TypeOK
<1>2. ~Completing /\ ~LeafTried
  BY <1>1 DEF Completing, LeafTried
<1>3. Limit' = Limit
  BY <1>1 DEF Limit
<1> SUFFICES ASSUME max_attempts > 0, nodes_attempted >= max_attempts
             PROVE  \/ stack' # <<>> /\ (Spent(Len(stack)) + Owing(Top))' <= Limit'
                    \/ /\ LeafTried'
                       /\ (Spent(Len(stack) - 1) + Owing(stack[Len(stack) - 1]))'
                            <= Limit'
  BY <1>1 DEF AttemptsLeft
<1>4. stack # <<>>
  BY <1>1 DEF CallsAreAsked
<1>5. Spent(Len(stack)) + Owing(Top) <= Limit
  BY <1>2, <1>4 DEF AttemptsLeft
<1>6. CASE Eligible(request, Len(stack)) = {}
  <2>1. UNCHANGED stack
    BY <1>6 DEF Dispatch
  <2> QED
    BY <1>1, <1>3, <1>4, <1>5, <2>1 DEF Spent, Owing, Top, Shares, Share, Dropping
<1>7. CASE Eligible(request, Len(stack)) # {}
  <2>1. PICK frame \in Frames :
          /\ stack' = Append(stack, frame) /\ mode' = "choose"
          /\ frame.todo = Eligible(request, Len(stack))
    BY <1>7, Dispatching
  <2>2. /\ Len(stack') = Len(stack) + 1 /\ stack'[Len(stack) + 1] = frame
        /\ \A i \in 1..Len(stack) : stack'[i] = stack[i]
    BY <1>0, <2>1, Pushing
  <2>3. Exhausted
    BY DEF Exhausted
  <2>4. frame.todo \subseteq Leaves
    BY <1>1, <1>4, <1>7, <2>1, <2>3, OnlyLeavesAreTried
  <2>5. Len(stack) >= 1 /\ stack'[Len(stack)] = Top
    BY <1>0, <1>4, <2>2, TopIsAFrame
  <2>6. LeafTried'
    BY <1>1, <2>1, <2>2, <2>4, <2>5 DEF LeafTried, Top
  <2>7. Len(stack') - 1 = Len(stack)
    BY <1>1, <2>2
  <2>8. (Spent(Len(stack) - 1) + Owing(stack[Len(stack) - 1]))' <= Limit'
    BY <1>1, <1>3, <1>5, <2>5, <2>7 DEF Spent, Owing, Shares, Share, Dropping
  <2> QED
    BY <2>6, <2>8
<1> QED
  BY <1>6, <1>7

\* The turns of the builders and the children they ask for and hear of attempt
\* nothing; one that declines over its child can waste no other leaf.
LEMMA TopLeaves ==
  ASSUME TypeOK, AttemptsLeft, stack # <<>>, NEW frame \in Frames, SetTop(frame),
         UNCHANGED <<settings, nodes_attempted>>,
         Owing(frame) <= Owing(Top),
         Completing => Completing' \/ Owing(frame) + 1 <= Owing(Top),
         LeafTried => LeafTried'
  PROVE  AttemptsLeft'
<1>1. /\ Len(stack') = Len(stack) /\ stack' # <<>> /\ stack'[Len(stack)] = frame
      /\ Top' = frame /\ Len(stack) \in Nat \ {0}
      /\ \A i \in 1..Len(stack) : i # Len(stack) => stack'[i] = stack[i]
  BY SettingTheTop, TopIsAFrame DEF Top
<1>2. max_depth' = max_depth /\ max_attempts' = max_attempts
  BY SettingsStay
<1>3. Limit' = Limit /\ Spent(Len(stack))' = Spent(Len(stack))
  BY <1>1, <1>2 DEF Limit, Spent
<1>4. Owing(Top)' = Owing(frame)
  BY <1>1 DEF Owing
<1>5. Owing(frame) \in Nat /\ Owing(Top) \in Nat
  BY OwingIsAShare
<1>6. Spent(Len(stack)) \in Int /\ Limit \in Int
  <2>1. max_depth \in Nat /\ max_attempts \in Nat /\ nodes_attempted \in Nat
    BY SettingsStay DEF TypeOK
  <2>2. Shares(Len(stack)) \in Nat /\ Shares(max_depth) \in Nat
    BY <1>1, <2>1, SharesAddUp
  <2> QED
    BY <2>1, <2>2 DEF Spent, Limit
<1> SUFFICES ASSUME max_attempts > 0, nodes_attempted >= max_attempts
             PROVE  \/ (Spent(Len(stack)) + Owing(Top))' <= Limit'
                    \/ /\ Completing'
                       /\ (Spent(Len(stack)) + Owing(Top))' <= Limit' + 1
                    \/ /\ LeafTried'
                       /\ (Spent(Len(stack) - 1) + Owing(stack[Len(stack) - 1]))'
                            <= Limit'
  BY <1>1, <1>2 DEF AttemptsLeft
<1>7. CASE Spent(Len(stack)) + Owing(Top) <= Limit
  <2>1. Spent(Len(stack)) + Owing(frame) <= Limit
    BY <1>5, <1>6, <1>7
  <2> QED
    BY <1>3, <1>4, <2>1
<1>8. CASE Completing /\ Spent(Len(stack)) + Owing(Top) <= Limit + 1
  <2>1. /\ Spent(Len(stack)) + Owing(frame) <= Limit + 1
        /\ Completing' \/ Spent(Len(stack)) + Owing(frame) <= Limit
    BY <1>5, <1>6, <1>8
  <2> QED
    BY <1>3, <1>4, <2>1
<1>9. CASE LeafTried /\ Spent(Len(stack) - 1) + Owing(stack[Len(stack) - 1]) <= Limit
  <2>1. Len(stack) - 1 \in 1..Len(stack)
    BY <1>1, <1>9 DEF LeafTried
  <2>2. stack'[Len(stack) - 1] = stack[Len(stack) - 1] /\ LeafTried'
    BY <1>1, <1>9, <2>1
  <2> QED
    BY <1>1, <1>3, <1>9, <2>2 DEF Spent, Owing, Shares, Share, Dropping
<1> QED
  BY <1>7, <1>8, <1>9 DEF AttemptsLeft

\* A leaf that is built is the last child of the builder that asked for it.
LEMMA LeafCompletes ==
  ASSUME LeavesAreOnlyChildren, IInv, CallsAreAsked, LeafTried, Succeed
  PROVE  Completing'
<1>0. TypeOK
  BY DEF IInv
<1>1. /\ Len(stack) \in Nat /\ Len(stack) >= 2 /\ stack # <<>>
      /\ Top = stack[Len(stack)] /\ Top \in Frames
      /\ Top.builder \in Leaves
      /\ mode = "build" /\ mode' = "return" /\ stack' = Pop
      /\ value' = Top.kept + 1 /\ Top.kept \in Nat
  BY <1>0, TopIsAFrame DEF LeafTried, Succeed, EveryCallRuns, IInv, Frames
<1>p. PICK m : m = Len(stack) - 1
  OBVIOUS
<1>2. m \in 1..Len(stack) /\ m + 1 = Len(stack)
  BY <1>1, <1>p
<1>3. /\ m < Len(stack) /\ stack[m + 1] = Top /\ Len(stack') = m /\ m # 0
      /\ stack'[m] = stack[m] /\ stack[m] \in Frames
  BY <1>0, <1>1, <1>2, Popping DEF TypeOK
<1>4. /\ Waiting(stack[m]) /\ stack[m].builder \in Builders
      /\ Top.request = Wants(stack[m])[stack[m].asked]
  BY <1>3 DEF CallsAreAsked, EveryCallRuns, IInv
<1>5. Top.builder \in Answers[Top.request]
  <2>1. Len(stack) \in 1..Len(stack)
    BY <1>1
  <2> QED
    BY <1>1, <2>1 DEF CallsAreAsked
<1>6. Answers[Wants(stack[m])[stack[m].asked]] \cap Leaves # {}
  BY <1>1, <1>4, <1>5
<1>7. /\ stack[m].asked = 1 /\ Len(Wants(stack[m])) = 1 /\ ~stack[m].lost
  BY <1>3, <1>4, <1>6, LeafIsTheOnlyChild
<1>8. Top' = stack[m] /\ Wanted' = Wants(stack[m])
  BY <1>3 DEF Top, Wanted, Wants
<1>9. value' > 0 /\ stack' # <<>> /\ 1 > 0
  BY <1>1, <1>3
<1>10. Top'.asked > 0 /\ Top'.asked = Len(Wanted') /\ ~Top'.lost
  BY <1>7, <1>8, <1>9
<1>11. Top'.builder \in Picky => Top'.builder \in Dropping
  <2>1. /\ stack[m].request \in Requests
        /\ stack[m].asked \in 1..Len(Asks[stack[m].builder][stack[m].request])
    BY <1>3, <1>4 DEF Waiting, Wants, Frames
  <2> QED
    BY <1>6, <1>8, <2>1 DEF Dropping, Wants
<1> QED
  BY <1>1, <1>9, <1>10, <1>11 DEF Completing

\* Every step leaves each call the attempts it may still need.
LEMMA AttemptsStep ==
  ASSUME LeavesAreOnlyChildren, IInv, CallsAreAsked, NoSecondTurn, AttemptsLeft,
         [Next]_vars
  PROVE  AttemptsLeft'
<1>0. TypeOK /\ EveryCallRuns /\ LeavesAtTheLimit
  BY DEF IInv
<1>a. /\ max_depth \in Nat /\ max_attempts \in Nat /\ nodes_attempted \in Nat
      /\ Len(stack) \in Nat /\ Len(stack) <= max_depth
  BY <1>0, FactoryAssumption DEF TypeOK, max_depth, max_attempts, LeavesAtTheLimit
<1>b. stack # <<>> => /\ Top \in Frames /\ Top.asked \in Nat /\ Len(stack) >= 1
                      /\ Top = stack[Len(stack)]
  BY <1>0, TopIsAFrame DEF Frames
<1>c. \A frame : Owing(frame) \in Nat /\ 2 <= Owing(frame) /\ Owing(frame) <= Share
  BY OwingIsAShare
<1>d. Spent(Len(stack)) \in Nat /\ Limit \in Nat
  BY <1>0, <1>a, SpentAndLimit
<1>e. stack # <<>> => /\ Spent(Len(stack)) = Spent(Len(stack) - 1) + Share
                      /\ Spent(Len(stack) - 1) \in Nat
                      /\ Spent(1) <= Spent(Len(stack))
  <2> SUFFICES ASSUME stack # <<>>
               PROVE  /\ Spent(Len(stack)) = Spent(Len(stack) - 1) + Share
                      /\ Spent(Len(stack) - 1) \in Nat
                      /\ Spent(1) <= Spent(Len(stack))
    OBVIOUS
  <2>1. PICK k \in Nat : k + 1 = Len(stack) /\ k = Len(stack) - 1 /\ k <= max_depth
    BY <1>a, <1>b
  <2>2. Spent(k + 1) = Spent(k) + Share /\ Spent(k) \in Nat
    BY <1>0, <2>1, SpentAndLimit
  <2>3. Shares(1) <= Shares(Len(stack))
    BY <1>a, <1>b, SharesGrow
  <2>4. Shares(1) \in Nat /\ Shares(Len(stack)) \in Nat
    BY <1>a, SharesAddUp
  <2> QED
    BY <1>a, <2>1, <2>2, <2>3, <2>4 DEF Spent
<1>1. CASE DeadlineExceeded
  <2>1. /\ stack' = <<>> /\ UNCHANGED <<settings, nodes_attempted>>
        /\ mode = "dispatch"
    BY <1>1 DEF DeadlineExceeded
  <2>2. ~Completing /\ ~LeafTried
    BY <2>1 DEF Completing, LeafTried
  <2>3. max_depth' = max_depth /\ max_attempts' = max_attempts
    BY <1>0, <2>1, SettingsStay
  <2>4. /\ Limit' = Limit /\ Spent(1)' = Spent(1)
    BY <2>1, <2>3 DEF Spent, Limit
  <2>5. ASSUME max_attempts > 0, nodes_attempted >= max_attempts
        PROVE  Spent(1)' <= Limit'
    <3>1. CASE stack = <<>>
      BY <2>2, <2>4, <2>5, <3>1 DEF AttemptsLeft
    <3>2. CASE stack # <<>>
      <4>1. Spent(Len(stack)) + Owing(Top) <= Limit
        BY <2>2, <2>5, <3>2 DEF AttemptsLeft
      <4>2. Spent(1) \in Nat
        <5>1. Shares(1) \in Nat
          BY SharesAddUp
        <5> QED
          BY <1>a, <5>1 DEF Spent
      <4> QED
        BY <1>c, <1>d, <1>e, <2>4, <3>2, <4>1, <4>2
    <3> QED
      BY <3>1, <3>2
  <2> QED
    BY <2>1, <2>3, <2>5 DEF AttemptsLeft
<1>2. CASE Dispatch
  BY <1>2, DispatchLeaves
<1>3. CASE EnterBuilder
  <2>1. /\ mode = "choose" /\ mode' = "build" /\ stack # <<>>
        /\ UNCHANGED <<settings, nodes_attempted>>
    BY <1>0, <1>3 DEF EnterBuilder, EveryCallRuns
  <2>2. PICK frame \in Frames :
          /\ SetTop(frame) /\ frame.todo \subseteq Top.todo
          /\ frame.builder \in Top.todo
    BY <1>0, <1>3, <2>1, Entering
  <2>3. Len(stack') = Len(stack) /\ Top' = frame
    BY <1>0, <2>1, <2>2, SettingTheTop DEF Top
  <2>4. ~Completing
    BY <2>1 DEF Completing
  <2>5. LeafTried => LeafTried'
    BY <2>1, <2>2, <2>3 DEF LeafTried
  <2>6. Owing(frame) <= Owing(Top)
    BY <2>2, OwingLess
  <2> QED
    BY <1>0, <2>1, <2>2, <2>4, <2>5, <2>6, TopLeaves
<1>4. CASE NoBuilderLeft
  <2>1. /\ stack # <<>> /\ UNCHANGED <<settings, nodes_attempted>> /\ stack' = Pop
    BY <1>0, <1>4 DEF NoBuilderLeft, EveryCallRuns
  <2>2. /\ max_depth' = max_depth /\ max_attempts' = max_attempts
        /\ Len(stack') = Len(stack) - 1
    BY <1>0, <2>1, SettingsStay, Popping
  <2>3. ~Completing
    BY <1>4 DEF NoBuilderLeft, Completing
  <2>4. Limit' = Limit
    BY <2>2 DEF Limit
  <2>5. CASE max_attempts > 0 /\ nodes_attempted >= max_attempts /\ LeafTried
             /\ Spent(Len(stack) - 1) + Owing(stack[Len(stack) - 1]) <= Limit
    <3>1. Len(stack) - 1 \in 1..(Len(stack) - 1) /\ stack' # <<>>
      BY <1>a, <2>1, <2>2, <2>5, Popping DEF LeafTried
    <3>2. Top' = stack[Len(stack) - 1]
      BY <1>0, <2>1, <2>2, <3>1, Popping DEF Top
    <3>3. Spent(Len(stack))' = Spent(Len(stack) - 1)
      BY <2>1, <2>2 DEF Spent
    <3>4. Owing(Top)' = Owing(stack[Len(stack) - 1])
      BY <3>2 DEF Owing
    <3>5. (Spent(Len(stack)) + Owing(Top))' <= Limit'
      BY <2>4, <2>5, <3>3, <3>4
    <3> QED
      BY <3>1, <3>5 DEF AttemptsLeft
  <2>6. CASE max_attempts > 0 /\ nodes_attempted >= max_attempts
             /\ Spent(Len(stack)) + Owing(Top) <= Limit
    <3>1. Spent(Len(stack)) <= Limit
      BY <1>c, <1>d, <2>6
    <3>2. nodes_attempted' + Shares(Len(stack)) <= Limit /\ nodes_attempted' \in Nat
      BY <1>a, <2>1, <3>1 DEF Spent
    <3> QED
      BY <1>0, <2>1, <3>2, PopLeaves
  <2>7. CASE ~(max_attempts > 0 /\ nodes_attempted >= max_attempts)
    BY <2>1, <2>2, <2>7 DEF AttemptsLeft
  <2> QED
    BY <2>1, <2>3, <2>5, <2>6, <2>7 DEF AttemptsLeft
<1>5. CASE AskForChild
  <2>1. /\ mode = "build" /\ stack # <<>> /\ Top.asked < Len(Wanted)
        /\ UNCHANGED <<settings, nodes_attempted>>
    BY <1>0, <1>5 DEF AskForChild, AsksOn, EveryCallRuns
  <2>2. PICK frame \in Frames :
          SetTop(frame) /\ frame.todo = Top.todo /\ frame.builder = Top.builder
    BY <1>0, <1>5, <2>1, Asking
  <2>3. ~Completing
    BY <1>b, <2>1 DEF Completing
  <2>4. ~LeafTried
    <3>1. ASSUME Top.builder \in Leaves PROVE FALSE
      <4>1. Wanted = <<>>
        BY <1>b, <2>1, <3>1, FactoryAssumption DEF Wanted, Frames
      <4> QED
        BY <1>b, <2>1, <4>1
    <3> QED
      BY <2>1, <3>1 DEF LeafTried
  <2>5. Owing(frame) <= Owing(Top)
    BY <2>2, OwingLess
  <2> QED
    BY <1>0, <2>1, <2>2, <2>3, <2>4, <2>5, TopLeaves
<1>6. CASE ReceiveChild
  <2>1. /\ mode = "return" /\ mode' = "build" /\ stack # <<>>
        /\ UNCHANGED <<settings, nodes_attempted>>
    BY <1>6 DEF ReceiveChild
  <2>2. PICK frame \in Frames :
          /\ SetTop(frame) /\ frame.request = Top.request
          /\ frame.builder = Top.builder /\ frame.asked = Top.asked
          /\ frame.todo = Top.todo
          /\ frame.lost => Top.lost \/ value = 0
    BY <1>0, <1>6, <2>1, Receiving
  <2>3. Top' = frame /\ stack' # <<>>
    BY <1>0, <2>1, <2>2, SettingTheTop DEF Top
  <2>4. Wanted' = Wanted
    BY <2>2, <2>3 DEF Wanted
  <2>5. ~LeafTried
    BY <2>1 DEF LeafTried
  <2>6. ASSUME Completing PROVE Completing'
    <3>1. /\ Top.asked > 0 /\ Top.asked = Len(Wanted) /\ ~Top.lost /\ value # 0
          /\ Top.builder \in Picky => Top.builder \in Dropping
      BY <2>1, <2>6 DEF Completing
    <3>2. ~frame.lost
      BY <2>2, <3>1
    <3> QED
      BY <2>1, <2>2, <2>3, <2>4, <3>1, <3>2 DEF Completing
  <2>7. Owing(frame) <= Owing(Top)
    BY <2>2, OwingLess
  <2> QED
    BY <1>0, <2>1, <2>2, <2>5, <2>6, <2>7, TopLeaves
<1>7. CASE Succeed
  <2>1. /\ stack # <<>> /\ UNCHANGED settings /\ stack' = Pop
        /\ nodes_attempted' = nodes_attempted + 1
    BY <1>0, <1>7 DEF Succeed, EveryCallRuns
  <2>2. /\ max_depth' = max_depth /\ max_attempts' = max_attempts
        /\ Len(stack') = Len(stack) - 1
    BY <1>0, <2>1, SettingsStay, Popping
  <2>3. Limit' = Limit
    BY <2>2 DEF Limit
  <2>4. CASE Spent(Len(stack)) + 1 <= Limit
    <3>1. nodes_attempted' + Shares(Len(stack)) <= Limit /\ nodes_attempted' \in Nat
      <4>1. Shares(Len(stack)) \in Nat
        BY <1>a, SharesAddUp
      <4> QED
        BY <1>a, <1>d, <2>1, <2>4, <4>1 DEF Spent
    <3> QED
      BY <1>0, <2>1, <3>1, PopLeaves
  <2>5. CASE ~(Spent(Len(stack)) + 1 <= Limit)
    <3>1. nodes_attempted >= max_attempts
      <4>1. nodes_attempted < max_attempts => Spent(Len(stack)) < Limit
        BY <1>0, <1>a, SpentAndLimit
      <4> QED
        BY <1>a, <1>d, <2>5, <4>1
    <3> SUFFICES ASSUME max_attempts > 0 PROVE AttemptsLeft'
      BY <2>2 DEF AttemptsLeft
    <3>2. /\ LeafTried
          /\ Spent(Len(stack) - 1) + Owing(stack[Len(stack) - 1]) <= Limit
      <4>1. ~(Spent(Len(stack)) + Owing(Top) <= Limit + 1)
        BY <1>c, <1>d, <2>5
      <4>2. ~(Spent(Len(stack)) + Owing(Top) <= Limit)
        BY <1>c, <1>d, <2>5
      <4> QED
        BY <2>1, <3>1, <4>1, <4>2 DEF AttemptsLeft
    <3>3. Completing'
      BY <1>7, <3>2, LeafCompletes
    <3>4. Len(stack) - 1 \in 1..(Len(stack) - 1)
      BY <1>a, <3>2 DEF LeafTried
    <3>5. Top' = stack[Len(stack) - 1]
      BY <1>0, <2>1, <2>2, <3>4, Popping DEF Top
    <3>6. Owing(Top)' = Owing(stack[Len(stack) - 1])
      BY <3>5 DEF Owing
    <3>7. Spent(Len(stack))' = Spent(Len(stack) - 1) + 1
      <4>1. PICK k \in Nat : k = Len(stack) - 1
        BY <1>a, <3>4
      <4>2. Shares(k) \in Nat
        BY SharesAddUp
      <4>3. Shares(Len(stack))' = Shares(k)
        BY <2>2, <4>1 DEF Shares
      <4> QED
        BY <1>a, <2>1, <4>1, <4>2, <4>3 DEF Spent
    <3>8. (Spent(Len(stack)) + Owing(Top))' <= Limit' + 1
      BY <1>c, <1>d, <1>e, <2>1, <2>3, <3>2, <3>6, <3>7
    <3> QED
      BY <3>3, <3>8 DEF AttemptsLeft
  <2> QED
    BY <2>4, <2>5
<1>8. CASE Decline
  <2>1. /\ mode = "build" /\ mode' = "choose" /\ stack # <<>> /\ Declines
        /\ UNCHANGED <<settings, nodes_attempted>>
    BY <1>0, <1>8 DEF Decline, EveryCallRuns
  <2>2. PICK frame \in Frames :
          SetTop(frame) /\ frame.todo = Top.todo /\ frame.builder = "none"
    BY <1>0, <1>8, <2>1, Declining
  <2>3. Len(stack') = Len(stack) /\ Top' = frame
    BY <1>0, <2>1, <2>2, SettingTheTop DEF Top
  <2>4. Completing => Owing(frame) + 1 <= Owing(Top)
    <3> SUFFICES ASSUME Completing PROVE Owing(frame) + 1 <= Owing(Top)
      OBVIOUS
    <3>1. Top.builder \in Dropping
      BY <2>1 DEF Completing, Declines
    <3>2. Top.builder \notin Top.todo
      BY <1>a, <1>b, <2>1 DEF NoSecondTurn
    <3> QED
      BY <1>b, <2>1, <2>2, <3>1, <3>2, OwingOneLess
  <2>5. LeafTried => LeafTried'
    BY <2>1, <2>2, <2>3 DEF LeafTried
  <2>6. Owing(frame) <= Owing(Top)
    <3>1. "none" \notin Dropping
      BY ShareIsANumber, FactoryAssumption
    <3> QED
      BY <2>2, <3>1, OwingLess
  <2> QED
    BY <1>0, <2>1, <2>2, <2>4, <2>5, <2>6, TopLeaves
<1>9. CASE Finish \/ Ended \/ UNCHANGED vars
  <2>1. CASE Finish
    <3>1. /\ stack = <<>> /\ UNCHANGED <<settings, stack, nodes_attempted>>
      BY <2>1 DEF Finish
    <3>2. ~Completing /\ ~LeafTried
      BY <3>1 DEF Completing, LeafTried
    <3> QED
      BY <3>1, <3>2 DEF AttemptsLeft, Spent, Limit, max_attempts, max_depth,
                         Shares, Share, Dropping
  <2>2. CASE Ended \/ UNCHANGED vars
    BY <2>2 DEF Ended, vars, AttemptsLeft, Spent, Limit, max_attempts, max_depth,
                Completing, LeafTried, Wanted, Top, Owing, Shares, Share, Dropping
  <2> QED
    BY <1>9, <2>1, <2>2
<1> QED
  BY <1>1, <1>2, <1>3, <1>4, <1>5, <1>6, <1>7, <1>8, <1>9 DEF Next, Step

\* The wind-down of a generation that has run out of a budget: the tree gains
\* fewer nodes than it has levels, and on each level fewer attempts are made than
\* there are builders that can waste a leaf and two, for every configuration in
\* which a leaf is the only child of what asks for it.
THEOREM BudgetsAreKept ==
  ASSUME LeavesAreOnlyChildren PROVE Spec => []BudgetsHold
<1>1. Init => BudgetInv
  <2> SUFFICES ASSUME Init PROVE BudgetInv
    OBVIOUS
  <2>1. /\ max_depth \in Nat /\ max_nodes \in Nat /\ max_attempts \in Nat
        /\ stack = <<>> /\ Len(stack) = 0 /\ 0..(Len(stack) - 1) = {}
        /\ mode = "dispatch" /\ node_count = 0 /\ nodes_attempted = 0
    BY FactoryAssumption DEF Init, max_depth, max_nodes, max_attempts
  <2>2. CallsAreAsked
    BY <2>1 DEF CallsAreAsked
  <2>3. NodesLeft
    BY <2>1 DEF NodesLeft
  <2>4. AttemptsLeft
    BY <2>1 DEF AttemptsLeft
  <2>5. NoSecondTurn
    BY <2>1 DEF NoSecondTurn
  <2> QED
    BY <2>2, <2>3, <2>4, <2>5 DEF BudgetInv
<1>2. IInv /\ SavedCounts /\ BudgetInv /\ [Next]_vars => BudgetInv'
  BY AskedStep, NodesStep, TurnsStep, AttemptsStep DEF BudgetInv
<1>3. IInv /\ BudgetInv => BudgetsHold
  <2> SUFFICES ASSUME IInv, BudgetInv PROVE BudgetsHold
    OBVIOUS
  <2>1. /\ max_depth \in Nat /\ max_nodes \in Nat /\ max_attempts \in Nat
        /\ node_count \in Nat /\ nodes_attempted \in Nat /\ Len(stack) \in Nat
        /\ LeafTried => Len(stack) >= 2
    BY FactoryAssumption DEF IInv, TypeOK, max_depth, max_nodes, max_attempts, LeafTried
  <2>2. max_nodes > 0 => node_count < max_nodes + max_depth
    BY <2>1 DEF BudgetInv, NodesLeft
  <2>3. ASSUME max_attempts > 0 PROVE nodes_attempted < Limit
    <3>1. \A frame : Owing(frame) \in Nat /\ 2 <= Owing(frame)
      BY OwingIsAShare
    <3>2. Share >= 2 /\ Share \in Nat /\ Shares(1) = Share
      BY ShareIsANumber, SharesAddUp
    <3>3. \A k \in Nat : Shares(k) \in Nat
      BY SharesAddUp
    <3>4. Limit \in Nat /\ max_attempts <= Limit
      <4>1. Shares(max_depth) \in Nat
        BY <2>1, <3>3
      <4> QED
        BY <2>1, <4>1 DEF Limit
    <3>5. CASE nodes_attempted >= max_attempts
      <4>1. CASE Spent(1) <= Limit
        BY <2>1, <3>2, <3>4, <4>1 DEF Spent
      <4>2. CASE Spent(Len(stack)) + Owing(Top) <= Limit + 1
        <5>1. Shares(Len(stack)) \in Nat /\ Owing(Top) \in Nat /\ 2 <= Owing(Top)
          BY <2>1, <3>1, <3>3
        <5> QED
          BY <2>1, <3>4, <4>2, <5>1 DEF Spent
      <4>3. CASE /\ LeafTried
                 /\ Spent(Len(stack) - 1) + Owing(stack[Len(stack) - 1]) <= Limit
        <5>1. PICK k \in Nat : k = Len(stack) - 1
          BY <2>1, <4>3
        <5>2. Shares(k) \in Nat /\ Owing(stack[k]) \in Nat /\ 2 <= Owing(stack[k])
          BY <3>1, <3>3
        <5> QED
          BY <2>1, <3>4, <4>3, <5>1, <5>2 DEF Spent
      <4>4. \/ Spent(1) <= Limit
            \/ Spent(Len(stack)) + Owing(Top) <= Limit
            \/ Spent(Len(stack)) + Owing(Top) <= Limit + 1
            \/ /\ LeafTried
               /\ Spent(Len(stack) - 1) + Owing(stack[Len(stack) - 1]) <= Limit
        BY <2>3, <3>5 DEF BudgetInv, AttemptsLeft
      <4>5. Spent(Len(stack)) + Owing(Top) <= Limit
              => Spent(Len(stack)) + Owing(Top) <= Limit + 1
        <5>1. Shares(Len(stack)) \in Nat /\ Owing(Top) \in Nat
          BY <2>1, <3>1, <3>3
        <5> QED
          BY <2>1, <3>4, <5>1 DEF Spent
      <4> QED
        BY <4>1, <4>2, <4>3, <4>4, <4>5
    <3>6. CASE nodes_attempted < max_attempts
      BY <2>1, <3>4, <3>6
    <3> QED
      BY <2>1, <3>5, <3>6
  <2> QED
    BY <2>2, <2>3 DEF BudgetsHold, Limit, Shares
<1>4. Init => SavedCounts
  BY HeldByNone DEF Init, SavedCounts, SurvivorsCounted
<1> QED
  BY <1>1, <1>2, <1>3, <1>4, CountStep, GenerationInvariant, PTL DEF Spec

=============================================================================
