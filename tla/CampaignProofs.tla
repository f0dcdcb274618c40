--------------------------- MODULE CampaignProofs --------------------------
(***************************************************************************)
(* A campaign gives up after MaxUnbuildable unbuildable rounds in a row    *)
(* and only then; every finding it reports has its own repro file; its     *)
(* totals add up and its findings are the reportable ones: for any number  *)
(* of rounds and whatever they return.                                     *)
(***************************************************************************)
EXTENDS Campaign, FiniteSetTheorems, SequenceTheorems, TLAPS

-----------------------------------------------------------------------------
(* Counting *)

\* The numbers up to n are n.
LEMMA UpTo == \A n \in Nat : IsFiniteSet(1..n) /\ Cardinality(1..n) = n
<1> SUFFICES ASSUME NEW n \in Nat
             PROVE  IsFiniteSet(1..n) /\ Cardinality(1..n) = n
  OBVIOUS
<1>1. IsFiniteSet(1..n) /\ Cardinality(1..n) = IF 1 > n THEN 0 ELSE n - 1 + 1
  BY FS_Interval
<1> QED
  BY <1>1

\* Taking a part out of a finite set, and adding what it does not have.
LEMMA SetsAddUp ==
  ASSUME NEW S, IsFiniteSet(S), NEW T, IsFiniteSet(T)
  PROVE  /\ Cardinality(S) \in Nat /\ Cardinality(T) \in Nat
         /\ T \subseteq S => Cardinality(S \ T) = Cardinality(S) - Cardinality(T)
         /\ S \cap T = {} =>
              Cardinality(S \cup T) = Cardinality(S) + Cardinality(T)
<1>1. Cardinality(S) \in Nat /\ Cardinality(T) \in Nat
  BY FS_CardinalityType
<1>2. ASSUME T \subseteq S
      PROVE  Cardinality(S \ T) = Cardinality(S) - Cardinality(T)
  <2>1. S \cap T = T
    BY <1>2
  <2> QED
    BY <2>1, FS_Difference
<1>3. ASSUME S \cap T = {}
      PROVE  Cardinality(S \cup T) = Cardinality(S) + Cardinality(T)
  <2>1. Cardinality(S \cup T) = Cardinality(S) + Cardinality(T) - 0
    BY <1>3, FS_Union, FS_EmptySet
  <2> QED
    BY <2>1, <1>1
<1> QED
  BY <1>1, <1>2, <1>3

\* The numbers of a finite set that are no larger than one of them: its rank.
Rank(S, n) == Cardinality({m \in S : m <= n})

\* Each rank is that of exactly one number of the set.
LEMMA RanksAreExact ==
  ASSUME NEW S \in SUBSET Nat, IsFiniteSet(S)
  PROVE  /\ Cardinality(S) \in Nat
         /\ \A n \in S : Rank(S, n) \in 1..Cardinality(S)
         /\ \A k \in 1..Cardinality(S) : \E n \in S : Rank(S, n) = k
         /\ \A m, n \in S : Rank(S, m) = Rank(S, n) => m = n
<1> DEFINE low(n) == {m \in S : m <= n}
           rank == [n \in S |-> Rank(S, n)]
<1>1. /\ Cardinality(S) \in Nat
      /\ \A n \in S : IsFiniteSet(low(n)) /\ Cardinality(low(n)) \in Nat
  <2>1. \A n \in S : low(n) \in SUBSET S
    OBVIOUS
  <2> QED
    BY <2>1, FS_Subset, FS_CardinalityType
<1>2. ASSUME NEW n \in S PROVE Rank(S, n) \in 1..Cardinality(S)
  <2>1. low(n) \in SUBSET S /\ low(n) # {}
    OBVIOUS
  <2>2. Cardinality(low(n)) <= Cardinality(S) /\ Cardinality(low(n)) # 0
    BY <1>1, <2>1, FS_Subset, FS_EmptySet
  <2> QED
    BY <1>1, <2>2 DEF Rank
<1>3. ASSUME NEW m \in S, NEW n \in S, Rank(S, m) = Rank(S, n), m < n
      PROVE  FALSE
  <2>1. low(m) \in SUBSET low(n) /\ n \in low(n) /\ n \notin low(m)
    <3>1. m \in Nat /\ n \in Nat /\ \A k \in S : k \in Nat
      OBVIOUS
    <3>2. \A k \in S : k <= m => k <= n
      BY <1>3, <3>1
    <3>3. n <= n /\ ~(n <= m)
      BY <1>3, <3>1
    <3> QED
      BY <3>2, <3>3
  <2>2. Cardinality(low(n)) # Cardinality(low(m))
    BY <1>1, <2>1, FS_Subset
  <2> QED
    BY <1>3, <2>2 DEF Rank
<1>4. ASSUME NEW m \in S, NEW n \in S, Rank(S, m) = Rank(S, n) PROVE m = n
  BY <1>3, <1>4
<1>5. rank \in [S -> 1..Cardinality(S)]
  BY <1>2
<1>6. \A m, n \in S : rank[m] = rank[n] => m = n
  BY <1>4
<1> HIDE DEF rank
<1>7. rank \in Injection(S, 1..Cardinality(S))
  BY <1>5, <1>6 DEF Injection, IsInjective
<1>8. rank \in Surjection(S, 1..Cardinality(S))
  BY <1>1, <1>7, UpTo, FS_Injection
<1>9. \A k \in 1..Cardinality(S) : \E n \in S : rank[n] = k
  BY <1>8 DEF Surjection
<1>10. \A n \in S : rank[n] = Rank(S, n)
  BY DEF rank
<1> QED
  BY <1>1, <1>2, <1>4, <1>9, <1>10

-----------------------------------------------------------------------------
\* The three counters that say how many rounds are in the report.
Counted(r) ==
  /\ r.rounds \in Nat /\ r.discarded_unbuildable \in Nat
  /\ r.discarded_not_equivalent \in Nat
  /\ {"rounds", "discarded_unbuildable", "discarded_not_equivalent", "findings"}
       \subseteq DOMAIN r

RoundsIn(r) ==
  r.rounds + r.discarded_unbuildable + r.discarded_not_equivalent

\* A round is recorded under one counter, whichever it is.
LEMMA OneMoreRound ==
  ASSUME NEW r, Counted(r), NEW o, NEW n
  PROVE  /\ Counted(record_round(r, o, n))
         /\ RoundsIn(record_round(r, o, n)) = RoundsIn(r) + 1
<1>1. CASE o.setup_error
  BY <1>1 DEF record_round, Counted, RoundsIn
<1>2. CASE ~o.setup_error /\ o.object = "diverged"
  BY <1>2 DEF record_round, Counted, RoundsIn
<1>3. CASE ~o.setup_error /\ o.object # "diverged"
  <2>1. record_round(r, o, n) = Tally(r, o, n)
    BY <1>3 DEF record_round
  <2>2. /\ Tally(r, o, n).rounds = r.rounds + 1
        /\ Tally(r, o, n).discarded_unbuildable = r.discarded_unbuildable
        /\ Tally(r, o, n).discarded_not_equivalent = r.discarded_not_equivalent
        /\ DOMAIN Tally(r, o, n) = DOMAIN r
    BY DEF Tally, Counted
  <2> QED
    BY <2>1, <2>2 DEF Counted, RoundsIn
<1> QED
  BY <1>1, <1>2, <1>3

\* At first nothing is recorded.
LEMMA InitAborting == Init => Aborting
<1> SUFFICES ASSUME Init PROVE Aborting
  OBVIOUS
<1>1. Counters /\ Recorded = 0 /\ Len(logs) = 0 /\ consecutive = 0
  BY CampaignAssumption DEF Init, Counters, Recorded
<1> QED
  BY <1>1, CampaignAssumption
  DEF Init, Aborting, LogsAndReport, AbortsOnlyAfterARun

\* A step that records nothing; it may add the log of the round it runs.
LEMMA QuietKeeps ==
  ASSUME Aborting, UNCHANGED <<consecutive, report>>, round' \in Nat,
         \/ UNCHANGED logs
         \/ /\ Len(logs) = Recorded
            /\ \E o \in Outcomes \cup {NoOutcome} : logs' = Append(logs, o),
         end' = end \/ (end = "none" /\ end' # "aborted"),
         pc' \in {"hook", "record"} =>
           Len(logs') = Recorded + 1 /\ outcome' = logs'[Recorded + 1],
         pc' \in {"top", "write", "index"} => Len(logs') = Recorded,
         pc' \notin {"summary", "ended"} => end' = "none"
  PROVE  Aborting'
<1>1. Counted(report) /\ Recorded \in Nat /\ Recorded' = Recorded
  BY DEF Aborting, Counters, Counted, Recorded
<1>2. /\ logs' \in Seq(Outcomes \cup {NoOutcome})
      /\ Len(logs') \in {Recorded, Recorded + 1}
      /\ \A i \in 1..Recorded : logs'[i] = logs[i]
  <2>1. logs \in Seq(Outcomes \cup {NoOutcome}) /\ Len(logs) \in {Recorded, Recorded + 1}
    BY DEF Aborting, Counters, LogsAndReport
  <2>2. CASE UNCHANGED logs
    BY <1>1, <2>1, <2>2
  <2>3. CASE Len(logs) = Recorded /\
             \E o \in Outcomes \cup {NoOutcome} : logs' = Append(logs, o)
    BY <1>1, <2>1, <2>3
  <2> QED
    BY <2>2, <2>3
<1>3. Counters'
  BY <1>2 DEF Aborting, Counters
<1>4. LogsAndReport'
  BY <1>1, <1>2 DEF LogsAndReport
<1>5. AbortsOnlyAfterARun'
  <2>1. consecutive \in Nat /\ consecutive <= Recorded
    BY CampaignAssumption DEF Aborting, Counters
  <2>2. \A k \in 1..consecutive : Recorded + 1 - k \in 1..Recorded
    BY <1>1, <2>1
  <2>3. consecutive < Recorded => Recorded - consecutive \in 1..Recorded
    BY <1>1, <2>1
  <2> QED
    BY <1>1, <1>2, <2>2, <2>3 DEF Aborting, AbortsOnlyAfterARun
<1> QED
  BY <1>1, <1>3, <1>4, <1>5 DEF Aborting

\* The rounds, the hook, the repros and the ends of the campaign record nothing.
LEMMA OtherStepsKeep ==
  ASSUME Aborting, [Next]_vars, ~RecordUnbuildable, ~RecordDiverged, ~RecordRound
  PROVE  Aborting'
<1> USE DEF runVars, NextRound
<1>0. /\ round \in Nat /\ logs \in Seq(Outcomes \cup {NoOutcome})
      /\ Recorded \in Nat /\ LogsAndReport
  BY DEF Aborting, Counters, Recorded
<1>1. CASE RunRound
  <2>1. logs' = Append(logs, outcome') /\ outcome' \in Outcomes /\ Len(logs) = Recorded
    BY <1>0, <1>1 DEF RunRound, LogsAndReport
  <2>2. Len(logs') = Recorded + 1 /\ logs'[Recorded + 1] = outcome'
    BY <1>0, <2>1
  <2> QED
    BY <1>0, <1>1, <2>1, <2>2, QuietKeeps DEF RunRound, LogsAndReport
<1>2. CASE RoundRaises
  BY <1>0, <1>2, QuietKeeps DEF RoundRaises, LogsAndReport
<1>3. CASE Interrupt
  BY <1>0, <1>3, QuietKeeps DEF Interrupt, LogsAndReport
<1>4. CASE LoopEnds \/ Hook \/ HookRaises
  BY <1>0, <1>4, QuietKeeps DEF LoopEnds, Hook, HookRaises, LogsAndReport
<1>5. CASE WriteRepro \/ WriteIndex \/ WriteFails \/ RoundDone \/ Summary
  BY <1>0, <1>5, QuietKeeps
  DEF WriteRepro, WriteIndex, WriteFails, RoundDone, Summary, LogsAndReport
<1>6. CASE Terminated \/ UNCHANGED vars
  BY <1>0, <1>6, QuietKeeps DEF Terminated, vars, LogsAndReport
<1> QED
  BY <1>1, <1>2, <1>3, <1>4, <1>5, <1>6 DEF Next, Loop

\* What the record of a round leaves in the counters.
LEMMA Recording ==
  ASSUME Aborting, pc = "record", report' = record_round(report, outcome, round),
         UNCHANGED logs
  PROVE  /\ Counted(report') /\ Recorded' = Recorded + 1 /\ Recorded \in Nat
         /\ Len(logs) = Recorded + 1 /\ outcome = logs[Recorded + 1]
         /\ logs \in Seq(Outcomes \cup {NoOutcome}) /\ round \in Nat
         /\ consecutive \in Nat /\ consecutive <= Recorded
         /\ consecutive <= MaxUnbuildable /\ end = "none"
<1>1. Counted(report)
  BY DEF Aborting, Counters, Counted
<1>2. Counted(report') /\ RoundsIn(report') = RoundsIn(report) + 1
  BY <1>1, OneMoreRound
<1>3. Recorded = RoundsIn(report) /\ Recorded' = RoundsIn(report')
  BY DEF Recorded, RoundsIn
<1> QED
  BY <1>1, <1>2, <1>3, CampaignAssumption, SMTT(30)
  DEF Aborting, Counters, LogsAndReport, Counted, RoundsIn

\* An unbuildable round is one more of the run.
LEMMA UnbuildableKeeps == Aborting /\ RecordUnbuildable => Aborting'
<1> SUFFICES ASSUME Aborting, RecordUnbuildable PROVE Aborting'
  OBVIOUS
<1>1. /\ pc = "record" /\ outcome.setup_error /\ UNCHANGED logs
      /\ report' = record_round(report, outcome, round)
      /\ consecutive' = consecutive + 1
      /\ \/ /\ consecutive + 1 >= MaxUnbuildable /\ UNCHANGED round
            /\ pc' = "ended" /\ end' = "aborted"
         \/ /\ consecutive + 1 < MaxUnbuildable /\ round' = round + 1
            /\ pc' = "top" /\ end' = end
  BY DEF RecordUnbuildable, NextRound, runVars
<1>2. /\ Counted(report') /\ Recorded' = Recorded + 1 /\ Recorded \in Nat
      /\ Len(logs) = Recorded + 1 /\ outcome = logs[Recorded + 1]
      /\ logs \in Seq(Outcomes \cup {NoOutcome}) /\ round \in Nat
      /\ consecutive \in Nat /\ consecutive <= Recorded
      /\ consecutive <= MaxUnbuildable /\ end = "none"
      /\ MaxUnbuildable \in Nat \ {0}
  BY <1>1, Recording, CampaignAssumption
<1>3. consecutive # MaxUnbuildable
  BY <1>2 DEF Aborting, AbortsOnlyAfterARun
<1>4. Counters'
  BY <1>1, <1>2, <1>3 DEF Counters, Counted
<1>5. LogsAndReport'
  BY <1>1, <1>2 DEF LogsAndReport
<1>6. AbortsOnlyAfterARun'
  <2>1. ASSUME NEW k \in 1..(consecutive + 1)
        PROVE  logs[Recorded + 1 + 1 - k].setup_error
    <3>1. CASE k = 1
      BY <1>1, <1>2, <3>1
    <3>2. CASE k # 1
      <4>1. k - 1 \in 1..consecutive /\ Recorded + 1 + 1 - k = Recorded + 1 - (k - 1)
        BY <1>2, <3>2
      <4> QED
        BY <4>1 DEF Aborting, AbortsOnlyAfterARun
    <3> QED
      BY <3>1, <3>2
  <2>2. consecutive + 1 < Recorded + 1 =>
          ~logs[Recorded + 1 - (consecutive + 1)].setup_error
    <3>1. /\ Recorded + 1 - (consecutive + 1) = Recorded - consecutive
          /\ consecutive + 1 < Recorded + 1 => consecutive < Recorded
      BY <1>2
    <3> QED
      BY <3>1 DEF Aborting, AbortsOnlyAfterARun
  <2>3. end' = "aborted" <=> consecutive + 1 = MaxUnbuildable
    BY <1>1, <1>2, <1>3
  <2> QED
    BY <1>1, <1>2, <2>1, <2>2, <2>3 DEF AbortsOnlyAfterARun
<1> QED
  BY <1>1, <1>2, <1>4, <1>5, <1>6 DEF Aborting

\* Any other round ends the run of unbuildable ones.
LEMMA OthersResetTheCount == Aborting /\ (RecordDiverged \/ RecordRound) => Aborting'
<1> SUFFICES ASSUME Aborting, RecordDiverged \/ RecordRound PROVE Aborting'
  OBVIOUS
<1>1. /\ pc = "record" /\ ~outcome.setup_error /\ UNCHANGED <<logs, end>>
      /\ report' = record_round(report, outcome, round)
      /\ consecutive' = 0 /\ round' \in {round, round + 1}
      /\ pc' \in {"top", "write"}
  BY DEF RecordDiverged, RecordRound, Usable, NextRound, runVars
<1>2. /\ Counted(report') /\ Recorded' = Recorded + 1 /\ Recorded \in Nat
      /\ Len(logs) = Recorded + 1 /\ outcome = logs[Recorded + 1]
      /\ logs \in Seq(Outcomes \cup {NoOutcome}) /\ round \in Nat
      /\ end = "none" /\ MaxUnbuildable \in Nat \ {0}
  BY <1>1, Recording, CampaignAssumption
<1>3. Counters' /\ LogsAndReport'
  BY <1>1, <1>2 DEF Counters, Counted, LogsAndReport
<1>4. AbortsOnlyAfterARun'
  <2>1. Recorded + 1 - 0 = Recorded + 1
    BY <1>2
  <2> QED
    BY <1>1, <1>2, <2>1 DEF AbortsOnlyAfterARun
<1> QED
  BY <1>1, <1>2, <1>3, <1>4 DEF Aborting

\* The invariant behind the next theorem, for every number of rounds.
THEOREM AbortingHolds == Spec => []Aborting
<1>1. Aborting /\ [Next]_vars => Aborting'
  BY OtherStepsKeep, UnbuildableKeeps, OthersResetTheCount
<1> QED
  BY <1>1, InitAborting, PTL DEF Spec

\* The count is of the unbuildable rounds at the end of the run, and the campaign
\* gives up exactly when they reach the limit.
THEOREM GivesUpAfterARun == Spec => []AbortsOnlyAfterARun
<1>1. Aborting => AbortsOnlyAfterARun
  BY DEF Aborting
<1> QED
  BY <1>1, AbortingHolds, PTL

-----------------------------------------------------------------------------
(* Every finding has a repro                                               *)

\* A sequence is one over what it contains.
LEMMA OwnRange ==
  ASSUME NEW S, NEW s \in Seq(S)
  PROVE  s \in Seq(Range(s)) /\ Len(s) \in Nat
BY DEF Range

\* Findings are a sequence, all of them of the round they are taken from.
LEMMA FindingsOfARound ==
  ASSUME NEW o, NEW S, o.results \in Seq(S), NEW n
  PROVE  \E T : FindingsOf(o, n) \in Seq(T) /\ \A f \in T : f.round = n
<1> DEFINE reportable == {i \in DOMAIN o.results : is_reportable(o.results[i])}
           size == Cardinality(reportable)
           crash == [kind |-> "crash", round |-> n,
                     seq |-> IF o.crashed THEN Len(o.results) + 1 ELSE 0]
           finding(i) == [kind |-> IF is_mismatch(o.results[i]) THEN "mismatch"
                                                               ELSE "error",
                          round |-> n, seq |-> i]
           T == {crash} \cup {finding(Nth(reportable, k)) : k \in 1..size}
           first == IF o.note # "none" /\ ~is_worker_timeout_noise(o.note)
                      THEN <<crash>> ELSE <<>>
           rest == [k \in 1..size |-> finding(Nth(reportable, k))]
<1>1. size \in Nat
  <2>1. IsFiniteSet(DOMAIN o.results)
    <3>1. DOMAIN o.results = 1..Len(o.results) /\ Len(o.results) \in Nat
      OBVIOUS
    <3> QED
      BY <3>1, FS_Interval
  <2> QED
    BY <2>1, FS_Subset, FS_CardinalityType
<1>2. \A f \in T : f.round = n
  <2>1. crash.round = n /\ \A i : finding(i).round = n
    OBVIOUS
  <2> HIDE DEF crash, finding, reportable
  <2> QED
    BY <2>1
<1> HIDE DEF size
<1>3. first \in Seq(T) /\ rest \in Seq(T)
  <2>1. first \in Seq(T)
    <3>1. crash \in T
      OBVIOUS
    <3> HIDE DEF crash, T
    <3> QED
      BY <3>1
  <2>2. \A k \in 1..size : finding(Nth(reportable, k)) \in T
    OBVIOUS
  <2> HIDE DEF T, finding, reportable
  <2>3. rest \in Seq(T)
    BY <1>1, <2>2
  <2> QED
    BY <2>1, <2>3
<1>4. FindingsOf(o, n) = first \o rest
  BY DEF FindingsOf, size
<1> HIDE DEF first, rest, T
<1> QED
  BY <1>2, <1>3, <1>4, ConcatProperties

\* At first there is no finding, and no file.
LEMMA InitWriting == Init => Writing
<1> SUFFICES ASSUME Init PROVE Writing
  OBVIOUS
<1>1. /\ report.findings = <<>> /\ found = <<>> /\ index = <<>> /\ files = {}
      /\ written = 0 /\ pc = "top" /\ end = "none"
  BY DEF Init
<1>2. Lists
  BY <1>1, FS_EmptySet DEF Lists, Range
<1>3. FilesAreBehind /\ Unwritten
  BY <1>1, FS_EmptySet DEF FilesAreBehind, Unwritten
<1> QED
  BY <1>2, <1>3 DEF Writing

\* A step that writes nothing and reports nothing.
LEMMA StillKeeps ==
  ASSUME Aborting, Writing, UNCHANGED <<found, written, files, index>>,
         report'.findings = report.findings,
         \/ /\ pc \in {"top", "hook", "record"} /\ pc' \in {"top", "hook", "record"}
            /\ end' = end /\ round' \in {round, round + 1}
         \/ /\ pc = "write" /\ written = Len(found) /\ pc' = "top"
            /\ end' = end /\ round' = round + 1
         \/ /\ pc' \in {"summary", "ended"} /\ (end' = "finished" =>
                 end = "finished" \/ pc = "top")
  PROVE  Writing'
<1>1. /\ round \in Nat /\ Lists /\ Unwritten /\ FilesAreBehind
      /\ Len(found) \in Nat /\ written \in Nat
      /\ Len(index) \in Nat /\ Len(report.findings) \in Nat
      /\ Cardinality(files) \in Nat
  BY FS_CardinalityType DEF Aborting, Counters, Writing, Lists
<1>2. Lists'
  BY <1>1 DEF Lists
<1>3. FilesAreBehind'
  BY <1>1 DEF FilesAreBehind
<1>4. Unwritten'
  BY <1>1 DEF Unwritten
<1> QED
  BY <1>2, <1>3, <1>4 DEF Writing

\* The steps without a finding.
LEMMA QuietStepsWrite ==
  ASSUME Aborting, Writing, [Next]_vars,
         ~RecordRound, ~WriteRepro, ~WriteIndex
  PROVE  Writing'
<1> USE DEF runVars, NextRound
<1>0. /\ end = "finished" => pc \in {"summary", "ended"}
      /\ {"findings", "discarded_unbuildable", "discarded_not_equivalent"}
           \subseteq DOMAIN report
      /\ round \in Nat
  BY DEF Aborting, Counters, Writing, Unwritten
<1>1. CASE RecordUnbuildable \/ RecordDiverged
  <2>1. report'.findings = report.findings
    BY <1>0, <1>1 DEF RecordUnbuildable, RecordDiverged, record_round
  <2> QED
    BY <1>0, <1>1, <2>1, StillKeeps DEF RecordUnbuildable, RecordDiverged
<1>2. CASE LoopEnds \/ RunRound \/ RoundRaises \/ Hook \/ HookRaises
  BY <1>0, <1>2, StillKeeps DEF LoopEnds, RunRound, RoundRaises, Hook, HookRaises
<1>3. CASE WriteFails \/ RoundDone \/ Summary \/ Interrupt
  BY <1>0, <1>3, StillKeeps DEF WriteFails, RoundDone, Summary, Interrupt
<1>4. CASE Terminated \/ UNCHANGED vars
  BY <1>4 DEF Terminated, vars, Writing, Lists, FilesAreBehind, Unwritten
<1> QED
  BY <1>1, <1>2, <1>3, <1>4 DEF Next, Loop

\* A round's findings join the report and wait for their files.
LEMMA RecordingWrites == Aborting /\ Writing /\ RecordRound => Writing'
<1> SUFFICES ASSUME Aborting, Writing, RecordRound PROVE Writing'
  OBVIOUS
<1>1. /\ pc = "record" /\ pc' = "write" /\ Usable(outcome)
      /\ report' = record_round(report, outcome, round)
      /\ found' = FindingsOf(outcome, round) /\ written' = 0
      /\ UNCHANGED <<round, outcome, files, index, end>>
  BY DEF RecordRound, runVars
<1>2. /\ round \in Nat /\ Lists /\ Unwritten /\ FilesAreBehind /\ end = "none"
      /\ Len(index) \in Nat /\ "findings" \in DOMAIN report
      /\ Len(report.findings) \in Nat /\ Cardinality(files) \in Nat
  BY <1>1, FS_CardinalityType
  DEF Aborting, Counters, LogsAndReport, Writing, Lists
<1>3. outcome.results \in Seq(QueryComparisons)
  <2>1. outcome \in Outcomes \cup {NoOutcome}
    <3>1. /\ Recorded \in Nat /\ outcome = logs[Recorded + 1]
          /\ Len(logs) = Recorded + 1 /\ logs \in Seq(Outcomes \cup {NoOutcome})
      BY <1>1 DEF Aborting, Counters, LogsAndReport, Recorded
    <3> QED
      BY <3>1
  <2>2. CASE outcome \in Outcomes
    BY <2>2, CampaignAssumption DEF RoundOutcome
  <2>3. CASE outcome = NoOutcome
    BY <2>3 DEF NoOutcome
  <2> QED
    BY <2>1, <2>2, <2>3
<1>4. PICK T : found' \in Seq(T) /\ \A f \in T : f.round = round
  BY <1>1, <1>3, FindingsOfARound
<1>5. report'.findings = report.findings \o found'
  <2>1. report' = Tally(report, outcome, round)
    BY <1>1 DEF record_round, Usable
  <2> QED
    BY <1>1, <1>2, <2>1 DEF Tally
<1>6. /\ report'.findings \in Seq(Range(report.findings) \cup T)
      /\ Len(report'.findings) = Len(report.findings) + Len(found')
      /\ Len(found') \in Nat
  <2>1. /\ report.findings \in Seq(Range(report.findings) \cup T)
        /\ found' \in Seq(Range(report.findings) \cup T)
    BY <1>2, <1>4 DEF Lists
  <2> QED
    BY <1>5, <2>1, ConcatProperties
<1>7. Lists'
  <2>1. report'.findings \in Seq(Range(report'.findings)) /\ found' \in Seq(Range(found'))
    BY <1>4, <1>6, OwnRange
  <2>2. \A i \in DOMAIN found' : found'[i].round = round
    BY <1>4
  <2> QED
    BY <1>1, <1>2, <1>6, <2>1, <2>2 DEF Lists
<1>8. FilesAreBehind'
  BY <1>1, <1>2 DEF FilesAreBehind
<1>9. Unwritten'
  BY <1>1, <1>2, <1>6 DEF Unwritten
<1> QED
  BY <1>7, <1>8, <1>9 DEF Writing

\* A repro file has a name no other has, and a line follows it.
LEMMA FilesAreWritten == Aborting /\ Writing /\ (WriteRepro \/ WriteIndex) => Writing'
<1> SUFFICES ASSUME Aborting, Writing, WriteRepro \/ WriteIndex PROVE Writing'
  OBVIOUS
<1> DEFINE name == FileName(found[written + 1], written)
<1>1. /\ UNCHANGED <<round, report, found, end>>
      /\ round \in Nat /\ Lists /\ Unwritten /\ FilesAreBehind /\ end = "none"
      /\ Len(index) \in Nat /\ Len(report.findings) \in Nat
      /\ Cardinality(files) \in Nat /\ IsFiniteSet(files)
      /\ written \in Nat /\ Len(found) \in Nat /\ written < Len(found)
      /\ pc \in {"write", "index"}
  BY FS_CardinalityType, SMTT(30)
  DEF Aborting, Counters, LogsAndReport, Writing, Lists, WriteRepro, WriteIndex, runVars
<1>2. name[2] = round /\ name[3] = written
  <2>1. written + 1 \in DOMAIN found
    BY <1>1 DEF Lists
  <2> QED
    BY <1>1, <2>1 DEF Lists, FileName
<1>3. CASE WriteRepro
  <2>1. /\ pc = "write" /\ pc' = "index" /\ UNCHANGED <<written, index>>
        /\ files' = files \cup {name}
    BY <1>3 DEF WriteRepro
  <2>2. name \notin files
    BY <1>1, <1>2, <2>1 DEF FilesAreBehind
  <2> HIDE DEF name
  <2>3. IsFiniteSet(files') /\ Cardinality(files') = Cardinality(files) + 1
    BY <1>1, <2>1, <2>2, FS_AddElement
  <2>4. index \in Seq(files')
    BY <1>1, <2>1 DEF Lists
  <2>5. Lists'
    BY <1>1, <2>1, <2>3, <2>4 DEF Lists
  <2>6. FilesAreBehind'
    <3>1. ASSUME NEW f \in files'
          PROVE  \/ f[2] \in Nat /\ f[2] < round
                 \/ f[2] = round /\ f[3] \in Nat /\ f[3] < written + 1
      <4>1. CASE f \in files
        BY <1>1, <2>1, <4>1 DEF FilesAreBehind
      <4>2. CASE f = name
        BY <1>1, <1>2, <4>2
      <4> QED
        BY <2>1, <3>1, <4>1, <4>2
    <3> QED
      BY <1>1, <2>1, <3>1 DEF FilesAreBehind
  <2>7. Unwritten'
    BY <1>1, <2>1, <2>3 DEF Unwritten, name
  <2> QED
    BY <2>5, <2>6, <2>7 DEF Writing
<1>4. CASE WriteIndex
  <2>1. /\ pc = "index" /\ pc' = "write" /\ UNCHANGED files
        /\ index' = Append(index, name) /\ written' = written + 1
    BY <1>4 DEF WriteIndex
  <2>2. name \in files
    BY <1>1, <2>1 DEF Unwritten
  <2> HIDE DEF name
  <2>3. index' \in Seq(files) /\ Len(index') = Len(index) + 1
    BY <1>1, <2>1, <2>2 DEF Lists
  <2>4. Lists'
    BY <1>1, <2>1, <2>3 DEF Lists
  <2>5. FilesAreBehind'
    BY <1>1, <2>1 DEF FilesAreBehind
  <2>6. Unwritten'
    BY <1>1, <2>1, <2>3 DEF Unwritten
  <2> QED
    BY <2>4, <2>5, <2>6 DEF Writing
<1> QED
  BY <1>3, <1>4

\* The invariant behind the next theorem.
THEOREM WritingHolds == Spec => []Writing
<1>1. Aborting /\ Writing /\ [Next]_vars => Writing'
  BY QuietStepsWrite, RecordingWrites, FilesAreWritten
<1> QED
  BY <1>1, InitWriting, AbortingHolds, PTL DEF Spec

\* No repro file overwrites another, and what is in the report is on disk, but for
\* the round in which an exception or Ctrl-C ended the campaign.
THEOREM NoFindingWithoutRepro == Spec => []EveryFindingHasARepro
<1>1. Writing => EveryFindingHasARepro
  <2> SUFFICES ASSUME Writing PROVE EveryFindingHasARepro
    OBVIOUS
  <2>1. /\ Range(index) \subseteq files /\ Len(index) \in Nat
        /\ Len(report.findings) \in Nat
    BY DEF Writing, Lists, Range
  <2> QED
    BY <2>1 DEF Writing, Unwritten, EveryFindingHasARepro
<1> QED
  BY <1>1, WritingHolds, PTL

-----------------------------------------------------------------------------
(* The report adds up                                                      *)

\* A comparison is a pass, a skip of one of two kinds, or reportable, and only
\* one of them.
LEMMA OneClassEach ==
  ASSUME NEW c \in QueryComparisons
  PROVE  /\ is_pass(c) \/ is_uncomparable(c) \/ is_known_issue(c) \/ is_reportable(c)
         /\ ~(is_pass(c) /\ is_uncomparable(c)) /\ ~(is_pass(c) /\ is_known_issue(c))
         /\ ~(is_pass(c) /\ is_reportable(c))
         /\ ~(is_uncomparable(c) /\ is_known_issue(c))
         /\ ~(is_uncomparable(c) /\ is_reportable(c))
         /\ ~(is_known_issue(c) /\ is_reportable(c))
<1>1. PICK b \in QueryOutcomes, e \in QueryOutcomes, d \in MultisetDiffs :
        c = compare_one(b, e, d)
  BY DEF QueryComparisons
<1>2. CASE b = "rows" /\ e = "rows"
  <2>1. ~c.base_error /\ ~c.equivalent_error /\ ~c.equivalent_known_issue
    BY <1>1, <1>2 DEF compare_one
  <2> QED
    BY <2>1 DEF is_pass, is_uncomparable, is_known_issue, is_reportable, is_error,
                is_mismatch
<1>3. CASE ~(b = "rows" /\ e = "rows")
  <2>1. /\ c.base_error <=> b # "rows"
        /\ c.equivalent_error <=> e # "rows"
        /\ c.equivalent_known_issue <=> e = "known_issue"
        /\ c.equal = FALSE
    BY <1>1, <1>3 DEF compare_one
  <2> QED
    BY <1>3, <2>1 DEF is_pass, is_uncomparable, is_known_issue, is_reportable,
                      is_error, is_mismatch
<1> QED
  BY <1>2, <1>3

\* So the classes of a round's results add up to their number.
LEMMA ClassesAddUp ==
  ASSUME NEW o, o.results \in Seq(QueryComparisons)
  PROVE  /\ HowMany(o, is_pass) \in Nat /\ HowMany(o, is_uncomparable) \in Nat
         /\ HowMany(o, is_known_issue) \in Nat
         /\ IsFiniteSet(Reportable(o)) /\ Cardinality(Reportable(o)) \in Nat
         /\ HowMany(o, is_pass) + HowMany(o, is_uncomparable)
              + HowMany(o, is_known_issue) + Cardinality(Reportable(o))
              = Len(o.results)
<1> DEFINE D == DOMAIN o.results
           P == {i \in D : is_pass(o.results[i])}
           U == {i \in D : is_uncomparable(o.results[i])}
           K == {i \in D : is_known_issue(o.results[i])}
           R == Reportable(o)
<1>1. D = 1..Len(o.results) /\ Len(o.results) \in Nat
  OBVIOUS
<1>2. IsFiniteSet(D) /\ Cardinality(D) = Len(o.results)
  BY <1>1, UpTo
<1>3. \A i \in D : o.results[i] \in QueryComparisons
  OBVIOUS
<1>4. P \in SUBSET D /\ U \in SUBSET D /\ K \in SUBSET D /\ R \in SUBSET D
  BY DEF Reportable
<1>5. /\ IsFiniteSet(P) /\ IsFiniteSet(U) /\ IsFiniteSet(K) /\ IsFiniteSet(R)
      /\ IsFiniteSet(P \cup U) /\ IsFiniteSet((P \cup U) \cup K)
  <2>1. /\ IsFiniteSet(P) /\ IsFiniteSet(U) /\ IsFiniteSet(K) /\ IsFiniteSet(R)
    BY <1>2, <1>4, FS_Subset
  <2> HIDE DEF P, U, K, R, D
  <2>2. IsFiniteSet(P \cup U)
    BY <2>1, FS_Union
  <2> QED
    BY <2>1, <2>2, FS_Union
<1>6. /\ ((P \cup U) \cup K) \cup R = D
      /\ P \cap U = {} /\ (P \cup U) \cap K = {} /\ ((P \cup U) \cup K) \cap R = {}
  BY <1>3, OneClassEach DEF Reportable
<1>7. /\ HowMany(o, is_pass) = Cardinality(P)
      /\ HowMany(o, is_uncomparable) = Cardinality(U)
      /\ HowMany(o, is_known_issue) = Cardinality(K)
  BY DEF HowMany
<1> HIDE DEF P, U, K, R, D
<1>8. Cardinality(P \cup U) = Cardinality(P) + Cardinality(U)
  BY <1>5, <1>6, SetsAddUp
<1>9. Cardinality((P \cup U) \cup K) = Cardinality(P \cup U) + Cardinality(K)
  BY <1>5, <1>6, SetsAddUp
<1>10. Cardinality(D) = Cardinality((P \cup U) \cup K) + Cardinality(R)
  BY <1>5, <1>6, SetsAddUp
<1>11. /\ Cardinality(P) \in Nat /\ Cardinality(U) \in Nat
       /\ Cardinality(K) \in Nat /\ Cardinality(R) \in Nat
  BY <1>5, FS_CardinalityType
<1> QED
  BY <1>2, <1>5, <1>7, <1>8, <1>9, <1>10, <1>11 DEF R

\* Counting a set by rank gives each of its numbers once.
LEMMA NthCounts ==
  ASSUME NEW S \in SUBSET Nat, IsFiniteSet(S)
  PROVE  {Nth(S, k) : k \in 1..Cardinality(S)} = S
<1>1. /\ \A n \in S : Rank(S, n) \in 1..Cardinality(S)
      /\ \A k \in 1..Cardinality(S) : \E n \in S : Rank(S, n) = k
      /\ \A m, n \in S : Rank(S, m) = Rank(S, n) => m = n
  BY RanksAreExact
<1>2. \A k : Nth(S, k) = CHOOSE n \in S : Rank(S, n) = k
  BY DEF Nth, Rank
<1>3. ASSUME NEW k \in 1..Cardinality(S)
      PROVE  Nth(S, k) \in S /\ Rank(S, Nth(S, k)) = k
  BY <1>1, <1>2
<1>4. ASSUME NEW n \in S PROVE \E k \in 1..Cardinality(S) : Nth(S, k) = n
  <2>1. Rank(S, n) \in 1..Cardinality(S)
    BY <1>1
  <2>2. Nth(S, Rank(S, n)) \in S /\ Rank(S, Nth(S, Rank(S, n))) = Rank(S, n)
    BY <1>3, <2>1
  <2> QED
    BY <1>1, <2>1, <2>2
<1> QED
  BY <1>3, <1>4

\* What is in a concatenation is in one of its parts.
LEMMA RangeOfConcat ==
  ASSUME NEW T, NEW s \in Seq(T), NEW t \in Seq(T)
  PROVE  /\ s \o t \in Seq(T) /\ Len(s \o t) = Len(s) + Len(t)
         /\ Range(s \o t) = Range(s) \cup Range(t)
<1> DEFINE st == s \o t
<1>1. /\ st \in Seq(T) /\ Len(st) = Len(s) + Len(t)
      /\ \A i \in 1..(Len(s) + Len(t)) :
           st[i] = IF i <= Len(s) THEN s[i] ELSE t[i - Len(s)]
  BY ConcatProperties
<1> HIDE DEF st
<1>2. /\ DOMAIN st = 1..(Len(s) + Len(t)) /\ DOMAIN s = 1..Len(s)
      /\ DOMAIN t = 1..Len(t) /\ Len(s) \in Nat /\ Len(t) \in Nat
  BY <1>1
<1>3. ASSUME NEW x \in Range(st) PROVE x \in Range(s) \cup Range(t)
  <2>1. PICK i \in DOMAIN st : st[i] = x
    BY DEF Range
  <2>2. CASE i <= Len(s)
    BY <1>1, <1>2, <2>1, <2>2 DEF Range
  <2>3. CASE ~(i <= Len(s))
    <3>1. i - Len(s) \in DOMAIN t /\ t[i - Len(s)] = x
      BY <1>1, <1>2, <2>1, <2>3
    <3> QED
      BY <3>1 DEF Range
  <2> QED
    BY <2>2, <2>3
<1>4. ASSUME NEW x \in Range(s) PROVE x \in Range(st)
  <2>1. PICK i \in DOMAIN s : s[i] = x
    BY DEF Range
  <2>2. i \in DOMAIN st /\ st[i] = x
    BY <1>1, <1>2, <2>1
  <2> QED
    BY <2>2 DEF Range
<1>5. ASSUME NEW x \in Range(t) PROVE x \in Range(st)
  <2>1. PICK i \in DOMAIN t : t[i] = x
    BY DEF Range
  <2>2. PICK j : j = Len(s) + i
    OBVIOUS
  <2>3. j \in DOMAIN st /\ j - Len(s) = i /\ ~(j <= Len(s))
    BY <1>2, <2>1, <2>2
  <2>4. st[j] = x
    BY <1>1, <1>2, <2>1, <2>3
  <2> QED
    BY <2>3, <2>4 DEF Range
<1> QED
  BY <1>1, <1>3, <1>4, <1>5 DEF st

\* The findings of a round are its reportable results and its crash, once each.
LEMMA FindingsOfRound ==
  ASSUME NEW o, o.results \in Seq(QueryComparisons), o.crashed \in BOOLEAN, NEW n
  PROVE  LET F == FindingsOf(o, n)
             E == Reportable(o) \cup Crashes(o)
             crash == o.note # "none" /\ ~is_worker_timeout_noise(o.note)
         IN  /\ Len(F) = Cardinality(Reportable(o)) + (IF crash THEN 1 ELSE 0)
             /\ {<<f.round, f.seq>> : f \in Range(F)} = {n} \X E
             /\ IsFiniteSet(E) /\ Cardinality(E) = Len(F)
<1> DEFINE R == Reportable(o)
           size == Cardinality(R)
           dies == o.note # "none" /\ ~is_worker_timeout_noise(o.note)
           at == IF o.crashed THEN Len(o.results) + 1 ELSE 0
           crash == [kind |-> "crash", round |-> n, seq |-> at]
           finding(i) == [kind |-> IF is_mismatch(o.results[i]) THEN "mismatch"
                                                               ELSE "error",
                          round |-> n, seq |-> i]
           first == IF dies THEN <<crash>> ELSE <<>>
           rest == [k \in 1..size |-> finding(Nth(R, k))]
           F == FindingsOf(o, n)
<1>1. F = first \o rest
  BY DEF FindingsOf, Reportable
<1>2. /\ Len(o.results) \in Nat /\ DOMAIN o.results = 1..Len(o.results)
      /\ R \in SUBSET Nat /\ IsFiniteSet(R) /\ size \in Nat
  <2>1. Len(o.results) \in Nat /\ DOMAIN o.results = 1..Len(o.results)
    OBVIOUS
  <2>2. R \in SUBSET Nat
    BY <2>1 DEF Reportable
  <2>3. IsFiniteSet(R) /\ size \in Nat
    BY ClassesAddUp
  <2> QED
    BY <2>1, <2>2, <2>3
<1>3. Crashes(o) = IF dies THEN {at} ELSE {}
  BY <1>2 DEF Crashes
<1>4. at \notin R
  BY <1>2 DEF Reportable
<1>5. {Nth(R, k) : k \in 1..size} = R
  BY <1>2, NthCounts
<1>6. crash.round = n /\ crash.seq = at
  OBVIOUS
<1>7. \A i : finding(i).round = n /\ finding(i).seq = i
  OBVIOUS
<1> DEFINE T == {crash} \cup {finding(i) : i \in R}
<1>8. \A k \in 1..size : Nth(R, k) \in R
  BY <1>5
<1> HIDE DEF crash, finding, at, dies, R, size
<1>9. first \in Seq(T) /\ rest \in Seq(T) /\ Len(rest) = size
  <2>1. \A k \in 1..size : finding(Nth(R, k)) \in T
    BY <1>8
  <2>2. crash \in T
    OBVIOUS
  <2> HIDE DEF T
  <2>3. first \in Seq(T)
    BY <2>2
  <2>4. rest \in Seq(T) /\ Len(rest) = size
    BY <1>2, <2>1
  <2> QED
    BY <2>3, <2>4
<1>10. Len(first) = IF dies THEN 1 ELSE 0
  OBVIOUS
<1>11. /\ Len(F) = Len(first) + Len(rest)
       /\ Range(F) = Range(first) \cup Range(rest)
  <2> HIDE DEF first, rest, T, F
  <2> QED
    BY <1>1, <1>9, RangeOfConcat
<1>12. Range(first) = IF dies THEN {crash} ELSE {}
  BY DEF Range
<1>13. Range(rest) = {finding(i) : i \in R}
  <2>1. Range(rest) = {finding(Nth(R, k)) : k \in 1..size}
    BY DEF Range
  <2> QED
    BY <1>5, <2>1
<1> HIDE DEF first, rest, T, F
<1>14. {<<f.round, f.seq>> : f \in Range(F)} = {n} \X (R \cup Crashes(o))
  <2>1. ASSUME NEW f \in Range(F)
        PROVE  <<f.round, f.seq>> \in {n} \X (R \cup Crashes(o))
    BY <1>3, <1>6, <1>7, <1>11, <1>12, <1>13
  <2>2. ASSUME NEW j \in R \cup Crashes(o)
        PROVE  \E f \in Range(F) : f.round = n /\ f.seq = j
    BY <1>3, <1>6, <1>7, <1>11, <1>12, <1>13
  <2> QED
    BY <2>1, <2>2
<1>15. /\ IsFiniteSet(R \cup Crashes(o))
       /\ Cardinality(R \cup Crashes(o)) = size + (IF dies THEN 1 ELSE 0)
  <2>1. CASE dies
    <3>1. R \cup Crashes(o) = R \cup {at}
      BY <1>3, <2>1
    <3> QED
      BY <1>2, <1>4, <2>1, <3>1, FS_AddElement DEF size
  <2>2. CASE ~dies
    <3>1. R \cup Crashes(o) = R
      BY <1>3, <2>2
    <3>2. Cardinality(R \cup Crashes(o)) = size
      BY <3>1 DEF size
    <3>3. IsFiniteSet(R \cup Crashes(o))
      BY <1>2, <3>1
    <3>4. size + (IF dies THEN 1 ELSE 0) = size
      BY <1>2, <2>2
    <3> QED
      BY <3>2, <3>3, <3>4
  <2> QED
    BY <2>1, <2>2
<1>16. Len(F) = size + (IF dies THEN 1 ELSE 0)
  BY <1>2, <1>9, <1>10, <1>11
<1> QED
  BY <1>14, <1>15, <1>16 DEF F, R, size, dies

\* The same sets for any number of recorded rounds.
UsableUpTo(n) == {i \in 1..n : Usable(logs[i])}
DeadUpTo(n) == {i \in UsableUpTo(n) : logs[i].note # "none"}
FoundIn(i) == {i - 1} \X (Reportable(logs[i]) \cup Crashes(logs[i]))
ExpectedUpTo(n) == UNION {FoundIn(i) : i \in UsableUpTo(n)}
QueriesUpTo(n) == Cardinality(Queries(n))

LEMMA UpToRecorded ==
  /\ UsableRounds = UsableUpTo(Recorded)
  /\ {i \in UsableRounds : logs[i].note # "none"} = DeadUpTo(Recorded)
  /\ Expected = ExpectedUpTo(Recorded)
BY DEF UsableRounds, UsableUpTo, DeadUpTo, Expected, ExpectedUpTo, FoundIn

\* The log of a round, and what it says.
LEMMA LoggedOutcome ==
  ASSUME Counters, NEW i \in 1..Len(logs)
  PROVE  /\ logs[i].results \in Seq(QueryComparisons) /\ Len(logs[i].results) \in Nat
         /\ logs[i].crashed \in BOOLEAN /\ QueriesOf(logs[i]) \in Nat
<1>1. logs[i] \in Outcomes \cup {NoOutcome}
  BY DEF Counters
<1>2. logs[i].results \in Seq(QueryComparisons) /\ logs[i].crashed \in BOOLEAN
  <2>1. CASE logs[i] \in Outcomes
    BY <2>1, CampaignAssumption DEF RoundOutcome
  <2>2. CASE logs[i] = NoOutcome
    BY <2>2 DEF NoOutcome
  <2> QED
    BY <1>1, <2>1, <2>2
<1>3. Len(logs[i].results) \in Nat
  BY <1>2
<1> QED
  BY <1>2, <1>3 DEF QueriesOf

\* The queries of a round are as many as its log says, those of some rounds finitely many, and
\* one more round adds its own.
LEMMA RanIn ==
  ASSUME NEW i, NEW k \in Nat
  PROVE  IsFiniteSet({i} \X (1..k)) /\ Cardinality({i} \X (1..k)) = k
<1>1. /\ IsFiniteSet({i}) /\ Cardinality({i}) = 1
      /\ IsFiniteSet(1..k) /\ Cardinality(1..k) = k
  BY FS_Singleton, UpTo
<1>2. /\ IsFiniteSet({i} \X (1..k))
      /\ Cardinality({i} \X (1..k)) = Cardinality({i}) * Cardinality(1..k)
  BY <1>1, FS_Product
<1> QED
  BY <1>1, <1>2

LEMMA OneMoreRan ==
  ASSUME NEW n \in Nat, \A i \in 1..(n + 1) : QueriesOf(logs[i]) \in Nat
  PROVE  Cardinality(Queries(n + 1)) = Cardinality(Queries(n)) + QueriesOf(logs[n + 1])
<1> DEFINE T == {{i} \X (1..QueriesOf(logs[i])) : i \in 1..n}
           g == [i \in 1..n |-> {i} \X (1..QueriesOf(logs[i]))]
           last == {n + 1} \X (1..QueriesOf(logs[n + 1]))
<1>1. g \in Surjection(1..n, T)
  BY DEF Surjection
<1>2. IsFiniteSet(T)
  BY <1>1, UpTo, FS_Surjection
<1>3. \A t \in T : IsFiniteSet(t)
  <2>1. ASSUME NEW i \in 1..n PROVE IsFiniteSet({i} \X (1..QueriesOf(logs[i])))
    <3>1. QueriesOf(logs[i]) \in Nat
      OBVIOUS
    <3> QED
      BY <3>1, RanIn
  <2> QED
    BY <2>1
<1>4. IsFiniteSet(Queries(n))
  BY <1>2, <1>3, FS_UNION DEF Queries
<1>5. IsFiniteSet(last) /\ Cardinality(last) = QueriesOf(logs[n + 1])
  <2>1. QueriesOf(logs[n + 1]) \in Nat
    OBVIOUS
  <2> QED
    BY <2>1, RanIn
<1>6. Queries(n + 1) = Queries(n) \cup last
  <2>1. 1..(n + 1) = 1..n \cup {n + 1}
    OBVIOUS
  <2> QED
    BY <2>1 DEF Queries
<1>7. Queries(n) \cap last = {}
  BY DEF Queries
<1> HIDE DEF last
<1> QED
  BY <1>4, <1>5, <1>6, <1>7, SetsAddUp

\* One more round in the sets and in what is counted.
LEMMA OneMoreLog ==
  ASSUME Counters, NEW n \in Nat, n + 1 <= Len(logs),
         IsFiniteSet(ExpectedUpTo(n))
  PROVE  LET usable == Usable(logs[n + 1])
             found_here == Reportable(logs[n + 1]) \cup Crashes(logs[n + 1])
         IN  /\ QueriesUpTo(n + 1) = QueriesUpTo(n) + QueriesOf(logs[n + 1])
             /\ Cardinality(DeadUpTo(n)) \in Nat
             /\ Cardinality(DeadUpTo(n + 1)) = Cardinality(DeadUpTo(n))
                  + (IF usable /\ logs[n + 1].note # "none" THEN 1 ELSE 0)
             /\ ExpectedUpTo(n + 1) = ExpectedUpTo(n) \cup
                  (IF usable THEN {n} \X found_here ELSE {})
             /\ IsFiniteSet(ExpectedUpTo(n + 1))
             /\ Cardinality(ExpectedUpTo(n + 1)) = Cardinality(ExpectedUpTo(n))
                  + (IF usable THEN Cardinality(found_here) ELSE 0)
<1> DEFINE o == logs[n + 1]
           usable == Usable(o)
           here == Reportable(o) \cup Crashes(o)
<1>1. n + 1 \in 1..Len(logs) /\ Len(logs) \in Nat
  BY DEF Counters
<1>2. 1..(n + 1) = 1..n \cup {n + 1} /\ n + 1 \notin 1..n
  OBVIOUS
<1>3. QueriesUpTo(n + 1) = QueriesUpTo(n) + QueriesOf(o)
  <2>1. \A i \in 1..(n + 1) : QueriesOf(logs[i]) \in Nat
    BY <1>1, LoggedOutcome
  <2> QED
    BY <2>1, OneMoreRan DEF QueriesUpTo
<1>4. UsableUpTo(n + 1) = UsableUpTo(n) \cup (IF usable THEN {n + 1} ELSE {})
  BY <1>2 DEF UsableUpTo
<1>5. DeadUpTo(n + 1) =
        DeadUpTo(n) \cup (IF usable /\ o.note # "none" THEN {n + 1} ELSE {})
  BY <1>4 DEF DeadUpTo
<1>6. IsFiniteSet(DeadUpTo(n)) /\ n + 1 \notin DeadUpTo(n)
  <2>1. DeadUpTo(n) \in SUBSET (1..n)
    BY DEF DeadUpTo, UsableUpTo
  <2> QED
    BY <1>2, <2>1, UpTo, FS_Subset
<1>7. /\ Cardinality(DeadUpTo(n)) \in Nat
      /\ Cardinality(DeadUpTo(n + 1)) = Cardinality(DeadUpTo(n))
           + (IF usable /\ o.note # "none" THEN 1 ELSE 0)
  <2>1. Cardinality(DeadUpTo(n)) \in Nat
    BY <1>6, FS_CardinalityType
  <2>2. CASE usable /\ o.note # "none"
    <3>1. DeadUpTo(n + 1) = DeadUpTo(n) \cup {n + 1}
      BY <1>5, <2>2
    <3>2. Cardinality(DeadUpTo(n + 1)) = Cardinality(DeadUpTo(n)) + 1
      BY <1>6, <3>1, FS_AddElement
    <3> QED
      BY <2>1, <2>2, <3>2
  <2>3. CASE ~(usable /\ o.note # "none")
    <3>1. DeadUpTo(n + 1) = DeadUpTo(n)
      BY <1>5, <2>3
    <3> QED
      BY <2>1, <2>3, <3>1
  <2> QED
    BY <2>2, <2>3
<1>8. ExpectedUpTo(n + 1) =
        ExpectedUpTo(n) \cup (IF usable THEN {n} \X here ELSE {})
  <2>1. FoundIn(n + 1) = {n} \X here
    BY DEF FoundIn
  <2> HIDE DEF here, usable, o
  <2> QED
    BY <1>4, <2>1 DEF ExpectedUpTo
<1>9. ExpectedUpTo(n) \cap ({n} \X here) = {}
  <2>1. ASSUME NEW x \in ExpectedUpTo(n), NEW y \in {n} \X here PROVE x # y
    <3>1. PICK i \in 1..n : x \in FoundIn(i)
      BY DEF ExpectedUpTo, UsableUpTo
    <3>2. x[1] = i - 1 /\ y[1] = n
      BY <3>1 DEF FoundIn
    <3> QED
      BY <3>2
  <2> QED
    BY <2>1
<1>10. IsFiniteSet(here) /\ Cardinality(here) \in Nat
  <2>1. o.results \in Seq(QueryComparisons) /\ o.crashed \in BOOLEAN
    BY <1>1, LoggedOutcome
  <2>2. IsFiniteSet(here)
    BY <2>1, FindingsOfRound
  <2> QED
    BY <2>2, FS_CardinalityType
<1> HIDE DEF here
<1>11. IsFiniteSet({n} \X here) /\ Cardinality({n} \X here) = Cardinality(here)
  <2>1. IsFiniteSet({n}) /\ Cardinality({n}) = 1
    BY FS_Singleton
  <2>2. /\ IsFiniteSet({n} \X here)
        /\ Cardinality({n} \X here) = Cardinality({n}) * Cardinality(here)
    BY <1>10, <2>1, FS_Product
  <2> QED
    BY <1>10, <2>1, <2>2
<1>12. /\ IsFiniteSet(ExpectedUpTo(n + 1))
       /\ Cardinality(ExpectedUpTo(n + 1)) = Cardinality(ExpectedUpTo(n))
            + (IF usable THEN Cardinality(here) ELSE 0)
  <2>1. Cardinality(ExpectedUpTo(n)) \in Nat
    BY FS_CardinalityType
  <2>2. CASE usable
    <3>1. ExpectedUpTo(n + 1) = ExpectedUpTo(n) \cup ({n} \X here)
      BY <1>8, <2>2
    <3>2. IsFiniteSet(ExpectedUpTo(n + 1))
      <4>1. IsFiniteSet(ExpectedUpTo(n) \cup ({n} \X here))
        BY <1>11, FS_Union
      <4> QED
        BY <3>1, <4>1
    <3>3. Cardinality(ExpectedUpTo(n + 1)) =
            Cardinality(ExpectedUpTo(n)) + Cardinality({n} \X here)
      BY <1>9, <1>11, <3>1, SetsAddUp
    <3> QED
      BY <1>11, <2>2, <3>2, <3>3
  <2>3. CASE ~usable
    <3>1. ExpectedUpTo(n + 1) = ExpectedUpTo(n)
      BY <1>8, <2>3
    <3>2. Cardinality(ExpectedUpTo(n)) + (IF usable THEN Cardinality(here) ELSE 0)
            = Cardinality(ExpectedUpTo(n))
      BY <2>1, <2>3
    <3> QED
      BY <3>1, <3>2
  <2> QED
    BY <2>2, <2>3
<1> QED
  BY <1>3, <1>7, <1>8, <1>12 DEF here

\* The accounting over the first n rounds, with what the steps do not touch apart
\* from what they do.
Numbers(r) ==
  /\ r.queries_run \in Nat /\ r.passed \in Nat /\ r.skipped \in Nat
  /\ r.known \in Nat /\ r.worker_timeout \in Nat
  /\ {"queries_run", "passed", "skipped", "known", "worker_timeout"} \subseteq DOMAIN r
ReportIs(r, n) ==
  /\ Numbers(r) /\ r.queries_run = QueriesUpTo(n)
  /\ r.passed + r.skipped + Len(r.findings) =
       r.queries_run + Cardinality(DeadUpTo(n))
  /\ r.known + r.worker_timeout <= r.skipped
  /\ IsFiniteSet(ExpectedUpTo(n))
  /\ {<<f.round, f.seq>> : f \in Range(r.findings)} = ExpectedUpTo(n)
  /\ Len(r.findings) = Cardinality(ExpectedUpTo(n))
ReportAt(n) == ReportIs(report, n)
PlacesAt(n) ==
  /\ pc \in {"top", "hook", "record"} => round = n
  /\ pc \in {"write", "index"} => round + 1 = n /\ Usable(logs[n])
  /\ \A f \in files : f[2] \in Nat /\ f[2] < n /\ Usable(logs[f[2] + 1])
  /\ Len(logs) - n \in {0, 1}

LEMMA AccountingAt ==
  \A n : Recorded = n => (Accounting <=> ReportAt(n) /\ PlacesAt(n))
<1> SUFFICES ASSUME NEW n, Recorded = n
             PROVE  Accounting <=> ReportAt(n) /\ PlacesAt(n)
  OBVIOUS
<1>1. QueriesUpTo(n) = Cardinality(Queries(Recorded))
  BY DEF QueriesUpTo
<1>2. /\ {i \in UsableRounds : logs[i].note # "none"} = DeadUpTo(n)
      /\ Expected = ExpectedUpTo(n)
  BY UpToRecorded
<1>3. ReportAddsUp <=>
        /\ report.queries_run = QueriesUpTo(n)
        /\ report.passed + report.skipped + Len(report.findings) =
             report.queries_run + Cardinality(DeadUpTo(n))
        /\ report.known + report.worker_timeout <= report.skipped
        /\ Len(logs) - n \in {0, 1}
  BY <1>1, <1>2 DEF ReportAddsUp
<1>4. FindingsAreTheReportable <=>
        /\ {<<f.round, f.seq>> : f \in Range(report.findings)} = ExpectedUpTo(n)
        /\ Len(report.findings) = Cardinality(ExpectedUpTo(n))
        /\ \A f \in files : Usable(logs[f[2] + 1])
  BY <1>2 DEF FindingsAreTheReportable
<1>5. Totals <=>
        /\ Numbers(report)
        /\ pc \in {"top", "hook", "record"} => round = n
        /\ pc \in {"write", "index"} => round + 1 = n /\ Usable(logs[n])
        /\ \A f \in files : f[2] \in Nat /\ f[2] < n
        /\ IsFiniteSet(ExpectedUpTo(n))
  BY <1>2 DEF Totals, Numbers
<1> QED
  BY <1>3, <1>4, <1>5 DEF Accounting, ReportAt, ReportIs, PlacesAt

LEMMA AccountingNext ==
  \A n : Recorded' = n => (Accounting' <=> ReportAt(n)' /\ PlacesAt(n)')
<1>1. (\A n : Recorded = n => (Accounting <=> ReportAt(n) /\ PlacesAt(n)))'
  BY AccountingAt, PTL
<1> QED
  BY <1>1

\* At first nothing has been run.
LEMMA InitAccounting == Init => Accounting
<1> SUFFICES ASSUME Init PROVE Accounting
  OBVIOUS
<1>1. Recorded = 0 /\ pc = "top" /\ round = 0 /\ files = {} /\ logs = <<>>
  BY DEF Init, Recorded
<1>2. UsableUpTo(0) = {} /\ DeadUpTo(0) = {} /\ ExpectedUpTo(0) = {}
  <2>1. UsableUpTo(0) = {}
    BY DEF UsableUpTo
  <2> QED
    BY <2>1 DEF DeadUpTo, ExpectedUpTo
<1>3. QueriesUpTo(0) = 0
  <2>1. Queries(0) = {}
    BY DEF Queries
  <2> QED
    BY <2>1, FS_EmptySet DEF QueriesUpTo
<1>4. IsFiniteSet({}) /\ Cardinality({}) = 0
  BY FS_EmptySet
<1>5. /\ Numbers(report) /\ report.queries_run = 0 /\ report.passed = 0
      /\ report.skipped = 0 /\ report.known = 0 /\ report.worker_timeout = 0
      /\ report.findings = <<>>
  BY DEF Init, Numbers
<1>6. Range(report.findings) = {} /\ Len(report.findings) = 0
  BY <1>5 DEF Range
<1>7. ReportAt(0)
  <2>1. /\ Cardinality(DeadUpTo(0)) = 0 /\ IsFiniteSet(ExpectedUpTo(0))
        /\ Cardinality(ExpectedUpTo(0)) = 0
    BY <1>2, <1>4
  <2>2. {<<f.round, f.seq>> : f \in Range(report.findings)} = ExpectedUpTo(0)
    BY <1>2, <1>6
  <2> QED
    BY <1>3, <1>5, <1>6, <2>1, <2>2 DEF ReportAt, ReportIs
<1>8. PlacesAt(0)
  BY <1>1 DEF PlacesAt
<1> QED
  BY <1>1, <1>7, <1>8, AccountingAt

\* What is said of the first n rounds depends on their logs only.
LEMMA SameLogsSameReport ==
  ASSUME NEW n \in Nat, \A i \in 1..n : logs'[i] = logs[i], NEW r, ReportIs(r, n)
  PROVE  ReportIs(r, n)'
<1>1. UsableUpTo(n)' = UsableUpTo(n)
  BY DEF UsableUpTo
<1>2. \A i \in UsableUpTo(n) : i \in 1..n
  BY DEF UsableUpTo
<1>3. DeadUpTo(n)' = DeadUpTo(n)
  BY <1>1, <1>2 DEF DeadUpTo
<1>4. ExpectedUpTo(n)' = ExpectedUpTo(n)
  BY <1>1, <1>2 DEF ExpectedUpTo, FoundIn
<1>5. QueriesUpTo(n)' = QueriesUpTo(n)
  <2>1. Queries(n)' = Queries(n)
    BY DEF Queries
  <2> QED
    BY <2>1 DEF QueriesUpTo
<1> QED
  BY <1>1, <1>3, <1>4, <1>5 DEF ReportIs


\* A step that records nothing, whatever it adds to the logs and to the files.
LEMMA QuietAccounts ==
  ASSUME Aborting, Accounting, Aborting', [Next]_vars,
         ~RecordUnbuildable, ~RecordDiverged, ~RecordRound,
         files' = files \/ (WriteRepro /\ Writing)
  PROVE  Accounting'
<1> USE DEF runVars, NextRound
<1>1. PICK n : n = Recorded
  OBVIOUS
<1>2. UNCHANGED report /\ Recorded' = n
  <2>1. UNCHANGED report
    BY DEF Next, Loop, LoopEnds, RunRound, RoundRaises, Hook, HookRaises, WriteRepro,
           WriteIndex, WriteFails, RoundDone, Summary, Interrupt, Terminated, vars
  <2> QED
    BY <1>1, <2>1 DEF Recorded
<1>3. /\ n \in Nat /\ logs \in Seq(Outcomes \cup {NoOutcome})
      /\ Len(logs) \in Nat /\ n <= Len(logs)
  <2>1. n \in Nat /\ logs \in Seq(Outcomes \cup {NoOutcome})
    BY <1>1, SMTT(30) DEF Aborting, Counters, Recorded
  <2>2. Len(logs) \in {n, n + 1}
    BY <1>1 DEF Aborting, LogsAndReport
  <2> QED
    BY <2>1, <2>2
<1>4. logs' = logs \/ \E o : logs' = Append(logs, o)
  BY DEF Next, Loop, LoopEnds, RunRound, RoundRaises, Hook, HookRaises, WriteRepro,
         WriteIndex, WriteFails, RoundDone, Summary, Interrupt, Terminated, vars
<1>5. \A i \in 1..n : logs'[i] = logs[i]
  BY <1>3, <1>4
<1>6. ReportAt(n) /\ PlacesAt(n)
  BY <1>1, AccountingAt
<1>7. ReportAt(n)'
  <2>1. PICK r : r = report
    OBVIOUS
  <2>2. ReportIs(r, n)'
    BY <1>3, <1>5, <1>6, <2>1, SameLogsSameReport DEF ReportAt
  <2> QED
    BY <1>2, <2>1, <2>2 DEF ReportAt
<1>8. PlacesAt(n)'
  <2>1. Len(logs') - n \in {0, 1}
    <3>1. Len(logs') \in {n, n + 1}
      BY <1>2 DEF Aborting, LogsAndReport
    <3> QED
      BY <1>3, <3>1
  <2>2. pc' \in {"top", "hook", "record"} => round' = n
    BY <1>6 DEF PlacesAt, Next, Loop, LoopEnds, RunRound, RoundRaises, Hook,
           HookRaises, WriteRepro, WriteIndex, WriteFails, RoundDone, Summary,
           Interrupt, Terminated, vars
  <2>3. pc' \in {"write", "index"} =>
          pc \in {"write", "index"} /\ round' = round /\ logs' = logs
    BY DEF Next, Loop, LoopEnds, RunRound, RoundRaises, Hook,
           HookRaises, WriteRepro, WriteIndex, WriteFails, RoundDone, Summary,
           Interrupt, Terminated, vars
  <2>4. ASSUME NEW f \in files'
        PROVE  f[2] \in Nat /\ f[2] < n /\ Usable(logs'[f[2] + 1])
    <3>1. CASE f \in files
      <4>1. f[2] \in Nat /\ f[2] < n /\ Usable(logs[f[2] + 1])
        BY <1>6, <3>1 DEF PlacesAt
      <4>2. f[2] + 1 \in 1..n
        BY <1>3, <4>1
      <4> QED
        BY <1>5, <4>1, <4>2
    <3>2. CASE f \notin files
      <4>1. WriteRepro /\ Writing /\ f = FileName(found[written + 1], written)
        BY <3>2 DEF WriteRepro
      <4>2. /\ found[written + 1].round = round
        <5>1. written + 1 \in DOMAIN found /\ pc = "write"
          BY <4>1 DEF WriteRepro, Writing, Lists
        <5> QED
          BY <4>1, <5>1 DEF Writing, Lists
      <4>3. f[2] = round
        BY <4>1, <4>2 DEF FileName
      <4>4. round + 1 = n /\ Usable(logs[n]) /\ round \in Nat /\ logs' = logs
        BY <1>6, <4>1 DEF PlacesAt, WriteRepro, Aborting, Counters
      <4> QED
        BY <1>3, <4>3, <4>4
    <3> QED
      BY <3>1, <3>2
  <2> QED
    BY <1>6, <2>1, <2>2, <2>3, <2>4 DEF PlacesAt
<1> QED
  BY <1>2, <1>7, <1>8, AccountingNext

\* Only write_finding makes a file.
LEMMA OnlyWritesMakeFiles ==
  ASSUME [Next]_vars, ~WriteRepro
  PROVE  files' = files
BY DEF Next, Loop, LoopEnds, RunRound, RoundRaises, Hook, HookRaises, RecordUnbuildable,
       RecordDiverged, RecordRound, WriteIndex, WriteFails, RoundDone, Summary,
       Interrupt, Terminated, vars, runVars


\* record_round extends an account of n rounds to one of n + 1.
LEMMA RecordExtends ==
  ASSUME Counters, Lists, NEW n \in Nat, n + 1 <= Len(logs), ReportAt(n),
         NEW r, r = record_round(report, logs[n + 1], n)
  PROVE  ReportIs(r, n + 1)
<1> DEFINE o == logs[n + 1]
           E == Reportable(o) \cup Crashes(o)
           timeout == IF is_worker_timeout_noise(o.note) THEN 1 ELSE 0
           dies == IF o.note # "none" /\ ~is_worker_timeout_noise(o.note) THEN 1 ELSE 0
           F == FindingsOf(o, n)
           pass == HowMany(o, is_pass)
           uncomparable == HowMany(o, is_uncomparable)
           known == HowMany(o, is_known_issue)
<1>1. /\ Numbers(report) /\ report.queries_run = QueriesUpTo(n)
      /\ report.passed + report.skipped + Len(report.findings) =
           report.queries_run + Cardinality(DeadUpTo(n))
      /\ report.known + report.worker_timeout <= report.skipped
      /\ IsFiniteSet(ExpectedUpTo(n))
      /\ {<<f.round, f.seq>> : f \in Range(report.findings)} = ExpectedUpTo(n)
      /\ Len(report.findings) = Cardinality(ExpectedUpTo(n))
  BY DEF ReportAt, ReportIs
<1>2. /\ o.results \in Seq(QueryComparisons) /\ Len(o.results) \in Nat
      /\ o.crashed \in BOOLEAN
  <2>1. n + 1 \in 1..Len(logs)
    BY DEF Counters
  <2> QED
    BY <2>1, LoggedOutcome
<1>3. /\ QueriesUpTo(n + 1) = QueriesUpTo(n) + QueriesOf(o)
      /\ Cardinality(DeadUpTo(n)) \in Nat
      /\ Cardinality(DeadUpTo(n + 1)) = Cardinality(DeadUpTo(n))
           + (IF Usable(o) /\ o.note # "none" THEN 1 ELSE 0)
      /\ ExpectedUpTo(n + 1) = ExpectedUpTo(n) \cup (IF Usable(o) THEN {n} \X E ELSE {})
      /\ IsFiniteSet(ExpectedUpTo(n + 1))
      /\ Cardinality(ExpectedUpTo(n + 1)) = Cardinality(ExpectedUpTo(n))
           + (IF Usable(o) THEN Cardinality(E) ELSE 0)
  BY <1>1, OneMoreLog
<1>4. Len(report.findings) \in Nat /\ Cardinality(ExpectedUpTo(n)) \in Nat
  BY <1>1 DEF Lists
<1>5. CASE ~Usable(o)
  <2>1. /\ r.queries_run = report.queries_run /\ r.passed = report.passed
        /\ r.skipped = report.skipped /\ r.known = report.known
        /\ r.worker_timeout = report.worker_timeout
        /\ r.findings = report.findings /\ DOMAIN r = DOMAIN report
    BY <1>1, <1>5 DEF record_round, Usable, Numbers, Counters
  <2>2. /\ QueriesUpTo(n + 1) = QueriesUpTo(n)
        /\ Cardinality(DeadUpTo(n + 1)) = Cardinality(DeadUpTo(n))
        /\ ExpectedUpTo(n + 1) = ExpectedUpTo(n)
    <3>1. QueriesOf(o) = 0
      BY <1>5 DEF QueriesOf
    <3>2. QueriesUpTo(n) \in Nat
      BY <1>1 DEF Numbers
    <3>3. QueriesUpTo(n + 1) = QueriesUpTo(n)
      <4>1. QueriesUpTo(n + 1) = QueriesUpTo(n) + 0
        BY <1>3, <3>1
      <4> QED
        BY <3>2, <4>1
    <3>4. Cardinality(DeadUpTo(n + 1)) = Cardinality(DeadUpTo(n))
      <4>1. Cardinality(DeadUpTo(n + 1)) = Cardinality(DeadUpTo(n)) + 0
        BY <1>3, <1>5
      <4> QED
        BY <1>3, <4>1
    <3>5. ExpectedUpTo(n + 1) = ExpectedUpTo(n)
      BY <1>3, <1>5
    <3> QED
      BY <3>3, <3>4, <3>5
  <2> QED
    BY <1>1, <2>1, <2>2 DEF ReportIs, Numbers
<1>6. CASE Usable(o)
  <2>1. r = Tally(report, o, n)
    BY <1>6 DEF record_round, Usable
  <2>2. /\ r.queries_run = report.queries_run + Len(o.results)
        /\ r.passed = report.passed + pass
        /\ r.skipped = report.skipped + uncomparable
             + known + timeout
        /\ r.known = report.known + known
        /\ r.worker_timeout = report.worker_timeout + timeout
        /\ r.findings = report.findings \o F /\ DOMAIN r = DOMAIN report
    <3> HIDE DEF o, F
    <3> QED
      BY <1>1, <2>1 DEF Tally, Numbers, Counters, F, timeout
  <2>3. /\ pass \in Nat /\ uncomparable \in Nat
        /\ known \in Nat /\ Cardinality(Reportable(o)) \in Nat
        /\ pass + uncomparable
             + known + Cardinality(Reportable(o)) = Len(o.results)
    <3> HIDE DEF o
    <3> QED
      BY <1>2, ClassesAddUp
  <2>4. /\ Len(F) = Cardinality(Reportable(o)) + dies
        /\ {<<f.round, f.seq>> : f \in Range(F)} = {n} \X E
        /\ Cardinality(E) = Len(F)
    <3> HIDE DEF o
    <3> QED
      BY <1>2, FindingsOfRound
  <2>5. /\ Len(r.findings) = Len(report.findings) + Len(F)
        /\ Range(r.findings) = Range(report.findings) \cup Range(F)
    <3> HIDE DEF o, F
    <3>1. PICK T : F \in Seq(T)
      BY <1>2, FindingsOfARound DEF F
    <3>2. report.findings \in Seq(Range(report.findings))
      BY DEF Lists
    <3> DEFINE A == Range(report.findings) \cup T
    <3>3. report.findings \in Seq(A) /\ F \in Seq(A)
      BY <3>1, <3>2
    <3> HIDE DEF A
    <3> QED
      BY <2>2, <3>3, RangeOfConcat
  <2>6. /\ timeout \in 0..1 /\ dies \in 0..1
        /\ timeout + dies = IF o.note # "none" THEN 1 ELSE 0
    BY DEF is_worker_timeout_noise
  <2>7. /\ Numbers(r) /\ r.known + r.worker_timeout <= r.skipped
        /\ r.passed + r.skipped + Len(r.findings) =
             r.queries_run + (Cardinality(DeadUpTo(n)) + timeout + dies)
    <3>1. timeout \in Nat /\ dies \in Nat
      BY <2>6
    <3> HIDE DEF o, timeout, dies, F, pass, uncomparable, known
    <3> DEFINE d == Cardinality(DeadUpTo(n))
               f == Len(report.findings)
               reportable == Cardinality(Reportable(o))
               len == Len(o.results)
               q == report.queries_run
               p == report.passed
               s == report.skipped
               k == report.known
               w == report.worker_timeout
    <3>2. /\ q \in Nat /\ p \in Nat /\ s \in Nat /\ k \in Nat /\ w \in Nat
          /\ d \in Nat /\ f \in Nat /\ reportable \in Nat /\ len \in Nat
          /\ pass \in Nat /\ uncomparable \in Nat /\ known \in Nat
          /\ p + s + f = q + d /\ k + w <= s
          /\ pass + uncomparable + known + reportable = len
      BY <1>1, <1>2, <1>3, <1>4, <2>3 DEF Numbers
    <3>3. /\ Len(r.findings) = f + (reportable + dies)
          /\ r.queries_run = q + len /\ r.passed = p + pass
          /\ r.skipped = s + uncomparable + known + timeout
          /\ r.known = k + known /\ r.worker_timeout = w + timeout
      BY <2>2, <2>4, <2>5
    <3> HIDE DEF d, f, reportable, len, q, p, s, k, w
    <3>4. (p + pass) + (s + uncomparable + known + timeout) + (f + (reportable + dies))
            = (q + len) + (d + timeout + dies)
      BY <3>1, <3>2
    <3>5. /\ (k + known) + (w + timeout) <= s + uncomparable + known + timeout
          /\ q + len \in Nat /\ p + pass \in Nat /\ k + known \in Nat
          /\ w + timeout \in Nat /\ s + uncomparable + known + timeout \in Nat
      BY <3>1, <3>2
    <3>6. Numbers(r)
      BY <1>1, <2>2, <3>3, <3>5 DEF Numbers
    <3> QED
      BY <3>3, <3>4, <3>5, <3>6 DEF d
  <2>8. r.queries_run = QueriesUpTo(n + 1)
    BY <1>1, <1>3, <1>6, <2>2 DEF QueriesOf
  <2>9. r.passed + r.skipped + Len(r.findings) =
          r.queries_run + Cardinality(DeadUpTo(n + 1))
    <3>1. Cardinality(DeadUpTo(n + 1)) = Cardinality(DeadUpTo(n)) + timeout + dies
      BY <1>3, <1>6, <2>6
    <3> QED
      BY <2>7, <3>1
  <2>10. {<<f.round, f.seq>> : f \in Range(r.findings)} = ExpectedUpTo(n + 1)
    <3>1. ExpectedUpTo(n + 1) = ExpectedUpTo(n) \cup ({n} \X E)
      BY <1>3, <1>6
    <3> DEFINE X == {n} \X E
               S == Range(report.findings)
               T == Range(F)
    <3>2. {<<f.round, f.seq>> : f \in S} = ExpectedUpTo(n)
      BY <1>1
    <3>3. {<<f.round, f.seq>> : f \in T} = X
      BY <2>4
    <3>4. Range(r.findings) = S \cup T
      BY <2>5
    <3>5. ExpectedUpTo(n + 1) = ExpectedUpTo(n) \cup X
      BY <3>1
    <3> HIDE DEF X, S, T, o, F, E
    <3> QED
      BY <3>2, <3>3, <3>4, <3>5
  <2>11. Len(r.findings) = Cardinality(ExpectedUpTo(n + 1))
    BY <1>1, <1>3, <1>6, <2>4, <2>5
  <2> QED
    BY <1>3, <2>7, <2>8, <2>9, <2>10, <2>11 DEF ReportIs
<1> QED
  BY <1>5, <1>6

\* The steps that record a round.
LEMMA RecordingAccounts ==
  ASSUME Aborting, Writing, Accounting, Aborting',
         RecordUnbuildable \/ RecordDiverged \/ RecordRound
  PROVE  Accounting'
<1>1. /\ pc = "record" /\ UNCHANGED <<logs, files>>
      /\ report' = record_round(report, outcome, round)
      /\ \/ pc' = "ended"
         \/ pc' = "top" /\ round' = round + 1
         \/ pc' = "write" /\ round' = round /\ Usable(outcome)
  BY DEF RecordUnbuildable, RecordDiverged, RecordRound, NextRound, runVars
<1>2. PICK n : n = Recorded
  OBVIOUS
<1>3. /\ n \in Nat /\ Recorded' = n + 1 /\ Len(logs) = n + 1
      /\ outcome = logs[n + 1] /\ Counters
  BY <1>1, <1>2, Recording DEF Aborting
<1>4. ReportAt(n) /\ PlacesAt(n) /\ round = n
  BY <1>1, <1>2, AccountingAt DEF PlacesAt
<1>5. PICK r : r = report'
  OBVIOUS
<1>6. ReportIs(r, n + 1)
  <2>1. Lists /\ n + 1 <= Len(logs) /\ r = record_round(report, logs[n + 1], n)
    BY <1>1, <1>3, <1>4, <1>5 DEF Writing
  <2> QED
    BY <1>3, <1>4, <2>1, RecordExtends
<1>7. ReportAt(n + 1)'
  <2>1. n + 1 \in Nat /\ \A i \in 1..(n + 1) : logs'[i] = logs[i]
    BY <1>1, <1>3
  <2>2. ReportIs(r, n + 1)'
    BY <1>6, <2>1, SameLogsSameReport
  <2> QED
    BY <1>5, <2>2 DEF ReportAt
<1>8. PlacesAt(n + 1)'
  <2>1. \A f \in files : f[2] \in Nat /\ f[2] < n + 1 /\ Usable(logs[f[2] + 1])
    BY <1>3, <1>4 DEF PlacesAt
  <2> QED
    BY <1>1, <1>3, <1>4, <2>1 DEF PlacesAt
<1> QED
  BY <1>3, <1>7, <1>8, AccountingNext

\* The whole inductive invariant of a campaign, for any rounds and any limit.
THEOREM CampaignInvariant == Spec => []IInv
<1>1. Aborting /\ Writing /\ Accounting /\ Aborting' /\ [Next]_vars => Accounting'
  BY QuietAccounts, RecordingAccounts, OnlyWritesMakeFiles
<1>2. Aborting /\ Writing /\ Accounting => IInv
  BY DEF IInv
<1> QED
  BY <1>1, <1>2, InitAccounting, AbortingHolds, WritingHolds, PTL DEF Spec

\* Every query of a usable round is a pass, a skip or a finding and only one of
\* them, a worker that died is one more, and record_round misses at most the round
\* in which the campaign was ended.
THEOREM TotalsAddUp == Spec => []ReportAddsUp
<1>1. IInv => ReportAddsUp
  BY DEF IInv, Accounting
<1> QED
  BY <1>1, CampaignInvariant, PTL

\* The findings of the report are the reportable queries of the rounds that can be
\* trusted and their crashes, each once, and a diverged round leaves no file.
THEOREM NothingElseIsReported == Spec => []FindingsAreTheReportable
<1>1. IInv => FindingsAreTheReportable
  BY DEF IInv, Accounting
<1> QED
  BY <1>1, CampaignInvariant, PTL
=============================================================================
