------------------------------ MODULE Campaign ------------------------------
(***************************************************************************)
(* The fuzzing loop (run_fuzz in eqgen/fuzz/cli.py) and its accounting     *)
(* (record_round and write_finding in eqgen/fuzz/report.py).  A round is   *)
(* what RoundContract says of it: here it is one step that yields an       *)
(* outcome, or an exception.  Ctrl-C may strike between any two steps.     *)
(***************************************************************************)
EXTENDS Comparison, Integers, Sequences, FiniteSets, SequencesExt

CONSTANTS
  Rounds,          \* --rounds
  MaxUnbuildable,  \* max_consecutive_unbuildable
  Outcomes,        \* the RoundOutcomes that run_round can return
  BannerMayFail    \* engine_banner asks the server, which may be dead

\* The notes _crash_note and _recv write for the end of a worker.
Notes == {"none", "hung", "sigkill", "signal", "status"}

RoundOutcome ==
  [setup_error : BOOLEAN, setup_crash : BOOLEAN,
   object : {"none", "equal", "diverged"}, results : Seq(QueryComparisons),
   crashed : BOOLEAN, note : Notes]

\* run_round keeps these apart: a setup that failed has compared nothing, and
\* only a crash has a note.
WellFormed(o) ==
  /\ o.setup_error \/ o.setup_crash <=> o.object = "none"
  /\ ~(o.setup_error /\ o.setup_crash)
  /\ o.object = "none" => o.results = <<>> /\ ~o.crashed
  /\ o.note # "none" <=> o.setup_crash \/ o.crashed

ASSUME CampaignAssumption ==
  /\ Rounds \in Nat /\ MaxUnbuildable \in Nat \ {0}
  /\ BannerMayFail \in BOOLEAN
  /\ \A o \in Outcomes : o \in RoundOutcome /\ WellFormed(o)

VARIABLES
  pc,           \* "top", "hook", "record", "write", "index", "summary", "ended"
  round,        \* round_number
  consecutive,  \* consecutive_unbuildable
  report,       \* the FuzzReport
  outcome,      \* the last RoundOutcome
  found,        \* the findings of the last round
  written,      \* how many of them have a repro file
  logs,         \* the round logs in the run directory, each with its outcome
  files,        \* the repro files in the run directory, by name
  index,        \* findings.txt
  end           \* how run_fuzz ended: "none" while it runs

runVars == <<logs, files, index>>
vars == <<pc, round, consecutive, report, outcome, found, written, runVars,
          end>>

NoOutcome ==
  [setup_error |-> FALSE, setup_crash |-> FALSE, object |-> "none",
   results |-> <<>>, crashed |-> FALSE, note |-> "none"]

\* Mutant: the name of the repro has no index.
FileNameWithoutIndex(finding, i) == <<finding.kind, finding.round, 0>>

\* The name of the repro file: <kind>_round<n>_<index>.sql.
FileName(finding, i) == <<finding.kind, finding.round, i>>

-----------------------------------------------------------------------------
(* record_round *)

\* Harness noise: a worker killed on a timeout, or by the kernel for memory.
is_worker_timeout_noise(note) == note \in {"hung", "sigkill"}

HowMany(o, Is(_)) == Cardinality({i \in DOMAIN o.results : Is(o.results[i])})

\* The k-th smallest of a set of numbers.
Nth(S, k) == CHOOSE n \in S : Cardinality({m \in S : m <= n}) = k

\* The findings of a round: its crash first, then its reportable comparisons in
\* the order they ran.  seq is the position of the query, 0 for no query.
FindingsOf(o, n) ==
  LET crash == [kind |-> "crash", round |-> n,
                seq |-> IF o.crashed THEN Len(o.results) + 1 ELSE 0]
      reportable == {i \in DOMAIN o.results : is_reportable(o.results[i])}
      finding(i) == [kind |-> IF is_mismatch(o.results[i]) THEN "mismatch"
                                                         ELSE "error",
                     round |-> n, seq |-> i]
  IN  (IF o.note # "none" /\ ~is_worker_timeout_noise(o.note)
         THEN <<crash>> ELSE <<>>)
      \o [k \in 1..Cardinality(reportable) |-> finding(Nth(reportable, k))]

\* What a round adds to the totals, once it has been found usable.
Tally(r, o, n) ==
  LET timeout == IF is_worker_timeout_noise(o.note) THEN 1 ELSE 0
      known == HowMany(o, is_known_issue)
  IN  [r EXCEPT
         !.rounds = @ + 1,
         !.queries_run = @ + Len(o.results),
         !.passed = @ + HowMany(o, is_pass),
         !.skipped = @ + HowMany(o, is_uncomparable) + known + timeout,
         !.known = @ + known,
         !.worker_timeout = @ + timeout,
         !.findings = @ \o FindingsOf(o, n)]

Usable(o) == ~o.setup_error /\ o.object # "diverged"

\* Mutant: a round whose object diverged is counted and reported all the same.
RecordTrustsDivergence(r, o, n) ==
  IF o.setup_error THEN [r EXCEPT !.discarded_unbuildable = @ + 1]
  ELSE Tally(r, o, n)

\* Mutant: a query both sides reject is also counted under its known issue.
RecordSkipsTwice(r, o, n) ==
  IF o.setup_error THEN [r EXCEPT !.discarded_unbuildable = @ + 1]
  ELSE IF o.object = "diverged"
    THEN [r EXCEPT !.discarded_not_equivalent = @ + 1]
  ELSE [Tally(r, o, n) EXCEPT
          !.skipped = @ + Cardinality({i \in DOMAIN o.results :
                            /\ o.results[i].base_error
                            /\ o.results[i].equivalent_known_issue})]

record_round(r, o, n) ==
  IF o.setup_error THEN [r EXCEPT !.discarded_unbuildable = @ + 1]
  ELSE IF o.object = "diverged"
    THEN [r EXCEPT !.discarded_not_equivalent = @ + 1]
  ELSE Tally(r, o, n)
-----------------------------------------------------------------------------
(* run_fuzz *)

Init ==
  /\ pc = "top" /\ round = 0 /\ consecutive = 0
  /\ report = [rounds |-> 0, queries_run |-> 0, passed |-> 0, skipped |-> 0,
               discarded_unbuildable |-> 0, discarded_not_equivalent |-> 0,
               findings |-> <<>>, known |-> 0, worker_timeout |-> 0]
  /\ outcome = NoOutcome /\ found = <<>> /\ written = 0
  /\ logs = <<>> /\ files = {} /\ index = <<>>
  /\ end = "none"

\* All the rounds have been run.
LoopEnds ==
  /\ pc = "top" /\ round = Rounds
  /\ pc' = "summary" /\ end' = "finished"
  /\ UNCHANGED <<round, consecutive, report, outcome, found, written, runVars>>

\* run_round returns, and the finally closes its log.
RunRound ==
  /\ pc = "top" /\ round < Rounds
  /\ outcome' \in Outcomes
  /\ logs' = Append(logs, outcome')
  /\ pc' = "hook"
  /\ UNCHANGED <<round, consecutive, report, found, written, files, index, end>>

\* The heartbeat, the query source or run_round raises: nothing here catches
\* it.  The log exists unless the exception came before it was opened.
RoundRaises ==
  /\ pc = "top" /\ round < Rounds
  /\ logs' \in {logs, Append(logs, NoOutcome)}
  /\ pc' = "ended" /\ end' = "raised"
  /\ UNCHANGED <<round, consecutive, report, outcome, found, written, files,
                 index>>

\* round_hook, if there is one, sees the outcome before the report does ...
Hook ==
  /\ pc = "hook"
  /\ pc' = "record"
  /\ UNCHANGED <<round, consecutive, report, outcome, found, written, runVars,
                 end>>

\* ... and its exception is not caught.
HookRaises ==
  /\ pc = "hook"
  /\ pc' = "ended" /\ end' = "raised"
  /\ UNCHANGED <<round, consecutive, report, outcome, found, written, runVars>>

NextRound == round' = round + 1 /\ pc' = "top"

\* setup_error: the round would not build, and too many in a row end the run
\* with a RuntimeError.
RecordUnbuildable ==
  /\ pc = "record" /\ outcome.setup_error
  /\ report' = record_round(report, outcome, round)
  /\ consecutive' = consecutive + 1
  /\ \/ /\ consecutive + 1 >= MaxUnbuildable
        /\ pc' = "ended" /\ end' = "aborted"
        /\ UNCHANGED round
     \/ /\ consecutive + 1 < MaxUnbuildable
        /\ NextRound
        /\ UNCHANGED end
  /\ UNCHANGED <<outcome, found, written, runVars>>

\* Mutant: a diverged round does not reset the count of unbuildable ones.
RecordDivergedKeepsCount ==
  /\ pc = "record" /\ ~outcome.setup_error /\ outcome.object = "diverged"
  /\ report' = record_round(report, outcome, round)
  /\ NextRound
  /\ UNCHANGED <<consecutive, outcome, found, written, runVars, end>>

\* The generator's bug, not the engine's: the round is discarded.
RecordDiverged ==
  /\ pc = "record" /\ ~outcome.setup_error /\ outcome.object = "diverged"
  /\ report' = record_round(report, outcome, round)
  /\ consecutive' = 0
  /\ NextRound
  /\ UNCHANGED <<outcome, found, written, runVars, end>>

RecordRound ==
  /\ pc = "record" /\ Usable(outcome)
  /\ report' = record_round(report, outcome, round)
  /\ consecutive' = 0
  /\ found' = FindingsOf(outcome, round) /\ written' = 0
  /\ pc' = "write"
  /\ UNCHANGED <<round, outcome, runVars, end>>

\* write_finding: first the repro file ...
WriteRepro ==
  /\ pc = "write" /\ written < Len(found)
  /\ files' = files \cup {FileName(found[written + 1], written)}
  /\ pc' = "index"
  /\ UNCHANGED <<round, consecutive, report, outcome, found, written, logs,
                 index, end>>

\* ... then its line in findings.txt.
WriteIndex ==
  /\ pc = "index"
  /\ index' = Append(index, FileName(found[written + 1], written))
  /\ written' = written + 1
  /\ pc' = "write"
  /\ UNCHANGED <<round, consecutive, report, outcome, found, logs, files, end>>

\* The header of the repro asks the engine for its banner.
WriteFails ==
  /\ pc = "write" /\ written < Len(found) /\ BannerMayFail
  /\ pc' = "ended" /\ end' = "raised"
  /\ UNCHANGED <<round, consecutive, report, outcome, found, written, runVars>>

RoundDone ==
  /\ pc = "write" /\ written = Len(found)
  /\ NextRound
  /\ UNCHANGED <<consecutive, report, outcome, found, written, runVars, end>>

\* Ctrl-C: whatever the loop was doing is dropped, a round in progress without
\* its results, and the summary is printed.
Interrupt ==
  /\ pc \notin {"summary", "ended"}
  /\ logs' \in IF pc = "top" /\ round < Rounds
                 THEN {logs, Append(logs, NoOutcome)} ELSE {logs}
  /\ pc' = "summary" /\ end' = "interrupted"
  /\ UNCHANGED <<round, consecutive, report, outcome, found, written, files,
                 index>>

Summary ==
  /\ pc = "summary"
  /\ pc' = "ended"
  /\ UNCHANGED <<round, consecutive, report, outcome, found, written, runVars,
                 end>>

Loop ==
  \/ LoopEnds \/ RunRound \/ RoundRaises \/ Hook \/ HookRaises
  \/ RecordUnbuildable \/ RecordDiverged \/ RecordRound
  \/ WriteRepro \/ WriteIndex \/ WriteFails \/ RoundDone \/ Summary

Terminated == pc = "ended" /\ UNCHANGED vars

Next == Loop \/ Interrupt \/ Terminated

\* A round is one step, as every round ends (Round!RoundEnds).
Spec == Init /\ [][Next]_vars

-----------------------------------------------------------------------------
(* Properties *)

\* The rounds folded into the report, whichever way, and the usable ones.
Recorded == report.rounds + report.discarded_unbuildable
              + report.discarded_not_equivalent
UsableRounds == {i \in 1..Recorded : Usable(logs[i])}

\* The totals add up: every query of a usable round is a pass, a skip or a
\* finding and only one of them, a worker that died is one more finding or skip,
\* and at most the last round of the run is missing from the report.
QueriesOf(o) == IF Usable(o) THEN Len(o.results) ELSE 0
Queries(n) == UNION {{i} \X (1..QueriesOf(logs[i])) : i \in 1..n}
ReportAddsUp ==
  /\ report.queries_run = Cardinality(Queries(Recorded))
  /\ report.passed + report.skipped + Len(report.findings) =
       report.queries_run
         + Cardinality({i \in UsableRounds : logs[i].note # "none"})
  /\ report.known + report.worker_timeout <= report.skipped
  /\ Len(logs) - Recorded \in {0, 1}

\* The findings are, once each, the reportable queries of the rounds that can be
\* trusted and the crashes that are not harness noise; a round whose object
\* diverged leaves none, in the report or on disk.
Reportable(o) == {j \in DOMAIN o.results : is_reportable(o.results[j])}
Crashes(o) ==
  {j \in {0, Len(o.results) + 1} :
     /\ o.note # "none" /\ ~is_worker_timeout_noise(o.note)
     /\ j # 0 <=> o.crashed}
Expected ==
  UNION {{i - 1} \X (Reportable(logs[i]) \cup Crashes(logs[i])) : i \in UsableRounds}
FindingsAreTheReportable ==
  /\ {<<f.round, f.seq>> : f \in Range(report.findings)} = Expected
  /\ Len(report.findings) = Cardinality(Expected)
  /\ \A f \in files : Usable(logs[f[2] + 1])

\* No repro overwrites another, every indexed repro is on disk, and a run that
\* finished has one for every finding; Ctrl-C or an exception can only cost the
\* findings of the round it struck.
EveryFindingHasARepro ==
  /\ Range(index) \subseteq files
  /\ Cardinality(files) - Len(index) \in {0, 1}
  /\ end = "finished" => Len(index) = Len(report.findings)
  /\ Len(report.findings) - Len(index) <= Len(found)

\* consecutive_unbuildable counts the unbuildable rounds at the end of the run,
\* and the run aborts exactly when they reach the limit.
AbortsOnlyAfterARun ==
  /\ \A k \in 1..consecutive : logs[Recorded + 1 - k].setup_error
  /\ consecutive < Recorded => ~logs[Recorded - consecutive].setup_error
  /\ end = "aborted" <=> consecutive = MaxUnbuildable

-----------------------------------------------------------------------------
(* The inductive invariant behind the properties                           *)

Counters ==
  /\ round \in Nat /\ consecutive \in 0..MaxUnbuildable
  /\ report.rounds \in Nat /\ report.discarded_unbuildable \in Nat
  /\ report.discarded_not_equivalent \in Nat
  /\ {"rounds", "discarded_unbuildable", "discarded_not_equivalent", "findings"}
       \subseteq DOMAIN report
  /\ logs \in Seq(Outcomes \cup {NoOutcome})

\* A log for every round that is recorded, and one for a round in progress.
LogsAndReport ==
  /\ pc \in {"hook", "record"} =>
       Len(logs) = Recorded + 1 /\ outcome = logs[Recorded + 1]
  /\ pc \in {"top", "write", "index"} => Len(logs) = Recorded
  /\ Len(logs) \in {Recorded, Recorded + 1}
  /\ pc \notin {"summary", "ended"} => end = "none"

Aborting ==
  Counters /\ LogsAndReport /\ consecutive <= Recorded /\ AbortsOnlyAfterARun

\* The files and lists, and the place the writing has come to.
Lists ==
  /\ report.findings \in Seq(Range(report.findings))
  /\ found \in Seq(Range(found)) /\ index \in Seq(files)
  /\ IsFiniteSet(files)
  /\ written \in Nat /\ written <= Len(found)
  /\ pc \in {"write", "index"} => \A i \in DOMAIN found : found[i].round = round
  /\ pc = "index" => written < Len(found)

\* What has a file is behind that place.
FilesAreBehind ==
  pc \in {"top", "hook", "record", "write", "index"} =>
    \A f \in files :
      \/ f[2] \in Nat /\ f[2] < round
      \/ /\ pc \in {"write", "index"} /\ f[2] = round
         /\ f[3] \in Nat /\ f[3] < written + (IF pc = "index" THEN 1 ELSE 0)

\* The findings without a line in findings.txt are those still to be written.
Unwritten ==
  LET missing == Len(report.findings) - Len(index) IN
  /\ Cardinality(files) - Len(index) \in {0, 1}
  /\ pc \in {"top", "hook", "record", "write"} => Cardinality(files) = Len(index)
  /\ pc = "index" => /\ Cardinality(files) = Len(index) + 1
                     /\ FileName(found[written + 1], written) \in files
  /\ pc \in {"top", "hook", "record"} \/ end = "finished" => missing = 0
  /\ pc \in {"write", "index"} => missing = Len(found) - written
  /\ missing <= Len(found)
  /\ end = "finished" => pc \in {"summary", "ended"}

Writing == Lists /\ FilesAreBehind /\ Unwritten

\* The totals are numbers; the number of a round is its place in the report.
Totals ==
  /\ report.queries_run \in Nat /\ report.passed \in Nat /\ report.skipped \in Nat
  /\ report.known \in Nat /\ report.worker_timeout \in Nat
  /\ {"queries_run", "passed", "skipped", "known", "worker_timeout"} \subseteq DOMAIN report
  /\ pc \in {"top", "hook", "record"} => round = Recorded
  /\ pc \in {"write", "index"} => round + 1 = Recorded /\ Usable(logs[Recorded])
  /\ \A f \in files : f[2] \in Nat /\ f[2] < Recorded
  /\ IsFiniteSet(Expected)

Accounting == Totals /\ ReportAddsUp /\ FindingsAreTheReportable
IInv == Aborting /\ Writing /\ Accounting
=============================================================================
