---------------------------- MODULE RoundProofs ----------------------------
(***************************************************************************)
(* The safety of a round, for every number of queries and every set of     *)
(* verdicts.  IInv is inductive: it says what is in the pipe for each pair *)
(* of places where the two processes stand, and the safety properties are  *)
(* conjuncts of it.  Each action is a CASE of its own below: its first     *)
(* step is the type invariant, its last one the rest of IInv.              *)
(***************************************************************************)
EXTENDS Round, TLAPS

\* Every action is a conjunction of these; they say nothing by themselves.
USE DEF Goto, Write, Exit, Send, Alive, EOF, UnchangedByWorker, timeVars,
        factVars, parentVars, workerVars, pipeVars, signalVars

\* The inductive invariant is used and proved as a whole.
USE DEF Synchrony, BeforeSetup, SetupPipe, IdlePipe, BusyPipe,
        NoQueryAfterFailure, Progress, Process,
        Safety, NoQueryLost, Blamed, SetupFailureIsFinal, CrashNoteIsTrue,
        WorkerReaped

\* A pipe of one message: what sending to an empty one makes of it, and what
\* receiving leaves.
LEMMA OneMessage ==
  ASSUME NEW m
  PROVE  /\ Append(<<>>, m) = <<m>> /\ <<m>> # <<>>
         /\ Head(<<m>>) = m /\ Tail(<<m>>) = <<>>
OBVIOUS

\* What goes into a queue and comes out of one is of its type.
LEMMA Queue ==
  ASSUME NEW S, NEW s \in Seq(S)
  PROVE  /\ \A e \in S : Append(s, e) \in Seq(S)
         /\ s # <<>> => Head(s) \in S /\ Tail(s) \in Seq(S)
OBVIOUS

\* The lines the journal writes are of the journal's type.
LEMMA LineTypes ==
  /\ \A t \in Texts : Note(t) \in Lines /\ End(t) \in Lines
  /\ \A q \in 0..MaxQueries : Begin(q) \in Lines
BY MaxQueriesAssumption DEF Lines, Note, End, Begin, Texts

\* The initial states satisfy the inductive invariant.
LEMMA InitIInv == Init => IInv
<1> SUFFICES ASSUME Init PROVE IInv
  OBVIOUS
<1>1. 0 \in 0..MaxQueries
  BY MaxQueriesAssumption
<1>2. /\ toWorker \in Seq(0..MaxQueries) /\ toParent \in Seq(Messages)
     /\ results \in Seq(Results) /\ journal \in Seq(Lines)
  BY DEF Init
<1>3. ppc \in ParentStates /\ wpc \in WorkerStates /\ schemas = {}
  BY DEF Init, ParentStates, WorkerStates
<1>4. TypeOK
  BY <1>1, <1>2, <1>3 DEF Init, TypeOK, Exits
<1>5. Synchrony /\ Safety
  BY DEF Init, Exits
<1> QED
  BY <1>4, <1>5 DEF IInv

\* A step of run_round preserves it.
LEMMA ParentStep == IInv /\ Parent => IInv'
<1> SUFFICES ASSUME IInv, Parent PROVE IInv'
  OBVIOUS
<1>0. TypeOK /\ Synchrony /\ Safety
  BY DEF IInv
<1>1. CASE Generate
  <2> USE <1>1 DEF Generate
  <2>1. TypeOK'
    BY <1>0 DEF TypeOK, ParentStates
  <2>2. (Synchrony /\ Safety)'
    BY <1>0 DEF TypeOK, Exits
  <2> QED
    BY <2>1, <2>2 DEF IInv
<1>2. CASE NotGenerated
  <2> USE <1>2 DEF NotGenerated
  <2>1. Note("not_generated") \in Lines
    BY LineTypes DEF Texts
  <2>2. TypeOK'
    BY <1>0, <2>1 DEF TypeOK, ParentStates
  <2>3. (Synchrony /\ Safety)'
    BY <1>0, <2>1 DEF TypeOK, Exits
  <2> QED
    BY <2>2, <2>3 DEF IInv
<1>3. CASE JournalDDL
  <2> USE <1>3 DEF JournalDDL
  <2>1. Note("DDL") \in Lines
    BY LineTypes DEF Texts
  <2>2. TypeOK'
    BY <1>0, <2>1 DEF TypeOK, ParentStates
  <2>3. (Synchrony /\ Safety)'
    BY <1>0, <2>1 DEF TypeOK, Exits
  <2> QED
    BY <2>2, <2>3 DEF IInv
<1>4. CASE StartWorker
  <2> USE <1>4 DEF StartWorker
  <2>1. TypeOK'
    BY <1>0 DEF TypeOK, ParentStates, WorkerStates, Exits
  <2>2. (Synchrony /\ Safety)'
    BY <1>0 DEF TypeOK, Exits
  <2> QED
    BY <2>1, <2>2 DEF IInv
<1>5. CASE PollTimeout
  <2> USE <1>5 DEF PollTimeout
  <2>1. TypeOK'
    BY <1>0 DEF TypeOK, ParentStates
  <2>2. (Synchrony /\ Safety)'
    BY <1>0 DEF TypeOK, Exits
  <2> QED
    BY <2>1, <2>2 DEF IInv
<1>6. CASE SetupHung
  <2> USE <1>6 DEF SetupHung
  <2>1. Note("crash_hung") \in Lines
    BY LineTypes DEF Texts
  <2>2. TypeOK'
    BY <1>0, <2>1 DEF TypeOK, ParentStates, Exits
  <2>3. (Synchrony /\ Safety)'
    BY <1>0, <2>1 DEF TypeOK, Exits
  <2> QED
    BY <2>2, <2>3 DEF IInv
<1>7. CASE SetupDied
  <2> USE <1>7 DEF SetupDied
  <2>1. Note("crash_died") \in Lines
    BY LineTypes DEF Texts
  <2>2. TypeOK'
    BY <1>0, <2>1, OneMessage DEF TypeOK, ParentStates, Exits
  <2>3. (Synchrony /\ Safety)'
    BY <1>0, <2>1 DEF TypeOK, Exits
  <2> QED
    BY <2>2, <2>3 DEF IInv
<1>8. CASE RecvSetup
  <2> USE <1>8 DEF RecvSetup
  <2>1. Note("would_not_build") \in Lines /\ Note("check") \in Lines
    BY LineTypes DEF Texts
  <2>2. /\ toParent = <<Head(toParent)>> /\ toParent' = <<>>
        /\ Head(toParent) \in {Failed} \cup Ready
    BY <1>0, OneMessage
  <2>3. /\ Head(toParent).kind = "setup_error" => Head(toParent) = Failed
        /\ Head(toParent).kind # "setup_error" => Head(toParent) \in Ready
    BY <2>2 DEF Failed, Ready
  <2>4. TypeOK'
    BY <1>0, <2>1, <2>2, <2>3, SMTT(30) DEF Ready, TypeOK, ParentStates
  <2>5. (BeforeSetup /\ SetupPipe /\ IdlePipe /\ BusyPipe)'
    BY <1>0, <2>2, <2>3 DEF TypeOK
  <2>6. (NoQueryAfterFailure /\ Progress)'
    BY <1>0, <2>2, <2>3 DEF TypeOK
  <2>7. Process'
    BY <1>0, <2>2, <2>3, OneMessage DEF TypeOK, Exits, Failed
  <2>8. Safety'
    BY <1>0, <2>2, <2>3 DEF TypeOK, Exits
  <2> QED
    BY <2>4, <2>5, <2>6, <2>7, <2>8 DEF IInv
<1>9. CASE SetDeadline
  <2> USE <1>9 DEF SetDeadline
  <2>1. Note("budget") \in Lines
    BY LineTypes DEF Texts
  <2>2. journal' \in Seq(Lines)
    BY <1>0, <2>1 DEF TypeOK
  <2>3. TypeOK'
    BY <1>0, <2>2 DEF TypeOK, ParentStates
  <2>4. (Synchrony /\ Safety)'
    BY <1>0 DEF TypeOK, Exits
  <2> QED
    BY <2>3, <2>4 DEF IInv
<1>10. CASE CheckDeadline
  <2> USE <1>10 DEF CheckDeadline
  <2>1. TypeOK'
    BY <1>0 DEF TypeOK, ParentStates
  <2>2. (Synchrony /\ Safety)'
    BY <1>0 DEF TypeOK, Exits
  <2> QED
    BY <2>1, <2>2 DEF IInv
<1>11. CASE PullQuery
  <2> USE <1>11 DEF PullQuery
  <2>1. TypeOK'
    BY <1>0, MaxQueriesAssumption DEF TypeOK, ParentStates
  <2>2. (Synchrony /\ Safety)'
    BY <1>0 DEF TypeOK, Exits
  <2> QED
    BY <2>1, <2>2 DEF IInv
<1>12. CASE JournalBegin
  <2> USE <1>12 DEF JournalBegin
  <2>1. TypeOK'
    BY <1>0, LineTypes DEF TypeOK, ParentStates
  <2>2. (Synchrony /\ Safety)'
    BY <1>0 DEF TypeOK, Exits
  <2> QED
    BY <2>1, <2>2 DEF IInv
<1>13. CASE SendQuery
  <2> USE <1>13 DEF SendQuery
  <2>1. TypeOK'
    BY <1>0 DEF TypeOK, ParentStates
  <2>2. (Synchrony /\ Safety)'
    BY <1>0, OneMessage DEF TypeOK, Exits
  <2> QED
    BY <2>1, <2>2 DEF IInv
<1>14. CASE RecvResult
  <2> USE <1>14 DEF RecvResult
  <2>1. \E v \in Verdicts :
          toParent = <<[kind |-> "result", query |-> current, payload |-> v]>>
    BY <1>0, OneMessage
  <2>2. /\ Head(toParent) \in Answers /\ toParent = <<Head(toParent)>>
        /\ Head(toParent).query = current /\ toParent' = <<>>
    BY <1>0, <2>1, OneMessage DEF TypeOK, Answers, Query
  <2>3. End(Head(toParent).payload) \in Lines
    BY <2>2, LineTypes DEF Texts, Answers
  <2>4. TypeOK'
    BY <1>0, <2>2, <2>3 DEF Answers, Query, Results, TypeOK, ParentStates
  <2>5. Len(results') = Len(results) + 1 /\ NoQueryLost'
    BY <1>0, <2>2, SMTT(30) DEF TypeOK, Results
  <2>6. (Synchrony /\ Safety)'
    BY <1>0, <2>2, <2>5 DEF TypeOK, Exits
  <2> QED
    BY <2>4, <2>5, <2>6 DEF IInv
<1>15. CASE QueryHung
  <2> USE <1>15 DEF QueryHung
  <2>1. End("crash_hung") \in Lines
    BY LineTypes DEF Texts
  <2>2. current = Len(results) + 1 /\ current # 0
    BY <1>0 DEF TypeOK
  <2>3. TypeOK'
    BY <1>0, <2>1, <2>2 DEF TypeOK, ParentStates, Exits
  <2>4. (Synchrony /\ Safety)'
    BY <1>0, <2>1, <2>2 DEF TypeOK, Exits
  <2> QED
    BY <2>3, <2>4 DEF IInv
<1>16. CASE QueryDied
  <2> USE <1>16 DEF QueryDied
  <2>1. End("crash_died") \in Lines
    BY LineTypes DEF Texts
  <2>2. current = Len(results) + 1 /\ current # 0
    BY <1>0 DEF TypeOK
  <2>3. TypeOK'
    BY <1>0, <2>1, <2>2, OneMessage DEF TypeOK, ParentStates, Exits
  <2>4. (Synchrony /\ Safety)'
    BY <1>0, <2>1, <2>2 DEF TypeOK, Exits
  <2> QED
    BY <2>3, <2>4 DEF IInv
<1>17. CASE RecvTorn
  <2> USE <1>17 DEF RecvTorn
  <2>1. toParent' \in Seq(Messages)
    BY <1>0, Queue DEF TypeOK
  <2>2. TypeOK'
    BY <1>0, <2>1 DEF TypeOK, ParentStates
  <2>3. (Synchrony /\ Safety)'
    BY <1>0 DEF TypeOK, Exits
  <2> QED
    BY <2>2, <2>3 DEF IInv
<1>18. CASE AskToLeave
  <2> USE <1>18 DEF AskToLeave
  <2>1. 0 \in 0..MaxQueries
    BY MaxQueriesAssumption
  <2>2. toWorker' \in {toWorker, Append(toWorker, 0)}
    OBVIOUS
  <2>3. toWorker' \in Seq(0..MaxQueries)
    BY <1>0, <2>1, <2>2, Queue DEF TypeOK
  <2>4. TypeOK'
    BY <1>0, <2>3 DEF TypeOK, ParentStates
  <2>5. (Synchrony /\ Safety)'
    BY <1>0, OneMessage DEF TypeOK, Exits
  <2> QED
    BY <2>4, <2>5 DEF IInv
<1>19. CASE Join
  <2> USE <1>19 DEF Join
  <2>1. TypeOK'
    BY <1>0 DEF TypeOK, ParentStates
  <2>2. (Synchrony /\ Safety)'
    BY <1>0 DEF TypeOK, Exits
  <2> QED
    BY <2>1, <2>2 DEF IInv
<1>20. CASE Reap
  <2> USE <1>20 DEF Reap
  <2>1. TypeOK'
    BY <1>0 DEF TypeOK, ParentStates
  <2>2. (Synchrony /\ Safety)'
    BY <1>0, ZenonT(60) DEF TypeOK, Exits
  <2> QED
    BY <2>1, <2>2 DEF IInv
<1> QED
  BY <1>1, <1>2, <1>3, <1>4, <1>5, <1>6, <1>7, <1>8, <1>9, <1>10, <1>11,
     <1>12, <1>13, <1>14, <1>15, <1>16, <1>17, <1>18, <1>19, <1>20
  DEF Parent

\* A step of _worker preserves it, whatever the parent is doing.
LEMMA WorkerStep == IInv /\ Worker => IInv'
<1> SUFFICES ASSUME IInv, Worker PROVE IInv'
  OBVIOUS
<1>0. TypeOK /\ Synchrony /\ Safety
  BY DEF IInv
<1>1. CASE WorkerBuildsBase
  <2> USE <1>1 DEF WorkerBuildsBase
  <2>1. TypeOK'
    BY <1>0 DEF TypeOK, WorkerStates, Exits
  <2>2. (Synchrony /\ Safety)'
    BY <1>0 DEF TypeOK, Exits
  <2> QED
    BY <2>1, <2>2 DEF IInv
<1>2. CASE WorkerBuildsEquivalent
  <2> USE <1>2 DEF WorkerBuildsEquivalent
  <2>1. TypeOK'
    BY <1>0 DEF TypeOK, WorkerStates, Exits
  <2>2. (Synchrony /\ Safety)'
    BY <1>0 DEF TypeOK, Exits
  <2> QED
    BY <2>1, <2>2 DEF IInv
<1>3. CASE WorkerSetupFails
  <2> USE <1>3 DEF WorkerSetupFails
  <2>1. toParent = <<>> => toParent' = <<Failed>> /\ toParent' # <<>>
    BY OneMessage
  <2>2. TypeOK'
    BY <1>0 DEF TypeOK, WorkerStates, Exits, Messages
  <2>3. Process'
    BY <1>0, <2>1 DEF TypeOK, ParentStates, Exits
  <2>4. (Synchrony /\ Safety)'
    BY <1>0, <2>1, <2>3 DEF TypeOK, Exits
  <2> QED
    BY <2>2, <2>3, <2>4 DEF IInv
<1>4. CASE WorkerReady
  <2> USE <1>4 DEF WorkerReady
  <2>1. TypeOK'
    BY <1>0, OneMessage DEF Messages, TypeOK, WorkerStates, Exits
  <2>2. (Synchrony /\ Safety)'
    BY <1>0, OneMessage, ZenonT(60) DEF TypeOK, Exits
  <2> QED
    BY <2>1, <2>2 DEF IInv
<1>5. CASE WorkerReadFails
  <2> USE <1>5 DEF WorkerReadFails
  <2>1. toParent = <<>> => toParent' = <<Failed>> /\ toParent' # <<>>
    BY OneMessage
  <2>2. TypeOK'
    BY <1>0 DEF TypeOK, WorkerStates, Exits, Messages
  <2>3. Process'
    BY <1>0, <2>1 DEF TypeOK, ParentStates, Exits
  <2>4. (Synchrony /\ Safety)'
    BY <1>0, <2>1, <2>3 DEF TypeOK, Exits
  <2> QED
    BY <2>2, <2>3, <2>4 DEF IInv
<1>6. CASE WorkerReceives
  <2> USE <1>6 DEF WorkerReceives
  <2>1. Head(toWorker) \in 0..MaxQueries /\ toWorker' \in Seq(0..MaxQueries)
    BY <1>0, Queue DEF TypeOK
  <2>2. toWorker = <<current>> => Head(toWorker) = current /\ toWorker' = <<>>
    BY OneMessage
  <2>3. NoQueryAfterFailure'
    BY <1>0, <2>1 DEF TypeOK
  <2>4. TypeOK'
    BY <1>0, <2>1, ZenonT(60) DEF TypeOK, WorkerStates, Exits
  <2>5. (BeforeSetup /\ SetupPipe /\ IdlePipe)'
    BY <1>0 DEF TypeOK, Exits
  <2>6. BusyPipe'
    BY <1>0, <2>2 DEF TypeOK, Exits
  <2>7. (Progress /\ Process /\ Safety)'
    BY <1>0, <2>2 DEF TypeOK, ParentStates, Exits
  <2> QED
    BY <2>3, <2>4, <2>5, <2>6, <2>7 DEF IInv
<1>7. CASE WorkerAnswers
  <2> USE <1>7 DEF WorkerAnswers
  <2>1. TypeOK'
    BY <1>0, OneMessage
    DEF Messages, Answers, Query, TypeOK, WorkerStates, Exits
  <2>2. (Synchrony /\ Safety)'
    BY <1>0, OneMessage, ZenonT(60) DEF TypeOK, Exits
  <2> QED
    BY <2>1, <2>2 DEF IInv
<1>8. CASE WorkerRaises
  <2> USE <1>8 DEF WorkerRaises
  <2>1. TypeOK'
    BY <1>0 DEF TypeOK, WorkerStates, Exits
  <2>2. (Synchrony /\ Safety)'
    BY <1>0 DEF TypeOK, Exits
  <2> QED
    BY <2>1, <2>2 DEF IInv
<1>9. CASE WorkerCrashes
  <2> USE <1>9 DEF WorkerCrashes
  <2>1. TypeOK'
    BY <1>0 DEF TypeOK, WorkerStates, Exits
  <2>2. (Synchrony /\ Safety)'
    BY <1>0 DEF TypeOK, Exits
  <2> QED
    BY <2>1, <2>2 DEF IInv
<1>10. CASE WorkerCrashesSending
  <2> USE <1>10 DEF WorkerCrashesSending
  <2>1. toParent = <<>> => toParent' = <<Torn>> /\ toParent' # <<>>
    BY OneMessage
  <2>2. TypeOK'
    BY <1>0 DEF TypeOK, WorkerStates, Exits, Messages
  <2>3. (Synchrony /\ Safety)'
    BY <1>0, <2>1 DEF TypeOK, Exits
  <2> QED
    BY <2>2, <2>3 DEF IInv
<1>11. CASE WorkerKilled
  <2> USE <1>11 DEF WorkerKilled
  <2>1. TypeOK'
    BY <1>0 DEF TypeOK, WorkerStates, Exits
  <2>2. (Synchrony /\ Safety)'
    BY <1>0 DEF TypeOK, Exits
  <2> QED
    BY <2>1, <2>2 DEF IInv
<1> QED
  BY <1>1, <1>2, <1>3, <1>4, <1>5, <1>6, <1>7, <1>8, <1>9, <1>10, <1>11
  DEF Worker

\* So does the clock, ...
LEMMA ClockStep == IInv /\ DeadlinePasses => IInv'
<1> SUFFICES ASSUME IInv, DeadlinePasses PROVE IInv'
  OBVIOUS
<1> QED
  BY DEF IInv, DeadlinePasses, TypeOK, ParentStates

\* ... and Ctrl-C, at every point of run_round: before the finally, between the
\* fork and the try, and in the finally.
LEMMA InterruptStep == IInv /\ Interrupt => IInv'
<1> SUFFICES ASSUME IInv, Interrupt PROVE IInv'
  OBVIOUS
<1> USE DEF Interrupt
<1>0. TypeOK /\ Synchrony /\ Safety
  BY DEF IInv
<1>1. CASE InterruptRound
  <2> USE <1>1 DEF InterruptRound
  <2>1. TypeOK'
    BY <1>0 DEF TypeOK, ParentStates
  <2>2. (Synchrony /\ Safety)'
    BY <1>0 DEF TypeOK, Exits, ParentStates
  <2> QED
    BY <2>1, <2>2 DEF IInv
<1>2. CASE InterruptStart
  <2> USE <1>2 DEF InterruptStart
  <2>1. TypeOK'
    BY <1>0 DEF TypeOK, ParentStates, WorkerStates
  <2>2. (Synchrony /\ Safety)'
    BY <1>0 DEF TypeOK, Exits
  <2> QED
    BY <2>1, <2>2 DEF IInv
<1>3. CASE InterruptFinally
  <2> USE <1>3 DEF InterruptFinally
  <2>1. TypeOK'
    BY <1>0 DEF TypeOK, ParentStates
  <2>2. (Synchrony /\ Safety)'
    BY <1>0 DEF TypeOK, Exits
  <2> QED
    BY <2>1, <2>2 DEF IInv
<1> QED
  BY <1>1, <1>2, <1>3

\* A step that changes nothing.
LEMMA Stutter == IInv /\ UNCHANGED vars => IInv'
BY DEF IInv, TypeOK, vars

\* The inductive invariant holds in every state of every round.
THEOREM RoundInvariant == Spec => []IInv
<1>1. IInv /\ [Next]_vars => IInv'
  BY ParentStep, WorkerStep, ClockStep, InterruptStep, Stutter
  DEF Next, Terminated
<1> QED
  BY InitIInv, <1>1, PTL DEF Spec

\* Type correctness of run_round, _worker and the pipe between them.
THEOREM TypeCorrect == Spec => []TypeOK
<1>1. IInv => TypeOK
  BY DEF IInv
<1> QED
  BY RoundInvariant, <1>1, PTL

\* Whatever dies, hangs or answers late, run_round keeps the comparisons of the
\* first queries it pulled, in order, and blames at most the one after them.
THEOREM NoQueryIsLost == Spec => []NoQueryLost
<1>1. IInv => NoQueryLost
  BY DEF IInv
<1> QED
  BY RoundInvariant, <1>1, PTL

\* A round whose setup failed has compared nothing: record_round may count it as
\* unbuildable and look no further.
THEOREM SetupFailsAlone == Spec => []SetupFailureIsFinal
<1>1. IInv => SetupFailureIsFinal
  BY DEF IInv
<1> QED
  BY RoundInvariant, <1>1, PTL

\* The crash note run_round reports is how the worker's process really ended,
\* and a worker that ended well is never reported as a crash.
THEOREM CrashNotesAreTrue == Spec => []CrashNoteIsTrue
<1>1. IInv => CrashNoteIsTrue
  BY DEF IInv
<1> QED
  BY RoundInvariant, <1>1, PTL

\* run_round returns or raises with its worker dead or killed, except where a
\* Ctrl-C cut its finally short or came between the fork and the try.
THEOREM WorkerIsReaped == Spec => []WorkerReaped
<1>1. IInv => WorkerReaped
  BY DEF IInv
<1> QED
  BY RoundInvariant, <1>1, PTL

-----------------------------------------------------------------------------
(* The journal is ahead of the engine.  Written is what the parent knows      *)
(* of the file; JournalAhead, what the worker can have seen of the queries.   *)

\* Whatever is written goes to the end of the file.
LEMMA JournalGrows ==
  Next => journal' = journal \/ \E line : journal' = Append(journal, line)
<1>1. Parent => journal' = journal \/ \E line : journal' = Append(journal, line)
  BY DEF Parent, Generate, NotGenerated, JournalDDL, StartWorker, PollTimeout,
         SetupHung, SetupDied, RecvSetup, SetDeadline, CheckDeadline, PullQuery,
         JournalBegin, SendQuery, RecvResult, QueryHung, QueryDied, RecvTorn,
         AskToLeave, Join, Reap
<1>2. Worker => journal' = journal
  BY DEF Worker, WorkerBuildsBase, WorkerBuildsEquivalent, WorkerSetupFails,
         WorkerReady, WorkerReadFails, WorkerReceives, WorkerAnswers,
         WorkerRaises, WorkerCrashes, WorkerCrashesSending, WorkerKilled
<1> QED
  BY <1>1, <1>2 DEF Next, DeadlinePasses, Interrupt, Terminated, vars

\* So what is on file stays there: a query that was logged, and the first line.
LEMMA LogKept ==
  ASSUME TypeOK, [Next]_vars
  PROVE  /\ \A q : Logged(q) => Logged(q)'
         /\ \A line : journal # <<>> /\ journal[1] = line =>
                        journal' # <<>> /\ journal'[1] = line
<1>1. journal \in Seq(Lines)
  BY DEF TypeOK
<1>2. CASE journal' = journal
  BY <1>2 DEF Logged
<1>3. ASSUME NEW line, journal' = Append(journal, line)
      PROVE  /\ \A i \in DOMAIN journal :
                  i \in DOMAIN journal' /\ journal'[i] = journal[i]
             /\ journal' # <<>>
             /\ journal # <<>> => 1 \in DOMAIN journal
  BY <1>1, <1>3
<1>4. CASE \E line : journal' = Append(journal, line)
  BY <1>3, <1>4 DEF Logged
<1> QED
  BY <1>2, <1>4, JournalGrows DEF vars

\* The begin line of a query is on file once it has been written.
LEMMA BeginLogs ==
  ASSUME TypeOK, Write(Begin(current))
  PROVE  \E i \in DOMAIN journal' : journal'[i] = Begin(current)
<1>1. journal \in Seq(Lines) /\ journal' = Append(journal, Begin(current))
  BY DEF TypeOK, Write
<1>2. /\ Len(journal) + 1 \in DOMAIN journal'
      /\ journal'[Len(journal) + 1] = Begin(current)
  BY <1>1
<1> QED
  BY <1>2

\* A query is in the file before it is sent, and a step of either process moves
\* no other query closer to the engine.
LEMMA AheadStep ==
  IInv /\ Written /\ JournalAhead /\ [Next]_vars => (Written /\ JournalAhead)'
<1> SUFFICES ASSUME IInv, Written, JournalAhead, [Next]_vars
             PROVE  (Written /\ JournalAhead)'
  OBVIOUS
<1>0. TypeOK /\ SetupPipe /\ IdlePipe
  BY DEF IInv
<1>1. /\ \A q : Logged(q) => Logged(q)'
      /\ \A line : journal # <<>> /\ journal[1] = line =>
                     journal' # <<>> /\ journal'[1] = line
  BY <1>0, LogKept
<1>2. toWorker \in Seq(0..MaxQueries)
  BY <1>0 DEF TypeOK
<1>3. CASE JournalDDL
  BY <1>0, <1>1, <1>3 DEF JournalDDL, Written, JournalAhead, Note
<1>4. CASE StartWorker
  BY <1>1, <1>4 DEF StartWorker, Written, JournalAhead
<1>5. CASE JournalBegin
  <2>1. Logged(current)'
    BY <1>0, <1>5, BeginLogs DEF JournalBegin, Logged
  <2> QED
    BY <1>1, <1>5, <2>1 DEF JournalBegin, Written, JournalAhead
<1>6. CASE SendQuery
  <2>1. toWorker' = <<current>> /\ Logged(current)'
    BY <1>0, <1>1, <1>6, OneMessage DEF SendQuery, Written
  <2> QED
    BY <1>1, <1>6, <2>1 DEF SendQuery, Written, JournalAhead
<1>7. CASE AskToLeave
  <2>1. \A i \in DOMAIN toWorker' :
          toWorker'[i] = 0 \/ (i \in DOMAIN toWorker /\ toWorker'[i] = toWorker[i])
    BY <1>2, <1>7 DEF AskToLeave
  <2> QED
    BY <1>1, <1>7, <2>1 DEF AskToLeave, Written, JournalAhead
<1>8. CASE WorkerReceives
  <2>1. /\ 1 \in DOMAIN toWorker /\ Head(toWorker) = toWorker[1]
        /\ \A i \in DOMAIN toWorker' :
             i + 1 \in DOMAIN toWorker /\ toWorker'[i] = toWorker[i + 1]
    BY <1>2, <1>8 DEF WorkerReceives
  <2>2. running' = 0 \/ running' = running \/ running' = toWorker[1]
    BY <1>8, <2>1 DEF WorkerReceives
  <2> QED
    BY <1>1, <1>8, <2>1, <2>2 DEF WorkerReceives, Written, JournalAhead
<1>9. CASE Parent /\ ~JournalDDL /\ ~StartWorker /\ ~JournalBegin /\ ~SendQuery
             /\ ~AskToLeave
  <2>1. /\ UNCHANGED <<wpc, running, toWorker>> /\ ppc' # "fork" /\ ppc' # "send"
        /\ ppc' # "generate"
        /\ ppc' = "journal" => journal' = journal /\ ppc = "generate"
    BY <1>9
    DEF Parent, Generate, NotGenerated, PollTimeout, SetupHung, SetupDied,
        RecvSetup, SetDeadline, CheckDeadline, PullQuery, RecvResult, QueryHung,
        QueryDied, RecvTorn, Join, Reap
  <2> QED
    BY <1>1, <2>1 DEF Written, JournalAhead
<1>10. CASE Worker /\ ~WorkerReceives
  <2>1. /\ UNCHANGED <<ppc, journal, current, running, toWorker>>
        /\ wpc # "unborn"
    BY <1>10
    DEF Worker, WorkerBuildsBase, WorkerBuildsEquivalent, WorkerSetupFails,
        WorkerReady, WorkerReadFails, WorkerAnswers, WorkerRaises,
        WorkerCrashes, WorkerCrashesSending, WorkerKilled
  <2> QED
    BY <1>1, <2>1 DEF Written, JournalAhead
<1>11. CASE DeadlinePasses \/ Interrupt \/ UNCHANGED vars
  <2>1. /\ UNCHANGED <<journal, current, running, toWorker>>
        /\ ppc' = ppc \/ ppc' \in {"done", "ask"}
        /\ wpc' = wpc \/ ppc = "fork"
    BY <1>11
    DEF DeadlinePasses, Interrupt, InterruptRound, InterruptStart,
        InterruptFinally, vars
  <2> QED
    BY <1>1, <2>1 DEF Written, JournalAhead
<1> QED
  BY <1>3, <1>4, <1>5, <1>6, <1>7, <1>8, <1>9, <1>10, <1>11 DEF Next, Terminated

\* No query and no database is the engine's before it is the journal's: what a
\* crash leaves behind is always enough to reproduce it.
THEOREM JournalIsAhead == Spec => []JournalAhead
<1>1. Init => Written /\ JournalAhead
  BY DEF Init, Written, JournalAhead
<1>2. IInv /\ (Written /\ JournalAhead) /\ [Next]_vars =>
        (Written /\ JournalAhead)'
  BY AheadStep
<1> QED
  BY <1>1, <1>2, RoundInvariant, PTL DEF Spec

-----------------------------------------------------------------------------
(* The two processes implement the contract: each step settles the round,     *)
(* answers a query, or changes nothing the caller can see.                    *)

\* What the caller sees of the completed comparisons.
Answered == [i \in DOMAIN results |-> results[i].verdict]

\* The caller's view of a round, by what run_round has learnt when it is left.
LEMMA Fates ==
  /\ ppc # "done" => Fate = "open"
  /\ ppc' # "done" => Fate' = "open"
  /\ ppc' = "done" /\ outcome' \in {"setup_error", "setup_crash"} =>
       Fate' = "discarded"
  /\ ppc' = "done" /\ outcome' = "raised" => Fate' = "raised"
  /\ ppc' = "done" /\ outcome' = "complete" =>
       Fate' = IF crashed' = 0 THEN "finished" ELSE "crashed"
BY DEF Fate

\* A step that neither completes a comparison nor leaves run_round is a stutter
\* of the contract, and so is one of the worker afterwards.
LEMMA Unseen ==
  /\ UNCHANGED results /\ ppc # "done" /\ ppc' # "done" =>
       UNCHANGED Contract!vars
  /\ UNCHANGED <<results, crashed, outcome, ppc>> => UNCHANGED Contract!vars
BY DEF Contract!vars, Fate

\* As many answers are seen as comparisons were completed.
LEMMA AnswersKept ==
  ASSUME results \in Seq(Results)
  PROVE  Answered \in Seq(Verdicts) /\ Len(Answered) = Len(results)
<1>1. DOMAIN results = 1..Len(results) /\ Len(results) \in Nat
  OBVIOUS
<1>2. \A i \in 1..Len(results) : results[i].verdict \in Verdicts
  <2>1. \A i \in 1..Len(results) : results[i] \in Results
    OBVIOUS
  <2> QED
    BY <2>1 DEF Results
<1>3. Answered = [i \in 1..Len(results) |-> results[i].verdict]
  BY <1>1 DEF Answered
<1> QED
  BY <1>1, <1>2, <1>3

\* A verdict received is the answer to the next query.
LEMMA ReceiveAnswers == IInv /\ RecvResult => Contract!Next
<1> SUFFICES ASSUME IInv, RecvResult PROVE Contract!Next
  OBVIOUS
<1>0. TypeOK /\ Synchrony /\ Safety
  BY DEF IInv
<1>1. PICK v \in Verdicts :
        toParent = <<[kind |-> "result", query |-> current, payload |-> v]>>
  BY <1>0, OneMessage DEF RecvResult
<1>2. results' = Append(results, [query |-> current, verdict |-> v])
  BY <1>1, OneMessage DEF RecvResult
<1>3. results \in Seq(Results) /\ Len(results) < MaxQueries
  BY <1>0, MaxQueriesAssumption DEF TypeOK, RecvResult
<1>4. Answered \in Seq(Verdicts) /\ Len(Answered) = Len(results)
  BY <1>3, AnswersKept
<1>5. Answered' = Append(Answered, v)
  BY <1>2, <1>3, <1>4 DEF Answered, Results
<1>6. Fate = "open" /\ Fate' = Fate
  BY Fates DEF RecvResult
<1>7. Contract!Answer(v)
  BY <1>3, <1>4, <1>5, <1>6 DEF Contract!Answer, Answered
<1> QED
  BY <1>7 DEF Contract!Next

\* The step that leaves run_round settles the round on what it has learnt.
LEMMA LeavingSettles ==
  ASSUME IInv, UNCHANGED <<results, crashed>>, ppc # "done", ppc' = "done",
         \/ outcome' \in {"setup_error", "setup_crash"} /\ results = <<>>
         \/ outcome' = "complete"
         \/ outcome' = "raised"
  PROVE  Contract!Next
<1>0. TypeOK /\ NoQueryLost
  BY DEF IInv
<1>1. Fate = "open"
  BY Fates
<1>2. CASE outcome' \in {"setup_error", "setup_crash"} /\ results = <<>>
  <2>1. Fate' = "discarded"
    BY <1>2, Fates
  <2>2. Answered = <<>> /\ UNCHANGED Answered
    BY <1>2 DEF Answered
  <2> QED
    BY <1>1, <2>1, <2>2 DEF Contract!Next, Contract!Discard, Answered
<1>3. CASE outcome' = "complete"
  <2>1. Fate' = IF crashed = 0 THEN "finished" ELSE "crashed"
    BY <1>3, Fates
  <2>2. results \in Seq(Results) /\ crashed \in 0..MaxQueries
    BY <1>0 DEF TypeOK
  <2>3. Len(Answered) = Len(results)
    BY <2>2, AnswersKept
  <2>4. crashed # 0 => Len(Answered) < MaxQueries
    BY <1>0, <2>2, <2>3, MaxQueriesAssumption
  <2> QED
    BY <1>1, <2>1, <2>4 DEF Contract!Next, Contract!Settle, Answered
<1>4. CASE outcome' = "raised"
  <2>1. Fate' = "raised"
    BY <1>4, Fates
  <2> QED
    BY <1>1, <2>1 DEF Contract!Next, Contract!Raise
<1> QED
  BY <1>2, <1>3, <1>4

\* Every step of run_round answers a query, leaves run_round, or is not seen.
LEMMA ParentImplements == IInv /\ Parent => [Contract!Next]_(Contract!vars)
<1> SUFFICES ASSUME IInv, Parent PROVE Contract!Next \/ UNCHANGED Contract!vars
  OBVIOUS
<1>0. TypeOK /\ Synchrony /\ Safety
  BY DEF IInv
<1>1. CASE Generate \/ JournalDDL \/ StartWorker \/ PollTimeout \/ SetDeadline
             \/ JournalBegin \/ SendQuery \/ AskToLeave \/ SetupHung
             \/ SetupDied \/ RecvSetup \/ CheckDeadline \/ PullQuery
             \/ QueryHung \/ QueryDied \/ RecvTorn
  <2>1. UNCHANGED results /\ ppc # "done" /\ ppc' # "done"
    BY <1>1
    DEF Generate, JournalDDL, StartWorker, PollTimeout, SetDeadline,
        JournalBegin, SendQuery, AskToLeave, SetupHung, SetupDied, RecvSetup,
        CheckDeadline, PullQuery, QueryHung, QueryDied, RecvTorn
  <2> QED
    BY <2>1, Unseen
<1>2. CASE NotGenerated
  BY <1>0, <1>2, LeavingSettles DEF NotGenerated
<1>3. CASE Join \/ Reap
  <2>1. CASE ppc' = "reap"
    BY <1>3, <2>1, Unseen DEF Join, Reap
  <2>2. CASE ppc' = "done"
    <3>1. ppc # "done" /\ UNCHANGED <<results, crashed, outcome>>
      BY <1>3 DEF Join, Reap
    <3>2. outcome \in {"setup_error", "setup_crash", "complete", "raised"}
      BY <1>0, <1>3 DEF Join, Reap, TypeOK
    <3>3. outcome \in {"setup_error", "setup_crash"} => results = <<>>
      BY <1>0
    <3> QED
      BY <2>2, <3>1, <3>2, <3>3, LeavingSettles
  <2> QED
    BY <1>3, <2>1, <2>2 DEF Join, Reap
<1>4. CASE RecvResult
  BY <1>4, ReceiveAnswers
<1> QED
  BY <1>1, <1>2, <1>3, <1>4 DEF Parent

\* The worker does nothing the caller sees, and Ctrl-C raises, at once or at the
\* end of the finally.
LEMMA StepImplements == IInv /\ [Next]_vars => [Contract!Next]_(Contract!vars)
<1> SUFFICES ASSUME IInv, [Next]_vars
             PROVE  Contract!Next \/ UNCHANGED Contract!vars
  OBVIOUS
<1>1. CASE Parent
  BY <1>1, ParentImplements
<1>2. CASE Worker \/ UNCHANGED vars
  <2>1. UNCHANGED <<results, crashed, outcome, ppc>>
    BY <1>2
    DEF Worker, WorkerBuildsBase, WorkerBuildsEquivalent, WorkerSetupFails,
        WorkerReady, WorkerReadFails, WorkerReceives, WorkerAnswers,
        WorkerRaises, WorkerCrashes, WorkerCrashesSending, WorkerKilled, vars
  <2> QED
    BY <2>1, Unseen
<1>3. CASE DeadlinePasses
  BY <1>3, Unseen DEF DeadlinePasses
<1>4. CASE Interrupt
  <2>1. /\ UNCHANGED <<results, crashed>> /\ outcome' = "raised" /\ ppc # "done"
        /\ ppc' \in {"ask", "done"}
    BY <1>4
    DEF Interrupt, InterruptRound, InterruptStart, InterruptFinally
  <2> QED
    BY <2>1, LeavingSettles, Unseen
<1> QED
  BY <1>1, <1>2, <1>3, <1>4 DEF Next, Terminated

\* run_round and _worker together implement the contract of a round: queries are
\* answered one after the other and the fate, once settled, never changes.
THEOREM RoundImplementsContract == Spec => ImplementsContract
<1>1. Init => Contract!Init
  BY DEF Init, Contract!Init, Fate
<1>2. IInv /\ [Next]_vars => [Contract!Next]_(Contract!vars)
  BY StepImplements
<1> QED
  BY <1>1, <1>2, RoundInvariant, PTL DEF Spec, ImplementsContract, Contract!Spec

-----------------------------------------------------------------------------
(* The log agrees with the outcome.  A step writes a note before the first     *)
(* query, begins a query, ends one, or leaves the log and the results alone.   *)

\* What a line written at the end of the log changes.
LEMMA LineWritten ==
  ASSUME TypeOK, NEW line, Write(line)
  PROVE  /\ Len(journal) \in Nat /\ Len(journal') = Len(journal) + 1
         /\ \A i \in 1..Len(journal) : journal'[i] = journal[i]
         /\ journal'[Len(journal) + 1] = line
<1>1. journal \in Seq(Lines) /\ journal' = Append(journal, line)
  BY DEF TypeOK
<1> QED
  BY <1>1

\* A note is written while nothing but notes has been.
LEMMA NoteKeepsShape ==
  ASSUME TypeOK, NEW notes \in Nat, NEW text,
         LogShape(notes, 0), results = <<>>, crashed = 0,
         Write(Note(text)), results' = results, crashed' = crashed
  PROVE  LogShape(notes + 1, 0)'
<1>1. Len(journal) = notes /\ \A i \in 1..notes : journal[i].op = "note"
  BY DEF LogShape
<1>2. \A i \in 1..(notes + 1) : journal'[i].op = "note"
  BY <1>1, LineWritten DEF Note
<1> QED
  BY <1>1, <1>2, LineWritten DEF LogShape

\* The query pulled last is begun.
LEMMA BeginKeepsShape ==
  ASSUME TypeOK, NEW notes \in Nat,
         LogShape(notes, 0), crashed = 0, current = Len(results) + 1,
         Write(Begin(current)), results' = results, crashed' = crashed
  PROVE  LogShape(notes, 1)'
<1>1. Len(results) \in Nat /\ Len(journal) = notes + 2 * Len(results)
  BY DEF LogShape, TypeOK
<1>2. /\ Len(journal') = Len(journal) + 1
      /\ \A i \in 1..Len(journal) : journal'[i] = journal[i]
      /\ journal'[Len(journal) + 1] = Begin(Len(results) + 1)
  BY LineWritten
<1>3. \A q \in 1..(Len(results) + 1) : journal'[notes + 2 * q - 1] = Begin(q)
  <2> TAKE q \in 1..(Len(results) + 1)
  <2>1. CASE q = Len(results) + 1
    BY <1>1, <1>2, <2>1, SMTT(30)
  <2>2. CASE q \in 1..Len(results)
    <3>1. notes + 2 * q - 1 \in 1..Len(journal)
      BY <1>1, <2>2
    <3>2. journal[notes + 2 * q - 1] = Begin(q)
      BY <1>1, <2>2 DEF LogShape
    <3> QED
      BY <1>2, <3>1, <3>2
  <2> QED
    BY <1>1, <2>1, <2>2
<1>4. \A q \in 1..Len(results) :
        journal'[notes + 2 * q] = End(results'[q].verdict)
  BY <1>1, <1>2 DEF LogShape
<1>5. \A i \in 1..notes : journal'[i].op = "note"
  BY <1>1, <1>2 DEF LogShape
<1>6. /\ Len(journal') = notes + 2 * (Len(results') + 0) + 1
      /\ Blamed' = 0 /\ Len(results') + 0 + 1 = Len(results) + 1
  BY <1>1, <1>2
<1> QED
  BY <1>1, <1>3, <1>4, <1>5, <1>6 DEF LogShape

\* It is ended with its verdict ...
LEMMA EndKeepsShape ==
  ASSUME TypeOK, NEW notes \in Nat, NEW v, NEW q,
         LogShape(notes, 1), crashed = 0, crashed' = crashed,
         results' = Append(results, [query |-> q, verdict |-> v]),
         Write(End(v))
  PROVE  LogShape(notes, 0)'
<1>1. results \in Seq(Results)
  BY DEF TypeOK
<1>2. Len(results) \in Nat /\ Len(journal) = notes + 2 * Len(results) + 1
  BY <1>1 DEF LogShape
<1>3. /\ Len(results') = Len(results) + 1
      /\ \A i \in 1..Len(results) : results'[i] = results[i]
      /\ results'[Len(results) + 1].verdict = v
  BY <1>1
<1>4. \A i \in 1..Len(results') :
        journal'[notes + 2 * i] = End(results'[i].verdict)
  BY <1>2, <1>3, LineWritten DEF LogShape
<1>5. /\ Len(journal') = Len(journal) + 1
      /\ \A i \in 1..Len(journal) : journal'[i] = journal[i]
  BY LineWritten
<1>6. PICK closed \in Nat : closed = Len(results) + 1
  BY <1>2
<1>7. Len(results') + Blamed' = closed /\ Len(journal') = notes + 2 * closed + 0
  BY <1>2, <1>3, <1>5, <1>6
<1>8. \A i \in 1..notes : journal'[i].op = "note"
  BY <1>2, <1>5 DEF LogShape
<1>9. \A k \in 1..(closed + 0) : journal'[notes + 2 * k - 1] = Begin(k)
  <2> TAKE k \in 1..(closed + 0)
  <2>1. notes + 2 * k - 1 \in 1..Len(journal)
    BY <1>2, <1>6
  <2>2. journal[notes + 2 * k - 1] = Begin(k)
    BY <1>2, <1>6 DEF LogShape
  <2> QED
    BY <1>5, <2>1, <2>2
<1> QED
  BY <1>4, <1>7, <1>8, <1>9 DEF LogShape

\* ... or with the crash it is blamed for.
LEMMA BlameKeepsShape ==
  ASSUME TypeOK, NEW notes \in Nat, NEW text,
         LogShape(notes, 1), crashed = 0, crashed' # 0, results' = results,
         Write(End(text)),
         text = IF note' = "hung" THEN "crash_hung" ELSE "crash_died"
  PROVE  LogShape(notes, 0)'
<1>1. Len(results) \in Nat /\ Len(journal) = notes + 2 * Len(results) + 1
  BY DEF LogShape, TypeOK
<1>2. /\ Len(journal') = Len(journal) + 1
      /\ \A i \in 1..Len(journal) : journal'[i] = journal[i]
      /\ journal'[Len(journal) + 1] = End(text)
  BY LineWritten
<1>3. \A q \in 1..(Len(results) + 1) : journal'[notes + 2 * q - 1] = Begin(q)
  <2> TAKE q \in 1..(Len(results) + 1)
  <2>1. notes + 2 * q - 1 \in 1..Len(journal)
    BY <1>1
  <2>2. journal[notes + 2 * q - 1] = Begin(q)
    BY <1>1 DEF LogShape
  <2> QED
    BY <1>2, <2>1, <2>2
<1>4. \A q \in 1..Len(results) :
        journal'[notes + 2 * q] = End(results'[q].verdict)
  BY <1>1, <1>2 DEF LogShape
<1>5. PICK closed \in Nat : closed = Len(results) + 1
  BY <1>1
<1>6. Len(results') + Blamed' = closed /\ Len(journal') = notes + 2 * closed + 0
  BY <1>1, <1>2, <1>5
<1>7. \A i \in 1..notes : journal'[i].op = "note"
  BY <1>1, <1>2 DEF LogShape
<1>8. \A q \in 1..(closed + 0) : journal'[notes + 2 * q - 1] = Begin(q)
  BY <1>1, <1>3, <1>5
<1>9. \A q \in 1..Len(results') :
        journal'[notes + 2 * q] = End(results'[q].verdict)
  BY <1>4
<1>10. journal'[notes + 2 * closed] =
         End(IF note' = "hung" THEN "crash_hung" ELSE "crash_died")
  <2>1. Len(journal) + 1 = notes + 2 * closed
    BY <1>1, <1>5
  <2> QED
    BY <1>2, <2>1
<1> QED
  BY <1>6, <1>7, <1>8, <1>9, <1>10 DEF LogShape

\* What a step that touches neither the log nor the results leaves as it is.
LEMMA ShapeKept ==
  ASSUME NEW notes, NEW open, LogShape(notes, open),
         UNCHANGED <<journal, results, crashed, note>>
  PROVE  LogShape(notes, open)'
BY DEF LogShape

\* Every step keeps the log in step with the results.
LEMMA LogStep == IInv /\ LogInStep /\ [Next]_vars => LogInStep'
<1> SUFFICES ASSUME IInv, LogInStep, [Next]_vars PROVE LogInStep'
  OBVIOUS
<1>0. TypeOK /\ Synchrony /\ Safety
  BY DEF IInv
<1>a. PICK notes \in 0..Len(journal), open \in {0, 1} :
        /\ LogShape(notes, open)
        /\ outcome = "complete" => open = 0
        /\ ppc \in {"send", "await_result", "query_timeout"} => open = 1
        /\ ppc \in {"generate", "journal", "fork", "await_setup",
                    "setup_timeout", "schedule", "check", "pull", "begin"} =>
             open = 0
        /\ ppc = "schedule" => results = <<>>
  BY DEF LogInStep
<1>b. notes \in Nat /\ Len(journal) \in Nat
  BY <1>0 DEF TypeOK
<1>1. CASE \/ Worker \/ DeadlinePasses \/ Interrupt \/ UNCHANGED vars
           \/ Generate \/ StartWorker \/ PollTimeout \/ CheckDeadline
           \/ PullQuery \/ SendQuery \/ RecvTorn \/ AskToLeave \/ Join \/ Reap
           \/ (SetDeadline /\ ~scheduler)
  <2>1. UNCHANGED <<journal, results, crashed, note>>
    BY <1>1
    DEF Worker, WorkerBuildsBase, WorkerBuildsEquivalent, WorkerSetupFails,
        WorkerReady, WorkerReadFails, WorkerReceives, WorkerAnswers,
        WorkerRaises, WorkerCrashes, WorkerCrashesSending, WorkerKilled,
        DeadlinePasses, Interrupt, vars, Generate, StartWorker, PollTimeout,
        CheckDeadline, PullQuery, SendQuery, RecvTorn, AskToLeave, Join, Reap,
        SetDeadline
  <2>2. /\ outcome' = "complete" => open = 0
        /\ ppc' \in {"send", "await_result", "query_timeout"} => open = 1
        /\ ppc' \in {"generate", "journal", "fork", "await_setup",
                     "setup_timeout", "schedule", "check", "pull", "begin"} =>
             open = 0
        /\ ppc' = "schedule" => results = <<>>
    BY <1>0, <1>1, <1>a
    DEF Worker, WorkerBuildsBase, WorkerBuildsEquivalent, WorkerSetupFails,
        WorkerReady, WorkerReadFails, WorkerReceives, WorkerAnswers,
        WorkerRaises, WorkerCrashes, WorkerCrashesSending, WorkerKilled,
        DeadlinePasses, Interrupt, InterruptRound, InterruptStart,
        InterruptFinally, vars, Generate, StartWorker, PollTimeout,
        CheckDeadline, PullQuery, SendQuery, RecvTorn, AskToLeave, Join, Reap,
        SetDeadline
  <2>3. LogShape(notes, open)'
    BY <1>a, <2>1, ShapeKept
  <2> QED
    BY <2>1, <2>2, <2>3 DEF LogInStep
<1>2. CASE NotGenerated \/ JournalDDL \/ SetupHung \/ SetupDied \/ RecvSetup
             \/ (SetDeadline /\ scheduler)
  <2>1. PICK text : Write(Note(text))
    BY <1>2
    DEF NotGenerated, JournalDDL, SetupHung, SetupDied, RecvSetup, SetDeadline
  <2>2. /\ open = 0 /\ results = <<>> /\ crashed = 0
        /\ UNCHANGED <<results, crashed>>
        /\ outcome' # "complete"
        /\ ppc' \notin {"send", "await_result", "query_timeout"}
    BY <1>0, <1>2, <1>a
    DEF NotGenerated, JournalDDL, SetupHung, SetupDied, RecvSetup, SetDeadline
  <2>3. LogShape(notes + 1, 0)'
    BY <1>0, <1>a, <1>b, <2>1, <2>2, NoteKeepsShape
  <2>4. notes + 1 \in 0..Len(journal')
    BY <1>0, <1>a, <1>b, <2>1, LineWritten
  <2> QED
    BY <2>2, <2>3, <2>4 DEF LogInStep
<1>3. CASE JournalBegin
  <2>1. /\ open = 0 /\ crashed = 0 /\ current = Len(results) + 1
        /\ Write(Begin(current)) /\ UNCHANGED <<results, crashed>>
        /\ outcome' # "complete" /\ ppc' = "send"
    BY <1>0, <1>3, <1>a DEF JournalBegin
  <2>2. LogShape(notes, 1)'
    BY <1>0, <1>a, <1>b, <2>1, BeginKeepsShape
  <2>3. notes \in 0..Len(journal')
    BY <1>0, <1>a, <1>b, <2>1, LineWritten
  <2> QED
    BY <2>1, <2>2, <2>3 DEF LogInStep
<1>4. CASE RecvResult
  <2>1. /\ open = 1 /\ crashed = 0 /\ UNCHANGED crashed /\ ppc' = "check"
        /\ results' = Append(results, [query |-> Head(toParent).query,
                                       verdict |-> Head(toParent).payload])
        /\ Write(End(Head(toParent).payload))
    BY <1>0, <1>4, <1>a DEF RecvResult
  <2>2. LogShape(notes, 0)'
    BY <1>0, <1>a, <1>b, <2>1, EndKeepsShape
  <2>3. notes \in 0..Len(journal')
    BY <1>0, <1>a, <1>b, <2>1, LineWritten
  <2> QED
    BY <2>1, <2>2, <2>3 DEF LogInStep
<1>5. CASE QueryHung \/ QueryDied
  <2>1. /\ open = 1 /\ crashed = 0 /\ UNCHANGED results /\ ppc' = "ask"
    BY <1>0, <1>5, <1>a DEF QueryHung, QueryDied
  <2>2. crashed' # 0
    BY <1>0, <1>5 DEF QueryHung, QueryDied, TypeOK
  <2>3. PICK text : /\ Write(End(text))
                    /\ text = IF note' = "hung" THEN "crash_hung" ELSE "crash_died"
    BY <1>0, <1>5 DEF QueryHung, QueryDied, TypeOK, Exits
  <2>4. LogShape(notes, 0)'
    BY <1>0, <1>a, <1>b, <2>1, <2>2, <2>3, BlameKeepsShape
  <2>5. notes \in 0..Len(journal')
    BY <1>0, <1>a, <1>b, <2>3, LineWritten
  <2> QED
    BY <2>1, <2>4, <2>5 DEF LogInStep
<1>6. CASE SetDeadline
  BY <1>1, <1>2, <1>6
<1> QED
  BY <1>1, <1>2, <1>3, <1>4, <1>5, <1>6 DEF Next, Parent, Terminated

\* Whatever ends the round, the log is the account of it that the results are:
\* each query begun once, in order, and ended with what run_round reports of it.
THEOREM LogAgrees == Spec => []JournalAgrees
<1>1. Init => LogInStep
  BY DEF Init, LogInStep, LogShape
<1>2. IInv /\ LogInStep /\ [Next]_vars => LogInStep'
  BY LogStep
<1>3. LogInStep => JournalAgrees
  BY DEF LogInStep, JournalAgrees
<1> QED
  BY <1>1, <1>2, <1>3, RoundInvariant, PTL DEF Spec
=============================================================================
