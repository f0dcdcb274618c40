------------------------------- MODULE Round -------------------------------
(***************************************************************************)
(* One fuzzing round (eqgen/fuzz/round.py): the parent, run_round, and the *)
(* forked worker, _worker, that owns both databases.  They talk over one   *)
(* duplex pipe.  The worker may crash, hang, or answer late at any point;  *)
(* the parent must turn every such event into a RoundOutcome, keep the     *)
(* journal ahead of the engine, and never wait for the worker for ever.    *)
(*                                                                         *)
(* Queries are numbered by their position in the source.  What a query     *)
(* says, and the rows it returns, are abstracted to its verdict.           *)
(***************************************************************************)
EXTENDS Naturals, Sequences

CONSTANTS
  MaxQueries,   \* bound: how many queries the source can yield in a round
  Verdicts      \* what compare_one can say of a query that both sides ran

ASSUME MaxQueriesAssumption == MaxQueries \in Nat \ {0}

VARIABLES
  ppc,          \* where run_round stands
  wpc,          \* where _worker stands
  toWorker,     \* pipe, parent to worker: query numbers, 0 for None
  toParent,     \* pipe, worker to parent: Messages
  exit,         \* process.exitcode, "none" while there is no exit status
  killed,       \* SIGKILL has been sent to the worker
  scheduler,    \* a scheduler was passed to run_round
  expired,      \* clock() >= deadline
  current,      \* the local variable query, 0 before the first one
  results,      \* the list of completed comparisons
  crashed,      \* crashed_query, 0 for None
  note,         \* crash_note: how the worker ended, "none" for None
  object,       \* object_comparison: "none", "equal" or "diverged"
  stopped,      \* stopped_for_budget
  outcome,      \* which return (or raise) leaves run_round
  interrupted,  \* Ctrl-C was pressed (SIGINT reaches parent and worker)
  abandoned,    \* a Ctrl-C made run_round leave without the end of its finally
  journal,      \* the round's log, line by line
  running,      \* the worker's local variable query, 0 before the first one
  schemas       \* the databases that exist on the server

timeVars == <<scheduler, expired>>
factVars == <<results, crashed, note, object, stopped, outcome>>
parentVars == <<ppc, current, timeVars, factVars, journal>>
workerVars == <<wpc, exit, running, schemas>>
pipeVars == <<toWorker, toParent>>
signalVars == <<killed, interrupted, abandoned>>
vars == <<parentVars, workerVars, pipeVars, signalVars>>

-----------------------------------------------------------------------------
(* Types *)

Query == 1..MaxQueries

\* The tuples the worker sends, before and after it has entered its loop.
Failed == [kind |-> "setup_error", query |-> 0, payload |-> "failed"]
Ready == [kind : {"ready"}, query : {0}, payload : {"equal", "diverged"}]
Answers == [kind : {"result"}, query : Query, payload : Verdicts]
\* What is left of a message whose sender died in the middle of it.
Torn == [kind |-> "torn", query |-> 0, payload |-> "torn"]
Messages == {Failed, Torn} \cup Ready \cup Answers

\* How the worker's process ended, as _crash_note tells it apart.
Exits == {"ok", "status", "signal", "sigkill"}

\* The texts run_round writes to the journal.
Texts == Verdicts \cup {"none", "not_generated", "DDL", "check", "budget",
                        "would_not_build", "crash_hung", "crash_died"}
Lines == [op : {"note", "begin", "end"}, query : 0..MaxQueries, text : Texts]
Results == [query : Query, verdict : Verdicts]

ParentStates ==
  {"generate", "journal", "fork", "await_setup", "setup_timeout", "schedule",
   "check", "pull", "begin", "send", "await_result", "query_timeout",
   "ask", "join", "reap", "done"}
WorkerStates ==
  {"unborn", "build_base", "build_equivalent", "compare_env", "recv", "run",
   "dead"}

TypeOK ==
  /\ ppc \in ParentStates
  /\ wpc \in WorkerStates
  /\ toWorker \in Seq(0..MaxQueries)
  /\ toParent \in Seq(Messages)
  /\ exit \in Exits \cup {"none"}
  /\ killed \in BOOLEAN
  /\ scheduler \in BOOLEAN
  /\ expired \in BOOLEAN
  /\ current \in 0..MaxQueries
  /\ results \in Seq(Results)
  /\ crashed \in 0..MaxQueries
  /\ note \in Exits \cup {"none", "hung"}
  /\ object \in {"none", "equal", "diverged"}
  /\ stopped \in BOOLEAN
  /\ outcome \in {"none", "setup_error", "setup_crash", "complete", "raised"}
  /\ interrupted \in BOOLEAN
  /\ abandoned \in BOOLEAN
  /\ journal \in Seq(Lines)
  /\ running \in 0..MaxQueries
  /\ schemas \in SUBSET {"base", "equivalent"}

-----------------------------------------------------------------------------
(* Helpers *)

Alive == wpc \notin {"unborn", "dead"}

Note(text) == [op |-> "note", query |-> 0, text |-> text]
Begin(q) == [op |-> "begin", query |-> q, text |-> "none"]
End(text) == [op |-> "end", query |-> 0, text |-> text]
Write(line) == journal' = Append(journal, line)

Goto(label) == ppc' = label

\* The worker sends one message; the pipe never refuses it, because the forked
\* child also holds a copy of the parent's end.
Send(message) == toParent' = Append(toParent, message)

\* End of file: nothing left to read and the process that held the other end
\* is gone.
EOF == toParent = <<>> /\ wpc = "dead"

-----------------------------------------------------------------------------
(* The worker: _worker *)

\* The process ends with the given exit status.
Exit(code) == wpc' = "dead" /\ exit' = code

UnchangedByWorker == UNCHANGED <<parentVars, signalVars>>

\* Database.build_base: adapter.connect creates the schema, then the seed runs.
WorkerBuildsBase ==
  /\ wpc = "build_base"
  /\ wpc' = "build_equivalent"
  /\ schemas' = schemas \cup {"base"}
  /\ UNCHANGED <<exit, running, pipeVars>>
  /\ UnchangedByWorker

\* Database.build_equivalent: another schema, the seed, the rename and the DDL.
WorkerBuildsEquivalent ==
  /\ wpc = "build_equivalent"
  /\ wpc' = "compare_env"
  /\ schemas' = schemas \cup {"equivalent"}
  /\ UNCHANGED <<exit, running, pipeVars>>
  /\ UnchangedByWorker

\* Either build raises, in connect or in a statement after it: the handler
\* reports the error and returns.  It closes neither database.
WorkerSetupFails ==
  /\ wpc \in {"build_base", "build_equivalent"}
  /\ LET opening == IF wpc = "build_base" THEN "base" ELSE "equivalent"
     IN  schemas' \in {schemas, schemas \cup {opening}}
  /\ Send(Failed)
  /\ Exit("ok")
  /\ UNCHANGED <<running, toWorker>>
  /\ UnchangedByWorker

\* compare_env succeeds, and its comparison is the "ready" message.
WorkerReady ==
  /\ wpc = "compare_env"
  /\ \E comparison \in Ready : Send(comparison)
  /\ wpc' = "recv"
  /\ UNCHANGED <<exit, running, schemas, toWorker>>
  /\ UnchangedByWorker

\* Mutant: the failure escapes _worker without a message to the parent.
WorkerReadFailsSilently ==
  /\ wpc = "compare_env"
  /\ schemas' = {}
  /\ Exit("ok")
  /\ UNCHANGED <<running, pipeVars>>
  /\ UnchangedByWorker

\* Reading the object raises: both databases are closed first this time.
WorkerReadFails ==
  /\ wpc = "compare_env"
  /\ schemas' = {}
  /\ Send(Failed)
  /\ Exit("ok")
  /\ UNCHANGED <<running, toWorker>>
  /\ UnchangedByWorker

\* pipe.recv: a query to run, or None, which returns through the finally.
WorkerReceives ==
  /\ wpc = "recv"
  /\ toWorker # <<>>
  /\ toWorker' = Tail(toWorker)
  /\ \/ /\ Head(toWorker) # 0
        /\ wpc' = "run" /\ running' = Head(toWorker)
        /\ UNCHANGED <<exit, schemas>>
     \/ /\ Head(toWorker) = 0
        /\ Exit("ok")
        /\ schemas' = {}
        /\ UNCHANGED running
  /\ UNCHANGED toParent
  /\ UnchangedByWorker

\* compare_one returns and its QueryComparison, which names the query, is sent.
WorkerAnswers ==
  /\ wpc = "run"
  /\ \E v \in Verdicts :
       Send([kind |-> "result", query |-> running, payload |-> v])
  /\ wpc' = "recv"
  /\ UNCHANGED <<exit, running, schemas, toWorker>>
  /\ UnchangedByWorker

\* An exception that Database.query does not catch, or Ctrl-C: it escapes
\* _worker, through the finally once the loop has been entered.
WorkerRaises ==
  /\ \/ wpc = "run"
     \/ Alive /\ interrupted
  /\ Exit("status")
  /\ schemas' = IF wpc \in {"recv", "run"} THEN {} ELSE schemas
  /\ UNCHANGED <<running, pipeVars>>
  /\ UnchangedByWorker

\* The engine takes the process down, or the kernel does for want of memory.
\* This can happen at any point, between two queries included.
WorkerCrashes ==
  /\ Alive
  /\ \E code \in {"signal", "sigkill"} : Exit(code)
  /\ UNCHANGED <<running, schemas, pipeVars>>
  /\ UnchangedByWorker

\* The same, in the middle of writing a message larger than the pipe's buffer.
WorkerCrashesSending ==
  /\ wpc \in {"build_base", "build_equivalent", "compare_env", "run"}
  /\ Send(Torn)
  /\ \E code \in {"signal", "sigkill"} : Exit(code)
  /\ UNCHANGED <<running, schemas, toWorker>>
  /\ UnchangedByWorker

\* A SIGKILL sent by the parent takes effect.
WorkerKilled ==
  /\ Alive /\ killed
  /\ Exit("sigkill")
  /\ UNCHANGED <<running, schemas, pipeVars>>
  /\ UnchangedByWorker

-----------------------------------------------------------------------------
(* The parent: run_round *)

Init ==
  /\ ppc = "generate" /\ wpc = "unborn"
  /\ toWorker = <<>> /\ toParent = <<>>
  /\ exit = "none" /\ killed = FALSE
  /\ scheduler \in BOOLEAN /\ expired = FALSE
  /\ current = 0 /\ results = <<>> /\ crashed = 0 /\ note = "none"
  /\ object = "none" /\ stopped = FALSE /\ outcome = "none"
  /\ interrupted = FALSE /\ abandoned = FALSE /\ journal = <<>>
  /\ running = 0 /\ schemas = {}

\* generate_forks succeeds.
Generate ==
  /\ ppc = "generate"
  /\ Goto("journal")
  /\ UNCHANGED <<timeVars, current, factVars, journal, workerVars, pipeVars,
                 signalVars>>

\* generate_forks raises: the round is discarded before there is a worker.
NotGenerated ==
  /\ ppc = "generate"
  /\ Write(Note("not_generated"))
  /\ outcome' = "setup_error"
  /\ Goto("done")
  /\ UNCHANGED <<timeVars, current, results, crashed, note, object, stopped,
                 workerVars, pipeVars, signalVars>>

\* The shape, the builders and the DDL are journaled before the fork.
JournalDDL ==
  /\ ppc = "journal"
  /\ Write(Note("DDL"))
  /\ Goto("fork")
  /\ UNCHANGED <<timeVars, current, factVars, workerVars, pipeVars,
                 signalVars>>

StartWorker ==
  /\ ppc = "fork"
  /\ wpc' = "build_base"
  /\ Goto("await_setup")
  /\ UNCHANGED <<timeVars, current, factVars, journal, exit, running, schemas,
                 pipeVars, signalVars>>

\* Mutant: pipe.recv without a wall-clock cap.
PollForEver == FALSE /\ UNCHANGED vars

\* _recv: poll ran out with nothing to read and no end of file.
PollTimeout ==
  /\ ppc \in {"await_setup", "await_result"}
  /\ toParent = <<>> /\ Alive
  /\ Goto(IF ppc = "await_setup" THEN "setup_timeout" ELSE "query_timeout")
  /\ UNCHANGED <<timeVars, current, factVars, journal, workerVars, pipeVars,
                 signalVars>>

\* _recv kills the worker, whatever it may have sent since, and raises
\* TimeoutError; this handler blames the build.
SetupHung ==
  /\ ppc = "setup_timeout"
  /\ killed' = TRUE
  /\ note' = "hung" /\ outcome' = "setup_crash"
  /\ Write(Note("crash_hung"))
  /\ Goto("ask")
  /\ UNCHANGED <<timeVars, current, results, crashed, object, stopped,
                 workerVars, pipeVars, interrupted, abandoned>>

\* EOFError and its relatives while building: process death, never an
\* exception of the engine, which the worker would have reported.
SetupDied ==
  /\ ppc = "await_setup" /\ EOF
  /\ note' = exit /\ outcome' = "setup_crash"
  /\ Write(Note("crash_died"))
  /\ Goto("ask")
  /\ UNCHANGED <<timeVars, current, results, crashed, object, stopped,
                 workerVars, pipeVars, signalVars>>

\* Mutant: the return after a setup_error is missing.
RecvSetupGoesOn ==
  /\ ppc = "await_setup" /\ toParent # <<>> /\ Head(toParent) # Torn
  /\ toParent' = Tail(toParent)
  /\ IF Head(toParent).kind = "setup_error"
       THEN /\ outcome' = "setup_error"
            /\ Write(Note("would_not_build"))
            /\ UNCHANGED object
       ELSE /\ object' = Head(toParent).payload
            /\ Write(Note("check"))
            /\ UNCHANGED outcome
  /\ Goto("schedule")
  /\ UNCHANGED <<timeVars, current, results, crashed, note, stopped,
                 workerVars, toWorker, signalVars>>

RecvSetup ==
  /\ ppc = "await_setup" /\ toParent # <<>> /\ Head(toParent) # Torn
  /\ toParent' = Tail(toParent)
  /\ \/ /\ Head(toParent).kind = "setup_error"
        /\ Write(Note("would_not_build"))
        /\ outcome' = "setup_error"
        /\ Goto("ask")
        /\ UNCHANGED object
     \/ /\ Head(toParent).kind # "setup_error"
        /\ Write(Note("check"))
        /\ object' = Head(toParent).payload
        /\ Goto("schedule")
        /\ UNCHANGED outcome
  /\ UNCHANGED <<timeVars, current, results, crashed, note, stopped,
                 workerVars, toWorker, signalVars>>

\* The budget is computed and journaled, if there is a scheduler.
SetDeadline ==
  /\ ppc = "schedule"
  /\ IF scheduler THEN Write(Note("budget")) ELSE UNCHANGED journal
  /\ Goto("check")
  /\ UNCHANGED <<timeVars, current, factVars, workerVars, pipeVars,
                 signalVars>>

\* Time passes until the deadline; only a scheduled query phase has one.
DeadlinePasses ==
  /\ scheduler /\ ~expired
  /\ ppc \in {"check", "pull", "begin", "send", "await_result"}
  /\ expired' = TRUE
  /\ UNCHANGED <<ppc, scheduler, current, factVars, journal, workerVars,
                 pipeVars, signalVars>>

\* The budget is checked before the next query is pulled, never after.
CheckDeadline ==
  /\ ppc = "check"
  /\ \/ /\ expired
        /\ stopped' = TRUE /\ outcome' = "complete"
        /\ Goto("ask")
     \/ /\ ~expired
        /\ Goto("pull")
        /\ UNCHANGED <<stopped, outcome>>
  /\ UNCHANGED <<timeVars, current, results, crashed, note, object, journal,
                 workerVars, pipeVars, signalVars>>

\* Mutant: the query is sent before it is journaled.
PullQuerySendsFirst ==
  /\ ppc = "pull"
  /\ \/ /\ current < MaxQueries
        /\ current' = current + 1
        /\ Goto("send")
        /\ UNCHANGED outcome
     \/ /\ outcome' \in {"complete", "raised"}
        /\ Goto("ask")
        /\ UNCHANGED current
  /\ UNCHANGED <<timeVars, results, crashed, note, object, stopped, journal,
                 workerVars, pipeVars, signalVars>>

\* next(query_iter): a query, StopIteration, or an exception of the source,
\* which nothing here catches.
PullQuery ==
  /\ ppc = "pull"
  /\ \/ /\ current < MaxQueries
        /\ current' = current + 1
        /\ Goto("begin")
        /\ UNCHANGED outcome
     \/ /\ outcome' \in {"complete", "raised"}
        /\ Goto("ask")
        /\ UNCHANGED current
  /\ UNCHANGED <<timeVars, results, crashed, note, object, stopped, journal,
                 workerVars, pipeVars, signalVars>>

\* journal.begin, before the engine can see the query.
JournalBegin ==
  /\ ppc = "begin"
  /\ Write(Begin(current))
  /\ Goto("send")
  /\ UNCHANGED <<timeVars, current, factVars, workerVars, pipeVars,
                 signalVars>>

\* parent_pipe.send to a live worker.
SendQuery ==
  /\ ppc = "send" /\ Alive
  /\ toWorker' = Append(toWorker, current)
  /\ Goto("await_result")
  /\ UNCHANGED <<timeVars, current, factVars, journal, workerVars, toParent,
                 signalVars>>

\* Mutant: only the last comparison is kept.
RecvResultKeepsLast ==
  /\ ppc = "await_result" /\ toParent # <<>> /\ Head(toParent) # Torn
  /\ toParent' = Tail(toParent)
  /\ results' = <<[query |-> Head(toParent).query,
                   verdict |-> Head(toParent).payload]>>
  /\ Write(End(Head(toParent).payload))
  /\ Goto("check")
  /\ UNCHANGED <<timeVars, current, crashed, note, object, stopped, outcome,
                 workerVars, toWorker, signalVars>>

RecvResult ==
  /\ ppc = "await_result" /\ toParent # <<>> /\ Head(toParent) # Torn
  /\ toParent' = Tail(toParent)
  /\ results' = Append(results, [query |-> Head(toParent).query,
                                 verdict |-> Head(toParent).payload])
  /\ Write(End(Head(toParent).payload))
  /\ Goto("check")
  /\ UNCHANGED <<timeVars, current, crashed, note, object, stopped, outcome,
                 workerVars, toWorker, signalVars>>

\* Mutant: a query that timed out is skipped, the worker is left alone.
QueryHungSkips ==
  /\ ppc = "query_timeout"
  /\ Write(End("crash_hung"))
  /\ Goto("check")
  /\ UNCHANGED <<timeVars, current, factVars, workerVars, pipeVars,
                 signalVars>>

\* TimeoutError in the query loop: _recv has killed the worker.
QueryHung ==
  /\ ppc = "query_timeout"
  /\ killed' = TRUE
  /\ crashed' = current /\ note' = "hung" /\ outcome' = "complete"
  /\ Write(End("crash_hung"))
  /\ Goto("ask")
  /\ UNCHANGED <<timeVars, current, results, object, stopped, workerVars,
                 pipeVars, interrupted, abandoned>>

\* Mutant: the crash is blamed on the query after the one in flight.
QueryDiedBlamesNext ==
  /\ \/ ppc = "send" /\ wpc = "dead"
     \/ ppc = "await_result" /\ EOF
  /\ crashed' = current + 1 /\ note' = exit /\ outcome' = "complete"
  /\ Write(End("crash_died"))
  /\ Goto("ask")
  /\ UNCHANGED <<timeVars, current, results, object, stopped, workerVars,
                 pipeVars, signalVars>>

\* Mutant: a crash is not written to the journal.
QueryDiedUnwritten ==
  /\ \/ ppc = "send" /\ wpc = "dead"
     \/ ppc = "await_result" /\ EOF
  /\ crashed' = current /\ note' = exit /\ outcome' = "complete"
  /\ Goto("ask")
  /\ UNCHANGED <<timeVars, current, results, object, stopped, journal,
                 workerVars, pipeVars, signalVars>>

\* BrokenPipeError from send, or EOFError from recv: the query is blamed.
QueryDied ==
  /\ \/ ppc = "send" /\ wpc = "dead"
     \/ ppc = "await_result" /\ EOF
  /\ crashed' = current /\ note' = exit /\ outcome' = "complete"
  /\ Write(End("crash_died"))
  /\ Goto("ask")
  /\ UNCHANGED <<timeVars, current, results, object, stopped, workerVars,
                 pipeVars, signalVars>>

\* The end of file comes in the middle of a message: recv raises an OSError that
\* none of the handlers, for the setup or for a query, catches.
RecvTorn ==
  /\ ppc \in {"await_setup", "await_result"}
  /\ toParent # <<>> /\ Head(toParent) = Torn
  /\ toParent' = Tail(toParent)
  /\ outcome' = "raised"
  /\ Goto("ask")
  /\ UNCHANGED <<timeVars, current, results, crashed, note, object, stopped,
                 journal, workerVars, toWorker, signalVars>>

\* KeyboardInterrupt is no Exception: nothing in run_round catches it.  Up to
\* the fork it leaves at once, and from the try on through the finally.  The
\* kill of a worker that let poll run out may have been sent already.
InterruptRound ==
  /\ ppc \notin {"ask", "join", "reap", "done"}
  /\ Goto(IF wpc = "unborn" THEN "done" ELSE "ask")
  /\ \/ UNCHANGED killed
     \/ ppc \in {"setup_timeout", "query_timeout"} /\ killed' = TRUE
  /\ UNCHANGED <<wpc, abandoned>>

\* It comes when process.start has forked the worker and the try has not begun.
InterruptStart ==
  /\ ppc = "fork"
  /\ wpc' = "build_base"
  /\ abandoned' = TRUE
  /\ Goto("done")
  /\ UNCHANGED killed

\* It comes in the finally: suppress(Exception) lets it through and the rest is
\* skipped.  In the last join the kill has been sent.
InterruptFinally ==
  /\ ppc \in {"ask", "join", "reap"}
  /\ \/ UNCHANGED killed
     \/ ppc = "reap" /\ killed' = (killed \/ Alive)
  /\ abandoned' = TRUE
  /\ Goto("done")
  /\ UNCHANGED wpc

\* Ctrl-C, at any point of run_round and as often as it is pressed.
Interrupt ==
  /\ InterruptRound \/ InterruptStart \/ InterruptFinally
  /\ interrupted' = TRUE /\ outcome' = "raised"
  /\ UNCHANGED <<timeVars, current, results, crashed, note, object, stopped,
                 journal, exit, running, schemas, pipeVars>>

\* The finally: ask a live worker to leave ...
AskToLeave ==
  /\ ppc = "ask"
  /\ toWorker' = IF Alive THEN Append(toWorker, 0) ELSE toWorker
  /\ Goto("join")
  /\ UNCHANGED <<timeVars, current, factVars, journal, workerVars, toParent,
                 signalVars>>

\* ... wait for it, up to ten seconds ...
Join ==
  /\ ppc = "join"
  /\ Goto(IF wpc = "dead" THEN "done" ELSE "reap")
  /\ UNCHANGED <<timeVars, current, factVars, journal, workerVars, pipeVars,
                 signalVars>>

\* Mutant: a worker that outlives the join is left running.
ReapNothing ==
  /\ ppc = "reap"
  /\ Goto("done")
  /\ UNCHANGED <<timeVars, current, factVars, journal, workerVars, pipeVars,
                 signalVars>>

\* ... and kill the one that stayed.  The second join may time out too, so the
\* parent leaves whether or not the signal has been delivered.
Reap ==
  /\ ppc = "reap"
  /\ killed' = (killed \/ Alive)
  /\ Goto("done")
  /\ UNCHANGED <<timeVars, current, factVars, journal, workerVars, pipeVars,
                 interrupted, abandoned>>

-----------------------------------------------------------------------------
(* The specification *)

Parent ==
  \/ Generate \/ NotGenerated \/ JournalDDL \/ StartWorker
  \/ PollTimeout \/ SetupHung \/ SetupDied \/ RecvSetup \/ SetDeadline
  \/ CheckDeadline \/ PullQuery \/ JournalBegin \/ SendQuery \/ RecvResult
  \/ QueryHung \/ QueryDied \/ RecvTorn \/ AskToLeave \/ Join \/ Reap

Worker ==
  \/ WorkerBuildsBase \/ WorkerBuildsEquivalent \/ WorkerSetupFails
  \/ WorkerReady \/ WorkerReadFails \/ WorkerReceives
  \/ WorkerAnswers \/ WorkerRaises \/ WorkerCrashes
  \/ WorkerCrashesSending \/ WorkerKilled

Terminated == ppc = "done" /\ ~Alive /\ UNCHANGED vars

Next == Parent \/ Worker \/ DeadlinePasses \/ Interrupt \/ Terminated

\* The parent is always scheduled, and a SIGKILL is eventually delivered.
\* Nothing is assumed of the worker, which may hang for ever.
Fairness == WF_vars(Parent) /\ WF_vars(WorkerKilled)

Spec == Init /\ [][Next]_vars /\ Fairness

-----------------------------------------------------------------------------
(* Properties *)

\* 1 when the round has blamed a query for the end of the worker.
Blamed == IF crashed = 0 THEN 0 ELSE 1

\* Whatever dies, hangs or answers late: the completed comparisons are those of
\* the first queries pulled, in order, each once; a blamed query is the one
\* after them; and a round that completes has an account of every query it
\* pulled.
NoQueryLost ==
  /\ \A i \in DOMAIN results : results[i].query = i
  /\ crashed # 0 => crashed = Len(results) + 1
  /\ outcome = "complete" => current = Len(results) + Blamed

\* Where a setup fails, nothing else has happened: no comparison of the object,
\* no query pulled or sent.  record_round relies on the two being exclusive.
SetupFailureIsFinal ==
  outcome \in {"setup_error", "setup_crash"} =>
    /\ object = "none" /\ current = 0 /\ running = 0
    /\ results = <<>> /\ crashed = 0

\* The log begins with so many notes; then every query with a result has its
\* begin line and, right behind it, an end line with the verdict in the results;
\* a blamed query has its own and the crash; open is 1 when one more query has
\* been begun and not ended.
LogShape(notes, open) ==
  LET closed == Len(results) + Blamed IN
  /\ Len(journal) = notes + 2 * closed + open
  /\ \A i \in 1..notes : journal[i].op = "note"
  /\ \A q \in 1..(closed + open) : journal[notes + 2 * q - 1] = Begin(q)
  /\ \A q \in 1..Len(results) :
       journal[notes + 2 * q] = End(results[q].verdict)
  /\ crashed # 0 =>
       journal[notes + 2 * closed] =
         End(IF note = "hung" THEN "crash_hung" ELSE "crash_died")

\* The log agrees with the outcome, line by line and in order; only the query in
\* flight when Ctrl-C, the source's exception or a torn message ended the round
\* is left open.
JournalAgrees ==
  \E notes \in 0..Len(journal), open \in {0, 1} :
    LogShape(notes, open) /\ (outcome = "complete" => open = 0)

\* The journal is ahead of the engine: before the worker exists the DDL is on
\* file, and no query is in the pipe or has reached the worker unlogged.
Logged(q) == \E i \in DOMAIN journal : journal[i] = Begin(q)
JournalAhead ==
  /\ wpc # "unborn" => journal # <<>> /\ journal[1] = Note("DDL")
  /\ running # 0 => Logged(running)
  /\ \A i \in DOMAIN toWorker : toWorker[i] # 0 => Logged(toWorker[i])

\* What the outcome says of the worker's end is what happened to it: a hang is a
\* worker the parent killed, any other note is the exit status of a worker that
\* is dead, and a clean exit is never blamed.  Every crash has its note; a note
\* without one is lost with the outcome, to a Ctrl-C in the finally.
CrashNoteIsTrue ==
  /\ note = "hung" => killed
  /\ note \in Exits => wpc = "dead" /\ exit = note /\ note # "ok"
  /\ outcome = "setup_crash" \/ crashed # 0 => note # "none"
  /\ note # "none" => outcome \in {"setup_crash", "raised"} \/ crashed # 0

\* run_round leaves no worker behind that nobody has killed, unless a Ctrl-C cut
\* its finally short or came before its try: such a worker, a daemon, is left to
\* the exit of the interpreter.
WorkerReaped == ppc = "done" /\ ~abandoned => ~Alive \/ killed

\* What run_round promises its caller, as an abstract specification.  The caller
\* learns the fate when run_round is left, finally and all.
Fate ==
  CASE ppc # "done" -> "open"
    [] ppc = "done" /\ outcome \in {"setup_error", "setup_crash"} -> "discarded"
    [] ppc = "done" /\ outcome = "raised" -> "raised"
    [] ppc = "done" /\ outcome = "complete" -> IF crashed = 0 THEN "finished" ELSE "crashed"

Contract == INSTANCE RoundContract WITH
  answered <- [i \in DOMAIN results |-> results[i].verdict],
  fate <- Fate

\* Every behaviour of the two processes is one of the contract.
ImplementsContract == Contract!Spec

\* Whether or not the worker ever answers, the round settles and its process is
\* gone for good, except where a Ctrl-C kept run_round from seeing to that.
RoundEnds == Contract!Settles /\ <>[](ppc = "done" /\ (~Alive \/ abandoned))

\* The docstring of PgCluster.restart: "every schema is created and dropped
\* inside a round", here only for a worker that nobody killed or interrupted and
\* that returned.
SchemasDropped ==
  ppc = "done" /\ exit = "ok" /\ ~killed /\ ~interrupted => schemas = {}

\* The module's docstring: "a crash becomes 'this query killed the engine' ...
\* rather than the end of the run": only Ctrl-C makes run_round raise while it
\* waits for the worker.
CrashIsNotTheEnd ==
  [][ppc = "await_result" /\ outcome' = "raised" => interrupted']_vars

-----------------------------------------------------------------------------
(* The inductive invariant behind the safety properties.  The pipe holds at   *)
(* most one message, and where the parent stands says which: that is why an   *)
(* answer can only be the answer to the query the parent waits for.           *)

\* Nothing has been learnt, pulled or sent before the setup is over.
BeforeSetup ==
  ppc \in {"generate", "journal", "fork", "await_setup", "setup_timeout"} =>
    /\ object = "none" /\ outcome = "none" /\ note = "none"
    /\ current = 0 /\ running = 0 /\ results = <<>> /\ crashed = 0
    /\ toWorker = <<>>

\* The worker is born by the fork, and answers the setup once.
SetupPipe ==
  /\ ppc \in {"generate", "journal", "fork"} =>
       wpc = "unborn" /\ toParent = <<>>
  /\ ppc \in {"await_setup", "setup_timeout"} =>
       \/ toParent = <<>> /\ wpc \notin {"unborn", "recv", "run"}
       \/ wpc = "dead" /\ toParent = <<Failed>>
       \/ wpc = "dead" /\ exit # "ok" /\ toParent = <<Torn>>
       \/ wpc \in {"recv", "dead"} /\ exit # "ok"
            /\ \E m \in Ready : toParent = <<m>>

\* Between two queries the pipe is empty and the worker waits or is dead.
IdlePipe ==
  ppc \in {"schedule", "check", "pull", "begin", "send"} =>
    /\ toWorker = <<>> /\ toParent = <<>>
    /\ wpc \in {"recv", "dead"}

\* While the parent waits, the query is in the pipe, in the worker, or answered.
BusyPipe ==
  ppc \in {"await_result", "query_timeout"} =>
    \/ toWorker = <<current>> /\ toParent = <<>> /\ wpc \in {"recv", "dead"}
    \/ toWorker = <<>> /\ toParent = <<>> /\ wpc \in {"run", "dead"}
         /\ running = current
    \/ toWorker = <<>> /\ wpc = "dead" /\ toParent = <<Torn>>
    \/ toWorker = <<>> /\ wpc \in {"recv", "dead"}
         /\ \E v \in Verdicts :
              toParent =
                <<[kind |-> "result", query |-> current, payload |-> v]>>

\* How many of the queries pulled have an answer, by where the parent stands.
Progress ==
  /\ ppc \in {"schedule", "check", "pull"} => current = Len(results)
  /\ ppc \in {"begin", "send", "await_result", "query_timeout"} =>
       current = Len(results) + 1
  /\ ppc \notin {"ask", "join", "reap", "done"} =>
       outcome = "none" /\ crashed = 0 /\ note = "none"
  /\ ppc \in {"ask", "join", "reap", "done"} => outcome # "none"

\* Facts about the worker's process.
Process ==
  /\ wpc = "run" => running # 0
  /\ wpc = "dead" <=> exit # "none"
  /\ exit = "ok" =>
       \/ ppc \in {"ask", "join", "reap", "done"}
       \/ ppc \in {"await_setup", "setup_timeout"} /\ toParent # <<>>
  /\ wpc = "unborn" => ppc \in {"generate", "journal", "fork", "done"}
  /\ ppc = "reap" => wpc # "unborn"

\* After a failed setup the only message a worker can still get is None.
NoQueryAfterFailure ==
  outcome \in {"setup_error", "setup_crash"} =>
    /\ \A i \in 1..Len(toWorker) : toWorker[i] = 0
    /\ wpc # "run"

\* Where the two processes stand, relative to each other and to the pipe.
Synchrony ==
  /\ BeforeSetup /\ SetupPipe /\ IdlePipe /\ BusyPipe /\ NoQueryAfterFailure
  /\ Progress /\ Process

Safety ==
  NoQueryLost /\ SetupFailureIsFinal /\ CrashNoteIsTrue /\ WorkerReaped

IInv == TypeOK /\ Synchrony /\ Safety

\* What keeps the journal ahead: it only grows, the DDL is its first line, and
\* the query the parent is about to send is in it.
Written ==
  /\ ppc \in {"generate", "journal"} => journal = <<>>
  /\ ppc = "fork" => journal # <<>> /\ journal[1] = Note("DDL")
  /\ ppc = "send" => Logged(current)

\* What keeps the log and the results in step: no query is logged before the
\* setup is over, and the parent has begun and not ended one exactly while it
\* waits for the answer.
LogInStep ==
  \E notes \in 0..Len(journal), open \in {0, 1} :
    /\ LogShape(notes, open)
    /\ outcome = "complete" => open = 0
    /\ ppc \in {"send", "await_result", "query_timeout"} => open = 1
    /\ ppc \in {"generate", "journal", "fork", "await_setup", "setup_timeout",
               "schedule", "check", "pull", "begin"} => open = 0
    /\ ppc = "schedule" => results = <<>>
=============================================================================
