------------------------------ MODULE Engines ------------------------------
(***************************************************************************)
(* The workers of a campaign and their connections (the adapters' connect  *)
(* and execute): each round's worker opens one for the base and one for    *)
(* the equivalent, runs every query on both, and ends, dies of a lost      *)
(* connection or is killed.  What the parent is told is a verdict for each *)
(* query.  Round has the pipe between the two; here a result or the end of *)
(* the worker reaches the parent in the step that causes it.               *)
(*                                                                         *)
(* An engine that dies takes the connections to it along.  On PostgreSQL   *)
(* only the backend dies, but the postmaster then ends the other backends, *)
(* at once or a little later ("doomed"), and starts anew by itself.        *)
(***************************************************************************)
EXTENDS Servers, Comparison, Sequences

CONSTANT Queries      \* a round has the queries 1..Queries

ASSUME QueriesAssumption == Queries \in Nat \ {0}

VARIABLES sessions,  \* [Sides -> state of the connection]
          owed,      \* DuckDB: answers the CLI process has yet to give
          late,      \* MySQL: a KILL QUERY on its way to a finished statement
          query, side,
          outcome,   \* [Sides -> [kind, of]]: the query whose answer it is
          verdicts,  \* [1..Queries -> Verdicts], of this round
          killers,   \* the queries that killed the engine, in this round
          faults,    \* those the equivalent rejected of itself
          trouble,   \* what else has happened to this round's engine
          signalled  \* a signal has hit a worker: bounded to one
sessionVars == <<sessions, owed, late, outcome, side>>
roundVars == <<query, verdicts, killers, faults, trouble>>
vars == <<engine, owner, ended, registered, stopped, worker, servers, held,
          sessions, owed, late, outcome, side, query, verdicts, killers,
          faults, trouble, signalled>>

Sides == {"base", "equivalent"}
Verdicts == {"none", "pass", "uncomparable", "known_issue", "error",
             "mismatch", "crash"}
Troubles == {"killed", "timed out", "died"}
NoOutcome == [kind |-> "none", of |-> 0]

\* The engines on which execute signals the loss of the connection: all but
\* PostgreSQL.  CrateDB and DuckDB do so only during the statement itself, as
\* the refreshes before it and the look at the process come first.
AbortsAlways == {"clickhouse", "mysql", "tidb", "tidb_docker"}

\* Mutant: PostgreSQL's omission, in MySQL's adapter.
AbortsForgotten == {"clickhouse", "cratedb", "duckdb"}

AbortsDuring == AbortsAlways \union {"cratedb", "duckdb"}

\* known_issue_label knows the message of the engine's time limit.
\* ClickHouse's (max_execution_time, Code: 159) has no label.
TimeoutLabelled ==
  {"postgres", "cratedb", "duckdb", "mysql", "tidb", "tidb_docker"}
Watched == {"mysql", "tidb", "tidb_docker"}

Init ==
  /\ ServersInit
  /\ sessions = [s \in Sides |-> "closed"]
  /\ owed = [s \in Sides |-> <<>>]
  /\ late = [s \in Sides |-> FALSE]
  /\ outcome = [s \in Sides |-> NoOutcome]
  /\ side = "base" /\ query = 0
  /\ verdicts = [q \in 1..Queries |-> "none"]
  /\ killers = {} /\ faults = {} /\ trouble = {} /\ signalled = FALSE

-----------------------------------------------------------------------------
(* The ends of a worker                                                    *)

Reportable == \E q \in 1..Queries :
                verdicts'[q] \in {"error", "mismatch", "crash"}

Disconnected ==
  /\ sessions' = [x \in Sides |-> "closed"]
  /\ owed' = [x \in Sides |-> <<>>]
  /\ late' = [x \in Sides |-> FALSE]
  /\ outcome' = [x \in Sides |-> NoOutcome]
  /\ side' = "base" /\ query' = 0

\* The worker is gone: its connections are closed, what it started is init's,
\* and the parent, if it still runs, has the round's findings to write.
WorkerGone(s) ==
  /\ worker' = "none"
  /\ servers' = Orphaned(s, "worker")
  /\ held' = [held EXCEPT !["worker"] = NoServer]
  /\ Disconnected
  /\ owner' = IF owner # "round" THEN owner
              ELSE IF Reportable THEN "reporting" ELSE "between"
  /\ UNCHANGED <<engine, ended, registered, stopped>>

\* EOF on the pipe: the query in flight is blamed.
Blamed ==
  verdicts' = IF worker = "query" THEN [verdicts EXCEPT ![query] = "crash"]
                                  ELSE verdicts

-----------------------------------------------------------------------------
(* The owner                                                               *)

Fork ==
  /\ owner = "between"
  /\ owner' = "round" /\ worker' = "connecting"
  /\ held' = [held EXCEPT !["worker"] = held["owner"]]
  /\ verdicts' = [q \in 1..Queries |-> "none"]
  /\ killers' = {} /\ faults' = {} /\ trouble' = {}
  /\ UNCHANGED <<engine, ended, registered, stopped, servers, sessionVars,
                 query, signalled>>

\* server_version: CrateDB's asks the server, the others' is kept or is asked
\* of a binary.
BannerConnects == {"cratedb"}

\* write_finding, which begins with the banner.  An exception ends the
\* campaign, and the interpreter's exit stops the server.
WriteFinding ==
  /\ owner = "reporting"
  /\ IF engine \in BannerConnects /\ ~Up
       THEN /\ owner' = "gone" /\ ended' = "raised" /\ stopped' = registered
            /\ servers' = Orphaned(stop(servers, "owner"), "owner")
       ELSE /\ owner' = "between"
            /\ UNCHANGED <<ended, stopped, servers>>
  /\ UNCHANGED <<engine, registered, worker, held, sessionVars, roundVars,
                 signalled>>

\* The owner is gone, and with it the worker of an unfinished round, if it
\* had the time to end it.
OwnerGone(how, s) ==
  /\ owner' = "gone" /\ ended' = how
  /\ IF how = "killed"
       THEN /\ servers' = Orphaned(s, "owner")
            /\ UNCHANGED <<stopped, worker, held, sessionVars, query>>
       ELSE /\ stopped' = registered /\ worker' = "none"
            /\ servers' = Orphaned(Orphaned(stop(s, "owner"), "worker"), "owner")
            /\ held' = [held EXCEPT !["worker"] = NoServer]
            /\ Disconnected
  /\ UNCHANGED <<engine, registered, verdicts, killers, faults, trouble, signalled>>

\* The rounds are over.
Leave == owner = "between" /\ OwnerGone("exit", servers)

\* Ctrl-C: KeyboardInterrupt in the owner and in the worker, which leave, and
\* SIGINT for a server of the terminal's group.
Interrupt ==
  /\ owner # "gone"
  /\ OwnerGone("exit",
       [i \in ServerIds |->
          IF engine \in OfGroup /\ servers[i].state = "running"
            THEN [servers[i] EXCEPT !.state = "dead"] ELSE servers[i]])

\* SIGTERM to the owner: stopped by the handler, or dead on the spot.
Terminate ==
  /\ owner # "gone"
  /\ IF engine \in Handled /\ registered
       THEN OwnerGone("terminated", servers)
       ELSE OwnerGone("killed", servers)

\* The worker of a dead owner reads EOF from the pipe.
Abandoned ==
  /\ owner = "gone" /\ worker # "none"
  /\ WorkerGone(servers)
  /\ UNCHANGED <<verdicts, killers, faults, trouble, signalled>>

-----------------------------------------------------------------------------
(* The worker connects                                                     *)

unchangedOwner == UNCHANGED <<engine, owner, ended, registered, stopped>>

\* The cluster modules with ensure_running call it before each connection.
EnsureRunning ==
  /\ worker = "connecting" /\ engine \in Ensured
  /\ \E answered \in BOOLEAN :
       IF Found(answered)
         THEN worker' = "opening" /\ UNCHANGED serverVars
         ELSE worker' = "waiting" /\ StartAgain
  /\ unchangedOwner /\ UNCHANGED <<sessionVars, roundVars, signalled>>

WaitReady ==
  /\ worker = "waiting" /\ Answers
  /\ worker' = "opening"
  /\ unchangedOwner
  /\ UNCHANGED <<serverVars, sessionVars, roundVars, signalled>>

\* The first connection is the base's, the second the equivalent's.
Open ==
  /\ \/ worker = "opening" /\ Up
     \/ worker = "connecting" /\ engine \notin Ensured /\ (Up \/ engine = "duckdb")
  /\ sessions' = [sessions EXCEPT ![side] = "open"]
  /\ IF side = "base"
       THEN worker' = "connecting" /\ side' = "equivalent"
       ELSE worker' = "idle" /\ side' = "base"
  /\ unchangedOwner
  /\ UNCHANGED <<serverVars, owed, late, outcome, roundVars, signalled>>

\* RuntimeError of _wait_ready, or a connection refused: a setup error.
\* PostgreSQL refuses while it recovers, or has too many clients for half a
\* minute.
SetupFails ==
  /\ \/ worker = "waiting" /\ NoticedEnded
     \/ worker = "opening" /\ ~Up
     \/ worker = "connecting" /\ engine = "clickhouse" /\ ~Up
     \/ worker = "connecting" /\ engine = "postgres"
  /\ UNCHANGED verdicts /\ WorkerGone(servers)
  /\ UNCHANGED <<killers, faults, trouble, signalled>>

-----------------------------------------------------------------------------
(* The worker runs a query                                                 *)

BeginQuery ==
  /\ worker = "idle" /\ query < Queries /\ owner = "round"
  /\ query' = query + 1 /\ worker' = "query" /\ side' = "base"
  /\ outcome' = [s \in Sides |-> NoOutcome]
  /\ unchangedOwner
  /\ UNCHANGED <<serverVars, sessions, owed, late, verdicts, killers, faults,
                 trouble, signalled>>

EndRound ==
  /\ worker = "idle" /\ owner = "round"
  /\ UNCHANGED verdicts /\ WorkerGone(servers)
  /\ UNCHANGED <<killers, faults, trouble, signalled>>

Verdict(c) ==
  IF is_uncomparable(c) THEN "uncomparable"
  ELSE IF is_known_issue(c) THEN "known_issue"
  ELSE IF is_error(c) THEN "error"
  ELSE IF is_mismatch(c) THEN "mismatch" ELSE "pass"

\* Mutant: the query goes on after the base alone.
FinishesBase(kind, of) ==
  /\ outcome' = [outcome EXCEPT ![side] = [kind |-> kind, of |-> of]]
  /\ verdicts' = [verdicts EXCEPT ![query] = kind]
  /\ worker' = "idle" /\ side' = "base"
  /\ unchangedOwner /\ UNCHANGED <<held, query, signalled>>

\* Database.query has the outcome of this side; after the second, compare_one.
\* The engines answer truly: rows differ if they answer different queries.
Finish(kind, of) ==
  /\ outcome' = [outcome EXCEPT ![side] = [kind |-> kind, of |-> of]]
  /\ IF side = "base"
       THEN side' = "equivalent" /\ UNCHANGED <<worker, verdicts>>
       ELSE LET diff == [equal |-> outcome["base"].of = of, reconciled |-> 0]
                c == compare_one(outcome["base"].kind, kind, diff)
            IN  /\ verdicts' = [verdicts EXCEPT ![query] = Verdict(c)]
                /\ worker' = "idle" /\ side' = "base"
  /\ unchangedOwner /\ UNCHANGED <<held, query, signalled>>

Usable == worker = "query" /\ sessions[side] \in {"open", "doomed"}

\* DuckDB's answers come through one pipe, framed by one token, so what is
\* read is the oldest answer not yet read.
Answer ==
  /\ Usable
  /\ LET answers == Append(owed[side], query)
     IN  /\ Finish("rows", Head(answers))
         /\ owed' = [owed EXCEPT ![side] = Tail(answers)]
  /\ \/ UNCHANGED late
     \/ engine \in Watched /\ late' = [late EXCEPT ![side] = TRUE]
  /\ UNCHANGED <<servers, sessions, killers, faults, trouble>>

Rejected ==
  /\ Usable
  /\ Finish("error", query)
  /\ faults' = IF side = "equivalent" THEN faults \union {query} ELSE faults
  /\ UNCHANGED <<servers, sessions, owed, late, killers, trouble>>

\* Mutant: a statement that times out is left running in the CLI process.
cli_waits ==
  /\ owed' = [owed EXCEPT ![side] = Append(@, query)]
  /\ UNCHANGED sessions

\* _readline_timed kills the CLI process, whose answer could still come.
cli_times_out ==
  /\ sessions' = [sessions EXCEPT ![side] = "lost"]
  /\ UNCHANGED owed

\* The time limit of one statement: the server's, MySQL's watchdog or
\* DuckDB's.
TimesOut ==
  /\ Usable
  /\ Finish(IF engine \in TimeoutLabelled THEN "known_issue" ELSE "error", query)
  /\ IF engine = "duckdb" THEN cli_times_out ELSE UNCHANGED <<sessions, owed>>
  /\ trouble' = trouble \union {"timed out"}
  /\ UNCHANGED <<servers, late, killers, faults>>

\* The timer was cancelled too late: KILL QUERY reaches the next statement of
\* the connection, or none.
LateKill ==
  /\ late[side] /\ Usable
  /\ Finish(IF engine \in TimeoutLabelled THEN "known_issue" ELSE "error", query)
  /\ late' = [late EXCEPT ![side] = FALSE]
  /\ UNCHANGED <<servers, sessions, owed, killers, faults, trouble>>

KillMisses ==
  /\ \E s \in Sides : late[s] /\ late' = [late EXCEPT ![s] = FALSE]
  /\ unchangedOwner
  /\ UNCHANGED <<worker, serverVars, sessions, owed, outcome, side, roundVars,
                 signalled>>

-----------------------------------------------------------------------------
(* The engine dies                                                         *)

\* A process of PostgreSQL, the whole server, or DuckDB's process.
Lose ==
  [s \in Sides |->
     CASE s = side -> "lost"
       [] engine = "duckdb" \/ sessions[s] = "closed" -> sessions[s]
       [] engine = "postgres" /\ sessions[s] = "open" -> "doomed"
       [] engine # "postgres" -> "lost"
       [] OTHER -> sessions[s]]
Crashed ==
  IF engine \in {"postgres", "duckdb"} THEN servers
  ELSE [i \in ServerIds |-> IF servers[i].state = "running"
                              THEN [servers[i] EXCEPT !.state = "dead"]
                              ELSE servers[i]]

\* The statement kills the engine: SIGABRT in the worker (_crash,
\* _maybe_abort), or an error like any other.
KillsEngine ==
  /\ Usable /\ (Up \/ engine = "duckdb")
  /\ killers' = killers \union {query} /\ trouble' = trouble \union {"killed"}
  /\ IF engine \in AbortsDuring
       THEN Blamed /\ WorkerGone(Crashed)
       ELSE /\ Finish("error", query)
            /\ sessions' = Lose /\ servers' = Crashed
            /\ UNCHANGED <<owed, late>>
  /\ UNCHANGED <<faults, signalled>>

\* The statement finds its connection lost.
FindsLost ==
  /\ worker = "query" /\ sessions[side] = "lost"
  /\ IF engine \in AbortsAlways
       THEN Blamed /\ WorkerGone(servers)
       ELSE Finish("error", query) /\ UNCHANGED <<servers, sessions, owed, late>>
  /\ UNCHANGED <<killers, faults, trouble, signalled>>

\* DuckDB's process ends between poll and write: BrokenPipeError is not an
\* error Database.query knows, and leaves _worker.
PipeBreaks ==
  /\ Usable /\ engine = "duckdb"
  /\ Blamed /\ WorkerGone(servers)
  /\ trouble' = trouble \union {"died"}
  /\ UNCHANGED <<killers, faults, signalled>>

\* The server dies of something else, PostgreSQL's postmaster included.
ServerDies ==
  /\ Up
  /\ servers' = [i \in ServerIds |-> IF servers[i].state = "running"
                   THEN [servers[i] EXCEPT !.state = "dead"] ELSE servers[i]]
  /\ sessions' = [s \in Sides |->
                    IF sessions[s] = "closed" THEN "closed" ELSE "lost"]
  /\ trouble' = IF worker = "none" THEN trouble ELSE trouble \union {"died"}
  /\ unchangedOwner
  /\ UNCHANGED <<worker, held, owed, late, outcome, side, query, verdicts,
                 killers, faults, signalled>>

\* The process of one of DuckDB's connections does.
CliDies ==
  /\ engine = "duckdb"
  /\ \E s \in Sides : /\ sessions[s] = "open"
                      /\ sessions' = [sessions EXCEPT ![s] = "lost"]
  /\ trouble' = trouble \union {"died"}
  /\ unchangedOwner
  /\ UNCHANGED <<worker, serverVars, owed, late, outcome, side, query, verdicts,
                 killers, faults, signalled>>

\* The postmaster reaches the other backend.
BackendEnded ==
  /\ \E s \in Sides : /\ sessions[s] = "doomed"
                      /\ sessions' = [sessions EXCEPT ![s] = "lost"]
  /\ unchangedOwner
  /\ UNCHANGED <<worker, serverVars, owed, late, outcome, side, roundVars,
                 signalled>>

\* The worker does not answer in time, and the parent kills it.
Hangs ==
  /\ worker = "query" /\ owner = "round"
  /\ Blamed /\ WorkerGone(servers)
  /\ UNCHANGED <<killers, faults, trouble, signalled>>

\* SIGTERM to the worker alone.  It has inherited the owner's handler.
Signalled ==
  /\ worker # "none" /\ ~signalled /\ signalled' = TRUE
  /\ Blamed
  /\ WorkerGone(IF engine \in Handled THEN stop(servers, "worker") ELSE servers)
  /\ UNCHANGED <<killers, faults, trouble>>

-----------------------------------------------------------------------------
Work ==
  \/ EnsureRunning \/ WaitReady \/ Open \/ SetupFails \/ BeginQuery \/ EndRound
  \/ Answer \/ Rejected \/ TimesOut \/ LateKill \/ KillsEngine \/ FindsLost
  \/ PipeBreaks \/ Hangs \/ Abandoned

Own == Fork \/ WriteFinding \/ Leave

Start ==
  /\ Construct \/ Answering \/ NotAnswering \/ Register
  /\ UNCHANGED <<sessionVars, roundVars, signalled>>

Fate == ServerDies \/ CliDies \/ BackendEnded \/ KillMisses \/ Signalled
        \/ Interrupt \/ Terminate

Done == owner = "gone" /\ worker = "none" /\ UNCHANGED vars

Next == Start \/ Own \/ Work \/ Fate \/ Done

\* The worker and the owner run as long as they can: every statement ends by
\* its time limit, and the parent kills a worker that does not answer.
Spec == Init /\ [][Next]_vars /\ WF_vars(Work) /\ WF_vars(Own)

-----------------------------------------------------------------------------
(* Properties                                                              *)

TypeOK ==
  /\ engine \in Engines
  /\ owner \in {"idle", "waiting", "unregistered", "between", "round",
                "reporting", "gone"}
  /\ ended \in {"no", "raised", "exit", "terminated", "killed"}
  /\ registered \in BOOLEAN /\ stopped \in BOOLEAN /\ signalled \in BOOLEAN
  /\ worker \in {"none", "connecting", "waiting", "opening", "idle", "query"}
  /\ servers \in [ServerIds -> [state : States, by : Parents]]
  /\ held \in [{"owner", "worker"} -> ServerIds \union {NoServer}]
  /\ sessions \in [Sides -> {"closed", "open", "doomed", "lost"}]
  /\ late \in [Sides -> BOOLEAN]
  /\ owed \in [Sides -> Seq(1..Queries)]
  /\ outcome \in [Sides -> [kind : QueryOutcomes \union {"none"}, of : 0..Queries]]
  /\ side \in Sides /\ query \in 0..Queries
  /\ verdicts \in [1..Queries -> Verdicts]
  /\ killers \subseteq 1..Queries /\ faults \subseteq 1..Queries
  /\ trouble \subseteq Troubles

\* However a worker ends, with the owner's handlers and cluster object in it,
\* it does not take the server away that the campaign is still using
\* (the owner-pid guard of stop).
OnlyTheOwnerStops ==
  registered /\ ~stopped => servers[held["owner"]].state # "none"

\* When the owner has left, by itself, on Ctrl-C, on an exception or, where a
\* handler is installed, on SIGTERM, what it started is gone, running or not;
\* only TiDB and Dolt may leave a server running, one that a worker started.
\* ended is "killed" for a SIGTERM without a handler, and that leaves the server.
NothingLeftBehind ==
  owner = "gone" /\ registered /\ ended # "killed" =>
    /\ servers[held["owner"]].state = "none"
    /\ engine # "tidb" => Running(servers) = {}

\* An engine with ensure_running that is down between two rounds is up again
\* before long, unless the campaign ends.
Recovers ==
  (engine \in Ensured /\ owner = "between" /\ ~Up) ~> (Up \/ owner = "gone")

\* A query that killed the engine is a crash or an error of the equivalent.
Blame(q) == verdicts[q] \in {"none", "crash", "error"}

\* The query that kills the engine is the one that is reported, on every
\* engine but PostgreSQL.
KillersAreBlamed == engine # "postgres" => \A q \in killers : Blame(q)

\* The same of PostgreSQL as well: "an abort is something this harness
\* attributes to the exact query that caused it".
CrashIsBlamed == \A q \in killers : Blame(q)

\* What happened to the engine earlier in the round and shows up as further
\* errors, on PostgreSQL, CrateDB and DuckDB only; ClickHouse reports its own
\* time limit.
Excused ==
  \/ engine = "postgres" /\ trouble \intersect {"killed", "died"} # {}
  \/ engine = "cratedb" /\ "died" \in trouble
  \/ engine = "duckdb" /\ trouble \intersect {"timed out", "died"} # {}
  \/ engine = "clickhouse" /\ "timed out" \in trouble

\* A one-sided error or a mismatch has a cause in the equivalent's own
\* execution of that query: never a time limit, a late KILL QUERY or the
\* answer to another query.  A mismatch has no excuse at all.
FindingsHaveACause ==
  \A q \in 1..Queries :
    verdicts[q] \in {"error", "mismatch"} =>
      q \in faults \/ (verdicts[q] = "error" /\ Excused)

-----------------------------------------------------------------------------
(* The inductive invariant behind them: whose the servers are, ...         *)

ServerTypes ==
  /\ engine \in Engines
  /\ servers \in [ServerIds -> [state : States, by : Parents]]
  /\ held \in [{"owner", "worker"} -> ServerIds \union {NoServer}]

\* How far the owner is, and whether it has a worker and a server.
OwnerStages ==
  /\ owner = "idle" => /\ held = [p \in {"owner", "worker"} |-> NoServer]
                       /\ \A i \in ServerIds : servers[i].state = "none"
  /\ owner \in {"idle", "waiting", "unregistered"} => ~registered /\ worker = "none"
  /\ owner \in {"waiting", "unregistered"} \/ registered =>
       held["owner"] \in ServerIds
  /\ owner \in {"between", "reporting"} => worker = "none"
  /\ owner \in {"between", "reporting", "round"} => registered \/ engine = "duckdb"
  /\ worker # "none" => registered \/ engine = "duckdb"
  /\ ended = "no" <=> owner # "gone"
  /\ ended \in {"no", "exit", "terminated", "raised", "killed"}
  /\ owner # "gone" => ~stopped
  /\ ended \in {"exit", "terminated", "raised"} =>
       worker = "none" /\ (registered => stopped)

\* One server runs, as they share a port: the owner's, except on TiDB.
OneServer ==
  /\ \A i, j \in ServerIds :
       servers[i].state = "running" /\ servers[j].state = "running" => i = j
  /\ engine # "tidb" =>
       /\ \A i \in ServerIds : servers[i].state = "running" => i = held["owner"]
       /\ worker # "none" => held["worker"] = held["owner"]

Custody ==
  /\ ServerTypes /\ OwnerStages /\ OneServer
  /\ owner \in {"waiting", "unregistered"} => servers[held["owner"]].state # "none"
  /\ OnlyTheOwnerStops /\ NothingLeftBehind

\* ... and why a query has its verdict.
SessionTypes ==
  /\ sessions \in [Sides -> {"closed", "open", "doomed", "lost"}]
  /\ owed = [s \in Sides |-> <<>>]
  /\ late \in [Sides -> BOOLEAN]
  /\ outcome \in [Sides -> [kind : QueryOutcomes \union {"none"}, of : 0..Queries]]
  /\ side \in Sides /\ query \in 0..Queries
  /\ verdicts \in [1..Queries -> Verdicts]
  /\ killers \subseteq 1..Queries /\ faults \subseteq 1..Queries
  /\ trouble \subseteq Troubles

\* A connection is only lost for a reason the round knows of.
Losses ==
  /\ worker = "none" => \A s \in Sides : sessions[s] = "closed"
  /\ \A s \in Sides :
       /\ sessions[s] = "doomed" => engine = "postgres" /\ "killed" \in trouble
       /\ sessions[s] = "lost" => engine \in AbortsAlways \/ Excused
       /\ late[s] => engine \in Watched

\* The base has answered the query that the equivalent is asked.
InStep ==
  worker = "query" =>
    /\ query # 0
    /\ side = "equivalent" =>
         outcome["base"].of = query /\ outcome["base"].kind # "none"

\* Where the connection aborts, a killer is the last query of its round.
KillersEndTheRound ==
  engine # "postgres" =>
    /\ killers # {} => worker = "none"
    /\ \A q \in killers : verdicts[q] = "crash"

Attribution ==
  SessionTypes /\ Losses /\ InStep /\ KillersEndTheRound /\ FindingsHaveACause

IInv == Custody /\ Attribution
=============================================================================
