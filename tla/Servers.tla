------------------------------ MODULE Servers ------------------------------
(***************************************************************************)
(* The server a campaign runs against (the cluster modules of the          *)
(* dialects): started once by the process that owns the campaign, shared   *)
(* with the worker forked for each round, restarted by a worker that       *)
(* finds it down, and stopped by the owner.                                *)
(*                                                                         *)
(* A server is a process of this machine or, for the engines in            *)
(* Contained, a container; all servers of a campaign are given one port.   *)
(* `held` is what the cluster object of each process names: the worker has *)
(* a copy, so what it starts is unknown to the owner.  Dolt's cluster is   *)
(* TiDB's, and MariaDB's is MySQL's.                                       *)
(***************************************************************************)
EXTENDS Naturals, FiniteSets

CONSTANT Engines      \* the engines of a run, a subset of AllEngines

\* What the cluster modules differ in.  duckdb has no server: every
\* connection is a process of its own.
AllEngines == {"postgres", "clickhouse", "mysql", "cratedb", "tidb",
               "tidb_docker", "duckdb"}
Shared == AllEngines \ {"duckdb"}
Handled == {"postgres", "clickhouse"}               \* signal handlers
Contained == {"mysql", "cratedb", "tidb_docker"}    \* Docker
Ensured == Contained \union {"tidb"}                \* ensure_running
OfGroup == {"clickhouse", "tidb"}     \* Ctrl-C reaches the server as well

ASSUME EnginesAssumption == Engines \subseteq AllEngines

\* Two processes each name one, and a third may run: one is always free.
ServerIds == 1..4
NoServer == 0

VARIABLES engine,
          owner,       \* where the owning process is
          ended,       \* how it ended
          registered,  \* shared_cluster has installed the teardown
          stopped,     \* _stopped, in the owner
          worker,      \* where the worker is, "none" between rounds
          servers,     \* [ServerIds -> [state, by]]: by is whose child it is
          held         \* [process -> the server its cluster object names]
serverVars == <<servers, held>>

States == {"none", "running", "dead"}
Parents == {"owner", "worker", "orphan"}

Running(s) == {i \in ServerIds : s[i].state = "running"}
Up == Running(servers) # {}
Put(s, i, state) == [s EXCEPT ![i].state = state]
Free == CHOOSE i \in ServerIds :
          servers[i].state # "running" /\ \A p \in {"owner", "worker"} : held[p] # i

\* A process that ends leaves its children to init.
Orphaned(s, p) ==
  [i \in ServerIds |-> IF s[i].by = p THEN [s[i] EXCEPT !.by = "orphan"] ELSE s[i]]

ServersInit ==
  /\ engine \in Engines
  /\ owner = IF engine \in Shared THEN "idle" ELSE "between"
  /\ ended = "no" /\ registered = FALSE /\ stopped = FALSE /\ worker = "none"
  /\ servers = [i \in ServerIds |-> [state |-> "none", by |-> "orphan"]]
  /\ held = [p \in {"owner", "worker"} |-> NoServer]

\* _start_local: a new directory and a new process.  The second server on
\* the port cannot bind it and exits.
StartLocal(p) ==
  /\ held' = [held EXCEPT ![p] = Free]
  /\ servers' = [servers EXCEPT
       ![Free] = [state |-> IF Up THEN "dead" ELSE "running", by |-> p]]

\* Mutant: stop without the comparison of process ids.
stop_anywhere(s, p) ==
  IF stopped \/ ~registered THEN s ELSE Put(s, held[p], "none")

\* Mutant: stop that leaves a container behind that is not running.
stop_keeps(s, p) ==
  IF stopped \/ ~registered \/ p # "owner" \/ s[held[p]].state = "dead"
    THEN s ELSE Put(s, held[p], "none")

\* What becomes of the servers when p ends with the teardown installed: only
\* the owner stops, and once.  The directory or the container goes as well.
stop(s, p) ==
  IF stopped \/ ~registered \/ p # "owner" THEN s ELSE Put(s, held[p], "none")

-----------------------------------------------------------------------------
(* The owner starts the server                                             *)

Construct ==
  /\ owner = "idle"
  /\ StartLocal("owner")
  /\ owner' = "waiting"
  /\ UNCHANGED <<engine, ended, registered, stopped, worker>>

\* _wait_ready, and the version that is read once.
Answering ==
  /\ owner = "waiting" /\ Up
  /\ owner' = "unregistered"
  /\ UNCHANGED <<engine, ended, registered, stopped, worker, servers, held>>

\* It exits, or never answers.  Only ClickHouse stops what never answers.
NotAnswering ==
  /\ owner = "waiting"
  /\ owner' = "gone" /\ ended' = "raised"
  /\ LET stops == engine = "clickhouse" /\ Up
     IN  /\ servers' = Orphaned(IF stops THEN Put(servers, held["owner"], "none")
                                         ELSE servers, "owner")
         /\ stopped' = stops
  /\ UNCHANGED <<engine, registered, worker, held>>

\* atexit.register and, for those in Handled, _install_teardown.
Register ==
  /\ owner = "unregistered"
  /\ owner' = "between" /\ registered' = TRUE
  /\ UNCHANGED <<engine, ended, stopped, worker, servers, held>>

-----------------------------------------------------------------------------
(* The server dies, and comes back                                         *)

\* poll() is None: ended is what is not a running child of the process.
Polled(p) ==
  held[p] # NoServer /\ servers[held[p]] = [state |-> "running", by |-> p]

\* ensure_running: a container is asked for, or the port is tried; nobody may
\* answer there within two seconds although the server is up.
Found(answered) ==
  \/ Up /\ (answered \/ engine \in {"mysql", "cratedb"})
  \/ engine = "tidb" /\ Polled("worker")

\* Mutant: no docker start.
StartNothing == UNCHANGED serverVars

StartAgain ==
  IF engine = "tidb"
    THEN StartLocal("worker")
    ELSE servers' = Put(servers, held["worker"], "running") /\ UNCHANGED held

\* _wait_ready after it: whoever answers at the port will do, but a process
\* or a container that has ended may be noticed first.
Answers == Up
NoticedEnded == servers[held["worker"]].state = "dead"
=============================================================================
