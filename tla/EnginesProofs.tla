--------------------------- MODULE EnginesProofs ---------------------------
(***************************************************************************)
(* What holds of a campaign's server and of its workers, for every set of  *)
(* engines and any number of queries in a round.  Custody says whose the   *)
(* servers are and is inductive by itself; Attribution says why a query    *)
(* has its verdict and leans on it.                                        *)
(***************************************************************************)
EXTENDS Engines, TLAPS

USE DEF Sides, unchangedOwner, serverVars, sessionVars, roundVars

\* The steps that concern no server: they leave the worker alive, or absent.
Apart ==
  /\ UNCHANGED <<engine, owner, ended, registered, stopped, servers, held>>
  /\ worker' = worker \/ (worker # "none" /\ worker' # "none")

-----------------------------------------------------------------------------
(* Whose the servers are                                                   *)

\* Four ids are enough: with two of them named and one running, one is free.
LEMMA OneIsFree ==
  ASSUME ServerTypes, OneServer
  PROVE  /\ Free \in ServerIds /\ servers[Free].state # "running"
         /\ \A p \in {"owner", "worker"} : held[p] # Free
<1> DEFINE Fits(i) == /\ servers[i].state # "running"
                      /\ \A p \in {"owner", "worker"} : held[p] # i
<1>1. \E i \in ServerIds : Fits(i)
  <2>1. PICK r \in ServerIds : \A i \in ServerIds \ {r} : servers[i].state # "running"
    BY DEF OneServer, ServerIds
  <2>2. \E i \in ServerIds \ {r} : i # held["owner"] /\ i # held["worker"]
    BY DEF ServerIds
  <2> QED
    BY <2>1, <2>2
<1> QED
  BY <1>1 DEF Free

\* No step undoes custody in which servers only die, whether the worker goes on
\* or is gone.
LEMMA DeathsKeepCustody ==
  ASSUME Custody,
         UNCHANGED <<engine, ended, registered, stopped>>,
         servers' \in [ServerIds -> [state : States, by : Parents]],
         \A i \in ServerIds :
           \/ servers'[i].state = servers[i].state
           \/ servers[i].state = "running" /\ servers'[i].state = "dead",
         \/ /\ UNCHANGED <<owner, held>>
            /\ worker' = worker \/ (worker # "none" /\ worker' # "none")
         \/ /\ worker # "none" /\ worker' = "none"
            /\ held' = [held EXCEPT !["worker"] = NoServer]
            /\ owner' = owner \/ (owner = "round" /\ owner' \in {"reporting", "between"})
  PROVE  Custody'
<1>1. ServerTypes'
  BY DEF Custody, ServerTypes
<1>2. OwnerStages'
  BY DEF Custody, ServerTypes, OwnerStages, States
<1>3. OneServer'
  BY DEF Custody, ServerTypes, OneServer
<1>4. /\ held'["owner"] = held["owner"]
      /\ owner' \in {"waiting", "unregistered"} => owner' = owner
  BY DEF Custody, ServerTypes
<1>5. (owner \in {"waiting", "unregistered"} => servers[held["owner"]].state # "none")'
  BY <1>4 DEF Custody, OwnerStages
<1>6. OnlyTheOwnerStops'
  BY <1>4 DEF Custody, OwnerStages, OnlyTheOwnerStops
<1>7. NothingLeftBehind'
  <2> SUFFICES ASSUME owner' = "gone", registered', ended' # "killed"
               PROVE  /\ servers'[held'["owner"]].state = "none"
                      /\ engine' # "tidb" => Running(servers') = {}
    BY DEF NothingLeftBehind
  <2>1. owner = "gone"
    OBVIOUS
  <2>2. servers[held["owner"]].state = "none"
        /\ (engine # "tidb" => Running(servers) = {})
    BY <2>1 DEF Custody, NothingLeftBehind
  <2>3. held["owner"] \in ServerIds
    BY DEF Custody, OwnerStages
  <2> QED
    BY <1>4, <2>2, <2>3 DEF Running
<1> QED
  BY <1>1, <1>2, <1>3, <1>5, <1>6, <1>7 DEF Custody

\* A process that ends leaves the servers as they are.
LEMMA OrphansLive ==
  ASSUME NEW s \in [ServerIds -> [state : States, by : Parents]], NEW p
  PROVE  /\ Orphaned(s, p) \in [ServerIds -> [state : States, by : Parents]]
         /\ \A i \in ServerIds : Orphaned(s, p)[i].state = s[i].state
BY DEF Orphaned, Parents

\* The worker's stop changes nothing, the owner's removes the one it started.
LEMMA StopRemoves ==
  ASSUME NEW s \in [ServerIds -> [state : States, by : Parents]], NEW p
  PROVE  /\ stop(s, p) \in [ServerIds -> [state : States, by : Parents]]
         /\ p # "owner" => stop(s, p) = s
         /\ stopped \/ ~registered => stop(s, p) = s
         /\ p = "owner" /\ registered /\ ~stopped =>
              \A i \in ServerIds :
                stop(s, p)[i].state = IF i = held[p] THEN "none" ELSE s[i].state
BY DEF stop, Put, States

\* The engine's processes die where it has a server.
LEMMA CrashedDies ==
  ASSUME ServerTypes
  PROVE  /\ Crashed \in [ServerIds -> [state : States, by : Parents]]
         /\ \A i \in ServerIds :
              \/ Crashed[i].state = servers[i].state
              \/ servers[i].state = "running" /\ Crashed[i].state = "dead"
BY DEF ServerTypes, Crashed, States

\* The end of a worker, with the servers as they are or dead.
LEMMA WorkerGoneKeepsCustody ==
  ASSUME Custody, worker # "none",
         NEW s \in [ServerIds -> [state : States, by : Parents]],
         \A i \in ServerIds :
           \/ s[i].state = servers[i].state
           \/ servers[i].state = "running" /\ s[i].state = "dead",
         WorkerGone(s)
  PROVE  Custody'
<1>1. /\ servers' \in [ServerIds -> [state : States, by : Parents]]
      /\ \A i \in ServerIds : servers'[i].state = s[i].state
  BY OrphansLive DEF WorkerGone
<1>2. /\ UNCHANGED <<engine, ended, registered, stopped>>
      /\ worker' = "none" /\ held' = [held EXCEPT !["worker"] = NoServer]
      /\ owner' = owner \/ (owner = "round" /\ owner' \in {"reporting", "between"})
  BY DEF WorkerGone
<1> QED
  BY <1>1, <1>2, DeathsKeepCustody

\* The end of the owner: it stops its server, or is killed.
LEMMA OwnerGoneKeepsCustody ==
  ASSUME Custody, owner # "gone",
         NEW how \in {"exit", "terminated", "killed"},
         NEW s \in [ServerIds -> [state : States, by : Parents]],
         \A i \in ServerIds :
           \/ s[i].state = servers[i].state
           \/ servers[i].state = "running" /\ s[i].state = "dead",
         OwnerGone(how, s)
  PROVE  Custody'
<1>1. /\ UNCHANGED <<engine, registered>> /\ owner' = "gone" /\ ended' = how
      /\ ~stopped /\ held'["owner"] = held["owner"]
      /\ held' \in [{"owner", "worker"} -> ServerIds \union {NoServer}]
  BY DEF OwnerGone, Custody, OwnerStages, ServerTypes
<1>2. registered => held["owner"] \in ServerIds
  BY DEF Custody, OwnerStages
<1>3. CASE how = "killed"
  <2>1. /\ servers' \in [ServerIds -> [state : States, by : Parents]]
        /\ \A i \in ServerIds : servers'[i].state = s[i].state
        /\ UNCHANGED <<stopped, worker, held>>
    BY <1>3, OrphansLive DEF OwnerGone
  <2>2. ServerTypes' /\ OneServer'
    BY <1>1, <2>1 DEF Custody, ServerTypes, OneServer
  <2>3. OwnerStages'
    BY <1>1, <1>3, <2>1 DEF Custody, OwnerStages
  <2>4. OnlyTheOwnerStops' /\ NothingLeftBehind'
    BY <1>1, <1>2, <1>3, <2>1
    DEF Custody, OnlyTheOwnerStops, NothingLeftBehind
  <2> QED
    BY <1>1, <2>2, <2>3, <2>4 DEF Custody
<1>4. CASE how # "killed"
  <2>1. /\ stopped' = registered /\ worker' = "none"
        /\ servers' = Orphaned(Orphaned(stop(s, "owner"), "worker"), "owner")
    BY <1>4 DEF OwnerGone
  <2>2. stop(s, "owner") \in [ServerIds -> [state : States, by : Parents]]
    BY StopRemoves
  <2>3. Orphaned(stop(s, "owner"), "worker") \in
          [ServerIds -> [state : States, by : Parents]]
    BY <2>2, OrphansLive
  <2>4. /\ servers' \in [ServerIds -> [state : States, by : Parents]]
        /\ \A i \in ServerIds : servers'[i].state = stop(s, "owner")[i].state
    BY <2>1, <2>2, <2>3, OrphansLive
  <2>5. \A i \in ServerIds :
          servers'[i].state =
            IF registered /\ i = held["owner"] THEN "none" ELSE s[i].state
    BY <1>1, <2>4, StopRemoves
  <2>6. ServerTypes' /\ OneServer'
    BY <1>1, <2>1, <2>4, <2>5 DEF Custody, ServerTypes, OneServer
  <2>7. OwnerStages'
    BY <1>1, <1>2, <2>1, <2>5 DEF Custody, OwnerStages
  <2>8. OnlyTheOwnerStops'
    BY <1>1, <2>1 DEF OnlyTheOwnerStops
  <2>9. engine # "tidb" /\ registered => Running(servers') = {}
    BY <1>2, <2>5 DEF Custody, OneServer, Running
  <2>10. NothingLeftBehind'
    BY <1>1, <1>2, <2>5, <2>9 DEF NothingLeftBehind
  <2> QED
    BY <1>1, <2>6, <2>7, <2>8, <2>10 DEF Custody
<1> QED
  BY <1>3, <1>4

\* At first there is nothing to look after.
LEMMA InitCustody == Init => Custody
<1> SUFFICES ASSUME Init PROVE Custody
  OBVIOUS
<1>1. ServerTypes
  BY EnginesAssumption DEF Init, ServersInit, ServerTypes, States, Parents, NoServer
<1>2. OwnerStages /\ OneServer
  BY <1>1, EnginesAssumption
  DEF Init, ServersInit, OwnerStages, OneServer, ServerTypes, Shared
<1> QED
  BY <1>1, <1>2
  DEF Init, ServersInit, Custody, OnlyTheOwnerStops, NothingLeftBehind, Shared

\* The owner starts its server and installs the teardown, or fails to.
LEMMA StartKeepsCustody == Custody /\ Start => Custody'
<1> SUFFICES ASSUME Custody, Start PROVE Custody'
  OBVIOUS
<1>0. ServerTypes /\ OwnerStages /\ OneServer
  BY DEF Custody
<1>1. CASE Construct
  <2>1. /\ Free \in ServerIds /\ ~Up
        /\ held' = [held EXCEPT !["owner"] = Free]
        /\ servers' = [servers EXCEPT ![Free] = [state |-> "running", by |-> "owner"]]
        /\ owner' = "waiting" /\ owner = "idle"
        /\ UNCHANGED <<engine, ended, registered, stopped, worker>>
    BY <1>0, <1>1, OneIsFree DEF Construct, StartLocal, Up, Running, OwnerStages
  <2>2. ServerTypes'
    BY <1>0, <2>1 DEF ServerTypes, States, Parents
  <2>3. held'["owner"] = Free /\ servers'[Free].state = "running"
        /\ \A i \in ServerIds : i # Free => servers'[i].state = "none"
    BY <1>0, <2>1 DEF ServerTypes, OwnerStages
  <2>4. OwnerStages' /\ OneServer'
    BY <1>0, <2>1, <2>3 DEF OwnerStages, OneServer
  <2>5. ~registered /\ owner' = "waiting" /\ servers'[held'["owner"]].state # "none"
    BY <1>0, <2>1, <2>3 DEF OwnerStages
  <2> QED
    BY <2>1, <2>2, <2>4, <2>5 DEF Custody, OnlyTheOwnerStops, NothingLeftBehind
<1>2. CASE Answering \/ Register
  <2>1. /\ UNCHANGED <<engine, ended, stopped, worker, servers, held>>
        /\ owner \in {"waiting", "unregistered"}
        /\ \/ owner' = "unregistered" /\ registered' = registered
           \/ owner' = "between" /\ registered'
    BY <1>2 DEF Answering, Register
  <2>2. ServerTypes' /\ OwnerStages' /\ OneServer'
    BY <1>0, <2>1 DEF ServerTypes, OwnerStages, OneServer
  <2> QED
    BY <2>1, <2>2 DEF Custody, OnlyTheOwnerStops, NothingLeftBehind
<1>3. CASE NotAnswering
  <2>1. /\ UNCHANGED <<engine, registered, worker, held>>
        /\ owner = "waiting" /\ owner' = "gone" /\ ended' = "raised" /\ ~registered
        /\ worker = "none"
    BY <1>0, <1>3 DEF NotAnswering, OwnerStages
  <2>2. Put(servers, held["owner"], "none") \in
          [ServerIds -> [state : States, by : Parents]]
    BY <1>0 DEF ServerTypes, Put, States
  <2>3. PICK s \in [ServerIds -> [state : States, by : Parents]] :
          /\ servers' = Orphaned(s, "owner")
          /\ s = servers \/ s = Put(servers, held["owner"], "none")
    BY <1>0, <1>3, <2>2 DEF NotAnswering, ServerTypes
  <2>4. /\ servers' \in [ServerIds -> [state : States, by : Parents]]
        /\ \A i \in ServerIds : servers'[i].state = s[i].state
    BY <2>3, OrphansLive
  <2>5. \A i \in ServerIds : servers'[i].state \in {servers[i].state, "none"}
    BY <1>0, <2>3, <2>4 DEF ServerTypes, Put
  <2>6. ServerTypes' /\ OwnerStages' /\ OneServer'
    BY <1>0, <2>1, <2>4, <2>5 DEF ServerTypes, OwnerStages, OneServer
  <2> QED
    BY <2>1, <2>6 DEF Custody, OnlyTheOwnerStops, NothingLeftBehind
<1> QED
  BY <1>1, <1>2, <1>3 DEF Start

\* The owner forks a worker, writes its findings, or leaves.
LEMMA OwnKeepsCustody == Custody /\ Own => Custody'
<1> SUFFICES ASSUME Custody, Own PROVE Custody'
  OBVIOUS
<1>0. ServerTypes /\ OwnerStages /\ OneServer
  BY DEF Custody
<1>1. CASE Fork
  <2>1. /\ UNCHANGED <<engine, ended, registered, stopped, servers>>
        /\ owner = "between" /\ owner' = "round" /\ worker' = "connecting"
        /\ held' = [held EXCEPT !["worker"] = held["owner"]]
    BY <1>1 DEF Fork
  <2>2. ServerTypes' /\ held'["owner"] = held["owner"]
        /\ held'["worker"] = held["owner"]
    BY <1>0, <2>1 DEF ServerTypes
  <2>3. OwnerStages' /\ OneServer'
    BY <1>0, <2>1, <2>2 DEF OwnerStages, OneServer
  <2> QED
    BY <2>1, <2>2, <2>3 DEF Custody, OnlyTheOwnerStops, NothingLeftBehind
<1>2. CASE WriteFinding /\ owner' = "between"
  BY <1>0, <1>2
  DEF WriteFinding, Custody, ServerTypes, OwnerStages, OneServer,
      OnlyTheOwnerStops, NothingLeftBehind
<1>3. CASE WriteFinding /\ owner' # "between"
  <2>1. /\ UNCHANGED <<engine, registered, worker, held>>
        /\ owner = "reporting" /\ owner' = "gone" /\ ended' = "raised"
        /\ worker = "none" /\ stopped' = registered /\ ~stopped
        /\ servers' = Orphaned(stop(servers, "owner"), "owner") /\ ~Up
    BY <1>0, <1>3 DEF WriteFinding, OwnerStages
  <2>2. stop(servers, "owner") \in [ServerIds -> [state : States, by : Parents]]
    BY <1>0, StopRemoves DEF ServerTypes
  <2>3. /\ servers' \in [ServerIds -> [state : States, by : Parents]]
        /\ \A i \in ServerIds :
             servers'[i].state = stop(servers, "owner")[i].state
    BY <2>1, <2>2, OrphansLive
  <2>4. \A i \in ServerIds :
          servers'[i].state =
            IF registered /\ i = held["owner"] THEN "none" ELSE servers[i].state
    BY <1>0, <2>1, <2>3, StopRemoves DEF ServerTypes
  <2>5. ServerTypes' /\ OwnerStages' /\ OneServer'
    BY <1>0, <2>1, <2>3, <2>4 DEF ServerTypes, OwnerStages, OneServer
  <2>6. registered => held["owner"] \in ServerIds
    BY <1>0 DEF OwnerStages
  <2>7. Running(servers') = {}
    BY <2>1, <2>4 DEF Running, Up
  <2> QED
    BY <2>1, <2>4, <2>5, <2>6, <2>7
    DEF Custody, OnlyTheOwnerStops, NothingLeftBehind
<1>4. CASE Leave
  <2>1. owner = "between" /\ OwnerGone("exit", servers)
    BY <1>4 DEF Leave
  <2> QED
    BY <1>0, <2>1, OwnerGoneKeepsCustody DEF ServerTypes
<1> QED
  BY <1>1, <1>2, <1>3, <1>4 DEF Own

\* A worker that finds the server down starts it again, or another one.
LEMMA RestartKeepsCustody == Custody /\ EnsureRunning => Custody'
<1> SUFFICES ASSUME Custody, EnsureRunning PROVE Custody'
  OBVIOUS
<1>0. ServerTypes /\ OwnerStages /\ OneServer
  BY DEF Custody
<1>1. /\ UNCHANGED <<engine, owner, ended, registered, stopped>>
      /\ worker = "connecting" /\ worker' \in {"opening", "waiting"}
      /\ engine \in Ensured
  BY DEF EnsureRunning
<1>2. registered /\ held["owner"] \in ServerIds
  BY <1>0, <1>1 DEF OwnerStages, Ensured, Contained
<1>3. ended \in {"no", "killed"} /\ (owner = "gone" => ended = "killed")
      /\ owner \notin {"idle", "waiting", "unregistered", "between", "reporting"}
  BY <1>0, <1>1 DEF OwnerStages
<1>4. CASE UNCHANGED <<servers, held>>
  BY <1>0, <1>1, <1>4, DeathsKeepCustody DEF ServerTypes
<1>5. CASE engine # "tidb" /\ StartAgain /\ \E answered \in BOOLEAN : ~Found(answered)
  <2>1. /\ UNCHANGED held /\ held["worker"] = held["owner"]
        /\ servers' = Put(servers, held["owner"], "running")
    BY <1>0, <1>1, <1>5 DEF StartAgain, OneServer
  <2>2. /\ servers' \in [ServerIds -> [state : States, by : Parents]]
        /\ servers'[held["owner"]].state = "running"
        /\ \A i \in ServerIds : i # held["owner"] =>
             servers'[i].state = servers[i].state
    BY <1>0, <1>2, <2>1 DEF ServerTypes, Put, States
  <2>3. \A i \in ServerIds : i # held["owner"] => servers'[i].state # "running"
    BY <1>0, <1>5, <2>2 DEF OneServer
  <2>4. ServerTypes' /\ OneServer'
    BY <1>0, <1>1, <2>1, <2>2, <2>3 DEF ServerTypes, OneServer
  <2>5. OwnerStages'
    BY <1>0, <1>1, <1>2, <1>3, <2>1 DEF OwnerStages
  <2>6. OnlyTheOwnerStops'
    BY <2>1, <2>2 DEF OnlyTheOwnerStops
  <2>7. NothingLeftBehind'
    BY <1>1, <1>3 DEF NothingLeftBehind
  <2> QED
    BY <1>1, <1>3, <2>4, <2>5, <2>6, <2>7 DEF Custody
<1>6. CASE engine = "tidb" /\ StartAgain
  <2>1. /\ Free \in ServerIds /\ \A p \in {"owner", "worker"} : held[p] # Free
        /\ held' = [held EXCEPT !["worker"] = Free]
        /\ servers' = [servers EXCEPT
             ![Free] = [state |-> IF Up THEN "dead" ELSE "running", by |-> "worker"]]
    BY <1>0, <1>6, OneIsFree DEF StartAgain, StartLocal
  <2>2. ServerTypes' /\ held'["owner"] = held["owner"]
    BY <1>0, <1>1, <2>1 DEF ServerTypes, States, Parents
  <2>3. /\ servers'[Free].state = IF Up THEN "dead" ELSE "running"
        /\ \A i \in ServerIds : i # Free => servers'[i] = servers[i]
    BY <1>0, <2>1 DEF ServerTypes
  <2>4. ~Up => \A i \in ServerIds : servers[i].state # "running"
    BY DEF Up, Running
  <2>5. OneServer'
    BY <1>0, <1>1, <1>6, <2>3, <2>4 DEF OneServer
  <2>6. OwnerStages'
    BY <1>0, <1>1, <1>2, <1>3, <2>2 DEF OwnerStages
  <2>7. OnlyTheOwnerStops'
    BY <1>1, <1>2, <2>1, <2>2, <2>3 DEF Custody, OnlyTheOwnerStops
  <2>8. NothingLeftBehind'
    BY <1>1, <1>3 DEF NothingLeftBehind
  <2> QED
    BY <1>1, <1>3, <2>2, <2>5, <2>6, <2>7, <2>8 DEF Custody
<1> QED
  BY <1>4, <1>5, <1>6 DEF EnsureRunning

\* A step that leaves the servers alone.
LEMMA ApartKeepsCustody == Custody /\ Apart => Custody'
BY DeathsKeepCustody DEF Apart, Custody, ServerTypes

\* What the worker does, connecting, querying and ending.
LEMMA WorkKeepsCustody == Custody /\ Work => Custody'
<1> SUFFICES ASSUME Custody, Work PROVE Custody'
  OBVIOUS
<1>0. /\ ServerTypes
      /\ servers \in [ServerIds -> [state : States, by : Parents]]
  BY DEF Custody, ServerTypes
<1>1. CASE EnsureRunning
  BY <1>1, RestartKeepsCustody
<1>2. CASE WaitReady \/ Open \/ BeginQuery
  <2>1. Apart
    BY <1>2 DEF WaitReady, Open, BeginQuery, Apart
  <2> QED
    BY <2>1, ApartKeepsCustody
<1>3. CASE Answer \/ Rejected \/ TimesOut \/ LateKill
  <2>1. Apart
    BY <1>3 DEF Answer, Rejected, TimesOut, LateKill, Usable, Finish, Apart
  <2> QED
    BY <2>1, ApartKeepsCustody
<1>4. CASE SetupFails \/ EndRound \/ PipeBreaks \/ Hangs \/ Abandoned
  <2>1. worker # "none" /\ WorkerGone(servers)
    BY <1>4 DEF SetupFails, EndRound, PipeBreaks, Hangs, Abandoned, Usable
  <2> QED
    BY <1>0, <2>1, WorkerGoneKeepsCustody
<1>5. CASE KillsEngine
  <2>1. worker # "none" /\ worker = "query"
    BY <1>5 DEF KillsEngine, Usable
  <2>2. CASE WorkerGone(Crashed)
    BY <1>0, <2>1, <2>2, CrashedDies, WorkerGoneKeepsCustody
  <2>3. CASE Finish("error", query) /\ servers' = Crashed
    <3>1. /\ UNCHANGED <<engine, owner, ended, registered, stopped, held>>
          /\ worker' = worker \/ worker' = "idle"
      BY <2>3 DEF Finish
    <3> QED
      BY <1>0, <2>1, <2>3, <3>1, CrashedDies, DeathsKeepCustody
  <2> QED
    BY <1>5, <2>2, <2>3 DEF KillsEngine
<1>6. CASE FindsLost
  <2>1. CASE WorkerGone(servers)
    BY <1>0, <1>6, <2>1, WorkerGoneKeepsCustody DEF FindsLost
  <2>2. CASE Finish("error", query) /\ UNCHANGED servers
    <3>1. Apart
      BY <1>6, <2>2 DEF FindsLost, Finish, Apart
    <3> QED
      BY <3>1, ApartKeepsCustody
  <2> QED
    BY <1>6, <2>1, <2>2 DEF FindsLost
<1> QED
  BY <1>1, <1>2, <1>3, <1>4, <1>5, <1>6 DEF Work

\* What befalls the engine, the worker and the owner.
LEMMA FateKeepsCustody == Custody /\ Fate => Custody'
<1> SUFFICES ASSUME Custody, Fate PROVE Custody'
  OBVIOUS
<1>0. /\ ServerTypes
      /\ servers \in [ServerIds -> [state : States, by : Parents]]
  BY DEF Custody, ServerTypes
<1>1. CASE ServerDies
  <2>1. /\ servers' \in [ServerIds -> [state : States, by : Parents]]
        /\ \A i \in ServerIds :
             \/ servers'[i].state = servers[i].state
             \/ servers[i].state = "running" /\ servers'[i].state = "dead"
    BY <1>0, <1>1 DEF ServerDies, States
  <2> QED
    BY <1>1, <2>1, DeathsKeepCustody DEF ServerDies
<1>2. CASE CliDies \/ BackendEnded \/ KillMisses
  <2>1. Apart
    BY <1>2 DEF CliDies, BackendEnded, KillMisses, Apart
  <2> QED
    BY <2>1, ApartKeepsCustody
<1>3. CASE Signalled
  <2>1. worker # "none" /\ WorkerGone(servers)
    BY <1>0, <1>3, StopRemoves DEF Signalled
  <2> QED
    BY <1>0, <2>1, WorkerGoneKeepsCustody
<1>4. CASE Interrupt
  <2> DEFINE s == [i \in ServerIds |->
          IF engine \in OfGroup /\ servers[i].state = "running"
            THEN [servers[i] EXCEPT !.state = "dead"] ELSE servers[i]]
  <2>1. /\ s \in [ServerIds -> [state : States, by : Parents]]
        /\ \A i \in ServerIds :
             \/ s[i].state = servers[i].state
             \/ servers[i].state = "running" /\ s[i].state = "dead"
    BY <1>0 DEF States
  <2>2. owner # "gone" /\ OwnerGone("exit", s)
    BY <1>4 DEF Interrupt
  <2> HIDE DEF s
  <2> QED
    BY <2>1, <2>2, OwnerGoneKeepsCustody
<1>5. CASE Terminate
  <2>1. owner # "gone" /\ \E how \in {"terminated", "killed"} : OwnerGone(how, servers)
    BY <1>5 DEF Terminate
  <2> QED
    BY <1>0, <2>1, OwnerGoneKeepsCustody
<1> QED
  BY <1>1, <1>2, <1>3, <1>4, <1>5 DEF Fate

\* Custody is inductive.
LEMMA CustodyStep == Custody /\ [Next]_vars => Custody'
<1>1. Custody /\ (Done \/ UNCHANGED vars) => Custody'
  <2>1. Done \/ UNCHANGED vars => Apart
    BY DEF Done, vars, Apart
  <2> QED
    BY <2>1, ApartKeepsCustody
<1> QED
  BY <1>1, StartKeepsCustody, OwnKeepsCustody, WorkKeepsCustody, FateKeepsCustody
  DEF Next

\* Of whatever engine, in every state: whose the servers are.
THEOREM CustodyHolds == Spec => []Custody
BY InitCustody, CustodyStep, PTL DEF Spec

\* A worker's end, in whichever way and with whichever handlers, never takes the
\* server away from the campaign.
THEOREM OnlyTheOwnerStopsTheServer == Spec => []OnlyTheOwnerStops
<1>1. Custody => OnlyTheOwnerStops
  BY DEF Custody
<1> QED
  BY <1>1, CustodyHolds, PTL

\* An owner that leaves by itself, on Ctrl-C, on an exception or through its
\* handler of SIGTERM takes its server with it, and unless the engine is TiDB no
\* other one is left running.  Nothing is said of SIGKILL, of a SIGTERM that no
\* handler takes (MySQL, CrateDB, TiDB and what shares their cluster modules, and
\* any engine before it has registered), nor of a cluster not yet registered.
THEOREM NothingIsLeftBehind == Spec => []NothingLeftBehind
<1>1. Custody => NothingLeftBehind
  BY DEF Custody
<1> QED
  BY <1>1, CustodyHolds, PTL

-----------------------------------------------------------------------------
(* Why a query has its verdict                                             *)

\* What has been learnt of the engine in a round is not unlearnt.
LEMMA ExcusesStay ==
  ASSUME engine' = engine, trouble \subseteq trouble', Excused
  PROVE  Excused'
BY DEF Excused

\* Two answers to one query are never a mismatch, and are an error only if the
\* equivalent's is one.
LEMMA TrueAnswers ==
  ASSUME NEW b \in QueryOutcomes, NEW e \in QueryOutcomes, NEW m, NEW n, m = n
  PROVE  LET c == compare_one(b, e, [equal |-> m = n, reconciled |-> 0])
         IN  /\ Verdict(c) \in {"pass", "uncomparable", "known_issue", "error"}
             /\ Verdict(c) = "error" => e = "error"
BY DEF QueryOutcomes, compare_one, Verdict, is_uncomparable, is_known_issue,
       is_error, is_mismatch

\* The connections after a step: their types, and a reason for each loss.
Connected ==
  /\ sessions \in [Sides -> {"closed", "open", "doomed", "lost"}]
  /\ owed = [s \in Sides |-> <<>>]
  /\ late \in [Sides -> BOOLEAN]
  /\ Losses

\* The end of a worker, which blames the query it was running or none.
LEMMA WorkerGoneKeepsAttribution ==
  ASSUME Attribution, NEW s, WorkerGone(s),
         verdicts' = verdicts \/ Blamed,
         faults' = faults, trouble \subseteq trouble', trouble' \subseteq Troubles,
         \/ killers' = killers
         \/ worker = "query" /\ Blamed /\ killers' = killers \union {query}
  PROVE  Attribution'
<1>1. /\ UNCHANGED engine /\ worker' = "none"
      /\ sessions' = [x \in Sides |-> "closed"] /\ owed' = [x \in Sides |-> <<>>]
      /\ late' = [x \in Sides |-> FALSE]
      /\ outcome' = [x \in Sides |-> NoOutcome] /\ side' = "base" /\ query' = 0
  BY DEF WorkerGone, Disconnected
<1>2. /\ query \in 0..Queries
      /\ worker = "query" => query \in 1..Queries
      /\ verdicts \in [1..Queries -> Verdicts]
  BY QueriesAssumption DEF Attribution, SessionTypes, InStep
<1>3. /\ verdicts' \in [1..Queries -> Verdicts]
      /\ \A q \in 1..Queries : \/ verdicts'[q] = verdicts[q]
                               \/ verdicts'[q] = "crash"
  BY <1>2 DEF Blamed, Verdicts
<1>4. SessionTypes'
  <2>1. killers' \subseteq 1..Queries
    BY <1>2 DEF Attribution, SessionTypes
  <2>2. outcome' \in
          [Sides -> [kind : QueryOutcomes \union {"none"}, of : 0..Queries]]
    BY <1>1, QueriesAssumption DEF NoOutcome
  <2>3. query' \in 0..Queries
    BY <1>1, QueriesAssumption
  <2> QED
    BY <1>1, <1>3, <2>1, <2>2, <2>3 DEF Attribution, SessionTypes
<1>5. Losses' /\ InStep'
  BY <1>1 DEF Losses, InStep
<1>6. KillersEndTheRound'
  <2>1. SUFFICES ASSUME engine # "postgres", NEW q \in killers'
                 PROVE  verdicts'[q] = "crash"
    BY <1>1 DEF KillersEndTheRound
  <2>2. CASE q \in killers
    <3>1. q \in 1..Queries /\ verdicts[q] = "crash"
      BY <2>1, <2>2 DEF Attribution, SessionTypes, KillersEndTheRound
    <3> QED
      BY <1>3, <3>1
  <2>3. CASE worker = "query" /\ Blamed /\ q = query
    BY <1>2, <2>3 DEF Blamed
  <2> QED
    BY <2>1, <2>2, <2>3
<1>7. FindingsHaveACause'
  BY <1>1, <1>3, ExcusesStay DEF Attribution, FindingsHaveACause
<1> QED
  BY <1>4, <1>5, <1>6, <1>7 DEF Attribution

\* The end of a statement, in an answer of one kind or another.
LEMMA FinishKeepsAttribution ==
  ASSUME Attribution, worker = "query",
         NEW kind \in QueryOutcomes, Finish(kind, query), Connected',
         faults \subseteq faults', faults' \subseteq 1..Queries,
         trouble \subseteq trouble', trouble' \subseteq Troubles,
         killers' = killers \/ (engine = "postgres" /\ killers' \subseteq 1..Queries),
         kind = "error" /\ side = "equivalent" => query \in faults' \/ Excused'
  PROVE  Attribution'
<1>1. /\ UNCHANGED <<engine, query>>
      /\ outcome' = [outcome EXCEPT ![side] = [kind |-> kind, of |-> query]]
      /\ side' \in Sides
  BY DEF Finish
<1>2. /\ query \in 1..Queries /\ verdicts \in [1..Queries -> Verdicts]
      /\ side \in Sides /\ query \in 0..Queries
      /\ outcome \in
           [Sides -> [kind : QueryOutcomes \union {"none"}, of : 0..Queries]]
  BY DEF Attribution, SessionTypes, InStep
<1>3. outcome' \in
        [Sides -> [kind : QueryOutcomes \union {"none"}, of : 0..Queries]]
  BY <1>1, <1>2
<1>4. CASE side = "base"
  <2>1. side' = "equivalent" /\ UNCHANGED <<worker, verdicts>>
    BY <1>4 DEF Finish
  <2>2. SessionTypes'
    BY <1>1, <1>2, <1>3, <2>1 DEF Attribution, SessionTypes, Connected
  <2>3. InStep'
    BY <1>1, <1>2, <1>4, <2>1 DEF InStep, QueryOutcomes
  <2>4. KillersEndTheRound'
    BY <1>1, <2>1 DEF Attribution, KillersEndTheRound
  <2>5. FindingsHaveACause'
    BY <1>1, <2>1, ExcusesStay DEF Attribution, FindingsHaveACause
  <2> QED
    BY <2>2, <2>3, <2>4, <2>5 DEF Attribution, Connected
<1>5. CASE side = "equivalent"
  <2>1. outcome["base"].of = query /\ outcome["base"].kind \in QueryOutcomes
    BY <1>2, <1>5 DEF Attribution, InStep
  <2> DEFINE c == compare_one(outcome["base"].kind, kind,
                    [equal |-> outcome["base"].of = query, reconciled |-> 0])
  <2>2. verdicts' = [verdicts EXCEPT ![query] = Verdict(c)]
    BY <1>5 DEF Finish
  <2>3. /\ Verdict(c) \in {"pass", "uncomparable", "known_issue", "error"}
        /\ Verdict(c) = "error" => kind = "error"
    BY <2>1, TrueAnswers
  <2> HIDE DEF c
  <2>4. PICK v \in {"pass", "uncomparable", "known_issue", "error"} :
          /\ verdicts' = [verdicts EXCEPT ![query] = v]
          /\ v = "error" => kind = "error"
    BY <2>2, <2>3
  <2>5. worker' = "idle" /\ side' = "base"
    BY <1>5 DEF Finish
  <2>6. verdicts' \in [1..Queries -> Verdicts]
    BY <1>2, <2>4 DEF Verdicts
  <2>7. SessionTypes'
    BY <1>1, <1>2, <1>3, <2>5, <2>6 DEF Attribution, SessionTypes, Connected
  <2>8. InStep'
    BY <2>5 DEF InStep
  <2>9. KillersEndTheRound'
    BY <1>1 DEF Attribution, KillersEndTheRound
  <2>10. FindingsHaveACause'
    <3> SUFFICES ASSUME NEW q \in 1..Queries, verdicts'[q] \in {"error", "mismatch"}
                 PROVE  q \in faults' \/ (verdicts'[q] = "error" /\ Excused')
      BY DEF FindingsHaveACause
    <3>1. CASE q = query
      BY <1>2, <1>5, <2>4, <3>1
    <3>2. CASE q # query
      BY <1>1, <1>2, <2>4, <3>2, ExcusesStay DEF Attribution, FindingsHaveACause
    <3> QED
      BY <3>1, <3>2
  <2> QED
    BY <2>7, <2>8, <2>9, <2>10 DEF Attribution, Connected
<1> QED
  BY <1>2, <1>4, <1>5

\* A step in which no query gets a verdict.
LEMMA NoVerdictKeepsAttribution ==
  ASSUME Attribution, UNCHANGED <<engine, verdicts, killers, faults>>,
         trouble \subseteq trouble', trouble' \subseteq Troubles, Connected',
         outcome' \in
           [Sides -> [kind : QueryOutcomes \union {"none"}, of : 0..Queries]],
         side' \in Sides, query' \in 0..Queries,
         worker = "none" => worker' = "none", InStep'
  PROVE  Attribution'
<1>1. SessionTypes'
  BY DEF Attribution, SessionTypes, Connected
<1>2. KillersEndTheRound'
  BY DEF Attribution, KillersEndTheRound
<1>3. FindingsHaveACause'
  BY ExcusesStay DEF Attribution, FindingsHaveACause
<1> QED
  BY <1>1, <1>2, <1>3 DEF Attribution, Connected

\* What the state of the connections is before a step.
LEMMA Typed ==
  ASSUME Attribution
  PROVE  /\ SessionTypes /\ Losses /\ InStep /\ Connected
         /\ sessions \in [Sides -> {"closed", "open", "doomed", "lost"}]
         /\ owed = [s \in Sides |-> <<>>] /\ late \in [Sides -> BOOLEAN]
         /\ outcome \in
              [Sides -> [kind : QueryOutcomes \union {"none"}, of : 0..Queries]]
         /\ side \in Sides /\ query \in 0..Queries
         /\ trouble \subseteq Troubles /\ faults \subseteq 1..Queries
         /\ killers \subseteq 1..Queries
BY DEF Attribution, SessionTypes, Connected

\* Before the first round nothing has a verdict.
LEMMA InitAttribution == Init => Attribution
<1> SUFFICES ASSUME Init PROVE Attribution
  OBVIOUS
<1>1. SessionTypes
  BY QueriesAssumption DEF Init, SessionTypes, NoOutcome, Verdicts
<1>2. Losses /\ InStep /\ KillersEndTheRound /\ FindingsHaveACause
  BY DEF Init, ServersInit, Losses, InStep, KillersEndTheRound, FindingsHaveACause
<1> QED
  BY <1>1, <1>2 DEF Attribution

\* A step that leaves connections, round and worker alone.
LEMMA IdleKeepsAttribution ==
  ASSUME Attribution, UNCHANGED <<engine, worker, sessionVars, roundVars>>
  PROVE  Attribution'
BY DEF Attribution, SessionTypes, Losses, InStep, KillersEndTheRound,
       FindingsHaveACause, Excused

\* The end of the owner, with its worker or before it.
LEMMA OwnerGoneKeepsAttribution ==
  ASSUME Attribution, NEW how, NEW s, OwnerGone(how, s)
  PROVE  Attribution'
<1>1. CASE how = "killed"
  <2>1. UNCHANGED <<engine, worker, sessionVars, roundVars>>
    BY <1>1 DEF OwnerGone
  <2> QED
    BY <2>1, IdleKeepsAttribution
<1>2. CASE how # "killed"
  <2>1. /\ UNCHANGED <<engine, verdicts, killers, faults, trouble>>
        /\ worker' = "none" /\ Disconnected
    BY <1>2 DEF OwnerGone
  <2>2. /\ sessions' = [x \in Sides |-> "closed"] /\ owed' = [x \in Sides |-> <<>>]
        /\ late' = [x \in Sides |-> FALSE]
        /\ outcome' = [x \in Sides |-> NoOutcome] /\ side' = "base" /\ query' = 0
    BY <2>1 DEF Disconnected
  <2>3. Connected' /\ InStep'
    BY <2>1, <2>2 DEF Connected, Losses, InStep
  <2>4. /\ outcome' \in
             [Sides -> [kind : QueryOutcomes \union {"none"}, of : 0..Queries]]
        /\ query' \in 0..Queries
    BY <2>2, QueriesAssumption DEF NoOutcome
  <2> QED
    BY <2>1, <2>2, <2>3, <2>4, Typed, NoVerdictKeepsAttribution
<1> QED
  BY <1>1, <1>2

\* The owner begins, writes a round's findings, or leaves.
LEMMA OwnKeepsAttribution == Custody /\ Attribution /\ (Start \/ Own) => Attribution'
<1> SUFFICES ASSUME Custody, Attribution, Start \/ Own PROVE Attribution'
  OBVIOUS
<1>1. CASE Start \/ WriteFinding
  <2>1. UNCHANGED <<engine, worker, sessionVars, roundVars>>
    BY <1>1 DEF Start, WriteFinding, Construct, Answering, NotAnswering, Register
  <2> QED
    BY <2>1, IdleKeepsAttribution
<1>2. CASE Fork
  <2>1. worker = "none"
    BY <1>2 DEF Custody, OwnerStages, Fork
  <2>2. /\ UNCHANGED <<engine, sessionVars, query>> /\ worker' = "connecting"
        /\ verdicts' = [q \in 1..Queries |-> "none"]
        /\ killers' = {} /\ faults' = {} /\ trouble' = {}
    BY <1>2 DEF Fork
  <2>3. \A s \in Sides : sessions[s] = "closed"
    BY <2>1, Typed DEF Losses
  <2>4. SessionTypes'
    BY <2>2, Typed DEF SessionTypes, Verdicts
  <2>5. Losses' /\ InStep' /\ KillersEndTheRound' /\ FindingsHaveACause'
    BY <2>2, <2>3, Typed
    DEF Losses, InStep, KillersEndTheRound, FindingsHaveACause
  <2> QED
    BY <2>4, <2>5 DEF Attribution
<1>3. CASE Leave
  BY <1>3, OwnerGoneKeepsAttribution DEF Leave
<1> QED
  BY <1>1, <1>2, <1>3 DEF Own

\* A statement that ends: with an answer, rejected, or at a time limit.
LEMMA StatementKeepsAttribution ==
  ASSUME Custody, Attribution, Answer \/ Rejected \/ TimesOut \/ LateKill
  PROVE  Attribution'
<1>0. worker = "query" /\ UNCHANGED <<engine, killers>>
  BY DEF Answer, Rejected, TimesOut, LateKill, Usable, Finish
<1>1. /\ worker = "query" /\ side \in Sides /\ query \in 1..Queries
      /\ engine \in AllEngines /\ UNCHANGED <<engine, killers>>
  BY <1>0, Typed, EnginesAssumption DEF InStep, Custody, ServerTypes
<1>2. worker' # "none"
  BY <1>1 DEF Answer, Rejected, TimesOut, LateKill, Finish
<1>3. CASE Answer
  <2> DEFINE answers == Append(owed[side], query)
  <2>0. Len(answers) = 1 /\ answers \in Seq(1..Queries) /\ answers[1] = query
    <3>1. owed[side] = <<>>
      BY <1>1, Typed
    <3> QED
      BY <1>1, <3>1
  <2>1. Head(answers) = query /\ Tail(answers) = <<>>
    BY <2>0
  <2>2. Finish("rows", query) /\ owed' = owed
    BY <1>1, <1>3, <2>1, Typed DEF Answer
  <2>3. /\ late' \in [Sides -> BOOLEAN]
        /\ \A s \in Sides : late'[s] => late[s] \/ engine \in Watched
    BY <1>1, <1>3, Typed DEF Answer
  <2>4. UNCHANGED <<sessions, faults, trouble>>
    BY <1>3 DEF Answer
  <2>5. Connected'
    BY <1>1, <1>2, <2>2, <2>3, <2>4, Typed DEF Connected, Losses, Excused
  <2> QED
    BY <1>1, <2>2, <2>4, <2>5, Typed, FinishKeepsAttribution DEF QueryOutcomes
<1>4. CASE Rejected
  <2>1. /\ Finish("error", query) /\ UNCHANGED <<sessions, owed, late, trouble>>
        /\ faults' = IF side = "equivalent" THEN faults \union {query} ELSE faults
    BY <1>4 DEF Rejected
  <2>2. Connected'
    BY <1>1, <1>2, <2>1, Typed DEF Connected, Losses, Excused
  <2> QED
    BY <1>1, <2>1, <2>2, Typed, FinishKeepsAttribution DEF QueryOutcomes
<1>5. CASE TimesOut
  <2> DEFINE kind == IF engine \in TimeoutLabelled THEN "known_issue" ELSE "error"
  <2>1. /\ Finish(kind, query) /\ UNCHANGED <<late, faults>>
        /\ trouble' = trouble \union {"timed out"}
    BY <1>5 DEF TimesOut
  <2>2. /\ owed' = owed
        /\ \/ UNCHANGED sessions
           \/ engine = "duckdb" /\ sessions' = [sessions EXCEPT ![side] = "lost"]
    BY <1>5 DEF TimesOut, cli_times_out
  <2>3. Connected'
    BY <1>1, <1>2, <2>1, <2>2, Typed, ZenonT(60) DEF Connected, Losses, Excused
  <2>4. kind \in QueryOutcomes /\ (kind = "error" => Excused')
    BY <1>1, <2>1 DEF QueryOutcomes, Excused, AllEngines, TimeoutLabelled
  <2> HIDE DEF kind
  <2> QED
    BY <1>1, <2>1, <2>3, <2>4, Typed, FinishKeepsAttribution DEF Troubles
<1>6. CASE LateKill
  <2>1. /\ Finish("known_issue", query) /\ UNCHANGED <<sessions, owed, faults, trouble>>
        /\ late' = [late EXCEPT ![side] = FALSE]
    BY <1>1, <1>6, Typed DEF LateKill, Losses, Watched, TimeoutLabelled
  <2>2. Connected'
    BY <1>1, <1>2, <2>1, Typed DEF Connected, Losses, Excused
  <2> QED
    BY <1>1, <2>1, <2>2, Typed, FinishKeepsAttribution DEF QueryOutcomes
<1> QED
  BY <1>3, <1>4, <1>5, <1>6

\* A statement that kills the engine, or that finds it dead.
LEMMA DeathKeepsAttribution ==
  ASSUME Custody, Attribution, KillsEngine \/ FindsLost
  PROVE  Attribution'
<1>1. /\ worker = "query" /\ side \in Sides /\ query \in 1..Queries
      /\ engine \in AllEngines /\ UNCHANGED faults
  BY Typed, EnginesAssumption
  DEF KillsEngine, FindsLost, Usable, InStep, Custody, ServerTypes
<1>2. CASE KillsEngine /\ engine \in AbortsDuring
  <2>1. /\ Blamed /\ WorkerGone(Crashed) /\ killers' = killers \union {query}
        /\ trouble' = trouble \union {"killed"}
    BY <1>2 DEF KillsEngine
  <2> QED
    BY <1>1, <2>1, Typed, WorkerGoneKeepsAttribution DEF Troubles
<1>3. CASE KillsEngine /\ engine \notin AbortsDuring
  <2>1. engine = "postgres"
    BY <1>1, <1>3 DEF AbortsDuring, AbortsAlways, AllEngines
  <2>2. /\ Finish("error", query) /\ sessions' = Lose /\ UNCHANGED <<owed, late>>
        /\ killers' = killers \union {query} /\ trouble' = trouble \union {"killed"}
    BY <1>3 DEF KillsEngine
  <2>3. engine' = engine /\ worker' # "none" /\ Excused'
    BY <1>1, <2>1, <2>2 DEF Finish, Excused
  <2>4. sessions' \in [Sides -> {"closed", "open", "doomed", "lost"}]
    BY <2>2, Typed DEF Lose
  <2>5. Connected'
    BY <2>1, <2>2, <2>3, <2>4, Typed DEF Connected, Losses
  <2> QED
    BY <1>1, <2>1, <2>2, <2>3, <2>5, Typed, FinishKeepsAttribution
    DEF QueryOutcomes, Troubles
<1>4. CASE FindsLost
  <2>1. UNCHANGED <<killers, trouble>>
    BY <1>4 DEF FindsLost
  <2>2. CASE engine \in AbortsAlways
    <3>1. Blamed /\ WorkerGone(servers)
      BY <1>4, <2>2 DEF FindsLost
    <3> QED
      BY <1>1, <2>1, <3>1, Typed, WorkerGoneKeepsAttribution
  <2>3. CASE engine \notin AbortsAlways
    <3>1. Finish("error", query) /\ UNCHANGED <<sessions, owed, late>>
      BY <1>4, <2>3 DEF FindsLost
    <3>2. engine' = engine /\ worker' # "none" /\ Excused
      BY <1>1, <1>4, <2>3, <3>1, Typed DEF Finish, FindsLost, Losses
    <3>3. Excused'
      BY <2>1, <3>2, ExcusesStay
    <3>4. Connected'
      BY <1>1, <2>1, <3>1, <3>2, <3>3, Typed DEF Connected, Losses
    <3> QED
      BY <1>1, <2>1, <3>1, <3>3, <3>4, Typed, FinishKeepsAttribution
      DEF QueryOutcomes
  <2> QED
    BY <2>2, <2>3
<1> QED
  BY <1>2, <1>3, <1>4

\* What the worker does, connecting, querying and ending.
LEMMA WorkKeepsAttribution == Custody /\ Attribution /\ Work => Attribution'
<1> SUFFICES ASSUME Custody, Attribution, Work PROVE Attribution'
  OBVIOUS
<1>1. CASE EnsureRunning \/ WaitReady
  <2>1. /\ UNCHANGED <<engine, sessionVars, roundVars>>
        /\ worker # "none" /\ worker' \notin {"none", "query"}
    BY <1>1 DEF EnsureRunning, WaitReady
  <2>2. Connected' /\ InStep'
    BY <2>1, Typed DEF Connected, Losses, InStep, Excused
  <2> QED
    BY <2>1, <2>2, Typed, NoVerdictKeepsAttribution
<1>2. CASE Open
  <2>1. /\ UNCHANGED <<engine, owed, late, outcome, roundVars>>
        /\ sessions' = [sessions EXCEPT ![side] = "open"] /\ side' \in Sides
        /\ worker # "none" /\ worker' \notin {"none", "query"}
    BY <1>2 DEF Open
  <2>2. Connected' /\ InStep'
    BY <2>1, Typed DEF Connected, Losses, InStep, Excused
  <2> QED
    BY <2>1, <2>2, Typed, NoVerdictKeepsAttribution
<1>3. CASE BeginQuery
  <2>1. /\ UNCHANGED <<engine, sessions, owed, late, verdicts, killers, faults,
                       trouble>>
        /\ worker # "none" /\ worker' = "query" /\ side' = "base"
        /\ query' = query + 1 /\ query < Queries
        /\ outcome' = [s \in Sides |-> NoOutcome]
    BY <1>3 DEF BeginQuery
  <2>2. query' \in 1..Queries /\ query' # 0
    BY <2>1, Typed, QueriesAssumption
  <2>3. Connected' /\ InStep'
    BY <2>1, <2>2, Typed DEF Connected, Losses, InStep, Excused
  <2>4. outcome' \in
          [Sides -> [kind : QueryOutcomes \union {"none"}, of : 0..Queries]]
    BY <2>1, QueriesAssumption DEF NoOutcome
  <2> QED
    BY <2>1, <2>2, <2>3, <2>4, Typed, NoVerdictKeepsAttribution
<1>4. CASE SetupFails \/ EndRound \/ PipeBreaks \/ Hangs \/ Abandoned
  <2>1. /\ WorkerGone(servers) /\ (verdicts' = verdicts \/ Blamed)
        /\ UNCHANGED <<killers, faults>>
        /\ trouble' = trouble \/ trouble' = trouble \union {"died"}
    BY <1>4 DEF SetupFails, EndRound, PipeBreaks, Hangs, Abandoned
  <2> QED
    BY <2>1, Typed, WorkerGoneKeepsAttribution DEF Troubles
<1> QED
  BY <1>1, <1>2, <1>3, <1>4, StatementKeepsAttribution, DeathKeepsAttribution
  DEF Work

\* What befalls the engine, the worker and the owner.
LEMMA FateKeepsAttribution == Custody /\ Attribution /\ Fate => Attribution'
<1> SUFFICES ASSUME Custody, Attribution, Fate PROVE Attribution'
  OBVIOUS
<1>0. engine \in AllEngines
  BY EnginesAssumption DEF Custody, ServerTypes
<1>1. CASE ServerDies
  <2>1. /\ UNCHANGED <<engine, worker, owed, late, outcome, side, query, verdicts,
                       killers, faults>>
        /\ sessions' = [s \in Sides |->
                          IF sessions[s] = "closed" THEN "closed" ELSE "lost"]
        /\ trouble' = IF worker = "none" THEN trouble
                                         ELSE trouble \union {"died"}
    BY <1>1 DEF ServerDies
  <2>2. Connected' /\ InStep'
    BY <1>0, <2>1, Typed
    DEF Connected, Losses, InStep, Excused, AllEngines, AbortsAlways
  <2> QED
    BY <2>1, <2>2, Typed, NoVerdictKeepsAttribution DEF Troubles
<1>2. CASE CliDies
  <2>1. /\ UNCHANGED <<engine, worker, owed, late, outcome, side, query, verdicts,
                       killers, faults>>
        /\ engine = "duckdb" /\ trouble' = trouble \union {"died"}
    BY <1>2 DEF CliDies
  <2>2. PICK s \in Sides : /\ sessions[s] = "open"
                           /\ sessions' = [sessions EXCEPT ![s] = "lost"]
    BY <1>2 DEF CliDies
  <2>3. Connected' /\ InStep'
    BY <2>1, <2>2, Typed DEF Connected, Losses, InStep, Excused
  <2> QED
    BY <2>1, <2>3, Typed, NoVerdictKeepsAttribution DEF Troubles
<1>3. CASE BackendEnded
  <2>1. UNCHANGED <<engine, worker, owed, late, outcome, side, query, verdicts,
                    killers, faults, trouble>>
    BY <1>3 DEF BackendEnded
  <2>2. PICK s \in Sides : /\ sessions[s] = "doomed"
                           /\ sessions' = [sessions EXCEPT ![s] = "lost"]
    BY <1>3 DEF BackendEnded
  <2>3. Connected' /\ InStep'
    BY <2>1, <2>2, Typed DEF Connected, Losses, InStep, Excused
  <2> QED
    BY <2>1, <2>3, Typed, NoVerdictKeepsAttribution
<1>4. CASE KillMisses
  <2>1. UNCHANGED <<engine, worker, sessions, owed, outcome, side, query,
                    verdicts, killers, faults, trouble>>
    BY <1>4 DEF KillMisses
  <2>2. PICK s \in Sides : late' = [late EXCEPT ![s] = FALSE]
    BY <1>4 DEF KillMisses
  <2>3. Connected' /\ InStep'
    BY <2>1, <2>2, Typed DEF Connected, Losses, InStep, Excused
  <2> QED
    BY <2>1, <2>3, Typed, NoVerdictKeepsAttribution
<1>5. CASE Signalled
  <2>1. PICK s : WorkerGone(s)
    BY <1>5 DEF Signalled
  <2>2. Blamed /\ UNCHANGED <<killers, faults, trouble>>
    BY <1>5 DEF Signalled
  <2> QED
    BY <2>1, <2>2, Typed, WorkerGoneKeepsAttribution
<1>6. CASE Interrupt \/ Terminate
  <2>1. PICK how, s : OwnerGone(how, s)
    BY <1>6 DEF Interrupt, Terminate
  <2> QED
    BY <2>1, OwnerGoneKeepsAttribution
<1> QED
  BY <1>1, <1>2, <1>3, <1>4, <1>5, <1>6 DEF Fate

\* Attribution is inductive where custody holds.
LEMMA AttributionStep == Custody /\ Attribution /\ [Next]_vars => Attribution'
<1>1. Attribution /\ (Done \/ UNCHANGED vars) => Attribution'
  <2>1. Done \/ UNCHANGED vars => UNCHANGED <<engine, worker, sessionVars, roundVars>>
    BY DEF Done, vars
  <2> QED
    BY <2>1, IdleKeepsAttribution
<1> QED
  BY <1>1, OwnKeepsAttribution, WorkKeepsAttribution, FateKeepsAttribution
  DEF Next

\* Of whatever engine, in every state: why each query has its verdict.
THEOREM AttributionHolds == Spec => []Attribution
BY InitAttribution, AttributionStep, CustodyHolds, PTL DEF Spec

\* A query that kills the engine ends its round as the crash that is reported,
\* unless the engine is PostgreSQL.
THEOREM KillersAreReported == Spec => []KillersAreBlamed
<1>1. Attribution => KillersAreBlamed
  BY DEF Attribution, SessionTypes, KillersEndTheRound, KillersAreBlamed, Blame
<1> QED
  BY <1>1, AttributionHolds, PTL

\* No finding comes of a time limit that is known, of a late KILL QUERY or of the
\* answer to another query.
THEOREM FindingsAreCaused == Spec => []FindingsHaveACause
<1>1. Attribution => FindingsHaveACause
  BY DEF Attribution
<1> QED
  BY <1>1, AttributionHolds, PTL

\* The rest of the types: where the two processes are.
Stages ==
  /\ owner \in {"idle", "waiting", "unregistered", "between", "round",
                "reporting", "gone"}
  /\ worker \in {"none", "connecting", "waiting", "opening", "idle", "query"}
  /\ registered \in BOOLEAN /\ stopped \in BOOLEAN /\ signalled \in BOOLEAN

\* No step leaves the stages.
LEMMA StagesStep == Stages /\ [Next]_vars => Stages'
<1> SUFFICES ASSUME Stages, [Next]_vars PROVE Stages'
  OBVIOUS
<1> USE DEF Stages
<1>1. CASE Start
  BY <1>1 DEF Start, Construct, Answering, NotAnswering, Register
<1>2. CASE Fork \/ WriteFinding
  BY <1>2 DEF Fork, WriteFinding
<1>3. CASE Leave \/ Interrupt \/ Terminate
  <2>1. PICK how, s : OwnerGone(how, s)
    BY <1>3 DEF Leave, Interrupt, Terminate
  <2> QED
    BY <2>1 DEF OwnerGone
<1>4. CASE EnsureRunning \/ WaitReady \/ Open \/ BeginQuery
  BY <1>4 DEF EnsureRunning, WaitReady, Open, BeginQuery
<1>5. CASE SetupFails \/ EndRound \/ PipeBreaks \/ Hangs \/ Abandoned
  <2>1. WorkerGone(servers) /\ UNCHANGED signalled
    BY <1>5 DEF SetupFails, EndRound, PipeBreaks, Hangs, Abandoned
  <2> QED
    BY <2>1 DEF WorkerGone
<1>6. CASE Answer \/ Rejected \/ TimesOut \/ LateKill
  <2>1. PICK kind, of : Finish(kind, of)
    BY <1>6 DEF Answer, Rejected, TimesOut, LateKill
  <2> QED
    BY <2>1 DEF Finish
<1>7. CASE KillsEngine \/ FindsLost
  <2>1. /\ UNCHANGED signalled
        /\ Finish("error", query) \/ \E s : WorkerGone(s)
    BY <1>7 DEF KillsEngine, FindsLost
  <2>2. CASE Finish("error", query)
    BY <2>1, <2>2 DEF Finish
  <2>3. CASE \E s : WorkerGone(s)
    BY <2>1, <2>3 DEF WorkerGone
  <2> QED
    BY <2>1, <2>2, <2>3
<1>8. CASE Signalled
  <2>1. PICK s : WorkerGone(s)
    BY <1>8 DEF Signalled
  <2>2. signalled' = TRUE
    BY <1>8 DEF Signalled
  <2> QED
    BY <2>1, <2>2 DEF WorkerGone
<1>9. CASE ServerDies \/ CliDies \/ BackendEnded \/ KillMisses
  BY <1>9 DEF ServerDies, CliDies, BackendEnded, KillMisses
<1>10. CASE Done \/ UNCHANGED vars
  BY <1>10 DEF Done, vars
<1> QED
  BY <1>1, <1>2, <1>3, <1>4, <1>5, <1>6, <1>7, <1>8, <1>9, <1>10
  DEF Next, Own, Work, Fate

\* Every variable keeps to its type.
THEOREM TypesHold == Spec => []TypeOK
<1>1. Init => Stages
  BY DEF Init, ServersInit, Stages
<1>2. Custody /\ Attribution /\ Stages => TypeOK
  <2> SUFFICES ASSUME Custody, Attribution, Stages PROVE TypeOK
    OBVIOUS
  <2>1. ended \in {"no", "raised", "exit", "terminated", "killed"}
    BY DEF Custody, OwnerStages
  <2>2. owed \in [Sides -> Seq(1..Queries)]
    <3>1. \A s \in Sides : owed[s] = <<>>
      BY Typed
    <3>2. <<>> \in Seq(1..Queries)
      OBVIOUS
    <3> QED
      BY <3>1, <3>2, Typed
  <2> QED
    BY <2>1, <2>2 DEF TypeOK, Stages, Custody, ServerTypes, Attribution, SessionTypes
<1> QED
  BY <1>1, <1>2, StagesStep, CustodyHolds, AttributionHolds, PTL DEF Spec
=============================================================================
