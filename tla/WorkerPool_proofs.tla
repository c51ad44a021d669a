--------------------------- MODULE WorkerPool_proofs ---------------------------
(***************************************************************************)
(* What TLAPS proves of the worker pool, for any sets of users, pids and    *)
(* request tasks.  The inductive invariant IInv says who holds the lock and *)
(* what each Popen handle still knows about the process table.              *)
(***************************************************************************)
EXTENDS WorkerPool, TLAPS

Holding == {"spawn", "kterm", "kkill"}

\* A handle whose status was not collected names a process of its user.
Ours(p, u) == proc[p] # NoProc /\ proc[p].user = u

TaskInv ==
  /\ \A r \in Reqs : pc[r] \in Holding <=> lock = r
  /\ lock = Reaper <=> rpc = "reap"
  /\ lock = Main <=> mpc = "term"
  /\ \A r \in Reqs : pc[r] # "idle" => user[r] \in Users
  /\ cur # None <=> lock \in Reqs
  /\ mpc \in {"term", "done"} => rpc = "off" /\ \A r \in Reqs : pc[r] = "idle"
  /\ \A r \in Reqs : pc[r] = "spawn" => ~curWaited
  /\ rpc = "reap" <=> victim # None

RegInv ==
  /\ \A u \in waited \cup idle \cup late \cup todo : workers[u] # None
  /\ victim # None => workers[victim] # None /\ victim \notin todo
  /\ rpc # "reap" => todo = {}
  /\ rpc # "lock" => late = {}
  /\ late \subseteq idle
  /\ mpc = "done" => \A u \in Users : workers[u] = None

HandleInv ==
  /\ \A u \in Users : workers[u] # None /\ u \notin waited => Ours(workers[u], u)
  /\ lock \in Reqs /\ ~curWaited => Ours(cur, user[lock])
  /\ lock \in Reqs => workers[user[lock]] = None \/ user[lock] \in waited
  /\ \A r \in Reqs : pc[r] = "spawn" => proc[cur].sig # "kill"

\* No process that runs unkilled and listens has lost its socket file.
SocketInv ==
  \A p \in Pids :
    /\ proc[p].st = "serving"
    /\ proc[p].sig # "kill" \/ \E u \in Users \ waited : workers[u] = p
    => sock[proc[p].user] = p

IInv == TypeOK /\ TaskInv /\ RegInv /\ HandleInv /\ NoOrphan /\ SocketInv

-------------------------------------------------------------------------------
(* The definitions every step of the proof expands. *)

USE Distinct DEF procVars, regVars, lockVars, reqVars, reapVars,
                 Proc, NoProc, Running

Table == [Pids -> Proc \cup {NoProc}]

(* os.kill changes nothing of a process but the strongest signal it was sent. *)
LEMMA SignalFacts ==
  ASSUME NEW table \in Table, NEW p \in Pids, NEW s \in {"term", "kill"}
  PROVE  /\ Signal(table, p, s) \in Table
         /\ \A q \in Pids :
              /\ Signal(table, p, s)[q].st = table[q].st
              /\ Signal(table, p, s)[q].user = table[q].user
              /\ Signal(table, p, s)[q] = NoProc <=> table[q] = NoProc
              /\ q # p => Signal(table, p, s)[q] = table[q]
              /\ table[q].sig = "kill" => Signal(table, p, s)[q].sig = "kill"
              /\ s = "term" /\ Signal(table, p, s)[q].sig = "kill" => table[q].sig = "kill"
         /\ s = "kill" /\ table[p].st \in Running => Signal(table, p, s)[p].sig = "kill"
BY DEF Table, Signal, Hit

-------------------------------------------------------------------------------
(* Every step but the reaper's move to its next victim. *)

(* A booting worker only removes a socket file no listener owns. *)
LEMMA WorkerUnlinkStep ==
  ASSUME IInv, NEW p \in Pids, WorkerUnlink(p)
  PROVE  IInv'
<1>1. TypeOK'
  BY DEF IInv, TypeOK, TaskInv, RegInv, HandleInv, Ours, Holding, WorkerUnlink,
         Live
<1>2. TaskInv'
  BY DEF IInv, TaskInv, TypeOK, Holding, RegInv, WorkerUnlink, Live
<1>3. RegInv'
  BY DEF IInv, RegInv, TypeOK, TaskInv, Holding, WorkerUnlink, Live
<1>4. HandleInv'
  BY DEF IInv, HandleInv, TypeOK, TaskInv, Holding, RegInv, Ours, NoOrphan,
         WorkerUnlink, Live
<1>5. NoOrphan'
  BY DEF IInv, NoOrphan, TypeOK, TaskInv, Holding, RegInv, HandleInv, Ours,
         Live, WorkerUnlink
<1>6. SocketInv'
  BY DEF IInv, SocketInv, TypeOK, TaskInv, Holding, RegInv, HandleInv, Ours,
         NoOrphan, Live, WorkerUnlink
<1>7. QED
  BY <1>1, <1>2, <1>3, <1>4, <1>5, <1>6 DEF IInv

(* A worker that binds becomes the owner of its socket file. *)
LEMMA WorkerListenStep ==
  ASSUME IInv, NEW p \in Pids, WorkerListen(p)
  PROVE  IInv'
<1>1. TypeOK'
  BY DEF IInv, TypeOK, TaskInv, RegInv, HandleInv, Ours, Holding, WorkerListen,
         Live
<1>2. TaskInv'
  BY DEF IInv, TaskInv, TypeOK, Holding, RegInv, WorkerListen, Live
<1>3. RegInv'
  BY DEF IInv, RegInv, TypeOK, TaskInv, Holding, WorkerListen, Live
<1>4. HandleInv'
  BY DEF IInv, HandleInv, TypeOK, TaskInv, Holding, RegInv, Ours, NoOrphan,
         WorkerListen, Live
<1>5. NoOrphan'
  BY DEF IInv, NoOrphan, TypeOK, TaskInv, Holding, RegInv, HandleInv, Ours,
         Live, WorkerListen
<1>6. SocketInv'
  BY DEF IInv, SocketInv, TypeOK, TaskInv, Holding, RegInv, HandleInv, Ours,
         NoOrphan, Live, WorkerListen
<1>7. QED
  BY <1>1, <1>2, <1>3, <1>4, <1>5, <1>6 DEF IInv

(* An exit makes a process a zombie its handle can still find. *)
LEMMA WorkerExitStep ==
  ASSUME IInv, NEW p \in Pids, WorkerExit(p)
  PROVE  IInv'
<1>1. TypeOK'
  BY DEF IInv, TypeOK, TaskInv, RegInv, HandleInv, Ours, Holding, WorkerExit,
         Live
<1>2. TaskInv'
  BY DEF IInv, TaskInv, TypeOK, Holding, RegInv, WorkerExit, Live
<1>3. RegInv'
  BY DEF IInv, RegInv, TypeOK, TaskInv, Holding, WorkerExit, Live
<1>4. HandleInv'
  BY DEF IInv, HandleInv, TypeOK, TaskInv, Holding, RegInv, Ours, NoOrphan,
         WorkerExit, Live
<1>5. NoOrphan'
  BY DEF IInv, NoOrphan, TypeOK, TaskInv, Holding, RegInv, HandleInv, Ours,
         Live, WorkerExit
<1>6. SocketInv'
  BY DEF IInv, SocketInv, TypeOK, TaskInv, Holding, RegInv, HandleInv, Ours,
         NoOrphan, Live, WorkerExit
<1>7. QED
  BY <1>1, <1>2, <1>3, <1>4, <1>5, <1>6 DEF IInv

(* Only a pid no handle is entitled to is collected by an abandoned thread. *)
LEMMA CollectAbandonedStep ==
  ASSUME IInv, NEW p \in Pids, CollectAbandoned(p)
  PROVE  IInv'
<1>1. TypeOK'
  BY DEF IInv, TypeOK, TaskInv, RegInv, HandleInv, Ours, Holding,
         CollectAbandoned, Collected
<1>2. TaskInv'
  BY DEF IInv, TaskInv, TypeOK, Holding, RegInv, CollectAbandoned, Collected
<1>3. RegInv'
  BY DEF IInv, RegInv, TypeOK, TaskInv, Holding, CollectAbandoned, Collected
<1>4. HandleInv'
  BY DEF IInv, HandleInv, TypeOK, TaskInv, Holding, RegInv, Ours, NoOrphan,
         CollectAbandoned, Collected
<1>5. NoOrphan'
  BY DEF IInv, NoOrphan, TypeOK, TaskInv, Holding, RegInv, HandleInv, Ours,
         Live, CollectAbandoned, Collected
<1>6. SocketInv'
  BY DEF IInv, SocketInv, TypeOK, TaskInv, Holding, RegInv, HandleInv, Ours,
         NoOrphan, Live, CollectAbandoned, Collected
<1>7. QED
  BY <1>1, <1>2, <1>3, <1>4, <1>5, <1>6 DEF IInv

(* Time makes registered workers idle. *)
LEMMA BecomeIdleStep ==
  ASSUME IInv, NEW u \in Users, BecomeIdle(u)
  PROVE  IInv'
<1>1. TypeOK'
  BY DEF IInv, TypeOK, TaskInv, RegInv, HandleInv, Ours, Holding, BecomeIdle
<1>2. TaskInv'
  BY DEF IInv, TaskInv, TypeOK, Holding, RegInv, BecomeIdle
<1>3. RegInv'
  BY DEF IInv, RegInv, TypeOK, TaskInv, Holding, BecomeIdle
<1>4. HandleInv'
  BY DEF IInv, HandleInv, TypeOK, TaskInv, Holding, RegInv, Ours, NoOrphan,
         BecomeIdle
<1>5. NoOrphan'
  BY DEF IInv, NoOrphan, TypeOK, TaskInv, Holding, RegInv, HandleInv, Ours,
         Live, BecomeIdle
<1>6. SocketInv'
  BY DEF IInv, SocketInv, TypeOK, TaskInv, Holding, RegInv, HandleInv, Ours,
         NoOrphan, Live, BecomeIdle
<1>7. QED
  BY <1>1, <1>2, <1>3, <1>4, <1>5, <1>6 DEF IInv

(* A request arrives for a user. *)
LEMMA ArriveStep ==
  ASSUME IInv, NEW r \in Reqs, NEW u \in Users, Arrive(r, u)
  PROVE  IInv'
<1>1. TypeOK'
  BY DEF IInv, TypeOK, TaskInv, RegInv, HandleInv, Ours, Holding, Arrive
<1>2. TaskInv'
  BY DEF IInv, TaskInv, TypeOK, Holding, RegInv, Arrive
<1>3. RegInv'
  BY DEF IInv, RegInv, TypeOK, TaskInv, Holding, Arrive
<1>4. HandleInv'
  BY DEF IInv, HandleInv, TypeOK, TaskInv, Holding, RegInv, Ours, NoOrphan,
         Arrive
<1>5. NoOrphan'
  BY DEF IInv, NoOrphan, TypeOK, TaskInv, Holding, RegInv, HandleInv, Ours,
         Live, Arrive
<1>6. SocketInv'
  BY DEF IInv, SocketInv, TypeOK, TaskInv, Holding, RegInv, HandleInv, Ours,
         NoOrphan, Live, Arrive
<1>7. QED
  BY <1>1, <1>2, <1>3, <1>4, <1>5, <1>6 DEF IInv

(* get_or_spawn returns the live worker. *)
LEMMA GetLiveStep ==
  ASSUME IInv, NEW r \in Reqs, GetLive(r)
  PROVE  IInv'
<1>1. TypeOK'
  BY DEF IInv, TypeOK, TaskInv, RegInv, HandleInv, Ours, Holding, GetLive,
         Touch, At, Alive
<1>2. TaskInv'
  BY DEF IInv, TaskInv, TypeOK, Holding, RegInv, GetLive, Touch, At, Alive
<1>3. RegInv'
  BY DEF IInv, RegInv, TypeOK, TaskInv, Holding, GetLive, Touch, At, Alive
<1>4. HandleInv'
  BY DEF IInv, HandleInv, TypeOK, TaskInv, Holding, RegInv, Ours, NoOrphan,
         GetLive, Touch, At, Alive
<1>5. NoOrphan'
  BY DEF IInv, NoOrphan, TypeOK, TaskInv, Holding, RegInv, HandleInv, Ours,
         Live, GetLive, Touch, At, Alive
<1>6. SocketInv'
  BY DEF IInv, SocketInv, TypeOK, TaskInv, Holding, RegInv, HandleInv, Ours,
         NoOrphan, Live, GetLive, Touch, At, Alive
<1>7. QED
  BY <1>1, <1>2, <1>3, <1>4, <1>5, <1>6 DEF IInv

(* get_or_spawn starts a process on a pid that is free. *)
LEMMA GetSpawnStep ==
  ASSUME IInv, NEW r \in Reqs, GetSpawn(r)
  PROVE  IInv'
<1>1. TypeOK'
  <2>1. user[r] \in Users /\ workers[user[r]] \in Pids \cup {None}
    BY DEF IInv, TypeOK, TaskInv, GetSpawn
  <2>2. AfterPoll(user[r]) \in Table
    BY <2>1 DEF IInv, TypeOK, Table, AfterPoll, Collected
  <2>3. proc' \in Table
    BY <2>1, <2>2 DEF GetSpawn, Table
  <2>4. sock' \in [Users -> Pids \cup {Stale, None}]
    BY <2>1 DEF IInv, TypeOK, GetSpawn
  <2>5. workers' \in [Users -> Pids \cup {None}]
    BY <2>1 DEF IInv, TypeOK, GetSpawn, Register
  <2>6. pc' \in [Reqs -> {"idle", "get", "spawn", "body", "stream", "kill", "kterm", "kkill"}]
        /\ user' = user
    BY DEF IInv, TypeOK, GetSpawn, At
  <2>7. waited' \subseteq Users /\ idle' \subseteq Users /\ late' \subseteq Users
    BY <2>1 DEF IInv, TypeOK, GetSpawn, Register, Touch
  <2>8. lock' \in Reqs \cup {Reaper, Main, None} /\ cur' \in Pids \cup {None} /\ curWaited' \in BOOLEAN
    BY DEF IInv, TypeOK, GetSpawn
  <2>9. QED
    BY <2>3, <2>4, <2>5, <2>6, <2>7, <2>8 DEF IInv, TypeOK, GetSpawn, Table
<1>2. TaskInv'
  BY DEF IInv, TaskInv, TypeOK, Holding, RegInv, GetSpawn, Touch, At, Alive,
         AfterPoll, Collected, Register
<1>3. RegInv'
  BY DEF IInv, RegInv, TypeOK, TaskInv, Holding, GetSpawn, Touch, At, Alive,
         AfterPoll, Collected, Register
<1>4. HandleInv'
  BY DEF IInv, HandleInv, TypeOK, TaskInv, Holding, RegInv, Ours, NoOrphan,
         GetSpawn, Touch, At, Alive, AfterPoll, Collected, Register
<1>5. NoOrphan'
  BY DEF IInv, NoOrphan, TypeOK, TaskInv, Holding, RegInv, HandleInv, Ours,
         Live, GetSpawn, Touch, At, Alive, AfterPoll, Collected, Register
<1>6. SocketInv'
  BY DEF IInv, SocketInv, TypeOK, TaskInv, Holding, RegInv, HandleInv, Ours,
         NoOrphan, Live, GetSpawn, Touch, At, Alive, AfterPoll, Collected,
         Register
<1>7. QED
  BY <1>1, <1>2, <1>3, <1>4, <1>5, <1>6 DEF IInv

(* Popen raises: the dead entry stays, its pid is known to be collected. *)
LEMMA GetSpawnFailsStep ==
  ASSUME IInv, NEW r \in Reqs, GetSpawnFails(r)
  PROVE  IInv'
<1>1. TypeOK'
  BY DEF IInv, TypeOK, TaskInv, RegInv, HandleInv, Ours, Holding, GetSpawnFails,
         Alive, AfterPoll, Collected, Finish
<1>2. TaskInv'
  BY DEF IInv, TaskInv, TypeOK, Holding, RegInv, GetSpawnFails, Alive,
         AfterPoll, Collected, Finish
<1>3. RegInv'
  BY DEF IInv, RegInv, TypeOK, TaskInv, Holding, GetSpawnFails, Alive,
         AfterPoll, Collected, Finish
<1>4. HandleInv'
  BY DEF IInv, HandleInv, TypeOK, TaskInv, Holding, RegInv, Ours, NoOrphan,
         GetSpawnFails, Alive, AfterPoll, Collected, Finish
<1>5. NoOrphan'
  BY DEF IInv, NoOrphan, TypeOK, TaskInv, Holding, RegInv, HandleInv, Ours,
         Live, GetSpawnFails, Alive, AfterPoll, Collected, Finish
<1>6. SocketInv'
  BY DEF IInv, SocketInv, TypeOK, TaskInv, Holding, RegInv, HandleInv, Ours,
         NoOrphan, Live, GetSpawnFails, Alive, AfterPoll, Collected, Finish
<1>7. QED
  BY <1>1, <1>2, <1>3, <1>4, <1>5, <1>6 DEF IInv

(* The spawned worker passes from the lock holder to the registry. *)
LEMMA SpawnReadyStep ==
  ASSUME IInv, NEW r \in Reqs, SpawnReady(r)
  PROVE  IInv'
<1>1. TypeOK'
  BY DEF IInv, TypeOK, TaskInv, RegInv, HandleInv, Ours, Holding, SpawnReady,
         Register, Touch, Release, At
<1>2. TaskInv'
  BY DEF IInv, TaskInv, TypeOK, Holding, RegInv, SpawnReady, Register, Touch,
         Release, At
<1>3. RegInv'
  BY DEF IInv, RegInv, TypeOK, TaskInv, Holding, SpawnReady, Register, Touch,
         Release, At
<1>4. HandleInv'
  BY DEF IInv, HandleInv, TypeOK, TaskInv, Holding, RegInv, Ours, NoOrphan,
         SpawnReady, Register, Touch, Release, At
<1>5. NoOrphan'
  BY DEF IInv, NoOrphan, TypeOK, TaskInv, Holding, RegInv, HandleInv, Ours,
         Live, SpawnReady, Register, Touch, Release, At
<1>6. SocketInv'
  <2>1. user[r] \in Users /\ cur \in Pids /\ lock = r /\ ~curWaited
        /\ proc[cur].sig # "kill"
    BY DEF IInv, TypeOK, TaskInv, HandleInv, Holding, SpawnReady
  <2>2. Ours(cur, user[r])
    BY <2>1 DEF IInv, HandleInv
  <2>3. proc[cur].st = "serving" => sock[user[r]] = cur
    BY <2>1, <2>2 DEF IInv, SocketInv, Ours
  <2>4. ASSUME NEW p \in Pids, proc[p].st = "serving", p # cur,
               NEW v \in Users \ waited', workers'[v] = p
        PROVE  v \in Users \ waited /\ workers[v] = p
    BY <2>1, <2>4 DEF IInv, TypeOK, SpawnReady, Register
  <2>5. QED
    BY <2>1, <2>2, <2>3, <2>4 DEF IInv, SocketInv, SpawnReady
<1>7. QED
  BY <1>1, <1>2, <1>3, <1>4, <1>5, <1>6 DEF IInv

(* The spawned worker died: its pid is collected with the lock released. *)
LEMMA SpawnDiedStep ==
  ASSUME IInv, NEW r \in Reqs, SpawnDied(r)
  PROVE  IInv'
<1>1. TypeOK'
  BY DEF IInv, TypeOK, TaskInv, RegInv, HandleInv, Ours, Holding, SpawnDied,
         Collected, Release, Finish
<1>2. TaskInv'
  BY DEF IInv, TaskInv, TypeOK, Holding, RegInv, SpawnDied, Collected, Release,
         Finish
<1>3. RegInv'
  BY DEF IInv, RegInv, TypeOK, TaskInv, Holding, SpawnDied, Collected, Release,
         Finish
<1>4. HandleInv'
  BY DEF IInv, HandleInv, TypeOK, TaskInv, Holding, RegInv, Ours, NoOrphan,
         SpawnDied, Collected, Release, Finish
<1>5. NoOrphan'
  BY DEF IInv, NoOrphan, TypeOK, TaskInv, Holding, RegInv, HandleInv, Ours,
         Live, SpawnDied, Collected, Release, Finish
<1>6. SocketInv'
  BY DEF IInv, SocketInv, TypeOK, TaskInv, Holding, RegInv, HandleInv, Ours,
         NoOrphan, Live, SpawnDied, Collected, Release, Finish
<1>7. QED
  BY <1>1, <1>2, <1>3, <1>4, <1>5, <1>6 DEF IInv

(* The spawned worker is killed and collected in one step. *)
LEMMA SpawnTimeoutStep ==
  ASSUME IInv, NEW r \in Reqs, SpawnTimeout(r)
  PROVE  IInv'
<1>1. TypeOK'
  <2>1. user[r] \in Users /\ cur \in Pids
    BY DEF IInv, TypeOK, TaskInv, Holding, SpawnTimeout
  <2>2. sock' \in [Users -> Pids \cup {Stale, None}]
    BY <2>1 DEF IInv, TypeOK, SpawnTimeout
  <2>3. proc' \in [Pids -> Proc \cup {NoProc}]
    BY <2>1 DEF IInv, TypeOK, SpawnTimeout, Collected
  <2>4. QED
    BY <2>2, <2>3 DEF IInv, TypeOK, SpawnTimeout, Release, Finish
<1>2. TaskInv'
  BY DEF IInv, TaskInv, TypeOK, Holding, RegInv, SpawnTimeout, Collected,
         Release, Finish
<1>3. RegInv'
  BY DEF IInv, RegInv, TypeOK, TaskInv, Holding, SpawnTimeout, Collected,
         Release, Finish
<1>4. HandleInv'
  BY DEF IInv, HandleInv, TypeOK, TaskInv, Holding, RegInv, Ours, NoOrphan,
         SpawnTimeout, Collected, Release, Finish
<1>5. NoOrphan'
  BY DEF IInv, NoOrphan, TypeOK, TaskInv, Holding, RegInv, HandleInv, Ours,
         Live, SpawnTimeout, Collected, Release, Finish
<1>6. SocketInv'
  BY DEF IInv, SocketInv, TypeOK, TaskInv, Holding, RegInv, HandleInv, Ours,
         NoOrphan, Live, SpawnTimeout, Collected, Release, Finish
<1>7. QED
  BY <1>1, <1>2, <1>3, <1>4, <1>5, <1>6 DEF IInv

(* The proxy connects to whoever listens. *)
LEMMA ConnectStep ==
  ASSUME IInv, NEW r \in Reqs, Connect(r)
  PROVE  IInv'
<1>1. TypeOK'
  BY DEF IInv, TypeOK, TaskInv, RegInv, HandleInv, Ours, Holding, Connect, At,
         Finish
<1>2. TaskInv'
  BY DEF IInv, TaskInv, TypeOK, Holding, RegInv, Connect, At, Finish
<1>3. RegInv'
  BY DEF IInv, RegInv, TypeOK, TaskInv, Holding, Connect, At, Finish
<1>4. HandleInv'
  BY DEF IInv, HandleInv, TypeOK, TaskInv, Holding, RegInv, Ours, NoOrphan,
         Connect, At, Finish
<1>5. NoOrphan'
  BY DEF IInv, NoOrphan, TypeOK, TaskInv, Holding, RegInv, HandleInv, Ours,
         Live, Connect, At, Finish
<1>6. SocketInv'
  BY DEF IInv, SocketInv, TypeOK, TaskInv, Holding, RegInv, HandleInv, Ours,
         NoOrphan, Live, Connect, At, Finish
<1>7. QED
  BY <1>1, <1>2, <1>3, <1>4, <1>5, <1>6 DEF IInv

(* The proxy touches a worker. *)
LEMMA ChunkStep ==
  ASSUME IInv, NEW r \in Reqs, Chunk(r)
  PROVE  IInv'
<1>1. TypeOK'
  BY DEF IInv, TypeOK, TaskInv, RegInv, HandleInv, Ours, Holding, Chunk, Touch
<1>2. TaskInv'
  BY DEF IInv, TaskInv, TypeOK, Holding, RegInv, Chunk, Touch
<1>3. RegInv'
  BY DEF IInv, RegInv, TypeOK, TaskInv, Holding, Chunk, Touch
<1>4. HandleInv'
  BY DEF IInv, HandleInv, TypeOK, TaskInv, Holding, RegInv, Ours, NoOrphan,
         Chunk, Touch
<1>5. NoOrphan'
  BY DEF IInv, NoOrphan, TypeOK, TaskInv, Holding, RegInv, HandleInv, Ours,
         Live, Chunk, Touch
<1>6. SocketInv'
  BY DEF IInv, SocketInv, TypeOK, TaskInv, Holding, RegInv, HandleInv, Ours,
         NoOrphan, Live, Chunk, Touch
<1>7. QED
  BY <1>1, <1>2, <1>3, <1>4, <1>5, <1>6 DEF IInv

(* A response ends. *)
LEMMA StreamEndStep ==
  ASSUME IInv, NEW r \in Reqs, StreamEnd(r)
  PROVE  IInv'
<1>1. TypeOK'
  BY DEF IInv, TypeOK, TaskInv, RegInv, HandleInv, Ours, Holding, StreamEnd,
         Finish
<1>2. TaskInv'
  BY DEF IInv, TaskInv, TypeOK, Holding, RegInv, StreamEnd, Finish
<1>3. RegInv'
  BY DEF IInv, RegInv, TypeOK, TaskInv, Holding, StreamEnd, Finish
<1>4. HandleInv'
  BY DEF IInv, HandleInv, TypeOK, TaskInv, Holding, RegInv, Ours, NoOrphan,
         StreamEnd, Finish
<1>5. NoOrphan'
  BY DEF IInv, NoOrphan, TypeOK, TaskInv, Holding, RegInv, HandleInv, Ours,
         Live, StreamEnd, Finish
<1>6. SocketInv'
  BY DEF IInv, SocketInv, TypeOK, TaskInv, Holding, RegInv, HandleInv, Ours,
         NoOrphan, Live, StreamEnd, Finish
<1>7. QED
  BY <1>1, <1>2, <1>3, <1>4, <1>5, <1>6 DEF IInv

(* list_workers collects zombies whose handle it marks. *)
LEMMA ListWorkersStep ==
  ASSUME IInv, ListWorkers
  PROVE  IInv'
<1>1. TypeOK'
  BY DEF IInv, TypeOK, TaskInv, RegInv, HandleInv, Ours, Holding, ListWorkers
<1>2. TaskInv'
  BY DEF IInv, TaskInv, TypeOK, Holding, RegInv, ListWorkers
<1>3. RegInv'
  BY DEF IInv, RegInv, TypeOK, TaskInv, Holding, ListWorkers
<1>4. HandleInv'
  BY DEF IInv, HandleInv, TypeOK, TaskInv, Holding, RegInv, Ours, NoOrphan,
         ListWorkers
<1>5. NoOrphan'
  BY DEF IInv, NoOrphan, TypeOK, TaskInv, Holding, RegInv, HandleInv, Ours,
         Live, ListWorkers
<1>6. SocketInv'
  BY DEF IInv, SocketInv, TypeOK, TaskInv, Holding, RegInv, HandleInv, Ours,
         NoOrphan, Live, ListWorkers
<1>7. QED
  BY <1>1, <1>2, <1>3, <1>4, <1>5, <1>6 DEF IInv

(* kill_worker drops a dead entry. *)
LEMMA KillDeadStep ==
  ASSUME IInv, NEW r \in Reqs, KillDead(r)
  PROVE  IInv'
<1>1. TypeOK'
  BY DEF IInv, TypeOK, TaskInv, RegInv, HandleInv, Ours, Holding, KillDead,
         Alive, AfterPoll, Collected, Cleanup, Deregister, Finish
<1>2. TaskInv'
  BY DEF IInv, TaskInv, TypeOK, Holding, RegInv, KillDead, Alive, AfterPoll,
         Collected, Cleanup, Deregister, Finish
<1>3. RegInv'
  BY DEF IInv, RegInv, TypeOK, TaskInv, Holding, KillDead, Alive, AfterPoll,
         Collected, Cleanup, Deregister, Finish
<1>4. HandleInv'
  BY DEF IInv, HandleInv, TypeOK, TaskInv, Holding, RegInv, Ours, NoOrphan,
         KillDead, Alive, AfterPoll, Collected, Cleanup, Deregister, Finish
<1>5. NoOrphan'
  BY DEF IInv, NoOrphan, TypeOK, TaskInv, Holding, RegInv, HandleInv, Ours,
         Live, KillDead, Alive, AfterPoll, Collected, Cleanup, Deregister,
         Finish
<1>6. SocketInv'
  BY DEF IInv, SocketInv, TypeOK, TaskInv, Holding, RegInv, HandleInv, Ours,
         NoOrphan, Live, KillDead, Alive, AfterPoll, Collected, Cleanup,
         Deregister, Finish
<1>7. QED
  BY <1>1, <1>2, <1>3, <1>4, <1>5, <1>6 DEF IInv

(* kill_worker moves a live worker from the registry to the lock holder. *)
LEMMA KillTermStep ==
  ASSUME IInv, NEW r \in Reqs, KillTerm(r)
  PROVE  IInv'
<1>1. TypeOK'
  <2>1. user[r] \in Users /\ workers[user[r]] \in Pids
    BY DEF IInv, TypeOK, TaskInv, KillTerm, Alive
  <2>2. proc' \in [Pids -> Proc \cup {NoProc}]
    BY <2>1, SignalFacts DEF IInv, TypeOK, KillTerm, Table
  <2>3. QED
    BY <2>1, <2>2 DEF IInv, TypeOK, KillTerm, Deregister, At
<1>2. TaskInv'
  BY DEF IInv, TaskInv, TypeOK, Holding, RegInv, KillTerm, Alive, Signal, Hit,
         Deregister, At
<1>3. RegInv'
  BY DEF IInv, RegInv, TypeOK, TaskInv, Holding, KillTerm, Alive, Signal, Hit,
         Deregister, At
<1>4. HandleInv'
  BY DEF IInv, HandleInv, TypeOK, TaskInv, Holding, RegInv, Ours, NoOrphan,
         KillTerm, Alive, Signal, Hit, Deregister, At
<1>5. NoOrphan'
  BY DEF IInv, NoOrphan, TypeOK, TaskInv, Holding, RegInv, HandleInv, Ours,
         Live, KillTerm, Alive, Signal, Hit, Deregister, At
<1>6. SocketInv'
  BY DEF IInv, SocketInv, TypeOK, TaskInv, Holding, RegInv, HandleInv, Ours,
         NoOrphan, Live, KillTerm, Alive, Signal, Hit, Deregister, At
<1>7. QED
  BY <1>1, <1>2, <1>3, <1>4, <1>5, <1>6 DEF IInv

(* The waiting thread collects the exit status. *)
LEMMA KillCollectStep ==
  ASSUME IInv, NEW r \in Reqs, KillCollect(r)
  PROVE  IInv'
<1>1. TypeOK'
  BY DEF IInv, TypeOK, TaskInv, RegInv, HandleInv, Ours, Holding, KillCollect,
         Collected
<1>2. TaskInv'
  BY DEF IInv, TaskInv, TypeOK, Holding, RegInv, KillCollect, Collected
<1>3. RegInv'
  BY DEF IInv, RegInv, TypeOK, TaskInv, Holding, KillCollect, Collected
<1>4. HandleInv'
  BY DEF IInv, HandleInv, TypeOK, TaskInv, Holding, RegInv, Ours, NoOrphan,
         KillCollect, Collected
<1>5. NoOrphan'
  BY DEF IInv, NoOrphan, TypeOK, TaskInv, Holding, RegInv, HandleInv, Ours,
         Live, KillCollect, Collected
<1>6. SocketInv'
  BY DEF IInv, SocketInv, TypeOK, TaskInv, Holding, RegInv, HandleInv, Ours,
         NoOrphan, Live, KillCollect, Collected
<1>7. QED
  BY <1>1, <1>2, <1>3, <1>4, <1>5, <1>6 DEF IInv

(* SIGKILL, possibly of a pid already recycled. *)
LEMMA KillForceStep ==
  ASSUME IInv, NEW r \in Reqs, KillForce(r)
  PROVE  IInv'
<1>1. TypeOK'
  BY DEF IInv, TypeOK, TaskInv, RegInv, HandleInv, Ours, Holding, KillForce,
         Signal, Hit, At
<1>2. TaskInv'
  BY DEF IInv, TaskInv, TypeOK, Holding, RegInv, KillForce, Signal, Hit, At
<1>3. RegInv'
  BY DEF IInv, RegInv, TypeOK, TaskInv, Holding, KillForce, Signal, Hit, At
<1>4. HandleInv'
  BY DEF IInv, HandleInv, TypeOK, TaskInv, Holding, RegInv, Ours, NoOrphan,
         KillForce, Signal, Hit, At
<1>5. NoOrphan'
  BY DEF IInv, NoOrphan, TypeOK, TaskInv, Holding, RegInv, HandleInv, Ours,
         Live, KillForce, Signal, Hit, At
<1>6. SocketInv'
  BY DEF IInv, SocketInv, TypeOK, TaskInv, Holding, RegInv, HandleInv, Ours,
         NoOrphan, Live, KillForce, Signal, Hit, At
<1>7. QED
  BY <1>1, <1>2, <1>3, <1>4, <1>5, <1>6 DEF IInv

(* kill_worker releases the lock with its worker collected. *)
LEMMA KillDoneStep ==
  ASSUME IInv, NEW r \in Reqs, KillDone(r)
  PROVE  IInv'
<1>1. TypeOK'
  BY DEF IInv, TypeOK, TaskInv, RegInv, HandleInv, Ours, Holding, KillDone,
         Cleanup, Release, Finish
<1>2. TaskInv'
  BY DEF IInv, TaskInv, TypeOK, Holding, RegInv, KillDone, Cleanup, Release,
         Finish
<1>3. RegInv'
  BY DEF IInv, RegInv, TypeOK, TaskInv, Holding, KillDone, Cleanup, Release,
         Finish
<1>4. HandleInv'
  BY DEF IInv, HandleInv, TypeOK, TaskInv, Holding, RegInv, Ours, NoOrphan,
         KillDone, Cleanup, Release, Finish
<1>5. NoOrphan'
  BY DEF IInv, NoOrphan, TypeOK, TaskInv, Holding, RegInv, HandleInv, Ours,
         Live, KillDone, Cleanup, Release, Finish
<1>6. SocketInv'
  BY DEF IInv, SocketInv, TypeOK, TaskInv, Holding, RegInv, HandleInv, Ours,
         NoOrphan, Live, KillDone, Cleanup, Release, Finish
<1>7. QED
  BY <1>1, <1>2, <1>3, <1>4, <1>5, <1>6 DEF IInv

(* The reaper reads the clock. *)
LEMMA ReaperWakeStep ==
  ASSUME IInv, ReaperWake
  PROVE  IInv'
<1>1. TypeOK'
  BY DEF IInv, TypeOK, TaskInv, RegInv, HandleInv, Ours, Holding, ReaperWake
<1>2. TaskInv'
  BY DEF IInv, TaskInv, TypeOK, Holding, RegInv, ReaperWake
<1>3. RegInv'
  BY DEF IInv, RegInv, TypeOK, TaskInv, Holding, ReaperWake
<1>4. HandleInv'
  BY DEF IInv, HandleInv, TypeOK, TaskInv, Holding, RegInv, Ours, NoOrphan,
         ReaperWake
<1>5. NoOrphan'
  BY DEF IInv, NoOrphan, TypeOK, TaskInv, Holding, RegInv, HandleInv, Ours,
         Live, ReaperWake
<1>6. SocketInv'
  BY DEF IInv, SocketInv, TypeOK, TaskInv, Holding, RegInv, HandleInv, Ours,
         NoOrphan, Live, ReaperWake
<1>7. QED
  BY <1>1, <1>2, <1>3, <1>4, <1>5, <1>6 DEF IInv

(* The reaper finds nobody idle. *)
LEMMA ReapNoneStep ==
  ASSUME IInv, ReapNone
  PROVE  IInv'
<1>1. TypeOK'
  BY DEF IInv, TypeOK, TaskInv, RegInv, HandleInv, Ours, Holding, ReapNone
<1>2. TaskInv'
  BY DEF IInv, TaskInv, TypeOK, Holding, RegInv, ReapNone
<1>3. RegInv'
  BY DEF IInv, RegInv, TypeOK, TaskInv, Holding, ReapNone
<1>4. HandleInv'
  BY DEF IInv, HandleInv, TypeOK, TaskInv, Holding, RegInv, Ours, NoOrphan,
         ReapNone
<1>5. NoOrphan'
  BY DEF IInv, NoOrphan, TypeOK, TaskInv, Holding, RegInv, HandleInv, Ours,
         Live, ReapNone
<1>6. SocketInv'
  BY DEF IInv, SocketInv, TypeOK, TaskInv, Holding, RegInv, HandleInv, Ours,
         NoOrphan, Live, ReapNone
<1>7. QED
  BY <1>1, <1>2, <1>3, <1>4, <1>5, <1>6 DEF IInv

(* The reaper takes the lock and signals its first victim. *)
LEMMA ReapStartStep ==
  ASSUME IInv, ReapStart
  PROVE  IInv'
<1>1. TypeOK'
  BY DEF IInv, TypeOK, TaskInv, RegInv, HandleInv, Ours, Holding, ReapStart,
         Signal, Hit
<1>2. TaskInv'
  BY DEF IInv, TaskInv, TypeOK, Holding, RegInv, ReapStart, Signal, Hit
<1>3. RegInv'
  BY DEF IInv, RegInv, TypeOK, TaskInv, Holding, ReapStart, Signal, Hit
<1>4. HandleInv'
  BY DEF IInv, HandleInv, TypeOK, TaskInv, Holding, RegInv, Ours, NoOrphan,
         ReapStart, Signal, Hit
<1>5. NoOrphan'
  BY DEF IInv, NoOrphan, TypeOK, TaskInv, Holding, RegInv, HandleInv, Ours,
         Live, ReapStart, Signal, Hit
<1>6. SocketInv'
  BY DEF IInv, SocketInv, TypeOK, TaskInv, Holding, RegInv, HandleInv, Ours,
         NoOrphan, Live, ReapStart, Signal, Hit
<1>7. QED
  BY <1>1, <1>2, <1>3, <1>4, <1>5, <1>6 DEF IInv

(* The reaper's thread collects its victim. *)
LEMMA ReapCollectStep ==
  ASSUME IInv, ReapCollect
  PROVE  IInv'
<1>1. TypeOK'
  BY DEF IInv, TypeOK, TaskInv, RegInv, HandleInv, Ours, Holding, ReapCollect,
         Collected
<1>2. TaskInv'
  BY DEF IInv, TaskInv, TypeOK, Holding, RegInv, ReapCollect, Collected
<1>3. RegInv'
  BY DEF IInv, RegInv, TypeOK, TaskInv, Holding, ReapCollect, Collected
<1>4. HandleInv'
  BY DEF IInv, HandleInv, TypeOK, TaskInv, Holding, RegInv, Ours, NoOrphan,
         ReapCollect, Collected
<1>5. NoOrphan'
  BY DEF IInv, NoOrphan, TypeOK, TaskInv, Holding, RegInv, HandleInv, Ours,
         Live, ReapCollect, Collected
<1>6. SocketInv'
  BY DEF IInv, SocketInv, TypeOK, TaskInv, Holding, RegInv, HandleInv, Ours,
         NoOrphan, Live, ReapCollect, Collected
<1>7. QED
  BY <1>1, <1>2, <1>3, <1>4, <1>5, <1>6 DEF IInv

(* The server stops accepting requests. *)
LEMMA DrainStep ==
  ASSUME IInv, Drain
  PROVE  IInv'
<1>1. TypeOK'
  BY DEF IInv, TypeOK, TaskInv, RegInv, HandleInv, Ours, Holding, Drain
<1>2. TaskInv'
  BY DEF IInv, TaskInv, TypeOK, Holding, RegInv, Drain
<1>3. RegInv'
  BY DEF IInv, RegInv, TypeOK, TaskInv, Holding, Drain
<1>4. HandleInv'
  BY DEF IInv, HandleInv, TypeOK, TaskInv, Holding, RegInv, Ours, NoOrphan,
         Drain
<1>5. NoOrphan'
  BY DEF IInv, NoOrphan, TypeOK, TaskInv, Holding, RegInv, HandleInv, Ours,
         Live, Drain
<1>6. SocketInv'
  BY DEF IInv, SocketInv, TypeOK, TaskInv, Holding, RegInv, HandleInv, Ours,
         NoOrphan, Live, Drain
<1>7. QED
  BY <1>1, <1>2, <1>3, <1>4, <1>5, <1>6 DEF IInv

(* shutdown() cancels the reaper and signals every registered pid. *)
LEMMA ShutdownTermStep ==
  ASSUME IInv, ShutdownTerm
  PROVE  IInv'
<1>1. TypeOK'
  BY DEF IInv, TypeOK, TaskInv, RegInv, HandleInv, Ours, Holding, ShutdownTerm,
         Hit
<1>2. TaskInv'
  BY DEF IInv, TaskInv, TypeOK, Holding, RegInv, ShutdownTerm, Hit
<1>3. RegInv'
  <2>1. {workers[u] : u \in Users} \ {None} = {} => \A u \in Users : workers[u] = None
    OBVIOUS
  <2>2. mpc' = "done" => \A u \in Users : workers'[u] = None
    BY <2>1 DEF ShutdownTerm
  <2>3. QED
    BY <2>2 DEF IInv, RegInv, TypeOK, TaskInv, ShutdownTerm
<1>4. HandleInv'
  BY DEF IInv, HandleInv, TypeOK, TaskInv, Holding, RegInv, Ours, NoOrphan,
         ShutdownTerm, Hit
<1>5. NoOrphan'
  BY DEF IInv, NoOrphan, TypeOK, TaskInv, Holding, RegInv, HandleInv, Ours,
         Live, ShutdownTerm, Hit
<1>6. SocketInv'
  BY DEF IInv, SocketInv, TypeOK, TaskInv, Holding, RegInv, HandleInv, Ours,
         NoOrphan, Live, ShutdownTerm, Hit
<1>7. QED
  BY <1>1, <1>2, <1>3, <1>4, <1>5, <1>6 DEF IInv

(* shutdown()'s thread collects a worker. *)
LEMMA ShutdownCollectStep ==
  ASSUME IInv, NEW u \in Users, ShutdownCollect(u)
  PROVE  IInv'
<1>1. TypeOK'
  BY DEF IInv, TypeOK, TaskInv, RegInv, HandleInv, Ours, Holding,
         ShutdownCollect, Collected
<1>2. TaskInv'
  BY DEF IInv, TaskInv, TypeOK, Holding, RegInv, ShutdownCollect, Collected
<1>3. RegInv'
  BY DEF IInv, RegInv, TypeOK, TaskInv, Holding, ShutdownCollect, Collected
<1>4. HandleInv'
  BY DEF IInv, HandleInv, TypeOK, TaskInv, Holding, RegInv, Ours, NoOrphan,
         ShutdownCollect, Collected
<1>5. NoOrphan'
  BY DEF IInv, NoOrphan, TypeOK, TaskInv, Holding, RegInv, HandleInv, Ours,
         Live, ShutdownCollect, Collected
<1>6. SocketInv'
  BY DEF IInv, SocketInv, TypeOK, TaskInv, Holding, RegInv, HandleInv, Ours,
         NoOrphan, Live, ShutdownCollect, Collected
<1>7. QED
  BY <1>1, <1>2, <1>3, <1>4, <1>5, <1>6 DEF IInv

(* shutdown() kills the stragglers and empties the registry. *)
LEMMA ShutdownKillStep ==
  ASSUME IInv, ShutdownKill
  PROVE  IInv'
<1>1. TypeOK'
  BY DEF IInv, TypeOK, TaskInv, RegInv, HandleInv, Ours, Holding, ShutdownKill,
         Hit
<1>2. TaskInv'
  BY DEF IInv, TaskInv, TypeOK, Holding, RegInv, ShutdownKill, Hit
<1>3. RegInv'
  BY DEF IInv, RegInv, TypeOK, TaskInv, Holding, ShutdownKill, Hit
<1>4. HandleInv'
  BY DEF IInv, HandleInv, TypeOK, TaskInv, Holding, RegInv, Ours, NoOrphan,
         ShutdownKill, Hit
<1>5. NoOrphan'
  BY DEF IInv, NoOrphan, TypeOK, TaskInv, Holding, RegInv, HandleInv, Ours,
         Live, ShutdownKill, Hit
<1>6. SocketInv'
  BY DEF IInv, SocketInv, TypeOK, TaskInv, Holding, RegInv, HandleInv, Ours,
         NoOrphan, Live, ShutdownKill, Hit
<1>7. QED
  BY <1>1, <1>2, <1>3, <1>4, <1>5, <1>6 DEF IInv

(* A restart ends every process. *)
LEMMA RestartStep ==
  ASSUME IInv, Restart
  PROVE  IInv'
<1>1. TypeOK'
  BY DEF IInv, TypeOK, TaskInv, RegInv, HandleInv, Ours, Holding, Restart
<1>2. TaskInv'
  BY DEF IInv, TaskInv, TypeOK, Holding, RegInv, Restart
<1>3. RegInv'
  BY DEF IInv, RegInv, TypeOK, TaskInv, Holding, Restart
<1>4. HandleInv'
  BY DEF IInv, HandleInv, TypeOK, TaskInv, Holding, RegInv, Ours, NoOrphan,
         Restart
<1>5. NoOrphan'
  BY DEF IInv, NoOrphan, TypeOK, TaskInv, Holding, RegInv, HandleInv, Ours,
         Live, Restart
<1>6. SocketInv'
  BY DEF IInv, SocketInv, TypeOK, TaskInv, Holding, RegInv, HandleInv, Ours,
         NoOrphan, Live, Restart
<1>7. QED
  BY <1>1, <1>2, <1>3, <1>4, <1>5, <1>6 DEF IInv

-------------------------------------------------------------------------------
(* The reaper's move to its next victim.  Between the end of the wait and the *)
(* next suspension the victim's process has exited and been collected, or has *)
(* been sent SIGKILL.                                                         *)

\* What the process table is when _reap_idle is done with its victim.
Dealt(table) ==
  /\ table \in Table
  /\ \A q \in Pids :
       /\ table[q].st = proc[q].st /\ table[q].user = proc[q].user
       /\ table[q] = NoProc <=> proc[q] = NoProc
       /\ q # workers[victim] => table[q] = proc[q]
       /\ proc[q].sig = "kill" => table[q].sig = "kill"
  /\ victim \in waited \/ ~Live(workers[victim]) \/ table[workers[victim]].sig = "kill"

(* Whichever way the victim ended, it is dealt with, and the reaper holds the lock. *)
LEMMA ReapDealt ==
  ASSUME IInv, rpc = "reap"
  PROVE  /\ victim \in waited => Dealt(proc)
         /\ Dealt(Signal(proc, workers[victim], "kill"))
<1>1. victim \in Users /\ workers[victim] \in Pids /\ proc \in Table
  BY DEF IInv, TypeOK, TaskInv, RegInv, Table
<1>2. victim \in waited => Dealt(proc)
  BY <1>1 DEF Dealt
<1>3. Dealt(Signal(proc, workers[victim], "kill"))
  <2> DEFINE w == workers[victim]
             t == Signal(proc, w, "kill")
  <2>1. t \in Table
        /\ \A q \in Pids :
             /\ t[q].st = proc[q].st /\ t[q].user = proc[q].user
             /\ t[q] = NoProc <=> proc[q] = NoProc
             /\ q # w => t[q] = proc[q]
             /\ proc[q].sig = "kill" => t[q].sig = "kill"
    BY <1>1 DEF Table, Signal, Hit
  <2>2. Live(w) => t[w].sig = "kill"
    BY <1>1, SignalFacts DEF Live
  <2>3. QED
    BY <2>1, <2>2 DEF Dealt
<1>4. QED
  BY <1>2, <1>3

(* Cleaning up after the victim and signalling the next one, dead or alive. *)
LEMMA ReapNextStep ==
  ASSUME IInv, rpc = "reap", NEW table, Dealt(table), ReapNext(table)
  PROVE  IInv'
<1>1. /\ victim \in Users /\ workers[victim] \in Pids /\ table \in Table
      /\ lock = Reaper /\ lock \notin Reqs /\ victim \notin todo
  BY DEF IInv, TypeOK, TaskInv, RegInv, Dealt
<1>2. PICK q \in Pids : TRUE
  BY <1>1
<1>3. /\ proc' \in Table
      /\ \A p \in Pids :
           /\ proc'[p].st = proc[p].st /\ proc'[p].user = proc[p].user
           /\ proc'[p] = NoProc <=> proc[p] = NoProc
           /\ proc[p].sig = "kill" => proc'[p].sig = "kill"
      /\ victim \in waited \/ ~Live(workers[victim]) \/ proc'[workers[victim]].sig = "kill"
  <2>1. CASE todo = {}
    BY <2>1, <1>1 DEF ReapNext, Dealt
  <2>2. CASE todo # {}
    <3>1. PICK v \in todo : proc' = Signal(table, workers[v], "term")
      BY <2>2 DEF ReapNext
    <3>2. workers[v] \in Pids
      BY <3>1 DEF IInv, TypeOK, RegInv
    <3>3. QED
      <4> DEFINE t == Signal(table, workers[v], "term")
      <4>1. t \in Table
            /\ \A p \in Pids :
                 /\ t[p].st = table[p].st /\ t[p].user = table[p].user
                 /\ t[p] = NoProc <=> table[p] = NoProc
                 /\ table[p].sig = "kill" => t[p].sig = "kill"
        <5>1. table \in Table /\ workers[v] \in Pids
          BY <3>2, <1>1
        <5>2. QED
          BY <5>1 DEF Table, Signal, Hit
      <4>2. proc' = t
        BY <3>1
      <4>3. QED
        BY <4>1, <4>2, <1>1 DEF Dealt
  <2>3. QED
    BY <2>1, <2>2
<1>4. TypeOK'
  BY <1>1, <1>3 DEF IInv, TypeOK, Table, ReapNext, Cleanup, Deregister, Release
<1>5. TaskInv'
  BY <1>1 DEF IInv, TypeOK, TaskInv, Holding, RegInv, ReapNext, Release
<1>6. RegInv'
  BY <1>1 DEF IInv, TypeOK, TaskInv, RegInv, ReapNext, Deregister
<1>7. HandleInv'
  BY <1>1, <1>3 DEF IInv, TypeOK, TaskInv, Holding, HandleInv, Ours, ReapNext,
                    Deregister, Release
<1>8. NoOrphan'
  BY <1>1, <1>3 DEF IInv, TypeOK, TaskInv, HandleInv, Ours, NoOrphan, Live, ReapNext,
                    Deregister
<1>9. SocketInv'
  <2>1. workers' = [workers EXCEPT ![victim] = None] /\ waited' = waited \ {victim}
        /\ sock' = [sock EXCEPT ![victim] = None]
    BY DEF ReapNext, Deregister, Cleanup
  <2>2. SUFFICES ASSUME NEW p \in Pids, proc'[p].st = "serving",
                        proc'[p].sig # "kill" \/ \E u \in Users \ waited' : workers'[u] = p
                 PROVE  sock'[proc'[p].user] = p
    BY DEF SocketInv
  <2>3. proc[p].st = "serving" /\ proc[p].user \in Users /\ proc'[p].user = proc[p].user
    BY <1>3, <2>2 DEF IInv, TypeOK
  <2>4. sock[proc[p].user] = p /\ proc[p].user # victim
    <3>1. CASE proc'[p].sig # "kill"
      <4>1. proc[p].sig # "kill"
        BY <3>1, <1>3
      <4>2. workers[proc[p].user] = p /\ proc[p].user \notin waited
        BY <4>1, <2>3, <1>1 DEF IInv, NoOrphan, Live
      <4>3. QED
        BY <3>1, <4>1, <4>2, <2>3, <1>3 DEF IInv, SocketInv, Live
    <3>2. CASE \E u \in Users \ waited' : workers'[u] = p
      <4>1. PICK u \in Users \ waited' : workers'[u] = p
        BY <3>2
      <4>2. u # victim /\ workers[u] = p /\ u \notin waited
        BY <4>1, <2>1 DEF IInv, TypeOK
      <4>3. proc[p].user = u
        BY <4>2 DEF IInv, HandleInv, Ours
      <4>4. QED
        BY <4>2, <4>3, <2>3 DEF IInv, SocketInv
    <3>3. QED
      BY <2>2, <3>1, <3>2
  <2>5. QED
    BY <2>1, <2>3, <2>4 DEF IInv, TypeOK
<1>10. QED
  BY <1>4, <1>5, <1>6, <1>7, <1>8, <1>9 DEF IInv

-------------------------------------------------------------------------------
(* Who listens on a socket file. *)

\* The listener on the socket file of a user is the current worker of this user.
ListenerInv ==
  \A u \in Users : sock[u] \in Pids =>
    /\ proc[sock[u]].st = "serving" /\ proc[sock[u]].user = u
    /\ \/ workers[u] = sock[u] /\ u \notin waited
       \/ lock \in Reqs /\ user[lock] = u /\ cur = sock[u] /\ ~curWaited

LEMMA ListenerNext == IInv /\ ListenerInv /\ [Next]_vars => ListenerInv'
<1>. SUFFICES ASSUME IInv, ListenerInv, [Next]_vars PROVE ListenerInv'
  OBVIOUS
<1>1. ASSUME NEW p \in Pids, WorkerUnlink(p) PROVE ListenerInv'
  BY <1>1 DEF IInv, TypeOK, TaskInv, HandleInv, Ours, ListenerInv, Holding,
         WorkerUnlink, Live
<1>2. ASSUME NEW p \in Pids, WorkerListen(p) PROVE ListenerInv'
  BY <1>2 DEF IInv, TypeOK, TaskInv, HandleInv, Ours, ListenerInv, Holding,
         WorkerListen, Live, NoOrphan
<1>3. ASSUME NEW p \in Pids, WorkerExit(p) PROVE ListenerInv'
  BY <1>3 DEF IInv, TypeOK, TaskInv, HandleInv, Ours, ListenerInv, Holding,
         WorkerExit, Live
<1>4. ASSUME NEW p \in Pids, CollectAbandoned(p) PROVE ListenerInv'
  BY <1>4 DEF IInv, TypeOK, TaskInv, HandleInv, Ours, ListenerInv, Holding,
         CollectAbandoned, Collected
<1>5. ASSUME NEW r \in Reqs, GetLive(r) PROVE ListenerInv'
  BY <1>5 DEF IInv, TypeOK, TaskInv, HandleInv, Ours, ListenerInv, Holding,
         GetLive, Touch, At
<1>6. ASSUME NEW r \in Reqs, GetSpawn(r) PROVE ListenerInv'
  BY <1>6 DEF IInv, TypeOK, TaskInv, HandleInv, Ours, ListenerInv, Holding,
         GetSpawn, RegInv, Touch, At, Alive, AfterPoll, Collected, Register
<1>7. ASSUME NEW r \in Reqs, GetSpawnFails(r) PROVE ListenerInv'
  BY <1>7 DEF IInv, TypeOK, TaskInv, HandleInv, Ours, ListenerInv, Holding,
         GetSpawnFails, RegInv, Finish, Alive, AfterPoll, Collected
<1>8. ASSUME NEW r \in Reqs, SpawnReady(r) PROVE ListenerInv'
  BY <1>8 DEF IInv, TypeOK, TaskInv, HandleInv, Ours, ListenerInv, Holding,
         SpawnReady, RegInv, Register, Touch, Release, At
<1>9. ASSUME NEW r \in Reqs, SpawnDied(r) PROVE ListenerInv'
  BY <1>9 DEF IInv, TypeOK, TaskInv, HandleInv, Ours, ListenerInv, Holding,
         SpawnDied, Collected, Release, Finish
<1>10. ASSUME NEW r \in Reqs, SpawnTimeout(r) PROVE ListenerInv'
  BY <1>10 DEF IInv, TypeOK, TaskInv, HandleInv, Ours, ListenerInv, Holding,
         SpawnTimeout, SocketInv, Collected, Release, Finish
<1>11. ASSUME NEW r \in Reqs, Connect(r) PROVE ListenerInv'
  BY <1>11 DEF IInv, TypeOK, TaskInv, HandleInv, Ours, ListenerInv, Holding,
         Connect, At, Finish
<1>12. ASSUME NEW r \in Reqs, Chunk(r) PROVE ListenerInv'
  BY <1>12 DEF IInv, TypeOK, TaskInv, HandleInv, Ours, ListenerInv, Holding,
         Chunk, Touch
<1>13. ASSUME NEW r \in Reqs, StreamEnd(r) PROVE ListenerInv'
  BY <1>13 DEF IInv, TypeOK, TaskInv, HandleInv, Ours, ListenerInv, Holding,
         StreamEnd, Finish
<1>14. ASSUME NEW r \in Reqs, KillDead(r) PROVE ListenerInv'
  BY <1>14 DEF IInv, TypeOK, TaskInv, HandleInv, Ours, ListenerInv, Holding,
         KillDead, Alive, AfterPoll, Collected, Cleanup, Deregister, Finish
<1>15. ASSUME NEW r \in Reqs, KillTerm(r) PROVE ListenerInv'
  BY <1>15 DEF IInv, TypeOK, TaskInv, HandleInv, Ours, ListenerInv, Holding,
         KillTerm, RegInv, Alive, Signal, Hit, Deregister, At
<1>16. ASSUME NEW r \in Reqs, KillCollect(r) PROVE ListenerInv'
  BY <1>16 DEF IInv, TypeOK, TaskInv, HandleInv, Ours, ListenerInv, Holding,
         KillCollect, Collected
<1>17. ASSUME NEW r \in Reqs, KillForce(r) PROVE ListenerInv'
  BY <1>17 DEF IInv, TypeOK, TaskInv, HandleInv, Ours, ListenerInv, Holding,
         KillForce, Signal, Hit, At
<1>18. ASSUME NEW r \in Reqs, KillDone(r) PROVE ListenerInv'
  BY <1>18 DEF IInv, TypeOK, TaskInv, HandleInv, Ours, ListenerInv, Holding,
         KillDone, Cleanup, Release, Finish
<1>19. ASSUME NEW u \in Users, BecomeIdle(u) PROVE ListenerInv'
  BY <1>19 DEF IInv, TypeOK, TaskInv, HandleInv, Ours, ListenerInv, Holding,
         BecomeIdle
<1>20. ASSUME NEW r \in Reqs, NEW u \in Users, Arrive(r, u) PROVE ListenerInv'
  BY <1>20 DEF IInv, TypeOK, TaskInv, HandleInv, Ours, ListenerInv, Holding,
         Arrive
<1>21. ASSUME ListWorkers PROVE ListenerInv'
  BY <1>21 DEF IInv, TypeOK, TaskInv, HandleInv, Ours, ListenerInv, Holding,
         ListWorkers
<1>22. ASSUME ReaperWake PROVE ListenerInv'
  BY <1>22 DEF IInv, TypeOK, TaskInv, HandleInv, Ours, ListenerInv, Holding,
         ReaperWake, RegInv
<1>23. ASSUME ReapNone PROVE ListenerInv'
  BY <1>23 DEF IInv, TypeOK, TaskInv, HandleInv, Ours, ListenerInv, Holding,
         ReapNone, RegInv
<1>24. ASSUME ReapStart PROVE ListenerInv'
  BY <1>24 DEF IInv, TypeOK, TaskInv, HandleInv, Ours, ListenerInv, Holding,
         ReapStart, RegInv, Signal, Hit
<1>25. ASSUME ReapCollect PROVE ListenerInv'
  BY <1>25 DEF IInv, TypeOK, TaskInv, HandleInv, Ours, ListenerInv, Holding,
         ReapCollect, RegInv, Collected
<1>26. ASSUME ReapExited \/ ReapForce PROVE ListenerInv'
  <2>1. PICK table : rpc = "reap" /\ Dealt(table) /\ ReapNext(table)
    BY <1>26, ReapDealt DEF ReapExited, ReapForce
  <2>2. /\ lock = Reaper /\ lock \notin Reqs /\ victim \in Users
        /\ \A v \in todo : workers[v] \in Pids
    BY <2>1 DEF IInv, TypeOK, TaskInv, RegInv
  <2>3. \A p \in Pids : proc'[p].st = proc[p].st /\ proc'[p].user = proc[p].user
    <3>1. table \in Table /\ \A p \in Pids : table[p].st = proc[p].st /\ table[p].user = proc[p].user
      BY <2>1 DEF Dealt
    <3>2. CASE todo = {}
      BY <2>1, <3>1, <3>2 DEF ReapNext
    <3>3. CASE todo # {}
      <4>1. PICK v \in todo : proc' = Signal(table, workers[v], "term")
        BY <2>1, <3>3 DEF ReapNext
      <4>. QED
        BY <2>2, <3>1, <4>1, SignalFacts
    <3>. QED
      BY <3>2, <3>3
  <2>4. /\ workers' = [workers EXCEPT ![victim] = None] /\ waited' = waited \ {victim}
        /\ sock' = [sock EXCEPT ![victim] = None]
    BY <2>1 DEF ReapNext, Deregister, Cleanup
  <2>. QED
    BY <2>2, <2>3, <2>4 DEF IInv, TypeOK, ListenerInv
<1>27. ASSUME Drain PROVE ListenerInv'
  BY <1>27 DEF IInv, TypeOK, TaskInv, HandleInv, Ours, ListenerInv, Holding,
         Drain, RegInv
<1>28. ASSUME ShutdownTerm PROVE ListenerInv'
  BY <1>28 DEF IInv, TypeOK, TaskInv, HandleInv, Ours, ListenerInv, Holding,
         ShutdownTerm, RegInv, Hit
<1>29. ASSUME ShutdownKill PROVE ListenerInv'
  BY <1>29 DEF IInv, TypeOK, TaskInv, HandleInv, Ours, ListenerInv, Holding,
         ShutdownKill, RegInv, Hit
<1>30. ASSUME Restart PROVE ListenerInv'
  BY <1>30 DEF IInv, TypeOK, TaskInv, HandleInv, Ours, ListenerInv, Holding,
         Restart, RegInv
<1>31. ASSUME NEW u \in Users, ShutdownCollect(u) PROVE ListenerInv'
  BY <1>31 DEF IInv, TypeOK, TaskInv, HandleInv, Ours, ListenerInv, Holding,
         ShutdownCollect, Collected
<1>32. ASSUME UNCHANGED vars PROVE ListenerInv'
  BY <1>32 DEF IInv, TypeOK, TaskInv, HandleInv, Ours, ListenerInv, Holding,
         vars
<1>. QED
  BY <1>1, <1>2, <1>3, <1>4, <1>5, <1>6, <1>7, <1>8, <1>9, <1>10, <1>11, <1>12, <1>13, <1>14, <1>15, <1>16, <1>17, <1>18, <1>19, <1>20, <1>21, <1>22, <1>23, <1>24, <1>25, <1>26, <1>27, <1>28, <1>29, <1>30, <1>31, <1>32
     DEF Next, Kernel, GetOrSpawn, Proxy, KillWorker, ReapIdle, Shutdown

-------------------------------------------------------------------------------
(* The theorems. *)

(* The pool starts with nothing running, nothing registered and the lock free. *)
LEMMA InitIInv == Init => IInv
<1>1. Init => TypeOK
  BY DEF Init, TypeOK
<1>2. Init => TaskInv /\ RegInv /\ HandleInv
  BY DEF Init, TaskInv, Holding, RegInv, HandleInv
<1>3. Init => NoOrphan /\ SocketInv
  BY DEF Init, NoOrphan, Live, SocketInv
<1>4. QED
  BY <1>1, <1>2, <1>3 DEF IInv

(* Every step of the pool, of its workers and of its restarts preserves IInv. *)
LEMMA NextIInv == IInv /\ [Next]_vars => IInv'
<1>1. SUFFICES ASSUME IInv, [Next]_vars PROVE IInv'
  OBVIOUS
<1>2. CASE \E p \in Pids : Kernel(p)
  BY <1>1, <1>2, WorkerUnlinkStep, WorkerListenStep, WorkerExitStep,
     CollectAbandonedStep DEF Kernel
<1>3. CASE \E u \in Users : BecomeIdle(u)
  BY <1>1, <1>3, BecomeIdleStep
<1>4. CASE \E r \in Reqs, u \in Users : Arrive(r, u)
  BY <1>1, <1>4, ArriveStep
<1>5. CASE \E r \in Reqs : GetOrSpawn(r)
  BY <1>1, <1>5, GetLiveStep, GetSpawnStep, GetSpawnFailsStep, SpawnReadyStep,
     SpawnDiedStep, SpawnTimeoutStep DEF GetOrSpawn
<1>6. CASE \E r \in Reqs : Proxy(r)
  BY <1>1, <1>6, ConnectStep, ChunkStep, StreamEndStep DEF Proxy
<1>7. CASE \E r \in Reqs : KillWorker(r)
  BY <1>1, <1>7, KillDeadStep, KillTermStep, KillCollectStep, KillForceStep,
     KillDoneStep DEF KillWorker
<1>8. CASE ListWorkers
  BY <1>1, <1>8, ListWorkersStep
<1>9. CASE ReapIdle
  <2>1. CASE ReapExited \/ ReapForce
    BY <1>1, <2>1, ReapDealt, ReapNextStep DEF ReapExited, ReapForce
  <2>2. QED
    BY <1>1, <1>9, <2>1, ReaperWakeStep, ReapNoneStep, ReapStartStep,
       ReapCollectStep DEF ReapIdle
<1>10. CASE Shutdown
  BY <1>1, <1>10, DrainStep, ShutdownTermStep, ShutdownCollectStep,
     ShutdownKillStep DEF Shutdown
<1>11. CASE Restart
  BY <1>1, <1>11, RestartStep
<1>12. CASE UNCHANGED vars
  BY <1>1, <1>12 DEF vars, IInv, TypeOK, TaskInv, Holding, RegInv, HandleInv,
     Ours, NoOrphan, Live, SocketInv
<1>13. QED
  BY <1>1, <1>2, <1>3, <1>4, <1>5, <1>6, <1>7, <1>8, <1>9, <1>10, <1>11, <1>12
     DEF Next

(* IInv holds in every reachable state of the pool. *)
THEOREM Inductive == Spec => []IInv
BY InitIInv, NextIInv, PTL DEF Spec

(* Every variable of the pool keeps its type. *)
THEOREM TypeCorrect == Spec => []TypeOK
BY Inductive, PTL DEF IInv

(* No error path of spawn, kill, reap or shutdown drops a running worker that *)
(* was not sent SIGKILL: it is registered, or held by the holder of the lock. *)
THEOREM NoWorkerOrphaned == Spec => []NoOrphan
BY Inductive, PTL DEF IInv

(* A user never has two unkilled workers over the same knowledge directory. *)
THEOREM WorkersAreExclusive == Spec => []OneWorkerPerUser
<1>1. IInv => OneWorkerPerUser
  BY DEF IInv, TypeOK, TaskInv, HandleInv, NoOrphan, Live, OneWorkerPerUser
<1>2. QED
  BY <1>1, Inductive, PTL

(* Unlinking socket files by path never cuts a listening worker off, and the   *)
(* proxy, which connects to the file of the user, never reaches another user's  *)
(* worker, however often workers and pids were replaced since the request came. *)
THEOREM SocketFilesAreOwn == Spec => []SocketsAreOwn
<1>1. IInv => \A u \in Users :
                Alive(u) /\ proc[workers[u]].st = "serving" => sock[u] = workers[u]
  BY DEF IInv, TypeOK, HandleInv, Ours, SocketInv, Alive
<1>2. IInv /\ ListenerInv => SocketsAreOwn
  BY <1>1 DEF ListenerInv, SocketsAreOwn
<1>3. Init => ListenerInv
  BY DEF Init, ListenerInv
<1>4. QED
  BY <1>2, <1>3, ListenerNext, Inductive, PTL DEF Spec

(* When shutdown() has returned, every worker has ended or was sent SIGKILL. *)
THEOREM ShutdownComplete == Spec => []ShutdownLeavesNone
<1>1. IInv => ShutdownLeavesNone
  BY DEF IInv, TypeOK, TaskInv, RegInv, NoOrphan, Live, ShutdownLeavesNone, Holding
<1>2. QED
  BY <1>1, Inductive, PTL

(* A touch while the reaper waits for the lock saves the worker from being its *)
(* first victim.                                                               *)
THEOREM TouchSavesFirst == Spec => FirstVictimIsIdle
<1>1. ASSUME Next, rpc = "lock", rpc' = "reap" PROVE ReapStart
  <2>1. CASE \E p \in Pids : Kernel(p)
    BY <1>1, <2>1 DEF Kernel, WorkerUnlink, WorkerListen, WorkerExit, CollectAbandoned
  <2>2. CASE \E r \in Reqs : GetOrSpawn(r)
    BY <1>1, <2>2 DEF GetOrSpawn, GetLive, GetSpawn, GetSpawnFails, SpawnReady,
                      SpawnDied, SpawnTimeout
  <2>3. CASE \E r \in Reqs : Proxy(r) \/ KillWorker(r)
    BY <1>1, <2>3 DEF Proxy, Connect, Chunk, StreamEnd, KillWorker, KillDead,
                      KillTerm, KillCollect, KillForce, KillDone
  <2>4. CASE ReapIdle
    BY <1>1, <2>4 DEF ReapIdle, ReaperWake, ReapNone, ReapCollect, ReapExited,
                      ReapForce
  <2>5. CASE Shutdown
    BY <1>1, <2>5 DEF Shutdown, Drain, ShutdownTerm, ShutdownCollect, ShutdownKill
  <2>6. QED
    BY <1>1, <2>1, <2>2, <2>3, <2>4, <2>5 DEF Next, BecomeIdle, Arrive,
       ListWorkers, Restart
<1>2. IInv /\ ReapStart => victim' \in idle
  BY DEF IInv, RegInv, ReapStart
<1>3. IInv /\ [Next]_vars => [rpc = "lock" /\ rpc' = "reap" => victim' \in idle]_vars
  BY <1>1, <1>2
<1>4. QED
  BY <1>3, Inductive, PTL DEF Spec, FirstVictimIsIdle

-------------------------------------------------------------------------------
(* How far the code keeps what it does not keep in general. *)

\* A spawn reports a worker ready that has bound its socket, or has found a file
\* that somebody who is gone left behind.
ReadyUnlessStale ==
  [][\A r \in Reqs : pc[r] \in {"get", "spawn"} /\ pc'[r] = "body" /\ ~Alive(user[r])
       => \/ proc'[workers'[user[r]]].st \in {"serving", "zombie"}
          \/ sock[user[r]] = Stale]_vars

(* ReadyHasBound fails, but only for a socket file nobody listens on: a spawn    *)
(* never takes the listener of another worker, of this user or of any other, for *)
(* the worker it has started (_spawn_worker tests for the file, not the socket). *)
THEOREM ReadyButForStaleFiles == Spec => ReadyUnlessStale
<1>1. ASSUME IInv, Next, NEW r \in Reqs, pc[r] \in {"get", "spawn"}, pc'[r] = "body",
             ~Alive(user[r])
      PROVE  GetSpawn(r) \/ SpawnReady(r)
  <2>1. CASE \E q \in Reqs : GetOrSpawn(q) \/ Proxy(q) \/ KillWorker(q)
    BY <1>1, <2>1 DEF IInv, TypeOK, GetOrSpawn, GetLive, GetSpawn, GetSpawnFails, SpawnReady,
       SpawnDied, SpawnTimeout, Proxy, Connect, Chunk, StreamEnd, KillWorker, KillDead,
       KillTerm, KillCollect, KillForce, KillDone, At, Finish
  <2>2. CASE ~\E q \in Reqs : GetOrSpawn(q) \/ Proxy(q) \/ KillWorker(q)
    <3>1. pc' = pc \/ (\E q \in Reqs, u \in Users : Arrive(q, u)) \/ Restart
      BY <1>1, <2>2 DEF Next, Kernel, WorkerUnlink, WorkerListen, WorkerExit,
         CollectAbandoned, BecomeIdle, ListWorkers, ReapIdle, ReaperWake, ReapNone,
         ReapStart, ReapCollect, ReapExited, ReapForce, ReapNext, Shutdown, Drain,
         ShutdownTerm, ShutdownCollect, ShutdownKill
    <3>. QED
      BY <1>1, <3>1 DEF IInv, TypeOK, Arrive, Restart
  <2>. QED
    BY <2>1, <2>2
<1>2. ASSUME IInv, ListenerInv, NEW r \in Reqs, GetSpawn(r), pc'[r] = "body"
      PROVE  sock[user[r]] = Stale
  <2>1. user[r] \in Users /\ lock = None /\ pc[r] = "get"
    BY <1>2 DEF IInv, TaskInv, GetSpawn
  <2>2. workers[user[r]] = None /\ sock[user[r]] # None
    BY <1>2, <2>1 DEF IInv, TypeOK, GetSpawn, At
  <2>. QED
    BY <1>2, <2>1, <2>2 DEF IInv, TypeOK, ListenerInv
<1>3. ASSUME IInv, ListenerInv, NEW r \in Reqs, SpawnReady(r)
      PROVE  proc'[workers'[user[r]]].st = "serving" \/ sock[user[r]] = Stale
  <2>1. /\ user[r] \in Users /\ lock = r /\ workers'[user[r]] = cur /\ proc' = proc
        /\ sock[user[r]] # None
    BY <1>3 DEF IInv, TypeOK, TaskInv, Holding, SpawnReady, Register
  <2>2. ASSUME sock[user[r]] \in Pids PROVE cur = sock[user[r]]
    BY <1>3, <2>1, <2>2 DEF IInv, TypeOK, HandleInv, ListenerInv
  <2>. QED
    BY <1>3, <2>1, <2>2 DEF IInv, TypeOK, ListenerInv
<1>4. IInv /\ ListenerInv /\ [Next]_vars =>
        [\A r \in Reqs : pc[r] \in {"get", "spawn"} /\ pc'[r] = "body" /\ ~Alive(user[r])
           => \/ proc'[workers'[user[r]]].st \in {"serving", "zombie"}
              \/ sock[user[r]] = Stale]_vars
  BY <1>1, <1>2, <1>3
<1>5. Init => ListenerInv
  BY DEF Init, ListenerInv
<1>. QED
  BY <1>4, <1>5, ListenerNext, Inductive, PTL DEF Spec, ReadyUnlessStale

\* Whoever is signalled is named by a handle that is of its own user, or has
\* already collected the exit status of the process it was opened for.
Addressed(p) ==
  \/ \E u \in Users : workers[u] = p /\ (proc[p].user = u \/ u \in waited)
  \/ lock \in Reqs /\ cur = p /\ (proc[p].user = user[lock] \/ curWaited)

SignalsAreAddressed ==
  [][\A p \in Pids : proc'[p].sig \notin {proc[p].sig, "none"} => Addressed(p)]_vars

LEMMA SignalHits ==
  ASSUME NEW table \in Table, NEW w \in Pids, NEW s \in {"term", "kill"}, NEW p \in Pids,
         Signal(table, w, s)[p].sig # table[p].sig
  PROVE  p = w
BY DEF Signal, Hit, Table

(* SIGTERM and SIGKILL go out by number.  They reach a process of another user    *)
(* only in the time after a poll or a wait has collected the exit status of the    *)
(* worker meant: no respawn, eviction, reload or shutdown signals a stranger       *)
(* through a handle that still waits for its process.                              *)
THEOREM SignalsReachOwn == Spec => SignalsAreAddressed
<1>1. ASSUME IInv, NEW u \in Users, workers[u] \in Pids
      PROVE  Addressed(workers[u])
  BY <1>1 DEF IInv, TypeOK, HandleInv, Ours, Addressed
<1>2. ASSUME IInv, lock \in Reqs PROVE cur \in Pids /\ Addressed(cur)
  BY <1>2 DEF IInv, TypeOK, TaskInv, HandleInv, Ours, Addressed
<1>3. ASSUME IInv, NEW p \in Pids, proc'[p].sig \notin {proc[p].sig, "none"},
             NEW r \in Reqs, GetOrSpawn(r) \/ Proxy(r) \/ KillWorker(r)
      PROVE  Addressed(p)
  <2>1. KillTerm(r) \/ KillForce(r)
    BY <1>3 DEF IInv, TypeOK, GetOrSpawn, GetLive, GetSpawn, GetSpawnFails, SpawnReady,
       SpawnDied, SpawnTimeout, Proxy, Connect, Chunk, StreamEnd, KillWorker, KillDead,
       KillCollect, KillDone, AfterPoll, Collected
  <2>2. CASE KillTerm(r)
    <3>1. user[r] \in Users /\ workers[user[r]] \in Pids /\ proc \in Table
      BY <1>3, <2>2 DEF IInv, TypeOK, TaskInv, KillTerm, Alive, Table
    <3>2. p = workers[user[r]]
      BY <1>3, <2>2, <3>1, SignalHits DEF KillTerm
    <3>. QED
      BY <1>1, <1>3, <3>1, <3>2
  <2>3. CASE KillForce(r)
    <3>1. lock \in Reqs /\ cur \in Pids /\ proc \in Table
      BY <1>2, <1>3, <2>3 DEF IInv, TypeOK, TaskInv, Holding, KillForce, Table
    <3>2. p = cur
      BY <1>3, <2>3, <3>1, SignalHits DEF KillForce
    <3>. QED
      BY <1>2, <1>3, <3>1, <3>2
  <2>. QED
    BY <2>1, <2>2, <2>3
<1>4. ASSUME IInv, NEW p \in Pids, proc'[p].sig \notin {proc[p].sig, "none"}, ReapIdle
      PROVE  Addressed(p)
  <2>1. proc \in Table /\ \A u \in late \cup todo : u \in Users /\ workers[u] \in Pids
    BY <1>4 DEF IInv, TypeOK, RegInv, Table
  <2>2. CASE ReapStart
    <3>1. PICK u \in late : proc' = Signal(proc, workers[u], "term")
      BY <2>2 DEF ReapStart
    <3>2. p = workers[u]
      BY <1>4, <2>1, <3>1, SignalHits
    <3>. QED
      BY <1>1, <1>4, <2>1, <3>2
  <2>3. CASE ReapExited \/ ReapForce
    <3>. DEFINE w == workers[victim]
                killed == Signal(proc, w, "kill")
    <3>1. victim \in Users /\ w \in Pids /\ killed \in Table
      <4>1. victim \in Users /\ w \in Pids
        BY <1>4, <2>3 DEF IInv, TypeOK, TaskInv, RegInv, ReapExited, ReapForce
      <4>. QED
        BY <2>1, <4>1, SignalFacts
    <3>. HIDE DEF w, killed
    <3>2. PICK table \in {proc, killed} : ReapNext(table)
      BY <2>3 DEF ReapExited, ReapForce, killed, w
    <3>3. table[p].sig # proc[p].sig => p = w
      BY <2>1, <3>1, <3>2, SignalHits DEF killed
    <3>4. proc'[p].sig # table[p].sig => \E v \in todo : p = workers[v]
      <4>1. CASE todo = {}
        BY <3>2, <4>1 DEF ReapNext
      <4>2. CASE todo # {}
        <5>1. PICK v \in todo : proc' = Signal(table, workers[v], "term")
          BY <3>2, <4>2 DEF ReapNext
        <5>. QED
          BY <2>1, <3>1, <3>2, <5>1, SignalHits
      <4>. QED
        BY <4>1, <4>2
    <3>5. p = w \/ \E v \in todo : p = workers[v]
      BY <1>4, <3>3, <3>4
    <3>. QED
      BY <1>1, <1>4, <2>1, <3>1, <3>5 DEF w
  <2>4. CASE ~(ReapStart \/ ReapExited \/ ReapForce)
    BY <1>4, <2>4 DEF IInv, TypeOK, ReapIdle, ReaperWake, ReapNone, ReapCollect, Collected
  <2>. QED
    BY <2>2, <2>3, <2>4
<1>5. ASSUME IInv, NEW p \in Pids, proc'[p].sig \notin {proc[p].sig, "none"}, Shutdown
      PROVE  Addressed(p)
  <2>1. \E u \in Users : workers[u] = p
    BY <1>5 DEF IInv, TypeOK, Shutdown, Drain, ShutdownTerm, ShutdownCollect, ShutdownKill,
       Collected, Hit
  <2>. QED
    BY <1>1, <1>5, <2>1
<1>6. ASSUME IInv, [Next]_vars, NEW p \in Pids, proc'[p].sig \notin {proc[p].sig, "none"}
      PROVE  Addressed(p)
  <2>1. CASE \/ \E q \in Pids : Kernel(q)
             \/ ListWorkers \/ Restart \/ UNCHANGED proc
    BY <1>6, <2>1 DEF IInv, TypeOK, Kernel, WorkerUnlink, WorkerListen, WorkerExit,
       CollectAbandoned, Collected, ListWorkers, Restart
  <2>2. CASE \/ \E u \in Users : BecomeIdle(u)
             \/ \E r \in Reqs, u \in Users : Arrive(r, u)
    BY <2>1, <2>2 DEF BecomeIdle, Arrive
  <2>. QED
    BY <1>3, <1>4, <1>5, <1>6, <2>1, <2>2 DEF Next, vars
<1>7. IInv /\ [Next]_vars =>
        [\A p \in Pids : proc'[p].sig \notin {proc[p].sig, "none"} => Addressed(p)]_vars
  BY <1>6
<1>. QED
  BY <1>7, Inductive, PTL DEF Spec, SignalsAreAddressed
===============================================================================
