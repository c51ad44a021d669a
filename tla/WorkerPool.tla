------------------------------ MODULE WorkerPool ------------------------------
(***************************************************************************)
(* The per-user worker pool of the isolation manager: the asyncio tasks of  *)
(* mcp_brain/isolation/manager.py (ProcessManager) and of the proxy in      *)
(* mcp_brain/isolation/entrypoint.py, together with what they act on: the   *)
(* kernel's process table and the directory of Unix sockets.                *)
(*                                                                          *)
(* One step is what the event loop runs between two awaits.  The lock is    *)
(* ProcessManager._lock; touch() and list_workers() do not take it.  A      *)
(* registered WorkerInfo is a pid and, in `waited', whether its Popen has   *)
(* collected the exit status: from then on the pid is free and the kernel   *)
(* may give it to another process, although the entry still names it.       *)
(***************************************************************************)
EXTENDS FiniteSets

CONSTANTS
  Users,    \* user ids
  Pids,     \* the pids the kernel hands out
  Reqs,     \* the HTTP request tasks in flight, each one proxied or a reload
  None,     \* no pid, no user, nobody
  Stale,    \* a socket file nobody listens on
  Reaper,   \* the background idle-reaper task
  Main      \* the lifespan task that runs shutdown()

ASSUME Distinct ==
  /\ None \notin Users \cup Pids \cup Reqs \cup {Stale, Reaper, Main}
  /\ Stale \notin Pids
  /\ Reaper # Main /\ {Reaper, Main} \cap Reqs = {}

VARIABLES
  proc,     \* the kernel's process table
  sock,     \* sock[u]: the file <socket_dir>/<u>.sock (None, Stale or its listener)
  workers,  \* _workers: the pid registered for each user
  waited,   \* users whose registered Popen has its returncode
  idle,     \* users whose last_activity is older than idle_timeout
  lock,     \* holder of _lock
  cur,      \* the Popen local to the spawning or killing holder: its pid ...
  curWaited,\* ... and whether its returncode is set
  pc,       \* pc[r]: where request task r is suspended
  user,     \* user[r]: the user the request is for
  rpc,      \* where the reaper is suspended
  late,     \* users idle at the `now' the waiting reaper has read
  todo,     \* the reaper's to_reap, less what it has dealt with
  victim,   \* the user whose worker the reaper is terminating
  mpc       \* the server's lifespan

procVars == <<proc, sock>>
regVars  == <<workers, waited, idle>>
lockVars == <<lock, cur, curWaited>>
reqVars  == <<pc, user>>
reapVars == <<rpc, late, todo, victim>>
vars == <<proc, sock, workers, waited, idle, lock, cur, curWaited, pc, user,
          rpc, late, todo, victim, mpc>>

-------------------------------------------------------------------------------
(* Processes.  "boot": started; "ready": the old socket file unlinked, not   *)
(* bound yet; "serving": bound and listening; "zombie": exited, its status   *)
(* not collected.  sig is the strongest signal sent to it.                   *)

Running == {"boot", "ready", "serving"}

Proc == [st: Running \cup {"zombie"}, user: Users, sig: {"none", "term", "kill"}]

NoProc == [st |-> "free", user |-> None, sig |-> "none"]

Live(p) == proc[p].st \in Running

\* The process table after Popen.poll() or Popen.wait() found the exited p.
Collected(p) == [proc EXCEPT ![p] = NoProc]

\* Mutant: a signal to a pid nobody has is recorded like any other.
MutantHit(e, s) == IF e.sig # "kill" THEN [e EXCEPT !.sig = s] ELSE e

\* Process entry e after os.kill: ESRCH and a zombie leave it as it is.
Hit(e, s) == IF e.st \in Running /\ e.sig # "kill" THEN [e EXCEPT !.sig = s] ELSE e

Signal(table, p, s) == [table EXCEPT ![p] = Hit(@, s)]

\* info.process.poll() is None, for the worker registered for u.
Alive(u) == workers[u] # None /\ u \notin waited /\ proc[workers[u]].st # "zombie"

\* What poll() leaves behind when it finds the registered worker of u dead.
AfterPoll(u) ==
  IF workers[u] = None \/ u \in waited THEN proc ELSE Collected(workers[u])

TypeOK ==
  /\ proc \in [Pids -> Proc \cup {NoProc}]
  /\ sock \in [Users -> Pids \cup {Stale, None}]
  /\ workers \in [Users -> Pids \cup {None}]
  /\ waited \subseteq Users
  /\ idle \subseteq Users
  /\ lock \in Reqs \cup {Reaper, Main, None}
  /\ cur \in Pids \cup {None}
  /\ curWaited \in BOOLEAN
  /\ pc \in [Reqs -> {"idle", "get", "spawn", "body", "stream", "kill", "kterm", "kkill"}]
  /\ user \in [Reqs -> Users \cup {None}]
  /\ rpc \in {"sleep", "lock", "reap", "off"}
  /\ late \subseteq Users
  /\ todo \subseteq Users
  /\ victim \in Users \cup {None}
  /\ mpc \in {"run", "drain", "term", "done"}

Init ==
  /\ proc = [p \in Pids |-> NoProc]
  /\ sock = [u \in Users |-> None]
  /\ workers = [u \in Users |-> None]
  /\ waited = {} /\ idle = {}
  /\ lock = None /\ cur = None /\ curWaited = FALSE
  /\ pc = [r \in Reqs |-> "idle"]
  /\ user = [r \in Reqs |-> None]
  /\ rpc = "sleep" /\ late = {} /\ todo = {} /\ victim = None
  /\ mpc = "run"

-------------------------------------------------------------------------------
(* The worker process and the clock. *)

\* worker.main unlinks the socket file a previous incarnation left.
WorkerUnlink(p) ==
  /\ proc[p].st = "boot" /\ proc[p].sig # "kill"
  /\ proc' = [proc EXCEPT ![p].st = "ready"]
  /\ sock' = [sock EXCEPT ![proc[p].user] = None]
  /\ UNCHANGED <<regVars, lockVars, reqVars, reapVars, mpc>>

\* uvicorn binds the socket and listens.
WorkerListen(p) ==
  /\ proc[p].st = "ready" /\ proc[p].sig # "kill"
  /\ proc' = [proc EXCEPT ![p].st = "serving"]
  /\ sock' = [sock EXCEPT ![proc[p].user] = p]
  /\ UNCHANGED <<regVars, lockVars, reqVars, reapVars, mpc>>

\* The worker exits: on a signal, or on its own.  uvicorn removes its socket
\* file on an orderly exit and leaves it behind on a crash or a SIGKILL.
WorkerExit(p) ==
  /\ Live(p)
  /\ proc' = [proc EXCEPT ![p].st = "zombie"]
  /\ LET u == proc[p].user IN
     IF sock[u] = p
     THEN \E left \in IF proc[p].sig = "kill" THEN {Stale} ELSE {Stale, None} :
            sock' = [sock EXCEPT ![u] = left]
     ELSE UNCHANGED sock
  /\ UNCHANGED <<regVars, lockVars, reqVars, reapVars, mpc>>

\* A waiter thread whose caller gave up collects the exited process.
CollectAbandoned(p) ==
  /\ proc[p].st = "zombie" /\ (p # cur \/ curWaited)
  /\ \A u \in Users : workers[u] # p \/ u \in waited
  /\ proc' = Collected(p)
  /\ UNCHANGED <<sock, regVars, lockVars, reqVars, reapVars, mpc>>

\* idle_timeout passes without a touch of u's worker.
BecomeIdle(u) ==
  /\ workers[u] # None /\ u \notin idle
  /\ idle' = idle \cup {u}
  /\ UNCHANGED <<procVars, workers, waited, lockVars, reqVars, reapVars, mpc>>

-------------------------------------------------------------------------------
(* The registry. *)

\* Mutant: to_reap is computed before the lock is asked for.
MutantTouch(u) == idle' = idle \ {u} /\ UNCHANGED late

\* touch(u): last_activity = now, so the reaper's earlier `now' is in its past.
Touch(u) == idle' = idle \ {u} /\ late' = late \ {u}

Register(u, p) ==
  /\ workers' = [workers EXCEPT ![u] = p]
  /\ waited' = waited \ {u}
  /\ Touch(u)

Deregister(u) ==
  /\ workers' = [workers EXCEPT ![u] = None]
  /\ waited' = waited \ {u}
  /\ idle' = idle \ {u}
  /\ late' = late \ {u}

\* _cleanup_worker(u): unlink the socket file, whoever it belongs to.
Cleanup(u) == sock' = [sock EXCEPT ![u] = None]

Release == lock' = None /\ cur' = None /\ curWaited' = FALSE

At(r, label) == pc' = [pc EXCEPT ![r] = label] /\ UNCHANGED user

Finish(r) == pc' = [pc EXCEPT ![r] = "idle"] /\ user' = [user EXCEPT ![r] = None]

-------------------------------------------------------------------------------
(* The proxy: get_or_spawn, touch, connect, stream. *)

Arrive(r, u) ==
  /\ mpc = "run" /\ pc[r] = "idle"
  /\ \E label \in {"get", "kill"} : pc' = [pc EXCEPT ![r] = label]
  /\ user' = [user EXCEPT ![r] = u]
  /\ UNCHANGED <<procVars, regVars, lockVars, reapVars, mpc>>

\* The registered worker is alive: return it, and touch it.
GetLive(r) ==
  /\ pc[r] = "get" /\ lock = None /\ Alive(user[r])
  /\ Touch(user[r])
  /\ At(r, "body")
  /\ UNCHANGED <<procVars, workers, waited, lockVars, rpc, todo, victim, mpc>>

\* Missing or dead: clean up after the dead one, start a process and look for
\* the socket file.  A dead entry stays registered until the spawn succeeds.
GetSpawn(r) ==
  LET u == user[r]
      dead == workers[u] # None
      file == IF dead THEN None ELSE sock[u]
  IN
  /\ pc[r] = "get" /\ lock = None /\ ~Alive(u)
  /\ sock' = [sock EXCEPT ![u] = file]
  /\ \E p \in Pids :
       /\ AfterPoll(u)[p] = NoProc
       /\ proc' = [AfterPoll(u) EXCEPT ![p] = [st |-> "boot", user |-> u, sig |-> "none"]]
       /\ IF file # None
          THEN /\ Register(u, p)
               /\ At(r, "body")
               /\ UNCHANGED lockVars
          ELSE /\ waited' = IF dead THEN waited \cup {u} ELSE waited
               /\ lock' = r /\ cur' = p /\ curWaited' = FALSE
               /\ At(r, "spawn")
               /\ UNCHANGED <<workers, idle, late>>
  /\ UNCHANGED <<rpc, todo, victim, mpc>>

\* Popen raises (no bwrap, no memory, no pid left): the request fails.
GetSpawnFails(r) ==
  LET u == user[r]
      dead == workers[u] # None
  IN
  /\ pc[r] = "get" /\ lock = None /\ ~Alive(u)
  /\ proc' = AfterPoll(u)
  /\ sock' = [sock EXCEPT ![u] = IF dead THEN None ELSE @]
  /\ waited' = IF dead THEN waited \cup {u} ELSE waited
  /\ Finish(r)
  /\ UNCHANGED <<workers, idle, lockVars, reapVars, mpc>>

\* The polling loop of _spawn_worker sees the socket file.
SpawnReady(r) ==
  /\ pc[r] = "spawn" /\ sock[user[r]] # None
  /\ Register(user[r], cur)
  /\ Release
  /\ At(r, "body")
  /\ UNCHANGED <<procVars, rpc, todo, victim, mpc>>

\* Mutant: the RuntimeError leaves the lock taken.
MutantSpawnDied(r) ==
  /\ pc[r] = "spawn" /\ sock[user[r]] = None
  /\ proc[cur].st = "zombie"
  /\ proc' = Collected(cur)
  /\ Finish(r)
  /\ UNCHANGED <<sock, regVars, lockVars, reapVars, mpc>>

\* ... or poll() finds the process dead: RuntimeError, 503.
SpawnDied(r) ==
  /\ pc[r] = "spawn" /\ sock[user[r]] = None
  /\ proc[cur].st = "zombie"
  /\ proc' = Collected(cur)
  /\ Release
  /\ Finish(r)
  /\ UNCHANGED <<sock, regVars, reapVars, mpc>>

\* ... or the deadline has passed: kill, wait, RuntimeError.  A worker that
\* binds between the test of the file and the kill leaves its file behind.
SpawnTimeout(r) ==
  /\ pc[r] = "spawn" /\ sock[user[r]] = None
  /\ proc[cur].st # "zombie"
  /\ \E left \in IF proc[cur].st = "ready" THEN {None, Stale} ELSE {None} :
       sock' = [sock EXCEPT ![user[r]] = left]
  /\ proc' = Collected(cur)
  /\ Release
  /\ Finish(r)
  /\ UNCHANGED <<regVars, reapVars, mpc>>

\* The body has been read: connect to the path, whoever listens there now.
Connect(r) ==
  /\ pc[r] = "body"
  /\ IF sock[user[r]] \in Pids THEN At(r, "stream") ELSE Finish(r)
  /\ UNCHANGED <<procVars, regVars, lockVars, reapVars, mpc>>

\* A chunk of the response passes through; touch() takes no lock.
Chunk(r) ==
  /\ pc[r] = "stream" /\ workers[user[r]] # None
  /\ Touch(user[r])
  /\ UNCHANGED <<procVars, workers, waited, lockVars, reqVars, rpc, todo, victim, mpc>>

StreamEnd(r) ==
  /\ pc[r] = "stream"
  /\ Finish(r)
  /\ UNCHANGED <<procVars, regVars, lockVars, reapVars, mpc>>

\* list_workers(), from /healthz or /admin/status: polls every entry, no lock.
ListWorkers ==
  LET exited == {u \in Users : workers[u] # None /\ u \notin waited
                                 /\ proc[workers[u]].st = "zombie"}
  IN
  /\ mpc = "run" /\ exited # {}
  /\ proc' = [p \in Pids |-> IF \E u \in exited : workers[u] = p THEN NoProc ELSE proc[p]]
  /\ waited' = waited \cup exited
  /\ UNCHANGED <<sock, workers, idle, lockVars, reqVars, reapVars, mpc>>

-------------------------------------------------------------------------------
(* kill_worker, from POST /admin/reload-user/<u>. *)

\* Nothing registered, or only a dead worker to clean up after.
KillDead(r) ==
  LET u == user[r] IN
  /\ pc[r] = "kill" /\ lock = None /\ ~Alive(u)
  /\ IF workers[u] = None THEN UNCHANGED sock ELSE Cleanup(u)
  /\ proc' = AfterPoll(u)
  /\ Deregister(u)
  /\ Finish(r)
  /\ UNCHANGED <<lockVars, rpc, todo, victim, mpc>>

\* Alive: take it out of the registry, SIGTERM, wait in a thread.
KillTerm(r) ==
  LET u == user[r] IN
  /\ pc[r] = "kill" /\ lock = None /\ Alive(u)
  /\ proc' = Signal(proc, workers[u], "term")
  /\ lock' = r /\ cur' = workers[u] /\ curWaited' = FALSE
  /\ Deregister(u)
  /\ At(r, "kterm")
  /\ UNCHANGED <<sock, rpc, todo, victim, mpc>>

\* The thread's Popen.wait() returns; the loop has not heard of it yet.
KillCollect(r) ==
  /\ pc[r] \in {"kterm", "kkill"} /\ ~curWaited
  /\ proc[cur].st = "zombie"
  /\ proc' = Collected(cur)
  /\ curWaited' = TRUE
  /\ UNCHANGED <<sock, regVars, lock, cur, reqVars, reapVars, mpc>>

\* Mutant: the grace period ends and the worker is given up without SIGKILL.
MutantKillForce(r) ==
  /\ pc[r] = "kterm"
  /\ Cleanup(user[r])
  /\ Release
  /\ Finish(r)
  /\ UNCHANGED <<proc, regVars, reapVars, mpc>>

\* The grace period ends first: SIGKILL, wait again.
KillForce(r) ==
  /\ pc[r] = "kterm"
  /\ proc' = Signal(proc, cur, "kill")
  /\ At(r, "kkill")
  /\ UNCHANGED <<sock, regVars, lockVars, reapVars, mpc>>

\* Mutant: the error path of a forced kill returns without releasing the lock.
MutantKillDone(r) ==
  /\ pc[r] = "kterm" /\ curWaited
  /\ Cleanup(user[r])
  /\ Release
  /\ Finish(r)
  /\ UNCHANGED <<proc, regVars, reapVars, mpc>>

KillDone(r) ==
  /\ pc[r] \in {"kterm", "kkill"} /\ curWaited
  /\ Cleanup(user[r])
  /\ Release
  /\ Finish(r)
  /\ UNCHANGED <<proc, regVars, reapVars, mpc>>

-------------------------------------------------------------------------------
(* _reap_idle. *)

\* The loop's sleep ends; `now' is read, then the lock is asked for.
ReaperWake ==
  /\ rpc = "sleep"
  /\ rpc' = "lock" /\ late' = idle
  /\ UNCHANGED <<procVars, regVars, lockVars, reqVars, todo, victim, mpc>>

\* Mutant: a pass that finds nobody idle ends the loop.
MutantReapNone ==
  /\ rpc = "lock" /\ lock = None /\ late = {}
  /\ rpc' = "off"
  /\ UNCHANGED <<procVars, regVars, lockVars, reqVars, late, todo, victim, mpc>>

ReapNone ==
  /\ rpc = "lock" /\ lock = None /\ late = {}
  /\ rpc' = "sleep"
  /\ UNCHANGED <<procVars, regVars, lockVars, reqVars, late, todo, victim, mpc>>

\* Mutant: the socket file goes when SIGTERM is sent, not when the worker is gone.
MutantReapStart ==
  /\ rpc = "lock" /\ lock = None
  /\ \E u \in late :
       /\ victim' = u /\ todo' = late \ {u}
       /\ proc' = Signal(proc, workers[u], "term")
       /\ sock' = [sock EXCEPT ![u] = None]
  /\ lock' = Reaper /\ rpc' = "reap" /\ late' = {}
  /\ UNCHANGED <<regVars, cur, curWaited, reqVars, mpc>>

\* to_reap is computed once, and its first worker gets SIGTERM.
ReapStart ==
  /\ rpc = "lock" /\ lock = None
  /\ \E u \in late :
       /\ victim' = u /\ todo' = late \ {u}
       /\ proc' = Signal(proc, workers[u], "term")
  /\ lock' = Reaper /\ rpc' = "reap" /\ late' = {}
  /\ UNCHANGED <<sock, regVars, cur, curWaited, reqVars, mpc>>

ReapCollect ==
  /\ rpc = "reap" /\ victim \notin waited
  /\ proc[workers[victim]].st = "zombie"
  /\ proc' = Collected(workers[victim])
  /\ waited' = waited \cup {victim}
  /\ UNCHANGED <<sock, workers, idle, lockVars, reqVars, reapVars, mpc>>

\* Clean up after the victim and go on to the next of to_reap, if any, with no
\* second look at its last_activity.
ReapNext(table) ==
  /\ Cleanup(victim)
  /\ Deregister(victim)
  /\ IF todo = {}
     THEN /\ proc' = table
          /\ rpc' = "sleep" /\ victim' = None /\ Release
          /\ UNCHANGED todo
     ELSE \E v \in todo :
            /\ proc' = Signal(table, workers[v], "term")
            /\ victim' = v /\ todo' = todo \ {v}
            /\ UNCHANGED <<rpc, lockVars>>
  /\ UNCHANGED <<reqVars, mpc>>

\* The victim has exited within the grace period ...
ReapExited == rpc = "reap" /\ victim \in waited /\ ReapNext(proc)

\* Mutant: a victim that outlives the grace period is not sent SIGKILL.
MutantReapForce == rpc = "reap" /\ ReapNext(proc)

\* ... or gets a SIGKILL, which nobody waits for.
ReapForce == rpc = "reap" /\ ReapNext(Signal(proc, workers[victim], "kill"))

-------------------------------------------------------------------------------
(* The server's lifespan. *)

\* The server is told to stop and accepts no more requests.
Drain ==
  /\ mpc = "run"
  /\ mpc' = "drain"
  /\ UNCHANGED <<procVars, regVars, lockVars, reqVars, reapVars>>

\* shutdown(): cancel the reaper wherever it is suspended, take the lock and
\* SIGTERM every registered worker.  The server calls it once no request is left.
ShutdownTerm ==
  LET registered == {workers[u] : u \in Users} \ {None} IN
  /\ mpc = "drain" /\ \A r \in Reqs : pc[r] = "idle"
  /\ rpc' = "off" /\ late' = {} /\ todo' = {} /\ victim' = None
  /\ proc' = [p \in Pids |-> IF p \in registered THEN Hit(proc[p], "term") ELSE proc[p]]
  /\ mpc' = IF registered = {} THEN "done" ELSE "term"
  /\ lock' = IF registered = {} THEN None ELSE Main
  /\ UNCHANGED <<sock, regVars, cur, curWaited, reqVars>>

ShutdownCollect(u) ==
  /\ mpc = "term" /\ workers[u] # None /\ u \notin waited
  /\ proc[workers[u]].st = "zombie"
  /\ proc' = Collected(workers[u])
  /\ waited' = waited \cup {u}
  /\ UNCHANGED <<sock, workers, idle, lockVars, reqVars, reapVars, mpc>>

\* Mutant: the shared grace period is over and stragglers are left running.
MutantShutdownKill ==
  /\ mpc = "term"
  /\ proc' = [p \in Pids |-> IF \E u \in Users \ waited : workers[u] = p /\ proc[p].st = "zombie"
                             THEN NoProc ELSE proc[p]]
  /\ sock' = [u \in Users |-> IF workers[u] # None THEN None ELSE sock[u]]
  /\ workers' = [u \in Users |-> None]
  /\ waited' = {} /\ idle' = {}
  /\ lock' = None /\ mpc' = "done"
  /\ UNCHANGED <<cur, curWaited, reqVars, reapVars>>

\* The shared grace period is over: SIGKILL what is still alive, clean up.
ShutdownKill ==
  LET mine == {u \in Users : workers[u] # None}
      polled == {workers[u] : u \in mine \ waited}
  IN
  /\ mpc = "term"
  /\ proc' = [p \in Pids |-> IF p \notin polled THEN proc[p]
                             ELSE IF proc[p].st = "zombie" THEN NoProc
                             ELSE Hit(proc[p], "kill")]
  /\ sock' = [u \in Users |-> IF u \in mine THEN None ELSE sock[u]]
  /\ workers' = [u \in Users |-> None]
  /\ waited' = {} /\ idle' = {}
  /\ lock' = None /\ mpc' = "done"
  /\ UNCHANGED <<cur, curWaited, reqVars, reapVars>>

\* The manager exits or crashes and is started again.  Its workers die with it
\* (bwrap --die-with-parent); the socket files stay.
Restart ==
  /\ proc' = [p \in Pids |-> NoProc]
  /\ sock' = [u \in Users |-> IF sock[u] = None THEN None ELSE Stale]
  /\ workers' = [u \in Users |-> None]
  /\ waited' = {} /\ idle' = {}
  /\ lock' = None /\ cur' = None /\ curWaited' = FALSE
  /\ pc' = [r \in Reqs |-> "idle"]
  /\ user' = [r \in Reqs |-> None]
  /\ rpc' = "sleep" /\ late' = {} /\ todo' = {} /\ victim' = None
  /\ mpc' = "run"

-------------------------------------------------------------------------------

Kernel(p) == WorkerUnlink(p) \/ WorkerListen(p) \/ WorkerExit(p) \/ CollectAbandoned(p)

GetOrSpawn(r) ==
  \/ GetLive(r) \/ GetSpawn(r) \/ GetSpawnFails(r)
  \/ SpawnReady(r) \/ SpawnDied(r) \/ SpawnTimeout(r)

Proxy(r) == Connect(r) \/ Chunk(r) \/ StreamEnd(r)

KillWorker(r) == KillDead(r) \/ KillTerm(r) \/ KillCollect(r) \/ KillForce(r) \/ KillDone(r)

ReapIdle == ReaperWake \/ ReapNone \/ ReapStart \/ ReapCollect \/ ReapExited \/ ReapForce

Shutdown == Drain \/ ShutdownTerm \/ (\E u \in Users : ShutdownCollect(u)) \/ ShutdownKill

Next ==
  \/ \E p \in Pids : Kernel(p)
  \/ \E u \in Users : BecomeIdle(u)
  \/ \E r \in Reqs, u \in Users : Arrive(r, u)
  \/ \E r \in Reqs : GetOrSpawn(r) \/ Proxy(r) \/ KillWorker(r)
  \/ ListWorkers
  \/ ReapIdle
  \/ Shutdown
  \/ Restart

Spec == Init /\ [][Next]_vars

\* asyncio.Lock wakes its waiters in order and every holder has a deadline, so
\* a waiter gets its turn (SF); timers fire, threads return, and the kernel ends
\* a process it has sent SIGKILL (WF).  Nothing makes a worker start, listen,
\* answer or obey SIGTERM.
Fairness ==
  /\ \A r \in Reqs :
       /\ SF_vars(GetLive(r) \/ GetSpawn(r) \/ GetSpawnFails(r))
       /\ WF_vars(SpawnReady(r) \/ SpawnDied(r) \/ SpawnTimeout(r))
       /\ SF_vars(KillDead(r) \/ KillTerm(r))
       /\ WF_vars(KillForce(r)) /\ WF_vars(KillCollect(r)) /\ WF_vars(KillDone(r))
  /\ \A p \in Pids : WF_vars(WorkerExit(p) /\ proc[p].sig = "kill")
  /\ WF_vars(ReaperWake) /\ SF_vars(ReapNone \/ ReapStart) /\ WF_vars(ReapForce)
  /\ WF_vars(ShutdownKill)

FairSpec == Spec /\ Fairness

-------------------------------------------------------------------------------
(* Properties. *)

\* Every running worker that has not been sent SIGKILL can still be found and
\* stopped: it is registered for its user, or the task that holds the lock is
\* spawning or killing it.  No error path of spawn, kill, reap or shutdown drops
\* a worker that goes on running.
NoOrphan ==
  \A p \in Pids : Live(p) /\ proc[p].sig # "kill" =>
    \/ workers[proc[p].user] = p /\ proc[p].user \notin waited
    \/ /\ cur = p /\ ~curWaited /\ lock \in Reqs
       /\ user[lock] = proc[p].user

\* A user never has two workers running over the same knowledge directory, save
\* for one already sent SIGKILL.
OneWorkerPerUser ==
  \A p, q \in Pids :
    (/\ Live(p) /\ proc[p].sig # "kill"
     /\ Live(q) /\ proc[q].sig # "kill"
     /\ proc[p].user = proc[q].user) => p = q

\* Socket files are removed by path, whoever they belong to; still, a registered
\* worker that listens is never cut off from its socket file, and whoever listens
\* on a user's file, where the proxy connects whatever the registry says, is the
\* worker registered for this user, or the one that is being spawned or killed.
SocketsAreOwn ==
  \A u \in Users :
    /\ Alive(u) /\ proc[workers[u]].st = "serving" => sock[u] = workers[u]
    /\ sock[u] \in Pids =>
         /\ proc[sock[u]].st = "serving" /\ proc[sock[u]].user = u
         /\ \/ workers[u] = sock[u] /\ u \notin waited
            \/ lock \in Reqs /\ user[lock] = u /\ cur = sock[u] /\ ~curWaited

\* When shutdown() has returned, no worker runs that has not been sent SIGKILL.
ShutdownLeavesNone ==
  mpc = "done" => \A p \in Pids : ~(Live(p) /\ proc[p].sig # "kill")

\* A touch that comes while the reaper waits for the lock saves the worker from
\* being the first one this pass of the reaper terminates.
FirstVictimIsIdle == [][rpc = "lock" /\ rpc' = "reap" => victim' \in idle]_vars

\* The same for every worker the reaper terminates: what touch() is for, as
\* entrypoint.py says where it calls it.
EvictsOnlyIdle == [][victim' # victim /\ victim' # None => victim' \in idle]_vars

\* A spawn that reports the worker ready has waited for this worker to bind.
ReadyHasBound ==
  [][\A r \in Reqs : pc[r] \in {"get", "spawn"} /\ pc'[r] = "body" /\ ~Alive(user[r])
       => proc'[workers'[user[r]]].st \in {"serving", "zombie"}]_vars

\* No request waits for ever for a worker, whatever the other tasks and the
\* workers do.
RequestsAnswered ==
  \A r \in Reqs : pc[r] \in {"get", "spawn"} ~> pc[r] \notin {"get", "spawn"}

\* A reload of a user's worker always ends.
ReloadsEnd ==
  \A r \in Reqs : pc[r] \in {"kill", "kterm", "kkill"} ~> pc[r] = "idle"

\* A worker that stays idle is eventually taken out of the registry.
IdleIsReaped ==
  \A u \in Users : (u \in idle) ~> (u \notin idle)
===============================================================================
