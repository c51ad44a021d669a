------------------------------- MODULE AuthReload -------------------------------
(***************************************************************************)
(* The table of static tokens and its hot reload (YamlTokenVerifier in       *)
(* mcp_brain/auth.py).  The file auth.yaml is changed by others at any time. *)
(* Two threads load it: a watcher that polls the modification time, and the  *)
(* main thread in its handler of SIGHUP, which may interrupt that thread     *)
(* anywhere, also within another such handler or while it holds the lock.    *)
(* The lock is not reentrant.  A change of the file is known by its time,     *)
(* and two changes within one tick of the clock share it.                    *)
(***************************************************************************)
EXTENDS Integers, Sequences

CONSTANTS
  Contents,   \* what a valid file may hold
  Invalid,    \* a file that is not there or cannot be parsed
  MaxTicks,   \* bound: ticks of the clock between changes of the file
  MaxNested,  \* bound: handlers of SIGHUP that interrupt each other
  None        \* nothing is loaded

\* Assumed by the module that instantiates this one.
BoundsAssumption == MaxTicks \in Nat /\ MaxNested \in Nat
NamesAssumption ==
  Invalid \notin Contents /\ None \notin Contents /\ Invalid # None

VARIABLES
  file,   \* the content of auth.yaml
  mtime,  \* its modification time
  seen,   \* history: what the file has held with that time
  table,  \* the table in memory (_config and _index)
  stamp,  \* the modification time stored with it (_mtime)
  held,   \* the main thread holds the lock to read the table
  hup,    \* loads in progress on the main thread, the innermost last
  watch   \* the watcher

fileVars == <<file, mtime, seen>>
tableVars == <<table, stamp>>
vars == <<fileVars, tableVars, held, hup, watch>>

Times == 0..MaxTicks + 1
Load == [pc: {"stat", "read", "wait", "lock"}, m: Times, c: Contents \cup {None}]
Watch == [pc: {"boot", "sleep", "compare", "stat", "read", "wait"}, m: Times,
          c: Contents \cup {None}]

TypeOK ==
  /\ file \in Contents \cup {Invalid} /\ mtime \in Times \ {0}
  /\ seen \subseteq Contents \cup {Invalid}
  /\ table \in Contents \cup {None} /\ stamp \in Times
  /\ held \in BOOLEAN
  /\ hup \in Seq(Load) /\ Len(hup) <= MaxNested + 1
  /\ watch \in Watch

NewLoad == [pc |-> "stat", m |-> 0, c |-> None]

\* A process that starts: the main thread loads the file, nothing else runs yet.
Started ==
  /\ table' = None /\ stamp' = 0 /\ held' = FALSE
  /\ hup' = <<NewLoad>> /\ watch' = [NewLoad EXCEPT !.pc = "boot"]

Init ==
  /\ file \in Contents \cup {Invalid} /\ mtime = 1 /\ seen = {file}
  /\ table = None /\ stamp = 0 /\ held = FALSE
  /\ hup = <<NewLoad>> /\ watch = [NewLoad EXCEPT !.pc = "boot"]

\* The lock is taken: by the main thread to read, or within a load of its.
Locked == held \/ \E k \in DOMAIN hup : hup[k].pc = "lock"

\* The main thread is where it can answer requests.
Calm == hup = <<>> /\ ~held

\* An editor changes the file, in the same tick of the clock as the last change or
\* later; a change in several writes, the first of which truncates the file to one
\* without tokens, is several of these.
Edit(c) ==
  /\ file' = c
  /\ \/ UNCHANGED mtime /\ seen' = seen \cup {c}
     \/ mtime <= MaxTicks /\ mtime' = mtime + 1 /\ seen' = {c}
  /\ UNCHANGED <<tableVars, held, hup, watch>>

\* verify_token, config and plan_for_user_id hold the lock while they read.
Enter ==
  /\ Calm /\ watch.pc # "boot"
  /\ held' = TRUE
  /\ UNCHANGED <<fileVars, tableVars, hup, watch>>

Leave ==
  /\ held /\ hup = <<>>
  /\ held' = FALSE
  /\ UNCHANGED <<fileVars, tableVars, hup, watch>>

-------------------------------------------------------------------------------
(* Loads on the main thread: only the innermost one proceeds. *)

Signal ==
  /\ watch.pc # "boot" /\ Len(hup) < MaxNested
  /\ hup' = Append(hup, NewLoad)
  /\ UNCHANGED <<fileVars, tableVars, held, watch>>

Top == hup[Len(hup)]
Popped == SubSeq(hup, 1, Len(hup) - 1)

HupStat ==
  /\ hup # <<>> /\ Top.pc = "stat"
  /\ hup' = [hup EXCEPT ![Len(hup)] = [@ EXCEPT !.pc = "read", !.m = mtime]]
  /\ UNCHANGED <<fileVars, tableVars, held, watch>>

\* Mutant: what cannot be loaded is taken for the new content.
MutantHupRead ==
  /\ hup # <<>> /\ Top.pc = "read"
  /\ hup' = [hup EXCEPT ![Len(hup)] = [@ EXCEPT !.pc = "wait", !.c = file]]
  /\ UNCHANGED <<fileVars, tableVars, held, watch>>

\* A file that cannot be loaded leaves everything as it was.
HupRead ==
  /\ hup # <<>> /\ Top.pc = "read"
  /\ hup' = (IF file = Invalid THEN Popped
             ELSE [hup EXCEPT ![Len(hup)] = [@ EXCEPT !.pc = "wait", !.c = file]])
  /\ UNCHANGED <<fileVars, tableVars, held, watch>>

HupLock ==
  /\ hup # <<>> /\ Top.pc = "wait" /\ ~Locked
  /\ hup' = [hup EXCEPT ![Len(hup)].pc = "lock"]
  /\ UNCHANGED <<fileVars, tableVars, held, watch>>

\* Mutant: the time stored is that of the file now, not that of what was read.
MutantInstall(load) == table' = load.c /\ stamp' = mtime

Install(load) == table' = load.c /\ stamp' = load.m

HupInstall ==
  /\ hup # <<>> /\ Top.pc = "lock"
  /\ Install(Top)
  /\ hup' = Popped
  /\ UNCHANGED <<fileVars, held, watch>>

-------------------------------------------------------------------------------
(* The watcher.  It holds the lock for a step only, and nothing interrupts it. *)

\* A start that could not load the file ends before it serves: the server reads the
\* tokens of the table that is not there.
WatchStarts ==
  /\ watch.pc = "boot" /\ hup = <<>> /\ table # None
  /\ watch' = [watch EXCEPT !.pc = "sleep"]
  /\ UNCHANGED <<fileVars, tableVars, held, hup>>

WatchPolls ==
  /\ watch.pc = "sleep"
  /\ watch' = [watch EXCEPT !.pc = "compare", !.m = mtime]
  /\ UNCHANGED <<fileVars, tableVars, held, hup>>

\* Mutant: only an older file is worth a reload.
MutantWatchCompares ==
  /\ watch.pc = "compare" /\ ~Locked
  /\ watch' = [watch EXCEPT !.pc = IF watch.m < stamp THEN "stat" ELSE "sleep"]
  /\ UNCHANGED <<fileVars, tableVars, held, hup>>

WatchCompares ==
  /\ watch.pc = "compare" /\ ~Locked
  /\ watch' = [watch EXCEPT !.pc = IF watch.m # stamp THEN "stat" ELSE "sleep"]
  /\ UNCHANGED <<fileVars, tableVars, held, hup>>

WatchStat ==
  /\ watch.pc = "stat"
  /\ watch' = [watch EXCEPT !.pc = "read", !.m = mtime]
  /\ UNCHANGED <<fileVars, tableVars, held, hup>>

WatchRead ==
  /\ watch.pc = "read"
  /\ watch' = (IF file = Invalid THEN [watch EXCEPT !.pc = "sleep"]
               ELSE [watch EXCEPT !.pc = "wait", !.c = file])
  /\ UNCHANGED <<fileVars, tableVars, held, hup>>

WatchInstalls ==
  /\ watch.pc = "wait" /\ ~Locked
  /\ Install(watch)
  /\ watch' = [watch EXCEPT !.pc = "sleep"]
  /\ UNCHANGED <<fileVars, held, hup>>

-------------------------------------------------------------------------------

Watcher ==
  WatchStarts \/ WatchPolls \/ WatchCompares \/ WatchStat \/ WatchRead \/ WatchInstalls

Main == Leave \/ HupStat \/ HupRead \/ HupLock \/ HupInstall

Restart == Started /\ UNCHANGED fileVars

Next ==
  \/ \E c \in Contents \cup {Invalid} : Edit(c)
  \/ Enter \/ Signal \/ Main \/ Watcher \/ Restart

Spec == Init /\ [][Next]_vars

-------------------------------------------------------------------------------
(* Properties. *)

\* A load that has read the file while it had the time it still has, has read what
\* the file held then.
Honest(load) ==
  /\ load.m <= mtime
  /\ load.pc \in {"wait", "lock"} /\ load.m = mtime => load.c \in seen

\* A table passes for that of the file, by its time, only if the file has held it
\* with that time, even if loads that overlapped have installed an older table last.
\* So if no two changes share a tick, the next poll reloads every other table.
StaleIsNoticed == stamp = mtime => table \in seen

\* A handler of SIGHUP has interrupted the main thread where it holds the lock,
\* and waits for that lock: nothing will ever release it.
Blocked ==
  /\ hup # <<>> /\ Top.pc = "wait" /\ Locked

\* The file has held nothing else with the time it has.
Distinct == seen = {file}

\* The table is that of the file, unless the file cannot be loaded.
UpToDate == file = Invalid \/ table = file
===============================================================================
