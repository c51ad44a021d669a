------------------------------- MODULE Access_proofs -------------------------------
(***************************************************************************)
(* Proofs about Access: its token table (AuthReload), its stores (JsonStore) *)
(* and who is admitted, for any tokens, keys, ticks of the clock, nested      *)
(* signals and events.                                                       *)
(***************************************************************************)
EXTENDS Access, SequenceTheorems, TLAPS

USE DEF Auth!Times

-------------------------------------------------------------------------------
(* The token table. *)

\* Every load in progress knows what it has read by its time, and so does the
\* table; only a load that holds the lock may be below another one.
TableInv ==
  /\ Auth!TypeOK
  /\ \A k \in DOMAIN hup : Auth!Honest(hup[k])
  /\ Auth!Honest(watch)
  /\ Auth!StaleIsNoticed
  /\ stamp <= mtime
  /\ file \in seen

LEMMA TableInit == Auth!Init => TableInv
<1>. SUFFICES ASSUME Auth!Init PROVE TableInv
  OBVIOUS
<1>. USE PartsAssumption DEF Auth!BoundsAssumption, Auth!NamesAssumption
<1>1. hup = <<Auth!NewLoad>> /\ Auth!NewLoad \in Auth!Load /\ watch \in Auth!Watch
  BY DEF Auth!Init, Auth!NewLoad, Auth!Load, Auth!Watch
<1>2. hup \in Seq(Auth!Load) /\ Len(hup) = 1
  BY <1>1
<1>3. Auth!TypeOK
  <2>1. mtime \in Auth!Times \ {0} /\ stamp \in Auth!Times
    BY DEF Auth!Init
  <2>2. /\ file \in Contents \cup {Invalid} /\ seen \subseteq Contents \cup {Invalid}
        /\ table \in Contents \cup {None} /\ held \in BOOLEAN
    BY Zenon DEF Auth!Init
  <2>3. Len(hup) <= MaxNested + 1
    BY <1>2
  <2>. QED  BY <1>1, <1>2, <2>1, <2>2, <2>3, Zenon DEF Auth!TypeOK
<1>4. \A k \in DOMAIN hup : Auth!Honest(hup[k])
  BY <1>1 DEF Auth!Init, Auth!NewLoad, Auth!Honest
<1>5. Auth!Honest(watch) /\ Auth!StaleIsNoticed /\ stamp <= mtime /\ file \in seen
  BY DEF Auth!Init, Auth!NewLoad, Auth!Honest, Auth!StaleIsNoticed
<1>. QED  BY <1>3, <1>4, <1>5 DEF TableInv

LEMMA LastIndex ==
  ASSUME NEW n \in Nat, n >= 1, NEW l, l = IF 1 <= n - 1 THEN (n - 1) - 1 + 1 ELSE 0
  PROVE  l = n - 1
OBVIOUS

\* The innermost load on the main thread, and what is left without it.
LEMMA TopOfHup ==
  ASSUME hup \in Seq(Auth!Load), hup # <<>>
  PROVE  /\ Len(hup) \in Nat /\ Len(hup) >= 1 /\ Len(hup) \in DOMAIN hup
         /\ Auth!Top = hup[Len(hup)] /\ Auth!Top \in Auth!Load
         /\ Auth!Popped \in Seq(Auth!Load) /\ Len(Auth!Popped) = Len(hup) - 1
         /\ \A k \in DOMAIN Auth!Popped : k \in DOMAIN hup /\ Auth!Popped[k] = hup[k]
<1>1. Len(hup) \in Nat /\ Len(hup) >= 1 /\ Len(hup) \in DOMAIN hup
  OBVIOUS
<1>2. Auth!Top = hup[Len(hup)] /\ Auth!Top \in Auth!Load
  BY <1>1 DEF Auth!Top
<1>3. Auth!Popped \in Seq(Auth!Load) /\ Len(Auth!Popped) = Len(hup) - 1
  <2>1. \A i \in 1..(Len(hup) - 1) : hup[i] \in Auth!Load
    OBVIOUS
  <2>2. /\ SubSeq(hup, 1, Len(hup) - 1) \in Seq(Auth!Load)
        /\ Len(SubSeq(hup, 1, Len(hup) - 1))
             = IF 1 <= Len(hup) - 1 THEN (Len(hup) - 1) - 1 + 1 ELSE 0
    BY <1>1, <2>1, SubSeqProperties
  <2>3. Len(SubSeq(hup, 1, Len(hup) - 1)) = Len(hup) - 1
    BY <1>1, <2>2, LastIndex
  <2>. QED  BY <2>2, <2>3, Zenon DEF Auth!Popped
<1>4. ASSUME NEW k \in DOMAIN Auth!Popped
      PROVE  k \in DOMAIN hup /\ Auth!Popped[k] = hup[k]
  <2>1. k \in 1..(Len(hup) - 1)
    BY <1>1, <1>3
  <2>. QED  BY <1>1, <2>1 DEF Auth!Popped
<1>. QED  BY <1>1, <1>2, <1>3, <1>4

LEMMA TopReplaced ==
  ASSUME hup \in Seq(Auth!Load), hup # <<>>, NEW load \in Auth!Load,
         hup' = [hup EXCEPT ![Len(hup)] = load]
  PROVE  /\ hup' \in Seq(Auth!Load) /\ Len(hup') = Len(hup)
         /\ \A k \in DOMAIN hup' : k \in DOMAIN hup /\ hup'[k] \in {hup[k], load}
OBVIOUS

\* A step of the main thread that replaces the innermost load by an honest one.
LEMMA StepOfTop ==
  ASSUME TableInv, hup # <<>>, NEW load \in Auth!Load, Auth!Honest(load),
         hup' = [hup EXCEPT ![Len(hup)] = load],
         UNCHANGED <<file, mtime, seen, table, stamp, held, watch>>
  PROVE  TableInv'
<1>1. /\ hup' \in Seq(Auth!Load) /\ Len(hup') = Len(hup)
      /\ \A k \in DOMAIN hup' : k \in DOMAIN hup /\ hup'[k] \in {hup[k], load}
  BY TopReplaced DEF TableInv, Auth!TypeOK
<1>2. Auth!TypeOK'
  BY <1>1 DEF TableInv, Auth!TypeOK
<1>3. (\A k \in DOMAIN hup : Auth!Honest(hup[k]))'
  BY <1>1 DEF TableInv, Auth!Honest
<1>. QED  BY <1>2, <1>3 DEF TableInv, Auth!Honest, Auth!StaleIsNoticed

LEMMA HupStatInv == TableInv /\ Auth!HupStat => TableInv'
<1>. SUFFICES ASSUME TableInv, Auth!HupStat PROVE TableInv'
  OBVIOUS
<1>. DEFINE load == [Auth!Top EXCEPT !.pc = "read", !.m = mtime]
<1>1. hup \in Seq(Auth!Load) /\ hup # <<>> /\ mtime \in Auth!Times
  BY DEF TableInv, Auth!TypeOK, Auth!HupStat
<1>2. Auth!Top = hup[Len(hup)] /\ Auth!Top \in Auth!Load /\ Len(hup) \in DOMAIN hup
  BY <1>1, TopOfHup
<1>3. load \in Auth!Load /\ load.pc = "read" /\ load.m = mtime
  BY <1>1, <1>2 DEF Auth!Load
<1>4. Auth!Honest(load)
  BY <1>1, <1>3 DEF Auth!Honest
<1>5. hup' = [hup EXCEPT ![Len(hup)] = load]
  BY <1>1, <1>2 DEF Auth!HupStat
<1>6. UNCHANGED <<file, mtime, seen, table, stamp, held, watch>>
  BY DEF Auth!HupStat, Auth!fileVars, Auth!tableVars
<1>. HIDE DEF load
<1>. QED  BY <1>1, <1>3, <1>4, <1>5, <1>6, StepOfTop

\* A load that pops leaves loads that were honest before.
LEMMA PopInv ==
  ASSUME TableInv, hup # <<>>, hup' = Auth!Popped,
         UNCHANGED <<file, mtime, seen, held, watch>>,
         \/ UNCHANGED <<table, stamp>>
         \/ table' \in Contents \cup {None} /\ stamp' \in Auth!Times /\ stamp' <= mtime
              /\ (stamp' = mtime => table' \in seen)
  PROVE  TableInv'
<1>1. /\ hup' \in Seq(Auth!Load) /\ Len(hup') = Len(hup) - 1 /\ Len(hup) \in Nat
      /\ \A k \in DOMAIN hup' : k \in DOMAIN hup /\ hup'[k] = hup[k]
  BY TopOfHup DEF TableInv, Auth!TypeOK
<1>2. Len(hup') <= MaxNested + 1
  BY <1>1, PartsAssumption DEF TableInv, Auth!TypeOK, Auth!BoundsAssumption
<1>3. Auth!TypeOK'
  BY <1>1, <1>2 DEF TableInv, Auth!TypeOK
<1>4. (\A k \in DOMAIN hup : Auth!Honest(hup[k]))'
  BY <1>1 DEF TableInv, Auth!Honest
<1>. QED  BY <1>3, <1>4 DEF TableInv, Auth!Honest, Auth!StaleIsNoticed

LEMMA HupReadInv == TableInv /\ Auth!HupRead => TableInv'
<1>. SUFFICES ASSUME TableInv, Auth!HupRead PROVE TableInv'
  OBVIOUS
<1>. DEFINE load == [Auth!Top EXCEPT !.pc = "wait", !.c = file]
<1>1. hup \in Seq(Auth!Load) /\ hup # <<>> /\ file \in Contents \cup {Invalid}
  BY DEF TableInv, Auth!TypeOK, Auth!HupRead
<1>2. Auth!Top = hup[Len(hup)] /\ Auth!Top \in Auth!Load /\ Len(hup) \in DOMAIN hup
  BY <1>1, TopOfHup
<1>3. UNCHANGED <<file, mtime, seen, table, stamp, held, watch>>
  BY DEF Auth!HupRead, Auth!fileVars, Auth!tableVars
<1>4. CASE file = Invalid
  BY <1>1, <1>3, <1>4, PopInv DEF Auth!HupRead
<1>5. CASE file # Invalid
  <2>1. load \in Auth!Load /\ load.m = Auth!Top.m /\ load.c = file
    BY <1>1, <1>2, <1>5 DEF Auth!Load
  <2>2. Auth!Honest(load)
    BY <1>2, <2>1 DEF Auth!Honest, TableInv
  <2>3. hup' = [hup EXCEPT ![Len(hup)] = load]
    BY <1>1, <1>2, <1>5 DEF Auth!HupRead
  <2>. HIDE DEF load
  <2>. QED  BY <1>1, <1>3, <2>1, <2>2, <2>3, StepOfTop
<1>. QED  BY <1>4, <1>5

LEMMA HupLockInv == TableInv /\ Auth!HupLock => TableInv'
<1>. SUFFICES ASSUME TableInv, Auth!HupLock PROVE TableInv'
  OBVIOUS
<1>. DEFINE load == [Auth!Top EXCEPT !.pc = "lock"]
<1>1. hup \in Seq(Auth!Load) /\ hup # <<>>
  BY DEF TableInv, Auth!TypeOK, Auth!HupLock
<1>2. Auth!Top = hup[Len(hup)] /\ Auth!Top \in Auth!Load /\ Len(hup) \in DOMAIN hup
  BY <1>1, TopOfHup
<1>3. load \in Auth!Load /\ load.m = Auth!Top.m /\ load.c = Auth!Top.c
  BY <1>1, <1>2 DEF Auth!Load
<1>4. Auth!Honest(load)
  BY <1>2, <1>3 DEF Auth!Honest, TableInv, Auth!HupLock
<1>5. hup' = [hup EXCEPT ![Len(hup)] = load]
  BY <1>1, <1>2 DEF Auth!HupLock
<1>6. UNCHANGED <<file, mtime, seen, table, stamp, held, watch>>
  BY DEF Auth!HupLock, Auth!fileVars, Auth!tableVars
<1>. HIDE DEF load
<1>. QED  BY <1>1, <1>3, <1>4, <1>5, <1>6, StepOfTop

LEMMA HupInstallInv == TableInv /\ Auth!HupInstall => TableInv'
<1>. SUFFICES ASSUME TableInv, Auth!HupInstall PROVE TableInv'
  OBVIOUS
<1>1. hup \in Seq(Auth!Load) /\ hup # <<>>
  BY DEF TableInv, Auth!TypeOK, Auth!HupInstall
<1>2. Auth!Top = hup[Len(hup)] /\ Auth!Top \in Auth!Load /\ Len(hup) \in DOMAIN hup
  BY <1>1, TopOfHup
<1>3. Auth!Honest(Auth!Top) /\ Auth!Top.pc = "lock"
  BY <1>2 DEF TableInv, Auth!HupInstall
<1>4. /\ table' \in Contents \cup {None} /\ stamp' \in Auth!Times /\ stamp' <= mtime
      /\ stamp' = mtime => table' \in seen
  BY <1>2, <1>3 DEF Auth!HupInstall, Auth!Install, Auth!Load, Auth!Honest
<1>5. hup' = Auth!Popped /\ UNCHANGED <<file, mtime, seen, held, watch>>
  BY DEF Auth!HupInstall, Auth!fileVars
<1>. QED  BY <1>1, <1>4, <1>5, PopInv

\* A step that leaves the file and the loads on the main thread alone.
LEMMA WatcherInv == TableInv /\ Auth!Watcher => TableInv'
<1>. SUFFICES ASSUME TableInv, Auth!Watcher PROVE TableInv'
  OBVIOUS
<1>1. UNCHANGED <<file, mtime, seen, held, hup>>
  BY DEF Auth!Watcher, Auth!WatchStarts, Auth!WatchPolls, Auth!WatchCompares, Auth!WatchStat,
         Auth!WatchRead, Auth!WatchInstalls, Auth!fileVars, Auth!tableVars
<1>2. /\ watch \in Auth!Watch /\ mtime \in Auth!Times /\ stamp \in Auth!Times
      /\ file \in Contents \cup {Invalid} /\ table \in Contents \cup {None}
      /\ stamp <= mtime /\ watch.m <= mtime /\ Auth!Honest(watch)
      /\ stamp = mtime => table \in seen
      /\ file \in seen
  BY DEF TableInv, Auth!TypeOK, Auth!Honest, Auth!StaleIsNoticed
<1>3. watch' \in Auth!Watch /\ Auth!Honest(watch)'
  <2>1. CASE Auth!WatchStarts \/ Auth!WatchCompares \/ Auth!WatchInstalls
    BY <1>1, <1>2, <2>1
    DEF Auth!WatchStarts, Auth!WatchCompares, Auth!WatchInstalls, Auth!Watch, Auth!Honest
  <2>2. CASE Auth!WatchPolls \/ Auth!WatchStat
    <3>1. /\ watch' = [watch EXCEPT !.pc = "compare", !.m = mtime]
             \/ watch' = [watch EXCEPT !.pc = "read", !.m = mtime]
          /\ mtime' = mtime /\ file' = file /\ seen' = seen
      BY <1>1, <2>2 DEF Auth!WatchPolls, Auth!WatchStat
    <3>2. watch' \in Auth!Watch /\ watch'.pc \in {"compare", "read"} /\ watch'.m = mtime
      BY <1>2, <3>1 DEF Auth!Watch
    <3>. QED  BY <1>2, <3>1, <3>2 DEF Auth!Honest
  <2>3. CASE Auth!WatchRead
    BY <1>1, <1>2, <2>3 DEF Auth!WatchRead, Auth!Watch, Auth!Honest
  <2>. QED  BY <2>1, <2>2, <2>3 DEF Auth!Watcher
<1>4. /\ table' \in Contents \cup {None} /\ stamp' \in Auth!Times /\ stamp' <= mtime'
      /\ stamp' = mtime' => table' \in seen'
  <2>1. CASE Auth!WatchInstalls
    BY <1>1, <1>2, <2>1 DEF Auth!WatchInstalls, Auth!Install, Auth!Watch, Auth!Honest
  <2>2. CASE ~Auth!WatchInstalls
    BY <1>1, <1>2, <2>2
    DEF Auth!Watcher, Auth!WatchStarts, Auth!WatchPolls, Auth!WatchCompares, Auth!WatchStat,
        Auth!WatchRead, Auth!tableVars
  <2>. QED  BY <2>1, <2>2
<1>5. Auth!TypeOK'
  BY <1>1, <1>3, <1>4 DEF TableInv, Auth!TypeOK
<1>6. (\A k \in DOMAIN hup : Auth!Honest(hup[k]))'
  BY <1>1 DEF TableInv, Auth!Honest
<1>7. (file \in seen)'
  BY <1>1, <1>2
<1>8. Auth!StaleIsNoticed'
  BY <1>4 DEF Auth!StaleIsNoticed
<1>. QED  BY <1>3, <1>4, <1>5, <1>6, <1>7, <1>8 DEF TableInv

LEMMA EditInv ==
  ASSUME TableInv, NEW c \in Contents \cup {Invalid}, Auth!Edit(c)
  PROVE  TableInv'
<1>1. /\ file' = c /\ UNCHANGED <<table, stamp, held, hup, watch>>
      /\ mtime \in Auth!Times /\ mtime >= 1 /\ MaxTicks \in Nat
      /\ \/ mtime' = mtime /\ seen' = seen \cup {c}
         \/ mtime <= MaxTicks /\ mtime' = mtime + 1 /\ seen' = {c}
  BY PartsAssumption
  DEF TableInv, Auth!Edit, Auth!TypeOK, Auth!BoundsAssumption, Auth!tableVars
<1>2. Auth!TypeOK'
  <2>1. mtime' \in Auth!Times \ {0}
    BY <1>1
  <2>2. seen' \subseteq Contents \cup {Invalid}
    BY <1>1 DEF TableInv, Auth!TypeOK
  <2>. QED  BY <1>1, <2>1, <2>2 DEF TableInv, Auth!TypeOK
<1>3. ASSUME NEW load, load.m \in Auth!Times, Auth!Honest(load)
      PROVE  Auth!Honest(load)'
  BY <1>1, <1>3 DEF Auth!Honest
<1>4. (\A k \in DOMAIN hup : Auth!Honest(hup[k]))'
  <2>1. ASSUME NEW k \in DOMAIN hup PROVE hup[k].m \in Auth!Times /\ Auth!Honest(hup[k])
    <3>1. hup[k] \in Auth!Load
      BY DEF TableInv, Auth!TypeOK
    <3>2. hup[k].m \in Auth!Times
      BY <3>1 DEF Auth!Load
    <3>. QED  BY <3>2 DEF TableInv
  <2>2. \A k \in DOMAIN hup : Auth!Honest(hup[k])'
    BY <1>1, <2>1, <1>3 DEF Auth!Honest
  <2>. QED  BY <1>1, <2>2 DEF Auth!Honest
<1>5. Auth!Honest(watch)'
  <2>1. watch.m \in Auth!Times /\ Auth!Honest(watch)
    BY DEF TableInv, Auth!TypeOK, Auth!Watch
  <2>. QED  BY <1>1, <2>1 DEF Auth!Honest
<1>6. (Auth!StaleIsNoticed /\ stamp <= mtime /\ file \in seen)'
  BY <1>1 DEF TableInv, Auth!TypeOK, Auth!StaleIsNoticed
<1>. QED  BY <1>2, <1>4, <1>5, <1>6 DEF TableInv

LEMMA SignalInv == TableInv /\ Auth!Signal => TableInv'
<1>. SUFFICES ASSUME TableInv, Auth!Signal PROVE TableInv'
  OBVIOUS
<1>1. Auth!NewLoad \in Auth!Load /\ hup \in Seq(Auth!Load) /\ mtime \in Auth!Times
  BY PartsAssumption
  DEF TableInv, Auth!TypeOK, Auth!NewLoad, Auth!Load, Auth!BoundsAssumption
<1>2. /\ hup' = Append(hup, Auth!NewLoad) /\ Len(hup) < MaxNested
      /\ UNCHANGED <<file, mtime, seen, table, stamp, held, watch>>
  BY DEF Auth!Signal, Auth!fileVars, Auth!tableVars
<1>3. /\ hup' \in Seq(Auth!Load) /\ Len(hup') = Len(hup) + 1
      /\ \A k \in DOMAIN hup' : (k \in DOMAIN hup /\ hup'[k] = hup[k]) \/ hup'[k] = Auth!NewLoad
  BY <1>1, <1>2
<1>4. Len(hup') <= MaxNested + 1
  BY <1>1, <1>2, <1>3, PartsAssumption DEF Auth!BoundsAssumption
<1>5. Auth!TypeOK'
  BY <1>2, <1>3, <1>4 DEF TableInv, Auth!TypeOK
<1>6. Auth!NewLoad.m = 0 /\ Auth!NewLoad.pc = "stat"
  BY DEF Auth!NewLoad
<1>7. (\A k \in DOMAIN hup : Auth!Honest(hup[k]))'
  BY <1>1, <1>2, <1>3, <1>6 DEF TableInv, Auth!Honest
<1>. QED  BY <1>2, <1>5, <1>7 DEF TableInv, Auth!Honest, Auth!StaleIsNoticed

LEMMA ReadInv == TableInv /\ (Auth!Enter \/ Auth!Leave) => TableInv'
BY DEF TableInv, Auth!Enter, Auth!Leave, Auth!TypeOK, Auth!Honest, Auth!StaleIsNoticed,
       Auth!fileVars, Auth!tableVars

LEMMA TableRestart == TableInv /\ Auth!Restart => TableInv'
<1>. SUFFICES ASSUME TableInv, Auth!Restart PROVE TableInv'
  OBVIOUS
<1>. DEFINE boot == [Auth!NewLoad EXCEPT !.pc = "boot"]
<1>1. /\ table' = None /\ stamp' = 0 /\ held' = FALSE /\ file' = file /\ mtime' = mtime
      /\ seen' = seen /\ hup' = <<Auth!NewLoad>> /\ watch' = boot
  BY DEF Auth!Restart, Auth!Started, Auth!fileVars
<1>2. Auth!NewLoad \in Auth!Load /\ Auth!NewLoad.m = 0 /\ Auth!NewLoad.pc = "stat"
  BY PartsAssumption DEF Auth!NewLoad, Auth!Load, Auth!BoundsAssumption
<1>3. boot \in Auth!Watch /\ boot.m = 0 /\ boot.pc = "boot"
  BY PartsAssumption DEF Auth!NewLoad, Auth!Watch, Auth!BoundsAssumption
<1>. HIDE DEF boot
<1>4. hup' \in Seq(Auth!Load) /\ Len(hup') = 1 /\ \A k \in DOMAIN hup' : hup'[k] = Auth!NewLoad
  BY <1>1, <1>2
<1>5. /\ mtime \in Auth!Times /\ mtime # 0 /\ mtime >= 1 /\ 0 \in Auth!Times
      /\ Len(hup') <= MaxNested + 1
  BY <1>4, PartsAssumption DEF TableInv, Auth!TypeOK, Auth!BoundsAssumption
<1>6. Auth!TypeOK'
  BY <1>1, <1>3, <1>4, <1>5 DEF TableInv, Auth!TypeOK
<1>7. (\A k \in DOMAIN hup : Auth!Honest(hup[k]))'
  BY <1>1, <1>2, <1>4, <1>5 DEF Auth!Honest
<1>8. (Auth!Honest(watch) /\ Auth!StaleIsNoticed /\ stamp <= mtime /\ file \in seen)'
  BY <1>1, <1>3, <1>5 DEF TableInv, Auth!Honest, Auth!StaleIsNoticed
<1>. QED  BY <1>6, <1>7, <1>8 DEF TableInv

-------------------------------------------------------------------------------
(* The stores. *)

\* Memory and the files hold what was asked for.
StoreInv ==
  /\ Store!TypeOK
  /\ Store!MemoryIsAsked
  /\ \A n \in Store!Names : disk[n] \in told[n]

LEMMA KeyNames ==
  /\ \A k \in Keys : Store!KeyOf(k) \in Store!Names /\ Store!CallsOf(k) \in Store!Names
  /\ \A g \in Integrations : Store!CredsOf(g) \in Store!Names
BY DEF Store!KeyOf, Store!CallsOf, Store!CredsOf, Store!Names

LEMMA EmptyIsLegal == \A n \in Store!Names : Store!Empty[n] \in Store!Values[n]
BY PartsAssumption
DEF Store!Names, Store!Empty, Store!Values, Store!KeyOf, Store!CallsOf, Store!CredsOf,
    Store!StoreAssumption

LEMMA StoreInit == Store!Init => StoreInv
<1>1. DOMAIN Store!Empty = Store!Names
  BY DEF Store!Empty
<1>. QED  BY <1>1, EmptyIsLegal DEF Store!Init, StoreInv, Store!TypeOK, Store!MemoryIsAsked

\* Every change puts a legal value under a name of a store.
LEMMA ChangePuts ==
  ASSUME StoreInv, Store!Change
  PROVE  \E n \in Store!Names : \E v \in Store!Values[n] : Store!Put(n, v)
<1>. USE PartsAssumption, KeyNames DEF Store!StoreAssumption
<1>1. \A k \in Keys : /\ Store!Values[Store!KeyOf(k)] = {None, "active", "revoked"}
                      /\ Store!Values[Store!CallsOf(k)] = 0..MaxCalls
  BY DEF Store!Values, Store!KeyOf, Store!CallsOf
<1>2. \A g \in Integrations : Store!Values[Store!CredsOf(g)] = Creds \cup {None}
  BY DEF Store!Values, Store!CredsOf
<1>3. ASSUME NEW k \in Keys, Store!Generate(k) \/ Store!Revoke(k)
      PROVE  \E n \in Store!Names : \E v \in Store!Values[n] : Store!Put(n, v)
  BY <1>1, <1>3 DEF Store!Generate, Store!Revoke
<1>4. ASSUME NEW k \in Keys, Store!Record(k)
      PROVE  \E n \in Store!Names : \E v \in Store!Values[n] : Store!Put(n, v)
  <2>1. mem[Store!CallsOf(k)] \in 0..MaxCalls
    BY <1>1 DEF StoreInv, Store!TypeOK
  <2>2. mem[Store!CallsOf(k)] + 1 \in Store!Values[Store!CallsOf(k)]
    BY <1>1, <1>4, <2>1 DEF Store!Record
  <2>. QED  BY <1>4, <2>2 DEF Store!Record
<1>5. ASSUME NEW g \in Integrations, Store!Remove(g) \/ \E c \in Creds : Store!Configure(g, c)
      PROVE  \E n \in Store!Names : \E v \in Store!Values[n] : Store!Put(n, v)
  BY <1>2, <1>5 DEF Store!Remove, Store!Configure
<1>. QED  BY <1>3, <1>4, <1>5 DEF Store!Change

\* A put that is saved is a change done, one that is not is a change failed.
LEMMA PutStep ==
  ASSUME StoreInv, NEW n \in Store!Names, NEW v \in Store!Values[n], Store!Put(n, v)
  PROVE  StoreInv' /\ (Store!Table!Done(n, v) \/ Store!Table!Failed(n, v))
<1>1. /\ DOMAIN mem = Store!Names /\ DOMAIN disk = Store!Names /\ DOMAIN told = Store!Names
      /\ \A m \in Store!Names :
           /\ mem[m] \in Store!Values[m] /\ disk[m] \in Store!Values[m]
           /\ told[m] \subseteq Store!Values[m]
           /\ mem[m] \in told[m] /\ disk[m] \in told[m]
  BY DEF StoreInv, Store!TypeOK, Store!MemoryIsAsked
<1>2. DOMAIN mem' = Store!Names /\ mem'[n] = v /\ \A m \in Store!Names \ {n} : mem'[m] = mem[m]
  BY <1>1 DEF Store!Put
<1>3. CASE Store!Saved(n, v)
  <2>1. /\ DOMAIN told' = Store!Names /\ told'[n] = {v}
        /\ \A m \in Store!Names \ {n} : told'[m] = told[m]
        /\ DOMAIN disk' = Store!Names
        /\ \A m \in Store!Names : disk'[m] \in {mem'[m], disk[m]}
        /\ disk'[n] = v
    BY <1>1, <1>2, <1>3 DEF Store!Saved
  <2>2. StoreInv'
    BY <1>1, <1>2, <2>1 DEF StoreInv, Store!TypeOK, Store!MemoryIsAsked
  <2>3. Store!Table!Done(n, v)
    BY <1>1, <1>2, <1>3, <2>1 DEF Store!Table!Done, Store!Saved
  <2>. QED  BY <2>2, <2>3
<1>4. CASE Store!SaveRaises(n, v)
  <2>1. /\ DOMAIN told' = Store!Names /\ told'[n] = told[n] \cup {v}
        /\ \A m \in Store!Names \ {n} : told'[m] = told[m]
        /\ disk' = disk
    BY <1>1, <1>4 DEF Store!SaveRaises
  <2>2. StoreInv'
    BY <1>1, <1>2, <2>1 DEF StoreInv, Store!TypeOK, Store!MemoryIsAsked
  <2>3. Store!Table!Failed(n, v)
    BY <1>4 DEF Store!Table!Failed, Store!SaveRaises
  <2>. QED  BY <2>2, <2>3
<1>. QED  BY <1>3, <1>4 DEF Store!Put

LEMMA StoreStep ==
  ASSUME StoreInv, Store!Change
  PROVE  StoreInv' /\ Store!Table!Next
BY ChangePuts, PutStep DEF Store!Table!Next

LEMMA StoreRestart == StoreInv /\ Store!Restart => StoreInv' /\ UNCHANGED <<disk, told>>
BY DEF StoreInv, Store!Restart, Store!TypeOK, Store!MemoryIsAsked

-------------------------------------------------------------------------------
(* The process and the proxy. *)

\* The keys the proxy has loaded are what was answered when it started.
ProxyInv ==
  /\ loaded \in [Keys -> KeyStates] /\ known \in [Keys -> SUBSET KeyStates]
  /\ \A k \in Keys : loaded[k] \in known[k]

IInv == TableInv /\ StoreInv /\ ProxyInv /\ events \in 0..MaxEvents

LEMMA IInvInit == Init => IInv
<1>1. Init => ProxyInv
  BY DEF Init, ProxyInv, KeyStates
<1>. QED  BY <1>1, TableInit, StoreInit, EventsAssumption DEF Init, IInv

LEMMA TableKept == TableInv /\ UNCHANGED authVars => TableInv'
BY DEF TableInv, authVars, Auth!TypeOK, Auth!Honest, Auth!StaleIsNoticed

LEMMA StoreKept == StoreInv /\ UNCHANGED storeVars => StoreInv'
BY DEF StoreInv, storeVars, Store!TypeOK, Store!MemoryIsAsked

LEMMA ProxyKept == ProxyInv /\ UNCHANGED proxyVars => ProxyInv'
BY DEF ProxyInv, proxyVars

LEMMA Counting ==
  ASSUME events \in 0..MaxEvents, Counted
  PROVE  events' \in 0..MaxEvents
BY EventsAssumption DEF Counted

LEMMA MainInv == TableInv /\ Auth!Main => TableInv'
BY HupStatInv, HupReadInv, HupLockInv, HupInstallInv, ReadInv DEF Auth!Main

LEMMA ProxyLoads ==
  ASSUME StoreInv, ProxyStarts
  PROVE  ProxyInv'
<1>1. \A k \in Keys : Store!Values[Store!KeyOf(k)] = KeyStates
  BY KeyNames DEF Store!Values, Store!KeyOf, KeyStates
<1>2. ASSUME NEW k \in Keys
      PROVE  /\ disk[Store!KeyOf(k)] \in KeyStates /\ told[Store!KeyOf(k)] \subseteq KeyStates
             /\ disk[Store!KeyOf(k)] \in told[Store!KeyOf(k)]
  BY <1>1, KeyNames DEF StoreInv, Store!TypeOK
<1>. QED  BY <1>2 DEF ProxyStarts, ProxyInv

LEMMA IInvNext == IInv /\ [Next]_vars => IInv'
<1>. SUFFICES ASSUME IInv, [Next]_vars PROVE IInv'
  OBVIOUS
<1>. USE DEF IInv
<1>1. CASE Serve
  <2>1. StoreInv'
    BY <1>1, StoreStep DEF Serve
  <2>. QED  BY <1>1, <2>1, TableKept, ProxyKept, Counting DEF Serve
<1>2. CASE Edit
  BY <1>2, EditInv, StoreKept, ProxyKept, Counting DEF Edit
<1>3. CASE Signal
  BY <1>3, SignalInv, StoreKept, ProxyKept, Counting DEF Signal
<1>4. CASE Read
  BY <1>4, ReadInv, StoreKept, ProxyKept DEF Read
<1>5. CASE Main
  BY <1>5, MainInv, StoreKept, ProxyKept DEF Main
<1>6. CASE Watcher
  BY <1>6, WatcherInv, StoreKept, ProxyKept DEF Watcher
<1>7. CASE Restart
  BY <1>7, TableRestart, StoreRestart, ProxyKept, Counting DEF Restart
<1>8. CASE ProxyStarts
  <2>1. ProxyInv'
    BY <1>8, ProxyLoads
  <2>. QED  BY <1>8, <2>1, TableKept, StoreKept, Counting DEF ProxyStarts
<1>9. CASE UNCHANGED vars
  BY <1>9, TableKept, StoreKept, ProxyKept DEF vars
<1>. QED  BY <1>1, <1>2, <1>3, <1>4, <1>5, <1>6, <1>7, <1>8, <1>9 DEF Next

LEMMA IInvAlways == Spec => []IInv
BY IInvInit, IInvNext, PTL DEF Spec

\* What is in memory, in the files and in each load in progress stays of its type.
THEOREM TypeCorrect == Spec => []TypeOK
<1>1. IInv => TypeOK
  BY DEF IInv, TableInv, StoreInv, ProxyInv, TypeOK
<1>. QED  BY <1>1, IInvAlways, PTL

\* However loads of the watcher and of nested signal handlers overlap with changes
\* of the file, within a tick of the clock or not, a table that the file has not
\* held with its present time has another time stored.
THEOREM StaleNoticed == Spec => []StaleIsNoticed
<1>1. IInv => StaleIsNoticed
  BY DEF IInv, TableInv, StaleIsNoticed
<1>. QED  BY <1>1, IInvAlways, PTL

\* A request is admitted, by either way in, and gets its user, now or later, as the
\* answers to earlier changes of the keys and the file with its present time say;
\* the proxy routes keys as the answers before its start say.
THEOREM AdmissionIsAnswered == Spec => []AdmitsAsAnswered
<1>1. ASSUME IInv PROVE KeysAsAnswered
  <2>1. ASSUME NEW k \in Keys, told[Store!KeyOf(k)] = {"active"}
        PROVE  Admitted(k) /\ UserOf(k) = Owner[k]
    <3>1. mem[Store!KeyOf(k)] = "active"
      BY <1>1, <2>1, KeyNames DEF IInv, StoreInv, Store!MemoryIsAsked
    <3>. QED  BY <3>1, OwnerAssumption DEF Admitted, UserOf
  <2>2. ASSUME NEW k \in Keys, "active" \notin told[Store!KeyOf(k)]
        PROVE  ~Admitted(k) /\ UserOf(k) = None
    <3>1. mem[Store!KeyOf(k)] # "active"
      BY <1>1, <2>2, KeyNames DEF IInv, StoreInv, Store!MemoryIsAsked
    <3>. QED  BY <3>1, OwnerAssumption DEF Admitted, UserOf
  <2>. QED  BY <2>1, <2>2 DEF KeysAsAnswered
<1>2. ASSUME IInv PROVE ProxyAsAnswered
  BY <1>2, PartsAssumption
  DEF IInv, ProxyInv, KeyStates, ProxyAsAnswered, Routed, Store!StoreAssumption
<1>3. ASSUME IInv PROVE TokensAsFiled
  <2>1. SUFFICES ASSUME stamp = mtime
        PROVE  /\ table \in seen
               /\ \A t \in Tokens :
                    /\ Admitted(t) <=> Listed(table, t)
                    /\ UserOf(t) = UserIn(table, t) /\ Routed(t, TRUE) = UserIn(table, t)
    BY DEF TokensAsFiled
  <2>2. table \in seen
    BY <1>3, <2>1 DEF IInv, TableInv, Auth!StaleIsNoticed
  <2>. QED  BY <2>2 DEF Admitted, UserOf, Routed
<1>4. IInv => AdmitsAsAnswered
  BY <1>1, <1>2, <1>3 DEF AdmitsAsAnswered
<1>. QED  BY <1>4, IInvAlways, PTL

\* The stores, with their failing saves and the restarts of the process, implement
\* the abstract table: what was answered as done is what a restart brings back.
THEOREM StoresAreDurable == Spec => TableSpec
<1>1. Init => Store!Table!Init
  BY DEF Init, Store!Init, Store!Table!Init, Store!Empty
<1>2. IInv /\ [Next]_vars => [Store!Table!Next]_<<disk, told>>
  <2>. SUFFICES ASSUME IInv, [Next]_vars PROVE [Store!Table!Next]_<<disk, told>>
    OBVIOUS
  <2>1. CASE Serve
    BY <2>1, StoreStep DEF IInv, Serve
  <2>2. CASE Restart
    BY <2>2, StoreRestart DEF IInv, Restart
  <2>3. CASE ~Serve /\ ~Restart
    BY <2>3 DEF Next, Edit, Signal, Read, Main, Watcher, ProxyStarts, vars, storeVars
  <2>. QED  BY <2>1, <2>2, <2>3
<1>. QED  BY <1>1, <1>2, IInvAlways, PTL DEF Spec, TableSpec, Store!TableSpec, Store!Table!Spec

\* A key, a counter or credentials that memory shows, or a restart brings back, are
\* among the values the answers leave possible: nothing appears that no call asked
\* for, and nothing answered as done is undone by a later failing save.
THEOREM NothingUnasked ==
  Spec => [](Store!MemoryIsAsked /\ Store!Table!KeptIsAnswered)
<1>1. IInv => Store!MemoryIsAsked /\ Store!Table!KeptIsAnswered
  BY DEF IInv, StoreInv, Store!Table!KeptIsAnswered
<1>. QED  BY <1>1, IInvAlways, PTL
===============================================================================
