---------------------------- MODULE ManagerProof ----------------------------
(***************************************************************************)
(* Theorems about Manager, for any number of workers, on a pool or on the  *)
(* owner's thread, and of calls of wait and close.                         *)
(***************************************************************************)
EXTENDS Manager, TLAPS, FiniteSetTheorems

MainPlaces == {"init", "failing", "opened", "loop", "push", "serve", "count", "ran", "wait", "test",
               "sleep", "asleep", "woken", "join", "stopped", "waited", "thrown", "gone"}

WorkerPlaces == {"none", "check", "poll", "polling", "work", "broken", "failed", "exit",
                 "notify", "done"}

CloserPlaces == {"store", "kill", "log", "leave", "returned"}

PlacesOK ==
  /\ pc[Main] \in MainPlaces
  /\ \A w \in Workers : pc[w] \in WorkerPlaces
  /\ \A c \in Closers : pc[c] \in CloserPlaces

(* The Log's mutex is had only at a LOG of a level that is logged. *)
LogOK ==
  logMu # NoOne => pc[logMu] \in DOMAIN AfterLog /\ LevelOf[pc[logMu]] >= minLevel

(* run has started a worker that it has not counted. *)
Uncounted == pc[Main] \in {"push", "serve", "count"}

SpawnOK ==
  \A w \in Workers : pc[w] # "none" <=> w <= (IF Uncounted THEN started + 1 ELSE started)

RunReturned == pc[Main] \in InWait \cup {"ran", "join", "stopped", "waited"}

(* run: how far the loop is, and what threads_ holds. *)
RunOK ==
  /\ pc[Main] \in {"init", "opened"} => started = 0 /\ pool = 0 /\ ~useThis
  /\ pc[Main] = "loop" => pool = IF started < PoolSize THEN started ELSE PoolSize
  /\ pc[Main] = "push" => started < PoolSize /\ pool = started
  /\ pc[Main] = "serve" => useThis /\ started = MaxWorkers - 1 /\ pool = PoolSize
  /\ pc[Main] = "count" =>
       /\ started < MaxWorkers
       /\ pool = IF started < PoolSize THEN started + 1 ELSE PoolSize
  /\ RunReturned => started = MaxWorkers /\ pool = PoolSize
  /\ pool <= PoolSize

(* The worker on the owner's thread has ended when it is counted. *)
ServeOK ==
  /\ useThis /\ started = MaxWorkers => pc[MaxWorkers] = "done"
  /\ useThis /\ started = MaxWorkers - 1 /\ pc[Main] = "count" => pc[MaxWorkers] = "done"

(* numWorkers_ is what run counted less what serverDone did. *)
CountOK == numWorkers = started - Cardinality(Decremented)

(* wait: what it has joined, and when. *)
JoinOK ==
  /\ pc[Main] \in InWait => nextJoin = 1
  /\ ~RunReturned /\ pc[Main] \notin {"thrown", "gone"} => joined = {}
  /\ joined # 1..pool => joined = IF pc[Main] = "join" THEN 1..nextJoin - 1 ELSE {}
  /\ pc[Main] \in {"stopped", "waited"} => joined = 1..pool
  /\ \A k \in joined : pc[k] = "done"
  /\ pc[Main] = "join" \/ joined # {} => Decremented = Workers

(* The end of the Manager. *)
EndOK ==
  /\ ~listening => pc[Main] \in {"init", "failing", "thrown", "gone"}
  /\ pc[Main] \in {"init", "failing", "thrown", "gone"} =>
       \A w \in Workers : pc[w] \in {"none", "done"}

(* close has yet to signal. *)
Killing(c) == pc[c] \in {"store", "kill"}

(* close: while it runs on a thread that keeps wait, nothing is joined. *)
KillOK ==
  \A c \in Closers :
    Killing(c) /\ ~late[c] /\ HostOf[c] # Other =>
      /\ joined = {}
      /\ HostOf[c] \in {Main} \cup (1..pool \ Decremented)

IInv ==
  /\ TypeOK /\ PlacesOK /\ LogOK /\ SpawnOK /\ RunOK /\ ServeOK /\ CountOK
  /\ JoinOK /\ EndOK /\ KillOK
-----------------------------------------------------------------------------
(* Threads and places *)

LEMMA Names ==
  /\ Main \in Procs \ (Workers \cup Closers)
  /\ Workers \subseteq Procs \ Closers /\ Closers \subseteq Procs /\ NoOne \notin Procs
  /\ MaxWorkers \in Workers /\ MaxWorkers \in Nat \ {0} /\ Workers \subseteq Nat
  /\ HostOf \in [Closers -> Workers \cup {Main, Other}] /\ Main # Other
BY NamesAssumption, MaxWorkersAssumption, HostsAssumption DEF Procs, Workers

LEMMA Places ==
  /\ MainPlaces \subseteq PC /\ WorkerPlaces \subseteq PC /\ CloserPlaces \subseteq PC
  /\ DOMAIN AfterLog
       = {"failing", "wait", "woken", "stopped", "work", "broken", "failed", "log"}
BY DEF MainPlaces, WorkerPlaces, CloserPlaces, PC, AfterLog

LEMMA JoinedWorkers == IInv => joined \subseteq Workers
BY Names DEF IInv, TypeOK, Workers

LEMMA Grows ==
  ASSUME NEW m \in Nat, NEW n \in Nat, m <= n
  PROVE  0..m \subseteq 0..n /\ 1..m + 1 \subseteq 1..n + 1
OBVIOUS

(* One process moves to another place of its own code. *)
LEMMA MainGoto ==
  ASSUME IInv, NEW l \in MainPlaces, Goto(Main, l)
  PROVE  /\ pc' \in [Procs -> PC] /\ PlacesOK'
         /\ pc'[Main] = l /\ \A p \in Procs \ {Main} : pc'[p] = pc[p]
         /\ Decremented' = Decremented /\ \A k \in joined : pc'[k] = pc[k]
<1>1. /\ pc' \in [Procs -> PC]
      /\ pc'[Main] = l /\ \A p \in Procs \ {Main} : pc'[p] = pc[p]
  BY Names, Places DEF Goto, IInv, TypeOK
<1>2. \A w \in Workers : pc'[w] = pc[w]
  BY <1>1, Names
<1>3. \A k \in joined : pc'[k] = pc[k]
  BY <1>2, JoinedWorkers
<1> QED
  BY <1>1, <1>2, <1>3, Names DEF Decremented, PlacesOK, IInv

LEMMA WorkerGoto ==
  ASSUME IInv, NEW w \in Workers, NEW l \in WorkerPlaces, Goto(w, l)
  PROVE  /\ pc' \in [Procs -> PC] /\ PlacesOK'
         /\ pc'[w] = l /\ \A p \in Procs \ {w} : pc'[p] = pc[p]
         /\ pc'[Main] = pc[Main] /\ \A c \in Closers : pc'[c] = pc[c]
<1>1. /\ pc' \in [Procs -> PC]
      /\ pc'[w] = l /\ \A p \in Procs \ {w} : pc'[p] = pc[p]
  BY Names, Places DEF Goto, IInv, TypeOK
<1>2. pc'[Main] = pc[Main] /\ \A c \in Closers : pc'[c] = pc[c]
  BY <1>1, Names
<1> QED
  BY <1>1, <1>2, Names DEF PlacesOK, IInv

LEMMA CloserGoto ==
  ASSUME IInv, NEW c \in Closers, NEW l \in CloserPlaces, Goto(c, l)
  PROVE  /\ pc' \in [Procs -> PC] /\ PlacesOK'
         /\ pc'[c] = l /\ \A p \in Procs \ {c} : pc'[p] = pc[p]
         /\ pc'[Main] = pc[Main] /\ \A w \in Workers : pc'[w] = pc[w]
         /\ Decremented' = Decremented
<1>1. /\ pc' \in [Procs -> PC]
      /\ pc'[c] = l /\ \A p \in Procs \ {c} : pc'[p] = pc[p]
  BY Names, Places DEF Goto, IInv, TypeOK
<1>2. pc'[Main] = pc[Main] /\ \A w \in Workers : pc'[w] = pc[w]
  BY <1>1, Names
<1> QED
  BY <1>1, <1>2, Names DEF Decremented, PlacesOK, IInv
-----------------------------------------------------------------------------
(* Counting *)

LEMMA DecrementedFinite ==
  /\ IsFiniteSet(Workers) /\ Cardinality(Workers) = MaxWorkers
  /\ IsFiniteSet(Decremented) /\ Cardinality(Decremented) \in Nat
<1>1. IsFiniteSet(Workers) /\ Cardinality(Workers) = MaxWorkers
  BY FS_Interval, MaxWorkersAssumption DEF Workers
<1>2. Decremented \in SUBSET Workers
  BY DEF Decremented
<1> QED
  BY <1>1, <1>2, FS_Subset, FS_CardinalityType

(* The count never strays by more than the one worker that run has started *)
(* and not counted.                                                         *)
LEMMA CountBounds ==
  started \in 0..MaxWorkers /\ SpawnOK /\ CountOK => numWorkers \in -1..MaxWorkers
<1> SUFFICES ASSUME started \in 0..MaxWorkers, SpawnOK, CountOK
             PROVE  numWorkers \in -1..MaxWorkers
  OBVIOUS
<1>1. started + 1 \in Nat /\ started \in Nat /\ MaxWorkers \in Nat
  BY MaxWorkersAssumption
<1>2. Decremented \in SUBSET (1..started + 1)
  BY <1>1, Names DEF Decremented, SpawnOK, Workers
<1>3. IsFiniteSet(1..started + 1) /\ Cardinality(1..started + 1) = started + 1
  BY <1>1, FS_Interval
<1>4. Cardinality(Decremented) <= started + 1
  BY <1>2, <1>3, FS_Subset
<1> QED
  BY <1>1, <1>4, DecrementedFinite DEF CountOK

(* The worker under close is not one that can run. *)
LEMMA HostStands ==
  ASSUME IInv, NEW w \in Workers, CanRun(w), NEW c \in Closers, Killing(c),
         HostOf[c] \in 1..pool
  PROVE  w # HostOf[c]
<1> SUFFICES ASSUME w = HostOf[c] PROVE FALSE
  OBVIOUS
<1>1. ~(useThis /\ w = MaxWorkers)
  BY Names DEF IInv, TypeOK, RunOK, PoolSize
<1>2. ThreadOf(w) = w /\ w \notin Closers
  BY <1>1, Names DEF ThreadOf
<1> QED
  BY <1>2 DEF CanRun, Killing

(* When everything in threads_ is joined, no worker is left. *)
LEMMA JoinedAll ==
  ASSUME IInv, RunReturned, joined = 1..pool, NEW w \in Workers
  PROVE  pc[w] = "done"
<1>1. pool = PoolSize /\ started = MaxWorkers
  BY DEF IInv, RunOK
<1>2. CASE useThis /\ w = MaxWorkers
  BY <1>1, <1>2 DEF IInv, ServeOK
<1>3. CASE ~(useThis /\ w = MaxWorkers)
  <2>1. w \in joined
    BY <1>1, <1>3, Names DEF PoolSize, Workers
  <2> QED
    BY <2>1 DEF IInv, JoinOK
<1> QED
  BY <1>2, <1>3
-----------------------------------------------------------------------------
LEMMA InitIInv == Init => IInv
<1> SUFFICES ASSUME Init PROVE IInv
  OBVIOUS
<1>1. /\ pc[Main] = "init" /\ \A c \in Closers : pc[c] = "returned"
      /\ \A w \in Workers : pc[w] = "none"
      /\ pc \in [Procs -> PC]
  BY Names DEF Init, PC
<1>2. PlacesOK /\ LogOK /\ EndOK /\ KillOK /\ ServeOK
  BY <1>1, Names
    DEF Init, PlacesOK, LogOK, EndOK, KillOK, Killing, ServeOK, MainPlaces, WorkerPlaces,
        CloserPlaces
<1>3. SpawnOK /\ RunOK
  BY <1>1, MaxWorkersAssumption
    DEF Init, SpawnOK, Uncounted, RunOK, RunReturned, InWait, PoolSize, Workers
<1>6. JoinOK
  BY <1>1 DEF Init, RunReturned, InWait, JoinOK
<1>4. CountOK
  BY <1>1, FS_EmptySet DEF Init, CountOK, Decremented
<1>5. TypeOK
  <2>1. started \in 0..MaxWorkers /\ pool \in 0..MaxWorkers /\ numWorkers \in -1..MaxWorkers
    BY MaxWorkersAssumption DEF Init
  <2>2. waits \in 0..MaxWaits /\ closes \in 0..MaxCloses
    BY BoundsAssumption DEF Init
  <2>3. /\ nextJoin \in 1..pool + 1 /\ late \in [Closers -> BOOLEAN]
        /\ nextKill \in [Closers -> 1..pool + 1] /\ killEnd \in [Closers -> 0..pool]
    BY DEF Init
  <2> QED
    BY <1>1, <2>1, <2>2, <2>3 DEF Init, TypeOK
<1> QED
  BY <1>1, <1>2, <1>3, <1>4, <1>5, <1>6 DEF IInv
-----------------------------------------------------------------------------
(* Steps of the workers *)

Looping == WorkerPlaces \ {"none", "notify", "done"}

(* A worker moves in its loop. *)
LEMMA WorkerMoves ==
  ASSUME IInv, NEW w \in Workers, NEW l \in Looping, pc[w] \in Looping, Goto(w, l),
         UNCHANGED <<numWorkers, minLevel, mainVars, closeVars>>, pending' \subseteq pending,
         logMu' \in Procs \cup {NoOne}, LogOK'
  PROVE  IInv'
<1> USE DEF mainVars, closeVars
<1>1. /\ pc' \in [Procs -> PC] /\ PlacesOK'
      /\ pc'[w] = l /\ \A p \in Procs \ {w} : pc'[p] = pc[p]
      /\ pc'[Main] = pc[Main] /\ \A c \in Closers : pc'[c] = pc[c]
  BY WorkerGoto DEF Looping
<1>2. TypeOK'
  BY <1>1 DEF IInv, TypeOK
<1>3. Decremented' = Decremented
  BY <1>1, Names DEF Decremented, Looping
<1>4. CountOK'
  BY <1>3 DEF IInv, CountOK
<1>5. SpawnOK' /\ EndOK'
  BY <1>1, Names DEF IInv, SpawnOK, Uncounted, EndOK, Looping
<1>6. RunOK'
  BY <1>1 DEF IInv, RunOK, RunReturned, PoolSize
<1>7. ServeOK'
  BY <1>1, Names DEF IInv, ServeOK, Looping
<1>8. JoinOK'
  <2>1. \A k \in joined : pc'[k] = "done"
    <3>1. joined \subseteq Workers
      BY Names DEF IInv, TypeOK, Workers
    <3> QED
      BY <1>1, <3>1, Names DEF IInv, JoinOK, Looping
  <2> QED
    BY <1>1, <1>3, <2>1 DEF IInv, JoinOK, RunReturned
<1>9. KillOK'
  BY <1>1, <1>3 DEF IInv, KillOK, Killing
<1> QED
  BY <1>1, <1>2, <1>4, <1>5, <1>6, <1>7, <1>8, <1>9 DEF IInv

LEMMA LoopKeeps ==
  ASSUME IInv, NEW w \in Workers,
         CheckClosing(w) \/ Poll(w) \/ Ready(w) \/ Timeout(w) \/ PollFail(w)
  PROVE  IInv'
<1> DEFINE Moves(l) == /\ l \in Looping /\ pc[w] \in {"check", "poll", "polling"} /\ Goto(w, l)
                       /\ UNCHANGED <<numWorkers, pending, minLevel, logMu, mainVars, closeVars>>
<1>1. PICK l : Moves(l)
  BY DEF CheckClosing, Poll, Ready, Timeout, PollFail, Looping, WorkerPlaces
<1>2. pc[w] \in Looping /\ logMu' \in Procs \cup {NoOne}
  BY <1>1 DEF Looping, WorkerPlaces, IInv, TypeOK
<1>3. LogOK'
  <2>1. \A p \in Procs \ {w} : pc'[p] = pc[p]
    BY <1>1, WorkerGoto DEF Looping
  <2>2. logMu # w
    BY <1>1, Names, Places DEF IInv, LogOK
  <2> QED
    BY <1>1, <2>1, <2>2, Places DEF IInv, TypeOK, LogOK
<1> QED
  BY <1>1, <1>2, <1>3, WorkerMoves

LEMMA HandleSignalKeeps ==
  ASSUME IInv, NEW w \in Workers, HandleSignal(w)
  PROVE  IInv'
<1>1. PICK l \in Interrupted(pc[w]) : Goto(w, l)
  BY DEF HandleSignal
<1>2. CASE pc[w] = "polling"
  <2>1. l \in {"work", "broken"}
    BY <1>1, <1>2 DEF Interrupted
  <2>2. pc[w] \in Looping /\ l \in Looping /\ logMu' \in Procs \cup {NoOne}
    BY <1>2, <2>1 DEF Looping, WorkerPlaces, IInv, TypeOK, HandleSignal
  <2>3. \A p \in Procs \ {w} : pc'[p] = pc[p]
    BY <1>1, <2>2, WorkerGoto DEF Looping
  <2>4. LogOK'
    BY <1>2, <2>3, Names, Places DEF IInv, TypeOK, LogOK, HandleSignal
  <2> QED
    BY <1>1, <2>2, <2>4, WorkerMoves DEF HandleSignal
<1>3. CASE pc[w] # "polling"
  <2>1. pc' = pc
    BY <1>1, <1>3, Names DEF Interrupted, Goto, IInv, TypeOK
  <2>2. TypeOK'
    BY <2>1 DEF HandleSignal, mainVars, closeVars, IInv, TypeOK
  <2>3. Decremented' = Decremented /\ SpawnOK' /\ RunOK' /\ ServeOK' /\ EndOK'
    BY <2>1 DEF HandleSignal, mainVars, closeVars, IInv, Decremented, SpawnOK, Uncounted,
                RunOK, RunReturned, PoolSize, ServeOK, EndOK
  <2>4. PlacesOK' /\ LogOK'
    BY <2>1 DEF HandleSignal, IInv, PlacesOK, LogOK
  <2>5. CountOK' /\ JoinOK' /\ KillOK'
    BY <2>1, <2>3 DEF HandleSignal, mainVars, closeVars, IInv, CountOK, JoinOK, RunReturned,
                      KillOK, Killing
  <2> QED
    BY <2>2, <2>3, <2>4, <2>5 DEF IInv
<1> QED
  BY <1>2, <1>3

LEMMA DecrementKeeps ==
  ASSUME IInv, NEW w \in Workers, Decrement(w)
  PROVE  IInv'
<1> USE DEF mainVars, closeVars
<1>1. /\ pc' \in [Procs -> PC] /\ PlacesOK'
      /\ pc'[w] = "notify" /\ \A p \in Procs \ {w} : pc'[p] = pc[p]
      /\ pc'[Main] = pc[Main] /\ \A c \in Closers : pc'[c] = pc[c]
  BY WorkerGoto DEF Decrement, WorkerPlaces
<1>2. pc[w] = "exit" /\ w \notin Decremented /\ Decremented' = Decremented \cup {w}
  BY <1>1, Names DEF Decremented, Decrement
<1>3. CountOK'
  <2>1. Cardinality(Decremented') = Cardinality(Decremented) + 1
    BY <1>2, DecrementedFinite, FS_AddElement
  <2> QED
    BY <2>1, DecrementedFinite DEF IInv, TypeOK, CountOK, Decrement
<1>4. SpawnOK' /\ EndOK'
  BY <1>1, <1>2, Names DEF IInv, SpawnOK, Uncounted, EndOK, Decrement
<1>5. TypeOK'
  <2>1. started' \in 0..MaxWorkers
    BY DEF Decrement, IInv, TypeOK
  <2>2. numWorkers' \in -1..MaxWorkers
    <3>1. (started \in 0..MaxWorkers /\ SpawnOK /\ CountOK => numWorkers \in -1..MaxWorkers)'
      BY CountBounds, PTL
    <3> QED
      BY <1>3, <1>4, <2>1, <3>1
  <2> QED
    BY <1>1, <2>2 DEF Decrement, IInv, TypeOK
<1>6. LogOK'
  BY <1>1, <1>2, Names, Places DEF IInv, TypeOK, LogOK, Decrement
<1>7. RunOK' /\ ServeOK'
  BY <1>1, <1>2, Names DEF IInv, RunOK, ServeOK, RunReturned, PoolSize, Decrement
<1>8. JoinOK'
  <2>1. Decremented # Workers /\ joined = {} /\ pc[Main] # "join"
    BY <1>2 DEF IInv, JoinOK
  <2> QED
    BY <1>1, <2>1 DEF IInv, JoinOK, RunReturned, Decrement
<1>9. KillOK'
  BY <1>1, <1>2, HostStands DEF IInv, KillOK, Killing, Decrement
<1> QED
  BY <1>1, <1>3, <1>4, <1>5, <1>6, <1>7, <1>8, <1>9 DEF IInv

LEMMA NotifyAllKeeps ==
  ASSUME IInv, NEW w \in Workers, NotifyAll(w)
  PROVE  IInv'
<1> USE DEF mainVars, closeVars
<1> DEFINE l == IF pc[Main] = "asleep" THEN "woken" ELSE pc[Main]
<1>1. /\ pc' \in [Procs -> PC]
      /\ pc'[w] = "done" /\ pc'[Main] = l
      /\ \A p \in Procs \ {w, Main} : pc'[p] = pc[p]
  BY Names, Places DEF NotifyAll, IInv, TypeOK, PC
<1>2. pc[w] = "notify" /\ (\A c \in Closers : pc'[c] = pc[c]) /\ l \in MainPlaces
  BY <1>1, Names DEF NotifyAll, IInv, PlacesOK, MainPlaces
<1> HIDE DEF l
<1>3. \A x : x \in {"thrown", "gone", "init", "opened", "loop", "push", "serve", "count",
                    "join", "stopped", "waited", "ran", "wait", "test", "sleep"} =>
        (l = x <=> pc[Main] = x)
  BY DEF l
<1>4. l \in InWait <=> pc[Main] \in InWait
  BY DEF l, InWait
<1>5. Decremented' = Decremented
  BY <1>1, <1>2, Names DEF Decremented
<1>6. TypeOK' /\ CountOK'
  BY <1>1, <1>5 DEF NotifyAll, IInv, TypeOK, CountOK
<1>7. PlacesOK'
  BY <1>1, <1>2, Names DEF IInv, PlacesOK, WorkerPlaces
<1>8. LogOK'
  <2>1. pc[Main] \in DOMAIN AfterLog => pc'[Main] = pc[Main]
    BY <1>1, Places DEF l
  <2> QED
    BY <1>1, <1>2, <2>1, Names, Places DEF NotifyAll, IInv, TypeOK, LogOK
<1>9. SpawnOK' /\ EndOK' /\ RunOK' /\ ServeOK'
  <2>1. Uncounted' = Uncounted /\ RunReturned' = RunReturned
    BY <1>1, <1>3, <1>4 DEF Uncounted, RunReturned
  <2>2. SpawnOK' /\ EndOK'
    BY <1>1, <1>2, <1>3, <2>1, Names DEF NotifyAll, IInv, SpawnOK, EndOK
  <2>3. RunOK'
    BY <1>1, <1>3, <2>1 DEF NotifyAll, IInv, RunOK, PoolSize
  <2>4. ServeOK'
    BY <1>1, <1>3, Names DEF NotifyAll, IInv, ServeOK
  <2> QED
    BY <2>2, <2>3, <2>4
<1>10. JoinOK'
  <2>1. RunReturned' = RunReturned
    BY <1>1, <1>3, <1>4 DEF RunReturned
  <2>2. joined \subseteq Workers
    BY Names DEF IInv, TypeOK, Workers
  <2>3. \A k \in joined : pc'[k] = "done"
    BY <1>1, <2>2, Names DEF IInv, JoinOK
  <2> QED
    BY <1>1, <1>3, <1>4, <1>5, <2>1, <2>3 DEF NotifyAll, IInv, JoinOK
<1>11. KillOK'
  BY <1>2, <1>5 DEF NotifyAll, IInv, KillOK, Killing
<1> QED
  BY <1>6, <1>7, <1>8, <1>9, <1>10, <1>11 DEF IInv
-----------------------------------------------------------------------------
(* The Log *)

LEMMA LogLockKeeps ==
  ASSUME IInv, NEW p \in Procs, LogLock(p)
  PROVE  IInv'
<1> USE DEF LogLock, mainVars, closeVars
<1>1. TypeOK' /\ PlacesOK' /\ LogOK'
  BY DEF IInv, TypeOK, PlacesOK, LogOK
<1>2. Decremented' = Decremented /\ SpawnOK' /\ RunOK' /\ ServeOK' /\ EndOK'
  BY DEF IInv, Decremented, SpawnOK, Uncounted, RunOK, RunReturned, PoolSize, ServeOK, EndOK
<1>3. CountOK' /\ JoinOK' /\ KillOK'
  BY <1>2 DEF IInv, CountOK, JoinOK, RunReturned, KillOK, Killing
<1> QED
  BY <1>1, <1>2, <1>3 DEF IInv

(* What has been logged, or need not be, is done with. *)
LEMMA LogDone ==
  ASSUME IInv, NEW p \in Procs, LogSkip(p) \/ LogUnlock(p)
  PROVE  /\ Goto(p, AfterLog[pc[p]]) /\ pc[p] \in DOMAIN AfterLog
         /\ UNCHANGED <<numWorkers, pending, minLevel, mainVars, closeVars>>
         /\ logMu' \in {logMu, NoOne} /\ LogOK'
<1>1. CASE LogSkip(p)
  <2>1. logMu # p
    <3>1. minLevel \in Nat
      BY LevelsAssumption DEF IInv, TypeOK
    <3>2. \A x \in DOMAIN AfterLog : LevelOf[x] \in Nat
      BY Places DEF LevelOf, TRACE, INFO, ERROR
    <3> QED
      BY <1>1, <3>1, <3>2, Names DEF LogSkip, IInv, LogOK
  <2>2. \A q \in Procs \ {p} : pc'[q] = pc[q]
    BY <1>1 DEF LogSkip, Goto, IInv, TypeOK
  <2>3. LogOK'
    BY <1>1, <2>1, <2>2 DEF LogSkip, IInv, TypeOK, LogOK
  <2> QED
    BY <1>1, <2>3 DEF LogSkip
<1>2. CASE LogUnlock(p)
  BY <1>2, Names DEF LogUnlock, IInv, LogOK
<1> QED
  BY <1>1, <1>2

LEMMA WorkerLogKeeps ==
  ASSUME IInv, NEW w \in Workers, LogSkip(w) \/ LogUnlock(w)
  PROVE  IInv'
<1>1. /\ Goto(w, AfterLog[pc[w]]) /\ pc[w] \in DOMAIN AfterLog
      /\ UNCHANGED <<numWorkers, pending, minLevel, mainVars, closeVars>>
      /\ logMu' \in {logMu, NoOne} /\ LogOK'
  BY LogDone, Names
<1>2. pc[w] \in {"work", "broken", "failed"}
  BY <1>1, Places DEF IInv, PlacesOK, WorkerPlaces
<1>3. pc[w] \in Looping /\ AfterLog[pc[w]] \in Looping
  BY <1>2 DEF Looping, WorkerPlaces, AfterLog
<1>4. logMu' \in Procs \cup {NoOne}
  BY <1>1 DEF IInv, TypeOK
<1> QED
  BY <1>1, <1>3, <1>4, WorkerMoves
-----------------------------------------------------------------------------
(* Steps of the owner's thread *)

(* It moves, and what is said of its places holds at the new one. *)
LEMMA MainMoves ==
  ASSUME IInv, NEW l \in MainPlaces, Goto(Main, l), pending' = pending, minLevel' = minLevel,
         closeVars' = closeVars,
         logMu' \in {logMu, NoOne}, LogOK',
         listening' \in BOOLEAN, useThis' \in BOOLEAN, started' \in 0..MaxWorkers,
         pool' \in pool..MaxWorkers, joined' \subseteq 1..pool', nextJoin' \in 1..pool' + 1,
         waits' \in 0..MaxWaits,
         SpawnOK', RunOK', ServeOK', CountOK', JoinOK', EndOK', joined' = joined
  PROVE  IInv'
<1> USE DEF closeVars
<1>1. /\ pc' \in [Procs -> PC] /\ PlacesOK'
      /\ pc'[Main] = l /\ \A p \in Procs \ {Main} : pc'[p] = pc[p]
      /\ Decremented' = Decremented
  BY MainGoto
<1>2. TypeOK'
  <2>1. numWorkers' \in -1..MaxWorkers
    <3>1. (started \in 0..MaxWorkers /\ SpawnOK /\ CountOK => numWorkers \in -1..MaxWorkers)'
      BY CountBounds, PTL
    <3> QED
      BY <3>1
  <2>2. /\ pool' \in 0..MaxWorkers
        /\ 0..pool \subseteq 0..pool' /\ 1..pool + 1 \subseteq 1..pool' + 1
    <3>1. pool \in Nat /\ pool' \in Nat /\ pool <= pool' /\ pool' \in 0..MaxWorkers
      BY Names DEF IInv, TypeOK
    <3> QED
      BY <3>1, Grows
  <2>3. killEnd' \in [Closers -> 0..pool'] /\ nextKill' \in [Closers -> 1..pool' + 1]
    BY <2>2 DEF IInv, TypeOK
  <2> QED
    BY <1>1, <2>1, <2>2, <2>3 DEF IInv, TypeOK
<1>3. KillOK'
  <2>1. SUFFICES ASSUME NEW c \in Closers, Killing(c), ~late[c], HostOf[c] # Other
                 PROVE  /\ joined' = {}
                        /\ HostOf[c] \in {Main} \cup (1..pool' \ Decremented)
    BY <1>1, Names DEF KillOK, Killing
  <2>2. joined = {} /\ HostOf[c] \in {Main} \cup (1..pool \ Decremented)
    BY <2>1 DEF IInv, KillOK
  <2>3. pool \in Nat /\ pool' \in Nat /\ pool <= pool' /\ pool <= MaxWorkers
    BY Names DEF IInv, TypeOK
  <2>4. 1..pool \subseteq 1..pool' /\ 1..pool \subseteq Workers
    BY <2>3, Names DEF Workers
  <2> QED
    BY <2>2, <2>4
<1> QED
  BY <1>1, <1>2, <1>3 DEF IInv

(* It moves, and nothing else happens. *)
LEMMA MainOnlyMoves ==
  ASSUME IInv, NEW l \in MainPlaces, Goto(Main, l),
         UNCHANGED <<numWorkers, pending, minLevel, mainVars, closeVars>>,
         logMu' \in {logMu, NoOne}, LogOK', SpawnOK', RunOK', ServeOK', JoinOK', EndOK'
  PROVE  IInv'
<1>1. Decremented' = Decremented
  BY MainGoto
<1>2. CountOK'
  BY <1>1 DEF mainVars, IInv, CountOK
<1>3. /\ listening' \in BOOLEAN /\ useThis' \in BOOLEAN /\ started' \in 0..MaxWorkers
      /\ pool' \in pool..MaxWorkers /\ joined' \subseteq 1..pool' /\ nextJoin' \in 1..pool' + 1
      /\ waits' \in 0..MaxWaits /\ joined' = joined /\ pending' = pending /\ closeVars' = closeVars
      /\ minLevel' = minLevel
  BY Names DEF mainVars, IInv, TypeOK
<1> QED
  BY <1>2, <1>3, MainMoves

(* Away from a LOG, another process has the Log's mutex. *)
LEMMA MainAwayFromLog ==
  ASSUME IInv, NEW l \in MainPlaces, Goto(Main, l), logMu' = logMu, minLevel' = minLevel,
         pc[Main] \notin DOMAIN AfterLog
  PROVE  LogOK'
<1>1. \A p \in Procs \ {Main} : pc'[p] = pc[p]
  BY MainGoto
<1> QED
  BY <1>1, Places DEF IInv, TypeOK, LogOK

LEMMA OpenKeeps == IInv /\ Open => IInv'
<1> SUFFICES ASSUME IInv, Open PROVE IInv'
  OBVIOUS
<1>1. Goto(Main, "opened") /\ "opened" \in MainPlaces /\ pc[Main] = "init"
  BY DEF Open, MainPlaces
<1>2. /\ pc'[Main] = "opened" /\ \A p \in Procs \ {Main} : pc'[p] = pc[p]
      /\ Decremented' = Decremented
  BY <1>1, MainGoto
<1>3. LogOK' /\ CountOK'
  BY <1>1, <1>2, Places, MainAwayFromLog DEF Open, IInv, CountOK
<1>4. SpawnOK' /\ RunOK' /\ ServeOK'
  BY <1>1, <1>2, Names
    DEF Open, closeVars, IInv, SpawnOK, Uncounted, RunOK, RunReturned, InWait,
        PoolSize, ServeOK
<1>5. JoinOK' /\ EndOK'
  BY <1>1, <1>2, Names DEF Open, IInv, JoinOK, RunReturned, InWait, EndOK
<1>6. /\ listening' \in BOOLEAN /\ useThis' \in BOOLEAN /\ started' \in 0..MaxWorkers
      /\ pool' \in pool..MaxWorkers /\ joined' \subseteq 1..pool' /\ nextJoin' \in 1..pool' + 1
      /\ waits' \in 0..MaxWaits /\ joined' = joined
      /\ pending' = pending /\ closeVars' = closeVars /\ minLevel' = minLevel
      /\ logMu' \in {logMu, NoOne}
  BY Names DEF Open, IInv, TypeOK
<1> QED
  BY <1>1, <1>3, <1>4, <1>5, <1>6, MainMoves

LEMMA OpenThrowKeeps == IInv /\ OpenThrow => IInv'
<1> SUFFICES ASSUME IInv, OpenThrow PROVE IInv'
  OBVIOUS
<1>1. /\ Goto(Main, "failing") /\ "failing" \in MainPlaces /\ pc[Main] = "init"
      /\ UNCHANGED <<numWorkers, pending, minLevel, logMu, mainVars, closeVars>>
  BY DEF OpenThrow, MainPlaces
<1>2. /\ pc'[Main] = "failing" /\ \A p \in Procs \ {Main} : pc'[p] = pc[p]
      /\ Decremented' = Decremented /\ \A k \in joined : pc'[k] = pc[k]
  BY <1>1, MainGoto
<1>3. LogOK'
  BY <1>1, Places, MainAwayFromLog
<1>5. SpawnOK' /\ RunOK' /\ ServeOK'
  BY <1>1, <1>2, Names
    DEF OpenThrow, mainVars, IInv, SpawnOK, Uncounted, RunOK, RunReturned, InWait,
        PoolSize, ServeOK
<1>6. JoinOK'
  BY <1>1, <1>2 DEF mainVars, IInv, JoinOK, RunReturned, InWait, OpenThrow
<1>7. EndOK'
  BY <1>1, <1>2, Names DEF mainVars, IInv, JoinOK, EndOK
<1> QED
  BY <1>1, <1>3, <1>5, <1>6, <1>7, MainOnlyMoves

LEMMA ServeReturnKeeps == IInv /\ ServeReturn => IInv'
<1> SUFFICES ASSUME IInv, ServeReturn PROVE IInv'
  OBVIOUS
<1>1. /\ Goto(Main, "count") /\ "count" \in MainPlaces /\ pc[Main] = "serve"
      /\ UNCHANGED <<numWorkers, pending, minLevel, logMu, mainVars, closeVars>>
  BY DEF ServeReturn, MainPlaces
<1>2. /\ pc'[Main] = "count" /\ \A p \in Procs \ {Main} : pc'[p] = pc[p]
      /\ Decremented' = Decremented /\ \A k \in joined : pc'[k] = pc[k]
  BY <1>1, MainGoto
<1>3. LogOK'
  BY <1>1, Places, MainAwayFromLog
<1>5. SpawnOK' /\ RunOK' /\ ServeOK'
  BY <1>1, <1>2, Names
    DEF ServeReturn, mainVars, IInv, SpawnOK, Uncounted, RunOK, RunReturned, InWait,
        PoolSize, ServeOK
<1>6. JoinOK'
  BY <1>1, <1>2 DEF mainVars, IInv, JoinOK, RunReturned, InWait, ServeReturn
<1>7. EndOK'
  BY <1>1, <1>2, Names DEF mainVars, IInv, JoinOK, EndOK
<1> QED
  BY <1>1, <1>3, <1>5, <1>6, <1>7, MainOnlyMoves

LEMMA RunReturnKeeps == IInv /\ RunReturn => IInv'
<1> SUFFICES ASSUME IInv, RunReturn PROVE IInv'
  OBVIOUS
<1>1. /\ Goto(Main, "ran") /\ "ran" \in MainPlaces /\ pc[Main] = "loop"
      /\ UNCHANGED <<numWorkers, pending, minLevel, logMu, mainVars, closeVars>>
  BY DEF RunReturn, MainPlaces
<1>2. /\ pc'[Main] = "ran" /\ \A p \in Procs \ {Main} : pc'[p] = pc[p]
      /\ Decremented' = Decremented /\ \A k \in joined : pc'[k] = pc[k]
  BY <1>1, MainGoto
<1>3. LogOK'
  BY <1>1, Places, MainAwayFromLog
<1>5. SpawnOK' /\ RunOK' /\ ServeOK'
  BY <1>1, <1>2, Names
    DEF RunReturn, mainVars, IInv, SpawnOK, Uncounted, RunOK, RunReturned, InWait,
        PoolSize, ServeOK
<1>6. JoinOK'
  BY <1>1, <1>2 DEF mainVars, IInv, JoinOK, RunReturned, InWait, RunReturn
<1>7. EndOK'
  BY <1>1, <1>2, Names DEF mainVars, IInv, JoinOK, EndOK
<1> QED
  BY <1>1, <1>3, <1>5, <1>6, <1>7, MainOnlyMoves

LEMMA SleepKeeps == IInv /\ Sleep => IInv'
<1> SUFFICES ASSUME IInv, Sleep PROVE IInv'
  OBVIOUS
<1>1. /\ Goto(Main, "asleep") /\ "asleep" \in MainPlaces /\ pc[Main] = "sleep"
      /\ UNCHANGED <<numWorkers, pending, minLevel, logMu, mainVars, closeVars>>
  BY DEF Sleep, MainPlaces
<1>2. /\ pc'[Main] = "asleep" /\ \A p \in Procs \ {Main} : pc'[p] = pc[p]
      /\ Decremented' = Decremented /\ \A k \in joined : pc'[k] = pc[k]
  BY <1>1, MainGoto
<1>3. LogOK'
  BY <1>1, Places, MainAwayFromLog
<1>5. SpawnOK' /\ RunOK' /\ ServeOK'
  BY <1>1, <1>2, Names
    DEF Sleep, mainVars, IInv, SpawnOK, Uncounted, RunOK, RunReturned, InWait,
        PoolSize, ServeOK
<1>6. JoinOK'
  BY <1>1, <1>2 DEF mainVars, IInv, JoinOK, RunReturned, InWait, Sleep
<1>7. EndOK'
  BY <1>1, <1>2, Names DEF mainVars, IInv, JoinOK, EndOK
<1> QED
  BY <1>1, <1>3, <1>5, <1>6, <1>7, MainOnlyMoves

LEMMA SpuriousWakeupKeeps == IInv /\ SpuriousWakeup => IInv'
<1> SUFFICES ASSUME IInv, SpuriousWakeup PROVE IInv'
  OBVIOUS
<1>1. /\ Goto(Main, "woken") /\ "woken" \in MainPlaces /\ pc[Main] = "asleep"
      /\ UNCHANGED <<numWorkers, pending, minLevel, logMu, mainVars, closeVars>>
  BY DEF SpuriousWakeup, MainPlaces
<1>2. /\ pc'[Main] = "woken" /\ \A p \in Procs \ {Main} : pc'[p] = pc[p]
      /\ Decremented' = Decremented /\ \A k \in joined : pc'[k] = pc[k]
  BY <1>1, MainGoto
<1>3. LogOK'
  BY <1>1, Places, MainAwayFromLog
<1>5. SpawnOK' /\ RunOK' /\ ServeOK'
  BY <1>1, <1>2, Names
    DEF SpuriousWakeup, mainVars, IInv, SpawnOK, Uncounted, RunOK, RunReturned, InWait,
        PoolSize, ServeOK
<1>6. JoinOK'
  BY <1>1, <1>2 DEF mainVars, IInv, JoinOK, RunReturned, InWait, SpuriousWakeup
<1>7. EndOK'
  BY <1>1, <1>2, Names DEF mainVars, IInv, JoinOK, EndOK
<1> QED
  BY <1>1, <1>3, <1>5, <1>6, <1>7, MainOnlyMoves

LEMMA JoinThrowKeeps == IInv /\ JoinThrow => IInv'
<1> SUFFICES ASSUME IInv, JoinThrow PROVE IInv'
  OBVIOUS
<1>1. /\ Goto(Main, "thrown") /\ "thrown" \in MainPlaces /\ pc[Main] = "join"
      /\ UNCHANGED <<numWorkers, pending, minLevel, logMu, mainVars, closeVars>>
  BY DEF JoinThrow, MainPlaces
<1>2. /\ pc'[Main] = "thrown" /\ \A p \in Procs \ {Main} : pc'[p] = pc[p]
      /\ Decremented' = Decremented /\ \A k \in joined : pc'[k] = pc[k]
  BY <1>1, MainGoto
<1>3. LogOK'
  BY <1>1, Places, MainAwayFromLog
<1>4. joined = 1..pool
  <2>1. nextJoin \in joined /\ nextJoin \in Nat
    BY DEF JoinThrow, IInv, TypeOK
  <2>2. nextJoin \notin 1..nextJoin - 1
    BY <2>1
  <2> QED
    BY <1>1, <2>1, <2>2 DEF IInv, JoinOK
<1>5. SpawnOK' /\ RunOK' /\ ServeOK'
  BY <1>1, <1>2, Names
    DEF JoinThrow, mainVars, IInv, SpawnOK, Uncounted, RunOK, RunReturned, InWait,
        PoolSize, ServeOK
<1>6. JoinOK'
  BY <1>1, <1>2, <1>4 DEF mainVars, IInv, JoinOK, RunReturned, InWait, JoinThrow
<1>7. EndOK'
  <2>1. \A w \in Workers : pc[w] = "done"
    BY <1>1, <1>4, JoinedAll DEF RunReturned
  <2> QED
    BY <1>1, <1>2, <2>1, Names DEF EndOK
<1> QED
  BY <1>1, <1>3, <1>5, <1>6, <1>7, MainOnlyMoves

LEMMA JoinEndKeeps == IInv /\ JoinEnd => IInv'
<1> SUFFICES ASSUME IInv, JoinEnd PROVE IInv'
  OBVIOUS
<1>1. /\ Goto(Main, "stopped") /\ "stopped" \in MainPlaces /\ pc[Main] = "join"
      /\ UNCHANGED <<numWorkers, pending, minLevel, logMu, mainVars, closeVars>>
  BY DEF JoinEnd, MainPlaces
<1>2. /\ pc'[Main] = "stopped" /\ \A p \in Procs \ {Main} : pc'[p] = pc[p]
      /\ Decremented' = Decremented /\ \A k \in joined : pc'[k] = pc[k]
  BY <1>1, MainGoto
<1>3. LogOK'
  BY <1>1, Places, MainAwayFromLog
<1>4. joined = 1..pool
  <2>1. nextJoin - 1 = pool
    BY DEF JoinEnd, IInv, TypeOK
  <2> QED
    BY <1>1, <2>1 DEF IInv, JoinOK
<1>5. SpawnOK' /\ RunOK' /\ ServeOK'
  BY <1>1, <1>2, Names
    DEF JoinEnd, mainVars, IInv, SpawnOK, Uncounted, RunOK, RunReturned, InWait,
        PoolSize, ServeOK
<1>6. JoinOK'
  BY <1>1, <1>2, <1>4 DEF mainVars, IInv, JoinOK, RunReturned, InWait, JoinEnd
<1>7. EndOK'
  BY <1>1, <1>2, Names DEF mainVars, IInv, JoinOK, EndOK
<1> QED
  BY <1>1, <1>3, <1>5, <1>6, <1>7, MainOnlyMoves

LEMMA RunKeeps ==
  ASSUME IInv, NEW b \in BOOLEAN, Run(b)
  PROVE  IInv'
<1>1. /\ Goto(Main, "loop") /\ "loop" \in MainPlaces /\ pc[Main] = "opened"
      /\ pending' = pending /\ closeVars' = closeVars /\ minLevel' = minLevel
      /\ logMu' \in {logMu, NoOne}
  BY DEF Run, MainPlaces
<1>2. /\ pc'[Main] = "loop" /\ \A p \in Procs \ {Main} : pc'[p] = pc[p]
      /\ Decremented' = Decremented /\ \A k \in joined : pc'[k] = pc[k]
  BY <1>1, MainGoto
<1>3. LogOK'
  BY <1>1, Places, MainAwayFromLog DEF Run
<1>5. SpawnOK' /\ RunOK' /\ ServeOK'
  BY <1>1, <1>2, Names
    DEF Run, closeVars, IInv, TypeOK, SpawnOK, Uncounted, RunOK, RunReturned, InWait,
        PoolSize, ServeOK
<1>6. CountOK'
  BY <1>2 DEF Run, IInv, TypeOK, CountOK
<1>7. JoinOK'
  BY <1>1, <1>2 DEF Run, IInv, JoinOK, RunReturned, InWait
<1>8. EndOK'
  BY <1>1, <1>2, Names DEF Run, IInv, EndOK
<1>9. /\ listening' \in BOOLEAN /\ useThis' \in BOOLEAN /\ started' \in 0..MaxWorkers
      /\ pool' \in pool..MaxWorkers /\ joined' \subseteq 1..pool' /\ nextJoin' \in 1..pool' + 1
      /\ waits' \in 0..MaxWaits /\ joined' = joined
  BY Names DEF Run, IInv, TypeOK
<1> QED
  BY <1>1, <1>3, <1>5, <1>6, <1>7, <1>8, <1>9, MainMoves

LEMMA PushKeeps == IInv /\ Push => IInv'
<1> SUFFICES ASSUME IInv, Push PROVE IInv'
  OBVIOUS
<1>1. /\ Goto(Main, "count") /\ "count" \in MainPlaces /\ pc[Main] = "push"
      /\ pending' = pending /\ closeVars' = closeVars /\ minLevel' = minLevel
      /\ logMu' \in {logMu, NoOne}
  BY DEF Push, MainPlaces
<1>2. /\ pc'[Main] = "count" /\ \A p \in Procs \ {Main} : pc'[p] = pc[p]
      /\ Decremented' = Decremented /\ \A k \in joined : pc'[k] = pc[k]
  BY <1>1, MainGoto
<1>3. LogOK'
  BY <1>1, Places, MainAwayFromLog DEF Push
<1>4. joined = {} /\ pool + 1 <= PoolSize
  <2>1. joined = {}
    BY <1>1 DEF IInv, JoinOK, RunReturned, InWait
  <2>2. started < PoolSize /\ pool = started /\ PoolSize \in Int /\ started \in Int
    BY <1>1, Names DEF IInv, TypeOK, RunOK, PoolSize
  <2> QED
    BY <2>1, <2>2
<1>5. SpawnOK' /\ RunOK' /\ ServeOK'
  BY <1>1, <1>2, Names
    DEF Push, closeVars, IInv, TypeOK, SpawnOK, Uncounted, RunOK, RunReturned, InWait,
        PoolSize, ServeOK
<1>6. CountOK'
  BY <1>2 DEF Push, IInv, TypeOK, CountOK
<1>7. JoinOK'
  BY <1>1, <1>2, <1>4 DEF Push, IInv, JoinOK, RunReturned, InWait
<1>8. EndOK'
  BY <1>1, <1>2, Names DEF Push, IInv, EndOK
<1>9. /\ listening' \in BOOLEAN /\ useThis' \in BOOLEAN /\ started' \in 0..MaxWorkers
      /\ pool' \in pool..MaxWorkers /\ joined' \subseteq 1..pool' /\ nextJoin' \in 1..pool' + 1
      /\ waits' \in 0..MaxWaits /\ joined' = joined
  BY Names, <1>4 DEF Push, IInv, TypeOK, PoolSize
<1> QED
  BY <1>1, <1>3, <1>5, <1>6, <1>7, <1>8, <1>9, MainMoves

LEMMA CountKeeps == IInv /\ Count => IInv'
<1> SUFFICES ASSUME IInv, Count PROVE IInv'
  OBVIOUS
<1>1. /\ Goto(Main, "loop") /\ "loop" \in MainPlaces /\ pc[Main] = "count"
      /\ pending' = pending /\ closeVars' = closeVars /\ minLevel' = minLevel
      /\ logMu' \in {logMu, NoOne}
  BY DEF Count, MainPlaces
<1>2. /\ pc'[Main] = "loop" /\ \A p \in Procs \ {Main} : pc'[p] = pc[p]
      /\ Decremented' = Decremented /\ \A k \in joined : pc'[k] = pc[k]
  BY <1>1, MainGoto
<1>3. LogOK'
  BY <1>1, Places, MainAwayFromLog DEF Count
<1>4. started < MaxWorkers
  BY <1>1 DEF IInv, RunOK
<1>5. SpawnOK' /\ RunOK' /\ ServeOK'
  BY <1>1, <1>2, Names, <1>4
    DEF Count, closeVars, IInv, TypeOK, SpawnOK, Uncounted, RunOK, RunReturned, InWait,
        PoolSize, ServeOK
<1>6. CountOK'
  BY <1>2, DecrementedFinite DEF Count, IInv, TypeOK, CountOK
<1>7. JoinOK'
  BY <1>1, <1>2 DEF Count, IInv, JoinOK, RunReturned, InWait
<1>8. EndOK'
  BY <1>1, <1>2, Names DEF Count, IInv, EndOK
<1>9. /\ listening' \in BOOLEAN /\ useThis' \in BOOLEAN /\ started' \in 0..MaxWorkers
      /\ pool' \in pool..MaxWorkers /\ joined' \subseteq 1..pool' /\ nextJoin' \in 1..pool' + 1
      /\ waits' \in 0..MaxWaits /\ joined' = joined
  BY Names, <1>4 DEF Count, IInv, TypeOK
<1> QED
  BY <1>1, <1>3, <1>5, <1>6, <1>7, <1>8, <1>9, MainMoves

LEMMA WaitKeeps == IInv /\ Wait => IInv'
<1> SUFFICES ASSUME IInv, Wait PROVE IInv'
  OBVIOUS
<1>1. /\ Goto(Main, "wait") /\ "wait" \in MainPlaces /\ pc[Main] \in {"ran", "waited"}
      /\ pending' = pending /\ closeVars' = closeVars /\ minLevel' = minLevel
      /\ logMu' \in {logMu, NoOne}
  BY DEF Wait, MainPlaces
<1>2. /\ pc'[Main] = "wait" /\ \A p \in Procs \ {Main} : pc'[p] = pc[p]
      /\ Decremented' = Decremented /\ \A k \in joined : pc'[k] = pc[k]
  BY <1>1, MainGoto
<1>3. LogOK'
  BY <1>1, Places, MainAwayFromLog DEF Wait
<1>5. SpawnOK' /\ RunOK' /\ ServeOK'
  BY <1>1, <1>2, Names
    DEF Wait, closeVars, IInv, TypeOK, SpawnOK, Uncounted, RunOK, RunReturned, InWait,
        PoolSize, ServeOK
<1>6. CountOK'
  BY <1>2 DEF Wait, IInv, TypeOK, CountOK
<1>7. JoinOK'
  BY <1>1, <1>2 DEF Wait, IInv, JoinOK, RunReturned, InWait
<1>8. EndOK'
  BY <1>1, <1>2, Names DEF Wait, IInv, EndOK
<1>9. /\ listening' \in BOOLEAN /\ useThis' \in BOOLEAN /\ started' \in 0..MaxWorkers
      /\ pool' \in pool..MaxWorkers /\ joined' \subseteq 1..pool' /\ nextJoin' \in 1..pool' + 1
      /\ waits' \in 0..MaxWaits /\ joined' = joined
  BY Names, BoundsAssumption DEF Wait, IInv, TypeOK
<1> QED
  BY <1>1, <1>3, <1>5, <1>6, <1>7, <1>8, <1>9, MainMoves

(* The count tells wait that nobody is left. *)
LEMMA NoneLeftIsAll ==
  ASSUME IInv, pc[Main] = "test", NoneLeft
  PROVE  Decremented = Workers
<1>1. Cardinality(Decremented) = MaxWorkers
  BY DecrementedFinite DEF IInv, TypeOK, CountOK, RunOK, RunReturned, InWait, NoneLeft
<1>2. Decremented \in SUBSET Workers
  BY DEF Decremented
<1> QED
  BY <1>1, <1>2, DecrementedFinite, FS_Subset

LEMMA TestCountKeeps == IInv /\ TestCount => IInv'
<1> SUFFICES ASSUME IInv, TestCount PROVE IInv'
  OBVIOUS
<1>1. PICK l \in {"join", "sleep"} : Goto(Main, l) /\ (l = "join" => NoneLeft)
  BY DEF TestCount
<1>2. /\ l \in MainPlaces /\ pc[Main] = "test"
      /\ UNCHANGED <<numWorkers, pending, minLevel, logMu, mainVars, closeVars>>
  BY DEF TestCount, MainPlaces
<1>3. /\ pc'[Main] = l /\ \A p \in Procs \ {Main} : pc'[p] = pc[p]
      /\ Decremented' = Decremented /\ \A k \in joined : pc'[k] = pc[k]
  BY <1>1, <1>2, MainGoto
<1>4. LogOK'
  BY <1>1, <1>2, Places, MainAwayFromLog
<1>5. SpawnOK' /\ RunOK' /\ ServeOK'
  BY <1>2, <1>3, Names
    DEF mainVars, IInv, TypeOK, SpawnOK, Uncounted, RunOK, RunReturned, InWait,
      PoolSize, ServeOK
<1>6. JoinOK'
  <2>1. l = "join" => Decremented = Workers
    BY <1>1, <1>2, NoneLeftIsAll
  <2>2. nextJoin = 1 /\ 1..nextJoin - 1 = {}
    BY <1>2 DEF IInv, JoinOK, InWait
  <2> QED
    BY <1>2, <1>3, <2>1, <2>2 DEF mainVars, IInv, JoinOK, RunReturned, InWait
<1>7. EndOK'
  BY <1>2, <1>3, Names DEF mainVars, IInv, EndOK
<1> QED
  BY <1>1, <1>2, <1>4, <1>5, <1>6, <1>7, MainOnlyMoves

LEMMA JoinKeeps == IInv /\ Join => IInv'
<1> SUFFICES ASSUME IInv, Join PROVE IInv'
  OBVIOUS
<1>1. pc[Main] = "join" /\ nextJoin \in 1..pool /\ pc' = pc /\ CanRun(Main)
  BY DEF Join, IInv, TypeOK
<1>2. Decremented' = Decremented /\ PlacesOK' /\ LogOK' /\ SpawnOK' /\ ServeOK' /\ EndOK'
  BY <1>1 DEF Join, IInv, Decremented, PlacesOK, LogOK, SpawnOK, Uncounted, ServeOK, EndOK
<1>3. RunOK' /\ CountOK'
  BY <1>1, <1>2 DEF Join, IInv, RunOK, CountOK, RunReturned, PoolSize
<1>4. TypeOK'
  BY <1>1, Names DEF Join, closeVars, IInv, TypeOK
<1>5. JoinOK'
  <2>1. joined = 1..nextJoin - 1
    BY <1>1 DEF Join, IInv, JoinOK
  <2>2. joined' = 1..nextJoin' - 1
    BY <1>1, <2>1, Names DEF Join, IInv, TypeOK
  <2>3. \A k \in joined' : pc'[k] = "done"
    BY <1>1 DEF Join, IInv, JoinOK
  <2> QED
    BY <1>1, <1>2, <2>2, <2>3 DEF IInv, JoinOK, RunReturned, InWait
<1>6. KillOK'
  <2>1. ASSUME NEW c \in Closers, Killing(c), ~late[c], HostOf[c] # Other PROVE FALSE
    <3>1. Decremented = Workers /\ 1..pool \subseteq Workers
      BY <1>1, Names DEF IInv, JoinOK, TypeOK, Workers
    <3>2. HostOf[c] # Main
      BY <1>1, <2>1, Names DEF CanRun, ThreadOf, Killing
    <3> QED
      BY <2>1, <3>1, <3>2 DEF IInv, KillOK
  <2> QED
    BY <1>1, <2>1 DEF Join, closeVars, KillOK, Killing
<1> QED
  BY <1>2, <1>3, <1>4, <1>5, <1>6 DEF IInv

LEMMA DestroyKeeps == IInv /\ Destroy => IInv'
<1> SUFFICES ASSUME IInv, Destroy PROVE IInv'
  OBVIOUS
<1>1. /\ Goto(Main, "gone") /\ "gone" \in MainPlaces /\ pc[Main] \in {"waited", "thrown"}
      /\ pending' = pending /\ closeVars' = closeVars /\ minLevel' = minLevel
      /\ logMu' \in {logMu, NoOne}
  BY DEF Destroy, MainPlaces
<1>2. /\ pc'[Main] = "gone" /\ \A p \in Procs \ {Main} : pc'[p] = pc[p]
      /\ Decremented' = Decremented /\ \A k \in joined : pc'[k] = pc[k]
  BY <1>1, MainGoto
<1>3. LogOK'
  BY <1>1, Places, MainAwayFromLog DEF Destroy
<1>5. SpawnOK' /\ RunOK' /\ ServeOK'
  BY <1>1, <1>2, Names
    DEF Destroy, IInv, SpawnOK, Uncounted, RunOK, RunReturned, InWait, PoolSize, ServeOK
<1>6. CountOK'
  BY <1>2 DEF Destroy, IInv, CountOK
<1>7. JoinOK'
  BY <1>1, <1>2 DEF Destroy, IInv, JoinOK, RunReturned, InWait
<1>8. EndOK'
  <2>1. CASE pc[Main] = "waited"
    <3>1. joined = 1..pool
      BY <2>1 DEF IInv, JoinOK
    <3>2. \A w \in Workers : pc[w] = "done"
      BY <2>1, <3>1, JoinedAll DEF RunReturned
    <3> QED
      BY <1>2, <3>2, Names DEF EndOK
  <2>2. CASE pc[Main] = "thrown"
    BY <1>2, <2>2, Names DEF IInv, EndOK
  <2> QED
    BY <1>1, <2>1, <2>2
<1>9. /\ listening' \in BOOLEAN /\ useThis' \in BOOLEAN /\ started' \in 0..MaxWorkers
      /\ pool' \in pool..MaxWorkers /\ joined' \subseteq 1..pool' /\ nextJoin' \in 1..pool' + 1
      /\ waits' \in 0..MaxWaits /\ joined' = joined
  <2>1. listening' \in BOOLEAN
    BY DEF Destroy
  <2>2. UNCHANGED <<useThis, started, pool, joined, nextJoin, waits>>
    BY DEF Destroy
  <2> QED
    BY <2>1, <2>2, Names DEF IInv, TypeOK
<1> QED
  BY <1>1, <1>3, <1>5, <1>6, <1>7, <1>8, <1>9, MainMoves

LEMMA MainLogKeeps == IInv /\ (LogSkip(Main) \/ LogUnlock(Main)) => IInv'
<1> SUFFICES ASSUME IInv, LogSkip(Main) \/ LogUnlock(Main) PROVE IInv'
  OBVIOUS
<1>0. /\ Goto(Main, AfterLog[pc[Main]]) /\ pc[Main] \in DOMAIN AfterLog
      /\ UNCHANGED <<numWorkers, pending, minLevel, mainVars, closeVars>>
      /\ logMu' \in {logMu, NoOne} /\ LogOK'
  BY LogDone, Names
<1>1. pc[Main] \in {"failing", "wait", "woken", "stopped"}
  BY <1>0, Places DEF IInv, PlacesOK, MainPlaces
<1>2. PICK l \in {"thrown", "test", "waited"} :
        /\ Goto(Main, l) /\ (l = "waited" <=> pc[Main] = "stopped")
        /\ (l = "thrown" <=> pc[Main] = "failing")
  BY <1>0, <1>1 DEF AfterLog
<1>3. l \in MainPlaces
  BY <1>2 DEF MainPlaces
<1>4. /\ pc'[Main] = l /\ \A p \in Procs \ {Main} : pc'[p] = pc[p]
      /\ Decremented' = Decremented /\ \A k \in joined : pc'[k] = pc[k]
  BY <1>2, <1>3, MainGoto
<1>6. SpawnOK' /\ RunOK' /\ ServeOK'
  BY <1>0, <1>1, <1>2, <1>4, Names
    DEF mainVars, IInv, SpawnOK, Uncounted, RunOK, RunReturned, InWait, PoolSize, ServeOK
<1>7. JoinOK'
  BY <1>0, <1>1, <1>2, <1>4 DEF mainVars, IInv, JoinOK, RunReturned, InWait
<1>8. EndOK'
  BY <1>0, <1>1, <1>2, <1>4, Names DEF mainVars, IInv, EndOK
<1> QED
  BY <1>0, <1>2, <1>3, <1>6, <1>7, <1>8, MainOnlyMoves

(* A thread starts a worker. *)
LEMMA StartKeeps ==
  ASSUME IInv, NEW l \in {"push", "serve"}, NEW w \in Workers, w = started + 1,
         pc[Main] = "loop", pc' = [pc EXCEPT ![Main] = l, ![w] = "check"],
         UNCHANGED <<numWorkers, pending, minLevel, logMu, mainVars, closeVars>>, RunOK'
  PROVE  IInv'
<1> USE DEF mainVars, closeVars
<1>1. /\ pc' \in [Procs -> PC] /\ pc'[Main] = l /\ pc'[w] = "check"
      /\ \A p \in Procs \ {w, Main} : pc'[p] = pc[p]
  BY Names DEF IInv, TypeOK, PC
<1>2. /\ pc[w] = "none" /\ \A c \in Closers : pc'[c] = pc[c]
      /\ started < MaxWorkers /\ started \in Nat
  BY <1>1, Names DEF IInv, TypeOK, SpawnOK, Uncounted, Workers
<1>3. TypeOK'
  BY <1>1 DEF IInv, TypeOK
<1>4. PlacesOK' /\ Decremented' = Decremented /\ EndOK'
  BY <1>1, <1>2, Names
    DEF IInv, PlacesOK, MainPlaces, WorkerPlaces, Decremented, EndOK
<1>5. LogOK'
  BY <1>1, <1>2, Places, Names DEF IInv, TypeOK, LogOK
<1>6. SpawnOK'
  <2>1. SUFFICES ASSUME NEW u \in Workers PROVE pc'[u] # "none" <=> u <= started + 1
    BY <1>1 DEF SpawnOK, Uncounted
  <2>2. CASE u = w
    BY <1>1, <2>2, <1>2
  <2>3. CASE u # w
    <3>1. pc'[u] = pc[u] /\ (pc[u] # "none" <=> u <= started)
      BY <1>1, <2>3, Names DEF IInv, SpawnOK, Uncounted
    <3> QED
      BY <1>2, <2>3, <3>1, Names
  <2> QED
    BY <2>2, <2>3
<1>7. ServeOK'
  BY <1>1, <1>2, Names DEF IInv, ServeOK
<1>8. CountOK' /\ KillOK'
  BY <1>2, <1>4 DEF IInv, CountOK, KillOK, Killing
<1>9. JoinOK'
  <2>1. joined = {}
    BY DEF IInv, JoinOK, RunReturned, InWait
  <2> QED
    BY <1>1, <1>4, <2>1 DEF IInv, JoinOK, RunReturned, InWait
<1> QED
  BY <1>3, <1>4, <1>5, <1>6, <1>7, <1>8, <1>9 DEF IInv

LEMMA SpawnKeeps == IInv /\ Spawn => IInv'
<1> SUFFICES ASSUME IInv, Spawn PROVE IInv'
  OBVIOUS
<1>1. started + 1 \in Workers /\ started < PoolSize
  BY Names DEF Spawn, IInv, TypeOK, PoolSize, Workers
<1>2. pc'[Main] = "push"
  <2>1. started + 1 # Main
    BY <1>1, Names
  <2> QED
    BY <2>1, Names DEF Spawn, IInv, TypeOK
<1>3. RunOK'
  BY <1>1, <1>2 DEF Spawn, mainVars, IInv, RunOK, RunReturned, InWait, PoolSize
<1> QED
  BY <1>1, <1>3, StartKeeps DEF Spawn

LEMMA ServeKeeps == IInv /\ Serve => IInv'
<1> SUFFICES ASSUME IInv, Serve PROVE IInv'
  OBVIOUS
<1>1. pc'[Main] = "serve"
  BY Names DEF Serve, IInv, TypeOK
<1>2. RunOK'
  BY <1>1, Names DEF Serve, mainVars, IInv, TypeOK, RunOK, RunReturned, InWait, PoolSize
<1>3. MaxWorkers = started + 1
  BY Names DEF Serve, IInv, TypeOK
<1> QED
  BY <1>2, <1>3, Names, StartKeeps DEF Serve
-----------------------------------------------------------------------------
(* Steps of close *)

(* What close does to other processes is to signal them. *)
LEMMA CloserMoves ==
  ASSUME IInv, NEW c \in Closers, UNCHANGED <<numWorkers, mainVars>>, TypeOK', LogOK', KillOK',
         pc'[c] \in CloserPlaces, \A p \in Procs \ {c} : pc'[p] = pc[p]
  PROVE  IInv'
<1> USE DEF mainVars
<1>1. pc'[Main] = pc[Main] /\ \A w \in Workers : pc'[w] = pc[w]
  BY Names
<1>4. PlacesOK' /\ Decremented' = Decremented
  BY <1>1, Names DEF IInv, PlacesOK, Decremented
<1>2. CountOK' /\ SpawnOK' /\ RunOK' /\ EndOK' /\ ServeOK'
  BY <1>1, <1>4, Names
    DEF IInv, CountOK, SpawnOK, Uncounted, RunOK, RunReturned, PoolSize, EndOK, ServeOK
<1>3. JoinOK'
  BY <1>1, <1>4, JoinedWorkers DEF IInv, JoinOK, RunReturned
<1> QED
  BY <1>2, <1>3, <1>4 DEF IInv

LEMMA CloseKeeps ==
  ASSUME IInv, NEW c \in Closers, Close(c)
  PROVE  IInv'
<1>1. PICK l \in {"leave", "store"} : Goto(c, l)
  BY DEF Close
<1>2. /\ pc' \in [Procs -> PC] /\ pc'[c] = l /\ l \in CloserPlaces
      /\ \A p \in Procs \ {c} : pc'[p] = pc[p]
      /\ Decremented' = Decremented
  BY <1>1, CloserGoto DEF CloserPlaces
<1>3. /\ pc[c] = "returned" /\ late' = [late EXCEPT ![c] = ~KeepsWait(HostOf[c])]
      /\ UNCHANGED <<numWorkers, pending, minLevel, logMu, mainVars, state, nextKill, killEnd>>
  BY DEF Close
<1>4. TypeOK'
  <2>1. closes' \in 0..MaxCloses
    BY BoundsAssumption DEF Close, IInv, TypeOK
  <2>2. late' \in [Closers -> BOOLEAN]
    BY <1>3 DEF IInv, TypeOK
  <2> QED
    BY <1>2, <1>3, <2>1, <2>2 DEF mainVars, IInv, TypeOK
<1>5. LogOK'
  BY <1>2, <1>3, Places DEF IInv, TypeOK, LogOK
<1>6. KillOK'
  <2>1. SUFFICES ASSUME NEW d \in Closers, Killing(d)', ~late'[d], HostOf[d] # Other
                 PROVE  /\ joined = {}
                        /\ HostOf[d] \in {Main} \cup (1..pool \ Decremented)
    BY <1>2, <1>3 DEF mainVars, KillOK
  <2>2. CASE d # c
    BY <1>2, <1>3, <2>1, <2>2, Names DEF IInv, TypeOK, KillOK, Killing
  <2>3. CASE d = c
    <3>1. KeepsWait(HostOf[c])
      BY <1>3, <2>1, <2>3 DEF IInv, TypeOK
    <3>2. CASE HostOf[c] = Main
      BY <2>3, <3>1, <3>2, Names DEF KeepsWait
    <3>3. CASE HostOf[c] # Main
      <4>1. HostOf[c] \in Workers \ Decremented /\ HostOf[c] <= pool
        BY <2>1, <2>3, <3>1, <3>3 DEF KeepsWait, Close, Alive
      <4>2. joined = {}
        BY <4>1 DEF IInv, JoinOK
      <4>3. pool \in Nat
        BY DEF IInv, TypeOK
      <4> QED
        BY <2>3, <4>1, <4>2, <4>3 DEF Workers
    <3> QED
      BY <3>2, <3>3
  <2> QED
    BY <2>2, <2>3
<1> QED
  BY <1>2, <1>3, <1>4, <1>5, <1>6, CloserMoves

LEMMA StoreStateKeeps ==
  ASSUME IInv, NEW c \in Closers, StoreState(c)
  PROVE  IInv'
<1>1. /\ Goto(c, "kill") /\ "kill" \in CloserPlaces /\ pc[c] = "store"
      /\ UNCHANGED <<numWorkers, pending, minLevel, logMu, mainVars, closes, late>>
  BY DEF StoreState, CloserPlaces
<1>2. /\ pc' \in [Procs -> PC] /\ pc'[c] = "kill"
      /\ \A p \in Procs \ {c} : pc'[p] = pc[p]
      /\ Decremented' = Decremented
  BY <1>1, CloserGoto
<1>3. TypeOK'
  <2>1. killEnd' \in [Closers -> 0..pool]
    BY DEF StoreState, ThreadsEnd, IInv, TypeOK
  <2>2. nextKill' \in [Closers -> 1..pool + 1]
    BY DEF StoreState, IInv, TypeOK
  <2>3. state' = "S_STOPPING"
    BY DEF StoreState
  <2> QED
    BY <1>1, <1>2, <2>1, <2>2, <2>3 DEF mainVars, IInv, TypeOK
<1>4. LogOK'
  BY <1>1, <1>2, Places DEF IInv, TypeOK, LogOK
<1>5. KillOK'
  <2>1. \A d \in Closers : Killing(d)' => Killing(d)
    BY <1>1, <1>2, Names DEF Killing
  <2> QED
    BY <1>1, <1>2, <2>1 DEF mainVars, IInv, KillOK
<1> QED
  BY <1>1, <1>2, <1>3, <1>4, <1>5, CloserMoves

LEMMA KillKeeps ==
  ASSUME IInv, NEW c \in Closers, Kill(c)
  PROVE  IInv'
<1>1. /\ pc' = pc /\ UNCHANGED <<numWorkers, mainVars>>
      /\ UNCHANGED <<minLevel, logMu, state, killEnd, closes, late>>
  BY DEF Kill
<1>2. nextKill[c] \in 1..pool /\ nextKill' \in [Closers -> 1..pool + 1]
  <2>1. nextKill[c] \in 1..pool
    BY DEF Kill, IInv, TypeOK
  <2> QED
    BY <2>1 DEF Kill, IInv, TypeOK
<1>3. pending' \subseteq Workers
  <2>1. nextKill[c] \in Workers
    BY <1>2, Names DEF IInv, TypeOK, Workers
  <2> QED
    BY <2>1 DEF Kill, IInv, TypeOK
<1>4. TypeOK' /\ LogOK' /\ KillOK'
  BY <1>1, <1>2, <1>3 DEF mainVars, IInv, TypeOK, LogOK, KillOK, Killing, Decremented
<1>5. pc[c] \in CloserPlaces
  BY DEF IInv, PlacesOK
<1> QED
  BY <1>1, <1>4, <1>5, CloserMoves

(* close moves on, with no more to signal. *)
LEMMA CloserGoesOn ==
  ASSUME IInv, NEW c \in Closers, NEW l \in CloserPlaces \ {"store", "kill"}, Goto(c, l),
         UNCHANGED <<numWorkers, pending, minLevel, mainVars, closeVars>>,
         logMu' \in {logMu, NoOne}, LogOK'
  PROVE  IInv'
<1>1. /\ pc' \in [Procs -> PC] /\ pc'[c] = l
      /\ \A p \in Procs \ {c} : pc'[p] = pc[p]
      /\ Decremented' = Decremented
  BY CloserGoto
<1>2. TypeOK'
  BY <1>1 DEF mainVars, closeVars, IInv, TypeOK
<1>3. KillOK'
  <2>1. \A d \in Closers : Killing(d)' => Killing(d)
    BY <1>1, Names DEF Killing
  <2> QED
    BY <1>1, <2>1 DEF mainVars, closeVars, IInv, KillOK
<1> QED
  BY <1>1, <1>2, <1>3, CloserMoves DEF closeVars

LEMMA KillEndKeeps ==
  ASSUME IInv, NEW c \in Closers, KillEnd(c)
  PROVE  IInv'
<1>1. /\ Goto(c, "log") /\ "log" \in CloserPlaces \ {"store", "kill"} /\ pc[c] = "kill"
      /\ UNCHANGED <<numWorkers, pending, minLevel, logMu, mainVars, closeVars>>
  BY DEF KillEnd, CloserPlaces
<1>2. LogOK'
  <2>1. \A p \in Procs \ {c} : pc'[p] = pc[p]
    BY <1>1, CloserGoto
  <2> QED
    BY <1>1, <2>1, Places DEF IInv, TypeOK, LogOK
<1> QED
  BY <1>1, <1>2, CloserGoesOn

LEMMA CloserLogKeeps ==
  ASSUME IInv, NEW c \in Closers, LogSkip(c) \/ LogUnlock(c)
  PROVE  IInv'
<1>1. /\ Goto(c, AfterLog[pc[c]]) /\ pc[c] \in DOMAIN AfterLog
      /\ UNCHANGED <<numWorkers, pending, minLevel, mainVars, closeVars>>
      /\ logMu' \in {logMu, NoOne} /\ LogOK'
  BY LogDone, Names
<1>2. pc[c] = "log"
  BY <1>1, Places DEF IInv, PlacesOK, CloserPlaces
<1>3. AfterLog[pc[c]] = "leave" /\ "leave" \in CloserPlaces \ {"store", "kill"}
  BY <1>2 DEF AfterLog, CloserPlaces
<1> QED
  BY <1>1, <1>3, CloserGoesOn

LEMMA CloseReturnKeeps ==
  ASSUME IInv, NEW c \in Closers, CloseReturn(c)
  PROVE  IInv'
<1>1. PICK l \in {"work", "broken"} :
        pc' = [p \in Procs |->
                 IF p = c THEN "returned"
                 ELSE IF p \in Workers /\ ThreadOf(p) = HostOf[c] /\ pc[p] = "polling" THEN l
                 ELSE pc[p]]
  BY DEF CloseReturn, Interrupted
<1>2. /\ UNCHANGED <<numWorkers, pending, minLevel, logMu, mainVars, state, closes>>
      /\ nextKill' = [nextKill EXCEPT ![c] = 1] /\ killEnd' = [killEnd EXCEPT ![c] = 0]
      /\ late' = [late EXCEPT ![c] = FALSE] /\ pc[c] = "leave"
  BY DEF CloseReturn
<1>3. /\ pc'[c] = "returned" /\ pc'[Main] = pc[Main]
      /\ \A d \in Closers \ {c} : pc'[d] = pc[d]
      /\ \A w \in Workers :
           pc'[w] = pc[w] \/ (pc[w] = "polling" /\ pc'[w] = l)
  BY <1>1, Names
<1>4. /\ \A w \in Workers : pc'[w] \in WorkerPlaces
      /\ \A w \in Workers, x \in {"none", "notify", "done"} : pc'[w] = x <=> pc[w] = x
  BY <1>3 DEF IInv, PlacesOK, WorkerPlaces
<1>5. PlacesOK' /\ Decremented' = Decremented
  BY <1>2, <1>3, <1>4 DEF IInv, PlacesOK, CloserPlaces, Decremented
<1>10. LogOK'
  <2>1. SUFFICES ASSUME logMu # NoOne
                 PROVE  pc'[logMu] = pc[logMu]
    BY <1>2 DEF IInv, LogOK
  <2>2. logMu \in Procs /\ pc[logMu] \in DOMAIN AfterLog
    BY <2>1 DEF IInv, TypeOK, LogOK
  <2> QED
    BY <1>1, <1>2, <2>2, Places
<1>6. TypeOK'
  <2>1. pc' \in [Procs -> PC]
    BY <1>1 DEF IInv, TypeOK, PC
  <2>2. /\ nextKill' \in [Closers -> 1..pool + 1] /\ killEnd' \in [Closers -> 0..pool]
        /\ late' \in [Closers -> BOOLEAN]
    BY <1>2 DEF IInv, TypeOK
  <2> QED
    BY <1>2, <2>1, <2>2 DEF mainVars, IInv, TypeOK
<1>7. SpawnOK' /\ EndOK' /\ ServeOK' /\ RunOK'
  <2>1. SpawnOK' /\ EndOK'
    BY <1>2, <1>3, <1>4 DEF mainVars, IInv, SpawnOK, Uncounted, EndOK
  <2>2. ServeOK' /\ RunOK'
    BY <1>2, <1>3, <1>4, Names DEF mainVars, IInv, ServeOK, RunOK, RunReturned, PoolSize
  <2> QED
    BY <2>1, <2>2
<1>8. CountOK'
  BY <1>2, <1>5 DEF mainVars, IInv, CountOK
<1>11. KillOK'
  <2>1. SUFFICES ASSUME NEW d \in Closers, Killing(d)', ~late'[d], HostOf[d] # Other
                 PROVE  /\ joined = {}
                        /\ HostOf[d] \in {Main} \cup (1..pool \ Decremented)
    BY <1>2, <1>5 DEF mainVars, KillOK
  <2>2. d # c
    BY <1>3, <2>1 DEF Killing
  <2> QED
    BY <1>2, <1>3, <2>1, <2>2 DEF IInv, TypeOK, KillOK, Killing
<1>9. JoinOK'
  BY <1>2, <1>3, <1>4, <1>5, JoinedWorkers DEF mainVars, IInv, JoinOK, RunReturned
<1> QED
  BY <1>5, <1>6, <1>7, <1>8, <1>9, <1>10, <1>11 DEF IInv

LEMMA StutterKeeps == IInv /\ UNCHANGED vars => IInv'
<1> SUFFICES ASSUME IInv, UNCHANGED vars PROVE IInv'
  OBVIOUS
<1> USE DEF vars, mainVars, closeVars
<1>1. TypeOK' /\ PlacesOK' /\ LogOK'
  BY DEF IInv, TypeOK, PlacesOK, LogOK
<1>2. Decremented' = Decremented /\ SpawnOK' /\ RunOK' /\ ServeOK' /\ EndOK'
  BY DEF IInv, Decremented, SpawnOK, Uncounted, RunOK, RunReturned, PoolSize, ServeOK, EndOK
<1>3. CountOK' /\ JoinOK' /\ KillOK'
  BY <1>2 DEF IInv, CountOK, JoinOK, RunReturned, KillOK, Killing
<1> QED
  BY <1>1, <1>2, <1>3 DEF IInv

LEMMA NextKeepsIInv == IInv /\ [Next]_vars => IInv'
<1> SUFFICES ASSUME IInv, [Next]_vars PROVE IInv'
  OBVIOUS
<1>1. CASE Open \/ OpenThrow \/ Destroy
  BY <1>1, OpenKeeps, OpenThrowKeeps, DestroyKeeps
<1>2. ASSUME NEW b \in BOOLEAN, Run(b) PROVE IInv'
  BY <1>2, RunKeeps
<1>3. CASE MainStep
  <2>1. CASE Spawn \/ Push \/ Serve \/ ServeReturn \/ Count \/ RunReturn
    BY <2>1, SpawnKeeps, PushKeeps, ServeKeeps, ServeReturnKeeps, CountKeeps, RunReturnKeeps
  <2>2. CASE Wait \/ TestCount \/ Sleep \/ Join \/ JoinThrow \/ JoinEnd
    BY <2>2, WaitKeeps, TestCountKeeps, SleepKeeps, JoinKeeps, JoinThrowKeeps, JoinEndKeeps
  <2>3. CASE Log(Main)
    BY <2>3, LogLockKeeps, MainLogKeeps, Names DEF Log
  <2> QED
    BY <1>3, <2>1, <2>2, <2>3 DEF MainStep
<1>4. CASE SpuriousWakeup
  BY <1>4, SpuriousWakeupKeeps
<1>5. ASSUME NEW w \in Workers, WorkerStep(w) \/ Ready(w) \/ PollFail(w) PROVE IInv'
  <2>1. CASE CheckClosing(w) \/ Poll(w) \/ Ready(w) \/ Timeout(w) \/ PollFail(w)
    BY <2>1, LoopKeeps
  <2>2. CASE HandleSignal(w) \/ Decrement(w) \/ NotifyAll(w)
    BY <2>2, HandleSignalKeeps, DecrementKeeps, NotifyAllKeeps
  <2>3. CASE Log(w)
    BY <2>3, LogLockKeeps, WorkerLogKeeps, Names DEF Log
  <2> QED
    BY <1>5, <2>1, <2>2, <2>3 DEF WorkerStep
<1>6. ASSUME NEW c \in Closers, Close(c) \/ CloserStep(c) PROVE IInv'
  <2>1. CASE Close(c) \/ StoreState(c) \/ Kill(c) \/ KillEnd(c) \/ CloseReturn(c)
    BY <2>1, CloseKeeps, StoreStateKeeps, KillKeeps, KillEndKeeps, CloseReturnKeeps
  <2>2. CASE Log(c)
    BY <2>2, LogLockKeeps, CloserLogKeeps, Names DEF Log
  <2> QED
    BY <1>6, <2>1, <2>2 DEF CloserStep
<1>8. CASE UNCHANGED vars
  BY <1>8, StutterKeeps
<1> QED
  BY <1>1, <1>2, <1>3, <1>4, <1>5, <1>6, <1>8 DEF Next, Finished

LEMMA Invariance == Spec => []IInv
  BY InitIInv, NextKeepsIInv, PTL DEF Spec
-----------------------------------------------------------------------------
(* The variables keep their types: numWorkers_, which run increments after  *)
(* a worker may have ended, is never less than -1.                          *)
THEOREM Typing == Spec => []TypeOK
<1>1. IInv => TypeOK
  BY DEF IInv
<1> QED
  BY <1>1, Invariance, PTL

(* Whenever wait looks at numWorkers_, it is the number of workers that     *)
(* have yet to decrement it in serverDone.                                  *)
THEOREM CountIsRight == Spec => []CountAtWait
<1>1. ASSUME IInv, pc[Main] \in InWait
      PROVE  numWorkers = Cardinality(Workers \ Decremented)
  <2>1. started = MaxWorkers
    BY <1>1 DEF IInv, RunOK, RunReturned
  <2>2. Workers \cap Decremented = Decremented
    BY DEF Decremented
  <2>3. Cardinality(Workers \ Decremented)
          = Cardinality(Workers) - Cardinality(Workers \cap Decremented)
    BY DecrementedFinite, FS_Difference
  <2> QED
    BY <1>1, <2>1, <2>2, <2>3, DecrementedFinite DEF IInv, CountOK
<1>2. IInv => CountAtWait
  BY <1>1 DEF CountAtWait
<1> QED
  BY <1>2, Invariance, PTL

(* wait, and the destructor after it or after an exception, find no worker  *)
(* left that would still use the Manager or its listening socket.           *)
THEOREM NobodyLeft == Spec => []WaitedThenGone
<1>1. ASSUME IInv, pc[Main] = "waited", NEW w \in Workers PROVE pc[w] = "done"
  <2>1. RunReturned /\ joined = 1..pool
    BY <1>1 DEF IInv, JoinOK, RunReturned
  <2> QED
    BY <1>1, <2>1, JoinedAll
<1>2. IInv => WaitedThenGone
  BY <1>1 DEF WaitedThenGone, IInv, EndOK
<1> QED
  BY <1>2, Invariance, PTL

(* Where close runs only as a signal handler, on the owner's thread or on   *)
(* one of the pool, it signals no thread that has been joined, unless       *)
(* nothing kept wait from joining already when it was called: the worker    *)
(* under it was past its decrement, or the owner had begun to join.  From a *)
(* thread apart it may: run manager_async.                                  *)
THEOREM SignalsAllowed ==
  ASSUME \A c \in Closers : HostOf[c] # Other
  PROVE  Spec => []SignalsLiveThreads
<1>1. IInv => SignalsLiveThreads
  BY DEF IInv, KillOK, Killing, SignalsLiveThreads
<1> QED
  BY <1>1, Invariance, PTL
-----------------------------------------------------------------------------
(* Manager's workers are the loops of module Loop. *)

(* At most one loop moves, as Loop allows. *)
LEMMA OneMoves ==
  ASSUME NEW w \in Workers, state' = state,
         \A u \in Workers \ {w} : Place(u)' = Place(u),
         \/ Place(w)' = Place(w)
         \/ /\ Place(w) \in {"busy", "waiting"}
            /\ Place(w)' = IF state = "S_STOPPING" THEN "leaving" ELSE "waiting"
         \/ Place(w) = "waiting" /\ Place(w)' \in {"busy", "leaving"}
         \/ Place(w) = "leaving" /\ Place(w)' = "gone"
  PROVE  [AbstractLoop!Next]_AbstractLoop!vars
<1> DEFINE place == [u \in Workers |-> Place(u)]
<1>1. place' = [place EXCEPT ![w] = Place(w)']
  OBVIOUS
<1>2. place[w] = Place(w) /\ place'[w] = Place(w)'
  OBVIOUS
<1>3. CASE Place(w)' = Place(w)
  <2>1. place' = place
    BY <1>3
  <2> QED
    BY <2>1 DEF AbstractLoop!vars
<1> HIDE DEF place
<1>4. CASE /\ Place(w) \in {"busy", "waiting"}
           /\ Place(w)' = IF state = "S_STOPPING" THEN "leaving" ELSE "waiting"
  <2>1. AbstractLoop!Look(w)
    BY <1>1, <1>2, <1>4 DEF AbstractLoop!Look, AbstractLoop!Move, place
  <2> QED
    BY <2>1 DEF AbstractLoop!Next
<1>5. CASE Place(w) = "waiting" /\ Place(w)' \in {"busy", "leaving"}
  <2>1. AbstractLoop!Return(w) \/ AbstractLoop!Fail(w)
    BY <1>1, <1>2, <1>5 DEF AbstractLoop!Return, AbstractLoop!Fail, AbstractLoop!Move, place
  <2> QED
    BY <2>1 DEF AbstractLoop!Next
<1>6. CASE Place(w) = "leaving" /\ Place(w)' = "gone"
  <2>1. AbstractLoop!End(w)
    BY <1>1, <1>2, <1>6 DEF AbstractLoop!End, AbstractLoop!Move, place
  <2> QED
    BY <2>1 DEF AbstractLoop!Next
<1> QED
  BY <1>3, <1>4, <1>5, <1>6

LEMMA NoneMoves ==
  ASSUME state' = state, \A w \in Workers : Place(w)' = Place(w)
  PROVE  [AbstractLoop!Next]_AbstractLoop!vars
BY OneMoves, Names

LEMMA PlaceKept ==
  ASSUME NEW w, pc'[w] = pc[w]
  PROVE  Place(w)' = Place(w)
BY DEF Place

LEMMA MainStepMaps ==
  ASSUME IInv, Open \/ OpenThrow \/ Destroy \/ (\E b \in BOOLEAN : Run(b)) \/ MainStep
                 \/ SpuriousWakeup
  PROVE  [AbstractLoop!Next]_AbstractLoop!vars
<1>1. state' = state
  BY
    DEF Open, OpenThrow, Destroy, Run, MainStep, SpuriousWakeup, Spawn, Push, Serve,
      ServeReturn,
         Count, RunReturn, Wait, TestCount, Sleep, Join, JoinThrow, JoinEnd, Log, LogSkip, LogLock, LogUnlock,
         closeVars
<1>2. CASE Spawn \/ Serve
  <2>1. /\ started + 1 \in Workers
        /\ \/ pc' = [pc EXCEPT ![Main] = "push", ![started + 1] = "check"]
           \/ pc' = [pc EXCEPT ![Main] = "serve", ![started + 1] = "check"]
    <3>1. CASE Spawn
      BY <3>1, Names DEF Spawn, IInv, TypeOK, PoolSize, Workers
    <3>2. CASE Serve
      <4>1. started + 1 = MaxWorkers
        BY <3>2, Names DEF Serve, IInv, TypeOK
      <4> QED
        BY <3>2, <4>1, Names DEF Serve
    <3> QED
      BY <1>2, <3>1, <3>2
  <2>2. pc[started + 1] = "none"
    BY <1>2, <2>1, Names DEF Spawn, Serve, IInv, TypeOK, SpawnOK, Uncounted
  <2>3. ASSUME NEW w \in Workers PROVE Place(w)' = Place(w)
    <3>1. CASE w = started + 1
      <4>1. pc'[w] = "check" /\ pc[w] = "none"
        BY <2>1, <2>2, <3>1, Names DEF IInv, TypeOK
      <4> QED
        BY <4>1 DEF Place
    <3>2. CASE w # started + 1
      <4>1. pc'[w] = pc[w]
        BY <2>1, <3>2, Names DEF IInv, TypeOK
      <4> QED
        BY <4>1, PlaceKept
    <3> QED
      BY <3>1, <3>2
  <2> QED
    BY <1>1, <2>3, NoneMoves
<1>3. CASE ~(Spawn \/ Serve)
  <2>1. \A w \in Workers : pc'[w] = pc[w]
    BY <1>3, Names
      DEF Open, OpenThrow, Destroy, Run, MainStep, SpuriousWakeup, Push, ServeReturn, Count,
          RunReturn, Wait, TestCount, Sleep, Join, JoinThrow, JoinEnd, Log, LogSkip, LogLock,
          LogUnlock, Goto, IInv, TypeOK
  <2> QED
    BY <1>1, <2>1, PlaceKept, NoneMoves
<1> QED
  BY <1>2, <1>3

LEMMA WorkerStepMaps ==
  ASSUME IInv, NEW w \in Workers, WorkerStep(w) \/ Ready(w) \/ PollFail(w)
  PROVE  [AbstractLoop!Next]_AbstractLoop!vars
<1>1. state' = state
  BY DEF WorkerStep, Ready, PollFail, CheckClosing, Poll, Timeout, HandleSignal, Decrement,
         NotifyAll, Log, LogSkip, LogLock, LogUnlock, closeVars
<1>2. \A u \in Workers \ {w} : Place(u)' = Place(u)
  <2>1. \A u \in Workers \ {w} : pc'[u] = pc[u]
    BY Names
      DEF WorkerStep, Ready, PollFail, CheckClosing, Poll, Timeout, HandleSignal, Decrement,
          NotifyAll, Log, LogSkip, LogLock, LogUnlock, Goto, IInv, TypeOK
  <2> QED
    BY <2>1, PlaceKept
<1>3. CASE CheckClosing(w)
  <2>1. pc[w] = "check" /\ pc'[w] = IF state = "S_STOPPING" THEN "exit" ELSE "poll"
    BY <1>3, Names DEF CheckClosing, Goto, closing, IInv, TypeOK
  <2>2. Place(w) = "busy" /\ Place(w)' = IF state = "S_STOPPING" THEN "leaving" ELSE "waiting"
    BY <2>1 DEF Place
  <2> QED
    BY <1>1, <1>2, <2>2, OneMoves
<1>4. CASE Poll(w) \/ NotifyAll(w) \/ LogLock(w)
  <2>1. \/ pc[w] = "poll" /\ pc'[w] = "polling"
        \/ pc[w] = "notify" /\ pc'[w] = "done"
        \/ pc'[w] = pc[w]
    BY <1>4, Names DEF Poll, NotifyAll, LogLock, Goto, IInv, TypeOK
  <2>2. Place(w)' = Place(w)
    BY <2>1 DEF Place
  <2> QED
    BY <1>1, <1>2, <2>2, OneMoves
<1>5. CASE Ready(w) \/ Timeout(w) \/ PollFail(w) \/ HandleSignal(w)
  <2>1. \/ pc[w] = "polling" /\ pc'[w] \in {"work", "check", "broken"}
        \/ pc'[w] = pc[w]
    BY <1>5, Names
      DEF Ready, Timeout, PollFail, HandleSignal, Interrupted, Goto, IInv, TypeOK
  <2>2. \/ Place(w) = "waiting" /\ Place(w)' \in {"busy", "leaving"}
        \/ Place(w)' = Place(w)
    BY <2>1 DEF Place
  <2> QED
    BY <1>1, <1>2, <2>2, OneMoves
<1>6. CASE Decrement(w)
  <2>1. pc[w] = "exit" /\ pc'[w] = "notify"
    BY <1>6, Names DEF Decrement, Goto, IInv, TypeOK
  <2>2. Place(w) = "leaving" /\ Place(w)' = "gone"
    BY <2>1 DEF Place
  <2> QED
    BY <1>1, <1>2, <2>2, OneMoves
<1>7. CASE LogSkip(w) \/ LogUnlock(w)
  <2>1. Goto(w, AfterLog[pc[w]]) /\ pc[w] \in {"work", "broken", "failed"}
    BY <1>7, LogDone, Names, Places DEF IInv, PlacesOK, WorkerPlaces
  <2>2. pc'[w] = AfterLog[pc[w]]
    BY <2>1, Names DEF Goto, IInv, TypeOK
  <2>3. Place(w)' = Place(w)
    BY <2>1, <2>2 DEF Place, AfterLog
  <2> QED
    BY <1>1, <1>2, <2>3, OneMoves
<1> QED
  BY <1>3, <1>4, <1>5, <1>6, <1>7 DEF WorkerStep, Log

LEMMA CloserStepMaps ==
  ASSUME IInv, NEW c \in Closers, Close(c) \/ CloserStep(c)
  PROVE  [AbstractLoop!Next]_AbstractLoop!vars
<1>1. CASE StoreState(c)
  <2>1. \A w \in Workers : pc'[w] = pc[w]
    BY <1>1, Names DEF StoreState, Goto, IInv, TypeOK
  <2>2. [w \in Workers |-> Place(w)]' = [w \in Workers |-> Place(w)]
    BY <2>1, PlaceKept
  <2>3. CASE state = "S_INIT"
    <3>1. AbstractLoop!Close
      BY <1>1, <2>2, <2>3 DEF StoreState, AbstractLoop!Close
    <3> QED
      BY <3>1 DEF AbstractLoop!Next
  <2>4. CASE state = "S_STOPPING"
    BY <1>1, <2>1, <2>4, PlaceKept, NoneMoves DEF StoreState
  <2> QED
    BY <2>3, <2>4 DEF IInv, TypeOK
<1>2. CASE Close(c) \/ Kill(c) \/ KillEnd(c) \/ Log(c)
  <2>1. state' = state /\ \A w \in Workers : pc'[w] = pc[w]
    BY <1>2, Names
      DEF Close, Kill, KillEnd, Log, LogSkip, LogLock, LogUnlock, Goto, closeVars, IInv, TypeOK
  <2> QED
    BY <2>1, PlaceKept, NoneMoves
<1>3. CASE CloseReturn(c)
  <2>1. PICK l \in {"work", "broken"} :
          pc' = [p \in Procs |->
                   IF p = c THEN "returned"
                   ELSE IF p \in Workers /\ ThreadOf(p) = HostOf[c] /\ pc[p] = "polling" THEN l
                   ELSE pc[p]]
    BY <1>3 DEF CloseReturn, Interrupted
  <2>2. state' = state
    BY <1>3 DEF CloseReturn
  <2>3. \A w \in Workers : pc'[w] # pc[w] =>
          ThreadOf(w) = HostOf[c] /\ pc[w] = "polling" /\ pc'[w] = l
    BY <2>1, Names
  <2>4. \A u, w \in Workers : ThreadOf(u) = ThreadOf(w) => u = w
    BY Names DEF ThreadOf
  <2>5. CASE \A w \in Workers : pc'[w] = pc[w]
    BY <2>2, <2>5, PlaceKept, NoneMoves
  <2>6. ASSUME NEW w \in Workers, pc'[w] # pc[w]
        PROVE  [AbstractLoop!Next]_AbstractLoop!vars
    <3>1. \A u \in Workers \ {w} : pc'[u] = pc[u]
      BY <2>3, <2>4, <2>6
    <3>2. \A u \in Workers \ {w} : Place(u)' = Place(u)
      BY <3>1, PlaceKept
    <3>3. Place(w) = "waiting" /\ Place(w)' \in {"busy", "leaving"}
      BY <2>3, <2>6 DEF Place
    <3> QED
      BY <2>2, <3>2, <3>3, OneMoves
  <2> QED
    BY <2>5, <2>6
<1> QED
  BY <1>1, <1>2, <1>3 DEF CloserStep

LEMMA NextMaps == IInv /\ [Next]_vars => [AbstractLoop!Next]_AbstractLoop!vars
<1> SUFFICES ASSUME IInv, [Next]_vars PROVE [AbstractLoop!Next]_AbstractLoop!vars
  OBVIOUS
<1>1. CASE UNCHANGED vars
  <2>1. state' = state /\ \A w \in Workers : pc'[w] = pc[w]
    BY <1>1 DEF vars, closeVars
  <2> QED
    BY <2>1, PlaceKept, NoneMoves
<1> QED
  BY <1>1, MainStepMaps, WorkerStepMaps, CloserStepMaps DEF Next, Finished

LEMMA InitMaps == Init => AbstractLoop!Init
<1> SUFFICES ASSUME Init PROVE AbstractLoop!Init
  OBVIOUS
<1>1. \A w \in Workers : pc[w] = "none"
  BY Names DEF Init
<1>2. \A w \in Workers : Place(w) = "busy"
  BY <1>1 DEF Place
<1> QED
  BY <1>2 DEF Init, AbstractLoop!Init

(* Whatever signals, errors and LOGs do to a worker, it looks at closing()  *)
(* before it waits, and having left its loop it ends, once.                 *)
THEOREM WorkersAreLoops == Spec => ImplementsLoop
<1>1. Spec => []IInv
  BY Invariance
<1> QED
  BY <1>1, InitMaps, NextMaps, PTL DEF Spec, ImplementsLoop, AbstractLoop!Spec
=============================================================================
