------------------------------ MODULE Manager ------------------------------
(***************************************************************************)
(* ugorji/conn Manager: starting, stopping and waiting for its Servers.    *)
(*                                                                         *)
(* The thread that owns the Manager opens it and calls run, which starts   *)
(* one Server per worker thread (the last one, on request, on the calling  *)
(* thread itself); then it calls wait, and destroys the Manager.  close is *)
(* "likely called by a signal handler": it runs on top of a thread of the  *)
(* program, which stands still meanwhile, or on a thread of its own.       *)
(*                                                                         *)
(* What a Server does between two looks at closing() is module Server's;   *)
(* here it is one visit to epoll_wait, which may fail, and its LOGs.       *)
(***************************************************************************)
EXTENDS Integers, FiniteSets

CONSTANTS
  MaxWorkers,   \* maxWorkers_, after the constructor and run have adjusted it
  PollTimeout,  \* is pollTimeoutMs_ finite (it is not, by default)
  WaitMayFail,  \* may epoll_wait fail, or a LOG replace the EINTR in errno
  MaxWaits,     \* bound on the calls of wait
  MaxCloses,    \* bound on the calls of close
  MinLevels,    \* the levels the Log may be set to
  Main,         \* the owner's thread
  Closers,      \* the places close may be called from
  HostOf,       \* HostOf[c]: the thread there: Main, a pool thread's number, or Other
  Other,        \* a thread that is neither Main nor one of the pool
  NoOne         \* no thread

Workers == 1..MaxWorkers

Procs == Workers \cup {Main} \cup Closers

ASSUME MaxWorkersAssumption == MaxWorkers \in Nat \ {0}

ASSUME PollTimeoutAssumption == PollTimeout \in BOOLEAN /\ WaitMayFail \in BOOLEAN

(* One signal handler at a time runs on a thread; of the threads apart there *)
(* may be several.                                                           *)
ASSUME HostsAssumption ==
  /\ HostOf \in [Closers -> Workers \cup {Main, Other}]
  /\ \A c, d \in Closers : HostOf[c] = HostOf[d] => c = d \/ HostOf[c] = Other

ASSUME BoundsAssumption == MaxWaits \in Nat /\ MaxCloses \in Nat

ASSUME LevelsAssumption == MinLevels \subseteq Nat /\ MinLevels # {}

ASSUME NamesAssumption ==
  /\ Main # Other /\ Main # NoOne /\ Other # NoOne
  /\ {Main, Other, NoOne} \cap (Workers \cup Closers) = {}
  /\ Closers \cap Workers = {}

VARIABLES
  pc,          \* pc[p]: where the code of p is
  listening,   \* is listenfd_ an open socket
  useThis,     \* useThisThread, the argument of run
  started,     \* the iterations of run's loop that are over (i)
  pool,        \* threads_.size(): threads_[k] is the thread of worker k
  joined,      \* the threads that have been joined
  nextJoin,    \* the thread wait joins next
  numWorkers,  \* numWorkers_
  state,       \* state_
  pending,     \* the threads with interruptSig_ raised and not yet handled
  nextKill,    \* nextKill[c]: the thread close signals next
  killEnd,     \* killEnd[c]: the end of threads_ as close's loop read it
  minLevel,    \* the Log's minLevel_
  logMu,       \* the code that has the Log's mutex
  waits,       \* history: the calls of wait
  late,        \* history: late[c]: close was called when nothing kept wait from joining
  closes       \* history: the calls of close

mainVars == <<listening, useThis, started, pool, joined, nextJoin, waits>>
closeVars == <<state, nextKill, killEnd, closes, late>>
vars == <<pc, numWorkers, pending, minLevel, logMu, mainVars, closeVars>>

PC == {"init", "failing", "opened", "loop", "push", "serve", "count", "ran",
       "wait", "test", "sleep", "asleep", "woken", "join", "stopped", "waited",
       "thrown", "none", "check", "poll", "polling", "work", "broken", "failed", "exit", "notify",
       "done", "store", "kill", "log", "leave", "returned", "gone"}

TypeOK ==
  /\ pc \in [Procs -> PC]
  /\ useThis \in BOOLEAN /\ listening \in BOOLEAN
  /\ started \in 0..MaxWorkers
  /\ pool \in 0..MaxWorkers
  /\ joined \subseteq 1..pool
  /\ nextJoin \in 1..pool + 1
  /\ numWorkers \in -1..MaxWorkers
  /\ state \in {"S_INIT", "S_STOPPING"}
  /\ pending \subseteq Workers
  /\ killEnd \in [Closers -> 0..pool]
  /\ nextKill \in [Closers -> 1..pool + 1]
  /\ late \in [Closers -> BOOLEAN]
  /\ minLevel \in MinLevels
  /\ logMu \in Procs \cup {NoOne}
  /\ waits \in 0..MaxWaits
  /\ closes \in 0..MaxCloses

Init ==
  /\ pc = [p \in Procs |->
             IF p = Main THEN "init" ELSE IF p \in Closers THEN "returned" ELSE "none"]
  /\ listening = FALSE
  /\ useThis = FALSE
  /\ started = 0
  /\ pool = 0
  /\ joined = {}
  /\ nextJoin = 1
  /\ numWorkers = 0
  /\ state = "S_INIT"
  /\ pending = {}
  /\ nextKill = [c \in Closers |-> 1]
  /\ killEnd = [c \in Closers |-> 0]
  /\ late = [c \in Closers |-> FALSE]
  /\ minLevel \in MinLevels
  /\ logMu = NoOne
  /\ waits = 0
  /\ closes = 0

Goto(p, l) == pc' = [pc EXCEPT ![p] = l]

PoolSize == IF useThis THEN MaxWorkers - 1 ELSE MaxWorkers

(* The thread on which the code of p runs. *)
ThreadOf(p) ==
  IF p \in Closers THEN HostOf[p]
  ELSE IF useThis /\ p = MaxWorkers THEN Main ELSE p

(* The code under a signal handler stands still until the handler returns. *)
CanRun(p) ==
  p \in Closers \/ \A c \in Closers : pc[c] = "returned" \/ HostOf[c] # ThreadOf(p)

(* Mutant: closing() no longer knows of S_STOPPING. *)
ClosingStoppedOnly == state = "S_STOPPED"

closing == state \in {"S_STOPPING", "S_STOPPED"}
-----------------------------------------------------------------------------
(* LOG, from the places that call it to where they go next, and its level. *)
AfterLog ==
  [failing |-> "thrown", wait |-> "test", woken |-> "test", stopped |-> "waited",
   work |-> "check", broken |-> "failed", failed |-> "exit", log |-> "leave"]

TRACE == 1
INFO == 3
ERROR == 5

LevelOf ==
  [failing |-> ERROR, wait |-> TRACE, woken |-> TRACE, stopped |-> INFO,
   work |-> TRACE, broken |-> TRACE, failed |-> ERROR, log |-> TRACE]

(* LOG below the Log's level returns before the mutex. *)
LogSkip(p) ==
  /\ CanRun(p)
  /\ pc[p] \in DOMAIN AfterLog
  /\ LevelOf[pc[p]] < minLevel
  /\ Goto(p, AfterLog[pc[p]])
  /\ UNCHANGED <<numWorkers, pending, minLevel, logMu, mainVars, closeVars>>

LogLock(p) ==
  /\ CanRun(p)
  /\ pc[p] \in DOMAIN AfterLog
  /\ LevelOf[pc[p]] >= minLevel
  /\ logMu = NoOne
  /\ logMu' = p
  /\ UNCHANGED <<pc, numWorkers, pending, minLevel, mainVars, closeVars>>

LogUnlock(p) ==
  /\ CanRun(p)
  /\ logMu = p
  /\ logMu' = NoOne
  /\ Goto(p, AfterLog[pc[p]])
  /\ UNCHANGED <<numWorkers, pending, minLevel, mainVars, closeVars>>

Log(p) == LogSkip(p) \/ LogLock(p) \/ LogUnlock(p)
-----------------------------------------------------------------------------
(* Manager::open, Manager::run, Manager::wait and ~Manager *)

Open ==
  /\ CanRun(Main)
  /\ pc[Main] = "init"
  /\ listening' = TRUE
  /\ Goto(Main, "opened")
  /\ UNCHANGED <<numWorkers, pending, minLevel, logMu, useThis, started, pool, joined, nextJoin,
                 waits, closeVars>>

(* listenport fails: errnoChk takes the message for halt, so that it LOGs   *)
(* and throws.                                                              *)
OpenThrow ==
  /\ CanRun(Main)
  /\ pc[Main] = "init"
  /\ Goto(Main, "failing")
  /\ UNCHANGED <<numWorkers, pending, minLevel, logMu, mainVars, closeVars>>

Run(b) ==
  /\ CanRun(Main)
  /\ pc[Main] = "opened"
  /\ useThis' = b
  /\ Goto(Main, "loop")
  /\ UNCHANGED <<numWorkers, pending, minLevel, logMu, listening, started, pool, joined, nextJoin,
                 waits, closeVars>>

(* std::thread starts to run before threads_ has it. *)
Spawn ==
  /\ CanRun(Main)
  /\ pc[Main] = "loop"
  /\ started < PoolSize
  /\ pc' = [pc EXCEPT ![Main] = "push", ![started + 1] = "check"]
  /\ UNCHANGED <<numWorkers, pending, minLevel, logMu, mainVars, closeVars>>

Push ==
  /\ CanRun(Main)
  /\ pc[Main] = "push"
  /\ pool' = pool + 1
  /\ Goto(Main, "count")
  /\ UNCHANGED <<numWorkers, pending, minLevel, logMu, listening, useThis, started, joined, nextJoin,
                 waits, closeVars>>

(* runServerForManager on this thread *)
Serve ==
  /\ CanRun(Main)
  /\ pc[Main] = "loop"
  /\ useThis
  /\ started = MaxWorkers - 1
  /\ pc' = [pc EXCEPT ![Main] = "serve", ![MaxWorkers] = "check"]
  /\ UNCHANGED <<numWorkers, pending, minLevel, logMu, mainVars, closeVars>>

ServeReturn ==
  /\ CanRun(Main)
  /\ pc[Main] = "serve"
  /\ pc[MaxWorkers] = "done"
  /\ Goto(Main, "count")
  /\ UNCHANGED <<numWorkers, pending, minLevel, logMu, mainVars, closeVars>>

(* Mutant: the worker on this thread is not counted. *)
CountPoolOnly ==
  /\ CanRun(Main)
  /\ pc[Main] = "count"
  /\ numWorkers' = IF started < PoolSize THEN numWorkers + 1 ELSE numWorkers
  /\ started' = started + 1
  /\ Goto(Main, "loop")
  /\ UNCHANGED <<pending, minLevel, logMu, listening, useThis, pool, joined, nextJoin, waits, closeVars>>

(* numWorkers_++, after the worker has started, or even ended *)
Count ==
  /\ CanRun(Main)
  /\ pc[Main] = "count"
  /\ numWorkers' = numWorkers + 1
  /\ started' = started + 1
  /\ Goto(Main, "loop")
  /\ UNCHANGED <<pending, minLevel, logMu, listening, useThis, pool, joined, nextJoin, waits, closeVars>>

RunReturn ==
  /\ CanRun(Main)
  /\ pc[Main] = "loop"
  /\ started = MaxWorkers
  /\ Goto(Main, "ran")
  /\ UNCHANGED <<numWorkers, pending, minLevel, logMu, mainVars, closeVars>>

(* wait is called.  Its mutex mu_ has no other user and is left out. *)
Wait ==
  /\ CanRun(Main)
  /\ pc[Main] \in {"ran", "waited"}
  /\ waits < MaxWaits
  /\ state # "S_STOPPED"
  /\ waits' = waits + 1
  /\ nextJoin' = 1
  /\ Goto(Main, "wait")
  /\ UNCHANGED <<numWorkers, pending, minLevel, logMu, listening, useThis, started, pool, joined,
                 closeVars>>

(* Mutant: the loop of wait ends one worker too early. *)
NoneLeftButOne == numWorkers <= 1

(* The loop of wait ends. *)
NoneLeft == numWorkers = 0

TestCount ==
  /\ CanRun(Main)
  /\ pc[Main] = "test"
  /\ Goto(Main, IF NoneLeft THEN "join" ELSE "sleep")
  /\ UNCHANGED <<numWorkers, pending, minLevel, logMu, mainVars, closeVars>>

(* cond_.wait puts the thread among those notify_all wakes. *)
Sleep ==
  /\ CanRun(Main)
  /\ pc[Main] = "sleep"
  /\ Goto(Main, "asleep")
  /\ UNCHANGED <<numWorkers, pending, minLevel, logMu, mainVars, closeVars>>

SpuriousWakeup ==
  /\ pc[Main] = "asleep"
  /\ Goto(Main, "woken")
  /\ UNCHANGED <<numWorkers, pending, minLevel, logMu, mainVars, closeVars>>

(* Mutant: wait does not join. *)
JoinNot ==
  /\ CanRun(Main)
  /\ pc[Main] = "join"
  /\ nextJoin <= pool
  /\ nextJoin' = nextJoin + 1
  /\ UNCHANGED <<pc, numWorkers, pending, minLevel, logMu, listening, useThis, started, pool, joined,
                 waits, closeVars>>

(* thread::join returns when the thread has ended ... *)
Join ==
  /\ CanRun(Main)
  /\ pc[Main] = "join"
  /\ nextJoin <= pool
  /\ nextJoin \notin joined
  /\ pc[nextJoin] = "done"
  /\ joined' = joined \cup {nextJoin}
  /\ nextJoin' = nextJoin + 1
  /\ UNCHANGED <<pc, numWorkers, pending, minLevel, logMu, listening, useThis, started, pool, waits,
                 closeVars>>

(* ... and throws for a thread that has been joined before. *)
JoinThrow ==
  /\ CanRun(Main)
  /\ pc[Main] = "join"
  /\ nextJoin <= pool
  /\ nextJoin \in joined
  /\ Goto(Main, "thrown")
  /\ UNCHANGED <<numWorkers, pending, minLevel, logMu, mainVars, closeVars>>

JoinEnd ==
  /\ CanRun(Main)
  /\ pc[Main] = "join"
  /\ nextJoin > pool
  /\ Goto(Main, "stopped")
  /\ UNCHANGED <<numWorkers, pending, minLevel, logMu, mainVars, closeVars>>

(* The owner destroys a Manager that it waited for, or that threw. *)
Destroy ==
  /\ CanRun(Main)
  /\ pc[Main] \in {"waited", "thrown"}
  /\ \A c \in Closers : pc[c] = "returned"
  /\ listening' = FALSE
  /\ Goto(Main, "gone")
  /\ UNCHANGED <<numWorkers, pending, minLevel, logMu, useThis, started, pool, joined, nextJoin,
                 waits, closeVars>>

MainStep ==
  \/ Spawn \/ Push \/ Serve \/ ServeReturn \/ Count \/ RunReturn
  \/ Wait \/ TestCount \/ Sleep \/ Join \/ JoinThrow \/ JoinEnd
  \/ Log(Main)
-----------------------------------------------------------------------------
(* The loop of Server::run, as far as its end is concerned. *)

CheckClosing(w) ==
  /\ CanRun(w)
  /\ pc[w] = "check"
  /\ Goto(w, IF closing THEN "exit" ELSE "poll")
  /\ UNCHANGED <<numWorkers, pending, minLevel, logMu, mainVars, closeVars>>

(* epoll_wait begins: from here on a signal interrupts it. *)
Poll(w) ==
  /\ CanRun(w)
  /\ pc[w] = "poll"
  /\ Goto(w, "polling")
  /\ UNCHANGED <<numWorkers, pending, minLevel, logMu, mainVars, closeVars>>

(* epoll_wait returns with events, which the network may never bring ... *)
Ready(w) ==
  /\ CanRun(w)
  /\ pc[w] = "polling"
  /\ Goto(w, "work")
  /\ UNCHANGED <<numWorkers, pending, minLevel, logMu, mainVars, closeVars>>

(* ... or because its time is up. *)
Timeout(w) ==
  /\ CanRun(w)
  /\ pc[w] = "polling"
  /\ PollTimeout
  /\ Goto(w, "check")
  /\ UNCHANGED <<numWorkers, pending, minLevel, logMu, mainVars, closeVars>>

(* epoll_wait fails: an error is logged, counted, and the loop left. *)
PollFail(w) ==
  /\ CanRun(w)
  /\ pc[w] = "polling"
  /\ WaitMayFail
  /\ Goto(w, "broken")
  /\ UNCHANGED <<numWorkers, pending, minLevel, logMu, mainVars, closeVars>>

(* An interrupted epoll_wait fails with EINTR, which the LOG that comes     *)
(* before the test of errno may replace, as it calls isatty: then it seems  *)
(* to have failed otherwise.                                                *)
Interrupted(l) ==
  IF l = "polling"
  THEN {"work"} \cup (IF WaitMayFail /\ LevelOf.work >= minLevel THEN {"broken"} ELSE {})
  ELSE {l}

(* The handler of interruptSig_ runs.  If epoll_wait had not begun, nothing *)
(* remains of the signal.                                                   *)
HandleSignal(w) ==
  /\ CanRun(w)
  /\ w \in pending
  /\ pending' = pending \ {w}
  /\ \E l \in Interrupted(pc[w]) : Goto(w, l)
  /\ UNCHANGED <<numWorkers, minLevel, logMu, mainVars, closeVars>>

(* serverDone: numWorkers_--, and then notify_all, without mu_. *)
Decrement(w) ==
  /\ CanRun(w)
  /\ pc[w] = "exit"
  /\ numWorkers' = numWorkers - 1
  /\ Goto(w, "notify")
  /\ UNCHANGED <<pending, minLevel, logMu, mainVars, closeVars>>

NotifyAll(w) ==
  /\ CanRun(w)
  /\ pc[w] = "notify"
  /\ pc' = [pc EXCEPT ![w] = "done",
                      ![Main] = IF @ = "asleep" THEN "woken" ELSE @]
  /\ UNCHANGED <<numWorkers, pending, minLevel, logMu, mainVars, closeVars>>

WorkerStep(w) ==
  \/ CheckClosing(w) \/ Poll(w) \/ Timeout(w) \/ HandleSignal(w)
  \/ Decrement(w) \/ NotifyAll(w) \/ Log(w)
-----------------------------------------------------------------------------
(* Manager::close *)

(* close and run's push_back must not work on threads_ at the same time:   *)
(* nothing in the code prevents it, and then nothing can be said.  A       *)
(* handler on Main runs between two iterations; any other thread calls     *)
(* close when threads_ is complete.                                        *)
ThreadsSettled(h) ==
  IF h = Main THEN pc[Main] # "push"
  ELSE pc[Main] \notin {"init", "opened", "push"} /\ pool = PoolSize

(* Mutant: close counts the threads with maxWorkers_. *)
ThreadsEndMax == MaxWorkers

(* threads_.end() *)
ThreadsEnd == pool

(* The workers that have gone through the decrement in serverDone. *)
Decremented == {w \in Workers : pc[w] \in {"notify", "done"}}

(* As close is called on h, something stands between wait and its joins: h  *)
(* is a worker that has yet to decrement numWorkers_ and stands still; it   *)
(* is the owner's thread, which stands still and has not begun to join; or  *)
(* it is a thread apart, and some worker has yet to decrement.              *)
KeepsWait(h) ==
  \/ h \in Workers \ Decremented
  \/ h = Main /\ joined = {}
  \/ h = Other /\ Decremented # Workers

Alive(h) == h \in Workers => h <= pool /\ pc[h] # "done"

(* close is called, and tests closing(). *)
Close(c) ==
  /\ pc[c] = "returned"
  /\ closes < MaxCloses
  /\ pc[Main] # "gone"
  /\ ThreadsSettled(HostOf[c])
  /\ Alive(HostOf[c])
  /\ closes' = closes + 1
  /\ late' = [late EXCEPT ![c] = ~KeepsWait(HostOf[c])]
  /\ Goto(c, IF closing THEN "leave" ELSE "store")
  /\ UNCHANGED <<numWorkers, pending, minLevel, logMu, mainVars, state, nextKill, killEnd>>

(* state_ = S_STOPPING, perhaps by several calls that all found it unset. *)
StoreState(c) ==
  /\ pc[c] = "store"
  /\ state' = "S_STOPPING"
  /\ nextKill' = [nextKill EXCEPT ![c] = 1]
  /\ killEnd' = [killEnd EXCEPT ![c] = ThreadsEnd]
  /\ Goto(c, "kill")
  /\ UNCHANGED <<numWorkers, pending, minLevel, logMu, mainVars, closes, late>>

(* pthread_kill is only defined for a thread that has not been joined. *)
Kill(c) ==
  /\ pc[c] = "kill"
  /\ nextKill[c] <= killEnd[c]
  /\ nextKill[c] \notin joined
  /\ pending' = IF pc[nextKill[c]] = "done" THEN pending ELSE pending \cup {nextKill[c]}
  /\ nextKill' = [nextKill EXCEPT ![c] = @ + 1]
  /\ UNCHANGED <<pc, numWorkers, minLevel, logMu, mainVars, state, killEnd, closes, late>>

KillEnd(c) ==
  /\ pc[c] = "kill"
  /\ nextKill[c] > killEnd[c]
  /\ Goto(c, "log")
  /\ UNCHANGED <<numWorkers, pending, minLevel, logMu, mainVars, closeVars>>

(* close returns.  A handler has interrupted its thread, and an epoll_wait *)
(* there.                                                                  *)
CloseReturn(c) ==
  /\ pc[c] = "leave"
  /\ nextKill' = [nextKill EXCEPT ![c] = 1]
  /\ killEnd' = [killEnd EXCEPT ![c] = 0]
  /\ late' = [late EXCEPT ![c] = FALSE]
  /\ \E l \in Interrupted("polling") :
       pc' = [p \in Procs |->
                IF p = c THEN "returned"
                ELSE IF p \in Workers /\ ThreadOf(p) = HostOf[c] /\ pc[p] = "polling" THEN l
                ELSE pc[p]]
  /\ UNCHANGED <<numWorkers, pending, minLevel, logMu, mainVars, state, closes>>

CloserStep(c) ==
  StoreState(c) \/ Kill(c) \/ KillEnd(c) \/ Log(c) \/ CloseReturn(c)

(* The owner has no more to do, and no worker is left. *)
Finished ==
  /\ pc[Main] = "gone"
  /\ \A w \in Workers : pc[w] \in {"none", "done"}
  /\ UNCHANGED vars

Next ==
  \/ Open \/ OpenThrow \/ Destroy
  \/ \E b \in BOOLEAN : Run(b)
  \/ MainStep
  \/ SpuriousWakeup
  \/ \E w \in Workers : WorkerStep(w) \/ Ready(w) \/ PollFail(w)
  \/ \E c \in Closers : Close(c) \/ CloserStep(c)
  \/ Finished

Spec == Init /\ [][Next]_vars

(* Code that can run runs, a signal raised is handled, and a finite timeout *)
(* passes.  The Log's mutex is held for one write at a time: no worker, nor *)
(* the owner, is passed over for ever when it asks for it.  Events,         *)
(* spurious wakeups and calls of close may never come.                      *)
FairSpec ==
  /\ Spec
  /\ WF_vars(MainStep)
  /\ \A w \in Workers : WF_vars(WorkerStep(w))
  /\ \A c \in Closers : WF_vars(CloserStep(c))
  /\ \A p \in Workers \cup {Main} : SF_vars(LogLock(p))
-----------------------------------------------------------------------------
InWait == {"wait", "test", "sleep", "asleep", "woken"}

(* Whenever wait looks at numWorkers_, it is the number of workers that     *)
(* have not gone through its decrement in serverDone, however late run      *)
(* counted them and however early they ended.                               *)
CountAtWait ==
  pc[Main] \in InWait =>
    numWorkers = Cardinality(Workers \ Decremented)

(* When wait has returned, no worker is still in the Manager's code (its    *)
(* notify_all included): the Manager may be destroyed.  When it is, also    *)
(* after an exception, none is left, and as long as one is, the socket they *)
(* all accept from is open.                                                 *)
WaitedThenGone ==
  /\ pc[Main] = "waited" => \A w \in Workers : pc[w] = "done"
  /\ ~listening => \A w \in Workers : pc[w] \in {"none", "done"}

(* close never signals a thread that wait has already joined, however many  *)
(* workers end by an error meanwhile, if there was something between wait   *)
(* and its joins when close was called.  It stays there while close runs as *)
(* a handler on its thread; not so when close runs on a thread apart, where *)
(* the workers may end, and wait join them, once state_ is stored.          *)
SignalsLiveThreads ==
  \A c \in Closers :
    pc[c] = "kill" /\ nextKill[c] <= killEnd[c] => nextKill[c] \notin joined \/ late[c]

(* Once close has set S_STOPPING and every call of it has returned, every   *)
(* worker that was started ends, and so does every worker run starts later. *)
StopAfterClose ==
  (state = "S_STOPPING" /\ \A c \in Closers : pc[c] = "returned")
    ~> (\A w \in Workers : pc[w] \in {"none", "done"})

(* When every worker has ended, wait comes to its end. *)
WaitReturns ==
  (pc[Main] \in InWait /\ \A w \in Workers : pc[w] = "done")
    ~> (pc[Main] \notin InWait)

(* "Do not block", says close of itself: it never waits for a mutex that    *)
(* the very thread it runs on has locked.                                   *)
CloseDoesNotBlock ==
  \A c \in Closers :
    pc[c] = "log" /\ LevelOf.log >= minLevel /\ logMu \in Workers \cup {Main} =>
      ThreadOf(logMu) # HostOf[c]

(* A worker is the loop that Server is: a signal, an error or a LOG never   *)
(* brings it round the look at closing() or back from its end.              *)
Place(w) ==
  CASE pc[w] \in {"poll", "polling"} -> "waiting"
    [] pc[w] \in {"broken", "failed", "exit"} -> "leaving"
    [] pc[w] \in {"notify", "done"} -> "gone"
    [] OTHER -> "busy"

AbstractLoop == INSTANCE Loop WITH
  Servers <- Workers, closing <- state = "S_STOPPING", place <- [w \in Workers |-> Place(w)]

ImplementsLoop == AbstractLoop!Spec
=============================================================================
