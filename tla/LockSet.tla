------------------------------ MODULE LockSet ------------------------------
(***************************************************************************)
(* ugorji/util/lockset: a table of mutexes found by key.                   *)
(*                                                                         *)
(* LockSet::locksFor(keys, lsl) sorts the keys, finds or makes the Lock of *)
(* each while it holds the table's own mutex mu_, remembers the Locks in   *)
(* lsl.locks_, and only then locks them one after the other.  The          *)
(* destructor of lsl unlocks them.  A step of this module is the code      *)
(* between two points where another thread can be told to have run.        *)
(***************************************************************************)
EXTENDS Integers, Sequences, FiniteSets

CONSTANTS
  Threads,     \* the threads that use the LockSet, each with one LockSetLock
  NumKeys,     \* how many non-empty strings are used as keys
  KeyVectors,  \* the vectors of keys a thread may pass to locksFor
  Locks,       \* the addresses make_unique<Lock> may return
  NoThread,    \* "unlocked", for a mutex
  NoLock,      \* "not found", for the table
  Discipline,  \* how a thread calls locksFor again on the same LockSetLock:
               \* "once", "ascending" or "any"
  MaxCalls     \* MaxCalls[t]: bound on the calls to locksFor of thread t

(* A key is a string, known here by its place in the order of std::sort.   *)
(* The empty string sorts before every other, and locksFor skips it.       *)
Keys == 1..NumKeys

NoKey == 0

Elements(s) == {s[n] : n \in 1..Len(s)}

Ascending(s) == \A m, n \in 1..Len(s) : m < n => s[m] <= s[n]

(* The count of each value, by which std::sort's result is a permutation. *)
SameElements(s, r) ==
  /\ Len(s) = Len(r)
  /\ \A x \in Elements(s) \cup Elements(r) :
       Cardinality({n \in 1..Len(s) : s[n] = x})
         = Cardinality({n \in 1..Len(r) : r[n] = x})

ASSUME NumKeysAssumption == NumKeys \in Nat

(* The vectors are closed under sorting. *)
ASSUME KeyVectorsAssumption ==
  /\ KeyVectors \subseteq Seq(Keys \cup {NoKey})
  /\ \A ks \in KeyVectors :
       \E s \in KeyVectors : Ascending(s) /\ SameElements(s, ks)

ASSUME NullAssumption == NoThread \notin Threads /\ NoLock \notin Locks

ASSUME DisciplineAssumption == Discipline \in {"once", "ascending", "any"}

ASSUME MaxCallsAssumption == MaxCalls \in [Threads -> Nat]

VARIABLES
  pc,      \* pc[t]: where thread t is
  todo,    \* todo[t]: what is left of the sorted keys in locksFor's first loop
  last,    \* last[t]: the key of the previous iteration
  locks,   \* locks[t]: lsl.locks_
  next,    \* next[t]: the index in locks_ of the next Lock to lock or unlock
  mu,      \* LockSet::mu_: the thread that has it locked
  table,   \* LockSet::m_: the Lock of each key
  owner,   \* owner[l]: the thread that has l->mu_ locked
  count,   \* count[l]: l->count_
  asked,   \* history: the keys asked for through t's LockSetLock
  calls    \* history: the calls of locksFor made by t

vars == <<pc, todo, last, locks, next, mu, table, owner, count, asked, calls>>

PC == {"idle", "enter", "register", "make", "lock", "held", "unlock", "uncount"}

TypeOK ==
  /\ pc \in [Threads -> PC]
  /\ todo \in [Threads -> Seq(Keys \cup {NoKey})]
  /\ last \in [Threads -> Keys \cup {NoKey}]
  /\ locks \in [Threads -> Seq(Locks)]
  /\ next \in [Threads -> Nat \ {0}]
  /\ mu \in Threads \cup {NoThread}
  /\ table \in [Keys -> Locks \cup {NoLock}]
  /\ owner \in [Locks -> Threads \cup {NoThread}]
  /\ count \in [Locks -> Int]
  /\ asked \in [Threads -> SUBSET Keys]
  /\ calls \in [Threads -> Nat]
  /\ \A t \in Threads : calls[t] <= MaxCalls[t]

Init ==
  /\ pc = [t \in Threads |-> "idle"]
  /\ todo = [t \in Threads |-> <<>>]
  /\ last = [t \in Threads |-> NoKey]
  /\ locks = [t \in Threads |-> <<>>]
  /\ next = [t \in Threads |-> 1]
  /\ mu = NoThread
  /\ table = [k \in Keys |-> NoLock]
  /\ owner = [l \in Locks |-> NoThread]
  /\ count = [l \in Locks |-> 0]
  /\ asked = [t \in Threads |-> {}]
  /\ calls = [t \in Threads |-> 0]
-----------------------------------------------------------------------------
(* The code shared by the steps. *)

(* Mutant: the vector is not sorted. *)
SortKeysNot(ks) == ks

(* std::sort on the caller's vector. *)
SortKeys(ks) == CHOOSE s \in KeyVectors : Ascending(s) /\ SameElements(s, ks)

(* The keys whose Lock is in t's LockSetLock. *)
KeysOf(t) == {k \in Keys : table[k] \in Elements(locks[t])}

(* Mutant: a repeated key is not passed over. *)
SkippedEmptyOnly(t, k) == k = NoKey

(* A key the loop of locksFor passes over: empty, or met just before. *)
Skipped(t, k) == k = NoKey \/ k = last[t]

(* The addresses at which a new Lock may be made. *)
Fresh == Locks \ {table[k] : k \in Keys}

(* Mutant: the second loop of locksFor starts one Lock too late. *)
FirstNewOneLate(t) == Len(locks[t]) + 2

(* Where the second loop of locksFor will start: initsz, counted from 1. *)
FirstNew(t) == Len(locks[t]) + 1

(* May t pass ks to locksFor now?  A second call before the destructor is  *)
(* possible in the code (initsz is there for it); "ascending" is the rule  *)
(* that keeps the order of acquisition global.                             *)
MayCall(t, ks) ==
  \/ pc[t] = "idle"
  \/ /\ pc[t] = "held"
     /\ \/ Discipline = "any"
        \/ /\ Discipline = "ascending"
           /\ \A k \in KeysOf(t), x \in Elements(ks) \ {NoKey} : k < x
-----------------------------------------------------------------------------
(* locksFor is called: initsz is read and the keys are sorted. *)
Call(t, ks) ==
  /\ MayCall(t, ks)
  /\ calls[t] < MaxCalls[t]
  /\ pc' = [pc EXCEPT ![t] = "enter"]
  /\ todo' = [todo EXCEPT ![t] = SortKeys(ks)]
  /\ next' = [next EXCEPT ![t] = FirstNew(t)]
  /\ asked' = [asked EXCEPT ![t] = @ \cup (Elements(ks) \ {NoKey})]
  /\ calls' = [calls EXCEPT ![t] = @ + 1]
  /\ UNCHANGED <<last, locks, mu, table, owner, count>>

(* Mutant: locksFor does not lock mu_. *)
MuFreeAlways == TRUE

(* mu_.lock() returns only when no thread has mu_. *)
MuFree == mu = NoThread

Enter(t) ==
  /\ pc[t] = "enter"
  /\ MuFree
  /\ mu' = t
  /\ last' = [last EXCEPT ![t] = NoKey]
  /\ pc' = [pc EXCEPT ![t] = "register"]
  /\ UNCHANGED <<todo, locks, next, table, owner, count, asked, calls>>

(* An iteration of the loop that only continues. *)
Skip(t) ==
  /\ pc[t] = "register"
  /\ todo[t] # <<>>
  /\ Skipped(t, Head(todo[t]))
  /\ todo' = [todo EXCEPT ![t] = Tail(@)]
  /\ UNCHANGED <<pc, last, locks, next, mu, table, owner, count, asked, calls>>

(* lockFor returns l with its count raised, and l is pushed on locks_. *)
Push(t, l) ==
  /\ last' = [last EXCEPT ![t] = Head(todo[t])]
  /\ locks' = [locks EXCEPT ![t] = Append(@, l)]
  /\ todo' = [todo EXCEPT ![t] = Tail(@)]
  /\ pc' = [pc EXCEPT ![t] = "register"]

(* Mutant: what m_.find returns is not compared with m_.end(). *)
FindUnchecked(t) ==
  /\ pc[t] = "register"
  /\ todo[t] # <<>>
  /\ ~Skipped(t, Head(todo[t]))
  /\ Push(t, table[Head(todo[t])])
  /\ UNCHANGED <<next, mu, table, owner, count, asked, calls>>

(* lockFor finds the key in m_ ... *)
Find(t) ==
  /\ pc[t] = "register"
  /\ todo[t] # <<>>
  /\ ~Skipped(t, Head(todo[t]))
  /\ LET l == table[Head(todo[t])] IN
       /\ l # NoLock
       /\ Push(t, l)
       /\ count' = [count EXCEPT ![l] = @ + 1]
  /\ UNCHANGED <<next, mu, table, owner, asked, calls>>

(* ... or does not ... *)
Miss(t) ==
  /\ pc[t] = "register"
  /\ todo[t] # <<>>
  /\ ~Skipped(t, Head(todo[t]))
  /\ table[Head(todo[t])] = NoLock
  /\ pc' = [pc EXCEPT ![t] = "make"]
  /\ UNCHANGED <<todo, last, locks, next, mu, table, owner, count, asked, calls>>

(* ... and then makes a Lock and enters it in m_. *)
Make(t, l) ==
  /\ pc[t] = "make"
  /\ l \in Fresh
  /\ table' = [table EXCEPT ![Head(todo[t])] = l]
  /\ owner' = [owner EXCEPT ![l] = NoThread]
  /\ count' = [count EXCEPT ![l] = 1]
  /\ Push(t, l)
  /\ UNCHANGED <<next, mu, asked, calls>>

(* mu_.unlock() after the loop *)
Leave(t) ==
  /\ pc[t] = "register"
  /\ todo[t] = <<>>
  /\ mu' = NoThread
  /\ pc' = [pc EXCEPT ![t] = "lock"]
  /\ UNCHANGED <<todo, last, locks, next, table, owner, count, asked, calls>>

(* lsl.locks_[i]->mu_.lock(), in the second loop of locksFor *)
LockNext(t) ==
  /\ pc[t] = "lock"
  /\ next[t] <= Len(locks[t])
  /\ owner[locks[t][next[t]]] = NoThread
  /\ owner' = [owner EXCEPT ![locks[t][next[t]]] = t]
  /\ next' = [next EXCEPT ![t] = @ + 1]
  /\ UNCHANGED <<pc, todo, last, locks, mu, table, count, asked, calls>>

(* locksFor returns. *)
Return(t) ==
  /\ pc[t] = "lock"
  /\ next[t] > Len(locks[t])
  /\ pc' = [pc EXCEPT ![t] = "held"]
  /\ UNCHANGED <<todo, last, locks, next, mu, table, owner, count, asked, calls>>

(* ~LockSetLock *)
Destroy(t) ==
  /\ pc[t] = "held"
  /\ pc' = [pc EXCEPT ![t] = "unlock"]
  /\ next' = [next EXCEPT ![t] = 1]
  /\ asked' = [asked EXCEPT ![t] = {}]
  /\ UNCHANGED <<todo, last, locks, mu, table, owner, count, calls>>

(* Mutant: count_ is lowered before mu_ is unlocked. *)
UnlockNextUncountFirst(t) ==
  /\ pc[t] = "unlock"
  /\ next[t] <= Len(locks[t])
  /\ count' = [count EXCEPT ![locks[t][next[t]]] = @ - 1]
  /\ pc' = [pc EXCEPT ![t] = "uncount"]
  /\ UNCHANGED <<todo, last, locks, next, mu, table, owner, asked, calls>>

(* l->mu_.unlock() *)
UnlockNext(t) ==
  /\ pc[t] = "unlock"
  /\ next[t] <= Len(locks[t])
  /\ owner' = [owner EXCEPT ![locks[t][next[t]]] = NoThread]
  /\ pc' = [pc EXCEPT ![t] = "uncount"]
  /\ UNCHANGED <<todo, last, locks, next, mu, table, count, asked, calls>>

(* l->count_-- *)
Uncount(t) ==
  /\ pc[t] = "uncount"
  /\ count' = [count EXCEPT ![locks[t][next[t]]] = @ - 1]
  /\ next' = [next EXCEPT ![t] = @ + 1]
  /\ pc' = [pc EXCEPT ![t] = "unlock"]
  /\ UNCHANGED <<todo, last, locks, mu, table, owner, asked, calls>>

(* locks_.clear() *)
Clear(t) ==
  /\ pc[t] = "unlock"
  /\ next[t] > Len(locks[t])
  /\ locks' = [locks EXCEPT ![t] = <<>>]
  /\ next' = [next EXCEPT ![t] = 1]
  /\ pc' = [pc EXCEPT ![t] = "idle"]
  /\ UNCHANGED <<todo, last, mu, table, owner, count, asked, calls>>

(* A step of a thread that is in the code of LockSet, or whose scope ends. *)
Step(t) ==
  \/ Enter(t) \/ Skip(t) \/ Find(t) \/ Miss(t) \/ (\E l \in Locks : Make(t, l))
  \/ Leave(t) \/ LockNext(t) \/ Return(t)
  \/ Destroy(t) \/ UnlockNext(t) \/ Uncount(t) \/ Clear(t)

(* Every thread has made its calls and holds nothing: the model's end. *)
Finished ==
  /\ \A t \in Threads : pc[t] = "idle" /\ calls[t] = MaxCalls[t]
  /\ UNCHANGED vars

Next ==
  \/ \E t \in Threads : Step(t) \/ (\E ks \in KeyVectors : Call(t, ks))
  \/ Finished

Spec == Init /\ [][Next]_vars

(* A thread that can run runs, and a LockSetLock, which lives on the stack, *)
(* goes out of scope.  No mutex is assumed fair: with MaxCalls[t] calls    *)
(* each, the threads cannot keep one of them waiting for ever.              *)
FairSpec == Spec /\ \A t \in Threads : WF_vars(Step(t))
-----------------------------------------------------------------------------
(* The places in t's locks_ that count_ still counts. *)
CountedPlaces(t) ==
  IF pc[t] \in {"unlock", "uncount"}
  THEN next[t]..Len(locks[t]) ELSE 1..Len(locks[t])

(* The thread that t cannot go on without, or NoThread. *)
WaitsFor(t) ==
  IF pc[t] = "enter" THEN mu
  ELSE IF pc[t] = "lock" /\ next[t] <= Len(locks[t])
       THEN owner[locks[t][next[t]]] ELSE NoThread

(* When locksFor has returned to two threads, no key was asked for by both: *)
(* one key never leads to two Locks, and no Lock is left out of the second  *)
(* loop, whatever the threads were doing in the table at the same time.     *)
KeyExclusion ==
  \A t, u \in Threads :
    t # u /\ pc[t] = "held" /\ pc[u] = "held" => asked[t] \cap asked[u] = {}

(* No set of threads waits only for itself, so no subset of the threads is  *)
(* ever stuck (a thread waiting for itself included), while others go on.   *)
NoWaitCycle ==
  \A S \in SUBSET Threads : S # {} => \E t \in S : WaitsFor(t) \notin S

(* count_ is the number of LockSetLocks that a Lock could not be taken from *)
(* under: at zero, nobody has the Lock locked and nobody is about to.       *)
ZeroCountIsUnused ==
  \A l \in Locks : count[l] = 0 =>
    /\ owner[l] = NoThread
    /\ \A t \in Threads : \A n \in CountedPlaces(t) : locks[t][n] # l

(* Every call of locksFor returns. *)
CallsReturn ==
  \A t \in Threads : ((pc[t] = "enter") ~> (pc[t] = "held"))

(* LockSet implements exclusive possession of keys: a thread holds a key    *)
(* when it has the mutex of the key's Lock.                                 *)
HeldKeys(t) == {k \in Keys : table[k] # NoLock /\ owner[table[k]] = t}

Abstract == INSTANCE KeyLocks WITH
  want <- asked, holds <- [t \in Threads |-> HeldKeys(t)]

ImplementsKeyLocks == Abstract!Spec
=============================================================================
