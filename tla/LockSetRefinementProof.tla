----------------------- MODULE LockSetRefinementProof -----------------------
(***************************************************************************)
(* LockSet implements KeyLocks, for any number of threads, keys, vectors,  *)
(* calls and addresses, and whatever the discipline of the calls.          *)
(***************************************************************************)
EXTENDS LockSetProof

(* A thread has no Lock in locks_, and no key to look at, but for a key     *)
(* that it asked for; until its scope ends, which takes the wish away.      *)
WantedOK ==
  \A t \in Threads :
    /\ pc[t] \notin {"unlock", "uncount"} => KeysOf(t) \subseteq asked[t]
    /\ pc[t] \in {"enter", "register", "make"} =>
         Elements(todo[t]) \ {NoKey} \subseteq asked[t]

RInv == IInv /\ WantedOK

(* The keys of each thread, as KeyLocks sees them. *)
Holds == [t \in Threads |-> HeldKeys(t)]
-----------------------------------------------------------------------------
(* WantedOK is inductive, together with IInv. *)

LEMMA InitWanted == Init => WantedOK
<1> SUFFICES ASSUME Init, NEW t \in Threads PROVE KeysOf(t) = {} /\ pc[t] = "idle"
  BY DEF WantedOK
<1>1. Elements(locks[t]) = {}
  BY DEF Init, Elements
<1> QED
  BY <1>1 DEF Init, KeysOf

LEMMA CallKeepsWanted ==
  ASSUME RInv, NEW t \in Threads, NEW ks \in KeyVectors, Call(t, ks)
  PROVE  WantedOK'
<1>1. Elements(SortKeys(ks)) = Elements(ks)
  BY SortKeysSorts
<1>2. \A u \in Threads : KeysOf(u)' = KeysOf(u) /\ Elements(todo[u])' = Elements(todo'[u])
  BY DEF Call, KeysOf, Elements
<1>3. /\ todo'[t] = SortKeys(ks) /\ pc'[t] = "enter"
      /\ asked'[t] = asked[t] \cup (Elements(ks) \ {NoKey})
      /\ pc[t] \in {"idle", "held"}
  BY DEF Call, MayCall, RInv, IInv, TypeOK
<1>4. \A u \in Threads \ {t} :
        pc'[u] = pc[u] /\ asked'[u] = asked[u] /\ todo'[u] = todo[u]
  BY DEF Call, RInv, IInv, TypeOK
<1> QED
  BY <1>1, <1>2, <1>3, <1>4 DEF RInv, WantedOK

LEMMA SkipKeepsWanted ==
  ASSUME RInv, NEW t \in Threads, Skip(t)
  PROVE  WantedOK'
<1>1. Elements(todo'[t]) \subseteq Elements(todo[t])
  BY ElementsTail DEF RInv, IInv, TypeOK, Skip
<1>2. \A u \in Threads \ {t} : todo'[u] = todo[u]
  BY DEF RInv, IInv, TypeOK, Skip
<1>3. \A u \in Threads : KeysOf(u)' = KeysOf(u) /\ Elements(todo[u])' = Elements(todo'[u])
  BY DEF Skip, KeysOf, Elements
<1>4. pc' = pc /\ asked' = asked
  BY DEF Skip
<1> QED
  BY <1>1, <1>2, <1>3, <1>4 DEF RInv, WantedOK

(* Find and Make give t the Lock of the key at the head, and of no other. *)
LEMMA PushKeepsWanted ==
  ASSUME RInv, NEW t \in Threads, NEW l \in Locks, Push(t, l),
         todo[t] # <<>>, Head(todo[t]) \in Keys,
         \A k \in Keys : table'[k] = l => k = Head(todo[t]),
         \A u \in Threads, k \in Keys :
           table'[k] \in Elements(locks[u]) => table[k] \in Elements(locks[u]),
         asked' = asked, pc[t] \in {"register", "make"}
  PROVE  WantedOK'
<1>1. /\ locks'[t] = Append(locks[t], l)
      /\ todo'[t] = Tail(todo[t]) /\ pc'[t] = "register"
  BY DEF RInv, IInv, TypeOK, Push
<1>2. \A u \in Threads \ {t} :
        locks'[u] = locks[u] /\ todo'[u] = todo[u] /\ pc'[u] = pc[u]
  BY DEF RInv, IInv, TypeOK, Push
<1>3. Elements(locks'[t]) = Elements(locks[t]) \cup {l}
  BY <1>1, ElementsAppend DEF RInv, IInv, TypeOK
<1>4. Elements(todo[t]) = Elements(todo'[t]) \cup {Head(todo[t])}
  BY <1>1, ElementsTail DEF RInv, IInv, TypeOK
<1>5. \A u \in Threads : /\ KeysOf(u)' = {k \in Keys : table'[k] \in Elements(locks'[u])}
                         /\ Elements(todo[u])' = Elements(todo'[u])
  BY DEF KeysOf, Elements
<1>6. Head(todo[t]) # NoKey
  BY DEF Keys, NoKey
<1>7. Head(todo[t]) \in asked[t]
  BY <1>4, <1>6 DEF RInv, WantedOK
<1>8. KeysOf(t)' \subseteq KeysOf(t) \cup {Head(todo[t])}
  BY <1>3, <1>5 DEF KeysOf
<1>9. \A u \in Threads \ {t} : KeysOf(u)' \subseteq KeysOf(u)
  BY <1>2, <1>5 DEF KeysOf
<1> QED
  BY <1>1, <1>2, <1>4, <1>5, <1>7, <1>8, <1>9 DEF RInv, WantedOK

LEMMA FindKeepsWanted ==
  ASSUME RInv, NEW t \in Threads, Find(t)
  PROVE  WantedOK'
<1>1. Head(todo[t]) \in Keys /\ todo[t] # <<>>
  BY HeadTailProperties DEF RInv, IInv, TypeOK, Find, Skipped, NoKey, Keys
<1>2. /\ table[Head(todo[t])] \in Locks /\ Push(t, table[Head(todo[t])])
      /\ table' = table /\ asked' = asked /\ pc[t] = "register"
  BY <1>1 DEF RInv, IInv, TypeOK, Find
<1>3. \A k \in Keys : table[k] = table[Head(todo[t])] => k = Head(todo[t])
  BY <1>1, <1>2, NullAssumption DEF RInv, IInv, TableOK
<1> QED
  BY <1>1, <1>2, <1>3, PushKeepsWanted

LEMMA MakeKeepsWanted ==
  ASSUME RInv, NEW t \in Threads, NEW l \in Locks, Make(t, l)
  PROVE  WantedOK'
<1>1. Head(todo[t]) \in Keys /\ todo[t] # <<>>
  BY HeadTailProperties DEF RInv, IInv, TypeOK, MakeOK, Make, Skipped, NoKey, Keys
<1>2. /\ Push(t, l) /\ asked' = asked /\ pc[t] = "make"
      /\ table' = [table EXCEPT ![Head(todo[t])] = l]
      /\ table \in [Keys -> Locks \cup {NoLock}]
      /\ \A k \in Keys : table[k] # l
  BY DEF RInv, IInv, TypeOK, Make, Fresh
<1>3. \A k \in Keys : table'[k] = l => k = Head(todo[t])
  BY <1>1, <1>2
<1>4. ASSUME NEW u \in Threads PROVE l \notin Elements(locks[u])
  BY <1>2 DEF RInv, IInv, LocksOK, Elements
<1>5. \A u \in Threads, k \in Keys :
        table'[k] \in Elements(locks[u]) => table[k] \in Elements(locks[u])
  BY <1>1, <1>2, <1>4
<1> QED
  BY <1>1, <1>2, <1>3, <1>5, PushKeepsWanted

LEMMA DestroyKeepsWanted ==
  ASSUME RInv, NEW t \in Threads, Destroy(t)
  PROVE  WantedOK'
<1>1. \A u \in Threads : KeysOf(u)' = KeysOf(u) /\ Elements(todo[u])' = Elements(todo[u])
  BY DEF Destroy, KeysOf, Elements
<1>2. pc'[t] = "unlock" /\ \A u \in Threads \ {t} : pc'[u] = pc[u] /\ asked'[u] = asked[u]
  BY DEF Destroy, RInv, IInv, TypeOK
<1> QED
  BY <1>1, <1>2 DEF RInv, WantedOK

LEMMA ClearKeepsWanted ==
  ASSUME RInv, NEW t \in Threads, Clear(t)
  PROVE  WantedOK'
<1>1. /\ pc'[t] = "idle" /\ locks'[t] = <<>> /\ table' = table
      /\ asked' = asked /\ todo' = todo
  BY DEF Clear, RInv, IInv, TypeOK
<1>2. \A u \in Threads \ {t} : pc'[u] = pc[u] /\ locks'[u] = locks[u]
  BY DEF Clear, RInv, IInv, TypeOK
<1>3. \A u \in Threads \ {t} : KeysOf(u)' = KeysOf(u)
  BY <1>1, <1>2 DEF KeysOf, Elements
<1>4. KeysOf(t)' = {}
  BY <1>1 DEF KeysOf, Elements
<1>5. \A u \in Threads : Elements(todo[u])' = Elements(todo[u])
  BY <1>1 DEF Elements
<1> QED
  BY <1>1, <1>2, <1>3, <1>4, <1>5 DEF RInv, WantedOK

(* The other steps move neither Locks nor wishes. *)
LEMMA OtherKeepsWanted ==
  ASSUME RInv, NEW t \in Threads,
         \/ Enter(t) \/ Miss(t) \/ Leave(t) \/ LockNext(t) \/ Return(t)
         \/ UnlockNext(t) \/ Uncount(t)
  PROVE  WantedOK'
<1>1. locks' = locks /\ table' = table /\ todo' = todo /\ asked' = asked
  BY DEF Enter, Miss, Leave, LockNext, Return, UnlockNext, Uncount
<1>2. \A u \in Threads : KeysOf(u)' = KeysOf(u) /\ Elements(todo[u])' = Elements(todo[u])
  BY <1>1 DEF KeysOf, Elements
<1>3. \A u \in Threads \ {t} : pc'[u] = pc[u]
  BY DEF RInv, IInv, TypeOK, Enter, Miss, Leave, LockNext, Return, UnlockNext, Uncount
<1>4. /\ pc'[t] \notin {"unlock", "uncount"} => pc[t] \notin {"unlock", "uncount"}
      /\ pc'[t] \in {"enter", "register", "make"} =>
           pc[t] \in {"enter", "register", "make"}
  BY DEF RInv, IInv, TypeOK, Enter, Miss, Leave, LockNext, Return, UnlockNext, Uncount
<1> QED
  BY <1>1, <1>2, <1>3, <1>4 DEF RInv, WantedOK

LEMMA NextKeepsRInv == RInv /\ [Next]_vars => RInv'
<1> SUFFICES ASSUME RInv, [Next]_vars PROVE WantedOK'
  BY NextKeepsIInv DEF RInv
<1>1. CASE \E t \in Threads, ks \in KeyVectors : Call(t, ks)
  BY <1>1, CallKeepsWanted
<1>2. CASE \E t \in Threads : Step(t)
  <2> PICK t \in Threads : Step(t)
    BY <1>2
  <2> QED
    BY SkipKeepsWanted, FindKeepsWanted, MakeKeepsWanted, DestroyKeepsWanted,
       ClearKeepsWanted, OtherKeepsWanted
    DEF Step
<1>3. CASE UNCHANGED vars
  BY <1>3 DEF vars, RInv, WantedOK, KeysOf, Elements
<1> QED
  BY <1>1, <1>2, <1>3 DEF Next, Finished
-----------------------------------------------------------------------------
(* What a thread holds, and what it has asked for. *)

(* To whom locksFor has returned holds what it asked for, no less and no   *)
(* more; who has no LockSetLock holds nothing.                             *)
LEMMA HoldsAsked ==
  ASSUME RInv, NEW t \in Threads, pc[t] \in {"idle", "held"}
  PROVE  HeldKeys(t) = asked[t]
<1>1. ASSUME NEW k \in HeldKeys(t) PROVE k \in asked[t]
  <2>1. k \in Keys /\ table[k] \in Locks /\ owner[table[k]] = t
    BY <1>1 DEF HeldKeys, RInv, IInv, TypeOK
  <2>2. PICK n \in HeldPlaces(t) : locks[t][n] = table[k]
    BY <2>1 DEF RInv, IInv, HeldOK
  <2>3. k \in KeysOf(t)
    BY <2>1, <2>2 DEF HeldPlaces, KeysOf, Elements
  <2> QED
    BY <2>3 DEF RInv, WantedOK
<1>2. ASSUME NEW k \in asked[t] PROVE k \in HeldKeys(t)
  <2>1. k \in KeysOf(t) /\ pc[t] = "held"
    BY <1>2 DEF RInv, IInv, AskedOK
  <2>2. PICK n \in 1..Len(locks[t]) : locks[t][n] = table[k]
    BY <2>1 DEF KeysOf, Elements
  <2>3. n \in HeldPlaces(t)
    BY <2>1 DEF RInv, IInv, NextOK, TypeOK, HeldPlaces
  <2>4. owner[table[k]] = t
    BY <2>2, <2>3 DEF RInv, IInv, OwnerOK
  <2>5. table[k] # NoLock
    BY <2>2, NullAssumption, ElementOfSeq DEF RInv, IInv, TypeOK
  <2> QED
    BY <2>1, <2>4, <2>5 DEF KeysOf, HeldKeys
<1> QED
  BY <1>1, <1>2

(* The key of a Lock in locks_, and of no other. *)
LEMMA KeyOfPlace ==
  ASSUME RInv, NEW t \in Threads, NEW n \in 1..Len(locks[t])
  PROVE  /\ locks[t][n] \in Locks
         /\ \E k \in KeysOf(t) : \A j \in Keys : table[j] = locks[t][n] <=> j = k
<1>1. locks[t][n] \in Locks
  BY ElementOfSeq DEF RInv, IInv, TypeOK
<1>2. PICK k \in Keys : table[k] = locks[t][n]
  BY DEF RInv, IInv, LocksOK
<1>3. k \in KeysOf(t)
  BY <1>2 DEF KeysOf, Elements
<1>4. \A j \in Keys : table[j] = locks[t][n] <=> j = k
  BY <1>1, <1>2, NullAssumption DEF RInv, IInv, TableOK
<1> QED
  BY <1>1, <1>3, <1>4

(* How the keys held change with the mutexes and the table. *)
LEMMA HoldsUndisturbed ==
  ASSUME table' = table, owner' = owner
  PROVE  Holds' = Holds
BY DEF Holds, HeldKeys
-----------------------------------------------------------------------------
(* Every step of LockSet is a step of KeyLocks, or none. *)

LEMMA CallAsks ==
  ASSUME RInv, NEW t \in Threads, NEW ks \in KeyVectors, Call(t, ks)
  PROVE  \E S \in SUBSET Keys : Abstract!Ask(t, S)
<1>1. Holds' = Holds
  BY HoldsUndisturbed DEF Call
<1>2. Holds[t] = asked[t]
  BY HoldsAsked DEF Call, MayCall, Holds
<1>3. Elements(ks) \ {NoKey} \in SUBSET Keys
  BY ElementsOfVector
<1> QED
  BY <1>1, <1>2, <1>3 DEF Abstract!Ask, Call, Holds

LEMMA DestroyEndsScope ==
  ASSUME RInv, NEW t \in Threads, Destroy(t)
  PROVE  Abstract!EndScope(t)
<1>1. Holds' = Holds
  BY HoldsUndisturbed DEF Destroy
<1>2. Holds[t] = asked[t]
  BY HoldsAsked DEF Destroy, Holds
<1> QED
  BY <1>1, <1>2 DEF Abstract!EndScope, Destroy, Holds

LEMMA LockNextTakes ==
  ASSUME RInv, NEW t \in Threads, LockNext(t)
  PROVE  \E k \in Keys : Abstract!Take(t, k)
<1>1. next[t] \in 1..Len(locks[t]) /\ pc[t] = "lock"
  BY DEF LockNext, RInv, IInv, TypeOK
<1>2. PICK k \in KeysOf(t) : \A j \in Keys : table[j] = locks[t][next[t]] <=> j = k
  BY <1>1, KeyOfPlace
<1>3. k \in Keys /\ table[k] \in Locks /\ owner[table[k]] = NoThread
  BY <1>1, <1>2, KeyOfPlace DEF KeysOf, LockNext
<1>4. k \in asked[t]
  BY <1>1 DEF RInv, WantedOK
<1>5. owner' = [owner EXCEPT ![table[k]] = t] /\ table' = table /\ asked' = asked
  BY <1>2, <1>3 DEF LockNext
<1>6. \A u \in Threads : k \notin HeldKeys(u)
  BY <1>3, NullAssumption DEF HeldKeys
<1>7. ASSUME NEW u \in Threads, NEW j \in Keys \ {k}
      PROVE  j \in HeldKeys(u)' <=> j \in HeldKeys(u)
  <2>1. table[j] # table[k]
    BY <1>2, <1>3
  <2> QED
    BY <1>5, <2>1 DEF HeldKeys, RInv, IInv, TypeOK
<1>8. \A u \in Threads : k \in HeldKeys(u)' <=> u = t
  BY <1>3, <1>5, NullAssumption DEF HeldKeys, RInv, IInv, TypeOK
<1>9. \A u \in Threads : HeldKeys(u) \subseteq Keys /\ HeldKeys(u)' \subseteq Keys
  BY DEF HeldKeys, Keys
<1>10. /\ HeldKeys(t)' = HeldKeys(t) \cup {k}
       /\ \A u \in Threads \ {t} : HeldKeys(u)' = HeldKeys(u)
  BY <1>3, <1>6, <1>7, <1>8, <1>9
<1>11. Holds' = [Holds EXCEPT ![t] = @ \cup {k}]
  BY <1>10 DEF Holds
<1> QED
  BY <1>3, <1>4, <1>5, <1>6, <1>11 DEF Abstract!Take, Holds

LEMMA UnlockNextDrops ==
  ASSUME RInv, NEW t \in Threads, UnlockNext(t)
  PROVE  \E k \in Keys : Abstract!Drop(t, k)
<1>1. next[t] \in 1..Len(locks[t]) /\ pc[t] = "unlock"
  BY DEF UnlockNext, RInv, IInv, TypeOK
<1>2. PICK k \in KeysOf(t) : \A j \in Keys : table[j] = locks[t][next[t]] <=> j = k
  BY <1>1, KeyOfPlace
<1>3. k \in Keys /\ table[k] \in Locks /\ table[k] = locks[t][next[t]]
  BY <1>1, <1>2, KeyOfPlace DEF KeysOf
<1>4. owner[table[k]] = t
  <2>1. next[t] \in HeldPlaces(t)
    BY <1>1 DEF HeldPlaces, RInv, IInv, TypeOK
  <2> QED
    BY <1>3, <2>1 DEF RInv, IInv, OwnerOK
<1>5. asked[t] = {}
  BY <1>1 DEF RInv, IInv, AskedOK
<1>6. owner' = [owner EXCEPT ![table[k]] = NoThread] /\ table' = table /\ asked' = asked
  BY <1>3 DEF UnlockNext
<1>7. ASSUME NEW u \in Threads, NEW j \in Keys \ {k}
      PROVE  j \in HeldKeys(u)' <=> j \in HeldKeys(u)
  <2>1. table[j] # table[k]
    BY <1>2, <1>3
  <2> QED
    BY <1>6, <2>1 DEF HeldKeys, RInv, IInv, TypeOK
<1>8. \A u \in Threads : k \notin HeldKeys(u)' /\ (k \in HeldKeys(u) <=> u = t)
  BY <1>3, <1>4, <1>6, NullAssumption DEF HeldKeys, RInv, IInv, TypeOK
<1>9. \A u \in Threads : HeldKeys(u) \subseteq Keys /\ HeldKeys(u)' \subseteq Keys
  BY DEF HeldKeys, Keys
<1>10. /\ HeldKeys(t)' = HeldKeys(t) \ {k}
       /\ \A u \in Threads \ {t} : HeldKeys(u)' = HeldKeys(u)
  <2>1. ASSUME NEW j \in Keys
        PROVE  j \in HeldKeys(t)' <=> j \in HeldKeys(t) \ {k}
    BY <1>7, <1>8
  <2>2. ASSUME NEW u \in Threads \ {t}, NEW j \in Keys
        PROVE  j \in HeldKeys(u)' <=> j \in HeldKeys(u)
    BY <1>7, <1>8
  <2> QED
    BY <1>9, <2>1, <2>2
<1>11. Holds' = [Holds EXCEPT ![t] = @ \ {k}]
  BY <1>10 DEF Holds
<1> QED
  BY <1>3, <1>5, <1>6, <1>8, <1>11 DEF Abstract!Drop, Holds

(* A new Lock is nobody's, and of a key that nobody held. *)
LEMMA MakeStutters ==
  ASSUME RInv, NEW t \in Threads, NEW l \in Locks, Make(t, l)
  PROVE  UNCHANGED <<asked, Holds>>
<1>1. Head(todo[t]) \in Keys /\ table[Head(todo[t])] = NoLock
  BY HeadTailProperties DEF RInv, IInv, TypeOK, MakeOK, Make, Skipped, NoKey, Keys
<1>2. /\ table' = [table EXCEPT ![Head(todo[t])] = l]
      /\ owner' = [owner EXCEPT ![l] = NoThread]
      /\ asked' = asked
      /\ \A k \in Keys : table[k] # l
  BY DEF Make, Fresh
<1>3. ASSUME NEW u \in Threads, NEW k \in Keys
      PROVE  k \in HeldKeys(u)' <=> k \in HeldKeys(u)
  <2>1. CASE k = Head(todo[t])
    BY <1>1, <1>2, <2>1, NullAssumption DEF HeldKeys, RInv, IInv, TypeOK
  <2>2. CASE k # Head(todo[t])
    BY <1>1, <1>2, <2>2 DEF HeldKeys, RInv, IInv, TypeOK
  <2> QED
    BY <2>1, <2>2
<1>4. \A u \in Threads : HeldKeys(u) \subseteq Keys /\ HeldKeys(u)' \subseteq Keys
  BY DEF HeldKeys, Keys
<1>5. \A u \in Threads : HeldKeys(u)' = HeldKeys(u)
  BY <1>3, <1>4
<1> QED
  BY <1>2, <1>5 DEF Holds

LEMMA NextIsAbstract == RInv /\ [Next]_vars => [Abstract!Next]_(Abstract!vars)
<1> SUFFICES ASSUME RInv, [Next]_vars
             PROVE  Abstract!Next \/ UNCHANGED <<asked, Holds>>
  BY DEF Abstract!vars, Holds
<1>1. CASE \E t \in Threads, ks \in KeyVectors : Call(t, ks)
  BY <1>1, CallAsks DEF Abstract!Next
<1>2. ASSUME NEW t \in Threads, Step(t)
      PROVE  Abstract!Next \/ UNCHANGED <<asked, Holds>>
  <2>1. CASE LockNext(t)
    BY <2>1, LockNextTakes DEF Abstract!Next
  <2>2. CASE Destroy(t)
    BY <2>2, DestroyEndsScope DEF Abstract!Next
  <2>3. CASE UnlockNext(t)
    BY <2>3, UnlockNextDrops DEF Abstract!Next
  <2>4. CASE \E l \in Locks : Make(t, l)
    BY <2>4, MakeStutters
  <2>5. CASE \/ Enter(t) \/ Skip(t) \/ Find(t) \/ Miss(t) \/ Leave(t)
             \/ Return(t) \/ Uncount(t) \/ Clear(t)
    <3>1. table' = table /\ owner' = owner /\ asked' = asked
      BY <2>5 DEF Enter, Skip, Find, Miss, Leave, Return, Uncount, Clear
    <3> QED
      BY <3>1, HoldsUndisturbed
  <2> QED
    BY <1>2, <2>1, <2>2, <2>3, <2>4, <2>5 DEF Step
<1>3. CASE UNCHANGED vars
  BY <1>3, HoldsUndisturbed DEF vars
<1> QED
  BY <1>1, <1>2, <1>3 DEF Next, Finished

LEMMA InitIsAbstract == Init => Abstract!Init
<1> SUFFICES ASSUME Init, NEW t \in Threads PROVE HeldKeys(t) = {}
  BY DEF Init, Abstract!Init
<1> QED
  BY DEF Init, HeldKeys

(* Whatever threads, keys and calls there are, LockSet gives its callers    *)
(* keys one by one, each to one thread at a time, takes none away before    *)
(* the scope ends, and gives up then what was asked for and nothing else.   *)
THEOREM Refinement == Spec => ImplementsKeyLocks
<1>1. Init => RInv
  BY InitIInv, InitWanted DEF RInv
<1>2. Spec => []RInv
  BY <1>1, NextKeepsRInv, PTL DEF Spec
<1> QED
  BY <1>2, InitIsAbstract, NextIsAbstract, PTL DEF Spec, ImplementsKeyLocks, Abstract!Spec
=============================================================================
