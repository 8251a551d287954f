---------------------------- MODULE LockSetProof ----------------------------
(***************************************************************************)
(* Proofs about LockSet, for any number of threads, keys, vectors, calls   *)
(* and addresses: the types, the exclusion of two threads from one key,    *)
(* the absence of deadlock, and the count of a Lock.                       *)
(***************************************************************************)
EXTENDS LockSet, TLAPS, FiniteSetTheorems, SequenceTheorems, WellFoundedInduction

(* mu_ is held by the thread that is in the first loop of locksFor. *)
MutexOK ==
  \A t \in Threads : mu = t <=> pc[t] \in {"register", "make"}

(* The bounds of the index into locks_. *)
NextOK ==
  \A t \in Threads :
    /\ pc[t] = "idle" => locks[t] = <<>> /\ next[t] = 1
    /\ pc[t] = "held" => next[t] = Len(locks[t]) + 1
    /\ pc[t] = "uncount" => next[t] <= Len(locks[t])
    /\ next[t] <= Len(locks[t]) + 1

(* The thread that makes a Lock has looked for its key in vain. *)
MakeOK ==
  \A t \in Threads :
    pc[t] = "make" =>
      /\ todo[t] # <<>>
      /\ ~Skipped(t, Head(todo[t]))
      /\ table[Head(todo[t])] = NoLock

(* A Lock belongs to one key. *)
TableOK ==
  \A j, k \in Keys : table[j] = table[k] /\ table[j] # NoLock => j = k

(* Every Lock in a LockSetLock is the Lock of some key. *)
LocksOK ==
  \A t \in Threads : \A n \in 1..Len(locks[t]) :
    \E k \in Keys : table[k] = locks[t][n]

(* The places in t's locks_ whose Lock t has locked. *)
HeldPlaces(t) ==
  {n \in 1..Len(locks[t]) :
     \/ pc[t] = "unlock" /\ n >= next[t]
     \/ pc[t] = "uncount" /\ n > next[t]
     \/ pc[t] \notin {"unlock", "uncount"} /\ n < next[t]}

(* What a thread has locked is its own, and it has locked nothing twice. *)
OwnerOK ==
  \A t \in Threads : \A n \in HeldPlaces(t) :
    /\ owner[locks[t][n]] = t
    /\ \A m \in HeldPlaces(t) : locks[t][m] = locks[t][n] => m = n

(* What is locked is some thread's, in the places it has locked. *)
HeldOK ==
  \A l \in Locks, t \in Threads :
    owner[l] = t => \E n \in HeldPlaces(t) : locks[t][n] = l

(* A key passed over as a repetition has its Lock in the LockSetLock. *)
LastOK ==
  \A t \in Threads :
    pc[t] \in {"register", "make"} /\ last[t] # NoKey => last[t] \in KeysOf(t)

(* A key asked for is still to be looked at, or its Lock is in locks_. *)
AskedOK ==
  \A t \in Threads :
    /\ pc[t] \in {"idle", "unlock", "uncount"} => asked[t] = {}
    /\ \A k \in asked[t] :
         \/ k \in KeysOf(t)
         \/ pc[t] \in {"enter", "register", "make"} /\ k \in Elements(todo[t])

IInv ==
  /\ TypeOK /\ MutexOK /\ NextOK /\ MakeOK /\ TableOK
  /\ LocksOK /\ OwnerOK /\ HeldOK /\ LastOK /\ AskedOK

-----------------------------------------------------------------------------
(* What sorting does to the vector of keys. *)

(* Two sequences with the same counts have the same elements. *)
LEMMA SameElementsSameSet ==
  ASSUME NEW s \in Seq(Keys \cup {NoKey}), NEW r \in Seq(Keys \cup {NoKey}),
         SameElements(s, r)
  PROVE  Elements(s) = Elements(r)
<1> DEFINE Places(q, x) == {n \in 1..Len(q) : q[n] = x}
<1>1. ASSUME NEW q \in Seq(Keys \cup {NoKey}), NEW x
      PROVE  Cardinality(Places(q, x)) = 0 <=> x \notin Elements(q)
  <2>1. IsFiniteSet(1..Len(q))
    BY FS_Interval
  <2>2. IsFiniteSet(Places(q, x))
    BY <2>1, FS_Subset
  <2>3. Cardinality(Places(q, x)) = 0 <=> Places(q, x) = {}
    BY <2>2, FS_EmptySet
  <2> QED
    BY <2>3 DEF Elements
<1>2. \A x \in Elements(s) \cup Elements(r) :
        Cardinality(Places(s, x)) = Cardinality(Places(r, x))
  BY DEF SameElements
<1> HIDE DEF Places
<1> QED
  BY <1>1, <1>2

(* std::sort returns a vector of the same keys, in order. *)
LEMMA SortKeysSorts ==
  ASSUME NEW ks \in KeyVectors
  PROVE  /\ SortKeys(ks) \in Seq(Keys \cup {NoKey})
         /\ Ascending(SortKeys(ks))
         /\ Elements(SortKeys(ks)) = Elements(ks)
<1>1. /\ SortKeys(ks) \in KeyVectors
      /\ Ascending(SortKeys(ks)) /\ SameElements(SortKeys(ks), ks)
  BY KeyVectorsAssumption DEF SortKeys
<1> QED
  BY <1>1, KeyVectorsAssumption, SameElementsSameSet

(* A key that is asked for is a key. *)
LEMMA ElementsOfVector ==
  ASSUME NEW ks \in KeyVectors
  PROVE  Elements(ks) \ {NoKey} \subseteq Keys
BY KeyVectorsAssumption DEF Elements

(* How the elements of a sequence change at its ends. *)
LEMMA ElementsAppend ==
  ASSUME NEW S, NEW s \in Seq(S), NEW e \in S
  PROVE  Elements(Append(s, e)) = Elements(s) \cup {e}
BY AppendProperties DEF Elements

(* ... and at the other end. *)
LEMMA ElementsTail ==
  ASSUME NEW S, NEW s \in Seq(S), s # <<>>
  PROVE  Elements(s) = Elements(Tail(s)) \cup {Head(s)}
<1>1. /\ Len(s) \in Nat \ {0} /\ Head(s) = s[1]
      /\ Len(Tail(s)) = Len(s) - 1
      /\ \A i \in 1..Len(Tail(s)) : Tail(s)[i] = s[i + 1]
  BY HeadTailProperties, EmptySeq, LenProperties
<1>2. \A i \in 2..Len(s) : i - 1 \in 1..Len(Tail(s)) /\ Tail(s)[i - 1] = s[i]
  BY <1>1
<1>3. ASSUME NEW x \in Elements(s) PROVE x \in Elements(Tail(s)) \cup {Head(s)}
  <2>1. PICK i \in 1..Len(s) : s[i] = x
    BY DEF Elements
  <2>2. CASE i = 1
    BY <1>1, <2>1, <2>2
  <2>3. CASE i # 1
    BY <1>1, <1>2, <2>1, <2>3 DEF Elements
  <2> QED
    BY <2>2, <2>3
<1>4. ASSUME NEW x \in Elements(Tail(s)) \cup {Head(s)} PROVE x \in Elements(s)
  <2>1. CASE x = Head(s)
    BY <1>1, <2>1 DEF Elements
  <2>2. CASE x \in Elements(Tail(s))
    BY <1>1, <2>2 DEF Elements
  <2> QED
    BY <2>1, <2>2
<1> QED
  BY <1>3, <1>4
-----------------------------------------------------------------------------
(* A step that moves no mutex, and under which no thread gains or loses a  *)
(* place in locks_ whose Lock it has locked, keeps who has locked what.    *)
LEMMA HeldUndisturbed ==
  ASSUME IInv, owner' = owner,
         \A t \in Threads :
           /\ HeldPlaces(t)' = HeldPlaces(t)
           /\ \A n \in HeldPlaces(t) : locks'[t][n] = locks[t][n]
  PROVE  OwnerOK' /\ HeldOK'
<1>1. OwnerOK'
  BY DEF IInv, OwnerOK
<1>2. HeldOK'
  BY DEF IInv, HeldOK
<1> QED
  BY <1>1, <1>2

(* What Find and Make share: the key at the head of the sorted keys leaves *)
(* them, and its Lock l goes to the end of locks_.                         *)
LEMMA PushKeeps ==
  ASSUME IInv, NEW t \in Threads, NEW l \in Locks, Push(t, l),
         todo[t] # <<>>, Head(todo[t]) \in Keys,
         table'[Head(todo[t])] = l,
         \A k \in Keys : table'[k] = table[k] \/ table[k] = NoLock,
         asked' = asked, pc[t] \in {"register", "make"}
  PROVE  LocksOK' /\ LastOK' /\ AskedOK'
<1>1. /\ locks'[t] = Append(locks[t], l) /\ last'[t] = Head(todo[t])
      /\ todo'[t] = Tail(todo[t]) /\ pc'[t] = "register"
  BY DEF IInv, TypeOK, Push
<1>2. \A u \in Threads \ {t} :
        /\ locks'[u] = locks[u] /\ last'[u] = last[u]
        /\ todo'[u] = todo[u] /\ pc'[u] = pc[u]
  BY DEF IInv, TypeOK, Push
<1>3. /\ todo[t] \in Seq(Keys \cup {NoKey})
      /\ \A u \in Threads : locks[u] \in Seq(Locks)
  BY DEF IInv, TypeOK
<1>4. Elements(locks'[t]) = Elements(locks[t]) \cup {l}
  BY <1>1, <1>3, ElementsAppend
<1>5. Elements(todo[t]) = Elements(todo'[t]) \cup {Head(todo[t])}
  BY <1>1, <1>3, ElementsTail
<1>6. \A u \in Threads : /\ KeysOf(u)' = {k \in Keys : table'[k] \in Elements(locks'[u])}
                         /\ Elements(todo[u])' = Elements(todo'[u])
  BY DEF KeysOf, Elements
<1>7. \A u \in Threads : NoLock \notin Elements(locks[u])
  BY <1>3, ElementOfSeq, NullAssumption DEF Elements
<1>8. \A u \in Threads : KeysOf(u) \subseteq KeysOf(u)'
  BY <1>2, <1>4, <1>6, <1>7 DEF KeysOf
<1>9. Head(todo[t]) \in KeysOf(t)'
  BY <1>4, <1>6
<1>10. LocksOK'
  <2>1. ASSUME NEW u \in Threads, NEW n \in 1..Len(locks'[u])
        PROVE  \E k \in Keys : table'[k] = locks'[u][n]
    <3>1. CASE u = t /\ n = Len(locks[t]) + 1
      BY <1>1, <1>3, <3>1, AppendProperties
    <3>2. CASE ~(u = t /\ n = Len(locks[t]) + 1)
      <4>1. n \in 1..Len(locks[u]) /\ locks'[u][n] = locks[u][n]
        BY <1>1, <1>2, <1>3, <3>2, AppendProperties, LenProperties
      <4>2. locks[u][n] \in Locks
        BY <1>3, <4>1, ElementOfSeq
      <4> QED
        BY <4>1, <4>2, NullAssumption DEF IInv, LocksOK
    <3> QED
      BY <3>1, <3>2
  <2> QED
    BY <2>1 DEF LocksOK
<1>11. LastOK'
  BY <1>1, <1>2, <1>8, <1>9 DEF IInv, LastOK
<1>12. AskedOK'
  <2>1. ASSUME NEW u \in Threads, pc'[u] \in {"idle", "unlock", "uncount"}
        PROVE  asked'[u] = {}
    BY <1>1, <1>2, <2>1 DEF IInv, AskedOK
  <2>2. ASSUME NEW u \in Threads, NEW k \in asked'[u]
        PROVE  \/ k \in KeysOf(u)'
               \/ pc'[u] \in {"enter", "register", "make"} /\ k \in Elements(todo'[u])
    BY <1>1, <1>2, <1>5, <1>8, <1>9, <2>2 DEF IInv, AskedOK
  <2> QED
    BY <1>6, <2>1, <2>2 DEF AskedOK
<1> QED
  BY <1>10, <1>11, <1>12

(* One lemma for each action, with one step for each conjunct. *)
LEMMA CallKeepsIInv ==
  ASSUME IInv, NEW t \in Threads, NEW ks \in KeyVectors, Call(t, ks)
  PROVE  IInv'
<1>1. TypeOK'
  <2>1. SortKeys(ks) \in Seq(Keys \cup {NoKey})
    BY SortKeysSorts
  <2>2. Elements(ks) \ {NoKey} \subseteq Keys
    BY ElementsOfVector
  <2>3. Len(locks[t]) + 1 \in Nat \ {0}
    BY LenProperties DEF IInv, TypeOK
  <2>4. calls' \in [Threads -> Nat] /\ \A u \in Threads : calls'[u] <= MaxCalls[u]
    <3>1. calls[t] \in Nat /\ \A u \in Threads : calls[u] <= MaxCalls[u]
      BY DEF IInv, TypeOK
    <3>2. MaxCalls[t] \in Nat /\ calls[t] < MaxCalls[t]
      BY MaxCallsAssumption DEF Call
    <3>3. calls[t] + 1 \in Nat /\ calls[t] + 1 <= MaxCalls[t]
      BY <3>1, <3>2
    <3>4. calls' = [calls EXCEPT ![t] = calls[t] + 1] /\ calls \in [Threads -> Nat]
      BY DEF IInv, TypeOK, Call
    <3> QED
      BY <3>1, <3>3, <3>4
  <2>5. asked' \in [Threads -> SUBSET Keys]
    BY <2>2 DEF IInv, TypeOK, Call
  <2> QED
    BY <2>1, <2>3, <2>4, <2>5 DEF IInv, TypeOK, PC, Call, FirstNew
<1>2. MutexOK'
  BY DEF IInv, Call, MayCall, MutexOK
<1>3. NextOK'
  BY DEF IInv, TypeOK, NextOK, Call, FirstNew
<1>4. MakeOK'
  BY DEF IInv, TypeOK, MakeOK, Call, Skipped
<1>5. TableOK'
  BY DEF IInv, Call, TableOK
<1>6. LocksOK'
  BY DEF IInv, Call, LocksOK
<1>7. OwnerOK' /\ HeldOK'
  <2>1. \A u \in Threads : HeldPlaces(u)' = HeldPlaces(u)
    BY LenProperties DEF IInv, TypeOK, NextOK, Call, MayCall, FirstNew, HeldPlaces
  <2>2. \A u \in Threads : \A n \in HeldPlaces(u) : locks'[u][n] = locks[u][n]
    BY DEF IInv, TypeOK, Call
  <2> QED
    BY <2>1, <2>2, HeldUndisturbed DEF Call
<1>8. LastOK'
  BY DEF IInv, Call, LastOK, KeysOf
<1>9. AskedOK'
  <2>1. Elements(SortKeys(ks)) = Elements(ks)
    BY SortKeysSorts
  <2>2. \A u \in Threads : KeysOf(u)' = KeysOf(u)
    BY DEF Call, KeysOf
  <2>3. todo'[t] = SortKeys(ks) /\ pc'[t] = "enter"
    BY DEF Call, IInv, TypeOK
  <2>4. asked'[t] = asked[t] \cup (Elements(ks) \ {NoKey})
    BY DEF Call, IInv, TypeOK
  <2>5. \A k \in asked[t] : k \in KeysOf(t)
    BY DEF IInv, AskedOK, Call, MayCall
  <2>6. \A u \in Threads \ {t} :
          pc'[u] = pc[u] /\ asked'[u] = asked[u] /\ todo'[u] = todo[u]
    BY DEF Call, IInv, TypeOK
  <2>7. \A u \in Threads : Elements(todo[u])' = Elements(todo'[u])
    BY DEF Elements
  <2>8. ASSUME NEW u \in Threads, NEW k \in asked'[u]
        PROVE  \/ k \in KeysOf(u)'
               \/ pc'[u] \in {"enter", "register", "make"} /\ k \in Elements(todo'[u])
    BY <2>1, <2>2, <2>3, <2>4, <2>5, <2>6, <2>8 DEF IInv, AskedOK
  <2>9. ASSUME NEW u \in Threads, pc'[u] \in {"idle", "unlock", "uncount"}
        PROVE  asked'[u] = {}
    BY <2>3, <2>6, <2>9 DEF IInv, AskedOK
  <2> QED
    BY <2>7, <2>8, <2>9 DEF AskedOK
<1> QED
  BY <1>1, <1>2, <1>3, <1>4, <1>5, <1>6, <1>7, <1>8, <1>9 DEF IInv

(* locksFor locks mu_: the thread is the only one in the table. *)
LEMMA EnterKeepsIInv ==
  ASSUME IInv, NEW t \in Threads, Enter(t)
  PROVE  IInv'
<1>1. TypeOK'
  BY DEF IInv, Enter, TypeOK, PC
<1>2. MutexOK'
  BY NullAssumption DEF IInv, Enter, MuFree, TypeOK, MutexOK
<1>3. NextOK'
  BY DEF IInv, Enter, NextOK
<1>4. MakeOK'
  BY DEF IInv, Enter, MakeOK, Skipped
<1>5. TableOK'
  BY DEF IInv, Enter, TableOK
<1>6. LocksOK'
  BY DEF IInv, Enter, LocksOK
<1>7. OwnerOK' /\ HeldOK'
  <2>1. \A u \in Threads : HeldPlaces(u)' = HeldPlaces(u)
    BY LenProperties DEF IInv, TypeOK, NextOK, Enter, HeldPlaces
  <2>2. \A u \in Threads : \A n \in HeldPlaces(u) : locks'[u][n] = locks[u][n]
    BY DEF IInv, TypeOK, Enter
  <2> QED
    BY <2>1, <2>2, HeldUndisturbed DEF Enter
<1>8. LastOK'
  BY DEF IInv, Enter, TypeOK, LastOK, KeysOf
<1>9. AskedOK'
  BY DEF IInv, Enter, AskedOK, KeysOf
<1> QED
  BY <1>1, <1>2, <1>3, <1>4, <1>5, <1>6, <1>7, <1>8, <1>9 DEF IInv

(* A key passed over is empty, or is the last one and has its Lock. *)
LEMMA SkipKeepsIInv ==
  ASSUME IInv, NEW t \in Threads, Skip(t)
  PROVE  IInv'
<1>1. TypeOK'
  BY DEF IInv, Skip, TypeOK
<1>2. MutexOK'
  BY DEF IInv, Skip, MutexOK
<1>3. NextOK'
  BY DEF IInv, Skip, NextOK
<1>4. MakeOK'
  BY DEF IInv, Skip, MakeOK, MutexOK
<1>5. TableOK'
  BY DEF IInv, Skip, TableOK
<1>6. LocksOK'
  BY DEF IInv, Skip, LocksOK
<1>7. OwnerOK' /\ HeldOK'
  <2>1. \A u \in Threads : HeldPlaces(u)' = HeldPlaces(u)
    BY LenProperties DEF IInv, TypeOK, NextOK, Skip, HeldPlaces
  <2>2. \A u \in Threads : \A n \in HeldPlaces(u) : locks'[u][n] = locks[u][n]
    BY DEF IInv, TypeOK, Skip
  <2> QED
    BY <2>1, <2>2, HeldUndisturbed DEF Skip
<1>8. LastOK'
  BY DEF IInv, Skip, LastOK, KeysOf
<1>9. AskedOK'
  <2>1. Elements(todo[t]) = Elements(todo'[t]) \cup {Head(todo[t])}
    BY ElementsTail DEF IInv, TypeOK, Skip
  <2>2. \A u \in Threads : KeysOf(u)' = KeysOf(u)
    BY DEF Skip, KeysOf
  <2>3. Head(todo[t]) = NoKey \/ Head(todo[t]) \in KeysOf(t)
    BY DEF IInv, LastOK, Skip, Skipped
  <2>4. \A u \in Threads \ {t} : todo'[u] = todo[u]
    BY DEF Skip, IInv, TypeOK
  <2>5. \A u \in Threads : asked[u] \subseteq Keys /\ NoKey \notin asked[u]
    BY DEF IInv, TypeOK, Keys, NoKey
  <2>6. pc' = pc /\ asked' = asked /\ pc[t] = "register"
    BY DEF Skip
  <2>7. \A u \in Threads : Elements(todo[u])' = Elements(todo'[u])
    BY DEF Elements
  <2>8. ASSUME NEW u \in Threads, NEW k \in asked'[u]
        PROVE  \/ k \in KeysOf(u)'
               \/ pc'[u] \in {"enter", "register", "make"} /\ k \in Elements(todo'[u])
    BY <2>1, <2>2, <2>3, <2>4, <2>5, <2>6, <2>8 DEF IInv, AskedOK
  <2>9. ASSUME NEW u \in Threads, pc'[u] \in {"idle", "unlock", "uncount"}
        PROVE  asked'[u] = {}
    BY <2>6, <2>9 DEF IInv, AskedOK
  <2> QED
    BY <2>7, <2>8, <2>9 DEF AskedOK
<1> QED
  BY <1>1, <1>2, <1>3, <1>4, <1>5, <1>6, <1>7, <1>8, <1>9 DEF IInv

(* The Lock of the key is in the table. *)
LEMMA FindKeepsIInv ==
  ASSUME IInv, NEW t \in Threads, Find(t)
  PROVE  IInv'
<1>1. TypeOK'
  BY DEF IInv, Find, Push, Skipped, TypeOK
<1>2. MutexOK'
  BY DEF IInv, Find, Push, MutexOK
<1>3. NextOK'
  BY DEF IInv, Find, Push, TypeOK, NextOK
<1>4. MakeOK'
  BY DEF IInv, Find, Push, MakeOK, MutexOK
<1>5. TableOK'
  BY DEF IInv, Find, TableOK
<1>6. LocksOK' /\ LastOK' /\ AskedOK'
  <2>1. Head(todo[t]) \in Keys /\ todo[t] # <<>>
    BY HeadTailProperties DEF IInv, TypeOK, Find, Skipped, NoKey, Keys
  <2>2. \E x \in Locks : Push(t, x) /\ table'[Head(todo[t])] = x
    BY <2>1 DEF IInv, TypeOK, Find
  <2> QED
    BY <2>1, <2>2, PushKeeps DEF IInv, TypeOK, MakeOK, Find
<1>7. OwnerOK' /\ HeldOK'
  <2>1. \A u \in Threads : locks[u] \in Seq(Locks) /\ Len(locks[u]) \in Nat
    BY LenProperties DEF IInv, TypeOK
  <2>2. \E x \in Locks : Push(t, x)
    BY HeadTailProperties DEF IInv, TypeOK, Find, Skipped, Keys, NoKey
  <2>3. \A u \in Threads : \A n \in 1..Len(locks[u]) : locks'[u][n] = locks[u][n]
    BY <2>1, <2>2, AppendProperties DEF IInv, TypeOK, Push
  <2>4. \A u \in Threads : HeldPlaces(u)' = HeldPlaces(u)
    <3>1. /\ Len(locks'[t]) = Len(locks[t]) + 1 /\ pc'[t] = "register"
          /\ pc[t] \in {"register", "make"} /\ next' = next
      BY <2>1, <2>2, AppendProperties DEF IInv, TypeOK, Push, Find
    <3>2. \A u \in Threads \ {t} : locks'[u] = locks[u] /\ pc'[u] = pc[u]
      BY <2>2 DEF IInv, TypeOK, Push
    <3>3. \A u \in Threads : next[u] \in Nat /\ next[u] <= Len(locks[u]) + 1
      BY DEF IInv, TypeOK, NextOK
    <3>4. HeldPlaces(t)' = HeldPlaces(t)
      BY <2>1, <3>1, <3>3 DEF HeldPlaces
    <3>5. \A u \in Threads \ {t} : HeldPlaces(u)' = HeldPlaces(u)
      BY <3>1, <3>2 DEF HeldPlaces
    <3> QED
      BY <3>4, <3>5
  <2> QED
    BY <2>3, <2>4, HeldUndisturbed DEF Find, HeldPlaces
<1> QED
  BY <1>1, <1>2, <1>3, <1>4, <1>5, <1>6, <1>7 DEF IInv

(* The key is not in the table, and nobody else can put it there. *)
LEMMA MissKeepsIInv ==
  ASSUME IInv, NEW t \in Threads, Miss(t)
  PROVE  IInv'
<1>1. TypeOK'
  BY DEF IInv, Miss, TypeOK, PC
<1>2. MutexOK'
  BY DEF IInv, Miss, MutexOK
<1>3. NextOK'
  BY DEF IInv, Miss, NextOK
<1>4. MakeOK'
  BY DEF IInv, Miss, Skipped, MakeOK
<1>5. TableOK'
  BY DEF IInv, Miss, TableOK
<1>6. LocksOK'
  BY DEF IInv, Miss, LocksOK
<1>7. OwnerOK' /\ HeldOK'
  <2>1. \A u \in Threads : HeldPlaces(u)' = HeldPlaces(u)
    BY LenProperties DEF IInv, TypeOK, NextOK, Miss, HeldPlaces
  <2>2. \A u \in Threads : \A n \in HeldPlaces(u) : locks'[u][n] = locks[u][n]
    BY DEF IInv, TypeOK, Miss
  <2> QED
    BY <2>1, <2>2, HeldUndisturbed DEF Miss
<1>8. LastOK'
  BY DEF IInv, Miss, LastOK, KeysOf
<1>9. AskedOK'
  BY DEF IInv, Miss, AskedOK, KeysOf
<1> QED
  BY <1>1, <1>2, <1>3, <1>4, <1>5, <1>6, <1>7, <1>8, <1>9 DEF IInv

(* The new Lock is nobody's and of no other key. *)
LEMMA MakeKeepsIInv ==
  ASSUME IInv, NEW t \in Threads, NEW l \in Locks, Make(t, l)
  PROVE  IInv'
<1>1. TypeOK'
  BY NullAssumption, SMTT(20) DEF IInv, Make, Push, Fresh, Skipped, TypeOK, PC,
     MakeOK, Keys, NoKey
<1>2. MutexOK'
  BY DEF IInv, Make, Push, MutexOK
<1>3. NextOK'
  BY DEF IInv, Make, Push, TypeOK, NextOK
<1>4. MakeOK'
  BY DEF IInv, Make, Push, TypeOK, MakeOK, MutexOK
<1>5. TableOK'
  BY DEF IInv, Make, Fresh, TableOK
<1>6. LocksOK' /\ LastOK' /\ AskedOK'
  <2>1. Head(todo[t]) \in Keys /\ todo[t] # <<>>
    BY HeadTailProperties DEF IInv, TypeOK, MakeOK, Make, Skipped, NoKey, Keys
  <2>2. \E x \in Locks : Push(t, x) /\ table'[Head(todo[t])] = x
    BY <2>1 DEF IInv, TypeOK, Make
  <2> QED
    BY <2>1, <2>2, PushKeeps DEF IInv, TypeOK, MakeOK, Make
<1>7. OwnerOK' /\ HeldOK'
  <2>1. \A u \in Threads : locks[u] \in Seq(Locks) /\ Len(locks[u]) \in Nat
    BY LenProperties DEF IInv, TypeOK
  <2>2. \E x \in Locks : Push(t, x)
    BY HeadTailProperties DEF IInv, TypeOK, Make
  <2>3. \A u \in Threads : \A n \in 1..Len(locks[u]) : locks'[u][n] = locks[u][n]
    BY <2>1, <2>2, AppendProperties DEF IInv, TypeOK, Push
  <2>4. \A u \in Threads : HeldPlaces(u)' = HeldPlaces(u)
    <3>1. /\ Len(locks'[t]) = Len(locks[t]) + 1 /\ pc'[t] = "register"
          /\ pc[t] \in {"register", "make"} /\ next' = next
      BY <2>1, <2>2, AppendProperties DEF IInv, TypeOK, Push, Make
    <3>2. \A u \in Threads \ {t} : locks'[u] = locks[u] /\ pc'[u] = pc[u]
      BY <2>2 DEF IInv, TypeOK, Push
    <3>3. \A u \in Threads : next[u] \in Nat /\ next[u] <= Len(locks[u]) + 1
      BY DEF IInv, TypeOK, NextOK
    <3>4. HeldPlaces(t)' = HeldPlaces(t)
      BY <2>1, <3>1, <3>3 DEF HeldPlaces
    <3>5. \A u \in Threads \ {t} : HeldPlaces(u)' = HeldPlaces(u)
      BY <3>1, <3>2 DEF HeldPlaces
    <3> QED
      BY <3>4, <3>5
  <2>5. owner[l] = NoThread
    <3>1. \A k \in Keys : table[k] # l
      BY DEF Make, Fresh
    <3>2. \A u \in Threads : \A n \in HeldPlaces(u) : locks[u][n] # l
      BY <3>1 DEF IInv, LocksOK, HeldPlaces
    <3> QED
      BY <3>2 DEF IInv, TypeOK, HeldOK
  <2>6. owner' = owner
    BY <2>5 DEF IInv, TypeOK, Make
  <2> QED
    BY <2>3, <2>4, <2>6, HeldUndisturbed DEF HeldPlaces
<1> QED
  BY <1>1, <1>2, <1>3, <1>4, <1>5, <1>6, <1>7 DEF IInv

(* With no key left, every key asked for has its Lock in locks_. *)
LEMMA LeaveKeepsIInv ==
  ASSUME IInv, NEW t \in Threads, Leave(t)
  PROVE  IInv'
<1>1. TypeOK'
  BY DEF IInv, Leave, TypeOK, PC
<1>2. MutexOK'
  BY NullAssumption DEF IInv, Leave, TypeOK, MutexOK
<1>3. NextOK'
  BY DEF IInv, Leave, NextOK
<1>4. MakeOK'
  BY DEF IInv, Leave, MakeOK, Skipped
<1>5. TableOK'
  BY DEF IInv, Leave, TableOK
<1>6. LocksOK'
  BY DEF IInv, Leave, LocksOK
<1>7. OwnerOK' /\ HeldOK'
  <2>1. \A u \in Threads : HeldPlaces(u)' = HeldPlaces(u)
    BY LenProperties DEF IInv, TypeOK, NextOK, Leave, HeldPlaces
  <2>2. \A u \in Threads : \A n \in HeldPlaces(u) : locks'[u][n] = locks[u][n]
    BY DEF IInv, TypeOK, Leave
  <2> QED
    BY <2>1, <2>2, HeldUndisturbed DEF Leave
<1>8. LastOK'
  BY DEF IInv, Leave, LastOK, KeysOf
<1>9. AskedOK'
  BY DEF IInv, Leave, AskedOK, KeysOf, Elements
<1> QED
  BY <1>1, <1>2, <1>3, <1>4, <1>5, <1>6, <1>7, <1>8, <1>9 DEF IInv

(* The Lock that is locked was free. *)
LEMMA LockNextKeepsIInv ==
  ASSUME IInv, NEW t \in Threads, LockNext(t)
  PROVE  IInv'
<1>1. TypeOK'
  BY NullAssumption, SMTT(20) DEF IInv, LockNext, TypeOK, PC, MakeOK, Keys, NoKey
<1>2. MutexOK'
  BY DEF IInv, LockNext, MutexOK
<1>3. NextOK'
  BY DEF IInv, LockNext, TypeOK, NextOK
<1>4. MakeOK'
  BY DEF IInv, LockNext, MakeOK, Skipped
<1>5. TableOK'
  BY DEF IInv, LockNext, TableOK
<1>6. LocksOK'
  BY DEF IInv, LockNext, LocksOK
<1>7. OwnerOK'
  <2> DEFINE l == locks[t][next[t]]
  <2>1. /\ HeldPlaces(t)' = HeldPlaces(t) \cup {next[t]}
        /\ \A u \in Threads \ {t} : HeldPlaces(u)' = HeldPlaces(u)
    BY LenProperties DEF IInv, TypeOK, LockNext, HeldPlaces
  <2>2. l \in Locks /\ owner[l] = NoThread
    BY ElementOfSeq DEF IInv, TypeOK, LockNext
  <2>3. \A u \in Threads : \A n \in HeldPlaces(u) : locks[u][n] # l
    BY <2>2, NullAssumption DEF IInv, OwnerOK
  <2>4. owner' = [owner EXCEPT ![l] = t] /\ locks' = locks
    BY DEF LockNext
  <2>5. owner'[l] = t /\ \A x \in Locks : x # l => owner'[x] = owner[x]
    BY <2>2, <2>4 DEF IInv, TypeOK
  <2>6. \A u \in Threads : \A n \in HeldPlaces(u) : locks[u][n] \in Locks
    BY ElementOfSeq DEF IInv, TypeOK, HeldPlaces
  <2> HIDE DEF l
  <2>7. ASSUME NEW u \in Threads, NEW n \in HeldPlaces(u)' PROVE owner'[locks[u][n]] = u
    BY <2>1, <2>3, <2>5, <2>6 DEF IInv, OwnerOK, l
  <2>8. ASSUME NEW u \in Threads, NEW n \in HeldPlaces(u)', NEW m \in HeldPlaces(u)',
               locks[u][m] = locks[u][n]
        PROVE  m = n
    BY <2>1, <2>3, <2>8 DEF IInv, OwnerOK, l
  <2> QED
    BY <2>4, <2>7, <2>8 DEF OwnerOK
<1>8. HeldOK'
  <2> DEFINE l == locks[t][next[t]]
  <2>1. /\ HeldPlaces(t)' = HeldPlaces(t) \cup {next[t]}
        /\ \A u \in Threads \ {t} : HeldPlaces(u)' = HeldPlaces(u)
    BY LenProperties DEF IInv, TypeOK, LockNext, HeldPlaces
  <2>2. l \in Locks /\ owner[l] = NoThread
    BY ElementOfSeq DEF IInv, TypeOK, LockNext
  <2>3. \A u \in Threads : \A n \in HeldPlaces(u) : locks[u][n] # l
    BY <2>2, NullAssumption DEF IInv, OwnerOK
  <2>4. owner' = [owner EXCEPT ![l] = t] /\ locks' = locks
    BY DEF LockNext
  <2>5. owner'[l] = t /\ \A x \in Locks : x # l => owner'[x] = owner[x]
    BY <2>2, <2>4 DEF IInv, TypeOK

  <2>6. ASSUME NEW x \in Locks, NEW u \in Threads, owner'[x] = u
        PROVE  \E n \in HeldPlaces(u)' : locks[u][n] = x
    <3>1. CASE x = l
      BY <2>1, <2>5, <2>6, <3>1
    <3>2. CASE x # l
      BY <2>1, <2>5, <2>6, <3>2 DEF IInv, HeldOK
    <3> QED
      BY <3>1, <3>2
  <2> QED
    BY <2>4, <2>6 DEF HeldOK
<1>9. LastOK'
  BY DEF IInv, LockNext, LastOK, KeysOf
<1>10. AskedOK'
  BY DEF IInv, LockNext, AskedOK, KeysOf
<1> QED
  BY <1>1, <1>2, <1>3, <1>4, <1>5, <1>6, <1>7, <1>8, <1>9, <1>10 DEF IInv

(* Every Lock in locks_ is locked. *)
LEMMA ReturnKeepsIInv ==
  ASSUME IInv, NEW t \in Threads, Return(t)
  PROVE  IInv'
<1>1. TypeOK'
  BY DEF IInv, Return, TypeOK, PC
<1>2. MutexOK'
  BY DEF IInv, Return, MutexOK
<1>3. NextOK'
  BY DEF IInv, Return, TypeOK, NextOK
<1>4. MakeOK'
  BY DEF IInv, Return, MakeOK, Skipped
<1>5. TableOK'
  BY DEF IInv, Return, TableOK
<1>6. LocksOK'
  BY DEF IInv, Return, LocksOK
<1>7. OwnerOK' /\ HeldOK'
  <2>1. \A u \in Threads : HeldPlaces(u)' = HeldPlaces(u)
    BY LenProperties DEF IInv, TypeOK, NextOK, Return, HeldPlaces
  <2>2. \A u \in Threads : \A n \in HeldPlaces(u) : locks'[u][n] = locks[u][n]
    BY DEF IInv, TypeOK, Return
  <2> QED
    BY <2>1, <2>2, HeldUndisturbed DEF Return
<1>8. LastOK'
  BY DEF IInv, Return, LastOK, KeysOf
<1>9. AskedOK'
  BY DEF IInv, Return, AskedOK, KeysOf
<1> QED
  BY <1>1, <1>2, <1>3, <1>4, <1>5, <1>6, <1>7, <1>8, <1>9 DEF IInv

(* The keys asked for are given up before the first Lock is. *)
LEMMA DestroyKeepsIInv ==
  ASSUME IInv, NEW t \in Threads, Destroy(t)
  PROVE  IInv'
<1>1. TypeOK'
  BY DEF IInv, Destroy, TypeOK, PC
<1>2. MutexOK'
  BY DEF IInv, Destroy, MutexOK
<1>3. NextOK'
  BY DEF IInv, Destroy, TypeOK, PC, NextOK, Keys
<1>4. MakeOK'
  BY DEF IInv, Destroy, MakeOK, Skipped
<1>5. TableOK'
  BY DEF IInv, Destroy, TableOK
<1>6. LocksOK'
  BY DEF IInv, Destroy, LocksOK
<1>7. OwnerOK' /\ HeldOK'
  <2>1. \A u \in Threads : HeldPlaces(u)' = HeldPlaces(u)
    BY LenProperties DEF IInv, TypeOK, NextOK, Destroy, HeldPlaces
  <2>2. \A u \in Threads : \A n \in HeldPlaces(u) : locks'[u][n] = locks[u][n]
    BY DEF IInv, TypeOK, Destroy
  <2> QED
    BY <2>1, <2>2, HeldUndisturbed DEF Destroy
<1>8. LastOK'
  BY DEF IInv, Destroy, LastOK, KeysOf
<1>9. AskedOK'
  BY DEF IInv, Destroy, TypeOK, AskedOK, KeysOf
<1> QED
  BY <1>1, <1>2, <1>3, <1>4, <1>5, <1>6, <1>7, <1>8, <1>9 DEF IInv

(* The Lock that is unlocked is in no other place of locks_. *)
LEMMA UnlockNextKeepsIInv ==
  ASSUME IInv, NEW t \in Threads, UnlockNext(t)
  PROVE  IInv'
<1>1. TypeOK'
  BY DEF IInv, UnlockNext, TypeOK, PC
<1>2. MutexOK'
  BY DEF IInv, UnlockNext, MutexOK
<1>3. NextOK'
  BY DEF IInv, UnlockNext, NextOK
<1>4. MakeOK'
  BY DEF IInv, UnlockNext, MakeOK, Skipped
<1>5. TableOK'
  BY DEF IInv, UnlockNext, TableOK
<1>6. LocksOK'
  BY DEF IInv, UnlockNext, LocksOK
<1>7. OwnerOK'
  <2>1. /\ HeldPlaces(t)' = HeldPlaces(t) \ {next[t]}
        /\ \A u \in Threads \ {t} : HeldPlaces(u)' = HeldPlaces(u)
    BY LenProperties DEF IInv, TypeOK, UnlockNext, HeldPlaces
  <2>2. next[t] \in HeldPlaces(t)
    BY DEF IInv, TypeOK, UnlockNext, HeldPlaces
  <2>3. \A u \in Threads : \A n \in HeldPlaces(u)' : locks[u][n] # locks[t][next[t]]
    BY <2>1, <2>2 DEF IInv, OwnerOK
  <2>4. \A l \in Locks : l # locks[t][next[t]] => owner'[l] = owner[l]
    BY DEF IInv, TypeOK, UnlockNext
  <2>5. \A u \in Threads : \A n \in HeldPlaces(u) : locks[u][n] \in Locks
    BY ElementOfSeq DEF IInv, TypeOK, HeldPlaces
  <2> QED
    BY <2>1, <2>3, <2>4, <2>5 DEF IInv, OwnerOK, UnlockNext
<1>8. HeldOK'
  <2> DEFINE l == locks[t][next[t]]
  <2>1. /\ HeldPlaces(t)' = HeldPlaces(t) \ {next[t]}
        /\ \A u \in Threads \ {t} : HeldPlaces(u)' = HeldPlaces(u)
    BY LenProperties DEF IInv, TypeOK, UnlockNext, HeldPlaces
  <2>2. l \in Locks
    BY ElementOfSeq DEF IInv, TypeOK, UnlockNext
  <2>3. owner' = [owner EXCEPT ![l] = NoThread] /\ locks' = locks
    BY DEF UnlockNext
  <2>4. owner'[l] = NoThread /\ \A x \in Locks : x # l => owner'[x] = owner[x]
    BY <2>2, <2>3 DEF IInv, TypeOK
  <2>5. ASSUME NEW x \in Locks, NEW u \in Threads, owner'[x] = u
        PROVE  \E n \in HeldPlaces(u)' : locks[u][n] = x
    <3>1. x # l /\ owner[x] = u
      BY <2>4, <2>5, NullAssumption
    <3>2. PICK n \in HeldPlaces(u) : locks[u][n] = x
      BY <3>1 DEF IInv, HeldOK
    <3> QED
      BY <2>1, <3>1, <3>2
  <2> QED
    BY <2>3, <2>5 DEF HeldOK
<1>9. LastOK'
  BY DEF IInv, UnlockNext, LastOK, KeysOf
<1>10. AskedOK'
  BY NullAssumption, SMTT(20) DEF IInv, UnlockNext, TypeOK, PC, AskedOK, KeysOf,
     Elements, MakeOK, NextOK, LocksOK, LastOK, MutexOK, Keys, NoKey
<1> QED
  BY <1>1, <1>2, <1>3, <1>4, <1>5, <1>6, <1>7, <1>8, <1>9, <1>10 DEF IInv

(* The count moves, and no mutex does. *)
LEMMA UncountKeepsIInv ==
  ASSUME IInv, NEW t \in Threads, Uncount(t)
  PROVE  IInv'
<1>1. TypeOK'
  BY ElementOfSeq DEF IInv, TypeOK, PC, NextOK, Uncount
<1>2. MutexOK'
  BY DEF IInv, Uncount, MutexOK
<1>3. NextOK'
  BY NullAssumption, SMTT(20) DEF IInv, Uncount, TypeOK, PC, NextOK, Keys, NoKey
<1>4. MakeOK'
  BY DEF IInv, Uncount, MakeOK, Skipped
<1>5. TableOK'
  BY DEF IInv, Uncount, TableOK
<1>6. LocksOK'
  BY DEF IInv, Uncount, LocksOK
<1>7. OwnerOK' /\ HeldOK'
  <2>1. \A u \in Threads : HeldPlaces(u)' = HeldPlaces(u)
    BY LenProperties DEF IInv, TypeOK, NextOK, Uncount, HeldPlaces
  <2>2. \A u \in Threads : \A n \in HeldPlaces(u) : locks'[u][n] = locks[u][n]
    BY DEF IInv, TypeOK, Uncount
  <2> QED
    BY <2>1, <2>2, HeldUndisturbed DEF Uncount
<1>8. LastOK'
  BY DEF IInv, Uncount, LastOK, KeysOf
<1>9. AskedOK'
  BY NullAssumption, SMTT(20) DEF IInv, Uncount, TypeOK, PC, AskedOK, KeysOf,
     Elements, MakeOK, NextOK, LocksOK, LastOK, MutexOK, Keys, NoKey
<1> QED
  BY <1>1, <1>2, <1>3, <1>4, <1>5, <1>6, <1>7, <1>8, <1>9 DEF IInv

(* Nothing is locked when locks_ is cleared. *)
LEMMA ClearKeepsIInv ==
  ASSUME IInv, NEW t \in Threads, Clear(t)
  PROVE  IInv'
<1>1. TypeOK'
  BY DEF IInv, Clear, TypeOK, PC
<1>2. MutexOK'
  BY DEF IInv, Clear, MutexOK
<1>3. NextOK'
  BY DEF IInv, Clear, TypeOK, NextOK
<1>4. MakeOK'
  BY DEF IInv, Clear, MakeOK, Skipped
<1>5. TableOK'
  BY DEF IInv, Clear, TableOK
<1>6. LocksOK'
  BY DEF IInv, Clear, LocksOK
<1>7. OwnerOK' /\ HeldOK'
  <2>1. \A u \in Threads : HeldPlaces(u)' = HeldPlaces(u)
    BY LenProperties DEF IInv, TypeOK, NextOK, Clear, HeldPlaces
  <2>2. \A u \in Threads : \A n \in HeldPlaces(u) : locks'[u][n] = locks[u][n]
    BY LenProperties DEF IInv, TypeOK, Clear, HeldPlaces
  <2> QED
    BY <2>1, <2>2, HeldUndisturbed DEF Clear
<1>8. LastOK'
  BY DEF IInv, Clear, LastOK, KeysOf
<1>9. AskedOK'
  <2>1. asked'[t] = {} /\ asked' = asked
    BY DEF IInv, AskedOK, Clear
  <2>2. \A u \in Threads \ {t} :
          pc'[u] = pc[u] /\ KeysOf(u)' = KeysOf(u) /\ todo'[u] = todo[u]
    BY DEF Clear, KeysOf, IInv, TypeOK
  <2> QED
    BY <2>1, <2>2 DEF IInv, AskedOK, Elements, Clear
<1> QED
  BY <1>1, <1>2, <1>3, <1>4, <1>5, <1>6, <1>7, <1>8, <1>9 DEF IInv
-----------------------------------------------------------------------------
(* The invariant is inductive. *)
LEMMA InitIInv == Init => IInv
<1> SUFFICES ASSUME Init PROVE IInv
  OBVIOUS
<1>1. TypeOK
  BY MaxCallsAssumption DEF Init, TypeOK, PC
<1>2. \A t \in Threads : HeldPlaces(t) = {}
  BY DEF Init, HeldPlaces
<1>3. OwnerOK /\ HeldOK
  BY <1>2, NullAssumption DEF Init, OwnerOK, HeldOK
<1>4. MutexOK /\ NextOK /\ MakeOK /\ TableOK /\ LocksOK /\ LastOK /\ AskedOK
  BY NullAssumption
  DEF Init, MutexOK, NextOK, MakeOK, TableOK, LocksOK, LastOK, AskedOK
<1> QED
  BY <1>1, <1>3, <1>4 DEF IInv

(* A step that changes nothing. *)
LEMMA StutterKeepsIInv == IInv /\ UNCHANGED vars => IInv'
<1> SUFFICES ASSUME IInv, UNCHANGED vars PROVE IInv'
  OBVIOUS
<1>1. TypeOK' /\ MutexOK' /\ NextOK' /\ MakeOK' /\ TableOK' /\ LocksOK'
  BY DEF IInv, vars, TypeOK, MutexOK, NextOK, MakeOK, Skipped, TableOK, LocksOK
<1>2. OwnerOK' /\ HeldOK' /\ LastOK' /\ AskedOK'
  BY DEF IInv, vars, OwnerOK, HeldOK, HeldPlaces, LastOK, AskedOK, KeysOf,
     Elements
<1> QED
  BY <1>1, <1>2 DEF IInv

(* Every step of the specification. *)
LEMMA NextKeepsIInv == IInv /\ [Next]_vars => IInv'
<1> SUFFICES ASSUME IInv, [Next]_vars PROVE IInv'
  OBVIOUS
<1>1. CASE \E t \in Threads, ks \in KeyVectors : Call(t, ks)
  BY <1>1, CallKeepsIInv
<1>2. CASE \E t \in Threads : Step(t)
  <2> PICK t \in Threads : Step(t)
    BY <1>2
  <2> QED
    BY EnterKeepsIInv, SkipKeepsIInv, FindKeepsIInv, MissKeepsIInv,
       MakeKeepsIInv, LeaveKeepsIInv, LockNextKeepsIInv, ReturnKeepsIInv,
       DestroyKeepsIInv, UnlockNextKeepsIInv, UncountKeepsIInv, ClearKeepsIInv
    DEF Step
<1>3. CASE UNCHANGED vars
  BY <1>3, StutterKeepsIInv
<1> QED
  BY <1>1, <1>2, <1>3 DEF Next, Finished

(* The invariant holds in every reachable state. *)
LEMMA Inductive == Spec => []IInv
BY InitIInv, NextKeepsIInv, PTL DEF Spec

(* The variables of every reachable state have their types: no null Lock    *)
(* comes into a LockSetLock, and no index runs past the end of locks_.      *)
THEOREM Typing == Spec => []TypeOK
<1>1. IInv => TypeOK
  BY DEF IInv
<1> QED
  BY <1>1, Inductive, PTL

(* Two threads that locksFor has returned to never asked for the same key:  *)
(* each key asked for has its Lock in locks_, every Lock there is locked by *)
(* the thread itself, and a mutex has one owner.                            *)
THEOREM Exclusion == Spec => []KeyExclusion
<1>1. ASSUME IInv PROVE KeyExclusion
  <2> SUFFICES ASSUME NEW t \in Threads, NEW u \in Threads,
                      pc[t] = "held", pc[u] = "held",
                      NEW k \in asked[t], k \in asked[u]
               PROVE  t = u
    BY DEF KeyExclusion
  <2>1. ASSUME NEW v \in Threads, pc[v] = "held", k \in asked[v]
        PROVE  owner[table[k]] = v
    <3>1. k \in KeysOf(v)
      BY <1>1, <2>1 DEF IInv, AskedOK
    <3>2. PICK n \in 1..Len(locks[v]) : locks[v][n] = table[k]
      BY <3>1 DEF KeysOf, Elements
    <3>3. n \in HeldPlaces(v)
      BY <1>1, <2>1 DEF IInv, NextOK, TypeOK, HeldPlaces
    <3> QED
      BY <1>1, <3>2, <3>3 DEF IInv, OwnerOK
  <2> QED
    BY <2>1
<1> QED
  BY <1>1, Inductive, PTL
-----------------------------------------------------------------------------
(* LockSet cannot deadlock when a thread calls locksFor once in a scope,   *)
(* or asks for greater keys each time: the Locks of a LockSetLock are then *)
(* in the order of their keys, so a thread that waits has locked only      *)
(* Locks of lesser keys than that of the one it waits for.                 *)

(* The Locks of t's LockSetLock are in the order of their keys ...          *)
LocksInOrder(t) ==
  \A m, n \in 1..Len(locks[t]), j, k \in Keys :
    m < n /\ table[j] = locks[t][m] /\ table[k] = locks[t][n] => j < k

(* ... and the keys that locksFor has still to look up are greater.         *)
TodoIsGreater(t) ==
  pc[t] \in {"enter", "register", "make"} =>
    /\ Ascending(todo[t])
    /\ \A x \in Elements(todo[t]), j \in KeysOf(t) :
         \/ x = NoKey
         \/ pc[t] # "enter" /\ x = last[t]
         \/ j < x

OrderOK == \A t \in Threads : LocksInOrder(t) /\ TodoIsGreater(t)
-----------------------------------------------------------------------------
(* A set of numbers that is not empty has a smallest one. *)
LEMMA Smallest ==
  ASSUME NEW T \in SUBSET Nat, T # {}
  PROVE  \E x \in T : \A y \in T : x <= y
<1> DEFINE R == OpToRel(<, Nat)
<1>1. IsWellFoundedOn(R, Nat)
  BY NatLessThanWellFounded
<1>2. PICK x \in T : \A y \in T : <<y, x>> \notin R
  BY <1>1, WFMin
<1>3. \A y \in T : y < x => <<y, x>> \in R
  BY DEF OpToRel
<1>4. x \in Nat /\ T \subseteq Nat /\ \A y \in T : ~(y < x)
  BY <1>2, <1>3
<1> HIDE DEF R
<1>5. \A y \in T : y \in Nat /\ ~(y < x)
  BY <1>4
<1>6. \A y \in T : x <= y
  BY <1>4, <1>5
<1> QED
  BY <1>6

(* The tail of an ascending sequence ascends, from its head. *)
LEMMA AscendingTail ==
  ASSUME NEW s \in Seq(Keys \cup {NoKey}), s # <<>>, Ascending(s)
  PROVE  /\ Ascending(Tail(s))
         /\ \A x \in Elements(Tail(s)) : Head(s) <= x
<1>1. /\ Len(s) \in Nat \ {0} /\ Head(s) = s[1]
      /\ Len(Tail(s)) = Len(s) - 1
      /\ \A i \in 1..Len(Tail(s)) : Tail(s)[i] = s[i + 1]
  BY HeadTailProperties, EmptySeq, LenProperties
<1> QED
  BY <1>1 DEF Ascending, Elements
-----------------------------------------------------------------------------
(* The steps that can disturb the order. locksFor is called with keys above *)
(* those held, or with none held.                                           *)
LEMMA CallKeepsOrder ==
  ASSUME IInv, OrderOK, Discipline # "any",
         NEW t \in Threads, NEW ks \in KeyVectors, Call(t, ks)
  PROVE  OrderOK'
<1>1. /\ pc'[t] = "enter" /\ todo'[t] = SortKeys(ks)
      /\ table' = table /\ locks' = locks /\ last' = last
      /\ \A u \in Threads \ {t} : pc'[u] = pc[u] /\ todo'[u] = todo[u]
  BY DEF IInv, TypeOK, Call
<1>2. \A u \in Threads : LocksInOrder(u)'
  BY <1>1 DEF OrderOK, LocksInOrder
<1>3. \A u \in Threads : KeysOf(u)' = KeysOf(u)
  BY <1>1 DEF KeysOf
<1>4. \A x \in Elements(ks) \ {NoKey}, j \in KeysOf(t) : j < x
  <2>1. CASE pc[t] = "idle"
    BY <2>1 DEF IInv, NextOK, KeysOf, Elements
  <2>2. CASE pc[t] # "idle"
    BY <2>2, DisciplineAssumption DEF Call, MayCall
  <2> QED
    BY <2>1, <2>2
<1>5. TodoIsGreater(t)'
  <2>1. Ascending(todo[t])' /\ Elements(todo[t])' = Elements(ks)
    BY <1>1, SortKeysSorts DEF Ascending, Elements
  <2> QED
    BY <1>3, <1>4, <2>1 DEF TodoIsGreater
<1>6. \A u \in Threads \ {t} : TodoIsGreater(u)'
  BY <1>1, <1>3 DEF OrderOK, TodoIsGreater, Ascending, Elements
<1> QED
  BY <1>2, <1>5, <1>6 DEF OrderOK

(* A key passed over takes nothing from the order of the rest. *)
LEMMA SkipKeepsOrder ==
  ASSUME IInv, OrderOK, NEW t \in Threads, Skip(t)
  PROVE  OrderOK'
<1>1. /\ pc' = pc /\ todo'[t] = Tail(todo[t]) /\ todo[t] # <<>>
      /\ table' = table /\ locks' = locks /\ last' = last /\ pc[t] = "register"
      /\ \A u \in Threads \ {t} : todo'[u] = todo[u]
  BY DEF IInv, TypeOK, Skip
<1>2. \A u \in Threads : LocksInOrder(u)'
  BY <1>1 DEF OrderOK, LocksInOrder
<1>3. \A u \in Threads : KeysOf(u)' = KeysOf(u)
  BY <1>1 DEF KeysOf
<1>4. todo[t] \in Seq(Keys \cup {NoKey})
  BY DEF IInv, TypeOK
<1>5. Elements(todo'[t]) \subseteq Elements(todo[t]) /\ Ascending(todo'[t])
  BY <1>1, <1>4, ElementsTail, AscendingTail DEF OrderOK, TodoIsGreater
<1>6. TodoIsGreater(t)'
  <2>1. Elements(todo[t])' = Elements(todo'[t]) /\ Ascending(todo[t])' = Ascending(todo'[t])
    BY DEF Elements, Ascending
  <2> QED
    BY <1>1, <1>3, <1>5, <2>1 DEF OrderOK, TodoIsGreater
<1>7. \A u \in Threads \ {t} : TodoIsGreater(u)'
  BY <1>1, <1>3 DEF OrderOK, TodoIsGreater, Ascending, Elements
<1> QED
  BY <1>2, <1>6, <1>7 DEF OrderOK

(* Find and Make: the Lock pushed on locks_ is that of a greater key than   *)
(* those whose Locks are there.                                             *)
LEMMA PushKeepsOrder ==
  ASSUME IInv, IInv', OrderOK, NEW t \in Threads, NEW l \in Locks, Push(t, l),
         pc[t] \in {"register", "make"}, todo[t] # <<>>,
         ~Skipped(t, Head(todo[t])), Head(todo[t]) \in Keys,
         table'[Head(todo[t])] = l,
         \A k \in Keys : k = Head(todo[t]) \/ table'[k] = table[k],
         \A u \in Threads : \A n \in 1..Len(locks[u]) :
           locks[u][n] = l => table[Head(todo[t])] = l
  PROVE  OrderOK'
<1> DEFINE h == Head(todo[t])
<1>1. /\ locks'[t] = Append(locks[t], l) /\ last'[t] = h
      /\ todo'[t] = Tail(todo[t]) /\ pc'[t] = "register"
      /\ \A u \in Threads \ {t} :
           /\ locks'[u] = locks[u] /\ last'[u] = last[u]
           /\ todo'[u] = todo[u] /\ pc'[u] = pc[u]
  BY DEF IInv, TypeOK, Push
<1>2. /\ todo[t] \in Seq(Keys \cup {NoKey})
      /\ \A u \in Threads : locks[u] \in Seq(Locks) /\ Len(locks[u]) \in Nat
  BY LenProperties DEF IInv, TypeOK
<1>3. \A u \in Threads : \A n \in 1..Len(locks[u]), k \in Keys :
        table'[k] = locks[u][n] => table[k] = locks[u][n]
  OBVIOUS
<1>4. \A j, k \in Keys : table'[j] = table'[k] /\ table'[j] # NoLock => j = k
  BY DEF IInv, TableOK
<1>5. \A j \in KeysOf(t) : j < h
  <2>1. h \in Elements(todo[t])
    BY <1>2, ElementsTail
  <2> QED
    BY <2>1 DEF OrderOK, TodoIsGreater, Skipped
<1>6. \A u \in Threads \ {t} : LocksInOrder(u)'
  BY <1>1, <1>3 DEF OrderOK, LocksInOrder
<1>7. LocksInOrder(t)'
  <2>1. SUFFICES ASSUME NEW m \in 1..Len(locks'[t]), NEW n \in 1..Len(locks'[t]),
                        NEW j \in Keys, NEW k \in Keys, m < n,
                        table'[j] = locks'[t][m], table'[k] = locks'[t][n]
                 PROVE  j < k
    BY DEF LocksInOrder
  <2>2. Len(locks'[t]) = Len(locks[t]) + 1 /\ m \in 1..Len(locks[t])
    BY <1>1, <1>2, <2>1, AppendProperties
  <2>3. table[j] = locks[t][m]
    BY <1>1, <1>2, <1>3, <2>1, <2>2, AppendProperties
  <2>4. CASE n = Len(locks[t]) + 1
    <3>1. locks'[t][n] = l
      BY <1>1, <1>2, <2>4, AppendProperties
    <3>2. k = h
      BY <1>4, <2>1, <3>1, NullAssumption
    <3>3. j \in KeysOf(t)
      BY <2>2, <2>3 DEF KeysOf, Elements
    <3> QED
      BY <1>5, <3>2, <3>3
  <2>5. CASE n # Len(locks[t]) + 1
    <3>1. n \in 1..Len(locks[t]) /\ locks'[t][n] = locks[t][n]
      BY <1>1, <1>2, <2>2, <2>5, AppendProperties
    <3>2. table[k] = locks[t][n]
      BY <1>3, <2>1, <3>1
    <3> QED
      BY <2>1, <2>2, <2>3, <3>1, <3>2 DEF OrderOK, LocksInOrder
  <2> QED
    BY <2>4, <2>5
<1>8. \A u \in Threads :
        /\ KeysOf(u)' = {k \in Keys : table'[k] \in Elements(locks'[u])}
        /\ Elements(todo[u])' = Elements(todo'[u])
        /\ Ascending(todo[u])' = Ascending(todo'[u])
  BY DEF KeysOf, Elements, Ascending
<1>9. \A u \in Threads : \A x \in Elements(locks[u]), k \in Keys :
        table'[k] = x => table[k] = x
  BY <1>3 DEF Elements
<1>10. \A u \in Threads \ {t} : KeysOf(u)' \subseteq KeysOf(u)
  BY <1>1, <1>8, <1>9 DEF KeysOf
<1>11. KeysOf(t)' \subseteq KeysOf(t) \cup {h}
  <2>1. Elements(locks'[t]) = Elements(locks[t]) \cup {l}
    BY <1>1, <1>2, ElementsAppend
  <2>2. \A k \in Keys : table'[k] = l => k = h
    BY <1>4, NullAssumption
  <2> QED
    BY <1>8, <1>9, <2>1, <2>2 DEF KeysOf
<1>12. TodoIsGreater(t)'
  <2>1. /\ Ascending(Tail(todo[t]))
        /\ \A x \in Elements(Tail(todo[t])) : h <= x
        /\ Elements(todo[t]) = Elements(Tail(todo[t])) \cup {h}
    BY <1>2, AscendingTail, ElementsTail DEF OrderOK, TodoIsGreater
  <2>2. ASSUME NEW x \in Elements(Tail(todo[t])), NEW j \in KeysOf(t)', x # h
        PROVE  j < x
    <3>1. h < x /\ x \in Nat /\ h \in Nat
      <4>1. x \in Keys \cup {NoKey}
        BY <1>2, HeadTailProperties, ElementOfSeq DEF Elements
      <4> QED
        BY <2>1, <2>2, <4>1, NumKeysAssumption DEF Keys, NoKey
    <3>2. j = h \/ j < h
      BY <1>5, <1>11
    <3>3. j \in Nat
      BY NumKeysAssumption DEF KeysOf, Keys
    <3> QED
      BY <3>1, <3>2, <3>3
  <2> QED
    BY <1>1, <1>8, <2>1, <2>2 DEF TodoIsGreater
<1>13. \A u \in Threads \ {t} : TodoIsGreater(u)'
  BY <1>1, <1>8, <1>10 DEF OrderOK, TodoIsGreater
<1> QED
  BY <1>6, <1>7, <1>12, <1>13 DEF OrderOK

(* The Lock pushed is the one in the table. *)
LEMMA FindKeepsOrder ==
  ASSUME IInv, OrderOK, NEW t \in Threads, Find(t)
  PROVE  OrderOK'
<1> DEFINE l == table[Head(todo[t])]
<1>1. Head(todo[t]) \in Keys
  BY HeadTailProperties DEF IInv, TypeOK, Find, Skipped
<1>2. l \in Locks /\ table' = table /\ Push(t, l)
  BY <1>1 DEF IInv, TypeOK, Find
<1>3. IInv'
  BY FindKeepsIInv
<1> QED
  BY <1>1, <1>2, <1>3, PushKeepsOrder DEF Find

(* The Lock pushed is the new one. *)
LEMMA MakeKeepsOrder ==
  ASSUME IInv, OrderOK, NEW t \in Threads, NEW l \in Locks, Make(t, l)
  PROVE  OrderOK'
<1>1. /\ todo[t] # <<>> /\ ~Skipped(t, Head(todo[t])) /\ pc[t] = "make"
      /\ Push(t, l)
  BY DEF IInv, MakeOK, Make
<1>2. Head(todo[t]) \in Keys
  BY <1>1, HeadTailProperties DEF IInv, TypeOK, Skipped
<1>3. /\ table'[Head(todo[t])] = l
      /\ \A k \in Keys : k = Head(todo[t]) \/ table'[k] = table[k]
  BY <1>2 DEF IInv, TypeOK, Make
<1>4. \A u \in Threads : \A n \in 1..Len(locks[u]) : locks[u][n] # l
  BY DEF IInv, LocksOK, Make, Fresh
<1>5. IInv'
  BY MakeKeepsIInv
<1> QED
  BY <1>1, <1>2, <1>3, <1>4, <1>5, PushKeepsOrder

(* After clear there is nothing to order. *)
LEMMA ClearKeepsOrder ==
  ASSUME IInv, OrderOK, NEW t \in Threads, Clear(t)
  PROVE  OrderOK'
<1>1. /\ pc'[t] = "idle" /\ locks'[t] = <<>>
      /\ table' = table /\ todo' = todo /\ last' = last
      /\ \A u \in Threads \ {t} : pc'[u] = pc[u] /\ locks'[u] = locks[u]
  BY DEF IInv, TypeOK, Clear
<1>2. LocksInOrder(t)' /\ TodoIsGreater(t)'
  BY <1>1 DEF LocksInOrder, TodoIsGreater
<1>3. ASSUME NEW u \in Threads \ {t} PROVE LocksInOrder(u)'
  BY <1>1 DEF OrderOK, LocksInOrder
<1>4. ASSUME NEW u \in Threads \ {t} PROVE TodoIsGreater(u)'
  <2>1. KeysOf(u)' = KeysOf(u)
    BY <1>1 DEF KeysOf
  <2> QED
    BY <1>1, <2>1 DEF OrderOK, TodoIsGreater
<1> QED
  BY <1>2, <1>3, <1>4 DEF OrderOK

(* The other steps leave locks_, the table and the keys still to come as    *)
(* they are, and only Enter goes from one place in locksFor's first part to *)
(* another.                                                                 *)
LEMMA OthersKeepOrder ==
  ASSUME IInv, OrderOK, NEW t \in Threads,
         \/ Enter(t) \/ Miss(t) \/ Leave(t) \/ LockNext(t)
         \/ Return(t) \/ Destroy(t) \/ UnlockNext(t) \/ Uncount(t)
  PROVE  OrderOK'
<1>1. table' = table /\ locks' = locks /\ todo' = todo
  BY DEF Enter, Miss, Leave, LockNext, Return, Destroy, UnlockNext, Uncount
<1>2. \A u \in Threads \ {t} : pc'[u] = pc[u] /\ last'[u] = last[u]
  BY DEF IInv, TypeOK,
         Enter, Miss, Leave, LockNext, Return, Destroy, UnlockNext, Uncount
<1>3. \/ pc[t] = "enter" /\ last'[t] = NoKey
      \/ pc[t] \in {"register", "make"} /\ last'[t] = last[t]
      \/ pc'[t] \notin {"enter", "register", "make"}
  BY DEF IInv, TypeOK,
         Enter, Miss, Leave, LockNext, Return, Destroy, UnlockNext, Uncount
<1>4. pc'[t] # "enter"
  BY DEF IInv, TypeOK,
         Enter, Miss, Leave, LockNext, Return, Destroy, UnlockNext, Uncount
<1>5. \A u \in Threads : LocksInOrder(u)' /\ KeysOf(u)' = KeysOf(u)
  BY <1>1 DEF OrderOK, LocksInOrder, KeysOf
<1>6. TodoIsGreater(t)'
  BY <1>1, <1>3, <1>4, <1>5 DEF OrderOK, TodoIsGreater
<1>7. \A u \in Threads \ {t} : TodoIsGreater(u)'
  BY <1>1, <1>2, <1>5 DEF OrderOK, TodoIsGreater
<1> QED
  BY <1>5, <1>6, <1>7 DEF OrderOK
-----------------------------------------------------------------------------
(* From the order to the absence of deadlock: in a set of threads that wait *)
(* for each other, the one that waits for the greatest key waits for a      *)
(* thread that has locked it and waits for a greater one still.             *)
LEMMA OrderedNoWaitCycle ==
  ASSUME IInv, OrderOK
  PROVE  NoWaitCycle
<1> SUFFICES ASSUME NEW S \in SUBSET Threads, S # {},
                    \A t \in S : WaitsFor(t) \in S
             PROVE  FALSE
  BY DEF NoWaitCycle
<1> DEFINE L(t) == locks[t][next[t]]
<1>1. \A t \in S : WaitsFor(t) \in Threads /\ WaitsFor(t) # NoThread
  BY NullAssumption
(* A thread that waits for mu_ waits for one that goes on. *)
<1>2. \A t \in S : pc[t] # "enter"
  <2> SUFFICES ASSUME NEW t \in S, pc[t] = "enter" PROVE FALSE
    OBVIOUS
  <2>1. mu \in S
    BY DEF WaitsFor
  <2>2. pc[mu] \in {"register", "make"}
    BY <2>1 DEF IInv, MutexOK
  <2>3. WaitsFor(mu) = NoThread
    BY <2>2 DEF WaitsFor
  <2> QED
    BY <1>1, <2>1, <2>3
<1>3. \A t \in S : /\ pc[t] = "lock" /\ next[t] \in 1..Len(locks[t])
                   /\ owner[L(t)] \in S /\ L(t) \in Locks
  <2> SUFFICES ASSUME NEW t \in S
               PROVE  /\ pc[t] = "lock" /\ next[t] \in 1..Len(locks[t])
                      /\ owner[L(t)] \in S /\ L(t) \in Locks
    OBVIOUS
  <2>1. pc[t] = "lock" /\ next[t] <= Len(locks[t]) /\ owner[L(t)] \in S
    BY <1>1, <1>2 DEF WaitsFor
  <2>2. next[t] \in 1..Len(locks[t]) /\ locks[t] \in Seq(Locks)
    BY <2>1, LenProperties DEF IInv, TypeOK
  <2> QED
    BY <2>1, <2>2, ElementOfSeq
(* Of the keys waited for, take the greatest. *)
<1> DEFINE Wanted == {k \in Keys : \E t \in S : table[k] = L(t)}
<1>4. \A t \in S : \E k \in Wanted : table[k] = L(t)
  BY <1>3 DEF IInv, LocksOK
<1>5. PICK g \in Wanted : \A k \in Wanted : k <= g
  <2> DEFINE T == {NumKeys - k : k \in Wanted}
  <2>1. T \in SUBSET Nat /\ T # {}
    BY <1>4, NumKeysAssumption DEF Keys
  <2>2. PICK x \in T : \A y \in T : x <= y
    BY <2>1, Smallest
  <2>3. PICK g \in Wanted : x = NumKeys - g
    OBVIOUS
  <2>4. ASSUME NEW k \in Wanted PROVE k <= g
    <3>1. NumKeys - g <= NumKeys - k
      BY <2>2, <2>3
    <3>2. k \in Int /\ g \in Int /\ NumKeys \in Int
      BY NumKeysAssumption DEF Keys
    <3> HIDE DEF Wanted
    <3> QED
      BY <3>1, <3>2
  <2> QED
    BY <2>4
<1>6. PICK t \in S : table[g] = L(t)
  OBVIOUS
(* Its owner has locked it, and waits for a greater one. *)
<1> DEFINE u == owner[L(t)]
<1>7. u \in S /\ u \in Threads
  BY <1>3
<1>8. PICK n \in HeldPlaces(u) : locks[u][n] = L(t)
  BY <1>3, <1>7 DEF IInv, HeldOK
<1>9. n \in 1..Len(locks[u]) /\ n < next[u]
  BY <1>3, <1>7, <1>8 DEF HeldPlaces
<1>10. PICK k \in Wanted : table[k] = L(u)
  BY <1>4, <1>7
<1>11. g \in Keys /\ k \in Keys /\ next[u] \in 1..Len(locks[u])
  BY <1>3, <1>7
<1>12. table[g] = locks[u][n] /\ table[k] = locks[u][next[u]]
  BY <1>6, <1>8, <1>10
<1>13. LocksInOrder(u)
  BY <1>7 DEF OrderOK
<1> HIDE DEF L, u, Wanted
<1>14. g < k
  BY <1>9, <1>11, <1>12, <1>13 DEF LocksInOrder
<1>15. k <= g /\ g \in Int /\ k \in Int
  BY <1>5, <1>10, <1>11, NumKeysAssumption DEF Keys
<1> QED
  BY <1>14, <1>15

(* No set of threads ever waits only for itself, in any number, when each   *)
(* calls locksFor once in a scope or asks for greater keys each time.       *)
THEOREM DeadlockFreedom ==
  ASSUME Discipline # "any"
  PROVE  Spec => []NoWaitCycle
<1>1. Init => OrderOK
  BY DEF Init, OrderOK, LocksInOrder, TodoIsGreater
<1>2. IInv /\ OrderOK /\ [Next]_vars => OrderOK'
  <2> SUFFICES ASSUME IInv, OrderOK, [Next]_vars PROVE OrderOK'
    OBVIOUS
  <2>1. CASE \E t \in Threads, ks \in KeyVectors : Call(t, ks)
    BY <2>1, CallKeepsOrder
  <2>2. CASE \E t \in Threads : Step(t)
    BY <2>2, SkipKeepsOrder, FindKeepsOrder, MakeKeepsOrder, ClearKeepsOrder,
       OthersKeepOrder DEF Step
  <2>3. CASE UNCHANGED vars
    BY <2>3 DEF vars, OrderOK, LocksInOrder, TodoIsGreater, KeysOf, Elements,
       Ascending
  <2> QED
    BY <2>1, <2>2, <2>3 DEF Next, Finished
<1>3. IInv /\ OrderOK => NoWaitCycle
  BY OrderedNoWaitCycle
<1> QED
  BY <1>1, <1>2, <1>3, Inductive, PTL DEF Spec
-----------------------------------------------------------------------------
(* What count_ of a Lock counts, for any number of threads, keys, vectors, *)
(* calls and addresses.                                                    *)

(* The places in LockSetLocks that a Lock is counted for. *)
Counted(l) ==
  {p \in Threads \X Nat : p[2] \in CountedPlaces(p[1]) /\ locks[p[1]][p[2]] = l}

CountOK ==
  \A l \in Locks : IsFiniteSet(Counted(l)) /\ count[l] = Cardinality(Counted(l))

CInv == IInv /\ CountOK

(* The places of one thread among those. *)
PlacesOf(t, l) == {n \in CountedPlaces(t) : locks[t][n] = l}
-----------------------------------------------------------------------------
LEMMA CountedIsPlaces ==
  ASSUME IInv, NEW l
  PROVE  /\ \A t \in Threads : CountedPlaces(t) \subseteq 1..Len(locks[t])
         /\ \A t \in Threads, n \in Nat : <<t, n>> \in Counted(l) <=> n \in PlacesOf(t, l)
<1>1. ASSUME NEW t \in Threads PROVE CountedPlaces(t) \subseteq 1..Len(locks[t])
  <2>1. next[t] \in Nat \ {0} /\ Len(locks[t]) \in Nat
    BY LenProperties DEF IInv, TypeOK
  <2> QED
    BY <2>1 DEF CountedPlaces
<1> QED
  BY <1>1 DEF Counted, PlacesOf

(* A step under which every thread keeps the places it is counted for. *)
LEMMA CountUndisturbed ==
  ASSUME CInv, count' = count,
         \A t \in Threads :
           /\ CountedPlaces(t)' = CountedPlaces(t)
           /\ \A n \in CountedPlaces(t) : locks'[t][n] = locks[t][n]
  PROVE  CountOK'
<1>1. \A l \in Locks : Counted(l)' = Counted(l)
  BY DEF Counted
<1> QED
  BY <1>1 DEF CInv, CountOK

(* Find and Make add a place, the last one, for l and for no other. *)
LEMMA PushCounts ==
  ASSUME CInv, NEW t \in Threads, NEW l \in Locks, Push(t, l), next' = next,
         pc[t] \in {"register", "make"}
  PROVE  /\ <<t, Len(locks[t]) + 1>> \notin Counted(l)
         /\ Counted(l)' = Counted(l) \cup {<<t, Len(locks[t]) + 1>>}
         /\ \A m \in Locks \ {l} : Counted(m)' = Counted(m)
<1>1. locks[t] \in Seq(Locks) /\ Len(locks[t]) \in Nat
  BY LenProperties DEF CInv, IInv, TypeOK
<1>2. locks'[t] = Append(locks[t], l) /\ pc'[t] = "register"
  BY DEF Push, CInv, IInv, TypeOK
<1>3. \A u \in Threads \ {t} : locks'[u] = locks[u] /\ pc'[u] = pc[u]
  BY DEF Push, CInv, IInv, TypeOK
<1>4. /\ CountedPlaces(t) = 1..Len(locks[t])
      /\ CountedPlaces(t)' = 1..(Len(locks[t]) + 1)
  BY <1>1, <1>2, AppendProperties DEF CountedPlaces
<1>5. \A u \in Threads \ {t} : CountedPlaces(u)' = CountedPlaces(u)
  BY <1>3 DEF CountedPlaces
<1>6. /\ locks'[t][Len(locks[t]) + 1] = l
      /\ \A n \in 1..Len(locks[t]) : locks'[t][n] = locks[t][n]
  BY <1>1, <1>2, AppendProperties
<1>7. <<t, Len(locks[t]) + 1>> \notin Counted(l)
  BY <1>1, <1>4 DEF Counted
<1>8. ASSUME NEW m \in Locks, NEW u \in Threads, NEW n \in Nat
      PROVE  <<u, n>> \in Counted(m)' <=>
               \/ <<u, n>> \in Counted(m)
               \/ m = l /\ <<u, n>> = <<t, Len(locks[t]) + 1>>
  <2>1. CASE u = t
    BY <1>1, <1>4, <1>6, <2>1 DEF Counted
  <2>2. CASE u # t
    BY <1>3, <1>5, <2>2 DEF Counted
  <2> QED
    BY <2>1, <2>2
<1>9. \A m \in Locks : Counted(m) \subseteq Threads \X Nat /\ Counted(m)' \subseteq Threads \X Nat
  BY DEF Counted
<1>10. ASSUME NEW m \in Locks, NEW p \in Threads \X Nat
       PROVE  p \in Counted(m)' <=>
                p \in Counted(m) \/ (m = l /\ p = <<t, Len(locks[t]) + 1>>)
  BY <1>8
<1>11. <<t, Len(locks[t]) + 1>> \in Threads \X Nat
  BY <1>1
<1>12. Counted(l)' = Counted(l) \cup {<<t, Len(locks[t]) + 1>>}
  BY <1>9, <1>10, <1>11
<1>13. \A m \in Locks \ {l} : Counted(m)' = Counted(m)
  BY <1>9, <1>10
<1> QED
  BY <1>7, <1>12, <1>13

LEMMA FindCounts ==
  ASSUME CInv, NEW t \in Threads, Find(t)
  PROVE  CountOK'
<1>1. Head(todo[t]) \in Keys
  BY HeadTailProperties DEF CInv, IInv, TypeOK, Find, Skipped, NoKey, Keys
<1>2. PICK l \in Locks :
        /\ Push(t, l) /\ next' = next /\ pc[t] = "register"
        /\ count' = [count EXCEPT ![l] = @ + 1]
  BY <1>1 DEF CInv, IInv, TypeOK, Find
<1>3. /\ <<t, Len(locks[t]) + 1>> \notin Counted(l)
      /\ Counted(l)' = Counted(l) \cup {<<t, Len(locks[t]) + 1>>}
      /\ \A m \in Locks \ {l} : Counted(m)' = Counted(m)
  BY <1>2, PushCounts
<1>4. /\ IsFiniteSet(Counted(l)')
      /\ Cardinality(Counted(l)') = Cardinality(Counted(l)) + 1
  BY <1>2, <1>3, FS_AddElement DEF CInv, CountOK
<1>5. /\ count'[l] = count[l] + 1
      /\ \A m \in Locks \ {l} : count'[m] = count[m]
  BY <1>2 DEF CInv, IInv, TypeOK
<1> QED
  BY <1>2, <1>3, <1>4, <1>5 DEF CInv, CountOK

(* A Lock that is made is in no LockSetLock yet. *)
LEMMA MakeCounts ==
  ASSUME CInv, NEW t \in Threads, NEW l \in Locks, Make(t, l)
  PROVE  CountOK'
<1>1. /\ Push(t, l) /\ next' = next /\ pc[t] = "make"
      /\ count' = [count EXCEPT ![l] = 1] /\ \A k \in Keys : table[k] # l
  BY DEF Make, Fresh
<1>2. ASSUME NEW p \in Counted(l) PROVE FALSE
  <2>1. p[1] \in Threads /\ p[2] \in 1..Len(locks[p[1]]) /\ locks[p[1]][p[2]] = l
    BY <1>2, CountedIsPlaces DEF Counted, CInv
  <2>2. PICK k \in Keys : table[k] = l
    BY <2>1 DEF CInv, IInv, LocksOK
  <2> QED
    BY <1>1, <2>2
<1>3. Counted(l) = {}
  BY <1>2
<1>4. /\ <<t, Len(locks[t]) + 1>> \notin Counted(l)
      /\ Counted(l)' = Counted(l) \cup {<<t, Len(locks[t]) + 1>>}
      /\ \A m \in Locks \ {l} : Counted(m)' = Counted(m)
  BY <1>1, PushCounts
<1>5. IsFiniteSet(Counted(l)') /\ Cardinality(Counted(l)') = 1
  <2>1. Counted(l)' = {<<t, Len(locks[t]) + 1>>}
    BY <1>3, <1>4
  <2> QED
    BY <2>1, FS_Singleton
<1>6. count'[l] = 1 /\ \A m \in Locks \ {l} : count'[m] = count[m]
  BY <1>1 DEF CInv, IInv, TypeOK
<1> QED
  BY <1>4, <1>5, <1>6 DEF CInv, CountOK

(* unlock gives up one place at a time, after its mutex. *)
LEMMA UncountCounts ==
  ASSUME CInv, NEW t \in Threads, Uncount(t)
  PROVE  CountOK'
<1>1. /\ next[t] \in 1..Len(locks[t]) /\ Len(locks[t]) \in Nat
      /\ pc[t] = "uncount" /\ pc'[t] = "unlock" /\ next'[t] = next[t] + 1
      /\ locks' = locks
  BY LenProperties DEF Uncount, CInv, IInv, TypeOK, NextOK
<1>2. PICK l \in Locks :
        l = locks[t][next[t]] /\ count' = [count EXCEPT ![l] = @ - 1]
  BY <1>1, ElementOfSeq DEF Uncount, CInv, IInv, TypeOK
<1>3. \A u \in Threads \ {t} : next'[u] = next[u] /\ pc'[u] = pc[u]
  BY DEF Uncount, CInv, IInv, TypeOK
<1>4. /\ CountedPlaces(t) = next[t]..Len(locks[t])
      /\ CountedPlaces(t)' = (next[t] + 1)..Len(locks[t])
      /\ \A u \in Threads \ {t} : CountedPlaces(u)' = CountedPlaces(u)
  BY <1>1, <1>3 DEF CountedPlaces
<1>5. <<t, next[t]>> \in Counted(l)
  BY <1>1, <1>2, <1>4 DEF Counted
<1>6. ASSUME NEW m \in Locks, NEW u \in Threads, NEW n \in Nat
      PROVE  <<u, n>> \in Counted(m)' <=>
               <<u, n>> \in Counted(m) /\ ~(m = l /\ <<u, n>> = <<t, next[t]>>)
  <2>1. CASE u = t
    BY <1>1, <1>2, <1>4, <2>1 DEF Counted
  <2>2. CASE u # t
    BY <1>1, <1>2, <1>4, <2>2 DEF Counted
  <2> QED
    BY <2>1, <2>2
<1>7. \A m \in Locks : Counted(m) \subseteq Threads \X Nat /\ Counted(m)' \subseteq Threads \X Nat
  BY DEF Counted
<1>8. ASSUME NEW m \in Locks, NEW p \in Threads \X Nat
      PROVE  p \in Counted(m)' <=> p \in Counted(m) /\ ~(m = l /\ p = <<t, next[t]>>)
  BY <1>6
<1>9. Counted(l)' = Counted(l) \ {<<t, next[t]>>}
  BY <1>2, <1>7, <1>8
<1>10. \A m \in Locks \ {l} : Counted(m)' = Counted(m)
  BY <1>7, <1>8
<1>11. /\ IsFiniteSet(Counted(l)')
       /\ Cardinality(Counted(l)') = Cardinality(Counted(l)) - 1
  BY <1>2, <1>5, <1>9, FS_RemoveElement DEF CInv, CountOK
<1>12. /\ count'[l] = count[l] - 1
       /\ \A m \in Locks \ {l} : count'[m] = count[m]
  BY <1>1, <1>2 DEF CInv, IInv, TypeOK
<1> QED
  BY <1>2, <1>10, <1>11, <1>12 DEF CInv, CountOK

(* The other steps change no count, and the counted places of no thread. *)
LEMMA ClearCounts ==
  ASSUME CInv, NEW t \in Threads, Clear(t)
  PROVE  CountOK'
<1>1. /\ pc[t] = "unlock" /\ next[t] > Len(locks[t]) /\ locks'[t] = <<>>
      /\ pc'[t] = "idle" /\ count' = count
      /\ next[t] \in Nat /\ Len(locks[t]) \in Nat
  BY LenProperties DEF Clear, CInv, IInv, TypeOK
<1>2. CountedPlaces(t) = {} /\ CountedPlaces(t)' = {}
  BY <1>1 DEF CountedPlaces
<1>3. \A u \in Threads \ {t} :
        locks'[u] = locks[u] /\ CountedPlaces(u)' = CountedPlaces(u)
  BY DEF Clear, CInv, IInv, TypeOK, CountedPlaces
<1> QED
  BY <1>1, <1>2, <1>3, CountUndisturbed

LEMMA OtherCounts ==
  ASSUME CInv, NEW t \in Threads,
         \/ \E ks \in KeyVectors : Call(t, ks)
         \/ Enter(t) \/ Skip(t) \/ Miss(t) \/ Leave(t) \/ LockNext(t) \/ Return(t)
         \/ Destroy(t) \/ UnlockNext(t)
  PROVE  CountOK'
<1>1. locks' = locks /\ count' = count
  BY DEF Call, Enter, Skip, Miss, Leave, LockNext, Return, Destroy, UnlockNext
<1>2. \A u \in Threads \ {t} : pc'[u] = pc[u] /\ next'[u] = next[u]
  BY DEF CInv, IInv, TypeOK, Call, Enter, Skip, Miss, Leave, LockNext, Return, Destroy,
     UnlockNext
<1>3. \/ pc[t] \notin {"unlock", "uncount"} /\ pc'[t] \notin {"unlock", "uncount"}
      \/ pc[t] = "held" /\ pc'[t] = "unlock" /\ next'[t] = 1
      \/ pc[t] = "unlock" /\ pc'[t] = "uncount" /\ next'[t] = next[t]
  BY DEF CInv, IInv, TypeOK, Call, MayCall, Enter, Skip, Miss, Leave, LockNext, Return,
     Destroy, UnlockNext
<1>4. \A u \in Threads : CountedPlaces(u)' = CountedPlaces(u)
  BY <1>1, <1>2, <1>3 DEF CountedPlaces
<1> QED
  BY <1>1, <1>4, CountUndisturbed

LEMMA InitCounts == Init => CountOK
<1> SUFFICES ASSUME Init, NEW l \in Locks PROVE Counted(l) = {} /\ count[l] = 0
  BY FS_EmptySet DEF CountOK
<1>1. \A t \in Threads : CountedPlaces(t) = {}
  BY DEF Init, CountedPlaces
<1> QED
  BY <1>1 DEF Init, Counted

LEMMA NextKeepsCInv == CInv /\ [Next]_vars => CInv'
<1> SUFFICES ASSUME CInv, [Next]_vars PROVE CountOK'
  BY NextKeepsIInv DEF CInv
<1>1. ASSUME NEW t \in Threads, Step(t) PROVE CountOK'
  BY <1>1, FindCounts, MakeCounts, UncountCounts, ClearCounts, OtherCounts DEF Step
<1>2. ASSUME NEW t \in Threads, NEW ks \in KeyVectors, Call(t, ks) PROVE CountOK'
  BY <1>2, OtherCounts
<1>3. CASE UNCHANGED vars
  BY <1>3, CountUndisturbed DEF vars, CountedPlaces
<1> QED
  BY <1>1, <1>2, <1>3 DEF Next, Finished

(* count_ is the number of places in LockSetLocks that lead to the Lock, so *)
(* at zero nobody has it locked or is about to: what frees a Lock whose     *)
(* count is zero, under the table's mutex, would take it from nobody.       *)
THEOREM CountIsUse == Spec => []ZeroCountIsUnused
<1>1. ASSUME CInv PROVE ZeroCountIsUnused
  <2> SUFFICES ASSUME NEW l \in Locks, count[l] = 0
               PROVE  /\ owner[l] = NoThread
                      /\ \A t \in Threads : \A n \in CountedPlaces(t) : locks[t][n] # l
    BY DEF ZeroCountIsUnused
  <2>1. Counted(l) = {}
    BY <1>1, FS_EmptySet DEF CInv, CountOK
  <2>2. \A t \in Threads : \A n \in CountedPlaces(t) : n \in Nat
    <3>1. \A t \in Threads : Len(locks[t]) \in Nat
      BY <1>1, LenProperties DEF CInv, IInv, TypeOK
    <3> QED
      BY <1>1, <3>1, CountedIsPlaces DEF CInv
  <2>3. \A t \in Threads : \A n \in CountedPlaces(t) : locks[t][n] # l
    <3> SUFFICES ASSUME NEW t \in Threads, NEW n \in CountedPlaces(t), locks[t][n] = l
                 PROVE  <<t, n>> \in Counted(l)
      BY <2>1
    <3> QED
      BY <2>2 DEF Counted
  <2>4. ASSUME NEW t \in Threads, owner[l] = t PROVE FALSE
    <3>1. PICK n \in HeldPlaces(t) : locks[t][n] = l
      BY <1>1, <2>4 DEF CInv, IInv, HeldOK
    <3>2. n \in CountedPlaces(t)
      <4>1. next[t] \in Nat /\ Len(locks[t]) \in Nat
        BY <1>1, LenProperties DEF CInv, IInv, TypeOK
      <4> QED
        BY <4>1 DEF HeldPlaces, CountedPlaces
    <3> QED
      BY <2>3, <3>1, <3>2
  <2>5. owner[l] \in Threads \cup {NoThread}
    BY <1>1 DEF CInv, IInv, TypeOK
  <2> QED
    BY <2>3, <2>4, <2>5
<1>2. Init => CInv
  BY InitIInv, InitCounts DEF CInv
<1> QED
  BY <1>1, <1>2, NextKeepsCInv, PTL DEF Spec
=============================================================================
