------------------------------ MODULE KeyLocks ------------------------------
(***************************************************************************)
(* What LockSet promises its callers: exclusive possession of keys.        *)
(*                                                                         *)
(* A thread asks for a set of keys, comes to hold them one at a time, each *)
(* only while no other thread holds it, and gives them all up when its     *)
(* LockSetLock goes out of scope.  Nothing is said of mutexes, of the      *)
(* table that finds them or of the order in which they are taken.          *)
(***************************************************************************)
CONSTANTS Threads, Keys

VARIABLES want,   \* want[t]: the keys t has asked for and not given up
          holds   \* holds[t]: the keys t possesses

vars == <<want, holds>>

Init ==
  /\ want = [t \in Threads |-> {}]
  /\ holds = [t \in Threads |-> {}]

(* A thread whose earlier requests are all granted asks for more keys. *)
Ask(t, S) ==
  /\ holds[t] = want[t]
  /\ want' = [want EXCEPT ![t] = @ \cup S]
  /\ UNCHANGED holds

(* It comes to hold a key that no other thread holds. *)
Take(t, k) ==
  /\ k \in want[t] \ holds[t]
  /\ \A u \in Threads \ {t} : k \notin holds[u]
  /\ holds' = [holds EXCEPT ![t] = @ \cup {k}]
  /\ UNCHANGED want

(* The scope ends: the keys are wanted no more, and are dropped in turn. *)
EndScope(t) ==
  /\ holds[t] = want[t]
  /\ want' = [want EXCEPT ![t] = {}]
  /\ UNCHANGED holds

Drop(t, k) ==
  /\ k \in holds[t] \ want[t]
  /\ want[t] = {}
  /\ holds' = [holds EXCEPT ![t] = @ \ {k}]
  /\ UNCHANGED want

Next ==
  \E t \in Threads :
    \/ \E S \in SUBSET Keys : Ask(t, S)
    \/ \E k \in Keys : Take(t, k) \/ Drop(t, k)
    \/ EndScope(t)

Spec == Init /\ [][Next]_vars
=============================================================================
