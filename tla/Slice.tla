------------------------------- MODULE Slice -------------------------------
(***************************************************************************)
(* ugorji/util/slice: the growing byte buffer the codecs encode into.      *)
(*                                                                         *)
(* A slice is its bytes and the capacity of the block that holds them;     *)
(* over says that a write went past the end of the block.  realloc keeps   *)
(* the bytes; that it fails is an assertion in the code.                   *)
(***************************************************************************)
EXTENDS Naturals, Sequences

CONSTANT Line  \* the cache line the capacity is a multiple of: 64 in the code

ASSUME LineAssumption == Line \in Nat \ {0}

Empty == [bytes |-> <<>>, cap |-> 0, over |-> FALSE]

(* n, or the first multiple of a line above it. *)
RoundUp(n) == IF n % Line = 0 THEN n ELSE n + (Line - (n % Line))

(* Room for n more bytes: by a quarter of the capacity, or by what is asked *)
(* for if that is more.                                                     *)
Grown(s, n) ==
  LET newlen == Len(s.bytes) + n
      cap25 == s.cap + (s.cap \div 4)
  IN  IF cap25 > newlen THEN cap25 ELSE newlen

Expand(s, n) ==
  IF Len(s.bytes) + n <= s.cap THEN s ELSE [s EXCEPT !.cap = RoundUp(Grown(s, n))]

(* The bytes b, by a write of n bytes. *)
Written(s, b, n) == [s EXCEPT !.bytes = @ \o b, !.over = @ \/ Len(s.bytes) + n > s.cap]

(* Mutant: the NUL has no room. *)
AppendNoNul(s, b) == Written(Expand(s, Len(b)), b, Len(b) + 1)

(* The bytes b, and a NUL that the length does not count. *)
AppendBytes(s, b) == Written(Expand(s, Len(b) + 1), b, Len(b) + 1)

AppendByte(s, byte) == AppendBytes(s, <<byte>>)

(* What a codec writes at v[len] itself, after an expand: no NUL follows. *)
WriteInPlace(s, b) == Written(Expand(s, Len(b)), b, Len(b))

(* The block is whole lines, and whatever was written lies in it. *)
Fits(s) == s.cap % Line = 0 /\ Len(s.bytes) <= s.cap /\ ~s.over
=============================================================================
