----------------------------- MODULE CodecValue -----------------------------
(***************************************************************************)
(* ugorji/codec/codec: the values that the formats encode, and the steps   *)
(* their decoders share.                                                   *)
(*                                                                         *)
(* The functions that encode, decode and print a codec_value call          *)
(* themselves for what it contains, one element after the other, so they   *)
(* see its parts in pre-order: a container, then its elements.  A value is *)
(* here such a part, with its type; its data, which are the truth of a     *)
(* BOOL, the eight bytes of an integer, the high one first, the bytes of a *)
(* float as they lie in memory, those of a STRING and of BYTES, the tag of *)
(* an EXT and its bytes; and the count of the elements of an ARRAY or of   *)
(* the pairs of a MAP, which are parts that follow.  A size_t has 64 bits, *)
(* a char has a sign, memory is little-endian.                             *)
(***************************************************************************)
EXTENDS Slice, SequencesExt

Byte == 0..255

(* Bound: the longest data, the longest slice, and the largest count of a   *)
(* value that is sent; a length that is read may be any size_t.             *)
MaxLength == 268435440

Types == {"NIL", "BOOL", "POS_INT", "NEG_INT", "FLOAT32", "FLOAT64", "STRING", "BYTES", "ARRAY",
          "MAP", "EXT"}
Integer == {"POS_INT", "NEG_INT"}
Float == {"FLOAT32", "FLOAT64"}

Value(type, data) == [type |-> type, data |-> data, count |-> 0]
Container(type, n) == [type |-> type, data |-> <<>>, count |-> n]

(* Mutant: the memory is not cleared. *)
UnsetMalloc == Value("anything", <<>>)

(* Memory from calloc, or that a caller cleared. *)
Unset == Value("none", <<>>)

(* How often a function calls itself for what v contains. *)
Calls(v) == IF v.type = "MAP" THEN 2 * v.count ELSE v.count

(* Is the size of the data that of the type? *)
Sized(v) ==
  LET n == Len(v.data)
  IN  CASE v.type \in {"NIL", "ARRAY", "MAP"} -> n = 0
        [] v.type = "BOOL" -> v.data \in {<<0>>, <<1>>}
        [] v.type \in Integer -> n = 8
        [] v.type = "FLOAT32" -> n = 4
        [] v.type = "FLOAT64" -> n = 8
        [] v.type = "EXT" -> n >= 1
        [] OTHER -> TRUE

(* What a caller may have encoded. *)
IsValue(v) ==
  /\ v \in [type : Types, data : Seq(Byte), count : 0..MaxLength]
  /\ Len(v.data) <= MaxLength
  /\ v.type \notin {"ARRAY", "MAP"} => v.count = 0
  /\ Sized(v)

(* The mark of bytes that are as many as 2^64 less some: no slice has them. *)
Wild == <<256>>

(* What a decoder can make of memory that was cleared: a type, and data of *)
(* that type (codec.h:59-112).  The mark of a float is no byte either.     *)
IsDecoded(v) ==
  /\ v.type \in Integer => Len(v.data) = 8
  /\ v.type = "EXT" => Len(v.data) >= 1
  /\ v.type \notin Float => v.data \in Seq(Byte) \union {Wild}
  /\ v.type \notin {"ARRAY", "MAP"} => v.count = 0
-----------------------------------------------------------------------------
(* n as a uint64_t, of which the high half is zero. *)
Uint64(n) ==
  <<0, 0, 0, 0, (n \div 16777216) % 256, (n \div 65536) % 256, (n \div 256) % 256, n % 256>>

(* Do the low w bytes hold the integer u? *)
Fit(u, w) == \A i \in 1..(8 - w) : u[i] = 0

AllZero(bytes) == \A i \in DOMAIN bytes : bytes[i] = 0

(* More than a slice holds: every length from here on. *)
Huge == 268435456

(* The length that the integer u is.  One with a sign bit is a char that     *)
(* SimpleCodec widened: what is added to a position wraps, so it is below   *)
(* zero here.                                                               *)
Length(u) ==
  CASE u[1] >= 128 -> u[8] - 256
    [] u[1] < 128 /\ Fit(u, 4) /\ u[5] < 16 -> ((u[5] * 256 + u[6]) * 256 + u[7]) * 256 + u[8]
    [] OTHER -> Huge

AppendBlob(s, b) == IF b = <<>> THEN s ELSE AppendBytes(s, b)
-----------------------------------------------------------------------------
(* Decoding.  A step of it returns what it read, the position after it and *)
(* whether *err is set.                                                    *)

Got(v, p) == [v |-> v, pos |-> p, err |-> FALSE]
Fail(p) == [v |-> Unset, pos |-> p, err |-> TRUE]

(* b.v[p]; there is a NUL after the bytes. *)
ByteAt(b, p) == IF p < Len(b) THEN b[p + 1] ELSE 0
BytesAt(b, p, n) == [i \in 1..n |-> ByteAt(b, p + i - 1)]

(* What a store through NULL leaves: the receiver stops. *)
Crash(p) == [v |-> Value("none", Wild), pos |-> p, err |-> TRUE]

Crashed(d) == d.v.data = Wild /\ d.err

(* Do n bytes from p end past the input?  The sum is a size_t: one below  *)
(* zero is too large, and with a length of 2^64 less some it may be none  *)
(* of the two.                                                            *)
Past(b, p, n) == p + n < 0 \/ p + n > Len(b)

(* n bytes from p, whose count may be a wild one. *)
Span(b, p, n) == IF n < 0 THEN Wild ELSE BytesAt(b, p, n)
=============================================================================
