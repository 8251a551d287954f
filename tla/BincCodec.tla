----------------------------- MODULE BincCodec -----------------------------
(***************************************************************************)
(* ugorji/codec/binc: a value as a descriptor byte, whose high half is the *)
(* type and whose low half is a small value, a width or a length, and the  *)
(* bytes.  An operator is one call of the function, for one part of a      *)
(* value: see CodecValue.  The decoder asks only whether there is a byte   *)
(* for a descriptor; what follows it is taken to be there.                 *)
(***************************************************************************)
EXTENDS CodecValue

CONSTANT PointerByte  \* a byte of an address: what is sent for a byte of an extension

ASSUME PointerAssumption == PointerByte \in Byte

(* The descriptors, and the special values. *)
BincDesc == [
  SPECIAL |-> 0, POS_INT |-> 16, NEG_INT |-> 32, FLOAT |-> 48, STRING |-> 64, BYTES |-> 80,
  ARRAY |-> 96, MAP |-> 112, TIMESTAMP |-> 128, SMALLINT |-> 144, SYMBOL |-> 176, EXT |-> 240]
Special == [
  NIL |-> 0, FALSE |-> 1, TRUE |-> 2, NAN |-> 3, POSINF |-> 4, NEGINF |-> 5,
  ZEROFLOAT |-> 6, ZERO |-> 7, NEGONE |-> 8]
-----------------------------------------------------------------------------
(* Encoding *)

(* Mutant: the sign of what is left is not looked at. *)
PrunableAlways(x, n, pos) == \A i \in 1..n : x[i] = IF pos THEN 0 ELSE 255

(* Are the first n bytes of x only the sign of those after them? *)
Prunable(x, n, pos) ==
  \A i \in 1..n : x[i] = (IF pos THEN 0 ELSE 255) /\ (x[i + 1] < 128) = pos

Pruned(x, pos) ==
  CHOOSE n \in 0..(Len(x) - 1) :
    /\ Prunable(x, n, pos)
    /\ n + 1 < Len(x) => ~Prunable(x, n + 1, pos)

(* The four bytes, or eight with the low half of the integer first. *)
PruneBuffer(u) == LET low == SubSeq(u, 5, 8) IN IF Fit(u, 4) THEN low ELSE low \o <<0, 0, 0, 0>>

EncodePruned(s, bd, pos, u) ==
  LET x == PruneBuffer(u)
      n == Pruned(x, pos)
  IN  AppendBytes(AppendByte(s, bd + Len(x) - 1 - n), SubSeq(x, n + 1, Len(x)))

(* No descriptor is written for an integer of two bytes. *)
BincEncodeUint(s, bd, pos, u) ==
  CASE AllZero(u) -> AppendByte(s, Special["ZERO"])
    [] ~AllZero(u) /\ pos /\ Fit(u, 1) /\ u[8] <= 16 -> AppendByte(s, BincDesc["SMALLINT"] + u[8] - 1)
    [] ~AllZero(u) /\ ~(pos /\ u[8] <= 16) /\ Fit(u, 1) -> AppendByte(AppendByte(s, bd), u[8])
    [] ~Fit(u, 1) /\ Fit(u, 2) -> WriteInPlace(s, SubSeq(u, 7, 8))
    [] ~Fit(u, 2) -> EncodePruned(s, bd, pos, u)

(* Mutant: the length after the short ones is short too. *)
ShortLenUpToTwelve(n) == n <= 12

ShortLen(n) == n < 12

BincEncodeLen(s, bd, n) ==
  IF ShortLen(n) THEN AppendByte(s, bd + n + 4) ELSE BincEncodeUint(s, bd, FALSE, Uint64(n))

(* Both zeros, as a double; a FLOAT32 has the upper half of one left zero. *)
IsZero(bytes) ==
  AllZero(Front(bytes)) /\ Last(bytes) \in (IF Len(bytes) = 8 THEN {0, 128} ELSE {0})

Double(bytes) == bytes \o [i \in 1..(8 - Len(bytes)) |-> 0]

(* The loop that should leave out zero bytes looks at doubles in memory    *)
(* after this one: k, where it stops, may be anything from 1 to 8.         *)
EncodeFloat(s, bytes, k) ==
  CASE IsZero(bytes) -> AppendByte(s, Special["ZEROFLOAT"])
    [] ~IsZero(bytes) /\ k <= 6 ->
         AppendBytes(AppendByte(AppendByte(s, BincDesc["FLOAT"] + 10), k),
                     SubSeq(Double(bytes), 1, k))
    [] ~IsZero(bytes) /\ k > 6 -> AppendBytes(AppendByte(s, BincDesc["FLOAT"] + 2), Double(bytes))

(* What is sent of an extension is the pointer to its bytes. *)
Address(bytes) == [i \in DOMAIN bytes |-> PointerByte]

BincEncode(s, v, k) ==
  LET bd == BincDesc[v.type]
      n == Len(v.data)
  IN  CASE v.type = "NIL" -> AppendByte(s, Special["NIL"])
        [] v.type = "BOOL" -> AppendByte(s, Special[IF v.data = <<1>> THEN "TRUE" ELSE "FALSE"])
        [] v.type \in Integer -> BincEncodeUint(s, bd, v.type = "POS_INT", v.data)
        [] v.type \in Float -> EncodeFloat(s, v.data, k)
        [] v.type \in {"STRING", "BYTES"} -> AppendBlob(BincEncodeLen(s, bd, n), v.data)
        [] v.type \in {"ARRAY", "MAP"} -> BincEncodeLen(s, bd, v.count)
        [] v.type = "EXT" ->
             AppendBlob(AppendByte(BincEncodeLen(s, bd, n - 1), Head(v.data)),
                        Address(Tail(v.data)))
-----------------------------------------------------------------------------
(* Decoding *)

(* The integer of vs + 1 bytes. *)
DecodeUint(b, p, vs) ==
  IF vs > 7
  THEN Fail(p)
  ELSE Got([i \in 1..8 |-> IF i <= 7 - vs THEN 0 ELSE ByteAt(b, p + i - (8 - vs))], p + vs + 1)

BincDecodeLen(b, p, vs) ==
  IF vs > 3
  THEN Got(vs - 4, p)
  ELSE LET r == DecodeUint(b, p, vs) IN Got(Length(r.v), r.pos)

BincDecodeInt(b, p, vs, type) ==
  LET r == DecodeUint(b, p, vs) IN IF r.err THEN r ELSE Got(Value(type, r.v), r.pos)

(* The first n bytes of a double; the others are zero. *)
DoubleAt(b, p, n) == [i \in 1..8 |-> IF i <= n THEN ByteAt(b, p + i - 1) ELSE 0]

(* A float that is made a double, which is marked. *)
AsDouble(bytes) == IF AllZero(bytes) THEN bytes ELSE <<256>> \o bytes

(* A float of four bytes or a double, or as many bytes of it as are said. *)
BincDecodeFloat(b, p, vs) ==
  LET n == IF vs >= 8 THEN ByteAt(b, p) ELSE IF vs = 1 THEN 4 ELSE 8
      q == IF vs >= 8 THEN p + 1 ELSE p
      bytes == DoubleAt(b, q, n)
  IN  IF vs % 8 \notin {1, 2} \/ n > 8
      THEN Fail(q)
      ELSE Got(Value("FLOAT64", IF vs % 8 = 1 THEN AsDouble(bytes) ELSE bytes), q + n)

(* The bytes are those that there are: what lies past the input is not known. *)
BincDecodeBlob(b, p, vs, type) ==
  LET n == BincDecodeLen(b, p, vs)
  IN  Got(Value(type, IF Past(b, n.pos, n.v) THEN <<>> ELSE BytesAt(b, n.pos, n.v)), n.pos + n.v)

BincDecodeExt(b, p, vs) ==
  LET n == BincDecodeLen(b, p, vs)
  IN  Got(Value("EXT", IF Past(b, n.pos, 1 + n.v) THEN <<0>> ELSE BytesAt(b, n.pos, 1 + n.v)),
          n.pos + 1 + n.v)

BincDecodeContainer(b, p, vs, type) ==
  LET n == BincDecodeLen(b, p, vs) IN Got(Container(type, n.v), n.pos)

(* A value as it was before; what a container had in it is not read again. *)
Kept(before) == [before EXCEPT !.count = 0]

(* A descriptor with a value of its own; others leave the value as it was. *)
SpecialValue(vs, before) ==
  LET float(bytes) == Value("FLOAT64", bytes)
      inf(sign) == float(<<0, 0, 0, 0, 0, 0, 240, sign>>)
  IN  CASE vs = Special["NIL"] -> Value("NIL", <<>>)
        [] vs = Special["FALSE"] -> Value("BOOL", <<0>>)
        [] vs = Special["TRUE"] -> Value("BOOL", <<1>>)
        [] vs = Special["NAN"] -> float(<<1, 0, 0, 0, 0, 0, 248, 127>>)
        [] vs = Special["POSINF"] -> inf(127)
        [] vs = Special["NEGINF"] -> inf(255)
        [] vs = Special["ZEROFLOAT"] -> float(<<0, 0, 0, 0, 0, 0, 0, 0>>)
        [] vs = Special["ZERO"] -> Value("POS_INT", Uint64(0))
        [] vs = Special["NEGONE"] -> Value("NEG_INT", Uint64(1))
        [] OTHER -> Kept(before)

(* A part into memory that holds the value before. *)
BincDecode(b, p, before) ==
  LET vd == ByteAt(b, p) - (ByteAt(b, p) % 16)
      vs == ByteAt(b, p) % 16
      q == p + 1
  IN  IF Past(b, p, 1)
      THEN Fail(p)
      ELSE
        CASE vd = BincDesc["SPECIAL"] -> Got(SpecialValue(vs, before), q)
          [] vd = BincDesc["SMALLINT"] -> Got(Value("POS_INT", Uint64(vs + 1)), q)
          [] vd = BincDesc["POS_INT"] -> BincDecodeInt(b, q, vs, "POS_INT")
          [] vd = BincDesc["NEG_INT"] -> BincDecodeInt(b, q, vs, "NEG_INT")
          [] vd = BincDesc["FLOAT"] -> BincDecodeFloat(b, q, vs)
          [] vd \in {BincDesc["SYMBOL"], BincDesc["STRING"]} -> BincDecodeBlob(b, q, vs, "STRING")
          [] vd = BincDesc["BYTES"] -> BincDecodeBlob(b, q, vs, "BYTES")
          [] vd = BincDesc["EXT"] -> BincDecodeExt(b, q, vs)
          [] vd = BincDesc["ARRAY"] -> BincDecodeContainer(b, q, vs, "ARRAY")
          [] vd = BincDesc["MAP"] -> BincDecodeContainer(b, q, vs, "MAP")
          [] vd = BincDesc["TIMESTAMP"] -> Fail(q)
          [] OTHER -> Got(Kept(before), q)
=============================================================================
