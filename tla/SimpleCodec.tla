---------------------------- MODULE SimpleCodec ----------------------------
(***************************************************************************)
(* ugorji/codec/simplecodec: a value as a descriptor byte, a length in as  *)
(* few bytes as will do, and the bytes.  An operator is one call of the    *)
(* function, for one part of a value: see CodecValue.                      *)
(***************************************************************************)
EXTENDS CodecValue

(* The descriptor bytes; those of a width or a length are added to. *)
SimpleDesc == [
  NIL |-> 1, FALSE |-> 2, TRUE |-> 3, FLOAT32 |-> 4, FLOAT64 |-> 5,
  POS_INT |-> 8, NEG_INT |-> 12,
  STRING |-> 216, BYTES |-> 224, ARRAY |-> 232, MAP |-> 240, EXT |-> 248]

Widths == <<1, 2, 4, 8>>
-----------------------------------------------------------------------------
(* Encoding *)

(* In which of the widths the integer u is written. *)
Code(u) == IF Fit(u, 1) THEN 0 ELSE IF Fit(u, 2) THEN 1 ELSE IF Fit(u, 4) THEN 2 ELSE 3

(* A descriptor that also says the width, and the integer. *)
SimpleEncodeUint(s, bd, u) ==
  LET t == AppendByte(s, bd + Code(u))
      low == SubSeq(u, 9 - Widths[Code(u) + 1], 8)
  IN  IF Code(u) = 0 THEN AppendBytes(t, low) ELSE WriteInPlace(t, low)

(* Mutant: a length of zero is written too. *)
SimpleAppendLenAlways(s, bd, n) ==
  IF n = 0 THEN AppendByte(AppendByte(s, bd), 0) ELSE SimpleEncodeUint(s, bd + 1, Uint64(n))

SimpleAppendLen(s, bd, n) ==
  IF n = 0 THEN AppendByte(s, bd) ELSE SimpleEncodeUint(s, bd + 1, Uint64(n))

SimpleEncode(s, v) ==
  LET bd == SimpleDesc[v.type]
      n == Len(v.data)
  IN  CASE v.type = "NIL" -> AppendByte(s, bd)
        [] v.type = "BOOL" -> AppendByte(s, SimpleDesc[IF v.data = <<1>> THEN "TRUE" ELSE "FALSE"])
        [] v.type \in Integer -> SimpleEncodeUint(s, bd, v.data)
        [] v.type \in Float -> AppendBytes(AppendByte(s, bd), v.data)
        [] v.type \in {"STRING", "BYTES"} -> AppendBlob(SimpleAppendLen(s, bd, n), v.data)
        [] v.type \in {"ARRAY", "MAP"} -> SimpleAppendLen(s, bd, v.count)
        [] v.type = "EXT" ->
             AppendBlob(AppendByte(SimpleAppendLen(s, bd, n - 1), Head(v.data)), Tail(v.data))
-----------------------------------------------------------------------------
(* Decoding *)

(* A char c as a uint64_t by way of an unsigned type of n bytes. *)
Widened(c, n) ==
  [i \in 1..8 |-> IF i = 8 THEN c ELSE IF i > 8 - n /\ c >= 128 THEN 255 ELSE 0]

(* The value is the first of the n bytes. *)
Readn(b, p, n) == IF Past(b, p, n) THEN Fail(p) ELSE Got(Widened(ByteAt(b, p), n), p + n)

SimpleDecodeLen(b, p, bd) ==
  IF bd % 8 = 0
  THEN Got(0, p)
  ELSE LET r == Readn(b, p, Widths[bd % 8])
       IN  [r EXCEPT !.v = IF r.err THEN -1 ELSE Length(r.v)]

SimpleDecodeInt(b, p, bd, type) ==
  LET r == Readn(b, p, Widths[(bd % 4) + 1])
  IN  IF r.err THEN r ELSE Got(Value(type, r.v), r.pos)

(* The bytes are read as a big-endian integer and that integer, not its *)
(* bits, is assigned to the float: only zero comes out as it was.  The   *)
(* mark of a float made in this way is a 256, which is not a byte.       *)
NumberOf(bytes) == IF AllZero(bytes) THEN bytes ELSE <<256>> \o bytes

SimpleDecodeFloat(b, p, n, type) ==
  IF Past(b, p, n) THEN Fail(p) ELSE Got(Value(type, NumberOf(BytesAt(b, p, n))), p + n)

(* BYTES is set only over a type of zero. *)
BytesType(before) == IF before = "none" THEN "BYTES" ELSE before

SimpleDecodeBlob(b, p, bd, type) ==
  LET n == SimpleDecodeLen(b, p, bd)
  IN  IF n.err \/ Past(b, n.pos, n.v)
      THEN Fail(n.pos)
      ELSE Got(Value(type, Span(b, n.pos, n.v)), n.pos + n.v)

(* Is bd a descriptor of the type, plus at most n. *)
Is(bd, type, n) == bd \in SimpleDesc[type]..(SimpleDesc[type] + n)

(* Does the decoder store anything at all for the part at p? *)
SimpleStores(b, p) ==
  LET bd == ByteAt(b, p)
  IN  /\ p < Len(b)
      /\ \/ bd \in {SimpleDesc[d] : d \in {"NIL", "FALSE", "TRUE", "FLOAT32", "FLOAT64"}}
         \/ \E d \in Integer : Is(bd, d, 3) /\ ~Past(b, p + 1, Widths[(bd % 4) + 1])
         \/ \E d \in {"STRING", "BYTES", "ARRAY", "MAP", "EXT"} : Is(bd, d, 4)

(* For a length of -1 and others below zero calloc returns NULL, and the    *)
(* first element is stored through it.  A map is entered also when its      *)
(* length, which is then -1, was cut.                                       *)
SimpleDecodeContainer(b, p, bd, type) ==
  LET n == SimpleDecodeLen(b, p, bd)
  IN  IF ~n.err /\ n.v >= 0
      THEN Got(Container(type, n.v), n.pos)
      ELSE IF (n.err /\ type = "ARRAY") \/ ~SimpleStores(b, n.pos)
           THEN Fail(n.pos)
           ELSE Crash(n.pos)

(* A length that was cut is -1 here too: nothing is past the end then, but  *)
(* *err is set.  One of -1 that was read leaves the position at the tag.    *)
SimpleDecodeExt(b, p, bd) ==
  LET n == SimpleDecodeLen(b, p, bd)
  IN  IF n.err \/ Past(b, n.pos, 1 + n.v)
      THEN Fail(n.pos)
      ELSE Got(Value("EXT", IF n.v < 0 THEN Wild ELSE BytesAt(b, n.pos, 1 + n.v)), n.pos + 1 + n.v)

(* A part into memory whose type field is before. *)
SimpleDecode(b, p, before) ==
  LET bd == ByteAt(b, p)
      q == p + 1
  IN  IF p >= Len(b)
      THEN Fail(p)
      ELSE
        CASE bd = SimpleDesc["NIL"] -> Got(Value("NIL", <<>>), q)
          [] bd = SimpleDesc["FALSE"] -> Got(Value("BOOL", <<0>>), q)
          [] bd = SimpleDesc["TRUE"] -> Got(Value("BOOL", <<1>>), q)
          [] Is(bd, "POS_INT", 3) -> SimpleDecodeInt(b, q, bd, "POS_INT")
          [] Is(bd, "NEG_INT", 3) -> SimpleDecodeInt(b, q, bd, "NEG_INT")
          [] bd = SimpleDesc["FLOAT32"] -> SimpleDecodeFloat(b, q, 4, "FLOAT32")
          [] bd = SimpleDesc["FLOAT64"] -> SimpleDecodeFloat(b, q, 8, "FLOAT64")
          [] Is(bd, "STRING", 4) -> SimpleDecodeBlob(b, q, bd, "STRING")
          [] Is(bd, "BYTES", 4) -> SimpleDecodeBlob(b, q, bd, BytesType(before))
          [] Is(bd, "ARRAY", 4) -> SimpleDecodeContainer(b, q, bd, "ARRAY")
          [] Is(bd, "MAP", 4) -> SimpleDecodeContainer(b, q, bd, "MAP")
          [] Is(bd, "EXT", 4) -> SimpleDecodeExt(b, q, bd)
          [] OTHER -> Fail(q)
=============================================================================
