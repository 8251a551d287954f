----------------------------- MODULE CodecPrint -----------------------------
(***************************************************************************)
(* ugorji/codec/codec: the printing of a codec_value, a part at a time:    *)
(* see CodecValue.  Which characters are printed is left out: a text is a  *)
(* slice of 1 for a character and 0 for a place that is counted and has    *)
(* none.                                                                   *)
(***************************************************************************)
EXTENDS CodecValue, FiniteSets

(* The n characters of a value go where limit - 1 and a NUL have room: no *)
(* more are written, and n are counted.                                   *)
Snprintf(t, limit, n) ==
  Written(t, [i \in 1..n |-> IF i < limit THEN 1 ELSE 0], IF n < limit THEN n + 1 ELSE limit)

PrintIn(t, limit, n) == Snprintf(Expand(t, limit), limit, n)
-----------------------------------------------------------------------------
(* The width of a number *)

SmallDigits(n) == IF n < 10 THEN 1 ELSE IF n < 100 THEN 2 ELSE 3

DivTen(u) ==
  FoldLeft(LAMBDA acc, byte : [q |-> Append(acc.q, (acc.r * 256 + byte) \div 10),
                               r |-> (acc.r * 256 + byte) % 10],
           [q |-> <<>>, r |-> 0], u).q

(* A uint64_t, and what is left of it as one digit after the other goes. *)
Quotients(u) ==
  FoldLeft(LAMBDA qs, i : Append(qs, DivTen(qs[i])), <<u>>, [i \in 1..19 |-> i])

Digits(u) ==
  LET qs == Quotients(u)
  IN  Cardinality({i \in 1..20 : i = 1 \/ ~AllZero(qs[i])})

(* A char c in decimal, with its sign, and in hexadecimal, as an int. *)
Decimal(c) == IF c < 128 THEN SmallDigits(c) ELSE 1 + SmallDigits(256 - c)
Hex(c) == IF c >= 128 THEN 8 ELSE IF c >= 16 THEN 2 ELSE 1

(* %f of vFloat64; w is its width when the value is not zero.  A FLOAT32 *)
(* leaves half of vFloat64 zero, which is a number too small to show.    *)
FloatWidth(v, w) == IF v.type = "FLOAT32" \/ AllZero(v.data) THEN 8 ELSE w

NumberWidth(v, w) ==
  CASE v.type \in {"NIL", "BOOL"} -> 1
    [] v.type = "POS_INT" -> Digits(v.data)
    [] v.type = "NEG_INT" -> 1 + Digits(v.data)
    [] v.type \in Float -> FloatWidth(v, w)

(* The tag of an extension, between two prefixes. *)
TagWidth(tag) == IF tag >= 16 THEN 8 ELSE 7
-----------------------------------------------------------------------------
TypeCode == [none |-> 0, NIL |-> 1, BOOL |-> 2, POS_INT |-> 3, NEG_INT |-> 4, FLOAT32 |-> 5,
             FLOAT64 |-> 6, STRING |-> 7, BYTES |-> 8, ARRAY |-> 9, MAP |-> 10, EXT |-> 11]

(* Mutant: room for a character per byte. *)
BlobRoomOnce(n) == n + 8

(* Two characters have room for each byte. *)
BlobRoom(n) == 2 * n + 8

(* The bytes that are printed one by one. *)
Blob(v) ==
  CASE v.type = "BYTES" -> v.data
    [] v.type = "EXT" -> Tail(v.data)
    [] OTHER -> <<>>

(* The loop goes around for the parts of v, or for its bytes. *)
Turns(v) == Calls(v) + Len(Blob(v))

(* A call up to its loop. *)
PrintHead(s, v, w) ==
  LET t == PrintIn(s, 4, SmallDigits(TypeCode[v.type]) + 1)
      room == BlobRoom(Len(Blob(v)))
  IN  CASE v.type = "none" -> t
        [] v.type \in {"NIL", "BOOL"} \union Integer \union Float -> PrintIn(t, 16, NumberWidth(v, w))
        [] v.type = "STRING" -> AppendBytes(t, [i \in DOMAIN v.data |-> 1])
        [] v.type = "BYTES" -> Snprintf(Expand(t, room), 3, 2)
        [] v.type \in {"ARRAY", "MAP"} -> PrintIn(t, 3, 2)
        [] v.type = "EXT" -> Expand(PrintIn(PrintIn(t, 3, 2), 12, TagWidth(Head(v.data))), room)

(* How many characters one of the bytes of v takes. *)
ByteWidth(v, byte) == IF v.type = "BYTES" THEN Decimal(byte) ELSE Hex(byte)

PrintByte(t, v, i) == Snprintf(t, 3, ByteWidth(v, Blob(v)[i]))

(* Mutant: no room for the NUL. *)
CommaNoNul(t) == PrintIn(t, 2, 2)

Comma(t) == PrintIn(t, 3, 2)

(* What is before the i-th part of v. *)
Separator(t, v, i) ==
  CASE i > 1 /\ (v.type = "MAP" => i % 2 = 1) -> Comma(t)
    [] v.type = "MAP" /\ i % 2 = 0 -> PrintIn(t, 4, 3)
    [] OTHER -> t

(* A call after its loop. *)
PrintTail(t, v) == IF v.type \in {"ARRAY", "MAP", "EXT"} THEN PrintIn(t, 3, 2) ELSE t

(* The NUL at the end is not counted. *)
PrintNul(t) == [AppendBytes(t, <<0>>) EXCEPT !.bytes = t.bytes]
-----------------------------------------------------------------------------
(* Are there two characters at most for a byte that is printed? *)
Narrow(v) == \A i \in DOMAIN Blob(v) : ByteWidth(v, Blob(v)[i]) <= 2

(* Has a call all of its characters in the text? *)
Whole(v, w) ==
  /\ v.type \in Integer \union Float => NumberWidth(v, w) <= 15
  /\ Narrow(v)
=============================================================================
