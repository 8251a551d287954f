----------------------------- MODULE CodecProof -----------------------------
(***************************************************************************)
(* Lemmas about the operators of Slice and of the two codecs, for data of  *)
(* any length: an encoder only adds the bytes of its part to a slice, in a *)
(* block that has room for them; a decoder that does not refuse goes on,   *)
(* and makes a part with data of its type; and what a decoder makes of an  *)
(* encoder's bytes.  CodecStreamProof is about the use of them.            *)
(***************************************************************************)
EXTENDS SimpleCodec, BincCodec, CodecPrint, TLAPS, SequenceTheorems, FiniteSetTheorems

Slices == [bytes : Seq(Byte), cap : Nat, over : BOOLEAN]

LEMMA Remainder ==
  ASSUME NEW n \in Nat, NEW d \in Nat \ {0}
  PROVE  /\ n % d \in 0..(d - 1)
         /\ n \div d \in Nat
         /\ n = (d * (n \div d)) + (n % d)
  OBVIOUS

LEMMA MultipleRemainder ==
  ASSUME NEW m \in Nat, NEW d \in Nat \ {0}
  PROVE  (d * m) % d = 0
<1> DEFINE q == (d * m) \div d
           r == (d * m) % d
<1>1. d * m \in Nat
  OBVIOUS
<1>2. q \in Nat /\ r \in 0..(d - 1) /\ d * m = d * q + r
  BY <1>1, Remainder
<1>3. r = d * (m - q)
  BY <1>2
<1>4. CASE m - q >= 1
  <2>1. d * (m - q) >= d
    BY <1>4, <1>2
  <2> QED
    BY <2>1, <1>2, <1>3
<1>5. CASE m - q <= -1
  <2>1. d * (m - q) < 0
    BY <1>5, <1>2
  <2> QED
    BY <2>1, <1>2, <1>3
<1>6. CASE m = q
  BY <1>6, <1>3, <1>2
<1> QED
  BY <1>2, <1>4, <1>5, <1>6

LEMMA RoundUpIsEnough ==
  ASSUME NEW n \in Nat
  PROVE  RoundUp(n) \in Nat /\ RoundUp(n) >= n /\ RoundUp(n) % Line = 0
<1>1. CASE n % Line = 0
  BY <1>1 DEF RoundUp
<1>2. CASE n % Line # 0
  <2>1. RoundUp(n) = n + (Line - (n % Line))
    BY <1>2, LineAssumption DEF RoundUp
  <2>2. n % Line \in 0..(Line - 1) /\ n \div Line \in Nat /\ n = (Line * (n \div Line)) + (n % Line)
    BY Remainder, LineAssumption
  <2>3. RoundUp(n) = Line * ((n \div Line) + 1)
    BY <2>1, <2>2, LineAssumption
  <2>4. \A m \in Nat : (Line * m) % Line = 0
    BY MultipleRemainder, LineAssumption
  <2>5. RoundUp(n) % Line = 0
    <3>1. (n \div Line) + 1 \in Nat
      BY <2>2
    <3> QED
      BY <2>4, <3>1, <2>3
  <2> QED
    BY <2>1, <2>2, <2>5, LineAssumption
<1> QED
  BY <1>1, <1>2

LEMMA GrownIsEnough ==
  ASSUME NEW s, NEW n \in Nat, s.cap \in Nat, Len(s.bytes) \in Nat
  PROVE  /\ RoundUp(Grown(s, n)) \in Nat
         /\ RoundUp(Grown(s, n)) >= Len(s.bytes) + n
         /\ RoundUp(Grown(s, n)) % Line = 0
<1>1. Grown(s, n) \in Nat /\ Grown(s, n) >= Len(s.bytes) + n
  BY DEF Grown
<1>2. /\ RoundUp(Grown(s, n)) \in Nat
      /\ RoundUp(Grown(s, n)) >= Grown(s, n)
      /\ RoundUp(Grown(s, n)) % Line = 0
  BY <1>1, RoundUpIsEnough
<1> QED
  BY <1>1, <1>2

(* t is s with the bytes d after it, in a block that holds them. *)
Grew(s, t, d) ==
  /\ d \in Seq(Byte)
  /\ t \in Slices /\ Fits(t)
  /\ t.bytes = s.bytes \o d

LEMMA ExpandMakesRoom ==
  ASSUME NEW s \in Slices, NEW n \in Nat, Fits(s)
  PROVE  /\ Expand(s, n) \in Slices /\ Fits(Expand(s, n))
         /\ Expand(s, n).bytes = s.bytes
         /\ Expand(s, n).cap >= Len(s.bytes) + n
<1>1. s.cap \in Nat /\ Len(s.bytes) \in Nat /\ s.bytes \in Seq(Byte)
  BY LenProperties DEF Slices
<1>2. CASE Len(s.bytes) + n <= s.cap
  BY <1>1, <1>2 DEF Expand
<1>3. CASE ~(Len(s.bytes) + n <= s.cap)
  <2>1. Expand(s, n) = [s EXCEPT !.cap = RoundUp(Grown(s, n))]
    BY <1>3 DEF Expand
  <2>2. /\ Expand(s, n) \in Slices
        /\ Expand(s, n).bytes = s.bytes
        /\ Expand(s, n).cap = RoundUp(Grown(s, n))
        /\ Expand(s, n).over = s.over
    BY <2>1, <1>1, GrownIsEnough DEF Slices
  <2>3. /\ RoundUp(Grown(s, n)) >= Len(s.bytes) + n
        /\ RoundUp(Grown(s, n)) % Line = 0 /\ RoundUp(Grown(s, n)) \in Nat
    BY <1>1, GrownIsEnough
  <2> DEFINE e == Expand(s, n)
             c == RoundUp(Grown(s, n))
  <2>4. e \in Slices /\ e.bytes = s.bytes /\ e.cap = c /\ e.over = s.over /\ ~s.over
    BY <2>2 DEF Fits
  <2>5. c >= Len(s.bytes) + n /\ c % Line = 0 /\ c \in Nat
    BY <2>3
  <2> HIDE DEF e, c
  <2>6. c >= Len(s.bytes)
    BY <1>1, <2>5
  <2>7. Fits(e) /\ e.cap >= Len(s.bytes) + n
    BY <2>4, <2>5, <2>6 DEF Fits
  <2> QED
    BY <2>4, <2>7 DEF e
<1> QED
  BY <1>2, <1>3

(* The same for what is put behind the bytes of an expanded slice. *)
LEMMA PutInRoom ==
  ASSUME NEW s \in Slices, NEW d \in Seq(Byte), NEW n \in Nat, Fits(s), n >= Len(d)
  PROVE  Grew(s, Written(Expand(s, n), d, n), d)
<1> DEFINE t == Expand(s, n)
           u == Written(t, d, n)
<1>1. t \in Slices /\ Fits(t) /\ t.bytes = s.bytes /\ t.cap >= Len(s.bytes) + n
  BY ExpandMakesRoom
<1>2. s.bytes \in Seq(Byte) /\ Len(s.bytes) \in Nat /\ Len(d) \in Nat
  BY LenProperties DEF Slices
<1>3. s.bytes \o d \in Seq(Byte) /\ Len(s.bytes \o d) = Len(s.bytes) + Len(d)
  BY <1>2, ConcatProperties
<1> HIDE DEF t
<1>4. u \in Slices /\ u.bytes = s.bytes \o d /\ u.cap = t.cap /\ ~u.over
  <2>1. t.over = FALSE /\ t.cap \in Nat
    BY <1>1 DEF Fits, Slices
  <2>2. ~(Len(t.bytes) + n > t.cap)
    BY <1>1, <1>2, <2>1
  <2>3. u = [t EXCEPT !.bytes = s.bytes \o d, !.over = FALSE]
    BY <1>1, <2>1, <2>2 DEF Written, Slices
  <2> HIDE DEF u
  <2> QED
    BY <1>1, <1>3, <2>3 DEF Slices
<1>5. Fits(u)
  BY <1>1, <1>2, <1>3, <1>4 DEF Fits, Slices
<1> QED
  BY <1>4, <1>5 DEF Grew, t

LEMMA AppendBytesGrows ==
  ASSUME NEW s \in Slices, NEW d \in Seq(Byte), Fits(s)
  PROVE  Grew(s, AppendBytes(s, d), d)
<1>1. Len(d) + 1 \in Nat /\ Len(d) + 1 >= Len(d)
  BY LenProperties
<1> QED
  BY <1>1, PutInRoom DEF AppendBytes

LEMMA WriteInPlaceGrows ==
  ASSUME NEW s \in Slices, NEW d \in Seq(Byte), Fits(s)
  PROVE  Grew(s, WriteInPlace(s, d), d)
<1>1. Len(d) \in Nat
  BY LenProperties
<1> QED
  BY <1>1, PutInRoom DEF WriteInPlace

LEMMA AppendByteGrows ==
  ASSUME NEW s \in Slices, NEW x \in Byte, Fits(s)
  PROVE  Grew(s, AppendByte(s, x), <<x>>)
<1>1. <<x>> \in Seq(Byte)
  OBVIOUS
<1> QED
  BY <1>1, AppendBytesGrows DEF AppendByte

LEMMA AppendBlobGrows ==
  ASSUME NEW s \in Slices, NEW d \in Seq(Byte), Fits(s)
  PROVE  Grew(s, AppendBlob(s, d), d)
<1>1. CASE d = <<>>
  <2>1. s.bytes \in Seq(Byte)
    BY DEF Slices
  <2>2. s.bytes = s.bytes \o d
    BY <2>1, <1>1, ConcatEmptySeq
  <2> QED
    BY <2>2, <1>1 DEF AppendBlob, Grew
<1>2. CASE d # <<>>
  BY <1>2, AppendBytesGrows DEF AppendBlob
<1> QED
  BY <1>1, <1>2

LEMMA GrewTwice ==
  ASSUME NEW s \in Slices, NEW t, NEW u, NEW d, NEW e, Grew(s, t, d), Grew(t, u, e)
  PROVE  Grew(s, u, d \o e)
<1>1. s.bytes \in Seq(Byte) /\ d \in Seq(Byte) /\ e \in Seq(Byte)
  BY DEF Slices, Grew
<1>2. \A x, y, z \in Seq(Byte) : (x \o y) \o z = x \o (y \o z)
  BY ConcatAssociative
<1>4. (s.bytes \o d) \o e = s.bytes \o (d \o e)
  BY <1>1, <1>2
<1>3. d \o e \in Seq(Byte)
  BY <1>1, ConcatProperties
<1> QED
  BY <1>3, <1>4 DEF Grew
-----------------------------------------------------------------------------
(* What the Simple codec makes of a part. *)
Uints == [1..8 -> Byte]

Low(u) == SubSeq(u, 9 - Widths[Code(u) + 1], 8)

SimpleUint(bd, u) == <<bd + Code(u)>> \o Low(u)

SimpleLen(bd, n) == IF n = 0 THEN <<bd>> ELSE SimpleUint(bd + 1, Uint64(n))

SimpleImage(v) ==
  LET bd == SimpleDesc[v.type]
      n == Len(v.data)
  IN  CASE v.type = "NIL" -> <<bd>>
        [] v.type = "BOOL" -> <<SimpleDesc[IF v.data = <<1>> THEN "TRUE" ELSE "FALSE"]>>
        [] v.type \in Integer -> SimpleUint(bd, v.data)
        [] v.type \in Float -> <<bd>> \o v.data
        [] v.type \in {"STRING", "BYTES"} -> SimpleLen(bd, n) \o v.data
        [] v.type \in {"ARRAY", "MAP"} -> SimpleLen(bd, v.count)
        [] v.type = "EXT" -> (SimpleLen(bd, n - 1) \o <<Head(v.data)>>) \o Tail(v.data)

LEMMA Uint64IsUint ==
  ASSUME NEW n \in Nat
  PROVE  Uint64(n) \in Uints
<1> DEFINE a == (n \div 16777216) % 256
           b == (n \div 65536) % 256
           c == (n \div 256) % 256
           e == n % 256
<1>1. \A d \in Nat \ {0} : (n \div d) % 256 \in Byte
  <2> TAKE d \in Nat \ {0}
  <2>1. n \div d \in Nat
    BY Remainder
  <2> QED
    BY <2>1, Remainder DEF Byte
<1>2. a \in Byte
  BY <1>1, SMT
<1>3. b \in Byte /\ c \in Byte /\ e \in Byte /\ 0 \in Byte
  BY <1>1, SMT DEF Byte
<1> HIDE DEF a, b, c, e
<1>4. <<0, 0, 0, 0, a, b, c, e>> \in Uints
  BY <1>2, <1>3 DEF Uints
<1> QED
  BY <1>4, SMT DEF Uint64, a, b, c, e

LEMMA LowOfUint ==
  ASSUME NEW u \in Uints
  PROVE  /\ Code(u) \in 0..3
         /\ Widths[Code(u) + 1] \in {1, 2, 4, 8}
         /\ Low(u) \in Seq(Byte) /\ Len(Low(u)) = Widths[Code(u) + 1]
         /\ \A i \in 1..Widths[Code(u) + 1] : Low(u)[i] = u[8 - Widths[Code(u) + 1] + i]
<1> DEFINE w == Widths[Code(u) + 1]
<1>1. Code(u) \in 0..3
  BY DEF Code
<1>2. w \in {1, 2, 4, 8}
  BY <1>1 DEF Widths
<1> HIDE DEF w
<1>3. \A i \in (9 - w)..8 : u[i] \in Byte
  BY <1>2 DEF Uints
<1>4. /\ SubSeq(u, 9 - w, 8) \in Seq(Byte)
      /\ Len(SubSeq(u, 9 - w, 8)) = w
      /\ \A i \in 1..(8 - (9 - w) + 1) : SubSeq(u, 9 - w, 8)[i] = u[(9 - w) + i - 1]
  BY <1>2, <1>3, SubSeqProperties
<1>5. \A i \in 1..w : i \in 1..(8 - (9 - w) + 1) /\ (9 - w) + i - 1 = 8 - w + i
  BY <1>2
<1>6. Low(u) = SubSeq(u, 9 - w, 8)
  BY DEF Low, w
<1>7. \A i \in 1..w : Low(u)[i] = u[8 - w + i]
  BY <1>4, <1>5, <1>6
<1> QED
  BY <1>1, <1>2, <1>4, <1>6, <1>7 DEF w

LEMMA SimpleUintGrows ==
  ASSUME NEW s \in Slices, Fits(s), NEW bd \in 0..252, NEW u \in Uints
  PROVE  Grew(s, SimpleEncodeUint(s, bd, u), SimpleUint(bd, u))
<1> DEFINE x == bd + Code(u)
           t == AppendByte(s, x)
<1>1. Low(u) \in Seq(Byte)
  BY LowOfUint
<1>0. Code(u) \in 0..3
  BY LowOfUint
<1>2. x \in Byte
  BY <1>0 DEF Byte
<1>3. Grew(s, t, <<x>>)
  BY <1>2, AppendByteGrows
<1>4. t \in Slices /\ Fits(t)
  BY <1>3 DEF Grew
<1> HIDE DEF t, x
<1>5. Grew(t, AppendBytes(t, Low(u)), Low(u)) /\ Grew(t, WriteInPlace(t, Low(u)), Low(u))
  BY <1>1, <1>4, AppendBytesGrows, WriteInPlaceGrows
<1>6. SimpleEncodeUint(s, bd, u) = IF Code(u) = 0 THEN AppendBytes(t, Low(u)) ELSE WriteInPlace(t, Low(u))
  BY DEF SimpleEncodeUint, Low, t, x
<1>7. Grew(t, SimpleEncodeUint(s, bd, u), Low(u))
  BY <1>5, <1>6
<1> QED
  BY <1>3, <1>7, GrewTwice DEF SimpleUint, x

LEMMA SimpleLenGrows ==
  ASSUME NEW s \in Slices, Fits(s), NEW bd \in 0..251, NEW n \in Nat
  PROVE  Grew(s, SimpleAppendLen(s, bd, n), SimpleLen(bd, n))
<1>1. CASE n = 0
  <2>1. bd \in Byte
    BY DEF Byte
  <2> QED
    BY <1>1, <2>1, AppendByteGrows DEF SimpleAppendLen, SimpleLen
<1>2. CASE n # 0
  BY <1>2, Uint64IsUint, SimpleUintGrows DEF SimpleAppendLen, SimpleLen
<1> QED
  BY <1>1, <1>2

LEMMA PartsOfValue ==
  ASSUME NEW v, IsValue(v)
  PROVE  /\ v.type \in Types /\ v = [type |-> v.type, data |-> v.data, count |-> v.count]
         /\ v.data \in Seq(Byte) /\ Len(v.data) \in Nat
         /\ v.count \in Nat
         /\ v.type \notin {"ARRAY", "MAP"} => v.count = 0
         /\ v.type \in {"NIL", "ARRAY", "MAP"} => v.data = <<>>
         /\ v.type = "BOOL" => v.data \in {<<0>>, <<1>>}
         /\ v.type \in Integer => v.data \in Uints
         /\ v.type = "FLOAT32" => Len(v.data) = 4
         /\ v.type = "FLOAT64" => Len(v.data) = 8
<1>1. v \in [type : Types, data : Seq(Byte), count : 0..MaxLength] /\ Sized(v)
      /\ (v.type \notin {"ARRAY", "MAP"} => v.count = 0)
  BY DEF IsValue
<1>2. /\ v.type \in Types /\ v = [type |-> v.type, data |-> v.data, count |-> v.count]
      /\ v.data \in Seq(Byte) /\ v.count \in 0..MaxLength
  BY <1>1
<1>3. Len(v.data) \in Nat /\ v.data \in [1..Len(v.data) -> Byte]
  BY <1>2, LenProperties
<1>4. v.count \in Nat
  BY <1>2
<1>5. v.type \in {"NIL", "ARRAY", "MAP"} => v.data = <<>>
  <2>1. v.type \in {"NIL", "ARRAY", "MAP"} => Len(v.data) = 0
    BY <1>1 DEF Sized, Integer
  <2> QED
    BY <2>1, <1>2, EmptySeq
<1>6. /\ v.type = "BOOL" => v.data \in {<<0>>, <<1>>}
      /\ v.type \in Integer => Len(v.data) = 8
      /\ v.type = "FLOAT32" => Len(v.data) = 4
      /\ v.type = "FLOAT64" => Len(v.data) = 8
  BY <1>1 DEF Sized, Integer
<1>7. v.type \in Integer => v.data \in Uints
  BY <1>3, <1>6 DEF Uints
<1> QED
  BY <1>1, <1>2, <1>3, <1>4, <1>5, <1>6, <1>7

LEMMA PartsOfExt ==
  ASSUME NEW v, IsValue(v), v.type = "EXT"
  PROVE  /\ v.data # <<>> /\ Len(v.data) - 1 \in Nat
         /\ Head(v.data) \in Byte /\ Head(v.data) = v.data[1]
         /\ Tail(v.data) \in Seq(Byte) /\ Len(Tail(v.data)) = Len(v.data) - 1
         /\ \A i \in 1..(Len(v.data) - 1) : Tail(v.data)[i] = v.data[i + 1]
<1>1. v.data \in Seq(Byte) /\ Len(v.data) \in Nat /\ Len(v.data) >= 1
  BY PartsOfValue DEF IsValue, Sized, Integer
<1>2. v.data # <<>>
  BY <1>1, EmptySeq
<1> QED
  BY <1>1, <1>2, HeadTailProperties

LEMMA SimpleEncodeGrows ==
  ASSUME NEW s \in Slices, Fits(s), NEW v, IsValue(v)
  PROVE  Grew(s, SimpleEncode(s, v), SimpleImage(v))
<1> DEFINE bd == SimpleDesc[v.type]
           n == Len(v.data)
<1>1. v.type \in Types /\ v.data \in Seq(Byte) /\ n \in Nat /\ v.count \in Nat
  BY PartsOfValue
<1>2. /\ v.type \in Types \ {"BOOL"} => bd \in 1..248
      /\ SimpleDesc["TRUE"] = 3 /\ SimpleDesc["FALSE"] = 2
  BY DEF SimpleDesc, Types
<1>3. CASE v.type = "NIL"
  <2>1. SimpleEncode(s, v) = AppendByte(s, bd) /\ SimpleImage(v) = <<bd>>
    BY <1>3 DEF SimpleEncode, SimpleImage, Float, Integer
  <2>2. bd \in Byte
    BY <1>2, <1>3 DEF Byte, Types
  <2> QED
    BY <2>1, <2>2, AppendByteGrows
<1>4. CASE v.type = "BOOL"
  <2> DEFINE x == SimpleDesc[IF v.data = <<1>> THEN "TRUE" ELSE "FALSE"]
  <2>1. SimpleEncode(s, v) = AppendByte(s, x) /\ SimpleImage(v) = <<x>>
    BY <1>4 DEF SimpleEncode, SimpleImage, Float, Integer
  <2>2. x \in Byte
    BY <1>2 DEF Byte
  <2> QED
    BY <2>1, <2>2, AppendByteGrows
<1>5. CASE v.type \in Integer
  <2>1. /\ SimpleEncode(s, v) = SimpleEncodeUint(s, bd, v.data)
        /\ SimpleImage(v) = SimpleUint(bd, v.data)
    BY <1>5 DEF SimpleEncode, SimpleImage, Float, Integer
  <2>2. bd \in 0..252 /\ v.data \in Uints
    BY <1>2, <1>5, PartsOfValue DEF Integer, Types
  <2> QED
    BY <2>1, <2>2, SimpleUintGrows
<1>6. CASE v.type \in Float
  <2>1. /\ SimpleEncode(s, v) = AppendBytes(AppendByte(s, bd), v.data)
        /\ SimpleImage(v) = <<bd>> \o v.data
    BY <1>6 DEF SimpleEncode, SimpleImage, Float, Integer
  <2>2. bd \in Byte
    BY <1>2, <1>6 DEF Byte, Float, Types
  <2>3. Grew(s, AppendByte(s, bd), <<bd>>)
    BY <2>2, AppendByteGrows
  <2>4. Grew(AppendByte(s, bd), AppendBytes(AppendByte(s, bd), v.data), v.data)
    BY <2>3, <1>1, AppendBytesGrows DEF Grew
  <2> QED
    BY <2>1, <2>3, <2>4, GrewTwice
<1>7. CASE v.type \in {"STRING", "BYTES"}
  <2> DEFINE t == SimpleAppendLen(s, bd, n)
  <2>1. /\ SimpleEncode(s, v) = AppendBlob(t, v.data)
        /\ SimpleImage(v) = SimpleLen(bd, n) \o v.data
    BY <1>7 DEF SimpleEncode, SimpleImage, Float, Integer
  <2>2. bd \in 0..251
    BY <1>2, <1>7 DEF Types
  <2>3. Grew(s, t, SimpleLen(bd, n))
    BY <2>2, <1>1, SimpleLenGrows
  <2>4. Grew(t, AppendBlob(t, v.data), v.data)
    BY <2>3, <1>1, AppendBlobGrows DEF Grew
  <2> QED
    BY <2>1, <2>3, <2>4, GrewTwice
<1>8. CASE v.type \in {"ARRAY", "MAP"}
  <2>1. /\ SimpleEncode(s, v) = SimpleAppendLen(s, bd, v.count)
        /\ SimpleImage(v) = SimpleLen(bd, v.count)
    BY <1>8 DEF SimpleEncode, SimpleImage, Float, Integer
  <2>2. bd \in 0..251
    BY <1>2, <1>8 DEF Types
  <2> QED
    BY <2>1, <2>2, <1>1, SimpleLenGrows
<1>9. CASE v.type = "EXT"
  <2> DEFINE t == SimpleAppendLen(s, bd, n - 1)
             u == AppendByte(t, Head(v.data))
  <2>1. /\ SimpleEncode(s, v) = AppendBlob(u, Tail(v.data))
        /\ SimpleImage(v) = (SimpleLen(bd, n - 1) \o <<Head(v.data)>>) \o Tail(v.data)
    BY <1>9 DEF SimpleEncode, SimpleImage, Float, Integer
  <2>2. bd \in 0..251
    BY <1>2, <1>9 DEF Types
  <2>3. n - 1 \in Nat /\ Head(v.data) \in Byte /\ Tail(v.data) \in Seq(Byte)
    BY <1>9, PartsOfExt
  <2>4. Grew(s, t, SimpleLen(bd, n - 1))
    BY <2>2, <2>3, SimpleLenGrows
  <2>5. t \in Slices /\ Fits(t)
    BY <2>4 DEF Grew
  <2> HIDE DEF t
  <2>6. Grew(t, u, <<Head(v.data)>>)
    BY <2>3, <2>5, AppendByteGrows
  <2>7. u \in Slices /\ Fits(u)
    BY <2>6 DEF Grew
  <2> HIDE DEF u
  <2>8. Grew(u, AppendBlob(u, Tail(v.data)), Tail(v.data))
    BY <2>3, <2>7, AppendBlobGrows
  <2>9. Grew(s, u, SimpleLen(bd, n - 1) \o <<Head(v.data)>>)
    BY <2>4, <2>6, GrewTwice
  <2> QED
    BY <2>1, <2>8, <2>9, GrewTwice DEF t, u
<1> QED
  BY <1>1, <1>3, <1>4, <1>5, <1>6, <1>7, <1>8, <1>9 DEF Types, Integer, Float
-----------------------------------------------------------------------------
(* What Binc makes of a part. *)
PrunedImage(bd, pos, u) ==
  LET x == PruneBuffer(u)
      n == Pruned(x, pos)
  IN  <<bd + Len(x) - 1 - n>> \o SubSeq(x, n + 1, Len(x))

BincUint(bd, pos, u) ==
  CASE AllZero(u) -> <<Special["ZERO"]>>
    [] ~AllZero(u) /\ pos /\ Fit(u, 1) /\ u[8] <= 16 -> <<BincDesc["SMALLINT"] + u[8] - 1>>
    [] ~AllZero(u) /\ ~(pos /\ u[8] <= 16) /\ Fit(u, 1) -> <<bd>> \o <<u[8]>>
    [] ~Fit(u, 1) /\ Fit(u, 2) -> SubSeq(u, 7, 8)
    [] ~Fit(u, 2) -> PrunedImage(bd, pos, u)

BincLen(bd, n) == IF ShortLen(n) THEN <<bd + n + 4>> ELSE BincUint(bd, FALSE, Uint64(n))

FloatImage(bytes, k) ==
  CASE IsZero(bytes) -> <<Special["ZEROFLOAT"]>>
    [] ~IsZero(bytes) /\ k <= 6 ->
         (<<BincDesc["FLOAT"] + 10>> \o <<k>>) \o SubSeq(Double(bytes), 1, k)
    [] ~IsZero(bytes) /\ k > 6 -> <<BincDesc["FLOAT"] + 2>> \o Double(bytes)

BincImage(v, k) ==
  LET bd == BincDesc[v.type]
      n == Len(v.data)
  IN  CASE v.type = "NIL" -> <<Special["NIL"]>>
        [] v.type = "BOOL" -> <<Special[IF v.data = <<1>> THEN "TRUE" ELSE "FALSE"]>>
        [] v.type \in Integer -> BincUint(bd, v.type = "POS_INT", v.data)
        [] v.type \in Float -> FloatImage(v.data, k)
        [] v.type \in {"STRING", "BYTES"} -> BincLen(bd, n) \o v.data
        [] v.type \in {"ARRAY", "MAP"} -> BincLen(bd, v.count)
        [] v.type = "EXT" ->
             (BincLen(bd, n - 1) \o <<Head(v.data)>>) \o Address(Tail(v.data))

LEMMA PruneBufferIsBytes ==
  ASSUME NEW u \in Uints
  PROVE  /\ PruneBuffer(u) \in Seq(Byte)
         /\ Len(PruneBuffer(u)) = IF Fit(u, 4) THEN 4 ELSE 8
         /\ \A i \in 1..4 : PruneBuffer(u)[i] = u[i + 4]
         /\ ~Fit(u, 4) => \A i \in 5..8 : PruneBuffer(u)[i] = 0
<1> DEFINE low == SubSeq(u, 5, 8)
           zeros == <<0, 0, 0, 0>>
<1>1. \A i \in 5..8 : u[i] \in Byte
  BY DEF Uints
<1>2. /\ low \in Seq(Byte) /\ Len(low) = 4
      /\ \A i \in 1..(8 - 5 + 1) : low[i] = u[5 + i - 1]
  BY <1>1, SubSeqProperties
<1>3. \A i \in 1..4 : low[i] = u[i + 4]
  BY <1>2
<1>4. 0 \in Byte
  BY DEF Byte
<1>5. zeros \in Seq(Byte) /\ Len(zeros) = 4 /\ \A i \in 1..4 : zeros[i] = 0
  BY <1>4
<1> HIDE DEF low, zeros
<1> DEFINE both == low \o zeros
<1>9. /\ both \in Seq(Byte) /\ Len(both) = Len(low) + Len(zeros)
      /\ \A i \in 1..(Len(low) + Len(zeros)) :
           both[i] = IF i <= Len(low) THEN low[i] ELSE zeros[i - Len(low)]
  BY <1>2, <1>5, ConcatProperties
<1> HIDE DEF both
<1>6. /\ both \in Seq(Byte) /\ Len(both) = 8
      /\ \A i \in 1..4 : both[i] = low[i]
      /\ \A i \in 5..8 : both[i] = zeros[i - 4]
  BY <1>2, <1>5, <1>9
<1>7. PruneBuffer(u) = IF Fit(u, 4) THEN low ELSE both
  BY DEF PruneBuffer, low, zeros, both
<1>8. \A i \in 5..8 : both[i] = 0
  BY <1>5, <1>6
<1> QED
  BY <1>2, <1>3, <1>6, <1>7, <1>8

(* The loop that prunes stops, at the first byte that must stay. *)
LEMMA PrunedStops ==
  ASSUME NEW x, Len(x) \in {4, 8}, NEW pos \in BOOLEAN
  PROVE  /\ Pruned(x, pos) \in 0..(Len(x) - 1)
         /\ Prunable(x, Pruned(x, pos), pos)
         /\ Pruned(x, pos) + 1 < Len(x) => ~Prunable(x, Pruned(x, pos) + 1, pos)
<1> DEFINE P(n) == Prunable(x, n, pos)
<1>1. P(0)
  BY DEF Prunable
<1> HIDE DEF P
<1>2. \E n \in 0..(Len(x) - 1) : P(n) /\ (n + 1 < Len(x) => ~P(n + 1))
  <2>1. SUFFICES ASSUME \A n \in 0..(Len(x) - 1) : P(n) => n + 1 < Len(x) /\ P(n + 1)
                 PROVE  FALSE
    OBVIOUS
  <2>2. P(1) /\ P(2) /\ P(3)
    BY <1>1, <2>1
  <2>3. CASE Len(x) = 4
    <3>1. 3 \in 0..(Len(x) - 1) /\ ~(3 + 1 < Len(x))
      BY <2>3
    <3> QED
      BY <2>1, <2>2, <3>1
  <2>4. CASE Len(x) = 8
    <3>1. P(4) /\ P(5) /\ P(6) /\ P(7)
      BY <2>1, <2>2, <2>4
    <3>2. 7 \in 0..(Len(x) - 1) /\ ~(7 + 1 < Len(x))
      BY <2>4
    <3> QED
      BY <2>1, <3>1, <3>2
  <2> QED
    BY <2>3, <2>4
<1> QED
  BY <1>2 DEF Pruned, P

LEMMA PrunedGrows ==
  ASSUME NEW s \in Slices, Fits(s), NEW bd \in 0..240, NEW pos \in BOOLEAN, NEW u \in Uints
  PROVE  Grew(s, EncodePruned(s, bd, pos, u), PrunedImage(bd, pos, u))
<1> DEFINE x == PruneBuffer(u)
           n == Pruned(x, pos)
           y == bd + Len(x) - 1 - n
           d == SubSeq(x, n + 1, Len(x))
           t == AppendByte(s, y)
<1>1. x \in Seq(Byte) /\ Len(x) \in {4, 8}
  BY PruneBufferIsBytes
<1> HIDE DEF x
<1>2. n \in 0..(Len(x) - 1)
  BY <1>1, PrunedStops
<1> HIDE DEF n
<1>3. y \in 0..255
  <2>1. \A l \in {4, 8} : \A m \in 0..(l - 1) : bd + l - 1 - m \in 0..255
    OBVIOUS
  <2>2. bd + Len(x) - 1 - n \in 0..255
    BY <2>1, <1>1, <1>2
  <2> QED
    BY <2>2
<1>4. y \in Byte
  BY <1>3 DEF Byte
<1> HIDE DEF y
<1>5. Grew(s, t, <<y>>)
  BY <1>4, AppendByteGrows
<1>6. t \in Slices /\ Fits(t)
  BY <1>5 DEF Grew
<1> HIDE DEF t
<1>7. d \in Seq(Byte)
  <2>1. \A i \in (n + 1)..Len(x) : x[i] \in Byte
    BY <1>1, <1>2, ElementOfSeq
  <2> QED
    BY <2>1, <1>1, <1>2, SubSeqProperties
<1>8. Grew(t, AppendBytes(t, d), d)
  BY <1>6, <1>7, AppendBytesGrows
<1>9. EncodePruned(s, bd, pos, u) = AppendBytes(t, d) /\ PrunedImage(bd, pos, u) = <<y>> \o d
  BY DEF EncodePruned, PrunedImage, t, y, n, x
<1> HIDE DEF d
<1> QED
  BY <1>5, <1>8, <1>9, GrewTwice

LEMMA FitMore ==
  ASSUME NEW u \in Uints
  PROVE  /\ AllZero(u) => Fit(u, 1)
         /\ Fit(u, 1) => Fit(u, 2)
         /\ Fit(u, 2) => Fit(u, 3)
         /\ Fit(u, 3) => Fit(u, 4)
         /\ Fit(u, 1) /\ u[8] = 0 => AllZero(u)
  BY DEF Fit, AllZero, Uints

LEMMA BincUintGrows ==
  ASSUME NEW s \in Slices, Fits(s), NEW bd \in 0..240, NEW pos \in BOOLEAN, NEW u \in Uints
  PROVE  Grew(s, BincEncodeUint(s, bd, pos, u), BincUint(bd, pos, u))
<1>1. u[8] \in 0..255 /\ u[8] \in Byte
  BY DEF Uints, Byte
<1>2. CASE AllZero(u)
  <2>1. /\ BincEncodeUint(s, bd, pos, u) = AppendByte(s, 7)
        /\ BincUint(bd, pos, u) = <<7>>
    BY <1>2, FitMore DEF BincEncodeUint, BincUint, Special
  <2>2. 7 \in Byte
    BY DEF Byte
  <2> QED
    BY <2>1, <2>2, AppendByteGrows
<1>3. CASE ~AllZero(u) /\ Fit(u, 1) /\ pos /\ u[8] <= 16
  <2>1. /\ BincEncodeUint(s, bd, pos, u) = AppendByte(s, 144 + u[8] - 1)
        /\ BincUint(bd, pos, u) = <<144 + u[8] - 1>>
    BY <1>3, FitMore DEF BincEncodeUint, BincUint, BincDesc
  <2>2. 144 + u[8] - 1 \in Byte
    BY <1>1, <1>3 DEF Byte
  <2> QED
    BY <2>1, <2>2, AppendByteGrows
<1>4. CASE ~AllZero(u) /\ Fit(u, 1) /\ ~(pos /\ u[8] <= 16)
  <2> DEFINE t == AppendByte(s, bd)
  <2>1. /\ BincEncodeUint(s, bd, pos, u) = AppendByte(t, u[8])
        /\ BincUint(bd, pos, u) = <<bd>> \o <<u[8]>>
    BY <1>4, FitMore DEF BincEncodeUint, BincUint
  <2>2. bd \in Byte
    BY DEF Byte
  <2>3. Grew(s, t, <<bd>>)
    BY <2>2, AppendByteGrows
  <2>4. Grew(t, AppendByte(t, u[8]), <<u[8]>>)
    BY <2>3, <1>1, AppendByteGrows DEF Grew
  <2> QED
    BY <2>1, <2>3, <2>4, GrewTwice
<1>5. CASE ~Fit(u, 1) /\ Fit(u, 2)
  <2> DEFINE d == SubSeq(u, 7, 8)
  <2>1. /\ BincEncodeUint(s, bd, pos, u) = WriteInPlace(s, d)
        /\ BincUint(bd, pos, u) = d
    BY <1>5, FitMore DEF BincEncodeUint, BincUint
  <2>2. \A i \in 7..8 : u[i] \in Byte
    BY DEF Uints
  <2>3. d \in Seq(Byte)
    BY <2>2, SubSeqProperties
  <2> QED
    BY <2>1, <2>3, WriteInPlaceGrows
<1>6. CASE ~Fit(u, 2)
  <2>1. /\ BincEncodeUint(s, bd, pos, u) = EncodePruned(s, bd, pos, u)
        /\ BincUint(bd, pos, u) = PrunedImage(bd, pos, u)
    BY <1>6, FitMore DEF BincEncodeUint, BincUint
  <2> QED
    BY <2>1, PrunedGrows
<1> QED
  BY <1>2, <1>3, <1>4, <1>5, <1>6

LEMMA BincLenGrows ==
  ASSUME NEW s \in Slices, Fits(s), NEW bd \in 0..240, NEW n \in Nat
  PROVE  Grew(s, BincEncodeLen(s, bd, n), BincLen(bd, n))
<1>1. CASE ShortLen(n)
  <2>1. bd + n + 4 \in Byte
    BY <1>1 DEF ShortLen, Byte
  <2> QED
    BY <1>1, <2>1, AppendByteGrows DEF BincEncodeLen, BincLen
<1>2. CASE ~ShortLen(n)
  BY <1>2, Uint64IsUint, BincUintGrows DEF BincEncodeLen, BincLen
<1> QED
  BY <1>1, <1>2

LEMMA DoubleIsBytes ==
  ASSUME NEW bytes \in Seq(Byte), Len(bytes) \in {4, 8}
  PROVE  Double(bytes) \in Seq(Byte) /\ Len(Double(bytes)) = 8
<1> DEFINE n == 8 - Len(bytes)
           zeros == [i \in 1..n |-> 0]
<1>1. n \in Nat
  <2>1. \A l \in {4, 8} : 8 - l \in Nat
    OBVIOUS
  <2> QED
    BY <2>1
<1>2. 0 \in Byte
  BY DEF Byte
<1>3. zeros \in Seq(Byte) /\ Len(zeros) = n
  BY <1>1, <1>2
<1> HIDE DEF zeros
<1>4. bytes \o zeros \in Seq(Byte) /\ Len(bytes \o zeros) = Len(bytes) + Len(zeros)
  BY <1>3, ConcatProperties
<1>5. Double(bytes) = bytes \o zeros
  BY DEF Double, zeros
<1> QED
  BY <1>3, <1>4, <1>5

LEMMA FloatGrows ==
  ASSUME NEW s \in Slices, Fits(s), NEW bytes \in Seq(Byte), Len(bytes) \in {4, 8}, NEW k \in 1..8
  PROVE  Grew(s, EncodeFloat(s, bytes, k), FloatImage(bytes, k))
<1>1. Double(bytes) \in Seq(Byte) /\ Len(Double(bytes)) = 8
  BY DoubleIsBytes
<1>2. 6 \in Byte /\ 58 \in Byte /\ 50 \in Byte /\ k \in Byte
  BY DEF Byte
<1>3. CASE IsZero(bytes)
  <2>1. EncodeFloat(s, bytes, k) = AppendByte(s, 6) /\ FloatImage(bytes, k) = <<6>>
    BY <1>3 DEF EncodeFloat, FloatImage, Special
  <2> QED
    BY <2>1, <1>2, AppendByteGrows
<1>4. CASE ~IsZero(bytes) /\ k <= 6
  <2> DEFINE d == SubSeq(Double(bytes), 1, k)
             x == BincDesc["FLOAT"] + 10
             t == AppendByte(s, x)
             u == AppendByte(t, k)
  <2>a. ~(k > 6)
    BY <1>4
  <2>b. EncodeFloat(s, bytes, k) = AppendBytes(u, d)
    BY <1>4, <2>a DEF EncodeFloat
  <2>c. FloatImage(bytes, k) = (<<x>> \o <<k>>) \o d
    BY <1>4, <2>a DEF FloatImage
  <2>1. /\ EncodeFloat(s, bytes, k) = AppendBytes(u, d)
        /\ FloatImage(bytes, k) = (<<x>> \o <<k>>) \o d
    BY <2>b, <2>c
  <2>2. d \in Seq(Byte)
    <3>1. 1..k \subseteq 1..Len(Double(bytes))
      BY <1>1
    <3>2. \A i \in 1..k : Double(bytes)[i] \in Byte
      BY <1>1, <3>1, ElementOfSeq
    <3> QED
      BY <3>2, SubSeqProperties
  <2>0. x \in Byte
    BY DEF BincDesc, Byte
  <2> HIDE DEF d, x
  <2>3. Grew(s, t, <<x>>)
    BY <2>0, AppendByteGrows
  <2>4. t \in Slices /\ Fits(t)
    BY <2>3 DEF Grew
  <2> HIDE DEF t
  <2>5. Grew(t, u, <<k>>)
    BY <1>2, <2>4, AppendByteGrows
  <2>6. u \in Slices /\ Fits(u)
    BY <2>5 DEF Grew
  <2> HIDE DEF u
  <2>7. Grew(u, AppendBytes(u, d), d)
    BY <2>2, <2>6, AppendBytesGrows
  <2>8. Grew(s, u, <<x>> \o <<k>>)
    BY <2>3, <2>5, GrewTwice
  <2> QED
    BY <2>1, <2>7, <2>8, GrewTwice DEF x, t, u
<1>5. CASE ~IsZero(bytes) /\ k > 6
  <2> DEFINE t == AppendByte(s, 50)
  <2>1. /\ EncodeFloat(s, bytes, k) = AppendBytes(t, Double(bytes))
        /\ FloatImage(bytes, k) = <<50>> \o Double(bytes)
    BY <1>5 DEF EncodeFloat, FloatImage, BincDesc
  <2>2. Grew(s, t, <<50>>)
    BY <1>2, AppendByteGrows
  <2>3. t \in Slices /\ Fits(t)
    BY <2>2 DEF Grew
  <2> HIDE DEF t
  <2>4. Grew(t, AppendBytes(t, Double(bytes)), Double(bytes))
    BY <1>1, <2>3, AppendBytesGrows
  <2> QED
    BY <2>1, <2>2, <2>4, GrewTwice
<1> QED
  BY <1>3, <1>4, <1>5

LEMMA AddressIsBytes ==
  ASSUME NEW d \in Seq(Byte)
  PROVE  Address(d) \in Seq(Byte) /\ Len(Address(d)) = Len(d)
<1>1. Len(d) \in Nat /\ DOMAIN d = 1..Len(d)
  BY LenProperties
<1> QED
  BY <1>1, PointerAssumption DEF Address

LEMMA BincEncodeGrows ==
  ASSUME NEW s \in Slices, Fits(s), NEW v, IsValue(v), NEW k \in 1..8
  PROVE  Grew(s, BincEncode(s, v, k), BincImage(v, k))
<1> DEFINE bd == BincDesc[v.type]
           n == Len(v.data)
<1>1. v.type \in Types /\ v.data \in Seq(Byte) /\ n \in Nat /\ v.count \in Nat
  BY PartsOfValue
<1>2. v.type \in Types \ {"NIL", "BOOL", "FLOAT32", "FLOAT64"} => bd \in 0..240
  BY DEF BincDesc, Types
<1>3. CASE v.type = "NIL"
  <2>1. BincEncode(s, v, k) = AppendByte(s, 0) /\ BincImage(v, k) = <<0>>
    BY <1>3 DEF BincEncode, BincImage, Integer, Float, Special
  <2>2. 0 \in Byte
    BY DEF Byte
  <2> QED
    BY <2>1, <2>2, AppendByteGrows
<1>4. CASE v.type = "BOOL"
  <2> DEFINE x == Special[IF v.data = <<1>> THEN "TRUE" ELSE "FALSE"]
  <2>1. BincEncode(s, v, k) = AppendByte(s, x) /\ BincImage(v, k) = <<x>>
    BY <1>4 DEF BincEncode, BincImage, Integer, Float
  <2>2. x \in Byte
    BY DEF Special, Byte
  <2> QED
    BY <2>1, <2>2, AppendByteGrows
<1>5. CASE v.type \in Integer
  <2>1. /\ BincEncode(s, v, k) = BincEncodeUint(s, bd, v.type = "POS_INT", v.data)
        /\ BincImage(v, k) = BincUint(bd, v.type = "POS_INT", v.data)
    BY <1>5 DEF BincEncode, BincImage, Integer, Float
  <2>2. bd \in 0..240 /\ v.data \in Uints /\ (v.type = "POS_INT") \in BOOLEAN
    BY <1>2, <1>5, PartsOfValue DEF Integer, Types
  <2> QED
    BY <2>1, <2>2, BincUintGrows
<1>6. CASE v.type \in Float
  <2>1. /\ BincEncode(s, v, k) = EncodeFloat(s, v.data, k)
        /\ BincImage(v, k) = FloatImage(v.data, k)
    BY <1>6 DEF BincEncode, BincImage, Integer, Float
  <2>2. Len(v.data) \in {4, 8}
    BY <1>6, PartsOfValue DEF Float
  <2> QED
    BY <2>1, <2>2, <1>1, FloatGrows
<1>7. CASE v.type \in {"STRING", "BYTES"}
  <2> DEFINE t == BincEncodeLen(s, bd, n)
  <2>1. /\ BincEncode(s, v, k) = AppendBlob(t, v.data)
        /\ BincImage(v, k) = BincLen(bd, n) \o v.data
    BY <1>7 DEF BincEncode, BincImage, Integer, Float
  <2>2. bd \in 0..240
    BY <1>2, <1>7 DEF Types
  <2>3. Grew(s, t, BincLen(bd, n))
    BY <2>2, <1>1, BincLenGrows
  <2>4. Grew(t, AppendBlob(t, v.data), v.data)
    BY <2>3, <1>1, AppendBlobGrows DEF Grew
  <2> QED
    BY <2>1, <2>3, <2>4, GrewTwice
<1>8. CASE v.type \in {"ARRAY", "MAP"}
  <2>1. /\ BincEncode(s, v, k) = BincEncodeLen(s, bd, v.count)
        /\ BincImage(v, k) = BincLen(bd, v.count)
    BY <1>8 DEF BincEncode, BincImage, Integer, Float
  <2>2. bd \in 0..240
    BY <1>2, <1>8 DEF Types
  <2> QED
    BY <2>1, <2>2, <1>1, BincLenGrows
<1>9. CASE v.type = "EXT"
  <2> DEFINE t == BincEncodeLen(s, bd, n - 1)
             u == AppendByte(t, Head(v.data))
             a == Address(Tail(v.data))
  <2>1. /\ BincEncode(s, v, k) = AppendBlob(u, a)
        /\ BincImage(v, k) = (BincLen(bd, n - 1) \o <<Head(v.data)>>) \o a
    BY <1>9 DEF BincEncode, BincImage, Integer, Float
  <2>2. bd \in 0..240
    BY <1>2, <1>9 DEF Types
  <2>3. n - 1 \in Nat /\ Head(v.data) \in Byte /\ a \in Seq(Byte)
    BY <1>9, PartsOfExt, AddressIsBytes
  <2>4. Grew(s, t, BincLen(bd, n - 1))
    BY <2>2, <2>3, BincLenGrows
  <2>5. t \in Slices /\ Fits(t)
    BY <2>4 DEF Grew
  <2> HIDE DEF t
  <2>6. Grew(t, u, <<Head(v.data)>>)
    BY <2>3, <2>5, AppendByteGrows
  <2>7. u \in Slices /\ Fits(u)
    BY <2>6 DEF Grew
  <2> HIDE DEF u, a
  <2>8. Grew(u, AppendBlob(u, a), a)
    BY <2>3, <2>7, AppendBlobGrows
  <2>9. Grew(s, u, BincLen(bd, n - 1) \o <<Head(v.data)>>)
    BY <2>4, <2>6, GrewTwice
  <2> QED
    BY <2>1, <2>8, <2>9, GrewTwice
<1> QED
  BY <1>1, <1>3, <1>4, <1>5, <1>6, <1>7, <1>8, <1>9 DEF Types, Integer, Float
-----------------------------------------------------------------------------
(* What a decoder returns. *)
AnyPart == [type : Types \union {"none"}, data : Seq(0..256), count : Nat]

(* A decoder that does not fail makes a part, and has a position; over  *)
(* cleared memory, a part with data of its type.                        *)
Sound(d, clean) ==
  /\ d.err \in BOOLEAN
  /\ ~d.err => d.pos \in Nat /\ d.v \in AnyPart /\ (clean => IsDecoded(d.v))

LEMMA GotAndFail ==
  ASSUME NEW v, NEW p
  PROVE  /\ Got(v, p).v = v /\ Got(v, p).pos = p /\ Got(v, p).err = FALSE
         /\ Fail(p).pos = p /\ Fail(p).err = TRUE
  BY DEF Got, Fail

LEMMA SoundFail ==
  ASSUME NEW q, NEW clean
  PROVE  Sound(Fail(q), clean) /\ Sound(Crash(q), clean)
  BY DEF Sound, Fail, Crash

LEMMA BytesAreBytes ==
  ASSUME NEW b \in Seq(Byte), NEW p \in Nat, NEW n \in Nat
  PROVE  /\ ByteAt(b, p) \in Byte
         /\ BytesAt(b, p, n) \in Seq(Byte) /\ Len(BytesAt(b, p, n)) = n
         /\ \A i \in 1..n : BytesAt(b, p, n)[i] = ByteAt(b, p + i - 1)
<1>1. 0 \in Byte
  BY DEF Byte
<1>2. \A q \in Nat : ByteAt(b, q) \in Byte
  <2> TAKE q \in Nat
  <2>1. CASE q < Len(b)
    <3>1. q + 1 \in 1..Len(b)
      BY <2>1, LenProperties
    <3> QED
      BY <2>1, <3>1, ElementOfSeq DEF ByteAt
  <2>2. CASE ~(q < Len(b))
    BY <1>1, <2>2 DEF ByteAt
  <2> QED
    BY <2>1, <2>2
<1>3. \A i \in 1..n : p + i - 1 \in Nat
  OBVIOUS
<1>4. \A i \in 1..n : ByteAt(b, p + i - 1) \in Byte
  BY <1>2, <1>3
<1>5. [i \in 1..n |-> ByteAt(b, p + i - 1)] \in Seq(Byte)
  BY <1>4, IsASeq
<1> QED
  BY <1>2, <1>5 DEF BytesAt

LEMMA UintIsSeq ==
  ASSUME NEW u \in Uints
  PROVE  u \in Seq(Byte) /\ Len(u) = 8
<1>1. u \in [1..8 -> Byte]
  BY DEF Uints
<1>2. u = [i \in 1..8 |-> u[i]]
  BY <1>1
<1>3. \A i \in 1..8 : u[i] \in Byte
  BY <1>1
<1>4. [i \in 1..8 |-> u[i]] \in Seq(Byte)
  BY <1>3
<1>5. Len([i \in 1..8 |-> u[i]]) = 8
  OBVIOUS
<1> QED
  BY <1>2, <1>4, <1>5

LEMMA BytesOrMark ==
  ASSUME NEW d \in Seq(Byte)
  PROVE  d \in Seq(0..256) /\ <<256>> \o d \in Seq(0..256)
<1>1. d \in Seq(0..256)
  <2> DEFINE S == 0..256
  <2>1. Byte \subseteq S
    BY DEF Byte
  <2> HIDE DEF S
  <2>2. d \in Seq(S)
    BY <2>1, SeqMonotonic, Zenon
  <2> QED
    BY <2>2 DEF S
<1>2. <<256>> \in Seq(0..256)
  OBVIOUS
<1> QED
  BY <1>1, <1>2, ConcatProperties

LEMMA WildIsBytes == Wild \in Seq(0..256) /\ Len(Wild) = 1
  BY DEF Wild

LEMMA LengthIsInt ==
  ASSUME NEW u \in Uints
  PROVE  Length(u) \in Int /\ (u[1] = 0 => Length(u) \in Nat)
<1>1. Huge \in Nat
  BY SMT DEF Huge
<1>2. u[1] \in Nat /\ u[5] \in Nat /\ u[6] \in Nat /\ u[7] \in Nat /\ u[8] \in Nat
  BY DEF Uints, Byte
<1>3. ((u[5] * 256 + u[6]) * 256 + u[7]) * 256 + u[8] \in Nat
  BY <1>2
<1> DEFINE n == ((u[5] * 256 + u[6]) * 256 + u[7]) * 256 + u[8]
<1>4. u[8] - 256 \in Int
  BY <1>2
<1>5. Length(u) = CASE u[1] >= 128 -> u[8] - 256
                    [] u[1] < 128 /\ Fit(u, 4) /\ u[5] < 16 -> n
                    [] OTHER -> Huge
  BY DEF Length
<1>6. n \in Nat
  BY <1>3
<1> HIDE DEF n
<1>7. CASE u[1] >= 128
  BY <1>2, <1>4, <1>5, <1>7
<1>8. CASE ~(u[1] >= 128)
  BY <1>1, <1>2, <1>5, <1>6, <1>8
<1> QED
  BY <1>7, <1>8

(* A value of a type with data of that type. *)
LEMMA SoundValue ==
  ASSUME NEW q \in Nat, NEW clean \in BOOLEAN,
         NEW type \in Types \union {"none"}, NEW data,
         data \in Seq(Byte) \/ data = Wild \/ (type \in Float /\ data \in Seq(0..256)),
         clean => (type \in Integer => Len(data) = 8) /\ (type = "EXT" => Len(data) >= 1)
  PROVE  Sound(Got(Value(type, data), q), clean)
<1>1. data \in Seq(0..256)
  BY BytesOrMark, WildIsBytes
<1> DEFINE v == Value(type, data)
<1>2. v \in AnyPart /\ v.type = type /\ v.data = data /\ v.count = 0
  BY <1>1 DEF Value, AnyPart
<1>3. clean => IsDecoded(v)
  BY <1>2 DEF IsDecoded
<1> HIDE DEF v
<1>4. Sound(Got(v, q), clean)
  BY <1>2, <1>3 DEF Sound, Got
<1> QED
  BY <1>4 DEF v

LEMMA SoundContainer ==
  ASSUME NEW q \in Nat, NEW clean \in BOOLEAN, NEW type \in {"ARRAY", "MAP"}, NEW n \in Nat
  PROVE  Sound(Got(Container(type, n), q), clean)
<1> DEFINE v == Container(type, n)
<1>2. v \in AnyPart /\ v.type = type /\ v.data = <<>> /\ v.count = n
  BY DEF Container, AnyPart, Types
<1>3. IsDecoded(v)
  BY <1>2 DEF IsDecoded, Integer, Float
<1> HIDE DEF v
<1>4. Sound(Got(v, q), clean)
  BY <1>2, <1>3 DEF Sound, Got
<1> QED
  BY <1>4 DEF v

LEMMA ReadnIsUint ==
  ASSUME NEW b \in Seq(Byte), NEW p \in Nat, NEW n \in {1, 2, 4, 8}
  PROVE  /\ p + n > Len(b) => Readn(b, p, n) = Fail(p)
         /\ ~(p + n > Len(b)) => Readn(b, p, n) = Got(Widened(ByteAt(b, p), n), p + n)
         /\ Widened(ByteAt(b, p), n) \in Uints
         /\ p + n \in Nat
<1>1. ByteAt(b, p) \in Byte
  BY BytesAreBytes
<1>2. Widened(ByteAt(b, p), n) \in Uints
  <2>1. 0 \in Byte /\ 255 \in Byte
    BY DEF Byte
  <2> QED
    BY <1>1, <2>1 DEF Widened, Uints
<1>3. p + n \in Nat
  <2>1. \A m \in {1, 2, 4, 8} : p + m \in Nat
    OBVIOUS
  <2> QED
    BY <2>1
<1> QED
  BY <1>2, <1>3 DEF Readn, Past

LEMMA SimpleDecodeLenSound ==
  ASSUME NEW b \in Seq(Byte), NEW p \in Nat, NEW bd \in Nat, bd % 8 \in 0..4
  PROVE  LET l == SimpleDecodeLen(b, p, bd)
         IN  /\ l.err \in BOOLEAN
             /\ ~l.err => l.v \in Int /\ l.pos \in Nat
<1>1. CASE bd % 8 = 0
  BY <1>1 DEF SimpleDecodeLen, Got
<1>2. CASE bd % 8 # 0
  <2> DEFINE n == Widths[bd % 8]
             r == Readn(b, p, n)
  <2>1. n \in {1, 2, 4, 8}
    BY <1>2 DEF Widths
  <2> HIDE DEF n
  <2>2. r = Fail(p) \/ r = Got(Widened(ByteAt(b, p), n), p + n)
    BY <2>1, ReadnIsUint
  <2>3. Widened(ByteAt(b, p), n) \in Uints /\ p + n \in Nat
    BY <2>1, ReadnIsUint
  <2>4. Length(Widened(ByteAt(b, p), n)) \in Int
    BY <2>3, LengthIsInt
  <2>5. SimpleDecodeLen(b, p, bd) = [r EXCEPT !.v = IF r.err THEN -1 ELSE Length(r.v)]
    BY <1>2 DEF SimpleDecodeLen, n
  <2> HIDE DEF r
  <2>6. CASE r = Fail(p)
    BY <2>5, <2>6 DEF Fail
  <2>7. CASE r = Got(Widened(ByteAt(b, p), n), p + n)
    BY <2>3, <2>4, <2>5, <2>7 DEF Got
  <2> QED
    BY <2>2, <2>6, <2>7
<1> QED
  BY <1>1, <1>2

LEMMA SimpleDecodeIntSound ==
  ASSUME NEW b \in Seq(Byte), NEW p \in Nat, NEW bd \in Nat, NEW type \in Integer
  PROVE  Sound(SimpleDecodeInt(b, p + 1, bd, type), TRUE)
<1> DEFINE n == Widths[(bd % 4) + 1]
           u == Widened(ByteAt(b, p + 1), n)
<1>1. n \in {1, 2, 4, 8}
  BY DEF Widths
<1> HIDE DEF n
<1>2. p + 1 \in Nat
  OBVIOUS
<1>3. /\ p + 1 + n > Len(b) => Readn(b, p + 1, n) = Fail(p + 1)
      /\ ~(p + 1 + n > Len(b)) => Readn(b, p + 1, n) = Got(u, p + 1 + n)
      /\ u \in Uints
      /\ p + 1 + n \in Nat
  BY <1>1, <1>2, ReadnIsUint
<1> HIDE DEF u
<1>4. SimpleDecodeInt(b, p + 1, bd, type)
        = IF Readn(b, p + 1, n).err THEN Readn(b, p + 1, n)
          ELSE Got(Value(type, Readn(b, p + 1, n).v), Readn(b, p + 1, n).pos)
  BY DEF SimpleDecodeInt, n
<1>5. CASE p + 1 + n > Len(b)
  <2>1. SimpleDecodeInt(b, p + 1, bd, type) = Fail(p + 1)
    BY <1>3, <1>4, <1>5, GotAndFail
  <2> QED
    BY <2>1, SoundFail
<1>6. CASE ~(p + 1 + n > Len(b))
  <2>1. SimpleDecodeInt(b, p + 1, bd, type) = Got(Value(type, u), p + 1 + n)
    <3> DEFINE r == Readn(b, p + 1, n)
               past == p + 1 + n > Len(b)
    <3>1. r = Got(u, p + 1 + n)
      <4>1. ~past /\ (~past => r = Got(u, p + 1 + n))
        BY <1>3, <1>6
      <4> HIDE DEF past, r
      <4> QED
        BY <4>1
    <3>2. SimpleDecodeInt(b, p + 1, bd, type) = IF r.err THEN r ELSE Got(Value(type, r.v), r.pos)
      BY <1>4
    <3> HIDE DEF r
    <3>3. r.err = FALSE /\ r.v = u /\ r.pos = p + 1 + n
      <4> SUFFICES ASSUME NEW q, q = p + 1 + n, r = Got(u, q) PROVE r.err = FALSE /\ r.v = u /\ r.pos = q
        BY <3>1
      <4> QED
        BY GotAndFail
    <3> QED
      BY <3>2, <3>3
  <2>2. u \in Seq(Byte) /\ Len(u) = 8 /\ type \in Types \union {"none"} /\ type # "EXT"
    BY <1>3, UintIsSeq DEF Integer, Types
  <2> QED
    BY <1>3, <2>1, <2>2, SoundValue
<1> QED
  BY <1>5, <1>6

LEMMA SimpleDecodeFloatSound ==
  ASSUME NEW b \in Seq(Byte), NEW p \in Nat, NEW n \in {4, 8}, NEW type \in Float
  PROVE  Sound(SimpleDecodeFloat(b, p + 1, n, type), TRUE)
<1>1. p + 1 \in Nat /\ n \in Nat /\ p + 1 + n \in Nat
  <2>1. \A m \in {4, 8} : m \in Nat /\ p + 1 + m \in Nat
    OBVIOUS
  <2> QED
    BY <2>1
<1> DEFINE d == BytesAt(b, p + 1, n)
<1>2. d \in Seq(Byte)
  BY <1>1, BytesAreBytes
<1> HIDE DEF d
<1>3. NumberOf(d) \in Seq(0..256)
  BY <1>2, BytesOrMark DEF NumberOf
<1>4. type \in Types \union {"none"} /\ type \notin Integer /\ type # "EXT"
  BY DEF Float, Integer, Types
<1>5. Sound(Got(Value(type, NumberOf(d)), p + 1 + n), TRUE)
  BY <1>1, <1>3, <1>4, SoundValue
<1>6. SimpleDecodeFloat(b, p + 1, n, type) = Fail(p + 1)
      \/ SimpleDecodeFloat(b, p + 1, n, type) = Got(Value(type, NumberOf(d)), p + 1 + n)
  BY DEF SimpleDecodeFloat, d
<1> QED
  BY <1>5, <1>6, SoundFail

LEMMA SimpleDecodeBlobSound ==
  ASSUME NEW b \in Seq(Byte), NEW p \in Nat, NEW bd \in Nat, bd % 8 \in 0..4,
         NEW clean \in BOOLEAN, NEW type \in Types \union {"none"},
         clean => type \notin Integer /\ type # "EXT"
  PROVE  Sound(SimpleDecodeBlob(b, p + 1, bd, type), clean)
<1> DEFINE l == SimpleDecodeLen(b, p + 1, bd)
<1>1. p + 1 \in Nat
  OBVIOUS
<1>2. /\ l.err \in BOOLEAN
      /\ ~l.err => l.v \in Int /\ l.pos \in Nat
  BY <1>1, SimpleDecodeLenSound
<1>3. SimpleDecodeBlob(b, p + 1, bd, type) =
        IF l.err \/ Past(b, l.pos, l.v) THEN Fail(l.pos)
        ELSE Got(Value(type, Span(b, l.pos, l.v)), l.pos + l.v)
  BY DEF SimpleDecodeBlob
<1> HIDE DEF l
<1>4. CASE l.err \/ Past(b, l.pos, l.v)
  BY <1>3, <1>4, SoundFail
<1>5. CASE ~(l.err \/ Past(b, l.pos, l.v))
  <2>1. l.v \in Int /\ l.pos \in Nat /\ l.pos + l.v \in Nat
    BY <1>2, <1>5 DEF Past
  <2> DEFINE d == Span(b, l.pos, l.v)
  <2>0. d \in Seq(Byte) \/ d = Wild
    <3>1. CASE l.v < 0
      BY <3>1 DEF Span
    <3>2. CASE ~(l.v < 0)
      <4>1. l.v \in Nat
        BY <2>1, <3>2
      <4>2. BytesAt(b, l.pos, l.v) \in Seq(Byte)
        BY <2>1, <4>1, BytesAreBytes
      <4> QED
        BY <3>2, <4>2 DEF Span
    <3> QED
      BY <3>1, <3>2
  <2> HIDE DEF d
  <2>2. Sound(Got(Value(type, d), l.pos + l.v), clean)
    BY <2>0, <2>1, WildIsBytes, SoundValue
  <2> QED
    BY <1>3, <1>5, <2>2 DEF d
<1> QED
  BY <1>4, <1>5

LEMMA SimpleDecodeContainerSound ==
  ASSUME NEW b \in Seq(Byte), NEW p \in Nat, NEW bd \in Nat, bd % 8 \in 0..4, NEW type \in {"ARRAY", "MAP"}
  PROVE  Sound(SimpleDecodeContainer(b, p + 1, bd, type), TRUE)
<1> DEFINE l == SimpleDecodeLen(b, p + 1, bd)
<1>1. p + 1 \in Nat
  OBVIOUS
<1>2. /\ l.err \in BOOLEAN
      /\ ~l.err => l.v \in Int /\ l.pos \in Nat
  BY <1>1, SimpleDecodeLenSound
<1>3. SimpleDecodeContainer(b, p + 1, bd, type) =
        IF ~l.err /\ l.v >= 0
        THEN Got(Container(type, l.v), l.pos)
        ELSE IF (l.err /\ type = "ARRAY") \/ ~SimpleStores(b, l.pos)
             THEN Fail(l.pos)
             ELSE Crash(l.pos)
  BY DEF SimpleDecodeContainer
<1> HIDE DEF l
<1>4. CASE ~(~l.err /\ l.v >= 0)
  <2> DEFINE d == SimpleDecodeContainer(b, p + 1, bd, type)
  <2>1. d = Fail(l.pos) \/ d = Crash(l.pos)
    BY <1>3, <1>4
  <2> HIDE DEF d
  <2>2. Sound(d, TRUE)
    BY <2>1, SoundFail
  <2> QED
    BY <2>2 DEF d
<1>5. CASE ~l.err /\ l.v >= 0
  <2>1. l.v \in Nat /\ l.pos \in Nat
    BY <1>2, <1>5
  <2>2. SimpleDecodeContainer(b, p + 1, bd, type) = Got(Container(type, l.v), l.pos)
    BY <1>3, <1>5
  <2> QED
    BY <2>1, <2>2, SoundContainer
<1> QED
  BY <1>2, <1>4, <1>5

LEMMA SimpleDecodeExtSound ==
  ASSUME NEW b \in Seq(Byte), NEW p \in Nat, NEW bd \in Nat, bd % 8 \in 0..4
  PROVE  Sound(SimpleDecodeExt(b, p + 1, bd), TRUE)
<1> DEFINE l == SimpleDecodeLen(b, p + 1, bd)
<1>1. p + 1 \in Nat
  OBVIOUS
<1>2. /\ l.err \in BOOLEAN
      /\ ~l.err => l.v \in Int /\ l.pos \in Nat
  BY <1>1, SimpleDecodeLenSound
<1>3. SimpleDecodeExt(b, p + 1, bd) =
        IF l.err \/ Past(b, l.pos, 1 + l.v) THEN Fail(l.pos)
        ELSE Got(Value("EXT", IF l.v < 0 THEN Wild ELSE BytesAt(b, l.pos, 1 + l.v)), l.pos + 1 + l.v)
  BY DEF SimpleDecodeExt
<1> HIDE DEF l
<1>4. CASE l.err \/ Past(b, l.pos, 1 + l.v)
  BY <1>3, <1>4, SoundFail
<1>5. CASE ~(l.err \/ Past(b, l.pos, 1 + l.v))
  <2>1. l.v \in Int /\ l.pos \in Nat /\ l.pos + 1 + l.v \in Nat
    BY <1>2, <1>5 DEF Past
  <2> DEFINE d == IF l.v < 0 THEN Wild ELSE BytesAt(b, l.pos, 1 + l.v)
  <2>2. (d \in Seq(Byte) \/ d = Wild) /\ Len(d) >= 1
    <3>1. CASE l.v < 0
      <4>1. d = Wild
        BY <3>1
      <4> HIDE DEF d
      <4>2. Len(d) = 1
        BY <4>1, WildIsBytes, Zenon
      <4> QED
        BY <4>1, <4>2
    <3>2. CASE ~(l.v < 0)
      <4>1. 1 + l.v \in Nat /\ 1 + l.v >= 1
        BY <2>1, <3>2
      <4>2. BytesAt(b, l.pos, 1 + l.v) \in Seq(Byte) /\ Len(BytesAt(b, l.pos, 1 + l.v)) = 1 + l.v
        BY <1>2, <1>5, <4>1, BytesAreBytes
      <4>3. d = BytesAt(b, l.pos, 1 + l.v)
        BY <3>2
      <4> HIDE DEF d
      <4>4. d \in Seq(Byte) /\ Len(d) = 1 + l.v
        BY <4>2, <4>3, Zenon
      <4> QED
        BY <4>1, <4>4
    <3> QED
      BY <3>1, <3>2
  <2> HIDE DEF d
  <2>3. "EXT" \in Types \union {"none"} /\ "EXT" \notin Integer
    BY DEF Types, Integer
  <2>4. Len(d) >= 1
    BY <2>1, <2>2
  <2>5. Sound(Got(Value("EXT", d), l.pos + 1 + l.v), TRUE)
    BY <2>1, <2>2, <2>3, <2>4, SoundValue
  <2> QED
    BY <1>3, <1>5, <2>5 DEF d
<1> QED
  BY <1>4, <1>5

LEMMA SimpleDecodeSound ==
  ASSUME NEW b \in Seq(Byte), NEW p \in Nat, NEW before \in Types \union {"none"},
         NEW clean \in BOOLEAN, clean => before = "none"
  PROVE  Sound(SimpleDecode(b, p, before), clean)
<1> DEFINE bd == ByteAt(b, p)
           q == p + 1
<1>0. bd \in Byte /\ 0 \in Nat
  BY BytesAreBytes
<1> HIDE DEF bd
<1>1. bd \in 0..255 /\ bd \in Nat /\ q \in Nat
  <2>1. bd \in 0..255
    BY <1>0 DEF Byte
  <2> QED
    BY <2>1
<1>2. \A d : Sound(d, TRUE) => Sound(d, clean)
  BY DEF Sound
<1>3. /\ Sound(Got(Value("NIL", <<>>), q), clean)
      /\ Sound(Got(Value("BOOL", <<0>>), q), clean)
      /\ Sound(Got(Value("BOOL", <<1>>), q), clean)
  <2>1. <<>> \in Seq(Byte) /\ <<0>> \in Seq(Byte) /\ <<1>> \in Seq(Byte)
    <3>1. 0 \in Byte /\ 1 \in Byte
      BY DEF Byte
    <3> QED
      BY <3>1
  <2>2. \A type \in {"NIL", "BOOL"} : type \in Types \union {"none"} /\ type \notin Integer /\ type # "EXT"
    BY DEF Types, Integer
  <2> QED
    BY <1>1, <2>1, <2>2, SoundValue
<1>4. \A type \in Integer : Sound(SimpleDecodeInt(b, q, bd, type), clean)
  BY <1>1, <1>2, SimpleDecodeIntSound
<1>5. \A n \in {4, 8}, type \in Float : Sound(SimpleDecodeFloat(b, q, n, type), clean)
  BY <1>2, SimpleDecodeFloatSound
<1>6. \A type \in {"STRING", "BYTES", "ARRAY", "MAP", "EXT"} : Is(bd, type, 4) => bd % 8 \in 0..4
  <2>1. \A n \in {216, 224, 232, 240, 248} : bd \in n..(n + 4) => bd % 8 \in 0..4
    BY <1>1
  <2>2. \A type \in {"STRING", "BYTES", "ARRAY", "MAP", "EXT"} : SimpleDesc[type] \in {216, 224, 232, 240, 248}
    BY DEF SimpleDesc
  <2> QED
    BY <2>1, <2>2 DEF Is
<1>7. ASSUME bd % 8 \in 0..4
      PROVE  /\ Sound(SimpleDecodeBlob(b, q, bd, "STRING"), clean)
             /\ Sound(SimpleDecodeBlob(b, q, bd, BytesType(before)), clean)
  <2>1. BytesType(before) \in Types \union {"none"} /\ (clean => BytesType(before) = "BYTES")
    BY DEF BytesType, Types
  <2>2. \A type \in {"STRING", "BYTES"} : type \in Types \union {"none"} /\ type \notin Integer /\ type # "EXT"
    BY DEF Types, Integer
  <2>3. \A type \in Types \union {"none"} :
          (clean => type \notin Integer /\ type # "EXT") =>
             Sound(SimpleDecodeBlob(b, q, bd, type), clean)
    BY <1>1, <1>7, SimpleDecodeBlobSound
  <2> QED
    BY <2>1, <2>2, <2>3
<1>8. ASSUME bd % 8 \in 0..4
      PROVE  /\ \A type \in {"ARRAY", "MAP"} : Sound(SimpleDecodeContainer(b, q, bd, type), clean)
             /\ Sound(SimpleDecodeExt(b, q, bd), clean)
  <2>1. \A type \in {"ARRAY", "MAP"} : Sound(SimpleDecodeContainer(b, q, bd, type), TRUE)
    BY <1>1, <1>8, SimpleDecodeContainerSound
  <2>2. Sound(SimpleDecodeExt(b, q, bd), TRUE)
    BY <1>1, <1>8, SimpleDecodeExtSound
  <2> QED
    BY <1>2, <2>1, <2>2
<1>9. Sound(Fail(p), clean) /\ Sound(Fail(q), clean)
  BY SoundFail
<1>10. Integer = {"POS_INT", "NEG_INT"} /\ Float = {"FLOAT32", "FLOAT64"}
  BY DEF Integer, Float
<1>11. \/ SimpleDecode(b, p, before) \in
              {Fail(p), Fail(q), Got(Value("NIL", <<>>), q), Got(Value("BOOL", <<0>>), q), Got(Value("BOOL", <<1>>), q)}
       \/ \E type \in Integer : SimpleDecode(b, p, before) = SimpleDecodeInt(b, q, bd, type)
       \/ \E n \in {4, 8}, type \in Float :
            SimpleDecode(b, p, before) = SimpleDecodeFloat(b, q, n, type)
       \/ /\ \E type \in {"STRING", "BYTES", "ARRAY", "MAP", "EXT"} : Is(bd, type, 4)
          /\ \/ SimpleDecode(b, p, before) = SimpleDecodeBlob(b, q, bd, "STRING")
             \/ SimpleDecode(b, p, before) = SimpleDecodeBlob(b, q, bd, BytesType(before))
             \/ \E type \in {"ARRAY", "MAP"} : SimpleDecode(b, p, before) = SimpleDecodeContainer(b, q, bd, type)
             \/ SimpleDecode(b, p, before) = SimpleDecodeExt(b, q, bd)
  BY <1>10, SMTT(60) DEF SimpleDecode, bd
<1> QED
  BY <1>3, <1>4, <1>5, <1>6, <1>7, <1>8, <1>9, <1>11
-----------------------------------------------------------------------------
LEMMA DecodeUintSound ==
  ASSUME NEW b \in Seq(Byte), NEW p \in Nat, NEW vs \in 0..7
  PROVE  \E u \in Uints : DecodeUint(b, p, vs) = Got(u, p + vs + 1) /\ (vs < 7 => u[1] = 0)
<1> DEFINE u == [i \in 1..8 |-> IF i <= 7 - vs THEN 0 ELSE ByteAt(b, p + i - (8 - vs))]
<1>1. \A i \in 1..8 : ~(i <= 7 - vs) => p + i - (8 - vs) \in Nat
  OBVIOUS
<1>2. \A i \in 1..8 : ~(i <= 7 - vs) => ByteAt(b, p + i - (8 - vs)) \in Byte
  BY <1>1, BytesAreBytes, 0 \in Nat
<1>3. 0 \in Byte
  BY DEF Byte
<1>4. u \in Uints
  BY <1>2, <1>3 DEF Uints
<1>5. DecodeUint(b, p, vs) = Got(u, p + vs + 1)
  BY DEF DecodeUint
<1>6. vs < 7 => u[1] = 0
  OBVIOUS
<1> QED
  BY <1>4, <1>5, <1>6

LEMMA BincDecodeLenSound ==
  ASSUME NEW b \in Seq(Byte), NEW p \in Nat, NEW vs \in 0..15
  PROVE  LET l == BincDecodeLen(b, p, vs) IN l.v \in Nat /\ l.pos \in Nat /\ l.pos >= p
<1>1. CASE vs > 3
  <2>1. vs - 4 \in Nat /\ BincDecodeLen(b, p, vs) = Got(vs - 4, p)
    BY <1>1 DEF BincDecodeLen
  <2> QED
    BY <2>1 DEF Got
<1>2. CASE ~(vs > 3)
  <2>1. vs \in 0..7 /\ p + vs + 1 \in Nat /\ p + vs + 1 >= p
    BY <1>2
  <2>2. PICK u \in Uints : DecodeUint(b, p, vs) = Got(u, p + vs + 1) /\ (vs < 7 => u[1] = 0)
    BY <2>1, DecodeUintSound
  <2>3. BincDecodeLen(b, p, vs) = Got(Length(u), p + vs + 1)
    BY <1>2, <2>2 DEF BincDecodeLen, Got
  <2>4. Length(u) \in Nat
    BY <1>2, <2>2, LengthIsInt
  <2> QED
    BY <2>1, <2>3, <2>4 DEF Got
<1> QED
  BY <1>1, <1>2

LEMMA BincDecodeIntSound ==
  ASSUME NEW b \in Seq(Byte), NEW p \in Nat, NEW vs \in 0..15, NEW type \in Integer
  PROVE  Sound(BincDecodeInt(b, p + 1, vs, type), TRUE)
<1>1. CASE vs > 7
  <2>1. BincDecodeInt(b, p + 1, vs, type) = Fail(p + 1)
    BY <1>1, GotAndFail DEF BincDecodeInt, DecodeUint
  <2> QED
    BY <2>1, SoundFail
<1>2. CASE ~(vs > 7)
  <2>1. vs \in 0..7 /\ p + 1 \in Nat /\ p + 1 + vs + 1 \in Nat
    BY <1>2
  <2>2. PICK u \in Uints : DecodeUint(b, p + 1, vs) = Got(u, p + 1 + vs + 1)
    BY <2>1, DecodeUintSound
  <2>3. BincDecodeInt(b, p + 1, vs, type) = Got(Value(type, u), p + 1 + vs + 1)
    <3> DEFINE r == DecodeUint(b, p + 1, vs)
    <3>1. r.err = FALSE /\ r.v = u /\ r.pos = p + 1 + vs + 1
      BY <2>2 DEF Got
    <3>2. BincDecodeInt(b, p + 1, vs, type) = IF r.err THEN r ELSE Got(Value(type, r.v), r.pos)
      BY DEF BincDecodeInt
    <3> QED
      BY <3>1, <3>2
  <2>4. u \in Seq(Byte) /\ Len(u) = 8 /\ type \in Types \union {"none"} /\ type # "EXT"
    BY UintIsSeq DEF Integer, Types
  <2> QED
    BY <2>1, <2>3, <2>4, SoundValue
<1> QED
  BY <1>1, <1>2

LEMMA BincDecodeFloatSound ==
  ASSUME NEW b \in Seq(Byte), NEW p \in Nat, NEW vs \in 0..15
  PROVE  Sound(BincDecodeFloat(b, p + 1, vs), TRUE)
<1> DEFINE n == IF vs >= 8 THEN ByteAt(b, p + 1) ELSE IF vs = 1 THEN 4 ELSE 8
           q == IF vs >= 8 THEN p + 1 + 1 ELSE p + 1
           d == DoubleAt(b, q, n)
<1>1. p + 1 \in Nat /\ p + 1 + 1 \in Nat
  OBVIOUS
<1>2. n \in Nat
  <2>1. ByteAt(b, p + 1) \in Byte
    BY <1>1, BytesAreBytes, 0 \in Nat
  <2>2. \A x \in Byte : x \in Nat
    BY DEF Byte
  <2> QED
    BY <2>1, <2>2, 4 \in Nat, 8 \in Nat
<1>3. q \in Nat
  OBVIOUS
<1> HIDE DEF n, q
<1>4. d \in Seq(Byte)
  <2>1. \A i \in 1..8 : q + i - 1 \in Nat
    BY <1>3
  <2>2. \A i \in 1..8 : ByteAt(b, q + i - 1) \in Byte
    BY <2>1, BytesAreBytes, 0 \in Nat
  <2>3. 0 \in Byte
    BY DEF Byte
  <2>4. \A i \in 1..8 : (IF i <= n THEN ByteAt(b, q + i - 1) ELSE 0) \in Byte
    BY <2>2, <2>3
  <2>5. 8 \in Nat
    OBVIOUS
  <2> QED
    BY <2>4, <2>5, IsASeq DEF DoubleAt
<1>5. d \in Seq(0..256) /\ AsDouble(d) \in Seq(0..256)
  BY <1>4, BytesOrMark DEF AsDouble
<1>6. "FLOAT64" \in Types \union {"none"} /\ "FLOAT64" \in Float /\ "FLOAT64" \notin Integer
  BY DEF Types, Float, Integer
<1>7. q + n \in Nat
  BY <1>2, <1>3
<1>8. Sound(Got(Value("FLOAT64", d), q + n), TRUE) /\ Sound(Got(Value("FLOAT64", AsDouble(d)), q + n), TRUE)
  BY <1>5, <1>6, <1>7, SoundValue
<1>9. BincDecodeFloat(b, p + 1, vs)
        \in {Fail(q), Got(Value("FLOAT64", d), q + n), Got(Value("FLOAT64", AsDouble(d)), q + n)}
  BY DEF BincDecodeFloat, n, q
<1> QED
  BY <1>8, <1>9, SoundFail

LEMMA BincDecodeBlobSound ==
  ASSUME NEW b \in Seq(Byte), NEW p \in Nat, NEW vs \in 0..15, NEW type \in {"STRING", "BYTES"}
  PROVE  Sound(BincDecodeBlob(b, p + 1, vs, type), TRUE)
<1>1. p + 1 \in Nat
  OBVIOUS
<1> DEFINE l == BincDecodeLen(b, p + 1, vs)
           n == l.v
           q == l.pos
<1>2. n \in Nat /\ q \in Nat /\ q >= p + 1
  BY <1>1, BincDecodeLenSound
<1> HIDE DEF l, n, q
<1> DEFINE d == IF Past(b, q, n) THEN <<>> ELSE BytesAt(b, q, n)
<1>3. d \in Seq(Byte)
  BY <1>2, BytesAreBytes
<1>4. BincDecodeBlob(b, p + 1, vs, type) = Got(Value(type, d), q + n)
  BY DEF BincDecodeBlob, l, n, q
<1> HIDE DEF d
<1>5. type \in Types \union {"none"} /\ type \notin Integer /\ type # "EXT"
  BY DEF Types, Integer
<1>6. q + n \in Nat
  BY <1>2
<1> QED
  BY <1>3, <1>4, <1>5, <1>6, SoundValue

LEMMA BincDecodeExtSound ==
  ASSUME NEW b \in Seq(Byte), NEW p \in Nat, NEW vs \in 0..15
  PROVE  Sound(BincDecodeExt(b, p + 1, vs), TRUE)
<1>1. p + 1 \in Nat
  OBVIOUS
<1> DEFINE l == BincDecodeLen(b, p + 1, vs)
           n == l.v
           q == l.pos
<1>2. n \in Nat /\ q \in Nat /\ q >= p + 1
  BY <1>1, BincDecodeLenSound
<1> HIDE DEF l, n, q
<1> DEFINE d == IF Past(b, q, 1 + n) THEN <<0>> ELSE BytesAt(b, q, 1 + n)
<1>3. 1 + n \in Nat /\ 1 + n >= 1 /\ q + 1 + n \in Nat
  BY <1>2
<1>4. d \in Seq(Byte) /\ Len(d) >= 1
  <2>1. <<0>> \in Seq(Byte) /\ Len(<<0>>) = 1
    BY 0 \in Byte DEF Byte
  <2>2. BytesAt(b, q, 1 + n) \in Seq(Byte) /\ Len(BytesAt(b, q, 1 + n)) = 1 + n
    BY <1>2, <1>3, BytesAreBytes
  <2> QED
    BY <1>3, <2>1, <2>2
<1>5. BincDecodeExt(b, p + 1, vs) = Got(Value("EXT", d), q + 1 + n)
  BY DEF BincDecodeExt, l, n, q
<1> HIDE DEF d
<1>6. "EXT" \in Types \union {"none"} /\ "EXT" \notin Integer
  BY DEF Types, Integer
<1> QED
  BY <1>3, <1>4, <1>5, <1>6, SoundValue

LEMMA BincDecodeContainerSound ==
  ASSUME NEW b \in Seq(Byte), NEW p \in Nat, NEW vs \in 0..15, NEW type \in {"ARRAY", "MAP"}
  PROVE  Sound(BincDecodeContainer(b, p + 1, vs, type), TRUE)
<1>1. p + 1 \in Nat
  OBVIOUS
<1> DEFINE l == BincDecodeLen(b, p + 1, vs)
           n == l.v
           q == l.pos
<1>2. n \in Nat /\ q \in Nat /\ q >= p + 1
  BY <1>1, BincDecodeLenSound
<1> HIDE DEF l, n, q
<1>3. BincDecodeContainer(b, p + 1, vs, type) = Got(Container(type, n), q)
  BY DEF BincDecodeContainer, l, n, q
<1> QED
  BY <1>2, <1>3, SoundContainer

(* A special value is of its type, or it is the value before. *)
LEMMA SpecialValueSound ==
  ASSUME NEW vs \in 0..15, NEW before \in AnyPart, NEW clean \in BOOLEAN, clean => IsDecoded(before),
         NEW p \in Nat
  PROVE  /\ Sound(Got(SpecialValue(vs, before), p + 1), clean)
         /\ Sound(Got(Kept(before), p + 1), clean)
<1>1. p + 1 \in Nat
  OBVIOUS
<1>2. Sound(Got(Kept(before), p + 1), clean)
  <2> DEFINE v == Kept(before)
  <2>1. v \in AnyPart /\ v.type = before.type /\ v.data = before.data /\ v.count = 0
    BY DEF AnyPart, Kept
  <2>2. clean => IsDecoded(v)
    BY <2>1 DEF IsDecoded
  <2> HIDE DEF v
  <2>3. Sound(Got(v, p + 1), clean)
    BY <1>1, <2>1, <2>2 DEF Sound, Got
  <2> QED
    BY <2>3 DEF v
<1>3. \A data \in Seq(Byte) : Sound(Got(Value("FLOAT64", data), p + 1), clean)
  <2>1. "FLOAT64" \in Types \union {"none"} /\ "FLOAT64" \notin Integer
    BY DEF Types, Integer
  <2> QED
    BY <1>1, <2>1, SoundValue
<1>4. \A data \in Seq(Byte) : Sound(Got(Value("NIL", data), p + 1), clean) /\ Sound(Got(Value("BOOL", data), p + 1), clean)
  <2>1. \A type \in {"NIL", "BOOL"} : type \in Types \union {"none"} /\ type \notin Integer /\ type # "EXT"
    BY DEF Types, Integer
  <2> QED
    BY <1>1, <2>1, SoundValue
<1>5. \A u \in Uints, type \in Integer : Sound(Got(Value(type, u), p + 1), clean)
  <2>1. \A type \in Integer : type \in Types \union {"none"} /\ type # "EXT"
    BY DEF Types, Integer
  <2> QED
    BY <1>1, <2>1, UintIsSeq, SoundValue
<1> DEFINE S(v) == Sound(Got(v, p + 1), clean)
<1>6. /\ S(Value("NIL", <<>>)) /\ S(Value("BOOL", <<0>>)) /\ S(Value("BOOL", <<1>>))
      /\ S(Value("FLOAT64", <<1, 0, 0, 0, 0, 0, 248, 127>>))
      /\ S(Value("FLOAT64", <<0, 0, 0, 0, 0, 0, 240, 127>>))
      /\ S(Value("FLOAT64", <<0, 0, 0, 0, 0, 0, 240, 255>>))
      /\ S(Value("FLOAT64", <<0, 0, 0, 0, 0, 0, 0, 0>>))
  <2>1. 0 \in Byte /\ 1 \in Byte /\ 248 \in Byte /\ 127 \in Byte /\ 240 \in Byte /\ 255 \in Byte
    BY DEF Byte
  <2>2. <<>> \in Seq(Byte) /\ <<0>> \in Seq(Byte) /\ <<1>> \in Seq(Byte)
    BY <2>1
  <2>3. /\ <<1, 0, 0, 0, 0, 0, 248, 127>> \in Seq(Byte) /\ <<0, 0, 0, 0, 0, 0, 240, 127>> \in Seq(Byte)
        /\ <<0, 0, 0, 0, 0, 0, 240, 255>> \in Seq(Byte) /\ <<0, 0, 0, 0, 0, 0, 0, 0>> \in Seq(Byte)
    BY <2>1
  <2>4. S(Value("NIL", <<>>)) /\ S(Value("BOOL", <<0>>)) /\ S(Value("BOOL", <<1>>))
    BY <1>4, <2>2
  <2>5. ASSUME NEW data \in Seq(Byte) PROVE S(Value("FLOAT64", data))
    BY <1>3
  <2> HIDE DEF S
  <2> QED
    BY <2>3, <2>4, <2>5
<1>7. S(Value("POS_INT", Uint64(0))) /\ S(Value("NEG_INT", Uint64(1)))
  <2>1. Uint64(0) \in Uints /\ Uint64(1) \in Uints
    BY Uint64IsUint, 0 \in Nat, 1 \in Nat
  <2> QED
    BY <1>5, <2>1 DEF Integer
<1>8. S(Kept(before))
  BY <1>2
<1> HIDE DEF S
<1>9. S(SpecialValue(vs, before))
  BY <1>6, <1>7, <1>8, SMTT(60) DEF SpecialValue
<1> QED
  BY <1>2, <1>9 DEF S

LEMMA BincDecodeSound ==
  ASSUME NEW b \in Seq(Byte), NEW p \in Nat, NEW before \in AnyPart,
         NEW clean \in BOOLEAN, clean => IsDecoded(before)
  PROVE  Sound(BincDecode(b, p, before), clean)
<1> DEFINE vd == ByteAt(b, p) - (ByteAt(b, p) % 16)
           vs == ByteAt(b, p) % 16
           q == p + 1
<1>1. vs \in 0..15 /\ vs + 1 \in Nat
  <2>1. ByteAt(b, p) \in Byte
    BY BytesAreBytes, 0 \in Nat
  <2>2. \A x \in 0..255 : x % 16 \in 0..15 /\ (x % 16) + 1 \in Nat
    OBVIOUS
  <2> QED
    BY <2>1, <2>2 DEF Byte
<1>2. \A d : Sound(d, TRUE) => Sound(d, clean)
  BY DEF Sound
<1>3. Sound(Got(SpecialValue(vs, before), q), clean) /\ Sound(Got(Kept(before), q), clean)
  BY <1>1, SpecialValueSound
<1>4. Sound(Got(Value("POS_INT", Uint64(vs + 1)), q), clean)
  <2>1. Uint64(vs + 1) \in Uints
    BY <1>1, Uint64IsUint
  <2>2. Uint64(vs + 1) \in Seq(Byte) /\ Len(Uint64(vs + 1)) = 8
    BY <2>1, UintIsSeq
  <2>3. "POS_INT" \in Types \union {"none"} /\ q \in Nat
    BY DEF Types
  <2> QED
    BY <2>2, <2>3, SoundValue
<1>5. /\ Sound(BincDecodeInt(b, q, vs, "POS_INT"), clean) /\ Sound(BincDecodeInt(b, q, vs, "NEG_INT"), clean)
      /\ Sound(BincDecodeFloat(b, q, vs), clean) /\ Sound(BincDecodeExt(b, q, vs), clean)
  <2>1. "POS_INT" \in Integer /\ "NEG_INT" \in Integer
    BY DEF Integer
  <2> QED
    BY <1>1, <1>2, <2>1, BincDecodeIntSound, BincDecodeFloatSound, BincDecodeExtSound
<1>6. /\ Sound(BincDecodeBlob(b, q, vs, "STRING"), clean) /\ Sound(BincDecodeBlob(b, q, vs, "BYTES"), clean)
      /\ Sound(BincDecodeContainer(b, q, vs, "ARRAY"), clean) /\ Sound(BincDecodeContainer(b, q, vs, "MAP"), clean)
  BY <1>1, <1>2, BincDecodeBlobSound, BincDecodeContainerSound
<1>7. Sound(Fail(p), clean) /\ Sound(Fail(q), clean)
  BY SoundFail
<1> DEFINE S(d) == Sound(d, clean)
<1>8. BincDecode(b, p, before) =
        IF Past(b, p, 1) THEN Fail(p)
        ELSE CASE vd = BincDesc["SPECIAL"] -> Got(SpecialValue(vs, before), q)
               [] vd = BincDesc["SMALLINT"] -> Got(Value("POS_INT", Uint64(vs + 1)), q)
               [] vd = BincDesc["POS_INT"] -> BincDecodeInt(b, q, vs, "POS_INT")
               [] vd = BincDesc["NEG_INT"] -> BincDecodeInt(b, q, vs, "NEG_INT")
               [] vd = BincDesc["FLOAT"] -> BincDecodeFloat(b, q, vs)
               [] vd \in {BincDesc["SYMBOL"], BincDesc["STRING"]} -> BincDecodeBlob(b, q, vs, "STRING")
               [] vd = BincDesc["BYTES"] -> BincDecodeBlob(b, q, vs, "BYTES")
               [] vd = BincDesc["EXT"] -> BincDecodeExt(b, q, vs)
               [] vd = BincDesc["ARRAY"] -> BincDecodeContainer(b, q, vs, "ARRAY")
               [] vd = BincDesc["MAP"] -> BincDecodeContainer(b, q, vs, "MAP")
               [] vd = BincDesc["TIMESTAMP"] -> Fail(q)
               [] OTHER -> Got(Kept(before), q)
  BY DEF BincDecode
<1> HIDE DEF vd, vs, S
<1>9. S(BincDecode(b, p, before))
  BY <1>3, <1>4, <1>5, <1>6, <1>7, <1>8, SMTT(60) DEF S
<1> QED
  BY <1>9 DEF S
-----------------------------------------------------------------------------
LEMMA PrefixOf ==
  ASSUME NEW S, NEW s \in Seq(S), NEW n \in 0..Len(s)
  PROVE  /\ SubSeq(s, 1, n) \in Seq(S) /\ Len(SubSeq(s, 1, n)) = n
         /\ \A i \in 1..n : i \in 1..Len(s) /\ SubSeq(s, 1, n)[i] = s[i]
<1>1. Len(s) \in Nat /\ n \in Nat /\ \A i \in 1..n : i \in 1..Len(s)
  BY LenProperties
<1>2. \A i \in 1..n : s[i] \in S
  BY <1>1, ElementOfSeq
<1> QED
  BY <1>1, <1>2

(* Texts. *)
Texts == [bytes : Seq(0..1), cap : Nat, over : BOOLEAN]

Ones(t) == \A i \in 1..Len(t.bytes) : t.bytes[i] = 1

(* t is s with more characters after it; cut says that some were. *)
Printed(s, t, cut) ==
  /\ t \in Texts
  /\ ~s.over => ~t.over
  /\ Ones(s) /\ ~cut => Ones(t)

LEMMA ExpandText ==
  ASSUME NEW s \in Texts, NEW n \in Nat
  PROVE  /\ Expand(s, n) \in Texts
         /\ Expand(s, n).bytes = s.bytes /\ Expand(s, n).over = s.over
         /\ Expand(s, n).cap >= Len(s.bytes) + n
         /\ Printed(s, Expand(s, n), FALSE)
<1>1. s.cap \in Nat /\ Len(s.bytes) \in Nat /\ s.bytes \in Seq(0..1) /\ s.over \in BOOLEAN
  BY LenProperties DEF Texts
<1> DEFINE t == Expand(s, n)
<1>2. CASE Len(s.bytes) + n <= s.cap
  <2>1. t = s
    BY <1>2 DEF Expand
  <2> QED
    BY <1>1, <1>2, <2>1 DEF Printed
<1>3. CASE ~(Len(s.bytes) + n <= s.cap)
  <2>1. t = [s EXCEPT !.cap = RoundUp(Grown(s, n))]
    BY <1>3 DEF Expand
  <2>2. RoundUp(Grown(s, n)) \in Nat /\ RoundUp(Grown(s, n)) >= Len(s.bytes) + n
    BY <1>1, GrownIsEnough
  <2> HIDE DEF t
  <2>3. t \in Texts /\ t.bytes = s.bytes /\ t.over = s.over /\ t.cap = RoundUp(Grown(s, n))
    BY <2>1, <2>2, <1>1 DEF Texts
  <2>4. Printed(s, t, FALSE)
    BY <2>3 DEF Printed, Ones
  <2> QED
    BY <2>2, <2>3, <2>4 DEF t
<1> QED
  BY <1>2, <1>3

(* Characters are missing when there are more than the limit leaves room for, *)
(* and the write is past the block if that is smaller than what is written.   *)
LEMMA SnprintfText ==
  ASSUME NEW s \in Texts, NEW limit \in Nat, NEW n \in Nat
  PROVE  LET t == Snprintf(s, limit, n)
         IN  /\ t \in Texts /\ Len(t.bytes) = Len(s.bytes) + n /\ t.cap = s.cap
             /\ ~s.over /\ Len(s.bytes) + (IF n < limit THEN n + 1 ELSE limit) <= s.cap => ~t.over
             /\ Ones(s) /\ n < limit => Ones(t)
<1> DEFINE d == [i \in 1..n |-> IF i < limit THEN 1 ELSE 0]
           t == Snprintf(s, limit, n)
<1>1. s.cap \in Nat /\ Len(s.bytes) \in Nat /\ s.bytes \in Seq(0..1) /\ s.over \in BOOLEAN
  BY LenProperties DEF Texts
<1>2. d \in Seq(0..1) /\ Len(d) = n
  OBVIOUS
<1>3. n < limit => \A i \in 1..n : d[i] = 1
  OBVIOUS
<1> DEFINE full == Len(s.bytes) + (IF n < limit THEN n + 1 ELSE limit) > s.cap
<1>4. t = [s EXCEPT !.bytes = s.bytes \o d, !.over = s.over \/ full]
  BY DEF Snprintf, Written, Texts
<1> HIDE DEF d
<1>5. /\ s.bytes \o d \in Seq(0..1) /\ Len(s.bytes \o d) = Len(s.bytes) + n
      /\ \A i \in 1..(Len(s.bytes) + Len(d)) :
           (s.bytes \o d)[i] = IF i <= Len(s.bytes) THEN s.bytes[i] ELSE d[i - Len(s.bytes)]
  BY <1>1, <1>2, ConcatProperties
<1>6. full \in BOOLEAN /\ (s.over \/ full) \in BOOLEAN
  OBVIOUS
<1> HIDE DEF t, full
<1>7. t.bytes = s.bytes \o d /\ t.cap = s.cap /\ t.over = (s.over \/ full)
  BY <1>4 DEF Texts
<1>8. t \in Texts
  <2>1. t = [bytes |-> s.bytes \o d, cap |-> s.cap, over |-> (s.over \/ full)]
    BY <1>4 DEF Texts
  <2> QED
    BY <1>1, <1>5, <1>6, <2>1 DEF Texts
<1>9. ASSUME Ones(s), n < limit
      PROVE  Ones(t)
  <2> DEFINE b == s.bytes \o d
  <2>1. ASSUME NEW i \in 1..(Len(s.bytes) + n) PROVE b[i] = 1
    <3>1. CASE i <= Len(s.bytes)
      BY <1>1, <1>2, <1>5, <1>9, <3>1 DEF Ones
    <3>2. CASE ~(i <= Len(s.bytes))
      <4>1. i - Len(s.bytes) \in 1..n
        BY <1>1, <3>2
      <4>2. b[i] = d[i - Len(s.bytes)]
        BY <1>2, <1>5, <3>2
      <4> QED
        BY <1>3, <1>9, <4>1, <4>2
    <3> QED
      BY <3>1, <3>2
  <2> QED
    BY <1>5, <1>7, <2>1 DEF Ones
<1>10. ~s.over /\ ~full => ~t.over
  BY <1>7
<1>11. (Len(s.bytes) + (IF n < limit THEN n + 1 ELSE limit) <= s.cap) => ~full
  <2> DEFINE m == IF n < limit THEN n + 1 ELSE limit
  <2>1. m \in Nat /\ full = (Len(s.bytes) + m > s.cap)
    BY DEF full
  <2> HIDE DEF m
  <2>2. (Len(s.bytes) + m <= s.cap) => ~(Len(s.bytes) + m > s.cap)
    BY <1>1, <2>1
  <2> QED
    BY <2>1, <2>2 DEF m
<1>12. ~s.over /\ Len(s.bytes) + (IF n < limit THEN n + 1 ELSE limit) <= s.cap => ~t.over
  BY <1>10, <1>11
<1>13. Len(t.bytes) = Len(s.bytes) + n /\ t.cap = s.cap
  BY <1>5, <1>7
<1> QED
  BY <1>8, <1>9, <1>12, <1>13 DEF t

LEMMA PrintInText ==
  ASSUME NEW s \in Texts, NEW limit \in Nat, NEW n \in Nat
  PROVE  /\ Printed(s, PrintIn(s, limit, n), ~(n < limit))
         /\ PrintIn(s, limit, n) \in Texts
<1> DEFINE e == Expand(s, limit)
           t == Snprintf(e, limit, n)
<1>1. e \in Texts /\ e.bytes = s.bytes /\ e.over = s.over /\ e.cap >= Len(s.bytes) + limit
  BY ExpandText
<1>2. Len(s.bytes) \in Nat /\ e.cap \in Nat
  BY <1>1, LenProperties DEF Texts
<1> HIDE DEF e
<1>3. /\ t \in Texts
      /\ ~e.over /\ Len(e.bytes) + (IF n < limit THEN n + 1 ELSE limit) <= e.cap => ~t.over
      /\ Ones(e) /\ n < limit => Ones(t)
  BY <1>1, SnprintfText
<1>4. Len(e.bytes) + (IF n < limit THEN n + 1 ELSE limit) <= e.cap
  <2>1. Len(e.bytes) = Len(s.bytes)
    BY <1>1
  <2> DEFINE m == IF n < limit THEN n + 1 ELSE limit
  <2>2. m <= limit /\ m \in Nat
    OBVIOUS
  <2> HIDE DEF m
  <2>3. Len(e.bytes) + m <= e.cap
    BY <1>1, <1>2, <2>1, <2>2
  <2> QED
    BY <2>3 DEF m
<1> HIDE DEF t
<1>5. Printed(s, t, ~(n < limit))
  BY <1>1, <1>3, <1>4 DEF Printed, Ones
<1> QED
  BY <1>3, <1>5 DEF PrintIn, t, e

(* Characters that an append puts there: none is missing. *)
LEMMA AppendText ==
  ASSUME NEW s \in Texts, NEW n \in Nat
  PROVE  Printed(s, AppendBytes(s, [i \in 1..n |-> 1]), FALSE)
<1> DEFINE d == [i \in 1..n |-> 1]
           e == Expand(s, Len(d) + 1)
           t == Written(e, d, Len(d) + 1)
<1>1. d \in Seq(0..1) /\ Len(d) = n /\ \A i \in 1..n : d[i] = 1
  OBVIOUS
<1> HIDE DEF d
<1>2. e \in Texts /\ e.bytes = s.bytes /\ e.over = s.over /\ e.cap >= Len(s.bytes) + (Len(d) + 1)
  <2>1. Len(d) + 1 \in Nat
    BY <1>1
  <2> QED
    BY <2>1, ExpandText
<1> HIDE DEF e
<1>3. Len(s.bytes) \in Nat /\ s.bytes \in Seq(0..1)
  BY LenProperties DEF Texts
<1>4. /\ s.bytes \o d \in Seq(0..1) /\ Len(s.bytes \o d) = Len(s.bytes) + n
      /\ \A i \in 1..(Len(s.bytes) + Len(d)) :
           (s.bytes \o d)[i] = IF i <= Len(s.bytes) THEN s.bytes[i] ELSE d[i - Len(s.bytes)]
  BY <1>1, <1>3, ConcatProperties
<1>5. t \in Texts /\ t.bytes = s.bytes \o d /\ t.over = s.over
  <2>1. ~(Len(e.bytes) + (Len(d) + 1) > e.cap)
    BY <1>1, <1>2, <1>3 DEF Texts
  <2>2. t = [e EXCEPT !.bytes = s.bytes \o d, !.over = s.over]
    BY <1>2, <2>1 DEF Written, Texts
  <2> HIDE DEF t
  <2> QED
    BY <1>2, <1>4, <2>2 DEF Texts
<1> HIDE DEF t
<1>6. ASSUME Ones(s) PROVE Ones(t)
  <2> DEFINE b == s.bytes \o d
  <2>1. ASSUME NEW i \in 1..(Len(s.bytes) + n) PROVE b[i] = 1
    <3>1. CASE i <= Len(s.bytes)
      BY <1>1, <1>3, <1>4, <1>6, <3>1 DEF Ones
    <3>2. CASE ~(i <= Len(s.bytes))
      <4>1. i - Len(s.bytes) \in 1..n
        BY <1>3, <3>2
      <4>2. b[i] = d[i - Len(s.bytes)]
        BY <1>1, <1>4, <3>2
      <4> QED
        BY <1>1, <4>1, <4>2
    <3> QED
      BY <3>1, <3>2
  <2> QED
    BY <1>4, <1>5, <2>1 DEF Ones
<1>7. Printed(s, t, FALSE)
  BY <1>5, <1>6 DEF Printed
<1> QED
  BY <1>7 DEF AppendBytes, t, e, d

LEMMA WidthsAreNat ==
  /\ \A n : SmallDigits(n) \in 1..3
  /\ \A u : Digits(u) \in Nat
  /\ \A c \in Byte : Decimal(c) \in Nat /\ Hex(c) \in Nat
  /\ \A tag : TagWidth(tag) \in {7, 8}
<1>1. \A n : SmallDigits(n) \in 1..3
  BY DEF SmallDigits
<1>2. ASSUME NEW u PROVE Digits(u) \in Nat
  <2> DEFINE S == {i \in 1..20 : i = 1 \/ ~AllZero(Quotients(u)[i])}
  <2>1. IsFiniteSet(1..20)
    BY FS_Interval, 1 \in Int, 20 \in Int
  <2>2. S \in SUBSET (1..20)
    OBVIOUS
  <2>3. IsFiniteSet(S)
    BY <2>1, <2>2, FS_Subset
  <2>4. Cardinality(S) \in Nat
    BY <2>3, FS_CardinalityType
  <2> QED
    BY <2>4 DEF Digits
<1>3. \A c \in Byte : Decimal(c) \in Nat /\ Hex(c) \in Nat
  <2> SUFFICES ASSUME NEW c \in Byte PROVE Decimal(c) \in Nat /\ Hex(c) \in Nat
    OBVIOUS
  <2>1. SmallDigits(c) \in Nat /\ 1 + SmallDigits(256 - c) \in Nat
    BY <1>1
  <2> QED
    BY <2>1 DEF Decimal, Hex
<1>4. \A tag : TagWidth(tag) \in {7, 8}
  BY DEF TagWidth
<1> QED
  BY <1>1, <1>2, <1>3, <1>4

(* What was decoded, with data that are there. *)
Printable(v) == IsDecoded(v) /\ v.data # Wild

(* The bytes that are printed one by one, and their widths. *)
LEMMA BlobOf ==
  ASSUME NEW v \in AnyPart, Printable(v)
  PROVE  /\ Blob(v) \in Seq(Byte)
         /\ \A i \in 1..Len(Blob(v)) : ByteWidth(v, Blob(v)[i]) \in Nat
         /\ v.type \notin {"BYTES", "EXT"} => Blob(v) = <<>>
         /\ Calls(v) # 0 => Blob(v) = <<>> /\ v.type \in {"ARRAY", "MAP"}
<1>1. v.type \notin {"BYTES", "EXT"} => Blob(v) = <<>>
  BY DEF Blob
<1>2. Blob(v) \in Seq(Byte)
  <2>1. CASE v.type = "BYTES"
    BY <2>1 DEF Blob, Printable, IsDecoded, Float
  <2>2. CASE v.type = "EXT"
    <3>1. v.data \in Seq(Byte) /\ Len(v.data) >= 1
      BY <2>2 DEF Printable, IsDecoded, Float
    <3>2. v.data # <<>>
      BY <3>1
    <3>3. Tail(v.data) \in Seq(Byte)
      BY <3>1, <3>2, HeadTailProperties
    <3> QED
      BY <2>2, <3>3 DEF Blob
  <2>3. CASE v.type \notin {"BYTES", "EXT"}
    <3>1. <<>> \in Seq(Byte)
      OBVIOUS
    <3> QED
      BY <1>1, <2>3, <3>1
  <2> QED
    BY <2>1, <2>2, <2>3
<1>3. \A i \in 1..Len(Blob(v)) : ByteWidth(v, Blob(v)[i]) \in Nat
  BY <1>2, ElementOfSeq, WidthsAreNat DEF ByteWidth
<1>4. Calls(v) # 0 => v.type \in {"ARRAY", "MAP"}
  BY DEF Calls, Printable, IsDecoded
<1> QED
  BY <1>1, <1>2, <1>3, <1>4

(* A call up to its loop: only a number can be cut, and there is room for two *)
(* characters of each byte.                                                   *)
LEMMA PrintHeadText ==
  ASSUME NEW s \in Texts, NEW v \in AnyPart, Printable(v), NEW w \in Nat
  PROVE  /\ Printed(s, PrintHead(s, v, w), ~Whole(v, w))
         /\ v.type \in {"BYTES", "EXT"} =>
              PrintHead(s, v, w).cap >= Len(PrintHead(s, v, w).bytes) + 2 * Len(Blob(v)) + 1
<1> DEFINE c == SmallDigits(TypeCode[v.type]) + 1
           t == PrintIn(s, 4, c)
           room == BlobRoom(Len(Blob(v)))
           H == PrintHead(s, v, w)
<1>1. v.type \in Types \union {"none"}
  BY DEF AnyPart
<1>2. c \in Nat /\ c < 4
  <2>1. TypeCode[v.type] \in 0..11
    BY <1>1 DEF TypeCode, Types
  <2>2. SmallDigits(TypeCode[v.type]) \in 1..2
    BY <2>1 DEF SmallDigits
  <2> QED
    BY <2>2
<1> HIDE DEF c
<1>3. t \in Texts /\ Printed(s, t, FALSE)
  BY <1>2, PrintInText DEF Printed
<1>4. Len(Blob(v)) \in Nat
  BY BlobOf, LenProperties
<1>5. room \in Nat /\ room = 2 * Len(Blob(v)) + 8
  BY <1>4 DEF BlobRoom
<1>6. H = CASE v.type = "none" -> t
            [] v.type \in {"NIL", "BOOL"} \union Integer \union Float -> PrintIn(t, 16, NumberWidth(v, w))
            [] v.type = "STRING" -> AppendBytes(t, [i \in DOMAIN v.data |-> 1])
            [] v.type = "BYTES" -> Snprintf(Expand(t, room), 3, 2)
            [] v.type \in {"ARRAY", "MAP"} -> PrintIn(t, 3, 2)
            [] v.type = "EXT" -> Expand(PrintIn(PrintIn(t, 3, 2), 12, TagWidth(Head(v.data))), room)
  BY DEF PrintHead, c
<1> HIDE DEF t, room, H
<1>7. CASE v.type = "none"
  <2>1. H = t
    BY <1>6, <1>7 DEF Integer, Float
  <2> QED
    BY <1>3, <1>7, <2>1 DEF Printed, H
<1>8. CASE v.type \in {"NIL", "BOOL"} \union Integer \union Float
  <2> DEFINE n == NumberWidth(v, w)
  <2>1. H = PrintIn(t, 16, n)
    BY <1>6, <1>8 DEF Integer, Float
  <2>2. n \in Nat /\ (Whole(v, w) => n < 16)
    <3>1. CASE v.type \in {"NIL", "BOOL"}
      BY <3>1 DEF NumberWidth, Integer, Float
    <3>2. CASE v.type \in Integer \union Float
      <4>1. n \in Nat
        <5>1. Digits(v.data) \in Nat /\ FloatWidth(v, w) \in Nat
          BY WidthsAreNat DEF FloatWidth
        <5> QED
          BY <3>2, <5>1 DEF NumberWidth, Integer, Float
      <4>2. Whole(v, w) => n <= 15
        BY <3>2 DEF Whole
      <4> HIDE DEF n
      <4> QED
        BY <4>1, <4>2
    <3> QED
      BY <1>8, <3>1, <3>2
  <2> HIDE DEF n
  <2>3. 16 \in Nat
    OBVIOUS
  <2>4. Printed(t, H, ~(n < 16))
    BY <1>3, <2>1, <2>2, <2>3, PrintInText
  <2>5. Printed(s, H, ~Whole(v, w))
    BY <1>3, <2>2, <2>4 DEF Printed
  <2> QED
    BY <1>8, <2>5 DEF H, Integer, Float
<1>9. CASE v.type = "STRING"
  <2>1. H = AppendBytes(t, [i \in DOMAIN v.data |-> 1])
    BY <1>6, <1>9 DEF Integer, Float
  <2>2. DOMAIN v.data = 1..Len(v.data) /\ Len(v.data) \in Nat
    BY LenProperties DEF AnyPart
  <2>3. Printed(t, H, FALSE)
    BY <1>3, <2>1, <2>2, AppendText
  <2>4. Printed(s, H, ~Whole(v, w))
    BY <1>3, <2>3 DEF Printed
  <2> QED
    BY <1>9, <2>4 DEF H
<1>10. CASE v.type = "BYTES"
  <2> DEFINE e == Expand(t, room)
  <2>1. H = Snprintf(e, 3, 2)
    BY <1>6, <1>10 DEF Integer, Float
  <2>2. e \in Texts /\ e.bytes = t.bytes /\ e.cap >= Len(t.bytes) + room /\ Printed(t, e, FALSE)
    BY <1>3, <1>5, ExpandText
  <2>3. Len(t.bytes) \in Nat /\ e.cap \in Nat
    BY <1>3, <2>2, LenProperties DEF Texts
  <2> HIDE DEF e
  <2>4. /\ H \in Texts /\ Len(H.bytes) = Len(e.bytes) + 2 /\ H.cap = e.cap
        /\ ~e.over /\ Len(e.bytes) + (IF 2 < 3 THEN 2 + 1 ELSE 3) <= e.cap => ~H.over
        /\ Ones(e) /\ 2 < 3 => Ones(H)
    BY <2>1, <2>2, SnprintfText, 2 \in Nat, 3 \in Nat
  <2>5. H.cap >= Len(H.bytes) + 2 * Len(Blob(v)) + 1 /\ Len(e.bytes) + 3 <= e.cap
    <3>1. Len(e.bytes) = Len(t.bytes)
      BY <2>2
    <3>2. \A m \in Nat, l \in Nat, k \in Nat : k >= l + (2 * m + 8) => k >= l + 2 + 2 * m + 1 /\ l + 3 <= k
      OBVIOUS
    <3>3. e.cap >= Len(t.bytes) + (2 * Len(Blob(v)) + 8)
      BY <1>5, <2>2
    <3>4. e.cap >= Len(t.bytes) + 2 + 2 * Len(Blob(v)) + 1 /\ Len(t.bytes) + 3 <= e.cap
      BY <1>4, <2>3, <3>2, <3>3
    <3>5. Len(H.bytes) = Len(t.bytes) + 2 /\ H.cap = e.cap
      BY <2>4, <3>1
    <3> QED
      BY <3>1, <3>4, <3>5
  <2>6. Printed(e, H, FALSE)
    BY <2>4, <2>5 DEF Printed
  <2>7. Printed(s, H, ~Whole(v, w))
    BY <1>3, <2>2, <2>6 DEF Printed
  <2> QED
    BY <2>5, <2>7 DEF H
<1>11. CASE v.type \in {"ARRAY", "MAP"}
  <2>1. H = PrintIn(t, 3, 2)
    BY <1>6, <1>11 DEF Integer, Float
  <2>2. Printed(t, H, ~(2 < 3))
    BY <1>3, <2>1, PrintInText, 2 \in Nat, 3 \in Nat
  <2>3. Printed(s, H, ~Whole(v, w))
    BY <1>3, <2>2 DEF Printed
  <2> QED
    BY <1>11, <2>3 DEF H
<1>12. CASE v.type = "EXT"
  <2> DEFINE n == TagWidth(Head(v.data))
             a == PrintIn(t, 3, 2)
             b == PrintIn(a, 12, n)
  <2>1. H = Expand(b, room)
    BY <1>6, <1>12 DEF Integer, Float
  <2>2. n \in Nat /\ n < 12
    BY WidthsAreNat
  <2> HIDE DEF n
  <2>3. a \in Texts /\ Printed(t, a, ~(2 < 3))
    BY <1>3, PrintInText, 2 \in Nat, 3 \in Nat
  <2> HIDE DEF a
  <2>4. b \in Texts /\ Printed(a, b, ~(n < 12))
    BY <2>2, <2>3, PrintInText, 12 \in Nat
  <2> HIDE DEF b
  <2>5. H.bytes = b.bytes /\ H.cap >= Len(b.bytes) + room /\ Printed(b, H, FALSE) /\ H \in Texts
    BY <1>5, <2>1, <2>4, ExpandText
  <2>6. Len(b.bytes) \in Nat /\ H.cap \in Nat
    BY <2>4, <2>5, LenProperties DEF Texts
  <2>7. Printed(s, H, ~Whole(v, w))
    BY <1>3, <2>2, <2>3, <2>4, <2>5 DEF Printed
  <2>8. H.cap >= Len(H.bytes) + 2 * Len(Blob(v)) + 1
    <3>1. \A m \in Nat, l \in Nat, k \in Nat : k >= l + (2 * m + 8) => k >= l + 2 * m + 1
      OBVIOUS
    <3>2. H.cap >= Len(b.bytes) + (2 * Len(Blob(v)) + 8)
      BY <1>5, <2>5
    <3>3. H.cap >= Len(b.bytes) + 2 * Len(Blob(v)) + 1
      BY <1>4, <2>6, <3>1, <3>2
    <3> QED
      BY <2>5, <3>3
  <2> QED
    BY <2>7, <2>8 DEF H
<1> QED
  BY <1>1, <1>7, <1>8, <1>9, <1>10, <1>11, <1>12 DEF Types, Integer, Float

LEMMA SeparatorText ==
  ASSUME NEW s \in Texts, NEW v, NEW i
  PROVE  Separator(s, v, i) \in Texts /\ Printed(s, Separator(s, v, i), FALSE)
<1>1. s \in Texts /\ Printed(s, s, FALSE)
  BY DEF Printed
<1>2. Comma(s) \in Texts /\ Printed(s, Comma(s), FALSE)
  BY PrintInText, 2 \in Nat, 3 \in Nat DEF Comma, Printed
<1>3. PrintIn(s, 4, 3) \in Texts /\ Printed(s, PrintIn(s, 4, 3), FALSE)
  BY PrintInText, 4 \in Nat, 3 \in Nat DEF Printed
<1>4. Separator(s, v, i) \in {s, Comma(s), PrintIn(s, 4, 3)}
  BY DEF Separator
<1> QED
  BY <1>1, <1>2, <1>3, <1>4

LEMMA PrintTailText ==
  ASSUME NEW s \in Texts, NEW v
  PROVE  PrintTail(s, v) \in Texts /\ Printed(s, PrintTail(s, v), FALSE)
<1>1. s \in Texts /\ Printed(s, s, FALSE)
  BY DEF Printed
<1>2. PrintIn(s, 3, 2) \in Texts /\ Printed(s, PrintIn(s, 3, 2), FALSE)
  BY PrintInText, 2 \in Nat, 3 \in Nat DEF Printed
<1>3. PrintTail(s, v) \in {s, PrintIn(s, 3, 2)}
  BY DEF PrintTail
<1> QED
  BY <1>1, <1>2, <1>3

LEMMA PrintNulText ==
  ASSUME NEW s \in Texts
  PROVE  Printed(s, PrintNul(s), FALSE)
<1> DEFINE e == Expand(s, Len(<<0>>) + 1)
<1>1. Len(<<0>>) + 1 \in Nat
  OBVIOUS
<1>2. e \in Texts /\ e.bytes = s.bytes /\ e.over = s.over /\ e.cap >= Len(s.bytes) + (Len(<<0>>) + 1)
  BY <1>1, ExpandText
<1> HIDE DEF e
<1>3. PrintNul(s) = [Written(e, <<0>>, Len(<<0>>) + 1) EXCEPT !.bytes = s.bytes]
  BY DEF PrintNul, AppendBytes, e
<1>4. ~(Len(e.bytes) + (Len(<<0>>) + 1) > e.cap)
  <2>1. Len(s.bytes) \in Nat /\ e.cap \in Nat
    BY <1>2, LenProperties DEF Texts
  <2> QED
    BY <1>1, <1>2, <2>1
<1>5. PrintNul(s) = e
  BY <1>2, <1>3, <1>4 DEF Written, Texts
<1> QED
  BY <1>2, <1>5 DEF Printed, Ones
-----------------------------------------------------------------------------
(* As far as b reaches, it has the bytes d after the first a. *)
Starts(b, a, d) == \A i \in 1..Len(d) : a + i <= Len(b) => b[a + i] = d[i]

LEMMA StartsByte ==
  ASSUME NEW b \in Seq(Byte), NEW a \in Nat, NEW d \in Seq(Byte), Starts(b, a, d),
         NEW i \in 1..Len(d), a + i <= Len(b)
  PROVE  ByteAt(b, a + i - 1) = d[i]
<1>1. Len(b) \in Nat /\ Len(d) \in Nat
  BY LenProperties
<1>2. a + i - 1 < Len(b) /\ a + i - 1 + 1 = a + i
  BY <1>1
<1> QED
  BY <1>2 DEF Starts, ByteAt

LEMMA StartsHead ==
  ASSUME NEW b \in Seq(Byte), NEW a \in Nat, NEW d \in Seq(Byte), Starts(b, a, d), Len(d) >= 1,
         a < Len(b)
  PROVE  ByteAt(b, a) = d[1]
<1>1. Len(b) \in Nat /\ Len(d) \in Nat
  BY LenProperties
<1>2. 1 \in 1..Len(d) /\ a + 1 <= Len(b) /\ a + 1 - 1 = a
  BY <1>1
<1> QED
  BY <1>2, StartsByte

LEMMA StartsConcat ==
  ASSUME NEW b, NEW a \in Nat, NEW c \in Seq(Byte), NEW d \in Seq(Byte), Len(b) \in Nat,
         Starts(b, a, c \o d)
  PROVE  Starts(b, a, c) /\ Starts(b, a + Len(c), d)
<1>1. Len(c) \in Nat /\ Len(d) \in Nat
  BY LenProperties
<1>2. /\ Len(c \o d) = Len(c) + Len(d)
      /\ \A i \in 1..(Len(c) + Len(d)) : (c \o d)[i] = IF i <= Len(c) THEN c[i] ELSE d[i - Len(c)]
  BY ConcatProperties
<1>3. ASSUME NEW i \in 1..Len(c), a + i <= Len(b) PROVE b[a + i] = c[i]
  <2>1. i \in 1..(Len(c) + Len(d)) /\ i <= Len(c)
    BY <1>1
  <2> QED
    BY <1>2, <1>3, <2>1 DEF Starts
<1>4. ASSUME NEW i \in 1..Len(d), (a + Len(c)) + i <= Len(b) PROVE b[(a + Len(c)) + i] = d[i]
  <2>1. /\ Len(c) + i \in 1..(Len(c) + Len(d)) /\ ~(Len(c) + i <= Len(c)) /\ (Len(c) + i) - Len(c) = i
        /\ a + (Len(c) + i) = (a + Len(c)) + i
    BY <1>1
  <2>2. (c \o d)[Len(c) + i] = d[i]
    BY <1>2, <2>1
  <2> QED
    BY <1>2, <1>4, <2>1, <2>2 DEF Starts
<1> QED
  BY <1>3, <1>4 DEF Starts

LEMMA StartsBytes ==
  ASSUME NEW b \in Seq(Byte), NEW a \in Nat, NEW d \in Seq(Byte), Starts(b, a, d), a + Len(d) <= Len(b)
  PROVE  BytesAt(b, a, Len(d)) = d
<1>1. Len(b) \in Nat /\ Len(d) \in Nat
  BY LenProperties
<1>2. /\ BytesAt(b, a, Len(d)) \in Seq(Byte) /\ Len(BytesAt(b, a, Len(d))) = Len(d)
      /\ \A i \in 1..Len(d) : BytesAt(b, a, Len(d))[i] = ByteAt(b, a + i - 1)
  BY <1>1, BytesAreBytes
<1>3. \A i \in 1..Len(d) : a + i <= Len(b)
  BY <1>1
<1>4. \A i \in 1..Len(d) : BytesAt(b, a, Len(d))[i] = d[i]
  BY <1>2, <1>3, StartsByte
<1> QED
  BY <1>2, <1>4, SeqEqual

(* A value is its type, its data and its count. *)
LEMMA ValueIs ==
  ASSUME NEW v, IsValue(v)
  PROVE  /\ v.type \notin {"ARRAY", "MAP"} => v = Value(v.type, v.data)
         /\ v.type \in {"ARRAY", "MAP"} => v = Container(v.type, v.count) /\ v.data = <<>>
         /\ v.type = "NIL" => v.data = <<>>
         /\ v.type = "BOOL" => v.data \in {<<0>>, <<1>>}
<1>1. v = [type |-> v.type, data |-> v.data, count |-> v.count] /\ v.data \in Seq(Byte)
  BY DEF IsValue
<1>2. v.type \notin {"ARRAY", "MAP"} => v.count = 0
  BY DEF IsValue
<1>3. v.type \in {"NIL", "ARRAY", "MAP"} => Len(v.data) = 0
  BY DEF IsValue, Sized, Integer
<1>4. v.type = "BOOL" => v.data \in {<<0>>, <<1>>}
  BY DEF IsValue, Sized, Integer
<1>5. v.type \in {"NIL", "ARRAY", "MAP"} => v.data = <<>>
  BY <1>1, <1>3, EmptySeq
<1> QED
  BY <1>1, <1>2, <1>4, <1>5 DEF Value, Container
-----------------------------------------------------------------------------
LEMMA LengthOfByte ==
  ASSUME NEW w, NEW n \in Nat, w[8] = n, \A i \in 1..7 : w[i] = 0
  PROVE  Length(w) = n
<1>1. Fit(w, 4)
  BY DEF Fit
<1>2. w[1] = 0 /\ w[5] = 0 /\ w[6] = 0 /\ w[7] = 0
  OBVIOUS
<1>3. ((0 * 256 + 0) * 256 + 0) * 256 + n = n
  OBVIOUS
<1>4. ~(0 >= 128) /\ 0 < 128 /\ 0 < 16
  OBVIOUS
<1>5. Length(w) = ((w[5] * 256 + w[6]) * 256 + w[7]) * 256 + w[8]
  BY <1>1, <1>2, <1>4 DEF Length
<1> QED
  BY <1>2, <1>3, <1>5

(* A length below 256 is written as it is read. *)
LEMMA ShortUint ==
  ASSUME NEW n \in 0..255
  PROVE  /\ Uint64(n) = <<0, 0, 0, 0, 0, 0, 0, n>>
         /\ Fit(Uint64(n), 1) /\ Fit(Uint64(n), 3) /\ Length(Uint64(n)) = n
<1>1. (n \div 16777216) % 256 = 0 /\ (n \div 65536) % 256 = 0 /\ (n \div 256) % 256 = 0 /\ n % 256 = n
  BY SMT
<1>2. Uint64(n) = <<0, 0, 0, 0, 0, 0, 0, n>>
  BY <1>1, SMT DEF Uint64
<1>3. Fit(Uint64(n), 1) /\ Fit(Uint64(n), 3)
  BY <1>2, SMT DEF Fit
<1>4. Length(Uint64(n)) = n
  <2> DEFINE w == Uint64(n)
  <2>1. w[8] = n /\ \A i \in 1..7 : w[i] = 0
    BY <1>2, SMT
  <2> HIDE DEF w
  <2>2. n \in Nat
    OBVIOUS
  <2>3. Length(w) = n
    BY <2>1, <2>2, LengthOfByte
  <2> QED
    BY <2>3 DEF w
<1> QED
  BY <1>2, <1>3, <1>4

LEMMA ShortSimpleLen ==
  ASSUME NEW n \in 0..255, NEW bd \in 0..251
  PROVE  /\ SimpleLen(bd, n) \in Seq(Byte)
         /\ n = 0 => Len(SimpleLen(bd, n)) = 1 /\ SimpleLen(bd, n)[1] = bd
         /\ n # 0 => /\ Len(SimpleLen(bd, n)) = 2
                     /\ SimpleLen(bd, n)[1] = bd + 1 /\ SimpleLen(bd, n)[2] = n
<1>1. Code(Uint64(n)) = 0 /\ Low(Uint64(n)) = <<n>>
  <2> DEFINE u == Uint64(n)
  <2>1. u = <<0, 0, 0, 0, 0, 0, 0, n>> /\ Fit(u, 1)
    BY ShortUint
  <2> HIDE DEF u
  <2>2. Code(u) = 0
    BY <2>1 DEF Code
  <2>3. Low(u) = SubSeq(u, 8, 8)
    BY <2>2 DEF Low, Widths
  <2>4. Len(u) = 8 /\ u[8] = n /\ u \in Seq(0..255)
    BY <2>1
  <2>5. SubSeq(u, 8, 8) \in Seq(0..255) /\ Len(SubSeq(u, 8, 8)) = 1 /\ SubSeq(u, 8, 8)[1] = u[8]
    <3>1. 8 \in Int /\ 8 \in 1..Len(u) /\ 8 - 8 + 1 = 1 /\ 8 + 1 - 1 = 8 /\ 8 <= 8 /\ 1 \in 1..1
      BY <2>4
    <3>2. u[8] \in 0..255 /\ \A i \in 8..8 : i = 8
      BY <2>4
    <3> QED
      BY <3>1, <3>2, SubSeqProperties
  <2>6. SubSeq(u, 8, 8) = <<n>>
    <3>1. <<n>> \in Seq(0..255) /\ Len(<<n>>) = 1 /\ <<n>>[1] = n
      OBVIOUS
    <3>2. \A i \in 1..1 : i = 1
      OBVIOUS
    <3> DEFINE w == <<n>>
               x == SubSeq(u, 8, 8)
    <3>3. w \in Seq(0..255) /\ x \in Seq(0..255) /\ Len(x) = 1 /\ Len(w) = 1 /\ x[1] = w[1]
      BY <2>4, <2>5, <3>1
    <3> HIDE DEF w, x
    <3>4. x = w
      BY <3>2, <3>3, SeqEqual
    <3> QED
      BY <3>4 DEF w, x
  <2> QED
    BY <2>2, <2>3, <2>6 DEF u
<1>2. SimpleLen(bd, n) = IF n = 0 THEN <<bd>> ELSE <<bd + 1>> \o <<n>>
  <2>1. bd + 1 + 0 = bd + 1
    OBVIOUS
  <2> QED
    BY <1>1, <2>1 DEF SimpleLen, SimpleUint
<1> DEFINE c == <<bd + 1>>
           d == <<n>>
<1>3. c \in Seq(Byte) /\ d \in Seq(Byte) /\ <<bd>> \in Seq(Byte)
  <2>1. bd + 1 \in Byte /\ n \in Byte /\ bd \in Byte
    BY DEF Byte
  <2> QED
    BY <2>1
<1>4. Len(c) = 1 /\ Len(d) = 1 /\ c[1] = bd + 1 /\ d[1] = n
  OBVIOUS
<1>5. SimpleLen(bd, n) = IF n = 0 THEN <<bd>> ELSE c \o d
  BY <1>2
<1> HIDE DEF c, d
<1>6. c \o d \in Seq(Byte) /\ Len(c \o d) = 2 /\ (c \o d)[1] = bd + 1 /\ (c \o d)[2] = n
  <2>1. /\ c \o d \in Seq(Byte) /\ Len(c \o d) = Len(c) + Len(d)
        /\ \A i \in 1..(Len(c) + Len(d)) : (c \o d)[i] = IF i <= Len(c) THEN c[i] ELSE d[i - Len(c)]
    BY <1>3, ConcatProperties
  <2>2. 1 \in 1..(1 + 1) /\ 2 \in 1..(1 + 1) /\ 1 <= 1 /\ ~(2 <= 1) /\ 2 - 1 = 1 /\ 1 + 1 = 2
    OBVIOUS
  <2>3. Len(c) + Len(d) = 1 + 1
    BY <1>4
  <2>4. (c \o d)[1] = c[1] /\ (c \o d)[2] = d[1]
    BY <1>4, <2>1, <2>2
  <2> QED
    BY <1>4, <2>1, <2>2, <2>4
<1>7. n = 0 => SimpleLen(bd, n) = <<bd>>
  BY <1>5
<1>8. Len(<<bd>>) = 1 /\ <<bd>>[1] = bd
  OBVIOUS
<1> QED
  BY <1>3, <1>5, <1>6, <1>7, <1>8

(* The call for each of the descriptors. *)
LEMMA SimpleCases ==
  ASSUME NEW b, NEW a, NEW mem
  PROVE  LET c == ByteAt(b, a)
             d == SimpleDecode(b, a, mem)
             q == a + 1
         IN  c \in Nat /\ ~(a >= Len(b)) =>
               /\ c = SimpleDesc["NIL"] => d = Got(Value("NIL", <<>>), q)
               /\ c = SimpleDesc["FALSE"] => d = Got(Value("BOOL", <<0>>), q)
               /\ c = SimpleDesc["TRUE"] => d = Got(Value("BOOL", <<1>>), q)
               /\ Is(c, "POS_INT", 3) => d = SimpleDecodeInt(b, q, c, "POS_INT")
               /\ Is(c, "NEG_INT", 3) => d = SimpleDecodeInt(b, q, c, "NEG_INT")
               /\ c = SimpleDesc["FLOAT32"] => d = SimpleDecodeFloat(b, q, 4, "FLOAT32")
               /\ c = SimpleDesc["FLOAT64"] => d = SimpleDecodeFloat(b, q, 8, "FLOAT64")
               /\ Is(c, "STRING", 4) => d = SimpleDecodeBlob(b, q, c, "STRING")
               /\ Is(c, "BYTES", 4) => d = SimpleDecodeBlob(b, q, c, BytesType(mem))
               /\ Is(c, "ARRAY", 4) => d = SimpleDecodeContainer(b, q, c, "ARRAY")
               /\ Is(c, "MAP", 4) => d = SimpleDecodeContainer(b, q, c, "MAP")
               /\ Is(c, "EXT", 4) => d = SimpleDecodeExt(b, q, c)
<1> DEFINE c == ByteAt(b, a)
           d == SimpleDecode(b, a, mem)
           q == a + 1
<1>1. /\ SimpleDesc["NIL"] = 1 /\ SimpleDesc["FALSE"] = 2 /\ SimpleDesc["TRUE"] = 3
      /\ SimpleDesc["FLOAT32"] = 4 /\ SimpleDesc["FLOAT64"] = 5
      /\ SimpleDesc["POS_INT"] = 8 /\ SimpleDesc["NEG_INT"] = 12
      /\ SimpleDesc["STRING"] = 216 /\ SimpleDesc["BYTES"] = 224
      /\ SimpleDesc["ARRAY"] = 232 /\ SimpleDesc["MAP"] = 240 /\ SimpleDesc["EXT"] = 248
  BY DEF SimpleDesc
<1>2. c \in Nat =>
      /\ Is(c, "POS_INT", 3) <=> c \in 8..11
      /\ Is(c, "NEG_INT", 3) <=> c \in 12..15
      /\ Is(c, "STRING", 4) <=> c \in 216..220
      /\ Is(c, "BYTES", 4) <=> c \in 224..228
      /\ Is(c, "ARRAY", 4) <=> c \in 232..236
      /\ Is(c, "MAP", 4) <=> c \in 240..244
      /\ Is(c, "EXT", 4) <=> c \in 248..252
  BY <1>1 DEF Is
<1> DEFINE nil == Got(Value("NIL", <<>>), q)
           no == Got(Value("BOOL", <<0>>), q)
           yes == Got(Value("BOOL", <<1>>), q)
           pos == SimpleDecodeInt(b, q, c, "POS_INT")
           neg == SimpleDecodeInt(b, q, c, "NEG_INT")
           f32 == SimpleDecodeFloat(b, q, 4, "FLOAT32")
           f64 == SimpleDecodeFloat(b, q, 8, "FLOAT64")
           str == SimpleDecodeBlob(b, q, c, "STRING")
           bytes == SimpleDecodeBlob(b, q, c, BytesType(mem))
           array == SimpleDecodeContainer(b, q, c, "ARRAY")
           map == SimpleDecodeContainer(b, q, c, "MAP")
           ext == SimpleDecodeExt(b, q, c)
           none == Fail(q)
<1> DEFINE Cases ==
         d = CASE c = 1 -> nil
               [] c = 2 -> no
               [] c = 3 -> yes
               [] c \in 8..11 -> pos
               [] c \in 12..15 -> neg
               [] c = 4 -> f32
               [] c = 5 -> f64
               [] c \in 216..220 -> str
               [] c \in 224..228 -> bytes
               [] c \in 232..236 -> array
               [] c \in 240..244 -> map
               [] c \in 248..252 -> ext
               [] OTHER -> none
<1>3. c \in Nat /\ ~(a >= Len(b)) => Cases
  BY <1>1, <1>2, SMTT(60) DEF SimpleDecode
<1> HIDE DEF c, d, q, nil, no, yes, pos, neg, f32, f64, str, bytes, array, map, ext, none
<1>4. c \in Nat /\ Cases =>
      /\ c = 1 => d = nil
      /\ c = 2 => d = no
      /\ c = 3 => d = yes
      /\ c = 4 => d = f32
      /\ c = 5 => d = f64
  OBVIOUS
<1>5. c \in Nat /\ Cases =>
      /\ c \in 8..11 => d = pos
      /\ c \in 12..15 => d = neg
      /\ c \in 216..220 => d = str
      /\ c \in 224..228 => d = bytes
      /\ c \in 232..236 => d = array
      /\ c \in 240..244 => d = map
      /\ c \in 248..252 => d = ext
  OBVIOUS
<1>6. c \in Nat /\ ~(a >= Len(b)) =>
      /\ c = SimpleDesc["NIL"] => d = nil
      /\ c = SimpleDesc["FALSE"] => d = no
      /\ c = SimpleDesc["TRUE"] => d = yes
      /\ Is(c, "POS_INT", 3) => d = pos
      /\ Is(c, "NEG_INT", 3) => d = neg
      /\ c = SimpleDesc["FLOAT32"] => d = f32
      /\ c = SimpleDesc["FLOAT64"] => d = f64
      /\ Is(c, "STRING", 4) => d = str
      /\ Is(c, "BYTES", 4) => d = bytes
      /\ Is(c, "ARRAY", 4) => d = array
      /\ Is(c, "MAP", 4) => d = map
      /\ Is(c, "EXT", 4) => d = ext
  <2> HIDE DEF Cases
  <2> QED
    BY <1>1, <1>2, <1>3, <1>4, <1>5
<1> QED
  BY <1>6, Zenon DEF c, d, q, nil, no, yes, pos, neg, f32, f64, str, bytes, array, map, ext, none
-----------------------------------------------------------------------------
(* The lengths of a byte, and the descriptors that one follows. *)
Short == 0..255
IntBases == {8, 12}
Bases == {216, 224, 232, 240, 248}

LEMMA BelowIsShort == \A k \in Nat : k < 256 => k \in Short
  BY SMT DEF Short

LEMMA ShortIsBytes == \A n \in Short, bd \in Bases : SimpleLen(bd, n) \in Seq(Byte)
<1>1. \A x \in Bases : x \in 0..251
  BY SMT DEF Bases
<1>2. \A n \in Short, bd \in 0..251 : SimpleLen(bd, n) \in Seq(Byte)
  BY ShortSimpleLen DEF Short
<1> QED
  BY <1>1, <1>2, Zenon

LEMMA SimpleReadsLen ==
  ASSUME NEW b \in Seq(Byte), NEW a \in Nat, a < Len(b), NEW n \in Short,
         NEW bd \in Bases, Starts(b, a, SimpleLen(bd, n))
  PROVE  LET c == ByteAt(b, a)
             l == SimpleDecodeLen(b, a + 1, c)
             m == Len(SimpleLen(bd, n))
         IN  /\ c \in bd..(bd + 4) /\ m \in {1, 2}
             /\ a + m > Len(b) => l.err
             /\ a + m <= Len(b) => l = Got(n, a + m)
<1> DEFINE c == ByteAt(b, a)
           l == SimpleDecodeLen(b, a + 1, c)
           im == SimpleLen(bd, n)
           m == Len(im)
<1>1. Len(b) \in Nat /\ bd \in 0..251 /\ bd \in Nat /\ bd % 8 = 0 /\ (bd + 1) % 8 = 1
  <2>1. \A x \in Bases : x \in 0..251 /\ x \in Nat /\ x % 8 = 0 /\ (x + 1) % 8 = 1
    BY SMT DEF Bases
  <2> QED
    BY <2>1, LenProperties
<1>2. /\ im \in Seq(Byte)
      /\ n = 0 => m = 1 /\ im[1] = bd
      /\ n # 0 => m = 2 /\ im[1] = bd + 1 /\ im[2] = n
  <2>1. bd \in 0..251
    BY <1>1
  <2>2. \A k \in 0..251 :
          /\ SimpleLen(k, n) \in Seq(Byte)
          /\ n = 0 => Len(SimpleLen(k, n)) = 1 /\ SimpleLen(k, n)[1] = k
          /\ n # 0 => /\ Len(SimpleLen(k, n)) = 2
                      /\ SimpleLen(k, n)[1] = k + 1 /\ SimpleLen(k, n)[2] = n
    BY ShortSimpleLen DEF Short
  <2> QED
    BY <2>1, <2>2, Zenon
<1> HIDE DEF im
<1>3. Starts(b, a, im)
  BY DEF im
<1>4. CASE n = 0
  <2>1. m = 1 /\ im[1] = bd
    BY <1>2, <1>4
  <2>2. c = bd
    BY <1>2, <1>3, <2>1, StartsHead
  <2>3. l = Got(0, a + 1)
    BY <1>1, <2>2 DEF SimpleDecodeLen
  <2>4. ~(a + m > Len(b)) /\ bd \in bd..(bd + 4)
    BY <1>1, <2>1
  <2> QED
    BY <1>4, <2>1, <2>2, <2>3, <2>4 DEF im
<1>5. CASE n # 0
  <2>1. m = 2 /\ im[1] = bd + 1 /\ im[2] = n
    BY <1>2, <1>5
  <2>2. c = bd + 1 /\ c \in bd..(bd + 4)
    <3>1. c = bd + 1
      BY <1>2, <1>3, <2>1, StartsHead
    <3>2. bd + 1 \in bd..(bd + 4)
      BY <1>1
    <3> QED
      BY <3>1, <3>2
  <2> DEFINE r == Readn(b, a + 1, 1)
  <2>3. l = [r EXCEPT !.v = IF r.err THEN -1 ELSE Length(r.v)]
    <3>1. c % 8 = 1 /\ Widths[1] = 1
      BY <1>1, <2>2 DEF Widths
    <3> HIDE DEF c
    <3> QED
      BY <3>1 DEF SimpleDecodeLen
  <2>4. CASE a + m > Len(b)
    <3>1. Past(b, a + 1, 1)
      BY <1>1, <2>1, <2>4 DEF Past
    <3>2. r = Fail(a + 1)
      BY <3>1 DEF Readn
    <3>3. l.err
      BY <2>3, <3>2 DEF Fail
    <3>4. ~(a + m <= Len(b))
      BY <1>1, <2>1, <2>4
    <3> QED
      BY <2>1, <2>2, <3>3, <3>4 DEF im
  <2>5. CASE ~(a + m > Len(b))
    <3>1. ~Past(b, a + 1, 1) /\ a + 2 <= Len(b) /\ a + 1 + 1 = a + 2 /\ a + 2 - 1 = a + 1
      BY <1>1, <2>1, <2>5 DEF Past
    <3>2. ByteAt(b, a + 1) = n
      <4>1. 2 \in 1..m
        BY <2>1
      <4>2. ByteAt(b, a + 2 - 1) = im[2]
        BY <1>2, <1>3, <3>1, <4>1, StartsByte
      <4> QED
        BY <2>1, <3>1, <4>2
    <3>3. r = Got(Widened(n, 1), a + 2)
      BY <3>1, <3>2 DEF Readn
    <3>4. Length(Widened(n, 1)) = n
      <4> DEFINE w == Widened(n, 1)
      <4>1. w[8] = n /\ \A i \in 1..7 : w[i] = 0
        BY DEF Widened
      <4> HIDE DEF w
      <4>2. n \in Nat
        BY DEF Short
      <4>3. Length(w) = n
        BY <4>1, <4>2, LengthOfByte
      <4> QED
        BY <4>3 DEF w
    <3> HIDE DEF r
    <3>5. l = Got(n, a + 2)
      <4>1. r.err = FALSE /\ r.v = Widened(n, 1) /\ r = [v |-> Widened(n, 1), pos |-> a + 2, err |-> FALSE]
        BY <3>3 DEF Got
      <4>2. l = [r EXCEPT !.v = n]
        BY <2>3, <3>4, <4>1
      <4> QED
        BY <4>1, <4>2, Zenon DEF Got
    <3> QED
      BY <2>1, <2>2, <2>5, <3>5 DEF im
  <2> QED
    BY <2>4, <2>5
<1> QED
  BY <1>4, <1>5

(* What it is to read the image im of w, of which b may have a part only. *)
DecodesTo(d, b, a, im, w) ==
  /\ a + Len(im) > Len(b) => d.err
  /\ a + Len(im) <= Len(b) => d = Got(w, a + Len(im))

(* What the stream asks of it: the value need not come out whole. *)
Reads(d, b, a, im, v, whole) ==
  /\ a + Len(im) > Len(b) => d.err
  /\ a + Len(im) <= Len(b) =>
       ~d.err /\ d.pos = a + Len(im) /\ Calls(d.v) = Calls(v) /\ (whole => d.v = v)

LEMMA ReadsGot ==
  ASSUME NEW b, NEW a, NEW im, NEW v, NEW whole, NEW d, NEW w,
         DecodesTo(d, b, a, im, w), Calls(w) = Calls(v), whole => w = v
  PROVE  Reads(d, b, a, im, v, whole)
<1>1. ASSUME a + Len(im) <= Len(b) PROVE ~d.err /\ d.pos = a + Len(im) /\ d.v = w
  <2>1. d = [v |-> w, pos |-> a + Len(im), err |-> FALSE]
    BY <1>1 DEF Got, DecodesTo
  <2> QED
    BY <2>1
<1> QED
  BY <1>1 DEF Reads, DecodesTo

LEMMA SimpleReadsBlob ==
  ASSUME NEW b \in Seq(Byte), NEW a \in Nat, a < Len(b), NEW bd \in Bases, NEW type,
         NEW data \in Seq(Byte), Len(data) < 256, Starts(b, a, SimpleLen(bd, Len(data)) \o data)
  PROVE  LET c == ByteAt(b, a)
         IN  /\ c \in bd..(bd + 4)
             /\ DecodesTo(SimpleDecodeBlob(b, a + 1, c, type), b, a, SimpleLen(bd, Len(data)) \o data, Value(type, data))
<1> DEFINE n == Len(data)
           x == SimpleLen(bd, n)
           c == ByteAt(b, a)
           d == SimpleDecodeBlob(b, a + 1, c, type)
           l == SimpleDecodeLen(b, a + 1, c)
           m == Len(x \o data)
<1>1. n \in Short /\ n \in Nat /\ Len(b) \in Nat /\ bd \in Bases
  <2>1. Len(data) \in Nat /\ Len(b) \in Nat
    BY LenProperties
  <2>2. n \in Short /\ n \in Nat
    BY <2>1, BelowIsShort
  <2> QED
    BY <2>1, <2>2
<1>2. x \in Seq(Byte)
  <2> HIDE DEF n
  <2> QED
    BY <1>1, ShortIsBytes
<1>3. Starts(b, a, x) /\ Starts(b, a + Len(x), data)
  <2> HIDE DEF x
  <2> QED
    BY <1>1, <1>2, StartsConcat DEF x
<1>4. /\ c \in bd..(bd + 4) /\ Len(x) \in {1, 2}
      /\ a + Len(x) > Len(b) => l.err
      /\ a + Len(x) <= Len(b) => l = Got(n, a + Len(x))
  <2> HIDE DEF n
  <2> QED
    BY <1>1, <1>3, SimpleReadsLen, Zenon
<1> HIDE DEF x
<1>5. m = Len(x) + n /\ Len(x) \in Nat
  BY <1>2, <1>4, ConcatProperties
<1>6. d = IF l.err \/ Past(b, l.pos, l.v) THEN Fail(l.pos)
          ELSE Got(Value(type, Span(b, l.pos, l.v)), l.pos + l.v)
  BY DEF SimpleDecodeBlob
<1> HIDE DEF l, d, m, c, n
<1>7. CASE a + Len(x) > Len(b)
  <2>1. d.err
    BY <1>4, <1>6, <1>7, GotAndFail
  <2>2. ~(a + m <= Len(b))
    BY <1>1, <1>5, <1>7
  <2> QED
    BY <1>4, <2>1, <2>2 DEF c, d, m, x, n, DecodesTo
<1>8. CASE ~(a + Len(x) > Len(b))
  <2>1. l = Got(n, a + Len(x))
    BY <1>1, <1>4, <1>5, <1>8
  <2>2. l.err = FALSE /\ l.pos = a + Len(x) /\ l.v = n
    BY <2>1 DEF Got
  <2>3. Past(b, l.pos, l.v) <=> a + m > Len(b)
    BY <1>1, <1>5, <2>2 DEF Past
  <2>4. a + m > Len(b) => d.err
    BY <1>6, <2>3, GotAndFail
  <2>5. ASSUME a + m <= Len(b) PROVE d = Got(Value(type, data), a + m)
    <3>1. a + Len(x) + n <= Len(b) /\ a + Len(x) \in Nat /\ a + Len(x) + n = a + m /\ ~(a + m > Len(b))
      BY <1>1, <1>5, <2>5
    <3>2. BytesAt(b, a + Len(x), n) = data
      BY <1>3, <3>1, StartsBytes DEF n
    <3>3. ~(n < 0)
      BY <1>1
    <3>4. Span(b, a + Len(x), n) = data
      BY <3>2, <3>3 DEF Span
    <3> QED
      BY <1>6, <2>2, <2>3, <3>1, <3>4
  <2> QED
    BY <1>4, <2>4, <2>5 DEF c, d, m, x, n, DecodesTo
<1> QED
  BY <1>7, <1>8

LEMMA SimpleReadsContainer ==
  ASSUME NEW b \in Seq(Byte), NEW a \in Nat, a < Len(b), NEW bd \in Bases, NEW type \in {"ARRAY", "MAP"},
         NEW n \in Short, Starts(b, a, SimpleLen(bd, n))
  PROVE  LET c == ByteAt(b, a)
         IN  /\ c \in bd..(bd + 4)
             /\ DecodesTo(SimpleDecodeContainer(b, a + 1, c, type), b, a, SimpleLen(bd, n), Container(type, n))
<1> DEFINE c == ByteAt(b, a)
           d == SimpleDecodeContainer(b, a + 1, c, type)
           l == SimpleDecodeLen(b, a + 1, c)
           m == Len(SimpleLen(bd, n))
<1>1. /\ c \in bd..(bd + 4)
      /\ a + m > Len(b) => l.err
      /\ a + m <= Len(b) => l = Got(n, a + m)
  BY SimpleReadsLen, Zenon
<1>2. d = IF ~l.err /\ l.v >= 0
          THEN Got(Container(type, l.v), l.pos)
          ELSE IF (l.err /\ type = "ARRAY") \/ ~SimpleStores(b, l.pos)
               THEN Fail(l.pos)
               ELSE Crash(l.pos)
  BY DEF SimpleDecodeContainer
<1> HIDE DEF l, d, m, c
<1>3. a + m > Len(b) => d.err
  <2>1. l.err => d = Fail(l.pos) \/ d = Crash(l.pos)
    BY <1>2, Zenon
  <2>2. Fail(l.pos).err /\ Crash(l.pos).err
    BY DEF Fail, Crash
  <2> QED
    BY <1>1, <2>1, <2>2
<1>4. ASSUME a + m <= Len(b) PROVE d = Got(Container(type, n), a + m)
  <2>1. l.err = FALSE /\ l.pos = a + m /\ l.v = n
    <3>1. l = Got(n, a + m)
      BY <1>1, <1>4
    <3> QED
      BY <3>1 DEF Got
  <2>2. n >= 0
    BY DEF Short
  <2>3. ~l.err /\ l.v >= 0
    BY <2>1, <2>2
  <2>4. d = Got(Container(type, l.v), l.pos)
    BY <1>2, <2>3
  <2> QED
    BY <2>1, <2>4
<1> QED
  BY <1>1, <1>3, <1>4 DEF c, d, m, DecodesTo

LEMMA SimpleReadsExt ==
  ASSUME NEW b \in Seq(Byte), NEW a \in Nat, a < Len(b), NEW bd \in Bases,
         NEW data \in Seq(Byte), Len(data) \in 1..256, Starts(b, a, SimpleLen(bd, Len(data) - 1) \o data)
  PROVE  LET c == ByteAt(b, a)
         IN  /\ c \in bd..(bd + 4)
             /\ DecodesTo(SimpleDecodeExt(b, a + 1, c), b, a, SimpleLen(bd, Len(data) - 1) \o data, Value("EXT", data))
<1> DEFINE n == Len(data) - 1
           x == SimpleLen(bd, n)
           c == ByteAt(b, a)
           d == SimpleDecodeExt(b, a + 1, c)
           l == SimpleDecodeLen(b, a + 1, c)
           m == Len(x \o data)
<1>1. n \in Short /\ n \in Nat /\ Len(b) \in Nat /\ 1 + n = Len(data) /\ Len(data) \in Nat
  <2>1. Len(data) \in Nat /\ Len(b) \in Nat
    BY LenProperties
  <2>2. \A k \in 1..256 : k - 1 \in Nat /\ k - 1 < 256 /\ 1 + (k - 1) = k
    BY SMT
  <2> QED
    BY <2>1, <2>2, BelowIsShort
<1>2. x \in Seq(Byte)
  <2> HIDE DEF n
  <2> QED
    BY <1>1, ShortIsBytes
<1>3. Starts(b, a, x) /\ Starts(b, a + Len(x), data)
  <2> HIDE DEF x
  <2> QED
    BY <1>1, <1>2, StartsConcat DEF x
<1>4. /\ c \in bd..(bd + 4) /\ Len(x) \in {1, 2}
      /\ a + Len(x) > Len(b) => l.err
      /\ a + Len(x) <= Len(b) => l = Got(n, a + Len(x))
  <2> HIDE DEF n
  <2> QED
    BY <1>1, <1>3, SimpleReadsLen, Zenon
<1> HIDE DEF x
<1>5. m = Len(x) + Len(data) /\ Len(x) \in Nat
  BY <1>2, <1>4, ConcatProperties
<1>6. d = IF l.err \/ Past(b, l.pos, 1 + l.v) THEN Fail(l.pos)
          ELSE Got(Value("EXT", IF l.v < 0 THEN Wild ELSE BytesAt(b, l.pos, 1 + l.v)), l.pos + 1 + l.v)
  BY DEF SimpleDecodeExt
<1> HIDE DEF l, d, m, c, n
<1>7. CASE a + Len(x) > Len(b)
  <2>1. d.err
    BY <1>4, <1>6, <1>7, GotAndFail
  <2>2. ~(a + m <= Len(b))
    BY <1>1, <1>5, <1>7
  <2> QED
    BY <1>4, <2>1, <2>2 DEF c, d, m, x, n, DecodesTo
<1>8. CASE ~(a + Len(x) > Len(b))
  <2>1. l = Got(n, a + Len(x))
    BY <1>1, <1>4, <1>5, <1>8
  <2>2. l.err = FALSE /\ l.pos = a + Len(x) /\ l.v = n
    BY <2>1 DEF Got
  <2>3. Past(b, l.pos, 1 + l.v) <=> a + m > Len(b)
    BY <1>1, <1>5, <2>2 DEF Past
  <2>4. a + m > Len(b) => d.err
    BY <1>6, <2>3, GotAndFail
  <2>5. ASSUME a + m <= Len(b) PROVE d = Got(Value("EXT", data), a + m)
    <3>1. /\ a + Len(x) + Len(data) <= Len(b) /\ a + Len(x) \in Nat
          /\ a + Len(x) + 1 + n = a + m /\ ~(a + m > Len(b))
      <4>1. \A i, j, k, z \in Nat : 1 + k = j /\ a + (i + j) <= z =>
              /\ a + i + j <= z /\ a + i \in Nat
              /\ a + i + 1 + k = a + (i + j) /\ ~(a + (i + j) > z)
        OBVIOUS
      <4> QED
        BY <1>1, <1>5, <2>5, <4>1
    <3>2. BytesAt(b, a + Len(x), Len(data)) = data
      BY <1>3, <3>1, StartsBytes
    <3>3. ~(n < 0)
      BY <1>1
    <3> QED
      BY <1>1, <1>6, <2>2, <2>3, <3>1, <3>2, <3>3
  <2> QED
    BY <1>4, <2>4, <2>5 DEF c, d, m, x, n, DecodesTo
<1> QED
  BY <1>7, <1>8

LEMMA SimpleReadsInt ==
  ASSUME NEW b \in Seq(Byte), NEW a \in Nat, a < Len(b), NEW bd \in IntBases, NEW type,
         NEW u \in Uints, Starts(b, a, SimpleUint(bd, u))
  PROVE  LET c == ByteAt(b, a)
             d == SimpleDecodeInt(b, a + 1, c, type)
         IN  /\ c \in bd..(bd + 3)
             /\ \E w : DecodesTo(d, b, a, SimpleUint(bd, u), Value(type, w)) /\ (Fit(u, 1) => w = u)
<1> DEFINE x == <<bd + Code(u)>>
           y == Low(u)
           c == ByteAt(b, a)
           d == SimpleDecodeInt(b, a + 1, c, type)
           m == Len(SimpleUint(bd, u))
           n == Widths[Code(u) + 1]
           r == Readn(b, a + 1, n)
           w == Widened(ByteAt(b, a + 1), n)
<1>1. Len(b) \in Nat /\ Code(u) \in 0..3 /\ n \in {1, 2, 4, 8}
  BY LenProperties DEF Code, Widths
<1>2. y \in Seq(Byte) /\ Len(y) = n
  BY LowOfUint
<1>3. x \in Seq(Byte) /\ Len(x) = 1 /\ x[1] = bd + Code(u)
  <2>1. \A t \in IntBases, k \in 0..3 : t + k \in 0..255
    BY SMT DEF IntBases
  <2>2. bd + Code(u) \in Byte
    BY <1>1, <2>1 DEF Byte
  <2> QED
    BY <2>2
<1> HIDE DEF x, y, n
<1>4. Starts(b, a, x) /\ Starts(b, a + 1, y)
  <2>1. Starts(b, a, x \o y)
    BY DEF SimpleUint, x, y
  <2> QED
    BY <1>1, <1>2, <1>3, <2>1, StartsConcat
<1>5. m = 1 + n
  <2>1. Len(x \o y) = Len(x) + Len(y)
    BY <1>2, <1>3, ConcatProperties
  <2> QED
    BY <1>2, <1>3, <2>1 DEF SimpleUint, x, y
<1>6. c = bd + Code(u)
  BY <1>3, <1>4, StartsHead
<1>7. c \in bd..(bd + 3) /\ (c % 4) + 1 = Code(u) + 1
  <2>1. \A k \in 0..3, t \in IntBases : t + k \in t..(t + 3) /\ (t + k) % 4 = k
    BY SMT DEF IntBases
  <2> QED
    BY <1>1, <1>6, <2>1
<1>8. d = IF r.err THEN r ELSE Got(Value(type, r.v), r.pos)
  <2> HIDE DEF c
  <2> QED
    BY <1>7 DEF SimpleDecodeInt, n
<1>9. /\ a + 1 + n > Len(b) => r = Fail(a + 1)
      /\ ~(a + 1 + n > Len(b)) => r = Got(w, a + 1 + n)
  <2>1. a + 1 \in Nat
    OBVIOUS
  <2> QED
    BY <1>1, <2>1, ReadnIsUint
<1>10. a + m = a + 1 + n /\ a + m \in Nat
  <2>1. \A k \in {1, 2, 4, 8} : a + (1 + k) = a + 1 + k /\ a + (1 + k) \in Nat
    OBVIOUS
  <2> QED
    BY <1>1, <1>5, <2>1
<1>11. ASSUME Fit(u, 1), a + m <= Len(b) PROVE w = u
  <2>1. n = 1 /\ m = 2
    BY <1>5, <1>11 DEF n, Code, Widths
  <2>2. y[1] = u[8]
    <3>1. 1 \in 1..1 /\ 8 - 1 + 1 = 8
      OBVIOUS
    <3>2. \A i \in 1..n : y[i] = u[8 - n + i]
      BY LowOfUint DEF y, n
    <3> QED
      BY <2>1, <3>1, <3>2
  <2>3. ByteAt(b, a + 1) = u[8]
    <3>1. a + 1 < Len(b) /\ a + 1 \in Nat /\ Len(y) >= 1
      BY <1>1, <1>2, <1>11, <2>1
    <3> QED
      BY <1>2, <1>4, <2>2, <3>1, StartsHead
  <2>4. u \in [1..8 -> Byte] /\ \A i \in 1..7 : u[i] = 0
    BY <1>11 DEF Fit, Uints
  <2>5. w = [i \in 1..8 |-> IF i = 8 THEN u[8] ELSE IF i > 8 - 1 /\ u[8] >= 128 THEN 255 ELSE 0]
    BY <2>1, <2>3 DEF Widened
  <2>6. \A i \in 1..8 : i # 8 => i \in 1..7 /\ ~(i > 8 - 1)
    OBVIOUS
  <2>7. \A i \in 1..8 : w[i] = u[i]
    BY <2>4, <2>5, <2>6
  <2> QED
    BY <2>4, <2>5, <2>7
<1> HIDE DEF r, d, m, w
<1>12. ASSUME a + m > Len(b) PROVE d.err
  <2>1. r = Fail(a + 1)
    BY <1>1, <1>9, <1>10, <1>12
  <2> QED
    BY <1>8, <2>1, GotAndFail
<1>13. ASSUME a + m <= Len(b) PROVE d = Got(Value(type, w), a + m)
  <2>1. r = Got(w, a + m)
    BY <1>1, <1>9, <1>10, <1>13
  <2>2. r.err = FALSE /\ r.v = w /\ r.pos = a + m
    BY <2>1 DEF Got
  <2> QED
    BY <1>8, <2>2
<1>14. CASE a + m <= Len(b)
  <2>1. ~(a + m > Len(b))
    BY <1>1, <1>10, <1>14
  <2>2. DecodesTo(d, b, a, SimpleUint(bd, u), Value(type, w))
    BY <1>13, <1>14, <2>1 DEF DecodesTo, m
  <2> QED
    BY <1>7, <1>11, <1>14, <2>2 DEF d, c
<1>15. CASE ~(a + m <= Len(b))
  <2>1. a + m > Len(b) \/ a + m <= Len(b)
    BY <1>1, <1>10
  <2>2. DecodesTo(d, b, a, SimpleUint(bd, u), Value(type, u))
    BY <1>12, <1>15, <2>1 DEF DecodesTo, m
  <2> QED
    BY <1>7, <2>2 DEF d, c
<1> QED
  BY <1>14, <1>15
-----------------------------------------------------------------------------
LEMMA OneByte ==
  ASSUME NEW c \in Byte
  PROVE  <<c>> \in Seq(Byte) /\ Len(<<c>>) = 1 /\ <<c>>[1] = c
  OBVIOUS

LEMMA TwoParts ==
  ASSUME NEW c \in Seq(Byte), NEW d \in Seq(Byte)
  PROVE  c \o d \in Seq(Byte) /\ Len(c \o d) = Len(c) + Len(d)
  BY ConcatProperties

LEMMA TwoBytes ==
  ASSUME NEW c \in Seq(Byte), NEW d \in Seq(Byte), Len(c) = 1, Len(d) = 1
  PROVE  /\ c \o d \in Seq(Byte) /\ Len(c \o d) = 2
         /\ (c \o d)[1] = c[1] /\ (c \o d)[2] = d[1]
<1>1. 1 \in 1..(Len(c) + Len(d)) /\ 2 \in 1..(Len(c) + Len(d)) /\ 1 <= Len(c) /\ ~(2 <= Len(c)) /\ 2 - Len(c) = 1
  OBVIOUS
<1>2. (c \o d)[1] = c[1]
  BY <1>1, ConcatProperties
<1>3. (c \o d)[2] = d[2 - Len(c)]
  BY <1>1, ConcatProperties
<1>4. c \o d \in Seq(Byte) /\ Len(c \o d) = Len(c) + Len(d)
  BY TwoParts
<1> QED
  BY <1>1, <1>2, <1>3, <1>4

LEMMA HeadAndTail ==
  ASSUME NEW d \in Seq(Byte), d # <<>>
  PROVE  <<Head(d)>> \o Tail(d) = d
<1> DEFINE h == <<Head(d)>>
           t == Tail(d)
<1>1. /\ Head(d) \in Byte /\ Head(d) = d[1]
      /\ t \in Seq(Byte) /\ Len(t) = Len(d) - 1
      /\ \A i \in 1..(Len(d) - 1) : t[i] = d[i + 1]
  BY HeadTailProperties
<1>2. h \in Seq(Byte) /\ Len(h) = 1 /\ h[1] = d[1]
  BY <1>1, OneByte
<1>3. Len(d) \in Nat
  BY LenProperties
<1> HIDE DEF h, t
<1>4. /\ h \o t \in Seq(Byte) /\ Len(h \o t) = Len(h) + Len(t)
      /\ \A i \in 1..(Len(h) + Len(t)) : (h \o t)[i] = IF i <= Len(h) THEN h[i] ELSE t[i - Len(h)]
  <2>1. h \in Seq(Byte) /\ t \in Seq(Byte)
    BY <1>1, <1>2
  <2> QED
    BY <2>1, ConcatProperties
<1>5. Len(h) + Len(t) = Len(d)
  BY <1>1, <1>2, <1>3
<1>6. ASSUME NEW i \in 1..Len(d) PROVE (h \o t)[i] = d[i]
  <2>1. CASE i <= 1
    <3>1. i = 1
      BY <1>3, <2>1
    <3> QED
      BY <1>2, <1>4, <1>5, <3>1
  <2>2. CASE ~(i <= 1)
    <3>1. i - 1 \in 1..(Len(d) - 1) /\ (i - 1) + 1 = i
      BY <1>3, <2>2
    <3> QED
      BY <1>1, <1>2, <1>4, <1>5, <2>2, <3>1
  <2> QED
    BY <2>1, <2>2
<1>7. h \o t = d
  BY <1>4, <1>5, <1>6, SeqEqual
<1> QED
  BY <1>7 DEF h, t

LEMMA EmptyFits == Empty \in Slices /\ Fits(Empty)
<1>1. Empty.bytes = <<>> /\ Empty.cap = 0 /\ Empty.over = FALSE
      /\ Empty = [bytes |-> <<>>, cap |-> 0, over |-> FALSE]
  BY DEF Empty
<1>2. <<>> \in Seq(Byte) /\ Len(<<>>) = 0
  BY EmptySeq
<1>3. 0 % Line = 0
  BY LineAssumption
<1> QED
  BY <1>1, <1>2, <1>3 DEF Slices, Fits

LEMMA SimpleImageIsBytes ==
  ASSUME NEW v, IsValue(v)
  PROVE  SimpleImage(v) \in Seq(Byte)
  BY EmptyFits, SimpleEncodeGrows DEF Grew

LEMMA SimpleReadsFloat ==
  ASSUME NEW b \in Seq(Byte), NEW a \in Nat, a < Len(b), NEW bd \in Byte, NEW type,
         NEW data \in Seq(Byte), Starts(b, a, <<bd>> \o data)
  PROVE  LET d == SimpleDecodeFloat(b, a + 1, Len(data), type)
         IN  /\ ByteAt(b, a) = bd
             /\ DecodesTo(d, b, a, <<bd>> \o data, Value(type, NumberOf(data)))
<1> DEFINE x == <<bd>>
           n == Len(data)
           d == SimpleDecodeFloat(b, a + 1, n, type)
           m == Len(x \o data)
<1>1. x \in Seq(Byte) /\ Len(x) = 1 /\ x[1] = bd
  BY OneByte
<1>2. n \in Nat /\ Len(b) \in Nat
  BY LenProperties
<1>3. Starts(b, a, x \o data)
  OBVIOUS
<1> HIDE DEF x
<1>4. Starts(b, a, x) /\ Starts(b, a + 1, data)
  BY <1>1, <1>2, <1>3, StartsConcat
<1>5. ByteAt(b, a) = bd
  <2>1. Len(x) >= 1
    BY <1>1
  <2> QED
    BY <1>1, <1>4, <2>1, StartsHead, Zenon
<1>6. m = 1 + n
  <2>1. Len(x \o data) = Len(x) + Len(data)
    BY <1>1, TwoParts, Zenon
  <2> QED
    BY <1>1, <2>1
<1>7. d = IF Past(b, a + 1, n) THEN Fail(a + 1)
          ELSE Got(Value(type, NumberOf(BytesAt(b, a + 1, n))), a + 1 + n)
  BY DEF SimpleDecodeFloat
<1>8. (Past(b, a + 1, n) <=> a + m > Len(b)) /\ a + 1 + n = a + m
  <2> HIDE DEF n, m
  <2> QED
    BY <1>2, <1>6 DEF Past
<1>9. ASSUME a + m <= Len(b) PROVE BytesAt(b, a + 1, n) = data
  <2>1. a + 1 + n <= Len(b) /\ a + 1 \in Nat
    <3> HIDE DEF n, m
    <3> QED
      BY <1>2, <1>8, <1>9
  <2> QED
    BY <1>4, <2>1, StartsBytes
<1> HIDE DEF d, m, n
<1>10. a + m > Len(b) => d.err
  BY <1>7, <1>8, GotAndFail
<1>11. ASSUME a + m <= Len(b) PROVE d = Got(Value(type, NumberOf(data)), a + m)
  <2>1. a + m \in Nat
    BY <1>2, <1>6
  <2>2. ~Past(b, a + 1, n)
    BY <1>2, <1>8, <1>11, <2>1
  <2> QED
    BY <1>7, <1>8, <1>9, <1>11, <2>2
<1> QED
  BY <1>5, <1>10, <1>11 DEF x, d, m, n, DecodesTo

LEMMA SimpleImages ==
  ASSUME NEW v, IsValue(v)
  PROVE  LET bd == SimpleDesc[v.type]
             im == SimpleImage(v)
         IN  /\ im \in Seq(Byte) /\ Len(im) \in Nat
             /\ v.type = "NIL" => im = <<bd>>
             /\ v.type = "BOOL" =>
                  im = <<SimpleDesc[IF v.data = <<1>> THEN "TRUE" ELSE "FALSE"]>>
             /\ v.type \in Integer => im = SimpleUint(bd, v.data)
             /\ v.type \in Float => im = <<bd>> \o v.data
             /\ v.type \in {"STRING", "BYTES"} => im = SimpleLen(bd, Len(v.data)) \o v.data
             /\ v.type \in {"ARRAY", "MAP"} => im = SimpleLen(bd, v.count)
             /\ v.type = "EXT" /\ Len(v.data) - 1 \in Short =>
                  im = SimpleLen(bd, Len(v.data) - 1) \o v.data
<1> DEFINE bd == SimpleDesc[v.type]
           im == SimpleImage(v)
           n == Len(v.data)
<1>1. im \in Seq(Byte) /\ Len(im) \in Nat
  BY SimpleImageIsBytes, LenProperties
<1>2. /\ v.type = "NIL" => im = <<bd>>
      /\ v.type = "BOOL" => im = <<SimpleDesc[IF v.data = <<1>> THEN "TRUE" ELSE "FALSE"]>>
      /\ v.type \in Integer => im = SimpleUint(bd, v.data)
      /\ v.type \in Float => im = <<bd>> \o v.data
      /\ v.type \in {"STRING", "BYTES"} => im = SimpleLen(bd, Len(v.data)) \o v.data
      /\ v.type \in {"ARRAY", "MAP"} => im = SimpleLen(bd, v.count)
      /\ v.type = "EXT" => im = (SimpleLen(bd, n - 1) \o <<Head(v.data)>>) \o Tail(v.data)
  <2> HIDE DEF bd
  <2> QED
    BY DEF SimpleImage, bd, Integer, Float
<1>3. ASSUME v.type = "EXT", n - 1 \in Short PROVE im = SimpleLen(bd, n - 1) \o v.data
  <2>1. v.data # <<>> /\ v.data \in Seq(Byte) /\ Head(v.data) \in Byte /\ Tail(v.data) \in Seq(Byte)
    BY <1>3, PartsOfValue, PartsOfExt
  <2> DEFINE x == SimpleLen(bd, n - 1)
             h == <<Head(v.data)>>
             t == Tail(v.data)
  <2>2. x \in Seq(Byte)
    <3>1. bd \in Bases
      BY <1>3 DEF SimpleDesc, Bases
    <3> HIDE DEF bd, n
    <3> QED
      BY <1>3, <3>1, ShortIsBytes
  <2>3. h \in Seq(Byte)
    BY <2>1, OneByte
  <2>4. im = (x \o h) \o t
    BY <1>2, <1>3
  <2>5. h \o t = v.data
    BY <2>1, HeadAndTail
  <2> HIDE DEF x, h, t, im
  <2>6. t \in Seq(Byte)
    BY <2>1 DEF t
  <2>7. (x \o h) \o t = x \o (h \o t)
    BY <2>2, <2>3, <2>6, ConcatAssociative
  <2>8. im = x \o v.data
    BY <2>4, <2>5, <2>7
  <2> QED
    BY <2>8 DEF x
<1> HIDE DEF im, bd
<1> QED
  BY <1>1, <1>2, <1>3 DEF im, bd

LEMMA SimpleDescs ==
  /\ \A t \in {"NIL", "FALSE", "TRUE", "FLOAT32", "FLOAT64"} : SimpleDesc[t] \in Byte
  /\ \A t \in Integer : SimpleDesc[t] \in IntBases
  /\ \A t \in {"STRING", "BYTES", "ARRAY", "MAP", "EXT"} : SimpleDesc[t] \in Bases
  BY DEF SimpleDesc, Byte, Integer, IntBases, Bases

(* What the Simple codec can carry, into memory with a type. *)
SimpleCarries(v, mem) ==
  /\ v.type \in Float => AllZero(v.data)
  /\ v.type \in Integer => Fit(v.data, 1)
  /\ v.type = "BYTES" => BytesType(mem) = "BYTES"

LEMMA CallsOfValue ==
  ASSUME NEW v, IsValue(v), NEW data, NEW type, v.type \notin {"ARRAY", "MAP"}, type # "MAP"
  PROVE  Calls(Value(type, data)) = Calls(v)
<1>1. v.count = 0 /\ v.type # "MAP"
  BY DEF IsValue
<1>2. Value(type, data).type = type /\ Value(type, data).count = 0
  BY DEF Value
<1> QED
  BY <1>1, <1>2 DEF Calls

(* What the decoder makes of an encoder's bytes, wherever they begin and the *)
(* input ends (simplecodec.c:66-221): a failure if the image of v is cut;    *)
(* else it stops where the image ends, for as many parts as v has, and what  *)
(* it made is v if SimpleCarries it.  The lengths are those of a byte.       *)
THEOREM SimpleReads ==
  ASSUME NEW b \in Seq(Byte), NEW a \in Nat, a < Len(b), NEW mem \in Types \union {"none"},
         NEW v, IsValue(v), Len(v.data) \in Short, v.count \in Short,
         Starts(b, a, SimpleImage(v))
  PROVE  Reads(SimpleDecode(b, a, mem), b, a, SimpleImage(v), v, SimpleCarries(v, mem))
<1> DEFINE bd == SimpleDesc[v.type]
           n == Len(v.data)
           c == ByteAt(b, a)
           q == a + 1
           d == SimpleDecode(b, a, mem)
           im == SimpleImage(v)
           whole == SimpleCarries(v, mem)
           reads(e, w) == DecodesTo(e, b, a, im, w)
<1>1. v.type \in Types /\ v.data \in Seq(Byte) /\ n \in Nat /\ v.count \in Nat
  BY PartsOfValue
<1>2. Len(b) \in Nat /\ c \in Nat /\ ~(a >= Len(b)) /\ ~(a + 1 > Len(b))
  <2>1. c \in Byte /\ Len(b) \in Nat
    <3>1. 0 \in Nat
      OBVIOUS
    <3> QED
      BY <3>1, BytesAreBytes, LenProperties
  <2> HIDE DEF c
  <2>2. c \in Nat
    BY <2>1 DEF Byte
  <2> QED
    BY <2>1, <2>2
<1>3. /\ v.type \notin {"ARRAY", "MAP"} => v = Value(v.type, v.data)
      /\ v.type \in {"ARRAY", "MAP"} => v = Container(v.type, v.count)
      /\ v.type = "NIL" => v.data = <<>>
      /\ v.type = "BOOL" => v.data \in {<<0>>, <<1>>}
  BY ValueIs
<1>4. /\ im \in Seq(Byte) /\ Len(im) \in Nat
      /\ v.type = "NIL" => im = <<bd>>
      /\ v.type = "BOOL" => im = <<SimpleDesc[IF v.data = <<1>> THEN "TRUE" ELSE "FALSE"]>>
      /\ v.type \in Integer => im = SimpleUint(bd, v.data)
      /\ v.type \in Float => im = <<bd>> \o v.data
      /\ v.type \in {"STRING", "BYTES"} => im = SimpleLen(bd, n) \o v.data
      /\ v.type \in {"ARRAY", "MAP"} => im = SimpleLen(bd, v.count)
      /\ v.type = "EXT" /\ n - 1 \in Short => im = SimpleLen(bd, n - 1) \o v.data
  BY SimpleImages
<1>5. /\ c = SimpleDesc["NIL"] => d = Got(Value("NIL", <<>>), q)
      /\ c = SimpleDesc["FALSE"] => d = Got(Value("BOOL", <<0>>), q)
      /\ c = SimpleDesc["TRUE"] => d = Got(Value("BOOL", <<1>>), q)
      /\ Is(c, "POS_INT", 3) => d = SimpleDecodeInt(b, q, c, "POS_INT")
      /\ Is(c, "NEG_INT", 3) => d = SimpleDecodeInt(b, q, c, "NEG_INT")
      /\ c = SimpleDesc["FLOAT32"] => d = SimpleDecodeFloat(b, q, 4, "FLOAT32")
      /\ c = SimpleDesc["FLOAT64"] => d = SimpleDecodeFloat(b, q, 8, "FLOAT64")
      /\ Is(c, "STRING", 4) => d = SimpleDecodeBlob(b, q, c, "STRING")
      /\ Is(c, "BYTES", 4) => d = SimpleDecodeBlob(b, q, c, BytesType(mem))
      /\ Is(c, "ARRAY", 4) => d = SimpleDecodeContainer(b, q, c, "ARRAY")
      /\ Is(c, "MAP", 4) => d = SimpleDecodeContainer(b, q, c, "MAP")
      /\ Is(c, "EXT", 4) => d = SimpleDecodeExt(b, q, c)
  BY <1>2, SimpleCases, Zenon
<1>6. Starts(b, a, im)
  OBVIOUS
<1>7. ASSUME NEW x \in Byte, im = <<x>> PROVE c = x /\ Len(im) = 1 /\ ~(a + Len(im) > Len(b))
  <2>1. Len(im) = 1 /\ im[1] = x
    BY <1>7
  <2> HIDE DEF im
  <2>2. c = x
    BY <1>4, <1>6, <2>1, StartsHead
  <2> QED
    BY <1>2, <2>1, <2>2
<1> SUFFICES Reads(d, b, a, im, v, whole)
  OBVIOUS
<1> HIDE DEF bd, c, d, im, whole
<1>8. ASSUME NEW w, reads(d, w), Calls(w) = Calls(v), whole => w = v
      PROVE  Reads(d, b, a, im, v, whole)
  BY <1>8, ReadsGot
<1>9. CASE v.type = "NIL"
  <2>1. bd \in Byte /\ bd = SimpleDesc["NIL"]
    BY <1>9, SimpleDescs DEF bd
  <2>2. d = Got(v, a + Len(im)) /\ ~(a + Len(im) > Len(b))
    BY <1>3, <1>4, <1>5, <1>7, <1>9, <2>1
  <2> QED
    BY <1>8, <2>2 DEF DecodesTo
<1>10. CASE v.type = "BOOL"
  <2>1. SimpleDesc["TRUE"] \in Byte /\ SimpleDesc["FALSE"] \in Byte
    BY SimpleDescs
  <2>2. CASE v.data = <<1>>
    <3>1. d = Got(v, a + Len(im)) /\ ~(a + Len(im) > Len(b))
      BY <1>3, <1>4, <1>5, <1>7, <1>10, <2>1, <2>2
    <3> QED
      BY <1>8, <3>1 DEF DecodesTo
  <2>3. CASE v.data # <<1>>
    <3>1. v.data = <<0>>
      BY <1>3, <1>10, <2>3
    <3>2. d = Got(v, a + Len(im)) /\ ~(a + Len(im) > Len(b))
      BY <1>3, <1>4, <1>5, <1>7, <1>10, <2>1, <2>3, <3>1
    <3> QED
      BY <1>8, <3>2 DEF DecodesTo
  <2> QED
    BY <2>2, <2>3
<1>11. CASE v.type \in Integer
  <2> DEFINE e == SimpleDecodeInt(b, q, c, v.type)
  <2>1. im = SimpleUint(bd, v.data) /\ bd \in IntBases /\ v.data \in Uints
    BY <1>4, <1>11, PartsOfValue, SimpleDescs DEF bd
  <2>2. c \in bd..(bd + 3) /\ \E w : reads(e, Value(v.type, w)) /\ (Fit(v.data, 1) => w = v.data)
    <3>1. Starts(b, a, SimpleUint(bd, v.data))
      BY <1>6, <2>1
    <3>2. /\ c \in bd..(bd + 3)
          /\ \E w : DecodesTo(e, b, a, SimpleUint(bd, v.data), Value(v.type, w))
                    /\ (Fit(v.data, 1) => w = v.data)
      BY <2>1, <3>1, SimpleReadsInt, Zenon DEF c
    <3> HIDE DEF e
    <3> QED
      BY <2>1, <3>2
  <2>3. d = e
    <3>1. Is(c, v.type, 3)
      BY <2>2 DEF Is, bd
    <3>2. v.type = "POS_INT" \/ v.type = "NEG_INT"
      BY <1>11 DEF Integer
    <3> QED
      BY <1>5, <3>1, <3>2
  <2> HIDE DEF e
  <2>5. PICK w : reads(d, Value(v.type, w)) /\ (Fit(v.data, 1) => w = v.data)
    BY <2>2, <2>3
  <2>6. Calls(Value(v.type, w)) = Calls(v)
    BY <1>11, CallsOfValue DEF Integer
  <2>7. whole => Value(v.type, w) = v
    BY <1>3, <1>11, <2>5 DEF SimpleCarries, Integer, whole
  <2> QED
    BY <1>8, <2>5, <2>6, <2>7
<1>12. CASE v.type \in Float
  <2> DEFINE e == SimpleDecodeFloat(b, q, n, v.type)
             w == Value(v.type, NumberOf(v.data))
  <2>1. im = <<bd>> \o v.data /\ bd \in Byte
    BY <1>4, <1>12, SimpleDescs DEF Float, bd
  <2>2. c = bd /\ reads(e, w)
    <3>1. Starts(b, a, <<bd>> \o v.data)
      BY <1>6, <2>1
    <3>2. c = bd /\ DecodesTo(e, b, a, <<bd>> \o v.data, w)
      BY <1>1, <2>1, <3>1, SimpleReadsFloat, Zenon DEF c
    <3> HIDE DEF e, w
    <3> QED
      BY <2>1, <3>2
  <2>3. d = e
    <3>1. \/ v.type = "FLOAT32" /\ c = SimpleDesc["FLOAT32"] /\ n = 4
          \/ v.type = "FLOAT64" /\ c = SimpleDesc["FLOAT64"] /\ n = 8
      BY <1>12, <2>2, PartsOfValue DEF Float, bd
    <3> HIDE DEF n
    <3> QED
      BY <1>5, <3>1
  <2>4. Calls(w) = Calls(v)
    BY <1>12, CallsOfValue DEF Float
  <2>5. whole => w = v
    BY <1>3, <1>12 DEF SimpleCarries, Float, NumberOf, whole
  <2> HIDE DEF e, w
  <2> QED
    BY <1>8, <2>2, <2>3, <2>4, <2>5
<1>13. CASE v.type \in {"STRING", "BYTES"}
  <2> DEFINE type == IF v.type = "STRING" THEN "STRING" ELSE BytesType(mem)
             e == SimpleDecodeBlob(b, q, c, type)
             w == Value(type, v.data)
  <2>1. im = SimpleLen(bd, n) \o v.data /\ bd \in Bases /\ n < 256
    <3>1. n < 256
      <4> HIDE DEF n
      <4>1. n \in Short
        BY DEF n
      <4> QED
        BY <4>1 DEF Short
    <3> QED
      BY <1>4, <1>13, <3>1, SimpleDescs DEF bd
  <2>2. c \in bd..(bd + 4) /\ reads(e, w)
    <3> HIDE DEF type
    <3>1. Starts(b, a, SimpleLen(bd, n) \o v.data)
      BY <1>6, <2>1
    <3>2. c \in bd..(bd + 4) /\ DecodesTo(e, b, a, SimpleLen(bd, n) \o v.data, w)
      BY <1>1, <2>1, <3>1, SimpleReadsBlob, Zenon DEF c
    <3> HIDE DEF e, w
    <3> QED
      BY <2>1, <3>2
  <2>3. d = e
    <3>1. Is(c, v.type, 4)
      BY <2>2 DEF Is, bd
    <3> QED
      BY <1>5, <1>13, <3>1
  <2>4. Calls(w) = Calls(v)
    <3>1. w.count = 0 /\ v.count = 0
      BY <1>13, PartsOfValue DEF Value
    <3> QED
      BY <3>1 DEF Calls
  <2>5. whole => w = v
    BY <1>3, <1>13 DEF SimpleCarries, whole
  <2> HIDE DEF e, w
  <2> QED
    BY <1>8, <2>2, <2>3, <2>4, <2>5
<1>14. CASE v.type \in {"ARRAY", "MAP"}
  <2> DEFINE e == SimpleDecodeContainer(b, q, c, v.type)
  <2>1. im = SimpleLen(bd, v.count) /\ bd \in Bases
    BY <1>4, <1>14, SimpleDescs DEF bd
  <2>2. c \in bd..(bd + 4) /\ reads(e, Container(v.type, v.count))
    BY <1>6, <1>14, <2>1, SimpleReadsContainer, Zenon DEF c
  <2>3. d = e
    <3>1. Is(c, v.type, 4)
      BY <2>2 DEF Is, bd
    <3> QED
      BY <1>5, <1>14, <3>1
  <2> HIDE DEF e
  <2> QED
    BY <1>3, <1>8, <1>14, <2>2, <2>3
<1>15. CASE v.type = "EXT"
  <2> DEFINE e == SimpleDecodeExt(b, q, c)
  <2>1. n \in 1..256 /\ n - 1 \in Short
    <3>1. n - 1 \in Nat /\ n \in Short
      BY <1>15, PartsOfExt
    <3>2. \A k \in Short : k - 1 \in Nat => k \in 1..256 /\ k - 1 \in Short
      BY SMT DEF Short
    <3> HIDE DEF n
    <3> QED
      BY <3>1, <3>2
  <2>2. im = SimpleLen(bd, n - 1) \o v.data /\ bd \in Bases
    BY <1>4, <1>15, <2>1, SimpleDescs DEF bd
  <2>3. c \in bd..(bd + 4) /\ reads(e, Value("EXT", v.data))
    BY <1>1, <1>6, <2>1, <2>2, SimpleReadsExt DEF c
  <2>4. d = e
    <3>1. Is(c, v.type, 4)
      BY <2>3 DEF Is, bd
    <3> QED
      BY <1>5, <1>15, <3>1
  <2> HIDE DEF e
  <2> QED
    BY <1>3, <1>8, <1>15, <2>3, <2>4
<1>16. v.type \in {"NIL", "BOOL", "STRING", "BYTES", "ARRAY", "MAP", "EXT"} \union Integer \union Float
  BY <1>1 DEF Types, Integer, Float
<1> QED
  BY <1>9, <1>10, <1>11, <1>12, <1>13, <1>14, <1>15, <1>16
-----------------------------------------------------------------------------
(* The call for each of the descriptors, with vs in its low half. *)
Low4 == 0..15

Dispatched(b, a, mem, vs) ==
  LET c == ByteAt(b, a)
      d == BincDecode(b, a, mem)
      q == a + 1
  IN  /\ c = BincDesc["SPECIAL"] + vs => d = Got(SpecialValue(vs, mem), q)
      /\ c = BincDesc["SMALLINT"] + vs => d = Got(Value("POS_INT", Uint64(vs + 1)), q)
      /\ c = BincDesc["POS_INT"] + vs => d = BincDecodeInt(b, q, vs, "POS_INT")
      /\ c = BincDesc["NEG_INT"] + vs => d = BincDecodeInt(b, q, vs, "NEG_INT")
      /\ c = BincDesc["FLOAT"] + vs => d = BincDecodeFloat(b, q, vs)
      /\ c = BincDesc["STRING"] + vs => d = BincDecodeBlob(b, q, vs, "STRING")
      /\ c = BincDesc["BYTES"] + vs => d = BincDecodeBlob(b, q, vs, "BYTES")
      /\ c = BincDesc["EXT"] + vs => d = BincDecodeExt(b, q, vs)
      /\ c = BincDesc["ARRAY"] + vs => d = BincDecodeContainer(b, q, vs, "ARRAY")
      /\ c = BincDesc["MAP"] + vs => d = BincDecodeContainer(b, q, vs, "MAP")

LEMMA BincCases ==
  ASSUME NEW b, NEW a, NEW mem, NEW vs \in Low4, ~Past(b, a, 1)
  PROVE  Dispatched(b, a, mem, vs)
<1> DEFINE c == ByteAt(b, a)
           d == BincDecode(b, a, mem)
           q == a + 1
           lo == c % 16
           vd == c - lo
<1>1. /\ BincDesc["SPECIAL"] = 0 /\ BincDesc["POS_INT"] = 16 /\ BincDesc["NEG_INT"] = 32
      /\ BincDesc["FLOAT"] = 48 /\ BincDesc["STRING"] = 64 /\ BincDesc["BYTES"] = 80
      /\ BincDesc["ARRAY"] = 96 /\ BincDesc["MAP"] = 112 /\ BincDesc["TIMESTAMP"] = 128
      /\ BincDesc["SMALLINT"] = 144 /\ BincDesc["SYMBOL"] = 176 /\ BincDesc["EXT"] = 240
  BY DEF BincDesc
<1>2. \A x \in {0, 16, 32, 48, 64, 80, 96, 112, 144, 240} : c = x + vs => lo = vs /\ vd = x
  <2>1. \A x \in {0, 16, 32, 48, 64, 80, 96, 112, 144, 240} :
          (x + vs) % 16 = vs /\ (x + vs) - vs = x
    BY SMT DEF Low4
  <2> HIDE DEF c
  <2>2. ASSUME NEW x, c = x + vs PROVE lo = (x + vs) % 16 /\ vd = (x + vs) - ((x + vs) % 16)
    BY <2>2, Zenon
  <2> HIDE DEF lo, vd
  <2>3. ASSUME NEW x \in {0, 16, 32, 48, 64, 80, 96, 112, 144, 240}, c = x + vs
        PROVE  lo = vs /\ vd = x
    <3>1. (x + vs) % 16 = vs /\ (x + vs) - vs = x
      BY <2>1
    <3>2. lo = (x + vs) % 16 /\ vd = (x + vs) - ((x + vs) % 16)
      BY <2>2, <2>3
    <3> QED
      BY <3>1, <3>2, Zenon
  <2> QED
    BY <2>3
<1> DEFINE special(l) == Got(SpecialValue(l, mem), q)
           small(l) == Got(Value("POS_INT", Uint64(l + 1)), q)
           pos(l) == BincDecodeInt(b, q, l, "POS_INT")
           neg(l) == BincDecodeInt(b, q, l, "NEG_INT")
           float(l) == BincDecodeFloat(b, q, l)
           str(l) == BincDecodeBlob(b, q, l, "STRING")
           bytes(l) == BincDecodeBlob(b, q, l, "BYTES")
           ext(l) == BincDecodeExt(b, q, l)
           array(l) == BincDecodeContainer(b, q, l, "ARRAY")
           map(l) == BincDecodeContainer(b, q, l, "MAP")
           none == Fail(q)
           same == Got(Kept(mem), q)
<1> DEFINE Cases(x, l) ==
         d = CASE x = 0 -> special(l)
               [] x = 144 -> small(l)
               [] x = 16 -> pos(l)
               [] x = 32 -> neg(l)
               [] x = 48 -> float(l)
               [] x \in {176, 64} -> str(l)
               [] x = 80 -> bytes(l)
               [] x = 240 -> ext(l)
               [] x = 96 -> array(l)
               [] x = 112 -> map(l)
               [] x = 128 -> none
               [] OTHER -> same
<1>3. Cases(vd, lo)
  BY <1>1, SMTT(60) DEF BincDecode
<1> HIDE DEF c, d, q, special, small, pos, neg, float, str, bytes, ext, array, map, none, same, lo, vd
<1>4. \A x, l :
        Cases(x, l) =>
          /\ x = 0 => d = special(l)
          /\ x = 144 => d = small(l)
          /\ x = 16 => d = pos(l)
          /\ x = 32 => d = neg(l)
          /\ x = 48 => d = float(l)
          /\ x = 64 => d = str(l)
          /\ x = 80 => d = bytes(l)
          /\ x = 240 => d = ext(l)
          /\ x = 96 => d = array(l)
          /\ x = 112 => d = map(l)
  <2> TAKE x, l
  <2> DEFINE e1 == special(l)
             e2 == small(l)
             e3 == pos(l)
             e4 == neg(l)
             e5 == float(l)
             e6 == str(l)
             e7 == bytes(l)
             e8 == ext(l)
             e9 == array(l)
             e10 == map(l)
  <2> HIDE DEF e1, e2, e3, e4, e5, e6, e7, e8, e9, e10
  <2>1. d = (CASE x = 0 -> e1
               [] x = 144 -> e2
               [] x = 16 -> e3
               [] x = 32 -> e4
               [] x = 48 -> e5
               [] x \in {176, 64} -> e6
               [] x = 80 -> e7
               [] x = 240 -> e8
               [] x = 96 -> e9
               [] x = 112 -> e10
               [] x = 128 -> none
               [] OTHER -> same) =>
          /\ x = 0 => d = e1
          /\ x = 144 => d = e2
          /\ x = 16 => d = e3
          /\ x = 32 => d = e4
          /\ x = 48 => d = e5
          /\ x = 64 => d = e6
          /\ x = 80 => d = e7
          /\ x = 240 => d = e8
          /\ x = 96 => d = e9
          /\ x = 112 => d = e10
    OBVIOUS
  <2> QED
    BY <2>1 DEF e1, e2, e3, e4, e5, e6, e7, e8, e9, e10
<1> HIDE DEF Cases
<1>5. /\ c = BincDesc["SPECIAL"] + vs => d = special(vs)
      /\ c = BincDesc["SMALLINT"] + vs => d = small(vs)
      /\ c = BincDesc["POS_INT"] + vs => d = pos(vs)
      /\ c = BincDesc["NEG_INT"] + vs => d = neg(vs)
      /\ c = BincDesc["FLOAT"] + vs => d = float(vs)
      /\ c = BincDesc["STRING"] + vs => d = str(vs)
      /\ c = BincDesc["BYTES"] + vs => d = bytes(vs)
      /\ c = BincDesc["EXT"] + vs => d = ext(vs)
      /\ c = BincDesc["ARRAY"] + vs => d = array(vs)
      /\ c = BincDesc["MAP"] + vs => d = map(vs)
  BY <1>1, <1>2, <1>3, <1>4
<1> QED
  BY <1>5, Zenon DEF Dispatched, c, d, q, special, small, pos, neg, float, str, bytes, ext, array, map
-----------------------------------------------------------------------------
(* The descriptors of Binc that a length follows. *)
BincBases == {64, 80, 96, 112, 240}

LEMMA BincShort ==
  ASSUME NEW n \in Short, NEW bd \in BincBases
  PROVE  LET im == BincLen(bd, n)
         IN  /\ im \in Seq(Byte) /\ Len(im) \in {1, 2}
             /\ n < 12 => im = <<bd + (n + 4)>> /\ n + 4 \in Low4 /\ n + 4 > 3 /\ (n + 4) - 4 = n
             /\ ~(n < 12) => im = <<bd + 0>> \o <<n>>
<1> DEFINE im == BincLen(bd, n)
<1>1. bd + 0 = bd /\ bd \in Byte /\ n \in Byte
  BY SMT DEF BincBases, Byte, Short
<1>2. CASE n < 12
  <2>1. n + 4 \in Low4 /\ n + 4 > 3 /\ (n + 4) - 4 = n /\ bd + n + 4 = bd + (n + 4)
    BY <1>2, SMT DEF BincBases, Low4, Short
  <2>2. bd + (n + 4) \in Byte
    BY <1>2, SMT DEF BincBases, Byte, Short
  <2>3. im = <<bd + n + 4>>
    BY <1>2 DEF BincLen, ShortLen
  <2>4. im = <<bd + (n + 4)>>
    BY <2>1, <2>3
  <2>5. im \in Seq(Byte) /\ Len(im) = 1
    BY <2>2, <2>4, OneByte
  <2> QED
    BY <1>2, <2>1, <2>4, <2>5
<1>3. CASE ~(n < 12)
  <2> DEFINE u == Uint64(n)
  <2>1. u = <<0, 0, 0, 0, 0, 0, 0, n>> /\ Fit(u, 1) /\ u[8] = n
    <3>1. u = <<0, 0, 0, 0, 0, 0, 0, n>> /\ Fit(u, 1)
      BY ShortUint DEF Short
    <3> HIDE DEF u
    <3> QED
      BY <3>1
  <2>2. ~AllZero(u)
    <3>1. n # 0 /\ 8 \in DOMAIN u
      BY <1>3, <2>1 DEF Short
    <3> HIDE DEF u
    <3> QED
      BY <2>1, <3>1 DEF AllZero
  <2>3. BincLen(bd, n) = BincUint(bd, FALSE, u)
    BY <1>3 DEF BincLen, ShortLen
  <2> HIDE DEF u
  <2>4. Fit(u, 2)
    BY <2>1 DEF Fit
  <2>5. BincUint(bd, FALSE, u) = <<bd>> \o <<u[8]>>
    BY <2>1, <2>2, <2>4 DEF BincUint
  <2>6. im = <<bd + 0>> \o <<n>>
    BY <1>1, <2>1, <2>3, <2>5
  <2>7. im \in Seq(Byte) /\ Len(im) = 2
    <3>1. <<bd + 0>> \in Seq(Byte) /\ <<n>> \in Seq(Byte) /\ Len(<<bd + 0>>) = 1 /\ Len(<<n>>) = 1
      BY <1>1
    <3>2. Len(<<bd + 0>> \o <<n>>) = Len(<<bd + 0>>) + Len(<<n>>) /\ <<bd + 0>> \o <<n>> \in Seq(Byte)
      BY <3>1, ConcatProperties
    <3> QED
      BY <2>6, <3>1, <3>2
  <2> QED
    BY <1>3, <2>6, <2>7
<1> QED
  BY <1>2, <1>3

LEMMA BincReadsLen ==
  ASSUME NEW b \in Seq(Byte), NEW a \in Nat, NEW n \in Short, NEW bd \in BincBases,
         Starts(b, a, BincLen(bd, n)), a + Len(BincLen(bd, n)) <= Len(b)
  PROVE  \E vs \in Low4 :
           /\ ByteAt(b, a) = bd + vs
           /\ BincDecodeLen(b, a + 1, vs) = Got(n, a + Len(BincLen(bd, n)))
<1> DEFINE im == BincLen(bd, n)
<1>1. Len(b) \in Nat /\ n \in Byte /\ bd + 0 \in Byte
  BY LenProperties, SMT DEF Short, BincBases, Byte
<1>2. /\ im \in Seq(Byte) /\ Len(im) \in {1, 2}
      /\ n < 12 => im = <<bd + (n + 4)>> /\ n + 4 \in Low4 /\ n + 4 > 3 /\ (n + 4) - 4 = n
      /\ ~(n < 12) => im = <<bd + 0>> \o <<n>>
  BY BincShort, Zenon
<1>3. Starts(b, a, im) /\ a + Len(im) <= Len(b)
  OBVIOUS
<1> HIDE DEF im
<1>4. Len(im) >= 1 /\ a < Len(b)
  <2>1. Len(im) \in {1, 2} /\ Len(b) \in Nat
    BY <1>1, <1>2
  <2>2. a + Len(im) <= Len(b)
    BY <1>3
  <2>3. \A l \in {1, 2}, m \in Nat : a + l <= m => l >= 1 /\ a < m
    OBVIOUS
  <2> QED
    BY <2>1, <2>2, <2>3, Zenon
<1>5. ByteAt(b, a) = im[1]
  BY <1>2, <1>3, <1>4, StartsHead, Zenon
<1>6. CASE n < 12
  <2>1. im[1] = bd + (n + 4) /\ Len(im) = 1
    BY <1>2, <1>6
  <2>2. BincDecodeLen(b, a + 1, n + 4) = Got(n, a + Len(im))
    BY <1>2, <1>6, <2>1 DEF BincDecodeLen
  <2> QED
    BY <1>2, <1>5, <1>6, <2>1, <2>2 DEF im
<1>7. CASE ~(n < 12)
  <2> DEFINE x == <<bd + 0>>
             y == <<n>>
  <2>1. x \in Seq(Byte) /\ y \in Seq(Byte) /\ Len(x) = 1 /\ Len(y) = 1 /\ x[1] = bd + 0 /\ y[1] = n
    BY <1>1
  <2>2. im = x \o y
    BY <1>2, <1>7
  <2> HIDE DEF x, y
  <2>3. Len(x \o y) = 2 /\ (x \o y)[1] = x[1] /\ (x \o y)[2] = y[1]
    BY <2>1, TwoBytes, Zenon
  <2>4. Len(im) = 2 /\ im[1] = bd + 0 /\ im[2] = n
    BY <2>1, <2>2, <2>3
  <2>5. ByteAt(b, a + 1) = n
    <3>1. 2 \in 1..Len(im) /\ a + 2 <= Len(b) /\ a + 2 - 1 = a + 1
      <4>1. a + 2 <= Len(b)
        BY <1>3, <2>4, Zenon
      <4>2. 2 \in 1..2 /\ a + 2 - 1 = a + 1
        OBVIOUS
      <4> QED
        BY <2>4, <4>1, <4>2, Zenon
    <3>2. im \in Seq(Byte) /\ Starts(b, a, im)
      BY <1>2, <1>3
    <3>3. ByteAt(b, a + 2 - 1) = im[2]
      BY <3>1, <3>2, StartsByte, Zenon
    <3> QED
      BY <2>4, <3>1, <3>3, Zenon
  <2> DEFINE r == DecodeUint(b, a + 1, 0)
             w == [i \in 1..8 |-> IF i <= 7 - 0 THEN 0 ELSE ByteAt(b, a + 1 + i - (8 - 0))]
  <2>6. r = Got(w, a + 1 + 0 + 1)
    BY DEF DecodeUint
  <2>7. Length(w) = n
    <3>1. a + 1 + 8 - (8 - 0) = a + 1 /\ ~(8 <= 7 - 0)
      OBVIOUS
    <3>2. w[8] = n /\ \A i \in 1..7 : w[i] = 0
      BY <2>5, <3>1
    <3> HIDE DEF w
    <3>3. n \in Nat
      BY DEF Short
    <3> QED
      BY <3>2, <3>3, LengthOfByte
  <2>8. BincDecodeLen(b, a + 1, 0) = Got(Length(r.v), r.pos)
    <3>1. ~(0 > 3)
      OBVIOUS
    <3> QED
      BY <3>1 DEF BincDecodeLen
  <2> HIDE DEF r, w
  <2>9. r.v = w /\ r.pos = a + Len(im)
    <3>1. a + 1 + 0 + 1 = a + Len(im)
      BY <2>4
    <3> QED
      BY <2>6, <3>1 DEF Got
  <2>10. 0 \in Low4
    BY DEF Low4
  <2> QED
    BY <1>5, <2>4, <2>7, <2>8, <2>9, <2>10 DEF im
<1> QED
  BY <1>6, <1>7

(* The decoder is called for a blob, and makes the data of it. *)
BlobRead(b, a, bd, type, data) ==
  \E vs \in Low4 :
    /\ ByteAt(b, a) = bd + vs
    /\ BincDecodeBlob(b, a + 1, vs, type)
       = Got(Value(type, data), a + Len(BincLen(bd, Len(data)) \o data))

LEMMA BincReadsBlob ==
  ASSUME NEW b \in Seq(Byte), NEW a \in Nat, NEW bd \in BincBases, NEW type,
         NEW data \in Seq(Byte), Len(data) \in Short,
         Starts(b, a, BincLen(bd, Len(data)) \o data),
         a + Len(BincLen(bd, Len(data)) \o data) <= Len(b)
  PROVE  BlobRead(b, a, bd, type, data)
<1> SUFFICES \E vs \in Low4 :
               /\ ByteAt(b, a) = bd + vs
               /\ BincDecodeBlob(b, a + 1, vs, type)
                  = Got(Value(type, data), a + Len(BincLen(bd, Len(data)) \o data))
  BY DEF BlobRead
<1> DEFINE n == Len(data)
           x == BincLen(bd, n)
           m == Len(x \o data)
<1>1. n \in Nat /\ Len(b) \in Nat
  BY LenProperties
<1>2. x \in Seq(Byte) /\ Len(x) \in {1, 2} /\ Len(x) \in Nat
  <2> HIDE DEF n
  <2>1. x \in Seq(Byte) /\ Len(x) \in {1, 2}
    BY BincShort, Zenon DEF n
  <2> QED
    BY <2>1
<1>3. Starts(b, a, x \o data) /\ a + m <= Len(b)
  OBVIOUS
<1> HIDE DEF x
<1>4. m = Len(x) + n /\ Starts(b, a, x) /\ Starts(b, a + Len(x), data)
  BY <1>1, <1>2, <1>3, StartsConcat, ConcatProperties
<1>5. /\ a + Len(x) <= Len(b) /\ a + Len(x) \in Nat /\ a + Len(x) + n = a + m
      /\ a + Len(x) + n <= Len(b)
  <2> HIDE DEF n, m
  <2> QED
    BY <1>1, <1>2, <1>3, <1>4
<1>6. PICK vs \in Low4 : /\ ByteAt(b, a) = bd + vs
                        /\ BincDecodeLen(b, a + 1, vs) = Got(n, a + Len(x))
  <2> HIDE DEF n
  <2>1. n \in Short
    BY DEF n
  <2> QED
    BY <1>4, <1>5, <2>1, BincReadsLen, Zenon DEF x
<1> DEFINE l == BincDecodeLen(b, a + 1, vs)
<1>7. l.v = n /\ l.pos = a + Len(x)
  <2> HIDE DEF n
  <2> QED
    BY <1>6 DEF Got
<1>8. BincDecodeBlob(b, a + 1, vs, type)
      = Got(Value(type, IF Past(b, l.pos, l.v) THEN <<>> ELSE BytesAt(b, l.pos, l.v)), l.pos + l.v)
  BY DEF BincDecodeBlob
<1>9. ~Past(b, a + Len(x), n)
  <2> HIDE DEF n, m
  <2> QED
    BY <1>1, <1>5 DEF Past
<1>10. BytesAt(b, a + Len(x), n) = data
  BY <1>4, <1>5, StartsBytes
<1> HIDE DEF l
<1>11. BincDecodeBlob(b, a + 1, vs, type) = Got(Value(type, data), a + m)
  <2> HIDE DEF n, m
  <2> QED
    BY <1>5, <1>7, <1>8, <1>9, <1>10
<1> QED
  BY <1>6, <1>11 DEF x

ContainerRead(b, a, bd, type, n) ==
  \E vs \in Low4 :
    /\ ByteAt(b, a) = bd + vs
    /\ BincDecodeContainer(b, a + 1, vs, type)
       = Got(Container(type, n), a + Len(BincLen(bd, n)))

LEMMA BincReadsContainer ==
  ASSUME NEW b \in Seq(Byte), NEW a \in Nat, NEW bd \in BincBases, NEW type, NEW n \in Short,
         Starts(b, a, BincLen(bd, n)), a + Len(BincLen(bd, n)) <= Len(b)
  PROVE  ContainerRead(b, a, bd, type, n)
<1> SUFFICES \E vs \in Low4 :
               /\ ByteAt(b, a) = bd + vs
               /\ BincDecodeContainer(b, a + 1, vs, type)
                  = Got(Container(type, n), a + Len(BincLen(bd, n)))
  BY DEF ContainerRead
<1>1. PICK vs \in Low4 : /\ ByteAt(b, a) = bd + vs
                        /\ BincDecodeLen(b, a + 1, vs) = Got(n, a + Len(BincLen(bd, n)))
  BY BincReadsLen, Zenon
<1> DEFINE l == BincDecodeLen(b, a + 1, vs)
<1>2. l.v = n /\ l.pos = a + Len(BincLen(bd, n))
  BY <1>1 DEF Got
<1>3. BincDecodeContainer(b, a + 1, vs, type) = Got(Container(type, l.v), l.pos)
  BY DEF BincDecodeContainer
<1> HIDE DEF l
<1> QED
  BY <1>1, <1>2, <1>3

(* The bytes of an extension are not sent, those of a pointer are. *)
ExtRead(b, a, bd, data, e) ==
  \E vs \in Low4 :
    /\ ByteAt(b, a) = bd + vs
    /\ \E w : /\ BincDecodeExt(b, a + 1, vs)
                 = Got(Value("EXT", w), a + Len(BincLen(bd, Len(data) - 1) \o e))
              /\ Len(data) = 1 => w = data

LEMMA BincReadsExt ==
  ASSUME NEW b \in Seq(Byte), NEW a \in Nat, NEW bd \in BincBases,
         NEW data \in Seq(Byte), data # <<>>, Len(data) - 1 \in Short, NEW e \in Seq(Byte),
         Len(e) = Len(data), e[1] = data[1],
         Starts(b, a, BincLen(bd, Len(data) - 1) \o e),
         a + Len(BincLen(bd, Len(data) - 1) \o e) <= Len(b)
  PROVE  ExtRead(b, a, bd, data, e)
<1> SUFFICES \E vs \in Low4 :
               /\ ByteAt(b, a) = bd + vs
               /\ \E w : /\ BincDecodeExt(b, a + 1, vs)
                            = Got(Value("EXT", w), a + Len(BincLen(bd, Len(data) - 1) \o e))
                         /\ Len(data) = 1 => w = data
  BY DEF ExtRead
<1> DEFINE n == Len(data) - 1
           x == BincLen(bd, n)
           m == Len(x \o e)
<1>1. Len(data) \in Nat /\ Len(b) \in Nat /\ 1 + n = Len(e) /\ 1 + n \in Nat /\ n \in Nat
  <2>1. \A k \in Int : k - 1 \in Short => k \in Nat /\ 1 + (k - 1) = k /\ k - 1 \in Nat
    BY SMT DEF Short
  <2>2. Len(data) \in Int /\ Len(data) \in Nat /\ Len(b) \in Nat
    BY LenProperties
  <2> QED
    BY <2>1, <2>2
<1>2. x \in Seq(Byte) /\ Len(x) \in {1, 2} /\ Len(x) \in Nat
  <2> HIDE DEF n
  <2>1. x \in Seq(Byte) /\ Len(x) \in {1, 2}
    BY BincShort, Zenon DEF n
  <2> QED
    BY <2>1
<1>3. Starts(b, a, x \o e) /\ a + m <= Len(b)
  OBVIOUS
<1> HIDE DEF x
<1>4. m = Len(x) + (1 + n) /\ Starts(b, a, x) /\ Starts(b, a + Len(x), e)
  <2>1. Len(x \o e) = Len(x) + Len(e)
    <3>1. x \in Seq(Byte) /\ e \in Seq(Byte)
      BY <1>2
    <3> QED
      BY <3>1, TwoParts, Zenon
  <2>2. Starts(b, a, x) /\ Starts(b, a + Len(x), e)
    BY <1>1, <1>2, <1>3, StartsConcat
  <2> HIDE DEF n
  <2> QED
    BY <1>1, <2>1, <2>2
<1>5. /\ a + Len(x) <= Len(b) /\ a + Len(x) \in Nat /\ a + Len(x) + 1 + n = a + m
      /\ a + Len(x) + (1 + n) <= Len(b)
  <2> HIDE DEF n, m
  <2> QED
    BY <1>1, <1>2, <1>3, <1>4
<1>6. PICK vs \in Low4 : /\ ByteAt(b, a) = bd + vs
                        /\ BincDecodeLen(b, a + 1, vs) = Got(n, a + Len(x))
  <2> HIDE DEF n
  <2>1. n \in Short
    BY DEF n
  <2> QED
    BY <1>4, <1>5, <2>1, BincReadsLen, Zenon DEF x
<1> DEFINE l == BincDecodeLen(b, a + 1, vs)
<1>7. l.v = n /\ l.pos = a + Len(x)
  <2> HIDE DEF n
  <2> QED
    BY <1>6 DEF Got
<1>8. BincDecodeExt(b, a + 1, vs)
      = Got(Value("EXT", IF Past(b, l.pos, 1 + l.v) THEN <<0>> ELSE BytesAt(b, l.pos, 1 + l.v)),
            l.pos + 1 + l.v)
  BY DEF BincDecodeExt
<1>9. ~Past(b, a + Len(x), 1 + n)
  <2> HIDE DEF n, m
  <2> QED
    BY <1>1, <1>5 DEF Past
<1>10. BytesAt(b, a + Len(x), 1 + n) = e
  <2>1. a + Len(x) + Len(e) <= Len(b)
    BY <1>1, <1>5
  <2>2. BytesAt(b, a + Len(x), Len(e)) = e
    BY <1>4, <1>5, <2>1, StartsBytes
  <2> QED
    BY <1>1, <2>2
<1> HIDE DEF l
<1>11. BincDecodeExt(b, a + 1, vs) = Got(Value("EXT", e), a + m)
  <2> HIDE DEF n, m
  <2> QED
    BY <1>5, <1>7, <1>8, <1>9, <1>10
<1>12. ASSUME Len(data) = 1 PROVE e = data
  <2>1. \A i \in 1..Len(e) : i = 1
    BY <1>12
  <2> QED
    BY <2>1, SeqEqual
<1> QED
  BY <1>6, <1>11, <1>12 DEF x
-----------------------------------------------------------------------------
LEMMA FitOne ==
  ASSUME NEW u \in Uints, NEW w \in Uints, Fit(u, 1), Fit(w, 1), w[8] = u[8]
  PROVE  w = u
<1>1. \A i \in 1..7 : u[i] = 0 /\ w[i] = 0
  BY DEF Fit
<1>2. \A i \in 1..8 : i = 8 \/ i \in 1..7
  OBVIOUS
<1>3. \A i \in 1..8 : w[i] = u[i]
  BY <1>1, <1>2
<1> QED
  BY <1>3 DEF Uints

(* The integer that DecodeUint makes of vs + 1 bytes. *)
UintAt(b, p, vs) == [i \in 1..8 |-> IF i <= 7 - vs THEN 0 ELSE ByteAt(b, p + i - (8 - vs))]

LEMMA UintAtIsUint ==
  ASSUME NEW b \in Seq(Byte), NEW p \in Nat, NEW vs \in 0..7
  PROVE  /\ UintAt(b, p, vs) \in Uints
         /\ DecodeUint(b, p, vs) = Got(UintAt(b, p, vs), p + vs + 1)
         /\ \A i \in 1..(7 - vs) : UintAt(b, p, vs)[i] = 0
         /\ \A j \in 1..(vs + 1) : UintAt(b, p, vs)[7 - vs + j] = ByteAt(b, p + j - 1)
<1>1. 0 \in Byte /\ \A k \in Nat : ByteAt(b, k) \in Byte
  <2>1. 0 \in Nat /\ 0 \in Byte
    BY DEF Byte
  <2> QED
    BY <2>1, BytesAreBytes
<1>2. \A i \in 1..8 : ~(i <= 7 - vs) => p + i - (8 - vs) \in Nat
  OBVIOUS
<1>3. \A i \in 1..8 : (IF i <= 7 - vs THEN 0 ELSE ByteAt(b, p + i - (8 - vs))) \in Byte
  BY <1>1, <1>2
<1>4. UintAt(b, p, vs) \in Uints
  BY <1>3 DEF UintAt, Uints
<1>5. DecodeUint(b, p, vs) = Got(UintAt(b, p, vs), p + vs + 1)
  <2>1. ~(vs > 7)
    OBVIOUS
  <2> QED
    BY <2>1 DEF DecodeUint, UintAt
<1>6. \A i \in 1..(7 - vs) : i \in 1..8 /\ i <= 7 - vs
  OBVIOUS
<1>7. \A j \in 1..(vs + 1) : /\ 7 - vs + j \in 1..8 /\ ~(7 - vs + j <= 7 - vs)
                            /\ p + (7 - vs + j) - (8 - vs) = p + j - 1
  OBVIOUS
<1> QED
  BY <1>4, <1>5, <1>6, <1>7 DEF UintAt

LEMMA BincReadsInt ==
  ASSUME NEW b \in Seq(Byte), NEW a \in Nat, a < Len(b), NEW mem, NEW vs \in 0..7,
         NEW type \in Integer, ByteAt(b, a) = BincDesc[type] + vs
  PROVE  BincDecode(b, a, mem) = Got(Value(type, UintAt(b, a + 1, vs)), a + 1 + vs + 1)
<1> DEFINE d == BincDecode(b, a, mem)
           e == BincDecodeInt(b, a + 1, vs, type)
           r == DecodeUint(b, a + 1, vs)
           w == UintAt(b, a + 1, vs)
<1>1. ~Past(b, a, 1)
  BY LenProperties DEF Past
<1>2. d = e
  <2>1. vs \in Low4
    BY SMT DEF Low4
  <2>2. type = "POS_INT" \/ type = "NEG_INT"
    BY DEF Integer
  <2>5. Dispatched(b, a, mem, vs)
    BY <1>1, <2>1, BincCases, Zenon
  <2>3. CASE type = "POS_INT"
    BY <2>3, <2>5 DEF Dispatched
  <2>4. CASE type = "NEG_INT"
    BY <2>4, <2>5 DEF Dispatched
  <2> QED
    BY <2>2, <2>3, <2>4
<1>3. r = Got(w, a + 1 + vs + 1)
  <2>1. a + 1 \in Nat
    OBVIOUS
  <2> QED
    BY <2>1, UintAtIsUint, Zenon
<1>4. e = IF r.err THEN r ELSE Got(Value(type, r.v), r.pos)
  BY DEF BincDecodeInt
<1> HIDE DEF d, e, r, w
<1>5. r.err = FALSE /\ r.v = w /\ r.pos = a + 1 + vs + 1
  BY <1>3 DEF Got
<1> QED
  BY <1>2, <1>4, <1>5 DEF d, w

(* Is it a negative integer that is not taken for its sign? *)
Negative(u) ==
  /\ ~AllZero(u)
  /\ ~Fit(u, 3) => u[5] < 255 \/ u[6] < 128

TypeOfSign(pos) == IF pos THEN "POS_INT" ELSE "NEG_INT"

(* d is an integer, u if it can be. *)
IntegerRead(d, pos, u, p) ==
  \E t \in Integer : \E w :
    /\ d = Got(Value(t, w), p)
    /\ Fit(u, 4) /\ (~pos => Negative(u)) => t = TypeOfSign(pos) /\ w = u

LEMMA BincSpecial ==
  ASSUME NEW b, NEW a, NEW mem, NEW vs \in Low4, ~Past(b, a, 1),
         ByteAt(b, a) = BincDesc["SPECIAL"] + vs
  PROVE  BincDecode(b, a, mem) = Got(SpecialValue(vs, mem), a + 1)
<1>1. Dispatched(b, a, mem, vs)
  BY BincCases, Zenon
<1> QED
  BY <1>1 DEF Dispatched

LEMMA BincSmall ==
  ASSUME NEW b, NEW a, NEW mem, NEW vs \in Low4, ~Past(b, a, 1),
         ByteAt(b, a) = BincDesc["SMALLINT"] + vs
  PROVE  BincDecode(b, a, mem) = Got(Value("POS_INT", Uint64(vs + 1)), a + 1)
<1>1. Dispatched(b, a, mem, vs)
  BY BincCases, Zenon
<1> QED
  BY <1>1 DEF Dispatched

LEMMA BincReadsZero ==
  ASSUME NEW b \in Seq(Byte), NEW a \in Nat, a < Len(b), NEW mem, NEW pos \in BOOLEAN,
         NEW u \in Uints, AllZero(u), ByteAt(b, a) = Special["ZERO"]
  PROVE  IntegerRead(BincDecode(b, a, mem), pos, u, a + 1)
<1> DEFINE z == Uint64(0)
<1>1. ~Past(b, a, 1)
  BY LenProperties DEF Past
<1>2. Special["ZERO"] = 7 /\ BincDesc["SPECIAL"] = 0 /\ 7 \in Low4 /\ 0 + 7 = 7
  BY DEF Special, BincDesc, Low4
<1>3. BincDecode(b, a, mem) = Got(SpecialValue(7, mem), a + 1)
  <2>1. ByteAt(b, a) = BincDesc["SPECIAL"] + 7
    BY <1>2
  <2> QED
    BY <1>1, <1>2, <2>1, BincSpecial, Zenon
<1>4. SpecialValue(7, mem) = Value("POS_INT", z)
  BY DEF SpecialValue, Special
<1>5. z = u
  <2>1. z \in Uints /\ Fit(z, 1) /\ z[8] = 0
    <3>1. z = <<0, 0, 0, 0, 0, 0, 0, 0>> /\ Fit(z, 1)
      <4>1. 0 \in 0..255
        OBVIOUS
      <4> QED
        BY <4>1, ShortUint
    <3>2. z \in Uints
      BY Uint64IsUint
    <3> HIDE DEF z
    <3> QED
      BY <3>1, <3>2
  <2>2. Fit(u, 1) /\ u[8] = 0
    BY FitMore DEF AllZero, Uints
  <2> HIDE DEF z
  <2> QED
    BY <2>1, <2>2, FitOne
<1>6. "POS_INT" \in Integer
  BY DEF Integer
<1> HIDE DEF z
<1>7. Fit(u, 4) /\ (~pos => Negative(u)) => "POS_INT" = TypeOfSign(pos)
  BY DEF Negative, TypeOfSign
<1> QED
  BY <1>3, <1>4, <1>5, <1>6, <1>7 DEF IntegerRead

LEMMA BincReadsSmall ==
  ASSUME NEW b \in Seq(Byte), NEW a \in Nat, a < Len(b), NEW mem, NEW u \in Uints,
         ~AllZero(u), Fit(u, 1), u[8] <= 16, ByteAt(b, a) = BincDesc["SMALLINT"] + u[8] - 1
  PROVE  IntegerRead(BincDecode(b, a, mem), TRUE, u, a + 1)
<1> DEFINE vs == u[8] - 1
<1>1. ~Past(b, a, 1)
  BY LenProperties DEF Past
<1>2. u[8] \in 0..255 /\ u[8] # 0
  BY FitMore DEF Uints, Byte
<1>3. vs \in Low4 /\ vs + 1 = u[8] /\ ByteAt(b, a) = BincDesc["SMALLINT"] + vs
  <2>1. \A k \in 0..255 : k # 0 /\ k <= 16 =>
          k - 1 \in 0..15 /\ (k - 1) + 1 = k /\ 144 + k - 1 = 144 + (k - 1)
    BY SMT
  <2>2. BincDesc["SMALLINT"] = 144
    BY DEF BincDesc
  <2> QED
    BY <1>2, <2>1, <2>2 DEF Low4
<1> HIDE DEF vs
<1>4. BincDecode(b, a, mem) = Got(Value("POS_INT", Uint64(vs + 1)), a + 1)
  BY <1>1, <1>3, BincSmall, Zenon
<1>5. Uint64(u[8]) = u
  <2> DEFINE z == Uint64(u[8])
  <2>1. z = <<0, 0, 0, 0, 0, 0, 0, u[8]>> /\ Fit(z, 1)
    BY <1>2, ShortUint
  <2>2. z \in Uints
    <3>1. u[8] \in Nat
      <4>1. \A k \in 0..255 : k \in Nat
        BY SMT
      <4> QED
        BY <1>2, <4>1
    <3> QED
      BY <3>1, Uint64IsUint
  <2> HIDE DEF z
  <2>3. z[8] = u[8]
    BY <2>1
  <2>4. z = u
    BY <2>1, <2>2, <2>3, FitOne
  <2> QED
    BY <2>4 DEF z
<1>6. "POS_INT" \in Integer /\ TypeOfSign(TRUE) = "POS_INT"
  BY DEF Integer, TypeOfSign
<1> QED
  BY <1>3, <1>4, <1>5, <1>6 DEF IntegerRead

LEMMA BincReadsByte ==
  ASSUME NEW b \in Seq(Byte), NEW a \in Nat, NEW mem, NEW pos \in BOOLEAN,
         NEW bd \in Byte, bd = BincDesc[TypeOfSign(pos)],
         NEW u \in Uints, Fit(u, 1), Starts(b, a, <<bd>> \o <<u[8]>>), a + 2 <= Len(b)
  PROVE  IntegerRead(BincDecode(b, a, mem), pos, u, a + 2)
<1> DEFINE x == <<bd>>
           y == <<u[8]>>
           type == TypeOfSign(pos)
<1>1. u[8] \in Byte /\ bd + 0 = bd
  BY DEF Uints, Byte
<1>2. x \in Seq(Byte) /\ y \in Seq(Byte) /\ Len(x) = 1 /\ Len(y) = 1 /\ x[1] = bd /\ y[1] = u[8]
  BY <1>1
<1>3. Len(b) \in Nat /\ type \in Integer
  BY LenProperties DEF TypeOfSign, Integer
<1> HIDE DEF x, y, type
<1>4. Starts(b, a, x) /\ Starts(b, a + 1, y)
  <2>1. Starts(b, a, x \o y)
    BY DEF x, y
  <2> QED
    BY <1>2, <1>3, <2>1, StartsConcat
<1>5. /\ a < Len(b) /\ a + 1 < Len(b) /\ a + 1 \in Nat /\ Len(x) >= 1 /\ Len(y) >= 1
      /\ a + 1 + 0 + 1 = a + 2 /\ a + 1 + 1 - 1 = a + 1
  BY <1>2, <1>3
<1>6. ByteAt(b, a) = bd + 0
  BY <1>1, <1>2, <1>4, <1>5, StartsHead, Zenon
<1>7. ByteAt(b, a + 1) = u[8]
  BY <1>2, <1>4, <1>5, StartsHead, Zenon
<1> DEFINE w == UintAt(b, a + 1, 0)
<1>8. BincDecode(b, a, mem) = Got(Value(type, w), a + 2)
  <2>1. 0 \in 0..7 /\ ByteAt(b, a) = BincDesc[type] + 0
    BY <1>6 DEF type
  <2>2. BincDecode(b, a, mem) = Got(Value(type, w), a + 1 + 0 + 1)
    BY <1>3, <1>5, <2>1, BincReadsInt, Zenon
  <2> QED
    BY <1>5, <2>2, Zenon
<1>9. w = u
  <2>1. /\ w \in Uints
        /\ \A i \in 1..(7 - 0) : w[i] = 0
        /\ \A j \in 1..(0 + 1) : w[7 - 0 + j] = ByteAt(b, a + 1 + j - 1)
    <3>1. 0 \in 0..7
      OBVIOUS
    <3> QED
      BY <1>5, <3>1, UintAtIsUint, Zenon
  <2>2. Fit(w, 1)
    <3>1. \A i \in 1..(8 - 1) : i \in 1..(7 - 0)
      OBVIOUS
    <3> HIDE DEF w
    <3> QED
      BY <2>1, <3>1 DEF Fit
  <2>3. w[8] = u[8]
    <3>1. 1 \in 1..(0 + 1) /\ 7 - 0 + 1 = 8
      OBVIOUS
    <3> HIDE DEF w
    <3> QED
      BY <1>5, <1>7, <2>1, <3>1
  <2> HIDE DEF w
  <2> QED
    BY <2>1, <2>2, <2>3, FitOne
<1> HIDE DEF w
<1> QED
  BY <1>3, <1>8, <1>9 DEF IntegerRead, type
-----------------------------------------------------------------------------
(* What is pruned of an integer of four bytes is zero, if it is not the sign *)
(* of a number that is none.                                                 *)
LEMMA PrunedIsZero ==
  ASSUME NEW pos \in BOOLEAN, NEW u \in Uints, Fit(u, 4), ~pos => Negative(u),
         NEW n \in 0..3, Prunable(PruneBuffer(u), n, pos)
  PROVE  \A i \in 1..(4 + n) : u[i] = 0
<1>1. \A i \in 1..4 : u[i] = 0
  BY DEF Fit
<1> DEFINE x == PruneBuffer(u)
<1>2. \A i \in 1..4 : x[i] = u[i + 4]
  BY PruneBufferIsBytes
<1>3. \A i \in 1..n : x[i] = (IF pos THEN 0 ELSE 255) /\ (x[i + 1] < 128 <=> pos)
  BY DEF Prunable
<1> HIDE DEF x
<1>4. CASE pos
  <2>1. \A i \in 1..n : x[i] = 0
    BY <1>3, <1>4
  <2>2. ASSUME NEW i \in 1..(4 + n) PROVE u[i] = 0
    <3>1. CASE i \in 1..4
      BY <1>1, <3>1
    <3>2. CASE i \notin 1..4
      <4>1. i - 4 \in 1..n /\ i - 4 \in 1..4 /\ (i - 4) + 4 = i
        BY <3>2
      <4> QED
        BY <1>2, <2>1, <4>1, Zenon
    <3> QED
      BY <3>1, <3>2
  <2> QED
    BY <2>2
<1>5. CASE ~pos
  <2>1. CASE n = 0
    BY <1>1, <2>1
  <2>2. CASE n # 0
    <3>1. 1 \in 1..n /\ 1 + 1 = 2
      BY <2>2
    <3>2. x[1] = 255 /\ ~(x[2] < 128)
      BY <1>3, <1>5, <3>1
    <3>3. x[1] = u[5] /\ x[2] = u[6]
      BY <1>2
    <3>4. ~Fit(u, 3)
      <4>1. 5 \in 1..(8 - 3) /\ 255 # 0
        OBVIOUS
      <4> QED
        BY <3>2, <3>3, <4>1, Zenon DEF Fit
    <3>5. u[5] < 255 \/ u[6] < 128
      BY <1>5, <3>4 DEF Negative
    <3>6. ~(255 < 255)
      OBVIOUS
    <3> QED
      BY <3>2, <3>3, <3>5, <3>6
  <2> QED
    BY <2>1, <2>2
<1> QED
  BY <1>4, <1>5

LEMMA PruneSizes ==
  ASSUME NEW h \in {16, 32}, NEW k \in {4, 8}, NEW j \in 0..(k - 1)
  PROVE  /\ j \in Nat /\ k \in Nat /\ k - 1 - j \in 0..7
         /\ h + k - 1 - j = h + (k - 1 - j) /\ h + (k - 1 - j) \in Byte
         /\ k - j = (k - 1 - j) + 1
  BY DEF Byte

LEMMA BincReadsPruned ==
  ASSUME NEW b \in Seq(Byte), NEW a \in Nat, NEW mem, NEW pos \in BOOLEAN,
         NEW bd \in {16, 32}, bd = BincDesc[TypeOfSign(pos)], NEW u \in Uints,
         Starts(b, a, PrunedImage(bd, pos, u)), a + Len(PrunedImage(bd, pos, u)) <= Len(b)
  PROVE  IntegerRead(BincDecode(b, a, mem), pos, u, a + Len(PrunedImage(bd, pos, u)))
<1> DEFINE x == PruneBuffer(u)
           n == Pruned(x, pos)
           len == Len(x)
           vs == len - 1 - n
           c == <<bd + len - 1 - n>>
           y == SubSeq(x, n + 1, len)
           im == PrunedImage(bd, pos, u)
           type == TypeOfSign(pos)
           w == UintAt(b, a + 1, vs)
<1>1. /\ x \in Seq(Byte) /\ len \in {4, 8} /\ (Fit(u, 4) => len = 4)
      /\ \A i \in 1..4 : x[i] = u[i + 4]
  BY PruneBufferIsBytes
<1>2. im = c \o y
  BY DEF PrunedImage
<1>3. Len(b) \in Nat /\ type \in Integer
  BY LenProperties DEF TypeOfSign, Integer
<1> HIDE DEF x
<1>4. n \in 0..(len - 1) /\ Prunable(x, n, pos)
  BY <1>1, PrunedStops
<1>5. /\ n \in Nat /\ len \in Nat /\ vs \in 0..7 /\ bd + len - 1 - n = bd + vs /\ bd + vs \in Byte
      /\ len - n = vs + 1
  <2>1. bd \in {16, 32} /\ len \in {4, 8} /\ n \in 0..(len - 1)
    BY <1>1, <1>4
  <2> HIDE DEF n, len
  <2> QED
    BY <2>1, PruneSizes, Zenon DEF vs
<1>6. c \in Seq(Byte) /\ Len(c) = 1 /\ c[1] = bd + vs
  <2>1. bd + len - 1 - n \in Byte
    BY <1>5, Zenon
  <2> QED
    BY <1>5, <2>1, OneByte
<1>7. y \in Seq(Byte) /\ Len(y) = vs + 1 /\ \A j \in 1..(vs + 1) : y[j] = x[n + j]
  <2> DEFINE k == n
             l == len
  <2>1. k \in Nat /\ l \in Nat /\ k + 1 <= l /\ l - (k + 1) + 1 = vs + 1 /\ k + 1 \in Int /\ l \in Int
    <3> HIDE DEF n, len
    <3>1. \A i, j \in Nat : i \in 0..(j - 1) =>
            /\ i + 1 <= j /\ j - (i + 1) + 1 = (j - 1 - i) + 1
            /\ i + 1 \in Int /\ j \in Int
      OBVIOUS
    <3> QED
      BY <1>4, <1>5, <3>1
  <2>2. \A i \in (k + 1)..l : x[i] \in Byte
    <3>1. \A i \in (k + 1)..l : i \in 1..Len(x)
      <4> HIDE DEF n
      <4> QED
        BY <2>1
    <3> QED
      BY <1>1, <3>1, ElementOfSeq
  <2> HIDE DEF k, l
  <2>3. /\ SubSeq(x, k + 1, l) \in Seq(Byte)
        /\ Len(SubSeq(x, k + 1, l)) = IF k + 1 <= l THEN l - (k + 1) + 1 ELSE 0
        /\ \A i \in 1..(l - (k + 1) + 1) : SubSeq(x, k + 1, l)[i] = x[(k + 1) + i - 1]
    BY <2>1, <2>2, SubSeqProperties
  <2>4. \A i \in 1..(vs + 1) : (k + 1) + i - 1 = k + i
    BY <2>1
  <2> QED
    BY <2>1, <2>3, <2>4 DEF k, l
<1> HIDE DEF c, y, n, len, im, vs, w, type
<1>8. Len(im) = 1 + (vs + 1) /\ a + Len(im) <= Len(b)
  <2>1. Len(c \o y) = Len(c) + Len(y)
    <3>1. c \in Seq(Byte) /\ y \in Seq(Byte)
      BY <1>6, <1>7
    <3> QED
      BY <3>1, ConcatProperties
  <2>2. a + Len(im) <= Len(b)
    BY DEF im
  <2> QED
    BY <1>2, <1>6, <1>7, <2>1, <2>2
<1>9. Starts(b, a, c) /\ Starts(b, a + 1, y)
  <2>1. Starts(b, a, c \o y)
    BY <1>2 DEF im
  <2> QED
    BY <1>3, <1>6, <1>7, <2>1, StartsConcat
<1>10. /\ a < Len(b) /\ a + 1 \in Nat /\ a + 1 + vs + 1 = a + Len(im)
       /\ \A j \in 1..(vs + 1) : a + 1 + j <= Len(b)
  BY <1>3, <1>5, <1>8
<1>11. ByteAt(b, a) = bd + vs
  <2>1. Len(c) >= 1
    BY <1>6
  <2> QED
    BY <1>6, <1>9, <1>10, <2>1, StartsHead, Zenon
<1>12. BincDecode(b, a, mem) = Got(Value(type, w), a + Len(im))
  <2>1. ByteAt(b, a) = BincDesc[type] + vs
    BY <1>11 DEF type
  <2>2. BincDecode(b, a, mem) = Got(Value(type, w), a + 1 + vs + 1)
    BY <1>3, <1>5, <1>10, <2>1, BincReadsInt, Zenon DEF w
  <2> QED
    BY <1>10, <2>2, Zenon
<1>13. ASSUME Fit(u, 4), ~pos => Negative(u) PROVE w = u
  <2>1. len = 4 /\ n \in 0..3 /\ vs = 3 - n
    <3>1. len = 4
      BY <1>1, <1>13 DEF len
    <3> QED
      BY <1>4, <1>5, <3>1 DEF vs
  <2>2. \A i \in 1..(4 + n) : u[i] = 0
    BY <1>4, <1>13, <2>1, PrunedIsZero DEF x
  <2>3. /\ w \in Uints
        /\ \A i \in 1..(7 - vs) : w[i] = 0
        /\ \A j \in 1..(vs + 1) : w[7 - vs + j] = ByteAt(b, a + 1 + j - 1)
    BY <1>5, <1>10, UintAtIsUint, Zenon DEF w
  <2>4. ASSUME NEW j \in 1..(vs + 1) PROVE w[4 + n + j] = u[4 + n + j]
    <3>1. ByteAt(b, a + 1 + j - 1) = y[j]
      <4>1. j \in 1..Len(y) /\ a + 1 + j <= Len(b)
        BY <1>7, <1>10
      <4> QED
        BY <1>7, <1>9, <1>10, <4>1, StartsByte, Zenon
    <3>2. 7 - vs + j = 4 + n + j /\ n + j \in 1..4 /\ (n + j) + 4 = 4 + n + j
      BY <2>1
    <3>3. y[j] = u[(n + j) + 4]
      BY <1>1, <1>7, <3>2, Zenon
    <3> QED
      BY <2>3, <3>1, <3>2, <3>3, Zenon
  <2>5. \A i \in 1..8 : i \in 1..(4 + n) \/ (i - (4 + n) \in 1..(vs + 1) /\ 4 + n + (i - (4 + n)) = i)
    BY <2>1
  <2>6. 7 - vs = 4 + n
    BY <2>1
  <2>7. \A i \in 1..8 : w[i] = u[i]
    BY <2>2, <2>3, <2>4, <2>5, <2>6, Zenon
  <2> QED
    BY <2>3, <2>7 DEF Uints
<1>14. IntegerRead(BincDecode(b, a, mem), pos, u, a + Len(im))
  BY <1>3, <1>12, <1>13 DEF IntegerRead, type
<1> QED
  BY <1>14 DEF im

LEMMA BincReadsUint ==
  ASSUME NEW b \in Seq(Byte), NEW a \in Nat, NEW mem, NEW pos \in BOOLEAN, NEW u \in Uints,
         Fit(u, 1) \/ ~Fit(u, 2),
         NEW bd, bd = BincDesc[TypeOfSign(pos)],
         Starts(b, a, BincUint(bd, pos, u)), a + Len(BincUint(bd, pos, u)) <= Len(b)
  PROVE  IntegerRead(BincDecode(b, a, mem), pos, u, a + Len(BincUint(bd, pos, u)))
<1> DEFINE im == BincUint(bd, pos, u)
<1>1. bd \in {16, 32} /\ bd \in Byte /\ Len(b) \in Nat
  BY LenProperties DEF BincDesc, TypeOfSign, Byte
<1>2. u[8] \in 0..255 /\ u[8] \in Byte
  BY DEF Uints, Byte
<1>3. ASSUME NEW x \in Byte, im = <<x>> PROVE ByteAt(b, a) = x /\ Len(im) = 1 /\ a < Len(b)
  <2>1. im \in Seq(Byte) /\ Len(im) = 1 /\ im[1] = x /\ Len(im) >= 1
    BY <1>3
  <2>2. Starts(b, a, im) /\ a + Len(im) <= Len(b)
    OBVIOUS
  <2> HIDE DEF im
  <2>3. a < Len(b)
    BY <1>1, <2>1, <2>2
  <2> QED
    BY <2>1, <2>2, <2>3, StartsHead, Zenon
<1>4. CASE AllZero(u)
  <2>1. im = <<Special["ZERO"]>> /\ Special["ZERO"] \in Byte
    BY <1>4, FitMore DEF BincUint, Special, Byte
  <2> HIDE DEF im
  <2>2. ByteAt(b, a) = Special["ZERO"] /\ Len(im) = 1 /\ a < Len(b)
    BY <1>3, <2>1
  <2>3. IntegerRead(BincDecode(b, a, mem), pos, u, a + 1)
    BY <1>4, <2>2, BincReadsZero
  <2> QED
    BY <2>2, <2>3 DEF im
<1>5. CASE ~AllZero(u) /\ pos /\ Fit(u, 1) /\ u[8] <= 16
  <2> DEFINE x == BincDesc["SMALLINT"] + u[8] - 1
  <2>1. im = <<x>>
    BY <1>5, FitMore DEF BincUint
  <2>2. x \in Byte
    <3>1. u[8] # 0
      BY <1>5, FitMore
    <3>2. BincDesc["SMALLINT"] = 144
      BY DEF BincDesc
    <3>3. \A k \in 0..255 : k # 0 /\ k <= 16 => 144 + k - 1 \in 0..255
      BY SMT
    <3> QED
      BY <1>2, <1>5, <3>1, <3>2, <3>3 DEF Byte
  <2> HIDE DEF im, x
  <2>3. ByteAt(b, a) = x /\ Len(im) = 1 /\ a < Len(b)
    BY <1>3, <2>1, <2>2
  <2>4. IntegerRead(BincDecode(b, a, mem), TRUE, u, a + 1)
    BY <1>5, <2>3, BincReadsSmall DEF x
  <2>5. pos = TRUE
    BY <1>5
  <2> QED
    BY <2>3, <2>4, <2>5 DEF im
<1>6. CASE ~AllZero(u) /\ ~(pos /\ u[8] <= 16) /\ Fit(u, 1)
  <2>1. im = <<bd>> \o <<u[8]>>
    BY <1>6, FitMore DEF BincUint
  <2>2. Starts(b, a, im) /\ a + Len(im) <= Len(b)
    OBVIOUS
  <2>3. Len(im) = 2
    <3>1. Len(<<bd>> \o <<u[8]>>) = Len(<<bd>>) + Len(<<u[8]>>)
      BY <1>1, <1>2, OneByte, ConcatProperties
    <3> HIDE DEF im
    <3> QED
      BY <1>1, <1>2, <2>1, <3>1, OneByte
  <2> HIDE DEF im
  <2>4. Starts(b, a, <<bd>> \o <<u[8]>>) /\ a + 2 <= Len(b)
    BY <2>1, <2>2, <2>3
  <2>5. IntegerRead(BincDecode(b, a, mem), pos, u, a + 2)
    BY <1>1, <1>6, <2>4, BincReadsByte, Zenon
  <2> QED
    BY <2>3, <2>5 DEF im
<1>7. CASE ~Fit(u, 2)
  <2>1. ~Fit(u, 1) /\ ~AllZero(u)
    BY <1>7, FitMore
  <2>2. im = PrunedImage(bd, pos, u)
    BY <1>7, <2>1 DEF BincUint
  <2> QED
    BY <1>1, <2>2, BincReadsPruned
<1> QED
  BY <1>2, <1>4, <1>5, <1>6, <1>7
-----------------------------------------------------------------------------
LEMMA ZeroDouble ==
  ASSUME NEW data \in Seq(Byte), Len(data) = 8, AllZero(data)
  PROVE  IsZero(data) /\ data = <<0, 0, 0, 0, 0, 0, 0, 0>>
<1>1. DOMAIN data = 1..8 /\ \A i \in 1..8 : data[i] = 0
  BY DEF AllZero
<1>2. data = <<0, 0, 0, 0, 0, 0, 0, 0>>
  BY <1>1
<1>3. Last(data) = 0
  BY <1>1 DEF Last
<1>4. Front(data) = SubSeq(data, 1, 7)
  <2>1. Len(data) - 1 = 7
    OBVIOUS
  <2> QED
    BY <2>1 DEF Front
<1>5. AllZero(SubSeq(data, 1, 7))
  <2>1. 7 \in 0..Len(data)
    OBVIOUS
  <2>2. Len(SubSeq(data, 1, 7)) = 7 /\ \A i \in 1..7 : SubSeq(data, 1, 7)[i] = data[i]
    BY <2>1, PrefixOf
  <2>3. DOMAIN SubSeq(data, 1, 7) = 1..7 /\ \A i \in 1..7 : i \in 1..8
    BY <2>1, <2>2, PrefixOf, LenProperties
  <2> QED
    BY <1>1, <2>2, <2>3 DEF AllZero
<1> QED
  BY <1>2, <1>3, <1>4, <1>5 DEF IsZero

LEMMA BincFloat ==
  ASSUME NEW b, NEW a, NEW mem, NEW vs \in Low4, ~Past(b, a, 1),
         ByteAt(b, a) = BincDesc["FLOAT"] + vs
  PROVE  BincDecode(b, a, mem) = BincDecodeFloat(b, a + 1, vs)
<1>1. Dispatched(b, a, mem, vs)
  BY BincCases, Zenon
<1> QED
  BY <1>1 DEF Dispatched

(* How long the image of a float is, and what is in it. *)
LEMMA FloatImages ==
  ASSUME NEW data \in Seq(Byte), Len(data) \in {4, 8}, NEW k \in 1..8, ~IsZero(data)
  PROVE  /\ k <= 6 => \E y \in Seq(Byte) : /\ FloatImage(data, k) = (<<58>> \o <<k>>) \o y
                                           /\ Len(y) = k
         /\ ~(k <= 6) => \E y \in Seq(Byte) : FloatImage(data, k) = <<50>> \o y /\ Len(y) = 8
<1>1. Double(data) \in Seq(Byte) /\ Len(Double(data)) = 8
  BY DoubleIsBytes
<1>2. BincDesc["FLOAT"] + 10 = 58 /\ BincDesc["FLOAT"] + 2 = 50
  BY DEF BincDesc
<1>3. ASSUME k <= 6
      PROVE  \E y \in Seq(Byte) : FloatImage(data, k) = (<<58>> \o <<k>>) \o y /\ Len(y) = k
  <2> DEFINE y == SubSeq(Double(data), 1, k)
  <2>1. k \in 0..Len(Double(data))
    BY <1>1
  <2>2. y \in Seq(Byte) /\ Len(y) = k
    BY <1>1, <2>1, PrefixOf
  <2>3. FloatImage(data, k) = (<<BincDesc["FLOAT"] + 10>> \o <<k>>) \o SubSeq(Double(data), 1, k)
    <3>1. ~(k > 6)
      BY <1>3
    <3> QED
      BY <1>3, <3>1, Zenon DEF FloatImage
  <2>4. FloatImage(data, k) = (<<58>> \o <<k>>) \o y
    BY <1>2, <2>3, Zenon
  <2> QED
    BY <2>2, <2>4
<1>4. ASSUME ~(k <= 6)
      PROVE  \E y \in Seq(Byte) : FloatImage(data, k) = <<50>> \o y /\ Len(y) = 8
  <2>1. FloatImage(data, k) = <<50>> \o Double(data)
    BY <1>2, <1>4 DEF FloatImage
  <2> QED
    BY <1>1, <2>1
<1> QED
  BY <1>3, <1>4

FloatRead(d, data, p) ==
  \E w : d = Got(Value("FLOAT64", w), p) /\ (Len(data) = 8 /\ AllZero(data) => w = data)

LEMMA BincReadsFloat ==
  ASSUME NEW b \in Seq(Byte), NEW a \in Nat, NEW mem, NEW data \in Seq(Byte), Len(data) \in {4, 8},
         NEW k \in 1..8, Starts(b, a, FloatImage(data, k)), a + Len(FloatImage(data, k)) <= Len(b)
  PROVE  FloatRead(BincDecode(b, a, mem), data, a + Len(FloatImage(data, k)))
<1> DEFINE im == FloatImage(data, k)
<1>1. Len(b) \in Nat
  BY LenProperties
<1>2. Starts(b, a, im) /\ a + Len(im) <= Len(b)
  OBVIOUS
<1>3. CASE IsZero(data)
  <2>1. im = <<6>> /\ 6 \in Byte /\ 6 \in Low4
    BY <1>3 DEF FloatImage, Special, Byte, Low4
  <2> HIDE DEF im
  <2>2. im \in Seq(Byte) /\ Len(im) = 1 /\ im[1] = 6
    BY <2>1, OneByte
  <2>3. Len(im) >= 1 /\ a < Len(b) /\ ~Past(b, a, 1)
    BY <1>1, <1>2, <2>2 DEF Past
  <2>4. ByteAt(b, a) = 6
    BY <1>2, <2>2, <2>3, StartsHead, Zenon
  <2>5. ByteAt(b, a) = BincDesc["SPECIAL"] + 6
    BY <2>4 DEF BincDesc
  <2>6. BincDecode(b, a, mem) = Got(SpecialValue(6, mem), a + 1)
    BY <2>1, <2>3, <2>5, BincSpecial
  <2>7. SpecialValue(6, mem) = Value("FLOAT64", <<0, 0, 0, 0, 0, 0, 0, 0>>)
    BY DEF SpecialValue, Special
  <2>8. BincDecode(b, a, mem) = Got(Value("FLOAT64", <<0, 0, 0, 0, 0, 0, 0, 0>>), a + Len(im))
    BY <2>2, <2>6, <2>7
  <2>9. Len(data) = 8 /\ AllZero(data) => <<0, 0, 0, 0, 0, 0, 0, 0>> = data
    BY ZeroDouble
  <2> QED
    BY <2>8, <2>9 DEF im, FloatRead
<1>4. ~IsZero(data) => ~(Len(data) = 8 /\ AllZero(data))
  BY ZeroDouble
<1>5. CASE ~IsZero(data) /\ k <= 6
  <2>1. PICK y \in Seq(Byte) : im = (<<58>> \o <<k>>) \o y /\ Len(y) = k
    BY <1>5, FloatImages
  <2> HIDE DEF im
  <2>2. 58 \in Byte /\ k \in Byte /\ 10 \in Low4 /\ k \in Nat /\ k <= 8
    BY DEF Byte, Low4
  <2>3. <<58>> \in Seq(Byte) /\ <<k>> \in Seq(Byte) /\ Len(<<58>>) = 1 /\ Len(<<k>>) = 1
        /\ <<58>>[1] = 58 /\ <<k>>[1] = k
    BY <2>2, OneByte
  <2> DEFINE c == <<58>>
             e == <<k>>
             f == c \o e
  <2>4. f \in Seq(Byte) /\ Len(f) = 2
    <3>1. c \in Seq(Byte) /\ e \in Seq(Byte) /\ Len(c) = 1 /\ Len(e) = 1
      BY <2>3
    <3>2. Len(c) + Len(e) = 2
      BY <3>1
    <3> HIDE DEF c, e
    <3>3. c \o e \in Seq(Byte) /\ Len(c \o e) = Len(c) + Len(e)
      BY <3>1, TwoParts, Zenon
    <3> QED
      BY <3>2, <3>3
  <2>5. Len(im) = 2 + k
    <3> HIDE DEF f
    <3> QED
      BY <2>1, <2>4, TwoParts DEF f
  <2>6. Starts(b, a, f)
    <3>1. Starts(b, a, f \o y)
      BY <1>2, <2>1
    <3> HIDE DEF f
    <3> QED
      BY <1>1, <2>4, <3>1, StartsConcat
  <2>7. Starts(b, a, c) /\ Starts(b, a + 1, e)
    <3>1. c \in Seq(Byte) /\ e \in Seq(Byte) /\ Len(c) = 1 /\ Starts(b, a, c \o e)
      BY <2>3, <2>6
    <3> HIDE DEF c, e
    <3> QED
      BY <1>1, <3>1, StartsConcat
  <2>8. a < Len(b) /\ a + 1 < Len(b) /\ a + 1 \in Nat /\ ~Past(b, a, 1) /\ a + 1 + 1 + k = a + Len(im)
    BY <1>1, <1>2, <2>2, <2>5 DEF Past
  <2>9. Len(c) >= 1 /\ Len(e) >= 1
    BY <2>3
  <2>10. ByteAt(b, a) = 58 /\ ByteAt(b, a + 1) = k
    <3>1. c \in Seq(Byte) /\ e \in Seq(Byte) /\ c[1] = 58 /\ e[1] = k
      BY <2>3
    <3> HIDE DEF c, e
    <3>2. ByteAt(b, a) = c[1]
      BY <2>7, <2>8, <2>9, <3>1, StartsHead, Zenon
    <3>3. ByteAt(b, a + 1) = e[1]
      <4>1. a + 1 \in Nat /\ a + 1 < Len(b) /\ Starts(b, a + 1, e) /\ Len(e) >= 1 /\ e \in Seq(Byte)
        BY <2>7, <2>8, <2>9, <3>1, Zenon
      <4>2. ASSUME NEW p \in Nat, p < Len(b), Starts(b, p, e) PROVE ByteAt(b, p) = e[1]
        BY <4>1, <4>2, StartsHead, Zenon
      <4> QED
        BY <4>1, <4>2, Zenon
    <3> QED
      BY <3>1, <3>2, <3>3
  <2>11. ByteAt(b, a) = BincDesc["FLOAT"] + 10
    BY <2>10 DEF BincDesc
  <2>12. BincDecode(b, a, mem) = BincDecodeFloat(b, a + 1, 10)
    BY <2>2, <2>8, <2>11, BincFloat
  <2>13. BincDecodeFloat(b, a + 1, 10) = Got(Value("FLOAT64", DoubleAt(b, a + 1 + 1, k)), a + 1 + 1 + k)
    <3>1. 10 >= 8 /\ 10 % 8 = 2 /\ ~(k > 8)
      BY <2>2
    <3> QED
      BY <2>10, <3>1 DEF BincDecodeFloat
  <2>14. BincDecode(b, a, mem) = Got(Value("FLOAT64", DoubleAt(b, a + 1 + 1, k)), a + Len(im))
    BY <2>8, <2>12, <2>13, Zenon
  <2> QED
    BY <1>4, <1>5, <2>14 DEF im, FloatRead
<1>6. CASE ~IsZero(data) /\ ~(k <= 6)
  <2>1. PICK y \in Seq(Byte) : im = <<50>> \o y /\ Len(y) = 8
    BY <1>6, FloatImages
  <2> HIDE DEF im
  <2>2. 50 \in Byte /\ 2 \in Low4
    BY DEF Byte, Low4
  <2> DEFINE c == <<50>>
  <2>3. c \in Seq(Byte) /\ Len(c) = 1 /\ c[1] = 50 /\ im = c \o y
    BY <2>1, <2>2, OneByte
  <2> HIDE DEF c
  <2>4. Len(im) = 9
    <3>1. Len(c \o y) = Len(c) + Len(y)
      BY <2>3, TwoParts
    <3> QED
      BY <2>1, <2>3, <3>1
  <2>5. Starts(b, a, c)
    BY <1>1, <1>2, <2>1, <2>3, StartsConcat
  <2>6. a < Len(b) /\ a + 1 \in Nat /\ ~Past(b, a, 1) /\ a + 1 + 8 = a + Len(im) /\ Len(c) >= 1
    BY <1>1, <1>2, <2>3, <2>4 DEF Past
  <2>7. ByteAt(b, a) = 50
    BY <2>3, <2>5, <2>6, StartsHead, Zenon
  <2>8. ByteAt(b, a) = BincDesc["FLOAT"] + 2
    BY <2>7 DEF BincDesc
  <2>9. BincDecode(b, a, mem) = BincDecodeFloat(b, a + 1, 2)
    BY <2>2, <2>6, <2>8, BincFloat
  <2>10. BincDecodeFloat(b, a + 1, 2) = Got(Value("FLOAT64", DoubleAt(b, a + 1, 8)), a + 1 + 8)
    BY DEF BincDecodeFloat
  <2>11. BincDecode(b, a, mem) = Got(Value("FLOAT64", DoubleAt(b, a + 1, 8)), a + Len(im))
    BY <2>6, <2>9, <2>10, Zenon
  <2> QED
    BY <1>4, <1>6, <2>11 DEF im, FloatRead
<1> QED
  BY <1>3, <1>5, <1>6
-----------------------------------------------------------------------------
LEMMA BincImageIsBytes ==
  ASSUME NEW v, IsValue(v), NEW k \in 1..8
  PROVE  BincImage(v, k) \in Seq(Byte)
  BY EmptyFits, BincEncodeGrows DEF Grew

LEMMA BincDescs ==
  /\ \A t \in {"STRING", "BYTES", "ARRAY", "MAP", "EXT"} : BincDesc[t] \in BincBases
  /\ Special["NIL"] = 0 /\ Special["FALSE"] = 1 /\ Special["TRUE"] = 2 /\ BincDesc["SPECIAL"] = 0
  /\ 0 \in Low4 /\ 1 \in Low4 /\ 2 \in Low4 /\ 0 \in Byte /\ 1 \in Byte /\ 2 \in Byte
  BY DEF BincDesc, BincBases, Special, Low4, Byte

(* The images of the types; of the bytes of an extension only the tag and *)
(* the number are known.                                                  *)
LEMMA BincImages ==
  ASSUME NEW v, IsValue(v), NEW k \in 1..8
  PROVE  LET bd == BincDesc[v.type]
             im == BincImage(v, k)
         IN  /\ im \in Seq(Byte) /\ Len(im) \in Nat
             /\ v.type = "NIL" => im = <<0>>
             /\ v.type = "BOOL" => im = <<IF v.data = <<1>> THEN 2 ELSE 1>>
             /\ v.type \in Integer => im = BincUint(bd, v.type = "POS_INT", v.data)
             /\ v.type \in Float => im = FloatImage(v.data, k)
             /\ v.type \in {"STRING", "BYTES"} => im = BincLen(bd, Len(v.data)) \o v.data
             /\ v.type \in {"ARRAY", "MAP"} => im = BincLen(bd, v.count)
             /\ v.type = "EXT" /\ Len(v.data) - 1 \in Short =>
                  \E e \in Seq(Byte) :
                    /\ Len(e) = Len(v.data) /\ e[1] = v.data[1]
                    /\ im = BincLen(bd, Len(v.data) - 1) \o e
<1> DEFINE bd == BincDesc[v.type]
           im == BincImage(v, k)
           n == Len(v.data)
<1>1. im \in Seq(Byte) /\ Len(im) \in Nat
  BY BincImageIsBytes, LenProperties
<1>2. /\ v.type = "NIL" => im = <<Special["NIL"]>>
      /\ v.type = "BOOL" => im = <<Special[IF v.data = <<1>> THEN "TRUE" ELSE "FALSE"]>>
      /\ v.type \in Integer => im = BincUint(bd, v.type = "POS_INT", v.data)
      /\ v.type \in Float => im = FloatImage(v.data, k)
      /\ v.type \in {"STRING", "BYTES"} => im = BincLen(bd, Len(v.data)) \o v.data
      /\ v.type \in {"ARRAY", "MAP"} => im = BincLen(bd, v.count)
      /\ v.type = "EXT" => im = (BincLen(bd, n - 1) \o <<Head(v.data)>>) \o Address(Tail(v.data))
  <2> HIDE DEF bd
  <2> QED
    BY DEF BincImage, bd, Integer, Float
<1>3. /\ v.type = "NIL" => im = <<0>>
      /\ v.type = "BOOL" => im = <<IF v.data = <<1>> THEN 2 ELSE 1>>
  <2> HIDE DEF im
  <2> QED
    BY <1>2, BincDescs
<1>4. ASSUME v.type = "EXT", n - 1 \in Short
      PROVE  \E e \in Seq(Byte) : Len(e) = n /\ e[1] = v.data[1] /\ im = BincLen(bd, n - 1) \o e
  <2>1. /\ v.data # <<>> /\ Head(v.data) \in Byte /\ Head(v.data) = v.data[1]
        /\ Tail(v.data) \in Seq(Byte) /\ Len(Tail(v.data)) = n - 1 /\ n \in Nat
    BY <1>4, PartsOfValue, PartsOfExt
  <2> DEFINE x == BincLen(bd, n - 1)
             h == <<Head(v.data)>>
             t == Address(Tail(v.data))
  <2>2. x \in Seq(Byte)
    <3>1. bd \in BincBases
      BY <1>4, BincDescs
    <3> HIDE DEF bd, n
    <3> QED
      BY <1>4, <3>1, BincShort, Zenon
  <2>3. h \in Seq(Byte) /\ Len(h) = 1 /\ h[1] = v.data[1]
    BY <2>1, OneByte
  <2>4. t \in Seq(Byte) /\ Len(t) = n - 1
    BY <2>1, AddressIsBytes
  <2>5. im = (x \o h) \o t
    BY <1>2, <1>4
  <2> HIDE DEF x, h, t, im, n
  <2>6. (x \o h) \o t = x \o (h \o t)
    BY <2>2, <2>3, <2>4, ConcatAssociative
  <2>7. h \o t \in Seq(Byte) /\ Len(h \o t) = n
    <3>1. h \o t \in Seq(Byte) /\ Len(h \o t) = Len(h) + Len(t)
      BY <2>3, <2>4, TwoParts
    <3> QED
      BY <2>1, <2>3, <2>4, <3>1
  <2>8. (h \o t)[1] = v.data[1]
    <3>1. h \in Seq(Byte) /\ t \in Seq(Byte)
      BY <2>3, <2>4
    <3>2. \A i \in 1..(Len(h) + Len(t)) : (h \o t)[i] = IF i <= Len(h) THEN h[i] ELSE t[i - Len(h)]
      BY <3>1, ConcatProperties
    <3>3. 1 \in 1..(Len(h) + Len(t)) /\ 1 <= Len(h)
      BY <2>3, <3>1, LenProperties
    <3> QED
      BY <2>3, <3>2, <3>3
  <2> QED
    BY <2>5, <2>6, <2>7, <2>8 DEF x
<1> HIDE DEF im, bd
<1> QED
  BY <1>1, <1>2, <1>3, <1>4 DEF im, bd

LEMMA LongerThanLen ==
  ASSUME NEW n \in Short, NEW bd \in BincBases, NEW d \in Seq(Byte)
  PROVE  Len(BincLen(bd, n)) >= 1 /\ Len(BincLen(bd, n) \o d) >= 1
<1> DEFINE x == BincLen(bd, n)
<1>1. x \in Seq(Byte) /\ Len(x) \in {1, 2}
  BY BincShort, Zenon
<1> HIDE DEF x
<1>2. Len(x) >= 1 /\ Len(d) \in Nat
  <2>1. \A j \in {1, 2} : j >= 1
    OBVIOUS
  <2>2. Len(d) \in Nat
    BY LenProperties
  <2> QED
    BY <1>1, <2>1, <2>2, Zenon
<1>3. Len(x \o d) = Len(x) + Len(d)
  BY <1>1, TwoParts
<1>4. Len(x \o d) >= 1
  <2>1. \A j \in {1, 2}, i \in Nat : j + i >= 1
    OBVIOUS
  <2> QED
    BY <1>1, <1>2, <1>3, <2>1, Zenon
<1> QED
  BY <1>2, <1>4 DEF x

(* What Binc can carry. *)
BincCarries(v) ==
  /\ v.type \in Float => AllZero(v.data)
  /\ v.type \in Integer => Fit(v.data, 4)
  /\ v.type # "FLOAT32"
  /\ v.type = "NEG_INT" => Negative(v.data)
  /\ v.type = "EXT" => Len(v.data) = 1

LEMMA BincCalls ==
  ASSUME NEW b, NEW a, NEW mem, NEW vs \in Low4, ~Past(b, a, 1)
  PROVE  /\ ByteAt(b, a) = BincDesc["SPECIAL"] + vs =>
              BincDecode(b, a, mem) = Got(SpecialValue(vs, mem), a + 1)
         /\ \A t \in {"STRING", "BYTES"} :
              ByteAt(b, a) = BincDesc[t] + vs =>
                BincDecode(b, a, mem) = BincDecodeBlob(b, a + 1, vs, t)
         /\ \A t \in {"ARRAY", "MAP"} :
              ByteAt(b, a) = BincDesc[t] + vs =>
                BincDecode(b, a, mem) = BincDecodeContainer(b, a + 1, vs, t)
         /\ ByteAt(b, a) = BincDesc["EXT"] + vs =>
              BincDecode(b, a, mem) = BincDecodeExt(b, a + 1, vs)
<1>1. Dispatched(b, a, mem, vs)
  BY BincCases, Zenon
<1>2. ASSUME NEW t \in {"STRING", "BYTES"}, ByteAt(b, a) = BincDesc[t] + vs
      PROVE  BincDecode(b, a, mem) = BincDecodeBlob(b, a + 1, vs, t)
  <2>1. CASE t = "STRING"
    BY <1>1, <1>2, <2>1 DEF Dispatched
  <2>2. CASE t = "BYTES"
    BY <1>1, <1>2, <2>2 DEF Dispatched
  <2> QED
    BY <2>1, <2>2
<1>3. ASSUME NEW t \in {"ARRAY", "MAP"}, ByteAt(b, a) = BincDesc[t] + vs
      PROVE  BincDecode(b, a, mem) = BincDecodeContainer(b, a + 1, vs, t)
  <2>1. CASE t = "ARRAY"
    BY <1>1, <1>3, <2>1 DEF Dispatched
  <2>2. CASE t = "MAP"
    BY <1>1, <1>3, <2>2 DEF Dispatched
  <2> QED
    BY <2>1, <2>2
<1> QED
  BY <1>1, <1>2, <1>3 DEF Dispatched

(* The same of Binc (binc.c:46-280), which is given whole images; the integer *)
(* is not one of those whose descriptor is missing (binc.c:103-107).          *)
THEOREM BincReads ==
  ASSUME NEW b \in Seq(Byte), NEW a \in Nat, NEW mem, NEW k \in 1..8,
         NEW v, IsValue(v), Len(v.data) \in Short, v.count \in Short,
         v.type \in Integer => Fit(v.data, 1) \/ ~Fit(v.data, 2),
         Starts(b, a, BincImage(v, k)), a + Len(BincImage(v, k)) <= Len(b)
  PROVE  Reads(BincDecode(b, a, mem), b, a, BincImage(v, k), v, BincCarries(v))
<1> DEFINE bd == BincDesc[v.type]
           n == Len(v.data)
           c == ByteAt(b, a)
           q == a + 1
           d == BincDecode(b, a, mem)
           im == BincImage(v, k)
           whole == BincCarries(v)
           p == a + Len(im)
<1>1. v.type \in Types /\ v.data \in Seq(Byte) /\ n \in Nat /\ v.count \in Nat /\ Len(b) \in Nat
  BY PartsOfValue, LenProperties
<1>2. /\ v.type \notin {"ARRAY", "MAP"} => v = Value(v.type, v.data)
      /\ v.type \in {"ARRAY", "MAP"} => v = Container(v.type, v.count)
      /\ v.type = "NIL" => v.data = <<>>
      /\ v.type = "BOOL" => v.data \in {<<0>>, <<1>>}
  BY ValueIs
<1>3. /\ im \in Seq(Byte) /\ Len(im) \in Nat
      /\ v.type = "NIL" => im = <<0>>
      /\ v.type = "BOOL" => im = <<IF v.data = <<1>> THEN 2 ELSE 1>>
      /\ v.type \in Integer => im = BincUint(bd, v.type = "POS_INT", v.data)
      /\ v.type \in Float => im = FloatImage(v.data, k)
      /\ v.type \in {"STRING", "BYTES"} => im = BincLen(bd, n) \o v.data
      /\ v.type \in {"ARRAY", "MAP"} => im = BincLen(bd, v.count)
      /\ v.type = "EXT" /\ n - 1 \in Short =>
           \E e \in Seq(Byte) :
             Len(e) = n /\ e[1] = v.data[1] /\ im = BincLen(bd, n - 1) \o e
  BY BincImages
<1>4. Starts(b, a, im) /\ a + Len(im) <= Len(b)
  OBVIOUS
<1>5. ASSUME ~Past(b, a, 1), NEW vs \in Low4
      PROVE  /\ c = BincDesc["SPECIAL"] + vs => d = Got(SpecialValue(vs, mem), q)
             /\ \A t \in {"STRING", "BYTES"} :
                  c = BincDesc[t] + vs => d = BincDecodeBlob(b, q, vs, t)
             /\ \A t \in {"ARRAY", "MAP"} :
                  c = BincDesc[t] + vs => d = BincDecodeContainer(b, q, vs, t)
             /\ c = BincDesc["EXT"] + vs => d = BincDecodeExt(b, q, vs)
  BY <1>5, BincCalls, Zenon
<1> SUFFICES Reads(d, b, a, im, v, whole)
  OBVIOUS
<1> HIDE DEF bd, c, d, im, whole
<1>6. ASSUME NEW w, d = Got(w, p), Calls(w) = Calls(v), whole => w = v
      PROVE  Reads(d, b, a, im, v, whole)
  <2>1. ~(a + Len(im) > Len(b))
    BY <1>1, <1>3, <1>4
  <2>2. DecodesTo(d, b, a, im, w)
    BY <1>6, <2>1 DEF DecodesTo
  <2> QED
    BY <1>6, <2>2, ReadsGot
<1>7. ASSUME NEW x \in {0, 1, 2}, im = <<x>>
      PROVE  d = Got(SpecialValue(x, mem), p)
  <2>1. Len(im) = 1 /\ im[1] = x /\ Len(im) >= 1
    BY <1>7
  <2>2. a < Len(b) /\ ~Past(b, a, 1) /\ p = q
    BY <1>1, <1>4, <2>1 DEF Past
  <2>3. c = x
    BY <1>3, <1>4, <2>1, <2>2, StartsHead, Zenon DEF c
  <2>4. x \in Low4 /\ c = BincDesc["SPECIAL"] + x
    BY <1>7, <2>3, BincDescs
  <2> QED
    BY <1>5, <2>2, <2>4
<1>8. /\ SpecialValue(0, mem) = Value("NIL", <<>>)
      /\ SpecialValue(1, mem) = Value("BOOL", <<0>>)
      /\ SpecialValue(2, mem) = Value("BOOL", <<1>>)
  BY DEF SpecialValue, Special
<1>9. CASE v.type = "NIL"
  <2>1. d = Got(v, p)
    BY <1>2, <1>3, <1>7, <1>8, <1>9
  <2> QED
    BY <1>6, <2>1
<1>10. CASE v.type = "BOOL"
  <2>1. CASE v.data = <<1>>
    <3>1. d = Got(v, p)
      BY <1>2, <1>3, <1>7, <1>8, <1>10, <2>1
    <3> QED
      BY <1>6, <3>1
  <2>2. CASE v.data # <<1>>
    <3>1. v.data = <<0>>
      BY <1>2, <1>10, <2>2
    <3>2. d = Got(v, p)
      BY <1>2, <1>3, <1>7, <1>8, <1>10, <2>2, <3>1
    <3> QED
      BY <1>6, <3>2
  <2> QED
    BY <2>1, <2>2
<1>11. CASE v.type \in Integer
  <2> DEFINE pos == v.type = "POS_INT"
             u == v.data
  <2>1. im = BincUint(bd, pos, u) /\ u \in Uints /\ pos \in BOOLEAN
    BY <1>3, <1>11, PartsOfValue
  <2>2. TypeOfSign(pos) = v.type /\ bd = BincDesc[TypeOfSign(pos)]
    BY <1>11 DEF TypeOfSign, Integer, bd
  <2>3. Fit(u, 1) \/ ~Fit(u, 2)
    BY <1>11
  <2> HIDE DEF pos
  <2>4. Starts(b, a, BincUint(bd, pos, u)) /\ a + Len(BincUint(bd, pos, u)) <= Len(b)
    BY <1>4, <2>1
  <2>5. IntegerRead(d, pos, u, a + Len(BincUint(bd, pos, u)))
    BY <2>1, <2>2, <2>3, <2>4, BincReadsUint, Zenon DEF d
  <2>6. IntegerRead(d, pos, u, p)
    BY <2>1, <2>5
  <2>7. PICK t \in Integer :
          \E w : /\ d = Got(Value(t, w), p)
                 /\ Fit(u, 4) /\ (~pos => Negative(u)) => t = TypeOfSign(pos) /\ w = u
    BY <2>6, Zenon DEF IntegerRead
  <2>8. PICK w : /\ d = Got(Value(t, w), p)
                 /\ Fit(u, 4) /\ (~pos => Negative(u)) => t = TypeOfSign(pos) /\ w = u
    BY <2>7, Zenon
  <2>9. Calls(Value(t, w)) = Calls(v)
    BY <1>11, CallsOfValue DEF Integer
  <2>10. whole => Fit(u, 4) /\ (~pos => Negative(u))
    BY <1>11 DEF whole, BincCarries, pos, Integer
  <2>11. whole => Value(t, w) = v
    <3>1. v = Value(v.type, u)
      BY <1>2, <1>11 DEF Integer
    <3> QED
      BY <2>2, <2>8, <2>10, <3>1
  <2> QED
    BY <1>6, <2>8, <2>9, <2>11
<1>12. CASE v.type \in Float
  <2>1. im = FloatImage(v.data, k) /\ n \in {4, 8}
    BY <1>3, <1>12, PartsOfValue DEF Float
  <2>2. Starts(b, a, FloatImage(v.data, k)) /\ a + Len(FloatImage(v.data, k)) <= Len(b)
    BY <1>4, <2>1
  <2>3. FloatRead(d, v.data, a + Len(FloatImage(v.data, k)))
    BY <1>1, <2>1, <2>2, BincReadsFloat, Zenon DEF d
  <2>7. PICK w : /\ d = Got(Value("FLOAT64", w), a + Len(FloatImage(v.data, k)))
                 /\ n = 8 /\ AllZero(v.data) => w = v.data
    BY <2>3, Zenon DEF FloatRead
  <2>4. d = Got(Value("FLOAT64", w), p)
    BY <2>1, <2>7
  <2>5. Calls(Value("FLOAT64", w)) = Calls(v)
    BY <1>12, CallsOfValue DEF Float
  <2>6. whole => Value("FLOAT64", w) = v
    <3>1. v = Value(v.type, v.data)
      BY <1>2, <1>12 DEF Float
    <3>2. whole => v.type = "FLOAT64" /\ AllZero(v.data)
      BY <1>12 DEF whole, BincCarries, Float
    <3>3. v.type = "FLOAT64" => n = 8
      BY PartsOfValue
    <3> QED
      BY <2>7, <3>1, <3>2, <3>3
  <2> QED
    BY <1>6, <2>4, <2>5, <2>6
<1>13. ASSUME Len(im) >= 1 PROVE ~Past(b, a, 1)
  BY <1>1, <1>3, <1>4, <1>13 DEF Past
<1>14. CASE v.type \in {"STRING", "BYTES"}
  <2>1. im = BincLen(bd, n) \o v.data /\ bd \in BincBases
    BY <1>3, <1>14, BincDescs DEF bd
  <2>2. Len(im) >= 1
    BY <1>1, <2>1, LongerThanLen, Zenon
  <2>3. Starts(b, a, BincLen(bd, n) \o v.data) /\ a + Len(BincLen(bd, n) \o v.data) <= Len(b)
    BY <1>4, <2>1
  <2>7. BlobRead(b, a, bd, v.type, v.data)
    BY <1>1, <2>1, <2>3, BincReadsBlob, Zenon
  <2>4. PICK vs \in Low4 :
          /\ c = bd + vs
          /\ BincDecodeBlob(b, q, vs, v.type)
             = Got(Value(v.type, v.data), a + Len(BincLen(bd, n) \o v.data))
    BY <2>7, Zenon DEF c, BlobRead
  <2>5. BincDecodeBlob(b, q, vs, v.type) = Got(v, p)
    BY <1>2, <1>14, <2>1, <2>4
  <2>6. d = BincDecodeBlob(b, q, vs, v.type)
    BY <1>5, <1>13, <1>14, <2>2, <2>4 DEF bd
  <2> QED
    BY <1>6, <2>5, <2>6
<1>15. CASE v.type \in {"ARRAY", "MAP"}
  <2>1. im = BincLen(bd, v.count) /\ bd \in BincBases
    BY <1>3, <1>15, BincDescs DEF bd
  <2>2. Len(im) >= 1
    BY <1>1, <2>1, LongerThanLen, Zenon
  <2>3. Starts(b, a, BincLen(bd, v.count)) /\ a + Len(BincLen(bd, v.count)) <= Len(b)
    BY <1>4, <2>1
  <2>7. ContainerRead(b, a, bd, v.type, v.count)
    BY <2>1, <2>3, BincReadsContainer, Zenon
  <2>4. PICK vs \in Low4 :
          /\ c = bd + vs
          /\ BincDecodeContainer(b, q, vs, v.type)
             = Got(Container(v.type, v.count), a + Len(BincLen(bd, v.count)))
    BY <2>7, Zenon DEF c, ContainerRead
  <2>5. BincDecodeContainer(b, q, vs, v.type) = Got(v, p)
    BY <1>2, <1>15, <2>1, <2>4
  <2>6. d = BincDecodeContainer(b, q, vs, v.type)
    BY <1>5, <1>13, <1>15, <2>2, <2>4 DEF bd
  <2> QED
    BY <1>6, <2>5, <2>6
<1>16. CASE v.type = "EXT"
  <2>1. v.data # <<>> /\ n - 1 \in Short
    <3>1. v.data # <<>> /\ n - 1 \in Nat /\ n \in Short
      BY <1>16, PartsOfExt
    <3>2. \A j \in Short : j - 1 \in Nat => j - 1 \in Short
      BY SMT DEF Short
    <3> HIDE DEF n
    <3> QED
      BY <3>1, <3>2
  <2>2. PICK e \in Seq(Byte) : Len(e) = n /\ e[1] = v.data[1] /\ im = BincLen(bd, n - 1) \o e
    BY <1>3, <1>16, <2>1
  <2>3. bd \in BincBases
    BY <1>16, BincDescs DEF bd
  <2>4. Len(im) >= 1
    BY <2>1, <2>2, <2>3, LongerThanLen, Zenon
  <2>5. Starts(b, a, BincLen(bd, n - 1) \o e) /\ a + Len(BincLen(bd, n - 1) \o e) <= Len(b)
    BY <1>4, <2>2
  <2>11. ExtRead(b, a, bd, v.data, e)
    BY <1>1, <2>1, <2>2, <2>3, <2>5, BincReadsExt, Zenon
  <2>6. PICK vs \in Low4 :
          /\ c = bd + vs
          /\ \E w : /\ BincDecodeExt(b, q, vs) = Got(Value("EXT", w), a + Len(BincLen(bd, n - 1) \o e))
                    /\ n = 1 => w = v.data
    BY <2>11, Zenon DEF c, ExtRead
  <2>7. PICK w : /\ BincDecodeExt(b, q, vs) = Got(Value("EXT", w), a + Len(BincLen(bd, n - 1) \o e))
                 /\ n = 1 => w = v.data
    BY <2>6
  <2>8. d = Got(Value("EXT", w), p)
    <3>1. d = BincDecodeExt(b, q, vs)
      BY <1>5, <1>13, <1>16, <2>4, <2>6 DEF bd
    <3> QED
      BY <2>2, <2>7, <3>1
  <2>9. Calls(Value("EXT", w)) = Calls(v)
    BY <1>16, CallsOfValue
  <2>10. whole => Value("EXT", w) = v
    BY <1>2, <1>16, <2>7 DEF whole, BincCarries
  <2> QED
    BY <1>6, <2>8, <2>9, <2>10
<1>17. v.type \in {"NIL", "BOOL", "STRING", "BYTES", "ARRAY", "MAP", "EXT"} \union Integer \union Float
  BY <1>1 DEF Types, Integer, Float
<1> QED
  BY <1>9, <1>10, <1>11, <1>12, <1>14, <1>15, <1>16, <1>17
-----------------------------------------------------------------------------
(* No image is empty: a part of a stream ends behind the one before it. *)
Some(d) == d \in Seq(Byte) /\ Len(d) >= 1

LEMMA SomeByte ==
  ASSUME NEW c \in Byte
  PROVE  Some(<<c>>)
  BY DEF Some

LEMMA SomeMore ==
  ASSUME NEW c, Some(c), NEW d \in Seq(Byte)
  PROVE  Some(c \o d)
<1>1. c \in Seq(Byte) /\ Len(c) >= 1 /\ Len(c) \in Nat /\ Len(d) \in Nat
  BY LenProperties DEF Some
<1>2. c \o d \in Seq(Byte) /\ Len(c \o d) = Len(c) + Len(d)
  BY <1>1, TwoParts
<1> QED
  BY <1>1, <1>2 DEF Some

LEMMA SimpleUintSome ==
  ASSUME NEW bd \in 0..252, NEW u \in Uints
  PROVE  Some(SimpleUint(bd, u))
<1>1. Code(u) \in 0..3 /\ Low(u) \in Seq(Byte)
  BY LowOfUint
<1>2. bd + Code(u) \in Byte
  <2>1. \A i \in 0..252, j \in 0..3 : i + j \in 0..255
    BY SMT
  <2> QED
    BY <1>1, <2>1 DEF Byte
<1> QED
  BY <1>1, <1>2, SomeByte, SomeMore DEF SimpleUint

LEMMA SimpleLenSome ==
  ASSUME NEW bd \in 0..251, NEW n \in Nat
  PROVE  Some(SimpleLen(bd, n))
<1>1. bd \in Byte /\ bd + 1 \in 0..252
  BY DEF Byte
<1>2. Some(<<bd>>)
  BY <1>1, SomeByte
<1>3. Some(SimpleUint(bd + 1, Uint64(n)))
  BY <1>1, Uint64IsUint, SimpleUintSome
<1> QED
  BY <1>2, <1>3 DEF SimpleLen

LEMMA SimpleImageSome ==
  ASSUME NEW v, IsValue(v)
  PROVE  Some(SimpleImage(v))
<1> DEFINE bd == SimpleDesc[v.type]
           n == Len(v.data)
           im == SimpleImage(v)
<1>1. v.data \in Seq(Byte) /\ n \in Nat /\ v.count \in Nat /\ v.type \in Types
  BY PartsOfValue
<1>2. v.type # "BOOL" => bd \in 0..251 /\ bd \in 0..252 /\ bd \in Byte
  <2>1. \A t \in Types \ {"BOOL"} : SimpleDesc[t] \in 1..248
    BY DEF SimpleDesc, Types
  <2>2. \A i \in 1..248 : i \in 0..251 /\ i \in 0..252 /\ i \in 0..255
    BY SMT
  <2>3. v.type # "BOOL" => bd \in 1..248
    BY <1>1, <2>1
  <2> HIDE DEF bd
  <2> QED
    BY <2>2, <2>3 DEF Byte
<1>3. /\ v.type = "NIL" => im = <<bd>>
      /\ v.type = "BOOL" => im = <<SimpleDesc[IF v.data = <<1>> THEN "TRUE" ELSE "FALSE"]>>
      /\ v.type \in Integer => im = SimpleUint(bd, v.data)
      /\ v.type \in Float => im = <<bd>> \o v.data
      /\ v.type \in {"STRING", "BYTES"} => im = SimpleLen(bd, n) \o v.data
      /\ v.type \in {"ARRAY", "MAP"} => im = SimpleLen(bd, v.count)
      /\ v.type = "EXT" => im = (SimpleLen(bd, n - 1) \o <<Head(v.data)>>) \o Tail(v.data)
  <2> HIDE DEF bd
  <2> QED
    BY DEF SimpleImage, bd, Integer, Float
<1>4. SimpleDesc["TRUE"] \in Byte /\ SimpleDesc["FALSE"] \in Byte
  BY DEF SimpleDesc, Byte
<1> HIDE DEF bd, n, im
<1>5. CASE v.type = "NIL"
  BY <1>2, <1>3, <1>5, SomeByte DEF im
<1>6. CASE v.type = "BOOL"
  <2>1. SimpleDesc[IF v.data = <<1>> THEN "TRUE" ELSE "FALSE"] \in Byte
    BY <1>4
  <2> QED
    BY <1>3, <1>6, <2>1, SomeByte DEF im
<1>7. CASE v.type \in Integer
  <2>1. v.data \in Uints /\ v.type # "BOOL"
    BY <1>7, PartsOfValue DEF Integer
  <2> QED
    BY <1>2, <1>3, <1>7, <2>1, SimpleUintSome DEF im
<1>8. CASE v.type \in Float
  <2>1. v.type # "BOOL"
    BY <1>8 DEF Float
  <2> QED
    BY <1>1, <1>2, <1>3, <1>8, <2>1, SomeByte, SomeMore DEF im
<1>9. CASE v.type \in {"STRING", "BYTES"}
  BY <1>1, <1>2, <1>3, <1>9, SimpleLenSome, SomeMore DEF im
<1>10. CASE v.type \in {"ARRAY", "MAP"}
  BY <1>1, <1>2, <1>3, <1>10, SimpleLenSome DEF im
<1>11. CASE v.type = "EXT"
  <2>1. n - 1 \in Nat /\ Head(v.data) \in Byte /\ Tail(v.data) \in Seq(Byte)
    BY <1>11, PartsOfExt DEF n
  <2>2. <<Head(v.data)>> \in Seq(Byte)
    BY <2>1
  <2>3. Some(SimpleLen(bd, n - 1) \o <<Head(v.data)>>)
    BY <1>2, <1>11, <2>1, <2>2, SimpleLenSome, SomeMore
  <2>4. Some((SimpleLen(bd, n - 1) \o <<Head(v.data)>>) \o Tail(v.data))
    BY <2>1, <2>3, SomeMore
  <2> QED
    BY <1>3, <1>11, <2>4 DEF im
<1> QED
  BY <1>1, <1>5, <1>6, <1>7, <1>8, <1>9, <1>10, <1>11 DEF Types, Integer, Float

LEMMA PrunedImageSome ==
  ASSUME NEW bd \in 0..240, NEW pos \in BOOLEAN, NEW u \in Uints
  PROVE  Some(PrunedImage(bd, pos, u))
<1> DEFINE x == PruneBuffer(u)
           n == Pruned(x, pos)
           y == SubSeq(x, n + 1, Len(x))
           c == <<bd + Len(x) - 1 - n>>
<1>1. PrunedImage(bd, pos, u) \in Seq(Byte)
  BY EmptyFits, PrunedGrows DEF Grew
<1>2. PrunedImage(bd, pos, u) = c \o y
  BY DEF PrunedImage
<1>3. x \in Seq(Byte) /\ Len(x) \in {4, 8}
  BY PruneBufferIsBytes
<1> HIDE DEF x
<1>4. n \in 0..(Len(x) - 1)
  BY <1>3, PrunedStops
<1>5. y \in Seq(Byte) /\ Len(y) >= 1
  <2> HIDE DEF n
  <2>1. n + 1 \in Int /\ Len(x) \in Int /\ n + 1 >= 1 /\ n + 1 <= Len(x)
    BY <1>3, <1>4
  <2>2. \A i \in (n + 1)..Len(x) : x[i] \in Byte
    <3>1. \A i \in (n + 1)..Len(x) : i \in 1..Len(x)
      BY <1>3, <2>1
    <3> QED
      BY <1>3, <3>1, ElementOfSeq
  <2>3. y \in Seq(Byte) /\ Len(y) = Len(x) - (n + 1) + 1
    BY <2>1, <2>2, SubSeqProperties
  <2> QED
    BY <2>1, <2>3
<1>6. c \in Seq(Int) /\ Len(c) = 1
  <2> HIDE DEF n
  <2>1. bd + Len(x) - 1 - n \in Int
    BY <1>3, <1>4
  <2> QED
    BY <2>1
<1> HIDE DEF c, y
<1>7. y \in Seq(Int) /\ Len(y) \in Nat
  <2>1. y \in Seq(Byte) /\ Len(y) \in Nat
    BY <1>5, LenProperties
  <2>2. \A i \in 1..Len(y) : y[i] \in Int
    <3>1. \A i \in 1..Len(y) : y[i] \in Byte
      BY <2>1, ElementOfSeq
    <3>2. \A i \in Byte : i \in Int
      BY DEF Byte
    <3> QED
      BY <3>1, <3>2
  <2>3. y = [i \in 1..Len(y) |-> y[i]]
    BY <2>1
  <2> QED
    BY <2>1, <2>2, <2>3
<1>8. Len(c \o y) = Len(c) + Len(y)
  BY <1>6, <1>7, ConcatProperties
<1> QED
  BY <1>1, <1>2, <1>6, <1>7, <1>8 DEF Some

LEMMA BincUintSome ==
  ASSUME NEW bd \in 0..240, NEW pos \in BOOLEAN, NEW u \in Uints
  PROVE  Some(BincUint(bd, pos, u))
<1>1. BincUint(bd, pos, u) \in Seq(Byte)
  BY EmptyFits, BincUintGrows DEF Grew
<1>2. CASE AllZero(u)
  <2>1. BincUint(bd, pos, u) = <<Special["ZERO"]>>
    BY <1>2, FitMore DEF BincUint
  <2> QED
    BY <1>1, <2>1 DEF Some
<1>3. CASE ~AllZero(u) /\ pos /\ Fit(u, 1) /\ u[8] <= 16
  <2>1. BincUint(bd, pos, u) = <<BincDesc["SMALLINT"] + u[8] - 1>>
    BY <1>3, FitMore DEF BincUint
  <2> QED
    BY <1>1, <2>1 DEF Some
<1>4. CASE ~AllZero(u) /\ ~(pos /\ u[8] <= 16) /\ Fit(u, 1)
  <2>1. BincUint(bd, pos, u) = <<bd>> \o <<u[8]>>
    BY <1>4, FitMore DEF BincUint
  <2>2. bd \in Byte /\ u[8] \in Byte
    BY DEF Byte, Uints
  <2>3. <<u[8]>> \in Seq(Byte)
    BY <2>2
  <2> QED
    BY <2>1, <2>2, <2>3, SomeByte, SomeMore
<1>5. CASE ~Fit(u, 1) /\ Fit(u, 2)
  <2>1. BincUint(bd, pos, u) = SubSeq(u, 7, 8)
    BY <1>5, FitMore DEF BincUint
  <2>2. u \in Seq(Byte) /\ Len(u) = 8
    BY UintIsSeq
  <2>3. \A i \in 7..8 : u[i] \in Byte
    BY DEF Uints
  <2>4. Len(SubSeq(u, 7, 8)) = 2
    BY <2>2, <2>3
  <2> QED
    BY <1>1, <2>1, <2>4 DEF Some
<1>6. CASE ~Fit(u, 2)
  <2>1. BincUint(bd, pos, u) = PrunedImage(bd, pos, u)
    BY <1>6, FitMore DEF BincUint
  <2> QED
    BY <2>1, PrunedImageSome
<1> QED
  BY <1>2, <1>3, <1>4, <1>5, <1>6

LEMMA BincLenSome ==
  ASSUME NEW bd \in 0..240, NEW n \in Nat
  PROVE  Some(BincLen(bd, n))
<1>1. BincLen(bd, n) \in Seq(Byte)
  BY EmptyFits, BincLenGrows DEF Grew
<1>2. CASE ShortLen(n)
  <2>1. BincLen(bd, n) = <<bd + n + 4>>
    BY <1>2 DEF BincLen
  <2> QED
    BY <1>1, <2>1 DEF Some
<1>3. CASE ~ShortLen(n)
  <2>1. Some(BincUint(bd, FALSE, Uint64(n)))
    BY Uint64IsUint, BincUintSome
  <2> QED
    BY <1>3, <2>1 DEF BincLen
<1> QED
  BY <1>2, <1>3

LEMMA FloatSome ==
  ASSUME NEW d \in Seq(Byte), Len(d) \in {4, 8}, NEW k \in 1..8
  PROVE  Some(FloatImage(d, k))
<1>1. CASE IsZero(d)
  <2>1. FloatImage(d, k) = <<6>> /\ 6 \in Byte
    BY <1>1 DEF FloatImage, Special, Byte
  <2> QED
    BY <2>1, SomeByte
<1>2. CASE ~IsZero(d)
  <2>1. 58 \in Byte /\ 50 \in Byte /\ k \in Byte
    BY DEF Byte
  <2>2. Some(<<58>>) /\ Some(<<50>>) /\ <<k>> \in Seq(Byte)
    BY <2>1, SomeByte
  <2>3. Some(<<58>> \o <<k>>)
    BY <2>2, SomeMore
  <2>4. CASE k <= 6
    <3>1. PICK y \in Seq(Byte) : FloatImage(d, k) = (<<58>> \o <<k>>) \o y
      BY <1>2, <2>4, FloatImages
    <3> QED
      BY <2>3, <3>1, SomeMore
  <2>5. CASE ~(k <= 6)
    <3>1. PICK y \in Seq(Byte) : FloatImage(d, k) = <<50>> \o y
      BY <1>2, <2>5, FloatImages
    <3> QED
      BY <2>2, <3>1, SomeMore
  <2> QED
    BY <2>4, <2>5
<1> QED
  BY <1>1, <1>2

LEMMA BincImageSome ==
  ASSUME NEW v, IsValue(v), NEW k \in 1..8
  PROVE  Some(BincImage(v, k))
<1> DEFINE bd == BincDesc[v.type]
           n == Len(v.data)
           im == BincImage(v, k)
<1>1. v.data \in Seq(Byte) /\ n \in Nat /\ v.count \in Nat /\ v.type \in Types
  BY PartsOfValue
<1>2. /\ v.type = "NIL" => im = <<0>>
      /\ v.type = "BOOL" => im = <<IF v.data = <<1>> THEN 2 ELSE 1>>
      /\ v.type \in Integer => im = BincUint(bd, v.type = "POS_INT", v.data)
      /\ v.type \in Float => im = FloatImage(v.data, k)
      /\ v.type \in {"STRING", "BYTES"} => im = BincLen(bd, n) \o v.data
      /\ v.type \in {"ARRAY", "MAP"} => im = BincLen(bd, v.count)
  BY BincImages
<1>3. v.type = "EXT" => im = (BincLen(bd, n - 1) \o <<Head(v.data)>>) \o Address(Tail(v.data))
  BY DEF BincImage, Integer, Float
<1>4. v.type \notin {"NIL", "BOOL", "FLOAT32", "FLOAT64"} => bd \in 0..240
  <2>1. \A t \in Types \ {"NIL", "BOOL", "FLOAT32", "FLOAT64"} : BincDesc[t] \in 0..240
    BY DEF BincDesc, Types
  <2> QED
    BY <1>1, <2>1
<1> HIDE DEF bd, n, im
<1>5. CASE v.type \in {"NIL", "BOOL"}
  <2>1. 0 \in Byte /\ 1 \in Byte /\ 2 \in Byte
    BY DEF Byte
  <2> QED
    BY <1>2, <1>5, <2>1, SomeByte DEF im
<1>6. CASE v.type \in Integer
  <2>1. v.data \in Uints /\ (v.type = "POS_INT") \in BOOLEAN /\ bd \in 0..240
    BY <1>4, <1>6, PartsOfValue DEF Integer
  <2> QED
    BY <1>2, <1>6, <2>1, BincUintSome DEF im
<1>7. CASE v.type \in Float
  <2>1. Len(v.data) \in {4, 8}
    BY <1>7, PartsOfValue DEF Float
  <2> QED
    BY <1>1, <1>2, <1>7, <2>1, FloatSome DEF im
<1>8. CASE v.type \in {"STRING", "BYTES"}
  BY <1>1, <1>2, <1>4, <1>8, BincLenSome, SomeMore DEF im
<1>9. CASE v.type \in {"ARRAY", "MAP"}
  BY <1>1, <1>2, <1>4, <1>9, BincLenSome DEF im
<1>10. CASE v.type = "EXT"
  <2>1. n - 1 \in Nat /\ Head(v.data) \in Byte /\ Tail(v.data) \in Seq(Byte)
    BY <1>10, PartsOfExt DEF n
  <2>5. Address(Tail(v.data)) \in Seq(Byte)
    BY <2>1, AddressIsBytes
  <2>2. <<Head(v.data)>> \in Seq(Byte) /\ Address(Tail(v.data)) \in Seq(Byte)
    BY <2>1, <2>5
  <2>3. Some(BincLen(bd, n - 1) \o <<Head(v.data)>>)
    BY <1>4, <1>10, <2>1, <2>2, BincLenSome, SomeMore
  <2>4. Some((BincLen(bd, n - 1) \o <<Head(v.data)>>) \o Address(Tail(v.data)))
    BY <2>2, <2>3, SomeMore
  <2> QED
    BY <1>3, <1>10, <2>4 DEF im
<1> QED
  BY <1>1, <1>5, <1>6, <1>7, <1>8, <1>9, <1>10 DEF Types, Integer, Float
=============================================================================
