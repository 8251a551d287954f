--------------------------- MODULE MCCodecStream ---------------------------
(* Every type; empty containers and those of one or two parts; integers of  *)
(* every width, at the ends of what a format prunes and with the sign bit   *)
(* in the byte that is read; zeros and other floats; blobs that print in    *)
(* their room and not.  A line is 4 bytes, so that the block grows at most  *)
(* writes.                                                                  *)
EXTENDS CodecStream

Same(n, byte) == [i \in 1..n |-> byte]
Integer8(type, bytes) == Value(type, Same(8 - Len(bytes), 0) \o bytes)
Pos(bytes) == Integer8("POS_INT", bytes)
Neg(bytes) == Integer8("NEG_INT", bytes)
Str(byte) == Value("STRING", <<byte>>)

Nil == Value("NIL", <<>>)
True == Value("BOOL", <<1>>)

MCParts == {
  Nil, Value("BOOL", <<0>>), True,
  Pos(<<16>>), Pos(<<17>>), Neg(<<0>>), Neg(<<255>>), Pos(<<1, 9>>), Pos(<<200, 1, 1>>),
  Neg(<<255, 200, 1, 1>>), Neg(<<255, 1, 1, 1>>), Pos(<<1, 0, 0, 0, 200>>),
  Value("FLOAT32", Same(4, 0)), Value("FLOAT64", Same(8, 0)),
  Value("FLOAT64", Same(7, 0) \o <<128>>), Value("FLOAT64", Same(6, 0) \o <<240, 63>>),
  Value("STRING", <<>>), Value("STRING", Same(12, 65)),
  Value("BYTES", Same(2, 224)), Value("BYTES", Same(8, 10)), Value("BYTES", Same(5, 156)),
  Container("ARRAY", 0), Container("ARRAY", 1), Container("ARRAY", 2),
  Container("MAP", 0), Container("MAP", 1),
  Value("EXT", <<7>>), Value("EXT", <<17, 1>>)}

(* The value of codec_test.cc:6-82, and the bytes its comment expects. *)
TestValue == <<
  Container("MAP", 6),
  Str(65), Neg(<<9>>), Str(66), True, Str(67), Pos(<<19>>),
  Str(68), Value("STRING", <<45, 57, 116, 114, 117, 101, 49, 57>>),
  Str(69), Value("BYTES", <<170, 187, 204, 221, 238, 255>>),
  Str(70), Nil>>

SimpleBytes == <<
  <<241, 6>>, <<217, 1, 65>>, <<12, 9>>, <<217, 1, 66>>, <<3>>, <<217, 1, 67>>, <<8, 19>>,
  <<217, 1, 68>>, <<217, 8, 45, 57, 116, 114, 117, 101, 49, 57>>,
  <<217, 1, 69>>, <<225, 6, 170, 187, 204, 221, 238, 255>>, <<217, 1, 70>>, <<1>>>>

BincBytes == <<
  <<122>>, <<69, 65>>, <<32, 9>>, <<69, 66>>, <<2>>, <<69, 67>>, <<16, 19>>,
  <<69, 68>>, <<76, 45, 57, 116, 114, 117, 101, 49, 57>>,
  <<69, 69>>, <<90, 170, 187, 204, 221, 238, 255>>, <<69, 70>>, <<0>>>>

(* codec_test.cc:146-169: "10:{ 3:64 = 1:1 }". *)
PrintedTest ==
  LET map == Container("MAP", 1)
      brace == PrintHead(Empty, map, 0)
      key == PrintHead(Separator(brace, map, 1), Pos(<<64>>), 0)
  IN  PrintNul(PrintTail(PrintHead(Separator(key, map, 2), Nil, 0), map))

(* Lengths of one byte, of two and of eight, whose first byte is what is     *)
(* read: -1 and -3 are added to the position, and pass where it stays in     *)
(* the input.                                                                *)
Eight(bd, byte) == <<bd, byte>> \o Same(7, 0)

ASSUME WideLengths ==
  /\ SimpleDecode(<<218, 2, 9, 65, 66>>, 0, "none") = Got(Value("STRING", <<65, 66>>), 5)
  /\ SimpleDecode(Eight(220, 255), 0, "none") = Got(Value("STRING", Wild), 8)
  /\ SimpleDecode(Eight(228, 253), 0, "none") = Got(Value("BYTES", Wild), 6)
  /\ SimpleDecode(Eight(220, 128), 0, "none").err
  /\ SimpleDecode(Eight(252, 255), 0, "none") = Got(Value("EXT", Wild), 9)
  /\ SimpleDecode(Eight(236, 255), 0, "none") = Fail(9)
  /\ SimpleDecode(Eight(236, 255) \o <<1>>, 0, "none") = Crash(9)
  /\ SimpleDecode(<<244, 1, 1>>, 0, "none") = Crash(1)
  /\ SimpleDecode(<<244, 9, 1>>, 0, "none") = Fail(1)
  /\ SimpleDecode(<<236, 1, 1>>, 0, "none") = Fail(1)

ASSUME TestVectors ==
  /\ \A i \in DOMAIN TestValue :
       /\ SimpleEncode(Empty, TestValue[i]).bytes = SimpleBytes[i]
       /\ SimpleDecode(SimpleBytes[i], 0, "none") = Got(TestValue[i], Len(SimpleBytes[i]))
       /\ BincEncode(Empty, TestValue[i], 8).bytes = BincBytes[i]
       /\ BincDecode(BincBytes[i], 0, Unset) = Got(TestValue[i], Len(BincBytes[i]))
  /\ PrintedTest.bytes = Same(17, 1)
=============================================================================
