-------------------------- MODULE CodecStreamProof --------------------------
(***************************************************************************)
(* Theorems about CodecStream, for parts of any type and size, any number  *)
(* of them and of messages, and for inputs that are cut anywhere.          *)
(***************************************************************************)
EXTENDS CodecStream, CodecProof

(* The sender's slice, and its books. *)
SenderTyped ==
  /\ out \in Slices /\ Fits(out)
  /\ parts \in Seq(Parts) /\ ends \in Seq(Nat) /\ owed \in Seq(Nat)
  /\ Len(ends) = Len(parts) /\ Len(owed) = Len(parts)

(* The receiver's positions, and what it has decoded. *)
ReceiverTyped ==
  /\ arrived \in Nat /\ arrived <= Len(out.bytes)
  /\ pos \in Nat /\ at \in Nat /\ left \in Nat \ {0}
  /\ waiting \in BOOLEAN /\ kept \in Nat
  /\ received \in Seq(AnyPart) /\ before \in AnyPart
  /\ \A i \in 1..Len(received) : ~reuse => IsDecoded(received[i])
  /\ kept <= Len(received)

PrinterTyped == widths \in Seq(Nat) /\ Len(widths) <= kept

Typed ==
  /\ format \in {"simple", "binc"} /\ reuse \in BOOLEAN
  /\ SenderTyped
  /\ ReceiverTyped
  /\ PrinterTyped

LEMMA CallsIsNat ==
  ASSUME NEW v, v.count \in Nat
  PROVE  Calls(v) \in Nat
  BY DEF Calls

LEMMA UnsetIsDecoded == Unset \in AnyPart /\ IsDecoded(Unset) /\ Unset.type = "none"
<1>1. Unset = [type |-> "none", data |-> <<>>, count |-> 0]
  BY DEF Unset, Value
<1>2. Unset.type = "none" /\ Unset.data = <<>> /\ Unset.count = 0
  BY <1>1
<1>3. <<>> \in Seq(0..256) /\ <<>> \in Seq(Byte)
  OBVIOUS
<1>4. Unset \in AnyPart
  BY <1>1, <1>3 DEF AnyPart
<1>5. IsDecoded(Unset)
  BY <1>2, <1>3 DEF IsDecoded, Integer
<1> QED
  BY <1>2, <1>4, <1>5

LEMMA PartIsValue ==
  ASSUME NEW p \in Parts
  PROVE  IsValue(p) /\ p.count \in Nat
  BY StreamAssumption, PartsOfValue

LEMMA OwedIsNat ==
  ASSUME SenderTyped, NEW p \in Parts
  PROVE  Owed(p) \in Nat
<1>1. Calls(p) \in Nat
  BY PartIsValue, CallsIsNat
<1>2. CASE Idle
  BY <1>1, <1>2 DEF Owed
<1>3. CASE ~Idle
  <2>1. Len(parts) \in 1..Len(owed) /\ owed[Len(parts)] # 0
    BY <1>3, EmptySeq, LenProperties DEF Idle, Complete, SenderTyped
  <2>2. owed[Len(parts)] \in Nat
    BY <2>1, ElementOfSeq DEF SenderTyped
  <2> QED
    BY <1>1, <1>3, <2>1, <2>2 DEF Owed
<1> QED
  BY <1>2, <1>3

LEMMA InputIsBytes ==
  ASSUME SenderTyped, ReceiverTyped
  PROVE  Input \in Seq(Byte) /\ Len(Input) = arrived
<1>1. out.bytes \in Seq(Byte) /\ arrived \in 0..Len(out.bytes)
  BY DEF SenderTyped, ReceiverTyped, Slices
<1>2. Len(out.bytes) \in Nat
  BY <1>1, LenProperties
<1>3. \A i \in 1..arrived : i \in 1..Len(out.bytes)
  BY <1>1, <1>2
<1>4. \A i \in 1..arrived : out.bytes[i] \in Byte
  BY <1>1, <1>3, ElementOfSeq
<1>5. Input \in Seq(Byte)
  BY <1>1, <1>4 DEF Input
<1>6. Len(Input) = arrived
  BY <1>1, <1>2, <1>4 DEF Input
<1> QED
  BY <1>5, <1>6

(* What the decoder makes of the input, in either format. *)
LEMMA DecodedSound ==
  ASSUME Typed
  PROVE  Sound(Decoded, ~reuse)
<1>1. Input \in Seq(Byte)
  BY InputIsBytes DEF Typed
<1>2. Memory \in AnyPart /\ (~reuse => Memory = Unset)
  BY UnsetIsDecoded DEF Memory, Typed, ReceiverTyped
<1>3. at \in Nat /\ format \in {"simple", "binc"}
  BY DEF Typed, ReceiverTyped
<1>4. CASE format = "simple"
  <2>1. Memory.type \in Types \union {"none"} /\ (~reuse => Memory.type = "none")
    BY <1>2, UnsetIsDecoded DEF AnyPart
  <2>2. Sound(SimpleDecode(Input, at, Memory.type), ~reuse)
    BY <1>1, <1>3, <2>1, SimpleDecodeSound
  <2> QED
    BY <1>4, <2>2 DEF Decoded
<1>5. CASE format = "binc"
  <2>1. ~reuse => IsDecoded(Memory)
    BY <1>2, UnsetIsDecoded
  <2>2. Sound(BincDecode(Input, at, Memory), ~reuse)
    BY <1>1, <1>2, <1>3, <2>1, BincDecodeSound
  <2> QED
    BY <1>5, <2>2 DEF Decoded
<1> QED
  BY <1>3, <1>4, <1>5

LEMMA TypedInit ==
  Init => Typed
<1> SUFFICES ASSUME Init PROVE Typed
  OBVIOUS
<1>1. out \in Slices /\ Fits(out) /\ Len(out.bytes) = 0
  <2>1. out = [bytes |-> <<>>, cap |-> 0, over |-> FALSE]
    BY DEF Init, Empty
  <2>2. <<>> \in Seq(Byte) /\ Len(<<>>) = 0 /\ 0 \in Nat
    OBVIOUS
  <2>3. out.bytes = <<>> /\ out.cap = 0 /\ out.over = FALSE
    BY <2>1
  <2>4. 0 % Line = 0
    BY LineAssumption
  <2> QED
    BY <2>1, <2>2, <2>3, <2>4 DEF Slices, Fits
<1>2. SenderTyped
  BY <1>1 DEF Init, SenderTyped
<1>3. ReceiverTyped
  <2>1. received = <<>> /\ received \in Seq(AnyPart) /\ Len(received) = 0
    BY DEF Init
  <2>2. arrived = 0 /\ pos = 0 /\ at = 0 /\ left = 1 /\ kept = 0 /\ before = Unset /\ waiting = FALSE
    BY DEF Init
  <2> QED
    <3>1. ~\E i \in 1..Len(received) : TRUE
      BY <2>1
    <3>2. arrived \in Nat /\ pos \in Nat /\ at \in Nat /\ left \in Nat \ {0} /\ kept \in Nat
      BY <2>2
    <3>3. waiting \in BOOLEAN /\ before \in AnyPart
      BY <2>2, UnsetIsDecoded
    <3>4. arrived <= Len(out.bytes) /\ kept <= Len(received)
      BY <1>1, <2>1, <2>2
    <3> QED
      BY <2>1, <3>1, <3>2, <3>3, <3>4 DEF ReceiverTyped
<1>4. PrinterTyped
  BY DEF Init, PrinterTyped
<1> QED
  BY <1>2, <1>3, <1>4 DEF Typed, Init

(* A slice after a part is the slice before it and the part's image. *)
Image(p, k) == IF format = "simple" THEN SimpleImage(p) ELSE BincImage(p, k)

LEMMA EncodeGrows ==
  ASSUME Typed, NEW p \in Parts, NEW k \in 1..8, Encode(p, k)
  PROVE  Grew(out, out', Image(p, k))
<1>1. out \in Slices /\ Fits(out)
  BY DEF Typed, SenderTyped
<1>2. IsValue(p)
  BY PartIsValue
<1>3. Grew(out, SimpleEncode(out, p), SimpleImage(p))
  BY <1>1, <1>2, SimpleEncodeGrows
<1>4. Grew(out, BincEncode(out, p, k), BincImage(p, k))
  BY <1>1, <1>2, BincEncodeGrows
<1>5. CASE format = "simple"
  BY <1>3, <1>5 DEF Encode, Image
<1>6. CASE format # "simple"
  BY <1>4, <1>6 DEF Encode, Image
<1> QED
  BY <1>5, <1>6

LEMMA TypedEncode ==
  ASSUME Typed, NEW p \in Parts, NEW k \in 1..8, Encode(p, k)
  PROVE  Typed'
<1>1. out' \in Slices /\ Fits(out)' /\ out'.bytes = out.bytes \o Image(p, k) /\ Image(p, k) \in Seq(Byte)
  BY EncodeGrows DEF Grew, Fits
<1>2. out.bytes \in Seq(Byte) /\ out'.bytes \in Seq(Byte)
  BY <1>1 DEF Typed, SenderTyped, Slices
<1>3. Len(out'.bytes) \in Nat /\ Len(out'.bytes) >= Len(out.bytes)
  BY <1>1, <1>2, ConcatProperties, LenProperties
<1>4. Owed(p) \in Nat
  BY OwedIsNat DEF Typed
<1>5. SenderTyped'
  <2>1. parts' = Append(parts, p) /\ ends' = Append(ends, Len(out'.bytes)) /\ owed' = Append(owed, Owed(p))
    BY DEF Encode
  <2>2. parts' \in Seq(Parts) /\ ends' \in Seq(Nat) /\ owed' \in Seq(Nat)
    BY <1>3, <1>4, <2>1, AppendProperties DEF Typed, SenderTyped
  <2>3. Len(parts') = Len(parts) + 1 /\ Len(ends') = Len(ends) + 1 /\ Len(owed') = Len(owed) + 1
    BY <1>3, <1>4, <2>1, AppendProperties DEF Typed, SenderTyped
  <2> QED
    BY <1>1, <2>2, <2>3 DEF Typed, SenderTyped
<1>6. ReceiverTyped'
  <2>1. /\ UNCHANGED <<arrived, pos, at, left, waiting, kept, received, before, reuse>>
    BY DEF Encode, decoder
  <2>2. arrived <= Len(out'.bytes)
    BY <1>2, <1>3, LenProperties DEF Typed, ReceiverTyped
  <2> QED
    BY <2>1, <2>2 DEF Typed, ReceiverTyped
<1>7. PrinterTyped'
  BY DEF Typed, PrinterTyped, Encode, decoder, printer
<1> QED
  BY <1>5, <1>6, <1>7 DEF Typed, Encode

LEMMA TypedArrive ==
  ASSUME Typed, NEW n \in 1..Len(out.bytes), Arrive(n)
  PROVE  Typed'
<1>1. UNCHANGED <<format, reuse, out, parts, ends, owed, pos, at, left, received, kept, before, widths>>
  BY DEF Arrive, sender, printer
<1>2. SenderTyped' /\ PrinterTyped'
  BY <1>1 DEF Typed, SenderTyped, PrinterTyped, Fits
<1>3. arrived' \in Nat /\ arrived' <= Len(out.bytes) /\ waiting' = FALSE
  BY DEF Arrive
<1>4. ReceiverTyped'
  BY <1>1, <1>3 DEF Typed, ReceiverTyped
<1> QED
  BY <1>1, <1>2, <1>4 DEF Typed

(* A part that was decoded, and the sequence with it. *)
LEMMA PartDecoded ==
  ASSUME Typed, MayDecode, ~Decoded.err
  PROVE  /\ Decoded.v \in AnyPart /\ (~reuse => IsDecoded(Decoded.v))
         /\ Decoded.pos \in Nat /\ Left \in Nat
         /\ Append(received, Decoded.v) \in Seq(AnyPart)
         /\ Len(Append(received, Decoded.v)) = Len(received) + 1
         /\ \A i \in 1..(Len(received) + 1) : ~reuse => IsDecoded(Append(received, Decoded.v)[i])
<1>1. /\ Decoded.v \in AnyPart /\ (~reuse => IsDecoded(Decoded.v))
      /\ Decoded.pos \in Nat
  BY DecodedSound DEF Sound
<1>2. Left \in Nat
  <2>1. Calls(Decoded.v) \in Nat
    BY <1>1, CallsIsNat DEF AnyPart
  <2> QED
    BY <2>1 DEF Left, Typed, ReceiverTyped
<1>3. /\ Append(received, Decoded.v) \in Seq(AnyPart)
      /\ Len(Append(received, Decoded.v)) = Len(received) + 1
  BY <1>1, AppendProperties DEF Typed, ReceiverTyped
<1>4. ASSUME NEW i \in 1..(Len(received) + 1), ~reuse
      PROVE  IsDecoded(Append(received, Decoded.v)[i])
  <2>1. received \in Seq(AnyPart) /\ Len(received) \in Nat
    BY LenProperties DEF Typed, ReceiverTyped
  <2>2. CASE i = Len(received) + 1
    BY <1>1, <1>4, <2>1, <2>2, AppendProperties
  <2>3. CASE i # Len(received) + 1
    <3>1. i \in 1..Len(received)
      BY <2>1, <2>3
    <3>2. Append(received, Decoded.v)[i] = received[i]
      BY <1>1, <2>1, <3>1, AppendProperties
    <3> QED
      BY <1>4, <3>1, <3>2 DEF Typed, ReceiverTyped
  <2> QED
    BY <2>2, <2>3
<1> QED
  BY <1>1, <1>2, <1>3, <1>4

LEMMA TypedElement ==
  ASSUME Typed, Element
  PROVE  Typed'
<1>1. UNCHANGED <<format, reuse, out, parts, ends, owed, arrived, pos, kept, before, waiting, widths>>
  BY DEF Element, sender, printer
<1>2. SenderTyped' /\ PrinterTyped'
  BY <1>1 DEF Typed, SenderTyped, PrinterTyped, Fits
<1>3. received' = Append(received, Decoded.v) /\ at' = Decoded.pos /\ left' = Left /\ Left > 0
  BY DEF Element
<1>4. MayDecode /\ ~Decoded.err
  BY DEF Element
<1>5. /\ at' \in Nat /\ left' \in Nat \ {0}
      /\ received' \in Seq(AnyPart) /\ Len(received') = Len(received) + 1
      /\ \A i \in 1..Len(received') : ~reuse => IsDecoded(received'[i])
  BY <1>3, <1>4, PartDecoded
<1>6. ReceiverTyped'
  <2>1. Len(received) \in Nat
    BY LenProperties DEF Typed, ReceiverTyped
  <2> QED
    BY <1>1, <1>5, <2>1 DEF Typed, ReceiverTyped
<1> QED
  BY <1>1, <1>2, <1>6 DEF Typed

LEMMA TypedReceive ==
  ASSUME Typed, Receive
  PROVE  Typed'
<1>1. UNCHANGED <<format, reuse, out, parts, ends, owed, arrived, waiting, widths>>
  BY DEF Receive, sender, printer
<1>2. SenderTyped'
  BY <1>1 DEF Typed, SenderTyped, Fits
<1>3. received' = Append(received, Decoded.v) /\ at' = Decoded.pos /\ pos' = at' /\ left' = 1
  BY DEF Receive
<1>4. MayDecode /\ ~Decoded.err
  BY DEF Receive
<1>5. /\ at' \in Nat
      /\ received' \in Seq(AnyPart) /\ Len(received') = Len(received) + 1
      /\ \A i \in 1..Len(received') : ~reuse => IsDecoded(received'[i])
  BY <1>3, <1>4, PartDecoded
<1>6. Len(received) \in Nat /\ kept \in Nat /\ kept <= Len(received)
  BY LenProperties DEF Typed, ReceiverTyped
<1>7. kept' = Len(received') /\ kept' \in Nat /\ kept' > kept
  BY <1>5, <1>6 DEF Receive
<1>8. before' \in AnyPart
  <2>1. kept + 1 \in 1..Len(received')
    BY <1>5, <1>6
  <2> QED
    BY <1>5, <2>1, ElementOfSeq DEF Receive
<1>9. ReceiverTyped'
  BY <1>1, <1>3, <1>5, <1>7, <1>8 DEF Typed, ReceiverTyped
<1>10. PrinterTyped'
  BY <1>1, <1>6, <1>7, LenProperties DEF Typed, PrinterTyped
<1> QED
  BY <1>1, <1>2, <1>9, <1>10 DEF Typed

LEMMA TypedReject ==
  ASSUME Typed, Reject
  PROVE  Typed'
<1>1. UNCHANGED <<format, reuse, out, parts, ends, owed, arrived, pos, kept, before, widths>>
  BY DEF Reject, sender, printer
<1>2. SenderTyped' /\ PrinterTyped'
  BY <1>1 DEF Typed, SenderTyped, PrinterTyped, Fits
<1>3. received' = SubSeq(received, 1, kept) /\ at' = pos /\ left' = 1 /\ waiting' = TRUE
  BY DEF Reject
<1>4. received \in Seq(AnyPart) /\ kept \in Nat /\ kept <= Len(received) /\ Len(received) \in Nat
  BY LenProperties DEF Typed, ReceiverTyped
<1>5. \A i \in 1..kept : i \in 1..Len(received)
  BY <1>4
<1>6. received' \in Seq(AnyPart) /\ Len(received') = kept /\ \A i \in 1..kept : received'[i] = received[i]
  <2>1. \A i \in 1..kept : received[i] \in AnyPart
    BY <1>4, <1>5, ElementOfSeq
  <2> QED
    BY <1>3, <1>4, <2>1
<1>7. \A i \in 1..Len(received') : ~reuse => IsDecoded(received'[i])
  BY <1>5, <1>6 DEF Typed, ReceiverTyped
<1>8. ReceiverTyped'
  BY <1>1, <1>3, <1>4, <1>6, <1>7 DEF Typed, ReceiverTyped
<1> QED
  BY <1>1, <1>2, <1>8 DEF Typed

(* A part is printed only when it is one of a complete value. *)
LEMMA TypedPrint ==
  ASSUME Typed, NEW w \in FloatWidths \union {0}, PrintValue(w) \/ PrintElement(w)
  PROVE  Typed'
<1>1. UNCHANGED <<format, reuse, out, parts, ends, owed, arrived, pos, at, left, waiting, kept, received, before>>
  BY DEF PrintValue, PrintElement, sender, decoder
<1>2. SenderTyped' /\ ReceiverTyped'
  BY <1>1 DEF Typed, SenderTyped, ReceiverTyped, Fits
<1>3. widths' = Append(widths, w) /\ Len(widths) < Len(received) /\ Len(received) = kept
  BY DEF PrintValue, PrintElement, IsNext, MayPrint, Between
<1>4. w \in Nat
  BY StreamAssumption
<1>5. widths' \in Seq(Nat) /\ Len(widths') = Len(widths) + 1 /\ Len(widths) \in Nat
  BY <1>3, <1>4, AppendProperties, LenProperties DEF Typed, PrinterTyped
<1>6. PrinterTyped'
  BY <1>1, <1>3, <1>5 DEF Typed, PrinterTyped, ReceiverTyped
<1> QED
  BY <1>1, <1>2, <1>6 DEF Typed

LEMMA TypedElsewhere ==
  ASSUME Typed,
         UNCHANGED <<format, reuse, out, parts, ends, owed, arrived, pos, at, left, waiting, kept, received,
                     before, widths>>
  PROVE  Typed'
  BY DEF Typed, SenderTyped, ReceiverTyped, PrinterTyped, Fits

LEMMA TypedStep ==
  ASSUME Typed, [Next]_vars
  PROVE  Typed'
<1>1. CASE UNCHANGED vars
  BY <1>1, TypedElsewhere DEF vars
<1>2. CASE \E p \in Parts, k \in 1..8 : Encode(p, k)
  BY <1>2, TypedEncode
<1>3. CASE \E n \in 1..Len(out.bytes) : Arrive(n)
  BY <1>3, TypedArrive
<1>4. CASE Element
  BY <1>4, TypedElement
<1>5. CASE Receive
  BY <1>5, TypedReceive
<1>6. CASE Reject
  BY <1>6, TypedReject
<1>7. CASE \E w \in FloatWidths \union {0} : PrintValue(w) \/ PrintElement(w)
  BY <1>7, TypedPrint
<1>8. CASE PrintNextByte \/ PrintReturn
  BY <1>8, TypedElsewhere DEF PrintNextByte, PrintReturn, sender, decoder
<1> QED
  BY <1>1, <1>2, <1>3, <1>4, <1>5, <1>6, <1>7, <1>8 DEF Next

LEMMA AlwaysTyped == Spec => []Typed
<1>1. Init => Typed
  BY TypedInit
<1>2. Typed /\ [Next]_vars => Typed'
  BY TypedStep
<1> QED
  BY <1>1, <1>2, PTL DEF Spec

(* TypeOK of CodecStream, for any parts, of any size and number: what is    *)
(* decoded from the bytes that an encoder wrote, however they were cut and  *)
(* wherever the decoder got to in them, has a type and data of that type,   *)
(* or the mark of bytes whose length passed the check by wrapping; where a  *)
(* decoder stores through NULL there is no next step (codec.c:139-140,      *)
(* simplecodec.c:172, binc.c:218).                                          *)
THEOREM Typing == Spec => []TypeOK
<1>1. Typed => TypeOK
  <2> SUFFICES ASSUME Typed PROVE TypeOK
    OBVIOUS
  <2>1. out.bytes \in Seq(Byte) /\ out.cap \in Nat /\ Len(out.bytes) \in Nat
    BY LenProperties DEF Typed, SenderTyped, Slices
  <2>2. /\ arrived \in 0..Len(out.bytes)
        /\ pos \in Nat /\ at \in Nat /\ left \in Nat \ {0} /\ waiting \in BOOLEAN
    BY <2>1 DEF Typed, ReceiverTyped
  <2>3. kept \in 0..Len(received) /\ Len(widths) <= Len(received)
    BY LenProperties DEF Typed, ReceiverTyped, PrinterTyped
  <2>4. DOMAIN received = 1..Len(received) /\ \A i \in 1..Len(received) : received[i] \in AnyPart
    BY ElementOfSeq, LenProperties DEF Typed, ReceiverTyped
  <2>5. \A i \in DOMAIN received :
          received[i].type \in Types \union {"none"} /\ (~reuse => IsDecoded(received[i]))
    BY <2>4 DEF Typed, ReceiverTyped, AnyPart
  <2> QED
    BY <2>1, <2>2, <2>3, <2>5 DEF TypeOK
<1> QED
  BY <1>1, AlwaysTyped, PTL

(* Room: no write of an encoder, of any value, lies outside the block of   *)
(* its slice, and neither does the NUL that slice_bytes_append writes after *)
(* the bytes (slice.c:13-37, simplecodec.c:92, binc.c:106).                *)
THEOREM RoomThere == Spec => []Room
<1>1. Typed => Room
  BY DEF Typed, SenderTyped, Room
<1> QED
  BY <1>1, AlwaysTyped, PTL
-----------------------------------------------------------------------------
(* The text, and the calls that write it.  Only the last of the calls can    *)
(* be of a part with bytes: what is around it has parts in it.               *)
Frames == [v : AnyPart, turns : Nat]

AllNarrow == \A i \in 1..Len(widths) : Narrow(received[i])
AllWhole == \A i \in 1..Len(widths) : Whole(received[i], widths[i])

OpenTyped ==
  /\ open \in Seq(Frames)
  /\ open # <<>> => ~reuse
  /\ \A j \in 1..Len(open) :
       /\ Printable(open[j].v)
       /\ \E i \in 1..Len(widths) : open[j].v = received[i]
  /\ \A j \in 1..(Len(open) - 1) : Calls(open[j].v) # 0

(* There is room for two characters of each of the bytes that are left, and a *)
(* NUL.                                                                       *)
RoomForBytes ==
  AllNarrow /\ open # <<>> /\ Blob(Top.v) # <<>> =>
    /\ Top.turns <= Len(Blob(Top.v))
    /\ text.cap >= Len(text.bytes) + 2 * (Len(Blob(Top.v)) - Top.turns) + 1

TextTyped ==
  /\ text \in Texts
  /\ AllNarrow => ~text.over
  /\ AllWhole => Ones(text)

Printing == OpenTyped /\ RoomForBytes /\ TextTyped

LEMMA PrintingInit ==
  Init => Printing
<1> SUFFICES ASSUME Init PROVE Printing
  OBVIOUS
<1>1. open = <<>> /\ open \in Seq(Frames) /\ Len(open) = 0 /\ widths = <<>> /\ Len(widths) = 0
  BY DEF Init
<1>2. OpenTyped /\ RoomForBytes
  <2>1. ~\E j \in 1..Len(open) : TRUE
    BY <1>1
  <2>2. ~\E j \in 1..(Len(open) - 1) : TRUE
    BY <1>1
  <2> QED
    BY <1>1, <2>1, <2>2 DEF OpenTyped, RoomForBytes
<1>3. TextTyped
  <2>1. text = [bytes |-> <<>>, cap |-> 0, over |-> FALSE]
    BY DEF Init, Empty
  <2>2. text.bytes = <<>> /\ text.cap = 0 /\ text.over = FALSE
    BY <2>1
  <2>3. <<>> \in Seq(0..1) /\ Len(<<>>) = 0 /\ 0 \in Nat
    OBVIOUS
  <2>4. text \in Texts
    BY <2>1, <2>3 DEF Texts
  <2>5. Ones(text)
    BY <2>2, <2>3 DEF Ones
  <2> QED
    BY <2>2, <2>4, <2>5 DEF TextTyped
<1> QED
  BY <1>2, <1>3 DEF Printing

(* A step that prints nothing and leaves alone what was printed. *)
LEMMA PrintingElsewhere ==
  ASSUME Printing, UNCHANGED <<reuse, text, widths, open>>,
         \A i \in 1..Len(widths) : received'[i] = received[i]
  PROVE  Printing'
<1>1. (AllNarrow' => AllNarrow) /\ (AllWhole' => AllWhole)
  BY DEF AllNarrow, AllWhole
<1>2. OpenTyped'
  BY DEF Printing, OpenTyped
<1>3. Top' = Top
  BY DEF Top
<1>4. RoomForBytes'
  BY <1>1, <1>3 DEF Printing, RoomForBytes
<1>5. TextTyped'
  BY <1>1 DEF Printing, TextTyped
<1> QED
  BY <1>2, <1>4, <1>5 DEF Printing

(* What is received is not changed up to what was printed of it. *)
LEMMA PrintedStays ==
  ASSUME Typed, Element \/ Receive \/ Reject
  PROVE  \A i \in 1..Len(widths) : received'[i] = received[i]
<1> TAKE i \in 1..Len(widths)
<1>1. /\ received \in Seq(AnyPart) /\ Len(received) \in Nat /\ kept \in Nat /\ kept <= Len(received)
      /\ Len(widths) <= kept /\ Len(widths) \in Nat
  BY LenProperties DEF Typed, ReceiverTyped, PrinterTyped
<1>2. i \in 1..Len(received) /\ i \in 1..kept
  BY <1>1
<1>3. CASE Element \/ Receive
  <2>1. received' = Append(received, Decoded.v) /\ Decoded.v \in AnyPart
    BY <1>3, PartDecoded DEF Element, Receive
  <2> QED
    BY <1>1, <1>2, <2>1, AppendProperties
<1>4. CASE Reject
  <2>1. received' = SubSeq(received, 1, kept)
    BY <1>4 DEF Reject
  <2> QED
    BY <1>1, <1>2, <2>1, PrefixOf
<1> QED
  BY <1>3, <1>4

(* A part of a complete value that is next to be printed. *)
LEMMA NextShown ==
  ASSUME Typed, MayPrint, NEW w \in FloatWidths \union {0}, IsNext(w), widths' = Append(widths, w),
         received' = received
  PROVE  /\ Shown \in AnyPart /\ Printable(Shown) /\ w \in Nat
         /\ widths' \in Seq(Nat) /\ Len(widths') = Len(widths) + 1 /\ Len(widths) \in Nat
         /\ Shown = received'[Len(widths')]
         /\ AllNarrow' => AllNarrow /\ Narrow(Shown)
         /\ AllWhole' => AllWhole /\ Whole(Shown, w)
<1>1. received \in Seq(AnyPart) /\ Len(received) \in Nat /\ Len(widths) \in Nat /\ widths \in Seq(Nat)
  BY LenProperties DEF Typed, ReceiverTyped, PrinterTyped
<1>2. w \in Nat
  BY StreamAssumption
<1>3. /\ widths' \in Seq(Nat) /\ Len(widths') = Len(widths) + 1
      /\ widths'[Len(widths) + 1] = w
      /\ \A i \in 1..Len(widths) : widths'[i] = widths[i]
  BY <1>1, <1>2, AppendProperties
<1>4. Len(widths) + 1 \in 1..Len(received)
  BY <1>1 DEF IsNext
<1>5. Shown \in AnyPart /\ Printable(Shown)
  <2>1. Shown \in AnyPart
    BY <1>1, <1>4, ElementOfSeq DEF Shown
  <2>2. Printable(Shown)
    BY <1>4 DEF Shown, Typed, ReceiverTyped, MayPrint, IsNext, Printable
  <2> QED
    BY <2>1, <2>2
<1>6. Shown = received'[Len(widths')]
  BY <1>3 DEF Shown
<1>7. Len(widths') \in 1..Len(widths') /\ \A i \in 1..Len(widths) : i \in 1..Len(widths')
  BY <1>1, <1>3
<1>8. AllNarrow' => AllNarrow /\ Narrow(Shown)
  BY <1>6, <1>7 DEF AllNarrow
<1>9. AllWhole' => AllWhole /\ Whole(Shown, w)
  BY <1>3, <1>6, <1>7 DEF AllWhole
<1> QED
  BY <1>1, <1>2, <1>3, <1>5, <1>6, <1>8, <1>9

(* The text with the head of a part after it. *)
LEMMA PrintedHead ==
  ASSUME Typed, Printing, NEW v \in AnyPart, Printable(v), NEW w \in Nat,
         NEW s, Printed(text, s, FALSE), text' = PrintHead(s, v, w),
         AllNarrow' => AllNarrow /\ Narrow(v), AllWhole' => AllWhole /\ Whole(v, w)
  PROVE  /\ TextTyped'
         /\ v.type \in {"BYTES", "EXT"} => text'.cap >= Len(text'.bytes) + 2 * Len(Blob(v)) + 1
<1>1. s \in Texts
  BY DEF Printed
<1>2. /\ Printed(s, text', ~Whole(v, w))
      /\ v.type \in {"BYTES", "EXT"} => text'.cap >= Len(text'.bytes) + 2 * Len(Blob(v)) + 1
  BY <1>1, PrintHeadText
<1>3. text' \in Texts
  BY <1>2 DEF Printed
<1>4. AllNarrow' => ~text'.over
  BY <1>2 DEF Printed, Printing, TextTyped
<1>5. AllWhole' => Ones(text')
  BY <1>2 DEF Printed, Printing, TextTyped
<1>6. Ones(text)' = Ones(text')
  BY DEF Ones
<1> QED
  BY <1>2, <1>3, <1>4, <1>5, <1>6 DEF TextTyped

LEMMA RoomAfterHead ==
  ASSUME NEW v \in AnyPart, Printable(v), Top' = Frame(v),
         v.type \in {"BYTES", "EXT"} => text'.cap >= Len(text'.bytes) + 2 * Len(Blob(v)) + 1
  PROVE  RoomForBytes'
<1>1. Top'.v = v /\ Top'.turns = 0
  BY DEF Frame
<1>2. Len(Blob(v)) \in Nat /\ (v.type \notin {"BYTES", "EXT"} => Blob(v) = <<>>)
  BY BlobOf, LenProperties
<1>3. Top'.turns <= Len(Blob(Top'.v)) /\ Len(Blob(Top'.v)) - Top'.turns = Len(Blob(v))
  BY <1>1, <1>2
<1>4. CASE v.type \in {"BYTES", "EXT"}
  BY <1>3, <1>4 DEF RoomForBytes
<1>5. CASE v.type \notin {"BYTES", "EXT"}
  BY <1>1, <1>2, <1>5 DEF RoomForBytes
<1> QED
  BY <1>4, <1>5

LEMMA FrameTyped ==
  ASSUME NEW v \in AnyPart
  PROVE  Frame(v) \in Frames /\ Frame(v).v = v /\ Frame(v).turns = 0
  BY DEF Frame, Frames

LEMMA PrintingValue ==
  ASSUME Typed, Printing, NEW w \in FloatWidths \union {0}, PrintValue(w)
  PROVE  Printing'
<1>1. /\ MayPrint /\ IsNext(w) /\ ~reuse
      /\ text' = PrintHead(text, Shown, w) /\ widths' = Append(widths, w) /\ open' = <<Frame(Shown)>>
      /\ reuse' = reuse /\ received' = received
  BY DEF PrintValue, MayPrint, decoder
<1>2. /\ Shown \in AnyPart /\ Printable(Shown) /\ w \in Nat
      /\ Len(widths') = Len(widths) + 1 /\ Len(widths) \in Nat
      /\ Shown = received'[Len(widths')]
      /\ AllNarrow' => AllNarrow /\ Narrow(Shown)
      /\ AllWhole' => AllWhole /\ Whole(Shown, w)
  BY <1>1, NextShown
<1>3. Printed(text, text, FALSE)
  BY DEF Printing, TextTyped, Printed
<1>4. /\ TextTyped'
      /\ Shown.type \in {"BYTES", "EXT"} => text'.cap >= Len(text'.bytes) + 2 * Len(Blob(Shown)) + 1
  BY <1>1, <1>2, <1>3, PrintedHead
<1>5. Frame(Shown) \in Frames /\ Frame(Shown).v = Shown
  BY <1>2, FrameTyped
<1> DEFINE F == Frame(Shown)
<1> HIDE DEF F
<1>6. open' = <<F>> /\ open' \in Seq(Frames) /\ Len(open') = 1 /\ open'[1] = F /\ open' # <<>>
  BY <1>1, <1>5 DEF F
<1>7. Top' = F
  BY <1>6 DEF Top
<1>8. RoomForBytes'
  BY <1>2, <1>4, <1>7, RoomAfterHead DEF F
<1>9. OpenTyped'
  <2>1. Len(widths') \in 1..Len(widths')
    BY <1>2
  <2>2. \A j \in 1..Len(open') : open'[j].v = Shown
    BY <1>5, <1>6 DEF F
  <2>3. ~\E j \in 1..(Len(open') - 1) : TRUE
    BY <1>6
  <2> QED
    BY <1>1, <1>2, <1>6, <2>1, <2>2, <2>3 DEF OpenTyped
<1> QED
  BY <1>4, <1>8, <1>9 DEF Printing

(* The last of the calls, and the calls when it has gone around its loop. *)
LEMMA TopTyped ==
  ASSUME Typed, Printing, open # <<>>
  PROVE  /\ Len(open) \in Nat \ {0} /\ Len(open) \in 1..Len(open)
         /\ Top \in Frames /\ Top.v \in AnyPart /\ Top.turns \in Nat /\ Printable(Top.v)
         /\ \E i \in 1..Len(widths) : Top.v = received[i]
         /\ Turned \in Seq(Frames) /\ Len(Turned) = Len(open)
         /\ Turned[Len(open)].v = Top.v /\ Turned[Len(open)].turns = Top.turns + 1
         /\ \A j \in 1..Len(open) : Turned[j].v = open[j].v
<1>1. open \in Seq(Frames)
  BY DEF Printing, OpenTyped
<1>2. Len(open) \in Nat \ {0} /\ Len(open) \in 1..Len(open)
  BY <1>1, EmptySeq, LenProperties
<1>3. Top \in Frames
  BY <1>1, <1>2, ElementOfSeq DEF Top
<1>4. Top.v \in AnyPart /\ Top.turns \in Nat
  BY <1>3 DEF Frames
<1>5. Printable(Top.v) /\ \E i \in 1..Len(widths) : Top.v = received[i]
  BY <1>2 DEF Top, Printing, OpenTyped
<1> DEFINE G == [Top EXCEPT !.turns = @ + 1]
<1>6. G \in Frames /\ G.v = Top.v /\ G.turns = Top.turns + 1
  BY <1>3, <1>4 DEF Frames
<1>7. Turned = [open EXCEPT ![Len(open)] = G]
  BY DEF Turned, Top
<1> HIDE DEF G
<1>8. Turned \in Seq(Frames) /\ Len(Turned) = Len(open)
  BY <1>1, <1>2, <1>6, <1>7, ExceptSeq
<1>9. \A j \in 1..Len(open) : Turned[j] = IF j = Len(open) THEN G ELSE open[j]
  BY <1>1, <1>2, <1>6, <1>7, ExceptSeq
<1>10. Turned[Len(open)] = G
  BY <1>2, <1>9
<1>11. \A j \in 1..Len(open) : Turned[j].v = open[j].v
  BY <1>6, <1>9 DEF Top
<1> QED
  BY <1>2, <1>3, <1>4, <1>5, <1>6, <1>8, <1>10, <1>11

LEMMA PrintingElement ==
  ASSUME Typed, Printing, NEW w \in FloatWidths \union {0}, PrintElement(w)
  PROVE  Printing'
<1> DEFINE s == Separator(text, Top.v, Top.turns + 1)
<1>1. /\ MayPrint /\ IsNext(w) /\ ~reuse /\ open # <<>> /\ Top.turns < Calls(Top.v)
      /\ text' = PrintHead(s, Shown, w) /\ widths' = Append(widths, w)
      /\ open' = Append(Turned, Frame(Shown))
      /\ reuse' = reuse /\ received' = received
  BY DEF PrintElement, MayPrint, decoder
<1>2. /\ Shown \in AnyPart /\ Printable(Shown) /\ w \in Nat
      /\ Len(widths') = Len(widths) + 1 /\ Len(widths) \in Nat
      /\ Shown = received'[Len(widths')]
      /\ AllNarrow' => AllNarrow /\ Narrow(Shown)
      /\ AllWhole' => AllWhole /\ Whole(Shown, w)
  BY <1>1, NextShown
<1>3. Printed(text, s, FALSE)
  BY SeparatorText DEF Printing, TextTyped
<1> HIDE DEF s
<1>4. /\ TextTyped'
      /\ Shown.type \in {"BYTES", "EXT"} => text'.cap >= Len(text'.bytes) + 2 * Len(Blob(Shown)) + 1
  BY <1>1, <1>2, <1>3, PrintedHead
<1> DEFINE F == Frame(Shown)
           n == Len(open)
<1>5. F \in Frames /\ F.v = Shown
  BY <1>2, FrameTyped
<1>6. /\ n \in Nat \ {0} /\ Turned \in Seq(Frames) /\ Len(Turned) = n
      /\ \A j \in 1..n : Turned[j].v = open[j].v
      /\ Top.turns \in Nat /\ Top.v \in AnyPart
  BY <1>1, TopTyped
<1> HIDE DEF F, n
<1>7. /\ open' \in Seq(Frames) /\ Len(open') = n + 1 /\ open'[n + 1] = F /\ open' # <<>>
      /\ \A j \in 1..n : open'[j] = Turned[j]
  <2>1. open' = Append(Turned, F)
    BY <1>1 DEF F
  <2>2. open' \in Seq(Frames) /\ Len(open') = n + 1 /\ open'[n + 1] = F /\ \A j \in 1..n : open'[j] = Turned[j]
    BY <1>5, <1>6, <2>1, AppendProperties
  <2>3. open' # <<>>
    BY <1>6, <2>2
  <2> QED
    BY <2>2, <2>3
<1>8. Top' = F
  BY <1>7 DEF Top
<1>9. RoomForBytes'
  BY <1>2, <1>4, <1>8, RoomAfterHead DEF F
<1>10. OpenTyped'
  <2>1. Len(widths') \in 1..Len(widths') /\ \A i \in 1..Len(widths) : i \in 1..Len(widths')
    BY <1>2
  <2>2. \A j \in 1..n : open'[j].v = open[j].v
    BY <1>6, <1>7
  <2>3. ASSUME NEW j \in 1..Len(open')
        PROVE  Printable(open'[j].v) /\ \E i \in 1..Len(widths') : open'[j].v = received'[i]
    <3>1. CASE j = n + 1
      BY <1>2, <1>5, <1>7, <2>1, <3>1
    <3>2. CASE j # n + 1
      <4>1. j \in 1..n
        BY <1>6, <1>7, <3>2
      <4>2. Printable(open[j].v) /\ \E i \in 1..Len(widths) : open[j].v = received[i]
        BY <4>1 DEF Printing, OpenTyped, n
      <4> QED
        BY <1>1, <2>1, <2>2, <4>1, <4>2
    <3> QED
      BY <3>1, <3>2
  <2>4. ASSUME NEW j \in 1..(Len(open') - 1)
        PROVE  Calls(open'[j].v) # 0
    <3>1. j \in 1..n
      BY <1>6, <1>7
    <3>2. CASE j = n
      <4>1. Calls(Top.v) # 0
        <5>1. Calls(Top.v) \in Nat
          BY <1>6, CallsIsNat DEF AnyPart
        <5> QED
          BY <1>1, <1>6, <5>1
      <4> QED
        BY <2>2, <3>1, <3>2, <4>1 DEF Top, n
    <3>3. CASE j # n
      <4>1. j \in 1..(Len(open) - 1)
        BY <1>6, <3>1, <3>3 DEF n
      <4> QED
        BY <2>2, <3>1, <4>1 DEF Printing, OpenTyped
    <3> QED
      BY <3>2, <3>3
  <2> QED
    BY <1>1, <1>7, <2>3, <2>4 DEF OpenTyped
<1> QED
  BY <1>4, <1>9, <1>10 DEF Printing

(* A byte of BYTES or of an extension has room when each of those before it *)
(* took two characters at most.                                             *)
LEMMA PrintingByte ==
  ASSUME Typed, Printing, PrintNextByte
  PROVE  Printing'
<1> DEFINE b == Blob(Top.v)
           i == Top.turns + 1
           n == ByteWidth(Top.v, b[i])
<1>1. /\ open # <<>> /\ Top.turns < Len(b) /\ ~reuse
      /\ text' = Snprintf(text, 3, n) /\ open' = Turned
      /\ UNCHANGED <<reuse, received, widths>>
  BY DEF PrintNextByte, PrintByte, MayPrint, decoder
<1>2. /\ Len(open) \in Nat \ {0} /\ Len(open) \in 1..Len(open)
      /\ Top.v \in AnyPart /\ Top.turns \in Nat /\ Printable(Top.v)
      /\ \E m \in 1..Len(widths) : Top.v = received[m]
      /\ Turned \in Seq(Frames) /\ Len(Turned) = Len(open)
      /\ Turned[Len(open)].v = Top.v /\ Turned[Len(open)].turns = Top.turns + 1
      /\ \A j \in 1..Len(open) : Turned[j].v = open[j].v
  BY <1>1, TopTyped
<1>3. b \in Seq(Byte) /\ Len(b) \in Nat /\ \A j \in 1..Len(b) : ByteWidth(Top.v, b[j]) \in Nat
  BY <1>2, BlobOf, LenProperties
<1>4. i \in 1..Len(b) /\ n \in Nat /\ b # <<>> /\ DOMAIN b = 1..Len(b)
  BY <1>1, <1>2, <1>3, LenProperties
<1>5. (AllNarrow' <=> AllNarrow) /\ (AllWhole' <=> AllWhole)
  BY <1>1 DEF AllNarrow, AllWhole
<1>6. (AllNarrow => n <= 2) /\ (AllWhole => n <= 2)
  <2>1. Narrow(Top.v) => n <= 2
    BY <1>4 DEF Narrow
  <2>2. (AllNarrow => Narrow(Top.v)) /\ (AllWhole => Narrow(Top.v))
    BY <1>2 DEF AllNarrow, AllWhole, Whole
  <2> QED
    BY <2>1, <2>2
<1>7. text \in Texts /\ text.cap \in Nat /\ Len(text.bytes) \in Nat
  BY LenProperties DEF Printing, TextTyped, Texts
<1>8. /\ text' \in Texts /\ Len(text'.bytes) = Len(text.bytes) + n /\ text'.cap = text.cap
      /\ ~text.over /\ Len(text.bytes) + (IF n < 3 THEN n + 1 ELSE 3) <= text.cap => ~text'.over
      /\ Ones(text) /\ n < 3 => Ones(text')
  <2> HIDE DEF n
  <2> QED
    BY <1>1, <1>4, <1>7, SnprintfText, 3 \in Nat
<1>9. Top' = Turned[Len(open)]
  BY <1>1, <1>2 DEF Top
<1>10. Top'.v = Top.v /\ Top'.turns = Top.turns + 1
  BY <1>2, <1>9
<1> DEFINE room == Len(b) - Top.turns
<1>11. room \in Nat /\ room >= 1 /\ Len(b) - Top'.turns = room - 1 /\ Top'.turns <= Len(b)
  BY <1>1, <1>2, <1>3, <1>10
<1>12. AllNarrow => text.cap >= Len(text.bytes) + 2 * room + 1
  BY <1>1, <1>4 DEF Printing, RoomForBytes
<1> HIDE DEF n, room
<1>13. ASSUME AllNarrow
       PROVE  /\ text.cap >= Len(text.bytes) + n + 1
              /\ text'.cap >= Len(text'.bytes) + 2 * (room - 1) + 1
  <2>1. \A c \in Nat, l \in Nat, r \in Nat, k \in Nat :
          r >= 1 /\ k <= 2 /\ c >= l + 2 * r + 1 => c >= l + k + 1 /\ c >= (l + k) + 2 * (r - 1) + 1
    OBVIOUS
  <2>2. n \in Nat /\ n <= 2 /\ room \in Nat /\ room >= 1 /\ text.cap >= Len(text.bytes) + 2 * room + 1
    BY <1>4, <1>6, <1>11, <1>12, <1>13
  <2>3. text.cap >= Len(text.bytes) + n + 1 /\ text.cap >= (Len(text.bytes) + n) + 2 * (room - 1) + 1
    BY <1>7, <2>1, <2>2
  <2> QED
    BY <1>8, <2>3
<1>14. RoomForBytes'
  <2>1. Blob(Top'.v) = b
    BY <1>10
  <2> HIDE DEF b
  <2>2. AllNarrow => Top'.turns <= Len(b) /\ text'.cap >= Len(text'.bytes) + 2 * (Len(b) - Top'.turns) + 1
    BY <1>11, <1>13
  <2> QED
    BY <1>5, <2>1, <2>2 DEF RoomForBytes
<1>15. TextTyped'
  <2>1. AllNarrow' => ~text'.over
    <3> SUFFICES ASSUME AllNarrow PROVE ~text'.over
      BY <1>5
    <3>1. ~text.over
      BY DEF Printing, TextTyped
    <3>2. (IF n < 3 THEN n + 1 ELSE 3) = n + 1
      BY <1>4, <1>6
    <3>3. Len(text.bytes) + (n + 1) <= text.cap
      <4>1. \A c \in Nat, l \in Nat, k \in Nat : c >= l + k + 1 => l + (k + 1) <= c
        OBVIOUS
      <4>2. text.cap >= Len(text.bytes) + n + 1
        BY <1>13
      <4> QED
        BY <1>4, <1>7, <4>1, <4>2
    <3> QED
      BY <1>8, <3>1, <3>2, <3>3
  <2>2. AllWhole' => Ones(text')
    BY <1>5, <1>4, <1>6, <1>8 DEF Printing, TextTyped
  <2>3. Ones(text)' = Ones(text')
    BY DEF Ones
  <2> QED
    BY <1>8, <2>1, <2>2, <2>3 DEF TextTyped
<1>16. OpenTyped'
  <2>1. \A j \in 1..Len(open) : Printable(open[j].v) /\ \E m \in 1..Len(widths) : open[j].v = received[m]
    BY DEF Printing, OpenTyped
  <2>2. \A j \in 1..(Len(open) - 1) : j \in 1..Len(open) /\ Calls(open[j].v) # 0
    BY <1>2 DEF Printing, OpenTyped
  <2> QED
    BY <1>1, <1>2, <2>1, <2>2 DEF OpenTyped
<1> QED
  BY <1>14, <1>15, <1>16 DEF Printing

LEMMA PrintingReturn ==
  ASSUME Typed, Printing, PrintReturn
  PROVE  Printing'
<1> DEFINE t == PrintTail(text, Top.v)
           n == Len(open)
<1>1. /\ open # <<>> /\ ~reuse
      /\ text' = (IF Len(open) = 1 THEN PrintNul(t) ELSE t) /\ open' = Front(open)
      /\ UNCHANGED <<reuse, received, widths>>
  BY DEF PrintReturn, MayPrint, decoder
<1>2. text \in Texts
  BY DEF Printing, TextTyped
<1>3. t \in Texts /\ Printed(text, t, FALSE)
  BY <1>2, PrintTailText
<1> HIDE DEF t
<1>4. Printed(text, text', FALSE)
  <2>1. Printed(t, PrintNul(t), FALSE)
    BY <1>3, PrintNulText
  <2> QED
    BY <1>1, <1>3, <2>1 DEF Printed
<1>5. (AllNarrow' <=> AllNarrow) /\ (AllWhole' <=> AllWhole)
  BY <1>1 DEF AllNarrow, AllWhole
<1>6. TextTyped'
  <2>1. Ones(text)' = Ones(text')
    BY DEF Ones
  <2> QED
    BY <1>4, <1>5, <2>1 DEF Printing, TextTyped, Printed
<1>7. open \in Seq(Frames) /\ n \in Nat \ {0}
  BY <1>1, TopTyped DEF Printing, OpenTyped
<1>8. open' = SubSeq(open, 1, n - 1)
  BY <1>1 DEF Front
<1> HIDE DEF n
<1>9. /\ open' \in Seq(Frames) /\ Len(open') = n - 1
      /\ \A j \in 1..(n - 1) : open'[j] = open[j]
  <2>1. n - 1 \in 0..Len(open)
    BY <1>7 DEF n
  <2> QED
    BY <1>7, <1>8, <2>1, PrefixOf
<1>10. OpenTyped'
  <2>1. \A j \in 1..(n - 1) : Printable(open[j].v) /\ \E m \in 1..Len(widths) : open[j].v = received[m]
    BY <1>7 DEF Printing, OpenTyped, n
  <2>2. \A j \in 1..(n - 1) : Calls(open[j].v) # 0
    BY DEF Printing, OpenTyped, n
  <2>3. \A j \in 1..(n - 1 - 1) : j \in 1..(n - 1)
    BY <1>7
  <2> QED
    BY <1>1, <1>9, <2>1, <2>2, <2>3 DEF OpenTyped
<1>11. RoomForBytes'
  <2>1. CASE n = 1
    <3>1. open' = <<>>
      BY <1>9, <2>1, EmptySeq
    <3> QED
      BY <3>1 DEF RoomForBytes
  <2>2. CASE n # 1
    <3>1. n - 1 \in 1..(n - 1) /\ n - 1 \in 1..n
      BY <1>7, <2>2
    <3>2. Top' = open[n - 1]
      BY <1>9, <3>1 DEF Top
    <3>3. Calls(open[n - 1].v) # 0 /\ Printable(open[n - 1].v)
      BY <3>1 DEF Printing, OpenTyped, n
    <3>4. open[n - 1].v \in AnyPart
      <4>1. open[n - 1] \in Frames
        BY <1>7, <3>1, ElementOfSeq DEF n
      <4> QED
        BY <4>1 DEF Frames
    <3>5. Blob(Top'.v) = <<>>
      BY <3>2, <3>3, <3>4, BlobOf
    <3> QED
      BY <3>5 DEF RoomForBytes
  <2> QED
    BY <2>1, <2>2
<1> QED
  BY <1>6, <1>10, <1>11 DEF Printing

LEMMA PrintingStep ==
  ASSUME Typed, Printing, [Next]_vars
  PROVE  Printing'
<1>1. CASE UNCHANGED vars
  BY <1>1, PrintingElsewhere DEF vars
<1>2. CASE \E p \in Parts, k \in 1..8 : Encode(p, k)
  <2>1. UNCHANGED <<reuse, text, widths, open, received>>
    BY <1>2 DEF Encode, decoder, printer
  <2> QED
    BY <2>1, PrintingElsewhere
<1>3. CASE \E n \in 1..Len(out.bytes) : Arrive(n)
  <2>1. UNCHANGED <<reuse, text, widths, open, received>>
    BY <1>3 DEF Arrive, sender, printer
  <2> QED
    BY <2>1, PrintingElsewhere
<1>4. CASE Element \/ Receive \/ Reject
  <2>1. UNCHANGED <<reuse, text, widths, open>>
    BY <1>4 DEF Element, Receive, Reject, printer
  <2> QED
    BY <1>4, <2>1, PrintedStays, PrintingElsewhere
<1>5. CASE \E w \in FloatWidths \union {0} : PrintValue(w)
  BY <1>5, PrintingValue
<1>6. CASE \E w \in FloatWidths \union {0} : PrintElement(w)
  BY <1>6, PrintingElement
<1>7. CASE PrintNextByte
  BY <1>7, PrintingByte
<1>8. CASE PrintReturn
  BY <1>8, PrintingReturn
<1> QED
  BY <1>1, <1>2, <1>3, <1>4, <1>5, <1>6, <1>7, <1>8 DEF Next

LEMMA AlwaysPrinting == Spec => []Printing
<1>1. Init => Printing
  BY PrintingInit
<1>2. Typed /\ Printing /\ [Next]_vars => Printing'
  BY PrintingStep
<1> QED
  BY <1>1, <1>2, AlwaysTyped, PTL DEF Spec

(* A text is written in its block: PrintRoom of CodecStream, about the room  *)
(* that codec_value_print_r makes before its calls of snprintf and before    *)
(* the NUL (codec.c:80-85, 122-125, 132-137).                                *)
THEOREM PrintingRoom == Spec => []PrintRoom
<1>1. Typed /\ Printing => PrintRoom
  <2>1. Typed => DOMAIN widths = 1..Len(widths)
    BY LenProperties DEF Typed, PrinterTyped
  <2> QED
    BY <2>1 DEF Printing, TextTyped, AllNarrow, PrintRoom
<1> QED
  BY <1>1, AlwaysTyped, AlwaysPrinting, PTL

(* A text is all there: PrintedWhole of CodecStream, about the fifteen       *)
(* characters that a number may have, and the NUL that each snprintf leaves  *)
(* for the next to write over (codec.c:57-72, 132-137).                      *)
THEOREM PrintingWhole == Spec => []PrintedWhole
<1>1. Typed /\ Printing => PrintedWhole
  <2>1. Typed => DOMAIN widths = 1..Len(widths)
    BY LenProperties DEF Typed, PrinterTyped
  <2>2. Printing => DOMAIN text.bytes = 1..Len(text.bytes)
    BY LenProperties DEF Printing, TextTyped, Texts
  <2> QED
    BY <2>1, <2>2 DEF Printing, TextTyped, AllWhole, PrintedWhole, Ones
<1> QED
  BY <1>1, AlwaysTyped, AlwaysPrinting, PTL
-----------------------------------------------------------------------------
(* Where part i begins in the sender's slice, the calls that are due when  *)
(* it comes, and that an image of it lies there.                           *)
StartOf(i) == IF i = 1 THEN 0 ELSE ends[i - 1]
Due(i) == IF IsHead(i) THEN 1 ELSE owed[i - 1]
Lies(i, k) ==
  /\ Some(Image(parts[i], k))
  /\ StartOf(i + 1) = StartOf(i) + Len(Image(parts[i], k))
  /\ Starts(out.bytes, StartOf(i), Image(parts[i], k))

(* The slice is the images of the parts, one after the other. *)
Sent ==
  /\ \A i \in 1..Len(parts) : \E k \in 1..8 : Lies(i, k)
  /\ \A i \in 1..Len(parts) : owed[i] = Due(i) - 1 + Calls(parts[i])
  /\ \A i, j \in 1..(Len(parts) + 1) : i <= j => StartOf(i) <= StartOf(j)
  /\ StartOf(Len(parts) + 1) = Len(out.bytes)

(* Binc's receiver has whole parts. *)
WholeParts ==
  format = "binc" /\ arrived # 0 => \E i \in 1..Len(parts) : arrived = StartOf(i + 1)

(* Can the format carry part i into the memory that there is? *)
Carried(i) ==
  IF format = "simple" THEN SimpleCarries(parts[i], Memory.type) ELSE BincCarries(parts[i])

(* Part i is decoded if it is there, and if something is it is that part. *)
PartRead(i) ==
  /\ StartOf(i + 1) <= arrived => ~Decoded.err
  /\ ~Decoded.err =>
       /\ Decoded.pos = StartOf(i + 1)
       /\ Calls(Decoded.v) = Calls(parts[i])
       /\ Carried(i) => Decoded.v = parts[i]

LEMMA StartIsNat ==
  ASSUME SenderTyped
  PROVE  Len(parts) \in Nat /\ \A i \in 1..(Len(parts) + 1) : StartOf(i) \in Nat
<1>1. Len(parts) \in Nat /\ Len(ends) = Len(parts) /\ ends \in Seq(Nat)
  BY LenProperties DEF SenderTyped
<1>2. ASSUME NEW i \in 1..(Len(parts) + 1), i # 1 PROVE ends[i - 1] \in Nat
  <2>1. i - 1 \in 1..Len(ends)
    BY <1>1, <1>2
  <2> QED
    BY <1>1, <2>1, ElementOfSeq
<1> QED
  BY <1>1, <1>2 DEF StartOf

LEMMA FramedBefore ==
  ASSUME NEW n \in Nat, Framed(n), NEW m \in Nat, m <= n
  PROVE  Framed(m)
<1>1. \A i \in 1..m : i \in 1..n
  OBVIOUS
<1> QED
  BY <1>1 DEF Framed

LEMMA InputIs ==
  ASSUME SenderTyped, ReceiverTyped
  PROVE  \A j \in 1..arrived : Input[j] = out.bytes[j] /\ j \in 1..Len(out.bytes)
<1>1. out.bytes \in Seq(Byte) /\ arrived \in 0..Len(out.bytes)
  <2>1. out.bytes \in Seq(Byte) /\ arrived \in Nat /\ arrived <= Len(out.bytes)
    BY DEF SenderTyped, ReceiverTyped, Slices
  <2>2. Len(out.bytes) \in Nat
    BY <2>1, LenProperties
  <2> QED
    BY <2>1, <2>2
<1> QED
  BY <1>1, PrefixOf, Zenon DEF Input

LEMMA NoByteNoPart ==
  ASSUME NEW b, NEW a \in Nat, Len(b) \in Nat, a >= Len(b), NEW mem
  PROVE  SimpleDecode(b, a, mem.type).err /\ BincDecode(b, a, mem).err
<1>1. SimpleDecode(b, a, mem.type) = Fail(a)
  BY DEF SimpleDecode
<1>2. Past(b, a, 1)
  BY DEF Past
<1>3. BincDecode(b, a, mem) = Fail(a)
  BY <1>2 DEF BincDecode
<1> QED
  BY <1>1, <1>3, GotAndFail

LEMMA PartIsRead ==
  ASSUME Typed, Sent, WholeParts, NEW i \in 1..Len(parts), Framed(i), at = StartOf(i)
  PROVE  PartRead(i)
<1> DEFINE p == parts[i]
<1>1. /\ Input \in Seq(Byte) /\ Len(Input) = arrived /\ at \in Nat /\ arrived \in Nat
      /\ Len(parts) \in Nat /\ format \in {"simple", "binc"} /\ SenderTyped /\ ReceiverTyped
  BY InputIsBytes, StartIsNat DEF Typed, ReceiverTyped
<1>2. IsValue(p) /\ p.count \in Nat /\ p.data \in Seq(Byte) /\ Len(p.data) \in Nat
  <2>1. p \in Parts
    <3>1. parts \in Seq(Parts)
      BY DEF Typed, SenderTyped
    <3> QED
      BY <3>1, ElementOfSeq
  <2> QED
    BY <2>1, PartIsValue, PartsOfValue
<1>3. /\ Len(p.data) \in Short /\ p.count \in Short
      /\ format = "binc" /\ p.type \in Integer => Fit(p.data, 1) \/ ~Fit(p.data, 2)
  <2>1. HasDescriptor(p)
    <3>1. i \in 1..i
      BY <1>1
    <3> QED
      BY <3>1 DEF Framed
  <2> HIDE DEF p
  <2> QED
    BY <1>2, <2>1, BelowIsShort DEF HasDescriptor
<1>4. PICK k \in 1..8 : Lies(i, k)
  BY DEF Sent
<1> DEFINE im == Image(p, k)
<1>5. /\ im \in Seq(Byte) /\ Len(im) >= 1 /\ Len(im) \in Nat
      /\ StartOf(i + 1) = at + Len(im) /\ Starts(out.bytes, at, im)
  BY <1>4, LenProperties DEF Lies, Some
<1>6. Starts(Input, at, im)
  <2> SUFFICES ASSUME NEW j \in 1..Len(im), at + j <= Len(Input) PROVE Input[at + j] = im[j]
    BY DEF Starts
  <2> HIDE DEF im
  <2>1. at + j \in 1..arrived
    BY <1>1, <1>5
  <2>2. Input[at + j] = out.bytes[at + j] /\ at + j \in 1..Len(out.bytes)
    BY <1>1, <2>1, InputIs
  <2>3. at + j <= Len(out.bytes)
    BY <2>2
  <2> QED
    BY <1>5, <2>2, <2>3 DEF Starts
<1>7. Reads(Decoded, Input, at, im, p, Carried(i))
  <2>1. ASSUME at >= arrived PROVE Reads(Decoded, Input, at, im, p, Carried(i))
    <3>1. Decoded.err
      BY <1>1, <2>1, NoByteNoPart DEF Decoded
    <3>2. ~(at + Len(im) <= Len(Input))
      <4> HIDE DEF im
      <4> QED
        BY <1>1, <1>5, <2>1
    <3> HIDE DEF im, p
    <3> QED
      BY <3>1, <3>2 DEF Reads
  <2>2. CASE format = "simple"
    <3>1. CASE at < arrived
      <4>1. Memory.type \in Types \union {"none"}
        <5>1. Memory \in AnyPart
          BY UnsetIsDecoded DEF Memory, Typed, ReceiverTyped
        <5> QED
          BY <5>1 DEF AnyPart
      <4>2. im = SimpleImage(p) /\ at < Len(Input)
        BY <1>1, <2>2, <3>1 DEF Image
      <4>3. Starts(Input, at, SimpleImage(p))
        BY <1>6, <4>2
      <4>4. Reads(SimpleDecode(Input, at, Memory.type), Input, at, SimpleImage(p), p,
                  SimpleCarries(p, Memory.type))
        <5> HIDE DEF p, im
        <5> QED
          BY <1>1, <1>2, <1>3, <4>1, <4>2, <4>3, SimpleReads, Zenon
      <4>5. Decoded = SimpleDecode(Input, at, Memory.type) /\ Carried(i) = SimpleCarries(p, Memory.type)
        BY <2>2 DEF Decoded, Carried
      <4> HIDE DEF p, im
      <4> QED
        BY <4>2, <4>4, <4>5
    <3>2. CASE ~(at < arrived)
      BY <1>1, <2>1, <3>2
    <3> QED
      BY <3>1, <3>2
  <2>3. CASE format = "binc"
    <3>1. CASE at + Len(im) <= arrived
      <4>1. im = BincImage(p, k) /\ at + Len(BincImage(p, k)) <= Len(Input)
        BY <1>1, <2>3, <3>1 DEF Image
      <4>2. Starts(Input, at, BincImage(p, k)) /\ (p.type \in Integer => Fit(p.data, 1) \/ ~Fit(p.data, 2))
        BY <1>3, <1>6, <2>3, <4>1
      <4>3. Reads(BincDecode(Input, at, Memory), Input, at, BincImage(p, k), p, BincCarries(p))
        <5> HIDE DEF p, im
        <5> QED
          BY <1>1, <1>2, <1>3, <4>1, <4>2, BincReads, Zenon
      <4>4. Decoded = BincDecode(Input, at, Memory) /\ Carried(i) = BincCarries(p)
        BY <2>3 DEF Decoded, Carried
      <4> HIDE DEF p, im
      <4> QED
        BY <4>1, <4>3, <4>4
    <3>2. CASE ~(at + Len(im) <= arrived)
      <4> HIDE DEF im, p
      <4>1. arrived < StartOf(i + 1)
        BY <1>1, <1>5, <3>2
      <4>2. CASE arrived = 0
        BY <1>1, <2>1, <4>2
      <4>3. CASE arrived # 0
        <5>1. PICK j \in 1..Len(parts) : arrived = StartOf(j + 1)
          BY <2>3, <4>3 DEF WholeParts
        <5>2. j + 1 \in 1..(Len(parts) + 1) /\ i + 1 \in 1..(Len(parts) + 1) /\ i \in 1..(Len(parts) + 1)
          BY <1>1
        <5>3. ~(i + 1 <= j + 1)
          <6>1. i + 1 <= j + 1 => StartOf(i + 1) <= arrived
            BY <5>1, <5>2 DEF Sent
          <6>2. StartOf(i + 1) \in Nat
            BY <1>1, <5>2, StartIsNat
          <6> QED
            BY <1>1, <4>1, <6>1, <6>2
        <5>4. j + 1 <= i
          BY <1>1, <5>3
        <5>5. arrived <= at
          BY <5>1, <5>2, <5>4 DEF Sent
        <5> QED
          BY <1>1, <2>1, <5>5
      <4> QED
        BY <4>2, <4>3
    <3> QED
      BY <3>1, <3>2
  <2> QED
    BY <1>1, <2>2, <2>3
<1> HIDE DEF im, p
<1>8. Reads(Decoded, Input, at, im, parts[i], Carried(i))
  BY <1>7 DEF p
<1>9. Decoded.err \in BOOLEAN
  BY DecodedSound DEF Sound
<1>10. StartOf(i + 1) <= arrived => ~Decoded.err
  BY <1>1, <1>5, <1>8 DEF Reads
<1>11. ~Decoded.err => at + Len(im) <= Len(Input)
  BY <1>1, <1>5, <1>8 DEF Reads
<1> QED
  BY <1>5, <1>8, <1>10, <1>11 DEF Reads, PartRead
-----------------------------------------------------------------------------
LEMMA Appended ==
  ASSUME NEW S, NEW s \in Seq(S), NEW x \in S
  PROVE  /\ Len(Append(s, x)) = Len(s) + 1 /\ Append(s, x)[Len(s) + 1] = x
         /\ \A i \in 1..Len(s) : Append(s, x)[i] = s[i]
  BY AppendProperties

LEMMA StartsLonger ==
  ASSUME NEW b \in Seq(Byte), NEW d \in Seq(Byte), NEW a \in Nat, NEW im, Len(im) \in Nat,
         a + Len(im) <= Len(b), Starts(b, a, im)
  PROVE  Starts(b \o d, a, im)
<1> SUFFICES ASSUME NEW i \in 1..Len(im), a + i <= Len(b \o d) PROVE (b \o d)[a + i] = im[i]
  BY DEF Starts
<1>1. Len(b) \in Nat /\ Len(d) \in Nat
  BY LenProperties
<1>2. a + i \in 1..(Len(b) + Len(d)) /\ a + i <= Len(b)
  BY <1>1
<1>3. (b \o d)[a + i] = b[a + i]
  BY <1>2, ConcatProperties
<1> QED
  BY <1>2, <1>3 DEF Starts

LEMMA StartsEnd ==
  ASSUME NEW b \in Seq(Byte), NEW d \in Seq(Byte)
  PROVE  Starts(b \o d, Len(b), d)
<1> SUFFICES ASSUME NEW i \in 1..Len(d) PROVE (b \o d)[Len(b) + i] = d[i]
  BY DEF Starts
<1>1. Len(b) \in Nat /\ Len(d) \in Nat
  BY LenProperties
<1>2. Len(b) + i \in 1..(Len(b) + Len(d)) /\ ~(Len(b) + i <= Len(b)) /\ (Len(b) + i) - Len(b) = i
  BY <1>1
<1>3. (b \o d)[Len(b) + i] = d[(Len(b) + i) - Len(b)]
  BY <1>2, ConcatProperties
<1> QED
  BY <1>2, <1>3

(* What a call of the encoder leaves as it was, and what it adds. *)
LEMMA BooksGrow ==
  ASSUME Typed, NEW n \in Nat, n = Len(parts), NEW p \in Parts, NEW k \in 1..8, Encode(p, k)
  PROVE  /\ Len(parts') = n + 1 /\ format' = format /\ reuse' = reuse
         /\ parts'[n + 1] = p /\ \A i \in 1..n : parts'[i] = parts[i]
         /\ owed'[n + 1] = Due(n + 1) - 1 + Calls(p)
         /\ \A i \in 1..n : owed'[i] = owed[i]
         /\ \A i \in 1..(n + 1) : StartOf(i)' = StartOf(i)
         /\ StartOf(n + 2)' = Len(out'.bytes)
         /\ \A i \in 1..(n + 1) : (IsHead(i)' <=> IsHead(i)) /\ Due(i)' = Due(i)
         /\ \A m \in 0..n : Framed(m)' <=> Framed(m)
<1>1. /\ parts \in Seq(Parts) /\ ends \in Seq(Nat) /\ owed \in Seq(Nat) /\ n \in Nat
      /\ Len(ends) = n /\ Len(owed) = n
  BY LenProperties DEF Typed, SenderTyped
<1>2. /\ parts' = Append(parts, p) /\ ends' = Append(ends, Len(out'.bytes))
      /\ owed' = Append(owed, Owed(p)) /\ format' = format /\ reuse' = reuse
  BY DEF Encode
<1>3. Len(out'.bytes) \in Nat /\ Owed(p) \in Nat
  <2>1. Typed'
    BY TypedEncode
  <2>2. out'.bytes \in Seq(Byte)
    BY <2>1 DEF Typed, SenderTyped, Slices
  <2> QED
    BY <2>2, LenProperties, OwedIsNat DEF Typed
<1>4. /\ Len(parts') = n + 1 /\ parts'[n + 1] = p
      /\ \A i \in 1..n : parts'[i] = parts[i]
  BY <1>1, <1>2, Appended
<1>5. /\ ends'[n + 1] = Len(out'.bytes)
      /\ \A i \in 1..n : ends'[i] = ends[i]
  BY <1>1, <1>2, <1>3, Appended
<1>6. /\ owed'[n + 1] = Owed(p)
      /\ \A i \in 1..n : owed'[i] = owed[i]
  BY <1>1, <1>2, <1>3, Appended
<1>7. Owed(p) = Due(n + 1) - 1 + Calls(p)
  <2>1. Idle <=> IsHead(n + 1)
    <3>1. parts = <<>> <=> n + 1 = 1
      BY <1>1, EmptySeq
    <3>2. (n + 1) - 1 = n
      BY <1>1
    <3> QED
      BY <3>1, <3>2 DEF Idle, IsHead
  <2>2. (n + 1) - 1 = n
    BY <1>1
  <2> QED
    BY <2>1, <2>2 DEF Owed, Due
<1>8. ASSUME NEW i \in 1..(n + 1)
      PROVE  StartOf(i)' = StartOf(i) /\ (IsHead(i)' <=> IsHead(i)) /\ Due(i)' = Due(i)
  <2>1. i # 1 => i - 1 \in 1..n
    BY <1>1
  <2>2. i # 1 => ends'[i - 1] = ends[i - 1] /\ owed'[i - 1] = owed[i - 1]
    BY <1>5, <1>6, <2>1
  <2>3. StartOf(i)' = StartOf(i)
    BY <2>2 DEF StartOf
  <2>4. IsHead(i)' <=> IsHead(i)
    BY <2>2 DEF IsHead, Complete
  <2>5. Due(i)' = Due(i)
    <3>1. CASE i = 1
      BY <3>1 DEF Due, IsHead
    <3>2. CASE i # 1
      BY <2>2, <2>4, <3>2 DEF Due
    <3> QED
      BY <3>1, <3>2
  <2> QED
    BY <2>3, <2>4, <2>5
<1>9. StartOf(n + 2)' = Len(out'.bytes)
  <2>1. n + 2 # 1 /\ (n + 2) - 1 = n + 1
    BY <1>1
  <2> QED
    BY <1>5, <2>1 DEF StartOf
<1>10. ASSUME NEW m \in 0..n PROVE Framed(m)' <=> Framed(m)
  <2>1. \A i \in 1..m : i \in 1..n
    BY <1>1
  <2>2. \A i \in 1..m : parts'[i] = parts[i]
    BY <1>4, <2>1
  <2> QED
    BY <1>2, <2>2 DEF Framed, HasDescriptor
<1> QED
  BY <1>1, <1>2, <1>4, <1>6, <1>7, <1>8, <1>9, <1>10

(* The same, where the sender does nothing. *)
LEMMA BooksStay ==
  ASSUME UNCHANGED <<format, reuse, out, parts, ends, owed>>
  PROVE  /\ \A i : /\ StartOf(i)' = StartOf(i) /\ Due(i)' = Due(i)
                   /\ (IsHead(i)' <=> IsHead(i)) /\ (Complete(i)' <=> Complete(i))
         /\ \A m : Framed(m)' <=> Framed(m)
         /\ Sent => Sent'
<1>1. \A i : /\ StartOf(i)' = StartOf(i) /\ Due(i)' = Due(i)
             /\ (IsHead(i)' <=> IsHead(i)) /\ (Complete(i)' <=> Complete(i))
  BY DEF StartOf, Due, IsHead, Complete
<1>2. \A m : Framed(m)' <=> Framed(m)
  BY DEF Framed, HasDescriptor
<1>3. \A i, k : Lies(i, k)' <=> Lies(i, k)
  BY DEF Lies, StartOf, Image
<1> QED
  BY <1>1, <1>2, <1>3 DEF Sent

LEMMA SentEncode ==
  ASSUME Typed, Sent, NEW n \in Nat, n = Len(parts), NEW p \in Parts, NEW k \in 1..8, Encode(p, k)
  PROVE  Sent' /\ Len(out'.bytes) > Len(out.bytes)
<1> SUFFICES ASSUME NEW im, im = Image(p, k) PROVE Sent' /\ Len(out'.bytes) > Len(out.bytes)
  OBVIOUS
<1>1. /\ Len(parts') = n + 1 /\ format' = format
      /\ parts'[n + 1] = p /\ \A i \in 1..n : parts'[i] = parts[i]
      /\ owed'[n + 1] = Due(n + 1) - 1 + Calls(p)
      /\ \A i \in 1..n : owed'[i] = owed[i]
      /\ \A i \in 1..(n + 1) : StartOf(i)' = StartOf(i)
      /\ StartOf(n + 2)' = Len(out'.bytes)
      /\ \A i \in 1..(n + 1) : Due(i)' = Due(i)
  BY BooksGrow
<1>2. out'.bytes = out.bytes \o im /\ out.bytes \in Seq(Byte) /\ im \in Seq(Byte)
  BY EncodeGrows DEF Grew, Typed, SenderTyped, Slices
<1>3. Some(im)
  BY PartIsValue, SimpleImageSome, BincImageSome DEF Image
<1>4. Len(im) >= 1 /\ Len(im) \in Nat /\ Len(out.bytes) \in Nat
  BY <1>2, <1>3, LenProperties DEF Some
<1>5. Len(out'.bytes) = Len(out.bytes) + Len(im)
  BY <1>2, TwoParts
<1>6. \A i \in 1..(n + 1) : StartOf(i) \in Nat /\ StartOf(i) <= Len(out.bytes)
  <2>1. n + 1 \in 1..(n + 1) /\ \A i \in 1..(n + 1) : i <= n + 1
    BY <1>1
  <2> QED
    BY <2>1, StartIsNat DEF Typed, Sent
<1>7. ASSUME NEW i \in 1..(n + 1) PROVE \E h \in 1..8 : Lies(i, h)'
  <2>1. CASE i \in 1..n
    <3>1. PICK h \in 1..8 : Lies(i, h)
      BY <2>1 DEF Sent
    <3> SUFFICES ASSUME NEW d, d = Image(parts[i], h) PROVE Lies(i, h)'
      OBVIOUS
    <3>2. Some(d) /\ StartOf(i + 1) = StartOf(i) + Len(d) /\ Starts(out.bytes, StartOf(i), d)
      BY <3>1 DEF Lies
    <3>3. Image(parts[i], h)' = d
      BY <1>1, <2>1 DEF Image
    <3>4. i \in 1..(n + 1) /\ i + 1 \in 1..(n + 1)
      BY <1>1, <2>1
    <3>5. StartOf(i)' = StartOf(i) /\ StartOf(i + 1)' = StartOf(i + 1)
      BY <1>1, <3>4
    <3>6. Len(d) \in Nat /\ StartOf(i) \in Nat /\ StartOf(i) + Len(d) <= Len(out.bytes)
      BY <1>6, <3>2, <3>4, LenProperties DEF Some
    <3>7. Starts(out'.bytes, StartOf(i), d)
      BY <1>2, <3>2, <3>6, StartsLonger
    <3> QED
      BY <3>2, <3>3, <3>5, <3>7 DEF Lies
  <2>2. CASE i = n + 1
    <3>1. Image(parts[n + 1], k)' = im
      BY <1>1 DEF Image
    <3>2. n + 1 \in 1..(n + 1) /\ (n + 1) + 1 = n + 2
      BY <1>1
    <3>3. StartOf(n + 1)' = Len(out.bytes)
      BY <1>1, <3>2 DEF Sent
    <3>4. StartOf((n + 1) + 1)' = Len(out.bytes) + Len(im)
      BY <1>1, <1>5, <3>2
    <3>5. Starts(out'.bytes, Len(out.bytes), im)
      BY <1>2, StartsEnd
    <3>6. Lies(n + 1, k)'
      BY <1>3, <3>1, <3>3, <3>4, <3>5 DEF Lies
    <3> QED
      BY <2>2, <3>6
  <2> QED
    BY <1>1, <2>1, <2>2
<1>8. ASSUME NEW i \in 1..(n + 1) PROVE (owed[i] = Due(i) - 1 + Calls(parts[i]))'
  <2>1. CASE i \in 1..n
    BY <1>1, <2>1 DEF Sent
  <2>2. CASE i = n + 1
    BY <1>1, <2>2
  <2> QED
    BY <1>1, <2>1, <2>2
<1>9. ASSUME NEW i \in 1..(n + 2), NEW j \in 1..(n + 2), i <= j
      PROVE  StartOf(i)' <= StartOf(j)'
  <2>1. CASE j \in 1..(n + 1)
    <3>1. i \in 1..(n + 1)
      BY <1>1, <1>9, <2>1
    <3>2. StartOf(i) <= StartOf(j)
      BY <1>9, <2>1, <3>1 DEF Sent
    <3> QED
      BY <1>1, <2>1, <3>1, <3>2
  <2>2. CASE j = n + 2 /\ i \in 1..(n + 1)
    <3>1. StartOf(i) \in Nat /\ StartOf(i) <= Len(out.bytes) /\ StartOf(i)' = StartOf(i)
      BY <1>1, <1>6, <2>2
    <3> QED
      BY <1>1, <1>4, <1>5, <2>2, <3>1
  <2>3. CASE j = n + 2 /\ i = n + 2
    BY <1>1, <1>4, <1>5, <2>3
  <2> QED
    BY <1>1, <2>1, <2>2, <2>3
<1>10. (StartOf(Len(parts) + 1) = Len(out.bytes))'
  <2>1. (n + 1) + 1 = n + 2
    BY <1>1
  <2> QED
    BY <1>1, <2>1
<1>11. Sent'
  <2>1. Len(parts)' = n + 1 /\ (n + 1) + 1 = n + 2
    BY <1>1
  <2> QED
    BY <1>7, <1>8, <1>9, <1>10, <2>1 DEF Sent
<1> QED
  BY <1>4, <1>5, <1>11
-----------------------------------------------------------------------------
(* The receiver is where the part that it expects begins, and has to make   *)
(* the calls that were due there.  What it keeps ends where a message ends, *)
(* and none ends in what it does not keep yet.                              *)
Ahead == Framed(Len(parts)) => Len(received) <= Len(parts)
InPlace ==
  Len(received) <= Len(parts) /\ Framed(Len(received)) =>
    at = StartOf(Len(received) + 1) /\ left = Due(Len(received) + 1)
AtMessage ==
  kept <= Len(parts) /\ Framed(kept) => pos = StartOf(kept + 1) /\ IsHead(kept + 1)
InMessage ==
  \A m \in (kept + 1)..Len(received) : m <= Len(parts) /\ Framed(m) => ~Complete(m)

Following == Ahead /\ InPlace /\ AtMessage /\ InMessage

LEMMA NextPart ==
  ASSUME Typed, Sent, WholeParts, Following, NEW n \in Nat, n = Len(received),
         n + 1 <= Len(parts), Framed(n + 1)
  PROVE  /\ PartRead(n + 1)
         /\ ~Decoded.err => Decoded.pos = StartOf(n + 2) /\ Left = owed[n + 1]
<1>1. Len(parts) \in Nat
  BY StartIsNat DEF Typed
<1>2. Framed(n) /\ n <= Len(parts) /\ n + 1 \in 1..Len(parts) /\ (n + 1) + 1 = n + 2
  BY <1>1, FramedBefore
<1>3. at = StartOf(n + 1) /\ left = Due(n + 1)
  BY <1>2 DEF Following, InPlace
<1>4. PartRead(n + 1)
  BY <1>2, <1>3, PartIsRead
<1>5. owed[n + 1] = Due(n + 1) - 1 + Calls(parts[n + 1])
  BY <1>2 DEF Sent
<1>6. ~Decoded.err => Decoded.pos = StartOf(n + 2) /\ Calls(Decoded.v) = Calls(parts[n + 1])
  BY <1>2, <1>4 DEF PartRead
<1> QED
  BY <1>3, <1>4, <1>5, <1>6 DEF Left

(* Nothing is decoded where nothing was encoded. *)
LEMMA NotPastEnd ==
  ASSUME Typed, Sent, Following, ~Decoded.err, Framed(Len(parts))
  PROVE  Len(received) + 1 <= Len(parts)
<1>1. /\ Len(parts) \in Nat /\ Len(received) \in Nat /\ at \in Nat
      /\ arrived <= Len(out.bytes) /\ arrived \in Nat /\ Len(Input) = arrived
  BY StartIsNat, LenProperties, InputIsBytes DEF Typed, ReceiverTyped
<1>2. Len(received) <= Len(parts)
  BY DEF Following, Ahead
<1>3. ASSUME Len(received) = Len(parts) PROVE FALSE
  <2>1. at = Len(out.bytes)
    BY <1>2, <1>3 DEF Following, InPlace, Sent
  <2>2. Decoded.err
    BY <1>1, <2>1, NoByteNoPart DEF Decoded
  <2> QED
    BY <2>2
<1> QED
  BY <1>1, <1>2, <1>3

LEMMA FollowingInit ==
  ASSUME Init
  PROVE  Sent /\ WholeParts /\ Following
<1>1. /\ parts = <<>> /\ Len(parts) = 0 /\ received = <<>> /\ Len(received) = 0
      /\ pos = 0 /\ at = 0 /\ left = 1 /\ kept = 0 /\ arrived = 0 /\ Len(out.bytes) = 0
  <2>1. out = [bytes |-> <<>>, cap |-> 0, over |-> FALSE]
    BY DEF Init, Empty
  <2> QED
    BY <2>1 DEF Init
<1>2. StartOf(1) = 0 /\ IsHead(1) /\ Due(1) = 1
  BY DEF StartOf, IsHead, Due
<1>3. Sent
  <2>1. \A i \in 1..0 : FALSE
    OBVIOUS
  <2>2. \A i \in 1..(0 + 1) : i = 1
    OBVIOUS
  <2>3. StartOf(0 + 1) = Len(out.bytes) /\ StartOf(1) <= StartOf(1)
    BY <1>1, <1>2
  <2> QED
    BY <1>1, <2>1, <2>2, <2>3 DEF Sent
<1>4. Ahead /\ InPlace /\ AtMessage /\ InMessage
  BY <1>1, <1>2 DEF Ahead, InPlace, AtMessage, InMessage
<1> QED
  BY <1>1, <1>3, <1>4 DEF WholeParts, Following

LEMMA FollowingEncode ==
  ASSUME Typed, Following, NEW n \in Nat, n = Len(parts), NEW p \in Parts, NEW k \in 1..8, Encode(p, k)
  PROVE  Following' /\ (Framed(n + 1)' => Len(received) <= n)
<1> SUFFICES ASSUME NEW r \in Nat, r = Len(received), NEW c \in Nat, c = kept
             PROVE  Following' /\ (Framed(n + 1)' => Len(received) <= n)
  BY LenProperties DEF Typed, ReceiverTyped
<1>1. /\ Len(parts') = n + 1
      /\ \A i \in 1..n : owed'[i] = owed[i]
      /\ \A i \in 1..(n + 1) : StartOf(i)' = StartOf(i)
      /\ \A i \in 1..(n + 1) : (IsHead(i)' <=> IsHead(i)) /\ Due(i)' = Due(i)
      /\ \A m \in 0..n : Framed(m)' <=> Framed(m)
  BY BooksGrow
<1>2. UNCHANGED <<pos, at, left, received, kept>> /\ c <= r
  BY DEF Encode, decoder, Typed, ReceiverTyped
<1>3. \A m \in Nat : Framed(n + 1)' /\ m <= n + 1 => Framed(m)'
  <2>1. \A m \in Nat : m <= n + 1 => \A i \in 1..m : i \in 1..(n + 1)
    OBVIOUS
  <2> QED
    BY <2>1 DEF Framed
<1>4. Framed(n + 1)' => r <= n
  <2>1. Framed(n + 1)' => Framed(n)'
    BY <1>3
  <2>2. Framed(n)' => Framed(n)
    BY <1>1
  <2> QED
    BY <2>1, <2>2 DEF Following, Ahead
<1>5. ASSUME NEW m \in 0..r, m <= n + 1, Framed(m)'
      PROVE  m \in 0..n /\ Framed(m)
  <2>1. m # n + 1
    BY <1>4, <1>5
  <2>2. m \in 0..n
    BY <1>5, <2>1
  <2> QED
    BY <1>1, <1>5, <2>2
<1>6. Ahead'
  BY <1>1, <1>2, <1>4 DEF Ahead
<1>7. InPlace'
  <2>1. r <= n + 1 /\ Framed(r)' => r \in 0..n /\ Framed(r) /\ r + 1 \in 1..(n + 1)
    BY <1>5
  <2>2. r <= n + 1 /\ Framed(r)' => at = StartOf(r + 1)' /\ left = Due(r + 1)'
    BY <1>1, <2>1 DEF Following, InPlace
  <2> QED
    BY <1>1, <1>2, <2>2 DEF InPlace
<1>8. AtMessage'
  <2>1. c <= n + 1 /\ Framed(c)' => c \in 0..n /\ Framed(c) /\ c + 1 \in 1..(n + 1)
    BY <1>2, <1>5
  <2>2. c <= n + 1 /\ Framed(c)' => pos = StartOf(c + 1)' /\ IsHead(c + 1)'
    BY <1>1, <2>1 DEF Following, AtMessage
  <2> QED
    BY <1>1, <1>2, <2>2 DEF AtMessage
<1>9. InMessage'
  <2>1. ASSUME NEW m \in (c + 1)..r, m <= n + 1, Framed(m)' PROVE ~Complete(m)'
    <3>1. m \in 0..r /\ m # 0
      OBVIOUS
    <3>2. m \in 0..n /\ Framed(m)
      BY <1>5, <2>1, <3>1
    <3>3. ~Complete(m)
      BY <3>2 DEF Following, InMessage
    <3>4. m \in 1..n
      BY <3>1, <3>2
    <3> QED
      BY <1>1, <3>3, <3>4 DEF Complete
  <2> QED
    BY <1>1, <1>2, <2>1 DEF InMessage
<1> QED
  BY <1>4, <1>6, <1>7, <1>8, <1>9 DEF Following

LEMMA FollowingElsewhere ==
  ASSUME Typed, Following,
         UNCHANGED <<format, reuse, out, parts, ends, owed, pos, at, left, received, kept>>
  PROVE  Following'
<1> SUFFICES ASSUME NEW r \in Nat, r = Len(received), NEW c \in Nat, c = kept,
                    NEW n \in Nat, n = Len(parts)
             PROVE  Following'
  BY LenProperties DEF Typed, SenderTyped, ReceiverTyped
<1>1. /\ \A i : /\ StartOf(i)' = StartOf(i) /\ Due(i)' = Due(i)
                /\ (IsHead(i)' <=> IsHead(i)) /\ (Complete(i)' <=> Complete(i))
      /\ \A m : Framed(m)' <=> Framed(m)
  BY BooksStay
<1>2. Ahead' /\ InPlace' /\ AtMessage'
  BY <1>1 DEF Following, Ahead, InPlace, AtMessage
<1>3. InMessage'
  BY <1>1 DEF Following, InMessage
<1> QED
  BY <1>2, <1>3 DEF Following

(* A part that is decoded, and the books. *)
LEMMA FollowingDecoded ==
  ASSUME Typed, Sent, WholeParts, Following, NEW n \in Nat, n = Len(received), Element \/ Receive
  PROVE  /\ Len(received') = n + 1 /\ \A i \in 1..n : received'[i] = received[i]
         /\ received'[n + 1] = Decoded.v /\ ~Decoded.err
         /\ Framed(Len(parts)) => n + 1 <= Len(parts)
         /\ n + 1 <= Len(parts) /\ Framed(n + 1) =>
              at' = StartOf(n + 2) /\ left' = Due(n + 2) /\ (Complete(n + 1) <=> Receive)
<1>1. MayDecode /\ ~Decoded.err /\ received' = Append(received, Decoded.v) /\ at' = Decoded.pos
  BY DEF Element, Receive
<1>2. Decoded.v \in AnyPart /\ Left \in Nat /\ received \in Seq(AnyPart)
  BY <1>1, PartDecoded DEF Typed, ReceiverTyped
<1>3. Len(received') = n + 1 /\ received'[n + 1] = Decoded.v /\ \A i \in 1..n : received'[i] = received[i]
  BY <1>1, <1>2, Appended
<1>4. Framed(Len(parts)) => n + 1 <= Len(parts)
  BY <1>1, NotPastEnd
<1>5. ASSUME n + 1 <= Len(parts), Framed(n + 1)
      PROVE  at' = StartOf(n + 2) /\ left' = Due(n + 2) /\ (Complete(n + 1) <=> Receive)
  <2>1. Decoded.pos = StartOf(n + 2) /\ Left = owed[n + 1]
    BY <1>1, <1>5, NextPart
  <2>2. n + 2 # 1 /\ (n + 2) - 1 = n + 1
    OBVIOUS
  <2>3. CASE Element
    <3>1. left' = Left /\ Left > 0
      BY <2>3 DEF Element
    <3>2. ~Complete(n + 1) /\ ~Receive
      BY <1>2, <2>1, <3>1 DEF Complete, Receive
    <3> QED
      BY <1>1, <2>1, <2>2, <3>1, <3>2 DEF Due, IsHead
  <2>4. CASE Receive
    <3>1. left' = 1 /\ Left = 0
      BY <2>4 DEF Receive
    <3>2. Complete(n + 1)
      BY <2>1, <3>1 DEF Complete
    <3> QED
      BY <1>1, <2>1, <2>2, <2>4, <3>1, <3>2 DEF Due, IsHead
  <2> QED
    BY <2>3, <2>4
<1> QED
  BY <1>1, <1>3, <1>4, <1>5

LEMMA FollowingElement ==
  ASSUME Typed, Sent, WholeParts, Following, Element
  PROVE  Following'
<1> SUFFICES ASSUME NEW r \in Nat, r = Len(received), NEW c \in Nat, c = kept,
                    NEW n \in Nat, n = Len(parts)
             PROVE  Following'
  BY LenProperties DEF Typed, SenderTyped, ReceiverTyped
<1>1. UNCHANGED <<format, reuse, out, parts, ends, owed, pos, kept>>
  BY DEF Element, sender
<1>2. /\ \A i : /\ StartOf(i)' = StartOf(i) /\ Due(i)' = Due(i)
                /\ (IsHead(i)' <=> IsHead(i)) /\ (Complete(i)' <=> Complete(i))
      /\ \A m : Framed(m)' <=> Framed(m)
  BY <1>1, BooksStay
<1>3. /\ Len(received') = r + 1
      /\ Framed(n) => r + 1 <= n
      /\ r + 1 <= n /\ Framed(r + 1) =>
           at' = StartOf(r + 2) /\ left' = Due(r + 2) /\ (Complete(r + 1) <=> Receive)
  BY FollowingDecoded
<1>4. ~Receive /\ (r + 1) + 1 = r + 2
  <2>1. Left > 0
    BY DEF Element
  <2>2. Left # 0
    BY <2>1
  <2> QED
    BY <2>2 DEF Receive
<1>5. Ahead' /\ InPlace' /\ AtMessage'
  BY <1>1, <1>2, <1>3, <1>4 DEF Following, Ahead, InPlace, AtMessage
<1>6. ASSUME NEW m \in (c + 1)..(r + 1), m <= n, Framed(m) PROVE ~Complete(m)
  <2>1. CASE m = r + 1
    BY <1>3, <1>4, <1>6, <2>1
  <2>2. CASE m # r + 1
    <3>1. m \in (c + 1)..r
      BY <2>2
    <3> QED
      BY <1>6, <3>1 DEF Following, InMessage
  <2> QED
    BY <2>1, <2>2
<1>7. InMessage'
  BY <1>1, <1>2, <1>3, <1>6 DEF InMessage
<1> QED
  BY <1>5, <1>7 DEF Following

LEMMA FollowingReceive ==
  ASSUME Typed, Sent, WholeParts, Following, Receive
  PROVE  Following'
<1> SUFFICES ASSUME NEW r \in Nat, r = Len(received), NEW n \in Nat, n = Len(parts)
             PROVE  Following'
  BY LenProperties DEF Typed, SenderTyped, ReceiverTyped
<1>1. UNCHANGED <<format, reuse, out, parts, ends, owed>> /\ kept' = Len(received') /\ pos' = at'
  BY DEF Receive, sender
<1>2. /\ \A i : /\ StartOf(i)' = StartOf(i) /\ Due(i)' = Due(i)
                /\ (IsHead(i)' <=> IsHead(i)) /\ (Complete(i)' <=> Complete(i))
      /\ \A m : Framed(m)' <=> Framed(m)
  BY <1>1, BooksStay
<1>3. /\ Len(received') = r + 1
      /\ Framed(n) => r + 1 <= n
      /\ r + 1 <= n /\ Framed(r + 1) =>
           at' = StartOf(r + 2) /\ left' = Due(r + 2) /\ (Complete(r + 1) <=> Receive)
  BY FollowingDecoded
<1>4. (r + 1) + 1 = r + 2 /\ (r + 2) - 1 = r + 1
  OBVIOUS
<1>5. Complete(r + 1) => IsHead(r + 2)
  BY <1>4 DEF IsHead
<1>6. Ahead' /\ InPlace' /\ AtMessage'
  BY <1>1, <1>2, <1>3, <1>4, <1>5 DEF Following, Ahead, InPlace, AtMessage
<1>7. InMessage'
  <2>1. ~\E m : m \in ((r + 1) + 1)..(r + 1)
    OBVIOUS
  <2> QED
    BY <1>1, <1>3, <2>1 DEF InMessage
<1> QED
  BY <1>6, <1>7 DEF Following

LEMMA FollowingReject ==
  ASSUME Typed, Following, Reject
  PROVE  /\ Following' /\ Len(received') = kept
         /\ \A i \in 1..kept : received'[i] = received[i]
<1> SUFFICES ASSUME NEW r \in Nat, r = Len(received), NEW n \in Nat, n = Len(parts),
                    NEW c \in Nat, c = kept
             PROVE  Following' /\ Len(received') = c /\ \A i \in 1..c : received'[i] = received[i]
  BY LenProperties DEF Typed, SenderTyped, ReceiverTyped
<1>1. UNCHANGED <<format, reuse, out, parts, ends, owed, pos, kept>> /\ at' = pos /\ left' = 1
  BY DEF Reject, sender
<1>2. /\ \A i : /\ StartOf(i)' = StartOf(i) /\ Due(i)' = Due(i)
                /\ (IsHead(i)' <=> IsHead(i)) /\ (Complete(i)' <=> Complete(i))
      /\ \A m : Framed(m)' <=> Framed(m)
  BY <1>1, BooksStay
<1>3. Len(received') = c /\ \A i \in 1..c : received'[i] = received[i]
  <2>1. received \in Seq(AnyPart) /\ c <= r /\ received' = SubSeq(received, 1, c)
    BY DEF Typed, ReceiverTyped, Reject
  <2>2. \A i \in 1..c : received[i] \in AnyPart
    <3>1. \A i \in 1..c : i \in 1..r
      BY <2>1
    <3> QED
      BY <2>1, <3>1, ElementOfSeq
  <2> QED
    BY <2>1, <2>2
<1>4. c <= r /\ \A i : IsHead(i) => Due(i) = 1
  BY DEF Typed, ReceiverTyped, Due
<1>5. Ahead'
  BY <1>1, <1>2, <1>3, <1>4 DEF Following, Ahead
<1>6. InPlace' /\ AtMessage'
  BY <1>1, <1>2, <1>3, <1>4 DEF Following, AtMessage, InPlace
<1>7. InMessage'
  <2>1. ~\E m : m \in (c + 1)..c
    OBVIOUS
  <2> QED
    BY <1>1, <1>3, <2>1 DEF InMessage
<1> QED
  BY <1>3, <1>5, <1>6, <1>7 DEF Following

(* Binc's receiver keeps to whole parts: more of the sender's are no loss. *)
LEMMA WholePartsStay ==
  ASSUME Typed, Sent, WholeParts, Next \/ UNCHANGED vars
  PROVE  WholeParts'
<1> SUFFICES ASSUME NEW n \in Nat, n = Len(parts) PROVE WholeParts'
  BY StartIsNat DEF Typed
<1>1. ASSUME UNCHANGED <<format, reuse, out, parts, ends, owed, arrived>> PROVE WholeParts'
  <2>1. \A i : StartOf(i)' = StartOf(i)
    BY <1>1, BooksStay
  <2> QED
    BY <1>1, <2>1 DEF WholeParts
<1>2. ASSUME NEW p \in Parts, NEW k \in 1..8, Encode(p, k) PROVE WholeParts'
  <2>1. Len(parts') = n + 1 /\ format' = format /\ arrived' = arrived
    BY <1>2, BooksGrow DEF Encode
  <2>2. \A i \in 1..(n + 1) : StartOf(i)' = StartOf(i)
    BY <1>2, BooksGrow
  <2>3. ASSUME format = "binc", arrived # 0 PROVE \E i \in 1..(n + 1) : arrived = StartOf(i + 1)'
    <3>1. PICK i \in 1..n : arrived = StartOf(i + 1)
      BY <2>3 DEF WholeParts
    <3>2. i + 1 \in 1..(n + 1) /\ i \in 1..(n + 1)
      OBVIOUS
    <3> QED
      BY <2>2, <3>1, <3>2
  <2> QED
    BY <2>1, <2>3 DEF WholeParts
<1>3. ASSUME NEW h \in 1..Len(out.bytes), Arrive(h) PROVE WholeParts'
  <2>1. UNCHANGED <<format, reuse, out, parts, ends, owed>> /\ arrived' = h
    BY <1>3 DEF Arrive, sender
  <2>2. ASSUME format = "binc" PROVE \E i \in 1..n : h = StartOf(i + 1)
    <3>1. PICK i \in DOMAIN parts : h = ends[i]
      BY <1>3, <2>2 DEF Arrive
    <3>2. i \in 1..n
      BY <3>1, LenProperties DEF Typed, SenderTyped
    <3>3. i + 1 # 1 /\ (i + 1) - 1 = i
      BY <3>2
    <3> QED
      BY <3>1, <3>2, <3>3 DEF StartOf
  <2>3. \A i : StartOf(i)' = StartOf(i)
    BY <2>1, BooksStay
  <2> QED
    BY <2>1, <2>2, <2>3 DEF WholeParts
<1>4. ASSUME NEW w \in FloatWidths \union {0}, PrintValue(w) \/ PrintElement(w) PROVE WholeParts'
  BY <1>1, <1>4 DEF PrintValue, PrintElement, sender
<1>5. ASSUME Element \/ Receive \/ Reject \/ PrintNextByte \/ PrintReturn \/ UNCHANGED vars
      PROVE  WholeParts'
  BY <1>1, <1>5 DEF Element, Receive, Reject, PrintNextByte, PrintReturn, sender, vars
<1> QED
  BY <1>2, <1>3, <1>4, <1>5 DEF Next
-----------------------------------------------------------------------------
Stepping == Typed /\ Sent /\ WholeParts /\ Following

LEMMA SentStep ==
  ASSUME Typed, Sent, Next \/ UNCHANGED vars
  PROVE  Sent'
<1>1. ASSUME NEW p \in Parts, NEW k \in 1..8, Encode(p, k) PROVE Sent'
  <2> SUFFICES ASSUME NEW n \in Nat, n = Len(parts) PROVE Sent'
    BY StartIsNat DEF Typed
  <2> QED
    BY <1>1, SentEncode
<1>2. ASSUME NEW h \in 1..Len(out.bytes), Arrive(h) PROVE Sent'
  BY <1>2, BooksStay DEF Arrive, sender
<1>3. ASSUME NEW w \in FloatWidths \union {0}, PrintValue(w) \/ PrintElement(w) PROVE Sent'
  BY <1>3, BooksStay DEF PrintValue, PrintElement, sender
<1>4. ASSUME Element \/ Receive \/ Reject PROVE Sent'
  BY <1>4, BooksStay DEF Element, Receive, Reject, sender
<1>5. ASSUME PrintNextByte \/ PrintReturn \/ UNCHANGED vars PROVE Sent'
  BY <1>5, BooksStay DEF PrintNextByte, PrintReturn, sender, vars
<1> QED
  BY <1>1, <1>2, <1>3, <1>4, <1>5 DEF Next

LEMMA FollowingStep ==
  ASSUME Stepping, Next \/ UNCHANGED vars
  PROVE  Following'
<1>1. ASSUME NEW p \in Parts, NEW k \in 1..8, Encode(p, k) PROVE Following'
  <2> SUFFICES ASSUME NEW n \in Nat, n = Len(parts) PROVE Following'
    BY StartIsNat DEF Typed, Stepping
  <2> QED
    BY <1>1, FollowingEncode DEF Stepping
<1>2. ASSUME NEW h \in 1..Len(out.bytes), Arrive(h) PROVE Following'
  BY <1>2, FollowingElsewhere DEF Stepping, Arrive, sender
<1>3. ASSUME NEW w \in FloatWidths \union {0}, PrintValue(w) \/ PrintElement(w) PROVE Following'
  BY <1>3, FollowingElsewhere DEF Stepping, PrintValue, PrintElement, sender, decoder
<1>4. ASSUME PrintNextByte \/ PrintReturn \/ UNCHANGED vars PROVE Following'
  BY <1>4, FollowingElsewhere DEF Stepping, PrintNextByte, PrintReturn, sender, decoder, vars
<1> QED
  BY <1>1, <1>2, <1>3, <1>4, FollowingElement, FollowingReceive, FollowingReject DEF Next, Stepping

LEMMA AlwaysStepping == Spec => []Stepping
<1>1. Init => Stepping
  BY TypedInit, FollowingInit DEF Stepping
<1>2. Stepping /\ [Next]_vars => Stepping'
  BY TypedStep, SentStep, WholePartsStay, FollowingStep DEF Stepping
<1> QED
  BY <1>1, <1>2, PTL DEF Spec

(* InStep of CodecStream, for any parts, in any number, and any cuts: the   *)
(* decoders stop where the encoders did, and make as many calls of          *)
(* themselves, also where the value decoded is another                      *)
(* (simplecodec.c:172, binc.c:218).                                         *)
THEOREM StaysInStep == Spec => []InStep
<1>1. Stepping => InStep
  <2> SUFFICES ASSUME Stepping, NEW r, r = Len(received)
               PROVE  /\ Framed(Len(parts)) => r <= Len(parts)
                      /\ r \in DOMAIN parts /\ Framed(r) =>
                           at = ends[r] /\ left = IF Complete(r) THEN 1 ELSE owed[r]
    BY DEF InStep
  <2>1. Framed(Len(parts)) => r <= Len(parts)
    BY DEF Stepping, Following, Ahead
  <2>2. ASSUME r \in DOMAIN parts, Framed(r)
        PROVE  at = ends[r] /\ left = IF Complete(r) THEN 1 ELSE owed[r]
    <3>1. r \in 1..Len(parts) /\ Len(parts) \in Nat
      BY <2>2, LenProperties DEF Stepping, Typed, SenderTyped
    <3>2. r + 1 # 1 /\ (r + 1) - 1 = r /\ r <= Len(parts)
      BY <3>1
    <3>3. at = StartOf(r + 1) /\ left = Due(r + 1)
      BY <2>2, <3>2 DEF Stepping, Following, InPlace
    <3> QED
      BY <3>2, <3>3 DEF StartOf, Due, IsHead
  <2> QED
    BY <2>1, <2>2
<1> QED
  BY <1>1, AlwaysStepping, PTL
-----------------------------------------------------------------------------
(* What waits for more has no whole message before it. *)
Patient ==
  waiting =>
    \A i \in 1..Len(parts) : Complete(i) /\ Framed(i) => kept >= i \/ StartOf(i + 1) > arrived

LEMMA PatientReject ==
  ASSUME Stepping, Reject
  PROVE  Patient'
<1> SUFFICES ASSUME NEW r \in Nat, r = Len(received), NEW n \in Nat, n = Len(parts),
                    NEW c \in Nat, c = kept
             PROVE  Patient'
  BY LenProperties DEF Stepping, Typed, SenderTyped, ReceiverTyped
<1>1. UNCHANGED <<format, reuse, out, parts, ends, owed, kept, arrived>> /\ Decoded.err
  BY DEF Reject, sender
<1>2. /\ \A i : StartOf(i)' = StartOf(i) /\ (Complete(i)' <=> Complete(i))
      /\ \A m : Framed(m)' <=> Framed(m)
  BY <1>1, BooksStay
<1>3. ASSUME NEW i \in 1..n, Complete(i), Framed(i), ~(c >= i) PROVE StartOf(i + 1) > arrived
  <2>1. ~(i \in (c + 1)..r)
    BY <1>3 DEF Stepping, Following, InMessage
  <2>2. r + 1 <= i /\ r + 1 <= n /\ r + 1 \in Nat
    BY <1>3, <2>1
  <2>3. Framed(r + 1)
    BY <1>3, <2>2, FramedBefore
  <2>4. PartRead(r + 1)
    BY <2>2, <2>3, NextPart DEF Stepping
  <2>5. ~(StartOf((r + 1) + 1) <= arrived)
    BY <1>1, <2>4 DEF PartRead
  <2>6. (r + 1) + 1 \in 1..(n + 1) /\ i + 1 \in 1..(n + 1) /\ (r + 1) + 1 <= i + 1
    BY <2>2
  <2>7. StartOf((r + 1) + 1) <= StartOf(i + 1)
    BY <2>6 DEF Stepping, Sent
  <2>8. StartOf((r + 1) + 1) \in Nat /\ StartOf(i + 1) \in Nat /\ arrived \in Nat
    BY <2>6, StartIsNat DEF Stepping, Typed, ReceiverTyped
  <2> QED
    BY <2>5, <2>7, <2>8
<1> QED
  BY <1>1, <1>2, <1>3 DEF Patient

LEMMA PatientEncode ==
  ASSUME Stepping, Patient, NEW p \in Parts, NEW k \in 1..8, Encode(p, k)
  PROVE  Patient'
<1> SUFFICES ASSUME NEW n \in Nat, n = Len(parts) PROVE Patient'
  BY StartIsNat DEF Stepping, Typed
<1>1. /\ Len(parts') = n + 1
      /\ \A i \in 1..n : owed'[i] = owed[i]
      /\ \A i \in 1..(n + 1) : StartOf(i)' = StartOf(i)
      /\ StartOf(n + 2)' = Len(out'.bytes)
      /\ \A m \in 0..n : Framed(m)' <=> Framed(m)
  BY BooksGrow DEF Stepping
<1>2. UNCHANGED <<waiting, kept, arrived>>
  BY DEF Encode, decoder
<1>3. Len(out'.bytes) > arrived
  <2>1. Len(out'.bytes) > Len(out.bytes)
    BY SentEncode DEF Stepping
  <2>2. arrived <= Len(out.bytes) /\ arrived \in Nat
    BY DEF Stepping, Typed, ReceiverTyped
  <2>3. out.bytes \in Seq(Byte) /\ out'.bytes \in Seq(Byte)
    BY TypedEncode DEF Stepping, Typed, SenderTyped, Slices
  <2>4. Len(out'.bytes) \in Nat /\ Len(out.bytes) \in Nat
    BY <2>3, LenProperties
  <2> QED
    BY <2>1, <2>2, <2>4
<1>4. ASSUME waiting, NEW i \in 1..(n + 1), Complete(i)', Framed(i)'
      PROVE  kept >= i \/ StartOf(i + 1)' > arrived
  <2>1. CASE i = n + 1
    <3>1. i + 1 = n + 2
      BY <2>1
    <3> QED
      BY <1>1, <1>3, <3>1
  <2>2. CASE i # n + 1
    <3>1. i \in 1..n /\ i \in 0..n /\ i + 1 \in 1..(n + 1)
      BY <2>2
    <3>2. Complete(i) /\ Framed(i)
      BY <1>1, <1>4, <3>1 DEF Complete
    <3> QED
      BY <1>1, <1>4, <3>1, <3>2 DEF Patient
  <2> QED
    BY <2>1, <2>2
<1> QED
  BY <1>1, <1>2, <1>4 DEF Patient

LEMMA PatientElsewhere ==
  ASSUME Patient, UNCHANGED <<format, reuse, out, parts, ends, owed, arrived, kept, waiting>>
  PROVE  Patient'
<1>1. /\ \A i : StartOf(i)' = StartOf(i) /\ (Complete(i)' <=> Complete(i))
      /\ \A m : Framed(m)' <=> Framed(m)
  BY BooksStay
<1> QED
  BY <1>1 DEF Patient

LEMMA PatientStep ==
  ASSUME Stepping, Patient, Next \/ UNCHANGED vars
  PROVE  Patient'
<1>1. ASSUME NEW h \in 1..Len(out.bytes), Arrive(h) PROVE Patient'
  BY <1>1 DEF Arrive, Patient
<1>2. ASSUME Element \/ Receive PROVE Patient'
  <2>1. ~waiting /\ waiting' = waiting
    BY <1>2 DEF Element, Receive, MayDecode
  <2> QED
    BY <2>1 DEF Patient
<1>3. ASSUME NEW w \in FloatWidths \union {0}, PrintValue(w) \/ PrintElement(w) PROVE Patient'
  BY <1>3, PatientElsewhere DEF PrintValue, PrintElement, sender, decoder
<1>4. ASSUME PrintNextByte \/ PrintReturn \/ UNCHANGED vars PROVE Patient'
  BY <1>4, PatientElsewhere DEF PrintNextByte, PrintReturn, sender, decoder, vars
<1> QED
  BY <1>1, <1>2, <1>3, <1>4, PatientEncode, PatientReject DEF Next

(* NothingRejected of CodecStream: a decoder that has a whole message       *)
(* before it, of whatever parts, does not fail, so the receiver waits only  *)
(* for what has not arrived (codec.c:139, simplecodec.c:50).                *)
THEOREM OnlyCutRejected == Spec => []NothingRejected
<1>1. Init => Patient
  BY DEF Init, Patient
<1>2. Stepping /\ Patient /\ [Next]_vars => Patient'
  BY PatientStep
<1>3. Stepping /\ Patient => NothingRejected
  <2> SUFFICES ASSUME Stepping, Patient, waiting, NEW i \in DOMAIN parts, Complete(i), Framed(i)
               PROVE  kept >= i \/ ends[i] > arrived
    BY DEF NothingRejected
  <2>1. i \in 1..Len(parts)
    BY LenProperties DEF Stepping, Typed, SenderTyped
  <2>2. i + 1 # 1 /\ (i + 1) - 1 = i
    BY <2>1
  <2>3. StartOf(i + 1) = ends[i]
    BY <2>2 DEF StartOf
  <2> QED
    BY <2>1, <2>3 DEF Patient
<1> QED
  BY <1>1, <1>2, <1>3, AlwaysStepping, PTL DEF Spec
-----------------------------------------------------------------------------
(* What the reused codec_value holds is the head of the last message. *)
LastHead(h, i) == IsHead(h) /\ \A m \in (h + 1)..i : ~IsHead(m)
Reused ==
  /\ kept = 0 => before = Unset
  /\ kept # 0 /\ kept <= Len(parts) /\ Framed(kept) =>
       \E h \in 1..kept : LastHead(h, kept) /\ before = received[h]

LEMMA ReusedEncode ==
  ASSUME Stepping, Reused, NEW p \in Parts, NEW k \in 1..8, Encode(p, k)
  PROVE  Reused'
<1> SUFFICES ASSUME NEW n \in Nat, n = Len(parts), NEW c \in Nat, c = kept,
                    NEW r \in Nat, r = Len(received), c <= r
             PROVE  Reused'
  BY LenProperties DEF Stepping, Typed, SenderTyped, ReceiverTyped
<1>1. /\ Len(parts') = n + 1
      /\ \A i \in 1..(n + 1) : IsHead(i)' <=> IsHead(i)
      /\ \A m \in 0..n : Framed(m)' <=> Framed(m)
  BY BooksGrow DEF Stepping
<1>2. UNCHANGED <<kept, before, received>>
  BY DEF Encode, decoder
<1>3. ASSUME c # 0, c <= n + 1, Framed(c)'
      PROVE  \E h \in 1..c : LastHead(h, c)' /\ before = received[h]
  <2>1. c # n + 1
    <3>1. Framed(n + 1)' => r <= n
      BY FollowingEncode DEF Stepping
    <3> QED
      BY <1>3, <3>1
  <2>2. c \in 0..n /\ Framed(c)
    <3>1. c \in 0..n
      BY <1>3, <2>1
    <3> QED
      BY <1>1, <1>3, <3>1
  <2>3. PICK h \in 1..c : LastHead(h, c) /\ before = received[h]
    BY <1>3, <2>2 DEF Reused
  <2>4. \A m \in h..c : m \in 1..(n + 1)
    BY <2>2
  <2>5. h \in h..c /\ \A m \in (h + 1)..c : m \in h..c
    BY <2>2
  <2>6. LastHead(h, c)'
    BY <1>1, <2>3, <2>4, <2>5 DEF LastHead
  <2> QED
    BY <2>3, <2>6
<1> QED
  BY <1>1, <1>2, <1>3 DEF Reused

(* The decoder goes on, or back to what is kept. *)
LEMMA ReusedKept ==
  ASSUME Reused, UNCHANGED <<format, reuse, out, parts, ends, owed, kept, before>>,
         \A i \in 1..kept : received'[i] = received[i]
  PROVE  Reused'
<1>1. /\ \A i : IsHead(i)' <=> IsHead(i)
      /\ \A m : Framed(m)' <=> Framed(m)
  BY BooksStay
<1> SUFFICES ASSUME NEW c, c = kept PROVE Reused'
  OBVIOUS
<1>2. ASSUME c # 0, c <= Len(parts), Framed(c)
      PROVE  \E h \in 1..c : LastHead(h, c)' /\ before = received'[h]
  <2>1. PICK h \in 1..c : LastHead(h, c) /\ before = received[h]
    BY <1>2 DEF Reused
  <2>2. LastHead(h, c)'
    BY <1>1, <2>1 DEF LastHead
  <2> QED
    BY <2>1, <2>2
<1> QED
  BY <1>1, <1>2 DEF Reused

LEMMA ReusedReceive ==
  ASSUME Stepping, Receive
  PROVE  Reused'
<1> SUFFICES ASSUME NEW r \in Nat, r = Len(received), NEW n \in Nat, n = Len(parts),
                    NEW c \in Nat, c = kept, c <= r
             PROVE  Reused'
  BY LenProperties DEF Stepping, Typed, SenderTyped, ReceiverTyped
<1>1. UNCHANGED <<format, reuse, out, parts, ends, owed>>
  BY DEF Receive, sender
<1>2. /\ \A i : IsHead(i)' <=> IsHead(i)
      /\ \A m : Framed(m)' <=> Framed(m)
  BY <1>1, BooksStay
<1>3. Len(received') = r + 1
  BY FollowingDecoded DEF Stepping
<1>4. kept' = r + 1 /\ before' = received'[c + 1]
  BY <1>3 DEF Receive
<1>5. ASSUME r + 1 <= n, Framed(r + 1) PROVE LastHead(c + 1, r + 1)
  <2>1. IsHead(c + 1)
    <3>1. c <= n /\ Framed(c)
      BY <1>5, FramedBefore
    <3> QED
      BY <3>1 DEF Stepping, Following, AtMessage
  <2>2. ASSUME NEW m \in ((c + 1) + 1)..(r + 1) PROVE ~IsHead(m)
    <3>1. m # 1 /\ m - 1 \in (c + 1)..r /\ m - 1 \in Nat /\ m - 1 <= r + 1 /\ m - 1 <= n
      BY <1>5
    <3>2. Framed(m - 1)
      BY <1>5, <3>1, FramedBefore
    <3>3. ~Complete(m - 1)
      BY <3>1, <3>2 DEF Stepping, Following, InMessage
    <3> QED
      BY <3>1, <3>3 DEF IsHead
  <2> QED
    BY <2>1, <2>2 DEF LastHead
<1>6. c + 1 \in 1..(r + 1) /\ r + 1 # 0
  OBVIOUS
<1>7. LastHead(c + 1, r + 1)' <=> LastHead(c + 1, r + 1)
  BY <1>2 DEF LastHead
<1> QED
  BY <1>1, <1>2, <1>4, <1>5, <1>6, <1>7 DEF Reused

LEMMA ReusedStep ==
  ASSUME Stepping, Reused, Next \/ UNCHANGED vars
  PROVE  Reused'
<1>1. ASSUME NEW h \in 1..Len(out.bytes), Arrive(h) PROVE Reused'
  BY <1>1, ReusedKept DEF Arrive, sender
<1>2. ASSUME Element PROVE Reused'
  <2> SUFFICES ASSUME NEW r \in Nat, r = Len(received), kept \in Nat, kept <= r PROVE Reused'
    BY LenProperties DEF Stepping, Typed, ReceiverTyped
  <2>1. \A i \in 1..r : received'[i] = received[i]
    BY <1>2, FollowingDecoded DEF Stepping
  <2>2. \A i \in 1..kept : i \in 1..r
    OBVIOUS
  <2> QED
    BY <1>2, <2>1, <2>2, ReusedKept DEF Element, sender
<1>3. ASSUME Reject PROVE Reused'
  <2>1. \A i \in 1..kept : received'[i] = received[i]
    BY <1>3, FollowingReject DEF Stepping
  <2> QED
    BY <1>3, <2>1, ReusedKept DEF Reject, sender
<1>4. ASSUME NEW w \in FloatWidths \union {0}, PrintValue(w) \/ PrintElement(w) PROVE Reused'
  BY <1>4, ReusedKept DEF PrintValue, PrintElement, sender, decoder
<1>5. ASSUME PrintNextByte \/ PrintReturn \/ UNCHANGED vars PROVE Reused'
  BY <1>5, ReusedKept DEF PrintNextByte, PrintReturn, sender, decoder, vars
<1> QED
  BY <1>1, <1>2, <1>3, <1>4, <1>5, ReusedEncode, ReusedReceive DEF Next
-----------------------------------------------------------------------------
(* A part that can survive is one that the format carries into the memory. *)
LEMMA SurvivorCarried ==
  ASSUME Stepping, Reused, NEW n \in Nat, n = Len(received), n + 1 <= Len(parts), Framed(n + 1),
         PartSurvives(parts[n + 1]), TypeSurvives(n + 1)
  PROVE  Carried(n + 1)
<1>1. CASE format = "binc"
  <2>1. BincCarries(parts[n + 1])
    BY <1>1 DEF PartSurvives, BincCarries, Negative
  <2> QED
    BY <1>1, <2>1 DEF Carried
<1>2. CASE format = "simple"
  <2> DEFINE p == parts[n + 1]
  <2>1. (p.type \in Float => AllZero(p.data)) /\ (p.type \in Integer => Fit(p.data, 1))
    BY <1>2 DEF PartSurvives
  <2> HIDE DEF p
  <2>2. ASSUME p.type = "BYTES" PROVE BytesType(Memory.type) = "BYTES"
    <3>1. CASE ~(reuse /\ Between)
      BY <3>1, UnsetIsDecoded DEF Memory, BytesType
    <3>2. CASE reuse /\ Between
      <4>1. kept = n /\ Memory = before
        BY <3>2 DEF Memory, Between
      <4>2. CASE n = 0
        BY <4>1, <4>2, UnsetIsDecoded DEF BytesType, Reused
      <4>3. CASE n # 0
        <5>1. Framed(n) /\ n <= Len(parts)
          BY FramedBefore, StartIsNat DEF Stepping, Typed
        <5>2. PICK h \in 1..n : LastHead(h, n) /\ before = received[h]
          BY <4>1, <4>3, <5>1 DEF Reused
        <5>3. IsHead(n + 1)
          BY <4>1, <5>1 DEF Stepping, Following, AtMessage
        <5>4. h \in 1..((n + 1) - 1) /\ (n + 1) - 1 = n
          OBVIOUS
        <5>5. received[h].type = "BYTES"
          BY <1>2, <2>2, <3>2, <5>2, <5>3, <5>4 DEF TypeSurvives, LastHead, p
        <5> QED
          BY <4>1, <5>2, <5>5 DEF BytesType
      <4> QED
        BY <4>2, <4>3
    <3> QED
      BY <3>1, <3>2
  <2>3. SimpleCarries(p, Memory.type)
    BY <2>1, <2>2 DEF SimpleCarries
  <2> QED
    BY <1>2, <2>3 DEF Carried, p
<1> QED
  BY <1>1, <1>2 DEF Stepping, Typed

Survives(i) == i <= Len(parts) /\ Framed(i) /\ PartSurvives(parts[i]) /\ TypeSurvives(i)
Trips == \A i \in 1..Len(received) : Survives(i) => received[i] = parts[i]

LEMMA TripsEncode ==
  ASSUME Stepping, Trips, NEW p \in Parts, NEW k \in 1..8, Encode(p, k)
  PROVE  Trips'
<1> SUFFICES ASSUME NEW n \in Nat, n = Len(parts), NEW r \in Nat, r = Len(received)
             PROVE  Trips'
  BY LenProperties DEF Stepping, Typed, SenderTyped, ReceiverTyped
<1>1. /\ Len(parts') = n + 1 /\ format' = format /\ reuse' = reuse
      /\ \A i \in 1..n : parts'[i] = parts[i]
      /\ \A i \in 1..(n + 1) : IsHead(i)' <=> IsHead(i)
      /\ \A m \in 0..n : Framed(m)' <=> Framed(m)
  BY BooksGrow DEF Stepping
<1>2. received' = received
  BY DEF Encode, decoder
<1>3. ASSUME NEW i \in 1..r, Survives(i)' PROVE received[i] = parts'[i]
  <2>1. i <= n + 1 /\ Framed(i)' /\ PartSurvives(parts[i])' /\ TypeSurvives(i)'
    BY <1>1, <1>3 DEF Survives
  <2>2. i # n + 1
    <3>1. Framed(n + 1)' => r <= n
      BY FollowingEncode DEF Stepping
    <3> QED
      BY <2>1, <3>1
  <2>3. i \in 1..n /\ i \in 0..n
    BY <2>1, <2>2
  <2>4. Framed(i) /\ parts'[i] = parts[i]
    BY <1>1, <2>1, <2>3
  <2>5. PartSurvives(parts[i])
    BY <1>1, <2>1, <2>4 DEF PartSurvives
  <2>6. TypeSurvives(i)
    <3>1. i \in 1..(n + 1) /\ \A j \in 1..(i - 1) : j \in 1..(n + 1)
      BY <2>3
    <3>2. \A j \in 1..(i - 1) : \A m \in (j + 1)..(i - 1) : m \in 1..(n + 1)
      BY <2>3
    <3>3. IsHead(i)' <=> IsHead(i)
      BY <1>1, <3>1
    <3>4. \A j \in 1..(i - 1) : /\ IsHead(j)' <=> IsHead(j)
                                /\ \A m \in (j + 1)..(i - 1) : IsHead(m)' <=> IsHead(m)
      BY <1>1, <3>1, <3>2
    <3> QED
      BY <1>1, <1>2, <2>1, <2>4, <3>3, <3>4 DEF TypeSurvives
  <2>7. Survives(i)
    BY <2>3, <2>4, <2>5, <2>6 DEF Survives
  <2> QED
    BY <2>4, <2>7 DEF Trips
<1> QED
  BY <1>2, <1>3 DEF Trips

(* The parts before i, and the books, decide whether it can survive. *)
LEMMA SurvivesStays ==
  ASSUME UNCHANGED <<format, reuse, out, parts, ends, owed>>, NEW i \in Nat,
         \A j \in 1..(i - 1) : received'[j] = received[j]
  PROVE  Survives(i)' <=> Survives(i)
<1>1. /\ \A j : IsHead(j)' <=> IsHead(j)
      /\ \A m : Framed(m)' <=> Framed(m)
  BY BooksStay
<1>2. TypeSurvives(i)' <=> TypeSurvives(i)
  BY <1>1 DEF TypeSurvives
<1>3. PartSurvives(parts[i])' <=> PartSurvives(parts[i])
  BY DEF PartSurvives
<1> QED
  BY <1>1, <1>2, <1>3 DEF Survives

(* Nothing decoded is changed; some may be dropped. *)
LEMMA TripsKept ==
  ASSUME Trips, UNCHANGED <<format, reuse, out, parts, ends, owed>>,
         NEW n \in Nat, n <= Len(received), Len(received) \in Nat,
         \A i \in 1..n : received'[i] = received[i]
  PROVE  \A i \in 1..n : Survives(i)' => received'[i] = parts'[i]
<1> SUFFICES ASSUME NEW i \in 1..n, Survives(i)' PROVE received'[i] = parts'[i]
  OBVIOUS
<1>1. i \in Nat /\ i \in 1..Len(received) /\ \A j \in 1..(i - 1) : j \in 1..n
  OBVIOUS
<1>2. Survives(i)
  BY <1>1, SurvivesStays
<1> QED
  BY <1>1, <1>2 DEF Trips

LEMMA TripsDecoded ==
  ASSUME Stepping, Reused, Trips, Element \/ Receive
  PROVE  Trips'
<1> SUFFICES ASSUME NEW r \in Nat, r = Len(received) PROVE Trips'
  BY LenProperties DEF Stepping, Typed, ReceiverTyped
<1>1. UNCHANGED <<format, reuse, out, parts, ends, owed>>
  BY DEF Element, Receive, sender
<1>2. /\ Len(received') = r + 1 /\ \A i \in 1..r : received'[i] = received[i]
      /\ received'[r + 1] = Decoded.v /\ ~Decoded.err
  BY FollowingDecoded DEF Stepping
<1>3. ASSUME Survives(r + 1)' PROVE received'[r + 1] = parts'[r + 1]
  <2>1. r + 1 \in Nat /\ (r + 1) - 1 = r
    OBVIOUS
  <2>2. Survives(r + 1)
    BY <1>1, <1>2, <1>3, <2>1, SurvivesStays
  <2>3. r + 1 <= Len(parts) /\ Framed(r + 1) /\ PartSurvives(parts[r + 1]) /\ TypeSurvives(r + 1)
    BY <2>2 DEF Survives
  <2>4. Carried(r + 1)
    BY <2>3, SurvivorCarried
  <2>5. PartRead(r + 1)
    BY <2>3, NextPart DEF Stepping
  <2> QED
    BY <1>1, <1>2, <2>4, <2>5 DEF PartRead
<1>4. ASSUME NEW i \in 1..r, Survives(i)' PROVE received'[i] = parts'[i]
  BY <1>1, <1>2, <1>4, TripsKept
<1>5. \A i \in 1..(r + 1) : i \in 1..r \/ i = r + 1
  OBVIOUS
<1> QED
  BY <1>2, <1>3, <1>4, <1>5 DEF Trips

LEMMA TripsStep ==
  ASSUME Stepping, Reused, Trips, Next \/ UNCHANGED vars
  PROVE  Trips'
<1> SUFFICES ASSUME NEW r \in Nat, r = Len(received), NEW c \in Nat, c = kept, c <= r PROVE Trips'
  BY LenProperties DEF Stepping, Typed, ReceiverTyped
<1>1. ASSUME UNCHANGED <<format, reuse, out, parts, ends, owed, received>> PROVE Trips'
  <2>1. \A i \in 1..r : Survives(i)' => received'[i] = parts'[i]
    BY <1>1, TripsKept
  <2> QED
    BY <1>1, <2>1 DEF Trips
<1>2. ASSUME NEW h \in 1..Len(out.bytes), Arrive(h) PROVE Trips'
  BY <1>1, <1>2 DEF Arrive, sender
<1>3. ASSUME Reject PROVE Trips'
  <2>1. Len(received') = c /\ \A i \in 1..c : received'[i] = received[i]
    BY <1>3, FollowingReject DEF Stepping
  <2>2. UNCHANGED <<format, reuse, out, parts, ends, owed>>
    BY <1>3 DEF Reject, sender
  <2>3. \A i \in 1..c : Survives(i)' => received'[i] = parts'[i]
    BY <2>1, <2>2, TripsKept
  <2> QED
    BY <2>1, <2>3 DEF Trips
<1>4. ASSUME NEW w \in FloatWidths \union {0}, PrintValue(w) \/ PrintElement(w) PROVE Trips'
  BY <1>1, <1>4 DEF PrintValue, PrintElement, sender, decoder
<1>5. ASSUME PrintNextByte \/ PrintReturn \/ UNCHANGED vars PROVE Trips'
  BY <1>1, <1>5 DEF PrintNextByte, PrintReturn, sender, decoder, vars
<1> QED
  BY <1>2, <1>3, <1>4, <1>5, TripsEncode, TripsDecoded DEF Next

(* RoundTrip of CodecStream, for any parts, in any number, and any cuts:    *)
(* what is decoded is what was encoded, in order, wherever the format       *)
(* carries the part and, for Simple, the codec_value that is decoded into   *)
(* again does not give its type to BYTES (simplecodec.c:66-221,             *)
(* binc.c:46-280).                                                          *)
THEOREM Returned == Spec => []RoundTrip
<1>1. Init => Reused /\ Trips
  <2> SUFFICES ASSUME Init PROVE Reused /\ Trips
    OBVIOUS
  <2>1. kept = 0 /\ before = Unset /\ Len(received) = 0
    BY DEF Init
  <2>2. ~\E i : i \in 1..0
    OBVIOUS
  <2> QED
    BY <2>1, <2>2 DEF Reused, Trips
<1>2. Stepping /\ Reused /\ [Next]_vars => Reused'
  BY ReusedStep
<1>3. Stepping /\ Reused /\ Trips /\ [Next]_vars => Trips'
  BY TripsStep
<1>4. Stepping /\ Trips => RoundTrip
  <2> SUFFICES ASSUME Stepping, Trips, NEW i \in DOMAIN received, i \in DOMAIN parts, Framed(i),
                      PartSurvives(parts[i]), TypeSurvives(i)
               PROVE  received[i] = parts[i]
    BY DEF RoundTrip
  <2>1. i \in 1..Len(received) /\ i \in 1..Len(parts) /\ Len(parts) \in Nat
    BY LenProperties DEF Stepping, Typed, SenderTyped, ReceiverTyped
  <2>2. Survives(i)
    BY <2>1 DEF Survives
  <2> QED
    BY <2>1, <2>2 DEF Trips
<1> QED
  BY <1>1, <1>2, <1>3, <1>4, AlwaysStepping, PTL DEF Spec
=============================================================================
