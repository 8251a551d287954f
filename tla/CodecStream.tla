---------------------------- MODULE CodecStream ----------------------------
(***************************************************************************)
(* The use of ugorji/codec that its types codec_encode and codec_decode    *)
(* offer: a sender encodes values, one after the other, into one slice; a  *)
(* receiver decodes them from what has arrived, and may print them.        *)
(*                                                                         *)
(* A value is a head and the parts that it contains: see CodecValue.  A    *)
(* step is one of the calls, for one part, that a function makes of itself *)
(* until the value is complete; nobody else uses the slices meanwhile.     *)
(*                                                                         *)
(* The format is one of two.  The decoder of the Simple codec looks for    *)
(* the end of what it is given, so its input may be cut anywhere; that of  *)
(* Binc does not, so it is given whole messages only.  What it makes of    *)
(* bytes past its input is not modelled: the receiver stops there.         *)
(***************************************************************************)
EXTENDS SimpleCodec, BincCodec, CodecPrint

CONSTANTS
  Parts,        \* what the values that are sent are made of
  MaxParts,     \* bound: parts sent
  MaxMessages,  \* bound: values sent
  FloatWidths   \* how many characters %f makes of a float that is not zero

ASSUME StreamAssumption ==
  /\ \A p \in Parts : IsValue(p)
  /\ MaxParts \in Nat /\ MaxMessages \in Nat
  /\ FloatWidths \subseteq Nat \ {0}

VARIABLES
  format,    \* "simple" or "binc"
  reuse,     \* does the receiver decode into one codec_value again and again?
  out,       \* the sender's slice
  parts,     \* the parts encoded
  ends,      \* the length of the slice after each of them
  owed,      \* the calls of the encoder still to be made after each of them
  arrived,   \* how many of the bytes have reached the receiver
  pos,       \* how many it had decoded when the decoder was last called
  at,        \* the position of the decoder
  left,      \* the calls of decode_r to be made for the value
  received,  \* the parts decoded
  kept,      \* how many of them are of complete values
  before,    \* the part that the reused codec_value holds
  waiting,   \* was the rest refused?
  text,      \* the receiver's slice of text
  widths,    \* of the parts printed, what FloatWidths gave for them
  open       \* the calls of print_r that have not returned, and their turns

vars == <<format, reuse, out, parts, ends, owed, arrived, pos, at, left, received, kept, before,
          waiting, text, widths, open>>
sender == <<out, parts, ends, owed>>
decoder == <<pos, at, left, received, kept, before, waiting>>
printer == <<text, widths, open>>

Init ==
  /\ format \in {"simple", "binc"} /\ reuse \in BOOLEAN
  /\ out = Empty /\ parts = <<>> /\ ends = <<>> /\ owed = <<>>
  /\ arrived = 0 /\ pos = 0 /\ at = 0 /\ left = 1
  /\ received = <<>> /\ kept = 0 /\ before = Unset /\ waiting = FALSE
  /\ text = Empty /\ widths = <<>> /\ open = <<>>
-----------------------------------------------------------------------------
(* The sender *)

(* Does a message end with part i, and does one begin with it? *)
Complete(i) == owed[i] = 0
IsHead(i) == i = 1 \/ Complete(i - 1)

Messages == Cardinality({i \in DOMAIN parts : IsHead(i)})

(* Is the sender between two messages? *)
Idle == parts = <<>> \/ Complete(Len(parts))

(* The calls to be made when one of them has been made for p. *)
Owed(p) == (IF Idle THEN 1 ELSE owed[Len(parts)]) - 1 + Calls(p)

(* A call of the encoder for the part p; k is where Binc's loop over a float *)
(* stops.  Binc's loops count to 255: a longer container has no end.         *)
Encode(p, k) ==
  /\ Len(parts) + 1 + Owed(p) <= MaxParts
  /\ Idle => Messages < MaxMessages
  /\ format = "binc" => p.count < 256
  /\ out' = IF format = "simple" THEN SimpleEncode(out, p) ELSE BincEncode(out, p, k)
  /\ parts' = Append(parts, p)
  /\ Len(out'.bytes) <= MaxLength
  /\ ends' = Append(ends, Len(out'.bytes))
  /\ owed' = Append(owed, Owed(p))
  /\ UNCHANGED <<format, reuse, arrived, decoder, printer>>
-----------------------------------------------------------------------------
(* The receiver *)

(* Is the decoder between two values? *)
Between == Len(received) = kept

(* It has the first n bytes, when neither side is at work. *)
Arrive(n) ==
  /\ Idle /\ Between /\ open = <<>>
  /\ n > arrived
  /\ format = "binc" => \E i \in DOMAIN parts : Complete(i) /\ n = ends[i]
  /\ arrived' = n
  /\ waiting' = FALSE
  /\ UNCHANGED <<format, reuse, sender, pos, at, left, received, kept, before, printer>>

Input == SubSeq(out.bytes, 1, arrived)

(* The memory for a part: what a container has in it comes from calloc, the *)
(* caller's codec_value has zeros in it, or the last value.  A refusal can  *)
(* change it too, but only to the type that is decoded when more has        *)
(* arrived.                                                                 *)
Memory == IF reuse /\ Between THEN before ELSE Unset

(* The part at the decoder's position. *)
Decoded ==
  IF format = "simple" THEN SimpleDecode(Input, at, Memory.type)
                       ELSE BincDecode(Input, at, Memory)

(* The calls to be made when this one has been. *)
Left == left - 1 + Calls(Decoded.v)

MayDecode == ~waiting /\ open = <<>> /\ pos <= arrived

(* A call that goes on to the next part. *)
Element ==
  /\ MayDecode /\ ~Decoded.err /\ Left > 0
  /\ received' = Append(received, Decoded.v)
  /\ at' = Decoded.pos
  /\ left' = Left
  /\ UNCHANGED <<format, reuse, sender, arrived, pos, kept, before, waiting, printer>>

(* The last call, with which the value is complete. *)
Receive ==
  /\ MayDecode /\ ~Decoded.err /\ Left = 0
  /\ received' = Append(received, Decoded.v)
  /\ kept' = Len(received')
  /\ before' = received'[kept + 1]
  /\ pos' = Decoded.pos /\ at' = Decoded.pos
  /\ left' = 1
  /\ UNCHANGED <<format, reuse, sender, arrived, waiting, printer>>

(* The receiver keeps the bytes, and tries again when more have arrived. *)
Reject ==
  /\ MayDecode /\ Decoded.err /\ ~Crashed(Decoded)
  /\ received' = SubSeq(received, 1, kept)
  /\ at' = pos
  /\ left' = 1
  /\ waiting' = TRUE
  /\ UNCHANGED <<format, reuse, sender, arrived, pos, kept, before, printer>>
-----------------------------------------------------------------------------
(* Printing, one value after the other.  Who reuses a codec_value can have *)
(* a type in it that is not its own, and nothing to print.  What is printed *)
(* of bytes that no slice has is not modelled.                             *)

MayPrint == ~reuse /\ Between /\ pos <= arrived

(* The next part; w is its width if it is a float. *)
Shown == received[Len(widths) + 1]
IsNext(w) ==
  /\ Len(widths) < Len(received) /\ Shown.data # Wild
  /\ Shown.type \in Float <=> w # 0

(* A call that has not gone around its loop. *)
Frame(v) == [v |-> v, turns |-> 0]

Top == open[Len(open)]
Turned == [open EXCEPT ![Len(open)].turns = @ + 1]

PrintValue(w) ==
  /\ MayPrint /\ open = <<>> /\ IsNext(w)
  /\ text' = PrintHead(text, Shown, w)
  /\ widths' = Append(widths, w)
  /\ open' = <<Frame(Shown)>>
  /\ UNCHANGED <<format, reuse, sender, arrived, decoder>>

PrintElement(w) ==
  /\ MayPrint /\ open # <<>> /\ Top.turns < Calls(Top.v) /\ IsNext(w)
  /\ text' = PrintHead(Separator(text, Top.v, Top.turns + 1), Shown, w)
  /\ widths' = Append(widths, w)
  /\ open' = Append(Turned, Frame(Shown))
  /\ UNCHANGED <<format, reuse, sender, arrived, decoder>>

PrintNextByte ==
  /\ MayPrint /\ open # <<>> /\ Calls(Top.v) = 0 /\ Top.turns < Len(Blob(Top.v))
  /\ text' = PrintByte(text, Top.v, Top.turns + 1)
  /\ open' = Turned
  /\ UNCHANGED <<format, reuse, sender, arrived, decoder, widths>>

(* codec_value_print returns after the first call of print_r. *)
PrintReturn ==
  /\ MayPrint /\ open # <<>> /\ Top.turns = Turns(Top.v)
  /\ LET t == PrintTail(text, Top.v)
     IN  text' = IF Len(open) = 1 THEN PrintNul(t) ELSE t
  /\ open' = Front(open)
  /\ UNCHANGED <<format, reuse, sender, arrived, decoder, widths>>
-----------------------------------------------------------------------------
Next ==
  \/ \E p \in Parts, k \in 1..8 : Encode(p, k)
  \/ \E n \in 1..Len(out.bytes) : Arrive(n)
  \/ Element
  \/ Receive
  \/ Reject
  \/ \E w \in FloatWidths \union {0} : PrintValue(w)
  \/ \E w \in FloatWidths \union {0} : PrintElement(w)
  \/ PrintNextByte
  \/ PrintReturn

Spec == Init /\ [][Next]_vars
-----------------------------------------------------------------------------
(* Bytes are bytes, the positions lie in what there is, and what is decoded *)
(* has a type; it has data of that type too, unless the memory was used     *)
(* before.                                                                  *)
TypeOK ==
  /\ out.bytes \in Seq(Byte) /\ out.cap \in Nat
  /\ arrived \in 0..Len(out.bytes)
  /\ pos \in Nat /\ at \in Nat /\ left \in Nat \ {0}
  /\ waiting \in BOOLEAN
  /\ kept \in 0..Len(received) /\ Len(widths) <= Len(received)
  /\ \A i \in DOMAIN received :
       /\ received[i].type \in Types \union {"none"}
       /\ ~reuse => IsDecoded(received[i])

(* Every write into the slice lies in its block, also those that the codecs *)
(* make themselves after slice_bytes_expand (slice.c:13-28,                 *)
(* simplecodec.c:92, binc.c:106).                                           *)
Room == Fits(out)

(* Are the lengths of p read as they are written, and does Binc write a *)
(* descriptor for an integer?                                           *)
HasDescriptor(p) ==
  /\ Len(p.data) < 256 /\ p.count < 256
  /\ format = "binc" /\ p.type \in Integer => Fit(p.data, 1) \/ ~Fit(p.data, 2)

(* Can the receiver tell where the first n parts end? *)
Framed(n) == \A i \in 1..n : HasDescriptor(parts[i])

(* The receiver's position is where the sender's part ended, however the    *)
(* bytes were cut and whatever became of the values, and both have as many  *)
(* calls to make: by what the decoders return a stream of messages can be   *)
(* read (simplecodec.c:172, binc.c:218).                                    *)
InStep ==
  LET n == Len(received)
  IN  /\ Framed(Len(parts)) => n <= Len(parts)
      /\ n \in DOMAIN parts /\ Framed(n) =>
           at = ends[n] /\ left = IF Complete(n) THEN 1 ELSE owed[n]

(* Only what is not complete is refused: the receiver does not wait while a *)
(* whole message lies before it (codec.c:139, simplecodec.c:50).            *)
NothingRejected ==
  waiting =>
    \A i \in DOMAIN parts : Complete(i) /\ Framed(i) => kept >= i \/ ends[i] > arrived

(* Does a part of a value come out as it went in?  Simple reads integers by *)
(* their first byte and floats as integers; Binc loses the high half of an  *)
(* integer, the sign of what it takes for a sign, floats, and the bytes of  *)
(* an extension.                                                            *)
PartSurvives(p) ==
  LET negative(u) ==
        /\ ~AllZero(u)
        /\ ~Fit(u, 3) => u[5] < 255 \/ u[6] < 128
  IN  /\ p.type \in Float => AllZero(p.data)
      /\ p.type \in Integer => Fit(p.data, IF format = "simple" THEN 1 ELSE 4)
      /\ format = "binc" =>
           /\ p.type # "FLOAT32"
           /\ p.type = "NEG_INT" => negative(p.data)
           /\ p.type = "EXT" => Len(p.data) = 1

(* Into a codec_value that was used before, Simple decodes BYTES under the *)
(* type that the head of the last value left there.                        *)
TypeSurvives(i) ==
  format = "simple" /\ reuse /\ IsHead(i) /\ parts[i].type = "BYTES" =>
    \A j \in 1..(i - 1) :
      IsHead(j) /\ (\A m \in (j + 1)..(i - 1) : ~IsHead(m)) => received[j].type = "BYTES"

(* What is decoded is what was encoded, in order, for the parts that the    *)
(* format can carry: never a shorter one, or one made of two.               *)
RoundTrip ==
  \A i \in DOMAIN received :
    i \in DOMAIN parts /\ Framed(i) /\ PartSurvives(parts[i]) /\ TypeSurvives(i) =>
      received[i] = parts[i]

(* What codec_value_print writes lies in the block of its slice, if no byte *)
(* of BYTES or of an extension prints as more than the two characters that  *)
(* room is made for (codec.c:80-85, 122-125).                               *)
PrintRoom == (\A i \in DOMAIN widths : Narrow(received[i])) => ~text.over

(* No character is missing in a text, nor a NUL left in it, if in addition  *)
(* no number is longer than the fifteen characters that its snprintf may    *)
(* write (codec.c:57-72, 132-137).                                          *)
PrintedWhole ==
  (\A i \in DOMAIN widths : Whole(received[i], widths[i])) =>
    \A i \in DOMAIN text.bytes : text.bytes[i] = 1
=============================================================================
