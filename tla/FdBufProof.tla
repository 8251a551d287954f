----------------------------- MODULE FdBufProof -----------------------------
(***************************************************************************)
(* Theorems about FdBuf, and BufIO under it, for buffers and pipes of any  *)
(* size, any number of bytes, retries and connections, and whichever class *)
(* is at either end.                                                       *)
(***************************************************************************)
EXTENDS FdBuf, TLAPS, SequenceTheorems

Bytes == 1..MaxBytes

(* The writer's end: the types, where the writer is, and that the class     *)
(* which is not in use holds nothing.                                       *)
WriterTypes ==
  /\ writer \in Layers /\ closed \in BOOLEAN /\ accepted \in 0..MaxBytes
  /\ wbuf \in Seq(Bytes) /\ Len(wbuf) <= BufSize /\ wdone \in 0..Len(wbuf)
  /\ wpc \in {"idle", "flush", "direct"} /\ offer \in 0..MaxRequest
  /\ outbuf \in Seq(Bytes) /\ Len(outbuf) <= FdSize
  /\ overrun \in BOOLEAN /\ stalled \in BOOLEAN
  /\ old \in Olds /\ spoilt \in BOOLEAN
  /\ stale \in Seq(Bytes) /\ Len(stale) <= FdSize

WriterPlace ==
  /\ wpc # "idle" => ~closed /\ accepted + offer <= MaxBytes
  /\ wpc # "flush" => wdone = 0
  /\ wpc = "direct" => wbuf = <<>>

WriterClass ==
  /\ writer = "fdbuf" => wbuf = <<>> /\ wpc = "idle"
  /\ writer = "bufio" => outbuf = <<>> /\ ~overrun /\ old = "none"

WriterSide == WriterTypes /\ WriterPlace /\ WriterClass /\ RoomForOne

(* The reader's end, likewise.  fill is only called with nothing in the     *)
(* buffer, and says why when it brings nothing.                             *)
ReaderTypes ==
  /\ reader \in Layers /\ errno \in Errnos /\ lastErrno \in Errnos
  /\ rbuf \in Seq(Bytes) /\ Len(rbuf) <= BufSize /\ r \in 0..Len(rbuf)
  /\ eof \in BOOLEAN /\ full \in BOOLEAN /\ cont \in BOOLEAN
  /\ rpc \in {"idle", "readn", "fill", "filled"}
  /\ want \in 0..MaxRequest /\ got \in 0..want /\ bk \in 0..Retries
  /\ inbuf \in Seq(Bytes) /\ Len(inbuf) <= FdSize + Putback
  /\ seen \in 0..Len(inbuf) /\ gnext \in 0..seen
  /\ delivered \in Seq(Bytes)

ReaderPlace ==
  /\ rpc = "fill" => r = 0 /\ rbuf = <<>> /\ ~eof
  /\ rpc = "filled" => r = 0 /\ (rbuf = <<>> => eof \/ lastErrno # "none")
  /\ rpc # "idle" => got < want

ReaderClass ==
  /\ reader = "fdbuf" => rbuf = <<>> /\ rpc = "idle" /\ ~eof
  /\ reader = "bufio" => inbuf = <<>>

ReaderSide == ReaderTypes /\ ReaderPlace /\ ReaderClass /\ UngetIsWhatWasGot

KernelTypes ==
  conn \in 1..MaxConns /\ pipe \in Seq(Bytes) /\ Len(pipe) <= PipeSize

IInv == WriterSide /\ ReaderSide /\ KernelTypes /\ EofIsTheEnd
-----------------------------------------------------------------------------
(* Sequences *)

LEMMA SliceTyped ==
  ASSUME NEW S, NEW s \in Seq(S), NEW m \in 1..Len(s) + 1, NEW n \in m - 1..Len(s)
  PROVE  /\ SubSeq(s, m, n) \in Seq(S)
         /\ Len(SubSeq(s, m, n)) = n - m + 1
         /\ \A i \in 1..n - m + 1 : SubSeq(s, m, n)[i] = s[m + i - 1]
<1>1. Len(s) \in Nat /\ m \in Int /\ n \in Int
  BY LenProperties
<1>2. \A i \in m..n : s[i] \in S
  BY <1>1, ElementOfSeq
<1> QED
  BY <1>1, <1>2, SubSeqProperties

LEMMA DropTyped ==
  ASSUME NEW S, NEW s \in Seq(S), NEW n \in 0..Len(s)
  PROVE  /\ Drop(s, n) \in Seq(S)
         /\ Len(Drop(s, n)) = Len(s) - n
         /\ \A i \in 1..Len(s) - n : Drop(s, n)[i] = s[n + i]
<1>1. Len(s) \in Nat
  BY LenProperties
<1>2. n + 1 \in 1..Len(s) + 1 /\ Len(s) \in (n + 1) - 1..Len(s)
  BY <1>1
<1>3. /\ SubSeq(s, n + 1, Len(s)) \in Seq(S)
      /\ Len(SubSeq(s, n + 1, Len(s))) = Len(s) - (n + 1) + 1
      /\ \A i \in 1..Len(s) - (n + 1) + 1 :
           SubSeq(s, n + 1, Len(s))[i] = s[n + 1 + i - 1]
  BY <1>2, SliceTyped
<1> QED
  BY <1>1, <1>3 DEF Drop

(* A sequence is its first n elements and the rest. *)
LEMMA FirstAndDrop ==
  ASSUME NEW S, NEW s \in Seq(S), NEW n \in 0..Len(s)
  PROVE  /\ SubSeq(s, 1, n) \in Seq(S) /\ Len(SubSeq(s, 1, n)) = n
         /\ \A i \in 1..n : SubSeq(s, 1, n)[i] = s[i]
         /\ SubSeq(s, 1, n) \o Drop(s, n) = s
<1>1. Len(s) \in Nat
  BY LenProperties
<1>2. 1 \in 1..Len(s) + 1 /\ n \in 1 - 1..Len(s) /\ Len(s) \in n..Len(s)
  BY <1>1
<1>3. /\ SubSeq(s, 1, n) \in Seq(S) /\ Len(SubSeq(s, 1, n)) = n - 1 + 1
      /\ \A i \in 1..n - 1 + 1 : SubSeq(s, 1, n)[i] = s[1 + i - 1]
  BY <1>2, SliceTyped
<1>4. SubSeq(s, 1, n) \o SubSeq(s, n + 1, Len(s)) = SubSeq(s, 1, Len(s))
  BY <1>2, ConcatAdjacentSubSeq
<1>5. SubSeq(s, 1, Len(s)) = s
  BY SubSeqFull
<1>6. n - 1 + 1 = n /\ \A i \in 1..n : 1 + i - 1 = i
  BY <1>1
<1>7. \A i \in 1..n : SubSeq(s, 1, n)[i] = s[i]
  BY <1>3, <1>6
<1>8. SubSeq(s, 1, n) \o Drop(s, n) = s
  BY <1>4, <1>5 DEF Drop
<1> QED
  BY <1>3, <1>6, <1>7, <1>8

LEMMA DropAll ==
  ASSUME NEW S, NEW s \in Seq(S)
  PROVE  Drop(s, Len(s)) = <<>> /\ Drop(s, 0) = s
<1>1. Len(s) \in Nat
  BY LenProperties
<1> QED
  BY <1>1, SubSeqEmpty, SubSeqFull DEF Drop

(* Leaving out n elements, and then m. *)
LEMMA DropDrop ==
  ASSUME NEW S, NEW s \in Seq(S), NEW n \in 0..Len(s), NEW m \in 0..Len(s) - n
  PROVE  /\ Drop(Drop(s, n), m) = Drop(s, n + m)
         /\ SubSeq(s, n + 1, n + m) \in Seq(S) /\ Len(SubSeq(s, n + 1, n + m)) = m
         /\ SubSeq(s, n + 1, n + m) \o Drop(s, n + m) = Drop(s, n)
<1>1. Len(s) \in Nat /\ n + m \in 0..Len(s)
  BY LenProperties
<1>2. /\ Drop(s, n) \in Seq(S) /\ Len(Drop(s, n)) = Len(s) - n
      /\ \A i \in 1..Len(s) - n : Drop(s, n)[i] = s[n + i]
      /\ Drop(s, n + m) \in Seq(S) /\ Len(Drop(s, n + m)) = Len(s) - (n + m)
      /\ \A i \in 1..Len(s) - (n + m) : Drop(s, n + m)[i] = s[n + m + i]
  BY <1>1, DropTyped
<1> DEFINE d == Drop(s, n)
           e == Drop(d, m)
           f == Drop(s, n + m)
<1>3. /\ e \in Seq(S) /\ Len(e) = Len(d) - m
      /\ \A i \in 1..Len(d) - m : e[i] = d[m + i]
  <2>1. d \in Seq(S) /\ m \in 0..Len(d)
    BY <1>1, <1>2
  <2> HIDE DEF d
  <2> QED
    BY <2>1, DropTyped
<1>4. ASSUME NEW i \in 1..Len(f) PROVE e[i] = f[i]
  <2>1. /\ i \in 1..Len(s) - (n + m) /\ i \in 1..Len(d) - m /\ m + i \in 1..Len(s) - n
        /\ n + m + i = n + (m + i)
    BY <1>1, <1>2
  <2>2. e[i] = d[m + i] /\ d[m + i] = s[n + (m + i)] /\ f[i] = s[n + m + i]
    BY <1>2, <1>3, <2>1
  <2> QED
    BY <2>1, <2>2
<1>5. Drop(Drop(s, n), m) = Drop(s, n + m)
  <2>1. f \in Seq(S) /\ Len(d) = Len(s) - n /\ Len(f) = Len(s) - (n + m)
    BY <1>2
  <2> HIDE DEF d, e, f
  <2>2. Len(e) = Len(f)
    BY <1>1, <1>3, <2>1
  <2>3. e = f
    BY <1>3, <1>4, <2>1, <2>2, SeqEqual
  <2> QED
    BY <2>3 DEF d, e, f
<1> HIDE DEF d, e, f
<1>6. n + 1 \in 1..Len(s) + 1 /\ n + m \in (n + 1) - 1..Len(s) /\ Len(s) \in n + m..Len(s)
  BY <1>1
<1>7. SubSeq(s, n + 1, n + m) \in Seq(S) /\ Len(SubSeq(s, n + 1, n + m)) = n + m - (n + 1) + 1
  BY <1>6, SliceTyped
<1>9. n + m - (n + 1) + 1 = m
  BY <1>1
<1>8. SubSeq(s, n + 1, n + m) \o SubSeq(s, n + m + 1, Len(s)) = SubSeq(s, n + 1, Len(s))
  BY <1>6, ConcatAdjacentSubSeq
<1> QED
  BY <1>5, <1>7, <1>8, <1>9 DEF Drop

(* What is put behind a sequence does not matter to what is left of it. *)
LEMMA DropConcat ==
  ASSUME NEW S, NEW s \in Seq(S), NEW t \in Seq(S), NEW n \in 0..Len(s)
  PROVE  Drop(s \o t, n) = Drop(s, n) \o t
<1>1. Len(s) \in Nat /\ Len(t) \in Nat
  BY LenProperties
<1>2. /\ s \o t \in Seq(S) /\ Len(s \o t) = Len(s) + Len(t)
      /\ \A i \in 1..Len(s) + Len(t) :
           (s \o t)[i] = IF i <= Len(s) THEN s[i] ELSE t[i - Len(s)]
  BY ConcatProperties
<1>3. /\ Drop(s, n) \in Seq(S) /\ Len(Drop(s, n)) = Len(s) - n
      /\ \A i \in 1..Len(s) - n : Drop(s, n)[i] = s[n + i]
  BY DropTyped
<1> DEFINE c == s \o t
           d == Drop(s, n)
           e == Drop(c, n)
           f == d \o t
<1>5. /\ e \in Seq(S) /\ Len(e) = Len(c) - n
      /\ \A i \in 1..Len(c) - n : e[i] = c[n + i]
  <2>1. c \in Seq(S) /\ n \in 0..Len(c)
    BY <1>1, <1>2
  <2> HIDE DEF c
  <2> QED
    BY <2>1, DropTyped
<1>6. /\ f \in Seq(S) /\ Len(f) = Len(d) + Len(t)
      /\ \A i \in 1..Len(d) + Len(t) : f[i] = IF i <= Len(d) THEN d[i] ELSE t[i - Len(d)]
  <2>1. d \in Seq(S)
    BY <1>3
  <2> HIDE DEF d
  <2> QED
    BY <2>1, ConcatProperties
<1>7. ASSUME NEW i \in 1..Len(e)
      PROVE  e[i] = f[i]
  <2>1. /\ n + i \in 1..Len(s) + Len(t) /\ i \in 1..Len(d) + Len(t) /\ i \in 1..Len(c) - n
        /\ Len(d) = Len(s) - n
    BY <1>1, <1>2, <1>3, <1>5
  <2>2. e[i] = c[n + i]
    BY <1>5, <2>1
  <2>3. CASE i <= Len(d)
    <3>1. i \in 1..Len(s) - n /\ n + i <= Len(s)
      BY <1>1, <2>1, <2>3
    <3>2. c[n + i] = s[n + i] /\ f[i] = d[i] /\ d[i] = s[n + i]
      BY <1>2, <1>3, <1>6, <2>1, <2>3, <3>1
    <3> QED
      BY <2>2, <3>2
  <2>4. CASE ~(i <= Len(d))
    <3>1. ~(n + i <= Len(s)) /\ n + i - Len(s) = i - Len(d)
      BY <1>1, <2>1, <2>4
    <3>2. c[n + i] = t[n + i - Len(s)] /\ f[i] = t[i - Len(d)]
      BY <1>2, <1>6, <2>1, <2>4, <3>1
    <3> QED
      BY <2>2, <3>1, <3>2
  <2> QED
    BY <2>3, <2>4
<1>8. e \in Seq(S) /\ f \in Seq(S) /\ Len(e) = Len(f)
  BY <1>1, <1>2, <1>3, <1>5, <1>6
<1> HIDE DEF e, f
<1>9. e = f
  BY <1>7, <1>8, SeqEqual
<1> QED
  BY <1>9 DEF e, f

LEMMA PrefixOfConcat ==
  ASSUME NEW S, NEW s \in Seq(S), NEW t \in Seq(S)
  PROVE  IsPrefix(s, s \o t)
<1>1. Len(s) \in Nat /\ Len(t) \in Nat
  BY LenProperties
<1>2. /\ s \o t \in Seq(S) /\ Len(s \o t) = Len(s) + Len(t)
      /\ \A i \in 1..Len(s) + Len(t) :
           (s \o t)[i] = IF i <= Len(s) THEN s[i] ELSE t[i - Len(s)]
  BY ConcatProperties
<1>3. Len(s) \in 0..Len(s) /\ Len(s) \in 0..Len(s \o t)
  BY <1>1, <1>2
<1>4. /\ SubSeq(s, 1, Len(s)) \in Seq(S) /\ Len(SubSeq(s, 1, Len(s))) = Len(s)
      /\ \A i \in 1..Len(s) : SubSeq(s, 1, Len(s))[i] = s[i]
  BY <1>3, FirstAndDrop
<1>5. /\ SubSeq(s \o t, 1, Len(s)) \in Seq(S) /\ Len(SubSeq(s \o t, 1, Len(s))) = Len(s)
      /\ \A i \in 1..Len(s) : SubSeq(s \o t, 1, Len(s))[i] = (s \o t)[i]
  BY <1>2, <1>3, FirstAndDrop
<1>6. \A i \in 1..Len(s) : SubSeq(s \o t, 1, Len(s))[i] = SubSeq(s, 1, Len(s))[i]
  BY <1>1, <1>2, <1>4, <1>5
<1>7. SubSeq(s, 1, Len(s)) = SubSeq(s \o t, 1, Len(s))
  BY <1>4, <1>5, <1>6, SeqEqual
<1> QED
  BY <1>1, <1>2, <1>7 DEF IsPrefix

(* A suffix, place by place. *)
LEMMA SuffixPlaces ==
  ASSUME NEW S, NEW s \in Seq(S), NEW t \in Seq(S)
  PROVE  IsSuffix(s, t) <=>
           /\ Len(s) <= Len(t)
           /\ \A i \in 1..Len(s) : s[i] = t[Len(t) - Len(s) + i]
<1>1. Len(s) \in Nat /\ Len(t) \in Nat
  BY LenProperties
<1> DEFINE rs == Reverse(s)
           rt == Reverse(t)
<1>2. ASSUME NEW u \in Seq(S)
      PROVE  /\ Reverse(u) \in Seq(S) /\ Len(Reverse(u)) = Len(u)
             /\ \A i \in 1..Len(u) : Reverse(u)[i] = u[Len(u) - i + 1]
  <2>1. Len(u) \in Nat /\ \A i \in 1..Len(u) : u[Len(u) - i + 1] \in S
    <3>1. Len(u) \in Nat
      BY LenProperties
    <3>2. \A i \in 1..Len(u) : Len(u) - i + 1 \in 1..Len(u)
      BY <3>1
    <3> QED
      BY <3>1, <3>2, ElementOfSeq
  <2>2. Reverse(u) \in [1..Len(u) -> S]
    BY <2>1 DEF Reverse
  <2>3. Reverse(u) \in Seq(S) /\ Len(Reverse(u)) = Len(u)
    <3> DEFINE n == Len(u)
    <3>1. n \in Nat /\ Reverse(u) \in [1..n -> S]
      BY <2>1, <2>2
    <3> HIDE DEF n
    <3>2. Reverse(u) \in Seq(S) /\ DOMAIN Reverse(u) = 1..n
      BY <3>1
    <3>3. Len(Reverse(u)) = n
      BY <3>1, <3>2, LenProperties
    <3> QED
      BY <3>2, <3>3 DEF n
  <2> QED
    BY <2>3 DEF Reverse
<1>3. /\ rs \in Seq(S) /\ Len(rs) = Len(s) /\ \A i \in 1..Len(s) : rs[i] = s[Len(s) - i + 1]
      /\ rt \in Seq(S) /\ Len(rt) = Len(t) /\ \A i \in 1..Len(t) : rt[i] = t[Len(t) - i + 1]
  BY <1>2
<1> HIDE DEF rs, rt
<1>4. IsSuffix(s, t) <=>
        Len(s) <= Len(t) /\ SubSeq(rs, 1, Len(s)) = SubSeq(rt, 1, Len(s))
  BY <1>3 DEF IsSuffix, IsPrefix, rs, rt
<1> SUFFICES ASSUME Len(s) <= Len(t)
             PROVE  SubSeq(rs, 1, Len(s)) = SubSeq(rt, 1, Len(s)) <=>
                      \A i \in 1..Len(s) : s[i] = t[Len(t) - Len(s) + i]
  BY <1>4
<1>5. Len(s) \in 0..Len(rs) /\ Len(s) \in 0..Len(rt)
  BY <1>1, <1>3
<1>6. /\ SubSeq(rs, 1, Len(s)) \in Seq(S) /\ Len(SubSeq(rs, 1, Len(s))) = Len(s)
      /\ \A i \in 1..Len(s) : SubSeq(rs, 1, Len(s))[i] = s[Len(s) - i + 1]
  BY <1>3, <1>5, FirstAndDrop
<1>7. /\ SubSeq(rt, 1, Len(s)) \in Seq(S) /\ Len(SubSeq(rt, 1, Len(s))) = Len(s)
      /\ \A i \in 1..Len(s) : SubSeq(rt, 1, Len(s))[i] = t[Len(t) - i + 1]
  BY <1>1, <1>3, <1>5, FirstAndDrop
<1>8. SubSeq(rs, 1, Len(s)) = SubSeq(rt, 1, Len(s)) <=>
        \A i \in 1..Len(s) : s[Len(s) - i + 1] = t[Len(t) - i + 1]
  BY <1>6, <1>7, SeqEqual
<1>9. (\A i \in 1..Len(s) : s[Len(s) - i + 1] = t[Len(t) - i + 1]) <=>
        \A i \in 1..Len(s) : s[i] = t[Len(t) - Len(s) + i]
  <2>1. ASSUME \A i \in 1..Len(s) : s[Len(s) - i + 1] = t[Len(t) - i + 1],
               NEW i \in 1..Len(s)
        PROVE  s[i] = t[Len(t) - Len(s) + i]
    <3>1. /\ Len(s) - i + 1 \in 1..Len(s) /\ Len(s) - (Len(s) - i + 1) + 1 = i
          /\ Len(t) - (Len(s) - i + 1) + 1 = Len(t) - Len(s) + i
      BY <1>1
    <3> QED
      BY <2>1, <3>1
  <2>2. ASSUME \A i \in 1..Len(s) : s[i] = t[Len(t) - Len(s) + i],
               NEW i \in 1..Len(s)
        PROVE  s[Len(s) - i + 1] = t[Len(t) - i + 1]
    <3>1. /\ Len(s) - i + 1 \in 1..Len(s)
          /\ Len(t) - Len(s) + (Len(s) - i + 1) = Len(t) - i + 1
      BY <1>1
    <3> QED
      BY <2>2, <3>1
  <2> QED
    BY <2>1, <2>2
<1> QED
  BY <1>8, <1>9
-----------------------------------------------------------------------------
(* What a step leaves alone *)

LEMMA SidesTyped == IInv => TypeOK /\ FdTypeOK
BY DEF IInv, WriterSide, WriterTypes, ReaderSide, ReaderTypes, KernelTypes, TypeOK, FdTypeOK, Bytes

LEMMA UpcomingTyped ==
  ASSUME accepted \in 0..MaxBytes, NEW n \in Nat, accepted + n <= MaxBytes
  PROVE  Upcoming(n) \in Seq(Bytes) /\ Len(Upcoming(n)) = n
<1>1. \A i \in 1..n : accepted + i \in Bytes
  BY SizesAssumption DEF Bytes
<1>2. Upcoming(n) \in [1..n -> Bytes]
  BY <1>1 DEF Upcoming
<1>3. Upcoming(n) \in Seq(Bytes) /\ DOMAIN Upcoming(n) = 1..n
  BY <1>2
<1> QED
  BY <1>3, LenProperties

LEMMA EmptyTyped == <<>> \in Seq(Bytes) /\ Len(<<>>) = 0
BY EmptySeq

(* A step of the writer, or of neither end, does not disturb the reader: it *)
(* writes only as long as its end is open.                                  *)
LEMMA ReaderAlone ==
  ASSUME IInv, UNCHANGED <<readerVars, reader, getVars>>,
         closed => closed' /\ pipe' = pipe
  PROVE  ReaderSide' /\ EofIsTheEnd'
<1> USE DEF readerVars, callVars, getVars
<1>1. ReaderTypes' /\ ReaderPlace' /\ ReaderClass'
  BY DEF IInv, ReaderSide, ReaderTypes, ReaderPlace, ReaderClass
<1>2. UngetIsWhatWasGot'
  BY DEF IInv, ReaderSide, UngetIsWhatWasGot
<1>3. EofIsTheEnd'
  BY DEF IInv, EofIsTheEnd
<1> QED
  BY <1>1, <1>2, <1>3 DEF ReaderSide

LEMMA WriterAlone ==
  ASSUME IInv, UNCHANGED <<writerVars, writer, putVars>>
  PROVE  WriterSide'
<1> USE DEF writerVars, putVars, oldVars
<1>1. WriterTypes' /\ WriterPlace' /\ WriterClass' /\ RoomForOne'
  BY DEF IInv, WriterSide, WriterTypes, WriterPlace, WriterClass, RoomForOne
<1> QED
  BY <1>1 DEF WriterSide

(* A step of a writer keeps the invariant if it keeps the writer's side and *)
(* puts no more into the pipe than it holds.                                *)
LEMMA WriterKeeps ==
  ASSUME IInv, WriterSide', UNCHANGED <<conn, readerVars, reader, getVars>>,
         closed => closed' /\ pipe' = pipe,
         pipe' \in Seq(Bytes), Len(pipe') <= PipeSize
  PROVE  IInv'
BY ReaderAlone DEF IInv, KernelTypes

(* One of a reader, if it keeps the reader's. *)
LEMMA ReaderKeeps ==
  ASSUME IInv, ReaderSide', EofIsTheEnd', UNCHANGED <<conn, writerVars, writer, putVars>>,
         pipe' \in Seq(Bytes), Len(pipe') <= PipeSize
  PROVE  IInv'
BY WriterAlone DEF IInv, KernelTypes
-----------------------------------------------------------------------------
(* Steps of a BufWriter *)

(* The streambuf of a connection with a BufWriter is idle, and the other    *)
(* way round.                                                               *)
LEMMA BufWriterRoom ==
  ASSUME IInv, writer = "bufio"
  PROVE  outbuf = <<>> /\ ~overrun /\ old = "none" /\ Len(outbuf) # FdSize
<1>1. Len(<<>>) = 0 /\ FdSize # 0
  BY EmptyTyped, FdSizesAssumption
<1> QED
  BY <1>1 DEF IInv, WriterSide, WriterClass

(* The step leaves the streambuf alone. *)
LEMMA BufWriterKeeps ==
  ASSUME IInv, writer = "bufio", UNCHANGED <<conn, readerVars, fdVars>>,
         closed' \in BOOLEAN, closed => closed' /\ pipe' = pipe,
         accepted' \in 0..MaxBytes,
         wbuf' \in Seq(Bytes), Len(wbuf') <= BufSize, wdone' \in 0..Len(wbuf'),
         wpc' \in {"idle", "flush", "direct"}, offer' \in 0..MaxRequest,
         wpc' # "idle" => ~closed' /\ accepted' + offer' <= MaxBytes,
         wpc' # "flush" => wdone' = 0,
         wpc' = "direct" => wbuf' = <<>>,
         pipe' \in Seq(Bytes), Len(pipe') <= PipeSize
  PROVE  IInv'
<1>1. UNCHANGED <<writer, reader, outbuf, overrun, stalled, old, stale, spoilt, getVars>>
  BY DEF fdVars, putVars, oldVars
<1>2. WriterTypes'
  BY <1>1 DEF IInv, WriterSide, WriterTypes
<1>3. WriterPlace'
  BY <1>1, BufWriterRoom DEF IInv, WriterSide, WriterPlace
<1>4. WriterClass' /\ RoomForOne'
  BY <1>1, BufWriterRoom DEF IInv, WriterSide, WriterClass, RoomForOne
<1>5. WriterSide'
  BY <1>2, <1>3, <1>4 DEF WriterSide
<1> QED
  BY <1>1, <1>5, WriterKeeps

(* The facts about a BufWriter that its steps need. *)
LEMMA BufWriterFacts ==
  ASSUME IInv
  PROVE  /\ accepted \in 0..MaxBytes /\ closed \in BOOLEAN
         /\ wbuf \in Seq(Bytes) /\ Len(wbuf) \in 0..BufSize /\ wdone \in 0..Len(wbuf)
         /\ wpc \in {"idle", "flush", "direct"} /\ offer \in 0..MaxRequest
         /\ pipe \in Seq(Bytes) /\ Len(pipe) \in 0..PipeSize
         /\ wpc # "idle" => ~closed /\ accepted + offer <= MaxBytes
         /\ wpc # "flush" => wdone = 0
         /\ wpc = "direct" => wbuf = <<>>
         /\ accepted \in Nat /\ offer \in Nat /\ wdone \in Nat
         /\ MaxBytes \in Nat /\ BufSize \in Nat /\ PipeSize \in Nat /\ MaxRequest \in Nat
<1>1. Len(wbuf) \in Nat /\ Len(pipe) \in Nat
  BY LenProperties DEF IInv, WriterSide, WriterTypes, KernelTypes
<1> QED
  BY <1>1, SizesAssumption DEF IInv, WriterSide, WriterTypes, WriterPlace, KernelTypes

LEMMA WritenKeeps ==
  ASSUME IInv, writer = "bufio", NEW n \in 1..MaxRequest, Writen(n), UNCHANGED fdVars
  PROVE  IInv'
<1>1. n \in Nat /\ n \in 0..MaxRequest /\ accepted + n <= MaxBytes /\ ~closed
  BY BufWriterFacts DEF Writen
<1>2. CASE n + Len(wbuf) > BufSize
  <2>1. /\ wpc' = "flush" /\ offer' = n /\ wdone' = 0
        /\ UNCHANGED <<conn, closed, pipe, wbuf, accepted, readerVars>>
    BY <1>2 DEF Writen
  <2>2. wdone' \in 0..Len(wbuf')
    BY <2>1, BufWriterFacts
  <2> QED
    BY <1>1, <2>1, <2>2, BufWriterFacts, BufWriterKeeps
<1>3. CASE ~(n + Len(wbuf) > BufSize)
  <2>1. /\ wbuf' = wbuf \o Upcoming(n) /\ accepted' = accepted + n /\ wpc' = "idle"
        /\ wdone' = 0 /\ UNCHANGED <<conn, closed, pipe, offer, readerVars>>
    BY <1>3 DEF Writen, Buffer
  <2>2. Upcoming(n) \in Seq(Bytes) /\ Len(Upcoming(n)) = n
    BY <1>1, BufWriterFacts, UpcomingTyped
  <2>3. wbuf' \in Seq(Bytes) /\ Len(wbuf') = Len(wbuf) + n
    BY <2>1, <2>2, BufWriterFacts, ConcatProperties
  <2>4. Len(wbuf') <= BufSize /\ 0 \in 0..Len(wbuf') /\ accepted' \in 0..MaxBytes
    BY <1>1, <1>3, <2>1, <2>3, BufWriterFacts
  <2> QED
    BY <1>1, <2>1, <2>3, <2>4, BufWriterFacts, BufWriterKeeps
<1> QED
  BY <1>2, <1>3

LEMMA FlushKeeps ==
  ASSUME IInv, writer = "bufio", Flush, UNCHANGED fdVars
  PROVE  IInv'
<1>1. /\ ~closed /\ wpc' = "flush" /\ offer' = 0 /\ wdone' = 0
      /\ UNCHANGED <<conn, closed, pipe, wbuf, accepted, readerVars>>
  BY DEF Flush
<1>2. 0 \in 0..Len(wbuf) /\ 0 \in 0..MaxRequest /\ accepted + 0 <= MaxBytes
  BY BufWriterFacts
<1> QED
  BY <1>1, <1>2, BufWriterFacts, BufWriterKeeps

LEMMA FlushWriteKeeps ==
  ASSUME IInv, writer = "bufio", NEW i \in 1..MaxRequest, FlushWrite(i), UNCHANGED fdVars
  PROVE  IInv'
<1> DEFINE written == SubSeq(wbuf, wdone + 1, wdone + i)
<1>1. /\ wpc = "flush" /\ i <= Len(wbuf) - wdone /\ Len(pipe) + i <= PipeSize
      /\ pipe' = pipe \o written /\ wdone' = wdone + i
      /\ UNCHANGED <<conn, wbuf, wpc, offer, accepted, closed, readerVars>>
  BY DEF FlushWrite
<1>2. i \in 0..Len(wbuf) - wdone /\ wbuf \in Seq(Bytes) /\ wdone \in 0..Len(wbuf)
  BY <1>1, BufWriterFacts
<1>3. written \in Seq(Bytes) /\ Len(written) = i
  BY <1>2, DropDrop
<1> HIDE DEF written
<1>4. pipe' \in Seq(Bytes) /\ Len(pipe') = Len(pipe) + i
  BY <1>1, <1>3, BufWriterFacts, ConcatProperties
<1>5. wdone' \in 0..Len(wbuf') /\ ~closed /\ accepted' + offer' <= MaxBytes
  BY <1>1, <1>2, BufWriterFacts
<1> QED
  BY <1>1, <1>4, <1>5, BufWriterFacts, BufWriterKeeps

LEMMA FlushFailKeeps ==
  ASSUME IInv, writer = "bufio", FlushFail, UNCHANGED fdVars
  PROVE  IInv'
<1>1. /\ wpc = "flush" /\ wbuf' = Drop(wbuf, wdone) /\ wdone' = 0 /\ wpc' = "idle"
      /\ UNCHANGED <<conn, offer, accepted, closed, pipe, readerVars>>
  BY DEF FlushFail, Unwritten
<1>2. wbuf' \in Seq(Bytes) /\ Len(wbuf') = Len(wbuf) - wdone
  BY <1>1, BufWriterFacts, DropTyped
<1>3. Len(wbuf') <= BufSize /\ wdone' \in 0..Len(wbuf')
  BY <1>1, <1>2, BufWriterFacts
<1> QED
  BY <1>1, <1>2, <1>3, BufWriterFacts, BufWriterKeeps

LEMMA FlushEndKeeps ==
  ASSUME IInv, writer = "bufio", FlushEnd, UNCHANGED fdVars
  PROVE  IInv'
<1>1. /\ wpc = "flush" /\ wdone = Len(wbuf) /\ wdone' = 0
      /\ UNCHANGED <<conn, offer, closed, pipe, readerVars>>
  BY DEF FlushEnd
<1>2. ~closed /\ accepted + offer <= MaxBytes
  BY <1>1, BufWriterFacts
<1>3. CASE offer > BufSize
  <2>1. wbuf' = <<>> /\ wpc' = "direct" /\ accepted' = accepted
    BY <1>3 DEF FlushEnd
  <2>2. wbuf' \in Seq(Bytes) /\ Len(wbuf') = 0
    BY <2>1, EmptyTyped
  <2>3. Len(wbuf') <= BufSize /\ wdone' \in 0..Len(wbuf')
    BY <1>1, <2>2, BufWriterFacts
  <2> QED
    BY <1>1, <1>2, <2>1, <2>2, <2>3, BufWriterFacts, BufWriterKeeps
<1>4. CASE ~(offer > BufSize)
  <2>1. wbuf' = <<>> \o Upcoming(offer) /\ accepted' = accepted + offer /\ wpc' = "idle"
    BY <1>4 DEF FlushEnd, Buffer
  <2>2. Upcoming(offer) \in Seq(Bytes) /\ Len(Upcoming(offer)) = offer
    BY <1>2, BufWriterFacts, UpcomingTyped
  <2>3. wbuf' = Upcoming(offer)
    BY <2>1, <2>2, ConcatEmptySeq
  <2>4. Len(wbuf') <= BufSize /\ wdone' \in 0..Len(wbuf') /\ accepted' \in 0..MaxBytes
    BY <1>1, <1>2, <1>4, <2>1, <2>2, <2>3, BufWriterFacts
  <2> QED
    BY <1>1, <1>2, <2>1, <2>2, <2>3, <2>4, BufWriterFacts, BufWriterKeeps
<1> QED
  BY <1>3, <1>4

LEMMA DirectWriteKeeps ==
  ASSUME IInv, writer = "bufio", NEW i \in 0..MaxRequest, DirectWrite(i), UNCHANGED fdVars
  PROVE  IInv'
<1>1. /\ wpc = "direct" /\ i <= offer /\ Len(pipe) + i <= PipeSize
      /\ pipe' = pipe \o Upcoming(i) /\ accepted' = accepted + i /\ wpc' = "idle"
      /\ UNCHANGED <<conn, wbuf, wdone, offer, closed, readerVars>>
  BY DEF DirectWrite
<1>2. i \in Nat /\ accepted + i <= MaxBytes /\ ~closed
  BY <1>1, BufWriterFacts
<1>3. Upcoming(i) \in Seq(Bytes) /\ Len(Upcoming(i)) = i
  BY <1>2, BufWriterFacts, UpcomingTyped
<1>4. pipe' \in Seq(Bytes) /\ Len(pipe') = Len(pipe) + i
  BY <1>1, <1>3, BufWriterFacts, ConcatProperties
<1>5. accepted' \in 0..MaxBytes /\ wdone' = 0 /\ Len(pipe') <= PipeSize
  BY <1>1, <1>2, <1>4, BufWriterFacts
<1> QED
  BY <1>1, <1>2, <1>4, <1>5, BufWriterFacts, BufWriterKeeps

LEMMA CloseKeeps ==
  ASSUME IInv, writer = "bufio", Close, UNCHANGED fdVars
  PROVE  IInv'
<1>1. /\ wpc = "idle" /\ ~closed /\ closed' = TRUE
      /\ UNCHANGED <<conn, wbuf, wdone, wpc, offer, accepted, pipe, readerVars>>
  BY DEF Close
<1> QED
  BY <1>1, BufWriterFacts, BufWriterKeeps
-----------------------------------------------------------------------------
(* Steps of a streambuf that writes *)

OldTyped ==
  old \in Olds /\ spoilt \in BOOLEAN /\ stale \in Seq(Bytes) /\ Len(stale) <= FdSize

LEMMA FdWriterFacts ==
  ASSUME IInv, writer = "fdbuf"
  PROVE  /\ wbuf = <<>> /\ wpc = "idle" /\ wdone = 0
         /\ accepted \in 0..MaxBytes /\ closed \in BOOLEAN
         /\ outbuf \in Seq(Bytes) /\ Len(outbuf) \in 0..FdSize
         /\ overrun \in BOOLEAN /\ stalled \in BOOLEAN
         /\ OldTyped
         /\ RoomForOne
         /\ pipe \in Seq(Bytes) /\ Len(pipe) \in 0..PipeSize
         /\ FdSize \in Nat \ {0, 1} /\ MaxBytes \in Nat
<1>1. Len(outbuf) \in Nat /\ Len(pipe) \in Nat
  BY LenProperties DEF IInv, WriterSide, WriterTypes, KernelTypes
<1> QED
  BY <1>1, SizesAssumption, FdSizesAssumption
    DEF IInv, WriterSide, WriterTypes, WriterPlace, WriterClass, KernelTypes, OldTyped

(* The step leaves the BufWriter alone. *)
LEMMA FdWriterKeeps ==
  ASSUME IInv, writer = "fdbuf",
         UNCHANGED <<conn, readerVars, otherWriterVars, writer, reader, getVars>>,
         closed' \in BOOLEAN, closed => closed' /\ pipe' = pipe,
         accepted' \in 0..MaxBytes,
         outbuf' \in Seq(Bytes), Len(outbuf') <= FdSize,
         overrun' \in BOOLEAN, stalled' \in BOOLEAN, OldTyped', RoomForOne',
         pipe' \in Seq(Bytes), Len(pipe') <= PipeSize
  PROVE  IInv'
<1>1. UNCHANGED <<wbuf, wdone, wpc, offer>>
  BY DEF otherWriterVars
<1>2. WriterTypes'
  BY <1>1 DEF IInv, WriterSide, WriterTypes, OldTyped
<1>3. WriterPlace'
  BY <1>1, FdWriterFacts DEF WriterPlace
<1>4. WriterClass'
  BY <1>1, FdWriterFacts DEF WriterClass
<1>5. WriterSide'
  BY <1>2, <1>3, <1>4 DEF WriterSide
<1> QED
  BY <1>5, WriterKeeps

(* oldVars are left alone by most steps. *)
LEMMA OldKept ==
  ASSUME IInv, writer = "fdbuf", UNCHANGED oldVars
  PROVE  OldTyped'
BY FdWriterFacts DEF oldVars, OldTyped

LEMMA FdPutKeeps ==
  ASSUME IInv, FdPut
  PROVE  IInv'
<1>1. /\ writer = "fdbuf" /\ ~overrun /\ accepted < MaxBytes
      /\ Len(outbuf) < FdSize - 1
      /\ outbuf' = Append(outbuf, accepted + 1) /\ accepted' = accepted + 1
      /\ UNCHANGED <<conn, otherWriterVars, closed, pipe, readerVars, writer, reader, overrun,
                     stalled, oldVars, getVars>>
  BY DEF FdPut, CanPut, Usable, PutArea
<1>2. accepted + 1 \in Bytes /\ accepted' \in 0..MaxBytes
  BY <1>1, FdWriterFacts DEF Bytes
<1>3. outbuf' \in Seq(Bytes) /\ Len(outbuf') = Len(outbuf) + 1
  BY <1>1, <1>2, FdWriterFacts, AppendProperties
<1>4. Len(outbuf') < FdSize
  BY <1>1, <1>3, FdWriterFacts
<1>5. RoomForOne' /\ OldTyped'
  BY <1>1, <1>4, FdWriterFacts, OldKept DEF RoomForOne
<1>6. /\ closed' \in BOOLEAN /\ overrun' \in BOOLEAN /\ stalled' \in BOOLEAN
      /\ pipe' \in Seq(Bytes) /\ Len(pipe') <= PipeSize /\ Len(outbuf') <= FdSize
  BY <1>1, <1>4, FdWriterFacts
<1> QED
  BY <1>1, <1>2, <1>3, <1>5, <1>6, FdWriterKeeps

(* What write takes of buf goes to the end of the pipe. *)
LEMMA WrittenFacts ==
  ASSUME IInv, NEW buf \in Seq(Bytes), NEW i \in Nat, Written(buf, i)
  PROVE  /\ i \in 0..Len(buf) /\ SubSeq(buf, 1, i) \in Seq(Bytes)
         /\ pipe' = pipe \o SubSeq(buf, 1, i) /\ pipe' \in Seq(Bytes)
         /\ Len(pipe') <= PipeSize
         /\ closed => pipe' = pipe
<1> DEFINE sent == SubSeq(buf, 1, i)
<1>1. /\ Len(buf) \in Nat /\ i \in 0..Len(buf) /\ pipe' = pipe \o sent
      /\ Len(pipe) + i <= PipeSize /\ (closed => i = 0)
  BY LenProperties DEF Written
<1>2. sent \in Seq(Bytes) /\ Len(sent) = i
  BY <1>1, FirstAndDrop
<1>3. pipe \in Seq(Bytes)
  BY DEF IInv, KernelTypes
<1> HIDE DEF sent
<1>4. pipe' \in Seq(Bytes) /\ Len(pipe') = Len(pipe) + i
  BY <1>1, <1>2, <1>3, ConcatProperties
<1>5. ASSUME closed PROVE pipe' = pipe
  <2>1. Len(sent) = 0
    BY <1>1, <1>2, <1>5
  <2>2. sent = <<>>
    BY <1>2, <2>1, EmptySeq
  <2> QED
    BY <1>1, <1>3, <2>2, ConcatEmptySeq
<1> QED
  BY <1>1, <1>2, <1>4, <1>5 DEF sent

(* What sync leaves of buf, if there is room for buf in outbuf_: a full     *)
(* buffer is left only by a write that took nothing.                        *)
LEMMA SyncLeaves ==
  ASSUME IInv, writer = "fdbuf", NEW buf \in Seq(Bytes), Len(buf) <= FdSize,
         NEW i \in 0..FdSize, Sync(buf, i)
  PROVE  /\ i \in 0..Len(buf)
         /\ outbuf' = Drop(buf, i) /\ outbuf' \in Seq(Bytes)
         /\ Len(outbuf') = Len(buf) - i /\ Len(outbuf') <= FdSize
         /\ SubSeq(buf, 1, i) \in Seq(Bytes) /\ Len(SubSeq(buf, 1, i)) = i
         /\ SubSeq(buf, 1, i) \o outbuf' = buf
         /\ stalled' \in BOOLEAN
         /\ Len(outbuf') = FdSize => stalled'
<1>1. Len(buf) \in Nat /\ i \in 0..Len(buf) /\ outbuf' = Drop(buf, i)
  BY LenProperties DEF Sync, Written, Unsent
<1>2. outbuf' \in Seq(Bytes) /\ Len(outbuf') = Len(buf) - i
  BY <1>1, DropTyped
<1>3. /\ SubSeq(buf, 1, i) \in Seq(Bytes) /\ Len(SubSeq(buf, 1, i)) = i
      /\ SubSeq(buf, 1, i) \o outbuf' = buf
  BY <1>1, FirstAndDrop
<1>4. stalled' \in BOOLEAN
  BY FdWriterFacts DEF Sync
<1>5. ASSUME Len(outbuf') = FdSize PROVE stalled'
  <2>1. i = 0 /\ Len(buf) # 0
    BY <1>1, <1>2, <1>5, FdWriterFacts
  <2>2. buf # <<>>
    BY <2>1, EmptyTyped
  <2> QED
    BY <2>1, <2>2 DEF Sync
<1> QED
  BY <1>1, <1>2, <1>3, <1>4, <1>5, FdWriterFacts

LEMMA SyncKeeps ==
  ASSUME IInv, writer = "fdbuf", ~overrun,
         NEW buf \in Seq(Bytes), Len(buf) <= FdSize, NEW i \in 0..FdSize, Sync(buf, i),
         accepted' \in 0..MaxBytes, closed' \in BOOLEAN, closed => closed',
         UNCHANGED <<conn, readerVars, otherWriterVars, writer, reader, overrun, oldVars,
                     getVars>>
  PROVE  IInv'
<1>1. /\ outbuf' \in Seq(Bytes) /\ Len(outbuf') <= FdSize
      /\ stalled' \in BOOLEAN /\ (Len(outbuf') = FdSize => stalled')
  BY SyncLeaves
<1>2. ~overrun' /\ overrun' \in BOOLEAN /\ OldTyped'
  BY FdWriterFacts, OldKept
<1>3. RoomForOne'
  BY <1>1, <1>2 DEF RoomForOne
<1>4. pipe' \in Seq(Bytes) /\ Len(pipe') <= PipeSize /\ (closed => closed' /\ pipe' = pipe)
  <2>1. Written(buf, i) /\ i \in Nat
    BY DEF Sync
  <2> QED
    BY <2>1, WrittenFacts
<1> QED
  BY <1>1, <1>2, <1>3, <1>4, FdWriterKeeps

LEMMA FdOverflowKeeps ==
  ASSUME IInv, NEW i \in 0..FdSize, FdOverflow(i)
  PROVE  IInv'
<1> DEFINE buf == Append(outbuf, accepted + 1)
<1>1. /\ writer = "fdbuf" /\ ~overrun /\ accepted < MaxBytes
      /\ Len(outbuf) <= FdSize - 1 /\ Sync(buf, i) /\ accepted' = accepted + 1
      /\ UNCHANGED <<conn, otherWriterVars, closed, readerVars, writer, reader, overrun,
                     oldVars, getVars>>
  BY FdSizesAssumption DEF FdOverflow, CanPut, Usable, PutArea
<1>2. accepted + 1 \in Bytes /\ accepted' \in 0..MaxBytes /\ closed' \in BOOLEAN
  BY <1>1, FdWriterFacts DEF Bytes
<1>3. buf \in Seq(Bytes) /\ Len(buf) = Len(outbuf) + 1
  BY <1>1, <1>2, FdWriterFacts, AppendProperties
<1>4. Len(buf) <= FdSize
  BY <1>1, <1>3, FdWriterFacts
<1> HIDE DEF buf
<1> QED
  BY <1>1, <1>2, <1>3, <1>4, SyncKeeps

LEMMA FdOverrunKeeps ==
  ASSUME IInv, FdOverrun
  PROVE  IInv'
<1>1. /\ writer = "fdbuf" /\ Len(outbuf) >= FdSize /\ overrun' = TRUE
      /\ UNCHANGED <<vars, writer, reader, outbuf, stalled, oldVars, getVars>>
  BY DEF FdOverrun, CanPut, Usable
<1>2. UNCHANGED <<conn, pipe, accepted, closed, otherWriterVars, readerVars>>
  BY <1>1 DEF vars, writerVars, otherWriterVars
<1>3. Len(outbuf) = FdSize
  BY <1>1, FdWriterFacts
<1>4. RoomForOne' /\ OldTyped'
  BY <1>1, <1>3, FdWriterFacts, OldKept DEF RoomForOne
<1>5. /\ closed' \in BOOLEAN /\ overrun' \in BOOLEAN /\ stalled' \in BOOLEAN
      /\ accepted' \in 0..MaxBytes /\ outbuf' \in Seq(Bytes) /\ Len(outbuf') <= FdSize
      /\ pipe' \in Seq(Bytes) /\ Len(pipe') <= PipeSize
  BY <1>1, <1>2, <1>3, FdWriterFacts
<1> QED
  BY <1>1, <1>2, <1>4, <1>5, FdWriterKeeps

LEMMA FdSyncKeeps ==
  ASSUME IInv, NEW i \in 0..FdSize, FdSync(i)
  PROVE  IInv'
<1>1. /\ writer = "fdbuf" /\ ~overrun /\ Sync(outbuf, i)
      /\ UNCHANGED <<conn, otherWriterVars, accepted, closed, readerVars, writer, reader,
                     overrun, oldVars, getVars>>
  BY DEF FdSync, Usable
<1> QED
  BY <1>1, FdWriterFacts, SyncKeeps

LEMMA FdCloseKeeps ==
  ASSUME IInv, NEW i \in 0..FdSize, FdClose(i)
  PROVE  IInv'
<1>1. /\ writer = "fdbuf" /\ ~overrun /\ Sync(outbuf, i) /\ closed' = TRUE
      /\ UNCHANGED <<conn, otherWriterVars, accepted, readerVars, writer, reader,
                     overrun, oldVars, getVars>>
  BY DEF FdClose, Usable
<1> QED
  BY <1>1, FdWriterFacts, SyncKeeps

LEMMA EmptyOld == <<>> \in Seq(Bytes) /\ Len(<<>>) <= FdSize
<1>1. 0 <= FdSize
  BY FdSizesAssumption
<1> QED
  BY <1>1, EmptyTyped

(* Only the streambuf of another connection is closed twice. *)
LEMMA CloseAgainFacts ==
  ASSUME IInv, NEW i \in 0..FdSize, FdCloseAgain(i)
  PROVE  /\ writer = "fdbuf" /\ ~closed /\ closed' = TRUE
         /\ stale \in Seq(Bytes) /\ pipe' = pipe \o SubSeq(stale, 1, i)
         /\ pipe' \in Seq(Bytes) /\ Len(pipe') <= PipeSize
         /\ old' = "again" /\ stale' = <<>> /\ spoilt' = (spoilt \/ i > 0)
         /\ UNCHANGED <<conn, otherWriterVars, accepted, readerVars, writer, reader,
                        outbuf, overrun, stalled, getVars>>
<1>1. /\ old = "closed" /\ ~closed /\ Written(stale, i) /\ i \in Nat
      /\ closed' = TRUE /\ old' = "again" /\ stale' = <<>> /\ spoilt' = (spoilt \/ i > 0)
      /\ UNCHANGED <<conn, otherWriterVars, accepted, readerVars, writer, reader,
                     outbuf, overrun, stalled, getVars>>
  BY DEF FdCloseAgain
<1>2. writer = "fdbuf"
  BY <1>1 DEF IInv, WriterSide, WriterTypes, WriterClass, Layers
<1>3. stale \in Seq(Bytes)
  BY DEF IInv, WriterSide, WriterTypes
<1> QED
  BY <1>1, <1>2, <1>3, WrittenFacts

LEMMA FdCloseAgainKeeps ==
  ASSUME IInv, NEW i \in 0..FdSize, FdCloseAgain(i)
  PROVE  IInv'
<1>1. /\ writer = "fdbuf" /\ ~closed /\ closed' = TRUE
      /\ pipe' \in Seq(Bytes) /\ Len(pipe') <= PipeSize
      /\ old' = "again" /\ stale' = <<>> /\ spoilt' = (spoilt \/ i > 0)
      /\ UNCHANGED <<conn, otherWriterVars, accepted, readerVars, writer, reader,
                     outbuf, overrun, stalled, getVars>>
  BY CloseAgainFacts
<1>2. OldTyped'
  BY <1>1, EmptyOld, FdWriterFacts DEF OldTyped, Olds
<1>3. /\ closed' \in BOOLEAN /\ accepted' \in 0..MaxBytes
      /\ outbuf' \in Seq(Bytes) /\ Len(outbuf') <= FdSize
      /\ overrun' \in BOOLEAN /\ stalled' \in BOOLEAN /\ RoomForOne'
  BY <1>1, FdWriterFacts DEF RoomForOne
<1> QED
  BY <1>1, <1>2, <1>3, FdWriterKeeps
-----------------------------------------------------------------------------
(* Steps of a BufReader *)

LEMMA BufReaderFacts ==
  ASSUME IInv
  PROVE  /\ errno \in Errnos /\ lastErrno \in Errnos
         /\ rbuf \in Seq(Bytes) /\ Len(rbuf) \in 0..BufSize /\ r \in 0..Len(rbuf)
         /\ eof \in BOOLEAN /\ full \in BOOLEAN /\ cont \in BOOLEAN
         /\ rpc \in {"idle", "readn", "fill", "filled"}
         /\ want \in 0..MaxRequest /\ got \in 0..want /\ bk \in 0..Retries
         /\ delivered \in Seq(Bytes) /\ closed \in BOOLEAN
         /\ pipe \in Seq(Bytes) /\ Len(pipe) \in 0..PipeSize
         /\ ReaderPlace /\ EofIsTheEnd
         /\ BufSize \in Nat \ {0} /\ PipeSize \in Nat /\ MaxRequest \in Nat
         /\ Retries \in Nat /\ want \in Nat /\ got \in Nat /\ r \in Nat
<1>1. Len(rbuf) \in Nat /\ Len(pipe) \in Nat
  BY LenProperties DEF IInv, ReaderSide, ReaderTypes, KernelTypes
<1> QED
  BY <1>1, SizesAssumption
    DEF IInv, ReaderSide, ReaderTypes, ReaderPlace, KernelTypes, WriterSide, WriterTypes

(* The step leaves the streambuf alone, which has given out nothing. *)
LEMMA BufReaderKeeps ==
  ASSUME IInv, reader = "bufio", UNCHANGED <<conn, writerVars, fdVars>>,
         errno' \in Errnos, lastErrno' \in Errnos,
         rbuf' \in Seq(Bytes), Len(rbuf') <= BufSize, r' \in 0..Len(rbuf'),
         eof' \in BOOLEAN, full' \in BOOLEAN, cont' \in BOOLEAN,
         rpc' \in {"idle", "readn", "fill", "filled"},
         want' \in 0..MaxRequest, got' \in 0..want', bk' \in 0..Retries,
         delivered' \in Seq(Bytes), ReaderPlace', EofIsTheEnd',
         pipe' \in Seq(Bytes), Len(pipe') <= PipeSize
  PROVE  IInv'
<1>1. UNCHANGED <<writer, reader, putVars, inbuf, gnext, seen>>
  BY DEF fdVars, getVars
<1>2. inbuf = <<>> /\ Len(inbuf) = 0 /\ seen = 0
  <2>1. inbuf = <<>> /\ seen \in 0..Len(inbuf)
    BY DEF IInv, ReaderSide, ReaderTypes, ReaderClass
  <2> QED
    BY <2>1, EmptyTyped
<1>3. ReaderTypes' /\ ReaderClass'
  BY <1>1, <1>2 DEF IInv, ReaderSide, ReaderTypes, ReaderClass
<1>4. UngetIsWhatWasGot'
  <2>1. SubSeq(inbuf, 1, seen) = <<>>
    BY <1>2, SubSeqEmpty
  <2>2. IsSuffix(<<>>, delivered')
    <3> DEFINE e == <<>>
               d == delivered'
    <3>1. e \in Seq(Bytes) /\ Len(e) = 0 /\ d \in Seq(Bytes) /\ Len(d) \in Nat
      BY EmptyTyped, LenProperties
    <3> HIDE DEF e, d
    <3>2. IsSuffix(e, d) <=>
            /\ Len(e) <= Len(d)
            /\ \A i \in 1..Len(e) : e[i] = d[Len(d) - Len(e) + i]
      BY <3>1, SuffixPlaces
    <3>3. IsSuffix(e, d)
      BY <3>1, <3>2
    <3> QED
      BY <3>3 DEF e, d
  <2> QED
    BY <1>1, <2>1, <2>2 DEF UngetIsWhatWasGot
<1>5. ReaderSide'
  BY <1>3, <1>4 DEF ReaderSide
<1> QED
  BY <1>1, <1>5, ReaderKeeps

(* The step does not read from the socket. *)
LEMMA InBufferKeeps ==
  ASSUME IInv, reader = "bufio",
         UNCHANGED <<conn, errno, eof, full, cont, want, pipe, writerVars, fdVars>>,
         lastErrno' \in Errnos, rbuf' \in Seq(Bytes), Len(rbuf') <= BufSize,
         r' \in 0..Len(rbuf'), rpc' \in {"idle", "readn", "fill"},
         got' \in 0..want, bk' \in 0..Retries, delivered' \in Seq(Bytes),
         rpc' # "idle" => got' < want,
         eof => r' = Len(rbuf'),
         rpc' = "fill" => r' = 0 /\ rbuf' = <<>> /\ ~eof
  PROVE  IInv'
<1>1. closed' = closed
  BY DEF writerVars
<1>2. ReaderPlace' /\ EofIsTheEnd'
  BY <1>1, BufReaderFacts DEF ReaderPlace, EofIsTheEnd
<1>3. /\ errno' \in Errnos /\ eof' \in BOOLEAN /\ full' \in BOOLEAN /\ cont' \in BOOLEAN
      /\ rpc' \in {"idle", "readn", "fill", "filled"}
      /\ want' \in 0..MaxRequest /\ got' \in 0..want'
      /\ pipe' \in Seq(Bytes) /\ Len(pipe') <= PipeSize
  BY BufReaderFacts
<1> QED
  BY <1>2, <1>3, BufReaderKeeps

LEMMA CallKeeps ==
  ASSUME IInv, reader = "bufio", NEW n \in 1..MaxRequest, NEW f \in BOOLEAN, NEW c \in BOOLEAN,
         Call(n, f, c), UNCHANGED fdVars
  PROVE  IInv'
<1>1. /\ rpc' = "readn" /\ full' = f /\ cont' = c /\ want' = n /\ got' = 0 /\ bk' = 0
      /\ UNCHANGED <<conn, errno, rbuf, r, eof, lastErrno, delivered, pipe, writerVars>>
  BY DEF Call
<1>2. closed' = closed
  BY <1>1 DEF writerVars
<1>3. ReaderPlace' /\ EofIsTheEnd'
  BY <1>1, <1>2, BufReaderFacts DEF ReaderPlace, EofIsTheEnd
<1>4. n \in 0..MaxRequest /\ 0 \in 0..n /\ 0 \in 0..Retries /\ Len(rbuf') <= BufSize
  BY <1>1, BufReaderFacts
<1>5. /\ errno' \in Errnos /\ lastErrno' \in Errnos /\ rbuf' \in Seq(Bytes)
      /\ r' \in 0..Len(rbuf') /\ eof' \in BOOLEAN /\ delivered' \in Seq(Bytes)
      /\ pipe' \in Seq(Bytes) /\ Len(pipe') <= PipeSize
  BY <1>1, BufReaderFacts
<1> QED
  BY <1>1, <1>3, <1>4, <1>5, BufReaderKeeps

LEMMA AfterFailureTyped ==
  ASSUME IInv, AfterFailure
  PROVE  rpc' \in {"idle", "readn"} /\ lastErrno' \in Errnos /\ bk' \in 0..Retries
BY BufReaderFacts DEF AfterFailure, MayRetry, Retried, Errnos

LEMMA FailedKeeps ==
  ASSUME IInv, reader = "bufio", rpc # "idle", AfterFailure, UNCHANGED fdVars,
         UNCHANGED <<conn, errno, rbuf, r, eof, full, cont, want, got, delivered, pipe,
                     writerVars>>
  PROVE  IInv'
<1>1. /\ rbuf' \in Seq(Bytes) /\ Len(rbuf') <= BufSize /\ r' \in 0..Len(rbuf')
      /\ got' \in 0..want /\ delivered' \in Seq(Bytes) /\ (eof => r' = Len(rbuf'))
      /\ got' < want
  BY BufReaderFacts DEF EofIsTheEnd, ReaderPlace
<1>2. rpc' \in {"idle", "readn", "fill"} /\ rpc' # "fill"
  BY AfterFailureTyped
<1> QED
  BY <1>1, <1>2, AfterFailureTyped, InBufferKeeps

LEMMA ReadnEmptyKeeps ==
  ASSUME IInv, reader = "bufio", ReadnEmpty, UNCHANGED fdVars
  PROVE  IInv'
<1>1. /\ rpc = "readn" /\ ~eof /\ rbuf' = <<>> /\ r' = 0 /\ rpc' = "fill"
      /\ UNCHANGED <<conn, errno, eof, lastErrno, full, cont, want, got, bk, delivered, pipe,
                     writerVars>>
  BY DEF ReadnEmpty, Emptied, callVars
<1>2. /\ rbuf' \in Seq(Bytes) /\ Len(rbuf') = 0 /\ Len(rbuf') <= BufSize
      /\ r' \in 0..Len(rbuf')
  BY <1>1, EmptyTyped, SizesAssumption
<1>3. lastErrno' \in Errnos /\ got' \in 0..want /\ bk' \in 0..Retries
      /\ delivered' \in Seq(Bytes) /\ got' < want
  BY <1>1, BufReaderFacts DEF ReaderPlace
<1> QED
  BY <1>1, <1>2, <1>3, InBufferKeeps

(* What readn gives to its caller. *)
Taken == IF want - got < Len(rbuf) - r THEN want - got ELSE Len(rbuf) - r

LEMMA TakenFacts ==
  ASSUME IInv
  PROVE  /\ Taken \in 0..Len(rbuf) - r /\ Taken \in 0..want - got
         /\ SubSeq(rbuf, r + 1, r + Taken) \in Seq(Bytes)
         /\ Len(SubSeq(rbuf, r + 1, r + Taken)) = Taken
<1>1. Taken \in 0..Len(rbuf) - r /\ Taken \in 0..want - got
  BY BufReaderFacts DEF Taken
<1>2. rbuf \in Seq(Bytes) /\ r \in 0..Len(rbuf)
  BY BufReaderFacts
<1> HIDE DEF Taken
<1> QED
  BY <1>1, <1>2, DropDrop

LEMMA ReadnTakeKeeps ==
  ASSUME IInv, reader = "bufio", ReadnTake, UNCHANGED fdVars
  PROVE  IInv'
<1> DEFINE given == SubSeq(rbuf, r + 1, r + Taken)
<1>1. /\ (rpc = "readn" /\ ~eof) \/ rpc = "filled"
      /\ r < Len(rbuf)
      /\ delivered' = delivered \o given /\ r' = r + Taken /\ got' = got + Taken
      /\ rpc' \in {"idle", "readn"}
      /\ UNCHANGED <<conn, errno, rbuf, eof, lastErrno, full, cont, want, bk, pipe, writerVars>>
  BY DEF ReadnTake, Take, Taken
<1>2. ~eof
  BY <1>1, BufReaderFacts DEF EofIsTheEnd
<1>3. given \in Seq(Bytes) /\ Taken \in 0..Len(rbuf) - r /\ Taken \in 0..want - got
  BY TakenFacts
<1> HIDE DEF given
<1>4. delivered' \in Seq(Bytes)
  BY <1>1, <1>3, BufReaderFacts, ConcatProperties
<1>5. /\ rbuf' \in Seq(Bytes) /\ Len(rbuf') <= BufSize /\ r' \in 0..Len(rbuf')
      /\ got' \in 0..want /\ bk' \in 0..Retries /\ lastErrno' \in Errnos
  <2>1. /\ rbuf \in Seq(Bytes) /\ Len(rbuf) \in 0..BufSize /\ r \in 0..Len(rbuf)
        /\ got \in 0..want /\ bk \in 0..Retries /\ lastErrno \in Errnos
        /\ want \in Nat /\ BufSize \in Nat
    BY BufReaderFacts
  <2>2. r + Taken \in 0..Len(rbuf) /\ got + Taken \in 0..want /\ Len(rbuf) <= BufSize
    BY <1>3, <2>1
  <2> QED
    BY <1>1, <2>1, <2>2
<1>6. /\ rpc' \in {"idle", "readn", "fill"} /\ rpc' # "fill"
      /\ rpc' # "idle" => got' < want
  BY <1>1 DEF ReadnTake, Take, Taken
<1> QED
  BY <1>1, <1>2, <1>4, <1>5, <1>6, InBufferKeeps

(* fill returns: its read brought bytes, the end or an error. *)
LEMMA FillKeeps ==
  ASSUME IInv, reader = "bufio", rpc = "fill", UNCHANGED fdVars,
         UNCHANGED <<conn, r, full, cont, want, got, bk, delivered, writerVars>>,
         errno' \in Errnos, lastErrno' \in Errnos, eof' \in BOOLEAN,
         rbuf' \in Seq(Bytes), Len(rbuf') <= BufSize,
         pipe' \in Seq(Bytes), Len(pipe') <= PipeSize,
         \/ rpc' = "filled"
         \/ rpc' = "fill" /\ rbuf' = rbuf /\ ~eof',
         rbuf' = <<>> => eof' \/ lastErrno' # "none",
         eof' => closed /\ pipe' = <<>> /\ rbuf' = <<>>
  PROVE  IInv'
<1>1. closed' = closed
  BY DEF writerVars
<1>2. r = 0 /\ rbuf = <<>>
  BY BufReaderFacts DEF ReaderPlace
<1>3. r' \in 0..Len(rbuf') /\ (rbuf' = <<>> => r' = Len(rbuf'))
  <2>1. Len(rbuf') \in Nat
    BY LenProperties
  <2> QED
    BY <1>2, <2>1, EmptyTyped
<1>4. ReaderPlace' /\ EofIsTheEnd'
  BY <1>1, <1>2, <1>3, BufReaderFacts DEF ReaderPlace, EofIsTheEnd
<1>5. /\ full' \in BOOLEAN /\ cont' \in BOOLEAN
      /\ rpc' \in {"idle", "readn", "fill", "filled"}
      /\ want' \in 0..MaxRequest /\ got' \in 0..want' /\ bk' \in 0..Retries
      /\ delivered' \in Seq(Bytes)
  BY BufReaderFacts
<1> QED
  BY <1>3, <1>4, <1>5, BufReaderKeeps

LEMMA FillDataKeeps ==
  ASSUME IInv, reader = "bufio", NEW i \in 1..BufSize, FillData(i), UNCHANGED fdVars
  PROVE  IInv'
<1> DEFINE data == SubSeq(pipe, 1, i)
<1>1. /\ rpc = "fill" /\ i <= Len(pipe) /\ rbuf' = rbuf \o data /\ pipe' = Drop(pipe, i)
      /\ lastErrno' = errno /\ rpc' = "filled"
      /\ UNCHANGED <<conn, errno, r, eof, full, cont, want, got, bk, delivered, writerVars>>
  BY DEF FillData, callVars
<1>2. i \in 0..Len(pipe) /\ pipe \in Seq(Bytes) /\ Len(pipe) \in Nat
  BY <1>1, BufReaderFacts
<1>3. data \in Seq(Bytes) /\ Len(data) = i
  BY <1>2, FirstAndDrop
<1> HIDE DEF data
<1>4. pipe' \in Seq(Bytes) /\ Len(pipe') = Len(pipe) - i
  BY <1>1, <1>2, DropTyped
<1>5. rbuf = <<>> /\ ~eof
  BY <1>1, BufReaderFacts DEF ReaderPlace
<1>6. rbuf' = data
  BY <1>1, <1>3, <1>5, ConcatEmptySeq
<1>7. rbuf' # <<>>
  BY <1>3, <1>6, EmptyTyped
<1>8. /\ errno' \in Errnos /\ lastErrno' \in Errnos /\ ~eof' /\ eof' \in BOOLEAN
      /\ rbuf' \in Seq(Bytes) /\ Len(rbuf') <= BufSize /\ Len(pipe') <= PipeSize
  BY <1>1, <1>2, <1>3, <1>4, <1>5, <1>6, BufReaderFacts
<1> QED
  BY <1>1, <1>4, <1>7, <1>8, FillKeeps

LEMMA FillEndKeeps ==
  ASSUME IInv, reader = "bufio", FillEnd, UNCHANGED fdVars
  PROVE  IInv'
<1>1. /\ rpc = "fill" /\ eof' = TRUE /\ lastErrno' = errno /\ rpc' = "filled"
      /\ UNCHANGED <<conn, errno, rbuf, r, full, cont, want, got, bk, delivered, pipe,
                     writerVars>>
  BY DEF FillEnd, callVars
<1>2. rbuf = <<>> /\ Len(rbuf) # BufSize
  BY <1>1, BufReaderFacts, EmptyTyped DEF ReaderPlace
<1>3. closed /\ pipe = <<>>
  BY <1>2 DEF FillEnd
<1>4. /\ errno' \in Errnos /\ lastErrno' \in Errnos
      /\ rbuf' \in Seq(Bytes) /\ Len(rbuf') <= BufSize
      /\ pipe' \in Seq(Bytes) /\ Len(pipe') <= PipeSize
  BY <1>1, BufReaderFacts
<1> QED
  BY <1>1, <1>2, <1>3, <1>4, FillKeeps

(* EAGAIN and EINTR *)
LEMMA FillFailedKeeps ==
  ASSUME IInv, reader = "bufio", FillAgain \/ FillInterrupted, UNCHANGED fdVars
  PROVE  IInv'
<1>1. /\ rpc = "fill" /\ rpc' \in {"fill", "filled"}
      /\ errno' \in {"EAGAIN", "EINTR"} /\ lastErrno' = errno'
      /\ UNCHANGED <<conn, rbuf, r, eof, full, cont, want, got, bk, delivered, pipe,
                     writerVars>>
  BY DEF FillAgain, FillInterrupted, callVars
<1>2. rbuf = <<>> /\ ~eof
  BY <1>1, BufReaderFacts DEF ReaderPlace
<1>3. /\ errno' \in Errnos /\ lastErrno' \in Errnos /\ lastErrno' # "none"
      /\ eof' \in BOOLEAN /\ ~eof' /\ rbuf' = rbuf
      /\ rbuf' \in Seq(Bytes) /\ Len(rbuf') <= BufSize
      /\ pipe' \in Seq(Bytes) /\ Len(pipe') <= PipeSize
  BY <1>1, <1>2, BufReaderFacts DEF Errnos
<1> QED
  BY <1>1, <1>2, <1>3, FillKeeps
-----------------------------------------------------------------------------
(* Steps of a streambuf that reads *)

LEMMA FdReaderFacts ==
  ASSUME IInv
  PROVE  /\ inbuf \in Seq(Bytes) /\ Len(inbuf) \in 0..FdSize + Putback
         /\ seen \in 0..Len(inbuf) /\ gnext \in 0..seen
         /\ delivered \in Seq(Bytes) /\ Len(delivered) \in Nat
         /\ pipe \in Seq(Bytes) /\ Len(pipe) \in 0..PipeSize
         /\ seen \in Nat /\ gnext \in Nat /\ FdSize \in Nat /\ Putback \in Nat
         /\ PipeSize \in Nat
         /\ SubSeq(inbuf, 1, seen) \in Seq(Bytes) /\ Len(SubSeq(inbuf, 1, seen)) = seen
         /\ \A i \in 1..seen : SubSeq(inbuf, 1, seen)[i] = inbuf[i]
<1>1. /\ inbuf \in Seq(Bytes) /\ Len(inbuf) <= FdSize + Putback
      /\ seen \in 0..Len(inbuf) /\ gnext \in 0..seen
      /\ delivered \in Seq(Bytes) /\ pipe \in Seq(Bytes) /\ Len(pipe) <= PipeSize
  BY DEF IInv, ReaderSide, ReaderTypes, KernelTypes
<1>2. Len(inbuf) \in Nat /\ Len(delivered) \in Nat /\ Len(pipe) \in Nat
  BY <1>1, LenProperties
<1>3. /\ SubSeq(inbuf, 1, seen) \in Seq(Bytes) /\ Len(SubSeq(inbuf, 1, seen)) = seen
      /\ \A i \in 1..seen : SubSeq(inbuf, 1, seen)[i] = inbuf[i]
  BY <1>1, FirstAndDrop
<1> QED
  BY <1>1, <1>2, <1>3, SizesAssumption, FdSizesAssumption

(* Of the characters that were given out last the get area has so many as   *)
(* it has given out, and at least so many as sungetc may ask for.           *)
GivenOut ==
  /\ seen <= Len(delivered)
  /\ \A i \in 1..seen : inbuf[i] = delivered[Len(delivered) - seen + i]
  /\ seen >= (IF Len(delivered) < Putback THEN Len(delivered) ELSE Putback)

LEMMA FdUngetGives ==
  ASSUME inbuf \in Seq(Bytes), seen \in 0..Len(inbuf), delivered \in Seq(Bytes),
         reader = "fdbuf"
  PROVE  UngetIsWhatWasGot <=> GivenOut
<1> DEFINE given == SubSeq(inbuf, 1, seen)
<1>1. /\ given \in Seq(Bytes) /\ Len(given) = seen
      /\ \A i \in 1..seen : given[i] = inbuf[i]
  BY FirstAndDrop
<1> HIDE DEF given
<1>2. IsSuffix(given, delivered) <=>
        /\ seen <= Len(delivered)
        /\ \A i \in 1..seen : given[i] = delivered[Len(delivered) - seen + i]
  BY <1>1, SuffixPlaces
<1>3. IsSuffix(given, delivered) <=>
        /\ seen <= Len(delivered)
        /\ \A i \in 1..seen : inbuf[i] = delivered[Len(delivered) - seen + i]
  BY <1>1, <1>2
<1> QED
  BY <1>3 DEF UngetIsWhatWasGot, GivenOut, given

(* The step leaves the BufReader alone. *)
LEMMA FdReaderKeeps ==
  ASSUME IInv, reader = "fdbuf",
         UNCHANGED <<conn, writerVars, otherReaderVars, writer, reader, putVars>>,
         inbuf' \in Seq(Bytes), Len(inbuf') <= FdSize + Putback,
         seen' \in 0..Len(inbuf'), gnext' \in 0..seen', delivered' \in Seq(Bytes),
         GivenOut',
         pipe' \in Seq(Bytes), Len(pipe') <= PipeSize
  PROVE  IInv'
<1>1. UNCHANGED <<errno, rbuf, r, eof, lastErrno, rpc, full, cont, want, got, bk>>
  BY DEF otherReaderVars, callVars
<1>2. ReaderTypes' /\ ReaderPlace' /\ ReaderClass' /\ ~eof
  BY <1>1 DEF IInv, ReaderSide, ReaderTypes, ReaderPlace, ReaderClass
<1>3. UngetIsWhatWasGot'
  <2>1. ( inbuf \in Seq(Bytes) /\ seen \in 0..Len(inbuf) /\ delivered \in Seq(Bytes)
          /\ reader = "fdbuf" => (UngetIsWhatWasGot <=> GivenOut) )'
    BY FdUngetGives, PTL
  <2> QED
    BY <2>1
<1>4. EofIsTheEnd'
  BY <1>1, <1>2 DEF EofIsTheEnd
<1>5. ReaderSide'
  BY <1>2, <1>3 DEF ReaderSide
<1> QED
  BY <1>4, <1>5, ReaderKeeps

LEMMA FdGetKeeps ==
  ASSUME IInv, FdGet
  PROVE  IInv'
<1>1. /\ reader = "fdbuf" /\ gnext < Len(inbuf) /\ gnext' = gnext + 1 /\ inbuf' = inbuf
      /\ UNCHANGED <<conn, writerVars, pipe, otherReaderVars, writer, reader, putVars>>
  BY DEF FdGet
<1>2. GivenOut
  BY <1>1, FdReaderFacts, FdUngetGives DEF IInv, ReaderSide
<1>3. CASE gnext < seen
  <2>1. seen' = seen /\ delivered' = delivered
    BY <1>3 DEF FdGet
  <2>2. gnext' \in 0..seen' /\ seen' \in 0..Len(inbuf')
    BY <1>1, <1>3, <2>1, FdReaderFacts
  <2>3. GivenOut'
    BY <1>1, <1>2, <2>1 DEF GivenOut
  <2>4. /\ inbuf' \in Seq(Bytes) /\ Len(inbuf') <= FdSize + Putback
        /\ delivered' \in Seq(Bytes) /\ pipe' \in Seq(Bytes) /\ Len(pipe') <= PipeSize
    BY <1>1, <2>1, FdReaderFacts
  <2> QED
    BY <1>1, <2>2, <2>3, <2>4, FdReaderKeeps
<1>4. CASE ~(gnext < seen)
  <2>1. /\ gnext = seen /\ seen' = seen + 1
        /\ delivered' = Append(delivered, inbuf[seen + 1])
    BY <1>4, FdReaderFacts DEF FdGet
  <2>2. inbuf[seen + 1] \in Bytes
    <3>1. seen + 1 \in 1..Len(inbuf) /\ inbuf \in Seq(Bytes)
      BY <1>1, <2>1, FdReaderFacts
    <3> QED
      BY <3>1, ElementOfSeq
  <2> DEFINE n == Len(delivered)
             c == inbuf[seen + 1]
  <2>3. /\ delivered' \in Seq(Bytes) /\ Len(delivered') = n + 1
        /\ \A i \in 1..n : delivered'[i] = delivered[i]
        /\ delivered'[n + 1] = c
    <3>1. delivered \in Seq(Bytes) /\ c \in Bytes /\ delivered' = Append(delivered, c)
      BY <2>1, <2>2, FdReaderFacts
    <3> HIDE DEF c
    <3> QED
      BY <3>1, AppendProperties
  <2>4. n \in Nat /\ seen \in Nat /\ Putback \in Nat
    BY FdReaderFacts
  <2>5. GivenOut'
    <3>1. seen' <= Len(delivered')
      BY <1>2, <2>1, <2>3, <2>4 DEF GivenOut
    <3>2. ASSUME NEW i \in 1..seen'
          PROVE  inbuf'[i] = delivered'[Len(delivered') - seen' + i]
      <4>1. Len(delivered') - seen' + i = n - seen + i
        BY <2>1, <2>3, <2>4
      <4>2. CASE i = seen + 1
        BY <1>1, <2>3, <2>4, <4>1, <4>2
      <4>3. CASE i # seen + 1
        <5>1. i \in 1..seen /\ n - seen + i \in 1..n
          BY <1>2, <2>1, <2>4, <4>3 DEF GivenOut
        <5> QED
          BY <1>1, <1>2, <2>3, <4>1, <5>1 DEF GivenOut
      <4> QED
        BY <4>2, <4>3
    <3>3. seen' >= (IF Len(delivered') < Putback THEN Len(delivered') ELSE Putback)
      BY <1>2, <2>1, <2>3, <2>4 DEF GivenOut
    <3> QED
      BY <3>1, <3>2, <3>3 DEF GivenOut
  <2>6. gnext' \in 0..seen' /\ seen' \in 0..Len(inbuf')
    BY <1>1, <2>1, FdReaderFacts
  <2>7. /\ inbuf' \in Seq(Bytes) /\ Len(inbuf') <= FdSize + Putback
        /\ pipe' \in Seq(Bytes) /\ Len(pipe') <= PipeSize
    BY <1>1, FdReaderFacts
  <2> QED
    BY <1>1, <2>3, <2>5, <2>6, <2>7, FdReaderKeeps
<1> QED
  BY <1>3, <1>4

LEMMA FdUngetKeeps ==
  ASSUME IInv, FdUnget
  PROVE  IInv'
<1>1. /\ reader = "fdbuf" /\ gnext > 0 /\ gnext' = gnext - 1
      /\ UNCHANGED <<vars, writer, reader, putVars, inbuf, seen>>
  BY DEF FdUnget
<1>2. UNCHANGED <<conn, pipe, writerVars, otherReaderVars, delivered>>
  BY <1>1 DEF vars, readerVars, otherReaderVars
<1>3. GivenOut
  BY <1>1, FdReaderFacts, FdUngetGives DEF IInv, ReaderSide
<1>4. GivenOut'
  BY <1>1, <1>2, <1>3 DEF GivenOut
<1>5. gnext' \in 0..seen' /\ seen' \in 0..Len(inbuf')
  BY <1>1, FdReaderFacts
<1>6. /\ inbuf' \in Seq(Bytes) /\ Len(inbuf') <= FdSize + Putback
      /\ delivered' \in Seq(Bytes) /\ pipe' \in Seq(Bytes) /\ Len(pipe') <= PipeSize
  BY <1>1, <1>2, FdReaderFacts
<1> QED
  BY <1>1, <1>2, <1>4, <1>5, <1>6, FdReaderKeeps

(* What underflow keeps: the last characters of a get area that has been    *)
(* got to its end.                                                          *)
LEMMA KeptFacts ==
  ASSUME IInv, gnext = Len(inbuf)
  PROVE  /\ seen = Len(inbuf) /\ Kept \in Seq(Bytes)
         /\ Len(Kept) = IF seen < Putback THEN seen ELSE Putback
         /\ \A i \in 1..Len(Kept) : Kept[i] = inbuf[seen - Len(Kept) + i]
<1> DEFINE pback == IF gnext < Putback THEN gnext ELSE Putback
           n == Len(inbuf) - pback
<1>1. seen = Len(inbuf) /\ seen = gnext
  BY FdReaderFacts
<1>2. /\ n \in 0..Len(inbuf) /\ inbuf \in Seq(Bytes) /\ Len(inbuf) \in Nat
      /\ pback \in Nat /\ Len(inbuf) - n = pback
      /\ pback = IF seen < Putback THEN seen ELSE Putback
  BY <1>1, FdReaderFacts
<1>3. Kept = Drop(inbuf, n)
  BY DEF Kept
<1> HIDE DEF n, pback
<1>4. /\ Kept \in Seq(Bytes) /\ Len(Kept) = pback
      /\ \A i \in 1..pback : Kept[i] = inbuf[n + i]
  BY <1>2, <1>3, DropTyped
<1>5. n = seen - Len(Kept)
  BY <1>1, <1>2, <1>4
<1>6. \A i \in 1..Len(Kept) : Kept[i] = inbuf[seen - Len(Kept) + i]
  BY <1>4, <1>5, Zenon
<1>7. Len(Kept) = IF seen < Putback THEN seen ELSE Putback
  BY <1>2, <1>4, Zenon
<1> QED
  BY <1>1, <1>4, <1>6, <1>7, Zenon

LEMMA FdUnderflowKeeps ==
  ASSUME IInv, NEW i \in 0..FdSize, FdUnderflow(i)
  PROVE  IInv'
<1> DEFINE data == SubSeq(pipe, 1, i)
           k == Len(Kept)
<1>1. /\ reader = "fdbuf" /\ gnext = Len(inbuf) /\ i <= Len(pipe)
      /\ inbuf' = Kept \o data /\ gnext' = k /\ seen' = k /\ pipe' = Drop(pipe, i)
      /\ UNCHANGED <<conn, writerVars, otherReaderVars, delivered, writer, reader, putVars>>
  BY DEF FdUnderflow
<1>2. i \in 0..Len(pipe) /\ pipe \in Seq(Bytes) /\ Len(pipe) \in 0..PipeSize
  BY <1>1, FdReaderFacts
<1>3. data \in Seq(Bytes) /\ Len(data) = i
  BY <1>2, FirstAndDrop
<1>4. pipe' \in Seq(Bytes) /\ Len(pipe') = Len(pipe) - i
  BY <1>1, <1>2, DropTyped
<1>5. /\ seen = Len(inbuf) /\ Kept \in Seq(Bytes)
      /\ k = IF seen < Putback THEN seen ELSE Putback
      /\ \A j \in 1..k : Kept[j] = inbuf[seen - k + j]
  BY <1>1, KeptFacts
<1> HIDE DEF data
<1>6. /\ inbuf' \in Seq(Bytes) /\ Len(inbuf') = k + i
      /\ \A j \in 1..k + i : inbuf'[j] = IF j <= k THEN Kept[j] ELSE data[j - k]
  BY <1>1, <1>3, <1>5, ConcatProperties
<1> HIDE DEF k
<1>7. GivenOut
  BY <1>1, FdReaderFacts, FdUngetGives DEF IInv, ReaderSide
<1> DEFINE n == Len(delivered)
<1>8. n \in Nat /\ seen \in Nat /\ Putback \in Nat /\ k \in 0..seen
  BY <1>5, FdReaderFacts
<1>9. GivenOut'
  <2>1. seen' = k /\ delivered' = delivered
    BY <1>1
  <2>2. ASSUME NEW j \in 1..k
        PROVE  inbuf'[j] = delivered[n - k + j]
    <3>1. /\ j \in 1..k + i /\ j <= k /\ seen - k + j \in 1..seen
          /\ n - seen + (seen - k + j) = n - k + j
      BY <1>8
    <3>2. inbuf'[j] = inbuf[seen - k + j]
      BY <1>5, <1>6, <3>1
    <3> QED
      BY <1>7, <3>1, <3>2 DEF GivenOut
  <2>3. k <= n /\ k >= (IF n < Putback THEN n ELSE Putback)
    BY <1>5, <1>7, <1>8 DEF GivenOut
  <2> QED
    BY <2>1, <2>2, <2>3 DEF GivenOut
<1>10. /\ Len(inbuf') <= FdSize + Putback /\ seen' \in 0..Len(inbuf') /\ gnext' \in 0..seen'
       /\ delivered' \in Seq(Bytes) /\ Len(pipe') <= PipeSize
  <2>1. /\ FdSize \in Nat /\ Putback \in Nat /\ PipeSize \in Nat /\ Len(pipe) \in Nat
        /\ delivered \in Seq(Bytes)
    BY FdReaderFacts
  <2>2. /\ k \in Nat /\ k <= Putback /\ i \in Nat /\ i <= FdSize
        /\ Len(pipe') <= Len(pipe) /\ Len(pipe) <= PipeSize
    BY <1>2, <1>4, <1>5, <1>8, <2>1
  <2>3. Len(inbuf') <= FdSize + Putback /\ k \in 0..Len(inbuf')
    BY <1>6, <2>1, <2>2
  <2>4. k \in 0..k /\ Len(pipe') <= PipeSize
    BY <1>4, <2>1, <2>2, <1>2
  <2> QED
    BY <1>1, <2>1, <2>3, <2>4
<1> QED
  BY <1>1, <1>4, <1>6, <1>9, <1>10, FdReaderKeeps
-----------------------------------------------------------------------------
(* Nothing is in any buffer: at the start, and on a new connection. *)
Fresh ==
  /\ wbuf = <<>> /\ wdone = 0 /\ wpc = "idle" /\ accepted = 0 /\ closed = FALSE
  /\ pipe = <<>> /\ rbuf = <<>> /\ r = 0 /\ eof = FALSE /\ lastErrno = "none"
  /\ rpc = "idle" /\ delivered = <<>>
  /\ outbuf = <<>> /\ overrun = FALSE /\ stalled = FALSE
  /\ inbuf = <<>> /\ gnext = 0 /\ seen = 0

LEMMA FreshKeeps ==
  ASSUME Fresh, writer \in Layers, reader \in Layers, offer \in 0..MaxRequest,
         errno \in Errnos, full \in BOOLEAN, cont \in BOOLEAN,
         want \in 0..MaxRequest, got \in 0..want, bk \in 0..Retries, conn \in 1..MaxConns,
         OldTyped, writer = "bufio" => old = "none"
  PROVE  IInv
<1>1. /\ <<>> \in Seq(Bytes) /\ Len(<<>>) = 0 /\ 0 \in 0..MaxBytes /\ 0 \in 0..0
      /\ 0 <= BufSize /\ 0 <= PipeSize /\ 0 <= FdSize /\ 0 <= FdSize + Putback
      /\ FdSize # 0 /\ Putback >= 0
  BY EmptyTyped, SizesAssumption, FdSizesAssumption
<1>2. WriterTypes
  BY <1>1 DEF Fresh, WriterTypes, OldTyped
<1>3. WriterPlace /\ WriterClass /\ RoomForOne
  BY <1>1 DEF Fresh, WriterPlace, WriterClass, RoomForOne
<1>4. ReaderTypes
  BY <1>1 DEF Fresh, ReaderTypes, Errnos
<1>5. ReaderPlace /\ ReaderClass /\ EofIsTheEnd
  BY DEF Fresh, ReaderPlace, ReaderClass, EofIsTheEnd
<1>6. UngetIsWhatWasGot
  <2>1. SubSeq(inbuf, 1, seen) = <<>> /\ delivered = <<>>
    BY SubSeqEmpty DEF Fresh
  <2>2. IsSuffix(<<>>, <<>>)
    <3> DEFINE e == <<>>
    <3>1. e \in Seq(Bytes) /\ Len(e) = 0
      BY <1>1
    <3> HIDE DEF e
    <3>2. IsSuffix(e, e) <=>
            /\ Len(e) <= Len(e)
            /\ \A i \in 1..Len(e) : e[i] = e[Len(e) - Len(e) + i]
      BY <3>1, SuffixPlaces
    <3>3. IsSuffix(e, e)
      BY <3>1, <3>2
    <3> QED
      BY <3>3 DEF e
  <2>3. seen >= (IF Len(delivered) < Putback THEN Len(delivered) ELSE Putback)
    BY <1>1, <2>1, FdSizesAssumption DEF Fresh
  <2> QED
    BY <2>1, <2>2, <2>3 DEF UngetIsWhatWasGot
<1>7. KernelTypes
  BY <1>1 DEF Fresh, KernelTypes
<1> QED
  BY <1>2, <1>3, <1>4, <1>5, <1>6, <1>7 DEF IInv, WriterSide, ReaderSide

LEMMA InitIInv == FdInit => IInv
<1> SUFFICES ASSUME FdInit PROVE IInv
  OBVIOUS
<1>1. Fresh
  BY DEF FdInit, Init, Fresh
<1>2. /\ 0 \in 0..MaxRequest /\ 0 \in 0..0 /\ 0 \in 0..Retries /\ 1 \in 1..MaxConns
  BY SizesAssumption
<1>3. OldTyped /\ old = "none"
  BY EmptyOld DEF FdInit, OldTyped, Olds
<1> QED
  BY <1>1, <1>2, <1>3, FreshKeeps DEF FdInit, Init, Errnos

LEMMA NewConnectionKeeps ==
  ASSUME IInv, NewConnection
  PROVE  IInv'
<1>1. ( Fresh /\ writer \in Layers /\ reader \in Layers /\ offer \in 0..MaxRequest
        /\ errno \in Errnos /\ full \in BOOLEAN /\ cont \in BOOLEAN
        /\ want \in 0..MaxRequest /\ got \in 0..want /\ bk \in 0..Retries
        /\ conn \in 1..MaxConns /\ OldTyped /\ (writer = "bufio" => old = "none")
        => IInv )'
  BY FreshKeeps, PTL
<1>2. ~overrun /\ overrun \in BOOLEAN /\ wdone = 0
  BY DEF NewConnection, Reset, IInv, WriterSide, WriterTypes, WriterPlace
<1>3. Fresh'
  BY <1>2 DEF NewConnection, Reset, Fresh
<1>4. /\ writer' \in Layers /\ reader' \in Layers /\ offer' \in 0..MaxRequest
      /\ errno' \in Errnos /\ full' \in BOOLEAN /\ cont' \in BOOLEAN
      /\ want' \in 0..MaxRequest /\ got' \in 0..want' /\ bk' \in 0..Retries
  BY DEF NewConnection, Reset, callVars, IInv, WriterSide, WriterTypes, ReaderSide, ReaderTypes
<1>5. conn' \in 1..MaxConns
  BY SizesAssumption DEF NewConnection, Reset, IInv, KernelTypes
<1>6. OldTyped' /\ (writer' = "bufio" => old' = "none")
  <2>1. stale' \in {outbuf, <<>>} /\ old' \in Olds /\ spoilt' = FALSE
    BY DEF NewConnection, Olds
  <2>2. outbuf \in Seq(Bytes) /\ Len(outbuf) <= FdSize
    BY DEF IInv, WriterSide, WriterTypes
  <2>3. stale' \in Seq(Bytes) /\ Len(stale') <= FdSize
    BY <2>1, <2>2, EmptyOld
  <2>4. writer' = "bufio" => old' = "none"
    BY DEF NewConnection
  <2> QED
    BY <2>1, <2>3, <2>4 DEF OldTyped
<1> QED
  BY <1>1, <1>3, <1>4, <1>5, <1>6

LEMMA StutterKeeps == IInv /\ UNCHANGED allVars => IInv'
<1> SUFFICES ASSUME IInv, UNCHANGED allVars PROVE IInv'
  OBVIOUS
<1>1. UNCHANGED <<conn, writerVars, pipe, readerVars, writer, reader, putVars, getVars>>
  BY DEF allVars, vars, fdVars
<1>2. WriterSide'
  BY <1>1, WriterAlone
<1>3. pipe' \in Seq(Bytes) /\ Len(pipe') <= PipeSize /\ (closed => closed')
  BY <1>1 DEF writerVars, IInv, KernelTypes
<1> QED
  BY <1>1, <1>2, <1>3, WriterKeeps

LEMMA NextKeepsIInv == IInv /\ [FdNext]_allVars => IInv'
<1> SUFFICES ASSUME IInv, FdNext PROVE IInv'
  BY StutterKeeps
<1>1. CASE NewConnection
  BY <1>1, NewConnectionKeeps
<1>2. CASE BufWriterStep
  <2>1. ASSUME NEW n \in 1..MaxRequest, Writen(n) PROVE IInv'
    BY <1>2, <2>1, WritenKeeps DEF BufWriterStep
  <2>2. ASSUME NEW i \in 1..MaxRequest, FlushWrite(i) PROVE IInv'
    BY <1>2, <2>2, FlushWriteKeeps DEF BufWriterStep
  <2>3. ASSUME NEW i \in 0..MaxRequest, DirectWrite(i) PROVE IInv'
    BY <1>2, <2>3, DirectWriteKeeps DEF BufWriterStep
  <2>4. CASE Flush \/ FlushFail \/ FlushEnd \/ Close
    BY <1>2, <2>4, FlushKeeps, FlushFailKeeps, FlushEndKeeps, CloseKeeps DEF BufWriterStep
  <2> QED
    BY <1>2, <2>1, <2>2, <2>3, <2>4 DEF BufWriterStep, WriterStep
<1>3. CASE FdWriterStep
  BY <1>3, FdPutKeeps, FdOverrunKeeps, FdOverflowKeeps, FdSyncKeeps, FdCloseKeeps,
     FdCloseAgainKeeps
    DEF FdWriterStep
<1>4. CASE BufReaderStep
  <2>1. reader = "bufio" /\ UNCHANGED fdVars
    BY <1>4 DEF BufReaderStep
  <2>2. CASE ReadnEof \/ ReadnNothing
    BY <2>1, <2>2, FailedKeeps DEF ReadnEof, ReadnNothing
  <2>3. CASE ReadnEmpty \/ ReadnTake \/ FillEnd \/ FillAgain
    BY <2>1, <2>3, ReadnEmptyKeeps, ReadnTakeKeeps, FillEndKeeps, FillFailedKeeps
  <2>4. ASSUME NEW i \in 1..BufSize, FillData(i) PROVE IInv'
    BY <2>1, <2>4, FillDataKeeps
  <2> QED
    BY <1>4, <2>2, <2>3, <2>4 DEF BufReaderStep, ReaderStep
<1>5. CASE BufReaderCall
  <2>1. CASE FillInterrupted
    BY <1>5, <2>1, FillFailedKeeps DEF BufReaderCall
  <2>2. ASSUME NEW n \in 1..MaxRequest, NEW c \in BOOLEAN, Readn(n, c) \/ Readfull(n, c)
        PROVE  IInv'
    BY <1>5, <2>2, CallKeeps DEF BufReaderCall, Readn, Readfull
  <2> QED
    BY <1>5, <2>1, <2>2 DEF BufReaderCall
<1>6. CASE FdReaderStep
  BY <1>6, FdGetKeeps, FdUngetKeeps, FdUnderflowKeeps DEF FdReaderStep
<1> QED
  BY <1>1, <1>2, <1>3, <1>4, <1>5, <1>6 DEF FdNext

LEMMA Invariance == FdSpec => []IInv
BY InitIInv, NextKeepsIInv, PTL DEF FdSpec

(* buf_ of a BufReader and of a BufWriter never outgrows its array and r_   *)
(* never leaves it, for buffers of every size, also when a streambuf is at  *)
(* the other end and when the objects are used again after a reset.         *)
THEOREM BufTyping == FdSpec => []TypeOK
<1>1. IInv => TypeOK
  BY SidesTyped
<1> QED
  BY <1>1, Invariance, PTL

(* The same of outbuf_ and inbuf_ of the streambufs.                        *)
THEOREM Typing == FdSpec => []FdTypeOK
<1>1. IInv => FdTypeOK
  BY SidesTyped
<1> QED
  BY <1>1, Invariance, PTL

(* A BufReader takes nothing for the end that is not: fill never asks read  *)
(* for no bytes, and EAGAIN and EINTR are told apart from the end.          *)
THEOREM EndIsTheEnd == FdSpec => []EofIsTheEnd
<1>1. IInv => EofIsTheEnd
  BY DEF IInv
<1> QED
  BY <1>1, Invariance, PTL

(* For an outbuf_ and put-back area of every size: what sungetc gives back  *)
(* is what was got last, and there is as much of it as was promised.        *)
THEOREM UngetGivesBack == FdSpec => []UngetIsWhatWasGot
<1>1. IInv => UngetIsWhatWasGot
  BY DEF IInv, ReaderSide
<1> QED
  BY <1>1, Invariance, PTL

(* overflow puts no character behind outbuf_, but after a write that took   *)
(* nothing.                                                                 *)
THEOREM OverflowHasRoom == FdSpec => []RoomForOne
<1>1. IInv => RoomForOne
  BY DEF IInv, WriterSide
<1> QED
  BY <1>1, Invariance, PTL
-----------------------------------------------------------------------------
(* A call that has not got what it should gives up in AfterFailure, at the  *)
(* end or after a fill that left its reason.                                *)
ShortReadStep ==
  rpc # "idle" /\ rpc' = "idle" /\ got' < (IF full THEN want ELSE 1) =>
    eof' \/ lastErrno' # "none"

LEMMA GivingUpExplained ==
  ASSUME AfterFailure, eof' = eof, rpc' = "idle", eof \/ lastErrno # "none"
  PROVE  eof' \/ lastErrno' # "none"
BY DEF AfterFailure

LEMMA ReaderExplains ==
  ASSUME IInv, BufReaderStep
  PROVE  ShortReadStep
<1> SUFFICES ASSUME rpc # "idle", rpc' = "idle", got' < (IF full THEN want ELSE 1)
             PROVE  eof' \/ lastErrno' # "none"
  BY DEF ShortReadStep
<1>1. CASE ReadnEof
  BY <1>1, GivingUpExplained DEF ReadnEof
<1>2. CASE ReadnNothing
  <2>1. rbuf = <<>>
    <3>1. Len(rbuf) = 0 /\ rbuf \in Seq(Bytes)
      BY <1>2, BufReaderFacts DEF ReadnNothing
    <3> QED
      BY <3>1, EmptySeq
  <2>2. eof \/ lastErrno # "none"
    BY <1>2, <2>1, BufReaderFacts DEF ReadnNothing, ReaderPlace
  <2> QED
    BY <1>2, <2>2, GivingUpExplained DEF ReadnNothing
<1>3. CASE ReadnTake
  <2>1. got' = got + Taken /\ r < Len(rbuf) /\ (full => ~(got + Taken < want))
    BY <1>3 DEF ReadnTake, Take, Taken
  <2>2. got < want /\ got \in Nat /\ want \in Nat /\ Len(rbuf) \in Nat /\ r \in Nat
    BY BufReaderFacts DEF ReaderPlace
  <2>3. Taken \in Nat /\ Taken >= 1
    BY <2>1, <2>2 DEF Taken
  <2> QED
    BY <2>1, <2>2, <2>3
<1>4. CASE ReadnEmpty \/ FillEnd \/ FillAgain \/ \E i \in 1..BufSize : FillData(i)
  BY <1>4 DEF ReadnEmpty, FillEnd, FillAgain, FillData
<1> QED
  BY <1>1, <1>2, <1>3, <1>4 DEF BufReaderStep, ReaderStep

LEMMA NextExplains == IInv /\ [FdNext]_allVars => [ShortReadStep]_vars
<1> SUFFICES ASSUME IInv, FdNext, ~(UNCHANGED vars) PROVE ShortReadStep
  BY DEF allVars
<1>1. ASSUME rpc' = rpc PROVE ShortReadStep
  BY <1>1 DEF ShortReadStep
<1>2. CASE BufReaderStep
  BY <1>2, ReaderExplains
<1>3. CASE BufReaderCall
  BY <1>3 DEF BufReaderCall, FillInterrupted, Readn, Readfull, Call, ShortReadStep
<1>4. CASE NewConnection \/ BufWriterStep \/ FdWriterStep \/ FdReaderStep
  <2>1. rpc' = rpc
    BY <1>4
      DEF NewConnection, Reset, BufWriterStep, WriterStep, Writen, Flush, FlushWrite, FlushFail,
          FlushEnd, DirectWrite, Close, FdWriterStep, FdPut, FdOverrun, FdOverflow, FdSync,
          FdClose, FdCloseAgain, FdReaderStep, FdGet, FdUnget, FdUnderflow, otherReaderVars,
          readerVars, vars
  <2> QED
    BY <1>1, <2>1
<1> QED
  BY <1>2, <1>3, <1>4 DEF FdNext

(* However often fill fails, is retried and interrupted, a readfull that    *)
(* returns less than it was asked for, and a readn that returns nothing,    *)
(* leaves eof_ or an errno_.                                                *)
THEOREM ShortReadHasReason == FdSpec => ShortReadExplained
<1>1. IInv /\ [FdNext]_allVars =>
        [rpc # "idle" /\ rpc' = "idle" /\ got' < (IF full THEN want ELSE 1) =>
           eof' \/ lastErrno' # "none"]_vars
  BY NextExplains DEF ShortReadStep
<1> QED
  BY <1>1, Invariance, PTL DEF FdSpec, ShortReadExplained
=============================================================================
