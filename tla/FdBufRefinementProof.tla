------------------------ MODULE FdBufRefinementProof ------------------------
(***************************************************************************)
(* FdBuf implements Stream: whichever class is at either end, what comes   *)
(* out is the beginning of what went in.  What makes it so is that the     *)
(* bytes given out and the bytes in flight are those the writer has taken. *)
(***************************************************************************)
EXTENDS FdBufProof

(* What is on the reader's side of the pipe, and on the writer's. *)
RBytes == Drop(inbuf, seen) \o Drop(rbuf, r)

WBytes == outbuf \o Drop(wbuf, wdone)

(* The bytes on their way, from the reader's buffer back to the writer's. *)
InFlight ==
  Drop(inbuf, seen) \o Drop(rbuf, r) \o pipe \o outbuf \o Drop(wbuf, wdone)

Conserved == ~spoilt => delivered \o InFlight = Numbered(accepted)

(* Five sequences of a set that is closed under concatenation. *)
Closed(T) == \A s, t \in T : s \o t \in T

Associative(T) == \A s, t, u \in T : (s \o t) \o u = s \o (t \o u)

LEMMA SeqAssociative == Closed(Seq(Bytes)) /\ Associative(Seq(Bytes))
BY ConcatProperties, ConcatAssociative DEF Closed, Associative

LEMMA AllJoined ==
  \A x, y, z \in Seq(Bytes) : x \o y \in Seq(Bytes) /\ (x \o y) \o z = x \o (y \o z)
BY ConcatProperties, ConcatAssociative

Parts(T, a, b, c, d, e) == a \in T /\ b \in T /\ c \in T /\ d \in T /\ e \in T

Regrouped(T, a, b, c, d, e) ==
  /\ a \o b \in T /\ d \o e \in T /\ (a \o b) \o c \in T
  /\ a \o b \o c \o d \o e = ((a \o b) \o c) \o (d \o e)
  /\ a \o b \o c \o d \o e = (a \o b) \o (c \o (d \o e))

LEMMA FiveParts ==
  ASSUME NEW T, Closed(T), Associative(T),
         NEW a, NEW b, NEW c, NEW d, NEW e, Parts(T, a, b, c, d, e)
  PROVE  Regrouped(T, a, b, c, d, e)
<1>1. a \in T /\ b \in T /\ c \in T /\ d \in T /\ e \in T
  BY DEF Parts
<1>2. a \o b \in T /\ d \o e \in T
  BY <1>1, Zenon DEF Closed
<1>3. (a \o b) \o c \in T
  BY <1>1, <1>2, Zenon DEF Closed
<1> DEFINE x == (a \o b) \o c
           v == a \o b
           w == d \o e
<1>4. (x \o d) \o e = x \o (d \o e)
  <2>1. x \in T /\ d \in T /\ e \in T
    BY <1>1, <1>3
  <2> HIDE DEF x
  <2> QED
    BY <2>1, Zenon DEF Associative
<1>5. (v \o c) \o w = v \o (c \o w)
  <2>1. v \in T /\ c \in T /\ w \in T
    BY <1>1, <1>2
  <2> HIDE DEF v, w
  <2> QED
    BY <2>1, Zenon DEF Associative
<1> QED
  BY <1>2, <1>3, <1>4, <1>5, Zenon DEF Regrouped

LEMMA PartsTyped ==
  ASSUME IInv
  PROVE  /\ Drop(inbuf, seen) \in Seq(Bytes) /\ Drop(rbuf, r) \in Seq(Bytes)
         /\ pipe \in Seq(Bytes) /\ outbuf \in Seq(Bytes)
         /\ Drop(wbuf, wdone) \in Seq(Bytes)
<1>1. /\ inbuf \in Seq(Bytes) /\ seen \in 0..Len(inbuf)
      /\ rbuf \in Seq(Bytes) /\ r \in 0..Len(rbuf)
      /\ wbuf \in Seq(Bytes) /\ wdone \in 0..Len(wbuf)
      /\ pipe \in Seq(Bytes) /\ outbuf \in Seq(Bytes)
  BY DEF IInv, WriterSide, WriterTypes, ReaderSide, ReaderTypes, KernelTypes
<1> QED
  BY <1>1, DropTyped

LEMMA Flow ==
  IInv =>
    /\ RBytes \in Seq(Bytes) /\ WBytes \in Seq(Bytes) /\ pipe \in Seq(Bytes)
    /\ RBytes \o pipe \in Seq(Bytes)
    /\ InFlight = RBytes \o (pipe \o WBytes)
    /\ InFlight = (RBytes \o pipe) \o WBytes
<1> SUFFICES ASSUME IInv
             PROVE  /\ RBytes \in Seq(Bytes) /\ WBytes \in Seq(Bytes) /\ pipe \in Seq(Bytes)
                    /\ RBytes \o pipe \in Seq(Bytes)
                    /\ InFlight = RBytes \o (pipe \o WBytes)
                    /\ InFlight = (RBytes \o pipe) \o WBytes
  OBVIOUS
<1> DEFINE a == Drop(inbuf, seen)
           b == Drop(rbuf, r)
           f == Drop(wbuf, wdone)
<1>1. /\ a \in Seq(Bytes) /\ b \in Seq(Bytes) /\ f \in Seq(Bytes)
      /\ pipe \in Seq(Bytes) /\ outbuf \in Seq(Bytes)
  BY PartsTyped
<1>2. /\ RBytes = a \o b /\ WBytes = outbuf \o f
      /\ InFlight = a \o b \o pipe \o outbuf \o f
  BY DEF RBytes, WBytes, InFlight
<1> HIDE DEF a, b, f
<1> DEFINE T == Seq(Bytes)
<1>3. Closed(T) /\ Associative(T)
  BY SeqAssociative, Zenon
<1>4. Parts(T, a, b, pipe, outbuf, f)
  BY <1>1 DEF Parts
<1> HIDE DEF T
<1>5. Regrouped(T, a, b, pipe, outbuf, f)
  BY <1>3, <1>4, FiveParts, Zenon
<1>6. /\ a \o b \in T /\ outbuf \o f \in T /\ (a \o b) \o pipe \in T
      /\ a \o b \o pipe \o outbuf \o f = ((a \o b) \o pipe) \o (outbuf \o f)
      /\ a \o b \o pipe \o outbuf \o f = (a \o b) \o (pipe \o (outbuf \o f))
  BY <1>5, Zenon DEF Regrouped
<1> QED
  BY <1>1, <1>2, <1>6, Zenon DEF T

LEMMA FlowPrimed ==
  IInv' =>
    /\ RBytes' \in Seq(Bytes) /\ WBytes' \in Seq(Bytes) /\ pipe' \in Seq(Bytes)
    /\ InFlight' = RBytes' \o (pipe' \o WBytes')
    /\ InFlight' = (RBytes' \o pipe') \o WBytes'
<1>1. ( IInv =>
          /\ RBytes \in Seq(Bytes) /\ WBytes \in Seq(Bytes) /\ pipe \in Seq(Bytes)
          /\ RBytes \o pipe \in Seq(Bytes)
          /\ InFlight = RBytes \o (pipe \o WBytes)
          /\ InFlight = (RBytes \o pipe) \o WBytes )'
  BY Flow, PTL
<1> QED
  BY <1>1
-----------------------------------------------------------------------------
(* Steps of the stream *)

Mapped == Conserved => Conserved' /\ [Abstract!Next]_Abstract!vars

LEMMA StutterMaps ==
  ASSUME InFlight' = InFlight, UNCHANGED <<accepted, delivered, eof, spoilt, conn>>
  PROVE  Mapped
<1>1. Numbered(accepted)' = Numbered(accepted)
  BY DEF Numbered
<1> QED
  BY <1>1 DEF Mapped, Conserved, Abstract!vars

LEMMA NumberedTyped ==
  ASSUME NEW n \in 0..MaxBytes
  PROVE  Numbered(n) \in Seq(Bytes) /\ Len(Numbered(n)) = n
<1>1. n \in Nat /\ \A i \in 1..n : i \in Bytes
  BY SizesAssumption DEF Bytes
<1>2. Numbered(n) \in [1..n -> Bytes]
  BY <1>1 DEF Numbered
<1>3. Numbered(n) \in Seq(Bytes) /\ DOMAIN Numbered(n) = 1..n
  BY <1>1, <1>2
<1> QED
  BY <1>1, <1>3, LenProperties

LEMMA NumberedGrows ==
  ASSUME accepted \in 0..MaxBytes, NEW k \in Nat, accepted + k <= MaxBytes
  PROVE  Numbered(accepted + k) = Numbered(accepted) \o Upcoming(k)
<1> DEFINE p == Numbered(accepted + k)
           q == Numbered(accepted)
           u == Upcoming(k)
<1>1. /\ p \in Seq(Bytes) /\ Len(p) = accepted + k
      /\ q \in Seq(Bytes) /\ Len(q) = accepted
      /\ u \in Seq(Bytes) /\ Len(u) = k
  <2>1. accepted + k \in 0..MaxBytes
    OBVIOUS
  <2> QED
    BY <2>1, NumberedTyped, UpcomingTyped
<1>2. /\ \A i \in 1..accepted + k : p[i] = i
      /\ \A i \in 1..accepted : q[i] = i
      /\ \A i \in 1..k : u[i] = accepted + i
  BY DEF Numbered, Upcoming
<1> HIDE DEF p, q, u
<1>3. /\ q \o u \in Seq(Bytes) /\ Len(q \o u) = accepted + k
      /\ \A i \in 1..accepted + k :
           (q \o u)[i] = IF i <= accepted THEN q[i] ELSE u[i - accepted]
  BY <1>1, ConcatProperties
<1>4. ASSUME NEW i \in 1..Len(p) PROVE p[i] = (q \o u)[i]
  <2>1. i \in 1..accepted + k
    BY <1>1
  <2>2. CASE i <= accepted
    BY <1>2, <1>3, <2>1, <2>2
  <2>3. CASE ~(i <= accepted)
    <3>1. i - accepted \in 1..k /\ accepted + (i - accepted) = i
      BY <2>1, <2>3
    <3> QED
      BY <1>2, <1>3, <2>1, <2>3, <3>1
  <2> QED
    BY <2>2, <2>3
<1>5. p = q \o u
  BY <1>1, <1>3, <1>4, SeqEqual
<1> QED
  BY <1>5 DEF p, q, u

LEMMA PutMaps ==
  ASSUME InFlight \in Seq(Bytes), delivered \in Seq(Bytes), accepted \in 0..MaxBytes,
         NEW k \in Nat, accepted + k <= MaxBytes, accepted' = accepted + k,
         InFlight' = InFlight \o Upcoming(k), UNCHANGED <<delivered, eof, spoilt, conn>>
  PROVE  Mapped
<1> DEFINE q == InFlight
           u == Upcoming(k)
           s == Numbered(accepted)
           t == Numbered(accepted + k)
<1>1. /\ q \in Seq(Bytes) /\ u \in Seq(Bytes) /\ s \in Seq(Bytes) /\ t \in Seq(Bytes)
      /\ t = s \o u
  <2>1. accepted + k \in 0..MaxBytes
    OBVIOUS
  <2> QED
    BY <2>1, NumberedTyped, NumberedGrows, UpcomingTyped
<1>2. Numbered(accepted)' = t /\ InFlight' = q \o u
  BY DEF Numbered
<1> HIDE DEF q, u, s, t
<1>3. delivered \o (q \o u) = (delivered \o q) \o u
  BY <1>1, AllJoined, Zenon
<1>4. Conserved => Conserved'
  BY <1>1, <1>2, <1>3 DEF Conserved, q, s
<1>5. t \in Seq(1..MaxBytes) /\ Abstract!IsPrefix(s, t)
  <2>1. IsPrefix(s, t)
    BY <1>1, PrefixOfConcat
  <2> QED
    BY <1>1, <2>1 DEF Bytes, IsPrefix, Abstract!IsPrefix
<1>6. Abstract!Put
  BY <1>2, <1>5 DEF Abstract!Put, s
<1> QED
  BY <1>4, <1>6 DEF Mapped, Abstract!Next

(* What is behind the first n elements does not matter to them. *)
LEMMA FirstOfConcat ==
  ASSUME NEW S, NEW s \in Seq(S), NEW t \in Seq(S), NEW n \in 0..Len(s)
  PROVE  SubSeq(s, 1, n) = SubSeq(s \o t, 1, n)
<1>1. Len(s) \in Nat /\ Len(t) \in Nat
  BY LenProperties
<1>2. /\ s \o t \in Seq(S) /\ Len(s \o t) = Len(s) + Len(t)
      /\ \A i \in 1..Len(s) + Len(t) :
           (s \o t)[i] = IF i <= Len(s) THEN s[i] ELSE t[i - Len(s)]
  BY ConcatProperties
<1>3. /\ SubSeq(s, 1, n) \in Seq(S) /\ Len(SubSeq(s, 1, n)) = n
      /\ \A i \in 1..n : SubSeq(s, 1, n)[i] = s[i]
  BY FirstAndDrop
<1> DEFINE c == s \o t
<1>4. c \in Seq(S) /\ n \in 0..Len(c)
  BY <1>1, <1>2
<1>5. \A i \in 1..n : c[i] = s[i]
  BY <1>1, <1>2
<1> HIDE DEF c
<1>6. /\ SubSeq(c, 1, n) \in Seq(S) /\ Len(SubSeq(c, 1, n)) = n
      /\ \A i \in 1..n : SubSeq(c, 1, n)[i] = c[i]
  BY <1>4, FirstAndDrop
<1>7. SubSeq(s, 1, n) = SubSeq(c, 1, n)
  BY <1>3, <1>5, <1>6, SeqEqual
<1> QED
  BY <1>7 DEF c

LEMMA FirstOfDrop ==
  ASSUME NEW S, NEW s \in Seq(S), NEW t \in Seq(S), NEW m \in 0..Len(s), NEW n \in 0..Len(s) - m
  PROVE  SubSeq(Drop(s, m) \o t, 1, n) = SubSeq(s, m + 1, m + n)
<1> DEFINE g == SubSeq(s, m + 1, m + n)
           d == Drop(s, m)
           e == Drop(s, m + n)
<1>1. /\ g \in Seq(S) /\ Len(g) = n /\ g \o e = d /\ d \in Seq(S) /\ Len(d) = Len(s) - m
  <2>1. g \in Seq(S) /\ Len(g) = n /\ g \o e = d
    BY DropDrop
  <2>2. d \in Seq(S) /\ Len(d) = Len(s) - m
    BY DropTyped
  <2> QED
    BY <2>1, <2>2
<1>2. e \in Seq(S)
  <2>1. m + n \in 0..Len(s)
    BY LenProperties
  <2> QED
    BY <2>1, DropTyped
<1> HIDE DEF g, d, e
<1>3. n \in 0..Len(d) /\ n \in 0..Len(g)
  BY <1>1
<1>4. SubSeq(d, 1, n) = SubSeq(d \o t, 1, n)
  BY <1>1, <1>3, FirstOfConcat
<1>5. SubSeq(g, 1, n) = SubSeq(g \o e, 1, n)
  BY <1>1, <1>2, <1>3, FirstOfConcat
<1>6. SubSeq(g, 1, n) = g
  BY <1>1, SubSeqFull
<1> QED
  BY <1>1, <1>4, <1>5, <1>6 DEF g, d

LEMMA GetMaps ==
  ASSUME InFlight \in Seq(Bytes), delivered \in Seq(Bytes), NEW n \in 0..Len(InFlight),
         InFlight' = Drop(InFlight, n), delivered' = delivered \o SubSeq(InFlight, 1, n),
         ~eof, UNCHANGED <<accepted, eof, spoilt, conn>>
  PROVE  Mapped
<1> DEFINE g == SubSeq(InFlight, 1, n)
           q == InFlight'
           d == delivered
           e == delivered'
           s == Numbered(accepted)
<1>1. g \in Seq(Bytes) /\ q \in Seq(Bytes) /\ InFlight = g \o q
  BY FirstAndDrop, DropTyped
<1>2. Numbered(accepted)' = s /\ d \in Seq(Bytes) /\ e = d \o g
  BY DEF Numbered
<1> HIDE DEF g, q, d, e, s
<1>3. e \in Seq(Bytes) /\ e \o q = d \o (g \o q)
  BY <1>1, <1>2, AllJoined, Zenon
<1>4. Conserved => Conserved'
  BY <1>1, <1>2, <1>3 DEF Conserved, q, d, e, s
<1> SUFFICES ASSUME Conserved, Conserved' PROVE Abstract!Get
  BY <1>4 DEF Mapped, Abstract!Next
<1>5. e \in Seq(1..MaxBytes) /\ Abstract!IsPrefix(d, e)
  <2>1. IsPrefix(d, e)
    BY <1>1, <1>2, PrefixOfConcat
  <2> QED
    BY <1>3, <2>1 DEF Bytes, IsPrefix, Abstract!IsPrefix
<1>6. spoilt \/ Abstract!IsPrefix(e, s)
  <2> SUFFICES ASSUME ~spoilt PROVE Abstract!IsPrefix(e, s)
    OBVIOUS
  <2>1. s = e \o q
    BY <1>2 DEF Conserved, q, e
  <2>2. IsPrefix(e, s)
    BY <1>1, <1>3, <2>1, PrefixOfConcat
  <2> QED
    BY <2>2 DEF IsPrefix, Abstract!IsPrefix
<1> QED
  BY <1>2, <1>5, <1>6 DEF Abstract!Get, d, e, s

(* A step of the writer adds the k bytes it takes to what is in the pipe    *)
(* and on its own side.                                                     *)
LEMMA WriterMaps ==
  ASSUME IInv, IInv', UNCHANGED <<readerVars, getVars, conn, spoilt>>,
         NEW k \in Nat, accepted + k <= MaxBytes, accepted' = accepted + k,
         pipe' \o WBytes' = (pipe \o WBytes) \o Upcoming(k)
  PROVE  Mapped
<1>1. RBytes' = RBytes /\ eof' = eof /\ delivered' = delivered
  BY DEF RBytes, readerVars, getVars
<1>2. /\ RBytes \in Seq(Bytes) /\ pipe \o WBytes \in Seq(Bytes)
      /\ InFlight = RBytes \o (pipe \o WBytes)
      /\ InFlight' = RBytes' \o (pipe' \o WBytes')
  <2>1. RBytes \in Seq(Bytes) /\ pipe \in Seq(Bytes) /\ WBytes \in Seq(Bytes)
    BY Flow
  <2> QED
    BY <2>1, Flow, FlowPrimed, ConcatProperties
<1>3. accepted \in 0..MaxBytes /\ delivered \in Seq(Bytes)
  BY DEF IInv, WriterSide, WriterTypes, ReaderSide, ReaderTypes
<1> DEFINE x == RBytes
           y == pipe \o WBytes
           u == Upcoming(k)
<1>4. /\ x \in Seq(Bytes) /\ y \in Seq(Bytes) /\ u \in Seq(Bytes)
      /\ InFlight = x \o y /\ InFlight' = x \o (y \o u)
  BY <1>1, <1>2, <1>3, UpcomingTyped
<1> HIDE DEF x, y, u
<1>5. InFlight \in Seq(Bytes) /\ InFlight' = InFlight \o u
  <2>1. x \o y \in Seq(Bytes) /\ (x \o y) \o u = x \o (y \o u)
    BY <1>4, ConcatProperties, ConcatAssociative
  <2> QED
    BY <1>4, <2>1
<1> QED
  BY <1>1, <1>3, <1>5, PutMaps DEF u

(* One that only moves bytes, or none. *)
LEMMA WriterMoves ==
  ASSUME IInv, IInv', UNCHANGED <<readerVars, getVars, conn, spoilt, accepted>>,
         pipe' \o WBytes' = pipe \o WBytes
  PROVE  Mapped
<1>1. RBytes' = RBytes /\ UNCHANGED <<accepted, delivered, eof, spoilt, conn>>
  BY DEF RBytes, readerVars, getVars
<1>2. InFlight' = InFlight
  BY <1>1, Flow, FlowPrimed
<1> QED
  BY <1>1, <1>2, StutterMaps

(* A step of the reader takes n bytes from its own side and the pipe. *)
LEMMA ReaderMaps ==
  ASSUME IInv, IInv', UNCHANGED <<writerVars, putVars, conn>>, eof' = eof, ~eof,
         NEW n \in 0..Len(RBytes \o pipe), RBytes' \o pipe' = Drop(RBytes \o pipe, n),
         delivered' = delivered \o SubSeq(RBytes \o pipe, 1, n)
  PROVE  Mapped
<1> DEFINE x == RBytes \o pipe
           w == WBytes
<1>1. WBytes' = w /\ UNCHANGED <<accepted, spoilt>>
  BY DEF WBytes, writerVars, putVars, oldVars
<1>2. x \in Seq(Bytes) /\ w \in Seq(Bytes) /\ InFlight = x \o w /\ delivered \in Seq(Bytes)
  BY Flow DEF IInv, ReaderSide, ReaderTypes
<1>3. /\ InFlight' = Drop(x, n) \o w /\ n \in 0..Len(x)
      /\ delivered' = delivered \o SubSeq(x, 1, n)
  BY <1>1, FlowPrimed
<1> HIDE DEF x, w
<1>4. /\ InFlight' = Drop(InFlight, n) /\ InFlight \in Seq(Bytes)
      /\ n \in 0..Len(InFlight)
  <2>1. /\ Drop(x \o w, n) = Drop(x, n) \o w /\ Len(x \o w) = Len(x) + Len(w)
        /\ Len(x) \in Nat /\ Len(w) \in Nat /\ x \o w \in Seq(Bytes)
    BY <1>2, <1>3, DropConcat, ConcatProperties, LenProperties
  <2> QED
    BY <1>2, <1>3, <2>1
<1>5. SubSeq(x, 1, n) = SubSeq(InFlight, 1, n)
  BY <1>2, <1>3, FirstOfConcat
<1> QED
  BY <1>1, <1>2, <1>3, <1>4, <1>5, GetMaps

LEMMA ReaderMoves ==
  ASSUME IInv, IInv', UNCHANGED <<writerVars, putVars, conn, delivered>>, eof' = eof,
         RBytes' \o pipe' = RBytes \o pipe
  PROVE  Mapped
<1>1. WBytes' = WBytes /\ UNCHANGED <<accepted, spoilt>>
  BY DEF WBytes, writerVars, putVars, oldVars
<1>2. InFlight' = InFlight
  BY <1>1, Flow, FlowPrimed
<1> QED
  BY <1>1, <1>2, StutterMaps
-----------------------------------------------------------------------------
(* The end that is not in use holds nothing. *)

LEMMA Joined ==
  ASSUME NEW x \in Seq(Bytes), NEW y \in Seq(Bytes), NEW z \in Seq(Bytes)
  PROVE  (x \o y) \o z = x \o (y \o z)
BY ConcatAssociative

LEMMA WithEmpty ==
  ASSUME NEW x \in Seq(Bytes)
  PROVE  x \o <<>> = x /\ <<>> \o x = x
BY ConcatEmptySeq

LEMMA EmptyDrop == Drop(<<>>, 0) = <<>>
<1> DEFINE e == <<>>
<1>1. e \in Seq(Bytes)
  BY EmptyTyped
<1> HIDE DEF e
<1>2. Drop(e, 0) = e
  BY <1>1, DropAll
<1> QED
  BY <1>2 DEF e

LEMMA BufWriterBytes ==
  IInv /\ writer = "bufio" => WBytes = Drop(wbuf, wdone) /\ WBytes \in Seq(Bytes)
<1> SUFFICES ASSUME IInv, writer = "bufio"
             PROVE  WBytes = Drop(wbuf, wdone) /\ WBytes \in Seq(Bytes)
  OBVIOUS
<1> DEFINE d == Drop(wbuf, wdone)
<1>1. d \in Seq(Bytes) /\ WBytes = <<>> \o d
  BY PartsTyped, BufWriterRoom DEF WBytes
<1> HIDE DEF d
<1>2. <<>> \o d = d
  BY <1>1, WithEmpty
<1> QED
  BY <1>1, <1>2 DEF d

LEMMA FdWriterBytes ==
  IInv /\ writer = "fdbuf" => WBytes = outbuf
<1> SUFFICES ASSUME IInv, writer = "fdbuf"
             PROVE  WBytes = outbuf
  OBVIOUS
<1>1. wbuf = <<>> /\ wdone = 0 /\ outbuf \in Seq(Bytes)
  BY FdWriterFacts
<1> QED
  BY <1>1, EmptyDrop, WithEmpty DEF WBytes

LEMMA BufReaderBytes ==
  IInv /\ reader = "bufio" => RBytes = Drop(rbuf, r) /\ RBytes \in Seq(Bytes)
<1> SUFFICES ASSUME IInv, reader = "bufio"
             PROVE  RBytes = Drop(rbuf, r) /\ RBytes \in Seq(Bytes)
  OBVIOUS
<1>1. inbuf = <<>> /\ seen = 0
  <2>1. inbuf = <<>> /\ seen \in 0..Len(inbuf)
    BY DEF IInv, ReaderSide, ReaderTypes, ReaderClass
  <2> QED
    BY <2>1, EmptyTyped
<1> DEFINE d == Drop(rbuf, r)
<1>2. d \in Seq(Bytes) /\ RBytes = <<>> \o d
  BY <1>1, PartsTyped, EmptyDrop DEF RBytes
<1> HIDE DEF d
<1> QED
  BY <1>2, WithEmpty DEF d

LEMMA FdReaderBytes ==
  IInv /\ reader = "fdbuf" => RBytes = Drop(inbuf, seen) /\ ~eof
<1> SUFFICES ASSUME IInv, reader = "fdbuf"
             PROVE  RBytes = Drop(inbuf, seen) /\ ~eof
  OBVIOUS
<1>1. rbuf = <<>> /\ r = 0 /\ ~eof
  <2>1. rbuf = <<>> /\ r \in 0..Len(rbuf) /\ ~eof
    BY DEF IInv, ReaderSide, ReaderTypes, ReaderClass
  <2> QED
    BY <2>1, EmptyTyped
<1> DEFINE d == Drop(inbuf, seen)
<1>2. d \in Seq(Bytes) /\ RBytes = d \o <<>>
  BY <1>1, PartsTyped, EmptyDrop DEF RBytes
<1> HIDE DEF d
<1> QED
  BY <1>1, <1>2, WithEmpty DEF d

(* The same after a step. *)
LEMMA BytesPrimed ==
  /\ IInv' /\ writer' = "bufio" => WBytes' = Drop(wbuf', wdone')
  /\ IInv' /\ writer' = "fdbuf" => WBytes' = outbuf'
  /\ IInv' /\ reader' = "bufio" => RBytes' = Drop(rbuf', r')
  /\ IInv' /\ reader' = "fdbuf" => RBytes' = Drop(inbuf', seen')
<1>1. ( IInv /\ writer = "bufio" => WBytes = Drop(wbuf, wdone) /\ WBytes \in Seq(Bytes) )'
  BY BufWriterBytes, PTL
<1>2. ( IInv /\ writer = "fdbuf" => WBytes = outbuf )'
  BY FdWriterBytes, PTL
<1>3. ( IInv /\ reader = "bufio" => RBytes = Drop(rbuf, r) /\ RBytes \in Seq(Bytes) )'
  BY BufReaderBytes, PTL
<1>4. ( IInv /\ reader = "fdbuf" => RBytes = Drop(inbuf, seen) /\ ~eof )'
  BY FdReaderBytes, PTL
<1> QED
  BY <1>1, <1>2, <1>3, <1>4
-----------------------------------------------------------------------------
(* Steps of a BufWriter *)

(* It has u more behind what it had. *)
LEMMA BufWriterTakes ==
  ASSUME IInv, IInv', writer = "bufio", UNCHANGED <<conn, pipe, readerVars, fdVars>>,
         NEW k \in Nat, accepted + k <= MaxBytes, accepted' = accepted + k,
         Drop(wbuf', wdone') = Drop(wbuf, wdone) \o Upcoming(k)
  PROVE  Mapped
<1>1. UNCHANGED <<readerVars, getVars, conn, spoilt>> /\ writer' = "bufio"
  BY DEF fdVars, putVars, oldVars
<1> DEFINE u == Upcoming(k)
           d == Drop(wbuf, wdone)
<1>2. d \in Seq(Bytes) /\ pipe \in Seq(Bytes) /\ u \in Seq(Bytes) /\ WBytes = d
  BY BufWriterBytes, BufWriterFacts, UpcomingTyped
<1>3. WBytes' = d \o u
  BY <1>1, BytesPrimed
<1> HIDE DEF d, u
<1>4. (pipe \o d) \o u = pipe \o (d \o u)
  BY <1>2, Joined
<1>5. pipe' \o WBytes' = (pipe \o WBytes) \o Upcoming(k)
  BY <1>1, <1>2, <1>3, <1>4 DEF u
<1> QED
  BY <1>1, <1>5, WriterMaps

(* It has what it had. *)
LEMMA BufWriterSame ==
  ASSUME IInv, IInv', writer = "bufio", UNCHANGED <<conn, pipe, readerVars, fdVars, accepted>>,
         Drop(wbuf', wdone') = Drop(wbuf, wdone)
  PROVE  Mapped
<1>1. UNCHANGED <<readerVars, getVars, conn, spoilt>> /\ writer' = "bufio"
  BY DEF fdVars, putVars, oldVars
<1>2. WBytes' = WBytes
  BY <1>1, BufWriterBytes, BytesPrimed
<1> QED
  BY <1>1, <1>2, WriterMoves

LEMMA WritenMaps ==
  ASSUME IInv, IInv', writer = "bufio", NEW n \in 1..MaxRequest, Writen(n), UNCHANGED fdVars
  PROVE  Mapped
<1>1. n \in Nat /\ accepted + n <= MaxBytes /\ ~closed /\ wdone = 0 /\ wbuf \in Seq(Bytes)
  BY BufWriterFacts DEF Writen
<1>2. CASE n + Len(wbuf) > BufSize
  <2>1. wdone' = 0 /\ UNCHANGED <<conn, pipe, wbuf, accepted, readerVars>>
    BY <1>2 DEF Writen
  <2> QED
    BY <1>1, <2>1, BufWriterSame
<1>3. CASE ~(n + Len(wbuf) > BufSize)
  <2> DEFINE u == Upcoming(n)
  <2>1. /\ wbuf' = wbuf \o u /\ wdone' = 0 /\ accepted' = accepted + n
        /\ UNCHANGED <<conn, pipe, readerVars>>
    BY <1>3 DEF Writen, Buffer
  <2>2. u \in Seq(Bytes)
    BY <1>1, BufWriterFacts, UpcomingTyped
  <2> HIDE DEF u
  <2>3. Drop(wbuf, 0) = wbuf /\ wbuf' \in Seq(Bytes)
    BY <1>1, <2>1, <2>2, DropAll, ConcatProperties
  <2>4. Drop(wbuf', 0) = wbuf'
    BY <2>3, DropAll
  <2>5. Drop(wbuf', wdone') = Drop(wbuf, wdone) \o Upcoming(n)
    BY <1>1, <2>1, <2>3, <2>4 DEF u
  <2> QED
    BY <1>1, <2>1, <2>5, BufWriterTakes
<1> QED
  BY <1>2, <1>3

LEMMA FlushMaps ==
  ASSUME IInv, IInv', writer = "bufio", Flush \/ Close, UNCHANGED fdVars
  PROVE  Mapped
<1>1. wdone' = wdone /\ UNCHANGED <<conn, pipe, wbuf, accepted, readerVars>>
  BY BufWriterFacts DEF Flush, Close
<1> QED
  BY <1>1, BufWriterSame

LEMMA FlushWriteMaps ==
  ASSUME IInv, IInv', writer = "bufio", NEW i \in 1..MaxRequest, FlushWrite(i), UNCHANGED fdVars
  PROVE  Mapped
<1> DEFINE written == SubSeq(wbuf, wdone + 1, wdone + i)
           left == Drop(wbuf, wdone + i)
<1>1. /\ i <= Len(wbuf) - wdone /\ pipe' = pipe \o written /\ wdone' = wdone + i
      /\ wbuf' = wbuf /\ UNCHANGED <<readerVars, getVars, conn, writer, spoilt, accepted>>
  BY DEF FlushWrite, fdVars, putVars, oldVars
<1>2. /\ i \in 0..Len(wbuf) - wdone /\ wbuf \in Seq(Bytes) /\ wdone \in 0..Len(wbuf)
      /\ wdone + i \in 0..Len(wbuf) /\ pipe \in Seq(Bytes)
  <2>1. /\ wbuf \in Seq(Bytes) /\ pipe \in Seq(Bytes) /\ Len(wbuf) \in 0..BufSize
        /\ BufSize \in Nat /\ wdone \in 0..Len(wbuf)
    BY BufWriterFacts
  <2>2. Len(wbuf) \in Nat /\ wdone \in Nat /\ i \in Nat
    BY <2>1
  <2> QED
    BY <1>1, <2>1, <2>2
<1>3. written \in Seq(Bytes) /\ left \in Seq(Bytes) /\ written \o left = Drop(wbuf, wdone)
  BY <1>2, DropDrop, DropTyped
<1>4. WBytes = written \o left /\ WBytes' = left
  BY <1>1, <1>3, BufWriterBytes, BytesPrimed
<1> HIDE DEF written, left
<1>5. (pipe \o written) \o left = pipe \o (written \o left)
  BY <1>2, <1>3, Joined
<1> QED
  BY <1>1, <1>4, <1>5, WriterMoves

LEMMA FlushFailMaps ==
  ASSUME IInv, IInv', writer = "bufio", FlushFail, UNCHANGED fdVars
  PROVE  Mapped
<1> DEFINE d == Drop(wbuf, wdone)
<1>1. wbuf' = d /\ wdone' = 0 /\ UNCHANGED <<conn, pipe, accepted, readerVars>>
  BY DEF FlushFail, Unwritten
<1>2. d \in Seq(Bytes)
  BY PartsTyped
<1> HIDE DEF d
<1>3. Drop(d, 0) = d
  BY <1>2, DropAll
<1> QED
  BY <1>1, <1>3, BufWriterSame DEF d

LEMMA FlushEndMaps ==
  ASSUME IInv, IInv', writer = "bufio", FlushEnd, UNCHANGED fdVars
  PROVE  Mapped
<1>1. /\ wpc = "flush" /\ wdone = Len(wbuf) /\ wdone' = 0
      /\ UNCHANGED <<conn, pipe, readerVars>>
  BY DEF FlushEnd
<1>2. ~closed /\ accepted + offer <= MaxBytes /\ offer \in Nat /\ accepted \in 0..MaxBytes
  BY <1>1, BufWriterFacts
<1>3. Drop(wbuf, wdone) = <<>>
  BY <1>1, BufWriterFacts, DropAll
<1>4. CASE offer > BufSize
  <2>1. wbuf' = <<>> /\ accepted' = accepted
    BY <1>4 DEF FlushEnd
  <2> QED
    BY <1>1, <1>3, <2>1, EmptyDrop, BufWriterSame
<1>5. CASE ~(offer > BufSize)
  <2> DEFINE u == Upcoming(offer)
  <2>1. wbuf' = <<>> \o u /\ accepted' = accepted + offer
    BY <1>5 DEF FlushEnd, Buffer
  <2>2. u \in Seq(Bytes)
    BY <1>2, UpcomingTyped
  <2> HIDE DEF u
  <2>3. <<>> \o u = u /\ Drop(u, 0) = u
    BY <2>2, WithEmpty, DropAll
  <2>4. Drop(wbuf', wdone') = Drop(wbuf, wdone) \o Upcoming(offer)
    BY <1>1, <1>3, <2>1, <2>3 DEF u
  <2> QED
    BY <1>1, <1>2, <2>1, <2>4, BufWriterTakes
<1> QED
  BY <1>4, <1>5

LEMMA DirectWriteMaps ==
  ASSUME IInv, IInv', writer = "bufio", NEW i \in 0..MaxRequest, DirectWrite(i), UNCHANGED fdVars
  PROVE  Mapped
<1> DEFINE u == Upcoming(i)
<1>1. /\ wpc = "direct" /\ i <= offer /\ pipe' = pipe \o u
      /\ accepted' = accepted + i
      /\ UNCHANGED <<wbuf, wdone, readerVars, getVars, conn, writer, spoilt>>
  BY DEF DirectWrite, fdVars, putVars, oldVars
<1>2. i \in Nat /\ accepted + i <= MaxBytes /\ ~closed /\ wbuf = <<>> /\ wdone = 0
  BY <1>1, BufWriterFacts
<1>3. u \in Seq(Bytes) /\ pipe \in Seq(Bytes)
  BY <1>2, BufWriterFacts, UpcomingTyped
<1> HIDE DEF u
<1>4. WBytes = <<>> /\ WBytes' = <<>>
  BY <1>1, <1>2, EmptyDrop, BufWriterBytes, BytesPrimed
<1>5. pipe \o u \in Seq(Bytes)
  BY <1>3, ConcatProperties
<1>6. (pipe \o u) \o <<>> = pipe \o u /\ pipe \o <<>> = pipe
  BY <1>3, <1>5, WithEmpty
<1>7. pipe' \o WBytes' = (pipe \o WBytes) \o Upcoming(i)
  BY <1>1, <1>4, <1>6 DEF u
<1> QED
  BY <1>1, <1>2, <1>7, WriterMaps
-----------------------------------------------------------------------------
(* Steps of a streambuf that writes *)

(* Of buf, outbuf_ and the k bytes that are put behind it, some are written *)
(* and the rest are kept.                                                   *)
LEMMA SyncMaps ==
  ASSUME IInv, IInv', writer = "fdbuf", NEW k \in Nat, accepted + k <= MaxBytes,
         accepted' = accepted + k,
         NEW buf \in Seq(Bytes), buf = outbuf \o Upcoming(k), Len(buf) <= FdSize,
         NEW i \in 0..FdSize, Sync(buf, i),
         UNCHANGED <<conn, readerVars, writer, oldVars, getVars>>
  PROVE  Mapped
<1> DEFINE sent == SubSeq(buf, 1, i)
           u == Upcoming(k)
<1>1. /\ sent \in Seq(Bytes) /\ outbuf' \in Seq(Bytes) /\ sent \o outbuf' = buf
      /\ pipe' = pipe \o sent
  BY SyncLeaves DEF Sync, Written
<1>2. outbuf \in Seq(Bytes) /\ pipe \in Seq(Bytes) /\ u \in Seq(Bytes)
  BY FdWriterFacts, UpcomingTyped
<1> HIDE DEF sent, u
<1>3. WBytes = outbuf /\ WBytes' = outbuf'
  BY FdWriterBytes, BytesPrimed
<1> DEFINE left == outbuf'
<1>4. left \in Seq(Bytes) /\ sent \o left = outbuf \o u
  BY <1>1 DEF u
<1> HIDE DEF left
<1>5. (pipe \o sent) \o left = pipe \o (sent \o left)
  <2>1. pipe \in Seq(Bytes) /\ sent \in Seq(Bytes) /\ left \in Seq(Bytes)
    BY <1>1, <1>2, <1>4
  <2> DEFINE T == Seq(Bytes)
  <2>2. Associative(T)
    BY SeqAssociative, Zenon
  <2>3. pipe \in T /\ sent \in T /\ left \in T
    BY <2>1
  <2> HIDE DEF T
  <2> QED
    BY <2>2, <2>3, Zenon DEF Associative
<1>6. (pipe \o outbuf) \o u = pipe \o (outbuf \o u)
  BY <1>2, Joined
<1>7. pipe' \o WBytes' = (pipe \o WBytes) \o u
  BY <1>1, <1>3, <1>4, <1>5, <1>6, Zenon DEF left
<1>8. UNCHANGED <<readerVars, getVars, conn, spoilt>>
  BY DEF oldVars
<1> QED
  BY <1>7, <1>8, WriterMaps DEF u

(* The next byte is what sputc and overflow put behind outbuf_. *)
LEMMA OneUpcoming ==
  ASSUME IInv, writer = "fdbuf", accepted < MaxBytes
  PROVE  /\ accepted + 1 \in Bytes /\ accepted + 1 <= MaxBytes
         /\ Upcoming(1) = <<accepted + 1>>
         /\ Append(outbuf, accepted + 1) = outbuf \o Upcoming(1)
<1>1. accepted + 1 \in Bytes /\ accepted + 1 <= MaxBytes /\ outbuf \in Seq(Bytes)
  BY FdWriterFacts DEF Bytes
<1>2. Upcoming(1) = <<accepted + 1>>
  <2> DEFINE u == Upcoming(1)
             v == <<accepted + 1>>
  <2>1. u \in Seq(Bytes) /\ Len(u) = 1
    BY <1>1, FdWriterFacts, UpcomingTyped
  <2>2. v \in Seq(Bytes) /\ Len(v) = 1
    BY <1>1
  <2>3. \A i \in 1..1 : u[i] = v[i]
    BY DEF Upcoming
  <2> HIDE DEF u, v
  <2>4. u = v
    BY <2>1, <2>2, <2>3, SeqEqual
  <2> QED
    BY <2>4 DEF u, v
<1> QED
  BY <1>1, <1>2, AppendIsConcat

LEMMA FdPutMaps ==
  ASSUME IInv, IInv', FdPut
  PROVE  Mapped
<1> DEFINE u == Upcoming(1)
<1>1. /\ writer = "fdbuf" /\ accepted < MaxBytes /\ accepted' = accepted + 1
      /\ outbuf' = Append(outbuf, accepted + 1)
      /\ UNCHANGED <<readerVars, getVars, conn, pipe, writer, oldVars>>
  BY DEF FdPut, CanPut, Usable
<1>2. /\ u \in Seq(Bytes) /\ outbuf \in Seq(Bytes) /\ pipe \in Seq(Bytes)
      /\ outbuf' = outbuf \o u /\ accepted + 1 <= MaxBytes
  BY <1>1, OneUpcoming, FdWriterFacts, UpcomingTyped
<1> HIDE DEF u
<1>3. (pipe \o outbuf) \o u = pipe \o (outbuf \o u)
  BY <1>2, Joined
<1>4. WBytes = outbuf /\ WBytes' = outbuf \o u
  BY <1>1, <1>2, FdWriterBytes, BytesPrimed
<1>5. UNCHANGED spoilt
  BY <1>1 DEF oldVars
<1>6. pipe' \o WBytes' = (pipe \o WBytes) \o Upcoming(1)
  BY <1>1, <1>3, <1>4 DEF u
<1> QED
  BY <1>1, <1>2, <1>5, <1>6, WriterMaps

LEMMA FdOverflowMaps ==
  ASSUME IInv, IInv', NEW i \in 0..FdSize, FdOverflow(i)
  PROVE  Mapped
<1> DEFINE buf == Append(outbuf, accepted + 1)
<1>1. /\ writer = "fdbuf" /\ accepted < MaxBytes /\ accepted' = accepted + 1
      /\ Len(outbuf) <= FdSize - 1 /\ Sync(buf, i)
      /\ UNCHANGED <<conn, readerVars, writer, oldVars, getVars>>
  BY FdSizesAssumption DEF FdOverflow, CanPut, Usable, PutArea
<1>2. /\ accepted + 1 \in Bytes /\ accepted + 1 <= MaxBytes /\ outbuf \in Seq(Bytes)
      /\ Len(outbuf) \in Nat /\ FdSize \in Nat
  BY <1>1, OneUpcoming, FdWriterFacts
<1>3. buf \in Seq(Bytes) /\ Len(buf) = Len(outbuf) + 1 /\ buf = outbuf \o Upcoming(1)
  BY <1>1, <1>2, AppendProperties, OneUpcoming
<1>4. Len(buf) <= FdSize
  BY <1>1, <1>2, <1>3
<1> HIDE DEF buf
<1> QED
  BY <1>1, <1>2, <1>3, <1>4, SyncMaps

LEMMA FdSyncMaps ==
  ASSUME IInv, IInv', NEW i \in 0..FdSize, FdSync(i) \/ FdClose(i)
  PROVE  Mapped
<1>1. /\ writer = "fdbuf" /\ Sync(outbuf, i) /\ accepted' = accepted
      /\ UNCHANGED <<conn, readerVars, writer, oldVars, getVars>>
  BY DEF FdSync, FdClose, Usable
<1>2. outbuf \in Seq(Bytes) /\ Len(outbuf) <= FdSize /\ accepted \in 0..MaxBytes
  BY <1>1, FdWriterFacts
<1>3. /\ outbuf = outbuf \o Upcoming(0) /\ accepted + 0 <= MaxBytes
      /\ accepted' = accepted + 0
  <2> DEFINE u == Upcoming(0)
  <2>1. accepted + 0 <= MaxBytes /\ accepted' = accepted + 0
    BY <1>1, <1>2, SizesAssumption
  <2>2. u \in Seq(Bytes) /\ Len(u) = 0
    BY <1>2, <2>1, UpcomingTyped
  <2> HIDE DEF u
  <2>3. u = <<>>
    BY <2>2, EmptySeq
  <2> QED
    BY <1>2, <2>1, <2>3, WithEmpty DEF u
<1> QED
  BY <1>1, <1>2, <1>3, SyncMaps

(* Another fdbuf writes to the connection, or only closes it. *)
LEMMA FdCloseAgainMaps ==
  ASSUME IInv, IInv', NEW i \in 0..FdSize, FdCloseAgain(i)
  PROVE  Mapped
<1>1. /\ writer = "fdbuf" /\ stale \in Seq(Bytes) /\ pipe' = pipe \o SubSeq(stale, 1, i)
      /\ spoilt' = (spoilt \/ i > 0)
      /\ UNCHANGED <<conn, otherWriterVars, accepted, readerVars, writer, outbuf, getVars>>
  BY CloseAgainFacts
<1>2. UNCHANGED <<wbuf, wdone, eof, delivered, accepted, conn>>
  BY <1>1 DEF otherWriterVars, readerVars
<1>3. CASE i = 0
  <2>1. pipe' = pipe
    BY <1>1, <1>3, SubSeqEmpty, WithEmpty DEF IInv, KernelTypes
  <2>2. WBytes' = WBytes
    BY <1>1, <1>2 DEF WBytes
  <2>3. spoilt \in BOOLEAN
    BY DEF IInv, WriterSide, WriterTypes
  <2>4. spoilt' = spoilt
    BY <1>1, <1>3, <2>3
  <2> QED
    BY <1>1, <2>1, <2>2, <2>4, WriterMoves
<1>4. CASE i # 0
  <2>1. spoilt' = TRUE
    <3>1. i > 0
      BY <1>4
    <3> QED
      BY <1>1, <3>1, Zenon
  <2>2. Numbered(accepted)' = Numbered(accepted)
    BY <1>2 DEF Numbered
  <2>3. Abstract!Spoil
    BY <1>2, <2>1, <2>2 DEF Abstract!Spoil
  <2> QED
    BY <2>1, <2>3 DEF Mapped, Conserved, Abstract!Next
<1> QED
  BY <1>3, <1>4

LEMMA FdOverrunMaps ==
  ASSUME IInv, IInv', FdOverrun
  PROVE  Mapped
<1>1. UNCHANGED <<conn, pipe, readerVars, getVars, outbuf, wbuf, wdone, accepted, spoilt>>
  BY DEF FdOverrun, vars, writerVars, oldVars
<1>2. WBytes' = WBytes
  BY <1>1 DEF WBytes
<1> QED
  BY <1>1, <1>2, WriterMoves
-----------------------------------------------------------------------------
(* Steps of a BufReader *)

LEMMA BufReaderSame ==
  ASSUME IInv, IInv', reader = "bufio",
         UNCHANGED <<conn, eof, delivered, writerVars, pipe, fdVars>>,
         Drop(rbuf', r') = Drop(rbuf, r)
  PROVE  Mapped
<1>1. UNCHANGED <<writerVars, putVars, conn>> /\ reader' = "bufio"
  BY DEF fdVars
<1>2. RBytes' = RBytes
  BY <1>1, BufReaderBytes, BytesPrimed
<1> QED
  BY <1>1, <1>2, ReaderMoves

LEMMA NothingTakenMaps ==
  ASSUME IInv, IInv', reader = "bufio", UNCHANGED fdVars,
         \/ ReadnEof \/ ReadnNothing \/ FillAgain \/ FillInterrupted
         \/ \E n \in 1..MaxRequest, f, c \in BOOLEAN : Call(n, f, c)
  PROVE  Mapped
<1>1. UNCHANGED <<conn, eof, delivered, writerVars, pipe, rbuf, r>>
  BY DEF ReadnEof, ReadnNothing, FillAgain, FillInterrupted, Call
<1> QED
  BY <1>1, BufReaderSame

LEMMA ReadnEmptyMaps ==
  ASSUME IInv, IInv', reader = "bufio", ReadnEmpty, UNCHANGED fdVars
  PROVE  Mapped
<1>1. /\ r = Len(rbuf) /\ rbuf' = <<>> /\ r' = 0
      /\ UNCHANGED <<conn, eof, delivered, writerVars, pipe>>
  BY DEF ReadnEmpty, Emptied
<1>2. Drop(rbuf, r) = <<>>
  BY <1>1, BufReaderFacts, DropAll
<1> QED
  BY <1>1, <1>2, EmptyDrop, BufReaderSame

LEMMA ReadnTakeMaps ==
  ASSUME IInv, IInv', reader = "bufio", ReadnTake, UNCHANGED fdVars
  PROVE  Mapped
<1> DEFINE x == Drop(rbuf, r)
           n == Taken
<1>1. /\ (rpc = "readn" /\ ~eof) \/ rpc = "filled"
      /\ r < Len(rbuf) /\ r' = r + n /\ delivered' = delivered \o SubSeq(rbuf, r + 1, r + n)
      /\ UNCHANGED <<conn, eof, rbuf, pipe, writerVars, putVars, reader>>
  BY DEF ReadnTake, Take, Taken, fdVars
<1>2. ~eof
  BY <1>1, BufReaderFacts DEF EofIsTheEnd
<1>3. /\ rbuf \in Seq(Bytes) /\ r \in 0..Len(rbuf) /\ n \in 0..Len(rbuf) - r
      /\ pipe \in Seq(Bytes)
  BY BufReaderFacts, TakenFacts
<1> HIDE DEF n
<1>4. x \in Seq(Bytes) /\ Len(x) = Len(rbuf) - r /\ Drop(x, n) = Drop(rbuf, r + n)
  BY <1>3, DropTyped, DropDrop
<1>5. RBytes = x /\ RBytes' = Drop(x, n)
  BY <1>1, <1>4, BufReaderBytes, BytesPrimed
<1>6. x \in Seq(Bytes) /\ n \in 0..Len(x)
  BY <1>3, <1>4
<1>9. SubSeq(x \o pipe, 1, n) = SubSeq(rbuf, r + 1, r + n)
  BY <1>3, FirstOfDrop
<1> HIDE DEF x
<1>7. Drop(x \o pipe, n) = Drop(x, n) \o pipe /\ n \in 0..Len(x \o pipe)
  <2>1. /\ Len(x) \in Nat /\ Len(pipe) \in Nat /\ Len(x \o pipe) = Len(x) + Len(pipe)
        /\ Drop(x \o pipe, n) = Drop(x, n) \o pipe
    BY <1>3, <1>6, DropConcat, ConcatProperties, LenProperties
  <2> QED
    BY <1>6, <2>1
<1>8. /\ n \in 0..Len(RBytes \o pipe) /\ RBytes' \o pipe' = Drop(RBytes \o pipe, n)
      /\ delivered' = delivered \o SubSeq(RBytes \o pipe, 1, n)
  BY <1>1, <1>5, <1>7, <1>9
<1> QED
  BY <1>1, <1>2, <1>8, ReaderMaps

LEMMA FillDataMaps ==
  ASSUME IInv, IInv', reader = "bufio", NEW i \in 1..BufSize, FillData(i), UNCHANGED fdVars
  PROVE  Mapped
<1> DEFINE data == SubSeq(pipe, 1, i)
           left == Drop(pipe, i)
<1>1. /\ rpc = "fill" /\ i <= Len(pipe) /\ rbuf' = rbuf \o data /\ pipe' = left
      /\ UNCHANGED <<conn, r, eof, delivered, writerVars, putVars, reader>>
  BY DEF FillData, fdVars
<1>2. i \in 0..Len(pipe) /\ pipe \in Seq(Bytes)
  BY <1>1, BufReaderFacts
<1>3. data \in Seq(Bytes) /\ left \in Seq(Bytes) /\ data \o left = pipe
  BY <1>2, FirstAndDrop, DropTyped
<1> HIDE DEF data, left
<1>4. rbuf = <<>> /\ r = 0
  BY <1>1, BufReaderFacts DEF ReaderPlace
<1>5. rbuf' = data /\ Drop(data, 0) = data
  BY <1>1, <1>3, <1>4, WithEmpty, DropAll
<1>6. RBytes = <<>> /\ RBytes' = data
  BY <1>1, <1>4, <1>5, EmptyDrop, BufReaderBytes, BytesPrimed
<1>7. <<>> \o pipe = pipe
  BY <1>2, WithEmpty
<1> QED
  BY <1>1, <1>3, <1>6, <1>7, ReaderMoves

LEMMA FillEndMaps ==
  ASSUME IInv, IInv', reader = "bufio", FillEnd, UNCHANGED fdVars
  PROVE  Mapped
<1>1. eof' = TRUE /\ UNCHANGED <<conn, rbuf, r, pipe, wbuf, wdone, outbuf, inbuf, seen,
                                  accepted, delivered, spoilt>>
  BY DEF FillEnd, fdVars, putVars, oldVars, getVars, writerVars
<1>2. InFlight' = InFlight /\ Numbered(accepted)' = Numbered(accepted)
  BY <1>1 DEF InFlight, Numbered
<1>3. Abstract!End
  BY <1>1, <1>2 DEF Abstract!End
<1> QED
  BY <1>1, <1>2, <1>3 DEF Mapped, Conserved, Abstract!Next
-----------------------------------------------------------------------------
(* Steps of a streambuf that reads *)

LEMMA FdGetMaps ==
  ASSUME IInv, IInv', FdGet
  PROVE  Mapped
<1>1. /\ reader = "fdbuf" /\ gnext < Len(inbuf) /\ inbuf' = inbuf
      /\ UNCHANGED <<conn, writerVars, pipe, eof, reader, putVars>>
  BY DEF FdGet, otherReaderVars
<1>2. /\ inbuf \in Seq(Bytes) /\ Len(inbuf) \in Nat /\ seen \in 0..Len(inbuf)
      /\ gnext \in 0..seen /\ pipe \in Seq(Bytes) /\ ~eof
  BY <1>1, FdReaderFacts, FdReaderBytes
<1> DEFINE x == Drop(inbuf, seen)
<1>3. RBytes = x /\ RBytes' = Drop(inbuf, seen')
  BY <1>1, FdReaderBytes, BytesPrimed
<1>4. CASE gnext < seen
  <2>1. RBytes' = RBytes /\ delivered' = delivered
    BY <1>3, <1>4 DEF FdGet
  <2> QED
    BY <1>1, <2>1, ReaderMoves
<1>5. CASE ~(gnext < seen)
  <2> DEFINE c == inbuf[seen + 1]
             g == <<c>>
  <2>1. /\ seen' = seen + 1 /\ 1 \in 0..Len(inbuf) - seen /\ gnext = seen
        /\ delivered' = Append(delivered, c)
    BY <1>1, <1>2, <1>5 DEF FdGet
  <2>2. x \in Seq(Bytes) /\ Len(x) = Len(inbuf) - seen /\ Drop(x, 1) = Drop(inbuf, seen + 1)
    BY <1>2, <2>1, DropTyped, DropDrop
  <2>3. x \in Seq(Bytes) /\ 1 \in 0..Len(x) /\ RBytes' = Drop(x, 1)
    BY <1>3, <2>1, <2>2
  <2>6. SubSeq(x \o pipe, 1, 1) = SubSeq(inbuf, seen + 1, seen + 1)
    BY <1>2, <2>1, FirstOfDrop
  <2>7. SubSeq(inbuf, seen + 1, seen + 1) = g
    <3> DEFINE h == SubSeq(inbuf, seen + 1, seen + 1)
    <3>1. seen + 1 \in 1..Len(inbuf) + 1 /\ seen + 1 \in seen + 1 - 1..Len(inbuf)
          /\ seen + 1 - (seen + 1) + 1 = 1 /\ seen + 1 \in 1..Len(inbuf)
      BY <1>2, <2>1
    <3>2. h \in Seq(Bytes) /\ Len(h) = 1 /\ h[1] = inbuf[seen + 1 + 1 - 1]
      BY <1>2, <3>1, SliceTyped
    <3>3. seen + 1 + 1 - 1 = seen + 1
      BY <1>2
    <3>4. g \in Seq(Bytes) /\ Len(g) = 1 /\ g[1] = c
      BY <1>2, <3>1, ElementOfSeq
    <3>5. h[1] = g[1]
      BY <3>2, <3>3, <3>4
    <3> HIDE DEF h, g
    <3>6. h = g
      BY <3>2, <3>4, <3>5, SeqEqual
    <3> QED
      BY <3>6 DEF h
  <2>8. delivered' = delivered \o g
    <3>1. delivered \in Seq(Bytes) /\ c \in Bytes
      BY <1>2, <2>1, ElementOfSeq DEF IInv, ReaderSide, ReaderTypes
    <3> QED
      BY <2>1, <3>1, AppendIsConcat
  <2> HIDE DEF x, g
  <2>4. Drop(x \o pipe, 1) = Drop(x, 1) \o pipe /\ 1 \in 0..Len(x \o pipe)
    <3>1. /\ Len(x) \in Nat /\ Len(pipe) \in Nat /\ Len(x \o pipe) = Len(x) + Len(pipe)
          /\ Drop(x \o pipe, 1) = Drop(x, 1) \o pipe
      BY <1>2, <2>3, DropConcat, ConcatProperties, LenProperties
    <3> QED
      BY <2>3, <3>1
  <2>5. /\ 1 \in 0..Len(RBytes \o pipe) /\ RBytes' \o pipe' = Drop(RBytes \o pipe, 1)
        /\ delivered' = delivered \o SubSeq(RBytes \o pipe, 1, 1)
    BY <1>1, <1>3, <2>3, <2>4, <2>6, <2>7, <2>8
  <2> QED
    BY <1>1, <1>2, <2>5, ReaderMaps
<1> QED
  BY <1>4, <1>5

LEMMA FdUngetMaps ==
  ASSUME IInv, IInv', FdUnget
  PROVE  Mapped
<1>1. UNCHANGED <<conn, writerVars, putVars, pipe, eof, delivered, inbuf, seen, rbuf, r>>
  BY DEF FdUnget, vars, readerVars
<1>2. RBytes' = RBytes
  BY <1>1 DEF RBytes
<1> QED
  BY <1>1, <1>2, ReaderMoves

LEMMA FdUnderflowMaps ==
  ASSUME IInv, IInv', NEW i \in 0..FdSize, FdUnderflow(i)
  PROVE  Mapped
<1> DEFINE data == SubSeq(pipe, 1, i)
           left == Drop(pipe, i)
           k == Kept
<1>1. /\ reader = "fdbuf" /\ gnext = Len(inbuf) /\ i <= Len(pipe)
      /\ inbuf' = k \o data /\ seen' = Len(k) /\ pipe' = left
      /\ UNCHANGED <<conn, writerVars, eof, delivered, reader, putVars>>
  BY DEF FdUnderflow, otherReaderVars
<1>2. i \in 0..Len(pipe) /\ pipe \in Seq(Bytes) /\ inbuf \in Seq(Bytes)
  BY <1>1, FdReaderFacts
<1>3. data \in Seq(Bytes) /\ left \in Seq(Bytes) /\ data \o left = pipe
  BY <1>2, FirstAndDrop, DropTyped
<1>4. k \in Seq(Bytes) /\ seen = Len(inbuf)
  BY <1>1, KeptFacts
<1> HIDE DEF data, left, k
<1>5. Drop(k \o data, Len(k)) = data
  <2>1. Len(k) \in 0..Len(k)
    BY <1>4, LenProperties
  <2>2. Drop(k \o data, Len(k)) = Drop(k, Len(k)) \o data
    BY <1>3, <1>4, <2>1, DropConcat
  <2>3. Drop(k, Len(k)) = <<>> /\ <<>> \o data = data
    BY <1>3, <1>4, DropAll, WithEmpty
  <2> QED
    BY <2>2, <2>3
<1>6. RBytes = <<>> /\ RBytes' = data
  BY <1>1, <1>2, <1>4, <1>5, DropAll, FdReaderBytes, BytesPrimed
<1>7. <<>> \o pipe = pipe
  BY <1>2, WithEmpty
<1> QED
  BY <1>1, <1>3, <1>6, <1>7, ReaderMoves
-----------------------------------------------------------------------------
LEMMA FreshInFlight == Fresh => InFlight = <<>>
<1> SUFFICES ASSUME Fresh PROVE InFlight = <<>>
  OBVIOUS
<1>1. InFlight = <<>> \o <<>> \o <<>> \o <<>> \o <<>>
  BY EmptyDrop DEF InFlight, Fresh
<1>2. <<>> \o <<>> = <<>>
  BY EmptyTyped, WithEmpty
<1> QED
  BY <1>1, <1>2

LEMMA NoneNumbered == Numbered(0) = <<>>
<1> DEFINE e == Numbered(0)
<1>1. e \in Seq(Bytes) /\ Len(e) = 0
  BY NumberedTyped, SizesAssumption
<1> HIDE DEF e
<1>2. e = <<>>
  BY <1>1, EmptySeq
<1> QED
  BY <1>2 DEF e

LEMMA FreshConserved ==
  Fresh => Conserved /\ Numbered(accepted) = <<>> /\ delivered = <<>> /\ eof = FALSE
BY FreshInFlight, NoneNumbered, EmptyTyped, WithEmpty DEF Fresh, Conserved

LEMMA NewConnectionMaps ==
  ASSUME IInv, NewConnection
  PROVE  Mapped
<1>1. ~overrun /\ overrun \in BOOLEAN /\ wdone = 0
  BY DEF NewConnection, Reset, IInv, WriterSide, WriterTypes, WriterPlace
<1>2. Fresh'
  BY <1>1 DEF NewConnection, Reset, Fresh
<1>3. (Fresh => Conserved /\ Numbered(accepted) = <<>> /\ delivered = <<>> /\ eof = FALSE)'
  BY FreshConserved, PTL
<1>4. Abstract!Reopen
  BY <1>2, <1>3 DEF NewConnection, Reset, Abstract!Reopen
<1> QED
  BY <1>2, <1>3, <1>4 DEF Mapped, Abstract!Next

LEMMA InitMaps == FdInit => Conserved /\ Abstract!Init
<1> SUFFICES ASSUME FdInit PROVE Conserved /\ Abstract!Init
  OBVIOUS
<1>1. Fresh /\ conn = 1 /\ spoilt = FALSE
  BY DEF FdInit, Init, Fresh
<1> QED
  BY <1>1, FreshConserved DEF Abstract!Init

LEMMA NextMaps == IInv /\ IInv' /\ [FdNext]_allVars => Mapped
<1>1. ASSUME UNCHANGED allVars PROVE Mapped
  <2>1. UNCHANGED <<inbuf, seen, rbuf, r, pipe, outbuf, wbuf, wdone, eof, conn, accepted,
                    delivered, spoilt>>
    BY <1>1 DEF allVars, vars, fdVars, writerVars, readerVars, putVars, oldVars, getVars
  <2>2. InFlight' = InFlight
    BY <2>1 DEF InFlight
  <2> QED
    BY <2>1, <2>2, StutterMaps
<1> SUFFICES ASSUME IInv, IInv', FdNext PROVE Mapped
  BY <1>1
<1>2. CASE NewConnection
  BY <1>2, NewConnectionMaps
<1>3. CASE BufWriterStep
  <2>1. ASSUME NEW n \in 1..MaxRequest, Writen(n) PROVE Mapped
    BY <1>3, <2>1, WritenMaps DEF BufWriterStep
  <2>2. ASSUME NEW i \in 1..MaxRequest, FlushWrite(i) PROVE Mapped
    BY <1>3, <2>2, FlushWriteMaps DEF BufWriterStep
  <2>3. ASSUME NEW i \in 0..MaxRequest, DirectWrite(i) PROVE Mapped
    BY <1>3, <2>3, DirectWriteMaps DEF BufWriterStep
  <2>4. CASE Flush \/ FlushFail \/ FlushEnd \/ Close
    BY <1>3, <2>4, FlushMaps, FlushFailMaps, FlushEndMaps DEF BufWriterStep
  <2> QED
    BY <1>3, <2>1, <2>2, <2>3, <2>4 DEF BufWriterStep, WriterStep
<1>4. CASE FdWriterStep
  BY <1>4, FdPutMaps, FdOverrunMaps, FdOverflowMaps, FdSyncMaps, FdCloseAgainMaps
    DEF FdWriterStep
<1>5. CASE BufReaderStep
  <2>1. reader = "bufio" /\ UNCHANGED fdVars
    BY <1>5 DEF BufReaderStep
  <2>2. CASE ReadnEof \/ ReadnNothing \/ FillAgain
    BY <2>1, <2>2, NothingTakenMaps
  <2>3. CASE ReadnEmpty \/ ReadnTake \/ FillEnd
    BY <2>1, <2>3, ReadnEmptyMaps, ReadnTakeMaps, FillEndMaps
  <2>4. ASSUME NEW i \in 1..BufSize, FillData(i) PROVE Mapped
    BY <2>1, <2>4, FillDataMaps
  <2> QED
    BY <1>5, <2>2, <2>3, <2>4 DEF BufReaderStep, ReaderStep
<1>6. CASE BufReaderCall
  <2>1. reader = "bufio" /\ UNCHANGED fdVars
    BY <1>6 DEF BufReaderCall
  <2>2. FillInterrupted \/ \E n \in 1..MaxRequest, f, c \in BOOLEAN : Call(n, f, c)
    BY <1>6 DEF BufReaderCall, Readn, Readfull
  <2> QED
    BY <2>1, <2>2, NothingTakenMaps
<1>7. CASE FdReaderStep
  BY <1>7, FdGetMaps, FdUngetMaps, FdUnderflowMaps DEF FdReaderStep
<1> QED
  BY <1>2, <1>3, <1>4, <1>5, <1>6, <1>7 DEF FdNext

(* For buffers and pipes of every size, however reads and writes are cut    *)
(* short and fail, and whichever class is at either end: what readn and     *)
(* sbumpc give out of a connection is the beginning of what writen and sputc *)
(* took for it, unless an fdbuf that was closed before has written to it.   *)
THEOREM IsAStream == FdSpec => ImplementsStream
<1>1. IInv /\ IInv' /\ Conserved /\ [FdNext]_allVars =>
        Conserved' /\ [Abstract!Next]_Abstract!vars
  BY NextMaps DEF Mapped
<1> QED
  BY InitMaps, <1>1, Invariance, PTL DEF FdSpec, ImplementsStream, Abstract!Spec
=============================================================================
