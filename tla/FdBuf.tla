------------------------------- MODULE FdBuf -------------------------------
(***************************************************************************)
(* ugorji/util/fdbuf: a std::streambuf over a descriptor, as the other way *)
(* to write to a socket and to read from one.  Each end of the connection  *)
(* of module BufIO has one or the other, and the bytes are the same stream.*)
(*                                                                         *)
(* A step is a call of the streambuf by the iostream that owns it: one     *)
(* call makes at most one read or write, and that any outcome.  What is    *)
(* modelled of the standard library is which of the three functions it     *)
(* calls, and when.                                                        *)
(***************************************************************************)
EXTENDS BufIO, SequencesExt

CONSTANTS
  FdSize,   \* bufsize, the size of outbuf_ and what a read asks for
  Putback   \* 16 - sizeof(int), the characters kept for sungetc

ASSUME FdSizesAssumption == FdSize \in Nat \ {0, 1} /\ Putback \in Nat

VARIABLES
  writer, reader,  \* which class the two ends use
  outbuf,    \* outbuf_ from pbase() to pptr()
  overrun,   \* has a character been put behind outbuf_
  stalled,   \* has the last write taken nothing
  old,       \* the fdbuf that had the number of this connection before it
  stale,     \* what that one's close has left in its outbuf_
  spoilt,    \* history: have bytes of stale been written to this connection
  inbuf,     \* inbuf_ from eback() to egptr()
  gnext,     \* gptr() - eback()
  seen       \* history: the characters of inbuf that have been given out

oldVars == <<old, stale, spoilt>>
putVars == <<outbuf, overrun, stalled, oldVars>>
getVars == <<inbuf, gnext, seen>>
fdVars == <<writer, reader, putVars, getVars>>
allVars == <<vars, fdVars>>

Layers == {"bufio", "fdbuf"}

(* "none": none that still has the number in fd_; "closed": one that its    *)
(* caller has closed; "again": one that has been closed twice.              *)
Olds == {"none", "closed", "again"}

FdTypeOK ==
  /\ writer \in Layers /\ reader \in Layers
  /\ outbuf \in Seq(1..MaxBytes) /\ Len(outbuf) <= FdSize
  /\ overrun \in BOOLEAN /\ stalled \in BOOLEAN
  /\ old \in Olds /\ spoilt \in BOOLEAN
  /\ stale \in Seq(1..MaxBytes) /\ Len(stale) <= FdSize
  /\ inbuf \in Seq(1..MaxBytes) /\ Len(inbuf) <= FdSize + Putback
  /\ seen \in 0..Len(inbuf)
  /\ gnext \in 0..seen

FdInit ==
  /\ Init
  /\ writer \in Layers /\ reader \in Layers
  /\ outbuf = <<>> /\ overrun = FALSE /\ stalled = FALSE
  /\ old = "none" /\ stale = <<>> /\ spoilt = FALSE
  /\ inbuf = <<>> /\ gnext = 0 /\ seen = 0

otherWriterVars == <<wbuf, wdone, wpc, offer>>
-----------------------------------------------------------------------------
(* Writing *)

(* Mutant: the put area is all of outbuf_. *)
PutAreaWhole == FdSize

(* epptr() - pbase(): one character is left for overflow. *)
PutArea == FdSize - 1

(* What is moved to the front of outbuf_. *)
Unsent(buf, i) == Drop(buf, i)

(* write takes i bytes of buf, or fails (0), as it must when another fdbuf *)
(* has closed the descriptor.                                              *)
Written(buf, i) ==
  /\ i <= Len(buf)
  /\ closed => i = 0
  /\ Len(pipe) + i <= PipeSize
  /\ pipe' = pipe \o SubSeq(buf, 1, i)

(* sync of outbuf_ with buf in it *)
Sync(buf, i) ==
  /\ Written(buf, i)
  /\ outbuf' = Unsent(buf, i)
  /\ stalled' = IF buf = <<>> THEN stalled ELSE i = 0

(* sync returns -1. *)
SyncFailed == Len(outbuf) = PutArea

(* The fdbuf is open as far as it and its caller know. *)
Usable == writer = "fdbuf" /\ (closed => old = "again") /\ ~overrun

CanPut == Usable /\ accepted < MaxBytes

(* sputc with room in the put area *)
FdPut ==
  /\ CanPut
  /\ Len(outbuf) < PutArea
  /\ outbuf' = Append(outbuf, accepted + 1)
  /\ accepted' = accepted + 1
  /\ UNCHANGED <<conn, otherWriterVars, closed, pipe, readerVars, writer, reader,
                 overrun, stalled, oldVars, getVars>>

(* overflow: the character is stored first, and sync called.  Taken or     *)
(* refused, it stays in the buffer.                                        *)
FdOverflow(i) ==
  /\ CanPut
  /\ Len(outbuf) \in PutArea..(FdSize - 1)
  /\ Sync(Append(outbuf, accepted + 1), i)
  /\ accepted' = accepted + 1
  /\ UNCHANGED <<conn, otherWriterVars, closed, readerVars, writer, reader, overrun,
                 oldVars, getVars>>

(* overflow again, when sync has freed nothing: the character goes behind  *)
(* outbuf_, and nothing more is said of this writer.                       *)
FdOverrun ==
  /\ CanPut
  /\ Len(outbuf) >= FdSize
  /\ overrun' = TRUE
  /\ UNCHANGED <<vars, writer, reader, outbuf, stalled, oldVars, getVars>>

(* pubsync, for std::flush *)
FdSync(i) ==
  /\ Usable
  /\ Sync(outbuf, i)
  /\ UNCHANGED <<conn, otherWriterVars, accepted, closed, readerVars, writer, reader,
                 overrun, oldVars, getVars>>

(* close, or the destructor of an fdbuf that is open: one sync, whatever   *)
(* it leaves.                                                              *)
FdClose(i) ==
  /\ Usable /\ ~closed
  /\ Sync(outbuf, i)
  /\ closed' = TRUE
  /\ UNCHANGED <<conn, otherWriterVars, accepted, readerVars, writer, reader, overrun,
                 oldVars, getVars>>

(* close after close, by the destructor or by open: fd_ still has the      *)
(* number, so there is a second sync, of what the first has left, and a    *)
(* second ::close.  The one has nowhere to write and the other nothing to  *)
(* close until the number is in use again: then both hit the descriptor    *)
(* that has it, which here is the next connection.                         *)
FdCloseAgain(i) ==
  /\ old = "closed" /\ ~closed
  /\ Written(stale, i)
  /\ closed' = TRUE
  /\ old' = "again" /\ stale' = <<>>
  /\ spoilt' = (spoilt \/ i > 0)
  /\ UNCHANGED <<conn, otherWriterVars, accepted, readerVars, writer, reader,
                 outbuf, overrun, stalled, getVars>>

FdWriterStep ==
  \/ FdPut \/ FdOverrun
  \/ \E i \in 0..FdSize :
       FdOverflow(i) \/ FdSync(i) \/ FdClose(i) \/ FdCloseAgain(i)
-----------------------------------------------------------------------------
(* Reading *)

otherReaderVars == <<errno, rbuf, r, eof, lastErrno, rpc, callVars>>

(* Mutant: the first characters are kept, not the last. *)
KeptFirst == SubSeq(inbuf, 1, IF gnext < Putback THEN gnext ELSE Putback)

(* Mutant: all there are are kept. *)
KeptAll == inbuf

(* The last characters, moved to the front of inbuf_. *)
Kept ==
  LET pback == IF gnext < Putback THEN gnext ELSE Putback
  IN  Drop(inbuf, Len(inbuf) - pback)

(* sbumpc *)
FdGet ==
  /\ reader = "fdbuf"
  /\ gnext < Len(inbuf)
  /\ gnext' = gnext + 1
  /\ IF gnext < seen
     THEN UNCHANGED <<seen, delivered>>
     ELSE /\ seen' = seen + 1
          /\ delivered' = Append(delivered, inbuf[gnext + 1])
  /\ UNCHANGED <<conn, writerVars, pipe, otherReaderVars, writer, reader, putVars, inbuf>>

(* sungetc *)
FdUnget ==
  /\ reader = "fdbuf"
  /\ gnext > 0
  /\ gnext' = gnext - 1
  /\ UNCHANGED <<vars, writer, reader, putVars, inbuf, seen>>

(* underflow: read brings i bytes, or none: at the end, for an error, or   *)
(* because there is nothing yet.  All three are eof to the caller.         *)
FdUnderflow(i) ==
  /\ reader = "fdbuf"
  /\ gnext = Len(inbuf)
  /\ i <= Len(pipe)
  /\ inbuf' = Kept \o SubSeq(pipe, 1, i)
  /\ gnext' = Len(Kept)
  /\ seen' = Len(Kept)
  /\ pipe' = Drop(pipe, i)
  /\ UNCHANGED <<conn, writerVars, otherReaderVars, delivered, writer, reader, putVars>>

FdReaderStep ==
  \/ FdGet \/ FdUnget
  \/ \E i \in 0..FdSize : FdUnderflow(i)
-----------------------------------------------------------------------------
BufWriterStep == writer = "bufio" /\ WriterStep /\ UNCHANGED fdVars

BufReaderStep == reader = "bufio" /\ ReaderStep /\ UNCHANGED fdVars

BufReaderCall ==
  /\ reader = "bufio"
  /\ \/ FillInterrupted
     \/ \E n \in 1..MaxRequest, c \in BOOLEAN : Readn(n, c) \/ Readfull(n, c)
  /\ UNCHANGED fdVars

(* reset of the one, and open of the other or the next one of its kind.    *)
(* The new connection may have the number of the last one, and then the    *)
(* fdbuf that was closed is still to be destroyed, or is this very one,    *)
(* which open closes again before anything is put: see FdCloseAgain.  On   *)
(* the reader's side that is a descriptor that brings nothing any more.    *)
NewConnection ==
  /\ Reset
  /\ ~overrun
  /\ old' \in IF writer = "fdbuf" THEN {"none", "closed"} ELSE {"none"}
  /\ stale' = IF old' = "closed" THEN outbuf ELSE <<>>
  /\ spoilt' = FALSE
  /\ outbuf' = <<>> /\ stalled' = FALSE
  /\ inbuf' = <<>> /\ gnext' = 0 /\ seen' = 0
  /\ UNCHANGED <<writer, reader, overrun>>

FdNext ==
  \/ NewConnection
  \/ BufWriterStep \/ FdWriterStep
  \/ BufReaderStep \/ BufReaderCall \/ FdReaderStep

FdSpec == FdInit /\ [][FdNext]_allVars

(* As in BufIO.  Nothing is assumed of the streambufs. *)
FdFairSpec == FdSpec /\ WF_allVars(BufReaderStep)
-----------------------------------------------------------------------------
(* The bytes the writer has taken: it is given 1, 2, 3, ... *)
Numbered(n) == [i \in 1..n |-> i]

(* What readn and sbumpc give out is, from its first byte on, what writen   *)
(* and sputc took: no byte is lost, repeated, overtaken or altered between  *)
(* the two ends, whichever class each uses and however reads and writes are *)
(* cut short and fail.  The one exemption is a connection to which another  *)
(* fdbuf, closed before, has written what it had left.                      *)
Abstract == INSTANCE Stream WITH
  Bytes <- 1..MaxBytes, sent <- Numbered(accepted), received <- delivered, ended <- eof

ImplementsStream == Abstract!Spec

(* What can be got again with sungetc is what was got last, and never less *)
(* than Putback characters of it, whatever underflow moved.                *)
UngetIsWhatWasGot ==
  /\ IsSuffix(SubSeq(inbuf, 1, seen), delivered)
  /\ reader = "fdbuf" =>
       seen >= (IF Len(delivered) < Putback THEN Len(delivered) ELSE Putback)

(* overflow always has a place for its character, as long as every write   *)
(* takes at least one byte: it is behind a write that took nothing, and is *)
(* reported as a success, that the next character has none.                *)
RoomForOne == Len(outbuf) = FdSize \/ overrun => stalled

(* "it is success if the stream made some progress": when sync returns 0,  *)
(* the write took something, if there was something to write.              *)
SuccessIsProgress ==
  [][\A i \in 0..FdSize :
       FdSync(i) /\ outbuf # <<>> /\ ~SyncFailed' => pipe' # pipe]_allVars
=============================================================================
