------------------------------- MODULE BufIO -------------------------------
(***************************************************************************)
(* ugorji/util/bufio: a BufWriter and a BufReader at the two ends of a     *)
(* non-blocking socket.                                                    *)
(*                                                                         *)
(* The bytes are the numbers 1, 2, 3, ... in the order in which the writer *)
(* is given them.  Each read and write is a step, with every outcome the   *)
(* kernel may give it: all or a part of the bytes, EAGAIN, EINTR, the end. *)
(* Both objects have a descriptor (fd_ >= 0).                              *)
(***************************************************************************)
EXTENDS Integers, Sequences

CONSTANTS
  BufSize,     \* bufsize_, the same in both classes
  PipeSize,    \* the bytes the kernel holds between the two
  MaxBytes,    \* bound on the bytes given to the writer
  MaxRequest,  \* bound on the n of writen, readn and readfull
  Retries,     \* numRetriesOnBlock
  MaxConns     \* bound on the connections the two objects are used for

ASSUME SizesAssumption ==
  /\ BufSize \in Nat \ {0} /\ PipeSize \in Nat \ {0}
  /\ MaxBytes \in Nat /\ MaxRequest \in Nat \ {0} /\ Retries \in Nat
  /\ MaxConns \in Nat \ {0}

VARIABLES
  (* BufWriter *)
  wbuf,       \* buf_[0 .. n_ - 1]
  wdone,      \* w, the bytes that flush has written
  wpc,        \* where the writer is
  offer,      \* the n of the writen that called flush; 0 for flush itself
  accepted,   \* history: the bytes the writer has taken from its caller
  closed,     \* has the writer's end been closed
  (* the kernel *)
  conn,       \* history: the number of the connection
  pipe,       \* the bytes written and not read
  errno,      \* errno in the reader's thread
  (* BufReader *)
  rbuf,       \* buf_[0 .. w_ - 1]
  r,          \* r_
  eof,        \* eof_
  lastErrno,  \* errno_
  rpc,        \* where the reader is
  full,       \* is readn called by readfull
  cont,       \* continueOnInterrupt
  want,       \* n
  got,        \* r, the bytes readfull has
  bk,         \* the retries readfull has made
  delivered   \* history: the bytes readn has returned

writerVars == <<wbuf, wdone, wpc, offer, accepted, closed>>
callVars == <<full, cont, want, got, bk>>
readerVars == <<errno, rbuf, r, eof, lastErrno, rpc, callVars, delivered>>
vars == <<conn, writerVars, pipe, readerVars>>

Errnos == {"none", "EAGAIN", "EINTR"}

TypeOK ==
  /\ wbuf \in Seq(1..MaxBytes) /\ Len(wbuf) <= BufSize
  /\ wdone \in 0..Len(wbuf)
  /\ wpc \in {"idle", "flush", "direct"}
  /\ offer \in 0..MaxRequest
  /\ accepted \in 0..MaxBytes
  /\ closed \in BOOLEAN
  /\ conn \in 1..MaxConns
  /\ pipe \in Seq(1..MaxBytes) /\ Len(pipe) <= PipeSize
  /\ errno \in Errnos
  /\ rbuf \in Seq(1..MaxBytes) /\ Len(rbuf) <= BufSize
  /\ r \in 0..Len(rbuf)
  /\ eof \in BOOLEAN
  /\ lastErrno \in Errnos
  /\ rpc \in {"idle", "readn", "fill", "filled"}
  /\ full \in BOOLEAN /\ cont \in BOOLEAN
  /\ want \in 0..MaxRequest
  /\ got \in 0..want
  /\ bk \in 0..Retries
  /\ delivered \in Seq(1..MaxBytes)

Init ==
  /\ wbuf = <<>> /\ wdone = 0 /\ wpc = "idle" /\ offer = 0
  /\ accepted = 0 /\ closed = FALSE
  /\ conn = 1 /\ pipe = <<>> /\ errno = "none"
  /\ rbuf = <<>> /\ r = 0 /\ eof = FALSE /\ lastErrno = "none"
  /\ rpc = "idle" /\ full = FALSE /\ cont = FALSE
  /\ want = 0 /\ got = 0 /\ bk = 0
  /\ delivered = <<>>

(* The elements of s after the first n. *)
Drop(s, n) == SubSeq(s, n + 1, Len(s))

(* The n bytes the writer's caller has next. *)
Upcoming(n) == [i \in 1..n |-> accepted + i]
-----------------------------------------------------------------------------
(* BufWriter *)

(* memcpy to the end of buf_ *)
Buffer(s, n) ==
  /\ wbuf' = s \o Upcoming(n)
  /\ accepted' = accepted + n
  /\ wpc' = "idle"

Writen(n) ==
  /\ wpc = "idle"
  /\ ~closed
  /\ accepted + n <= MaxBytes
  /\ IF n + Len(wbuf) > BufSize
     THEN /\ wpc' = "flush"
          /\ offer' = n
          /\ UNCHANGED <<wbuf, accepted>>
     ELSE /\ Buffer(wbuf, n)
          /\ UNCHANGED offer
  /\ wdone' = 0
  /\ UNCHANGED <<conn, closed, pipe, readerVars>>

Flush ==
  /\ wpc = "idle"
  /\ ~closed
  /\ wpc' = "flush"
  /\ offer' = 0
  /\ wdone' = 0
  /\ UNCHANGED <<conn, wbuf, accepted, closed, pipe, readerVars>>

(* write takes i of the bytes flush has left. *)
FlushWrite(i) ==
  /\ wpc = "flush"
  /\ i <= Len(wbuf) - wdone
  /\ Len(pipe) + i <= PipeSize
  /\ pipe' = pipe \o SubSeq(wbuf, wdone + 1, wdone + i)
  /\ wdone' = wdone + i
  /\ UNCHANGED <<conn, wbuf, wpc, offer, accepted, closed, readerVars>>

(* Mutant: flush leaves the bytes it has written in the buffer. *)
UnwrittenAll == wbuf

(* memmove, and n_ -= w *)
Unwritten == Drop(wbuf, wdone)

(* write fails: the rest is kept, and flush and writen return the failure. *)
FlushFail ==
  /\ wpc = "flush"
  /\ wdone < Len(wbuf)
  /\ wbuf' = Unwritten
  /\ wdone' = 0
  /\ wpc' = "idle"
  /\ UNCHANGED <<conn, offer, accepted, closed, pipe, readerVars>>

(* Everything is written: flush returns, and writen goes on. *)
FlushEnd ==
  /\ wpc = "flush"
  /\ wdone = Len(wbuf)
  /\ wdone' = 0
  /\ IF offer > BufSize
     THEN wbuf' = <<>> /\ wpc' = "direct" /\ UNCHANGED accepted
     ELSE Buffer(<<>>, offer)
  /\ UNCHANGED <<conn, offer, closed, pipe, readerVars>>

(* A request larger than the buffer is written past it; i = 0: it fails. *)
DirectWrite(i) ==
  /\ wpc = "direct"
  /\ i <= offer
  /\ Len(pipe) + i <= PipeSize
  /\ pipe' = pipe \o Upcoming(i)
  /\ accepted' = accepted + i
  /\ wpc' = "idle"
  /\ UNCHANGED <<conn, wbuf, wdone, offer, closed, readerVars>>

(* The writer's end of the socket is closed, with or without a flush. *)
Close ==
  /\ wpc = "idle"
  /\ ~closed
  /\ closed' = TRUE
  /\ UNCHANGED <<conn, wbuf, wdone, wpc, offer, accepted, pipe, readerVars>>

WriterStep ==
  \/ \E n \in 1..MaxRequest : Writen(n)
  \/ Flush \/ FlushFail \/ FlushEnd \/ Close
  \/ \E i \in 1..MaxRequest : FlushWrite(i)
  \/ \E i \in 0..MaxRequest : DirectWrite(i)
-----------------------------------------------------------------------------
(* BufReader *)

Call(n, f, c) ==
  /\ rpc = "idle"
  /\ rpc' = "readn"
  /\ full' = f /\ cont' = c /\ want' = n /\ got' = 0 /\ bk' = 0
  /\ UNCHANGED <<conn, errno, rbuf, r, eof, lastErrno, delivered, pipe, writerVars>>

(* readn(n, ..., c) and readfull(b, n, c), called by the application *)
Readn(n, c) == Call(n, FALSE, c)

Readfull(n, c) == Call(n, TRUE, c)

(* Mutant: a retry is not counted. *)
RetriedNot == bk

Retried == bk + 1

(* Mutant: one retry more than numRetriesOnBlock. *)
MayRetryOnceMore == bk <= Retries

MayRetry == bk < Retries

(* Mutant: errno_ is cleared when readfull gives up as well. *)
AfterFailureCleared ==
  IF full /\ ~eof /\ lastErrno = "EAGAIN" /\ MayRetry
  THEN rpc' = "readn" /\ lastErrno' = "none" /\ bk' = Retried
  ELSE rpc' = "idle" /\ lastErrno' = "none" /\ UNCHANGED bk

(* readn returns 0 or -1.  readfull tries again after EAGAIN, so often. *)
AfterFailure ==
  IF full /\ ~eof /\ lastErrno = "EAGAIN" /\ MayRetry
  THEN rpc' = "readn" /\ lastErrno' = "none" /\ bk' = Retried
  ELSE rpc' = "idle" /\ UNCHANGED <<lastErrno, bk>>

(* readn returns bytes from buf_, at most those there are. *)
Take ==
  LET n == IF want - got < Len(rbuf) - r THEN want - got ELSE Len(rbuf) - r IN
    /\ delivered' = delivered \o SubSeq(rbuf, r + 1, r + n)
    /\ r' = r + n
    /\ got' = got + n
    /\ rpc' = IF full /\ got + n < want THEN "readn" ELSE "idle"

ReadnEof ==
  /\ rpc = "readn"
  /\ eof
  /\ AfterFailure
  /\ UNCHANGED <<conn, errno, rbuf, r, eof, full, cont, want, got, delivered, pipe,
                 writerVars>>

(* Mutant: the indices are not set back when the buffer is used up. *)
EmptiedNot == UNCHANGED <<rbuf, r>>

(* r_ = w_ = 0 *)
Emptied == rbuf' = <<>> /\ r' = 0

ReadnEmpty ==
  /\ rpc = "readn"
  /\ ~eof
  /\ r = Len(rbuf)
  /\ Emptied
  /\ rpc' = "fill"
  /\ UNCHANGED <<conn, errno, eof, lastErrno, callVars, delivered, pipe, writerVars>>

ReadnTake ==
  /\ (rpc = "readn" /\ ~eof) \/ rpc = "filled"
  /\ r < Len(rbuf)
  /\ Take
  /\ UNCHANGED <<conn, errno, rbuf, eof, lastErrno, full, cont, want, bk, pipe, writerVars>>

(* fill has brought nothing. *)
ReadnNothing ==
  /\ rpc = "filled"
  /\ Len(rbuf) = 0
  /\ AfterFailure
  /\ UNCHANGED <<conn, errno, rbuf, r, eof, full, cont, want, got, delivered, pipe,
                 writerVars>>

(* read brings i bytes.  It leaves errno alone, and errno_ takes whatever  *)
(* an earlier call has left there. *)
FillData(i) ==
  /\ rpc = "fill"
  /\ i <= Len(pipe)
  /\ Len(rbuf) + i <= BufSize
  /\ rbuf' = rbuf \o SubSeq(pipe, 1, i)
  /\ pipe' = Drop(pipe, i)
  /\ lastErrno' = errno
  /\ rpc' = "filled"
  /\ UNCHANGED <<conn, errno, r, eof, callVars, delivered, writerVars>>

(* read returns 0: nothing can come, or there is no room to read into. *)
FillEnd ==
  /\ rpc = "fill"
  /\ (pipe = <<>> /\ closed) \/ Len(rbuf) = BufSize
  /\ eof' = TRUE
  /\ lastErrno' = errno
  /\ rpc' = "filled"
  /\ UNCHANGED <<conn, errno, rbuf, r, callVars, delivered, pipe, writerVars>>

FillAgain ==
  /\ rpc = "fill"
  /\ pipe = <<>> /\ ~closed /\ Len(rbuf) < BufSize
  /\ errno' = "EAGAIN"
  /\ lastErrno' = "EAGAIN"
  /\ rpc' = "filled"
  /\ UNCHANGED <<conn, rbuf, r, eof, callVars, delivered, pipe, writerVars>>

FillInterrupted ==
  /\ rpc = "fill"
  /\ errno' = "EINTR"
  /\ lastErrno' = "EINTR"
  /\ rpc' = IF cont THEN "fill" ELSE "filled"
  /\ UNCHANGED <<conn, rbuf, r, eof, callVars, delivered, pipe, writerVars>>

(* A call goes on by itself. *)
ReaderStep ==
  \/ ReadnEof \/ ReadnEmpty \/ ReadnTake \/ ReadnNothing
  \/ \E i \in 1..BufSize : FillData(i)
  \/ FillEnd \/ FillAgain

(* reset of both objects, for the next connection: what they hold of the   *)
(* last one is dropped.  errno is the thread's and stays.                  *)
Reset ==
  /\ wpc = "idle" /\ rpc = "idle"
  /\ closed
  /\ conn < MaxConns
  /\ conn' = conn + 1
  /\ wbuf' = <<>>
  /\ rbuf' = <<>> /\ r' = 0 /\ lastErrno' = "none" /\ eof' = FALSE
  /\ accepted' = 0 /\ delivered' = <<>>
  /\ pipe' = <<>> /\ closed' = FALSE
  /\ UNCHANGED <<wdone, wpc, offer, errno, rpc, callVars>>

Next ==
  \/ WriterStep
  \/ Reset
  \/ \E n \in 1..MaxRequest, c \in BOOLEAN : Readn(n, c) \/ Readfull(n, c)
  \/ ReaderStep
  \/ FillInterrupted

Spec == Init /\ [][Next]_vars

(* A read returns, and is not interrupted for ever.  Nothing is assumed of *)
(* the writer or of the calls.                                              *)
FairSpec == Spec /\ WF_vars(ReaderStep)
-----------------------------------------------------------------------------
(* eof_ is only ever set behind the last byte that was written, not when    *)
(* the buffer merely had no room or the socket nothing yet.                 *)
EofIsTheEnd ==
  eof => closed /\ pipe = <<>> /\ r = Len(rbuf)

(* "if return value < n, there was error, and check errno_": when readfull  *)
(* returns with fewer bytes than it was asked for, or readn with none, eof_ *)
(* or errno_ says that something was the matter.                            *)
ShortReadExplained ==
  [][rpc # "idle" /\ rpc' = "idle" /\ got' < (IF full THEN want ELSE 1) =>
       eof' \/ lastErrno' # "none"]_vars

(* readfull does not wait for ever, whatever the other end does or fails to *)
(* do.                                                                      *)
CallsEnd == (rpc # "idle") ~> (rpc = "idle")
=============================================================================
