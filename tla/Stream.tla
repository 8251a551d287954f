------------------------------- MODULE Stream -------------------------------
(***************************************************************************)
(* What a writer and a reader at the two ends of a connection promise      *)
(* together: a stream of bytes.  What comes out is the beginning of what   *)
(* went in.                                                                *)
(***************************************************************************)
EXTENDS Naturals, SequencesExt

CONSTANT Bytes

VARIABLES sent,      \* the bytes the writer has taken
          received,  \* the bytes the reader has given out
          ended,     \* has the reader seen the end
          spoilt,    \* has someone else written to the connection
          conn       \* the number of the stream

vars == <<sent, received, ended, spoilt, conn>>

Init ==
  sent = <<>> /\ received = <<>> /\ ended = FALSE /\ spoilt = FALSE /\ conn = 1

Put ==
  /\ sent' \in Seq(Bytes)
  /\ IsPrefix(sent, sent')
  /\ UNCHANGED <<received, ended, spoilt, conn>>

Get ==
  /\ ~ended
  /\ received' \in Seq(Bytes)
  /\ IsPrefix(received, received')
  /\ spoilt \/ IsPrefix(received', sent)
  /\ UNCHANGED <<sent, ended, spoilt, conn>>

(* What has not been received by then is lost. *)
End == ended' = TRUE /\ UNCHANGED <<sent, received, spoilt, conn>>

Spoil == spoilt' = TRUE /\ UNCHANGED <<sent, received, ended, conn>>

(* The next stream begins. *)
Reopen ==
  /\ conn' = conn + 1
  /\ sent' = <<>> /\ received' = <<>> /\ ended' = FALSE /\ spoilt' = FALSE

Next == Put \/ Get \/ End \/ Spoil \/ Reopen

Spec == Init /\ [][Next]_vars
=============================================================================
