------------------------------ MODULE MCBufIO ------------------------------
(* Requests smaller than, equal to and larger than the buffer, and a pipe   *)
(* that cannot take what a full buffer holds; a BufWriter or an fdbuf at    *)
(* one end, a BufReader or an fdbuf at the other.                           *)
EXTENDS FdBuf
=============================================================================
