----------------------------- MODULE MCManager -----------------------------
(* One owner, its workers and the places from which close is called. *)
EXTENDS Manager

CONSTANTS c1, c2

(* Signal handlers, on the owner's thread and, if all workers are on the    *)
(* pool, on that of the second one, which wait would join last.             *)
MCHandlers == {c1, c2}
MCHandlersOn == [c \in MCHandlers |-> IF c = c1 THEN 2 ELSE Main]

(* A thread apart from the owner and the pool. *)
MCOther == {c1}
MCOtherOn == [c \in MCOther |-> Other]

(* Everything is logged; or also: only what is not TRACE, as by default. *)
MCTrace == {TRACE}
MCLevels == {TRACE, INFO}
=============================================================================
