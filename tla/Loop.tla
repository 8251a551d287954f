-------------------------------- MODULE Loop --------------------------------
(***************************************************************************)
(* What a Server is to its Manager: a loop that looks at closing() before  *)
(* each wait, leaves when it is set or when a wait fails, and reports its  *)
(* end.  Module Manager takes its workers to be such loops, module Server  *)
(* is one: by this they can be put together.                               *)
(***************************************************************************)
CONSTANT Servers

VARIABLES closing,  \* Manager::closing()
          place     \* place[s]: where Server s is

vars == <<closing, place>>

Init ==
  /\ closing = FALSE
  /\ place = [s \in Servers |-> "busy"]

Close ==
  /\ ~closing
  /\ closing' = TRUE
  /\ UNCHANGED place

Move(s, from, to) ==
  /\ place[s] \in from
  /\ place' = [place EXCEPT ![s] = to]
  /\ UNCHANGED closing

(* It looks at closing(), and waits or leaves; also right after a wait that *)
(* brought nothing.                                                         *)
Look(s) == Move(s, {"busy", "waiting"}, IF closing THEN "leaving" ELSE "waiting")

(* A wait ends, or fails. *)
Return(s) == Move(s, {"waiting"}, "busy")
Fail(s) == Move(s, {"waiting"}, "leaving")

(* serverDone *)
End(s) == Move(s, {"leaving"}, "gone")

Next ==
  \/ Close
  \/ \E s \in Servers : Look(s) \/ Return(s) \/ Fail(s) \/ End(s)

Spec == Init /\ [][Next]_vars
=============================================================================
