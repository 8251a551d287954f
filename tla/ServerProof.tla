----------------------------- MODULE ServerProof -----------------------------
(***************************************************************************)
(* Theorems about Server, for any number of Servers, connections and       *)
(* descriptors: whose descriptors the loops work on, whose state the       *)
(* Handler keeps, that what goes wrong is counted, and that a Server is    *)
(* the loop its Manager takes it for.                                      *)
(***************************************************************************)
EXTENDS Server, TLAPS, WellFoundedInduction

(* The descriptor is that of an open connection which s accepted. *)
Own(s, fd) == fdConn[fd] # NoConn /\ acceptor[fdConn[fd]] = {s}

(* A connection has one descriptor, and only while it is open. *)
ConnOK ==
  \A fd \in Fds : fdConn[fd] # NoConn =>
    /\ net[fdConn[fd]] = "open"
    /\ \A g \in Fds : fdConn[g] = fdConn[fd] => g = fd

(* What epoll knows of is the Server's own, except the listening socket. *)
EpollOK(s) == \A fd \in interest[s] \cup ready[s] : fd # ListenFd => Own(s, fd)

(* So are the events not yet looked at, one for a descriptor, and none for *)
(* the descriptor that is worked on.                                       *)
BatchOK(s) ==
  /\ \A e \in batch[s] : e.fd # ListenFd =>
       Own(s, e.fd) /\ (pc[s] \in {"handle", "unreg", "close"} => e.fd # cur[s])
  /\ \A e, f \in batch[s] : e.fd = f.fd => e = f
  /\ quitting[s] \/ pc[s] \in {"start", "poll"} => batch[s] = {}

(* So are the clients, until the iterator at the end of run has passed. *)
ClientsOK(s) ==
  \A fd \in clientfds[s] : (quitting[s] => fd > cur[s]) =>
    Own(s, fd) /\ (pc[s] \in {"unreg", "close"} => fd # cur[s])

CurOK(s) ==
  /\ pc[s] \in {"add", "handle", "unreg", "close"} => cur[s] # ListenFd /\ Own(s, cur[s])
  /\ pc[s] \in {"start", "poll", "batch", "handle"} \cup Accepting => ~quitting[s]
  /\ pc[s] = "quit" => quitting[s]

ServerOK(s) == EpollOK(s) /\ BatchOK(s) /\ ClientsOK(s) /\ CurOK(s)

(* The Handler has forgotten a descriptor that is about to be closed. *)
ForgottenOK == \A s \in Servers : pc[s] = "close" => hstate[cur[s]] = NoConn

IInv ==
  /\ TypeOK /\ ConnOK
  /\ \A s \in Servers : ServerOK(s)
  /\ HandlerStateIsCurrent /\ ForgottenOK
-----------------------------------------------------------------------------
(* Least elements *)

LEMMA LeastExists ==
  ASSUME NEW S \in SUBSET Fds, S # {}
  PROVE  \E f \in S : \A g \in S : f <= g
<1> DEFINE R == {p \in Nat \X Nat : p[1] < p[2]}
<1>1. IsWellFoundedOn(R, Nat)
  BY NatLessThanWellFounded DEF OpToRel
<1>2. S \subseteq Nat
  BY FdLimitAssumption DEF Fds
<1>3. PICK f \in S : \A g \in S : <<g, f>> \notin R
  BY <1>1, <1>2, WFMin
<1>4. ASSUME NEW g \in S PROVE f <= g
  <2>1. f \in Nat /\ g \in Nat
    BY <1>2
  <2>2. <<g, f>> \in Nat \X Nat /\ <<g, f>>[1] = g /\ <<g, f>>[2] = f
    BY <2>1
  <2>3. ~(g < f)
    BY <1>3, <2>2
  <2> QED
    BY <2>1, <2>3
<1> QED
  BY <1>4

LEMMA LowestFreeIsFree == FreeFds # {} => LowestFree \in FreeFds
<1>1. FreeFds \in SUBSET Fds
  BY DEF FreeFds
<1> QED
  BY <1>1, LeastExists DEF LowestFree

(* The descriptor that Purge comes to. *)
LEMMA NextToPurge ==
  ASSUME TypeOK, NEW s \in Servers, Purge(s)
  PROVE  cur'[s] \in LeftToPurge(s)
<1>1. LeftToPurge(s) \in SUBSET Fds
  BY DEF LeftToPurge, TypeOK
<1> DEFINE least == CHOOSE f \in LeftToPurge(s) : \A g \in LeftToPurge(s) : f <= g
<1>2. least \in LeftToPurge(s)
  BY <1>1, LeastExists DEF Purge
<1>3. cur'[s] = least
  BY DEF Purge, TypeOK
<1> QED
  BY <1>2, <1>3
-----------------------------------------------------------------------------
(* What a step leaves alone *)

(* A descriptor has one owner. *)
LEMMA OneOwner ==
  ASSUME NEW s, NEW u, NEW fd, Own(s, fd), Own(u, fd)
  PROVE  s = u
BY DEF Own

(* A step leaves the variables of u alone, and what epoll knows for it *)
(* grows by what it knew already.                                      *)
Alone(u) ==
  /\ pc'[u] = pc[u] /\ batch'[u] = batch[u] /\ cur'[u] = cur[u]
  /\ quitting'[u] = quitting[u] /\ clientfds'[u] = clientfds[u]
  /\ interest'[u] \subseteq interest[u]
  /\ ready'[u] \subseteq ready[u] \cup interest[u] \cup {ListenFd}

(* The invariant of a Server outlives a step that leaves it alone and takes *)
(* no descriptor from it.                                                   *)
LEMMA AloneKeepsServer ==
  ASSUME TypeOK, NEW u \in Servers, ServerOK(u), Alone(u),
         \A fd \in Fds : Own(u, fd) => Own(u, fd)'
  PROVE  ServerOK(u)'
<1>1. EpollOK(u)'
  BY DEF ServerOK, EpollOK, Alone, TypeOK
<1>2. BatchOK(u)'
  <2>1. \A e \in batch[u] : e.fd \in Fds \cup {ListenFd}
    BY DEF TypeOK, Events
  <2> QED
    BY <2>1 DEF ServerOK, BatchOK, Alone
<1>3. ClientsOK(u)'
  BY DEF ServerOK, ClientsOK, Alone, TypeOK
<1>4. CurOK(u)'
  BY DEF ServerOK, CurOK, Alone, TypeOK
<1> QED
  BY <1>1, <1>2, <1>3, <1>4 DEF ServerOK

(* A step that neither opens nor closes a connection keeps the invariant if *)
(* it keeps that of its Server and what is said of the Handler.             *)
LEMMA OwnStep ==
  ASSUME IInv, TypeOK', NEW s \in Servers, \A u \in Servers \ {s} : Alone(u),
         UNCHANGED <<net, fdConn, acceptor>>, ServerOK(s)',
         HandlerStateIsCurrent', ForgottenOK'
  PROVE  IInv'
<1>1. \A u \in Servers, fd \in Fds : Own(u, fd)' <=> Own(u, fd)
  BY DEF Own
<1>2. \A u \in Servers : ServerOK(u)'
  BY <1>1, AloneKeepsServer DEF IInv
<1>3. ConnOK'
  BY DEF IInv, ConnOK
<1> QED
  BY <1>2, <1>3 DEF IInv

(* One that does not reach the Handler either keeps what is said of it. *)
LEMMA QuietStep ==
  ASSUME IInv, TypeOK', NEW s \in Servers, \A u \in Servers \ {s} : Alone(u),
         UNCHANGED <<net, fdConn, acceptor, hstate>>, ServerOK(s)', pc'[s] # "close"
  PROVE  IInv'
<1>1. HandlerStateIsCurrent' /\ ForgottenOK'
  BY DEF IInv, HandlerStateIsCurrent, ForgottenOK, Alone
<1> QED
  BY <1>1, OwnStep

(* A step of nobody, likewise. *)
LEMMA OutsideStep ==
  ASSUME IInv, TypeOK', \A u \in Servers : Alone(u), UNCHANGED <<fdConn, acceptor, hstate>>,
         \A c \in Conns : net[c] = "open" => net'[c] = "open"
  PROVE  IInv'
<1>1. \A u \in Servers, fd \in Fds : Own(u, fd)' <=> Own(u, fd)
  BY DEF Own
<1>2. \A u \in Servers : ServerOK(u)'
  BY <1>1, AloneKeepsServer DEF IInv
<1>3. ConnOK'
  BY DEF IInv, ConnOK, TypeOK
<1>4. HandlerStateIsCurrent' /\ ForgottenOK'
  BY DEF IInv, HandlerStateIsCurrent, ForgottenOK, Alone
<1> QED
  BY <1>2, <1>3, <1>4 DEF IInv
-----------------------------------------------------------------------------
(* The clients and the Manager *)

LEMMA ConnectKeeps ==
  ASSUME IInv, NEW c \in Conns, Connect(c)
  PROVE  IInv'
<1>1. TypeOK'
  BY DEF IInv, TypeOK, Connect, mgrVars
<1>2. \A u \in Servers : Alone(u)
  BY DEF IInv, TypeOK, Connect, Alone
<1>3. \A d \in Conns : net[d] = "open" => net'[d] = "open"
  BY DEF IInv, TypeOK, Connect, mgrVars
<1> QED
  BY <1>1, <1>2, <1>3, OutsideStep DEF Connect

LEMMA SignalTyped ==
  ASSUME TypeOK, NEW c, Signal(c)
  PROVE  /\ ready' \in [Servers -> SUBSET (Fds \cup {ListenFd})]
         /\ \A u \in Servers : ready'[u] \subseteq ready[u] \cup interest[u] \cup {ListenFd}
BY DEF TypeOK, Signal

LEMMA SendKeeps ==
  ASSUME IInv, NEW c \in Conns, Send(c)
  PROVE  IInv'
<1>1. TypeOK'
  BY BufferSizeAssumption, SignalTyped DEF IInv, TypeOK, Send, mgrVars
<1>2. \A u \in Servers : Alone(u)
  BY SignalTyped DEF IInv, Send, Alone
<1> QED
  BY <1>1, <1>2, OutsideStep DEF Send

LEMMA HangUpKeeps ==
  ASSUME IInv, NEW c \in Conns, HangUp(c)
  PROVE  IInv'
<1>1. TypeOK'
  BY SignalTyped DEF IInv, TypeOK, HangUp, mgrVars
<1>2. \A u \in Servers : Alone(u)
  BY SignalTyped DEF IInv, HangUp, Alone
<1> QED
  BY <1>1, <1>2, OutsideStep DEF HangUp

LEMMA StopKeeps == ASSUME IInv, Stop PROVE IInv'
<1>1. TypeOK'
  BY DEF IInv, TypeOK, Stop, netVars, kernelVars
<1>2. \A u \in Servers : Alone(u)
  BY DEF Stop, Alone, kernelVars
<1> QED
  BY <1>1, <1>2, OutsideStep DEF Stop, netVars, kernelVars

LEMMA StutterKeeps == ASSUME IInv, UNCHANGED vars PROVE IInv'
<1>1. TypeOK'
  BY DEF IInv, TypeOK, vars, netVars, kernelVars, mgrVars
<1>2. \A u \in Servers : Alone(u)
  BY DEF vars, Alone, kernelVars
<1> QED
  BY <1>1, <1>2, OutsideStep DEF vars, netVars, kernelVars
-----------------------------------------------------------------------------
(* The loop of run *)

(* Who reads the Manager's state has no event left, and all its clients. *)
LEMMA LoopTopServer ==
  ASSUME IInv, NEW s \in Servers, LoopTop(s), ~quitting[s], batch'[s] = {}, EpollOK(s)',
         UNCHANGED <<clientfds, fdConn, acceptor>>
  PROVE  ServerOK(s)' /\ pc'[s] # "close"
<1>1. /\ quitting'[s] = closing /\ cur'[s] = ListenFd
      /\ pc'[s] = IF closing THEN "quit" ELSE "poll"
  BY DEF IInv, TypeOK, LoopTop, Goto
<1>2. \A fd \in clientfds'[s] : Own(s, fd)'
  BY DEF IInv, ServerOK, ClientsOK, Own
<1>3. closing \in BOOLEAN
  BY DEF IInv, TypeOK
<1> QED
  BY <1>1, <1>2, <1>3 DEF ServerOK, BatchOK, ClientsOK, CurOK, Accepting

LEMMA LoopTopTyped ==
  ASSUME TypeOK, NEW s \in Servers, LoopTop(s)
  PROVE  /\ quitting' \in [Servers -> BOOLEAN] /\ cur' \in [Servers -> Fds \cup {ListenFd}]
         /\ pc' \in [Servers -> PC]
         /\ \A u \in Servers \ {s} :
              quitting'[u] = quitting[u] /\ cur'[u] = cur[u] /\ pc'[u] = pc[u]
BY DEF TypeOK, LoopTop, Goto, PC, Accepting

LEMMA StartKeeps ==
  ASSUME IInv, NEW s \in Servers, Start(s)
  PROVE  IInv'
<1>1. TypeOK'
  BY LoopTopTyped DEF IInv, TypeOK, Start, netVars, mgrVars
<1>2. \A u \in Servers \ {s} : Alone(u)
  BY LoopTopTyped DEF IInv, TypeOK, Start, Alone
<1>3. EpollOK(s)'
  BY DEF IInv, TypeOK, Start, EpollOK
<1>4. ~quitting[s] /\ batch'[s] = {}
  BY DEF IInv, ServerOK, CurOK, BatchOK, Start
<1>5. ServerOK(s)' /\ pc'[s] # "close"
  BY <1>3, <1>4, LoopTopServer DEF Start
<1> QED
  BY <1>1, <1>2, <1>5, QuietStep DEF Start, netVars

LEMMA StartDeafKeeps ==
  ASSUME IInv, NEW s \in Servers, StartDeaf(s)
  PROVE  IInv'
<1>1. TypeOK'
  BY LoopTopTyped DEF IInv, TypeOK, StartDeaf, netVars, kernelVars
<1>2. \A u \in Servers \ {s} : Alone(u)
  BY LoopTopTyped DEF IInv, StartDeaf, Alone, kernelVars
<1>3. EpollOK(s)'
  BY DEF IInv, ServerOK, StartDeaf, EpollOK, Own, kernelVars
<1>4. ~quitting[s] /\ batch'[s] = {}
  BY DEF IInv, ServerOK, CurOK, BatchOK, StartDeaf
<1>5. ServerOK(s)' /\ pc'[s] # "close"
  BY <1>3, <1>4, LoopTopServer DEF StartDeaf, kernelVars
<1> QED
  BY <1>1, <1>2, <1>5, QuietStep DEF StartDeaf, netVars, kernelVars

LEMMA NoEventsKeeps ==
  ASSUME IInv, NEW s \in Servers, NoEvents(s)
  PROVE  IInv'
<1>1. TypeOK'
  BY LoopTopTyped DEF IInv, TypeOK, NoEvents, netVars, kernelVars, mgrVars
<1>2. \A u \in Servers \ {s} : Alone(u)
  BY LoopTopTyped DEF IInv, NoEvents, Alone, kernelVars
<1>3. EpollOK(s)'
  BY DEF IInv, ServerOK, NoEvents, EpollOK, Own, kernelVars
<1>4. ~quitting[s] /\ batch'[s] = {}
  BY DEF IInv, ServerOK, CurOK, BatchOK, NoEvents
<1>5. ServerOK(s)' /\ pc'[s] # "close"
  BY <1>3, <1>4, LoopTopServer DEF NoEvents, kernelVars
<1> QED
  BY <1>1, <1>2, <1>5, QuietStep DEF NoEvents, netVars, kernelVars

LEMMA NextBatchKeeps ==
  ASSUME IInv, NEW s \in Servers, NextBatch(s)
  PROVE  IInv'
<1>1. TypeOK'
  BY LoopTopTyped DEF IInv, TypeOK, NextBatch, netVars, kernelVars, mgrVars
<1>2. \A u \in Servers \ {s} : Alone(u)
  BY LoopTopTyped DEF IInv, TypeOK, NextBatch, Alone, kernelVars
<1>3. EpollOK(s)'
  BY DEF IInv, ServerOK, NextBatch, EpollOK, Own, kernelVars
<1>4. ~quitting[s] /\ batch'[s] = {}
  BY DEF IInv, TypeOK, ServerOK, CurOK, NextBatch
<1>5. ServerOK(s)' /\ pc'[s] # "close"
  BY <1>3, <1>4, LoopTopServer DEF NextBatch, kernelVars
<1> QED
  BY <1>1, <1>2, <1>5, QuietStep DEF NextBatch, netVars, kernelVars

(* A descriptor that epoll reports is one that a connection is behind, so  *)
(* that its state is a truth value.                                        *)
LEMMA ReportedTyped ==
  ASSUME IInv, NEW s \in Servers
  PROVE  /\ Reported(s) \in SUBSET Events
         /\ \A e \in Reported(s) : e.fd # ListenFd => Own(s, e.fd)
         /\ \A e, f \in Reported(s) : e.fd = f.fd => e = f
<1>1. ASSUME NEW fd \in ready[s] \ {ListenFd}
      PROVE  fd \in Fds /\ Own(s, fd) /\ hup[fdConn[fd]] \in BOOLEAN
  <2>1. fd \in Fds /\ Own(s, fd)
    BY DEF IInv, TypeOK, ServerOK, EpollOK
  <2>2. fdConn[fd] \in Conns
    BY <2>1 DEF IInv, TypeOK, Own
  <2> QED
    BY <2>1, <2>2 DEF IInv, TypeOK
<1>2. ASSUME NEW e \in Reported(s)
      PROVE  \/ e = [fd |-> ListenFd, hup |-> FALSE]
             \/ \E fd \in ready[s] \ {ListenFd} : e = [fd |-> fd, hup |-> hup[fdConn[fd]]]
  BY DEF Reported
<1>3. ASSUME NEW e \in Reported(s)
      PROVE  e \in Events /\ (e.fd # ListenFd => Own(s, e.fd))
  <2>1. CASE e = [fd |-> ListenFd, hup |-> FALSE]
    BY <2>1 DEF Events
  <2>2. ASSUME NEW fd \in ready[s] \ {ListenFd}, e = [fd |-> fd, hup |-> hup[fdConn[fd]]]
        PROVE  e \in Events /\ (e.fd # ListenFd => Own(s, e.fd))
    <3>1. fd \in Fds /\ Own(s, fd) /\ hup[fdConn[fd]] \in BOOLEAN
      BY <1>1
    <3>2. e.fd = fd
      BY <2>2
    <3>3. e \in Events
      BY <2>2, <3>1 DEF Events
    <3> QED
      BY <3>1, <3>2, <3>3
  <2> QED
    BY <1>2, <2>1, <2>2
<1>4. ASSUME NEW e \in Reported(s)
      PROVE  e = [fd |-> e.fd, hup |-> IF e.fd = ListenFd THEN FALSE ELSE hup[fdConn[e.fd]]]
  <2>1. CASE e = [fd |-> ListenFd, hup |-> FALSE]
    BY <2>1
  <2>2. ASSUME NEW fd \in ready[s] \ {ListenFd}, e = [fd |-> fd, hup |-> hup[fdConn[fd]]]
        PROVE  e = [fd |-> e.fd, hup |-> IF e.fd = ListenFd THEN FALSE ELSE hup[fdConn[e.fd]]]
    BY <2>2
  <2> QED
    BY <1>2, <2>1, <2>2
<1> QED
  BY <1>3, <1>4

LEMMA EpollWaitKeeps ==
  ASSUME IInv, NEW s \in Servers, EpollWait(s)
  PROVE  IInv'
<1> DEFINE reported == {e \in Reported(s) : e.fd = ListenFd => Backlog # {}}
<1>1. reported \subseteq Reported(s) /\ reported \in SUBSET Events
  BY ReportedTyped
<1>2. /\ batch' = [batch EXCEPT ![s] = reported]
      /\ batch'[s] = reported
  BY DEF IInv, TypeOK, EpollWait
<1>3. TypeOK'
  <2>1. pc' \in [Servers -> PC]
    BY DEF IInv, TypeOK, EpollWait, Goto, PC, Accepting
  <2>2. batch' \in [Servers -> SUBSET Events]
    BY <1>1, <1>2 DEF IInv, TypeOK
  <2> QED
    BY <2>1, <2>2 DEF IInv, TypeOK, EpollWait, netVars, mgrVars
<1>4. \A u \in Servers \ {s} : Alone(u)
  BY DEF IInv, TypeOK, EpollWait, Alone, Goto
<1>5. pc[s] = "poll" /\ pc'[s] = "batch" /\ ready'[s] = {}
  BY DEF IInv, TypeOK, EpollWait, Goto
<1>6. UNCHANGED <<net, fdConn, acceptor, hstate, interest, cur, quitting, clientfds>>
  BY DEF EpollWait, netVars
<1>7. ServerOK(s)'
  <2>1. EpollOK(s)'
    BY <1>5, <1>6 DEF IInv, ServerOK, EpollOK, Own
  <2>2. ~quitting[s]
    BY <1>5 DEF IInv, ServerOK, CurOK
  <2>3. BatchOK(s)'
    <3>1. \A e \in reported : e.fd # ListenFd => Own(s, e.fd)'
      BY <1>1, <1>6, ReportedTyped DEF Own
    <3>2. \A e, f \in reported : e.fd = f.fd => e = f
      BY <1>1, ReportedTyped
    <3> QED
      BY <1>2, <1>5, <1>6, <2>2, <3>1, <3>2 DEF BatchOK
  <2>4. ClientsOK(s)'
    BY <1>5, <1>6 DEF IInv, ServerOK, ClientsOK, Own
  <2>5. CurOK(s)'
    BY <1>5, <1>6, <2>2 DEF CurOK
  <2> QED
    BY <2>1, <2>3, <2>4, <2>5 DEF ServerOK
<1> QED
  BY <1>3, <1>4, <1>5, <1>6, <1>7, QuietStep

LEMMA WaitFailKeeps ==
  ASSUME IInv, NEW s \in Servers, WaitFail(s)
  PROVE  IInv'
<1>1. TypeOK'
  BY DEF IInv, TypeOK, WaitFail, WaitErrors, Goto, PC, Accepting, netVars, kernelVars
<1>2. \A u \in Servers \ {s} : Alone(u)
  BY DEF IInv, TypeOK, WaitFail, Goto, Alone, kernelVars
<1>3. /\ pc[s] = "poll" /\ pc'[s] = "quit" /\ quitting'[s]
      /\ UNCHANGED <<net, fdConn, acceptor, hstate, interest, ready, batch, cur, clientfds>>
  BY DEF IInv, TypeOK, WaitFail, Goto, netVars, kernelVars
<1>4. ~quitting[s] /\ batch[s] = {}
  BY <1>3 DEF IInv, ServerOK, CurOK, BatchOK
<1>5. ServerOK(s)'
  BY <1>3, <1>4 DEF IInv, ServerOK, EpollOK, BatchOK, ClientsOK, CurOK, Own, Accepting
<1> QED
  BY <1>1, <1>2, <1>3, <1>5, QuietStep
-----------------------------------------------------------------------------
(* The events of a batch, and acceptClients up to accept4 *)

(* What has happened when s has taken an event from its batch. *)
Taken(s, e) ==
  /\ batch' \in [Servers -> SUBSET Events] /\ batch'[s] = batch[s] \ {e}
  /\ cur' \in [Servers -> Fds \cup {ListenFd}] /\ cur'[s] = e.fd
  /\ \A u \in Servers \ {s} : batch'[u] = batch[u] /\ cur'[u] = cur[u]
  /\ e.fd # ListenFd => e.fd \in Fds /\ Own(s, e.fd)
  /\ \A f \in batch'[s] : f.fd # e.fd /\ (f.fd # ListenFd => Own(s, f.fd))
  /\ ~quitting[s]

LEMMA TakeFacts ==
  ASSUME IInv, NEW s \in Servers, NEW e \in batch[s], Take(s, e)
  PROVE  Taken(s, e)
<1>1. e.fd \in Fds \cup {ListenFd}
  BY DEF IInv, TypeOK, Events
<1>2. batch' \in [Servers -> SUBSET Events] /\ batch'[s] = batch[s] \ {e}
  BY DEF IInv, TypeOK, Take
<1>3. cur' \in [Servers -> Fds \cup {ListenFd}] /\ cur'[s] = e.fd
  BY <1>1 DEF IInv, TypeOK, Take
<1>4. \A u \in Servers \ {s} : batch'[u] = batch[u] /\ cur'[u] = cur[u]
  BY DEF IInv, TypeOK, Take
<1>5. \A f \in batch'[s] : f.fd # e.fd /\ (f.fd # ListenFd => Own(s, f.fd))
  BY <1>2 DEF IInv, ServerOK, BatchOK
<1>6. (e.fd # ListenFd => Own(s, e.fd)) /\ ~quitting[s]
  BY DEF IInv, ServerOK, BatchOK, CurOK, Take
<1> QED
  BY <1>1, <1>2, <1>3, <1>4, <1>5, <1>6 DEF Taken

LEMMA AcceptEventKeeps ==
  ASSUME IInv, NEW s \in Servers, NEW e \in batch[s], AcceptEvent(s, e)
  PROVE  IInv'
<1>1. Taken(s, e)
  BY TakeFacts DEF AcceptEvent
<1>2. /\ pc' \in [Servers -> PC] /\ pc'[s] = "accept"
      /\ \A u \in Servers \ {s} : pc'[u] = pc[u]
      /\ UNCHANGED <<net, fdConn, acceptor, hstate, interest, ready, quitting, clientfds>>
  BY DEF IInv, TypeOK, AcceptEvent, Goto, PC, Accepting, netVars, kernelVars
<1>3. TypeOK'
  BY <1>1, <1>2 DEF Taken, IInv, TypeOK, AcceptEvent, netVars, kernelVars, mgrVars
<1>4. \A u \in Servers \ {s} : Alone(u)
  BY <1>1, <1>2 DEF Alone, Taken
<1>5. ServerOK(s)'
  <2>1. EpollOK(s)' /\ CurOK(s)'
    BY <1>1, <1>2 DEF Taken, IInv, ServerOK, EpollOK, CurOK, Own
  <2>2. BatchOK(s)'
    BY <1>1, <1>2 DEF Taken, IInv, ServerOK, BatchOK, Own
  <2>3. ClientsOK(s)'
    BY <1>1, <1>2 DEF Taken, IInv, ServerOK, ClientsOK, Own
  <2> QED
    BY <2>1, <2>2, <2>3 DEF ServerOK
<1> QED
  BY <1>2, <1>3, <1>4, <1>5, QuietStep

LEMMA HangUpEventKeeps ==
  ASSUME IInv, NEW s \in Servers, NEW e \in batch[s], HangUpEvent(s, e)
  PROVE  IInv'
<1>1. Taken(s, e)
  BY TakeFacts DEF HangUpEvent
<1>2. /\ pc' \in [Servers -> PC]
      /\ pc'[s] = IF e.fd \in clientfds[s] THEN "unreg" ELSE "batch"
      /\ \A u \in Servers \ {s} : pc'[u] = pc[u] /\ clientfds'[u] = clientfds[u]
      /\ clientfds' \in [Servers -> SUBSET Fds]
      /\ clientfds'[s] = clientfds[s] \ {e.fd}
      /\ UNCHANGED <<net, fdConn, acceptor, hstate, interest, ready, quitting>>
  BY DEF IInv, TypeOK, HangUpEvent, Erase, After, Goto, PC, Accepting, netVars, kernelVars
<1>3. TypeOK'
  BY <1>1, <1>2 DEF Taken, IInv, TypeOK, HangUpEvent, netVars, kernelVars, mgrVars
<1>4. \A u \in Servers \ {s} : Alone(u)
  BY <1>1, <1>2 DEF Alone, Taken
<1>5. ServerOK(s)'
  <2>1. EpollOK(s)' /\ CurOK(s)'
    BY <1>1, <1>2 DEF Taken, IInv, ServerOK, EpollOK, CurOK, Own, HangUpEvent
  <2>2. BatchOK(s)'
    BY <1>1, <1>2 DEF Taken, IInv, ServerOK, BatchOK, Own
  <2>3. ClientsOK(s)'
    BY <1>1, <1>2 DEF Taken, IInv, ServerOK, ClientsOK, Own, HangUpEvent
  <2> QED
    BY <2>1, <2>2, <2>3 DEF ServerOK
<1> QED
  BY <1>2, <1>3, <1>4, <1>5, QuietStep

LEMMA ReadWriteEventKeeps ==
  ASSUME IInv, NEW s \in Servers, NEW e \in batch[s], ReadWriteEvent(s, e)
  PROVE  IInv'
<1>1. Taken(s, e)
  BY TakeFacts DEF ReadWriteEvent
<1>2. /\ pc' \in [Servers -> PC] /\ pc'[s] = "handle"
      /\ \A u \in Servers \ {s} : pc'[u] = pc[u]
      /\ UNCHANGED <<net, fdConn, acceptor, hstate, interest, ready, quitting, clientfds>>
  BY DEF IInv, TypeOK, ReadWriteEvent, Goto, PC, Accepting, netVars, kernelVars
<1>3. TypeOK'
  BY <1>1, <1>2 DEF Taken, IInv, TypeOK, ReadWriteEvent, netVars, kernelVars, mgrVars
<1>4. \A u \in Servers \ {s} : Alone(u)
  BY <1>1, <1>2 DEF Alone, Taken
<1>5. ServerOK(s)'
  <2>1. EpollOK(s)' /\ CurOK(s)'
    BY <1>1, <1>2 DEF Taken, IInv, ServerOK, EpollOK, CurOK, Own, ReadWriteEvent
  <2>2. BatchOK(s)'
    BY <1>1, <1>2 DEF Taken, IInv, ServerOK, BatchOK, Own
  <2>3. ClientsOK(s)'
    BY <1>1, <1>2 DEF Taken, IInv, ServerOK, ClientsOK, Own
  <2> QED
    BY <2>1, <2>2, <2>3 DEF ServerOK
<1> QED
  BY <1>2, <1>3, <1>4, <1>5, QuietStep

LEMMA AcceptEndKeeps ==
  ASSUME IInv, NEW s \in Servers, AcceptEnd(s)
  PROVE  IInv'
<1>1. /\ pc[s] \in {"accept", "accept4"} /\ pc'[s] = "batch"
      /\ UNCHANGED <<net, fdConn, acceptor, hstate, interest, ready, batch, cur, quitting,
                     clientfds>>
  BY DEF IInv, TypeOK, AcceptEnd, Goto, netVars, kernelVars
<1>2. TypeOK'
  BY DEF IInv, TypeOK, AcceptEnd, Counted, Goto, PC, Accepting, netVars, kernelVars
<1>3. \A u \in Servers \ {s} : Alone(u)
  BY <1>1 DEF IInv, TypeOK, AcceptEnd, Goto, Alone
<1>4. ServerOK(s)'
  BY <1>1 DEF IInv, ServerOK, EpollOK, BatchOK, ClientsOK, CurOK, Own, Accepting
<1> QED
  BY <1>1, <1>2, <1>3, <1>4, QuietStep

LEMMA AcceptGoOnKeeps ==
  ASSUME IInv, NEW s \in Servers, AcceptGoOn(s)
  PROVE  IInv'
<1>1. /\ pc[s] \in {"accept"} /\ pc'[s] = "accept4"
      /\ UNCHANGED <<net, fdConn, acceptor, hstate, interest, ready, batch, cur, quitting,
                     clientfds>>
  BY DEF IInv, TypeOK, AcceptGoOn, Goto, netVars, kernelVars
<1>2. TypeOK'
  BY DEF IInv, TypeOK, AcceptGoOn, Goto, PC, Accepting, netVars, kernelVars, mgrVars
<1>3. \A u \in Servers \ {s} : Alone(u)
  BY <1>1 DEF IInv, TypeOK, AcceptGoOn, Goto, Alone
<1>4. ServerOK(s)'
  BY <1>1 DEF IInv, ServerOK, EpollOK, BatchOK, ClientsOK, CurOK, Own, Accepting
<1> QED
  BY <1>1, <1>2, <1>3, <1>4, QuietStep

LEMMA AcceptFailKeeps ==
  ASSUME IInv, NEW s \in Servers, AcceptFail(s)
  PROVE  IInv'
<1>1. /\ pc[s] \in {"accept4"} /\ pc'[s] = "failed"
      /\ UNCHANGED <<net, fdConn, acceptor, hstate, interest, ready, batch, cur, quitting,
                     clientfds>>
  BY DEF IInv, TypeOK, AcceptFail, Goto, netVars, kernelVars
<1>2. TypeOK'
  BY DEF IInv, TypeOK, AcceptFail, Goto, PC, Accepting, netVars, kernelVars, mgrVars
<1>3. \A u \in Servers \ {s} : Alone(u)
  BY <1>1 DEF IInv, TypeOK, AcceptFail, Goto, Alone
<1>4. ServerOK(s)'
  BY <1>1 DEF IInv, ServerOK, EpollOK, BatchOK, ClientsOK, CurOK, Own, Accepting
<1> QED
  BY <1>1, <1>2, <1>3, <1>4, QuietStep

LEMMA AcceptAgainKeeps ==
  ASSUME IInv, NEW s \in Servers, AcceptAgain(s)
  PROVE  IInv'
<1>1. /\ pc[s] \in {"failed", "accept4"} /\ pc'[s] = "accept"
      /\ UNCHANGED <<net, fdConn, acceptor, hstate, interest, ready, batch, cur, quitting,
                     clientfds>>
  BY DEF IInv, TypeOK, AcceptAgain, Goto, netVars, kernelVars
<1>2. TypeOK'
  BY DEF IInv, TypeOK, AcceptAgain, Goto, PC, Accepting, netVars, kernelVars, mgrVars
<1>3. \A u \in Servers \ {s} : Alone(u)
  BY <1>1 DEF IInv, TypeOK, AcceptAgain, Goto, Alone
<1>4. ServerOK(s)'
  BY <1>1 DEF IInv, ServerOK, EpollOK, BatchOK, ClientsOK, CurOK, Own, Accepting
<1> QED
  BY <1>1, <1>2, <1>3, <1>4, QuietStep

(* A connection that is given up in the backlog is no descriptor's. *)
LEMMA AcceptAbortedKeeps ==
  ASSUME IInv, NEW s \in Servers, NEW c \in Conns, AcceptAborted(s, c)
  PROVE  IInv'
<1>1. /\ pc[s] = "accept4" /\ pc'[s] = "failed"
      /\ UNCHANGED <<fdConn, acceptor, hstate, interest, ready, batch, cur, quitting,
                     clientfds>>
  BY DEF IInv, TypeOK, AcceptAborted, Goto, kernelVars
<1>2. TypeOK'
  BY BufferSizeAssumption
    DEF IInv, TypeOK, AcceptAborted, Goto, PC, Accepting, kernelVars, mgrVars
<1>3. \A u \in Servers \ {s} : Alone(u)
  BY <1>1 DEF IInv, TypeOK, AcceptAborted, Goto, Alone
<1>4. ServerOK(s)'
  BY <1>1 DEF IInv, ServerOK, EpollOK, BatchOK, ClientsOK, CurOK, Own, Accepting
<1>5. \A u \in Servers \ {s} : ServerOK(u)'
  BY <1>1, <1>3, AloneKeepsServer DEF IInv, Own
<1>6. ConnOK'
  <2>1. \A d \in Conns : net[d] = "open" => net'[d] = "open"
    BY DEF AcceptAborted, Backlog, IInv, TypeOK
  <2> QED
    BY <1>1, <2>1 DEF IInv, ConnOK, TypeOK
<1>7. HandlerStateIsCurrent' /\ ForgottenOK'
  BY <1>1, <1>3 DEF IInv, HandlerStateIsCurrent, ForgottenOK, Alone
<1> QED
  BY <1>2, <1>4, <1>5, <1>6, <1>7 DEF IInv
-----------------------------------------------------------------------------
(* purgeFd, but for the close, and the end of run *)

LEMMA PurgeKeeps ==
  ASSUME IInv, NEW s \in Servers, Purge(s)
  PROVE  IInv'
<1>1. cur'[s] \in LeftToPurge(s)
  BY NextToPurge DEF IInv
<1>2. /\ pc[s] = "quit" /\ pc'[s] = "unreg"
      /\ UNCHANGED <<net, fdConn, acceptor, hstate, interest, ready, batch, quitting,
                     clientfds>>
  BY DEF IInv, TypeOK, Purge, After, Goto, netVars, kernelVars
<1>3. cur' \in [Servers -> Fds \cup {ListenFd}] /\ \A u \in Servers \ {s} : cur'[u] = cur[u]
  <2>1. LeftToPurge(s) \subseteq Fds
    BY DEF IInv, TypeOK, LeftToPurge
  <2>2. cur' = [cur EXCEPT ![s] = cur'[s]]
    BY DEF Purge, IInv, TypeOK
  <2> QED
    BY <1>1, <2>1, <2>2 DEF IInv, TypeOK
<1>4. TypeOK'
  BY <1>3 DEF IInv, TypeOK, Purge, After, Goto, PC, Accepting, netVars, kernelVars, mgrVars
<1>5. \A u \in Servers \ {s} : Alone(u)
  BY <1>2, <1>3 DEF IInv, TypeOK, Purge, Goto, Alone
<1>6. quitting[s] /\ batch[s] = {}
  BY <1>2 DEF IInv, ServerOK, CurOK, BatchOK
<1>7. /\ cur'[s] \in clientfds[s] /\ cur'[s] > cur[s]
      /\ cur'[s] \in Nat \ {0} /\ cur[s] \in Nat /\ clientfds[s] \subseteq Nat
  BY <1>1, <1>3, FdLimitAssumption DEF LeftToPurge, IInv, TypeOK, Fds, ListenFd
<1>8. ServerOK(s)'
  <2>1. EpollOK(s)' /\ BatchOK(s)'
    BY <1>2, <1>6 DEF IInv, ServerOK, EpollOK, BatchOK, Own
  <2>2. ClientsOK(s)'
    BY <1>2, <1>6, <1>7 DEF IInv, ServerOK, ClientsOK, Own
  <2>3. CurOK(s)'
    BY <1>2, <1>6, <1>7 DEF IInv, ServerOK, ClientsOK, CurOK, Own, ListenFd, Accepting
  <2> QED
    BY <2>1, <2>2, <2>3 DEF ServerOK
<1> QED
  BY <1>2, <1>4, <1>5, <1>8, QuietStep

LEMMA DoneKeeps ==
  ASSUME IInv, NEW s \in Servers, Done(s)
  PROVE  IInv'
<1>1. /\ pc[s] = "quit" /\ pc'[s] = "done"
      /\ interest'[s] = {} /\ ready'[s] = {} /\ clientfds'[s] = {}
      /\ UNCHANGED <<net, fdConn, acceptor, hstate, batch, quitting>>
  BY DEF IInv, TypeOK, Done, Goto, netVars
<1>2. TypeOK'
  BY DEF IInv, TypeOK, Done, Goto, PC, Accepting, netVars, mgrVars
<1>3. \A u \in Servers \ {s} : Alone(u)
  BY DEF IInv, TypeOK, Done, Goto, Alone
<1>4. ServerOK(s)'
  BY <1>1 DEF IInv, ServerOK, EpollOK, BatchOK, ClientsOK, CurOK, Own, Accepting
<1> QED
  BY <1>1, <1>2, <1>3, <1>4, QuietStep

LEMMA UnregisterKeeps ==
  ASSUME IInv, NEW s \in Servers, Unregister(s)
  PROVE  IInv'
<1>1. pc[s] = "unreg" /\ cur[s] \in Fds
  BY DEF IInv, TypeOK, ServerOK, CurOK, Unregister
<1>2. /\ pc' \in [Servers -> PC] /\ pc'[s] = "close"
      /\ \A u \in Servers \ {s} : pc'[u] = pc[u]
      /\ UNCHANGED <<net, fdConn, acceptor, batch, cur, quitting, clientfds>>
  BY DEF IInv, TypeOK, Unregister, Leave, After, Goto, PC, Accepting, netVars
<1>3. TypeOK'
  BY <1>1, <1>2 DEF IInv, TypeOK, Unregister, netVars, mgrVars
<1>4. \A u \in Servers \ {s} : Alone(u)
  BY <1>2 DEF IInv, TypeOK, Unregister, Alone
<1>5. ServerOK(s)'
  <2>1. interest'[s] \subseteq interest[s] /\ ready'[s] \subseteq ready[s]
    BY DEF IInv, TypeOK, Unregister
  <2>2. EpollOK(s)' /\ CurOK(s)'
    BY <1>1, <1>2, <2>1 DEF IInv, ServerOK, EpollOK, CurOK, Own, Accepting
  <2>3. BatchOK(s)' /\ ClientsOK(s)'
    BY <1>1, <1>2 DEF IInv, ServerOK, BatchOK, ClientsOK, Own
  <2> QED
    BY <2>2, <2>3 DEF ServerOK
<1>6. hstate' = [hstate EXCEPT ![cur[s]] = NoConn]
  BY DEF Unregister
<1>7. HandlerStateIsCurrent'
  BY <1>1, <1>2, <1>6 DEF IInv, TypeOK, HandlerStateIsCurrent
<1>8. ForgottenOK'
  <2>1. hstate'[cur[s]] = NoConn
    BY <1>1, <1>6 DEF IInv, TypeOK
  <2>2. ASSUME NEW u \in Servers \ {s}, pc[u] = "close" PROVE hstate'[cur[u]] = NoConn
    <3>1. cur[u] \in Fds /\ hstate[cur[u]] = NoConn
      BY <2>2 DEF IInv, TypeOK, ServerOK, CurOK, ForgottenOK
    <3> QED
      BY <3>1, <1>1, <1>6 DEF IInv, TypeOK
  <2> QED
    BY <1>2, <2>1, <2>2 DEF ForgottenOK
<1> QED
  BY <1>2, <1>3, <1>4, <1>5, <1>7, <1>8, OwnStep
-----------------------------------------------------------------------------
(* workFd *)

LEMMA HandleKeeps ==
  ASSUME IInv, NEW s \in Servers, NEW failed \in BOOLEAN, Handle(s, failed)
  PROVE  IInv'
<1>1. /\ pc[s] = "handle" /\ cur[s] \in Fds /\ Own(s, cur[s])
      /\ fdConn[cur[s]] \in Conns /\ ~quitting[s]
  BY DEF IInv, TypeOK, ServerOK, CurOK, Handle, Own
<1>2. UNCHANGED <<net, hup, fdConn, acceptor, interest, ready, batch, quitting>>
  BY DEF Handle, kernelVars
<1>3. \/ /\ pc' = [pc EXCEPT ![s] = "unreg"] /\ cur' = cur
         /\ clientfds' = [clientfds EXCEPT ![s] = @ \ {cur[s]}]
      \/ /\ pc' = [pc EXCEPT ![s] = "batch"] /\ cur' = [cur EXCEPT ![s] = ListenFd]
         /\ clientfds' = clientfds
  BY DEF Handle, Erase, Back, Goto, After
<1>4. hstate' = [hstate EXCEPT ![cur[s]] = IF @ = NoConn THEN fdConn[cur[s]] ELSE @]
  BY DEF Handle
<1>5. TypeOK'
  <2>1. hstate' \in [Fds -> Conns \cup {NoConn}]
    BY <1>1, <1>4 DEF IInv, TypeOK
  <2>2. unread' \in [Conns -> 0..BufferSize]
    BY BufferSizeAssumption DEF IInv, TypeOK, Handle
  <2>3. /\ pc' \in [Servers -> PC] /\ cur' \in [Servers -> Fds \cup {ListenFd}]
        /\ clientfds' \in [Servers -> SUBSET Fds]
    BY <1>3 DEF IInv, TypeOK, PC, Accepting
  <2> QED
    BY <1>2, <2>1, <2>2, <2>3 DEF IInv, TypeOK, Handle, mgrVars
<1>6. \A u \in Servers \ {s} : Alone(u)
  BY <1>2, <1>3 DEF IInv, TypeOK, Alone
<1>7. ServerOK(s)'
  <2>1. CASE /\ pc'[s] = "unreg" /\ cur'[s] = cur[s]
             /\ clientfds'[s] = clientfds[s] \ {cur[s]}
    BY <1>1, <1>2, <2>1 DEF IInv, ServerOK, EpollOK, BatchOK, ClientsOK, CurOK, Own, Accepting
  <2>2. CASE pc'[s] = "batch" /\ clientfds'[s] = clientfds[s]
    BY <1>1, <1>2, <2>2 DEF IInv, ServerOK, EpollOK, BatchOK, ClientsOK, CurOK, Own
  <2> QED
    BY <1>3, <2>1, <2>2 DEF IInv, TypeOK
<1>8. HandlerStateIsCurrent'
  BY <1>1, <1>2, <1>4 DEF IInv, TypeOK, HandlerStateIsCurrent
<1>9. ForgottenOK'
  <2>1. ASSUME NEW u \in Servers \ {s}, pc[u] = "close"
        PROVE  cur'[u] = cur[u] /\ hstate'[cur[u]] = NoConn
    <3>1. cur[u] \in Fds /\ Own(u, cur[u]) /\ hstate[cur[u]] = NoConn
      BY <2>1 DEF IInv, TypeOK, ServerOK, CurOK, ForgottenOK
    <3>2. cur[u] # cur[s]
      BY <1>1, <3>1, OneOwner
    <3> QED
      BY <1>1, <1>4, <1>6, <3>1, <3>2 DEF IInv, TypeOK, Alone
  <2>2. pc'[s] # "close" /\ \A u \in Servers \ {s} : pc'[u] = pc[u]
    BY <1>3 DEF IInv, TypeOK
  <2> QED
    BY <2>1, <2>2 DEF ForgottenOK
<1> QED
  BY <1>2, <1>5, <1>6, <1>7, <1>8, <1>9, OwnStep
-----------------------------------------------------------------------------
(* accept4 and close *)

(* accept4 takes a descriptor from nobody, and gives s one that is its own. *)
LEMMA Accept4Facts ==
  ASSUME IInv, NEW s \in Servers, NEW c \in Conns, Accept4(s, c)
  PROVE  /\ LowestFree \in Fds /\ fdConn[LowestFree] = NoConn
         /\ fdConn' \in [Fds -> Conns \cup {NoConn}]
         /\ net' \in [Conns -> {"new", "backlog", "open", "gone"}]
         /\ acceptor' \in [Conns -> SUBSET Servers]
         /\ \A u \in Servers, fd \in Fds : Own(u, fd) => Own(u, fd)'
         /\ \A fd \in Fds : fd = LowestFree => Own(s, fd)'
         /\ ConnOK'
<1>1. LowestFree \in Fds /\ fdConn[LowestFree] = NoConn
  BY LowestFreeIsFree DEF Accept4, FreeFds
<1>2. PICK new \in Fds : new = LowestFree
  BY <1>1
<1>3. /\ fdConn' = [fdConn EXCEPT ![new] = c]
      /\ net' = [net EXCEPT ![c] = "open"]
      /\ acceptor' = [acceptor EXCEPT ![c] = {s}]
      /\ net[c] = "backlog" /\ c # NoConn
  BY <1>2, NoConnAssumption DEF Accept4, Backlog
<1>4. new \in Fds /\ fdConn[new] = NoConn
  BY <1>1, <1>2
<1>5. /\ fdConn' \in [Fds -> Conns \cup {NoConn}]
      /\ net' \in [Conns -> {"new", "backlog", "open", "gone"}]
      /\ acceptor' \in [Conns -> SUBSET Servers]
  BY <1>3, <1>4 DEF IInv, TypeOK
<1>6. ASSUME NEW fd \in Fds, fdConn[fd] # NoConn
      PROVE  /\ fd # new /\ fdConn[fd] # c /\ fdConn[fd] \in Conns /\ net[fdConn[fd]] = "open"
             /\ fdConn'[fd] = fdConn[fd] /\ acceptor'[fdConn[fd]] = acceptor[fdConn[fd]]
             /\ net'[fdConn[fd]] = "open"
  <2>1. fd # new /\ fdConn[fd] \in Conns /\ net[fdConn[fd]] = "open"
    BY <1>4, <1>6 DEF IInv, TypeOK, ConnOK
  <2>2. fdConn[fd] # c
    BY <1>3, <2>1
  <2> QED
    BY <1>3, <2>1, <2>2 DEF IInv, TypeOK
<1>7. fdConn'[new] = c /\ net'[c] = "open" /\ acceptor'[c] = {s}
  BY <1>3, <1>4 DEF IInv, TypeOK
<1>8. \A u \in Servers, fd \in Fds : Own(u, fd) => Own(u, fd)'
  BY <1>6 DEF Own
<1>9. Own(s, new)'
  BY <1>3, <1>7 DEF Own
<1>10. ConnOK'
  <2>1. ASSUME NEW fd \in Fds, fdConn'[fd] # NoConn
        PROVE  fd = new \/ fdConn[fd] # NoConn
    BY <1>3, <2>1 DEF IInv, TypeOK
  <2>2. ASSUME NEW fd \in Fds, fdConn'[fd] # NoConn PROVE net'[fdConn'[fd]] = "open"
    BY <1>6, <1>7, <2>1, <2>2
  <2>3. ASSUME NEW fd \in Fds, NEW g \in Fds, fdConn'[fd] # NoConn, fdConn'[g] = fdConn'[fd]
        PROVE  g = fd
    BY <1>6, <1>7, <2>1, <2>3 DEF IInv, ConnOK
  <2> QED
    BY <2>2, <2>3 DEF ConnOK
<1> QED
  BY <1>1, <1>2, <1>5, <1>8, <1>9, <1>10

LEMMA Accept4Keeps ==
  ASSUME IInv, NEW s \in Servers, NEW c \in Conns, Accept4(s, c)
  PROVE  IInv'
<1>1. PICK new \in Fds : new = LowestFree
  BY Accept4Facts
<1>2. /\ new \in Fds /\ fdConn[new] = NoConn
      /\ \A u \in Servers, fd \in Fds : Own(u, fd) => Own(u, fd)'
      /\ Own(s, new)' /\ ConnOK'
  BY <1>1, Accept4Facts
<1>3. /\ cur' = [cur EXCEPT ![s] = new] /\ pc' = [pc EXCEPT ![s] = "add"]
      /\ UNCHANGED <<hstate, batch, quitting, interest, ready, clientfds>> /\ pc[s] = "accept4"
  BY <1>1 DEF Accept4, Goto
<1>4. TypeOK'
  <2>1. cur' \in [Servers -> Fds \cup {ListenFd}] /\ pc' \in [Servers -> PC]
    BY <1>2, <1>3 DEF IInv, TypeOK, PC, Accepting
  <2> QED
    BY <2>1, Accept4Facts DEF IInv, TypeOK, Accept4, mgrVars
<1>5. \A u \in Servers \ {s} : ServerOK(u)'
  <2>1. \A u \in Servers \ {s} : Alone(u)
    BY <1>3 DEF IInv, TypeOK, Alone
  <2> QED
    BY <1>2, <2>1, AloneKeepsServer DEF IInv
<1>6. ServerOK(s)'
  <2>1. pc'[s] = "add" /\ cur'[s] = new /\ ~quitting[s]
    BY <1>3 DEF IInv, TypeOK, ServerOK, CurOK, Accepting
  <2>2. EpollOK(s)'
    BY <1>2, <1>3 DEF IInv, TypeOK, ServerOK, EpollOK
  <2>3. BatchOK(s)'
    <3>1. \A e \in batch[s] : e.fd \in Fds \cup {ListenFd}
      BY DEF IInv, TypeOK, Events
    <3> QED
      BY <1>2, <1>3, <2>1, <3>1 DEF IInv, ServerOK, BatchOK
  <2>4. ClientsOK(s)'
    BY <1>2, <1>3, <2>1 DEF IInv, TypeOK, ServerOK, ClientsOK
  <2>5. CurOK(s)'
    BY <1>2, <1>3, <2>1, FdLimitAssumption DEF CurOK, Fds, ListenFd
  <2> QED
    BY <2>2, <2>3, <2>4, <2>5 DEF ServerOK
<1>7. HandlerStateIsCurrent'
  <2>1. \A fd \in Fds : fdConn[fd] # NoConn => fdConn'[fd] = fdConn[fd]
    BY <1>1, <1>2 DEF Accept4, IInv, TypeOK
  <2> QED
    BY <1>2, <1>3, <2>1 DEF IInv, HandlerStateIsCurrent
<1>8. ForgottenOK'
  BY <1>3 DEF IInv, TypeOK, ForgottenOK
<1> QED
  BY <1>2, <1>4, <1>5, <1>6, <1>7, <1>8 DEF IInv

(* Who is about to add a descriptor is past its loop's test. *)
LEMMA AddingFacts ==
  ASSUME IInv, NEW s \in Servers, pc[s] = "add", NextAccept(s)
  PROVE  /\ cur[s] \in Fds /\ Own(s, cur[s]) /\ ~quitting[s]
         /\ pc' \in [Servers -> PC] /\ pc'[s] = "accept"
         /\ cur' \in [Servers -> Fds \cup {ListenFd}] /\ cur'[s] = ListenFd
         /\ \A u \in Servers \ {s} : pc'[u] = pc[u] /\ cur'[u] = cur[u]
<1>1. cur[s] \in Fds /\ Own(s, cur[s]) /\ ~quitting[s]
  BY DEF IInv, TypeOK, ServerOK, CurOK, Accepting
<1> QED
  BY <1>1 DEF IInv, TypeOK, NextAccept, Goto, PC, Accepting

LEMMA AddedKeeps ==
  ASSUME IInv, NEW s \in Servers, Added(s)
  PROVE  IInv'
<1> DEFINE new == cur[s]
<1>1. /\ pc[s] = "add" /\ new \in Fds /\ Own(s, new) /\ ~quitting[s]
      /\ pc' \in [Servers -> PC] /\ pc'[s] = "accept"
      /\ cur' \in [Servers -> Fds \cup {ListenFd}] /\ cur'[s] = ListenFd
      /\ \A u \in Servers \ {s} : pc'[u] = pc[u] /\ cur'[u] = cur[u]
  BY AddingFacts DEF Added
<1>2. /\ interest' = [interest EXCEPT ![s] = @ \cup {new}]
      /\ ready' = [ready EXCEPT ![s] = @ \cup {new}]
      /\ clientfds' = [clientfds EXCEPT ![s] = @ \cup {new}]
      /\ UNCHANGED <<net, fdConn, acceptor, hstate, batch, quitting>>
  BY DEF Added, Insert, netVars
<1> HIDE DEF new
<1>3. TypeOK'
  <2>1. /\ interest' \in [Servers -> SUBSET (Fds \cup {ListenFd})]
        /\ ready' \in [Servers -> SUBSET (Fds \cup {ListenFd})]
        /\ clientfds' \in [Servers -> SUBSET Fds]
    BY <1>1, <1>2 DEF IInv, TypeOK
  <2> QED
    BY <1>1, <2>1 DEF IInv, TypeOK, Added, netVars, mgrVars
<1>4. \A u \in Servers \ {s} : Alone(u)
  BY <1>1, <1>2 DEF IInv, TypeOK, Alone
<1>5. ServerOK(s)'
  <2>1. /\ interest'[s] = interest[s] \cup {new} /\ ready'[s] = ready[s] \cup {new}
        /\ clientfds'[s] = clientfds[s] \cup {new}
    BY <1>2 DEF IInv, TypeOK
  <2>2. EpollOK(s)' /\ BatchOK(s)'
    BY <1>1, <1>2, <2>1 DEF IInv, ServerOK, EpollOK, BatchOK, Own
  <2>3. ClientsOK(s)' /\ CurOK(s)'
    BY <1>1, <1>2, <2>1 DEF IInv, ServerOK, ClientsOK, CurOK, Own
  <2> QED
    BY <2>2, <2>3 DEF ServerOK
<1> QED
  BY <1>1, <1>2, <1>3, <1>4, <1>5, QuietStep

LEMMA NotAddedKeeps ==
  ASSUME IInv, NEW s \in Servers, NotAdded(s)
  PROVE  IInv'
<1>1. /\ pc[s] = "add" /\ ~quitting[s]
      /\ pc' \in [Servers -> PC] /\ pc'[s] = "accept"
      /\ cur' \in [Servers -> Fds \cup {ListenFd}] /\ cur'[s] = ListenFd
      /\ \A u \in Servers \ {s} : pc'[u] = pc[u] /\ cur'[u] = cur[u]
  BY AddingFacts DEF NotAdded
<1>2. UNCHANGED <<net, fdConn, acceptor, hstate, interest, ready, batch, quitting, clientfds>>
  BY DEF NotAdded, netVars, kernelVars
<1>3. TypeOK'
  BY <1>1 DEF IInv, TypeOK, NotAdded, netVars, kernelVars, mgrVars
<1>4. \A u \in Servers \ {s} : Alone(u)
  BY <1>1, <1>2 DEF Alone
<1>5. ServerOK(s)'
  BY <1>1, <1>2 DEF IInv, ServerOK, EpollOK, BatchOK, ClientsOK, CurOK, Own
<1> QED
  BY <1>1, <1>2, <1>3, <1>4, <1>5, QuietStep

LEMMA CloseFdKeeps ==
  ASSUME IInv, NEW s \in Servers, CloseFd(s)
  PROVE  IInv'
<1> DEFINE old == cur[s]
           c == fdConn[old]
<1>1. /\ pc[s] = "close" /\ old \in Fds /\ Own(s, old) /\ hstate[old] = NoConn
      /\ c \in Conns
  BY DEF IInv, TypeOK, ServerOK, CurOK, ForgottenOK, CloseFd, Own
<1>2. /\ fdConn' = [fdConn EXCEPT ![old] = NoConn]
      /\ net' = [d \in Conns |-> IF d = c THEN "gone" ELSE net[d]]
      /\ interest' = [u \in Servers |-> interest[u] \ {old}]
      /\ ready' = [u \in Servers |-> ready[u] \ {old}]
      /\ acceptor' = [d \in Conns |-> IF d = c THEN {} ELSE acceptor[d]]
      /\ UNCHANGED <<hstate, batch, quitting, clientfds>>
  BY DEF CloseFd
<1>3. \/ pc' = [pc EXCEPT ![s] = "quit"] /\ cur' = cur /\ quitting[s]
      \/ /\ pc' = [pc EXCEPT ![s] = "batch"] /\ cur' = [cur EXCEPT ![s] = ListenFd]
         /\ ~quitting[s]
  BY DEF CloseFd, Leave, After, Back, Goto
<1> HIDE DEF old, c
<1>4. TypeOK'
  <2>1. /\ pc' \in [Servers -> PC] /\ cur' \in [Servers -> Fds \cup {ListenFd}]
    BY <1>3 DEF IInv, TypeOK, PC, Accepting
  <2>2. unread' \in [Conns -> 0..BufferSize]
    BY BufferSizeAssumption DEF IInv, TypeOK, CloseFd
  <2>3. hup' \in [Conns -> BOOLEAN]
    BY DEF IInv, TypeOK, CloseFd
  <2>4. UNCHANGED <<closing, hasErrors, err>>
    BY DEF CloseFd, mgrVars
  <2>5. /\ fdConn' \in [Fds -> Conns \cup {NoConn}]
        /\ net' \in [Conns -> {"new", "backlog", "open", "gone"}]
    BY <1>1, <1>2 DEF IInv, TypeOK
  <2>6. /\ interest' \in [Servers -> SUBSET (Fds \cup {ListenFd})]
        /\ ready' \in [Servers -> SUBSET (Fds \cup {ListenFd})]
        /\ acceptor' \in [Conns -> SUBSET Servers]
    BY <1>2 DEF IInv, TypeOK
  <2> QED
    BY <1>2, <2>1, <2>2, <2>5, <2>6, <2>3, <2>4 DEF IInv, TypeOK
<1>5. \A fd \in Fds \ {old} :
        /\ fdConn'[fd] = fdConn[fd]
        /\ \A u \in Servers : Own(u, fd) => Own(u, fd)'
  <2> SUFFICES ASSUME NEW fd \in Fds \ {old}
               PROVE  /\ fdConn'[fd] = fdConn[fd]
                      /\ \A u \in Servers : Own(u, fd) => Own(u, fd)'
    OBVIOUS
  <2>1. fdConn'[fd] = fdConn[fd]
    BY <1>1, <1>2 DEF IInv, TypeOK
  <2>2. fdConn[fd] # NoConn => fdConn[fd] \in Conns \ {c}
    BY <1>1 DEF IInv, TypeOK, ConnOK, Own, c
  <2> QED
    BY <1>2, <2>1, <2>2 DEF Own
<1>6. ConnOK'
  <2>1. fdConn'[old] = NoConn
    BY <1>1, <1>2 DEF IInv, TypeOK
  <2>2. ASSUME NEW fd \in Fds, fdConn'[fd] # NoConn
        PROVE  fd # old /\ fdConn'[fd] = fdConn[fd] /\ fdConn[fd] \in Conns
    BY <1>5, <2>1, <2>2 DEF IInv, TypeOK
  <2>3. ASSUME NEW fd \in Fds, fdConn'[fd] # NoConn
        PROVE  net'[fdConn'[fd]] = "open"
    <3>1. fdConn[fd] # c
      BY <1>1, <2>2, <2>3 DEF IInv, ConnOK, Own, c
    <3> QED
      BY <1>2, <2>2, <2>3, <3>1 DEF IInv, ConnOK
  <2>4. ASSUME NEW fd \in Fds, NEW g \in Fds, fdConn'[fd] # NoConn, fdConn'[g] = fdConn'[fd]
        PROVE  g = fd
    BY <2>2, <2>4 DEF IInv, ConnOK
  <2> QED
    BY <2>3, <2>4 DEF ConnOK
<1>7. \A u \in Servers \ {s} : ServerOK(u)'
  <2> SUFFICES ASSUME NEW u \in Servers \ {s} PROVE ServerOK(u)'
    OBVIOUS
  <2>1. /\ interest'[u] \subseteq interest[u] /\ ready'[u] \subseteq ready[u]
        /\ pc'[u] = pc[u] /\ cur'[u] = cur[u]
    BY <1>2, <1>3 DEF IInv, TypeOK
  <2>2. Alone(u)
    BY <1>2, <2>1 DEF Alone
  <2>3. \A fd \in Fds : Own(u, fd) => Own(u, fd)'
    BY <1>1, <1>5, OneOwner
  <2> QED
    BY <2>2, <2>3, AloneKeepsServer DEF IInv
<1>8. ServerOK(s)'
  <2>1. /\ \A fd \in interest'[s] \cup ready'[s] : fd # old /\ fd \in interest[s] \cup ready[s]
        /\ interest'[s] \cup ready'[s] \subseteq Fds \cup {ListenFd}
    BY <1>2 DEF IInv, TypeOK
  <2>2. EpollOK(s)'
    BY <1>5, <2>1 DEF IInv, ServerOK, EpollOK
  <2>3. \A e \in batch[s] : e.fd # ListenFd => e.fd \in Fds \ {old} /\ Own(s, e.fd)
    BY <1>1 DEF IInv, TypeOK, Events, ServerOK, BatchOK, old
  <2>4. BatchOK(s)'
    BY <1>2, <1>3, <1>5, <2>3 DEF IInv, TypeOK, ServerOK, BatchOK
  <2>5. \A fd \in clientfds[s] :
          (quitting[s] => fd > cur[s]) => fd \in Fds \ {old} /\ Own(s, fd)
    BY <1>1 DEF IInv, TypeOK, ServerOK, ClientsOK, old
  <2>6. ClientsOK(s)'
    BY <1>2, <1>3, <1>5, <2>5 DEF IInv, TypeOK, ClientsOK
  <2>7. CurOK(s)'
    BY <1>2, <1>3 DEF IInv, TypeOK, CurOK, Accepting
  <2> QED
    BY <2>2, <2>4, <2>6, <2>7 DEF ServerOK
<1>9. HandlerStateIsCurrent'
  BY <1>1, <1>2, <1>5 DEF IInv, HandlerStateIsCurrent
<1>10. ForgottenOK'
  BY <1>2, <1>3 DEF IInv, TypeOK, ForgottenOK
<1> QED
  BY <1>4, <1>6, <1>7, <1>8, <1>9, <1>10 DEF IInv
-----------------------------------------------------------------------------
LEMMA InitIInv == Init => IInv
<1> SUFFICES ASSUME Init PROVE IInv
  OBVIOUS
<1>1. TypeOK
  <2>1. unread \in [Conns -> 0..BufferSize]
    BY BufferSizeAssumption DEF Init
  <2>2. /\ fdConn \in [Fds -> Conns \cup {NoConn}] /\ hstate \in [Fds -> Conns \cup {NoConn}]
        /\ net \in [Conns -> {"new", "backlog", "open", "gone"}] /\ pc \in [Servers -> PC]
    BY DEF Init, PC, Accepting
  <2>3. /\ hup \in [Conns -> BOOLEAN] /\ err \in [Servers -> BOOLEAN]
        /\ quitting \in [Servers -> BOOLEAN] /\ closing \in BOOLEAN /\ hasErrors \in BOOLEAN
    BY DEF Init
  <2>4. /\ interest \in [Servers -> SUBSET (Fds \cup {ListenFd})]
        /\ ready \in [Servers -> SUBSET (Fds \cup {ListenFd})]
        /\ clientfds \in [Servers -> SUBSET Fds] /\ batch \in [Servers -> SUBSET Events]
        /\ acceptor \in [Conns -> SUBSET Servers] /\ cur \in [Servers -> Fds \cup {ListenFd}]
    BY DEF Init
  <2> QED
    BY <2>1, <2>2, <2>3, <2>4 DEF TypeOK
<1>2. \A s \in Servers : ServerOK(s)
  BY DEF Init, ServerOK, EpollOK, BatchOK, ClientsOK, CurOK
<1>3. ConnOK /\ HandlerStateIsCurrent /\ ForgottenOK
  BY DEF Init, ConnOK, HandlerStateIsCurrent, ForgottenOK
<1> QED
  BY <1>1, <1>2, <1>3 DEF IInv

LEMMA NextKeepsIInv == IInv /\ [Next]_vars => IInv'
<1> SUFFICES ASSUME IInv, [Next]_vars PROVE IInv'
  OBVIOUS
<1>1. ASSUME NEW s \in Servers, ServerStep(s) PROVE IInv'
  <2>1. ASSUME NEW e \in batch[s],
               AcceptEvent(s, e) \/ HangUpEvent(s, e) \/ ReadWriteEvent(s, e)
        PROVE  IInv'
    BY <2>1, AcceptEventKeeps, HangUpEventKeeps, ReadWriteEventKeeps
  <2>2. ASSUME NEW failed \in BOOLEAN, Handle(s, failed) PROVE IInv'
    BY <2>2, HandleKeeps
  <2>3. ASSUME NEW c \in Conns, Accept4(s, c) \/ AcceptAborted(s, c) PROVE IInv'
    BY <2>3, Accept4Keeps, AcceptAbortedKeeps
  <2>4. CASE Start(s) \/ StartDeaf(s) \/ EpollWait(s) \/ NoEvents(s) \/ WaitFail(s)
    BY <2>4, StartKeeps, StartDeafKeeps, EpollWaitKeeps, NoEventsKeeps, WaitFailKeeps
  <2>5. CASE NextBatch(s) \/ AcceptEnd(s) \/ AcceptGoOn(s) \/ AcceptFail(s) \/ AcceptAgain(s)
    BY <2>5, NextBatchKeeps, AcceptEndKeeps, AcceptGoOnKeeps, AcceptFailKeeps, AcceptAgainKeeps
  <2>6. CASE Unregister(s) \/ CloseFd(s) \/ Purge(s) \/ Done(s)
    BY <2>6, UnregisterKeeps, CloseFdKeeps, PurgeKeeps, DoneKeeps
  <2>7. CASE Added(s) \/ NotAdded(s)
    BY <2>7, AddedKeeps, NotAddedKeeps
  <2> QED
    BY <1>1, <2>1, <2>2, <2>3, <2>4, <2>5, <2>6, <2>7 DEF ServerStep
<1>2. ASSUME NEW c \in Conns, ClientStep(c) PROVE IInv'
  BY <1>2, ConnectKeeps, SendKeeps, HangUpKeeps DEF ClientStep
<1>3. CASE Stop
  BY <1>3, StopKeeps
<1>4. CASE UNCHANGED vars
  BY <1>4, StutterKeeps
<1> QED
  BY <1>1, <1>2, <1>3, <1>4 DEF Next, Finished

LEMMA Invariance == Spec => []IInv
  BY InitIInv, NextKeepsIInv, PTL DEF Spec

(* The variables of the loops, the kernel and the Handler keep their types: *)
(* epoll never reports a descriptor that no connection is behind.           *)
THEOREM Typing == Spec => []TypeOK
<1>1. IInv => TypeOK
  BY DEF IInv
<1> QED
  BY <1>1, Invariance, PTL

(* Servers that accept from one socket and draw their descriptors from one *)
(* table never work on each other's, however often a number is used again:  *)
(* no event of a batch outlives its descriptor.                             *)
THEOREM OwnDescriptors == Spec => []TouchesOwn
<1>1. IInv => TouchesOwn
  BY DEF IInv, ServerOK, CurOK, TouchesOwn, Own
<1> QED
  BY <1>1, Invariance, PTL

(* A Handler that all Servers share may keep its state by descriptor:      *)
(* purgeFd makes it forget a number before the number can be given again.   *)
THEOREM HandlerCurrent == Spec => []HandlerStateIsCurrent
<1>1. IInv => HandlerStateIsCurrent
  BY DEF IInv
<1> QED
  BY <1>1, Invariance, PTL
-----------------------------------------------------------------------------
(* hasServerErrors tells of all that went wrong. *)

(* s still has to serve or to close the connection: the iterator at the end *)
(* of run has not passed its descriptor.                                    *)
Kept(s, fd) ==
  \/ fd \in clientfds[s] /\ (quitting[s] => fd > cur[s])
  \/ cur[s] = fd /\ pc[s] \in {"add", "unreg", "close"}

(* An open connection is that of some Server. *)
Owned == \A fd \in Fds : fdConn[fd] # NoConn => \E s \in Servers : Own(s, fd)

(* s keeps all of its connections but those that it could not add, and has *)
(* counted these, or will when acceptClients returns.                      *)
LeaksCounted(s) ==
  \A fd \in Fds : Own(s, fd) /\ ~Kept(s, fd) =>
    AddMayFail /\ (hasErrors \/ (pc[s] \in Accepting /\ err[s]))

StopsCounted(s) ==
  /\ pc[s] \notin {"start", "done"} /\ ListenFd \notin interest[s] => hasErrors
  /\ quitting[s] /\ ~closing => hasErrors

(* Where the iterator starts from. *)
WaitsAtStart(s) == pc[s] = "poll" => cur[s] = ListenFd

Counting(s) == LeaksCounted(s) /\ StopsCounted(s) /\ WaitsAtStart(s)

EInv == IInv /\ Owned /\ \A s \in Servers : Counting(s)

(* A step leaves alone what Counting(u) is about. *)
Untouched(u) ==
  /\ pc'[u] = pc[u] /\ cur'[u] = cur[u] /\ err'[u] = err[u]
  /\ quitting'[u] = quitting[u] /\ clientfds'[u] = clientfds[u]
  /\ ListenFd \in interest[u] => ListenFd \in interest'[u]

(* An error, and the wish to close, are not forgotten. *)
Remembered == (hasErrors => hasErrors') /\ (closing => closing')

LEMMA UntouchedCounting ==
  ASSUME NEW u, Counting(u), Untouched(u), Remembered,
         \A fd \in Fds : Own(u, fd)' => Own(u, fd)
  PROVE  Counting(u)'
BY DEF Counting, LeaksCounted, StopsCounted, WaitsAtStart, Kept, Untouched, Remembered

(* A step that s makes and that opens and closes nothing. *)
LEMMA CountingStep ==
  ASSUME IInv, Owned, \A u \in Servers : Counting(u), NEW s \in Servers,
         \A u \in Servers \ {s} : Untouched(u), Remembered,
         UNCHANGED <<fdConn, acceptor>>, Counting(s)'
  PROVE  Owned' /\ \A u \in Servers : Counting(u)'
<1>1. \A u \in Servers, fd \in Fds : Own(u, fd)' <=> Own(u, fd)
  BY DEF Own
<1>2. Owned'
  BY <1>1 DEF Owned
<1> QED
  BY <1>1, <1>2, UntouchedCounting

LEMMA OutsideCounting ==
  ASSUME IInv, Owned, \A u \in Servers : Counting(u), \A u \in Servers : Untouched(u),
         Remembered, UNCHANGED <<fdConn, acceptor>>
  PROVE  Owned' /\ \A u \in Servers : Counting(u)'
<1>1. \A u \in Servers, fd \in Fds : Own(u, fd)' <=> Own(u, fd)
  BY DEF Own
<1>2. Owned'
  BY <1>1 DEF Owned
<1> QED
  BY <1>1, <1>2, UntouchedCounting

(* The top of the loop: the iterator starts before every descriptor. *)
LEMMA LoopTopCounting ==
  ASSUME IInv, NEW s \in Servers, Counting(s), pc[s] \in {"start", "poll", "batch"}, LoopTop(s),
         Remembered, UNCHANGED <<closing, fdConn, acceptor, clientfds>>,
         hasErrors' \/ ListenFd \in interest'[s]
  PROVE  Counting(s)'
<1>1. /\ quitting'[s] = closing /\ cur'[s] = ListenFd
      /\ pc'[s] = IF closing THEN "quit" ELSE "poll"
  BY DEF IInv, TypeOK, LoopTop, Goto
<1>2. \A fd \in Fds : fd > ListenFd
  BY FdLimitAssumption DEF Fds, ListenFd
<1>3. LeaksCounted(s)'
  BY <1>1, <1>2 DEF Counting, LeaksCounted, Kept, Own, Remembered, Accepting
<1>4. StopsCounted(s)' /\ WaitsAtStart(s)'
  BY <1>1 DEF StopsCounted, WaitsAtStart
<1> QED
  BY <1>3, <1>4 DEF Counting

LEMMA LoopCounts ==
  ASSUME EInv, NEW s \in Servers,
         Start(s) \/ StartDeaf(s) \/ NoEvents(s) \/ NextBatch(s)
  PROVE  Owned' /\ \A u \in Servers : Counting(u)'
<1>1. /\ pc[s] \in {"start", "poll", "batch"} /\ LoopTop(s)
      /\ UNCHANGED <<closing, fdConn, acceptor, clientfds, err>>
      /\ \A u \in Servers \ {s} : interest'[u] = interest[u]
      /\ hasErrors => hasErrors'
  BY DEF EInv, IInv, TypeOK, Start, StartDeaf, NoEvents, NextBatch, kernelVars, mgrVars
<1>2. hasErrors' \/ ListenFd \in interest'[s]
  <2>1. CASE Start(s)
    BY <2>1 DEF Start, EInv, IInv, TypeOK
  <2>2. CASE StartDeaf(s)
    BY <2>2 DEF StartDeaf
  <2>3. CASE NoEvents(s) \/ NextBatch(s)
    BY <2>3 DEF NoEvents, NextBatch, kernelVars, mgrVars, EInv, Counting, StopsCounted
  <2> QED
    BY <2>1, <2>2, <2>3
<1>3. Remembered
  BY <1>1 DEF Remembered
<1>4. \A u \in Servers \ {s} : Untouched(u)
  BY <1>1, LoopTopTyped DEF Untouched, EInv, IInv
<1>5. Counting(s)'
  BY <1>1, <1>2, <1>3, LoopTopCounting DEF EInv
<1> QED
  BY <1>1, <1>3, <1>4, <1>5, CountingStep DEF EInv

LEMMA WaitCounts ==
  ASSUME EInv, NEW s \in Servers, EpollWait(s) \/ WaitFail(s)
  PROVE  Owned' /\ \A u \in Servers : Counting(u)'
<1>1. /\ pc[s] = "poll" /\ UNCHANGED <<closing, fdConn, acceptor, interest, clientfds, cur, err>>
      /\ \A u \in Servers \ {s} : pc'[u] = pc[u] /\ quitting'[u] = quitting[u]
      /\ \/ pc'[s] = "batch" /\ quitting'[s] = quitting[s] /\ hasErrors' = hasErrors
         \/ pc'[s] = "quit" /\ quitting'[s] /\ hasErrors'
  BY DEF EInv, IInv, TypeOK, EpollWait, WaitFail, WaitErrors, Goto, kernelVars, mgrVars
<1>2. Remembered /\ \A u \in Servers \ {s} : Untouched(u)
  BY <1>1 DEF Remembered, Untouched
<1>3. LeaksCounted(s)'
  <2>1. \A fd \in Fds : fd > ListenFd
    BY FdLimitAssumption DEF Fds, ListenFd
  <2>2. \A fd \in Fds : Kept(s, fd) => Kept(s, fd)'
    BY <1>1, <2>1 DEF EInv, Counting, WaitsAtStart, Kept
  <2> QED
    BY <1>1, <2>2 DEF EInv, Counting, LeaksCounted, Own, Accepting
<1>4. StopsCounted(s)' /\ WaitsAtStart(s)'
  BY <1>1 DEF EInv, Counting, StopsCounted, WaitsAtStart
<1>5. Counting(s)'
  BY <1>3, <1>4 DEF Counting
<1> QED
  BY <1>1, <1>2, <1>5, CountingStep DEF EInv

(* An event is taken: what a hang-up takes from clientfds_ is closed next. *)
LEMMA EventCounts ==
  ASSUME EInv, NEW s \in Servers, NEW e \in batch[s],
         AcceptEvent(s, e) \/ HangUpEvent(s, e) \/ ReadWriteEvent(s, e)
  PROVE  Owned' /\ \A u \in Servers : Counting(u)'
<1>1. Taken(s, e) /\ pc[s] = "batch"
  BY TakeFacts DEF EInv, AcceptEvent, HangUpEvent, ReadWriteEvent, Take
<1>2. /\ UNCHANGED <<closing, hasErrors, fdConn, acceptor, interest, quitting>>
      /\ \A u \in Servers \ {s} :
           pc'[u] = pc[u] /\ clientfds'[u] = clientfds[u] /\ err'[u] = err[u]
  BY DEF EInv, IInv, TypeOK, AcceptEvent, HangUpEvent, ReadWriteEvent, Erase, Goto, kernelVars,
         mgrVars
<1>3. \/ pc'[s] \in {"accept", "handle", "batch"} /\ clientfds'[s] = clientfds[s]
      \/ pc'[s] = "unreg" /\ clientfds'[s] = clientfds[s] \ {e.fd}
  <2>1. CASE AcceptEvent(s, e) \/ ReadWriteEvent(s, e)
    BY <2>1 DEF EInv, IInv, TypeOK, AcceptEvent, ReadWriteEvent, Goto
  <2>2. CASE HangUpEvent(s, e)
    <3>1. /\ pc'[s] = IF e.fd \in clientfds[s] THEN "unreg" ELSE "batch"
          /\ clientfds'[s] = clientfds[s] \ {e.fd}
      BY <2>2 DEF EInv, IInv, TypeOK, HangUpEvent, Erase, After, Goto
    <3>2. e.fd \notin clientfds[s] => clientfds[s] \ {e.fd} = clientfds[s]
      OBVIOUS
    <3> QED
      BY <3>1, <3>2
  <2> QED
    BY <2>1, <2>2
<1>4. Remembered /\ \A u \in Servers \ {s} : Untouched(u)
  BY <1>1, <1>2 DEF Remembered, Untouched, Taken
<1>5. LeaksCounted(s)'
  <2>1. \A fd \in Fds : Kept(s, fd) => Kept(s, fd)'
    BY <1>1, <1>2, <1>3 DEF Kept, Taken
  <2> QED
    BY <1>1, <1>2, <2>1 DEF EInv, Counting, LeaksCounted, Own, Accepting
<1>6. StopsCounted(s)' /\ WaitsAtStart(s)'
  BY <1>1, <1>2, <1>3 DEF EInv, Counting, StopsCounted, WaitsAtStart
<1>7. Counting(s)'
  BY <1>5, <1>6 DEF Counting
<1> QED
  BY <1>2, <1>4, <1>7, CountingStep DEF EInv

LEMMA HandleCounts ==
  ASSUME EInv, NEW s \in Servers, NEW failed \in BOOLEAN, Handle(s, failed)
  PROVE  Owned' /\ \A u \in Servers : Counting(u)'
<1>1. pc[s] = "handle" /\ ~quitting[s]
  BY DEF EInv, IInv, ServerOK, CurOK, Handle
<1>2. UNCHANGED <<closing, hasErrors, fdConn, acceptor, interest, quitting, err>>
  BY DEF Handle, kernelVars, mgrVars
<1>3. \/ /\ pc' = [pc EXCEPT ![s] = "unreg"] /\ cur' = cur
         /\ clientfds' = [clientfds EXCEPT ![s] = @ \ {cur[s]}]
      \/ /\ pc' = [pc EXCEPT ![s] = "batch"] /\ cur' = [cur EXCEPT ![s] = ListenFd]
         /\ clientfds' = clientfds
  BY DEF Handle, Erase, Back, Goto, After
<1>4. Remembered /\ \A u \in Servers \ {s} : Untouched(u)
  BY <1>2, <1>3 DEF Remembered, Untouched, EInv, IInv, TypeOK
<1>5. \/ pc'[s] = "unreg" /\ cur'[s] = cur[s] /\ clientfds'[s] = clientfds[s] \ {cur[s]}
      \/ pc'[s] = "batch" /\ clientfds'[s] = clientfds[s]
  BY <1>3 DEF EInv, IInv, TypeOK
<1>6. LeaksCounted(s)'
  <2>1. \A fd \in Fds : Kept(s, fd) => Kept(s, fd)'
    BY <1>1, <1>2, <1>5 DEF Kept
  <2> QED
    BY <1>1, <1>2, <2>1 DEF EInv, Counting, LeaksCounted, Own, Accepting
<1>7. StopsCounted(s)' /\ WaitsAtStart(s)'
  BY <1>1, <1>2, <1>5 DEF EInv, Counting, StopsCounted, WaitsAtStart
<1>8. Counting(s)'
  BY <1>6, <1>7 DEF Counting
<1> QED
  BY <1>2, <1>4, <1>8, CountingStep DEF EInv

(* acceptClients but for accept4 and addFd: what it could not add is       *)
(* counted when it returns.                                                *)
LEMMA AcceptLoopCounts ==
  ASSUME EInv, NEW s \in Servers,
         \/ AcceptEnd(s) \/ AcceptGoOn(s) \/ AcceptFail(s) \/ AcceptAgain(s)
         \/ \E c \in Conns : AcceptAborted(s, c)
  PROVE  Owned' /\ \A u \in Servers : Counting(u)'
<1>1. /\ pc[s] \in {"accept", "accept4", "failed"}
      /\ UNCHANGED <<closing, fdConn, acceptor, interest, clientfds, cur, quitting>>
      /\ \A u \in Servers \ {s} : pc'[u] = pc[u] /\ err'[u] = err[u]
      /\ hasErrors => hasErrors'
      /\ \/ pc'[s] = "batch" /\ (hasErrors \/ err[s] => hasErrors')
         \/ pc'[s] \in {"accept", "accept4", "failed"} /\ (err[s] => err'[s])
  BY DEF EInv, IInv, TypeOK, AcceptEnd, AcceptGoOn, AcceptFail, AcceptAborted, AcceptAgain,
         Counted, Goto, kernelVars, mgrVars
<1>2. Remembered /\ \A u \in Servers \ {s} : Untouched(u)
  BY <1>1 DEF Remembered, Untouched
<1>3. LeaksCounted(s)'
  BY <1>1 DEF EInv, Counting, LeaksCounted, Kept, Own, Accepting
<1>4. StopsCounted(s)' /\ WaitsAtStart(s)'
  BY <1>1 DEF EInv, Counting, StopsCounted, WaitsAtStart
<1>5. Counting(s)'
  BY <1>3, <1>4 DEF Counting
<1> QED
  BY <1>1, <1>2, <1>5, CountingStep DEF EInv

(* accept4 makes s the owner of a descriptor, and nobody of another. *)
LEMMA Accept4Owner ==
  ASSUME EInv, NEW s \in Servers, NEW c \in Conns, Accept4(s, c)
  PROVE  /\ Owned'
         /\ \A u \in Servers, fd \in Fds :
              Own(u, fd)' => Own(u, fd) \/ (u = s /\ fd = LowestFree)
<1>1. PICK new \in Fds : new = LowestFree
  BY Accept4Facts DEF EInv
<1>2. /\ Own(s, new)' /\ \A u \in Servers, fd \in Fds : Own(u, fd) => Own(u, fd)'
      /\ \A fd \in Fds : fd # new => fdConn'[fd] = fdConn[fd]
  BY <1>1, Accept4Facts DEF Accept4, EInv, IInv, TypeOK
<1>3. Owned'
  <2> SUFFICES ASSUME NEW fd \in Fds, fdConn'[fd] # NoConn
               PROVE  \E u \in Servers : Own(u, fd)'
    BY DEF Owned
  <2>1. CASE fd = new
    BY <1>2, <2>1
  <2>2. CASE fd # new
    BY <1>2, <2>2 DEF EInv, Owned, Own
  <2> QED
    BY <2>1, <2>2
<1>4. ASSUME NEW u \in Servers, NEW fd \in Fds, Own(u, fd)'
      PROVE  Own(u, fd) \/ (u = s /\ fd = new)
  <2>1. CASE fd = new
    BY <1>2, <1>4, <2>1 DEF Own
  <2>2. CASE fd # new
    <3>1. PICK v \in Servers : Own(v, fd)
      BY <1>2, <1>4, <2>2 DEF EInv, Owned, Own
    <3>2. Own(v, fd)'
      BY <1>2, <3>1
    <3> QED
      BY <1>4, <3>1, <3>2 DEF Own
  <2> QED
    BY <2>1, <2>2
<1> QED
  BY <1>1, <1>3, <1>4

(* What accept4 returns is worked on ... *)
LEMMA Accept4Counts ==
  ASSUME EInv, NEW s \in Servers, NEW c \in Conns, Accept4(s, c)
  PROVE  Owned' /\ \A u \in Servers : Counting(u)'
<1>1. PICK new \in Fds : new = LowestFree
  BY Accept4Facts DEF EInv
<1>2. /\ Owned'
      /\ \A u \in Servers, fd \in Fds : Own(u, fd)' => Own(u, fd) \/ (u = s /\ fd = new)
  BY <1>1, Accept4Owner
<1>3. /\ UNCHANGED <<closing, hasErrors, err, quitting, interest, clientfds>>
      /\ pc[s] = "accept4" /\ pc'[s] = "add" /\ cur'[s] = new
      /\ \A u \in Servers \ {s} : pc'[u] = pc[u] /\ cur'[u] = cur[u]
  BY <1>1 DEF Accept4, Goto, EInv, IInv, TypeOK, mgrVars
<1>4. Remembered /\ \A u \in Servers : u # s => Untouched(u)
  BY <1>3 DEF Remembered, Untouched
<1>5. \A u \in Servers : u # s => Counting(u)'
  BY <1>2, <1>4, UntouchedCounting DEF EInv
<1>6. ~quitting[s]
  BY <1>3 DEF EInv, IInv, ServerOK, CurOK, Accepting
<1>7. LeaksCounted(s)'
  BY <1>2, <1>3, <1>6 DEF EInv, Counting, LeaksCounted, Kept, Accepting
<1>8. StopsCounted(s)' /\ WaitsAtStart(s)'
  BY <1>3, <1>6 DEF EInv, Counting, StopsCounted, WaitsAtStart
<1> QED
  BY <1>2, <1>5, <1>7, <1>8 DEF Counting

(* ... and enters clientfds_, or makes an error. *)
LEMMA AddCounts ==
  ASSUME EInv, NEW s \in Servers, Added(s) \/ NotAdded(s)
  PROVE  Owned' /\ \A u \in Servers : Counting(u)'
<1>1. pc[s] = "add" /\ NextAccept(s)
  BY DEF Added, NotAdded
<1>2. /\ ~quitting[s] /\ pc'[s] = "accept"
      /\ \A u \in Servers \ {s} : pc'[u] = pc[u] /\ cur'[u] = cur[u]
  BY <1>1, AddingFacts DEF EInv
<1>3. /\ UNCHANGED <<closing, hasErrors, fdConn, acceptor, quitting>>
      /\ \A u \in Servers : interest[u] \subseteq interest'[u]
      /\ \A u \in Servers \ {s} : clientfds'[u] = clientfds[u] /\ err'[u] = err[u]
      /\ clientfds[s] \subseteq clientfds'[s] /\ (err[s] => err'[s])
      /\ cur[s] \in clientfds'[s] \/ (err'[s] /\ AddMayFail)
  BY DEF Added, NotAdded, Insert, EInv, IInv, TypeOK, kernelVars, mgrVars
<1>4. Remembered /\ \A u \in Servers \ {s} : Untouched(u)
  BY <1>2, <1>3 DEF Remembered, Untouched
<1>5. LeaksCounted(s)'
  BY <1>1, <1>2, <1>3 DEF EInv, Counting, LeaksCounted, Kept, Own, Accepting
<1>6. StopsCounted(s)' /\ WaitsAtStart(s)'
  BY <1>1, <1>2, <1>3 DEF EInv, Counting, StopsCounted, WaitsAtStart
<1>7. Counting(s)'
  BY <1>5, <1>6 DEF Counting
<1> QED
  BY <1>3, <1>4, <1>7, CountingStep DEF EInv

LEMMA UnregisterCounts ==
  ASSUME EInv, NEW s \in Servers, Unregister(s)
  PROVE  Owned' /\ \A u \in Servers : Counting(u)'
<1>1. /\ pc[s] = "unreg" /\ pc'[s] = "close"
      /\ UNCHANGED <<closing, hasErrors, fdConn, acceptor, clientfds, cur, quitting, err>>
      /\ \A u \in Servers \ {s} : pc'[u] = pc[u] /\ interest'[u] = interest[u]
      /\ interest'[s] = interest[s] \ {cur[s]}
  BY DEF EInv, IInv, TypeOK, Unregister, Leave, After, Goto, mgrVars
<1>2. Remembered /\ \A u \in Servers \ {s} : Untouched(u)
  BY <1>1 DEF Remembered, Untouched
<1>3. LeaksCounted(s)'
  BY <1>1 DEF EInv, Counting, LeaksCounted, Kept, Own, Accepting
<1>4. cur[s] # ListenFd
  BY <1>1 DEF EInv, IInv, ServerOK, CurOK
<1>5. StopsCounted(s)' /\ WaitsAtStart(s)'
  BY <1>1, <1>4 DEF EInv, Counting, StopsCounted, WaitsAtStart
<1>6. Counting(s)'
  BY <1>3, <1>5 DEF Counting
<1> QED
  BY <1>1, <1>2, <1>6, CountingStep DEF EInv

(* The iterator comes to the next descriptor, and passes none. *)
LEMMA PurgeCounts ==
  ASSUME EInv, NEW s \in Servers, Purge(s)
  PROVE  Owned' /\ \A u \in Servers : Counting(u)'
<1>1. cur'[s] \in LeftToPurge(s) /\ \A g \in LeftToPurge(s) : cur'[s] <= g
  <2>1. LeftToPurge(s) \in SUBSET Fds
    BY DEF LeftToPurge, EInv, IInv, TypeOK
  <2> DEFINE least == CHOOSE f \in LeftToPurge(s) : \A g \in LeftToPurge(s) : f <= g
  <2>2. least \in LeftToPurge(s) /\ \A g \in LeftToPurge(s) : least <= g
    BY <2>1, LeastExists DEF Purge
  <2>3. cur'[s] = least
    BY DEF Purge, EInv, IInv, TypeOK
  <2> QED
    BY <2>2, <2>3
<1>2. /\ pc[s] = "quit" /\ pc'[s] = "unreg"
      /\ UNCHANGED <<closing, hasErrors, fdConn, acceptor, interest, clientfds, quitting, err>>
      /\ \A u \in Servers \ {s} : pc'[u] = pc[u] /\ cur'[u] = cur[u]
  BY DEF EInv, IInv, TypeOK, Purge, After, Goto, kernelVars, mgrVars
<1>3. Remembered /\ \A u \in Servers \ {s} : Untouched(u)
  BY <1>2 DEF Remembered, Untouched
<1>4. quitting[s]
  BY <1>2 DEF EInv, IInv, ServerOK, CurOK
<1>5. \A fd \in Fds : Kept(s, fd) => Kept(s, fd)'
  <2> SUFFICES ASSUME NEW fd \in Fds, Kept(s, fd) PROVE Kept(s, fd)'
    OBVIOUS
  <2>1. fd \in LeftToPurge(s)
    BY <1>2, <1>4 DEF Kept, LeftToPurge
  <2>2. cur'[s] <= fd /\ cur'[s] \in Nat /\ fd \in Nat
    BY <1>1, <2>1, FdLimitAssumption DEF LeftToPurge, EInv, IInv, TypeOK, Fds
  <2>3. fd = cur'[s] \/ fd > cur'[s]
    BY <2>2
  <2> QED
    BY <1>2, <2>1, <2>3 DEF Kept, LeftToPurge
<1>6. LeaksCounted(s)'
  BY <1>2, <1>5 DEF EInv, Counting, LeaksCounted, Own, Accepting
<1>7. StopsCounted(s)' /\ WaitsAtStart(s)'
  BY <1>2 DEF EInv, Counting, StopsCounted, WaitsAtStart
<1>8. Counting(s)'
  BY <1>6, <1>7 DEF Counting
<1> QED
  BY <1>2, <1>3, <1>8, CountingStep DEF EInv

(* When the iterator is at the end, s keeps nothing: what it owns is counted. *)
LEMMA DoneCounts ==
  ASSUME EInv, NEW s \in Servers, Done(s)
  PROVE  Owned' /\ \A u \in Servers : Counting(u)'
<1>1. /\ pc[s] = "quit" /\ pc'[s] = "done" /\ LeftToPurge(s) = {}
      /\ UNCHANGED <<closing, hasErrors, fdConn, acceptor, quitting, err>>
      /\ \A u \in Servers \ {s} :
           /\ pc'[u] = pc[u] /\ interest'[u] = interest[u] /\ clientfds'[u] = clientfds[u]
           /\ cur'[u] = cur[u]
  BY DEF EInv, IInv, TypeOK, Done, Goto, mgrVars
<1>2. Remembered /\ \A u \in Servers \ {s} : Untouched(u)
  BY <1>1 DEF Remembered, Untouched
<1>3. quitting[s]
  BY <1>1 DEF EInv, IInv, ServerOK, CurOK
<1>4. \A fd \in Fds : ~Kept(s, fd)
  BY <1>1, <1>3 DEF Kept, LeftToPurge
<1>5. Counting(s)'
  BY <1>1, <1>4 DEF EInv, Counting, LeaksCounted, StopsCounted, WaitsAtStart, Own, Accepting
<1> QED
  BY <1>1, <1>2, <1>5, CountingStep DEF EInv

LEMMA CloseFdCounts ==
  ASSUME EInv, NEW s \in Servers, CloseFd(s)
  PROVE  Owned' /\ \A u \in Servers : Counting(u)'
<1> DEFINE old == cur[s]
<1>1. pc[s] = "close" /\ old \in Fds /\ old # ListenFd
  BY DEF EInv, IInv, TypeOK, ServerOK, CurOK, CloseFd
<1>2. /\ fdConn' = [fdConn EXCEPT ![old] = NoConn]
      /\ interest' = [u \in Servers |-> interest[u] \ {old}]
      /\ acceptor' = [d \in Conns |-> IF d = fdConn[old] THEN {} ELSE acceptor[d]]
      /\ UNCHANGED <<closing, hasErrors, err, quitting, clientfds>>
  BY DEF CloseFd, mgrVars
<1>3. \/ pc' = [pc EXCEPT ![s] = "quit"] /\ cur' = cur
      \/ /\ pc' = [pc EXCEPT ![s] = "batch"] /\ cur' = [cur EXCEPT ![s] = ListenFd]
         /\ ~quitting[s]
  BY DEF CloseFd, Leave, After, Back, Goto
<1> HIDE DEF old
<1>4. /\ fdConn'[old] = NoConn
      /\ \A fd \in Fds : fd # old => fdConn'[fd] = fdConn[fd]
  BY <1>1, <1>2 DEF EInv, IInv, TypeOK
<1>5. \A u \in Servers, fd \in Fds : Own(u, fd)' <=> fd # old /\ Own(u, fd)
  <2>1. \A fd \in Fds : fd # old /\ fdConn[fd] # NoConn =>
          fdConn[fd] \in Conns /\ fdConn[fd] # fdConn[old]
    BY <1>1 DEF EInv, IInv, TypeOK, ConnOK
  <2> QED
    BY <1>2, <1>4, <2>1 DEF Own
<1>6. Owned'
  BY <1>4, <1>5 DEF EInv, Owned
<1>7. Remembered /\ \A u \in Servers : u # s => Untouched(u)
  BY <1>1, <1>2, <1>3 DEF Remembered, Untouched, EInv, IInv, TypeOK
<1>8. \A u \in Servers : u # s => Counting(u)'
  BY <1>5, <1>7, UntouchedCounting DEF EInv
<1>9. \/ pc'[s] = "quit" /\ cur'[s] = cur[s]
      \/ pc'[s] = "batch" /\ ~quitting[s]
  BY <1>3 DEF EInv, IInv, TypeOK
<1>10. LeaksCounted(s)'
  <2>1. \A fd \in Fds : fd # old /\ Kept(s, fd) => Kept(s, fd)'
    BY <1>2, <1>9 DEF Kept, old
  <2> QED
    BY <1>1, <1>2, <1>5, <2>1 DEF EInv, Counting, LeaksCounted, Accepting
<1>11. StopsCounted(s)' /\ WaitsAtStart(s)'
  BY <1>1, <1>2, <1>9 DEF EInv, Counting, StopsCounted, WaitsAtStart
<1> QED
  BY <1>6, <1>8, <1>10, <1>11 DEF Counting

LEMMA NextKeepsEInv == EInv /\ [Next]_vars => EInv'
<1> SUFFICES ASSUME EInv, [Next]_vars PROVE EInv'
  OBVIOUS
<1>1. IInv'
  BY NextKeepsIInv DEF EInv
<1>2. ASSUME NEW s \in Servers, ServerStep(s)
      PROVE  Owned' /\ \A u \in Servers : Counting(u)'
  <2>1. CASE Start(s) \/ StartDeaf(s) \/ EpollWait(s) \/ NoEvents(s) \/ WaitFail(s) \/ NextBatch(s)
    BY <2>1, LoopCounts, WaitCounts
  <2>2. ASSUME NEW e \in batch[s],
               AcceptEvent(s, e) \/ HangUpEvent(s, e) \/ ReadWriteEvent(s, e)
        PROVE  Owned' /\ \A u \in Servers : Counting(u)'
    BY <2>2, EventCounts
  <2>3. ASSUME NEW failed \in BOOLEAN, Handle(s, failed)
        PROVE  Owned' /\ \A u \in Servers : Counting(u)'
    BY <2>3, HandleCounts
  <2>4. ASSUME NEW c \in Conns, Accept4(s, c) \/ AcceptAborted(s, c)
        PROVE  Owned' /\ \A u \in Servers : Counting(u)'
    BY <2>4, Accept4Counts, AcceptLoopCounts
  <2>5. CASE AcceptEnd(s) \/ AcceptGoOn(s) \/ AcceptFail(s) \/ AcceptAgain(s)
    BY <2>5, AcceptLoopCounts
  <2>7. CASE Added(s) \/ NotAdded(s)
    BY <2>7, AddCounts
  <2>6. CASE Unregister(s) \/ CloseFd(s) \/ Purge(s) \/ Done(s)
    BY <2>6, UnregisterCounts, CloseFdCounts, PurgeCounts, DoneCounts
  <2> QED
    BY <1>2, <2>1, <2>2, <2>3, <2>4, <2>5, <2>6, <2>7 DEF ServerStep
<1>3. ASSUME (\E c \in Conns : ClientStep(c)) \/ Stop \/ UNCHANGED vars
      PROVE  Owned' /\ \A u \in Servers : Counting(u)'
  <2>1. /\ UNCHANGED <<fdConn, acceptor, pc, cur, err, quitting, clientfds, interest>>
        /\ Remembered
    BY <1>3 DEF ClientStep, Connect, Send, HangUp, Stop, Remembered, vars, netVars, kernelVars,
                mgrVars
  <2>2. \A u \in Servers : Untouched(u)
    BY <2>1 DEF Untouched
  <2> QED
    BY <2>1, <2>2, OutsideCounting DEF EInv
<1> QED
  BY <1>1, <1>2, <1>3 DEF EInv, Next, Finished

LEMMA Accounts == Spec => []EInv
<1>1. Init => EInv
  <2> SUFFICES ASSUME Init PROVE EInv
    OBVIOUS
  <2>1. IInv
    BY InitIInv
  <2>2. Owned /\ \A s \in Servers : Counting(s)
    BY DEF Init, Owned, Counting, LeaksCounted, StopsCounted, WaitsAtStart, Own
  <2> QED
    BY <2>1, <2>2 DEF EInv
<1> QED
  BY <1>1, NextKeepsEInv, PTL DEF Spec

(* Once a Server is back in its loop, or has left it, hasServerErrors tells *)
(* of every connection that nobody manages, of a Server that does not hear  *)
(* of connections, and of one that ended and was not asked to.              *)
THEOREM NothingLost == Spec => []ErrorsCounted
<1>1. EInv => ErrorsCounted
  <2> SUFFICES ASSUME EInv PROVE ErrorsCounted
    OBVIOUS
  <2>1. ASSUME NEW fd \in Fds, fdConn[fd] # NoConn, ~Managed(fd), ~hasErrors,
               NEW s \in acceptor[fdConn[fd]]
        PROVE  pc[s] \in Accepting /\ err[s]
    <3>1. PICK u \in Servers : Own(u, fd)
      BY <2>1 DEF EInv, Owned
    <3>2. u = s
      BY <3>1 DEF Own
    <3>3. ~Kept(s, fd)
      BY <2>1, <3>2 DEF Managed, Kept
    <3> QED
      BY <2>1, <3>1, <3>2, <3>3 DEF EInv, Counting, LeaksCounted
  <2>2. \A s \in Servers : StopsCounted(s)
    BY DEF EInv, Counting
  <2> QED
    BY <2>1, <2>2 DEF ErrorsCounted, StopsCounted
<1> QED
  BY <1>1, Accounts, PTL

(* Where epoll_ctl does not fail to add a descriptor, every connection that *)
(* was accepted stays in the hands of a Server until it is closed, also     *)
(* when waits fail, descriptors run out, and the Servers race for the       *)
(* listening socket (conn_epoll.cc:192-195, 232-235, 263-296).              *)
THEOREM NoneLeaked ==
  ASSUME AddMayFail = FALSE
  PROVE  Spec => []NoLeak
<1>1. EInv => NoLeak
  <2> SUFFICES ASSUME EInv, NEW fd \in Fds, fdConn[fd] # NoConn PROVE Managed(fd)
    BY DEF NoLeak
  <2>1. PICK s \in Servers : Own(s, fd)
    BY DEF EInv, Owned
  <2>2. Kept(s, fd)
    BY <2>1 DEF EInv, Counting, LeaksCounted
  <2> QED
    BY <2>2 DEF Kept, Managed
<1> QED
  BY <1>1, Accounts, PTL
-----------------------------------------------------------------------------
(* A Server is the loop of module Loop. *)

(* At most one loop moves, as Loop allows. *)
LEMMA OneMoves ==
  ASSUME NEW s \in Servers, closing' = closing,
         \A u \in Servers \ {s} : Place(u)' = Place(u),
         \/ Place(s)' = Place(s)
         \/ /\ Place(s) \in {"busy", "waiting"}
            /\ Place(s)' = IF closing THEN "leaving" ELSE "waiting"
         \/ Place(s) = "waiting" /\ Place(s)' \in {"busy", "leaving"}
         \/ Place(s) = "leaving" /\ Place(s)' = "gone"
  PROVE  [AbstractLoop!Next]_AbstractLoop!vars
<1> DEFINE place == [u \in Servers |-> Place(u)]
<1>1. place' = [place EXCEPT ![s] = Place(s)']
  OBVIOUS
<1>2. place[s] = Place(s) /\ place'[s] = Place(s)'
  OBVIOUS
<1>3. CASE Place(s)' = Place(s)
  <2>1. place' = place
    BY <1>3
  <2> QED
    BY <2>1 DEF AbstractLoop!vars
<1> HIDE DEF place
<1>4. CASE /\ Place(s) \in {"busy", "waiting"}
           /\ Place(s)' = IF closing THEN "leaving" ELSE "waiting"
  <2>1. AbstractLoop!Look(s)
    BY <1>1, <1>2, <1>4 DEF AbstractLoop!Look, AbstractLoop!Move, place
  <2> QED
    BY <2>1 DEF AbstractLoop!Next
<1>5. CASE Place(s) = "waiting" /\ Place(s)' \in {"busy", "leaving"}
  <2>1. AbstractLoop!Return(s) \/ AbstractLoop!Fail(s)
    BY <1>1, <1>2, <1>5 DEF AbstractLoop!Return, AbstractLoop!Fail, AbstractLoop!Move, place
  <2> QED
    BY <2>1 DEF AbstractLoop!Next
<1>6. CASE Place(s) = "leaving" /\ Place(s)' = "gone"
  <2>1. AbstractLoop!End(s)
    BY <1>1, <1>2, <1>6 DEF AbstractLoop!End, AbstractLoop!Move, place
  <2> QED
    BY <2>1 DEF AbstractLoop!Next
<1> QED
  BY <1>3, <1>4, <1>5, <1>6

LEMMA PlaceKept ==
  ASSUME NEW u, pc'[u] = pc[u], quitting'[u] = quitting[u]
  PROVE  Place(u)' = Place(u)
BY DEF Place

(* The loop is at work, in a batch or in its purge at the end. *)
Working(l) == l \notin {"poll", "done"}

LEMMA ServerStepMaps ==
  ASSUME IInv, NEW s \in Servers, ServerStep(s)
  PROVE  [AbstractLoop!Next]_AbstractLoop!vars
<1> USE DEF mgrVars
<1>1. /\ closing' = closing
      /\ \A u \in Servers \ {s} : pc'[u] = pc[u] /\ quitting'[u] = quitting[u]
  <2>1. pc \in [Servers -> PC] /\ quitting \in [Servers -> BOOLEAN]
    BY DEF IInv, TypeOK
  <2>2. CASE Start(s) \/ StartDeaf(s) \/ EpollWait(s) \/ NoEvents(s) \/ WaitFail(s)
    BY <2>1, <2>2 DEF Start, StartDeaf, EpollWait, NoEvents, WaitFail, LoopTop, Goto
  <2>3. CASE \E e \in batch[s] : AcceptEvent(s, e) \/ HangUpEvent(s, e) \/ ReadWriteEvent(s, e)
    BY <2>1, <2>3 DEF AcceptEvent, HangUpEvent, ReadWriteEvent, Take, Goto
  <2>4. CASE NextBatch(s) \/ (\E failed \in BOOLEAN : Handle(s, failed))
    BY <2>1, <2>4 DEF NextBatch, Handle, LoopTop, Back, Goto
  <2>5. CASE \/ AcceptEnd(s) \/ AcceptGoOn(s) \/ AcceptFail(s) \/ AcceptAgain(s)
             \/ \E c \in Conns : Accept4(s, c) \/ AcceptAborted(s, c)
             \/ Added(s) \/ NotAdded(s)
    BY <2>1, <2>5 DEF AcceptEnd, AcceptGoOn, AcceptFail, AcceptAgain, Accept4, AcceptAborted,
                      Added, NotAdded, NextAccept, Goto
  <2>6. CASE Unregister(s) \/ CloseFd(s) \/ Purge(s) \/ Done(s)
    BY <2>1, <2>6 DEF Unregister, CloseFd, Purge, Done, Leave, Back, Goto
  <2> QED
    BY <2>2, <2>3, <2>4, <2>5, <2>6, Zenon DEF ServerStep
<1>2. \A u \in Servers \ {s} : Place(u)' = Place(u)
  BY <1>1, PlaceKept
<1>3. CurOK(s)
  BY DEF IInv, ServerOK
<1>4. CASE Start(s) \/ StartDeaf(s) \/ NoEvents(s) \/ NextBatch(s)
  <2>1. /\ pc[s] \in {"start", "poll", "batch"} /\ quitting'[s] = closing
        /\ pc'[s] = IF closing THEN "quit" ELSE "poll"
    BY <1>4 DEF Start, StartDeaf, NoEvents, NextBatch, LoopTop, Goto, IInv, TypeOK
  <2>2. /\ Place(s) \in {"busy", "waiting"}
        /\ Place(s)' = IF closing THEN "leaving" ELSE "waiting"
    BY <1>3, <2>1 DEF Place, CurOK
  <2> QED
    BY <1>1, <1>2, <2>2, OneMoves
<1>5. CASE EpollWait(s) \/ WaitFail(s)
  <2>1. /\ pc[s] = "poll" /\ ~quitting[s]
        /\ \/ pc'[s] = "batch" /\ quitting'[s] = quitting[s]
           \/ pc'[s] = "quit" /\ quitting'[s]
    BY <1>3, <1>5 DEF EpollWait, WaitFail, Goto, CurOK, IInv, TypeOK
  <2>2. Place(s) = "waiting" /\ Place(s)' \in {"busy", "leaving"}
    BY <2>1 DEF Place
  <2> QED
    BY <1>1, <1>2, <2>2, OneMoves
<1>6. CASE Done(s)
  <2>1. pc[s] = "quit" /\ quitting[s] /\ pc'[s] = "done"
    BY <1>3, <1>6 DEF Done, Goto, CurOK, IInv, TypeOK
  <2>2. Place(s) = "leaving" /\ Place(s)' = "gone"
    BY <2>1 DEF Place
  <2> QED
    BY <1>1, <1>2, <2>2, OneMoves
<1>7. CASE \/ \E e \in batch[s] : AcceptEvent(s, e) \/ HangUpEvent(s, e) \/ ReadWriteEvent(s, e)
           \/ \E failed \in BOOLEAN : Handle(s, failed)
           \/ AcceptEnd(s) \/ AcceptGoOn(s) \/ AcceptFail(s) \/ AcceptAgain(s)
           \/ \E c \in Conns : Accept4(s, c) \/ AcceptAborted(s, c)
           \/ Added(s) \/ NotAdded(s)
           \/ Unregister(s) \/ CloseFd(s) \/ Purge(s)
  <2>1. Working(pc[s]) /\ Working(pc'[s]) /\ quitting'[s] = quitting[s]
    BY <1>7
      DEF Working, Take, AcceptEvent, HangUpEvent, ReadWriteEvent, Handle, AcceptEnd, AcceptGoOn,
          AcceptFail, AcceptAgain, Accept4, AcceptAborted, Added, NotAdded, NextAccept, Unregister,
          CloseFd, Purge, Leave, Back, After, Goto, IInv, TypeOK
  <2>2. Place(s)' = Place(s)
    BY <2>1 DEF Working, Place
  <2> QED
    BY <1>1, <1>2, <2>2, OneMoves
<1> QED
  BY <1>4, <1>5, <1>6, <1>7 DEF ServerStep

LEMMA NextMaps == IInv /\ [Next]_vars => [AbstractLoop!Next]_AbstractLoop!vars
<1> SUFFICES ASSUME IInv, [Next]_vars PROVE [AbstractLoop!Next]_AbstractLoop!vars
  OBVIOUS
<1> DEFINE place == [s \in Servers |-> Place(s)]
<1>1. ASSUME pc' = pc, quitting' = quitting PROVE place' = place
  BY <1>1 DEF Place
<1> HIDE DEF place
<1>2. CASE Stop
  <2>1. place' = place
    BY <1>1, <1>2 DEF Stop
  <2>2. AbstractLoop!Close
    BY <1>2, <2>1 DEF Stop, AbstractLoop!Close, place
  <2> QED
    BY <2>2 DEF AbstractLoop!Next
<1>3. CASE (\E c \in Conns : ClientStep(c)) \/ UNCHANGED vars
  <2>1. closing' = closing /\ pc' = pc /\ quitting' = quitting
    BY <1>3 DEF ClientStep, Connect, Send, HangUp, vars, mgrVars
  <2> QED
    BY <1>1, <2>1 DEF AbstractLoop!vars, place
<1> QED
  BY <1>2, <1>3, ServerStepMaps DEF Next, Finished

LEMMA InitMaps == Init => AbstractLoop!Init
<1> SUFFICES ASSUME Init PROVE AbstractLoop!Init
  OBVIOUS
<1>1. \A s \in Servers : Place(s) = "busy"
  BY DEF Init, Place
<1> QED
  BY <1>1 DEF Init, AbstractLoop!Init

(* Whatever happens in a batch, a Server looks at closing() before it waits *)
(* again, and once it has left its loop it closes and ends.                 *)
THEOREM ServersAreLoops == Spec => ImplementsLoop
<1>1. Spec => []IInv
  BY Invariance
<1> QED
  BY <1>1, InitMaps, NextMaps, PTL DEF Spec, ImplementsLoop, AbstractLoop!Spec
=============================================================================
