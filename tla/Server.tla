------------------------------- MODULE Server -------------------------------
(***************************************************************************)
(* ugorji/conn Server: the epoll loops that accept and serve connections.  *)
(*                                                                         *)
(* Every Server has an epoll instance and a thread of its own.  All of     *)
(* them accept from one listening socket and draw their descriptors from   *)
(* one table, and the application may give them all the same Handler,      *)
(* which keeps a state for each descriptor number.  A step is the code     *)
(* from one system call or Handler call to the next.  The kernel and the   *)
(* clients act between any two of them.                                    *)
(***************************************************************************)
EXTENDS Integers, FiniteSets

CONSTANTS
  Servers,     \* the Servers the Manager runs
  Conns,       \* the connections that clients may make
  FdLimit,     \* how many descriptors the process may have for connections
  BufferSize,  \* how many sends the buffer of a socket holds
  AddMayFail,  \* may epoll_ctl(EPOLL_CTL_ADD) fail, for want of memory
  AcceptMayFail, \* may accept4 fail for other reasons than the want of a descriptor
  Failing,     \* the Servers whose epoll_wait may fail, or seem to after a LOG
  NoConn       \* no connection

Fds == 1..FdLimit

(* The listening descriptor. *)
ListenFd == 0

ASSUME FdLimitAssumption == FdLimit \in Nat \ {0}

ASSUME BufferSizeAssumption == BufferSize \in Nat \ {0}

ASSUME MayFailAssumption ==
  AddMayFail \in BOOLEAN /\ AcceptMayFail \in BOOLEAN /\ Failing \subseteq Servers

ASSUME NoConnAssumption == NoConn \notin Conns

VARIABLES
  (* the kernel and the clients *)
  net,        \* net[c]: how far connection c has come
  unread,     \* unread[c]: the sends that are still in the socket's buffer
  hup,        \* hup[c]: its client has shut it down (ERR, HUP or RDHUP)
  fdConn,     \* the descriptor table: the connection behind a descriptor
  interest,   \* interest[s]: the descriptors in the epoll instance of s, ListenFd too
  ready,      \* ready[s]: those of its ready list, ListenFd among them
  (* the application's Handler *)
  hstate,     \* hstate[fd]: the connection the Handler's state for fd is of
  (* the Servers *)
  closing,    \* mgr_.closing()
  hasErrors,  \* mgr_.hasServerErrors()
  pc,         \* pc[s]: where Server s is
  batch,      \* batch[s]: the events epoll_wait returned, not yet looked at
  cur,        \* cur[s]: the descriptor it works on
  err,        \* err[s]: is the string err of acceptClients not empty
  quitting,   \* quitting[s]: has it left its loop
  clientfds,  \* clientfds[s]: clientfds_
  acceptor    \* history: the Server that accepted a connection, until it is closed

netVars == <<net, unread, hup>>
kernelVars == <<fdConn, interest, ready>>
mgrVars == <<closing, hasErrors>>
vars == <<netVars, kernelVars, hstate, mgrVars, pc, batch, cur, err, quitting,
          clientfds, acceptor>>

(* The places in acceptClients: the top of its loop, accept4, addFd, and the *)
(* LOG of an error.                                                          *)
Accepting == {"accept", "accept4", "add", "failed"}

PC == {"start", "poll", "batch", "handle", "unreg", "close", "quit", "done"} \cup Accepting

Events == [fd : Fds \cup {ListenFd}, hup : BOOLEAN]

TypeOK ==
  /\ net \in [Conns -> {"new", "backlog", "open", "gone"}]
  /\ unread \in [Conns -> 0..BufferSize]
  /\ hup \in [Conns -> BOOLEAN]
  /\ fdConn \in [Fds -> Conns \cup {NoConn}]
  /\ interest \in [Servers -> SUBSET (Fds \cup {ListenFd})]
  /\ ready \in [Servers -> SUBSET (Fds \cup {ListenFd})]
  /\ hstate \in [Fds -> Conns \cup {NoConn}]
  /\ closing \in BOOLEAN /\ hasErrors \in BOOLEAN
  /\ pc \in [Servers -> PC]
  /\ batch \in [Servers -> SUBSET Events]
  /\ cur \in [Servers -> Fds \cup {ListenFd}]
  /\ err \in [Servers -> BOOLEAN]
  /\ quitting \in [Servers -> BOOLEAN]
  /\ clientfds \in [Servers -> SUBSET Fds]
  /\ acceptor \in [Conns -> SUBSET Servers]

Init ==
  /\ net = [c \in Conns |-> "new"]
  /\ unread = [c \in Conns |-> 0]
  /\ hup = [c \in Conns |-> FALSE]
  /\ fdConn = [fd \in Fds |-> NoConn]
  /\ interest = [s \in Servers |-> {}]
  /\ ready = [s \in Servers |-> {}]
  /\ hstate = [fd \in Fds |-> NoConn]
  /\ closing = FALSE /\ hasErrors = FALSE
  /\ pc = [s \in Servers |-> "start"]
  /\ batch = [s \in Servers |-> {}]
  /\ cur = [s \in Servers |-> ListenFd]
  /\ err = [s \in Servers |-> FALSE]
  /\ quitting = [s \in Servers |-> FALSE]
  /\ clientfds = [s \in Servers |-> {}]
  /\ acceptor = [c \in Conns |-> {}]

Backlog == {c \in Conns : net[c] = "backlog"}

FreeFds == {fd \in Fds : fdConn[fd] = NoConn}

Goto(s, l) == pc' = [pc EXCEPT ![s] = l]
-----------------------------------------------------------------------------
(* The clients and the kernel.  The instances are edge-triggered: a        *)
(* descriptor enters a ready list when something happens to it.            *)

(* The instances whose ready list an event of connection c enters. *)
Signal(c) ==
  ready' = [s \in Servers |->
              ready[s] \cup {fd \in interest[s] \cap Fds : fdConn[fd] = c}]

(* A connection is made.  The instances added the listening socket with    *)
(* EPOLLEXCLUSIVE: those of busy Servers come to have it in their ready    *)
(* lists up to the first one with a thread waiting, which is woken.        *)
Connect(c) ==
  /\ net[c] = "new"
  /\ net' = [net EXCEPT ![c] = "backlog"]
  /\ LET up == {s \in Servers : ListenFd \in interest[s]}
         idle == {s \in up : pc[s] = "poll"}
     IN  \E told \in SUBSET up :
           /\ IF idle = {} THEN told = up ELSE Cardinality(told \cap idle) = 1
           /\ ready' = [s \in Servers |->
                IF s \in told THEN ready[s] \cup {ListenFd} ELSE ready[s]]
  /\ UNCHANGED <<unread, hup, fdConn, interest, hstate, mgrVars, pc, batch,
                 cur, err, quitting, clientfds, acceptor>>

Send(c) ==
  /\ net[c] \in {"backlog", "open"}
  /\ ~hup[c]
  /\ unread[c] < BufferSize
  /\ unread' = [unread EXCEPT ![c] = @ + 1]
  /\ Signal(c)
  /\ UNCHANGED <<net, hup, fdConn, interest, hstate, mgrVars, pc, batch, cur, err,
                 quitting, clientfds, acceptor>>

HangUp(c) ==
  /\ net[c] \in {"backlog", "open"}
  /\ ~hup[c]
  /\ hup' = [hup EXCEPT ![c] = TRUE]
  /\ Signal(c)
  /\ UNCHANGED <<net, unread, fdConn, interest, hstate, mgrVars, pc, batch,
                 cur, err, quitting, clientfds, acceptor>>

(* Manager::close *)
Stop ==
  /\ ~closing
  /\ closing' = TRUE
  /\ UNCHANGED <<netVars, kernelVars, hstate, hasErrors, pc, batch, cur, err,
                 quitting, clientfds, acceptor>>
-----------------------------------------------------------------------------
(* Server::run *)

(* Mutant: purgeFd closes the descriptor before it tells the Handler. *)
AfterCloseFirst(s, l) ==
  CASE l = "purge" -> "close"
    [] l = "close" -> "unreg"
    [] OTHER       -> IF quitting[s] THEN "quit" ELSE "batch"

(* The order of purgeFd, and where it returns. *)
After(s, l) ==
  CASE l = "purge" -> "unreg"
    [] l = "unreg" -> "close"
    [] OTHER       -> IF quitting[s] THEN "quit" ELSE "batch"

(* The next event is looked at. *)
Back(s) ==
  /\ cur' = [cur EXCEPT ![s] = ListenFd]
  /\ Goto(s, "batch")

(* purgeFd goes on, or returns. *)
Leave(s, l) ==
  IF After(s, l) = "batch" THEN Back(s) ELSE Goto(s, After(s, l)) /\ UNCHANGED cur

(* Mutant: run goes on while it has clients. *)
LoopTopIfIdle(s) ==
  /\ quitting' = [quitting EXCEPT ![s] = closing /\ clientfds[s] = {}]
  /\ cur' = [cur EXCEPT ![s] = ListenFd]
  /\ Goto(s, IF closing /\ clientfds[s] = {} THEN "quit" ELSE "poll")

(* The top of the loop: the Manager's state is read, and epoll_wait called. *)
LoopTop(s) ==
  /\ quitting' = [quitting EXCEPT ![s] = closing]
  /\ cur' = [cur EXCEPT ![s] = ListenFd]
  /\ Goto(s, IF closing THEN "quit" ELSE "poll")

(* epoll_create1, whose failure ends the process, and addFd of the listening *)
(* descriptor                                                                *)
Start(s) ==
  /\ pc[s] = "start"
  /\ interest' = [interest EXCEPT ![s] = {ListenFd}]
  /\ ready' = [ready EXCEPT ![s] = IF Backlog = {} THEN {} ELSE {ListenFd}]
  /\ LoopTop(s)
  /\ UNCHANGED <<netVars, fdConn, hstate, mgrVars, batch, err, clientfds, acceptor>>

(* When addFd fails the error is counted, and the loop entered all the same. *)
StartDeaf(s) ==
  /\ pc[s] = "start"
  /\ AddMayFail
  /\ hasErrors' = TRUE
  /\ LoopTop(s)
  /\ UNCHANGED <<netVars, kernelVars, hstate, closing, batch, err, clientfds, acceptor>>

(* What epoll_wait reports of a ready descriptor is its state now. *)
Reported(s) ==
  {[fd |-> fd, hup |-> hup[fdConn[fd]]] : fd \in ready[s] \ {ListenFd}}
    \cup {[fd |-> ListenFd, hup |-> FALSE] : fd \in ready[s] \cap {ListenFd}}

(* epoll_wait returns events; a listening socket from which another Server *)
(* has taken every connection is not one of them. *)
EpollWait(s) ==
  /\ pc[s] = "poll"
  /\ batch' = [batch EXCEPT ![s] =
       {e \in Reported(s) : e.fd = ListenFd => Backlog # {}}]
  /\ ready' = [ready EXCEPT ![s] = {}]
  /\ batch'[s] # {}
  /\ Goto(s, "batch")
  /\ UNCHANGED <<netVars, fdConn, interest, hstate, mgrVars, cur, err, quitting,
                 clientfds, acceptor>>

(* epoll_wait times out, or fails with EINTR. *)
NoEvents(s) ==
  /\ pc[s] = "poll"
  /\ closing
  /\ LoopTop(s)
  /\ UNCHANGED <<netVars, kernelVars, hstate, mgrVars, batch, err, clientfds,
                 acceptor>>

(* Mutant: run leaves its loop before it counts the error. *)
WaitErrorsNot == hasErrors

(* CHKRUNERR *)
WaitErrors == TRUE

(* epoll_wait fails, or the LOG after it leaves another errno than EINTR: *)
(* run counts an error and ends.                                          *)
WaitFail(s) ==
  /\ pc[s] = "poll"
  /\ s \in Failing
  /\ hasErrors' = WaitErrors
  /\ quitting' = [quitting EXCEPT ![s] = TRUE]
  /\ Goto(s, "quit")
  /\ UNCHANGED <<netVars, kernelVars, hstate, closing, batch, cur, err, clientfds,
                 acceptor>>

(* The events of the batch, in the order of the ready list: any order. *)
Take(s, e) ==
  /\ pc[s] = "batch"
  /\ e \in batch[s]
  /\ batch' = [batch EXCEPT ![s] = @ \ {e}]
  /\ cur' = [cur EXCEPT ![s] = e.fd]

AcceptEvent(s, e) ==
  /\ Take(s, e)
  /\ e.fd = ListenFd
  /\ err' = [err EXCEPT ![s] = FALSE]
  /\ Goto(s, "accept")
  /\ UNCHANGED <<netVars, kernelVars, hstate, mgrVars, quitting, clientfds, acceptor>>

(* Mutant: removeFd does not erase the descriptor from clientfds_. *)
EraseNot(s, fd) == clientfds

(* removeFd: the descriptor leaves clientfds_ before it is purged. *)
Erase(s, fd) == [clientfds EXCEPT ![s] = @ \ {fd}]

HangUpEvent(s, e) ==
  /\ Take(s, e)
  /\ e.fd # ListenFd /\ e.hup
  /\ clientfds' = Erase(s, e.fd)
  /\ Goto(s, IF e.fd \in clientfds[s] THEN After(s, "purge") ELSE "batch")
  /\ UNCHANGED <<netVars, kernelVars, hstate, mgrVars, err, quitting, acceptor>>

ReadWriteEvent(s, e) ==
  /\ Take(s, e)
  /\ e.fd # ListenFd /\ ~e.hup
  /\ Goto(s, "handle")
  /\ UNCHANGED <<netVars, kernelVars, hstate, mgrVars, err, quitting, clientfds,
                 acceptor>>

(* Mutant: run returns to epoll_wait with events of the batch left. *)
BatchOverEarly(s) == TRUE

BatchOver(s) == batch[s] = {}

NextBatch(s) ==
  /\ pc[s] = "batch"
  /\ BatchOver(s)
  /\ batch' = [batch EXCEPT ![s] = {}]
  /\ LoopTop(s)
  /\ UNCHANGED <<netVars, kernelVars, hstate, mgrVars, err, clientfds, acceptor>>

(* workFd: the Handler reads until the socket would block.  It keeps the   *)
(* state it finds for the descriptor.  If it reports an error, removeFd.   *)
Handle(s, failed) ==
  /\ pc[s] = "handle"
  /\ LET c == fdConn[cur[s]] IN
       /\ hstate' = [hstate EXCEPT ![cur[s]] = IF @ = NoConn THEN c ELSE @]
       /\ unread' = [d \in Conns |-> IF d = c THEN 0 ELSE unread[d]]
  /\ IF failed /\ cur[s] \in clientfds[s]
     THEN /\ clientfds' = Erase(s, cur[s])
          /\ Goto(s, After(s, "purge"))
          /\ UNCHANGED cur
     ELSE /\ Back(s)
          /\ UNCHANGED clientfds
  /\ UNCHANGED <<net, hup, kernelVars, mgrVars, batch, err, quitting, acceptor>>
-----------------------------------------------------------------------------
(* acceptClients *)

(* Mutant: acceptClients may return before accept4 would block. *)
WouldBlockAlways == TRUE

(* accept4 fails with EAGAIN: also with the table full, where a kernel looks *)
(* at the backlog first.                                                     *)
WouldBlock == Backlog = {}

(* CHKRUNERR: an error of this call is one more. *)
Counted(s) == hasErrors \/ err[s]

(* The loop ends when the Manager closes or accept4 would block; run then  *)
(* counts the error, if any (CHKRUNERR).                                   *)
AcceptEnd(s) ==
  /\ \/ pc[s] = "accept" /\ closing
     \/ pc[s] = "accept4" /\ WouldBlock
  /\ hasErrors' = Counted(s)
  /\ err' = [err EXCEPT ![s] = FALSE]
  /\ Goto(s, "batch")
  /\ UNCHANGED <<netVars, kernelVars, hstate, closing, batch, cur, quitting, clientfds,
                 acceptor>>

(* closing() is FALSE: on to accept4, whatever the Manager does now. *)
AcceptGoOn(s) ==
  /\ pc[s] = "accept"
  /\ ~closing
  /\ Goto(s, "accept4")
  /\ UNCHANGED <<netVars, kernelVars, hstate, mgrVars, batch, cur, err, quitting,
                 clientfds, acceptor>>

(* accept4 gives the connection the lowest free descriptor. *)
LowestFree == CHOOSE f \in FreeFds : \A g \in FreeFds : f <= g

Accept4(s, c) ==
  /\ pc[s] = "accept4"
  /\ c \in Backlog
  /\ FreeFds # {}
  /\ fdConn' = [fdConn EXCEPT ![LowestFree] = c]
  /\ net' = [net EXCEPT ![c] = "open"]
  /\ acceptor' = [acceptor EXCEPT ![c] = {s}]
  /\ cur' = [cur EXCEPT ![s] = LowestFree]
  /\ Goto(s, "add")
  /\ UNCHANGED <<unread, hup, interest, ready, hstate, mgrVars, batch, err, quitting,
                 clientfds>>

(* The loop goes round. *)
NextAccept(s) ==
  /\ cur' = [cur EXCEPT ![s] = ListenFd]
  /\ Goto(s, "accept")

(* Mutant: addFd does not enter the descriptor in clientfds_. *)
InsertNot(s, fd) == clientfds

(* addFd: the descriptor enters clientfds_. *)
Insert(s, fd) == [clientfds EXCEPT ![s] = @ \cup {fd}]

(* addFd succeeds.  A new socket is writable: it is ready at once. *)
Added(s) ==
  /\ pc[s] = "add"
  /\ interest' = [interest EXCEPT ![s] = @ \cup {cur[s]}]
  /\ ready' = [ready EXCEPT ![s] = @ \cup {cur[s]}]
  /\ clientfds' = Insert(s, cur[s])
  /\ NextAccept(s)
  /\ UNCHANGED <<netVars, fdConn, hstate, mgrVars, batch, err, quitting, acceptor>>

(* addFd fails and returns. *)
NotAdded(s) ==
  /\ pc[s] = "add"
  /\ AddMayFail
  /\ err' = [err EXCEPT ![s] = TRUE]
  /\ NextAccept(s)
  /\ UNCHANGED <<netVars, kernelVars, hstate, mgrVars, batch, quitting, clientfds,
                 acceptor>>

(* Mutant: the result of accept4, -1, is not tested. *)
AcceptUntested(s) ==
  /\ pc[s] = "accept4"
  /\ FreeFds = {} \/ AcceptMayFail
  /\ cur' = [cur EXCEPT ![s] = -1]
  /\ Goto(s, "add")
  /\ UNCHANGED <<netVars, kernelVars, hstate, mgrVars, batch, err, quitting, clientfds,
                 acceptor>>

(* accept4 fails.  With EMFILE, whether or not a connection waits, since    *)
(* Linux takes the descriptor first, and with ENFILE, ENOBUFS or ENOMEM, it *)
(* takes none from the backlog ...                                          *)
AcceptFail(s) ==
  /\ pc[s] = "accept4"
  /\ FreeFds = {} \/ AcceptMayFail
  /\ err' = [err EXCEPT ![s] = TRUE]
  /\ Goto(s, "failed")
  /\ UNCHANGED <<netVars, kernelVars, hstate, mgrVars, batch, cur, quitting,
                 clientfds, acceptor>>

(* ... and with the error of a connection that its client has given up, *)
(* ECONNABORTED or another, it takes that one. *)
AcceptAborted(s, c) ==
  /\ pc[s] = "accept4"
  /\ AcceptMayFail
  /\ c \in Backlog /\ hup[c]
  /\ net' = [net EXCEPT ![c] = "gone"]
  /\ unread' = [unread EXCEPT ![c] = 0]
  /\ hup' = [hup EXCEPT ![c] = FALSE]
  /\ err' = [err EXCEPT ![s] = TRUE]
  /\ Goto(s, "failed")
  /\ UNCHANGED <<kernelVars, hstate, mgrVars, batch, cur, quitting, clientfds, acceptor>>

(* After the LOG of the error the loop goes round, retryOnError or not; so   *)
(* it does without one when the signal of Manager::close interrupts accept4. *)
AcceptAgain(s) ==
  /\ \/ pc[s] = "failed"
     \/ pc[s] = "accept4" /\ closing
  /\ Goto(s, "accept")
  /\ UNCHANGED <<netVars, kernelVars, hstate, mgrVars, batch, cur, err, quitting,
                 clientfds, acceptor>>
-----------------------------------------------------------------------------
(* purgeFd, from removeFd or from the end of run *)

(* EPOLL_CTL_DEL, and the Handler's unregisterFd *)
Unregister(s) ==
  /\ pc[s] = "unreg"
  /\ interest' = [interest EXCEPT ![s] = @ \ {cur[s]}]
  /\ ready' = [ready EXCEPT ![s] = @ \ {cur[s]}]
  /\ hstate' = [hstate EXCEPT ![cur[s]] = NoConn]
  /\ Leave(s, "unreg")
  /\ UNCHANGED <<netVars, fdConn, mgrVars, batch, err, quitting, clientfds, acceptor>>

(* close: what the socket held is lost, and no epoll instance has the      *)
(* descriptor any more.                                                     *)
CloseFd(s) ==
  /\ pc[s] = "close"
  /\ LET c == fdConn[cur[s]] IN
       /\ net' = [d \in Conns |-> IF d = c THEN "gone" ELSE net[d]]
       /\ unread' = [d \in Conns |-> IF d = c THEN 0 ELSE unread[d]]
       /\ hup' = [d \in Conns |-> IF d = c THEN FALSE ELSE hup[d]]
       /\ acceptor' = [d \in Conns |-> IF d = c THEN {} ELSE acceptor[d]]
  /\ fdConn' = [fdConn EXCEPT ![cur[s]] = NoConn]
  /\ interest' = [u \in Servers |-> interest[u] \ {cur[s]}]
  /\ ready' = [u \in Servers |-> ready[u] \ {cur[s]}]
  /\ Leave(s, "close")
  /\ UNCHANGED <<hstate, mgrVars, batch, err, quitting, clientfds>>

(* Mutant: at the end of run only the first descriptor is purged. *)
LeftToPurgeFirst(s) == {fd \in clientfds[s] : cur[s] = ListenFd}

(* What the iterator over clientfds_, in ascending order, has not reached. *)
LeftToPurge(s) == {fd \in clientfds[s] : fd > cur[s]}

Purge(s) ==
  /\ pc[s] = "quit"
  /\ LeftToPurge(s) # {}
  /\ cur' = [cur EXCEPT ![s] =
       CHOOSE f \in LeftToPurge(s) : \A g \in LeftToPurge(s) : f <= g]
  /\ Goto(s, After(s, "purge"))
  /\ UNCHANGED <<netVars, kernelVars, hstate, mgrVars, batch, err, quitting,
                 clientfds, acceptor>>

(* clientfds_.clear(), close of the epoll instance, serverDone *)
Done(s) ==
  /\ pc[s] = "quit"
  /\ LeftToPurge(s) = {}
  /\ clientfds' = [clientfds EXCEPT ![s] = {}]
  /\ interest' = [interest EXCEPT ![s] = {}]
  /\ ready' = [ready EXCEPT ![s] = {}]
  /\ cur' = [cur EXCEPT ![s] = ListenFd]
  /\ Goto(s, "done")
  /\ UNCHANGED <<netVars, fdConn, hstate, mgrVars, batch, err, quitting, acceptor>>

ServerStep(s) ==
  \/ Start(s) \/ StartDeaf(s) \/ EpollWait(s) \/ NoEvents(s) \/ WaitFail(s)
  \/ \E e \in batch[s] : AcceptEvent(s, e) \/ HangUpEvent(s, e) \/ ReadWriteEvent(s, e)
  \/ NextBatch(s)
  \/ \E failed \in BOOLEAN : Handle(s, failed)
  \/ AcceptEnd(s) \/ AcceptGoOn(s) \/ AcceptFail(s) \/ AcceptAgain(s)
  \/ \E c \in Conns : Accept4(s, c) \/ AcceptAborted(s, c)
  \/ Added(s) \/ NotAdded(s)
  \/ Unregister(s) \/ CloseFd(s) \/ Purge(s) \/ Done(s)

ClientStep(c) == Connect(c) \/ Send(c) \/ HangUp(c)

Finished ==
  /\ \A s \in Servers : pc[s] = "done"
  /\ UNCHANGED vars

Next ==
  \/ \E s \in Servers : ServerStep(s)
  \/ \E c \in Conns : ClientStep(c)
  \/ Stop
  \/ Finished

Spec == Init /\ [][Next]_vars

(* The threads run; once the Manager closes, the wait of each ends, by its  *)
(* timeout or by the signal (module Manager).  Nobody is obliged to         *)
(* connect, to send, to hang up or to close.                                *)
FairSpec == Spec /\ \A s \in Servers : WF_vars(ServerStep(s))
-----------------------------------------------------------------------------
(* A Server only ever works on a descriptor, or closes it, while that is    *)
(* the descriptor of a connection it accepted itself: an event is never     *)
(* handled, and nothing is purged, after the number went to another one.    *)
TouchesOwn ==
  \A s \in Servers :
    pc[s] \in {"add", "handle", "unreg", "close"} =>
      /\ fdConn[cur[s]] # NoConn
      /\ acceptor[fdConn[cur[s]]] = {s}

(* The state that a Handler shared by all Servers keeps under a descriptor  *)
(* number is that of the connection the number stands for now.              *)
HandlerStateIsCurrent ==
  \A fd \in Fds : hstate[fd] # NoConn => hstate[fd] = fdConn[fd]

(* Is the connection of the descriptor in the hands of a Server? *)
Managed(fd) ==
  \E s \in Servers :
    \/ fd \in clientfds[s]
    \/ cur[s] = fd /\ pc[s] \in {"add", "unreg", "close"}

(* Every connection that was accepted and not closed is in the hands of a   *)
(* Server: "manages connections it successfully accepted".                  *)
NoLeak == \A fd \in Fds : fdConn[fd] # NoConn => Managed(fd)

(* Once a Server is back in its loop, or has left it, hasServerErrors tells *)
(* of all that went wrong: a connection that nobody manages, a Server that  *)
(* does not hear of connections, one that ended and was not asked to        *)
(* (conn_epoll.cc:154-165, 193-195, 224-225).                               *)
ErrorsCounted ==
  /\ \A fd \in Fds : fdConn[fd] # NoConn /\ ~Managed(fd) =>
       hasErrors \/ \A s \in acceptor[fdConn[fd]] : pc[s] \in Accepting /\ err[s]
  /\ \A s \in Servers : pc[s] \notin {"start", "done"} /\ ListenFd \notin interest[s] => hasErrors
  /\ \A s \in Servers : quitting[s] /\ ~closing => hasErrors

(* A connection does not wait in the backlog for ever: it is made once, and *)
(* so is not there again and again.                                         *)
EveryoneAccepted ==
  \A c \in Conns : []<>(net[c] # "backlog" \/ closing)

(* What a connected client sends is delegated to the Handler, unless the    *)
(* connection is closed: it does not lie in the socket for ever.            *)
DataHandled ==
  \A c \in Conns : []<>(net[c] # "open" \/ unread[c] = 0 \/ closing)

(* When the Manager closes, every connection is closed in the end, one that *)
(* accept4 still gives after it had closed among them.                      *)
StopClosesAll == []<>(closing => \A fd \in Fds : fdConn[fd] = NoConn)

(* A Server is the loop that its Manager takes it to be: whatever happens    *)
(* in a batch, it looks at closing() before it waits again, and once it has  *)
(* left it closes its connections and comes to an end, and never waits.      *)
Place(s) ==
  CASE pc[s] = "done" -> "gone"
    [] pc[s] = "poll" -> "waiting"
    [] pc[s] \notin {"done", "poll"} /\ quitting[s] -> "leaving"
    [] OTHER -> "busy"

AbstractLoop == INSTANCE Loop WITH place <- [s \in Servers |-> Place(s)]

ImplementsLoop == AbstractLoop!Spec
=============================================================================
