# cc-common, specified and checked

TLA+ specifications of the C and C++ library in `src/`, with the instances TLC
checks and the theorems the TLA+ proof system checks.  `PROJECT.json` lists the
runs, which lines each definition models, the hazards the properties are for, and
one mutant per property: a plausible bug that the property catches.

## The system

cc-common is three packages: `ugorji/conn`, a server of non-blocking connections;
`ugorji/util`, what such servers need; `ugorji/codec`, values in a binary form.

| component | state | operations | hard because |
|---|---|---|---|
| **Manager** `conn.h`, `conn_epoll.cc:97-140` | `state_`, `numWorkers_`, `threads_`, mutex and condition variable, `listenfd_` | `open`, `run`, `wait`, `close`, `serverDone`, the destructor | `close` runs as a signal handler on any thread; a signal is one shot; `wait` depends on a notification |
| **Server** `conn_epoll.cc:142-296` | `clientfds_`, an epoll instance, the rest of a batch of events | `run`, `acceptClients`, `addFd`, `removeFd`, `purgeFd`, `workFd` | several share a listening socket and a descriptor table; edges come once; numbers are reused; any system call may fail |
| **Handler** (the application's) | a state per descriptor number | `handleFd`, `unregisterFd` | one object may serve all the Servers |
| **LockSet** `lockset.{h,cc}` | the table of Locks, each with a mutex and a count; a `LockSetLock` per scope | `locksFor`, `lockFor`, `unlock`, the destructor | overlapping sets of keys in any order, created on first use |
| **BufWriter, BufReader** `bufio.{h,cc}` | buffers, positions, `eof_`, `errno_` | `writen`, `flush`, `readn`, `readfull`, `fill`, `reset` | partial writes, EAGAIN and EINTR between any two steps; one connection after the other |
| **Simple codec** `simplecodec.{h,c}`, with `codec.{h,c}` | a slice; a position and an error | `encode`, `decode` | lengths at the boundaries of a width; messages cut short; a `codec_value` used again |
| **slice_bytes** `slice.{h,c}`, **bigendian** | bytes and a capacity | `expand`, `append` | two ways to write into one block |
| **Binc codec** `binc.{h,c}` | as the Simple codec | `encode`, `decode` | pruned integers, descriptors that hold lengths, no bounds checks |
| **codec_value** `codec.{h,c}` | a slice of text | `codec_value_print`, the decoders' bounds check | room that is guessed before it is written to |
| **fdbuf** `fdbuf.{h,cc}` | streambuf pointers over a descriptor | `open`, `close`, `sync`, `overflow`, `underflow` | one `read` or `write` per call, of any outcome; a stored character that may have no room |
| **Log** `logging.{h,cc}` | level, mutex, sequence number | `Logv` | its level, its mutex and `errno` are modelled, in Manager |

Interactions.  `Manager::run` starts Servers, which read `closing()` and call back
`serverDone`; `close` reaches them with a signal.  Servers call the Handler, and
share with each other only the listening socket, the process's descriptor table
and, perhaps, the Handler.  Everything logs, through one mutex.  A Handler uses
LockSet, the buffers and the codecs; the library itself does not combine them.

What makes each part correct:

* Manager: the count that `wait` tests is right whenever it is tested; when `wait`
  returns nobody uses the Manager; `close` ends every worker, from any thread.
* Server: no event reaches a descriptor after its number went to another
  connection; nobody waits for ever to be accepted or read; nothing leaks.
* LockSet: two threads never hold one key; no group of threads waits for itself;
  every call returns.
* Buffers: every byte once, in order, on its own connection; the end of file only at
  the end; what is put back is what was got.
* Codec: the decoder ends each value where the encoder did, refuses what is not
  complete, and returns what was encoded; a text fits where it is printed.

## Modules

| module | models | run(s) |
|---|---|---|
| `LockSet` | `lockset.cc`, a step per access that other threads can see | `lockset` |
| `KeyLocks` | what LockSet promises: keys possessed exclusively | refined in `lockset` |
| `LockSetProof`, `LockSetRefinementProof` | theorems about LockSet | |
| `Manager` | the Manager, its workers, `wait`'s thread and `close` | `manager`, `manager_async`, `manager_signal`, `manager_wakeup`, `manager_handler` |
| `Server` | the Servers, the kernel under them, the clients, the Handler | `server`, `server_live`, `server_full` |
| `ManagerProof`, `ServerProof` | theorems about Manager and Server | |
| `Loop` | what a Server is to its Manager | refined in `manager`, `server_live` |
| `BufIO` | a BufWriter and a BufReader over a pipe | in `bufio` |
| `FdBuf` | an fdbuf at either end of BufIO's pipe | `bufio`, `fdbuf_sync` |
| `FdBufProof`, `FdBufRefinementProof` | theorems about FdBuf, with BufIO in it | |
| `Stream` | what all of them promise: a stream of bytes | refined in `bufio` |
| `Slice` | `slice.c` | in `codec` |
| `CodecValue` | a value, a part at a time, and what the codecs share (`codec.h`, `bigendian.c`, the bounds check) | in `codec` |
| `SimpleCodec`, `BincCodec` | `simplecodec.c`, `binc.c`: one call of the encoder and of the decoder | in `codec` |
| `CodecPrint` | `codec_value_print`: what a call writes before, in and after its loop | in `codec` |
| `CodecStream` | a sender and a receiver of a stream of values in either format, call by call | `codec` |
| `CodecProof`, `CodecStreamProof` | theorems about the codecs' operators, and about their use | |

Each `MC...` module gives a specification the values that its `.cfg` files name.  A
definition called `Mutant` in its comment is not part of a model: nothing refers to
it, and `PROJECT.json` says which definition it stands in for.

### LockSet

State and code: `mu` is `LockSet::mu_`, `table` is `m_`, `owner[l]` and `count[l]` are
a Lock's `mu_` and `count_`, `locks[t]` is the `locks_` of the thread's LockSetLock.  A
key is a number, its place in the order of `std::sort`; 0 is the empty string.
`Call` is the sort and `initsz` (`lockset.cc:19-21`); `Enter`, `Skip`, `Find`, `Miss`,
`Make` and `Leave` are the loop under `mu_` (22-29); `LockNext` and `Return` the second
loop; `Destroy`, `UnlockNext`, `Uncount` and `Clear` the end of the scope.  Looking a
key up and making its Lock are two steps, as they would be without `mu_`.

`Discipline` says how a thread calls `locksFor` again on a LockSetLock that holds
Locks, which the code allows: never, only with greater keys, or at will.  At will,
two threads can wait for each other, and a thread for itself; the header does not say
which use is meant, so the runs and the theorem state the rule they need.

Run `lockset`: three threads, two keys, vectors with a repetition, an empty key and
both orders; one thread calls twice.  Two threads are enough for every race in the
table, three for a cycle that is not a swap.  Fairness: a thread that can run runs, and
scopes end.  No mutex is fair: calls are finite, so nobody is passed over for ever.
It shows `KeyExclusion`, `NoWaitCycle` (for subsets of threads, so a partial deadlock
counts), `ZeroCountIsUnused` (what a removal of unused Locks by the count would rely
on), `CallsReturn` and the refinement of `KeyLocks`.

### Manager

One process is the thread that calls `run` and `wait`, the others are the workers and
the calls of `close`.  `Closers` are the places `close` may be called from and
`HostOf[c]` the thread there: the owner's, a worker's, which then stand still while the
handler runs (`CanRun`), or `Other`, a thread apart.  Several may be in `close` together:
`Close` is the test of `closing()`, `StoreState` the store, and two calls can both pass
the one before either does the other.  `pc` names the places in the code.  A worker is
what the Manager sees of a Server: `CheckClosing`, `Poll`, `Ready` or `Timeout` or
`HandleSignal`, a LOG, and `Decrement` and `NotifyAll`.  With `WaitMayFail`, `epoll_wait`
may also fail (`PollFail`), and the LOG between `epoll_wait` and the test of `errno` may
turn an interrupted wait into a failed one (`Interrupted`): then the worker logs and ends
with the Manager not closing.  `Open` and `Destroy` are the two ends of `listenfd_`;
`OpenThrow` is what `errnoChk` does with every failure of `listenport`: a LOG, and an
exception.  A LOG of a level below `minLevel` returns before the mutex (`LogSkip`);
otherwise it holds the mutex for a write (`LogLock`, `LogUnlock`).  `MinLevels` are the
levels that the Log may be set to.

| run | instance | shows |
|---|---|---|
| `manager` | 2 workers that may fail, a finite poll timeout, `wait` and `close` twice, `close` as a handler on the owner's thread and on the second worker's, a Log at TRACE or INFO | `CountAtWait`, `WaitedThenGone`, `SignalsLiveThreads`, `StopAfterClose`, `ImplementsLoop` hold |
| `manager_async` | `close` on a thread apart | violated: `SignalsLiveThreads` |
| `manager_signal` | the default timeout, -1 | violated: `StopAfterClose` |
| `manager_wakeup` | a finite timeout | violated: `WaitReturns` |
| `manager_handler` | `close` as a handler, the Log at TRACE | violated: `CloseDoesNotBlock` |

Two workers give an order between them, a first and a last, and one on the calling
thread.  The handler is on the second because `wait` joins the first before: on the
first it would keep `wait` from every join by being the first to be joined, even if the
count were wrong.  Fairness: code that can run runs, a pending signal is handled, a finite
timeout passes, and the Log's mutex, held for one write, is had in the end by who
asks for it (strong fairness).  Events, spurious wakeups and calls of `close` may never
come.  `CHECK_DEADLOCK FALSE`: the system really can stop, with `wait` asleep and every
worker gone, which is what `manager_wakeup` is about.

`close` starts only when `run` is not in the middle of `push_back` (`ThreadsSettled`):
what a torn vector does is beyond the model.  A second `wait` ends in the exception of
`join` (`JoinThrow`), as `S_STOPPED` is never stored.

`SignalsLiveThreads` needs something that keeps `wait` from joining while `close` goes
through `threads_`.  For a handler that is the thread under it: a worker that has not
gone through `serverDone`'s decrement, or the owner's before any join.  It stands still
until the handler returns, whichever other workers fail meanwhile.  A handler that comes
later than that, on a worker past its decrement or on the owner's thread after a join,
has nothing of the kind, and neither `state_` nor `threads_` tells it so: the property
leaves such calls out (`late`, by `KeepsWait` at the call).  On a thread apart, some
worker that is still to decrement is what there is when `close` is called, and it does
not stand still: once `state_` is stored it can end, be joined, and be signalled then.
That is `manager_async`; such a `close` is not in the run `manager`, nor in the theorem.

### Server

A step is the code from one system call, or Handler call, to the next.  The kernel is a
table of descriptors, the lowest free one given first; a backlog; a ready list per epoll
instance, to which an edge adds and from which `epoll_wait` takes.  What `epoll_wait`
reports is the state at that moment, in any order.  The Handler reads all there is,
keeps a state for a descriptor until `unregisterFd`, and may fail at any call.
In `acceptClients` other threads and the clients act between the look at `closing()`
(`AcceptGoOn`), `accept4` (`Accept4`) and `addFd` (`Added`, `NotAdded`).  `accept4` fails
for want of a descriptor, whether or not a connection waits, as Linux takes the
descriptor first; with `AcceptMayFail` also for other reasons (`AcceptFail`), or with the
error of a connection that its client has given up (`AcceptAborted`).  `Failing` are the
Servers whose `epoll_wait` may fail, or seem to after its LOG; with `AddMayFail`
`epoll_ctl` may refuse a connection, and the listening socket as well (`StartDeaf`).

`ErrorsCounted` says that `hasServerErrors` tells of a connection that nobody manages, of
a Server that hears of no connections and of one that ended unasked.  It does not tell
of errors of the Handler or of purging (`conn_epoll.cc:146-148, 213-214`), which are
logged only.

| run | instance | shows |
|---|---|---|
| `server` | 2 Servers, 2 connections, 2 descriptors; `epoll_ctl`, `epoll_wait` and `accept4` may fail | `TouchesOwn`, `HandlerStateIsCurrent`, `ErrorsCounted` |
| `server_live` | 2 Servers, 2 connections, 3 descriptors, no failures | `NoLeak`, `EveryoneAccepted`, `DataHandled`, `StopClosesAll`, `ImplementsLoop` |
| `server_full` | one descriptor, two connections | violated: `DataHandled` |

The lowest free number is given first, so that a number goes from a connection of one
Server to one of the other as soon as it is closed; with both connections open the table
of `server` is full and `accept4` fails.  In `server_live` it never is, or `accept4` would
loop (`server_full`).  A connection that `epoll_ctl` refuses after `accept4` is in no
`clientfds_` and is never closed (`conn_epoll.cc:269-273, 293`): `NoLeak` is checked, and
proved, where that does not happen; where it does, `ErrorsCounted` is what is left of it.
`server` uses symmetry (safety only); the live runs do not.  Fairness: each
Server's thread runs, and once the Manager closes its `epoll_wait` ends (module Manager
says when that is so).  Clients need do nothing.  `EveryoneAccepted` is checked without
failures of `epoll_wait`: the listening socket is added with EPOLLEXCLUSIVE, so a
Server that ends can take with it the only wake-up for a connection.

Manager and Server are composed by an interface, `Loop`: a loop that looks at
`closing()` before every wait, leaves when it is set or a wait fails, and then comes
to its end.  Manager's workers implement it, with signals, LOGs and errors; so do the
Servers of Server, with their batches and connections (`ImplementsLoop` in both).  What
one assumes the other shows: Manager, that a worker which is not in `epoll_wait` comes
back to `closing()` (in Server, `StopClosesAll`); Server, that `epoll_wait` ends after
`close` (in Manager, `StopAfterClose`, which needs a finite timeout).

### BufIO and FdBuf

The bytes are 1, 2, 3, ...; a wrong, lost or repeated byte is a wrong number.  Every
`read` and `write` is a step with all the kernel may answer.  `Reset` gives both ends
the next connection, whose bytes are counted from 1 again: a byte or an end of file of
the old one is then in the wrong place.

`FdBuf` puts an fdbuf at either end instead (`writer`, `reader`).  `outbuf` is the
array from `pbase()` to `pptr()`, `inbuf` from `eback()` to `egptr()`, `gnext` is
`gptr()`; `seen` is how far the characters have been got, which `sungetc` does not undo.
Steps are `sputc`, `pubsync`, `sbumpc` and `sungetc` and what they call (`FdOverflow`,
`FdSync`, `FdUnderflow`), `close`, and the second `close` that the destructor or `open`
makes of the same number (`FdCloseAgain`).  `fd_` is not reset, so the second one writes
what the first left in `outbuf_`, and closes the descriptor, of whoever has the number by
then.  That is the next connection here: `NewConnection` may give it the number of the
last one (`old`, `stale`), and at any time after, also before the first byte as `open`
does, the old fdbuf writes to it and closes it under its writer, who goes on without
knowing.  `spoilt` says that old bytes got in.
When `overflow` has no room left, `FdOverrun`, the model stops: that is beyond `outbuf_`.

The refinement maps `Stream`'s `sent` to the bytes that `writen` and `sputc` took of the
connection, and `received` to those that `readn` and `sbumpc` gave out of it: a step may
only give out what continues `received` as a beginning of `sent`.  The buffers and the
pipe in between do not occur in it.  Run `bufio`: buffers and a pipe of 2, requests of up to 3
(smaller than, equal to and larger than a buffer), 5 bytes, 1 retry, two connections,
an fdbuf of 2 with 2 characters of put-back, all four pairs of ends.

* `ImplementsStream`: what comes out is what went in, from the first byte on, so that none
  is lost in between, repeated, overtaken or changed, and none is of another connection;
  but if an old fdbuf has written to the connection (`spoilt`), anything may come out.
* `EofIsTheEnd`, `ShortReadExplained` (a short `readfull`, or a `readn` that brings
  nothing, leaves a reason; not that it is the last failure's), `CallsEnd`: of the
  BufReader.
* `UngetIsWhatWasGot`: what `underflow` keeps is what was got last.
* `RoomForOne`: `overflow` lacks room only behind a write that took nothing and that
  `sync` called a success.  That lack itself, which is the code's, it permits.

`fdbuf_sync` shows that it does call it so.  Fairness: the BufReader's thread runs; the
writer need not, and nothing is assumed of the streambufs.

### Codec

The functions that encode, decode and print a value call themselves for what it
contains, so they see its parts in pre-order: a container, then its elements.  A value
is here a sequence of such parts, each a type, its data (an integer is its eight bytes)
and the count of what follows it; there is no recursion in the model.  `SimpleEncode`
and `BincEncode` append one part to a `Slice`, which has `Line` for the 64 of the code
(4 in the run, so that most writes grow the block); `SimpleDecode` and `BincDecode`
return the part, the position and whether `*err` is set.  What the code makes of values
is modelled as it is.  Simple: integers wider than a byte are read by their first byte
(`Readn`), floats as integers (`NumberOf`).  Binc: an integer or length of two bytes has
no descriptor (`BincEncodeUint`), one of more than four loses its high half
(`PruneBuffer`), floats are cut where a loop over the wrong type happens to stop (`k` in
`EncodeFloat`), the bytes of an extension are those of a pointer (`Address`).  The
printer's `snprintf` has the room it is told, cuts, and returns what it would have
written (`Snprintf`); `PrintHead`, `Separator`, `PrintByte` and `PrintTail` are the
pieces of `codec_value_print_r`, `PrintNul` the end of `codec_value_print`.

`CodecStream` sends values into one slice; the receiver, a caller outside the library,
decodes what has arrived, and prints what it got into another slice.  A step is one of
the calls that a function makes of itself.  `owed` and `left` count those that the
encoder and `decode_r` have still to make, `open` holds those of
`codec_value_print_r` that have not returned, with the turns of their loops.  `format`
is one of the two, `reuse` says whether the receiver decodes into one `codec_value` all
the time.  Simple's decoder looks for the end of its input, which may be cut at any
byte; Binc's does not, so its receiver has whole messages only.  A refusal gives up the
parts of the value begun (`Reject`): the receiver starts it again when more has come.

The test for the end of the input adds the length to the position in a `size_t`
(`codec.c:140`).  A length near 2^64, which `readn` makes of a char with a sign bit and a
wide descriptor, or a decoder of a length that was cut, wraps, so that the test can pass
and the position move backward.  Such a length is below zero in the model (`Length`), and
`Past` is the test with its wrap; bytes of that length are marked (`Wild`), as no slice
has them.  An ARRAY or a MAP of that length gets no memory from `calloc`, and its first
element is stored through NULL: the decoder stops there (`Crash`), and so does the model
of its caller.  A MAP whose length was cut is entered all the same
(`simplecodec.c:281-286`).  `WideLengths` in MCCodecStream has vectors for each.

Run `codec`: up to three parts, in one value or two, of 28: every type, empty and
nested, integers of every width and at the ends of what is pruned.  Three parts are the
least for a map whose pair is cut in the middle, and for a value after one that is
nested.

* `InStep`: sender and receiver agree on the boundaries, and on the calls still to be
  made, also for values that come out wrong, as long as each part `HasDescriptor`: an
  integer of Binc has one, and lengths and counts are less than 256.
* `NothingRejected`: only what is not complete is refused.
* `RoundTrip`: what is decoded is what was sent, for the parts of which
  `PartSurvives` describes what the format can carry, and `TypeSurvives` what a reused
  `codec_value` does to BYTES; their text is the list of what does not.
* `Room`, `PrintRoom`: every write lies in its block, with the NUL that
  `slice_bytes_append` puts behind (`over` in `Slice`); for the printer, if no byte of
  BYTES or of an extension prints as more than the two characters it makes room for.
* `PrintedWhole`: no text is cut, if besides no number has more than fifteen characters.

Bounds.  `MaxParts` and `MaxMessages` bound what is sent; `MaxLength`, somewhat
less than 2^28, is the length of the longest data and slice: below it the sum of a
position and a length wraps only for a length that is read wrong.  `FloatWidths` are the widths
that `%f` may give: one that fits and one that does not.  A container of 256 and more is
never sent in Binc (`Encode`): the loops of its encoder count in a `uint8_t`, and do not
end (`binc.c:193, 198`).

`CHECK_DEADLOCK FALSE`: at the end of the stream nothing is left to do.  Lengths above
255 would need values of that size, and are not in the run; two messages are enough for
a position, a reused value or a text to be wrong for the next.  The theorems are about
any.

## Disagreements between the code and its text

1. `manager_signal`: a worker between `closing()` and `epoll_wait` misses the only
   signal `close` sends; with the default timeout it stays (`conn_epoll.cc:173-175`,
   `conn.h:86`).
2. `manager_wakeup`: `serverDone` notifies without `mu_`; `wait` can sleep for ever
   after the last worker ended (`conn.h:129-132`).
3. `manager_handler`: `close`, "likely called by a signal handler", says "Do not
   block" and locks the Log's mutex (`conn_epoll.cc:116-120`).
4. `manager_async`: `close`, "async", on a thread of its own stores `state_` and then
   signals threads that `wait` may have joined by then (`conn.h:123`,
   `conn_epoll.cc:118-119, 131`).
5. `server_full`: when `accept4` fails for want of a descriptor the loop has no way
   out, and the Server serves nobody (`conn_epoll.cc:281-295`).
6. `fdbuf_sync`: `sync` is to be a success "if the stream made some progress", but
   returns success after a write that took nothing (`fdbuf.cc:42-53`).

## Proofs

### LockSet

The theorems are for any number of threads, keys, key vectors, calls and addresses.
They use only the named assumptions of the module: NumKeys is a number,
key vectors are vectors of keys closed under sorting, the null values are none of the
others, and the bounds of calls are numbers.

* `Typing`: `Spec => []TypeOK`.
* `Exclusion`: `Spec => []KeyExclusion`.
* `DeadlockFreedom`: if `Discipline` is not "any", `Spec => []NoWaitCycle`.
* `CountIsUse`: `Spec => []ZeroCountIsUnused`.
* `Refinement`: `Spec => ImplementsKeyLocks`, whatever the discipline.

`KeyExclusion` is not inductive: it says nothing before `locksFor` returns.  `IInv` adds
what makes it so.  While a thread is in the first loop it alone has `mu_` (`MutexOK`),
so a key it did not find stays absent until it makes the Lock (`MakeOK`), so no Lock
has two keys (`TableOK`).  Every key asked for is still to be looked at or has its
Lock in `locks_` (`AskedOK`, with `LastOK` for repetitions that are passed over); every
Lock in `locks_` before `next` is locked by the thread (`OwnerOK`), and what is locked
is in such a place (`HeldOK`).  When two threads are at "held", a key of both has one
Lock with one owner: they are the same thread.  There is one lemma per action, with a
step per conjunct.

`DeadlockFreedom` adds `OrderOK`: the keys still to be looked at ascend and lie above
those whose Locks are in `locks_`, which are in the order of their keys.  In a set of
threads that wait only for each other nobody waits for `mu_`, as its holder goes on;
the thread that waits for the greatest key waits for one that has locked it, and so
waits for a greater one: a contradiction.

`CountIsUse` needs what the count is exactly, not only when it is zero: `CountOK` says
that the places in LockSetLocks which a Lock is counted for are a finite set, and the
count its cardinality.  The places of other threads do not change when one pushes a Lock
or counts it down; its own set gains its last place, or loses the one at `next`.

`Refinement` maps `want` to the keys asked for, `holds` to the keys whose Locks a thread
owns.  Locking a Lock is
`Take` of its one key, which nobody holds as a Lock has one owner; unlocking is `Drop`;
a call is `Ask`, the end of a scope `EndScope`; the rest is stuttering.  `IInv` is not
enough: that the key was asked for, and that a thread asks and ends its scope only when
it holds all that it wants and nothing else, needs `WantedOK`: until the scope ends, no
Lock in `locks_` and no key yet to be looked at is of a key that was not asked for.

TLC checked the four invariants on the instance of `lockset` before they were proved.

### Server

For any number of Servers, connections and descriptors, any buffer, and with or without
failures of `epoll_ctl`, `epoll_wait` and `accept4`; from the named assumptions of the module
(there is a descriptor, a buffer holds something, no connection is `NoConn`).

* `Typing`: `Spec => []TypeOK`.
* `OwnDescriptors`: `Spec => []TouchesOwn`.
* `HandlerCurrent`: `Spec => []HandlerStateIsCurrent`.
* `NothingLost`: `Spec => []ErrorsCounted`.
* `NoneLeaked`: if not `AddMayFail`, `Spec => []NoLeak`.
* `ServersAreLoops`: `Spec => ImplementsLoop`.

Not even the types are inductive: `EpollWait` looks up the connection behind a ready
descriptor.  `IInv` says of every place in which a Server keeps a descriptor (interest
and ready list, batch, `clientfds_`, the one it works on) that the descriptor is of an
open connection which this Server accepted (`Own`).  A descriptor has one owner, so a
`close` takes nothing from another Server; for the one that closes, the event at hand
was the only one for its descriptor in the batch (`BatchOK`) and the number has left
`clientfds_`, or the iterator at the end of `run` has passed it (`ClientsOK`, `CurOK`).
`accept4` gives a number that nobody keeps, as it is free, and the Handler has no state
for it: `purgeFd` unregisters first (`ForgottenOK`).  That the iterator and the kernel
find a least descriptor rests on the well-foundedness of the natural numbers.

There is one lemma per action; `AloneKeepsServer` settles once what another Server's
step does to a Server.  TLC checked `IInv` on the instance of `server` first.

`NothingLost` adds to `IInv` what each Server still keeps (`Kept`): a connection in its
`clientfds_` that the iterator at the end of `run` has not passed, or the one `purgeFd`
works on.  Every open connection has an owner (`Owned`), and what its owner does not keep
is counted, or will be when `acceptClients` returns (`LeaksCounted`).  `Managed`,
which the property speaks of, would not do: after the iterator, `clientfds_` still names the
descriptors it closed, and `clear` would seem to lose them.  With `Kept`, a Server at its
end keeps nothing, so that whatever it owns then is counted; this needs that the iterator
starts before every descriptor (`WaitsAtStart`) and passes none (`PurgeCounts`).  TLC
checked `EInv` on the instance of `server` first.

`NoneLeaked` needs no more: what an owner does not keep is there only if `epoll_ctl` may
fail to add, whatever becomes of waits, of `accept4` and of the race for the listening
socket.  With `AddMayFail` it is false; `ErrorsCounted` is what is then left of it.

`ServersAreLoops` needs of `IInv` only that a Server in `epoll_wait` has not seen
`closing()`, and one at its end has: every other step stays within the loop's body.

### Manager

For any number of workers, on the pool or one on the owner's thread, any number of
waits and closes, any timeout, and whichever workers may fail; from the named
assumptions of the module (there is a worker, the bounds are numbers, the names of the
threads differ).

* `Typing`: `Spec => []TypeOK`; `numWorkers_` lies between -1 and the workers.
* `CountIsRight`: `Spec => []CountAtWait`.
* `NobodyLeft`: `Spec => []WaitedThenGone`.
* `SignalsAllowed`: if `close` is never called on a thread apart (`HostOf[c] # Other`),
  `Spec => []SignalsLiveThreads`.  Without that it is false (`manager_async`), and `late`
  calls are exempt, as above.
* `WorkersAreLoops`: `Spec => ImplementsLoop`.

`numWorkers_` is the number of workers that `run` has counted less the number that
`serverDone` has taken off, as cardinalities of two sets.  At most one worker has been
started and not counted, and only while `run` is starting it, so the count is never
below -1, and it is right once `run` has returned: before any `wait`.  `wait` comes to
its joins only when every worker has been taken off, so all are past the decrement,
and those before `nextJoin` have ended.  A handler stands between `wait` and its joins:
it runs on top of a worker that has not yet been taken off, or of `wait`'s own thread
before it joins, and its host stands still, so nobody is joined while it signals
(`KillOK`).  Of a `close` on a thread apart, `IInv` says nothing.

### BufIO and FdBuf

For buffers, pipes, requests and put-back areas of any size, any number of bytes,
retries and connections, and all four pairs of ends; from `SizesAssumption` (the sizes
are numbers, and a BufWriter, a BufReader and the pipe hold something) and
`FdSizesAssumption` (`outbuf_` holds two characters).

* `BufTyping`: `FdSpec => []TypeOK`, and `Typing`: `FdSpec => []FdTypeOK`.
* `EndIsTheEnd`: `FdSpec => []EofIsTheEnd`.
* `UngetGivesBack`: `FdSpec => []UngetIsWhatWasGot`.
* `OverflowHasRoom`: `FdSpec => []RoomForOne`.
* `ShortReadHasReason`: `FdSpec => ShortReadExplained`.
* `IsAStream`: `FdSpec => ImplementsStream`.

`IInv` has two sides.  At either end the class that is not in use holds nothing.  The
writer is idle once its end is closed, and has bytes to flush, or a request larger than
its buffer, only in between.  `fill` is called only with an empty buffer, so a `read`
that returns 0 is the end and not a lack of room, and when it brings nothing it leaves
`eof_` or `errno_`.  The characters behind `eback()` that were given out are the last
ones that were, place by place (`GivenOut`), and at least as many as may be put back;
`underflow` moves as many as there are, or `Putback` of them.  A step of one side leaves
the other as it was, so there is one lemma per action and one for each side.

`IsAStream` rests on `Conserved`: the bytes given out, followed by those on their way in
the reader's buffers, the pipe and the writer's buffers, are the bytes taken, 1, 2, 3, ...,
unless the connection is `spoilt`.  A step of the writer adds at the end or moves bytes
between its buffers and the pipe; one of the reader gives out the first, or moves bytes
between its own and the pipe, which needs concatenation to be associative and nothing else.
So what is given out is always a beginning of what was taken.  Only `FillEnd` ends the
stream, only `FdCloseAgain` spoils one and only `NewConnection` begins another.

TLC checked each `IInv` on the instance of the module's run first.

### Codec

For parts of any type and any size up to `MaxLength`, any number of them and of values,
either format, any cuts, a `codec_value` used again or not, and any `Line`; from
`StreamAssumption` (the parts are values a caller may have encoded: data of the size of
their type, data and counts of at most `MaxLength`), `LineAssumption` (a line is not empty) and
`PointerAssumption` (a byte of an address is a byte).

* `Typing`: `Spec => []TypeOK`.
* `RoomThere`: `Spec => []Room`, the NUL included.
* `PrintingRoom`: `Spec => []PrintRoom`.
* `PrintingWhole`: `Spec => []PrintedWhole`.
* `StaysInStep`: `Spec => []InStep`.
* `OnlyCutRejected`: `Spec => []NothingRejected`.
* `Returned`: `Spec => []RoundTrip`.

`CodecProof` is about one call.  Every operator of `Slice` keeps `Fits`, and an encoder
only adds to its slice the bytes of its part (`Grew`), which `SimpleImage` and
`BincImage` say without the slice; a decoder that does not fail goes on, and makes a part
with data of its type, or marked as bytes that no slice has (`Wild`), unless Binc finds a descriptor that leaves the memory as it was.
On these rest two theorems about a decoder before the image of a part, wherever it
begins and whatever follows it:

* `SimpleReads`: if the image is cut, at any byte, the decoder fails; else it stops
  where the image ends, calls itself as often as the encoder did, and its part is the
  one encoded if `SimpleCarries` it.
* `BincReads`: the same for whole images, and `BincCarries`.

Both have lengths of less than 256, as each decoder reads only a byte of a longer one
(`simplecodec.c:172`) or finds no descriptor (`binc.c:103`).  The cases follow the
descriptors; for an integer that Binc prunes the argument is that the bytes left out are
zero, or the sign of what is left, so that `DecodeUint` puts zeros where there were some
and the integer survives if it `Fit`s in four bytes and is not a negative one that lost
its 255s.

`CodecStreamProof` is about the stream.  `Typing` says nothing of the step
after a store through NULL, as there is none.  `Typed` needs that a receiver between two values
keeps all it has decoded, and a printer is not ahead of it.  For `Printing`, only the
innermost open call can be of a part with bytes, since what is around it contains parts;
before its loop, room was made for two characters of each byte, of which every turn uses
up its own (`RoomForBytes`).  That the text is whole until some number or byte is too
wide is an invariant only together with the room.

`InStep` is not inductive: it says nothing of where the bytes come from.  `Stepping` adds
that the sender's slice is the images of the parts one after the other, whose calls add
up (`Sent`), that Binc's receiver has whole parts (`WholeParts`), and of the receiver that
it is where the next part begins with as many calls to make as were due there
(`InPlace`), that what it keeps ends with a message (`AtMessage`), and that it has no
whole message beyond (`InMessage`).  Then the part that it decodes next is one of those
two theorems' (`PartRead`).  `Patient` adds for `OnlyCutRejected` that who waits was
refused a message that has not arrived whole: a failure within a message means that
the message is cut, or one of its parts would have been read.  `Returned` adds `Reused`:
the reused `codec_value` holds the head of the last message, so that `TypeSurvives` says
what `SimpleCarries` needs.  TLC checked these invariants on the instance of `codec`.

### Only model-checked

Liveness (`CallsReturn`, `StopAfterClose`, `EveryoneAccepted`, `DataHandled`,
`StopClosesAll`, `CallsEnd`), as the prover does not reason about fairness and ENABLED;
and `TestVectors`, which are values.  Every other property of the passing runs is a
theorem.

## Not modelled

* `codec_value_free`, `codec_value_free_map`, `slice_bytes_free`: strings decoded by
  Simple point into the input, others are blocks of their own, and the field that the
  comment at `codec.h:129` lets decide does not exist.  There is no rule to check.
* The text and numbering of the Log's lines: nothing in the code says what
  readers may rely on.  Its level, its mutex, and the `errno` it may replace, are in Manager.
* What is undefined: a torn `threads_`, Binc's reads past its input, Simple's
  stores through NULL, an fdbuf's character behind its buffer, an overflow of `int` in `writen`.  The models stop there.
* The mock for systems without epoll, the build files and the (mostly empty) tests.

`PROJECT.json` lists the hazards, also some that no property covers, each with the
reason.  Others that were met and are outside the models: `listenport` leaves its socket
open when it throws, and the destructor then closes -1 and hands a `std::string` to a
`%s` (`conn_epoll.cc:77-93, 139`); a hang-up that comes with data drops the data (206);
a second `wait` throws (131), which is an outcome of Manager; buffers destroyed before a
flush, or by one partial write of `fdbuf::close`, lose what is left (`bufio.h:18`,
`fdbuf.cc:23`); `n + n_` overflows an `int` (`bufio.cc:104`); counters
of one byte in Binc's loops never reach 256 (`binc.c:137`); lines of the Log can come out
of the order of their numbers, and with each other's time (`logging.cc:61, 66`).

## Plan

Written: LockSet with its abstraction, Manager and Server with Loop between them, BufIO
and FdBuf with Stream, the two codecs with the stream between them and the printer, all
with their proofs.  Left:

1. Action properties of the receiver, and their theorems: that values once kept are
   never taken back or changed, and that the text of one call is never written over by
   the next.
2. Shorter proofs, where the two codecs repeat an argument about lengths and blobs.
