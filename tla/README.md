# A verification project for dan_server

dan_server is a single-threaded TCP server: coroutines on top of one epoll set,
protobuf messages framed by a 2-byte identity and a 4-byte length, and handler
modules chosen by the identity. This directory holds TLA+ modules translated from
its source, TLC configurations that check them, and proofs for TLAPS. Paths below
are relative to `src/dan_simple_server/src/`.

## The system

| Part | State | Operations | What makes it correct |
|---|---|---|---|
| Light-thread manager, `network/dan_light_thread_mgr.hpp`, `dan_light_thread.hpp` | worker table, intrusive list of idle workers, count of busy ones, current worker, a ucontext per worker | factory, resume, yield, done callback | the list holds exactly the finished workers; the count is exact; only unfinished jobs run |
| Scheduler, `network/dan_scheduler.hpp` | epoll set, `danFd_t` objects, `waitingFds_`, task queue, `stop_`, timers | `run`, `assignTasks`, `lightThreadPoll/Accept/Recv/Send`, `broadcast`, `stopApp` | an event wakes the coroutine that waits for it; no wake-up is lost; stopping ends every coroutine |
| Server, `dan_net.hpp` | `sessions_`: descriptor to session | `acceptFunc`, `recvMsgFunc`, the tick `procMsgFunc` | each accepted connection is served and closed once, by its owner |
| Session, `dan_session.hpp` | receive and send buffers, framing state, `pFd_`, `isAlive_` | `recvFromFd`, `procMsg`, `sendToFd`, `onSend` | messages are cut from the stream exactly; each reply is sent once, to who asked |
| Object pool, `dan_obj_pool.hpp` | list of free objects, counts | `getObj`, `reclaimObj`, clean-up, `clearPool` | an object has one user; none leaks, none is deleted in use; the list stays bounded |
| Message, packet, byte stream, `dan_message.hpp`, `dan_packet.hpp`, `dan_byte_stream.hpp` | packets, read and write positions | `fillMsg`, `finishMsg`, reads and appends | the packets of a message hold its bytes, in order, none twice |
| Timers, `network/dan_timer.hpp` | heap of (time, `danFd_t`) | add, pop, gap | a timer runs when due, not before, and before those due later; the tick never stops |
| Stack memory, `network/dan_heap.hpp` | a mapping with guard pages | alloc, free | the bytes asked for are usable, a forbidden page on either side, all unmapped in the end |
| Dispatch, `dan.hpp`, `dan_mod.hpp`, `mod/*` | two constant maps | identity to name and back, `modFactory`, the modules' handlers | a request is answered with its own reply's identity |
| MySQL client, `db/dan_mysql.hpp` | handle, connected flag; of a statement the arguments and rows | connect, disconnect, set*, query | each handle is closed once; arguments land in their places; rows are the last query's |

How they interact. `danNet::run` queues `acceptFunc` and starts the scheduler's loop.
The loop gives queued tasks to coroutines, waits in `epoll_wait`, and switches to the
coroutine that `lightThreadId` of the event's `danFd_t` names. A coroutine that would
block records itself in its `danFd_t` and in `waitingFds_`, registers with epoll and
switches back (`lightThreadPoll`). `acceptFunc` queues a `recvMsgFunc` per connection;
`recvMsgFunc` fills a session's buffer; the tick, run by the timers between two waits,
handles one message per session and queues an `onSend` per reply, which sends through the
*receiver's* `danFd_t`. SIGINT sets `stop_`; the loop then wakes every coroutine in
`waitingFds_` with a closing event.

There is one thread, so the hard part is not data races but what a coroutine finds when
it is switched back to: objects freed and reused, descriptor numbers reused, entries left
in maps, two coroutines on one `danFd_t`, events of one batch that earlier events of the
batch made stale; and peers that connect, send, close, reset and stop reading at any
moment, between any two system calls. Nothing is persisted, so there is no recovery.
`PROJECT.json` lists the hazards, each at its line, with the properties aimed at it.

## The modules

| Module | What it is |
|---|---|
| `CoroutinePool` | abstract specification of the light-thread manager: idle workers, the job of each busy one, who runs |
| `LightThreadMgr` | the manager as coded: table, intrusive list, contexts; implements `CoroutinePool` |
| `LightThreadMgrProofs` | its theorems |
| `Kernel` | external: sockets, descriptor table, level-triggered epoll, and the peers |
| `Scheduler` | `dan_scheduler.hpp` over `Kernel` and `CoroutinePool` |
| `Server` | `dan_net.hpp` and the shared part of `dan_session.hpp` over `Scheduler`; the closed system |
| `SequenceLemmas` | lemmas several proofs need: functions as sequences, the least counterexample, sequences put together |
| `SchedulerProofs`, `ServerProofs` | the inductive invariant of `Server`: its part about coroutines and epoll; the types, its part about sessions and replies, and the theorems |
| `UntroubledProofs` | the theorems about `Server` when no send fails or has to wait |
| `MCServer` | request counts and the symmetry of connections, for TLC |
| `ObjSource` | abstract specification of an object pool: the objects that exist, and those in callers' hands |
| `ObjPool` | `danObjPool` as coded; implements `ObjSource` |
| `ObjPoolProofs` | its theorems |
| `Dispatch` | the identity maps, `modFactory` and the handlers, as operators |
| `MessageService` | abstract specification of a session: messages asked, handled, answered, without bytes; and whether an object has been used again |
| `Session` | one session at the level of bytes, over packets, messages and their pools; implements `MessageService` |
| `SessionProofs` | the theorems about `Session` |
| `MCSession` | lengths of replies, for TLC |
| `Timers` | the timer heap, with `procTimers`, `addTimer` and `createTimerFd` of the scheduler |
| `Heap` | stack memory, as a table of pages |
| `Mysql` | the MySQL client: life of the handles, and a statement with its arguments and rows |
| `Support` | the three modules above, which share no state, each on its own |
| `SupportProofs` | the theorems about the three |
| `Parts` | the manager, an object pool and `Support`, which share no state, each on its own, for one run |
| `MCParts` | intervals, characters, statements and strings, for TLC |

Sessions appear twice. `Server` asks what coroutines, descriptors and sessions do to each
other, and a message is a unit there; `Session` asks what happens to the bytes of one
connection, and there are no coroutines to wait there. The two meet in what they assume of
each other: `Server` that a message is whole and that the objects it is made of, messages
and packets, are new (`FreshObjects`), which `Session` gives up; `Session` that the
connection stays and its session is new, which `Server` gives up.

### LightThreadMgr

`workers_`, `idleWorkerFirst_`, `busyWorkersCount_` and `currentWorker_` are the members
of the same name; identities count from 1 because a worker is an index of a sequence.
`lightThread` is what each worker's pointer leads to: its job and the state of its
ucontext. `onCpu` is the context that really has the processor, which the code does not
record: the code's belief is `currentWorker_`. `WorkerFactory` is the factory with its two
branches, `WorkerResume` and `WorkerResumeRefused` the two outcomes of Resume,
`WorkerYield` and `WorkerDone` the two ways back to the main context. Yield and Resume
copy the table entry (`auto w=workers_[id]`), so what they assign to its status is lost;
the model leaves those assignments out for that reason, and the table never shows
WORKER_RUNNING.

### Kernel

Only what the server can observe: a connection waits in the backlog, is open or closed;
bytes are counted as requests; `shut`, `broken` and `full` say that the peer closed, reset,
or stopped reading until the socket's buffer was full. Descriptors are allocated lowest
first and reused at once. epoll maps a descriptor to the pointer and the events it was
registered with; adding a registered descriptor fails (EEXIST), and closing one
unregisters it. accept fails when the table is full. send to a reset connection fails or
raises SIGPIPE.

### Scheduler and Server

Granularity: the main context's steps are those of `run` (`pc` says where it stands); a
coroutine's step is one system call, or what follows it up to the next call or switch.
Peers and SIGINT may act between any two steps. `local` holds each coroutine's place and
the locals that outlive a switch.

- Memory. `danFd` is indexed by address. `calloc` returns a freed address or a new one,
  `free` marks the object. A dereference of the freed object's first field (`scheduler`,
  which the allocator overwrites) kills the process (`pc = "killed"`); reads of later
  fields see what was there, or the object now at that address.
- `lightThreadPoll` is `Park` (up to the switch), `Woken` (epoll_ctl DEL) and
  `PollResult`. Its timeout argument is ignored by the code, and the program never adds a
  timer for a descriptor, so no wait times out; `procTimers`' branch for them is
  unreachable and left out.
- `Dispatch` sets `readyEvents` and resumes the worker the event's object names at that
  moment; `Broadcast` does the same along `waitingFds_`, for the entries it held when the
  broadcast began (`BroadcastStable` says that is what the iteration sees). The order of a
  batch and of the broadcast is left open; the code has one order, so more is checked than
  can happen.
- Start and end. `Start` is `danNet::run` up to the loop: `tcpListen` fails or listens, and
  the task of `acceptFunc` is queued. `Destruct` is the destructor of `danNet`, which gives
  the sessions of the map back (`pc = "gone"`).
- Timers. `Tick` may run any number of times when the loop visits `procTimers`; why it runs
  again and again is the subject of `Timers`.
- `procMsgFunc` erases the entry its iterator stands on, then increments the iterator:
  undefined behaviour. After the first dead session, any of the sessions behind it are
  visited, or the process dies.
- Messages. Every request is one whole message, and a send takes a whole reply or nothing.
  A message is known by the connection it came from. `Asks` says whether messages get a
  reply. The assumption `FreshObjects` bounds a run so that no message and no packet is
  taken a second time: what a recycled one keeps is the subject of `Session`. It follows
  that what is checked and proved of `Server` is about the program only while its pools of
  messages and packets hand out new objects: after the 17th reply, finding 5 closes
  connections that `RequestAnswered` and the theorems about untroubled servers speak of.
- Recycled sessions. Session objects are taken again, with `recvBuffer_` and `sendBuffer_`
  as they were when the object went back: `RecvStart` only binds it and sets it alive, so that
  requests of an earlier connection may be answered to the next. The theorems hold with that;
  the runs have a session object per connection, and do not get there. The framing state it also keeps is not in
  `Server`; a `readyLen_` that is too large is what each session has from its second
  message on, because it is never decreased (`session_split`).
- `calloc`'s zero for `lightThreadId` is worker 0 in the code; it is always written before
  it is read, and the model's initial value is "no worker".

### ObjPool

`objs_`, `availableObjs_` and `totalObjs_` are the members; `isUsed_` is the flag of each
object; `alive` are the addresses between `new` and `delete`, `held` the objects callers
have. `elapsed` is `now-lastCheckTime_`, beyond `KEEP_TIME` no longer told apart. The first
pass of `getObj`'s loop either finds an object (`GetAvailable`) or grows the list and the
second finds one (`GetGrown`); `ReclaimObj` is `reclaimObj` as a whole, the clean-up
included, which is reached after a refusal too. `fresh` is a history variable. Callers give
back what they hold, once: the model assumes it, since nothing in `reclaimObj` checks it.
`ReclaimedOnce` shows it of the server's sessions; of messages it does not hold when two
senders of a session wait (`SendersApart`, finding 11), and then nothing said of the pool of
messages holds any more.

### Session, Dispatch and MessageService

A byte of the peer's stream is its place in the stream, so that a message found at a wrong
place, a byte lost or read twice, are visible; a byte of a reply is the message it answers,
its identity and its number. A packet is the size of its `data_`, `wpos_` and the bytes
between `rpos_` and `wpos_`. `Reply` are the bytes of a reply, and `Copied` those `fillMsg`
copies for it: more than the reply has when it needs several packets and does not fill the
last one (`Fits` says when the two are the same). The bytes behind it are what memory holds
there; the read may also leave the process's memory, and `ProcHandle` leaves open which. A message is its `packets_` (`packetCount_` is their number)
and `pCurrPacket_`, a sequence of at most one. `packetPool` and `messagePool` are the lists
of the two pools, with the objects as they were given back: first in, first out, grown by
`KEEP_SIZE`, as in `ObjPool`, whose limits are beyond the bounds of the runs.

| Action | Code |
|---|---|
| `RecvFromFd` | `recvFromFd` of one delivery, up to the next packet taken from the pool; a packet without room makes recv return 0, whether or not bytes wait |
| `ProcMsg` | one round of `procMsg`'s loop: `ProcMisread` when a field is read from a place that is none, `ProcAwait` the return for too few bytes, `ProcHandle` a whole message, with `sendToFd`, `ProcPartial` the branch for several packets, `ProcNext` the end of a round |
| `OnSend`, `SendPart`, `SendNothing` | `onSend`: its start, one `send`, which takes any number of the bytes it is given, and the failure branch |
| `PeerSend` | external: the peer sends a message |

`end` says how the session stopped: `"closed"` by the server, `"killed"` by a null pointer or
an exception nobody catches, `"misread"` when bytes that are no field were taken for one
(what follows depends on their values, so the model stops). `Quiet` lets the model stop
where the program has nothing left to do.

`Cuts = "message"` lets deliveries end where a message ends, and once where the first
message's header does, which `procMsg` does survive: `readyLen_` is still exact for the
first message, and the body comes in a packet of its own. A delivery also has to fit a new
packet: a longer one is cut by `recvFromFd` itself. `Cuts = "anywhere"` drops all that.

`Dispatch` has the program's real identities. A message whose type is known and whose module
registered a handler is answered; any other ends the process, as the code does.

### Timers, Heap, Mysql and Support

`Timers` keeps a timer as the time left until it is due. `Fronts` are the timers that can be
at the front of the heap (`push_heap` and `pop_heap` leave open which of equal ones). `Gap`
is `gap()` with its 32 bits, `Wrap` standing for 2^32; a timer without a timeout is due at
the last 64-bit microsecond, of which only the distance modulo `Wrap` matters (`toLast`).
`ProcTimers`, `RunTimer` and `ProcTimersDone` are the call, one round and the exit of
`procTimers`; a resumed coroutine adds its own timers by `AddTimer` between rounds, and time
passes anywhere. A unit of time is a microsecond: `DAN_MSG_TICK`, written in milliseconds,
is added to a clock in microseconds.

`MaxTimers` bounds the heap, and is at least the number of periodic timers.

`Heap` maps pages to what may be done with them. `Build` is constructor and `danHeapAlloc`:
`Rounded` tests the member that is still zero, so sizes are never rounded, and for a size
that is not whole pages the second `mprotect` gets an address that is not a page's: the
assertion fails (`aborted`). The program asks for 64 KB.

`Mysql` numbers the handles `mysql_init` returned; `mysql_` keeps a closed one. `Connect` and
`Destruct` call `disconnect` first, as callers may at any time; closing a closed handle
(`FreeTwice`) and executing a statement without an open one end the process, and `life` says
which. A string is a sequence of
characters of which only the marks matter. `makeSql` is the loop as a recursive function.
`Set` is what the four setters do after their test; `Rows` overlays a query's rows on the
last one's. `DoQuery` is `doQuery` where it succeeds; where it fails nothing changes.

## The runs

| Run | Configuration | States | Result |
|---|---|---|---|
| `server_quiet` | 2 connections, 1 request each, peers close and reset; 3 descriptors; no replies | 186 k | safety, `StopExits`, `RequestRead` |
| `server_patient` | 2 connections, 2 requests each, replies; peers stay and read | 193 k | `RequestsConserved`, `ReplyToSender`, `RequestAnswered`, `ParkedReachable` |
| `server_hostile` | 2 connections, 2 requests from the first, replies; peers close, reset, stall | 5.6 M | `RegistrationLive`, `ShutdownComplete`, `ReclaimedOnce`, `BroadcastStable` |
| `session` | 3 messages of 3 identities and 2 lengths; packets of 12 bytes; pools grown by 2; replies of 7 bytes and of exactly two packets, cut anywhere by send; deliveries of whole messages | 181 k | `RepliesExact`, `EndsForAReason`, `ImplementsService`, `MessageAnswered` |
| `parts` | manager: 2 jobs, table of 4; pool: 6 addresses, `KEEP_SIZE` 2, `MAX_SIZE` 3, `KEEP_TIME` 1, 8 objects built; 2 periodic timers, 1 descriptor, 32 bits taken for 2; 8 pages, 2 stacks; 2 handles, 7 statements, 3 strings | 310 k | the manager's invariants, `ImplementsPool`; `PoolExact`, `PoolBounded`, `FreshFirst`, `ImplementsSource`; `RunsInOrder`, `TickRepeats`; `StackGuarded`; `ConnectedIsOpen`, `HandleOwned`, `SqlExact`, `RowsCurrent` |
| `first_accept_lost` | as quiet, peers stay | | `AcceptedServed` violated |
| `sender_not_registered` | replies, peers stall | | `SenderRegistered` violated |
| `session_outlives_fd` | replies, peers close | | `SessionBound` violated |
| `session_split` | one message, cut anywhere | | `CutsHarmless` violated |
| `session_recycled` | 3 messages one by one, pools grown by 2 | | `ConnectionKept` violated |
| `overread` | one message, whose reply is one byte longer than a packet | | `MessagesSplit` violated |
| `senders_together` | as hostile, but peers only stall | | `SendersApart` violated |

What the properties say:

- `IdleListExact`, `BusyCountExact`, `ContextsMatch`, `CurrentIsOnCpu`: the manager's four
  records of who is idle, busy, finished and running agree, whatever the order of reuse.
- `RegistrationLive`: every pointer epoll holds, and every pointer of the batch being
  dispatched, names a live `danFd_t` whose `lightThreadId` is a coroutine parked on that
  very object. It holds even in `server_hostile`.
- `ParkedReachable`: a coroutine that does not run can be woken by epoll for its own open
  connection, and by the broadcast. It fails once senders share the receiver's `danFd_t`
  and have to wait, or close it (see the findings), so it is checked in the runs where
  they do not.
- `ClosesOwn`: a coroutine closes the descriptor of the connection it serves, although
  numbers are reused. With replies and hostile peers it fails: a failed sender closes the
  descriptor its receiver still waits on, and the receiver later closes whoever has the
  number by then.
- `ShutdownComplete`: `run` returns only with every coroutine ended and every `danFd_t`
  freed, whenever SIGINT or an epoll error came.
- `RequestsConserved`: of each served connection, the requests sent are those unread,
  buffered, waiting to be sent and answered.
- `SendersApart`: no two coroutines send the first message of a session at once; violated
  when a sender has to wait.
- `ReclaimedOnce`: tick and destructor give a session back once. A session whose map entry
  a later connection with the same number took over is never given back: it is lost to the
  pool, and the property does not claim otherwise.
- `StopExits`, `RequestRead`, `RequestAnswered`: liveness, under the fairness below.
- `PoolExact`: the list, its count, the flags, the objects that exist and those in callers'
  hands agree; in particular the clean-up deletes as many objects as it counts down.
  `PoolBounded` is what the code keeps of the limit `settings.hpp` states: one object more
  (finding 6). The run gets there, since it takes the step `ReclaimRefused`.
  `FreshFirst`: a used object is handed out only when no new one is left, which is what
  keeps the first 17 users of each pool from meeting an object's former state.
- `ImplementsService`: the bytes, packets and pools of a session add up to a queue of
  messages: handled once each, in the order sent, with the bodies sent, and answered in that
  order. The handling is promised only until an object that was used before is handed out
  again (`Mishandle`): a recycled packet has less room, `recvFromFd` then cuts what it
  receives, and because `readyLen_` is never decreased `procMsg` handles a message whose
  bytes are not all there, the length cut in its field and the body empty. The answers come
  in order for ever. `RepliesExact` says that of the bytes the peer gets, whichever number of
  bytes each send takes. Both, and `EndsForAReason`, hold where no reply is read beyond its
  end (`RepliesFit`: a reply fits a packet, or fills all of its packets); `MessagesSplit`
  shows the rest. `EndsForAReason`: over a
  connection on which messages arrive whole, nothing but a used object or a message that is
  no request ends the session. `MessageAnswered`: otherwise each message is answered.
- `RunsInOrder`: no timer runs early, nor before one due earlier. It needs a periodic timer
  in the heap, as the program has: with none, `gap` would take a timer without timeout for
  one that is due whenever the distance is a multiple of 2^32. `TickRepeats`: each periodic
  timer runs for ever, whatever coroutines add.
- `StackGuarded`: a stack's bytes are its own, its neighbours forbidden, and what is mapped
  belongs to stacks that exist. The run asks for sizes that are not whole pages, and no
  protected stack of one comes to be: the process is aborted (finding 9). `HandleOwned`: an open handle is the one in use. `ConnectedIsOpen`: while
  `isConnected_` holds, that one is open, whatever connections failed before.
  Neither excludes that a closed handle is closed again: the run does that (`FreeTwice`) by each
  of the three callers of `disconnect`, after a call from outside (finding 10). `SqlExact`: arguments land in the
  places of their marks, unless an argument before the last holds a mark or there are 256 marks or more.
  `RowsCurrent`: what is read within the last result is the last result's.

Bounds. Two connections are the fewest that let one connection's descriptor, `danFd_t` or
worker be reused by another while parts of the first still refer to it; three descriptors
make the table full with both open, so accept also fails. Two requests of one peer give
two senders of one session. `MaxWorkers`, `DanFds` and `Sessions` are large enough never
to be reached: a run that reached one would deadlock, and deadlock is checked. A larger
instance of `server_quiet` (three connections, four descriptors, 6.2 M states) was also
explored without a violation.

In `parts`, two objects to keep and three at most make every branch of `reclaimObj` happen: refused,
kept, cleaned up by one and by more, before and after the time; and addresses are reused. In
`session`, three messages and pools that grow by two make the third reply use a recycled
message, and the receiver a recycled packet; with packets of 12 bytes and bodies of 0 and 3 a
packet holds two messages exactly, or one and no other whole, and a recycled packet
has 3 bytes' room after the longer message and 6, a header's, after the shorter. So a
recycled packet cuts a message, and `ImplementsService` fails in this run when `Mishandle` is
taken out. Replies of 7 bytes leave room in a packet, those of 24 fill two; that a reply of
13 does not fit is `overread`. What is left out are deliveries that cut a message: `session_split`
is about those. In `parts`, intervals of 1 and 3 and waits of 0 to 2 with a `Wrap` of 4
make the distance wrap, timers coincide, and the heap hold two timers of one descriptor;
eight pages hold two protected stacks of two pages, or reuse the place of a destroyed one;
statements have up to four marks, with which the count of arguments wraps, and arguments are
empty, longer than the mark, and with a mark.

Only the violation runs use symmetry, over connections whose
peers send as many requests: connections are never ordered nor chosen from.

Fairness. `WF_vars(Program)`: there is one thread and it keeps running; every wait in the
program is an `epoll_wait` of 4 ms. `SF_vars(Tick)`: the timer is due 4 µs after it was set
(`DAN_MSG_TICK` is added to a clock in microseconds) and each round of the loop takes
longer whenever it waits, so it is due at infinitely many visits. Nothing is assumed of
peers, and nothing of SIGINT: `StopExits` begins after it. In `session`, `WF_vars(Program)`
again; a tick that finds too few bytes changes nothing and is no step, and the peer owes
nothing. In `parts`, the clock moves, and the loop keeps calling `procTimers`, each weakly
fair; nothing is assumed of how often coroutines add timers.

### Findings

Findings 1 to 5, 7 and 11 have a run of their own, in which TLC finds the property violated;
6, 8, 9 and 10 are shown by steps that passing runs take, as `PROJECT.json` says.

1. `dan_scheduler.hpp:222`: `lightThreadAccept` drops the connection its first accept returns;
   the client is connected and never served.
2. `dan_scheduler.hpp:352`: the result of `EPOLL_CTL_ADD` is ignored, and a sender that must
   wait uses the receiver's registered `danFd_t`: it is not registered for EPOLLOUT, the
   next request of the peer makes it close the connection, and the receiver is orphaned.
3. `dan_net.hpp:101`: `recvMsgFunc` frees the `danFd_t` and leaves the session alive and bound to
   it; the next tick that has a message for it dereferences freed memory.
4. `dan_session.hpp:158`: a message cut by a delivery is copied through a null pointer, or
   its header is read from a wrong place, although the branch is meant for messages in
   several packets. A peer that sends whole messages is not safe from it: when more than a
   packet's 1460 bytes wait in the socket, `recvFromFd` cuts the one at the end of the packet.
5. `dan_session.hpp:262`: a recycled message still has its drained packets; the empty one is
   taken for a failed send, and the connection is closed. With the pool's 17 messages that is
   the 18th reply of the process.
6. `dan_obj_pool.hpp:67`: the list of a pool grows to one object more than the limit
   `settings.hpp:3` states; the test is made before the object is put in, and with `>`.
7. `dan_message.hpp:80`: a message of several packets that does not fill the last one is read
   beyond its end, although `dan_message.hpp:11` says it is divided; no reply of the program
   is that long.
8. `dan_session.hpp:290`: a recycled packet has the room its last use left, not the 1460 bytes
   `dan_packet.hpp:25` and `dan_session.hpp:284` promise; with none left the connection is closed.
9. `dan_heap.hpp:40`: the size of a stack is never rounded up, the wrong variable is tested;
   for a size that is not whole pages an assertion fails. The program's 64 KB are.
10. `dan_mysql.hpp:266`: `disconnect()` keeps the handle it closed; the next `connect`, or the
    destructor, closes it again.
11. `dan_session.hpp:222`: while a sender waits, the sender of the next reply takes the same
    message: it is sent twice and given back twice, and the next one is dropped unsent.
## The proofs

`LightThreadMgrProofs` proves, for any set of jobs and any table bound, `ManagerTypeOK`,
`IdleListExact`, `BusyCountExact`, `ContextsMatch` and `CurrentIsOnCpu` invariant, and that
`LightThreadMgr` implements `CoroutinePool`. The only assumption on the constants is
`MaxWorkersAssumption`. The inductive invariant `IInv` is the conjunction of the five, with
the bound on the table; none is inductive alone:

- the list stays exact when the head is reused because an exact list has its head among
  the idle workers, and when a worker retires because that worker is not yet in it. That
  it is not: `currentWorker_` must be the running context (`CurrentIsOnCpu`), and a running
  context must not be DONE (`ContextsMatch`);
- the count stays exact because the worker the factory picks is idle and the one that
  retires busy;
- the list is stated as an enumeration `order` of the idle workers; the step that retires a
  worker builds the longer enumeration, the step that reuses the head the shorter one.

The refinement adds one fact: a new worker's identity is the next number, since with no
idle worker the busy ones are all of `1 .. Len(workers_)`.

`ObjPoolProofs` proves, for any set of addresses and any sizes and keep time of a pool,
`PoolTypeOK`, `PoolExact` and `PoolBounded` invariant, that new objects are handed out first
(`FreshFirst`), and that `ObjPool` implements `ObjSource`. The only assumption is
`PoolAssumption`; it has `KEEP_SIZE` positive and at most `MAX_SIZE`, without which growing an empty
list could exceed the limit. To the three invariants `IInv` adds:

- `Flagged`, the flag of every address, dead ones included: an object that `getObj` builds
  must have a false one before `PoolExact` can speak of it;
- `Counted`, that `totalObjs_` covers the objects that exist. The clean-up and the
  destructor delete without counting down, so they keep it; a refusal counts down and
  deletes one. Without it `totalObjs_` could wrap below zero;
- `FreshInFront`, that the objects never handed out are a prefix of the list. `getObj` takes from the
  front, the clean-up drops from the front, objects come back at the end, and new ones are
  built only when the list is empty. `FreshFirst` is what it says of the head.

The clean-up is one lemma, `CleanUpKeeps`, on any list: whatever it finds, it drops a prefix, perhaps
empty, and deletes just that prefix. `reclaimObj` uses it twice, for the list with the
object and, after a refusal, for the list without. The refinement follows from the
invariant before and after the step: all in use exist (`Manage`), and `getObj`'s object is
in no caller's hands because it was in the list or not alive.

### Server

`ServerProofs` proves, for any connections, descriptors, workers, `danFd_t`s, sessions and
numbers of requests, and whatever peers and SIGINT do: `TypeOK`, `RegistrationLive`,
`ShutdownComplete` and `ReclaimedOnce` invariant, the action property `BroadcastStable`, and
that every behaviour of `Server` is one of `CoroutinePool` (`UsesThePool`). The last one and
`ManagerImplementsPool` meet in the abstract pool: the scheduler was modelled over the
specification its coroutine manager is proved to implement. The assumptions are
`KernelAssumption`, `SchedulerAssumption` and `SessionsAssumption` (there are finitely many
session objects). `FreshObjects` is used in no proof, but the module says nothing of what a
recycled message or packet keeps: the theorems speak of the program while those are new, for
17 replies. Session objects are recycled in the model too, with their buffers.

The inductive invariant `IInv` is `TypeOK /\ Scheduling /\ Serving`. None of the four
invariants is inductive, and neither are the two halves alone.

`Scheduling`, in `SchedulerProofs`, is about `run()` and the coroutines:

- `Placed`: where each coroutine stands while the main context stands where it does. Only
  one has not started, and only while `assignTasks` has it in hand; all others are parked.
- `Leaving`, `Recorded`: a coroutine that is parked is in `waitingFds_` under its identity,
  so the closing broadcast reaches it; one the broadcast has woken ends without a wait.
  From these `ShutdownComplete` follows: when the broadcast is through nobody is left.
- `Owned`: a live `danFd_t` has exactly one coroutine that will free it, and the descriptor
  in it is that coroutine's. With `Recorded` it gives the freeing of all of them.
- `RegistrationLive`, `Batched`: a batch has one event per `danFd_t`, and after the switch to
  a coroutine none of its `danFd_t` is left. That is why a coroutine that ends cannot leave
  an event behind that points to what it frees: `RegistrationLive` needs it for the batch,
  and `Owned` for the epoll set.
- `Loop`: there is a batch only in the dispatch loop, and no coroutine before and after `run`.

`Serving`, in `ServerProofs`, is about `danNet`:

- `Accepting`: the listening descriptor is the accepting coroutine's, and `acceptFunc` is
  the first task; no session ever has that descriptor.
- `Bound`: `ReclaimedOnce`, and that sessions in the map, and those with a reply queued or a
  sender, have an address in `pFd_` (perhaps of an object that is gone).
- `Assigning`: the task given away stays at the front of the queue until it is popped.
- `RepliesSent`: a session's `sendBuffer_` has one reply for each of its senders and tasks
  to send; `TypeOK` needs it, because `onSend` takes the front of the buffer without a
  look at its length. Two senders pop one each.

Each part is followed through every action; the steps of `Next` that touch few variables
share a lemma (`StillAccepting`, `MainSchedules`). `SchedulerProofs` begins with what the `CHOOSE`s
return: the lowest free descriptor, and `Ascending`, the order in which `std::map` is walked.

### Server, untroubled

A send that fails or has to wait leaves the receiver without its registration, or its
descriptor closed under it (finding 2), and `ParkedReachable`, `ClosesOwn` and
`RequestsConserved` do not survive that. `UntroubledProofs` proves them, and
`ReplyToSender`, for every value of the constants with which no send does:

- `Untroubled == ~ Asks \/ PeersStay`: no message asks for a reply, or peers neither close,
  reset nor stop reading. Then `ParkedReachable` (`AlwaysReachable`) and `ClosesOwn`
  (`OnlyOwnClosed`) hold, and nothing kills the process (`NeverKilled`).
- `Asks`, `PeersStay`: then also `RequestsConserved` (`RequestsAreConserved`) and
  `ReplyToSender` (`RepliesGoBack`).

`server_quiet` is an instance of the first case with peers that close and reset,
`server_patient` of both. The inductive invariant `UInv` is `IInv` with

- `Serviced`: each descriptor in use denotes one connection and is one coroutine's, or one
  task's (`Table`, `Exclusive`); a parked coroutine is registered, for reading, and its
  `danFd_t` names it (`Reachable`); no connection is in trouble, or there are no replies
  (`Calm`); a sender ends in the step it starts (`Passing`); sessions stay alive and
  bound to their receiver's `danFd_t` (`Settled`). `Exclusive` speaks of `Unclaimed`
  tasks, because `assignTasks` leaves a task at the front that a coroutine has already;
- `Conserving`, if messages ask for replies: what epoll announced is still there when the
  receiver reads (`Announced`, `Receiving`); every session in the map has its receiver
  (`Attended`); buffers hold the requests and replies of the session's own connection, and
  those of pooled sessions are empty (`Contents`); nothing was read from a connection
  without a receiver (`Unread`); and `RequestsConserved`.

`NextEffects` says of each step which of a dozen kinds it is (`Quietly`, `Listens`, `Parks`,
`Walks`, `Ticks`, `Replies`, ...), by what it does to the variables these parts speak of; the
parts are then proved per kind, not per action.

### Session

`SessionProofs` proves, for any identities, lengths of bodies and replies, sizes of packets
and pools and numbers of messages, whichever number of bytes each send takes:

- `SessionTypes` and `SessionOrder`, with no further hypothesis: `TypeOK`, and that the peer
  receives a front of what `fillMsg` copied (`Written`), in order and each byte once;
- `SessionReplies`, where no reply is read beyond its end (`RepliesFit`): `RepliesExact`;
- `SessionHandles`, when deliveries end as `Cuts = "message"` says: messages are handled as
  sent until an object is reused;
- `SessionEnds` and `SessionImplementsService`, under both: `EndsForAReason`, and that `Session`
  implements `MessageService`.

Both hypotheses are needed: `session_split` and `overread` show what happens without. The
assumption on the constants is `SessionAssumption`: a packet has room for a header.

The inductive invariant has four parts. The first two hold wherever deliveries are cut.

- `Held`: what the variables are. `TypeOK` is not inductive: `onSend` takes the front of the
  queue and a packet of it without a look, so `SendHeld` counts senders and tasks against
  the queue, and says that packets already sent are empty; `PoolsHeld` that while the
  session lives what is pooled has been drained, so a recycled packet brings no old bytes
  into a reply.
- `Replied`: what the peer has received is a front of `Written`, and the packets queued
  carry the rest of it, in order (`Carried`): there are places in that stream, one
  per message queued and one per packet of it, between which the bytes are theirs
  (`QueueAt`, `CutAt`). A recycled packet is at such a place with nothing. `fillMsg`
  cuts a reply into packets (`Filled`), one `send` moves the first place (`SentFrom`).
- `Framed`: what is handled is what was sent (`Faithful`), and, until an object is reused,
  every packet of `recvBuffer_` begins and ends at the end of a message, or of the
  first header (`Framing`, `Ends`); the place where `procMsg` reads next is the end of what
  has been handled (`InFrame`); `readyLen_` is what has arrived; and a packet queued has
  something to send (`SendFull`). Then no field is misread, no message is taken for partial, and no send
  finds nothing to do, so only a message that is no request, or the read beyond a reply,
  ends the session.
- `Answering`: every byte of the replies names the message that comes next (`Rows`), and no
  queued message has bytes of two. With it the bytes received tell how many messages are
  answered (`AnsweredIs`), and that one `send` completes at most one, so the step is `Answer`
  or none (`SentAnswers`).

`Written` is a `FlattenSeq` and `Answered` a recursive function; both are reached by induction over how
many there are (`Along`, `Counting`).

The proof corrected the model. `ImplementsService` first promised the handling for ever, and
TLC agreed, because with packets of 20 bytes and bodies of 0 and 1 no field of a length
was ever cut. The induction failed at a recycled packet, and TLC, with packets of 12
bytes, found the message handled with an empty body. The specification now has `Mishandle`,
and the run's bounds make it happen.

### Timers, Heap and Mysql

`SupportProofs` has an invariant for each of the three, which the others' steps leave
alone. It proves `TypeOK`, `RunsInOrder`, `StackGuarded`, `ConnectedIsOpen`, `HandleOwned`,
`RowsCurrent` and `SqlExact`, and how far two of the findings reach: that no assertion of
`danHeapAlloc` fails where all sizes are whole pages (`WholePagesProtected`), and that no
handle is closed twice where `disconnect()` is called by `connect` and the destructor only
(`FreedTwiceAfterDisconnect`), from `TimersAssumption`, `HeapAssumption`, `MysqlAssumption` and
`CharsAssumption` (text is made of characters).

- `TimersInv`: each periodic timer is in the heap exactly once (`Once`), and less than
  `Wrap` away (`Bounded`). So the front of the heap, which is due no later, is no timer
  without a timeout, and of a distance below `Wrap` the truncated difference is zero only
  for zero. Hence the hypothesis `Periodic # {}` of `TimersRunInOrder`: without it the
  property is false. That the numbers standing for the order of overdue timers stay
  above `-MaxTimers` is a counting argument (`LeftsFew`).
- `HeapInv`: each object's fields are those it was built with (`Built`), the pages of two
  objects are disjoint, an object's pages are protected at its `Ends` and usable between,
  and a page of no object is unmapped. The division of bytes into pages is in `PagesCounted`
  and `Laid`; the number of mapped pages follows by two bijections from the protected
  objects to their first and last pages (`HeapCounted`).
- `MysqlInv`: the flag implies the handle (`ConnectedIsOpen`), and no handle but the one in
  use is open, since what `connect` closes it also replaces; the rows in the object are numbered without
  a gap, the last result's first (`RowsNumbered`), which is what `getFieldValue`'s
  comparison with their number needs. Statements and arguments are text, and the marks
  counted up to the wrap (`Worded`). From that `SqlExact` follows by induction over `makeSql`'s
  rounds: after i of them the first i marks are replaced and what is behind is as it was
  (`After`). The next round finds the right mark because an argument with a mark in it is the
  last one, and its search may begin where the last mark was because what it put there
  has none. A count that wrapped would replace too few.

### Only model-checked

- Liveness (`StopExits`, `RequestRead`, `RequestAnswered`, `MessageAnswered`, `TickRepeats`):
  fairness and ENABLED are out of this prover's reach.

Induction over data with an operator for the predicate cannot be had; over the natural
numbers it can, from the least counterexample (`Least`). All recursive definitions the
proofs speak of (`FlattenSeq`, `AnsweredBy`, `makeSql`) recurse over a number, and are
reached that way.

## Not modelled, and why

`runForever`, which no caller reaches, and descriptor timeouts in `Server`, which nobody
sets (their arithmetic is in `Timers`). What destructors of sessions and messages do when a
pool clears them; `danPacket::reset` and `getWaitingFds`, which nobody calls. mmap that
fails. The content of messages: no handler looks at it. Logging and settings (no state),
generated code and the scripts that write `dan.hpp` at build time, the empty `dan_app.hpp`.

## What is left

Every safety property of the passing runs has a theorem. What remains to be said: what a
session does once an object has been reused, recycled sessions with their framing state
included, of which `MessageService` only promises that the
replies come in order; what holds of `Server` once replies fail or wait, beyond `IInv`; and one
model of many sessions with bytes, in which `Server`'s messages are replaced by `Session`'s.
