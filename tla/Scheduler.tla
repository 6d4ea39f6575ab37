------------------------------ MODULE Scheduler ------------------------------
(***************************************************************************)
(* The scheduler of network/dan_scheduler.hpp: one thread, one epoll set,  *)
(* a queue of tasks, and the calls with which a coroutine waits for a      *)
(* descriptor.  run() assigns queued tasks to coroutines, waits for epoll, *)
(* switches to the coroutine each event names, and, when told to stop,     *)
(* wakes every coroutine it knows with a closing event.                    *)
(*                                                                         *)
(* The coroutine manager is used through its abstraction, CoroutinePool,   *)
(* which LightThreadMgrProofs shows LightThreadMgr to implement.           *)
(*                                                                         *)
(* Heap addresses are values of DanFds.  free() keeps the fields a later,  *)
(* dangling read can see, except the first ones, among them scheduler: a   *)
(* dereference of that pointer kills the process.  calloc may return any   *)
(* address that is not live, so a dangling pointer may come to name        *)
(* another connection's danFd_t.                                           *)
(***************************************************************************)
EXTENDS Kernel, Sequences

CONSTANTS MaxWorkers,         \* bound: coroutines the manager creates
          NoWorker,           \* no coroutine: the main context runs
          DanFds, NoFd,       \* the addresses of danFd_t objects; nullptr
          Sessions            \* the session objects tasks may be bound to

ASSUME SchedulerAssumption ==
  /\ MaxWorkers \in Nat /\ NoWorker \notin 1 .. MaxWorkers
  /\ NoFd \notin DanFds

VARIABLES idle, jobOf, running,   \* the coroutine manager, as CoroutinePool
          local,            \* where each coroutine stands, and its locals
          danFd,            \* the danFd_t objects
          waitingFds_,      \* coroutine -> danFd_t it last waited on
          undoTasksQueue_,  \* tasks no coroutine has been given yet
          stop_,            \* set by the SIGINT handler
          pc,               \* where run() stands
          events,           \* what epoll_wait returned and is not dispatched
          unnotified        \* coroutines the broadcast has not reached

poolVars == <<idle, jobOf, running>>
loopVars == <<pc, events, unnotified>>
schedulerVars == <<poolVars, local, danFd, waitingFds_, undoTasksQueue_, stop_, loopVars>>

Workers == 1 .. MaxWorkers

(* A task: the function, the argument it is bound to (a descriptor or a    *)
(* session) and, for a reader of the model only, the connection it serves. *)
Task == [doFunc : {"acceptFunc"}, arg : {ListenFd}, serves : {Listener}]
          \cup [doFunc : {"recvMsgFunc"}, arg : Fds, serves : Conns]
          \cup [doFunc : {"onSend"}, arg : Sessions, serves : Conns]

Pool == INSTANCE CoroutinePool WITH Jobs <- Task

Busy == Pool!Busy

(* pSession is the receiver's session, pSendMsg the sender's message. *)
Fresh == [at |-> "start", pFd |-> NoFd, pSession |-> NoFd, pSendMsg |-> NoFd]

Unused == [heap |-> "none", fd |-> ListenFd, lightThreadId |-> NoWorker,
           readyEvents |-> {}, waitingEvents |-> "IN"]

SchedulerInit ==
  /\ Pool!Init
  /\ local = [w \in Workers |-> Fresh]
  /\ danFd = [d \in DanFds |-> Unused]
  /\ waitingFds_ = [w \in {} |-> NoFd]
  /\ undoTasksQueue_ = <<>>
  /\ stop_ = FALSE
  /\ pc = "start"
  /\ events = {}
  /\ unnotified = {}

(* The main context runs. *)
InMain(at) == pc = at /\ running = NoWorker

Goto(at) == pc' = at /\ UNCHANGED <<events, unnotified>>

-----------------------------------------------------------------------------
(* What a coroutine calls: it is running. *)

Live(d) == danFd[d].heap = "live"

(* calloc returns an address that was freed, or one never used: which of   *)
(* those makes no difference. *)
Untouched == {d \in DanFds : danFd[d].heap = "none"}
Allocatable == {d \in DanFds : danFd[d].heap = "freed"}
                 \cup (IF Untouched = {} THEN {} ELSE {CHOOSE d \in Untouched : TRUE})

(* createFd: what it does not set is zero. *)
CreateFd(d, n) ==
  /\ d \in Allocatable
  /\ danFd' = [danFd EXCEPT ![d] = [Unused EXCEPT !.heap = "live", !.fd = n]]

FreeFd(d) == danFd' = [danFd EXCEPT ![d].heap = "freed"]

AddTask(task) == undoTasksQueue_' = Append(undoTasksQueue_, task)

(* Mutant of Park: waitingFds_ is not told. *)
ParkUnrecorded(d, waitingEvents) ==
  /\ danFd' = [danFd EXCEPT ![d].lightThreadId = running,
                            ![d].waitingEvents = waitingEvents]
  /\ EpollAdd(danFd[d].fd, d, waitingEvents)
  /\ Pool!Pause
  /\ UNCHANGED waitingFds_

(* The first half of lightThreadPoll, up to the switch to the main context. *)
Park(d, waitingEvents) ==
  /\ danFd' = [danFd EXCEPT ![d].lightThreadId = running,
                            ![d].waitingEvents = waitingEvents]
  /\ waitingFds_' = [w \in DOMAIN waitingFds_ \cup {running} |->
                       IF w = running THEN d ELSE waitingFds_[w]]
  /\ EpollAdd(danFd[d].fd, d, waitingEvents)
  /\ Pool!Pause

(* Mutant of PollResult: a closing event is taken for a timeout. *)
PollResultNoClose(d, waitingEvents) ==
  IF waitingEvents \in danFd[d].readyEvents THEN 1 ELSE 0

(* The second half: what lightThreadPoll returns once it is resumed. *)
PollResult(d, waitingEvents) ==
  LET ready == danFd[d].readyEvents
  IN  IF "CLOSE" \in ready THEN -2
      ELSE IF "ERROR" \in ready THEN -1
      ELSE IF waitingEvents \in ready THEN 1 ELSE 0

(* Mutant of RemoveLightThread: the entry is emptied, not erased. *)
RemoveLightThreadEntry(w) == waitingFds_' = [waitingFds_ EXCEPT ![w] = NoFd]

RemoveLightThread(w) ==
  waitingFds_' = [x \in DOMAIN waitingFds_ \ {w} |-> waitingFds_[x]]

-----------------------------------------------------------------------------
(* tcpListen: when a call fails, the socket is closed again. *)

TcpListen(listens) == IF listens THEN Listened ELSE UNCHANGED files

-----------------------------------------------------------------------------
(* assignTasks: the front task is popped only when its coroutine has given *)
(* the processor back. *)

Assign(from, to) ==
  /\ InMain(from)
  /\ undoTasksQueue_ # <<>>
  /\ \E w \in Workers : /\ Pool!Submit(w, Head(undoTasksQueue_))
                        /\ local' = [local EXCEPT ![w] = Fresh]
  /\ Goto(to)
  /\ UNCHANGED <<kernelVars, danFd, waitingFds_, undoTasksQueue_, stop_>>

Launch(from, to) ==
  /\ InMain(from)
  /\ \E w \in Busy : local[w].at = "start" /\ Pool!Run(w)
  /\ Goto(to)
  /\ UNCHANGED <<kernelVars, local, danFd, waitingFds_, undoTasksQueue_, stop_>>

PopTask(from, to) ==
  /\ InMain(from)
  /\ undoTasksQueue_' = Tail(undoTasksQueue_)
  /\ Goto(to)
  /\ UNCHANGED <<kernelVars, poolVars, local, danFd, waitingFds_, stop_>>

Assigned(from, to) ==
  /\ InMain(from)
  /\ undoTasksQueue_ = <<>>
  /\ Goto(to)
  /\ UNCHANGED <<kernelVars, poolVars, local, danFd, waitingFds_, undoTasksQueue_, stop_>>

AssignTasks ==
  \/ Assign("boot", "boot-launch") \/ Assign("assign", "launch")
  \/ Launch("boot-launch", "boot-pop") \/ Launch("launch", "pop")
  \/ PopTask("boot-pop", "boot") \/ PopTask("pop", "assign")
  \/ Assigned("boot", "loop") \/ Assigned("assign", "timers")

-----------------------------------------------------------------------------
(* The loop of run(). *)

LoopTest ==
  /\ InMain("loop")
  /\ Goto(IF Busy = {} THEN "exited" ELSE "wait")
  /\ UNCHANGED <<kernelVars, poolVars, local, danFd, waitingFds_, undoTasksQueue_, stop_>>

(* Mutant of EpollWait: a timeout (nfds = 0) is handled like an error. *)
EpollWaitForEvents ==
  /\ InMain("wait")
  /\ events' = {[ptr |-> interest[n].ptr, events |-> Reported(n)] : n \in ReadyFds}
  /\ pc' = IF ReadyFds = {} THEN "timers" ELSE "dispatch"
  /\ UNCHANGED <<kernelVars, poolVars, local, danFd, waitingFds_, undoTasksQueue_, stop_,
                 unnotified>>

(* epoll_wait returns: every ready descriptor (there are never more than   *)
(* maxTasks_), none on a timeout. *)
EpollWait ==
  /\ InMain("wait")
  /\ events' = {[ptr |-> interest[n].ptr, events |-> Reported(n)] : n \in ReadyFds}
  /\ pc' = "dispatch"
  /\ UNCHANGED <<kernelVars, poolVars, local, danFd, waitingFds_, undoTasksQueue_, stop_,
                 unnotified>>

(* A signal interrupts epoll_wait: neither events nor stop_ are looked at. *)
EpollInterrupted ==
  /\ InMain("wait")
  /\ ~ stop_ /\ stop_' = TRUE
  /\ Goto("timers")
  /\ UNCHANGED <<kernelVars, poolVars, local, danFd, waitingFds_, undoTasksQueue_>>

(* Switch to w if its job is unfinished; otherwise Resume refuses. *)
ResumeOr(w) == IF w \in Busy THEN Pool!Run(w) ELSE UNCHANGED poolVars

Dispatch ==
  /\ InMain("dispatch")
  /\ \E e \in events :
       /\ events' = events \ {e}
       /\ danFd' = [danFd EXCEPT ![e.ptr].readyEvents = e.events]
       /\ ResumeOr(danFd[e.ptr].lightThreadId)
  /\ UNCHANGED <<kernelVars, local, waitingFds_, undoTasksQueue_, stop_, pc, unnotified>>

(* The coroutines broadcast() will walk through: it iterates waitingFds_. *)
StartBroadcast(readyEvent) == pc' = readyEvent /\ unnotified' = DOMAIN waitingFds_

(* Mutant of Dispatched: after the first round no task is assigned. *)
DispatchedUnassigned ==
  /\ InMain("dispatch")
  /\ events = {}
  /\ IF stop_ THEN StartBroadcast("CLOSE") ELSE pc' = "timers" /\ UNCHANGED unnotified
  /\ UNCHANGED <<kernelVars, poolVars, local, danFd, waitingFds_, undoTasksQueue_, stop_,
                 events>>

Dispatched ==
  /\ InMain("dispatch")
  /\ events = {}
  /\ IF stop_ THEN StartBroadcast("CLOSE") ELSE pc' = "assign" /\ UNCHANGED unnotified
  /\ UNCHANGED <<kernelVars, poolVars, local, danFd, waitingFds_, undoTasksQueue_, stop_,
                 events>>

(* epoll_wait fails for another reason than a signal. *)
EpollFails ==
  /\ InMain("wait")
  /\ StartBroadcast("ERROR")
  /\ UNCHANGED <<kernelVars, poolVars, local, danFd, waitingFds_, undoTasksQueue_, stop_,
                 events>>

Broadcasting == pc \in {"CLOSE", "ERROR"}

Broadcast ==
  /\ Broadcasting /\ running = NoWorker
  /\ \E w \in unnotified :
       /\ unnotified' = unnotified \ {w}
       /\ danFd' = [danFd EXCEPT ![waitingFds_[w]].readyEvents = {pc}]
       /\ ResumeOr(w)
  /\ UNCHANGED <<kernelVars, local, waitingFds_, undoTasksQueue_, stop_, pc, events>>

Broadcasted ==
  /\ Broadcasting /\ running = NoWorker
  /\ unnotified = {}
  /\ Goto("exited")
  /\ UNCHANGED <<kernelVars, poolVars, local, danFd, waitingFds_, undoTasksQueue_, stop_>>

(* procTimers ends when the next timer is not due.  The one timer there is *)
(* runs procMsgFunc, an action of the module that owns the sessions.       *)
TimersDone ==
  /\ InMain("timers")
  /\ Goto("loop")
  /\ UNCHANGED <<kernelVars, poolVars, local, danFd, waitingFds_, undoTasksQueue_, stop_>>

RunStep == \/ AssignTasks
           \/ LoopTest \/ EpollWait \/ EpollInterrupted \/ EpollFails
           \/ Dispatch \/ Dispatched
           \/ Broadcast \/ Broadcasted
           \/ TimersDone

(* stopApp: SIGINT may arrive at any time; the handler only sets stop_. *)
StopApp ==
  /\ ~ stop_ /\ stop_' = TRUE
  /\ UNCHANGED <<kernelVars, poolVars, local, danFd, waitingFds_, undoTasksQueue_, loopVars>>

=============================================================================
