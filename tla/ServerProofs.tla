----------------------------- MODULE ServerProofs -----------------------------
(***************************************************************************)
(* Proofs about Server: the invariant of the accepted connections, the     *)
(* sessions and the replies, named Serving, which SchedulerProofs's        *)
(* Scheduling needs beside it; from both, that every variable keeps its    *)
(* type: each part of the state is followed through every step; that       *)
(* Serving is kept by every step, one part after the other; and the        *)
(* theorems about the specification.  The inductive invariant is the types *)
(* of the variables with Scheduling and Serving.                           *)
(***************************************************************************)
EXTENDS SchedulerProofs

Queue == {undoTasksQueue_[i] : i \in DOMAIN undoTasksQueue_}

AcceptQueued == \E task \in Queue : task.doFunc = "acceptFunc"

(* The listening socket is the accepting coroutine's, which comes first. *)
Accepting ==
  /\ \A n \in Fds : files[n] = Listener => n = ListenFd
  /\ \A w \in Busy : jobOf[w].doFunc = "recvMsgFunc" => jobOf[w].arg # ListenFd
  /\ \A task \in Queue : task.doFunc = "recvMsgFunc" => task.arg # ListenFd
  /\ \A w \in Busy : jobOf[w].doFunc = "acceptFunc" =>
       /\ files[ListenFd] = Listener
       /\ ~ Started(w) => AcceptQueued
       /\ \A v \in Busy : jobOf[v].doFunc = "acceptFunc" => v = w
  /\ \A s \in Sessions : session[s].pFd_ \in DanFds => danFd[session[s].pFd_].fd # ListenFd
  /\ pc = "start" => undoTasksQueue_ = <<>>
  /\ AcceptQueued \/ pc = "start" => \A s \in Sessions : session[s].pFd_ = NoFd
  /\ AcceptQueued =>
       /\ pc \in {"boot", "boot-launch", "boot-pop", "killed"}
       /\ Len(undoTasksQueue_) = 1
       /\ pc = "boot" => Busy = {} /\ files[ListenFd] = Listener
       /\ \A w \in Busy : jobOf[w].doFunc = "acceptFunc"

(* The sessions in the map and those senders are bound to have a danFd_t. *)
Bound ==
  /\ ReclaimedOnce
  /\ \A w \in Busy :
       jobOf[w].doFunc = "recvMsgFunc" /\ Started(w) => local[w].pSession \in Sessions
  /\ \A n \in DOMAIN sessions_ : session[sessions_[n]].pFd_ \in DanFds
  /\ SendersBound
  /\ \A task \in Queue : task.doFunc = "onSend" => session[task.arg].pFd_ \in DanFds

(* The task that has been given away is at the front until it is popped. *)
Assigning == Launching \/ Launched => undoTasksQueue_ # <<>>

SendersOf(s) == {w \in Busy : jobOf[w].doFunc = "onSend" /\ jobOf[w].arg = s}

(* The places of the queue with a task to send for s; assignTasks leaves   *)
(* the task it has given away at the front until its coroutine is back.    *)
QueuedFor(s) ==
  {i \in DOMAIN undoTasksQueue_ :
     /\ undoTasksQueue_[i].doFunc = "onSend" /\ undoTasksQueue_[i].arg = s
     /\ i = 1 => ~ Launching /\ ~ Launched}

(* Each reply in a sendBuffer_ has its sender, or the task for one. *)
RepliesSent ==
  pc # "killed" => \A s \in Sessions :
    Len(session[s].sendBuffer_) = Cardinality(SendersOf(s)) + Cardinality(QueuedFor(s))

Serving == Accepting /\ Bound /\ Assigning /\ RepliesSent

IInv == TypeOK /\ Scheduling /\ Serving

-----------------------------------------------------------------------------
(* What a step does to the kernel's tables. *)

KernelCall ==
  \/ UNCHANGED <<socket, files>>
  \/ Listened /\ UNCHANGED socket
  \/ FreeFds # {} /\ \E c \in Backlog : Accepted(c)
  \/ \E n \in Fds : Received(n) /\ UNCHANGED files
  \/ \E n \in Fds : Sent(n) /\ UNCHANGED files
  \/ \E n \in Fds : Closed(n)
  \/ PeerStep

EpollCall ==
  \/ UNCHANGED interest
  \/ \E n \in Fds : EpollDel(n)
  \/ \E n \in Fds, d \in DanFds, waitingEvents \in {"IN", "OUT"} : EpollAdd(n, d, waitingEvents)

(* Every step of the server makes at most one of the kernel's calls. *)
LEMMA KernelCalls ==
  ASSUME TypeOK, Placed, SendersBound, [Next]_vars
  PROVE  KernelCall /\ EpollCall
<1> USE DEF Runs, At, me, Started
<1>1. \A d \in DanFds : danFd[d].fd \in Fds
  BY DEF TypeOK, DanFd
<1>2. running \in Busy /\ Started(running) =>
        local[running].pFd \in DanFds /\ danFd[local[running].pFd].fd \in Fds
  BY <1>1 DEF Placed
<1>3. \A n \in Fds : /\ EpollDel(n) => EpollCall
                     /\ Closed(n) => KernelCall /\ EpollCall
                     /\ Received(n) /\ UNCHANGED files => KernelCall
                     /\ Sent(n) /\ UNCHANGED files => KernelCall
  BY DEF KernelCall, EpollCall, Closed, EpollDel
<1>4. /\ UNCHANGED <<socket, files>> => KernelCall
      /\ UNCHANGED interest => EpollCall
  BY DEF KernelCall, EpollCall
<1>5. ASSUME NEW waitingEvents \in {"IN", "OUT"}, NEW place,
             running \in Busy, Started(running), Poll(local[running].pFd, waitingEvents, place)
      PROVE  EpollCall
  <2>1. CASE Live(local[running].pFd)
    BY <1>2, <1>5, <2>1 DEF Poll, Park, EpollCall
  <2>2. CASE ~ Live(local[running].pFd)
    BY <1>5, <1>4, <2>2 DEF Poll
  <2> QED
    BY <2>1, <2>2
<1>6. CASE AcceptStart \/ AcceptFirst \/ AcceptWoken \/ AcceptSecond \/ AcceptEnd
  <2>1. CASE AcceptStart
    BY <2>1 DEF AcceptStart, kernelVars, KernelCall, EpollCall
  <2>2. CASE AcceptFirst
    <3>1. KernelCall
      BY <2>2 DEF AcceptFirst, kernelVars, KernelCall, AcceptResults
    <3>2. EpollCall
      BY <1>4, <1>5, <2>2 DEF AcceptFirst, kernelVars, EpollCall
    <3> QED
      BY <3>1, <3>2
  <2>3. CASE AcceptWoken
    BY <1>2, <1>3, <1>4, <2>3 DEF AcceptWoken, Woken
  <2>4. CASE AcceptSecond
    BY <2>4 DEF AcceptSecond, AcceptResults, KernelCall, EpollCall
  <2>5. CASE AcceptEnd
    BY <1>2, <1>3, <2>5 DEF AcceptEnd, EndOwner
  <2> QED
    BY <1>6, <2>1, <2>2, <2>3, <2>4, <2>5
<1>7. CASE RecvStart \/ RecvFirst \/ RecvWoken \/ RecvSecond \/ RecvEnd
  <2>1. CASE RecvStart
    BY <2>1 DEF RecvStart, kernelVars, KernelCall, EpollCall
  <2>2. CASE RecvFirst
    <3>1. KernelCall
      BY <1>2, <1>3, <1>4, <2>2 DEF RecvFirst, RecvData, RecvFailed, kernelVars
    <3>2. EpollCall
      BY <1>4, <1>5, <2>2 DEF RecvFirst, RecvData, RecvFailed, kernelVars, EpollCall
    <3> QED
      BY <3>1, <3>2
  <2>3. CASE RecvWoken
    BY <1>2, <1>3, <1>4, <2>3 DEF RecvWoken, Woken
  <2>4. CASE RecvSecond
    BY <1>2, <1>3, <1>4, <2>4 DEF RecvSecond, RecvData, RecvFailed, kernelVars
  <2>5. CASE RecvEnd
    BY <1>2, <1>3, <2>5 DEF RecvEnd, EndOwner
  <2> QED
    BY <1>7, <2>1, <2>2, <2>3, <2>4, <2>5
<1>8. CASE SendStart \/ SendFirst \/ SendWoken \/ SendSecond \/ SendFailed
  <2>1. CASE SendStart
    BY <2>1 DEF SendStart, kernelVars, KernelCall, EpollCall
  <2>2. CASE SendFirst
    <3>1. KernelCall
      BY <1>2, <1>3, <1>4, <2>2 DEF SendFirst, SendCall, kernelVars
    <3>2. EpollCall
      BY <1>4, <1>5, <2>2 DEF SendFirst, SendCall, kernelVars, EpollCall
    <3> QED
      BY <3>1, <3>2
  <2>3. CASE SendWoken
    BY <1>2, <1>3, <1>4, <2>3 DEF SendWoken, Woken
  <2>4. CASE SendSecond
    BY <1>2, <1>3, <1>4, <2>4 DEF SendSecond, SendCall, kernelVars
  <2>5. CASE SendFailed
    <3>1. danFd[boundFd].fd \in Fds
      BY <1>1, <2>5 DEF SendFailed, SendersBound, boundFd, bound
    <3> QED
      BY <1>3, <2>5, <3>1 DEF SendFailed
  <2> QED
    BY <1>8, <2>1, <2>2, <2>3, <2>4, <2>5
<1>9. CASE Start \/ Tick \/ Destruct
  BY <1>9 DEF Start, TcpListen, Tick, Destruct, kernelVars, KernelCall, EpollCall
<1>10. CASE RunStep
  BY <1>10
     DEF RunStep, AssignTasks, Assign, Launch, PopTask, Assigned, LoopTest, EpollWait,
         EpollInterrupted, EpollFails, Dispatch, Dispatched, Broadcast, Broadcasted, TimersDone,
         kernelVars, KernelCall, EpollCall
<1>11. CASE PeerStep \/ StopApp \/ UNCHANGED vars
  BY <1>11 DEF PeerStep, StopApp, vars, kernelVars, KernelCall, EpollCall
<1> QED
  BY <1>6, <1>7, <1>8, <1>9, <1>10, <1>11 DEF Next, Program, CoroutineStep

KernelTypes ==
  /\ socket \in [Conns -> Socket]
  /\ files \in [Fds -> Conns \cup {Listener, Free}]
  /\ DOMAIN interest \subseteq Fds
  /\ \A n \in DOMAIN interest : interest[n] \in [ptr : DanFds, events : {"IN", "OUT"}]

(* The kernel's calls keep its tables well formed. *)
LEMMA KernelTyped ==
  ASSUME KernelTypes, KernelCall, EpollCall
  PROVE  KernelTypes'
<1>1. socket \in [Conns -> Socket] /\ files \in [Fds -> Conns \cup {Listener, Free}]
  BY DEF KernelTypes
<1>2. socket' \in [Conns -> Socket] /\ files' \in [Fds -> Conns \cup {Listener, Free}]
  <2>1. CASE UNCHANGED <<socket, files>> \/ (Listened /\ UNCHANGED socket)
    BY <1>1, <2>1 DEF Listened
  <2>2. CASE \E c \in Backlog : Accepted(c)
    <3>1. PICK c \in Conns : Accepted(c)
      BY <2>2 DEF Backlog
    <3>2. socket' = [socket EXCEPT ![c].at = "open"] /\ files' = [files EXCEPT ![LowestFree] = c]
      BY <3>1 DEF Accepted
    <3> QED
      BY <1>1, <3>2 DEF Socket
  <2>3. CASE \E n \in Fds : Received(n) /\ UNCHANGED files
    <3>1. PICK n \in Fds : socket' = [socket EXCEPT ![files[n]].unread = 0]
      BY <2>3 DEF Received
    <3> QED
      BY <1>1, <2>3, <3>1 DEF Socket
  <2>4. CASE \E n \in Fds : Sent(n) /\ UNCHANGED files
    <3>1. PICK n \in Fds : socket' = [socket EXCEPT ![files[n]].answers = @ + 1]
      BY <2>4 DEF Sent
    <3>2. socket' = [c \in Conns |-> IF c = files[n] THEN [socket[c] EXCEPT !.answers = @ + 1]
                                                    ELSE socket[c]]
      BY <1>1, <3>1
    <3> QED
      BY <1>1, <2>4, <3>2 DEF Socket
  <2>5. CASE \E n \in Fds : Closed(n)
    BY <1>1, <2>5 DEF Closed, Socket
  <2>6. CASE PeerStep
    <3>1. PICK c \in Conns : Connect(c) \/ Request(c) \/ Shut(c) \/ Reset(c) \/ Stall(c)
      BY <2>6 DEF PeerStep
    <3>2. UNCHANGED files
      BY <2>6 DEF PeerStep
    <3>3. CASE Connect(c)
      BY <1>1, <3>2, <3>3 DEF Connect, Socket
    <3>4. CASE Request(c)
      BY <1>1, <3>2, <3>4 DEF Request, Socket
    <3>5. CASE Shut(c)
      BY <1>1, <3>2, <3>5 DEF Shut, Socket
    <3>6. CASE Reset(c)
      <4> DEFINE r == [socket[c] EXCEPT !.broken = TRUE, !.shut = TRUE, !.unread = 0]
      <4>1. r \in Socket
        BY <1>1 DEF Socket
      <4>2. socket' = [socket EXCEPT ![c] = r]
        BY <1>1, <3>6 DEF Reset
      <4> HIDE DEF r
      <4> QED
        BY <1>1, <3>2, <4>1, <4>2
    <3>7. CASE Stall(c)
      BY <1>1, <3>2, <3>7 DEF Stall, Socket
    <3> QED
      BY <1>1, <3>1, <3>2, <3>3, <3>4, <3>5, <3>6, <3>7
  <2> QED
    BY <2>1, <2>2, <2>3, <2>4, <2>5, <2>6 DEF KernelCall
<1>3. /\ DOMAIN interest' \subseteq Fds
      /\ \A n \in DOMAIN interest' : interest'[n] \in [ptr : DanFds, events : {"IN", "OUT"}]
  <2>1. CASE UNCHANGED interest
    BY <2>1 DEF KernelTypes
  <2>2. CASE \E n \in Fds : EpollDel(n)
    BY <2>2 DEF KernelTypes, EpollDel
  <2>3. ASSUME NEW n \in Fds, NEW d \in DanFds, NEW waitingEvents \in {"IN", "OUT"},
               EpollAdd(n, d, waitingEvents)
        PROVE  <1>3!:
    BY <2>3 DEF KernelTypes, EpollAdd
  <2> QED
    BY <2>1, <2>2, <2>3 DEF EpollCall
<1> QED
  BY <1>2, <1>3 DEF KernelTypes

-----------------------------------------------------------------------------
(* What a step does to the manager of the coroutines: it is used as        *)
(* CoroutinePool provides. *)

PoolCall ==
  \/ UNCHANGED poolVars
  \/ undoTasksQueue_ # <<>> /\ \E w \in Workers : Pool!Submit(w, Head(undoTasksQueue_))
  \/ \E w \in Busy : Pool!Run(w)
  \/ Pool!Pause
  \/ Pool!Finish

(* Every step of the server is at most one of the abstract pool's. *)
LEMMA PoolCalls ==
  ASSUME [Next]_vars
  PROVE  PoolCall
<1>1. CASE AcceptStart \/ AcceptFirst \/ AcceptWoken \/ AcceptSecond \/ AcceptEnd
  BY <1>1 DEF AcceptStart, AcceptFirst, AcceptWoken, AcceptSecond, AcceptEnd, Woken, Poll, Park,
              EndOwner, PoolCall
<1>2. CASE RecvStart \/ RecvFirst \/ RecvWoken \/ RecvSecond \/ RecvEnd
  BY <1>2 DEF RecvStart, RecvFirst, RecvWoken, RecvSecond, RecvEnd, RecvData, RecvFailed, Woken,
              Poll, Park, EndOwner, PoolCall
<1>3. CASE SendStart \/ SendFirst \/ SendWoken \/ SendSecond \/ SendFailed
  BY <1>3 DEF SendStart, SendFirst, SendWoken, SendSecond, SendFailed, SendCall, SendEnd, Woken,
              Poll, Park, PoolCall
<1>4. CASE Start \/ Tick \/ Destruct
  BY <1>4 DEF Start, Tick, Destruct, PoolCall
<1>5. CASE RunStep
  BY <1>5 DEF RunStep, AssignTasks, Assign, Launch, PopTask, Assigned, LoopTest, EpollWait,
              EpollInterrupted, EpollFails, Dispatch, Dispatched, Broadcast, Broadcasted,
              TimersDone, ResumeOr, PoolCall
<1>6. CASE UNCHANGED schedulerVars \/ StopApp \/ UNCHANGED vars
  BY <1>6 DEF StopApp, vars, schedulerVars, PoolCall
<1> QED
  BY <1>1, <1>2, <1>3, <1>4, <1>5, <1>6 DEF Next, Program, CoroutineStep

PoolTypes ==
  /\ idle \subseteq Workers /\ Busy \subseteq Workers /\ idle \cap Busy = {}
  /\ \A w \in Busy : jobOf[w] \in Task
  /\ running \in Busy \cup {NoWorker}

(* The pool's steps keep its workers apart: idle or busy, each busy one with a task. *)
LEMMA PoolTyped ==
  ASSUME PoolTypes, undoTasksQueue_ \in Seq(Task), PoolCall
  PROVE  PoolTypes'
<1> USE DEF Busy, Pool!Busy
<1>1. CASE UNCHANGED poolVars
  BY <1>1 DEF PoolTypes, poolVars
<1>2. CASE undoTasksQueue_ # <<>> /\ \E w \in Workers : Pool!Submit(w, Head(undoTasksQueue_))
  <2>1. Head(undoTasksQueue_) \in Task
    BY <1>2, HeadTailProperties
  <2>2. PICK w \in Workers : Pool!Submit(w, Head(undoTasksQueue_))
    BY <1>2
  <2> HIDE DEF Busy, Pool!Busy
  <2>3. /\ idle' = idle \ {w} /\ UNCHANGED running
        /\ Busy' = Busy \cup {w} /\ jobOf'[w] \in Task
        /\ \A v \in Busy \ {w} : jobOf'[v] = jobOf[v]
    BY <2>1, <2>2 DEF Pool!Submit, Busy, Pool!Busy
  <2>4. running = NoWorker
    BY <2>2 DEF Pool!Submit
  <2> QED
    BY <2>3, <2>4 DEF PoolTypes
<1>3. CASE (\E w \in Busy : Pool!Run(w)) \/ Pool!Pause
  BY <1>3 DEF PoolTypes, Pool!Run, Pool!Pause
<1>4. CASE Pool!Finish
  BY <1>4 DEF PoolTypes, Pool!Finish
<1> QED
  BY <1>1, <1>2, <1>3, <1>4 DEF PoolCall

-----------------------------------------------------------------------------
(* What a step does to the coroutines' locals. *)

(* What a task is about: the listening socket, a descriptor or a session. *)
LEMMA TasksTyped ==
  ASSUME NEW task \in Task
  PROVE  /\ task.doFunc \in {"acceptFunc", "recvMsgFunc", "onSend"}
         /\ task.doFunc = "acceptFunc" => task.arg = ListenFd
         /\ task.doFunc = "recvMsgFunc" => task.arg \in Fds /\ task.serves \in Conns
         /\ task.doFunc = "onSend" => task.arg \in Sessions
BY DEF Task

(* A sender has a reply to send. *)
LEMMA SenderHasReply ==
  ASSUME TypeOK, RepliesSent, pc # "killed",
         NEW w \in Busy, jobOf[w].doFunc = "onSend"
  PROVE  /\ jobOf[w].arg \in Sessions
         /\ session[jobOf[w].arg].sendBuffer_ \in Seq(Conns)
         /\ session[jobOf[w].arg].sendBuffer_ # <<>>
<1> DEFINE s == jobOf[w].arg
<1>1. Busy \subseteq Workers /\ jobOf[w] \in Task /\ session \in [Sessions -> Session]
      /\ undoTasksQueue_ \in Seq(Task)
  BY DEF TypeOK
<1>2. s \in Sessions /\ session[s].sendBuffer_ \in Seq(Conns)
  BY <1>1, TasksTyped DEF Session
<1>3. IsFiniteSet(SendersOf(s)) /\ Cardinality(SendersOf(s)) \in Nat /\ SendersOf(s) # {}
  <2>1. SendersOf(s) \subseteq Workers /\ w \in SendersOf(s)
    BY <1>1 DEF SendersOf
  <2>2. IsFiniteSet(Workers)
    BY SchedulerAssumption, FS_Interval DEF Workers
  <2> QED
    BY <2>1, <2>2, FS_Subset, FS_CardinalityType
<1>4. Cardinality(SendersOf(s)) > 0
  BY <1>3, FS_EmptySet
<1>5. Cardinality(QueuedFor(s)) \in Nat
  <2>1. QueuedFor(s) \subseteq 1 .. Len(undoTasksQueue_) /\ Len(undoTasksQueue_) \in Nat
    BY <1>1 DEF QueuedFor
  <2>2. IsFiniteSet(1 .. Len(undoTasksQueue_))
    BY <2>1, FS_Interval
  <2> QED
    BY <2>1, <2>2, FS_Subset, FS_CardinalityType
<1>6. Len(session[s].sendBuffer_) > 0
  BY <1>2, <1>3, <1>4, <1>5 DEF RepliesSent
<1> QED
  BY <1>2, <1>6

(* A step leaves each coroutine at a place of its function, with locals *)
(* that are a danFd_t, a session or nothing yet. *)
LEMMA LocalTyped ==
  ASSUME TypeOK, Bound, RepliesSent, [Next]_vars
  PROVE  local' \in [Workers -> Local]
<1> USE DEF Runs, At, me
<1>1. local \in [Workers -> Local] /\ Busy \subseteq Workers /\ objs_ \in Seq(Sessions)
  BY DEF TypeOK
<1>2. ASSUME NEW place \in Places, Continue(place)
      PROVE  local' \in [Workers -> Local]
  BY <1>1, <1>2 DEF Continue, Local
<1>3. ASSUME NEW w \in Workers, NEW l \in Local, local' = [local EXCEPT ![w] = l]
      PROVE  local' \in [Workers -> Local]
  BY <1>1, <1>3
<1>4. Fresh \in Local
  BY DEF Fresh, Local, Places
<1>5. CASE AcceptStart
  <2>1. PICK d \in DanFds : local' = [local EXCEPT ![running].at = "accept", ![running].pFd = d]
    BY <1>5 DEF AcceptStart
  <2> QED
    BY <1>1, <2>1 DEF Local, Places
<1>6. CASE RecvStart
  <2>1. PICK d \in DanFds :
          local' = [local EXCEPT ![running] =
                      [Fresh EXCEPT !.at = "recv", !.pFd = d, !.pSession = Head(objs_)]]
    BY <1>6 DEF RecvStart
  <2>2. Head(objs_) \in Sessions
    BY <1>1, <1>6, HeadTailProperties DEF RecvStart
  <2>3. [Fresh EXCEPT !.at = "recv", !.pFd = d, !.pSession = Head(objs_)] \in Local
    BY <2>2 DEF Fresh, Local, Places
  <2> QED
    BY <1>1, <1>3, <1>6, <2>1, <2>3 DEF RecvStart
<1>7. CASE SendStart /\ pc # "killed"
  <2>1. running \in Busy /\ jobOf[running].doFunc = "onSend"
    BY <1>7 DEF SendStart
  <2>2. boundFd \in DanFds
    BY <2>1 DEF Bound, SendersBound, boundFd, bound
  <2>3. Head(session[bound].sendBuffer_) \in Conns
    BY <1>7, <2>1, SenderHasReply, HeadTailProperties DEF bound
  <2>4. [Fresh EXCEPT !.at = "send", !.pFd = boundFd,
                      !.pSendMsg = Head(session[bound].sendBuffer_)] \in Local
    BY <2>2, <2>3 DEF Fresh, Local, Places
  <2> QED
    BY <1>1, <1>3, <1>7, <2>1, <2>4 DEF SendStart
<1>8. CASE AcceptFirst \/ AcceptWoken \/ AcceptSecond \/ AcceptEnd
  BY <1>1, <1>2, <1>3, <1>4, <1>8
     DEF AcceptFirst, AcceptWoken, AcceptSecond, AcceptEnd, Woken, Poll, EndOwner, Places
<1>9. CASE RecvFirst \/ RecvWoken \/ RecvSecond \/ RecvEnd
  BY <1>1, <1>2, <1>3, <1>4, <1>9
     DEF RecvFirst, RecvWoken, RecvSecond, RecvEnd, RecvData, RecvFailed, Woken, Poll, EndOwner,
         Places
<1>10. CASE SendFirst \/ SendWoken \/ SendSecond \/ SendFailed
  BY <1>1, <1>2, <1>3, <1>4, <1>10
     DEF SendFirst, SendWoken, SendSecond, SendFailed, SendCall, SendEnd, Woken, Poll, Places
<1>11. CASE Start \/ Tick \/ Destruct
  BY <1>1, <1>11 DEF Start, Tick, Destruct
<1>12. CASE RunStep
  BY <1>1, <1>3, <1>4, <1>12
     DEF RunStep, AssignTasks, Assign, Launch, PopTask, Assigned, LoopTest, EpollWait,
         EpollInterrupted, EpollFails, Dispatch, Dispatched, Broadcast, Broadcasted, TimersDone
<1>13. CASE UNCHANGED schedulerVars \/ StopApp \/ UNCHANGED vars
  BY <1>1, <1>13 DEF StopApp, vars, schedulerVars
<1> QED
  BY <1>5, <1>6, <1>7, <1>8, <1>9, <1>10, <1>11, <1>12, <1>13 DEF Next, Program, CoroutineStep

-----------------------------------------------------------------------------
(* What a step does to the scheduler's variables. *)

(* A step leaves each danFd_t with a descriptor, a worker and poll events; *)
(* the one written to by broadcast() may be any. *)
LEMMA DanFdTyped ==
  ASSUME TypeOK, Scheduling, Bound, [Next]_vars
  PROVE  danFd' \in [DanFds -> DanFd]
<1> USE DEF Runs, At, me, Started
<1>1. /\ danFd \in [DanFds -> DanFd] /\ Busy \subseteq Workers
      /\ running \in Busy =>
           /\ running \in Workers
           /\ Started(running) => local[running].pFd \in DanFds
           /\ jobOf[running].doFunc # "onSend" => jobOf[running].arg \in Fds
  BY KernelAssumption, TasksTyped DEF TypeOK, Scheduling, Placed, ListenFd, Fds
<1>2. ASSUME NEW waitingEvents \in {"IN", "OUT"}, NEW place, running \in Busy, Started(running),
             Poll(local[running].pFd, waitingEvents, place)
      PROVE  danFd' \in [DanFds -> DanFd]
  BY <1>1, <1>2 DEF Poll, Park, DanFd
<1>3. CASE AcceptStart \/ RecvStart
  <2>1. running \in Busy /\ jobOf[running].doFunc # "onSend"
    BY <1>3 DEF AcceptStart, RecvStart
  <2>2. PICK d \in DanFds : CreateFd(d, jobOf[running].arg)
    BY <1>3 DEF AcceptStart, RecvStart
  <2>3. jobOf[running].arg \in Fds
    BY <1>1, <2>1
  <2> QED
    BY <1>1, <2>2, <2>3, KernelAssumption DEF CreateFd, DanFd, Unused, ListenFd, Fds
<1>4. CASE AcceptEnd \/ RecvEnd
  <2>1. running \in Busy /\ Started(running) /\ FreeFd(local[running].pFd)
    BY <1>4 DEF AcceptEnd, RecvEnd, EndOwner
  <2> QED
    BY <1>1, <2>1 DEF FreeFd, DanFd
<1>5. CASE AcceptFirst \/ AcceptWoken \/ AcceptSecond
  <2>1. running \in Busy /\ Started(running)
    BY <1>5 DEF AcceptFirst, AcceptWoken, AcceptSecond
  <2>2. \/ UNCHANGED danFd
        \/ Poll(local[running].pFd, "IN", "accept-woken")
    BY <1>5 DEF AcceptFirst, AcceptWoken, AcceptSecond, Woken
  <2> QED
    BY <1>1, <1>2, <2>1, <2>2
<1>6. CASE RecvFirst \/ RecvWoken \/ RecvSecond
  <2>1. running \in Busy /\ Started(running)
    BY <1>6 DEF RecvFirst, RecvWoken, RecvSecond
  <2>2. \/ UNCHANGED danFd
        \/ Poll(local[running].pFd, "IN", "recv-woken")
    BY <1>6 DEF RecvFirst, RecvWoken, RecvSecond, RecvData, RecvFailed, Woken
  <2> QED
    BY <1>1, <1>2, <2>1, <2>2
<1>7. CASE SendStart \/ SendFirst \/ SendWoken \/ SendSecond \/ SendFailed
  BY <1>1, <1>2, <1>7
     DEF SendStart, SendFirst, SendWoken, SendSecond, SendFailed, SendCall, SendEnd, Woken
<1>8. CASE Start \/ Tick \/ Destruct
  BY <1>1, <1>8 DEF Start, Tick, Destruct
<1>9. CASE Dispatch
  <2>1. PICK e \in events : danFd' = [danFd EXCEPT ![e.ptr].readyEvents = e.events]
    BY <1>9 DEF Dispatch
  <2>2. e.ptr \in DanFds /\ e.events \in SUBSET {"IN", "OUT", "ERR", "CLOSE", "ERROR"}
    BY <2>1 DEF TypeOK
  <2> QED
    BY <1>1, <2>1, <2>2 DEF DanFd
<1>10. CASE Broadcast
  <2>1. PICK d : danFd' = [danFd EXCEPT ![d].readyEvents = {pc}]
    BY <1>10 DEF Broadcast
  <2>2. {pc} \in SUBSET {"IN", "OUT", "ERR", "CLOSE", "ERROR"}
    BY <1>10 DEF Broadcast, Broadcasting
  <2>3. d \in DanFds => [danFd[d] EXCEPT !.readyEvents = {pc}] \in DanFd
    BY <1>1, <2>2 DEF DanFd
  <2> QED
    BY <1>1, <2>1, <2>3
<1>11. CASE RunStep
  BY <1>1, <1>9, <1>10, <1>11
     DEF RunStep, AssignTasks, Assign, Launch, PopTask, Assigned, LoopTest, EpollWait,
         EpollInterrupted, EpollFails, Dispatched, Broadcasted, TimersDone
<1>12. CASE UNCHANGED schedulerVars \/ StopApp \/ UNCHANGED vars
  BY <1>1, <1>12 DEF StopApp, vars, schedulerVars
<1> QED
  BY <1>3, <1>4, <1>7, <1>8, <1>11, <1>12, <1>5, <1>6 DEF Next, Program, CoroutineStep

(* Only the receiver that reads the end of its connection leaves           *)
(* waitingFds_, and never while broadcast() goes through the map. *)
LEMMA WaitingSteps ==
  ASSUME TypeOK, Scheduling, [Next]_vars
  PROVE  \/ UNCHANGED waitingFds_
         \/ /\ running \in Busy /\ ~ Broadcasting /\ UNCHANGED unnotified
            /\ \/ RemoveLightThread(running) /\ unnotified = {}
               \/ \E d \in DanFds :
                    waitingFds_' = [w \in DOMAIN waitingFds_ \cup {running} |->
                                      IF w = running THEN d ELSE waitingFds_[w]]
<1> USE DEF Runs, At, me, Started
<1> DEFINE parks == \E d \in DanFds :
                      waitingFds_' = [w \in DOMAIN waitingFds_ \cup {running} |->
                                        IF w = running THEN d ELSE waitingFds_[w]]
<1>1. CASE AcceptFirst \/ RecvFirst \/ SendFirst
  <2>1. running \in Busy /\ local[running].at \in {"accept", "recv", "send"}
    BY <1>1 DEF AcceptFirst, RecvFirst, SendFirst
  <2>2. running # NoWorker /\ local[running].pFd \in DanFds
    BY <2>1, SchedulerAssumption DEF TypeOK, Workers, Scheduling, Placed
  <2>3. ~ Broadcasting
    BY <2>1, <2>2 DEF Scheduling, Leaving, EndAt, WokenAt
  <2>4. ASSUME NEW waitingEvents, NEW place, Poll(local[running].pFd, waitingEvents, place)
        PROVE  UNCHANGED waitingFds_ \/ (parks /\ UNCHANGED unnotified)
    BY <2>2, <2>4 DEF Poll, Park, loopVars
  <2> HIDE DEF parks
  <2>5. UNCHANGED waitingFds_ \/ (parks /\ UNCHANGED unnotified)
    BY <1>1, <2>4 DEF AcceptFirst, RecvFirst, RecvData, RecvFailed, SendFirst, SendCall, SendEnd
  <2> QED
    BY <2>1, <2>3, <2>5 DEF parks
<1>2. CASE RecvSecond /\ pc # "killed"
  <2>1. running \in Busy /\ local[running].at = "recv-again"
    BY <1>2 DEF RecvSecond
  <2>2. running # NoWorker
    BY <2>1, SchedulerAssumption DEF TypeOK, Workers
  <2>3. ~ Broadcasting /\ pc = "dispatch"
    BY <1>2, <2>1, <2>2 DEF Scheduling, Placed, Leaving, EndAt, WokenAt, AgainAt
  <2>4. danFd[local[running].pFd].lightThreadId = running /\ unnotified = {}
    BY <2>2, <2>3 DEF Scheduling, Batched, Loop, Broadcasting
  <2>5. UNCHANGED waitingFds_ \/ (RemoveLightThread(running) /\ UNCHANGED unnotified)
    BY <1>2, <2>4 DEF RecvSecond, RecvData, RecvFailed, loopVars
  <2> QED
    BY <2>1, <2>3, <2>4, <2>5
<1>3. CASE AcceptStart \/ AcceptWoken \/ AcceptSecond \/ AcceptEnd
  BY <1>3 DEF AcceptStart, AcceptWoken, AcceptSecond, AcceptEnd, Woken, EndOwner
<1>4. CASE RecvStart \/ RecvWoken \/ RecvEnd
  BY <1>4 DEF RecvStart, RecvWoken, RecvEnd, Woken, EndOwner
<1>5. CASE SendStart \/ SendWoken \/ SendSecond \/ SendFailed
  BY <1>5 DEF SendStart, SendWoken, SendSecond, SendFailed, SendCall, SendEnd, Woken
<1>6. CASE Start \/ Tick \/ Destruct
  BY <1>6 DEF Start, Tick, Destruct
<1>7. CASE RunStep
  BY <1>7
     DEF RunStep, AssignTasks, Assign, Launch, PopTask, Assigned, LoopTest, EpollWait,
         EpollInterrupted, EpollFails, Dispatch, Dispatched, Broadcast, Broadcasted, TimersDone
<1>8. CASE UNCHANGED schedulerVars \/ StopApp \/ UNCHANGED vars
  BY <1>8 DEF StopApp, vars, schedulerVars
<1> QED
  BY <1>1, <1>2, <1>3, <1>4, <1>5, <1>6, <1>7, <1>8 DEF Next, Program, CoroutineStep

(* waitingFds_ maps workers to danFd_t's, and broadcast() has only workers *)
(* of the map left to wake. *)
LEMMA WaitingTyped ==
  ASSUME TypeOK, Scheduling, [Next]_vars
  PROVE  /\ DOMAIN waitingFds_' \subseteq Workers
         /\ \A w \in DOMAIN waitingFds_' : waitingFds_'[w] \in DanFds
         /\ unnotified' \subseteq DOMAIN waitingFds_'
<1>1. /\ DOMAIN waitingFds_ \subseteq Workers /\ Busy \subseteq Workers
      /\ \A w \in DOMAIN waitingFds_ : waitingFds_[w] \in DanFds
      /\ unnotified \subseteq DOMAIN waitingFds_
  BY DEF TypeOK
<1>2. CASE UNCHANGED waitingFds_
  <2>1. unnotified' \subseteq unnotified \/ unnotified' = DOMAIN waitingFds_
    <3>1. CASE CoroutineStep
      <4>1. UNCHANGED unnotified
        BY <3>1
           DEF CoroutineStep, AcceptStart, AcceptFirst, AcceptWoken, AcceptSecond, AcceptEnd,
               RecvStart, RecvFirst, RecvWoken, RecvSecond, RecvEnd, RecvData, RecvFailed,
               SendStart, SendFirst, SendWoken, SendSecond, SendFailed, SendCall, SendEnd,
               Woken, Poll, Killed, EndOwner, loopVars
      <4> QED
        BY <4>1
    <3>2. CASE Start \/ Tick \/ Destruct
      BY <3>2 DEF Start, Tick, Destruct, Goto, Killed, loopVars
    <3>3. CASE RunStep
      BY <3>3
         DEF RunStep, AssignTasks, Assign, Launch, PopTask, Assigned, LoopTest, EpollWait,
             EpollInterrupted, EpollFails, Dispatch, Dispatched, Broadcast, Broadcasted,
             TimersDone, Goto, StartBroadcast
    <3>4. CASE UNCHANGED schedulerVars \/ StopApp \/ UNCHANGED vars
      BY <3>4 DEF StopApp, vars, schedulerVars, loopVars
    <3> QED
      BY <3>1, <3>2, <3>3, <3>4 DEF Next, Program
  <2> QED
    BY <1>1, <1>2, <2>1
<1>3. CASE RemoveLightThread(running) /\ unnotified = {} /\ UNCHANGED unnotified
  BY <1>1, <1>3 DEF RemoveLightThread
<1>4. ASSUME NEW d \in DanFds, running \in Busy, UNCHANGED unnotified,
             waitingFds_' = [w \in DOMAIN waitingFds_ \cup {running} |->
                               IF w = running THEN d ELSE waitingFds_[w]]
      PROVE  /\ DOMAIN waitingFds_' \subseteq Workers
             /\ \A w \in DOMAIN waitingFds_' : waitingFds_'[w] \in DanFds
             /\ unnotified' \subseteq DOMAIN waitingFds_'
  BY <1>1, <1>4
<1> QED
  BY <1>2, <1>3, <1>4, WaitingSteps
(* What a tick puts at the end of the queue, and gives back to the pool. *)
LEMMA TickTyped ==
  ASSUME TypeOK, NEW V \in SUBSET DOMAIN sessions_, ProcMsgFunc(V)
  PROVE  /\ undoTasksQueue_' \in Seq(Task)
         /\ sessions_' \in [DOMAIN sessions_' -> Sessions] /\ DOMAIN sessions_' \subseteq Fds
         /\ session' \in [Sessions -> Session]
         /\ objs_' \in Seq(Sessions)
<1>1. /\ undoTasksQueue_ \in Seq(Task) /\ objs_ \in Seq(Sessions)
      /\ sessions_ \in [DOMAIN sessions_ -> Sessions] /\ DOMAIN sessions_ \subseteq Fds
      /\ session \in [Sessions -> Session]
  BY DEF TypeOK
<1>2. /\ Replying(V) \in SUBSET Fds /\ V \cap Dead \in SUBSET Fds
      /\ Replying(V) \subseteq DOMAIN sessions_ /\ V \cap Dead \subseteq DOMAIN sessions_
  BY <1>1 DEF Replying
<1>3. \A n \in DOMAIN sessions_ :
        sessions_[n] \in Sessions /\ session[sessions_[n]].recvBuffer_ \in Seq(Conns)
  BY <1>1 DEF Session
<1>4. \A n \in Replying(V) : SendTask(n) \in Task
  <2>1. SUFFICES ASSUME NEW n \in Replying(V)
                 PROVE  SendTask(n) \in Task
    OBVIOUS
  <2>2. /\ sessions_[n] \in Sessions /\ session[sessions_[n]].recvBuffer_ \in Seq(Conns)
        /\ session[sessions_[n]].recvBuffer_ # <<>>
    BY <1>2, <1>3, <2>1 DEF Replying
  <2>3. Head(session[sessions_[n]].recvBuffer_) \in Conns
    BY <2>2, HeadTailProperties
  <2> QED
    BY <2>2, <2>3 DEF SendTask, Task
<1>5. undoTasksQueue_' \in Seq(Task)
  <2> DEFINE f == Ascending(Replying(V))
  <2>1. f \in [1 .. Cardinality(Replying(V)) -> Replying(V)] /\ Cardinality(Replying(V)) \in Nat
    BY <1>2, Walk
  <2>2. undoTasksQueue_' = undoTasksQueue_ \o [i \in DOMAIN f |-> SendTask(f[i])]
    BY DEF ProcMsgFunc
  <2> HIDE DEF f
  <2>3. [i \in DOMAIN f |-> SendTask(f[i])] \in Seq(Task)
    BY <1>4, <2>1, SeqDef
  <2> QED
    BY <1>1, <2>2, <2>3, ConcatProperties
<1>6. objs_' \in Seq(Sessions)
  <2> DEFINE f == Ascending(V \cap Dead)
  <2>1. f \in [1 .. Cardinality(V \cap Dead) -> V \cap Dead] /\ Cardinality(V \cap Dead) \in Nat
    BY <1>2, Walk
  <2>2. objs_' = objs_ \o [i \in DOMAIN f |-> sessions_[f[i]]]
    BY DEF ProcMsgFunc
  <2> HIDE DEF f
  <2>3. \A n \in V \cap Dead : sessions_[n] \in Sessions
    BY <1>2, <1>3
  <2>4. [i \in DOMAIN f |-> sessions_[f[i]]] \in Seq(Sessions)
    <3>1. DOMAIN f = 1 .. Cardinality(V \cap Dead) /\ \A i \in DOMAIN f : f[i] \in V \cap Dead
      BY <2>1
    <3>2. [i \in DOMAIN f |-> sessions_[f[i]]] \in [1 .. Cardinality(V \cap Dead) -> Sessions]
      BY <2>3, <3>1
    <3> QED
      BY <2>1, <3>2, Numbered
  <2> QED
    BY <1>1, <2>2, <2>4, ConcatProperties
<1>7. sessions_' \in [DOMAIN sessions_' -> Sessions] /\ DOMAIN sessions_' \subseteq Fds
  BY <1>1 DEF ProcMsgFunc, Erased
<1>8. session' \in [Sessions -> Session]
  <2> DEFINE answered == {sessions_[n] : n \in Replying(V)}
  <2>1. session' = [s \in Sessions |-> IF s \in answered THEN Answered(session[s]) ELSE session[s]]
    BY DEF ProcMsgFunc
  <2>2. \A s \in answered : s \in Sessions /\ session[s].recvBuffer_ # <<>>
    BY <1>2, <1>3 DEF Replying
  <2> HIDE DEF answered
  <2>3. ASSUME NEW s \in answered
        PROVE  Answered(session[s]) \in Session
    <3>1. session[s] \in Session /\ session[s].recvBuffer_ # <<>>
      BY <1>1, <2>2, <2>3
    <3>2. session[s].recvBuffer_ \in Seq(Conns) /\ session[s].sendBuffer_ \in Seq(Conns)
      BY <3>1 DEF Session
    <3>3. /\ Head(session[s].recvBuffer_) \in Conns /\ Tail(session[s].recvBuffer_) \in Seq(Conns)
      BY <3>1, <3>2, HeadTailProperties
    <3>4. Append(session[s].sendBuffer_, Head(session[s].recvBuffer_)) \in Seq(Conns)
      BY <3>2, <3>3, AppendProperties
    <3> QED
      BY <3>1, <3>3, <3>4 DEF Answered, Session
  <2> QED
    BY <1>1, <2>1, <2>3
<1> QED
  BY <1>5, <1>6, <1>7, <1>8

(* What a step does to the queue of tasks. *)
LEMMA QueueTyped ==
  ASSUME TypeOK, Assigning, [Next]_vars
  PROVE  undoTasksQueue_' \in Seq(Task)
<1> USE DEF Runs, At, me
<1>1. undoTasksQueue_ \in Seq(Task)
  BY DEF TypeOK
<1>2. ASSUME NEW task \in Task, AddTask(task)
      PROVE  undoTasksQueue_' \in Seq(Task)
  BY <1>1, <1>2, AppendProperties DEF AddTask
<1>3. CASE AcceptSecond
  <2>1. CASE AcceptResults = {"accepted"}
    <3>1. PICK c \in Conns : AddTask([doFunc |-> "recvMsgFunc", arg |-> LowestFree, serves |-> c])
      BY <1>3, <2>1 DEF AcceptSecond, Backlog
    <3>2. LowestFree \in Fds
      BY <2>1, LowestFreeIsFree DEF AcceptResults, FreeFds
    <3>3. [doFunc |-> "recvMsgFunc", arg |-> LowestFree, serves |-> c] \in Task
      BY <3>2 DEF Task
    <3> QED
      BY <1>1, <3>1, <3>3, AppendProperties DEF AddTask
  <2>2. CASE AcceptResults # {"accepted"}
    BY <1>1, <1>3, <2>2 DEF AcceptSecond
  <2> QED
    BY <2>1, <2>2
<1>4. CASE AcceptStart \/ AcceptFirst \/ AcceptWoken \/ AcceptEnd
  BY <1>1, <1>4 DEF AcceptStart, AcceptFirst, AcceptWoken, AcceptEnd, Woken, EndOwner
<1>5. CASE RecvStart \/ RecvFirst \/ RecvWoken \/ RecvSecond \/ RecvEnd
  BY <1>1, <1>5 DEF RecvStart, RecvFirst, RecvWoken, RecvSecond, RecvEnd, Woken, EndOwner
<1>6. CASE SendStart \/ SendFirst \/ SendWoken \/ SendSecond \/ SendFailed
  BY <1>1, <1>6
     DEF SendStart, SendFirst, SendWoken, SendSecond, SendFailed, SendCall, SendEnd, Woken
<1>7. CASE Start
  <2>1. [doFunc |-> "acceptFunc", arg |-> ListenFd, serves |-> Listener] \in Task
    BY DEF Task
  <2>2. \/ UNCHANGED undoTasksQueue_
        \/ AddTask([doFunc |-> "acceptFunc", arg |-> ListenFd, serves |-> Listener])
    BY <1>7 DEF Start
  <2> QED
    BY <1>1, <1>2, <2>1, <2>2
<1>8. CASE Tick
  <2>1. CASE UNCHANGED undoTasksQueue_
    BY <1>1, <2>1
  <2>2. ASSUME NEW V \in Visits, ProcMsgFunc(V)
        PROVE  undoTasksQueue_' \in Seq(Task)
    BY <2>2, TickTyped DEF Visits
  <2> QED
    BY <1>8, <2>1, <2>2 DEF Tick
<1>9. CASE RunStep
  <2>1. UNCHANGED undoTasksQueue_ \/ (Launched /\ undoTasksQueue_' = Tail(undoTasksQueue_))
    BY <1>9
       DEF RunStep, AssignTasks, Assign, Launch, PopTask, Assigned, LoopTest, EpollWait,
           EpollInterrupted, EpollFails, Dispatch, Dispatched, Broadcast, Broadcasted, TimersDone,
           InMain, Launched
  <2>2. Launched => undoTasksQueue_ # <<>>
    BY DEF Assigning
  <2> QED
    BY <1>1, <2>1, <2>2, HeadTailProperties
<1>10. CASE Destruct \/ UNCHANGED schedulerVars \/ StopApp \/ UNCHANGED vars
  BY <1>1, <1>10 DEF Destruct, StopApp, vars, schedulerVars
<1> QED
  BY <1>3, <1>4, <1>5, <1>6, <1>7, <1>8, <1>9, <1>10 DEF Next, Program, CoroutineStep
(* What a step does to the place of run() and to the batch of events. *)
LEMMA LoopTyped ==
  ASSUME TypeOK, [Next]_vars
  PROVE  /\ stop_' \in BOOLEAN
         /\ pc' \in {"start", "boot", "boot-launch", "boot-pop", "assign", "launch", "pop", "loop",
                     "wait", "dispatch", "timers", "CLOSE", "ERROR", "exited", "gone", "killed"}
         /\ \A e \in events' : e \in [ptr : DanFds, events : SUBSET {"IN", "OUT", "ERR"}]
<1> USE DEF Goto, Killed, loopVars
<1>1. /\ stop_ \in BOOLEAN
      /\ pc \in {"start", "boot", "boot-launch", "boot-pop", "assign", "launch", "pop", "loop",
                 "wait", "dispatch", "timers", "CLOSE", "ERROR", "exited", "gone", "killed"}
      /\ \A e \in events : e \in [ptr : DanFds, events : SUBSET {"IN", "OUT", "ERR"}]
      /\ \A n \in DOMAIN interest : interest[n] \in [ptr : DanFds, events : {"IN", "OUT"}]
  BY DEF TypeOK
<1>2. CASE CoroutineStep
  <2>1. UNCHANGED stop_ /\ (UNCHANGED loopVars \/ Killed)
    BY <1>2
       DEF CoroutineStep, AcceptStart, AcceptFirst, AcceptWoken, AcceptSecond, AcceptEnd,
           RecvStart, RecvFirst, RecvWoken, RecvSecond, RecvEnd, RecvData, RecvFailed,
           SendStart, SendFirst, SendWoken, SendSecond, SendFailed, SendCall, SendEnd,
           Woken, Poll, EndOwner
  <2> QED
    BY <1>1, <2>1
<1>3. CASE Start \/ Tick \/ Destruct
  BY <1>1, <1>3 DEF Start, Tick, Destruct
<1>4. CASE EpollWait
  <2>1. /\ UNCHANGED stop_ /\ pc' = "dispatch"
        /\ events' = {[ptr |-> interest[n].ptr, events |-> Reported(n)] : n \in ReadyFds}
    BY <1>4 DEF EpollWait
  <2>2. \A n \in ReadyFds : interest[n].ptr \in DanFds /\ interest[n].events \in {"IN", "OUT"}
    BY <1>1 DEF ReadyFds
  <2>3. \A n \in ReadyFds : Reported(n) \in SUBSET {"IN", "OUT", "ERR"}
    BY <2>2 DEF Reported
  <2> QED
    BY <1>1, <2>1, <2>2, <2>3
<1>5. CASE RunStep /\ ~ EpollWait
  BY <1>1, <1>5
     DEF RunStep, AssignTasks, Assign, Launch, PopTask, Assigned, LoopTest, EpollInterrupted,
         EpollFails, Dispatch, Dispatched, Broadcast, Broadcasted, TimersDone, StartBroadcast
<1>6. CASE UNCHANGED schedulerVars \/ StopApp \/ UNCHANGED vars
  BY <1>1, <1>6 DEF StopApp, vars, schedulerVars
<1> QED
  BY <1>2, <1>3, <1>4, <1>5, <1>6 DEF Next, Program

SessionTypes ==
  /\ sessions_ \in [DOMAIN sessions_ -> Sessions] /\ DOMAIN sessions_ \subseteq Fds
  /\ session \in [Sessions -> Session]
  /\ objs_ \in Seq(Sessions)

(* A receiver has its session, and no danFd_t of the listening socket. *)
LEMMA ReceiverReceives ==
  ASSUME TypeOK, Scheduling, Accepting, Bound,
         NEW w \in Busy, jobOf[w].doFunc = "recvMsgFunc", Started(w)
  PROVE  /\ local[w].pSession \in Sessions /\ local[w].pFd \in DanFds
         /\ danFd[local[w].pFd].fd \in Fds
         /\ danFd[local[w].pFd].fd # ListenFd /\ files[danFd[local[w].pFd].fd] # Listener
<1>1. local[w].pSession \in Sessions /\ local[w].pFd \in DanFds
  BY DEF Bound, Scheduling, Placed
<1>2. danFd[local[w].pFd].fd = jobOf[w].arg
  BY DEF Scheduling, Owned, Owner
<1>3. jobOf[w].arg \in Fds /\ jobOf[w].arg # ListenFd
  BY TasksTyped DEF TypeOK, Accepting
<1> QED
  BY <1>1, <1>2, <1>3 DEF Accepting

(* What a step does to the sessions. *)
LEMMA SessionTyped ==
  ASSUME TypeOK, Scheduling, Accepting, Bound, RepliesSent, [Next]_vars
  PROVE  SessionTypes'
<1> USE DEF Runs, At, me, sessionVars
<1>1. SessionTypes
  BY DEF TypeOK, SessionTypes
<1>2. CASE UNCHANGED sessionVars
  BY <1>1, <1>2 DEF SessionTypes
<1>3. ASSUME RecvData, running \in Busy, Runs("recvMsgFunc"), Started(running),
             "data" \in RecvResults(danFd[me.pFd].fd), UNCHANGED <<sessions_, objs_>>
      PROVE  SessionTypes'
  <2> DEFINE c == files[danFd[local[running].pFd].fd]
             s == local[running].pSession
  <2>1. s \in Sessions /\ c \in Conns
    <3>1. s \in Sessions /\ danFd[local[running].pFd].fd \in Fds /\ c # Listener
      BY <1>3, ReceiverReceives
    <3>2. c \in Conns \cup {Listener, Free} /\ c # Free
      BY <1>3, <3>1 DEF TypeOK, RecvResults
    <3> QED
      BY <3>1, <3>2
  <2>2. socket[c].unread \in Nat
    BY <2>1 DEF TypeOK, Socket
  <2> DEFINE requests == [i \in 1 .. socket[c].unread |-> c]
  <2>3. requests \in Seq(Conns)
    <3>1. requests \in [1 .. socket[c].unread -> Conns]
      BY <2>1
    <3> QED
      BY <2>2, <3>1, Numbered
  <2>4. session' = IF Asks THEN [session EXCEPT ![s].recvBuffer_ = @ \o requests] ELSE session
    BY <1>3 DEF RecvData
  <2> HIDE DEF c, s, requests
  <2>5. session[s].recvBuffer_ \o requests \in Seq(Conns)
    BY <1>1, <2>1, <2>3, ConcatProperties DEF SessionTypes, Session
  <2>6. session' \in [Sessions -> Session]
    BY <1>1, <2>1, <2>4, <2>5 DEF SessionTypes, Session
  <2> QED
    BY <1>1, <1>3, <2>6 DEF SessionTypes
<1>4. ASSUME NEW alive \in BOOLEAN, SendEnd(alive), Runs("onSend"), pc # "killed"
      PROVE  SessionTypes'
  <2>1. /\ bound \in Sessions /\ session[bound].sendBuffer_ \in Seq(Conns)
        /\ session[bound].sendBuffer_ # <<>>
    BY <1>4, SenderHasReply DEF bound
  <2>2. Tail(session[bound].sendBuffer_) \in Seq(Conns)
    BY <2>1, HeadTailProperties
  <2>3. session' = [session EXCEPT ![bound].sendBuffer_ = Tail(@), ![bound].isAlive_ = @ /\ alive]
    BY <1>4 DEF SendEnd
  <2>4. session' \in [Sessions -> Session]
    BY <1>1, <1>4, <2>1, <2>2, <2>3 DEF SessionTypes, Session
  <2> QED
    BY <1>1, <1>4, <2>4 DEF SessionTypes, SendEnd
<1>5. CASE AcceptStart \/ AcceptFirst \/ AcceptWoken \/ AcceptSecond \/ AcceptEnd
  BY <1>2, <1>5 DEF AcceptStart, AcceptFirst, AcceptWoken, AcceptSecond, AcceptEnd, Woken, EndOwner
<1>6. CASE RecvStart
  <2> DEFINE s == Head(objs_)
             n == jobOf[running].arg
  <2>1. PICK d \in DanFds :
          /\ objs_ # <<>> /\ objs_' = Tail(objs_) /\ Bind(s, d)
          /\ sessions_' = [m \in DOMAIN sessions_ \cup {n} |-> IF m = n THEN s ELSE sessions_[m]]
    BY <1>6 DEF RecvStart
  <2>2. s \in Sessions /\ objs_' \in Seq(Sessions)
    BY <1>1, <2>1, HeadTailProperties DEF SessionTypes
  <2>3. n \in Fds
    BY <1>6, TasksTyped DEF RecvStart, TypeOK
  <2> HIDE DEF s, n
  <2>4. session' \in [Sessions -> Session]
    BY <1>1, <2>1, <2>2 DEF Bind, SessionTypes, Session
  <2>5. sessions_' \in [DOMAIN sessions_' -> Sessions] /\ DOMAIN sessions_' \subseteq Fds
    BY <1>1, <2>1, <2>2, <2>3 DEF SessionTypes
  <2> QED
    BY <2>2, <2>4, <2>5 DEF SessionTypes
<1>7. CASE RecvFirst \/ RecvWoken \/ RecvSecond \/ RecvEnd
  <2>1. \/ UNCHANGED sessionVars
        \/ /\ RecvData /\ running \in Busy /\ Runs("recvMsgFunc") /\ Started(running)
           /\ "data" \in RecvResults(danFd[me.pFd].fd) /\ UNCHANGED <<sessions_, objs_>>
    BY <1>7
       DEF RecvFirst, RecvWoken, RecvSecond, RecvEnd, RecvFailed, Woken, EndOwner, Poll, Started
  <2> QED
    BY <1>2, <1>3, <2>1
<1>8. CASE (SendStart \/ SendFirst \/ SendWoken \/ SendSecond \/ SendFailed) /\ pc # "killed"
  <2>1. UNCHANGED sessionVars \/ \E alive \in BOOLEAN : SendEnd(alive) /\ Runs("onSend")
    BY <1>8
       DEF SendStart, SendFirst, SendWoken, SendSecond, SendFailed, SendCall, Woken
  <2> QED
    BY <1>2, <1>4, <1>8, <2>1
<1>9. CASE Tick
  <2>1. CASE \E V \in Visits : ProcMsgFunc(V)
    BY <2>1, TickTyped DEF Visits, SessionTypes
  <2> QED
    BY <1>2, <1>9, <2>1 DEF Tick
<1>10. CASE Destruct
  <2> DEFINE f == Ascending(DOMAIN sessions_)
  <2>1. /\ f \in [1 .. Cardinality(DOMAIN sessions_) -> DOMAIN sessions_]
        /\ Cardinality(DOMAIN sessions_) \in Nat
    BY <1>1, Walk DEF SessionTypes
  <2>2. objs_' = objs_ \o [i \in DOMAIN f |-> sessions_[f[i]]]
    BY <1>10 DEF Destruct
  <2> HIDE DEF f
  <2>3. [i \in DOMAIN f |-> sessions_[f[i]]] \in [1 .. Cardinality(DOMAIN sessions_) -> Sessions]
    BY <1>1, <2>1 DEF SessionTypes
  <2>4. objs_' \in Seq(Sessions)
    BY <1>1, <2>1, <2>2, <2>3, Numbered, ConcatProperties DEF SessionTypes
  <2> QED
    BY <1>1, <1>10, <2>4 DEF Destruct, SessionTypes
<1>11. CASE Start \/ (RunStep /\ UNCHANGED sessionVars) \/ UNCHANGED sessionVars \/ UNCHANGED vars
  BY <1>2, <1>11 DEF Start, vars
<1> QED
  BY <1>5, <1>6, <1>7, <1>8, <1>9, <1>10, <1>11 DEF Next, Program, CoroutineStep
(* Every variable keeps its type. *)
LEMMA NextTyped ==
  ASSUME TypeOK, Scheduling, Serving, [Next]_vars
  PROVE  TypeOK'
<1>1. Accepting /\ Bound /\ Assigning /\ RepliesSent
  BY DEF Serving
<1>2. KernelTypes'
  <2>1. KernelTypes
    BY DEF TypeOK, KernelTypes
  <2>2. KernelCall /\ EpollCall
    BY <1>1, KernelCalls DEF Scheduling, Bound
  <2> QED
    BY <2>1, <2>2, KernelTyped
<1>3. PoolTypes'
  <2>1. PoolTypes /\ undoTasksQueue_ \in Seq(Task)
    BY DEF TypeOK, PoolTypes
  <2> QED
    BY <2>1, PoolCalls, PoolTyped
<1>4. local' \in [Workers -> Local]
  BY <1>1, LocalTyped
<1>5. danFd' \in [DanFds -> DanFd]
  BY <1>1, DanFdTyped
<1>6. /\ DOMAIN waitingFds_' \subseteq Workers
      /\ \A w \in DOMAIN waitingFds_' : waitingFds_'[w] \in DanFds
      /\ unnotified' \subseteq DOMAIN waitingFds_'
  BY WaitingTyped
<1>7. undoTasksQueue_' \in Seq(Task)
  BY <1>1, QueueTyped
<1>8. SessionTypes'
  BY <1>1, SessionTyped
<1> QED
  BY <1>2, <1>3, <1>4, <1>5, <1>6, <1>7, <1>8, LoopTyped
     DEF TypeOK, KernelTypes, PoolTypes, SessionTypes


-----------------------------------------------------------------------------
(* Accepting. *)

(* A step that does not touch the listening socket, the queue, or what     *)
(* sessions and danFd_t's are bound to; coroutines may end. *)
LEMMA StillAccepting ==
  ASSUME TypeOK, Accepting, UNCHANGED undoTasksQueue_,
         Busy' \subseteq Busy, \A w \in Busy' : jobOf'[w] = jobOf[w],
         \A w \in Busy' : Started(w) => local'[w].at # "start",
         \A n \in Fds : files'[n] = Listener <=> files[n] = Listener,
         \A s \in Sessions : session'[s].pFd_ = session[s].pFd_,
         \A d \in DanFds : danFd'[d].fd = danFd[d].fd,
         pc' # "start" \/ pc' = pc,
         AcceptQueued => /\ pc' \in {"boot", "boot-launch", "boot-pop", "killed"}
                         /\ pc' = "boot" => pc = "boot"
  PROVE  Accepting'
<1>1. Queue' = Queue /\ AcceptQueued' = AcceptQueued
  BY DEF AcceptQueued, Queue
<1>2. ListenFd \in Fds
  BY KernelAssumption DEF ListenFd, Fds
<1>3. ListenFd' = ListenFd /\ Fds' = Fds
  BY DEF ListenFd, Fds
<1>4. /\ \A n \in Fds : files'[n] = Listener => n = ListenFd
      /\ \A w \in Busy' : jobOf'[w].doFunc = "recvMsgFunc" => jobOf'[w].arg # ListenFd
      /\ \A task \in Queue : task.doFunc = "recvMsgFunc" => task.arg # ListenFd
  BY DEF Accepting
<1>5. \A w \in Busy' : jobOf'[w].doFunc = "acceptFunc" =>
        /\ files'[ListenFd] = Listener
        /\ local'[w].at = "start" => AcceptQueued
        /\ \A v \in Busy' : jobOf'[v].doFunc = "acceptFunc" => v = w
  BY <1>2 DEF Accepting
<1>6. \A s \in Sessions : session'[s].pFd_ \in DanFds => danFd'[session'[s].pFd_].fd # ListenFd
  BY DEF Accepting
<1>7. /\ pc' = "start" => undoTasksQueue_ = <<>>
      /\ AcceptQueued \/ pc' = "start" => \A s \in Sessions : session'[s].pFd_ = NoFd
  BY DEF Accepting
<1>8. AcceptQueued =>
        /\ pc' \in {"boot", "boot-launch", "boot-pop", "killed"}
        /\ Len(undoTasksQueue_) = 1
        /\ pc' = "boot" => Busy' = {} /\ files'[ListenFd] = Listener
        /\ \A w \in Busy' : jobOf'[w].doFunc = "acceptFunc"
  BY <1>2 DEF Accepting
<1> QED
  BY <1>1, <1>3, <1>4, <1>5, <1>6, <1>7, <1>8 DEF Accepting, Started

(* What lightThreadPoll leaves alone. *)
LEMMA PollTouches ==
  ASSUME TypeOK, running \in Busy, NEW waitingEvents, NEW place, place # "start",
         Poll(local[running].pFd, waitingEvents, place)
  PROVE  /\ Busy' = Busy /\ UNCHANGED jobOf /\ pc' \in {pc, "killed"}
         /\ Launching' => Launching /\ UNCHANGED pc
         /\ \A w \in Busy : Started(w) => local'[w].at # "start"
         /\ \A w \in Busy : local'[w].pSession = local[w].pSession
         /\ \A d \in DanFds : danFd'[d].fd = danFd[d].fd
<1>1. local \in [Workers -> Local] /\ danFd \in [DanFds -> DanFd] /\ Busy \subseteq Workers
  BY DEF TypeOK
<1>2. CASE Live(local[running].pFd)
  <2>1. /\ UNCHANGED <<jobOf, pc>> /\ Busy' = Busy
        /\ local' = [local EXCEPT ![running].at = place]
        /\ danFd' = [danFd EXCEPT ![local[running].pFd].lightThreadId = running,
                                  ![local[running].pFd].waitingEvents = waitingEvents]
    BY <1>2 DEF Poll, Park, Continue, loopVars, Busy, Pool!Busy, Pool!Pause
  <2>2. \A w \in Busy : /\ Started(w) => local'[w].at # "start"
                        /\ local'[w].pSession = local[w].pSession
    BY <1>1, <2>1 DEF Local, Started
  <2>3. \A d \in DanFds : danFd'[d].fd = danFd[d].fd
    BY <1>1, <2>1 DEF DanFd
  <2> QED
    BY <2>1, <2>2, <2>3 DEF Launching
<1>3. CASE ~ Live(local[running].pFd)
  <2>1. UNCHANGED <<jobOf, local, danFd>> /\ Busy' = Busy /\ pc' = "killed"
    BY <1>3 DEF Poll, Killed, poolVars, Busy, Pool!Busy
  <2> QED
    BY <2>1 DEF Started, Launching
<1> QED
  BY <1>2, <1>3

(* acceptFunc, whose return closes the listening socket. *)
LEMMA AcceptAccepts ==
  ASSUME TypeOK, Scheduling, Accepting, pc # "killed",
         AcceptStart \/ AcceptFirst \/ AcceptWoken \/ AcceptSecond \/ AcceptEnd
  PROVE  Accepting'
<1> USE DEF Runs, At, me
<1>1. /\ running \in Busy /\ jobOf[running].doFunc = "acceptFunc"
      /\ files[ListenFd] = Listener /\ ListenFd \in Fds
      /\ \A v \in Busy : jobOf[v].doFunc = "acceptFunc" => v = running
      /\ local \in [Workers -> Local] /\ Busy \subseteq Workers
      /\ danFd \in [DanFds -> DanFd] /\ files \in [Fds -> Conns \cup {Listener, Free}]
      /\ pc # "start" /\ running # NoWorker
  BY KernelAssumption, SchedulerAssumption
     DEF AcceptStart, AcceptFirst, AcceptWoken, AcceptSecond, AcceptEnd, Accepting, TypeOK, ListenFd,
         Fds, Scheduling, Loop, Workers
<1>2. AcceptQueued => pc = "boot-pop"
  BY <1>1 DEF Accepting, Scheduling, Placed, Launching, Launched, Broadcasting
<1>3. ASSUME NEW c \in Conns, FreeFds # {}, Accepted(c)
      PROVE  /\ LowestFree \in Fds /\ LowestFree # ListenFd
             /\ \A n \in Fds : files'[n] = Listener <=> files[n] = Listener
  <2>1. LowestFree \in Fds /\ files[LowestFree] = Free
    BY <1>3, LowestFreeIsFree DEF FreeFds
  <2>2. files' = [files EXCEPT ![LowestFree] = c]
    BY <1>3 DEF Accepted
  <2> QED
    BY <1>1, <2>1, <2>2, KernelAssumption
<1>4. CASE AcceptStart
  <2>1. PICK d \in DanFds : CreateFd(d, jobOf[running].arg) /\
                            local' = [local EXCEPT ![running].at = "accept", ![running].pFd = d]
    BY <1>4 DEF AcceptStart
  <2>2. /\ UNCHANGED <<files, jobOf, undoTasksQueue_, session, pc>> /\ Busy' = Busy
        /\ \A w \in Busy : Started(w) => local'[w].at # "start"
    BY <1>1, <1>4, <2>1
       DEF AcceptStart, kernelVars, poolVars, sessionVars, loopVars, Busy, Pool!Busy, Local, Started
  <2>3. AcceptQueued
    BY <1>1, <1>4 DEF AcceptStart, Accepting, Started
  <2>4. \A s \in Sessions : session[s].pFd_ = NoFd
    BY <2>3 DEF Accepting
  <2>5. Queue' = Queue /\ AcceptQueued' = AcceptQueued /\ ListenFd' = ListenFd /\ Fds' = Fds
    BY <2>2 DEF AcceptQueued, Queue, ListenFd, Fds
  <2> QED
    BY <2>2, <2>4, <2>5, SchedulerAssumption DEF Accepting, Started
<1>5. CASE AcceptFirst
  <2>1. /\ Busy' = Busy /\ UNCHANGED <<jobOf, undoTasksQueue_, session>> /\ pc' \in {pc, "killed"}
        /\ \A w \in Busy : Started(w) => local'[w].at # "start"
        /\ \A d \in DanFds : danFd'[d].fd = danFd[d].fd
    <3>1. /\ \/ Continue("accept-end") /\ UNCHANGED <<poolVars, danFd, loopVars>>
             \/ Poll(local[running].pFd, "IN", "accept-woken")
          /\ UNCHANGED <<undoTasksQueue_, session>>
      BY <1>5 DEF AcceptFirst, sessionVars
    <3>2. CASE Continue("accept-end") /\ UNCHANGED <<poolVars, danFd, loopVars>>
      BY <1>1, <3>1, <3>2 DEF Continue, Local, Started, poolVars, loopVars, Busy, Pool!Busy
    <3>3. CASE Poll(local[running].pFd, "IN", "accept-woken")
      BY <1>1, <3>1, <3>3, PollTouches
    <3> QED
      BY <3>1, <3>2, <3>3
  <2>2. \A n \in Fds : files'[n] = Listener <=> files[n] = Listener
    <3>1. UNCHANGED files \/ (FreeFds # {} /\ \E c \in Backlog : Accepted(c))
      BY <1>5 DEF AcceptFirst, AcceptResults, kernelVars
    <3>2. CASE UNCHANGED files
      BY <3>2
    <3>3. CASE FreeFds # {} /\ \E c \in Backlog : Accepted(c)
      BY <1>3, <3>3 DEF Backlog
    <3> QED
      BY <3>1, <3>2, <3>3
  <2> QED
    BY <1>1, <1>2, <2>1, <2>2, StillAccepting
<1>6. CASE AcceptWoken
  <2>1. /\ Busy' = Busy /\ UNCHANGED <<jobOf, undoTasksQueue_, session, files, danFd, pc>>
        /\ \E place \in Places \ {"start"} : Continue(place)
    BY <1>6 DEF AcceptWoken, Woken, sessionVars, poolVars, loopVars, Busy, Pool!Busy, Places
  <2>2. \A w \in Busy : Started(w) => local'[w].at # "start"
    BY <1>1, <2>1 DEF Continue, Local, Started
  <2> QED
    BY <1>1, <1>2, <2>1, <2>2, StillAccepting
<1>7. CASE AcceptSecond
  <2>1. /\ Busy' = Busy /\ UNCHANGED <<jobOf, session, danFd, pc>>
        /\ Continue("accept") \/ Continue("accept-end")
    BY <1>7 DEF AcceptSecond, sessionVars, poolVars, loopVars, Busy, Pool!Busy
  <2>2. \A w \in Busy : Started(w) => local'[w].at # "start"
    BY <1>1, <2>1 DEF Continue, Local, Started
  <2>3. CASE UNCHANGED <<files, undoTasksQueue_>>
    BY <1>1, <1>2, <2>1, <2>2, <2>3, StillAccepting
  <2>4. CASE AcceptResults = {"accepted"}
    <3>1. PICK c \in Conns :
            Accepted(c) /\ AddTask([doFunc |-> "recvMsgFunc", arg |-> LowestFree, serves |-> c])
      BY <1>7, <2>4 DEF AcceptSecond, Backlog
    <3> DEFINE task == [doFunc |-> "recvMsgFunc", arg |-> LowestFree, serves |-> c]
    <3>2. /\ task.arg # ListenFd /\ task.doFunc = "recvMsgFunc"
          /\ \A n \in Fds : files'[n] = Listener <=> files[n] = Listener
      BY <1>3, <2>4, <3>1 DEF AcceptResults
    <3>3. Queue' = Queue \cup {task}
      <4>1. undoTasksQueue_ \in Seq(Task)
        BY DEF TypeOK
      <4>2. undoTasksQueue_' = Append(undoTasksQueue_, task)
        BY <3>1 DEF AddTask
      <4> HIDE DEF task
      <4> QED
        BY <4>1, <4>2 DEF Queue
    <3>4. ~ AcceptQueued
      <4>1. local[running].at = "accept-again"
        BY <1>7 DEF AcceptSecond
      <4>2. ~ Launched
        BY <1>1, <4>1 DEF Scheduling, Placed, AgainAt
      <4> QED
        BY <1>2, <4>2 DEF Launched
    <3>5. AcceptQueued' = AcceptQueued /\ ListenFd' = ListenFd /\ Fds' = Fds
      BY <3>2, <3>3 DEF AcceptQueued, ListenFd, Fds
    <3> HIDE DEF task
    <3>6. \A t \in Queue' : t.doFunc = "recvMsgFunc" => t.arg # ListenFd
      BY <3>2, <3>3 DEF Accepting
    <3> QED
      BY <1>1, <2>1, <2>2, <3>2, <3>4, <3>5, <3>6 DEF Accepting, Started
  <2> QED
    BY <1>7, <2>3, <2>4 DEF AcceptSecond
<1>8. CASE AcceptEnd
  <2>1. local[running].at = "accept-end" /\ EndOwner(local[running].pFd)
    BY <1>8 DEF AcceptEnd
  <2>2. /\ Busy' = Busy \ {running} /\ \A w \in Busy' : jobOf'[w] = jobOf[w]
        /\ \A w \in Busy' : local'[w] = local[w]
        /\ UNCHANGED <<undoTasksQueue_, session, pc>>
        /\ FreeFd(local[running].pFd) /\ Closed(danFd[local[running].pFd].fd)
    BY <1>1, <2>1 DEF EndOwner, sessionVars, loopVars, Busy, Pool!Busy, Pool!Finish
  <2>3. \A d \in DanFds : danFd'[d].fd = danFd[d].fd
    BY <1>1, <2>2 DEF FreeFd, DanFd
  <2>4. \A n \in Fds : files'[n] \in {files[n], Free}
    BY <1>1, <2>2 DEF Closed
  <2>5. Queue' = Queue /\ AcceptQueued' = AcceptQueued /\ ListenFd' = ListenFd /\ Fds' = Fds
    BY <2>2 DEF AcceptQueued, Queue, ListenFd, Fds
  <2>6. \A w \in Busy' : jobOf'[w].doFunc # "acceptFunc"
    BY <1>1, <2>2
  <2>7. AcceptQueued => pc' = "boot-pop"
    BY <1>2, <2>2
  <2> QED
    BY <1>1, <2>2, <2>3, <2>4, <2>5, <2>6, <2>7, KernelAssumption DEF Accepting, Started
<1> QED
  BY <1>4, <1>5, <1>6, <1>7, <1>8
(* recvMsgFunc: no receiver has the listening socket. *)
LEMMA RecvAccepts ==
  ASSUME TypeOK, Scheduling, Accepting, Bound, pc # "killed",
         RecvStart \/ RecvFirst \/ RecvWoken \/ RecvSecond \/ RecvEnd
  PROVE  Accepting'
<1> USE DEF Runs, At, me
<1>1. /\ running \in Busy /\ jobOf[running].doFunc = "recvMsgFunc" /\ running # NoWorker
      /\ ListenFd \in Fds /\ local \in [Workers -> Local] /\ Busy \subseteq Workers
      /\ danFd \in [DanFds -> DanFd] /\ files \in [Fds -> Conns \cup {Listener, Free}]
      /\ session \in [Sessions -> Session] /\ pc # "start"
  <2>1. running \in Busy /\ jobOf[running].doFunc = "recvMsgFunc"
    BY DEF RecvStart, RecvFirst, RecvWoken, RecvSecond, RecvEnd
  <2>2. running # NoWorker
    BY <2>1, SchedulerAssumption DEF TypeOK, Workers
  <2>3. ListenFd \in Fds
    BY KernelAssumption DEF ListenFd, Fds
  <2>4. pc # "start"
    BY <2>1 DEF Scheduling, Loop
  <2> QED
    BY <2>1, <2>2, <2>3, <2>4 DEF TypeOK
<1>2. ~ AcceptQueued
  BY <1>1 DEF Accepting
<1>3. CASE RecvStart
  <2> DEFINE s == Head(objs_)
  <2>1. PICK d \in DanFds :
          /\ CreateFd(d, jobOf[running].arg) /\ Bind(s, d) /\ objs_ # <<>>
          /\ local' = [local EXCEPT ![running] =
                         [Fresh EXCEPT !.at = "recv", !.pFd = d, !.pSession = s]]
    BY <1>3 DEF RecvStart
  <2>2. s \in Sessions
    BY <2>1, HeadTailProperties DEF TypeOK
  <2>3. /\ UNCHANGED <<files, jobOf, undoTasksQueue_, pc>> /\ Busy' = Busy
        /\ session' = [session EXCEPT ![s].pFd_ = d, ![s].isAlive_ = TRUE]
        /\ danFd' = [danFd EXCEPT ![d] = [Unused EXCEPT !.heap = "live", !.fd = jobOf[running].arg]]
    BY <1>3, <2>1 DEF RecvStart, kernelVars, poolVars, loopVars, Busy, Pool!Busy, CreateFd, Bind
  <2>4. \A w \in Busy : Started(w) => local'[w].at # "start"
    BY <1>1, <2>1 DEF Fresh, Started
  <2>5. Queue' = Queue /\ AcceptQueued' = AcceptQueued /\ ListenFd' = ListenFd /\ Fds' = Fds
    BY <2>3 DEF AcceptQueued, Queue, ListenFd, Fds
  <2>6. danFd'[d].fd # ListenFd /\ \A e \in DanFds \ {d} : danFd'[e].fd = danFd[e].fd
    BY <1>1, <2>3 DEF Unused, Accepting, DanFd
  <2> HIDE DEF s
  <2>7. session'[s].pFd_ = d /\ \A t \in Sessions \ {s} : session'[t].pFd_ = session[t].pFd_
    BY <1>1, <2>2, <2>3 DEF Session
  <2>8. \A t \in Sessions : session'[t].pFd_ \in DanFds => danFd'[session'[t].pFd_].fd # ListenFd
    BY <2>6, <2>7 DEF Accepting
  <2> QED
    BY <1>1, <1>2, <2>3, <2>4, <2>5, <2>8 DEF Accepting, Started
<1>4. CASE RecvFirst \/ RecvSecond
  <2>1. Started(running)
    BY <1>4 DEF RecvFirst, RecvSecond, Started
  <2>2. local[running].pSession \in Sessions
    BY <1>1, <2>1, ReceiverReceives
  <2>3. /\ UNCHANGED <<files, undoTasksQueue_>>
        /\ \/ /\ Continue("recv") \/ Continue("recv-end")
              /\ UNCHANGED <<poolVars, danFd, loopVars>>
           \/ Poll(local[running].pFd, "IN", "recv-woken")
    BY <1>4 DEF RecvFirst, RecvSecond, RecvData, RecvFailed, kernelVars
  <2>4. \A s \in Sessions : session'[s].pFd_ = session[s].pFd_
    <3>1. UNCHANGED session \/ RecvData
      BY <1>4 DEF RecvFirst, RecvSecond, RecvFailed
    <3>2. CASE RecvData
      BY <1>1, <2>2, <3>2 DEF RecvData, Session
    <3> QED
      BY <3>1, <3>2
  <2>5. /\ Busy' = Busy /\ UNCHANGED jobOf /\ pc' \in {pc, "killed"}
        /\ \A w \in Busy : Started(w) => local'[w].at # "start"
        /\ \A d \in DanFds : danFd'[d].fd = danFd[d].fd
    <3>1. CASE /\ Continue("recv") \/ Continue("recv-end")
               /\ UNCHANGED <<poolVars, danFd, loopVars>>
      BY <1>1, <3>1 DEF Continue, Local, Started, poolVars, loopVars, Busy, Pool!Busy
    <3>2. CASE Poll(local[running].pFd, "IN", "recv-woken")
      BY <1>1, <3>2, PollTouches
    <3> QED
      BY <2>3, <3>1, <3>2
  <2> QED
    BY <1>1, <1>2, <2>3, <2>4, <2>5, StillAccepting
<1>5. CASE RecvWoken
  <2>1. /\ Busy' = Busy /\ UNCHANGED <<jobOf, undoTasksQueue_, session, files, danFd, pc>>
        /\ Continue("recv-again") \/ Continue("recv-end")
    BY <1>5 DEF RecvWoken, Woken, sessionVars, poolVars, loopVars, Busy, Pool!Busy
  <2>2. \A w \in Busy : Started(w) => local'[w].at # "start"
    BY <1>1, <2>1 DEF Continue, Local, Started
  <2> QED
    BY <1>1, <1>2, <2>1, <2>2, StillAccepting
<1>6. CASE RecvEnd
  <2>1. local[running].at = "recv-end" /\ EndOwner(local[running].pFd)
    BY <1>6 DEF RecvEnd
  <2>2. /\ Busy' = Busy \ {running} /\ \A w \in Busy' : jobOf'[w] = jobOf[w]
        /\ \A w \in Busy' : local'[w] = local[w]
        /\ UNCHANGED <<undoTasksQueue_, session, pc>>
        /\ FreeFd(local[running].pFd) /\ Closed(danFd[local[running].pFd].fd)
    BY <1>1, <2>1 DEF EndOwner, sessionVars, loopVars, Busy, Pool!Busy, Pool!Finish
  <2>3. \A d \in DanFds : danFd'[d].fd = danFd[d].fd
    BY <1>1, <2>2 DEF FreeFd, DanFd
  <2>4. danFd[local[running].pFd].fd \in Fds /\ files[danFd[local[running].pFd].fd] # Listener
    BY <1>1, <2>1, ReceiverReceives DEF Started
  <2>5. \A n \in Fds : files'[n] = Listener <=> files[n] = Listener
    BY <1>1, <2>2, <2>4, KernelAssumption DEF Closed
  <2> QED
    BY <1>1, <1>2, <2>2, <2>3, <2>5, StillAccepting DEF Started
<1> QED
  BY <1>3, <1>4, <1>5, <1>6

(* onSend: no session is bound to the listening socket. *)
LEMMA SendAccepts ==
  ASSUME TypeOK, Scheduling, Accepting, Bound, RepliesSent, pc # "killed",
         SendStart \/ SendFirst \/ SendWoken \/ SendSecond \/ SendFailed
  PROVE  Accepting'
<1> USE DEF Runs, At, me
<1>1. /\ running \in Busy /\ jobOf[running].doFunc = "onSend" /\ running # NoWorker
      /\ ListenFd \in Fds /\ local \in [Workers -> Local] /\ Busy \subseteq Workers
      /\ danFd \in [DanFds -> DanFd] /\ files \in [Fds -> Conns \cup {Listener, Free}]
      /\ session \in [Sessions -> Session] /\ pc # "start"
  <2>1. running \in Busy /\ jobOf[running].doFunc = "onSend"
    BY DEF SendStart, SendFirst, SendWoken, SendSecond, SendFailed
  <2>2. running # NoWorker
    BY <2>1, SchedulerAssumption DEF TypeOK, Workers
  <2>3. ListenFd \in Fds
    BY KernelAssumption DEF ListenFd, Fds
  <2>4. pc # "start"
    BY <2>1 DEF Scheduling, Loop
  <2> QED
    BY <2>1, <2>2, <2>3, <2>4 DEF TypeOK
<1>2. ~ AcceptQueued
  BY <1>1 DEF Accepting
<1>3. bound \in Sessions /\ boundFd \in DanFds /\ danFd[boundFd].fd \in Fds
      /\ danFd[boundFd].fd # ListenFd /\ files[danFd[boundFd].fd] # Listener
  <2>1. bound \in Sessions /\ boundFd \in DanFds
    BY <1>1, TasksTyped DEF TypeOK, Bound, SendersBound, bound, boundFd
  <2>2. danFd[boundFd].fd \in Fds
    BY <1>1, <2>1 DEF DanFd
  <2> QED
    BY <2>1, <2>2 DEF Accepting, boundFd
<1>4. ASSUME NEW alive, SendEnd(alive), \A n \in Fds : files'[n] = Listener <=> files[n] = Listener
      PROVE  Accepting'
  <2>1. /\ Busy' = Busy \ {running} /\ \A w \in Busy' : jobOf'[w] = jobOf[w]
        /\ \A w \in Busy' : local'[w] = local[w]
        /\ UNCHANGED <<undoTasksQueue_, danFd, pc>>
        /\ session' = [session EXCEPT ![bound].sendBuffer_ = Tail(@), ![bound].isAlive_ = @ /\ alive]
    BY <1>1, <1>4 DEF SendEnd, loopVars, Busy, Pool!Busy, Pool!Finish
  <2>2. \A s \in Sessions : session'[s].pFd_ = session[s].pFd_
    BY <1>1, <1>3, <2>1 DEF Session
  <2> QED
    BY <1>1, <1>2, <1>4, <2>1, <2>2, StillAccepting DEF Started
<1>5. CASE SendStart \/ SendWoken
  <2>1. /\ Busy' = Busy /\ UNCHANGED <<jobOf, undoTasksQueue_, session, files, danFd, pc>>
        /\ \E l : l.at # "start" /\ local' = [local EXCEPT ![running] = l]
    <3>1. CASE SendStart
      <4> DEFINE l == [Fresh EXCEPT !.at = "send", !.pFd = boundFd,
                                    !.pSendMsg = Head(session[bound].sendBuffer_)]
      <4>1. l.at = "send"
        BY DEF Fresh
      <4>2. local' = [local EXCEPT ![running] = l]
        BY <3>1 DEF SendStart
      <4> HIDE DEF l
      <4> QED
        BY <3>1, <4>1, <4>2
           DEF SendStart, sessionVars, poolVars, loopVars, kernelVars, Busy, Pool!Busy
    <3>2. CASE SendWoken
      <4>1. Continue("send-again") \/ Continue("send-end")
        BY <3>2 DEF SendWoken, Woken
      <4>2. PICK place \in {"send-again", "send-end"} : local' = [local EXCEPT ![running].at = place]
        BY <4>1 DEF Continue
      <4> DEFINE l == [local[running] EXCEPT !.at = place]
      <4>3. l.at = place
        BY <1>1 DEF Local
      <4>4. local' = [local EXCEPT ![running] = l]
        BY <1>1, <4>2
      <4> HIDE DEF l
      <4> QED
        BY <3>2, <4>3, <4>4 DEF SendWoken, Woken, sessionVars, poolVars, loopVars, Busy, Pool!Busy
    <3> QED
      BY <1>5, <3>1, <3>2
  <2>2. \A w \in Busy : Started(w) => local'[w].at # "start"
    BY <1>1, <2>1 DEF Started
  <2> QED
    BY <1>1, <1>2, <2>1, <2>2, StillAccepting
<1>6. CASE SendFirst \/ SendSecond
  <2>1. \/ SendEnd(TRUE) /\ UNCHANGED files
        \/ /\ UNCHANGED <<files, undoTasksQueue_, session>>
           /\ \/ Poll(local[running].pFd, "OUT", "send-woken")
              \/ UNCHANGED <<poolVars, danFd>> /\ Continue("send-end") /\ UNCHANGED loopVars
              \/ UNCHANGED <<poolVars, danFd, local>> /\ Killed
    BY <1>6 DEF SendFirst, SendSecond, SendCall, kernelVars, sessionVars
  <2>2. CASE SendEnd(TRUE) /\ UNCHANGED files
    BY <1>4, <2>2
  <2>3. CASE UNCHANGED <<files, undoTasksQueue_, session>>
             /\ Poll(local[running].pFd, "OUT", "send-woken")
    BY <1>1, <1>2, <2>3, PollTouches, StillAccepting
  <2>4. CASE /\ UNCHANGED <<files, undoTasksQueue_, session, poolVars, danFd, loopVars>>
             /\ Continue("send-end")
    <3>1. Busy' = Busy /\ UNCHANGED <<jobOf, pc>>
          /\ \A w \in Busy : Started(w) => local'[w].at # "start"
      BY <1>1, <2>4 DEF Continue, Local, Started, poolVars, loopVars, Busy, Pool!Busy
    <3> QED
      BY <1>1, <1>2, <2>4, <3>1, StillAccepting
  <2>5. CASE UNCHANGED <<files, undoTasksQueue_, session, poolVars, danFd, local>> /\ Killed
    <3>1. Busy' = Busy /\ UNCHANGED jobOf /\ pc' = "killed"
      BY <2>5 DEF poolVars, Busy, Pool!Busy, Killed
    <3> QED
      BY <1>1, <1>2, <2>5, <3>1, StillAccepting DEF Started
  <2> QED
    BY <2>1, <2>2, <2>3, <2>4, <2>5
<1>7. CASE SendFailed
  <2>1. \A n \in Fds : files'[n] = Listener <=> files[n] = Listener
    BY <1>1, <1>3, <1>7, KernelAssumption DEF SendFailed, Closed
  <2> QED
    BY <1>4, <1>7, <2>1 DEF SendFailed
<1> QED
  BY <1>5, <1>6, <1>7
(* run(), between the coroutines. *)
LEMMA RunAccepts ==
  ASSUME TypeOK, Scheduling, Accepting, Assigning, RunStep, UNCHANGED sessionVars
  PROVE  Accepting'
<1> USE DEF InMain, Goto, kernelVars, sessionVars
<1>1. /\ local \in [Workers -> Local] /\ Busy \subseteq Workers
      /\ danFd \in [DanFds -> DanFd] /\ undoTasksQueue_ \in Seq(Task)
  BY DEF TypeOK
<1>2. ASSUME NEW from \in {"boot", "assign"}, NEW to \in {"boot-launch", "launch"}, Assign(from, to),
             to = "boot-launch" <=> from = "boot"
      PROVE  Accepting'
  <2> DEFINE task == Head(undoTasksQueue_)
  <2>1. PICK w \in Workers : Pool!Submit(w, task) /\ local' = [local EXCEPT ![w] = Fresh]
    BY <1>2 DEF Assign
  <2>2. /\ pc = from /\ pc' = to /\ running = NoWorker
        /\ UNCHANGED <<files, danFd, session, undoTasksQueue_>> /\ undoTasksQueue_ # <<>>
    BY <1>2 DEF Assign
  <2>3. /\ task \in Queue /\ task \in Task
        /\ AcceptQueued => Len(undoTasksQueue_) = 1 /\ task.doFunc = "acceptFunc"
    <3>1. 1 \in DOMAIN undoTasksQueue_ /\ task = undoTasksQueue_[1]
      BY <1>1, <2>2
    <3>2. AcceptQueued => Len(undoTasksQueue_) = 1
      BY DEF Accepting
    <3> QED
      BY <1>1, <3>1, <3>2 DEF Queue, AcceptQueued
  <2>4. w \notin Busy
    <3>1. idle \cap Busy = {} /\ w \in Nat
      BY <2>1, SchedulerAssumption DEF TypeOK, Workers
    <3>2. IF idle = {} THEN Busy = 1 .. w - 1 ELSE w \in idle
      BY <2>1 DEF Pool!Submit, Busy
    <3> QED
      BY <3>1, <3>2
  <2>5. /\ Busy' = Busy \cup {w} /\ jobOf'[w] = task /\ \A v \in Busy : jobOf'[v] = jobOf[v]
        /\ \A v \in Busy : local'[v] = local[v]
    <3>1. jobOf' = [x \in Busy \cup {w} |-> IF x = w THEN task ELSE jobOf[x]]
      BY <2>1 DEF Pool!Submit, Busy
    <3>2. Busy' = Busy \cup {w}
      BY <3>1 DEF Busy, Pool!Busy
    <3> QED
      BY <1>1, <2>1, <2>4, <3>1, <3>2
  <2>6. Queue' = Queue /\ AcceptQueued' = AcceptQueued /\ ListenFd' = ListenFd /\ Fds' = Fds
    BY <2>2 DEF AcceptQueued, Queue, ListenFd, Fds
  <2> HIDE DEF task
  <2>7. task.doFunc = "acceptFunc" => AcceptQueued
    BY <2>3 DEF AcceptQueued
  <2>8. AcceptQueued => from = "boot" /\ Busy = {} /\ files[ListenFd] = Listener
    BY <2>2 DEF Accepting
  <2>9. \A v \in Busy' : jobOf'[v].doFunc = "recvMsgFunc" => jobOf'[v].arg # ListenFd
    BY <2>3, <2>5 DEF Accepting
  <2>10. \A v \in Busy' : jobOf'[v].doFunc = "acceptFunc" =>
           /\ files[ListenFd] = Listener
           /\ local'[v].at = "start" => AcceptQueued
           /\ \A u \in Busy' : jobOf'[u].doFunc = "acceptFunc" => u = v
    <3>1. CASE AcceptQueued
      BY <2>5, <2>8, <3>1
    <3>2. CASE ~ AcceptQueued
      BY <2>5, <2>7, <3>2 DEF Accepting, Started
    <3> QED
      BY <3>1, <3>2
  <2>11. AcceptQueued =>
           /\ pc' = "boot-launch" /\ \A v \in Busy' : jobOf'[v].doFunc = "acceptFunc"
    BY <1>2, <2>2, <2>3, <2>5, <2>8
  <2> QED
    BY <2>2, <2>6, <2>9, <2>10, <2>11 DEF Accepting, Started
<1>3. ASSUME NEW from \in {"boot-pop", "pop"}, NEW to \in {"boot", "assign"}, PopTask(from, to)
      PROVE  Accepting'
  <2>1. /\ pc = from /\ pc' = to /\ running = NoWorker
        /\ UNCHANGED <<files, danFd, session, jobOf, local>> /\ Busy' = Busy
        /\ undoTasksQueue_' = Tail(undoTasksQueue_) /\ undoTasksQueue_ # <<>>
    BY <1>3 DEF PopTask, poolVars, Busy, Pool!Busy, Assigning, Launched
  <2>2. Queue' \subseteq Queue
    <3>1. \A i \in DOMAIN undoTasksQueue_' :
            i + 1 \in DOMAIN undoTasksQueue_ /\ undoTasksQueue_'[i] = undoTasksQueue_[i + 1]
      BY <1>1, <2>1
    <3> QED
      BY <3>1 DEF Queue
  <2>3. ~ AcceptQueued'
    <3>1. CASE AcceptQueued
      <4>1. Len(undoTasksQueue_) = 1
        BY <3>1 DEF Accepting
      <4>2. undoTasksQueue_' = <<>>
        BY <1>1, <2>1, <4>1
      <4> QED
        BY <4>2 DEF AcceptQueued, Queue
    <3>2. CASE ~ AcceptQueued
      BY <2>2, <3>2 DEF AcceptQueued
    <3> QED
      BY <3>1, <3>2
  <2>4. \A w \in Busy : Started(w)
    <3>1. NoWorker \notin Busy
      BY SchedulerAssumption, <1>1 DEF Workers
    <3> QED
      BY <2>1, <3>1 DEF Scheduling, Placed, Launching
  <2>5. ListenFd' = ListenFd /\ Fds' = Fds
    BY DEF ListenFd, Fds
  <2> QED
    BY <2>1, <2>2, <2>3, <2>4, <2>5 DEF Accepting, Started
<1>4. ASSUME UNCHANGED <<files, jobOf, undoTasksQueue_, session, local>>,
             \A d \in DanFds : danFd'[d].fd = danFd[d].fd,
             pc' # "start",
             AcceptQueued => /\ pc' \in {"boot", "boot-launch", "boot-pop", "killed"}
                             /\ pc' = "boot" => pc = "boot"
      PROVE  Accepting'
  <2>1. Busy' = Busy
    BY <1>4 DEF Busy, Pool!Busy
  <2> QED
    BY <1>4, <2>1, StillAccepting DEF Started
<1>5. CASE AssignTasks
  <2>1. ASSUME NEW from \in {"boot-launch", "launch"}, NEW to \in {"boot-pop", "pop"},
               Launch(from, to), to = "boot-pop" <=> from = "boot-launch"
        PROVE  Accepting'
    <3>1. /\ UNCHANGED <<files, jobOf, undoTasksQueue_, session, local, danFd>> /\ pc = from /\ pc' = to
      BY <2>1 DEF Launch, Pool!Run
    <3> QED
      BY <1>4, <2>1, <3>1 DEF Accepting
  <2>2. ASSUME NEW from \in {"boot", "assign"}, NEW to \in {"loop", "timers"}, Assigned(from, to)
        PROVE  Accepting'
    <3>1. /\ UNCHANGED <<files, jobOf, undoTasksQueue_, session, local, danFd>> /\ pc' = to
          /\ undoTasksQueue_ = <<>>
      BY <2>2 DEF Assigned, poolVars
    <3>2. ~ AcceptQueued
      BY <3>1 DEF AcceptQueued, Queue
    <3> QED
      BY <1>4, <2>2, <3>1, <3>2
  <2> QED
    BY <1>2, <1>3, <1>5, <2>1, <2>2 DEF AssignTasks
<1>6. CASE Dispatch \/ Broadcast
  <2>1. UNCHANGED <<files, jobOf, undoTasksQueue_, session, local, pc>>
    BY <1>6 DEF Dispatch, Broadcast, ResumeOr, Pool!Run, poolVars
  <2>2. \A d \in DanFds : danFd'[d].fd = danFd[d].fd
    <3>1. \E d, ready : danFd' = [danFd EXCEPT ![d].readyEvents = ready]
      BY <1>6 DEF Dispatch, Broadcast
    <3> QED
      BY <1>1, <3>1 DEF DanFd
  <2>3. pc # "start" /\ ~ AcceptQueued
    BY <1>6 DEF Dispatch, Broadcast, Broadcasting, Accepting
  <2> QED
    BY <1>4, <2>1, <2>2, <2>3
<1>7. CASE LoopTest \/ EpollWait \/ EpollInterrupted \/ EpollFails \/ Dispatched \/ Broadcasted
           \/ TimersDone
  <2>1. UNCHANGED <<files, jobOf, undoTasksQueue_, session, local, danFd>> /\ pc' # "start"
    BY <1>7 DEF LoopTest, EpollWait, EpollInterrupted, EpollFails, Dispatched, Broadcasted,
                TimersDone, poolVars, StartBroadcast
  <2>2. ~ AcceptQueued
    BY <1>7 DEF LoopTest, EpollWait, EpollInterrupted, EpollFails, Dispatched, Broadcasted,
                TimersDone, Broadcasting, Accepting
  <2> QED
    BY <1>4, <2>1, <2>2
<1> QED
  BY <1>5, <1>6, <1>7 DEF RunStep

(* The rest: danNet, the peers and the signal. *)
LEMMA NextAccepts ==
  ASSUME TypeOK, Scheduling, Serving, [Next]_vars
  PROVE  Accepting'
<1> USE DEF InMain, Goto, kernelVars, sessionVars
<1>1. /\ Accepting /\ Bound /\ Assigning /\ RepliesSent
      /\ files \in [Fds -> Conns \cup {Listener, Free}] /\ undoTasksQueue_ \in Seq(Task)
      /\ session \in [Sessions -> Session] /\ DOMAIN sessions_ \subseteq Fds
      /\ \A n \in DOMAIN sessions_ : sessions_[n] \in Sessions
  BY DEF Serving, TypeOK
<1>2. ASSUME UNCHANGED <<files, poolVars, local, danFd, undoTasksQueue_, session>>,
             pc' # "start" \/ pc' = pc, AcceptQueued => pc' \in {pc, "killed"}
      PROVE  Accepting'
  <2>1. Busy' = Busy /\ UNCHANGED jobOf
    BY <1>2 DEF poolVars, Busy, Pool!Busy
  <2>2. AcceptQueued => /\ pc' \in {"boot", "boot-launch", "boot-pop", "killed"}
                        /\ pc' = "boot" => pc = "boot"
    BY <1>1, <1>2 DEF Accepting
  <2> QED
    BY <1>1, <1>2, <2>1, <2>2, StillAccepting DEF Started
<1>3. CASE Start
  <2>1. /\ pc = "start" /\ UNCHANGED <<poolVars, local, danFd, session>>
        /\ undoTasksQueue_ = <<>> /\ Busy = {}
        /\ \A s \in Sessions : session[s].pFd_ = NoFd
    BY <1>1, <1>3 DEF Start, Accepting, Scheduling, Loop
  <2>2. Busy' = {}
    BY <2>1 DEF poolVars, Busy, Pool!Busy
  <2>3. ListenFd' = ListenFd /\ Fds' = Fds /\ ListenFd \in Fds
    BY KernelAssumption DEF ListenFd, Fds
  <2>4. CASE pc' = "exited"
    <3>1. UNCHANGED <<files, undoTasksQueue_>>
      BY <1>3, <2>4 DEF Start, TcpListen
    <3>2. ~ AcceptQueued
      BY <2>1 DEF AcceptQueued, Queue
    <3> QED
      BY <1>2, <2>1, <2>4, <3>1, <3>2
  <2>5. CASE pc' = "boot" /\ Listened
             /\ AddTask([doFunc |-> "acceptFunc", arg |-> ListenFd, serves |-> Listener])
    <3> DEFINE task == [doFunc |-> "acceptFunc", arg |-> ListenFd, serves |-> Listener]
    <3>1. undoTasksQueue_' = <<task>>
      BY <1>1, <2>1, <2>5 DEF AddTask
    <3>2. files'[ListenFd] = Listener /\ \A n \in Fds : files'[n] = Listener => n = ListenFd
      BY <1>1, <2>3, <2>5 DEF Listened, Accepting
    <3>3. /\ Queue' = {task} /\ task.doFunc = "acceptFunc"
          /\ Len(undoTasksQueue_') = 1
      BY <3>1 DEF Queue
    <3> HIDE DEF task
    <3>4. \A s \in Sessions : session'[s].pFd_ = NoFd
      BY <2>1
    <3> QED
      BY <2>2, <2>3, <2>5, <3>2, <3>3, <3>4, SchedulerAssumption DEF Accepting
  <2> QED
    BY <1>3, <2>4, <2>5 DEF Start, TcpListen
<1>4. CASE Tick
  <2>1. /\ pc = "timers" /\ UNCHANGED <<files, poolVars, local, danFd>> /\ pc' \in {pc, "killed"}
    BY <1>4 DEF Tick, loopVars, Killed
  <2>2. ~ AcceptQueued
    BY <1>1, <2>1 DEF Accepting
  <2>3. CASE UNCHANGED <<undoTasksQueue_, session>>
    BY <1>2, <2>1, <2>2, <2>3
  <2>4. ASSUME NEW V \in SUBSET DOMAIN sessions_, ProcMsgFunc(V), pc' = pc
        PROVE  Accepting'
    <3> DEFINE f == Ascending(Replying(V))
               tasks == [i \in DOMAIN f |-> SendTask(f[i])]
    <3>1. f \in [1 .. Cardinality(Replying(V)) -> Replying(V)] /\ Cardinality(Replying(V)) \in Nat
      BY <1>1, Walk DEF Replying
    <3>2. /\ DOMAIN tasks = 1 .. Cardinality(Replying(V))
          /\ \A i \in DOMAIN tasks : tasks[i].doFunc = "onSend"
          /\ tasks = [i \in DOMAIN tasks |-> tasks[i]]
      BY <3>1 DEF SendTask
    <3>3. undoTasksQueue_' = undoTasksQueue_ \o tasks
      BY <2>4 DEF ProcMsgFunc
    <3> HIDE DEF f, tasks
    <3>4. \A task \in Queue' : task \in Queue \/ task.doFunc = "onSend"
      <4>1. tasks \in [1 .. Cardinality(Replying(V)) -> {tasks[i] : i \in DOMAIN tasks}]
        BY <3>2
      <4>4. tasks \in Seq({tasks[i] : i \in DOMAIN tasks})
        BY <3>1, <4>1, Numbered
      <4>2. \A i \in DOMAIN undoTasksQueue_' :
              \/ i \in DOMAIN undoTasksQueue_ /\ undoTasksQueue_'[i] = undoTasksQueue_[i]
              \/ \E j \in DOMAIN tasks : undoTasksQueue_'[i] = tasks[j]
        BY <1>1, <3>3, <4>4, ConcatProperties
      <4> QED
        BY <3>2, <4>2 DEF Queue
    <3>5. \A s \in Sessions : session'[s].pFd_ = session[s].pFd_
      BY <1>1, <2>4 DEF ProcMsgFunc, Answered, Session
    <3>6. Busy' = Busy /\ UNCHANGED <<jobOf, local, files, danFd>>
      BY <2>1 DEF poolVars, Busy, Pool!Busy
    <3>7. ~ AcceptQueued' /\ ListenFd' = ListenFd /\ Fds' = Fds
      BY <2>2, <3>4 DEF AcceptQueued, ListenFd, Fds
    <3>8. \A task \in Queue' : task.doFunc = "recvMsgFunc" => task.arg # ListenFd
      BY <1>1, <3>4 DEF Accepting
    <3> QED
      BY <1>1, <2>1, <2>2, <2>4, <3>5, <3>6, <3>7, <3>8 DEF Accepting, Started
  <2> QED
    BY <1>4, <2>3, <2>4 DEF Tick, Visits, loopVars
<1>5. CASE Destruct
  <2>1. pc = "exited" /\ pc' = "gone" /\ UNCHANGED <<files, poolVars, local, danFd, undoTasksQueue_, session>>
    BY <1>5 DEF Destruct
  <2>2. ~ AcceptQueued
    BY <1>1, <2>1 DEF Accepting
  <2> QED
    BY <1>2, <2>1, <2>2
<1>6. CASE CoroutineStep
  BY <1>1, <1>6, AcceptAccepts, RecvAccepts, SendAccepts DEF CoroutineStep
<1>7. CASE RunStep /\ UNCHANGED sessionVars
  BY <1>1, <1>7, RunAccepts
<1>8. CASE \/ StopApp /\ UNCHANGED sessionVars
           \/ PeerStep /\ UNCHANGED <<schedulerVars, sessionVars>>
           \/ UNCHANGED vars
  <2>1. UNCHANGED <<files, poolVars, local, danFd, undoTasksQueue_, session, pc>>
    BY <1>8 DEF StopApp, PeerStep, schedulerVars, loopVars, vars
  <2> QED
    BY <1>2, <2>1
<1> QED
  BY <1>3, <1>4, <1>5, <1>6, <1>7, <1>8 DEF Next, Program

-----------------------------------------------------------------------------
(* Bound, Assigning and RepliesSent: what a step of a coroutine means for  *)
(* sessions and replies. *)

Kept ==
  /\ Busy' = Busy /\ UNCHANGED <<jobOf, sessions_, objs_>> /\ pc' \in {pc, "killed"}
  /\ \A w \in Busy : jobOf[w].doFunc = "recvMsgFunc" /\ local'[w].at # "start" =>
       Started(w) /\ local'[w].pSession = local[w].pSession
  /\ \A s \in Sessions : /\ session'[s].pFd_ = session[s].pFd_
                         /\ session'[s].sendBuffer_ = session[s].sendBuffer_

(* What a coroutine does to the tasks and the sessions: it changes none   *)
(* of what Bound and RepliesSent read, adds a receiver's task, binds a     *)
(* session, ends, or is a sender at work. *)
LEMMA CoroutineKeeps ==
  ASSUME TypeOK, Scheduling, Accepting, Bound, CoroutineStep
  PROVE  \/ Kept /\ UNCHANGED undoTasksQueue_
         \/ Kept /\ \E n \in Fds, c \in Conns :
                      AddTask([doFunc |-> "recvMsgFunc", arg |-> n, serves |-> c])
         \/ RecvStart
         \/ AcceptEnd \/ RecvEnd
         \/ Runs("onSend") /\ \E alive \in BOOLEAN : SendEnd(alive)
<1> USE DEF Runs, At, me
<1>1. /\ local \in [Workers -> Local] /\ Busy \subseteq Workers
      /\ session \in [Sessions -> Session]
  BY DEF TypeOK
<1>2. ASSUME running \in Busy, UNCHANGED <<poolVars, sessionVars>>, pc' \in {pc, "killed"},
             NEW l, local' = [local EXCEPT ![running] = l],
             jobOf[running].doFunc = "recvMsgFunc" =>
               Started(running) /\ l.pSession = local[running].pSession
      PROVE  Kept
  <2>1. Busy' = Busy /\ UNCHANGED <<jobOf, session, sessions_, objs_>>
    BY <1>2 DEF poolVars, sessionVars, Busy, Pool!Busy
  <2>2. \A w \in Busy : local'[w] = IF w = running THEN l ELSE local[w]
    BY <1>1, <1>2
  <2> QED
    BY <1>2, <2>1, <2>2 DEF Kept, Started
<1>3. ASSUME running \in Busy, Started(running), UNCHANGED <<poolVars, sessionVars>>,
             pc' \in {pc, "killed"}, NEW place, Continue(place)
      PROVE  Kept
  <2> DEFINE l == [local[running] EXCEPT !.at = place]
  <2>1. l.pSession = local[running].pSession
    BY <1>1, <1>3 DEF Local
  <2>2. local' = [local EXCEPT ![running] = l]
    BY <1>1, <1>3 DEF Continue
  <2> HIDE DEF l
  <2> QED
    BY <1>2, <1>3, <2>1, <2>2
<1>4. ASSUME running \in Busy, Started(running), UNCHANGED sessionVars,
             NEW waitingEvents, NEW place, place # "start",
             Poll(local[running].pFd, waitingEvents, place)
      PROVE  Kept
  <2>1. /\ Busy' = Busy /\ UNCHANGED jobOf /\ pc' \in {pc, "killed"}
        /\ \A w \in Busy : local'[w].pSession = local[w].pSession
    BY <1>4, PollTouches
  <2>2. \A w \in Busy : local'[w].at # "start" => Started(w)
    <3>1. \A w \in Busy \ {running} : local'[w] = local[w]
      BY <1>1, <1>4 DEF Poll, Continue
    <3> QED
      BY <1>4, <3>1 DEF Started
  <2> QED
    BY <1>4, <2>1, <2>2 DEF Kept, sessionVars
<1>5. CASE AcceptStart
  <2>1. PICK d \in DanFds : local' = [local EXCEPT ![running].at = "accept", ![running].pFd = d]
    BY <1>5 DEF AcceptStart
  <2> DEFINE l == [local[running] EXCEPT !.at = "accept", !.pFd = d]
  <2>2. local' = [local EXCEPT ![running] = l]
    BY <1>1, <2>1
  <2>3. /\ running \in Busy /\ UNCHANGED <<poolVars, sessionVars, undoTasksQueue_, pc>>
        /\ jobOf[running].doFunc = "acceptFunc"
    BY <1>5 DEF AcceptStart, loopVars
  <2> HIDE DEF l
  <2> QED
    BY <1>2, <2>2, <2>3
<1>6. CASE AcceptFirst
  <2>1. /\ running \in Busy /\ Started(running) /\ UNCHANGED <<sessionVars, undoTasksQueue_>>
        /\ \/ Continue("accept-end") /\ UNCHANGED <<poolVars, pc>>
           \/ Poll(local[running].pFd, "IN", "accept-woken")
    BY <1>6 DEF AcceptFirst, Started, loopVars
  <2>2. CASE Continue("accept-end") /\ UNCHANGED <<poolVars, pc>>
    BY <1>3, <2>1, <2>2
  <2>3. CASE Poll(local[running].pFd, "IN", "accept-woken")
    BY <1>4, <2>1, <2>3
  <2> QED
    BY <2>1, <2>2, <2>3
<1>7. CASE AcceptWoken \/ RecvWoken \/ SendWoken
  <2>1. /\ running \in Busy /\ Started(running)
        /\ UNCHANGED <<poolVars, sessionVars, undoTasksQueue_, pc>>
    BY <1>7 DEF AcceptWoken, RecvWoken, SendWoken, Woken, Started, loopVars
  <2>2. \E place : Continue(place)
    BY <1>7 DEF AcceptWoken, RecvWoken, SendWoken, Woken
  <2> QED
    BY <1>3, <2>1, <2>2
<1>8. CASE AcceptSecond
  <2>1. /\ running \in Busy /\ Started(running) /\ UNCHANGED <<poolVars, sessionVars, pc>>
        /\ Continue("accept") \/ Continue("accept-end")
        /\ \/ UNCHANGED undoTasksQueue_
           \/ /\ AcceptResults = {"accepted"}
              /\ \E c \in Conns :
                   AddTask([doFunc |-> "recvMsgFunc", arg |-> LowestFree, serves |-> c])
    BY <1>8 DEF AcceptSecond, Started, loopVars, Backlog
  <2>2. Kept
    BY <1>3, <2>1
  <2>3. AcceptResults = {"accepted"} => LowestFree \in Fds
    BY LowestFreeIsFree DEF AcceptResults, FreeFds
  <2> QED
    BY <2>1, <2>2, <2>3
<1>9. CASE RecvFirst \/ RecvSecond
  <2>1. /\ running \in Busy /\ Started(running) /\ UNCHANGED <<undoTasksQueue_, sessions_, objs_>>
        /\ jobOf[running].doFunc = "recvMsgFunc"
        /\ \/ RecvData
           \/ RecvFailed
           \/ Poll(local[running].pFd, "IN", "recv-woken") /\ UNCHANGED session
    BY <1>9 DEF RecvFirst, RecvSecond, Started
  <2>2. CASE RecvFailed
    BY <1>3, <2>1, <2>2 DEF RecvFailed, sessionVars, loopVars
  <2>3. CASE Poll(local[running].pFd, "IN", "recv-woken") /\ UNCHANGED session
    BY <1>4, <2>1, <2>3 DEF sessionVars
  <2>4. CASE RecvData
    <3>1. local[running].pSession \in Sessions
      BY <2>1, ReceiverReceives
    <3>2. /\ Busy' = Busy /\ UNCHANGED <<jobOf, pc>> /\ Continue("recv")
      BY <2>4 DEF RecvData, poolVars, loopVars, Busy, Pool!Busy
    <3>3. \A s \in Sessions : /\ session'[s].pFd_ = session[s].pFd_
                              /\ session'[s].sendBuffer_ = session[s].sendBuffer_
      BY <1>1, <2>4, <3>1 DEF RecvData, Session
    <3>4. \A w \in Busy : local'[w].at # "start" =>
            Started(w) /\ local'[w].pSession = local[w].pSession
      BY <1>1, <2>1, <3>2 DEF Continue, Local, Started
    <3> QED
      BY <2>1, <3>2, <3>3, <3>4 DEF Kept
  <2> QED
    BY <2>1, <2>2, <2>3, <2>4
<1>10. CASE SendStart
  <2> DEFINE l == [Fresh EXCEPT !.at = "send", !.pFd = boundFd,
                                !.pSendMsg = Head(session[bound].sendBuffer_)]
  <2>1. local' = [local EXCEPT ![running] = l]
    BY <1>10 DEF SendStart
  <2>2. /\ running \in Busy /\ UNCHANGED <<poolVars, sessionVars, undoTasksQueue_, pc>>
        /\ jobOf[running].doFunc = "onSend"
    BY <1>10 DEF SendStart, loopVars
  <2> HIDE DEF l
  <2> QED
    BY <1>2, <2>1, <2>2
<1>11. CASE SendFirst \/ SendSecond \/ SendFailed
  <2>1. /\ running \in Busy /\ Started(running) /\ jobOf[running].doFunc = "onSend"
        /\ \/ \E alive \in BOOLEAN : SendEnd(alive)
           \/ /\ UNCHANGED <<sessionVars, undoTasksQueue_>>
              /\ \/ Poll(local[running].pFd, "OUT", "send-woken")
                 \/ UNCHANGED <<poolVars, pc>> /\ Continue("send-end")
                 \/ UNCHANGED <<poolVars, local>> /\ pc' = "killed"
    BY <1>11 DEF SendFirst, SendSecond, SendFailed, SendCall, Started, loopVars, Killed
  <2>2. CASE UNCHANGED sessionVars /\ Poll(local[running].pFd, "OUT", "send-woken")
    BY <1>4, <2>1, <2>2
  <2>3. CASE UNCHANGED <<sessionVars, poolVars, pc>> /\ Continue("send-end")
    BY <1>3, <2>1, <2>3
  <2>4. ASSUME UNCHANGED <<sessionVars, poolVars, local>>, pc' = "killed"
        PROVE  Kept
    <3>1. Busy' = Busy /\ UNCHANGED <<jobOf, session, sessions_, objs_, local>> /\ pc' = "killed"
      BY <2>4 DEF sessionVars, poolVars, Busy, Pool!Busy
    <3> QED
      BY <3>1 DEF Kept, Started
  <2> QED
    BY <2>1, <2>2, <2>3, <2>4
<1> QED
  BY <1>5, <1>6, <1>7, <1>8, <1>9, <1>10, <1>11 DEF CoroutineStep

(* assignTasks keeps the task it gave away until it pops it: while a       *)
(* coroutine it launched runs, tasks are only added behind. *)
LEMMA NextAssigns ==
  ASSUME TypeOK, Scheduling, Serving, [Next]_vars
  PROVE  Assigning'
<1> USE DEF Launching, Launched
<1>1. Assigning /\ Accepting /\ Bound /\ undoTasksQueue_ \in Seq(Task)
  BY DEF Serving, TypeOK
<1>2. CASE pc' \notin {"boot-launch", "boot-pop", "launch", "pop"}
  BY <1>2 DEF Assigning
<1>3. CASE UNCHANGED undoTasksQueue_ /\ (undoTasksQueue_ = <<>> => pc' \in {pc, "killed"})
  BY <1>1, <1>3 DEF Assigning
<1>4. CASE CoroutineStep
  <2>1. /\ pc' \in {pc, "killed"}
        /\ \/ UNCHANGED undoTasksQueue_
           \/ \E task : AddTask(task)
    <3>1. CASE RecvStart
      BY <3>1 DEF RecvStart, loopVars
    <3>2. CASE AcceptEnd \/ RecvEnd
      BY <3>2 DEF AcceptEnd, RecvEnd, EndOwner, loopVars
    <3>3. CASE \E alive \in BOOLEAN : SendEnd(alive)
      BY <3>3 DEF SendEnd, loopVars
    <3> QED
      BY <1>1, <1>4, <3>1, <3>2, <3>3, CoroutineKeeps DEF Kept
  <2>2. ASSUME NEW task, AddTask(task)
        PROVE  undoTasksQueue_' # <<>>
    BY <1>1, <2>2 DEF AddTask
  <2> QED
    BY <1>1, <2>1, <2>2 DEF Assigning
<1>5. CASE Start \/ Tick \/ Destruct
  BY <1>2, <1>5 DEF Start, Tick, Destruct, InMain, Goto, Killed, loopVars
<1>6. CASE RunStep
  <2>1. \/ pc' \notin {"boot-launch", "boot-pop", "launch", "pop"}
        \/ UNCHANGED undoTasksQueue_ /\ (undoTasksQueue_ # <<>> \/ pc' = pc)
        \/ UNCHANGED undoTasksQueue_ /\ Launching
    BY <1>6
       DEF RunStep, AssignTasks, Assign, Launch, PopTask, Assigned, LoopTest, EpollWait,
           EpollInterrupted, EpollFails, Dispatch, Dispatched, Broadcast, Broadcasted, TimersDone,
           InMain, Goto, StartBroadcast
  <2> QED
    BY <1>1, <1>2, <1>3, <2>1 DEF Assigning
<1>7. CASE UNCHANGED schedulerVars \/ StopApp \/ UNCHANGED vars
  BY <1>3, <1>7 DEF StopApp, schedulerVars, loopVars, vars
<1> QED
  BY <1>4, <1>5, <1>6, <1>7 DEF Next, Program

(* Where the queue gets no task to send and sessions keep their pFd_. *)
LEMMA StillBound ==
  ASSUME TypeOK, Bound, UNCHANGED <<sessions_, objs_>>,
         Busy' \subseteq Busy, \A w \in Busy' : jobOf'[w] = jobOf[w],
         \A w \in Busy' : jobOf[w].doFunc = "recvMsgFunc" /\ local'[w].at # "start" =>
           Started(w) /\ local'[w].pSession = local[w].pSession,
         \A s \in Sessions : session'[s].pFd_ = session[s].pFd_,
         \A task \in Queue' : task \in Queue \/ task.doFunc # "onSend"
  PROVE  Bound'
<1>1. ReclaimedOnce'
  BY DEF Bound, ReclaimedOnce
<1>2. \A w \in Busy' :
        jobOf'[w].doFunc = "recvMsgFunc" /\ local'[w].at # "start" => local'[w].pSession \in Sessions
  BY DEF Bound, Started
<1>3. \A n \in DOMAIN sessions_ : session'[sessions_[n]].pFd_ \in DanFds
  BY DEF Bound, TypeOK
<1>4. \A w \in Busy' : jobOf'[w].doFunc = "onSend" => session'[jobOf'[w].arg].pFd_ \in DanFds
  BY TasksTyped DEF Bound, SendersBound, TypeOK
<1>5. \A task \in Queue' : task.doFunc = "onSend" => session'[task.arg].pFd_ \in DanFds
  <2>1. \A task \in Queue : task \in Task
    BY DEF TypeOK, Queue
  <2> QED
    BY <2>1, TasksTyped DEF Bound
<1> QED
  BY <1>1, <1>2, <1>3, <1>4, <1>5 DEF Bound, SendersBound, Started

(* A coroutine starts on a session from the pool; the others stay bound. *)
LEMMA RecvStartBinds ==
  ASSUME TypeOK, Bound, RecvStart
  PROVE  Bound'
<1> USE DEF Runs, At, me
<1> DEFINE s == Head(objs_)
           n == jobOf[running].arg
<1>1. PICK d \in DanFds :
        /\ objs_ # <<>> /\ objs_' = Tail(objs_)
        /\ Bind(s, d)
        /\ sessions_' = [m \in DOMAIN sessions_ \cup {n} |-> IF m = n THEN s ELSE sessions_[m]]
        /\ local' = [local EXCEPT ![running] =
                       [Fresh EXCEPT !.at = "recv", !.pFd = d, !.pSession = s]]
  BY DEF RecvStart
<1>2. /\ Busy' = Busy /\ UNCHANGED <<jobOf, undoTasksQueue_>> /\ Queue' = Queue
      /\ objs_ \in Seq(Sessions) /\ session \in [Sessions -> Session]
      /\ local \in [Workers -> Local] /\ Busy \subseteq Workers /\ running \in Busy
      /\ \A m \in DOMAIN sessions_ : sessions_[m] \in Sessions
  BY DEF RecvStart, poolVars, Busy, Pool!Busy, Queue, TypeOK
<1>3. s \in Sessions
  BY <1>1, <1>2, HeadTailProperties
<1>4. s = objs_[1] /\ 1 \in DOMAIN objs_
      /\ DOMAIN objs_' = 1 .. Len(objs_) - 1
      /\ \A i \in DOMAIN objs_' : i + 1 \in DOMAIN objs_ /\ objs_'[i] = objs_[i + 1]
  BY <1>1, <1>2
<1>5. IsInjective(objs_) /\ Len(objs_) \in Nat
  BY <1>2 DEF Bound, ReclaimedOnce
<1>6. IsInjective(objs_')
  BY <1>4, <1>5 DEF IsInjective
<1>7. ToSet(objs_') \subseteq ToSet(objs_) \ {s}
  BY <1>4, <1>5 DEF IsInjective, ToSet
<1>8. s \in ToSet(objs_)
  BY <1>4 DEF ToSet
<1> HIDE DEF s, n
<1>9. ReclaimedOnce'
  BY <1>1, <1>6, <1>7, <1>8 DEF Bound, ReclaimedOnce
<1>10. session'[s].pFd_ = d /\ \A t \in Sessions \ {s} : session'[t].pFd_ = session[t].pFd_
  BY <1>1, <1>2, <1>3 DEF Bind, Session
<1>11. \A t \in Sessions : session[t].pFd_ \in DanFds => session'[t].pFd_ \in DanFds
  BY <1>10
<1>12. \A m \in DOMAIN sessions_' : session'[sessions_'[m]].pFd_ \in DanFds
  BY <1>1, <1>2, <1>10, <1>11 DEF Bound
<1>13. \A w \in Busy' : jobOf'[w].doFunc = "onSend" => session'[jobOf'[w].arg].pFd_ \in DanFds
  BY <1>2, <1>11, TasksTyped DEF Bound, SendersBound, TypeOK
<1>14. \A task \in Queue' : task.doFunc = "onSend" => session'[task.arg].pFd_ \in DanFds
  <2>1. \A task \in Queue : task \in Task
    BY DEF TypeOK, Queue
  <2> QED
    BY <1>2, <1>11, <2>1, TasksTyped DEF Bound
<1>15. \A w \in Busy' : jobOf'[w].doFunc = "recvMsgFunc" /\ local'[w].at # "start" =>
         local'[w].pSession \in Sessions
  BY <1>1, <1>2, <1>3 DEF Bound, Started, Fresh
<1> QED
  BY <1>9, <1>12, <1>13, <1>14, <1>15 DEF Bound, SendersBound, Started

(* The pool gets back what the map loses, each session once: f goes        *)
(* through N without repeating itself. *)
LEMMA GivenBack ==
  ASSUME ReclaimedOnce, objs_ \in Seq(Sessions), DOMAIN sessions_ \subseteq Fds,
         \A n \in DOMAIN sessions_ : sessions_[n] \in Sessions,
         NEW N \in SUBSET DOMAIN sessions_, NEW STATE walk, walk = Ascending(N),
         objs_' = objs_ \o [i \in DOMAIN walk |-> sessions_[walk[i]]],
         DOMAIN sessions_' \subseteq DOMAIN sessions_ \ N,
         \A n \in DOMAIN sessions_' : sessions_'[n] = sessions_[n]
  PROVE  ReclaimedOnce'
<1> DEFINE c == Cardinality(N)
           back == [i \in DOMAIN walk |-> sessions_[walk[i]]]
<1>1. /\ c \in Nat /\ walk \in [1 .. c -> N]
      /\ \A i, j \in 1 .. c : walk[i] = walk[j] => i = j
  BY Walk
<1>2. /\ Len(objs_) \in Nat /\ DOMAIN objs_ = 1 .. Len(objs_) /\ IsInjective(objs_)
      /\ \A n \in DOMAIN sessions_ :
           /\ sessions_[n] \notin ToSet(objs_)
           /\ \A m \in DOMAIN sessions_ \ {n} : sessions_[m] # sessions_[n]
  BY DEF ReclaimedOnce
<1>3. /\ back \in Seq(Sessions) /\ Len(back) = c /\ DOMAIN back = 1 .. c
      /\ \A i \in 1 .. c : back[i] = sessions_[walk[i]] /\ walk[i] \in N
  <2>1. back \in [1 .. c -> Sessions]
    BY <1>1
  <2>2. back \in Seq(Sessions)
    BY <1>1, <2>1, Numbered
  <2> QED
    BY <1>1, <2>1, <2>2
<1> HIDE DEF c, back
<1>4. /\ Len(objs_') = Len(objs_) + c /\ DOMAIN objs_' = 1 .. Len(objs_) + c
      /\ \A i \in 1 .. Len(objs_) : objs_'[i] = objs_[i]
      /\ \A i \in Len(objs_) + 1 .. Len(objs_) + c : objs_'[i] = back[i - Len(objs_)]
  <2>1. objs_' = objs_ \o back
    BY DEF back
  <2> QED
    BY <1>1, <1>2, <1>3, <2>1
<1>5. \A i \in 1 .. c : back[i] \notin ToSet(objs_)
  BY <1>2, <1>3
<1>6. \A i, j \in 1 .. c : back[i] = back[j] => i = j
  BY <1>1, <1>2, <1>3
<1>7. IsInjective(objs_')
  <2>1. \A i \in 1 .. Len(objs_) : objs_'[i] \in ToSet(objs_)
    BY <1>2, <1>4 DEF ToSet
  <2>2. \A i \in Len(objs_) + 1 .. Len(objs_) + c :
          i - Len(objs_) \in 1 .. c /\ objs_'[i] \notin ToSet(objs_)
    BY <1>1, <1>2, <1>4, <1>5
  <2>3. SUFFICES ASSUME NEW i \in 1 .. Len(objs_) + c, NEW j \in 1 .. Len(objs_) + c,
                        objs_'[i] = objs_'[j]
                 PROVE  i = j
    BY <1>4 DEF IsInjective
  <2>4. CASE i <= Len(objs_)
    <3>1. j <= Len(objs_)
      BY <1>1, <1>2, <2>1, <2>2, <2>3, <2>4
    <3> QED
      BY <1>1, <1>2, <1>4, <2>3, <2>4, <3>1 DEF IsInjective
  <2>5. CASE i > Len(objs_)
    <3>1. j > Len(objs_)
      BY <1>1, <1>2, <2>1, <2>2, <2>3, <2>5
    <3> QED
      BY <1>1, <1>2, <1>4, <1>6, <2>2, <2>3, <2>5, <3>1
  <2> QED
    BY <1>1, <1>2, <2>4, <2>5
<1>8. \A x \in ToSet(objs_') : x \in ToSet(objs_) \/ \E n \in N : x = sessions_[n]
  <2>1. SUFFICES ASSUME NEW x \in ToSet(objs_')
                 PROVE  x \in ToSet(objs_) \/ \E n \in N : x = sessions_[n]
    OBVIOUS
  <2>2. PICK i \in 1 .. Len(objs_) + c : x = objs_'[i]
    BY <1>4 DEF ToSet
  <2>3. CASE i <= Len(objs_)
    <3>1. i \in DOMAIN objs_ /\ x = objs_[i]
      BY <1>2, <1>4, <2>2, <2>3
    <3> QED
      BY <3>1 DEF ToSet
  <2>4. CASE i > Len(objs_)
    <3>1. i \in Len(objs_) + 1 .. Len(objs_) + c
      BY <1>1, <1>2, <2>4
    <3>2. i - Len(objs_) \in 1 .. c
      BY <1>1, <1>2, <3>1
    <3>3. x = back[i - Len(objs_)]
      BY <1>4, <2>2, <3>1
    <3>4. x = sessions_[walk[i - Len(objs_)]] /\ walk[i - Len(objs_)] \in N
      BY <1>3, <3>2, <3>3
    <3> QED
      BY <3>4
  <2> QED
    BY <1>1, <1>2, <2>3, <2>4
<1>9. \A n \in DOMAIN sessions_' :
        /\ sessions_'[n] \notin ToSet(objs_')
        /\ \A m \in DOMAIN sessions_' \ {n} : sessions_'[m] # sessions_'[n]
  BY <1>2, <1>8
<1> QED
  BY <1>7, <1>9 DEF ReclaimedOnce

(* A worker gets the task at the front, which stays there. *)
LEMMA AssignGives ==
  ASSUME TypeOK, NEW from, NEW to, Assign(from, to)
  PROVE  /\ pc = from /\ pc' = to /\ UNCHANGED <<undoTasksQueue_, files, danFd>>
         /\ 1 \in DOMAIN undoTasksQueue_ /\ undoTasksQueue_[1] \in Task
         /\ \E w \in Workers : /\ w \notin Busy /\ Busy' = Busy \cup {w}
                               /\ jobOf'[w] = undoTasksQueue_[1] /\ local'[w].at = "start"
                               /\ \A v \in Busy : jobOf'[v] = jobOf[v] /\ local'[v] = local[v]
<1>1. PICK w \in Workers : /\ Pool!Submit(w, Head(undoTasksQueue_))
                           /\ local' = [local EXCEPT ![w] = Fresh]
  BY DEF Assign
<1>2. /\ pc = from /\ pc' = to /\ UNCHANGED <<undoTasksQueue_, files, danFd>>
      /\ undoTasksQueue_ # <<>> /\ undoTasksQueue_ \in Seq(Task)
      /\ local \in [Workers -> Local] /\ Busy \subseteq Workers
      /\ idle \cap Busy = {} /\ w \in Nat
  BY <1>1, SchedulerAssumption DEF Assign, InMain, Goto, kernelVars, TypeOK, Workers
<1>3. /\ 1 \in DOMAIN undoTasksQueue_ /\ undoTasksQueue_[1] \in Task
      /\ Head(undoTasksQueue_) = undoTasksQueue_[1]
  BY <1>2
<1>4. w \notin Busy
  <2>1. IF idle = {} THEN Busy = 1 .. w - 1 ELSE w \in idle
    BY <1>1 DEF Pool!Submit, Busy
  <2> QED
    BY <1>2, <2>1
<1>5. jobOf' = [x \in Busy \cup {w} |-> IF x = w THEN undoTasksQueue_[1] ELSE jobOf[x]]
  BY <1>1, <1>3 DEF Pool!Submit, Busy
<1>6. Busy' = Busy \cup {w}
  BY <1>5 DEF Busy, Pool!Busy
<1> QED
  BY <1>1, <1>2, <1>3, <1>4, <1>5, <1>6 DEF Fresh

(* What the other steps of run() do not touch. *)
LEMMA RunKeeps ==
  ASSUME TypeOK, Scheduling, RunStep
  PROVE  \/ Assign("boot", "boot-launch") \/ Assign("assign", "launch")
         \/ PopTask("boot-pop", "boot") \/ PopTask("pop", "assign")
         \/ /\ Busy' = Busy /\ UNCHANGED <<jobOf, local, undoTasksQueue_>>
            /\ Launching' \/ Launched' <=> Launching \/ Launched
            /\ pc = "killed" => pc' = "killed"
<1> USE DEF InMain, Goto, Launching, Launched
<1>1. CASE AssignTasks /\ ~ (\/ Assign("boot", "boot-launch") \/ Assign("assign", "launch")
                             \/ PopTask("boot-pop", "boot") \/ PopTask("pop", "assign"))
  <2>1. /\ UNCHANGED <<jobOf, local, undoTasksQueue_>>
        /\ Launching' \/ Launched' <=> Launching \/ Launched
        /\ pc # "killed"
    BY <1>1 DEF AssignTasks, Launch, Assigned, Pool!Run, poolVars
  <2> QED
    BY <2>1 DEF Busy, Pool!Busy
<1>2. CASE RunStep /\ ~ AssignTasks
  <2>1. /\ UNCHANGED <<jobOf, local, undoTasksQueue_>>
        /\ Launching' \/ Launched' <=> Launching \/ Launched
        /\ pc = "killed" => pc' = "killed"
    BY <1>2
       DEF RunStep, LoopTest, EpollWait, EpollInterrupted, EpollFails, Dispatch, Dispatched, Broadcast,
           Broadcasted, TimersDone, StartBroadcast, ResumeOr, Pool!Run, poolVars, Broadcasting
  <2> QED
    BY <2>1 DEF Busy, Pool!Busy
<1> QED
  BY <1>1, <1>2

(* Bound is kept by every step. *)
LEMMA NextBound ==
  ASSUME TypeOK, Scheduling, Serving, [Next]_vars
  PROVE  Bound'
<1>1. /\ Bound /\ Accepting /\ undoTasksQueue_ \in Seq(Task) /\ DOMAIN sessions_ \subseteq Fds
      /\ \A n \in DOMAIN sessions_ : sessions_[n] \in Sessions
      /\ session \in [Sessions -> Session] /\ objs_ \in Seq(Sessions)
  BY DEF Serving, TypeOK
<1>2. UNCHANGED undoTasksQueue_ => Queue' = Queue
  BY DEF Queue
<1>3. ASSUME NEW task \in Task, AddTask(task)
      PROVE  Queue' = Queue \cup {task}
  <2>1. undoTasksQueue_' = Append(undoTasksQueue_, task)
    BY <1>3 DEF AddTask
  <2> QED
    BY <1>1, <2>1 DEF Queue
<1>4. ASSUME UNCHANGED <<sessions_, objs_, session, local, jobOf>>,
             \A task \in Queue' : task \in Queue \/ task.doFunc # "onSend"
      PROVE  Bound'
  <2>1. Busy' = Busy
    BY <1>4 DEF Busy, Pool!Busy
  <2> QED
    BY <1>1, <1>4, <2>1, StillBound DEF Started
<1>5. CASE CoroutineStep
  <2>1. CASE Kept /\ UNCHANGED undoTasksQueue_
    BY <1>1, <1>2, <2>1, StillBound DEF Kept
  <2>2. CASE Kept /\ \E n \in Fds, c \in Conns :
                        AddTask([doFunc |-> "recvMsgFunc", arg |-> n, serves |-> c])
    <3>1. PICK n \in Fds, c \in Conns :
            AddTask([doFunc |-> "recvMsgFunc", arg |-> n, serves |-> c])
      BY <2>2
    <3>2. undoTasksQueue_' = Append(undoTasksQueue_, [doFunc |-> "recvMsgFunc", arg |-> n, serves |-> c])
      BY <3>1 DEF AddTask
    <3>3. \A task \in Queue' : task \in Queue \/ task.doFunc # "onSend"
      BY <1>1, <3>2 DEF Queue
    <3> QED
      BY <1>1, <2>2, <3>3, StillBound DEF Kept
  <2>3. CASE RecvStart
    BY <1>1, <2>3, RecvStartBinds
  <2>4. CASE AcceptEnd \/ RecvEnd
    <3>1. /\ Busy' = Busy \ {running} /\ \A w \in Busy' : jobOf'[w] = jobOf[w] /\ local'[w] = local[w]
          /\ UNCHANGED <<undoTasksQueue_, session, sessions_, objs_>>
      BY <2>4 DEF AcceptEnd, RecvEnd, EndOwner, sessionVars, Busy, Pool!Busy, Pool!Finish, TypeOK
    <3> QED
      BY <1>1, <1>2, <3>1, StillBound DEF Started
  <2>5. CASE Runs("onSend") /\ \E alive \in BOOLEAN : SendEnd(alive)
    <3>1. PICK alive \in BOOLEAN : SendEnd(alive)
      BY <2>5
    <3>2. /\ Busy' = Busy \ {running} /\ \A w \in Busy' : jobOf'[w] = jobOf[w] /\ local'[w] = local[w]
          /\ UNCHANGED <<undoTasksQueue_, sessions_, objs_>>
      BY <3>1 DEF SendEnd, Busy, Pool!Busy, Pool!Finish, TypeOK
    <3>3. bound \in Sessions
      BY <2>5, TasksTyped DEF Runs, bound, TypeOK
    <3>4. \A s \in Sessions : session'[s].pFd_ = session[s].pFd_
      BY <1>1, <3>1, <3>3 DEF SendEnd, Session
    <3> QED
      BY <1>1, <1>2, <3>2, <3>4, StillBound DEF Started
  <2> QED
    BY <1>1, <1>5, <2>1, <2>2, <2>3, <2>4, <2>5, CoroutineKeeps
<1>6. CASE RunStep /\ UNCHANGED sessionVars
  <2>1. ASSUME NEW from, NEW to, Assign(from, to)
        PROVE  Bound'
    <3>1. PICK w \in Workers : /\ w \notin Busy /\ Busy' = Busy \cup {w}
                               /\ jobOf'[w] = undoTasksQueue_[1] /\ local'[w].at = "start"
                               /\ \A v \in Busy : jobOf'[v] = jobOf[v] /\ local'[v] = local[v]
      BY <2>1, AssignGives
    <3>2. undoTasksQueue_[1] \in Queue /\ Queue' = Queue
      BY <1>2, <2>1, AssignGives DEF Queue
    <3>3. UNCHANGED <<session, sessions_, objs_>>
      BY <1>6 DEF sessionVars
    <3>4. ReclaimedOnce'
      BY <1>1, <3>3 DEF Bound, ReclaimedOnce
    <3>5. \A v \in Busy' : jobOf'[v].doFunc = "onSend" => session[jobOf'[v].arg].pFd_ \in DanFds
      BY <1>1, <3>1, <3>2 DEF Bound, SendersBound
    <3> QED
      BY <1>1, <3>1, <3>2, <3>3, <3>4, <3>5 DEF Bound, SendersBound, Started
  <2>2. ASSUME NEW from \in {"boot-pop", "pop"}, NEW to, PopTask(from, to)
        PROVE  Bound'
    <3>1. /\ UNCHANGED <<sessions_, objs_, session, local, jobOf>>
          /\ undoTasksQueue_' = Tail(undoTasksQueue_) /\ undoTasksQueue_ # <<>>
      BY <1>6, <2>2 DEF PopTask, InMain, Launched, Serving, Assigning, poolVars, sessionVars
    <3>2. \A i \in DOMAIN undoTasksQueue_' :
            i + 1 \in DOMAIN undoTasksQueue_ /\ undoTasksQueue_'[i] = undoTasksQueue_[i + 1]
      BY <1>1, <3>1
    <3>3. Queue' \subseteq Queue
      BY <3>2 DEF Queue
    <3> QED
      BY <1>4, <3>1, <3>3
  <2>3. CASE UNCHANGED <<jobOf, local, undoTasksQueue_>>
    BY <1>2, <1>4, <1>6, <2>3 DEF sessionVars
  <2> QED
    BY <1>6, <2>1, <2>2, <2>3, RunKeeps
<1>7. CASE Start
  <2>1. UNCHANGED <<sessions_, objs_, session, local, jobOf>>
    BY <1>7 DEF Start, sessionVars, poolVars
  <2>2. \/ UNCHANGED undoTasksQueue_
        \/ AddTask([doFunc |-> "acceptFunc", arg |-> ListenFd, serves |-> Listener])
    BY <1>7 DEF Start
  <2>3. [doFunc |-> "acceptFunc", arg |-> ListenFd, serves |-> Listener] \in Task
    BY DEF Task
  <2>4. \A task \in Queue' : task \in Queue \/ task.doFunc # "onSend"
    BY <1>2, <1>3, <2>2, <2>3
  <2> QED
    BY <1>4, <2>1, <2>4
<1>8. CASE Tick
  <2>1. UNCHANGED <<local, jobOf>> /\ Busy' = Busy
    BY <1>8 DEF Tick, poolVars, Busy, Pool!Busy
  <2>2. CASE UNCHANGED <<undoTasksQueue_, sessionVars>>
    BY <1>2, <1>4, <2>1, <2>2 DEF sessionVars
  <2>3. ASSUME NEW V \in SUBSET DOMAIN sessions_, ProcMsgFunc(V)
        PROVE  Bound'
    <3>1. ReclaimedOnce'
      <4> DEFINE walk == Ascending(V \cap Dead)
      <4>1. /\ sessions_' = [n \in DOMAIN sessions_ \ (V \cap Dead) |-> sessions_[n]]
            /\ objs_' = objs_ \o [i \in DOMAIN walk |-> sessions_[walk[i]]]
        BY <2>3 DEF ProcMsgFunc, Erased
      <4>2. ReclaimedOnce /\ V \cap Dead \in SUBSET DOMAIN sessions_
        BY <1>1 DEF Bound
      <4> QED
        BY <1>1, <4>1, <4>2, GivenBack
    <3>2. \A s \in Sessions : session'[s].pFd_ = session[s].pFd_
      BY <1>1, <2>3 DEF ProcMsgFunc, Answered, Session
    <3>3. \A task \in Queue' : task \in Queue \/ \E n \in DOMAIN sessions_ : task.arg = sessions_[n]
      <4> DEFINE f == Ascending(Replying(V))
                 tasks == [i \in DOMAIN f |-> SendTask(f[i])]
                 c == Cardinality(Replying(V))
      <4>1. f \in [1 .. c -> Replying(V)] /\ c \in Nat /\ Replying(V) \subseteq DOMAIN sessions_
        BY <1>1, Walk DEF Replying
      <4>2. /\ DOMAIN tasks = 1 .. c /\ tasks = [i \in DOMAIN tasks |-> tasks[i]]
            /\ \A i \in DOMAIN tasks : \E n \in DOMAIN sessions_ : tasks[i].arg = sessions_[n]
        BY <4>1 DEF SendTask
      <4>3. undoTasksQueue_' = undoTasksQueue_ \o tasks
        BY <2>3 DEF ProcMsgFunc
      <4> HIDE DEF f, tasks, c
      <4>4. tasks \in [1 .. c -> {tasks[i] : i \in DOMAIN tasks}]
        BY <4>2
      <4>5. tasks \in Seq({tasks[i] : i \in DOMAIN tasks})
        BY <4>1, <4>4, Numbered
      <4>6. \A i \in DOMAIN undoTasksQueue_' :
              \/ i \in DOMAIN undoTasksQueue_ /\ undoTasksQueue_'[i] = undoTasksQueue_[i]
              \/ \E j \in DOMAIN tasks : undoTasksQueue_'[i] = tasks[j]
        BY <1>1, <4>3, <4>5, ConcatProperties
      <4> QED
        BY <4>2, <4>6 DEF Queue
    <3>4. \A n \in DOMAIN sessions_' : n \in DOMAIN sessions_ /\ sessions_'[n] = sessions_[n]
      BY <2>3 DEF ProcMsgFunc, Erased
    <3>5. \A n \in DOMAIN sessions_ : session'[sessions_[n]].pFd_ \in DanFds
      BY <1>1, <3>2 DEF Bound
    <3>6. \A task \in Queue' : task.doFunc = "onSend" => session'[task.arg].pFd_ \in DanFds
      <4>1. \A task \in Queue : task \in Task
        BY <1>1 DEF Queue
      <4>2. \A task \in Queue : task.doFunc = "onSend" => session'[task.arg].pFd_ \in DanFds
        BY <1>1, <3>2, <4>1, TasksTyped DEF Bound
      <4> QED
        BY <3>3, <3>5, <4>2
    <3>7. \A w \in Busy' : jobOf'[w].doFunc = "onSend" => session'[jobOf'[w].arg].pFd_ \in DanFds
      BY <1>1, <2>1, <3>2, TasksTyped DEF Bound, SendersBound, TypeOK
    <3> QED
      BY <1>1, <2>1, <3>1, <3>4, <3>5, <3>6, <3>7 DEF Bound, SendersBound, Started
  <2> QED
    BY <1>8, <2>2, <2>3 DEF Tick, Visits
<1>9. CASE Destruct
  <2> DEFINE walk == Ascending(DOMAIN sessions_)
  <2>1. /\ UNCHANGED <<local, jobOf, session, undoTasksQueue_>> /\ Busy' = Busy
        /\ objs_' = objs_ \o [i \in DOMAIN walk |-> sessions_[walk[i]]]
        /\ DOMAIN sessions_' = {}
    BY <1>9 DEF Destruct, poolVars, Busy, Pool!Busy
  <2>2. ReclaimedOnce'
    <3>1. ReclaimedOnce /\ DOMAIN sessions_ \in SUBSET DOMAIN sessions_
      BY <1>1 DEF Bound
    <3> QED
      BY <1>1, <2>1, <3>1, GivenBack
  <2> QED
    BY <1>1, <1>2, <2>1, <2>2 DEF Bound, SendersBound, Started
<1>10. CASE \/ StopApp /\ UNCHANGED sessionVars
            \/ PeerStep /\ UNCHANGED <<schedulerVars, sessionVars>>
            \/ UNCHANGED vars
  <2>1. UNCHANGED <<sessions_, objs_, session, local, jobOf, undoTasksQueue_>>
    BY <1>10 DEF StopApp, schedulerVars, sessionVars, poolVars, vars
  <2> QED
    BY <1>2, <1>4, <2>1
<1> QED
  BY <1>5, <1>6, <1>7, <1>8, <1>9, <1>10 DEF Next, Program

(* The senders and the tasks of a session can be counted. *)
LEMMA Counted ==
  ASSUME TypeOK, NEW s \in Sessions
  PROVE  /\ session[s].sendBuffer_ \in Seq(Conns) /\ Len(session[s].sendBuffer_) \in Nat
         /\ IsFiniteSet(SendersOf(s)) /\ Cardinality(SendersOf(s)) \in Nat
         /\ IsFiniteSet(QueuedFor(s)) /\ Cardinality(QueuedFor(s)) \in Nat
         /\ QueuedFor(s) \subseteq 1 .. Len(undoTasksQueue_) /\ Len(undoTasksQueue_) \in Nat
<1>1. session[s].sendBuffer_ \in Seq(Conns)
  BY DEF TypeOK, Session
<1>2. IsFiniteSet(SendersOf(s))
  <2>1. IsFiniteSet(Workers)
    BY SchedulerAssumption, FS_Interval DEF Workers
  <2>2. Busy \subseteq Workers
    BY DEF TypeOK
  <2>3. SendersOf(s) \subseteq Workers
    BY <2>2 DEF SendersOf
  <2> QED
    BY <2>1, <2>3, FS_Subset
<1>3. QueuedFor(s) \subseteq 1 .. Len(undoTasksQueue_) /\ Len(undoTasksQueue_) \in Nat
  BY DEF TypeOK, QueuedFor
<1>4. IsFiniteSet(QueuedFor(s))
  <2>1. IsFiniteSet(1 .. Len(undoTasksQueue_))
    BY <1>3, FS_Interval
  <2> QED
    BY <1>3, <2>1, FS_Subset
<1> QED
  BY <1>1, <1>2, <1>3, <1>4, FS_CardinalityType

(* A step that changes no buffer of replies, no sender and no sender's task. *)
LEMMA StillReplying ==
  ASSUME RepliesSent, pc # "killed",
         \A s \in Sessions : /\ SendersOf(s)' = SendersOf(s)
                             /\ QueuedFor(s)' = QueuedFor(s)
                             /\ session'[s].sendBuffer_ = session[s].sendBuffer_
  PROVE  RepliesSent'
BY DEF RepliesSent

(* A sender ends, and takes a reply with it. *)
LEMMA SendEndReplies ==
  ASSUME TypeOK, RepliesSent, pc # "killed", Runs("onSend"), NEW alive, SendEnd(alive)
  PROVE  RepliesSent'
<1>1. /\ bound \in Sessions /\ session[bound].sendBuffer_ \in Seq(Conns)
      /\ session[bound].sendBuffer_ # <<>> /\ running \in Busy
      /\ jobOf[running].doFunc = "onSend" /\ jobOf[running].arg = bound
  BY SenderHasReply DEF bound, Runs
<1>2. /\ Busy' = Busy \ {running} /\ \A w \in Busy' : jobOf'[w] = jobOf[w]
      /\ UNCHANGED <<undoTasksQueue_, pc>>
  BY DEF SendEnd, loopVars, Busy, Pool!Busy, Pool!Finish
<1>3. session' = [session EXCEPT ![bound].sendBuffer_ = Tail(@), ![bound].isAlive_ = @ /\ alive]
  BY DEF SendEnd
<1>4. session \in [Sessions -> Session]
  BY DEF TypeOK
<1>5. session'[bound].sendBuffer_ = Tail(session[bound].sendBuffer_)
      /\ \A s \in Sessions : s # bound => session'[s].sendBuffer_ = session[s].sendBuffer_
  BY <1>1, <1>3, <1>4 DEF Session
<1>6. \A s \in Sessions : QueuedFor(s)' = QueuedFor(s)
  BY <1>2 DEF QueuedFor, Launching, Launched
<1>7. ASSUME NEW s \in Sessions
      PROVE  Len(session'[s].sendBuffer_) = Cardinality(SendersOf(s)') + Cardinality(QueuedFor(s)')
  <2>1. CASE s = bound
    <3>1. SendersOf(s)' = SendersOf(s) \ {running} /\ running \in SendersOf(s)
      BY <1>1, <1>2, <2>1 DEF SendersOf
    <3>2. IsFiniteSet(SendersOf(s)) /\ Cardinality(SendersOf(s)) \in Nat
          /\ Cardinality(QueuedFor(s)) \in Nat /\ Len(session[s].sendBuffer_) \in Nat
      BY Counted
    <3>3. Cardinality(SendersOf(s)') = Cardinality(SendersOf(s)) - 1
      BY <3>1, <3>2, FS_RemoveElement
    <3>4. Len(session'[s].sendBuffer_) = Len(session[s].sendBuffer_) - 1
      <4>1. Len(Tail(session[bound].sendBuffer_)) = Len(session[bound].sendBuffer_) - 1
        BY <1>1, HeadTailProperties
      <4> QED
        BY <1>5, <2>1, <4>1
    <3> QED
      BY <1>6, <3>2, <3>3, <3>4 DEF RepliesSent
  <2>2. CASE s # bound
    <3>1. SendersOf(s)' = SendersOf(s)
      BY <1>1, <1>2, <2>2 DEF SendersOf
    <3> QED
      BY <1>5, <1>6, <2>2, <3>1 DEF RepliesSent
  <2> QED
    BY <2>1, <2>2
<1> QED
  BY <1>7 DEF RepliesSent

(* A task to send is given to its coroutine. *)
LEMMA AssignReplies ==
  ASSUME TypeOK, RepliesSent, UNCHANGED session,
         NEW from \in {"boot", "assign"}, NEW to \in {"boot-launch", "launch"}, Assign(from, to)
  PROVE  RepliesSent'
<1>1. /\ pc = from /\ pc' = to /\ UNCHANGED undoTasksQueue_
      /\ 1 \in DOMAIN undoTasksQueue_ /\ undoTasksQueue_[1] \in Task
  BY AssignGives
<1>2. PICK w \in Workers : /\ w \notin Busy /\ Busy' = Busy \cup {w}
                           /\ jobOf'[w] = undoTasksQueue_[1]
                           /\ \A v \in Busy : jobOf'[v] = jobOf[v]
  BY AssignGives
<1>3. ~ Launching /\ ~ Launched /\ Launching'
  BY <1>1 DEF Launching, Launched
<1>4. ASSUME NEW s \in Sessions
      PROVE  Len(session[s].sendBuffer_) = Cardinality(SendersOf(s)') + Cardinality(QueuedFor(s)')
  <2>1. QueuedFor(s)' = QueuedFor(s) \ {1}
    BY <1>1, <1>3 DEF QueuedFor
  <2>2. IsFiniteSet(SendersOf(s)) /\ Cardinality(SendersOf(s)) \in Nat
        /\ IsFiniteSet(QueuedFor(s)) /\ Cardinality(QueuedFor(s)) \in Nat
    BY Counted
  <2>3. CASE undoTasksQueue_[1].doFunc = "onSend" /\ undoTasksQueue_[1].arg = s
    <3>1. 1 \in QueuedFor(s)
      BY <1>1, <1>3, <2>3 DEF QueuedFor
    <3>2. SendersOf(s)' = SendersOf(s) \cup {w} /\ w \notin SendersOf(s)
      BY <1>2, <2>3 DEF SendersOf
    <3>3. Cardinality(SendersOf(s)') = Cardinality(SendersOf(s)) + 1
      BY <2>2, <3>2, FS_AddElement
    <3>4. Cardinality(QueuedFor(s)') = Cardinality(QueuedFor(s)) - 1
      <4>1. Cardinality(QueuedFor(s) \ {1}) = Cardinality(QueuedFor(s)) - 1
        BY <2>2, <3>1, FS_RemoveElement
      <4> QED
        BY <2>1, <4>1
    <3> QED
      BY <1>1, <2>2, <3>3, <3>4 DEF RepliesSent
  <2>4. CASE ~ (undoTasksQueue_[1].doFunc = "onSend" /\ undoTasksQueue_[1].arg = s)
    <3>1. 1 \notin QueuedFor(s)
      BY <2>4 DEF QueuedFor
    <3>2. SendersOf(s)' = SendersOf(s)
      BY <1>2, <2>4 DEF SendersOf
    <3>3. QueuedFor(s)' = QueuedFor(s)
      BY <2>1, <3>1
    <3> QED
      BY <1>1, <3>2, <3>3 DEF RepliesSent
  <2> QED
    BY <2>3, <2>4
<1> QED
  BY <1>4 DEF RepliesSent

(* The task at the front goes when its coroutine has it. *)
LEMMA PopReplies ==
  ASSUME TypeOK, RepliesSent, Assigning, UNCHANGED session,
         NEW from \in {"boot-pop", "pop"}, NEW to \in {"boot", "assign"}, PopTask(from, to)
  PROVE  RepliesSent'
<1>1. /\ pc = from /\ pc' = to /\ UNCHANGED jobOf /\ Busy' = Busy
      /\ undoTasksQueue_' = Tail(undoTasksQueue_) /\ undoTasksQueue_ # <<>>
      /\ undoTasksQueue_ \in Seq(Task)
  BY DEF PopTask, InMain, Goto, Launched, Assigning, poolVars, Busy, Pool!Busy, TypeOK
<1>2. Launched /\ ~ Launching' /\ ~ Launched'
  BY <1>1 DEF Launching, Launched
<1>3. /\ DOMAIN undoTasksQueue_ = 1 .. Len(undoTasksQueue_) /\ Len(undoTasksQueue_) \in Nat
      /\ DOMAIN undoTasksQueue_' = 1 .. Len(undoTasksQueue_) - 1
      /\ \A i \in DOMAIN undoTasksQueue_' : undoTasksQueue_'[i] = undoTasksQueue_[i + 1]
  BY <1>1
<1>4. ASSUME NEW s \in Sessions
      PROVE  Len(session[s].sendBuffer_) = Cardinality(SendersOf(s)') + Cardinality(QueuedFor(s)')
  <2>1. SendersOf(s)' = SendersOf(s)
    BY <1>1 DEF SendersOf
  <2>2. QueuedFor(s)' = {i \in Int : i + 1 \in QueuedFor(s)}
    BY <1>2, <1>3 DEF QueuedFor
  <2>3. QueuedFor(s) \subseteq Int /\ IsFiniteSet(QueuedFor(s))
    BY Counted
  <2> DEFINE I == QueuedFor(s)
             J == QueuedFor(s)'
  <2>4. Cardinality(J) = Cardinality(I)
    <3> HIDE DEF I, J
    <3>1. I \subseteq Int /\ IsFiniteSet(I) /\ J = {i \in Int : i + 1 \in I}
      BY <2>2, <2>3 DEF I, J
    <3> QED
      BY <3>1, Shifted
  <2> QED
    BY <1>1, <2>1, <2>4 DEF RepliesSent
<1> QED
  BY <1>4 DEF RepliesSent

(* What a tick does to the queue: behind what is there come the tasks of   *)
(* the sessions that reply, in the order of the map. *)
LEMMA TickQueues ==
  ASSUME TypeOK, NEW V \in SUBSET DOMAIN sessions_, ProcMsgFunc(V)
  PROVE  LET c == Cardinality(Replying(V))
             f == Ascending(Replying(V))
             len == Len(undoTasksQueue_)
         IN  /\ DOMAIN undoTasksQueue_' = 1 .. len + c
             /\ \A i \in 1 .. len : undoTasksQueue_'[i] = undoTasksQueue_[i]
             /\ \A i \in 1 .. c : undoTasksQueue_'[len + i] = SendTask(f[i])
<1> DEFINE f == Ascending(Replying(V))
           tasks == [i \in DOMAIN f |-> SendTask(f[i])]
           c == Cardinality(Replying(V))
           len == Len(undoTasksQueue_)
           Either == Task \cup {tasks[i] : i \in 1 .. c}
<1>1. /\ undoTasksQueue_ \in Seq(Task) /\ len \in Nat
      /\ Replying(V) \in SUBSET Fds
  BY DEF TypeOK, Replying
<1>2. f \in [1 .. c -> Replying(V)] /\ c \in Nat
  BY <1>1, Walk
<1>3. tasks = [i \in 1 .. c |-> tasks[i]] /\ \A i \in 1 .. c : tasks[i] = SendTask(f[i])
  BY <1>2
<1>4. undoTasksQueue_' = undoTasksQueue_ \o tasks
  BY DEF ProcMsgFunc
<1> HIDE DEF f, tasks, c
<1>5. tasks \in [1 .. c -> Either] /\ undoTasksQueue_ \in [1 .. len -> Either]
  BY <1>1, <1>3
<1> HIDE DEF len, Either
<1>6. tasks \in Seq(Either) /\ undoTasksQueue_ \in Seq(Either)
  BY <1>1, <1>2, <1>5, Numbered
<1>7. Len(tasks) = c /\ Len(undoTasksQueue_) = len
  BY <1>1, <1>2, <1>5, <1>6, LenProperties
<1>8. /\ undoTasksQueue_' \in Seq(Either) /\ Len(undoTasksQueue_') = len + c
      /\ \A i \in 1 .. len + c :
           undoTasksQueue_'[i] = IF i <= len THEN undoTasksQueue_[i] ELSE tasks[i - len]
  BY <1>4, <1>6, <1>7, ConcatProperties
<1>9. DOMAIN undoTasksQueue_' = 1 .. len + c
  BY <1>8, LenProperties
<1>10. /\ \A i \in 1 .. len : undoTasksQueue_'[i] = undoTasksQueue_[i]
       /\ \A i \in 1 .. c : undoTasksQueue_'[len + i] = tasks[i]
  BY <1>1, <1>2, <1>8
<1>11. \A i \in 1 .. c : undoTasksQueue_'[len + i] = SendTask(f[i])
  BY <1>3, <1>10
<1> QED
  BY <1>9, <1>10, <1>11 DEF f, c, len

(* A tick queues one task for each session that it lets reply. *)
LEMMA TickReplies ==
  ASSUME TypeOK, Scheduling, Bound, RepliesSent, pc = "timers", UNCHANGED <<pc, poolVars>>,
         NEW V \in SUBSET DOMAIN sessions_, ProcMsgFunc(V)
  PROVE  RepliesSent'
<1> DEFINE f == Ascending(Replying(V))
           c == Cardinality(Replying(V))
           answered == {sessions_[n] : n \in Replying(V)}
           len == Len(undoTasksQueue_)
<1>1. /\ undoTasksQueue_ \in Seq(Task) /\ session \in [Sessions -> Session]
      /\ len \in Nat /\ DOMAIN undoTasksQueue_ = 1 .. len
      /\ \A n \in DOMAIN sessions_ : sessions_[n] \in Sessions
      /\ Replying(V) \in SUBSET Fds /\ Replying(V) \subseteq DOMAIN sessions_
  BY DEF TypeOK, Replying
<1>2. /\ f \in [1 .. c -> Replying(V)] /\ c \in Nat
      /\ \A i, j \in 1 .. c : f[i] = f[j] => i = j
      /\ \A n \in Replying(V) : \E i \in 1 .. c : f[i] = n
  BY <1>1, Walk
<1>3. session' = [s \in Sessions |-> IF s \in answered THEN Answered(session[s]) ELSE session[s]]
  BY DEF ProcMsgFunc
<1>4. /\ DOMAIN undoTasksQueue_' = 1 .. len + c
      /\ \A i \in 1 .. len : undoTasksQueue_'[i] = undoTasksQueue_[i]
      /\ \A i \in 1 .. c : undoTasksQueue_'[len + i] = SendTask(f[i])
  BY TickQueues
<1> HIDE DEF f, c
<1>5. \A i \in 1 .. c : /\ undoTasksQueue_'[len + i].doFunc = "onSend"
                        /\ undoTasksQueue_'[len + i].arg = sessions_[f[i]]
  <2>1. \A n : SendTask(n).doFunc = "onSend" /\ SendTask(n).arg = sessions_[n]
    BY DEF SendTask
  <2> QED
    BY <1>4, <2>1
<1>6. /\ \A n, m \in DOMAIN sessions_ : sessions_[n] = sessions_[m] => n = m
  BY DEF Bound, ReclaimedOnce
<1>7. ~ Launching /\ ~ Launched /\ ~ Launching' /\ ~ Launched' /\ pc' # "killed" /\ pc # "killed"
  BY DEF Launching, Launched
<1> HIDE DEF answered, len
<1>8. ASSUME NEW s \in Sessions
      PROVE  Len(session'[s].sendBuffer_) = Cardinality(SendersOf(s)') + Cardinality(QueuedFor(s)')
  <2>1. SendersOf(s)' = SendersOf(s)
    BY DEF SendersOf, poolVars, Busy, Pool!Busy
  <2>2. /\ QueuedFor(s) \subseteq 1 .. len
        /\ \A i \in 1 .. len : i \in QueuedFor(s)' <=> i \in QueuedFor(s)
        /\ QueuedFor(s)' \subseteq 1 .. len + c
        /\ \A i \in 1 .. c : len + i \in QueuedFor(s)' <=> sessions_[f[i]] = s
    BY <1>1, <1>2, <1>4, <1>5, <1>7 DEF QueuedFor
  <2>4. \A x \in QueuedFor(s)' : x \in QueuedFor(s) \/ \E i \in 1 .. c : x = len + i /\ sessions_[f[i]] = s
    <3>1. \A x \in 1 .. len + c : x \in 1 .. len \/ (x - len \in 1 .. c /\ x = len + (x - len))
      BY <1>1, <1>2
    <3> QED
      BY <2>2, <3>1
  <2>5. QueuedFor(s) \subseteq QueuedFor(s)'
    BY <2>2
  <2>6. Len(session[s].sendBuffer_) = Cardinality(SendersOf(s)) + Cardinality(QueuedFor(s))
    BY <1>7 DEF RepliesSent
  <2>3. /\ Cardinality(SendersOf(s)) \in Nat /\ Cardinality(QueuedFor(s)) \in Nat
        /\ IsFiniteSet(QueuedFor(s)) /\ session[s].sendBuffer_ \in Seq(Conns)
        /\ Len(session[s].sendBuffer_) \in Nat
    BY Counted
  <2>7. CASE s \in answered
    <3>1. PICK n \in Replying(V) : sessions_[n] = s
      BY <2>7 DEF answered
    <3>2. PICK k \in 1 .. c : f[k] = n
      BY <1>2, <3>1
    <3>3. \A i \in 1 .. c : sessions_[f[i]] = s <=> i = k
      BY <1>1, <1>2, <1>6, <3>1, <3>2
    <3>4. QueuedFor(s)' = QueuedFor(s) \cup {len + k} /\ len + k \notin QueuedFor(s)
      <4>1. len + k \notin 1 .. len
        BY <1>1, <1>2, <3>2
      <4>2. len + k \in QueuedFor(s)'
        BY <2>2, <3>2, <3>3
      <4>3. \A x \in QueuedFor(s)' : x \in QueuedFor(s) \/ x = len + k
        BY <2>4, <3>3
      <4> QED
        BY <2>2, <2>5, <4>1, <4>2, <4>3
    <3>5. Cardinality(QueuedFor(s)') = Cardinality(QueuedFor(s)) + 1
      BY <2>3, <3>4, FS_AddElement
    <3>6. Len(session'[s].sendBuffer_) = Len(session[s].sendBuffer_) + 1
      <4>1. session[s].recvBuffer_ \in Seq(Conns) /\ session[s].recvBuffer_ # <<>>
        BY <1>1, <3>1 DEF Session, Replying
      <4>2. session'[s].sendBuffer_ = Append(session[s].sendBuffer_, Head(session[s].recvBuffer_))
        BY <1>1, <1>3, <2>7 DEF Answered, Session
      <4> QED
        BY <2>3, <4>2
    <3> QED
      BY <2>1, <2>3, <2>6, <3>5, <3>6
  <2>8. CASE s \notin answered
    <3>1. \A i \in 1 .. c : sessions_[f[i]] # s
      BY <1>2, <2>8 DEF answered
    <3>2. QueuedFor(s)' = QueuedFor(s)
      BY <2>4, <2>5, <3>1
    <3>3. session'[s] = session[s]
      BY <1>3, <2>8
    <3> QED
      BY <2>1, <2>6, <3>2, <3>3
  <2> QED
    BY <2>7, <2>8
<1> QED
  BY <1>8 DEF RepliesSent

(* RepliesSent is kept by every step. *)
LEMMA NextReplies ==
  ASSUME TypeOK, Scheduling, Serving, [Next]_vars
  PROVE  RepliesSent'
<1>1. /\ RepliesSent /\ Bound /\ Accepting /\ Assigning /\ undoTasksQueue_ \in Seq(Task)
      /\ session \in [Sessions -> Session]
  BY DEF Serving, TypeOK
<1>2. CASE pc' = "killed"
  BY <1>2 DEF RepliesSent
<1>3. pc = "killed" => pc' = "killed"
  <2>1. CASE Start \/ Tick \/ Destruct \/ CoroutineStep
    BY <2>1 DEF Start, Tick, Destruct, CoroutineStep, InMain
  <2>2. CASE RunStep
    BY <2>2, RunKeeps DEF Assign, PopTask, InMain
  <2>3. CASE UNCHANGED schedulerVars \/ StopApp \/ UNCHANGED vars
    BY <2>3 DEF StopApp, schedulerVars, loopVars, vars
  <2> QED
    BY <2>1, <2>2, <2>3 DEF Next, Program
<1>4. ASSUME Busy' = Busy, UNCHANGED <<jobOf, undoTasksQueue_>>, pc # "killed",
             Launching' \/ Launched' <=> Launching \/ Launched,
             \A s \in Sessions : session'[s].sendBuffer_ = session[s].sendBuffer_
      PROVE  RepliesSent'
  <2>1. \A s \in Sessions : SendersOf(s)' = SendersOf(s) /\ QueuedFor(s)' = QueuedFor(s)
    BY <1>4 DEF SendersOf, QueuedFor
  <2> QED
    BY <1>1, <1>4, <2>1, StillReplying
<1>5. CASE CoroutineStep /\ pc' # "killed"
  <2>1. CASE Kept /\ UNCHANGED undoTasksQueue_
    BY <1>3, <1>4, <1>5, <2>1 DEF Kept, Launching, Launched
  <2>2. CASE Kept /\ \E n \in Fds, c \in Conns :
                        AddTask([doFunc |-> "recvMsgFunc", arg |-> n, serves |-> c])
    <3>1. PICK task : AddTask(task) /\ task.doFunc = "recvMsgFunc"
      BY <2>2
    <3>2. undoTasksQueue_' = Append(undoTasksQueue_, task) /\ pc' = pc
          /\ Busy' = Busy /\ UNCHANGED jobOf
      BY <1>5, <2>2, <3>1 DEF AddTask, Kept
    <3>3. ASSUME NEW s \in Sessions
          PROVE  SendersOf(s)' = SendersOf(s) /\ QueuedFor(s)' = QueuedFor(s)
      <4>1. SendersOf(s)' = SendersOf(s)
        BY <3>2 DEF SendersOf
      <4>2. /\ DOMAIN undoTasksQueue_' = 1 .. Len(undoTasksQueue_) + 1
            /\ DOMAIN undoTasksQueue_ = 1 .. Len(undoTasksQueue_) /\ Len(undoTasksQueue_) \in Nat
            /\ undoTasksQueue_'[Len(undoTasksQueue_) + 1] = task
            /\ \A i \in DOMAIN undoTasksQueue_ : undoTasksQueue_'[i] = undoTasksQueue_[i]
        BY <1>1, <3>2
      <4>3. QueuedFor(s)' = QueuedFor(s)
        BY <3>1, <3>2, <4>2 DEF QueuedFor, Launching, Launched
      <4> QED
        BY <4>1, <4>3
    <3> QED
      BY <1>1, <1>3, <1>5, <2>2, <3>3, StillReplying DEF Kept
  <2>3. CASE RecvStart
    <3>1. /\ Busy' = Busy /\ UNCHANGED <<jobOf, undoTasksQueue_, pc>>
          /\ objs_ # <<>> /\ objs_ \in Seq(Sessions)
          /\ \E d \in DanFds : Bind(Head(objs_), d)
      BY <2>3 DEF RecvStart, poolVars, loopVars, Busy, Pool!Busy, TypeOK
    <3>2. Head(objs_) \in Sessions
      BY <3>1, HeadTailProperties
    <3>3. \A s \in Sessions : session'[s].sendBuffer_ = session[s].sendBuffer_
      BY <1>1, <3>1, <3>2 DEF Bind, Session
    <3> QED
      BY <1>3, <1>4, <1>5, <3>1, <3>3 DEF Launching, Launched
  <2>4. CASE AcceptEnd \/ RecvEnd
    <3>1. /\ Busy' = Busy \ {running} /\ \A w \in Busy' : jobOf'[w] = jobOf[w]
          /\ UNCHANGED <<undoTasksQueue_, session, pc>> /\ jobOf[running].doFunc # "onSend"
      BY <2>4 DEF AcceptEnd, RecvEnd, EndOwner, sessionVars, loopVars, Busy, Pool!Busy, Pool!Finish,
                  Runs
    <3>2. \A s \in Sessions : SendersOf(s)' = SendersOf(s) /\ QueuedFor(s)' = QueuedFor(s)
      BY <3>1 DEF SendersOf, QueuedFor, Launching, Launched
    <3> QED
      BY <1>1, <1>3, <1>5, <3>1, <3>2, StillReplying
  <2>5. CASE Runs("onSend") /\ \E alive \in BOOLEAN : SendEnd(alive)
    BY <1>1, <1>3, <1>5, <2>5, SendEndReplies
  <2> QED
    BY <1>1, <1>5, <2>1, <2>2, <2>3, <2>4, <2>5, CoroutineKeeps
<1>6. CASE RunStep /\ UNCHANGED sessionVars /\ pc' # "killed"
  <2>1. UNCHANGED session /\ pc # "killed"
    BY <1>3, <1>6 DEF sessionVars
  <2> QED
    BY <1>1, <1>4, <1>6, <2>1, RunKeeps, AssignReplies, PopReplies
<1>7. CASE Start
  <2>1. /\ UNCHANGED <<session, jobOf>> /\ Busy' = Busy /\ pc = "start" /\ pc' \in {"boot", "exited"}
        /\ undoTasksQueue_ = <<>>
    BY <1>1, <1>7 DEF Start, sessionVars, poolVars, Busy, Pool!Busy, InMain, Goto, Accepting
  <2>2. \/ UNCHANGED undoTasksQueue_
        \/ undoTasksQueue_' = <<[doFunc |-> "acceptFunc", arg |-> ListenFd, serves |-> Listener]>>
    BY <1>7, <2>1 DEF Start, AddTask
  <2>3. \A s \in Sessions : SendersOf(s)' = SendersOf(s) /\ QueuedFor(s)' = QueuedFor(s)
    BY <2>1, <2>2 DEF SendersOf, QueuedFor, Launching, Launched
  <2> QED
    BY <1>1, <2>1, <2>3, StillReplying
<1>8. CASE Tick /\ pc' # "killed"
  <2>1. PICK V \in Visits : ProcMsgFunc(V) /\ UNCHANGED loopVars
    BY <1>8 DEF Tick, Killed
  <2>2. V \in SUBSET DOMAIN sessions_ /\ UNCHANGED <<pc, poolVars>> /\ pc = "timers"
    BY <1>8, <2>1 DEF Visits, Tick, InMain, loopVars
  <2> QED
    BY <1>1, <2>1, <2>2, TickReplies
<1>9. CASE Destruct
  <2>1. /\ UNCHANGED <<session, jobOf, undoTasksQueue_>> /\ Busy' = Busy /\ pc = "exited"
        /\ pc' = "gone"
    BY <1>9 DEF Destruct, poolVars, Busy, Pool!Busy, InMain, Goto
  <2> QED
    BY <1>4, <2>1 DEF Launching, Launched
<1>10. CASE \/ StopApp /\ UNCHANGED sessionVars
            \/ PeerStep /\ UNCHANGED <<schedulerVars, sessionVars>>
            \/ UNCHANGED vars
  <2>1. UNCHANGED <<session, jobOf, undoTasksQueue_, pc>> /\ Busy' = Busy
    BY <1>10 DEF StopApp, schedulerVars, sessionVars, poolVars, loopVars, vars, Busy, Pool!Busy
  <2> QED
    BY <1>2, <1>4, <2>1 DEF Launching, Launched
<1> QED
  BY <1>2, <1>5, <1>6, <1>7, <1>8, <1>9, <1>10 DEF Next, Program

-----------------------------------------------------------------------------
(* The invariant, and what follows from it. *)

(* The program starts with nothing open, nothing queued, and every session *)
(* in its pool.                                                            *)
LEMMA InitInvariant ==
  Init => IInv
<1> SUFFICES ASSUME Init PROVE IInv
  OBVIOUS
<1>1. Busy = {} /\ idle = {} /\ running = NoWorker
  BY DEF Init, SchedulerInit, Pool!Init, Busy, Pool!Busy
<1>2. /\ local = [w \in Workers |-> Fresh] /\ danFd = [d \in DanFds |-> Unused]
      /\ waitingFds_ = [w \in {} |-> NoFd] /\ undoTasksQueue_ = <<>> /\ stop_ = FALSE
      /\ pc = "start" /\ events = {} /\ unnotified = {}
  BY DEF Init, SchedulerInit
<1>3. /\ files = [n \in Fds |-> Free] /\ interest = [n \in {} |-> Free]
      /\ socket = [c \in Conns |-> [at |-> "away", sent |-> 0, unread |-> 0, answers |-> 0,
                                    shut |-> FALSE, broken |-> FALSE, full |-> FALSE]]
  BY DEF Init, KernelInit
<1>4. /\ sessions_ = [n \in {} |-> NoSession] /\ objs_ = SetToSeq(Sessions)
      /\ session = [s \in Sessions |-> [pFd_ |-> NoFd, isAlive_ |-> FALSE,
                                         recvBuffer_ |-> <<>>, sendBuffer_ |-> <<>>]]
  BY DEF Init
<1>5. TypeOK
  <2>1. /\ socket \in [Conns -> Socket] /\ files \in [Fds -> Conns \cup {Listener, Free}]
        /\ DOMAIN interest = {}
    BY <1>3 DEF Socket
  <2>2. local \in [Workers -> Local] /\ danFd \in [DanFds -> DanFd]
    BY <1>2, KernelAssumption DEF Fresh, Local, Places, Unused, DanFd, ListenFd, Fds
  <2>3. session \in [Sessions -> Session]
    BY <1>4 DEF Session
  <2>4. /\ sessions_ \in [DOMAIN sessions_ -> Sessions] /\ DOMAIN sessions_ \subseteq Fds
        /\ objs_ \in Seq(Sessions)
    BY <1>4, PoolFilled
  <2>5. /\ idle \subseteq Workers /\ Busy \subseteq Workers /\ idle \cap Busy = {}
        /\ \A w \in Busy : jobOf[w] \in Task
        /\ running \in Busy \cup {NoWorker}
    BY <1>1
  <2>6. DOMAIN waitingFds_ = {} /\ unnotified \subseteq DOMAIN waitingFds_
    BY <1>2
  <2>7. undoTasksQueue_ \in Seq(Task)
    BY <1>2, EmptySeq
  <2>8. stop_ \in BOOLEAN /\ events = {}
    BY <1>2
  <2> QED
    BY <1>2, <2>1, <2>2, <2>3, <2>4, <2>5, <2>6, <2>7, <2>8 DEF TypeOK
<1>6. Scheduling
  <2>1. \A d \in DanFds : ~ Live(d)
    BY <1>2 DEF Live, Unused
  <2>2. Placed /\ Leaving /\ Loop /\ Owned /\ Recorded
    BY <1>1, <1>2, <2>1 DEF Placed, Leaving, Loop, Owned, Recorded, Broadcasting
  <2>3. Registered
    BY <1>2, <1>3 DEF Registered
  <2> QED
    BY <1>1, <1>2, <2>2, <2>3, RegisteredIsLive DEF Scheduling, Batched
<1>7. Queue = {} /\ ~ AcceptQueued
  BY <1>2 DEF Queue, AcceptQueued
<1>8. Accepting
  <2>1. \A n \in Fds : files[n] # Listener
    BY <1>3, KernelAssumption
  <2>2. \A s \in Sessions : session[s].pFd_ = NoFd
    BY <1>4
  <2> QED
    BY <1>1, <1>2, <1>7, <2>1, <2>2, SchedulerAssumption DEF Accepting
<1>9. Bound
  BY <1>1, <1>4, <1>7, PoolFilled DEF Bound, ReclaimedOnce, SendersBound
<1>10. Assigning
  BY <1>2 DEF Assigning, Launching, Launched
<1>11. RepliesSent
  <2>1. \A s \in Sessions : SendersOf(s) = {} /\ QueuedFor(s) = {}
    BY <1>1, <1>2 DEF SendersOf, QueuedFor
  <2>2. \A s \in Sessions : Len(session[s].sendBuffer_) = 0
    BY <1>4
  <2>3. Cardinality({}) = 0
    BY FS_EmptySet
  <2>4. \A s \in Sessions : Cardinality(SendersOf(s)) = 0 /\ Cardinality(QueuedFor(s)) = 0
    BY <2>1, <2>3, Zenon
  <2> QED
    BY <2>2, <2>4 DEF RepliesSent
<1> QED
  BY <1>5, <1>6, <1>8, <1>9, <1>10, <1>11 DEF IInv, Serving

(* The three parts together are inductive; each step's proof of one part   *)
(* needs the other two before the step. *)
LEMMA NextInvariant ==
  IInv /\ [Next]_vars => IInv'
<1> SUFFICES ASSUME IInv, [Next]_vars PROVE IInv'
  OBVIOUS
<1>1. TypeOK /\ Scheduling /\ Serving /\ SendersBound
  BY DEF IInv, Serving, Bound
<1> QED
  BY <1>1, NextTyped, NextSchedules, NextAccepts, NextBound, NextAssigns, NextReplies
     DEF IInv, Serving

(* The invariant holds throughout. *)
THEOREM Inductive ==
  Spec => []IInv
BY InitInvariant, NextInvariant, PTL DEF Spec

(* Every variable of the server keeps its type: no descriptor, danFd_t,    *)
(* coroutine or session is ever made up, and no empty queue or buffer read. *)
THEOREM TypeCorrect ==
  Spec => []TypeOK
<1>1. IInv => TypeOK
  BY DEF IInv
<1> QED
  BY <1>1, Inductive, PTL

(* Whatever is in epoll, or in the batch of events being dispatched, is a  *)
(* live danFd_t on which its coroutine is parked. *)
THEOREM RegistrationsLive ==
  Spec => []RegistrationLive
<1>1. IInv => RegistrationLive
  BY DEF IInv, Scheduling
<1> QED
  BY <1>1, Inductive, PTL

(* When run() returns, no coroutine is left and no danFd_t is allocated. *)
THEOREM ShutdownCompletes ==
  Spec => []ShutdownComplete
<1>1. IInv => ShutdownComplete
  BY DEF IInv, Scheduling, Loop, Owned, ShutdownComplete
<1> QED
  BY <1>1, Inductive, PTL

(* No session is in the pool twice, or in the pool and in the map. *)
THEOREM SessionsReclaimedOnce ==
  Spec => []ReclaimedOnce
<1>1. IInv => ReclaimedOnce
  BY DEF IInv, Serving, Bound
<1> QED
  BY <1>1, Inductive, PTL

(* Nothing that broadcast() wakes changes the map it iterates over. *)
THEOREM BroadcastIsStable ==
  Spec => BroadcastStable
<1>1. IInv /\ [Next]_vars => [Broadcasting => waitingFds_' = waitingFds_]_vars
  BY WaitingSteps DEF IInv
<1> QED
  BY <1>1, Inductive, PTL DEF Spec, BroadcastStable

(* The server uses its coroutines only as the manager provides: a job for  *)
(* a worker that has none, and a switch only to one that has. *)
THEOREM UsesThePool ==
  Spec => Pool!Spec
<1>1. Init => Pool!Init
  BY DEF Init, SchedulerInit
<1>2. IInv /\ [Next]_vars => [Pool!Next]_(Pool!vars)
  <2> SUFFICES ASSUME IInv, [Next]_vars PROVE [Pool!Next]_(Pool!vars)
    OBVIOUS
  <2>1. PoolCall
    BY PoolCalls
  <2>2. undoTasksQueue_ \in Seq(Task) /\ Busy \subseteq Workers
    BY DEF IInv, TypeOK
  <2>3. CASE UNCHANGED poolVars
    BY <2>3 DEF poolVars, Pool!vars
  <2>4. CASE undoTasksQueue_ # <<>> /\ \E w \in Workers : Pool!Submit(w, Head(undoTasksQueue_))
    <3>1. Head(undoTasksQueue_) \in Task
      BY <2>2, <2>4, HeadTailProperties
    <3> QED
      BY <2>4, <3>1 DEF Pool!Next
  <2>5. CASE (\E w \in Busy : Pool!Run(w)) \/ Pool!Pause \/ Pool!Finish
    BY <2>2, <2>5 DEF Pool!Next
  <2> QED
    BY <2>1, <2>3, <2>4, <2>5 DEF PoolCall
<1> QED
  BY <1>1, <1>2, Inductive, PTL DEF Spec, Pool!Spec

=============================================================================
