-------------------------------- MODULE Server --------------------------------
(***************************************************************************)
(* The server of dan_net.hpp on its scheduler: the accepting coroutine,    *)
(* one receiving coroutine per connection, the tick that processes the     *)
(* messages of every session, and one sending coroutine per reply, with    *)
(* the part of dan_session.hpp those share: a session object bound to a    *)
(* danFd_t, its buffers, and isAlive_.                                     *)
(*                                                                         *)
(* Every request is one message in one packet and, when Asks holds, gets   *)
(* one reply; a message is known by the connection it came from, and a     *)
(* send takes a whole reply or nothing.                                    *)
(***************************************************************************)
EXTENDS Scheduler, SequencesExt

CONSTANTS Asks,      \* do the messages of the peers ask for a reply?
          NoSession  \* nullptr

(* The object pools of messages and packets start with DAN_POOL_KEEP_SIZE  *)
(* = 17 new objects and hand them out first in, first out.  A run takes a  *)
(* message for each reply, and a packet for each reply, each read and each *)
(* closing of a connection: within this bound none is taken twice, and     *)
(* what an earlier use left in one plays no part.  Session objects are     *)
(* taken again: what their buffers held is still there.                    *)
ASSUME FreshObjects ==
  MapThenSumSet(LAMBDA c : 2 * MaxRequests[c] + 1, Conns) <= 17

ASSUME SessionsAssumption == IsFiniteSet(Sessions)

VARIABLES sessions_,  \* descriptor -> session
          session,    \* the session objects
          objs_       \* the session objects in the pool

sessionVars == <<sessions_, session, objs_>>
vars == <<kernelVars, schedulerVars, sessionVars>>

Init ==
  /\ KernelInit
  /\ SchedulerInit
  /\ sessions_ = [n \in {} |-> NoSession]
  /\ session = [s \in Sessions |-> [pFd_ |-> NoFd, isAlive_ |-> FALSE,
                                     recvBuffer_ |-> <<>>, sendBuffer_ |-> <<>>]]
  /\ objs_ = SetToSeq(Sessions)

-----------------------------------------------------------------------------
(* Coroutines.  Each step is one system call, or what follows it up to the *)
(* next call or switch.                                                    *)

me == local[running]
Runs(doFunc) == running \in Busy /\ jobOf[running].doFunc = doFunc
At(place) == me.at = place
Continue(place) == local' = [local EXCEPT ![running].at = place]

(* The process is killed: by SIGPIPE, or through a pointer free() left. *)
Killed == pc' = "killed" /\ UNCHANGED <<events, unnotified>>

(* lightThreadPoll: parking, and epoll_ctl once switched back to. *)
Poll(d, waitingEvents, place) ==
  IF Live(d)
    THEN /\ Park(d, waitingEvents)
         /\ Continue(place)
         /\ UNCHANGED loopVars
    ELSE /\ Killed   \* danFd.scheduler is the first thing it reads
         /\ UNCHANGED <<poolVars, local, danFd, waitingFds_, interest>>

(* Mutant of Woken: the descriptor stays registered. *)
WokenRegistered(place) ==
  /\ Continue(place)
  /\ UNCHANGED <<kernelVars, poolVars, danFd, waitingFds_, undoTasksQueue_, stop_,
                 loopVars, sessionVars>>

Woken(place) ==
  /\ EpollDel(danFd[me.pFd].fd)
  /\ Continue(place)
  /\ UNCHANGED <<socket, files, poolVars, danFd, waitingFds_, undoTasksQueue_, stop_,
                 loopVars, sessionVars>>

(* Mutant of EndOwner: the coroutine also leaves waitingFds_. *)
EndOwnerForgotten(d) ==
  /\ Closed(danFd[d].fd)
  /\ FreeFd(d)
  /\ RemoveLightThread(running)
  /\ Pool!Finish
  /\ local' = [local EXCEPT ![running] = Fresh]
  /\ UNCHANGED <<undoTasksQueue_, stop_, loopVars, sessionVars>>

(* The job returns: the descriptor is closed, the danFd_t freed. *)
EndOwner(d) ==
  /\ Closed(danFd[d].fd)
  /\ FreeFd(d)
  /\ Pool!Finish
  /\ local' = [local EXCEPT ![running] = Fresh]
  /\ UNCHANGED <<waitingFds_, undoTasksQueue_, stop_, loopVars, sessionVars>>

(* acceptFunc *)

AcceptStart ==
  /\ Runs("acceptFunc") /\ At("start")
  /\ \E d \in DanFds : /\ CreateFd(d, jobOf[running].arg)
                       /\ local' = [local EXCEPT ![running].at = "accept",
                                                 ![running].pFd = d]
  /\ UNCHANGED <<kernelVars, poolVars, waitingFds_, undoTasksQueue_, stop_, loopVars,
                 sessionVars>>

(* lightThreadAccept, the first call: whatever it returns, except an error *)
(* other than EAGAIN, it then waits for an event; a connection it did      *)
(* return is forgotten. *)
AcceptFirst ==
  /\ Runs("acceptFunc") /\ At("accept")
  /\ \E r \in AcceptResults :
       \/ /\ r = "error"
          /\ Continue("accept-end")
          /\ UNCHANGED <<kernelVars, poolVars, danFd, waitingFds_, loopVars>>
       \/ /\ r = "again"
          /\ Poll(me.pFd, "IN", "accept-woken")
          /\ UNCHANGED <<socket, files>>
       \/ /\ r = "accepted"
          /\ \E c \in Backlog : Accepted(c)
          /\ Poll(me.pFd, "IN", "accept-woken")
  /\ UNCHANGED <<undoTasksQueue_, stop_, sessionVars>>

AcceptWoken ==
  /\ Runs("acceptFunc") /\ At("accept-woken")
  /\ LET r == PollResult(me.pFd, "IN")
     IN  Woken(IF r = 1 THEN "accept-again" ELSE IF r = 0 THEN "accept" ELSE "accept-end")

(* The second call, after an event: the new connection becomes a task. *)
AcceptSecond ==
  /\ Runs("acceptFunc") /\ At("accept-again")
  /\ IF AcceptResults = {"accepted"}
       THEN /\ \E c \in Backlog :
                 /\ Accepted(c)
                 /\ AddTask([doFunc |-> "recvMsgFunc", arg |-> LowestFree, serves |-> c])
            /\ Continue("accept")
       ELSE Continue("accept-end") /\ UNCHANGED <<socket, files, undoTasksQueue_>>
  /\ UNCHANGED <<interest, poolVars, danFd, waitingFds_, stop_, loopVars, sessionVars>>

AcceptEnd ==
  /\ Runs("acceptFunc") /\ At("accept-end")
  /\ EndOwner(me.pFd)

(* recvMsgFunc *)

(* Mutant of Bind: the session is not bound to the danFd_t. *)
BindNothing(s, d) == session' = [session EXCEPT ![s].isAlive_ = TRUE]

(* bindFd and setAlive. *)
Bind(s, d) == session' = [session EXCEPT ![s].pFd_ = d, ![s].isAlive_ = TRUE]

RecvStart ==
  /\ Runs("recvMsgFunc") /\ At("start")
  /\ LET n == jobOf[running].arg
         s == Head(objs_)
     IN  \E d \in DanFds :
           /\ CreateFd(d, n)
           /\ objs_ # <<>> /\ objs_' = Tail(objs_)
           /\ Bind(s, d)
           /\ sessions_' = [m \in DOMAIN sessions_ \cup {n} |->
                              IF m = n THEN s ELSE sessions_[m]]
           /\ local' = [local EXCEPT ![running] =
                          [Fresh EXCEPT !.at = "recv", !.pFd = d, !.pSession = s]]
  /\ UNCHANGED <<kernelVars, poolVars, waitingFds_, undoTasksQueue_, stop_, loopVars>>

(* recvFromFd got bytes: a packet of requests goes to the session. *)
RecvData ==
  LET n == danFd[me.pFd].fd
      requests == [i \in 1 .. socket[files[n]].unread |-> files[n]]
  IN  /\ Received(n)
      /\ session' = IF Asks
                      THEN [session EXCEPT ![me.pSession].recvBuffer_ = @ \o requests]
                      ELSE session
      /\ Continue("recv")
      /\ UNCHANGED <<files, interest, poolVars, danFd, waitingFds_, loopVars>>

RecvFailed ==
  /\ Continue("recv-end")
  /\ UNCHANGED <<kernelVars, poolVars, danFd, loopVars, session>>

RecvFirst ==
  /\ Runs("recvMsgFunc") /\ At("recv")
  /\ \E r \in RecvResults(danFd[me.pFd].fd) :
       \/ r = "data" /\ RecvData
       \/ r \in {"eof", "error"} /\ RecvFailed /\ UNCHANGED waitingFds_
       \/ r = "again" /\ Poll(me.pFd, "IN", "recv-woken")
                      /\ UNCHANGED <<socket, files, session>>
  /\ UNCHANGED <<undoTasksQueue_, stop_, sessions_, objs_>>

RecvWoken ==
  /\ Runs("recvMsgFunc") /\ At("recv-woken")
  /\ Woken(IF PollResult(me.pFd, "IN") = 1 THEN "recv-again" ELSE "recv-end")

RecvSecond ==
  /\ Runs("recvMsgFunc") /\ At("recv-again")
  /\ \E r \in RecvResults(danFd[me.pFd].fd) :
       \/ r = "data" /\ RecvData
       \/ r = "eof" /\ RecvFailed /\ RemoveLightThread(danFd[me.pFd].lightThreadId)
       \/ r \in {"error", "again"} /\ RecvFailed /\ UNCHANGED waitingFds_
  /\ UNCHANGED <<undoTasksQueue_, stop_, sessions_, objs_>>

(* Mutants of RecvEnd and boundFd use the danFd_t of the last descriptor,  *)
(* as if the coroutines shared one argument. *)
lastFd == CHOOSE d \in DanFds :
            Live(d) /\ \A e \in DanFds : Live(e) => danFd[e].fd <= danFd[d].fd

RecvEndShared ==
  /\ Runs("recvMsgFunc") /\ At("recv-end")
  /\ EndOwner(lastFd)

(* The session keeps pFd_, and stays alive. *)
RecvEnd ==
  /\ Runs("recvMsgFunc") /\ At("recv-end")
  /\ EndOwner(me.pFd)

(* onSend, bound to a session; pFd_ is read again at every use.  While it  *)
(* is parked, pFd is the danFd_t it waits on. *)

bound == jobOf[running].arg

boundFd == session[bound].pFd_

(* The reply at the front is popped, even if it is not the one sent. *)
SendEnd(alive) ==
  /\ session' = [session EXCEPT ![bound].sendBuffer_ = Tail(@),
                                ![bound].isAlive_ = @ /\ alive]
  /\ Pool!Finish
  /\ local' = [local EXCEPT ![running] = Fresh]
  /\ UNCHANGED <<danFd, waitingFds_, undoTasksQueue_, stop_, loopVars, sessions_,
                 objs_>>

SendStart ==
  /\ Runs("onSend") /\ At("start")
  /\ local' = [local EXCEPT ![running] =
                 [Fresh EXCEPT !.at = "send", !.pFd = boundFd,
                               !.pSendMsg = Head(session[bound].sendBuffer_)]]
  /\ UNCHANGED <<kernelVars, poolVars, danFd, waitingFds_, undoTasksQueue_, stop_,
                 loopVars, sessionVars>>

SendCall(n, onAgain) ==
  \E r \in SendResults(n) :
    \/ /\ r = "sent"
       /\ Sent(n)
       /\ SendEnd(TRUE)
       /\ UNCHANGED <<files, interest>>
    \/ /\ r = "again"
       /\ onAgain
       /\ UNCHANGED <<socket, files, undoTasksQueue_, stop_, sessionVars>>
    \/ /\ r = "error"
       /\ Continue("send-end")
       /\ UNCHANGED <<kernelVars, poolVars, danFd, waitingFds_, undoTasksQueue_, stop_,
                      loopVars, sessionVars>>
    \/ /\ r = "sigpipe"
       /\ Killed
       /\ UNCHANGED <<kernelVars, poolVars, local, danFd, waitingFds_, undoTasksQueue_,
                      stop_, sessionVars>>

SendFirst ==
  /\ Runs("onSend") /\ At("send")
  /\ SendCall(danFd[me.pFd].fd, Poll(me.pFd, "OUT", "send-woken"))

SendWoken ==
  /\ Runs("onSend") /\ At("send-woken")
  /\ Woken(IF PollResult(me.pFd, "OUT") = 1 THEN "send-again" ELSE "send-end")

SendSecond ==
  /\ Runs("onSend") /\ At("send-again")
  /\ SendCall(danFd[me.pFd].fd,
              Continue("send-end")
                /\ UNCHANGED <<interest, poolVars, danFd, waitingFds_, loopVars>>)

(* A failed send closes the descriptor and leaves the session for the tick *)
(* to reclaim. *)
SendFailed ==
  /\ Runs("onSend") /\ At("send-end")
  /\ Closed(danFd[boundFd].fd)
  /\ SendEnd(FALSE)

CoroutineStep ==
  /\ pc # "killed"
  /\ \/ AcceptStart \/ AcceptFirst \/ AcceptWoken \/ AcceptSecond \/ AcceptEnd
     \/ RecvStart \/ RecvFirst \/ RecvWoken \/ RecvSecond \/ RecvEnd
     \/ SendStart \/ SendFirst \/ SendWoken \/ SendSecond \/ SendFailed

-----------------------------------------------------------------------------
(* procMsgFunc: every live session in the map handles the first message of *)
(* its buffer; a reply is queued, with a task to send it.  Erasing a dead  *)
(* session leaves the iterator dangling: what comes after it in the map is *)
(* handled or not, or the process is killed. *)

Alive(n) == session[sessions_[n]].isAlive_
Dead == {n \in DOMAIN sessions_ : ~ Alive(n)}

Visits == {V \in SUBSET DOMAIN sessions_ :
             IF Dead = {} THEN V = DOMAIN sessions_
             ELSE LET first == CHOOSE n \in Dead : \A m \in Dead : n <= m
                  IN  {n \in DOMAIN sessions_ : n <= first} \subseteq V}

Replying(V) == {n \in V : Alive(n) /\ session[sessions_[n]].recvBuffer_ # <<>>}

SendTask(n) == [doFunc |-> "onSend", arg |-> sessions_[n],
                serves |-> Head(session[sessions_[n]].recvBuffer_)]

(* Mutant of Answered: the messages behind the first are lost. *)
AnsweredLast(s) == [s EXCEPT !.recvBuffer_ = <<>>,
                             !.sendBuffer_ = Append(@, Head(s.recvBuffer_))]

(* procMsg: the first message is taken, its reply queued to be sent. *)
Answered(s) == [s EXCEPT !.recvBuffer_ = Tail(@),
                         !.sendBuffer_ = Append(@, Head(s.recvBuffer_))]

(* Mutant of Erased: the entries stay. *)
ErasedNot(N) == sessions_

Erased(N) == [n \in DOMAIN sessions_ \ N |-> sessions_[n]]

(* The descriptors of N in the order in which the map is walked through. *)
Ascending(N) == CHOOSE f \in [1 .. Cardinality(N) -> N] :
                  \A i, j \in 1 .. Cardinality(N) : i < j => f[i] < f[j]

ProcMsgFunc(V) ==
  LET replying == Ascending(Replying(V))
      answered == {sessions_[n] : n \in Replying(V)}
      dead == Ascending(V \cap Dead)
  IN  /\ session' = [s \in Sessions |->
           IF s \in answered THEN Answered(session[s]) ELSE session[s]]
      /\ undoTasksQueue_' = undoTasksQueue_ \o
                              [i \in DOMAIN replying |-> SendTask(replying[i])]
      /\ sessions_' = Erased(V \cap Dead)
      /\ objs_' = objs_ \o [i \in DOMAIN dead |-> sessions_[dead[i]]]

(* sendToFd reads pFd_->scheduler. *)
Dangles(V) == \E n \in Replying(V) : ~ Live(session[sessions_[n]].pFd_)

Tick ==
  /\ InMain("timers")
  /\ \/ /\ \E V \in Visits : ~ Dangles(V) /\ ProcMsgFunc(V)
        /\ UNCHANGED loopVars
     \/ /\ Dead # {} \/ \E V \in Visits : Dangles(V)
        /\ Killed
        /\ UNCHANGED <<undoTasksQueue_, sessionVars>>
  /\ UNCHANGED <<kernelVars, poolVars, local, danFd, waitingFds_, stop_>>

-----------------------------------------------------------------------------
(* danNet::run, before the scheduler's, and the destructor. *)

Start ==
  /\ InMain("start")
  /\ \E listens \in BOOLEAN :
       /\ TcpListen(listens)
       /\ IF listens
            THEN /\ AddTask([doFunc |-> "acceptFunc", arg |-> ListenFd, serves |-> Listener])
                 /\ Goto("boot")
            ELSE Goto("exited") /\ UNCHANGED undoTasksQueue_
  /\ UNCHANGED <<socket, interest, poolVars, local, danFd, waitingFds_, stop_, sessionVars>>

(* The sessions still in the map go back to the pool. *)
Destruct ==
  /\ InMain("exited")
  /\ Goto("gone")
  /\ LET left == Ascending(DOMAIN sessions_)
     IN  objs_' = objs_ \o [i \in DOMAIN left |-> sessions_[left[i]]]
  /\ sessions_' = [n \in {} |-> NoSession]
  /\ UNCHANGED <<kernelVars, poolVars, local, danFd, waitingFds_, undoTasksQueue_, stop_, session>>

Over == pc \in {"exited", "gone", "killed"}

Program == \/ Start
           \/ RunStep /\ UNCHANGED sessionVars
           \/ Tick
           \/ CoroutineStep
           \/ Destruct

Next == \/ Program
        \/ ~ Over /\ PeerStep /\ UNCHANGED <<schedulerVars, sessionVars>>
        \/ ~ Over /\ StopApp /\ UNCHANGED sessionVars
        \/ Over /\ UNCHANGED vars

Spec == Init /\ [][Next]_vars

(* The thread keeps running, and the timer, which comes due DAN_MSG_TICK   *)
(* after it was set, is due again and again when procTimers looks.  Of the *)
(* peers nothing is assumed. *)
FairSpec == Spec /\ WF_vars(Program) /\ SF_vars(Tick)

-----------------------------------------------------------------------------

(* Every variable has its type. *)
Places == {"start", "accept", "accept-woken", "accept-again", "accept-end",
           "recv", "recv-woken", "recv-again", "recv-end",
           "send", "send-woken", "send-again", "send-end"}

Local == [at : Places, pFd : DanFds \cup {NoFd}, pSession : Sessions \cup {NoFd},
          pSendMsg : Conns \cup {NoFd}]

DanFd == [heap : {"none", "live", "freed"}, fd : Fds,
          lightThreadId : Workers \cup {NoWorker},
          readyEvents : SUBSET {"IN", "OUT", "ERR", "CLOSE", "ERROR"},
          waitingEvents : {"IN", "OUT"}]

Session == [pFd_ : DanFds \cup {NoFd}, isAlive_ : BOOLEAN,
            recvBuffer_ : Seq(Conns), sendBuffer_ : Seq(Conns)]

TypeOK ==
  /\ socket \in [Conns -> Socket]
  /\ files \in [Fds -> Conns \cup {Listener, Free}]
  /\ DOMAIN interest \subseteq Fds
  /\ \A n \in DOMAIN interest : interest[n] \in [ptr : DanFds, events : {"IN", "OUT"}]
  /\ idle \subseteq Workers /\ Busy \subseteq Workers /\ idle \cap Busy = {}
  /\ \A w \in Busy : jobOf[w] \in Task
  /\ running \in Busy \cup {NoWorker}
  /\ local \in [Workers -> Local]
  /\ danFd \in [DanFds -> DanFd]
  /\ DOMAIN waitingFds_ \subseteq Workers /\ \A w \in DOMAIN waitingFds_ : waitingFds_[w] \in DanFds
  /\ undoTasksQueue_ \in Seq(Task)
  /\ stop_ \in BOOLEAN
  /\ pc \in {"start", "boot", "boot-launch", "boot-pop", "assign", "launch", "pop", "loop", "wait",
             "dispatch", "timers", "CLOSE", "ERROR", "exited", "gone", "killed"}
  /\ \A e \in events : e \in [ptr : DanFds, events : SUBSET {"IN", "OUT", "ERR"}]
  /\ unnotified \subseteq DOMAIN waitingFds_
  /\ sessions_ \in [DOMAIN sessions_ -> Sessions] /\ DOMAIN sessions_ \subseteq Fds
  /\ session \in [Sessions -> Session]
  /\ objs_ \in Seq(Sessions)

ParkedOn(w, d) == /\ w \in Busy
                  /\ local[w].at \in {"accept-woken", "recv-woken", "send-woken"}
                  /\ local[w].pFd = d

(* Neither epoll nor the batch of events being dispatched ever holds a     *)
(* stale pointer: each names a live danFd_t whose lightThreadId is a       *)
(* coroutine parked on that very danFd_t, so an event wakes a coroutine    *)
(* that waits for it even when earlier events of the batch closed          *)
(* descriptors, freed danFd_t's, or gave their workers other jobs.         *)
RegistrationLive ==
  /\ \A n \in DOMAIN interest : danFd[interest[n].ptr].fd = n
  /\ \A d \in {interest[n].ptr : n \in DOMAIN interest} \cup {e.ptr : e \in events} :
       Live(d) /\ ParkedOn(danFd[d].lightThreadId, d)

(* A coroutine that is not running can be woken: it is parked on its own   *)
(* danFd_t, which epoll will report for its own, open connection, and      *)
(* broadcast finds it in waitingFds_.                                      *)
Started(w) == local[w].at # "start"

ParkedReachable ==
  \A w \in Busy \ {running} : Started(w) =>
    LET d == local[w].pFd
        n == danFd[d].fd
    IN  /\ Live(d) /\ danFd[d].lightThreadId = w
        /\ files[n] = jobOf[w].serves
        /\ n \in DOMAIN interest /\ interest[n].ptr = d
        /\ w \in DOMAIN waitingFds_ /\ waitingFds_[w] = d

(* A coroutine closes the descriptor of the connection it serves and no    *)
(* other, although descriptor numbers are reused as soon as they are free. *)
ClosesOwn ==
  [][\A n \in Fds : files[n] # Free /\ files'[n] = Free =>
       running \in Busy /\ jobOf[running].serves = files[n]]_vars

(* The coroutines broadcast() wakes leave waitingFds_, which it is         *)
(* iterating over, as it is.                                               *)
BroadcastStable == [][Broadcasting => waitingFds_' = waitingFds_]_vars

(* run() returns only when every coroutine has ended and given its danFd_t *)
(* back.                                                                   *)
ShutdownComplete == pc \in {"exited", "gone"} => Busy = {} /\ \A d \in DanFds : ~ Live(d)

(* A session is given back to its pool once, by the tick or the destructor: *)
(* what is in the pool is in it once, and in the map no more, whatever the *)
(* iteration that erases as it goes skips.                                 *)
ReclaimedOnce ==
  /\ IsInjective(objs_)
  /\ \A n \in DOMAIN sessions_ :
       /\ sessions_[n] \notin ToSet(objs_)
       /\ \A m \in DOMAIN sessions_ \ {n} : sessions_[m] # sessions_[n]

(* A connection is served: a receiving coroutine, or the task to start     *)
(* one, is in charge of it.                                                *)
Served(c) ==
  \E task \in {jobOf[w] : w \in Busy} \cup
              {undoTasksQueue_[i] : i \in DOMAIN undoTasksQueue_} :
    task.doFunc = "recvMsgFunc" /\ task.serves = c

(* Every connection the server has accepted is served. *)
AcceptedServed == \A c \in Conns : socket[c].at = "open" => Served(c)

(* A sender that waits for its connection to drain will be told: epoll     *)
(* watches the descriptor for EPOLLOUT on behalf of its coroutine.         *)
SenderRegistered ==
  \A w \in Busy \ {running} : local[w].at = "send-woken" =>
    LET d == local[w].pFd
        n == danFd[d].fd
    IN  /\ n \in DOMAIN interest /\ interest[n] = [ptr |-> d, events |-> "OUT"]
        /\ danFd[d].lightThreadId = w

(* When the tick processes the sessions, each one that is alive is bound   *)
(* to a live danFd_t of its own descriptor.                                *)
SessionBound ==
  pc = "timers" => \A n \in DOMAIN sessions_ : Alive(n) =>
    LET d == session[sessions_[n]].pFd_
    IN  d # NoFd /\ Live(d) /\ danFd[d].fd = n

(* waitingFds_ maps a coroutine to a danFd_t that exists. *)
WaitingExist == \A w \in DOMAIN waitingFds_ : Live(waitingFds_[w])

(* While a connection is served no request is lost and none is answered    *)
(* twice: each is unread, buffered, waiting to be sent, or answered.       *)
RequestsConserved ==
  \A w \in Busy : jobOf[w].doFunc = "recvMsgFunc" /\ Started(w) =>
    LET c == jobOf[w].serves
        s == session[local[w].pSession]
    IN  socket[c].sent = socket[c].unread + Len(s.recvBuffer_) + Len(s.sendBuffer_)
                           + socket[c].answers

(* A reply goes out on the connection whose request asked for it. *)
ReplyToSender ==
  [][\A c \in Conns : socket'[c].answers # socket[c].answers =>
       local[running].pSendMsg = c]_vars

(* sendToFd queues a message and has a coroutine of its own send it        *)
(* (dan_session.hpp:212, "so a coroutine is to be taken to send it"): no   *)
(* two coroutines are sending the first message of one session at once.    *)
(* They can: onSend takes the first message and pops it only when it is    *)
(* done, so that while it waits for room a second one takes it as well;    *)
(* it goes out twice and back to the pool twice, and the next message is   *)
(* popped unsent.                                                          *)
Sending(w) == w \in Busy /\ jobOf[w].doFunc = "onSend" /\ Started(w)

SendersApart ==
  \A w, v \in Busy : Sending(w) /\ Sending(v) /\ w # v => jobOf[w].arg # jobOf[v].arg

(* SIGINT ends the server. *)
StopExits == stop_ ~> Over

(* The bytes of a served connection are read. *)
RequestRead ==
  \A c \in Conns : socket[c].unread > 0 /\ Served(c) ~>
                     socket[c].unread = 0 \/ socket[c].at = "closed" \/ Over

(* Every request of a served connection is answered. *)
RequestAnswered ==
  \A c \in Conns : socket[c].sent > 0 /\ Served(c) ~>
                     socket[c].answers = socket[c].sent \/ Over

=============================================================================
