--------------------------- MODULE UntroubledProofs ---------------------------
(***************************************************************************)
(* Proofs about Server when no send fails or has to wait: because the      *)
(* peers' messages ask for no reply, or because the peers stay connected   *)
(* and keep reading.  The runs server_quiet and server_patient are         *)
(* instances of the two.                                                   *)
(***************************************************************************)
EXTENDS ServerProofs

PeersStay == PeersEnd = {} /\ ~ PeersStall

Untroubled == ~ Asks \/ PeersStay

(* Coroutines that close the descriptor of their task. *)
Owners == {w \in Busy : jobOf[w].doFunc # "onSend"}

Tasks == Queue \cup {jobOf[w] : w \in Busy}

Receivers == {w \in Busy : jobOf[w].doFunc = "recvMsgFunc" /\ Started(w)}

(* The places of the queue with a task for such a coroutine; assignTasks   *)
(* leaves the one it has given away at the front until it is back. *)
Unclaimed ==
  {i \in DOMAIN undoTasksQueue_ :
     /\ undoTasksQueue_[i].doFunc # "onSend"
     /\ i = 1 => ~ Launching /\ ~ Launched}

(* Every connection is open under one descriptor, or none. *)
Table ==
  /\ \A n \in Fds : files[n] \in Conns => socket[files[n]].at = "open"
  /\ \A m, n \in Fds : files[m] = files[n] /\ files[n] \in Conns => m = n

(* Each descriptor in use has one coroutine, or one task, to care for it. *)
Exclusive ==
  /\ \A w \in Owners : files[jobOf[w].arg] = jobOf[w].serves
  /\ \A v, w \in Owners : jobOf[v].arg = jobOf[w].arg => v = w
  /\ \A i \in Unclaimed :
       LET task == undoTasksQueue_[i]
       IN  /\ files[task.arg] = task.serves
           /\ \A w \in Owners : jobOf[w].arg # task.arg
           /\ \A j \in Unclaimed : undoTasksQueue_[j].arg = task.arg => j = i

(* A parked coroutine is registered, for reading. *)
Reachable ==
  /\ \A n \in DOMAIN interest : interest[n].events = "IN"
  /\ \A w \in Owners \ {running} : Started(w) =>
       /\ danFd[local[w].pFd].lightThreadId = w
       /\ jobOf[w].arg \in DOMAIN interest
       /\ interest[jobOf[w].arg].ptr = local[w].pFd

(* Nobody asks for replies, or no connection is in trouble. *)
Calm ==
  /\ ~ Asks => /\ \A s \in Sessions : session[s].recvBuffer_ = <<>>
               /\ \A task \in Tasks : task.doFunc # "onSend"
  /\ Asks => \A c \in Conns : ~ socket[c].shut /\ ~ socket[c].broken /\ ~ socket[c].full

(* A sender goes through without a switch. *)
Passing ==
  /\ pc # "killed"
  /\ \A w \in Busy : jobOf[w].doFunc = "onSend" =>
       /\ local[w].at \in {"start", "send"}
       /\ Launching \/ Launched
       /\ local[w].at = "send" => local[w].pFd = session[jobOf[w].arg].pFd_

(* Sessions stay alive and bound. *)
Settled ==
  /\ \A n \in DOMAIN sessions_ : Alive(n)
  /\ \A w \in Receivers : /\ jobOf[w].arg \in DOMAIN sessions_
                          /\ sessions_[jobOf[w].arg] = local[w].pSession
                          /\ session[local[w].pSession].pFd_ = local[w].pFd

Serviced == Table /\ Exclusive /\ Reachable /\ Calm /\ Passing /\ Settled

Stopped == Broadcasting \/ pc \in {"exited", "gone"}

(* The descriptor's connection, if it is one, has bytes to read. *)
HasData(n) == files[n] \in Conns => socket[files[n]].unread > 0

(* What epoll has reported is there. *)
Announced == \A e \in events : "IN" \in e.events /\ HasData(danFd[e.ptr].fd)

(* A receiver is woken to read, or to leave. *)
Receiving ==
  running \in Receivers =>
    /\ local[running].at = "recv-woken" /\ ~ Broadcasting =>
         PollResult(local[running].pFd, "IN") = 1
    /\ local[running].at \in {"recv-woken", "recv-again"} /\ ~ Broadcasting =>
         HasData(jobOf[running].arg)
    /\ local[running].at = "recv-end" => Broadcasting

(* The session of a connection, or of a reply, has its receiver. *)
Attended ==
  ~ Stopped =>
    /\ \A n \in DOMAIN sessions_ :
         \E w \in Receivers : jobOf[w].arg = n /\ local[w].pSession = sessions_[n]
    /\ \A task \in Tasks : task.doFunc = "onSend" =>
         \E w \in Receivers : local[w].pSession = task.arg

(* A session has the requests and replies of the connection it is of, and  *)
(* one in the pool has none. *)
Contents ==
  /\ \A w \in Receivers :
       LET s == session[local[w].pSession]
       IN  /\ s.recvBuffer_ \in Seq({jobOf[w].serves})
           /\ s.sendBuffer_ \in Seq({jobOf[w].serves})
  /\ \A w \in Busy : jobOf[w].doFunc = "onSend" /\ local[w].at = "send" =>
       local[w].pSendMsg = Head(session[jobOf[w].arg].sendBuffer_)
  /\ pc # "gone" => \A s \in ToSet(objs_) :
       session[s].recvBuffer_ = <<>> /\ session[s].sendBuffer_ = <<>>

(* Nothing has been read from a connection without a receiver. *)
Unread ==
  \A c \in Conns :
    socket[c].at # "closed" /\ (\A w \in Receivers : jobOf[w].serves # c) =>
      socket[c].sent = socket[c].unread /\ socket[c].answers = 0

Conserving == Asks => Announced /\ Receiving /\ Attended /\ Contents /\ Unread /\ RequestsConserved

UInv == IInv /\ Serviced /\ Conserving

-----------------------------------------------------------------------------
(* What a step can be, as far as these parts see it. *)

Resumes ==
  \/ running' = running
  \/ running = NoWorker /\ running' \in Busy

(* The main context goes on, a peer acts, or SIGINT arrives. *)
Quietly ==
  /\ UNCHANGED <<files, interest, jobOf, local, undoTasksQueue_, sessionVars>>
  /\ Busy' = Busy
  /\ \A d \in DanFds : danFd'[d].fd = danFd[d].fd /\ danFd'[d].lightThreadId = danFd[d].lightThreadId
  /\ Resumes
  /\ Launching' \/ Launched' <=> Launching \/ Launched
  /\ pc # "killed" /\ pc' # "killed"
  /\ UNCHANGED socket \/ PeerStep

(* run() goes on without a task. *)
LEMMA RunEffects ==
  ASSUME TypeOK, Scheduling, Passing, RunStep, UNCHANGED sessionVars
  PROVE  \/ Quietly
         \/ Assign("boot", "boot-launch") \/ Assign("assign", "launch")
         \/ PopTask("boot-pop", "boot") \/ PopTask("pop", "assign")
<1> USE DEF InMain, Goto, Launching, Launched
<1>1. pc # "killed" /\ danFd \in [DanFds -> DanFd]
  BY DEF Passing, TypeOK
<1>2. ASSUME NEW d, NEW ready, danFd' = [danFd EXCEPT ![d].readyEvents = ready]
      PROVE  \A e \in DanFds : /\ danFd'[e].fd = danFd[e].fd
                               /\ danFd'[e].lightThreadId = danFd[e].lightThreadId
  BY <1>1, <1>2 DEF DanFd
<1>3. CASE AssignTasks /\ ~ (\/ Assign("boot", "boot-launch") \/ Assign("assign", "launch")
                             \/ PopTask("boot-pop", "boot") \/ PopTask("pop", "assign"))
  <2>1. /\ UNCHANGED <<kernelVars, jobOf, local, undoTasksQueue_, danFd>>
        /\ Launching' \/ Launched' <=> Launching \/ Launched
        /\ pc' # "killed"
        /\ \/ UNCHANGED running
           \/ running = NoWorker /\ \E w \in Busy : running' = w
    BY <1>3 DEF AssignTasks, Launch, Assigned, Pool!Run, poolVars, kernelVars
  <2>2. Busy' = Busy
    BY <2>1 DEF Busy, Pool!Busy
  <2> QED
    BY <1>1, <2>1, <2>2 DEF Quietly, kernelVars, Resumes
<1>4. CASE RunStep /\ ~ AssignTasks
  <2>1. /\ UNCHANGED <<kernelVars, jobOf, local, undoTasksQueue_>>
        /\ Launching' \/ Launched' <=> Launching \/ Launched
        /\ pc' # "killed"
        /\ \/ UNCHANGED running
           \/ running = NoWorker /\ \E w \in Busy : running' = w
    BY <1>1, <1>4
       DEF RunStep, LoopTest, EpollWait, EpollInterrupted, EpollFails, Dispatch, Dispatched, Broadcast,
           Broadcasted, TimersDone, StartBroadcast, ResumeOr, Pool!Run, poolVars, kernelVars, Broadcasting
  <2>2. UNCHANGED danFd \/ \E d, ready : danFd' = [danFd EXCEPT ![d].readyEvents = ready]
    BY <1>4
       DEF RunStep, LoopTest, EpollWait, EpollInterrupted, EpollFails, Dispatch, Dispatched, Broadcast,
           Broadcasted, TimersDone
  <2>3. \A e \in DanFds : /\ danFd'[e].fd = danFd[e].fd
                          /\ danFd'[e].lightThreadId = danFd[e].lightThreadId
    BY <1>2, <2>2
  <2>4. Busy' = Busy
    BY <2>1 DEF Busy, Pool!Busy
  <2> QED
    BY <1>1, <2>1, <2>3, <2>4 DEF Quietly, kernelVars, Resumes
<1> QED
  BY <1>3, <1>4

(* What an owner holds. *)
LEMMA OwnerHolds ==
  ASSUME TypeOK, Scheduling, NEW w \in Owners
  PROVE  /\ w \in Busy /\ w \in Workers /\ jobOf[w].doFunc \in {"acceptFunc", "recvMsgFunc"}
         /\ jobOf[w].arg \in Fds
         /\ Started(w) => /\ local[w].pFd \in DanFds /\ Live(local[w].pFd)
                          /\ danFd[local[w].pFd].fd = jobOf[w].arg
<1>1. w \in Busy /\ w \in Workers /\ jobOf[w] \in Task /\ jobOf[w].doFunc # "onSend"
  BY DEF TypeOK, Owners
<1>2. jobOf[w].doFunc \in {"acceptFunc", "recvMsgFunc"} /\ jobOf[w].arg \in Fds
  BY <1>1, TasksTyped, KernelAssumption DEF ListenFd, Fds
<1>3. Started(w) => /\ local[w].pFd \in DanFds /\ Live(local[w].pFd)
                    /\ danFd[local[w].pFd].fd = jobOf[w].arg
  BY <1>1 DEF Scheduling, Placed, Owned, Owner
<1> QED
  BY <1>1, <1>2, <1>3

(* A sender's session is the one of a receiver, whose connection is open. *)
LEMMA SenderServed ==
  ASSUME UInv, NEW w \in Busy, jobOf[w].doFunc = "onSend"
  PROVE  /\ Asks /\ ~ Stopped
         /\ \E v \in Receivers : /\ local[v].pSession = jobOf[w].arg
                                 /\ session[jobOf[w].arg].pFd_ = local[v].pFd
                                 /\ danFd[local[v].pFd].fd = jobOf[v].arg
                                 /\ files[jobOf[v].arg] = jobOf[v].serves
                                 /\ jobOf[v].serves \in Conns /\ jobOf[v].arg \in Fds
<1>1. Asks /\ (Launching \/ Launched)
  BY DEF UInv, Serviced, Calm, Passing, Tasks
<1>2. Asks /\ ~ Stopped
  BY <1>1 DEF Stopped, Broadcasting, Launching, Launched
<1>3. PICK v \in Receivers : local[v].pSession = jobOf[w].arg
  BY <1>2 DEF UInv, Conserving, Attended, Tasks
<1>4. v \in Owners /\ Started(v) /\ jobOf[v] \in Task /\ jobOf[v].doFunc = "recvMsgFunc"
  BY <1>3 DEF Receivers, Owners, UInv, IInv, TypeOK
<1>5. session[jobOf[w].arg].pFd_ = local[v].pFd /\ files[jobOf[v].arg] = jobOf[v].serves
  BY <1>3, <1>4 DEF UInv, Serviced, Settled, Exclusive
<1> QED
  BY <1>2, <1>3, <1>4, <1>5, OwnerHolds, TasksTyped DEF UInv, IInv

(* An owner goes on to another place. *)
Walks ==
  /\ running \in Owners /\ Started(running)
  /\ \E place \in Places \ ({"start", "send"} \cup WokenAt) :
       local' = [local EXCEPT ![running].at = place]
  /\ Busy' = Busy
  /\ UNCHANGED <<jobOf, running, danFd, pc, events, sessions_, objs_>>
  /\ interest' = interest \/ EpollDel(jobOf[running].arg)
  /\ \/ UNCHANGED <<socket, files, undoTasksQueue_, session>>
     \/ /\ FreeFds # {}
        /\ \E c \in Backlog :
             /\ Accepted(c)
             /\ AddTask([doFunc |-> "recvMsgFunc", arg |-> LowestFree, serves |-> c])
        /\ UNCHANGED session
     \/ /\ running \in Receivers
        /\ RecvResults(jobOf[running].arg) = {"data"}
        /\ Received(jobOf[running].arg)
        /\ LET c == files[jobOf[running].arg]
               requests == [i \in 1 .. socket[c].unread |-> c]
           IN  session' = IF Asks THEN [session EXCEPT ![local[running].pSession].recvBuffer_ =
                                          @ \o requests]
                          ELSE session
        /\ UNCHANGED <<files, undoTasksQueue_>>

(* An owner waits for its descriptor. *)
Parks ==
  /\ running \in Owners /\ Started(running) /\ local[running].at \notin WokenAt
  /\ \E place \in WokenAt \ {"send-woken"} : local' = [local EXCEPT ![running].at = place]
  /\ Busy' = Busy /\ running' = NoWorker
  /\ danFd' = [danFd EXCEPT ![local[running].pFd].lightThreadId = running,
                            ![local[running].pFd].waitingEvents = "IN"]
  /\ EpollAdd(jobOf[running].arg, local[running].pFd, "IN")
  /\ UNCHANGED <<jobOf, pc, events, undoTasksQueue_, sessionVars>>
  /\ \/ UNCHANGED <<socket, files>>
     \/ FreeFds # {} /\ \E c \in Backlog : Accepted(c)

(* An owner closes its descriptor and ends. *)
Ends ==
  /\ running \in Owners /\ Started(running) /\ local[running].at \in EndAt
  /\ Closed(jobOf[running].arg)
  /\ danFd' = [danFd EXCEPT ![local[running].pFd].heap = "freed"]
  /\ Busy' = Busy \ {running} /\ running' = NoWorker
  /\ \A w \in Busy' : jobOf'[w] = jobOf[w]
  /\ local' = [local EXCEPT ![running] = Fresh]
  /\ UNCHANGED <<pc, events, undoTasksQueue_, sessionVars>>

(* A sender sends its reply, and ends. *)
Replies ==
  /\ Runs("onSend") /\ At("send")
  /\ Sent(danFd[me.pFd].fd)
  /\ SendEnd(TRUE)
  /\ UNCHANGED <<files, interest>>

(* Polling is parking: the danFd_t is the coroutine's own. *)
LEMMA PollParks ==
  ASSUME TypeOK, Scheduling, running \in Owners, Started(running),
         local[running].at \notin WokenAt, NEW place \in WokenAt \ {"send-woken"},
         Poll(local[running].pFd, "IN", place), UNCHANGED <<undoTasksQueue_, sessionVars>>,
         \/ UNCHANGED <<socket, files>>
         \/ FreeFds # {} /\ \E c \in Backlog : Accepted(c)
  PROVE  Parks
<1>1. Live(local[running].pFd) /\ danFd[local[running].pFd].fd = jobOf[running].arg
  BY OwnerHolds
<1>2. /\ danFd' = [danFd EXCEPT ![local[running].pFd].lightThreadId = running,
                                ![local[running].pFd].waitingEvents = "IN"]
      /\ EpollAdd(jobOf[running].arg, local[running].pFd, "IN")
      /\ Pool!Pause
      /\ local' = [local EXCEPT ![running].at = place]
      /\ UNCHANGED <<pc, events>>
  BY <1>1 DEF Poll, Park, Continue, loopVars
<1>3. Busy' = Busy /\ UNCHANGED jobOf /\ running' = NoWorker
  BY <1>2 DEF Pool!Pause, Busy, Pool!Busy
<1> QED
  BY <1>2, <1>3 DEF Parks

(* What a coroutine does: no sender waits or fails, and nobody dies. *)
LEMMA CoroutineEffects ==
  ASSUME UInv, CoroutineStep
  PROVE  \/ AcceptStart \/ RecvStart
         \/ Walks \/ Parks \/ Ends
         \/ SendStart \/ Replies
<1> USE DEF Runs, At, me
<1>1. /\ TypeOK /\ Scheduling /\ Passing /\ pc # "killed"
      /\ \A w \in Busy : jobOf[w].doFunc # "onSend" => w \in Owners
  BY DEF UInv, IInv, Serviced, Passing, Owners
<1>2. running \in Owners /\ Started(running) =>
        /\ local[running].pFd \in DanFds /\ Live(local[running].pFd)
        /\ danFd[local[running].pFd].fd = jobOf[running].arg
  BY <1>1, OwnerHolds
<1>3. running # NoWorker <=> running \in Busy
  BY <1>1, SchedulerAssumption DEF TypeOK, Workers
<1>4. ASSUME running \in Owners, Started(running), NEW place \in Places \ ({"start", "send"} \cup WokenAt),
             Continue(place), UNCHANGED <<poolVars, danFd, pc, events, sessions_, objs_>>,
             interest' = interest \/ EpollDel(jobOf[running].arg),
             UNCHANGED <<socket, files, undoTasksQueue_, session>>
      PROVE  Walks
  BY <1>4 DEF Continue, Walks, poolVars, Busy, Pool!Busy
<1>5. ASSUME running \in Owners, Started(running), NEW place \in Places \ ({"start", "send"} \cup WokenAt),
             Woken(place)
      PROVE  Walks
  BY <1>2, <1>4, <1>5 DEF Woken, loopVars, sessionVars
<1>6. ASSUME running \in Receivers, RecvResults(danFd[local[running].pFd].fd) = {"data"},
             RecvData, UNCHANGED <<undoTasksQueue_, sessions_, objs_>>
      PROVE  Walks
  <2>1. running \in Owners /\ Started(running)
    BY <1>6 DEF Receivers, Owners
  <2>2. Busy' = Busy /\ UNCHANGED <<jobOf, running, danFd, pc, events, interest, files>>
    BY <1>6 DEF RecvData, poolVars, loopVars, Busy, Pool!Busy
  <2>3. /\ local' = [local EXCEPT ![running].at = "recv"]
        /\ Received(jobOf[running].arg)
        /\ session' = IF Asks
             THEN [session EXCEPT ![local[running].pSession].recvBuffer_ =
                     @ \o [i \in 1 .. socket[files[jobOf[running].arg]].unread |->
                             files[jobOf[running].arg]]]
             ELSE session
    BY <1>2, <1>6, <2>1 DEF RecvData, Continue
  <2>4. RecvResults(jobOf[running].arg) = {"data"}
    BY <1>2, <1>6, <2>1
  <2> QED
    BY <1>6, <2>1, <2>2, <2>3, <2>4 DEF Walks, Places, WokenAt
<1>7. CASE AcceptFirst
  <2>1. running \in Owners /\ Started(running) /\ local[running].at = "accept"
    BY <1>1, <1>7 DEF AcceptFirst, Started
  <2>2. \/ /\ Continue("accept-end")
           /\ UNCHANGED <<kernelVars, poolVars, danFd, waitingFds_, loopVars>>
        \/ /\ Poll(local[running].pFd, "IN", "accept-woken")
           /\ \/ UNCHANGED <<socket, files>>
              \/ FreeFds # {} /\ \E c \in Backlog : Accepted(c)
    BY <1>7 DEF AcceptFirst, AcceptResults
  <2> QED
    BY <1>1, <1>4, <1>7, <2>1, <2>2, PollParks
       DEF AcceptFirst, kernelVars, loopVars, sessionVars, Places, WokenAt
<1>8. CASE AcceptWoken
  BY <1>1, <1>5, <1>8 DEF AcceptWoken, Started, Places, WokenAt
<1>9. CASE AcceptSecond
  <2>1. running \in Owners /\ Started(running)
    BY <1>1, <1>9 DEF AcceptSecond, Started
  <2>2. CASE AcceptResults = {"accepted"}
    <3>1. /\ local' = [local EXCEPT ![running].at = "accept"]
          /\ UNCHANGED <<interest, jobOf, running, danFd, pc, events, sessions_, objs_, session>>
          /\ \E c \in Backlog :
               /\ Accepted(c)
               /\ AddTask([doFunc |-> "recvMsgFunc", arg |-> LowestFree, serves |-> c])
      BY <1>9, <2>2 DEF AcceptSecond, Continue, poolVars, loopVars, sessionVars
    <3>2. FreeFds # {}
      BY <2>2 DEF AcceptResults
    <3>3. Busy' = Busy
      BY <3>1 DEF Busy, Pool!Busy
    <3> QED
      BY <2>1, <3>1, <3>2, <3>3 DEF Walks, Places, WokenAt
  <2>3. CASE AcceptResults # {"accepted"}
    BY <1>4, <1>9, <2>1, <2>3
       DEF AcceptSecond, kernelVars, loopVars, sessionVars, Places, WokenAt
  <2> QED
    BY <2>2, <2>3
<1>10. CASE RecvFirst \/ RecvSecond
  <2>1. /\ running \in Owners /\ running \in Receivers /\ Started(running)
        /\ local[running].at \in {"recv", "recv-again"}
    BY <1>1, <1>10 DEF RecvFirst, RecvSecond, Started, Receivers
  <2>2. \/ RecvResults(danFd[local[running].pFd].fd) = {"data"} /\ RecvData
        \/ RecvFailed
        \/ /\ Poll(local[running].pFd, "IN", "recv-woken")
           /\ UNCHANGED <<socket, files, session>>
    BY <1>10 DEF RecvFirst, RecvSecond, RecvResults
  <2>3. UNCHANGED <<undoTasksQueue_, sessions_, objs_>>
    BY <1>10 DEF RecvFirst, RecvSecond
  <2>4. CASE RecvFailed
    BY <1>4, <2>1, <2>3, <2>4 DEF RecvFailed, kernelVars, loopVars, Places, WokenAt
  <2> QED
    BY <1>1, <1>6, <2>1, <2>2, <2>3, <2>4, PollParks DEF sessionVars, WokenAt
<1>11. CASE RecvWoken
  BY <1>1, <1>5, <1>11 DEF RecvWoken, Started, Places, WokenAt
<1>12. CASE AcceptEnd \/ RecvEnd
  <2>1. /\ running \in Owners /\ Started(running) /\ EndOwner(local[running].pFd)
        /\ local[running].at \in EndAt
    BY <1>1, <1>12 DEF AcceptEnd, RecvEnd, Started, EndAt
  <2>2. Busy' = Busy \ {running} /\ running' = NoWorker /\ \A w \in Busy' : jobOf'[w] = jobOf[w]
    BY <2>1 DEF EndOwner, Pool!Finish, Busy, Pool!Busy
  <2> QED
    BY <1>2, <2>1, <2>2 DEF EndOwner, Ends, FreeFd, loopVars
<1>13. CASE SendFirst
  <2>1. /\ running \in Busy /\ jobOf[running].doFunc = "onSend"
        /\ local[running].pFd = session[jobOf[running].arg].pFd_
    BY <1>1, <1>13 DEF SendFirst, Passing
  <2>2. PICK v \in Receivers : /\ session[jobOf[running].arg].pFd_ = local[v].pFd
                               /\ danFd[local[v].pFd].fd = jobOf[v].arg
                               /\ files[jobOf[v].arg] = jobOf[v].serves
                               /\ jobOf[v].serves \in Conns
    BY <2>1, SenderServed
  <2>3. Asks /\ \A c \in Conns : ~ socket[c].broken /\ ~ socket[c].full
    BY <2>1, SenderServed DEF UInv, Serviced, Calm
  <2>4. SendResults(danFd[local[running].pFd].fd) = {"sent"}
    BY <2>1, <2>2, <2>3, KernelAssumption DEF SendResults
  <2> QED
    BY <1>13, <2>4 DEF SendFirst, SendCall, Replies
<1>14. CASE SendWoken \/ SendSecond \/ SendFailed
  BY <1>1, <1>14 DEF SendWoken, SendSecond, SendFailed, Passing
<1> QED
  BY <1>7, <1>8, <1>9, <1>10, <1>11, <1>12, <1>13, <1>14 DEF CoroutineStep

(* The tick erases no session: each of them is alive. *)
Ticks ==
  /\ InMain("timers") /\ pc' = pc /\ running' = running
  /\ UNCHANGED <<kernelVars, jobOf, local, danFd, events, sessions_>>
  /\ Busy' = Busy
  /\ ToSet(objs_') = ToSet(objs_)
  /\ session' = [s \in Sessions |->
       IF s \in {sessions_[n] : n \in Replying(DOMAIN sessions_)}
         THEN Answered(session[s]) ELSE session[s]]
  /\ DOMAIN undoTasksQueue_ \subseteq DOMAIN undoTasksQueue_'
  /\ \A i \in DOMAIN undoTasksQueue_ : undoTasksQueue_'[i] = undoTasksQueue_[i]
  /\ \A i \in DOMAIN undoTasksQueue_' : i \in DOMAIN undoTasksQueue_ \/
       \E n \in Replying(DOMAIN sessions_) : /\ undoTasksQueue_'[i].doFunc = "onSend"
                                             /\ undoTasksQueue_'[i].arg = sessions_[n]

(* danNet::run listens and queues its first task. *)
Listens ==
  /\ InMain("start") /\ pc' = "boot" /\ running' = running
  /\ Listened
  /\ AddTask([doFunc |-> "acceptFunc", arg |-> ListenFd, serves |-> Listener])
  /\ UNCHANGED <<socket, interest, jobOf, local, danFd, events, sessionVars>>
  /\ Busy' = Busy

(* The tick's effect, and that it does not read through a stale pointer. *)
LEMMA TickEffects ==
  ASSUME UInv, Tick
  PROVE  Ticks
<1>1. /\ TypeOK /\ Scheduling /\ pc = "timers" /\ running = NoWorker
      /\ \A n \in DOMAIN sessions_ : Alive(n)
  BY DEF UInv, IInv, Serviced, Settled, Tick, InMain
<1>2. Dead = {} /\ \A V \in Visits : V = DOMAIN sessions_
  BY <1>1 DEF Dead, Visits
<1>3. ASSUME NEW n \in Replying(DOMAIN sessions_)
      PROVE  Live(session[sessions_[n]].pFd_)
  <2>1. n \in DOMAIN sessions_ /\ sessions_[n] \in Sessions /\ session[sessions_[n]].recvBuffer_ # <<>>
    BY <1>1, <1>3 DEF Replying, TypeOK
  <2>2. Asks /\ ~ Stopped
    BY <1>1, <2>1 DEF UInv, Serviced, Calm, Stopped, Broadcasting
  <2>3. PICK w \in Receivers : local[w].pSession = sessions_[n]
    BY <2>1, <2>2 DEF UInv, Conserving, Attended
  <2>4. w \in Owners /\ Started(w) /\ session[sessions_[n]].pFd_ = local[w].pFd
    BY <2>3 DEF Receivers, Owners, UInv, Serviced, Settled
  <2> QED
    BY <1>1, <2>4, OwnerHolds
<1>4. \A V \in Visits : ~ Dangles(V)
  BY <1>2, <1>3 DEF Dangles
<1> DEFINE V == DOMAIN sessions_
<1>5. ProcMsgFunc(V) /\ UNCHANGED loopVars
  BY <1>2, <1>4 DEF Tick
<1>6. session' = [s \in Sessions |->
        IF s \in {sessions_[n] : n \in Replying(V)} THEN Answered(session[s]) ELSE session[s]]
  BY <1>5 DEF ProcMsgFunc
<1>7. sessions_' = sessions_
  <2>1. sessions_' = [n \in V |-> sessions_[n]]
    BY <1>2, <1>5 DEF ProcMsgFunc, Erased
  <2> QED
    BY <1>1, <2>1 DEF TypeOK
<1>8. ToSet(objs_') = ToSet(objs_)
  <2> DEFINE dead == Ascending({})
             given == [i \in DOMAIN dead |-> sessions_[dead[i]]]
  <2>1. objs_' = objs_ \o given
    BY <1>2, <1>5 DEF ProcMsgFunc
  <2>2. DOMAIN dead = {}
    <3>1. dead \in [1 .. Cardinality({}) -> {}] /\ Cardinality({}) = 0
      BY Walk, FS_EmptySet
    <3> QED
      BY <3>1
  <2>3. DOMAIN given = 1 .. 0
    BY <2>2
  <2> HIDE DEF given
  <2>4. given = <<>>
    <3>1. given \in [1 .. 0 -> {}]
      BY <2>2 DEF given
    <3>2. given \in Seq({})
      BY <3>1, Numbered
    <3> QED
      BY <2>3, <3>2, LenProperties, EmptySeq
  <2>5. objs_ \in Seq(Sessions)
    BY <1>1 DEF TypeOK
  <2> QED
    BY <2>1, <2>4, <2>5, ConcatEmptySeq
<1>9. /\ DOMAIN undoTasksQueue_ \subseteq DOMAIN undoTasksQueue_'
      /\ \A i \in DOMAIN undoTasksQueue_ : undoTasksQueue_'[i] = undoTasksQueue_[i]
      /\ \A i \in DOMAIN undoTasksQueue_' : i \in DOMAIN undoTasksQueue_ \/
           \E n \in Replying(V) : /\ undoTasksQueue_'[i].doFunc = "onSend"
                                  /\ undoTasksQueue_'[i].arg = sessions_[n]
  <2> DEFINE c == Cardinality(Replying(V))
             f == Ascending(Replying(V))
             len == Len(undoTasksQueue_)
  <2>1. /\ DOMAIN undoTasksQueue_' = 1 .. len + c
        /\ \A i \in 1 .. len : undoTasksQueue_'[i] = undoTasksQueue_[i]
        /\ \A i \in 1 .. c : undoTasksQueue_'[len + i] = SendTask(f[i])
    BY <1>1, <1>5, TickQueues
  <2>2. /\ Replying(V) \in SUBSET Fds /\ undoTasksQueue_ \in Seq(Task)
        /\ len \in Nat /\ DOMAIN undoTasksQueue_ = 1 .. len
    BY <1>1 DEF Replying, TypeOK
  <2>3. f \in [1 .. c -> Replying(V)] /\ c \in Nat
    BY <2>2, Walk
  <2>4. \A n : SendTask(n).doFunc = "onSend" /\ SendTask(n).arg = sessions_[n]
    BY DEF SendTask
  <2> HIDE DEF c, f, len
  <2>5. ASSUME NEW i \in 1 .. len + c, i \notin 1 .. len
        PROVE  \E n \in Replying(V) : /\ undoTasksQueue_'[i].doFunc = "onSend"
                                      /\ undoTasksQueue_'[i].arg = sessions_[n]
    <3>1. i - len \in 1 .. c /\ len + (i - len) = i
      BY <2>2, <2>3, <2>5
    <3> QED
      BY <2>1, <2>3, <2>4, <3>1
  <2>6. DOMAIN undoTasksQueue_ \subseteq DOMAIN undoTasksQueue_'
    BY <2>1, <2>2, <2>3
  <2> QED
    BY <2>1, <2>2, <2>5, <2>6
<1>10. UNCHANGED <<kernelVars, poolVars, local, danFd, loopVars>>
  BY <1>5 DEF Tick
<1>11. Busy' = Busy /\ UNCHANGED <<jobOf, running, pc, events>>
  BY <1>10 DEF poolVars, loopVars, Busy, Pool!Busy
<1> QED
  BY <1>1, <1>6, <1>7, <1>8, <1>9, <1>10, <1>11 DEF Ticks, InMain

(* The steps of the server, as far as these parts see them. *)
LEMMA NextEffects ==
  ASSUME UInv, [Next]_vars
  PROVE  \/ Quietly \/ Listens \/ Ticks
         \/ Destruct
         \/ UNCHANGED sessionVars /\ (Assign("boot", "boot-launch") \/ Assign("assign", "launch"))
         \/ UNCHANGED sessionVars /\ (PopTask("boot-pop", "boot") \/ PopTask("pop", "assign"))
         \/ pc # "killed" /\ AcceptStart
         \/ pc # "killed" /\ RecvStart
         \/ pc # "killed" /\ SendStart
         \/ Walks \/ Parks \/ Ends \/ Replies
<1>1. TypeOK /\ Scheduling /\ Passing /\ pc # "killed"
  BY DEF UInv, IInv, Serviced, Passing
<1>2. CASE CoroutineStep
  BY <1>1, <1>2, CoroutineEffects
<1>3. CASE Tick
  BY <1>3, TickEffects
<1>4. CASE RunStep /\ UNCHANGED sessionVars
  BY <1>1, <1>4, RunEffects
<1>5. ASSUME UNCHANGED <<files, interest, poolVars, local, danFd, undoTasksQueue_, sessionVars>>,
             pc' = pc \/ (pc = "start" /\ pc' = "exited"),
             UNCHANGED socket \/ PeerStep
      PROVE  Quietly
  <2>1. Busy' = Busy /\ UNCHANGED <<jobOf, running>>
    BY <1>5 DEF poolVars, Busy, Pool!Busy
  <2> QED
    BY <1>1, <1>5, <2>1 DEF Quietly, Resumes, Launching, Launched
<1>6. CASE Start
  <2>1. CASE pc' = "exited"
    <3>1. /\ UNCHANGED <<files, interest, poolVars, local, danFd, undoTasksQueue_, sessionVars, socket>>
          /\ pc = "start" /\ pc' = "exited"
      BY <1>6, <2>1 DEF Start, TcpListen, Goto, InMain
    <3> QED
      BY <1>5, <3>1
  <2>2. CASE pc' # "exited"
    <3>1. /\ InMain("start") /\ pc' = "boot" /\ Listened
          /\ AddTask([doFunc |-> "acceptFunc", arg |-> ListenFd, serves |-> Listener])
          /\ UNCHANGED <<events, socket, interest, poolVars, local, danFd, sessionVars>>
      BY <1>6, <2>2 DEF Start, TcpListen, Goto
    <3>2. Busy' = Busy /\ UNCHANGED <<jobOf, running>>
      BY <3>1 DEF poolVars, Busy, Pool!Busy
    <3> QED
      BY <3>1, <3>2 DEF Listens
  <2> QED
    BY <2>1, <2>2
<1>7. CASE PeerStep /\ UNCHANGED <<schedulerVars, sessionVars>>
  BY <1>5, <1>7 DEF PeerStep, schedulerVars, loopVars
<1>8. CASE StopApp /\ UNCHANGED sessionVars
  BY <1>5, <1>8 DEF StopApp, kernelVars, loopVars
<1>9. CASE UNCHANGED vars
  BY <1>5, <1>9 DEF vars, kernelVars, schedulerVars, loopVars
<1> QED
  BY <1>1, <1>2, <1>3, <1>4, <1>6, <1>7, <1>8, <1>9 DEF Next, Program
-----------------------------------------------------------------------------
(* Table and Exclusive. *)

(* The kernel opens a connection under one free descriptor, and closing    *)
(* one frees it. *)
LEMMA NextTable ==
  ASSUME UInv, [Next]_vars
  PROVE  Table'
<1>1. /\ TypeOK /\ Table /\ KernelCall
      /\ socket \in [Conns -> Socket] /\ files \in [Fds -> Conns \cup {Listener, Free}]
  BY KernelCalls DEF UInv, IInv, Serviced, Serving, Bound, Scheduling, TypeOK
<1>2. CASE UNCHANGED <<socket, files>>
  BY <1>1, <1>2 DEF Table
<1>3. CASE Listened /\ UNCHANGED socket
  BY <1>1, <1>3, KernelAssumption DEF Table, Listened
<1>4. ASSUME FreeFds # {}, NEW c \in Backlog, Accepted(c)
      PROVE  Table'
  <2>1. LowestFree \in Fds /\ files[LowestFree] = Free
    BY <1>4, LowestFreeIsFree DEF FreeFds
  <2>2. /\ files' = [files EXCEPT ![LowestFree] = c]
        /\ socket' = [socket EXCEPT ![c].at = "open"]
        /\ c \in Conns /\ socket[c].at = "backlog"
    BY <1>4 DEF Accepted, Backlog
  <2>3. \A n \in Fds : files[n] # c
    BY <1>1, <2>2 DEF Table
  <2>4. \A b \in Conns : socket'[b].at = IF b = c THEN "open" ELSE socket[b].at
    BY <1>1, <2>2 DEF Socket
  <2> HIDE DEF LowestFree
  <2> QED
    BY <1>1, <2>1, <2>2, <2>3, <2>4 DEF Table
<1>5. ASSUME UNCHANGED files, \A c \in Conns : socket[c].at = "open" => socket'[c].at = "open"
      PROVE  Table'
  BY <1>1, <1>5 DEF Table
<1>6. CASE \E n \in Fds : (Received(n) \/ Sent(n)) /\ UNCHANGED files
  <2>1. \A c \in Conns : socket'[c].at = socket[c].at
    BY <1>1, <1>6 DEF Received, Sent, Socket
  <2> QED
    BY <1>5, <1>6, <2>1
<1>7. CASE PeerStep
  <2>1. \A c \in Conns : socket[c].at = "open" => socket'[c].at = "open"
    BY <1>1, <1>7 DEF PeerStep, Connect, Request, Shut, Reset, Stall, Socket
  <2> QED
    BY <1>5, <1>7, <2>1 DEF PeerStep
<1>8. ASSUME NEW n \in Fds, Closed(n)
      PROVE  Table'
  <2>1. files' = [files EXCEPT ![n] = Free]
    BY <1>8 DEF Closed
  <2>2. \A c \in Conns : socket[c].at = "open" /\ files[n] # c => socket'[c].at = "open"
    BY <1>1, <1>8 DEF Closed, Backlog
  <2> QED
    BY <1>1, <2>1, <2>2, KernelAssumption DEF Table
<1> QED
  BY <1>1, <1>2, <1>3, <1>4, <1>6, <1>7, <1>8 DEF KernelCall

(* A task of an owner is for a descriptor, which is not free once it is    *)
(* the one served. *)
LEMMA TaskServes ==
  ASSUME NEW task \in Task, task.doFunc # "onSend"
  PROVE  task.arg \in Fds /\ task.serves # Free
BY KernelAssumption DEF Task, ListenFd, Fds

(* Owners and tasks may go, and no descriptor in use changes. *)
LEMMA StillExclusive ==
  ASSUME Exclusive, Owners' \subseteq Owners, \A w \in Owners' : jobOf'[w] = jobOf[w],
         \A i \in Unclaimed' : i \in Unclaimed /\ undoTasksQueue_'[i] = undoTasksQueue_[i],
         \A w \in Owners' : files'[jobOf[w].arg] = files[jobOf[w].arg],
         \A i \in Unclaimed' : files'[undoTasksQueue_[i].arg] = files[undoTasksQueue_[i].arg]
  PROVE  Exclusive'
BY DEF Exclusive

(* accept takes a free descriptor, so none that is in use. *)
LEMMA AcceptSpares ==
  ASSUME TypeOK, Exclusive, FreeFds # {}, NEW c \in Backlog, Accepted(c)
  PROVE  /\ \A w \in Owners : /\ jobOf[w].arg # LowestFree
                              /\ files'[jobOf[w].arg] = files[jobOf[w].arg]
         /\ \A i \in Unclaimed : /\ undoTasksQueue_[i].arg # LowestFree
                                 /\ files'[undoTasksQueue_[i].arg] = files[undoTasksQueue_[i].arg]
         /\ files'[LowestFree] = c /\ LowestFree \in Fds
<1>1. LowestFree \in Fds /\ files[LowestFree] = Free
  BY LowestFreeIsFree DEF FreeFds
<1>2. files \in [Fds -> Conns \cup {Listener, Free}] /\ files' = [files EXCEPT ![LowestFree] = c]
  BY DEF TypeOK, Accepted
<1>3. \A w \in Owners : /\ jobOf[w] \in Task /\ jobOf[w].doFunc # "onSend"
                        /\ files[jobOf[w].arg] = jobOf[w].serves
  BY DEF TypeOK, Owners, Exclusive
<1>4. \A i \in Unclaimed : LET task == undoTasksQueue_[i]
                           IN  /\ task \in Task /\ task.doFunc # "onSend"
                               /\ files[task.arg] = task.serves
  BY DEF TypeOK, Unclaimed, Exclusive
<1> HIDE DEF LowestFree
<1>5. \A w \in Owners : jobOf[w].arg \in Fds /\ jobOf[w].arg # LowestFree
  BY <1>1, <1>3, TaskServes
<1>6. \A i \in Unclaimed : undoTasksQueue_[i].arg \in Fds /\ undoTasksQueue_[i].arg # LowestFree
  BY <1>1, <1>4, TaskServes
<1> QED
  BY <1>1, <1>2, <1>5, <1>6

(* A queued task becomes one coroutine's, or is popped behind it; an       *)
(* accepted connection becomes one task's. *)
LEMMA NextExclusive ==
  ASSUME UInv, [Next]_vars
  PROVE  Exclusive'
<1>1. TypeOK /\ Scheduling /\ Accepting /\ Assigning /\ Exclusive /\ Passing
  BY DEF UInv, IInv, Serviced, Serving
<1>2. /\ files \in [Fds -> Conns \cup {Listener, Free}] /\ undoTasksQueue_ \in Seq(Task)
      /\ Len(undoTasksQueue_) \in Nat /\ DOMAIN undoTasksQueue_ = 1 .. Len(undoTasksQueue_)
  BY <1>1 DEF TypeOK
<1>3. ASSUME Busy' = Busy, UNCHANGED jobOf
      PROVE  Owners' = Owners
  BY <1>3 DEF Owners
<1>4. ASSUME Launching' \/ Launched' <=> Launching \/ Launched, UNCHANGED undoTasksQueue_
      PROVE  Unclaimed' = Unclaimed
  BY <1>4 DEF Unclaimed
<1>5. ASSUME UNCHANGED pc
      PROVE  Launching' \/ Launched' <=> Launching \/ Launched
  BY <1>5 DEF Launching, Launched
<1>6. CASE Quietly
  BY <1>1, <1>3, <1>4, <1>6, StillExclusive DEF Quietly
<1>7. CASE Listens
  <2>1. Busy = {} /\ undoTasksQueue_ = <<>>
    BY <1>1, <1>7 DEF Listens, InMain, Scheduling, Loop, Accepting
  <2>2. undoTasksQueue_' = <<[doFunc |-> "acceptFunc", arg |-> ListenFd, serves |-> Listener]>>
    BY <1>7, <2>1 DEF Listens, AddTask
  <2>3. Owners' = {} /\ Unclaimed' \subseteq {1}
    BY <1>7, <2>1, <2>2 DEF Listens, Owners, Unclaimed
  <2>4. files'[ListenFd] = Listener
    BY <1>2, <1>7, KernelAssumption DEF Listens, Listened, ListenFd, Fds
  <2> QED
    BY <2>2, <2>3, <2>4 DEF Exclusive
<1>8. CASE Ticks
  <2>1. Unclaimed' \subseteq Unclaimed /\ \A i \in Unclaimed' : undoTasksQueue_'[i] = undoTasksQueue_[i]
    BY <1>8 DEF Ticks, InMain, Unclaimed, Launching, Launched
  <2> QED
    BY <1>1, <1>3, <1>8, <2>1, StillExclusive DEF Ticks, kernelVars
<1>9. CASE Destruct
  <2>1. UNCHANGED <<jobOf, files, undoTasksQueue_>> /\ pc = "exited" /\ pc' = "gone"
    BY <1>9 DEF Destruct, InMain, Goto, poolVars, kernelVars
  <2>2. Busy' = Busy
    BY <2>1 DEF Busy, Pool!Busy
  <2> QED
    BY <1>1, <1>3, <1>4, <2>1, <2>2, StillExclusive DEF Launching, Launched
<1>10. CASE Assign("boot", "boot-launch") \/ Assign("assign", "launch")
  <2>1. /\ pc \in {"boot", "assign"} /\ pc' \in {"boot-launch", "launch"}
        /\ UNCHANGED <<undoTasksQueue_, files>>
        /\ 1 \in DOMAIN undoTasksQueue_ /\ undoTasksQueue_[1] \in Task
        /\ \E w \in Workers : /\ w \notin Busy /\ Busy' = Busy \cup {w}
                              /\ jobOf'[w] = undoTasksQueue_[1] /\ local'[w].at = "start"
                              /\ \A v \in Busy : jobOf'[v] = jobOf[v] /\ local'[v] = local[v]
    BY <1>1, <1>10, AssignGives
  <2>2. Unclaimed' = Unclaimed \ {1}
        /\ (undoTasksQueue_[1].doFunc # "onSend" => 1 \in Unclaimed)
    BY <2>1 DEF Unclaimed, Launching, Launched
  <2>3. PICK w : /\ Owners' \subseteq Owners \cup {w} /\ w \notin Owners
                 /\ jobOf'[w] = undoTasksQueue_[1]
                 /\ w \in Owners' => undoTasksQueue_[1].doFunc # "onSend"
                 /\ \A v \in Owners : jobOf'[v] = jobOf[v]
    BY <2>1 DEF Owners
  <2> QED
    BY <1>1, <2>1, <2>2, <2>3 DEF Exclusive
<1>11. CASE PopTask("boot-pop", "boot") \/ PopTask("pop", "assign")
  <2>1. /\ undoTasksQueue_' = Tail(undoTasksQueue_) /\ pc \in {"boot-pop", "pop"}
        /\ pc' \in {"boot", "assign"} /\ UNCHANGED <<jobOf, files>>
    BY <1>11 DEF PopTask, InMain, Goto, poolVars, kernelVars
  <2>2. undoTasksQueue_ # <<>>
    BY <1>1, <2>1 DEF Assigning, Launched
  <2>3. \A i \in DOMAIN undoTasksQueue_' :
          i + 1 \in DOMAIN undoTasksQueue_ /\ undoTasksQueue_'[i] = undoTasksQueue_[i + 1] /\ i \in Nat /\ i + 1 # 1
    BY <1>2, <2>1, <2>2
  <2>4. \A i \in Unclaimed' :
          /\ i + 1 \in Unclaimed /\ undoTasksQueue_'[i] = undoTasksQueue_[i + 1] /\ i \in Nat
    BY <2>3 DEF Unclaimed
  <2>5. Owners' = Owners
    BY <1>3, <2>1 DEF Busy, Pool!Busy
  <2>6. \A w \in Owners' : files'[jobOf'[w].arg] = jobOf'[w].serves
    BY <1>1, <2>1, <2>5 DEF Exclusive
  <2>7. \A v, w \in Owners' : jobOf'[v].arg = jobOf'[w].arg => v = w
    BY <1>1, <2>1, <2>5 DEF Exclusive
  <2>8. ASSUME NEW i \in Unclaimed'
        PROVE  /\ files'[undoTasksQueue_'[i].arg] = undoTasksQueue_'[i].serves
               /\ \A w \in Owners' : jobOf'[w].arg # undoTasksQueue_'[i].arg
               /\ \A j \in Unclaimed' : undoTasksQueue_'[j].arg = undoTasksQueue_'[i].arg => j = i
    <3>1. /\ i + 1 \in Unclaimed /\ undoTasksQueue_'[i] = undoTasksQueue_[i + 1] /\ i \in Nat
          /\ UNCHANGED <<jobOf, files>>
      BY <2>1, <2>4
    <3>2. /\ files[undoTasksQueue_[i + 1].arg] = undoTasksQueue_[i + 1].serves
          /\ \A w \in Owners : jobOf[w].arg # undoTasksQueue_[i + 1].arg
          /\ \A j \in Unclaimed : undoTasksQueue_[j].arg = undoTasksQueue_[i + 1].arg => j = i + 1
      BY <1>1, <3>1 DEF Exclusive
    <3>3. ASSUME NEW j \in Unclaimed', undoTasksQueue_'[j].arg = undoTasksQueue_'[i].arg
          PROVE  j = i
      <4>1. j + 1 \in Unclaimed /\ undoTasksQueue_'[j] = undoTasksQueue_[j + 1] /\ j \in Nat
        BY <2>4
      <4>2. j + 1 = i + 1
        BY <3>1, <3>2, <3>3, <4>1
      <4> QED
        BY <3>1, <4>1, <4>2
    <3> QED
      BY <2>5, <3>1, <3>2, <3>3
  <2> QED
    BY <2>6, <2>7, <2>8 DEF Exclusive
<1>12. CASE AcceptStart \/ RecvStart \/ SendStart
  <2>1. UNCHANGED <<jobOf, files, undoTasksQueue_, pc>>
    BY <1>12 DEF AcceptStart, RecvStart, SendStart, poolVars, kernelVars, loopVars
  <2>2. Busy' = Busy
    BY <2>1 DEF Busy, Pool!Busy
  <2> QED
    BY <1>1, <1>3, <1>4, <1>5, <2>1, <2>2, StillExclusive
<1>13. CASE Walks
  <2>1. Owners' = Owners /\ UNCHANGED <<jobOf, pc>>
    BY <1>3, <1>13 DEF Walks
  <2>2. CASE UNCHANGED <<files, undoTasksQueue_>>
    BY <1>1, <1>4, <1>5, <2>1, <2>2, StillExclusive
  <2>3. ASSUME FreeFds # {}, NEW c \in Backlog, Accepted(c),
               AddTask([doFunc |-> "recvMsgFunc", arg |-> LowestFree, serves |-> c])
        PROVE  Exclusive'
    <3> DEFINE k == Len(undoTasksQueue_) + 1
    <3>1. /\ \A w \in Owners : jobOf[w].arg # LowestFree /\ files'[jobOf[w].arg] = files[jobOf[w].arg]
          /\ \A i \in Unclaimed : /\ undoTasksQueue_[i].arg # LowestFree
                                  /\ files'[undoTasksQueue_[i].arg] = files[undoTasksQueue_[i].arg]
          /\ files'[LowestFree] = c
      BY <1>1, <2>3, AcceptSpares
    <3> HIDE DEF LowestFree
    <3>2. /\ DOMAIN undoTasksQueue_' = 1 .. k
          /\ \A i \in DOMAIN undoTasksQueue_ : i # k /\ undoTasksQueue_'[i] = undoTasksQueue_[i]
          /\ undoTasksQueue_'[k].arg = LowestFree /\ undoTasksQueue_'[k].serves = c
          /\ \A i \in 1 .. k : i = k \/ i \in DOMAIN undoTasksQueue_
      BY <1>2, <2>3 DEF AddTask
    <3>3. \A i \in Unclaimed' : i = k \/ i \in Unclaimed
      BY <1>5, <2>1, <3>2 DEF Unclaimed
    <3>4. \A i \in Unclaimed : i # k /\ undoTasksQueue_'[i] = undoTasksQueue_[i]
      BY <3>2 DEF Unclaimed
    <3> HIDE DEF k
    <3> QED
      BY <1>1, <2>1, <3>1, <3>2, <3>3, <3>4 DEF Exclusive
  <2> QED
    BY <1>13, <2>2, <2>3 DEF Walks
<1>14. CASE Parks
  <2>1. Owners' = Owners /\ Unclaimed' = Unclaimed /\ UNCHANGED <<jobOf, undoTasksQueue_>>
    BY <1>3, <1>4, <1>5, <1>14 DEF Parks
  <2>2. \/ UNCHANGED files
        \/ FreeFds # {} /\ \E c \in Backlog : Accepted(c)
    BY <1>14 DEF Parks
  <2> QED
    BY <1>1, <2>1, <2>2, AcceptSpares, StillExclusive
<1>15. CASE Ends
  <2>1. /\ Owners' = Owners \ {running} /\ running \in Owners
        /\ \A w \in Owners' : jobOf'[w] = jobOf[w]
        /\ UNCHANGED undoTasksQueue_ /\ Unclaimed' = Unclaimed
    BY <1>4, <1>5, <1>15 DEF Ends, Owners
  <2>2. files' = [files EXCEPT ![jobOf[running].arg] = Free]
    BY <1>15 DEF Ends, Closed
  <2>3. /\ \A w \in Owners' : files'[jobOf[w].arg] = files[jobOf[w].arg]
        /\ \A i \in Unclaimed' : files'[undoTasksQueue_[i].arg] = files[undoTasksQueue_[i].arg]
    BY <1>1, <1>2, <2>1, <2>2 DEF Exclusive
  <2> QED
    BY <1>1, <2>1, <2>3, StillExclusive
<1>16. CASE Replies
  <2>1. UNCHANGED <<files, undoTasksQueue_, pc>> /\ Pool!Finish
    BY <1>16 DEF Replies, SendEnd, loopVars
  <2>2. Owners' \subseteq Owners /\ \A w \in Owners' : jobOf'[w] = jobOf[w]
    BY <2>1 DEF Owners, Pool!Finish, Busy, Pool!Busy
  <2> QED
    BY <1>1, <1>4, <1>5, <2>1, <2>2, StillExclusive
<1> QED
  BY <1>6, <1>7, <1>8, <1>9, <1>10, <1>11, <1>12, <1>13, <1>14, <1>15, <1>16, NextEffects
-----------------------------------------------------------------------------
(* Reachable. *)

(* Coroutines may end or be switched to, epoll and the danFd_t's stay. *)
LEMMA StillReachable ==
  ASSUME Reachable, running' = running \/ running \notin Owners,
         Owners' \subseteq Owners, UNCHANGED interest,
         \A w \in Owners' \ {running} : jobOf'[w] = jobOf[w] /\ local'[w] = local[w],
         \A w \in Owners' \ {running} : Started(w) =>
           danFd'[local[w].pFd].lightThreadId = danFd[local[w].pFd].lightThreadId
  PROVE  Reachable'
BY DEF Reachable, Started

(* Epoll has nobody's descriptor but a parked coroutine's. *)
LEMMA ParkerUnregistered ==
  ASSUME TypeOK, Scheduling, Exclusive, Passing,
         NEW w \in Owners, Started(w), local[w].at \notin WokenAt
  PROVE  jobOf[w].arg \notin DOMAIN interest
<1> SUFFICES ASSUME jobOf[w].arg \in DOMAIN interest PROVE FALSE
  OBVIOUS
<1> DEFINE d == interest[jobOf[w].arg].ptr
           v == danFd[d].lightThreadId
<1>1. /\ danFd[d].fd = jobOf[w].arg /\ v \in Busy
      /\ local[v].at \in WokenAt /\ local[v].pFd = d
  BY RegisteredIsLive DEF Scheduling, Registered, Named
<1>2. v \in Owners /\ Started(v)
  BY <1>1 DEF Passing, Owners, Started, WokenAt
<1>3. jobOf[v].arg = jobOf[w].arg
  BY <1>1, <1>2, OwnerHolds
<1> QED
  BY <1>1, <1>2, <1>3 DEF Exclusive

(* A coroutine registers its descriptor as it parks, and only its own is   *)
(* ever taken out. *)
LEMMA NextReachable ==
  ASSUME UInv, [Next]_vars
  PROVE  Reachable'
<1>1. /\ TypeOK /\ Scheduling /\ Exclusive /\ Passing /\ Reachable
      /\ danFd \in [DanFds -> DanFd] /\ local \in [Workers -> Local] /\ Busy \subseteq Workers
      /\ running \in Owners => running \in Busy
      /\ NoWorker \notin Busy
  BY SchedulerAssumption DEF UInv, IInv, Serviced, TypeOK, Owners, Workers
<1>2. ASSUME Busy' = Busy, UNCHANGED jobOf
      PROVE  Owners' = Owners
  BY <1>2 DEF Owners
<1>3. ASSUME NEW w \in Owners, Started(w)
      PROVE  local[w].pFd \in DanFds /\ Live(local[w].pFd)
  BY <1>1, <1>3, OwnerHolds
<1>4. running = NoWorker => running \notin Owners
  BY <1>1
<1>5. CASE Quietly
  <2>1. /\ UNCHANGED <<interest, jobOf, local>> /\ Owners' = Owners
        /\ \A d \in DanFds : danFd'[d].lightThreadId = danFd[d].lightThreadId
        /\ (running' = running \/ running = NoWorker)
    BY <1>2, <1>5 DEF Quietly, Resumes
  <2>2. running' = running \/ running \notin Owners
    BY <1>4, <2>1
  <2>3. \A w \in Owners : Started(w) =>
          danFd'[local[w].pFd].lightThreadId = danFd[local[w].pFd].lightThreadId
    BY <1>3, <2>1
  <2> QED
    BY <1>1, <2>1, <2>2, <2>3, StillReachable
<1>6. CASE Listens \/ Ticks
  <2>1. UNCHANGED <<interest, jobOf, local, danFd, running>> /\ Owners' = Owners
    BY <1>2, <1>6 DEF Listens, Ticks, kernelVars
  <2> QED
    BY <1>1, <2>1, StillReachable
<1>7. CASE Destruct \/ PopTask("boot-pop", "boot") \/ PopTask("pop", "assign")
  <2>1. UNCHANGED <<interest, jobOf, local, danFd, running>>
    BY <1>7 DEF Destruct, PopTask, poolVars, kernelVars
  <2>2. Busy' = Busy
    BY <2>1 DEF Busy, Pool!Busy
  <2> QED
    BY <1>1, <1>2, <2>1, <2>2, StillReachable
<1>8. CASE Assign("boot", "boot-launch") \/ Assign("assign", "launch")
  <2>1. UNCHANGED <<interest, danFd>> /\ running = NoWorker /\ UNCHANGED running
    BY <1>8 DEF Assign, InMain, kernelVars, Pool!Submit
  <2>2. PICK w \in Workers : /\ w \notin Busy /\ Busy' = Busy \cup {w} /\ local'[w].at = "start"
                             /\ \A v \in Busy : jobOf'[v] = jobOf[v] /\ local'[v] = local[v]
    BY <1>1, <1>8, AssignGives
  <2>3. \A v \in Busy' : v = w \/ (v \in Busy /\ jobOf'[v] = jobOf[v] /\ local'[v] = local[v])
    BY <2>2
  <2>4. \A v \in Owners' : v = w \/ (v \in Owners /\ jobOf'[v] = jobOf[v] /\ local'[v] = local[v])
    BY <2>3 DEF Owners
  <2> QED
    BY <1>1, <2>1, <2>2, <2>4 DEF Reachable, Started
<1>9. CASE AcceptStart \/ RecvStart \/ SendStart
  <2>1. UNCHANGED <<interest, jobOf, running>>
    BY <1>9 DEF AcceptStart, RecvStart, SendStart, kernelVars, poolVars
  <2>2. Busy' = Busy
    BY <2>1 DEF Busy, Pool!Busy
  <2>3. \A w \in Owners \ {running} : local'[w] = local[w]
    BY <1>1, <1>9 DEF AcceptStart, RecvStart, SendStart, Owners
  <2>4. UNCHANGED danFd \/ \E d \in DanFds : \E n : CreateFd(d, n)
    BY <1>9 DEF AcceptStart, RecvStart, SendStart
  <2>5. ASSUME NEW d \in DanFds, NEW n, CreateFd(d, n)
        PROVE  ~ Live(d) /\ \A e \in DanFds \ {d} : danFd'[e] = danFd[e]
    BY <1>1, <2>5 DEF CreateFd, Allocatable, Untouched, Live
  <2>6. \A w \in Owners : Started(w) =>
          danFd'[local[w].pFd].lightThreadId = danFd[local[w].pFd].lightThreadId
    BY <1>3, <2>4, <2>5
  <2> QED
    BY <1>1, <1>2, <2>1, <2>2, <2>3, <2>6, StillReachable
<1>10. ASSUME running \in Owners, NEW v \in Owners \ {running}
       PROVE  jobOf[v].arg # jobOf[running].arg
  BY <1>1, <1>10 DEF Exclusive
<1>11. CASE Walks
  <2>1. /\ UNCHANGED <<jobOf, running, danFd>> /\ Owners' = Owners /\ running \in Owners
        /\ \A w \in Owners \ {running} : local'[w] = local[w]
    BY <1>1, <1>2, <1>11 DEF Walks, Owners
  <2>2. interest' = interest \/ EpollDel(jobOf[running].arg)
    BY <1>11 DEF Walks
  <2> QED
    BY <1>1, <1>10, <2>1, <2>2 DEF Reachable, Started, EpollDel
<1>12. CASE Parks
  <2> DEFINE n == jobOf[running].arg
             d == local[running].pFd
  <2>1. /\ running \in Owners /\ Started(running) /\ local[running].at \notin WokenAt
        /\ UNCHANGED jobOf /\ Owners' = Owners /\ running' = NoWorker
        /\ danFd' = [danFd EXCEPT ![d].lightThreadId = running, ![d].waitingEvents = "IN"]
        /\ EpollAdd(n, d, "IN")
    BY <1>2, <1>12 DEF Parks
  <2>2. /\ \A w \in Owners \ {running} : local'[w] = local[w]
        /\ local'[running].pFd = d
    <3>1. PICK place : local' = [local EXCEPT ![running].at = place]
      BY <1>12 DEF Parks
    <3> QED
      BY <1>1, <2>1, <3>1 DEF Owners, Local
  <2>3. n \notin DOMAIN interest /\ files[n] # Free
    <3>1. jobOf[running] \in Task /\ jobOf[running].doFunc # "onSend" /\ files[n] = jobOf[running].serves
      BY <1>1, <2>1 DEF TypeOK, Owners, Exclusive
    <3> QED
      BY <1>1, <2>1, <3>1, ParkerUnregistered, TaskServes
  <2>4. interest' = [m \in DOMAIN interest \cup {n} |->
                       IF m = n THEN [ptr |-> d, events |-> "IN"] ELSE interest[m]]
    BY <2>1, <2>3 DEF EpollAdd
  <2>5. d \in DanFds /\ danFd'[d].lightThreadId = running
        /\ \A e \in DanFds \ {d} : danFd'[e] = danFd[e]
    BY <1>1, <1>3, <2>1 DEF DanFd
  <2>6. \A w \in Owners \ {running} : Started(w) => local[w].pFd \in DanFds \ {d}
    BY <1>1, <1>3, <2>1 DEF Scheduling, Owned, Owner, Owners
  <2> HIDE DEF n, d
  <2>7. ASSUME NEW w \in Owners \ {running}, Started(w)
        PROVE  /\ danFd'[local[w].pFd].lightThreadId = w
               /\ jobOf[w].arg \in DOMAIN interest'
               /\ interest'[jobOf[w].arg].ptr = local[w].pFd
    <3>1. jobOf[w].arg # n
      BY <1>10, <2>1 DEF n
    <3> QED
      BY <1>1, <2>4, <2>5, <2>6, <2>7, <3>1 DEF Reachable
  <2>8. \A m \in DOMAIN interest' : interest'[m].events = "IN"
    BY <1>1, <2>4 DEF Reachable
  <2>9. n \in DOMAIN interest' /\ interest'[n].ptr = d
    BY <2>4
  <2>10. ASSUME NEW w \in Owners', Started(w)'
         PROVE  /\ danFd'[local'[w].pFd].lightThreadId = w
                /\ jobOf'[w].arg \in DOMAIN interest'
                /\ interest'[jobOf'[w].arg].ptr = local'[w].pFd
    <3>1. CASE w = running
      BY <2>1, <2>2, <2>5, <2>9, <3>1 DEF n
    <3>2. CASE w # running
      BY <2>1, <2>2, <2>7, <2>10, <3>2 DEF Started
    <3> QED
      BY <3>1, <3>2
  <2> QED
    BY <2>8, <2>10 DEF Reachable
<1>13. CASE Ends
  <2>1. /\ running \in Owners /\ Owners' = Owners \ {running}
        /\ \A w \in Owners' : jobOf'[w] = jobOf[w] /\ local'[w] = local[w]
    BY <1>1, <1>13 DEF Ends, Owners
  <2>2. \A d \in DanFds : danFd'[d].lightThreadId = danFd[d].lightThreadId
    BY <1>1, <1>13 DEF Ends, DanFd
  <2>3. interest' = [m \in DOMAIN interest \ {jobOf[running].arg} |-> interest[m]]
    BY <1>13 DEF Ends, Closed
  <2> QED
    BY <1>1, <1>3, <1>10, <2>1, <2>2, <2>3 DEF Reachable, Started
<1>14. CASE Replies
  <2>1. UNCHANGED <<interest, danFd>> /\ Pool!Finish /\ running \notin Owners
        /\ local' = [local EXCEPT ![running] = Fresh]
    BY <1>14 DEF Replies, SendEnd, Runs, Owners
  <2>2. Owners' \subseteq Owners \ {running} /\ \A w \in Owners' : jobOf'[w] = jobOf[w]
    BY <2>1 DEF Owners, Pool!Finish, Busy, Pool!Busy
  <2>3. \A w \in Owners' : local'[w] = local[w]
    BY <1>1, <2>1, <2>2 DEF Owners
  <2> QED
    BY <1>1, <2>1, <2>2, <2>3, StillReachable
<1> QED
  BY <1>5, <1>6, <1>7, <1>8, <1>9, <1>11, <1>12, <1>13, <1>14, NextEffects
-----------------------------------------------------------------------------
(* Calm. *)

(* A task is appended behind the others. *)
LEMMA Added ==
  ASSUME TypeOK, NEW STATE task, AddTask(task)
  PROVE  Queue' = Queue \cup {task}
<1> DEFINE len == Len(undoTasksQueue_)
<1>1. /\ undoTasksQueue_ \in Seq(Task) /\ len \in Nat /\ DOMAIN undoTasksQueue_ = 1 .. len
      /\ undoTasksQueue_' = Append(undoTasksQueue_, task)
  BY DEF TypeOK, AddTask
<1>2. /\ DOMAIN undoTasksQueue_' = 1 .. len + 1
      /\ \A i \in 1 .. len : undoTasksQueue_'[i] = undoTasksQueue_[i]
      /\ undoTasksQueue_'[len + 1] = task
  BY <1>1
<1> HIDE DEF len
<1> QED
  BY <1>1, <1>2 DEF Queue

(* What is left of the queue was in it. *)
LEMMA Popped ==
  ASSUME TypeOK, undoTasksQueue_ # <<>>, undoTasksQueue_' = Tail(undoTasksQueue_)
  PROVE  Queue' \subseteq Queue
<1>1. undoTasksQueue_ \in Seq(Task)
  BY DEF TypeOK
<1>2. \A i \in DOMAIN undoTasksQueue_' :
        i + 1 \in DOMAIN undoTasksQueue_ /\ undoTasksQueue_'[i] = undoTasksQueue_[i + 1]
  BY <1>1
<1> QED
  BY <1>2 DEF Queue

(* Only the tick makes a task to send something. *)
LEMMA TasksFrom ==
  ASSUME UInv, [Next]_vars
  PROVE  \A task \in Tasks' :
           \/ task \in Tasks
           \/ task.doFunc # "onSend"
           \/ Ticks /\ \E n \in Replying(DOMAIN sessions_) : task.arg = sessions_[n]
<1>1. TypeOK /\ Assigning
  BY DEF UInv, IInv, Serving
<1>2. ASSUME Queue' \subseteq Queue, Busy' \subseteq Busy, \A w \in Busy' : jobOf'[w] = jobOf[w]
      PROVE  Tasks' \subseteq Tasks
  BY <1>2 DEF Tasks
<1>3. ASSUME NEW STATE task, AddTask(task), Busy' = Busy, UNCHANGED jobOf
      PROVE  Tasks' = Tasks \cup {task}
  <2>1. Queue' = Queue \cup {task}
    BY <1>1, <1>3, Added
  <2> QED
    BY <1>3, <2>1 DEF Tasks
<1>4. UNCHANGED undoTasksQueue_ => Queue' = Queue
  BY DEF Queue
<1>5. CASE Quietly \/ Parks \/ Ends
  BY <1>2, <1>4, <1>5 DEF Quietly, Parks, Ends
<1>6. CASE Listens
  BY <1>3, <1>6 DEF Listens
<1>7. CASE Ticks
  <2>1. Busy' = Busy /\ UNCHANGED jobOf
    BY <1>7 DEF Ticks
  <2>2. \A task \in Queue' : task \in Queue \/ \E n \in Replying(DOMAIN sessions_) : task.arg = sessions_[n]
    BY <1>7 DEF Ticks, Queue
  <2> QED
    BY <1>7, <2>1, <2>2 DEF Tasks
<1>8. CASE Destruct \/ AcceptStart \/ RecvStart \/ SendStart
  <2>1. UNCHANGED <<jobOf, undoTasksQueue_>>
    BY <1>8 DEF Destruct, AcceptStart, RecvStart, SendStart, poolVars
  <2>2. Busy' = Busy
    BY <2>1 DEF Busy, Pool!Busy
  <2> QED
    BY <1>2, <1>4, <2>1, <2>2
<1>9. CASE Assign("boot", "boot-launch") \/ Assign("assign", "launch")
  <2>1. /\ UNCHANGED undoTasksQueue_ /\ 1 \in DOMAIN undoTasksQueue_
        /\ \E w \in Workers : /\ w \notin Busy /\ Busy' = Busy \cup {w}
                              /\ jobOf'[w] = undoTasksQueue_[1]
                              /\ \A v \in Busy : jobOf'[v] = jobOf[v]
    BY <1>1, <1>9, AssignGives
  <2> QED
    BY <1>4, <2>1 DEF Tasks, Queue
<1>10. CASE PopTask("boot-pop", "boot") \/ PopTask("pop", "assign")
  <2>1. UNCHANGED jobOf /\ undoTasksQueue_' = Tail(undoTasksQueue_) /\ Launched
    BY <1>10 DEF PopTask, poolVars, InMain, Launched
  <2>2. Busy' = Busy
    BY <2>1 DEF Busy, Pool!Busy
  <2> QED
    BY <1>1, <1>2, <2>1, <2>2, Popped DEF Assigning
<1>11. CASE Walks
  <2>1. Busy' = Busy /\ UNCHANGED jobOf
    BY <1>11 DEF Walks
  <2>2. \/ UNCHANGED undoTasksQueue_
        \/ \E c \in Conns : AddTask([doFunc |-> "recvMsgFunc", arg |-> LowestFree, serves |-> c])
    BY <1>11 DEF Walks, Backlog
  <2>3. ASSUME NEW c \in Conns,
               AddTask([doFunc |-> "recvMsgFunc", arg |-> LowestFree, serves |-> c])
        PROVE  \A task \in Tasks' : task \in Tasks \/ task.doFunc # "onSend"
    <3> DEFINE task == [doFunc |-> "recvMsgFunc", arg |-> LowestFree, serves |-> c]
    <3>1. task.doFunc # "onSend"
      OBVIOUS
    <3> HIDE DEF task
    <3>2. Tasks' = Tasks \cup {task}
      BY <1>3, <2>1, <2>3 DEF task
    <3> QED
      BY <3>1, <3>2
  <2> QED
    BY <1>2, <1>4, <2>1, <2>2, <2>3
<1>12. CASE Replies
  <2>1. UNCHANGED undoTasksQueue_ /\ Pool!Finish
    BY <1>12 DEF Replies, SendEnd
  <2>2. Busy' \subseteq Busy /\ \A w \in Busy' : jobOf'[w] = jobOf[w]
    BY <2>1 DEF Pool!Finish, Busy, Pool!Busy
  <2> QED
    BY <1>2, <1>4, <2>1, <2>2
<1> QED
  BY <1>5, <1>6, <1>7, <1>8, <1>9, <1>10, <1>11, <1>12, NextEffects

(* Who does not ask gets no reply; who stays connected and reads is not    *)
(* in trouble. *)
LEMMA NextCalm ==
  ASSUME Untroubled, UInv, [Next]_vars
  PROVE  Calm'
<1>1. /\ TypeOK /\ Scheduling /\ Bound /\ Calm /\ session \in [Sessions -> Session]
      /\ KernelCall /\ socket \in [Conns -> Socket]
  BY KernelCalls DEF UInv, IInv, Serviced, Serving, Bound, Scheduling, TypeOK
<1>2. CASE Asks
  <2>1. \A c \in Conns : ~ socket[c].shut /\ ~ socket[c].broken /\ ~ socket[c].full
    BY <1>1, <1>2 DEF Calm
  <2>2. ASSUME \A c \in Conns : /\ socket'[c].shut = socket[c].shut
                                /\ socket'[c].broken = socket[c].broken
                                /\ socket'[c].full = socket[c].full
        PROVE  Calm'
    BY <1>2, <2>1, <2>2 DEF Calm
  <2>3. CASE UNCHANGED socket
    BY <2>2, <2>3
  <2>4. CASE \E c \in Backlog : Accepted(c)
    BY <1>1, <2>2, <2>4 DEF Accepted, Socket
  <2>5. CASE \E n \in Fds : Received(n) \/ Sent(n)
    BY <1>1, <2>2, <2>5 DEF Received, Sent, Socket
  <2>6. CASE \E n \in Fds : Closed(n)
    BY <1>1, <2>2, <2>6 DEF Closed, Socket
  <2>7. CASE PeerStep
    <3>1. \E c \in Conns : Connect(c) \/ Request(c)
      BY <1>2, <2>7 DEF Untroubled, PeersStay, PeerStep, Shut, Reset, Stall
    <3> QED
      BY <1>1, <2>2, <3>1 DEF Connect, Request, Socket
  <2> QED
    BY <1>1, <2>3, <2>4, <2>5, <2>6, <2>7 DEF KernelCall
<1>3. CASE ~ Asks
  <2>1. /\ \A s \in Sessions : session[s].recvBuffer_ = <<>>
        /\ \A task \in Tasks : task.doFunc # "onSend"
    BY <1>1, <1>3 DEF Calm
  <2>2. Replying(DOMAIN sessions_) = {}
    BY <1>1, <2>1 DEF Replying, TypeOK
  <2>3. \A task \in Tasks' : task.doFunc # "onSend"
    BY <2>1, <2>2, TasksFrom
  <2>4. \A s \in Sessions : session'[s].recvBuffer_ = session[s].recvBuffer_
    <3>1. CASE UNCHANGED sessionVars \/ Quietly \/ Listens \/ Parks \/ Ends
      BY <3>1 DEF sessionVars, Quietly, Listens, Parks, Ends
    <3>2. CASE Ticks
      BY <2>2, <3>2 DEF Ticks
    <3>3. CASE RecvStart
      <4>1. \E s, d : Bind(s, d)
        BY <3>3 DEF RecvStart
      <4> QED
        BY <1>1, <4>1 DEF Bind, Session
    <3>4. CASE Destruct \/ AcceptStart \/ SendStart
      BY <3>4 DEF Destruct, AcceptStart, SendStart, sessionVars
    <3>5. CASE Walks
      BY <1>3, <3>5 DEF Walks
    <3>6. CASE Replies
      <4>1. SendEnd(TRUE)
        BY <3>6 DEF Replies
      <4> QED
        BY <1>1, <4>1 DEF SendEnd, Session
    <3> QED
      BY <3>1, <3>2, <3>3, <3>4, <3>5, <3>6, NextEffects
  <2> QED
    BY <1>3, <2>1, <2>3, <2>4 DEF Calm
<1> QED
  BY <1>2, <1>3
-----------------------------------------------------------------------------
(* Passing. *)

(* There is one sender at a time, from its launch to its end. *)
LEMMA OneSender ==
  ASSUME TypeOK, Scheduling, Passing, NEW w \in Busy, jobOf[w].doFunc = "onSend"
  PROVE  \/ w = running /\ Launched
         \/ running = NoWorker /\ Launching /\ local[w].at = "start"
<1>1. local[w].at \in {"start", "send"} /\ (Launching \/ Launched) /\ NoWorker \notin Busy
  BY SchedulerAssumption DEF Passing, TypeOK, Workers
<1>2. w = running \/ ~ Started(w)
  BY <1>1 DEF Scheduling, Placed, WokenAt
<1>3. ~ Started(w) => \/ Launching /\ running = NoWorker
                      \/ Launched /\ running = w
  BY DEF Scheduling, Placed
<1>4. running # NoWorker => Launched
  BY <1>1 DEF Scheduling, Placed, Launching, Launched, Broadcasting
<1> QED
  BY <1>1, <1>2, <1>3, <1>4 DEF Started

(* It sends without a switch. *)
LEMMA NextPassing ==
  ASSUME UInv, [Next]_vars
  PROVE  Passing'
<1>1. /\ TypeOK /\ Scheduling /\ Passing /\ Assigning /\ local \in [Workers -> Local]
      /\ Busy \subseteq Workers /\ NoWorker \notin Busy
  BY SchedulerAssumption DEF UInv, IInv, Serviced, Serving, TypeOK, Workers
<1>2. ASSUME pc' # "killed", Busy' \subseteq Busy, \A w \in Busy' : jobOf'[w] = jobOf[w],
             \A w \in Busy' : jobOf[w].doFunc # "onSend"
      PROVE  Passing'
  BY <1>2 DEF Passing
<1>3. running \in Owners => \A w \in Busy : jobOf[w].doFunc # "onSend"
  BY <1>1, OneSender DEF Owners
<1>4. CASE Quietly
  BY <1>1, <1>4 DEF Quietly, Passing, sessionVars
<1>5. CASE Listens \/ Ticks
  <2>1. Busy' = Busy /\ UNCHANGED jobOf /\ pc' # "killed" /\ ~ Launching /\ ~ Launched
    BY <1>1, <1>5 DEF Listens, Ticks, InMain, Passing, Launching, Launched
  <2> QED
    BY <1>1, <1>2, <2>1 DEF Passing
<1>6. CASE Destruct
  <2>1. UNCHANGED jobOf /\ pc' = "gone" /\ ~ Launching /\ ~ Launched
    BY <1>6 DEF Destruct, InMain, Goto, poolVars, Launching, Launched
  <2>2. Busy' = Busy
    BY <2>1 DEF Busy, Pool!Busy
  <2> QED
    BY <1>1, <1>2, <2>1, <2>2 DEF Passing
<1>7. CASE Assign("boot", "boot-launch") \/ Assign("assign", "launch")
  <2>1. /\ pc' \in {"boot-launch", "launch"} /\ ~ Launching /\ ~ Launched
        /\ \E w \in Workers : /\ Busy' = Busy \cup {w} /\ local'[w].at = "start"
                              /\ \A v \in Busy : jobOf'[v] = jobOf[v] /\ local'[v] = local[v]
    BY <1>1, <1>7, AssignGives DEF Launching, Launched
  <2>2. \A w \in Busy : jobOf[w].doFunc # "onSend"
    BY <1>1, <2>1 DEF Passing
  <2> QED
    BY <2>1, <2>2 DEF Passing, Launching
<1>8. CASE PopTask("boot-pop", "boot") \/ PopTask("pop", "assign")
  <2>1. UNCHANGED jobOf /\ pc' # "killed" /\ ~ Launching /\ running = NoWorker
    BY <1>8 DEF PopTask, InMain, Goto, poolVars, Launching
  <2>2. Busy' = Busy
    BY <2>1 DEF Busy, Pool!Busy
  <2> QED
    BY <1>1, <1>2, <2>1, <2>2, OneSender
<1>9. CASE AcceptStart \/ RecvStart
  <2>1. UNCHANGED <<jobOf, pc>> /\ running \in Owners
    BY <1>9 DEF AcceptStart, RecvStart, Runs, Owners, poolVars, loopVars
  <2>2. Busy' = Busy
    BY <2>1 DEF Busy, Pool!Busy
  <2> QED
    BY <1>1, <1>2, <1>3, <2>1, <2>2 DEF Passing
<1>10. CASE SendStart
  <2>1. /\ UNCHANGED <<jobOf, pc, session>> /\ running \in Busy /\ running # NoWorker
        /\ local'[running].at = "send" /\ local'[running].pFd = session[jobOf[running].arg].pFd_
    BY <1>1, <1>10 DEF SendStart, Runs, poolVars, loopVars, sessionVars, boundFd, bound
  <2>2. Busy' = Busy
    BY <2>1 DEF Busy, Pool!Busy
  <2>3. \A w \in Busy : jobOf[w].doFunc = "onSend" => w = running /\ Launched
    BY <1>1, <2>1, OneSender
  <2> QED
    BY <1>1, <2>1, <2>2, <2>3 DEF Passing, Launched
<1>11. CASE Walks \/ Parks \/ Ends
  <2>1. /\ running \in Owners /\ Busy' \subseteq Busy /\ \A w \in Busy' : jobOf'[w] = jobOf[w]
        /\ UNCHANGED pc
    BY <1>11 DEF Walks, Parks, Ends
  <2> QED
    BY <1>1, <1>2, <1>3, <2>1 DEF Passing
<1>12. CASE Replies
  <2>1. Pool!Finish /\ UNCHANGED pc /\ running \in Busy
    BY <1>12 DEF Replies, SendEnd, loopVars, Runs
  <2>2. Busy' = Busy \ {running} /\ \A w \in Busy' : jobOf'[w] = jobOf[w]
    BY <2>1 DEF Pool!Finish, Busy, Pool!Busy
  <2>3. \A w \in Busy' : jobOf[w].doFunc # "onSend"
    BY <1>1, <2>1, <2>2, OneSender
  <2> QED
    BY <1>1, <1>2, <2>1, <2>2, <2>3 DEF Passing
<1> QED
  BY <1>4, <1>5, <1>6, <1>7, <1>8, <1>9, <1>10, <1>11, <1>12, NextEffects
-----------------------------------------------------------------------------
(* Settled. *)

(* The coroutine that runs goes on elsewhere: the receivers stay the same. *)
LEMMA Replaced ==
  ASSUME TypeOK, NEW w \in Busy, Started(w), NEW place, place # "start",
         local' = [local EXCEPT ![w].at = place]
  PROVE  \A v \in Busy : /\ Started(v)' <=> Started(v)
                         /\ local'[v].pSession = local[v].pSession /\ local'[v].pFd = local[v].pFd
                         /\ local'[v].pSendMsg = local[v].pSendMsg
                         /\ v # w => local'[v] = local[v]
                         /\ v = w => local'[v].at = place
<1>1. local \in [Workers -> Local] /\ Busy \subseteq Workers
  BY DEF TypeOK
<1> QED
  BY <1>1 DEF Local, Started

(* Receivers come and go, and are bound to one session in between. *)
LEMMA ReceiverSteps ==
  ASSUME UInv, [Next]_vars
  PROVE  /\ \A w \in Receivers \cap Receivers' :
              /\ jobOf'[w] = jobOf[w]
              /\ local'[w].pSession = local[w].pSession /\ local'[w].pFd = local[w].pFd
         /\ \/ Receivers' = Receivers
            \/ RecvStart /\ Receivers' = Receivers \cup {running} /\ running \notin Receivers
            \/ Ends /\ Receivers' = Receivers \ {running}
<1>1. TypeOK /\ local \in [Workers -> Local] /\ Busy \subseteq Workers
  BY DEF UInv, IInv, TypeOK
<1>2. ASSUME Busy' = Busy, UNCHANGED jobOf,
             \A w \in Busy : /\ Started(w)' <=> Started(w)
                             /\ local'[w].pSession = local[w].pSession /\ local'[w].pFd = local[w].pFd
      PROVE  /\ Receivers' = Receivers
             /\ \A w \in Receivers : /\ jobOf'[w] = jobOf[w] /\ local'[w].pFd = local[w].pFd
                                     /\ local'[w].pSession = local[w].pSession
  BY <1>2 DEF Receivers
<1>3. CASE Quietly \/ Listens \/ Ticks
  BY <1>2, <1>3 DEF Quietly, Listens, Ticks, Started
<1>4. CASE Destruct \/ PopTask("boot-pop", "boot") \/ PopTask("pop", "assign")
  <2>1. UNCHANGED <<jobOf, local>>
    BY <1>4 DEF Destruct, PopTask, poolVars
  <2>2. Busy' = Busy
    BY <2>1 DEF Busy, Pool!Busy
  <2> QED
    BY <1>2, <2>1, <2>2 DEF Started
<1>5. CASE Assign("boot", "boot-launch") \/ Assign("assign", "launch")
  <2>1. \E w \in Workers : /\ w \notin Busy /\ Busy' = Busy \cup {w} /\ local'[w].at = "start"
                           /\ \A v \in Busy : jobOf'[v] = jobOf[v] /\ local'[v] = local[v]
    BY <1>1, <1>5, AssignGives
  <2> QED
    BY <2>1 DEF Receivers, Started
<1>6. CASE AcceptStart \/ SendStart \/ RecvStart
  <2>1. /\ UNCHANGED jobOf /\ running \in Busy /\ ~ Started(running)
        /\ \A w \in Busy \ {running} : local'[w] = local[w]
    BY <1>1, <1>6 DEF AcceptStart, SendStart, RecvStart, Runs, At, me, poolVars, Started
  <2>2. Busy' = Busy
    BY <2>1 DEF Busy, Pool!Busy
  <2>3. CASE RecvStart
    <3>1. jobOf[running].doFunc = "recvMsgFunc" /\ local'[running].at = "recv"
      BY <1>1, <2>1, <2>3 DEF RecvStart, Runs
    <3> QED
      BY <2>1, <2>2, <2>3, <3>1 DEF Receivers, Started
  <2>4. CASE AcceptStart \/ SendStart
    <3>1. jobOf[running].doFunc # "recvMsgFunc"
      BY <2>4 DEF AcceptStart, SendStart, Runs
    <3> QED
      BY <2>1, <2>2, <3>1 DEF Receivers, Started
  <2> QED
    BY <1>6, <2>3, <2>4
<1>7. CASE Walks \/ Parks
  <2>1. /\ running \in Busy /\ Started(running) /\ Busy' = Busy /\ UNCHANGED jobOf
        /\ \E place : place # "start" /\ local' = [local EXCEPT ![running].at = place]
    BY <1>7 DEF Walks, Parks, Owners, WokenAt
  <2> QED
    BY <1>1, <1>2, <2>1, Replaced
<1>8. CASE Ends
  <2>1. /\ Busy' = Busy \ {running}
        /\ \A w \in Busy' : jobOf'[w] = jobOf[w] /\ local'[w] = local[w]
    BY <1>1, <1>8 DEF Ends
  <2> QED
    BY <1>8, <2>1 DEF Receivers, Started
<1>9. CASE Replies
  <2>1. /\ Pool!Finish /\ local' = [local EXCEPT ![running] = Fresh]
        /\ jobOf[running].doFunc # "recvMsgFunc"
    BY <1>9 DEF Replies, SendEnd, Runs
  <2>2. Busy' = Busy \ {running} /\ \A w \in Busy' : jobOf'[w] = jobOf[w]
    BY <2>1 DEF Pool!Finish, Busy, Pool!Busy
  <2>3. \A w \in Busy' : local'[w] = local[w]
    BY <1>1, <2>1, <2>2
  <2> QED
    BY <2>1, <2>2, <2>3 DEF Receivers, Started
<1> QED
  BY <1>3, <1>4, <1>5, <1>6, <1>7, <1>8, <1>9, NextEffects

(* No sender finds its connection broken and marks its session dead. *)
LEMMA SessionSteps ==
  ASSUME UInv, [Next]_vars
  PROVE  \/ RecvStart \/ Destruct
         \/ /\ UNCHANGED sessions_ /\ ToSet(objs_') = ToSet(objs_)
            /\ \A s \in Sessions : /\ session'[s].isAlive_ = session[s].isAlive_
                                    /\ session'[s].pFd_ = session[s].pFd_
<1>1. session \in [Sessions -> Session]
  BY DEF UInv, IInv, TypeOK
<1>2. CASE UNCHANGED sessionVars
  BY <1>2 DEF sessionVars
<1>3. CASE Quietly \/ Listens \/ AcceptStart \/ SendStart \/ Parks \/ Ends
  BY <1>2, <1>3 DEF Quietly, Listens, AcceptStart, SendStart, Parks, Ends
<1>4. CASE Ticks
  <2>1. \A s \in Sessions : /\ session'[s].isAlive_ = session[s].isAlive_
                            /\ session'[s].pFd_ = session[s].pFd_
    BY <1>1, <1>4 DEF Ticks, Answered, Session
  <2> QED
    BY <1>4, <2>1 DEF Ticks
<1>5. CASE Walks
  <2> DEFINE p == local[running].pSession
             buffer == session[p].recvBuffer_ \o
                         [i \in 1 .. socket[files[jobOf[running].arg]].unread |-> files[jobOf[running].arg]]
  <2>1. /\ UNCHANGED <<sessions_, objs_>>
        /\ UNCHANGED session \/ session' = [session EXCEPT ![p].recvBuffer_ = buffer]
    BY <1>5 DEF Walks
  <2> HIDE DEF p, buffer
  <2>2. CASE session' = [session EXCEPT ![p].recvBuffer_ = buffer]
    <3>1. ASSUME NEW s \in Sessions
          PROVE  session'[s].isAlive_ = session[s].isAlive_ /\ session'[s].pFd_ = session[s].pFd_
      <4>1. CASE s = p
        BY <1>1, <2>2, <4>1 DEF Session
      <4>2. CASE s # p
        BY <1>1, <2>2, <4>2
      <4> QED
        BY <4>1, <4>2
    <3> QED
      BY <2>1, <3>1
  <2> QED
    BY <1>2, <2>1, <2>2 DEF sessionVars
<1>6. CASE Replies
  <2>1. /\ UNCHANGED <<sessions_, objs_>>
        /\ session' = [session EXCEPT ![bound].sendBuffer_ = Tail(@), ![bound].isAlive_ = @ /\ TRUE]
    BY <1>6 DEF Replies, SendEnd
  <2>2. \A s \in Sessions : /\ session'[s].isAlive_ = session[s].isAlive_
                            /\ session'[s].pFd_ = session[s].pFd_
    BY <1>1, <2>1 DEF Session
  <2> QED
    BY <2>1, <2>2
<1> QED
  BY <1>2, <1>3, <1>4, <1>5, <1>6, NextEffects

(* A session is bound as it comes out of the pool, where none in use is. *)
LEMMA NextSettled ==
  ASSUME UInv, [Next]_vars
  PROVE  Settled'
<1>1. /\ TypeOK /\ Scheduling /\ Exclusive /\ Settled /\ Bound /\ local \in [Workers -> Local]
      /\ Busy \subseteq Workers /\ session \in [Sessions -> Session] /\ objs_ \in Seq(Sessions)
      /\ \A n \in DOMAIN sessions_ : sessions_[n] \in Sessions
  BY DEF UInv, IInv, Serviced, Serving, TypeOK
<1>2. CASE ~ RecvStart /\ ~ Destruct
  <2>1. /\ Receivers' \subseteq Receivers
        /\ \A w \in Receivers' : /\ jobOf'[w] = jobOf[w]
                                 /\ local'[w].pSession = local[w].pSession /\ local'[w].pFd = local[w].pFd
    BY <1>2, ReceiverSteps
  <2> QED
    BY <1>1, <1>2, <2>1, SessionSteps DEF Settled, Alive
<1>3. CASE Destruct
  <2>1. UNCHANGED jobOf /\ pc = "exited" /\ DOMAIN sessions_' = {}
    BY <1>3 DEF Destruct, InMain, Goto, poolVars
  <2>2. Busy' = {}
    BY <1>1, <2>1 DEF Scheduling, Loop, Busy, Pool!Busy
  <2> QED
    BY <2>1, <2>2 DEF Settled, Receivers
<1>4. CASE RecvStart
  <2> DEFINE n == jobOf[running].arg
             s == Head(objs_)
  <2>1. PICK d \in DanFds :
          /\ Bind(s, d)
          /\ sessions_' = [m \in DOMAIN sessions_ \cup {n} |-> IF m = n THEN s ELSE sessions_[m]]
          /\ local' = [local EXCEPT ![running] =
                         [Fresh EXCEPT !.at = "recv", !.pFd = d, !.pSession = s]]
    BY <1>4 DEF RecvStart
  <2>2. /\ objs_ # <<>> /\ UNCHANGED jobOf /\ running \in Busy /\ running \in Owners
        /\ jobOf[running].doFunc = "recvMsgFunc"
    BY <1>4 DEF RecvStart, Runs, Owners, poolVars
  <2>3. Busy' = Busy
    BY <2>2 DEF Busy, Pool!Busy
  <2>4. s \in Sessions /\ \A m \in DOMAIN sessions_ : sessions_[m] # s
    BY <1>1, <2>2 DEF Bound, ReclaimedOnce, ToSet
  <2>5. /\ session'[s].isAlive_ = TRUE /\ session'[s].pFd_ = d
        /\ \A t \in Sessions \ {s} : session'[t] = session[t]
    BY <1>1, <2>1, <2>4 DEF Bind, Session
  <2>6. /\ local'[running].pFd = d /\ local'[running].pSession = s
        /\ \A w \in Busy \ {running} : local'[w] = local[w]
    BY <1>1, <2>1, <2>2 DEF Fresh
  <2>7. \A w \in Receivers' \ {running} : w \in Receivers /\ w \in Owners
    BY <2>2, <2>3, <2>6 DEF Receivers, Owners, Started
  <2>8. \A w \in Receivers' \ {running} : jobOf[w].arg # n
    BY <1>1, <2>2, <2>7 DEF Exclusive
  <2> HIDE DEF n, s
  <2>9. \A m \in DOMAIN sessions_' : session'[sessions_'[m]].isAlive_
    BY <1>1, <2>1, <2>4, <2>5 DEF Settled, Alive
  <2>10. ASSUME NEW w \in Receivers', w # running
         PROVE  /\ jobOf'[w].arg \in DOMAIN sessions_'
                /\ sessions_'[jobOf'[w].arg] = local'[w].pSession
                /\ session'[local'[w].pSession].pFd_ = local'[w].pFd
    <3>1. /\ w \in Receivers /\ jobOf[w].arg # n /\ UNCHANGED jobOf
          /\ local'[w] = local[w]
      BY <2>2, <2>6, <2>7, <2>8, <2>10 DEF Receivers
    <3>2. /\ jobOf[w].arg \in DOMAIN sessions_ /\ sessions_[jobOf[w].arg] = local[w].pSession
          /\ session[local[w].pSession].pFd_ = local[w].pFd
      BY <1>1, <3>1 DEF Settled
    <3>3. local[w].pSession \in Sessions \ {s}
      BY <1>1, <2>4, <3>2
    <3>4. session'[local[w].pSession].pFd_ = local[w].pFd
      BY <2>5, <3>2, <3>3
    <3>5. /\ jobOf[w].arg \in DOMAIN sessions_'
          /\ sessions_'[jobOf[w].arg] = local[w].pSession
      BY <2>1, <3>1, <3>2
    <3> QED
      BY <3>1, <3>4, <3>5
  <2>11. /\ jobOf'[running].arg \in DOMAIN sessions_'
         /\ sessions_'[jobOf'[running].arg] = local'[running].pSession
         /\ session'[local'[running].pSession].pFd_ = local'[running].pFd
    BY <2>1, <2>2, <2>5, <2>6 DEF n
  <2> QED
    BY <2>9, <2>10, <2>11 DEF Settled, Alive
<1> QED
  BY <1>2, <1>3, <1>4
-----------------------------------------------------------------------------
(* Announced, Receiving and Attended. *)

(* Once it has been told to stop, the server does not go back. *)
LEMMA StoppedStays ==
  ASSUME UInv, [Next]_vars
  PROVE  /\ Stopped => Stopped'
         /\ pc = "gone" => pc' = "gone"
<1>1. pc' # "killed"
  BY NextPassing DEF Passing
<1>2. CASE CoroutineStep
  <2>1. UNCHANGED pc \/ pc' = "killed"
    BY <1>2
       DEF CoroutineStep, AcceptStart, AcceptFirst, AcceptWoken, AcceptSecond, AcceptEnd,
           RecvStart, RecvFirst, RecvWoken, RecvSecond, RecvEnd, RecvData, RecvFailed,
           SendStart, SendFirst, SendWoken, SendSecond, SendFailed, SendCall, SendEnd,
           Poll, Killed, Woken, EndOwner, loopVars
  <2> QED
    BY <1>1, <2>1 DEF Stopped, Broadcasting
<1>3. CASE RunStep
  BY <1>3
     DEF Stopped, RunStep, AssignTasks, Assign, Launch, PopTask, Assigned, InMain, Goto, LoopTest,
         EpollWait, EpollInterrupted, EpollFails, StartBroadcast, Dispatch, Dispatched, Broadcasting,
         Broadcast, Broadcasted, TimersDone
<1>4. CASE Tick \/ Start \/ Destruct
  BY <1>4 DEF Tick, Start, Destruct, InMain, Goto, Stopped, Broadcasting
<1>5. CASE UNCHANGED pc
  BY <1>5 DEF Stopped, Broadcasting
<1> QED
  BY <1>2, <1>3, <1>4, <1>5
     DEF Next, Program, StopApp, vars, schedulerVars, loopVars

(* What a danFd_t in use is for. *)
LEMMA FdKept ==
  ASSUME UInv, [Next]_vars, NEW d \in DanFds, Live(d)
  PROVE  danFd'[d].fd = danFd[d].fd
<1>1. danFd \in [DanFds -> DanFd]
  BY DEF UInv, IInv, TypeOK
<1>2. CASE Quietly
  BY <1>2 DEF Quietly
<1>3. CASE AcceptStart \/ RecvStart
  <2>1. \E e \in DanFds : \E n : CreateFd(e, n)
    BY <1>3 DEF AcceptStart, RecvStart
  <2> QED
    BY <1>1, <2>1 DEF CreateFd, Allocatable, Untouched, Live
<1>4. CASE Parks \/ Ends
  BY <1>1, <1>4 DEF Parks, Ends, DanFd
<1>5. CASE UNCHANGED danFd
  BY <1>5
<1> QED
  BY <1>2, <1>3, <1>4, <1>5, NextEffects
     DEF Listens, Ticks, Destruct, Assign, PopTask, SendStart, Walks, Replies, SendEnd

(* Peers that stay take nothing back. *)
LEMMA PeersAdd ==
  ASSUME Untroubled, Asks, TypeOK, PeerStep, NEW c \in Conns, socket[c].unread > 0
  PROVE  socket'[c].unread > 0
<1>1. socket \in [Conns -> Socket] /\ socket[c].unread \in Nat
  BY DEF TypeOK, Socket
<1>2. PICK b \in Conns : Connect(b) \/ Request(b)
  BY DEF Untroubled, PeersStay, PeerStep, Shut, Reset, Stall
<1>3. socket'[c].unread = socket[c].unread \/ socket'[c].unread = socket[c].unread + 1
  BY <1>1, <1>2 DEF Connect, Request, Socket
<1> QED
  BY <1>1, <1>3

(* Only the coroutine of a descriptor reads what is there. *)
LEMMA DataLasts ==
  ASSUME Untroubled, Asks, UInv, [Next]_vars,
         NEW n \in Fds, files[n] # Free, running \in Owners => jobOf[running].arg # n, HasData(n)
  PROVE  HasData(n)'
<1>1. /\ Table /\ files \in [Fds -> Conns \cup {Listener, Free}] /\ socket \in [Conns -> Socket]
      /\ TypeOK
  BY DEF UInv, IInv, Serviced, TypeOK
<1>2. ASSUME files'[n] = files[n],
             \A c \in Conns : files[n] = c /\ socket[c].unread > 0 => socket'[c].unread > 0
      PROVE  HasData(n)'
  BY <1>2 DEF HasData
<1>3. CASE UNCHANGED <<socket, files>>
  BY <1>2, <1>3
<1>4. CASE PeerStep
  BY <1>1, <1>2, <1>4, PeersAdd DEF PeerStep
<1>5. CASE FreeFds # {} /\ \E c \in Backlog : Accepted(c)
  <2>1. LowestFree \in Fds /\ LowestFree # n
    BY <1>5, LowestFreeIsFree DEF FreeFds
  <2>2. PICK c : /\ files' = [files EXCEPT ![LowestFree] = c]
                 /\ socket' = [socket EXCEPT ![c].at = "open"]
    BY <1>5 DEF Accepted
  <2> HIDE DEF LowestFree
  <2>3. \A b \in Conns : socket'[b].unread = socket[b].unread
    BY <1>1, <2>2 DEF Socket
  <2> QED
    BY <1>1, <1>2, <2>1, <2>2, <2>3
<1>6. CASE Listens
  <2>1. files'[n] = files[n] \/ files'[n] = Listener
    BY <1>1, <1>6 DEF Listens, Listened
  <2> QED
    BY <1>2, <1>6, <2>1, KernelAssumption DEF Listens, HasData
<1>7. CASE Walks
  <2>1. \/ UNCHANGED <<socket, files>>
        \/ FreeFds # {} /\ \E c \in Backlog : Accepted(c)
        \/ /\ running \in Owners /\ Received(jobOf[running].arg) /\ UNCHANGED files
           /\ jobOf[running].arg \in Fds
    <3>1. running \in Owners /\ jobOf[running].arg \in Fds
      BY <1>7, OwnerHolds DEF Walks, UInv, IInv
    <3> QED
      BY <1>7, <3>1 DEF Walks
  <2>2. ASSUME running \in Owners, Received(jobOf[running].arg), UNCHANGED files,
               jobOf[running].arg \in Fds
        PROVE  HasData(n)'
    <3>1. \A c \in Conns : files[n] = c => files[jobOf[running].arg] # c
      BY <1>1, <2>2 DEF Table
    <3>2. \A c \in Conns : files[jobOf[running].arg] # c => socket'[c] = socket[c]
      BY <1>1, <2>2 DEF Received
    <3> QED
      BY <1>2, <2>2, <3>1, <3>2
  <2> QED
    BY <1>3, <1>5, <2>1, <2>2
<1>8. CASE Parks
  BY <1>3, <1>5, <1>8 DEF Parks
<1>9. CASE Ends
  <2>1. files'[n] = files[n]
    BY <1>1, <1>9 DEF Ends, Closed
  <2>2. \A c \in Conns : socket'[c].unread = socket[c].unread
    BY <1>1, <1>9 DEF Ends, Closed, Socket
  <2> QED
    BY <1>2, <2>1, <2>2
<1>10. CASE Replies
  <2>1. UNCHANGED files /\ \E m : Sent(m)
    BY <1>10 DEF Replies
  <2>2. \A c \in Conns : socket'[c].unread = socket[c].unread
    BY <1>1, <2>1 DEF Sent, Socket
  <2> QED
    BY <1>2, <2>1, <2>2
<1> QED
  BY <1>3, <1>4, <1>6, <1>7, <1>8, <1>9, <1>10, NextEffects
     DEF Quietly, Ticks, Destruct, Assign, PopTask, AcceptStart, RecvStart, SendStart, kernelVars

(* A parked coroutine keeps its descriptor, with what is there to read. *)
LEMMA ParkedOwns ==
  ASSUME UInv, NEW d \in DanFds, Live(d), ParkedOn(danFd[d].lightThreadId, d)
  PROVE  /\ danFd[d].lightThreadId \in Owners /\ Started(danFd[d].lightThreadId)
         /\ danFd[d].fd = jobOf[danFd[d].lightThreadId].arg
         /\ danFd[d].fd \in Fds
         /\ files[danFd[d].fd] = jobOf[danFd[d].lightThreadId].serves
         /\ files[danFd[d].fd] # Free
<1> DEFINE v == danFd[d].lightThreadId
<1>1. /\ TypeOK /\ Scheduling /\ Exclusive /\ Passing
      /\ v \in Busy /\ local[v].at \in {"accept-woken", "recv-woken", "send-woken"} /\ local[v].pFd = d
  BY DEF UInv, IInv, Serviced, ParkedOn
<1>2. v \in Owners /\ Started(v)
  BY <1>1 DEF Passing, Owners, Started
<1>3. jobOf[v].arg \in Fds /\ danFd[d].fd = jobOf[v].arg
  BY <1>1, <1>2, OwnerHolds
<1>4. jobOf[v] \in Task /\ jobOf[v].doFunc # "onSend" /\ files[jobOf[v].arg] = jobOf[v].serves
  BY <1>1, <1>2 DEF TypeOK, Owners, Exclusive
<1> QED
  BY <1>2, <1>3, <1>4, TaskServes

(* Only epoll_wait adds events to a batch. *)
LEMMA EventSteps ==
  ASSUME UInv, [Next]_vars
  PROVE  EpollWait \/ events' \subseteq events
<1>1. CASE CoroutineStep
  BY <1>1
     DEF CoroutineStep, AcceptStart, AcceptFirst, AcceptWoken, AcceptSecond, AcceptEnd,
         RecvStart, RecvFirst, RecvWoken, RecvSecond, RecvEnd, RecvData, RecvFailed,
         SendStart, SendFirst, SendWoken, SendSecond, SendFailed, SendCall, SendEnd,
         Poll, Killed, Woken, EndOwner, loopVars
<1>2. CASE RunStep
  BY <1>2
     DEF RunStep, AssignTasks, Assign, Launch, PopTask, Assigned, Goto, LoopTest,
         EpollInterrupted, EpollFails, Dispatch, Dispatched, Broadcast, Broadcasted, TimersDone
<1>3. CASE Tick \/ Start \/ Destruct
  BY <1>3 DEF Tick, Killed, Start, Destruct, Goto, loopVars
<1>4. CASE UNCHANGED events
  BY <1>4
<1> QED
  BY <1>1, <1>2, <1>3, <1>4 DEF Next, Program, StopApp, vars, schedulerVars, loopVars

(* Epoll reports bytes, which stay until the coroutine is woken. *)
LEMMA NextAnnounced ==
  ASSUME Untroubled, Asks, UInv, [Next]_vars
  PROVE  Announced'
<1>1. /\ TypeOK /\ Scheduling /\ Exclusive /\ Reachable /\ Announced /\ Calm
      /\ pc # "killed" /\ danFd \in [DanFds -> DanFd]
      /\ files \in [Fds -> Conns \cup {Listener, Free}] /\ socket \in [Conns -> Socket]
  BY DEF UInv, IInv, Serviced, Conserving, TypeOK, Passing
<1>2. CASE EpollWait
  <2>1. UNCHANGED <<socket, files, danFd>>
        /\ events' = {[ptr |-> interest[n].ptr, events |-> Reported(n)] : n \in ReadyFds}
    BY <1>2 DEF EpollWait, kernelVars
  <2>2. ASSUME NEW n \in ReadyFds
        PROVE  "IN" \in Reported(n) /\ danFd[interest[n].ptr].fd = n /\ HasData(n)
    <3>1. n \in DOMAIN interest /\ Reported(n) # {} /\ interest[n].events = "IN"
      BY <1>1, <2>2 DEF ReadyFds, Reachable
    <3>2. /\ interest[n].ptr \in DanFds /\ Live(interest[n].ptr) /\ danFd[interest[n].ptr].fd = n
          /\ ParkedOn(danFd[interest[n].ptr].lightThreadId, interest[n].ptr)
      BY <1>1, <3>1 DEF TypeOK, Scheduling, RegistrationLive
    <3>3. n \in Fds /\ files[n] # Free
      BY <3>2, ParkedOwns
    <3>4. Reported(n) = Pending(n) \cap {"IN", "ERR"}
      BY <3>1 DEF Reported
    <3>5. CASE files[n] = Listener
      BY <3>1, <3>2, <3>4, <3>5, KernelAssumption DEF Pending, HasData
    <3>6. CASE files[n] # Listener
      <4>1. /\ files[n] \in Conns
            /\ ~ socket[files[n]].shut /\ ~ socket[files[n]].broken
        BY <1>1, <3>3, <3>6 DEF Calm
      <4> QED
        BY <3>1, <3>2, <3>4, <3>6, <4>1 DEF Pending, HasData
    <3> QED
      BY <3>5, <3>6
  <2> QED
    BY <2>1, <2>2 DEF Announced, HasData
<1>3. CASE events' \subseteq events
  <2> SUFFICES ASSUME NEW e \in events'
               PROVE  "IN" \in e.events /\ HasData(danFd[e.ptr].fd)'
    BY DEF Announced
  <2>1. /\ e \in events /\ "IN" \in e.events /\ HasData(danFd[e.ptr].fd) /\ e.ptr \in DanFds
        /\ pc = "dispatch"
    BY <1>1, <1>3 DEF Announced, TypeOK, Scheduling, Loop
  <2> DEFINE v == danFd[e.ptr].lightThreadId
  <2>2. Live(e.ptr) /\ ParkedOn(v, e.ptr)
    BY <1>1, <2>1 DEF Scheduling, RegistrationLive
  <2>3. /\ v \in Owners /\ danFd[e.ptr].fd = jobOf[v].arg /\ danFd[e.ptr].fd \in Fds
        /\ files[danFd[e.ptr].fd] # Free
    BY <2>1, <2>2, ParkedOwns
  <2>4. running \in Owners => running # v
    BY <1>1, <2>1, <2>2, SchedulerAssumption
       DEF Scheduling, Batched, ParkedOn, Owners, TypeOK, Workers
  <2>5. PICK n \in Fds : n = danFd[e.ptr].fd
    BY <2>3
  <2>6. HasData(n)'
    <3>1. running \in Owners => jobOf[running].arg # n
      BY <1>1, <2>3, <2>4, <2>5 DEF Exclusive
    <3>2. HasData(n) /\ files[n] # Free
      BY <2>1, <2>3, <2>5
    <3> QED
      BY <3>1, <3>2, DataLasts
  <2>7. danFd'[e.ptr].fd = n
    BY <2>1, <2>2, <2>5, FdKept
  <2> QED
    BY <2>1, <2>6, <2>7 DEF HasData
<1> QED
  BY <1>2, <1>3, EventSteps

(* A receiver that is switched to finds bytes, or is told to leave. *)
LEMMA NextReceiving ==
  ASSUME Untroubled, Asks, UInv, [Next]_vars
  PROVE  Receiving'
<1> USE DEF Runs, At, me
<1>1. /\ TypeOK /\ Scheduling /\ Exclusive /\ Receiving /\ Announced /\ Calm
      /\ pc # "killed" /\ danFd \in [DanFds -> DanFd] /\ local \in [Workers -> Local]
      /\ files \in [Fds -> Conns \cup {Listener, Free}] /\ socket \in [Conns -> Socket]
      /\ Busy \subseteq Workers
  BY DEF UInv, IInv, Serviced, Conserving, TypeOK, Passing
<1>2. NoWorker \notin Receivers' /\ (running = NoWorker \/ running \in Busy)
  <2>1. IInv'
    BY NextInvariant DEF UInv
  <2> QED
    BY <1>1, <2>1, SchedulerAssumption DEF IInv, TypeOK, Workers, Receivers
<1>3. ASSUME running' \notin Receivers'
      PROVE  Receiving'
  BY <1>3 DEF Receiving
<1>4. ASSUME local'[running'].at \notin {"recv-woken", "recv-again", "recv-end"}
      PROVE  Receiving'
  BY <1>4 DEF Receiving
<1>5. running \in Receivers => /\ running \in Owners /\ Started(running)
                               /\ jobOf[running].arg \in Fds
                               /\ danFd[local[running].pFd].fd = jobOf[running].arg
                               /\ RecvResults(jobOf[running].arg) =
                                    IF HasData(jobOf[running].arg) THEN {"data"} ELSE {"again"}
  <2> SUFFICES ASSUME running \in Receivers
               PROVE  /\ running \in Owners /\ Started(running)
                      /\ jobOf[running].arg \in Fds
                      /\ danFd[local[running].pFd].fd = jobOf[running].arg
                      /\ RecvResults(jobOf[running].arg) =
                           IF HasData(jobOf[running].arg) THEN {"data"} ELSE {"again"}
    OBVIOUS
  <2>1. running \in Owners /\ Started(running) /\ jobOf[running] \in Task
        /\ jobOf[running].doFunc = "recvMsgFunc"
    BY <1>1 DEF Receivers, Owners, TypeOK
  <2>2. files[jobOf[running].arg] \in Conns
    BY <1>1, <2>1, TasksTyped DEF Exclusive
  <2>3. ~ socket[files[jobOf[running].arg]].shut /\ ~ socket[files[jobOf[running].arg]].broken
    BY <1>1, <2>2 DEF Calm
  <2> QED
    BY <1>1, <2>1, <2>2, <2>3, OwnerHolds, KernelAssumption DEF RecvResults, HasData
<1>6. CASE running # NoWorker /\ CoroutineStep
  <2>1. CASE RecvStart
    <3>1. local'[running'].at = "recv"
      BY <1>1, <2>1 DEF RecvStart, poolVars
    <3> QED
      BY <1>4, <3>1
  <2>2. CASE RecvFirst \/ RecvWoken \/ RecvSecond
    <3>1. running \in Receivers /\ running \in Workers
      BY <1>1, <2>2 DEF RecvFirst, RecvWoken, RecvSecond, Receivers, Started
    <3>2. CASE RecvFirst \/ RecvSecond
      <4>1. RecvFirst \/ HasData(jobOf[running].arg)
        BY <1>1, <1>6, <3>1, <3>2 DEF RecvSecond, Receiving, Scheduling, Leaving, EndAt, WokenAt
      <4>2. \/ Continue("recv") /\ UNCHANGED poolVars
            \/ Poll(local[running].pFd, "IN", "recv-woken")
        BY <1>5, <3>1, <3>2, <4>1 DEF RecvFirst, RecvSecond, RecvData
      <4>3. (local'[running].at = "recv" /\ running' = running) \/ running' = NoWorker
        <5>1. Live(local[running].pFd)
          BY <1>1, <1>5, <3>1, OwnerHolds
        <5>2. Continue("recv") => local'[running].at = "recv"
          BY <1>1, <3>1 DEF Continue
        <5> QED
          BY <4>2, <5>1, <5>2 DEF Poll, Park, Pool!Pause, poolVars
      <4> QED
        BY <1>2, <1>3, <1>4, <4>3
    <3>3. CASE RecvWoken
      <4>1. /\ UNCHANGED <<socket, files, danFd, pc, jobOf, running>>
            /\ local' = [local EXCEPT ![running].at =
                           IF PollResult(local[running].pFd, "IN") = 1 THEN "recv-again" ELSE "recv-end"]
            /\ local[running].at = "recv-woken"
        BY <3>3 DEF RecvWoken, Woken, Continue, poolVars, loopVars
      <4>2. local'[running].at =
              IF PollResult(local[running].pFd, "IN") = 1 THEN "recv-again" ELSE "recv-end"
        BY <1>1, <3>1, <4>1
      <4>3. HasData(jobOf[running].arg)' <=> HasData(jobOf[running].arg)
        BY <4>1 DEF HasData
      <4> QED
        BY <1>1, <3>1, <4>1, <4>2, <4>3 DEF Receiving, Broadcasting
    <3> QED
      BY <2>2, <3>2, <3>3
  <2>3. CASE RecvEnd \/ AcceptEnd
    BY <1>2, <1>3, <2>3 DEF RecvEnd, AcceptEnd, EndOwner, Pool!Finish
  <2>4. CASE AcceptStart \/ AcceptFirst \/ AcceptWoken \/ AcceptSecond
             \/ SendStart \/ SendFirst \/ SendWoken \/ SendSecond \/ SendFailed
    <3>1. jobOf[running].doFunc # "recvMsgFunc"
      BY <2>4 DEF AcceptStart, AcceptFirst, AcceptWoken, AcceptSecond,
                  SendStart, SendFirst, SendWoken, SendSecond, SendFailed
    <3>2. UNCHANGED <<jobOf, running>> \/ running' = NoWorker
      BY <2>4
         DEF AcceptStart, AcceptFirst, AcceptWoken, AcceptSecond,
             SendStart, SendFirst, SendWoken, SendSecond, SendFailed, SendCall, SendEnd,
             Poll, Park, Woken, Pool!Pause, Pool!Finish, poolVars
    <3> QED
      BY <1>2, <1>3, <3>1, <3>2 DEF Receivers
  <2> QED
    BY <1>6, <2>1, <2>2, <2>3, <2>4 DEF CoroutineStep
<1>7. CASE UNCHANGED <<pc, running, jobOf, local, danFd, files>> /\ (UNCHANGED socket \/ PeerStep)
  <2>1. running' \in Receivers' => running \in Receivers
    BY <1>7 DEF Receivers, Started, Busy, Pool!Busy
  <2>2. HasData(jobOf[running].arg) => HasData(jobOf[running].arg)'
    BY <1>1, <1>7, PeersAdd DEF HasData
  <2> QED
    BY <1>1, <1>7, <2>1, <2>2 DEF Receiving, PollResult, Broadcasting
<1>8. CASE running = NoWorker /\ Dispatch
  <2>1. PICK e \in events : /\ danFd' = [danFd EXCEPT ![e.ptr].readyEvents = e.events]
                            /\ ResumeOr(danFd[e.ptr].lightThreadId)
    BY <1>8 DEF Dispatch
  <2>2. PICK v : v = danFd[e.ptr].lightThreadId
    OBVIOUS
  <2>3. /\ e \in [ptr : DanFds, events : SUBSET {"IN", "OUT", "ERR"}]
        /\ Live(e.ptr) /\ ParkedOn(v, e.ptr) /\ "IN" \in e.events /\ HasData(danFd[e.ptr].fd)
    BY <1>1, <2>2 DEF TypeOK, Scheduling, RegistrationLive, Announced
  <2>4. running' = v /\ UNCHANGED <<jobOf, local, socket, files, pc>> /\ pc = "dispatch"
    BY <1>8, <2>1, <2>2, <2>3 DEF ResumeOr, Pool!Run, ParkedOn, Dispatch, InMain, kernelVars
  <2>5. /\ local[v].pFd = e.ptr /\ jobOf[v].arg = danFd[e.ptr].fd
        /\ local[v].at # "recv-again" /\ local[v].at # "recv-end"
    BY <1>1, <2>2, <2>3, ParkedOwns DEF ParkedOn
  <2>6. danFd'[e.ptr].readyEvents = e.events
    BY <1>1, <2>1, <2>3 DEF DanFd
  <2>7. PollResult(local[v].pFd, "IN")' = 1
    BY <2>3, <2>4, <2>5, <2>6 DEF PollResult
  <2>8. HasData(jobOf[v].arg)'
    BY <2>3, <2>4, <2>5 DEF HasData
  <2> QED
    BY <2>4, <2>5, <2>7, <2>8 DEF Receiving
<1>9. CASE running = NoWorker /\ (Broadcast \/ Launch("boot-launch", "boot-pop") \/ Launch("launch", "pop"))
  <2>1. CASE Broadcast
    <3>1. Broadcasting'
      BY <2>1 DEF Broadcast, Broadcasting
    <3> QED
      BY <3>1 DEF Receiving
  <2>2. CASE Launch("boot-launch", "boot-pop") \/ Launch("launch", "pop")
    <3>1. \E w \in Busy : local[w].at = "start" /\ running' = w /\ UNCHANGED local
      BY <2>2 DEF Launch, Pool!Run
    <3> QED
      BY <1>4, <3>1
  <2> QED
    BY <1>9, <2>1, <2>2
<1>10. ASSUME running = NoWorker, running' = NoWorker
       PROVE  Receiving'
  BY <1>2, <1>3, <1>10
<1>11. CASE running = NoWorker
  <2>1. CASE RunStep
    BY <1>8, <1>9, <1>10, <1>11, <2>1
       DEF RunStep, AssignTasks, Assign, PopTask, Assigned, LoopTest, EpollWait, EpollInterrupted,
           EpollFails, Dispatched, Broadcasted, TimersDone, poolVars, Pool!Submit
  <2>2. CASE Tick \/ Start \/ Destruct \/ UNCHANGED schedulerVars \/ StopApp \/ UNCHANGED vars
    BY <1>10, <1>11, <2>2 DEF Tick, Start, Destruct, StopApp, schedulerVars, vars, poolVars
  <2>3. ~ CoroutineStep
    BY <1>1, <1>11, SchedulerAssumption
       DEF CoroutineStep, AcceptStart, AcceptFirst, AcceptWoken, AcceptSecond, AcceptEnd,
           RecvStart, RecvFirst, RecvWoken, RecvSecond, RecvEnd,
           SendStart, SendFirst, SendWoken, SendSecond, SendFailed, Workers
  <2> QED
    BY <2>1, <2>2, <2>3 DEF Next, Program
<1>12. CASE running # NoWorker
  <2>1. ~ RunStep /\ ~ Tick /\ ~ Start /\ ~ Destruct
    BY <1>12
       DEF RunStep, AssignTasks, Assign, Launch, PopTask, Assigned, LoopTest, EpollWait,
           EpollInterrupted, EpollFails, Dispatch, Dispatched, Broadcast, Broadcasted, TimersDone,
           Tick, Start, Destruct, InMain
  <2>2. CASE PeerStep /\ UNCHANGED <<schedulerVars, sessionVars>>
    BY <1>7, <2>2 DEF PeerStep, schedulerVars, poolVars, loopVars
  <2>3. CASE StopApp \/ UNCHANGED vars
    BY <1>7, <2>3 DEF StopApp, vars, schedulerVars, poolVars, loopVars, kernelVars
  <2> QED
    BY <1>6, <1>12, <2>1, <2>2, <2>3 DEF Next, Program
<1> QED
  BY <1>11, <1>12

(* A receiver outlives what its session has in hand. *)
LEMMA NextAttended ==
  ASSUME Untroubled, Asks, UInv, [Next]_vars
  PROVE  Attended'
<1>1. /\ TypeOK /\ Scheduling /\ Receiving /\ Attended /\ local \in [Workers -> Local]
      /\ Busy \subseteq Workers
  BY DEF UInv, IInv, Conserving, TypeOK
<1> SUFFICES ASSUME ~ Stopped'
             PROVE  /\ \A n \in DOMAIN sessions_' :
                         \E w \in Receivers' : jobOf'[w].arg = n /\ local'[w].pSession = sessions_'[n]
                    /\ \A task \in Tasks' : task.doFunc = "onSend" =>
                         \E w \in Receivers' : local'[w].pSession = task.arg
  BY DEF Attended
<1>2. ~ Stopped
  BY StoppedStays
<1>3. \A w \in Receivers : w \in Receivers' /\ jobOf'[w] = jobOf[w] /\ local'[w].pSession = local[w].pSession
  <2>1. Ends => running \notin Receivers
    <3> SUFFICES ASSUME Ends, running \in Receivers PROVE FALSE
      OBVIOUS
    <3>1. local[running].at \in EndAt /\ local[running].at \in PlacesOf["recvMsgFunc"]
      BY <1>1 DEF Ends, Receivers, Scheduling, Placed
    <3>2. local[running].at = "recv-end"
      BY <3>1 DEF EndAt, PlacesOf
    <3> QED
      BY <1>1, <1>2, <3>2 DEF Receiving, Stopped
  <2> QED
    BY <2>1, ReceiverSteps
<1>4. ASSUME NEW n \in DOMAIN sessions_'
      PROVE  \E w \in Receivers' : jobOf'[w].arg = n /\ local'[w].pSession = sessions_'[n]
  <2>1. CASE UNCHANGED sessions_
    BY <1>1, <1>2, <1>3, <1>4, <2>1 DEF Attended
  <2>2. CASE Destruct
    BY <2>2 DEF Destruct, Goto, Stopped
  <2>3. CASE RecvStart
    <3> DEFINE m == jobOf[running].arg
    <3>1. /\ UNCHANGED jobOf /\ running \in Busy /\ jobOf[running].doFunc = "recvMsgFunc"
          /\ sessions_' = [k \in DOMAIN sessions_ \cup {m} |-> IF k = m THEN Head(objs_) ELSE sessions_[k]]
          /\ \E d \in DanFds :
               local' = [local EXCEPT ![running] =
                           [Fresh EXCEPT !.at = "recv", !.pFd = d, !.pSession = Head(objs_)]]
      BY <2>3 DEF RecvStart, Runs, poolVars
    <3>2. Busy' = Busy
      BY <3>1 DEF Busy, Pool!Busy
    <3>3. local'[running].at = "recv" /\ local'[running].pSession = Head(objs_)
      BY <1>1, <3>1 DEF Fresh
    <3>4. running \in Receivers'
      BY <3>1, <3>2, <3>3 DEF Receivers, Started
    <3>5. CASE n = m
      BY <3>1, <3>3, <3>4, <3>5
    <3>6. CASE n # m
      <4>1. n \in DOMAIN sessions_ /\ sessions_'[n] = sessions_[n]
        BY <1>4, <3>1, <3>6
      <4>2. PICK w \in Receivers : jobOf[w].arg = n /\ local[w].pSession = sessions_[n]
        BY <1>1, <1>2, <4>1 DEF Attended
      <4> QED
        BY <1>3, <4>1, <4>2
    <3> QED
      BY <3>5, <3>6
  <2> QED
    BY <2>1, <2>2, <2>3, SessionSteps
<1>5. ASSUME NEW task \in Tasks', task.doFunc = "onSend"
      PROVE  \E w \in Receivers' : local'[w].pSession = task.arg
  <2>1. CASE task \in Tasks
    BY <1>1, <1>2, <1>3, <1>5, <2>1 DEF Attended
  <2>2. CASE \E n \in Replying(DOMAIN sessions_) : task.arg = sessions_[n]
    BY <1>1, <1>2, <1>3, <2>2 DEF Attended, Replying
  <2> QED
    BY <1>5, <2>1, <2>2, TasksFrom
<1> QED
  BY <1>4, <1>5
-----------------------------------------------------------------------------
(* Contents. *)

(* Receivers have sessions of their own, out of the pool, and connections  *)
(* of their own. *)
LEMMA ReceiversApart ==
  ASSUME UInv, NEW w \in Receivers
  PROVE  /\ w \in Busy /\ w \in Owners /\ Started(w)
         /\ jobOf[w].arg \in Fds /\ jobOf[w].serves \in Conns /\ files[jobOf[w].arg] = jobOf[w].serves
         /\ socket[jobOf[w].serves].at = "open"
         /\ local[w].pSession \in Sessions /\ local[w].pSession \notin ToSet(objs_)
         /\ \A v \in Owners \ {w} : jobOf[v].serves # jobOf[w].serves
         /\ \A v \in Receivers \ {w} : local[v].pSession # local[w].pSession
<1>1. /\ TypeOK /\ Scheduling /\ Table /\ Exclusive /\ Settled /\ ReclaimedOnce
      /\ \A n \in DOMAIN sessions_ : sessions_[n] \in Sessions
  BY DEF UInv, IInv, Serviced, Serving, Bound, TypeOK
<1>2. /\ w \in Busy /\ w \in Owners /\ Started(w) /\ jobOf[w] \in Task /\ jobOf[w].doFunc = "recvMsgFunc"
      /\ Receivers \subseteq Owners
  BY <1>1 DEF Receivers, Owners, TypeOK
<1>3. /\ jobOf[w].arg \in Fds /\ jobOf[w].serves \in Conns /\ files[jobOf[w].arg] = jobOf[w].serves
      /\ socket[jobOf[w].serves].at = "open"
  BY <1>1, <1>2, TasksTyped DEF Exclusive, Table
<1>4. ASSUME NEW v \in Owners, v # w
      PROVE  jobOf[v].serves # jobOf[w].serves /\ jobOf[v].arg # jobOf[w].arg
  <2>1. jobOf[v].arg \in Fds /\ files[jobOf[v].arg] = jobOf[v].serves /\ jobOf[v].arg # jobOf[w].arg
    BY <1>1, <1>2, <1>4, OwnerHolds DEF Exclusive
  <2> QED
    BY <1>1, <1>3, <2>1 DEF Table
<1>5. /\ jobOf[w].arg \in DOMAIN sessions_ /\ sessions_[jobOf[w].arg] = local[w].pSession
      /\ \A v \in Receivers : jobOf[v].arg \in DOMAIN sessions_ /\ sessions_[jobOf[v].arg] = local[v].pSession
  BY <1>1 DEF Settled
<1> QED
  BY <1>1, <1>2, <1>3, <1>4, <1>5 DEF ReclaimedOnce

(* What becomes of the requests of a connection in one step: a request     *)
(* arrives, the tick handles one of each session, a receiver reads what    *)
(* has arrived, or a sender replies. *)

SameBuffers(s) == /\ session'[s].recvBuffer_ = session[s].recvBuffer_
                  /\ session'[s].sendBuffer_ = session[s].sendBuffer_

SameCounts(c) == /\ socket'[c].sent = socket[c].sent
                 /\ socket'[c].unread = socket[c].unread
                 /\ socket'[c].answers = socket[c].answers

Stays == (\A s \in Sessions : SameBuffers(s)) /\ \A c \in Conns : SameCounts(c)

Requested(c) == /\ socket'[c].sent = socket[c].sent + 1
                /\ socket'[c].unread = socket[c].unread + 1
                /\ socket'[c].answers = socket[c].answers
                /\ \A b \in Conns \ {c} : SameCounts(b)
                /\ \A s \in Sessions : SameBuffers(s)

HandsOver(s) == /\ session[s].recvBuffer_ # <<>>
                /\ session'[s].recvBuffer_ = Tail(session[s].recvBuffer_)
                /\ session'[s].sendBuffer_ =
                     Append(session[s].sendBuffer_, Head(session[s].recvBuffer_))

Handled == /\ \A c \in Conns : SameCounts(c)
           /\ \A s \in Sessions :
                \/ SameBuffers(s)
                \/ HandsOver(s) /\ \E n \in DOMAIN sessions_ : s = sessions_[n]

Read(w) ==
  LET c == jobOf[w].serves
      s == local[w].pSession
  IN  /\ socket'[c].sent = socket[c].sent
      /\ socket'[c].unread = 0
      /\ socket'[c].answers = socket[c].answers
      /\ session'[s].recvBuffer_ = session[s].recvBuffer_ \o [i \in 1 .. socket[c].unread |-> c]
      /\ session'[s].sendBuffer_ = session[s].sendBuffer_
      /\ \A b \in Conns \ {c} : SameCounts(b)
      /\ \A t \in Sessions \ {s} : SameBuffers(t)

Replied(w) ==
  LET c == jobOf[w].serves
      s == local[w].pSession
  IN  /\ socket'[c].sent = socket[c].sent
      /\ socket'[c].unread = socket[c].unread
      /\ socket'[c].answers = socket[c].answers + 1
      /\ session[s].sendBuffer_ # <<>>
      /\ session'[s].recvBuffer_ = session[s].recvBuffer_
      /\ session'[s].sendBuffer_ = Tail(session[s].sendBuffer_)
      /\ \A b \in Conns \ {c} : SameCounts(b)
      /\ \A t \in Sessions \ {s} : SameBuffers(t)

(* Only the four of them change the buffers and the counts. *)
LEMMA Traffic ==
  ASSUME Untroubled, Asks, UInv, [Next]_vars
  PROVE  \/ Stays
         \/ Quietly /\ \E c \in Conns : Requested(c)
         \/ Ticks /\ Handled
         \/ Walks /\ running \in Receivers /\ Read(running)
         \/ Replies /\ \E w \in Receivers : local[w].pSession = jobOf[running].arg /\ Replied(w)
<1>1. /\ TypeOK /\ Scheduling /\ Passing /\ RepliesSent /\ pc # "killed"
      /\ session \in [Sessions -> Session] /\ socket \in [Conns -> Socket]
      /\ \A n \in DOMAIN sessions_ : sessions_[n] \in Sessions
  BY DEF UInv, IInv, Serviced, Serving, Passing, TypeOK
<1>2. \A s \in Sessions : session'[s] = session[s] => SameBuffers(s)
  BY DEF SameBuffers
<1>3. ASSUME UNCHANGED session, \A c \in Conns : SameCounts(c)
      PROVE  Stays
  BY <1>2, <1>3 DEF Stays
<1>4. ASSUME UNCHANGED socket
      PROVE  \A c \in Conns : SameCounts(c)
  BY <1>4 DEF SameCounts
<1>5. ASSUME NEW c, Accepted(c)
      PROVE  \A b \in Conns : SameCounts(b)
  BY <1>1, <1>5 DEF Accepted, Socket, SameCounts
<1>6. CASE Quietly
  <2>1. UNCHANGED session
    BY <1>6 DEF Quietly, sessionVars
  <2>2. CASE UNCHANGED socket
    BY <1>3, <1>4, <2>1, <2>2
  <2>3. CASE PeerStep
    <3>1. PICK c \in Conns : Connect(c) \/ Request(c)
      BY <2>3 DEF Untroubled, PeersStay, PeerStep, Shut, Reset, Stall
    <3>2. CASE Connect(c)
      <4>1. \A b \in Conns : SameCounts(b)
        BY <1>1, <3>2 DEF Connect, Socket, SameCounts
      <4> QED
        BY <1>3, <2>1, <4>1
    <3>3. CASE Request(c)
      <4>1. /\ socket'[c].sent = socket[c].sent + 1 /\ socket'[c].unread = socket[c].unread + 1
            /\ socket'[c].answers = socket[c].answers
            /\ \A b \in Conns \ {c} : SameCounts(b)
        BY <1>1, <3>3 DEF Request, Socket, SameCounts
      <4> QED
        BY <1>2, <1>6, <2>1, <4>1 DEF Requested
    <3> QED
      BY <3>1, <3>2, <3>3
  <2> QED
    BY <1>6, <2>2, <2>3 DEF Quietly
<1>7. CASE UNCHANGED <<socket, session>>
  BY <1>3, <1>4, <1>7
<1>8. CASE RecvStart
  <2>1. UNCHANGED socket /\ \E s, d : Bind(s, d)
    BY <1>8 DEF RecvStart, kernelVars
  <2>2. \A s \in Sessions : SameBuffers(s)
    BY <1>1, <2>1 DEF Bind, Session, SameBuffers
  <2> QED
    BY <1>4, <2>1, <2>2 DEF Stays
<1>9. CASE Ticks
  <2>1. UNCHANGED socket
    BY <1>9 DEF Ticks, kernelVars
  <2>2. ASSUME NEW n \in Replying(DOMAIN sessions_)
        PROVE  HandsOver(sessions_[n]) /\ n \in DOMAIN sessions_
    <3>1. n \in DOMAIN sessions_ /\ session[sessions_[n]].recvBuffer_ # <<>> /\ sessions_[n] \in Sessions
      BY <1>1, <2>2 DEF Replying
    <3>2. session'[sessions_[n]] = Answered(session[sessions_[n]])
      BY <1>9, <2>2, <3>1 DEF Ticks
    <3> QED
      BY <1>1, <3>1, <3>2 DEF Answered, Session, HandsOver
  <2>3. ASSUME NEW s \in Sessions, s \notin {sessions_[n] : n \in Replying(DOMAIN sessions_)}
        PROVE  session'[s] = session[s]
    BY <1>9, <2>3 DEF Ticks
  <2>4. \A s \in Sessions : \/ SameBuffers(s)
                            \/ HandsOver(s) /\ \E n \in DOMAIN sessions_ : s = sessions_[n]
    <3> SUFFICES ASSUME NEW s \in Sessions
                 PROVE  \/ SameBuffers(s)
                        \/ HandsOver(s) /\ \E n \in DOMAIN sessions_ : s = sessions_[n]
      OBVIOUS
    <3>1. CASE \E n \in Replying(DOMAIN sessions_) : s = sessions_[n]
      BY <2>2, <3>1
    <3>2. CASE s \notin {sessions_[n] : n \in Replying(DOMAIN sessions_)}
      BY <1>2, <2>3, <3>2
    <3> QED
      BY <3>1, <3>2
  <2>5. \A c \in Conns : SameCounts(c)
    BY <1>4, <2>1
  <2>6. Handled
    BY <2>4, <2>5 DEF Handled
  <2> QED
    BY <1>9, <2>6
<1>10. CASE Walks
  <2>1. CASE UNCHANGED session /\ \E c \in Backlog : Accepted(c)
    BY <1>3, <1>5, <2>1
  <2>2. ASSUME running \in Receivers, Received(jobOf[running].arg),
               session' = [session EXCEPT ![local[running].pSession].recvBuffer_ =
                             @ \o [i \in 1 .. socket[files[jobOf[running].arg]].unread |->
                                     files[jobOf[running].arg]]]
        PROVE  Read(running)
    <3> DEFINE c == jobOf[running].serves
               s == local[running].pSession
               buffer == session[s].recvBuffer_ \o [i \in 1 .. socket[c].unread |-> c]
    <3>1. c \in Conns /\ files[jobOf[running].arg] = c /\ s \in Sessions
      BY <2>2, ReceiversApart
    <3>2. socket' = [socket EXCEPT ![c].unread = 0] /\ session' = [session EXCEPT ![s].recvBuffer_ = buffer]
      BY <2>2, <3>1 DEF Received
    <3>3. /\ socket'[c].sent = socket[c].sent /\ socket'[c].unread = 0
          /\ socket'[c].answers = socket[c].answers
          /\ \A b \in Conns \ {c} : SameCounts(b)
      <4> HIDE DEF c
      <4> QED
        BY <1>1, <3>1, <3>2 DEF Socket, SameCounts
    <3>4. /\ session'[s].recvBuffer_ = buffer /\ session'[s].sendBuffer_ = session[s].sendBuffer_
          /\ \A t \in Sessions \ {s} : SameBuffers(t)
      <4> HIDE DEF s, buffer
      <4> QED
        BY <1>1, <3>1, <3>2 DEF Session, SameBuffers
    <3> QED
      BY <3>3, <3>4 DEF Read
  <2> QED
    BY <1>7, <1>10, <2>1, <2>2 DEF Walks
<1>11. CASE Parks
  BY <1>3, <1>5, <1>7, <1>11 DEF Parks, sessionVars
<1>12. CASE Ends
  <2>1. UNCHANGED session /\ \E n : Closed(n)
    BY <1>12 DEF Ends, sessionVars
  <2>2. \A c \in Conns : SameCounts(c)
    BY <1>1, <2>1 DEF Closed, Socket, SameCounts
  <2> QED
    BY <1>3, <2>1, <2>2
<1>13. CASE Replies
  <2>1. /\ running \in Busy /\ jobOf[running].doFunc = "onSend" /\ local[running].at = "send"
        /\ Sent(danFd[local[running].pFd].fd)
        /\ session' = [session EXCEPT ![jobOf[running].arg].sendBuffer_ = Tail(@),
                                      ![jobOf[running].arg].isAlive_ = @ /\ TRUE]
    BY <1>13 DEF Replies, Runs, At, me, SendEnd, bound
  <2>2. PICK w \in Receivers : /\ local[w].pSession = jobOf[running].arg
                               /\ session[jobOf[running].arg].pFd_ = local[w].pFd
                               /\ danFd[local[w].pFd].fd = jobOf[w].arg
                               /\ files[jobOf[w].arg] = jobOf[w].serves
    BY <2>1, SenderServed
  <2>3. local[running].pFd = local[w].pFd /\ session[jobOf[running].arg].sendBuffer_ # <<>>
    BY <1>1, <2>1, <2>2, SenderHasReply DEF Passing
  <2> DEFINE c == jobOf[w].serves
             s == local[w].pSession
             buffer == Tail(session[s].sendBuffer_)
  <2>4. c \in Conns /\ s \in Sessions
    BY ReceiversApart
  <2>5. socket' = [socket EXCEPT ![c].answers = @ + 1]
    BY <2>1, <2>2, <2>3 DEF Sent
  <2>6. session' = [session EXCEPT ![s].sendBuffer_ = buffer, ![s].isAlive_ = @ /\ TRUE]
    BY <2>1, <2>2
  <2>7. /\ socket'[c].sent = socket[c].sent /\ socket'[c].unread = socket[c].unread
        /\ socket'[c].answers = socket[c].answers + 1
        /\ \A b \in Conns \ {c} : SameCounts(b)
    <3> HIDE DEF c
    <3> QED
      BY <1>1, <2>4, <2>5 DEF Socket, SameCounts
  <2>8. /\ session'[s].recvBuffer_ = session[s].recvBuffer_ /\ session'[s].sendBuffer_ = buffer
        /\ \A t \in Sessions \ {s} : SameBuffers(t)
    <3> HIDE DEF s, buffer
    <3> QED
      BY <1>1, <2>4, <2>6 DEF Session, SameBuffers
  <2>9. Replied(w)
    BY <2>2, <2>3, <2>7, <2>8 DEF Replied
  <2> QED
    BY <1>13, <2>2, <2>9
<1> QED
  BY <1>6, <1>7, <1>8, <1>9, <1>10, <1>11, <1>12, <1>13, NextEffects
     DEF Listens, Destruct, Assign, PopTask, AcceptStart, SendStart, sessionVars, kernelVars

(* One receiver's share of it. *)
LEMMA OwnTraffic ==
  ASSUME Untroubled, Asks, UInv, [Next]_vars, NEW w \in Receivers
  PROVE  \/ SameBuffers(local[w].pSession) /\ SameCounts(jobOf[w].serves)
         \/ SameBuffers(local[w].pSession) /\ Requested(jobOf[w].serves)
         \/ HandsOver(local[w].pSession) /\ SameCounts(jobOf[w].serves)
         \/ Read(w)
         \/ Replied(w)
<1>1. jobOf[w].serves \in Conns /\ local[w].pSession \in Sessions
  BY ReceiversApart
<1>2. CASE Stays
  BY <1>1, <1>2 DEF Stays
<1>3. CASE \E c \in Conns : Requested(c)
  BY <1>1, <1>3 DEF Requested
<1>4. CASE Handled
  BY <1>1, <1>4 DEF Handled
<1>5. ASSUME NEW v \in Receivers, Read(v) \/ Replied(v), v # w
      PROVE  SameBuffers(local[w].pSession) /\ SameCounts(jobOf[w].serves)
  <2>1. jobOf[w].serves # jobOf[v].serves /\ local[w].pSession # local[v].pSession
    BY <1>5, ReceiversApart
  <2> QED
    BY <1>1, <1>5, <2>1 DEF Read, Replied
<1> QED
  BY <1>2, <1>3, <1>4, <1>5, Traffic

(* A session from the pool has nothing in its buffers. *)
LEMMA PoolUntouched ==
  ASSUME Untroubled, Asks, UInv, [Next]_vars, NEW s \in ToSet(objs_)
  PROVE  SameBuffers(s) \/ Destruct
<1>1. /\ TypeOK /\ ReclaimedOnce /\ objs_ \in Seq(Sessions) /\ s \in Sessions
  BY DEF UInv, IInv, Serving, Bound, TypeOK, ToSet
<1>2. CASE Stays \/ \E c \in Conns : Requested(c)
  BY <1>1, <1>2 DEF Stays, Requested
<1>3. CASE Handled
  BY <1>1, <1>3 DEF Handled, ReclaimedOnce
<1>4. ASSUME NEW v \in Receivers, Read(v) \/ Replied(v)
      PROVE  SameBuffers(s)
  <2>1. local[v].pSession \notin ToSet(objs_)
    BY ReceiversApart
  <2> QED
    BY <1>1, <1>4, <2>1 DEF Read, Replied
<1> QED
  BY <1>2, <1>3, <1>4, Traffic

(* A sender at its call to send() has just come there, or waits its turn   *)
(* while others act. *)
LEMMA SenderSteps ==
  ASSUME UInv, [Next]_vars, NEW w \in Busy', jobOf'[w].doFunc = "onSend", local'[w].at = "send"
  PROVE  (SendStart /\ w = running) \/ Quietly
<1>1. /\ TypeOK /\ Scheduling /\ Passing /\ local \in [Workers -> Local]
      /\ Busy \subseteq Workers /\ NoWorker \notin Busy
  BY SchedulerAssumption DEF UInv, IInv, Serviced, TypeOK, Workers
<1>2. ASSUME w \in Busy, jobOf[w].doFunc = "onSend"
      PROVE  /\ ~ (running = NoWorker /\ ~ Launching)
             /\ running = NoWorker \/ running = w
             /\ Launching \/ Launched
  BY <1>1, <1>2, OneSender
<1>3. CASE Listens \/ Ticks
  <2>1. Busy' = Busy /\ UNCHANGED jobOf /\ running = NoWorker /\ ~ Launching
    BY <1>3 DEF Listens, Ticks, InMain, Launching
  <2> QED
    BY <1>2, <2>1
<1>4. CASE Destruct \/ PopTask("boot-pop", "boot") \/ PopTask("pop", "assign")
  <2>1. UNCHANGED jobOf /\ running = NoWorker /\ ~ Launching
    BY <1>4 DEF Destruct, PopTask, InMain, poolVars, Launching
  <2>2. Busy' = Busy
    BY <2>1 DEF Busy, Pool!Busy
  <2> QED
    BY <1>2, <2>1, <2>2
<1>5. CASE Assign("boot", "boot-launch") \/ Assign("assign", "launch")
  <2>1. /\ ~ Launching /\ ~ Launched
        /\ \E v \in Workers : /\ Busy' = Busy \cup {v} /\ local'[v].at = "start"
                              /\ \A u \in Busy : jobOf'[u] = jobOf[u]
    BY <1>1, <1>5, AssignGives DEF Launching, Launched
  <2> QED
    BY <1>2, <2>1
<1>6. CASE AcceptStart \/ RecvStart \/ SendStart
  <2>1. UNCHANGED jobOf /\ running \in Busy /\ (SendStart \/ jobOf[running].doFunc # "onSend")
    BY <1>6 DEF AcceptStart, RecvStart, SendStart, Runs, poolVars
  <2>2. Busy' = Busy
    BY <2>1 DEF Busy, Pool!Busy
  <2> QED
    BY <1>1, <1>2, <2>1, <2>2
<1>7. CASE Walks \/ Parks \/ Ends
  <2>1. /\ running \in Owners /\ Busy' \subseteq Busy /\ \A v \in Busy' : jobOf'[v] = jobOf[v]
    BY <1>7 DEF Walks, Parks, Ends
  <2> QED
    BY <1>1, <1>2, <2>1 DEF Owners
<1>8. CASE Replies
  <2>1. Pool!Finish /\ running \in Busy
    BY <1>8 DEF Replies, SendEnd, Runs
  <2>2. Busy' = Busy \ {running} /\ \A v \in Busy' : jobOf'[v] = jobOf[v]
    BY <2>1 DEF Pool!Finish, Busy, Pool!Busy
  <2> QED
    BY <1>1, <1>2, <2>1, <2>2
<1> QED
  BY <1>3, <1>4, <1>5, <1>6, <1>7, <1>8, NextEffects

(* A receiver begins with a session from the pool. *)
LEMMA StartsEmpty ==
  ASSUME UInv, Asks, RecvStart
  PROVE  /\ running \in Owners /\ UNCHANGED <<socket, jobOf>>
         /\ session'[local'[running].pSession].recvBuffer_ = <<>>
         /\ session'[local'[running].pSession].sendBuffer_ = <<>>
         /\ objs_' = Tail(objs_) /\ objs_ # <<>>
<1>1. /\ TypeOK /\ Scheduling /\ Contents
      /\ session \in [Sessions -> Session] /\ local \in [Workers -> Local]
      /\ Busy \subseteq Workers /\ objs_ \in Seq(Sessions)
  BY DEF UInv, IInv, Conserving, TypeOK
<1>2. /\ running \in Owners /\ objs_ # <<>> /\ objs_' = Tail(objs_) /\ UNCHANGED <<socket, jobOf, pc>>
      /\ \E d \in DanFds : /\ Bind(Head(objs_), d)
                           /\ local' = [local EXCEPT ![running] =
                                [Fresh EXCEPT !.at = "recv", !.pFd = d, !.pSession = Head(objs_)]]
  BY DEF RecvStart, Runs, Owners, kernelVars, poolVars, loopVars
<1>3. Head(objs_) \in ToSet(objs_) /\ Head(objs_) \in Sessions
  BY <1>1, <1>2 DEF ToSet
<1>4. local'[running].pSession = Head(objs_)
  BY <1>1, <1>2 DEF Fresh, Owners
<1>5. SameBuffers(Head(objs_))
  BY <1>1, <1>2, <1>3 DEF Bind, Session, SameBuffers
<1>6. pc # "gone"
  BY <1>1, <1>2 DEF Scheduling, Loop, Owners
<1> QED
  BY <1>1, <1>2, <1>3, <1>4, <1>5, <1>6 DEF Contents, SameBuffers

(* A session and its connection keep to each other. *)
LEMMA NextContents ==
  ASSUME Untroubled, Asks, UInv, [Next]_vars
  PROVE  Contents'
<1>1. /\ TypeOK /\ Scheduling /\ Passing /\ Contents /\ pc # "killed"
      /\ session \in [Sessions -> Session] /\ socket \in [Conns -> Socket]
      /\ local \in [Workers -> Local] /\ Busy \subseteq Workers /\ objs_ \in Seq(Sessions)
  BY DEF UInv, IInv, Serviced, Conserving, Passing, TypeOK
<1>2. IInv' /\ Passing' /\ Table' /\ Exclusive' /\ Settled'
  BY NextInvariant, NextPassing, NextTable, NextExclusive, NextSettled DEF UInv
<1>3. RecvStart => /\ session'[local'[running].pSession].recvBuffer_ = <<>>
                   /\ session'[local'[running].pSession].sendBuffer_ = <<>>
                   /\ objs_' = Tail(objs_) /\ objs_ # <<>>
  BY StartsEmpty
<1>4. ASSUME NEW w \in Receivers'
      PROVE  /\ session'[local'[w].pSession].recvBuffer_ \in Seq({jobOf'[w].serves})
             /\ session'[local'[w].pSession].sendBuffer_ \in Seq({jobOf'[w].serves})
  <2>1. CASE w \notin Receivers
    <3>1. RecvStart /\ w = running
      BY <1>4, <2>1, ReceiverSteps
    <3>2. \A S : <<>> \in Seq(S)
      BY EmptySeq
    <3> QED
      BY <1>3, <3>1, <3>2
  <2>2. CASE w \in Receivers
    <3> DEFINE s == local[w].pSession
               c == jobOf[w].serves
               r == session[s].recvBuffer_
               t == session[s].sendBuffer_
    <3>1. /\ jobOf'[w] = jobOf[w] /\ local'[w].pSession = s
          /\ r \in Seq({c}) /\ t \in Seq({c})
          /\ socket[c].unread \in Nat
      <4>1. c \in Conns
        BY <2>2, ReceiversApart
      <4> QED
        BY <1>1, <1>4, <2>2, <4>1, ReceiverSteps DEF Contents, Socket
    <3>2. CASE SameBuffers(s)
      BY <3>1, <3>2 DEF SameBuffers
    <3>3. CASE HandsOver(s)
      <4>1. Head(r) \in {c} /\ Tail(r) \in Seq({c}) /\ Append(t, Head(r)) \in Seq({c})
        BY <3>1, <3>3, HeadTailProperties, AppendProperties DEF HandsOver
      <4> QED
        BY <3>1, <3>3, <4>1 DEF HandsOver
    <3>4. CASE Read(w)
      <4>1. [i \in 1 .. socket[c].unread |-> c] \in Seq({c})
        BY <3>1, Numbered
      <4>2. r \o [i \in 1 .. socket[c].unread |-> c] \in Seq({c})
        BY <3>1, <4>1, ConcatProperties
      <4> QED
        BY <3>1, <3>4, <4>2 DEF Read
    <3>5. CASE Replied(w)
      <4>1. Tail(t) \in Seq({c})
        BY <3>1, <3>5, HeadTailProperties DEF Replied
      <4> QED
        BY <3>1, <3>5, <4>1 DEF Replied
    <3> QED
      BY <2>2, <3>2, <3>3, <3>4, <3>5, OwnTraffic DEF Requested
  <2> QED
    BY <2>1, <2>2
<1>5. ASSUME NEW s \in ToSet(objs_'), pc' # "gone"
      PROVE  session'[s].recvBuffer_ = <<>> /\ session'[s].sendBuffer_ = <<>>
  <2>1. pc # "gone" /\ ~ Destruct
    BY <1>5, StoppedStays DEF Destruct, Goto
  <2>2. s \in ToSet(objs_)
    <3>1. CASE RecvStart
      <4>1. objs_ # <<>> /\ objs_' = Tail(objs_)
        BY <1>3, <3>1
      <4>2. \A i \in DOMAIN objs_' : i + 1 \in DOMAIN objs_ /\ objs_'[i] = objs_[i + 1]
        BY <1>1, <4>1
      <4> QED
        BY <1>5, <4>2 DEF ToSet
    <3> QED
      BY <1>5, <2>1, <3>1, SessionSteps
  <2> QED
    BY <1>1, <2>1, <2>2, PoolUntouched DEF Contents, SameBuffers
<1>6. ASSUME NEW w \in Busy', jobOf'[w].doFunc = "onSend", local'[w].at = "send"
      PROVE  local'[w].pSendMsg = Head(session'[jobOf'[w].arg].sendBuffer_)
  <2>1. CASE SendStart /\ w = running
    <3>1. /\ UNCHANGED <<jobOf, session>> /\ running \in Workers
          /\ local' = [local EXCEPT ![running] =
               [Fresh EXCEPT !.at = "send", !.pFd = boundFd,
                             !.pSendMsg = Head(session[jobOf[running].arg].sendBuffer_)]]
      BY <1>1, <2>1 DEF SendStart, Runs, bound, poolVars, sessionVars
    <3>2. local'[running].pSendMsg = Head(session[jobOf[running].arg].sendBuffer_)
      BY <1>1, <3>1 DEF Fresh
    <3> QED
      BY <2>1, <3>1, <3>2
  <2>2. CASE Quietly
    BY <1>1, <1>6, <2>2 DEF Quietly, sessionVars, Contents
  <2> QED
    BY <1>6, <2>1, <2>2, SenderSteps
<1> QED
  BY <1>4, <1>5, <1>6 DEF Contents

(* What has been closed is not opened again. *)
LEMMA ClosedStays ==
  ASSUME UInv, [Next]_vars, NEW c \in Conns, socket[c].at = "closed"
  PROVE  socket'[c].at = "closed"
<1>1. KernelCall /\ socket \in [Conns -> Socket]
  BY KernelCalls DEF UInv, IInv, TypeOK, Scheduling, Serving, Bound
<1>2. CASE PeerStep
  BY <1>1, <1>2 DEF PeerStep, Connect, Request, Shut, Reset, Stall, Connected, Socket
<1>3. CASE UNCHANGED socket
  BY <1>3
<1>4. CASE \E b \in Backlog : Accepted(b)
  BY <1>1, <1>4 DEF Accepted, Backlog, Socket
<1>5. CASE \E n \in Fds : Received(n) \/ Sent(n)
  BY <1>1, <1>5 DEF Received, Sent, Socket
<1>6. CASE \E n \in Fds : Closed(n)
  BY <1>1, <1>6 DEF Closed, Socket
<1> QED
  BY <1>1, <1>2, <1>3, <1>4, <1>5, <1>6 DEF KernelCall

(* Only a receiver reads from a connection, or has a reply sent to it. *)
LEMMA NextUnread ==
  ASSUME Untroubled, Asks, UInv, [Next]_vars
  PROVE  Unread'
<1>1. TypeOK /\ Unread
  BY DEF UInv, IInv, Conserving
<1> SUFFICES ASSUME NEW c \in Conns, socket'[c].at # "closed", \A w \in Receivers' : jobOf'[w].serves # c
             PROVE  socket'[c].sent = socket'[c].unread /\ socket'[c].answers = 0
  BY DEF Unread
<1>2. \A w \in Receivers : jobOf[w].serves # c
  <2> SUFFICES ASSUME NEW w \in Receivers, jobOf[w].serves = c
               PROVE  FALSE
    OBVIOUS
  <2>1. w \notin Receivers'
    BY ReceiverSteps
  <2>2. Ends /\ w = running
    BY <2>1, ReceiverSteps
  <2>3. Closed(jobOf[w].arg) /\ files[jobOf[w].arg] = c
    BY <2>2, ReceiversApart DEF Ends
  <2>4. socket \in [Conns -> Socket]
    BY <1>1 DEF TypeOK
  <2> QED
    BY <2>3, <2>4 DEF Closed, Socket
<1>3. socket[c].sent = socket[c].unread /\ socket[c].answers = 0
  BY <1>1, <1>2, ClosedStays DEF Unread
<1>4. ASSUME NEW w \in Receivers, Read(w) \/ Replied(w)
      PROVE  SameCounts(c)
  BY <1>2, <1>4 DEF Read, Replied
<1>5. SameCounts(c) \/ Requested(c)
  BY <1>4, Traffic DEF Stays, Requested, Handled
<1> QED
  BY <1>3, <1>5 DEF SameCounts, Requested

(* No request of a served connection gets lost on its way. *)
LEMMA NextConserved ==
  ASSUME Untroubled, Asks, UInv, [Next]_vars
  PROVE  RequestsConserved'
<1>1. /\ TypeOK /\ Table /\ Exclusive /\ RequestsConserved /\ Unread
      /\ session \in [Sessions -> Session] /\ socket \in [Conns -> Socket]
  BY DEF UInv, IInv, Serviced, Conserving, TypeOK
<1> SUFFICES ASSUME NEW w \in Receivers'
             PROVE  LET c == jobOf'[w].serves
                        s == session'[local'[w].pSession]
                    IN  socket'[c].sent = socket'[c].unread + Len(s.recvBuffer_) + Len(s.sendBuffer_)
                                            + socket'[c].answers
  BY DEF RequestsConserved, Receivers
<1>2. CASE w \notin Receivers
  <2>1. RecvStart /\ w = running
    BY <1>2, ReceiverSteps
  <2>2. /\ w \in Owners /\ UNCHANGED <<socket, jobOf>>
        /\ session'[local'[w].pSession].recvBuffer_ = <<>>
        /\ session'[local'[w].pSession].sendBuffer_ = <<>>
    BY <2>1, StartsEmpty
  <2>3. jobOf[w].serves \in Conns /\ socket[jobOf[w].serves].at = "open"
    <3>1. jobOf[w] \in Task /\ jobOf[w].doFunc = "recvMsgFunc"
      BY <1>1, <2>1, <2>2 DEF RecvStart, Runs, Owners, TypeOK
    <3> QED
      BY <1>1, <2>2, <3>1, TasksTyped DEF Exclusive, Table
  <2>4. \A v \in Receivers : jobOf[v].serves # jobOf[w].serves
    BY <1>2, <2>2, ReceiversApart
  <2>5. socket[jobOf[w].serves].sent = socket[jobOf[w].serves].unread /\ socket[jobOf[w].serves].answers = 0
    BY <1>1, <2>3, <2>4 DEF Unread
  <2>6. socket[jobOf[w].serves].unread \in Nat
    BY <1>1, <2>3 DEF Socket
  <2> QED
    BY <2>2, <2>5, <2>6
<1>3. CASE w \in Receivers
  <2>1. PICK c \in Conns : c = jobOf[w].serves
    BY <1>3, ReceiversApart
  <2>2. PICK s \in Sessions : s = local[w].pSession
    BY <1>3, ReceiversApart
  <2>3. jobOf'[w] = jobOf[w] /\ local'[w].pSession = s
    BY <1>3, <2>2, ReceiverSteps
  <2> DEFINE r == session[s].recvBuffer_
             t == session[s].sendBuffer_
  <2>4. /\ r \in Seq(Conns) /\ t \in Seq(Conns) /\ Len(r) \in Nat /\ Len(t) \in Nat
        /\ socket[c].sent \in Nat /\ socket[c].unread \in Nat /\ socket[c].answers \in Nat
    BY <1>1 DEF Session, Socket
  <2>5. socket[c].sent = socket[c].unread + Len(r) + Len(t) + socket[c].answers
    BY <1>1, <1>3, <2>1, <2>2 DEF RequestsConserved, Receivers
  <2> SUFFICES socket'[c].sent = socket'[c].unread + Len(session'[s].recvBuffer_)
                                   + Len(session'[s].sendBuffer_) + socket'[c].answers
    BY <2>1, <2>3
  <2>6. CASE SameBuffers(s) /\ SameCounts(c)
    BY <2>5, <2>6 DEF SameBuffers, SameCounts
  <2>7. CASE SameBuffers(s) /\ Requested(c)
    <3>1. /\ socket'[c].sent = socket[c].sent + 1 /\ socket'[c].unread = socket[c].unread + 1
          /\ socket'[c].answers = socket[c].answers
      BY <2>7 DEF Requested
    <3>2. session'[s].recvBuffer_ = r /\ session'[s].sendBuffer_ = t
      BY <2>7 DEF SameBuffers
    <3> HIDE DEF r, t
    <3>3. PICK u \in Nat, k \in Nat, m \in Nat, a \in Nat :
             /\ u = socket[c].unread /\ a = socket[c].answers /\ k = Len(r) /\ m = Len(t)
      BY <2>4
    <3>4. u + k + m + a + 1 = u + 1 + k + m + a
      OBVIOUS
    <3> QED
      BY <2>5, <3>1, <3>2, <3>3, <3>4
  <2>8. CASE HandsOver(s) /\ SameCounts(c)
    <3>1. Head(r) \in Conns /\ Len(Tail(r)) = Len(r) - 1
      BY <2>4, <2>8, HeadTailProperties DEF HandsOver
    <3>2. Len(Append(t, Head(r))) = Len(t) + 1
      BY <2>4, <3>1, AppendProperties
    <3>3. /\ socket'[c].sent = socket[c].sent /\ socket'[c].unread = socket[c].unread
          /\ socket'[c].answers = socket[c].answers
      BY <2>8 DEF SameCounts
    <3>4. /\ Len(session'[s].recvBuffer_) = Len(r) - 1
          /\ Len(session'[s].sendBuffer_) = Len(t) + 1
      BY <2>8, <3>1, <3>2 DEF HandsOver
    <3> HIDE DEF r, t
    <3>5. PICK k \in Nat, m \in Nat : k = Len(r) /\ m = Len(t)
      BY <2>4
    <3>6. PICK x, y : x = Len(session'[s].recvBuffer_) /\ y = Len(session'[s].sendBuffer_)
      OBVIOUS
    <3>7. socket[c].sent = socket[c].unread + k + m + socket[c].answers
      BY <2>5, <3>5, <3>6
    <3>8. x = k - 1 /\ y = m + 1
      BY <3>4, <3>5, <3>6
    <3>9. PICK u \in Nat, a \in Nat : u = socket[c].unread /\ a = socket[c].answers
      BY <2>4
    <3>10. u + k + m + a = u + x + y + a
      BY <3>8
    <3> QED
      BY <3>3, <3>5, <3>6, <3>7, <3>9, <3>10
  <2>9. CASE Read(w)
    <3> DEFINE requests == [i \in 1 .. socket[c].unread |-> c]
    <3>1. requests \in Seq(Conns) /\ Len(requests) = socket[c].unread
      <4>1. requests \in Seq(Conns)
        BY <2>4, Numbered
      <4>2. DOMAIN requests = 1 .. socket[c].unread
        OBVIOUS
      <4> HIDE DEF requests
      <4> QED
        BY <2>4, <4>1, <4>2, LenProperties
    <3>2. Len(r \o requests) = Len(r) + Len(requests)
      <4> HIDE DEF requests
      <4> QED
        BY <2>4, <3>1, ConcatProperties
    <3>3. /\ socket'[c].sent = socket[c].sent /\ socket'[c].unread = 0
          /\ socket'[c].answers = socket[c].answers
          /\ session'[s].recvBuffer_ = r \o requests /\ session'[s].sendBuffer_ = t
      BY <2>1, <2>2, <2>9 DEF Read
    <3> HIDE DEF r, t, requests
    <3> QED
      BY <2>4, <2>5, <3>1, <3>2, <3>3
  <2>10. CASE Replied(w)
    <3>1. Len(Tail(t)) = Len(t) - 1
      BY <2>2, <2>4, <2>10, HeadTailProperties DEF Replied
    <3>2. /\ socket'[c].sent = socket[c].sent /\ socket'[c].unread = socket[c].unread
          /\ socket'[c].answers = socket[c].answers + 1
      BY <2>1, <2>2, <2>10 DEF Replied
    <3>3. /\ Len(session'[s].recvBuffer_) = Len(r)
          /\ Len(session'[s].sendBuffer_) = Len(t) - 1
      BY <2>1, <2>2, <2>10, <3>1 DEF Replied
    <3> HIDE DEF r, t
    <3>4. PICK k \in Nat, m \in Nat : k = Len(r) /\ m = Len(t)
      BY <2>4
    <3>5. PICK x, y : x = Len(session'[s].recvBuffer_) /\ y = Len(session'[s].sendBuffer_)
      OBVIOUS
    <3>6. socket[c].sent = socket[c].unread + k + m + socket[c].answers
      BY <2>5, <3>4, <3>5
    <3>7. x = k /\ y = m - 1
      BY <3>3, <3>4, <3>5
    <3>8. PICK u \in Nat, a \in Nat : u = socket[c].unread /\ a = socket[c].answers
      BY <2>4
    <3>9. u + k + m + a = u + x + y + (a + 1)
      BY <3>7
    <3> QED
      BY <3>2, <3>4, <3>5, <3>6, <3>8, <3>9
  <2> QED
    BY <1>3, <2>1, <2>2, <2>6, <2>7, <2>8, <2>9, <2>10, OwnTraffic
<1> QED
  BY <1>2, <1>3

-----------------------------------------------------------------------------
(* The theorems. *)

(* At first nothing is open, nobody runs, and all buffers are empty. *)
LEMMA InitUntroubled ==
  ASSUME Init
  PROVE  UInv
<1>1. /\ Busy = {} /\ running = NoWorker /\ undoTasksQueue_ = <<>> /\ pc = "start" /\ events = {}
  BY DEF Init, SchedulerInit, Pool!Init, Busy, Pool!Busy
<1>2. /\ files = [n \in Fds |-> Free] /\ DOMAIN interest = {} /\ DOMAIN sessions_ = {}
      /\ socket = [c \in Conns |-> [at |-> "away", sent |-> 0, unread |-> 0, answers |-> 0,
                                    shut |-> FALSE, broken |-> FALSE, full |-> FALSE]]
      /\ session = [s \in Sessions |-> [pFd_ |-> NoFd, isAlive_ |-> FALSE,
                                         recvBuffer_ |-> <<>>, sendBuffer_ |-> <<>>]]
  BY DEF Init, KernelInit
<1>3. IInv /\ objs_ \in Seq(Sessions)
  BY InitInvariant DEF IInv, TypeOK
<1>4. Owners = {} /\ Receivers = {} /\ Unclaimed = {} /\ Tasks = {}
  BY <1>1, EmptySeq DEF Owners, Receivers, Unclaimed, Tasks, Queue
<1>5. Table
  BY <1>2, KernelAssumption DEF Table
<1>6. Exclusive /\ Reachable /\ Passing /\ Settled
  BY <1>1, <1>2, <1>4 DEF Exclusive, Reachable, Passing, Settled
<1>7. Calm
  BY <1>2, <1>4 DEF Calm
<1>8. Announced /\ Receiving /\ Attended /\ RequestsConserved
  BY <1>1, <1>2, <1>3, <1>4, SchedulerAssumption
     DEF Announced, Receiving, Attended, RequestsConserved
<1>9. Contents
  BY <1>1, <1>2, <1>3, <1>4 DEF Contents, ToSet
<1>10. Unread
  BY <1>2 DEF Unread
<1> QED
  BY <1>3, <1>5, <1>6, <1>7, <1>8, <1>9, <1>10 DEF UInv, Serviced, Conserving

(* No step leads out of it. *)
LEMMA NextUntroubled ==
  ASSUME Untroubled, UInv, [Next]_vars
  PROVE  UInv'
<1>1. IInv'
  BY NextInvariant DEF UInv
<1>2. Serviced'
  BY NextTable, NextExclusive, NextReachable, NextCalm, NextPassing, NextSettled DEF Serviced
<1>3. Conserving'
  BY NextAnnounced, NextReceiving, NextAttended, NextContents, NextUnread, NextConserved
     DEF Conserving
<1> QED
  BY <1>1, <1>2, <1>3 DEF UInv

(* Where no connection is in trouble, the coroutines, descriptors and      *)
(* sessions belong together as UInv says. *)
THEOREM UntroubledInductive ==
  ASSUME Untroubled
  PROVE  Spec => []UInv
<1>1. Init => UInv
  BY InitUntroubled
<1>2. UInv /\ [Next]_vars => UInv'
  BY NextUntroubled
<1> QED
  BY <1>1, <1>2, PTL DEF Spec

(* Every parked coroutine is registered with epoll under its own, open     *)
(* descriptor, and broadcast() will find it. *)
THEOREM AlwaysReachable ==
  ASSUME Untroubled
  PROVE  Spec => []ParkedReachable
<1>1. UInv => ParkedReachable
  <2> SUFFICES ASSUME UInv, NEW w \in Busy \ {running}, Started(w)
               PROVE  LET d == local[w].pFd
                          n == danFd[d].fd
                      IN  /\ Live(d) /\ danFd[d].lightThreadId = w
                          /\ files[n] = jobOf[w].serves
                          /\ n \in DOMAIN interest /\ interest[n].ptr = d
                          /\ w \in DOMAIN waitingFds_ /\ waitingFds_[w] = d
    BY DEF ParkedReachable
  <2>1. TypeOK /\ Scheduling /\ Passing /\ Exclusive /\ Reachable /\ Recorded
    BY DEF UInv, IInv, Serviced, Scheduling
  <2>2. jobOf[w].doFunc # "onSend"
    BY <2>1, OneSender DEF Started
  <2>3. w \in Owners \ {running}
    BY <2>2 DEF Owners
  <2>4. Live(local[w].pFd) /\ danFd[local[w].pFd].fd = jobOf[w].arg
    BY <2>1, <2>3, OwnerHolds
  <2> QED
    BY <2>1, <2>3, <2>4 DEF Exclusive, Reachable, Recorded
<1> QED
  BY <1>1, UntroubledInductive, PTL

(* A coroutine closes only the descriptor of the connection it serves. *)
THEOREM OnlyOwnClosed ==
  ASSUME Untroubled
  PROVE  Spec => ClosesOwn
<1> DEFINE Own == \A n \in Fds : files[n] # Free /\ files'[n] = Free =>
                    running \in Busy /\ jobOf[running].serves = files[n]
<1>1. UInv /\ [Next]_vars => [Own]_vars
  <2> SUFFICES ASSUME UInv, [Next]_vars, NEW n \in Fds, files[n] # Free, files'[n] = Free
               PROVE  running \in Busy /\ jobOf[running].serves = files[n]
    OBVIOUS
  <2>1. files \in [Fds -> Conns \cup {Listener, Free}] /\ Exclusive /\ TypeOK
    BY DEF UInv, IInv, Serviced, TypeOK
  <2>2. CASE Ends
    BY <2>1, <2>2 DEF Ends, Closed, Owners, Exclusive
  <2>3. ~ Listened
    BY <2>1, KernelAssumption DEF Listened
  <2>4. \A c \in Backlog : ~ Accepted(c)
    <3> SUFFICES ASSUME NEW c \in Backlog, files' = [files EXCEPT ![LowestFree] = c]
                 PROVE  FALSE
      BY DEF Accepted
    <3>1. c # Free
      BY KernelAssumption DEF Backlog
    <3> HIDE DEF LowestFree
    <3> QED
      BY <2>1, <3>1
  <2> QED
    BY <2>2, <2>3, <2>4, NextEffects
       DEF Quietly, Listens, Ticks, Destruct, Assign, PopTask, AcceptStart, RecvStart, SendStart,
           Walks, Parks, Replies, kernelVars
<1> QED
  BY <1>1, UntroubledInductive, PTL DEF Spec, ClosesOwn

(* No signal and no stale pointer kills the process. *)
THEOREM NeverKilled ==
  ASSUME Untroubled
  PROVE  Spec => [](pc # "killed")
<1>1. UInv => pc # "killed"
  BY DEF UInv, Serviced, Passing
<1> QED
  BY <1>1, UntroubledInductive, PTL

(* While peers stay and keep reading, no request of a served connection is *)
(* lost and none is answered twice. *)
THEOREM RequestsAreConserved ==
  ASSUME Asks, PeersStay
  PROVE  Spec => []RequestsConserved
<1>1. Untroubled
  BY DEF Untroubled
<1>2. UInv => RequestsConserved
  BY DEF UInv, Conserving
<1> QED
  BY <1>1, <1>2, UntroubledInductive, PTL

(* While peers stay and keep reading, a reply goes to who asked for it. *)
THEOREM RepliesGoBack ==
  ASSUME Asks, PeersStay
  PROVE  Spec => ReplyToSender
<1> DEFINE Back == \A c \in Conns : socket'[c].answers # socket[c].answers =>
                     local[running].pSendMsg = c
<1>1. Untroubled
  BY DEF Untroubled
<1>2. UInv /\ [Next]_vars => [Back]_vars
  <2> SUFFICES ASSUME UInv, [Next]_vars, NEW c \in Conns, socket'[c].answers # socket[c].answers
               PROVE  local[running].pSendMsg = c
    OBVIOUS
  <2>1. ~ SameCounts(c) /\ ~ Requested(c)
    BY DEF SameCounts, Requested
  <2>2. PICK w \in Receivers : Replies /\ local[w].pSession = jobOf[running].arg /\ Replied(w)
    <3>1. ~ Stays /\ ~ Handled /\ \A b \in Conns : ~ Requested(b)
      BY <2>1 DEF Stays, Handled, Requested
    <3>2. \A w \in Receivers : ~ Read(w)
      BY <2>1 DEF Read
    <3> QED
      BY <1>1, <3>1, <3>2, Traffic
  <2>3. c = jobOf[w].serves
    BY <2>1, <2>2 DEF Replied
  <2>4. /\ session[local[w].pSession].sendBuffer_ \in Seq({c})
        /\ session[local[w].pSession].sendBuffer_ # <<>>
    BY <2>2, <2>3 DEF UInv, Conserving, Contents, Replied
  <2>5. local[running].pSendMsg = Head(session[local[w].pSession].sendBuffer_)
    BY <2>2 DEF UInv, Conserving, Contents, Replies, Runs, At, me
  <2> QED
    BY <2>4, <2>5, HeadTailProperties
<1> QED
  BY <1>1, <1>2, UntroubledInductive, PTL DEF Spec, ReplyToSender

=============================================================================
