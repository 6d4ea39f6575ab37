--------------------------- MODULE SchedulerProofs ---------------------------
(***************************************************************************)
(* Proofs about Server: what holds of the scheduler and the coroutines for *)
(* any connections, descriptors, workers and objects, and whatever peers   *)
(* do.  Its part of Server's inductive invariant is named Scheduling; the  *)
(* parts it is made of come first, then one lemma per step.                *)
(***************************************************************************)
EXTENDS Server, SequenceLemmas, FiniteSetTheorems, FunctionTheorems

(***************************************************************************)
(* What the operators of Server that choose a value return: the lowest     *)
(* free descriptor, the order in which a map is walked through, the pool   *)
(* of sessions as it is first filled.                                      *)
(***************************************************************************)

(* The kernel hands out a free descriptor, if there is one. *)
LEMMA LowestFreeIsFree ==
  ASSUME FreeFds # {}
  PROVE  LowestFree \in FreeFds
<1>1. FreeFds \subseteq Nat
  BY KernelAssumption DEF FreeFds, Fds
<1> QED
  BY <1>1, Least DEF LowestFree

Ascends(f, N) ==
  /\ f \in [1 .. Cardinality(N) -> N]
  /\ \A i, j \in 1 .. Cardinality(N) : i < j => f[i] < f[j]

(* The numbers up to k, or some of them, can be put in ascending order: a  *)
(* least k for which they cannot would be the greatest number to put last. *)
LEMMA Ascendable ==
  ASSUME NEW k \in Nat, NEW N \in SUBSET (1 .. k)
  PROVE  IsFiniteSet(N) /\ \E f : Ascends(f, N)
<1> DEFINE T == {n \in Nat : \E M \in SUBSET (1 .. n) : \A f : ~ Ascends(f, M)}
<1>1. ASSUME NEW n \in Nat, NEW M \in SUBSET (1 .. n)
      PROVE  IsFiniteSet(M) /\ Cardinality(M) \in Nat
  <2>1. IsFiniteSet(1 .. n)
    BY FS_Interval
  <2>2. IsFiniteSet(M)
    BY <2>1, FS_Subset
  <2> QED
    BY <2>2, FS_CardinalityType
<1>2. ASSUME T # {}
      PROVE  FALSE
  <2>1. PICK n \in T : \A m \in T : n <= m
    BY <1>2, Least
  <2>2. PICK M \in SUBSET (1 .. n) : \A f : ~ Ascends(f, M)
    BY <2>1
  <2>3. CASE n \notin M
    <3>1. n # 0
      <4>1. SUFFICES ASSUME n = 0 PROVE FALSE
        OBVIOUS
      <4>2. M = {}
        BY <4>1, <2>2
      <4>3. Cardinality(M) = 0
        BY <4>2, FS_EmptySet
      <4>4. Ascends([i \in 1 .. 0 |-> 0], M)
        BY <4>3 DEF Ascends
      <4> QED
        BY <2>2, <4>4
    <3>2. n - 1 \in Nat /\ M \in SUBSET (1 .. n - 1)
      BY <2>1, <2>2, <2>3, <3>1
    <3>3. n - 1 \in T
      BY <2>2, <3>2
    <3> QED
      BY <2>1, <3>2, <3>3
  <2>4. CASE n \in M
    <3> DEFINE L == M \ {n}
               c == Cardinality(L)
    <3>1. n \in Nat /\ n - 1 \in Nat /\ L \in SUBSET (1 .. n - 1)
      BY <2>1, <2>2, <2>4
    <3>2. c \in Nat /\ Cardinality(M) = c + 1
      <4>1. IsFiniteSet(M) /\ Cardinality(M) \in Nat
        BY <1>1, <2>2, <3>1
      <4>2. c = Cardinality(M) - 1
        BY <2>4, <4>1, FS_RemoveElement
      <4>3. c \in Nat
        BY <1>1, <3>1
      <4> QED
        BY <4>1, <4>2, <4>3
    <3>3. n - 1 \notin T
      BY <2>1, <3>1
    <3>4. PICK f : Ascends(f, L)
      BY <3>1, <3>3
    <3> HIDE DEF c, L
    <3>5. Ascends([i \in 1 .. c + 1 |-> IF i = c + 1 THEN n ELSE f[i]], M)
      <4>1. f \in [1 .. c -> L] /\ \A i, j \in 1 .. c : i < j => f[i] < f[j]
        BY <3>4 DEF Ascends, c
      <4>2. \A l \in L : l \in M /\ l \in Nat /\ l < n
        BY <3>1 DEF L
      <4>3. \A i \in 1 .. c : f[i] \in M /\ f[i] < n
        BY <4>1, <4>2
      <4> QED
        BY <2>4, <3>2, <4>1, <4>3 DEF Ascends
    <3> QED
      BY <2>2, <3>5
  <2> QED
    BY <2>3, <2>4
<1> QED
  BY <1>1, <1>2

(* The iteration over a map meets each of its descriptors once. *)
LEMMA Walk ==
  ASSUME NEW N \in SUBSET Fds
  PROVE  /\ Cardinality(N) \in Nat /\ IsFiniteSet(N)
         /\ Ascending(N) \in [1 .. Cardinality(N) -> N]
         /\ \A i, j \in 1 .. Cardinality(N) : Ascending(N)[i] = Ascending(N)[j] => i = j
         /\ \A n \in N : \E i \in 1 .. Cardinality(N) : Ascending(N)[i] = n
<1>1. IsFiniteSet(N) /\ \E f : Ascends(f, N)
  BY KernelAssumption, Ascendable DEF Fds
<1>2. Ascends(Ascending(N), N)
  BY <1>1 DEF Ascends, Ascending
<1>3. N \subseteq Nat /\ Cardinality(N) \in Nat
  BY <1>1, KernelAssumption, FS_CardinalityType DEF Fds
<1> DEFINE f == Ascending(N)
           c == Cardinality(N)
<1>4. f \in [1 .. c -> N] /\ \A i, j \in 1 .. c : i < j => f[i] < f[j]
  BY <1>2 DEF Ascends
<1> HIDE DEF f, c
<1>5. \A i, j \in 1 .. c : f[i] = f[j] => i = j
  <2>1. \A i \in 1 .. c : f[i] \in Nat
    BY <1>3, <1>4
  <2> QED
    BY <1>3, <1>4, <2>1 DEF c
<1>6. f \in Surjection(1 .. c, N)
  <2>1. f \in Injection(1 .. c, N)
    BY <1>4, <1>5, Fun_IsInj
  <2>2. Cardinality(1 .. c) = c
    BY <1>3, FS_Interval DEF c
  <2> QED
    BY <1>1, <2>1, <2>2, FS_Injection DEF c
<1> QED
  BY <1>1, <1>3, <1>4, <1>5, <1>6, Fun_SurjectionProperties DEF f, c

(* The pool is filled with each session once. *)
LEMMA PoolFilled ==
  SetToSeq(Sessions) \in Seq(Sessions) /\ IsInjective(SetToSeq(Sessions))
<1> DEFINE c == Cardinality(Sessions)
<1>1. c \in Nat /\ ExistsBijection(1 .. c, Sessions)
  BY SessionsAssumption, FS_CardinalityType
<1>2. PICK f \in Bijection(1 .. c, Sessions) : TRUE
  BY <1>1, Fun_ExistsBij
<1>3. f \in [1 .. c -> Sessions] /\ IsInjective(f)
  BY <1>2 DEF Bijection, Injection
<1>4. SetToSeq(Sessions) \in [1 .. c -> Sessions] /\ IsInjective(SetToSeq(Sessions))
  BY <1>3 DEF SetToSeq
<1> QED
  BY <1>1, <1>4, SeqDef

(* Two sets of numbers of which one is the other, shifted by one. *)
LEMMA Shifted ==
  ASSUME NEW I, I \subseteq Int, IsFiniteSet(I),
         NEW J, J = {i \in Int : i + 1 \in I}
  PROVE  IsFiniteSet(J) /\ Cardinality(J) = Cardinality(I)
<1> DEFINE f == [i \in I |-> i - 1]
<1>1. f \in Bijection(I, J)
  <2>1. f \in [I -> J] /\ \A a, b \in I : f[a] = f[b] => a = b
    OBVIOUS
  <2>2. \A j \in J : \E i \in I : f[i] = j
    <3>1. \A j \in J : j + 1 \in I /\ f[j + 1] = j
      OBVIOUS
    <3> QED
      BY <3>1
  <2> QED
    BY <2>1, <2>2, Fun_IsBij
<1> QED
  BY <1>1, Fun_ExistsBij, FS_Bijection

(* A function on the numbers from 1 to k is a sequence. *)
LEMMA Numbered ==
  ASSUME NEW S, NEW k \in Nat, NEW f \in [1 .. k -> S]
  PROVE  f \in Seq(S)
BY SeqDef

(***************************************************************************)
(* The scheduler and the coroutines.                                       *)
(***************************************************************************)

WokenAt == {"accept-woken", "recv-woken", "send-woken"}
AgainAt == {"accept-again", "recv-again", "send-again"}
EndAt == {"accept-end", "recv-end", "send-end"}

PlacesOf ==
  [acceptFunc  |-> {"start", "accept", "accept-woken", "accept-again", "accept-end"},
   recvMsgFunc |-> {"start", "recv", "recv-woken", "recv-again", "recv-end"},
   onSend      |-> {"start", "send", "send-woken", "send-again", "send-end"}]

Launching == pc \in {"boot-launch", "launch"}
Launched == pc \in {"boot-pop", "pop"}

(* The coroutines that close the descriptor of their danFd_t. *)
Owner(w) == jobOf[w].doFunc # "onSend" /\ Started(w)

(* Where the coroutines stand, and what run() is doing meanwhile. *)
Placed ==
  /\ \A w \in Busy : local[w].at \in PlacesOf[jobOf[w].doFunc]
  /\ \A w \in Busy : Started(w) => local[w].pFd \in DanFds
  /\ \A w \in Busy \ {running} : Started(w) => local[w].at \in WokenAt
  /\ \A w \in Busy : ~ Started(w) => \/ Launching /\ running = NoWorker
                                     \/ Launched /\ running = w
  /\ \A v, w \in Busy : ~ Started(v) /\ ~ Started(w) => v = w
  /\ running # NoWorker =>
       /\ Launched \/ Broadcasting \/ pc \in {"dispatch", "killed"}
       /\ Launched => local[running].at \notin WokenAt \cup AgainAt

(* A coroutine that broadcast() has woken is on its way out. *)
Leaving ==
  Broadcasting /\ running # NoWorker =>
    \/ local[running].at \in EndAt
    \/ local[running].at \in WokenAt /\ danFd[local[running].pFd].readyEvents = {pc}

(* What run() has in hand. *)
Loop ==
  /\ events # {} => pc \in {"dispatch", "killed"}
  /\ unnotified # {} => Broadcasting \/ pc = "killed"
  /\ pc \in {"start", "exited", "gone"} => Busy = {}

(* A live danFd_t has one owner, whose descriptor it is of. *)
Owned ==
  /\ \A w \in Busy : Owner(w) => Live(local[w].pFd) /\ danFd[local[w].pFd].fd = jobOf[w].arg
  /\ \A v, w \in Busy : Owner(v) /\ Owner(w) /\ local[v].pFd = local[w].pFd => v = w
  /\ \A d \in DanFds : Live(d) => \E w \in Busy : Owner(w) /\ local[w].pFd = d

(* broadcast() will find every parked coroutine. *)
Recorded ==
  /\ \A w \in Busy \ {running} :
       Started(w) => w \in DOMAIN waitingFds_ /\ waitingFds_[w] = local[w].pFd
  /\ Broadcasting => Busy \ {running} \subseteq unnotified

(* One event of a batch wakes a coroutine, and no other is about its danFd_t. *)
Batched ==
  /\ \A e, f \in events : e.ptr = f.ptr => e = f
  /\ pc = "dispatch" /\ running # NoWorker =>
       /\ danFd[local[running].pFd].lightThreadId = running
       /\ \A e \in events : e.ptr # local[running].pFd

Scheduling == Placed /\ Leaving /\ Loop /\ Owned /\ Recorded /\ RegistrationLive /\ Batched

-----------------------------------------------------------------------------
(* RegistrationLive, taken apart. *)

(* The pointer is to a live danFd_t, on which its coroutine is parked. *)
Named(d) == /\ Live(d)
            /\ danFd[d].lightThreadId \in Busy
            /\ local[danFd[d].lightThreadId].at \in WokenAt
            /\ local[danFd[d].lightThreadId].pFd = d

Registered ==
  /\ \A n \in DOMAIN interest : danFd[interest[n].ptr].fd = n /\ Named(interest[n].ptr)
  /\ \A e \in events : Named(e.ptr)

(* RegistrationLive, said of a set of pointers, is Registered, which speaks of     *)
(* epoll's table and of the batch apart. *)
LEMMA RegisteredIsLive ==
  (RegistrationLive <=> Registered) /\ (RegistrationLive <=> Registered)'
<1> DEFINE named == {interest[n].ptr : n \in DOMAIN interest} \cup {e.ptr : e \in events}
<1>1. (\A d \in named : Named(d)) <=> /\ \A n \in DOMAIN interest : Named(interest[n].ptr)
                                    /\ \A e \in events : Named(e.ptr)
  BY Zenon
<1>2. \A d \in named : Named(d) <=> Live(d) /\ ParkedOn(danFd[d].lightThreadId, d)
  BY DEF Named, ParkedOn, WokenAt
<1>3. RegistrationLive <=> Registered
  BY <1>1, <1>2, Zenon DEF RegistrationLive, Registered
<1> QED
  BY <1>3, PTL

(* Scheduling: the steps of run(). *)

(* run() goes on, without a switch to a coroutine. *)
LEMMA MainSchedules ==
  ASSUME TypeOK, Scheduling, running = NoWorker, ~ Launching,
         UNCHANGED <<poolVars, local, danFd, waitingFds_, interest>>,
         events' = events, events = {} \/ pc' \in {"dispatch", "killed"},
         unnotified' # {} => Broadcasting' \/ pc' = "killed",
         Broadcasting' => Busy \subseteq unnotified',
         pc' \in {"start", "exited", "gone"} => Busy = {}
  PROVE  Scheduling'
<1> USE DEF poolVars, Busy, Pool!Busy, Started, Broadcasting
<1>1. NoWorker \notin Busy /\ \A w \in Busy : Started(w)
  BY SchedulerAssumption DEF Scheduling, Placed, TypeOK, Workers
<1>2. Placed'
  BY <1>1 DEF Scheduling, Placed
<1>3. Leaving' /\ Batched'
  BY DEF Leaving, Scheduling, Batched
<1>4. Loop'
  BY DEF Loop
<1>5. Owned' /\ Recorded'
  BY <1>1 DEF Scheduling, Owned, Owner, Live, Recorded
<1>6. RegistrationLive'
  BY RegisteredIsLive DEF Scheduling, Registered, Named, Live
<1> QED
  BY <1>2, <1>3, <1>4, <1>5, <1>6 DEF Scheduling

(* epoll_wait returns. *)
LEMMA EpollWaitSchedules ==
  ASSUME TypeOK, Scheduling, EpollWait
  PROVE  Scheduling'
<1> USE DEF Busy, Pool!Busy, Started, Broadcasting
<1>1. /\ running = NoWorker /\ pc = "wait" /\ pc' = "dispatch"
      /\ UNCHANGED <<poolVars, local, danFd, waitingFds_, interest, unnotified>>
      /\ events' = {[ptr |-> interest[n].ptr, events |-> Reported(n)] : n \in ReadyFds}
  BY DEF EpollWait, InMain, kernelVars
<1>2. NoWorker \notin Busy /\ \A w \in Busy : Started(w)
  BY <1>1, SchedulerAssumption DEF Scheduling, Placed, TypeOK, Workers, Launching, Launched
<1>3. \A e \in events' : \E n \in DOMAIN interest :
         e.ptr = interest[n].ptr /\ e = [ptr |-> interest[n].ptr, events |-> Reported(n)]
  BY <1>1 DEF ReadyFds
<1>4. Placed' /\ Leaving' /\ Loop' /\ Owned' /\ Recorded'
  <2>1. /\ Busy' = Busy /\ local' = local /\ danFd' = danFd /\ waitingFds_' = waitingFds_
        /\ jobOf' = jobOf /\ running' = running /\ unnotified' = unnotified
    BY <1>1 DEF poolVars
  <2>2. Placed'
    BY <1>1, <1>2, <2>1 DEF Scheduling, Placed, Launching, Launched
  <2>3. Leaving' /\ Loop'
    BY <1>1, <2>1 DEF Scheduling, Leaving, Loop
  <2>4. Owned' /\ Recorded'
    BY <1>1, <2>1 DEF Scheduling, Owned, Owner, Live, Recorded
  <2> QED
    BY <2>2, <2>3, <2>4
<1>5. RegistrationLive'
  BY <1>1, <1>3, RegisteredIsLive DEF poolVars, Scheduling, Registered, Named, Live
<1>6. Batched'
  BY <1>1, <1>3, RegisteredIsLive DEF poolVars, Scheduling, Registered, Batched
<1> QED
  BY <1>4, <1>5, <1>6 DEF Scheduling

(* A task gets its worker: one with no job. *)
LEMMA AssignSchedules ==
  ASSUME TypeOK, Scheduling,
         NEW from \in {"boot", "assign"}, NEW to \in {"boot-launch", "launch"},
         Assign(from, to)
  PROVE  Scheduling'
<1> USE DEF Started, Broadcasting
<1>1. PICK w \in Workers : /\ Pool!Submit(w, Head(undoTasksQueue_))
                           /\ local' = [local EXCEPT ![w] = Fresh]
  BY DEF Assign
<1>2. /\ pc = from /\ pc' = to /\ running = NoWorker /\ running' = NoWorker
      /\ UNCHANGED <<danFd, waitingFds_, interest, events, unnotified>>
  BY <1>1 DEF Assign, InMain, Goto, kernelVars, Pool!Submit
<1>3. w \notin Busy
  <2>1. idle \cap Busy = {}
    BY DEF TypeOK
  <2>2. IF idle = {} THEN Busy = 1 .. w - 1 ELSE w \in idle
    BY <1>1 DEF Pool!Submit, Busy
  <2>3. w \in Nat
    BY <1>1, SchedulerAssumption DEF Workers
  <2> QED
    BY <2>1, <2>2, <2>3
<1>4. /\ Busy' = Busy \cup {w}
      /\ jobOf'[w] = Head(undoTasksQueue_) /\ \A v \in Busy : jobOf'[v] = jobOf[v]
      /\ local'[w] = Fresh /\ \A v \in Busy : local'[v] = local[v]
  <2>1. local \in [Workers -> Local] /\ Busy \subseteq Workers
    BY DEF TypeOK
  <2>2. jobOf' = [x \in Busy \cup {w} |-> IF x = w THEN Head(undoTasksQueue_) ELSE jobOf[x]]
    BY <1>1 DEF Pool!Submit, Busy
  <2>3. Busy' = Busy \cup {w}
    BY <2>2 DEF Busy, Pool!Busy
  <2> QED
    BY <1>1, <1>3, <2>1, <2>2, <2>3
<1>5. jobOf'[w].doFunc \in {"acceptFunc", "recvMsgFunc", "onSend"}
  <2>1. undoTasksQueue_ \in Seq(Task) /\ undoTasksQueue_ # <<>>
    BY DEF Assign, TypeOK
  <2>2. Head(undoTasksQueue_) \in Task
    BY <2>1, HeadTailProperties
  <2> QED
    BY <1>4, <2>2 DEF Task
<1>6. NoWorker \notin Busy /\ \A v \in Busy : Started(v)
  BY <1>2, SchedulerAssumption DEF Scheduling, Placed, TypeOK, Workers, Launching, Launched
<1>7. Placed'
  BY <1>1, <1>2, <1>3, <1>4, <1>5, <1>6 DEF Scheduling, Placed, PlacesOf, Fresh, Launching
<1>8. Leaving' /\ Loop' /\ Batched'
  BY <1>2 DEF Scheduling, Leaving, Loop, Batched
<1>9. Owned'
  BY <1>1, <1>2, <1>3, <1>4 DEF Scheduling, Owned, Owner, Live, Fresh
<1>10. Recorded'
  BY <1>1, <1>2, <1>3, <1>4, <1>6 DEF Scheduling, Recorded, Fresh
<1>11. RegistrationLive'
  BY <1>1, <1>2, <1>3, <1>4, RegisteredIsLive DEF Scheduling, Registered, Named, Live
<1> QED
  BY <1>7, <1>8, <1>9, <1>10, <1>11 DEF Scheduling

(* The coroutine of the task starts. *)
LEMMA LaunchSchedules ==
  ASSUME TypeOK, Scheduling,
         NEW from \in {"boot-launch", "launch"}, NEW to \in {"boot-pop", "pop"},
         Launch(from, to)
  PROVE  Scheduling'
<1> USE DEF Busy, Pool!Busy, Started, Broadcasting
<1>1. PICK w \in Busy : local[w].at = "start" /\ Pool!Run(w)
  BY DEF Launch
<1>2. /\ pc = from /\ pc' = to /\ running = NoWorker /\ running' = w
      /\ UNCHANGED <<idle, jobOf, local, danFd, waitingFds_, interest, events, unnotified>>
  BY <1>1 DEF Launch, InMain, Goto, kernelVars, Pool!Run
<1>3. \A v \in Busy : Started(v) <=> v # w
  BY <1>1 DEF Scheduling, Placed
<1>4. NoWorker \notin Busy
  BY SchedulerAssumption DEF TypeOK, Workers
<1>5. Placed'
  BY <1>1, <1>2, <1>3, <1>4 DEF Scheduling, Placed, WokenAt, AgainAt, Launching, Launched
<1>6. Leaving' /\ Loop' /\ Batched'
  BY <1>2 DEF Scheduling, Leaving, Loop, Batched
<1>7. Owned' /\ Recorded'
  BY <1>1, <1>2, <1>3, <1>4 DEF Scheduling, Owned, Owner, Live, Recorded
<1>8. RegistrationLive'
  BY <1>2, RegisteredIsLive DEF Scheduling, Registered, Named, Live
<1> QED
  BY <1>5, <1>6, <1>7, <1>8 DEF Scheduling

(* An event wakes the coroutine parked on its danFd_t. *)
LEMMA DispatchSchedules ==
  ASSUME TypeOK, Scheduling, Dispatch
  PROVE  Scheduling'
<1> USE DEF Busy, Pool!Busy, Started, Broadcasting
<1>1. PICK e \in events :
        /\ events' = events \ {e}
        /\ danFd' = [danFd EXCEPT ![e.ptr].readyEvents = e.events]
        /\ ResumeOr(danFd[e.ptr].lightThreadId)
  BY DEF Dispatch
<1> DEFINE w == danFd[e.ptr].lightThreadId
<1>2. e.ptr \in DanFds
  BY DEF TypeOK
<1>3. Named(e.ptr)
  BY RegisteredIsLive DEF Scheduling, Registered
<1>4. /\ w \in Busy /\ local[w].at \in WokenAt /\ local[w].pFd = e.ptr
      /\ Pool!Run(w)
  BY <1>1, <1>3 DEF Named, ResumeOr
<1> HIDE DEF w
<1>5. /\ pc = "dispatch" /\ pc' = pc /\ running = NoWorker /\ running' = w
      /\ UNCHANGED <<idle, jobOf, local, waitingFds_, interest, unnotified>>
  BY <1>4 DEF Dispatch, InMain, kernelVars, Pool!Run
<1>6. \A d \in DanFds : /\ danFd'[d].heap = danFd[d].heap /\ danFd'[d].fd = danFd[d].fd
                         /\ danFd'[d].lightThreadId = danFd[d].lightThreadId
  <2>1. danFd \in [DanFds -> DanFd]
    BY DEF TypeOK
  <2> QED
    BY <1>1, <1>2, <2>1 DEF DanFd
<1>7. NoWorker \notin Busy /\ \A v \in Busy : Started(v) /\ local[v].pFd \in DanFds
  BY <1>5, SchedulerAssumption DEF Scheduling, Placed, TypeOK, Workers, Launching, Launched
<1>8. Placed'
  BY <1>4, <1>5, <1>7 DEF Scheduling, Placed, WokenAt, AgainAt, Launching, Launched
<1>9. Leaving' /\ Loop'
  BY <1>1, <1>5 DEF Scheduling, Leaving, Loop
<1>10. Owned' /\ Recorded'
  BY <1>5, <1>6, <1>7 DEF Scheduling, Owned, Owner, Live, Recorded
<1>11. RegistrationLive'
  <2>1. Registered
    BY RegisteredIsLive DEF Scheduling
  <2>2. \A d \in DanFds : Named(d) => Named(d)'
    BY <1>5, <1>6 DEF Named, Live
  <2>3. (\A n \in DOMAIN interest : interest[n].ptr \in DanFds) /\ \A f \in events : f.ptr \in DanFds
    BY DEF TypeOK
  <2> QED
    BY <1>1, <1>5, <1>6, <2>1, <2>2, <2>3, RegisteredIsLive DEF Registered
<1>12. Batched'
  BY <1>1, <1>2, <1>4, <1>5, <1>6 DEF Scheduling, Batched, w
<1> QED
  BY <1>8, <1>9, <1>10, <1>11, <1>12 DEF Scheduling

(* broadcast() tells the next coroutine of its map. *)
LEMMA BroadcastSchedules ==
  ASSUME TypeOK, Scheduling, Broadcast
  PROVE  Scheduling'
<1> USE DEF Busy, Pool!Busy, Started, Broadcasting
<1>1. PICK w \in unnotified :
        /\ unnotified' = unnotified \ {w}
        /\ danFd' = [danFd EXCEPT ![waitingFds_[w]].readyEvents = {pc}]
        /\ ResumeOr(w)
  BY DEF Broadcast
<1>2. /\ Broadcasting /\ pc' = pc /\ running = NoWorker
      /\ UNCHANGED <<local, waitingFds_, interest, events>>
  BY DEF Broadcast, kernelVars
<1>3. /\ UNCHANGED <<idle, jobOf>>
      /\ IF w \in Busy THEN running' = w ELSE running' = NoWorker
  BY <1>1, <1>2 DEF ResumeOr, Pool!Run, poolVars
<1>4. waitingFds_[w] \in DanFds
  BY <1>1 DEF TypeOK
<1>5. \A d \in DanFds :
        /\ danFd'[d].heap = danFd[d].heap /\ danFd'[d].fd = danFd[d].fd
        /\ danFd'[d].lightThreadId = danFd[d].lightThreadId
        /\ d = waitingFds_[w] => danFd'[d].readyEvents = {pc}
  <2>1. danFd \in [DanFds -> DanFd]
    BY DEF TypeOK
  <2> QED
    BY <1>1, <1>4, <2>1 DEF DanFd
<1>6. NoWorker \notin Busy /\ \A v \in Busy : Started(v) /\ local[v].pFd \in DanFds
  BY <1>2, SchedulerAssumption DEF Scheduling, Placed, TypeOK, Workers, Launching, Launched
<1>7. w \in Busy => local[w].at \in WokenAt /\ waitingFds_[w] = local[w].pFd
  BY <1>2, <1>6 DEF Scheduling, Placed, Recorded
<1>8. Placed'
  BY <1>2, <1>3, <1>6, <1>7 DEF Scheduling, Placed, WokenAt, AgainAt, Launching, Launched
<1>9. Leaving'
  BY <1>2, <1>3, <1>4, <1>5, <1>7 DEF Leaving
<1>10. Loop' /\ Batched'
  BY <1>2, <1>3 DEF Scheduling, Loop, Batched
<1>11. Owned' /\ Recorded'
  BY <1>1, <1>2, <1>3, <1>5, <1>6 DEF Scheduling, Owned, Owner, Live, Recorded
<1>12. RegistrationLive'
  <2>1. Registered
    BY RegisteredIsLive DEF Scheduling
  <2>2. \A d \in DanFds : Named(d) => Named(d)'
    BY <1>2, <1>3, <1>5 DEF Named, Live
  <2>3. (\A n \in DOMAIN interest : interest[n].ptr \in DanFds) /\ \A f \in events : f.ptr \in DanFds
    BY DEF TypeOK
  <2> QED
    BY <1>2, <1>5, <2>1, <2>2, <2>3, RegisteredIsLive DEF Registered
<1> QED
  BY <1>8, <1>9, <1>10, <1>11, <1>12 DEF Scheduling

-----------------------------------------------------------------------------
(* Scheduling: the steps of a coroutine. *)

(* The worker that runs is one, and no event in hand is about its danFd_t. *)
LEMMA RunningAlone ==
  ASSUME TypeOK, Scheduling, running \in Busy, pc # "killed"
  PROVE  /\ running # NoWorker /\ running \in Workers
         /\ pc \notin {"start", "exited", "gone"}
         /\ \A e \in events : Started(running) /\ e.ptr # local[running].pFd
         /\ ~ Started(running) => Launched /\ events = {}
         /\ \A w \in Busy \ {running} : Started(w)
<1>1. /\ Busy \subseteq Workers
      /\ \A e \in events : e.ptr \in DanFds
  BY DEF TypeOK
<1>2. running # NoWorker /\ running \in Workers
  BY <1>1, SchedulerAssumption DEF Workers
<1>3. pc \notin {"start", "exited", "gone"}
  BY DEF Scheduling, Loop
<1>4. ~ Started(running) => Launched /\ events = {}
  BY <1>2 DEF Scheduling, Placed, Loop, Launched
<1>5. \A e \in events : Started(running) /\ e.ptr # local[running].pFd
  BY <1>2, <1>4 DEF Scheduling, Loop, Batched
<1>6. \A w \in Busy \ {running} : Started(w)
  BY <1>2 DEF Scheduling, Placed
<1> QED
  BY <1>2, <1>3, <1>4, <1>5, <1>6

(* A coroutine goes on, without giving the processor back. *)
LEMMA StepSchedules ==
  ASSUME TypeOK, Scheduling, running \in Busy, pc # "killed", Started(running),
         NEW place \in PlacesOf[jobOf[running].doFunc],
         place \notin WokenAt, place # "start",
         Launched => place \notin AgainAt, Broadcasting => place \in EndAt,
         local' = [local EXCEPT ![running].at = place],
         UNCHANGED <<poolVars, loopVars, danFd>>,
         \/ interest' = interest /\ local[running].at \notin WokenAt
         \/ EpollDel(danFd[local[running].pFd].fd),
         waitingFds_' = waitingFds_ \/ RemoveLightThread(running)
  PROVE  Scheduling'
<1> USE DEF Started, Broadcasting
<1>1. /\ UNCHANGED <<idle, jobOf, running, pc, events, unnotified, danFd>>
      /\ Busy' = Busy
  BY DEF poolVars, loopVars, Busy, Pool!Busy
<1>2. /\ running # NoWorker
      /\ \A e \in events : e.ptr # local[running].pFd
  BY RunningAlone
<1>3. /\ local'[running].at = place /\ local'[running].pFd = local[running].pFd
      /\ \A w \in Busy \ {running} : local'[w] = local[w]
  <2>1. local \in [Workers -> Local] /\ Busy \subseteq Workers
    BY DEF TypeOK
  <2> QED
    BY <2>1 DEF Local
<1>4. Placed'
  BY <1>1, <1>2, <1>3 DEF Scheduling, Placed, Launching, Launched
<1>5. Leaving' /\ Loop' /\ Batched'
  BY <1>1, <1>3 DEF Scheduling, Leaving, Loop, Batched
<1>6. Owned'
  BY <1>1, <1>3 DEF Scheduling, Owned, Owner, Live
<1>7. Recorded'
  BY <1>1, <1>3 DEF Scheduling, Recorded, RemoveLightThread
<1>8. RegistrationLive'
  <2>1. Registered
    BY RegisteredIsLive DEF Scheduling
  <2>2. \A d : Named(d) /\ (local[running].at \in WokenAt => d # local[running].pFd) => Named(d)'
    BY <1>1, <1>3 DEF Named, Live
  <2>3. \A n \in DOMAIN interest' :
          /\ n \in DOMAIN interest /\ interest'[n] = interest[n]
          /\ local[running].at \in WokenAt => n # danFd[local[running].pFd].fd
    BY DEF EpollDel
  <2> QED
    BY <1>1, <1>2, <2>1, <2>2, <2>3, RegisteredIsLive DEF Registered
<1> QED
  BY <1>4, <1>5, <1>6, <1>7, <1>8 DEF Scheduling

(* A coroutine that owns a descriptor gets its danFd_t. *)
LEMMA CreateSchedules ==
  ASSUME TypeOK, Scheduling, running \in Busy, pc # "killed",
         jobOf[running].doFunc # "onSend", local[running].at = "start",
         NEW place \in {"accept", "recv"} \cap PlacesOf[jobOf[running].doFunc],
         NEW d \in DanFds, CreateFd(d, jobOf[running].arg),
         local'[running].at = place, local'[running].pFd = d,
         \A w \in Busy \ {running} : local'[w] = local[w],
         UNCHANGED <<poolVars, loopVars, waitingFds_, interest>>
  PROVE  Scheduling'
<1> USE DEF Started, Broadcasting
<1>1. /\ UNCHANGED <<idle, jobOf, running, pc, events, unnotified>>
      /\ Busy' = Busy
  BY DEF poolVars, loopVars, Busy, Pool!Busy
<1>2. /\ running # NoWorker /\ Launched /\ events = {}
      /\ \A w \in Busy \ {running} : Started(w)
  BY RunningAlone
<1>3. /\ ~ Live(d) /\ danFd'[d].heap = "live" /\ danFd'[d].fd = jobOf[running].arg
      /\ \A c \in DanFds \ {d} : danFd'[c] = danFd[c]
  <2>1. danFd \in [DanFds -> DanFd]
    BY DEF TypeOK
  <2> QED
    BY <2>1 DEF CreateFd, Allocatable, Untouched, Unused, Live
<1>4. Placed'
  BY <1>1, <1>2 DEF Scheduling, Placed, Launching, Launched, WokenAt, AgainAt
<1>5. Leaving' /\ Loop' /\ Batched'
  BY <1>1, <1>2 DEF Scheduling, Leaving, Loop, Batched, Launched
<1>6. Owned'
  <2>1. \A w \in Busy : Owner(w)' <=> w = running \/ Owner(w)
    BY <1>1 DEF Owner
  <2>2. \A w \in Busy : Owner(w) => w # running /\ local[w].pFd # d /\ local[w].pFd \in DanFds
    BY <1>3 DEF Scheduling, Owned, Owner, Placed
  <2>3. \A w \in Busy : Owner(w) => Live(local[w].pFd) /\ danFd[local[w].pFd].fd = jobOf[w].arg
    BY DEF Scheduling, Owned
  <2>4. (\A w \in Busy : Owner(w) => Live(local[w].pFd) /\ danFd[local[w].pFd].fd = jobOf[w].arg)'
    BY <1>1, <1>3, <2>1, <2>2, <2>3 DEF Live
  <2>5. (\A v, w \in Busy : Owner(v) /\ Owner(w) /\ local[v].pFd = local[w].pFd => v = w)'
    BY <1>1, <2>1, <2>2 DEF Scheduling, Owned
  <2>6. (\A c \in DanFds : Live(c) => \E w \in Busy : Owner(w) /\ local[w].pFd = c)'
    BY <1>1, <1>3, <2>1, <2>2 DEF Scheduling, Owned, Live
  <2> QED
    BY <2>4, <2>5, <2>6 DEF Owned
<1>7. Recorded'
  BY <1>1 DEF Scheduling, Recorded
<1>8. RegistrationLive'
  <2>1. Registered
    BY RegisteredIsLive DEF Scheduling
  <2>2. \A c \in DanFds : Named(c) => c # d /\ Named(c)'
    BY <1>1, <1>3 DEF Named, Live, WokenAt
  <2>3. \A n \in DOMAIN interest : interest[n].ptr \in DanFds
    BY DEF TypeOK
  <2> QED
    BY <1>1, <1>2, <1>3, <2>1, <2>2, <2>3, RegisteredIsLive DEF Registered
<1> QED
  BY <1>4, <1>5, <1>6, <1>7, <1>8 DEF Scheduling

(* A sender finds the danFd_t of its session. *)
LEMMA SendStartSchedules ==
  ASSUME TypeOK, Scheduling, running \in Busy, pc # "killed",
         jobOf[running].doFunc = "onSend", local[running].at = "start",
         local'[running].at = "send", local'[running].pFd \in DanFds,
         \A w \in Busy \ {running} : local'[w] = local[w],
         UNCHANGED <<poolVars, loopVars, danFd, waitingFds_, interest>>
  PROVE  Scheduling'
<1> USE DEF Started, Broadcasting
<1>1. /\ UNCHANGED <<idle, jobOf, running, pc, events, unnotified>>
      /\ Busy' = Busy
  BY DEF poolVars, loopVars, Busy, Pool!Busy
<1>2. /\ running # NoWorker /\ Launched /\ events = {}
      /\ \A w \in Busy \ {running} : Started(w)
  BY RunningAlone
<1>3. Placed'
  BY <1>1, <1>2 DEF Scheduling, Placed, Launching, Launched, WokenAt, AgainAt, PlacesOf
<1>4. Leaving' /\ Loop' /\ Batched'
  BY <1>1, <1>2 DEF Scheduling, Leaving, Loop, Batched, Launched
<1>5. Owned' /\ Recorded'
  BY <1>1 DEF Scheduling, Owned, Owner, Live, Recorded
<1>6. RegistrationLive'
  BY <1>1, <1>2, RegisteredIsLive DEF Scheduling, Registered, Named, Live, WokenAt
<1> QED
  BY <1>3, <1>4, <1>5, <1>6 DEF Scheduling

(* A coroutine waits for its descriptor. *)
LEMMA ParkSchedules ==
  ASSUME TypeOK, Scheduling, running \in Busy, pc # "killed",
         local[running].at \in {"accept", "recv", "send"}, Live(local[running].pFd),
         NEW waitingEvents \in {"IN", "OUT"}, Park(local[running].pFd, waitingEvents),
         NEW place \in WokenAt \cap PlacesOf[jobOf[running].doFunc],
         local' = [local EXCEPT ![running].at = place],
         UNCHANGED loopVars
  PROVE  Scheduling'
<1> USE DEF Started, Broadcasting
<1>1. /\ UNCHANGED <<idle, jobOf, pc, events, unnotified>> /\ running' = NoWorker
      /\ Busy' = Busy
  BY DEF Park, Pool!Pause, loopVars, Busy, Pool!Busy
<1>2. /\ running # NoWorker
      /\ \A w \in Busy \ {running} : Started(w)
  BY RunningAlone
<1>3. ~ Broadcasting /\ (Launched \/ pc = "dispatch")
  BY <1>2 DEF Scheduling, Leaving, Placed, EndAt, WokenAt
<1> PICK d \in DanFds : d = local[running].pFd
  BY DEF Scheduling, Placed
<1>4. /\ local'[running].at = place /\ local'[running].pFd = d
      /\ \A w \in Busy \ {running} : local'[w] = local[w]
  <2>1. local \in [Workers -> Local] /\ Busy \subseteq Workers
    BY DEF TypeOK
  <2> QED
    BY <2>1 DEF Local
<1>5. /\ \A c \in DanFds \ {d} : danFd'[c] = danFd[c]
      /\ danFd'[d].heap = danFd[d].heap /\ danFd'[d].fd = danFd[d].fd
      /\ danFd'[d].lightThreadId = running
  <2>1. danFd \in [DanFds -> DanFd]
    BY DEF TypeOK
  <2> QED
    BY <1>3, <2>1 DEF Park, DanFd
<1>6. \A n \in DOMAIN interest' :
        \/ n \in DOMAIN interest /\ interest'[n] = interest[n]
        \/ n = danFd[d].fd /\ interest'[n].ptr = d
  BY DEF Park, EpollAdd
<1>7. Placed'
  BY <1>1, <1>2, <1>3, <1>4 DEF Scheduling, Placed, WokenAt
<1>8. Leaving' /\ Loop' /\ Batched'
  BY <1>1 DEF Scheduling, Leaving, Loop, Batched
<1>9. Owned'
  BY <1>1, <1>4, <1>5 DEF Scheduling, Owned, Owner, Placed, Live, WokenAt
<1>10. Recorded'
  BY <1>1, <1>3, <1>4 DEF Scheduling, Recorded, Park
<1>11. RegistrationLive'
  <2>1. Registered
    BY RegisteredIsLive DEF Scheduling
  <2>2. \A c \in DanFds : Named(c) => Named(c)'
    BY <1>1, <1>4, <1>5 DEF Named, Live, WokenAt
  <2>3. Named(d)'
    BY <1>1, <1>3, <1>4, <1>5 DEF Named, Live
  <2>4. /\ \A n \in DOMAIN interest : interest[n].ptr \in DanFds
        /\ \A e \in events : e.ptr \in DanFds
    BY DEF TypeOK
  <2> QED
    BY <1>1, <1>5, <1>6, <2>1, <2>2, <2>3, <2>4, RegisteredIsLive DEF Registered
<1> QED
  BY <1>7, <1>8, <1>9, <1>10, <1>11 DEF Scheduling

(* The process is killed under a coroutine. *)
LEMMA KilledSchedules ==
  ASSUME TypeOK, Scheduling, running \in Busy, pc # "killed", Started(running), Killed,
         UNCHANGED <<poolVars, local, danFd, waitingFds_, interest>>
  PROVE  Scheduling'
<1> USE DEF Started, Broadcasting
<1>1. /\ UNCHANGED <<idle, jobOf, running, events, unnotified, local, danFd, interest>>
      /\ Busy' = Busy /\ pc' = "killed"
  BY DEF Killed, poolVars, Busy, Pool!Busy
<1>2. /\ running # NoWorker
      /\ \A w \in Busy \ {running} : Started(w)
  BY RunningAlone
<1>3. Placed'
  BY <1>1, <1>2 DEF Scheduling, Placed, Launching, Launched
<1>4. Leaving' /\ Loop' /\ Batched'
  BY <1>1 DEF Scheduling, Leaving, Loop, Batched
<1>5. Owned' /\ Recorded'
  BY <1>1 DEF Scheduling, Owned, Owner, Live, Recorded
<1>6. RegistrationLive'
  BY <1>1, RegisteredIsLive DEF Scheduling, Registered, Named, Live
<1> QED
  BY <1>3, <1>4, <1>5, <1>6 DEF Scheduling

(* An owner ends: its descriptor is closed and its danFd_t freed. *)
LEMMA EndOwnerSchedules ==
  ASSUME TypeOK, Scheduling, running \in Busy, pc # "killed",
         Owner(running), local[running].at \in EndAt, EndOwner(local[running].pFd)
  PROVE  Scheduling'
<1> USE DEF Started, Broadcasting
<1> DEFINE d == local[running].pFd
<1>1. /\ UNCHANGED <<pc, events, unnotified, waitingFds_>>
      /\ running' = NoWorker /\ Busy' = Busy \ {running}
      /\ \A w \in Busy \ {running} : jobOf'[w] = jobOf[w]
  BY DEF EndOwner, Pool!Finish, loopVars, Busy, Pool!Busy
<1>2. /\ running # NoWorker /\ pc \notin {"start", "exited", "gone"}
      /\ \A e \in events : e.ptr # d
      /\ \A w \in Busy \ {running} : Started(w)
  BY RunningAlone
<1>3. d \in DanFds /\ Live(d) /\ \A w \in Busy \ {running} : Owner(w) => local[w].pFd # d
  BY DEF Scheduling, Placed, Owned, Owner
<1>4. \A w \in Busy \ {running} : local'[w] = local[w]
  <2>1. local \in [Workers -> Local] /\ Busy \subseteq Workers
    BY DEF TypeOK
  <2> QED
    BY <2>1 DEF EndOwner
<1>5. /\ \A c \in DanFds \ {d} : danFd'[c] = danFd[c]
      /\ danFd'[d].heap = "freed"
  <2>1. danFd \in [DanFds -> DanFd]
    BY DEF TypeOK
  <2> QED
    BY <1>3, <2>1 DEF EndOwner, FreeFd, DanFd
<1>6. \A n \in DOMAIN interest' :
        n \in DOMAIN interest /\ n # danFd[d].fd /\ interest'[n] = interest[n]
  BY DEF EndOwner, Closed
<1> HIDE DEF d
<1>7. Placed'
  BY <1>1, <1>2, <1>4 DEF Scheduling, Placed
<1>8. Leaving' /\ Loop' /\ Batched'
  BY <1>1, <1>2 DEF Scheduling, Leaving, Loop, Batched
<1>9. Owned'
  BY <1>1, <1>3, <1>4, <1>5 DEF Scheduling, Owned, Owner, Placed, Live, d
<1>10. Recorded'
  BY <1>1, <1>4 DEF Scheduling, Recorded
<1>11. RegistrationLive'
  <2>1. Registered
    BY RegisteredIsLive DEF Scheduling
  <2>2. \A c \in DanFds \ {d} : Named(c) => Named(c)'
    BY <1>1, <1>4, <1>5 DEF Named, Live, WokenAt, EndAt
  <2>3. /\ \A n \in DOMAIN interest : interest[n].ptr \in DanFds
        /\ \A e \in events : e.ptr \in DanFds
    BY DEF TypeOK
  <2> QED
    BY <1>1, <1>2, <1>5, <1>6, <2>1, <2>2, <2>3, RegisteredIsLive DEF Registered
<1> QED
  BY <1>7, <1>8, <1>9, <1>10, <1>11 DEF Scheduling

(* A sender ends; it may have closed the descriptor first. *)
LEMMA SendEndSchedules ==
  ASSUME TypeOK, Scheduling, running \in Busy, pc # "killed",
         jobOf[running].doFunc = "onSend", Started(running), local[running].at \notin WokenAt,
         NEW alive, SendEnd(alive),
         \A n \in DOMAIN interest' : n \in DOMAIN interest /\ interest'[n] = interest[n]
  PROVE  Scheduling'
<1> USE DEF Started, Broadcasting
<1>1. /\ UNCHANGED <<pc, events, unnotified, waitingFds_, danFd>>
      /\ running' = NoWorker /\ Busy' = Busy \ {running}
      /\ \A w \in Busy \ {running} : jobOf'[w] = jobOf[w]
  BY DEF SendEnd, Pool!Finish, loopVars, Busy, Pool!Busy
<1>2. /\ running # NoWorker /\ pc \notin {"start", "exited", "gone"}
      /\ \A w \in Busy \ {running} : Started(w)
  BY RunningAlone
<1>3. \A w \in Busy \ {running} : local'[w] = local[w]
  <2>1. local \in [Workers -> Local] /\ Busy \subseteq Workers
    BY DEF TypeOK
  <2> QED
    BY <2>1 DEF SendEnd
<1>4. Placed'
  BY <1>1, <1>2, <1>3 DEF Scheduling, Placed
<1>5. Leaving' /\ Loop' /\ Batched'
  BY <1>1, <1>2 DEF Scheduling, Leaving, Loop, Batched
<1>6. Owned' /\ Recorded'
  BY <1>1, <1>3 DEF Scheduling, Owned, Owner, Live, Recorded
<1>7. RegistrationLive'
  <2>1. Registered
    BY RegisteredIsLive DEF Scheduling
  <2>2. \A c : Named(c) => Named(c)'
    BY <1>1, <1>3 DEF Named, Live
  <2> QED
    BY <1>1, <2>1, <2>2, RegisteredIsLive DEF Registered
<1> QED
  BY <1>4, <1>5, <1>6, <1>7 DEF Scheduling

(* What lightThreadPoll does, parked or killed. *)
LEMMA PollSchedules ==
  ASSUME TypeOK, Scheduling, running \in Busy, pc # "killed",
         local[running].at \in {"accept", "recv", "send"},
         NEW waitingEvents \in {"IN", "OUT"},
         NEW place \in WokenAt \cap PlacesOf[jobOf[running].doFunc],
         Poll(local[running].pFd, waitingEvents, place)
  PROVE  Scheduling'
<1>1. CASE Live(local[running].pFd)
  BY <1>1, ParkSchedules DEF Poll, Continue
<1>2. CASE ~ Live(local[running].pFd)
  BY <1>2, KilledSchedules DEF Poll, Started
<1> QED
  BY <1>1, <1>2

(* A woken coroutine takes its descriptor out of epoll; where it goes on   *)
(* depends on the event. *)
LEMMA WokenSchedules ==
  ASSUME TypeOK, Scheduling, running \in Busy, pc # "killed",
         local[running].at \in WokenAt,
         NEW waitingEvents \in {"IN", "OUT"},
         NEW place \in PlacesOf[jobOf[running].doFunc],
         place \notin WokenAt, place # "start",
         PollResult(local[running].pFd, waitingEvents) < 0 => place \in EndAt,
         Woken(place)
  PROVE  Scheduling'
<1>1. running # NoWorker
  BY RunningAlone
<1>2. ~ Launched
  BY <1>1 DEF Scheduling, Placed
<1>3. Broadcasting => place \in EndAt
  BY <1>1 DEF Scheduling, Leaving, Broadcasting, PollResult, EndAt, WokenAt
<1> QED
  BY <1>2, <1>3, StepSchedules DEF Woken, Continue, Started, WokenAt, me

(* The steps of acceptFunc. *)
LEMMA AcceptSchedules ==
  ASSUME TypeOK, Scheduling, pc # "killed",
         AcceptStart \/ AcceptFirst \/ AcceptWoken \/ AcceptSecond \/ AcceptEnd
  PROVE  Scheduling'
<1> USE DEF Runs, At, me, Started, Owner
<1>1. /\ running \in Busy /\ jobOf[running].doFunc = "acceptFunc"
      /\ PlacesOf[jobOf[running].doFunc] =
           {"start", "accept", "accept-woken", "accept-again", "accept-end"}
  BY DEF AcceptStart, AcceptFirst, AcceptWoken, AcceptSecond, AcceptEnd, PlacesOf
<1>2. local \in [Workers -> Local] /\ running \in Workers /\ running # NoWorker
  BY <1>1, RunningAlone DEF TypeOK
<1>3. CASE AcceptStart
  <2>1. PICK d \in DanFds : /\ CreateFd(d, jobOf[running].arg)
                            /\ local' = [local EXCEPT ![running].at = "accept",
                                                      ![running].pFd = d]
    BY <1>3 DEF AcceptStart
  <2>2. /\ local'[running].at = "accept" /\ local'[running].pFd = d
        /\ \A w \in Busy \ {running} : local'[w] = local[w]
    BY <1>2, <2>1 DEF Local, TypeOK
  <2>3. UNCHANGED <<poolVars, loopVars, waitingFds_, interest>> /\ local[running].at = "start"
    BY <1>3 DEF AcceptStart, kernelVars
  <2> QED
    BY <1>1, <2>1, <2>2, <2>3, CreateSchedules
<1>4. CASE AcceptFirst
  <2>1. CASE Continue("accept-end") /\ UNCHANGED <<kernelVars, poolVars, danFd, waitingFds_, loopVars>>
    BY <1>1, <1>4, <2>1, StepSchedules
       DEF AcceptFirst, Continue, kernelVars, WokenAt, AgainAt, EndAt
  <2>2. CASE Poll(local[running].pFd, "IN", "accept-woken")
    BY <1>1, <1>4, <2>2, PollSchedules DEF AcceptFirst, WokenAt
  <2> QED
    BY <1>4, <2>1, <2>2 DEF AcceptFirst
<1>5. CASE AcceptWoken
  <2> DEFINE r == PollResult(local[running].pFd, "IN")
             place == IF r = 1 THEN "accept-again" ELSE IF r = 0 THEN "accept" ELSE "accept-end"
  <2>1. Woken(place) /\ local[running].at \in WokenAt
    BY <1>5 DEF AcceptWoken, WokenAt
  <2>2. /\ place \in PlacesOf[jobOf[running].doFunc] /\ place \notin WokenAt /\ place # "start"
        /\ r < 0 => place \in EndAt
    BY <1>1 DEF WokenAt, EndAt, PollResult
  <2> HIDE DEF place
  <2> QED
    BY <1>1, <2>1, <2>2, WokenSchedules
<1>6. CASE AcceptSecond
  <2>1. PICK place \in {"accept", "accept-end"} : Continue(place)
    BY <1>6 DEF AcceptSecond
  <2>2. ~ Broadcasting
    BY <1>2, <1>6 DEF AcceptSecond, Scheduling, Leaving, EndAt, WokenAt
  <2> QED
    BY <1>1, <1>6, <2>1, <2>2, StepSchedules DEF AcceptSecond, Continue, WokenAt, AgainAt
<1>7. CASE AcceptEnd
  BY <1>1, <1>7, EndOwnerSchedules DEF AcceptEnd, EndAt
<1> QED
  BY <1>3, <1>4, <1>5, <1>6, <1>7

(* The steps of recvMsgFunc. *)
LEMMA RecvSchedules ==
  ASSUME TypeOK, Scheduling, pc # "killed",
         RecvStart \/ RecvFirst \/ RecvWoken \/ RecvSecond \/ RecvEnd
  PROVE  Scheduling'
<1> USE DEF Runs, At, me, Started, Owner
<1>1. /\ running \in Busy /\ jobOf[running].doFunc = "recvMsgFunc"
      /\ PlacesOf[jobOf[running].doFunc] =
           {"start", "recv", "recv-woken", "recv-again", "recv-end"}
  <2>1. running \in Busy /\ jobOf[running].doFunc = "recvMsgFunc"
    BY DEF RecvStart, RecvFirst, RecvWoken, RecvSecond, RecvEnd
  <2> QED
    BY <2>1 DEF PlacesOf
<1>2. local \in [Workers -> Local] /\ running \in Workers /\ running # NoWorker
  BY <1>1, RunningAlone DEF TypeOK
<1>3. CASE RecvStart
  <2>1. PICK d \in DanFds :
          /\ CreateFd(d, jobOf[running].arg)
          /\ local' = [local EXCEPT ![running] =
                         [Fresh EXCEPT !.at = "recv", !.pFd = d, !.pSession = Head(objs_)]]
    BY <1>3 DEF RecvStart
  <2>2. /\ local'[running].at = "recv" /\ local'[running].pFd = d
        /\ \A w \in Busy \ {running} : local'[w] = local[w]
    BY <1>2, <2>1 DEF Fresh, TypeOK
  <2>3. UNCHANGED <<poolVars, loopVars, waitingFds_, interest>> /\ local[running].at = "start"
    BY <1>3 DEF RecvStart, kernelVars
  <2> QED
    BY <1>1, <2>1, <2>2, <2>3, CreateSchedules
<1>4. CASE RecvFirst
  <2>1. CASE /\ \E place \in {"recv", "recv-end"} : Continue(place)
             /\ UNCHANGED <<interest, poolVars, danFd, waitingFds_, loopVars>>
    <3>1. ~ Broadcasting
      BY <1>2, <1>4 DEF RecvFirst, Scheduling, Leaving, EndAt, WokenAt
    <3> QED
      BY <1>1, <1>4, <2>1, <3>1, StepSchedules DEF RecvFirst, Continue, WokenAt, AgainAt
  <2>2. CASE Poll(local[running].pFd, "IN", "recv-woken")
    BY <1>1, <1>4, <2>2, PollSchedules DEF RecvFirst, WokenAt
  <2> QED
    BY <1>4, <2>1, <2>2 DEF RecvFirst, RecvData, RecvFailed, kernelVars
<1>5. CASE RecvWoken
  <2> DEFINE r == PollResult(local[running].pFd, "IN")
             place == IF r = 1 THEN "recv-again" ELSE "recv-end"
  <2>1. Woken(place) /\ local[running].at \in WokenAt
    BY <1>5 DEF RecvWoken, WokenAt
  <2>2. /\ place \in PlacesOf[jobOf[running].doFunc] /\ place \notin WokenAt /\ place # "start"
        /\ r < 0 => place \in EndAt
    BY <1>1 DEF WokenAt, EndAt, PollResult
  <2> HIDE DEF place
  <2> QED
    BY <1>1, <2>1, <2>2, WokenSchedules
<1>6. CASE RecvSecond
  <2>1. ~ Broadcasting /\ local[running].at = "recv-again"
    BY <1>2, <1>6 DEF RecvSecond, Scheduling, Leaving, EndAt, WokenAt
  <2>2. pc = "dispatch"
    BY <1>2, <2>1 DEF Scheduling, Placed, AgainAt
  <2>3. danFd[local[running].pFd].lightThreadId = running
    BY <1>2, <2>2 DEF Scheduling, Batched
  <2>4. PICK place \in {"recv", "recv-end"} : Continue(place)
    BY <1>6 DEF RecvSecond, RecvData, RecvFailed
  <2>5. /\ UNCHANGED <<interest, poolVars, danFd, loopVars>>
        /\ waitingFds_' = waitingFds_ \/ RemoveLightThread(running)
    BY <1>6, <2>3 DEF RecvSecond, RecvData, RecvFailed, kernelVars
  <2> QED
    BY <1>1, <2>1, <2>4, <2>5, StepSchedules DEF Continue, WokenAt, AgainAt, Launched
<1>7. CASE RecvEnd
  BY <1>1, <1>7, EndOwnerSchedules DEF RecvEnd, EndAt
<1> QED
  BY <1>3, <1>4, <1>5, <1>6, <1>7

(* The steps of onSend; a sender that starts takes the danFd_t of its     *)
(* session, so that has to be one. *)
LEMMA SendSchedules ==
  ASSUME TypeOK, Scheduling, pc # "killed",
         running \in Busy /\ jobOf[running].doFunc = "onSend" => boundFd \in DanFds,
         SendStart \/ SendFirst \/ SendWoken \/ SendSecond \/ SendFailed
  PROVE  Scheduling'
<1> USE DEF Runs, At, me, Started, Owner
<1>1. /\ running \in Busy /\ jobOf[running].doFunc = "onSend" /\ boundFd \in DanFds
      /\ PlacesOf[jobOf[running].doFunc] =
           {"start", "send", "send-woken", "send-again", "send-end"}
  <2>1. running \in Busy /\ jobOf[running].doFunc = "onSend"
    BY DEF SendStart, SendFirst, SendWoken, SendSecond, SendFailed
  <2> QED
    BY <2>1 DEF PlacesOf
<1>2. local \in [Workers -> Local] /\ running \in Workers /\ running # NoWorker
  BY <1>1, RunningAlone DEF TypeOK
<1>3. CASE SendStart
  <2>1. /\ local'[running].at = "send" /\ local'[running].pFd \in DanFds
        /\ \A w \in Busy \ {running} : local'[w] = local[w]
    BY <1>1, <1>2, <1>3 DEF SendStart, Fresh, TypeOK
  <2> QED
    BY <1>1, <1>3, <2>1, SendStartSchedules DEF SendStart, kernelVars
<1>4. ASSUME SendFirst \/ SendSecond, NEW ACTION onAgain, NEW STATE n,
             SendCall(n, onAgain), onAgain => Scheduling'
      PROVE  Scheduling'
  <2>1. local[running].at \in {"send", "send-again"}
    BY <1>4 DEF SendFirst, SendSecond
  <2>2. CASE SendEnd(TRUE) /\ UNCHANGED interest
    BY <1>1, <2>1, <2>2, SendEndSchedules DEF WokenAt
  <2>3. CASE /\ Continue("send-end")
             /\ UNCHANGED <<kernelVars, poolVars, danFd, waitingFds_, loopVars>>
    BY <1>1, <2>1, <2>3, StepSchedules DEF Continue, kernelVars, WokenAt, AgainAt, EndAt
  <2>4. CASE Killed /\ UNCHANGED <<kernelVars, poolVars, local, danFd, waitingFds_>>
    BY <1>1, <2>1, <2>4, KilledSchedules DEF kernelVars
  <2> QED
    BY <1>4, <2>2, <2>3, <2>4 DEF SendCall
<1>5. CASE SendFirst
  <2>1. Poll(local[running].pFd, "OUT", "send-woken") => Scheduling'
    BY <1>1, <1>5, PollSchedules DEF SendFirst, WokenAt
  <2> QED
    BY <1>4, <1>5, <2>1 DEF SendFirst
<1>6. CASE SendWoken
  <2> DEFINE r == PollResult(local[running].pFd, "OUT")
             place == IF r = 1 THEN "send-again" ELSE "send-end"
  <2>1. Woken(place) /\ local[running].at \in WokenAt
    BY <1>6 DEF SendWoken, WokenAt
  <2>2. /\ place \in PlacesOf[jobOf[running].doFunc] /\ place \notin WokenAt /\ place # "start"
        /\ r < 0 => place \in EndAt
    BY <1>1 DEF WokenAt, EndAt, PollResult
  <2> HIDE DEF place
  <2> QED
    BY <1>1, <2>1, <2>2, WokenSchedules
<1>7. CASE SendSecond
  <2>1. (Continue("send-end") /\ UNCHANGED <<interest, poolVars, danFd, waitingFds_, loopVars>>)
           => Scheduling'
    BY <1>1, <1>7, StepSchedules DEF SendSecond, Continue, WokenAt, AgainAt, EndAt
  <2> QED
    BY <1>4, <1>7, <2>1 DEF SendSecond
<1>8. CASE SendFailed
  <2>1. \A n \in DOMAIN interest' : n \in DOMAIN interest /\ interest'[n] = interest[n]
    BY <1>8 DEF SendFailed, Closed
  <2> QED
    BY <1>1, <1>8, <2>1, SendEndSchedules DEF SendFailed, WokenAt
<1> QED
  BY <1>3, <1>5, <1>6, <1>7, <1>8

-----------------------------------------------------------------------------
(* Scheduling: every step. *)

(* A step that does not touch what Scheduling is about. *)
LEMMA ElsewhereSchedules ==
  ASSUME Scheduling, UNCHANGED <<poolVars, loopVars, local, danFd, waitingFds_, interest>>
  PROVE  Scheduling'
<1> USE DEF Started, Broadcasting
<1>1. /\ UNCHANGED <<jobOf, running, pc, events, unnotified, local, danFd, waitingFds_, interest>>
      /\ Busy' = Busy
  BY DEF poolVars, loopVars, Busy, Pool!Busy
<1>2. Placed' /\ Leaving' /\ Loop'
  BY <1>1 DEF Scheduling, Placed, Leaving, Loop, Launching, Launched
<1>3. Owned' /\ Recorded' /\ Batched'
  BY <1>1 DEF Scheduling, Owned, Owner, Live, Recorded, Batched
<1>4. RegistrationLive'
  BY <1>1, RegisteredIsLive DEF Scheduling, Registered, Named, Live
<1> QED
  BY <1>2, <1>3, <1>4 DEF Scheduling

(* broadcast() starts: waitingFds_ has every coroutine there is. *)
LEMMA StartBroadcastSchedules ==
  ASSUME TypeOK, Scheduling, InMain("wait") \/ InMain("dispatch"), events = {}, events' = events,
         NEW readyEvent \in {"CLOSE", "ERROR"}, StartBroadcast(readyEvent),
         UNCHANGED <<poolVars, local, danFd, waitingFds_, interest>>
  PROVE  Scheduling'
<1>1. NoWorker \notin Busy
  BY SchedulerAssumption DEF TypeOK, Workers
<1>2. \A w \in Busy : w \in DOMAIN waitingFds_
  BY <1>1 DEF Scheduling, Placed, Recorded, InMain, Launching, Launched
<1> QED
  BY <1>2, MainSchedules DEF StartBroadcast, InMain, Launching, Broadcasting

(* The steps of run(), of whatever place. *)
LEMMA RunSchedules ==
  ASSUME TypeOK, Scheduling, RunStep
  PROVE  Scheduling'
<1> USE DEF InMain, Goto, kernelVars
<1>1. CASE AssignTasks
  <2>1. ASSUME NEW from \in {"boot", "boot-pop", "assign", "pop"},
               NEW to \in {"boot", "assign", "loop", "timers"},
               PopTask(from, to) \/ Assigned(from, to)
        PROVE  Scheduling'
    BY <2>1, MainSchedules
       DEF PopTask, Assigned, Launching, Scheduling, Loop, Broadcasting
  <2> QED
    BY <1>1, <2>1, AssignSchedules, LaunchSchedules DEF AssignTasks
<1>2. CASE LoopTest \/ TimersDone \/ EpollInterrupted
  BY <1>2, MainSchedules
     DEF LoopTest, TimersDone, EpollInterrupted, Launching, Scheduling, Loop, Broadcasting
<1>3. CASE Broadcasted
  <2>1. Busy = {}
    BY <1>3, SchedulerAssumption DEF Broadcasted, Scheduling, Recorded, TypeOK, Workers
  <2> QED
    BY <1>3, <2>1, MainSchedules DEF Broadcasted, Launching, Scheduling, Loop, Broadcasting
<1>4. CASE EpollFails
  BY <1>4, StartBroadcastSchedules DEF EpollFails, Scheduling, Loop
<1>5. CASE Dispatched
  <2>1. CASE stop_
    BY <1>5, <2>1, StartBroadcastSchedules DEF Dispatched
  <2>2. CASE ~ stop_
    BY <1>5, <2>2, MainSchedules DEF Dispatched, Launching, Scheduling, Loop, Broadcasting
  <2> QED
    BY <2>1, <2>2
<1> QED
  BY <1>1, <1>2, <1>3, <1>4, <1>5, EpollWaitSchedules, DispatchSchedules, BroadcastSchedules
     DEF RunStep

SendersBound ==
  \A w \in Busy : jobOf[w].doFunc = "onSend" => session[jobOf[w].arg].pFd_ \in DanFds

(* Scheduling is kept by every step of the server, its peers and SIGINT. *)
LEMMA NextSchedules ==
  ASSUME TypeOK, Scheduling, SendersBound, [Next]_vars
  PROVE  Scheduling'
<1> USE DEF InMain, Goto, kernelVars
<1>1. CASE Start
  BY <1>1, MainSchedules
     DEF Start, Launching, Scheduling, Loop, Broadcasting
<1>2. CASE Tick
  <2>1. CASE UNCHANGED loopVars
    BY <1>2, <2>1, ElsewhereSchedules DEF Tick
  <2>2. CASE Killed
    BY <1>2, <2>2, MainSchedules DEF Tick, Killed, Launching, Broadcasting
  <2> QED
    BY <1>2, <2>1, <2>2 DEF Tick
<1>3. CASE CoroutineStep
  <2>1. running \in Busy /\ jobOf[running].doFunc = "onSend" => boundFd \in DanFds
    BY DEF SendersBound, boundFd, bound
  <2> QED
    BY <1>3, <2>1, AcceptSchedules, RecvSchedules, SendSchedules DEF CoroutineStep
<1>4. CASE Destruct
  BY <1>4, MainSchedules DEF Destruct, Launching, Scheduling, Loop, Broadcasting
<1>5. CASE PeerStep /\ UNCHANGED schedulerVars
  BY <1>5, ElsewhereSchedules DEF PeerStep, schedulerVars
<1>6. CASE StopApp
  BY <1>6, ElsewhereSchedules DEF StopApp
<1>7. CASE UNCHANGED vars
  BY <1>7, ElsewhereSchedules DEF vars, schedulerVars
<1> QED
  BY <1>1, <1>2, <1>3, <1>4, <1>5, <1>6, <1>7, RunSchedules DEF Next, Program

=============================================================================
