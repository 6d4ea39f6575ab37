------------------------- MODULE LightThreadMgrProofs -------------------------
(***************************************************************************)
(* Proofs about LightThreadMgr for any set of jobs and any table bound.    *)
(*                                                                         *)
(* The inductive invariant is the conjunction of the checked ones: the     *)
(* idle list is exact because links are rewritten only when a worker that  *)
(* is on the processor retires or when the head is reused, and that needs  *)
(* currentWorker_ to be the running worker and the running worker to be    *)
(* one whose status is not DONE.                                           *)
(***************************************************************************)
EXTENDS LightThreadMgr, FiniteSetTheorems, SequenceTheorems, TLAPS

(* The bound the factory's guard keeps. *)
TableFits == Len(workers_) <= MaxWorkers

IInv == /\ ManagerTypeOK
        /\ BusyCountExact
        /\ IdleListExact
        /\ ContextsMatch
        /\ CurrentIsOnCpu
        /\ TableFits

(* The table has finitely many workers: the counts are numbers. *)
LEMMA FiniteTable ==
  ASSUME ManagerTypeOK
  PROVE  /\ Len(workers_) \in Nat
         /\ DOMAIN workers_ = Ids
         /\ DOMAIN lightThread = Ids
         /\ IsFiniteSet(IdleIds) /\ IdleCount \in Nat
         /\ IsFiniteSet(BusyIds) /\ Cardinality(BusyIds) \in Nat
<1>1. Len(workers_) \in Nat /\ DOMAIN workers_ = Ids /\ DOMAIN lightThread = Ids
  BY LenProperties DEF ManagerTypeOK, Ids
<1>2. IsFiniteSet(Ids)
  BY <1>1, FS_Interval DEF Ids
<1>3. IdleIds \in SUBSET Ids /\ BusyIds \in SUBSET Ids
  BY DEF IdleIds, BusyIds
<1>4. IsFiniteSet(IdleIds) /\ IsFiniteSet(BusyIds)
  BY <1>2, <1>3, FS_Subset
<1> QED
  BY <1>1, <1>4, FS_CardinalityType DEF IdleCount

(* The head of the idle list is an idle worker, and there is no head only  *)
(* when no worker idles.                                                   *)
LEMMA IdleHead ==
  ASSUME ManagerTypeOK, IdleListExact
  PROVE  /\ idleWorkerFirst_ > NoWorker => idleWorkerFirst_ \in IdleIds
         /\ ~ (idleWorkerFirst_ > NoWorker) => IdleIds = {}
<1>1. IdleCount \in Nat /\ IsFiniteSet(IdleIds)
  BY FiniteTable
<1>2. PICK order \in [1 .. IdleCount -> IdleIds] : ThreadsIdle(order)
  BY DEF IdleListExact
<1>3. idleWorkerFirst_ = IF 0 < IdleCount THEN order[1] ELSE NoWorker
  BY <1>2 DEF ThreadsIdle, Link
<1>4. CASE IdleCount = 0
  <2>1. IdleIds = {}
    BY <1>1, <1>4, FS_EmptySet DEF IdleCount
  <2> QED
    BY <1>3, <1>4, <2>1 DEF NoWorker
<1>5. CASE IdleCount # 0
  <2>1. order[1] \in IdleIds
    BY <1>1, <1>2, <1>5
  <2>2. order[1] > NoWorker
    BY <2>1 DEF IdleIds, Ids, NoWorker
  <2> QED
    BY <1>1, <1>3, <1>5, <2>1, <2>2
<1> QED
  BY <1>4, <1>5

-----------------------------------------------------------------------------

LEMMA InitIInv == ManagerInit => IInv
<1> SUFFICES ASSUME ManagerInit PROVE IInv
  OBVIOUS
<1>1. Ids = {} /\ IdleIds = {} /\ BusyIds = {}
  BY DEF ManagerInit, Ids, IdleIds, BusyIds
<1>2. ManagerTypeOK
  BY <1>1, EmptySeq DEF ManagerInit, ManagerTypeOK, NoWorker
<1>3. BusyCountExact
  BY <1>1, FS_EmptySet DEF ManagerInit, BusyCountExact
<1>4. IdleListExact
  <2>1. IdleCount = 0
    BY <1>1, FS_EmptySet DEF IdleCount
  <2> DEFINE none == [i \in 1 .. 0 |-> 0]
  <2>2. none \in [1 .. IdleCount -> IdleIds]
    BY <1>1, <2>1
  <2>3. ThreadsIdle(none)
    BY <2>1 DEF ThreadsIdle, Link, ManagerInit
  <2> QED
    BY <2>2, <2>3 DEF IdleListExact
<1>5. ContextsMatch /\ CurrentIsOnCpu
  BY <1>1 DEF ManagerInit, ContextsMatch, CurrentIsOnCpu
<1>6. TableFits
  BY MaxWorkersAssumption DEF ManagerInit, TableFits
<1> QED
  BY <1>2, <1>3, <1>4, <1>5, <1>6 DEF IInv

(* Handing the head of the idle list a new job. *)
LEMMA ReuseKeepsIInv ==
  ASSUME IInv, NEW job \in Jobs, WorkerFactory(job), ReuseWorker(job)
  PROVE  IInv'
<1> DEFINE h == idleWorkerFirst_
<1>1. h \in IdleIds /\ h \in Ids /\ Done(h)
  BY IdleHead DEF IInv, ReuseWorker, IdleIds
<1>2. /\ Len(workers_) \in Nat /\ DOMAIN workers_ = Ids /\ DOMAIN lightThread = Ids
      /\ IsFiniteSet(IdleIds) /\ IdleCount \in Nat
      /\ IsFiniteSet(BusyIds) /\ Cardinality(BusyIds) \in Nat
  BY FiniteTable DEF IInv
<1>3. /\ Len(workers_') = Len(workers_) /\ DOMAIN workers_' = Ids
      /\ Ids' = Ids
      /\ workers_'[h] = Suspended
      /\ \A w \in Ids : w # h => workers_'[w] = workers_[w]
      /\ Len(lightThread') = Len(lightThread)
      /\ lightThread'[h] = JobSet(job)
      /\ \A w \in Ids : w # h => lightThread'[w] = lightThread[w]
  BY <1>1, <1>2 DEF ReuseWorker, IInv, ManagerTypeOK, Ids
<1>4. IdleIds' = IdleIds \ {h} /\ BusyIds' = BusyIds \cup {h}
  BY <1>1, <1>3 DEF IdleIds, BusyIds, Done, Suspended
<1>5. IdleCount' = IdleCount - 1 /\ Cardinality(BusyIds') = Cardinality(BusyIds) + 1
  <2>1. h \notin BusyIds
    BY <1>1 DEF BusyIds
  <2> QED
    BY <1>1, <1>2, <1>4, <2>1, FS_RemoveElement, FS_AddElement DEF IdleCount
<1>6. ManagerTypeOK'
  <2>1. workers_' \in Seq(Worker')
    <3>1. Suspended \in Worker /\ Worker' = Worker
      BY <1>3 DEF Worker, Suspended
    <3> QED
      BY <1>1, <3>1, ExceptSeq DEF ReuseWorker, IInv, ManagerTypeOK, Ids
  <2>2. lightThread' \in Seq([doFunc_ : Jobs, context_ : Contexts])
    <3>1. JobSet(job) \in [doFunc_ : Jobs, context_ : Contexts]
      BY DEF JobSet, Contexts
    <3> QED
      BY <1>1, <3>1, ExceptSeq DEF ReuseWorker, IInv, ManagerTypeOK, Ids
  <2>3. idleWorkerFirst_' \in Ids' \cup {NoWorker}
    <3>1. workers_[h] \in Worker
      BY <1>1, ElementOfSeq DEF IInv, ManagerTypeOK, Ids
    <3> QED
      BY <1>3, <3>1 DEF ReuseWorker, Worker
  <2>4. /\ Len(lightThread') = Len(workers_')
        /\ busyWorkersCount_' \in Nat
        /\ currentWorker_' \in Ids' \cup {NoWorker}
        /\ onCpu' \in Ids' \cup {NoWorker}
    BY <1>3 DEF WorkerFactory, IInv, ManagerTypeOK
  <2> QED
    BY <2>1, <2>2, <2>3, <2>4 DEF ManagerTypeOK
<1>7. BusyCountExact'
  BY <1>5 DEF BusyCountExact, IInv, WorkerFactory
<1>8. IdleListExact'
  <2>1. PICK order \in [1 .. IdleCount -> IdleIds] : ThreadsIdle(order)
    BY DEF IInv, IdleListExact
  <2>2. IdleCount >= 1
    <3>1. IdleCount # 0
      BY <1>1, <1>2, FS_EmptySet DEF IdleCount
    <3> QED
      BY <1>2, <3>1
  <2>3. h = order[1]
    BY <1>2, <2>1, <2>2 DEF ThreadsIdle, Link
  <2>r. PICK rest : rest = [i \in 1 .. IdleCount - 1 |-> order[i + 1]]
    OBVIOUS
  <2>4. \A i \in 1 .. IdleCount - 1 : rest[i] \in IdleIds /\ rest[i] # h
    BY <1>2, <2>1, <2>2, <2>3, <2>r DEF ThreadsIdle
  <2>5. rest \in [1 .. IdleCount' -> IdleIds']
    BY <1>4, <1>5, <2>4, <2>r
  <2>6. ThreadsIdle(rest)'
    <3>1. \A i, j \in 1 .. IdleCount - 1 : rest[i] = rest[j] => i = j
      BY <1>2, <2>1, <2>r DEF ThreadsIdle
    <3>2. idleWorkerFirst_' = IF 0 < IdleCount - 1 THEN rest[1] ELSE NoWorker
      BY <1>2, <2>1, <2>2, <2>3, <2>r DEF ReuseWorker, ThreadsIdle, Link
    <3>3. \A i \in 1 .. IdleCount - 1 :
             workers_'[rest[i]].idleWorkerNext =
               IF i < IdleCount - 1 THEN rest[i + 1] ELSE NoWorker
      <4> TAKE i \in 1 .. IdleCount - 1
      <4>1. workers_'[rest[i]] = workers_[order[i + 1]]
        BY <1>3, <2>4, <2>r DEF IdleIds
      <4>2. workers_[order[i + 1]].idleWorkerNext =
              IF i + 1 < IdleCount THEN order[i + 2] ELSE NoWorker
        BY <1>2, <2>1 DEF ThreadsIdle, Link
      <4> QED
        BY <1>2, <2>r, <4>1, <4>2
    <3> QED
      BY <1>2, <1>5, <3>1, <3>2, <3>3 DEF ThreadsIdle, Link
  <2> QED
    BY <2>5, <2>6 DEF IdleListExact
<1>9. ContextsMatch' /\ CurrentIsOnCpu'
  BY <1>1, <1>3 DEF ContextsMatch, CurrentIsOnCpu, IInv, WorkerFactory, Done,
                    Suspended, JobSet, NoWorker, Ids
<1> QED
  BY <1>3, <1>6, <1>7, <1>8, <1>9 DEF IInv, TableFits

(* Adding a worker to a table in which nobody idles. *)
LEMMA BuildKeepsIInv ==
  ASSUME IInv, NEW job \in Jobs, WorkerFactory(job), BuildWorker(job)
  PROVE  IInv'
<1> DEFINE n == Len(workers_) + 1
<1>1. /\ Len(workers_) \in Nat /\ DOMAIN workers_ = Ids /\ DOMAIN lightThread = Ids
      /\ IsFiniteSet(BusyIds) /\ Cardinality(BusyIds) \in Nat
  BY FiniteTable DEF IInv
<1>2. IdleIds = {}
  BY IdleHead DEF IInv, BuildWorker
<1>3. Suspended \in Worker /\ JobSet(job) \in [doFunc_ : Jobs, context_ : Contexts]
  BY DEF Suspended, Worker, JobSet, Contexts
<1>4. /\ Len(workers_') = n /\ workers_' \in Seq(Worker) /\ workers_'[n] = Suspended
      /\ \A w \in Ids : workers_'[w] = workers_[w]
  BY <1>3, AppendProperties DEF BuildWorker, IInv, ManagerTypeOK, Ids
<1>5. /\ Len(lightThread') = n /\ lightThread'[n] = JobSet(job)
      /\ lightThread' \in Seq([doFunc_ : Jobs, context_ : Contexts])
      /\ \A w \in Ids : lightThread'[w] = lightThread[w]
  BY <1>3, AppendProperties DEF BuildWorker, IInv, ManagerTypeOK, Ids
<1>6. Ids' = Ids \cup {n} /\ n \notin Ids
  BY <1>1, <1>4 DEF Ids
<1>7. IdleIds' = {} /\ BusyIds' = BusyIds \cup {n} /\ n \notin BusyIds
  BY <1>2, <1>4, <1>6 DEF IdleIds, BusyIds, Done, Suspended
<1>8. IdleCount' = 0 /\ Cardinality(BusyIds') = Cardinality(BusyIds) + 1
  BY <1>1, <1>7, FS_EmptySet, FS_AddElement DEF IdleCount
<1>9. ManagerTypeOK'
  <2>1. Worker \subseteq Worker'
    BY <1>6 DEF Worker
  <2>2. workers_' \in Seq(Worker')
    BY <1>4, <2>1, SeqMonotonic
  <2> QED
    BY <1>4, <1>5, <1>6, <2>2 DEF BuildWorker, WorkerFactory, IInv, ManagerTypeOK
<1>10. BusyCountExact'
  BY <1>8 DEF BusyCountExact, IInv, WorkerFactory
<1>11. IdleListExact'
  <2> DEFINE none == [i \in 1 .. 0 |-> 0]
  <2>1. none \in [1 .. IdleCount' -> IdleIds']
    BY <1>7, <1>8
  <2>2. idleWorkerFirst_' = NoWorker
    BY DEF BuildWorker, IInv, ManagerTypeOK, Ids, NoWorker
  <2>3. ThreadsIdle(none)'
    BY <1>8, <2>2 DEF ThreadsIdle, Link
  <2> QED
    BY <2>1, <2>3 DEF IdleListExact
<1>12. ContextsMatch' /\ CurrentIsOnCpu'
  BY <1>1, <1>4, <1>5, <1>6 DEF ContextsMatch, CurrentIsOnCpu, IInv, ManagerTypeOK,
       WorkerFactory, Done, Suspended, JobSet, NoWorker, Ids
<1> QED
  BY <1>1, <1>4, <1>9, <1>10, <1>11, <1>12, MaxWorkersAssumption
     DEF IInv, TableFits, BuildWorker

(* A step that leaves the table alone leaves the list and the count alone. *)
LEMMA SameTable ==
  ASSUME UNCHANGED <<workers_, idleWorkerFirst_, busyWorkersCount_>>
  PROVE  /\ Ids' = Ids /\ IdleIds' = IdleIds /\ BusyIds' = BusyIds
         /\ Worker' = Worker
         /\ \A w : Done(w)' = Done(w)
         /\ BusyCountExact' = BusyCountExact
         /\ IdleListExact' = IdleListExact
<1>1. Ids' = Ids /\ \A w : Done(w)' = Done(w)
  BY DEF Ids, Done
<1>2. IdleIds' = IdleIds /\ BusyIds' = BusyIds /\ Worker' = Worker
  BY <1>1 DEF IdleIds, BusyIds, Worker
<1>3. IdleCount' = IdleCount
  BY <1>2 DEF IdleCount
<1>4. \A order : ThreadsIdle(order)' = ThreadsIdle(order)
  BY <1>3 DEF ThreadsIdle, Link
<1> QED
  BY <1>1, <1>2, <1>3, <1>4 DEF BusyCountExact, IdleListExact

(* Switching to a suspended worker. *)
LEMMA ResumeKeepsIInv ==
  ASSUME IInv, NEW id \in Ids, WorkerResume(id)
  PROVE  IInv'
<1>1. UNCHANGED <<workers_, idleWorkerFirst_, busyWorkersCount_>>
  BY DEF WorkerResume
<1>2. /\ Ids' = Ids /\ Worker' = Worker /\ \A w : Done(w)' = Done(w)
      /\ BusyCountExact' /\ IdleListExact'
  BY <1>1, SameTable DEF IInv
<1>3. lightThread[id] \in [doFunc_ : Jobs, context_ : Contexts]
  BY ElementOfSeq DEF IInv, ManagerTypeOK, Ids
<1>4. /\ Len(lightThread') = Len(lightThread)
      /\ lightThread' \in Seq([doFunc_ : Jobs, context_ : Contexts])
      /\ \A w \in Ids : lightThread'[w] =
            IF w = id THEN [lightThread[id] EXCEPT !.context_ = "running"]
                      ELSE lightThread[w]
  <2>1. [lightThread[id] EXCEPT !.context_ = "running"]
          \in [doFunc_ : Jobs, context_ : Contexts]
    BY <1>3 DEF Contexts
  <2> QED
    BY <2>1, ExceptSeq DEF WorkerResume, IInv, ManagerTypeOK, Ids
<1>5. ManagerTypeOK'
  BY <1>1, <1>2, <1>4 DEF WorkerResume, IInv, ManagerTypeOK
<1>6. ContextsMatch' /\ CurrentIsOnCpu'
  BY <1>2, <1>3, <1>4 DEF ContextsMatch, CurrentIsOnCpu, IInv, WorkerResume,
                          CanResume, Done, NoWorker, Ids
<1> QED
  BY <1>1, <1>2, <1>5, <1>6 DEF IInv, TableFits

(* The running coroutine gives the processor back. *)
LEMMA YieldKeepsIInv ==
  ASSUME IInv, WorkerYield
  PROVE  IInv'
<1> DEFINE c == currentWorker_
<1>1. UNCHANGED <<workers_, idleWorkerFirst_, busyWorkersCount_>>
  BY DEF WorkerYield
<1>2. /\ Ids' = Ids /\ Worker' = Worker /\ \A w : Done(w)' = Done(w)
      /\ BusyCountExact' /\ IdleListExact'
  BY <1>1, SameTable DEF IInv
<1>3. c \in Ids /\ c = onCpu
  BY DEF WorkerYield, IInv, ManagerTypeOK, CurrentIsOnCpu
<1>4. lightThread[c] \in [doFunc_ : Jobs, context_ : Contexts]
  BY <1>3, ElementOfSeq DEF IInv, ManagerTypeOK, Ids
<1>5. /\ Len(lightThread') = Len(lightThread)
      /\ lightThread' \in Seq([doFunc_ : Jobs, context_ : Contexts])
      /\ \A w \in Ids : lightThread'[w] =
            IF w = c THEN [lightThread[c] EXCEPT !.context_ = "saved"]
                     ELSE lightThread[w]
  <2>1. [lightThread[c] EXCEPT !.context_ = "saved"]
          \in [doFunc_ : Jobs, context_ : Contexts]
    BY <1>4 DEF Contexts
  <2> QED
    BY <1>3, <2>1, ExceptSeq DEF WorkerYield, IInv, ManagerTypeOK, Ids
<1>6. ManagerTypeOK'
  BY <1>1, <1>2, <1>5 DEF WorkerYield, IInv, ManagerTypeOK
<1>7. ContextsMatch' /\ CurrentIsOnCpu'
  BY <1>2, <1>3, <1>4, <1>5 DEF ContextsMatch, CurrentIsOnCpu, IInv, WorkerYield,
                                NoWorker, Ids
<1> QED
  BY <1>1, <1>2, <1>6, <1>7 DEF IInv, TableFits

(* The running coroutine finishes: it becomes the head of the idle list. *)
LEMMA DoneKeepsIInv ==
  ASSUME IInv, WorkerDone
  PROVE  IInv'
<1> DEFINE c == currentWorker_
           retired == [idleWorkerNext |-> idleWorkerFirst_, workerStatus |-> "DONE"]
<1>1. /\ c \in Ids /\ c = onCpu /\ ~ Done(c)
      /\ Len(workers_) \in Nat /\ DOMAIN workers_ = Ids /\ DOMAIN lightThread = Ids
      /\ IsFiniteSet(IdleIds) /\ IdleCount \in Nat
      /\ IsFiniteSet(BusyIds) /\ Cardinality(BusyIds) \in Nat
  BY FiniteTable DEF WorkerDone, IInv, ManagerTypeOK, CurrentIsOnCpu, ContextsMatch
<1>2. /\ workers_' = [workers_ EXCEPT ![c] = retired]
      /\ idleWorkerFirst_' = c
      /\ busyWorkersCount_' = busyWorkersCount_ - 1
      /\ currentWorker_' = NoWorker /\ onCpu' = NoWorker
      /\ lightThread' = [lightThread EXCEPT ![c].context_ = "ended"]
  BY <1>1 DEF WorkerDone, DoneCallback, Ids, NoWorker
<1>3. /\ Len(workers_') = Len(workers_) /\ Ids' = Ids
      /\ workers_'[c] = retired
      /\ \A w \in Ids : w # c => workers_'[w] = workers_[w]
  BY <1>1, <1>2 DEF IInv, ManagerTypeOK, Ids
<1>4. lightThread[c] \in [doFunc_ : Jobs, context_ : Contexts]
  BY <1>1, ElementOfSeq DEF IInv, ManagerTypeOK, Ids
<1>5. /\ Len(lightThread') = Len(lightThread)
      /\ lightThread' \in Seq([doFunc_ : Jobs, context_ : Contexts])
      /\ \A w \in Ids : lightThread'[w] =
            IF w = c THEN [lightThread[c] EXCEPT !.context_ = "ended"]
                     ELSE lightThread[w]
  <2>1. [lightThread[c] EXCEPT !.context_ = "ended"]
          \in [doFunc_ : Jobs, context_ : Contexts]
    BY <1>4 DEF Contexts
  <2> QED
    BY <1>1, <1>2, <2>1, ExceptSeq DEF IInv, ManagerTypeOK, Ids
<1>6. IdleIds' = IdleIds \cup {c} /\ BusyIds' = BusyIds \ {c}
  BY <1>1, <1>3 DEF IdleIds, BusyIds, Done
<1>7. /\ c \notin IdleIds /\ c \in BusyIds
      /\ IdleCount' = IdleCount + 1
      /\ Cardinality(BusyIds') = Cardinality(BusyIds) - 1
  <2>1. c \notin IdleIds /\ c \in BusyIds
    BY <1>1 DEF IdleIds, BusyIds
  <2> QED
    BY <1>1, <1>6, <2>1, FS_AddElement, FS_RemoveElement DEF IdleCount
<1>8. ManagerTypeOK'
  <2>1. retired \in Worker /\ Worker' = Worker
    BY <1>3 DEF Worker, IInv, ManagerTypeOK
  <2>2. workers_' \in Seq(Worker')
    BY <1>1, <1>2, <2>1, ExceptSeq DEF IInv, ManagerTypeOK, Ids
  <2>3. busyWorkersCount_' \in Nat
    <3>1. Cardinality(BusyIds) # 0
      BY <1>1, <1>7, FS_EmptySet
    <3> QED
      BY <1>1, <1>2, <3>1 DEF IInv, BusyCountExact
  <2> QED
    BY <1>1, <1>2, <1>3, <1>5, <2>2, <2>3 DEF IInv, ManagerTypeOK
<1>9. BusyCountExact'
  BY <1>1, <1>2, <1>7 DEF BusyCountExact, IInv
<1>10. IdleListExact'
  <2>1. PICK order : order \in [1 .. IdleCount -> IdleIds] /\ ThreadsIdle(order)
    BY DEF IInv, IdleListExact
  <2>2. PICK longer : longer = [i \in 1 .. IdleCount + 1 |->
                                  IF i = 1 THEN c ELSE order[i - 1]]
    OBVIOUS
  <2>3. \A i \in 2 .. IdleCount + 1 : longer[i] = order[i - 1] /\ longer[i] \in IdleIds
    BY <1>1, <2>1, <2>2
  <2>4. longer[1] = c
    BY <1>1, <2>2
  <2>5. longer \in [1 .. IdleCount' -> IdleIds']
    BY <1>1, <1>6, <1>7, <2>1, <2>2, <2>3, <2>4
  <2>6. ThreadsIdle(longer)'
    <3>1. \A i, j \in 1 .. IdleCount + 1 : longer[i] = longer[j] => i = j
      <4> TAKE i, j \in 1 .. IdleCount + 1
      <4> HAVE longer[i] = longer[j]
      <4>1. CASE i = 1 \/ j = 1
        BY <1>1, <1>7, <2>3, <2>4, <4>1
      <4>2. CASE i # 1 /\ j # 1
        BY <1>1, <2>1, <2>3, <4>2 DEF ThreadsIdle
      <4> QED
        BY <4>1, <4>2
    <3>2. \A i \in 1 .. IdleCount + 1 :
             workers_'[longer[i]].idleWorkerNext =
               IF i < IdleCount + 1 THEN longer[i + 1] ELSE NoWorker
      <4> TAKE i \in 1 .. IdleCount + 1
      <4>1. CASE i = 1
        <5>1. workers_'[longer[i]].idleWorkerNext = idleWorkerFirst_
          BY <1>3, <2>4, <4>1
        <5>2. idleWorkerFirst_ = IF 0 < IdleCount THEN order[1] ELSE NoWorker
          BY <2>1 DEF ThreadsIdle, Link
        <5> QED
          BY <1>1, <2>3, <4>1, <5>1, <5>2
      <4>2. CASE i # 1
        <5>1. workers_'[longer[i]] = workers_[order[i - 1]]
          BY <1>1, <1>3, <1>7, <2>3, <4>2 DEF IdleIds
        <5>2. workers_[order[i - 1]].idleWorkerNext =
                IF i - 1 < IdleCount THEN order[i] ELSE NoWorker
          BY <1>1, <2>1, <4>2 DEF ThreadsIdle, Link
        <5> QED
          BY <1>1, <2>3, <4>2, <5>1, <5>2
      <4> QED
        BY <4>1, <4>2
    <3>3. idleWorkerFirst_' = IF 0 < IdleCount + 1 THEN longer[1] ELSE NoWorker
      BY <1>1, <1>2, <2>4
    <3> QED
      BY <1>1, <1>7, <3>1, <3>2, <3>3 DEF ThreadsIdle, Link
  <2> QED
    BY <2>5, <2>6 DEF IdleListExact
<1>11. ContextsMatch' /\ CurrentIsOnCpu'
  BY <1>1, <1>2, <1>3, <1>4, <1>5 DEF ContextsMatch, CurrentIsOnCpu, IInv, Done,
                                      NoWorker, Ids
<1> QED
  BY <1>3, <1>8, <1>9, <1>10, <1>11 DEF IInv, TableFits

(* Every step of the manager keeps the invariant. *)
LEMMA NextKeepsIInv == IInv /\ [ManagerNext]_managerVars => IInv'
<1> SUFFICES ASSUME IInv, [ManagerNext]_managerVars PROVE IInv'
  OBVIOUS
<1>1. ASSUME NEW job \in Jobs, WorkerFactory(job) PROVE IInv'
  BY <1>1, ReuseKeepsIInv, BuildKeepsIInv DEF WorkerFactory
<1>2. ASSUME NEW id \in 1 .. MaxWorkers, WorkerResume(id) PROVE IInv'
  BY <1>2, ResumeKeepsIInv DEF WorkerResume, CanResume
<1>3. CASE WorkerYield
  BY <1>3, YieldKeepsIInv
<1>4. CASE WorkerDone
  BY <1>4, DoneKeepsIInv
<1>5. CASE UNCHANGED managerVars
  <2>1. /\ Ids' = Ids /\ Worker' = Worker /\ \A w : Done(w)' = Done(w)
        /\ BusyCountExact' /\ IdleListExact'
    BY <1>5, SameTable DEF IInv, managerVars
  <2> QED
    BY <1>5, <2>1 DEF IInv, managerVars, ManagerTypeOK, ContextsMatch, CurrentIsOnCpu, TableFits
<1> QED
  BY <1>1, <1>2, <1>3, <1>4, <1>5 DEF ManagerNext, WorkerResumeRefused

THEOREM Inductive == ManagerSpec => []IInv
  BY InitIInv, NextKeepsIInv, PTL DEF ManagerSpec

-----------------------------------------------------------------------------

(* Whatever the jobs and however large the table grows, every variable     *)
(* keeps its type; in particular each link of the idle list is an index of *)
(* the table or -1, so the factory never reads outside workers_.           *)
THEOREM TypeCorrect == ManagerSpec => []ManagerTypeOK
<1>1. IInv => ManagerTypeOK
  BY DEF IInv
<1> QED
  BY <1>1, Inductive, PTL

(* The intrusive list holds exactly the workers whose job is over, each    *)
(* once: the factory never hands out a worker that is still busy and never *)
(* loses one that is free.                                                 *)
THEOREM IdleListIsExact == ManagerSpec => []IdleListExact
<1>1. IInv => IdleListExact
  BY DEF IInv
<1> QED
  BY <1>1, Inductive, PTL

(* busyWorkersCount_ is the number of unfinished jobs: AllDone, on which   *)
(* the event loop ends, never ignores a coroutine that is half way.        *)
THEOREM BusyCountIsExact == ManagerSpec => []BusyCountExact
<1>1. IInv => BusyCountExact
  BY DEF IInv
<1> QED
  BY <1>1, Inductive, PTL

(* The status Resume tests is the truth about the context: it never        *)
(* switches to an ended context, and one context at most has the processor.*)
THEOREM StatusMatchesContext == ManagerSpec => []ContextsMatch
<1>1. IInv => ContextsMatch
  BY DEF IInv
<1> QED
  BY <1>1, Inductive, PTL

(* Yield and the done callback act on the coroutine that calls them. *)
THEOREM CurrentIsCaller == ManagerSpec => []CurrentIsOnCpu
<1>1. IInv => CurrentIsOnCpu
  BY DEF IInv
<1> QED
  BY <1>1, Inductive, PTL

-----------------------------------------------------------------------------

(* The job of every busy worker, as the abstract pool sees it. *)
JobOf == [w \in BusyIds |-> lightThread[w].doFunc_]

LEMMA FactoryIsSubmit ==
  ASSUME IInv, NEW job \in Jobs, WorkerFactory(job)
  PROVE  \E w \in 1 .. MaxWorkers : Pool!Submit(w, job)
<1>1. /\ Len(workers_) \in Nat /\ DOMAIN workers_ = Ids /\ DOMAIN lightThread = Ids
      /\ onCpu = NoWorker /\ onCpu' = NoWorker
  BY FiniteTable DEF WorkerFactory, IInv
<1>2. CASE ReuseWorker(job)
  <2> DEFINE h == idleWorkerFirst_
  <2>1. h \in IdleIds /\ h \in Ids /\ h \notin BusyIds
    BY <1>2, IdleHead DEF IInv, ReuseWorker, IdleIds, BusyIds
  <2>2. /\ Ids' = Ids /\ workers_'[h] = Suspended /\ lightThread'[h] = JobSet(job)
        /\ \A w \in Ids : w # h => /\ workers_'[w] = workers_[w]
                                   /\ lightThread'[w] = lightThread[w]
    BY <1>1, <1>2, <2>1 DEF ReuseWorker, IInv, ManagerTypeOK, Ids
  <2>3. IdleIds' = IdleIds \ {h} /\ BusyIds' = BusyIds \cup {h}
    BY <2>1, <2>2 DEF IdleIds, BusyIds, Done, Suspended
  <2>4. JobOf' = [x \in BusyIds \cup {h} |-> IF x = h THEN job ELSE JobOf[x]]
    BY <2>1, <2>2, <2>3 DEF JobOf, JobSet, BusyIds
  <2>5. Pool!Submit(h, job)
    <3>1. IdleIds # {}
      BY <2>1
    <3> QED
      BY <1>1, <2>1, <2>3, <2>4, <3>1 DEF Pool!Submit, Pool!Busy, JobOf
  <2>6. h \in 1 .. MaxWorkers
    BY <1>1, <2>1, MaxWorkersAssumption DEF IInv, TableFits, Ids
  <2> QED
    BY <2>5, <2>6
<1>3. CASE BuildWorker(job)
  <2> DEFINE n == Len(workers_) + 1
  <2>1. IdleIds = {}
    BY <1>3, IdleHead DEF IInv, BuildWorker
  <2>2. /\ Len(workers_') = n /\ workers_'[n] = Suspended /\ lightThread'[n] = JobSet(job)
        /\ \A w \in Ids : /\ workers_'[w] = workers_[w]
                          /\ lightThread'[w] = lightThread[w]
    <3>1. Suspended \in Worker /\ JobSet(job) \in [doFunc_ : Jobs, context_ : Contexts]
      BY DEF Suspended, Worker, JobSet, Contexts
    <3> QED
      BY <1>3, <3>1, AppendProperties DEF BuildWorker, IInv, ManagerTypeOK, Ids
  <2>3. Ids' = Ids \cup {n} /\ n \notin Ids
    BY <1>1, <2>2 DEF Ids
  <2>4. IdleIds' = {} /\ BusyIds' = BusyIds \cup {n} /\ n \notin BusyIds
    BY <2>1, <2>2, <2>3 DEF IdleIds, BusyIds, Done, Suspended
  <2>5. JobOf' = [x \in BusyIds \cup {n} |-> IF x = n THEN job ELSE JobOf[x]]
    BY <2>2, <2>3, <2>4 DEF JobOf, JobSet, BusyIds
  <2>6. Pool!Submit(n, job)
    <3>1. DOMAIN JobOf = 1 .. Len(workers_)
      BY <2>1 DEF JobOf, IdleIds, BusyIds, Ids
    <3>2. DOMAIN JobOf = 1 .. n - 1
      BY <1>1, <3>1
    <3> QED
      BY <1>1, <2>1, <2>4, <2>5, <3>2 DEF Pool!Submit, Pool!Busy, JobOf
  <2>7. n \in 1 .. MaxWorkers
    BY <1>1, <1>3, MaxWorkersAssumption DEF BuildWorker
  <2> QED
    BY <2>6, <2>7
<1> QED
  BY <1>2, <1>3 DEF WorkerFactory

(* Every step of the manager is a step of the pool, or changes nothing     *)
(* that the pool can see.                                                  *)
LEMMA StepIsPoolStep == IInv /\ [ManagerNext]_managerVars => [Pool!Next]_(Pool!vars)
<1> SUFFICES ASSUME IInv, [ManagerNext]_managerVars PROVE [Pool!Next]_(Pool!vars)
  OBVIOUS
<1>1. ASSUME NEW job \in Jobs, WorkerFactory(job) PROVE Pool!Next
  BY <1>1, FactoryIsSubmit DEF Pool!Next
<1>2. ASSUME NEW id \in 1 .. MaxWorkers, WorkerResume(id) PROVE Pool!Next
  <2>1. IdleIds' = IdleIds /\ BusyIds' = BusyIds
    BY <1>2, SameTable DEF WorkerResume
  <2>2. id \in Ids /\ id \in BusyIds
    BY <1>2 DEF WorkerResume, CanResume, BusyIds, Done
  <2>3. JobOf' = JobOf
    <3>1. \A w \in BusyIds : lightThread'[w].doFunc_ = lightThread[w].doFunc_
      BY <1>2, <2>2, FiniteTable, ElementOfSeq
         DEF WorkerResume, BusyIds, IInv, ManagerTypeOK, Ids
    <3> QED
      BY <2>1, <3>1 DEF JobOf
  <2>4. Pool!Run(id)
    BY <1>2, <2>1, <2>2, <2>3 DEF Pool!Run, Pool!Busy, WorkerResume, JobOf
  <2> QED
    BY <2>2, <2>4 DEF Pool!Next
<1>3. CASE WorkerYield
  <2>1. IdleIds' = IdleIds /\ BusyIds' = BusyIds
    BY <1>3, SameTable DEF WorkerYield
  <2>2. JobOf' = JobOf
    <3>1. \A w \in BusyIds : lightThread'[w].doFunc_ = lightThread[w].doFunc_
      BY <1>3, FiniteTable, ElementOfSeq
         DEF WorkerYield, BusyIds, IInv, ManagerTypeOK, Ids
    <3> QED
      BY <2>1, <3>1 DEF JobOf
  <2>3. Pool!Pause
    BY <1>3, <2>1, <2>2 DEF Pool!Pause, WorkerYield, JobOf
  <2> QED
    BY <2>3 DEF Pool!Next
<1>4. CASE WorkerDone
  <2> DEFINE c == onCpu
  <2>1. c \in Ids /\ c \in BusyIds /\ currentWorker_ = c /\ c # NoWorker
    BY <1>4 DEF WorkerDone, IInv, ManagerTypeOK, CurrentIsOnCpu, ContextsMatch, BusyIds
  <2>2. /\ workers_' = [workers_ EXCEPT ![c] =
             [idleWorkerNext |-> idleWorkerFirst_, workerStatus |-> "DONE"]]
        /\ lightThread' = [lightThread EXCEPT ![c].context_ = "ended"]
        /\ onCpu' = NoWorker
    BY <1>4, <2>1 DEF WorkerDone, DoneCallback
  <2>3. DOMAIN workers_ = Ids /\ DOMAIN lightThread = Ids
    BY FiniteTable DEF IInv
  <2>4. /\ Ids' = Ids /\ workers_'[c].workerStatus = "DONE"
        /\ \A w \in Ids : w # c => /\ workers_'[w] = workers_[w]
                                   /\ lightThread'[w] = lightThread[w]
    BY <2>1, <2>2, <2>3 DEF IInv, ManagerTypeOK, Ids
  <2>5. IdleIds' = IdleIds \cup {c} /\ BusyIds' = BusyIds \ {c}
    BY <2>1, <2>4 DEF IdleIds, BusyIds, Done
  <2>6. JobOf' = [x \in BusyIds \ {c} |-> JobOf[x]]
    BY <2>4, <2>5 DEF JobOf, BusyIds
  <2>7. Pool!Finish
    BY <2>1, <2>2, <2>5, <2>6 DEF Pool!Finish, Pool!Busy, JobOf
  <2> QED
    BY <2>7 DEF Pool!Next
<1>5. CASE UNCHANGED managerVars
  <2>1. IdleIds' = IdleIds /\ BusyIds' = BusyIds /\ onCpu' = onCpu
    BY <1>5, SameTable DEF managerVars
  <2>2. JobOf' = JobOf
    BY <1>5, <2>1 DEF JobOf, managerVars
  <2> QED
    BY <2>1, <2>2 DEF Pool!vars, JobOf
<1> QED
  BY <1>1, <1>2, <1>3, <1>4, <1>5 DEF ManagerNext, WorkerResumeRefused

(* The manager keeps the promise of the abstract pool: a job goes to an    *)
(* idle worker when there is one, stays with it until it finishes, and     *)
(* only workers with an unfinished job ever have the processor.            *)
THEOREM ManagerImplementsPool == ManagerSpec => ImplementsPool
<1>1. ManagerInit => Pool!Init
  BY DEF ManagerInit, Pool!Init, Ids, IdleIds, BusyIds
<1>2. IInv /\ [ManagerNext]_managerVars => [Pool!Next]_(Pool!vars)
  BY StepIsPoolStep
<1> QED
  BY <1>1, <1>2, Inductive, PTL DEF ManagerSpec, ImplementsPool, Pool!Spec

=============================================================================
