---------------------------- MODULE LightThreadMgr ----------------------------
(***************************************************************************)
(* The light-thread (coroutine) manager of network/dan_light_thread_mgr.hpp *)
(* and the light thread itself, network/dan_light_thread.hpp.              *)
(*                                                                         *)
(* The manager keeps a table of workers.  A worker whose job is over is    *)
(* pushed on an intrusive list, idleWorkerFirst_ -> idleWorkerNext -> ..., *)
(* and the next job takes the worker at the head of that list; a worker is *)
(* added to the table only when the list is empty.                         *)
(*                                                                         *)
(* Worker identities count from 1 here (from 0 in the code): a worker is   *)
(* an index of the sequence workers_.  -1 is "no worker" in both.          *)
(*                                                                         *)
(* Yield and Resume copy the table entry (auto w=workers_[id]), so their   *)
(* assignments to workerStatus are lost: the table holds only SUSPEND, set *)
(* by the factory, and DONE, set by the done callback.                     *)
(***************************************************************************)
EXTENDS Integers, Sequences, FiniteSets

CONSTANTS Jobs,       \* the functions, with their arguments, given to workers
          MaxWorkers  \* bound: entries the worker table may grow to

ASSUME MaxWorkersAssumption == MaxWorkers \in Nat

VARIABLES workers_,           \* the table: [idleWorkerNext, workerStatus]
          lightThread,        \* what lightThreadPtr points to: [doFunc_, context_]
          idleWorkerFirst_,   \* head of the idle list, or NoWorker
          busyWorkersCount_,  \* jobs handed out and not finished
          currentWorker_,     \* the worker the manager believes is running
          onCpu               \* the context that really has the processor

managerVars == <<workers_, lightThread, idleWorkerFirst_, busyWorkersCount_,
                 currentWorker_, onCpu>>

NoWorker == -1   \* as onCpu: the main context

Ids == 1 .. Len(workers_)

(* The states of a ucontext: made by makecontext, on the processor, saved  *)
(* by swapcontext, or run to its end and returned through uc_link.         *)
Contexts == {"made", "running", "saved", "ended"}

Done(w) == workers_[w].workerStatus = "DONE"
IdleIds == {w \in Ids : Done(w)}
BusyIds == {w \in Ids : ~ Done(w)}

-----------------------------------------------------------------------------

ManagerInit ==
  /\ workers_ = <<>>
  /\ lightThread = <<>>
  /\ idleWorkerFirst_ = NoWorker
  /\ busyWorkersCount_ = 0
  /\ currentWorker_ = NoWorker
  /\ onCpu = NoWorker

(* The identity danLightThreadMgrWorkerFactory returns. *)
FactoryId == IF idleWorkerFirst_ > NoWorker THEN idleWorkerFirst_
                                            ELSE Len(workers_) + 1

Suspended == [idleWorkerNext |-> NoWorker, workerStatus |-> "SUSPEND"]

(* Mutant of JobSet: makecontext is not called for the new job. *)
JobSetOldContext(job) == [doFunc_ |-> job, context_ |-> "ended"]

(* danLightThreadSetJob: the job, and a context that will start it. *)
JobSet(job) == [doFunc_ |-> job, context_ |-> "made"]

(* The factory, when a worker idles: unlink the head and give it the job. *)
ReuseWorker(job) ==
  /\ idleWorkerFirst_ > NoWorker
  /\ idleWorkerFirst_' = workers_[idleWorkerFirst_].idleWorkerNext
  /\ lightThread' = [lightThread EXCEPT ![idleWorkerFirst_] = JobSet(job)]
  /\ workers_' = [workers_ EXCEPT ![idleWorkerFirst_] = Suspended]

(* Mutant of BuildWorker: a light thread is built although one idles. *)
BuildWorkerAlways(job) ==
  /\ Len(workers_) < MaxWorkers
  /\ lightThread' = Append(lightThread, JobSet(job))
  /\ workers_' = Append(workers_, Suspended)
  /\ UNCHANGED idleWorkerFirst_

(* The factory, when every worker is busy: a new light thread. *)
BuildWorker(job) ==
  /\ ~ (idleWorkerFirst_ > NoWorker)
  /\ Len(workers_) < MaxWorkers
  /\ lightThread' = Append(lightThread, JobSet(job))
  /\ workers_' = Append(workers_, Suspended)
  /\ UNCHANGED idleWorkerFirst_

(* Mutant of WorkerFactory: the job is not counted. *)
WorkerFactoryUncounted(job) ==
  /\ onCpu = NoWorker
  /\ ReuseWorker(job) \/ BuildWorker(job)
  /\ UNCHANGED <<busyWorkersCount_, currentWorker_, onCpu>>

(* danLightThreadMgrWorkerFactory.  Jobs are never the null function: the  *)
(* scheduler is only given bound functions, so the -2 return is left out.  *)
WorkerFactory(job) ==
  /\ onCpu = NoWorker
  /\ ReuseWorker(job) \/ BuildWorker(job)
  /\ busyWorkersCount_' = busyWorkersCount_ + 1
  /\ UNCHANGED <<currentWorker_, onCpu>>

(* danLightThreadMgrWorkerResume, called by the main context: switches to  *)
(* the worker unless the identity is out of the table or its job is over.  *)
CanResume(id) == id \in Ids /\ workers_[id].workerStatus = "SUSPEND"

WorkerResume(id) ==
  /\ onCpu = NoWorker
  /\ CanResume(id)
  /\ currentWorker_' = id
  /\ onCpu' = id
  /\ lightThread' = [lightThread EXCEPT ![id].context_ = "running"]
  /\ UNCHANGED <<workers_, idleWorkerFirst_, busyWorkersCount_>>

(* The other return of Resume, false: nothing is switched. *)
WorkerResumeRefused(id) ==
  /\ onCpu = NoWorker
  /\ ~ CanResume(id)
  /\ UNCHANGED managerVars

(* Mutant of WorkerYield: currentWorker_ is not reset. *)
WorkerYieldStillCurrent ==
  /\ onCpu # NoWorker
  /\ currentWorker_ # NoWorker
  /\ onCpu' = NoWorker
  /\ lightThread' = [lightThread EXCEPT ![currentWorker_].context_ = "saved"]
  /\ UNCHANGED <<workers_, idleWorkerFirst_, busyWorkersCount_, currentWorker_>>

(* danLightThreadMgrWorkerYield, called by the coroutine: the context of   *)
(* currentWorker_ is where swapcontext saves the caller.                   *)
WorkerYield ==
  /\ onCpu # NoWorker
  /\ currentWorker_ # NoWorker
  /\ currentWorker_' = NoWorker
  /\ onCpu' = NoWorker
  /\ lightThread' = [lightThread EXCEPT ![currentWorker_].context_ = "saved"]
  /\ UNCHANGED <<workers_, idleWorkerFirst_, busyWorkersCount_>>

(* Mutants of DoneCallback: the rest of the idle list is lost; the job is  *)
(* still counted. *)
DoneCallbackUnlinked ==
  /\ currentWorker_ # NoWorker
  /\ workers_' = [workers_ EXCEPT ![currentWorker_].workerStatus = "DONE"]
  /\ idleWorkerFirst_' = currentWorker_
  /\ busyWorkersCount_' = busyWorkersCount_ - 1
  /\ currentWorker_' = NoWorker

DoneCallbackUncounted ==
  /\ currentWorker_ # NoWorker
  /\ workers_' = [workers_ EXCEPT ![currentWorker_] =
                     [idleWorkerNext |-> idleWorkerFirst_, workerStatus |-> "DONE"]]
  /\ idleWorkerFirst_' = currentWorker_
  /\ currentWorker_' = NoWorker
  /\ UNCHANGED busyWorkersCount_

(* danLightThreadMgrWorkerDoneCallback: push currentWorker_ on the idle list. *)
DoneCallback ==
  IF currentWorker_ # NoWorker
    THEN /\ workers_' = [workers_ EXCEPT ![currentWorker_] =
                           [idleWorkerNext |-> idleWorkerFirst_, workerStatus |-> "DONE"]]
         /\ idleWorkerFirst_' = currentWorker_
         /\ busyWorkersCount_' = busyWorkersCount_ - 1
         /\ currentWorker_' = NoWorker
    ELSE UNCHANGED <<workers_, idleWorkerFirst_, busyWorkersCount_, currentWorker_>>

(* doFuncWrapper: the job returns, the callback runs, and the context ends *)
(* and continues at uc_link, the main context.                             *)
WorkerDone ==
  /\ onCpu # NoWorker
  /\ DoneCallback
  /\ lightThread' = [lightThread EXCEPT ![onCpu].context_ = "ended"]
  /\ onCpu' = NoWorker

ManagerNext ==
  \/ \E job \in Jobs : WorkerFactory(job)
  \/ \E id \in 1 .. MaxWorkers : WorkerResume(id) \/ WorkerResumeRefused(id)
  \/ WorkerYield
  \/ WorkerDone

ManagerSpec == ManagerInit /\ [][ManagerNext]_managerVars

-----------------------------------------------------------------------------

(* Every variable has its type; idle-list links stay inside the table. *)
Worker == [idleWorkerNext : Ids \cup {NoWorker}, workerStatus : {"SUSPEND", "DONE"}]

ManagerTypeOK ==
  /\ workers_ \in Seq(Worker)
  /\ lightThread \in Seq([doFunc_ : Jobs, context_ : Contexts])
  /\ Len(lightThread) = Len(workers_)
  /\ idleWorkerFirst_ \in Ids \cup {NoWorker}
  /\ busyWorkersCount_ \in Nat
  /\ currentWorker_ \in Ids \cup {NoWorker}
  /\ onCpu \in Ids \cup {NoWorker}

(* The idle list, followed from idleWorkerFirst_ along idleWorkerNext,     *)
(* visits every worker whose job is over exactly once, no busy worker, and *)
(* ends: the factory can neither hand out a busy worker nor lose one.      *)
IdleCount == Cardinality(IdleIds)

Link(order, i) == IF i < IdleCount THEN order[i + 1] ELSE NoWorker

ThreadsIdle(order) ==
  /\ \A i, j \in 1 .. IdleCount : order[i] = order[j] => i = j
  /\ idleWorkerFirst_ = Link(order, 0)
  /\ \A i \in 1 .. IdleCount : workers_[order[i]].idleWorkerNext = Link(order, i)

IdleListExact == \E order \in [1 .. IdleCount -> IdleIds] : ThreadsIdle(order)

(* busyWorkersCount_ counts exactly the jobs that are not finished, so     *)
(* danLightThreadMgrAllDone, the exit test of the event loop, is true only *)
(* when no coroutine is left half way.                                     *)
BusyCountExact == busyWorkersCount_ = Cardinality(BusyIds)

(* The status in the table tells exactly which contexts have ended, and at *)
(* most one context is on the processor: Resume, which looks only at the   *)
(* status, never switches to a finished coroutine or to a running one.     *)
ContextsMatch ==
  \A w \in Ids : /\ lightThread[w].context_ = "ended" <=> Done(w)
                 /\ lightThread[w].context_ = "running" <=> onCpu = w

(* The worker the manager believes is running is the one that is: Yield    *)
(* saves the caller in its own context and the done callback retires the   *)
(* worker that finished, not another.                                      *)
CurrentIsOnCpu == currentWorker_ = onCpu

(* The manager implements the abstract pool: jobs are given to idle        *)
(* workers first, are never replaced before they finish, and only workers  *)
(* with an unfinished job run.                                             *)
Pool == INSTANCE CoroutinePool WITH
          Workers <- 1 .. MaxWorkers,
          idle    <- IdleIds,
          jobOf   <- [w \in BusyIds |-> lightThread[w].doFunc_],
          running <- onCpu

ImplementsPool == Pool!Spec

=============================================================================
