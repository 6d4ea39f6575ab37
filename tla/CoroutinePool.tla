---------------------------- MODULE CoroutinePool ----------------------------
(***************************************************************************)
(* What the light-thread manager promises the scheduler, without the       *)
(* worker table, the intrusive idle list or the machine contexts: a set of *)
(* idle workers, the job each busy worker carries, and the one worker, if  *)
(* any, that has the processor.                                            *)
(***************************************************************************)
EXTENDS Integers

CONSTANTS Jobs,     \* the functions a light thread can be given
          Workers,  \* the worker identities, numbers from 1
          NoWorker  \* "no worker": the main context has the processor

VARIABLES idle,     \* workers that finished their job and wait for another
          jobOf,    \* the job of every busy worker
          running   \* the worker on the processor, or NoWorker

vars == <<idle, jobOf, running>>

Busy == DOMAIN jobOf

-----------------------------------------------------------------------------

Init == /\ idle = {}
        /\ jobOf = [w \in {} |-> NoWorker]
        /\ running = NoWorker

(* A job goes to an idle worker; when none idles, the next one is created. *)
Submit(w, j) == /\ running = NoWorker
                /\ IF idle = {} THEN Busy = 1 .. w - 1 ELSE w \in idle
                /\ idle' = idle \ {w}
                /\ jobOf' = [x \in Busy \cup {w} |-> IF x = w THEN j ELSE jobOf[x]]
                /\ UNCHANGED running

(* Only a worker whose job is unfinished is ever put on the processor. *)
Run(w) == /\ running = NoWorker
          /\ w \in Busy
          /\ running' = w
          /\ UNCHANGED <<idle, jobOf>>

(* The running worker gives the processor back and keeps its job. *)
Pause == /\ running # NoWorker
         /\ running' = NoWorker
         /\ UNCHANGED <<idle, jobOf>>

(* The running worker finishes its job and becomes idle. *)
Finish == /\ running \in Busy
          /\ idle' = idle \cup {running}
          /\ jobOf' = [x \in Busy \ {running} |-> jobOf[x]]
          /\ running' = NoWorker

Next == \/ \E w \in Workers, j \in Jobs : Submit(w, j)
        \/ \E w \in Workers : Run(w)
        \/ Pause
        \/ Finish

Spec == Init /\ [][Next]_vars

=============================================================================
