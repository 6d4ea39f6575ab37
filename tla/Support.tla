------------------------------- MODULE Support -------------------------------
(***************************************************************************)
(* The parts of the repository that share no state with each other: the    *)
(* timers, the memory of the coroutines' stacks, and the MySQL client.     *)
(* What one of them does changes nothing for the others, so a behaviour is *)
(* about one, and leaves the others as they were initially.                *)
(***************************************************************************)
EXTENDS Timers, Heap, Mysql

VARIABLE part  \* the part the behaviour is about

vars == <<timersVars, heapVars, mysqlVars, part>>

Init == /\ TimersInit /\ HeapInit /\ MysqlInit
        /\ part \in {"timers", "heap", "mysql"}
        /\ part # "timers" => toLast = 0

OfTimers(A) == part = "timers" /\ A /\ UNCHANGED <<heapVars, mysqlVars, part>>

TimersStep == OfTimers(TimersNext)
HeapStep == part = "heap" /\ HeapNext /\ UNCHANGED <<timersVars, mysqlVars, part>>
MysqlStep == part = "mysql" /\ MysqlNext /\ UNCHANGED <<timersVars, heapVars, part>>

(* The process was aborted or killed, or the object is gone. *)
Ended == (aborted # 0 \/ life # "alive") /\ UNCHANGED vars

Next == TimersStep \/ HeapStep \/ MysqlStep \/ Ended

(* The clock does not stop, and run() keeps calling procTimers. *)
Spec == /\ Init /\ [][Next]_vars
        /\ WF_vars(OfTimers(TimePasses)) /\ WF_vars(OfTimers(Loop))

(* Every part's type invariant. *)
TypeOK == TimersTypeOK /\ MysqlTypeOK

(* Every periodic timer runs again and again, however coroutines use the   *)
(* heap: the message tick, on which Server's fairness rests, never stops.  *)
TickRepeats == part = "timers" => \A d \in Periodic : []<>Ran(d)

=============================================================================
