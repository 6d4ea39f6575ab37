-------------------------------- MODULE Parts --------------------------------
(***************************************************************************)
(* The parts that can each be looked at by itself: the light-thread        *)
(* manager, of which the scheduler uses what CoroutinePool promises; an    *)
(* object pool; and the three parts of Support.  They share no state, so a *)
(* behaviour is about one of them, and leaves the others as they were.     *)
(***************************************************************************)
EXTENDS LightThreadMgr, ObjPool, Support

VARIABLE group  \* what the behaviour is about

partsVars == <<managerVars, poolVars, vars, group>>

PartsInit ==
  /\ ManagerInit /\ PoolInit /\ Init
  /\ group \in {"manager", "pool", "support"}
  /\ group # "support" => part = "mysql"

ManagerStep == group = "manager" /\ ManagerNext /\ UNCHANGED <<poolVars, vars, group>>
PoolStep == group = "pool" /\ PoolNext /\ UNCHANGED <<managerVars, vars, group>>
SupportStep == group = "support" /\ Next /\ UNCHANGED <<managerVars, poolVars, group>>

PartsNext == ManagerStep \/ PoolStep \/ SupportStep

(* The fairness is Support's. *)
PartsSpec == /\ PartsInit /\ [][PartsNext]_partsVars
             /\ WF_vars(OfTimers(TimePasses)) /\ WF_vars(OfTimers(Loop))

=============================================================================
