------------------------------ MODULE ObjSource ------------------------------
(***************************************************************************)
(* What an object pool promises its callers, whatever it keeps, grows by   *)
(* or throws away: an object it hands out exists, and stays the caller's   *)
(* own until the caller gives it back.                                     *)
(***************************************************************************)
CONSTANTS Objs  \* addresses of objects

VARIABLES used,   \* the objects in callers' hands
          alive   \* the objects that exist

Init == used = {} /\ alive = {}

(* The pool may build and delete objects, but none that is in use. *)
Manage == alive' \in SUBSET Objs /\ used' \subseteq alive'

GetObj == /\ \E o \in Objs \ used : used' = used \cup {o}
          /\ Manage

ReclaimObj == /\ \E o \in used : used' = used \ {o}
              /\ Manage

Clear == UNCHANGED used /\ Manage

Next == GetObj \/ ReclaimObj \/ Clear

Spec == Init /\ [][Next]_<<used, alive>>

=============================================================================
