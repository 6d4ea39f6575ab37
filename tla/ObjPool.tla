------------------------------- MODULE ObjPool -------------------------------
(***************************************************************************)
(* danObjPool<T> of dan_obj_pool.hpp: the list of objects ready to be      *)
(* handed out, which grows by KEEP objects when it is empty, refuses       *)
(* objects above MAX, and shrinks to KEEP when it has been larger for      *)
(* longer than KEEP_TIME.  Sessions, messages and packets each have one.   *)
(*                                                                         *)
(* Callers take objects and give back objects they hold, once.  Nothing in *)
(* reclaimObj checks that they do, and onSend does not when two coroutines *)
(* send for one session: see SendersApart of Server.                       *)
(***************************************************************************)
EXTENDS Integers, Sequences

CONSTANTS Objs,           \* bound: addresses of objects
          KEEP_SIZE, MAX_SIZE, KEEP_TIME,   \* DAN_POOL_...
          MaxTotal        \* bound: objects ever built, less those refused

ASSUME PoolAssumption ==
  /\ KEEP_SIZE \in Nat \ {0}
  /\ MAX_SIZE \in Nat /\ KEEP_SIZE <= MAX_SIZE
  /\ KEEP_TIME \in Nat
  /\ MaxTotal \in Nat

VARIABLES objs_,           \* the list of available objects
          availableObjs_,  \* how many it holds
          totalObjs_,      \* counted up when built, down when refused
          isUsed_,         \* the flag of every object
          alive,           \* the objects between new and delete
          held,            \* the objects in callers' hands
          elapsed,         \* now - lastCheckTime_, as far as KEEP_TIME + 1
          fresh            \* history: the objects never handed out

poolVars == <<objs_, availableObjs_, totalObjs_, isUsed_, alive, held, elapsed, fresh>>

ListedObjs == {objs_[i] : i \in DOMAIN objs_}

PoolInit ==
  /\ objs_ = <<>>
  /\ availableObjs_ = 0
  /\ totalObjs_ = 0
  /\ isUsed_ = [o \in Objs |-> FALSE]
  /\ alive = {}
  /\ held = {}
  /\ elapsed = 0
  /\ fresh = {}

-----------------------------------------------------------------------------

(* The lists keepAvailableSize can append: new objects, at addresses where *)
(* no object is.  Their flag is FALSE: it was in any object deleted there. *)
NewObjs == {q \in [1 .. KEEP_SIZE -> Objs \ alive] :
              \A i, j \in 1 .. KEEP_SIZE : i # j => q[i] # q[j]}

(* Mutant of TakeFront: the object stays in the list. *)
TakeFrontListed(list, available) ==
  /\ objs_' = list
  /\ availableObjs_' = available - 1
  /\ isUsed_' = [isUsed_ EXCEPT ![Head(list)] = TRUE]
  /\ held' = held \cup {Head(list)}

(* The front of the list goes to the caller. *)
TakeFront(list, available) ==
  /\ objs_' = Tail(list)
  /\ availableObjs_' = available - 1
  /\ isUsed_' = [isUsed_ EXCEPT ![Head(list)] = TRUE]
  /\ held' = held \cup {Head(list)}

GetAvailable ==
  /\ availableObjs_ > 0
  /\ TakeFront(objs_, availableObjs_)
  /\ fresh' = fresh \ {Head(objs_)}
  /\ UNCHANGED <<totalObjs_, alive, elapsed>>

(* Mutant of Grown: the objects built together are counted as one. *)
GrownOnce == totalObjs_ + 1

Grown == totalObjs_ + KEEP_SIZE

(* The loop's first pass finds nothing and grows the list. *)
GetGrown ==
  /\ availableObjs_ = 0
  /\ Grown <= MaxTotal
  /\ \E q \in NewObjs :
       /\ TakeFront(objs_ \o q, KEEP_SIZE)
       /\ alive' = alive \cup {q[i] : i \in DOMAIN q}
       /\ fresh' = (fresh \cup {q[i] : i \in DOMAIN q}) \ {Head(objs_ \o q)}
  /\ totalObjs_' = Grown
  /\ UNCHANGED elapsed

GetObj == GetAvailable \/ GetGrown

-----------------------------------------------------------------------------

(* Mutant of Kept: the clean-up takes one object too many. *)
KeptLess(list, surplus) == SubSeq(list, surplus + 2, Len(list))

Kept(list, surplus) == SubSeq(list, surplus + 1, Len(list))

(* The second half of reclaimObj: the list and its count, once p is dealt  *)
(* with, lose what exceeds KEEP_SIZE from the front when it is time. *)
CleanUp(list, available, left) ==
  LET surplus == available - KEEP_SIZE
  IN  IF surplus <= 0
        THEN /\ objs_' = list /\ availableObjs_' = available
             /\ alive' = left
             /\ elapsed' = 0
      ELSE IF elapsed > KEEP_TIME
        THEN /\ objs_' = Kept(list, surplus)
             /\ availableObjs_' = KEEP_SIZE
             /\ alive' = left \ {list[i] : i \in 1 .. surplus}
             /\ elapsed' = 0
      ELSE /\ objs_' = list /\ availableObjs_' = available
           /\ alive' = left
           /\ UNCHANGED elapsed

(* Mutant of Listed: the object given back is the next one handed out. *)
ListedFirst(p) == <<p>> \o objs_

Listed(p) == Append(objs_, p)

(* Mutant of Full: off by one more. *)
FullLater == availableObjs_ > MAX_SIZE + 1

Full == availableObjs_ > MAX_SIZE

(* Above the limit the object is deleted. *)
ReclaimRefused(p) ==
  /\ Full
  /\ CleanUp(objs_, availableObjs_, alive \ {p})
  /\ totalObjs_' = totalObjs_ - 1

ReclaimListed(p) ==
  /\ ~ Full
  /\ CleanUp(Listed(p), availableObjs_ + 1, alive)
  /\ UNCHANGED totalObjs_

ReclaimObj ==
  \E p \in held :
    /\ ReclaimRefused(p) \/ ReclaimListed(p)
    /\ isUsed_' = [isUsed_ EXCEPT ![p] = FALSE]
    /\ held' = held \ {p}
    /\ fresh' = fresh \cap alive'

(* The destructor of the pool. *)
ClearPool ==
  /\ objs_' = <<>>
  /\ availableObjs_' = 0
  /\ alive' = alive \ ListedObjs
  /\ fresh' = {}
  /\ UNCHANGED <<totalObjs_, isUsed_, held, elapsed>>

(* The clock moves; beyond KEEP_TIME all waits are alike. *)
Pass == /\ elapsed <= KEEP_TIME
        /\ elapsed' = elapsed + 1
        /\ UNCHANGED <<objs_, availableObjs_, totalObjs_, isUsed_, alive, held, fresh>>

PoolNext == GetObj \/ ReclaimObj \/ ClearPool \/ Pass

PoolSpec == PoolInit /\ [][PoolNext]_poolVars

-----------------------------------------------------------------------------

(* Every variable has its type. *)
PoolTypeOK ==
  /\ objs_ \in Seq(Objs)
  /\ availableObjs_ \in Nat
  /\ totalObjs_ \in 0 .. MaxTotal
  /\ isUsed_ \in [Objs -> BOOLEAN]
  /\ alive \subseteq Objs /\ held \subseteq Objs /\ fresh \subseteq Objs
  /\ elapsed \in 0 .. KEEP_TIME + 1

(* The list is what its count says, holds no object twice and none that a  *)
(* caller has; every object that exists is in the list or with a caller,   *)
(* as its flag says: growing, refusing and cleaning up neither leak an     *)
(* object nor delete one that is in use.                                   *)
PoolExact ==
  /\ availableObjs_ = Len(objs_)
  /\ \A i, j \in DOMAIN objs_ : i # j => objs_[i] # objs_[j]
  /\ ListedObjs \cap held = {}
  /\ alive = ListedObjs \cup held
  /\ \A o \in alive : isUsed_[o] <=> o \in held

(* DAN_POOL_MAX_SIZE is called "the upper limit of the pool's objects"     *)
(* (settings.hpp:3); it is tested before the object is put in, and with >. *)
(* What the code keeps is that the list is never more than one object      *)
(* above it, whatever the clean-up does or puts off; and as ReclaimRefused *)
(* happens, whose guard is that there are more, the list does get there.   *)
PoolBounded == Len(objs_) <= MAX_SIZE + 1

(* An object that has been used before is handed out only when none of the *)
(* objects built so far is still new: a caller that takes at most          *)
(* KEEP_SIZE objects never meets the state an earlier use left in one.     *)
FreshFirst ==
  [][\A o \in held' \ held : o \notin fresh /\ o \in alive => fresh = {}]_poolVars

Source == INSTANCE ObjSource WITH used <- held

(* The pool is an implementation of ObjSource. *)
ImplementsSource == Source!Spec

=============================================================================
