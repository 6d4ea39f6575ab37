-------------------------------- MODULE Timers --------------------------------
(***************************************************************************)
(* danTimers of network/dan_timer.hpp, and the calls dan_scheduler.hpp     *)
(* makes of it: a heap of timers ordered by the time they are due, which   *)
(* procTimers runs as long as gap() is zero.  A periodic timer has a       *)
(* function to call (createTimerFd); any other is a coroutine's wait for a *)
(* descriptor, which ends in a timeout.                                    *)
(*                                                                         *)
(* A timer is kept with the time left until it is due.  One without a      *)
(* timeout is due at the last microsecond of 64 bits, a time so far away   *)
(* that only what gap() makes of it matters: it is kept in toLast.         *)
(***************************************************************************)
EXTENDS Integers, SequencesExt

CONSTANTS Periodic,    \* the periodic timers
          Interval,    \* periodic timer -> its intervalMs
          Waiting,     \* the danFd_t's coroutines wait on
          Timeouts,    \* what addTimer is called with for those: -1 is none
          Wrap,        \* 2^32: gap() keeps a difference in 32 bits
          MaxTimers    \* bound: timers in the heap

ASSUME TimersAssumption ==
  /\ Wrap \in Nat \ {0}
  /\ Interval \in [Periodic -> 1 .. Wrap - 1]
  /\ Timeouts \subseteq -1 .. Wrap - 1
  /\ Periodic \cap Waiting = {}
  /\ IsFiniteSet(Periodic) /\ MaxTimers \in Nat /\ Cardinality(Periodic) <= MaxTimers

VARIABLES timers_,   \* the heap, as the sequence of timers in the order added
          toLast,    \* (UINT64_MAX - now) % 2^32
          procs,     \* procTimers is in its loop
          ran        \* history: the timer the last step ran, <<>> if none

timersVars == <<timers_, toLast, procs, ran>>

(* What is left for a timer without a timeout: more than for any other. *)
Forever == Wrap

TimersInit ==
  /\ timers_ = [i \in 1 .. Cardinality(Periodic) |->
                  LET d == SetToSeq(Periodic)[i] IN [danFd |-> d, left |-> Interval[d]]]
  /\ toLast \in 0 .. Wrap - 1
  /\ procs = FALSE
  /\ ran = <<>>

(* The clock.  Of timers that are due only the order is kept: one has been *)
(* due for longer than as many moments at which others have become due.    *)
TimePasses ==
  LET lefts == {t.left : t \in ToSet(timers_)}
      Left(n) == IF n = Forever THEN n
                 ELSE IF n > 0 THEN n - 1
                 ELSE - 1 - Cardinality(lefts \cap n + 1 .. 0)
  IN  /\ timers_' = [i \in DOMAIN timers_ |-> [timers_[i] EXCEPT !.left = Left(@)]]
      /\ toLast' = (toLast - 1) % Wrap
      /\ ran' = <<>>
      /\ UNCHANGED procs

Added(heap, d, timeoutMs) ==
  Append(heap, [danFd |-> d, left |-> IF timeoutMs = -1 THEN Forever ELSE timeoutMs])

(* addTimer, called by a coroutine: also by one procTimers has resumed. *)
AddTimer(d, timeoutMs) ==
  /\ Len(timers_) < MaxTimers
  /\ timers_' = Added(timers_, d, timeoutMs)
  /\ ran' = <<>>
  /\ UNCHANGED <<toLast, procs>>

(* Mutant of Fronts: the comparison of the heap is turned round. *)
FrontsLatest == {i \in DOMAIN timers_ :
                   \A j \in DOMAIN timers_ : timers_[i].left >= timers_[j].left}

(* The places of the timers that can be at the front of the heap. *)
Fronts == {i \in DOMAIN timers_ :
             \A j \in DOMAIN timers_ : timers_[i].left <= timers_[j].left}

(* gap() when t is at the front: zero when it is due, and when the time    *)
(* left is a multiple of 2^32. *)
Gap(t) == IF t.left <= 0 THEN 0
          ELSE (- (IF t.left = Forever THEN toLast ELSE t.left)) % Wrap

(* run() calls procTimers in every round of its loop. *)
ProcTimers ==
  /\ ~ procs
  /\ procs' = TRUE
  /\ ran' = <<>>
  /\ UNCHANGED <<timers_, toLast>>

(* Mutant of AddAgain: the periodic timer goes in without a timeout. *)
AddAgainForever(heap, d) == Added(heap, d, -1)

AddAgain(heap, d) == Added(heap, d, Interval[d])

(* One round of procTimers: the timer is popped, and either its coroutine  *)
(* is resumed with EVENT_TIMEOUT, or its function called and it is added   *)
(* again. *)
RunTimer ==
  /\ procs
  /\ \E i \in Fronts :
       LET t == timers_[i]
           popped == RemoveAt(timers_, i)
       IN  /\ Gap(t) = 0
           /\ timers_' = IF t.danFd \in Periodic THEN AddAgain(popped, t.danFd) ELSE popped
           /\ ran' = <<t>>
  /\ UNCHANGED <<toLast, procs>>

(* gap() is not zero, or -1 for an empty heap. *)
ProcTimersDone ==
  /\ procs
  /\ timers_ = <<>> \/ \E i \in Fronts : Gap(timers_[i]) # 0
  /\ procs' = FALSE
  /\ ran' = <<>>
  /\ UNCHANGED <<timers_, toLast>>

Loop == ProcTimers \/ RunTimer \/ ProcTimersDone

TimersNext == \/ TimePasses
              \/ \E d \in Waiting, timeoutMs \in Timeouts : AddTimer(d, timeoutMs)
              \/ Loop

-----------------------------------------------------------------------------

Timer == [danFd : Periodic \cup Waiting, left : - MaxTimers .. Forever]

(* Every variable has its type, and the heap its periodic timers, each     *)
(* once: they are what the message tick depends on.                        *)
TimersTypeOK ==
  /\ timers_ \in Seq(Timer)
  /\ \A d \in Periodic : Cardinality({i \in DOMAIN timers_ : timers_[i].danFd = d}) = 1
  /\ toLast \in 0 .. Wrap - 1
  /\ procs \in BOOLEAN
  /\ Len(ran) <= 1 /\ ToSet(ran) \subseteq Timer

(* A timer runs only when it is due, and before every timer due later: the *)
(* 32 bits of gap() do no harm as long as a periodic timer is in the heap, *)
(* although 64-bit timers without a timeout are.                           *)
RunsInOrder ==
  \A t \in ToSet(ran) : t.left <= 0 /\ \A u \in ToSet(timers_) : t.left <= u.left

(* The last step ran d. *)
Ran(d) == ran # <<>> /\ ran[1].danFd = d

=============================================================================
