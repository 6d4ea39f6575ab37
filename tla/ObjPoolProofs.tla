----------------------------- MODULE ObjPoolProofs -----------------------------
(***************************************************************************)
(* Proofs about ObjPool for any set of addresses and any sizes of a pool.  *)
(*                                                                         *)
(* PoolExact needs the flags of dead objects as well (new ones appear      *)
(* there), and the types need a count: totalObjs_, which refusing counts   *)
(* down, stays a natural number because at least as many objects have      *)
(* been counted as exist.  FreshFirst holds because the                    *)
(* objects never handed out are the front of the list: the list loses      *)
(* objects at its front, used ones come in at its back, and new ones only  *)
(* when it is empty.                                                       *)
(***************************************************************************)
EXTENDS ObjPool, FiniteSetTheorems, SequenceTheorems, TLAPS

Elems(s) == {s[i] : i \in DOMAIN s}
Distinct(s) == \A i, j \in DOMAIN s : i # j => s[i] # s[j]
First(s, k) == {s[i] : i \in 1 .. k}
InFront(F, s) == \A i, j \in DOMAIN s : j < i /\ s[i] \in F => s[j] \in F

(* What has been counted, less what was refused, still covers what exists. *)
Counted == IsFiniteSet(alive) /\ Cardinality(alive) <= totalObjs_

(* The flags, also of addresses where no object is. *)
Flagged == \A o \in Objs : isUsed_[o] <=> o \in held

FreshInFront == fresh \subseteq ListedObjs /\ InFront(fresh, objs_)

IInv == /\ PoolTypeOK
        /\ PoolExact
        /\ PoolBounded
        /\ Flagged
        /\ Counted
        /\ FreshInFront

-----------------------------------------------------------------------------
(* Lists. *)

(* A list whose first k places are gone. *)
LEMMA Shifted ==
  ASSUME NEW s, NEW t, NEW n \in Nat, NEW k \in Nat, k <= n,
         DOMAIN s = 1 .. n, DOMAIN t = 1 .. n - k,
         \A i \in 1 .. n - k : t[i] = s[k + i],
         Distinct(s), NEW F, InFront(F, s)
  PROVE  /\ Distinct(t) /\ InFront(F, t)
         /\ Elems(t) = Elems(s) \ First(s, k)
<1>1. \A i \in 1 .. n - k : k + i \in 1 .. n
  OBVIOUS
<1>2. Distinct(t)
  <2>1. SUFFICES ASSUME NEW i \in 1 .. n - k, NEW j \in 1 .. n - k, i # j
                 PROVE  t[i] # t[j]
    BY DEF Distinct
  <2>2. k + i # k + j
    BY <2>1
  <2> QED
    BY <1>1, <2>2 DEF Distinct
<1>3. InFront(F, t)
  <2>1. SUFFICES ASSUME NEW i \in 1 .. n - k, NEW j \in 1 .. n - k, j < i, t[i] \in F
                 PROVE  t[j] \in F
    BY DEF InFront
  <2>2. k + j < k + i
    BY <2>1
  <2> QED
    BY <1>1, <2>1, <2>2 DEF InFront
<1>4. ASSUME NEW x \in Elems(t)
      PROVE  x \in Elems(s) \ First(s, k)
  <2>1. PICK i \in 1 .. n - k : x = s[k + i]
    BY DEF Elems
  <2>2. x \in Elems(s)
    BY <1>1, <2>1 DEF Elems
  <2>3. ASSUME NEW j \in 1 .. k PROVE x # s[j]
    <3>1. j \in 1 .. n /\ j # k + i
      OBVIOUS
    <3> QED
      BY <1>1, <2>1, <3>1 DEF Distinct
  <2> QED
    BY <2>2, <2>3 DEF First
<1>5. ASSUME NEW x \in Elems(s) \ First(s, k)
      PROVE  x \in Elems(t)
  <2>1. PICK i \in 1 .. n : x = s[i]
    BY DEF Elems
  <2>2. i > k
    BY <2>1 DEF First
  <2>3. i - k \in 1 .. n - k /\ k + (i - k) = i
    BY <2>2
  <2>4. t[i - k] = x
    BY <2>1, <2>3
  <2> QED
    BY <2>3, <2>4 DEF Elems
<1> QED
  BY <1>2, <1>3, <1>4, <1>5

(* What is left of a list of different objects when its first k are gone,  *)
(* as Tail and Kept leave it.                                              *)
LEMMA Suffix ==
  ASSUME NEW s \in Seq(Objs), Distinct(s), NEW k \in 0 .. Len(s), NEW F, InFront(F, s)
  PROVE  LET t == SubSeq(s, k + 1, Len(s))
         IN  /\ t \in Seq(Objs) /\ Len(t) = Len(s) - k
             /\ Distinct(t) /\ InFront(F, t)
             /\ Elems(t) = Elems(s) \ First(s, k)
<1> DEFINE n == Len(s)  m == k + 1  t == SubSeq(s, m, n)
<1>1. n \in Nat /\ DOMAIN s = 1 .. n
  BY LenProperties
<1>2. \A i \in m .. n : s[i] \in Objs
  BY <1>1, ElementOfSeq
<1>3. /\ t \in Seq(Objs)
      /\ Len(t) = IF m <= n THEN n - m + 1 ELSE 0
      /\ \A i \in 1 .. n - m + 1 : t[i] = s[m + i - 1]
  BY <1>1, <1>2, SubSeqProperties
<1>4. k \in Nat /\ k <= n
  OBVIOUS
<1> HIDE DEF n, t
<1>5. n - m + 1 = n - k /\ \A i \in 1 .. n - k : m + i - 1 = k + i
  BY <1>1, <1>4
<1>6. Len(t) = n - k
  BY <1>1, <1>3, <1>4
<1>7. \A i \in 1 .. n - k : t[i] = s[k + i]
  BY <1>3, <1>5
<1>8. DOMAIN t = 1 .. n - k
  BY <1>3, <1>6, LenProperties
<1>9. Distinct(t) /\ InFront(F, t) /\ Elems(t) = Elems(s) \ First(s, k)
  BY <1>1, <1>4, <1>7, <1>8, Shifted
<1> QED
  BY <1>3, <1>6, <1>9 DEF n, t

(* The case of a list that loses its head. *)
LEMMA Behead ==
  ASSUME NEW s \in Seq(Objs), Distinct(s), s # <<>>, NEW F, InFront(F, s)
  PROVE  /\ Tail(s) \in Seq(Objs) /\ Len(Tail(s)) = Len(s) - 1
         /\ Distinct(Tail(s)) /\ InFront(F, Tail(s))
         /\ Head(s) \in Elems(s) /\ Head(s) \in Objs
         /\ Elems(Tail(s)) = Elems(s) \ {Head(s)}
<1>1. Len(s) \in Nat \ {0} /\ DOMAIN s = 1 .. Len(s)
  BY LenProperties, EmptySeq
<1>2. Tail(s) = SubSeq(s, 1 + 1, Len(s))
  BY TailIsSubSeq
<1>3. Head(s) = s[1] /\ Head(s) \in Objs
  BY <1>1, HeadTailProperties, ElementOfSeq
<1>4. First(s, 1) = {Head(s)}
  BY <1>3 DEF First
<1>5. 1 \in 0 .. Len(s)
  BY <1>1
<1>6. Head(s) \in Elems(s)
  BY <1>1, <1>3 DEF Elems
<1> QED
  BY <1>2, <1>3, <1>4, <1>5, <1>6, Suffix

(* A list that gets an object at its back. *)
LEMMA Appendage ==
  ASSUME NEW s \in Seq(Objs), Distinct(s), NEW p \in Objs, p \notin Elems(s),
         NEW F, F \subseteq Elems(s), InFront(F, s),
         NEW t, t = Append(s, p)
  PROVE  /\ t \in Seq(Objs) /\ Len(t) = Len(s) + 1
         /\ Distinct(t) /\ InFront(F, t)
         /\ Elems(t) = Elems(s) \cup {p}
<1>1. Len(s) \in Nat /\ DOMAIN s = 1 .. Len(s)
  BY LenProperties
<1>2. /\ t \in Seq(Objs) /\ Len(t) = Len(s) + 1
      /\ \A i \in 1 .. Len(s) : t[i] = s[i]
      /\ t[Len(s) + 1] = p
  BY AppendProperties
<1>3. DOMAIN t = 1 .. Len(s) + 1
  BY <1>2, LenProperties
<1>4. Elems(t) = Elems(s) \cup {p}
  BY <1>1, <1>2, <1>3 DEF Elems
<1>5. Distinct(t)
  <2>1. ASSUME NEW i \in 1 .. Len(s) PROVE t[i] # p
    BY <1>1, <1>2 DEF Elems
  <2> QED
    BY <1>1, <1>2, <1>3, <2>1 DEF Distinct
<1>6. InFront(F, t)
  <2>1. p \notin F
    OBVIOUS
  <2> QED
    BY <1>1, <1>2, <1>3, <2>1 DEF InFront
<1> QED
  BY <1>2, <1>4, <1>5, <1>6

(* The clean-up of a list, whether its time has come or not: its first k   *)
(* objects go, k being zero when nothing is cleaned up.                    *)
LEMMA CleanUpDropsFront ==
  ASSUME NEW list \in Seq(Objs), NEW left, CleanUp(list, Len(list), left),
         elapsed \in 0 .. KEEP_TIME + 1
  PROVE  /\ elapsed' \in 0 .. KEEP_TIME + 1
         /\ \E k \in 0 .. Len(list) :
              /\ objs_' = SubSeq(list, k + 1, Len(list))
              /\ availableObjs_' = Len(list) - k
              /\ alive' = left \ First(list, k)
<1> DEFINE n == Len(list)  surplus == n - KEEP_SIZE
<1>1. n \in Nat /\ KEEP_SIZE \in Nat /\ KEEP_TIME \in Nat
  BY LenProperties, PoolAssumption
<1>2. CASE surplus <= 0 \/ ~ (elapsed > KEEP_TIME)
  <2>1. objs_' = list /\ availableObjs_' = n /\ alive' = left /\ elapsed' \in {0, elapsed}
    BY <1>2 DEF CleanUp
  <2>2. list = SubSeq(list, 0 + 1, n)
    BY SubSeqFull
  <2>3. First(list, 0) = {} /\ 0 \in 0 .. n /\ n - 0 = n
    BY <1>1 DEF First
  <2>4. elapsed' \in 0 .. KEEP_TIME + 1
    BY <1>1, <2>1
  <2> QED
    BY <2>1, <2>2, <2>3, <2>4
<1>3. CASE surplus > 0 /\ elapsed > KEEP_TIME
  <2>1. /\ objs_' = Kept(list, surplus) /\ availableObjs_' = KEEP_SIZE
        /\ alive' = left \ First(list, surplus) /\ elapsed' = 0
    BY <1>1, <1>3 DEF CleanUp, First
  <2>2. surplus \in 0 .. n /\ KEEP_SIZE = n - surplus /\ 0 \in 0 .. KEEP_TIME + 1
    BY <1>1, <1>3
  <2> QED
    BY <2>1, <2>2 DEF Kept
<1> QED
  BY <1>1, <1>2, <1>3

(* What a list and its objects keep through the clean-up, H being the      *)
(* objects in callers' hands.                                              *)
LEMMA CleanUpKeeps ==
  ASSUME NEW list \in Seq(Objs), Distinct(list), NEW H, Elems(list) \cap H = {},
         NEW left, left = Elems(list) \cup H,
         fresh \subseteq Elems(list), InFront(fresh, list),
         elapsed \in 0 .. KEEP_TIME + 1,
         CleanUp(list, Len(list), left)
  PROVE  /\ objs_' \in Seq(Objs) /\ Len(objs_') <= Len(list)
         /\ availableObjs_' = Len(objs_')
         /\ elapsed' \in 0 .. KEEP_TIME + 1
         /\ Distinct(objs_')
         /\ Elems(objs_') \cap H = {}
         /\ alive' = Elems(objs_') \cup H
         /\ fresh \cap alive' \subseteq Elems(objs_')
         /\ InFront(fresh \cap alive', objs_')
<1>1. Len(list) \in Nat
  BY LenProperties
<1>2. PICK k \in 0 .. Len(list) :
         /\ objs_' = SubSeq(list, k + 1, Len(list))
         /\ availableObjs_' = Len(list) - k
         /\ alive' = left \ First(list, k)
  BY CleanUpDropsFront
<1>3. /\ objs_' \in Seq(Objs) /\ Len(objs_') = Len(list) - k
      /\ Distinct(objs_') /\ InFront(fresh, objs_')
      /\ Elems(objs_') = Elems(list) \ First(list, k)
  BY <1>2, Suffix
<1>4. First(list, k) \subseteq Elems(list)
  <2>1. \A i \in 1 .. k : i \in DOMAIN list
    BY <1>1, LenProperties
  <2> QED
    BY <2>1 DEF First, Elems
<1>5. alive' = Elems(objs_') \cup H /\ Elems(objs_') \cap H = {}
  BY <1>2, <1>3, <1>4
<1>6. fresh \cap alive' \subseteq Elems(objs_')
  BY <1>5
<1>7. InFront(fresh \cap alive', objs_')
  <2>1. \A i \in DOMAIN objs_' : objs_'[i] \in alive'
    BY <1>5 DEF Elems
  <2> QED
    BY <1>3, <2>1 DEF InFront
<1>8. elapsed' \in 0 .. KEEP_TIME + 1
  BY CleanUpDropsFront
<1> QED
  BY <1>1, <1>2, <1>3, <1>5, <1>6, <1>7, <1>8

-----------------------------------------------------------------------------
(* The invariant, action by action. *)

(* A new pool. *)
LEMMA InitHolds == PoolInit => IInv
<1> SUFFICES ASSUME PoolInit PROVE IInv
  OBVIOUS
<1> USE DEF PoolInit
<1>1. objs_ = <<>> /\ DOMAIN objs_ = {} /\ Len(objs_) = 0 /\ objs_ \in Seq(Objs)
  OBVIOUS
<1>2. PoolTypeOK
  BY <1>1, PoolAssumption DEF PoolTypeOK
<1>3. PoolExact
  BY <1>1 DEF PoolExact, ListedObjs
<1>4. PoolBounded
  BY <1>1, PoolAssumption DEF PoolBounded
<1>5. Counted
  BY FS_EmptySet DEF Counted
<1>6. FreshInFront
  BY DEF FreshInFront, InFront
<1>7. Flagged
  BY DEF Flagged
<1> QED
  BY <1>2, <1>3, <1>4, <1>5, <1>6, <1>7 DEF IInv

(* The invariant in terms of the list. *)
LEMMA Listing ==
  ASSUME IInv
  PROVE  /\ objs_ \in Seq(Objs) /\ Len(objs_) \in Nat /\ availableObjs_ = Len(objs_)
         /\ Len(objs_) <= MAX_SIZE + 1
         /\ Distinct(objs_) /\ ListedObjs = Elems(objs_)
         /\ Elems(objs_) \cap held = {}
         /\ alive = Elems(objs_) \cup held
         /\ fresh \subseteq Elems(objs_) /\ InFront(fresh, objs_)
BY LenProperties
   DEF IInv, PoolTypeOK, PoolExact, PoolBounded, FreshInFront, ListedObjs, Elems, Distinct

(* And back, for the state after a step. *)
LEMMA Relisted ==
  ASSUME PoolTypeOK', availableObjs_' = Len(objs_'), Len(objs_') <= MAX_SIZE + 1,
         Distinct(objs_'), Elems(objs_') \cap held' = {}, alive' = Elems(objs_') \cup held',
         fresh' \subseteq Elems(objs_'), InFront(fresh', objs_'), Flagged', Counted'
  PROVE  IInv'
BY DEF PoolTypeOK, Flagged, IInv, PoolExact, PoolBounded, FreshInFront, ListedObjs, Elems, Distinct

(* The front of a list of objects goes to a caller, what is left is the    *)
(* new list. *)
LEMMA GetAvailableKeeps ==
  ASSUME IInv, GetAvailable
  PROVE  IInv'
<1> USE Listing
<1>1. objs_ # <<>>
  BY EmptySeq DEF GetAvailable
<1> DEFINE p == Head(objs_)
<1>2. /\ objs_' = Tail(objs_) /\ availableObjs_' = availableObjs_ - 1
      /\ isUsed_' = [isUsed_ EXCEPT ![p] = TRUE]
      /\ held' = held \cup {p} /\ fresh' = fresh \ {p}
      /\ totalObjs_' = totalObjs_ /\ alive' = alive /\ elapsed' = elapsed
  BY DEF GetAvailable, TakeFront
<1>3. /\ objs_' \in Seq(Objs) /\ Len(objs_') = Len(objs_) - 1
      /\ Distinct(objs_') /\ InFront(fresh, objs_')
      /\ p \in Elems(objs_) /\ p \in Objs
      /\ Elems(objs_') = Elems(objs_) \ {p}
  BY <1>1, <1>2, Behead
<1> HIDE DEF p
<1>4. PoolTypeOK'
  BY <1>2, <1>3, LenProperties DEF PoolTypeOK, IInv
<1>5. Flagged'
  BY <1>2, <1>3 DEF IInv, PoolTypeOK, Flagged
<1>6. InFront(fresh', objs_')
  <2>1. \A i \in DOMAIN objs_' : objs_'[i] # p
    BY <1>3 DEF Elems
  <2> QED
    BY <1>2, <1>3, <2>1 DEF InFront
<1>7. Counted'
  BY <1>2 DEF Counted, IInv
<1>8. MAX_SIZE \in Nat
  BY PoolAssumption
<1>9. /\ availableObjs_' = Len(objs_') /\ Len(objs_') <= MAX_SIZE + 1
      /\ Elems(objs_') \cap held' = {} /\ alive' = Elems(objs_') \cup held'
      /\ fresh' \subseteq Elems(objs_')
  BY <1>2, <1>3, <1>8
<1> QED
  BY <1>3, <1>4, <1>5, <1>6, <1>7, <1>9, Relisted

(* A list of KEEP_SIZE places has no more elements. *)
LEMMA Several ==
  ASSUME NEW q, DOMAIN q = 1 .. KEEP_SIZE
  PROVE  IsFiniteSet(Elems(q)) /\ Cardinality(Elems(q)) <= KEEP_SIZE
<1> DEFINE K == 1 .. KEEP_SIZE  E == Elems(q)
<1>1. KEEP_SIZE \in Int /\ 1 \in Int /\ KEEP_SIZE >= 1
  BY PoolAssumption
<1>2. IsFiniteSet(K) /\ Cardinality(K) = IF 1 > KEEP_SIZE THEN 0 ELSE KEEP_SIZE - 1 + 1
  BY <1>1, FS_Interval
<1>3. [i \in K |-> q[i]] \in Surjection(K, E)
  BY DEF Surjection, Elems
<1> HIDE DEF K, E
<1>4. IsFiniteSet(E) /\ Cardinality(E) <= Cardinality(K)
  BY <1>2, <1>3, FS_Surjection
<1>5. Cardinality(K) = KEEP_SIZE
  BY <1>1, <1>2
<1> QED
  BY <1>4, <1>5 DEF E

(* Two bounded sets together. *)
LEMMA Joined ==
  ASSUME NEW S, NEW T, IsFiniteSet(S), IsFiniteSet(T),
         NEW m \in Nat, NEW n \in Nat, Cardinality(S) <= m, Cardinality(T) <= n
  PROVE  IsFiniteSet(S \cup T) /\ Cardinality(S \cup T) <= m + n
<1>1. /\ IsFiniteSet(S \cup T)
      /\ Cardinality(S \cup T) = Cardinality(S) + Cardinality(T) - Cardinality(S \cap T)
  BY FS_Union
<1>2. IsFiniteSet(S \cap T)
  BY FS_Intersection
<1>3. Cardinality(S) \in Nat /\ Cardinality(T) \in Nat /\ Cardinality(S \cap T) \in Nat
  BY <1>2, FS_CardinalityType
<1> QED
  BY <1>1, <1>3

(* The list was empty and is made of new objects. *)
LEMMA GetGrownKeeps ==
  ASSUME IInv, GetGrown
  PROVE  IInv'
<1> USE Listing
<1>1. objs_ = <<>> /\ Elems(objs_) = {} /\ fresh = {} /\ alive = held
  <2>1. objs_ = <<>>
    BY EmptySeq DEF GetGrown
  <2>2. Elems(objs_) = {}
    BY <2>1 DEF Elems
  <2> QED
    BY <2>1, <2>2
<1>2. PICK q \in NewObjs :
         /\ TakeFront(objs_ \o q, KEEP_SIZE)
         /\ alive' = alive \cup {q[i] : i \in DOMAIN q}
         /\ fresh' = (fresh \cup {q[i] : i \in DOMAIN q}) \ {Head(objs_ \o q)}
  BY DEF GetGrown
<1>3. totalObjs_' = totalObjs_ + KEEP_SIZE /\ totalObjs_' <= MaxTotal /\ elapsed' = elapsed
  BY DEF GetGrown, Grown
<1>4. KEEP_SIZE \in Nat \ {0} /\ MAX_SIZE \in Nat /\ KEEP_SIZE <= MAX_SIZE
  BY PoolAssumption
<1>5. /\ q \in [1 .. KEEP_SIZE -> Objs \ alive] /\ DOMAIN q = 1 .. KEEP_SIZE
      /\ Distinct(q)
  BY DEF NewObjs, Distinct
<1>6. q \in Seq(Objs) /\ Len(q) = KEEP_SIZE /\ q # <<>>
  BY <1>4, <1>5
<1>7. objs_ \o q = q
  BY <1>1, <1>6, ConcatEmptySeq
<1> DEFINE p == Head(q)
<1>8. /\ objs_' = Tail(q) /\ availableObjs_' = KEEP_SIZE - 1
      /\ isUsed_' = [isUsed_ EXCEPT ![p] = TRUE] /\ held' = held \cup {p}
      /\ alive' = alive \cup Elems(q) /\ fresh' = Elems(q) \ {p}
  BY <1>1, <1>2, <1>7 DEF TakeFront, Elems
<1>9. InFront(Elems(q), q)
  BY DEF InFront, Elems
<1>10. /\ objs_' \in Seq(Objs) /\ Len(objs_') = KEEP_SIZE - 1
       /\ Distinct(objs_') /\ InFront(Elems(q), objs_')
       /\ p \in Elems(q) /\ p \in Objs
       /\ Elems(objs_') = Elems(q) \ {p}
  BY <1>5, <1>6, <1>8, <1>9, Behead
<1> HIDE DEF p
<1>11. Elems(q) \cap alive = {} /\ Elems(q) \subseteq Objs
  BY <1>5 DEF Elems
<1>12. PoolTypeOK'
  BY <1>3, <1>4, <1>8, <1>10, <1>11 DEF PoolTypeOK, IInv
<1>13. Flagged'
  BY <1>8, <1>10 DEF Flagged, IInv, PoolTypeOK
<1>14. Counted'
  <2>1. /\ IsFiniteSet(alive) /\ Cardinality(alive) <= totalObjs_ /\ totalObjs_ \in Nat
    BY DEF IInv, Counted, PoolTypeOK
  <2>2. IsFiniteSet(Elems(q)) /\ Cardinality(Elems(q)) <= KEEP_SIZE
    BY <1>5, Several
  <2>3. /\ IsFiniteSet(alive \cup Elems(q))
        /\ Cardinality(alive \cup Elems(q)) <= totalObjs_ + KEEP_SIZE
    BY <1>4, <2>1, <2>2, Joined
  <2> QED
    BY <1>3, <1>8, <2>3 DEF Counted
<1>15. InFront(fresh', objs_')
  <2>1. \A i \in DOMAIN objs_' : objs_'[i] \in fresh'
    BY <1>8, <1>10 DEF Elems
  <2> QED
    BY <2>1 DEF InFront
<1>16. /\ availableObjs_' = Len(objs_') /\ Len(objs_') <= MAX_SIZE + 1
       /\ Elems(objs_') \cap held' = {} /\ alive' = Elems(objs_') \cup held'
       /\ fresh' \subseteq Elems(objs_')
  BY <1>1, <1>4, <1>8, <1>10, <1>11
<1> QED
  BY <1>10, <1>12, <1>13, <1>14, <1>15, <1>16, Relisted

(* Counting after a reclaim: what is deleted may be counted or not. *)
LEMMA Uncounted ==
  ASSUME IInv, alive' \subseteq alive,
         \/ totalObjs_' = totalObjs_
         \/ totalObjs_' = totalObjs_ - 1 /\ \E p \in alive : p \notin alive'
  PROVE  Counted' /\ totalObjs_' \in 0 .. MaxTotal
<1>1. IsFiniteSet(alive) /\ Cardinality(alive) <= totalObjs_ /\ totalObjs_ \in 0 .. MaxTotal
  BY DEF IInv, Counted, PoolTypeOK
<1>2. IsFiniteSet(alive') /\ Cardinality(alive') <= Cardinality(alive)
  BY <1>1, FS_Subset
<1>3. Cardinality(alive) \in Nat /\ Cardinality(alive') \in Nat
  BY <1>1, <1>2, FS_CardinalityType
<1>4. ASSUME NEW p \in alive, p \notin alive' PROVE Cardinality(alive') <= Cardinality(alive) - 1
  <2>1. IsFiniteSet(alive \ {p}) /\ Cardinality(alive \ {p}) = Cardinality(alive) - 1
    BY <1>1, FS_RemoveElement
  <2>2. alive' \subseteq alive \ {p}
    BY <1>4
  <2> QED
    BY <2>1, <2>2, FS_Subset
<1>5. MaxTotal \in Nat
  BY PoolAssumption
<1> QED
  BY <1>1, <1>2, <1>3, <1>4, <1>5 DEF Counted

(* Whatever becomes of the object given back: the list with it, or the     *)
(* list without it, goes through the clean-up. *)
LEMMA ReclaimObjKeeps ==
  ASSUME IInv, ReclaimObj
  PROVE  IInv'
<1> USE Listing
<1>1. PICK p \in held :
        /\ ReclaimRefused(p) \/ ReclaimListed(p)
        /\ isUsed_' = [isUsed_ EXCEPT ![p] = FALSE]
        /\ held' = held \ {p}
        /\ fresh' = fresh \cap alive'
  BY DEF ReclaimObj
<1> DEFINE H == held \ {p}
<1>2. p \in Objs /\ p \notin Elems(objs_) /\ elapsed \in 0 .. KEEP_TIME + 1 /\ MAX_SIZE \in Nat
  BY PoolAssumption DEF IInv, PoolTypeOK
<1>3. /\ objs_' \in Seq(Objs) /\ Len(objs_') <= MAX_SIZE + 1
      /\ availableObjs_' = Len(objs_')
      /\ elapsed' \in 0 .. KEEP_TIME + 1
      /\ Distinct(objs_')
      /\ Elems(objs_') \cap H = {}
      /\ alive' = Elems(objs_') \cup H
      /\ fresh' \subseteq Elems(objs_')
      /\ InFront(fresh', objs_')
      /\ alive' \subseteq alive
      /\ \/ totalObjs_' = totalObjs_
         \/ totalObjs_' = totalObjs_ - 1 /\ p \notin alive'
  <2>1. CASE ReclaimRefused(p)
    <3>1. CleanUp(objs_, Len(objs_), alive \ {p}) /\ totalObjs_' = totalObjs_ - 1
      BY <2>1 DEF ReclaimRefused
    <3>2. alive \ {p} = Elems(objs_) \cup H /\ Elems(objs_) \cap H = {}
      BY <1>2
    <3> HIDE DEF H
    <3>3. /\ objs_' \in Seq(Objs) /\ Len(objs_') <= Len(objs_)
          /\ availableObjs_' = Len(objs_')
          /\ elapsed' \in 0 .. KEEP_TIME + 1
          /\ Distinct(objs_')
          /\ Elems(objs_') \cap H = {}
          /\ alive' = Elems(objs_') \cup H
          /\ fresh \cap alive' \subseteq Elems(objs_')
          /\ InFront(fresh \cap alive', objs_')
      BY <1>2, <3>1, <3>2, CleanUpKeeps
    <3>4. alive' \subseteq alive \ {p}
      BY <1>2, <3>1, CleanUpDropsFront
    <3>5. Len(objs_') <= MAX_SIZE + 1
      BY <1>2, <3>3, LenProperties
    <3> QED
      BY <1>1, <3>1, <3>3, <3>4, <3>5
  <2>2. CASE ReclaimListed(p)
    <3> DEFINE list == Append(objs_, p)
    <3>1. /\ CleanUp(list, Len(objs_) + 1, alive) /\ totalObjs_' = totalObjs_
          /\ Len(objs_) <= MAX_SIZE
      BY <1>2, <2>2 DEF ReclaimListed, Listed, Full
    <3>2. /\ list \in Seq(Objs) /\ Len(list) = Len(objs_) + 1
          /\ Distinct(list) /\ InFront(fresh, list)
          /\ Elems(list) = Elems(objs_) \cup {p}
      BY <1>2, Appendage
    <3> HIDE DEF list
    <3>3. alive = Elems(list) \cup H /\ Elems(list) \cap H = {} /\ fresh \subseteq Elems(list)
      BY <3>2
    <3> HIDE DEF H
    <3>4. CleanUp(list, Len(list), alive)
      BY <3>1, <3>2
    <3>5. /\ objs_' \in Seq(Objs) /\ Len(objs_') <= Len(list)
          /\ availableObjs_' = Len(objs_')
          /\ elapsed' \in 0 .. KEEP_TIME + 1
          /\ Distinct(objs_')
          /\ Elems(objs_') \cap H = {}
          /\ alive' = Elems(objs_') \cup H
          /\ fresh \cap alive' \subseteq Elems(objs_')
          /\ InFront(fresh \cap alive', objs_')
      BY <1>2, <3>2, <3>3, <3>4, CleanUpKeeps
    <3>6. alive' \subseteq alive
      BY <1>2, <3>2, <3>4, CleanUpDropsFront
    <3>7. Len(objs_') <= MAX_SIZE + 1
      BY <1>2, <3>1, <3>2, <3>5, LenProperties
    <3> QED
      BY <1>1, <3>1, <3>5, <3>6, <3>7
  <2> QED
    BY <1>1, <2>1, <2>2
<1>4. Counted' /\ totalObjs_' \in 0 .. MaxTotal
  BY <1>3, Uncounted
<1>5. PoolTypeOK'
  BY <1>1, <1>3, <1>4, LenProperties DEF PoolTypeOK, IInv
<1>6. Flagged'
  BY <1>1, <1>2 DEF Flagged, IInv, PoolTypeOK
<1> QED
  BY <1>1, <1>3, <1>4, <1>5, <1>6, Relisted

(* The list is emptied. *)
LEMMA ClearPoolKeeps ==
  ASSUME IInv, ClearPool
  PROVE  IInv'
<1> USE Listing
<1>1. /\ objs_' = <<>> /\ availableObjs_' = 0 /\ alive' = alive \ Elems(objs_) /\ fresh' = {}
      /\ totalObjs_' = totalObjs_ /\ isUsed_' = isUsed_ /\ held' = held /\ elapsed' = elapsed
  BY DEF ClearPool
<1>2. /\ Len(objs_') = 0 /\ objs_' \in Seq(Objs) /\ Elems(objs_') = {}
      /\ Distinct(objs_') /\ InFront(fresh', objs_')
  BY <1>1 DEF Elems, Distinct, InFront
<1>3. Counted' /\ totalObjs_' \in 0 .. MaxTotal
  BY <1>1, Uncounted
<1>4. PoolTypeOK'
  BY <1>1, <1>2, <1>3 DEF PoolTypeOK, IInv
<1>5. Flagged'
  BY <1>1 DEF Flagged, IInv
<1>6. MAX_SIZE \in Nat
  BY PoolAssumption
<1> QED
  BY <1>1, <1>2, <1>3, <1>4, <1>5, <1>6, Relisted

(* What does not look at the clock keeps the invariant when only the clock *)
(* moves.                                                                  *)
LEMMA PassKeeps ==
  ASSUME IInv, Pass \/ UNCHANGED poolVars
  PROVE  IInv'
<1>1. /\ UNCHANGED <<objs_, availableObjs_, totalObjs_, isUsed_, alive, held, fresh>>
      /\ elapsed' \in 0 .. KEEP_TIME + 1
  BY PoolAssumption DEF Pass, poolVars, IInv, PoolTypeOK
<1>2. PoolTypeOK' /\ PoolExact' /\ PoolBounded'
  BY <1>1 DEF IInv, PoolTypeOK, PoolExact, PoolBounded, ListedObjs
<1>3. Flagged' /\ Counted' /\ FreshInFront'
  BY <1>1 DEF IInv, Flagged, Counted, FreshInFront, InFront, ListedObjs
<1> QED
  BY <1>2, <1>3 DEF IInv

-----------------------------------------------------------------------------

(* The invariant holds initially and is kept by every step of a pool.      *)
THEOREM Inductive == PoolSpec => []IInv
<1>1. PoolInit => IInv
  BY InitHolds
<1>2. IInv /\ [PoolNext]_poolVars => IInv'
  <2> SUFFICES ASSUME IInv, [PoolNext]_poolVars PROVE IInv'
    OBVIOUS
  <2>1. CASE GetAvailable
    BY <2>1, GetAvailableKeeps
  <2>2. CASE GetGrown
    BY <2>2, GetGrownKeeps
  <2>3. CASE ReclaimObj
    BY <2>3, ReclaimObjKeeps
  <2>4. CASE ClearPool
    BY <2>4, ClearPoolKeeps
  <2>5. CASE Pass \/ UNCHANGED poolVars
    BY <2>5, PassKeeps
  <2> QED
    BY <2>1, <2>2, <2>3, <2>4, <2>5 DEF PoolNext, GetObj
<1> QED
  BY <1>1, <1>2, PTL DEF PoolSpec

(* Every variable of a pool keeps its type: totalObjs_ never wraps below   *)
(* zero, although the clean-up does not count down and refusing does.      *)
THEOREM TypeCorrect == PoolSpec => []PoolTypeOK
<1>1. IInv => PoolTypeOK
  BY DEF IInv
<1> QED
  BY <1>1, Inductive, PTL

(* The list of reclaimObj and getObj, its count, the flags and the objects *)
(* in callers' hands agree: none leaks, none is deleted or handed out      *)
(* twice.                                                                  *)
THEOREM PoolIsExact == PoolSpec => []PoolExact
<1>1. IInv => PoolExact
  BY DEF IInv
<1> QED
  BY <1>1, Inductive, PTL

(* reclaimObj lets the list grow to one more than DAN_POOL_MAX_SIZE, and   *)
(* no further.                                                             *)
THEOREM PoolIsBounded == PoolSpec => []PoolBounded
<1>1. IInv => PoolBounded
  BY DEF IInv
<1> QED
  BY <1>1, Inductive, PTL

(* What a step hands out, and from where. *)
LEMMA HandedOut ==
  ASSUME IInv, PoolNext
  PROVE  \/ GetAvailable /\ held' = held \cup {Head(objs_)} /\ objs_ # <<>>
         \/ /\ GetGrown
            /\ \E o \in Objs \ alive : held' = held \cup {o}
         \/ held' \subseteq held
<1>1. CASE GetAvailable
  <2>1. objs_ # <<>>
    BY <1>1, Listing, EmptySeq DEF GetAvailable
  <2> QED
    BY <1>1, <2>1 DEF GetAvailable, TakeFront
<1>2. CASE GetGrown
  <2>1. objs_ = <<>>
    BY <1>2, Listing, EmptySeq DEF GetGrown
  <2>2. PICK q \in NewObjs : TakeFront(objs_ \o q, KEEP_SIZE)
    BY <1>2 DEF GetGrown
  <2>3. KEEP_SIZE \in Nat \ {0}
    BY PoolAssumption
  <2>4. q \in [1 .. KEEP_SIZE -> Objs \ alive]
    BY DEF NewObjs
  <2>5. q \in Seq(Objs) /\ q # <<>> /\ Head(q) = q[1] /\ 1 \in 1 .. KEEP_SIZE
    BY <2>3, <2>4
  <2>6. objs_ \o q = q
    BY <2>1, <2>5, ConcatEmptySeq
  <2>7. held' = held \cup {q[1]}
    BY <2>2, <2>5, <2>6 DEF TakeFront
  <2>8. q[1] \in Objs \ alive
    BY <2>4, <2>5
  <2> QED
    BY <1>2, <2>7, <2>8
<1>3. CASE ReclaimObj \/ ClearPool \/ Pass
  BY <1>3 DEF ReclaimObj, ClearPool, Pass
<1> QED
  BY <1>1, <1>2, <1>3 DEF PoolNext, GetObj

(* getObj hands out a used object only when none is left that was never    *)
(* used: the new ones are in front of the list.                            *)
THEOREM NewObjectsFirst == PoolSpec => FreshFirst
<1> DEFINE A == \A o \in held' \ held : o \notin fresh /\ o \in alive => fresh = {}
<1>1. IInv /\ [PoolNext]_poolVars => [A]_poolVars
  <2> SUFFICES ASSUME IInv, PoolNext,
                      NEW o \in held' \ held, o \notin fresh, o \in alive
               PROVE  fresh = {}
    OBVIOUS
  <2>1. o = Head(objs_) /\ objs_ # <<>>
    BY HandedOut
  <2>2. /\ objs_ \in Seq(Objs) /\ DOMAIN objs_ = 1 .. Len(objs_) /\ Len(objs_) \in Nat
        /\ fresh \subseteq Elems(objs_) /\ InFront(fresh, objs_)
    BY Listing, LenProperties
  <2>3. Head(objs_) = objs_[1] /\ Len(objs_) # 0
    BY <2>1, <2>2, HeadTailProperties, EmptySeq
  <2>4. ASSUME NEW x \in fresh PROVE FALSE
    <3>1. PICK i \in 1 .. Len(objs_) : x = objs_[i]
      BY <2>2 DEF Elems
    <3>2. i # 1 /\ 1 \in 1 .. Len(objs_) /\ 1 < i
      BY <2>1, <2>2, <2>3, <3>1
    <3>3. objs_[1] \in fresh
      BY <2>2, <3>1, <3>2 DEF InFront
    <3> QED
      BY <2>1, <2>3, <3>3
  <2> QED
    BY <2>4
<1>2. PoolSpec => [][A]_poolVars
  BY <1>1, Inductive, PTL DEF PoolSpec
<1> QED
  BY <1>2 DEF FreshFirst

(* A pool of any size keeps the promise of ObjSource: what getObj returns  *)
(* exists and is in nobody else's hands, and whatever reclaimObj and the   *)
(* destructor delete is in nobody's.                                       *)
THEOREM Implementation == PoolSpec => ImplementsSource
<1>1. PoolInit => Source!Init
  BY DEF PoolInit, Source!Init
<1>2. IInv /\ IInv' /\ [PoolNext]_poolVars => [Source!Next]_<<held, alive>>
  <2> SUFFICES ASSUME IInv, IInv', [PoolNext]_poolVars PROVE [Source!Next]_<<held, alive>>
    OBVIOUS
  <2>1. Source!Manage
    BY DEF IInv, PoolTypeOK, PoolExact, Source!Manage
  <2>2. alive = Elems(objs_) \cup held /\ held \subseteq Objs /\ objs_ \in Seq(Objs)
        /\ Elems(objs_) \cap held = {} /\ Distinct(objs_) /\ InFront({}, objs_)
    BY Listing DEF IInv, PoolTypeOK, InFront
  <2>3. CASE GetObj
    <3>1. CASE held' = held \cup {Head(objs_)} /\ objs_ # <<>>
      <4>1. Head(objs_) \in Objs \ held
        BY <2>2, <3>1, Behead
      <4> QED
        BY <2>1, <3>1, <4>1 DEF Source!Next, Source!GetObj
    <3>2. CASE \E o \in Objs \ alive : held' = held \cup {o}
      BY <2>1, <2>2, <3>2 DEF Source!Next, Source!GetObj
    <3>3. CASE held' \subseteq held
      <4>1. held \subseteq held'
        BY <2>3 DEF GetObj, GetAvailable, GetGrown, TakeFront
      <4> QED
        BY <2>1, <3>3, <4>1 DEF Source!Next, Source!Clear
    <3> QED
      BY <2>3, <3>1, <3>2, <3>3, HandedOut DEF PoolNext
  <2>4. CASE ReclaimObj
    BY <2>1, <2>4 DEF ReclaimObj, Source!Next, Source!ReclaimObj
  <2>5. CASE ClearPool
    BY <2>1, <2>5 DEF ClearPool, Source!Next, Source!Clear
  <2>6. CASE Pass \/ UNCHANGED poolVars
    BY <2>6 DEF Pass, poolVars
  <2> QED
    BY <2>3, <2>4, <2>5, <2>6 DEF PoolNext
<1> QED
  BY <1>1, <1>2, Inductive, PTL DEF PoolSpec, ImplementsSource, Source!Spec

=============================================================================
