---------------------------- MODULE SequenceLemmas ----------------------------
(***************************************************************************)
(* Facts about sequences that the proofs about several modules need:       *)
(* functions that are sequences, induction from the least counterexample,  *)
(* and sequences put one after the other.                                  *)
(***************************************************************************)
EXTENDS Integers, SequencesExt, SequenceTheorems, NaturalsInduction,
        WellFoundedInduction, TLAPS

(* A function on the numbers from 1 to k is a sequence. *)
LEMMA Listed ==
  ASSUME NEW S, NEW k \in Nat, NEW f \in [1 .. k -> S]
  PROVE  f \in Seq(S) /\ Len(f) = k
<1>1. f \in Seq(S)
  BY SeqDef
<1> QED
  BY <1>1, LenProperties

(* Every set of natural numbers has a least one. *)
LEMMA Least ==
  ASSUME NEW T, T \subseteq Nat, T # {}
  PROVE  \E n \in T : \A m \in T : n <= m
<1>1. PICK n \in T : \A m \in T : <<m, n>> \notin OpToRel(<, Nat)
  BY NatLessThanWellFounded, WFMin
<1>2. \A m, k \in Nat : m < k => <<m, k>> \in OpToRel(<, Nat)
  BY DEF OpToRel
<1>3. n \in Nat /\ \A m \in T : m \in Nat /\ ~ (m < n)
  BY <1>1, <1>2
<1> QED
  BY <1>3

(***************************************************************************)
(* Sequences put one after the other: FlattenSeq is defined by recursion   *)
(* on how many there are, Along up to the i-th.                            *)
(***************************************************************************)

Along(g, seqs, n) ==
  g = [i \in 1 .. n |-> IF i = 1 THEN seqs[i] ELSE g[i - 1] \o seqs[i]]

LEMMA AlongExists ==
  ASSUME NEW seqs, NEW k \in Nat
  PROVE  \E g : Along(g, seqs, k)
<1> DEFINE T == {n \in Nat : \A g : ~ Along(g, seqs, n)}
<1>1. ASSUME T # {}
      PROVE  FALSE
  <2>1. PICK n \in T : \A m \in T : n <= m
    BY <1>1, Least
  <2>2. n # 0
    <3>1. Along([i \in 1 .. 0 |-> seqs], seqs, 0)
      BY DEF Along
    <3> QED
      BY <2>1, <3>1
  <2>3. n \in Nat /\ n - 1 \in Nat /\ n - 1 \notin T
    BY <2>1, <2>2
  <2>4. PICK g : Along(g, seqs, n - 1)
    BY <2>3
  <2> DEFINE f == [i \in 1 .. n |-> IF i = 1 THEN seqs[i] ELSE g[i - 1] \o seqs[i]]
  <2>5. ASSUME NEW i \in 1 .. n, i # 1
        PROVE  f[i - 1] = g[i - 1]
    <3>1. i - 1 \in 1 .. n /\ i - 1 \in 1 .. n - 1
      BY <2>3, <2>5
    <3>2. g[i - 1] = IF i - 1 = 1 THEN seqs[i - 1] ELSE g[i - 1 - 1] \o seqs[i - 1]
      BY <2>4, <3>1 DEF Along
    <3> QED
      BY <3>1, <3>2
  <2>6. Along(f, seqs, n)
    BY <2>5 DEF Along
  <2> QED
    BY <2>1, <2>6
<1> QED
  BY <1>1

LEMMA AlongAgrees ==
  ASSUME NEW f, NEW g, NEW r, NEW s, NEW m \in Nat, NEW n \in Nat, n <= m,
         Along(f, r, m), Along(g, s, n), \A i \in 1 .. n : r[i] = s[i]
  PROVE  \A i \in 1 .. n : f[i] = g[i]
<1> DEFINE T == {i \in 1 .. n : f[i] # g[i]}
<1>1. ASSUME T # {}
      PROVE  FALSE
  <2>1. T \subseteq Nat
    OBVIOUS
  <2>2. PICK i \in T : \A j \in T : i <= j
    BY <1>1, <2>1, Least
  <2>3. i \in 1 .. n /\ i \in 1 .. m
    BY <2>2
  <2>4. f[i] = (IF i = 1 THEN r[i] ELSE f[i - 1] \o r[i])
        /\ g[i] = (IF i = 1 THEN s[i] ELSE g[i - 1] \o s[i])
    BY <2>3 DEF Along
  <2>5. i # 1 => f[i - 1] = g[i - 1]
    <3>1. i # 1 => i - 1 \in 1 .. n /\ ~ (i <= i - 1)
      BY <2>3
    <3> QED
      BY <2>2, <3>1
  <2> QED
    BY <2>2, <2>3, <2>4, <2>5
<1> QED
  BY <1>1

LEMMA FlattenIs ==
  ASSUME NEW seqs, Len(seqs) \in Nat, Len(seqs) # 0
  PROVE  \E g : Along(g, seqs, Len(seqs)) /\ FlattenSeq(seqs) = g[Len(seqs)]
<1> DEFINE flatten == CHOOSE g : g = [i \in 1 .. Len(seqs) |->
                                        IF i = 1 THEN seqs[i] ELSE g[i - 1] \o seqs[i]]
<1>1. FlattenSeq(seqs) = flatten[Len(seqs)]
  BY DEF FlattenSeq
<1>2. Along(flatten, seqs, Len(seqs))
  BY AlongExists DEF Along
<1> QED
  BY <1>1, <1>2

LEMMA FlattenAppend ==
  ASSUME NEW S, NEW seqs \in Seq(Seq(S)), NEW s \in Seq(S), FlattenSeq(seqs) \in Seq(S)
  PROVE  FlattenSeq(Append(seqs, s)) = FlattenSeq(seqs) \o s
<1> DEFINE more == Append(seqs, s)
<1>1. PICK n \in Nat : n = Len(seqs)
  BY LenProperties
<1>2. Len(more) = n + 1 /\ more[n + 1] = s /\ \A i \in 1 .. n : more[i] = seqs[i]
  BY <1>1, AppendProperties
<1> HIDE DEF more
<1>3. PICK f : Along(f, more, n + 1) /\ FlattenSeq(more) = f[n + 1]
  BY <1>2, FlattenIs
<1>4. CASE n = 0
  <2>1. FlattenSeq(more) = s
    BY <1>2, <1>3, <1>4 DEF Along
  <2>2. FlattenSeq(seqs) = <<>>
    <3>1. seqs = <<>>
      BY <1>1, <1>4, EmptySeq
    <3> QED
      BY <3>1 DEF FlattenSeq
  <2> QED
    BY <2>1, <2>2, ConcatEmptySeq DEF more
<1>5. CASE n # 0
  <2>1. PICK g : Along(g, seqs, n) /\ FlattenSeq(seqs) = g[n]
    BY <1>1, <1>5, FlattenIs
  <2>2. PICK m \in Nat : m = n + 1
    OBVIOUS
  <2>3. n \in 1 .. n /\ m \in 1 .. m /\ m # 1 /\ m - 1 = n /\ n <= m
    BY <1>5, <2>2
  <2>4. Along(f, more, m) /\ FlattenSeq(more) = f[m] /\ more[m] = s
    BY <1>2, <1>3, <2>2
  <2>5. \A i \in 1 .. n : f[i] = g[i]
    BY <1>2, <2>1, <2>3, <2>4, AlongAgrees
  <2>6. f[m] = f[m - 1] \o more[m]
    BY <2>3, <2>4 DEF Along
  <2>7. f[m - 1] = f[n] /\ f[n] = g[n]
    BY <2>3, <2>5
  <2> QED
    BY <2>1, <2>4, <2>6, <2>7 DEF more
<1> QED
  BY <1>4, <1>5

(* What is put together of sequences over S is one, and so is every front  *)
(* of it. *)
LEMMA AlongTyped ==
  ASSUME NEW S, NEW seqs \in Seq(Seq(S)), NEW n \in Nat, n = Len(seqs),
         NEW g, Along(g, seqs, n)
  PROVE  \A i \in 1 .. n : g[i] \in Seq(S)
<1>1. \A i \in 1 .. n : seqs[i] \in Seq(S)
  OBVIOUS
<1> DEFINE T == {i \in 1 .. n : g[i] \notin Seq(S)}
<1>2. ASSUME T # {}
      PROVE  FALSE
  <2>1. T \subseteq Nat
    OBVIOUS
  <2>2. PICK i \in T : \A j \in T : i <= j
    BY <1>2, <2>1, Least
  <2>3. i \in 1 .. n /\ g[i] \notin Seq(S)
    BY <2>2
  <2>4. g[i] = IF i = 1 THEN seqs[i] ELSE g[i - 1] \o seqs[i]
    BY <2>3 DEF Along
  <2>5. i # 1 => g[i - 1] \in Seq(S)
    <3>1. i # 1 => i - 1 \in 1 .. n /\ ~ (i <= i - 1)
      BY <2>3
    <3> QED
      BY <2>2, <3>1
  <2>6. seqs[i] \in Seq(S)
    BY <1>1, <2>3
  <2>7. i # 1 => g[i - 1] \o seqs[i] \in Seq(S)
    BY <2>5, <2>6, ConcatProperties
  <2> QED
    BY <2>3, <2>4, <2>6, <2>7
<1> QED
  BY <1>2

LEMMA FlattenTyped ==
  ASSUME NEW S, NEW seqs \in Seq(Seq(S))
  PROVE  FlattenSeq(seqs) \in Seq(S)
<1>1. PICK n \in Nat : n = Len(seqs)
  BY LenProperties
<1>2. CASE n = 0
  <2>1. seqs = <<>>
    BY <1>1, <1>2, EmptySeq
  <2> QED
    BY <2>1 DEF FlattenSeq
<1>3. CASE n # 0
  <2>1. PICK g : Along(g, seqs, n) /\ FlattenSeq(seqs) = g[n]
    BY <1>1, <1>3, FlattenIs
  <2>2. n \in 1 .. n
    BY <1>3
  <2> QED
    BY <1>1, <2>1, <2>2, AlongTyped
<1> QED
  BY <1>2, <1>3

=============================================================================
