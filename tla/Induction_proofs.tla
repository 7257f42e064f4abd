-------------------------- MODULE Induction_proofs --------------------------
(***************************************************************************)
(* Induction up to a number, over sets of numbers instead of predicates,   *)
(* and what it yields for functions defined by recursion: a fold exists,   *)
(* and FlattenSeq of the community modules is one.                         *)
(***************************************************************************)
EXTENDS Integers, Sequences, SequencesExt, WellFoundedInduction, TLAPS

(* A set of natural numbers that is not empty has a least element. *)
LEMMA Least ==
  ASSUME NEW T \in SUBSET Nat, T # {}
  PROVE  \E m \in T : \A k \in T : m <= k
<1>. DEFINE R == OpToRel(<, Nat)
<1>1. IsWellFoundedOn(R, Nat)
  BY NatLessThanWellFounded
<1>2. \A x, y \in Nat : x < y => <<x, y>> \in R
  BY DEF OpToRel
<1>. HIDE DEF R
<1>3. PICK m \in T : \A k \in T : ~(<<k, m>> \in R)
  BY <1>1, WFMin
<1>4. \A k \in T : k \in Nat /\ m \in Nat /\ ~(k < m)
  BY <1>2, <1>3
<1>. QED  BY <1>4

(* What holds of 0 and passes on to the next number holds up to n. *)
LEMMA Induction ==
  ASSUME NEW n \in Nat, NEW T, 0 \in T, \A k \in 0 .. n - 1 : k \in T => k + 1 \in T
  PROVE  \A k \in 0 .. n : k \in T
<1>. DEFINE U == {k \in 0 .. n : k \notin T}
<1>. SUFFICES ASSUME U # {} PROVE FALSE
  OBVIOUS
<1>1. U \in SUBSET Nat
  OBVIOUS
<1>2. PICK m \in U : \A k \in U : m <= k
  <2>. HIDE DEF U
  <2>. QED  BY <1>1, Least
<1>3. m \in 0 .. n /\ m \notin T /\ m # 0
  BY <1>2
<1>4. m - 1 \in 0 .. n - 1 /\ (m - 1) + 1 = m /\ m - 1 \in 0 .. n
  BY <1>3
<1>5. m - 1 \in T
  BY <1>2, <1>4
<1>. QED  BY <1>3, <1>4, <1>5

(* f iterates step n times from s0. *)
Iterates(f, n, S, s0, step) ==
  f \in [0 .. n -> S] /\ f[0] = s0 /\ \A k \in 1 .. n : f[k] = step[k][f[k - 1]]

(* There is such a function. *)
LEMMA Recursion ==
  ASSUME NEW n \in Nat, NEW S, NEW s0 \in S, NEW step \in [1 .. n -> [S -> S]]
  PROVE  \E f : Iterates(f, n, S, s0, step)
<1>. DEFINE Upto(m, f) == f[0] = s0 /\ \A k \in 1 .. m : f[k] = step[k][f[k - 1]]
            T == {m \in 0 .. n : \E f \in [0 .. m -> S] : Upto(m, f)}
<1>1. 0 \in T
  <2>. DEFINE f0 == [k \in 0 .. 0 |-> s0]
  <2>1. f0 \in [0 .. 0 -> S] /\ Upto(0, f0) /\ 0 \in 0 .. n
    OBVIOUS
  <2>. HIDE DEF f0, Upto
  <2>. QED  BY <2>1
<1>2. ASSUME NEW m \in 0 .. n - 1, m \in T
      PROVE  m + 1 \in T
  <2>1. PICK f \in [0 .. m -> S] : Upto(m, f)
    BY <1>2
  <2>. DEFINE g == [k \in 0 .. m + 1 |-> IF k = m + 1 THEN step[m + 1][f[m]] ELSE f[k]]
  <2>2. m \in Nat /\ m + 1 \in 1 .. n /\ m + 1 \in 0 .. n /\ m \in 0 .. m
    OBVIOUS
  <2>3. step[m + 1][f[m]] \in S
    BY <2>2
  <2>4. \A k \in 0 .. m + 1 : k # m + 1 => k \in 0 .. m
    BY <2>2
  <2>5. g \in [0 .. m + 1 -> S]
    BY <2>3, <2>4
  <2>6. g[0] = s0
    BY <2>1, <2>2
  <2>7. ASSUME NEW k \in 1 .. m + 1
        PROVE  g[k] = step[k][g[k - 1]]
    <3>1. CASE k = m + 1
      <4>1. k - 1 = m /\ k \in 0 .. m + 1 /\ m \in 0 .. m + 1 /\ m # m + 1
        BY <2>2, <3>1
      <4>2. g[k - 1] = f[m] /\ g[k] = step[m + 1][f[m]]
        BY <3>1, <4>1
      <4>. QED  BY <3>1, <4>2
    <3>2. CASE k # m + 1
      <4>1. k \in 1 .. m /\ k \in 0 .. m + 1 /\ k - 1 \in 0 .. m + 1 /\ k - 1 # m + 1
        BY <2>2, <3>2
      <4>2. g[k - 1] = f[k - 1] /\ g[k] = f[k]
        BY <3>2, <4>1
      <4>3. f[k] = step[k][f[k - 1]]
        BY <2>1, <4>1
      <4>. QED  BY <4>2, <4>3
    <3>. QED  BY <3>1, <3>2
  <2>. HIDE DEF g
  <2>. QED  BY <2>2, <2>5, <2>6, <2>7
<1>. HIDE DEF T
<1>3. n \in T
  <2>1. n \in 0 .. n
    OBVIOUS
  <2>. QED  BY <1>1, <1>2, <2>1, Induction
<1>. QED  BY <1>3 DEF T, Iterates

(* FlattenSeq appends one sequence after the other: f[k] is what the first k*)
(* of them make.                                                           *)
LEMMA FlattenByPrefix ==
  ASSUME NEW D, NEW seqs \in Seq(Seq(D))
  PROVE  \E f \in [0 .. Len(seqs) -> Seq(D)] :
           /\ f[0] = <<>> /\ \A k \in 1 .. Len(seqs) : f[k] = f[k - 1] \o seqs[k]
           /\ FlattenSeq(seqs) = f[Len(seqs)]
<1>. DEFINE n == Len(seqs)
            S == Seq(D)
            step == [k \in 1 .. n |-> [s \in S |-> s \o seqs[k]]]
<1>1. n \in Nat /\ <<>> \in S /\ \A k \in 1 .. n : seqs[k] \in S
  OBVIOUS
<1>2. step \in [1 .. n -> [S -> S]]
  BY <1>1
<1>3. \A s \in S, k \in 1 .. n : step[k][s] = s \o seqs[k]
  OBVIOUS
<1>4. (n = 0 => seqs = <<>>) /\ \A s \in S : <<>> \o s = s
  OBVIOUS
<1>. DEFINE s0 == <<>>
<1>. HIDE DEF S, step, n, s0
<1>5. PICK f : Iterates(f, n, S, s0, step)
  <2>1. n \in Nat /\ s0 \in S
    BY <1>1 DEF s0
  <2>. QED  BY <1>2, <2>1, Recursion
<1>6. f \in [0 .. n -> S] /\ f[0] = s0 /\ \A k \in 1 .. n : f[k] = step[k][f[k - 1]]
  BY <1>5 DEF Iterates
<1>7. \A k \in 1 .. n : k - 1 \in 0 .. n
  BY <1>1
<1>8. \A k \in 1 .. n : f[k] = f[k - 1] \o seqs[k]
  BY <1>3, <1>6, <1>7
<1>9. n > 0 => f[1] = seqs[1]
  <2>. SUFFICES ASSUME n > 0 PROVE f[1] = seqs[1]
    OBVIOUS
  <2>1. 1 \in 1 .. n
    BY <1>1
  <2>2. f[1] = f[1 - 1] \o seqs[1]
    BY <1>8, <2>1
  <2>3. f[1 - 1] = s0 /\ seqs[1] \in S
    BY <1>1, <1>6, <2>1
  <2>. QED  BY <1>4, <2>2, <2>3 DEF s0
<1>10. FlattenSeq(seqs) = f[n]
  <2>1. CASE n = 0
    <3>1. FlattenSeq(seqs) = seqs
      BY <2>1 DEF FlattenSeq, n
    <3>. QED  BY <1>4, <1>6, <2>1, <3>1 DEF s0
  <2>2. CASE n # 0
    <3>. DEFINE g == [i \in 1 .. n |-> f[i]]
                Eq(h) == h = [i \in 1 .. n |-> IF i = 1 THEN seqs[i] ELSE h[i - 1] \o seqs[i]]
                c == CHOOSE h : Eq(h)
    <3>1. Eq(g)
      <4>1. ASSUME NEW i \in 1 .. n
            PROVE  f[i] = IF i = 1 THEN seqs[i] ELSE g[i - 1] \o seqs[i]
        <5>1. CASE i = 1
          BY <1>1, <1>9, <5>1
        <5>2. CASE i # 1
          <6>1. i - 1 \in 1 .. n
            BY <1>1, <5>2
          <6>2. g[i - 1] = f[i - 1]
            BY <6>1
          <6>. HIDE DEF g
          <6>. QED  BY <1>8, <5>2, <6>2
        <5>. QED  BY <5>1, <5>2
      <4>. QED  BY <4>1
    <3>2. Eq(c)
      BY <3>1
    <3>3. FlattenSeq(seqs) = c[n]
      BY <2>2 DEF FlattenSeq, n
    <3>. HIDE DEF c, g
    <3>4. 1 \in 1 .. n
      BY <1>1, <2>2
    <3>5. c[1] = seqs[1]
      BY <3>2, <3>4
    <3>6. \A k \in 1 .. n : k # 1 => c[k] = c[k - 1] \o seqs[k]
      BY <3>2
    <3>. DEFINE T == {k \in 0 .. n : k > 0 => c[k] = f[k]}
    <3>7. ASSUME NEW k \in 0 .. n - 1, k \in T
          PROVE  k + 1 \in T
      <4>1. k + 1 \in 1 .. n /\ k + 1 \in 0 .. n /\ (k + 1) - 1 = k
        BY <1>1
      <4>2. CASE k = 0
        <5>1. k + 1 = 1 /\ n > 0
          BY <1>1, <3>4, <4>2
        <5>. QED  BY <1>9, <3>5, <4>1, <5>1
      <4>3. CASE k # 0
        <5>1. c[k + 1] = c[k] \o seqs[k + 1]
          <6>1. k + 1 # 1
            BY <1>1, <4>3
          <6>. QED  BY <3>6, <4>1, <6>1
        <5>2. f[k + 1] = f[k] \o seqs[k + 1]
          BY <1>8, <4>1
        <5>3. c[k] = f[k]
          BY <3>7, <4>3
        <5>. QED  BY <4>1, <5>1, <5>2, <5>3
      <4>. QED  BY <4>2, <4>3
    <3>8. 0 \in T
      BY <1>1
    <3>. HIDE DEF T
    <3>9. n \in 0 .. n
      BY <1>1
    <3>10. n \in T
      BY <1>1, <3>7, <3>8, <3>9, Induction
    <3>. QED  BY <1>1, <2>2, <3>3, <3>10 DEF T
  <2>. QED  BY <2>1, <2>2
<1>. QED  BY <1>6, <1>8, <1>10 DEF S, n, s0
=============================================================================
