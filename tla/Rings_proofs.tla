---------------------------- MODULE Rings_proofs ----------------------------
(***************************************************************************)
(* Machine-checked proofs about Rings, for every size of the two rings and *)
(* all lengths of fragments: the rings stay in step (InStep), packets are  *)
(* returned with their fragments (PacketsWithFragments), and what is       *)
(* copied of a packet is the beginning of its data (DataInOrder). The      *)
(* argument: the packets held are tiles that cover the fragments held      *)
(* without gaps (Tiled), and every step keeps them so (IInv).              *)
(***************************************************************************)
EXTENDS Rings, SequenceTheorems, Induction_proofs

-----------------------------------------------------------------------------
(* Indices, runs of slots and tiles.                                       *)

(* How indices wrap: a sum and a difference of two of them. *)
LEMMA ModSum ==
  ASSUME NEW N \in Nat \ {0}, NEW a \in 0 .. N - 1, NEW k \in 0 .. N - 1
  PROVE  (a + k) % N = IF a + k < N THEN a + k ELSE a + k - N
OBVIOUS

(* The difference of two indices, from a to b. *)
LEMMA ModDiff ==
  ASSUME NEW N \in Nat \ {0}, NEW a \in 0 .. N - 1, NEW b \in 0 .. N - 1
  PROVE  (b - a) % N = IF b >= a THEN b - a ELSE b - a + N
OBVIOUS

(* The slot k behind a, and how far b is behind a. *)
After(a, k, N) == (a + k) % N
Distance(a, b, N) == (b - a) % N

(* Nothing moved, nothing between. *)
LEMMA AfterNone ==
  ASSUME NEW N \in Nat \ {0}, NEW a \in 0 .. N - 1
  PROVE  After(a, 0, N) = a /\ Distance(a, a, N) = 0
<1>1. (a + 0) % N = a
  <2>. DEFINE z == 0
  <2>1. z \in 0 .. N - 1 /\ a + z = a /\ a < N
    OBVIOUS
  <2>. HIDE DEF z
  <2>2. (a + z) % N = IF a + z < N THEN a + z ELSE a + z - N
    BY <2>1, ModSum
  <2>3. (a + z) % N = a
    BY <2>1, <2>2
  <2>. QED  BY <2>3 DEF z
<1>2. (a - a) % N = IF a >= a THEN a - a ELSE a - a + N
  BY ModDiff
<1>. QED  BY <1>1, <1>2 DEF After, Distance

(* They undo each other. *)
LEMMA SlotOfDistance ==
  ASSUME NEW N \in Nat \ {0}, NEW a \in 0 .. N - 1, NEW b \in 0 .. N - 1
  PROVE  Distance(a, b, N) \in 0 .. N - 1 /\ After(a, Distance(a, b, N), N) = b
<1>. DEFINE d == Distance(a, b, N)
<1>1. d = IF b >= a THEN b - a ELSE b - a + N
  BY ModDiff DEF Distance
<1>. HIDE DEF d
<1>2. d \in 0 .. N - 1
  BY <1>1
<1>3. After(a, d, N) = IF a + d < N THEN a + d ELSE a + d - N
  BY <1>2, ModSum DEF After
<1>4. After(a, d, N) = b
  BY <1>1, <1>2, <1>3
<1>. QED  BY <1>2, <1>4 DEF d

(* The slot k behind a is k away from it. *)
LEMMA DistanceOfSlot ==
  ASSUME NEW N \in Nat \ {0}, NEW a \in 0 .. N - 1, NEW k \in 0 .. N - 1
  PROVE  After(a, k, N) \in 0 .. N - 1 /\ Distance(a, After(a, k, N), N) = k
<1>. DEFINE b == After(a, k, N)
<1>1. b = IF a + k < N THEN a + k ELSE a + k - N
  BY ModSum DEF After
<1>. HIDE DEF b
<1>2. b \in 0 .. N - 1
  BY <1>1
<1>3. Distance(a, b, N) = IF b >= a THEN b - a ELSE b - a + N
  BY <1>2, ModDiff DEF Distance
<1>4. Distance(a, b, N) = k
  BY <1>1, <1>2, <1>3
<1>. QED  BY <1>2, <1>4 DEF b

(* To go k and then j slots is to go k + j. *)
LEMMA SlotOfSum ==
  ASSUME NEW N \in Nat \ {0}, NEW a \in 0 .. N - 1, NEW k \in 0 .. N - 1, NEW j \in 0 .. N - 1,
         k + j <= N - 1
  PROVE  After(After(a, k, N), j, N) = After(a, k + j, N)
<1>. DEFINE b == After(a, k, N)
<1>1. b = IF a + k < N THEN a + k ELSE a + k - N
  BY ModSum DEF After
<1>. HIDE DEF b
<1>2. b \in 0 .. N - 1 /\ k + j \in 0 .. N - 1
  BY <1>1
<1>3. After(b, j, N) = IF b + j < N THEN b + j ELSE b + j - N
  BY <1>2, ModSum DEF After
<1>4. After(a, k + j, N) = IF a + (k + j) < N THEN a + (k + j) ELSE a + (k + j) - N
  BY <1>2, ModSum DEF After
<1>5. After(b, j, N) = After(a, k + j, N)
  BY <1>1, <1>2, <1>3, <1>4
<1>. QED  BY <1>5 DEF b

(* Distances add up on the way from a by b to c. *)
LEMMA DistanceOfSum ==
  ASSUME NEW N \in Nat \ {0}, NEW a \in 0 .. N - 1, NEW b \in 0 .. N - 1, NEW c \in 0 .. N - 1,
         Distance(a, b, N) <= Distance(a, c, N)
  PROVE  Distance(b, c, N) = Distance(a, c, N) - Distance(a, b, N)
<1>1. Distance(a, b, N) = IF b >= a THEN b - a ELSE b - a + N
  BY ModDiff DEF Distance
<1>2. Distance(a, c, N) = IF c >= a THEN c - a ELSE c - a + N
  BY ModDiff DEF Distance
<1>3. Distance(b, c, N) = IF c >= b THEN c - b ELSE c - b + N
  BY ModDiff DEF Distance
<1>. QED  BY <1>1, <1>2, <1>3

(* An end that moves on by j is j further from the begin. *)
LEMMA EndMoves ==
  ASSUME NEW N \in Nat \ {0}, NEW a \in 0 .. N - 1, NEW e \in 0 .. N - 1, NEW j \in Nat,
         Distance(a, e, N) + j <= N - 1
  PROVE  After(e, j, N) \in 0 .. N - 1 /\ Distance(a, After(e, j, N), N) = Distance(a, e, N) + j
<1>. DEFINE h == Distance(a, e, N)
<1>1. h \in 0 .. N - 1 /\ After(a, h, N) = e
  BY SlotOfDistance
<1>. HIDE DEF h
<1>2. h + j \in 0 .. N - 1 /\ j \in 0 .. N - 1 /\ h + j <= N - 1
  BY <1>1 DEF h
<1>3. After(e, j, N) = After(a, h + j, N)
  BY <1>1, <1>2, SlotOfSum
<1>4. After(a, h + j, N) \in 0 .. N - 1 /\ Distance(a, After(a, h + j, N), N) = h + j
  BY <1>2, DistanceOfSlot
<1>. QED  BY <1>3, <1>4 DEF h

(* The model's operators are these. *)
LEMMA ModelIndices ==
  /\ \A i : NextPacket(i) = After(i, 1, PacketSlots)
  /\ \A i, n : PacketAfter(i, n) = After(i, n, PacketSlots)
  /\ \A i, n : FragmentAfter(i, n) = After(i, n, FragmentSlots)
  /\ \A i, j : PacketCount(i, j) = Distance(i, j, PacketSlots)
  /\ \A i, j : FragmentCount(i, j) = Distance(i, j, FragmentSlots)
BY DEF NextPacket, PacketAfter, FragmentAfter, PacketCount, FragmentCount, After, Distance

(* The run of c fragments from slot f on. *)
Run(f, c) == [k \in 1 .. c |-> FragmentAfter(f, k - 1)]

(* A run is a sequence of slots. *)
LEMMA RunSeq ==
  ASSUME NEW f \in 0 .. FragmentSlots - 1, NEW c \in 0 .. FragmentSlots - 1
  PROVE  /\ Run(f, c) \in Seq(0 .. FragmentSlots - 1) /\ Len(Run(f, c)) = c
         /\ \A k \in 1 .. c : Run(f, c)[k] = FragmentAfter(f, k - 1)
<1>1. FragmentSlots \in Nat \ {0}
  BY RingAssumption
<1>2. ASSUME NEW k \in 1 .. c PROVE FragmentAfter(f, k - 1) \in 0 .. FragmentSlots - 1
  BY <1>1 DEF FragmentAfter
<1>. QED  BY <1>1, <1>2 DEF Run

(* A run and the one that begins where it ends are one run. *)
LEMMA RunsMeet ==
  ASSUME NEW f \in 0 .. FragmentSlots - 1, NEW c \in 0 .. FragmentSlots - 1,
         NEW d \in 0 .. FragmentSlots - 1, c + d <= FragmentSlots - 1
  PROVE  Run(f, c) \o Run(FragmentAfter(f, c), d) = Run(f, c + d)
<1>. DEFINE F == FragmentSlots
            g == FragmentAfter(f, c)
            s == Run(f, c)
            t == Run(g, d)
            u == Run(f, c + d)
<1>1. F \in Nat \ {0} /\ c + d \in 0 .. F - 1
  BY RingAssumption
<1>2. g \in 0 .. F - 1
  BY <1>1, DistanceOfSlot, ModelIndices
<1>3. /\ s \in Seq(0 .. F - 1) /\ Len(s) = c
      /\ t \in Seq(0 .. F - 1) /\ Len(t) = d
      /\ u \in Seq(0 .. F - 1) /\ Len(u) = c + d
  BY <1>1, <1>2, RunSeq
<1>4. ASSUME NEW k \in 1 .. c PROVE s[k] = u[k]
  BY <1>1, RunSeq
<1>5. ASSUME NEW k \in 1 .. d PROVE t[k] = u[c + k]
  <2>1. c + k \in 1 .. c + d
    BY <1>1
  <2>2. u[c + k] = FragmentAfter(f, (c + k) - 1)
    BY <1>1, <2>1, RunSeq
  <2>3. t[k] = FragmentAfter(g, k - 1)
    BY <1>2, RunSeq
  <2>4. k - 1 \in 0 .. F - 1 /\ c + (k - 1) <= F - 1 /\ k \in Nat /\ g \in Nat
    BY <1>1, <1>2
  <2>5. FragmentAfter(g, k - 1) = FragmentAfter(f, c + (k - 1))
    BY <1>1, <2>4, SlotOfSum, ModelIndices
  <2>6. (c + k) - 1 = c + (k - 1)
    BY <1>1, <2>4
  <2>. QED  BY <2>3, <2>5, <2>6, <2>2
<1>. HIDE DEF s, t, u, F, g
<1>6. /\ s \o t \in Seq(0 .. F - 1) /\ Len(s \o t) = c + d
      /\ \A k \in 1 .. c + d : (s \o t)[k] = IF k <= c THEN s[k] ELSE t[k - c]
  BY <1>3, ConcatProperties
<1>7. ASSUME NEW k \in 1 .. c + d PROVE (s \o t)[k] = u[k]
  <2>1. CASE k <= c
    BY <1>4, <1>6, <2>1
  <2>2. CASE ~(k <= c)
    <3>1. k - c \in 1 .. d /\ c + (k - c) = k
      BY <1>1, <2>2
    <3>2. t[k - c] = u[c + (k - c)]
      BY <1>5, <3>1
    <3>. QED  BY <1>6, <2>2, <3>1, <3>2
  <2>. QED  BY <2>1, <2>2
<1>8. s \o t = u
  BY <1>3, <1>6, <1>7, SeqEqual
<1>. QED  BY <1>8 DEF s, t, u, g

(* What the iterator of a packet's fragments visits. *)
LEMMA FragmentsOfPacket ==
  ASSUME NEW p, p.fragment \in 0 .. FragmentSlots - 1, p.count \in 0 .. FragmentSlots - 1
  PROVE  FragmentsOf(p) = Run(p.fragment, p.count)
<1>. DEFINE last == FragmentAfter(p.fragment, p.count)
<1>1. FragmentSlots \in Nat \ {0}
  BY RingAssumption
<1>2. FragmentCount(p.fragment, last) = p.count
  BY <1>1, DistanceOfSlot, ModelIndices
<1>3. FragmentsOf(p) = FragmentsIn(p.fragment, last)
  BY DEF FragmentsOf, GetFragmentIterator
<1>. HIDE DEF last
<1>. QED  BY <1>2, <1>3 DEF FragmentsIn, Run

(* The n slots from the begin index on. *)
Slots(n) == [k \in 1 .. n |-> PacketAfter(packetRing.begin, k - 1)]

(* The indices and what is assumed of the constants, one by one. *)
LEMMA SlotTypes ==
  ASSUME TypeOK
  PROVE  /\ packetRing.begin \in 0 .. PacketSlots - 1 /\ packetRing.end \in 0 .. PacketSlots - 1
         /\ fragmentRing.begin \in 0 .. FragmentSlots - 1
         /\ fragmentRing.end \in 0 .. FragmentSlots - 1
         /\ pi.index \in 0 .. PacketSlots - 1 /\ pi.last \in 0 .. PacketSlots - 1
         /\ fi.index \in 0 .. FragmentSlots - 1 /\ fi.last \in 0 .. FragmentSlots - 1
         /\ PacketSlots \in Nat \ {0} /\ FragmentSlots \in Nat \ {0} /\ Lengths \subseteq Nat
BY RingAssumption DEF TypeOK, Ring, Iterator

(* The fragment range of a packet lies in the ring. *)
LEMMA PacketTypes ==
  ASSUME TypeOK, NEW i \in 0 .. PacketSlots - 1
  PROVE  /\ packet[i].fragment \in 0 .. FragmentSlots - 1
         /\ packet[i].count \in 0 .. FragmentSlots - 1
         /\ packet[i].ignore \in BOOLEAN
BY DEF TypeOK

(* The fragments of packets that are tiled are one run. *)
LEMMA TiledRun ==
  ASSUME TypeOK, NEW n \in Nat, NEW before, \A k \in 0 .. n : before[k] \in 0 .. FragmentSlots - 1,
         Tiled(n, before)
  PROVE  AllFragments(Slots(n)) = Run(fragmentRing.begin, before[n])
<1>. DEFINE F == FragmentSlots
            fb == fragmentRing.begin
            D == 0 .. F - 1
            seqs == [k \in DOMAIN Slots(n) |-> FragmentsOf(packet[Slots(n)[k]])]
<1>1. F \in Nat \ {0} /\ fb \in D /\ PacketSlots \in Nat \ {0} /\ packetRing.begin \in Nat
  BY SlotTypes
<1>2. ASSUME NEW k \in 0 .. n - 1
      PROVE  /\ k + 1 \in 1 .. n /\ k \in 0 .. n /\ k + 1 \in 0 .. n /\ before[k] \in D
             /\ \E c \in D : before[k + 1] = before[k] + c
                           /\ seqs[k + 1] = Run(FragmentAfter(fb, before[k]), c)
  <2>. DEFINE i == PacketAfter(packetRing.begin, k)
              p == packet[i]
  <2>1. k + 1 \in 1 .. n /\ k \in 0 .. n /\ k + 1 \in 0 .. n
    OBVIOUS
  <2>2. i \in 0 .. PacketSlots - 1
    BY <1>1 DEF PacketAfter
  <2>3. Slots(n)[k + 1] = i
    <3>1. (k + 1) - 1 = k
      OBVIOUS
    <3>. QED  BY <2>1, <3>1 DEF Slots
  <2>4. /\ p.fragment = FragmentAfter(fb, before[k])
        /\ before[k + 1] = before[k] + p.count
    BY DEF Tiled
  <2>5. p.fragment \in D /\ p.count \in D
    BY <2>2, PacketTypes
  <2>6. seqs[k + 1] = FragmentsOf(p)
    <3>. HIDE DEF p, i
    <3>1. k + 1 \in DOMAIN Slots(n)
      BY <2>1 DEF Slots
    <3>. QED  BY <2>3, <3>1 DEF p
  <2>. HIDE DEF p, seqs
  <2>7. seqs[k + 1] = Run(p.fragment, p.count)
    BY <2>5, <2>6, FragmentsOfPacket
  <2>8. before[k] \in D
    BY <2>1
  <2>. QED  BY <2>1, <2>4, <2>5, <2>7, <2>8
<1>3. seqs \in Seq(Seq(D)) /\ Len(seqs) = n
  <2>1. ASSUME NEW k \in 1 .. n PROVE seqs[k] \in Seq(D)
    <3>. DEFINE j == k - 1
    <3>1. j \in 0 .. n - 1 /\ j + 1 = k
      OBVIOUS
    <3>. HIDE DEF j, seqs
    <3>2. PICK c \in D : seqs[j + 1] = Run(FragmentAfter(fb, before[j]), c) /\ before[j] \in D
      BY <1>2, <3>1
    <3>3. FragmentAfter(fb, before[j]) \in D
      BY <1>1, <3>2, DistanceOfSlot, ModelIndices
    <3>. QED  BY <3>1, <3>2, <3>3, RunSeq
  <2>2. DOMAIN Slots(n) = 1 .. n
    BY DEF Slots
  <2>3. seqs = [k \in 1 .. n |-> seqs[k]]
    BY <2>2
  <2>. HIDE DEF seqs
  <2>. QED  BY <2>1, <2>3
<1>4. AllFragments(Slots(n)) = FlattenSeq(seqs)
  BY DEF AllFragments
<1>. HIDE DEF seqs
<1>5. PICK f \in [0 .. n -> Seq(D)] :
         /\ f[0] = <<>> /\ \A k \in 1 .. n : f[k] = f[k - 1] \o seqs[k]
         /\ FlattenSeq(seqs) = f[n]
  BY <1>3, FlattenByPrefix
<1>. DEFINE T == {k \in 0 .. n : f[k] = Run(fb, before[k])}
<1>6. 0 \in T
  <2>1. before[0] = 0
    BY DEF Tiled
  <2>2. Run(fb, 0) = <<>>
    BY DEF Run
  <2>. QED  BY <1>5, <2>1, <2>2
<1>7. ASSUME NEW k \in 0 .. n - 1, k \in T
      PROVE  k + 1 \in T
  <2>1. PICK c \in D : before[k + 1] = before[k] + c
                       /\ seqs[k + 1] = Run(FragmentAfter(fb, before[k]), c)
    BY <1>2
  <2>2. k + 1 \in 1 .. n /\ k + 1 \in 0 .. n /\ (k + 1) - 1 = k /\ before[k] \in D
    BY <1>2
  <2>3. before[k + 1] \in D
    BY <2>2
  <2>4. f[k + 1] = Run(fb, before[k]) \o Run(FragmentAfter(fb, before[k]), c)
    BY <1>5, <1>7, <2>1, <2>2
  <2>5. before[k] + c <= F - 1
    BY <1>1, <2>1, <2>3
  <2>6. f[k + 1] = Run(fb, before[k] + c)
    BY <1>1, <2>2, <2>4, <2>5, RunsMeet
  <2>. QED  BY <2>1, <2>2, <2>6
<1>. HIDE DEF T
<1>8. n \in T
  <2>1. n \in 0 .. n
    OBVIOUS
  <2>. QED  BY <1>6, <1>7, <2>1, Induction
<1>. QED  BY <1>4, <1>5, <1>8 DEF T

(* How much of the two rings is held, and how far Advance is. *)
LEMMA HeldTypes ==
  ASSUME TypeOK
  PROVE  /\ HeldPackets \in 0 .. PacketSlots - 1 /\ HeldFragments \in 0 .. FragmentSlots - 1
         /\ Passed \in 0 .. PacketSlots - 1
         /\ packetRing.end = PacketAfter(packetRing.begin, HeldPackets)
         /\ fragmentRing.end = FragmentAfter(fragmentRing.begin, HeldFragments)
         /\ pi.index = PacketAfter(packetRing.begin, Passed)
<1>1. HeldPackets \in 0 .. PacketSlots - 1
      /\ packetRing.end = PacketAfter(packetRing.begin, HeldPackets)
  BY SlotTypes, SlotOfDistance, ModelIndices DEF HeldPackets
<1>2. HeldFragments \in 0 .. FragmentSlots - 1
      /\ fragmentRing.end = FragmentAfter(fragmentRing.begin, HeldFragments)
  BY SlotTypes, SlotOfDistance, ModelIndices DEF HeldFragments
<1>3. Passed \in 0 .. PacketSlots - 1 /\ pi.index = PacketAfter(packetRing.begin, Passed)
  BY SlotTypes, SlotOfDistance, ModelIndices DEF Passed
<1>. QED  BY <1>1, <1>2, <1>3

(* The slots of the packets held are different ones. *)
LEMMA SlotsDiffer ==
  ASSUME TypeOK, NEW k \in 0 .. PacketSlots - 1, NEW j \in 0 .. PacketSlots - 1, k # j
  PROVE  PacketAfter(packetRing.begin, k) # PacketAfter(packetRing.begin, j)
<1>. DEFINE pb == packetRing.begin
            P == PacketSlots
<1>1. pb \in 0 .. P - 1 /\ P \in Nat \ {0}
  BY SlotTypes
<1>. HIDE DEF pb, P
<1>2. Distance(pb, After(pb, k, P), P) = k /\ Distance(pb, After(pb, j, P), P) = j
  BY <1>1, DistanceOfSlot DEF P
<1>3. After(pb, k, P) # After(pb, j, P)
  BY <1>2
<1>. QED  BY <1>3, ModelIndices DEF pb, P

(* Fragments are handed out in the order of the packets. *)
LEMMA TilesGrow ==
  ASSUME TypeOK, NEW n \in Nat, NEW before, \A k \in 0 .. n : before[k] \in Nat, Tiled(n, before),
         NEW m \in 0 .. n
  PROVE  \A k \in 0 .. n - m : before[m] <= before[m + k]
<1>. DEFINE T == {k \in 0 .. n - m : before[m] <= before[m + k]}
<1>1. 0 \in T
  BY m + 0 = m
<1>2. ASSUME NEW k \in 0 .. (n - m) - 1, k \in T
      PROVE  k + 1 \in T
  <2>1. /\ m + k \in 0 .. n - 1 /\ m + (k + 1) = (m + k) + 1 /\ k + 1 \in 0 .. n - m
        /\ (m + k) + 1 \in 0 .. n /\ m + k \in 0 .. n
    OBVIOUS
  <2>. DEFINE i == PacketAfter(packetRing.begin, m + k)
  <2>2. before[(m + k) + 1] = before[m + k] + packet[i].count
    BY <2>1 DEF Tiled
  <2>3. i \in 0 .. PacketSlots - 1
    BY SlotTypes DEF PacketAfter
  <2>4. packet[i].count \in Nat
    BY <2>3, PacketTypes, SlotTypes
  <2>. HIDE DEF i
  <2>5. before[m] \in Nat /\ before[m + k] \in Nat /\ before[m] <= before[m + k]
    BY <1>2, <2>1
  <2>6. before[m] <= before[(m + k) + 1]
    BY <2>2, <2>4, <2>5
  <2>. QED  BY <2>1, <2>6
<1>3. n - m \in Nat
  OBVIOUS
<1>. HIDE DEF T
<1>4. \A k \in 0 .. n - m : k \in T
  BY <1>1, <1>2, <1>3, Induction
<1>. QED  BY <1>4 DEF T

(* Set moves the fragment ring behind the fragments of the packets passed. *)
LEMMA FragmentBeginTiled ==
  ASSUME TypeOK, NEW before, \A k \in 0 .. Passed : before[k] \in 0 .. FragmentSlots - 1,
         Tiled(Passed, before)
  PROVE  FragmentBegin = FragmentAfter(fragmentRing.begin, before[Passed])
<1>. DEFINE m == Passed
            fb == fragmentRing.begin
            F == FragmentSlots
            p == packet[PacketAfter(packetRing.begin, m - 1)]
<1>1. /\ m \in Nat /\ fb \in 0 .. F - 1 /\ F \in Nat \ {0} /\ packetRing.begin \in Nat
      /\ PacketSlots \in Nat \ {0}
  BY HeldTypes, SlotTypes
<1>2. FragmentBegin = IF m = 0 THEN fb ELSE FragmentAfter(p.fragment, p.count)
  BY DEF FragmentBegin, Passed
<1>3. CASE m = 0
  <2>1. before[m] = 0 /\ FragmentAfter(fb, 0) = fb
    BY <1>1, <1>3, AfterNone, ModelIndices DEF Tiled
  <2>. QED  BY <1>2, <1>3, <2>1
<1>4. CASE m # 0
  <2>. DEFINE k == m - 1
  <2>1. k \in 0 .. m - 1 /\ k + 1 = m /\ k = m - 1
        /\ k \in 0 .. m /\ m \in 0 .. m
    BY <1>1, <1>4
  <2>. HIDE DEF k
  <2>2. p.fragment = FragmentAfter(fb, before[k]) /\ before[m] = before[k] + p.count
    BY <2>1 DEF Tiled
  <2>3. p.count \in 0 .. F - 1
    <3>1. PacketAfter(packetRing.begin, m - 1) \in 0 .. PacketSlots - 1
      BY <1>1 DEF PacketAfter
    <3>. QED  BY <3>1, PacketTypes
  <2>4. before[k] \in 0 .. F - 1 /\ before[m] \in 0 .. F - 1
    BY <2>1
  <2>. HIDE DEF p, m
  <2>5. before[k] + p.count <= F - 1
    BY <1>1, <2>2, <2>4
  <2>6. FragmentAfter(p.fragment, p.count) = FragmentAfter(fb, before[k] + p.count)
    BY <1>1, <2>2, <2>3, <2>4, <2>5, SlotOfSum, ModelIndices
  <2>. QED  BY <1>2, <1>4, <2>2, <2>6 DEF m
<1>. QED  BY <1>3, <1>4

-----------------------------------------------------------------------------
(* The inductive invariant.                                                *)

PacketType == [fragment : 0 .. FragmentSlots - 1, count : 0 .. FragmentSlots - 1,
               ignore : BOOLEAN]

(* Tiled, of the packets, the begin indices and the tiling given. *)
Tiling(pkt, pb, fb, n, before) ==
  /\ before[0] = 0
  /\ \A k \in 0 .. n - 1 :
       /\ pkt[PacketAfter(pb, k)].fragment = FragmentAfter(fb, before[k])
       /\ before[k + 1] = before[k] + pkt[PacketAfter(pb, k)].count
       /\ ~pkt[PacketAfter(pb, k)].ignore

(* Tiled is Tiling of the present state. *)
LEMMA TiledIsTiling ==
  ASSUME NEW n, NEW before
  PROVE  Tiled(n, before) <=> Tiling(packet, packetRing.begin, fragmentRing.begin, n, before)
BY DEF Tiled, Tiling

(* TransmitInv and the tiling of ReceiveInv after a step. *)
LEMMA TiledNext ==
  ASSUME NEW n, NEW m, NEW before \in [0 .. n -> 0 .. m],
         HeldPackets' = n, HeldFragments' = m, before[n] = m,
         Tiling(packet', packetRing'.begin, fragmentRing'.begin, n, before)
  PROVE  TransmitInv'
<1>1. (Tiled(HeldPackets, before))' /\ before[HeldPackets'] = HeldFragments'
      /\ before \in [0 .. HeldPackets' -> 0 .. HeldFragments']
  BY DEF Tiled, Tiling
<1>. QED  BY <1>1 DEF TransmitInv

(* What is held survives the next post. *)
LEMMA KeptTypes ==
  ASSUME TypeOK
  PROVE  /\ Kept \in [0 .. PacketSlots - 1 -> PacketType]
         /\ KeptLength \in [0 .. FragmentSlots - 1 -> Lengths \cup {0}]
<1>1. Empty \in PacketType
  <2>1. FragmentSlots \in Nat \ {0}
    BY SlotTypes
  <2>2. 0 \in 0 .. FragmentSlots - 1
    BY <2>1
  <2>. QED  BY <2>2 DEF Empty, PacketType
<1>2. packet \in [0 .. PacketSlots - 1 -> PacketType]
  BY DEF TypeOK, PacketType
<1>3. length \in [0 .. FragmentSlots - 1 -> Lengths \cup {0}]
  BY DEF TypeOK
<1>4. Kept \in [0 .. PacketSlots - 1 -> PacketType]
  BY <1>1, <1>2 DEF Kept
<1>. QED  BY <1>3, <1>4 DEF KeptLength

(* A packet that is held is kept as it is. *)
LEMMA KeptHeld ==
  ASSUME TypeOK
  PROVE  \A k \in 0 .. HeldPackets - 1 :
           Kept[PacketAfter(packetRing.begin, k)] = packet[PacketAfter(packetRing.begin, k)]
<1>. TAKE k \in 0 .. HeldPackets - 1
<1>. DEFINE pb == packetRing.begin
            i == PacketAfter(pb, k)
<1>1. /\ HeldPackets \in 0 .. PacketSlots - 1
      /\ PacketSlots \in Nat \ {0} /\ pb \in 0 .. PacketSlots - 1
  BY HeldTypes, SlotTypes
<1>2. k \in 0 .. PacketSlots - 1 /\ k < HeldPackets
  BY <1>1
<1>3. i \in 0 .. PacketSlots - 1 /\ PacketCount(pb, i) = k
  BY <1>1, <1>2, DistanceOfSlot, ModelIndices
<1>. HIDE DEF i
<1>4. Held(packetRing, i, PacketSlots)
  BY <1>2, <1>3 DEF Held, HeldPackets, PacketCount
<1>5. i \in DOMAIN packet
  BY <1>3 DEF TypeOK
<1>6. Kept[i] = packet[i]
  BY <1>4, <1>5 DEF Kept
<1>. QED  BY <1>6 DEF i

(* What a post does to the rings. *)
LEMMA RingsGrow ==
  ASSUME TypeOK, NEW p \in Nat, NEW f \in Nat,
         HeldPackets + p <= PacketSlots - 1, HeldFragments + f <= FragmentSlots - 1,
         packetRing' = [packetRing EXCEPT !.end = PacketAfter(@, p)],
         fragmentRing' = [fragmentRing EXCEPT !.end = FragmentAfter(@, f)]
  PROVE  /\ packetRing' \in Ring(PacketSlots) /\ fragmentRing' \in Ring(FragmentSlots)
         /\ packetRing'.begin = packetRing.begin /\ fragmentRing'.begin = fragmentRing.begin
         /\ HeldPackets' = HeldPackets + p /\ HeldFragments' = HeldFragments + f
<1>. DEFINE pb == packetRing.begin
            pe == packetRing.end
            fb == fragmentRing.begin
            fe == fragmentRing.end
            P == PacketSlots
            F == FragmentSlots
<1>1. /\ P \in Nat \ {0} /\ F \in Nat \ {0} /\ pb \in 0 .. P - 1 /\ pe \in 0 .. P - 1
      /\ fb \in 0 .. F - 1 /\ fe \in 0 .. F - 1
  BY SlotTypes
<1>2. packetRing = [begin |-> pb, end |-> pe] /\ fragmentRing = [begin |-> fb, end |-> fe]
  BY DEF TypeOK, Ring
<1>. HIDE DEF pb, pe, fb, fe
<1>3. /\ packetRing' = [begin |-> pb, end |-> PacketAfter(pe, p)]
      /\ fragmentRing' = [begin |-> fb, end |-> FragmentAfter(fe, f)]
  BY <1>2 DEF pe, fe
<1>4. HeldPackets = Distance(pb, pe, P) /\ HeldFragments = Distance(fb, fe, F)
  BY ModelIndices DEF HeldPackets, HeldFragments, pb, pe, fb, fe
<1>5. /\ PacketAfter(pe, p) \in 0 .. P - 1
      /\ PacketCount(pb, PacketAfter(pe, p)) = HeldPackets + p
  BY <1>1, <1>4, EndMoves, ModelIndices
<1>6. /\ FragmentAfter(fe, f) \in 0 .. F - 1
      /\ FragmentCount(fb, FragmentAfter(fe, f)) = HeldFragments + f
  BY <1>1, <1>4, EndMoves, ModelIndices
<1>7. packetRing' \in Ring(P) /\ fragmentRing' \in Ring(F)
  <2>1. \A a, b \in 0 .. P - 1 : [begin |-> a, end |-> b] \in Ring(P)
    BY DEF Ring
  <2>2. \A a, b \in 0 .. F - 1 : [begin |-> a, end |-> b] \in Ring(F)
    BY DEF Ring
  <2>3. PacketAfter(pe, p) \in 0 .. P - 1 /\ FragmentAfter(fe, f) \in 0 .. F - 1
    BY <1>5, <1>6
  <2>. HIDE DEF P, F
  <2>4. [begin |-> pb, end |-> PacketAfter(pe, p)] \in Ring(P)
    BY <1>1, <2>1, <2>3
  <2>5. [begin |-> fb, end |-> FragmentAfter(fe, f)] \in Ring(F)
    BY <1>1, <2>2, <2>3
  <2>. QED  BY <1>3, <2>4, <2>5
<1>8. HeldPackets' = HeldPackets + p /\ HeldFragments' = HeldFragments + f
  BY <1>3, <1>5, <1>6 DEF HeldPackets, HeldFragments
<1>. QED  BY <1>3, <1>7, <1>8 DEF pb, fb

(* Empty rings are in step. *)
LEMMA InitIInv == Init => IInv
<1>. SUFFICES ASSUME Init PROVE IInv
  OBVIOUS
<1>. USE DEF Init
<1>1. TypeOK
  <2>1. 0 \in 0 .. PacketSlots - 1 /\ 0 \in 0 .. FragmentSlots - 1
    BY RingAssumption
  <2>2. Empty \in PacketType
    BY <2>1 DEF Empty, PacketType
  <2>3. packet \in [0 .. PacketSlots - 1 -> PacketType]
    BY <2>2
  <2>. QED  BY <2>1, <2>3 DEF TypeOK, Ring, Iterator, PacketType
<1>2. PacketCount(0, 0) = 0 /\ FragmentCount(0, 0) = 0
  <2>1. 0 \in 0 .. PacketSlots - 1 /\ 0 \in 0 .. FragmentSlots - 1
    BY RingAssumption
  <2>. QED  BY <2>1, RingAssumption, AfterNone, ModelIndices
<1>3. HeldPackets = 0 /\ HeldFragments = 0
  BY <1>2 DEF HeldPackets, HeldFragments
<1>4. TransmitInv
  <2>. DEFINE b == [k \in 0 .. 0 |-> 0]
  <2>1. b \in [0 .. 0 -> 0 .. 0] /\ b[0] = 0
    OBVIOUS
  <2>2. Tiled(0, b)
    BY <2>1 DEF Tiled
  <2>. HIDE DEF b
  <2>. QED  BY <1>3, <2>1, <2>2 DEF TransmitInv
<1>5. ReceiveInv
  <2>1. ASSUME NEW i \in 0 .. PacketSlots - 1 PROVE ~packet[i].ignore
    BY DEF Empty
  <2>. QED  BY <1>3, <2>1 DEF ReceiveInv
<1>6. AdvanceInv
  BY DEF AdvanceInv
<1>. QED  BY <1>1, <1>4, <1>5, <1>6 DEF IInv

(* A posted packet takes the slots behind those held, and its fragments too:*)
(* the tiling gets one packet longer.                                      *)
LEMMA PostTransmitIInv ==
  ASSUME IInv, NEW n \in 1 .. FragmentSlots - 1, NEW lengths \in [1 .. n -> Lengths],
         PostTransmit(lengths)
  PROVE  IInv'
<1>. DEFINE P == PacketSlots
            F == FragmentSlots
            pb == packetRing.begin
            pe == packetRing.end
            fb == fragmentRing.begin
            fe == fragmentRing.end
            h == HeldPackets
            g == HeldFragments
            new == [fragment |-> fe, count |-> n, ignore |-> FALSE]
<1>1. /\ TypeOK /\ P \in Nat \ {0} /\ F \in Nat \ {0} /\ pb \in 0 .. P - 1 /\ pe \in 0 .. P - 1
      /\ fb \in 0 .. F - 1 /\ fe \in 0 .. F - 1
  BY SlotTypes DEF IInv
<1>2. /\ h \in 0 .. P - 1 /\ g \in 0 .. F - 1
      /\ h = PacketCount(pb, pe) /\ g = FragmentCount(fb, fe)
      /\ pe = PacketAfter(pb, h) /\ fe = FragmentAfter(fb, g)
  BY <1>1, HeldTypes DEF HeldPackets, HeldFragments
<1>3. Len(lengths) = n /\ n \in Nat
  OBVIOUS
<1>4. /\ packetRing' = [packetRing EXCEPT !.end = NextPacket(@)]
      /\ fragmentRing' = [fragmentRing EXCEPT !.end = FragmentAfter(@, n)]
      /\ packet' = [Kept EXCEPT ![pe] = new]
      /\ length' = [i \in DOMAIN length |->
           IF FragmentCount(fe, i) + 1 <= n THEN lengths[FragmentCount(fe, i) + 1]
           ELSE KeptLength[i]]
      /\ queue = "tx" /\ ~advancing /\ UNCHANGED <<queue, advancing, pi, fi>>
      /\ P - 1 - h > 0 /\ F - 1 - g >= n
  BY <1>3 DEF PostTransmit, FreePackets, FreeFragments, HeldPackets, HeldFragments
<1>. HIDE DEF h, g, pb, pe, fb, fe, P, F, new
<1>5. h + 1 <= P - 1 /\ g + n <= F - 1
  BY <1>1, <1>2, <1>3, <1>4
<1>6. packetRing' = [packetRing EXCEPT !.end = PacketAfter(@, 1)]
  BY <1>4 DEF NextPacket, PacketAfter
<1>7. /\ packetRing' \in Ring(PacketSlots) /\ fragmentRing' \in Ring(FragmentSlots)
      /\ packetRing'.begin = pb /\ fragmentRing'.begin = fb
      /\ HeldPackets' = h + 1 /\ HeldFragments' = g + n
  BY <1>1, <1>3, <1>4, <1>5, <1>6, RingsGrow DEF h, g, P, F, pb, fb
<1>8. new \in PacketType
  BY <1>1 DEF PacketType, new, F
<1>9. /\ packet' \in [0 .. P - 1 -> PacketType] /\ packet'[pe] = new
       /\ \A i \in 0 .. P - 1 : i # pe => packet'[i] = Kept[i]
  <2>1. Kept \in [0 .. P - 1 -> PacketType]
    BY <1>1, KeptTypes DEF P
  <2>. QED  BY <1>1, <1>4, <1>8, <2>1
<1>10. TypeOK'
  <2>1. length' \in [0 .. F - 1 -> Lengths \cup {0}]
    <3>1. ASSUME NEW i \in 0 .. F - 1
          PROVE  (IF FragmentCount(fe, i) + 1 <= n THEN lengths[FragmentCount(fe, i) + 1]
                  ELSE KeptLength[i]) \in Lengths \cup {0}
      <4>1. FragmentCount(fe, i) \in Nat
        BY <1>1, SlotOfDistance, ModelIndices DEF F
      <4>2. KeptLength[i] \in Lengths \cup {0}
        BY <1>1, KeptTypes DEF F
      <4>3. FragmentCount(fe, i) + 1 <= n => FragmentCount(fe, i) + 1 \in 1 .. n
        BY <1>3, <4>1
      <4>4. FragmentCount(fe, i) + 1 <= n => lengths[FragmentCount(fe, i) + 1] \in Lengths
        BY <4>3
      <4>. QED  BY <4>2, <4>4
    <3>2. DOMAIN length = 0 .. F - 1
      BY <1>1 DEF TypeOK, F
    <3>. QED  BY <1>4, <3>1, <3>2
  <2>2. packetRing' \in Ring(PacketSlots) /\ fragmentRing' \in Ring(FragmentSlots)
    BY <1>7
  <2>3. packet' \in [0 .. PacketSlots - 1 -> PacketType]
    BY <1>9 DEF P
  <2>4. queue' \in {"tx", "rx"} /\ advancing' \in BOOLEAN
        /\ pi' \in Iterator(PacketSlots) /\ fi' \in Iterator(FragmentSlots)
    BY <1>1, <1>4 DEF TypeOK
  <2>5. length' \in [0 .. FragmentSlots - 1 -> Lengths \cup {0}]
    BY <2>1 DEF F
  <2>6. packet' \in [0 .. PacketSlots - 1 ->
                      [fragment : 0 .. FragmentSlots - 1, count : 0 .. FragmentSlots - 1,
                       ignore : BOOLEAN]]
    BY <2>3 DEF PacketType
  <2>. HIDE DEF P, F
  <2>. QED  BY <2>2, <2>4, <2>5, <2>6 DEF TypeOK
<1>11. TransmitInv'
  <2>1. PICK before \in [0 .. h -> 0 .. g] : Tiled(h, before) /\ before[h] = g
    BY <1>4 DEF IInv, TransmitInv, h, g
  <2>. DEFINE after == [k \in 0 .. h + 1 |-> IF k = h + 1 THEN g + n ELSE before[k]]
  <2>2. ASSUME NEW k \in 0 .. h PROVE after[k] = before[k] /\ before[k] \in 0 .. g
    <3>1. k \in 0 .. h + 1 /\ k # h + 1
      BY <1>1, <1>2
    <3>2. before[k] \in 0 .. g
      OBVIOUS
    <3>. QED  BY <3>1, <3>2
  <2>3. after \in [0 .. h + 1 -> 0 .. g + n] /\ after[h + 1] = g + n /\ after[0] = 0
    <3>1. ASSUME NEW k \in 0 .. h + 1
          PROVE  (IF k = h + 1 THEN g + n ELSE before[k]) \in 0 .. g + n
      <4>1. CASE k = h + 1
        BY <1>2, <1>3, <4>1
      <4>2. CASE k # h + 1
        <5>1. k \in 0 .. h
          BY <1>2, <4>2
        <5>2. before[k] \in 0 .. g
          BY <2>1, <5>1
        <5>3. before[k] \in 0 .. g + n
          BY <1>2, <1>3, <5>2
        <5>. QED  BY <4>2, <5>3
      <4>. QED  BY <4>1, <4>2
    <3>2. before[0] = 0
      BY <2>1 DEF Tiled
    <3>3. 0 \in 0 .. h /\ h + 1 \in 0 .. h + 1
      BY <1>2
    <3>4. after[0] = before[0]
      BY <2>2, <3>3
    <3>. QED  BY <3>1, <3>2, <3>3, <3>4
  <2>. HIDE DEF after
  <2>4. ASSUME NEW k \in 0 .. h
        PROVE  /\ packet'[PacketAfter(pb, k)].fragment = FragmentAfter(fb, after[k])
               /\ after[k + 1] = after[k] + packet'[PacketAfter(pb, k)].count
               /\ ~packet'[PacketAfter(pb, k)].ignore
    <3>1. CASE k = h
      <4>1. packet'[PacketAfter(pb, k)] = new
        BY <1>2, <1>9, <3>1
      <4>2. after[k] = g
        BY <2>1, <2>2, <3>1
      <4>3. after[k + 1] = g + n
        BY <2>3, <3>1
      <4>4. new.fragment = FragmentAfter(fb, g) /\ new.count = n /\ ~new.ignore
        BY <1>2 DEF new
      <4>. QED  BY <4>1, <4>2, <4>3, <4>4
    <3>2. CASE k # h
      <4>1. k \in 0 .. h - 1 /\ k \in 0 .. P - 1 /\ k + 1 \in 0 .. h
        BY <1>1, <1>2, <3>2
      <4>2. PacketAfter(pb, k) # pe
        BY <1>1, <1>2, <3>2, <4>1, SlotsDiffer DEF pb, P
      <4>3. PacketAfter(pb, k) \in 0 .. P - 1
        BY <1>1, <4>1, DistanceOfSlot, ModelIndices DEF P
      <4>4. Kept[PacketAfter(pb, k)] = packet[PacketAfter(pb, k)]
        BY <1>1, <4>1, KeptHeld DEF pb, h
      <4>5. packet'[PacketAfter(pb, k)] = packet[PacketAfter(pb, k)]
        BY <1>9, <4>2, <4>3, <4>4
      <4>6. /\ packet[PacketAfter(pb, k)].fragment = FragmentAfter(fb, before[k])
            /\ before[k + 1] = before[k] + packet[PacketAfter(pb, k)].count
            /\ ~packet[PacketAfter(pb, k)].ignore
        BY <2>1, <4>1 DEF Tiled, pb, fb
      <4>7. after[k] = before[k] /\ after[k + 1] = before[k + 1]
        BY <2>2, <4>1
      <4>. QED  BY <4>5, <4>6, <4>7
    <3>. QED  BY <3>1, <3>2
  <2>5. Tiling(packet', packetRing'.begin, fragmentRing'.begin, h + 1, after)
    <3>1. 0 .. (h + 1) - 1 = 0 .. h
      BY <1>2
    <3>2. Tiling(packet', pb, fb, h + 1, after)
      BY <2>3, <2>4, <3>1 DEF Tiling
    <3>3. packetRing'.begin = pb /\ fragmentRing'.begin = fb
      BY <1>7
    <3>. QED  BY <3>2, <3>3
  <2>. QED  BY <1>7, <2>3, <2>5, TiledNext
<1>12. ReceiveInv' /\ AdvanceInv'
  BY <1>4 DEF ReceiveInv, AdvanceInv
<1>. QED  BY <1>10, <1>11, <1>12 DEF IInv

(* What is posted to the receive queue is not ignored, and packets suffice for*)
(* the fragments.                                                          *)
LEMMA PostReceiveIInv ==
  ASSUME IInv, NEW p \in 0 .. PacketSlots - 1, NEW f \in 0 .. FragmentSlots - 1,
         PostReceive(p, f)
  PROVE  IInv'
<1>. DEFINE h == HeldPackets
            g == HeldFragments
<1>1. TypeOK /\ PacketSlots \in Nat \ {0} /\ FragmentSlots \in Nat \ {0}
  BY SlotTypes DEF IInv
<1>2. h \in 0 .. PacketSlots - 1 /\ g \in 0 .. FragmentSlots - 1 /\ p \in Nat /\ f \in Nat
  BY <1>1, HeldTypes
<1>3. /\ packetRing' = [packetRing EXCEPT !.end = PacketAfter(@, p)]
      /\ fragmentRing' = [fragmentRing EXCEPT !.end = FragmentAfter(@, f)]
      /\ packet' = Kept /\ length' = KeptLength
      /\ queue = "rx" /\ ~advancing /\ UNCHANGED <<queue, advancing, pi, fi>>
      /\ p <= PacketSlots - 1 - h /\ f <= FragmentSlots - 1 - g /\ h + p >= g + f
  BY DEF PostReceive, FreePackets, FreeFragments, HeldPackets, HeldFragments
<1>. HIDE DEF h, g
<1>4. h + p <= PacketSlots - 1 /\ g + f <= FragmentSlots - 1
  BY <1>1, <1>2, <1>3
<1>5. /\ packetRing' \in Ring(PacketSlots) /\ fragmentRing' \in Ring(FragmentSlots)
      /\ HeldPackets' = h + p /\ HeldFragments' = g + f
  BY <1>1, <1>2, <1>3, <1>4, RingsGrow DEF h, g
<1>6. TypeOK'
  <2>1. Kept \in [0 .. PacketSlots - 1 -> PacketType]
        /\ KeptLength \in [0 .. FragmentSlots - 1 -> Lengths \cup {0}]
    BY <1>1, KeptTypes
  <2>2. packet' \in [0 .. PacketSlots - 1 -> PacketType]
        /\ length' \in [0 .. FragmentSlots - 1 -> Lengths \cup {0}]
    BY <1>3, <2>1
  <2>3. queue' \in {"tx", "rx"} /\ advancing' \in BOOLEAN
        /\ pi' \in Iterator(PacketSlots) /\ fi' \in Iterator(FragmentSlots)
    BY <1>1, <1>3 DEF TypeOK
  <2>. QED  BY <1>5, <2>2, <2>3 DEF TypeOK, PacketType
<1>7. ReceiveInv'
  <2>1. ASSUME NEW i \in 0 .. PacketSlots - 1 PROVE ~packet'[i].ignore
    <3>1. i \in DOMAIN packet
      BY <1>1 DEF TypeOK
    <3>2. packet'[i] = IF Held(packetRing, i, PacketSlots) THEN packet[i] ELSE Empty
      BY <1>3, <3>1 DEF Kept
    <3>3. Held(packetRing, i, PacketSlots) => ~packet[i].ignore
      BY <1>3 DEF IInv, ReceiveInv
    <3>. QED  BY <3>2, <3>3 DEF Empty
  <2>. QED  BY <1>3, <1>5, <2>1 DEF ReceiveInv
<1>8. TransmitInv' /\ AdvanceInv'
  BY <1>3 DEF TransmitInv, AdvanceInv
<1>. QED  BY <1>6, <1>7, <1>8 DEF IInv

(* Advance begins with no packet passed. *)
LEMMA AdvanceBeginIInv == IInv /\ AdvanceBegin => IInv'
<1>. SUFFICES ASSUME IInv, AdvanceBegin PROVE IInv'
  OBVIOUS
<1>1. TypeOK /\ PacketSlots \in Nat \ {0} /\ FragmentSlots \in Nat \ {0}
      /\ packetRing.begin \in 0 .. PacketSlots - 1 /\ fragmentRing.begin \in 0 .. FragmentSlots - 1
  BY SlotTypes DEF IInv
<1>2. /\ pi' = [index |-> packetRing.begin, last |-> packetRing.end]
      /\ fi' = [index |-> fragmentRing.begin, last |-> fragmentRing.end]
      /\ UNCHANGED <<queue, packetRing, fragmentRing, packet, length>> /\ advancing' = TRUE
  BY DEF AdvanceBegin
<1>3. HeldPackets' = HeldPackets /\ HeldFragments' = HeldFragments
  BY <1>2 DEF HeldPackets, HeldFragments
<1>4. TypeOK'
  BY <1>1, <1>2, SlotTypes DEF TypeOK, Iterator
<1>5. Passed' = 0 /\ FragmentCount(fragmentRing'.begin, fi'.index) = 0
  <2>1. PacketCount(packetRing.begin, packetRing.begin) = 0
        /\ FragmentCount(fragmentRing.begin, fragmentRing.begin) = 0
    BY <1>1, AfterNone, ModelIndices
  <2>. QED  BY <1>2, <2>1 DEF Passed
<1>6. HeldPackets \in Nat /\ HeldFragments \in Nat
  BY <1>1, HeldTypes
<1>7. TransmitInv'
  BY <1>2, <1>3 DEF IInv, TransmitInv, Tiled
<1>8. ReceiveInv'
  <2>1. ASSUME queue = "rx"
        PROVE  (Tiled(Passed, [k \in 0 .. Passed |-> k]))'
    <3>1. \A k \in 0 .. 0 - 1 : FALSE
      OBVIOUS
    <3>2. [k \in 0 .. 0 |-> k][0] = 0
      OBVIOUS
    <3>. QED  BY <1>5, <3>1, <3>2 DEF Tiled
  <2>2. queue = "rx" => /\ HeldPackets >= HeldFragments
                        /\ \A i \in 0 .. PacketSlots - 1 :
                             ~packet[i].ignore \/ ~Held(packetRing, i, PacketSlots)
    BY DEF IInv, ReceiveInv
  <2>3. \A i : Held(packetRing', i, PacketSlots) <=> Held(packetRing, i, PacketSlots)
    BY <1>2
  <2>. QED  BY <1>2, <1>3, <1>5, <1>6, <2>1, <2>2, <2>3 DEF ReceiveInv
<1>9. AdvanceInv'
  BY <1>2, <1>3, <1>5, <1>6 DEF AdvanceInv
<1>. QED  BY <1>4, <1>7, <1>8, <1>9 DEF IInv

(* A packet further. *)
LEMMA PassedGrows ==
  ASSUME TypeOK, AdvanceInv, advancing, Passed < HeldPackets,
         pi' = [pi EXCEPT !.index = NextPacket(@)], UNCHANGED packetRing
  PROVE  /\ pi' \in Iterator(PacketSlots) /\ pi'.last = pi.last
         /\ Passed' = Passed + 1 /\ HeldPackets' = HeldPackets
<1>. DEFINE pb == packetRing.begin
            P == PacketSlots
            i == pi.index
            m == Passed
<1>1. P \in Nat \ {0} /\ pb \in 0 .. P - 1 /\ i \in 0 .. P - 1 /\ m \in 0 .. P - 1
      /\ HeldPackets \in 0 .. P - 1 /\ m = Distance(pb, i, P)
  BY SlotTypes, HeldTypes, ModelIndices DEF Passed
<1>2. m < HeldPackets
  OBVIOUS
<1>3. pi \in Iterator(P)
  BY DEF TypeOK
<1>4. pi' = [index |-> PacketAfter(i, 1), last |-> pi.last]
  BY <1>3 DEF NextPacket, PacketAfter, Iterator
<1>. HIDE DEF pb, i, m, P
<1>5. m + 1 <= P - 1
  BY <1>1, <1>2
<1>6. PacketAfter(i, 1) \in 0 .. P - 1 /\ PacketCount(pb, PacketAfter(i, 1)) = m + 1
  BY <1>1, <1>5, EndMoves, ModelIndices DEF P
<1>7. pi' \in Iterator(P)
  BY <1>3, <1>4, <1>6 DEF Iterator
<1>8. Passed' = m + 1
  BY <1>4, <1>6 DEF Passed, pb
<1>. QED  BY <1>4, <1>7, <1>8 DEF HeldPackets, m, P

(* The transmit queue passes a packet of those held. *)
LEMMA NextToTransmitIInv == IInv /\ NextToTransmit => IInv'
<1>. SUFFICES ASSUME IInv, NextToTransmit PROVE IInv'
  OBVIOUS
<1>1. TypeOK /\ AdvanceInv /\ TransmitInv
  BY DEF IInv
<1>2. /\ queue = "tx" /\ advancing /\ pi.index # pi.last
      /\ pi' = [pi EXCEPT !.index = NextPacket(@)]
      /\ UNCHANGED <<queue, packetRing, fragmentRing, packet, length, advancing, fi>>
  BY DEF NextToTransmit, HasAny
<1>3. Passed < HeldPackets
  <2>1. Passed <= HeldPackets /\ pi.last = packetRing.end
    BY <1>1, <1>2 DEF AdvanceInv
  <2>2. Passed # HeldPackets
    BY <1>1, <1>2, <2>1, HeldTypes
  <2>3. Passed \in Nat /\ HeldPackets \in Nat
    BY <1>1, HeldTypes
  <2>. QED  BY <2>1, <2>2, <2>3
<1>4. /\ pi' \in Iterator(PacketSlots) /\ pi'.last = pi.last
      /\ Passed' = Passed + 1 /\ HeldPackets' = HeldPackets
  BY <1>1, <1>2, <1>3, PassedGrows
<1>5. TypeOK'
  BY <1>1, <1>2, <1>4 DEF TypeOK
<1>6. TransmitInv' /\ ReceiveInv'
  BY <1>1, <1>2 DEF TransmitInv, ReceiveInv, HeldPackets, HeldFragments, Tiled
<1>7. AdvanceInv'
  <2>1. Passed \in Nat /\ HeldPackets \in Nat
    BY <1>1, HeldTypes
  <2>. QED  BY <1>1, <1>2, <1>3, <1>4, <2>1 DEF AdvanceInv
<1>. QED  BY <1>5, <1>6, <1>7 DEF IInv

(* A frame that has a fragment has a packet. *)
LEMMA FillHasPacket ==
  ASSUME IInv, queue = "rx", advancing, HasAny(fi)
  PROVE  Passed < HeldFragments /\ HeldFragments <= HeldPackets
<1>1. TypeOK
  BY DEF IInv
<1>2. /\ HeldPackets >= HeldFragments /\ fi.last = fragmentRing.end
      /\ Passed = FragmentCount(fragmentRing.begin, fi.index) /\ Passed <= HeldFragments
  BY DEF IInv, ReceiveInv
<1>3. Passed \in Nat /\ HeldPackets \in Nat /\ HeldFragments \in Nat
  BY <1>1, HeldTypes
<1>4. fi.index = FragmentAfter(fragmentRing.begin, Passed)
  BY <1>1, <1>2, SlotTypes, SlotOfDistance, ModelIndices
<1>5. Passed # HeldFragments
  BY <1>1, <1>2, <1>4, HeldTypes DEF HasAny
<1>. QED  BY <1>2, <1>3, <1>5

(* The receive queue gives the fragment it is at to the packet it is at, and*)
(* passes both.                                                            *)
LEMMA FillPacketIInv ==
  ASSUME IInv, NEW size \in Lengths, FillPacket(size)
  PROVE  IInv'
<1>. DEFINE P == PacketSlots
            F == FragmentSlots
            pb == packetRing.begin
            fb == fragmentRing.begin
            i == pi.index
            f == fi.index
            m == Passed
            id == [k \in 0 .. m + 1 |-> k]
            new == [packet[i] EXCEPT !.fragment = f, !.count = 1]
<1>1. /\ TypeOK /\ AdvanceInv /\ P \in Nat \ {0} /\ F \in Nat \ {0}
      /\ pb \in 0 .. P - 1 /\ fb \in 0 .. F - 1 /\ i \in 0 .. P - 1 /\ f \in 0 .. F - 1
      /\ fi.last \in 0 .. F - 1
  BY SlotTypes DEF IInv
<1>2. /\ queue = "rx" /\ advancing /\ HasAny(fi)
      /\ length' = [length EXCEPT ![f] = size]
      /\ packet' = [packet EXCEPT ![i] = new]
      /\ pi' = [pi EXCEPT !.index = NextPacket(@)]
      /\ fi' = [fi EXCEPT !.index = FragmentAfter(@, 1)]
      /\ UNCHANGED <<queue, packetRing, fragmentRing, advancing>>
  BY DEF FillPacket
<1>3. /\ HeldPackets >= HeldFragments /\ fi.last = fragmentRing.end
      /\ m = FragmentCount(fb, f) /\ Tiled(m, [k \in 0 .. m |-> k])
      /\ \A j \in 0 .. P - 1 : ~packet[j].ignore \/ ~Held(packetRing, j, P)
  BY <1>2 DEF IInv, ReceiveInv
<1>4. m < HeldFragments /\ HeldFragments <= HeldPackets
  BY <1>2, FillHasPacket
<1>5. /\ m \in Nat /\ m \in 0 .. P - 1 /\ HeldPackets \in 0 .. P - 1 /\ HeldFragments \in 0 .. F - 1
      /\ i = PacketAfter(pb, m) /\ m = PacketCount(pb, i)
  BY <1>1, HeldTypes DEF Passed
<1>6. f = FragmentAfter(fb, m)
  BY <1>1, <1>3, SlotOfDistance, ModelIndices
<1>7. fi \in Iterator(F) /\ packet \in [0 .. P - 1 -> PacketType]
  BY <1>1 DEF TypeOK, PacketType
<1>8. fi' = [index |-> FragmentAfter(f, 1), last |-> fi.last]
  BY <1>2, <1>7 DEF Iterator
<1>. HIDE DEF P, F, pb, fb, i, f, m, new
<1>9. m < HeldPackets /\ m + 1 <= HeldFragments /\ m + 1 <= F - 1 /\ 1 \in 0 .. F - 1
  BY <1>1, <1>4, <1>5
<1>10. /\ pi' \in Iterator(P) /\ pi'.last = pi.last
       /\ Passed' = m + 1 /\ HeldPackets' = HeldPackets
  BY <1>1, <1>2, <1>9, PassedGrows DEF m, P
<1>11. HeldFragments' = HeldFragments
  BY <1>2 DEF HeldFragments
<1>12. FragmentAfter(f, 1) \in 0 .. F - 1 /\ FragmentCount(fb, FragmentAfter(f, 1)) = m + 1
  <2>1. m = Distance(fb, f, F)
    BY <1>3, ModelIndices DEF F
  <2>. QED  BY <1>1, <1>9, <2>1, EndMoves, ModelIndices DEF F
<1>13. /\ new \in PacketType /\ new.fragment = f /\ new.count = 1 /\ new.ignore = packet[i].ignore
  <2>1. packet[i] \in PacketType
    BY <1>1, <1>7
  <2>. QED  BY <1>1, <1>9, <2>1 DEF new, PacketType, F
<1>14. /\ packet' \in [0 .. P - 1 -> PacketType] /\ packet'[i] = new
       /\ \A j \in 0 .. P - 1 : j # i => packet'[j] = packet[j]
  BY <1>1, <1>2, <1>7, <1>13
<1>15. TypeOK'
  <2>1. fi' \in Iterator(F)
    BY <1>1, <1>8, <1>12 DEF Iterator
  <2>2. length' \in [0 .. F - 1 -> Lengths \cup {0}]
    BY <1>1, <1>2 DEF TypeOK, F
  <2>3. queue' \in {"tx", "rx"} /\ advancing' \in BOOLEAN
        /\ packetRing' \in Ring(PacketSlots) /\ fragmentRing' \in Ring(FragmentSlots)
    BY <1>1, <1>2 DEF TypeOK
  <2>. QED  BY <1>10, <1>14, <2>1, <2>2, <2>3 DEF TypeOK, PacketType, P, F
<1>16. ReceiveInv'
  <2>1. ASSUME NEW j \in 0 .. P - 1
        PROVE  (~packet[j].ignore \/ ~Held(packetRing, j, P))'
    <3>1. packet'[j].ignore = packet[j].ignore
      BY <1>13, <1>14
    <3>2. Held(packetRing', j, P) <=> Held(packetRing, j, P)
      BY <1>2
    <3>. QED  BY <1>3, <3>1, <3>2 DEF P
  <2>2. ASSUME NEW k \in 0 .. m
        PROVE  /\ packet'[PacketAfter(pb, k)].fragment = FragmentAfter(fb, id[k])
               /\ id[k + 1] = id[k] + packet'[PacketAfter(pb, k)].count
               /\ ~packet'[PacketAfter(pb, k)].ignore
    <3>1. id[k] = k /\ id[k + 1] = k + 1
      BY <1>5
    <3>. HIDE DEF id
    <3>2. CASE k = m
      <4>1. packet'[PacketAfter(pb, k)] = new
        BY <1>5, <1>14, <3>2
      <4>2. Held(packetRing, i, P)
        BY <1>5, <1>9 DEF Held, HeldPackets, PacketCount, pb, P
      <4>3. ~packet[i].ignore
        BY <1>1, <1>3, <4>2
      <4>. QED  BY <1>6, <1>13, <3>1, <3>2, <4>1, <4>3
    <3>3. CASE k # m
      <4>1. k \in 0 .. m - 1 /\ k \in 0 .. P - 1 /\ k \in 0 .. m /\ k + 1 \in 0 .. m
        BY <1>1, <1>5, <3>3
      <4>2. PacketAfter(pb, k) # i
        BY <1>1, <1>5, <3>3, <4>1, SlotsDiffer DEF pb, P
      <4>3. PacketAfter(pb, k) \in 0 .. P - 1
        BY <1>1, <4>1, DistanceOfSlot, ModelIndices DEF P
      <4>4. packet'[PacketAfter(pb, k)] = packet[PacketAfter(pb, k)]
        BY <1>14, <4>2, <4>3
      <4>. DEFINE idm == [j \in 0 .. m |-> j]
      <4>5. idm[k] = k /\ idm[k + 1] = k + 1
        BY <4>1
      <4>6. Tiled(m, idm)
        BY <1>3
      <4>. HIDE DEF idm
      <4>7. /\ packet[PacketAfter(pb, k)].fragment = FragmentAfter(fb, idm[k])
            /\ idm[k + 1] = idm[k] + packet[PacketAfter(pb, k)].count
            /\ ~packet[PacketAfter(pb, k)].ignore
        BY <4>1, <4>6 DEF Tiled, pb, fb
      <4>. QED  BY <3>1, <4>4, <4>5, <4>7
    <3>. QED  BY <3>2, <3>3
  <2>3. Tiling(packet', pb, fb, m + 1, id)
    <3>1. 0 .. (m + 1) - 1 = 0 .. m
      BY <1>5
    <3>2. id[0] = 0
      BY <1>5
    <3>. HIDE DEF id
    <3>. QED  BY <2>2, <3>1, <3>2 DEF Tiling
  <2>4. (Tiled(Passed, [k \in 0 .. Passed |-> k]))'
    <3>1. Tiling(packet', packetRing'.begin, fragmentRing'.begin, Passed',
                 [k \in 0 .. Passed' |-> k])
      BY <1>2, <1>10, <2>3 DEF pb, fb
    <3>. QED  BY <3>1 DEF Tiled, Tiling
  <2>5. /\ fi'.last = fragmentRing'.end /\ Passed' = FragmentCount(fragmentRing'.begin, fi'.index)
        /\ Passed' <= HeldFragments' /\ HeldPackets' >= HeldFragments'
    BY <1>2, <1>3, <1>8, <1>9, <1>10, <1>11, <1>12 DEF fb
  <2>. QED  BY <2>1, <2>4, <2>5 DEF ReceiveInv, P
<1>17. AdvanceInv'
  <2>1. pi.last = packetRing.end
    BY <1>1, <1>2 DEF AdvanceInv
  <2>2. m + 1 <= HeldPackets
    BY <1>5, <1>9
  <2>. QED  BY <1>2, <1>10, <2>1, <2>2 DEF AdvanceInv
<1>18. TransmitInv'
  BY <1>2 DEF TransmitInv
<1>. QED  BY <1>15, <1>16, <1>17, <1>18 DEF IInv

(* A cancel leaves both rings empty. *)
LEMMA CancelIInv == IInv /\ Cancel => IInv'
<1>. SUFFICES ASSUME IInv, Cancel PROVE IInv'
  OBVIOUS
<1>. DEFINE P == PacketSlots
            F == FragmentSlots
<1>1. /\ TypeOK /\ P \in Nat \ {0} /\ F \in Nat \ {0}
      /\ packetRing.end \in 0 .. P - 1 /\ fragmentRing.end \in 0 .. F - 1
  BY SlotTypes DEF IInv
<1>2. /\ packet' = [i \in DOMAIN packet |->
           IF Held(packetRing, i, P) THEN [packet[i] EXCEPT !.ignore = TRUE] ELSE packet[i]]
      /\ packetRing' = [packetRing EXCEPT !.begin = packetRing.end]
      /\ fragmentRing' = [fragmentRing EXCEPT !.begin = fragmentRing.end]
      /\ ~advancing /\ UNCHANGED <<queue, length, advancing, pi, fi>>
  BY DEF Cancel
<1>. HIDE DEF P, F
<1>3. /\ packetRing' = [begin |-> packetRing.end, end |-> packetRing.end]
      /\ fragmentRing' = [begin |-> fragmentRing.end, end |-> fragmentRing.end]
  BY <1>1, <1>2 DEF TypeOK, Ring
<1>4. PacketCount(packetRing.end, packetRing.end) = 0
      /\ FragmentCount(fragmentRing.end, fragmentRing.end) = 0
  BY <1>1, AfterNone, ModelIndices DEF P, F
<1>5. HeldPackets' = 0 /\ HeldFragments' = 0
  BY <1>3, <1>4 DEF HeldPackets, HeldFragments
<1>6. TypeOK'
  <2>1. packet \in [0 .. P - 1 -> PacketType]
    BY <1>1 DEF TypeOK, PacketType, P
  <2>2. \A p \in PacketType : [p EXCEPT !.ignore = TRUE] \in PacketType
    BY DEF PacketType
  <2>3. packet' \in [0 .. P - 1 -> PacketType]
    BY <1>2, <2>1, <2>2
  <2>4. packetRing' \in Ring(PacketSlots) /\ fragmentRing' \in Ring(FragmentSlots)
    BY <1>1, <1>3 DEF Ring, P, F
  <2>5. queue' \in {"tx", "rx"} /\ advancing' \in BOOLEAN
        /\ length' \in [0 .. FragmentSlots - 1 -> Lengths \cup {0}]
        /\ pi' \in Iterator(PacketSlots) /\ fi' \in Iterator(FragmentSlots)
    BY <1>1, <1>2 DEF TypeOK
  <2>. QED  BY <2>3, <2>4, <2>5 DEF TypeOK, PacketType, P
<1>7. TransmitInv'
  <2>. DEFINE b == [k \in 0 .. 0 |-> 0]
  <2>1. b \in [0 .. 0 -> 0 .. 0] /\ b[0] = 0
    OBVIOUS
  <2>2. Tiling(packet', packetRing'.begin, fragmentRing'.begin, 0, b)
    BY <2>1 DEF Tiling
  <2>. HIDE DEF b
  <2>. QED  BY <1>5, <2>1, <2>2, TiledNext
<1>8. ReceiveInv'
  <2>1. ASSUME NEW i \in 0 .. P - 1 PROVE ~Held(packetRing', i, P)
    <3>1. (packetRing'.end - packetRing'.begin) % P = 0
      BY <1>3, <1>4 DEF PacketCount, P
    <3>2. Distance(packetRing.end, i, P) \in 0 .. P - 1
      BY <1>1, SlotOfDistance
    <3>3. (i - packetRing'.begin) % P \in 0 .. P - 1
      BY <1>3, <3>2 DEF Distance
    <3>4. \A x \in 0 .. P - 1 : ~(x < 0)
      BY <1>1
    <3>. QED  BY <3>1, <3>3, <3>4 DEF Held
  <2>. QED  BY <1>2, <1>5, <2>1 DEF ReceiveInv, P
<1>9. AdvanceInv'
  BY <1>2 DEF AdvanceInv
<1>. QED  BY <1>6, <1>7, <1>8, <1>9 DEF IInv

(* Set: both rings begin after what was passed. *)
LEMMA RingsShrink ==
  ASSUME TypeOK, AdvanceInv, advancing, Set, NEW b \in 0 .. FragmentSlots - 1,
         FragmentBegin = FragmentAfter(fragmentRing.begin, b), b <= HeldFragments
  PROVE  /\ packetRing'.begin = pi.index /\ packetRing'.end = packetRing.end
         /\ fragmentRing'.begin = FragmentAfter(fragmentRing.begin, b)
         /\ HeldPackets' = HeldPackets - Passed /\ HeldFragments' = HeldFragments - b
         /\ Passed' = 0
         /\ TypeOK'
<1>. DEFINE P == PacketSlots
            F == FragmentSlots
            pb == packetRing.begin
            pe == packetRing.end
            fb == fragmentRing.begin
            fe == fragmentRing.end
            i == pi.index
            c == FragmentAfter(fb, b)
<1>1. /\ P \in Nat \ {0} /\ F \in Nat \ {0} /\ pb \in 0 .. P - 1 /\ pe \in 0 .. P - 1
      /\ i \in 0 .. P - 1 /\ fb \in 0 .. F - 1 /\ fe \in 0 .. F - 1
  BY SlotTypes
<1>2. /\ packetRing = [begin |-> pb, end |-> pe] /\ fragmentRing = [begin |-> fb, end |-> fe]
  BY DEF TypeOK, Ring
<1>3. /\ packetRing' = [packetRing EXCEPT !.begin = i]
      /\ fragmentRing' = [fragmentRing EXCEPT !.begin = c]
      /\ UNCHANGED <<queue, packet, length, pi, fi>> /\ advancing' \in BOOLEAN
  BY DEF Set
<1>4. /\ HeldPackets = Distance(pb, pe, P) /\ Passed = Distance(pb, i, P)
      /\ HeldFragments = Distance(fb, fe, F)
  BY ModelIndices DEF HeldPackets, Passed, HeldFragments
<1>5. Passed <= HeldPackets
  BY DEF AdvanceInv
<1>6. c \in 0 .. F - 1 /\ Distance(fb, c, F) = b
  BY <1>1, DistanceOfSlot, ModelIndices
<1>. HIDE DEF pb, pe, fb, fe, i, c, P, F
<1>7. /\ packetRing' = [begin |-> i, end |-> pe] /\ fragmentRing' = [begin |-> c, end |-> fe]
  BY <1>2, <1>3
<1>8. PacketCount(i, pe) = HeldPackets - Passed
  <2>1. Distance(pb, i, P) <= Distance(pb, pe, P)
    BY <1>4, <1>5
  <2>2. Distance(i, pe, P) = Distance(pb, pe, P) - Distance(pb, i, P)
    BY <1>1, <2>1, DistanceOfSum
  <2>. QED  BY <1>4, <2>2, ModelIndices DEF P
<1>9. FragmentCount(c, fe) = HeldFragments - b
  <2>1. Distance(fb, c, F) <= Distance(fb, fe, F)
    BY <1>4, <1>6
  <2>2. Distance(c, fe, F) = Distance(fb, fe, F) - Distance(fb, c, F)
    BY <1>1, <1>6, <2>1, DistanceOfSum
  <2>. QED  BY <1>4, <1>6, <2>2, ModelIndices DEF F
<1>10. PacketCount(i, i) = 0
  BY <1>1, AfterNone, ModelIndices DEF P
<1>11. HeldPackets' = HeldPackets - Passed /\ HeldFragments' = HeldFragments - b /\ Passed' = 0
  BY <1>3, <1>7, <1>8, <1>9, <1>10 DEF HeldPackets, HeldFragments, Passed, i
<1>12. packetRing' \in Ring(PacketSlots) /\ fragmentRing' \in Ring(FragmentSlots)
  <2>1. \A x, y \in 0 .. P - 1 : [begin |-> x, end |-> y] \in Ring(PacketSlots)
    BY DEF Ring, P
  <2>2. \A x, y \in 0 .. F - 1 : [begin |-> x, end |-> y] \in Ring(FragmentSlots)
    BY DEF Ring, F
  <2>3. packetRing' \in Ring(PacketSlots)
    BY <1>1, <1>7, <2>1
  <2>. QED  BY <1>1, <1>6, <1>7, <2>2, <2>3
<1>13. TypeOK'
  BY <1>3, <1>12 DEF TypeOK
<1>. QED  BY <1>7, <1>11, <1>13 DEF i, pe, c, fb

(* Set on the transmit queue: what is left is tiled from the new begin on. *)
LEMMA SetTransmitIInv ==
  ASSUME IInv, Set, queue = "tx"
  PROVE  IInv'
<1>. DEFINE P == PacketSlots
            F == FragmentSlots
            pb == packetRing.begin
            fb == fragmentRing.begin
            h == HeldPackets
            g == HeldFragments
            m == Passed
<1>1. /\ TypeOK /\ AdvanceInv /\ advancing /\ P \in Nat \ {0} /\ F \in Nat \ {0}
      /\ pb \in 0 .. P - 1 /\ fb \in 0 .. F - 1 /\ h \in 0 .. P - 1 /\ g \in 0 .. F - 1
      /\ m \in 0 .. P - 1 /\ pi.index = PacketAfter(pb, m)
  BY SlotTypes, HeldTypes DEF IInv, Set
<1>2. m \in 0 .. h /\ pi.last = packetRing.end
  BY <1>1 DEF AdvanceInv
<1>3. PICK before \in [0 .. h -> 0 .. g] : Tiled(h, before) /\ before[h] = g
  BY DEF IInv, TransmitInv
<1>. DEFINE b == before[m]
            after == [k \in 0 .. h - m |-> before[m + k] - b]
<1>. HIDE DEF h, g, m, P, F, pb, fb
<1>4. \A k \in 0 .. h : before[k] \in 0 .. g /\ before[k] \in 0 .. F - 1 /\ before[k] \in Nat
  BY <1>1, <1>3
<1>5. b \in 0 .. F - 1 /\ b <= g /\ b \in Nat
  BY <1>1, <1>2, <1>4
<1>. HIDE DEF b
<1>6. Tiled(m, before)
  <2>1. \A k \in 0 .. m - 1 : k \in 0 .. h - 1
    BY <1>1, <1>2
  <2>. QED  BY <1>3, <2>1 DEF Tiled
<1>7. FragmentBegin = FragmentAfter(fb, b)
  <2>1. \A k \in 0 .. m : before[k] \in 0 .. F - 1
    BY <1>1, <1>2, <1>4
  <2>. QED  BY <1>1, <1>6, <2>1, FragmentBeginTiled DEF m, fb, F, b
<1>8. /\ packetRing'.begin = pi.index /\ packetRing'.end = packetRing.end
      /\ fragmentRing'.begin = FragmentAfter(fb, b)
      /\ HeldPackets' = h - m /\ HeldFragments' = g - b /\ Passed' = 0 /\ TypeOK'
  BY <1>1, <1>5, <1>7, RingsShrink DEF h, g, m, fb, F
<1>9. packet' = packet /\ queue' = queue /\ pi' = pi
  BY DEF Set
<1>10. \A k \in 0 .. h - m : m + k \in 0 .. h /\ b <= before[m + k]
  <2>1. \A k \in 0 .. h - m : before[m] <= before[m + k]
    <3>1. h \in Nat
      BY <1>1
    <3>. QED  BY <1>1, <1>2, <1>3, <1>4, <3>1, TilesGrow
  <2>2. \A k \in 0 .. h - m : m + k \in 0 .. h
    BY <1>1, <1>2
  <2>. QED  BY <2>1, <2>2 DEF b
<1>11. after \in [0 .. h - m -> 0 .. g - b]
  <2>1. ASSUME NEW k \in 0 .. h - m PROVE before[m + k] - b \in 0 .. g - b
    <3>1. before[m + k] \in 0 .. g /\ b <= before[m + k]
      BY <1>4, <1>10
    <3>. QED  BY <1>1, <1>5, <3>1
  <2>. QED  BY <2>1
<1>12. after[0] = 0 /\ after[h - m] = g - b
  <2>1. 0 \in 0 .. h - m /\ h - m \in 0 .. h - m /\ m + (h - m) = h /\ m + 0 = m
    BY <1>1, <1>2
  <2>2. before[m] - b = 0
    BY <1>5 DEF b
  <2>. QED  BY <1>3, <2>1, <2>2
<1>13. ASSUME NEW k \in 0 .. (h - m) - 1
       PROVE  /\ packet[PacketAfter(pi.index, k)].fragment
                   = FragmentAfter(FragmentAfter(fb, b), after[k])
              /\ after[k + 1] = after[k] + packet[PacketAfter(pi.index, k)].count
              /\ ~packet[PacketAfter(pi.index, k)].ignore
  <2>1. /\ k \in 0 .. h - m /\ k + 1 \in 0 .. h - m /\ m + k \in 0 .. h - 1 /\ m + k \in 0 .. h
        /\ (m + k) + 1 \in 0 .. h /\ m + (k + 1) = (m + k) + 1
        /\ k \in 0 .. P - 1 /\ m + k \in 0 .. P - 1 /\ m + k <= P - 1
    BY <1>1, <1>2
  <2>2. PacketAfter(pi.index, k) = PacketAfter(pb, m + k)
    BY <1>1, <2>1, SlotOfSum, ModelIndices DEF P
  <2>. DEFINE p == packet[PacketAfter(pb, m + k)]
              x == before[m + k]
  <2>3. /\ p.fragment = FragmentAfter(fb, x) /\ before[(m + k) + 1] = x + p.count /\ ~p.ignore
    BY <1>3, <2>1 DEF Tiled, pb, fb
  <2>4. p.count \in 0 .. F - 1
    <3>1. PacketAfter(pb, m + k) \in 0 .. P - 1
      BY <1>1, <2>1, DistanceOfSlot, ModelIndices DEF P
    <3>. QED  BY <1>1, <3>1, PacketTypes DEF P, F
  <2>5. after[k] = x - b /\ after[k + 1] = before[(m + k) + 1] - b
    BY <2>1
  <2>6. x \in 0 .. F - 1 /\ b <= x
    BY <1>4, <1>10, <2>1
  <2>. HIDE DEF p, x, after
  <2>7. after[k] \in 0 .. F - 1 /\ b + after[k] = x /\ b + after[k] <= F - 1
    BY <1>1, <1>5, <2>5, <2>6
  <2>8. FragmentAfter(FragmentAfter(fb, b), after[k]) = FragmentAfter(fb, b + after[k])
    BY <1>1, <1>5, <2>7, SlotOfSum, ModelIndices DEF F
  <2>9. after[k + 1] = after[k] + p.count
    <3>1. after[k] = x - b /\ after[k + 1] = (x + p.count) - b
      BY <2>3, <2>5
    <3>2. x \in Nat /\ b \in Nat /\ p.count \in Nat
      BY <1>1, <1>5, <2>4, <2>6
    <3>. QED  BY <3>1, <3>2
  <2>10. packet[PacketAfter(pi.index, k)] = p
    BY <2>2 DEF p
  <2>11. p.fragment = FragmentAfter(FragmentAfter(fb, b), after[k])
    BY <2>3, <2>7, <2>8
  <2>. QED  BY <2>3, <2>9, <2>10, <2>11
<1>14. TransmitInv'
  <2>. HIDE DEF after
  <2>1. Tiling(packet', packetRing'.begin, fragmentRing'.begin, h - m, after)
    BY <1>8, <1>9, <1>12, <1>13 DEF Tiling
  <2>. QED  BY <1>8, <1>11, <1>12, <2>1, TiledNext
<1>15. ReceiveInv'
  BY <1>9 DEF ReceiveInv
<1>16. AdvanceInv'
  <2>1. 0 <= h - m
    BY <1>1, <1>2
  <2>. QED  BY <1>2, <1>8, <1>9, <2>1 DEF AdvanceInv
<1>. QED  BY <1>8, <1>14, <1>15, <1>16 DEF IInv

(* Set on the receive queue: as many packets as fragments are returned. *)
LEMMA SetReceiveIInv ==
  ASSUME IInv, Set, queue = "rx"
  PROVE  IInv'
<1>. DEFINE P == PacketSlots
            F == FragmentSlots
            pb == packetRing.begin
            fb == fragmentRing.begin
            h == HeldPackets
            g == HeldFragments
            m == Passed
            id == [k \in 0 .. m |-> k]
<1>1. /\ TypeOK /\ AdvanceInv /\ advancing /\ P \in Nat \ {0} /\ F \in Nat \ {0}
      /\ pb \in 0 .. P - 1 /\ fb \in 0 .. F - 1 /\ h \in 0 .. P - 1 /\ g \in 0 .. F - 1
      /\ m \in 0 .. P - 1 /\ pi.index = PacketAfter(pb, m)
  BY SlotTypes, HeldTypes DEF IInv, Set
<1>2. /\ h >= g /\ m <= g /\ Tiled(m, id)
      /\ \A i \in 0 .. P - 1 : ~packet[i].ignore \/ ~Held(packetRing, i, P)
  BY <1>1 DEF IInv, ReceiveInv
<1>3. packet' = packet /\ queue' = "rx" /\ ~advancing'
  BY DEF Set
<1>4. id[m] = m /\ \A k \in 0 .. m : id[k] = k
  BY <1>1
<1>. HIDE DEF P, F, pb, fb, h, g, m, id
<1>5. m \in 0 .. F - 1 /\ m <= h /\ \A k \in 0 .. m : id[k] \in 0 .. F - 1
  BY <1>1, <1>2, <1>4
<1>6. FragmentBegin = FragmentAfter(fb, m)
  BY <1>1, <1>2, <1>4, <1>5, FragmentBeginTiled DEF m, fb, F
<1>7. /\ packetRing'.begin = pi.index /\ packetRing'.end = packetRing.end
      /\ HeldPackets' = h - m /\ HeldFragments' = g - m /\ TypeOK'
  BY <1>1, <1>2, <1>5, <1>6, RingsShrink DEF h, g, m, fb, F
<1>8. ReceiveInv'
  <2>1. HeldPackets' >= HeldFragments'
    BY <1>1, <1>2, <1>7
  <2>2. ASSUME NEW i \in 0 .. P - 1, Held(packetRing', i, P)
        PROVE  Held(packetRing, i, P)
    <3>. DEFINE d == Distance(pi.index, i, P)
    <3>1. pi.index \in 0 .. P - 1
      BY <1>1, SlotTypes DEF P
    <3>2. d \in 0 .. P - 1 /\ i = PacketAfter(pi.index, d)
      BY <1>1, <3>1, SlotOfDistance, ModelIndices DEF P
    <3>3. d < h - m
      BY <1>7, <2>2 DEF Held, HeldPackets, PacketCount, Distance, P
    <3>. HIDE DEF d
    <3>4. m + d \in 0 .. P - 1 /\ m + d <= P - 1 /\ m + d < h
      BY <1>1, <3>2, <3>3
    <3>5. i = PacketAfter(pb, m + d)
      BY <1>1, <3>2, <3>4, SlotOfSum, ModelIndices DEF P
    <3>6. Distance(pb, i, P) = m + d
      BY <1>1, <3>4, <3>5, DistanceOfSlot, ModelIndices DEF P
    <3>. QED  BY <3>4, <3>6 DEF Held, HeldPackets, PacketCount, Distance, h, pb, P
  <2>. QED  BY <1>2, <1>3, <2>1, <2>2 DEF ReceiveInv, P
<1>9. TransmitInv' /\ AdvanceInv'
  BY <1>3 DEF TransmitInv, AdvanceInv
<1>. QED  BY <1>7, <1>8, <1>9 DEF IInv

(* Every step keeps the inductive invariant. *)
LEMMA StepIInv == IInv /\ [Next]_vars => IInv'
<1>. SUFFICES ASSUME IInv, [Next]_vars PROVE IInv'
  OBVIOUS
<1>1. ASSUME NEW n \in 1 .. FragmentSlots - 1, NEW lengths \in [1 .. n -> Lengths],
             PostTransmit(lengths)
      PROVE  IInv'
  BY <1>1, PostTransmitIInv
<1>2. ASSUME NEW p \in 0 .. PacketSlots - 1, NEW f \in 0 .. FragmentSlots - 1, PostReceive(p, f)
      PROVE  IInv'
  BY <1>2, PostReceiveIInv
<1>3. CASE AdvanceBegin
  BY <1>3, AdvanceBeginIInv
<1>4. CASE NextToTransmit
  BY <1>4, NextToTransmitIInv
<1>5. ASSUME NEW size \in Lengths, FillPacket(size)
      PROVE  IInv'
  BY <1>5, FillPacketIInv
<1>6. CASE Set
  <2>1. queue \in {"tx", "rx"}
    BY DEF IInv, TypeOK
  <2>. QED  BY <1>6, <2>1, SetTransmitIInv, SetReceiveIInv
<1>7. CASE Cancel
  BY <1>7, CancelIInv
<1>8. CASE UNCHANGED vars
  BY <1>8 DEF vars, IInv, TypeOK, TransmitInv, ReceiveInv, AdvanceInv, HeldPackets,
              HeldFragments, Passed, Tiled
<1>. QED  BY <1>1, <1>2, <1>3, <1>4, <1>5, <1>6, <1>7, <1>8 DEF Next, Post

(* The inductive invariant holds. *)
LEMMA Invariance == Spec => []IInv
<1>. QED  BY InitIInv, StepIInv, PTL DEF Spec

(* Every index stays one of its ring (TypeOK). *)
THEOREM TypeCorrect == Spec => []TypeOK
<1>1. IInv => TypeOK
  BY DEF IInv
<1>. QED  BY <1>1, Invariance, PTL

(* What the iterators visit, as runs of slots. *)
LEMMA Visited ==
  ASSUME NEW x, NEW y, NEW z
  PROVE  /\ PacketsIn(packetRing.begin, x) = Slots(PacketCount(packetRing.begin, x))
         /\ FragmentsIn(y, z) = Run(y, FragmentCount(y, z))
BY DEF PacketsIn, FragmentsIn, Slots, Run

(* In step, by the inductive invariant. *)
LEMMA AgreeInv == IInv => RingsAgree
<1>. SUFFICES ASSUME IInv PROVE RingsAgree
  OBVIOUS
<1>1. TypeOK /\ HeldPackets \in Nat /\ HeldFragments \in Nat /\ FragmentSlots \in Nat
      /\ HeldFragments \in 0 .. FragmentSlots - 1
  BY HeldTypes, SlotTypes DEF IInv
<1>2. ASSUME queue = "tx"
      PROVE  AllFragments(PacketsIn(packetRing.begin, packetRing.end))
               = FragmentsIn(fragmentRing.begin, fragmentRing.end)
  <2>1. PICK before \in [0 .. HeldPackets -> 0 .. HeldFragments] :
               Tiled(HeldPackets, before) /\ before[HeldPackets] = HeldFragments
    BY <1>2 DEF IInv, TransmitInv
  <2>2. \A k \in 0 .. HeldPackets : before[k] \in 0 .. FragmentSlots - 1
    BY <1>1, <2>1
  <2>3. AllFragments(Slots(HeldPackets)) = Run(fragmentRing.begin, HeldFragments)
    BY <1>1, <2>1, <2>2, TiledRun
  <2>. QED  BY <2>3, Visited DEF HeldPackets, HeldFragments
<1>3. ASSUME queue = "rx", advancing, HasAny(fi)
      PROVE  HasAny(pi)
  <2>1. Passed < HeldPackets
    BY <1>1, <1>3, FillHasPacket, HeldTypes
  <2>2. pi.last = packetRing.end
    BY <1>3 DEF IInv, AdvanceInv
  <2>3. pi.index = packetRing.end => Passed = HeldPackets
    BY DEF Passed, HeldPackets
  <2>. QED  BY <1>1, <2>1, <2>2, <2>3 DEF HasAny
<1>4. queue = "rx" => HeldPackets >= HeldFragments
  BY DEF IInv, ReceiveInv
<1>. QED  BY <1>2, <1>3, <1>4 DEF RingsAgree, HeldPackets, HeldFragments

(* The packet ring and the fragment ring stay in step, wherever they wrap and*)
(* however often Advance returns part of them (RingsAgree).                *)
THEOREM InStep == Spec => []RingsAgree
BY AgreeInv, Invariance, PTL

(* No slots, no fragments. *)
LEMMA NothingReturned ==
  ASSUME TypeOK
  PROVE  AllFragments(Slots(0)) = Run(fragmentRing.begin, 0)
<1>. DEFINE b == [k \in 0 .. 0 |-> 0]
<1>1. b[0] = 0 /\ 0 \in Nat
  OBVIOUS
<1>2. Tiled(0, b)
  BY <1>1 DEF Tiled
<1>3. \A k \in 0 .. 0 : b[k] \in 0 .. FragmentSlots - 1
  BY SlotTypes
<1>. HIDE DEF b
<1>. QED  BY <1>1, <1>2, <1>3, TiledRun

(* The tiling of the packets that Advance has passed. *)
LEMMA PassedTiled ==
  ASSUME IInv, advancing
  PROVE  \E before \in [0 .. Passed -> 0 .. HeldFragments] : Tiled(Passed, before)
<1>1. Passed \in Nat /\ HeldPackets \in Nat /\ HeldFragments \in Nat /\ Passed <= HeldPackets
  BY HeldTypes DEF IInv, AdvanceInv
<1>2. CASE queue = "tx"
  <2>1. PICK before \in [0 .. HeldPackets -> 0 .. HeldFragments] : Tiled(HeldPackets, before)
    BY <1>2 DEF IInv, TransmitInv
  <2>. DEFINE b == [k \in 0 .. Passed |-> before[k]]
  <2>2. \A k \in 0 .. Passed : k \in 0 .. HeldPackets /\ b[k] = before[k]
    BY <1>1
  <2>3. b \in [0 .. Passed -> 0 .. HeldFragments]
    BY <2>1, <2>2
  <2>4. \A k \in 0 .. Passed - 1 : k \in 0 .. HeldPackets - 1 /\ k \in 0 .. Passed
                                   /\ k + 1 \in 0 .. Passed
    BY <1>1
  <2>5. 0 \in 0 .. Passed
    BY <1>1
  <2>. HIDE DEF b
  <2>6. Tiled(Passed, b)
    BY <2>1, <2>2, <2>4, <2>5 DEF Tiled
  <2>. QED  BY <2>3, <2>6
<1>3. CASE queue = "rx"
  <2>. DEFINE b == [k \in 0 .. Passed |-> k]
  <2>1. Tiled(Passed, b) /\ Passed <= HeldFragments
    BY <1>3 DEF IInv, ReceiveInv
  <2>2. b \in [0 .. Passed -> 0 .. HeldFragments]
    BY <1>1, <2>1
  <2>. HIDE DEF b
  <2>. QED  BY <2>1, <2>2
<1>. QED  BY <1>2, <1>3 DEF IInv, TypeOK

(* Set returns the packets passed and their fragments. *)
LEMMA SetReturns == IInv /\ Set => Returned
<1>. SUFFICES ASSUME IInv, Set PROVE Returned
  OBVIOUS
<1>. DEFINE m == Passed
            fb == fragmentRing.begin
<1>1. /\ TypeOK /\ AdvanceInv /\ advancing /\ m \in Nat /\ HeldFragments \in 0 .. FragmentSlots - 1
      /\ FragmentSlots \in Nat \ {0} /\ fb \in 0 .. FragmentSlots - 1
  BY HeldTypes, SlotTypes DEF IInv, Set
<1>2. PICK before \in [0 .. m -> 0 .. HeldFragments] : Tiled(m, before)
  BY <1>1, PassedTiled
<1>. DEFINE b == before[m]
<1>. HIDE DEF m
<1>3. \A k \in 0 .. m : before[k] \in 0 .. HeldFragments /\ before[k] \in 0 .. FragmentSlots - 1
  BY <1>1, <1>2
<1>4. b \in 0 .. FragmentSlots - 1
  BY <1>1, <1>3
<1>. HIDE DEF b
<1>5. FragmentBegin = FragmentAfter(fb, b)
  BY <1>1, <1>2, <1>3, FragmentBeginTiled DEF m, b
<1>6. packetRing'.begin = pi.index /\ fragmentRing'.begin = FragmentAfter(fb, b)
      /\ packet' = packet
  BY <1>1, <1>5 DEF Set, TypeOK, Ring
<1>7. FragmentsIn(fb, fragmentRing'.begin) = Run(fb, b)
  <2>1. FragmentCount(fb, FragmentAfter(fb, b)) = b
    BY <1>1, <1>4, DistanceOfSlot, ModelIndices
  <2>. QED  BY <1>6, <2>1, Visited
<1>8. PacketsIn(packetRing.begin, packetRing'.begin) = Slots(m)
  BY <1>6, Visited DEF m, Passed
<1>9. AllFragments(Slots(m)) = Run(fb, b)
  BY <1>1, <1>2, <1>3, TiledRun DEF b
<1>10. ASSUME NEW k \in DOMAIN Slots(m) PROVE ~packet'[Slots(m)[k]].ignore
  <2>1. k \in 1 .. m /\ Slots(m)[k] = PacketAfter(packetRing.begin, k - 1)
    BY DEF Slots
  <2>2. k - 1 \in 0 .. m - 1
    BY <1>1, <2>1
  <2>. QED  BY <1>2, <1>6, <2>1, <2>2 DEF Tiled
<1>. QED  BY <1>7, <1>8, <1>9, <1>10 DEF Returned

(* A cancel returns everything, ignored. *)
LEMMA CancelReturns == IInv /\ Cancel => Returned
<1>. SUFFICES ASSUME IInv, Cancel PROVE Returned
  OBVIOUS
<1>. DEFINE h == HeldPackets
            pb == packetRing.begin
            fb == fragmentRing.begin
<1>1. /\ TypeOK /\ h \in 0 .. PacketSlots - 1 /\ HeldFragments \in Nat /\ PacketSlots \in Nat \ {0}
      /\ pb \in 0 .. PacketSlots - 1
  BY HeldTypes, SlotTypes DEF IInv
<1>2. /\ packetRing'.begin = packetRing.end /\ packetRing'.end = packetRing.end
      /\ fragmentRing'.begin = fragmentRing.end /\ fragmentRing'.end = fragmentRing.end
  BY <1>1 DEF Cancel, TypeOK, Ring
<1>3. PacketsIn(pb, packetRing'.begin) = Slots(h)
  BY <1>2, Visited DEF HeldPackets
<1>4. FragmentsIn(fb, fragmentRing'.begin) = Run(fb, HeldFragments)
  BY <1>2, Visited DEF HeldFragments
<1>. HIDE DEF h, pb
<1>5. ASSUME NEW k \in 1 .. h PROVE packet'[Slots(h)[k]].ignore
  <2>. DEFINE i == PacketAfter(pb, k - 1)
  <2>1. k - 1 \in 0 .. PacketSlots - 1 /\ k - 1 < h
    BY <1>1
  <2>2. i \in 0 .. PacketSlots - 1 /\ PacketCount(pb, i) = k - 1
    BY <1>1, <2>1, DistanceOfSlot, ModelIndices
  <2>3. Slots(h)[k] = i
    BY DEF Slots, pb
  <2>. HIDE DEF i
  <2>4. Held(packetRing, i, PacketSlots)
    BY <2>1, <2>2 DEF Held, HeldPackets, PacketCount, h, pb
  <2>5. packet \in [0 .. PacketSlots - 1 -> PacketType]
    BY <1>1 DEF TypeOK, PacketType
  <2>6. packet'[i] = [packet[i] EXCEPT !.ignore = TRUE]
    BY <2>2, <2>4, <2>5 DEF Cancel
  <2>7. packet[i] \in PacketType
    BY <2>2, <2>5
  <2>8. [packet[i] EXCEPT !.ignore = TRUE].ignore
    BY <2>7 DEF PacketType
  <2>. QED  BY <2>3, <2>6, <2>8
<1>6. DOMAIN Slots(h) = 1 .. h
  BY DEF Slots
<1>7. CASE h = 0
  <2>1. HeldFragments = 0
    <3>1. CASE queue = "tx"
      <4>1. PICK before : before[HeldPackets] = HeldFragments /\ before[0] = 0
        BY <3>1 DEF IInv, TransmitInv, Tiled
      <4>. QED  BY <1>7, <4>1 DEF h
    <3>2. CASE queue = "rx"
      <4>1. HeldPackets >= HeldFragments
        BY <3>2 DEF IInv, ReceiveInv
      <4>. QED  BY <1>1, <1>7, <4>1 DEF h
    <3>. QED  BY <1>1, <3>1, <3>2 DEF TypeOK
  <2>2. AllFragments(Slots(h)) = Run(fb, HeldFragments)
    BY <1>1, <1>7, <2>1, NothingReturned
  <2>3. ~\E k \in DOMAIN Slots(h) : packet'[Slots(h)[k]].ignore
    BY <1>6, <1>7
  <2>. QED  BY <1>3, <1>4, <2>2, <2>3 DEF Returned, pb
<1>8. CASE h # 0
  <2>1. 1 \in 1 .. h
    BY <1>1, <1>8
  <2>. QED  BY <1>2, <1>3, <1>5, <1>6, <2>1 DEF Returned, pb
<1>. QED  BY <1>7, <1>8

(* Where neither begin index moves, nothing is returned. *)
LEMMA NoneReturned ==
  ASSUME IInv, packetRing'.begin = packetRing.begin, fragmentRing'.begin = fragmentRing.begin
  PROVE  Returned
<1>1. /\ TypeOK /\ packetRing.begin \in 0 .. PacketSlots - 1
      /\ fragmentRing.begin \in 0 .. FragmentSlots - 1
      /\ PacketSlots \in Nat \ {0} /\ FragmentSlots \in Nat \ {0}
  BY SlotTypes DEF IInv
<1>2. /\ PacketCount(packetRing.begin, packetRing.begin) = 0
      /\ FragmentCount(fragmentRing.begin, fragmentRing.begin) = 0
  BY <1>1, AfterNone, ModelIndices
<1>3. /\ PacketsIn(packetRing.begin, packetRing'.begin) = Slots(0)
      /\ FragmentsIn(fragmentRing.begin, fragmentRing'.begin) = Run(fragmentRing.begin, 0)
  BY <1>2, Visited
<1>4. AllFragments(Slots(0)) = Run(fragmentRing.begin, 0)
  BY <1>1, NothingReturned
<1>5. ~\E k \in DOMAIN Slots(0) : packet'[Slots(0)[k]].ignore
  BY DEF Slots
<1>. QED  BY <1>3, <1>4, <1>5 DEF Returned

(* Packets go back to the system with their own fragments, in the same order,*)
(* or, cancelled, all at once (ReturnedTogether).                          *)
THEOREM PacketsWithFragments == Spec => ReturnedTogether
<1>1. IInv /\ [Next]_vars => [Returned]_vars
  <2>. SUFFICES ASSUME IInv, Next PROVE Returned
    OBVIOUS
  <2>1. CASE Set
    BY <2>1, SetReturns
  <2>2. CASE Cancel
    BY <2>2, CancelReturns
  <2>3. CASE Post \/ AdvanceBegin \/ NextToTransmit \/ \E size \in Lengths : FillPacket(size)
    <3>1. packetRing'.begin = packetRing.begin /\ fragmentRing'.begin = fragmentRing.begin
      BY <2>3 DEF Post, PostTransmit, PostReceive, AdvanceBegin, NextToTransmit, FillPacket,
                  IInv, TypeOK, Ring
    <3>. QED  BY <3>1, NoneReturned
  <2>. QED  BY <2>1, <2>2, <2>3 DEF Next
<1>. QED  BY <1>1, Invariance, PTL DEF Spec, ReturnedTogether

-----------------------------------------------------------------------------
(* The copy of a packet's data.                                            *)

Bytes == (0 .. FragmentSlots - 1) \X Nat
Smaller(a, b) == IF a < b THEN a ELSE b

(* The share of a fragment of l bytes, with s already copied. *)
ShareOf(room, s, l) == IF room - Len(s) < l THEN room - Len(s) ELSE l

(* The bytes of a fragment. *)
LEMMA BytesSeq ==
  ASSUME NEW f \in 0 .. FragmentSlots - 1, NEW n \in Nat
  PROVE  /\ BytesOf(f, n) \in Seq(Bytes) /\ Len(BytesOf(f, n)) = n
         /\ \A b \in 1 .. n : BytesOf(f, n)[b] = <<f, b>>
<1>1. \A b \in 1 .. n : <<f, b>> \in Bytes
  BY DEF Bytes
<1>. HIDE DEF Bytes
<1>. QED  BY <1>1 DEF BytesOf

(* As much of d as there is room for, and what follows behind it. *)
Copied(d, room) == SubSeq(d, 1, Smaller(room, Len(d)))
Behind(d, e) == d \o e

(* The first m elements of a sequence. *)
LEMMA Beginning ==
  ASSUME NEW S, NEW s \in Seq(S), NEW m \in 0 .. Len(s)
  PROVE  /\ SubSeq(s, 1, m) \in Seq(S) /\ Len(SubSeq(s, 1, m)) = m
         /\ \A i \in 1 .. m : SubSeq(s, 1, m)[i] = s[i]
<1>1. \A i \in 1 .. m : s[i] \in S
  BY ElementOfSeq
<1>2. m \in Int /\ 1 \in Int /\ m - 1 + 1 = m /\ (IF 1 <= m THEN m - 1 + 1 ELSE 0) = m
      /\ \A i \in 1 .. m : 1 + i - 1 = i
  OBVIOUS
<1>3. /\ SubSeq(s, 1, m) \in Seq(S)
      /\ Len(SubSeq(s, 1, m)) = IF 1 <= m THEN m - 1 + 1 ELSE 0
      /\ \A i \in 1 .. m - 1 + 1 : SubSeq(s, 1, m)[i] = s[1 + i - 1]
  BY <1>1, <1>2, SubSeqProperties
<1>. QED  BY <1>2, <1>3

(* A beginning of room bytes, taken one fragment further: what is left of  *)
(* the room bounds the fragment's share.                                   *)
LEMMA Share ==
  ASSUME NEW d \in Seq(Bytes), NEW f \in 0 .. FragmentSlots - 1, NEW l \in Nat, NEW room \in Nat
  PROVE  Behind(Copied(d, room), BytesOf(f, ShareOf(room, Copied(d, room), l)))
           = Copied(Behind(d, BytesOf(f, l)), room)
<1>. DEFINE s == Copied(d, room)
            e == d \o BytesOf(f, l)
            n == Smaller(room, Len(d))
            m == ShareOf(room, s, l)
            t == BytesOf(f, l)
            u == BytesOf(f, m)
            w == Smaller(room, Len(e))
<1>1. Len(d) \in Nat /\ n \in 0 .. Len(d)
  BY DEF Smaller
<1>2. s \in Seq(Bytes) /\ Len(s) = n /\ \A i \in 1 .. n : s[i] = d[i]
  BY <1>1, Beginning DEF Copied
<1>3. t \in Seq(Bytes) /\ Len(t) = l /\ \A i \in 1 .. l : t[i] = <<f, i>>
  BY BytesSeq
<1>4. m \in Nat /\ m <= l
  <2>1. n \in Nat /\ n <= room
    BY <1>1 DEF Smaller
  <2>. HIDE DEF n
  <2>. QED  BY <1>2, <2>1 DEF ShareOf
<1>5. u \in Seq(Bytes) /\ Len(u) = m /\ \A i \in 1 .. m : u[i] = <<f, i>>
  <2>. HIDE DEF m
  <2>. QED  BY <1>4, BytesSeq
<1>. HIDE DEF s, e, n, m, t, u
<1>6. /\ e \in Seq(Bytes) /\ Len(e) = Len(d) + l
      /\ \A i \in 1 .. Len(d) + l : e[i] = IF i <= Len(d) THEN d[i] ELSE t[i - Len(d)]
  BY <1>3, ConcatProperties DEF e, t
<1>7. w \in 0 .. Len(e) /\ w = n + m
  <2>1. n = (IF room < Len(d) THEN room ELSE Len(d))
        /\ m = IF room - n < l THEN room - n ELSE l
    BY <1>2 DEF n, m, Smaller, ShareOf
  <2>2. w = IF room < Len(d) + l THEN room ELSE Len(d) + l
    BY <1>6 DEF Smaller
  <2>. DEFINE z == Len(d)
  <2>3. z \in Nat
    BY <1>1
  <2>. HIDE DEF w, z
  <2>4. w = n + m
    <3>1. CASE room < z
      <4>1. n = room /\ room < z + l
        BY <2>1, <2>3, <3>1 DEF z
      <4>2. m = 0
        BY <2>1, <4>1
      <4>. QED  BY <2>2, <2>3, <4>1, <4>2 DEF z
    <3>2. CASE ~(room < z)
      <4>1. n = z
        BY <2>1, <3>2 DEF z
      <4>2. m = IF room - z < l THEN room - z ELSE l
        BY <2>1, <4>1
      <4>3. w = IF room < z + l THEN room ELSE z + l
        BY <2>2 DEF z
      <4>. QED  BY <2>3, <3>2, <4>1, <4>2, <4>3
    <3>. QED  BY <3>1, <3>2
  <2>5. w \in 0 .. z + l
    BY <2>2, <2>3 DEF z
  <2>. QED  BY <1>6, <2>4, <2>5 DEF z
<1>. HIDE DEF w
<1>8. /\ SubSeq(e, 1, w) \in Seq(Bytes) /\ Len(SubSeq(e, 1, w)) = w
      /\ \A i \in 1 .. w : SubSeq(e, 1, w)[i] = e[i]
  BY <1>6, <1>7, Beginning
<1>9. /\ s \o u \in Seq(Bytes) /\ Len(s \o u) = n + m
      /\ \A i \in 1 .. n + m : (s \o u)[i] = IF i <= n THEN s[i] ELSE u[i - n]
  BY <1>2, <1>5, ConcatProperties
<1>10. ASSUME NEW i \in 1 .. n + m PROVE (s \o u)[i] = e[i]
  <2>1. i \in 1 .. Len(d) + l
    BY <1>1, <1>4
  <2>2. CASE i <= n
    <3>1. i \in 1 .. n /\ i <= Len(d)
      BY <1>1, <2>2
    <3>. QED  BY <1>2, <1>6, <1>9, <2>1, <2>2, <3>1
  <2>3. CASE ~(i <= n)
    <3>1. i - n \in 1 .. m /\ m > 0
      BY <1>1, <1>4, <2>3
    <3>2. n = Len(d)
      <4>1. n = (IF room < Len(d) THEN room ELSE Len(d))
            /\ m = IF room - n < l THEN room - n ELSE l
        BY <1>2 DEF n, m, Smaller, ShareOf
      <4>. QED  BY <1>1, <3>1, <4>1
    <3>3. i - n \in 1 .. l
      BY <1>4, <3>1
    <3>4. u[i - n] = <<f, i - n>> /\ t[i - n] = <<f, i - n>>
      BY <1>3, <1>5, <3>1, <3>3
    <3>. QED  BY <1>6, <1>9, <2>1, <2>3, <3>2, <3>4
  <2>. QED  BY <2>2, <2>3
<1>11. s \o u = SubSeq(e, 1, w)
  BY <1>7, <1>8, <1>9, <1>10, SeqEqual
<1>. QED  BY <1>11 DEF s, e, u, m, w, Copied, Behind

(* The data of a packet, fragment by fragment. *)
LEMMA PacketData ==
  ASSUME TypeOK, NEW f \in 0 .. FragmentSlots - 1, NEW c \in 0 .. FragmentSlots - 1
  PROVE  \E d \in [0 .. c -> Seq(Bytes)] :
           /\ d[0] = <<>>
           /\ \A k \in 1 .. c :
                /\ Run(f, c)[k] \in 0 .. FragmentSlots - 1 /\ length[Run(f, c)[k]] \in Nat
                /\ d[k] = d[k - 1] \o BytesOf(Run(f, c)[k], length[Run(f, c)[k]])
           /\ FlattenSeq([k \in 1 .. c |-> BytesOf(Run(f, c)[k], length[Run(f, c)[k]])]) = d[c]
<1>. DEFINE fs == Run(f, c)
            seqs == [k \in 1 .. c |-> BytesOf(fs[k], length[fs[k]])]
<1>1. c \in Nat
  OBVIOUS
<1>2. ASSUME NEW k \in 1 .. c
      PROVE  fs[k] \in 0 .. FragmentSlots - 1 /\ length[fs[k]] \in Nat
  <2>1. fs \in Seq(0 .. FragmentSlots - 1) /\ Len(fs) = c
    BY RunSeq
  <2>2. fs[k] \in 0 .. FragmentSlots - 1
    BY <2>1, ElementOfSeq
  <2>3. \A i \in 0 .. FragmentSlots - 1 : length[i] \in Nat
    <3>1. Lengths \cup {0} \subseteq Nat
      BY SlotTypes
    <3>2. \A i \in 0 .. FragmentSlots - 1 : length[i] \in Lengths \cup {0}
      BY DEF TypeOK
    <3>. QED  BY <3>1, <3>2
  <2>. QED  BY <2>2, <2>3
<1>. HIDE DEF fs
<1>3. \A k \in 1 .. c : seqs[k] \in Seq(Bytes)
  BY <1>2, BytesSeq
<1>4. seqs \in Seq(Seq(Bytes)) /\ Len(seqs) = c
  <2>1. seqs = [k \in 1 .. c |-> seqs[k]]
    OBVIOUS
  <2>. HIDE DEF seqs
  <2>. QED  BY <1>1, <1>3, <2>1
<1>5. \A k \in 1 .. c : seqs[k] = BytesOf(fs[k], length[fs[k]])
  OBVIOUS
<1>. HIDE DEF seqs
<1>6. PICK d \in [0 .. c -> Seq(Bytes)] :
        /\ d[0] = <<>> /\ \A k \in 1 .. c : d[k] = d[k - 1] \o seqs[k]
        /\ FlattenSeq(seqs) = d[c]
  BY <1>4, FlattenByPrefix
<1>7. \A k \in 1 .. c : d[k] = d[k - 1] \o BytesOf(fs[k], length[fs[k]])
  BY <1>5, <1>6
<1>. QED  BY <1>2, <1>6, <1>7 DEF fs, seqs

(* NcmGetPacketDataLength adds up the lengths of the fragments. *)
LEMMA DataLength ==
  ASSUME TypeOK, NEW p, p.fragment \in 0 .. FragmentSlots - 1, p.count \in 0 .. FragmentSlots - 1,
         NEW d \in [0 .. p.count -> Seq(Bytes)], d[0] = <<>>,
         NEW fs, fs = Run(p.fragment, p.count),
         \A k \in 1 .. p.count :
           /\ fs[k] \in 0 .. FragmentSlots - 1 /\ length[fs[k]] \in Nat
           /\ d[k] = d[k - 1] \o BytesOf(fs[k], length[fs[k]])
  PROVE  PacketDataLength(p) = Len(d[p.count])
<1>. DEFINE c == p.count
            Eq(h) == h = [k \in 0 .. Len(fs) |->
                            IF k = 0 THEN 0 ELSE h[k - 1] + length[fs[k]]]
            sum == CHOOSE h : Eq(h)
            lens == [k \in 0 .. c |-> Len(d[k])]
<1>1. c \in Nat /\ Len(fs) = c
  BY RunSeq
<1>2. FragmentsOf(p) = fs
  BY FragmentsOfPacket
<1>. HIDE DEF c
<1>3. PacketDataLength(p) = sum[c]
  BY <1>1, <1>2 DEF PacketDataLength
<1>4. ASSUME NEW k \in 1 .. c
      PROVE  lens[k] = lens[k - 1] + length[fs[k]]
  <2>1. k \in 0 .. c /\ k - 1 \in 0 .. c
    BY <1>1
  <2>2. d[k - 1] \in Seq(Bytes)
    BY <2>1 DEF c
  <2>3. BytesOf(fs[k], length[fs[k]]) \in Seq(Bytes)
        /\ Len(BytesOf(fs[k], length[fs[k]])) = length[fs[k]]
    BY BytesSeq DEF c
  <2>4. d[k] = d[k - 1] \o BytesOf(fs[k], length[fs[k]])
    BY DEF c
  <2>. DEFINE added == BytesOf(fs[k], length[fs[k]])
  <2>. HIDE DEF added
  <2>5. \A s, t \in Seq(Bytes) : Len(s \o t) = Len(s) + Len(t)
    BY ConcatProperties
  <2>6. Len(d[k - 1] \o added) = Len(d[k - 1]) + Len(added)
    BY <2>2, <2>3, <2>5 DEF added
  <2>7. Len(d[k]) = Len(d[k - 1]) + length[fs[k]]
    BY <2>3, <2>4, <2>6 DEF added
  <2>. QED  BY <2>1, <2>7
<1>5. lens[0] = 0
  BY <1>1
<1>6. lens = [k \in 0 .. c |-> lens[k]] /\ lens[c] = Len(d[c])
  BY <1>1
<1>. HIDE DEF lens
<1>7. Eq(lens)
  <2>1. \A k \in 0 .. c : lens[k] = IF k = 0 THEN 0 ELSE lens[k - 1] + length[fs[k]]
    <3>1. \A k \in 0 .. c : k # 0 => k \in 1 .. c
      BY <1>1
    <3>. QED  BY <1>4, <1>5, <3>1
  <2>. QED  BY <1>1, <1>6, <2>1
<1>8. Eq(sum)
  BY <1>7
<1>. HIDE DEF sum
<1>9. sum[0] = 0 /\ \A k \in 1 .. c : sum[k] = sum[k - 1] + length[fs[k]]
  <2>1. 0 \in 0 .. c /\ \A k \in 1 .. c : k \in 0 .. c /\ k # 0
    BY <1>1
  <2>. QED  BY <1>1, <1>8, <2>1
<1>. DEFINE T == {k \in 0 .. c : sum[k] = lens[k]}
<1>10. 0 \in T
  BY <1>1, <1>5, <1>9
<1>11. ASSUME NEW k \in 0 .. c - 1, k \in T
       PROVE  k + 1 \in T
  <2>1. k + 1 \in 1 .. c /\ k + 1 \in 0 .. c /\ (k + 1) - 1 = k
    BY <1>1
  <2>. QED  BY <1>4, <1>9, <1>11, <2>1
<1>. HIDE DEF T
<1>12. c \in T
  <2>1. c \in 0 .. c
    BY <1>1
  <2>. QED  BY <1>1, <1>10, <1>11, <2>1, Induction
<1>. QED  BY <1>3, <1>6, <1>12 DEF T, c

(* NcmCopyPacketDataToBuffer copies the beginning of the data. *)
LEMMA DataCopied ==
  ASSUME TypeOK, NEW p, p.fragment \in 0 .. FragmentSlots - 1, p.count \in 0 .. FragmentSlots - 1,
         NEW d \in [0 .. p.count -> Seq(Bytes)], d[0] = <<>>,
         NEW fs, fs = Run(p.fragment, p.count),
         \A k \in 1 .. p.count :
           /\ fs[k] \in 0 .. FragmentSlots - 1 /\ length[fs[k]] \in Nat
           /\ d[k] = d[k - 1] \o BytesOf(fs[k], length[fs[k]]),
         NEW room \in 0 .. Len(d[p.count])
  PROVE  CopyPacketData(p, room) = SubSeq(d[p.count], 1, room)
<1>. DEFINE c == p.count
            Grow(q, k) == q \o BytesOf(fs[k], IF room - Len(q) < length[fs[k]]
                                                THEN room - Len(q) ELSE length[fs[k]])
            Eq(h) == h = [k \in 0 .. Len(fs) |-> IF k = 0 THEN <<>> ELSE Grow(h[k - 1], k)]
            copy == CHOOSE h : Eq(h)
            first == [k \in 0 .. c |-> SubSeq(d[k], 1, Smaller(room, Len(d[k])))]
<1>1. c \in Nat /\ Len(fs) = c /\ room \in Nat
  BY RunSeq
<1>2. FragmentsOf(p) = fs
  BY FragmentsOfPacket
<1>. HIDE DEF c
<1>3. CopyPacketData(p, room) = copy[c]
  BY <1>1, <1>2 DEF CopyPacketData
<1>4. ASSUME NEW k \in 1 .. c
      PROVE  first[k] = Grow(first[k - 1], k)
  <2>1. k \in 0 .. c /\ k - 1 \in 0 .. c
    BY <1>1
  <2>2. d[k - 1] \in Seq(Bytes)
    BY <2>1 DEF c
  <2>3. /\ fs[k] \in 0 .. FragmentSlots - 1 /\ length[fs[k]] \in Nat
        /\ d[k] = d[k - 1] \o BytesOf(fs[k], length[fs[k]])
    BY DEF c
  <2>4. /\ first[k - 1] = SubSeq(d[k - 1], 1, Smaller(room, Len(d[k - 1])))
        /\ first[k] = SubSeq(d[k], 1, Smaller(room, Len(d[k])))
    BY <2>1
  <2>. HIDE DEF first
  <2>. DEFINE s == first[k - 1]
              e == d[k]
              d0 == d[k - 1]
              f == fs[k]
              l == length[fs[k]]
  <2>5. /\ d0 \in Seq(Bytes) /\ f \in 0 .. FragmentSlots - 1 /\ l \in Nat
        /\ e = Behind(d0, BytesOf(f, l)) /\ s = Copied(d0, room) /\ first[k] = Copied(e, room)
    BY <2>2, <2>3, <2>4 DEF Behind, Copied
  <2>6. first[k] = Behind(s, BytesOf(f, ShareOf(room, s, l)))
    <3>. HIDE DEF s, e, d0, f, l
    <3>1. Behind(Copied(d0, room), BytesOf(f, ShareOf(room, Copied(d0, room), l)))
            = Copied(Behind(d0, BytesOf(f, l)), room)
      BY <1>1, <2>5, Share
    <3>. QED  BY <2>5, <3>1
  <2>. QED  BY <2>6 DEF ShareOf, Behind
<1>5. first[0] = <<>>
  <2>1. first[0] = SubSeq(<<>>, 1, Smaller(room, 0))
    <3>1. 0 \in 0 .. c /\ Len(<<>>) = 0
      BY <1>1
    <3>2. first[0] = SubSeq(d[0], 1, Smaller(room, Len(d[0])))
      BY <3>1
    <3>. QED  BY <3>1, <3>2
  <2>2. Smaller(room, 0) = 0
    BY <1>1 DEF Smaller
  <2>. QED  BY <2>1, <2>2, SubSeqEmpty
<1>6. first = [k \in 0 .. c |-> first[k]] /\ first[c] = SubSeq(d[c], 1, room)
  <2>1. Smaller(room, Len(d[c])) = room
    <3>1. room <= Len(d[c]) /\ Len(d[c]) \in Nat
      BY <1>1 DEF c
    <3>. QED  BY <1>1, <3>1 DEF Smaller
  <2>2. c \in 0 .. c
    BY <1>1
  <2>3. first[c] = SubSeq(d[c], 1, Smaller(room, Len(d[c])))
    BY <2>2
  <2>4. first = [k \in 0 .. c |-> first[k]]
    OBVIOUS
  <2>. QED  BY <2>1, <2>3, <2>4
<1>. HIDE DEF first, Grow
<1>7. Eq(first)
  <2>1. \A k \in 0 .. c : first[k] =
          IF k = 0 THEN <<>> ELSE Grow(first[k - 1], k)
    <3>1. \A k \in 0 .. c : k # 0 => k \in 1 .. c
      BY <1>1
    <3>. QED  BY <1>4, <1>5, <3>1
  <2>. QED  BY <1>1, <1>6, <2>1
<1>8. Eq(copy)
  BY <1>7
<1>. HIDE DEF copy
<1>9. copy[0] = <<>> /\ \A k \in 1 .. c : copy[k] = Grow(copy[k - 1], k)
  <2>1. 0 \in 0 .. c /\ \A k \in 1 .. c : k \in 0 .. c /\ k # 0
    BY <1>1
  <2>. QED  BY <1>1, <1>8, <2>1
<1>. DEFINE T == {k \in 0 .. c : copy[k] = first[k]}
<1>10. 0 \in T
  BY <1>1, <1>5, <1>9
<1>11. ASSUME NEW k \in 0 .. c - 1, k \in T
       PROVE  k + 1 \in T
  <2>1. k + 1 \in 1 .. c /\ k + 1 \in 0 .. c /\ (k + 1) - 1 = k
    BY <1>1
  <2>2. copy[k] = first[k]
    BY <1>11
  <2>3. copy[k + 1] = first[k + 1]
    BY <1>4, <1>9, <2>1, <2>2
  <2>. QED  BY <2>1, <2>3
<1>. HIDE DEF T
<1>12. c \in T
  <2>1. c \in 0 .. c
    BY <1>1
  <2>. QED  BY <1>1, <1>10, <1>11, <2>1, Induction
<1>. QED  BY <1>3, <1>6, <1>12 DEF T, c

(* The copy is right of any packet whose fragment range lies in the ring. *)
LEMMA CopyTyped == TypeOK => CopyIsPrefix
<1>. SUFFICES ASSUME TypeOK PROVE CopyIsPrefix
  OBVIOUS
<1>. DEFINE p == packet[pi.index]
            c == p.count
            fs == Run(p.fragment, c)
            n == PacketDataLength(p)
            whole == CopyPacketData(p, n)
<1>1. p.fragment \in 0 .. FragmentSlots - 1 /\ c \in 0 .. FragmentSlots - 1
  BY SlotTypes, PacketTypes
<1>. HIDE DEF p
<1>2. PICK d \in [0 .. c -> Seq(Bytes)] :
        /\ d[0] = <<>>
        /\ \A k \in 1 .. c :
             /\ fs[k] \in 0 .. FragmentSlots - 1 /\ length[fs[k]] \in Nat
             /\ d[k] = d[k - 1] \o BytesOf(fs[k], length[fs[k]])
        /\ FlattenSeq([k \in 1 .. c |-> BytesOf(fs[k], length[fs[k]])]) = d[c]
  BY <1>1, PacketData
<1>3. n = Len(d[c])
  BY <1>1, <1>2, DataLength
<1>4. d[c] \in Seq(Bytes) /\ n \in 0 .. n
  <2>1. c \in 0 .. c
    BY <1>1
  <2>2. d[c] \in Seq(Bytes)
    BY <1>2, <2>1
  <2>. QED  BY <1>3, <2>2, LenProperties
<1>5. \A room \in 0 .. n : CopyPacketData(p, room) = SubSeq(d[c], 1, room)
  BY <1>1, <1>2, <1>3, DataCopied
<1>6. whole = d[c]
  <2>1. whole = SubSeq(d[c], 1, Len(d[c]))
    BY <1>3, <1>4, <1>5
  <2>. QED  BY <1>4, <2>1, SubSeqFull
<1>7. [k \in 1 .. c |-> FragmentAfter(p.fragment, k - 1)] = fs
  BY DEF Run
<1>. HIDE DEF n, fs
<1>8. /\ whole = FlattenSeq([k \in 1 .. c |-> BytesOf(fs[k], length[fs[k]])])
      /\ \A room \in 0 .. Len(whole) : CopyPacketData(p, room) = SubSeq(whole, 1, room)
  BY <1>2, <1>3, <1>5, <1>6
<1>. QED  BY <1>7, <1>8 DEF CopyIsPrefix, p, n

(* What is copied of a packet is the beginning of its data, whatever the room*)
(* and wherever its fragments wrap (CopyIsPrefix).                         *)
THEOREM DataInOrder == Spec => []CopyIsPrefix
BY CopyTyped, TypeCorrect, PTL
=============================================================================
