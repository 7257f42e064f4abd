------------------------------- MODULE Rings -------------------------------
(***************************************************************************)
(* The packet ring and the fragment ring of one queue, and how the drivers *)
(* walk and return them (inc/ncmringiterator.h). Indices wrap; the slots   *)
(* from BeginIndex up to EndIndex belong to the driver, one slot always    *)
(* stays free. A packet of the transmit queue comes with its fragments; on *)
(* the receive queue the driver gives each packet it fills one fragment.   *)
(*                                                                         *)
(* NetAdapterCx posts packets and calls Advance and Cancel one after the   *)
(* other. A fragment's bytes are known by its slot and their position.     *)
(***************************************************************************)
EXTENDS Integers, Sequences, SequencesExt

CONSTANTS
  PacketSlots,    \* elements of the packet ring
  FragmentSlots,  \* elements of the fragment ring
  Lengths         \* ValidLength of a fragment

ASSUME RingAssumption ==
  PacketSlots \in Nat \ {0} /\ FragmentSlots \in Nat \ {0} /\ Lengths \subseteq Nat

VARIABLES
  queue,       \* "tx" or "rx"
  packetRing,  \* BeginIndex and EndIndex
  fragmentRing,
  packet,      \* FragmentIndex, FragmentCount and Ignore of each packet slot
  length,      \* ValidLength of each fragment slot
  advancing,   \* the queue's Advance runs
  pi, fi       \* its iterators: m_Index and m_Last

vars == <<queue, packetRing, fragmentRing, packet, length, advancing, pi, fi>>

(* Mutant: the packet iterator forgets to wrap. *)
NextPacketUnmasked(i) == i + 1

(* NetRingIncrementIndex, NetRingAdvanceIndex and NetRingGetRangeCount.    *)
NextPacket(i) == (i + 1) % PacketSlots
PacketAfter(i, n) == (i + n) % PacketSlots
FragmentAfter(i, n) == (i + n) % FragmentSlots
PacketCount(from, to) == (to - from) % PacketSlots
FragmentCount(from, to) == (to - from) % FragmentSlots

(* The slots an iterator visits, in order. *)
PacketsIn(from, to) ==
  [k \in 1 .. PacketCount(from, to) |-> PacketAfter(from, k - 1)]
FragmentsIn(from, to) ==
  [k \in 1 .. FragmentCount(from, to) |-> FragmentAfter(from, k - 1)]

Empty == [fragment |-> 0, count |-> 0, ignore |-> FALSE]

Init ==
  /\ queue \in {"tx", "rx"}
  /\ packetRing = [begin |-> 0, end |-> 0] /\ fragmentRing = [begin |-> 0, end |-> 0]
  /\ packet = [i \in 0 .. PacketSlots - 1 |-> Empty]
  /\ length = [i \in 0 .. FragmentSlots - 1 |-> 0]
  /\ advancing = FALSE
  /\ pi = [index |-> 0, last |-> 0] /\ fi = [index |-> 0, last |-> 0]

-----------------------------------------------------------------------------
(* The iterators.                                                          *)

HasAny(it) == it.index # it.last

(* Mutant: the fragments of a packet end at the end of the ring. *)
GetFragmentIteratorNoWrap(p) ==
  [index |-> p.fragment,
   last |-> IF p.fragment + p.count < FragmentSlots THEN p.fragment + p.count ELSE 0]

(* GetFragmentIterator. *)
GetFragmentIterator(p) ==
  [index |-> p.fragment, last |-> FragmentAfter(p.fragment, p.count)]

(* The fragments of a packet, as its iterator finds them. *)
FragmentsOf(p) ==
  LET it == GetFragmentIterator(p) IN FragmentsIn(it.index, it.last)

(* NcmGetPacketDataLength. *)
PacketDataLength(p) ==
  LET fs == FragmentsOf(p)
      sum[k \in 0 .. Len(fs)] == IF k = 0 THEN 0 ELSE sum[k - 1] + length[fs[k]]
  IN sum[Len(fs)]

BytesOf(f, n) == [b \in 1 .. n |-> <<f, b>>]

(* NcmCopyPacketDataToBuffer into room bytes: what is left of the room     *)
(* bounds each fragment's share.                                           *)
CopyPacketData(p, room) ==
  LET fs == FragmentsOf(p)
      copy[k \in 0 .. Len(fs)] ==
        IF k = 0 THEN <<>>
        ELSE LET left == room - Len(copy[k - 1])
                 share == IF left < length[fs[k]] THEN left ELSE length[fs[k]]
             IN copy[k - 1] \o BytesOf(fs[k], share)
  IN copy[Len(fs)]

-----------------------------------------------------------------------------
(* NetAdapterCx.                                                           *)

Held(ring, i, slots) == (i - ring.begin) % slots < (ring.end - ring.begin) % slots

(* What it got back it forgets when it posts again. *)
Kept == [i \in DOMAIN packet |-> IF Held(packetRing, i, PacketSlots) THEN packet[i] ELSE Empty]
KeptLength ==
  [i \in DOMAIN length |-> IF Held(fragmentRing, i, FragmentSlots) THEN length[i] ELSE 0]

FreePackets == PacketSlots - 1 - PacketCount(packetRing.begin, packetRing.end)
FreeFragments == FragmentSlots - 1 - FragmentCount(fragmentRing.begin, fragmentRing.end)

(* A packet to transmit, with fragments of the lengths given. *)
PostTransmit(lengths) ==
  /\ queue = "tx" /\ ~advancing
  /\ FreePackets > 0 /\ FreeFragments >= Len(lengths)
  /\ packet' = [Kept EXCEPT ![packetRing.end] =
       [fragment |-> fragmentRing.end, count |-> Len(lengths), ignore |-> FALSE]]
  /\ length' = [i \in DOMAIN length |->
       LET k == FragmentCount(fragmentRing.end, i) + 1 IN
       IF k <= Len(lengths) THEN lengths[k] ELSE KeptLength[i]]
  /\ packetRing' = [packetRing EXCEPT !.end = NextPacket(@)]
  /\ fragmentRing' = [fragmentRing EXCEPT !.end = FragmentAfter(@, Len(lengths))]
  /\ UNCHANGED <<queue, advancing, pi, fi>>

(* Packets to fill, and a buffer each for as many of them at most. *)
PostReceive(packets, fragments) ==
  /\ queue = "rx" /\ ~advancing
  /\ packets + fragments > 0 /\ packets <= FreePackets /\ fragments <= FreeFragments
  /\ PacketCount(packetRing.begin, packetRing.end) + packets
       >= FragmentCount(fragmentRing.begin, fragmentRing.end) + fragments
  /\ packet' = Kept /\ length' = KeptLength
  /\ packetRing' = [packetRing EXCEPT !.end = PacketAfter(@, packets)]
  /\ fragmentRing' = [fragmentRing EXCEPT !.end = FragmentAfter(@, fragments)]
  /\ UNCHANGED <<queue, advancing, pi, fi>>

-----------------------------------------------------------------------------
(* The queues.                                                             *)

(* NcmGetAllPackets and NcmGetAllFragments: Advance works on what had been *)
(* posted when it began.                                                   *)
AdvanceBegin ==
  /\ ~advancing /\ advancing' = TRUE
  /\ pi' = [index |-> packetRing.begin, last |-> packetRing.end]
  /\ fi' = [index |-> fragmentRing.begin, last |-> fragmentRing.end]
  /\ UNCHANGED <<queue, packetRing, fragmentRing, packet, length>>

(* The transmit queue has copied, or dropped, a packet. *)
NextToTransmit ==
  /\ queue = "tx" /\ advancing /\ HasAny(pi)
  /\ pi' = [pi EXCEPT !.index = NextPacket(@)]
  /\ UNCHANGED <<queue, packetRing, fragmentRing, packet, length, advancing, fi>>

(* Mutant: the packet keeps its old fragment. *)
FillPacketKeepsFragment(size) ==
  /\ queue = "rx" /\ advancing /\ HasAny(fi)
  /\ length' = [length EXCEPT ![fi.index] = size]
  /\ packet' = [packet EXCEPT ![pi.index].count = 1]
  /\ pi' = [pi EXCEPT !.index = NextPacket(@)]
  /\ fi' = [fi EXCEPT !.index = FragmentAfter(@, 1)]
  /\ UNCHANGED <<queue, packetRing, fragmentRing, advancing>>

(* The receive queue has a frame and takes the next fragment for it. That  *)
(* there is a packet left, too, is not looked at.                          *)
FillPacket(size) ==
  /\ queue = "rx" /\ advancing /\ HasAny(fi)
  /\ length' = [length EXCEPT ![fi.index] = size]
  /\ packet' = [packet EXCEPT ![pi.index] = [@ EXCEPT !.fragment = fi.index, !.count = 1]]
  /\ pi' = [pi EXCEPT !.index = NextPacket(@)]
  /\ fi' = [fi EXCEPT !.index = FragmentAfter(@, 1)]
  /\ UNCHANGED <<queue, packetRing, fragmentRing, advancing>>

(* Mutant: the fragment ring is moved to the current packet's fragments.   *)
FragmentBeginCurrent == packet[pi.index].fragment

(* NcmPacketIterator::Set, the fragment ring: it begins after the last     *)
(* fragment of the last packet passed, if any was.                         *)
FragmentBegin ==
  LET passed == PacketCount(packetRing.begin, pi.index)
      lastPassed == packet[PacketAfter(packetRing.begin, passed - 1)]
  IN IF passed = 0 THEN fragmentRing.begin
     ELSE FragmentAfter(lastPassed.fragment, lastPassed.count)

(* Set. The transmit queue's Advance goes on while there are packets, the  *)
(* receive queue's ends.                                                   *)
Set ==
  /\ advancing
  /\ fragmentRing' = [fragmentRing EXCEPT !.begin = FragmentBegin]
  /\ packetRing' = [packetRing EXCEPT !.begin = pi.index]
  /\ advancing' = (queue = "tx" /\ HasAny(pi))
  /\ UNCHANGED <<queue, packet, length, pi, fi>>

(* NcmReturnAllPacketsAndFragments, on Cancel of either queue. *)
Cancel ==
  /\ ~advancing
  /\ packet' = [i \in DOMAIN packet |->
       IF Held(packetRing, i, PacketSlots) THEN [packet[i] EXCEPT !.ignore = TRUE] ELSE packet[i]]
  /\ packetRing' = [packetRing EXCEPT !.begin = packetRing.end]
  /\ fragmentRing' = [fragmentRing EXCEPT !.begin = fragmentRing.end]
  /\ UNCHANGED <<queue, length, advancing, pi, fi>>

Post ==
  \/ \E n \in 1 .. FragmentSlots - 1 : \E lengths \in [1 .. n -> Lengths] : PostTransmit(lengths)
  \/ \E packets \in 0 .. PacketSlots - 1, fragments \in 0 .. FragmentSlots - 1 :
       PostReceive(packets, fragments)

Next ==
  \/ Post \/ AdvanceBegin \/ NextToTransmit
  \/ \E size \in Lengths : FillPacket(size)
  \/ Set \/ Cancel

Spec == Init /\ [][Next]_vars

-----------------------------------------------------------------------------
(* Properties.                                                             *)

Ring(slots) == [begin : 0 .. slots - 1, end : 0 .. slots - 1]
Iterator(slots) == [index : 0 .. slots - 1, last : 0 .. slots - 1]

(* Every index is one of its ring. *)
TypeOK ==
  /\ queue \in {"tx", "rx"} /\ advancing \in BOOLEAN
  /\ packetRing \in Ring(PacketSlots) /\ fragmentRing \in Ring(FragmentSlots)
  /\ packet \in [0 .. PacketSlots - 1 ->
                   [fragment : 0 .. FragmentSlots - 1, count : 0 .. FragmentSlots - 1,
                    ignore : BOOLEAN]]
  /\ length \in [0 .. FragmentSlots - 1 -> Lengths \cup {0}]
  /\ pi \in Iterator(PacketSlots) /\ fi \in Iterator(FragmentSlots)

(* The fragments of a sequence of packets, one after the other. *)
AllFragments(slots) == FlattenSeq([k \in DOMAIN slots |-> FragmentsOf(packet[slots[k]])])

(* The two rings stay in step, wherever they wrap and however often        *)
(* Advance returns part of them: the transmit queue holds exactly the      *)
(* fragments of the packets it holds, in their order; the receive queue    *)
(* never has more fragments than packets to give them to, so that its      *)
(* Advance, which only looks for fragments, does not run out of packets.   *)
RingsAgree ==
  /\ queue = "tx" =>
       AllFragments(PacketsIn(packetRing.begin, packetRing.end))
         = FragmentsIn(fragmentRing.begin, fragmentRing.end)
  /\ queue = "rx" =>
       /\ PacketCount(packetRing.begin, packetRing.end)
            >= FragmentCount(fragmentRing.begin, fragmentRing.end)
       /\ advancing /\ HasAny(fi) => HasAny(pi)

(* A step that returns packets to the system returns their fragments with  *)
(* them and no others, in the same order; a cancel, which marks its        *)
(* packets as ignored, returns all fragments there are.                    *)
Returned ==
  LET packets == PacketsIn(packetRing.begin, packetRing'.begin)
      fragments == FragmentsIn(fragmentRing.begin, fragmentRing'.begin)
  IN IF \E k \in DOMAIN packets : packet'[packets[k]].ignore
       THEN /\ \A k \in DOMAIN packets : packet'[packets[k]].ignore
            /\ packetRing'.begin = packetRing'.end
            /\ fragmentRing'.begin = fragmentRing'.end
       ELSE fragments = AllFragments(packets)

ReturnedTogether == [][Returned]_vars

(* Whatever packet the transmit queue is at and however its fragments lie  *)
(* in the ring: the copy is the beginning of its data, as much as there is *)
(* room for, and its length is what NcmGetPacketDataLength announces.      *)
CopyIsPrefix ==
  queue = "tx" /\ advancing /\ HasAny(pi) =>
    LET p == packet[pi.index]
        whole == CopyPacketData(p, PacketDataLength(p))
        slots == [k \in 1 .. p.count |-> FragmentAfter(p.fragment, k - 1)]
    IN /\ whole = FlattenSeq([k \in 1 .. p.count |-> BytesOf(slots[k], length[slots[k]])])
       /\ \A room \in 0 .. Len(whole) : CopyPacketData(p, room) = SubSeq(whole, 1, room)

-----------------------------------------------------------------------------
(* The inductive invariant. *)

HeldPackets == PacketCount(packetRing.begin, packetRing.end)
HeldFragments == FragmentCount(fragmentRing.begin, fragmentRing.end)
Passed == PacketCount(packetRing.begin, pi.index)

(* The first n packets of the ring lie one behind the other in the         *)
(* fragment ring: before[k] fragments of them come before packet k.        *)
Tiled(n, before) ==
  /\ before[0] = 0
  /\ \A k \in 0 .. n - 1 :
       LET p == packet[PacketAfter(packetRing.begin, k)] IN
         /\ p.fragment = FragmentAfter(fragmentRing.begin, before[k])
         /\ before[k + 1] = before[k] + p.count
         /\ ~p.ignore

(* The transmit queue's packets take all of the fragments held. *)
TransmitInv ==
  queue = "tx" =>
    \E before \in [0 .. HeldPackets -> 0 .. HeldFragments] :
      Tiled(HeldPackets, before) /\ before[HeldPackets] = HeldFragments

(* The receive queue has a packet for every fragment, and has given a      *)
(* fragment each to the packets it passed.                                 *)
ReceiveInv ==
  queue = "rx" =>
    /\ HeldPackets >= HeldFragments
    /\ \A i \in 0 .. PacketSlots - 1 : ~packet[i].ignore \/ ~Held(packetRing, i, PacketSlots)
    /\ advancing =>
         /\ fi.last = fragmentRing.end
         /\ Passed = FragmentCount(fragmentRing.begin, fi.index) /\ Passed <= HeldFragments
         /\ Tiled(Passed, [k \in 0 .. Passed |-> k])

(* Advance is somewhere in the packets held. *)
AdvanceInv == advancing => pi.last = packetRing.end /\ Passed <= HeldPackets

IInv == TypeOK /\ TransmitInv /\ ReceiveInv /\ AdvanceInv

=============================================================================
