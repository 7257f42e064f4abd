----------------------------- MODULE Ntb_proofs -----------------------------
(***************************************************************************)
(* Machine-checked proofs about Ntb, for every size of header, table and   *)
(* entry, every alignment, buffer length and pointer width, and every list *)
(* of packets. The layout of the sender's block holds whatever the other   *)
(* end sends. What a receiver, function or host, makes of a block is       *)
(* proved for blocks that conform (PeersConform); the driver's own are     *)
(* proved to be chained, or too long for their pointers and then never     *)
(* accepted. That the host reads a block whole needs ReadFits besides.     *)
(***************************************************************************)
EXTENDS Ntb, TLAPS

(* The constants, one by one. *)
LEMMA Sizes ==
  /\ NthSize \in Nat /\ NthSize > 0 /\ NdpSize \in Nat /\ NdpSize > 0
  /\ DpeSize \in Nat /\ DpeSize > 0 /\ EthSize \in Nat
  /\ PtrLimit \in Nat /\ PtrLimit > 0 /\ BufferLength \in Nat
  /\ ReadLength \in Nat
BY NtbSizes, NtbReadLength

(* What the conversion to PTR_SIZE returns. *)
LEMMA PointerFacts ==
  ASSUME NEW n \in Nat
  PROVE  /\ Pointer(n) \in 0..PtrLimit /\ Pointer(n) <= n
         /\ n <= PtrLimit => Pointer(n) = n
         /\ n > PtrLimit => Pointer(n) <= n - (PtrLimit + 1)
<1>. DEFINE N == PtrLimit + 1
<1>1. N \in Nat \ {0}
  BY Sizes
<1>2. n % N \in 0..(N - 1) /\ n % N <= n /\ (n < N => n % N = n) /\ (n >= N => n % N <= n - N)
  BY <1>1
<1>. HIDE DEF N
<1>3. Pointer(n) = n % N
  BY DEF Pointer, N
<1>4. N = PtrLimit + 1 /\ PtrLimit \in Nat
  BY Sizes DEF N
<1>. QED  BY <1>2, <1>3, <1>4

(* The alignments the receiver asks for are positive, the remainder small. *)
LEMMA Alignments ==
  /\ NdpAlignment \in Nat \ {0} /\ NdpDivisor \in Nat \ {0}
  /\ NdpPayloadRemainder \in 0..(NdpDivisor - 1)
BY NtbAlignment

(* What ALIGN_UP_BY returns: the next number that the alignment divides.   *)
LEMMA AlignUpFacts ==
  ASSUME NEW n \in Nat, NEW a \in Nat \ {0}
  PROVE  /\ AlignUp(n, a) \in Nat /\ AlignUp(n, a) >= n
         /\ AlignUp(n, a) % a = 0
         /\ \A r \in 0..(a - 1) : (AlignUp(n, a) + r) % a = r
<1>1. AlignUp(n, a) \in Nat /\ AlignUp(n, a) >= n /\ AlignUp(n, a) % a = 0
  BY DEF AlignUp
<1>2. ASSUME NEW r \in 0..(a - 1) PROVE (AlignUp(n, a) + r) % a = r
  BY DEF AlignUp
<1>. QED  BY <1>1, <1>2

(* Where CopyNextDatagram puts a datagram: not before the buffer offset,   *)
(* with the payload at the remainder the receiver asked for.               *)
LEMMA DatagramOffsetFacts ==
  ASSUME offset \in Nat
  PROVE  /\ DatagramOffset \in Nat /\ DatagramOffset >= offset
         /\ (DatagramOffset + EthSize) % NdpDivisor = NdpPayloadRemainder
<1>. DEFINE a == AlignUp(offset + EthSize, NdpDivisor)
<1>1. EthSize \in Nat /\ NdpDivisor \in Nat \ {0} /\ NdpPayloadRemainder \in 0..(NdpDivisor - 1)
  BY Sizes, Alignments
<1>2. offset + EthSize \in Nat
  BY <1>1
<1>3. /\ a \in Nat /\ a >= offset + EthSize
      /\ (a + NdpPayloadRemainder) % NdpDivisor = NdpPayloadRemainder
  BY <1>1, <1>2, AlignUpFacts
<1>4. DatagramOffset = (a + NdpPayloadRemainder) - EthSize
  BY DEF DatagramOffset
<1>. HIDE DEF a
<1>5. DatagramOffset + EthSize = a + NdpPayloadRemainder
  BY <1>1, <1>3, <1>4
<1>. QED  BY <1>1, <1>3, <1>4, <1>5

(* A prefix is as long at most and the same at each of its places.         *)
LEMMA PrefixByPlace ==
  ASSUME NEW S, NEW s \in Seq(S), NEW t \in Seq(S)
  PROVE  IsPrefix(s, t) <=> Len(s) <= Len(t) /\ \A i \in 1..Len(s) : s[i] = t[i]
<1>1. SubSeq(s, 1, Len(s)) = s
  OBVIOUS
<1>2. ASSUME Len(s) <= Len(t)
      PROVE  /\ SubSeq(t, 1, Len(s)) \in Seq(S) /\ Len(SubSeq(t, 1, Len(s))) = Len(s)
             /\ \A i \in 1..Len(s) : SubSeq(t, 1, Len(s))[i] = t[i]
  BY <1>2
<1>. HIDE DEF IsPrefix
<1>3. ASSUME Len(s) <= Len(t), \A i \in 1..Len(s) : s[i] = t[i]
      PROVE  SubSeq(t, 1, Len(s)) = s
  BY <1>2, <1>3
<1>. QED  BY <1>1, <1>2, <1>3 DEF IsPrefix

(* A table has one first null entry, so a scan counts one number.          *)
LEMMA ScanUnique ==
  ASSUME NEW entries, NEW e1, NEW e2, NEW m \in Nat, NEW n \in Nat,
         Scanned(entries, e1, m), Scanned(entries, e2, n)
  PROVE  m = n
<1>1. \A k \in 1..m : ~IsNull(entries[k])
  BY DEF Scanned
<1>2. \A k \in 1..n : ~IsNull(entries[k])
  BY DEF Scanned
<1>3. IsNull(entries[m + 1]) /\ IsNull(entries[n + 1])
  BY DEF Scanned
<1>. QED  BY <1>1, <1>2, <1>3

(* What the scan counts is what ends at the first null entry.              *)
LEMMA EntryCountScanned ==
  ASSUME NEW ndps, NEW at, NEW end, ValidTable(ndps, at, end)
  PROVE  /\ EntryCount(ndps[at].entries, end) \in 0..Len(ndps[at].entries)
         /\ Scanned(ndps[at].entries, end, EntryCount(ndps[at].entries, end))
<1>1. \E n \in 0..Len(ndps[at].entries) : Scanned(ndps[at].entries, end, n)
  BY DEF ValidTable
<1>. QED  BY <1>1 DEF EntryCount

(* The receiver and the transfer leave the sender alone. *)
LEMMA ReceiverLeavesSender ==
  ASSUME Transfer \/ SendRefused \/ Parse
  PROVE  UNCHANGED senderVars /\ phase' \in {"parse", "done"}
<1>1. CASE Transfer
  <2>1. PICK n, left : Receive(n, left)
    BY <1>1 DEF Transfer
  <2>. QED  BY <2>1 DEF Receive
<1>2. CASE SendRefused
  BY <1>2 DEF SendRefused, senderVars
<1>3. CASE Parse
  BY <1>3 DEF Parse, NextInTable, PastTable, NextTable, NoMoreEntries, senderVars
<1>. QED  BY <1>1, <1>2, <1>3

(* Packing one more datagram keeps the layout. *)
LEMMA CopyStep ==
  ASSUME SenderIInv, NEW len \in Lengths, CopyNextDatagram(len)
  PROVE  SenderIInv'
<1>. DEFINE entry == [index |-> DatagramOffset, length |-> len]
<1>1. /\ phase' = "pack" /\ phase = "pack" /\ table' = Append(table, entry)
      /\ offset' = DatagramOffset + len /\ block' = block /\ receiver' = receiver
      /\ SizeNeeded(len) <= BufferLength
  BY DEF CopyNextDatagram
<1>2. /\ DatagramOffset \in Nat /\ DatagramOffset >= offset
      /\ (DatagramOffset + EthSize) % NdpDivisor = NdpPayloadRemainder
  BY DatagramOffsetFacts DEF SenderIInv, SenderType
<1>3. len \in Nat /\ len > 0
  BY NtbLengths
<1>4. table \in Seq(Entries) /\ entry \in Entries
  BY <1>2, <1>3 DEF SenderIInv, SenderType, Entries
<1>5. /\ Len(table') = Len(table) + 1 /\ Len(table) \in Nat
      /\ \A i \in 1..Len(table) : table'[i] = table[i] /\ table[i] \in Entries
      /\ table'[Len(table) + 1] = entry
      /\ table' \in Seq(Entries)
  BY <1>1, <1>4
<1>6. offset \in Nat /\ offset >= NthSize /\ offset' \in Nat /\ offset' >= offset
  BY <1>1, <1>2, <1>3 DEF SenderIInv, SenderType, SenderInv
<1>7. SenderType'
  BY <1>1, <1>5, <1>6 DEF SenderIInv, SenderType
<1>8. /\ AlignUp(offset', NdpAlignment) + NdpSize + Len(table') * DpeSize <= BufferLength
      /\ offset' <= BufferLength
  <2>. DEFINE place == AlignUp(offset', NdpAlignment)
              entries == Len(table') * DpeSize
  <2>1. place \in Nat /\ place >= offset'
    BY <1>6, Alignments, AlignUpFacts
  <2>2. entries \in Nat
    <3>1. Len(table') \in Nat
      BY <1>5
    <3>. QED  BY <3>1, Sizes
  <2>3. place + NdpSize + entries <= BufferLength
    BY <1>1, <1>5 DEF SizeNeeded
  <2>. HIDE DEF place, entries
  <2>4. offset' <= BufferLength
    BY <1>6, <2>1, <2>2, <2>3, Sizes
  <2>. QED  BY <2>3, <2>4 DEF place, entries
<1>9. SenderInv'
  BY <1>1, <1>3, <1>5, <1>6, <1>8, Sizes DEF SenderIInv, SenderInv
<1>10. ASSUME NEW i \in 1..Len(table')
      PROVE  /\ (table'[i].index + EthSize) % NdpDivisor = NdpPayloadRemainder
             /\ table'[i].index >= NthSize /\ table'[i].index + table'[i].length <= offset'
             /\ \A j \in 1..(i - 1) : table'[j].index + table'[j].length <= table'[i].index
  <2>1. CASE i \in 1..Len(table)
    <3>1. /\ (table[i].index + EthSize) % NdpDivisor = NdpPayloadRemainder
          /\ table[i].index >= NthSize /\ table[i].index + table[i].length <= offset
          /\ \A j \in 1..(i - 1) : table[j].index + table[j].length <= table[i].index
      BY <2>1 DEF SenderIInv, Layout
    <3>2. \A j \in 1..i : table'[j] = table[j]
      BY <1>5, <2>1
    <3>3. table[i].index \in Nat /\ table[i].length \in Nat
      BY <1>5, <2>1 DEF Entries
    <3>4. table'[i] = table[i]
      BY <2>1, <3>2
    <3>5. table'[i].index + table'[i].length <= offset'
      <4>1. table[i].index + table[i].length \in Nat
        BY <3>3
      <4>. QED  BY <1>6, <3>1, <3>4, <4>1
    <3>6. \A j \in 1..(i - 1) : table'[j].index + table'[j].length <= table'[i].index
      <4>1. \A j \in 1..(i - 1) : table'[j] = table[j]
        BY <3>2
      <4>. QED  BY <3>1, <3>4, <4>1
    <3>. QED  BY <3>1, <3>4, <3>5, <3>6
  <2>2. CASE i = Len(table) + 1
    <3>1. table'[i] = entry
      BY <1>5, <2>2
    <3>2. ASSUME NEW j \in 1..(i - 1)
          PROVE  table'[j].index + table'[j].length <= DatagramOffset
      <4>1. j \in 1..Len(table)
        BY <2>2, <1>5
      <4>2. /\ table'[j] = table[j] /\ table[j] \in Entries
            /\ table[j].index + table[j].length <= offset
        BY <1>5, <4>1 DEF SenderIInv, Layout
      <4>3. table[j].index + table[j].length \in Nat
        BY <4>2 DEF Entries
      <4>. QED  BY <1>2, <1>6, <4>2, <4>3
    <3>3. table'[i].index = DatagramOffset /\ table'[i].length = len
      BY <3>1
    <3>4. NthSize \in Nat /\ DatagramOffset >= NthSize
      BY <1>2, <1>6, Sizes
    <3>. QED  BY <1>1, <1>2, <1>3, <3>2, <3>3, <3>4
  <2>. QED  BY <1>5, <2>1, <2>2
<1>11. Layout'
  BY <1>1, <1>8, <1>10 DEF Layout
<1>. QED  BY <1>7, <1>9, <1>11 DEF SenderIInv

(* Every step keeps what the sender relies on, whatever another            *)
(* implementation sends.                                                   *)
LEMMA SenderStep ==
  ASSUME SenderIInv, [Next]_vars
  PROVE  SenderIInv'
<1>1. CASE PrepareToConstruct
  BY <1>1, Sizes DEF SenderIInv, SenderType, SenderInv, Layout, PrepareToConstruct
<1>2. CASE \E length \in Lengths : CopyNextDatagram(length)
  BY <1>2, CopyStep
<1>3. CASE SetNdp
  <2>. DEFINE at == AlignUp(offset, NdpAlignment)
  <2>1. /\ phase = "pack" /\ phase' = "built" /\ table # <<>>
        /\ UNCHANGED <<receiver, offset, table>> /\ DOMAIN block'.ndps = {at}
    BY <1>3 DEF SetNdp, senderVars
  <2>2. offset \in Nat /\ NdpAlignment \in Nat \ {0}
    BY Alignments DEF SenderIInv, SenderType
  <2>3. at >= offset /\ at % NdpAlignment = 0
    BY <2>2, AlignUpFacts
  <2>4. at + NdpSize + Len(table) * DpeSize <= BufferLength
    BY <2>1 DEF SenderIInv, SenderInv
  <2>. HIDE DEF at
  <2>5. Layout'
    BY <2>1, <2>3, <2>4 DEF SenderIInv, Layout
  <2>. QED  BY <2>1, <2>5 DEF SenderIInv, SenderType, SenderInv
<1>4. CASE PeerBuilds
  BY <1>4 DEF SenderIInv, SenderType, SenderInv, Layout, PeerBuilds, senderVars
<1>5. CASE Transfer \/ SendRefused \/ Parse
  <2>1. UNCHANGED <<receiver, offset, table>> /\ phase' \in {"parse", "done"}
    BY <1>5, ReceiverLeavesSender DEF senderVars
  <2>. QED  BY <2>1 DEF SenderIInv, SenderType, SenderInv, Layout
<1>6. CASE ReInitializeBuffer
  BY <1>6 DEF SenderIInv, SenderType, SenderInv, Layout, ReInitializeBuffer
<1>7. CASE UNCHANGED vars
  BY <1>7 DEF SenderIInv, SenderType, SenderInv, Layout, vars
<1>. QED  BY <1>1, <1>2, <1>3, <1>4, <1>5, <1>6, <1>7 DEF Next, Build

(* SetNdp and CopyNextDatagram: no two regions of a block share a byte,    *)
(* payloads and table are aligned, and all but the null entry lies in the  *)
(* buffer, however long that is and whatever other implementations send.   *)
THEOREM LayoutHolds == Spec => []Layout
<1>1. Init => SenderIInv
  BY DEF Init, SenderIInv, SenderType, SenderInv, Layout
<1>2. SenderIInv /\ [Next]_vars => SenderIInv'
  BY SenderStep
<1>3. SenderIInv => Layout
  BY DEF SenderIInv
<1>. QED  BY <1>1, <1>2, <1>3, PTL DEF Spec

(* What the parser knows of a table is made of numbers. *)
LEMMA TableTypes ==
  ASSUME NEW ndps, IsTables(ndps), NEW at \in DOMAIN ndps
  PROVE  /\ at \in Nat /\ ndps[at].next \in Nat /\ ndps[at].entries \in Seq(Entries)
         /\ Len(ndps[at].entries) \in Nat
         /\ ndps[at] = [next |-> ndps[at].next, entries |-> ndps[at].entries]
<1>1. at \in Nat /\ ndps[at] \in [next : Nat, entries : Seq(Entries)]
  BY DEF IsTables
<1>. QED  BY <1>1

(* So is what it knows of a block. *)
LEMMA BlockTypes ==
  ASSUME NEW b, IsBlock(b)
  PROVE  /\ b.length \in Nat /\ b.length <= PtrLimit /\ b.ndpIndex \in Nat /\ b.size \in Nat
         /\ b.listed \in Seq(Entries) /\ Len(b.listed) \in Nat /\ IsTables(b.ndps)
         /\ \A at \in DOMAIN b.ndps :
              /\ at \in Nat /\ b.ndps[at].next \in Nat /\ b.ndps[at].entries \in Seq(Entries)
              /\ Len(b.ndps[at].entries) \in Nat
<1>1. /\ b.length \in 0..PtrLimit /\ b.ndpIndex \in Nat /\ b.size \in Nat
      /\ b.listed \in Seq(Entries) /\ IsTables(b.ndps)
  BY DEF IsBlock
<1>2. \A at \in DOMAIN b.ndps :
        /\ at \in Nat /\ b.ndps[at].next \in Nat /\ b.ndps[at].entries \in Seq(Entries)
        /\ Len(b.ndps[at].entries) \in Nat
  BY <1>1, TableTypes
<1>. QED  BY <1>1, <1>2, Sizes

(* What the chain says of its k-th table. *)
LEMMA ChainFacts ==
  ASSUME NEW b, IsBlock(b), NEW m \in 1..(Len(b.listed) + 1),
         NEW at \in Offsets(b, m), NEW from \in Counts(b, m), Tables(b, m, at, from),
         NEW k \in 1..m
  PROVE  /\ m \in Nat /\ k \in Nat /\ k + 1 \in 1..(m + 1)
         /\ at[k] \in DOMAIN b.ndps /\ at[k] \in Nat
         /\ b.ndps[at[k]].entries \in Seq(Entries) /\ Len(b.ndps[at[k]].entries) \in Nat
         /\ Len(b.ndps[at[k]].entries) >= 2
         /\ b.ndps[at[k]].next = IF k = m THEN 0 ELSE at[k + 1]
         /\ from[k] \in 0..Len(b.listed) /\ from[k + 1] \in 0..Len(b.listed)
         /\ from[k + 1] - from[k] \in 0..(Len(b.ndps[at[k]].entries) - 1)
         /\ k > 1 => from[k + 1] - from[k] > 0
         /\ NthSize <= at[k]
         /\ at[k] + NdpSize + Len(b.ndps[at[k]].entries) * DpeSize <= b.size
         /\ Scanned(b.ndps[at[k]].entries, b.size, from[k + 1] - from[k])
         /\ \A i \in 1..(from[k + 1] - from[k]) :
              b.ndps[at[k]].entries[i] = b.listed[from[k] + i]
<1>1. m \in Nat /\ k \in Nat /\ k \in 1..(m + 1) /\ k + 1 \in 1..(m + 1)
  BY BlockTypes
<1>2. at[k] \in DOMAIN b.ndps
  BY DEF Offsets
<1>3. at[k] \in Nat /\ b.ndps[at[k]].entries \in Seq(Entries) /\ Len(b.ndps[at[k]].entries) \in Nat
  BY <1>2, BlockTypes
<1>4. from[k] \in 0..Len(b.listed) /\ from[k + 1] \in 0..Len(b.listed)
  BY <1>1 DEF Counts
<1>. QED  BY <1>1, <1>2, <1>3, <1>4 DEF Tables

(* Which table follows it. *)
LEMMA ChainNext ==
  ASSUME NEW b, IsBlock(b), NEW m \in 1..(Len(b.listed) + 1),
         NEW at \in Offsets(b, m), NEW from \in Counts(b, m), Tables(b, m, at, from),
         NEW k \in 1..m
  PROVE  k \in Nat /\ m \in Nat /\ b.ndps[at[k]].next = IF k = m THEN 0 ELSE at[k + 1]
<1>1. m \in Nat /\ k \in Nat
  BY BlockTypes
<1>. QED  BY <1>1 DEF Tables

(* Its entries are what is listed from there. *)
LEMMA ChainListed ==
  ASSUME NEW b, IsBlock(b), NEW m \in 1..(Len(b.listed) + 1),
         NEW at \in Offsets(b, m), NEW from \in Counts(b, m), Tables(b, m, at, from),
         NEW k \in 1..m, NEW i \in 1..(from[k + 1] - from[k])
  PROVE  b.ndps[at[k]].entries[i] = b.listed[from[k] + i]
BY DEF Tables

(* A scan that looks less far sees less to reject. *)
LEMMA ScanFurther ==
  ASSUME NEW entries \in Seq(Entries), NEW n \in Nat,
         NEW near \in Nat, NEW far \in Nat, near <= far, Scanned(entries, near, n)
  PROVE  Scanned(entries, far, n)
<1>1. n < Len(entries) /\ IsNull(entries[n + 1]) /\ Len(entries) \in Nat
  BY DEF Scanned
<1>2. ASSUME NEW i \in 1..n
      PROVE  ~IsNull(entries[i]) /\ InRange(entries[i], far)
  <2>1. ~IsNull(entries[i]) /\ InRange(entries[i], near)
    BY DEF Scanned
  <2>2. entries[i] \in Entries
    BY <1>1
  <2>3. entries[i].index \in Nat /\ entries[i].index + entries[i].length \in Nat
    BY <2>2 DEF Entries
  <2>. QED  BY <2>1, <2>3 DEF InRange
<1>. QED  BY <1>1, <1>2 DEF Scanned

(* A table that lies where it may fits the smallest there is. *)
LEMMA TableFits ==
  ASSUME NEW at \in Nat, NEW n \in Nat, NEW size \in Nat, NEW end \in Nat, n >= 2,
         NthSize <= at, at + NdpSize + n * DpeSize <= size, size <= end
  PROVE  TableOffset(at, end) /\ at + NdpSize + n * DpeSize <= end
<1>1. n * DpeSize \in Nat /\ n * DpeSize >= 2 * DpeSize
  BY Sizes
<1>2. at + MinTable <= end
  BY <1>1, Sizes DEF MinTable
<1>. HIDE DEF MinTable
<1>. QED  BY <1>1, <1>2, Sizes DEF TableOffset

(* If the whole block has arrived, every table of it is accepted. *)
LEMMA ChainValid ==
  ASSUME IsBlock(block), NEW m \in 1..(Len(block.listed) + 1),
         NEW at \in Offsets(block, m), NEW from \in Counts(block, m), Tables(block, m, at, from),
         NEW k \in 1..m, NEW end \in Nat, end >= block.size
  PROVE  ValidTable(block.ndps, at[k], end)
<1>. DEFINE t == block.ndps[at[k]]
            n == from[k + 1] - from[k]
<1>1. block.size \in Nat
  BY BlockTypes
<1>2. /\ at[k] \in DOMAIN block.ndps /\ at[k] \in Nat /\ t.entries \in Seq(Entries)
      /\ Len(t.entries) \in Nat /\ Len(t.entries) >= 2 /\ NthSize <= at[k]
      /\ at[k] + NdpSize + Len(t.entries) * DpeSize <= block.size
      /\ n \in 0..(Len(t.entries) - 1) /\ Scanned(t.entries, block.size, n)
      /\ t.next = IF k = m THEN 0 ELSE at[k + 1]
  BY ChainFacts
<1>3. TableOffset(at[k], end) /\ at[k] + NdpSize + Len(t.entries) * DpeSize <= end
  BY <1>1, <1>2, TableFits
<1>4. n \in 0..Len(t.entries) /\ Scanned(t.entries, end, n)
  <2>. HIDE DEF t, n
  <2>1. n \in Nat /\ n \in 0..Len(t.entries)
    BY <1>2
  <2>2. t.entries \in Seq(Entries) /\ Scanned(t.entries, block.size, n) /\ block.size <= end
    BY <1>2
  <2>. QED  BY <1>1, <2>1, <2>2, ScanFurther
<1>5. t.next = 0 \/ TableOffset(t.next, end)
  <2>1. CASE k = m
    BY <1>2, <2>1
  <2>2. CASE k # m
    <3>1. k + 1 \in 1..m
      BY <2>2, BlockTypes
    <3>2. /\ at[k + 1] \in Nat /\ Len(block.ndps[at[k + 1]].entries) \in Nat
          /\ Len(block.ndps[at[k + 1]].entries) >= 2 /\ NthSize <= at[k + 1]
          /\ at[k + 1] + NdpSize + Len(block.ndps[at[k + 1]].entries) * DpeSize <= block.size
      BY <3>1, ChainFacts
    <3>3. TableOffset(at[k + 1], end)
      BY <1>1, <3>2, TableFits
    <3>. QED  BY <1>2, <2>2, <3>3
  <2>. QED  BY <2>1, <2>2
<1>. QED  BY <1>2, <1>3, <1>4, <1>5 DEF ValidTable

(* What is found of one entry is an entry. *)
LEMMA EntryFoundType ==
  ASSUME IsBlock(block), NEW left, IsBlock(left), NEW n \in Nat,
         NEW at \in DOMAIN block.ndps, NEW i \in 1..Len(block.ndps[at].entries)
  PROVE  EntryFound(n, left, at, i) \in Entries
<1>1. block.ndps[at].entries[i] \in Entries
  BY BlockTypes
<1>2. ASSUME at \in DOMAIN left.ndps, i <= Len(left.ndps[at].entries)
      PROVE  left.ndps[at].entries[i] \in Entries
  <2>1. /\ left.ndps[at].entries \in Seq(Entries) /\ Len(left.ndps[at].entries) \in Nat
        /\ Len(block.ndps[at].entries) \in Nat
    BY <1>2, BlockTypes
  <2>. QED  BY <1>2, <2>1
<1>3. Null \in Entries
  BY DEF Null, Entries
<1>. QED  BY <1>1, <1>2, <1>3 DEF EntryFound

(* What is found in a read buffer is tables. *)
LEMMA FoundTables ==
  ASSUME IsBlock(block), NEW left, IsBlock(left), NEW n \in Nat
  PROVE  IsTables(TablesFound(n, left))
<1>. DEFINE found == TablesFound(n, left)
<1>1. ASSUME NEW at \in DOMAIN found
      PROVE  at \in Nat /\ found[at] \in [next : Nat, entries : Seq(Entries)]
  <2>1. CASE at >= n /\ at \in DOMAIN left.ndps
    <3>1. found[at] = left.ndps[at]
      BY <2>1 DEF TablesFound
    <3>. QED  BY <2>1, <3>1, BlockTypes, TableTypes
  <2>2. CASE at \in DOMAIN block.ndps /\ at + NdpSize <= n
    <3>1. at \in Nat /\ block.ndps[at].next \in Nat /\ Len(block.ndps[at].entries) \in Nat
      BY <2>2, BlockTypes
    <3>. DEFINE es == [i \in 1..Len(block.ndps[at].entries) |-> EntryFound(n, left, at, i)]
    <3>2. at < n
      BY <2>2, <3>1, Sizes
    <3>3. found[at] = [next |-> block.ndps[at].next, entries |-> es]
      BY <2>2, <3>1, <3>2 DEF TablesFound
    <3>4. es \in Seq(Entries)
      BY <2>2, <3>1, EntryFoundType
    <3>. HIDE DEF es
    <3>. QED  BY <3>1, <3>3, <3>4
  <2>. QED  BY <2>1, <2>2 DEF TablesFound
<1>2. found = [at \in DOMAIN found |-> found[at]]
  BY DEF TablesFound
<1>. HIDE DEF found
<1>3. IsTables(found)
  BY <1>1, <1>2 DEF IsTables
<1>. QED  BY <1>3 DEF found

(* What SeenInv says of the tables found where n bytes have arrived. *)
Shows(found, n) ==
  /\ \A at \in DOMAIN block.ndps :
       at + NdpSize + Len(block.ndps[at].entries) * DpeSize <= n =>
         at \in DOMAIN found /\ found[at] = block.ndps[at]
  /\ \A at \in DOMAIN found :
       at < n => at \in DOMAIN block.ndps /\ Len(found[at].entries) = Len(block.ndps[at].entries)

(* TablesFound shows the tables of the block that have arrived. *)
LEMMA FoundShows ==
  ASSUME IsBlock(block), NEW left, IsBlock(left), NEW n \in Nat
  PROVE  Shows(TablesFound(n, left), n)
<1>. DEFINE found == TablesFound(n, left)
<1>1. ASSUME NEW at \in DOMAIN block.ndps, at + NdpSize <= n
      PROVE  /\ at \in DOMAIN found /\ at < n
             /\ found[at] = [next |-> block.ndps[at].next,
                             entries |-> [i \in 1..Len(block.ndps[at].entries) |->
                                            EntryFound(n, left, at, i)]]
  <2>1. at \in Nat
    BY BlockTypes
  <2>2. at < n
    BY <1>1, <2>1, Sizes
  <2>. QED  BY <1>1, <2>1, <2>2 DEF TablesFound
<1>2. ASSUME NEW at \in DOMAIN block.ndps,
             at + NdpSize + Len(block.ndps[at].entries) * DpeSize <= n
      PROVE  at \in DOMAIN found /\ found[at] = block.ndps[at]
  <2>. DEFINE es == block.ndps[at].entries
              len == Len(es)
  <2>1. /\ at \in Nat /\ es \in Seq(Entries) /\ len \in Nat
        /\ block.ndps[at] = [next |-> block.ndps[at].next, entries |-> es]
    BY BlockTypes, TableTypes
  <2>2. es = [i \in 1..len |-> es[i]]
    BY <2>1
  <2>3. \A i \in 1..len : at + NdpSize + i * DpeSize <= n
    <3>1. ASSUME NEW i \in 1..len PROVE i * DpeSize <= len * DpeSize /\ i * DpeSize \in Nat
      BY <2>1, Sizes
    <3>2. at + NdpSize + len * DpeSize <= n /\ len * DpeSize \in Nat
      BY <1>2, <2>1, Sizes
    <3>. QED  BY <2>1, <3>1, <3>2, Sizes
  <2>4. at + NdpSize <= n
    <3>1. len * DpeSize \in Nat
      BY <2>1, Sizes
    <3>. QED  BY <1>2, <2>1, <3>1, Sizes
  <2>5. [i \in 1..len |-> EntryFound(n, left, at, i)] = [i \in 1..len |-> es[i]]
    BY <2>3 DEF EntryFound
  <2>6. /\ at \in DOMAIN found
        /\ found[at] = [next |-> block.ndps[at].next,
                        entries |-> [i \in 1..len |-> EntryFound(n, left, at, i)]]
    BY <1>1, <2>4
  <2>. HIDE DEF es, len, found
  <2>. QED  BY <2>1, <2>2, <2>5, <2>6
<1>3. ASSUME NEW at \in DOMAIN found, at < n
      PROVE  at \in DOMAIN block.ndps /\ Len(found[at].entries) = Len(block.ndps[at].entries)
  <2>1. at \in Nat
    BY FoundTables, TableTypes
  <2>2. at \in DOMAIN block.ndps /\ at + NdpSize <= n
    BY <1>3, <2>1 DEF TablesFound
  <2>. DEFINE len == Len(block.ndps[at].entries)
              es == [i \in 1..len |-> EntryFound(n, left, at, i)]
  <2>3. len \in Nat
    BY <2>2, BlockTypes
  <2>4. found[at] = [next |-> block.ndps[at].next, entries |-> es]
    BY <1>1, <2>2
  <2>5. \A i \in 1..len : EntryFound(n, left, at, i) \in Entries
    BY <2>2, EntryFoundType
  <2>. HIDE DEF len
  <2>6. Len(es) = len
    <3>1. es \in Seq(Entries) /\ DOMAIN es = 1..len
      BY <2>3, <2>5
    <3>. HIDE DEF es
    <3>. QED  BY <2>3, <3>1
  <2>. HIDE DEF es, found
  <2>. QED  BY <2>2, <2>4, <2>6 DEF len
<1>. QED  BY <1>2, <1>3 DEF Shows

(* A table is as valid as the same table elsewhere. *)
LEMMA SameTable ==
  ASSUME NEW a, NEW b, NEW at, NEW end, at \in DOMAIN a, at \in DOMAIN b, a[at] = b[at]
  PROVE  ValidTable(a, at, end) <=> ValidTable(b, at, end)
BY DEF ValidTable

(* A table that is accepted and lies in what has arrived is the block's.   *)
LEMMA AcceptedIsBlocks ==
  ASSUME IsBlock(block), NEW found, IsTables(found), NEW n \in Nat, Shows(found, n),
         NEW at, NEW end \in Nat, end <= n, ValidTable(found, at, end)
  PROVE  /\ at \in DOMAIN block.ndps /\ found[at] = block.ndps[at]
         /\ at + NdpSize + Len(block.ndps[at].entries) * DpeSize <= end
<1>. DEFINE len == Len(found[at].entries)
<1>1. at \in DOMAIN found /\ at + NdpSize + len * DpeSize <= end
  BY DEF ValidTable
<1>2. at \in Nat /\ len \in Nat
  BY <1>1, TableTypes
<1>3. len * DpeSize \in Nat
  BY <1>2, Sizes
<1>. HIDE DEF len
<1>4. at < n /\ at + NdpSize + len * DpeSize <= n
  <2>. DEFINE x == len * DpeSize
  <2>1. x \in Nat /\ at + NdpSize + x <= end
    BY <1>1, <1>3
  <2>. HIDE DEF x
  <2>2. at < n /\ at + NdpSize + x <= n
    BY <1>2, <2>1, Sizes
  <2>. QED  BY <2>2 DEF x
<1>5. at \in DOMAIN block.ndps /\ len = Len(block.ndps[at].entries)
  BY <1>1, <1>4 DEF Shows, len
<1>. QED  BY <1>1, <1>4, <1>5 DEF Shows

(* Every table of a chain is found where the whole block has arrived.      *)
LEMMA WholeShows ==
  ASSUME IsBlock(block), NEW m \in 1..(Len(block.listed) + 1),
         NEW at \in Offsets(block, m), NEW from \in Counts(block, m), Tables(block, m, at, from),
         NEW k \in 1..m, NEW found, NEW n \in Nat, Shows(found, n), block.size <= n
  PROVE  /\ at[k] \in DOMAIN block.ndps /\ at[k] \in DOMAIN found
         /\ found[at[k]] = block.ndps[at[k]]
<1>. DEFINE es == block.ndps[at[k]].entries
            y == Len(es) * DpeSize
<1>1. /\ at[k] \in DOMAIN block.ndps /\ Len(es) \in Nat
      /\ at[k] \in Nat /\ at[k] + NdpSize + y <= block.size
  BY ChainFacts
<1>2. y \in Nat /\ NdpSize \in Nat /\ block.size \in Nat
  BY <1>1, BlockTypes, Sizes
<1>. HIDE DEF y
<1>3. at[k] + NdpSize + y <= n
  BY <1>1, <1>2
<1>. QED  BY <1>1, <1>3 DEF Shows, y

(* A table of the chain that a receiver accepts, where it may trust what   *)
(* it reads, is the one its sender means, and is counted so.               *)
LEMMA TrustedTable ==
  ASSUME IsBlock(block), NEW m \in 1..(Len(block.listed) + 1),
         NEW at \in Offsets(block, m), NEW from \in Counts(block, m), Tables(block, m, at, from),
         NEW k \in 1..m, NEW found, IsTables(found), NEW n \in Nat, Shows(found, n),
         NEW end \in Nat, end <= n \/ block.size <= n, ValidTable(found, at[k], end)
  PROVE  /\ at[k] \in DOMAIN found /\ found[at[k]] = block.ndps[at[k]]
         /\ EntryCount(found[at[k]].entries, end) = from[k + 1] - from[k]
         /\ Scanned(found[at[k]].entries, n, from[k + 1] - from[k])
<1>. DEFINE c == from[k + 1] - from[k]
            es == block.ndps[at[k]].entries
<1>1. /\ at[k] \in DOMAIN block.ndps /\ es \in Seq(Entries) /\ Len(es) \in Nat
      /\ c \in 0..(Len(es) - 1) /\ Scanned(es, block.size, c)
      /\ at[k] \in Nat /\ at[k] + NdpSize + Len(es) * DpeSize <= block.size
  BY ChainFacts
<1>2. c \in Nat /\ block.size \in Nat
  BY <1>1, BlockTypes
<1>3. at[k] \in DOMAIN found /\ found[at[k]] = block.ndps[at[k]]
  <2>1. CASE end <= n
    BY <2>1, AcceptedIsBlocks DEF ValidTable
  <2>2. CASE block.size <= n
    BY <2>2, WholeShows
  <2>. QED  BY <2>1, <2>2
<1>4. /\ EntryCount(es, end) \in 0..Len(es) /\ Scanned(es, end, EntryCount(es, end))
  BY <1>3, EntryCountScanned
<1>. HIDE DEF c, es
<1>5. EntryCount(es, end) = c
  <2>1. EntryCount(es, end) \in Nat
    BY <1>1, <1>4
  <2>. QED  BY <1>1, <1>2, <1>4, <2>1, ScanUnique
<1>6. Scanned(es, n, c)
  <2>1. CASE end <= n
    BY <1>1, <1>2, <1>4, <1>5, <2>1, ScanFurther
  <2>2. CASE block.size <= n
    BY <1>1, <1>2, <2>2, ScanFurther
  <2>. QED  BY <2>1, <2>2
<1>. QED  BY <1>3, <1>5, <1>6 DEF c, es

(* The block that SetNdp closes: if PTR_SIZE can tell its bytes apart, it  *)
(* is chained, with one table that lists what was packed and lies behind   *)
(* it.                                                                     *)
LEMMA OwnBlock ==
  ASSUME SenderIInv, SetNdp
  PROVE  /\ IsBlock(block') /\ block'.length = Pointer(block'.size)
         /\ block'.size <= PtrLimit + 1 => Chained(block')
         /\ \A at \in DOMAIN block'.ndps :
              at + NdpSize + Len(block'.ndps[at].entries) * DpeSize = block'.size
<1>. DEFINE place == AlignUp(offset, NdpAlignment)
            size == place + NdpSize + (Len(table) + 1) * DpeSize
            told == [i \in 1..Len(table) |-> [index |-> Pointer(table[i].index),
                                              length |-> Pointer(table[i].length)]]
            entries == Append(told, Null)
            b == [length |-> Pointer(size), ndpIndex |-> Pointer(place),
                  ndps |-> [i \in {place} |-> [next |-> 0, entries |-> entries]],
                  size |-> size, listed |-> table]
<1>1. block' = b /\ phase = "pack" /\ table # <<>>
  BY DEF SetNdp
<1>2. /\ table \in Seq(Entries) /\ offset \in Nat /\ offset >= NthSize
      /\ Len(table) \in Nat /\ Len(table) > 0
  BY <1>1 DEF SenderIInv, SenderType, SenderInv
<1>3. place \in Nat /\ place >= offset
  BY <1>2, Alignments, AlignUpFacts
<1>. HIDE DEF place
<1>4. (Len(table) + 1) * DpeSize \in Nat
  BY <1>2, Sizes
<1>5. size \in Nat /\ size > place
  BY <1>3, <1>4, Sizes
<1>6. Null \in Entries
  BY DEF Null, Entries
<1>7. \A i \in 1..Len(table) :
        table[i] \in Entries /\ table[i].index \in Nat /\ table[i].length \in Nat
  <2>1. \A i \in 1..Len(table) : table[i] \in Entries
    BY <1>2
  <2>. QED  BY <2>1 DEF Entries
<1>8. told \in Seq(Entries) /\ Len(told) = Len(table)
  <2>1. \A i \in 1..Len(table) : told[i] \in Entries
    BY <1>7, PointerFacts DEF Entries
  <2>2. told \in Seq(Entries) /\ DOMAIN told = 1..Len(table)
    BY <1>2, <2>1
  <2>. HIDE DEF told
  <2>. QED  BY <1>2, <2>2
<1>. HIDE DEF told
<1>9. /\ entries \in Seq(Entries) /\ Len(entries) = Len(table) + 1
      /\ entries[Len(table) + 1] = Null
      /\ \A i \in 1..Len(table) : entries[i] = told[i]
  BY <1>2, <1>6, <1>8
<1>. HIDE DEF size, entries
<1>10. Pointer(size) \in 0..PtrLimit /\ Pointer(place) \in Nat
  BY <1>3, <1>5, PointerFacts
<1>11. IsTables(b.ndps) /\ DOMAIN b.ndps = {place} /\ b.ndps[place].entries = entries
  BY <1>3, <1>9 DEF IsTables
<1>12. IsBlock(b)
  BY <1>2, <1>5, <1>10, <1>11 DEF IsBlock
<1>13. place + NdpSize + Len(entries) * DpeSize = size
  BY <1>9 DEF size
<1>14. ASSUME size <= PtrLimit + 1 PROVE Chained(b)
  <2>1. ASSUME NEW i \in 1..Len(table)
        PROVE  /\ ~IsNull(table[i]) /\ InRange(table[i], size)
               /\ entries[i] = table[i]
    <3>. DEFINE x == table[i].index
                y == table[i].length
    <3>1. x \in Nat /\ y \in Nat
      BY <1>7
    <3>2. x >= NthSize /\ x + y <= offset /\ y > 0
      BY DEF SenderIInv, Layout, SenderInv
    <3>3. entries[i] = [index |-> Pointer(x), length |-> Pointer(y)] /\ table[i] \in Entries
      BY <1>7, <1>9 DEF told
    <3>. HIDE DEF x, y
    <3>4. x + y <= size /\ x <= size /\ x > 0 /\ x <= PtrLimit /\ y <= PtrLimit
      BY <1>2, <1>3, <1>5, <1>14, <3>1, <3>2, Sizes
    <3>5. Pointer(x) = x /\ Pointer(y) = y
      BY <3>1, <3>4, PointerFacts
    <3>6. entries[i] = table[i]
      BY <3>3, <3>5 DEF x, y, Entries
    <3>. QED  BY <3>2, <3>4, <3>6, Sizes DEF IsNull, InRange, x, y
  <2>2. Scanned(entries, size, Len(table))
    <3>1. IsNull(entries[Len(table) + 1])
      BY <1>9 DEF IsNull, Null
    <3>. QED  BY <1>2, <1>9, <2>1, <3>1 DEF Scanned
  <2>3. Pointer(place) = place
    BY <1>3, <1>5, <1>14, PointerFacts, Sizes
  <2>. DEFINE at == [k \in 1..1 |-> place]
              from == [k \in 1..(1 + 1) |-> IF k = 1 THEN 0 ELSE Len(table)]
  <2>4. 1 \in 1..(Len(b.listed) + 1)
    BY <1>2
  <2>5. at \in Offsets(b, 1) /\ from \in Counts(b, 1)
    BY <1>2 DEF Offsets, Counts
  <2>6. at[1] = place /\ from[1] = 0 /\ from[1 + 1] = Len(table)
    OBVIOUS
  <2>. HIDE DEF at, from
  <2>7. b.ndps[place] = [next |-> 0, entries |-> entries]
    OBVIOUS
  <2>8. place + NdpSize + Len(entries) * DpeSize <= size
    BY <1>5, <1>13
  <2>9. Tables(b, 1, at, from)
    <3>1. Len(table) - 0 = Len(table) /\ Len(table) \in 0..(Len(entries) - 1) /\ Len(entries) >= 2
          /\ NthSize <= place
      BY <1>2, <1>3, <1>9, Sizes
    <3>2. \A i \in 1..Len(table) : entries[i] = b.listed[0 + i]
      BY <1>2, <2>1
    <3>3. b.ndpIndex = place /\ b.size = size /\ Len(b.listed) = Len(table)
      BY <2>3
    <3>. HIDE DEF b
    <3>. QED  BY <2>2, <2>6, <2>7, <2>8, <3>1, <3>2, <3>3, SMTT(20) DEF Tables
  <2>. QED  BY <2>4, <2>5, <2>9 DEF Chained
<1>15. /\ b.length = Pointer(b.size) /\ b.size = size
       /\ \A at \in DOMAIN b.ndps : at + NdpSize + Len(b.ndps[at].entries) * DpeSize = b.size
  BY <1>11, <1>13
<1>. HIDE DEF b
<1>. QED  BY <1>1, <1>12, <1>14, <1>15

(* A block that is chained is longer than its header. *)
LEMMA ChainedSize ==
  ASSUME NEW b, IsBlock(b), Chained(b)
  PROVE  b.size >= NthSize /\ b.size > 0 /\ b.ndpIndex \in DOMAIN b.ndps
<1>1. PICK m \in 1..(Len(b.listed) + 1) :
         \E at \in Offsets(b, m), from \in Counts(b, m) : Tables(b, m, at, from)
  BY DEF Chained
<1>2. PICK at \in Offsets(b, m), from \in Counts(b, m) : Tables(b, m, at, from)
  BY <1>1
<1>3. 1 \in 1..m
  BY BlockTypes
<1>4. /\ at[1] \in Nat /\ at[1] \in DOMAIN b.ndps /\ NthSize <= at[1]
      /\ Len(b.ndps[at[1]].entries) \in Nat
      /\ at[1] + NdpSize + Len(b.ndps[at[1]].entries) * DpeSize <= b.size
  BY <1>2, <1>3, ChainFacts
<1>. DEFINE x == Len(b.ndps[at[1]].entries) * DpeSize
<1>5. x \in Nat /\ b.size \in Nat /\ at[1] + NdpSize + x <= b.size
  <2>1. x \in Nat
    BY <1>4, Sizes
  <2>2. b.size \in Nat
    BY BlockTypes
  <2>. QED  BY <1>4, <2>1, <2>2
<1>. HIDE DEF x
<1>6. b.size >= at[1]
  BY <1>4, <1>5, Sizes
<1>7. b.size >= NthSize /\ b.size > 0
  BY <1>4, <1>5, <1>6, Sizes
<1>. QED  BY <1>2, <1>4, <1>7 DEF Tables

(* What PrepareToParse takes for the end of a block whose header it reads. *)
Limit(n) == IF block.length > 0 THEN block.length ELSE Pointer(SizeGiven(n))

(* How much of a block can arrive. *)
Arrives(n) ==
  /\ n \in Nat /\ n <= TransferLength + 1
  /\ receiver = "host" => n <= TransferLength /\ n <= ReadLength

(* A block that arrives whole is chained, is not rejected for its length,  *)
(* and ends where the parser takes it to end, or before that.              *)
LEMMA WholeFacts ==
  ASSUME IInv, phase = "built", Sendable, NEW n, Arrives(n), n >= block.size
  PROVE  /\ Chained(block) /\ n >= NthSize
         /\ SizeGiven(n) >= NthSize /\ block.length <= SizeGiven(n)
         /\ ReadFits => Limit(n) >= block.size
<1>1. IsBlock(block) /\ receiver \in {"function", "host"}
  BY DEF IInv, TypeOK, SenderType
<1>2. block.length \in Nat /\ block.length <= PtrLimit /\ block.size \in Nat /\ n \in Nat
  BY <1>1, BlockTypes DEF Arrives
<1>3. SizeGiven(n) \in Nat /\ SizeGiven(n) >= n
  BY <1>1, <1>2, Sizes DEF SizeGiven, Arrives
<1>4. /\ block.length = block.size \/ (block.length = 0 /\ block.size < PtrLimit)
      /\ block.size <= PtrLimit + 1 /\ n <= block.size + 1
  <2>1. CASE table # <<>>
    <3>1. TransferLength = block.length /\ block.length = Pointer(block.size) /\ block.length > 0
      BY <1>2, <2>1 DEF Sendable, TransferLength, IInv, BlockInv
    <3>2. n <= block.length + 1
      BY <3>1 DEF Arrives
    <3>3. CASE block.size <= PtrLimit
      BY <1>2, <3>1, <3>2, <3>3, PointerFacts, Sizes
    <3>4. CASE block.size > PtrLimit
      <4>1. block.length <= block.size - (PtrLimit + 1)
        BY <1>2, <3>1, <3>4, PointerFacts
      <4>. QED  BY <1>2, <3>2, <4>1, Sizes
    <3>. QED  BY <1>2, <3>3, <3>4, Sizes
  <2>2. CASE table = <<>>
    BY <1>2, <2>2, Sizes DEF TransferLength, Arrives, IInv, BlockInv
  <2>. QED  BY <2>1, <2>2
<1>5. Chained(block)
  BY <1>4 DEF IInv, BlockInv
<1>6. block.size >= NthSize /\ block.size > 0
  BY <1>1, <1>5, ChainedSize
<1>7. n >= NthSize /\ SizeGiven(n) >= NthSize /\ block.length <= SizeGiven(n)
  BY <1>2, <1>3, <1>4, <1>6, Sizes
<1>8. ASSUME ReadFits PROVE Limit(n) >= block.size
  <2>1. CASE block.length = block.size
    BY <1>2, <1>6, <2>1 DEF Limit
  <2>2. CASE block.length = 0 /\ block.size < PtrLimit
    <3>1. SizeGiven(n) <= PtrLimit
      BY <1>1, <1>2, <1>4, <1>8, <2>2, Sizes DEF SizeGiven, ReadFits
    <3>2. Limit(n) = SizeGiven(n)
      BY <1>3, <2>2, <3>1, PointerFacts DEF Limit
    <3>. QED  BY <1>2, <1>3, <3>2
  <2>. QED  BY <1>4, <2>1, <2>2
<1>. QED  BY <1>5, <1>7, <1>8

(* Nothing is a prefix of every list. *)
LEMMA EmptyPrefix == ASSUME NEW t \in Seq(Entries) PROVE IsPrefix(<<>>, t)
<1>1. <<>> \in Seq(Entries) /\ Len(<<>>) = 0 /\ Len(t) \in Nat
  OBVIOUS
<1>2. \A i \in 1..Len(<<>>) : <<>>[i] = t[i]
  BY <1>1
<1>. DEFINE s == <<>>
<1>3. s \in Seq(Entries) /\ Len(s) <= Len(t) /\ \A i \in 1..Len(s) : s[i] = t[i]
  BY <1>1, <1>2
<1>. HIDE DEF s
<1>4. IsPrefix(s, t)
  BY <1>3, PrefixByPlace
<1>. QED  BY <1>4 DEF s

(* What a transfer brings. *)
LEMMA Arrival ==
  ASSUME IInv, Transfer
  PROVE  \E left \in Leftovers, n \in Nat : Sendable /\ Arrives(n) /\ Receive(n, left)
<1>1. IsBlock(block)
  BY DEF IInv, TypeOK
<1>2. TransferLength \in Nat
  BY <1>1, BlockTypes DEF TransferLength
<1>3. PICK left \in Leftovers :
        \/ receiver = "function" /\ \E n \in 0..(TransferLength + 1) : Receive(n, left)
        \/ receiver = "host" /\ \E n \in 0..TransferLength : n <= ReadLength /\ Receive(n, left)
  BY DEF Transfer
<1>4. PICK n \in Nat : Arrives(n) /\ Receive(n, left)
  <2>1. CASE receiver = "function"
    <3>1. PICK n \in 0..(TransferLength + 1) : Receive(n, left)
      BY <1>3, <2>1
    <3>. QED  BY <1>2, <2>1, <3>1 DEF Arrives
  <2>2. CASE receiver = "host"
    <3>1. PICK n \in 0..TransferLength : n <= ReadLength /\ Receive(n, left)
      BY <1>3, <2>2
    <3>. QED  BY <1>2, <2>2, <3>1 DEF Arrives
  <2>. QED  BY <1>3, <2>1, <2>2
<1>. QED  BY <1>4 DEF Transfer

(* Where a receiver may trust what it reads, the table that PrepareToParse *)
(* accepts is the first of the chain.                                      *)
LEMMA FirstTable ==
  ASSUME IInv, phase = "built", Sendable, NEW left \in Leftovers, NEW n \in Nat, Arrives(n),
         receiver = "function" \/ n >= block.size,
         SizeGiven(n) >= NthSize,
         NEW header, header = (IF n >= NthSize THEN block ELSE left),
         header.length <= SizeGiven(n),
         NEW end, end = (IF header.length > 0 THEN header.length ELSE Pointer(SizeGiven(n))),
         ValidTable(TablesFound(n, left), header.ndpIndex, end)
  PROVE  /\ header = block /\ Chained(block) /\ end \in Nat
         /\ end <= n \/ block.size <= n
         /\ ReadFits /\ n >= block.size => end >= block.size
<1>. DEFINE found == TablesFound(n, left)
<1>1. IsBlock(block) /\ IsBlock(left)
  BY NtbLeftovers DEF IInv, TypeOK
<1>2. IsTables(found) /\ Shows(found, n)
  BY <1>1, FoundTables, FoundShows
<1>3. header = block
  <2>1. CASE receiver = "function"
    BY <2>1 DEF SizeGiven
  <2>2. CASE n >= block.size
    BY <2>2, WholeFacts
  <2>. QED  BY <2>1, <2>2
<1>4. end = Limit(n)
  BY <1>3 DEF Limit
<1>5. block.length \in Nat /\ block.size \in Nat /\ SizeGiven(n) \in Nat
  BY <1>1, BlockTypes, Sizes DEF SizeGiven
<1>6. end \in Nat
  BY <1>3, <1>5, PointerFacts, Sizes
<1>7. CASE n >= block.size
  BY <1>3, <1>4, <1>6, <1>7, WholeFacts
<1>8. CASE ~(n >= block.size)
  <2>1. receiver = "function" /\ SizeGiven(n) = n
    BY <1>8 DEF SizeGiven
  <2>2. end <= n
    BY <1>3, <1>5, <2>1, PointerFacts
  <2>3. /\ header.ndpIndex \in DOMAIN block.ndps
        /\ header.ndpIndex + NdpSize + Len(block.ndps[header.ndpIndex].entries) * DpeSize <= end
    BY <1>1, <1>2, <1>6, <2>2, AcceptedIsBlocks
  <2>4. block.size <= PtrLimit + 1
    <3>1. ASSUME block.size > PtrLimit + 1 PROVE block.size <= end
      BY <2>3, <3>1 DEF IInv, BlockInv
    <3>. QED  BY <1>5, <1>6, <1>8, <2>2, <3>1, Sizes
  <2>5. Chained(block)
    BY <2>4 DEF IInv, BlockInv
  <2>. QED  BY <1>3, <1>6, <1>8, <2>2, <2>5
<1>. QED  BY <1>7, <1>8

(* PrepareToParse: what it accepts is the first table of the chain, with   *)
(* nothing given out yet, and it rejects no block that arrived whole.      *)
LEMMA TransferStep ==
  ASSUME IInv, SenderIInv', Transfer
  PROVE  IInv'
<1>1. PICK left \in Leftovers, n \in Nat : Sendable /\ Arrives(n) /\ Receive(n, left)
  BY Arrival
<1>. DEFINE header == IF n >= NthSize THEN block ELSE left
            found == TablesFound(n, left)
            end == IF header.length > 0 THEN header.length ELSE Pointer(SizeGiven(n))
            first == header.ndpIndex
            accepted == /\ SizeGiven(n) >= NthSize /\ header.length <= SizeGiven(n)
                        /\ ValidTable(found, first, end)
<1>2. /\ phase = "built" /\ received' = n /\ seen' = found /\ limit' = end
      /\ UNCHANGED <<receiver, offset, table, block, index, out>>
      /\ \/ accepted /\ phase' = "parse" /\ EnterTable(found, first, end)
         \/ ~accepted /\ phase' = "done" /\ UNCHANGED <<ndp, next, count>>
  BY <1>1, Zenon DEF Receive, senderVars
<1>3. /\ IsBlock(block) /\ IsBlock(left) /\ {limit, ndp, next} \subseteq Nat
      /\ index = 0 /\ count = 0 /\ out = <<>> /\ out \in Seq(Entries)
  BY <1>2, NtbLeftovers DEF IInv, TypeOK, FreshInv
<1>4. IsTables(found) /\ Shows(found, n)
  BY <1>3, FoundTables, FoundShows
<1>5. end \in Nat
  <2>1. SizeGiven(n) \in Nat /\ header.length \in Nat
    BY <1>3, BlockTypes, Sizes DEF SizeGiven
  <2>. HIDE DEF header
  <2>. QED  BY <2>1, PointerFacts, Sizes
<1>6. (Trusted' => receiver = "function" \/ n >= block.size) /\ (ReadFits' <=> ReadFits)
  BY <1>2 DEF Trusted, ReadFits
<1>7. OnlyListed'
  <2>1. block.listed \in Seq(Entries)
    BY <1>3, BlockTypes
  <2>2. Len(out) = 0 /\ IsPrefix(out, block.listed)
    BY <1>3, <2>1, EmptyPrefix
  <2>. QED  BY <1>2, <2>2 DEF OnlyListed
<1>8. CASE accepted
  <2>1. /\ phase' = "parse" /\ ndp' = first /\ next' = found[first].next
        /\ count' = EntryCount(found[first].entries, end) /\ first \in DOMAIN found
    BY <1>2, <1>8 DEF EnterTable, ValidTable
  <2>2. count' \in Nat /\ next' \in Nat /\ ndp' \in Nat
    <3>1. count' \in 0..Len(found[first].entries)
      BY <1>8, <2>1, EntryCountScanned
    <3>2. /\ first \in Nat /\ found[first].next \in Nat /\ Len(found[first].entries) \in Nat
      BY <1>4, <2>1, TableTypes
    <3>. QED  BY <2>1, <3>1, <3>2
  <2>. HIDE DEF header, found, end
  <2>3. TypeOK'
    BY <1>2, <1>3, <1>4, <1>5, <2>2 DEF TypeOK, SenderIInv
  <2>4. ASSUME Trusted'
        PROVE  /\ ReadFits /\ n >= block.size => end >= block.size
               /\ found[first] = block.ndps[first] /\ Scanned(found[first].entries, n, count')
               /\ InChain'
    <3>1. /\ header = block /\ Chained(block)
          /\ end <= n \/ block.size <= n
          /\ ReadFits /\ n >= block.size => end >= block.size
      BY <1>1, <1>2, <1>6, <1>8, <2>4, FirstTable DEF header, found, end
    <3>2. PICK m \in 1..(Len(block.listed) + 1) :
             \E at \in Offsets(block, m), from \in Counts(block, m) : Tables(block, m, at, from)
      BY <3>1 DEF Chained
    <3>3. PICK at \in Offsets(block, m), from \in Counts(block, m) : Tables(block, m, at, from)
      BY <3>2
    <3>4. 1 \in 1..m /\ at[1] = first /\ from[1] = 0
      BY <1>3, <3>1, <3>3, BlockTypes DEF Tables
    <3>5. /\ found[at[1]] = block.ndps[at[1]]
          /\ EntryCount(found[at[1]].entries, end) = from[1 + 1] - from[1]
          /\ Scanned(found[at[1]].entries, n, from[1 + 1] - from[1])
      BY <1>3, <1>4, <1>5, <1>8, <3>1, <3>3, <3>4, TrustedTable DEF found, end
    <3>6. Len(out') = from[1] + index'
      BY <1>2, <1>3, <3>4
    <3>7. count' = from[1 + 1] - from[1] /\ ndp' = at[1]
      BY <2>1, <3>4, <3>5
    <3>8. InChain'
      BY <1>2, <2>1, <3>3, <3>4, <3>6, <3>7 DEF InChain
    <3>. QED  BY <2>1, <3>1, <3>4, <3>5, <3>7, <3>8
  <2>5. ParseInv'
    <3>1. SeenInv'
      BY <1>2, <1>4 DEF SeenInv, Shows
    <3>2. receiver = "function" => end <= n
      <4>1. ASSUME receiver = "function" PROVE end <= n
        <5>1. header.length <= n /\ header.length \in Nat /\ SizeGiven(n) = n
          BY <1>3, <1>8, <4>1, BlockTypes DEF SizeGiven, header
        <5>. QED  BY <5>1, PointerFacts DEF end
      <4>. QED  BY <4>1
    <3>. QED  BY <1>2, <1>6, <2>1, <2>4, <3>1, <3>2 DEF ParseInv
  <2>6. BlockInv'
    BY <1>2, <2>1 DEF IInv, BlockInv
  <2>. QED  BY <1>7, <2>1, <2>3, <2>5, <2>6 DEF IInv, FreshInv, RoundTrip
<1>9. CASE ~accepted
  <2>1. phase' = "done" /\ UNCHANGED <<ndp, next, count>>
    BY <1>2, <1>9
  <2>2. ASSUME ReadFits PROVE ~(n >= block.size)
    <3>. SUFFICES ASSUME n >= block.size PROVE FALSE
      OBVIOUS
    <3>1. /\ Chained(block) /\ n >= NthSize
          /\ SizeGiven(n) >= NthSize /\ block.length <= SizeGiven(n)
          /\ Limit(n) >= block.size
      BY <1>1, <1>2, <2>2, WholeFacts
    <3>2. header = block /\ end = Limit(n)
      BY <3>1 DEF Limit
    <3>3. PICK m \in 1..(Len(block.listed) + 1) :
             \E at \in Offsets(block, m), from \in Counts(block, m) : Tables(block, m, at, from)
      BY <3>1 DEF Chained
    <3>4. PICK at \in Offsets(block, m), from \in Counts(block, m) : Tables(block, m, at, from)
      BY <3>3
    <3>. HIDE DEF header, found, end
    <3>5. 1 \in 1..m /\ at[1] = first
      BY <1>3, <3>2, <3>4, BlockTypes DEF Tables
    <3>6. ValidTable(block.ndps, at[1], end)
      BY <1>3, <1>5, <3>1, <3>2, <3>4, <3>5, ChainValid
    <3>7. at[1] \in DOMAIN found /\ at[1] \in DOMAIN block.ndps /\ found[at[1]] = block.ndps[at[1]]
      BY <1>3, <1>4, <3>4, <3>5, WholeShows
    <3>8. ValidTable(found, at[1], end)
      BY <3>6, <3>7, SameTable
    <3>. QED  BY <1>9, <3>1, <3>2, <3>5, <3>8
  <2>. HIDE DEF header, found, end
  <2>3. TypeOK'
    BY <1>2, <1>3, <1>4, <1>5, <2>1 DEF TypeOK, SenderIInv
  <2>. QED  BY <1>2, <1>6, <1>7, <2>1, <2>2, <2>3 DEF IInv, BlockInv, FreshInv, ParseInv, RoundTrip
<1>. QED  BY <1>8, <1>9

(* To give out the next datagram that is listed, which lies in what        *)
(* arrived, keeps what is given out a whole prefix of the list.            *)
LEMMA GiveNext ==
  ASSUME IInv, Trusted, NEW e \in Entries,
         Len(out) < Len(block.listed), e = block.listed[Len(out) + 1], InRange(e, received),
         out' = Append(out, e), UNCHANGED <<block, received>>
  PROVE  OnlyListed' /\ Len(out') = Len(out) + 1
<1>1. /\ block.listed \in Seq(Entries) /\ Len(block.listed) \in Nat
      /\ out \in Seq(Entries) /\ Len(out) \in Nat /\ received \in Nat
  BY BlockTypes DEF IInv, TypeOK
<1>2. e.index + e.length <= received
  BY DEF InRange
<1>3. /\ out' \in Seq(Entries) /\ Len(out') = Len(out) + 1
      /\ out'[Len(out) + 1] = e /\ \A i \in 1..Len(out) : out'[i] = out[i]
  BY <1>1
<1>4. Len(out) <= Len(block.listed) /\ \A i \in 1..Len(out) : out[i] = block.listed[i]
  BY <1>1, PrefixByPlace DEF IInv, OnlyListed
<1>5. \A i \in 1..Len(out') : out'[i] = block.listed[i]
  BY <1>1, <1>3, <1>4
<1>6. IsPrefix(out', block.listed)
  <2>1. Len(out') <= Len(block.listed)
    BY <1>1, <1>3
  <2>. QED  BY <1>1, <1>3, <1>5, <2>1, PrefixByPlace
<1>7. \A i \in 1..Len(out) : out[i].index + out[i].length <= received
  BY DEF IInv, OnlyListed
<1>8. \A i \in 1..Len(out') : out'[i].index + out'[i].length <= received
  BY <1>1, <1>2, <1>3, <1>7
<1>. QED  BY <1>3, <1>6, <1>8 DEF OnlyListed

(* Where the parser is in the chain. *)
At(m, at, from, k) ==
  /\ Tables(block, m, at, from)
  /\ ndp = at[k] /\ next = seen[ndp].next
  /\ count = from[k + 1] - from[k] /\ Len(out) = from[k] + index

(* The k-th table of the chain, its entries and what is listed before it.  *)
LEMMA ChainPlace ==
  ASSUME IsBlock(block), NEW m \in 1..(Len(block.listed) + 1),
         NEW at \in Offsets(block, m), NEW from \in Counts(block, m), Tables(block, m, at, from),
         NEW k \in 1..m, NEW i \in 1..(from[k + 1] - from[k])
  PROVE  /\ i \in 1..Len(block.ndps[at[k]].entries)
         /\ block.ndps[at[k]].entries[i] \in Entries
         /\ block.ndps[at[k]].entries[i] = block.listed[from[k] + i]
         /\ from[k] \in Nat /\ from[k] + i <= Len(block.listed)
<1>. DEFINE es == block.ndps[at[k]].entries
            lo == from[k]
            hi == from[k + 1]
            len == Len(block.listed)
<1>1. /\ es \in Seq(Entries) /\ Len(es) \in Nat /\ hi - lo \in 0..(Len(es) - 1)
      /\ lo \in 0..len /\ hi \in 0..len
  BY ChainFacts
<1>2. es[i] = block.listed[lo + i]
  BY ChainListed
<1>3. len \in Nat
  BY BlockTypes
<1>4. i \in 1..(hi - lo)
  OBVIOUS
<1>. HIDE DEF es, lo, hi, len
<1>5. lo \in Nat /\ hi \in Nat /\ hi <= len
  BY <1>1, <1>3
<1>6. i \in 1..Len(es) /\ lo + i <= len
  BY <1>1, <1>3, <1>4, <1>5
<1>7. es[i] \in Entries
  BY <1>1, <1>6
<1>. QED  BY <1>2, <1>5, <1>6, <1>7 DEF es, lo, len

(* GetNextDatagram in the current table. *)
LEMMA NextInTableStep ==
  ASSUME IInv, SenderIInv', NextInTable
  PROVE  IInv'
<1>. DEFINE entries == seen[ndp].entries
            e == entries[index + 1]
<1>1. /\ phase = "parse" /\ phase' = "parse" /\ index # count /\ index < Len(entries)
      /\ out' = Append(out, e) /\ index' = index + 1
      /\ UNCHANGED <<receiver, offset, table, block, received, seen, limit, ndp, next, count>>
  BY DEF NextInTable, senderVars
<1>2. /\ IsBlock(block) /\ IsTables(seen) /\ index \in Nat /\ out \in Seq(Entries)
      /\ {received, limit, ndp, next, count} \subseteq Nat /\ (Trusted => index <= count)
  BY DEF IInv, TypeOK
<1>3. ndp \in DOMAIN seen /\ (Trusted' <=> Trusted)
  BY <1>1 DEF IInv, ParseInv, Trusted
<1>4. e \in Entries
  <2>1. entries \in Seq(Entries) /\ Len(entries) \in Nat
    BY <1>2, <1>3, TableTypes
  <2>. HIDE DEF entries
  <2>2. index + 1 \in 1..Len(entries)
    BY <1>1, <1>2, <2>1
  <2>. QED  BY <2>1, <2>2
<1>5. out' \in Seq(Entries) /\ Len(out') = Len(out) + 1 /\ Len(out) \in Nat
  BY <1>1, <1>2, <1>4
<1>6. TypeOK'
  <2>1. index' \in Nat /\ (Trusted' => index' <= count)
    BY <1>1, <1>2, <1>3
  <2>. HIDE DEF entries
  <2>. QED  BY <1>1, <1>2, <1>5, <2>1 DEF TypeOK, SenderIInv
<1>7. BlockInv'
  BY <1>1 DEF IInv, BlockInv
<1>8. ASSUME Trusted PROVE OnlyListed' /\ InChain'
  <2>1. /\ entries = block.ndps[ndp].entries /\ Scanned(entries, received, count) /\ InChain
    BY <1>1, <1>8 DEF IInv, ParseInv
  <2>2. PICK m \in 1..(Len(block.listed) + 1) :
           \E at \in Offsets(block, m), from \in Counts(block, m), k \in 1..m : At(m, at, from, k)
    BY <2>1 DEF InChain, At
  <2>3. PICK at \in Offsets(block, m), from \in Counts(block, m), k \in 1..m : At(m, at, from, k)
    BY <2>2
  <2>4. /\ Tables(block, m, at, from) /\ ndp = at[k] /\ count = from[k + 1] - from[k]
        /\ Len(out) = from[k] + index
    BY <2>3 DEF At
  <2>5. index + 1 \in 1..count
    BY <1>1, <1>2, <1>8
  <2>6. /\ e = block.listed[from[k] + (index + 1)]
        /\ from[k] \in Nat /\ from[k] + (index + 1) <= Len(block.listed)
    BY <1>2, <2>1, <2>4, <2>5, ChainPlace
  <2>7. InRange(e, received)
    BY <2>1, <2>5 DEF Scanned
  <2>. HIDE DEF e, entries
  <2>8. Len(block.listed) \in Nat
    BY <1>2, BlockTypes
  <2>9. Len(out) < Len(block.listed) /\ Len(out) + 1 = from[k] + (index + 1)
    <3>. DEFINE lo == from[k]
                len == Len(block.listed)
                given == Len(out)
    <3>1. /\ index \in Nat /\ lo \in Nat /\ len \in Nat
          /\ given = lo + index /\ lo + (index + 1) <= len
      BY <1>2, <2>4, <2>6, <2>8
    <3>. HIDE DEF lo, len, given
    <3>2. given < len /\ given + 1 = lo + (index + 1)
      BY <3>1
    <3>. QED  BY <3>2 DEF lo, len, given
  <2>10. OnlyListed'
    BY <1>1, <1>4, <1>8, <2>6, <2>7, <2>9, GiveNext
  <2>11. Len(out') = from[k] + index'
    BY <1>1, <1>5, <2>9
  <2>12. At(m, at, from, k)'
    BY <1>1, <2>3, <2>11 DEF At
  <2>13. InChain'
    BY <1>1, <2>12 DEF InChain, At
  <2>. QED  BY <2>10, <2>13
<1>9. OnlyListed' /\ ParseInv'
  BY <1>1, <1>3, <1>8 DEF IInv, ParseInv, SeenInv, OnlyListed, ReadFits
<1>. QED  BY <1>1, <1>6, <1>7, <1>9 DEF IInv, FreshInv, RoundTrip

(* GetNextDatagram at the end of a table: the table entered is the next of *)
(* the chain, and lists a datagram.                                        *)
LEMMA NextTableStep ==
  ASSUME IInv, SenderIInv', NextTable
  PROVE  IInv'
<1>. DEFINE entries == seen[next].entries
            e == entries[1]
<1>1. /\ phase = "parse" /\ phase' = "parse" /\ index = count /\ out' = Append(out, e)
      /\ index' = 1 /\ next # 0 /\ ValidTable(seen, next, limit)
      /\ ndp' = next /\ next' = seen[next].next /\ count' = EntryCount(entries, limit)
      /\ UNCHANGED <<receiver, offset, table, block, received, seen, limit>>
  BY DEF NextTable, EnterTable, senderVars
<1>2. /\ IsBlock(block) /\ IsTables(seen) /\ index \in Nat /\ out \in Seq(Entries)
      /\ {received, limit, ndp, next, count} \subseteq Nat
      /\ received \in Nat /\ limit \in Nat
  BY DEF IInv, TypeOK
<1>3. next \in DOMAIN seen /\ Len(entries) >= 2 /\ (Trusted' <=> Trusted)
  BY <1>1 DEF ValidTable, Trusted
<1>4. entries \in Seq(Entries) /\ Len(entries) \in Nat /\ seen[next].next \in Nat
  BY <1>2, <1>3, TableTypes
<1>5. e \in Entries
  <2>. HIDE DEF entries
  <2>1. 1 \in 1..Len(entries)
    BY <1>3, <1>4
  <2>. QED  BY <1>4, <2>1
<1>6. count' \in Nat
  <2>1. count' \in 0..Len(entries)
    BY <1>1, EntryCountScanned
  <2>. HIDE DEF entries
  <2>. QED  BY <1>4, <2>1
<1>7. out' \in Seq(Entries) /\ Len(out') = Len(out) + 1 /\ Len(out) \in Nat
  BY <1>1, <1>2, <1>5
<1>8. BlockInv'
  BY <1>1 DEF IInv, BlockInv
<1>9. ASSUME Trusted
      PROVE  /\ OnlyListed' /\ InChain' /\ 1 <= count'
             /\ seen[next] = block.ndps[next] /\ Scanned(entries, received, count')
  <2>1. InChain /\ SeenInv /\ (receiver = "function" => limit <= received)
    BY <1>1, <1>9 DEF IInv, ParseInv
  <2>2. PICK m \in 1..(Len(block.listed) + 1) :
           \E at \in Offsets(block, m), from \in Counts(block, m), k \in 1..m : At(m, at, from, k)
    BY <2>1 DEF InChain, At
  <2>3. PICK at \in Offsets(block, m), from \in Counts(block, m), k \in 1..m : At(m, at, from, k)
    BY <2>2
  <2>. DEFINE j == k + 1
              lo == from[j]
              hi == from[j + 1]
  <2>4. /\ Tables(block, m, at, from) /\ ndp = at[k] /\ count = lo - from[k]
        /\ Len(out) = from[k] + index /\ next = seen[ndp].next
    BY <2>3 DEF At
  <2>5. seen[ndp] = block.ndps[ndp]
    BY <1>1, <1>9 DEF IInv, ParseInv
  <2>6. j \in 1..m /\ next = at[j] /\ j > 1
    <3>1. IsBlock(block) /\ Tables(block, m, at, from)
      BY <1>2, <2>4
    <3>2. block.ndps[at[k]].next = (IF k = m THEN 0 ELSE at[k + 1]) /\ k \in Nat /\ m \in Nat
      BY <3>1, ChainNext
    <3>. QED  BY <1>1, <2>4, <2>5, <3>2
  <2>7. from[k] \in Nat
    <3>1. from[k] \in 0..Len(block.listed) /\ Len(block.listed) \in Nat
      BY <1>2, <2>4, ChainFacts, BlockTypes
    <3>. QED  BY <3>1
  <2>. HIDE DEF j
  <2>8. /\ at[j] \in DOMAIN seen /\ seen[at[j]] = block.ndps[at[j]]
        /\ EntryCount(seen[at[j]].entries, limit) = hi - lo
        /\ Scanned(seen[at[j]].entries, received, hi - lo)
    <3>1. Shows(seen, received) /\ (limit <= received \/ block.size <= received)
      BY <1>9, <2>1 DEF SeenInv, Shows, Trusted
    <3>2. /\ IsBlock(block) /\ IsTables(seen) /\ received \in Nat /\ limit \in Nat
          /\ Tables(block, m, at, from) /\ j \in 1..m /\ ValidTable(seen, at[j], limit)
      BY <1>1, <1>2, <2>4, <2>6
    <3>. QED  BY <3>1, <3>2, TrustedTable
  <2>9. count' = hi - lo /\ hi - lo > 0
    <3>1. j > 1 => hi - lo > 0
      BY <1>2, <2>4, <2>6, ChainFacts
    <3>. QED  BY <1>1, <2>6, <2>8, <3>1
  <2>10. 1 \in 1..(hi - lo)
    BY <1>6, <2>9
  <2>11. /\ block.ndps[at[j]].entries[1] = block.listed[lo + 1]
         /\ lo \in Nat /\ lo + 1 <= Len(block.listed)
    BY <1>2, <2>4, <2>6, <2>10, ChainPlace
  <2>12. e = block.listed[lo + 1] /\ InRange(e, received)
    BY <2>6, <2>8, <2>10, <2>11 DEF Scanned
  <2>13. Len(block.listed) \in Nat
    BY <1>2, BlockTypes
  <2>14. Len(out) = lo
    BY <1>1, <1>2, <2>4, <2>7, <2>11
  <2>. HIDE DEF lo, hi, e
  <2>15. Len(out) < Len(block.listed)
    BY <2>11, <2>13, <2>14
  <2>16. OnlyListed'
    BY <1>1, <1>5, <1>9, <2>12, <2>14, <2>15, GiveNext
  <2>17. At(m, at, from, j)'
    BY <1>1, <1>7, <2>4, <2>6, <2>9, <2>14 DEF At, lo, hi
  <2>18. InChain'
    BY <1>1, <2>6, <2>17 DEF InChain, At
  <2>19. 1 <= count'
    BY <1>6, <2>9
  <2>. QED  BY <2>6, <2>8, <2>9, <2>16, <2>18, <2>19
<1>10. TypeOK'
  <2>. HIDE DEF entries
  <2>. QED  BY <1>1, <1>2, <1>3, <1>4, <1>6, <1>7, <1>9 DEF TypeOK, SenderIInv
<1>11. OnlyListed' /\ ParseInv'
  BY <1>1, <1>3, <1>9 DEF IInv, ParseInv, SeenInv, OnlyListed, ReadFits
<1>. QED  BY <1>1, <1>8, <1>10, <1>11 DEF IInv, FreshInv, RoundTrip

(* The index is past the count only where the receiver may not trust what  *)
(* it reads.                                                               *)
LEMMA PastTableStep ==
  ASSUME IInv, SenderIInv', PastTable
  PROVE  IInv'
<1>1. /\ phase = "parse" /\ phase' = "done" /\ index # count
      /\ index >= Len(seen[ndp].entries)
      /\ UNCHANGED <<receiver, offset, table, block, received, seen, limit, ndp, next, index, count, out>>
  BY DEF PastTable, senderVars, parserVars
<1>2. ASSUME Trusted PROVE FALSE
  <2>1. /\ ndp \in DOMAIN seen /\ Scanned(seen[ndp].entries, received, count)
        /\ index <= count /\ IsTables(seen) /\ index \in Nat /\ count \in Nat
    BY <1>1, <1>2 DEF IInv, ParseInv, TypeOK
  <2>2. count < Len(seen[ndp].entries) /\ Len(seen[ndp].entries) \in Nat
    BY <2>1, TableTypes DEF Scanned
  <2>. HIDE DEF IInv
  <2>. QED  BY <1>1, <2>1, <2>2
<1>3. RoundTrip'
  <2>1. ~(received >= block.size)
    BY <1>2 DEF Trusted
  <2>. QED  BY <1>1, <2>1 DEF RoundTrip
<1>. QED  BY <1>1, <1>3 DEF IInv, TypeOK, SenderIInv, SenderType, BlockInv, FreshInv, ParseInv,
                             OnlyListed, Trusted

(* The parser stops at the end of the chain, unless the block was cut.     *)
LEMMA NoMoreEntriesStep ==
  ASSUME IInv, SenderIInv', NoMoreEntries
  PROVE  IInv'
<1>1. /\ phase = "parse" /\ phase' = "done" /\ index = count
      /\ next = 0 \/ ~ValidTable(seen, next, limit)
      /\ UNCHANGED <<receiver, offset, table, block, received, seen, limit, ndp, next, index, count, out>>
  BY DEF NoMoreEntries, senderVars, parserVars
<1>2. /\ IsBlock(block) /\ index \in Nat /\ limit \in Nat /\ received \in Nat
      /\ out \in Seq(Entries)
  BY DEF IInv, TypeOK
<1>3. ASSUME ReadFits, received >= block.size
      PROVE  out = block.listed
  <2>1. Trusted /\ InChain /\ SeenInv /\ limit >= block.size /\ seen[ndp] = block.ndps[ndp]
    BY <1>1, <1>3 DEF IInv, ParseInv, Trusted
  <2>2. PICK m \in 1..(Len(block.listed) + 1) :
           \E at \in Offsets(block, m), from \in Counts(block, m), k \in 1..m : At(m, at, from, k)
    BY <2>1 DEF InChain, At
  <2>3. PICK at \in Offsets(block, m), from \in Counts(block, m), k \in 1..m : At(m, at, from, k)
    BY <2>2
  <2>4. /\ Tables(block, m, at, from) /\ ndp = at[k] /\ next = seen[ndp].next
        /\ count = from[k + 1] - from[k] /\ Len(out) = from[k] + index
    BY <2>3 DEF At
  <2>5. k \in Nat /\ m \in Nat /\ next = IF k = m THEN 0 ELSE at[k + 1]
    BY <1>2, <2>1, <2>4, ChainNext
  <2>6. from[k] \in 0..Len(block.listed) /\ from[k + 1] \in 0..Len(block.listed)
    BY <1>2, <2>4, ChainFacts
  <2>7. CASE k # m
    <3>1. k + 1 \in 1..m /\ next = at[k + 1]
      BY <2>5, <2>7
    <3>2. ValidTable(block.ndps, at[k + 1], limit)
      BY <1>2, <2>1, <2>4, <3>1, ChainValid
    <3>3. /\ at[k + 1] \in DOMAIN block.ndps /\ at[k + 1] \in DOMAIN seen
          /\ seen[at[k + 1]] = block.ndps[at[k + 1]]
      <4>1. Shows(seen, received)
        BY <2>1 DEF SeenInv, Shows
      <4>. QED  BY <1>2, <1>3, <2>4, <3>1, <4>1, WholeShows
    <3>4. ValidTable(seen, next, limit)
      BY <3>1, <3>2, <3>3, SameTable
    <3>5. at[k + 1] \in Nat /\ NthSize <= at[k + 1]
      BY <1>2, <2>4, <3>1, ChainFacts
    <3>. QED  BY <1>1, <3>1, <3>4, <3>5, Sizes
  <2>8. CASE k = m
    <3>1. block.listed \in Seq(Entries) /\ Len(block.listed) \in Nat
      BY <1>2, BlockTypes
    <3>2. from[k + 1] = Len(block.listed)
      BY <2>4, <2>8 DEF Tables
    <3>3. from[k] \in Nat
      BY <2>6, <3>1
    <3>4. Len(out) = Len(block.listed)
      BY <1>1, <1>2, <2>4, <3>1, <3>2, <3>3
    <3>5. \A i \in 1..Len(out) : out[i] = block.listed[i]
      BY <1>2, <2>1, <3>1, PrefixByPlace DEF IInv, OnlyListed
    <3>. QED  BY <1>2, <3>1, <3>4, <3>5
  <2>. QED  BY <2>7, <2>8
<1>4. ReadFits' => RoundTrip'
  BY <1>1, <1>3 DEF RoundTrip, ReadFits
<1>. QED  BY <1>1, <1>4 DEF IInv, TypeOK, SenderIInv, SenderType, BlockInv, FreshInv, ParseInv,
                             OnlyListed, Trusted, ReadFits

(* A block that is not sent leaves the receiver with nothing.              *)
LEMMA SendRefusedStep ==
  ASSUME IInv, SenderIInv', SendRefused
  PROVE  IInv'
<1>1. /\ phase = "built" /\ phase' = "done" /\ received = 0
      /\ UNCHANGED <<receiver, offset, table, block, received, seen, limit, ndp, next, index, count, out>>
  BY DEF SendRefused, senderVars, parserVars, IInv, FreshInv
<1>. QED  BY <1>1 DEF IInv, TypeOK, SenderIInv, SenderType, BlockInv, FreshInv, ParseInv,
                       RoundTrip, OnlyListed, Trusted

(* There is nothing in an empty block, and all of it was given out.        *)
LEMMA NothingGiven ==
  IsBlock(NoBlock) /\ IsTables(<<>>) /\ <<>> \in Seq(Entries) /\ IsPrefix(<<>>, <<>>)
<1>1. <<>> \in Seq(Entries) /\ DOMAIN <<>> = {}
  OBVIOUS
<1>2. IsTables(<<>>)
  <2>. DEFINE none == <<>>
  <2>1. DOMAIN none = {} /\ none = [i \in {} |-> none[i]]
    OBVIOUS
  <2>. HIDE DEF none
  <2>2. IsTables(none)
    BY <2>1 DEF IsTables
  <2>. QED  BY <2>2 DEF none
<1>3. IsBlock(NoBlock)
  BY <1>1, <1>2, Sizes DEF IsBlock, NoBlock
<1>4. IsPrefix(<<>>, <<>>)
  BY <1>1, EmptyPrefix
<1>. QED  BY <1>1, <1>2, <1>3, <1>4

(* The initial state satisfies the inductive invariant. *)
LEMMA InitIInv == Init => IInv
<1>. SUFFICES ASSUME Init PROVE IInv
  OBVIOUS
<1>1. /\ receiver \in {"function", "host"}
      /\ phase = "idle" /\ offset = 0 /\ table = <<>> /\ block = NoBlock /\ received = 0
      /\ seen = <<>> /\ limit = 0 /\ ndp = 0 /\ next = 0 /\ index = 0 /\ count = 0 /\ out = <<>>
  BY DEF Init
<1>2. SenderIInv
  BY <1>1 DEF SenderIInv, SenderType, SenderInv, Layout
<1>3. TypeOK
  BY <1>1, <1>2, NothingGiven DEF TypeOK, SenderIInv
<1>4. OnlyListed
  BY <1>1, NothingGiven DEF OnlyListed, NoBlock
<1>. QED  BY <1>1, <1>2, <1>3, <1>4 DEF IInv, BlockInv, FreshInv, ParseInv, RoundTrip

(* Clearing the two objects leads back to it. *)
LEMMA ReInitializeStep ==
  ASSUME IInv, SenderIInv', ReInitializeBuffer
  PROVE  IInv'
<1>1. /\ phase' = "idle" /\ block' = NoBlock /\ received' = 0 /\ seen' = <<>>
      /\ limit' = 0 /\ ndp' = 0 /\ next' = 0 /\ index' = 0 /\ count' = 0 /\ out' = <<>>
  BY DEF ReInitializeBuffer
<1>2. TypeOK'
  BY <1>1, NothingGiven DEF TypeOK, SenderIInv
<1>3. OnlyListed'
  BY <1>1, NothingGiven DEF OnlyListed, NoBlock
<1>. QED  BY <1>1, <1>2, <1>3 DEF IInv, BlockInv, FreshInv, ParseInv, RoundTrip

(* The sender and the other implementation leave the receiver alone; what  *)
(* they hand over is chained, or too long for its pointers.                *)
LEMMA BuildStep ==
  ASSUME PeersConform, IInv, SenderIInv', Build \/ PeerBuilds
  PROVE  IInv'
<1>1. /\ UNCHANGED <<receiver, received, seen, limit, ndp, next, index, count, out>>
      /\ phase \in {"idle", "pack"} /\ phase' \in {"pack", "built"}
  BY DEF Build, PrepareToConstruct, CopyNextDatagram, SetNdp, PeerBuilds, senderVars, parserVars
<1>2. IsBlock(block') /\ BlockInv'
  <2>1. CASE SetNdp
    <3>1. table' # <<>>
      BY <2>1 DEF SetNdp, senderVars
    <3>2. SenderIInv
      BY DEF IInv
    <3>3. BlockInv'
      BY <2>1, <3>1, <3>2, OwnBlock DEF BlockInv
    <3>. QED  BY <2>1, <3>2, <3>3, OwnBlock
  <2>2. CASE PeerBuilds
    <3>1. block' \in PeerBlocks /\ table' = table /\ phase = "idle"
      BY <2>2 DEF PeerBuilds, senderVars
    <3>2. table = <<>>
      BY <3>1 DEF IInv, SenderIInv, SenderInv
    <3>3. /\ IsBlock(block') /\ Chained(block')
          /\ block'.length = block'.size \/ (block'.length = 0 /\ block'.size < PtrLimit)
      BY <3>1 DEF PeersConform, Conforms
    <3>4. block'.size <= PtrLimit /\ block'.size \in Nat
      BY <3>3, BlockTypes, Sizes
    <3>5. ~(block'.size > PtrLimit + 1)
      BY <3>4, Sizes
    <3>. QED  BY <3>1, <3>2, <3>3, <3>4, <3>5 DEF BlockInv
  <2>3. CASE PrepareToConstruct \/ \E length \in Lengths : CopyNextDatagram(length)
    BY <2>3 DEF PrepareToConstruct, CopyNextDatagram, IInv, TypeOK, BlockInv
  <2>. QED  BY <2>1, <2>2, <2>3 DEF Build
<1>3. received = 0 /\ out = <<>> /\ index = 0 /\ count = 0
  BY <1>1 DEF IInv, FreshInv
<1>4. TypeOK'
  BY <1>1, <1>2, <1>3 DEF IInv, TypeOK, SenderIInv
<1>5. OnlyListed'
  <2>1. block'.listed \in Seq(Entries)
    BY <1>2, BlockTypes
  <2>2. Len(out') = 0 /\ IsPrefix(<<>>, block'.listed)
    BY <1>1, <1>3, <2>1, EmptyPrefix
  <2>. QED  BY <1>1, <1>3, <2>2 DEF OnlyListed
<1>. QED  BY <1>1, <1>2, <1>3, <1>4, <1>5 DEF IInv, FreshInv, ParseInv, RoundTrip

(* Every step keeps the inductive invariant, if the other implementation   *)
(* sends conforming blocks.                                                *)
LEMMA NextIInv ==
  ASSUME PeersConform, IInv, [Next]_vars
  PROVE  IInv'
<1>1. SenderIInv'
  BY SenderStep DEF IInv
<1>2. CASE UNCHANGED vars
  BY <1>2 DEF vars, IInv, TypeOK, SenderIInv, SenderType, SenderInv, Layout, BlockInv, FreshInv,
              ParseInv, SeenInv, InChain, RoundTrip, OnlyListed, Trusted, ReadFits
<1>. QED  BY <1>1, <1>2, BuildStep, TransferStep, SendRefusedStep, NextInTableStep, PastTableStep,
             NextTableStep, NoMoreEntriesStep, ReInitializeStep DEF Next, Parse

(* What holds in every state of a run with conforming peers. *)
LEMMA Invariant == ASSUME PeersConform PROVE Spec => []IInv
<1>1. Init => IInv
  BY InitIInv
<1>2. IInv /\ [Next]_vars => IInv'
  BY NextIInv
<1>. QED  BY <1>1, <1>2, PTL DEF Spec

(* The parser's offsets and counts are numbers, and its index stays within *)
(* the entries it counted where it may trust what it reads.                *)
THEOREM TypeCorrect == PeersConform => (Spec => []TypeOK)
<1>. SUFFICES ASSUME PeersConform PROVE Spec => []TypeOK
  OBVIOUS
<1>1. IInv => TypeOK
  BY DEF IInv
<1>2. Spec => []IInv
  BY Invariant
<1>. QED  BY <1>1, <1>2, PTL

(* GetNextDatagram gives out what the sender listed, in order, and nothing *)
(* that has not arrived: on the function however short the transfer was    *)
(* cut, on the host if all of the block arrived.                           *)
THEOREM ReceivedIsListed == PeersConform => (Spec => []OnlyListed)
<1>. SUFFICES ASSUME PeersConform PROVE Spec => []OnlyListed
  OBVIOUS
<1>1. IInv => OnlyListed
  BY DEF IInv
<1>2. Spec => []IInv
  BY Invariant
<1>. QED  BY <1>1, <1>2, PTL

(* A block that arrives whole is read whole by either receiver, with one   *)
(* table or a chain, with the block length given or left open, if the      *)
(* host's read buffer is no longer than PTR_SIZE can tell.                 *)
THEOREM WholeBlockRead == PeersConform => (Spec => [](ReadFits => RoundTrip))
<1>. SUFFICES ASSUME PeersConform PROVE Spec => [](ReadFits => RoundTrip)
  OBVIOUS
<1>1. IInv => (ReadFits => RoundTrip)
  BY DEF IInv
<1>2. Spec => []IInv
  BY Invariant
<1>. QED  BY <1>1, <1>2, PTL
=============================================================================
