-------------------------------- MODULE Ntb ---------------------------------
(***************************************************************************)
(* The NCM transfer block of common/ntb.cpp: the sender lays datagrams out *)
(* in a buffer and closes the block with a datagram pointer table; the     *)
(* receiver checks what a USB transfer brought and walks the tables. The   *)
(* two ends are two objects of the same class, on two machines.            *)
(*                                                                         *)
(* A block is its header and its pointer tables. The bytes of a datagram   *)
(* are not modelled, only where they are: Layout says that no two regions  *)
(* of a block share a byte. Sizes are constants, so one module stands for  *)
(* the 16-bit and the 32-bit class. Not under src/: the transfer between   *)
(* the two, which may be cut short, what earlier transfers left in the     *)
(* read buffer (Leftovers), and the blocks of another implementation       *)
(* (PeerBlocks), which may hold several tables, put them anywhere and      *)
(* leave the block length open.                                            *)
(*                                                                         *)
(* The two receivers differ: the function hands the parser the bytes that  *)
(* arrived, the host its whole read buffer, however little arrived.        *)
(***************************************************************************)
EXTENDS Integers, Sequences, SequencesExt

CONSTANTS
  NthSize, NdpSize, DpeSize,            \* sizes of header, table header, entry
  EthSize,                              \* ETHERNET_HEADER
  NdpAlignment, NdpDivisor, NdpPayloadRemainder,
  MaxDatagrams,                         \* m_NtbMaxDatagrams
  BufferLength,                         \* m_BufferLength of the sender
  PtrLimit,                             \* the largest PTR_SIZE
  Lengths,                              \* lengths of the OS's packets
  PeerBlocks,                           \* blocks another implementation sends
  ReadLength,                           \* size of the host's read buffers
  Leftovers                             \* blocks whose bytes may be in one of them

ASSUME NtbSizes == {NthSize, NdpSize, DpeSize, EthSize, BufferLength, PtrLimit} \subseteq Nat \ {0}
ASSUME NtbAlignment ==
  /\ {NdpAlignment, NdpDivisor, MaxDatagrams} \subseteq Nat \ {0}
  /\ NdpPayloadRemainder \in 0..(NdpDivisor - 1)
ASSUME NtbLengths == Lengths \subseteq Nat \ {0}
ASSUME NtbReadLength == ReadLength \in Nat \ {0}

VARIABLES
  receiver,  \* who parses, the other end of the sender: "function" or "host"
  phase,     \* "idle", "pack", "built", "parse" or "done"
  offset,    \* m_CurrentBufferOffset of the sender
  table,     \* the sender's m_DatagramPointerTable, up to its count
  block,     \* the block on its way
  received,  \* bytes of it that arrived
  seen,      \* the tables in the read buffer, by offset
  limit,     \* m_BlockLength of the receiver
  ndp,       \* m_CurrentNdpIndex
  next,      \* m_NextNdpIndex
  index,     \* m_CurrentNdpDatagramIndex
  count,     \* m_CurrentNdpDatagramCount
  out        \* the datagrams the receiver has been given

vars == <<receiver, phase, offset, table, block, received, seen, limit, ndp, next, index, count,
          out>>

senderVars == <<receiver, offset, table>>
parserVars == <<seen, limit, ndp, next, index, count, out>>

Entries == [index : Nat, length : Nat]

IsTables(ndps) ==
  /\ DOMAIN ndps \subseteq Nat
  /\ ndps \in [DOMAIN ndps -> [next : Nat, entries : Seq(Entries)]]

IsBlock(b) ==
  /\ b.length \in 0..PtrLimit /\ {b.ndpIndex, b.size} \subseteq Nat
  /\ b.listed \in Seq(Entries) /\ IsTables(b.ndps)

ASSUME NtbLeftovers == \A b \in Leftovers : IsBlock(b)

Null == [index |-> 0, length |-> 0]

(* length is BlockLength, ndpIndex the first table's offset, ndps the       *)
(* tables by offset, size the bytes the block takes, and listed what the    *)
(* sender packed, in order.                                                 *)
NoBlock == [length |-> 0, ndpIndex |-> 0, ndps |-> <<>>, size |-> 0, listed |-> <<>>]

AlignUp(n, a) == ((n + (a - 1)) \div a) * a

(* The conversion to PTR_SIZE. *)
Pointer(n) == n % (PtrLimit + 1)

-----------------------------------------------------------------------------
(* The sender.                                                             *)

Init ==
  /\ receiver \in {"function", "host"}
  /\ phase = "idle" /\ offset = 0 /\ table = <<>>
  /\ block = NoBlock /\ received = 0
  /\ seen = <<>> /\ limit = 0 /\ ndp = 0 /\ next = 0 /\ index = 0 /\ count = 0 /\ out = <<>>

PrepareToConstruct ==
  /\ phase = "idle"
  /\ phase' = "pack"
  /\ offset' = NthSize /\ table' = <<>>
  /\ UNCHANGED <<receiver, block, received, parserVars>>

(* Where the next datagram goes: its payload, behind the Ethernet header,  *)
(* is what the divisor and the remainder place.                            *)
DatagramOffset == (AlignUp(offset + EthSize, NdpDivisor) + NdpPayloadRemainder) - EthSize

(* What CopyNextDatagram takes a block that also holds this one to need.   *)
SizeNeeded(length) ==
  AlignUp(DatagramOffset + length, NdpAlignment) + NdpSize + (Len(table) + 1) * DpeSize

(* Mutant: the buffer offset is left where the datagram starts. *)
CopyWithoutAdvancing(length) ==
  /\ phase = "pack" /\ Len(table) < MaxDatagrams
  /\ SizeNeeded(length) <= BufferLength
  /\ table' = Append(table, [index |-> DatagramOffset, length |-> length])
  /\ offset' = DatagramOffset
  /\ UNCHANGED <<receiver, phase, block, received, parserVars>>

CopyNextDatagram(length) ==
  /\ phase = "pack" /\ Len(table) < MaxDatagrams
  /\ SizeNeeded(length) <= BufferLength
  /\ table' = Append(table, [index |-> DatagramOffset, length |-> length])
  /\ offset' = DatagramOffset + length
  /\ UNCHANGED <<receiver, phase, block, received, parserVars>>

(* SetNdp: the table and its null entry go behind the last datagram. It    *)
(* asserts that there is a datagram; Advance calls it when the ring is     *)
(* empty or the next datagram does not fit. The header and the entries     *)
(* hold PTR_SIZE numbers.                                                  *)
SetNdp ==
  /\ phase = "pack" /\ table # <<>>
  /\ LET at == AlignUp(offset, NdpAlignment)
         size == at + NdpSize + (Len(table) + 1) * DpeSize
         entries == [i \in 1..Len(table) |-> [index |-> Pointer(table[i].index),
                                              length |-> Pointer(table[i].length)]]
     IN block' = [length |-> Pointer(size), ndpIndex |-> Pointer(at),
                  ndps |-> [i \in {at} |-> [next |-> 0, entries |-> Append(entries, Null)]],
                  size |-> size, listed |-> table]
  /\ phase' = "built"
  /\ UNCHANGED <<senderVars, received, parserVars>>

(* The other implementation has built a block. *)
PeerBuilds ==
  /\ phase = "idle"
  /\ block' \in PeerBlocks
  /\ phase' = "built"
  /\ UNCHANGED <<senderVars, received, parserVars>>

-----------------------------------------------------------------------------
(* The receiver.                                                           *)

MinTable == NdpSize + 2 * DpeSize

IsNull(entry) == entry.index = 0 \/ entry.length = 0

InRange(entry, end) ==
  /\ NthSize <= entry.index /\ entry.index <= end
  /\ entry.index + entry.length <= end

(* The scan of a table: the entries before its first null entry, all of    *)
(* which are in range.                                                     *)
Scanned(entries, end, n) ==
  /\ n < Len(entries) /\ IsNull(entries[n + 1])
  /\ \A i \in 1..n : ~IsNull(entries[i]) /\ InRange(entries[i], end)

(* What GetNextNdp demands of the table at offset at: it fits, it is one,  *)
(* and so is its successor as far as can be seen from here.                *)
TableOffset(at, end) == NthSize <= at /\ at + MinTable <= end

ValidTable(ndps, at, end) ==
  /\ TableOffset(at, end)
  /\ at \in DOMAIN ndps
  /\ LET t == ndps[at] IN
       /\ Len(t.entries) >= 2
       /\ at + NdpSize + Len(t.entries) * DpeSize <= end
       /\ t.next = 0 \/ TableOffset(t.next, end)
       /\ \E n \in 0..Len(t.entries) : Scanned(t.entries, end, n)

(* Mutant: the null entry is counted too. *)
EntryCountWithNull(entries, end) ==
  CHOOSE n \in 1..(Len(entries) + 1) : Scanned(entries, end, n - 1)

EntryCount(entries, end) == CHOOSE n \in 0..Len(entries) : Scanned(entries, end, n)

(* GetNextNdp accepts the table. *)
EnterTable(ndps, at, end) ==
  /\ ndp' = at /\ next' = ndps[at].next /\ count' = EntryCount(ndps[at].entries, end)

(* The bytes behind the n that arrived are those of an earlier block. What *)
(* they hold where it had no table is taken to be a null entry, and what   *)
(* has not arrived whole is taken to be old.                               *)
EntryFound(n, left, at, i) ==
  IF at + NdpSize + i * DpeSize <= n
    THEN block.ndps[at].entries[i]
    ELSE IF at \in DOMAIN left.ndps /\ i <= Len(left.ndps[at].entries)
           THEN left.ndps[at].entries[i]
           ELSE Null

TablesFound(n, left) ==
  LET arrived == {at \in DOMAIN block.ndps : at + NdpSize <= n}
      old == {at \in DOMAIN left.ndps : at >= n}
  IN [at \in arrived \cup old |->
        IF at >= n
          THEN left.ndps[at]
          ELSE [next |-> block.ndps[at].next,
                entries |-> [i \in 1..Len(block.ndps[at].entries) |-> EntryFound(n, left, at, i)]]]

(* The size of the buffer that PrepareToParse is given: the function       *)
(* passes on how much arrived, the host the memory it was read into.       *)
SizeGiven(n) == IF receiver = "function" THEN n ELSE ReadLength

(* PrepareToParse, with GetNextNdp, when n bytes of the block have         *)
(* arrived: the header, the block length and the first table are checked.  *)
(* An open block length is that of the buffer, as far as PTR_SIZE can      *)
(* tell.                                                                   *)
Receive(n, left) ==
  LET header == IF n >= NthSize THEN block ELSE left
      found == TablesFound(n, left)
      end == IF header.length > 0 THEN header.length ELSE Pointer(SizeGiven(n))
  IN
  /\ phase = "built"
  /\ received' = n /\ seen' = found /\ limit' = end
  /\ IF SizeGiven(n) >= NthSize /\ header.length <= SizeGiven(n)
          /\ ValidTable(found, header.ndpIndex, end)
       THEN phase' = "parse" /\ EnterTable(found, header.ndpIndex, end)
       ELSE phase' = "done" /\ UNCHANGED <<ndp, next, count>>
  /\ UNCHANGED <<senderVars, block, index, out>>

(* What TransmitFrames is to send: SetNdp gives it BlockLength.            *)
TransferLength == IF table # <<>> THEN block.length ELSE block.size

(* WDF formats no request that is longer than its buffer's memory, and     *)
(* TransmitFrames asserts that there is something to send.                 *)
Sendable == table # <<>> => TransferLength \in 1..BufferLength

(* The transfer may be cut short, and a whole one from a host may carry    *)
(* the zero that the host's TransmitFrames pads with. The host reads no    *)
(* more than its buffer takes.                                             *)
Transfer ==
  /\ Sendable
  /\ \E left \in Leftovers :
       \/ receiver = "function" /\ \E n \in 0..(TransferLength + 1) : Receive(n, left)
       \/ receiver = "host" /\ \E n \in 0..TransferLength : n <= ReadLength /\ Receive(n, left)

(* Another block never reaches the other end.                              *)
SendRefused ==
  /\ phase = "built" /\ ~Sendable
  /\ phase' = "done"
  /\ UNCHANGED <<senderVars, block, received, parserVars>>

(* GetNextDatagram in the current table. *)
NextInTable ==
  /\ phase = "parse" /\ index # count
  /\ index < Len(seen[ndp].entries)
  /\ out' = Append(out, seen[ndp].entries[index + 1])
  /\ index' = index + 1
  /\ UNCHANGED <<phase, senderVars, block, received, seen, limit, ndp, next, count>>

(* The index has passed the count and leaves the table: the code takes     *)
(* what follows for entries, the model stops.                              *)
PastTable ==
  /\ phase = "parse" /\ index # count
  /\ index >= Len(seen[ndp].entries)
  /\ phase' = "done"
  /\ UNCHANGED <<senderVars, block, received, parserVars>>

(* Mutant: GetNextNdp leaves m_CurrentNdpDatagramIndex alone. *)
NextTableKeepingIndex ==
  /\ phase = "parse" /\ index = count
  /\ next # 0 /\ ValidTable(seen, next, limit)
  /\ EnterTable(seen, next, limit)
  /\ index' = index + 1
  /\ out' = Append(out, seen[next].entries[1])
  /\ UNCHANGED <<phase, senderVars, block, received, seen, limit>>

(* GetNextDatagram at the end of a table: the next one is entered and its  *)
(* first entry is taken, without another look at its count.                *)
NextTable ==
  /\ phase = "parse" /\ index = count
  /\ next # 0 /\ ValidTable(seen, next, limit)
  /\ EnterTable(seen, next, limit)
  /\ index' = 1
  /\ out' = Append(out, seen[next].entries[1])
  /\ UNCHANGED <<phase, senderVars, block, received, seen, limit>>

(* Mutant: only the first table of a block is read. *)
FirstTableOnly ==
  /\ phase = "parse" /\ index = count
  /\ phase' = "done"
  /\ UNCHANGED <<senderVars, block, received, parserVars>>

(* No further table, or one that is rejected: the block is done with.      *)
NoMoreEntries ==
  /\ phase = "parse" /\ index = count
  /\ next = 0 \/ ~ValidTable(seen, next, limit)
  /\ phase' = "done"
  /\ UNCHANGED <<senderVars, block, received, parserVars>>

(* Both buffers are given back, and ReInitializeBuffer clears what they    *)
(* left in the two objects.                                                *)
ReInitializeBuffer ==
  /\ phase = "done"
  /\ phase' = "idle"
  /\ offset' = 0 /\ table' = <<>> /\ block' = NoBlock /\ received' = 0
  /\ seen' = <<>> /\ limit' = 0
  /\ ndp' = 0 /\ next' = 0 /\ index' = 0 /\ count' = 0 /\ out' = <<>>
  /\ UNCHANGED receiver

-----------------------------------------------------------------------------
Build == PrepareToConstruct \/ (\E length \in Lengths : CopyNextDatagram(length)) \/ SetNdp

Parse == NextInTable \/ PastTable \/ NextTable \/ NoMoreEntries

Next == Build \/ PeerBuilds \/ Transfer \/ SendRefused \/ Parse \/ ReInitializeBuffer

Spec == Init /\ [][Next]_vars

-----------------------------------------------------------------------------
(* Properties.                                                             *)

(* What the receiver may rely on: the function on whatever arrives, the    *)
(* host on a block that has arrived whole.                                 *)
Trusted == receiver = "function" \/ received >= block.size

SenderType ==
  /\ receiver \in {"function", "host"} /\ phase \in {"idle", "pack", "built", "parse", "done"}
  /\ offset \in Nat /\ table \in Seq(Entries)

(* The parser's index stays within the entries that were counted, as long  *)
(* as the receiver can rely on what it reads.                              *)
TypeOK ==
  /\ SenderType
  /\ IsBlock(block) /\ IsTables(seen) /\ out \in Seq(Entries)
  /\ {received, limit, ndp, next, index, count} \subseteq Nat
  /\ Trusted => index <= count

(* In a block the driver builds, the datagrams follow the header and each  *)
(* other without sharing a byte, the table is behind all of them, payloads *)
(* and table are aligned as the receiver asked, and all of it lies in the  *)
(* buffer but the null entry that ends the table: no copy damages what an  *)
(* earlier one wrote or what is behind the buffer, whatever its size.      *)
Layout ==
  /\ table # <<>> => offset <= BufferLength
  /\ \A i \in 1..Len(table) :
       /\ (table[i].index + EthSize) % NdpDivisor = NdpPayloadRemainder
       /\ table[i].index >= NthSize /\ table[i].index + table[i].length <= offset
       /\ \A j \in 1..(i - 1) : table[j].index + table[j].length <= table[i].index
  /\ phase = "built" /\ table # <<>> =>
       \A at \in DOMAIN block.ndps :
         /\ at >= offset /\ at % NdpAlignment = 0
         /\ at + NdpSize + Len(table) * DpeSize <= BufferLength

(* A block that arrives whole, from this driver or another implementation, *)
(* gives the receiver every datagram the sender listed, in that order.     *)
RoundTrip ==
  phase = "done" /\ received > 0 /\ received >= block.size => out = block.listed

(* The receiver is given datagrams that the sender listed, in order, and   *)
(* each of them has arrived: on the function whatever part of the block    *)
(* arrives, on the host if all of it does (CutBlocksRejected is about the  *)
(* rest).                                                                  *)
OnlyListed ==
  Trusted =>
    /\ IsPrefix(out, block.listed)
    /\ \A i \in 1..Len(out) : out[i].index + out[i].length <= received

-----------------------------------------------------------------------------
(* The m tables of a block as its sender means them: at are their offsets  *)
(* in the order of the chain, from how many datagrams are listed before    *)
(* each, with the number of all of them at the end. Only the first may be  *)
(* empty.                                                                  *)
Tables(b, m, at, from) ==
  /\ at[1] = b.ndpIndex /\ from[1] = 0 /\ from[m + 1] = Len(b.listed)
  /\ \A k \in 1..m :
       LET t == b.ndps[at[k]]
           n == from[k + 1] - from[k]
       IN /\ t.next = IF k = m THEN 0 ELSE at[k + 1]
          /\ NthSize <= at[k] /\ at[k] + NdpSize + Len(t.entries) * DpeSize <= b.size
          /\ n \in 0..(Len(t.entries) - 1) /\ (k > 1 => n > 0) /\ Len(t.entries) >= 2
          /\ Scanned(t.entries, b.size, n)
          /\ \A i \in 1..n : t.entries[i] = b.listed[from[k] + i]

Offsets(b, m) == [1..m -> DOMAIN b.ndps]
Counts(b, m) == [1..(m + 1) -> 0..Len(b.listed)]

Chained(b) ==
  \E m \in 1..(Len(b.listed) + 1) :
    \E at \in Offsets(b, m), from \in Counts(b, m) : Tables(b, m, at, from)

(* What the blocks of another implementation must be for the receiver to   *)
(* read them as they are meant: an open length leaves room for the zero    *)
(* behind the block.                                                       *)
Conforms(b) ==
  IsBlock(b) /\ Chained(b) /\ (b.length = b.size \/ (b.length = 0 /\ b.size < PtrLimit))

PeersConform == \A b \in PeerBlocks : Conforms(b)

-----------------------------------------------------------------------------
(* The inductive invariant. *)

SenderInv ==
  /\ phase = "idle" => table = <<>>
  /\ table # <<>> =>
       AlignUp(offset, NdpAlignment) + NdpSize + Len(table) * DpeSize <= BufferLength
  /\ phase \in {"idle", "pack"} => block = NoBlock
  /\ phase = "pack" => offset >= NthSize
  /\ \A i \in 1..Len(table) : table[i].length > 0

(* The blocks that travel are chained, unless they are too long for the    *)
(* pointers: then their table is not in what BlockLength tells.            *)
BlockInv ==
  phase \in {"built", "parse"} =>
    /\ block.size <= PtrLimit + 1 => Chained(block)
    /\ block.size > PtrLimit + 1 =>
         \A at \in DOMAIN block.ndps :
           at + NdpSize + Len(block.ndps[at].entries) * DpeSize = block.size
    /\ table # <<>> => block.length = Pointer(block.size)
    /\ table = <<>> =>
         /\ block.size <= PtrLimit
         /\ block.length = block.size \/ (block.length = 0 /\ block.size < PtrLimit)

(* Before the transfer the receiver has nothing. *)
FreshInv ==
  phase \in {"idle", "pack", "built"} =>
    received = 0 /\ out = <<>> /\ index = 0 /\ count = 0

(* On the host an open block length is not cut to PTR_SIZE. *)
ReadFits == receiver = "host" => ReadLength <= PtrLimit

(* A table of the block that has arrived whole is found, and one that is   *)
(* found where something has arrived is the block's.                       *)
SeenInv ==
  /\ \A at \in DOMAIN block.ndps :
       at + NdpSize + Len(block.ndps[at].entries) * DpeSize <= received =>
         at \in DOMAIN seen /\ seen[at] = block.ndps[at]
  /\ \A at \in DOMAIN seen :
       at < received =>
         at \in DOMAIN block.ndps /\ Len(seen[at].entries) = Len(block.ndps[at].entries)

(* The receiver is in one of the tables the sender means, and has been     *)
(* given what is listed up to its index in it.                             *)
InChain ==
  \E m \in 1..(Len(block.listed) + 1) :
    \E at \in Offsets(block, m), from \in Counts(block, m), k \in 1..m :
      /\ Tables(block, m, at, from)
      /\ ndp = at[k] /\ next = seen[ndp].next
      /\ count = from[k + 1] - from[k] /\ Len(out) = from[k] + index

(* What the function holds for the end of the block has arrived; either    *)
(* receiver holds for it at least the end of a block that arrived whole.   *)
ParseInv ==
  phase = "parse" =>
    /\ ndp \in DOMAIN seen /\ SeenInv
    /\ receiver = "function" => limit <= received
    /\ Trusted =>
         /\ ReadFits /\ received >= block.size => limit >= block.size
         /\ seen[ndp] = block.ndps[ndp] /\ Scanned(seen[ndp].entries, received, count)
         /\ InChain

SenderIInv == SenderType /\ SenderInv /\ Layout

IInv ==
  /\ TypeOK /\ SenderIInv /\ BlockInv /\ FreshInv /\ ParseInv /\ OnlyListed
  /\ ReadFits => RoundTrip

-----------------------------------------------------------------------------
(* A finished block, with the null entry that ends its table, fits the     *)
(* sender's buffer.                                                        *)
BlockFits == phase = "built" => block.size <= BufferLength

(* A block whose header says that it is longer than what arrived is bad:   *)
(* none of its datagrams is given out.                                     *)
CutBlocksRejected ==
  NthSize <= received /\ received < block.length => out = <<>>

=============================================================================
