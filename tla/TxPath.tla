------------------------------- MODULE TxPath -------------------------------
(***************************************************************************)
(* The transmit path of the NCM driver: NcmTxQueue::Advance, which packs   *)
(* OS packets into transfer blocks and hands them to the bus, the pool of  *)
(* preallocated buffer requests it draws from, the completion routine that *)
(* returns a buffer from another thread, and StartTransmit/StopTransmit,   *)
(* which bound the time in which requests may be outstanding.              *)
(*                                                                         *)
(* device says which of the two device objects is below the queue:         *)
(*   "function"  references are counted by m_BulkInRundown                 *)
(*               (function/device.cpp): acquired before a request is sent, *)
(*               released by the last line of the completion routine;      *)
(*   "host"      references are the requests the bulk-out pipe's I/O       *)
(*               target has accepted and whose completion routine has not  *)
(*               returned (host/device.cpp: WdfIoTargetStop waits for      *)
(*               them); the count itself is the framework's.               *)
(*                                                                         *)
(* NetAdapterCx, which is not under src/, is the scheduler: it runs the    *)
(* queue's Advance and Cancel one at a time, calls Start before the first  *)
(* Advance and Stop only after Cancel, and posts packets between Advances. *)
(***************************************************************************)
EXTENDS Integers, FiniteSets

CONSTANTS
  Buffers,       \* the buffer requests of one TX_BUFFER_REQUEST_POOL (128 in the code)
  NoBuffer,      \* Advance holds no buffer request
  MaxDatagrams,  \* m_MaxDatagramCount: datagrams one transfer block can hold
  MaxPackets     \* bound on the packets the OS posts in a behaviour

ASSUME BufferAssumption == IsFiniteSet(Buffers) /\ NoBuffer \notin Buffers
ASSUME DatagramAssumption == MaxDatagrams \in Nat \ {0}
ASSUME PacketAssumption == MaxPackets \in Nat

VARIABLES
  device,     \* the device object below the queue, "function" or "host"
  queue,      \* life of the NETPACKETQUEUE
  begin,      \* BeginIndex of the packet ring, as a packet number
  end,        \* EndIndex of the packet ring, as a packet number
  it,         \* Advance's packet iterator
  pc,         \* what Advance does next
  cur,        \* Advance's local bufferRequest
  pool,       \* buffer requests in the pool's list
  inflight,   \* buffer requests the bus owns
  first,      \* number of the first packet packed in each buffer
  count,      \* packets packed in each buffer, 0 when TransferLength is 0
  releasing,  \* completion routines past their buffer return, not past the release
  refs,       \* references that keep StopTransmit waiting
  gate,       \* new requests are let through to the bus
  wire        \* history: the last packet number handed to the bus

vars == <<device, queue, begin, end, it, pc, cur, pool, inflight, first, count,
          releasing, refs, gate, wire>>

ringVars   == <<begin, end, it>>
bufferVars == <<pool, inflight, first, count>>

-----------------------------------------------------------------------------
(* The pool of buffer requests.                                            *)

(* TxBufferRequestPoolCreate: every preallocated buffer is in the list.    *)
TxBufferRequestPoolCreate ==
  /\ pool' = Buffers
  /\ first' = [b \in Buffers |-> 0]
  /\ count' = [b \in Buffers |-> 0]

(* TxBufferRequestPoolReturnBufferRequest: the request is reused, its      *)
(* TransferLength cleared, and the buffer put back in the list.            *)
TxBufferRequestPoolReturn(b) ==
  /\ pool' = pool \cup {b}
  /\ count' = [count EXCEPT ![b] = 0]
  /\ UNCHANGED first

-----------------------------------------------------------------------------
(* The life of the queue.                                                  *)

Init ==
  /\ device \in {"function", "host"}
  /\ queue = "none" /\ pc = "idle" /\ cur = NoBuffer
  /\ begin = 1 /\ end = 1 /\ it = 1 /\ wire = 0
  /\ pool = {} /\ inflight = {}
  /\ first = [b \in Buffers |-> 0] /\ count = [b \in Buffers |-> 0]
  /\ releasing = 0 /\ refs = 0 /\ gate = "shut"

(* EvtCreateTxQueue and InitializeQueue. The pool and the transfer block   *)
(* are children of the queue object; m_TxQueue then names this queue.      *)
EvtCreateTxQueue ==
  /\ queue = "none"
  /\ queue' = "created"
  /\ TxBufferRequestPoolCreate
  /\ UNCHANGED <<device, ringVars, pc, cur, inflight, releasing, refs, gate, wire>>

(* Start, through StartTransmit: ExReInitializeRundownProtection, or       *)
(* WdfIoTargetStart on the bulk-out pipe.                                  *)
StartTransmit ==
  /\ queue \in {"created", "stopped"}
  /\ queue' = "running"
  /\ gate' = "open"
  /\ refs' = IF device = "function" THEN 0 ELSE refs
  /\ UNCHANGED <<device, ringVars, pc, cur, bufferVars, releasing, wire>>

(* Mutant: Cancel forgets the packets the OS posted after the last Advance. *)
CancelLeavesPackets ==
  /\ queue = "running" /\ pc = "idle"
  /\ queue' = "canceled"
  /\ UNCHANGED <<device, ringVars, pc, cur, bufferVars, releasing, refs, gate, wire>>

(* Cancel: every packet still in the ring goes back to the OS.             *)
Cancel ==
  /\ queue = "running" /\ pc = "idle"
  /\ queue' = "canceled"
  /\ begin' = end
  /\ UNCHANGED <<device, end, it, pc, cur, bufferVars, releasing, refs, gate, wire>>

(* StopTransmit is entered: ExWaitForRundownProtectionRelease turns new    *)
(* references away, WdfIoTargetStop turns new requests away and cancels    *)
(* the sent ones; either then waits.                                       *)
StopTransmit ==
  /\ queue = "canceled"
  /\ queue' = "stopping"
  /\ gate' = "shut"
  /\ UNCHANGED <<device, ringVars, pc, cur, bufferVars, releasing, refs, wire>>

(* Mutant: StopTransmit does not wait (WdfIoTargetLeaveSentIoPending). *)
StopTransmitLeavesSentIo ==
  /\ queue = "stopping"
  /\ queue' = "stopped"
  /\ UNCHANGED <<device, ringVars, pc, cur, bufferVars, releasing, refs, gate, wire>>

(* The wait in StopTransmit is over: no reference is left.                 *)
StopTransmitReturns ==
  /\ queue = "stopping" /\ refs = 0
  /\ queue' = "stopped"
  /\ UNCHANGED <<device, ringVars, pc, cur, bufferVars, releasing, refs, gate, wire>>

(* The framework deletes the queue object, and with it the pool, every     *)
(* buffer and every WDFREQUEST.                                            *)
DestroyQueue ==
  /\ queue = "stopped"
  /\ queue' = "none"
  /\ pool' = {}
  /\ UNCHANGED <<device, ringVars, pc, cur, inflight, first, count, releasing, refs,
                 gate, wire>>

-----------------------------------------------------------------------------
(* NcmTxQueue::Advance, step by step: a step ends where the pool, the      *)
(* rundown or the bus, which other threads use too, is touched.            *)

(* The OS hands packets to the queue and polls it. *)
PostPackets ==
  /\ queue = "running" /\ pc = "idle"
  /\ \E e \in (end + 1)..(MaxPackets + 1) : end' = e
  /\ UNCHANGED <<device, queue, begin, it, pc, cur, bufferVars, releasing, refs, gate, wire>>

AdvanceBegin ==
  /\ queue = "running" /\ pc = "idle" /\ begin < end
  /\ it' = begin
  /\ pc' = "get"
  /\ UNCHANGED <<device, queue, begin, end, cur, bufferVars, releasing, refs, gate, wire>>

(* TxBufferRequestPoolGetBufferRequest succeeds. *)
GetBufferRequest ==
  /\ pc = "get"
  /\ \E b \in pool : cur' = b /\ pool' = pool \ {b}
  /\ pc' = "pack"
  /\ UNCHANGED <<device, queue, ringVars, inflight, first, count, releasing, refs, gate, wire>>

(* No buffer request is available: this packet is dropped and completed.   *)
DropPacket ==
  /\ pc = "get" /\ pool = {}
  /\ it' = it + 1
  /\ pc' = "set"
  /\ UNCHANGED <<device, queue, begin, end, cur, bufferVars, releasing, refs, gate, wire>>

(* ReInitializeBuffer, the inner loop over CopyNextDatagram and SetNdp:    *)
(* the block takes packets in ring order until the ring is empty, the      *)
(* block holds MaxDatagrams or the next datagram does not fit. That the    *)
(* first one fits an empty block is assumed here.                          *)
PackBlock ==
  /\ pc = "pack"
  /\ \E n \in 1..MaxDatagrams :
        /\ it + n <= end
        /\ first' = [first EXCEPT ![cur] = it]
        /\ count' = [count EXCEPT ![cur] = n]
        /\ it' = it + n
  /\ pc' = IF device = "function" THEN "acquire" ELSE "issue"
  /\ UNCHANGED <<device, queue, begin, end, cur, pool, inflight, releasing, refs, gate, wire>>

(* TransmitFrames of the function device: ExAcquireRundownProtection, or   *)
(* STATUS_CANCELLED when the rundown has begun.                            *)
AcquireRundown ==
  /\ pc = "acquire"
  /\ refs' = IF gate = "open" THEN refs + 1 ELSE refs
  /\ pc' = IF gate = "open" THEN "issue" ELSE "return"
  /\ UNCHANGED <<device, queue, ringVars, cur, bufferVars, releasing, gate, wire>>

(* Mutant: Advance returns the buffer although the send succeeded. *)
SendRequestAndReturn ==
  /\ pc = "issue"
  /\ inflight' = inflight \cup {cur}
  /\ refs' = IF device = "host" THEN refs + 1 ELSE refs
  /\ wire' = first[cur] + count[cur] - 1
  /\ pc' = "return"
  /\ UNCHANGED <<device, queue, ringVars, cur, pool, first, count, releasing, gate>>

(* TransmitFrames: the request is formatted and WdfRequestSend accepts it. *)
(* From here on the buffer may be completed, returned and drawn again      *)
(* before Advance takes another step.                                      *)
SendRequest ==
  /\ pc = "issue"
  /\ inflight' = inflight \cup {cur}
  /\ refs' = IF device = "host" THEN refs + 1 ELSE refs
  /\ wire' = first[cur] + count[cur] - 1
  /\ cur' = NoBuffer
  /\ pc' = "set"
  /\ UNCHANGED <<device, queue, ringVars, pool, first, count, releasing, gate>>

(* Mutant: the failed send releases its reference, and then once more. *)
SendFailsReleasing ==
  /\ pc = "issue"
  /\ refs' = refs - 1
  /\ pc' = IF device = "function" THEN "release" ELSE "return"
  /\ UNCHANGED <<device, queue, ringVars, cur, bufferVars, releasing, gate, wire>>

(* TransmitFrames: formatting or sending fails; no completion will come.   *)
SendFails ==
  /\ pc = "issue"
  /\ pc' = IF device = "function" THEN "release" ELSE "return"
  /\ UNCHANGED <<device, queue, ringVars, cur, bufferVars, releasing, refs, gate, wire>>

(* Mutant: the reference of a failed send is kept. *)
KeepReferenceOfFailedSend ==
  /\ pc = "release"
  /\ pc' = "return"
  /\ UNCHANGED <<device, queue, ringVars, cur, bufferVars, releasing, refs, gate, wire>>

(* The function device gives back the reference of the failed send. *)
ReleaseFailedSend ==
  /\ pc = "release"
  /\ refs' = refs - 1
  /\ pc' = "return"
  /\ UNCHANGED <<device, queue, ringVars, cur, bufferVars, releasing, gate, wire>>

(* Mutant: the local pointer is cleared before the buffer is returned. *)
ReturnAfterClearing ==
  /\ pc = "return"
  /\ cur' = NoBuffer
  /\ TxBufferRequestPoolReturn(cur')
  /\ pc' = "set"
  /\ UNCHANGED <<device, queue, ringVars, inflight, releasing, refs, gate, wire>>

(* Mutant: a buffer whose send failed is forgotten. *)
ForgetUnsentBuffer ==
  /\ pc = "return"
  /\ cur' = NoBuffer
  /\ pc' = "set"
  /\ UNCHANGED <<device, queue, ringVars, bufferVars, releasing, refs, gate, wire>>

(* Advance returns the buffer of a failed send itself. *)
ReturnUnsentBuffer ==
  /\ pc = "return"
  /\ TxBufferRequestPoolReturn(cur)
  /\ cur' = NoBuffer
  /\ pc' = "set"
  /\ UNCHANGED <<device, queue, ringVars, inflight, releasing, refs, gate, wire>>

(* Mutant: the ring is set one packet behind the iterator. *)
SetRingOneShort ==
  /\ pc = "set"
  /\ begin' = it - 1
  /\ pc' = IF it < end THEN "get" ELSE "idle"
  /\ UNCHANGED <<device, queue, end, it, cur, bufferVars, releasing, refs, gate, wire>>

(* pi.Set(): the packets behind the iterator are the OS's again. *)
SetRing ==
  /\ pc = "set"
  /\ begin' = it
  /\ pc' = IF it < end THEN "get" ELSE "idle"
  /\ UNCHANGED <<device, queue, end, it, cur, bufferVars, releasing, refs, gate, wire>>

-----------------------------------------------------------------------------
(* The completion routine TransmitFramesCompetion, on any thread, whether  *)
(* the transfer succeeded, timed out (3 s, 5 s on the host) or was         *)
(* cancelled by StopTransmit: the routine never looks at the status.       *)

(* Mutant: the rundown is released before the buffer goes back. *)
ReleaseBeforeReturn(b) ==
  /\ b \in inflight
  /\ inflight' = inflight \ {b}
  /\ TxBufferRequestPoolReturn(b)
  /\ releasing' = releasing + 1
  /\ refs' = refs - 1
  /\ UNCHANGED <<device, queue, ringVars, pc, cur, gate, wire>>

(* TxBufferRequestPoolReturnBufferRequest, from NotifyTransmitCompletion.  *)
NotifyTransmitCompletion(b) ==
  /\ b \in inflight
  /\ inflight' = inflight \ {b}
  /\ TxBufferRequestPoolReturn(b)
  /\ releasing' = releasing + 1
  /\ UNCHANGED <<device, queue, ringVars, pc, cur, refs, gate, wire>>

(* ExReleaseRundownProtection, or the framework's count once the host's    *)
(* routine has returned.                                                   *)
CompletionReleases ==
  /\ releasing > 0
  /\ releasing' = releasing - 1
  /\ refs' = refs - 1
  /\ UNCHANGED <<device, queue, ringVars, pc, cur, bufferVars, gate, wire>>

-----------------------------------------------------------------------------
Lifecycle ==
  EvtCreateTxQueue \/ StartTransmit \/ Cancel \/ StopTransmit
    \/ StopTransmitReturns \/ DestroyQueue

Advance ==
  AdvanceBegin \/ GetBufferRequest \/ DropPacket \/ PackBlock \/ AcquireRundown
    \/ SendRequest \/ SendFails \/ ReleaseFailedSend \/ ReturnUnsentBuffer
    \/ SetRing

Completion == (\E b \in Buffers : NotifyTransmitCompletion(b)) \/ CompletionReleases

Next == Lifecycle \/ PostPackets \/ Advance \/ Completion

(* Advance is a loop of the framework's polling thread, every sent request *)
(* carries a timeout so its completion routine runs, and a thread waiting  *)
(* in StopTransmit is woken when the last reference goes.                  *)
Fairness ==
  /\ WF_vars(Advance)
  /\ \A b \in Buffers : WF_vars(NotifyTransmitCompletion(b))
  /\ WF_vars(CompletionReleases)
  /\ WF_vars(StopTransmitReturns)

Spec == Init /\ [][Next]_vars
FairSpec == Spec /\ Fairness

-----------------------------------------------------------------------------
(* Properties.                                                             *)

TypeOK ==
  /\ device \in {"function", "host"}
  /\ queue \in {"none", "created", "running", "canceled", "stopping", "stopped"}
  /\ begin \in Nat /\ end \in Nat /\ it \in Nat /\ wire \in Nat
  /\ pc \in {"idle", "get", "pack", "acquire", "issue", "release", "return", "set"}
  /\ cur \in Buffers \cup {NoBuffer}
  /\ pool \in SUBSET Buffers /\ inflight \in SUBSET Buffers
  /\ first \in [Buffers -> Nat] /\ count \in [Buffers -> Nat]
  /\ releasing \in Nat /\ refs \in Int
  /\ gate \in {"open", "shut"}

Held == IF cur = NoBuffer THEN {} ELSE {cur}

(* While the queue exists each buffer request has exactly one owner: the   *)
(* pool, Advance or the bus. A buffer returned twice, or drawn while the   *)
(* bus still reads it, breaks this.                                        *)
OneOwner ==
  /\ pool \cap inflight = {} /\ pool \cap Held = {} /\ inflight \cap Held = {}
  /\ queue # "none" => pool \cup inflight \cup Held = Buffers

(* Once StopTransmit has returned, no completion routine is running or     *)
(* will run: the pool, the adapter and m_TxQueue, which it dereferences,   *)
(* may be deleted.                                                         *)
QuietWhenStopped ==
  queue \in {"none", "created", "stopped"} => inflight = {} /\ releasing = 0

(* Every buffer is back in the pool when the framework deletes the queue:  *)
(* a send that failed, timed out or was cancelled leaks none.              *)
PoolWholeWhenStopped == queue \in {"created", "stopped"} => pool = Buffers

(* A reference is never released without having been acquired, and the     *)
(* rundown is re-initialised only when nothing holds it.                   *)
ReferencesBalance ==
  /\ refs >= 0
  /\ queue \in {"created", "stopped"} => refs = 0

(* Packets reach the bus in the order the OS posted them and none of them  *)
(* twice: a block handed to the bus starts after the last packet handed    *)
(* over before it and is never empty (TransferLength > 0 is asserted).     *)
FifoOnce ==
  [][\A b \in inflight' \ inflight : first[b] > wire /\ count[b] > 0]_vars

(* StopTransmit always returns: nobody waits for a reference that is       *)
(* never released.                                                         *)
StopCompletes == queue = "stopping" ~> queue = "stopped"

(* Every packet the OS posts is completed to it, whatever the pool, the    *)
(* bus and the send path do.                                               *)
PacketsComplete == \A p \in 1..MaxPackets : p < end ~> p < begin

(* The transmit path implements the abstract ledger: what is outstanding   *)
(* there is what the bus holds plus the completion routines still running, *)
(* whatever the code's own count of references says.                       *)
Ledger == INSTANCE TxLedger WITH
  phase <- queue, done <- begin, posted <- end,
  outstanding <- Cardinality(inflight) + releasing

ImplementsLedger == Ledger!Spec

-----------------------------------------------------------------------------
(* The inductive invariant behind the safety properties (TxPath_proofs).   *)

(* The reference Advance itself holds between acquiring and sending. *)
AdvanceReference == IF device = "function" /\ pc \in {"issue", "release"} THEN 1 ELSE 0

(* Every reference stands for one sent request, one completion routine or  *)
(* Advance: why waiting for refs = 0 is waiting for all of them.           *)
ReferencesCounted == refs = Cardinality(inflight) + releasing + AdvanceReference

Holding == {"pack", "acquire", "issue", "release", "return"}

(* Where Advance can be, in which phase of the queue. *)
PhaseInv ==
  /\ pc # "idle" => queue = "running"
  /\ pc \in {"acquire", "release"} => device = "function"
  /\ cur # NoBuffer <=> pc \in Holding
  /\ gate = "open" <=> queue \in {"running", "canceled"}
  /\ queue \in {"none", "created", "stopped"} => refs = 0
  /\ queue = "none" => pool = {}

(* Ring indices against the iterator, and the iterator against the wire. *)
RingInv ==
  /\ begin <= end
  /\ pc = "idle" => wire < begin
  /\ pc # "idle" => begin <= it /\ it <= end
  /\ pc \in {"get", "pack"} => it < end /\ wire < it
  /\ pc = "set" => wire < it /\ begin < it
  /\ pc \in Holding \ {"pack"} =>
       /\ wire < first[cur] /\ count[cur] > 0
       /\ begin <= first[cur] /\ it = first[cur] + count[cur]

IInv == TypeOK /\ OneOwner /\ ReferencesCounted /\ PhaseInv /\ RingInv

=============================================================================
