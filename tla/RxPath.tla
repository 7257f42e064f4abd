------------------------------- MODULE RxPath -------------------------------
(***************************************************************************)
(* The receive path of the function driver: PENDING_BULK_IN_READS reads    *)
(* stream from the bulk-out pipe, each completion queues its buffer in the *)
(* RX_BUFFER_QUEUE and wakes the receive queue if its notification is      *)
(* armed, and NcmRxQueue::Advance turns queued blocks into frames, keeping *)
(* a half-read block in m_RxBufferInProcessing from one Advance to the     *)
(* next. Completions run on other threads at any time.                     *)
(*                                                                         *)
(* Two neighbours are not under src/. NetAdapterCx polls Advance while it  *)
(* makes progress; without progress it arms the notification, polls once   *)
(* more, and sleeps if that brought nothing either. The DMF continuous     *)
(* reader owns the read buffers: a completion hands one to the driver for  *)
(* good (ClientAndContinueStreaming) and BufferPut gives it back;          *)
(* StopAndWait cancels the reads and waits for their completions.          *)
(***************************************************************************)
EXTENDS Integers, Sequences, FiniteSets, SequencesExt

CONSTANTS
  Reads,      \* the streaming read requests (3 in the code)
  Buffers,    \* the reader's buffers
  NoBuffer,   \* no buffer
  MaxFrames,  \* bound on the deliverable frames in one block
  RingSize    \* fragments the OS posts to the queue's ring before a poll

ASSUME RxAssumption ==
  /\ IsFiniteSet(Reads) /\ IsFiniteSet(Buffers) /\ NoBuffer \notin Buffers
  /\ MaxFrames \in Nat /\ RingSize \in Nat \ {0}

VARIABLES
  queue,      \* life of the NETPACKETQUEUE
  streaming,  \* the continuous reader resends its reads
  stage,      \* what each read is doing
  buf,        \* the buffer each read, or its callback, holds
  idle,       \* buffers the reader can issue reads with
  rxq,        \* the RX_BUFFER_QUEUE
  frames,     \* deliverable frames left in each queued or half-read block
  cur,        \* m_RxBufferInProcessing
  free,       \* fragments of the ring Advance may still fill
  notify,     \* m_NotificationEnabled
  fw,         \* what the polling framework does
  progress,   \* this Advance has filled a fragment
  armed,      \* the framework has armed the notification
  woken,      \* NetRxQueueNotifyMoreReceivedPacketsAvailable is pending
  leaked      \* buffers nobody will ever give back to the reader

vars == <<queue, streaming, stage, buf, idle, rxq, frames, cur, free, notify,
          fw, progress, armed, woken, leaked>>

readVars   == <<streaming, stage, buf>>
bufferVars == <<idle, rxq, frames, cur, leaked>>
pollVars   == <<free, fw, progress, armed>>

-----------------------------------------------------------------------------
Init ==
  /\ queue = "none" /\ streaming = FALSE
  /\ stage = [r \in Reads |-> "idle"] /\ buf = [r \in Reads |-> NoBuffer]
  /\ idle = Buffers /\ rxq = <<>> /\ frames = [b \in Buffers |-> 0]
  /\ cur = NoBuffer /\ free = 0 /\ notify = FALSE
  /\ fw = "off" /\ progress = FALSE /\ armed = FALSE /\ woken = FALSE
  /\ leaked = {}

(* EvtCreateRxQueue and InitializeQueue: an empty RX_BUFFER_QUEUE, no block *)
(* in processing.                                                          *)
EvtCreateRxQueue ==
  /\ queue = "none"
  /\ queue' = "created"
  /\ rxq' = <<>> /\ cur' = NoBuffer /\ notify' = FALSE
  /\ UNCHANGED <<readVars, idle, frames, leaked, pollVars, woken>>

(* Start, through StartReceive: the reader starts streaming, and the       *)
(* framework starts polling.                                               *)
StartReceive ==
  /\ queue \in {"created", "stopped"}
  /\ queue' = "running"
  /\ streaming' = TRUE
  /\ fw' = "poll" /\ armed' = FALSE
  /\ UNCHANGED <<stage, buf, bufferVars, free, notify, progress, woken>>

(* Cancel: the framework stops polling and the ring goes back to the OS;   *)
(* queued and half-read blocks stay where they are.                        *)
Cancel ==
  /\ queue = "running" /\ fw \in {"poll", "sleep"}
  /\ queue' = "canceled"
  /\ fw' = "off" /\ free' = 0
  /\ UNCHANGED <<readVars, bufferVars, notify, progress, armed, woken>>

(* Mutant: the reader is left streaming. *)
StopReceiveStreaming ==
  /\ queue = "canceled"
  /\ queue' = "stopping"
  /\ UNCHANGED <<readVars, bufferVars, pollVars, notify, woken>>

(* StopReceive is entered: StopAndWait stops resending and then waits.     *)
StopReceive ==
  /\ queue = "canceled"
  /\ queue' = "stopping"
  /\ streaming' = FALSE
  /\ UNCHANGED <<stage, buf, bufferVars, pollVars, notify, woken>>

(* Mutant: the reader is stopped without waiting for its completions. *)
StopReceiveReturnsAtOnce ==
  /\ queue = "stopping"
  /\ queue' = "stopped"
  /\ UNCHANGED <<readVars, bufferVars, pollVars, notify, woken>>

StopReceiveReturns ==
  /\ queue = "stopping" /\ \A r \in Reads : stage[r] = "idle"
  /\ queue' = "stopped"
  /\ UNCHANGED <<readVars, bufferVars, pollVars, notify, woken>>

(* The framework deletes the queue and its RX_BUFFER_QUEUE. What that      *)
(* queue and m_RxBufferInProcessing still held is never put back.          *)
DestroyQueue ==
  /\ queue = "stopped"
  /\ queue' = "none"
  /\ leaked' = leaked \cup ToSet(rxq) \cup ({cur} \ {NoBuffer})
  /\ rxq' = <<>> /\ cur' = NoBuffer
  /\ frames' = [b \in Buffers |-> 0]
  /\ woken' = FALSE
  /\ UNCHANGED <<readVars, idle, pollVars, notify>>

-----------------------------------------------------------------------------
(* The streaming reads and DataBulkOutPipeRead.                            *)

(* The continuous reader issues a read with one of its buffers. *)
IssueRead(r) ==
  /\ streaming /\ stage[r] = "idle"
  /\ \E b \in idle : buf' = [buf EXCEPT ![r] = b] /\ idle' = idle \ {b}
  /\ stage' = [stage EXCEPT ![r] = "pending"]
  /\ UNCHANGED <<queue, streaming, rxq, frames, cur, leaked, pollVars, notify, woken>>

(* The read fails or is cancelled: the buffer is the reader's again.       *)
ReadFails(r) ==
  /\ stage[r] = "pending"
  /\ stage' = [stage EXCEPT ![r] = "idle"]
  /\ idle' = idle \cup {buf[r]} /\ buf' = [buf EXCEPT ![r] = NoBuffer]
  /\ UNCHANGED <<queue, streaming, rxq, frames, cur, leaked, pollVars, notify, woken>>

(* The read succeeds and the buffer is the driver's from here on. *)
ReadSucceeds(r) ==
  /\ stage[r] = "pending"
  /\ stage' = [stage EXCEPT ![r] = "enqueue"]
  /\ UNCHANGED <<queue, streaming, buf, bufferVars, pollVars, notify, woken>>

(* RxBufferQueueEnqueueBuffer: a block with some number of frames worth    *)
(* delivering, none if it is malformed or all of them are filtered.        *)
EnqueueBuffer(r) ==
  /\ stage[r] = "enqueue"
  /\ rxq' = Append(rxq, buf[r]) /\ buf' = [buf EXCEPT ![r] = NoBuffer]
  /\ \E n \in 0..MaxFrames : frames' = [frames EXCEPT ![buf[r]] = n]
  /\ stage' = [stage EXCEPT ![r] = "notify"]
  /\ UNCHANGED <<queue, streaming, idle, cur, leaked, pollVars, notify, woken>>

(* No queue entry can be allocated; NotifyReceive ignores the status and   *)
(* the reader has been told that the driver keeps the buffer.              *)
EnqueueFails(r) ==
  /\ stage[r] = "enqueue"
  /\ leaked' = leaked \cup {buf[r]} /\ buf' = [buf EXCEPT ![r] = NoBuffer]
  /\ stage' = [stage EXCEPT ![r] = "notify"]
  /\ UNCHANGED <<queue, streaming, idle, rxq, frames, cur, pollVars, notify, woken>>

(* Mutant: a block in processing is taken for a promise to poll again. *)
NotifyUnlessProcessing(r) ==
  /\ stage[r] = "notify"
  /\ notify' = FALSE
  /\ stage' = [stage EXCEPT ![r] = IF notify /\ cur = NoBuffer THEN "signal" ELSE "idle"]
  /\ UNCHANGED <<queue, streaming, buf, bufferVars, pollVars, woken>>

(* NcmRxQueue::NotifyReceive: the armed flag is exchanged for FALSE, so    *)
(* one completion per arming goes on to signal the framework.              *)
NotifyReceive(r) ==
  /\ stage[r] = "notify"
  /\ notify' = FALSE
  /\ stage' = [stage EXCEPT ![r] = IF notify THEN "signal" ELSE "idle"]
  /\ UNCHANGED <<queue, streaming, buf, bufferVars, pollVars, woken>>

(* NetRxQueueNotifyMoreReceivedPacketsAvailable. *)
SignalFramework(r) ==
  /\ stage[r] = "signal"
  /\ woken' = TRUE
  /\ stage' = [stage EXCEPT ![r] = "idle"]
  /\ UNCHANGED <<queue, streaming, buf, bufferVars, pollVars, notify>>

-----------------------------------------------------------------------------
(* NcmRxQueue::Advance and GetNextFrame. The queue of blocks is shared     *)
(* with the completions; everything else here is the polling thread's.     *)

AdvanceBegin ==
  /\ fw = "poll"
  /\ fw' = "advance" /\ free' = RingSize /\ progress' = FALSE
  /\ UNCHANGED <<queue, readVars, bufferVars, armed, notify, woken>>

DequeueBuffer ==
  /\ fw = "advance" /\ free > 0 /\ cur = NoBuffer /\ rxq # <<>>
  /\ cur' = Head(rxq) /\ rxq' = Tail(rxq)
  /\ UNCHANGED <<queue, readVars, idle, frames, leaked, pollVars, notify, woken>>

(* A frame that passes the size check and the packet filter is copied into *)
(* the next fragment.                                                      *)
DeliverFrame ==
  /\ fw = "advance" /\ free > 0 /\ cur # NoBuffer /\ frames[cur] > 0
  /\ frames' = [frames EXCEPT ![cur] = @ - 1]
  /\ free' = free - 1 /\ progress' = TRUE
  /\ UNCHANGED <<queue, readVars, idle, rxq, cur, leaked, fw, armed, notify, woken>>

(* Mutant: m_RxBufferInProcessing is not cleared. *)
ReturnBufferKeepingPointer ==
  /\ fw = "advance" /\ free > 0 /\ cur # NoBuffer /\ frames[cur] = 0
  /\ idle' = idle \cup {cur}
  /\ UNCHANGED <<queue, readVars, rxq, frames, cur, leaked, pollVars, notify, woken>>

(* Mutant: m_RxBufferInProcessing is cleared first and then returned. *)
ReturnClearedPointer ==
  /\ fw = "advance" /\ free > 0 /\ cur # NoBuffer /\ frames[cur] = 0
  /\ cur' = NoBuffer
  /\ idle' = idle \cup {cur'}
  /\ UNCHANGED <<queue, readVars, rxq, frames, leaked, pollVars, notify, woken>>

(* The block has no more frames: RxBufferQueueReturnBuffer. *)
ReturnBuffer ==
  /\ fw = "advance" /\ free > 0 /\ cur # NoBuffer /\ frames[cur] = 0
  /\ idle' = idle \cup {cur}
  /\ cur' = NoBuffer
  /\ UNCHANGED <<queue, readVars, rxq, frames, leaked, pollVars, notify, woken>>

(* No fragment or no block is left. The framework polls again after any    *)
(* progress, disarming first if it had armed; it arms before its last try, *)
(* which the third disjunct follows with sleep.                            *)
AdvanceEnd ==
  /\ fw = "advance"
  /\ free = 0 \/ (cur = NoBuffer /\ rxq = <<>>)
  /\ \/ /\ progress
        /\ fw' = "poll" /\ armed' = FALSE
        /\ notify' = IF armed THEN FALSE ELSE notify
     \/ /\ ~progress /\ ~armed
        /\ fw' = "poll" /\ armed' = TRUE
        /\ notify' = TRUE
     \/ /\ ~progress /\ armed
        /\ fw' = "sleep"
        /\ UNCHANGED <<armed, notify>>
  /\ UNCHANGED <<queue, readVars, bufferVars, free, progress, woken>>

(* A signal ends the sleep; SetNotificationEnabled(FALSE) and poll again.  *)
WakeUp ==
  /\ fw = "sleep" /\ woken
  /\ woken' = FALSE
  /\ fw' = "poll" /\ armed' = FALSE /\ notify' = FALSE
  /\ UNCHANGED <<queue, readVars, bufferVars, free, progress>>

-----------------------------------------------------------------------------
Lifecycle ==
  EvtCreateRxQueue \/ StartReceive \/ Cancel \/ StopReceive
    \/ StopReceiveReturns \/ DestroyQueue

Callback(r) == EnqueueBuffer(r) \/ EnqueueFails(r) \/ NotifyReceive(r) \/ SignalFramework(r)

Read(r) == IssueRead(r) \/ ReadFails(r) \/ ReadSucceeds(r)

Advance == AdvanceBegin \/ DequeueBuffer \/ DeliverFrame \/ ReturnBuffer \/ AdvanceEnd

Next == Lifecycle \/ Advance \/ WakeUp \/ \E r \in Reads : Read(r) \/ Callback(r)

(* The polling thread and the callbacks run, a thread waiting in           *)
(* StopAndWait is woken, and StopAndWait cancels the pending reads.        *)
Fairness ==
  /\ WF_vars(Advance) /\ WF_vars(WakeUp) /\ WF_vars(StopReceiveReturns)
  /\ \A r \in Reads : WF_vars(Callback(r))
  /\ \A r \in Reads : WF_vars(queue = "stopping" /\ ReadFails(r))

Spec == Init /\ [][Next]_vars
FairSpec == Spec /\ Fairness

-----------------------------------------------------------------------------
(* Properties.                                                             *)

TypeOK ==
  /\ queue \in {"none", "created", "running", "canceled", "stopping", "stopped"}
  /\ streaming \in BOOLEAN
  /\ stage \in [Reads -> {"idle", "pending", "enqueue", "notify", "signal"}]
  /\ buf \in [Reads -> Buffers \cup {NoBuffer}]
  /\ idle \subseteq Buffers /\ leaked \subseteq Buffers
  /\ rxq \in Seq(Buffers) /\ cur \in Buffers \cup {NoBuffer}
  /\ frames \in [Buffers -> 0..MaxFrames]
  /\ free \in 0..RingSize
  /\ fw \in {"off", "poll", "advance", "sleep"}
  /\ notify \in BOOLEAN /\ progress \in BOOLEAN /\ armed \in BOOLEAN /\ woken \in BOOLEAN

(* The buffers with the reads and their callbacks, and with Advance. *)
InReads == {buf[r] : r \in Reads} \ {NoBuffer}
Processing == {cur} \ {NoBuffer}

(* Every read buffer has one owner at a time: the reader, one read or its  *)
(* callback, one place in the queue, or Advance. None is put back twice    *)
(* and none is read into while its frames are being delivered.             *)
OneOwner ==
  /\ \A r, s \in Reads : buf[r] = buf[s] /\ buf[r] # NoBuffer => r = s
  /\ \A i, j \in 1..Len(rxq) : rxq[i] = rxq[j] => i = j
  /\ Buffers = idle \cup InReads \cup ToSet(rxq) \cup Processing \cup leaked
  /\ idle \cap (InReads \cup ToSet(rxq) \cup Processing \cup leaked) = {}
  /\ InReads \cap (ToSet(rxq) \cup Processing \cup leaked) = {}
  /\ ToSet(rxq) \cap (Processing \cup leaked) = {}
  /\ Processing \cap leaked = {}

(* After StopReceive has returned no callback is running, so the queue,    *)
(* the adapter and m_RxQueue, which callbacks dereference, may go.         *)
QuietWhenStopped ==
  queue \in {"none", "created", "stopped"} => \A r \in Reads : stage[r] = "idle"

(* The framework sleeps only while something will wake it: with a block    *)
(* queued or half read, it has been signalled, a callback is about to      *)
(* signal it, or one has yet to see that the notification is armed.        *)
SleepIsSafe ==
  fw = "sleep" /\ (rxq # <<>> \/ cur # NoBuffer) =>
    \/ woken
    \/ \E r \in Reads : stage[r] = "signal"
    \/ notify /\ \E r \in Reads : stage[r] = "notify"

-----------------------------------------------------------------------------
(* The inductive invariant of the proofs (RxPath_proofs). *)

(* A read holds a buffer from its issue until the buffer is queued.        *)
ReadInv == \A r \in Reads : buf[r] # NoBuffer <=> stage[r] \in {"pending", "enqueue"}

(* The reader streams, and the framework polls, only in a started queue; a *)
(* queue that is gone holds no block.                                      *)
LifeInv ==
  /\ streaming => queue \in {"running", "canceled"}
  /\ fw # "off" <=> queue = "running"
  /\ queue = "none" => rxq = <<>> /\ cur = NoBuffer

(* An Advance that has filled nothing has room left. *)
RoomInv == fw = "advance" /\ ~progress => free > 0

Signalling == woken \/ \E r \in Reads : stage[r] = "signal"

(* Whoever has cleared an armed notification signals; and a block that came *)
(* after the last Advance has a callback that has not looked at it yet.    *)
WakeInv ==
  /\ fw = "sleep" => armed /\ cur = NoBuffer
  /\ fw # "off" /\ armed => notify \/ Signalling
  /\ fw = "sleep" /\ rxq # <<>> => Signalling \/ \E r \in Reads : stage[r] = "notify"

IInv ==
  /\ TypeOK /\ OneOwner /\ QuietWhenStopped
  /\ ReadInv /\ LifeInv /\ RoomInv /\ WakeInv

-----------------------------------------------------------------------------
(* A received block is always taken up, unless the queue is stopped.       *)
NoLostWakeup ==
  \A b \in Buffers :
    (queue = "running" /\ b \in ToSet(rxq)) ~> (queue # "running" \/ b \notin ToSet(rxq))

(* StopReceive always returns. *)
StopCompletes == queue = "stopping" ~> queue = "stopped"

(* Deleting a stopped queue takes no read buffer with it: the buffers the  *)
(* reader allocated in advance last for any number of sessions.            *)
NoBufferDiesWithQueue == [][DestroyQueue => leaked' = leaked]_vars

=============================================================================
