--------------------------- MODULE TxPath_proofs ---------------------------
(***************************************************************************)
(* Machine-checked proofs about TxPath, for every set of buffers, every    *)
(* block capacity and either device object. IInv is inductive; the safety  *)
(* properties follow from it, and so does every step of the refinement of  *)
(* TxLedger.                                                               *)
(***************************************************************************)
EXTENDS TxPath, FiniteSetTheorems, TLAPS

USE BufferAssumption, DatagramAssumption, PacketAssumption

(* The bus holds finitely many buffers, as many as Cardinality says.       *)
LEMMA InflightFinite ==
  ASSUME TypeOK
  PROVE  IsFiniteSet(inflight) /\ Cardinality(inflight) \in Nat
BY FS_Subset, FS_CardinalityType DEF TypeOK

(* Handing one more buffer to the bus adds one to what is outstanding.     *)
LEMMA InflightAdd ==
  ASSUME TypeOK, NEW b \in Buffers, b \notin inflight
  PROVE  Cardinality(inflight \cup {b}) = Cardinality(inflight) + 1
BY InflightFinite, FS_AddElement

(* A completion takes one from it. *)
LEMMA InflightRemove ==
  ASSUME TypeOK, NEW b \in inflight
  PROVE  /\ Cardinality(inflight \ {b}) = Cardinality(inflight) - 1
         /\ Cardinality(inflight) > 0
<1>1. IsFiniteSet(inflight) /\ Cardinality(inflight) \in Nat
  BY InflightFinite
<1>2. Cardinality(inflight \ {b}) = Cardinality(inflight) - 1
  BY <1>1, FS_RemoveElement
<1>3. Cardinality(inflight) # 0
  BY <1>1, FS_EmptySet
<1>. QED  BY <1>1, <1>2, <1>3

(* The initial state satisfies the inductive invariant. *)
LEMMA InitIInv == Init => IInv
<1>. SUFFICES ASSUME Init PROVE IInv
  OBVIOUS
<1>1. TypeOK
  BY DEF Init, TypeOK
<1>2. OneOwner
  BY DEF Init, OneOwner, Held
<1>3. ReferencesCounted
  BY FS_EmptySet DEF Init, ReferencesCounted, AdvanceReference
<1>4. PhaseInv
  BY DEF Init, PhaseInv, Holding
<1>5. RingInv
  BY DEF Init, RingInv, Holding
<1>. QED  BY <1>1, <1>2, <1>3, <1>4, <1>5 DEF IInv

(* Every step keeps the variables in their types.                          *)
LEMMA NextTypeOK == IInv /\ [Next]_vars => TypeOK'
<1>. SUFFICES ASSUME IInv, [Next]_vars PROVE TypeOK'
  OBVIOUS
<1>. USE DEF IInv, TypeOK, ringVars, bufferVars
<1>1. CASE Lifecycle
  BY <1>1 DEF Lifecycle, EvtCreateTxQueue, TxBufferRequestPoolCreate, StartTransmit,
       Cancel, StopTransmit, StopTransmitReturns, DestroyQueue
<1>2. CASE PostPackets
  BY <1>2 DEF PostPackets
<1>3. CASE Advance
  <2>1. CASE AdvanceBegin  BY <2>1 DEF AdvanceBegin
  <2>2. CASE GetBufferRequest  BY <2>2 DEF GetBufferRequest
  <2>3. CASE DropPacket  BY <2>3 DEF DropPacket
  <2>4. CASE PackBlock
    <3>1. PICK n \in 1..MaxDatagrams :
            /\ first' = [first EXCEPT ![cur] = it]
            /\ count' = [count EXCEPT ![cur] = n]
            /\ it' = it + n
      BY <2>4 DEF PackBlock
    <3>n. n \in Nat
      BY <3>1
    <3>a. it' \in Nat
      BY <3>1, <3>n
    <3>b. first' \in [Buffers -> Nat]
      BY <3>1
    <3>c. count' \in [Buffers -> Nat]
      BY <3>1, <3>n
    <3>2. first' \in [Buffers -> Nat] /\ count' \in [Buffers -> Nat] /\ it' \in Nat
      BY <3>a, <3>b, <3>c
    <3>3. pc' \in {"acquire", "issue"}
      BY <2>4 DEF PackBlock
    <3>. QED  BY <2>4, <3>2, <3>3 DEF PackBlock
  <2>5. CASE AcquireRundown  BY <2>5 DEF AcquireRundown
  <2>6. CASE SendRequest
    <3>1. cur \in Buffers
      BY <2>6 DEF SendRequest, PhaseInv, Holding
    <3>2. wire' \in Nat
      BY <2>6, <3>1 DEF SendRequest, RingInv, Holding
    <3>. QED  BY <2>6, <3>1, <3>2 DEF SendRequest
  <2>7. CASE SendFails  BY <2>7 DEF SendFails
  <2>8. CASE ReleaseFailedSend  BY <2>8 DEF ReleaseFailedSend
  <2>9. CASE ReturnUnsentBuffer
    BY <2>9 DEF ReturnUnsentBuffer, TxBufferRequestPoolReturn, PhaseInv, Holding
  <2>10. CASE SetRing  BY <2>10 DEF SetRing
  <2>. QED  BY <1>3, <2>1, <2>2, <2>3, <2>4, <2>5, <2>6, <2>7, <2>8, <2>9, <2>10 DEF Advance
<1>4. CASE Completion
  BY <1>4 DEF Completion, NotifyTransmitCompletion, TxBufferRequestPoolReturn, CompletionReleases
<1>5. CASE UNCHANGED vars
  BY <1>5 DEF vars
<1>. QED  BY <1>1, <1>2, <1>3, <1>4, <1>5 DEF Next

(* A queue that is not created, created or stopped has nothing outstanding: *)
(* its reference count is zero and counts everything.                      *)
LEMMA QuietFromInv ==
  ASSUME IInv, queue \in {"none", "created", "stopped"}
  PROVE  inflight = {} /\ releasing = 0 /\ cur = NoBuffer /\ refs = 0
<1>1. refs = 0 /\ pc = "idle" /\ cur = NoBuffer
  BY DEF IInv, PhaseInv, Holding
<1>2. Cardinality(inflight) \in Nat /\ IsFiniteSet(inflight)
  BY InflightFinite DEF IInv
<1>3. Cardinality(inflight) + releasing = 0
  BY <1>1, <1>2 DEF IInv, ReferencesCounted, AdvanceReference, TypeOK
<1>4. Cardinality(inflight) = 0 /\ releasing = 0
  BY <1>2, <1>3 DEF IInv, TypeOK
<1>. QED  BY <1>1, <1>2, <1>4, FS_EmptySet

(* Every step keeps each buffer with exactly one owner. *)
LEMMA NextOneOwner == IInv /\ [Next]_vars => OneOwner'
<1>. SUFFICES ASSUME IInv, [Next]_vars PROVE OneOwner'
  OBVIOUS
<1>. USE DEF OneOwner, Held, ringVars, bufferVars
<1>1. CASE Lifecycle
  <2>1. CASE EvtCreateTxQueue
    <3>1. inflight = {} /\ cur = NoBuffer
      BY <2>1, QuietFromInv DEF EvtCreateTxQueue
    <3>. QED  BY <2>1, <3>1 DEF EvtCreateTxQueue, TxBufferRequestPoolCreate
  <2>2. CASE StartTransmit  BY <2>2 DEF StartTransmit, IInv
  <2>3. CASE Cancel  BY <2>3 DEF Cancel, IInv
  <2>4. CASE StopTransmit  BY <2>4 DEF StopTransmit, IInv
  <2>5. CASE StopTransmitReturns  BY <2>5 DEF StopTransmitReturns, IInv
  <2>6. CASE DestroyQueue  BY <2>6 DEF DestroyQueue, IInv
  <2>. QED  BY <1>1, <2>1, <2>2, <2>3, <2>4, <2>5, <2>6 DEF Lifecycle
<1>2. CASE PostPackets
  BY <1>2 DEF PostPackets, IInv
<1>3. CASE Advance
  <2>1. CASE AdvanceBegin  BY <2>1 DEF AdvanceBegin, IInv
  <2>2. CASE GetBufferRequest
    <3>1. cur = NoBuffer /\ pool \subseteq Buffers
      BY <2>2 DEF GetBufferRequest, IInv, PhaseInv, Holding, TypeOK
    <3>2. PICK b \in pool : cur' = b /\ pool' = pool \ {b}
      BY <2>2 DEF GetBufferRequest
    <3>. QED  BY <2>2, <3>1, <3>2 DEF GetBufferRequest, IInv
  <2>3. CASE DropPacket  BY <2>3 DEF DropPacket, IInv
  <2>4. CASE PackBlock  BY <2>4 DEF PackBlock, IInv
  <2>5. CASE AcquireRundown  BY <2>5 DEF AcquireRundown, IInv
  <2>6. CASE SendRequest
    <3>1. cur # NoBuffer
      BY <2>6 DEF SendRequest, IInv, PhaseInv, Holding
    <3>. QED  BY <2>6, <3>1 DEF SendRequest, IInv
  <2>7. CASE SendFails  BY <2>7 DEF SendFails, IInv
  <2>8. CASE ReleaseFailedSend  BY <2>8 DEF ReleaseFailedSend, IInv
  <2>9. CASE ReturnUnsentBuffer
    <3>1. cur # NoBuffer
      BY <2>9 DEF ReturnUnsentBuffer, IInv, PhaseInv, Holding
    <3>. QED  BY <2>9, <3>1 DEF ReturnUnsentBuffer, TxBufferRequestPoolReturn, IInv
  <2>10. CASE SetRing  BY <2>10 DEF SetRing, IInv
  <2>. QED  BY <1>3, <2>1, <2>2, <2>3, <2>4, <2>5, <2>6, <2>7, <2>8, <2>9, <2>10 DEF Advance
<1>4. CASE Completion
  <2>1. ASSUME NEW b \in Buffers, NotifyTransmitCompletion(b)  PROVE OneOwner'
    BY <2>1 DEF NotifyTransmitCompletion, TxBufferRequestPoolReturn, IInv
  <2>2. CASE CompletionReleases  BY <2>2 DEF CompletionReleases, IInv
  <2>. QED  BY <1>4, <2>1, <2>2 DEF Completion
<1>5. CASE UNCHANGED vars
  BY <1>5 DEF vars, IInv
<1>. QED  BY <1>1, <1>2, <1>3, <1>4, <1>5 DEF Next

(* Every step keeps refs equal to what is outstanding. *)
LEMMA NextReferencesCounted == IInv /\ [Next]_vars => ReferencesCounted'
<1>. SUFFICES ASSUME IInv, [Next]_vars PROVE ReferencesCounted'
  OBVIOUS
<1>t. TypeOK /\ Cardinality(inflight) \in Nat
  BY InflightFinite DEF IInv
<1>. USE <1>t DEF ReferencesCounted, AdvanceReference, ringVars, bufferVars, TypeOK
<1>1. CASE Lifecycle
  <2>1. CASE EvtCreateTxQueue  BY <2>1 DEF EvtCreateTxQueue, IInv
  <2>2. CASE StartTransmit
    <3>1. refs = 0
      BY <2>2, QuietFromInv DEF StartTransmit
    <3>. QED  BY <2>2, <3>1 DEF StartTransmit, IInv
  <2>3. CASE Cancel  BY <2>3 DEF Cancel, IInv
  <2>4. CASE StopTransmit  BY <2>4 DEF StopTransmit, IInv
  <2>5. CASE StopTransmitReturns  BY <2>5 DEF StopTransmitReturns, IInv
  <2>6. CASE DestroyQueue  BY <2>6 DEF DestroyQueue, IInv
  <2>. QED  BY <1>1, <2>1, <2>2, <2>3, <2>4, <2>5, <2>6 DEF Lifecycle
<1>2. CASE PostPackets
  BY <1>2 DEF PostPackets, IInv
<1>3. CASE Advance
  <2>1. CASE AdvanceBegin  BY <2>1 DEF AdvanceBegin, IInv
  <2>2. CASE GetBufferRequest  BY <2>2 DEF GetBufferRequest, IInv
  <2>3. CASE DropPacket  BY <2>3 DEF DropPacket, IInv
  <2>4. CASE PackBlock
    <3>1. pc = "pack" /\ pc' \in {"acquire", "issue"}
             /\ (device = "function" => pc' = "acquire")
             /\ UNCHANGED <<device, inflight, releasing, refs>>
      BY <2>4 DEF PackBlock
    <3>. QED  BY <3>1 DEF IInv
  <2>5. CASE AcquireRundown
    <3>1. device = "function" /\ gate = "open"
      BY <2>5 DEF AcquireRundown, IInv, PhaseInv
    <3>. QED  BY <2>5, <3>1 DEF AcquireRundown, IInv
  <2>6. CASE SendRequest
    <3>1. cur \in Buffers /\ cur \notin inflight
      BY <2>6 DEF SendRequest, IInv, PhaseInv, Holding, OneOwner, Held
    <3>2. Cardinality(inflight') = Cardinality(inflight) + 1
      BY <2>6, <3>1, InflightAdd DEF SendRequest
    <3>. QED  BY <2>6, <3>2 DEF SendRequest, IInv
  <2>7. CASE SendFails  BY <2>7 DEF SendFails, IInv
  <2>8. CASE ReleaseFailedSend
    <3>1. device = "function"
      BY <2>8 DEF ReleaseFailedSend, IInv, PhaseInv
    <3>. QED  BY <2>8, <3>1 DEF ReleaseFailedSend, IInv
  <2>9. CASE ReturnUnsentBuffer
    BY <2>9 DEF ReturnUnsentBuffer, IInv
  <2>10. CASE SetRing  BY <2>10 DEF SetRing, IInv
  <2>. QED  BY <1>3, <2>1, <2>2, <2>3, <2>4, <2>5, <2>6, <2>7, <2>8, <2>9, <2>10 DEF Advance
<1>4. CASE Completion
  <2>1. ASSUME NEW b \in Buffers, NotifyTransmitCompletion(b)  PROVE ReferencesCounted'
    <3>1. Cardinality(inflight') = Cardinality(inflight) - 1
      BY <2>1, InflightRemove DEF NotifyTransmitCompletion
    <3>. QED  BY <2>1, <3>1 DEF NotifyTransmitCompletion, IInv
  <2>2. CASE CompletionReleases  BY <2>2 DEF CompletionReleases, IInv
  <2>. QED  BY <1>4, <2>1, <2>2 DEF Completion
<1>5. CASE UNCHANGED vars
  BY <1>5 DEF vars, IInv
<1>. QED  BY <1>1, <1>2, <1>3, <1>4, <1>5 DEF Next

(* A queue that stops has no reference left because StopTransmitReturns    *)
(* waited, and Advance runs only in a running queue.                       *)
LEMMA NextPhaseInv == IInv /\ [Next]_vars => PhaseInv'
<1>. SUFFICES ASSUME IInv, [Next]_vars PROVE PhaseInv'
  OBVIOUS
<1>t. TypeOK /\ PhaseInv /\ Cardinality(inflight) \in Nat
  BY InflightFinite DEF IInv
<1>. USE DEF PhaseInv, Holding, ringVars, bufferVars
<1>1. CASE Lifecycle
  BY <1>t, <1>1 DEF Lifecycle, EvtCreateTxQueue, TxBufferRequestPoolCreate, StartTransmit,
       Cancel, StopTransmit, StopTransmitReturns, DestroyQueue, TypeOK
<1>2. CASE PostPackets
  BY <1>t, <1>2 DEF PostPackets
<1>3. CASE Advance
  <2>1. CASE AdvanceBegin  BY <1>t, <2>1 DEF AdvanceBegin
  <2>2. CASE GetBufferRequest
    <3>1. cur' # NoBuffer /\ queue = "running"
      BY <1>t, <2>2 DEF GetBufferRequest, TypeOK
    <3>. QED  BY <1>t, <2>2, <3>1 DEF GetBufferRequest
  <2>3. CASE DropPacket  BY <1>t, <2>3 DEF DropPacket
  <2>4. CASE PackBlock  BY <1>t, <2>4 DEF PackBlock
  <2>5. CASE AcquireRundown  BY <1>t, <2>5 DEF AcquireRundown
  <2>6. CASE SendRequest  BY <1>t, <2>6 DEF SendRequest
  <2>7. CASE SendFails  BY <1>t, <2>7 DEF SendFails
  <2>8. CASE ReleaseFailedSend  BY <1>t, <2>8 DEF ReleaseFailedSend
  <2>9. CASE ReturnUnsentBuffer  BY <1>t, <2>9 DEF ReturnUnsentBuffer, TxBufferRequestPoolReturn
  <2>10. CASE SetRing  BY <1>t, <2>10 DEF SetRing
  <2>. QED  BY <1>3, <2>1, <2>2, <2>3, <2>4, <2>5, <2>6, <2>7, <2>8, <2>9, <2>10 DEF Advance
<1>4. CASE Completion
  <2>1. queue \notin {"none", "created", "stopped"}
    BY <1>4, QuietFromInv DEF Completion, NotifyTransmitCompletion, CompletionReleases
  <2>. QED
    BY <1>t, <1>4, <2>1 DEF Completion, NotifyTransmitCompletion, TxBufferRequestPoolReturn, CompletionReleases
<1>5. CASE UNCHANGED vars
  BY <1>t, <1>5 DEF vars
<1>. QED  BY <1>1, <1>2, <1>3, <1>4, <1>5 DEF Next

(* The iterator stays between the ring's indices and ahead of the wire.    *)
LEMMA NextRingInv == IInv /\ [Next]_vars => RingInv'
<1>. SUFFICES ASSUME IInv, [Next]_vars PROVE RingInv'
  OBVIOUS
<1>t. TypeOK /\ RingInv /\ PhaseInv
  BY DEF IInv
<1>. USE DEF RingInv, Holding, ringVars, bufferVars, TypeOK
<1>1. CASE Lifecycle
  <2>1. CASE Cancel  BY <1>t, <2>1 DEF Cancel
  <2>2. pc = "idle" /\ pc' = pc /\ ~Cancel => UNCHANGED <<begin, end, wire>>
    BY <1>1 DEF Lifecycle, EvtCreateTxQueue, StartTransmit, StopTransmit,
         StopTransmitReturns, DestroyQueue
  <2>3. ~Cancel => pc = "idle" /\ pc' = pc
    BY <1>t, <1>1 DEF Lifecycle, EvtCreateTxQueue, StartTransmit, StopTransmit,
         StopTransmitReturns, DestroyQueue, PhaseInv
  <2>. QED  BY <1>t, <2>1, <2>2, <2>3
<1>2. CASE PostPackets
  <2>1. PICK e \in (end + 1)..(MaxPackets + 1) : end' = e
    BY <1>2 DEF PostPackets
  <2>. QED  BY <1>t, <1>2, <2>1 DEF PostPackets
<1>3. CASE Advance
  <2>1. CASE AdvanceBegin  BY <1>t, <2>1 DEF AdvanceBegin
  <2>2. CASE GetBufferRequest  BY <1>t, <2>2 DEF GetBufferRequest
  <2>3. CASE DropPacket  BY <1>t, <2>3 DEF DropPacket
  <2>4. CASE PackBlock
    <3>1. PICK n \in 1..MaxDatagrams :
            /\ it + n <= end
            /\ first' = [first EXCEPT ![cur] = it]
            /\ count' = [count EXCEPT ![cur] = n]
            /\ it' = it + n
      BY <2>4 DEF PackBlock
    <3>2. cur \in Buffers /\ pc = "pack" /\ pc' \in {"acquire", "issue"}
            /\ UNCHANGED <<begin, end, cur, wire>>
      BY <1>t, <2>4 DEF PackBlock, PhaseInv
    <3>3. first'[cur'] = it /\ count'[cur'] = n /\ n \in Nat \ {0}
      BY <1>t, <3>1, <3>2
    <3>. QED  BY <1>t, <3>1, <3>2, <3>3
  <2>5. CASE AcquireRundown  BY <1>t, <2>5 DEF AcquireRundown
  <2>6. CASE SendRequest
    <3>1. cur \in Buffers
      BY <1>t, <2>6 DEF SendRequest, PhaseInv
    <3>. QED  BY <1>t, <2>6, <3>1 DEF SendRequest
  <2>7. CASE SendFails  BY <1>t, <2>7 DEF SendFails
  <2>8. CASE ReleaseFailedSend  BY <1>t, <2>8 DEF ReleaseFailedSend
  <2>9. CASE ReturnUnsentBuffer
    <3>1. cur \in Buffers
      BY <1>t, <2>9 DEF ReturnUnsentBuffer, PhaseInv
    <3>. QED  BY <1>t, <2>9, <3>1 DEF ReturnUnsentBuffer, TxBufferRequestPoolReturn
  <2>10. CASE SetRing  BY <1>t, <2>10 DEF SetRing
  <2>. QED  BY <1>3, <2>1, <2>2, <2>3, <2>4, <2>5, <2>6, <2>7, <2>8, <2>9, <2>10 DEF Advance
<1>4. CASE Completion
  <2>1. ASSUME NEW b \in Buffers, NotifyTransmitCompletion(b)  PROVE RingInv'
    <3>1. pc \in Holding => cur \in Buffers /\ cur # b
      BY <1>t, <2>1 DEF NotifyTransmitCompletion, IInv, PhaseInv, OneOwner, Held
    <3>2. UNCHANGED <<begin, end, it, pc, cur, wire, first>>
      BY <2>1 DEF NotifyTransmitCompletion, TxBufferRequestPoolReturn
    <3>3. pc \in Holding => count'[cur] = count[cur]
      BY <1>t, <2>1, <3>1 DEF NotifyTransmitCompletion, TxBufferRequestPoolReturn
    <3>. QED  BY <1>t, <3>2, <3>3
  <2>2. CASE CompletionReleases  BY <1>t, <2>2 DEF CompletionReleases
  <2>. QED  BY <1>4, <2>1, <2>2 DEF Completion
<1>5. CASE UNCHANGED vars
  BY <1>t, <1>5 DEF vars
<1>. QED  BY <1>1, <1>2, <1>3, <1>4, <1>5 DEF Next

(* IInv is an inductive invariant of the specification. *)
THEOREM Invariance == Spec => []IInv
<1>1. Init => IInv
  BY InitIInv
<1>2. IInv /\ [Next]_vars => IInv'
  BY NextTypeOK, NextOneOwner, NextReferencesCounted, NextPhaseInv, NextRingInv DEF IInv
<1>. QED  BY <1>1, <1>2, PTL DEF Spec

-----------------------------------------------------------------------------
(* TransmitFrames, the completion routine and the pool keep every variable *)
(* within its type.                                                        *)
THEOREM TypeCorrect == Spec => []TypeOK
<1>1. IInv => TypeOK
  BY DEF IInv
<1>. QED  BY <1>1, Invariance, PTL

(* However Advance, the completion routines and the life of the queue      *)
(* interleave, a buffer request has one owner.                             *)
THEOREM Ownership == Spec => []OneOwner
<1>1. IInv => OneOwner
  BY DEF IInv
<1>. QED  BY <1>1, Invariance, PTL

(* When StopTransmit has returned no completion routine runs or will run:  *)
(* the rundown (or the I/O target) that StopTransmit waits for counts all  *)
(* of them.                                                                *)
THEOREM StopQuiesces == Spec => []QuietWhenStopped
<1>1. IInv => QuietWhenStopped
  BY QuietFromInv DEF QuietWhenStopped
<1>. QED  BY <1>1, Invariance, PTL

(* No buffer request is away from the pool when the framework deletes it.  *)
THEOREM NoBufferLeaks == Spec => []PoolWholeWhenStopped
<1>1. ASSUME IInv, queue \in {"created", "stopped"}  PROVE pool = Buffers
  BY <1>1, QuietFromInv DEF IInv, OneOwner, Held
<1>2. IInv => PoolWholeWhenStopped
  BY <1>1 DEF PoolWholeWhenStopped
<1>. QED  BY <1>2, Invariance, PTL

(* References are released only by those who acquired one. *)
THEOREM Balance == Spec => []ReferencesBalance
<1>1. ASSUME IInv  PROVE refs >= 0
  <2>1. Cardinality(inflight) \in Nat
    BY <1>1, InflightFinite DEF IInv
  <2>. QED
    BY <1>1, <2>1 DEF IInv, TypeOK, ReferencesCounted, AdvanceReference
<1>2. ASSUME IInv, queue \in {"created", "stopped"}  PROVE refs = 0
  BY <1>2, QuietFromInv
<1>3. IInv => ReferencesBalance
  BY <1>1, <1>2 DEF ReferencesBalance
<1>. QED  BY <1>3, Invariance, PTL

(* Only SendRequest hands a buffer to the bus, and its packets come after  *)
(* every packet handed over before: order is kept and none is sent twice.  *)
THEOREM SendOrder == Spec => FifoOnce
<1>1. ASSUME IInv, [Next]_vars, NEW b \in inflight' \ inflight
      PROVE  first[b] > wire /\ count[b] > 0
  <2>1. SendRequest
    <3>. SUFFICES ASSUME ~SendRequest PROVE inflight' \subseteq inflight
      BY <1>1
    <3>1. CASE Lifecycle
      BY <3>1 DEF Lifecycle, EvtCreateTxQueue, StartTransmit, Cancel, StopTransmit,
           StopTransmitReturns, DestroyQueue, bufferVars
    <3>2. CASE PostPackets  BY <3>2 DEF PostPackets, bufferVars
    <3>3. CASE Advance
      BY <3>3 DEF Advance, AdvanceBegin, GetBufferRequest, DropPacket, PackBlock,
           AcquireRundown, SendFails, ReleaseFailedSend, ReturnUnsentBuffer, SetRing, bufferVars
    <3>4. CASE Completion
      BY <3>4 DEF Completion, NotifyTransmitCompletion, CompletionReleases, bufferVars
    <3>5. CASE UNCHANGED vars  BY <3>5 DEF vars
    <3>. QED  BY <1>1, <3>1, <3>2, <3>3, <3>4, <3>5 DEF Next
  <2>2. b = cur
    BY <1>1, <2>1 DEF SendRequest
  <2>3. wire < first[cur] /\ count[cur] > 0
    BY <1>1, <2>1 DEF SendRequest, IInv, RingInv, Holding
  <2>4. cur \in Buffers /\ TypeOK
    BY <1>1, <2>1 DEF SendRequest, IInv, PhaseInv, Holding, TypeOK
  <2>. QED  BY <2>2, <2>3, <2>4 DEF TypeOK
<1>2. IInv /\ [Next]_vars => [\A b \in inflight' \ inflight : first[b] > wire /\ count[b] > 0]_vars
  BY <1>1
<1>. QED  BY <1>2, Invariance, PTL DEF Spec, FifoOnce

-----------------------------------------------------------------------------
(* The initial state of the transmit path is one of the ledger's.          *)
LEMMA LedgerInit == Init => Ledger!Init
BY FS_EmptySet DEF Init, Ledger!Init

(* Every step of the transmit path is a step of the ledger or leaves the   *)
(* ledger alone: taking and returning buffers, acquiring and releasing the *)
(* rundown around a failed send are invisible to it.                       *)
LEMMA LedgerStep == IInv /\ [Next]_vars => [Ledger!Next]_(Ledger!vars)
<1>. SUFFICES ASSUME IInv, [Next]_vars PROVE [Ledger!Next]_(Ledger!vars)
  OBVIOUS
<1>t. TypeOK /\ PhaseInv /\ RingInv /\ Cardinality(inflight) \in Nat
  BY InflightFinite DEF IInv
<1>. USE DEF Ledger!vars, Ledger!Move, ringVars, bufferVars
<1>1. CASE Lifecycle
  <2>1. CASE EvtCreateTxQueue
    BY <2>1 DEF EvtCreateTxQueue, Ledger!Next, Ledger!Create
  <2>2. CASE StartTransmit
    <3>1. inflight = {} /\ releasing = 0
      BY <2>2, QuietFromInv DEF StartTransmit
    <3>. QED  BY <2>2, <3>1, FS_EmptySet DEF StartTransmit, Ledger!Next, Ledger!Start
  <2>3. CASE Cancel
    BY <2>3 DEF Cancel, Ledger!Next, Ledger!Cancel
  <2>4. CASE StopTransmit
    BY <2>4 DEF StopTransmit, Ledger!Next, Ledger!BeginStop
  <2>5. CASE StopTransmitReturns
    <3>1. refs = 0 /\ refs = Cardinality(inflight) + releasing
      BY <1>t, <2>5 DEF StopTransmitReturns, IInv, ReferencesCounted, AdvanceReference, PhaseInv, TypeOK
    <3>. QED  BY <2>5, <3>1 DEF StopTransmitReturns, Ledger!Next, Ledger!EndStop
  <2>6. CASE DestroyQueue
    <3>1. inflight = {} /\ releasing = 0
      BY <2>6, QuietFromInv DEF DestroyQueue
    <3>. QED  BY <2>6, <3>1, FS_EmptySet DEF DestroyQueue, Ledger!Next, Ledger!Delete
  <2>. QED  BY <1>1, <2>1, <2>2, <2>3, <2>4, <2>5, <2>6 DEF Lifecycle
<1>2. CASE PostPackets
  <2>1. end' \in Nat /\ end' > end
    BY <1>t, <1>2 DEF PostPackets, TypeOK
  <2>. QED  BY <1>2, <2>1 DEF PostPackets, Ledger!Next, Ledger!Post
<1>3. CASE Advance
  <2>1. CASE SendRequest
    <3>1. cur \in Buffers /\ cur \notin inflight /\ queue = "running"
      BY <1>t, <2>1 DEF SendRequest, IInv, PhaseInv, Holding, OneOwner, Held, TypeOK
    <3>2. Cardinality(inflight') = Cardinality(inflight) + 1
      BY <1>t, <2>1, <3>1, InflightAdd DEF SendRequest
    <3>3. Cardinality(inflight') + releasing' = Cardinality(inflight) + releasing + 1
      BY <1>t, <2>1, <3>2 DEF SendRequest, TypeOK
    <3>. QED  BY <2>1, <3>1, <3>3 DEF SendRequest, Ledger!Next, Ledger!Issue
  <2>2. CASE SetRing
    <3>1. queue = "running" /\ begin' \in (begin + 1)..end
      BY <1>t, <2>2 DEF SetRing, PhaseInv, RingInv, TypeOK
    <3>. QED  BY <2>2, <3>1 DEF SetRing, Ledger!Next, Ledger!GiveBack
  <2>3. CASE ~SendRequest /\ ~SetRing
    BY <1>3, <2>3 DEF Advance, AdvanceBegin, GetBufferRequest, DropPacket, PackBlock,
         AcquireRundown, SendFails, ReleaseFailedSend, ReturnUnsentBuffer
  <2>. QED  BY <2>1, <2>2, <2>3
<1>4. CASE Completion
  <2>1. ASSUME NEW b \in Buffers, NotifyTransmitCompletion(b)
        PROVE  UNCHANGED Ledger!vars
    <3>1. Cardinality(inflight') = Cardinality(inflight) - 1
      BY <1>t, <2>1, InflightRemove DEF NotifyTransmitCompletion
    <3>2. Cardinality(inflight') + releasing' = Cardinality(inflight) + releasing
      BY <1>t, <2>1, <3>1 DEF NotifyTransmitCompletion, TypeOK
    <3>. QED  BY <2>1, <3>2 DEF NotifyTransmitCompletion
  <2>2. CASE CompletionReleases
    <3>1. queue \in {"running", "canceled", "stopping"}
      BY <1>t, <2>2, QuietFromInv DEF CompletionReleases, TypeOK
    <3>2. /\ Cardinality(inflight) + releasing > 0
          /\ Cardinality(inflight') + releasing' = (Cardinality(inflight) + releasing) - 1
      BY <1>t, <2>2 DEF CompletionReleases, TypeOK
    <3>3. UNCHANGED <<queue, begin, end>>
      BY <2>2 DEF CompletionReleases
    <3>4. Ledger!Finish
      BY <3>1, <3>2, <3>3 DEF Ledger!Finish
    <3>. QED  BY <3>4 DEF Ledger!Next
  <2>. QED  BY <1>4, <2>1, <2>2 DEF Completion
<1>5. CASE UNCHANGED vars
  BY <1>5 DEF vars
<1>. QED  BY <1>1, <1>2, <1>3, <1>4, <1>5 DEF Next

(* The transmit path implements the abstract ledger. *)
THEOREM Refinement == Spec => ImplementsLedger
<1>. QED
  BY LedgerInit, LedgerStep, Invariance, PTL DEF Spec, ImplementsLedger, Ledger!Spec

=============================================================================
