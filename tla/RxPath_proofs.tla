--------------------------- MODULE RxPath_proofs ---------------------------
(***************************************************************************)
(* Machine-checked proofs about RxPath, for every set of reads and buffers *)
(* and every size of block and ring. IInv is inductive, and the safety     *)
(* properties are part of it or follow from it.                            *)
(***************************************************************************)
EXTENDS RxPath, SequenceTheorems, TLAPS

USE RxAssumption

(* A block that is queued is behind all others and is no other.            *)
LEMMA QueueAppend ==
  ASSUME NEW s \in Seq(Buffers), NEW b \in Buffers
  PROVE  /\ Append(s, b) \in Seq(Buffers) /\ Append(s, b) # <<>>
         /\ ToSet(Append(s, b)) = ToSet(s) \cup {b}
         /\ (\A i, j \in 1..Len(s) : s[i] = s[j] => i = j) /\ b \notin ToSet(s)
              => \A i, j \in 1..Len(Append(s, b)) :
                   Append(s, b)[i] = Append(s, b)[j] => i = j
<1>1. /\ Append(s, b) \in Seq(Buffers) /\ Len(Append(s, b)) = Len(s) + 1 /\ Len(s) \in Nat
      /\ \A i \in 1..Len(s) : Append(s, b)[i] = s[i]
      /\ Append(s, b)[Len(s) + 1] = b
  OBVIOUS
<1>2. Append(s, b) # <<>>
  BY <1>1
<1>3. DOMAIN s = 1..Len(s) /\ DOMAIN Append(s, b) = 1..(Len(s) + 1)
  BY <1>1
<1>4. ToSet(Append(s, b)) \subseteq ToSet(s) \cup {b}
  BY <1>1, <1>3 DEF ToSet
<1>5. ToSet(s) \subseteq ToSet(Append(s, b)) /\ b \in ToSet(Append(s, b))
  BY <1>1, <1>3 DEF ToSet
<1>6. ASSUME \A i, j \in 1..Len(s) : s[i] = s[j] => i = j, b \notin ToSet(s),
             NEW i \in 1..Len(Append(s, b)), NEW j \in 1..Len(Append(s, b)),
             Append(s, b)[i] = Append(s, b)[j]
      PROVE  i = j
  <2>1. \A k \in 1..Len(s) : s[k] # b
    BY <1>3, <1>6 DEF ToSet
  <2>. QED  BY <1>1, <1>6, <2>1
<1>. QED  BY <1>1, <1>2, <1>4, <1>5, <1>6

(* Taking the first block leaves the others, each once. *)
LEMMA QueueTail ==
  ASSUME NEW s \in Seq(Buffers), s # <<>>,
         \A i, j \in 1..Len(s) : s[i] = s[j] => i = j
  PROVE  /\ Tail(s) \in Seq(Buffers) /\ Head(s) \in Buffers /\ Head(s) \in ToSet(s)
         /\ ToSet(Tail(s)) = ToSet(s) \ {Head(s)}
         /\ \A i, j \in 1..Len(Tail(s)) : Tail(s)[i] = Tail(s)[j] => i = j
<1>1. /\ Tail(s) \in Seq(Buffers) /\ Len(s) \in Nat /\ Len(s) > 0
      /\ Len(Tail(s)) = Len(s) - 1 /\ Head(s) = s[1]
      /\ \A i \in 1..Len(Tail(s)) : Tail(s)[i] = s[i + 1]
  OBVIOUS
<1>2. DOMAIN s = 1..Len(s) /\ DOMAIN Tail(s) = 1..Len(Tail(s))
  BY <1>1
<1>3. Head(s) \in ToSet(s) /\ Head(s) \in Buffers
  BY <1>1, <1>2 DEF ToSet
<1>4. ToSet(Tail(s)) \subseteq ToSet(s) \ {Head(s)}
  <2>. SUFFICES ASSUME NEW i \in 1..Len(Tail(s)) PROVE Tail(s)[i] \in ToSet(s) \ {Head(s)}
    BY <1>2 DEF ToSet
  <2>1. i + 1 \in 1..Len(s) /\ i + 1 # 1 /\ Tail(s)[i] = s[i + 1] /\ 1 \in 1..Len(s)
    BY <1>1
  <2>. QED  BY <1>1, <1>2, <2>1 DEF ToSet
<1>5. ToSet(s) \ {Head(s)} \subseteq ToSet(Tail(s))
  <2>. SUFFICES ASSUME NEW i \in 1..Len(s), s[i] # Head(s) PROVE s[i] \in ToSet(Tail(s))
    BY <1>2 DEF ToSet
  <2>1. i # 1 /\ i - 1 \in 1..Len(Tail(s)) /\ Tail(s)[i - 1] = s[i]
    BY <1>1
  <2>. QED  BY <1>2, <2>1 DEF ToSet
<1>6. \A i, j \in 1..Len(Tail(s)) : Tail(s)[i] = Tail(s)[j] => i = j
  <2>. SUFFICES ASSUME NEW i \in 1..Len(Tail(s)), NEW j \in 1..Len(Tail(s)),
                       Tail(s)[i] = Tail(s)[j]
                PROVE  i = j
    OBVIOUS
  <2>1. i + 1 \in 1..Len(s) /\ j + 1 \in 1..Len(s) /\ s[i + 1] = s[j + 1]
    BY <1>1
  <2>2. i + 1 = j + 1
    BY <2>1
  <2>. QED  BY <1>1, <2>2
<1>. QED  BY <1>1, <1>3, <1>4, <1>5, <1>6

(* A read that is issued adds its buffer to those in reads. *)
LEMMA ReadTakes ==
  ASSUME TypeOK, NEW r \in Reads, NEW b \in Buffers, buf[r] = NoBuffer,
         buf' = [buf EXCEPT ![r] = b]
  PROVE  InReads' = InReads \cup {b}
BY DEF TypeOK, InReads

(* A read that ends takes its buffer, and only that, from them.            *)
LEMMA ReadGives ==
  ASSUME TypeOK, OneOwner, NEW r \in Reads, buf[r] # NoBuffer,
         buf' = [buf EXCEPT ![r] = NoBuffer]
  PROVE  /\ InReads' = InReads \ {buf[r]}
         /\ buf[r] \in InReads /\ buf[r] \in Buffers
BY DEF TypeOK, OneOwner, InReads

-----------------------------------------------------------------------------
(* The initial state satisfies the inductive invariant. *)
LEMMA InitIInv == Init => IInv
<1>. SUFFICES ASSUME Init PROVE IInv
  OBVIOUS
<1>1. rxq = <<>> /\ rxq \in Seq(Buffers) /\ Len(rxq) = 0 /\ ToSet(rxq) = {}
  BY DEF Init, ToSet
<1>c. 0 \in 0..RingSize /\ 0 \in 0..MaxFrames
  OBVIOUS
<1>2. TypeOK
  BY <1>1, <1>c DEF Init, TypeOK
<1>3. InReads = {} /\ Processing = {}
  BY DEF Init, InReads, Processing
<1>4. OneOwner
  BY <1>1, <1>3 DEF Init, OneOwner
<1>5. QuietWhenStopped /\ ReadInv /\ LifeInv
  BY DEF Init, QuietWhenStopped, ReadInv, LifeInv
<1>6. RoomInv /\ WakeInv
  BY DEF Init, RoomInv, WakeInv
<1>. QED  BY <1>2, <1>4, <1>5, <1>6 DEF IInv

(* Every step keeps the variables in their types. *)
LEMMA NextTypeOK == IInv /\ [Next]_vars => TypeOK'
<1>. SUFFICES ASSUME IInv, [Next]_vars PROVE TypeOK'
  OBVIOUS
<1>. USE DEF IInv, TypeOK, readVars, bufferVars, pollVars
<1>1. CASE Lifecycle
  <2>1. CASE EvtCreateRxQueue
    <3>1. rxq' \in Seq(Buffers)
      BY <2>1 DEF EvtCreateRxQueue
    <3>. QED  BY <2>1, <3>1 DEF EvtCreateRxQueue
  <2>2. CASE StartReceive  BY <2>2 DEF StartReceive
  <2>3. CASE Cancel  BY <2>3 DEF Cancel
  <2>4. CASE StopReceive  BY <2>4 DEF StopReceive
  <2>5. CASE StopReceiveReturns  BY <2>5 DEF StopReceiveReturns
  <2>6. CASE DestroyQueue
    <3>1. leaked' \subseteq Buffers
      BY <2>6 DEF DestroyQueue, ToSet
    <3>2. rxq' \in Seq(Buffers) /\ frames' \in [Buffers -> 0..MaxFrames]
      BY <2>6 DEF DestroyQueue
    <3>. QED  BY <2>6, <3>1, <3>2 DEF DestroyQueue
  <2>. QED  BY <1>1, <2>1, <2>2, <2>3, <2>4, <2>5, <2>6 DEF Lifecycle
<1>2. CASE Advance
  <2>1. CASE AdvanceBegin
    <3>1. free' \in 0..RingSize
      BY <2>1 DEF AdvanceBegin
    <3>. QED  BY <2>1, <3>1 DEF AdvanceBegin
  <2>2. CASE DequeueBuffer
    <3>1. cur' \in Buffers /\ rxq' \in Seq(Buffers)
      BY <2>2, QueueTail DEF DequeueBuffer, OneOwner
    <3>. QED  BY <2>2, <3>1 DEF DequeueBuffer
  <2>3. CASE DeliverFrame
    <3>1. cur \in Buffers /\ frames[cur] - 1 \in 0..MaxFrames /\ free' \in 0..RingSize
      BY <2>3 DEF DeliverFrame
    <3>. QED  BY <2>3, <3>1 DEF DeliverFrame
  <2>4. CASE ReturnBuffer  BY <2>4 DEF ReturnBuffer
  <2>5. CASE AdvanceEnd  BY <2>5 DEF AdvanceEnd
  <2>. QED  BY <1>2, <2>1, <2>2, <2>3, <2>4, <2>5 DEF Advance
<1>3. CASE WakeUp  BY <1>3 DEF WakeUp
<1>4. ASSUME NEW r \in Reads, Read(r) PROVE TypeOK'
  <2>1. CASE IssueRead(r)  BY <2>1 DEF IssueRead
  <2>2. CASE ReadFails(r)
    <3>1. buf[r] \in Buffers
      BY <2>2 DEF ReadFails, ReadInv
    <3>. QED  BY <2>2, <3>1 DEF ReadFails
  <2>3. CASE ReadSucceeds(r)  BY <2>3 DEF ReadSucceeds
  <2>. QED  BY <1>4, <2>1, <2>2, <2>3 DEF Read
<1>5. ASSUME NEW r \in Reads, Callback(r) PROVE TypeOK'
  <2>1. CASE EnqueueBuffer(r)
    <3>1. buf[r] \in Buffers
      BY <2>1 DEF EnqueueBuffer, ReadInv
    <3>2. rxq' \in Seq(Buffers)
      BY <2>1, <3>1, QueueAppend DEF EnqueueBuffer
    <3>3. frames' \in [Buffers -> 0..MaxFrames]
      BY <2>1, <3>1 DEF EnqueueBuffer
    <3>. QED  BY <2>1, <3>2, <3>3 DEF EnqueueBuffer
  <2>2. CASE EnqueueFails(r)
    <3>1. buf[r] \in Buffers
      BY <2>2 DEF EnqueueFails, ReadInv
    <3>. QED  BY <2>2, <3>1 DEF EnqueueFails
  <2>3. CASE NotifyReceive(r)  BY <2>3 DEF NotifyReceive
  <2>4. CASE SignalFramework(r)  BY <2>4 DEF SignalFramework
  <2>. QED  BY <1>5, <2>1, <2>2, <2>3, <2>4 DEF Callback
<1>6. CASE UNCHANGED vars  BY <1>6 DEF vars
<1>. QED  BY <1>1, <1>2, <1>3, <1>4, <1>5, <1>6 DEF Next

(* A step that moves no buffer leaves each with its owner. *)
LEMMA NoMoveOneOwner ==
  ASSUME OneOwner, UNCHANGED <<buf, idle, rxq, cur, leaked>>
  PROVE  OneOwner'
BY DEF OneOwner, InReads, Processing

(* Every step keeps each buffer with exactly one owner. *)
LEMMA NextOneOwner == IInv /\ [Next]_vars => OneOwner'
<1>. SUFFICES ASSUME IInv, [Next]_vars PROVE OneOwner'
  OBVIOUS
<1>. USE DEF readVars, bufferVars, pollVars
<1>o. OneOwner /\ TypeOK
  BY DEF IInv
<1>1. CASE Lifecycle
  <2>1. CASE EvtCreateRxQueue
    <3>1. UNCHANGED <<buf, idle, rxq, cur, leaked>>
      BY <2>1 DEF EvtCreateRxQueue, IInv, LifeInv
    <3>. QED  BY <1>o, <3>1, NoMoveOneOwner
  <2>2. CASE StartReceive  BY <1>o, <2>2, NoMoveOneOwner DEF StartReceive
  <2>3. CASE Cancel  BY <1>o, <2>3, NoMoveOneOwner DEF Cancel
  <2>4. CASE StopReceive  BY <1>o, <2>4, NoMoveOneOwner DEF StopReceive
  <2>5. CASE StopReceiveReturns  BY <1>o, <2>5, NoMoveOneOwner DEF StopReceiveReturns
  <2>6. CASE DestroyQueue
    <3>1. /\ leaked' = leaked \cup ToSet(rxq) \cup Processing
          /\ InReads' = InReads /\ idle' = idle /\ buf' = buf
      BY <2>6 DEF DestroyQueue, InReads, Processing
    <3>2. Processing' = {} /\ Len(rxq') = 0 /\ ToSet(rxq') = {}
      BY <2>6 DEF DestroyQueue, Processing, ToSet
    <3>. QED  BY <1>o, <3>1, <3>2 DEF OneOwner
  <2>. QED  BY <1>1, <2>1, <2>2, <2>3, <2>4, <2>5, <2>6 DEF Lifecycle
<1>2. CASE Advance
  <2>1. CASE AdvanceBegin  BY <1>o, <2>1, NoMoveOneOwner DEF AdvanceBegin
  <2>2. CASE DequeueBuffer
    <3>1. /\ ToSet(rxq') = ToSet(rxq) \ {cur'} /\ cur' \in ToSet(rxq) /\ cur' \in Buffers
          /\ \A i, j \in 1..Len(rxq') : rxq'[i] = rxq'[j] => i = j
      BY <1>o, <2>2, QueueTail DEF DequeueBuffer, OneOwner, TypeOK
    <3>2. Processing = {} /\ Processing' = {cur'}
      BY <2>2, <3>1 DEF DequeueBuffer, Processing
    <3>3. InReads' = InReads /\ buf' = buf /\ idle' = idle /\ leaked' = leaked
      BY <2>2 DEF DequeueBuffer, InReads
    <3>. QED  BY <1>o, <3>1, <3>2, <3>3 DEF OneOwner
  <2>3. CASE DeliverFrame  BY <1>o, <2>3, NoMoveOneOwner DEF DeliverFrame
  <2>4. CASE ReturnBuffer
    <3>1. Processing = {cur} /\ Processing' = {} /\ idle' = idle \cup {cur}
      BY <2>4 DEF ReturnBuffer, Processing
    <3>2. InReads' = InReads /\ buf' = buf /\ rxq' = rxq /\ leaked' = leaked
      BY <2>4 DEF ReturnBuffer, InReads
    <3>. QED  BY <1>o, <3>1, <3>2 DEF OneOwner
  <2>5. CASE AdvanceEnd  BY <1>o, <2>5, NoMoveOneOwner DEF AdvanceEnd
  <2>. QED  BY <1>2, <2>1, <2>2, <2>3, <2>4, <2>5 DEF Advance
<1>3. CASE WakeUp  BY <1>o, <1>3, NoMoveOneOwner DEF WakeUp
<1>4. ASSUME NEW r \in Reads, Read(r) PROVE OneOwner'
  <2>1. CASE IssueRead(r)
    <3>1. PICK b \in idle : buf' = [buf EXCEPT ![r] = b] /\ idle' = idle \ {b}
      BY <2>1 DEF IssueRead
    <3>2. buf[r] = NoBuffer /\ b \in Buffers /\ b \notin InReads
      BY <1>o, <2>1, <3>1 DEF IssueRead, IInv, ReadInv, OneOwner, TypeOK
    <3>3. InReads' = InReads \cup {b}
      BY <1>o, <3>1, <3>2, ReadTakes
    <3>4. \A p, q \in Reads : buf'[p] = buf'[q] /\ buf'[p] # NoBuffer => p = q
      BY <1>o, <3>1, <3>2 DEF OneOwner, TypeOK, InReads
    <3>5. Processing' = Processing /\ rxq' = rxq /\ leaked' = leaked
      BY <2>1 DEF IssueRead, Processing
    <3>. QED  BY <1>o, <3>1, <3>3, <3>4, <3>5 DEF OneOwner
  <2>2. CASE ReadFails(r)
    <3>1. buf[r] # NoBuffer
      BY <2>2 DEF ReadFails, IInv, ReadInv
    <3>2. InReads' = InReads \ {buf[r]} /\ buf[r] \in InReads /\ buf[r] \in Buffers
      BY <1>o, <2>2, <3>1, ReadGives DEF ReadFails
    <3>3. \A p, q \in Reads : buf'[p] = buf'[q] /\ buf'[p] # NoBuffer => p = q
      BY <1>o, <2>2 DEF ReadFails, OneOwner, TypeOK
    <3>4. Processing' = Processing /\ rxq' = rxq /\ leaked' = leaked /\ idle' = idle \cup {buf[r]}
      BY <2>2 DEF ReadFails, Processing
    <3>. QED  BY <1>o, <3>2, <3>3, <3>4 DEF OneOwner
  <2>3. CASE ReadSucceeds(r)  BY <1>o, <2>3, NoMoveOneOwner DEF ReadSucceeds
  <2>. QED  BY <1>4, <2>1, <2>2, <2>3 DEF Read
<1>5. ASSUME NEW r \in Reads, Callback(r) PROVE OneOwner'
  <2>1. CASE EnqueueBuffer(r)
    <3>1. buf[r] # NoBuffer
      BY <2>1 DEF EnqueueBuffer, IInv, ReadInv
    <3>2. InReads' = InReads \ {buf[r]} /\ buf[r] \in InReads /\ buf[r] \in Buffers
      BY <1>o, <2>1, <3>1, ReadGives DEF EnqueueBuffer
    <3>3. \A p, q \in Reads : buf'[p] = buf'[q] /\ buf'[p] # NoBuffer => p = q
      BY <1>o, <2>1 DEF EnqueueBuffer, OneOwner, TypeOK
    <3>4. buf[r] \notin ToSet(rxq) /\ rxq' = Append(rxq, buf[r])
      BY <1>o, <2>1, <3>2 DEF EnqueueBuffer, OneOwner
    <3>5. /\ ToSet(rxq') = ToSet(rxq) \cup {buf[r]}
          /\ \A i, j \in 1..Len(rxq') : rxq'[i] = rxq'[j] => i = j
      BY <1>o, <3>2, <3>4, QueueAppend DEF OneOwner, TypeOK
    <3>6. Processing' = Processing /\ leaked' = leaked /\ idle' = idle
      BY <2>1 DEF EnqueueBuffer, Processing
    <3>. QED  BY <1>o, <3>2, <3>3, <3>5, <3>6 DEF OneOwner
  <2>2. CASE EnqueueFails(r)
    <3>1. buf[r] # NoBuffer
      BY <2>2 DEF EnqueueFails, IInv, ReadInv
    <3>2. InReads' = InReads \ {buf[r]} /\ buf[r] \in InReads /\ buf[r] \in Buffers
      BY <1>o, <2>2, <3>1, ReadGives DEF EnqueueFails
    <3>3. \A p, q \in Reads : buf'[p] = buf'[q] /\ buf'[p] # NoBuffer => p = q
      BY <1>o, <2>2 DEF EnqueueFails, OneOwner, TypeOK
    <3>4. Processing' = Processing /\ rxq' = rxq /\ idle' = idle /\ leaked' = leaked \cup {buf[r]}
      BY <2>2 DEF EnqueueFails, Processing
    <3>. QED  BY <1>o, <3>2, <3>3, <3>4 DEF OneOwner
  <2>3. CASE NotifyReceive(r)  BY <1>o, <2>3, NoMoveOneOwner DEF NotifyReceive
  <2>4. CASE SignalFramework(r)  BY <1>o, <2>4, NoMoveOneOwner DEF SignalFramework
  <2>. QED  BY <1>5, <2>1, <2>2, <2>3, <2>4 DEF Callback
<1>6. CASE UNCHANGED vars  BY <1>o, <1>6, NoMoveOneOwner DEF vars
<1>. QED  BY <1>1, <1>2, <1>3, <1>4, <1>5, <1>6 DEF Next

(* Which stages a step changes, and what that does to the buffers in reads: *)
(* after StopReceive no read is issued, and none is left before it returns. *)
LEMMA NextReads == IInv /\ [Next]_vars => (QuietWhenStopped /\ ReadInv)'
<1>. SUFFICES ASSUME IInv, [Next]_vars PROVE (QuietWhenStopped /\ ReadInv)'
  OBVIOUS
<1>. USE DEF IInv, QuietWhenStopped, ReadInv, readVars
<1>1. CASE Lifecycle
  <2>1. CASE EvtCreateRxQueue  BY <2>1 DEF EvtCreateRxQueue
  <2>2. CASE StartReceive  BY <2>2 DEF StartReceive
  <2>3. CASE Cancel  BY <2>3 DEF Cancel
  <2>4. CASE StopReceive  BY <2>4 DEF StopReceive
  <2>5. CASE StopReceiveReturns  BY <2>5 DEF StopReceiveReturns
  <2>6. CASE DestroyQueue  BY <2>6 DEF DestroyQueue
  <2>. QED  BY <1>1, <2>1, <2>2, <2>3, <2>4, <2>5, <2>6 DEF Lifecycle
<1>2. CASE Advance
  BY <1>2 DEF Advance, AdvanceBegin, DequeueBuffer, DeliverFrame, ReturnBuffer, AdvanceEnd
<1>3. CASE WakeUp  BY <1>3 DEF WakeUp
<1>4. ASSUME NEW r \in Reads, Read(r) PROVE (QuietWhenStopped /\ ReadInv)'
  <2>1. CASE IssueRead(r)
    <3>1. queue' = queue /\ queue \in {"running", "canceled"}
      BY <2>1 DEF IssueRead, LifeInv
    <3>2. PICK b \in idle : buf' = [buf EXCEPT ![r] = b]
      BY <2>1 DEF IssueRead
    <3>3. b # NoBuffer
      BY DEF TypeOK
    <3>. QED  BY <2>1, <3>1, <3>2, <3>3 DEF IssueRead, TypeOK
  <2>2. CASE ReadFails(r)  BY <2>2 DEF ReadFails, TypeOK
  <2>3. CASE ReadSucceeds(r)  BY <2>3 DEF ReadSucceeds, TypeOK
  <2>. QED  BY <1>4, <2>1, <2>2, <2>3 DEF Read
<1>5. ASSUME NEW r \in Reads, Callback(r) PROVE (QuietWhenStopped /\ ReadInv)'
  <2>1. CASE EnqueueBuffer(r)  BY <2>1 DEF EnqueueBuffer, TypeOK
  <2>2. CASE EnqueueFails(r)  BY <2>2 DEF EnqueueFails, TypeOK
  <2>3. CASE NotifyReceive(r)  BY <2>3 DEF NotifyReceive, TypeOK
  <2>4. CASE SignalFramework(r)  BY <2>4 DEF SignalFramework, TypeOK
  <2>. QED  BY <1>5, <2>1, <2>2, <2>3, <2>4 DEF Callback
<1>6. CASE UNCHANGED vars  BY <1>6 DEF vars
<1>. QED  BY <1>1, <1>2, <1>3, <1>4, <1>5, <1>6 DEF Next

(* The queue's life, the reader's and the framework's go together; a       *)
(* callback finds the queue it queues its block in.                        *)
LEMMA NextLife == IInv /\ [Next]_vars => (LifeInv /\ RoomInv)'
<1>. SUFFICES ASSUME IInv, [Next]_vars PROVE (LifeInv /\ RoomInv)'
  OBVIOUS
<1>. USE DEF IInv, LifeInv, RoomInv, readVars, bufferVars, pollVars
<1>1. CASE Lifecycle
  <2>1. CASE EvtCreateRxQueue  BY <2>1 DEF EvtCreateRxQueue
  <2>2. CASE StartReceive  BY <2>2 DEF StartReceive
  <2>3. CASE Cancel  BY <2>3 DEF Cancel
  <2>4. CASE StopReceive  BY <2>4 DEF StopReceive
  <2>5. CASE StopReceiveReturns  BY <2>5 DEF StopReceiveReturns
  <2>6. CASE DestroyQueue  BY <2>6 DEF DestroyQueue
  <2>. QED  BY <1>1, <2>1, <2>2, <2>3, <2>4, <2>5, <2>6 DEF Lifecycle
<1>2. CASE Advance
  <2>1. CASE AdvanceBegin
    <3>1. RingSize > 0
      OBVIOUS
    <3>. QED  BY <2>1, <3>1 DEF AdvanceBegin
  <2>2. CASE DequeueBuffer  BY <2>2 DEF DequeueBuffer
  <2>3. CASE DeliverFrame  BY <2>3 DEF DeliverFrame
  <2>4. CASE ReturnBuffer  BY <2>4 DEF ReturnBuffer
  <2>5. CASE AdvanceEnd  BY <2>5 DEF AdvanceEnd
  <2>. QED  BY <1>2, <2>1, <2>2, <2>3, <2>4, <2>5 DEF Advance
<1>3. CASE WakeUp  BY <1>3 DEF WakeUp
<1>4. ASSUME NEW r \in Reads, Read(r) PROVE (LifeInv /\ RoomInv)'
  BY <1>4 DEF Read, IssueRead, ReadFails, ReadSucceeds
<1>5. ASSUME NEW r \in Reads, Callback(r) PROVE (LifeInv /\ RoomInv)'
  <2>1. CASE EnqueueBuffer(r)
    <3>1. queue # "none"
      BY <2>1 DEF EnqueueBuffer, QuietWhenStopped
    <3>. QED  BY <2>1, <3>1 DEF EnqueueBuffer
  <2>2. CASE EnqueueFails(r)  BY <2>2 DEF EnqueueFails
  <2>3. CASE NotifyReceive(r)  BY <2>3 DEF NotifyReceive
  <2>4. CASE SignalFramework(r)  BY <2>4 DEF SignalFramework
  <2>. QED  BY <1>5, <2>1, <2>2, <2>3, <2>4 DEF Callback
<1>6. CASE UNCHANGED vars  BY <1>6 DEF vars
<1>. QED  BY <1>1, <1>2, <1>3, <1>4, <1>5, <1>6 DEF Next

(* Every step keeps somebody responsible for waking the framework.         *)
LEMMA NextWake == IInv /\ [Next]_vars => WakeInv'
<1>. SUFFICES ASSUME IInv, [Next]_vars PROVE WakeInv'
  OBVIOUS
<1>. USE DEF IInv, WakeInv, Signalling, readVars, bufferVars, pollVars
<1>1. CASE Lifecycle
  <2>1. CASE EvtCreateRxQueue  BY <2>1 DEF EvtCreateRxQueue, LifeInv
  <2>2. CASE StartReceive  BY <2>2 DEF StartReceive
  <2>3. CASE Cancel  BY <2>3 DEF Cancel
  <2>4. CASE StopReceive  BY <2>4 DEF StopReceive
  <2>5. CASE StopReceiveReturns  BY <2>5 DEF StopReceiveReturns
  <2>6. CASE DestroyQueue  BY <2>6 DEF DestroyQueue, LifeInv
  <2>. QED  BY <1>1, <2>1, <2>2, <2>3, <2>4, <2>5, <2>6 DEF Lifecycle
<1>2. CASE Advance
  <2>1. CASE AdvanceBegin  BY <2>1 DEF AdvanceBegin
  <2>2. CASE DequeueBuffer  BY <2>2 DEF DequeueBuffer
  <2>3. CASE DeliverFrame  BY <2>3 DEF DeliverFrame
  <2>4. CASE ReturnBuffer  BY <2>4 DEF ReturnBuffer
  <2>5. CASE AdvanceEnd
    <3>1. ~progress => free # 0
      BY <2>5 DEF AdvanceEnd, RoomInv, TypeOK
    <3>2. Signalling' <=> Signalling
      BY <2>5 DEF AdvanceEnd
    <3>3. CASE fw' = "poll"
      <4>1. armed' => notify'
        BY <2>5, <3>3 DEF AdvanceEnd
      <4>. QED  BY <3>3, <4>1
    <3>4. CASE fw' = "sleep"
      <4>1. ~progress /\ armed /\ UNCHANGED <<armed, notify, rxq, cur>> /\ fw # "off"
        BY <2>5, <3>4 DEF AdvanceEnd
      <4>2. cur = NoBuffer /\ rxq = <<>>
        BY <2>5, <3>1, <4>1 DEF AdvanceEnd
      <4>. QED  BY <3>2, <4>1, <4>2
    <3>. QED  BY <2>5, <3>3, <3>4 DEF AdvanceEnd
  <2>. QED  BY <1>2, <2>1, <2>2, <2>3, <2>4, <2>5 DEF Advance
<1>3. CASE WakeUp  BY <1>3 DEF WakeUp
<1>4. ASSUME NEW r \in Reads, Read(r) PROVE WakeInv'
  <2>1. CASE IssueRead(r)  BY <2>1 DEF IssueRead, TypeOK
  <2>2. CASE ReadFails(r)  BY <2>2 DEF ReadFails, TypeOK
  <2>3. CASE ReadSucceeds(r)  BY <2>3 DEF ReadSucceeds, TypeOK
  <2>. QED  BY <1>4, <2>1, <2>2, <2>3 DEF Read
<1>5. ASSUME NEW r \in Reads, Callback(r) PROVE WakeInv'
  <2>1. CASE EnqueueBuffer(r)  BY <2>1 DEF EnqueueBuffer, TypeOK
  <2>2. CASE EnqueueFails(r)  BY <2>2 DEF EnqueueFails, TypeOK
  <2>3. CASE NotifyReceive(r)
    <3>1. CASE notify
      <4>1. stage'[r] = "signal"
        BY <2>3, <3>1 DEF NotifyReceive, TypeOK
      <4>. QED  BY <2>3, <4>1 DEF NotifyReceive
    <3>2. CASE ~notify
      BY <2>3, <3>2 DEF NotifyReceive, TypeOK
    <3>. QED  BY <3>1, <3>2
  <2>4. CASE SignalFramework(r)  BY <2>4 DEF SignalFramework
  <2>. QED  BY <1>5, <2>1, <2>2, <2>3, <2>4 DEF Callback
<1>6. CASE UNCHANGED vars  BY <1>6 DEF vars
<1>. QED  BY <1>1, <1>2, <1>3, <1>4, <1>5, <1>6 DEF Next

(* The strengthening of all safety properties is invariant. *)
THEOREM Invariance == Spec => []IInv
<1>1. Init => IInv
  BY InitIInv
<1>2. IInv /\ [Next]_vars => IInv'
  BY NextTypeOK, NextOneOwner, NextReads, NextLife, NextWake DEF IInv
<1>. QED  BY <1>1, <1>2, PTL DEF Spec

(* Every field keeps its type: counts never go below zero or above their   *)
(* ring, and only buffers of the reader are queued.                        *)
THEOREM TypeCorrect == Spec => []TypeOK
<1>1. IInv => TypeOK
  BY DEF IInv
<1>. QED  BY <1>1, Invariance, PTL

(* However the completions interleave with Advance and with any number of  *)
(* stops, each read buffer has one owner.                                  *)
THEOREM BuffersHaveOneOwner == Spec => []OneOwner
<1>1. IInv => OneOwner
  BY DEF IInv
<1>. QED  BY <1>1, Invariance, PTL

(* Once StopReceive has returned no callback runs that could use the queue. *)
THEOREM StoppedIsQuiet == Spec => []QuietWhenStopped
<1>1. IInv => QuietWhenStopped
  BY DEF IInv
<1>. QED  BY <1>1, Invariance, PTL

(* The framework never sleeps on a block without somebody left to wake it. *)
THEOREM NeverSleepsOnBlocks == Spec => []SleepIsSafe
<1>1. IInv => SleepIsSafe
  <2>. SUFFICES ASSUME IInv, fw = "sleep", rxq # <<>> \/ cur # NoBuffer, ~Signalling
                PROVE  notify /\ \E r \in Reads : stage[r] = "notify"
    BY DEF SleepIsSafe, Signalling
  <2>. QED  BY DEF IInv, WakeInv
<1>. QED  BY <1>1, Invariance, PTL

=============================================================================
