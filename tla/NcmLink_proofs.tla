---------------------------- MODULE NcmLink_proofs --------------------------
(***************************************************************************)
(* Machine-checked proofs about NcmLink, for every set of bus speeds, of   *)
(* block sizes of hosts and of addresses, and any bounds on the queues:    *)
(* the two drivers over the bus implement FnDevice with an orderly host,   *)
(* so that FnDevice's theorems hold of them, and keep the link's own       *)
(* safety properties. IInv is inductive.                                   *)
(***************************************************************************)
EXTENDS NcmLink, Mac_proofs, SequenceTheorems

FnP == INSTANCE FnDevice_proofs WITH host <- "orderly", Sizes <- HostMaxes

-----------------------------------------------------------------------------
(* What FnDevice's proofs say here.                                        *)

(* The assumptions of FnDevice hold. *)
LEMMA FnAssumptions ==
  /\ MinSize \in Nat \ {0} /\ MaxSize \in Nat /\ MinSize <= MaxSize /\ HostMaxes \subseteq Nat
  /\ Speeds # {} /\ Speeds \subseteq Nat
BY HostAssumption, LinkAssumption

(* The initial states are FnDevice's and satisfy its invariant. *)
LEMMA FnInit == Fn!Init => Fn!IInv
<1>1. FnP!Init => FnP!IInv
  BY FnP!InitIInv, FnAssumptions
<1>. QED
  BY <1>1 DEF Fn!Init, Fn!IInv, Fn!TypeOK, Fn!SessionInv, Fn!OrderlyInv,
             Fn!AdapterBelongsToSession, Fn!ToldMatchesAdapter, Fn!HasAdapter, Fn!NoAdapter,
             Fn!DevType, Fn!AdapterType, FnP!Init, FnP!IInv, FnP!TypeOK, FnP!SessionInv,
             FnP!OrderlyInv, FnP!AdapterBelongsToSession, FnP!ToldMatchesAdapter,
             FnP!HasAdapter, FnP!NoAdapter, FnP!DevType, FnP!AdapterType

(* FnDevice's steps preserve FnDevice's invariant. *)
LEMMA FnStep == ASSUME Fn!IInv, [Fn!Next]_(Fn!vars) PROVE Fn!IInv'
<1>1. FnP!IInv /\ [FnP!Next]_(FnP!vars) => FnP!IInv'
  BY FnP!NextIInv, FnAssumptions
<1>2. FnP!IInv <=> Fn!IInv
  BY DEF Fn!IInv, Fn!TypeOK, Fn!SessionInv, Fn!OrderlyInv, Fn!AdapterBelongsToSession,
         Fn!ToldMatchesAdapter, Fn!HasAdapter, Fn!NoAdapter, Fn!DevType, Fn!AdapterType,
         FnP!IInv, FnP!TypeOK, FnP!SessionInv, FnP!OrderlyInv, FnP!AdapterBelongsToSession,
         FnP!ToldMatchesAdapter, FnP!HasAdapter, FnP!NoAdapter, FnP!DevType, FnP!AdapterType
<1>3. FnP!IInv' <=> Fn!IInv'
  BY DEF Fn!IInv, Fn!TypeOK, Fn!SessionInv, Fn!OrderlyInv, Fn!AdapterBelongsToSession,
         Fn!ToldMatchesAdapter, Fn!HasAdapter, Fn!NoAdapter, Fn!DevType, Fn!AdapterType,
         FnP!IInv, FnP!TypeOK, FnP!SessionInv, FnP!OrderlyInv, FnP!AdapterBelongsToSession,
         FnP!ToldMatchesAdapter, FnP!HasAdapter, FnP!NoAdapter, FnP!DevType, FnP!AdapterType
<1>4. [FnP!Next]_(FnP!vars) <=> [Fn!Next]_(Fn!vars)
  BY DEF Fn!Next, Fn!Power, Fn!PrepareHardware, Fn!SubscribeBusEvents,
         Fn!UnSubscribeBusEvents, Fn!ReleaseHardware, Fn!SetParameters, Fn!BusEvent,
         Fn!Attach, Fn!Configured, Fn!UnConfigured, Fn!Detach, Fn!Reset, Fn!Destroy,
         Fn!Destroyed, Fn!HasAdapter, Fn!NoAdapter, Fn!Tell, Fn!HostRequest,
         Fn!SetInterface, Fn!OnSetInterface, Fn!SelectData, Fn!SelectNoData, Fn!Created,
         Fn!Outcomes, Fn!SetNtbFormat, Fn!OnSetNtbFormat, Fn!SetNtbInputSize,
         Fn!OnSetNtbInputSize, Fn!Accepts, Fn!vars, FnP!Next, FnP!Power,
         FnP!PrepareHardware, FnP!SubscribeBusEvents, FnP!UnSubscribeBusEvents,
         FnP!ReleaseHardware, FnP!SetParameters, FnP!BusEvent, FnP!Attach, FnP!Configured,
         FnP!UnConfigured, FnP!Detach, FnP!Reset, FnP!Destroy, FnP!Destroyed,
         FnP!HasAdapter, FnP!NoAdapter, FnP!Tell, FnP!HostRequest, FnP!SetInterface,
         FnP!OnSetInterface, FnP!SelectData, FnP!SelectNoData, FnP!Created, FnP!Outcomes,
         FnP!SetNtbFormat, FnP!OnSetNtbFormat, FnP!SetNtbInputSize, FnP!OnSetNtbInputSize,
         FnP!Accepts, FnP!vars
<1>. QED  BY <1>1, <1>2, <1>3, <1>4

-----------------------------------------------------------------------------
(* The queue of events.                                                    *)

(* An event of every kind, as the host and the bus queue it, has its type. *)
LEMMA EventTypes ==
  /\ \A k \in {"attach", "configured", "unconfigured", "detach", "reset", "getNtbParameters"} :
       Event(k, 0) \in EventType
  /\ \A a \in {0, 1} : Event("setInterface", a) \in EventType
  /\ Event("setNtbFormat", 1) \in EventType
  /\ \A n \in HostMaxes : Fn!Accepts(n) => Event("setNtbInputSize", n) \in EventType
BY DEF Event, EventType

(* What the fields of an event say. *)
LEMMA EventFields ==
  /\ \A k, a : Event(k, a).kind = k /\ Event(k, a).arg = a
  /\ \A e \in EventType :
       /\ e = Event(e.kind, e.arg)
       /\ e.kind = "setInterface" => e.arg \in {0, 1}
       /\ e.kind = "setNtbFormat" => e.arg = 1
       /\ e.kind = "setNtbInputSize" => e.arg \in HostMaxes /\ Fn!Accepts(e.arg)
BY DEF Event, EventType

(* What taking the first element leaves. *)
LEMMA TailFacts ==
  ASSUME NEW S, NEW s \in Seq(S), s # <<>>
  PROVE  /\ Len(s) \in Nat \ {0} /\ s[1] \in S /\ Head(s) = s[1]
         /\ Tail(s) \in Seq(S) /\ Len(Tail(s)) = Len(s) - 1
         /\ Tail(s) = <<>> <=> Len(s) = 1
         /\ \A i \in 1 .. Len(s) - 1 : Tail(s)[i] = s[i + 1]
<1>1. Len(s) \in Nat \ {0}
  BY EmptySeq
<1>2. /\ Tail(s) \in Seq(S) /\ Len(Tail(s)) = Len(s) - 1
      /\ \A i \in 1 .. Len(Tail(s)) : Tail(s)[i] = s[i + 1]
  BY HeadTailProperties
<1>3. s[1] \in S
  BY <1>1, ElementOfSeq
<1>4. ASSUME NEW t \in Seq(S), Len(t) = Len(s) - 1 PROVE t = <<>> <=> Len(s) = 1
  BY <1>1, <1>4, EmptySeq
<1>5. Tail(s) = <<>> <=> Len(s) = 1
  BY <1>2, <1>4
<1>. QED  BY <1>1, <1>2, <1>3, <1>5

(* Adding an event at the end. *)
LEMMA AppendedFollows ==
  ASSUME NEW s \in Seq(EventType), \A i \in 2 .. Len(s) : Follows(s[i - 1], s[i]),
         NEW e \in EventType, s # <<>> => Follows(s[Len(s)], e)
  PROVE  LET t == Append(s, e) IN
         /\ t \in Seq(EventType) /\ t # <<>> /\ t[Len(t)] = e
         /\ t[1] = IF s = <<>> THEN e ELSE s[1]
         /\ \A i \in 2 .. Len(t) : Follows(t[i - 1], t[i])
<1>. DEFINE t == Append(s, e)
<1>1. /\ t \in Seq(EventType) /\ t # <<>>
      /\ Len(t) = Len(s) + 1 /\ Len(s) \in Nat
      /\ \A i \in 1 .. Len(s) : t[i] = s[i]
      /\ t[Len(t)] = e
  BY AppendProperties, LenProperties
<1>2. s = <<>> <=> Len(s) = 0
  BY EmptySeq
<1>. HIDE DEF t
<1>3. ASSUME NEW i \in 2 .. Len(t) PROVE Follows(t[i - 1], t[i])
  <2>1. CASE i = Len(t)
    <3>1. s # <<>> /\ t[i] = e /\ t[i - 1] = s[Len(s)]
      BY <1>1, <1>2, <2>1
    <3>. QED  BY <3>1
  <2>2. CASE i # Len(t)
    <3>1. i \in 2 .. Len(s) /\ t[i] = s[i] /\ t[i - 1] = s[i - 1]
      BY <1>1, <2>2
    <3>. QED  BY <3>1
  <2>. QED  BY <2>1, <2>2
<1>4. t[1] = IF s = <<>> THEN e ELSE s[1]
  BY <1>1, <1>2
<1>. QED  BY <1>1, <1>3, <1>4 DEF t

(* An event is added behind the others. *)
LEMMA QueueAppended ==
  ASSUME events \in Seq(EventType), QueueInv, NEW e \in EventType,
         events' = Append(events, e), UNCHANGED <<bus, dev>>,
         IF events = <<>> THEN HeadInv(e) ELSE Follows(events[Len(events)], e),
         LastInv(e)'
  PROVE  QueueInv'
<1>1. /\ events' # <<>> /\ events'[Len(events')] = e
      /\ events'[1] = IF events = <<>> THEN e ELSE events[1]
      /\ \A i \in 2 .. Len(events') : Follows(events'[i - 1], events'[i])
  BY AppendedFollows DEF QueueInv
<1>2. HeadInv(events[1])'
  BY <1>1 DEF QueueInv, HeadInv, Fn!HasAdapter
<1>3. LastInv(events[Len(events)])'
  BY <1>1 DEF LastInv, OfSession
<1>. QED  BY <1>1, <1>2, <1>3 DEF QueueInv

(* The queue stays as it is. *)
LEMMA QueueKept ==
  ASSUME QueueInv, UNCHANGED <<events, bus, dev>>,
         events # <<>> => LastInv(events[Len(events)])',
         events = <<>> => NoneLeftInv'
  PROVE  QueueInv'
<1>1. \A i \in 2 .. Len(events') : Follows(events'[i - 1], events'[i])
  BY DEF QueueInv
<1>2. events' # <<>> => HeadInv(events[1])'
  BY DEF QueueInv, HeadInv, Fn!HasAdapter
<1>. QED  BY <1>1, <1>2 DEF QueueInv

(* The function takes the head. *)
LEMMA QueueTaken ==
  ASSUME events \in Seq(EventType), QueueInv, events # <<>>, events' = Tail(events),
         \A e : Tail(events) # <<>> /\ e = events[2] => HeadInv(e)',
         \A e : Tail(events) # <<>> /\ e = events[Len(events)] => LastInv(e)',
         Tail(events) = <<>> => NoneLeftInv'
  PROVE  QueueInv'
<1>1. /\ Len(events) \in Nat \ {0} /\ events' \in Seq(EventType)
      /\ Len(events') = Len(events) - 1
      /\ \A i \in 1 .. Len(events') : events'[i] = events[i + 1]
  BY HeadTailProperties, EmptySeq
<1>2. events' = <<>> <=> Len(events') = 0
  BY <1>1, EmptySeq
<1>3. \A i \in 2 .. Len(events') : Follows(events'[i - 1], events'[i])
  BY <1>1 DEF QueueInv
<1>4. events' # <<>> => events'[1] = events[2] /\ events'[Len(events')] = events[Len(events)]
  BY <1>1, <1>2
<1>5. events' # <<>> => HeadInv(events[1])'
  BY <1>2, <1>4 DEF HeadInv
<1>6. events' # <<>> => LastInv(events[Len(events)])'
  BY <1>2, <1>4 DEF LastInv, OfSession
<1>. QED  BY <1>3, <1>5, <1>6 DEF QueueInv

-----------------------------------------------------------------------------
(* The host's steps.                                                       *)

(* The host driver, its interrupt reader, the user and the bus. *)
HostSide == (HostDriver \/ InterruptReader \/ HostEnvironment)

(* The size that a host sends is one the function accepts. *)
LEMMA SizeAccepted ==
  ASSUME NEW n \in HostMaxes \cup {0, MaxSize}, n # 0, n < MaxSize
  PROVE  n \in HostMaxes /\ Fn!Accepts(n)
<1>1. n \in HostMaxes /\ n \in Nat /\ MaxSize \in Nat
  BY FnAssumptions
<1>2. MinSize <= n
  BY <1>1, LinkAssumption
<1>. QED  BY <1>1, <1>2 DEF Fn!Accepts

(* CreateAdapter keeps the device's fields in their types.                 *)
LEMMA CreatedType ==
  ASSUME device \in DeviceType, NEW a \in {"none", "live"}
  PROVE  [device EXCEPT !.adapter = a, !.link = "unknown", !.linkRate = 0, !.rate = 0]
           \in DeviceType
<1>1. 0 \in Rates
  BY DEF Rates
<1>. QED  BY <1>1 DEF DeviceType

(* So does a notification that is read. *)
LEMMA AppliedType ==
  ASSUME device \in DeviceType, NEW note \in NoteType
  PROVE  Applied(note) \in DeviceType
<1>1. CASE note.kind = "speed"
  BY <1>1 DEF Applied, NoteType, DeviceType
<1>2. CASE note.kind = "up"
  BY <1>2 DEF Applied, NoteType, DeviceType
<1>3. CASE note.kind = "down"
  <2>1. 0 \in Rates
    BY DEF Rates
  <2>. QED  BY <1>3, <2>1 DEF Applied, NoteType, DeviceType
<1>. QED  BY <1>1, <1>2, <1>3 DEF NoteType

(* A notification changes the link's fields only. *)
LEMMA AppliedKeeps ==
  ASSUME device \in DeviceType, NEW note \in NoteType
  PROVE  LET d == Applied(note) IN
         /\ d.adapter = device.adapter /\ d.pipes = device.pipes
         /\ d.use32 = device.use32 /\ d.inSize = device.inSize /\ d.mac = device.mac
<1>1. CASE note.kind = "speed"
  BY <1>1 DEF Applied, NoteType, DeviceType
<1>2. CASE note.kind = "up"
  BY <1>2 DEF Applied, NoteType, DeviceType
<1>3. CASE note.kind = "down"
  BY <1>3 DEF Applied, NoteType, DeviceType
<1>. QED  BY <1>1, <1>2, <1>3 DEF NoteType

(* Every step of the host keeps the types. *)
LEMMA HostType == ASSUME IInv, HostSide PROVE TypeOK'
<1>. USE DEF IInv, TypeOK, Asked
<1>0. UNCHANGED fnVars
  BY DEF HostSide, HostDriver, InterruptReader, HostEnvironment
<1>1. CASE \E max \in HostMaxes : Plug(max)
  <2>1. events' \in Seq(EventType)
    BY <1>1, EventTypes, AppendProperties DEF Plug, Queue
  <2>2. \A max \in HostMaxes : NewDevice(max) \in DeviceType
    BY DEF NewDevice, DeviceType, Rates
  <2>. QED  BY <1>0, <1>1, <2>1, <2>2 DEF Plug, fnVars
<1>2. CASE Unplug
  <2>1. events' \in Seq(EventType)
    BY <1>2, EventTypes, AppendProperties DEF Unplug, Queue
  <2>. QED  BY <1>0, <1>2, <2>1, EmptySeq DEF Unplug, fnVars, EndTransfers
<1>3. CASE SelectConfiguration(MacString)
  <2>1. events' \in Seq(EventType)
    BY <1>3, EventTypes, AppendProperties DEF SelectConfiguration, Queue
  <2>2. HexStringToBytes(MacString) = cdcMac
    BY MacStringRoundTrip, LinkAssumption DEF MacString
  <2>3. device \in DeviceType /\ cdcMac \in Macs
    OBVIOUS
  <2>4. device' \in {device, [device EXCEPT !.mac = cdcMac]}
    BY <1>3, <2>2 DEF SelectConfiguration
  <2>5. device' \in DeviceType
    BY <2>3, <2>4 DEF DeviceType
  <2>. QED  BY <1>0, <1>3, <2>1, <2>5 DEF SelectConfiguration, fnVars
<1>4. CASE GetNtbParameters
  <2>1. events' \in Seq(EventType)
    BY <1>4, EventTypes, AppendProperties DEF GetNtbParameters, Request
  <2>. QED  BY <1>0, <1>4, <2>1 DEF GetNtbParameters, Request, fnVars
<1>5. CASE ParametersAnswered
  BY <1>0, <1>5, FnAssumptions DEF ParametersAnswered, Answered, fnVars, DeviceType
<1>6. CASE SettingZero
  <2>1. events' \in Seq(EventType)
    BY <1>6, EventTypes, AppendProperties DEF SettingZero, SelectDataSetting
  <2>. QED  BY <1>0, <1>6, <2>1 DEF SettingZero, SelectDataSetting, fnVars, DeviceType
<1>7. CASE SetNtbFormat
  <2>1. events' \in Seq(EventType)
    BY <1>7, EventTypes, AppendProperties DEF SetNtbFormat, Request
  <2>. QED  BY <1>0, <1>7, <2>1 DEF SetNtbFormat, Request, fnVars
<1>8. CASE FormatAnswered
  BY <1>0, <1>8 DEF FormatAnswered, Answered, fnVars
<1>9. CASE SetNtbInputSize
  <2>1. device.inSize \in HostMaxes /\ Fn!Accepts(device.inSize)
    <3>1. pc = "setSize"
      BY <1>9 DEF SetNtbInputSize, Request
    <3>2. device.inSize # 0 /\ device.inSize < MaxSize
      BY <3>1 DEF Negotiation, Starting
    <3>3. device.inSize \in HostMaxes \cup {0, MaxSize}
      BY DEF DeviceType
    <3>. QED  BY <3>2, <3>3, SizeAccepted
  <2>2. events' \in Seq(EventType)
    BY <1>9, <2>1, EventTypes, AppendProperties DEF SetNtbInputSize, Request
  <2>. QED  BY <1>0, <1>9, <2>2 DEF SetNtbInputSize, Request, fnVars
<1>10. CASE SizeAnswered
  BY <1>0, <1>10 DEF SizeAnswered, Answered, fnVars
<1>11. CASE SettingOne
  <2>1. events' \in Seq(EventType)
    BY <1>11, EventTypes, AppendProperties DEF SettingOne, SelectDataSetting
  <2>. QED  BY <1>0, <1>11, <2>1 DEF SettingOne, SelectDataSetting, fnVars, DeviceType
<1>12. CASE RetrieveDataBulkPipes
  BY <1>0, <1>12 DEF RetrieveDataBulkPipes, fnVars, DeviceType
<1>13. CASE CreateAdapter
  <2>1. device' \in DeviceType
    BY <1>13, CreatedType DEF CreateAdapter
  <2>. QED  BY <1>0, <1>13, <2>1 DEF CreateAdapter, fnVars
<1>14. CASE StartReader \/ Fail \/ Abort \/ LeaveWorkingState \/ EnterWorkingState
  BY <1>0, <1>14 DEF StartReader, Fail, Abort, LeaveWorkingState, EnterWorkingState, fnVars
<1>15. CASE ReadNotification
  <2>1. Head(notes) \in NoteType /\ notes' \in Seq(NoteType)
    BY <1>15, HeadTailProperties DEF ReadNotification
  <2>2. Applied(Head(notes)) \in DeviceType
    BY <2>1, AppliedType
  <2>. QED  BY <1>0, <1>15, <2>1, <2>2 DEF ReadNotification, fnVars
<1>16. CASE ResetOnResume
  <2>1. events' \in Seq(EventType)
    BY <1>16, EventTypes, AppendProperties DEF ResetOnResume
  <2>. QED  BY <1>0, <1>16, <2>1, EmptySeq DEF ResetOnResume, EndTransfers, fnVars
<1>17. CASE ReleaseHardware
  <2>1. events' \in Seq(EventType)
    BY <1>17, EventTypes, AppendProperties DEF ReleaseHardware, Queue
  <2>2. device' \in DeviceType
    <3>1. device \in DeviceType
      OBVIOUS
    <3>2. CASE device.adapter = "none"
      BY <1>17, <3>1, <3>2 DEF ReleaseHardware
    <3>3. CASE device.adapter # "none"
      <4>1. device' = [device EXCEPT !.adapter = "dead"]
        BY <1>17, <3>3 DEF ReleaseHardware
      <4>. QED  BY <3>1, <4>1 DEF DeviceType
    <3>. QED  BY <3>2, <3>3
  <2>. QED  BY <1>0, <1>17, <2>1, <2>2, EmptySeq DEF ReleaseHardware, EndTransfers, fnVars
<1>18. CASE Restart
  BY <1>0, <1>18 DEF Restart, fnVars
<1>19. CASE Remove
  <2>1. events' \in Seq(EventType)
    BY <1>19, EventTypes, AppendProperties DEF Remove, Queue
  <2>2. device' \in DeviceType
    BY <1>19 DEF Remove, NewDevice, DeviceType, Rates
  <2>. QED  BY <1>0, <1>19, <2>1, <2>2 DEF Remove, fnVars
<1>. QED
  BY <1>1, <1>2, <1>3, <1>4, <1>5, <1>6, <1>7, <1>8, <1>9, <1>10, <1>11, <1>12, <1>13, <1>14,
     <1>15, <1>16, <1>17, <1>18, <1>19
     DEF HostSide, HostDriver, HostStep, InitializeDevice, SelectSetting, InterruptReader,
         HostEnvironment, Environment

(* An answer waits only for a host that waits for it. *)
LEMMA HostAnswer == ASSUME IInv, HostSide PROVE AnswerInv'
<1>. USE DEF IInv, AnswerInv, Asked
<1>1. CASE Unplug \/ ResetOnResume \/ ParametersAnswered \/ FormatAnswered \/ SizeAnswered
  BY <1>1 DEF Unplug, ResetOnResume, EndTransfers, ParametersAnswered, FormatAnswered,
              SizeAnswered, Answered
<1>2. CASE SelectSetting \/ SelectConfiguration(MacString) \/ GetNtbParameters
  BY <1>1, <1>2 DEF SelectSetting, SelectConfiguration, GetNtbParameters, SettingZero, SettingOne,
       SelectDataSetting, SetNtbFormat, SetNtbInputSize, Request, RetrieveDataBulkPipes
<1>3. CASE \/ \E max \in HostMaxes : Plug(max)
           \/ LeaveWorkingState \/ EnterWorkingState \/ ReleaseHardware \/ Restart \/ Remove
  BY <1>3 DEF Plug, LeaveWorkingState, EnterWorkingState, ReleaseHardware, EndTransfers,
              Restart, Remove
<1>4. CASE CreateAdapter \/ StartReader \/ Fail \/ Abort \/ ReadNotification
  BY <1>4 DEF CreateAdapter, StartReader, Fail, Abort, ReadNotification
<1>. QED
  BY <1>1, <1>2, <1>3, <1>4
     DEF HostSide, HostDriver, HostStep, InitializeDevice, InterruptReader, HostEnvironment,
         Environment

(* The device's fields follow the place the driver is in. *)
LEMMA HostDeviceInv == ASSUME IInv, HostSide PROVE DeviceInv'
<1>. USE DEF IInv, DeviceInv, Starting, Started, Asked
<1>0. device \in DeviceType /\ cdcMac' = cdcMac
  BY DEF TypeOK, HostSide, HostDriver, InterruptReader, HostEnvironment, fnVars
<1>1. CASE \/ \E max \in HostMaxes : Plug(max)
           \/ Unplug \/ LeaveWorkingState \/ EnterWorkingState \/ ResetOnResume
  BY <1>0, <1>1 DEF Plug, NewDevice, Unplug, LeaveWorkingState, EnterWorkingState, ResetOnResume
<1>2. CASE ReleaseHardware \/ Restart \/ Remove
  <2>1. CASE ReleaseHardware
    BY <1>0, <2>1 DEF ReleaseHardware, DeviceType
  <2>2. CASE Restart
    BY <1>0, <2>2 DEF Restart
  <2>3. CASE Remove
    BY <1>0, <2>3 DEF Remove, NewDevice
  <2>. QED  BY <1>2, <2>1, <2>2, <2>3
<1>3. CASE SelectConfiguration(MacString)
  <2>1. HexStringToBytes(MacString) = cdcMac
    BY MacStringRoundTrip, LinkAssumption DEF MacString, TypeOK
  <2>. QED  BY <1>0, <1>3, <2>1 DEF SelectConfiguration, DeviceType
<1>4. CASE GetNtbParameters \/ ParametersAnswered
  <2>1. CASE GetNtbParameters
    BY <1>0, <2>1 DEF GetNtbParameters, Request
  <2>2. CASE ParametersAnswered
    <3>1. /\ device'.adapter = device.adapter /\ device'.pipes = device.pipes
          /\ device'.mac = device.mac
      BY <1>0, <2>2 DEF ParametersAnswered, DeviceType
    <3>2. pc = "parametersAsked" /\ pc' \in {"settingZero", "failed"} /\ resume' = resume
      BY <2>2 DEF ParametersAnswered, Answered
    <3>. QED  BY <1>0, <3>1, <3>2
  <2>. QED  BY <1>4, <2>1, <2>2
<1>5. CASE SelectSetting
  <2>1. CASE SettingZero \/ SettingOne
    BY <1>0, <2>1 DEF SettingZero, SettingOne, SelectDataSetting, DeviceType
  <2>2. CASE SetNtbFormat \/ FormatAnswered
    BY <2>2, <1>0 DEF SetNtbFormat, Request, FormatAnswered, Answered
  <2>3. CASE SetNtbInputSize \/ SizeAnswered
    BY <2>3, <1>0 DEF SetNtbInputSize, Request, SizeAnswered, Answered
  <2>4. CASE RetrieveDataBulkPipes
    BY <1>0, <2>4 DEF RetrieveDataBulkPipes, DeviceType
  <2>. QED  BY <1>5, <2>1, <2>2, <2>3, <2>4 DEF SelectSetting
<1>6. CASE CreateAdapter
  BY <1>0, <1>6 DEF CreateAdapter, DeviceType
<1>7. CASE StartReader \/ Fail \/ Abort
  BY <1>0, <1>7 DEF StartReader, Fail, Abort
<1>8. CASE ReadNotification
  <2>1. /\ Applied(Head(notes)).adapter = device.adapter
        /\ Applied(Head(notes)).pipes = device.pipes
        /\ Applied(Head(notes)).mac = device.mac
    <3>1. Head(notes) \in NoteType
      BY <1>8, HeadTailProperties DEF ReadNotification, TypeOK
    <3>. QED  BY <1>0, <3>1, AppliedKeeps
  <2>. QED  BY <1>0, <1>8, <2>1 DEF ReadNotification
<1>. QED
  BY <1>1, <1>2, <1>3, <1>4, <1>5, <1>6, <1>7, <1>8
     DEF HostSide, HostDriver, HostStep, InitializeDevice, InterruptReader, HostEnvironment,
         Environment

(* The queue, and what is behind its last event, follow the host's steps.  *)
LEMMA HostQueue == ASSUME IInv, HostSide PROVE QueueInv'
<1>. USE DEF Asked, RequestOf, ClassRequests
<1>0. /\ events \in Seq(EventType) /\ QueueInv /\ AnswerInv /\ Negotiation
      /\ UNCHANGED <<bus, dev>>
  BY DEF IInv, TypeOK, HostSide, HostDriver, InterruptReader, HostEnvironment, fnVars
<1>1. ASSUME events # <<>>
      PROVE  /\ HeadInv(events[1]) /\ LastInv(events[Len(events)])
             /\ events[Len(events)] \in EventType
  BY <1>0, <1>1, EmptySeq, ElementOfSeq DEF QueueInv
<1>2. ASSUME NEW kind \in {"attach", "configured", "unconfigured", "detach", "reset"},
             Queue(kind), wire' = "configured" => kind = "configured",
             wire' = "configured" => pc' \notin Asked \cup {"setFormat"}
      PROVE  QueueInv'
  <2>. DEFINE e == Event(kind, 0)
  <2>1. e \in EventType /\ e.kind = kind
    BY EventTypes, EventFields
  <2>2. HeadInv(e) /\ (events # <<>> => Follows(events[Len(events)], e))
    BY <2>1 DEF HeadInv, Follows
  <2>3. LastInv(e)'
    BY <1>2, <2>1 DEF LastInv, OfSession
  <2>4. events' = Append(events, e)
    BY <1>2 DEF Queue
  <2>. HIDE DEF e
  <2>. QED  BY <1>0, <2>1, <2>2, <2>3, <2>4, QueueAppended
<1>3. ASSUME UNCHANGED <<events, wire, answer>>, pc \notin Asked, pc' \notin Asked \cup {"setFormat"}
      PROVE  QueueInv'
  <2>1. events # <<>> => LastInv(events[Len(events)])'
    BY <1>1, <1>3 DEF LastInv, OfSession
  <2>2. events = <<>> => NoneLeftInv'
    BY <1>0, <1>3 DEF QueueInv, NoneLeftInv
  <2>. QED  BY <1>0, <1>3, <2>1, <2>2, QueueKept
<1>4. ASSUME NEW at, NEW waiting, NEW next, Answered(waiting, next), waiting \in Asked,
             pc' \notin Asked \cup {"setFormat"}
      PROVE  QueueInv'
  <2>1. events = <<>> /\ UNCHANGED <<events, wire>>
    BY <1>0, <1>4 DEF Answered, AnswerInv
  <2>2. NoneLeftInv'
    BY <1>0, <1>4, <2>1 DEF QueueInv, NoneLeftInv
  <2>. QED  BY <1>0, <2>1, <2>2, QueueKept
<1>5. ASSUME NEW e \in EventType, wire = "configured", wire' = wire, pc \notin Asked,
             events' = Append(events, e), OfSession(e), answer' = answer,
             e.kind = "setNtbFormat" => pc = "setFormat",
             e.kind = "setNtbInputSize" => pc = "setSize",
             pc' = "setFormat" => e = Event("setInterface", 0),
             IF e.kind \in ClassRequests THEN pc' \in Asked /\ e.kind = RequestOf(pc')
                                        ELSE pc' \notin Asked
      PROVE  QueueInv'
  <2>1. CASE events = <<>>
    <3>1. bus = "configured" /\ (pc = "setFormat" => dev.alt = 0)
      BY <1>0, <1>5, <2>1 DEF QueueInv, NoneLeftInv
    <3>2. pc = "setSize" => ~Fn!HasAdapter(dev)
      BY <1>0, <1>5 DEF Negotiation, Ready
    <3>3. HeadInv(e)
      BY <1>5, <3>1, <3>2 DEF HeadInv
    <3>4. LastInv(e)'
      BY <1>0, <1>5 DEF LastInv, AnswerInv, OfSession
    <3>. QED  BY <1>0, <1>5, <2>1, <3>3, <3>4, QueueAppended
  <2>2. CASE events # <<>>
    <3>1. pc # "setSize"
      BY <1>0, <1>5, <2>2 DEF Negotiation
    <3>2. Follows(events[Len(events)], e)
      BY <1>1, <1>5, <2>2, <3>1 DEF Follows, LastInv
    <3>3. LastInv(e)'
      BY <1>0, <1>5 DEF LastInv, AnswerInv, OfSession
    <3>. QED  BY <1>0, <1>5, <2>2, <3>2, <3>3, QueueAppended
  <2>. QED  BY <2>1, <2>2
<1>6. CASE \E max \in HostMaxes : Plug(max)
  BY <1>2, <1>6 DEF Plug
<1>7. CASE Unplug
  BY <1>2, <1>7 DEF Unplug
<1>8. CASE SelectConfiguration(MacString)
  BY <1>2, <1>8 DEF SelectConfiguration
<1>9. CASE GetNtbParameters
  <2>. DEFINE e == Event("getNtbParameters", 0)
  <2>1. e \in EventType /\ e.kind = "getNtbParameters"
    BY EventTypes, EventFields
  <2>2. pc = "getParameters" /\ pc' = "parametersAsked" /\ events' = Append(events, e)
        /\ wire = "configured" /\ UNCHANGED <<wire, answer>>
    BY <1>9 DEF GetNtbParameters, Request
  <2>. HIDE DEF e
  <2>. QED  BY <1>5, <2>1, <2>2 DEF OfSession
<1>10. CASE SetNtbFormat
  <2>. DEFINE e == Event("setNtbFormat", 1)
  <2>1. e \in EventType /\ e.kind = "setNtbFormat"
    BY EventTypes, EventFields
  <2>2. pc = "setFormat" /\ pc' = "formatAsked" /\ events' = Append(events, e)
        /\ wire = "configured" /\ UNCHANGED <<wire, answer>>
    BY <1>10 DEF SetNtbFormat, Request
  <2>. HIDE DEF e
  <2>. QED  BY <1>5, <2>1, <2>2 DEF OfSession
<1>11. CASE SetNtbInputSize
  <2>. DEFINE e == Event("setNtbInputSize", device.inSize)
  <2>1. pc = "setSize" /\ pc' = "sizeAsked" /\ events' = Append(events, e)
        /\ wire = "configured" /\ UNCHANGED <<wire, answer>>
    BY <1>11 DEF SetNtbInputSize, Request
  <2>2. e \in EventType
    <3>1. device.inSize # 0 /\ device.inSize < MaxSize
      BY <1>0, <2>1 DEF Negotiation, Starting
    <3>2. device.inSize \in HostMaxes \cup {0, MaxSize}
      BY DEF IInv, TypeOK, DeviceType
    <3>. QED  BY <3>1, <3>2, SizeAccepted, EventTypes
  <2>3. e.kind = "setNtbInputSize"
    BY EventFields
  <2>. HIDE DEF e
  <2>. QED  BY <1>5, <2>1, <2>2, <2>3 DEF OfSession
<1>12. CASE SettingZero
  <2>. DEFINE e == Event("setInterface", 0)
  <2>1. e \in EventType /\ e.kind = "setInterface"
    BY EventTypes, EventFields
  <2>2. pc = "settingZero" /\ pc' = "setFormat" /\ events' = Append(events, e)
        /\ wire = "configured" /\ UNCHANGED <<wire, answer>>
    BY <1>12 DEF SettingZero, SelectDataSetting
  <2>. QED  BY <1>5, <2>1, <2>2 DEF OfSession
<1>13. CASE SettingOne
  <2>. DEFINE e == Event("setInterface", 1)
  <2>1. e \in EventType /\ e.kind = "setInterface"
    BY EventTypes, EventFields
  <2>2. pc = "settingOne" /\ pc' = "retrievePipes" /\ events' = Append(events, e)
        /\ wire = "configured" /\ UNCHANGED <<wire, answer>>
    BY <1>13 DEF SettingOne, SelectDataSetting
  <2>. HIDE DEF e
  <2>. QED  BY <1>5, <2>1, <2>2 DEF OfSession
<1>14. CASE ParametersAnswered \/ FormatAnswered \/ SizeAnswered
  BY <1>4, <1>14 DEF ParametersAnswered, FormatAnswered, SizeAnswered, Answered
<1>15. CASE RetrieveDataBulkPipes \/ CreateAdapter \/ StartReader \/ Fail \/ ReadNotification
  BY <1>3, <1>15 DEF RetrieveDataBulkPipes, CreateAdapter, StartReader, Fail, ReadNotification
<1>16. CASE LeaveWorkingState \/ EnterWorkingState \/ Restart
  BY <1>3, <1>16 DEF LeaveWorkingState, EnterWorkingState, Restart
<1>17. CASE Abort
  <2>1. UNCHANGED <<events, wire, answer>> /\ wire = "unplugged" /\ pc' = "failed"
    BY <1>17 DEF Abort
  <2>2. events # <<>> => LastInv(events[Len(events)])'
    BY <1>1, <2>1 DEF LastInv, OfSession
  <2>3. NoneLeftInv'
    BY <2>1 DEF NoneLeftInv
  <2>. QED  BY <1>0, <2>1, <2>2, <2>3, QueueKept
<1>18. CASE ResetOnResume
  <2>. DEFINE e == Event("reset", 0)
              f == Event("configured", 0)
              s == Append(events, e)
  <2>1. e \in EventType /\ f \in EventType /\ e.kind = "reset" /\ f.kind = "configured"
    BY EventTypes, EventFields
  <2>2. events' = Append(s, f) /\ pc' = "settingZero"
    BY <1>18 DEF ResetOnResume
  <2>. HIDE DEF e, f
  <2>3. HeadInv(e) /\ Follows(s[Len(s)], f) /\ (events # <<>> => Follows(events[Len(events)], e))
    BY <2>1 DEF HeadInv, Follows
  <2>4. /\ s \in Seq(EventType) /\ s # <<>>
        /\ s[1] = IF events = <<>> THEN e ELSE events[1]
        /\ \A i \in 2 .. Len(s) : Follows(s[i - 1], s[i])
    BY <1>0, <2>1, <2>3, AppendedFollows DEF QueueInv
  <2>. HIDE DEF s
  <2>5. /\ events' # <<>> /\ events'[Len(events')] = f /\ events'[1] = s[1]
        /\ \A i \in 2 .. Len(events') : Follows(events'[i - 1], events'[i])
    BY <2>1, <2>2, <2>3, <2>4, AppendedFollows
  <2>6. HeadInv(events'[1])
    BY <1>1, <2>3, <2>4, <2>5
  <2>7. HeadInv(events[1])'
    BY <1>0, <2>6 DEF HeadInv, Fn!HasAdapter
  <2>8. LastInv(events[Len(events)])'
    BY <2>1, <2>2, <2>5 DEF LastInv, OfSession
  <2>. QED  BY <2>5, <2>7, <2>8 DEF QueueInv
<1>19. CASE ReleaseHardware
  <2>1. CASE wire = "configured"
    BY <1>2, <1>19, <2>1 DEF ReleaseHardware
  <2>2. CASE wire # "configured"
    BY <1>3, <1>19, <2>2 DEF ReleaseHardware
  <2>. QED  BY <2>1, <2>2
<1>20. CASE Remove
  <2>1. CASE wire = "unplugged"
    BY <1>3, <1>20, <2>1 DEF Remove
  <2>2. CASE wire # "unplugged"
    BY <1>2, <1>20, <2>2 DEF Remove
  <2>. QED  BY <2>1, <2>2
<1>. QED
  BY <1>6, <1>7, <1>8, <1>9, <1>10, <1>11, <1>12, <1>13, <1>14, <1>15, <1>16, <1>17, <1>18,
     <1>19, <1>20
     DEF HostSide, HostDriver, HostStep, InitializeDevice, SelectSetting, InterruptReader,
         HostEnvironment, Environment

(* The negotiation gets on as the host does. *)
LEMMA HostNegotiation == ASSUME IInv, HostSide PROVE Negotiation'
<1>. USE DEF Asked, Starting
<1>0. /\ Negotiation /\ AnswerInv /\ QueueInv /\ device \in DeviceType
      /\ events \in Seq(EventType) /\ dev' = dev
      /\ dev.size \in Nat /\ dev.size <= MaxSize
  BY DEF IInv, Fn!IInv, Fn!OrderlyInv, Fn!TypeOK, Fn!DevType, TypeOK, HostSide, HostDriver, InterruptReader,
         HostEnvironment, fnVars
<1>a. Ready' = Ready
  BY <1>0 DEF Ready, Fn!HasAdapter
<1>b. device'.inSize = device.inSize => Built' = Built
  BY <1>0 DEF Built
<1>1. ASSUME pc' \in {"absent", "added", "getParameters", "parametersAsked", "stopped", "ended",
                     "failed"}
      PROVE  Negotiation'
  BY <1>1 DEF Negotiation
<1>2. CASE \/ \E max \in HostMaxes : Plug(max)
           \/ SelectConfiguration(MacString) \/ GetNtbParameters \/ Fail \/ Abort
           \/ ReleaseHardware \/ Restart \/ Remove
  BY <1>1, <1>2 DEF Plug, SelectConfiguration, GetNtbParameters, Request, Fail, Abort,
     ReleaseHardware, Restart, Remove
<1>3. CASE Unplug
  <2>1. /\ wire' = "unplugged" /\ answer' = "none" /\ UNCHANGED <<pc, device>>
        /\ events' # <<>> /\ events'[Len(events')].kind = "detach"
    <3>1. events' = Append(events, Event("detach", 0))
      BY <1>3 DEF Unplug, Queue
    <3>2. events' # <<>> /\ events'[Len(events')] = Event("detach", 0)
      BY <1>0, <3>1, EventTypes, AppendProperties, LenProperties
    <3>. QED  BY <1>3, <3>2, EventFields DEF Unplug, EndTransfers
  <2>. QED  BY <1>0, <2>1 DEF Negotiation
<1>4. CASE ParametersAnswered
  <2>1. CASE answer # "ok"
    BY <1>1, <1>4, <2>1 DEF ParametersAnswered, Answered
  <2>2. CASE answer = "ok"
    <3>1. pc' = "settingZero" /\ device' = [device EXCEPT !.use32 = TRUE,
            !.inSize = IF MaxSize < device.maxSize THEN MaxSize ELSE device.maxSize]
      BY <1>4, <2>2 DEF ParametersAnswered, Answered
    <3>2. device.maxSize \in HostMaxes /\ device.maxSize # 0 /\ MaxSize # 0
      BY <1>0, FnAssumptions, LinkAssumption DEF DeviceType
    <3>3. device'.use32 /\ device'.inSize # 0
      BY <1>0, <3>1, <3>2 DEF DeviceType
    <3>. QED  BY <3>1, <3>3 DEF Negotiation
  <2>. QED  BY <2>1, <2>2
<1>5. CASE SettingZero
  <2>1. /\ pc = "settingZero" /\ pc' = "setFormat"
        /\ device'.use32 = device.use32 /\ device'.inSize = device.inSize
    BY <1>0, <1>5 DEF SettingZero, SelectDataSetting, DeviceType
  <2>. QED  BY <1>0, <2>1 DEF Negotiation
<1>6. CASE SetNtbFormat
  BY <1>0, <1>6 DEF SetNtbFormat, Request, Negotiation, AnswerInv
<1>7. CASE FormatAnswered
  <2>1. /\ pc = "formatAsked" /\ answer \in {"ok", "stall"} /\ answer' = "none"
        /\ pc' = IF answer = "ok" THEN IF device.inSize < MaxSize THEN "setSize" ELSE "settingOne"
                                  ELSE "failed"
        /\ UNCHANGED <<device, events, wire>>
    BY <1>7 DEF FormatAnswered, Answered
  <2>2. events = <<>> /\ device.use32 /\ device.inSize # 0
    BY <1>0, <2>1 DEF AnswerInv, Negotiation
  <2>3. CASE answer = "ok"
    <3>1. Ready
      BY <1>0, <2>1, <2>3 DEF Negotiation
    <3>2. pc' = "settingOne" => dev'.size <= device'.inSize
      <4>1. device.inSize \in Nat /\ MaxSize \in Nat
        <5>1. device.inSize \in HostMaxes \cup {0, MaxSize}
          BY <1>0 DEF DeviceType
        <5>2. \A n \in HostMaxes \cup {0, MaxSize} : n \in Nat
          BY FnAssumptions
        <5>. QED  BY <5>1, <5>2, FnAssumptions
      <4>2. pc' = "settingOne" => MaxSize <= device.inSize
        BY <2>1, <2>3, <4>1
      <4>. QED  BY <1>0, <2>1, <4>1, <4>2
    <3>. QED  BY <1>0, <1>a, <2>1, <2>2, <2>3, <3>1, <3>2 DEF Negotiation
  <2>4. CASE answer # "ok"
    BY <1>1, <2>1, <2>4
  <2>. QED  BY <2>3, <2>4
<1>8. CASE SetNtbInputSize
  <2>1. /\ pc = "setSize" /\ pc' = "sizeAsked" /\ wire = "configured"
        /\ events' = Append(events, Event("setNtbInputSize", device.inSize))
        /\ UNCHANGED <<wire, answer, device>>
    BY <1>8 DEF SetNtbInputSize, Request
  <2>2. answer = "none" /\ Ready /\ events = <<>> /\ device.use32 /\ device.inSize # 0
        /\ device.inSize < MaxSize
    BY <1>0, <2>1 DEF AnswerInv, Negotiation
  <2>3. events'[Len(events')] = Event("setNtbInputSize", device.inSize)
    BY <2>1, <2>2
  <2>. QED  BY <1>a, <2>1, <2>2, <2>3 DEF Negotiation
<1>9. CASE SizeAnswered
  <2>1. /\ pc = "sizeAsked" /\ answer \in {"ok", "stall"} /\ answer' = "none"
        /\ pc' = IF answer = "ok" THEN "settingOne" ELSE "failed"
        /\ UNCHANGED <<device, events, wire>>
    BY <1>9 DEF SizeAnswered, Answered
  <2>2. events = <<>> /\ Ready /\ device.use32 /\ device.inSize # 0
    BY <1>0, <2>1 DEF AnswerInv, Negotiation
  <2>3. answer = "ok" => dev.size <= device.inSize
    BY <1>0, <2>1 DEF Negotiation
  <2>. QED  BY <1>0, <1>a, <2>1, <2>2, <2>3 DEF Negotiation
<1>10. CASE SettingOne
  <2>1. /\ pc = "settingOne" /\ pc' = "retrievePipes" /\ wire = "configured"
        /\ events' = Append(events, Event("setInterface", 1))
        /\ device'.use32 = device.use32 /\ device'.inSize = device.inSize
    BY <1>0, <1>10 DEF SettingOne, SelectDataSetting, DeviceType
  <2>2. events = <<>> /\ Ready /\ dev.size <= device.inSize /\ device.use32 /\ device.inSize # 0
    BY <1>0, <2>1 DEF Negotiation
  <2>3. events' = <<Event("setInterface", 1)>>
    BY <2>1, <2>2
  <2>. QED  BY <1>0, <1>a, <2>1, <2>2, <2>3 DEF Negotiation
<1>11. ASSUME pc \in {"retrievePipes", "createAdapter", "startReader", "working"},
              pc' \in {"createAdapter", "startReader", "working", "failed"},
              device'.use32 = device.use32, device'.inSize = device.inSize,
              UNCHANGED <<events, wire>>
       PROVE  Negotiation'
  BY <1>0, <1>a, <1>b, <1>11 DEF Negotiation
<1>12. CASE RetrieveDataBulkPipes
  BY <1>0, <1>11, <1>12 DEF RetrieveDataBulkPipes, DeviceType
<1>13. CASE CreateAdapter
  BY <1>0, <1>11, <1>13 DEF CreateAdapter, DeviceType
<1>14. CASE StartReader
  BY <1>11, <1>14 DEF StartReader
<1>15. CASE ReadNotification
  <2>1. Head(notes) \in NoteType
    BY <1>15, HeadTailProperties DEF ReadNotification, IInv, TypeOK
  <2>. QED  BY <1>0, <1>11, <1>15, <2>1, AppliedKeeps DEF ReadNotification
<1>16. CASE LeaveWorkingState \/ EnterWorkingState \/ ResetOnResume
  BY <1>0, <1>16 DEF LeaveWorkingState, EnterWorkingState, ResetOnResume, Negotiation
<1>. QED
  BY <1>2, <1>3, <1>4, <1>5, <1>6, <1>7, <1>8, <1>9, <1>10, <1>12, <1>13, <1>14, <1>15, <1>16
     DEF HostSide, HostDriver, HostStep, InitializeDevice, SelectSetting, InterruptReader,
         HostEnvironment, Environment

(* Reading a notification brings the link up to date or leaves a newer one *)
(* to read.                                                                *)
LEMMA ReadNote == ASSUME IInv, ReadNotification, UNCHANGED fnVars, ~dropped PROVE NoteInv'
<1>. DEFINE n == Len(notes)
            up == dev.adapter.up
            rate == NotifiedRate(busSpeed)
            head == Head(notes)
<1>0. /\ NoteInv /\ device \in DeviceType /\ notes \in Seq(NoteType) /\ notes # <<>>
      /\ pc = "working" /\ UNCHANGED <<pc, resume, dev, busSpeed>>
      /\ device' = Applied(head) /\ notes' = Tail(notes)
  BY DEF IInv, TypeOK, ReadNotification, fnVars
<1>1. /\ n \in Nat \ {0} /\ Len(notes') = n - 1 /\ head = notes[1] /\ head \in NoteType
      /\ \A i \in 1 .. n - 1 : notes'[i] = notes[i + 1]
      /\ notes' = <<>> <=> n = 1
  <2>1. n \in Nat \ {0}
    BY <1>0, EmptySeq
  <2>2. /\ head \in NoteType /\ notes' \in Seq(NoteType) /\ Len(notes') = n - 1
        /\ \A i \in 1 .. Len(notes') : notes'[i] = notes[i + 1]
    BY <1>0, HeadTailProperties
  <2>3. notes' = <<>> <=> Len(notes') = 0
    BY <2>2, EmptySeq
  <2>4. head = notes[1]
    BY <1>0
  <2>. QED  BY <2>1, <2>2, <2>3, <2>4
<1>2. notes' # <<>> => notes'[Len(notes')].kind = IF dev'.adapter.up THEN "up" ELSE "down"
  BY <1>0, <1>1 DEF NoteInv
<1>3. Len(notes') > 1 /\ dev'.adapter.up => notes'[Len(notes') - 1] = Note("speed", rate)
  BY <1>0, <1>1 DEF NoteInv
<1>4. ASSUME Len(notes') = 1, up PROVE device'.rate = rate
  <2>1. head = Note("speed", rate)
    <3>1. n = 2
      <4>1. n \in Nat /\ n - 1 = 1
        BY <1>1, <1>4
      <4>. HIDE DEF n
      <4>. QED  BY <4>1
    <3>. QED  BY <1>0, <1>1, <1>4, <3>1 DEF NoteInv
  <2>2. head.kind = "speed" /\ head.arg = rate
    BY <2>1 DEF Note
  <2>3. Applied(head) = [device EXCEPT !.rate = rate]
    BY <2>2 DEF Applied
  <2>. QED  BY <1>0, <2>3 DEF DeviceType
<1>5. ASSUME notes' = <<>> PROVE (up <=> device'.link = "up") /\ (up => device'.linkRate = rate)
  <2>1. head.kind = (IF up THEN "up" ELSE "down") /\ (up => device.rate = rate)
    BY <1>0, <1>1, <1>5 DEF NoteInv, Started
  <2>2. CASE up
    <3>1. Applied(head) = [device EXCEPT !.link = "up", !.linkRate = device.rate]
      BY <2>1, <2>2 DEF Applied
    <3>. QED  BY <1>0, <2>1, <2>2, <3>1 DEF DeviceType
  <2>3. CASE ~up
    <3>1. Applied(head) = [device EXCEPT !.link = "down", !.linkRate = 0]
      BY <2>1, <2>3 DEF Applied
    <3>. QED  BY <1>0, <2>3, <3>1 DEF DeviceType
  <2>. QED  BY <2>2, <2>3
<1>6. NotifiedRate(busSpeed)' = rate
  BY <1>0 DEF NotifiedRate
<1>. HIDE DEF n, rate, head
<1>. QED  BY <1>0, <1>2, <1>3, <1>4, <1>5, <1>6 DEF NoteInv

(* The unread notifications and what was read of them stay the truth.      *)
LEMMA HostNote == ASSUME IInv, HostSide, ~dropped' PROVE NoteInv'
<1>. USE DEF Started, Starting
<1>0. /\ UNCHANGED <<dev, busSpeed>> /\ (~dropped => NoteInv) /\ DeviceInv
      /\ device \in DeviceType /\ notes \in Seq(NoteType) /\ Len(<<>>) = 0
  BY EmptySeq DEF IInv, TypeOK, HostSide, HostDriver, InterruptReader, HostEnvironment, fnVars
<1>a. NotifiedRate(busSpeed)' = NotifiedRate(busSpeed)
  BY <1>0 DEF NotifiedRate
<1>1. ASSUME dropped' = dropped, notes' = notes, ~Started',
             pc' \in {"retrievePipes", "createAdapter"} => pc = "retrievePipes" /\ ~resume
      PROVE  NoteInv'
  BY <1>0, <1>a, <1>1 DEF NoteInv
<1>2. ASSUME dropped' = dropped, notes' = notes, Started, device' = device,
             pc' \in {"retrievePipes", "createAdapter"} => resume'
      PROVE  NoteInv'
  BY <1>0, <1>a, <1>2 DEF NoteInv
<1>3. CASE \/ \E max \in HostMaxes : Plug(max)
           \/ SelectConfiguration(MacString) \/ GetNtbParameters \/ ParametersAnswered
           \/ Restart \/ Remove
  BY <1>0, <1>1, <1>3 DEF Plug, SelectConfiguration, GetNtbParameters, Request,
     ParametersAnswered, Answered, Restart, Remove, DeviceInv
<1>4. CASE Unplug
  BY <1>0, <1>a, <1>4 DEF Unplug, EndTransfers, NoteInv
<1>5. CASE ReleaseHardware
  BY <1>0, <1>a, <1>5 DEF ReleaseHardware, EndTransfers, NoteInv
<1>6. CASE ResetOnResume
  BY <1>0, <1>a, <1>6 DEF ResetOnResume, EndTransfers, NoteInv
<1>7. CASE SettingZero \/ SettingOne
  <2>1. pc = "settingOne" => ~dev.adapter.up
    BY <1>7 DEF SettingZero, SettingOne, SelectDataSetting, IInv, Negotiation, Ready,
                Fn!HasAdapter, Fn!NoAdapter
  <2>2. /\ UNCHANGED <<dropped, notes, resume>>
        /\ pc = "settingZero" \/ pc = "settingOne"
        /\ pc' = IF pc = "settingZero" THEN "setFormat" ELSE "retrievePipes"
        /\ device'.link = device.link /\ device'.linkRate = device.linkRate
        /\ device'.rate = device.rate
    BY <1>0, <1>7 DEF SettingZero, SettingOne, SelectDataSetting, DeviceType
  <2>. QED  BY <1>0, <1>a, <2>1, <2>2 DEF NoteInv
<1>8. CASE SetNtbFormat \/ FormatAnswered \/ SetNtbInputSize \/ SizeAnswered \/ Fail \/ Abort
  <2>1. /\ UNCHANGED <<dropped, notes, resume, device>>
        /\ pc' \in {"formatAsked", "setSize", "settingOne", "sizeAsked", "failed"}
    BY <1>8 DEF SetNtbFormat, Request, FormatAnswered, SetNtbInputSize, SizeAnswered, Answered,
                Fail, Abort
  <2>. QED  BY <1>1, <1>2, <2>1
<1>9. CASE RetrieveDataBulkPipes
  <2>1. /\ UNCHANGED <<dropped, notes, resume>> /\ pc = "retrievePipes"
        /\ pc' = IF resume THEN "startReader" ELSE "createAdapter"
        /\ device'.link = device.link /\ device'.linkRate = device.linkRate
        /\ device'.rate = device.rate
    BY <1>0, <1>9 DEF RetrieveDataBulkPipes, DeviceType
  <2>. QED  BY <1>0, <1>a, <2>1 DEF NoteInv
<1>10. CASE CreateAdapter
  <2>1. /\ UNCHANGED <<dropped, notes, resume>> /\ pc = "createAdapter"
        /\ pc' \in {"startReader", "failed"} /\ device'.link = "unknown" /\ ~resume
    BY <1>0, <1>10 DEF CreateAdapter, DeviceType, DeviceInv
  <2>2. Len(notes) < 2 => ~dev.adapter.up
    BY <1>0, <2>1 DEF NoteInv
  <2>. QED  BY <1>0, <1>a, <2>1, <2>2 DEF NoteInv
<1>11. CASE StartReader \/ LeaveWorkingState \/ EnterWorkingState
  BY <1>2, <1>11 DEF StartReader, LeaveWorkingState, EnterWorkingState
<1>12. CASE ReadNotification
  <2>1. UNCHANGED fnVars /\ ~dropped
    BY <1>12 DEF ReadNotification, HostSide, HostDriver, InterruptReader, HostEnvironment
  <2>. QED  BY <1>12, <2>1, ReadNote
<1>. QED
  BY <1>3, <1>4, <1>5, <1>6, <1>7, <1>8, <1>9, <1>10, <1>11, <1>12
     DEF HostSide, HostDriver, HostStep, InitializeDevice, SelectSetting, InterruptReader,
         HostEnvironment, Environment

-----------------------------------------------------------------------------
(* The function's steps.                                                   *)

(* Every step of a function that has started. *)
HandleEvent ==
  \/ HandleBusEvent \/ HandleSetInterface
  \/ HandleGetNtbParameters \/ HandleSetNtbFormat \/ HandleSetNtbInputSize

(* What FnDevice's invariant says of a function with an orderly host. *)
LEMMA FnFacts ==
  ASSUME IInv
  PROVE  /\ bugcheck = FALSE /\ dev \in Fn!DevType
         /\ bus = "configured" <=> state = "configured"
         /\ power = "out" => bus = "detached"
         /\ Fn!HasAdapter(dev) =>
              dev.alt = 1 /\ bus = "configured" /\ dev.adapter.speed = busSpeed
         /\ dev.adapter.up => Fn!HasAdapter(dev)
BY DEF IInv, Fn!IInv, Fn!TypeOK, Fn!SessionInv, Fn!OrderlyInv, Fn!AdapterBelongsToSession,
       Fn!HasAdapter, Fn!NoAdapter

(* The event that is taken is the first, and well formed. *)
LEMMA HeadFacts ==
  ASSUME IInv, NEW kind, Takes(kind)
  PROVE  /\ events # <<>> /\ events[1] \in EventType /\ Head(events) = events[1]
         /\ events[1].kind = kind /\ HeadInv(events[1])
         /\ events' = Tail(events) /\ power = "subscribed"
         /\ answer = "none"
         /\ UNCHANGED <<pc, resume, device, wire, cdcMac>>
<1>1. events \in Seq(EventType) /\ events # <<>> /\ QueueInv /\ AnswerInv
  BY DEF IInv, TypeOK, Takes
<1>2. 1 \in 1 .. Len(events)
  BY <1>1, EmptySeq
<1>3. events[1] \in EventType
  BY <1>1, <1>2, ElementOfSeq
<1>4. Head(events) = events[1]
  BY <1>1
<1>5. HeadInv(events[1])
  BY <1>1 DEF QueueInv
<1>6. answer = "none"
  BY <1>1 DEF AnswerInv
<1>. QED  BY <1>1, <1>3, <1>4, <1>5, <1>6 DEF Takes

(* The kind of the event chooses the handler. *)
LEMMA HandlerOfKind ==
  ASSUME IInv, HandleEvent
  PROVE  /\ events[1].kind = "setInterface" => HandleSetInterface
         /\ events[1].kind = "setNtbFormat" => HandleSetNtbFormat
         /\ events[1].kind = "setNtbInputSize" => HandleSetNtbInputSize
<1>1. \A kind : Takes(kind) => events[1].kind = kind
  BY HeadFacts
<1>. QED
  BY <1>1 DEF HandleEvent, HandleBusEvent, HandleSetInterface, HandleGetNtbParameters,
              HandleSetNtbFormat, HandleSetNtbInputSize

(* A size is queued when nothing else is. *)
LEMMA SizeComesAlone ==
  ASSUME events \in Seq(EventType), QueueInv, events # <<>>,
         events[Len(events)].kind = "setNtbInputSize"
  PROVE  Len(events) = 1
<1>. DEFINE n == Len(events)
<1>1. n \in Nat \ {0}
  BY EmptySeq
<1>2. n \in 2 .. n => Follows(events[n - 1], events[n])
  BY DEF QueueInv
<1>3. n \notin 2 .. n
  BY <1>2 DEF Follows
<1>. HIDE DEF n
<1>4. n = 1
  BY <1>1, <1>3
<1>. QED  BY <1>4 DEF n

(* What the function does is a step of FnDevice with an orderly host, or   *)
(* nothing there.                                                          *)
LEMMA FunctionRefines == ASSUME IInv, FunctionStep PROVE [Fn!Next]_(Fn!vars)
<1>. USE DEF Fn!Next
<1>0. bugcheck = FALSE /\ (bus = "configured" <=> state = "configured")
  BY FnFacts
<1>1. CASE StartFunction
  BY <1>0, <1>1 DEF StartFunction, Fn!Power
<1>2. CASE HandleBusEvent
  BY <1>0, <1>2 DEF HandleBusEvent, Fn!BusEvent
<1>3. CASE HandleSetInterface
  <2>1. /\ Takes("setInterface") /\ Fn!OnSetInterface(Head(events).arg)
    BY <1>3 DEF HandleSetInterface
  <2>2. /\ Head(events).arg \in {0, 1} /\ bus = "configured" /\ power = "subscribed"
    BY <2>1, HeadFacts, EventFields DEF HeadInv
  <2>3. Fn!SetInterface(Head(events).arg)
    BY <2>1, <2>2 DEF Fn!SetInterface
  <2>. QED  BY <1>0, <2>2, <2>3 DEF Fn!HostRequest
<1>4. CASE HandleGetNtbParameters
  <2>1. Takes("getNtbParameters")
    BY <1>4 DEF HandleGetNtbParameters
  <2>2. bus = "configured"
    BY <2>1, HeadFacts DEF HeadInv, ClassRequests
  <2>3. bugcheck' = FALSE
    <3>1. bugcheck' = (state # "configured")
      BY <1>4 DEF HandleGetNtbParameters
    <3>2. (state # "configured") = FALSE
      BY <1>0, <2>2
    <3>. QED  BY <3>1, <3>2
  <2>. QED  BY <1>0, <1>4, <2>3 DEF HandleGetNtbParameters, Fn!vars
<1>5. CASE HandleSetNtbFormat
  <2>1. Takes("setNtbFormat") /\ Fn!OnSetNtbFormat(Head(events).arg = 1)
    BY <1>5 DEF HandleSetNtbFormat
  <2>2. bus = "configured" /\ power = "subscribed" /\ Head(events).arg = 1
    BY <2>1, HeadFacts, EventFields DEF HeadInv, ClassRequests
  <2>3. (Head(events).arg = 1) = TRUE
    BY <2>2
  <2>4. Fn!SetNtbFormat(TRUE)
    BY <2>1, <2>2, <2>3 DEF Fn!SetNtbFormat
  <2>. QED  BY <1>0, <2>4 DEF Fn!HostRequest
<1>6. CASE HandleSetNtbInputSize
  <2>1. Takes("setNtbInputSize")
    BY <1>6 DEF HandleSetNtbInputSize
  <2>2. /\ bus = "configured" /\ power = "subscribed" /\ ~Fn!HasAdapter(dev)
        /\ Head(events).arg \in HostMaxes /\ Fn!Accepts(Head(events).arg)
    BY <2>1, HeadFacts, EventFields DEF HeadInv, ClassRequests
  <2>3. CASE Fn!OnSetNtbInputSize(Head(events).arg)
    <3>1. Fn!SetNtbInputSize(Head(events).arg)
      BY <2>2, <2>3 DEF Fn!SetNtbInputSize
    <3>. QED  BY <1>0, <2>2, <3>1 DEF Fn!HostRequest
  <2>4. CASE ~Fn!OnSetNtbInputSize(Head(events).arg)
    <3>1. /\ bugcheck' = (state # "configured")
          /\ UNCHANGED <<power, bus, state, busSpeed, dev, told, hostSize>>
      BY <1>6, <2>4 DEF HandleSetNtbInputSize
    <3>2. (state # "configured") = FALSE
      BY <1>0, <2>2
    <3>3. bugcheck' = FALSE
      BY <3>1, <3>2
    <3>. QED  BY <1>0, <3>1, <3>3 DEF Fn!vars
  <2>. QED  BY <2>3, <2>4
<1>. QED  BY <1>1, <1>2, <1>3, <1>4, <1>5, <1>6 DEF FunctionStep

(* What handling an event leaves for the next one, and for the host. *)
LEMMA HandleEffects ==
  ASSUME IInv, HandleEvent
  PROVE  /\ events # <<>> /\ events[1] \in EventType /\ HeadInv(events[1])
         /\ events' = Tail(events)
         /\ UNCHANGED <<pc, resume, device, wire, cdcMac>>
         /\ OfSession(events[1]) => bus' = "configured"
         /\ events[1] = Event("setInterface", 0) => dev'.alt = 0
         /\ IF events[1].kind \in ClassRequests /\ Tail(events) = <<>>
              THEN answer' \in {"ok", "stall", "never"}
              ELSE answer' = answer
         /\ answer = "none"
         /\ bus' # "detached" => busSpeed' \in Speeds
<1>. USE DEF ClassRequests, OfSession
<1>0. /\ bugcheck = FALSE /\ dev \in Fn!DevType /\ (bus = "configured" <=> state = "configured")
      /\ bus # "detached" => busSpeed \in Speeds
  BY FnFacts DEF IInv
<1>1. CASE HandleBusEvent
  <2>1. PICK kind \in {"attach", "configured", "unconfigured", "detach", "reset"} :
          /\ Takes(kind) /\ answer' = answer
          /\ kind = "configured" => bus' = "configured"
          /\ bus' # "detached" => busSpeed' \in Speeds
    BY <1>0, <1>1 DEF HandleBusEvent, Fn!Attach, Fn!Configured, Fn!UnConfigured, Fn!Detach, Fn!Reset
  <2>. QED  BY <2>1, HeadFacts, EventFields
<1>2. CASE HandleSetInterface
  <2>1. /\ Takes("setInterface") /\ Fn!OnSetInterface(Head(events).arg) /\ answer' = answer
    BY <1>2 DEF HandleSetInterface
  <2>2. bus = "configured" /\ UNCHANGED <<bus, busSpeed>>
    BY <2>1, HeadFacts DEF HeadInv, Fn!OnSetInterface
  <2>3. events[1] = Event("setInterface", 0) => dev'.alt = 0
    <3>. SUFFICES ASSUME events[1] = Event("setInterface", 0) PROVE dev'.alt = 0
      OBVIOUS
    <3>1. Head(events).arg = 0
      BY <2>1, HeadFacts, EventFields
    <3>2. Fn!OnSetInterface(0)
      BY <2>1, <3>1
    <3>3. CASE dev.alt = 0
      BY <1>0, <2>2, <3>2, <3>3 DEF Fn!OnSetInterface
    <3>4. CASE dev.alt # 0
      <4>. DEFINE d == [dev EXCEPT !.alt = 0]
      <4>1. dev' = Fn!Destroyed(d)
        BY <1>0, <2>2, <3>2, <3>4 DEF Fn!OnSetInterface, Fn!SelectNoData
      <4>2. d.alt = 0 /\ d \in Fn!DevType
        BY <1>0 DEF Fn!DevType
      <4>. HIDE DEF d
      <4>. QED  BY <4>1, <4>2 DEF Fn!Destroyed, Fn!SetParameters, Fn!DevType
    <3>. QED  BY <3>3, <3>4
  <2>. QED  BY <1>0, <2>1, <2>2, <2>3, HeadFacts
<1>3. CASE HandleGetNtbParameters
  <2>1. /\ Takes("getNtbParameters") /\ UNCHANGED <<bus, busSpeed>>
        /\ answer' \in (IF Tail(events) = <<>> THEN {"ok", "stall", "never"} ELSE {answer})
    BY <1>3 DEF HandleGetNtbParameters, StallEndPoint0, Answer
  <2>. QED  BY <1>0, <2>1, HeadFacts, EventFields DEF HeadInv
<1>4. CASE HandleSetNtbFormat
  <2>1. /\ Takes("setNtbFormat") /\ UNCHANGED <<bus, busSpeed>>
        /\ answer' \in (IF Tail(events) = <<>> THEN {"ok", "stall", "never"} ELSE {answer})
    BY <1>4 DEF HandleSetNtbFormat, StallEndPoint0, Answer, Fn!OnSetNtbFormat
  <2>. QED  BY <1>0, <2>1, HeadFacts, EventFields DEF HeadInv
<1>5. CASE HandleSetNtbInputSize
  <2>1. /\ Takes("setNtbInputSize") /\ UNCHANGED <<bus, busSpeed>>
        /\ answer' \in (IF Tail(events) = <<>> THEN {"ok", "stall", "never"} ELSE {answer})
    BY <1>5 DEF HandleSetNtbInputSize, StallEndPoint0, Answer, Fn!OnSetNtbInputSize
  <2>. QED  BY <1>0, <2>1, HeadFacts, EventFields DEF HeadInv
<1>. QED  BY <1>1, <1>2, <1>3, <1>4, <1>5 DEF HandleEvent

(* Starting the function changes nothing the host's side depends on: no    *)
(* bus event has been handled yet.                                         *)
LEMMA StartEffects ==
  ASSUME IInv, StartFunction
  PROVE  /\ UNCHANGED <<hostVars, cdcMac, bus, busSpeed>>
         /\ dev'.adapter = dev.adapter /\ dev'.alt = dev.alt
         /\ bus = "detached" \/ dev' = dev
<1>1. CASE Fn!PrepareHardware
  BY <1>1, FnFacts DEF StartFunction, Fn!PrepareHardware, Fn!SetParameters, Fn!DevType
<1>2. CASE Fn!SubscribeBusEvents
  BY <1>2 DEF StartFunction, Fn!SubscribeBusEvents
<1>. QED  BY <1>1, <1>2 DEF StartFunction

(* The queue after a step of the function. *)
LEMMA FunctionQueue == ASSUME IInv, FunctionStep PROVE QueueInv'
<1>0. events \in Seq(EventType) /\ QueueInv /\ AnswerInv
  BY DEF IInv, TypeOK
<1>1. CASE StartFunction
  <2>1. UNCHANGED <<pc, wire, events, answer, bus>> /\ dev'.adapter = dev.adapter /\ dev'.alt = dev.alt
    BY <1>1, StartEffects DEF hostVars
  <2>2. \A i \in 2 .. Len(events') : Follows(events'[i - 1], events'[i])
    BY <1>0, <2>1 DEF QueueInv
  <2>3. events' # <<>> => HeadInv(events[1])'
    BY <1>0, <2>1 DEF QueueInv, HeadInv, Fn!HasAdapter
  <2>4. events' # <<>> => LastInv(events[Len(events)])'
    BY <1>0, <2>1 DEF QueueInv, LastInv, OfSession
  <2>5. events' = <<>> => NoneLeftInv'
    BY <1>0, <2>1 DEF QueueInv, NoneLeftInv
  <2>. QED  BY <2>2, <2>3, <2>4, <2>5 DEF QueueInv
<1>2. CASE HandleEvent
  <2>. DEFINE e == events[1]
  <2>1. /\ events # <<>> /\ e \in EventType /\ HeadInv(e)
        /\ events' = Tail(events)
        /\ UNCHANGED <<pc, resume, device, wire, cdcMac>>
        /\ OfSession(e) => bus' = "configured"
        /\ e = Event("setInterface", 0) => dev'.alt = 0
        /\ IF e.kind \in ClassRequests /\ Tail(events) = <<>>
             THEN answer' \in {"ok", "stall", "never"}
             ELSE answer' = answer
        /\ answer = "none"
    BY <1>2, HandleEffects
  <2>2. /\ Len(events) \in Nat \ {0} /\ Len(Tail(events)) = Len(events) - 1
        /\ Tail(events) = <<>> <=> Len(events) = 1
    BY <1>0, <2>1, TailFacts
  <2>3. LastInv(events[Len(events)])
    BY <1>0, <2>1 DEF QueueInv
  <2>4. ASSUME NEW f, Tail(events) # <<>>, f = events[2] PROVE HeadInv(f)'
    <3>1. Follows(e, f)
      BY <1>0, <2>2, <2>4 DEF QueueInv
    <3>. HIDE DEF e
    <3>. QED  BY <2>1, <3>1 DEF Follows, HeadInv
  <2>5. ASSUME NEW f, Tail(events) # <<>>, f = events[Len(events)] PROVE LastInv(f)'
    BY <2>1, <2>3, <2>5 DEF LastInv
  <2>6. ASSUME Tail(events) = <<>> PROVE NoneLeftInv'
    <3>1. LastInv(e)
      BY <2>2, <2>3, <2>6
    <3>2. wire = "configured" /\ pc \in Asked => answer' # "none"
      BY <2>1, <2>6, <3>1 DEF LastInv, RequestOf, ClassRequests, Asked
    <3>. HIDE DEF e
    <3>. QED  BY <2>1, <3>1, <3>2 DEF LastInv, NoneLeftInv
  <2>. HIDE DEF e
  <2>. QED  BY <1>0, <2>1, <2>4, <2>5, <2>6, QueueTaken
<1>. QED  BY <1>1, <1>2 DEF FunctionStep, HandleEvent

(* The answers after a step of the function. *)
LEMMA FunctionAnswer == ASSUME IInv, FunctionStep PROVE AnswerInv'
<1>1. CASE StartFunction
  BY <1>1, StartEffects DEF hostVars, IInv, AnswerInv
<1>2. CASE HandleEvent
  <2>. SUFFICES ASSUME answer' # "none"
                PROVE  wire' = "configured" /\ pc' \in Asked /\ events' = <<>>
    BY DEF AnswerInv
  <2>1. /\ events # <<>> /\ Tail(events) = <<>> /\ events[1].kind \in ClassRequests
        /\ events' = Tail(events) /\ UNCHANGED <<pc, wire>>
    BY <1>2, HandleEffects
  <2>2. events \in Seq(EventType) /\ LastInv(events[Len(events)])
    BY <2>1 DEF IInv, TypeOK, QueueInv
  <2>3. Len(events) = 1
    BY <2>1, <2>2, TailFacts
  <2>. QED  BY <2>1, <2>2, <2>3 DEF LastInv
<1>. QED  BY <1>1, <1>2 DEF FunctionStep, HandleEvent

(* The negotiation after a step of the function. *)
LEMMA FunctionNegotiation == ASSUME IInv, FunctionStep PROVE Negotiation'
<1>. USE DEF Asked, Starting
<1>0. /\ Negotiation /\ AnswerInv /\ QueueInv /\ events \in Seq(EventType)
      /\ dev \in Fn!DevType /\ device \in DeviceType
      /\ Fn!HasAdapter(dev) => dev.alt = 1
      /\ bus = "configured" <=> state = "configured"
      /\ dev.adapter.up => Fn!HasAdapter(dev)
  BY FnFacts DEF IInv, TypeOK
<1>1. CASE StartFunction
  <2>1. UNCHANGED <<pc, wire, events, answer, device>> /\ (bus = "detached" \/ dev' = dev)
    BY <1>1, StartEffects DEF hostVars
  <2>2. CASE dev' = dev
    BY <1>0, <2>1, <2>2 DEF Negotiation, Ready, Built, Fn!HasAdapter
  <2>3. CASE bus = "detached"
    <3>1. wire = "configured" => events # <<>> /\ ~(events[1].kind \in ClassRequests \cup {"setInterface"})
      BY <1>0, <2>3 DEF QueueInv, NoneLeftInv, HeadInv
    <3>2. answer = "none"
      BY <1>0, <3>1 DEF AnswerInv
    <3>3. ~(pc \in {"setSize", "settingOne"} /\ wire = "configured")
      BY <1>0, <3>1 DEF Negotiation
    <3>4. ~(pc \in {"retrievePipes", "createAdapter", "startReader", "working"}
              /\ wire = "configured")
      <4>. SUFFICES ASSUME pc \in {"retrievePipes", "createAdapter", "startReader", "working"},
                           wire = "configured"
                    PROVE  FALSE
        OBVIOUS
      <4>1. events = <<Event("setInterface", 1)>>
        BY <1>0, <3>1 DEF Negotiation
      <4>2. events[1].kind = "setInterface"
        BY <4>1, EventFields
      <4>. QED  BY <3>1, <4>2
    <3>5. ~(pc = "sizeAsked" /\ wire = "configured")
      <4>. SUFFICES ASSUME pc = "sizeAsked", wire = "configured" PROVE FALSE
        OBVIOUS
      <4>1. events # <<>> /\ events[Len(events)].kind = "setNtbInputSize"
        BY <1>0, <3>1 DEF QueueInv, LastInv, RequestOf
      <4>2. Len(events) = 1
        BY <1>0, <4>1, SizeComesAlone
      <4>. QED  BY <3>1, <4>1, <4>2 DEF ClassRequests
    <3>. QED  BY <1>0, <2>1, <3>2, <3>3, <3>4, <3>5 DEF Negotiation
  <2>. QED  BY <2>1, <2>2, <2>3
<1>2. CASE HandleEvent
  <2>. DEFINE e == events[1]
              last == events[Len(events)]
  <2>1. /\ events # <<>> /\ e \in EventType /\ HeadInv(e)
        /\ events' = Tail(events)
        /\ UNCHANGED <<pc, device, wire>>
        /\ IF e.kind \in ClassRequests /\ Tail(events) = <<>>
             THEN answer' \in {"ok", "stall", "never"}
             ELSE answer' = answer
        /\ answer = "none" /\ LastInv(last)
    BY <1>0, <1>2, HandleEffects DEF QueueInv
  <2>2. /\ Len(events) \in Nat \ {0}
        /\ Tail(events) = <<>> <=> Len(events) = 1
        /\ events' # <<>> => events'[Len(events')] = last
    BY <1>0, <2>1, TailFacts
  <2>3. answer' = "ok" => e = last /\ e.kind \in ClassRequests /\ wire = "configured" /\ Tail(events) = <<>>
    BY <2>1, <2>2 DEF LastInv
  <2>4. pc = "formatAsked" /\ answer' = "ok" => Ready'
    <3>. SUFFICES ASSUME pc = "formatAsked", answer' = "ok" PROVE Ready'
      OBVIOUS
    <3>1. e.kind = "setNtbFormat" /\ e.arg = 1
      BY <2>1, <2>3, EventFields DEF LastInv, RequestOf
    <3>2. HandleSetNtbFormat
      BY <1>2, <3>1, HandlerOfKind
    <3>3. dev.alt = 0 /\ dev' = [dev EXCEPT !.use32 = TRUE]
      <4>1. (Head(events).arg = 1) = TRUE /\ dev.alt = 0
        BY <1>0, <2>1, <3>1, TailFacts DEF HeadInv
      <4>. QED  BY <3>2, <4>1 DEF HandleSetNtbFormat, Fn!OnSetNtbFormat
    <3>. QED  BY <1>0, <3>3 DEF Ready, Fn!HasAdapter, Fn!DevType
  <2>5. /\ pc = "sizeAsked" /\ wire = "configured" => Ready'
        /\ pc = "sizeAsked" /\ answer' = "ok" => dev'.size <= device.inSize
    <3>. SUFFICES ASSUME pc = "sizeAsked", wire = "configured"
                  PROVE  Ready' /\ (answer' = "ok" => dev'.size <= device.inSize)
      BY <2>3
    <3>1. last.kind = "setNtbInputSize"
      BY <2>1 DEF LastInv, RequestOf
    <3>2. e = last /\ Tail(events) = <<>>
      BY <1>0, <2>1, <2>2, <3>1, SizeComesAlone
    <3>3. e = Event("setNtbInputSize", device.inSize)
      BY <1>0, <2>1, <3>1, <3>2 DEF Negotiation
    <3>4. HandleSetNtbInputSize /\ Head(events).arg = device.inSize
      BY <1>0, <1>2, <2>1, <3>3, HandlerOfKind, EventFields, TailFacts
    <3>5. Ready /\ ~Fn!HasAdapter(dev)
      BY <1>0 DEF Negotiation, Ready
    <3>6. Fn!Accepts(device.inSize) /\ device.inSize \in HostMaxes
      BY <2>1, <3>3, EventFields
    <3>7. CASE Fn!OnSetNtbInputSize(Head(events).arg)
      <4>1. dev' = [dev EXCEPT !.size = device.inSize]
        BY <3>4, <3>5, <3>6, <3>7 DEF Fn!OnSetNtbInputSize
      <4>2. device.inSize \in Nat
        BY <3>6, FnAssumptions
      <4>. QED  BY <1>0, <3>5, <4>1, <4>2 DEF Ready, Fn!HasAdapter, Fn!DevType
    <3>8. CASE ~Fn!OnSetNtbInputSize(Head(events).arg)
      <4>1. dev' = dev /\ answer' \in {"stall", "never"}
        BY <3>2, <3>4, <3>8 DEF HandleSetNtbInputSize, StallEndPoint0, Answer
      <4>. QED  BY <3>5, <4>1 DEF Ready, Fn!HasAdapter
    <3>. QED  BY <3>7, <3>8
  <2>6. ASSUME pc \in {"retrievePipes", "createAdapter", "startReader", "working"},
               wire = "configured"
        PROVE  events' = <<>> /\ Built'
    <3>1. /\ events = <<Event("setInterface", 1)>> /\ ~Fn!HasAdapter(dev) /\ dev.use32
          /\ dev.size <= device.inSize
      BY <1>0, <2>1, <2>6 DEF Negotiation, Ready
    <3>2. e = Event("setInterface", 1) /\ events' = <<>>
      BY <2>1, <3>1
    <3>3. HandleSetInterface /\ Head(events).arg = 1 /\ bus = "configured"
      BY <1>0, <1>2, <2>1, <3>2, HandlerOfKind, EventFields, TailFacts DEF HeadInv
    <3>4. Fn!OnSetInterface(1)
      BY <3>3 DEF HandleSetInterface
    <3>5. CASE dev.alt = 1
      <4>1. dev' = dev
        BY <1>0, <3>3, <3>4, <3>5 DEF Fn!OnSetInterface
      <4>. QED  BY <1>0, <3>1, <3>2, <4>1 DEF Built
    <3>6. CASE dev.alt # 1
      <4>. DEFINE d == [dev EXCEPT !.alt = 1]
      <4>1. Fn!SelectData(d)
        BY <1>0, <3>3, <3>4, <3>6 DEF Fn!OnSetInterface
      <4>2. /\ d.adapter = dev.adapter /\ d.use32 = dev.use32 /\ d.size = dev.size
            /\ d \in Fn!DevType
        BY <1>0 DEF Fn!DevType
      <4>. HIDE DEF d
      <4>3. PICK outcome \in Fn!Outcomes : dev' = Fn!Created(d, outcome)
        BY <3>1, <4>1, <4>2 DEF Fn!SelectData, Fn!HasAdapter
      <4>4. CASE outcome = "none"
        BY <1>0, <3>1, <3>2, <4>2, <4>3, <4>4 DEF Fn!Created, Built, Fn!HasAdapter
      <4>5. CASE outcome # "none"
        <5>1. dev'.adapter = [up |-> outcome = "ok", use32 |-> d.use32, size |-> d.size,
                              speed |-> busSpeed]
          BY <4>2, <4>3, <4>5 DEF Fn!Created, Fn!DevType
        <5>2. dev'.adapter.use32 = d.use32 /\ dev'.adapter.size = d.size
          BY <5>1
        <5>. QED  BY <2>1, <3>1, <3>2, <4>2, <5>2 DEF Built
      <4>. QED  BY <4>4, <4>5
    <3>. QED  BY <3>5, <3>6
  <2>7. pc \in {"setSize", "settingOne"} => wire # "configured"
    BY <1>0, <2>1 DEF Negotiation
  <2>8. events' # <<>> /\ pc = "sizeAsked" =>
          (last.kind = "setNtbInputSize" => last = Event("setNtbInputSize", device.inSize))
    BY <1>0, <2>1 DEF Negotiation
  <2>. HIDE DEF e, last
  <2>. QED  BY <1>0, <2>1, <2>2, <2>4, <2>5, <2>6, <2>7, <2>8 DEF Negotiation
<1>. QED  BY <1>1, <1>2 DEF FunctionStep, HandleEvent

(* What can be left of an announcement is a sequence of notifications. *)
LEMMA PartsType ==
  ASSUME NEW sent \in Seq(NoteType), NEW part \in Parts(sent)
  PROVE  part \in Seq(NoteType)
<1>1. \A i \in DOMAIN sent : sent[i] \in NoteType
  BY LenProperties, ElementOfSeq
<1>2. \A i \in DOMAIN sent : <<sent[i]>> \in Seq(NoteType)
  BY <1>1
<1>. QED  BY <1>2, EmptySeq DEF Parts

(* An adapter that is up after the step runs at the speed of the bus.      *)
LEMMA AnnouncementType ==
  ASSUME IInv, Fn!IInv', bus' # "detached" => busSpeed' \in Speeds
  PROVE  /\ LostNotes \in Seq(NoteType) /\ NewNotes \in Seq(NoteType)
         /\ dev'.adapter.up => dev'.adapter.speed = busSpeed'
         /\ LostNotes \in {<<>>, <<Note("down", 0)>>}
         /\ NewNotes = IF dev'.adapter # dev.adapter /\ dev'.adapter.up
                         THEN <<Note("speed", NotifiedRate(busSpeed')), Note("up", 0)>> ELSE <<>>
<1>1. dev'.adapter.up => bus' = "configured" /\ dev'.adapter.speed = busSpeed'
  BY DEF Fn!IInv, Fn!SessionInv, Fn!AdapterBelongsToSession, Fn!HasAdapter, Fn!NoAdapter
<1>2. \A s \in Speeds : Note("speed", NotifiedRate(s)) \in NoteType
  <2>. SUFFICES ASSUME NEW s \in Speeds PROVE Note("speed", NotifiedRate(s)) \in NoteType
    OBVIOUS
  <2>1. s \in 1 .. 4
    BY LinkAssumption
  <2>2. NotifiedRate(s) \in {12, 480, 705, 4294}
    BY <2>1 DEF NotifiedRate, BusSpeed
  <2>3. NotifiedRate(s) \in Rates
    BY <2>2 DEF Rates
  <2>. QED  BY <2>3 DEF Note, NoteType
<1>3. Note("up", 0) \in NoteType /\ Note("down", 0) \in NoteType
  BY DEF Note, NoteType, Rates
<1>4. LostNotes \in {<<>>, <<Note("down", 0)>>}
  BY DEF LostNotes
<1>5. NewNotes = IF dev'.adapter # dev.adapter /\ dev'.adapter.up
                   THEN <<Note("speed", NotifiedRate(busSpeed')), Note("up", 0)>> ELSE <<>>
  BY <1>1 DEF NewNotes, Connected
<1>6. LostNotes \in Seq(NoteType)
  <2>1. <<Note("down", 0)>> \in Seq(NoteType)
    BY <1>3
  <2>. QED  BY <1>4, <2>1, EmptySeq
<1>7. NewNotes \in Seq(NoteType)
  <2>1. CASE dev'.adapter # dev.adapter /\ dev'.adapter.up
    <3>1. busSpeed' \in Speeds
      BY <1>1, <2>1
    <3>2. <<Note("speed", NotifiedRate(busSpeed')), Note("up", 0)>> \in Seq(NoteType)
      BY <1>2, <1>3, <3>1
    <3>. QED  BY <1>5, <2>1, <3>2
  <2>2. CASE ~(dev'.adapter # dev.adapter /\ dev'.adapter.up)
    BY <1>5, <2>2, EmptySeq
  <2>. QED  BY <2>1, <2>2
<1>. QED  BY <1>1, <1>4, <1>5, <1>6, <1>7

(* A handler announces what it does to the adapter, or leaves it alone. *)
LEMMA HandlerAnnounces ==
  ASSUME IInv, HandleEvent
  PROVE  Announce \/ (UNCHANGED <<notes, dropped, busSpeed>> /\ dev'.adapter = dev.adapter)
<1>1. CASE HandleSetNtbFormat
  <2>1. UNCHANGED <<notes, dropped, busSpeed>> /\ dev' \in {dev, [dev EXCEPT !.use32 = TRUE],
                                                           [dev EXCEPT !.use32 = FALSE]}
    BY <1>1 DEF HandleSetNtbFormat, Fn!OnSetNtbFormat
  <2>. QED  BY <2>1, FnFacts DEF Fn!DevType
<1>2. CASE HandleBusEvent \/ HandleSetInterface \/ HandleGetNtbParameters \/ HandleSetNtbInputSize
  BY <1>2 DEF HandleBusEvent, HandleSetInterface, HandleGetNtbParameters, HandleSetNtbInputSize
<1>. QED  BY <1>1, <1>2 DEF HandleEvent

(* The function's steps keep the types. *)
LEMMA FunctionType ==
  ASSUME IInv, FunctionStep, Fn!IInv', bus' # "detached" => busSpeed' \in Speeds
  PROVE  TypeOK'
<1>1. CASE StartFunction
  BY <1>1, StartEffects DEF hostVars, IInv, TypeOK, Asked
<1>2. CASE HandleEvent
  <2>1. /\ events' \in Seq(EventType) /\ UNCHANGED <<pc, resume, device, wire, cdcMac>>
        /\ answer' \in {"none", "ok", "stall", "never"}
    <3>1. events \in Seq(EventType)
      BY DEF IInv, TypeOK
    <3>2. events # <<>> /\ events' = Tail(events)
      BY <1>2, HandleEffects
    <3>3. events' \in Seq(EventType)
      BY <3>1, <3>2, TailFacts
    <3>4. answer' \in {"none", "ok", "stall", "never"}
      BY <1>2, HandleEffects
    <3>. QED  BY <1>2, <3>3, <3>4, HandleEffects
  <2>2. notes' \in Seq(NoteType) /\ dropped' \in BOOLEAN
    <3>1. CASE Announce
      <4>1. PICK lost \in Parts(LostNotes), new \in Parts(NewNotes) :
              /\ notes' = notes \o lost \o new
              /\ dropped' = IF LostNotes \o NewNotes = <<>> THEN dropped
                            ELSE lost # LostNotes \/ new # NewNotes
        BY <3>1 DEF Announce
      <4>2. lost \in Seq(NoteType) /\ new \in Seq(NoteType)
        BY <4>1, AnnouncementType, PartsType
      <4>3. notes \o lost \in Seq(NoteType)
        BY <4>2, ConcatProperties DEF IInv, TypeOK
      <4>4. notes' \in Seq(NoteType)
        BY <4>1, <4>2, <4>3, ConcatProperties
      <4>5. dropped' \in BOOLEAN
        BY <4>1 DEF IInv, TypeOK
      <4>. QED  BY <4>4, <4>5
    <3>2. CASE UNCHANGED <<notes, dropped>>
      BY <3>2 DEF IInv, TypeOK
    <3>. QED  BY <1>2, <3>1, <3>2, HandlerAnnounces
  <2>. QED  BY <2>1, <2>2 DEF IInv, TypeOK
<1>. QED  BY <1>1, <1>2 DEF FunctionStep, HandleEvent

(* The end of the notifications after an announcement that came through    *)
(* whole.                                                                  *)
LEMMA AnnouncedNote ==
  ASSUME IInv, Fn!IInv', bus' # "detached" => busSpeed' \in Speeds, Announce, ~dropped',
         UNCHANGED <<pc, resume, device>>
  PROVE  NoteInv'
<1>. DEFINE rate == NotifiedRate(busSpeed')
            up == dev'.adapter.up
<1>0. /\ notes \in Seq(NoteType) /\ (~dropped => NoteInv)
      /\ NotifiedRate(busSpeed)' = rate /\ Started' = Started
      /\ dev.adapter.up => Fn!HasAdapter(dev) /\ dev.adapter.speed = busSpeed
  BY FnFacts DEF IInv, TypeOK, NotifiedRate, Started
<1>1. /\ LostNotes \in Seq(NoteType) /\ NewNotes \in Seq(NoteType)
      /\ up => dev'.adapter.speed = busSpeed'
      /\ LostNotes \in {<<>>, <<Note("down", 0)>>}
      /\ NewNotes = IF dev'.adapter # dev.adapter /\ up
                      THEN <<Note("speed", rate), Note("up", 0)>> ELSE <<>>
  BY AnnouncementType
<1>2. PICK lost \in Parts(LostNotes), new \in Parts(NewNotes) :
        /\ notes' = notes \o lost \o new
        /\ dropped' = IF LostNotes \o NewNotes = <<>> THEN dropped
                      ELSE lost # LostNotes \/ new # NewNotes
  BY DEF Announce
<1>3. CASE LostNotes = <<>> /\ NewNotes = <<>>
  <2>1. lost = <<>> /\ new = <<>>
    BY <1>2, <1>3 DEF Parts
  <2>2. notes' = notes /\ dropped' = dropped
    BY <1>0, <1>2, <1>3, <2>1, ConcatEmptySeq
  <2>3. CASE dev'.adapter = dev.adapter
    <3>1. up => busSpeed' = busSpeed
      BY <1>0, <1>1, <2>3
    <3>. QED  BY <1>0, <2>2, <2>3, <3>1 DEF NoteInv
  <2>4. CASE dev'.adapter # dev.adapter
    <3>1. ~dev.adapter.up /\ ~up
      BY <1>0, <1>1, <1>3, <2>4 DEF LostNotes
    <3>. QED  BY <1>0, <2>2, <3>1 DEF NoteInv
  <2>. QED  BY <2>3, <2>4
<1>4. CASE NewNotes # <<>>
  <2>1. up /\ NewNotes = <<Note("speed", rate), Note("up", 0)>>
    BY <1>1, <1>4
  <2>2. LostNotes \o NewNotes # <<>>
    BY <1>1, <1>4, ConcatEqualIffEmpty
  <2>3. new = NewNotes /\ lost = LostNotes
    BY <1>2, <2>2
  <2>. DEFINE before == notes \o lost
              n == Len(before)
  <2>4. before \in Seq(NoteType) /\ n \in Nat
    BY <1>0, <1>1, <2>3, ConcatProperties, LenProperties
  <2>5. notes' = before \o new /\ Len(new) = 2
    BY <1>2, <2>1, <2>3
  <2>. HIDE DEF before
  <2>6. /\ Len(notes') = n + 2 /\ notes'[n + 1] = new[1] /\ notes'[n + 2] = new[2]
    BY <1>1, <2>3, <2>4, <2>5, ConcatProperties
  <2>7. /\ notes'[Len(notes') - 1] = Note("speed", rate) /\ notes'[Len(notes')].kind = "up"
        /\ Len(notes') \notin {0, 1} /\ ~(Len(notes') < 2)
    BY <2>1, <2>3, <2>4, <2>6 DEF Note
  <2>8. notes' # <<>>
    BY <2>7
  <2>. HIDE DEF rate, n
  <2>. QED  BY <1>0, <2>1, <2>7, <2>8 DEF NoteInv
<1>5. CASE LostNotes # <<>> /\ NewNotes = <<>>
  <2>1. LostNotes = <<Note("down", 0)>> /\ ~up
    BY <1>1, <1>5 DEF LostNotes
  <2>2. LostNotes \o NewNotes # <<>>
    BY <1>1, <1>5, ConcatEqualIffEmpty
  <2>3. new = <<>> /\ lost = LostNotes
    BY <1>2, <1>5, <2>2
  <2>4. notes' = notes \o lost
    BY <1>0, <1>1, <1>2, <2>3, ConcatProperties, ConcatEmptySeq
  <2>5. Len(notes') = Len(notes) + 1 /\ notes'[Len(notes) + 1] = lost[1] /\ Len(notes) \in Nat
    BY <1>0, <1>1, <2>1, <2>3, <2>4, ConcatProperties, LenProperties
  <2>6. notes'[Len(notes')].kind = "down" /\ notes' # <<>>
    BY <2>1, <2>3, <2>5 DEF Note
  <2>. QED  BY <1>0, <2>1, <2>6 DEF NoteInv
<1>. QED  BY <1>3, <1>4, <1>5

(* The notifications after a step of the function. *)
LEMMA FunctionNote ==
  ASSUME IInv, FunctionStep, Fn!IInv', bus' # "detached" => busSpeed' \in Speeds, ~dropped'
  PROVE  NoteInv'
<1>1. ASSUME UNCHANGED <<pc, resume, device, notes, dropped, busSpeed>>,
             dev'.adapter = dev.adapter
      PROVE  NoteInv'
  <2>1. NoteInv
    BY <1>1 DEF IInv
  <2>. QED  BY <1>1, <2>1 DEF NoteInv, Started, NotifiedRate
<1>2. CASE StartFunction
  BY <1>1, <1>2, StartEffects DEF hostVars
<1>3. CASE HandleEvent
  <2>1. UNCHANGED <<pc, resume, device>>
    BY <1>3, HandleEffects
  <2>. QED  BY <1>1, <1>3, <2>1, HandlerAnnounces, AnnouncedNote
<1>. QED  BY <1>2, <1>3 DEF FunctionStep, HandleEvent

-----------------------------------------------------------------------------
(* The inductive invariant.                                                *)

(* It holds initially: nobody has queued, asked or announced anything.     *)
LEMMA InitIInv == Init => IInv
<1>. SUFFICES ASSUME Init PROVE IInv
  OBVIOUS
<1>1. Fn!IInv
  BY FnInit DEF Init
<1>2. TypeOK
  <2>1. \A max \in HostMaxes : NewDevice(max) \in DeviceType
    BY DEF NewDevice, DeviceType, Rates
  <2>. QED  BY <2>1, EmptySeq DEF Init, HostInit, TypeOK
<1>3. bus = "detached" /\ ~dev.adapter.up
  BY DEF Init, Fn!Init, Fn!NoAdapter
<1>4. QueueInv /\ AnswerInv /\ Negotiation /\ NoteInv
  BY <1>3, EmptySeq
     DEF Init, HostInit, QueueInv, NoneLeftInv, AnswerInv, Negotiation, NoteInv, Starting, Started,
         Asked
<1>5. DeviceInv
  BY DEF Init, HostInit, DeviceInv, NewDevice, Starting, Started
<1>. QED  BY <1>1, <1>2, <1>3, <1>4, <1>5 DEF IInv

(* Every step preserves it. *)
LEMMA NextIInv == IInv /\ [Next]_vars => IInv'
<1>. SUFFICES ASSUME IInv, [Next]_vars PROVE IInv'
  OBVIOUS
<1>1. CASE FunctionStep
  <2>1. Fn!IInv'
    BY <1>1, FunctionRefines, FnStep DEF IInv
  <2>2. bus' # "detached" => busSpeed' \in Speeds
    BY <1>1, HandleEffects, StartEffects DEF IInv, FunctionStep, HandleEvent
  <2>3. TypeOK' /\ QueueInv' /\ AnswerInv' /\ Negotiation' /\ (~dropped' => NoteInv')
    BY <1>1, <2>1, <2>2, FunctionType, FunctionQueue, FunctionAnswer, FunctionNegotiation,
       FunctionNote
  <2>4. DeviceInv'
    <3>1. UNCHANGED <<pc, resume, device, cdcMac>>
      BY <1>1, HandleEffects, StartEffects DEF FunctionStep, HandleEvent, hostVars
    <3>. QED  BY <3>1 DEF IInv, DeviceInv, Started
  <2>. QED  BY <2>1, <2>2, <2>3, <2>4 DEF IInv
<1>2. CASE HostSide
  <2>1. UNCHANGED fnVars
    BY <1>2 DEF HostSide, HostDriver, InterruptReader, HostEnvironment
  <2>2. Fn!IInv'
    BY <2>1, FnStep DEF IInv, fnVars, Fn!vars
  <2>3. bus' # "detached" => busSpeed' \in Speeds
    BY <2>1 DEF IInv, fnVars
  <2>. QED
    BY <1>2, <2>2, <2>3, HostType, HostQueue, HostAnswer, HostNegotiation, HostDeviceInv, HostNote
       DEF IInv
<1>3. CASE UNCHANGED vars
  <2>1. Fn!IInv'
    BY <1>3, FnStep DEF IInv, vars, fnVars, Fn!vars
  <2>2. UNCHANGED <<bus, busSpeed, dev>> /\ UNCHANGED hostVars /\ cdcMac' = cdcMac
    BY <1>3 DEF vars, fnVars
  <2>3. TypeOK' /\ AnswerInv' /\ DeviceInv' /\ (bus' # "detached" => busSpeed' \in Speeds)
    BY <2>2 DEF IInv, TypeOK, AnswerInv, DeviceInv, Started, hostVars
  <2>4. QueueInv'
    BY <2>2 DEF IInv, QueueInv, HeadInv, LastInv, NoneLeftInv, OfSession, hostVars, Fn!HasAdapter
  <2>5. Negotiation'
    BY <2>2 DEF IInv, Negotiation, Ready, Built, hostVars, Fn!HasAdapter
  <2>6. ~dropped' => NoteInv'
    BY <2>2 DEF IInv, NoteInv, Started, NotifiedRate, hostVars
  <2>. QED  BY <2>1, <2>3, <2>4, <2>5, <2>6 DEF IInv
<1>. QED  BY <1>1, <1>2, <1>3 DEF Next, HostSide

(* The inductive invariant holds in every reachable state. *)
THEOREM Invariance == Spec => []IInv
<1>. QED  BY InitIInv, NextIInv, PTL DEF Spec

-----------------------------------------------------------------------------
(* What follows from it.                                                   *)

(* Everything the two drivers keep and send each other is well formed: a   *)
(* rate in a notification fits its UINT32, and no block size reaches the   *)
(* function that it does not accept (PrepareHardware, ProcessSetupPacket). *)
THEOREM TypeCorrect == Spec => []TypeOK
<1>1. IInv => TypeOK
  BY DEF IInv
<1>. QED  BY <1>1, Invariance, PTL

(* When a host works and nothing is under way, the function builds blocks  *)
(* in the format the host parses, and none longer than the host's reads,   *)
(* whatever hosts, failures, resets and resumes came before                *)
(* (SelectSetting, CreateAdapter, ProcessSetupPacket).                     *)
THEOREM EndsAgree == Spec => []DataAgrees
<1>1. IInv => DataAgrees
  <2>. SUFFICES ASSUME IInv, Settled, dev.adapter.up
                PROVE  dev.adapter.use32 = device.use32 /\ dev.adapter.size <= device.inSize
    BY DEF DataAgrees
  <2>1. pc = "working" /\ wire = "configured" /\ events = <<>>
    BY DEF Settled
  <2>2. device.use32
    BY <2>1 DEF IInv, Negotiation, Starting
  <2>3. Built
    BY <2>1 DEF IInv, Negotiation
  <2>4. dev.adapter.use32 /\ dev.adapter.size <= device.inSize
    BY <2>3 DEF Built
  <2>5. dev.adapter.use32 \in BOOLEAN /\ device.use32 \in BOOLEAN
    <3>1. dev.adapter \in Fn!AdapterType
      BY FnFacts DEF Fn!DevType
    <3>. QED  BY <3>1 DEF IInv, TypeOK, DeviceType, Fn!AdapterType, Fn!NoAdapter
  <2>. QED  BY <2>2, <2>4, <2>5
<1>. QED  BY <1>1, Invariance, PTL

(* While the host works, its adapter exists and its pipes are those of the *)
(* setting selected last (SelectSetting, RetrieveDataBulkPipes, D0Entry).  *)
THEOREM WorkingReady == Spec => []WorkingIsReady
<1>1. IInv => WorkingIsReady
  BY DEF IInv, DeviceInv, Started, WorkingIsReady
<1>. QED  BY <1>1, Invariance, PTL

(* The host's link is up exactly if the function's adapter is, and at the  *)
(* speed of the bus if that fits a UINT32, once the last announcement got  *)
(* through (NotifyConnectionSpeedAndStatusChange, the host's interrupt     *)
(* reader).                                                                *)
THEOREM LinkTrue == Spec => []LinkIsTrue
<1>1. IInv => LinkIsTrue
  <2>. SUFFICES ASSUME IInv, Settled, ~dropped
                PROVE  /\ dev.adapter.up <=> device.link = "up"
                       /\ dev.adapter.up /\ BusSpeed[busSpeed] < 4295 =>
                            device.linkRate = BusSpeed[busSpeed]
    BY DEF LinkIsTrue
  <2>1. Started /\ notes = <<>>
    BY DEF Settled, Started
  <2>2. /\ dev.adapter.up <=> device.link = "up"
        /\ dev.adapter.up => device.linkRate = NotifiedRate(busSpeed)
    BY <2>1 DEF IInv, NoteInv
  <2>3. ASSUME dev.adapter.up, BusSpeed[busSpeed] < 4295
        PROVE  NotifiedRate(busSpeed) = BusSpeed[busSpeed]
    <3>1. busSpeed \in 1 .. 4
      <4>1. bus = "configured"
        BY <2>3, FnFacts
      <4>2. bus # "detached" => busSpeed \in Speeds
        BY DEF IInv
      <4>. QED  BY <4>1, <4>2, LinkAssumption
    <3>2. CASE busSpeed = 3
      BY <2>3, <3>2 DEF BusSpeed
    <3>3. CASE busSpeed # 3
      <4>1. busSpeed = 1 \/ busSpeed = 2 \/ busSpeed = 4
        BY <3>1, <3>3
      <4>. QED  BY <4>1 DEF NotifiedRate, BusSpeed
    <3>. QED  BY <3>2, <3>3
  <2>. QED  BY <2>2, <2>3
<1>. QED  BY <1>1, Invariance, PTL

(* The host takes the registered address, through the string; the          *)
(* function's own is its successor, which is another one                   *)
(* (RegisterCdcMacString, GetNextMACAddress, HexStringToBytes).            *)
THEOREM AddressesDiffer == Spec => []EndsDiffer
<1>1. IInv => EndsDiffer
  <2>. SUFFICES ASSUME IInv, pc = "working"
                PROVE  LET own == NextMACAddress(cdcMac) IN
                       /\ device.mac = cdcMac /\ own # device.mac
                       /\ InRange(cdcMac) => InRange(own) /\ IsUnicast(own) /\ IsLocal(own)
    BY DEF EndsDiffer
  <2>1. device.mac = cdcMac
    BY DEF IInv, DeviceInv, Starting
  <2>2. cdcMac \in MacAddress
    BY LinkAssumption DEF IInv, TypeOK
  <2>. QED  BY <2>1, <2>2, NextDiffers, NextStaysInRange
<1>. QED  BY <1>1, Invariance, PTL

(* When the function takes SET_NTB_FORMAT of a configured bus, data        *)
(* setting 0 is selected (SelectSetting, OnSetNtbFormat).                  *)
THEOREM FormatAtSettingZero == Spec => []FormatOnlyAtSettingZero
<1>1. IInv => FormatOnlyAtSettingZero
  <2>. SUFFICES ASSUME IInv, events # <<>>, Head(events).kind = "setNtbFormat"
                PROVE  dev.alt = 0
    BY DEF FormatOnlyAtSettingZero
  <2>1. events \in Seq(EventType) /\ HeadInv(events[1])
    BY DEF IInv, TypeOK, QueueInv
  <2>2. HeadInv(Head(events))
    BY <2>1
  <2>. QED  BY <2>2 DEF HeadInv
<1>. QED  BY <1>1, Invariance, PTL

(* The host driver, its bus and the function's own driver, together, are a *)
(* FnDevice with an orderly host: each of their steps is one of FnDevice's *)
(* or changes nothing the function's control plane keeps.                  *)
THEOREM Implementation == Spec => ImplementsFnDevice
<1>1. Init => Fn!Init
  BY DEF Init
<1>2. IInv /\ [Next]_vars => [Fn!Next]_(Fn!vars)
  <2>1. ASSUME HostSide \/ UNCHANGED vars PROVE UNCHANGED Fn!vars
    BY <2>1 DEF HostSide, HostDriver, InterruptReader, HostEnvironment, vars, fnVars, Fn!vars
  <2>. QED  BY <2>1, FunctionRefines DEF Next, HostSide
<1>. QED  BY <1>1, <1>2, Invariance, PTL DEF Spec, ImplementsFnDevice

(* Behind this host no assertion of the function's control plane fails     *)
(* (CreateAdapter, ProcessSetupPacket), as FnDevice promises it to every   *)
(* orderly host.                                                           *)
THEOREM FunctionSafe == Spec => []Fn!OrderlyHostNeverBugchecks
<1>1. IInv => Fn!OrderlyHostNeverBugchecks
  BY FnFacts DEF Fn!OrderlyHostNeverBugchecks
<1>. QED  BY <1>1, Invariance, PTL

=============================================================================
