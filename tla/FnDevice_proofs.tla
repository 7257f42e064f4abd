--------------------------- MODULE FnDevice_proofs --------------------------
(***************************************************************************)
(* Machine-checked proofs about FnDevice, for every set of bus speeds and  *)
(* of block sizes a host may ask for. IInv is inductive and implies the    *)
(* four safety properties.                                                 *)
(***************************************************************************)
EXTENDS FnDevice, TLAPS

USE SizeAssumption, SpeedAssumption

(* What CreateAdapter leaves behind, whichever of its steps fails. *)
LEMMA CreatedFields ==
  ASSUME NEW d \in DevType, NEW outcome \in Outcomes, busSpeed \in Speeds \cup {0}
  PROVE  /\ Created(d, outcome) \in DevType
         /\ outcome = "none" => Created(d, outcome) = d
         /\ outcome # "none" =>
              /\ Created(d, outcome).alt = d.alt
              /\ Created(d, outcome).use32 = d.use32
              /\ Created(d, outcome).size = d.size
              /\ Created(d, outcome).adapter = [up |-> outcome = "ok", use32 |-> d.use32,
                                                size |-> d.size, speed |-> busSpeed]
BY DEF DevType, AdapterType, Created, Outcomes

(* What DestroyAdapter leaves behind. *)
LEMMA DestroyedFields ==
  ASSUME NEW d \in DevType
  PROVE  /\ Destroyed(d) \in DevType
         /\ Destroyed(d).adapter = NoAdapter
         /\ ~HasAdapter(d) => Destroyed(d) = d
         /\ HasAdapter(d) =>
              /\ Destroyed(d).alt = 0
              /\ Destroyed(d).use32 = FALSE
              /\ Destroyed(d).size = MaxSize
BY DEF DevType, AdapterType, Destroyed, SetParameters, HasAdapter, NoAdapter

(* DestroyAdapter, on the device's own fields, in any reachable state. *)
LEMMA DestroyStep ==
  ASSUME IInv, Destroy
  PROVE  /\ dev' \in DevType /\ ~HasAdapter(dev')
         /\ told' = FALSE /\ dev'.adapter.up = FALSE
         /\ host = "orderly" => dev'.size <= MaxSize
<1>1. dev \in DevType /\ dev' = Destroyed(dev)
  BY DEF IInv, TypeOK, Destroy
<1>2. dev' \in DevType /\ dev'.adapter = NoAdapter
  BY <1>1, DestroyedFields
<1>3. ~HasAdapter(dev') /\ dev'.adapter.up = FALSE
  BY <1>2 DEF HasAdapter, NoAdapter
<1>4. told' = FALSE
  <2>1. CASE HasAdapter(dev)
    BY <2>1 DEF Destroy, Tell
  <2>2. CASE ~HasAdapter(dev)
    <3>1. told' = told
      BY <2>2 DEF Destroy
    <3>2. told = dev.adapter.up
      BY DEF IInv, SessionInv, ToldMatchesAdapter
    <3>3. dev.adapter.up = FALSE
      BY <2>2 DEF HasAdapter, NoAdapter
    <3>. QED  BY <3>1, <3>2, <3>3
  <2>. QED  BY <2>1, <2>2
<1>5. host = "orderly" => dev'.size <= MaxSize
  <2>1. CASE HasAdapter(dev)
    <3>1. dev'.size = MaxSize
      BY <1>1, <2>1, DestroyedFields
    <3>. QED  BY <3>1
  <2>2. CASE ~HasAdapter(dev)
    BY <1>1, <2>2, DestroyedFields DEF IInv, OrderlyInv
  <2>. QED  BY <2>1, <2>2
<1>. QED  BY <1>2, <1>3, <1>4, <1>5

(* The initial state satisfies the inductive invariant. *)
LEMMA InitIInv == Init => IInv
<1>. SUFFICES ASSUME Init PROVE IInv
  OBVIOUS
<1>1. TypeOK
  BY DEF Init, TypeOK, DevType, AdapterType, NoAdapter
<1>2. SessionInv
  BY DEF Init, SessionInv, AdapterBelongsToSession, ToldMatchesAdapter, HasAdapter, NoAdapter
<1>3. OrderlyInv
  BY DEF Init, OrderlyInv, HasAdapter, NoAdapter
<1>. QED  BY <1>1, <1>2, <1>3 DEF IInv

(* The power callbacks. *)
LEMMA PowerStep == ASSUME IInv, Power PROVE IInv'
<1>. USE DEF IInv, TypeOK, SessionInv, OrderlyInv, AdapterBelongsToSession, ToldMatchesAdapter
<1>1. CASE PrepareHardware
  <2>1. dev \in DevType /\ ~HasAdapter(dev) /\ hostSize = MaxSize
    BY <1>1 DEF PrepareHardware
  <2>2. /\ dev' \in DevType /\ dev'.adapter = dev.adapter
        /\ dev'.size = MaxSize
    BY <1>1, <2>1 DEF PrepareHardware, SetParameters, DevType
  <2>3. ~HasAdapter(dev')
    BY <2>1, <2>2 DEF HasAdapter
  <2>. QED  BY <1>1, <2>1, <2>2, <2>3 DEF PrepareHardware
<1>2. CASE SubscribeBusEvents
  BY <1>2 DEF SubscribeBusEvents
<1>3. CASE UnSubscribeBusEvents
  BY <1>3 DEF UnSubscribeBusEvents
<1>4. CASE ReleaseHardware
  BY <1>4 DEF ReleaseHardware
<1>. QED  BY <1>1, <1>2, <1>3, <1>4 DEF Power

(* The bus events. Those that end a session destroy the adapter. *)
LEMMA BusEventStep == ASSUME IInv, ~bugcheck, BusEvent PROVE IInv'
<1>. USE DEF IInv, TypeOK, SessionInv, OrderlyInv, AdapterBelongsToSession, ToldMatchesAdapter
<1>1. CASE Attach
  <2>1. ~HasAdapter(dev)
    BY <1>1 DEF Attach
  <2>. QED  BY <1>1, <2>1 DEF Attach
<1>2. CASE Configured
  <2>1. ~HasAdapter(dev)
    BY <1>2 DEF Configured
  <2>. QED  BY <1>2, <2>1 DEF Configured
<1>3. CASE UnConfigured
  <2>1. Destroy
    BY <1>3 DEF UnConfigured
  <2>. QED  BY <1>3, <2>1, DestroyStep DEF UnConfigured
<1>4. CASE Detach
  <2>1. Destroy
    BY <1>4 DEF Detach
  <2>. QED  BY <1>4, <2>1, DestroyStep DEF Detach
<1>5. CASE Reset
  <2>1. Destroy
    BY <1>5 DEF Reset
  <2>. QED  BY <1>5, <2>1, DestroyStep DEF Reset
<1>. QED  BY <1>1, <1>2, <1>3, <1>4, <1>5 DEF BusEvent

(* Selecting setting 1: CreateAdapter finds no adapter, or asserts. *)
LEMMA SelectDataStep ==
  ASSUME IInv, ~bugcheck, SetInterface(1) PROVE IInv'
<1>. USE DEF IInv, TypeOK
<1>1. state = "configured" /\ bus = "configured"
  BY DEF SetInterface, OnSetInterface, SessionInv
<1>2. CASE dev.alt = 1
  BY <1>1, <1>2 DEF SetInterface, OnSetInterface, SessionInv, OrderlyInv, AdapterBelongsToSession, ToldMatchesAdapter
<1>3. CASE dev.alt # 1
  <2>. DEFINE d == [dev EXCEPT !.alt = 1]
  <2>1. /\ d \in DevType /\ d.alt = 1 /\ d.adapter = dev.adapter
        /\ d.size = dev.size /\ d.use32 = dev.use32
    BY DEF DevType
  <2>2. HasAdapter(d) <=> HasAdapter(dev)
    BY <2>1 DEF HasAdapter
  <2>3. SelectData(d) /\ UNCHANGED <<power, bus, state, busSpeed, host, hostSize>>
    BY <1>1, <1>3 DEF SetInterface, OnSetInterface
  <2>. HIDE DEF d
  <2>4. CASE HasAdapter(d)
    <3>1. host # "orderly"
      BY <1>3, <2>2, <2>4 DEF OrderlyInv
    <3>2. bugcheck' = TRUE /\ UNCHANGED <<dev, told>>
      BY <2>3, <2>4 DEF SelectData
    <3>. QED  BY <2>3, <3>1, <3>2 DEF SessionInv, OrderlyInv, AdapterBelongsToSession, ToldMatchesAdapter
  <2>5. CASE ~HasAdapter(d)
    <3>1. PICK outcome \in Outcomes :
            /\ dev' = Created(d, outcome)
            /\ IF outcome = "ok" THEN Tell(TRUE) ELSE UNCHANGED told
            /\ UNCHANGED bugcheck
      BY <2>3, <2>5 DEF SelectData
    <3>2. ~told /\ dev.adapter.up = FALSE
      BY <2>2, <2>5 DEF SessionInv, ToldMatchesAdapter, HasAdapter, NoAdapter
    <3>3. CASE outcome = "none"
      <4>1. dev' = d
        BY <2>1, <3>1, <3>3, CreatedFields
      <4>2. told' = told
        BY <3>1, <3>3
      <4>. QED  BY <1>1, <2>1, <2>3, <2>5, <3>1, <3>2, <4>1, <4>2
                DEF SessionInv, OrderlyInv, AdapterBelongsToSession, ToldMatchesAdapter
    <3>4. CASE outcome # "none"
      <4>1. /\ dev' \in DevType /\ dev'.alt = 1
            /\ dev'.use32 = dev.use32 /\ dev'.size = dev.size
            /\ dev'.adapter = [up |-> outcome = "ok", use32 |-> dev.use32,
                               size |-> dev.size, speed |-> busSpeed]
        BY <2>1, <3>1, <3>4, CreatedFields
      <4>2. told' = (outcome = "ok")
        BY <3>1, <3>2 DEF Tell
      <4>3. /\ dev'.adapter.up = (outcome = "ok") /\ dev'.adapter.use32 = dev.use32
            /\ dev'.adapter.size = dev.size /\ dev'.adapter.speed = busSpeed
        BY <4>1
      <4>4. TypeOK'
        BY <2>3, <3>1, <4>1, <4>2
      <4>5. SessionInv'
        BY <1>1, <2>3, <4>2, <4>3 DEF SessionInv, AdapterBelongsToSession, ToldMatchesAdapter
      <4>6. OrderlyInv'
        BY <2>3, <3>1, <4>1, <4>3 DEF OrderlyInv
      <4>. QED  BY <4>4, <4>5, <4>6
    <3>. QED  BY <3>3, <3>4
  <2>. QED  BY <2>4, <2>5
<1>. QED  BY <1>2, <1>3

(* Selecting setting 0: DestroyAdapter. *)
LEMMA SelectNoDataStep ==
  ASSUME IInv, ~bugcheck, SetInterface(0) PROVE IInv'
<1>. USE DEF IInv, TypeOK
<1>1. state = "configured" /\ bus = "configured"
  BY DEF SetInterface, OnSetInterface, SessionInv
<1>2. CASE dev.alt = 0
  BY <1>1, <1>2 DEF SetInterface, OnSetInterface, SessionInv, OrderlyInv, AdapterBelongsToSession, ToldMatchesAdapter
<1>3. CASE dev.alt # 0
  <2>. DEFINE d == [dev EXCEPT !.alt = 0]
  <2>1. d \in DevType /\ d.adapter = dev.adapter /\ d.size = dev.size
    BY DEF DevType
  <2>2. HasAdapter(d) <=> HasAdapter(dev)
    BY <2>1 DEF HasAdapter
  <2>3. SelectNoData(d) /\ hostSize' = MaxSize /\ UNCHANGED <<power, bus, state, busSpeed, host>>
    BY <1>1, <1>3 DEF SetInterface, OnSetInterface
  <2>. HIDE DEF d
  <2>4. /\ dev' = Destroyed(d) /\ UNCHANGED bugcheck
        /\ IF HasAdapter(d) THEN Tell(FALSE) ELSE UNCHANGED told
    BY <2>3 DEF SelectNoData
  <2>5. dev' \in DevType /\ ~HasAdapter(dev') /\ dev'.adapter.up = FALSE
    <3>1. dev' \in DevType /\ dev'.adapter = NoAdapter
      BY <2>1, <2>4, DestroyedFields
    <3>. QED  BY <3>1 DEF HasAdapter, NoAdapter
  <2>6. told' = FALSE
    <3>1. CASE HasAdapter(d)
      BY <2>4, <3>1 DEF Tell
    <3>2. CASE ~HasAdapter(d)
      <4>1. told' = told
        BY <2>4, <3>2
      <4>2. told = dev.adapter.up
        BY DEF SessionInv, ToldMatchesAdapter
      <4>3. dev.adapter.up = FALSE
        BY <2>2, <3>2 DEF HasAdapter, NoAdapter
      <4>. QED  BY <4>1, <4>2, <4>3
    <3>. QED  BY <3>1, <3>2
  <2>7. host = "orderly" => dev'.size <= MaxSize
    <3>1. CASE HasAdapter(d)
      <4>1. dev'.size = MaxSize
        BY <2>1, <2>4, <3>1, DestroyedFields
      <4>. QED  BY <4>1
    <3>2. CASE ~HasAdapter(d)
      BY <2>1, <2>4, <3>2, DestroyedFields DEF OrderlyInv
    <3>. QED  BY <3>1, <3>2
  <2>. QED  BY <1>1, <2>3, <2>4, <2>5, <2>6, <2>7
            DEF SessionInv, OrderlyInv, AdapterBelongsToSession, ToldMatchesAdapter
<1>. QED  BY <1>2, <1>3

(* SET_NTB_FORMAT changes the format of the next adapter, and only while   *)
(* setting 0 is selected, when an orderly host has no adapter.             *)
LEMMA FormatStep ==
  ASSUME IInv, ~bugcheck, NEW f \in BOOLEAN, SetNtbFormat(f) PROVE IInv'
<1>. USE DEF IInv, TypeOK
<1>1. /\ bugcheck' = FALSE /\ bus = "configured"
      /\ UNCHANGED <<power, bus, state, busSpeed, told, hostSize, host>>
  BY DEF SetNtbFormat, OnSetNtbFormat, SessionInv
<1>2. CASE dev.alt = 0
  <2>1. dev' = [dev EXCEPT !.use32 = f]
    BY <1>2 DEF SetNtbFormat, OnSetNtbFormat
  <2>2. /\ dev' \in DevType /\ dev'.alt = 0
        /\ dev'.adapter = dev.adapter /\ dev'.size = dev.size
    BY <1>2, <2>1 DEF DevType
  <2>3. host = "orderly" => ~HasAdapter(dev')
    BY <1>2, <2>2 DEF OrderlyInv, HasAdapter
  <2>4. TypeOK'
    BY <1>1, <2>2
  <2>5. SessionInv'
    BY <1>1, <2>2 DEF SessionInv, AdapterBelongsToSession, ToldMatchesAdapter, HasAdapter
  <2>6. OrderlyInv'
    BY <1>1, <2>2, <2>3 DEF OrderlyInv
  <2>. QED  BY <2>4, <2>5, <2>6
<1>3. CASE dev.alt # 0
  <2>1. dev' = dev
    BY <1>3 DEF SetNtbFormat, OnSetNtbFormat
  <2>. QED  BY <1>1, <2>1 DEF SessionInv, OrderlyInv, AdapterBelongsToSession, ToldMatchesAdapter
<1>. QED  BY <1>2, <1>3

(* SET_NTB_INPUT_SIZE notes the size; with an adapter it also replaces it, *)
(* which only the resizing host brings about.                              *)
LEMMA SizeStep ==
  ASSUME IInv, ~bugcheck, NEW n \in Sizes, SetNtbInputSize(n) PROVE IInv'
<1>. USE DEF IInv, TypeOK
<1>1. /\ n \in Nat /\ bugcheck' = FALSE /\ bus = "configured"
      /\ power = "subscribed"
      /\ UNCHANGED <<power, bus, state, busSpeed, host>>
      /\ hostSize' = IF Accepts(n) THEN n ELSE hostSize
  BY DEF SetNtbInputSize, OnSetNtbInputSize, SessionInv
<1>2. CASE ~Accepts(n)
  <2>1. UNCHANGED <<dev, told, hostSize>>
    BY <1>2 DEF SetNtbInputSize, OnSetNtbInputSize
  <2>. QED  BY <1>1, <2>1 DEF SessionInv, OrderlyInv, AdapterBelongsToSession, ToldMatchesAdapter
<1>3. CASE Accepts(n)
  <2>. DEFINE noted == [dev EXCEPT !.size = n]
  <2>1. /\ noted \in DevType /\ noted.size = n /\ noted.alt = dev.alt
        /\ noted.adapter = dev.adapter /\ noted.use32 = dev.use32
    BY <1>1 DEF DevType
  <2>2. IF HasAdapter(dev)
          THEN \E outcome \in Outcomes :
                 /\ dev' = Created(Destroyed(noted), outcome)
                 /\ Tell(outcome = "ok")
          ELSE dev' = noted /\ UNCHANGED told
    BY <1>3 DEF SetNtbInputSize, OnSetNtbInputSize
  <2>3. host = "orderly" => ~HasAdapter(dev)
    BY DEF SetNtbInputSize, OnSetNtbInputSize
  <2>4. hostSize' = n /\ n <= MaxSize
    BY <1>1, <1>3 DEF Accepts
  <2>. HIDE DEF noted
  <2>5. CASE ~HasAdapter(dev)
    <3>1. dev' = noted /\ told' = told
      BY <2>2, <2>5
    <3>2. ~HasAdapter(dev')
      BY <2>1, <2>5, <3>1 DEF HasAdapter
    <3>3. TypeOK'
      BY <1>1, <2>1, <2>4, <3>1
    <3>4. SessionInv'
      BY <1>1, <2>1, <3>1, <3>2 DEF SessionInv, AdapterBelongsToSession, ToldMatchesAdapter
    <3>5. OrderlyInv'
      BY <1>1, <2>1, <2>4, <3>1, <3>2 DEF OrderlyInv
    <3>. QED  BY <3>3, <3>4, <3>5
  <2>6. CASE HasAdapter(dev)
    <3>. DEFINE d == Destroyed(noted)
    <3>1. d \in DevType /\ d.adapter = NoAdapter
      BY <2>1, DestroyedFields
    <3>2. PICK outcome \in Outcomes : dev' = Created(d, outcome) /\ told' = (outcome = "ok")
      BY <2>2, <2>6 DEF Tell
    <3>. HIDE DEF d
    <3>3. host # "orderly"
      BY <2>3, <2>6
    <3>4. /\ dev' \in DevType /\ dev'.adapter.up = (outcome = "ok")
          /\ HasAdapter(dev') => dev'.adapter.speed = busSpeed
      <4>1. CASE outcome = "none"
        <5>1. dev' = d
          BY <3>1, <3>2, <4>1, CreatedFields
        <5>2. dev' \in DevType /\ dev'.adapter = NoAdapter
          BY <3>1, <5>1
        <5>3. ~HasAdapter(dev') /\ dev'.adapter.up = FALSE
          BY <5>2 DEF HasAdapter, NoAdapter
        <5>4. (outcome = "ok") = FALSE
          BY <4>1
        <5>. QED  BY <5>2, <5>3, <5>4
      <4>2. CASE outcome # "none"
        <5>1. /\ dev' \in DevType
              /\ dev'.adapter = [up |-> outcome = "ok", use32 |-> d.use32,
                                 size |-> d.size, speed |-> busSpeed]
          BY <3>1, <3>2, <4>2, CreatedFields
        <5>. QED  BY <5>1
      <4>. QED  BY <4>1, <4>2
    <3>5. TypeOK'
      BY <1>1, <2>4, <3>2, <3>4
    <3>6. SessionInv'
      BY <1>1, <3>2, <3>4 DEF SessionInv, AdapterBelongsToSession, ToldMatchesAdapter
    <3>7. OrderlyInv'
      BY <1>1, <3>3 DEF OrderlyInv
    <3>. QED  BY <3>5, <3>6, <3>7
  <2>. QED  BY <2>5, <2>6
<1>. QED  BY <1>2, <1>3

(* Every step preserves the inductive invariant. *)
LEMMA NextIInv == IInv /\ [Next]_vars => IInv'
<1>. SUFFICES ASSUME IInv, [Next]_vars PROVE IInv'
  OBVIOUS
<1>1. CASE UNCHANGED vars
  BY <1>1 DEF vars, IInv, TypeOK, SessionInv, OrderlyInv, AdapterBelongsToSession,
              ToldMatchesAdapter
<1>2. CASE Next
  <2>1. ~bugcheck
    BY <1>2 DEF Next
  <2>2. CASE Power
    BY <2>2, PowerStep
  <2>3. CASE BusEvent
    BY <2>1, <2>3, BusEventStep
  <2>4. CASE HostRequest
    <3>1. CASE \E a \in {0, 1} : SetInterface(a)
      BY <2>1, <3>1, SelectDataStep, SelectNoDataStep
    <3>2. CASE \E f \in BOOLEAN : SetNtbFormat(f)
      BY <2>1, <3>2, FormatStep
    <3>3. CASE \E n \in Sizes : SetNtbInputSize(n)
      BY <2>1, <3>3, SizeStep
    <3>. QED  BY <2>4, <3>1, <3>2, <3>3 DEF HostRequest
  <2>. QED  BY <1>2, <2>2, <2>3, <2>4 DEF Next
<1>. QED  BY <1>1, <1>2

(* The inductive invariant holds in every reachable state. *)
THEOREM Invariance == Spec => []IInv
<1>. QED  BY InitIInv, NextIInv, PTL DEF Spec

(* The control plane's state is always well formed, in particular only     *)
(* settings 0 and 1 are ever selected.                                     *)
THEOREM TypeCorrect == Spec => []TypeOK
<1>1. IInv => TypeOK
  BY DEF IInv
<1>. QED  BY <1>1, Invariance, PTL

(* No network adapter outlives the session it was created in, whatever the *)
(* bus does and whichever adapter creations fail (BusEventNotificationRead).*)
THEOREM SessionOwnsAdapter == Spec => []AdapterBelongsToSession
<1>1. IInv => AdapterBelongsToSession
  BY DEF IInv, SessionInv
<1>. QED  BY <1>1, Invariance, PTL

(* The last connection notification the host was sent tells the truth      *)
(* about the adapter (NotifyConnectionSpeedAndStatusChange).               *)
THEOREM HostToldTruth == Spec => []ToldMatchesAdapter
<1>1. IInv => ToldMatchesAdapter
  BY DEF IInv, SessionInv
<1>. QED  BY <1>1, Invariance, PTL

(* No assertion of the control plane fails for a host that does not resize *)
(* blocks while data flows (CreateAdapter, ProcessSetupPacket).            *)
THEOREM OrderlySafe == Spec => []OrderlyHostNeverBugchecks
<1>1. IInv => OrderlyHostNeverBugchecks
  BY DEF IInv, OrderlyInv, OrderlyHostNeverBugchecks
<1>. QED  BY <1>1, Invariance, PTL

(* For such a host, the adapter was built with exactly the format and size *)
(* the device reports, and its blocks fit what the host asked for          *)
(* (ProcessSetupPacket, CreateAdapter, SetParameters).                     *)
THEOREM Negotiation == Spec => []OrderlyNegotiationHolds
<1>1. IInv => OrderlyNegotiationHolds
  BY DEF IInv, OrderlyInv, OrderlyNegotiationHolds, NtbFitsHost
<1>. QED  BY <1>1, Invariance, PTL

=============================================================================
