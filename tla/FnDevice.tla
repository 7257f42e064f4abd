------------------------------ MODULE FnDevice ------------------------------
(***************************************************************************)
(* The control plane of the function driver (function/device.cpp): one bus *)
(* event at a time, BusEventNotificationRead follows the USB device state, *)
(* answers the host's class requests and creates and destroys the network  *)
(* adapter with the data interface's alternate setting.                    *)
(*                                                                         *)
(* The device's fields are one record, dev, because two handlers compose   *)
(* others: SET_NTB_INPUT_SIZE with a live adapter runs DestroyAdapter and  *)
(* CreateAdapter on the fields it has just set. What is not under src/ is  *)
(* the bus and the host behind it: bus is the state the USB device really  *)
(* is in, and the host sends class requests and SET_INTERFACE only while   *)
(* it is configured. Suspend and resume events change nothing.             *)
(***************************************************************************)
EXTENDS Integers

CONSTANTS
  Speeds,     \* bus speeds an attach or a reset can report
  Sizes,      \* NTB input sizes a host asks for
  MinSize,    \* 2048, the least the function accepts
  MaxSize     \* dwNtbInMaxSize, 0x10000

ASSUME SizeAssumption ==
  MinSize \in Nat \ {0} /\ MaxSize \in Nat /\ MinSize <= MaxSize /\ Sizes \subseteq Nat
ASSUME SpeedAssumption == Speeds # {} /\ Speeds \subseteq Nat

VARIABLES
  power,     \* PnP and power state: "out", "idle", "subscribed" or "removed"
  bus,       \* the USB state of the device, as the bus sees it
  state,     \* m_State
  busSpeed,  \* m_BusSpeed, an index of g_UsbFnBusSpeed; 0 is low speed
  dev,       \* m_AlternateInterfaceNumber, m_NetAdapter and the NTB parameters
  told,      \* the network connection status last sent to the host
  hostSize,  \* the NTB input size the host can count on
  host,      \* kind of host: "orderly", or "resizing" while data flows
  bugcheck   \* an NT_FRE_ASSERT has failed

vars == <<power, bus, state, busSpeed, dev, told, hostSize, host, bugcheck>>

NoAdapter == [up |-> FALSE, use32 |-> FALSE, size |-> 0, speed |-> 0]

(* What CreateAdapter can meet: CacheClassInformation or NetAdapterCreate  *)
(* fails and no adapter exists, or NetAdapterStart fails and m_NetAdapter  *)
(* is set all the same, or everything succeeds.                            *)
Outcomes == {"none", "unstarted", "ok"}

HasAdapter(d) == d.adapter # NoAdapter

-----------------------------------------------------------------------------
(* SetParameters: the NTB parameters every session starts with. *)
SetParameters(d) == [d EXCEPT !.size = MaxSize, !.use32 = FALSE]

(* Mutant: the adapter is created with the default block size. *)
CreatedWithDefaults(d, outcome) ==
  IF outcome = "none" THEN d
  ELSE [d EXCEPT !.adapter = [up |-> outcome = "ok", use32 |-> d.use32,
                              size |-> MaxSize, speed |-> busSpeed]]

(* CreateAdapter: the adapter takes the format and block size of the       *)
(* moment. Only a started one has its link speed and link state set.       *)
Created(d, outcome) ==
  IF outcome = "none" THEN d
  ELSE [d EXCEPT !.adapter = [up |-> outcome = "ok", use32 |-> d.use32,
                              size |-> d.size, speed |-> busSpeed]]

(* Mutant: the alternate setting is stepped down instead of cleared. *)
DestroyedSteppingDown(d) ==
  IF HasAdapter(d)
    THEN [SetParameters([d EXCEPT !.adapter = NoAdapter]) EXCEPT !.alt = @ - 1]
    ELSE d

(* DestroyAdapter: nothing happens without an adapter; with one, the NTB   *)
(* parameters and the alternate setting go back to their defaults.         *)
Destroyed(d) ==
  IF HasAdapter(d)
    THEN [SetParameters([d EXCEPT !.adapter = NoAdapter]) EXCEPT !.alt = 0]
    ELSE d

(* NotifyConnectionSpeedAndStatusChange: the notification is handed to the *)
(* interrupt endpoint. That InterruptHost finds memory for it is assumed.  *)
Tell(connected) == told' = connected

(* Mutant: the host is not told. *)
DestroySilently == dev' = Destroyed(dev) /\ UNCHANGED told

(* DestroyAdapter tells the host of the lost connection if it did anything. *)
Destroy ==
  /\ dev' = Destroyed(dev)
  /\ IF HasAdapter(dev) THEN Tell(FALSE) ELSE UNCHANGED told

-----------------------------------------------------------------------------
Init ==
  /\ power = "out" /\ bus = "detached" /\ state = "minimum" /\ busSpeed = 0
  /\ dev = [alt |-> 0, adapter |-> NoAdapter, use32 |-> FALSE, size |-> 0]
  /\ told = FALSE /\ hostSize = MaxSize
  /\ host \in {"orderly", "resizing"}
  /\ bugcheck = FALSE

(* EvtDevicePrepareHardware, InitializeDevice. *)
PrepareHardware ==
  /\ power = "out"
  /\ power' = "idle"
  /\ dev' = SetParameters(dev)
  /\ UNCHANGED <<bus, state, busSpeed, told, hostSize, host, bugcheck>>

(* EvtDeviceSelfManagedIoInit and IoRestart: bus events are read again. *)
SubscribeBusEvents ==
  /\ power = "idle"
  /\ power' = "subscribed"
  /\ UNCHANGED <<bus, state, busSpeed, dev, told, hostSize, host, bugcheck>>

(* EvtDeviceSelfManagedIoSuspend: the reader is stopped between two events. *)
UnSubscribeBusEvents ==
  /\ power = "subscribed"
  /\ power' = "idle"
  /\ UNCHANGED <<bus, state, busSpeed, dev, told, hostSize, host, bugcheck>>

(* EvtDeviceReleaseHardware, UnInitializeDevice, on the device's removal.  *)
ReleaseHardware ==
  /\ power = "idle"
  /\ power' = "removed"
  /\ UNCHANGED <<bus, state, busSpeed, dev, told, hostSize, host, bugcheck>>

-----------------------------------------------------------------------------
(* BusEventNotificationRead, one action per event.                         *)

Attach ==
  /\ power = "subscribed" /\ bus = "detached"
  /\ bus' = "attached" /\ state' = "attached"
  /\ busSpeed' \in Speeds
  /\ UNCHANGED <<power, dev, told, hostSize, host, bugcheck>>

Configured ==
  /\ power = "subscribed" /\ bus \in {"attached", "default"}
  /\ bus' = "configured" /\ state' = "configured"
  /\ UNCHANGED <<power, busSpeed, dev, told, hostSize, host, bugcheck>>

(* A host that unconfigures, resets or detaches starts over with the       *)
(* device's defaults.                                                      *)
UnConfigured ==
  /\ power = "subscribed" /\ bus = "configured"
  /\ bus' = "attached" /\ state' = "attached"
  /\ Destroy
  /\ hostSize' = MaxSize
  /\ UNCHANGED <<power, busSpeed, host, bugcheck>>

Detach ==
  /\ power = "subscribed" /\ bus # "detached"
  /\ bus' = "detached" /\ state' = "detached"
  /\ Destroy
  /\ hostSize' = MaxSize
  /\ UNCHANGED <<power, busSpeed, host, bugcheck>>

(* Mutant: a reset is taken for a change of speed only. *)
ResetKeepsAdapter ==
  /\ power = "subscribed" /\ bus # "detached"
  /\ bus' = "default" /\ state' = "default"
  /\ busSpeed' \in Speeds
  /\ hostSize' = MaxSize
  /\ UNCHANGED <<power, dev, told, host, bugcheck>>

Reset ==
  /\ power = "subscribed" /\ bus # "detached"
  /\ bus' = "default" /\ state' = "default"
  /\ busSpeed' \in Speeds
  /\ Destroy
  /\ hostSize' = MaxSize
  /\ UNCHANGED <<power, host, bugcheck>>

(* Selecting setting 1 runs CreateAdapter, which asserts that there is no  *)
(* adapter yet; the connection is announced once the adapter is started.   *)
SelectData(d) ==
  IF HasAdapter(d)
    THEN bugcheck' = TRUE /\ UNCHANGED <<dev, told>>
    ELSE \E outcome \in Outcomes :
           /\ dev' = Created(d, outcome)
           /\ IF outcome = "ok" THEN Tell(TRUE) ELSE UNCHANGED told
           /\ UNCHANGED bugcheck

(* Mutant: selecting setting 0 only stops the data. *)
SelectNoDataKeepsAdapter(d) == dev' = d /\ UNCHANGED <<told, bugcheck>>

(* Selecting setting 0 runs DestroyAdapter. *)
SelectNoData(d) ==
  /\ dev' = Destroyed(d)
  /\ IF HasAdapter(d) THEN Tell(FALSE) ELSE UNCHANGED told
  /\ UNCHANGED bugcheck

(* Setting 0 starts a new negotiation with the host's defaults. A setting  *)
(* that is already selected is ignored.                                    *)
OnSetInterface(a) ==
  /\ IF state # "configured"
       THEN bugcheck' = TRUE /\ UNCHANGED <<dev, told>>
       ELSE IF dev.alt = a
         THEN UNCHANGED <<dev, told, bugcheck>>
         ELSE LET d == [dev EXCEPT !.alt = a] IN
              IF a = 1 THEN SelectData(d) ELSE SelectNoData(d)
  /\ hostSize' = IF a = 0 THEN MaxSize ELSE hostSize
  /\ UNCHANGED <<power, bus, state, busSpeed, host>>

SetInterface(a) == power = "subscribed" /\ bus = "configured" /\ OnSetInterface(a)

(* ProcessSetupPacket, SET_NTB_FORMAT: stalled unless setting 0 is         *)
(* selected. The format stays set even if the handshake then fails.        *)
OnSetNtbFormat(f) ==
  /\ bugcheck' = (state # "configured")
  /\ dev' = IF dev.alt = 0 THEN [dev EXCEPT !.use32 = f] ELSE dev
  /\ UNCHANGED <<power, bus, state, busSpeed, told, hostSize, host>>

SetNtbFormat(f) == power = "subscribed" /\ bus = "configured" /\ OnSetNtbFormat(f)

(* ProcessSetupPacket, SET_NTB_INPUT_SIZE, with the data stage received: a *)
(* size out of range is ignored; otherwise it is noted, and a live adapter *)
(* is destroyed and created again.                                         *)
Accepts(n) == MinSize <= n /\ n <= MaxSize

OnSetNtbInputSize(n) ==
  /\ LET noted == [dev EXCEPT !.size = n] IN
     IF ~Accepts(n)
       THEN UNCHANGED <<dev, told>>
       ELSE IF HasAdapter(dev)
         THEN \E outcome \in Outcomes :
                /\ dev' = Created(Destroyed(noted), outcome)
                /\ Tell(outcome = "ok")
         ELSE dev' = noted /\ UNCHANGED told
  /\ hostSize' = IF Accepts(n) THEN n ELSE hostSize
  /\ bugcheck' = (state # "configured")
  /\ UNCHANGED <<power, bus, state, busSpeed, host>>

(* An orderly host sends the request only between selecting setting 0 and  *)
(* selecting setting 1.                                                    *)
SetNtbInputSize(n) ==
  /\ power = "subscribed" /\ bus = "configured"
  /\ host = "orderly" => ~HasAdapter(dev) /\ Accepts(n)
  /\ OnSetNtbInputSize(n)

-----------------------------------------------------------------------------
Power == PrepareHardware \/ SubscribeBusEvents \/ UnSubscribeBusEvents \/ ReleaseHardware

BusEvent == Attach \/ Configured \/ UnConfigured \/ Detach \/ Reset

HostRequest ==
  \/ \E a \in {0, 1} : SetInterface(a)
  \/ \E f \in BOOLEAN : SetNtbFormat(f)
  \/ \E n \in Sizes : SetNtbInputSize(n)

Next == ~bugcheck /\ (Power \/ BusEvent \/ HostRequest)

Spec == Init /\ [][Next]_vars

-----------------------------------------------------------------------------
(* Properties.                                                             *)

AdapterType ==
  [up : BOOLEAN, use32 : BOOLEAN, size : Nat, speed : Speeds \cup {0}]

DevType == [alt : {0, 1}, adapter : AdapterType, use32 : BOOLEAN, size : Nat]

TypeOK ==
  /\ power \in {"out", "idle", "subscribed", "removed"}
  /\ bus \in {"detached", "attached", "default", "configured"}
  /\ state \in {"minimum", "detached", "attached", "default", "configured"}
  /\ busSpeed \in Speeds \cup {0}
  /\ dev \in DevType
  /\ told \in BOOLEAN /\ hostSize \in Nat
  /\ host \in {"orderly", "resizing"} /\ bugcheck \in BOOLEAN

(* No assertion fails for a host that leaves the block size alone while    *)
(* data flows, whatever order it selects settings, resets and reconfigures *)
(* in and whichever adapter creations fail: the device is configured when  *)
(* a class request comes and has no adapter when one is to be created.     *)
OrderlyHostNeverBugchecks == host = "orderly" => ~bugcheck

(* No block is longer than the host has room for: the adapter's limit      *)
(* never exceeds the input size the host last set in this session.         *)
NtbFitsHost == HasAdapter(dev) => dev.adapter.size <= hostSize

(* What GET_NTB_FORMAT and GET_NTB_INPUT_SIZE answer is what the adapter   *)
(* that produces the blocks was built with, it exists only with setting 1  *)
(* selected, and its blocks fit: after any number of sessions, failed      *)
(* creations and requests in odd places, as long as the host does not      *)
(* resize while data flows.                                                *)
OrderlyNegotiationHolds ==
  host = "orderly" /\ HasAdapter(dev) =>
    /\ dev.alt = 1
    /\ dev.adapter.use32 = dev.use32 /\ dev.adapter.size = dev.size
    /\ NtbFitsHost

(* An adapter exists only while the bus is configured, and one that is up  *)
(* reports the speed of the bus it is on: none survives a reset, a detach  *)
(* or a reconfiguration.                                                   *)
AdapterBelongsToSession ==
  HasAdapter(dev) => bus = "configured" /\ dev.adapter.speed = busSpeed

(* The host's last word about the network connection is the truth about    *)
(* the adapter, through failed creations and repeated teardowns.           *)
ToldMatchesAdapter == told = dev.adapter.up

-----------------------------------------------------------------------------
(* The inductive invariant behind the safety properties (FnDevice_proofs). *)

(* What every host keeps: events and m_State stay in step with the bus, an *)
(* adapter is of the running session, and nothing exists before the first  *)
(* event.                                                                  *)
SessionInv ==
  /\ bus = "configured" <=> state = "configured"
  /\ power = "out" => hostSize = MaxSize /\ bus = "detached"
  /\ AdapterBelongsToSession
  /\ ToldMatchesAdapter

(* What an orderly host keeps as well: the parameters the next adapter     *)
(* would be built with suit it, too.                                       *)
OrderlyInv ==
  host = "orderly" =>
    /\ ~bugcheck
    /\ dev.size <= hostSize /\ dev.size <= MaxSize
    /\ HasAdapter(dev) =>
         dev.alt = 1 /\ dev.adapter.use32 = dev.use32 /\ dev.adapter.size = dev.size

IInv == TypeOK /\ SessionInv /\ OrderlyInv

=============================================================================
