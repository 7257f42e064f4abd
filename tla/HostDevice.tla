----------------------------- MODULE HostDevice -----------------------------
(***************************************************************************)
(* The control plane of the host driver (host/device.cpp, host/driver.cpp) *)
(* and of the USB bus it drives: PrepareHardware selects the configuration *)
(* and negotiates, D0Entry and D0Exit start and stop the interrupt reads,  *)
(* a resume from low power negotiates again, ReleaseHardware deletes the   *)
(* network adapter.                                                        *)
(*                                                                         *)
(* Class requests are synchronous and have no timeout; the stack of the    *)
(* function acknowledges SET_INTERFACE by itself. Requests and bus events  *)
(* reach the function driver in the order of events, its answer to the     *)
(* request the host waits for is answer, and its notifications wait in     *)
(* notes until the interrupt reader takes them. What the function does     *)
(* with them is in NcmLink.                                                *)
(***************************************************************************)
EXTENDS Mac

CONSTANTS
  MaxSize,    \* dwNtbInMaxSize, what the function reports
  HostMaxes,  \* MAX_HOST_NTB_SIZE of the hosts that can be plugged in
  MaxEvents,  \* bound on the queued events when the bus or the host starts over
  MaxNotes    \* bound on the unread notifications when the host suspends

ASSUME HostAssumption ==
  /\ MaxSize \in Nat /\ HostMaxes # {} /\ HostMaxes \subseteq Nat
  /\ MaxEvents \in Nat /\ MaxNotes \in Nat

VARIABLES
  pc,       \* the next step of the driver's PnP and power callbacks
  resume,   \* this power-up is not the first: previousState # D3Final
  device,   \* the fields of UsbNcmHostDevice and of its NcmAdapter
  wire,     \* the bus: "unplugged", "default" or "configured"
  events,   \* bus events and requests the function has not handled
  answer,   \* to the class request: "none", "ok", "stall", or "never"
  notes,    \* notifications the host has not read
  dropped   \* part of the function's last announcement will not be read

hostVars == <<pc, resume, device, wire, events, answer, notes, dropped>>

(* m_NetAdapter is "none", "live", or "dead" once the adapter is deleted.  *)
NewDevice(max) ==
  [adapter |-> "none", pipes |-> "none", use32 |-> FALSE, inSize |-> 0, maxSize |-> max,
   mac |-> <<0, 0, 0, 0, 0, 0>>, link |-> "unknown", linkRate |-> 0, rate |-> 0]

HostInit ==
  /\ pc = "absent" /\ resume = FALSE
  /\ \E max \in HostMaxes : device = NewDevice(max)
  /\ wire = "unplugged"
  /\ events = <<>> /\ answer = "none" /\ notes = <<>> /\ dropped = FALSE

Event(kind, arg) == [kind |-> kind, arg |-> arg]

Queue(kind) == events' = Append(events, Event(kind, 0))

(* A bus event ends every transfer, the unread notifications among them.   *)
EndTransfers ==
  /\ answer' = "none" /\ notes' = <<>>
  /\ dropped' = (dropped \/ notes # <<>>)

Roomy == Len(events) < MaxEvents

-----------------------------------------------------------------------------
(* The bus.                                                                *)

(* A host is plugged in and loads the driver: UsbNcmHostEvtDeviceAdd.      *)
Plug(max) ==
  /\ pc = "absent" /\ wire = "unplugged" /\ Roomy
  /\ wire' = "default" /\ Queue("attach")
  /\ device' = NewDevice(max)
  /\ pc' = "added"
  /\ UNCHANGED <<resume, answer, notes, dropped>>

Unplug ==
  /\ wire # "unplugged" /\ Roomy
  /\ wire' = "unplugged" /\ Queue("detach") /\ EndTransfers
  /\ UNCHANGED <<pc, resume, device>>

-----------------------------------------------------------------------------
(* InitializeDevice. Every call of it and of EnterWorkingState can fail:   *)
(* Fail stands for the early return.                                       *)

Fail ==
  /\ pc \in {"added", "getParameters", "settingZero", "setFormat", "setSize",
             "settingOne", "retrievePipes", "createAdapter", "startReader"}
  /\ pc' = "failed"
  /\ UNCHANGED <<resume, device, wire, events, answer, notes, dropped>>

(* SelectConfiguration up to the MAC string: both interfaces to setting 0. *)
SelectConfiguration(string) ==
  /\ pc = "added" /\ wire = "default"
  /\ wire' = "configured" /\ Queue("configured")
  /\ IF IsHexString(string)
       THEN device' = [device EXCEPT !.mac = HexStringToBytes(string)] /\ pc' = "getParameters"
       ELSE pc' = "failed" /\ UNCHANGED device
  /\ UNCHANGED <<resume, answer, notes, dropped>>

(* RequestClassSpecificControlTransfer: the request goes out and the       *)
(* driver waits.                                                           *)
Request(at, kind, arg, waiting) ==
  /\ pc = at /\ wire = "configured"
  /\ events' = Append(events, Event(kind, arg))
  /\ pc' = waiting
  /\ UNCHANGED <<resume, device, wire, answer, notes, dropped>>

Asked == {"parametersAsked", "formatAsked", "sizeAsked"}

Answered(waiting, next) ==
  /\ pc = waiting /\ answer \in {"ok", "stall"}
  /\ pc' = IF answer = "ok" THEN next ELSE "failed"
  /\ answer' = "none"
  /\ UNCHANGED <<resume, wire, events, notes, dropped>>

(* The transfer ends with the unplugging, and with nothing else.           *)
Abort ==
  /\ pc \in Asked /\ wire = "unplugged"
  /\ pc' = "failed"
  /\ UNCHANGED <<resume, device, wire, events, answer, notes, dropped>>

GetNtbParameters == Request("getParameters", "getNtbParameters", 0, "parametersAsked")

(* The function reports both formats, so 32-bit blocks are used.           *)
ParametersAnswered ==
  /\ Answered("parametersAsked", "settingZero")
  /\ device' = IF answer # "ok" THEN device
       ELSE [device EXCEPT !.use32 = TRUE,
                           !.inSize = IF MaxSize < device.maxSize THEN MaxSize ELSE device.maxSize]

-----------------------------------------------------------------------------
(* SelectSetting. A setting that is selected takes new pipes with it.      *)

SelectDataSetting(at, setting, next) ==
  /\ pc = at /\ wire = "configured"
  /\ events' = Append(events, Event("setInterface", setting))
  /\ device' = [device EXCEPT !.pipes = IF @ = "current" THEN "stale" ELSE @]
  /\ pc' = next
  /\ UNCHANGED <<resume, wire, answer, notes, dropped>>

(* Mutant: a resume goes on with the setting it left. *)
SettingZeroFirstOnly ==
  IF resume
    THEN /\ pc = "settingZero" /\ pc' = "setFormat"
         /\ UNCHANGED <<resume, device, wire, events, answer, notes, dropped>>
    ELSE SelectDataSetting("settingZero", 0, "setFormat")

SettingZero == SelectDataSetting("settingZero", 0, "setFormat")

SetNtbFormat == device.use32 /\ Request("setFormat", "setNtbFormat", 1, "formatAsked")

(* Mutant: setting 1 is selected before the size is sent. *)
FormatAnsweredSwapped ==
  /\ pc = "formatAsked" /\ answer \in {"ok", "stall"}
  /\ answer' = "none"
  /\ IF answer = "ok" /\ device.inSize < MaxSize
       THEN pc' = "setSize" /\ events' = Append(events, Event("setInterface", 1))
       ELSE pc' = "settingOne" /\ UNCHANGED events
  /\ UNCHANGED <<resume, device, wire, notes, dropped>>

(* Mutant: the size the host chose is not sent on. *)
FormatAnsweredNoSize == Answered("formatAsked", "settingOne") /\ UNCHANGED device

(* SET_NTB_INPUT_SIZE is sent only to a function that offers more.         *)
FormatAnswered ==
  /\ Answered("formatAsked", IF device.inSize < MaxSize THEN "setSize" ELSE "settingOne")
  /\ UNCHANGED device

SetNtbInputSize == Request("setSize", "setNtbInputSize", device.inSize, "sizeAsked")

SizeAnswered == Answered("sizeAsked", "settingOne") /\ UNCHANGED device

SettingOne == SelectDataSetting("settingOne", 1, "retrievePipes")

(* Mutant: the pipes are looked up when the device starts only. *)
RetrieveDataBulkPipesOnce ==
  /\ pc = "retrievePipes"
  /\ device' = IF resume THEN device ELSE [device EXCEPT !.pipes = "current"]
  /\ pc' = IF resume THEN "startReader" ELSE "createAdapter"
  /\ UNCHANGED <<resume, wire, events, answer, notes, dropped>>

RetrieveDataBulkPipes ==
  /\ pc = "retrievePipes"
  /\ device' = [device EXCEPT !.pipes = "current"]
  /\ pc' = IF resume THEN "startReader" ELSE "createAdapter"
  /\ UNCHANGED <<resume, wire, events, answer, notes, dropped>>

-----------------------------------------------------------------------------
(* CreateAdapter: UsbNcmAdapterCreate clears the handle first; a failure   *)
(* of NetAdapterStart leaves it set. The new adapter's link is unknown.    *)
CreateAdapter ==
  /\ pc = "createAdapter"
  /\ \E outcome \in {"none", "unstarted", "ok"} :
       /\ device' = [device EXCEPT !.adapter = IF outcome = "none" THEN "none" ELSE "live",
                                   !.link = "unknown", !.linkRate = 0, !.rate = 0]
       /\ pc' = IF outcome = "ok" THEN "startReader" ELSE "failed"
  /\ UNCHANGED <<resume, wire, events, answer, notes, dropped>>

(* The end of EnterWorkingState: the interrupt pipe is started.            *)
StartReader ==
  /\ pc = "startReader"
  /\ pc' = "working"
  /\ UNCHANGED <<resume, device, wire, events, answer, notes, dropped>>

(* Mutant: only a link that is unknown is brought up. *)
AppliedOnce(note) ==
  CASE note.kind = "speed" -> [device EXCEPT !.rate = note.arg]
    [] note.kind = "up"    -> IF device.link # "unknown" THEN device
                              ELSE [device EXCEPT !.link = "up", !.linkRate = device.rate]
    [] note.kind = "down"  -> [device EXCEPT !.link = "down", !.linkRate = 0]

(* ControlInterruptPipeReadCompletetionRoutine: a speed is remembered and  *)
(* becomes the link's when a status says that it is up.                    *)
Applied(note) ==
  CASE note.kind = "speed" -> [device EXCEPT !.rate = note.arg]
    [] note.kind = "up"    -> [device EXCEPT !.link = "up", !.linkRate = device.rate]
    [] note.kind = "down"  -> [device EXCEPT !.link = "down", !.linkRate = 0]

ReadNotification ==
  /\ pc = "working" /\ notes # <<>>
  /\ device' = Applied(Head(notes))
  /\ notes' = Tail(notes)
  /\ UNCHANGED <<pc, resume, wire, events, answer, dropped>>

(* LeaveWorkingState, on D0Exit. *)
LeaveWorkingState ==
  /\ pc = "working" /\ Len(notes) <= MaxNotes
  /\ pc' = "low"
  /\ UNCHANGED <<resume, device, wire, events, answer, notes, dropped>>

(* EnterWorkingState from low power: SelectSetting, RetrieveDataBulkPipes. *)
EnterWorkingState ==
  /\ pc = "low" /\ wire = "configured"
  /\ pc' = "settingZero" /\ resume' = TRUE
  /\ UNCHANGED <<device, wire, events, answer, notes, dropped>>

(* A bus that lost power in the meantime is reset and configured anew      *)
(* before the driver hears of it.                                          *)
ResetOnResume ==
  /\ pc = "low" /\ wire = "configured" /\ Roomy
  /\ pc' = "settingZero" /\ resume' = TRUE
  /\ events' = Append(Append(events, Event("reset", 0)), Event("configured", 0))
  /\ EndTransfers
  /\ UNCHANGED <<device, wire>>

-----------------------------------------------------------------------------
(* ReleaseHardware: DestroyAdapter leaves m_NetAdapter as it is. A device  *)
(* that still is configured is deconfigured behind the driver.             *)
ReleaseHardware ==
  /\ pc \in {"failed", "low"} /\ Roomy
  /\ device' = IF device.adapter = "none" THEN device
       ELSE [device EXCEPT !.adapter = "dead"]
  /\ pc' = IF pc = "low" THEN "stopped" ELSE "ended"
  /\ resume' = FALSE
  /\ IF wire = "configured"
       THEN wire' = "default" /\ Queue("unconfigured") /\ EndTransfers
       ELSE UNCHANGED <<wire, events, answer, notes, dropped>>

(* The same WDFDEVICE is started again after a stop. *)
Restart ==
  /\ pc = "stopped" /\ wire = "default"
  /\ pc' = "added"
  /\ UNCHANGED <<resume, device, wire, events, answer, notes, dropped>>

(* The WDFDEVICE is deleted; a device that is plugged in still is reset    *)
(* and enumerated again.                                                   *)
Remove ==
  /\ pc \in {"stopped", "ended"} /\ Roomy
  /\ IF wire = "unplugged"
       THEN pc' = "absent" /\ UNCHANGED <<wire, events>>
       ELSE pc' = "added" /\ wire' = "default" /\ Queue("reset")
  /\ device' = NewDevice(device.maxSize)
  /\ UNCHANGED <<resume, answer, notes, dropped>>

-----------------------------------------------------------------------------
(* SelectSetting and RetrieveDataBulkPipes, for the first power-up and for *)
(* every resume.                                                           *)
SelectSetting ==
  \/ SettingZero \/ SetNtbFormat \/ FormatAnswered \/ SetNtbInputSize \/ SizeAnswered
  \/ SettingOne \/ RetrieveDataBulkPipes

InitializeDevice(string) ==
  SelectConfiguration(string) \/ GetNtbParameters \/ ParametersAnswered \/ SelectSetting

(* What the driver does without waiting for a user. *)
HostStep(string) ==
  InitializeDevice(string) \/ CreateAdapter \/ StartReader \/ Fail \/ Abort

Environment ==
  \/ \E max \in HostMaxes : Plug(max)
  \/ Unplug \/ LeaveWorkingState \/ EnterWorkingState \/ ResetOnResume
  \/ ReleaseHardware \/ Restart \/ Remove

=============================================================================
