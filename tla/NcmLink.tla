------------------------------ MODULE NcmLink ------------------------------
(***************************************************************************)
(* The two control planes together: the host driver of HostDevice and the  *)
(* function driver of FnDevice, over the bus between them. The function    *)
(* takes the head of events with FnDevice's handlers, answers the class    *)
(* request the host waits for, and announces its adapter coming and going  *)
(* on the interrupt endpoint. The host side is one orderly host after the  *)
(* other, as FnDevice assumes (ImplementsFnDevice).                        *)
(*                                                                         *)
(* The function stays in its working power state once it has started.      *)
(***************************************************************************)
EXTENDS HostDevice

CONSTANTS
  Speeds,   \* bus speeds, indices of g_UsbFnBusSpeed
  MinSize,  \* 2048, the least input size the function accepts
  Macs      \* CdcMacAddress values the registry of the function can hold

ASSUME LinkAssumption ==
  /\ Speeds # {} /\ Speeds \subseteq 1 .. 4
  /\ MinSize \in Nat \ {0} /\ MinSize <= MaxSize
  /\ \A max \in HostMaxes : MinSize <= max
  /\ Macs \subseteq MacAddress

VARIABLES
  power, bus, state, busSpeed, dev, told, hostSize, bugcheck,  \* of FnDevice
  cdcMac                                                       \* m_CdcMacAddress

fnVars == <<power, bus, state, busSpeed, dev, told, hostSize, bugcheck, cdcMac>>
vars == <<hostVars, fnVars>>

Fn == INSTANCE FnDevice WITH host <- "orderly", Sizes <- HostMaxes

Init == HostInit /\ Fn!Init /\ cdcMac \in Macs

-----------------------------------------------------------------------------
(* Notifications.                                                          *)

(* g_UsbFnBusSpeed in Mbit/s; the last one is (UINT32) -1 bit/s.           *)
BusSpeed == <<12, 480, 5000, 4294>>

(* Mutant: the notification carries 64-bit rates. *)
NotifiedRateWide(speed) == BusSpeed[speed]

(* The notification carries the rate as a UINT32 in bit/s; 2^32 bit/s are  *)
(* 4295 Mbit/s.                                                            *)
NotifiedRate(speed) == BusSpeed[speed] % 4295

Note(kind, arg) == [kind |-> kind, arg |-> arg]

(* Mutant: the status is sent before the speed. *)
ConnectedStatusFirst(speed) == <<Note("up", 0), Note("speed", NotifiedRate(speed))>>

(* NotifyConnectionSpeedAndStatusChange, connected. *)
Connected(speed) == <<Note("speed", NotifiedRate(speed)), Note("up", 0)>>

(* What the handler of the step announces: DestroyAdapter the lost         *)
(* connection, CreateAdapter the new one.                                  *)
LostNotes ==
  IF dev'.adapter # dev.adapter /\ Fn!HasAdapter(dev) THEN <<Note("down", 0)>> ELSE <<>>
NewNotes ==
  IF dev'.adapter # dev.adapter /\ dev'.adapter.up THEN Connected(dev'.adapter.speed) ELSE <<>>

(* What can be left of one or two notifications. *)
Parts(sent) == {<<>>, sent} \cup {<<sent[i]>> : i \in DOMAIN sent}

(* InterruptHost is asynchronous and unchecked: no memory, a request that  *)
(* is refused, or a transfer that the bus ends, and that notification is   *)
(* gone. On a bus that is no longer configured they wait for the next host.*)
Announce ==
  \E lost \in Parts(LostNotes), new \in Parts(NewNotes) :
    /\ notes' = notes \o lost \o new
    /\ dropped' = IF LostNotes \o NewNotes = <<>> THEN dropped
                  ELSE lost # LostNotes \/ new # NewNotes

-----------------------------------------------------------------------------
(* The function.                                                           *)

StartFunction ==
  /\ Fn!PrepareHardware \/ Fn!SubscribeBusEvents
  /\ UNCHANGED <<hostVars, cdcMac>>

Takes(kind) ==
  /\ power = "subscribed" /\ ~bugcheck
  /\ events # <<>> /\ Head(events).kind = kind
  /\ events' = Tail(events)
  /\ UNCHANGED <<pc, resume, device, wire, cdcMac>>

HandleBusEvent ==
  /\ \/ Takes("attach") /\ Fn!Attach
     \/ Takes("configured") /\ Fn!Configured
     \/ Takes("unconfigured") /\ Fn!UnConfigured
     \/ Takes("detach") /\ Fn!Detach
     \/ Takes("reset") /\ Fn!Reset
  /\ Announce /\ UNCHANGED answer

HandleSetInterface ==
  /\ Takes("setInterface")
  /\ Fn!OnSetInterface(Head(events).arg)
  /\ Announce /\ UNCHANGED answer

(* The status stage reaches the host if it still waits, and it does unless *)
(* a bus event is on its way.                                              *)
Answer(a) == answer' = IF Tail(events) = <<>> THEN a ELSE answer

(* Nobody looks whether the stack gives StallEndPoint0 its request, or     *)
(* takes it: then the host's request is left without an answer.            *)
StallEndPoint0 == Answer("stall") \/ Answer("never")

(* WriteToEndPoint0: the handshake after a data stage goes unchecked.      *)
HandleGetNtbParameters ==
  /\ Takes("getNtbParameters")
  /\ bugcheck' = (state # "configured")
  /\ Answer("ok") \/ Answer("never") \/ StallEndPoint0
  /\ UNCHANGED <<power, bus, state, busSpeed, dev, told, hostSize, notes, dropped>>

(* Mutant: stallEp0 is cleared before the handshake is sent, so that one   *)
(* that fails is not followed by a stall.                                  *)
HandleSetNtbFormatUnstalled ==
  /\ Takes("setNtbFormat")
  /\ Fn!OnSetNtbFormat(Head(events).arg = 1)
  /\ IF dev.alt = 0 THEN Answer("ok") \/ UNCHANGED answer ELSE StallEndPoint0
  /\ UNCHANGED <<notes, dropped>>

(* A handshake that fails is followed by a stall.                          *)
HandleSetNtbFormat ==
  /\ Takes("setNtbFormat")
  /\ Fn!OnSetNtbFormat(Head(events).arg = 1)
  /\ StallEndPoint0 \/ (dev.alt = 0 /\ Answer("ok"))
  /\ UNCHANGED <<notes, dropped>>

(* ReadFromEndPoint0 fails and nothing changes, or the handshake is out    *)
(* (or has failed unnoticed) and the size is looked at.                    *)
HandleSetNtbInputSize ==
  /\ Takes("setNtbInputSize")
  /\ \/ /\ bugcheck' = (state # "configured")
        /\ StallEndPoint0
        /\ UNCHANGED <<power, bus, state, busSpeed, dev, told, hostSize, notes, dropped>>
     \/ /\ Fn!OnSetNtbInputSize(Head(events).arg)
        /\ Announce
        /\ Answer("ok") \/ Answer("never")

FunctionStep ==
  \/ StartFunction \/ HandleBusEvent \/ HandleSetInterface
  \/ HandleGetNtbParameters \/ HandleSetNtbFormat \/ HandleSetNtbInputSize

-----------------------------------------------------------------------------
(* The string RegisterCdcMacString left with the function's stack.         *)
MacString == BytesToHexString(cdcMac)

HostDriver == HostStep(MacString) /\ UNCHANGED fnVars
InterruptReader == ReadNotification /\ UNCHANGED fnVars
HostEnvironment == Environment /\ UNCHANGED fnVars

Next == FunctionStep \/ HostDriver \/ InterruptReader \/ HostEnvironment

(* The drivers and the controllers they wait for run; nobody has to plug,  *)
(* suspend, resume or restart anything.                                    *)
Fairness == WF_vars(FunctionStep) /\ WF_vars(HostDriver) /\ WF_vars(InterruptReader)

Spec == Init /\ [][Next]_vars /\ Fairness

-----------------------------------------------------------------------------
(* Properties.                                                             *)

Rates == {0, 12, 480, 705, 4294}

EventType ==
  [kind : {"attach", "configured", "unconfigured", "detach", "reset", "getNtbParameters"},
   arg : {0}]
    \cup [kind : {"setInterface"}, arg : {0, 1}]
    \cup [kind : {"setNtbFormat"}, arg : {1}]
    \cup [kind : {"setNtbInputSize"}, arg : {n \in HostMaxes : Fn!Accepts(n)}]

NoteType == [kind : {"speed", "up", "down"}, arg : Rates]

DeviceType ==
  [adapter : {"none", "live", "dead"}, pipes : {"none", "current", "stale"},
   use32 : BOOLEAN, inSize : HostMaxes \cup {0, MaxSize}, maxSize : HostMaxes,
   mac : Macs \cup {<<0, 0, 0, 0, 0, 0>>}, link : {"unknown", "up", "down"},
   linkRate : Rates, rate : Rates]

(* Every field has its type: a rate in a notification fits its UINT32, and *)
(* the host asks for no block size the function does not accept.           *)
TypeOK ==
  /\ pc \in {"absent", "added", "getParameters", "settingZero", "setFormat", "setSize",
             "settingOne", "retrievePipes", "createAdapter", "startReader", "working", "low",
             "failed", "stopped", "ended"} \cup Asked
  /\ resume \in BOOLEAN /\ dropped \in BOOLEAN
  /\ device \in DeviceType
  /\ wire \in {"unplugged", "default", "configured"}
  /\ events \in Seq(EventType) /\ notes \in Seq(NoteType)
  /\ answer \in {"none", "ok", "stall", "never"}
  /\ cdcMac \in Macs

(* The two drivers have nothing left to tell each other. *)
Settled == pc = "working" /\ wire = "configured" /\ events = <<>> /\ notes = <<>>

(* Whatever was left over from earlier hosts, failed negotiations, resets  *)
(* and resumes, when a host works and the function has an adapter, that    *)
(* adapter builds blocks in the format the host parses and no longer than  *)
(* the reads the host has pending.                                         *)
DataAgrees ==
  Settled /\ dev.adapter.up =>
    dev.adapter.use32 = device.use32 /\ dev.adapter.size <= device.inSize

(* A host asks for a block size only if it wants less than the function    *)
(* offers, for selecting setting 0 resets the function (the comments in    *)
(* SelectSetting and EnterWorkingState): the function uses the host's size *)
(* and not a smaller one that another host has left.                       *)
SizeAgrees == Settled /\ dev.adapter.up => dev.adapter.size = device.inSize

(* Data callbacks come only while the host works, and then the adapter     *)
(* they use exists and the pipes they start are those of the setting that  *)
(* was selected last.                                                      *)
WorkingIsReady == pc = "working" => device.adapter = "live" /\ device.pipes = "current"

(* Once both are done, and unless part of the function's last announcement *)
(* was dropped, the host's link is up exactly if the function's adapter    *)
(* is, and at the speed of the bus wherever that speed fits the UINT32 of  *)
(* the notification: a bus of 5 Gbit/s is told as one of 705 Mbit/s. A     *)
(* later announcement heals an earlier one that was lost.                  *)
LinkIsTrue ==
  Settled /\ ~dropped =>
    /\ dev.adapter.up <=> device.link = "up"
    /\ dev.adapter.up /\ BusSpeed[busSpeed] < 4295 => device.linkRate = BusSpeed[busSpeed]

(* The host's adapter has the address the function registered, and the     *)
(* function's own adapter another one, which like it is a unicast and      *)
(* locally administered address of the range.                              *)
EndsDiffer ==
  pc = "working" =>
    LET own == NextMACAddress(cdcMac) IN
    /\ device.mac = cdcMac /\ own # device.mac
    /\ InRange(cdcMac) => InRange(own) /\ IsUnicast(own) /\ IsLocal(own)

(* SET_NTB_FORMAT reaches the function only while data setting 0 is        *)
(* selected (the comment in SelectSetting), although failed creations      *)
(* leave setting 1 selected across resets.                                 *)
FormatOnlyAtSettingZero ==
  events # <<>> /\ Head(events).kind = "setNtbFormat" /\ bus = "configured" => dev.alt = 0

(* Seen from the function, this host driver over this bus is an orderly    *)
(* host: every step is one of FnDevice's, with its guards, or changes      *)
(* nothing there. FnDevice's theorems hold of this system.                 *)
ImplementsFnDevice == Fn!Init /\ [][Fn!Next]_(Fn!vars)

(* A host that works learns of a function adapter that is up, unless the   *)
(* announcement is dropped, the adapter goes again or the host stops       *)
(* working first: after a start and after every resume.                    *)
LinkComesUp ==
  (pc = "working" /\ dev.adapter.up /\ ~dropped) ~>
    (device.link = "up" \/ pc # "working" \/ ~dev.adapter.up \/ dropped)

(* A class request ends, by an answer or by the unplugging, except where   *)
(* the function's stack refused its handshake after a data stage or its    *)
(* stall: nobody looks, nobody tries again, and the host has no timeout.   *)
RequestsEnd == (pc \in Asked) ~> (pc \notin Asked \/ answer = "never")

-----------------------------------------------------------------------------
(* The inductive invariant behind the safety properties (NcmLink_proofs).  *)

ClassRequests == {"getNtbParameters", "setNtbFormat", "setNtbInputSize"}

OfSession(e) == e.kind \in ClassRequests \cup {"setInterface", "configured"}

(* No request was queued behind the end of its session; a format follows   *)
(* the selection of setting 0, a size comes after everything was answered. *)
Follows(before, e) ==
  /\ e.kind \in ClassRequests \cup {"setInterface"} => OfSession(before)
  /\ e.kind = "setNtbFormat" => before = Event("setInterface", 0)
  /\ e.kind # "setNtbInputSize"

(* What the function meets the next event with. *)
HeadInv(e) ==
  /\ e.kind \in ClassRequests \cup {"setInterface"} => bus = "configured"
  /\ e.kind = "setNtbFormat" => dev.alt = 0
  /\ e.kind = "setNtbInputSize" => ~Fn!HasAdapter(dev)

RequestOf(at) ==
  CASE at = "parametersAsked" -> "getNtbParameters"
    [] at = "formatAsked"     -> "setNtbFormat"
    [] at = "sizeAsked"       -> "setNtbInputSize"

(* Where the host is when it has queued an event last. *)
LastInv(e) ==
  /\ wire = "configured" => OfSession(e)
  /\ wire = "configured" /\ pc = "setFormat" => e = Event("setInterface", 0)
  /\ wire = "configured" /\ pc \in Asked => e.kind = RequestOf(pc) /\ answer = "none"
  /\ e.kind \in ClassRequests => wire = "configured" /\ pc \in Asked

NoneLeftInv ==
  /\ wire = "configured" => bus = "configured"
  /\ wire = "configured" /\ pc = "setFormat" => dev.alt = 0
  /\ wire = "configured" /\ pc \in Asked => answer # "none"

QueueInv ==
  /\ \A i \in 2 .. Len(events) : Follows(events[i - 1], events[i])
  /\ events # <<>> => HeadInv(events[1]) /\ LastInv(events[Len(events)])
  /\ events = <<>> => NoneLeftInv

AnswerInv == answer # "none" => wire = "configured" /\ pc \in Asked /\ events = <<>>

Starting == {"absent", "added", "getParameters", "parametersAsked", "stopped", "ended"}

(* The negotiation, as far as the host has come. *)
Ready == ~Fn!HasAdapter(dev) /\ dev.use32

Built == dev.adapter.up => dev.adapter.use32 /\ dev.adapter.size <= device.inSize

Negotiation ==
  /\ pc \notin Starting \cup {"failed"} => device.use32 /\ device.inSize # 0
  /\ pc \in {"setSize", "sizeAsked"} => device.inSize < MaxSize
  /\ pc = "formatAsked" /\ answer = "ok" => Ready
  /\ pc \in {"setSize", "settingOne"} /\ wire = "configured" => events = <<>> /\ Ready
  /\ pc = "sizeAsked" /\ wire = "configured" => Ready
  /\ pc = "sizeAsked" /\ events # <<>> =>
       LET last == events[Len(events)] IN
       last.kind = "setNtbInputSize" => last = Event("setNtbInputSize", device.inSize)
  /\ (pc = "sizeAsked" /\ answer = "ok") \/ (pc = "settingOne" /\ wire = "configured") =>
       dev.size <= device.inSize
  /\ pc \in {"retrievePipes", "createAdapter", "startReader", "working"}
       /\ wire = "configured" =>
       \/ /\ events = <<Event("setInterface", 1)>>
          /\ Ready /\ dev.size <= device.inSize
       \/ events = <<>> /\ Built

(* A WDFDEVICE that has been in its working state.                         *)
Started == resume \/ pc \in {"startReader", "working", "low"}

DeviceInv ==
  /\ pc \notin Starting \cup {"failed"} => device.mac = cdcMac
  /\ pc \in {"getParameters", "parametersAsked"} => device.mac = cdcMac
  /\ pc \in {"createAdapter", "startReader", "working"} => device.pipes = "current"
  /\ resume => pc \notin Starting \cup {"createAdapter"}
  /\ Started => device.adapter = "live"

(* The unread notifications end with the truth, or have been read.         *)
NoteInv ==
  /\ notes # <<>> => notes[Len(notes)].kind = IF dev.adapter.up THEN "up" ELSE "down"
  /\ Len(notes) > 1 /\ dev.adapter.up =>
       notes[Len(notes) - 1] = Note("speed", NotifiedRate(busSpeed))
  /\ Len(notes) = 1 /\ dev.adapter.up /\ Started => device.rate = NotifiedRate(busSpeed)
  /\ Len(notes) < 2 /\ pc \in {"retrievePipes", "createAdapter"} /\ ~resume =>
       ~dev.adapter.up
  /\ notes = <<>> /\ Started =>
       /\ dev.adapter.up <=> device.link = "up"
       /\ dev.adapter.up => device.linkRate = NotifiedRate(busSpeed)

IInv ==
  /\ TypeOK /\ Fn!IInv
  /\ bus # "detached" => busSpeed \in Speeds
  /\ QueueInv /\ AnswerInv /\ Negotiation /\ DeviceInv
  /\ ~dropped => NoteInv

=============================================================================
