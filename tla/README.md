# Verification of the NCM driver

TLA+ models of the two Windows drivers in `src/`: the USB host driver and the USB function
driver of a network device of the NCM class, which share the `adapter` and `common`
libraries. TLC checks the models on small instances; TLAPS proves the safety of every part that
a passing run checks, for every value of the constants.

## The system

| part | state | operations | neighbours |
| --- | --- | --- | --- |
| transmit queue (`adapter/txqueue.cpp`) | packet ring, `m_NtbHandle`, `m_TxBufferRequestPool` | EvtCreateTxQueue, Start, Advance, Cancel, Stop | polled by NetAdapterCx; sends through the device's callbacks |
| receive queue (`adapter/rxqueue.*`) | `m_NotificationEnabled`, `m_RxBufferInProcessing`, RX_BUFFER_QUEUE | EvtCreateRxQueue, Start, Advance, SetNotificationEnabled, NotifyReceive, Cancel, Stop | fed by read completions on other threads |
| buffers (`common/buffers.cpp`) | list of 128 preallocated requests; queue of received buffers | create, get, return; enqueue, dequeue, return | shared by a queue and the completion routines |
| transfer block (`common/ntb.cpp`) | one block being built or parsed | CopyNextDatagram, SetNdp; PrepareToParse, GetNextNdp, GetNextDatagram | called by the two queues only |
| adapter (`adapter/adapter.cpp`) | queues, filters, link speed and state | create, destroy, NotifyReceive, NotifyTransmitCompletion, SetLinkState, SetLinkSpeed | between queues and device |
| function device (`function/device.cpp`) | `m_State`, `m_BusSpeed`, `m_AlternateInterfaceNumber`, `m_NetAdapter`, NTB parameters, `m_BulkInRundown` | bus events, class requests, CreateAdapter, DestroyAdapter, Start/Stop Receive/Transmit, TransmitFrames | USB function stack, DMF readers |
| host device (`host/device.cpp`) | pipes, `m_NetAdapter`, the function's NTB parameters | PrepareHardware, D0Entry, D0Exit, ReleaseHardware, SelectSetting, interrupt reads, TransmitFrames | USB host stack |
| ring iterators, MAC addresses (`inc/`) | none | Set, Advance; GetNextMACAddress, hex conversion | the queues; CreateAdapter |

What is hard here, and hard to reach with a test:

* **Threads.** NetAdapterCx runs Advance and Cancel of a queue one at a time, but read and
  write completions run on any thread at any moment, and share pool, receive queue and the
  notification flag with Advance. A completion routine dereferences the adapter and the queue,
  so stopping must wait for its last line.
* **Ownership.** A buffer is passed along without locks held: pool, Advance, bus, completion,
  pool. Every error path must give it back exactly once.
* **Sleeping.** Advance finds no block and the framework goes to sleep while a completion is
  queueing one.
* **Negotiation.** Setting 0 and 1 of the data interface, class requests, resets and failed
  adapter creations arrive in any order and leave parameters, adapter and what the host was
  told in step, or not.
* **Layout.** Alignment, tables and null entries at the last byte of a buffer; transfers that
  end early.

## Modules

| module | models | refers to |
| --- | --- | --- |
| `TxLedger` | what the transmit path promises: packets go back in order, nothing is issued after stopping began, stopping ends with nothing outstanding | abstract |
| `TxPath` | Advance, pool, TransmitFrames, completion, stop, of the function and of the host | implements `TxLedger` |
| `TxPath_proofs` | the theorems about `TxPath` | |
| `RxPath` | streaming reads, DataBulkOutPipeRead, RX_BUFFER_QUEUE, Advance, notification | |
| `RxPath_proofs` | the theorems about `RxPath` | |
| `FnDevice` | bus events, class requests, adapter creation and destruction | |
| `FnDevice_proofs` | the theorems about `FnDevice` | |
| `HostDevice` | the host's PnP and power callbacks, SelectSetting, interrupt reads; the bus it drives | uses `Mac` |
| `NcmLink`, `MCNcmLink` | both control planes over one bus: events, answers, notifications | `HostDevice`; takes the function's handlers from `FnDevice` and implements it |
| `NcmLink_proofs` | the theorems about `NcmLink` | uses those of `FnDevice_proofs` and `Mac_proofs` |
| `Rings` | packet and fragment ring of a queue, the iterators' Set, Cancel | |
| `Rings_proofs` | the theorems about `Rings` | |
| `Induction_proofs` | induction up to a number, functions defined by recursion, `FlattenSeq` | used by `Rings_proofs` |
| `Mac` | successor of an address, its string and back | |
| `Mac_proofs` | the theorems about `Mac` | |
| `Ntb`, `MCNtb` | building and parsing of one block; the sizes of the 16-bit class and a peer's blocks | |
| `Ntb_proofs` | the theorems about `Ntb` | |

**TxPath.** `device` is whose transmit path it is, chosen once; `queue` is the life of the NETPACKETQUEUE, `begin`, `end` and `it` the ring and
Advance's iterator (packets are numbered in the order the OS posts them), `pc` and `cur` the
place in Advance and its `bufferRequest`, `pool`, `inflight`, `first`, `count` the buffer
requests and what each block carries. A step of Advance ends where something another thread
uses is touched; so a completion may run, and its buffer be reused, between `WdfRequestSend`
and Advance's next line. `refs` is the rundown count of the function device, or the I/O
target's count of sent requests on the host, and StopTransmit returns only when it is 0.
`gate` says whether the rundown or the target lets a request through. `releasing` counts the
completion routines that have returned their buffer and not yet released. A send may fail
before the bus has the request at any time; a timeout, a cancellation and a success are one
action because the completion routine does not look at the status. The buffers' packets are
the OS's again as soon as they are copied; that a packet fits an empty block is assumed.

**RxPath.** Each of `Reads` goes idle, pending, enqueue, notify, signal as its completion
callback runs: the callback's steps are those other threads can see (the queue of blocks, the
exchanged flag, the call of the framework). Advance is a loop of steps over `cur`
(`m_RxBufferInProcessing`), `frames` (deliverable frames left in a block) and `free`
(fragments of the ring). `fw` is the polling framework: poll while there is progress, arm,
poll once more, sleep until signalled. An enqueue that finds no memory keeps the buffer for
ever (`leaked`). The reader's buffers are a fixed set; the code's look-aside list adds more
while there is memory.

**FnDevice.** One action per bus event and per class request that changes state; `dev` is the
record of the fields those handlers share, because SET_NTB_INPUT_SIZE runs DestroyAdapter and
CreateAdapter on the fields it has just set. CreateAdapter ends with no adapter, an adapter
that never started, or one that is up. `told` is the last connection status notification, and
`hostSize` the input size the host can count on. The host is *orderly* when it sizes blocks
only at setting 0, or *resizing*. A failed assertion sets `bugcheck`, after which nothing
happens.

**HostDevice.** `pc` is the place in PrepareHardware, D0Entry, D0Exit and ReleaseHardware,
`device` the fields of UsbNcmHostDevice and of its adapter; `Fail` is the early return that
every call of the start-up may take. A class request is a step to ask and a step to go on;
between them the function answers, or the device is unplugged. `wire` is the state of the bus,
`events` what the function has still to be told, `notes` the notifications nobody has read.
A device whose adapter is `dead` keeps it, as the code keeps the pointer: after a restart that
fails early it is deleted again.

**NcmLink.** The function takes the head of `events` with the handlers of `FnDevice` (an
instance whose host is orderly) and says in the same step what it announces. Notifications are
sent without a check, so any of them may be lost; `dropped` remembers that part of the last
announcement was. A class request is answered only if no bus event is behind it. The answer
"never" is what the host gets when the function's stack refuses the handshake after a data stage,
or the stall of `StallEndPoint0`: the function looks at neither and tries neither again. The host the function meets may be built with another
MAX_HOST_NTB_SIZE than this repository's, so that SET_NTB_INPUT_SIZE is sent, too. The
function stays in its working power state.

**Rings.** A packet has its fragments' place and count, a fragment its length; NetAdapterCx
posts between two calls of Advance, on the receive queue never more fragments than packets,
which the code relies on. A transmit Advance returns packets as often as it fills a block, a
receive Advance once. `PacketAfter` and `FragmentAfter` wrap an index; `IInv` is the inductive
invariant of the proofs.

**Mac.** The 48-bit number of an address is two halves of 24 bits.

**Ntb.** A block is its header and its tables; a datagram is where it is. `SizeNeeded` is the
space CopyNextDatagram checks for, `SetNdp` what is then written. `listed` keeps what the sender
packed, for comparison with `out`. Header and entries hold numbers of PTR_SIZE (`Pointer`,
`PtrLimit + 1` values), the table's UINT16 length is assumed to fit. The sender's buffer may be
longer than the pointers can say, as the host's is when a function reports such a
dwNtbOutMaxSize; a block that fills the range exactly has BlockLength 0. TransmitFrames asserts
that it has something to send, and WDF formats no request longer than the buffer, so such blocks
end at `SendRefused` (`Sendable`).

There are two receivers. Of either, any number of the block's bytes arrive (`received`). The
function passes that number on; the host passes the WDFMEMORY, so the parser gets the length of
the whole read buffer and whatever an earlier transfer left in it (`SizeGiven`, `Leftovers`).
`seen` is the tables the parser finds there: the block's as far as they arrived, the earlier
block's behind that. A header that arrived in part counts as the old one, a table header that did
as not found, an entry that did as the old entry or, where the earlier block had no table, as a
null entry; payload that happens to look like a table is left out. When the index runs past
the count and off the table, the code goes on reading and the model stops (`PastTable`).

`Conforms` says what a block of another implementation has to be: its tables are chained in any
order without a cycle, each but the first has an entry, each ends with a null entry, and
BlockLength is the length or is left open.

## Runs

| run | module, cfg | shows |
| --- | --- | --- |
| tx_path | TxPath, TxPath.cfg | types, OneOwner, QuietWhenStopped, PoolWholeWhenStopped, ReferencesBalance, FifoOnce, StopCompletes, PacketsComplete, ImplementsLedger for both devices, with three buffers, blocks of one or two packets and five packets |
| rx_path | RxPath, RxPath.cfg | OneOwner, QuietWhenStopped, SleepIsSafe, NoLostWakeup, StopCompletes with two reads, three buffers, blocks of up to two frames and one fragment per poll |
| rx_leak | RxPath, RxLeak.cfg | violation: blocks left in a deleted queue never go back to the reader |
| fn_device | FnDevice, FnDevice.cfg | no bugcheck and consistent negotiation for an orderly host; an adapter belongs to one bus session; the host was told the truth |
| fn_resize | FnDevice, FnResize.cfg | violation: resizing under a live adapter ends with the default size |
| ncm_link | MCNcmLink, NcmLink.cfg | DataAgrees, WorkingIsReady, LinkIsTrue, EndsDiffer, FormatOnlyAtSettingZero, ImplementsFnDevice, LinkComesUp, RequestsEnd for one host after the other, plugged, suspended, reset, restarted and unplugged at any moment |
| ncm_link_size | MCNcmLink, NcmLinkSize.cfg | violation: the block size of a host that went before setting 1 outlives it |
| rings | Rings, Rings.cfg | RingsAgree, CopyIsPrefix, ReturnedTogether on rings of 4 packets and 8 fragments |
| ntb | MCNtb, Ntb.cfg | Layout, RoundTrip and OnlyListed for blocks the driver builds and five of a peer's, cut at every byte, with both receivers and three contents of the host's read buffer |
| ntb_terminator | MCNtb, NtbTerminator.cfg | violation: a full block is one entry too long |
| ntb_empty_table | MCNtb, NtbEmptyTable.cfg | violation: an empty second table yields its null entry |
| ntb_cut_host | MCNtb, NtbCutHost.cfg | violation: the host gives out datagrams of a block that were never received |

The six violations are findings of `PROJECT.json`, each with the comment, message or document
it contradicts. What the passing runs leave out because of them: `fn_device` holds its negotiation
property to an orderly host; a block too long for its buffer is refused in `ntb` and never
received; OnlyListed holds the host's receiver to blocks that arrived whole. The peer's blocks of
`ntb` include one whose only table is empty, but none with an empty later table. DataAgrees says that
the function's blocks are no longer than the host's reads; that they may be shorter than the host
asked for is what `ncm_link_size` shows.

The models also do what the code does in these places, where no property claims better:

* The rate of a super-speed bus, 5 Gbit/s, does not fit the UINT32 of the notification
  (`function/device.cpp:423`), and its host is told 705 Mbit/s (`NotifiedRate`). LinkIsTrue
  compares the rates where the speed of the bus fits.
* A 16-bit block of exactly 0x10000 bytes has BlockLength 0 (`common/ntb.cpp:249`), which the
  senders assert against; a longer one is not what its header says. Both end at `SendRefused`.
* An open 16-bit block in a read buffer of 0x10000 bytes gets the limit 0 on the host
  (`common/ntb.cpp:317`) and is rejected. The read buffer of `ntb` is one that PTR_SIZE can express.
* A handshake after a data stage, or a stall, that the function's stack refuses leaves the host
  waiting until it is unplugged, for its requests have no timeout; RequestsEnd excepts these.
* A dropped announcement leaves the host with the old link until the next one; LinkIsTrue and
  LinkComesUp except it.
* A host device that is stopped, started again and fails before it creates an adapter deletes
  the dead one again (`host/device.cpp:244`).

Bounds. *Transmit:* three buffers let one be completed while another is on the bus and Advance
holds the third; the pool runs empty; five packets give blocks of every length and the drop of
the rest; the lives of the queue are unbounded. *Receive:* two reads make
completions race each other and Advance, the third buffer lets a block be queued while
another is half read; two frames against one fragment leave a block half read between two polls.
*Function:* two bus speeds, input sizes below, at and above the least accepted one.
*Link:* a high-speed and a super-speed bus, hosts that take all of the function's size or less,
two events queued when the bus or the host starts over (requests come on top), one unread
notification when the host suspends, the last address of the range and one that carries twice;
the number of hosts, suspends and restarts is unbounded. *Rings:* eight fragment slots hold a packet of up to
seven, split by the end of the ring in every way; both rings wrap without end.
*Blocks:* the sender of `ntb` has 140 bytes, up to four datagrams of 14, 17 or 23 bytes, and
pointers up to 95: they reach the capacity limit, the byte limit and every residue of the
alignment, and lengths wrap to 0 and past it. The host's read buffer has 95 bytes. The sender's
buffer has 95 bytes in `ntb_cut_host`, and 96 in the other two runs with a violation.

CHECK_DEADLOCK is FALSE only for the FnDevice runs, where a removed device and a bugcheck are ends.

Fairness. Advance is the framework's polling loop and every sent request carries a timeout,
so Advance and completions are weakly fair; a thread waiting in StopTransmit or StopAndWait
is woken when what it waits for is over; StopAndWait cancels pending reads, so those end.
Nothing is assumed of the OS posting packets, the host sending blocks, or anybody starting or
stopping a queue. In `ncm_link` the function's event handler, the host's start-up and its
interrupt reader are weakly fair, for nothing but the other side and the bus can hold them up;
plugging, suspending, resuming and restarting are not. Liveness is stated in `tx_path`,
`rx_path` and `ncm_link`.

## Proofs

`TxPath_proofs` proves, for both devices, every finite set of buffers, any block capacity and
any number of packets, the type invariant, OneOwner, QuietWhenStopped, PoolWholeWhenStopped,
ReferencesBalance, the action property FifoOnce, and that `TxPath` implements `TxLedger`.
The assumptions are those `TxPath` states on its constants; TLC evaluates them in `tx_path`.

None of these is inductive. The invariant `IInv` adds what they rest on. `ReferencesCounted`
equates `refs` with the requests on the bus, the routines still to release, and the one
Advance may hold, so that waiting for `refs = 0` is waiting for all of them; this is the heart
of QuietWhenStopped and of the refinement, where `outstanding` is counted without `refs`.
`PhaseInv` says where Advance can be in which phase of the queue (a new rundown starts only
when nothing holds the old one, a reference exists only on the function side before the
send). `RingInv` orders ring, iterator, the block being packed and the wire, and gives
FifoOnce. The proof that `IInv` is inductive has a lemma for each action that disturbs more than
one of its parts; Cardinality of `inflight` changes by one per send and completion, by the
library's facts on finite sets.

`FnDevice_proofs` proves the type invariant, AdapterBelongsToSession, ToldMatchesAdapter,
OrderlyHostNeverBugchecks and OrderlyNegotiationHolds, for every set of bus speeds and of
sizes a host may ask for. The only assumption is that the accepted range of sizes is not empty
and starts above 0. Its invariant `IInv` adds two things. `SessionInv` ties `m_State` to the bus, which keeps
the request handlers' assertion. `OrderlyInv` keeps, without an adapter too,
the size the next one would be built with below what the host can count on, and has
setting 1 selected whenever an adapter exists; so CreateAdapter never finds one. DestroyAdapter and
CreateAdapter each have a lemma on the fields they leave behind, and there is one lemma for each
group of actions. NtbFitsHost is violated for other hosts and has no theorem.

`RxPath_proofs` proves the type invariant, OneOwner, QuietWhenStopped and SleepIsSafe for any
reads, buffers, frames per block and ring size. SleepIsSafe looks at the sleeping framework
only; what keeps it is `WakeInv`: whoever clears the armed flag still has to signal, and a
block queued since the last look has a callback that has yet to read the flag. `ReadInv` says
which reads hold a buffer, `LifeInv` in which phase of the queue the reader streams and the
framework polls, `RoomInv` that a poll without progress has ring space left, so that it went
idle for want of blocks.

`Mac_proofs` proves for all 2^48 addresses that none is its own successor, that the successor
stays in the drivers' range across every carry and the wrap, that generated addresses are of the
range, and that the host reads from the string the address that was written.

`NcmLink_proofs` proves every safety property of `ncm_link` for any set of bus speeds, of hosts'
block sizes and of addresses, and any bounds of the queues. It assumes what `HostAssumption` and
`LinkAssumption` say: the sets are not empty where the code needs a value, speeds are indices of
g_UsbFnBusSpeed, the function accepts the hosts' sizes. The invariant `IInv` contains
`FnDevice`'s, whose proof is reused through an instance of `FnDevice_proofs`: Implementation says
that each step of the function is one of `FnDevice`'s with an orderly host, and that the host's
steps change nothing there. That needs to know what a request meets when it is taken, which is
not what the host sees when it sends it. `QueueInv` carries the knowledge along the queue: what
the head finds (`HeadInv`), what may follow what (`Follows`), where the host is after the last
(`LastInv`), and what holds when nothing is queued (`NoneLeftInv`). `Negotiation` says how far
format and size are agreed at each place of the start-up, `AnswerInv` that an answer belongs to
the request the host waits for, `DeviceInv` what the host's device holds in each power state, and
`NoteInv` that the unread notifications end with the truth, or the host has read it.

`Ntb_proofs` proves Layout for every size of header, table and entry, every alignment, buffer,
pointer width and list of packets, whatever the other end sends. Layout leaves the null entry
out, for which there may be no room (`ntb_terminator`). The type invariant, RoundTrip
and OnlyListed are proved for both receivers under the hypothesis `PeersConform`: every block
another implementation may send is one its sender lists truthfully (`Conforms`). Without it they are
false, which is what the run `ntb_empty_table` shows; `MCNtb` assumes it of all its peer's blocks but that
run's, and TLC evaluates that. RoundTrip also needs `ReadFits`, that the host's read buffer is no
longer than PTR_SIZE can say. Nothing is assumed of what is left in the read
buffer, but that it is some block. The driver's own blocks need no hypothesis: that they
conform, unless they are too long for the pointers, is a lemma (OwnBlock). The receiver reads
offsets out of the block itself, so its invariant,
`ParseInv`, has to say where in the sender's meaning the parser is: there is a chain of tables
(`Tables`), it is in one of them, and it has given out what is listed before that one and
up to its index in it. A block that was cut keeps a chain of which a beginning has arrived; on the
function, the scan for the null entry then finds the same count or rejects the table.

`Rings_proofs` proves the type invariant, RingsAgree, CopyIsPrefix and the action property
ReturnedTogether for rings of any size and all lengths of fragments. The invariant says that the
packets held are tiles of the fragments held (`Tiled`): packet k begins where `before[k]`
fragments end, and before[k + 1] is its count more. A post adds a tile at the end, Set takes those
passed off the front and shifts the rest, FillPacket makes a tile of one fragment out of the
packet it is at. All of this is arithmetic modulo the ring size, done once in lemmas about
slots and distances. `Held` keeps NetAdapterCx from reusing a slot the queue has.
CopyIsPrefix follows from the types alone: the copy after k fragments is the beginning of the
data of k fragments, as long as the room allows.

Those two results are inductions over the fragments of a packet and the packets of a ring. The
induction theorems of the library take a predicate as a parameter, which the provers cannot
instantiate. `Induction_proofs` has one for sets of numbers instead, from the library's fact that a
well-founded set has a minimal element; and from it, that a fold defined by recursion exists,
and that `FlattenSeq` is one. CopyPacketData and PacketDataLength are recursive functions, so
their values are those of any function that satisfies their equation: the proof exhibits it.

Before an invariant was proved, TLC checked it with the constants of its run (`IInv` of `Ntb` and of `Rings`
as well).

Only model-checked: the liveness properties StopCompletes, PacketsComplete, NoLostWakeup,
LinkComesUp and RequestsEnd, for fairness and ENABLED are out of the prover's reach. Properties
the code violates have no theorem, of course, but RoundTrip and OnlyListed under the hypotheses
above.

## Plan

1. Blocks sized by the negotiation of `NcmLink`, with a first datagram that may not fit; the
   receiver's later packets after a cut block.
2. `GetNextFrame`'s packet filter, against the filters the adapter advertises.
3. That TLC's instances of `TxPath` pack blocks as `Ntb` does: `TxPath` bounds a block by the number
   of its packets only.

## Not modelled

Frame bytes and statistics; the packet filter, which `RxPath` abstracts to how many frames of a
block are deliverable; class information, friendly name and descriptors, whose parsing succeeds
or fails; tracing, installation and build files; memory running out at queue creation, whose
result the code only logs. Of the host's bulk-in reads, `Ntb` has what reaches the parser, in memory
that WDF uses again; the framework's continuous reader around them has no model, and `RxPath` is
the function's path. The DMF library is a submodule that is not present: `RxPath` and `TxPath` use its contract, as they use that of WDF, NetAdapterCx and the USB stacks. That the framework
polls once after arming, waits for the completions in its stop calls and serialises a queue's
callbacks is taken from how the code relies on it. Therefore the gate is open whenever Advance
acquires the rundown in `TxPath`, and `RxPath` may see the queue empty and arm in one step
(`AdvanceEnd`). Taken from the code's reliance, too, is that the function's stack hands it
bus events and requests one at a time, in order.
