------------------------------ MODULE TxLedger ------------------------------
(***************************************************************************)
(* What the transmit path promises to its two neighbours, NetAdapterCx     *)
(* above it and the deletion of the queue beside it: packets the OS posts  *)
(* are given back in order, operations are issued to the bus only while    *)
(* the queue runs, and stopping takes effect only when no operation is     *)
(* outstanding. There is no pool, no rundown and no Advance here.          *)
(***************************************************************************)
EXTENDS Integers

VARIABLES
  phase,        \* life of the queue
  done,         \* packets before this number were given back to the OS
  posted,       \* packets before this number were posted by the OS
  outstanding   \* operations issued to the bus and not completely over

vars == <<phase, done, posted, outstanding>>

Init ==
  /\ phase = "none"
  /\ done = 1 /\ posted = 1
  /\ outstanding = 0

Move(from, to) == phase \in from /\ phase' = to

Create == Move({"none"}, "created") /\ UNCHANGED <<done, posted, outstanding>>

Start ==
  /\ Move({"created", "stopped"}, "running")
  /\ outstanding = 0
  /\ UNCHANGED <<done, posted, outstanding>>

Cancel ==
  /\ Move({"running"}, "canceled")
  /\ done' = posted
  /\ UNCHANGED <<posted, outstanding>>

BeginStop == Move({"canceled"}, "stopping") /\ UNCHANGED <<done, posted, outstanding>>

EndStop ==
  /\ Move({"stopping"}, "stopped")
  /\ outstanding = 0
  /\ UNCHANGED <<done, posted, outstanding>>

Delete ==
  /\ Move({"stopped"}, "none")
  /\ outstanding = 0
  /\ UNCHANGED <<done, posted, outstanding>>

Post ==
  /\ phase = "running"
  /\ posted' \in Nat /\ posted' > posted
  /\ UNCHANGED <<phase, done, outstanding>>

GiveBack ==
  /\ phase = "running"
  /\ done' \in (done + 1)..posted
  /\ UNCHANGED <<phase, posted, outstanding>>

Issue ==
  /\ phase = "running"
  /\ outstanding' = outstanding + 1
  /\ UNCHANGED <<phase, done, posted>>

Finish ==
  /\ phase \in {"running", "canceled", "stopping"} /\ outstanding > 0
  /\ outstanding' = outstanding - 1
  /\ UNCHANGED <<phase, done, posted>>

Next ==
  Create \/ Start \/ Cancel \/ BeginStop \/ EndStop \/ Delete \/ Post
    \/ GiveBack \/ Issue \/ Finish

Spec == Init /\ [][Next]_vars

=============================================================================
