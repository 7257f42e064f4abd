-------------------------------- MODULE MCNtb -------------------------------
(***************************************************************************)
(* Ntb with the sizes of the 16-bit class, two packet lengths, and blocks  *)
(* of another implementation.                                              *)
(***************************************************************************)
EXTENDS Ntb

Datagrams(pairs) == [i \in DOMAIN pairs |-> [index |-> pairs[i][1], length |-> pairs[i][2]]]

Table(after, pairs) ==
  [next |-> after, entries |-> Append(Datagrams(pairs), Null)]

(* One table in front of its datagrams and the block length left open.     *)
TableFirst ==
  [length |-> 0, ndpIndex |-> 12, size |-> 66,
   ndps |-> 12 :> Table(0, <<<<34, 15>>, <<50, 16>>>>),
   listed |-> Datagrams(<<<<34, 15>>, <<50, 16>>>>)]

(* Two chained tables, the second in front of the first.                   *)
TwoTables ==
  [length |-> 92, ndpIndex |-> 72, size |-> 92,
   ndps |-> (72 :> Table(28, <<<<44, 14>>, <<58, 14>>>>)) @@ (28 :> Table(0, <<<<14, 14>>>>)),
   listed |-> Datagrams(<<<<44, 14>>, <<58, 14>>, <<14, 14>>>>)]

(* The same with the block length left open.                               *)
TwoTablesOpen == [TwoTables EXCEPT !.length = 0]

(* A block whose only table lists nothing.                                 *)
NothingListed ==
  [length |-> 28, ndpIndex |-> 12, size |-> 28,
   ndps |-> 12 :> [next |-> 0, entries |-> <<Null, Null>>], listed |-> <<>>]

(* A second table that lists nothing behind a first that does. *)
EmptySecondTable ==
  [length |-> 64, ndpIndex |-> 12, size |-> 64,
   ndps |-> (12 :> Table(48, <<<<30, 14>>>>)) @@ (48 :> [next |-> 0, entries |-> <<Null, Null>>]),
   listed |-> Datagrams(<<<<30, 14>>>>)]

(* Two chained tables in front of their datagrams, the second the last.    *)
SecondTableLate ==
  [length |-> 80, ndpIndex |-> 12, size |-> 80,
   ndps |-> (12 :> Table(48, <<<<30, 14>>>>)) @@ (48 :> Table(0, <<<<66, 14>>>>)),
   listed |-> Datagrams(<<<<30, 14>>, <<66, 14>>>>)]

(* The blocks of another implementation that the driver must understand.   *)
SomeBlocks == {TableFirst, TwoTables, TwoTablesOpen, SecondTableLate, NothingListed}
ASSUME SomeBlocksConform == \A b \in SomeBlocks : Conforms(b)

SecondTableEmpty == {EmptySecondTable}

(* What a read buffer may hold: nothing yet, or an earlier block. *)
FreshBuffer == {NoBlock}
EarlierBlocks == {NoBlock, TableFirst, TwoTables}

=============================================================================
