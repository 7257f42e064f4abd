-------------------------------- MODULE Mac --------------------------------
(***************************************************************************)
(* The MAC addresses of the two ends (inc/mac.h): the function registers   *)
(* its address as a string for the host and uses the next address itself.  *)
(*                                                                         *)
(* A MAC is a sequence of six bytes. Its 48-bit number is kept as two      *)
(* 24-bit halves, because the checker's integers have 32 bits.             *)
(***************************************************************************)
EXTENDS Integers, Sequences

Byte == 0 .. 255
LastHalf == 16777215
Half == 0 .. LastHalf

MacAddress == [1 .. 6 -> Byte]
MacNumber == [hi : Half, lo : Half]

(* s_MinMacNumber and s_MaxMacNumber: 02-15-5d is Microsoft's. *)
MinMac == [hi |-> 136541, lo |-> 0]
MaxMac == [hi |-> 136541, lo |-> LastHalf]

(* MAC_ADDRESS_TO_NUMBER: the first byte is the highest. *)
Number(mac) ==
  [hi |-> (mac[1] * 256 + mac[2]) * 256 + mac[3],
   lo |-> (mac[4] * 256 + mac[5]) * 256 + mac[6]]

(* NUMBER_TO_MAC_ADDRESS. *)
Address(n) ==
  << (n.hi \div 65536) % 256, (n.hi \div 256) % 256, n.hi % 256,
     (n.lo \div 65536) % 256, (n.lo \div 256) % 256, n.lo % 256 >>

Above(m, n) == m.hi > n.hi \/ (m.hi = n.hi /\ m.lo > n.lo)

(* The 64-bit increment: the number may pass 48 bits. *)
Incremented(n) ==
  IF n.lo = LastHalf THEN [hi |-> n.hi + 1, lo |-> 0] ELSE [n EXCEPT !.lo = @ + 1]

(* Mutant: the last address is its own successor. *)
NextMACAddressSaturating(mac) ==
  LET next == Incremented(Number(mac)) IN
  IF Above(next, MaxMac) THEN Address(MaxMac) ELSE Address(next)

(* GetNextMACAddress: past the last address the first one follows.         *)
NextMACAddress(mac) ==
  LET next == Incremented(Number(mac)) IN
  IF Above(next, MaxMac) THEN Address(MinMac) ELSE Address(next)

(* GenerateMACAddress: the tick count modulo the size of the range less    *)
(* one, so that the last address is never generated.                       *)
GeneratedMac(tick) ==
  Address([hi |-> MinMac.hi, lo |-> MinMac.lo + (tick % (MaxMac.lo - MinMac.lo))])

(* The addresses the drivers keep for themselves. *)
InRange(mac) == ~Above(Number(mac), MaxMac) /\ ~Above(MinMac, Number(mac))

(* What bit 0 and bit 1 of the first byte say. *)
IsUnicast(mac) == mac[1] % 2 = 0
IsLocal(mac) == (mac[1] \div 2) % 2 = 1

-----------------------------------------------------------------------------
(* The string: two characters per byte, high nibble first, as the codes    *)
(* 0-9 and A-F.                                                            *)
HexDigit(nibble) == IF nibble >= 10 THEN 65 + nibble - 10 ELSE 48 + nibble

BytesToHexString(mac) ==
  [i \in 1 .. 12 |->
     HexDigit(IF i % 2 = 1 THEN mac[(i + 1) \div 2] \div 16 ELSE mac[i \div 2] % 16)]

(* HexNibbleFromChar; some devices use a-f. -1 stands for failure.         *)
HexNibbleFromChar(c) ==
  CASE c \in 65 .. 70  -> c - 65 + 10
    [] c \in 48 .. 57  -> c - 48
    [] c \in 97 .. 102 -> c - 97 + 10
    [] OTHER           -> -1

(* HexStringToBytes succeeds if every character is a digit.                *)
IsHexString(s) == \A i \in 1 .. 12 : HexNibbleFromChar(s[i]) # -1

HexStringToBytes(s) ==
  [i \in 1 .. 6 |-> HexNibbleFromChar(s[2 * i]) + 16 * HexNibbleFromChar(s[2 * i - 1])]

=============================================================================
