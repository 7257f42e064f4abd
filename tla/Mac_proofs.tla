----------------------------- MODULE Mac_proofs -----------------------------
(***************************************************************************)
(* Machine-checked proofs about the MAC addresses: for every address, what *)
(* its successor is, and that the string the function registers gives the  *)
(* host the same address back. Only SMT is asked: the numbers are large.   *)
(***************************************************************************)
EXTENDS Mac, TLAPS

(* What it is to be a half. *)
LEMMA HalfBounds ==
  LastHalf = 16777215 /\ \A n : n \in Half <=> n \in Nat /\ n <= LastHalf
<1>1. LastHalf = 16777215 /\ LastHalf \in Nat
  BY SMT DEF LastHalf
<1>2. LastHalf \in Nat
  BY <1>1
<1>3. \A n : n \in Half <=> n \in Nat /\ n <= LastHalf
  BY <1>2, SMT DEF Half
<1>. QED  BY <1>1, <1>3

(* A number is its quotient by 256 and its last byte. *)
LEMMA LastByte ==
  ASSUME NEW n \in Nat
  PROVE  /\ n \div 256 \in Nat /\ n % 256 \in Byte
         /\ n = (n \div 256) * 256 + (n % 256)
         /\ n \div 65536 = (n \div 256) \div 256
BY SMT DEF Byte

(* A byte put behind a number is its last byte. *)
LEMMA PutByte ==
  ASSUME NEW n \in Nat, NEW b \in Byte
  PROVE  /\ n * 256 + b \in Nat
         /\ (n * 256 + b) \div 256 = n /\ (n * 256 + b) % 256 = b
BY SMT DEF Byte

(* A 24-bit half is the number of its three bytes. *)
LEMMA HalfBytes ==
  ASSUME NEW n \in Half
  PROVE  /\ (n \div 65536) % 256 \in Byte /\ (n \div 256) % 256 \in Byte /\ n % 256 \in Byte
         /\ (((n \div 65536) % 256) * 256 + ((n \div 256) % 256)) * 256 + (n % 256) = n
<1>1. n \in Nat /\ n <= 16777215
  BY HalfBounds, SMT
<1>. DEFINE m == n \div 256
            k == m \div 256
<1>2. m \in Nat /\ n % 256 \in Byte /\ n = m * 256 + (n % 256) /\ n \div 65536 = k
  BY <1>1, LastByte, SMT
<1>3. k \in Nat /\ m % 256 \in Byte /\ m = k * 256 + (m % 256)
  BY <1>2, LastByte, SMT
<1>. HIDE DEF m, k
<1>4. k \in Byte
  BY <1>1, <1>2, <1>3, SMT DEF Byte
<1>5. k % 256 = k
  BY <1>4, SMT DEF Byte
<1>6. (k * 256 + (m % 256)) * 256 + (n % 256) = n
  BY <1>2, <1>3, SMT
<1>7. (n \div 65536) % 256 = k /\ n \div 256 = m
  BY <1>2, <1>5, SMT DEF m
<1>. QED  BY <1>2, <1>3, <1>4, <1>6, <1>7, SMT

(* Three bytes are the bytes of the half they make.                        *)
LEMMA BytesHalf ==
  ASSUME NEW a \in Byte, NEW b \in Byte, NEW c \in Byte, NEW n, n = (a * 256 + b) * 256 + c
  PROVE  /\ n \in Half
         /\ (n \div 65536) % 256 = a /\ (n \div 256) % 256 = b /\ n % 256 = c
<1>0. a \in Nat /\ a <= 255 /\ b \in Nat /\ b <= 255 /\ c \in Nat /\ c <= 255
  BY SMT DEF Byte
<1>. DEFINE m == a * 256 + b
<1>1. m \in Nat /\ m \div 256 = a /\ m % 256 = b
  BY <1>0, PutByte, SMT
<1>2. n = m * 256 + c
  OBVIOUS
<1>3. m <= 65535
  BY <1>0, SMT
<1>. HIDE DEF m
<1>4. m * 256 + c \in Nat /\ (m * 256 + c) \div 256 = m /\ (m * 256 + c) % 256 = c
  BY <1>0, <1>1, SMT
<1>n. n \in Nat /\ n \div 256 = m /\ n % 256 = c
  BY <1>2, <1>4
<1>5. n <= 16777215
  BY <1>0, <1>1, <1>2, <1>3, SMT
<1>6. n \in Half
  BY <1>n, <1>5, HalfBounds, SMT
<1>7. n \div 65536 = m \div 256
  BY <1>n, LastByte, SMT
<1>8. a % 256 = a
  BY <1>0, SMT
<1>. QED  BY <1>1, <1>n, <1>6, <1>7, <1>8, SMT

(* An address is the one its number stands for ...                         *)
LEMMA AddressOfNumber ==
  ASSUME NEW mac \in MacAddress
  PROVE  Number(mac) \in MacNumber /\ Address(Number(mac)) = mac
<1>1. /\ mac[1] \in Byte /\ mac[2] \in Byte /\ mac[3] \in Byte
      /\ mac[4] \in Byte /\ mac[5] \in Byte /\ mac[6] \in Byte
  BY SMT DEF MacAddress
<1>. DEFINE h == (mac[1] * 256 + mac[2]) * 256 + mac[3]
            l == (mac[4] * 256 + mac[5]) * 256 + mac[6]
<1>2. /\ h \in Half
      /\ (h \div 65536) % 256 = mac[1] /\ (h \div 256) % 256 = mac[2] /\ h % 256 = mac[3]
  BY <1>1, BytesHalf, SMT
<1>3. /\ l \in Half
      /\ (l \div 65536) % 256 = mac[4] /\ (l \div 256) % 256 = mac[5] /\ l % 256 = mac[6]
  BY <1>1, BytesHalf, SMT
<1>4. Number(mac) = [hi |-> h, lo |-> l]
  BY DEF Number
<1>. HIDE DEF h, l
<1>5. Number(mac) \in MacNumber
  BY <1>2, <1>3, <1>4, SMT DEF MacNumber
<1>6. Address(Number(mac)) = <<mac[1], mac[2], mac[3], mac[4], mac[5], mac[6]>>
  BY <1>2, <1>3, <1>4, SMT DEF Address
<1>7. mac = <<mac[1], mac[2], mac[3], mac[4], mac[5], mac[6]>>
  BY SMT DEF MacAddress
<1>. QED  BY <1>5, <1>6, <1>7

(* ... and a number the one of its address. *)
LEMMA NumberOfAddress ==
  ASSUME NEW n \in MacNumber
  PROVE  Address(n) \in MacAddress /\ Number(Address(n)) = n
<1>1. n = [hi |-> n.hi, lo |-> n.lo] /\ n.hi \in Half /\ n.lo \in Half
  BY SMT DEF MacNumber
<1>. DEFINE a == (n.hi \div 65536) % 256
            b == (n.hi \div 256) % 256
            c == n.hi % 256
            d == (n.lo \div 65536) % 256
            e == (n.lo \div 256) % 256
            f == n.lo % 256
<1>2. a \in Byte /\ b \in Byte /\ c \in Byte /\ (a * 256 + b) * 256 + c = n.hi
  BY <1>1, HalfBytes, SMT
<1>3. d \in Byte /\ e \in Byte /\ f \in Byte /\ (d * 256 + e) * 256 + f = n.lo
  BY <1>1, HalfBytes, SMT
<1>4. Address(n) = <<a, b, c, d, e, f>>
  BY DEF Address
<1>. HIDE DEF a, b, c, d, e, f
<1>5. Address(n) \in MacAddress
  BY <1>2, <1>3, <1>4, SMT DEF MacAddress
<1>6. Number(Address(n)) = [hi |-> n.hi, lo |-> n.lo]
  BY <1>2, <1>3, <1>4, SMT DEF Number
<1>. QED  BY <1>1, <1>5, <1>6

-----------------------------------------------------------------------------
(* The successor of the addresses.                                         *)

(* Whichever branch is taken: the successor's number is a 48-bit number.   *)
LEMMA NextNumber ==
  ASSUME NEW mac \in MacAddress
  PROVE  LET next == Incremented(Number(mac))
             n == IF Above(next, MaxMac) THEN MinMac ELSE next
         IN n \in MacNumber /\ NextMACAddress(mac) = Address(n)
<1>. DEFINE m == Number(mac)
            next == Incremented(m)
            n == IF Above(next, MaxMac) THEN MinMac ELSE next
<1>1. m \in MacNumber
  BY AddressOfNumber
<1>2. NextMACAddress(mac) = Address(n)
  BY DEF NextMACAddress
<1>3. LastHalf = 16777215 /\ 136541 \in Half /\ 0 \in Half /\ LastHalf \in Half
  BY HalfBounds, SMT
<1>4. m.hi \in Half /\ m.lo \in Half /\ m = [hi |-> m.hi, lo |-> m.lo]
  BY <1>1, SMT DEF MacNumber
<1>5. MinMac \in MacNumber /\ MaxMac.hi = 136541 /\ MaxMac.lo = LastHalf
  BY <1>3, SMT DEF MinMac, MaxMac, MacNumber
<1>. HIDE DEF m
<1>6. CASE m.lo = LastHalf
  <2>1. next = [hi |-> m.hi + 1, lo |-> 0]
    BY <1>6 DEF Incremented
  <2>2. CASE Above(next, MaxMac)  BY <1>2, <1>5, <2>2 DEF m
  <2>3. CASE ~Above(next, MaxMac)
    <3>1. m.hi + 1 \in Nat /\ m.hi + 1 <= 136541
      BY <1>4, <1>5, <2>1, <2>3, HalfBounds, SMT DEF Above
    <3>2. m.hi + 1 \in Half
      BY <3>1, HalfBounds, SMT
    <3>3. next \in MacNumber
      BY <1>3, <2>1, <3>2, SMT DEF MacNumber
    <3>. QED  BY <1>2, <2>3, <3>3 DEF m
  <2>. QED  BY <2>2, <2>3
<1>7. CASE m.lo # LastHalf
  <2>1. next = [hi |-> m.hi, lo |-> m.lo + 1]
    BY <1>4, <1>7 DEF Incremented
  <2>2. m.lo + 1 \in Half
    BY <1>4, <1>7, HalfBounds, SMT
  <2>3. next \in MacNumber
    BY <1>4, <2>1, <2>2, SMT DEF MacNumber
  <2>. QED  BY <1>2, <1>5, <2>3 DEF m
<1>. QED  BY <1>6, <1>7

(* The two ends never share an address (GetNextMACAddress): no address is  *)
(* its own successor, whether it is one of the drivers' range or was set   *)
(* by hand.                                                                *)
THEOREM NextDiffers == \A mac \in MacAddress : NextMACAddress(mac) # mac
<1>. SUFFICES ASSUME NEW mac \in MacAddress, NextMACAddress(mac) = mac PROVE FALSE
  OBVIOUS
<1>. DEFINE m == Number(mac)
            next == Incremented(m)
            n == IF Above(next, MaxMac) THEN MinMac ELSE next
<1>1. m \in MacNumber
  BY AddressOfNumber
<1>2. n \in MacNumber /\ NextMACAddress(mac) = Address(n)
  BY NextNumber
<1>3. n = m
  BY <1>2, NumberOfAddress
<1>4. m.hi \in Nat /\ m.lo \in Nat /\ m.lo <= LastHalf /\ LastHalf = 16777215
  BY <1>1, HalfBounds, SMT DEF MacNumber
<1>5. /\ MinMac.hi = 136541 /\ MinMac.lo = 0
      /\ MaxMac.hi = 136541 /\ MaxMac.lo = 16777215
  BY <1>4, SMT DEF MinMac, MaxMac
<1>6. (next.hi = m.hi + 1 /\ next.lo = 0) \/ (next.hi = m.hi /\ next.lo = m.lo + 1)
  BY <1>1, SMT DEF Incremented, MacNumber
<1>7. next # m
  BY <1>4, <1>6, SMT
<1>8. Above(next, MaxMac) /\ m = MinMac
  BY <1>3, <1>7
<1>9. m.hi = 136541 /\ m.lo = 0 /\ m.lo # LastHalf
  BY <1>4, <1>5, <1>8, SMT
<1>10. next = [m EXCEPT !.lo = @ + 1]
  BY <1>9 DEF Incremented
<1>11. next.hi = 136541 /\ next.lo = 1
  BY <1>1, <1>9, <1>10, SMT DEF MacNumber
<1>. HIDE DEF m, next
<1>. QED  BY <1>5, <1>8, <1>11, SMT DEF Above

(* An address of the drivers' range has one of the range as its successor, *)
(* wherever the increment carries or wraps, and such an address is unicast *)
(* and locally administered.                                               *)
THEOREM NextStaysInRange ==
  \A mac \in MacAddress : InRange(mac) =>
    LET own == NextMACAddress(mac) IN
    own \in MacAddress /\ InRange(own) /\ IsUnicast(own) /\ IsLocal(own)
<1>. SUFFICES ASSUME NEW mac \in MacAddress, InRange(mac)
              PROVE  LET own == NextMACAddress(mac) IN
                     own \in MacAddress /\ InRange(own) /\ IsUnicast(own) /\ IsLocal(own)
  OBVIOUS
<1>. DEFINE m == Number(mac)
            next == Incremented(m)
            n == IF Above(next, MaxMac) THEN MinMac ELSE next
            own == NextMACAddress(mac)
<1>1. m \in MacNumber
  BY AddressOfNumber
<1>2. n \in MacNumber /\ own = Address(n) /\ own \in MacAddress /\ Number(own) = n
  BY NextNumber, NumberOfAddress
<1>3. /\ m.hi \in Nat /\ m.lo \in Nat /\ m.lo <= 16777215
      /\ n.hi \in Nat /\ n.lo \in Nat /\ n.lo <= 16777215
  BY <1>1, <1>2, HalfBounds, SMT DEF MacNumber
<1>4. /\ MinMac.hi = 136541 /\ MinMac.lo = 0
      /\ MaxMac.hi = 136541 /\ MaxMac.lo = 16777215
  BY HalfBounds, SMT DEF MinMac, MaxMac
<1>5. m.hi = 136541
  BY <1>3, <1>4, SMT DEF InRange, Above
<1>6. next.hi = m.hi + 1 \/ next.hi = m.hi
  BY <1>1, SMT DEF Incremented, MacNumber
<1>. HIDE DEF next, m
<1>7. n.hi = 136541
  BY <1>4, <1>5, <1>6, SMT DEF Above
<1>. HIDE DEF n
<1>8. InRange(own)
  BY <1>2, <1>3, <1>4, <1>7, SMT DEF InRange, Above
<1>9. own[1] = (n.hi \div 65536) % 256
  BY <1>2, SMT DEF Address
<1>10. own[1] = 2
  BY <1>7, <1>9, SMT
<1>. QED  BY <1>2, <1>8, <1>10, SMT DEF IsUnicast, IsLocal

(* A generated address (GenerateMACAddress) is of the range, and never the *)
(* last one, whatever the tick count.                                      *)
THEOREM GeneratedInRange ==
  \A tick \in Nat : GeneratedMac(tick) \in MacAddress /\ InRange(GeneratedMac(tick))
<1>. SUFFICES ASSUME NEW tick \in Nat
              PROVE  GeneratedMac(tick) \in MacAddress /\ InRange(GeneratedMac(tick))
  OBVIOUS
<1>. DEFINE n == [hi |-> 136541, lo |-> tick % 16777215]
<1>1. LastHalf = 16777215 /\ 136541 \in Half
  BY HalfBounds, SMT
<1>2. tick % 16777215 \in Nat /\ tick % 16777215 < 16777215
  BY SMT
<1>3. tick % 16777215 \in Half
  BY <1>1, <1>2, HalfBounds, SMT
<1>4. n \in MacNumber
  BY <1>1, <1>3, SMT DEF MacNumber
<1>5. GeneratedMac(tick) = Address(n)
  BY <1>1, <1>2, SMT DEF GeneratedMac, MinMac, MaxMac
<1>6. GeneratedMac(tick) \in MacAddress /\ Number(GeneratedMac(tick)) = n
  BY <1>4, <1>5, NumberOfAddress
<1>7. InRange(GeneratedMac(tick))
  BY <1>1, <1>2, <1>6, SMT DEF InRange, Above, MinMac, MaxMac
<1>. QED  BY <1>6, <1>7

-----------------------------------------------------------------------------
(* The string.                                                             *)

(* Reading a digit that was written gives its nibble. *)
LEMMA DigitRoundTrip ==
  ASSUME NEW nibble \in 0 .. 15
  PROVE  HexNibbleFromChar(HexDigit(nibble)) = nibble
BY SMT DEF HexNibbleFromChar, HexDigit

(* The host reads from the string descriptor (HexStringToBytes) the very   *)
(* address the function registered there (BytesToHexString).               *)
THEOREM MacStringRoundTrip ==
  \A mac \in MacAddress :
    IsHexString(BytesToHexString(mac)) /\ HexStringToBytes(BytesToHexString(mac)) = mac
<1>. SUFFICES ASSUME NEW mac \in MacAddress
              PROVE  /\ IsHexString(BytesToHexString(mac))
                     /\ HexStringToBytes(BytesToHexString(mac)) = mac
  OBVIOUS
<1>. DEFINE s == BytesToHexString(mac)
<1>1. \A i \in 1 .. 6 :
        /\ mac[i] \div 16 \in 0 .. 15 /\ mac[i] % 16 \in 0 .. 15
        /\ (mac[i] % 16) + 16 * (mac[i] \div 16) = mac[i]
  BY SMT DEF MacAddress, Byte
<1>2. \A i \in 1 .. 6 :
        s[2 * i - 1] = HexDigit(mac[i] \div 16) /\ s[2 * i] = HexDigit(mac[i] % 16)
  <2>. SUFFICES ASSUME NEW i \in 1 .. 6
                PROVE  s[2 * i - 1] = HexDigit(mac[i] \div 16) /\ s[2 * i] = HexDigit(mac[i] % 16)
    OBVIOUS
  <2>1. /\ 2 * i - 1 \in 1 .. 12 /\ (2 * i - 1) % 2 = 1 /\ (2 * i - 1 + 1) \div 2 = i
        /\ 2 * i \in 1 .. 12 /\ (2 * i) % 2 = 0 /\ (2 * i) \div 2 = i
    BY SMT
  <2>. QED  BY <2>1 DEF BytesToHexString
<1>3. \A i \in 1 .. 6 :
        /\ HexNibbleFromChar(s[2 * i - 1]) = mac[i] \div 16
        /\ HexNibbleFromChar(s[2 * i]) = mac[i] % 16
  BY <1>1, <1>2, DigitRoundTrip
<1>. HIDE DEF s
<1>4. IsHexString(s)
  <2>. SUFFICES ASSUME NEW j \in 1 .. 12 PROVE HexNibbleFromChar(s[j]) # -1
    BY DEF IsHexString
  <2>1. PICK i \in 1 .. 6 : j = 2 * i - 1 \/ j = 2 * i
    <3>1. (j + 1) \div 2 \in 1 .. 6
      BY SMT
    <3>2. j = 2 * ((j + 1) \div 2) - 1 \/ j = 2 * ((j + 1) \div 2)
      BY SMT
    <3>. QED  BY <3>1, <3>2
  <2>2. HexNibbleFromChar(s[j]) \in 0 .. 15
    BY <1>1, <1>3, <2>1
  <2>. QED  BY <2>2, SMT
<1>5. HexStringToBytes(s) = [i \in 1 .. 6 |-> mac[i]]
  BY <1>1, <1>3, SMT DEF HexStringToBytes
<1>6. [i \in 1 .. 6 |-> mac[i]] = mac
  BY SMT DEF MacAddress
<1>. QED  BY <1>4, <1>5, <1>6 DEF s

=============================================================================
