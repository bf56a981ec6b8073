--------------------------------- MODULE CRC ---------------------------------
(***************************************************************************)
(* The checksum of a payload (crc.c, crc.h: CRC-CCITT).  ftpc computes it  *)
(* with crcFast, and TCPD_M1 does so again for the payload that arrived;   *)
(* crcSlow, division bit by bit, says what crcFast should return.          *)
(*                                                                         *)
(* A remainder or a byte is the set of the positions of its one-bits, so   *)
(* that XOR is the symmetric difference.  One step of the specification is *)
(* one turn of the loop over the bytes in all three computations; each     *)
(* invariant thus holds for a payload of any length.                       *)
(***************************************************************************)
EXTENDS Integers, Sequences, FiniteSets

WIDTH == 16
TOPBIT == WIDTH - 1

Byte == SUBSET (0 .. 7)
Remainder == SUBSET (0 .. TOPBIT)

CONSTANTS
  Bytes,     \* bytes a payload is made of
  Flips,     \* bits the troll may flip in a byte
  MaxLength  \* bound: bytes of a payload (1000)

ASSUME BytesAssumption == Bytes \subseteq Byte
ASSUME FlipsAssumption == Flips \subseteq Byte
ASSUME MaxLengthAssumption == MaxLength \in Nat

VARIABLES
  message,  \* bytes ftpc has put into the payload
  arrived,  \* the same bytes as TCPD_M1 got them
  sum,      \* crcFast's remainder for message
  slow,     \* crcSlow's remainder for message
  check     \* crcFast's remainder for arrived

vars == <<message, arrived, sum, slow, check>>

-----------------------------------------------------------------------------
Xor(a, b) == (a \ b) \union (b \ a)

\* (Faulty: a remainder that does not lose its top bit.)
ShiftLeftWide(r) == {i + 1 : i \in r}

ShiftLeft(r) == {i + 1 : i \in r \ {TOPBIT}}

\* (Faulty: the polynomial without its last term.)
PolynomialWithoutOne == {12, 5}

\* 0x1021
POLYNOMIAL == {12, 5, 0}

\* (Faulty: the initial remainder of CRC-16.)
InitialZero == {}

\* 0xFFFF
INITIAL_REMAINDER == 0 .. TOPBIT

\* One turn of the loop over the bits.
DivideBit(r) ==
  IF TOPBIT \in r THEN Xor(ShiftLeft(r), POLYNOMIAL) ELSE ShiftLeft(r)

DivideTwoBits(r) == DivideBit(DivideBit(r))
DivideFourBits(r) == DivideTwoBits(DivideTwoBits(r))

\* The eight turns of that loop.
DivideByte(r) == DivideFourBits(DivideFourBits(r))

\* byte << (WIDTH - 8), remainder >> (WIDTH - 8), remainder << 8
AtTop(b) == {i + 8 : i \in b}
HighByte(r) == {i \in 0 .. 7 : i + 8 \in r}
LowToTop(r) == {i + 8 : i \in r \intersect 0 .. 7}

\* (Faulty: the dividend is not shifted to the top of the remainder.)
TableOfLowBytes(b) == DivideByte(b)

TableEntry(b) == DivideByte(AtTop(b))

crcTable == [b \in Byte |-> TableEntry(b)]

\* (Faulty: the low byte of the remainder is left out.)
crcFastForgets(r, b) == crcTable[Xor(b, HighByte(r))]

\* What a byte makes of the remainder: in crcFast, and in crcSlow.
crcFast(r, b) == Xor(crcTable[Xor(b, HighByte(r))], LowToTop(r))

crcSlow(r, b) == DivideByte(Xor(r, AtTop(b)))

-----------------------------------------------------------------------------
Init ==
  /\ message = <<>>
  /\ arrived = <<>>
  /\ sum = INITIAL_REMAINDER
  /\ slow = INITIAL_REMAINDER
  /\ check = INITIAL_REMAINDER

\* Byte b of the payload arrives as c.
NextByte(b, c) ==
  /\ message' = Append(message, b)
  /\ arrived' = Append(arrived, c)
  /\ sum' = crcFast(sum, b)
  /\ slow' = crcSlow(slow, b)
  /\ check' = crcFast(check, c)

Intact(b) == NextByte(b, b)

Damaged(b, flip) == flip # {} /\ NextByte(b, Xor(b, flip))

Next ==
  /\ Len(message) < MaxLength
  /\ \E b \in Bytes : Intact(b) \/ \E flip \in Flips : Damaged(b, flip)

Spec == Init /\ [][Next]_vars

-----------------------------------------------------------------------------
(***************************************************************************)
(* Properties.                                                             *)
(***************************************************************************)
\* Every variable keeps to its type.
TypeOK ==
  /\ message \in Seq(Byte) /\ arrived \in Seq(Byte)
  /\ Len(arrived) = Len(message)
  /\ sum \in Remainder /\ slow \in Remainder /\ check \in Remainder

\* The table that crcInit fills makes a byte at a time what division makes bit
\* by bit: crcFast returns what crcSlow does.
FastIsSlow == sum = slow

DamagedBytes == {i \in DOMAIN message : message[i] # arrived[i]}

\* Damage that stays within two adjacent bytes, whatever bits it changes, never
\* leaves the checksum as it was: TCPD_M1 does not acknowledge the packet.
DamageDetected ==
  DamagedBytes # {} /\ (\A i, j \in DamagedBytes : j <= i + 1) => sum # check

FlippedBits ==
  {x \in (DOMAIN message) \X (0 .. 7) : x[2] \in Xor(message[x[1]], arrived[x[1]])}

\* Nor does an odd number of changed bits, however far apart.
OddDamageDetected == Cardinality(FlippedBits) % 2 = 1 => sum # check

\* A payload of zeros does not have the checksum 0: a slot of TCPD_M2's ring that
\* was calloc'ed and never written (circularBuffer.c:28) is not a good packet.
BlankIsNeverGood ==
  message # <<>> /\ (\A i \in DOMAIN message : message[i] = {}) => sum # {}

=============================================================================
