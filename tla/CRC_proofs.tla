----------------------------- MODULE CRC_proofs -----------------------------
(***************************************************************************)
(* What holds of the checksum for payloads of every length, over all       *)
(* bytes.  Division by the polynomial is linear and loses nothing: that    *)
(* makes crcFast equal to crcSlow, and damage once in the remainder stays. *)
(***************************************************************************)
EXTENDS CRC, FiniteSetTheorems, TLAPS

-----------------------------------------------------------------------------
(* One bit.                                                                *)

\* A turn of the loop over the bits leaves a remainder of WIDTH bits.
LEMMA DivideBitType ==
  ASSUME NEW r \in Remainder
  PROVE  DivideBit(r) \in Remainder
BY DEF DivideBit, ShiftLeft, Xor, POLYNOMIAL, Remainder, TOPBIT, WIDTH

\* The shift of a difference is the difference of the shifts.
LEMMA ShiftLinear ==
  ASSUME NEW a \in Remainder, NEW b \in Remainder
  PROVE  ShiftLeft(Xor(a, b)) = Xor(ShiftLeft(a), ShiftLeft(b))
<1>1. \A i : i \in a => i \in Int
  BY DEF Remainder, TOPBIT, WIDTH
<1>2. \A i : i \in b => i \in Int
  BY DEF Remainder, TOPBIT, WIDTH
<1> QED
  BY <1>1, <1>2 DEF ShiftLeft, Xor, TOPBIT, WIDTH

\* Division is linear: the two sides treat the top bit alike.
LEMMA DivideBitLinear ==
  ASSUME NEW a \in Remainder, NEW b \in Remainder
  PROVE  DivideBit(Xor(a, b)) = Xor(DivideBit(a), DivideBit(b))
<1>1. TOPBIT \in Xor(a, b) <=> ~(TOPBIT \in a <=> TOPBIT \in b)
  BY DEF Xor
<1>2. ASSUME NEW x, NEW y, NEW p
      PROVE  /\ Xor(Xor(x, p), Xor(y, p)) = Xor(x, y)
             /\ Xor(Xor(x, p), y) = Xor(Xor(x, y), p)
             /\ Xor(x, Xor(y, p)) = Xor(Xor(x, y), p)
  BY Zenon DEF Xor
<1> QED
  BY <1>1, <1>2, ShiftLinear DEF DivideBit

\* Division loses nothing: only the remainder 0 becomes 0.  The shift leaves the
\* lowest bit free, and the polynomial has it.
LEMMA DivideBitKernel ==
  ASSUME NEW r \in Remainder, DivideBit(r) = {}
  PROVE  r = {}
<1>1. 0 \notin ShiftLeft(r)
  BY DEF ShiftLeft, Remainder, TOPBIT, WIDTH
<1>2. CASE TOPBIT \in r
  BY <1>1, <1>2 DEF DivideBit, Xor, POLYNOMIAL
<1>3. CASE TOPBIT \notin r
  BY <1>3 DEF DivideBit, ShiftLeft
<1> QED
  BY <1>2, <1>3

-----------------------------------------------------------------------------
(* Eight bits.                                                             *)

LEMMA DivideByteType ==
  ASSUME NEW r \in Remainder
  PROVE  DivideByte(r) \in Remainder
<1>1. \A x \in Remainder : DivideTwoBits(x) \in Remainder
  BY DivideBitType DEF DivideTwoBits
<1>2. \A x \in Remainder : DivideFourBits(x) \in Remainder
  BY <1>1 DEF DivideFourBits
<1> QED
  BY <1>2 DEF DivideByte

LEMMA DivideByteLinear ==
  ASSUME NEW a \in Remainder, NEW b \in Remainder
  PROVE  DivideByte(Xor(a, b)) = Xor(DivideByte(a), DivideByte(b))
<1>1. \A x, y \in Remainder :
        /\ DivideTwoBits(x) \in Remainder
        /\ DivideTwoBits(Xor(x, y)) = Xor(DivideTwoBits(x), DivideTwoBits(y))
  BY DivideBitType, DivideBitLinear DEF DivideTwoBits
<1>2. \A x, y \in Remainder :
        /\ DivideFourBits(x) \in Remainder
        /\ DivideFourBits(Xor(x, y)) = Xor(DivideFourBits(x), DivideFourBits(y))
  BY <1>1 DEF DivideFourBits
<1> QED
  BY <1>2 DEF DivideByte

LEMMA DivideByteKernel ==
  ASSUME NEW r \in Remainder, DivideByte(r) = {}
  PROVE  r = {}
<1>1. \A x \in Remainder : /\ DivideTwoBits(x) \in Remainder
                           /\ DivideTwoBits(x) = {} => x = {}
  BY DivideBitType, DivideBitKernel DEF DivideTwoBits
<1>2. \A x \in Remainder : /\ DivideFourBits(x) \in Remainder
                           /\ DivideFourBits(x) = {} => x = {}
  BY <1>1 DEF DivideFourBits
<1> QED
  BY <1>2 DEF DivideByte

\* Eight turns shift a low byte to the top and meet no top bit on the way.
LEMMA DivideLowByte ==
  ASSUME NEW b \in Byte
  PROVE  DivideByte(b) = AtTop(b)
<1> DEFINE Up(k) == {i + k : i \in b}
<1>1. \A i \in b : i \in 0 .. 7
  BY DEF Byte
<1>2. Up(0) = b /\ Up(8) = AtTop(b)
  <2>1. \A i \in b : i + 0 = i
    BY <1>1
  <2> QED BY <2>1 DEF AtTop
<1>3. ASSUME NEW k \in 0 .. 7
      PROVE  DivideBit(Up(k)) = Up(k + 1)
  <2>1. TOPBIT \notin Up(k)
    BY <1>1 DEF TOPBIT, WIDTH
  <2>2. {i + 1 : i \in Up(k)} = Up(k + 1)
    <3>1. \A i \in b : (i + k) + 1 = i + (k + 1)
      BY <1>1
    <3> QED BY <3>1
  <2>3. ShiftLeft(Up(k)) = Up(k + 1)
    BY <2>1, <2>2 DEF ShiftLeft
  <2> HIDE DEF Up
  <2> QED
    BY <2>1, <2>3 DEF DivideBit
<1> HIDE DEF Up
<1>4. /\ DivideBit(Up(0)) = Up(1) /\ DivideBit(Up(1)) = Up(2)
      /\ DivideBit(Up(2)) = Up(3) /\ DivideBit(Up(3)) = Up(4)
      /\ DivideBit(Up(4)) = Up(5) /\ DivideBit(Up(5)) = Up(6)
      /\ DivideBit(Up(6)) = Up(7) /\ DivideBit(Up(7)) = Up(8)
  BY <1>3
<1> QED
  BY <1>2, <1>4 DEF DivideByte, DivideFourBits, DivideTwoBits

-----------------------------------------------------------------------------
(* One byte.                                                               *)

LEMMA ByteTypes ==
  ASSUME NEW b \in Byte, NEW c \in Byte, NEW r \in Remainder
  PROVE  /\ AtTop(b) \in Remainder /\ b \in Remainder
         /\ HighByte(r) \in Byte /\ r \intersect 0 .. 7 \in Byte
         /\ Xor(b, c) \in Byte
         /\ AtTop(Xor(b, c)) = Xor(AtTop(b), AtTop(c))
<1>1. \A i \in b \union c : i \in 0 .. 7
  BY DEF Byte
<1>2. AtTop(Xor(b, c)) = Xor(AtTop(b), AtTop(c))
  BY <1>1 DEF AtTop, Xor
<1>3. AtTop(b) \in Remainder /\ b \in Remainder
  BY <1>1 DEF AtTop, Remainder, TOPBIT, WIDTH
<1>4. HighByte(r) \in Byte /\ r \intersect 0 .. 7 \in Byte /\ Xor(b, c) \in Byte
  BY <1>1 DEF HighByte, Byte, Xor
<1> QED
  BY <1>2, <1>3, <1>4

LEMMA XorTypes ==
  ASSUME NEW a \in Remainder, NEW b \in Remainder
  PROVE  /\ Xor(a, b) \in Remainder
         /\ Xor(a, b) = {} <=> a = b
BY DEF Xor, Remainder

LEMMA CrcSlowType ==
  ASSUME NEW r \in Remainder, NEW b \in Byte
  PROVE  crcSlow(r, b) \in Remainder
BY ByteTypes, XorTypes, DivideByteType DEF crcSlow

\* Where crcFast looks up its table, crcSlow divides.  The remainder is split
\* into the byte the table is asked for and the byte that is only shifted.
LEMMA FastStep ==
  ASSUME NEW r \in Remainder, NEW b \in Byte
  PROVE  crcFast(r, b) = crcSlow(r, b)
<1> DEFINE low == r \intersect 0 .. 7
           top == Xor(b, HighByte(r))
<1>1. low \in Byte /\ top \in Byte /\ low \in Remainder /\ AtTop(top) \in Remainder
  BY ByteTypes
<1>2. Xor(r, AtTop(b)) = Xor(AtTop(top), low)
  <2>1. r = AtTop(HighByte(r)) \union low
    <3>1. r \subseteq 0 .. 15
      BY DEF Remainder, TOPBIT, WIDTH
    <3>2. \A i \in r \ low : i - 8 \in HighByte(r) /\ i = (i - 8) + 8
      BY <3>1 DEF HighByte
    <3>3. \A i \in HighByte(r) : i + 8 \in r
      BY DEF HighByte
    <3> QED
      BY <3>2, <3>3 DEF AtTop
  <2>2. AtTop(HighByte(r)) \intersect low = {} /\ AtTop(b) \intersect low = {}
    BY DEF AtTop, HighByte, Byte
  <2>3. AtTop(top) = Xor(AtTop(b), AtTop(HighByte(r)))
    BY ByteTypes
  <2> HIDE DEF low, top
  <2> QED
    BY <2>1, <2>2, <2>3 DEF Xor
<1>3. DivideByte(Xor(r, AtTop(b))) = Xor(TableEntry(top), AtTop(low))
  BY <1>1, <1>2, DivideByteLinear, DivideLowByte DEF TableEntry
<1>4. crcTable[top] = TableEntry(top)
  BY <1>1 DEF crcTable
<1>5. LowToTop(r) = AtTop(low)
  BY DEF LowToTop, AtTop
<1> QED
  BY <1>3, <1>4, <1>5 DEF crcFast, crcSlow

\* The difference of two checksums goes through the division by itself.
LEMMA Difference ==
  ASSUME NEW r \in Remainder, NEW t \in Remainder, NEW b \in Byte, NEW c \in Byte
  PROVE  Xor(crcSlow(r, b), crcSlow(t, c)) =
           DivideByte(Xor(Xor(r, t), AtTop(Xor(b, c))))
<1>1. /\ AtTop(b) \in Remainder /\ AtTop(c) \in Remainder
      /\ AtTop(Xor(b, c)) = Xor(AtTop(b), AtTop(c))
  BY ByteTypes
<1>2. Xor(Xor(r, AtTop(b)), Xor(t, AtTop(c))) =
        Xor(Xor(r, t), Xor(AtTop(b), AtTop(c)))
  BY Zenon DEF Xor
<1> QED
  BY <1>1, <1>2, XorTypes, DivideByteLinear DEF crcSlow

-----------------------------------------------------------------------------
(* The invariants.                                                         *)

\* The payload's type and the remainders' are those TCPD_M1 and ftpc work with.
THEOREM TypeCorrect == Spec => []TypeOK
<1>1. Init => TypeOK
  BY DEF Init, TypeOK, INITIAL_REMAINDER, Remainder
<1>2. TypeOK /\ [Next]_vars => TypeOK'
  <2> SUFFICES ASSUME TypeOK, [Next]_vars PROVE TypeOK'
    OBVIOUS
  <2>1. ASSUME NEW b \in Byte, NEW c \in Byte, NextByte(b, c)
        PROVE  TypeOK'
    <3>1. /\ sum' \in Remainder /\ slow' \in Remainder /\ check' \in Remainder
      BY <2>1, FastStep, CrcSlowType DEF NextByte, TypeOK
    <3> QED
      BY <2>1, <3>1 DEF NextByte, TypeOK
  <2>2. CASE Next
    <3>1. \A b, c \in Byte : Xor(b, c) \in Byte
      BY DEF Byte, Xor
    <3> QED
      BY <2>1, <2>2, <3>1, BytesAssumption, FlipsAssumption
      DEF Next, Intact, Damaged
  <2>3. CASE UNCHANGED vars
    BY <2>3 DEF vars, TypeOK
  <2> QED
    BY <2>2, <2>3
<1> QED
  BY <1>1, <1>2, PTL DEF Spec

\* A step takes some byte, which arrives as some byte.
LEMMA StepTakesByte ==
  ASSUME Next
  PROVE  \E b, c \in Byte : NextByte(b, c)
<1>1. \A b, c \in Byte : Xor(b, c) \in Byte
  BY DEF Byte, Xor
<1> QED
  BY <1>1, BytesAssumption, FlipsAssumption DEF Next, Intact, Damaged

\* crcFast returns what crcSlow does, for payloads of any length.
THEOREM TableIsRight == Spec => []FastIsSlow
<1>1. Init => FastIsSlow
  BY DEF Init, FastIsSlow
<1>2. TypeOK /\ FastIsSlow /\ [Next]_vars => FastIsSlow'
  <2> SUFFICES ASSUME TypeOK, FastIsSlow, [Next]_vars PROVE FastIsSlow'
    OBVIOUS
  <2>1. CASE Next
    <3>1. PICK b \in Byte, c \in Byte : NextByte(b, c)
      BY <2>1, StepTakesByte
    <3> QED
      BY <3>1, FastStep DEF NextByte, FastIsSlow, TypeOK
  <2>2. CASE UNCHANGED vars
    BY <2>2 DEF vars, FastIsSlow
  <2> QED
    BY <2>1, <2>2
<1> QED
  BY <1>1, <1>2, TypeCorrect, PTL DEF Spec

-----------------------------------------------------------------------------
(* Damage.                                                                 *)

\* The remainders differ by the one damaged byte, if it was the last one.
DamageInv ==
  /\ DamagedBytes = {} => sum = check
  /\ DamagedBytes = {Len(message)} =>
       \E e \in Byte \ {{}} : Xor(sum, check) = DivideByte(AtTop(e))
  /\ DamageDetected

\* What the damaged bytes are after a step.
LEMMA DamageGrows ==
  ASSUME TypeOK, NEW b \in Byte, NEW c \in Byte, NextByte(b, c)
  PROVE  /\ Len(message') = Len(message) + 1
         /\ DamagedBytes \subseteq 1 .. Len(message)
         /\ b = c => DamagedBytes' = DamagedBytes
         /\ b # c => DamagedBytes' = DamagedBytes \union {Len(message) + 1}
<1> DEFINE n == Len(message)
<1>1. /\ n \in Nat /\ DOMAIN message = 1 .. n /\ DOMAIN message' = 1 .. n + 1
      /\ Len(message') = n + 1 /\ Len(arrived) = n
  BY DEF TypeOK, NextByte
<1>2. /\ message'[n + 1] = b /\ arrived'[n + 1] = c
      /\ \A i \in 1 .. n : message'[i] = message[i] /\ arrived'[i] = arrived[i]
  BY <1>1 DEF TypeOK, NextByte
<1> HIDE DEF n
<1>3. DamagedBytes' = {i \in 1 .. n + 1 : message'[i] # arrived'[i]}
  BY <1>1 DEF DamagedBytes
<1>4. DamagedBytes = {i \in 1 .. n : message[i] # arrived[i]}
  BY <1>1 DEF DamagedBytes
<1>5. 1 .. n + 1 = (1 .. n) \union {n + 1}
  BY <1>1
<1> QED
  BY <1>1, <1>2, <1>3, <1>4, <1>5 DEF n

LEMMA DamageStep ==
  ASSUME TypeOK, DamageInv, NEW b \in Byte, NEW c \in Byte, NextByte(b, c)
  PROVE  DamageInv'
<1> DEFINE n == Len(message)
           e == Xor(b, c)
           d == Xor(sum, check)
<1>1. n \in Nat /\ sum \in Remainder /\ check \in Remainder /\ d \in Remainder
  BY XorTypes DEF TypeOK
<1>2. /\ e \in Byte /\ AtTop(e) \in Remainder
      /\ b = c <=> e = {}
      /\ AtTop(e) = {} <=> e = {}
  <2>1. e \in Byte
    BY <1>1, ByteTypes
  <2>2. AtTop(e) \in Remainder
    BY <1>1, <2>1, ByteTypes
  <2> QED
    BY <2>1, <2>2 DEF Xor, AtTop
<1>3. /\ sum' \in Remainder /\ check' \in Remainder
      /\ Xor(sum', check') = DivideByte(Xor(d, AtTop(e)))
  BY <1>1, FastStep, CrcSlowType, Difference DEF NextByte
<1>4. sum' = check' <=> Xor(d, AtTop(e)) = {}
  <2>1. Xor(d, AtTop(e)) \in Remainder /\ {} \in Remainder
    BY <1>1, <1>2, XorTypes DEF Remainder
  <2>2. DivideByte({}) = {}
    BY DivideLowByte DEF AtTop, Byte
  <2> QED
    BY <1>3, <2>1, <2>2, XorTypes, DivideByteKernel
<1>5. sum = check <=> d = {}
  BY <1>1, XorTypes
<1>6. CASE b = c
  <2>1. DamagedBytes' = DamagedBytes /\ n + 1 \notin DamagedBytes /\ Len(message') = n + 1
    BY <1>1, <1>6, DamageGrows
  <2>2. Xor(d, AtTop(e)) = d
    BY <1>2, <1>6 DEF Xor
  <2>3. sum' = check' <=> sum = check
    BY <1>4, <1>5, <2>2
  <2> QED
    BY <2>1, <2>3 DEF DamageInv, DamageDetected
<1>7. CASE b # c /\ DamagedBytes = {}
  <2>1. DamagedBytes' = {n + 1} /\ Len(message') = n + 1
    BY <1>7, DamageGrows
  <2>2. d = {} /\ Xor(d, AtTop(e)) = AtTop(e)
    BY <1>5, <1>7 DEF DamageInv, Xor
  <2>3. sum' # check'
    BY <1>2, <1>4, <1>7, <2>2
  <2>4. e \in Byte \ {{}} /\ Xor(sum', check') = DivideByte(AtTop(e))
    BY <1>2, <1>3, <1>7, <2>2
  <2> QED
    BY <2>1, <2>3, <2>4 DEF DamageInv, DamageDetected
<1>8. CASE b # c /\ DamagedBytes # {}
  <2>1. /\ DamagedBytes' = DamagedBytes \union {n + 1} /\ Len(message') = n + 1
        /\ DamagedBytes \subseteq 1 .. n
    BY <1>8, DamageGrows
  <2>2. DamagedBytes' # {} /\ DamagedBytes' # {Len(message')}
    BY <1>1, <1>8, <2>1
  <2>3. ASSUME \A i, j \in DamagedBytes' : j <= i + 1
        PROVE  sum' # check'
    <3>1. DamagedBytes = {n}
      <4>1. \A i \in DamagedBytes : n + 1 <= i + 1 /\ i \in 1 .. n
        BY <2>1, <2>3
      <4> QED
        BY <1>1, <1>8, <4>1
    <3>2. PICK f \in Byte \ {{}} : d = DivideByte(AtTop(f))
      BY <3>1 DEF DamageInv
    \* Equal checksums need the second byte's damage to undo the first one's.
    <3>3. SUFFICES ASSUME sum' = check' PROVE FALSE
      OBVIOUS
    <3>4. d = AtTop(e)
      BY <1>1, <1>2, <1>4, <3>3, XorTypes
    <3>5. DivideByte(Xor(AtTop(f), e)) = {}
      <4>1. e \in Remainder /\ AtTop(f) \in Remainder
        BY <1>2, ByteTypes
      <4>2. DivideByte(e) = AtTop(e)
        BY <1>2, DivideLowByte
      <4>3. DivideByte(Xor(AtTop(f), e)) = Xor(d, d)
        BY <3>2, <3>4, <4>1, <4>2, DivideByteLinear
      <4> QED
        BY <4>3 DEF Xor
    <3>6. AtTop(f) = e
      <4>1. e \in Remainder /\ AtTop(f) \in Remainder
        BY <1>2, ByteTypes
      <4> QED
        BY <3>5, <4>1, XorTypes, DivideByteKernel
    <3>7. PICK i \in f : i \in 0 .. 7 /\ i + 8 \in AtTop(f) /\ i + 8 \notin 0 .. 7
      BY DEF AtTop, Byte
    <3> QED
      BY <1>2, <3>6, <3>7 DEF Byte
  <2> QED
    BY <2>2, <2>3 DEF DamageInv, DamageDetected
<1> QED
  BY <1>6, <1>7, <1>8

\* TCPD_M1 detects all damage that stays within two adjacent bytes.
THEOREM BurstsAreDetected == Spec => []DamageDetected
<1>1. Init => DamageInv
  <2> SUFFICES ASSUME Init PROVE DamageInv
    OBVIOUS
  <2>1. DamagedBytes = {} /\ Len(message) = 0
    BY DEF Init, DamagedBytes
  <2> QED
    BY <2>1 DEF Init, DamageInv, DamageDetected
<1>2. TypeOK /\ DamageInv /\ [Next]_vars => DamageInv'
  <2> SUFFICES ASSUME TypeOK, DamageInv, [Next]_vars PROVE DamageInv'
    OBVIOUS
  <2>1. CASE Next
    BY <2>1, StepTakesByte, DamageStep
  <2>2. CASE UNCHANGED vars
    BY <2>2 DEF vars, DamageInv, DamageDetected, DamagedBytes
  <2> QED
    BY <2>1, <2>2
<1>3. DamageInv => DamageDetected
  BY DEF DamageInv
<1> QED
  BY <1>1, <1>2, <1>3, TypeCorrect, PTL DEF Spec

-----------------------------------------------------------------------------
(* A payload of zeros.                                                     *)

BlankInv == (\A i \in DOMAIN message : message[i] = {}) => sum # {}

LEMMA BlankStep ==
  ASSUME TypeOK, BlankInv, NEW b \in Byte, NEW c \in Byte, NextByte(b, c)
  PROVE  BlankInv'
<1> SUFFICES ASSUME \A i \in DOMAIN message' : message'[i] = {}
             PROVE  sum' # {}
  BY DEF BlankInv
<1>1. (\A i \in DOMAIN message : message[i] = {}) /\ b = {}
  <2>1. /\ DOMAIN message' = 1 .. Len(message) + 1
        /\ DOMAIN message = 1 .. Len(message) /\ Len(message) \in Nat
        /\ message'[Len(message) + 1] = b
        /\ \A i \in 1 .. Len(message) : message'[i] = message[i]
    BY DEF NextByte, TypeOK
  <2> QED
    BY <2>1
<1>2. sum # {} /\ sum \in Remainder
  BY <1>1 DEF BlankInv, TypeOK
<1>3. sum' = DivideByte(sum)
  <2>1. sum' = crcSlow(sum, b)
    BY <1>2, FastStep DEF NextByte
  <2>2. Xor(sum, AtTop(b)) = sum
    BY <1>1 DEF Xor, AtTop
  <2> QED
    BY <2>1, <2>2 DEF crcSlow
<1> QED
  BY <1>2, <1>3, DivideByteKernel

\* A payload of zeros never has the checksum of a slot that was never written.
THEOREM BlankIsDamaged == Spec => []BlankIsNeverGood
<1>1. Init => BlankInv
  BY DEF Init, BlankInv, INITIAL_REMAINDER, TOPBIT, WIDTH
<1>2. TypeOK /\ BlankInv /\ [Next]_vars => BlankInv'
  <2> SUFFICES ASSUME TypeOK, BlankInv, [Next]_vars PROVE BlankInv'
    OBVIOUS
  <2>1. CASE Next
    BY <2>1, StepTakesByte, BlankStep
  <2>2. CASE UNCHANGED vars
    BY <2>2 DEF vars, BlankInv
  <2> QED
    BY <2>1, <2>2
<1>3. BlankInv => BlankIsNeverGood
  BY DEF BlankInv, BlankIsNeverGood
<1> QED
  BY <1>1, <1>2, <1>3, TypeCorrect, PTL DEF Spec

-----------------------------------------------------------------------------
(* An odd number of changed bits.                                          *)

Odd(S) == Cardinality(S) % 2 = 1

LEMMA DisjointNumber ==
  ASSUME NEW S, IsFiniteSet(S), NEW T, IsFiniteSet(T), S \intersect T = {}
  PROVE  /\ IsFiniteSet(S \union T)
         /\ Cardinality(S \union T) = Cardinality(S) + Cardinality(T)
<1>1. /\ IsFiniteSet(S \union T)
      /\ Cardinality(S \union T) =
           Cardinality(S) + Cardinality(T) - Cardinality(S \intersect T)
  BY FS_Union
<1>2. Cardinality(S \intersect T) = 0
  BY FS_EmptySet
<1>3. Cardinality(S) \in Nat /\ Cardinality(T) \in Nat
  BY FS_CardinalityType
<1> QED
  BY <1>1, <1>2, <1>3

\* In a difference, the elements the two sets share count twice or not at all.
LEMMA XorParity ==
  ASSUME NEW a, IsFiniteSet(a), NEW b, IsFiniteSet(b)
  PROVE  /\ IsFiniteSet(Xor(a, b))
         /\ Odd(Xor(a, b)) <=> ~(Odd(a) <=> Odd(b))
<1> DEFINE l == a \ b
           r == b \ a
           m == a \intersect b
<1>1. IsFiniteSet(l) /\ IsFiniteSet(r) /\ IsFiniteSet(m)
  <2>1. l \in SUBSET a /\ m \in SUBSET a /\ r \in SUBSET b
    OBVIOUS
  <2> HIDE DEF l, r, m
  <2> QED
    BY <2>1, FS_Subset
<1>2. a = l \union m /\ b = r \union m /\ Xor(a, b) = l \union r
  BY DEF Xor
<1>3. l \intersect m = {} /\ r \intersect m = {} /\ l \intersect r = {}
  OBVIOUS
<1> HIDE DEF l, r, m
<1>4. Cardinality(l) \in Nat /\ Cardinality(r) \in Nat /\ Cardinality(m) \in Nat
  BY <1>1, FS_CardinalityType
<1>5. /\ IsFiniteSet(l \union r)
      /\ Cardinality(a) = Cardinality(l) + Cardinality(m)
      /\ Cardinality(b) = Cardinality(r) + Cardinality(m)
      /\ Cardinality(l \union r) = Cardinality(l) + Cardinality(r)
  BY <1>1, <1>2, <1>3, DisjointNumber
<1>6. \A i, j, k \in Nat :
        (i + j) % 2 = 1 <=> ~((i + k) % 2 = 1 <=> (j + k) % 2 = 1)
  OBVIOUS
<1>7. Odd(l \union r) <=> ~(Odd(a) <=> Odd(b))
  BY <1>4, <1>5, <1>6 DEF Odd
<1> QED
  BY <1>2, <1>5, <1>7

\* A function that maps no two elements to one keeps their number.
LEMMA SameNumber ==
  ASSUME NEW S, IsFiniteSet(S), NEW T, NEW f \in [S -> T],
         \A x, y \in S : f[x] = f[y] => x = y,
         \A t \in T : \E x \in S : f[x] = t
  PROVE  IsFiniteSet(T) /\ Cardinality(T) = Cardinality(S)
<1>1. f \in Bijection(S, T)
  BY DEF Bijection, Injection, Surjection, IsInjective
<1> QED
  BY <1>1, FS_Bijection DEF ExistsBijection

\* A shift keeps the number of the bits it does not lose.
LEMMA ShiftNumber ==
  ASSUME NEW S \in SUBSET Int, IsFiniteSet(S), NEW k \in Int
  PROVE  /\ IsFiniteSet({i + k : i \in S})
         /\ Cardinality({i + k : i \in S}) = Cardinality(S)
<1> DEFINE T == {i + k : i \in S}
           f == [i \in S |-> i + k]
<1>1. f \in [S -> T]
  OBVIOUS
<1>2. \A x, y \in S : f[x] = f[y] => x = y
  OBVIOUS
<1>3. \A t \in T : \E x \in S : f[x] = t
  OBVIOUS
<1> HIDE DEF f, T
<1>4. IsFiniteSet(T) /\ Cardinality(T) = Cardinality(S)
  BY <1>1, <1>2, <1>3, SameNumber
<1> QED
  BY <1>4 DEF T

LEMMA RemaindersAreFinite ==
  /\ \A r \in Remainder : IsFiniteSet(r) /\ r \in SUBSET Int
  /\ \A b \in Byte : IsFiniteSet(b) /\ b \in SUBSET Int
<1>1. ASSUME NEW n \in Nat
      PROVE  \A S \in SUBSET (0 .. n) : IsFiniteSet(S) /\ S \in SUBSET Int
  <2>1. IsFiniteSet(0 .. n)
    BY FS_Interval
  <2>2. \A S \in SUBSET (0 .. n) : IsFiniteSet(S)
    BY <2>1, FS_Subset
  <2> QED
    BY <2>2
<1>2. 7 \in Nat /\ TOPBIT \in Nat
  BY DEF TOPBIT, WIDTH
<1> QED
  BY <1>1, <1>2, Zenon DEF Remainder, Byte

\* Division keeps the parity: the bit the shift loses and the three terms of the
\* polynomial come and go together.
LEMMA DivideBitParity ==
  ASSUME NEW r \in Remainder
  PROVE  Odd(DivideBit(r)) <=> Odd(r)
<1> DEFINE kept == r \ {TOPBIT}
<1>1. /\ IsFiniteSet(r) /\ IsFiniteSet(kept) /\ kept \in SUBSET Int
      /\ Cardinality(r) \in Nat
      /\ Cardinality(kept) = IF TOPBIT \in r THEN Cardinality(r) - 1 ELSE Cardinality(r)
  BY RemaindersAreFinite, FS_RemoveElement, FS_CardinalityType
<1>2. /\ IsFiniteSet(ShiftLeft(r))
      /\ Cardinality(ShiftLeft(r)) = Cardinality(kept)
  <2>1. /\ IsFiniteSet({i + 1 : i \in kept})
        /\ Cardinality({i + 1 : i \in kept}) = Cardinality(kept)
    BY <1>1, ShiftNumber, 1 \in Int, Zenon
  <2> QED
    BY <2>1, Zenon DEF ShiftLeft
<1>3. IsFiniteSet(POLYNOMIAL) /\ Odd(POLYNOMIAL)
  <2>1. /\ IsFiniteSet({12}) /\ Cardinality({12}) = 1
    BY FS_Singleton
  <2>2. /\ IsFiniteSet({12} \union {5}) /\ Cardinality({12} \union {5}) = 2
    BY <2>1, FS_AddElement
  <2>3. /\ IsFiniteSet(({12} \union {5}) \union {0})
        /\ Cardinality(({12} \union {5}) \union {0}) = 3
    BY <2>2, FS_AddElement
  <2>4. POLYNOMIAL = ({12} \union {5}) \union {0}
    BY DEF POLYNOMIAL
  <2> QED
    BY <2>3, <2>4 DEF Odd
<1> HIDE DEF kept
<1>4. CASE TOPBIT \in r
  <2>1. Odd(DivideBit(r)) <=> ~Odd(ShiftLeft(r))
    BY <1>2, <1>3, <1>4, XorParity DEF DivideBit
  <2>2. Odd(ShiftLeft(r)) <=> ~Odd(r)
    BY <1>1, <1>2, <1>4 DEF Odd
  <2> QED
    BY <2>1, <2>2
<1>5. CASE TOPBIT \notin r
  BY <1>1, <1>2, <1>5 DEF Odd, DivideBit
<1> QED
  BY <1>4, <1>5

LEMMA DivideByteParity ==
  ASSUME NEW r \in Remainder
  PROVE  Odd(DivideByte(r)) <=> Odd(r)
<1>1. \A x \in Remainder : /\ DivideTwoBits(x) \in Remainder
                           /\ Odd(DivideTwoBits(x)) <=> Odd(x)
  BY DivideBitType, DivideBitParity DEF DivideTwoBits
<1>2. \A x \in Remainder : /\ DivideFourBits(x) \in Remainder
                           /\ Odd(DivideFourBits(x)) <=> Odd(x)
  BY <1>1 DEF DivideFourBits
<1> QED
  BY <1>2 DEF DivideByte

\* The remainders differ in an odd number of bits as long as the payloads do.
ParityInv ==
  /\ IsFiniteSet(FlippedBits)
  /\ Odd(FlippedBits) <=> Odd(Xor(sum, check))

\* A step adds the bits flipped in its byte.
LEMMA FlippedGrows ==
  ASSUME TypeOK, NEW b \in Byte, NEW c \in Byte, NextByte(b, c),
         IsFiniteSet(FlippedBits)
  PROVE  /\ IsFiniteSet(FlippedBits')
         /\ Odd(FlippedBits') <=> ~(Odd(FlippedBits) <=> Odd(Xor(b, c)))
<1> DEFINE n == Len(message)
           e == Xor(b, c)
           New == {n + 1} \X e
<1>1. /\ n \in Nat /\ DOMAIN message = 1 .. n /\ DOMAIN message' = 1 .. n + 1
      /\ message'[n + 1] = b /\ arrived'[n + 1] = c
      /\ \A i \in 1 .. n : message'[i] = message[i] /\ arrived'[i] = arrived[i]
  BY DEF TypeOK, NextByte
<1>2. e \in Byte /\ IsFiniteSet(e) /\ \A j \in e : j \in 0 .. 7
  <2>1. e \in Byte
    BY DEF Byte, Xor
  <2> QED
    BY <2>1, RemaindersAreFinite, Zenon DEF Byte
<1> HIDE DEF n, e
<1>3. IsFiniteSet(New) /\ Cardinality(New) = Cardinality(e)
  <2> DEFINE f == [j \in e |-> <<n + 1, j>>]
  <2>1. f \in [e -> New]
    OBVIOUS
  <2>2. \A x, y \in e : f[x] = f[y] => x = y
    OBVIOUS
  <2>3. \A t \in New : \E x \in e : f[x] = t
    OBVIOUS
  <2> HIDE DEF f, New
  <2> QED
    BY <1>2, <2>1, <2>2, <2>3, SameNumber
<1>4. FlippedBits' = FlippedBits \union New /\ FlippedBits \intersect New = {}
  <2>1. \A x : x \in FlippedBits <=> /\ x \in (1 .. n) \X (0 .. 7)
                                   /\ x[2] \in Xor(message[x[1]], arrived[x[1]])
    BY <1>1 DEF FlippedBits
  <2>2. \A x : x \in FlippedBits' <=> /\ x \in (1 .. n + 1) \X (0 .. 7)
                                    /\ x[2] \in Xor(message'[x[1]], arrived'[x[1]])
    BY <1>1 DEF FlippedBits
  <2>3. \A x : x \in (1 .. n + 1) \X (0 .. 7) <=>
                 x \in (1 .. n) \X (0 .. 7) \/ x \in {n + 1} \X (0 .. 7)
    BY <1>1
  <2>4. \A x \in (1 .. n) \X (0 .. 7) : x \in FlippedBits' <=> x \in FlippedBits
    BY <1>1, <2>1, <2>2, <2>3
  <2>5. \A x \in {n + 1} \X (0 .. 7) : x \in FlippedBits' <=> x \in New
    BY <1>1, <2>2, <2>3 DEF e
  <2>6. New \subseteq {n + 1} \X (0 .. 7)
    BY <1>2
  <2>7. ((1 .. n) \X (0 .. 7)) \intersect ({n + 1} \X (0 .. 7)) = {}
    BY <1>1
  <2> HIDE DEF New
  <2>8. FlippedBits \subseteq (1 .. n) \X (0 .. 7)
    BY <2>1
  <2>9. FlippedBits' \subseteq ((1 .. n) \X (0 .. 7)) \union ({n + 1} \X (0 .. 7))
    BY <2>2, <2>3
  <2> QED
    BY <2>4, <2>5, <2>6, <2>7, <2>8, <2>9
<1> HIDE DEF New
<1>5. /\ IsFiniteSet(FlippedBits')
      /\ Cardinality(FlippedBits') = Cardinality(FlippedBits) + Cardinality(e)
  BY <1>3, <1>4, DisjointNumber
<1>6. Cardinality(FlippedBits) \in Nat /\ Cardinality(e) \in Nat
  BY <1>2, FS_CardinalityType
<1> QED
  BY <1>5, <1>6 DEF Odd, e

LEMMA ParityStep ==
  ASSUME TypeOK, ParityInv, NEW b \in Byte, NEW c \in Byte, NextByte(b, c)
  PROVE  ParityInv'
<1> DEFINE d == Xor(sum, check)
           e == Xor(b, c)
<1>1. /\ d \in Remainder /\ e \in Byte /\ AtTop(e) \in Remainder
      /\ IsFiniteSet(d) /\ IsFiniteSet(e) /\ IsFiniteSet(AtTop(e))
  BY XorTypes, ByteTypes, RemaindersAreFinite DEF TypeOK
<1>2. Xor(sum', check') = DivideByte(Xor(d, AtTop(e)))
  BY FastStep, Difference DEF NextByte, TypeOK
<1>3. Odd(AtTop(e)) <=> Odd(e)
  <2>1. e \in SUBSET Int
    BY <1>1, RemaindersAreFinite, Zenon
  <2> HIDE DEF e
  <2>2. Cardinality(AtTop(e)) = Cardinality(e)
    BY <1>1, <2>1, ShiftNumber, 8 \in Int, Zenon DEF AtTop
  <2> QED
    BY <2>2 DEF Odd
<1>4. Odd(Xor(sum', check')) <=> ~(Odd(d) <=> Odd(e))
  BY <1>1, <1>2, <1>3, XorTypes, XorParity, DivideByteParity
<1> QED
  BY <1>4, FlippedGrows DEF ParityInv

\* TCPD_M1 detects every odd number of changed bits.
THEOREM OddIsDetected == Spec => []OddDamageDetected
<1>1. Init => ParityInv
  <2> SUFFICES ASSUME Init PROVE ParityInv
    OBVIOUS
  <2>1. FlippedBits = {} /\ Xor(sum, check) = {}
    BY DEF Init, FlippedBits, Xor
  <2> QED
    BY <2>1, FS_EmptySet DEF ParityInv
<1>2. TypeOK /\ ParityInv /\ [Next]_vars => ParityInv'
  <2> SUFFICES ASSUME TypeOK, ParityInv, [Next]_vars PROVE ParityInv'
    OBVIOUS
  <2>1. CASE Next
    BY <2>1, StepTakesByte, ParityStep
  <2>2. CASE UNCHANGED vars
    BY <2>2 DEF vars, ParityInv, FlippedBits
  <2> QED
    BY <2>1, <2>2
<1>3. ParityInv => OddDamageDetected
  <2>1. sum = check => Xor(sum, check) = {}
    BY DEF Xor
  <2>2. ~Odd({})
    BY FS_EmptySet DEF Odd
  <2> QED
    BY <2>1, <2>2 DEF ParityInv, OddDamageDetected, Odd
<1> QED
  BY <1>1, <1>2, <1>3, TypeCorrect, PTL DEF Spec

=============================================================================
