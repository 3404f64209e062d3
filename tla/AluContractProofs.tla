------------------------- MODULE AluContractProofs -------------------------
(***************************************************************************)
(* The arithmetic properties of AluContract for all operands: the run      *)
(* tries a few upper bytes, the theorems need no more of them than that    *)
(* they are bytes.                                                         *)
(***************************************************************************)
EXTENDS AluContract, TLAPS

Operands == x \in Byte /\ y \in Byte

LEMMA OperandsInvariant == Spec => []Operands
<1>1. Init => Operands
    BY DEF Init, Operands, Byte
<1>2. Operands /\ [Next]_<<x, y>> => Operands'
    BY DEF Operands, Next, Byte
<1> QED BY <1>1, <1>2, PTL DEF Spec

\* The carry of a sum of two bytes is the part that its low byte leaves out.
LEMMA CarryOfSum ==
    ASSUME NEW a \in Byte, NEW b \in Byte
    PROVE  AddResult(a, b) = LowByte(AddResult(a, b))
                               + (IF CarryFlag(AddResult(a, b)) THEN 256 ELSE 0)
<1>1. CASE a + b < 256
    <2>1. (a + b) % 256 = a + b /\ (a + b) \div 256 = 0
        BY <1>1 DEF Byte
    <2> QED BY <2>1 DEF AddResult, LowByte, CarryFlag, Byte
<1>2. CASE a + b >= 256
    <2>1. (a + b) % 256 = a + b - 256 /\ (a + b) \div 256 = 1
        BY <1>2 DEF Byte
    <2> QED BY <2>1 DEF AddResult, LowByte, CarryFlag, Byte
<1> QED BY <1>1, <1>2 DEF Byte

LEMMA AddChainHolds == Operands => AddChain
<1> SUFFICES ASSUME Operands, NEW xh \in HighBytes, NEW yh \in HighBytes
             PROVE  256 * AdcResult(xh, yh, CarryFlag(AddResult(x, y)))
                        + LowByte(AddResult(x, y))
                      = (256 * xh + x) + (256 * yh + y)
    BY DEF AddChain
<1>1. AddResult(x, y) = LowByte(AddResult(x, y))
                          + (IF CarryFlag(AddResult(x, y)) THEN 256 ELSE 0)
    BY CarryOfSum DEF Operands
<1>2. xh \in Nat /\ yh \in Nat /\ x \in Nat /\ y \in Nat
    BY HighBytesAssumption DEF Operands, Byte
<1> DEFINE low == LowByte(AddResult(x, y))
           carry == CarryFlag(AddResult(x, y))
<1>3. low \in Nat
    BY <1>2 DEF AddResult, LowByte
<1>4. x + y = low + (IF carry THEN 256 ELSE 0)
    BY <1>1 DEF AddResult
<1> HIDE DEF low, carry
<1>5. 256 * AdcResult(xh, yh, carry) + low = (256 * xh + x) + (256 * yh + y)
    BY <1>2, <1>3, <1>4 DEF AdcResult
<1> QED BY <1>5 DEF low, carry

\* add on the low bytes and adc on the high bytes add all pairs of 16-bit numbers
\* (instruction_add, instruction_adc, virtcore.c).
THEOREM AddChainCorrect == Spec => []AddChain
BY OperandsInvariant, AddChainHolds, PTL

-----------------------------------------------------------------------------
(* Comparison.  The negation of y is 256 - y for y # 0 and 0 for y = 0.    *)

LEMMA MsbOfByte ==
    ASSUME NEW b \in Byte
    PROVE  IMM8_MSB(b) <=> b >= 128
<1>1. CASE b < 128
    <2>1. b \div 128 = 0
        BY <1>1 DEF Byte
    <2> QED BY <1>1, <2>1 DEF IMM8_MSB, Byte
<1>2. CASE b >= 128
    <2>1. b \div 128 = 1
        BY <1>2 DEF Byte
    <2> QED BY <1>2, <2>1 DEF IMM8_MSB, Byte
<1> QED BY <1>1, <1>2 DEF Byte

\* Bit 7 of a sum that carries out of the low byte is that of the low byte.
LEMMA MsbOfSum ==
    ASSUME NEW s \in Nat, s < 512
    PROVE  IMM8_MSB(s) <=> (s >= 128 /\ s < 256) \/ s >= 384
<1>1. s \div 128 \in 0..3
    OBVIOUS
<1>2. CASE s < 128
    <2>1. s \div 128 = 0
        BY <1>2
    <2> QED BY <1>2, <2>1 DEF IMM8_MSB
<1>3. CASE s >= 128 /\ s < 256
    <2>1. s \div 128 = 1
        BY <1>3
    <2> QED BY <1>3, <2>1 DEF IMM8_MSB
<1>4. CASE s >= 256 /\ s < 384
    <2>1. s \div 128 = 2
        BY <1>4
    <2> QED BY <1>4, <2>1 DEF IMM8_MSB
<1>5. CASE s >= 384
    <2>1. s \div 128 = 3
        BY <1>5
    <2> QED BY <1>5, <2>1 DEF IMM8_MSB
<1> QED BY <1>2, <1>3, <1>4, <1>5

LEMMA CompareHolds == Operands => CompareByAdding
<1> SUFFICES ASSUME Operands PROVE CompareByAdding
    OBVIOUS
<1> DEFINE a == (256 - y) % 256
           sum == a + x
<1>1. x \in 0..255 /\ y \in 0..255
    BY DEF Operands, Byte
<1>2. a = IF y = 0 THEN 0 ELSE 256 - y
    <2>1. CASE y = 0
        BY <2>1
    <2>2. CASE y # 0
        BY <1>1, <2>2
    <2> QED BY <2>1, <2>2
<1>3. a \in 0..255 /\ sum \in Nat /\ sum < 512
    BY <1>1, <1>2
<1> HIDE DEF a
<1>4. (IMM8_MSB(a) <=> a >= 128) /\ (IMM8_MSB(x) <=> x >= 128)
    BY <1>1, <1>3, MsbOfByte DEF Byte
<1>5. IMM8_MSB(sum) <=> (sum >= 128 /\ sum < 256) \/ sum >= 384
    BY <1>3, MsbOfSum
<1>6. ZeroFlag(sum) = (x = y)
    <2>1. CASE sum < 256
        <3>1. sum % 256 = sum
            BY <1>3, <2>1
        <3> QED BY <1>1, <1>2, <2>1, <3>1 DEF ZeroFlag, LowByte
    <2>2. CASE sum >= 256
        <3>1. sum % 256 = sum - 256
            BY <1>3, <2>2
        <3> QED BY <1>1, <1>2, <2>2, <3>1 DEF ZeroFlag, LowByte
    <2> QED BY <1>3, <2>1, <2>2
<1>7. UltFlag(a, x, sum) = (y = 0 \/ x < y)
    <2> DEFINE below == y = 0 \/ x < y
    <2>1. ~IMM8_MSB(a) /\ ~IMM8_MSB(x) => below
        BY <1>1, <1>2, <1>4
    <2>2. IMM8_MSB(a) /\ IMM8_MSB(x) => ~below
        BY <1>1, <1>2, <1>4
    <2>3. ~(IMM8_MSB(a) <=> IMM8_MSB(x)) => (IMM8_MSB(sum) <=> below)
        BY <1>1, <1>2, <1>4, <1>5
    <2>4. /\ IMM8_MSB(a) \in BOOLEAN /\ IMM8_MSB(x) \in BOOLEAN
          /\ IMM8_MSB(sum) \in BOOLEAN /\ below \in BOOLEAN
        BY DEF IMM8_MSB
    <2> HIDE DEF sum, below
    <2>5. UltFlag(a, x, sum) = below
        BY <2>1, <2>2, <2>3, <2>4, Zenon DEF UltFlag
    <2> QED BY <2>5 DEF below
<1>8. SltFlag(a, x, sum) = (y = 128 \/ BelowSigned(x, y))
    <2>1. BelowSigned(x, y) <=>
            (IF x < 128 THEN x + 128 ELSE x - 128) < (IF y < 128 THEN y + 128 ELSE y - 128)
        <3>1. \A b \in 0..255 : (b + 128) % 256 = IF b < 128 THEN b + 128 ELSE b - 128
            OBVIOUS
        <3> QED BY <1>1, <3>1 DEF BelowSigned
    <2> DEFINE below == y = 128 \/ BelowSigned(x, y)
    <2>2. ~IMM8_MSB(a) /\ ~IMM8_MSB(x) => ~below
        BY <1>1, <1>2, <1>4, <2>1
    <2>3. IMM8_MSB(a) /\ IMM8_MSB(x) => below
        BY <1>1, <1>2, <1>4, <2>1
    <2>4. ~(IMM8_MSB(a) <=> IMM8_MSB(x)) => (IMM8_MSB(sum) <=> below)
        BY <1>1, <1>2, <1>4, <1>5, <2>1
    <2>5. /\ IMM8_MSB(a) \in BOOLEAN /\ IMM8_MSB(x) \in BOOLEAN
          /\ IMM8_MSB(sum) \in BOOLEAN /\ below \in BOOLEAN
        BY DEF IMM8_MSB, BelowSigned
    <2> HIDE DEF sum, below
    <2>6. SltFlag(a, x, sum) = below
        BY <2>2, <2>3, <2>4, <2>5, Zenon DEF SltFlag
    <2> QED BY <2>6 DEF below
<1> QED BY <1>6, <1>7, <1>8 DEF CompareByAdding, AddResult, a

\* addi with a negated constant compares, in both orders and for every operand,
\* with the two exceptions that CompareByAdding names (instruction_addi).
THEOREM CompareCorrect == Spec => []CompareByAdding
BY OperandsInvariant, CompareHolds, PTL
-----------------------------------------------------------------------------
(* Subtraction.  The carry of sub is the top half of a + 65536 - b, odd    *)
(* exactly when the low bytes borrow.                                      *)

\* The result of sub in 16 bits: a borrow shows as 65536 less.
LEMMA ResultOfSub ==
    ASSUME NEW a \in Byte, NEW b \in Byte
    PROVE  SubResult(a, b) = IF a < b THEN 65536 + a - b ELSE a - b
<1>1. Negated(b) = IF b = 0 THEN 0 ELSE 65536 - b
    <2>1. CASE b = 0
        BY <2>1 DEF Negated
    <2>2. CASE b # 0
        BY <2>2 DEF Negated, Byte
    <2> QED BY <2>1, <2>2
<1>2. a \in 0..255 /\ b \in 0..255
    BY DEF Byte
<1>3. CASE a < b
    <2>1. Negated(b) = 65536 - b
        BY <1>1, <1>2, <1>3
    <2>2. (a + Negated(b)) % 65536 = 65536 + a - b
        BY <1>2, <1>3, <2>1
    <2> QED BY <1>3, <2>2 DEF SubResult
<1>4. CASE a >= b
    <2>1. (a + Negated(b)) % 65536 = a - b
        <3>1. CASE b = 0
            BY <1>1, <1>2, <3>1
        <3>2. CASE b # 0
            BY <1>1, <1>2, <1>4, <3>2
        <3> QED BY <3>1, <3>2
    <2> QED BY <1>2, <1>4, <2>1 DEF SubResult
<1> QED BY <1>2, <1>3, <1>4

LEMMA CarryOfSub ==
    ASSUME NEW a \in Byte, NEW b \in Byte
    PROVE  /\ LowByte(SubResult(a, b)) = IF a < b THEN 256 + a - b ELSE a - b
           /\ CarryFlag(SubResult(a, b)) <=> a < b
<1>1. a \in 0..255 /\ b \in 0..255
    BY DEF Byte
<1>2. CASE a < b
    <2>1. SubResult(a, b) = 65536 + a - b
        BY <1>2, ResultOfSub
    <2>2. (65536 + a - b) % 256 = 256 + a - b /\ (65536 + a - b) \div 256 = 255
        BY <1>1, <1>2
    <2> QED BY <1>2, <2>1, <2>2 DEF LowByte, CarryFlag
<1>3. CASE a >= b
    <2>1. SubResult(a, b) = a - b
        BY <1>1, <1>3, ResultOfSub
    <2>2. (a - b) % 256 = a - b /\ (a - b) \div 256 = 0
        BY <1>1, <1>3
    <2> QED BY <1>1, <1>3, <2>1, <2>2 DEF LowByte, CarryFlag
<1> QED BY <1>1, <1>2, <1>3

\* The low byte of sbc: the difference and the carry, modulo 256.
LEMMA LowByteOfSbc ==
    ASSUME NEW a \in Byte, NEW b \in Byte, NEW carry \in BOOLEAN
    PROVE  LowByte(SbcResult(a, b, carry)) = (256 + a - b + (IF carry THEN 1 ELSE 0)) % 256
<1> DEFINE c == IF carry THEN 1 ELSE 0
<1>1. a \in 0..255 /\ b \in 0..255 /\ c \in 0..1
    BY DEF Byte
<1>2. Negated(b) = IF b = 0 THEN 0 ELSE 65536 - b
    <2>1. CASE b = 0
        BY <2>1 DEF Negated
    <2>2. CASE b # 0
        BY <2>2 DEF Negated, Byte
    <2> QED BY <2>1, <2>2
<1> HIDE DEF c
<1>3. ((a + Negated(b) + c) % 65536) % 256 = (256 + a - b + c) % 256
    <2>1. CASE b = 0
        BY <1>1, <1>2, <2>1
    <2>2. CASE b # 0
        BY <1>1, <1>2, <2>2
    <2> QED BY <2>1, <2>2
<1> QED BY <1>3 DEF SbcResult, LowByte, c

\* Numbers below twice, or three times, the modulus.
LEMMA WordWrap ==
    ASSUME NEW n \in Nat
    PROVE  /\ n < 65536 => n % 65536 = n
           /\ n >= 65536 /\ n < 131072 => n % 65536 = n - 65536
OBVIOUS

LEMMA ByteWrap ==
    ASSUME NEW n \in Nat
    PROVE  /\ n < 256 => n % 256 = n
           /\ n >= 256 /\ n < 512 => n % 256 = n - 256
           /\ n >= 512 /\ n < 768 => n % 256 = n - 512
OBVIOUS

\* A high byte e, not yet reduced, and a low byte f make a word; two more in
\* the high byte are 512 more in the word.
MakeWord(e, f) ==
    /\ 256 * (e % 256) + f = (((256 * e + f) % 65536) + 0) % 65536
    /\ 256 * ((e + 2) % 256) + f = (((256 * e + f) % 65536) + 512) % 65536

LEMMA WordOfBytes ==
    \A e, f \in Nat : e < 512 /\ f < 256 => MakeWord(e, f)
<1> USE DEF MakeWord
<1> SUFFICES ASSUME NEW e \in Nat, e < 512, NEW f \in Nat, f < 256
             PROVE  /\ 256 * (e % 256) + f = (((256 * e + f) % 65536) + 0) % 65536
                    /\ 256 * ((e + 2) % 256) + f = (((256 * e + f) % 65536) + 512) % 65536
    OBVIOUS
<1>1. PICK w \in Nat : w = 256 * e + f
    OBVIOUS
<1>2. CASE e < 254
    <2>1. w + 512 < 65536 /\ e + 2 < 256
        BY <1>1, <1>2
    <2>2. e % 256 = e /\ (e + 2) % 256 = e + 2
        BY <2>1, ByteWrap
    <2>3. w % 65536 = w /\ ((w + 512) % 65536) = w + 512
        BY <2>1, WordWrap
    <2>4. w + 0 = w /\ 256 * (e + 2) + f = w + 512
        BY <1>1
    <2> QED BY <1>1, <2>2, <2>3, <2>4
<1>3. CASE e >= 254 /\ e < 256
    <2>1. w < 65536 /\ w + 512 >= 65536 /\ e + 2 >= 256 /\ e + 2 < 512
        BY <1>1, <1>3
    <2>2. e % 256 = e /\ (e + 2) % 256 = (e + 2) - 256
        BY <1>3, <2>1, ByteWrap
    <2>3. w % 65536 = w /\ ((w + 512) % 65536) = (w + 512) - 65536
        BY <2>1, WordWrap
    <2>4. w + 0 = w /\ 256 * ((e + 2) - 256) + f = (w + 512) - 65536
        BY <1>1
    <2> QED BY <1>1, <2>2, <2>3, <2>4
<1>4. CASE e >= 256 /\ e < 510
    <2>1. PICK u \in Nat : w = u + 65536 /\ u = 256 * (e - 256) + f /\ u + 512 < 65536
        BY <1>1, <1>4
    <2>2. e % 256 = e - 256 /\ (e + 2) % 256 = (e + 2) - 256
        BY <1>4, ByteWrap
    <2>3. w % 65536 = u
        BY <2>1, WordWrap
    <2>4. (u + 0) % 65536 = u /\ (u + 512) % 65536 = u + 512
        BY <2>1, WordWrap
    <2>5. 256 * ((e + 2) - 256) + f = u + 512
        BY <2>1
    <2> QED BY <1>1, <2>1, <2>2, <2>3, <2>4, <2>5
<1>5. CASE e >= 510
    <2>1. PICK u \in Nat :
              /\ w = u + 65536 /\ u = 256 * (e - 256) + f
              /\ u < 65536 /\ u + 512 >= 65536
        BY <1>1, <1>5
    <2>2. e % 256 = e - 256 /\ (e + 2) % 256 = (e + 2) - 512
        BY <1>5, ByteWrap
    <2>3. w % 65536 = u
        BY <2>1, WordWrap
    <2>4. (u + 0) % 65536 = u /\ (u + 512) % 65536 = (u + 512) - 65536
        BY <2>1, WordWrap
    <2>5. 256 * ((e + 2) - 512) + f = (u + 512) - 65536
        BY <2>1
    <2> QED BY <1>1, <2>1, <2>2, <2>3, <2>4, <2>5
<1> QED BY <1>2, <1>3, <1>4, <1>5

LEMMA SubChainHolds == Operands => SubChain
<1> SUFFICES ASSUME Operands, NEW xh \in HighBytes, NEW yh \in HighBytes
             PROVE  256 * LowByte(SbcResult(xh, yh, CarryFlag(SubResult(x, y))))
                        + LowByte(SubResult(x, y))
                      = (((65536 + (256 * xh + x) - (256 * yh + y)) % 65536)
                           + (IF x < y THEN 512 ELSE 0)) % 65536
    BY DEF SubChain
<1> DEFINE low == LowByte(SubResult(x, y))
           carry == CarryFlag(SubResult(x, y))
           high == LowByte(SbcResult(xh, yh, carry))
<1>1. xh \in 0..255 /\ yh \in 0..255 /\ x \in 0..255 /\ y \in 0..255
    BY HighBytesAssumption DEF Operands, Byte
<1>2. low = (IF x < y THEN 256 + x - y ELSE x - y) /\ (carry <=> x < y)
    BY CarryOfSub DEF Operands
<1>3. high = (256 + xh - yh + (IF carry THEN 1 ELSE 0)) % 256
    <2>1. carry \in BOOLEAN
        BY DEF CarryFlag
    <2>2. xh \in Byte /\ yh \in Byte
        BY <1>1 DEF Byte
    <2> HIDE DEF carry
    <2> QED BY <2>1, <2>2, LowByteOfSbc
<1> HIDE DEF low, carry, high
<1>4. CASE x < y
    <2>1. high = (257 + xh - yh) % 256 /\ low = 256 + x - y
        BY <1>1, <1>2, <1>3, <1>4
    <2>2. PICK e \in Nat, f \in Nat :
              e = 255 + xh - yh /\ e < 512 /\ f = 256 + x - y /\ f < 256
        BY <1>1, <1>4
    <2>3. 65536 + (256 * xh + x) - (256 * yh + y) = 256 * e + f
        BY <1>1, <2>2
    <2>4. high = (e + 2) % 256
        BY <1>1, <2>1, <2>2
    <2>5. MakeWord(e, f)
        BY <2>2, WordOfBytes
    <2>6. 256 * ((e + 2) % 256) + f = (((256 * e + f) % 65536) + 512) % 65536
        BY <2>5 DEF MakeWord
    <2> QED BY <1>4, <2>1, <2>2, <2>3, <2>4, <2>6 DEF low, carry, high
<1>5. CASE x >= y
    <2>1. high = (256 + xh - yh) % 256 /\ low = x - y
        BY <1>1, <1>2, <1>3, <1>5
    <2>2. PICK e \in Nat, f \in Nat :
              e = 256 + xh - yh /\ e < 512 /\ f = x - y /\ f < 256
        BY <1>1, <1>5
    <2>3. 65536 + (256 * xh + x) - (256 * yh + y) = 256 * e + f
        BY <1>1, <2>2
    <2>4. high = e % 256
        BY <1>1, <2>1, <2>2
    <2>5. MakeWord(e, f)
        BY <2>2, WordOfBytes
    <2>6. 256 * (e % 256) + f = (((256 * e + f) % 65536) + 0) % 65536
        BY <2>5 DEF MakeWord
    <2> QED BY <1>1, <1>5, <2>1, <2>2, <2>3, <2>4, <2>6 DEF low, carry, high
<1> QED BY <1>1, <1>4, <1>5

\* sub and sbc subtract all pairs of 16-bit numbers whose low bytes do not borrow, and
\* are 512 out for all others (instruction_sub, instruction_sbc, virtcore.c).
THEOREM SubChainCorrect == Spec => []SubChain
BY OperandsInvariant, SubChainHolds, PTL
-----------------------------------------------------------------------------
(* Logic.  A byte is the sum of the weights of its bits, and the agreement *)
(* holds for each weight.                                                  *)

BitsOf(b) == [i \in 0..7 |-> (b \div 2^i) % 2 = 1]

LEMMA PowersOfTwo ==
    /\ 2^0 = 1 /\ 2^1 = 2 /\ 2^2 = 4 /\ 2^3 = 8
    /\ 2^4 = 16 /\ 2^5 = 32 /\ 2^6 = 64 /\ 2^7 = 128
    /\ \A i \in 0..7 : 2^i \in Nat
<1>1. /\ 2^0 = 1 /\ 2^1 = 2 /\ 2^2 = 4 /\ 2^3 = 8
      /\ 2^4 = 16 /\ 2^5 = 32 /\ 2^6 = 64 /\ 2^7 = 128
    OBVIOUS
<1>2. \A i \in 0..7 : i \in {0, 1, 2, 3, 4, 5, 6, 7}
    OBVIOUS
<1> QED BY <1>1, <1>2

LEMMA ByteIsItsBits ==
    ASSUME NEW b \in Byte
    PROVE  b = FromBits(BitsOf(b))
<1>1. b \in 0..255
    BY DEF Byte
<1>2. /\ b \div 1 = b /\ b \div 256 = 0
      /\ b \div 128 \in 0..1
    BY <1>1
<1> DEFINE w(k) == Weight((b \div k) % 2 = 1, k)
<1>3. b = w(1) + w(2) + w(4) + w(8) + w(16) + w(32) + w(64) + w(128)
    <2>1. \A k \in {1, 2, 4, 8, 16, 32, 64, 128} : w(k) = k * ((b \div k) % 2)
        <3>1. \A k \in {1, 2, 4, 8, 16, 32, 64, 128} : (b \div k) % 2 \in 0..1
            BY <1>1
        <3> QED BY <3>1 DEF Weight
    <2>2. b \div 128 = (b \div 128) % 2
        BY <1>2
    <2>3. /\ b = 2 * (b \div 2) + ((b \div 1) % 2)
          /\ b \div 2 = 2 * (b \div 4) + ((b \div 2) % 2)
          /\ b \div 4 = 2 * (b \div 8) + ((b \div 4) % 2)
          /\ b \div 8 = 2 * (b \div 16) + ((b \div 8) % 2)
          /\ b \div 16 = 2 * (b \div 32) + ((b \div 16) % 2)
          /\ b \div 32 = 2 * (b \div 64) + ((b \div 32) % 2)
          /\ b \div 64 = 2 * (b \div 128) + ((b \div 64) % 2)
        BY <1>1
    <2> HIDE DEF w
    <2> QED BY <1>1, <2>1, <2>2, <2>3
<1> QED BY <1>3, PowersOfTwo DEF FromBits, BitsOf

LEMMA WeightsAgree ==
    ASSUME NEW p \in BOOLEAN, NEW q \in BOOLEAN, NEW k \in Nat,
           NEW either, NEW both, NEW one,
           either = (p \/ q), both = (p /\ q), one = (p # q)
    PROVE  /\ Weight(either, k) + Weight(both, k) = Weight(p, k) + Weight(q, k)
           /\ Weight(one, k) + 2 * Weight(both, k) = Weight(p, k) + Weight(q, k)
<1>1. Weight(TRUE, k) = k /\ Weight(FALSE, k) = 0
    BY DEF Weight
<1>2. \/ p = TRUE /\ q = TRUE /\ either = TRUE /\ both = TRUE /\ one = FALSE
      \/ p = TRUE /\ q = FALSE /\ either = TRUE /\ both = FALSE /\ one = TRUE
      \/ p = FALSE /\ q = TRUE /\ either = TRUE /\ both = FALSE /\ one = TRUE
      \/ p = FALSE /\ q = FALSE /\ either = FALSE /\ both = FALSE /\ one = FALSE
    OBVIOUS
<1> DEFINE w(bit) == Weight(bit, k)
<1>3. \/ w(p) = k /\ w(q) = k /\ w(either) = k /\ w(both) = k /\ w(one) = 0
      \/ w(p) = k /\ w(q) = 0 /\ w(either) = k /\ w(both) = 0 /\ w(one) = k
      \/ w(p) = 0 /\ w(q) = k /\ w(either) = k /\ w(both) = 0 /\ w(one) = k
      \/ w(p) = 0 /\ w(q) = 0 /\ w(either) = 0 /\ w(both) = 0 /\ w(one) = 0
    BY <1>1, <1>2, Zenon
<1> HIDE DEF w
<1>4. w(either) + w(both) = w(p) + w(q) /\ w(one) + 2 * w(both) = w(p) + w(q)
    BY <1>3
<1> QED BY <1>4 DEF w

\* FromBits as a sum over the function that gives each bit its weight.
Weights(bits) == [i \in 0..7 |-> Weight(bits[i], 2^i)]
SumOfEight(g) == g[0] + g[1] + g[2] + g[3] + g[4] + g[5] + g[6] + g[7]

LEMMA FromBitsIsSum ==
    ASSUME NEW bits
    PROVE  /\ Weights(bits) \in [0..7 -> Nat]
           /\ FromBits(bits) = SumOfEight(Weights(bits))
<1>1. Weights(bits) \in [0..7 -> Nat]
    BY PowersOfTwo DEF Weights, Weight
<1>2. FromBits(bits) = SumOfEight(Weights(bits))
    BY PowersOfTwo DEF FromBits, SumOfEight, Weights
<1> QED BY <1>1, <1>2

LEMMA SumsAgree ==
    ASSUME NEW u \in [0..7 -> Nat], NEW v \in [0..7 -> Nat],
           NEW g \in [0..7 -> Nat], NEW h \in [0..7 -> Nat]
    PROVE  /\ (\A i \in 0..7 : u[i] + v[i] = g[i] + h[i])
                => SumOfEight(u) + SumOfEight(v) = SumOfEight(g) + SumOfEight(h)
           /\ (\A i \in 0..7 : u[i] + 2 * v[i] = g[i] + h[i])
                => SumOfEight(u) + 2 * SumOfEight(v) = SumOfEight(g) + SumOfEight(h)
<1>1. ASSUME NEW w \in [0..7 -> Nat], \A i \in 0..7 : u[i] + w[i] = g[i] + h[i]
      PROVE  SumOfEight(u) + SumOfEight(w) = SumOfEight(g) + SumOfEight(h)
    BY <1>1 DEF SumOfEight
<1> DEFINE twice == [i \in 0..7 |-> 2 * v[i]]
<1>2. twice \in [0..7 -> Nat] /\ SumOfEight(twice) = 2 * SumOfEight(v)
    BY DEF SumOfEight
<1>3. \A i \in 0..7 : twice[i] = 2 * v[i]
    OBVIOUS
<1> HIDE DEF twice
<1> QED BY <1>1, <1>2, <1>3

LEMMA LogicHolds == Operands => LogicAgreesWithSum
<1> SUFFICES ASSUME Operands PROVE LogicAgreesWithSum
    OBVIOUS
<1> DEFINE p == BitsOf(x)
           q == BitsOf(y)
<1>1. x = FromBits(p) /\ y = FromBits(q)
    BY ByteIsItsBits DEF Operands
<1>2. p \in [0..7 -> BOOLEAN] /\ q \in [0..7 -> BOOLEAN]
    BY DEF BitsOf
<1> DEFINE both == [i \in 0..7 |-> p[i] /\ q[i]]
           either == [i \in 0..7 |-> p[i] \/ q[i]]
           one == [i \in 0..7 |-> p[i] # q[i]]
<1>3. /\ AndByte(x, y) = FromBits(both) /\ OrByte(x, y) = FromBits(either)
      /\ XorByte(x, y) = FromBits(one)
    BY DEF AndByte, OrByte, XorByte, BitsOf
<1> HIDE DEF p, q
<1>4. ASSUME NEW i \in 0..7
      PROVE  /\ Weights(either)[i] + Weights(both)[i] = Weights(p)[i] + Weights(q)[i]
             /\ Weights(one)[i] + 2 * Weights(both)[i] = Weights(p)[i] + Weights(q)[i]
    <2>1. p[i] \in BOOLEAN /\ q[i] \in BOOLEAN
        BY <1>2
    <2>2. /\ either[i] = (p[i] \/ q[i]) /\ both[i] = (p[i] /\ q[i])
          /\ one[i] = (p[i] # q[i])
        OBVIOUS
    <2>3. 2^i \in Nat
        BY PowersOfTwo
    <2> HIDE DEF either, both, one
    <2>4. /\ Weight(either[i], 2^i) + Weight(both[i], 2^i)
               = Weight(p[i], 2^i) + Weight(q[i], 2^i)
          /\ Weight(one[i], 2^i) + 2 * Weight(both[i], 2^i)
               = Weight(p[i], 2^i) + Weight(q[i], 2^i)
        BY <2>1, <2>2, <2>3, WeightsAgree
    <2> QED BY <2>4 DEF Weights
<1> HIDE DEF either, both, one
<1>5. /\ Weights(either) \in [0..7 -> Nat] /\ Weights(both) \in [0..7 -> Nat]
      /\ Weights(one) \in [0..7 -> Nat]
      /\ Weights(p) \in [0..7 -> Nat] /\ Weights(q) \in [0..7 -> Nat]
    BY FromBitsIsSum
<1>6. SumOfEight(Weights(either)) + SumOfEight(Weights(both))
        = SumOfEight(Weights(p)) + SumOfEight(Weights(q))
    BY <1>4, <1>5, SumsAgree
<1>7. SumOfEight(Weights(one)) + 2 * SumOfEight(Weights(both))
        = SumOfEight(Weights(p)) + SumOfEight(Weights(q))
    BY <1>4, <1>5, SumsAgree
<1> QED BY <1>1, <1>3, <1>6, <1>7, FromBitsIsSum DEF LogicAgreesWithSum

\* or and and, xor and twice and, are the two halves of a sum, for all bytes
\* (instruction_and, instruction_or, instruction_xor, virtcore.c).
THEOREM LogicCorrect == Spec => []LogicAgreesWithSum
BY OperandsInvariant, LogicHolds, PTL
=============================================================================
