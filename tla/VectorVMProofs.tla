--------------------------- MODULE VectorVMProofs ---------------------------
(***************************************************************************)
(* Type correctness of the virtual machine, for every program, every       *)
(* content of the uninitialised RAM and every answer of the ports.  It is  *)
(* more than a formality: ss_sp and ds stay inside the 12-bit address      *)
(* space and every register inside a byte only because each handler that   *)
(* computes them masks or wraps its result.                                *)
(***************************************************************************)
EXTENDS VectorVM, TLAPS

-----------------------------------------------------------------------------
(* The operators the handlers are built from stay in their ranges.         *)

\* The types of machine words, as bounds.
LEMMA ByteBounds ==
    \A a : a \in Byte <=> a \in Nat /\ a < 256
<1>1. PICK n \in Nat : n = 255
    OBVIOUS
<1>2. Byte = 0..n
    BY <1>1 DEF Byte
<1>3. \A a : a \in 0..n <=> a \in Nat /\ a < n + 1
    OBVIOUS
<1>4. \A a : a \in Byte <=> a \in Nat /\ a < n + 1
    BY <1>2, <1>3
<1> QED BY <1>1, <1>4

LEMMA AddressBounds ==
    \A a : a \in Address <=> a \in Nat /\ a < 4096
<1>1. PICK n \in Nat : n = 4095
    OBVIOUS
<1>2. Address = 0..n
    BY <1>1 DEF Address
<1>3. \A a : a \in 0..n <=> a \in Nat /\ a < n + 1
    OBVIOUS
<1>4. \A a : a \in Address <=> a \in Nat /\ a < n + 1
    BY <1>2, <1>3
<1> QED BY <1>1, <1>4

LEMMA WordBounds ==
    \A a : a \in Word <=> a \in Nat /\ a < 65536
<1>1. PICK n \in Nat : n = 65535
    OBVIOUS
<1>2. Word = 0..n
    BY <1>1 DEF Word
<1>3. \A a : a \in 0..n <=> a \in Nat /\ a < n + 1
    OBVIOUS
<1>4. \A a : a \in Word <=> a \in Nat /\ a < n + 1
    BY <1>2, <1>3
<1> QED BY <1>1, <1>4

LEMMA WordBytes ==
    ASSUME NEW word \in Word
    PROVE  word % 256 \in Byte /\ word \div 256 \in Byte
<1>1. word \in Nat /\ word < 65536
    BY WordBounds
<1>2. word % 256 \in Byte
    BY <1>1 DEF Byte
<1>3. word \div 256 \in Byte
    BY <1>1 DEF Byte
<1> QED BY <1>2, <1>3

\* The field extractors give register numbers and bytes.
LEMMA FieldRanges ==
    ASSUME NEW w \in Word
    PROVE  /\ INS_DST(w) \in Register /\ INS_SRC1(w) \in Register
           /\ INS_SRC2(w) \in Register /\ INS_SRC1ALT1(w) \in Register
           /\ INS_SRC1ALT2(w) \in Register
           /\ INS_IMM8(w) \in Byte
           /\ INS_ADDR(w) \in Address
<1>1. w \in Nat
    BY WordBounds
<1> QED BY <1>1 DEF INS_DST, INS_SRC1, INS_SRC2, INS_SRC1ALT1, INS_SRC1ALT2,
                    INS_IMM8, INS_ADDR, Register, Byte, Address

\* The results of the arithmetic instructions are natural numbers, and what
\* reaches the register is a byte.
LEMMA ResultRanges ==
    ASSUME NEW a \in Byte, NEW b \in Byte, NEW c \in BOOLEAN
    PROVE  /\ AddResult(a, b) \in Nat /\ SubResult(a, b) \in Nat
           /\ AdcResult(a, b, c) \in Nat /\ SbcResult(a, b, c) \in Nat
BY DEF AddResult, SubResult, AdcResult, SbcResult, Negated, Byte

LEMMA LowByteRange ==
    ASSUME NEW result \in Nat
    PROVE  LowByte(result) \in Byte
BY DEF LowByte, Byte

\* The flags are Booleans.
LEMMA FlagRanges ==
    ASSUME NEW a, NEW b, NEW result
    PROVE  /\ ZeroFlag(result) \in BOOLEAN /\ CarryFlag(result) \in BOOLEAN
           /\ UltFlag(a, b, result) \in BOOLEAN /\ SltFlag(a, b, result) \in BOOLEAN
BY DEF ZeroFlag, CarryFlag, UltFlag, SltFlag, IMM8_MSB

\* Eight bits make a byte.
LEMMA FromBitsRange ==
    ASSUME NEW bits
    PROVE  FromBits(bits) \in Byte
BY DEF FromBits, Weight, Byte

LEMMA LogicRanges ==
    ASSUME NEW a \in Byte, NEW b \in Byte
    PROVE  /\ AndByte(a, b) \in Byte /\ OrByte(a, b) \in Byte
           /\ XorByte(a, b) \in Byte /\ NotByte(a) \in Byte
<1>1. AndByte(a, b) \in Byte /\ OrByte(a, b) \in Byte /\ XorByte(a, b) \in Byte
    BY FromBitsRange DEF AndByte, OrByte, XorByte
<1>2. NotByte(a) \in Byte
    BY DEF NotByte, Byte
<1> QED BY <1>1, <1>2

LEMMA MaskedRange ==
    ASSUME NEW address \in Nat
    PROVE  Masked(address) \in Address
BY DEF Masked, Address

\* Memory reads give bytes, at any address.
LEMMA ReadRange ==
    ASSUME CoreTypeOK, NEW address \in Nat
    PROVE  implReadMem(address) \in Byte
BY MaskedRange DEF CoreTypeOK, implReadMem

\* Memory writes of a byte keep memory well formed.
LEMMA WriteType ==
    ASSUME CoreTypeOK, NEW address \in Nat, NEW byte \in Byte,
           implWriteMem(address, byte)
    PROVE  ram' \in [Address -> Byte]
BY MaskedRange DEF CoreTypeOK, implWriteMem

LEMMA SourceRange ==
    ASSUME CoreTypeOK, NEW r \in Register
    PROVE  Source(r) \in Byte
BY DEF CoreTypeOK, Source, Byte

LEMMA FetchRange ==
    ASSUME CoreTypeOK
    PROVE  Fetch \in Word
<1>1. pc \in Nat /\ pc + 1 \in Nat
    BY WordBounds DEF CoreTypeOK
<1>2. implReadMem(pc) \in Byte
    BY <1>1, ReadRange
<1>3. implReadMem(pc + 1) \in Byte
    BY <1>1, ReadRange
<1>4. \A lo, hi \in Byte : lo + 256 * hi \in Word
    <2>1. \A lo, hi \in Nat : lo < 256 /\ hi < 256 =>
             lo + 256 * hi \in Nat /\ lo + 256 * hi < 65536
        OBVIOUS
    <2> QED BY <2>1, ByteBounds, WordBounds
<1> QED BY <1>2, <1>3, <1>4 DEF Fetch

LEMMA NextPcRange ==
    ASSUME CoreTypeOK
    PROVE  NextPc \in Word
<1>1. pc + 2 \in Nat
    BY WordBounds DEF CoreTypeOK
<1>2. \A n \in Nat : n % 65536 \in Word
    <2>1. \A n \in Nat : n % 65536 \in Nat /\ n % 65536 < 65536
        OBVIOUS
    <2> QED BY <2>1, WordBounds
<1> QED BY <1>1, <1>2 DEF NextPc

-----------------------------------------------------------------------------
(* The parts that the handlers share.                                      *)

LEMMA LoadType ==
    ASSUME CoreTypeOK, NEW dst \in Register, NEW value \in Byte, Load(dst, value)
    PROVE  CoreTypeOK'
BY NextPcRange DEF CoreTypeOK, Load, flags

LEMMA JumpType ==
    ASSUME CoreTypeOK, NEW address \in Word, Jump(address)
    PROVE  CoreTypeOK'
BY DEF CoreTypeOK, Jump, flags

LEMMA StoreType ==
    ASSUME CoreTypeOK, NEW address \in Nat, NEW value \in Byte,
           Store(address, value)
    PROVE  CoreTypeOK'
<1>1. ram' \in [Address -> Byte]
    BY WriteType DEF Store
<1> QED BY <1>1, NextPcRange DEF CoreTypeOK, Store, flags

LEMMA ArithmeticType ==
    ASSUME CoreTypeOK, NEW dst \in Register, NEW a, NEW b, NEW result \in Nat,
           Arithmetic(dst, a, b, result)
    PROVE  CoreTypeOK'
BY NextPcRange, LowByteRange, FlagRanges DEF CoreTypeOK, Arithmetic

LEMMA SetStackPointerType ==
    ASSUME CoreTypeOK, NEW value \in Address, SetStackPointer(value)
    PROVE  CoreTypeOK'
BY NextPcRange DEF CoreTypeOK, SetStackPointer, flags

-----------------------------------------------------------------------------
(* The stack.                                                              *)

LEMMA AddressIsWord ==
    ASSUME NEW address \in Address
    PROVE  address \in Word
BY AddressBounds, WordBounds

LEMMA AddressIsNat ==
    ASSUME NEW address \in Address
    PROVE  address \in Nat
BY DEF Address

LEMMA StackRanges ==
    ASSUME CoreTypeOK
    PROVE  /\ Below(ss_sp) \in Address /\ Below(Below(ss_sp)) \in Address
           /\ Above(ss_sp) \in Address /\ Above(Above(ss_sp)) \in Address
<1>1. \A sp \in Address : Below(sp) \in Address /\ Above(sp) \in Address
    BY DEF Below, Above, Address
<1> QED BY <1>1 DEF CoreTypeOK

LEMMA ReturnAddressRange ==
    ASSUME CoreTypeOK, NEW sp \in Address
    PROVE  ReturnAddress(sp) \in Word
<1>1. sp \in Nat /\ Above(sp) \in Nat
    BY DEF Above, Address
<1>2. implReadMem(sp) \in Byte
    BY <1>1, ReadRange
<1>3. implReadMem(Above(sp)) \in Byte
    BY <1>1, ReadRange
<1>4. \A hi, lo \in Byte : Masked(256 * hi + lo) \in Word
    <2>1. \A hi, lo \in Byte : 256 * hi + lo \in Nat
        BY ByteBounds
    <2> QED BY <2>1, MaskedRange, AddressIsWord
<1> QED BY <1>2, <1>3, <1>4 DEF ReturnAddress

LEMMA CallType ==
    ASSUME CoreTypeOK, NEW w \in Word, instruction_call(w)
    PROVE  CoreTypeOK'
<1>1. NextPc % 256 \in Byte /\ PushedPcHigh(NextPc) \in Byte
    <2>1. \A word \in Word : word % 256 \in Byte
        BY WordBytes
    <2>2. PushedPcHigh(NextPc) \in Byte
        BY DEF PushedPcHigh, Byte
    <2> QED BY <2>1, <2>2, NextPcRange
<1>2. ram' \in [Address -> Byte]
    BY <1>1, StackRanges DEF CoreTypeOK, instruction_call
<1>3. pc' \in Word
    BY FieldRanges, AddressIsWord DEF instruction_call
<1>4. ss_sp' \in Address
    BY StackRanges DEF instruction_call
<1> QED BY <1>2, <1>3, <1>4 DEF CoreTypeOK, instruction_call, flags

LEMMA PushType ==
    ASSUME CoreTypeOK, NEW w \in Word, instruction_push(w)
    PROVE  CoreTypeOK'
<1>1. Source(INS_SRC1(w)) \in Byte
    BY FieldRanges, SourceRange
<1>2. Below(ss_sp) \in Nat
    BY StackRanges, AddressIsNat
<1>3. ram' \in [Address -> Byte]
    BY <1>1, <1>2, WriteType DEF instruction_push
<1> QED BY <1>3, StackRanges, NextPcRange DEF CoreTypeOK, instruction_push, flags

LEMMA PopType ==
    ASSUME CoreTypeOK, NEW w \in Word, instruction_pop(w)
    PROVE  CoreTypeOK'
<1>1. implReadMem(ss_sp) \in Byte
    BY ReadRange, AddressIsNat DEF CoreTypeOK
<1>2. INS_DST(w) \in Register
    BY FieldRanges
<1> QED BY <1>1, <1>2, StackRanges, NextPcRange DEF CoreTypeOK, instruction_pop, flags

LEMMA StackPointerBytes ==
    ASSUME CoreTypeOK
    PROVE  ss_sp % 256 \in Byte /\ ss_sp \div 256 \in 0..15
<1>1. ss_sp \in Address
    BY DEF CoreTypeOK
<1>2. \A sp \in Address : sp % 256 \in Byte
    BY DEF Address, Byte
<1>3. \A sp \in Address : sp \div 256 \in 0..15
    BY DEF Address
<1>4. ss_sp % 256 \in Byte
    BY <1>1, <1>2
<1>5. ss_sp \div 256 \in 0..15
    BY <1>1, <1>3
<1> QED BY <1>4, <1>5

LEMMA WrspType ==
    ASSUME CoreTypeOK, NEW w \in Word, instruction_wrsp(w)
    PROVE  CoreTypeOK'
<1>1. Source(INS_SRC1(w)) \in Byte
    BY FieldRanges, SourceRange
<1>2. ss_sp % 256 \in Byte /\ ss_sp \div 256 \in 0..15
    BY StackPointerBytes
<1>3. OrByte(ss_sp % 256, Source(INS_SRC1(w))) \in Byte
    BY <1>1, <1>2, LogicRanges
<1>4. \A page \in 0..15, byte \in Byte : 256 * page + byte \in Address
    BY DEF Byte, Address
<1> QED BY <1>2, <1>3, <1>4, SetStackPointerType DEF instruction_wrsp

LEMMA WrssType ==
    ASSUME CoreTypeOK, NEW w \in Word, instruction_wrss(w)
    PROVE  CoreTypeOK'
<1>1. Source(INS_SRC1(w)) \in Byte
    BY FieldRanges, SourceRange
<1>2. (ss_sp % 256) + 256 * (Source(INS_SRC1(w)) % 16) \in Address
    <2>1. \A sp \in Address, byte \in Byte : (sp % 256) + 256 * (byte % 16) \in Address
        BY DEF Byte, Address
    <2> QED BY <1>1, <2>1 DEF CoreTypeOK
<1> QED BY <1>2, SetStackPointerType DEF instruction_wrss

LEMMA WrdsType ==
    ASSUME CoreTypeOK, NEW w \in Word, instruction_wrds(w)
    PROVE  CoreTypeOK'
<1>1. Source(INS_SRC1(w)) \in Byte
    BY FieldRanges, SourceRange
<1>2. \A byte \in Byte : byte % 16 \in 0..15
    BY DEF Byte
<1> QED BY <1>1, <1>2, NextPcRange DEF CoreTypeOK, instruction_wrds, flags

LEMMA HaltType ==
    ASSUME CoreTypeOK, Halt
    PROVE  CoreTypeOK'
BY NextPcRange DEF CoreTypeOK, Halt, flags

LEMMA SetZeroRegisterType ==
    ASSUME CoreTypeOK, NEW enabled \in BOOLEAN, SetZeroRegister(enabled)
    PROVE  CoreTypeOK'
BY NextPcRange DEF CoreTypeOK, SetZeroRegister, flags

LEMMA RetType ==
    ASSUME CoreTypeOK, instruction_ret
    PROVE  CoreTypeOK'
<1>1. ReturnAddress(ss_sp) \in Word
    BY ReturnAddressRange DEF CoreTypeOK
<1> QED BY <1>1, StackRanges DEF CoreTypeOK, instruction_ret, flags

\* The control instructions.
LEMMA BranchType ==
    ASSUME CoreTypeOK, NEW w \in Word, NEW taken, Branch(taken, w)
    PROVE  CoreTypeOK'
<1>1. INS_ADDR(w) \in Word
    BY FieldRanges, AddressIsWord
<1> QED BY <1>1, NextPcRange, JumpType DEF Branch

-----------------------------------------------------------------------------
(* The addresses of the load and store instructions.                       *)

LEMMA DsAddressRange ==
    ASSUME CoreTypeOK, NEW byte \in Byte
    PROVE  DsAddress(byte) \in Nat
<1>1. ds \in Nat /\ byte \in Nat
    BY DEF CoreTypeOK, Byte
<1> QED BY <1>1 DEF DsAddress

LEMMA StackRelativeRange ==
    ASSUME CoreTypeOK, NEW w \in Word
    PROVE  ss_sp + INS_IMM8(w) \in Nat
<1>1. ss_sp \in Nat
    BY AddressIsNat DEF CoreTypeOK
<1>2. INS_IMM8(w) \in Nat
    BY FieldRanges DEF Byte
<1> QED BY <1>1, <1>2

-----------------------------------------------------------------------------
(* What a word is decoded to, in terms of its upper and lower bits.        *)

LEMMA PowersOfTwo ==
    /\ 2^0 = 1 /\ 2^1 = 2 /\ 2^2 = 4 /\ 2^3 = 8
    /\ 2^4 = 16 /\ 2^5 = 32 /\ 2^6 = 64 /\ 2^7 = 128
    /\ 2^8 = 256 /\ 2^9 = 512 /\ 2^10 = 1024 /\ 2^11 = 2048
    /\ 2^12 = 4096 /\ 2^13 = 8192 /\ 2^14 = 16384 /\ 2^15 = 32768
OBVIOUS

\* The bits of a word, most significant first, and what they say of its parts.
BitAt(w, k) == (w \div k) % 2

LEMMA PartsOfWord ==
    ASSUME NEW w \in Nat, w < 65536
    PROVE  /\ w \div 16384 = 2 * BitAt(w, 32768) + BitAt(w, 16384)
           /\ w \div 4096 = 4 * (w \div 16384) + 2 * BitAt(w, 8192) + BitAt(w, 4096)
           /\ w \div 2048 = 2 * (w \div 4096) + BitAt(w, 2048)
           /\ w \div 256 = 8 * (w \div 2048) + 4 * BitAt(w, 1024) + 2 * BitAt(w, 512) + BitAt(w, 256)
           /\ w % 4 = 2 * BitAt(w, 2) + BitAt(w, 1)
           /\ w % 32 = 16 * BitAt(w, 16) + 8 * BitAt(w, 8) + 4 * BitAt(w, 4) + (w % 4)
           /\ w % 256 = 128 * BitAt(w, 128) + 64 * BitAt(w, 64) + 32 * BitAt(w, 32) + (w % 32)
<1> DEFINE d(k) == w \div k
<1>1. \A i \in {1, 2, 4, 8, 16, 32, 64, 128, 256, 512, 1024, 2048, 4096, 8192, 16384} :
         d(i) = 2 * d(2 * i) + BitAt(w, i)
    BY DEF BitAt
<1>2. d(65536) = 0 /\ d(1) = w
    OBVIOUS
<1> QED BY <1>1, <1>2 DEF BitAt

\* The rows of the table one by one: what a word that matches looks like, ...
LEMMA MatchesNeeds ==
    ASSUME NEW w \in Nat, w < 65536
    PROVE  /\ Matches(w, isa[1]) => w \div 4096 = 0
           /\ Matches(w, isa[2]) => w \div 4096 = 1
           /\ Matches(w, isa[3]) => w \div 4096 = 2
           /\ Matches(w, isa[4]) => w \div 4096 = 3
           /\ Matches(w, isa[5]) => w \div 4096 = 4
           /\ Matches(w, isa[6]) => w \div 4096 = 5
           /\ Matches(w, isa[7]) => w \div 4096 = 6
           /\ Matches(w, isa[8]) => w \div 4096 = 7
           /\ Matches(w, isa[9]) => w \div 2048 = 18 /\ w % 32 = 3
           /\ Matches(w, isa[10]) => w \div 2048 = 18 /\ w % 32 = 7
           /\ Matches(w, isa[11]) => w \div 2048 = 18 /\ w % 32 = 11
           /\ Matches(w, isa[12]) => w \div 2048 = 18 /\ w % 32 = 15
           /\ Matches(w, isa[13]) => w \div 2048 = 18 /\ w % 32 = 19
           /\ Matches(w, isa[14]) => w \div 2048 = 18 /\ w % 32 = 0
           /\ Matches(w, isa[15]) => w \div 2048 = 18 /\ w % 32 = 4
           /\ Matches(w, isa[16]) => w \div 2048 = 18 /\ w % 32 = 8
           /\ Matches(w, isa[17]) => w \div 2048 = 18 /\ w % 32 = 12
           /\ Matches(w, isa[18]) => w \div 2048 = 18 /\ w % 32 = 1
           /\ Matches(w, isa[19]) => w \div 2048 = 18 /\ w % 32 = 5
           /\ Matches(w, isa[20]) => w \div 2048 = 18 /\ w % 32 = 9
           /\ Matches(w, isa[21]) => w \div 2048 = 18 /\ w % 32 = 13
           /\ Matches(w, isa[22]) => w \div 2048 = 19
           /\ Matches(w, isa[23]) => w \div 2048 = 19
           /\ Matches(w, isa[24]) => w \div 2048 = 18 /\ w % 32 = 2
           /\ Matches(w, isa[25]) => w \div 2048 = 18 /\ w % 32 = 6
           /\ Matches(w, isa[26]) => w \div 2048 = 18 /\ w % 32 = 10
           /\ Matches(w, isa[27]) => w \div 2048 = 18 /\ w % 32 = 14
           /\ Matches(w, isa[28]) => w \div 2048 = 16 /\ w % 4 = 0
           /\ Matches(w, isa[29]) => w \div 2048 = 16 /\ w % 4 = 1
           /\ Matches(w, isa[30]) => w \div 2048 = 16 /\ w % 4 = 2
           /\ Matches(w, isa[31]) => w \div 2048 = 16 /\ w % 4 = 3
           /\ Matches(w, isa[32]) => w \div 2048 = 17
           /\ Matches(w, isa[33]) => w \div 2048 = 17
           /\ Matches(w, isa[34]) => w \div 2048 = 17
           /\ Matches(w, isa[35]) => w \div 2048 = 20
           /\ Matches(w, isa[36]) => w \div 2048 = 21
           /\ Matches(w, isa[37]) => w \div 2048 = 22
           /\ Matches(w, isa[38]) => w \div 16384 = 3
<1>1. Matches(w, isa[1]) => w \div 4096 = 0
    <2>1. isa[1] = Instruction(\b1111000000000000, \b0000000000000000, "jmp")
        BY DEF isa
    <2> QED BY <2>1, PowersOfTwo, PartsOfWord DEF Matches, Bit, Instruction, BitAt
<1>2. Matches(w, isa[2]) => w \div 4096 = 1
    <2>1. isa[2] = Instruction(\b1111000000000000, \b0001000000000000, "call")
        BY DEF isa
    <2> QED BY <2>1, PowersOfTwo, PartsOfWord DEF Matches, Bit, Instruction, BitAt
<1>3. Matches(w, isa[3]) => w \div 4096 = 2
    <2>1. isa[3] = Instruction(\b1111000000000000, \b0010000000000000, "bltu")
        BY DEF isa
    <2> QED BY <2>1, PowersOfTwo, PartsOfWord DEF Matches, Bit, Instruction, BitAt
<1>4. Matches(w, isa[4]) => w \div 4096 = 3
    <2>1. isa[4] = Instruction(\b1111000000000000, \b0011000000000000, "bleu")
        BY DEF isa
    <2> QED BY <2>1, PowersOfTwo, PartsOfWord DEF Matches, Bit, Instruction, BitAt
<1>5. Matches(w, isa[5]) => w \div 4096 = 4
    <2>1. isa[5] = Instruction(\b1111000000000000, \b0100000000000000, "blts")
        BY DEF isa
    <2> QED BY <2>1, PowersOfTwo, PartsOfWord DEF Matches, Bit, Instruction, BitAt
<1>6. Matches(w, isa[6]) => w \div 4096 = 5
    <2>1. isa[6] = Instruction(\b1111000000000000, \b0101000000000000, "bles")
        BY DEF isa
    <2> QED BY <2>1, PowersOfTwo, PartsOfWord DEF Matches, Bit, Instruction, BitAt
<1>7. Matches(w, isa[7]) => w \div 4096 = 6
    <2>1. isa[7] = Instruction(\b1111000000000000, \b0110000000000000, "beq")
        BY DEF isa
    <2> QED BY <2>1, PowersOfTwo, PartsOfWord DEF Matches, Bit, Instruction, BitAt
<1>8. Matches(w, isa[8]) => w \div 4096 = 7
    <2>1. isa[8] = Instruction(\b1111000000000000, \b0111000000000000, "bne")
        BY DEF isa
    <2> QED BY <2>1, PowersOfTwo, PartsOfWord DEF Matches, Bit, Instruction, BitAt
<1>9. Matches(w, isa[9]) => w \div 2048 = 18 /\ w % 32 = 3
    <2>1. isa[9] = Instruction(\b1111111111111111, \b1001000000000011, "nop")
        BY DEF isa
    <2> QED BY <2>1, PowersOfTwo, PartsOfWord DEF Matches, Bit, Instruction, BitAt
<1>10. Matches(w, isa[10]) => w \div 2048 = 18 /\ w % 32 = 7
    <2>1. isa[10] = Instruction(\b1111111111111111, \b1001000000000111, "halt")
        BY DEF isa
    <2> QED BY <2>1, PowersOfTwo, PartsOfWord DEF Matches, Bit, Instruction, BitAt
<1>11. Matches(w, isa[11]) => w \div 2048 = 18 /\ w % 32 = 11
    <2>1. isa[11] = Instruction(\b1111111111111111, \b1001000000001011, "ret")
        BY DEF isa
    <2> QED BY <2>1, PowersOfTwo, PartsOfWord DEF Matches, Bit, Instruction, BitAt
<1>12. Matches(w, isa[12]) => w \div 2048 = 18 /\ w % 32 = 15
    <2>1. isa[12] = Instruction(\b1111111111111111, \b1001000000001111, "enzr")
        BY DEF isa
    <2> QED BY <2>1, PowersOfTwo, PartsOfWord DEF Matches, Bit, Instruction, BitAt
<1>13. Matches(w, isa[13]) => w \div 2048 = 18 /\ w % 32 = 19
    <2>1. isa[13] = Instruction(\b1111111111111111, \b1001000000010011, "dszr")
        BY DEF isa
    <2> QED BY <2>1, PowersOfTwo, PartsOfWord DEF Matches, Bit, Instruction, BitAt
<1>14. Matches(w, isa[14]) => w \div 2048 = 18 /\ w % 32 = 0
    <2>1. isa[14] = Instruction(\b1111111100011111, \b1001000000000000, "push")
        BY DEF isa
    <2> QED BY <2>1, PowersOfTwo, PartsOfWord DEF Matches, Bit, Instruction, BitAt
<1>15. Matches(w, isa[15]) => w \div 2048 = 18 /\ w % 32 = 4
    <2>1. isa[15] = Instruction(\b1111111100011111, \b1001000000000100, "wrss")
        BY DEF isa
    <2> QED BY <2>1, PowersOfTwo, PartsOfWord DEF Matches, Bit, Instruction, BitAt
<1>16. Matches(w, isa[16]) => w \div 2048 = 18 /\ w % 32 = 8
    <2>1. isa[16] = Instruction(\b1111111100011111, \b1001000000001000, "wrds")
        BY DEF isa
    <2> QED BY <2>1, PowersOfTwo, PartsOfWord DEF Matches, Bit, Instruction, BitAt
<1>17. Matches(w, isa[17]) => w \div 2048 = 18 /\ w % 32 = 12
    <2>1. isa[17] = Instruction(\b1111111100011111, \b1001000000001100, "wrsp")
        BY DEF isa
    <2> QED BY <2>1, PowersOfTwo, PartsOfWord DEF Matches, Bit, Instruction, BitAt
<1>18. Matches(w, isa[18]) => w \div 2048 = 18 /\ w % 32 = 1
    <2>1. isa[18] = Instruction(\b1111100011111111, \b1001000000000001, "pop")
        BY DEF isa
    <2> QED BY <2>1, PowersOfTwo, PartsOfWord DEF Matches, Bit, Instruction, BitAt
<1>19. Matches(w, isa[19]) => w \div 2048 = 18 /\ w % 32 = 5
    <2>1. isa[19] = Instruction(\b1111100011111111, \b1001000000000101, "rdss")
        BY DEF isa
    <2> QED BY <2>1, PowersOfTwo, PartsOfWord DEF Matches, Bit, Instruction, BitAt
<1>20. Matches(w, isa[20]) => w \div 2048 = 18 /\ w % 32 = 9
    <2>1. isa[20] = Instruction(\b1111100011111111, \b1001000000001001, "rdds")
        BY DEF isa
    <2> QED BY <2>1, PowersOfTwo, PartsOfWord DEF Matches, Bit, Instruction, BitAt
<1>21. Matches(w, isa[21]) => w \div 2048 = 18 /\ w % 32 = 13
    <2>1. isa[21] = Instruction(\b1111100011111111, \b1001000000001101, "rdsp")
        BY DEF isa
    <2> QED BY <2>1, PowersOfTwo, PartsOfWord DEF Matches, Bit, Instruction, BitAt
<1>22. Matches(w, isa[22]) => w \div 2048 = 19
    <2>1. isa[22] = Instruction(\b1111111100000011, \b1001100000000000, "out")
        BY DEF isa
    <2> QED BY <2>1, PowersOfTwo, PartsOfWord DEF Matches, Bit, Instruction, BitAt
<1>23. Matches(w, isa[23]) => w \div 2048 = 19
    <2>1. isa[23] = Instruction(\b1111100011100011, \b1001100000000001, "in")
        BY DEF isa
    <2> QED BY <2>1, PowersOfTwo, PartsOfWord DEF Matches, Bit, Instruction, BitAt
<1>24. Matches(w, isa[24]) => w \div 2048 = 18 /\ w % 32 = 2
    <2>1. isa[24] = Instruction(\b1111100000011111, \b1001000000000010, "mov")
        BY DEF isa
    <2> QED BY <2>1, PowersOfTwo, PartsOfWord DEF Matches, Bit, Instruction, BitAt
<1>25. Matches(w, isa[25]) => w \div 2048 = 18 /\ w % 32 = 6
    <2>1. isa[25] = Instruction(\b1111100000011111, \b1001000000000110, "not")
        BY DEF isa
    <2> QED BY <2>1, PowersOfTwo, PartsOfWord DEF Matches, Bit, Instruction, BitAt
<1>26. Matches(w, isa[26]) => w \div 2048 = 18 /\ w % 32 = 10
    <2>1. isa[26] = Instruction(\b1111100000011111, \b1001000000001010, "ldr")
        BY DEF isa
    <2> QED BY <2>1, PowersOfTwo, PartsOfWord DEF Matches, Bit, Instruction, BitAt
<1>27. Matches(w, isa[27]) => w \div 2048 = 18 /\ w % 32 = 14
    <2>1. isa[27] = Instruction(\b1111100000011111, \b1001000000001110, "str")
        BY DEF isa
    <2> QED BY <2>1, PowersOfTwo, PartsOfWord DEF Matches, Bit, Instruction, BitAt
<1>28. Matches(w, isa[28]) => w \div 2048 = 16 /\ w % 4 = 0
    <2>1. isa[28] = Instruction(\b1111100000000011, \b1000000000000000, "add")
        BY DEF isa
    <2> QED BY <2>1, PowersOfTwo, PartsOfWord DEF Matches, Bit, Instruction, BitAt
<1>29. Matches(w, isa[29]) => w \div 2048 = 16 /\ w % 4 = 1
    <2>1. isa[29] = Instruction(\b1111100000000011, \b1000000000000001, "sub")
        BY DEF isa
    <2> QED BY <2>1, PowersOfTwo, PartsOfWord DEF Matches, Bit, Instruction, BitAt
<1>30. Matches(w, isa[30]) => w \div 2048 = 16 /\ w % 4 = 2
    <2>1. isa[30] = Instruction(\b1111100000000011, \b1000000000000010, "adc")
        BY DEF isa
    <2> QED BY <2>1, PowersOfTwo, PartsOfWord DEF Matches, Bit, Instruction, BitAt
<1>31. Matches(w, isa[31]) => w \div 2048 = 16 /\ w % 4 = 3
    <2>1. isa[31] = Instruction(\b1111100000000011, \b1000000000000011, "sbc")
        BY DEF isa
    <2> QED BY <2>1, PowersOfTwo, PartsOfWord DEF Matches, Bit, Instruction, BitAt
<1>32. Matches(w, isa[32]) => w \div 2048 = 17
    <2>1. isa[32] = Instruction(\b1111100000000011, \b1000100000000000, "and")
        BY DEF isa
    <2> QED BY <2>1, PowersOfTwo, PartsOfWord DEF Matches, Bit, Instruction, BitAt
<1>33. Matches(w, isa[33]) => w \div 2048 = 17
    <2>1. isa[33] = Instruction(\b1111100000000011, \b1000100000000001, "or")
        BY DEF isa
    <2> QED BY <2>1, PowersOfTwo, PartsOfWord DEF Matches, Bit, Instruction, BitAt
<1>34. Matches(w, isa[34]) => w \div 2048 = 17
    <2>1. isa[34] = Instruction(\b1111100000000011, \b1000100000000010, "xor")
        BY DEF isa
    <2> QED BY <2>1, PowersOfTwo, PartsOfWord DEF Matches, Bit, Instruction, BitAt
<1>35. Matches(w, isa[35]) => w \div 2048 = 20
    <2>1. isa[35] = Instruction(\b1111100000000000, \b1010000000000000, "ldi")
        BY DEF isa
    <2> QED BY <2>1, PowersOfTwo, PartsOfWord DEF Matches, Bit, Instruction, BitAt
<1>36. Matches(w, isa[36]) => w \div 2048 = 21
    <2>1. isa[36] = Instruction(\b1111100000000000, \b1010100000000000, "srldr")
        BY DEF isa
    <2> QED BY <2>1, PowersOfTwo, PartsOfWord DEF Matches, Bit, Instruction, BitAt
<1>37. Matches(w, isa[37]) => w \div 2048 = 22
    <2>1. isa[37] = Instruction(\b1111100000000000, \b1011000000000000, "srstr")
        BY DEF isa
    <2> QED BY <2>1, PowersOfTwo, PartsOfWord DEF Matches, Bit, Instruction, BitAt
<1>38. Matches(w, isa[38]) => w \div 16384 = 3
    <2>1. isa[38] = Instruction(\b1100000000000000, \b1100000000000000, "addi")
        BY DEF isa
    <2> QED BY <2>1, PowersOfTwo, PartsOfWord DEF Matches, Bit, Instruction, BitAt
<1> QED
    BY <1>1, <1>2, <1>3, <1>4, <1>5, <1>6, <1>7, <1>8, <1>9, <1>10,
       <1>11, <1>12, <1>13, <1>14, <1>15, <1>16, <1>17, <1>18, <1>19, <1>20,
       <1>21, <1>22, <1>23, <1>24, <1>25, <1>26, <1>27, <1>28, <1>29, <1>30,
       <1>31, <1>32, <1>33, <1>34, <1>35, <1>36, <1>37, <1>38

\* The comparison of vcore_step bit by bit.
BitsMatch(w, row) ==
    /\ Bit(row.opcodeMask, 0) = (Bit(w, 0) /\ Bit(row.checkMask, 0))
    /\ Bit(row.opcodeMask, 1) = (Bit(w, 1) /\ Bit(row.checkMask, 1))
    /\ Bit(row.opcodeMask, 2) = (Bit(w, 2) /\ Bit(row.checkMask, 2))
    /\ Bit(row.opcodeMask, 3) = (Bit(w, 3) /\ Bit(row.checkMask, 3))
    /\ Bit(row.opcodeMask, 4) = (Bit(w, 4) /\ Bit(row.checkMask, 4))
    /\ Bit(row.opcodeMask, 5) = (Bit(w, 5) /\ Bit(row.checkMask, 5))
    /\ Bit(row.opcodeMask, 6) = (Bit(w, 6) /\ Bit(row.checkMask, 6))
    /\ Bit(row.opcodeMask, 7) = (Bit(w, 7) /\ Bit(row.checkMask, 7))
    /\ Bit(row.opcodeMask, 8) = (Bit(w, 8) /\ Bit(row.checkMask, 8))
    /\ Bit(row.opcodeMask, 9) = (Bit(w, 9) /\ Bit(row.checkMask, 9))
    /\ Bit(row.opcodeMask, 10) = (Bit(w, 10) /\ Bit(row.checkMask, 10))
    /\ Bit(row.opcodeMask, 11) = (Bit(w, 11) /\ Bit(row.checkMask, 11))
    /\ Bit(row.opcodeMask, 12) = (Bit(w, 12) /\ Bit(row.checkMask, 12))
    /\ Bit(row.opcodeMask, 13) = (Bit(w, 13) /\ Bit(row.checkMask, 13))
    /\ Bit(row.opcodeMask, 14) = (Bit(w, 14) /\ Bit(row.checkMask, 14))
    /\ Bit(row.opcodeMask, 15) = (Bit(w, 15) /\ Bit(row.checkMask, 15))

LEMMA BitByBit ==
    ASSUME NEW w, NEW row, BitsMatch(w, row)
    PROVE  Matches(w, row)
<1>1. \A i \in 0..15 : i \in {0, 1, 2, 3, 4, 5, 6, 7, 8, 9, 10, 11, 12, 13, 14, 15}
    OBVIOUS
<1> QED BY <1>1 DEF Matches, BitsMatch

\* ... and the words that match, for the rows that the program of main uses.
LEMMA MatchesWhen ==
    ASSUME NEW w \in Nat, w < 65536
    PROVE  /\ w \div 4096 = 1 => Matches(w, isa[2])
           /\ w \div 4096 = 6 => Matches(w, isa[7])
           /\ w = 36871 => Matches(w, isa[10])
           /\ w = 36875 => Matches(w, isa[11])
           /\ w \div 256 = 144 /\ w % 32 = 0 => Matches(w, isa[14])
           /\ w \div 256 = 144 /\ w % 32 = 4 => Matches(w, isa[15])
           /\ w \div 256 = 144 /\ w % 32 = 8 => Matches(w, isa[16])
           /\ w \div 256 = 144 /\ w % 32 = 12 => Matches(w, isa[17])
           /\ w \div 2048 = 18 /\ w % 256 = 1 => Matches(w, isa[18])
           /\ w \div 2048 = 16 /\ w % 4 = 0 => Matches(w, isa[28])
           /\ w \div 2048 = 16 /\ w % 4 = 2 => Matches(w, isa[30])
           /\ w \div 2048 = 20 => Matches(w, isa[35])
           /\ w \div 16384 = 3 => Matches(w, isa[38])
<1>1. w \div 4096 = 1 => Matches(w, isa[2])
    <2>1. isa[2] = Instruction(\b1111000000000000, \b0001000000000000, "call")
        BY DEF isa
    <2>2. w \div 4096 = 1 =>
          /\ (w \div 32768) % 2 = 0 /\ (w \div 16384) % 2 = 0 /\ (w \div 8192) % 2 = 0
          /\ (w \div 4096) % 2 = 1
        OBVIOUS
    <2>3. w \div 4096 = 1 => BitsMatch(w, isa[2])
        BY <2>1, <2>2, PowersOfTwo DEF BitsMatch, Bit, Instruction
    <2> QED BY <2>3, BitByBit
<1>2. w \div 4096 = 6 => Matches(w, isa[7])
    <2>1. isa[7] = Instruction(\b1111000000000000, \b0110000000000000, "beq")
        BY DEF isa
    <2>2. w \div 4096 = 6 =>
          /\ (w \div 32768) % 2 = 0 /\ (w \div 16384) % 2 = 1 /\ (w \div 8192) % 2 = 1
          /\ (w \div 4096) % 2 = 0
        OBVIOUS
    <2>3. w \div 4096 = 6 => BitsMatch(w, isa[7])
        BY <2>1, <2>2, PowersOfTwo DEF BitsMatch, Bit, Instruction
    <2> QED BY <2>3, BitByBit
<1>3. w = 36871 => Matches(w, isa[10])
    <2>1. isa[10] = Instruction(\b1111111111111111, \b1001000000000111, "halt")
        BY DEF isa
    <2>2. w = 36871 =>
          /\ (w \div 32768) % 2 = 1 /\ (w \div 16384) % 2 = 0 /\ (w \div 8192) % 2 = 0
          /\ (w \div 4096) % 2 = 1 /\ (w \div 2048) % 2 = 0 /\ (w \div 1024) % 2 = 0
          /\ (w \div 512) % 2 = 0 /\ (w \div 256) % 2 = 0 /\ (w \div 128) % 2 = 0
          /\ (w \div 64) % 2 = 0 /\ (w \div 32) % 2 = 0 /\ (w \div 16) % 2 = 0
          /\ (w \div 8) % 2 = 0 /\ (w \div 4) % 2 = 1 /\ (w \div 2) % 2 = 1
          /\ (w \div 1) % 2 = 1
        OBVIOUS
    <2>3. w = 36871 => BitsMatch(w, isa[10])
        BY <2>1, <2>2, PowersOfTwo DEF BitsMatch, Bit, Instruction
    <2> QED BY <2>3, BitByBit
<1>4. w = 36875 => Matches(w, isa[11])
    <2>1. isa[11] = Instruction(\b1111111111111111, \b1001000000001011, "ret")
        BY DEF isa
    <2>2. w = 36875 =>
          /\ (w \div 32768) % 2 = 1 /\ (w \div 16384) % 2 = 0 /\ (w \div 8192) % 2 = 0
          /\ (w \div 4096) % 2 = 1 /\ (w \div 2048) % 2 = 0 /\ (w \div 1024) % 2 = 0
          /\ (w \div 512) % 2 = 0 /\ (w \div 256) % 2 = 0 /\ (w \div 128) % 2 = 0
          /\ (w \div 64) % 2 = 0 /\ (w \div 32) % 2 = 0 /\ (w \div 16) % 2 = 0
          /\ (w \div 8) % 2 = 1 /\ (w \div 4) % 2 = 0 /\ (w \div 2) % 2 = 1
          /\ (w \div 1) % 2 = 1
        OBVIOUS
    <2>3. w = 36875 => BitsMatch(w, isa[11])
        BY <2>1, <2>2, PowersOfTwo DEF BitsMatch, Bit, Instruction
    <2> QED BY <2>3, BitByBit
<1>5. w \div 256 = 144 /\ w % 32 = 0 => Matches(w, isa[14])
    <2>1. isa[14] = Instruction(\b1111111100011111, \b1001000000000000, "push")
        BY DEF isa
    <2>2. w \div 256 = 144 /\ w % 32 = 0 =>
          /\ (w \div 32768) % 2 = 1 /\ (w \div 16384) % 2 = 0 /\ (w \div 8192) % 2 = 0
          /\ (w \div 4096) % 2 = 1 /\ (w \div 2048) % 2 = 0 /\ (w \div 1024) % 2 = 0
          /\ (w \div 512) % 2 = 0 /\ (w \div 256) % 2 = 0 /\ (w \div 16) % 2 = 0
          /\ (w \div 8) % 2 = 0 /\ (w \div 4) % 2 = 0 /\ (w \div 2) % 2 = 0
          /\ (w \div 1) % 2 = 0
        OBVIOUS
    <2>3. w \div 256 = 144 /\ w % 32 = 0 => BitsMatch(w, isa[14])
        BY <2>1, <2>2, PowersOfTwo DEF BitsMatch, Bit, Instruction
    <2> QED BY <2>3, BitByBit
<1>6. w \div 256 = 144 /\ w % 32 = 4 => Matches(w, isa[15])
    <2>1. isa[15] = Instruction(\b1111111100011111, \b1001000000000100, "wrss")
        BY DEF isa
    <2>2. w \div 256 = 144 /\ w % 32 = 4 =>
          /\ (w \div 32768) % 2 = 1 /\ (w \div 16384) % 2 = 0 /\ (w \div 8192) % 2 = 0
          /\ (w \div 4096) % 2 = 1 /\ (w \div 2048) % 2 = 0 /\ (w \div 1024) % 2 = 0
          /\ (w \div 512) % 2 = 0 /\ (w \div 256) % 2 = 0 /\ (w \div 16) % 2 = 0
          /\ (w \div 8) % 2 = 0 /\ (w \div 4) % 2 = 1 /\ (w \div 2) % 2 = 0
          /\ (w \div 1) % 2 = 0
        OBVIOUS
    <2>3. w \div 256 = 144 /\ w % 32 = 4 => BitsMatch(w, isa[15])
        BY <2>1, <2>2, PowersOfTwo DEF BitsMatch, Bit, Instruction
    <2> QED BY <2>3, BitByBit
<1>7. w \div 256 = 144 /\ w % 32 = 8 => Matches(w, isa[16])
    <2>1. isa[16] = Instruction(\b1111111100011111, \b1001000000001000, "wrds")
        BY DEF isa
    <2>2. w \div 256 = 144 /\ w % 32 = 8 =>
          /\ (w \div 32768) % 2 = 1 /\ (w \div 16384) % 2 = 0 /\ (w \div 8192) % 2 = 0
          /\ (w \div 4096) % 2 = 1 /\ (w \div 2048) % 2 = 0 /\ (w \div 1024) % 2 = 0
          /\ (w \div 512) % 2 = 0 /\ (w \div 256) % 2 = 0 /\ (w \div 16) % 2 = 0
          /\ (w \div 8) % 2 = 1 /\ (w \div 4) % 2 = 0 /\ (w \div 2) % 2 = 0
          /\ (w \div 1) % 2 = 0
        OBVIOUS
    <2>3. w \div 256 = 144 /\ w % 32 = 8 => BitsMatch(w, isa[16])
        BY <2>1, <2>2, PowersOfTwo DEF BitsMatch, Bit, Instruction
    <2> QED BY <2>3, BitByBit
<1>8. w \div 256 = 144 /\ w % 32 = 12 => Matches(w, isa[17])
    <2>1. isa[17] = Instruction(\b1111111100011111, \b1001000000001100, "wrsp")
        BY DEF isa
    <2>2. w \div 256 = 144 /\ w % 32 = 12 =>
          /\ (w \div 32768) % 2 = 1 /\ (w \div 16384) % 2 = 0 /\ (w \div 8192) % 2 = 0
          /\ (w \div 4096) % 2 = 1 /\ (w \div 2048) % 2 = 0 /\ (w \div 1024) % 2 = 0
          /\ (w \div 512) % 2 = 0 /\ (w \div 256) % 2 = 0 /\ (w \div 16) % 2 = 0
          /\ (w \div 8) % 2 = 1 /\ (w \div 4) % 2 = 1 /\ (w \div 2) % 2 = 0
          /\ (w \div 1) % 2 = 0
        OBVIOUS
    <2>3. w \div 256 = 144 /\ w % 32 = 12 => BitsMatch(w, isa[17])
        BY <2>1, <2>2, PowersOfTwo DEF BitsMatch, Bit, Instruction
    <2> QED BY <2>3, BitByBit
<1>9. w \div 2048 = 18 /\ w % 256 = 1 => Matches(w, isa[18])
    <2>1. isa[18] = Instruction(\b1111100011111111, \b1001000000000001, "pop")
        BY DEF isa
    <2>2. w \div 2048 = 18 /\ w % 256 = 1 =>
          /\ (w \div 32768) % 2 = 1 /\ (w \div 16384) % 2 = 0 /\ (w \div 8192) % 2 = 0
          /\ (w \div 4096) % 2 = 1 /\ (w \div 2048) % 2 = 0 /\ (w \div 128) % 2 = 0
          /\ (w \div 64) % 2 = 0 /\ (w \div 32) % 2 = 0 /\ (w \div 16) % 2 = 0
          /\ (w \div 8) % 2 = 0 /\ (w \div 4) % 2 = 0 /\ (w \div 2) % 2 = 0
          /\ (w \div 1) % 2 = 1
        OBVIOUS
    <2>3. w \div 2048 = 18 /\ w % 256 = 1 => BitsMatch(w, isa[18])
        BY <2>1, <2>2, PowersOfTwo DEF BitsMatch, Bit, Instruction
    <2> QED BY <2>3, BitByBit
<1>10. w \div 2048 = 16 /\ w % 4 = 0 => Matches(w, isa[28])
    <2>1. isa[28] = Instruction(\b1111100000000011, \b1000000000000000, "add")
        BY DEF isa
    <2>2. w \div 2048 = 16 /\ w % 4 = 0 =>
          /\ (w \div 32768) % 2 = 1 /\ (w \div 16384) % 2 = 0 /\ (w \div 8192) % 2 = 0
          /\ (w \div 4096) % 2 = 0 /\ (w \div 2048) % 2 = 0 /\ (w \div 2) % 2 = 0
          /\ (w \div 1) % 2 = 0
        OBVIOUS
    <2>3. w \div 2048 = 16 /\ w % 4 = 0 => BitsMatch(w, isa[28])
        BY <2>1, <2>2, PowersOfTwo DEF BitsMatch, Bit, Instruction
    <2> QED BY <2>3, BitByBit
<1>11. w \div 2048 = 16 /\ w % 4 = 2 => Matches(w, isa[30])
    <2>1. isa[30] = Instruction(\b1111100000000011, \b1000000000000010, "adc")
        BY DEF isa
    <2>2. w \div 2048 = 16 /\ w % 4 = 2 =>
          /\ (w \div 32768) % 2 = 1 /\ (w \div 16384) % 2 = 0 /\ (w \div 8192) % 2 = 0
          /\ (w \div 4096) % 2 = 0 /\ (w \div 2048) % 2 = 0 /\ (w \div 2) % 2 = 1
          /\ (w \div 1) % 2 = 0
        OBVIOUS
    <2>3. w \div 2048 = 16 /\ w % 4 = 2 => BitsMatch(w, isa[30])
        BY <2>1, <2>2, PowersOfTwo DEF BitsMatch, Bit, Instruction
    <2> QED BY <2>3, BitByBit
<1>12. w \div 2048 = 20 => Matches(w, isa[35])
    <2>1. isa[35] = Instruction(\b1111100000000000, \b1010000000000000, "ldi")
        BY DEF isa
    <2>2. w \div 2048 = 20 =>
          /\ (w \div 32768) % 2 = 1 /\ (w \div 16384) % 2 = 0 /\ (w \div 8192) % 2 = 1
          /\ (w \div 4096) % 2 = 0 /\ (w \div 2048) % 2 = 0
        OBVIOUS
    <2>3. w \div 2048 = 20 => BitsMatch(w, isa[35])
        BY <2>1, <2>2, PowersOfTwo DEF BitsMatch, Bit, Instruction
    <2> QED BY <2>3, BitByBit
<1>13. w \div 16384 = 3 => Matches(w, isa[38])
    <2>1. isa[38] = Instruction(\b1100000000000000, \b1100000000000000, "addi")
        BY DEF isa
    <2>2. w \div 16384 = 3 =>
          /\ (w \div 32768) % 2 = 1 /\ (w \div 16384) % 2 = 1
        OBVIOUS
    <2>3. w \div 16384 = 3 => BitsMatch(w, isa[38])
        BY <2>1, <2>2, PowersOfTwo DEF BitsMatch, Bit, Instruction
    <2> QED BY <2>3, BitByBit
<1> QED
    BY <1>1, <1>2, <1>3, <1>4, <1>5, <1>6, <1>7, <1>8, <1>9, <1>10, <1>11,
       <1>12, <1>13

\* The only row that matches is the one that the step takes.
LEMMA OnlyRow ==
    ASSUME NEW w, NEW k \in DOMAIN isa, Matches(w, isa[k]),
           \A i \in DOMAIN isa : Matches(w, isa[i]) => i = k
    PROVE  Decode(w) = isa[k].instruction
<1>1. MatchingRows(w) = {k}
    BY DEF MatchingRows
<1>2. k = CHOOSE i \in {k} : \A j \in {k} : i <= j
    <2>1. DOMAIN isa \subseteq Nat
        BY DEF isa
    <2> QED BY <2>1
<1> HIDE DEF isa
<1> QED BY <1>1, <1>2 DEF Decode

LEMMA RowsAre ==
    DOMAIN isa = 1..38
BY DEF isa

\* No two rows match one word, so that these are decoded to these rows.
LEMMA Decodes ==
    ASSUME NEW w \in Nat, w < 65536
    PROVE  /\ w \div 4096 = 1 => Decode(w) = "call"
           /\ w \div 4096 = 6 => Decode(w) = "beq"
           /\ w = 36871 => Decode(w) = "halt"
           /\ w = 36875 => Decode(w) = "ret"
           /\ w \div 256 = 144 /\ w % 32 = 0 => Decode(w) = "push"
           /\ w \div 256 = 144 /\ w % 32 = 4 => Decode(w) = "wrss"
           /\ w \div 256 = 144 /\ w % 32 = 8 => Decode(w) = "wrds"
           /\ w \div 256 = 144 /\ w % 32 = 12 => Decode(w) = "wrsp"
           /\ w \div 2048 = 18 /\ w % 256 = 1 => Decode(w) = "pop"
           /\ w \div 2048 = 16 /\ w % 4 = 0 => Decode(w) = "add"
           /\ w \div 2048 = 16 /\ w % 4 = 2 => Decode(w) = "adc"
           /\ w \div 2048 = 20 => Decode(w) = "ldi"
           /\ w \div 16384 = 3 => Decode(w) = "addi"
<1>1. \A i \in 1..38 : i \in {1, 2, 3, 4, 5, 6, 7, 8, 9, 10, 11, 12, 13, 14, 15, 16, 17, 18, 19,
            20, 21, 22, 23, 24, 25, 26, 27, 28, 29, 30, 31, 32, 33, 34, 35, 36, 37, 38}
    OBVIOUS
<1>2. ASSUME w \div 4096 = 1
      PROVE  Decode(w) = "call"
    <2>1. \A i \in 1..38 : Matches(w, isa[i]) => i = 2
        BY <1>1, <1>2, MatchesNeeds
    <2>2. Matches(w, isa[2])
        BY <1>2, MatchesWhen
    <2>3. isa[2].instruction = "call"
        BY DEF isa, Instruction
    <2> QED BY <2>1, <2>2, <2>3, RowsAre, OnlyRow
<1>3. ASSUME w \div 4096 = 6
      PROVE  Decode(w) = "beq"
    <2>1. \A i \in 1..38 : Matches(w, isa[i]) => i = 7
        BY <1>1, <1>3, MatchesNeeds
    <2>2. Matches(w, isa[7])
        BY <1>3, MatchesWhen
    <2>3. isa[7].instruction = "beq"
        BY DEF isa, Instruction
    <2> QED BY <2>1, <2>2, <2>3, RowsAre, OnlyRow
<1>4. ASSUME w = 36871
      PROVE  Decode(w) = "halt"
    <2>1. \A i \in 1..38 : Matches(w, isa[i]) => i = 10
        BY <1>1, <1>4, MatchesNeeds
    <2>2. Matches(w, isa[10])
        BY <1>4, MatchesWhen
    <2>3. isa[10].instruction = "halt"
        BY DEF isa, Instruction
    <2> QED BY <2>1, <2>2, <2>3, RowsAre, OnlyRow
<1>5. ASSUME w = 36875
      PROVE  Decode(w) = "ret"
    <2>1. \A i \in 1..38 : Matches(w, isa[i]) => i = 11
        BY <1>1, <1>5, MatchesNeeds
    <2>2. Matches(w, isa[11])
        BY <1>5, MatchesWhen
    <2>3. isa[11].instruction = "ret"
        BY DEF isa, Instruction
    <2> QED BY <2>1, <2>2, <2>3, RowsAre, OnlyRow
<1>6. ASSUME w \div 256 = 144 /\ w % 32 = 0
      PROVE  Decode(w) = "push"
    <2>1. \A i \in 1..38 : Matches(w, isa[i]) => i = 14
        BY <1>1, <1>6, MatchesNeeds
    <2>2. Matches(w, isa[14])
        BY <1>6, MatchesWhen
    <2>3. isa[14].instruction = "push"
        BY DEF isa, Instruction
    <2> QED BY <2>1, <2>2, <2>3, RowsAre, OnlyRow
<1>7. ASSUME w \div 256 = 144 /\ w % 32 = 4
      PROVE  Decode(w) = "wrss"
    <2>1. \A i \in 1..38 : Matches(w, isa[i]) => i = 15
        BY <1>1, <1>7, MatchesNeeds
    <2>2. Matches(w, isa[15])
        BY <1>7, MatchesWhen
    <2>3. isa[15].instruction = "wrss"
        BY DEF isa, Instruction
    <2> QED BY <2>1, <2>2, <2>3, RowsAre, OnlyRow
<1>8. ASSUME w \div 256 = 144 /\ w % 32 = 8
      PROVE  Decode(w) = "wrds"
    <2>1. \A i \in 1..38 : Matches(w, isa[i]) => i = 16
        BY <1>1, <1>8, MatchesNeeds
    <2>2. Matches(w, isa[16])
        BY <1>8, MatchesWhen
    <2>3. isa[16].instruction = "wrds"
        BY DEF isa, Instruction
    <2> QED BY <2>1, <2>2, <2>3, RowsAre, OnlyRow
<1>9. ASSUME w \div 256 = 144 /\ w % 32 = 12
      PROVE  Decode(w) = "wrsp"
    <2>1. \A i \in 1..38 : Matches(w, isa[i]) => i = 17
        BY <1>1, <1>9, MatchesNeeds
    <2>2. Matches(w, isa[17])
        BY <1>9, MatchesWhen
    <2>3. isa[17].instruction = "wrsp"
        BY DEF isa, Instruction
    <2> QED BY <2>1, <2>2, <2>3, RowsAre, OnlyRow
<1>10. ASSUME w \div 2048 = 18 /\ w % 256 = 1
      PROVE  Decode(w) = "pop"
    <2>1. \A i \in 1..38 : Matches(w, isa[i]) => i = 18
        BY <1>1, <1>10, MatchesNeeds
    <2>2. Matches(w, isa[18])
        BY <1>10, MatchesWhen
    <2>3. isa[18].instruction = "pop"
        BY DEF isa, Instruction
    <2> QED BY <2>1, <2>2, <2>3, RowsAre, OnlyRow
<1>11. ASSUME w \div 2048 = 16 /\ w % 4 = 0
      PROVE  Decode(w) = "add"
    <2>1. \A i \in 1..38 : Matches(w, isa[i]) => i = 28
        BY <1>1, <1>11, MatchesNeeds
    <2>2. Matches(w, isa[28])
        BY <1>11, MatchesWhen
    <2>3. isa[28].instruction = "add"
        BY DEF isa, Instruction
    <2> QED BY <2>1, <2>2, <2>3, RowsAre, OnlyRow
<1>12. ASSUME w \div 2048 = 16 /\ w % 4 = 2
      PROVE  Decode(w) = "adc"
    <2>1. \A i \in 1..38 : Matches(w, isa[i]) => i = 30
        BY <1>1, <1>12, MatchesNeeds
    <2>2. Matches(w, isa[30])
        BY <1>12, MatchesWhen
    <2>3. isa[30].instruction = "adc"
        BY DEF isa, Instruction
    <2> QED BY <2>1, <2>2, <2>3, RowsAre, OnlyRow
<1>13. ASSUME w \div 2048 = 20
      PROVE  Decode(w) = "ldi"
    <2>1. \A i \in 1..38 : Matches(w, isa[i]) => i = 35
        BY <1>1, <1>13, MatchesNeeds
    <2>2. Matches(w, isa[35])
        BY <1>13, MatchesWhen
    <2>3. isa[35].instruction = "ldi"
        BY DEF isa, Instruction
    <2> QED BY <2>1, <2>2, <2>3, RowsAre, OnlyRow
<1>14. ASSUME w \div 16384 = 3
      PROVE  Decode(w) = "addi"
    <2>1. \A i \in 1..38 : Matches(w, isa[i]) => i = 38
        BY <1>1, <1>14, MatchesNeeds
    <2>2. Matches(w, isa[38])
        BY <1>14, MatchesWhen
    <2>3. isa[38].instruction = "addi"
        BY DEF isa, Instruction
    <2> QED BY <2>1, <2>2, <2>3, RowsAre, OnlyRow
<1> QED
    BY <1>2, <1>3, <1>4, <1>5, <1>6, <1>7, <1>8, <1>9, <1>10, <1>11,
       <1>12, <1>13, <1>14

-----------------------------------------------------------------------------
(* The handlers, and the step that dispatches to them.                     *)

THEOREM ExecuteType ==
    ASSUME CoreTypeOK, NEW w \in Word, NEW op, Execute(op, w)
    PROVE  CoreTypeOK'
<1> USE FieldRanges
<1>1. CASE instruction_jmp(w)
    BY <1>1, AddressIsWord, JumpType DEF instruction_jmp
<1>2. CASE instruction_call(w)
    BY <1>2, CallType
<1>3. CASE instruction_bltu(w) \/ instruction_bleu(w)
    BY <1>3, BranchType DEF instruction_bltu, instruction_bleu
<1>4. CASE instruction_blts(w) \/ instruction_bles(w)
    BY <1>4, BranchType DEF instruction_blts, instruction_bles
<1>5. CASE instruction_beq(w) \/ instruction_bne(w)
    BY <1>5, BranchType DEF instruction_beq, instruction_bne
<1>6. CASE instruction_nop \/ instruction_out
    BY <1>6, NextPcRange, JumpType DEF instruction_nop, instruction_out
<1>7. CASE instruction_halt \/ Halt
    BY <1>7, HaltType DEF instruction_halt
<1>8. CASE instruction_ret
    BY <1>8, RetType
<1>9. CASE instruction_enzr \/ instruction_dszr
    BY <1>9, SetZeroRegisterType DEF instruction_enzr, instruction_dszr
<1>10. CASE instruction_push(w)
    BY <1>10, PushType
<1>11. CASE instruction_wrss(w)
    BY <1>11, WrssType
<1>12. CASE instruction_wrds(w)
    BY <1>12, WrdsType
<1>13. CASE instruction_wrsp(w)
    BY <1>13, WrspType
<1>14. CASE instruction_pop(w)
    BY <1>14, PopType
<1>15. CASE instruction_rdss(w) \/ instruction_rdds(w) \/ instruction_rdsp(w)
    <2>1. ss_sp \div 256 \in Byte /\ ss_sp % 256 \in Byte /\ ds \in Byte
        BY StackPointerBytes DEF CoreTypeOK, Byte
    <2> QED BY <1>15, <2>1, LoadType DEF instruction_rdss, instruction_rdds, instruction_rdsp
<1>16. CASE instruction_in(w)
    BY <1>16, PortInputAssumption, LoadType DEF instruction_in
<1>17. CASE instruction_mov(w) \/ instruction_not(w)
    <2>1. NotByte(Source(INS_SRC1(w))) \in Byte
        BY SourceRange, LogicRanges
    <2> QED BY <1>17, <2>1, SourceRange, LoadType DEF instruction_mov, instruction_not
<1>18. CASE instruction_ldr(w)
    <2>1. DsAddress(Source(INS_SRC1(w))) \in Nat
        BY SourceRange, DsAddressRange
    <2>2. implReadMem(DsAddress(Source(INS_SRC1(w)))) \in Byte
        BY <2>1, ReadRange
    <2> QED BY <1>18, <2>2, LoadType DEF instruction_ldr
<1>19. CASE instruction_str(w)
    <2>1. gpr[INS_DST(w)] \in Byte
        BY DEF CoreTypeOK
    <2>2. DsAddress(gpr[INS_DST(w)]) \in Nat
        BY <2>1, DsAddressRange
    <2> QED BY <1>19, <2>2, SourceRange, StoreType DEF instruction_str
<1>20. CASE instruction_srldr(w)
    <2>1. implReadMem(ss_sp + INS_IMM8(w)) \in Byte
        BY StackRelativeRange, ReadRange
    <2> QED BY <1>20, <2>1, LoadType DEF instruction_srldr
<1>21. CASE instruction_srstr(w)
    BY <1>21, StackRelativeRange, SourceRange, StoreType DEF instruction_srstr
<1>22. CASE \/ instruction_add(w) \/ instruction_sub(w) \/ instruction_adc(w)
            \/ instruction_sbc(w) \/ instruction_addi(w)
    <2> DEFINE Results(a, b) == {AddResult(a, b), SubResult(a, b),
                                 AdcResult(a, b, cf), SbcResult(a, b, cf)}
    <2>1. \A a, b \in Byte : \A result \in Results(a, b) : result \in Nat
        BY ResultRanges DEF CoreTypeOK
    <2>2. \E a, b \in Byte : \E result \in Results(a, b) :
             Arithmetic(INS_DST(w), a, b, result)
        BY <1>22, SourceRange DEF instruction_add, instruction_sub,
           instruction_adc, instruction_sbc, instruction_addi
    <2> QED BY <2>1, <2>2, ArithmeticType
<1>23. CASE instruction_and(w) \/ instruction_or(w) \/ instruction_xor(w)
    <2>1. Source(INS_SRC1(w)) \in Byte /\ Source(INS_SRC2(w)) \in Byte
        BY SourceRange
    <2> QED BY <1>23, <2>1, LogicRanges, LoadType
            DEF instruction_and, instruction_or, instruction_xor
<1>24. CASE instruction_ldi(w)
    BY <1>24, LoadType DEF instruction_ldi
<1> QED
    BY <1>1, <1>2, <1>3, <1>4, <1>5, <1>6, <1>7, <1>8, <1>9, <1>10, <1>11,
       <1>12, <1>13, <1>14, <1>15, <1>16, <1>17, <1>18, <1>19, <1>20, <1>21,
       <1>22, <1>23, <1>24 DEF Execute

LEMMA StepType ==
    ASSUME CoreTypeOK, vcore_step
    PROVE  CoreTypeOK'
<1>1. CASE halted /\ UNCHANGED vars
    BY <1>1 DEF CoreTypeOK, vars, coreVars
<1>2. CASE \E w \in {Fetch} : \E op \in {Decode(w)} : Execute(op, w)
    BY <1>2, FetchRange, ExecuteType
<1> QED BY <1>1, <1>2 DEF vcore_step

-----------------------------------------------------------------------------
(* The machine.                                                            *)

LEMMA ProgramByteRange ==
    ASSUME NEW p \in Seq(Word), NEW address \in Image(p)
    PROVE  ProgramByte(p, address) \in Byte
<1>1. Len(p) \in Nat /\ address \in 0..(2 * Len(p) - 1)
    BY DEF Image
<1>2. address \div 2 + 1 \in 1..Len(p)
    BY <1>1
<1>3. p[address \div 2 + 1] \in Word
    BY <1>2
<1> QED BY <1>3, WordBytes DEF ProgramByte

\* main's initialisation leaves a well-formed machine.
LEMMA InitType == Init => TypeOK
<1> SUFFICES ASSUME Init PROVE TypeOK
    OBVIOUS
<1>1. program \in Programs /\ program \in Seq(Word)
    BY ProgramsAssumption DEF Init
<1>2. PICK heap \in Heap :
         ram = [address \in Address |->
                   IF address \in Image(program)
                   THEN ProgramByte(program, address)
                   ELSE heap[address]]
    BY DEF Init
<1>3. heap \in [Address -> Byte]
    BY HeapAssumption
<1>4. ram \in [Address -> Byte]
    BY <1>1, <1>2, <1>3, ProgramByteRange
<1>5. gpr \in [Register -> Byte]
    BY DEF Init, Byte
<1>6. pc \in Word /\ ds \in 0..15 /\ ss_sp \in Address
    <2>1. pc = 0 /\ ds = 0 /\ ss_sp = 0
        BY DEF Init
    <2> QED BY <2>1, AddressBounds, WordBounds
<1> QED BY <1>1, <1>4, <1>5, <1>6 DEF Init, TypeOK, CoreTypeOK

LEMMA NextType == TypeOK /\ [Next]_vmVars => TypeOK'
<1> SUFFICES ASSUME TypeOK, [Next]_vmVars PROVE TypeOK'
    OBVIOUS
<1>1. CASE Next
    BY <1>1, StepType DEF Next, TypeOK
<1>2. CASE UNCHANGED vmVars
    BY <1>2 DEF TypeOK, CoreTypeOK, vmVars, vars, coreVars
<1> QED BY <1>1, <1>2

\* Whatever program main is built with and whatever the RAM held before, the
\* machine's registers stay in their widths: the program counter in 16 bits, the
\* stack pointer in 12, the data segment in 4, registers and RAM in 8.
THEOREM TypeCorrect == Spec => []TypeOK
BY InitType, NextType, PTL DEF Spec
=============================================================================
