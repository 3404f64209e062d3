------------------------- MODULE ZeroRegisterProofs -------------------------
(***************************************************************************)
(* What r0 holds stays in r0 while it reads as zero: for every program,    *)
(* every content of the uninitialised RAM and every answer of the ports.   *)
(***************************************************************************)
EXTENDS ZeroRegister, VectorVMProofs

\* What the argument needs of each machine: the words that it fetches name
\* registers, and both have all of them.
PairInv == TypeOK /\ DOMAIN gprB = Register

-----------------------------------------------------------------------------
(* The operators that do not look at a machine are the same for both.      *)

LEMMA SameFields ==
    \A w : /\ Other!INS_DST(w) = INS_DST(w) /\ Other!INS_SRC1(w) = INS_SRC1(w)
           /\ Other!INS_SRC2(w) = INS_SRC2(w)
           /\ Other!INS_SRC1ALT1(w) = INS_SRC1ALT1(w)
           /\ Other!INS_SRC1ALT2(w) = INS_SRC1ALT2(w)
           /\ Other!INS_IMM8(w) = INS_IMM8(w) /\ Other!INS_ADDR(w) = INS_ADDR(w)
BY DEF INS_DST, INS_SRC1, INS_SRC2, INS_SRC1ALT1, INS_SRC1ALT2, INS_IMM8, INS_ADDR,
       Other!INS_DST, Other!INS_SRC1, Other!INS_SRC2, Other!INS_SRC1ALT1,
       Other!INS_SRC1ALT2, Other!INS_IMM8, Other!INS_ADDR

LEMMA SameDecode == \A w : Other!Decode(w) = Decode(w)
<1> SUFFICES ASSUME NEW w PROVE Other!Decode(w) = Decode(w)
    OBVIOUS
<1> DEFINE First(table, rows) ==
               IF rows = {} THEN "illegal"
               ELSE table[CHOOSE i \in rows : \A j \in rows : i <= j].instruction
<1>1. Other!isa = isa
    BY DEF Other!isa, isa, Other!Instruction, Instruction
<1>2. \A row : Other!Matches(w, row) = Matches(w, row)
    BY DEF Other!Matches, Matches, Other!Bit, Bit
<1>3. Other!MatchingRows(w) = MatchingRows(w)
    BY <1>1, <1>2 DEF Other!MatchingRows, MatchingRows
<1>4. Other!Decode(w) = First(Other!isa, Other!MatchingRows(w))
    BY DEF Other!Decode
<1>5. Decode(w) = First(isa, MatchingRows(w))
    BY DEF Decode
<1> HIDE DEF First
<1> QED BY <1>1, <1>3, <1>4, <1>5

LEMMA SameArithmetic ==
    \A a, b, c : /\ Other!AddResult(a, b) = AddResult(a, b)
                 /\ Other!SubResult(a, b) = SubResult(a, b)
                 /\ Other!AdcResult(a, b, c) = AdcResult(a, b, c)
                 /\ Other!SbcResult(a, b, c) = SbcResult(a, b, c)
BY DEF AddResult, SubResult, AdcResult, SbcResult, Negated, Other!AddResult,
       Other!SubResult, Other!AdcResult, Other!SbcResult, Other!Negated

LEMMA SameFlags ==
    \A a, b, r : /\ Other!LowByte(r) = LowByte(r)
                 /\ Other!ZeroFlag(r) = ZeroFlag(r) /\ Other!CarryFlag(r) = CarryFlag(r)
                 /\ Other!UltFlag(a, b, r) = UltFlag(a, b, r)
                 /\ Other!SltFlag(a, b, r) = SltFlag(a, b, r)
BY DEF LowByte, ZeroFlag, CarryFlag, UltFlag, SltFlag, IMM8_MSB, Other!LowByte,
       Other!ZeroFlag, Other!CarryFlag, Other!UltFlag, Other!SltFlag, Other!IMM8_MSB

LEMMA SameLogic ==
    \A a, b : /\ Other!AndByte(a, b) = AndByte(a, b) /\ Other!OrByte(a, b) = OrByte(a, b)
              /\ Other!XorByte(a, b) = XorByte(a, b) /\ Other!NotByte(a) = NotByte(a)
BY DEF AndByte, OrByte, XorByte, NotByte, FromBits, Weight, Other!AndByte,
       Other!OrByte, Other!XorByte, Other!NotByte, Other!FromBits, Other!Weight

LEMMA SameStack ==
    \A x : /\ Other!Below(x) = Below(x) /\ Other!Above(x) = Above(x)
           /\ Other!PushedPcHigh(x) = PushedPcHigh(x) /\ Other!Masked(x) = Masked(x)
BY DEF Below, Above, PushedPcHigh, Masked, Other!Below, Other!Above,
       Other!PushedPcHigh, Other!Masked

-----------------------------------------------------------------------------
(* What two machines that differ in r0 alone both read.                    *)

LEMMA AlikeParts ==
    /\ AlikeButR0 <=>
        /\ SameButR0(gpr, gprB)
        /\ pc = pcB /\ ds = dsB /\ ss_sp = ss_spB /\ zren = zrenB /\ halted = haltedB
        /\ zf = zfB /\ cf = cfB /\ lts = ltsB /\ ltu = ltuB /\ ram = ramB
    /\ AlikeButR0' <=>
        /\ SameButR0(gpr', gprB')
        /\ pc' = pcB' /\ ds' = dsB' /\ ss_sp' = ss_spB' /\ zren' = zrenB'
        /\ halted' = haltedB' /\ zf' = zfB' /\ cf' = cfB' /\ lts' = ltsB'
        /\ ltu' = ltuB' /\ ram' = ramB'
BY DEF AlikeButR0, SameButR0

LEMMA SameReads ==
    ASSUME AlikeButR0
    PROVE  /\ Other!NextPc = NextPc /\ Other!Fetch = Fetch
           /\ \A a : Other!implReadMem(a) = implReadMem(a)
           /\ \A a : Other!DsAddress(a) = DsAddress(a)
           /\ \A a : Other!ReturnAddress(a) = ReturnAddress(a)
<1>1. \A a : Other!implReadMem(a) = implReadMem(a)
    BY AlikeParts, SameStack DEF implReadMem, Other!implReadMem
<1>2. Other!NextPc = NextPc /\ \A a : Other!DsAddress(a) = DsAddress(a)
    BY AlikeParts DEF NextPc, DsAddress, Other!NextPc, Other!DsAddress
<1>3. Other!Fetch = Fetch
    BY <1>1, AlikeParts DEF Fetch, Other!Fetch
<1>4. \A a : Other!ReturnAddress(a) = ReturnAddress(a)
    BY <1>1, SameStack DEF ReturnAddress, Other!ReturnAddress
<1> QED BY <1>1, <1>2, <1>3, <1>4

\* r0 reads as zero in both, whatever it holds.
LEMMA SameSource ==
    ASSUME AlikeButR0, zren, NEW r \in Register
    PROVE  Other!Source(r) = Source(r)
<1>1. zrenB /\ SameButR0(gpr, gprB)
    BY AlikeParts
<1> QED BY <1>1 DEF Source, Other!Source, SameButR0

-----------------------------------------------------------------------------
(* The parts that the handlers share, with the same arguments in both.     *)

LEMMA LoadAlike ==
    ASSUME PairInv, AlikeButR0, NEW dst, NEW value,
           Load(dst, value), Other!Load(dst, value)
    PROVE  AlikeButR0'
<1>1. gpr' = [gpr EXCEPT ![dst] = value] /\ gprB' = [gprB EXCEPT ![dst] = value]
    BY DEF Load, Other!Load
<1>2. DOMAIN gpr = Register /\ DOMAIN gprB = Register
    BY DEF PairInv, TypeOK, CoreTypeOK
<1>3. SameButR0(gpr', gprB')
    BY <1>1, <1>2, AlikeParts DEF SameButR0
<1> QED BY <1>3, AlikeParts, SameReads DEF Load, Other!Load, flags, Other!flags

LEMMA JumpAlike ==
    ASSUME AlikeButR0, NEW address, Jump(address), Other!Jump(address)
    PROVE  AlikeButR0'
<1>1. SameButR0(gpr', gprB')
    BY AlikeParts DEF Jump, Other!Jump
<1> QED BY <1>1, AlikeParts DEF Jump, Other!Jump, flags, Other!flags

LEMMA StoreAlike ==
    ASSUME AlikeButR0, NEW address, NEW value,
           Store(address, value), Other!Store(address, value)
    PROVE  AlikeButR0'
<1>1. SameButR0(gpr', gprB')
    BY AlikeParts DEF Store, Other!Store
<1>2. ram' = ramB'
    BY AlikeParts, SameStack DEF Store, Other!Store, implWriteMem, Other!implWriteMem
<1> QED BY <1>1, <1>2, AlikeParts, SameReads DEF Store, Other!Store, flags, Other!flags

LEMMA ArithmeticAlike ==
    ASSUME PairInv, AlikeButR0, NEW dst, NEW a, NEW b, NEW result,
           Arithmetic(dst, a, b, result), Other!Arithmetic(dst, a, b, result)
    PROVE  AlikeButR0'
<1>1. /\ gpr' = [gpr EXCEPT ![dst] = LowByte(result)]
      /\ gprB' = [gprB EXCEPT ![dst] = LowByte(result)]
    BY SameFlags DEF Arithmetic, Other!Arithmetic
<1>2. DOMAIN gpr = Register /\ DOMAIN gprB = Register
    BY DEF PairInv, TypeOK, CoreTypeOK
<1>3. SameButR0(gpr', gprB')
    BY <1>1, <1>2, AlikeParts DEF SameButR0
<1>4. zf' = zfB' /\ cf' = cfB' /\ ltu' = ltuB' /\ lts' = ltsB'
    BY SameFlags DEF Arithmetic, Other!Arithmetic
<1> QED BY <1>3, <1>4, AlikeParts, SameReads DEF Arithmetic, Other!Arithmetic

LEMMA SetStackPointerAlike ==
    ASSUME AlikeButR0, NEW value, SetStackPointer(value), Other!SetStackPointer(value)
    PROVE  AlikeButR0'
<1>1. SameButR0(gpr', gprB')
    BY AlikeParts DEF SetStackPointer, Other!SetStackPointer
<1> QED BY <1>1, AlikeParts, SameReads
        DEF SetStackPointer, Other!SetStackPointer, flags, Other!flags

LEMMA HaltAlike ==
    ASSUME AlikeButR0, Halt, Other!Halt
    PROVE  AlikeButR0'
<1>1. SameButR0(gpr', gprB')
    BY AlikeParts DEF Halt, Other!Halt
<1> QED BY <1>1, AlikeParts, SameReads DEF Halt, Other!Halt, flags, Other!flags

LEMMA SetZeroRegisterAlike ==
    ASSUME AlikeButR0, NEW enabled, SetZeroRegister(enabled), Other!SetZeroRegister(enabled)
    PROVE  AlikeButR0'
<1>1. SameButR0(gpr', gprB')
    BY AlikeParts DEF SetZeroRegister, Other!SetZeroRegister
<1> QED BY <1>1, AlikeParts, SameReads
        DEF SetZeroRegister, Other!SetZeroRegister, flags, Other!flags

-----------------------------------------------------------------------------
(* The stack and the segments.                                             *)

LEMMA CallAlike ==
    ASSUME AlikeButR0, NEW w, instruction_call(w), Other!instruction_call(w)
    PROVE  AlikeButR0'
<1>1. SameButR0(gpr', gprB')
    BY AlikeParts DEF instruction_call, Other!instruction_call
<1>2. ram' = ramB' /\ ss_sp' = ss_spB' /\ pc' = pcB'
    BY AlikeParts, SameReads, SameStack, SameFields
       DEF instruction_call, Other!instruction_call
<1> QED BY <1>1, <1>2, AlikeParts
        DEF instruction_call, Other!instruction_call, flags, Other!flags

LEMMA RetAlike ==
    ASSUME AlikeButR0, instruction_ret, Other!instruction_ret
    PROVE  AlikeButR0'
<1>1. SameButR0(gpr', gprB')
    BY AlikeParts DEF instruction_ret, Other!instruction_ret
<1>2. ss_sp' = ss_spB' /\ pc' = pcB'
    BY AlikeParts, SameReads, SameStack DEF instruction_ret, Other!instruction_ret
<1> QED BY <1>1, <1>2, AlikeParts
        DEF instruction_ret, Other!instruction_ret, flags, Other!flags

LEMMA PushAlike ==
    ASSUME AlikeButR0, zren, NEW w \in Word, instruction_push(w), Other!instruction_push(w)
    PROVE  AlikeButR0'
<1>1. SameButR0(gpr', gprB')
    BY AlikeParts DEF instruction_push, Other!instruction_push
<1>2. Other!Source(Other!INS_SRC1(w)) = Source(INS_SRC1(w))
    BY FieldRanges, SameFields, SameSource
<1>3. ram' = ramB'
    BY <1>2, AlikeParts, SameStack
       DEF instruction_push, Other!instruction_push, implWriteMem, Other!implWriteMem
<1>4. ss_sp' = ss_spB' /\ pc' = pcB'
    BY AlikeParts, SameReads, SameStack DEF instruction_push, Other!instruction_push
<1> QED BY <1>1, <1>3, <1>4, AlikeParts
        DEF instruction_push, Other!instruction_push, flags, Other!flags

LEMMA PopAlike ==
    ASSUME PairInv, AlikeButR0, NEW w, instruction_pop(w), Other!instruction_pop(w)
    PROVE  AlikeButR0'
<1>1. /\ gpr' = [gpr EXCEPT ![INS_DST(w)] = implReadMem(ss_sp)]
      /\ gprB' = [gprB EXCEPT ![INS_DST(w)] = implReadMem(ss_sp)]
    BY AlikeParts, SameReads, SameFields DEF instruction_pop, Other!instruction_pop
<1>2. DOMAIN gpr = Register /\ DOMAIN gprB = Register
    BY DEF PairInv, TypeOK, CoreTypeOK
<1>3. SameButR0(gpr', gprB')
    BY <1>1, <1>2, AlikeParts DEF SameButR0
<1>4. ss_sp' = ss_spB' /\ pc' = pcB'
    BY AlikeParts, SameReads, SameStack DEF instruction_pop, Other!instruction_pop
<1> QED BY <1>3, <1>4, AlikeParts
        DEF instruction_pop, Other!instruction_pop, flags, Other!flags

LEMMA WrdsAlike ==
    ASSUME AlikeButR0, zren, NEW w \in Word, instruction_wrds(w), Other!instruction_wrds(w)
    PROVE  AlikeButR0'
<1>1. SameButR0(gpr', gprB')
    BY AlikeParts DEF instruction_wrds, Other!instruction_wrds
<1>2. ds' = dsB'
    BY FieldRanges, SameFields, SameSource DEF instruction_wrds, Other!instruction_wrds
<1> QED BY <1>1, <1>2, AlikeParts, SameReads
        DEF instruction_wrds, Other!instruction_wrds, flags, Other!flags

-----------------------------------------------------------------------------
(* The handlers, run in both machines for the same word.                   *)

LEMMA ExecuteAlike ==
    ASSUME PairInv, AlikeButR0, zren, NEW w \in Word, NEW op,
           Execute(op, w), Other!Execute(op, w),
           op # "in", ~(op = "str" /\ INS_DST(w) = 0)
    PROVE  AlikeButR0'
<1> USE FieldRanges, SameFields
<1>1. CASE op = "jmp"
    <2>1. instruction_jmp(w) /\ Other!instruction_jmp(w)
        BY <1>1 DEF Execute, Other!Execute
    <2> QED BY <2>1, JumpAlike, SameFields
            DEF instruction_jmp, Other!instruction_jmp
<1>2. CASE op = "bltu" \/ op = "bleu"
    <2>1. \/ instruction_bltu(w) /\ Other!instruction_bltu(w)
          \/ instruction_bleu(w) /\ Other!instruction_bleu(w)
        BY <1>2 DEF Execute, Other!Execute
    <2> QED BY <2>1, JumpAlike, SameFields, SameReads, AlikeParts
            DEF Branch, Other!Branch, instruction_bltu, Other!instruction_bltu,
                instruction_bleu, Other!instruction_bleu
<1>3. CASE op = "blts" \/ op = "bles"
    <2>1. \/ instruction_blts(w) /\ Other!instruction_blts(w)
          \/ instruction_bles(w) /\ Other!instruction_bles(w)
        BY <1>3 DEF Execute, Other!Execute
    <2> QED BY <2>1, JumpAlike, SameFields, SameReads, AlikeParts
            DEF Branch, Other!Branch, instruction_blts, Other!instruction_blts,
                instruction_bles, Other!instruction_bles
<1>4. CASE op = "beq" \/ op = "bne"
    <2>1. \/ instruction_beq(w) /\ Other!instruction_beq(w)
          \/ instruction_bne(w) /\ Other!instruction_bne(w)
        BY <1>4 DEF Execute, Other!Execute
    <2> QED BY <2>1, JumpAlike, SameFields, SameReads, AlikeParts
            DEF Branch, Other!Branch, instruction_beq, Other!instruction_beq,
                instruction_bne, Other!instruction_bne
<1>5. CASE op = "nop" \/ op = "out"
    <2>1. \/ instruction_nop /\ Other!instruction_nop
          \/ instruction_out /\ Other!instruction_out
        BY <1>5 DEF Execute, Other!Execute
    <2> QED BY <2>1, JumpAlike, SameReads
            DEF instruction_nop, Other!instruction_nop, instruction_out,
                Other!instruction_out
<1>6. CASE op = "halt" \/ op = "illegal"
    <2>1. \/ instruction_halt /\ Other!instruction_halt
          \/ Halt /\ Other!Halt
        BY <1>6 DEF Execute, Other!Execute
    <2> QED BY <2>1, HaltAlike
            DEF instruction_halt, Other!instruction_halt
<1>7. CASE op = "enzr" \/ op = "dszr"
    <2>1. \/ instruction_enzr /\ Other!instruction_enzr
          \/ instruction_dszr /\ Other!instruction_dszr
        BY <1>7 DEF Execute, Other!Execute
    <2> QED BY <2>1, SetZeroRegisterAlike
            DEF instruction_enzr, Other!instruction_enzr, instruction_dszr,
                Other!instruction_dszr
<1>8. CASE op = "call"
    <2>1. instruction_call(w) /\ Other!instruction_call(w)
        BY <1>8 DEF Execute, Other!Execute
    <2> QED BY <2>1, CallAlike
<1>9. CASE op = "ret"
    <2>1. instruction_ret /\ Other!instruction_ret
        BY <1>9 DEF Execute, Other!Execute
    <2> QED BY <2>1, RetAlike
<1>10. CASE op = "push"
    <2>1. instruction_push(w) /\ Other!instruction_push(w)
        BY <1>10 DEF Execute, Other!Execute
    <2> QED BY <2>1, PushAlike
<1>11. CASE op = "pop"
    <2>1. instruction_pop(w) /\ Other!instruction_pop(w)
        BY <1>11 DEF Execute, Other!Execute
    <2> QED BY <2>1, PopAlike
<1>12. CASE op = "wrds"
    <2>1. instruction_wrds(w) /\ Other!instruction_wrds(w)
        BY <1>12 DEF Execute, Other!Execute
    <2> QED BY <2>1, WrdsAlike
<1>13. CASE op = "wrss"
    <2>1. instruction_wrss(w) /\ Other!instruction_wrss(w)
        BY <1>13 DEF Execute, Other!Execute
    <2>2. Other!Source(Other!INS_SRC1(w)) = Source(INS_SRC1(w))
        BY SameSource
    <2> QED BY <2>1, <2>2, AlikeParts, SetStackPointerAlike
            DEF instruction_wrss, Other!instruction_wrss
<1>14. CASE op = "wrsp"
    <2>1. instruction_wrsp(w) /\ Other!instruction_wrsp(w)
        BY <1>14 DEF Execute, Other!Execute
    <2>2. Other!Source(Other!INS_SRC1(w)) = Source(INS_SRC1(w))
        BY SameSource
    <2> QED BY <2>1, <2>2, AlikeParts, SameLogic, SetStackPointerAlike
            DEF instruction_wrsp, Other!instruction_wrsp
<1>15. CASE op = "rdss" \/ op = "rdds" \/ op = "rdsp"
    <2>1. \/ instruction_rdss(w) /\ Other!instruction_rdss(w)
          \/ instruction_rdds(w) /\ Other!instruction_rdds(w)
          \/ instruction_rdsp(w) /\ Other!instruction_rdsp(w)
        BY <1>15 DEF Execute, Other!Execute
    <2> QED BY <2>1, AlikeParts, LoadAlike
            DEF instruction_rdss, Other!instruction_rdss, instruction_rdds,
                Other!instruction_rdds, instruction_rdsp, Other!instruction_rdsp
<1>16. CASE op = "ldi"
    <2>1. instruction_ldi(w) /\ Other!instruction_ldi(w)
        BY <1>16 DEF Execute, Other!Execute
    <2> QED BY <2>1, LoadAlike
            DEF instruction_ldi, Other!instruction_ldi
<1>17. CASE op = "mov" \/ op = "not"
    <2>1. \/ instruction_mov(w) /\ Other!instruction_mov(w)
          \/ instruction_not(w) /\ Other!instruction_not(w)
        BY <1>17 DEF Execute, Other!Execute
    <2>2. Other!Source(Other!INS_SRC1(w)) = Source(INS_SRC1(w))
        BY SameSource
    <2> QED BY <2>1, <2>2, SameLogic, LoadAlike
            DEF instruction_mov, Other!instruction_mov, instruction_not,
                Other!instruction_not
<1>18. CASE op = "ldr"
    <2>1. instruction_ldr(w) /\ Other!instruction_ldr(w)
        BY <1>18 DEF Execute, Other!Execute
    <2>2. Other!Source(Other!INS_SRC1(w)) = Source(INS_SRC1(w))
        BY SameSource
    <2> QED BY <2>1, <2>2, SameReads, LoadAlike
            DEF instruction_ldr, Other!instruction_ldr
<1>19. CASE op = "srldr"
    <2>1. instruction_srldr(w) /\ Other!instruction_srldr(w)
        BY <1>19 DEF Execute, Other!Execute
    <2> QED BY <2>1, AlikeParts, SameReads, LoadAlike
            DEF instruction_srldr, Other!instruction_srldr
<1>20. CASE op = "str"
    <2>1. instruction_str(w) /\ Other!instruction_str(w)
        BY <1>20 DEF Execute, Other!Execute
    <2>2. Other!Source(Other!INS_SRC1(w)) = Source(INS_SRC1(w))
        BY SameSource
    <2>3. gprB[INS_DST(w)] = gpr[INS_DST(w)]
        BY AlikeParts, <1>20 DEF SameButR0
    <2> QED BY <2>1, <2>2, <2>3, SameReads, StoreAlike
            DEF instruction_str, Other!instruction_str
<1>21. CASE op = "srstr"
    <2>1. instruction_srstr(w) /\ Other!instruction_srstr(w)
        BY <1>21 DEF Execute, Other!Execute
    <2>2. Other!Source(Other!INS_SRC1ALT1(w)) = Source(INS_SRC1ALT1(w))
        BY SameSource
    <2> QED BY <2>1, <2>2, AlikeParts, StoreAlike
            DEF instruction_srstr, Other!instruction_srstr
<1>22. CASE op = "add"
    <2>1. instruction_add(w) /\ Other!instruction_add(w)
        BY <1>22 DEF Execute, Other!Execute
    <2>2. /\ Other!Source(Other!INS_SRC1(w)) = Source(INS_SRC1(w))
          /\ Other!Source(Other!INS_SRC2(w)) = Source(INS_SRC2(w))
        BY SameSource
    <2> QED BY <2>1, <2>2, AlikeParts, SameArithmetic, ArithmeticAlike
            DEF instruction_add, Other!instruction_add
<1>23. CASE op = "sub"
    <2>1. instruction_sub(w) /\ Other!instruction_sub(w)
        BY <1>23 DEF Execute, Other!Execute
    <2>2. /\ Other!Source(Other!INS_SRC1(w)) = Source(INS_SRC1(w))
          /\ Other!Source(Other!INS_SRC2(w)) = Source(INS_SRC2(w))
        BY SameSource
    <2> QED BY <2>1, <2>2, AlikeParts, SameArithmetic, ArithmeticAlike
            DEF instruction_sub, Other!instruction_sub
<1>24. CASE op = "adc"
    <2>1. instruction_adc(w) /\ Other!instruction_adc(w)
        BY <1>24 DEF Execute, Other!Execute
    <2>2. /\ Other!Source(Other!INS_SRC1(w)) = Source(INS_SRC1(w))
          /\ Other!Source(Other!INS_SRC2(w)) = Source(INS_SRC2(w))
        BY SameSource
    <2> QED BY <2>1, <2>2, AlikeParts, SameArithmetic, ArithmeticAlike
            DEF instruction_adc, Other!instruction_adc
<1>25. CASE op = "sbc"
    <2>1. instruction_sbc(w) /\ Other!instruction_sbc(w)
        BY <1>25 DEF Execute, Other!Execute
    <2>2. /\ Other!Source(Other!INS_SRC1(w)) = Source(INS_SRC1(w))
          /\ Other!Source(Other!INS_SRC2(w)) = Source(INS_SRC2(w))
        BY SameSource
    <2> QED BY <2>1, <2>2, AlikeParts, SameArithmetic, ArithmeticAlike
            DEF instruction_sbc, Other!instruction_sbc
<1>26. CASE op = "addi"
    <2>1. instruction_addi(w) /\ Other!instruction_addi(w)
        BY <1>26 DEF Execute, Other!Execute
    <2>2. Other!Source(Other!INS_SRC1ALT2(w)) = Source(INS_SRC1ALT2(w))
        BY SameSource
    <2> QED BY <2>1, <2>2, SameArithmetic, ArithmeticAlike
            DEF instruction_addi, Other!instruction_addi
<1>27. CASE op = "and" \/ op = "or" \/ op = "xor"
    <2>1. \/ instruction_and(w) /\ Other!instruction_and(w)
          \/ instruction_or(w) /\ Other!instruction_or(w)
          \/ instruction_xor(w) /\ Other!instruction_xor(w)
        BY <1>27 DEF Execute, Other!Execute
    <2>2. /\ Other!Source(Other!INS_SRC1(w)) = Source(INS_SRC1(w))
          /\ Other!Source(Other!INS_SRC2(w)) = Source(INS_SRC2(w))
        BY SameSource
    <2> QED BY <2>1, <2>2, SameLogic, LoadAlike
            DEF instruction_and, Other!instruction_and, instruction_or,
                Other!instruction_or, instruction_xor, Other!instruction_xor
<1> QED BY <1>1, <1>2, <1>3, <1>4, <1>5, <1>6, <1>7, <1>8, <1>9, <1>10, <1>11,
           <1>12, <1>13, <1>14, <1>15, <1>16, <1>17, <1>18, <1>19, <1>20, <1>21,
           <1>22, <1>23, <1>24, <1>25, <1>26, <1>27
        DEF Execute

-----------------------------------------------------------------------------
(* The steps of the pair.                                                  *)

\* No instruction takes a register away from the other machine.
LEMMA OtherKeepsRegisters ==
    ASSUME DOMAIN gprB = Register, Other!Next
    PROVE  DOMAIN gprB' = Register
<1> DEFINE Kept == DOMAIN gprB' = DOMAIN gprB
<1>1. \A dst, value : Other!Load(dst, value) => Kept
    BY DEF Other!Load
<1>2. \A dst, a, b, result : Other!Arithmetic(dst, a, b, result) => Kept
    BY DEF Other!Arithmetic
<1>3. \A address : Other!Jump(address) => Kept
    BY DEF Other!Jump
<1>4. \A address, value : Other!Store(address, value) => Kept
    BY DEF Other!Store
<1>5. \A value : Other!SetStackPointer(value) => Kept
    BY DEF Other!SetStackPointer
<1>6. Other!Halt => Kept
    BY DEF Other!Halt
<1>7. \A enabled : Other!SetZeroRegister(enabled) => Kept
    BY DEF Other!SetZeroRegister
<1>8. \A w : \/ Other!instruction_call(w) \/ Other!instruction_push(w)
             \/ Other!instruction_pop(w) \/ Other!instruction_wrds(w)
             \/ Other!instruction_ret
             => Kept
    BY DEF Other!instruction_call, Other!instruction_push, Other!instruction_pop,
           Other!instruction_wrds, Other!instruction_ret
<1> HIDE DEF Kept
<1>9. \A op, w : Other!Execute(op, w) => Kept
    <2> SUFFICES ASSUME NEW op, NEW w, Other!Execute(op, w) PROVE Kept
        OBVIOUS
    <2>1. \/ Other!instruction_jmp(w) \/ Other!instruction_bltu(w)
          \/ Other!instruction_bleu(w) \/ Other!instruction_blts(w)
          \/ Other!instruction_bles(w) \/ Other!instruction_beq(w)
          \/ Other!instruction_bne(w) \/ Other!instruction_nop
          \/ Other!instruction_out
          => Kept
        BY <1>3
           DEF Other!Branch, Other!instruction_jmp, Other!instruction_bltu,
               Other!instruction_bleu, Other!instruction_blts,
               Other!instruction_bles, Other!instruction_beq, Other!instruction_bne,
               Other!instruction_nop, Other!instruction_out
    <2>2. \/ Other!instruction_rdss(w) \/ Other!instruction_rdds(w)
          \/ Other!instruction_rdsp(w) \/ Other!instruction_in(w)
          \/ Other!instruction_mov(w) \/ Other!instruction_not(w)
          \/ Other!instruction_ldr(w) \/ Other!instruction_and(w)
          \/ Other!instruction_or(w) \/ Other!instruction_xor(w)
          \/ Other!instruction_ldi(w) \/ Other!instruction_srldr(w)
          => Kept
        BY <1>1
           DEF Other!instruction_rdss, Other!instruction_rdds,
               Other!instruction_rdsp, Other!instruction_in, Other!instruction_mov,
               Other!instruction_not, Other!instruction_ldr, Other!instruction_and,
               Other!instruction_or, Other!instruction_xor, Other!instruction_ldi,
               Other!instruction_srldr
    <2>3. \/ Other!instruction_add(w) \/ Other!instruction_sub(w)
          \/ Other!instruction_adc(w) \/ Other!instruction_sbc(w)
          \/ Other!instruction_addi(w)
          => Kept
        BY <1>2
           DEF Other!instruction_add, Other!instruction_sub, Other!instruction_adc,
               Other!instruction_sbc, Other!instruction_addi
    <2>4. \/ Other!instruction_str(w) \/ Other!instruction_srstr(w)
          => Kept
        BY <1>4
           DEF Other!instruction_str, Other!instruction_srstr
    <2>5. \/ Other!instruction_wrss(w) \/ Other!instruction_wrsp(w)
          \/ Other!instruction_halt \/ Other!instruction_enzr
          \/ Other!instruction_dszr
          => Kept
        BY <1>5, <1>6, <1>7
           DEF Other!instruction_wrss, Other!instruction_wrsp,
               Other!instruction_halt, Other!instruction_enzr,
               Other!instruction_dszr
    <2> QED BY <1>6, <1>8, <2>1, <2>2, <2>3, <2>4, <2>5 DEF Other!Execute
<1>10. UNCHANGED Other!vars => Kept
    BY DEF Other!vars, Other!coreVars, Kept
<1>11. Other!vcore_step
    BY DEF Other!Next
<1>12. Kept
    BY <1>9, <1>10, <1>11 DEF Other!vcore_step
<1> QED BY <1>12 DEF Kept

LEMMA NextPair ==
    ASSUME PairInv, [PairNext]_pairVars
    PROVE  PairInv'
<1>1. TypeOK'
    BY NextType DEF PairInv, PairNext, pairVars
<1>2. DOMAIN gprB' = Register
    BY OtherKeepsRegisters DEF PairInv, PairNext, pairVars, varsB
<1> QED BY <1>1, <1>2 DEF PairInv

LEMMA StepAlike ==
    ASSUME PairInv, AlikeButR0, zren, ~Escapes, PairNext
    PROVE  AlikeButR0'
<1>1. vcore_step /\ Other!vcore_step
    BY DEF PairNext, Next, Other!Next
<1>2. halted = haltedB
    BY AlikeParts
<1>3. CASE halted
    <2>1. UNCHANGED vars /\ UNCHANGED Other!vars
        BY <1>1, <1>2, <1>3 DEF vcore_step, Other!vcore_step
    <2> QED BY <2>1, AlikeParts DEF vars, coreVars, Other!vars, Other!coreVars
<1>4. CASE ~halted
    <2>1. Execute(Decode(Fetch), Fetch)
        BY <1>1, <1>4 DEF vcore_step
    <2>2. Other!Execute(Decode(Fetch), Fetch)
        <3>1. Other!Execute(Other!Decode(Other!Fetch), Other!Fetch)
            BY <1>1, <1>2, <1>4 DEF Other!vcore_step
        <3>2. Other!Fetch = Fetch /\ Other!Decode(Fetch) = Decode(Fetch)
            BY SameReads, SameDecode
        <3> QED BY <3>1, <3>2
    <2>3. Fetch \in Word
        BY FetchRange DEF PairInv, TypeOK
    <2> QED BY <2>1, <2>2, <2>3, ExecuteAlike DEF Escapes
<1> QED BY <1>3, <1>4

\* The registers of the machine whose ports answer as they do stay in their
\* widths when a second one runs beside it (struct vcpu_core).
THEOREM PairTypeCorrect == PairSpec => []TypeOK
<1>1. PairInit => TypeOK
    BY InitType DEF PairInit
<1>2. TypeOK /\ [PairNext]_pairVars => TypeOK'
    BY NextType DEF PairNext, pairVars
<1> QED BY <1>1, <1>2, PTL DEF PairSpec

LEMMA PairInvariant == PairSpec => []PairInv
<1>1. PairInit => PairInv
    BY InitType DEF PairInit, PairInv, TypeOK, CoreTypeOK
<1>2. PairInv /\ [PairNext]_pairVars => PairInv'
    BY NextPair
<1> QED BY <1>1, <1>2, PTL DEF PairSpec

\* While enzr has r0 read as zero, no instruction but in, and str with r0 as its
\* address register (virtcore.c:71), lets what r0 holds reach anything else.
THEOREM ZeroRegisterHides == PairSpec => R0Hidden
<1>1. PairInv /\ [PairNext]_pairVars
        => [AlikeButR0 /\ zren /\ ~Escapes => AlikeButR0']_pairVars
    BY StepAlike
<1> QED BY <1>1, PairInvariant, PTL DEF PairSpec, R0Hidden
=============================================================================
