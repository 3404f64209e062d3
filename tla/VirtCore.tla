------------------------------ MODULE VirtCore ------------------------------
(***************************************************************************)
(* The CPU core of vectorvm/src/virtcore.c: struct vcpu_core, one action   *)
(* for each instruction handler, and vcore_step, which fetches a word,     *)
(* decodes it and runs the handler.  The core reaches memory and ports     *)
(* through callbacks; they are bound here as vectorvm/src/main.c binds     *)
(* them, to a 4096-byte array and to stub ports: a write to a port is      *)
(* dropped, a read gives a value of PortInput.                             *)
(***************************************************************************)
EXTENDS Isa, Alu

CONSTANT PortInput    \* the bytes that readPort may return

ASSUME PortInputAssumption == PortInput \subseteq Byte

Address == 0..4095    \* what an address is after the callbacks' mask
Register == 0..7

VARIABLES
    gpr,      \* the registers r0..r7
    pc,       \* program counter, a uint16_t the core never masks
    ds,       \* data segment: bits 11..8 of the addresses of ldr and str
    ss_sp,    \* stack segment and stack pointer in one 12-bit address
    zren,     \* r0 reads as zero
    halted,
    zf, cf, lts, ltu,
    ram       \* what readMem and writeMem reach

flags == <<zf, cf, lts, ltu>>
coreVars == <<gpr, pc, ds, ss_sp, zren, halted, zf, cf, lts, ltu>>
vars == <<coreVars, ram>>

-----------------------------------------------------------------------------
(* Memory and register access.                                             *)

Masked(address) == address % 4096    \* addr & 0b111111111111

implReadMem(address) == ram[Masked(address)]
implWriteMem(address, byte) == ram' = [ram EXCEPT ![Masked(address)] = byte]

\* A source operand: r0 reads as zero while the zero register is enabled.
Source(r) == IF r = 0 /\ zren THEN 0 ELSE gpr[r]

NextPc == (pc + 2) % 65536
Fetch == implReadMem(pc) + 256 * implReadMem(pc + 1)

DsAddress(byte) == ds * 256 + byte

\* Mutant: the stack grows upwards.
Below_Upwards(sp) == (sp + 1) % 4096

\* The slots that the next push and the one after it write.
Below(sp) == (sp + 4095) % 4096
Above(sp) == (sp + 1) % 4096

-----------------------------------------------------------------------------
(* What most handlers have in common.                                      *)

\* Only the registers change, besides the program counter.
Load(dst, value) ==
    /\ gpr' = [gpr EXCEPT ![dst] = value]
    /\ pc' = NextPc
    /\ UNCHANGED <<ds, ss_sp, zren, halted, flags, ram>>

Jump(address) ==
    /\ pc' = address
    /\ UNCHANGED <<gpr, ds, ss_sp, zren, halted, flags, ram>>

Branch(taken, w) == Jump(IF taken THEN INS_ADDR(w) ELSE NextPc)

Store(address, value) ==
    /\ implWriteMem(address, value)
    /\ pc' = NextPc
    /\ UNCHANGED <<gpr, ds, ss_sp, zren, halted, flags>>

\* The register and the flags after an arithmetic instruction on a and b.
Arithmetic(dst, a, b, result) ==
    /\ gpr' = [gpr EXCEPT ![dst] = LowByte(result)]
    /\ zf' = ZeroFlag(result)
    /\ cf' = CarryFlag(result)
    /\ ltu' = UltFlag(a, b, result)
    /\ lts' = SltFlag(a, b, result)
    /\ pc' = NextPc
    /\ UNCHANGED <<ds, ss_sp, zren, halted, ram>>

-----------------------------------------------------------------------------
(* Control.                                                                *)

instruction_nop == Jump(NextPc)

Halt ==
    /\ halted' = TRUE
    /\ pc' = NextPc
    /\ UNCHANGED <<gpr, ds, ss_sp, zren, flags, ram>>

instruction_halt == Halt

SetZeroRegister(enabled) ==
    /\ zren' = enabled
    /\ pc' = NextPc
    /\ UNCHANGED <<gpr, ds, ss_sp, halted, flags, ram>>

instruction_enzr == SetZeroRegister(TRUE)
instruction_dszr == SetZeroRegister(FALSE)

instruction_jmp(w)  == Jump(INS_ADDR(w))
instruction_bltu(w) == Branch(ltu, w)
instruction_bleu(w) == Branch(ltu \/ zf, w)
instruction_blts(w) == Branch(lts, w)
instruction_bles(w) == Branch(lts \/ zf, w)
instruction_beq(w)  == Branch(zf, w)
instruction_bne(w)  == Branch(~zf, w)

\* The high byte is pushed as (old_pc >> 8) && 0b1111: a logical and, 0 or 1.
PushedPcHigh(old_pc) == IF old_pc \div 256 # 0 THEN 1 ELSE 0

\* Mutant: the address of the call itself is pushed.
instruction_call_OwnAddress(w) ==
    LET lo == Below(ss_sp)
        hi == Below(lo)
    IN  /\ ram' = [ram EXCEPT ![lo] = pc % 256, ![hi] = PushedPcHigh(pc)]
        /\ ss_sp' = hi
        /\ pc' = INS_ADDR(w)
        /\ UNCHANGED <<gpr, ds, zren, halted, flags>>

\* Mutant: the high byte is pushed first.
instruction_call_HighFirst(w) ==
    LET first  == Below(ss_sp)
        second == Below(first)
    IN  /\ ram' = [ram EXCEPT ![first] = PushedPcHigh(NextPc), ![second] = NextPc % 256]
        /\ ss_sp' = second
        /\ pc' = INS_ADDR(w)
        /\ UNCHANGED <<gpr, ds, zren, halted, flags>>

\* The low byte of the return address is pushed first, the high byte below it.
instruction_call(w) ==
    LET lo == Below(ss_sp)
        hi == Below(lo)
    IN  /\ ram' = [ram EXCEPT ![lo] = NextPc % 256, ![hi] = PushedPcHigh(NextPc)]
        /\ ss_sp' = hi
        /\ pc' = INS_ADDR(w)
        /\ UNCHANGED <<gpr, ds, zren, halted, flags>>

ReturnAddress(sp) == Masked(256 * implReadMem(sp) + implReadMem(Above(sp)))

instruction_ret ==
    /\ pc' = ReturnAddress(ss_sp)
    /\ ss_sp' = Above(Above(ss_sp))
    /\ UNCHANGED <<gpr, ds, zren, halted, flags, ram>>

-----------------------------------------------------------------------------
(* Segment and stack-pointer registers.                                    *)

SetStackPointer(value) ==
    /\ ss_sp' = value
    /\ pc' = NextPc
    /\ UNCHANGED <<gpr, ds, zren, halted, flags, ram>>

instruction_wrss(w) ==
    SetStackPointer((ss_sp % 256) + 256 * (Source(INS_SRC1(w)) % 16))

\* ss_sp |= byte: the low byte is or-ed with the operand, never replaced.
instruction_wrsp(w) ==
    SetStackPointer(256 * (ss_sp \div 256) + OrByte(ss_sp % 256, Source(INS_SRC1(w))))

\* Mutant: the operand is not cut to four bits.
instruction_wrds_Unmasked(w) ==
    /\ ds' = Source(INS_SRC1(w))
    /\ pc' = NextPc
    /\ UNCHANGED <<gpr, ss_sp, zren, halted, flags, ram>>

instruction_wrds(w) ==
    /\ ds' = Source(INS_SRC1(w)) % 16
    /\ pc' = NextPc
    /\ UNCHANGED <<gpr, ss_sp, zren, halted, flags, ram>>

instruction_rdss(w) == Load(INS_DST(w), ss_sp \div 256)
instruction_rdds(w) == Load(INS_DST(w), ds)
instruction_rdsp(w) == Load(INS_DST(w), ss_sp % 256)

-----------------------------------------------------------------------------
(* Moves, memory and ports.                                                *)

instruction_ldi(w) == Load(INS_DST(w), INS_IMM8(w))
instruction_mov(w) == Load(INS_DST(w), Source(INS_SRC1(w)))
instruction_not(w) == Load(INS_DST(w), NotByte(Source(INS_SRC1(w))))
instruction_ldr(w) ==
    Load(INS_DST(w), implReadMem(DsAddress(Source(INS_SRC1(w)))))

\* The address register is read without regard to the zero register.
instruction_str(w) == Store(DsAddress(gpr[INS_DST(w)]), Source(INS_SRC1(w)))

instruction_srldr(w) == Load(INS_DST(w), implReadMem(ss_sp + INS_IMM8(w)))
\* Mutant: the zero register is not consulted.
instruction_srstr_RawR0(w) == Store(ss_sp + INS_IMM8(w), gpr[INS_SRC1ALT1(w)])
instruction_srstr(w) == Store(ss_sp + INS_IMM8(w), Source(INS_SRC1ALT1(w)))

\* Mutant: the byte is written before the stack pointer moves.
instruction_push_BeforeMoving(w) ==
    /\ ss_sp' = Below(ss_sp)
    /\ implWriteMem(ss_sp, Source(INS_SRC1(w)))
    /\ pc' = NextPc
    /\ UNCHANGED <<gpr, ds, zren, halted, flags>>

instruction_push(w) ==
    /\ ss_sp' = Below(ss_sp)
    /\ implWriteMem(Below(ss_sp), Source(INS_SRC1(w)))
    /\ pc' = NextPc
    /\ UNCHANGED <<gpr, ds, zren, halted, flags>>

\* Mutant: the stack pointer stays where it is.
instruction_pop_Peek(w) == Load(INS_DST(w), implReadMem(ss_sp))

instruction_pop(w) ==
    /\ gpr' = [gpr EXCEPT ![INS_DST(w)] = implReadMem(ss_sp)]
    /\ ss_sp' = Above(ss_sp)
    /\ pc' = NextPc
    /\ UNCHANGED <<ds, zren, halted, flags, ram>>

instruction_in(w) == \E byte \in PortInput : Load(INS_DST(w), byte)
instruction_out == Jump(NextPc)

-----------------------------------------------------------------------------
(* Arithmetic and logic.                                                   *)

\* Mutant: the first operand is read twice.
instruction_add_SameOperand(w) ==
    LET a == Source(INS_SRC1(w))
    IN Arithmetic(INS_DST(w), a, a, AddResult(a, a))

instruction_add(w) ==
    LET a == Source(INS_SRC1(w))
        b == Source(INS_SRC2(w))
    IN Arithmetic(INS_DST(w), a, b, AddResult(a, b))

instruction_sub(w) ==
    LET a == Source(INS_SRC1(w))
        b == Source(INS_SRC2(w))
    IN Arithmetic(INS_DST(w), a, b, SubResult(a, b))

instruction_adc(w) ==
    LET a == Source(INS_SRC1(w))
        b == Source(INS_SRC2(w))
    IN Arithmetic(INS_DST(w), a, b, AdcResult(a, b, cf))

instruction_sbc(w) ==
    LET a == Source(INS_SRC1(w))
        b == Source(INS_SRC2(w))
    IN Arithmetic(INS_DST(w), a, b, SbcResult(a, b, cf))

instruction_addi(w) ==
    LET a == INS_IMM8(w)
        b == Source(INS_SRC1ALT2(w))
    IN Arithmetic(INS_DST(w), a, b, AddResult(a, b))

instruction_and(w) ==
    Load(INS_DST(w), AndByte(Source(INS_SRC1(w)), Source(INS_SRC2(w))))
instruction_or(w) ==
    Load(INS_DST(w), OrByte(Source(INS_SRC1(w)), Source(INS_SRC2(w))))
instruction_xor(w) ==
    Load(INS_DST(w), XorByte(Source(INS_SRC1(w)), Source(INS_SRC2(w))))

-----------------------------------------------------------------------------
(* The handler that the table names for the word; a word that no row       *)
(* matches halts the core.                                                 *)

Execute(op, w) ==
    \/ op = "jmp"   /\ instruction_jmp(w)
    \/ op = "call"  /\ instruction_call(w)
    \/ op = "bltu"  /\ instruction_bltu(w)
    \/ op = "bleu"  /\ instruction_bleu(w)
    \/ op = "blts"  /\ instruction_blts(w)
    \/ op = "bles"  /\ instruction_bles(w)
    \/ op = "beq"   /\ instruction_beq(w)
    \/ op = "bne"   /\ instruction_bne(w)
    \/ op = "nop"   /\ instruction_nop
    \/ op = "halt"  /\ instruction_halt
    \/ op = "ret"   /\ instruction_ret
    \/ op = "enzr"  /\ instruction_enzr
    \/ op = "dszr"  /\ instruction_dszr
    \/ op = "push"  /\ instruction_push(w)
    \/ op = "wrss"  /\ instruction_wrss(w)
    \/ op = "wrds"  /\ instruction_wrds(w)
    \/ op = "wrsp"  /\ instruction_wrsp(w)
    \/ op = "pop"   /\ instruction_pop(w)
    \/ op = "rdss"  /\ instruction_rdss(w)
    \/ op = "rdds"  /\ instruction_rdds(w)
    \/ op = "rdsp"  /\ instruction_rdsp(w)
    \/ op = "out"   /\ instruction_out
    \/ op = "in"    /\ instruction_in(w)
    \/ op = "mov"   /\ instruction_mov(w)
    \/ op = "not"   /\ instruction_not(w)
    \/ op = "ldr"   /\ instruction_ldr(w)
    \/ op = "str"   /\ instruction_str(w)
    \/ op = "add"   /\ instruction_add(w)
    \/ op = "sub"   /\ instruction_sub(w)
    \/ op = "adc"   /\ instruction_adc(w)
    \/ op = "sbc"   /\ instruction_sbc(w)
    \/ op = "and"   /\ instruction_and(w)
    \/ op = "or"    /\ instruction_or(w)
    \/ op = "xor"   /\ instruction_xor(w)
    \/ op = "ldi"   /\ instruction_ldi(w)
    \/ op = "srldr" /\ instruction_srldr(w)
    \/ op = "srstr" /\ instruction_srstr(w)
    \/ op = "addi"  /\ instruction_addi(w)
    \/ op = "illegal" /\ Halt

\* A halted core stays as it is.
vcore_step ==
    \/ ~halted /\ \E w \in {Fetch} : \E op \in {Decode(w)} : Execute(op, w)
    \/ halted /\ UNCHANGED vars

CoreTypeOK ==
    /\ gpr \in [Register -> Byte]
    /\ pc \in Word
    /\ ds \in 0..15
    /\ ss_sp \in Address
    /\ zren \in BOOLEAN /\ halted \in BOOLEAN
    /\ zf \in BOOLEAN /\ cf \in BOOLEAN /\ lts \in BOOLEAN /\ ltu \in BOOLEAN
    /\ ram \in [Address -> Byte]
=============================================================================
