-------------------------------- MODULE Isa --------------------------------
(***************************************************************************)
(* The instruction set of the vector CPU: the field extractors and the     *)
(* table `isa` of vectorvm/src/virtcore.c, by which a step decodes a word, *)
(* and the MKC_ / MKI_ macros of vectorvm/src/virtcore.h, by which         *)
(* programs are written.  Both sides are translated literally, so that     *)
(* their agreement is something to check (MCIsa).                          *)
(***************************************************************************)
EXTENDS Naturals, Sequences

Byte == 0..255
Word == 0..65535          \* uint16_t

Bit(x, i) == (x \div 2^i) % 2 = 1

-----------------------------------------------------------------------------
(* The operand fields of an instruction word.                              *)

INS_ADDR(w)     == w % 4096
INS_PID(w)      == (w \div 4) % 8
INS_IMM8(w)     == w % 256
INS_DST(w)      == (w \div 256) % 8
INS_SRC1(w)     == (w \div 32) % 8
INS_SRC2(w)     == (w \div 4) % 8
\* Mutant: srstr's operand taken from where the other instructions have it.
INS_SRC1ALT1_AsSrc1(w) == (w \div 32) % 8
INS_SRC1ALT1(w) == (w \div 256) % 8
INS_SRC1ALT2(w) == (w \div 2048) % 8

-----------------------------------------------------------------------------
(* struct instruction: a word is the instruction when its bits under       *)
(* checkMask are those of opcodeMask.                                      *)

Instruction(checkMask, opcodeMask, instruction) ==
    [checkMask |-> checkMask, opcodeMask |-> opcodeMask,
     instruction |-> instruction]

isa == <<
    Instruction(\b1111000000000000, \b0000000000000000, "jmp"),
    Instruction(\b1111000000000000, \b0001000000000000, "call"),
    Instruction(\b1111000000000000, \b0010000000000000, "bltu"),
    Instruction(\b1111000000000000, \b0011000000000000, "bleu"),
    Instruction(\b1111000000000000, \b0100000000000000, "blts"),
    Instruction(\b1111000000000000, \b0101000000000000, "bles"),
    Instruction(\b1111000000000000, \b0110000000000000, "beq"),
    Instruction(\b1111000000000000, \b0111000000000000, "bne"),
    Instruction(\b1111111111111111, \b1001000000000011, "nop"),
    Instruction(\b1111111111111111, \b1001000000000111, "halt"),
    Instruction(\b1111111111111111, \b1001000000001011, "ret"),
    Instruction(\b1111111111111111, \b1001000000001111, "enzr"),
    Instruction(\b1111111111111111, \b1001000000010011, "dszr"),
    Instruction(\b1111111100011111, \b1001000000000000, "push"),
    Instruction(\b1111111100011111, \b1001000000000100, "wrss"),
    Instruction(\b1111111100011111, \b1001000000001000, "wrds"),
    Instruction(\b1111111100011111, \b1001000000001100, "wrsp"),
    Instruction(\b1111100011111111, \b1001000000000001, "pop"),
    Instruction(\b1111100011111111, \b1001000000000101, "rdss"),
    Instruction(\b1111100011111111, \b1001000000001001, "rdds"),
    Instruction(\b1111100011111111, \b1001000000001101, "rdsp"),
    Instruction(\b1111111100000011, \b1001100000000000, "out"),
    Instruction(\b1111100011100011, \b1001100000000001, "in"),
    Instruction(\b1111100000011111, \b1001000000000010, "mov"),
    Instruction(\b1111100000011111, \b1001000000000110, "not"),
    Instruction(\b1111100000011111, \b1001000000001010, "ldr"),
    Instruction(\b1111100000011111, \b1001000000001110, "str"),
    Instruction(\b1111100000000011, \b1000000000000000, "add"),
    Instruction(\b1111100000000011, \b1000000000000001, "sub"),
    Instruction(\b1111100000000011, \b1000000000000010, "adc"),
    Instruction(\b1111100000000011, \b1000000000000011, "sbc"),
    Instruction(\b1111100000000011, \b1000100000000000, "and"),
    Instruction(\b1111100000000011, \b1000100000000001, "or"),
    Instruction(\b1111100000000011, \b1000100000000010, "xor"),
    Instruction(\b1111100000000000, \b1010000000000000, "ldi"),
    Instruction(\b1111100000000000, \b1010100000000000, "srldr"),
    Instruction(\b1111100000000000, \b1011000000000000, "srstr"),
    Instruction(\b1100000000000000, \b1100000000000000, "addi") >>

\* Mutant: the check mask is forgotten, the set bits of the opcode suffice.
Matches_NoCheckMask(w, row) == \A i \in 0..15 : Bit(row.opcodeMask, i) => Bit(w, i)

\* (instruction & checkMask) == opcodeMask, bit by bit.
Matches(w, row) ==
    \A i \in 0..15 :
        Bit(row.opcodeMask, i) = (Bit(w, i) /\ Bit(row.checkMask, i))

MatchingRows(w) == {i \in DOMAIN isa : Matches(w, isa[i])}

\* The loop of vcore_step takes the first row that matches; a word that no
\* row matches is an illegal instruction.
Decode(w) ==
    LET rows == MatchingRows(w)
    IN IF rows = {} THEN "illegal"
       ELSE isa[CHOOSE i \in rows : \A j \in rows : i <= j].instruction

-----------------------------------------------------------------------------
(* The encoding macros.  The fields of one instruction never overlap, so   *)
(* the macros' bitwise or is a sum.                                        *)

MKC_ADDR(x)     == x % 4096
MKC_PID(x)      == (x % 8) * 4
MKC_IMM8(x)     == x % 256
MKC_DST(x)      == (x % 8) * 256
MKC_SRC1(x)     == (x % 8) * 32
MKC_SRC2(x)     == (x % 8) * 4
MKC_SRC1ALT1(x) == (x % 8) * 256
MKC_SRC1ALT2(x) == (x % 8) * 2048

MKI_JMP(addr)  == \b0000000000000000 + MKC_ADDR(addr)
MKI_CALL(addr) == \b0001000000000000 + MKC_ADDR(addr)
MKI_BLTU(addr) == \b0010000000000000 + MKC_ADDR(addr)
MKI_BLEU(addr) == \b0011000000000000 + MKC_ADDR(addr)
MKI_BLTS(addr) == \b0100000000000000 + MKC_ADDR(addr)
MKI_BLES(addr) == \b0101000000000000 + MKC_ADDR(addr)
MKI_BEQ(addr)  == \b0110000000000000 + MKC_ADDR(addr)
MKI_BNE(addr)  == \b0111000000000000 + MKC_ADDR(addr)

MKI_NOP  == \b1001000000000011
MKI_HALT == \b1001000000000111
MKI_RET  == \b1001000000001011
MKI_ENZR == \b1001000000001111
MKI_DSZR == \b1001000000010011

MKI_PUSH(src) == \b1001000000000000 + MKC_SRC1(src)
MKI_WRSS(src) == \b1001000000000100 + MKC_SRC1(src)
MKI_WRDS(src) == \b1001000000001000 + MKC_SRC1(src)
MKI_WRSP(src) == \b1001000000001100 + MKC_SRC1(src)

MKI_POP(dst)  == \b1001000000000001 + MKC_DST(dst)
MKI_RDSS(dst) == \b1001000000000101 + MKC_DST(dst)
MKI_RDDS(dst) == \b1001000000001001 + MKC_DST(dst)
MKI_RDSP(dst) == \b1001000000001101 + MKC_DST(dst)

MKI_OUT(pid, src) == \b1001100000000000 + MKC_SRC1(src) + MKC_PID(pid)
MKI_IN(dst, pid)  == \b1001100000000001 + MKC_DST(dst) + MKC_PID(pid)

MKI_MOV(dst, src) == \b1001000000000010 + MKC_DST(dst) + MKC_SRC1(src)
MKI_NOT(dst, src) == \b1001000000000110 + MKC_DST(dst) + MKC_SRC1(src)
MKI_LDR(dst, src) == \b1001000000001010 + MKC_DST(dst) + MKC_SRC1(src)
MKI_STR(dst, src) == \b1001000000001110 + MKC_DST(dst) + MKC_SRC1(src)

\* The operands of the three-register instructions MKI_ADD .. MKI_XOR.
ThreeRegisters(dst, src1, src2) == MKC_DST(dst) + MKC_SRC1(src1) + MKC_SRC2(src2)

MKI_ADD(dst, src1, src2) == \b1000000000000000 + ThreeRegisters(dst, src1, src2)
MKI_SUB(dst, src1, src2) == \b1000000000000001 + ThreeRegisters(dst, src1, src2)
MKI_ADC(dst, src1, src2) == \b1000000000000010 + ThreeRegisters(dst, src1, src2)
MKI_SBC(dst, src1, src2) == \b1000000000000011 + ThreeRegisters(dst, src1, src2)
MKI_AND(dst, src1, src2) == \b1000100000000000 + ThreeRegisters(dst, src1, src2)
MKI_OR(dst, src1, src2)  == \b1000100000000001 + ThreeRegisters(dst, src1, src2)
MKI_XOR(dst, src1, src2) == \b1000100000000010 + ThreeRegisters(dst, src1, src2)

MKI_LDI(dst, imm8)   == \b1010000000000000 + MKC_DST(dst) + MKC_IMM8(imm8)
MKI_SRLDR(dst, imm8) == \b1010100000000000 + MKC_DST(dst) + MKC_IMM8(imm8)
MKI_SRSTR(src, imm8) == \b1011000000000000 + MKC_SRC1ALT1(src) + MKC_IMM8(imm8)
MKI_ADDI(dst, src, imm8) ==
    \b1100000000000000 + MKC_DST(dst) + MKC_SRC1ALT2(src) + MKC_IMM8(imm8)
=============================================================================
