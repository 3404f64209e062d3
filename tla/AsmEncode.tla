----------------------------- MODULE AsmEncode -----------------------------
(***************************************************************************)
(* How the assembler reads the operands of an instruction and what word it *)
(* makes of them: the MKC_ / MKI_PAT_ macros, parseAddr .. parseImm8,      *)
(* instructionFormats and asmCpuInstr of vras/src/main.c.  The assembler   *)
(* has its own copy of the encoding macros; nothing here is taken from     *)
(* those of the virtual machine (Isa).                                     *)
(*                                                                         *)
(* A token is a register, a number, a word that is neither, or junk.       *)
(***************************************************************************)
EXTENDS Integers, SequencesExt

Reg(r)  == [reg |-> r]
Num(n)  == [num |-> n]
Text(s) == [text |-> s]
Junk(s) == [junk |-> s]        \* has a character that no name may have

Byte  == 0..255
Word  == 0..65535
Address == 0..4095
Token == [reg : 0..7] \cup [num : Int] \cup [text : STRING] \cup [junk : STRING]

-----------------------------------------------------------------------------
MKC_ADDR(x)     == x % 4096
MKC_IMM8(x)     == x % 256
MKC_DST(x)      == (x % 8) * 256
MKC_SRC1(x)     == (x % 8) * 32
MKC_SRC2(x)     == (x % 8) * 4
MKC_SRC1ALT1(x) == IF x # 0 THEN 256 ELSE 0       \* (x && 0b111) << 8
\* Mutant: addi's source goes where the other instructions have it.
MKC_SRC1ALT2_AsSrc1(x) == (x % 8) * 32
MKC_SRC1ALT2(x) == (x % 8) * 2048

Format(opcode, pat) == [opcode |-> opcode, pat |-> pat]

instructionFormats == [
    jmp   |-> Format(\b0000000000000000, "A"),
    call  |-> Format(\b0001000000000000, "A"),
    bltu  |-> Format(\b0010000000000000, "A"),
    bleu  |-> Format(\b0011000000000000, "A"),
    blts  |-> Format(\b0100000000000000, "A"),
    bles  |-> Format(\b0101000000000000, "A"),
    beq   |-> Format(\b0110000000000000, "A"),
    bne   |-> Format(\b0111000000000000, "A"),
    nop   |-> Format(\b1001000000000011, "N"),
    halt  |-> Format(\b1001000000000111, "N"),
    ret   |-> Format(\b1001000000001011, "N"),
    enzr  |-> Format(\b1001000000001111, "N"),
    dszr  |-> Format(\b1001000000010011, "N"),
    push  |-> Format(\b1001000000000000, "S"),
    wrss  |-> Format(\b1001000000000100, "S"),
    wrds  |-> Format(\b1001000000001000, "S"),
    wrsp  |-> Format(\b1001000000001100, "S"),
    pop   |-> Format(\b1001000000000001, "D"),
    rdss  |-> Format(\b1001000000000101, "D"),
    rdds  |-> Format(\b1001000000001001, "D"),
    rdsp  |-> Format(\b1001000000001101, "D"),
    out   |-> Format(\b1001100000000000, "SP"),
    in    |-> Format(\b1001100000000001, "DP"),
    mov   |-> Format(\b1001000000000010, "DS"),
    not   |-> Format(\b1001000000000110, "DS"),
    ldr   |-> Format(\b1001000000001010, "DS"),
    str   |-> Format(\b1001000000001110, "DS"),
    add   |-> Format(\b1000000000000000, "DSS"),
    sub   |-> Format(\b1000000000000001, "DSS"),
    adc   |-> Format(\b1000000000000010, "DSS"),
    sbc   |-> Format(\b1000000000000011, "DSS"),
    and   |-> Format(\b1000100000000000, "DSS"),
    or    |-> Format(\b1000100000000001, "DSS"),
    xor   |-> Format(\b1000100000000010, "DSS"),
    ldi   |-> Format(\b1010000000000000, "DI"),
    srldr |-> Format(\b1010100000000000, "DI"),
    srstr |-> Format(\b1011000000000000, "SI"),
    addi  |-> Format(\b1100000000000000, "SDI") ]

-----------------------------------------------------------------------------
(* The fields of struct instruction that the operands of each pattern are  *)
(* parsed into, in the order they are written in.                          *)

Operands == [A   |-> <<"addr">>,         N   |-> <<>>,
             S   |-> <<"src1">>,         D   |-> <<"dest">>,
             SP  |-> <<"src1", "pid">>,  DP  |-> <<"dest", "pid">>,
             DS  |-> <<"dest", "src1">>, DSS |-> <<"dest", "src1", "src2">>,
             DI  |-> <<"dest", "imm8">>, SI  |-> <<"src1", "imm8">>,
             SDI |-> <<"dest", "src1", "imm8">>]

Fields == {"addr", "imm8", "pid", "dest", "src1", "src2"}

\* The numbers that parseAddr, parsePort and parseImm8 accept.
Numbers == [addr |-> Address, pid |-> 0..7, imm8 |-> -127..255]

IsReg(tok) == "reg" \in DOMAIN tok
IsNum(tok) == "num" \in DOMAIN tok

\* parseReg for a register, the others for a number.
Parses(field, tok) ==
    IF field \in {"dest", "src1", "src2"} THEN IsReg(tok)
    ELSE IsNum(tok) /\ tok.num \in Numbers[field]

\* Mutant: parseImm8 keeps the sign.
Parsed_Signed(field, tok) == IF IsReg(tok) THEN tok.reg ELSE tok.num

\* What they return: parseImm8 converts to uint8_t, the rest is as written.
Parsed(field, tok) ==
    IF IsReg(tok) THEN tok.reg
    ELSE IF field = "imm8" THEN tok.num % 256 ELSE tok.num

\* VALID_MACRO_NAME_CHAR for every character: a minus sign is none.
NameCharacters(tok) ==
    /\ "junk" \notin DOMAIN tok
    /\ IsNum(tok) => tok.num >= 0

\* An address that is no number from 0 to 0xfff is a label, if it can be one.
Accepts(field, tok) ==
    Parses(field, tok) \/ (field = "addr" /\ NameCharacters(tok))

NoLabel == <<>>

\* The statement for the mnemonic and its operands; a field that the pattern
\* does not have keeps calloc's zero.
Statement(mnemonic, args) ==
    LET pat == instructionFormats[mnemonic].pat
        At(field) == {i \in DOMAIN Operands[pat] :
                        Operands[pat][i] = field /\ Parses(field, args[i])}
    IN [type |-> "instruction", pat |-> pat,
        opcode |-> instructionFormats[mnemonic].opcode,
        fields |-> [f \in Fields |-> IF At(f) = {} THEN 0
                                     ELSE Parsed(f, args[CHOOSE n \in At(f) : TRUE])],
        addr_label |-> IF pat = "A" /\ At("addr") = {} THEN args[1] ELSE NoLabel]

-----------------------------------------------------------------------------
\* Mutant: the last label of several of the same name.
resolveLabel_Last(labels, name) ==
    LET i == SelectLastInSubSeq(labels, 1, Len(labels), LAMBDA l : l.name = name)
    IN IF i = 0 THEN 65535 ELSE labels[i].addr

\* The address of the first label of that name, 0xffff if there is none.
resolveLabel(labels, name) ==
    LET i == SelectInSubSeq(labels, 1, Len(labels), LAMBDA l : l.name = name)
    IN IF i = 0 THEN 65535 ELSE labels[i].addr

\* The address of a jump; an unknown label counts as address 0.
Target(ins, labels) ==
    IF ins.addr_label = NoLabel THEN ins.fields.addr
    ELSE IF resolveLabel(labels, ins.addr_label) = 65535 THEN 0
    ELSE resolveLabel(labels, ins.addr_label)

\* The MKI_PAT_ macros.  The port of in and out is left out of the word.
asmCpuInstr(ins, labels) ==
    LET f == ins.fields
    IN ins.opcode +
       CASE ins.pat = "A"   -> MKC_ADDR(Target(ins, labels))
         [] ins.pat = "N"   -> 0
         [] ins.pat = "S"   -> MKC_SRC1(f.src1)
         [] ins.pat = "D"   -> MKC_DST(f.dest)
         [] ins.pat = "SP"  -> MKC_SRC1(f.src1)
         [] ins.pat = "DP"  -> MKC_DST(f.dest)
         [] ins.pat = "DS"  -> MKC_SRC1(f.src1) + MKC_DST(f.dest)
         [] ins.pat = "DSS" -> MKC_DST(f.dest) + MKC_SRC1(f.src1) + MKC_SRC2(f.src2)
         [] ins.pat = "DI"  -> MKC_DST(f.dest) + MKC_IMM8(f.imm8)
         [] ins.pat = "SI"  -> MKC_SRC1ALT1(f.src1) + MKC_IMM8(f.imm8)
         [] ins.pat = "SDI" -> MKC_DST(f.dest) + MKC_SRC1ALT2(f.src1) + MKC_IMM8(f.imm8)
=============================================================================
