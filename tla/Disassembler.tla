---------------------------- MODULE Disassembler ----------------------------
(***************************************************************************)
(* The disassembler, vrdisas/src/main.c: it takes a file of bytes two at a *)
(* time, looks each word up in a table of its own, the third copy of the   *)
(* instruction layout in the repository, and prints a line for it.         *)
(*                                                                         *)
(* A printed operand is its prefix and its value: a register behind "r" or *)
(* "t", an address in hex behind "0x", a decimal number behind nothing.    *)
(***************************************************************************)
EXTENDS Naturals, SequencesExt

CONSTANT Files        \* the files it may be given: sequences of bytes

VARIABLES file,
          i,          \* the word it has come to, counted from 0
          listing     \* what it has printed, one entry for each word

disVars == <<file, i, listing>>

-----------------------------------------------------------------------------
EXTRC_ADDR(x)     == x % 4096
EXTRC_PID(x)      == (x \div 4) % 8
EXTRC_IMM8(x)     == x % 256
EXTRC_DST(x)      == (x \div 256) % 8
EXTRC_SRC1(x)     == (x \div 32) % 8
EXTRC_SRC2(x)     == (x \div 4) % 8
EXTRC_SRC1ALT1(x) == (x \div 256) % 8
\* Mutant: the source of addi is looked for where the other instructions have it.
EXTRC_SRC1ALT2_AsSrc1(x) == (x \div 32) % 8
EXTRC_SRC1ALT2(x) == (x \div 2048) % 8

Operand(prefix, value) == [prefix |-> prefix, value |-> value]

r(value) == Operand("r", value)
u(value) == Operand("", value)

\* The operands that the handlers of each group of instructions print.
Operands(group, w) ==
    LET dst == EXTRC_DST(w) src1 == EXTRC_SRC1(w) imm8 == EXTRC_IMM8(w)
    IN CASE group = "Addr"      -> <<Operand("0x", EXTRC_ADDR(w))>>
         [] group = "None"      -> <<>>
         [] group = "Src"       -> <<r(src1)>>
         [] group = "Dst"       -> <<Operand("t", dst)>>      \* printed as t
         [] group = "SrcPort"   -> <<r(src1), u(EXTRC_PID(w))>>
         [] group = "DstPort"   -> <<r(dst), u(EXTRC_PID(w))>>
         [] group = "DstSrc"    -> <<r(dst), r(src1)>>
         [] group = "DstSrcSrc" -> <<r(dst), r(src1), r(EXTRC_SRC2(w))>>
         [] group = "DstImm"    -> <<r(dst), u(imm8)>>
         [] group = "SrcImm"    -> <<r(EXTRC_SRC1ALT1(w)), u(imm8)>>
         [] group = "DstSrcImm" -> <<r(dst), r(EXTRC_SRC1ALT2(w)), u(imm8)>>

\* A row of the table: the masks, and what its handler prints.
Row(checkMask, opcodeMask, mnemonic, group) ==
    [checkMask |-> checkMask, opcodeMask |-> opcodeMask,
     mnemonic |-> mnemonic, group |-> group]

isa == <<
    Row(\b1111000000000000, \b0000000000000000, "jmp",   "Addr"),
    Row(\b1111000000000000, \b0001000000000000, "call",  "Addr"),
    Row(\b1111000000000000, \b0010000000000000, "bltu",  "Addr"),
    Row(\b1111000000000000, \b0011000000000000, "bleu",  "Addr"),
    Row(\b1111000000000000, \b0100000000000000, "blts",  "Addr"),
    Row(\b1111000000000000, \b0101000000000000, "bles",  "Addr"),
    Row(\b1111000000000000, \b0110000000000000, "bleq",  "Addr"),
    Row(\b1111000000000000, \b0111000000000000, "bne",   "Addr"),
    Row(\b1111111111111111, \b1001000000000011, "nop",   "None"),
    Row(\b1111111111111111, \b1001000000000111, "halt",  "None"),
    Row(\b1111111111111111, \b1001000000001011, "ret",   "None"),
    Row(\b1111111111111111, \b1001000000001111, "enzr",  "None"),
    Row(\b1111111111111111, \b1001000000010011, "dszr",  "None"),
    Row(\b1111111100011111, \b1001000000000000, "push",  "Src"),
    Row(\b1111111100011111, \b1001000000000100, "wrss",  "Src"),
    Row(\b1111111100011111, \b1001000000001000, "wrds",  "Src"),
    Row(\b1111111100011111, \b1001000000001100, "wrsp",  "Src"),
    Row(\b1111100011111111, \b1001000000000001, "pop",   "Dst"),
    Row(\b1111100011111111, \b1001000000000101, "rdss",  "Dst"),
    Row(\b1111100011111111, \b1001000000001001, "rdds",  "Dst"),
    Row(\b1111100011111111, \b1001000000001101, "rdsp",  "Dst"),
    Row(\b1111111100000011, \b1001100000000000, "out",   "SrcPort"),
    Row(\b1111100011100011, \b1001100000000001, "in",    "DstPort"),
    Row(\b1111100000011111, \b1001000000000010, "mov",   "DstSrc"),
    Row(\b1111100000011111, \b1001000000000110, "not",   "DstSrc"),
    Row(\b1111100000011111, \b1001000000001010, "ldr",   "DstSrc"),
    Row(\b1111100000011111, \b1001000000001110, "str",   "DstSrc"),
    Row(\b1111100000000011, \b1000000000000000, "add",   "DstSrcSrc"),
    Row(\b1111100000000011, \b1000000000000001, "sub",   "DstSrcSrc"),
    Row(\b1111100000000011, \b1000000000000010, "adc",   "DstSrcSrc"),
    Row(\b1111100000000011, \b1000000000000011, "sbc",   "DstSrcSrc"),
    Row(\b1111100000000011, \b1000100000000000, "and",   "DstSrcSrc"),
    Row(\b1111100000000011, \b1000100000000001, "or",    "DstSrcSrc"),
    Row(\b1111100000000011, \b1000100000000010, "xor",   "DstSrcSrc"),
    Row(\b1111100000000000, \b1010000000000000, "ldi",   "DstImm"),
    Row(\b1111100000000000, \b1010100000000000, "srldr", "DstImm"),
    Row(\b1111100000000000, \b1011000000000000, "srstr", "SrcImm"),
    Row(\b1100000000000000, \b1100000000000000, "addi",  "DstSrcImm") >>

Bit(x, n) == (x \div 2^n) % 2 = 1

\* (buf[i] & isa[j].checkMask) == isa[j].opcodeMask
Matches(w, row) ==
    \A n \in 0..15 : Bit(row.opcodeMask, n) = (Bit(w, n) /\ Bit(row.checkMask, n))

MatchingRows(w) == {j \in DOMAIN isa : Matches(w, isa[j])}

Unknown == [mnemonic |-> "????"]     \* without an address or an end of line

\* The line printed for the word w at the address.
Entry(address, w) ==
    IF MatchingRows(w) = {} THEN Unknown
    ELSE LET row == isa[Min(MatchingRows(w))]
         IN [address |-> address, mnemonic |-> row.mnemonic,
             operands |-> Operands(row.group, w)]

-----------------------------------------------------------------------------
\* Mutant: high byte first.
WordAt_HighFirst(n) == 256 * file[2 * n + 1] + file[2 * n + 2]

\* The words of the file, low byte first; a last odd byte is in none of them.
WordAt(n) == file[2 * n + 1] + 256 * file[2 * n + 2]
Words == Len(file) \div 2

\* One round of the loop.
PrintWord ==
    /\ i < Words
    /\ listing' = Append(listing, Entry((i * 2) % 4096, WordAt(i)))
    /\ i' = i + 1
    /\ UNCHANGED file

Init ==
    /\ file \in Files
    /\ i = 0 /\ listing = <<>>

Spec == Init /\ [][PrintWord]_disVars
=============================================================================
