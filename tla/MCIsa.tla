------------------------------- MODULE MCIsa -------------------------------
(***************************************************************************)
(* The decoding table on every 16-bit word, against the encoding macros of *)
(* the virtual machine, those of the assembler, and what the disassembler  *)
(* prints.                                                                 *)
(***************************************************************************)
EXTENDS Isa, FiniteSets

Asm == INSTANCE AsmEncode

VARIABLE word

Dis == INSTANCE Disassembler WITH Files <- {}, file <- <<>>, i <- 0, listing <- <<>>

Init == word \in {w \in Word : w % 256 = 0}
Next == word' = 256 * (word \div 256) + ((word + 1) % 256)
Spec == Init /\ [][Next]_word

-----------------------------------------------------------------------------
\* The macro that writes the instruction `op`, on the operand fields of w.
Encode(op, w) ==
    CASE op = "jmp"   -> MKI_JMP(INS_ADDR(w))
      [] op = "call"  -> MKI_CALL(INS_ADDR(w))
      [] op = "bltu"  -> MKI_BLTU(INS_ADDR(w))
      [] op = "bleu"  -> MKI_BLEU(INS_ADDR(w))
      [] op = "blts"  -> MKI_BLTS(INS_ADDR(w))
      [] op = "bles"  -> MKI_BLES(INS_ADDR(w))
      [] op = "beq"   -> MKI_BEQ(INS_ADDR(w))
      [] op = "bne"   -> MKI_BNE(INS_ADDR(w))
      [] op = "nop"   -> MKI_NOP
      [] op = "halt"  -> MKI_HALT
      [] op = "ret"   -> MKI_RET
      [] op = "enzr"  -> MKI_ENZR
      [] op = "dszr"  -> MKI_DSZR
      [] op = "push"  -> MKI_PUSH(INS_SRC1(w))
      [] op = "wrss"  -> MKI_WRSS(INS_SRC1(w))
      [] op = "wrds"  -> MKI_WRDS(INS_SRC1(w))
      [] op = "wrsp"  -> MKI_WRSP(INS_SRC1(w))
      [] op = "pop"   -> MKI_POP(INS_DST(w))
      [] op = "rdss"  -> MKI_RDSS(INS_DST(w))
      [] op = "rdds"  -> MKI_RDDS(INS_DST(w))
      [] op = "rdsp"  -> MKI_RDSP(INS_DST(w))
      [] op = "out"   -> MKI_OUT(INS_PID(w), INS_SRC1(w))
      [] op = "in"    -> MKI_IN(INS_DST(w), INS_PID(w))
      [] op = "mov"   -> MKI_MOV(INS_DST(w), INS_SRC1(w))
      [] op = "not"   -> MKI_NOT(INS_DST(w), INS_SRC1(w))
      [] op = "ldr"   -> MKI_LDR(INS_DST(w), INS_SRC1(w))
      [] op = "str"   -> MKI_STR(INS_DST(w), INS_SRC1(w))
      [] op = "add"   -> MKI_ADD(INS_DST(w), INS_SRC1(w), INS_SRC2(w))
      [] op = "sub"   -> MKI_SUB(INS_DST(w), INS_SRC1(w), INS_SRC2(w))
      [] op = "adc"   -> MKI_ADC(INS_DST(w), INS_SRC1(w), INS_SRC2(w))
      [] op = "sbc"   -> MKI_SBC(INS_DST(w), INS_SRC1(w), INS_SRC2(w))
      [] op = "and"   -> MKI_AND(INS_DST(w), INS_SRC1(w), INS_SRC2(w))
      [] op = "or"    -> MKI_OR(INS_DST(w), INS_SRC1(w), INS_SRC2(w))
      [] op = "xor"   -> MKI_XOR(INS_DST(w), INS_SRC1(w), INS_SRC2(w))
      [] op = "ldi"   -> MKI_LDI(INS_DST(w), INS_IMM8(w))
      [] op = "srldr" -> MKI_SRLDR(INS_DST(w), INS_IMM8(w))
      [] op = "srstr" -> MKI_SRSTR(INS_SRC1ALT1(w), INS_IMM8(w))
      [] op = "addi"  -> MKI_ADDI(INS_DST(w), INS_SRC1ALT2(w), INS_IMM8(w))

\* The rows of isa exclude one another, so that the order vcore_step tries them
\* in does not matter.
Unambiguous == Cardinality(MatchingRows(word)) <= 1

\* A word that vcore_step executes is what the macro of that instruction makes of
\* the operands the handler takes from it: table, field extractors and macros
\* agree on every legal word.
RoundTrip == Decode(word) # "illegal" => Encode(Decode(word), word) = word

-----------------------------------------------------------------------------
\* The fields that an instruction of each pattern of the assembler has.
FieldOf(field, op, w) ==
    CASE field = "addr" -> INS_ADDR(w)
      [] field = "pid"  -> INS_PID(w)
      [] field = "dest" -> INS_DST(w)
      [] field = "src1" -> IF op = "srstr" THEN INS_SRC1ALT1(w)
                           ELSE IF op = "addi" THEN INS_SRC1ALT2(w)
                           ELSE INS_SRC1(w)
      [] field = "src2" -> INS_SRC2(w)
      [] field = "imm8" -> INS_IMM8(w)

\* What the assembler makes of the line that says what the machine does on w.
Assembled(op, w) ==
    LET roles == Asm!Operands[Asm!instructionFormats[op].pat]
        token(field) == IF field \in {"dest", "src1", "src2"}
                        THEN Asm!Reg(FieldOf(field, op, w))
                        ELSE Asm!Num(FieldOf(field, op, w))
        args == [i \in DOMAIN roles |-> token(roles[i])]
    IN Asm!asmCpuInstr(Asm!Statement(op, args), <<>>)

\* The assembler writes the word that the machine takes for the instruction and
\* the operands of the line; in, out and srstr apart (AssemblesOperands).
AssemblerAgrees ==
    LET op == Decode(word)
    IN op \notin {"illegal", "in", "out", "srstr"} => Assembled(op, word) = word

\* How the assembler reads what the disassembler has printed.
ReadBack(operand) ==
    CASE operand.prefix = "r" -> Asm!Reg(operand.value)
      [] operand.prefix = "t" -> Asm!Text(operand)
      [] operand.prefix \in {"", "0x"} -> Asm!Num(operand.value)

\* A listing is a source of the program it lists: the disassembler knows exactly
\* the words that the machine does not halt at as illegal, and the assembler
\* makes of the line for one that word again.  Five mnemonics are printed so that
\* the assembler refuses the line (beq as bleq, a popped register as t), and in,
\* out and srstr lose an operand on the way back.
ListingReassembles ==
    LET op    == Decode(word)
        line  == Dis!Entry(0, word)
        args  == [k \in DOMAIN line.operands |-> ReadBack(line.operands[k])]
        format == Asm!Operands[Asm!instructionFormats[line.mnemonic].pat]
        known == line.mnemonic \in DOMAIN Asm!instructionFormats
    IN IF op = "illegal" THEN line = Dis!Unknown
       ELSE /\ line # Dis!Unknown
            /\ op \in {"beq", "pop", "rdss", "rdds", "rdsp"} <=>
                 ~known \/ \E k \in DOMAIN format : ~Asm!Accepts(format[k], args[k])
            /\ op \notin {"beq", "pop", "rdss", "rdds", "rdsp", "in", "out", "srstr"} =>
                 Asm!asmCpuInstr(Asm!Statement(line.mnemonic, args), <<>>) = word

\* "A = addr, S = src, D = dest, P = port id, I = imm8" (main.c:42-49): all the
\* operands of a line are in its word, those of in, out and srstr too.
AssemblesOperands ==
    Decode(word) # "illegal" => Assembled(Decode(word), word) = word
=============================================================================
