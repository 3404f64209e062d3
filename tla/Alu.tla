-------------------------------- MODULE Alu --------------------------------
(***************************************************************************)
(* The arithmetic and logic unit: what the five arithmetic handlers        *)
(* (instruction_add, _sub, _adc, _sbc, _addi) and the logic handlers of    *)
(* vectorvm/src/virtcore.c compute from their operand bytes.  An           *)
(* arithmetic result is the uint16_t `result` of the handler; the register *)
(* gets its low byte and the flags are read off it and the operands.       *)
(***************************************************************************)
EXTENDS Naturals

LOCAL OperandBit(x, i) == (x \div 2^i) % 2 = 1

IMM8_MSB(x) == (x \div 128) % 2 = 1

\* Mutant: the complement without the one.
Negated_Complement(b) == 65535 - b

\* (uint16_t)(~b + 1), the negation of a byte widened to 16 bits.
Negated(b) == (65536 - b) % 65536

AddResult(a, b) == a + b
SubResult(a, b) == (a + Negated(b)) % 65536
\* Mutant: the carry is dropped.
AdcResult_NoCarry(a, b, carry) == b + a
AdcResult(a, b, carry) == b + a + (IF carry THEN 1 ELSE 0)
SbcResult(a, b, carry) == (a + Negated(b) + (IF carry THEN 1 ELSE 0)) % 65536

LowByte(result) == result % 256

ZeroFlag(result) == LowByte(result) = 0
CarryFlag(result) == (result \div 256) % 2 = 1

\* Mutant: the table of the signed flag.
UltFlag_SignedTable(a, b, result) ==
    IF IMM8_MSB(a) = IMM8_MSB(b) THEN IMM8_MSB(a) ELSE IMM8_MSB(result)

\* The tables "ULT" and "SLT" of virtcore.c: by how many of the two operands
\* have their most significant bit set; with one, the result's bit 7 decides.
UltFlag(a, b, result) ==
    IF IMM8_MSB(a) = IMM8_MSB(b) THEN ~IMM8_MSB(a) ELSE IMM8_MSB(result)
SltFlag(a, b, result) ==
    IF IMM8_MSB(a) = IMM8_MSB(b) THEN IMM8_MSB(a) ELSE IMM8_MSB(result)

-----------------------------------------------------------------------------
(* The logic instructions work bit by bit.                                 *)

Weight(bit, i) == IF bit THEN i ELSE 0

FromBits(bits) ==
    Weight(bits[0], 1) + Weight(bits[1], 2) + Weight(bits[2], 4)
      + Weight(bits[3], 8) + Weight(bits[4], 16) + Weight(bits[5], 32)
      + Weight(bits[6], 64) + Weight(bits[7], 128)

AndByte(a, b) == FromBits([i \in 0..7 |-> OperandBit(a, i) /\ OperandBit(b, i)])
\* Mutant: an exclusive or.
OrByte_Exclusive(a, b) == FromBits([i \in 0..7 |-> OperandBit(a, i) # OperandBit(b, i)])
OrByte(a, b)  == FromBits([i \in 0..7 |-> OperandBit(a, i) \/ OperandBit(b, i)])
XorByte(a, b) == FromBits([i \in 0..7 |-> OperandBit(a, i) # OperandBit(b, i)])
NotByte(a)    == 255 - a
=============================================================================
