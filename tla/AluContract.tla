---------------------------- MODULE AluContract ----------------------------
(***************************************************************************)
(* What programs rely on when they compute with the arithmetic unit, for   *)
(* every pair of operand bytes x and y.                                    *)
(***************************************************************************)
EXTENDS Alu

CONSTANT HighBytes    \* upper bytes of the 16-bit operands tried with each pair

Byte == 0..255

ASSUME HighBytesAssumption == HighBytes \subseteq Byte

VARIABLES x, y

Init == x = 0 /\ y \in Byte
Next == x' = (x + 1) % 256 /\ UNCHANGED y
Spec == Init /\ [][Next]_<<x, y>>

-----------------------------------------------------------------------------
BelowSigned(a, b) == (a + 128) % 256 < (b + 128) % 256

\* addi d, x, -y followed by bltu, blts or beq is the comparison of x with y
\* (the flag rules of instruction_addi, virtcore.c), but for two constants:
\* every x is found below 0 in the unsigned and below -128 in the signed order.
CompareByAdding ==
    LET a == (256 - y) % 256
        result == AddResult(a, x)
    IN  /\ ZeroFlag(result) = (x = y)
        /\ UltFlag(a, x, result) = (y = 0 \/ x < y)
        /\ SltFlag(a, x, result) = (y = 128 \/ BelowSigned(x, y))

\* add on the low bytes and adc on the high bytes is a 16-bit addition, as the
\* program in main.c uses it (instruction_add, instruction_adc).
AddChain ==
    \A xh, yh \in HighBytes :
        LET low  == AddResult(x, y)
            high == AdcResult(xh, yh, CarryFlag(low))
        IN  256 * high + LowByte(low) = (256 * xh + x) + (256 * yh + y)

\* sub leaves the borrow in the carry flag, but sbc adds the carry: sub and sbc
\* make a 16-bit subtraction exactly when the low bytes do not borrow; when they
\* do, the high byte comes out two too large (instruction_sub, instruction_sbc).
SubChain ==
    \A xh, yh \in HighBytes :
        LET low  == SubResult(x, y)
            high == SbcResult(xh, yh, CarryFlag(low))
            difference == (65536 + (256 * xh + x) - (256 * yh + y)) % 65536
            computed == 256 * LowByte(high) + LowByte(low)
        IN  computed = (difference + (IF x < y THEN 512 ELSE 0)) % 65536

\* The logic instructions agree with the arithmetic ones bit for bit.
LogicAgreesWithSum ==
    /\ OrByte(x, y) + AndByte(x, y) = x + y
    /\ XorByte(x, y) + 2 * AndByte(x, y) = x + y

-----------------------------------------------------------------------------
\* What the flag's name in virtcore.c:187, "ULT", and the branch bltu say of a
\* subtraction: the flag is set when the first operand is below the second.
UltAfterSub == UltFlag(x, y, SubResult(x, y)) = (x < y)
=============================================================================
