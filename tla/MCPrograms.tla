----------------------------- MODULE MCPrograms -----------------------------
(***************************************************************************)
(* The embedded programs on the virtual machine, for small arguments.      *)
(***************************************************************************)
EXTENDS Recursion

MCPortInput == {0}     \* the stub ports of main.c

\* The 8-bit routine on a stack that wraps: vras/asm/test.asm leaves ss:sp at 0,
\* so that its first push goes to 0xfff; from 1 the bytes of the first return
\* address lie on either side of address 0.
OnStackAt(n, top) ==
    [fibArray(n, 0) EXCEPT ![1] = MKI_LDI(1, top), ![2] = MKI_WRSP(1), ![3] = MKI_NOP]

\* The 8-bit routine called by a start that lies at the end of RAM and runs on
\* past it, with a program counter of 0x1000, to address 0, where the branch that
\* led to the start is not taken again.  The rest of RAM is filled up.
OverTheEnd(n) ==
    LET first == <<MKI_BNE(4084), MKI_JMP(4), MKI_CALL(8), MKI_HALT>> \o fibRoutine(8)
        start == <<MKI_LDI(1, 8), MKI_WRSS(1), MKI_LDI(1, 255), MKI_WRSP(1),
                   MKI_LDI(1, n), MKI_ADDI(0, 0, 0)>>
    IN first \o [i \in 1..2042 - Len(first) |-> MKI_NOP] \o start

\* fib(14) = 377 is the first whose sum carries out of the low byte.
MCPrograms ==
    {programArray(n) : n \in 0..4 \cup {14}} \cup {fibArray(n, 0) : n \in 0..4 \cup {9}}
      \cup {OnStackAt(5, top) : top \in 0..1} \cup {OverTheEnd(5)}

\* RAM beyond the program: words that are no instruction.
MCHeap == {[address \in Address |-> 147]}

\* The loop of main ends: the recursion reaches its base cases and returns.
Halts == <>halted
=============================================================================
