---------------------------- MODULE MCRelocated ----------------------------
(***************************************************************************)
(* vras/asm/fib.asm assembled for @offset 0x200 and placed there: main     *)
(* loads at 0, so that a jump and a run of nops precede it.                *)
(***************************************************************************)
EXTENDS VectorVM, FibPrograms

MCPortInput == {0}     \* the stub ports of main.c

Origin == 512
N == 5

MCPrograms ==
    {[i \in 1..(Origin \div 2) |-> IF i = 1 THEN MKI_JMP(Origin) ELSE MKI_NOP]
        \o fibArray(N, Origin)}

MCHeap == {[address \in Address |-> 0]}

\* fib.asm:8 says of the halt behind the call: "result in r0"; doc.txt:3 says
\* that @offset is where the code will be in RAM.  The program ends with fib(5).
ResultInR0 == <>(halted /\ gpr[0] = 5)
=============================================================================
