---------------------------- MODULE FibPrograms ----------------------------
(***************************************************************************)
(* The two programs embedded in vectorvm/src/main.c.  Both compute a       *)
(* Fibonacci number by plain recursion: `program`, which main loads, in    *)
(* 16 bits (r2:r1), `fib` in 8 bits (r0).  The argument is a parameter     *)
(* here: 30 and 13 in the source.  `fib` is also what the assembler makes  *)
(* of vras/asm/fib.asm; `origin` is the @offset it is assembled for.       *)
(***************************************************************************)
EXTENDS Isa

FIB == 16
ZC  == 48
OC  == 54

programArray(n) == <<
    (* 00 *)     MKI_LDI(1, 255),
    (* 02 *)     MKI_WRSS(1),
    (* 04 *)     MKI_WRSP(1),
    (* 06 *)     MKI_LDI(1, 15),
    (* 08 *)     MKI_WRDS(1),
    (* 10 *)     MKI_LDI(0, n),
    (* 12 *)     MKI_CALL(FIB),
    (* 14 *)     MKI_HALT,
    (* 16 FIB *) MKI_ADDI(0, 0, 0),
    (* 18 *)     MKI_BEQ(ZC),
    (* 20 *)     MKI_ADDI(0, 0, 255),
    (* 22 *)     MKI_BEQ(OC),
    (* 24 *)     MKI_PUSH(0),
    (* 26 *)     MKI_CALL(FIB),
    (* 28 *)     MKI_POP(0),
    (* 30 *)     MKI_PUSH(1),
    (* 32 *)     MKI_PUSH(2),
    (* 34 *)     MKI_ADDI(0, 0, 255),
    (* 36 *)     MKI_CALL(FIB),
    (* 38 *)     MKI_POP(4),
    (* 40 *)     MKI_POP(3),
    (* 42 *)     MKI_ADD(1, 1, 3),
    (* 44 *)     MKI_ADC(2, 2, 4),
    (* 46 *)     MKI_RET,
    (* 48 ZC *)  MKI_LDI(1, 0),
    (* 50 *)     MKI_LDI(2, 0),
    (* 52 *)     MKI_RET,
    (* 54 OC *)  MKI_LDI(1, 1),
    (* 56 *)     MKI_LDI(2, 0),
    (* 58 *)     MKI_RET >>

\* The routine of the 8-bit program, at the address `fib`: argument in r1,
\* result in r0.
fibRoutine(fib) == <<
    (* 12 fib *) MKI_ADDI(2, 1, 0),
    (* 14 *)     MKI_BEQ(fib + 26),
    (* 16 *)     MKI_ADDI(1, 1, 255),
    (* 18 *)     MKI_BEQ(fib + 30),
    (* 20 *)     MKI_PUSH(1),
    (* 22 *)     MKI_CALL(fib),
    (* 24 *)     MKI_POP(1),
    (* 26 *)     MKI_PUSH(0),
    (* 28 *)     MKI_ADDI(1, 1, 255),
    (* 30 *)     MKI_CALL(fib),
    (* 32 *)     MKI_POP(1),
    (* 34 *)     MKI_ADD(0, 0, 1),
    (* 36 *)     MKI_RET,
    (* 38 zc *)  MKI_LDI(0, 0),
    (* 40 *)     MKI_RET,
    (* 42 oc *)  MKI_LDI(0, 1),
    (* 44 *)     MKI_RET >>

fibArray(n, origin) == <<
    (* 00 *)     MKI_LDI(1, 255),
    (* 02 *)     MKI_WRSS(1),
    (* 04 *)     MKI_WRSP(1),
    (* 06 *)     MKI_LDI(1, n),
    (* 08 *)     MKI_CALL(origin + 12),
    (* 10 *)     MKI_HALT >> \o fibRoutine(origin + 12)
=============================================================================
