----------------------------- MODULE Recursion -----------------------------
(***************************************************************************)
(* The programs of FibPrograms at work on the machine: what they compute,  *)
(* that they leave themselves alone, and, for the one that main loads,     *)
(* what holds at each of its instructions.                                 *)
(***************************************************************************)
EXTENDS CallStack, FibPrograms

Fibonacci[n \in Nat] == IF n < 2 THEN n ELSE Fibonacci[n - 1] + Fibonacci[n - 2]

\* The program loaded by main computes in 16 bits, r2 above r1, the others in the
\* 8 of r0.
Wide(p) == Len(p) = Len(programArray(0))
Result(p) == IF Wide(p) THEN 256 * gpr[2] + gpr[1] ELSE gpr[0]
Modulus(p) == IF Wide(p) THEN 65536 ELSE 256

\* The operand of the ldi that hands the argument over.
Argument(p) ==
    INS_IMM8(p[IF Wide(p) THEN 6
               ELSE IF Len(p) = Len(fibArray(0, 0)) THEN 4 ELSE Len(p) - 1])

\* When the core halts the program has computed its Fibonacci number: nested
\* calls, saved registers and the carry chain all worked, though the RAM beyond
\* the program was never initialised.
FibResult == halted => Result(program) = Fibonacci[Argument(program)] % Modulus(program)

\* The stack grows down towards the code and never reaches it: main's copy of
\* the program stays as it was loaded (but for address 0, which a program with
\* its stack at 1 pushes to, and for filling).
CodeIntact ==
    \A address \in Image(program) \ {0} :
        program[address \div 2 + 1] # MKI_NOP =>
            ram[address] = ProgramByte(program, address)

-----------------------------------------------------------------------------
(* The program that main loads, for every argument that its ldi can hold.  *)

Loaded == program \in {programArray(n) : n \in Byte}

Fib16(n) == Fibonacci[n] % 65536

\* The argument of a call is in r0, its result in r2:r1.
Given(i) == given[i][0]
Computed(n) == 256 * gpr[2] + gpr[1] = Fib16(n)

\* A call returns behind the call of the start, which was given the argument, ...
FromStart(i) ==
    /\ i = Len(slots)
    /\ ram[slots[i] + 1] = 14
    /\ slots[i] = 4093 /\ Given(i) = Argument(program)

\* ... or behind the first call of the routine, with its argument saved above it, ...
FromFirst(i) ==
    /\ i # Len(slots)
    /\ ram[slots[i] + 1] = 28
    /\ slots[i + 1] = slots[i] + 3
    /\ Given(i) > 0 /\ Given(i + 1) = Given(i) + 1
    /\ ram[slots[i] + 2] = Given(i)

\* ... or behind the second, with the result of the first saved above it.
FromSecond(i) ==
    /\ i # Len(slots)
    /\ ram[slots[i] + 1] = 38
    /\ slots[i + 1] = slots[i] + 4
    /\ Given(i + 1) = Given(i) + 2
    /\ 256 * ram[slots[i] + 2] + ram[slots[i] + 3] = Fib16(Given(i) + 1)

\* The arguments bound the depth: three bytes for each unit.
Activation(i) ==
    /\ ram[slots[i]] = 0
    /\ slots[i] <= 4093 /\ slots[i] + 3 * Argument(program) >= 4093 + 3 * Given(i)
    /\ FromStart(i) \/ FromFirst(i) \/ FromSecond(i)

Activations ==
    /\ slots \in Seq(Address) /\ given \in Seq([Register -> Byte])
    /\ Len(given) = Len(slots)
    /\ \A i \in DOMAIN slots : Activation(i)
    /\ \A i, j \in DOMAIN slots : i < j => slots[i] + 3 <= slots[j]

\* The instructions before and after the call of the start.
Starting ==
    /\ slots = <<>>
    /\ \/ pc = 0 /\ ss_sp = 0
       \/ pc = 2 /\ ss_sp = 0 /\ gpr[1] = 255
       \/ pc = 4 /\ ss_sp = 3840 /\ gpr[1] = 255
       \/ pc \in {6, 8, 10} /\ ss_sp = 4095
       \/ pc = 12 /\ ss_sp = 4095 /\ gpr[0] = Argument(program)
       \/ pc = 14 /\ ss_sp = 4095 /\ Computed(Argument(program))

\* Those of the routine, called with a: what is in the registers and on the stack
\* above the return address at s.
InRoutine ==
    /\ slots # <<>>
    /\ LET s == slots[1]
           a == Given(1)
           left == a - 1    \* the argument of the first call
       IN  \/ pc = 16 /\ ss_sp = s /\ gpr[0] = a
           \/ pc = 18 /\ ss_sp = s /\ gpr[0] = a /\ (zf <=> a = 0)
           \/ pc = 20 /\ ss_sp = s /\ gpr[0] = a /\ a > 0
           \/ pc = 22 /\ ss_sp = s /\ gpr[0] = left /\ a > 0 /\ (zf <=> a = 1)
           \/ pc = 24 /\ ss_sp = s /\ gpr[0] = left /\ a > 1
           \/ pc = 26 /\ ss_sp = s - 1 /\ gpr[0] = left /\ a > 1 /\ ram[s - 1] = left
           \/ pc = 28 /\ ss_sp = s - 1 /\ a > 1 /\ ram[s - 1] = left /\ Computed(left)
           \/ pc = 30 /\ ss_sp = s /\ gpr[0] = left /\ a > 1 /\ Computed(left)
           \/ pc = 32 /\ ss_sp = s - 1 /\ gpr[0] = left /\ a > 1
                      /\ 256 * gpr[2] + ram[s - 1] = Fib16(left)
           \/ pc = 34 /\ ss_sp = s - 2 /\ gpr[0] = left /\ a > 1
                      /\ 256 * ram[s - 2] + ram[s - 1] = Fib16(left)
           \/ pc = 36 /\ ss_sp = s - 2 /\ gpr[0] = left - 1 /\ a > 1
                      /\ 256 * ram[s - 2] + ram[s - 1] = Fib16(left)
           \/ pc = 38 /\ ss_sp = s - 2 /\ a > 1 /\ Computed(left - 1)
                      /\ 256 * ram[s - 2] + ram[s - 1] = Fib16(left)
           \/ pc = 40 /\ ss_sp = s - 1 /\ a > 1 /\ Computed(left - 1)
                      /\ 256 * gpr[4] + ram[s - 1] = Fib16(left)
           \/ pc = 42 /\ ss_sp = s /\ a > 1 /\ Computed(left - 1)
                      /\ 256 * gpr[4] + gpr[3] = Fib16(left)
           \/ pc = 44 /\ ss_sp = s
                      /\ (256 * (gpr[2] + gpr[4] + (IF cf THEN 1 ELSE 0)) + gpr[1]) % 65536
                            = Fib16(a)
           \/ pc \in {46, 52, 58} /\ ss_sp = s /\ Computed(a)
           \/ pc = 48 /\ ss_sp = s /\ a = 0
           \/ pc = 50 /\ ss_sp = s /\ a = 0 /\ gpr[1] = 0
           \/ pc = 54 /\ ss_sp = s /\ a = 1
           \/ pc = 56 /\ ss_sp = s /\ a = 1 /\ gpr[1] = 1

\* Behind the halt.
Finished == halted /\ Computed(Argument(program))

\* Wherever the program is, the return addresses and the values saved between them
\* are those of the calls made so far, and the registers hold what the instruction
\* needs; the code is as it was loaded.
Recursing ==
    Loaded =>
        /\ ~zren
        /\ \A address \in Image(program) : ram[address] = ProgramByte(program, address)
        /\ Activations
        /\ (~halted /\ Starting) \/ (~halted /\ InRoutine) \/ Finished
=============================================================================
