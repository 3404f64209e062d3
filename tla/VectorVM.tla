------------------------------ MODULE VectorVM ------------------------------
(***************************************************************************)
(* The virtual machine vectorvm/src/main.c: it clears the core, allocates  *)
(* 4096 bytes of RAM without initialising them, copies a program to        *)
(* address 0 and steps the core until it halts.                            *)
(***************************************************************************)
EXTENDS VirtCore

CONSTANTS
    Programs,    \* the programs main may be built with: sequences of words
    Heap         \* what malloc may return: functions from addresses to bytes

ASSUME ProgramsAssumption == Programs \subseteq Seq(Word)
ASSUME HeapAssumption == Heap \subseteq [Address -> Byte]

VARIABLE program

vmVars == <<vars, program>>

\* The uint16_t words in memory: low byte first.
ProgramByte(p, address) ==
    LET word == p[address \div 2 + 1]
    IN IF address % 2 = 0 THEN word % 256 ELSE word \div 256

\* The addresses that memcpy(ram, &program, sizeof(program)) writes.
Image(p) == 0..(2 * Len(p) - 1)

Init ==
    /\ gpr = [r \in Register |-> 0]
    /\ pc = 0
    /\ ds = 0
    /\ ss_sp = 0
    /\ zren = FALSE
    /\ halted = FALSE
    /\ zf = FALSE /\ cf = FALSE /\ lts = FALSE /\ ltu = FALSE
    /\ program \in Programs
    /\ \E heap \in Heap :
          ram = [address \in Address |->
                    IF address \in Image(program)
                    THEN ProgramByte(program, address)
                    ELSE heap[address]]

Next == vcore_step /\ UNCHANGED program

\* main does nothing but call vcore_step until the core has halted.
Spec == Init /\ [][Next]_vmVars /\ WF_vmVars(Next)

TypeOK == CoreTypeOK /\ program \in Programs
=============================================================================
