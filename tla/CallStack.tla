----------------------------- MODULE CallStack -----------------------------
(***************************************************************************)
(* The virtual machine with a history of the calls it has made and not yet *)
(* returned from: the stack slot that each of them pushed its return       *)
(* address to, and the registers it was made with.  The return addresses   *)
(* themselves are read back from RAM, so the refinement of CallReturn says *)
(* that the machine's stack really holds them, for as long as they are     *)
(* needed.                                                                 *)
(***************************************************************************)
EXTENDS VectorVM

VARIABLES
    slots,    \* where the return addresses lie, innermost first
    given     \* the registers that each of these calls was made with

stackVars == <<vmVars, slots, given>>

StackInit == Init /\ slots = <<>> /\ given = <<>>

StackNext ==
    /\ Next
    /\ LET op == Decode(Fetch)
           calls == ~halted /\ op = "call"
           returns == ~halted /\ op = "ret" /\ slots # <<>>
       IN  /\ slots' = IF calls THEN <<ss_sp'>> \o slots
                       ELSE IF returns THEN Tail(slots) ELSE slots
           /\ given' = IF calls THEN <<gpr>> \o given
                       ELSE IF returns THEN Tail(given) ELSE given

StackSpec == StackInit /\ [][StackNext]_stackVars /\ WF_stackVars(StackNext)

-----------------------------------------------------------------------------
ReturnAddresses == [i \in DOMAIN slots |-> ReturnAddress(slots[i])]

Abstract == INSTANCE CallReturn WITH at <- Masked(pc), stack <- ReturnAddresses

\* Calls nest: control returns behind the matching call, and no push, store or
\* data below a frame overwrites a return address still needed (instruction_call
\* and instruction_ret, virtcore.c, on the RAM of main.c).
CallsReturn == Abstract!Spec

-----------------------------------------------------------------------------
(* What a program owes the stack in return.  Nothing in the core enforces  *)
(* any of it.                                                              *)

FrameBytes == UNION {{slots[i], Above(slots[i])} : i \in DOMAIN slots}

\* How far above the stack pointer a return address lies.
Depth(i) == (slots[i] + 4096 - ss_sp) % 4096

\* n more bytes do not run into a return address from above.
Room(n) == \A i \in DOMAIN slots : Depth(i) + n <= 4094

\* Between a call and its return, a program moves the stack pointer by push, pop,
\* call and ret only, pops what it pushed before it returns and never more, stores
\* nothing over a return address and does not use the stack up; and it calls from
\* the first 512 bytes, as the core pushes one bit of the address's upper half
\* (instruction_call and instruction_ret, virtcore.c).
Disciplined ==
    ~halted =>
        LET w == Fetch
            op == Decode(w)
        IN  /\ op = "call" => Room(2) /\ NextPc < 512
            /\ op = "ret" => slots # <<>> /\ ss_sp = Head(slots)
            /\ op = "push" => Room(1)
            /\ op = "pop" => slots = <<>> \/ ss_sp # Head(slots)
            /\ op \in {"wrss", "wrsp"} => slots = <<>>
            /\ op = "str" => Masked(DsAddress(gpr[INS_DST(w)])) \notin FrameBytes
            /\ op = "srstr" => Masked(ss_sp + INS_IMM8(w)) \notin FrameBytes
=============================================================================
