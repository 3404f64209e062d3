--------------------------- MODULE CallStackProofs ---------------------------
(***************************************************************************)
(* Calls return, for every program that keeps to Disciplined, whatever the *)
(* RAM and the ports hold: the machine with its stack in RAM implements    *)
(* CallReturn.  The argument is about distances above the stack pointer,   *)
(* modulo 4096: return addresses lie at least two bytes apart and the last *)
(* byte of the outermost lies below the end of the circle, so that a push  *)
(* reaches none of them until the stack is used up.                        *)
(*                                                                         *)
(* Then the program that main loads, for every argument: it keeps to       *)
(* Disciplined, leaves its code alone and computes its Fibonacci number.   *)
(* The argument there is an inductive invariant with one case for each     *)
(* address of the program, and one condition for each call not yet         *)
(* returned from.                                                          *)
(***************************************************************************)
EXTENDS Recursion, VectorVMProofs, NaturalMinimum, SequenceTheorems

-----------------------------------------------------------------------------
(* Distances on the circle of addresses.                                   *)

Apart(s, p) == (s + 4096 - p) % 4096

LEMMA Neighbours ==
    ASSUME NEW p \in Address
    PROVE  /\ Below(p) = IF p = 0 THEN 4095 ELSE p - 1
           /\ Above(p) = IF p = 4095 THEN 0 ELSE p + 1
           /\ Below(p) \in Address /\ Above(p) \in Address
<1>1. p \in Nat /\ p < 4096
    BY AddressBounds
<1>2. Below(p) = IF p = 0 THEN 4095 ELSE p - 1
    BY <1>1 DEF Below
<1>3. Above(p) = IF p = 4095 THEN 0 ELSE p + 1
    BY <1>1 DEF Above
<1>4. Below(p) \in Nat /\ Below(p) < 4096 /\ Above(p) \in Nat /\ Above(p) < 4096
    BY <1>1, <1>2, <1>3
<1> QED BY <1>2, <1>3, <1>4, AddressBounds

LEMMA ApartIs ==
    ASSUME NEW s \in Address, NEW p \in Address
    PROVE  /\ Apart(s, p) = IF s >= p THEN s - p ELSE s + 4096 - p
           /\ Apart(s, p) \in Nat /\ Apart(s, p) < 4096
           /\ Apart(s, p) = 0 <=> s = p
<1>1. s \in Nat /\ s < 4096 /\ p \in Nat /\ p < 4096
    BY AddressBounds
<1>2. Apart(s, p) = IF s >= p THEN s - p ELSE s + 4096 - p
    BY <1>1 DEF Apart
<1> QED BY <1>1, <1>2

\* The stack pointer moves by one.
LEMMA ApartMoves ==
    ASSUME NEW s \in Address, NEW p \in Address
    PROVE  /\ Apart(s, p) < 4095 => Apart(s, Below(p)) = Apart(s, p) + 1
           /\ Apart(s, p) > 0 => Apart(s, Above(p)) = Apart(s, p) - 1
<1>1. s \in Nat /\ s < 4096 /\ p \in Nat /\ p < 4096
    BY AddressBounds
<1>2. Apart(s, p) = IF s >= p THEN s - p ELSE s + 4096 - p
    BY ApartIs
<1>3. /\ Below(p) = IF p = 0 THEN 4095 ELSE p - 1
      /\ Above(p) = IF p = 4095 THEN 0 ELSE p + 1
    BY Neighbours
<1>4. /\ Apart(s, Below(p)) = IF s >= Below(p) THEN s - Below(p) ELSE s + 4096 - Below(p)
      /\ Apart(s, Above(p)) = IF s >= Above(p) THEN s - Above(p) ELSE s + 4096 - Above(p)
    BY Neighbours, ApartIs
<1>5. Apart(s, p) < 4095 => Apart(s, Below(p)) = Apart(s, p) + 1
    BY <1>1, <1>2, <1>3, <1>4
<1>6. Apart(s, p) > 0 => Apart(s, Above(p)) = Apart(s, p) - 1
    BY <1>1, <1>2, <1>3, <1>4
<1> QED BY <1>5, <1>6

\* The second byte of a return address lies one further up.
LEMMA ApartAbove ==
    ASSUME NEW s \in Address, NEW p \in Address, Apart(s, p) < 4095
    PROVE  Apart(Above(s), p) = Apart(s, p) + 1
<1>1. s \in Nat /\ s < 4096 /\ p \in Nat /\ p < 4096
    BY AddressBounds
<1>2. Apart(s, p) = IF s >= p THEN s - p ELSE s + 4096 - p
    BY ApartIs
<1>3. Above(s) = IF s = 4095 THEN 0 ELSE s + 1
    BY Neighbours
<1>4. Apart(Above(s), p) = IF Above(s) >= p THEN Above(s) - p ELSE Above(s) + 4096 - p
    BY Neighbours, ApartIs
<1> QED BY <1>1, <1>2, <1>3, <1>4

\* Below and Above undo each other.
LEMMA UpAndDown ==
    ASSUME NEW p \in Address
    PROVE  Above(Below(p)) = p /\ Below(p) # p
<1>1. p \in Nat /\ p < 4096
    BY AddressBounds
<1>2. PICK q \in Address : q = Below(p) /\ q = IF p = 0 THEN 4095 ELSE p - 1
    BY Neighbours
<1>3. Above(q) = IF q = 4095 THEN 0 ELSE q + 1
    BY Neighbours
<1>4. Above(q) = p /\ q # p
    BY <1>1, <1>2, <1>3
<1> QED BY <1>2, <1>4

-----------------------------------------------------------------------------
(* Return addresses in memory.                                             *)

\* What a ret with the stack pointer at s finds in memory r.
Returned(r, s) == Masked(256 * r[s] + r[Above(s)])

LEMMA MaskedAddress ==
    ASSUME NEW a \in Address
    PROVE  Masked(a) = a
<1>1. a \in Nat /\ a < 4096
    BY AddressBounds
<1> QED BY <1>1 DEF Masked

LEMMA ReturnedIs ==
    ASSUME NEW s \in Address
    PROVE  ReturnAddress(s) = Returned(ram, s)
<1>1. Masked(s) = s /\ Masked(Above(s)) = Above(s)
    BY MaskedAddress, Neighbours
<1> QED BY <1>1 DEF ReturnAddress, Returned, implReadMem

LEMMA ReturnsAre ==
    /\ slots \in Seq(Address) =>
          ReturnAddresses = [i \in DOMAIN slots |-> Returned(ram, slots[i])]
    /\ slots' \in Seq(Address) =>
          ReturnAddresses' = [i \in DOMAIN slots' |-> Returned(ram', slots'[i])]
<1>1. \A s \in Address : /\ Masked(s) = s
                         /\ Masked(Above(s)) = Above(s)
    BY MaskedAddress, Neighbours
<1>2. ASSUME slots \in Seq(Address)
      PROVE  ReturnAddresses = [i \in DOMAIN slots |-> Returned(ram, slots[i])]
    <2>1. \A i \in DOMAIN slots : slots[i] \in Address
        BY <1>2
    <2> QED BY <1>1, <2>1 DEF ReturnAddresses, ReturnAddress, Returned, implReadMem
<1>3. ASSUME slots' \in Seq(Address)
      PROVE  ReturnAddresses' = [i \in DOMAIN slots' |-> Returned(ram', slots'[i])]
    <2>1. \A i \in DOMAIN slots' : slots'[i] \in Address
        BY <1>3
    <2> QED BY <1>1, <2>1 DEF ReturnAddresses, ReturnAddress, Returned, implReadMem
<1> QED BY <1>2, <1>3

-----------------------------------------------------------------------------
(* The invariant.                                                          *)

Nested ==
    /\ slots \in Seq(Address)
    /\ \A i \in DOMAIN slots : Depth(i) <= 4094
    /\ \A i, j \in DOMAIN slots : i < j => Depth(i) + 2 <= Depth(j)

StackInv == TypeOK /\ Nested

LEMMA NestedIs ==
    /\ Nested <=> /\ slots \in Seq(Address)
                  /\ \A i \in DOMAIN slots : Apart(slots[i], ss_sp) <= 4094
                  /\ \A i, j \in DOMAIN slots :
                        i < j => Apart(slots[i], ss_sp) + 2 <= Apart(slots[j], ss_sp)
    /\ Nested' <=> /\ slots' \in Seq(Address)
                   /\ \A i \in DOMAIN slots' : Apart(slots'[i], ss_sp') <= 4094
                   /\ \A i, j \in DOMAIN slots' :
                        i < j => Apart(slots'[i], ss_sp') + 2 <= Apart(slots'[j], ss_sp')
BY DEF Nested, Depth, Apart

\* Every frame keeps its distances when the stack pointer moves by one.
LEMMA NestedAfterPush ==
    ASSUME Nested, ss_sp \in Address, Room(1), slots' = slots, ss_sp' = Below(ss_sp)
    PROVE  Nested'
<1>1. slots \in Seq(Address) /\ \A i \in DOMAIN slots : slots[i] \in Address
    BY DEF Nested
<1>2. \A i \in DOMAIN slots :
         /\ Apart(slots[i], ss_sp) \in Nat /\ Apart(slots[i], ss_sp) + 1 <= 4094
         /\ Apart(slots[i], Below(ss_sp)) = Apart(slots[i], ss_sp) + 1
    <2>1. \A i \in DOMAIN slots : Apart(slots[i], ss_sp) + 1 <= 4094
        BY DEF Room, Depth, Apart
    <2>2. ASSUME NEW i \in DOMAIN slots
          PROVE  /\ Apart(slots[i], ss_sp) \in Nat /\ Apart(slots[i], ss_sp) + 1 <= 4094
                 /\ Apart(slots[i], Below(ss_sp)) = Apart(slots[i], ss_sp) + 1
        <3>1. slots[i] \in Address
            BY <1>1
        <3>2. Apart(slots[i], ss_sp) \in Nat /\ Apart(slots[i], ss_sp) + 1 <= 4094
            BY <2>1, <3>1, ApartIs
        <3> QED BY <3>1, <3>2, ApartMoves
    <2> QED BY <2>2
<1>3. \A i, j \in DOMAIN slots : i < j => Apart(slots[i], ss_sp) + 2 <= Apart(slots[j], ss_sp)
    BY NestedIs
<1> QED BY <1>1, <1>2, <1>3, NestedIs

LEMMA NestedAfterPop ==
    ASSUME Nested, ss_sp \in Address, slots = <<>> \/ ss_sp # Head(slots),
           slots' = slots, ss_sp' = Above(ss_sp)
    PROVE  Nested'
<1>1. slots \in Seq(Address) /\ \A i \in DOMAIN slots : slots[i] \in Address
    BY DEF Nested
<1>2. \A i \in DOMAIN slots : Apart(slots[i], ss_sp) \in Nat
    BY <1>1, ApartIs
<1>3. /\ \A i \in DOMAIN slots : Apart(slots[i], ss_sp) <= 4094
      /\ \A i, j \in DOMAIN slots :
            i < j => Apart(slots[i], ss_sp) + 2 <= Apart(slots[j], ss_sp)
    BY NestedIs
<1>4. ASSUME NEW i \in DOMAIN slots
      PROVE  Apart(slots[i], Above(ss_sp)) = Apart(slots[i], ss_sp) - 1
    <2>1. slots # <<>> /\ 1 \in DOMAIN slots /\ slots[1] = Head(slots) /\ i \in Nat /\ 1 <= i
        BY <1>1
    <2>2. Apart(slots[1], ss_sp) > 0
        <3>1. slots[1] \in Address /\ slots[1] # ss_sp
            BY <1>1, <2>1
        <3> QED BY <3>1, ApartIs
    <2>3. Apart(slots[i], ss_sp) > 0
        <3>1. CASE i = 1
            BY <2>2, <3>1
        <3>2. CASE 1 < i
            BY <1>2, <1>3, <2>1, <3>2
        <3> QED BY <2>1, <3>1, <3>2
    <2> QED BY <1>1, <2>3, ApartMoves
<1> QED BY <1>1, <1>2, <1>3, <1>4, NestedIs

LEMMA NestedAfterCall ==
    ASSUME Nested, ss_sp \in Address, Room(2),
           slots' = <<Below(Below(ss_sp))>> \o slots, ss_sp' = Below(Below(ss_sp))
    PROVE  Nested'
<1> DEFINE sp == Below(Below(ss_sp))
<1>1. slots \in Seq(Address) /\ \A i \in DOMAIN slots : slots[i] \in Address
    BY DEF Nested
<1>2. Below(ss_sp) \in Address /\ sp \in Address
    BY Neighbours
<1>3. ASSUME NEW i \in DOMAIN slots
      PROVE  /\ Apart(slots[i], ss_sp) \in Nat /\ Apart(slots[i], ss_sp) + 2 <= 4094
             /\ Apart(slots[i], sp) = Apart(slots[i], ss_sp) + 2
    <2>1. PICK d \in Nat : d = Apart(slots[i], ss_sp) /\ d + 2 <= 4094
        <3>1. Apart(slots[i], ss_sp) \in Nat
            BY <1>1, ApartIs
        <3>2. Apart(slots[i], ss_sp) + 2 <= 4094
            BY DEF Room, Depth, Apart
        <3> QED BY <3>1, <3>2
    <2>2. Apart(slots[i], Below(ss_sp)) = d + 1
        BY <1>1, <2>1, ApartMoves
    <2>3. Apart(slots[i], sp) = (d + 1) + 1
        <3>1. d + 1 < 4095
            BY <2>1
        <3> QED BY <1>1, <1>2, <2>2, <3>1, ApartMoves
    <2> QED BY <2>1, <2>3
<1>4. Apart(sp, sp) = 0
    BY <1>2, ApartIs
<1> HIDE DEF sp
<1>5. /\ slots' \in Seq(Address) /\ DOMAIN slots' = 1..(Len(slots) + 1)
      /\ slots'[1] = sp /\ \A i \in DOMAIN slots : slots'[i + 1] = slots[i]
    BY <1>1, <1>2 DEF sp
<1>6. ASSUME NEW i \in DOMAIN slots'
      PROVE  \/ i = 1
             \/ \E k \in DOMAIN slots : i = k + 1
    BY <1>1, <1>5
<1>7. ASSUME NEW i \in DOMAIN slots'
      PROVE  Apart(slots'[i], sp) <= 4094
    <2>1. CASE i = 1
        BY <1>4, <1>5, <2>1
    <2>2. CASE \E k \in DOMAIN slots : i = k + 1
        BY <1>3, <1>5, <2>2
    <2> QED BY <1>6, <2>1, <2>2
<1>8. ASSUME NEW i \in DOMAIN slots', NEW j \in DOMAIN slots', i < j
      PROVE  Apart(slots'[i], sp) + 2 <= Apart(slots'[j], sp)
    <2>1. PICK l \in DOMAIN slots : j = l + 1
        BY <1>1, <1>5, <1>6, <1>8
    <2>2. Apart(slots'[j], sp) = Apart(slots[l], ss_sp) + 2 /\ Apart(slots[l], ss_sp) \in Nat
        BY <1>3, <1>5, <2>1
    <2>3. CASE i = 1
        BY <1>4, <1>5, <2>2, <2>3
    <2>4. CASE \E k \in DOMAIN slots : i = k + 1
        <3>1. PICK k \in DOMAIN slots : i = k + 1
            BY <2>4
        <3>2. /\ Apart(slots'[i], sp) = Apart(slots[k], ss_sp) + 2
              /\ Apart(slots[k], ss_sp) \in Nat
            BY <1>3, <1>5, <3>1
        <3>3. k < l
            BY <1>1, <1>8, <2>1, <3>1
        <3>4. Apart(slots[k], ss_sp) + 2 <= Apart(slots[l], ss_sp)
            BY <3>3, NestedIs
        <3> QED BY <2>2, <3>2, <3>4
    <2> QED BY <1>6, <2>3, <2>4
<1> QED BY <1>5, <1>7, <1>8, NestedIs DEF sp

LEMMA NestedAfterRet ==
    ASSUME Nested, ss_sp \in Address, slots # <<>>, ss_sp = Head(slots),
           slots' = Tail(slots), ss_sp' = Above(Above(ss_sp))
    PROVE  Nested'
<1> DEFINE sp == Above(Above(ss_sp))
<1>1. slots \in Seq(Address) /\ \A i \in DOMAIN slots : slots[i] \in Address
    BY DEF Nested
<1>2. Above(ss_sp) \in Address /\ sp \in Address
    BY Neighbours
<1>3. 1 \in DOMAIN slots /\ slots[1] = ss_sp /\ Apart(slots[1], ss_sp) = 0
    BY <1>1, ApartIs
<1>4. ASSUME NEW i \in DOMAIN slots, 1 < i
      PROVE  /\ Apart(slots[i], ss_sp) \in Nat
             /\ Apart(slots[i], sp) = Apart(slots[i], ss_sp) - 2
    <2>1. PICK d \in Nat : d = Apart(slots[i], ss_sp)
        BY <1>1, ApartIs
    <2>2. d >= 2
        <3>1. Apart(slots[1], ss_sp) + 2 <= Apart(slots[i], ss_sp)
            BY <1>3, <1>4, NestedIs
        <3> QED BY <1>3, <2>1, <3>1
    <2>3. Apart(slots[i], Above(ss_sp)) = d - 1
        BY <1>1, <2>1, <2>2, ApartMoves
    <2>4. Apart(slots[i], sp) = (d - 1) - 1
        <3>1. d - 1 > 0
            BY <2>2
        <3> QED BY <1>1, <1>2, <2>3, <3>1, ApartMoves
    <2> QED BY <2>1, <2>4
<1> HIDE DEF sp
<1>5. /\ slots' \in Seq(Address)
      /\ \A i \in DOMAIN slots' :
            i + 1 \in DOMAIN slots /\ 1 < i + 1 /\ slots'[i] = slots[i + 1]
    BY <1>1
<1>6. ASSUME NEW i \in DOMAIN slots'
      PROVE  /\ Apart(slots[i + 1], ss_sp) \in Nat /\ Apart(slots[i + 1], ss_sp) <= 4094
             /\ Apart(slots'[i], sp) = Apart(slots[i + 1], ss_sp) - 2
    <2>1. i + 1 \in DOMAIN slots /\ 1 < i + 1 /\ slots'[i] = slots[i + 1]
        BY <1>5
    <2>2. \A k \in DOMAIN slots : Apart(slots[k], ss_sp) <= 4094
        BY NestedIs
    <2> QED BY ONLY <1>4, <2>1, <2>2
<1>7. ASSUME NEW i \in DOMAIN slots', NEW j \in DOMAIN slots', i < j
      PROVE  Apart(slots'[i], sp) + 2 <= Apart(slots'[j], sp)
    <2>1. i \in Nat /\ j \in Nat /\ i + 1 < j + 1
        BY <1>5, <1>7
    <2>2. Apart(slots[i + 1], ss_sp) + 2 <= Apart(slots[j + 1], ss_sp)
        BY <1>5, <2>1, NestedIs
    <2> QED BY <1>6, <2>2
<1>8. \A i \in DOMAIN slots' : Apart(slots'[i], sp) <= 4094
    BY <1>6
<1> QED BY <1>5, <1>7, <1>8, NestedIs DEF sp

-----------------------------------------------------------------------------
(* What an instruction does to the stack.                                  *)

FramesKept == \A b \in FrameBytes : ram'[b] = ram[b]

Quiet == slots' = slots /\ ss_sp' = ss_sp /\ FramesKept

Setting == slots = <<>> /\ slots' = slots /\ ram' = ram

Pushing ==
    /\ Room(1)
    /\ slots' = slots /\ ss_sp' = Below(ss_sp)
    /\ \A b \in Address \ {Below(ss_sp)} : ram'[b] = ram[b]

Popping ==
    /\ slots = <<>> \/ ss_sp # Head(slots)
    /\ slots' = slots /\ ss_sp' = Above(ss_sp) /\ ram' = ram

Calling ==
    /\ Room(2) /\ NextPc < 512
    /\ slots' = <<Below(Below(ss_sp))>> \o slots /\ ss_sp' = Below(Below(ss_sp))
    /\ ram' = [ram EXCEPT ![Below(ss_sp)] = NextPc % 256,
                          ![Below(Below(ss_sp))] = PushedPcHigh(NextPc)]

Returning ==
    /\ slots # <<>> /\ ss_sp = Head(slots)
    /\ slots' = Tail(slots) /\ ss_sp' = Above(Above(ss_sp)) /\ ram' = ram
    /\ pc' = ReturnAddress(ss_sp)

LEMMA FrameBytesAre ==
    ASSUME slots \in Seq(Address)
    PROVE  /\ \A i \in DOMAIN slots : slots[i] \in FrameBytes /\ Above(slots[i]) \in FrameBytes
           /\ \A b \in FrameBytes : \E i \in DOMAIN slots : b = slots[i] \/ b = Above(slots[i])
           /\ FrameBytes \subseteq Address
<1>1. \A i \in DOMAIN slots : slots[i] \in Address /\ Above(slots[i]) \in Address
    <2>1. \A i \in DOMAIN slots : slots[i] \in Address
        OBVIOUS
    <2> QED BY <2>1, Neighbours
<1>2. \A i \in DOMAIN slots : slots[i] \in FrameBytes /\ Above(slots[i]) \in FrameBytes
    BY DEF FrameBytes
<1>3. \A b \in FrameBytes : \E i \in DOMAIN slots : b = slots[i] \/ b = Above(slots[i])
    BY DEF FrameBytes
<1> QED BY <1>1, <1>2, <1>3

\* A store that Disciplined allows keeps the frames.
LEMMA WriteKeepsFrames ==
    ASSUME TypeOK, slots \in Seq(Address), NEW address \in Nat, NEW byte,
           implWriteMem(address, byte), Masked(address) \notin FrameBytes
    PROVE  FramesKept
<1>1. ram' = [ram EXCEPT ![Masked(address)] = byte]
    BY DEF implWriteMem
<1>2. DOMAIN ram = Address
    BY DEF TypeOK, CoreTypeOK
<1> QED BY <1>1, <1>2, FrameBytesAre DEF FramesKept

\* Every handler but seven leaves stack pointer and memory alone.
LEMMA OthersAreQuiet ==
    ASSUME NEW op, NEW w, Execute(op, w),
           op \notin {"call", "ret", "push", "pop", "wrss", "wrsp", "str", "srstr"}
    PROVE  ss_sp' = ss_sp /\ ram' = ram
<1>1. CASE \E dst, value : Load(dst, value)
    BY <1>1 DEF Load
<1>2. CASE \E address : Jump(address)
    BY <1>2 DEF Jump
<1>3. CASE \E dst, a, b, result : Arithmetic(dst, a, b, result)
    BY <1>3 DEF Arithmetic
<1>4. CASE Halt \/ (\E enabled : SetZeroRegister(enabled)) \/ instruction_wrds(w)
    BY <1>4 DEF Halt, SetZeroRegister, instruction_wrds
<1>5. CASE \/ instruction_jmp(w) \/ instruction_nop \/ instruction_out
           \/ instruction_bltu(w) \/ instruction_bleu(w) \/ instruction_blts(w)
           \/ instruction_bles(w) \/ instruction_beq(w) \/ instruction_bne(w)
    BY <1>2, <1>5 DEF instruction_jmp, instruction_nop, instruction_out, Branch,
       instruction_bltu, instruction_bleu, instruction_blts, instruction_bles,
       instruction_beq, instruction_bne
<1>6. CASE \/ instruction_add(w) \/ instruction_sub(w) \/ instruction_adc(w)
           \/ instruction_sbc(w) \/ instruction_addi(w)
    BY <1>3, <1>6 DEF instruction_add, instruction_sub, instruction_adc,
       instruction_sbc, instruction_addi
<1>7. CASE \/ instruction_and(w) \/ instruction_or(w) \/ instruction_xor(w)
           \/ instruction_mov(w) \/ instruction_not(w) \/ instruction_ldi(w)
    BY <1>1, <1>7 DEF instruction_and, instruction_or, instruction_xor,
       instruction_mov, instruction_not, instruction_ldi
<1>8. CASE \/ instruction_rdss(w) \/ instruction_rdds(w) \/ instruction_rdsp(w)
           \/ instruction_in(w) \/ instruction_ldr(w) \/ instruction_srldr(w)
    BY <1>1, <1>8 DEF instruction_rdss, instruction_rdds, instruction_rdsp,
       instruction_in, instruction_ldr, instruction_srldr
<1>9. CASE instruction_halt \/ instruction_enzr \/ instruction_dszr
    BY <1>4, <1>9 DEF instruction_halt, instruction_enzr, instruction_dszr
<1> QED BY <1>4, <1>5, <1>6, <1>7, <1>8, <1>9 DEF Execute

LEMMA Kinds ==
    ASSUME TypeOK, slots \in Seq(Address), Disciplined, StackNext, ~halted
    PROVE  Quiet \/ Setting \/ Pushing \/ Popping \/ Calling \/ Returning
<1>1. PICK w \in {Fetch}, op \in {Decode(Fetch)} : Execute(op, w)
    BY DEF StackNext, Next, vcore_step
<1>2. slots' = IF op = "call" THEN <<ss_sp'>> \o slots
               ELSE IF op = "ret" /\ slots # <<>> THEN Tail(slots)
               ELSE slots
    BY <1>1 DEF StackNext
<1>3. /\ op = "call" => Room(2) /\ NextPc < 512
      /\ op = "ret" => slots # <<>> /\ ss_sp = Head(slots)
      /\ op = "push" => Room(1)
      /\ op = "pop" => slots = <<>> \/ ss_sp # Head(slots)
      /\ op \in {"wrss", "wrsp"} => slots = <<>>
      /\ op = "str" => Masked(DsAddress(gpr[INS_DST(w)])) \notin FrameBytes
      /\ op = "srstr" => Masked(ss_sp + INS_IMM8(w)) \notin FrameBytes
    BY <1>1 DEF Disciplined
<1>4. w \in Word /\ CoreTypeOK
    BY <1>1, FetchRange DEF TypeOK
<1>5. DOMAIN ram = Address /\ ss_sp \in Address
    BY <1>4 DEF CoreTypeOK
<1>6. CASE op = "call"
    <2>1. instruction_call(w)
        BY <1>1, <1>6 DEF Execute
    <2> QED BY <1>2, <1>3, <1>6, <2>1 DEF instruction_call, Calling
<1>7. CASE op = "ret"
    <2>1. instruction_ret
        BY <1>1, <1>7 DEF Execute
    <2> QED BY <1>2, <1>3, <1>7, <2>1 DEF instruction_ret, Returning
<1>8. CASE op = "push"
    <2>1. instruction_push(w)
        BY <1>1, <1>8 DEF Execute
    <2>2. Masked(Below(ss_sp)) = Below(ss_sp)
        BY <1>5, MaskedAddress, Neighbours
    <2>3. \A b \in Address \ {Below(ss_sp)} : ram'[b] = ram[b]
        BY <1>5, <2>1, <2>2 DEF instruction_push, implWriteMem
    <2> QED BY <1>2, <1>3, <1>8, <2>1, <2>3 DEF instruction_push, Pushing
<1>9. CASE op = "pop"
    <2>1. instruction_pop(w)
        BY <1>1, <1>9 DEF Execute
    <2> QED BY <1>2, <1>3, <1>9, <2>1 DEF instruction_pop, Popping
<1>10. CASE op \in {"wrss", "wrsp"}
    <2>1. instruction_wrss(w) \/ instruction_wrsp(w)
        BY <1>1, <1>10 DEF Execute
    <2>2. ram' = ram
        BY <2>1 DEF instruction_wrss, instruction_wrsp, SetStackPointer
    <2> QED BY <1>2, <1>3, <1>10, <2>2 DEF Setting
<1>11. CASE op = "str"
    <2>1. instruction_str(w)
        BY <1>1, <1>11 DEF Execute
    <2>2. DsAddress(gpr[INS_DST(w)]) \in Nat
        <3>1. gpr[INS_DST(w)] \in Byte
            BY <1>4, FieldRanges DEF CoreTypeOK
        <3> QED BY <1>4, <3>1, DsAddressRange
    <2>3. FramesKept
        BY <1>3, <1>11, <2>1, <2>2, WriteKeepsFrames DEF instruction_str, Store
    <2> QED BY <1>2, <1>11, <2>1, <2>3 DEF instruction_str, Store, Quiet
<1>12. CASE op = "srstr"
    <2>1. instruction_srstr(w)
        BY <1>1, <1>12 DEF Execute
    <2>2. ss_sp + INS_IMM8(w) \in Nat
        BY <1>4, StackRelativeRange
    <2>3. FramesKept
        BY <1>3, <1>12, <2>1, <2>2, WriteKeepsFrames DEF instruction_srstr, Store
    <2> QED BY <1>2, <1>12, <2>1, <2>3 DEF instruction_srstr, Store, Quiet
<1>13. CASE op \notin {"call", "ret", "push", "pop", "wrss", "wrsp", "str", "srstr"}
    <2>1. ss_sp' = ss_sp /\ ram' = ram
        BY <1>1, <1>13, OthersAreQuiet
    <2> QED BY <1>2, <1>13, <2>1 DEF Quiet, FramesKept
<1> QED BY <1>6, <1>7, <1>8, <1>9, <1>10, <1>11, <1>12, <1>13

-----------------------------------------------------------------------------
(* The steps.                                                              *)

LEMMA SettingIs ==
    ASSUME Setting
    PROVE  Nested'
<1>1. slots' = <<>>
    BY DEF Setting
<1> QED BY <1>1 DEF Nested

LEMMA NestedStep ==
    ASSUME StackInv, Disciplined, [StackNext]_stackVars
    PROVE  StackInv'
<1>1. TypeOK'
    BY NextType DEF StackInv, StackNext, stackVars
<1>2. ss_sp \in Address /\ slots \in Seq(Address)
    BY DEF StackInv, TypeOK, CoreTypeOK, Nested
<1>3. CASE UNCHANGED <<ss_sp, slots>>
    BY <1>1, <1>3, NestedIs DEF StackInv
<1>4. CASE StackNext /\ ~halted
    <2>1. CASE Quiet
        BY <1>1, <1>3, <2>1 DEF Quiet
    <2>2. CASE Setting
        BY <1>1, <2>2, SettingIs DEF StackInv
    <2>3. CASE Pushing
        BY <1>1, <1>2, <2>3, NestedAfterPush DEF StackInv, Pushing
    <2>4. CASE Popping
        BY <1>1, <1>2, <2>4, NestedAfterPop DEF StackInv, Popping
    <2>5. CASE Calling
        BY <1>1, <1>2, <2>5, NestedAfterCall DEF StackInv, Calling
    <2>6. CASE Returning
        BY <1>1, <1>2, <2>6, NestedAfterRet DEF StackInv, Returning
    <2> QED BY <1>1, <1>2, <1>3, <1>4, <2>1, <2>2, <2>3, <2>4, <2>5, <2>6, Kinds DEF StackInv
<1>5. CASE StackNext /\ halted
    <2>1. UNCHANGED vars
        BY <1>5 DEF StackNext, Next, vcore_step
    <2>2. slots' = slots
        BY <1>5 DEF StackNext
    <2> QED BY <1>3, <2>1, <2>2 DEF vars, coreVars
<1>6. CASE UNCHANGED stackVars
    BY <1>3, <1>6 DEF stackVars, vmVars, vars, coreVars
<1> QED BY <1>1, <1>3, <1>4, <1>5, <1>6 DEF StackInv

\* The next byte or the next two below the stack pointer belong to no frame.
LEMMA BelowIsFree ==
    ASSUME Nested, ss_sp \in Address
    PROVE  /\ Room(1) => Below(ss_sp) \notin FrameBytes
           /\ Room(2) => /\ Below(ss_sp) \notin FrameBytes
                         /\ Below(Below(ss_sp)) \notin FrameBytes
<1> DEFINE lo == Below(ss_sp)
           hi == Below(lo)
<1>1. lo \in Address /\ hi \in Address
    BY Neighbours
<1>2. slots \in Seq(Address)
    BY DEF Nested
<1>3. Apart(lo, ss_sp) = 4095
    <2>1. ss_sp \in Nat /\ ss_sp < 4096
        BY AddressBounds
    <2>2. lo = IF ss_sp = 0 THEN 4095 ELSE ss_sp - 1
        BY Neighbours
    <2>3. Apart(lo, ss_sp) = IF lo >= ss_sp THEN lo - ss_sp ELSE lo + 4096 - ss_sp
        BY <1>1, ApartIs
    <2> HIDE DEF lo
    <2> QED BY <2>1, <2>2, <2>3
<1>4. Apart(hi, ss_sp) = 4094
    <2>1. PICK d \in Nat : d = Apart(hi, ss_sp) /\ d < 4096
        BY <1>1, ApartIs
    <2>2. Above(hi) = lo
        BY <1>1, UpAndDown
    <2>3. d # 4095
        <3>1. ASSUME d = 4095 PROVE FALSE
            <4>1. hi \in Nat /\ hi < 4096 /\ ss_sp \in Nat /\ ss_sp < 4096
                BY <1>1, AddressBounds
            <4>2. d = IF hi >= ss_sp THEN hi - ss_sp ELSE hi + 4096 - ss_sp
                BY <1>1, <2>1, ApartIs
            <4>3. lo = IF ss_sp = 0 THEN 4095 ELSE ss_sp - 1
                BY Neighbours
            <4>4. hi # lo
                BY <1>1, UpAndDown
            <4> HIDE DEF hi, lo
            <4> QED BY <3>1, <4>1, <4>2, <4>3, <4>4
        <3> QED BY <3>1
    <2>4. Apart(Above(hi), ss_sp) = d + 1
        <3>1. d < 4095
            BY <2>1, <2>3
        <3> QED BY <1>1, <2>1, <3>1, ApartAbove
    <2> QED BY <1>3, <2>1, <2>2, <2>4
<1> HIDE DEF lo, hi
<1>5. ASSUME NEW n \in {1, 2}, Room(n), NEW b \in FrameBytes
      PROVE  Apart(b, ss_sp) <= 4095 - n
    <2>1. PICK i \in DOMAIN slots : b = slots[i] \/ b = Above(slots[i])
        BY <1>2, FrameBytesAre
    <2>2. PICK d \in Nat : d = Apart(slots[i], ss_sp)
        <3>1. slots[i] \in Address
            BY <1>2
        <3> QED BY <3>1, ApartIs
    <2>3. d + n <= 4094
        BY <1>5, <2>2 DEF Room, Depth, Apart
    <2>4. Apart(Above(slots[i]), ss_sp) = d + 1
        <3>1. d < 4095 /\ slots[i] \in Address
            BY <1>2, <2>3
        <3> QED BY <2>2, <3>1, ApartAbove
    <2> QED BY <2>1, <2>2, <2>3, <2>4
<1>6. Room(1) => lo \notin FrameBytes
    <2>1. ASSUME Room(1), lo \in FrameBytes PROVE FALSE
        <3>1. Apart(lo, ss_sp) <= 4095 - 1
            BY <1>5, <2>1
        <3> QED BY <1>3, <3>1
    <2> QED BY <2>1
<1>7. Room(2) => lo \notin FrameBytes /\ hi \notin FrameBytes
    <2>1. ASSUME Room(2) PROVE lo \notin FrameBytes
        <3>1. ASSUME lo \in FrameBytes PROVE Apart(lo, ss_sp) <= 4095 - 2
            BY <1>5, <2>1, <3>1
        <3> QED BY <1>3, <3>1
    <2>2. ASSUME Room(2) PROVE hi \notin FrameBytes
        <3>1. ASSUME hi \in FrameBytes PROVE Apart(hi, ss_sp) <= 4095 - 2
            BY <1>5, <2>2, <3>1
        <3> QED BY <1>4, <3>1
    <2> QED BY <2>1, <2>2
<1> QED BY <1>6, <1>7 DEF lo, hi

\* Frames whose bytes are kept return to where they did.
LEMMA KeptReturns ==
    ASSUME slots \in Seq(Address), FramesKept
    PROVE  \A i \in DOMAIN slots : Returned(ram', slots[i]) = Returned(ram, slots[i])
BY FrameBytesAre DEF FramesKept, Returned

LEMMA SameReturns ==
    ASSUME slots \in Seq(Address), FramesKept, slots' = slots
    PROVE  ReturnAddresses' = ReturnAddresses
BY KeptReturns, ReturnsAre

LEMMA PcStaysAddress ==
    ASSUME TypeOK'
    PROVE  Masked(pc)' \in Address
<1>1. pc' \in Nat
    BY WordBounds DEF TypeOK, CoreTypeOK
<1>2. \A n \in Nat : n % 4096 \in Nat /\ n % 4096 < 4096
    OBVIOUS
<1> QED BY <1>1, <1>2, AddressBounds DEF Masked

\* The two bytes that a call below 512 pushes are its return address.
LEMMA PushedIsReturned ==
    ASSUME NEW n \in Nat, n < 512
    PROVE  Masked(256 * PushedPcHigh(n) + (n % 256)) = n
<1>1. CASE n < 256
    <2>1. n \div 256 = 0 /\ n % 256 = n
        BY <1>1
    <2> QED BY <1>1, <2>1 DEF PushedPcHigh, Masked
<1>2. CASE n >= 256
    <2>1. n \div 256 = 1 /\ n % 256 = n - 256
        BY <1>2
    <2> QED BY <1>2, <2>1 DEF PushedPcHigh, Masked
<1> QED BY <1>1, <1>2

-----------------------------------------------------------------------------
(* The refinement.                                                         *)

LEMMA ConsIs ==
    ASSUME NEW S, NEW m \in Nat, NEW f \in [1..m -> S], NEW a \in S,
           NEW g \in [1..m + 1 -> S], g[1] = a, \A i \in 1..m : g[i + 1] = f[i]
    PROVE  g = <<a>> \o f
<1>1. f \in Seq(S) /\ Len(f) = m /\ g \in Seq(S) /\ Len(g) = m + 1
    BY SeqDef
<1>2. /\ <<a>> \o f \in Seq(S) /\ Len(<<a>> \o f) = m + 1
      /\ (<<a>> \o f)[1] = a
      /\ \A i \in 1..m : (<<a>> \o f)[i + 1] = f[i]
    BY <1>1
<1>3. ASSUME NEW i \in 1..m + 1
      PROVE  g[i] = (<<a>> \o f)[i]
    <2>1. CASE i = 1
        BY <1>2, <2>1
    <2>2. CASE i > 1
        <3>1. PICK j \in 1..m : i = j + 1
            <4>1. i - 1 \in 1..m /\ i = (i - 1) + 1
                BY <2>2
            <4> QED BY <4>1
        <3> QED BY <1>2, <3>1
    <2> QED BY <2>1, <2>2
<1> QED BY <1>1, <1>2, <1>3, SeqEqual

LEMMA TailIs ==
    ASSUME NEW S, NEW m \in Nat, m > 0, NEW f \in [1..m -> S],
           NEW g \in [1..m - 1 -> S], \A i \in 1..m - 1 : g[i] = f[i + 1]
    PROVE  g = Tail(f) /\ f # <<>> /\ Head(f) = f[1]
<1>1. f \in Seq(S) /\ Len(f) = m /\ g \in Seq(S) /\ Len(g) = m - 1
    BY SeqDef
<1>2. f # <<>> /\ Head(f) = f[1]
    BY <1>1
<1>3. Tail(f) \in Seq(S) /\ Len(Tail(f)) = m - 1 /\ \A i \in 1..m - 1 : Tail(f)[i] = f[i + 1]
    BY <1>1, <1>2
<1>4. g = Tail(f)
    BY <1>1, <1>3, SeqEqual
<1> QED BY <1>2, <1>4

LEMMA ReturnedType ==
    ASSUME NEW r \in [Address -> Byte], NEW s \in Address
    PROVE  Returned(r, s) \in Address
<1>1. r[s] \in Byte /\ r[Above(s)] \in Byte
    BY Neighbours
<1>2. \A n \in Nat : Masked(n) \in Address
    BY MaskedRange
<1>3. \A hi, lo \in Byte : 256 * hi + lo \in Nat
    BY DEF Byte
<1> QED BY <1>1, <1>2, <1>3 DEF Returned

\* The stack of CallReturn is a sequence of addresses.
LEMMA ReturnsType ==
    /\ TypeOK /\ Nested =>
          /\ ReturnAddresses \in [DOMAIN slots -> Address]
          /\ \A i \in DOMAIN slots : ReturnAddresses[i] = Returned(ram, slots[i])
    /\ TypeOK' /\ Nested' =>
          /\ ReturnAddresses' \in [DOMAIN slots' -> Address]
          /\ \A i \in DOMAIN slots' : ReturnAddresses'[i] = Returned(ram', slots'[i])
<1>1. ASSUME TypeOK, Nested
      PROVE  /\ ReturnAddresses \in [DOMAIN slots -> Address]
             /\ \A i \in DOMAIN slots : ReturnAddresses[i] = Returned(ram, slots[i])
    <2>1. slots \in Seq(Address) /\ ram \in [Address -> Byte]
        BY <1>1 DEF Nested, TypeOK, CoreTypeOK
    <2>2. \A i \in DOMAIN slots : Returned(ram, slots[i]) \in Address
        BY <2>1, ReturnedType
    <2> QED BY <2>1, <2>2, ReturnsAre
<1>2. ASSUME TypeOK', Nested'
      PROVE  /\ ReturnAddresses' \in [DOMAIN slots' -> Address]
             /\ \A i \in DOMAIN slots' : ReturnAddresses'[i] = Returned(ram', slots'[i])
    <2>1. slots' \in Seq(Address) /\ ram' \in [Address -> Byte]
        BY <1>2 DEF Nested, TypeOK, CoreTypeOK
    <2>2. \A i \in DOMAIN slots' : Returned(ram', slots'[i]) \in Address
        BY <2>1, ReturnedType
    <2> QED BY <2>1, <2>2, ReturnsAre
<1> QED BY <1>1, <1>2

LEMMA CallRefines ==
    ASSUME StackInv, TypeOK', Nested', Calling
    PROVE  Abstract!Call
<1> DEFINE lo == Below(ss_sp)
           hi == Below(lo)
<1>1. ss_sp \in Address /\ pc \in Word /\ slots \in Seq(Address) /\ slots' \in Seq(Address)
      /\ DOMAIN ram = Address
    BY DEF StackInv, TypeOK, CoreTypeOK, Nested
<1>2. lo \in Address /\ hi \in Address /\ Above(hi) = lo /\ hi # lo
    BY <1>1, Neighbours, UpAndDown
<1>3. lo \notin FrameBytes /\ hi \notin FrameBytes
    BY <1>1, BelowIsFree DEF StackInv, Calling
<1>4. /\ ram'[lo] = NextPc % 256 /\ ram'[hi] = PushedPcHigh(NextPc)
      /\ \A b \in Address \ {lo, hi} : ram'[b] = ram[b]
    BY <1>1, <1>2 DEF Calling
<1>5. FramesKept
    BY <1>1, <1>3, <1>4, FrameBytesAre DEF FramesKept
<1>6. Returned(ram', hi) = Abstract!After(Masked(pc))
    <2>1. NextPc \in Nat /\ NextPc < 512
        <3>1. NextPc \in Word
            BY NextPcRange DEF StackInv, TypeOK
        <3>2. Word \subseteq Nat
            BY WordBounds
        <3> QED BY <3>1, <3>2 DEF Calling
    <2>2. Returned(ram', hi) = NextPc
        BY <1>2, <1>4, <2>1, PushedIsReturned DEF Returned
    <2>3. Abstract!After(Masked(pc)) = NextPc
        <3>1. pc \in Nat /\ pc < 65536
            BY <1>1, WordBounds
        <3>2. (pc + 2) % 65536 = NextPc
            BY DEF NextPc
        <3> QED BY <2>1, <3>1, <3>2 DEF Abstract!After, Masked
    <2> QED BY <2>2, <2>3
<1> HIDE DEF lo, hi
<1>7. ReturnAddresses' = <<Abstract!After(Masked(pc))>> \o ReturnAddresses
    <2>1. PICK m \in Nat : m = Len(slots) /\ DOMAIN slots = 1..m
        BY <1>1
    <2>2. /\ slots' \in Seq(Address) /\ DOMAIN slots' = 1..m + 1
          /\ slots'[1] = hi /\ \A i \in 1..m : slots'[i + 1] = slots[i]
        BY <1>1, <1>2, <2>1 DEF Calling, lo, hi
    <2>3. /\ ReturnAddresses \in [1..m -> Address]
          /\ \A i \in 1..m : ReturnAddresses[i] = Returned(ram, slots[i])
        BY <2>1, ReturnsType DEF StackInv
    <2>4. /\ ReturnAddresses' \in [1..m + 1 -> Address]
          /\ \A i \in 1..m + 1 : ReturnAddresses'[i] = Returned(ram', slots'[i])
        BY <2>2, ReturnsType
    <2>5. ReturnAddresses'[1] = Abstract!After(Masked(pc))
        <3>1. 1 \in 1..m + 1
            OBVIOUS
        <3> QED BY <1>6, <2>2, <2>4, <3>1
    <2>6. Abstract!After(Masked(pc)) \in Address
        <3>1. 1 \in 1..m + 1
            OBVIOUS
        <3> QED BY <2>4, <2>5, <3>1
    <2>7. ASSUME NEW i \in 1..m
          PROVE  ReturnAddresses'[i + 1] = ReturnAddresses[i]
        <3>1. i + 1 \in 1..m + 1
            OBVIOUS
        <3>2. Returned(ram', slots[i]) = Returned(ram, slots[i])
            BY <1>1, <1>5, <2>1, KeptReturns
        <3> QED BY <2>2, <2>3, <2>4, <3>1, <3>2
    <2>8. PICK f \in [1..m -> Address], g \in [1..m + 1 -> Address], a \in Address :
              f = ReturnAddresses /\ g = ReturnAddresses' /\ a = Abstract!After(Masked(pc))
        BY <2>3, <2>4, <2>6
    <2>9. g[1] = a /\ \A i \in 1..m : g[i + 1] = f[i]
        BY <2>5, <2>7, <2>8
    <2>10. g = <<a>> \o f
        BY <2>9, ConsIs
    <2> QED BY <2>8, <2>10
<1> QED BY <1>7, PcStaysAddress DEF Abstract!Call

LEMMA ReturnRefines ==
    ASSUME StackInv, TypeOK', Nested', Returning
    PROVE  Abstract!Return
<1>1. /\ slots \in Seq(Address) /\ slots # <<>> /\ ss_sp = Head(slots)
      /\ slots' = Tail(slots) /\ ram' = ram
    BY DEF Returning, StackInv, Nested
<1>2. PICK m \in Nat : m > 0 /\ m = Len(slots) /\ DOMAIN slots = 1..m
    BY <1>1
<1>3. /\ DOMAIN slots' = 1..m - 1
      /\ \A i \in 1..m - 1 : slots'[i] = slots[i + 1]
    BY <1>1, <1>2
<1>4. /\ ReturnAddresses \in [1..m -> Address]
      /\ \A i \in 1..m : ReturnAddresses[i] = Returned(ram, slots[i])
    BY <1>2, ReturnsType DEF StackInv
<1>5. /\ ReturnAddresses' \in [1..m - 1 -> Address]
      /\ \A i \in 1..m - 1 : ReturnAddresses'[i] = Returned(ram', slots'[i])
    BY <1>3, ReturnsType
<1>6. PICK f \in [1..m -> Address], g \in [1..m - 1 -> Address] :
          f = ReturnAddresses /\ g = ReturnAddresses'
    BY <1>4, <1>5
<1>7. \A i \in 1..m - 1 : g[i] = f[i + 1]
    BY <1>1, <1>2, <1>3, <1>4, <1>5, <1>6
<1>8. g = Tail(f) /\ f # <<>> /\ Head(f) = f[1]
    BY <1>2, <1>7, TailIs
<1>9. Masked(pc)' = ReturnAddresses[1]
    <2>1. ss_sp \in Address /\ ss_sp = slots[1]
        BY <1>1, <1>2 DEF StackInv, TypeOK, CoreTypeOK
    <2>2. pc' = Returned(ram, ss_sp)
        BY <2>1, ReturnedIs DEF Returning
    <2>3. Returned(ram, ss_sp) \in Address
        BY <2>1, ReturnedType DEF StackInv, TypeOK, CoreTypeOK
    <2>4. Masked(pc)' = Masked(pc')
        BY DEF Masked
    <2>5. Masked(pc') = pc'
        BY <2>2, <2>3, MaskedAddress
    <2>6. 1 \in 1..m
        BY <1>2
    <2> QED BY <1>4, <2>1, <2>2, <2>4, <2>5, <2>6
<1> QED BY <1>6, <1>8, <1>9 DEF Abstract!Return

\* Every step of the machine is a call, a return or a step in between that keeps
\* the addresses to return to.
LEMMA StepRefines ==
    ASSUME StackInv, Disciplined, StackInv', [StackNext]_stackVars
    PROVE  [Abstract!Next]_<<Masked(pc), ReturnAddresses>>
<1>1. ss_sp \in Address /\ slots \in Seq(Address)
    BY DEF StackInv, TypeOK, CoreTypeOK, Nested
<1>2. TypeOK' /\ Nested'
    BY DEF StackInv
<1>3. Masked(pc)' \in Address
    BY <1>2, PcStaysAddress
<1>4. CASE slots' = slots /\ FramesKept
    <2>1. ReturnAddresses' = ReturnAddresses
        BY <1>1, <1>4, SameReturns
    <2> QED BY <1>3, <2>1 DEF Abstract!Next, Abstract!Step
<1>5. CASE StackNext /\ ~halted
    <2>1. CASE Quiet
        BY <1>4, <2>1 DEF Quiet
    <2>2. CASE Setting
        BY <1>4, <2>2 DEF Setting, FramesKept
    <2>3. CASE Pushing
        <3>1. Below(ss_sp) \notin FrameBytes
            BY <1>1, <2>3, BelowIsFree DEF Pushing, StackInv
        <3>2. FramesKept
            BY <1>1, <2>3, <3>1, FrameBytesAre DEF Pushing, FramesKept
        <3> QED BY <1>4, <2>3, <3>2 DEF Pushing
    <2>4. CASE Popping
        BY <1>4, <2>4 DEF Popping, FramesKept
    <2>5. CASE Calling
        BY <1>2, <2>5, CallRefines DEF Abstract!Next
    <2>6. CASE Returning
        BY <1>2, <2>6, ReturnRefines DEF Abstract!Next
    <2>7. TypeOK
        BY DEF StackInv
    <2> QED BY <1>1, <1>5, <2>1, <2>2, <2>3, <2>4, <2>5, <2>6, <2>7, Kinds
<1>6. CASE StackNext /\ halted
    <2>1. UNCHANGED vars
        BY <1>6 DEF StackNext, Next, vcore_step
    <2>2. slots' = slots
        BY <1>6 DEF StackNext
    <2> QED BY <1>4, <2>1, <2>2 DEF vars, FramesKept
<1>7. CASE UNCHANGED stackVars
    BY <1>4, <1>7 DEF stackVars, vmVars, vars, FramesKept
<1> QED BY <1>5, <1>6, <1>7

LEMMA InitRefines ==
    ASSUME StackInit
    PROVE  StackInv /\ Abstract!Init
<1>1. TypeOK /\ slots = <<>> /\ pc = 0
    BY InitType DEF StackInit, Init
<1>2. Nested
    BY <1>1 DEF Nested
<1>3. Masked(pc) = 0
    BY <1>1 DEF Masked
<1>4. ReturnAddresses = <<>>
    BY <1>1 DEF ReturnAddresses
<1> QED BY <1>1, <1>2, <1>3, <1>4 DEF StackInv, Abstract!Init

\* Return addresses lie in the order of their calls, at least two bytes apart, for
\* as long as the program keeps to its side (call, ret, push and pop, virtcore.c).
THEOREM FramesNest == StackSpec /\ []Disciplined => []StackInv
BY InitRefines, NestedStep, PTL DEF StackSpec

\* Whatever else the program does, control comes back behind the call that it left
\* from, last call first: the two bytes that instruction_call leaves in RAM are what
\* instruction_ret finds there (virtcore.c).
THEOREM CallsComeBack == StackSpec /\ []Disciplined => CallsReturn
<1>1. StackInv /\ Disciplined /\ StackInv' /\ [StackNext]_stackVars
        => [Abstract!Next]_<<Masked(pc), ReturnAddresses>>
    BY StepRefines
<1> QED BY <1>1, InitRefines, FramesNest, PTL DEF StackSpec, CallsReturn, Abstract!Spec

-----------------------------------------------------------------------------
(* The program that main loads: its words, and the step that the core      *)
(* takes at each of its addresses as long as the code is as it was loaded. *)

\* The words of programArray (main.c) as numbers.
LEMMA WordsAre ==
    ASSUME NEW n \in Nat, n < 256, NEW p, p = programArray(n)
    PROVE  /\ Len(p) = 30
           /\ p[1] = 41471 /\ p[2] = 36900 /\ p[3] = 36908
           /\ p[4] = 41231 /\ p[5] = 36904 /\ p[6] = 40960 + n
           /\ p[7] = 4112 /\ p[8] = 36871 /\ p[9] = 49152
           /\ p[10] = 24624 /\ p[11] = 49407 /\ p[12] = 24630
           /\ p[13] = 36864 /\ p[14] = 4112 /\ p[15] = 36865
           /\ p[16] = 36896 /\ p[17] = 36928 /\ p[18] = 49407
           /\ p[19] = 4112 /\ p[20] = 37889 /\ p[21] = 37633
           /\ p[22] = 33068 /\ p[23] = 33362 /\ p[24] = 36875
           /\ p[25] = 41216 /\ p[26] = 41472 /\ p[27] = 36875
           /\ p[28] = 41217 /\ p[29] = 41472 /\ p[30] = 36875
<1>0. Len(p) = 30
    BY DEF programArray
<1>1. p[1] = 41471
    BY DEF programArray, MKI_LDI, MKC_DST, MKC_IMM8
<1>2. p[2] = 36900
    BY DEF programArray, MKI_WRSS, MKC_SRC1
<1>3. p[3] = 36908
    BY DEF programArray, MKI_WRSP, MKC_SRC1
<1>4. p[4] = 41231
    BY DEF programArray, MKI_LDI, MKC_DST, MKC_IMM8
<1>5. p[5] = 36904
    BY DEF programArray, MKI_WRDS, MKC_SRC1
<1>6. p[6] = 40960 + n
    BY DEF programArray, MKI_LDI, MKC_DST, MKC_IMM8
<1>7. p[7] = 4112
    BY DEF programArray, MKI_CALL, MKC_ADDR, FIB
<1>8. p[8] = 36871
    BY DEF programArray, MKI_HALT
<1>9. p[9] = 49152
    BY DEF programArray, MKI_ADDI, MKC_DST, MKC_SRC1ALT2, MKC_IMM8
<1>10. p[10] = 24624
    BY DEF programArray, MKI_BEQ, MKC_ADDR, ZC, OC
<1>11. p[11] = 49407
    BY DEF programArray, MKI_ADDI, MKC_DST, MKC_SRC1ALT2, MKC_IMM8
<1>12. p[12] = 24630
    BY DEF programArray, MKI_BEQ, MKC_ADDR, ZC, OC
<1>13. p[13] = 36864
    BY DEF programArray, MKI_PUSH, MKC_SRC1
<1>14. p[14] = 4112
    BY DEF programArray, MKI_CALL, MKC_ADDR, FIB
<1>15. p[15] = 36865
    BY DEF programArray, MKI_POP, MKC_DST
<1>16. p[16] = 36896
    BY DEF programArray, MKI_PUSH, MKC_SRC1
<1>17. p[17] = 36928
    BY DEF programArray, MKI_PUSH, MKC_SRC1
<1>18. p[18] = 49407
    BY DEF programArray, MKI_ADDI, MKC_DST, MKC_SRC1ALT2, MKC_IMM8
<1>19. p[19] = 4112
    BY DEF programArray, MKI_CALL, MKC_ADDR, FIB
<1>20. p[20] = 37889
    BY DEF programArray, MKI_POP, MKC_DST
<1>21. p[21] = 37633
    BY DEF programArray, MKI_POP, MKC_DST
<1>22. p[22] = 33068
    BY DEF programArray, MKI_ADD, ThreeRegisters, MKC_DST, MKC_SRC1, MKC_SRC2
<1>23. p[23] = 33362
    BY DEF programArray, MKI_ADC, ThreeRegisters, MKC_DST, MKC_SRC1, MKC_SRC2
<1>24. p[24] = 36875
    BY DEF programArray, MKI_RET
<1>25. p[25] = 41216
    BY DEF programArray, MKI_LDI, MKC_DST, MKC_IMM8
<1>26. p[26] = 41472
    BY DEF programArray, MKI_LDI, MKC_DST, MKC_IMM8
<1>27. p[27] = 36875
    BY DEF programArray, MKI_RET
<1>28. p[28] = 41217
    BY DEF programArray, MKI_LDI, MKC_DST, MKC_IMM8
<1>29. p[29] = 41472
    BY DEF programArray, MKI_LDI, MKC_DST, MKC_IMM8
<1>30. p[30] = 36875
    BY DEF programArray, MKI_RET
<1> QED
    BY <1>0, <1>1, <1>2, <1>3, <1>4, <1>5, <1>6, <1>7, <1>8, <1>9, <1>10, <1>11, <1>12, <1>13, <1>14, <1>15, <1>16, <1>17, <1>18, <1>19, <1>20, <1>21, <1>22, <1>23, <1>24, <1>25, <1>26, <1>27, <1>28, <1>29, <1>30

\* The code is as main copied it.
CodeIs == \A address \in Image(program) : ram[address] = ProgramByte(program, address)

\* Every even address below 60 holds one of these words, low byte first.
LEMMA LoadedIs ==
    ASSUME Loaded
    PROVE  \E n \in Nat : /\ n < 256 /\ program = programArray(n)
                          /\ Argument(program) = n /\ Wide(program)
<1>1. PICK n \in Byte : program = programArray(n)
    BY DEF Loaded
<1>2. n \in Nat /\ n < 256
    BY ByteBounds
<1>3. program[6] = 40960 + n /\ Len(program) = 30 /\ Len(programArray(0)) = 30
    BY <1>1, <1>2, WordsAre
<1>4. Wide(program)
    BY <1>3 DEF Wide
<1>5. Argument(program) = INS_IMM8(program[6])
    BY <1>4 DEF Argument
<1>6. INS_IMM8(40960 + n) = n
    BY <1>2 DEF INS_IMM8
<1> QED BY <1>1, <1>2, <1>3, <1>4, <1>5, <1>6

\* As long as the code is as it was loaded, the core fetches its words.
LEMMA FetchIs ==
    ASSUME CodeIs, Len(program) = 30, NEW k \in Nat, 0 < k, k <= 30,
           program[k] \in Nat, program[k] < 65536, pc = 2 * k - 2
    PROVE  Fetch = program[k]
<1>1. /\ pc \in Nat /\ pc < 59 /\ pc % 2 = 0 /\ (pc + 1) % 2 = 1
      /\ pc \div 2 + 1 = k /\ (pc + 1) \div 2 + 1 = k
      /\ Masked(pc) = pc /\ Masked(pc + 1) = pc + 1
    BY DEF Masked
<1>2. \A a \in Nat : a < 60 => a \in Image(program)
    BY DEF Image
<1>3. ram[pc] = program[k] % 256 /\ ram[pc + 1] = program[k] \div 256
    <2>1. ram[pc] = ProgramByte(program, pc) /\ ram[pc + 1] = ProgramByte(program, pc + 1)
        BY <1>1, <1>2 DEF CodeIs
    <2> QED BY <1>1, <2>1 DEF ProgramByte
<1>4. (program[k] % 256) + 256 * (program[k] \div 256) = program[k]
    OBVIOUS
<1> QED BY <1>1, <1>3, <1>4 DEF Fetch, implReadMem

\* A step of the machine that takes the word w for the instruction op.
Takes(op, w) ==
    /\ Execute(op, w)
    /\ program' = program
    /\ slots' = IF op = "call" THEN <<ss_sp'>> \o slots
                ELSE IF op = "ret" /\ slots # <<>> THEN Tail(slots) ELSE slots
    /\ given' = IF op = "call" THEN <<gpr>> \o given
                ELSE IF op = "ret" /\ slots # <<>> THEN Tail(given) ELSE given

\* A step of a core that has not halted takes the instruction that it fetches.
LEMMA StepTakes ==
    ASSUME StackNext, ~halted
    PROVE  Takes(Decode(Fetch), Fetch)
BY DEF StackNext, Next, vcore_step, Takes

\* What is fetched and decoded at each of the addresses of the program.
LEMMA FetchedAt ==
    ASSUME CodeIs, NEW n \in Nat, n < 256, program = programArray(n)
    PROVE  /\ pc = 0 => Fetch = 41471 /\ Decode(Fetch) = "ldi"
           /\ pc = 2 => Fetch = 36900 /\ Decode(Fetch) = "wrss"
           /\ pc = 4 => Fetch = 36908 /\ Decode(Fetch) = "wrsp"
           /\ pc = 6 => Fetch = 41231 /\ Decode(Fetch) = "ldi"
           /\ pc = 8 => Fetch = 36904 /\ Decode(Fetch) = "wrds"
           /\ pc = 10 => Fetch = 40960 + n /\ Decode(Fetch) = "ldi"
           /\ pc = 12 => Fetch = 4112 /\ Decode(Fetch) = "call"
           /\ pc = 14 => Fetch = 36871 /\ Decode(Fetch) = "halt"
           /\ pc = 16 => Fetch = 49152 /\ Decode(Fetch) = "addi"
           /\ pc = 18 => Fetch = 24624 /\ Decode(Fetch) = "beq"
           /\ pc = 20 => Fetch = 49407 /\ Decode(Fetch) = "addi"
           /\ pc = 22 => Fetch = 24630 /\ Decode(Fetch) = "beq"
           /\ pc = 24 => Fetch = 36864 /\ Decode(Fetch) = "push"
           /\ pc = 26 => Fetch = 4112 /\ Decode(Fetch) = "call"
           /\ pc = 28 => Fetch = 36865 /\ Decode(Fetch) = "pop"
           /\ pc = 30 => Fetch = 36896 /\ Decode(Fetch) = "push"
           /\ pc = 32 => Fetch = 36928 /\ Decode(Fetch) = "push"
           /\ pc = 34 => Fetch = 49407 /\ Decode(Fetch) = "addi"
           /\ pc = 36 => Fetch = 4112 /\ Decode(Fetch) = "call"
           /\ pc = 38 => Fetch = 37889 /\ Decode(Fetch) = "pop"
           /\ pc = 40 => Fetch = 37633 /\ Decode(Fetch) = "pop"
           /\ pc = 42 => Fetch = 33068 /\ Decode(Fetch) = "add"
           /\ pc = 44 => Fetch = 33362 /\ Decode(Fetch) = "adc"
           /\ pc = 46 => Fetch = 36875 /\ Decode(Fetch) = "ret"
           /\ pc = 48 => Fetch = 41216 /\ Decode(Fetch) = "ldi"
           /\ pc = 50 => Fetch = 41472 /\ Decode(Fetch) = "ldi"
           /\ pc = 52 => Fetch = 36875 /\ Decode(Fetch) = "ret"
           /\ pc = 54 => Fetch = 41217 /\ Decode(Fetch) = "ldi"
           /\ pc = 56 => Fetch = 41472 /\ Decode(Fetch) = "ldi"
           /\ pc = 58 => Fetch = 36875 /\ Decode(Fetch) = "ret"
<1>0. ASSUME NEW k \in Nat, 0 < k, k <= 30, pc = 2 * k - 2,
             NEW w \in Nat, w < 65536, program[k] = w
      PROVE  Fetch = w
    BY <1>0, WordsAre, FetchIs
<1>1. pc = 0 => Fetch = 41471 /\ Decode(Fetch) = "ldi"
    BY <1>0, WordsAre, Decodes
<1>2. pc = 2 => Fetch = 36900 /\ Decode(Fetch) = "wrss"
    BY <1>0, WordsAre, Decodes
<1>3. pc = 4 => Fetch = 36908 /\ Decode(Fetch) = "wrsp"
    BY <1>0, WordsAre, Decodes
<1>4. pc = 6 => Fetch = 41231 /\ Decode(Fetch) = "ldi"
    BY <1>0, WordsAre, Decodes
<1>5. pc = 8 => Fetch = 36904 /\ Decode(Fetch) = "wrds"
    BY <1>0, WordsAre, Decodes
<1>6. pc = 10 => Fetch = 40960 + n /\ Decode(Fetch) = "ldi"
    BY <1>0, WordsAre, Decodes
<1>7. pc = 12 => Fetch = 4112 /\ Decode(Fetch) = "call"
    BY <1>0, WordsAre, Decodes
<1>8. pc = 14 => Fetch = 36871 /\ Decode(Fetch) = "halt"
    BY <1>0, WordsAre, Decodes
<1>9. pc = 16 => Fetch = 49152 /\ Decode(Fetch) = "addi"
    BY <1>0, WordsAre, Decodes
<1>10. pc = 18 => Fetch = 24624 /\ Decode(Fetch) = "beq"
    BY <1>0, WordsAre, Decodes
<1>11. pc = 20 => Fetch = 49407 /\ Decode(Fetch) = "addi"
    BY <1>0, WordsAre, Decodes
<1>12. pc = 22 => Fetch = 24630 /\ Decode(Fetch) = "beq"
    BY <1>0, WordsAre, Decodes
<1>13. pc = 24 => Fetch = 36864 /\ Decode(Fetch) = "push"
    BY <1>0, WordsAre, Decodes
<1>14. pc = 26 => Fetch = 4112 /\ Decode(Fetch) = "call"
    BY <1>0, WordsAre, Decodes
<1>15. pc = 28 => Fetch = 36865 /\ Decode(Fetch) = "pop"
    BY <1>0, WordsAre, Decodes
<1>16. pc = 30 => Fetch = 36896 /\ Decode(Fetch) = "push"
    BY <1>0, WordsAre, Decodes
<1>17. pc = 32 => Fetch = 36928 /\ Decode(Fetch) = "push"
    BY <1>0, WordsAre, Decodes
<1>18. pc = 34 => Fetch = 49407 /\ Decode(Fetch) = "addi"
    BY <1>0, WordsAre, Decodes
<1>19. pc = 36 => Fetch = 4112 /\ Decode(Fetch) = "call"
    BY <1>0, WordsAre, Decodes
<1>20. pc = 38 => Fetch = 37889 /\ Decode(Fetch) = "pop"
    BY <1>0, WordsAre, Decodes
<1>21. pc = 40 => Fetch = 37633 /\ Decode(Fetch) = "pop"
    BY <1>0, WordsAre, Decodes
<1>22. pc = 42 => Fetch = 33068 /\ Decode(Fetch) = "add"
    BY <1>0, WordsAre, Decodes
<1>23. pc = 44 => Fetch = 33362 /\ Decode(Fetch) = "adc"
    BY <1>0, WordsAre, Decodes
<1>24. pc = 46 => Fetch = 36875 /\ Decode(Fetch) = "ret"
    BY <1>0, WordsAre, Decodes
<1>25. pc = 48 => Fetch = 41216 /\ Decode(Fetch) = "ldi"
    BY <1>0, WordsAre, Decodes
<1>26. pc = 50 => Fetch = 41472 /\ Decode(Fetch) = "ldi"
    BY <1>0, WordsAre, Decodes
<1>27. pc = 52 => Fetch = 36875 /\ Decode(Fetch) = "ret"
    BY <1>0, WordsAre, Decodes
<1>28. pc = 54 => Fetch = 41217 /\ Decode(Fetch) = "ldi"
    BY <1>0, WordsAre, Decodes
<1>29. pc = 56 => Fetch = 41472 /\ Decode(Fetch) = "ldi"
    BY <1>0, WordsAre, Decodes
<1>30. pc = 58 => Fetch = 36875 /\ Decode(Fetch) = "ret"
    BY <1>0, WordsAre, Decodes
<1> QED
    BY <1>1, <1>2, <1>3, <1>4, <1>5, <1>6, <1>7, <1>8, <1>9, <1>10,
       <1>11, <1>12, <1>13, <1>14, <1>15, <1>16, <1>17, <1>18, <1>19, <1>20,
       <1>21, <1>22, <1>23, <1>24, <1>25, <1>26, <1>27, <1>28, <1>29, <1>30

\* The step at each address of the program.
LEMMA StepAt ==
    ASSUME StackNext, ~halted, CodeIs,
           NEW n \in Nat, n < 256, program = programArray(n)
    PROVE  /\ pc = 0 => Takes("ldi", 41471)
           /\ pc = 2 => Takes("wrss", 36900)
           /\ pc = 4 => Takes("wrsp", 36908)
           /\ pc = 6 => Takes("ldi", 41231)
           /\ pc = 8 => Takes("wrds", 36904)
           /\ pc = 10 => Takes("ldi", 40960 + n)
           /\ pc = 12 => Takes("call", 4112)
           /\ pc = 14 => Takes("halt", 36871)
           /\ pc = 16 => Takes("addi", 49152)
           /\ pc = 18 => Takes("beq", 24624)
           /\ pc = 20 => Takes("addi", 49407)
           /\ pc = 22 => Takes("beq", 24630)
           /\ pc = 24 => Takes("push", 36864)
           /\ pc = 26 => Takes("call", 4112)
           /\ pc = 28 => Takes("pop", 36865)
           /\ pc = 30 => Takes("push", 36896)
           /\ pc = 32 => Takes("push", 36928)
           /\ pc = 34 => Takes("addi", 49407)
           /\ pc = 36 => Takes("call", 4112)
           /\ pc = 38 => Takes("pop", 37889)
           /\ pc = 40 => Takes("pop", 37633)
           /\ pc = 42 => Takes("add", 33068)
           /\ pc = 44 => Takes("adc", 33362)
           /\ pc = 46 => Takes("ret", 36875)
           /\ pc = 48 => Takes("ldi", 41216)
           /\ pc = 50 => Takes("ldi", 41472)
           /\ pc = 52 => Takes("ret", 36875)
           /\ pc = 54 => Takes("ldi", 41217)
           /\ pc = 56 => Takes("ldi", 41472)
           /\ pc = 58 => Takes("ret", 36875)
BY FetchedAt, StepTakes

\* No call, no return.
Still == program' = program /\ slots' = slots /\ given' = given

\* The handler that runs.
LEMMA Handlers ==
    ASSUME NEW w
    PROVE  /\ Takes("ldi", w) => instruction_ldi(w) /\ Still
           /\ Takes("wrss", w) => instruction_wrss(w) /\ Still
           /\ Takes("wrsp", w) => instruction_wrsp(w) /\ Still
           /\ Takes("wrds", w) => instruction_wrds(w) /\ Still
           /\ Takes("halt", w) => instruction_halt /\ Still
           /\ Takes("addi", w) => instruction_addi(w) /\ Still
           /\ Takes("beq", w) => instruction_beq(w) /\ Still
           /\ Takes("push", w) => instruction_push(w) /\ Still
           /\ Takes("pop", w) => instruction_pop(w) /\ Still
           /\ Takes("add", w) => instruction_add(w) /\ Still
           /\ Takes("adc", w) => instruction_adc(w) /\ Still
           /\ Takes("call", w) =>
                 /\ instruction_call(w) /\ program' = program
                 /\ slots' = <<ss_sp'>> \o slots /\ given' = <<gpr>> \o given
           /\ Takes("ret", w) /\ slots # <<>> =>
                 /\ instruction_ret /\ program' = program
                 /\ slots' = Tail(slots) /\ given' = Tail(given)
<1>1. Takes("ldi", w) => instruction_ldi(w) /\ Still
    BY DEF Takes, Execute, Still
<1>2. Takes("wrss", w) => instruction_wrss(w) /\ Still
    BY DEF Takes, Execute, Still
<1>3. Takes("wrsp", w) => instruction_wrsp(w) /\ Still
    BY DEF Takes, Execute, Still
<1>4. Takes("wrds", w) => instruction_wrds(w) /\ Still
    BY DEF Takes, Execute, Still
<1>5. Takes("halt", w) => instruction_halt /\ Still
    BY DEF Takes, Execute, Still
<1>6. Takes("addi", w) => instruction_addi(w) /\ Still
    BY DEF Takes, Execute, Still
<1>7. Takes("beq", w) => instruction_beq(w) /\ Still
    BY DEF Takes, Execute, Still
<1>8. Takes("push", w) => instruction_push(w) /\ Still
    BY DEF Takes, Execute, Still
<1>9. Takes("pop", w) => instruction_pop(w) /\ Still
    BY DEF Takes, Execute, Still
<1>10. Takes("add", w) => instruction_add(w) /\ Still
    BY DEF Takes, Execute, Still
<1>11. Takes("adc", w) => instruction_adc(w) /\ Still
    BY DEF Takes, Execute, Still
<1>12. Takes("call", w) =>
         /\ instruction_call(w) /\ program' = program
         /\ slots' = <<ss_sp'>> \o slots /\ given' = <<gpr>> \o given
    BY DEF Takes, Execute
<1>13. Takes("ret", w) /\ slots # <<>> =>
         /\ instruction_ret /\ program' = program
         /\ slots' = Tail(slots) /\ given' = Tail(given)
    BY DEF Takes, Execute
<1> QED BY <1>1, <1>2, <1>3, <1>4, <1>5, <1>6, <1>7, <1>8, <1>9, <1>10, <1>11, <1>12, <1>13

-----------------------------------------------------------------------------
(* The Fibonacci numbers: the recursive function satisfies its equation.   *)

\* The equation of the function, and the solutions of it up to m.
FibStep(f, n) == IF n < 2 THEN n ELSE f[n - 1] + f[n - 2]

Solves(f, m) ==
    /\ f \in [{n \in Nat : n <= m} -> Nat]
    /\ \A n \in Nat : n <= m => f[n] = FibStep(f, n)

\* There is a solution up to every m: otherwise there is a least m without one, and
\* the solution up to m - 1 extends to it.
LEMMA SolutionsExist ==
    \A m \in Nat : \E f : Solves(f, m)
<1> DEFINE S == {m \in Nat : ~ \E f : Solves(f, m)}
<1>1. SUFFICES ASSUME S # {} PROVE FALSE
    OBVIOUS
<1>2. PICK m \in S : \A k \in S : m <= k
    <2>1. S \subseteq Nat
        OBVIOUS
    <2> QED BY <1>1, <2>1, MinIsLeast
<1>3. m \in Nat /\ ~ \E f : Solves(f, m)
    BY <1>2
<1>4. CASE m = 0
    <2> DEFINE f == [n \in {n \in Nat : n <= 0} |-> 0]
    <2>1. Solves(f, 0)
        BY DEF Solves, FibStep
    <2> QED BY <1>3, <1>4, <2>1
<1>5. CASE m # 0
    <2>1. m - 1 \in Nat /\ m - 1 \notin S
        BY <1>2, <1>3, <1>5
    <2>2. PICK g : Solves(g, m - 1)
        BY <2>1
    <2> DEFINE f == [n \in {n \in Nat : n <= m} |-> IF n = m THEN FibStep(g, m) ELSE g[n]]
    <2>3. \A n \in Nat : n <= m => n = m \/ n <= m - 1
        BY <1>3
    <2>4. FibStep(g, m) \in Nat
        BY <1>3, <1>5, <2>2 DEF Solves, FibStep
    <2>5. f \in [{n \in Nat : n <= m} -> Nat]
        BY <2>2, <2>3, <2>4 DEF Solves
    <2>6. ASSUME NEW n \in Nat, n <= m
          PROVE  f[n] = FibStep(f, n)
        <3>1. \A k \in Nat : k < m => f[k] = g[k]
            BY <1>3
        <3>2. FibStep(f, n) = FibStep(g, n)
            BY <2>6, <3>1, <1>3 DEF FibStep
        <3>3. n # m => g[n] = FibStep(g, n)
            BY <2>2, <2>3, <2>6 DEF Solves
        <3> QED BY <2>6, <3>2, <3>3
    <2> HIDE DEF f
    <2>7. Solves(f, m)
        BY <2>5, <2>6 DEF Solves
    <2> QED BY <2>7, <1>3
<1> QED BY <1>4, <1>5

\* Two solutions agree: otherwise there is a least number at which they differ.
LEMMA SolutionsAgree ==
    ASSUME NEW m \in Nat, NEW k \in Nat, NEW f, NEW g, Solves(f, m), Solves(g, k),
           NEW n \in Nat, n <= m, n <= k
    PROVE  f[n] = g[n]
<1> DEFINE S == {i \in Nat : i <= n /\ f[i] # g[i]}
<1>1. SUFFICES ASSUME S # {} PROVE FALSE
    OBVIOUS
<1>2. PICK i \in S : \A j \in S : i <= j
    <2>1. S \subseteq Nat
        OBVIOUS
    <2> QED BY <1>1, <2>1, MinIsLeast
<1>3. i \in Nat /\ i <= n /\ f[i] # g[i]
    BY <1>2
<1>4. \A j \in Nat : j < i => f[j] = g[j]
    BY <1>2, <1>3
<1>5. FibStep(f, i) = FibStep(g, i)
    BY <1>3, <1>4 DEF FibStep
<1>6. f[i] = FibStep(f, i) /\ g[i] = FibStep(g, i)
    BY <1>3 DEF Solves
<1> QED BY <1>3, <1>5, <1>6

\* So the recursive function is a solution, at every number.
LEMMA FibonacciIs ==
    Fibonacci = [n \in Nat |-> IF n < 2 THEN n ELSE Fibonacci[n - 1] + Fibonacci[n - 2]]
<1> DEFINE P(n) == CHOOSE f : Solves(f, n)
           F == [n \in Nat |-> P(n)[n]]
<1>1. \A n \in Nat : Solves(P(n), n)
    BY SolutionsExist
<1> HIDE DEF P
<1>2. ASSUME NEW n \in Nat
      PROVE  F[n] = FibStep(F, n)
    <2>1. F[n] = FibStep(P(n), n)
        <3>1. Solves(P(n), n) /\ n <= n
            BY <1>1
        <3>2. P(n)[n] = FibStep(P(n), n)
            BY <3>1 DEF Solves
        <3> QED BY <3>2
    <2>2. ASSUME NEW k \in Nat, k <= n
          PROVE  F[k] = P(n)[k]
        BY <1>1, <2>2, SolutionsAgree
    <2>3. FibStep(P(n), n) = FibStep(F, n)
        BY <2>2 DEF FibStep
    <2> QED BY <2>1, <2>3
<1>3. F = [n \in Nat |-> IF n < 2 THEN n ELSE F[n - 1] + F[n - 2]]
    BY <1>2 DEF FibStep
<1> HIDE DEF F
<1> QED BY <1>3 DEF Fibonacci

\* Fibonacci numbers are natural numbers.
LEMMA FibonacciType ==
    \A n \in Nat : Fibonacci[n] \in Nat
<1> DEFINE S == {n \in Nat : Fibonacci[n] \notin Nat}
<1>1. SUFFICES ASSUME S # {} PROVE FALSE
    OBVIOUS
<1>2. PICK n \in S : \A k \in S : n <= k
    <2>1. S \subseteq Nat
        OBVIOUS
    <2> QED BY <1>1, <2>1, MinIsLeast
<1>3. n \in Nat /\ Fibonacci[n] \notin Nat
    BY <1>2
<1>4. \A k \in Nat : k < n => Fibonacci[k] \in Nat
    BY <1>2, <1>3
<1>5. Fibonacci[n] = IF n < 2 THEN n ELSE Fibonacci[n - 1] + Fibonacci[n - 2]
    BY <1>3, FibonacciIs
<1> QED BY <1>3, <1>4, <1>5

\* Modulo 65536, what the routine computes from its two calls.
LEMMA Fib16Is ==
    /\ Fib16(0) = 0 /\ Fib16(1) = 1
    /\ \A a \in Nat : Fib16(a) \in Nat /\ Fib16(a) < 65536
    /\ \A a \in Nat : a > 1 => Fib16(a) = (Fib16(a - 1) + Fib16(a - 2)) % 65536
<1>1. \A a \in Nat : Fibonacci[a] = IF a < 2 THEN a ELSE Fibonacci[a - 1] + Fibonacci[a - 2]
    BY FibonacciIs
<1>2. Fibonacci[0] = 0 /\ Fibonacci[1] = 1
    BY <1>1
<1>3. Fib16(0) = 0 /\ Fib16(1) = 1
    BY <1>2 DEF Fib16
<1>4. \A x \in Nat : x % 65536 \in Nat /\ x % 65536 < 65536
    OBVIOUS
<1>5. \A a \in Nat : Fib16(a) \in Nat /\ Fib16(a) < 65536
    BY <1>4, FibonacciType DEF Fib16
<1>6. ASSUME NEW a \in Nat, a > 1
      PROVE  Fib16(a) = (Fib16(a - 1) + Fib16(a - 2)) % 65536
    <2>1. PICK x \in Nat, y \in Nat : x = Fibonacci[a - 1] /\ y = Fibonacci[a - 2]
        BY <1>6, FibonacciType
    <2>2. Fibonacci[a] = x + y
        BY <1>1, <1>6, <2>1
    <2>3. (x + y) % 65536 = ((x % 65536) + (y % 65536)) % 65536
        OBVIOUS
    <2> QED BY <2>1, <2>2, <2>3 DEF Fib16
<1> QED BY <1>3, <1>5, <1>6

-----------------------------------------------------------------------------
(* The steps that leave the activations alone: loads, the setting up of    *)
(* stack and data segment, the comparisons, the arithmetic.                *)

\* What the activations say of the slots: they lie high up in the RAM.
Slots ==
    /\ slots \in Seq(Address) /\ given \in Seq([Register -> Byte])
    /\ Len(given) = Len(slots)
    /\ slots # <<>> => 1 \in DOMAIN slots
    /\ \A i \in DOMAIN slots :
          /\ i \in Nat /\ 0 < i /\ i <= Len(slots)
          /\ slots[i] \in Nat /\ 3328 <= slots[i] /\ slots[i] <= 4093
          /\ slots[1] <= slots[i]
          /\ Given(i) \in Nat /\ Given(i) < 256
          /\ i # 1 => slots[1] + 3 <= slots[i]
          /\ i # Len(slots) => i + 1 \in DOMAIN slots

\* Three bytes for each unit of an argument of at most 255 keep the slots above the
\* code, and in the order of their calls.
LEMMA SlotsHigh ==
    ASSUME Activations, Argument(program) \in Nat, Argument(program) < 256
    PROVE  Slots
<1> USE DEF Activations
<1>1. /\ Len(slots) \in Nat /\ DOMAIN slots = 1..Len(slots) /\ DOMAIN given = 1..Len(slots)
      /\ slots # <<>> => 1 \in DOMAIN slots
    OBVIOUS
<1>2. ASSUME NEW i \in DOMAIN slots
      PROVE  /\ i \in Nat /\ 0 < i /\ i <= Len(slots)
             /\ slots[i] \in Address /\ given[i] \in [Register -> Byte]
             /\ i # Len(slots) => i + 1 \in DOMAIN slots
    BY <1>1
<1>3. ASSUME NEW i \in DOMAIN slots
      PROVE  Given(i) \in Nat /\ Given(i) < 256
    <2>1. 0 \in Register
        BY DEF Register
    <2>2. given[i][0] \in Byte
        BY <1>2, <2>1
    <2> QED BY <2>2, ByteBounds DEF Given
<1>4. ASSUME NEW i \in DOMAIN slots
      PROVE  slots[i] \in Nat /\ 3328 <= slots[i] /\ slots[i] <= 4093
    <2>1. slots[i] \in Nat
        BY <1>2, AddressBounds
    <2>2. slots[i] <= 4093 /\ slots[i] + 3 * Argument(program) >= 4093 + 3 * Given(i)
        BY DEF Activation
    <2> QED BY <2>1, <2>2, <1>3
<1>5. ASSUME NEW i \in DOMAIN slots
      PROVE  slots[1] <= slots[i] /\ (i # 1 => slots[1] + 3 <= slots[i])
    <2>1. 1 \in DOMAIN slots
        BY <1>1
    <2>2. i # 1 => slots[1] + 3 <= slots[i]
        BY <1>2, <2>1
    <2> QED BY <2>1, <2>2, <1>4
<1> QED BY <1>1, <1>2, <1>3, <1>4, <1>5 DEF Slots

\* The code takes the first 60 bytes.
LEMMA ImageIs ==
    ASSUME Len(program) = 30
    PROVE  \A a : a \in Image(program) <=> a \in Nat /\ a < 60
<1>1. PICK m \in Nat : m = 59
    OBVIOUS
<1>2. Image(program) = 0..m
    BY <1>1 DEF Image
<1>3. \A a : a \in 0..m <=> a \in Nat /\ a < m + 1
    OBVIOUS
<1>4. \A a : a \in Image(program) <=> a \in Nat /\ a < m + 1
    BY <1>2, <1>3
<1> QED BY <1>1, <1>4

\* Writes below the innermost return address and above the code change none of it.
LEMMA KeptBelow ==
    ASSUME Len(program) = 30, Slots, CodeIs, Activations, Still,
           \A a \in Nat : a < 60 \/ (slots # <<>> /\ slots[1] <= a /\ a < 4096) =>
                             ram'[a] = ram[a]
    PROVE  CodeIs' /\ Activations'
<1>1. CodeIs'
    <2>1. \A a \in Image(program) : a \in Nat /\ a < 60
        BY ImageIs
    <2> QED BY <2>1 DEF CodeIs, Still
<1>2. ASSUME NEW i \in DOMAIN slots
      PROVE  Activation(i)'
    <2>1. Activation(i)
        BY DEF Activations
    <2>2. slots # <<>>
        BY <1>2
    <2>3. PICK s \in Nat : s = slots[i] /\ s <= 4093 /\ slots[1] \in Nat /\ slots[1] <= s
        <3>1. 1 \in DOMAIN slots /\ i \in DOMAIN slots
            BY <2>2 DEF Slots
        <3>2. slots[i] \in Nat /\ slots[i] <= 4093 /\ slots[1] <= slots[i]
            BY <3>1 DEF Slots
        <3>3. slots[1] \in Nat
            BY <3>1 DEF Slots
        <3> QED BY <3>2, <3>3
    <2>4. \A k \in {0, 1, 2, 3} : s + k < 4096 => ram'[s + k] = ram[s + k]
        <3>1. ASSUME NEW k \in {0, 1, 2, 3}, s + k < 4096
              PROVE  ram'[s + k] = ram[s + k]
            <4>1. s + k \in Nat /\ slots[1] <= s + k
                BY <2>3
            <4> QED BY <2>2, <3>1, <4>1
        <3> QED BY <3>1
    <2>5. ram'[s] = ram[s] /\ ram'[s + 1] = ram[s + 1]
        BY <2>3, <2>4
    <2>6. i # Len(slots) => slots[i + 1] \in Nat /\ slots[i + 1] <= 4093
        BY DEF Slots
    <2>7. FromStart(i) => FromStart(i)'
        BY <2>3, <2>5 DEF FromStart, Still, Given
    <2>8. FromFirst(i) => FromFirst(i)'
        <3>1. FromFirst(i) => ram'[s + 2] = ram[s + 2]
            BY <2>3, <2>4, <2>6 DEF FromFirst
        <3> QED BY <2>3, <2>5, <3>1 DEF FromFirst, Still, Given
    <2>9. FromSecond(i) => FromSecond(i)'
        <3>1. FromSecond(i) => ram'[s + 2] = ram[s + 2] /\ ram'[s + 3] = ram[s + 3]
            BY <2>3, <2>4, <2>6 DEF FromSecond
        <3> QED BY <2>3, <2>5, <3>1 DEF FromSecond, Still, Given
    <2> QED BY <2>1, <2>3, <2>5, <2>7, <2>8, <2>9 DEF Activation, Still, Given
<1>3. Activations'
    BY <1>2 DEF Activations, Still
<1> QED BY <1>1, <1>3

\* What the lemmas about one step of the program with argument n start from, ...
Ready(n) ==
    /\ n \in Nat /\ n < 256
    /\ TypeOK /\ program = programArray(n) /\ Argument(program) = n /\ Len(program) = 30
    /\ CodeIs /\ Activations /\ Slots
    /\ ~zren /\ ~halted /\ StackNext

\* ... and what they come back to: Recursing, once the program is loaded.
Running ==
    /\ ~zren /\ CodeIs /\ Activations
    /\ (~halted /\ Starting) \/ (~halted /\ InRoutine) \/ Finished

\* A step that keeps the code and the activations need only show where it ended.
LEMMA StillRunning ==
    ASSUME NEW n, Ready(n), Still, ram' = ram, ~zren', ~halted', Starting' \/ InRoutine'
    PROVE  Running'
<1>1. CodeIs' /\ Activations'
    BY KeptBelow DEF Ready
<1> QED BY <1>1 DEF Running

\* Registers are bytes, whatever is read from which of them.
LEMMA RegisterBytes ==
    ASSUME NEW n, Ready(n)
    PROVE  /\ gpr[0] \in Nat /\ gpr[0] < 256 /\ gpr[1] \in Nat /\ gpr[1] < 256
           /\ gpr[2] \in Nat /\ gpr[2] < 256 /\ gpr[3] \in Nat /\ gpr[3] < 256
           /\ gpr[4] \in Nat /\ gpr[4] < 256
           /\ DOMAIN gpr = Register /\ {0, 1, 2, 3, 4} \subseteq Register
<1>1. gpr \in [Register -> Byte]
    BY DEF Ready, TypeOK, CoreTypeOK
<1>2. {0, 1, 2, 3, 4} \subseteq Register
    BY DEF Register
<1>3. \A r \in Register : gpr[r] \in Nat /\ gpr[r] < 256
    BY <1>1, ByteBounds
<1> QED BY <1>1, <1>2, <1>3

\* The instructions that only load a register.
LEMMA LoadSteps ==
    ASSUME NEW n, Ready(n)
    PROVE  /\ pc = 0  => Load(1, 255) /\ pc' = 2 /\ Still
           /\ pc = 6  => Load(1, 15) /\ pc' = 8 /\ Still
           /\ pc = 10 => Load(0, n) /\ pc' = 12 /\ Still
           /\ pc = 48 => Load(1, 0) /\ pc' = 50 /\ Still
           /\ pc = 50 => Load(2, 0) /\ pc' = 52 /\ Still
           /\ pc = 54 => Load(1, 1) /\ pc' = 56 /\ Still
           /\ pc = 56 => Load(2, 0) /\ pc' = 58 /\ Still
<1>1. ASSUME NEW w, Takes("ldi", w)
      PROVE  Load(INS_DST(w), INS_IMM8(w)) /\ Still
    BY <1>1, Handlers DEF instruction_ldi
<1>2. /\ INS_DST(41471) = 1 /\ INS_IMM8(41471) = 255
      /\ INS_DST(41231) = 1 /\ INS_IMM8(41231) = 15
      /\ INS_DST(40960 + n) = 0 /\ INS_IMM8(40960 + n) = n
      /\ INS_DST(41216) = 1 /\ INS_IMM8(41216) = 0
      /\ INS_DST(41472) = 2 /\ INS_IMM8(41472) = 0
      /\ INS_DST(41217) = 1 /\ INS_IMM8(41217) = 1
    BY DEF INS_DST, INS_IMM8, Ready
<1>3. ASSUME NEW dst, NEW value, Load(dst, value), pc \in Nat, pc < 100
      PROVE  pc' = pc + 2
    BY <1>3 DEF Load, NextPc
<1> QED BY <1>1, <1>2, <1>3, StepAt DEF Ready

\* The loads of the start ...
LEMMA StartLoads ==
    ASSUME NEW n, Ready(n), Starting, pc \in {0, 6, 10}
    PROVE  Running'
<1>1. Still /\ ram' = ram /\ zren' = zren /\ halted' = halted /\ ss_sp' = ss_sp
    BY LoadSteps DEF Load
<1>2. slots' = <<>> /\ program' = program /\ Argument(program) = n
    BY <1>1 DEF Starting, Still, Ready
<1>3. CASE pc = 0
    <2>1. pc' = 2 /\ ss_sp' = 0 /\ gpr'[1] = 255
        BY <1>1, <1>3, LoadSteps, RegisterBytes DEF Load, Starting
    <2>2. Starting'
        BY ONLY <1>2, <2>1 DEF Starting
    <2> QED BY <1>1, <2>2, StillRunning DEF Ready
<1>4. CASE pc = 6
    <2>1. pc' = 8 /\ ss_sp' = 4095
        BY <1>1, <1>4, LoadSteps DEF Starting
    <2>2. Starting'
        BY ONLY <1>2, <2>1 DEF Starting
    <2> QED BY <1>1, <2>2, StillRunning DEF Ready
<1>5. CASE pc = 10
    <2>1. pc' = 12 /\ ss_sp' = 4095 /\ gpr'[0] = n
        BY <1>1, <1>5, LoadSteps, RegisterBytes DEF Load, Starting
    <2>2. Starting'
        BY ONLY <1>2, <2>1 DEF Starting, Argument
    <2> QED BY <1>1, <2>2, StillRunning DEF Ready
<1> QED BY <1>3, <1>4, <1>5

\* ... and those of the routine.
LEMMA RoutineLoads ==
    ASSUME NEW n, Ready(n), InRoutine, pc \in {48, 50, 54, 56}
    PROVE  Running'
<1>1. Still /\ ram' = ram /\ zren' = zren /\ halted' = halted
    BY LoadSteps DEF Load
<1>2. pc = 48 => InRoutine'
    BY LoadSteps, RegisterBytes DEF Load, InRoutine, Ready, Still, Given
<1>3. ASSUME pc = 50
      PROVE  InRoutine'
    <2>1. slots # <<>> /\ ss_sp = slots[1] /\ Given(1) = 0 /\ gpr[1] = 0
        BY <1>3 DEF InRoutine
    <2>2. gpr' = [gpr EXCEPT ![2] = 0] /\ pc' = 52 /\ ss_sp' = ss_sp /\ Still
        BY <1>3, LoadSteps DEF Load
    <2>3. gpr'[1] = 0 /\ gpr'[2] = 0
        BY <2>1, <2>2, RegisterBytes
    <2>4. Given(1)' = 0
        BY <2>1, <2>2 DEF Still, Given
    <2>5. Computed(Given(1))'
        BY <2>3, <2>4, Fib16Is DEF Computed
    <2> QED BY <2>1, <2>2, <2>5 DEF InRoutine, Still
<1>4. pc = 54 => InRoutine'
    BY LoadSteps, RegisterBytes DEF Load, InRoutine, Ready, Still, Given
<1>5. ASSUME pc = 56
      PROVE  InRoutine'
    <2>1. slots # <<>> /\ ss_sp = slots[1] /\ Given(1) = 1 /\ gpr[1] = 1
        BY <1>5 DEF InRoutine
    <2>2. gpr' = [gpr EXCEPT ![2] = 0] /\ pc' = 58 /\ ss_sp' = ss_sp /\ Still
        BY <1>5, LoadSteps DEF Load
    <2>3. gpr'[1] = 1 /\ gpr'[2] = 0
        BY <2>1, <2>2, RegisterBytes
    <2>4. Given(1)' = 1
        BY <2>1, <2>2 DEF Still, Given
    <2>5. Computed(Given(1))'
        BY <2>3, <2>4, Fib16Is DEF Computed
    <2> QED BY <2>1, <2>2, <2>5 DEF InRoutine, Still
<1> QED BY <1>1, <1>2, <1>3, <1>4, <1>5, StillRunning DEF Ready

\* wrsp with 255 sets every bit of the low byte: the stack pointer becomes 4095.
LEMMA FullByteOr ==
    OrByte(0, 255) = 255
<1> DEFINE f == [i \in 0..7 |-> (0 \div 2^i) % 2 = 1 \/ (255 \div 2^i) % 2 = 1]
<1>1. OrByte(0, 255) = FromBits(f)
    BY DEF OrByte
<1>2. \A i \in 0..7 : f[i] = ((0 \div 2^i) % 2 = 1 \/ (255 \div 2^i) % 2 = 1)
    OBVIOUS
<1>3. \A i \in 0..7 : (255 \div 2^i) % 2 = 1
    <2>1. /\ 255 \div 1 = 255 /\ 255 \div 2 = 127 /\ 255 \div 4 = 63 /\ 255 \div 8 = 31
          /\ 255 \div 16 = 15 /\ 255 \div 32 = 7 /\ 255 \div 64 = 3 /\ 255 \div 128 = 1
        OBVIOUS
    <2>2. /\ 255 % 2 = 1 /\ 127 % 2 = 1 /\ 63 % 2 = 1 /\ 31 % 2 = 1
          /\ 15 % 2 = 1 /\ 7 % 2 = 1 /\ 3 % 2 = 1 /\ 1 % 2 = 1
        OBVIOUS
    <2>3. /\ (255 \div 2^0) % 2 = 1 /\ (255 \div 2^1) % 2 = 1 /\ (255 \div 2^2) % 2 = 1
          /\ (255 \div 2^3) % 2 = 1 /\ (255 \div 2^4) % 2 = 1 /\ (255 \div 2^5) % 2 = 1
          /\ (255 \div 2^6) % 2 = 1 /\ (255 \div 2^7) % 2 = 1
        BY <2>1, <2>2, PowersOfTwo
    <2>4. \A i \in 0..7 : i \in {0, 1, 2, 3, 4, 5, 6, 7}
        OBVIOUS
    <2> QED BY <2>3, <2>4
<1>4. \A i \in 0..7 : f[i]
    BY <1>2, <1>3
<1> HIDE DEF f
<1> QED BY <1>1, <1>4 DEF FromBits, Weight

\* The innermost call.
LEMMA Innermost ==
    ASSUME NEW n, Ready(n), slots # <<>>
    PROVE  /\ 1 \in DOMAIN slots
           /\ slots[1] \in Nat /\ 3328 <= slots[1] /\ slots[1] <= 4093
           /\ Given(1) \in Nat /\ Given(1) < 256
<1>1. Slots
    BY DEF Ready
<1>2. 1 \in DOMAIN slots
    BY <1>1 DEF Slots
<1>3. slots[1] \in Nat /\ 3328 <= slots[1] /\ slots[1] <= 4093
    BY <1>1, <1>2 DEF Slots
<1>4. Given(1) \in Nat /\ Given(1) < 256
    BY <1>1, <1>2 DEF Slots
<1> QED BY <1>2, <1>3, <1>4

\* Setting the stack and data segments up, and the halt.
LEMMA SetupSteps ==
    ASSUME NEW n, Ready(n), Starting, pc \in {2, 4, 8}
    PROVE  Running'
<1>1. INS_SRC1(36900) = 1 /\ INS_SRC1(36908) = 1 /\ INS_SRC1(36904) = 1
    BY DEF INS_SRC1
<1>2. \A r : ~zren => Source(r) = gpr[r]
    BY DEF Source
<1>3. ASSUME pc = 2
      PROVE  Still /\ ram' = ram /\ ~zren' /\ ~halted' /\ Starting'
    <2>1. instruction_wrss(36900) /\ Still
        BY <1>3, StepAt, Handlers DEF Ready
    <2>2. ss_sp = 0 /\ gpr[1] = 255 /\ slots = <<>>
        BY <1>3 DEF Starting
    <2>3. ss_sp' = 3840
        BY <1>1, <1>2, <2>1, <2>2 DEF instruction_wrss, SetStackPointer, Ready
    <2>4. pc' = 4 /\ gpr' = gpr
        BY <1>3, <2>1 DEF instruction_wrss, SetStackPointer, NextPc
    <2> QED BY <2>1, <2>2, <2>3, <2>4 DEF instruction_wrss, SetStackPointer, Ready, Starting, Still
<1>4. ASSUME pc = 4
      PROVE  Still /\ ram' = ram /\ ~zren' /\ ~halted' /\ Starting'
    <2>1. instruction_wrsp(36908) /\ Still
        BY <1>4, StepAt, Handlers DEF Ready
    <2>2. ss_sp = 3840 /\ gpr[1] = 255 /\ slots = <<>>
        BY <1>4 DEF Starting
    <2>3. 3840 % 256 = 0 /\ 256 * (3840 \div 256) = 3840
        OBVIOUS
    <2>4. ss_sp' = 4095
        BY <1>1, <1>2, <2>1, <2>2, <2>3, FullByteOr DEF instruction_wrsp, SetStackPointer, Ready
    <2>5. pc' = 6 /\ gpr' = gpr
        BY <1>4, <2>1 DEF instruction_wrsp, SetStackPointer, NextPc
    <2> QED BY <2>1, <2>2, <2>4, <2>5 DEF instruction_wrsp, SetStackPointer, Ready, Starting, Still
<1>5. ASSUME pc = 8
      PROVE  Still /\ ram' = ram /\ ~zren' /\ ~halted' /\ Starting'
    <2>1. instruction_wrds(36904) /\ Still
        BY <1>5, StepAt, Handlers DEF Ready
    <2>2. ss_sp = 4095 /\ slots = <<>>
        BY <1>5 DEF Starting
    <2>3. pc' = 10 /\ ss_sp' = ss_sp
        BY <1>5, <2>1 DEF instruction_wrds, NextPc
    <2> QED BY <2>1, <2>2, <2>3 DEF instruction_wrds, Ready, Starting, Still
<1> QED BY <1>3, <1>4, <1>5, StillRunning

LEMMA HaltStep ==
    ASSUME NEW n, Ready(n), Starting, pc = 14
    PROVE  Running'
<1>1. Halt /\ Still
    BY StepAt, Handlers DEF Ready, instruction_halt
<1>2. CodeIs' /\ Activations'
    BY <1>1, KeptBelow DEF Halt, Ready
<1>3. Computed(Argument(program))
    BY DEF Starting
<1>4. Finished'
    BY <1>1, <1>3 DEF Halt, Finished, Computed, Still
<1> QED BY <1>1, <1>2, <1>4 DEF Halt, Ready, Running

\* The two comparisons of the routine.
LEMMA BranchSteps ==
    ASSUME NEW n, Ready(n), InRoutine, pc \in {18, 22}
    PROVE  Running'
<1> DEFINE a == Given(1)
<1>1. slots # <<>> /\ a \in Nat
    BY Innermost DEF InRoutine
<1> HIDE DEF a
<1>2. ASSUME pc = 18
      PROVE  Still /\ ram' = ram /\ ~zren' /\ ~halted' /\ InRoutine'
    <2>1. instruction_beq(24624) /\ Still
        BY <1>2, StepAt, Handlers DEF Ready
    <2>2. slots # <<>> /\ ss_sp = slots[1] /\ gpr[0] = a /\ (zf <=> a = 0)
        BY <1>2 DEF InRoutine, a
    <2>3. pc' = IF zf THEN 48 ELSE 20
        BY <1>2, <2>1 DEF instruction_beq, Branch, Jump, INS_ADDR, NextPc
    <2>4. ss_sp' = ss_sp /\ gpr' = gpr /\ Given(1)' = a /\ slots' = slots
        BY <2>1 DEF instruction_beq, Branch, Jump, Still, Given, a
    <2>5. InRoutine'
        BY <1>1, <2>2, <2>3, <2>4 DEF InRoutine
    <2> QED BY <2>1, <2>5 DEF instruction_beq, Branch, Jump, Ready
<1>3. ASSUME pc = 22
      PROVE  Still /\ ram' = ram /\ ~zren' /\ ~halted' /\ InRoutine'
    <2>1. instruction_beq(24630) /\ Still
        BY <1>3, StepAt, Handlers DEF Ready
    <2>2. slots # <<>> /\ ss_sp = slots[1] /\ gpr[0] = a - 1 /\ a > 0 /\ (zf <=> a = 1)
        BY <1>3 DEF InRoutine, a
    <2>3. pc' = IF zf THEN 54 ELSE 24
        BY <1>3, <2>1 DEF instruction_beq, Branch, Jump, INS_ADDR, NextPc
    <2>4. ss_sp' = ss_sp /\ gpr' = gpr /\ Given(1)' = a /\ slots' = slots
        BY <2>1 DEF instruction_beq, Branch, Jump, Still, Given, a
    <2>5. InRoutine'
        BY <1>1, <2>2, <2>3, <2>4 DEF InRoutine
    <2> QED BY <2>1, <2>5 DEF instruction_beq, Branch, Jump, Ready
<1> QED BY <1>2, <1>3, StillRunning

\* What r0 and the zero flag are after an immediate is added to r0.
LEMMA AddiIs ==
    ASSUME NEW n, Ready(n), NEW w, NEW imm \in Nat, imm < 256, instruction_addi(w),
           INS_IMM8(w) = imm, INS_DST(w) = 0, INS_SRC1ALT2(w) = 0
    PROVE  /\ gpr'[0] = (imm + gpr[0]) % 256
           /\ \A r \in {1, 2, 3, 4} : gpr'[r] = gpr[r]
           /\ zf' <=> (imm + gpr[0]) % 256 = 0
           /\ pc' = NextPc
           /\ ss_sp' = ss_sp /\ ram' = ram /\ ~zren' /\ ~halted'
<1>1. Source(0) = gpr[0]
    BY DEF Source, Ready
<1>2. Arithmetic(0, imm, gpr[0], imm + gpr[0])
    BY <1>1 DEF instruction_addi, AddResult
<1>3. zf' = ((imm + gpr[0]) % 256 = 0)
    BY <1>2 DEF Arithmetic, ZeroFlag, LowByte
<1>4. gpr' = [gpr EXCEPT ![0] = (imm + gpr[0]) % 256]
    BY <1>2 DEF Arithmetic, LowByte
<1>5. gpr'[0] = (imm + gpr[0]) % 256 /\ \A r \in {1, 2, 3, 4} : gpr'[r] = gpr[r]
    BY <1>4, RegisterBytes
<1> QED BY <1>2, <1>3, <1>5 DEF Arithmetic, Ready

\* The argument goes down by one, and by one again.
LEMMA AddiSteps ==
    ASSUME NEW n, Ready(n), InRoutine, pc \in {16, 20, 34}
    PROVE  Running'
<1> DEFINE a == Given(1)
           s == slots[1]
<1>1. slots # <<>> /\ a \in Nat /\ a < 256
    BY Innermost DEF InRoutine
<1>2. /\ INS_IMM8(49152) = 0 /\ INS_DST(49152) = 0 /\ INS_SRC1ALT2(49152) = 0
      /\ INS_IMM8(49407) = 255 /\ INS_DST(49407) = 0 /\ INS_SRC1ALT2(49407) = 0
    BY DEF INS_IMM8, INS_DST, INS_SRC1ALT2
<1> HIDE DEF a, s
<1>3. ASSUME pc = 16
      PROVE  Still /\ ram' = ram /\ ~zren' /\ ~halted' /\ InRoutine'
    <2>1. instruction_addi(49152) /\ Still
        BY <1>3, StepAt, Handlers DEF Ready
    <2>2. ss_sp = s /\ gpr[0] = a
        BY <1>3 DEF InRoutine, a, s
    <2>3. /\ zf' <=> (0 + gpr[0]) % 256 = 0
          /\ gpr'[0] = (0 + gpr[0]) % 256 /\ ss_sp' = ss_sp /\ ram' = ram /\ ~zren' /\ ~halted'
          /\ pc' = NextPc
        BY <1>2, <2>1, AddiIs
    <2>4. (0 + a) % 256 = a
        BY <1>1
    <2>5. gpr'[0] = a /\ (zf' <=> a = 0) /\ ss_sp' = s
        BY <2>2, <2>3, <2>4
    <2>6. pc' = 18
        BY <1>3, <2>3 DEF NextPc
    <2>7. slots' = slots /\ Given(1)' = a /\ slots'[1] = s
        BY <2>1 DEF Still, Given, a, s
    <2>8. InRoutine'
        BY <1>1, <2>5, <2>6, <2>7 DEF InRoutine
    <2> QED BY <2>1, <2>3, <2>8
<1>4. ASSUME pc = 20
      PROVE  Still /\ ram' = ram /\ ~zren' /\ ~halted' /\ InRoutine'
    <2>1. instruction_addi(49407) /\ Still
        BY <1>4, StepAt, Handlers DEF Ready
    <2>2. ss_sp = s /\ gpr[0] = a /\ a > 0
        BY <1>4 DEF InRoutine, a, s
    <2>3. /\ zf' <=> (255 + gpr[0]) % 256 = 0
          /\ gpr'[0] = (255 + gpr[0]) % 256 /\ ss_sp' = ss_sp /\ ram' = ram /\ ~zren' /\ ~halted'
          /\ pc' = NextPc
        BY <1>2, <2>1, AddiIs
    <2>4. (255 + a) % 256 = a - 1 /\ (a - 1 = 0 <=> a = 1)
        BY <1>1, <2>2
    <2>5. gpr'[0] = a - 1 /\ (zf' <=> a = 1) /\ ss_sp' = s
        BY <2>2, <2>3, <2>4
    <2>6. pc' = 22
        BY <1>4, <2>3 DEF NextPc
    <2>7. slots' = slots /\ Given(1)' = a /\ slots'[1] = s
        BY <2>1 DEF Still, Given, a, s
    <2>8. InRoutine'
        BY <1>1, <2>2, <2>5, <2>6, <2>7 DEF InRoutine
    <2> QED BY <2>1, <2>3, <2>8
<1>5. ASSUME pc = 34
      PROVE  Still /\ ram' = ram /\ ~zren' /\ ~halted' /\ InRoutine'
    <2>1. instruction_addi(49407) /\ Still
        BY <1>5, StepAt, Handlers DEF Ready
    <2>2. ss_sp = s - 2 /\ gpr[0] = a - 1 /\ a > 1
          /\ 256 * ram[s - 2] + ram[s - 1] = Fib16(a - 1)
        BY <1>5 DEF InRoutine, a, s
    <2>3. /\ gpr'[0] = (255 + gpr[0]) % 256 /\ ss_sp' = ss_sp /\ ram' = ram /\ ~zren' /\ ~halted'
          /\ pc' = NextPc
        BY <1>2, <2>1, AddiIs
    <2>4. (255 + (a - 1)) % 256 = (a - 1) - 1
        BY <1>1, <2>2
    <2>5. gpr'[0] = (a - 1) - 1 /\ ss_sp' = s - 2
        BY <2>2, <2>3, <2>4
    <2>6. pc' = 36
        BY <1>5, <2>3 DEF NextPc
    <2>7. slots' = slots /\ Given(1)' = a /\ slots'[1] = s
        BY <2>1 DEF Still, Given, a, s
    <2>8. InRoutine'
        BY <1>1, <2>2, <2>3, <2>5, <2>6, <2>7 DEF InRoutine
    <2> QED BY <2>1, <2>3, <2>8
<1> QED BY <1>3, <1>4, <1>5, StillRunning

\* The two halves of the 16-bit addition, as operators for the provers to match.
LowHalf(x, y, u, v, c) ==
    256 * (u + v + c) + ((x + y) % 256) = (256 * u + x) + (256 * v + y)
HighHalf(sum, low) == 256 * (sum % 256) + low = (256 * sum + low) % 65536

\* The sum of the low bytes and its carry, with the high bytes, are the 16-bit sum, ...
LEMMA LowSum ==
    ASSUME NEW x \in Nat, NEW y \in Nat, x < 256, y < 256, NEW u \in Nat, NEW v \in Nat,
           NEW c \in {0, 1}, c = 1 <=> ((x + y) \div 256) % 2 = 1
    PROVE  LowHalf(x, y, u, v, c)
<1>1. (x + y) \div 256 = 0 \/ (x + y) \div 256 = 1
    OBVIOUS
<1>2. (x + y) = 256 * ((x + y) \div 256) + ((x + y) % 256)
    OBVIOUS
<1>3. c = (x + y) \div 256
    BY <1>1
<1> QED BY <1>2, <1>3 DEF LowHalf

\* ... whose high byte is taken modulo 256.
LEMMA HighSum ==
    ASSUME NEW sum \in Nat, NEW low \in Nat, low < 256
    PROVE  HighHalf(sum, low)
BY DEF HighHalf

\* add and adc together add the results of the two calls.
LEMMA AddSteps ==
    ASSUME NEW n, Ready(n), InRoutine, pc \in {42, 44}
    PROVE  Running'
<1> DEFINE a == Given(1)
           s == slots[1]
<1>1. slots # <<>> /\ a \in Nat /\ a < 256
    BY Innermost DEF InRoutine
<1>2. /\ INS_DST(33068) = 1 /\ INS_SRC1(33068) = 1 /\ INS_SRC2(33068) = 3
      /\ INS_DST(33362) = 2 /\ INS_SRC1(33362) = 2 /\ INS_SRC2(33362) = 4
    BY DEF INS_DST, INS_SRC1, INS_SRC2
<1>3. \A r : Source(r) = gpr[r]
    BY DEF Source, Ready
<1> HIDE DEF a, s
<1>4. ASSUME pc = 42
      PROVE  Still /\ ram' = ram /\ ~zren' /\ ~halted' /\ InRoutine'
    <2>1. instruction_add(33068) /\ Still
        BY <1>4, StepAt, Handlers DEF Ready
    <2>2. ss_sp = s /\ a > 1 /\ 256 * gpr[2] + gpr[1] = Fib16((a - 1) - 1)
          /\ 256 * gpr[4] + gpr[3] = Fib16(a - 1)
        BY <1>4 DEF InRoutine, Computed, a, s
    <2>3. Arithmetic(1, gpr[1], gpr[3], gpr[1] + gpr[3])
        BY <1>2, <1>3, <2>1 DEF instruction_add, AddResult
    <2>4. /\ gpr' = [gpr EXCEPT ![1] = (gpr[1] + gpr[3]) % 256]
          /\ cf' = (((gpr[1] + gpr[3]) \div 256) % 2 = 1)
          /\ pc' = 44 /\ ss_sp' = ss_sp /\ ram' = ram /\ zren' = zren /\ halted' = halted
        BY <1>4, <2>3 DEF Arithmetic, LowByte, CarryFlag, NextPc
    <2>5. /\ gpr'[1] = (gpr[1] + gpr[3]) % 256 /\ gpr'[2] = gpr[2] /\ gpr'[4] = gpr[4]
        BY <2>4, RegisterBytes
    <2> DEFINE c == IF cf' THEN 1 ELSE 0
    <2>6. c \in {0, 1} /\ (c = 1 <=> ((gpr[1] + gpr[3]) \div 256) % 2 = 1)
        <3>1. cf' <=> ((gpr[1] + gpr[3]) \div 256) % 2 = 1
            BY <2>4
        <3>2. CASE cf'
            BY <3>1, <3>2
        <3>3. CASE ~cf'
            BY <3>1, <3>3
        <3> QED BY <3>2, <3>3
    <2> HIDE DEF c
    <2>7. 256 * (gpr[2] + gpr[4] + c) + gpr'[1]
             = (256 * gpr[2] + gpr[1]) + (256 * gpr[4] + gpr[3])
        <3>1. PICK x \in Nat, y \in Nat, u \in Nat, v \in Nat :
                 /\ x = gpr[1] /\ y = gpr[3] /\ u = gpr[2] /\ v = gpr[4] /\ x < 256 /\ y < 256
            BY RegisterBytes
        <3>2. LowHalf(x, y, u, v, c)
            <4>1. c \in {0, 1} /\ (c = 1 <=> ((x + y) \div 256) % 2 = 1)
                <5>1. gpr[1] + gpr[3] = x + y
                    BY ONLY <3>1
                <5> QED BY ONLY <2>6, <5>1, Zenon
            <4>2. x < 256 /\ y < 256
                BY <3>1
            <4> QED BY ONLY <4>1, <4>2, LowSum, Zenon
        <3> QED BY <2>5, <3>1, <3>2 DEF LowHalf
    <2>8. /\ Fib16(a) = (Fib16(a - 1) + Fib16(a - 2)) % 65536 /\ a - 2 = (a - 1) - 1
          /\ Fib16(a - 1) \in Nat /\ Fib16(a - 2) \in Nat
        BY <1>1, <2>2, Fib16Is
    <2>9. (256 * (gpr'[2] + gpr'[4] + c) + gpr'[1]) % 65536 = Fib16(a)
        BY <2>2, <2>5, <2>7, <2>8
    <2>10. slots' = slots /\ Given(1)' = a /\ slots'[1] = s
        BY <2>1 DEF Still, Given, a, s
    <2>11. InRoutine'
        BY <1>1, <2>2, <2>4, <2>9, <2>10 DEF InRoutine, c
    <2> QED BY <2>1, <2>4, <2>11 DEF Ready
<1>5. ASSUME pc = 44
      PROVE  Still /\ ram' = ram /\ ~zren' /\ ~halted' /\ InRoutine'
    <2>1. instruction_adc(33362) /\ Still
        BY <1>5, StepAt, Handlers DEF Ready
    <2> DEFINE c == IF cf THEN 1 ELSE 0
    <2>2. ss_sp = s /\ (256 * (gpr[2] + gpr[4] + c) + gpr[1]) % 65536 = Fib16(a)
        BY <1>5 DEF InRoutine, a, s
    <2>3. c \in Nat
        OBVIOUS
    <2>4. Arithmetic(2, gpr[2], gpr[4], gpr[4] + gpr[2] + c)
        BY <1>2, <1>3, <2>1 DEF instruction_adc, AdcResult
    <2> HIDE DEF c
    <2>5. /\ gpr' = [gpr EXCEPT ![2] = (gpr[4] + gpr[2] + c) % 256]
          /\ pc' = 46 /\ ss_sp' = ss_sp /\ ram' = ram /\ zren' = zren /\ halted' = halted
        BY <1>5, <2>4 DEF Arithmetic, LowByte, NextPc
    <2>6. gpr'[1] = gpr[1] /\ gpr'[2] = (gpr[4] + gpr[2] + c) % 256
        BY <2>5, RegisterBytes
    <2>7. PICK x \in Nat, y \in Nat, z \in Nat :
             x = gpr[2] + gpr[4] + c /\ y = gpr[1] /\ y < 256 /\ z = gpr[4] + gpr[2] + c /\ z = x
        BY <2>3, RegisterBytes
    <2>8. 256 * gpr'[2] + gpr'[1] = Fib16(a)
        <3>1. HighHalf(x, y)
            BY <2>7, HighSum
        <3>2. gpr'[2] = x % 256 /\ gpr'[1] = y
            BY <2>6, <2>7
        <3>3. (256 * x + y) % 65536 = Fib16(a)
            BY <2>2, <2>7
        <3> QED BY <3>1, <3>2, <3>3 DEF HighHalf
    <2>9. slots' = slots /\ Given(1)' = a /\ slots'[1] = s
        BY <2>1 DEF Still, Given, a, s
    <2>10. InRoutine'
        BY <1>1, <2>2, <2>5, <2>8, <2>9 DEF InRoutine, Computed
    <2> QED BY <2>1, <2>5, <2>10 DEF Ready
<1> QED BY <1>4, <1>5, StillRunning

-----------------------------------------------------------------------------
(* The stack: pushes and pops, calls and returns, of the routine that      *)
(* calls itself.                                                           *)

\* Pushing and popping a register, away from the ends of the RAM.
LEMMA PushIs ==
    ASSUME NEW n, Ready(n), slots # <<>>, NEW w, NEW r, instruction_push(w), Still,
           INS_SRC1(w) = r, NEW t \in Nat, ss_sp = t, 100 < t, t <= slots[1]
    PROVE  /\ ram'[t - 1] = gpr[r]
           /\ \A b \in Nat : b < 4096 /\ b # t - 1 => ram'[b] = ram[b]
           /\ ss_sp' = t - 1 /\ pc' = NextPc /\ gpr' = gpr /\ ~zren' /\ ~halted'
           /\ CodeIs' /\ Activations'
<1>1. slots[1] \in Nat /\ slots[1] <= 4093 /\ t < 4096
    BY Innermost
<1>2. t \in Address
    BY <1>1, AddressBounds
<1>3. Below(t) = t - 1 /\ t - 1 \in Nat /\ t - 1 < 4096 /\ 60 <= t - 1 /\ t - 1 < slots[1]
    BY <1>1 DEF Below
<1>4. Masked(t - 1) = t - 1
    BY <1>3 DEF Masked
<1>5. Source(r) = gpr[r]
    BY DEF Source, Ready
<1>6. ram' = [ram EXCEPT ![t - 1] = gpr[r]] /\ ss_sp' = t - 1
    <2>1. ss_sp' = Below(t) /\ ram' = [ram EXCEPT ![Masked(Below(t))] = Source(r)]
        BY DEF instruction_push, implWriteMem
    <2>2. Below(t) = t - 1 /\ Masked(Below(t)) = t - 1
        BY <1>3, <1>4
    <2> QED BY <2>1, <2>2, <1>5
<1>7. DOMAIN ram = Address /\ t - 1 \in Address
    BY <1>3, AddressBounds DEF Ready, TypeOK, CoreTypeOK
<1>8. ram'[t - 1] = gpr[r] /\ \A b \in Address : b # t - 1 => ram'[b] = ram[b]
    BY <1>6, <1>7
<1>9. \A b \in Nat : b < 4096 /\ b # t - 1 => ram'[b] = ram[b]
    BY <1>8, AddressBounds
<1>10. \A b \in Nat : b < 60 \/ (slots # <<>> /\ slots[1] <= b /\ b < 4096) =>
                         ram'[b] = ram[b]
    BY <1>1, <1>3, <1>9
<1>11. CodeIs' /\ Activations'
    BY <1>10, KeptBelow DEF Ready
<1> QED BY <1>6, <1>8, <1>9, <1>11 DEF instruction_push, Ready

\* What is pushed is where the later steps look for it.
LEMMA PushSteps ==
    ASSUME NEW n, Ready(n), InRoutine, pc \in {24, 30, 32}
    PROVE  Running'
<1> DEFINE a == Given(1)
           s == slots[1]
<1>1. slots # <<>> /\ a \in Nat /\ a < 256 /\ s \in Nat /\ 3328 <= s /\ s <= 4093
    BY Innermost DEF InRoutine
<1>2. INS_SRC1(36864) = 0 /\ INS_SRC1(36896) = 1 /\ INS_SRC1(36928) = 2
    BY DEF INS_SRC1
<1> HIDE DEF a, s
<1>3. ASSUME NEW w, NEW r, instruction_push(w), Still, INS_SRC1(w) = r,
             NEW t \in Nat, ss_sp = t, 3000 < t, t <= s
      PROVE  /\ ram'[t - 1] = gpr[r]
             /\ \A b \in Nat : b < 4096 /\ b # t - 1 => ram'[b] = ram[b]
             /\ ss_sp' = t - 1 /\ pc' = NextPc /\ gpr' = gpr /\ ~zren' /\ ~halted'
             /\ CodeIs' /\ Activations'
             /\ slots' = slots /\ Given(1)' = a /\ slots'[1] = s
    BY <1>1, <1>3, PushIs DEF Still, Given, a, s
<1>4. ASSUME pc = 24
      PROVE  ~zren' /\ CodeIs' /\ Activations' /\ ~halted' /\ InRoutine'
    <2>1. instruction_push(36864) /\ Still
        BY <1>4, StepAt, Handlers DEF Ready
    <2>2. ss_sp = s /\ gpr[0] = a - 1 /\ a > 1
        BY <1>4 DEF InRoutine, a, s
    <2>3. /\ ram'[s - 1] = gpr[0] /\ ss_sp' = s - 1 /\ pc' = NextPc /\ gpr' = gpr
          /\ ~zren' /\ ~halted' /\ CodeIs' /\ Activations'
          /\ slots' = slots /\ Given(1)' = a /\ slots'[1] = s
        BY <1>1, <1>2, <1>3, <2>1, <2>2
    <2>4. pc' = 26
        BY <1>4, <2>3 DEF NextPc
    <2>5. InRoutine'
        BY <1>1, <2>2, <2>3, <2>4 DEF InRoutine
    <2> QED BY <2>3, <2>5
<1>5. ASSUME pc = 30
      PROVE  ~zren' /\ CodeIs' /\ Activations' /\ ~halted' /\ InRoutine'
    <2>1. instruction_push(36896) /\ Still
        BY <1>5, StepAt, Handlers DEF Ready
    <2>2. ss_sp = s /\ gpr[0] = a - 1 /\ a > 1 /\ 256 * gpr[2] + gpr[1] = Fib16(a - 1)
        BY <1>5 DEF InRoutine, Computed, a, s
    <2>3. /\ ram'[s - 1] = gpr[1] /\ ss_sp' = s - 1 /\ pc' = NextPc /\ gpr' = gpr
          /\ ~zren' /\ ~halted' /\ CodeIs' /\ Activations'
          /\ slots' = slots /\ Given(1)' = a /\ slots'[1] = s
        BY <1>1, <1>2, <1>3, <2>1, <2>2
    <2>4. pc' = 32
        BY <1>5, <2>3 DEF NextPc
    <2>5. InRoutine'
        BY <1>1, <2>2, <2>3, <2>4 DEF InRoutine
    <2> QED BY <2>3, <2>5
<1>6. ASSUME pc = 32
      PROVE  ~zren' /\ CodeIs' /\ Activations' /\ ~halted' /\ InRoutine'
    <2>1. instruction_push(36928) /\ Still
        BY <1>6, StepAt, Handlers DEF Ready
    <2>2. ss_sp = s - 1 /\ gpr[0] = a - 1 /\ a > 1 /\ 256 * gpr[2] + ram[s - 1] = Fib16(a - 1)
        BY <1>6 DEF InRoutine, a, s
    <2>3. s - 1 \in Nat /\ 3000 < s - 1 /\ s - 1 <= s /\ (s - 1) - 1 = s - 2
          /\ s - 1 < 4096 /\ s - 1 # (s - 1) - 1
        BY <1>1
    <2>4. /\ ram'[(s - 1) - 1] = gpr[2] /\ ss_sp' = (s - 1) - 1 /\ pc' = NextPc /\ gpr' = gpr
          /\ \A b \in Nat : b < 4096 /\ b # (s - 1) - 1 => ram'[b] = ram[b]
          /\ ~zren' /\ ~halted' /\ CodeIs' /\ Activations'
          /\ slots' = slots /\ Given(1)' = a /\ slots'[1] = s
        BY <1>2, <1>3, <2>1, <2>2, <2>3
    <2>5. ram'[s - 2] = gpr[2] /\ ss_sp' = s - 2 /\ ram'[s - 1] = ram[s - 1]
        BY <2>3, <2>4
    <2>6. pc' = 34
        BY <1>6, <2>4 DEF NextPc
    <2>7. InRoutine'
        BY <1>1, <2>2, <2>4, <2>5, <2>6 DEF InRoutine
    <2> QED BY <2>4, <2>7
<1> QED BY <1>4, <1>5, <1>6 DEF Running

\* Popping is reading the byte at the stack pointer and moving it up.
LEMMA PopIs ==
    ASSUME NEW n, Ready(n), NEW w, NEW r \in {0, 3, 4}, instruction_pop(w), Still,
           INS_DST(w) = r, NEW t \in Nat, ss_sp = t, t < 4095
    PROVE  /\ gpr'[r] = ram[t] /\ \A q \in {0, 1, 2, 3, 4} : q # r => gpr'[q] = gpr[q]
           /\ ss_sp' = t + 1 /\ pc' = NextPc /\ ram' = ram /\ ~zren' /\ ~halted'
<1>1. Masked(t) = t /\ Above(t) = t + 1
    BY DEF Masked, Above
<1>2. gpr' = [gpr EXCEPT ![r] = ram[t]] /\ ss_sp' = t + 1
    BY <1>1 DEF instruction_pop, implReadMem
<1>3. gpr'[r] = ram[t] /\ \A q \in {0, 1, 2, 3, 4} : q # r => gpr'[q] = gpr[q]
    BY <1>2, RegisterBytes
<1> QED BY <1>2, <1>3 DEF instruction_pop, Ready

\* What is popped is what was pushed.
LEMMA PopSteps ==
    ASSUME NEW n, Ready(n), InRoutine, pc \in {28, 38, 40}
    PROVE  Running'
<1> DEFINE a == Given(1)
           s == slots[1]
<1>1. slots # <<>> /\ a \in Nat /\ a < 256 /\ s \in Nat /\ 3328 <= s /\ s <= 4093
    BY Innermost DEF InRoutine
<1>2. INS_DST(36865) = 0 /\ INS_DST(37889) = 4 /\ INS_DST(37633) = 3
    BY DEF INS_DST
<1>3. Still => slots' = slots /\ Given(1)' = a /\ slots'[1] = s
    BY DEF Still, Given
<1>4. s - 1 \in Nat /\ s - 1 < 4095 /\ (s - 1) + 1 = s
      /\ s - 2 \in Nat /\ s - 2 < 4095 /\ (s - 2) + 1 = s - 1
    BY <1>1
<1> HIDE DEF a, s
<1>5. ASSUME pc = 28
      PROVE  Still /\ ram' = ram /\ ~zren' /\ ~halted' /\ InRoutine'
    <2>1. instruction_pop(36865) /\ Still
        BY <1>5, StepAt, Handlers DEF Ready
    <2>2. ss_sp = s - 1 /\ a > 1 /\ ram[s - 1] = a - 1 /\ 256 * gpr[2] + gpr[1] = Fib16(a - 1)
        BY <1>5 DEF InRoutine, Computed, a, s
    <2>3. /\ gpr'[0] = ram[s - 1] /\ gpr'[1] = gpr[1] /\ gpr'[2] = gpr[2]
          /\ ss_sp' = (s - 1) + 1 /\ pc' = NextPc /\ ram' = ram /\ ~zren' /\ ~halted'
        BY <1>2, <1>4, <2>1, <2>2, PopIs
    <2>4. pc' = 30
        BY <1>5, <2>3 DEF NextPc
    <2>5. InRoutine'
        BY <1>1, <1>3, <1>4, <2>1, <2>2, <2>3, <2>4 DEF InRoutine, Computed
    <2> QED BY <2>1, <2>3, <2>5
<1>6. ASSUME pc = 38
      PROVE  Still /\ ram' = ram /\ ~zren' /\ ~halted' /\ InRoutine'
    <2>1. instruction_pop(37889) /\ Still
        BY <1>6, StepAt, Handlers DEF Ready
    <2>2. ss_sp = s - 2 /\ a > 1 /\ 256 * gpr[2] + gpr[1] = Fib16((a - 1) - 1)
          /\ 256 * ram[s - 2] + ram[s - 1] = Fib16(a - 1)
        BY <1>6 DEF InRoutine, Computed, a, s
    <2>3. /\ gpr'[4] = ram[s - 2] /\ gpr'[1] = gpr[1] /\ gpr'[2] = gpr[2]
          /\ ss_sp' = (s - 2) + 1 /\ pc' = NextPc /\ ram' = ram /\ ~zren' /\ ~halted'
        BY <1>2, <1>4, <2>1, <2>2, PopIs
    <2>4. pc' = 40
        BY <1>6, <2>3 DEF NextPc
    <2>5. InRoutine'
        BY <1>1, <1>3, <1>4, <2>1, <2>2, <2>3, <2>4 DEF InRoutine, Computed
    <2> QED BY <2>1, <2>3, <2>5
<1>7. ASSUME pc = 40
      PROVE  Still /\ ram' = ram /\ ~zren' /\ ~halted' /\ InRoutine'
    <2>1. instruction_pop(37633) /\ Still
        BY <1>7, StepAt, Handlers DEF Ready
    <2>2. ss_sp = s - 1 /\ a > 1 /\ 256 * gpr[2] + gpr[1] = Fib16((a - 1) - 1)
          /\ 256 * gpr[4] + ram[s - 1] = Fib16(a - 1)
        BY <1>7 DEF InRoutine, Computed, a, s
    <2>3. /\ gpr'[3] = ram[s - 1] /\ gpr'[1] = gpr[1] /\ gpr'[2] = gpr[2] /\ gpr'[4] = gpr[4]
          /\ ss_sp' = (s - 1) + 1 /\ pc' = NextPc /\ ram' = ram /\ ~zren' /\ ~halted'
        BY <1>2, <1>4, <2>1, <2>2, PopIs
    <2>4. pc' = 42
        BY <1>7, <2>3 DEF NextPc
    <2>5. InRoutine'
        BY <1>1, <1>3, <1>4, <2>1, <2>2, <2>3, <2>4 DEF InRoutine, Computed
    <2> QED BY <2>1, <2>3, <2>5
<1> QED BY <1>5, <1>6, <1>7, StillRunning

\* The stacks of slots and registers after a call ...
LEMMA ConsFacts ==
    ASSUME NEW S, NEW q \in Seq(S), NEW x \in S
    PROVE  /\ <<x>> \o q \in Seq(S) /\ Len(<<x>> \o q) = Len(q) + 1
           /\ (<<x>> \o q)[1] = x
           /\ \A i \in DOMAIN q : (<<x>> \o q)[i + 1] = q[i]
           /\ \A j \in DOMAIN (<<x>> \o q) : j = 1 \/ (j - 1 \in DOMAIN q /\ (j - 1) + 1 = j)
<1>1. <<x>> \in Seq(S) /\ Len(<<x>>) = 1 /\ Len(q) \in Nat /\ DOMAIN q = 1..Len(q)
    OBVIOUS
<1>2. <<x>> \o q \in Seq(S) /\ Len(<<x>> \o q) = Len(q) + 1
    BY <1>1, ConcatProperties
<1>3. (<<x>> \o q)[1] = x
    BY <1>1, ConcatProperties
<1>4. ASSUME NEW i \in DOMAIN q
      PROVE  (<<x>> \o q)[i + 1] = q[i]
    <2>1. i + 1 \in 1..(1 + Len(q)) /\ ~(i + 1 <= 1) /\ (i + 1) - 1 = i
        BY <1>1
    <2> QED BY <1>1, <2>1, ConcatProperties
<1>5. DOMAIN (<<x>> \o q) = 1..(Len(q) + 1)
    BY <1>2
<1> QED BY <1>1, <1>2, <1>3, <1>4, <1>5

\* ... and after a return.
LEMMA TailFacts ==
    ASSUME NEW S, NEW q \in Seq(S), q # <<>>
    PROVE  /\ Tail(q) \in Seq(S) /\ Len(Tail(q)) = Len(q) - 1
           /\ \A i \in DOMAIN Tail(q) : i + 1 \in DOMAIN q /\ Tail(q)[i] = q[i + 1]
<1>1. Tail(q) \in Seq(S) /\ Len(Tail(q)) = Len(q) - 1 /\ Len(q) \in Nat /\ Len(q) > 0
      /\ DOMAIN q = 1..Len(q)
    OBVIOUS
<1>2. DOMAIN Tail(q) = 1..(Len(q) - 1)
    BY <1>1
<1>3. \A i \in 1..(Len(q) - 1) : Tail(q)[i] = q[i + 1]
    BY <1>1
<1> QED BY <1>1, <1>2, <1>3

\* A call from below what the innermost activation needs.
Calls(t) ==
    /\ instruction_call(4112) /\ program' = program
    /\ slots' = <<ss_sp'>> \o slots /\ given' = <<gpr>> \o given
    /\ t \in Nat /\ ss_sp = t /\ 3000 < t /\ t < 4096
    /\ slots # <<>> => t < slots[1]
    /\ pc \in {12, 26, 36}

\* What instruction_call leaves: the two bytes of the return address, with the slot.
LEMMA CallIs ==
    ASSUME NEW n, Ready(n), NEW t, Calls(t)
    PROVE  /\ ram'[t - 1] = pc + 2 /\ ram'[t - 2] = 0
           /\ \A b \in Nat : b < 4096 /\ b # t - 1 /\ b # t - 2 => ram'[b] = ram[b]
           /\ ss_sp' = t - 2 /\ pc' = 16 /\ gpr' = gpr /\ ~zren' /\ ~halted'
           /\ CodeIs'
<1>1. t \in Nat /\ ss_sp = t /\ 3000 < t /\ t < 4096
    BY DEF Calls
<1>2. Below(t) = t - 1 /\ Below(t - 1) = t - 2
    BY <1>1 DEF Below
<1>3. NextPc % 256 = pc + 2 /\ PushedPcHigh(NextPc) = 0
    <2>1. pc \in {12, 26, 36}
        BY DEF Calls
    <2>2. NextPc = pc + 2 /\ (pc + 2) % 256 = pc + 2 /\ (pc + 2) \div 256 = 0
        BY <2>1 DEF NextPc
    <2> QED BY <2>2 DEF PushedPcHigh
<1>4. INS_ADDR(4112) = 16
    BY DEF INS_ADDR
<1>5. /\ ram' = [ram EXCEPT ![Below(t)] = NextPc % 256, ![Below(Below(t))] = PushedPcHigh(NextPc)]
      /\ ss_sp' = Below(Below(t)) /\ pc' = INS_ADDR(4112)
      /\ gpr' = gpr /\ zren' = zren /\ halted' = halted
    BY <1>1 DEF Calls, instruction_call
<1>6. ram' = [ram EXCEPT ![t - 1] = pc + 2, ![t - 2] = 0]
    BY <1>2, <1>3, <1>5
<1>7. DOMAIN ram = Address
    BY DEF Ready, TypeOK, CoreTypeOK
<1>8. t - 1 \in Address /\ t - 2 \in Address /\ t - 1 # t - 2
    BY <1>1, AddressBounds
<1>9. /\ ram'[t - 1] = pc + 2 /\ ram'[t - 2] = 0
      /\ \A b \in Address : b # t - 1 /\ b # t - 2 => ram'[b] = ram[b]
    BY <1>6, <1>7, <1>8
<1>10. \A b \in Nat : b < 4096 /\ b # t - 1 /\ b # t - 2 => ram'[b] = ram[b]
    BY <1>9, AddressBounds
<1>11. CodeIs'
    <2>1. \A b \in Nat : b < 60 => ram'[b] = ram[b]
        BY <1>1, <1>10
    <2>2. \A b \in Image(program) : b \in Nat /\ b < 60
        BY ImageIs DEF Ready
    <2> QED BY <2>1, <2>2 DEF CodeIs, Calls, Ready
<1>12. ss_sp' = t - 2 /\ pc' = 16 /\ gpr' = gpr /\ ~zren' /\ ~halted'
    <2>1. ~zren /\ ~halted
        BY DEF Ready
    <2> QED BY <1>2, <1>4, <1>5, <2>1
<1> QED BY <1>9, <1>10, <1>11, <1>12

\* The new activation comes first, the others move back by one place.
LEMMA CallStacks ==
    ASSUME NEW n, Ready(n), NEW t, Calls(t)
    PROVE  /\ slots' \in Seq(Address) /\ given' \in Seq([Register -> Byte])
           /\ Len(given') = Len(slots') /\ Len(slots') = Len(slots) + 1 /\ Len(slots) \in Nat
           /\ slots' # <<>> /\ slots'[1] = t - 2 /\ given'[1] = gpr
           /\ \A i \in DOMAIN slots : slots'[i + 1] = slots[i] /\ given'[i + 1] = given[i]
           /\ \A j \in DOMAIN slots' : j = 1 \/ (j - 1 \in DOMAIN slots /\ (j - 1) + 1 = j)
<1>1. slots \in Seq(Address) /\ given \in Seq([Register -> Byte]) /\ Len(given) = Len(slots)
    BY DEF Ready, Slots
<1>2. DOMAIN given = DOMAIN slots /\ Len(slots) \in Nat
    BY <1>1
<1>3. gpr \in [Register -> Byte]
    BY DEF Ready, TypeOK, CoreTypeOK
<1>4. t - 2 \in Address
    BY AddressBounds DEF Calls
<1>5. slots' = <<t - 2>> \o slots /\ given' = <<gpr>> \o given
    BY CallIs DEF Calls
<1>6. /\ slots' \in Seq(Address) /\ Len(slots') = Len(slots) + 1 /\ slots'[1] = t - 2
      /\ \A i \in DOMAIN slots : slots'[i + 1] = slots[i]
      /\ \A j \in DOMAIN slots' : j = 1 \/ (j - 1 \in DOMAIN slots /\ (j - 1) + 1 = j)
    BY <1>1, <1>4, <1>5, ConsFacts
<1>7. /\ given' \in Seq([Register -> Byte]) /\ Len(given') = Len(given) + 1 /\ given'[1] = gpr
      /\ \A i \in DOMAIN given : given'[i + 1] = given[i]
    BY <1>1, <1>3, <1>5, ConsFacts
<1>8. slots' # <<>>
    BY <1>2, <1>6
<1> QED BY <1>1, <1>2, <1>6, <1>7, <1>8

\* The activations of the outer calls are left as they were, ...
LEMMA OuterCalls ==
    ASSUME NEW n, Ready(n), NEW t, Calls(t), NEW i \in DOMAIN slots
    PROVE  Activation(i + 1)'
<1>1. Activation(i) /\ i \in Nat
    BY DEF Ready, Activations, Slots
<1>2. program' = program
    BY DEF Calls
<1>3. PICK s \in Nat : s = slots[i] /\ s <= 4093 /\ t < s /\ t \in Nat
    <2>1. slots # <<>> /\ 1 \in DOMAIN slots /\ i \in DOMAIN slots
        BY DEF Ready, Slots
    <2>2. slots[i] \in Nat /\ slots[i] <= 4093 /\ slots[1] <= slots[i]
        BY <2>1 DEF Ready, Slots
    <2>3. slots[1] \in Nat
        BY <2>1 DEF Ready, Slots
    <2>4. t < slots[1] /\ t \in Nat
        BY <2>1 DEF Calls
    <2> QED BY <2>2, <2>3, <2>4
<1>4. \A k \in {0, 1, 2, 3} : s + k < 4096 => ram'[s + k] = ram[s + k]
    <2>1. ASSUME NEW k \in {0, 1, 2, 3}, s + k < 4096
          PROVE  ram'[s + k] = ram[s + k]
        <3>1. s + k \in Nat /\ s + k # t - 1 /\ s + k # t - 2
            BY <1>3
        <3> QED BY <2>1, <3>1, CallIs
    <2> QED BY <2>1
<1>5. ram'[s] = ram[s] /\ ram'[s + 1] = ram[s + 1]
    BY <1>3, <1>4
<1>6. /\ slots'[i + 1] = s /\ given'[i + 1] = given[i]
      /\ Len(slots') = Len(slots) + 1 /\ Len(slots) \in Nat
    BY <1>3, CallStacks
<1>7. i # Len(slots) => /\ i + 1 \in DOMAIN slots /\ slots[i + 1] \in Nat /\ slots[i + 1] <= 4093
                        /\ slots'[(i + 1) + 1] = slots[i + 1]
                        /\ given'[(i + 1) + 1] = given[i + 1]
    <2>1. i # Len(slots) => i + 1 \in DOMAIN slots
        BY DEF Ready, Slots
    <2>2. ASSUME i + 1 \in DOMAIN slots
          PROVE  slots[i + 1] \in Nat /\ slots[i + 1] <= 4093
        BY <2>2 DEF Ready, Slots
    <2>3. ASSUME i + 1 \in DOMAIN slots
          PROVE  slots'[(i + 1) + 1] = slots[i + 1] /\ given'[(i + 1) + 1] = given[i + 1]
        BY <2>3, CallStacks
    <2> QED BY <2>1, <2>2, <2>3
<1>8. i = Len(slots) <=> i + 1 = Len(slots')
    BY <1>1, <1>6
<1>9. FromStart(i) => FromStart(i + 1)'
    BY <1>2, <1>3, <1>5, <1>6, <1>8 DEF FromStart, Given
<1>10. FromFirst(i) => FromFirst(i + 1)'
    <2>1. FromFirst(i) => ram'[s + 2] = ram[s + 2]
        BY <1>3, <1>4, <1>7 DEF FromFirst
    <2> QED BY <1>3, <1>5, <1>6, <1>7, <1>8, <2>1 DEF FromFirst, Given
<1>11. FromSecond(i) => FromSecond(i + 1)'
    <2>1. SUFFICES ASSUME FromSecond(i)
                   PROVE  FromSecond(i + 1)'
        OBVIOUS
    <2>2. /\ i # Len(slots) /\ ram[s + 1] = 38 /\ slots[i + 1] = s + 4
          /\ given[i + 1][0] = given[i][0] + 2
          /\ 256 * ram[s + 2] + ram[s + 3] = Fib16(given[i][0] + 1)
        BY <1>3, <2>1 DEF FromSecond, Given
    <2>3. ram'[s + 2] = ram[s + 2] /\ ram'[s + 3] = ram[s + 3]
        BY <1>3, <1>4, <1>7, <2>2
    <2>4. 256 * ram'[s + 2] + ram'[s + 3] = Fib16(given'[i + 1][0] + 1)
        BY <1>6, <2>2, <2>3
    <2>5. /\ slots'[(i + 1) + 1] = slots'[i + 1] + 4
          /\ given'[(i + 1) + 1][0] = given'[i + 1][0] + 2
        BY <1>6, <1>7, <2>2
    <2>6. i + 1 # Len(slots') /\ ram'[slots'[i + 1] + 1] = 38
        BY <1>5, <1>6, <1>8, <2>2
    <2> QED BY <1>6, <2>4, <2>5, <2>6 DEF FromSecond, Given
<1> QED BY <1>1, <1>2, <1>3, <1>5, <1>6, <1>9, <1>10, <1>11 DEF Activation, Given

\* ... so that with the new one, all of them are as they should be.
LEMMA CallKeeps ==
    ASSUME NEW n, Ready(n), NEW t, Calls(t), Activation(1)'
    PROVE  Activations'
<1>1. \A j \in DOMAIN slots' : j = 1 \/ (j - 1 \in DOMAIN slots /\ (j - 1) + 1 = j)
    BY CallStacks
<1>2. ASSUME NEW j \in DOMAIN slots'
      PROVE  Activation(j)'
    <2>1. CASE j = 1
        BY <2>1
    <2>2. CASE j - 1 \in DOMAIN slots /\ (j - 1) + 1 = j
        <3>1. Activation((j - 1) + 1)'
            BY <2>2, OuterCalls
        <3> QED BY <2>2, <3>1
    <2> QED BY <1>1, <2>1, <2>2
<1>3. ASSUME NEW i \in DOMAIN slots', NEW j \in DOMAIN slots', i < j
      PROVE  slots'[i] + 3 <= slots'[j]
    <2>1. \A k \in DOMAIN slots : k \in Nat /\ 0 < k /\ slots[k] \in Nat /\ slots'[k + 1] = slots[k]
        BY CallStacks DEF Ready, Slots
    <2>2. PICK l \in DOMAIN slots : j = l + 1 /\ l \in Nat
        <3>1. i \in Nat /\ 0 < i /\ j \in Nat
            BY CallStacks
        <3>2. j # 1
            BY <1>3, <3>1
        <3> QED BY <1>1, <2>1, <3>2
    <2>3. CASE i = 1
        <3>1. 1 \in DOMAIN slots /\ t < slots[1] /\ t \in Nat /\ 3000 < t
            <4>1. slots # <<>>
                BY <2>2
            <4> QED BY <4>1 DEF Calls, Ready, Slots
        <3>2. slots[1] <= slots[l] /\ slots[1] \in Nat /\ slots[l] \in Nat
            <4>1. slots[1] <= slots[l]
                BY DEF Ready, Slots
            <4> QED BY <2>1, <3>1, <4>1
        <3>3. slots'[1] = t - 2 /\ slots'[j] = slots[l]
            BY <2>1, <2>2, CallStacks
        <3> QED BY <2>3, <3>1, <3>2, <3>3
    <2>4. CASE i - 1 \in DOMAIN slots /\ (i - 1) + 1 = i
        <3>1. PICK k \in DOMAIN slots : i = k + 1 /\ k \in Nat
            BY <2>1, <2>4
        <3>2. k < l
            BY <1>3, <2>2, <3>1
        <3>3. slots[k] + 3 <= slots[l]
            BY <3>2 DEF Ready, Activations
        <3> QED BY <2>1, <2>2, <3>1, <3>3
    <2> QED BY <1>1, <2>3, <2>4
<1> QED BY <1>2, <1>3, CallStacks DEF Activations

\* The call by the start.
LEMMA FirstCall ==
    ASSUME NEW n, Ready(n), Starting, pc = 12
    PROVE  Running'
<1>1. slots = <<>> /\ ss_sp = 4095 /\ gpr[0] = n
    BY DEF Starting, Ready
<1>2. Calls(4095)
    BY <1>1, StepAt, Handlers DEF Ready, Calls
<1>3. /\ ram'[4094] = 14 /\ ram'[4093] = 0 /\ ss_sp' = 4093 /\ pc' = 16 /\ gpr' = gpr
      /\ ~zren' /\ ~halted' /\ CodeIs'
    <2>1. 4095 - 1 = 4094 /\ 4095 - 2 = 4093 /\ 12 + 2 = 14
        OBVIOUS
    <2>2. /\ ram'[4095 - 1] = pc + 2 /\ ram'[4095 - 2] = 0 /\ ss_sp' = 4095 - 2
          /\ pc' = 16 /\ gpr' = gpr /\ ~zren' /\ ~halted' /\ CodeIs'
        BY <1>2, CallIs
    <2> QED BY <2>1, <2>2
<1>4. slots' # <<>> /\ slots'[1] = 4093 /\ Len(slots') = 1 /\ given'[1] = gpr
    <2>1. 4095 - 2 = 4093 /\ Len(slots) = 0
        BY <1>1
    <2> QED BY <1>2, <2>1, CallStacks
<1>5. program' = program /\ Argument(program) = n /\ n \in Nat
    BY <1>2 DEF Calls, Ready
<1>6. given'[1][0] = n /\ Argument(program') = n
    BY <1>1, <1>4, <1>5
<1>7. FromStart(1)'
    BY <1>3, <1>4, <1>6 DEF FromStart, Given
<1>8. Activation(1)'
    BY <1>3, <1>4, <1>5, <1>6, <1>7 DEF Activation, Given
<1>9. InRoutine'
    BY <1>1, <1>3, <1>4, <1>6 DEF InRoutine, Given
<1> QED BY <1>2, <1>3, <1>8, <1>9, CallKeeps DEF Running

\* The calls of the routine, with what each needs saved above its return address.
LEMMA InnerCalls ==
    ASSUME NEW n, Ready(n), InRoutine, pc \in {26, 36}
    PROVE  Running'
<1> DEFINE a == Given(1)
           s == slots[1]
<1>1. slots # <<>> /\ a \in Nat /\ a < 256 /\ s \in Nat /\ 3328 <= s /\ s <= 4093 /\ n \in Nat
    BY Innermost DEF InRoutine, Ready
<1>2. s + 3 * n >= 4093 + 3 * a /\ Argument(program) = n
    <2>1. 1 \in DOMAIN slots
        BY <1>1, Innermost
    <2>2. Activation(1) /\ Argument(program) = n
        BY <2>1 DEF Ready, Activations
    <2> QED BY <2>2 DEF Activation
<1>3. 1 \in DOMAIN slots /\ Len(slots) \in Nat /\ Len(slots) # 0
    <2>1. 1 \in DOMAIN slots
        BY <1>1, Innermost
    <2>2. slots \in Seq(Address)
        BY DEF Ready, Slots
    <2> QED BY <2>1, <2>2
<1> HIDE DEF a, s
<1>q. ASSUME NEW t, Calls(t)
      PROVE  /\ slots' # <<>> /\ slots'[1] = t - 2 /\ given'[1] = gpr
             /\ Len(slots') = Len(slots) + 1 /\ slots'[2] = s /\ given'[2][0] = a
    <2>1. PICK i \in DOMAIN slots : i = 1 /\ i + 1 = 2
        BY <1>3
    <2>2. slots'[i + 1] = slots[i] /\ given'[i + 1] = given[i]
        BY <1>q, CallStacks
    <2>3. slots'[2] = s /\ given'[2][0] = a
        BY <2>1, <2>2 DEF a, s, Given
    <2> QED BY <1>q, <2>3, CallStacks
<1>4. ASSUME pc = 26
      PROVE  Running'
    <2>1. ss_sp = s - 1 /\ gpr[0] = a - 1 /\ a > 1 /\ ram[s - 1] = a - 1
        BY <1>4 DEF InRoutine, a, s
    <2>2. Calls(s - 1)
        <3>1. instruction_call(4112) /\ program' = program
              /\ slots' = <<ss_sp'>> \o slots /\ given' = <<gpr>> \o given
            BY <1>4, StepAt, Handlers DEF Ready
        <3>2. s - 1 \in Nat /\ 3000 < s - 1 /\ s - 1 < 4096 /\ s - 1 < slots[1]
            BY <1>1 DEF s
        <3> QED BY <1>4, <2>1, <3>1, <3>2 DEF Calls
    <2>3. PICK q \in Nat : /\ q = (s - 1) - 2 /\ q + 1 = (s - 1) - 1 /\ q + 2 = s - 1 /\ s = q + 3
                           /\ q + 2 < 4096
        BY <1>1
    <2>4. /\ ram'[q + 1] = 28 /\ ram'[q] = 0 /\ ram'[q + 2] = a - 1
          /\ ss_sp' = q /\ pc' = 16 /\ gpr' = gpr
          /\ ~zren' /\ ~halted' /\ CodeIs'
        <3>1. pc + 2 = 28 /\ q + 2 \in Nat /\ q + 2 # (s - 1) - 1 /\ q + 2 # (s - 1) - 2
            BY <1>4, <2>3
        <3> QED BY <2>1, <2>2, <2>3, <3>1, CallIs
    <2>5. /\ slots' # <<>> /\ slots'[1] = q /\ given'[1] = gpr
          /\ Len(slots') = Len(slots) + 1 /\ slots'[2] = s /\ given'[2][0] = a
        BY <1>q, <2>2, <2>3
    <2>6. program' = program
        BY <2>2 DEF Calls
    <2>7. Given(1)' = a - 1 /\ Given(2)' = a /\ a = (a - 1) + 1 /\ a - 1 > 0
        BY <1>1, <2>1, <2>5 DEF Given
    <2>8. 1 # Len(slots')
        BY <1>3, <2>5
    <2>9. FromFirst(1)'
        <3>1. 1 + 1 = 2
            OBVIOUS
        <3> QED BY <3>1, <2>3, <2>4, <2>5, <2>7, <2>8 DEF FromFirst
    <2>10. q <= 4093 /\ q + 3 * n >= 4093 + 3 * (a - 1)
        BY <1>1, <1>2, <2>3
    <2>11. Activation(1)'
        BY <1>2, <2>4, <2>5, <2>6, <2>7, <2>9, <2>10 DEF Activation
    <2>12. InRoutine'
        BY <2>1, <2>4, <2>5, <2>7 DEF InRoutine
    <2> QED BY <2>2, <2>4, <2>11, <2>12, CallKeeps DEF Running
<1>5. ASSUME pc = 36
      PROVE  Running'
    <2>1. ss_sp = s - 2 /\ gpr[0] = (a - 1) - 1 /\ a > 1
          /\ 256 * ram[s - 2] + ram[s - 1] = Fib16(a - 1)
        BY <1>5 DEF InRoutine, a, s
    <2>2. Calls(s - 2)
        <3>1. instruction_call(4112) /\ program' = program
              /\ slots' = <<ss_sp'>> \o slots /\ given' = <<gpr>> \o given
            BY <1>5, StepAt, Handlers DEF Ready
        <3>2. s - 2 \in Nat /\ 3000 < s - 2 /\ s - 2 < 4096 /\ s - 2 < slots[1]
            BY <1>1 DEF s
        <3> QED BY <1>5, <2>1, <3>1, <3>2 DEF Calls
    <2>3. PICK q \in Nat : /\ q = (s - 2) - 2 /\ q + 1 = (s - 2) - 1 /\ q + 2 = s - 2
                           /\ q + 3 = s - 1 /\ s = q + 4 /\ q + 3 < 4096
        BY <1>1
    <2>4. /\ ram'[q + 1] = 38 /\ ram'[q] = 0
          /\ ram'[q + 2] = ram[s - 2] /\ ram'[q + 3] = ram[s - 1]
          /\ ss_sp' = q /\ pc' = 16 /\ gpr' = gpr
          /\ ~zren' /\ ~halted' /\ CodeIs'
        <3>1. /\ pc + 2 = 38 /\ q + 2 \in Nat /\ q + 2 # (s - 2) - 1 /\ q + 2 # (s - 2) - 2
              /\ q + 3 \in Nat /\ q + 3 # (s - 2) - 1 /\ q + 3 # (s - 2) - 2 /\ q + 2 < 4096
            BY <1>5, <2>3
        <3> QED BY <2>1, <2>2, <2>3, <3>1, CallIs
    <2>5. /\ slots' # <<>> /\ slots'[1] = q /\ given'[1] = gpr
          /\ Len(slots') = Len(slots) + 1 /\ slots'[2] = s /\ given'[2][0] = a
        BY <1>q, <2>2, <2>3
    <2>6. program' = program
        BY <2>2 DEF Calls
    <2>7. /\ Given(1)' = (a - 1) - 1 /\ Given(2)' = a
          /\ a = ((a - 1) - 1) + 2 /\ ((a - 1) - 1) + 1 = a - 1
        BY <1>1, <2>1, <2>5 DEF Given
    <2>8. 1 # Len(slots')
        BY <1>3, <2>5
    <2>9. 256 * ram'[q + 2] + ram'[q + 3] = Fib16(Given(1)' + 1)
        BY <2>1, <2>4, <2>7
    <2>10. FromSecond(1)'
        <3>1. 1 + 1 = 2
            OBVIOUS
        <3> QED BY <3>1, <2>3, <2>4, <2>5, <2>7, <2>8, <2>9 DEF FromSecond
    <2>11. q <= 4093 /\ q + 3 * n >= 4093 + 3 * ((a - 1) - 1)
        BY <1>1, <1>2, <2>3
    <2>12. Activation(1)'
        BY <1>2, <2>4, <2>5, <2>6, <2>7, <2>10, <2>11 DEF Activation
    <2>13. InRoutine'
        BY <2>1, <2>4, <2>5, <2>7 DEF InRoutine
    <2> QED BY <2>2, <2>4, <2>12, <2>13, CallKeeps DEF Running
<1> QED BY <1>4, <1>5

\* A return, which leaves the registers and the RAM alone.
Returns ==
    /\ instruction_ret /\ program' = program
    /\ slots' = Tail(slots) /\ given' = Tail(given)
    /\ slots # <<>> /\ ss_sp = slots[1]

\* The innermost activation goes, the others move up by one place.
LEMMA ReturnStacks ==
    ASSUME NEW n, Ready(n), Returns
    PROVE  /\ slots' \in Seq(Address) /\ given' \in Seq([Register -> Byte])
           /\ Len(given') = Len(slots') /\ Len(slots') = Len(slots) - 1 /\ Len(slots) \in Nat
           /\ \A i \in DOMAIN slots' : /\ i + 1 \in DOMAIN slots
                                       /\ slots'[i] = slots[i + 1] /\ given'[i] = given[i + 1]
<1>1. slots \in Seq(Address) /\ given \in Seq([Register -> Byte]) /\ Len(given) = Len(slots)
    BY DEF Ready, Slots
<1>2. slots # <<>> /\ slots' = Tail(slots) /\ given' = Tail(given)
    BY DEF Returns
<1>3. given # <<>> /\ Len(slots) \in Nat
    BY <1>1, <1>2
<1>4. /\ slots' \in Seq(Address) /\ Len(slots') = Len(slots) - 1
      /\ \A i \in DOMAIN slots' : i + 1 \in DOMAIN slots /\ slots'[i] = slots[i + 1]
    BY <1>1, <1>2, TailFacts
<1>5. /\ given' \in Seq([Register -> Byte]) /\ Len(given') = Len(given) - 1
      /\ \A i \in DOMAIN given' : i + 1 \in DOMAIN given /\ given'[i] = given[i + 1]
    BY <1>1, <1>2, <1>3, TailFacts
<1>6. DOMAIN given' = DOMAIN slots'
    BY <1>1, <1>4, <1>5
<1> QED BY <1>1, <1>3, <1>4, <1>5, <1>6

\* The activations of the outer calls are left as they were.
LEMMA ReturnKeeps ==
    ASSUME NEW n, Ready(n), Returns
    PROVE  Activations'
<1>1. ram' = ram /\ program' = program
    BY DEF Returns, instruction_ret
<1>2. ASSUME NEW i \in DOMAIN slots'
      PROVE  Activation(i)'
    <2>1. /\ i + 1 \in DOMAIN slots /\ slots'[i] = slots[i + 1] /\ given'[i] = given[i + 1]
          /\ Len(slots') = Len(slots) - 1 /\ Len(slots) \in Nat /\ i \in Nat
        <3>1. i \in Nat
            BY ReturnStacks
        <3> QED BY <3>1, ReturnStacks
    <2>2. Activation(i + 1)
        BY <2>1 DEF Ready, Activations
    <2>3. i = Len(slots') <=> i + 1 = Len(slots)
        BY <2>1
    <2>4. i # Len(slots') => /\ slots'[i + 1] = slots[(i + 1) + 1]
                             /\ given'[i + 1] = given[(i + 1) + 1]
        <3>1. i # Len(slots') => i + 1 \in DOMAIN slots'
            BY ReturnStacks, <2>1
        <3> QED BY <3>1, ReturnStacks
    <2>5. FromStart(i + 1) => FromStart(i)'
        BY <1>1, <2>1, <2>3 DEF FromStart, Given
    <2>6. FromFirst(i + 1) => FromFirst(i)'
        BY <1>1, <2>1, <2>3, <2>4 DEF FromFirst, Given
    <2>7. FromSecond(i + 1) => FromSecond(i)'
        <3>1. SUFFICES ASSUME FromSecond(i + 1)
                       PROVE  FromSecond(i)'
            OBVIOUS
        <3>2. /\ i # Len(slots') /\ ram[slots[i + 1] + 1] = 38
              /\ slots[(i + 1) + 1] = slots[i + 1] + 4
              /\ given[(i + 1) + 1][0] = given[i + 1][0] + 2
              /\ 256 * ram[slots[i + 1] + 2] + ram[slots[i + 1] + 3] = Fib16(given[i + 1][0] + 1)
            BY <2>3, <3>1 DEF FromSecond, Given
        <3>3. 256 * ram'[slots'[i] + 2] + ram'[slots'[i] + 3] = Fib16(given'[i][0] + 1)
            BY <1>1, <2>1, <3>2
        <3> QED BY <1>1, <2>1, <2>4, <3>2, <3>3 DEF FromSecond, Given
    <2> QED BY <1>1, <2>1, <2>2, <2>5, <2>6, <2>7 DEF Activation, Given
<1>3. ASSUME NEW i \in DOMAIN slots', NEW j \in DOMAIN slots', i < j
      PROVE  slots'[i] + 3 <= slots'[j]
    <2>1. /\ i + 1 \in DOMAIN slots /\ slots'[i] = slots[i + 1]
          /\ j + 1 \in DOMAIN slots /\ slots'[j] = slots[j + 1]
        BY ReturnStacks
    <2>2. i \in Nat /\ j \in Nat
        BY ReturnStacks
    <2>3. i + 1 < j + 1
        BY <1>3, <2>2
    <2>4. slots[i + 1] + 3 <= slots[j + 1]
        BY <2>1, <2>3 DEF Ready, Activations
    <2> QED BY <2>1, <2>4
<1> QED BY <1>2, <1>3, ReturnStacks DEF Activations

\* The result is where the caller expects it.
LEMMA RetSteps ==
    ASSUME NEW n, Ready(n), InRoutine, pc \in {46, 52, 58}
    PROVE  Running'
<1> DEFINE a == Given(1)
           s == slots[1]
<1>1. slots # <<>> /\ a \in Nat /\ a < 256 /\ s \in Nat /\ 3328 <= s /\ s <= 4093
    BY Innermost DEF InRoutine
<1>2. 1 \in DOMAIN slots /\ Activation(1)
    <2>1. 1 \in DOMAIN slots
        BY <1>1, Innermost
    <2> QED BY <2>1 DEF Ready, Activations
<1> HIDE DEF a, s
<1>3. ss_sp = s /\ 256 * gpr[2] + gpr[1] = Fib16(a)
    BY DEF InRoutine, Computed, a, s
<1>4. Returns
    <2>1. instruction_ret /\ program' = program /\ slots' = Tail(slots) /\ given' = Tail(given)
        BY <1>1, StepAt, Handlers DEF Ready
    <2> QED BY <2>1, <1>1, <1>3 DEF Returns, s
<1>5. /\ gpr' = gpr /\ ram' = ram /\ ~zren' /\ ~halted' /\ program' = program
      /\ pc' = ReturnAddress(s) /\ ss_sp' = Above(Above(s))
    BY <1>3, <1>4 DEF Returns, instruction_ret, Ready
<1>6. Above(s) = s + 1 /\ Above(s + 1) = s + 2 /\ Masked(s) = s /\ Masked(s + 1) = s + 1
    BY <1>1 DEF Above, Masked
<1>7. ss_sp' = s + 2
    BY <1>5, <1>6
<1>8. ram[s] = 0 /\ ram[s + 1] \in {14, 28, 38}
    BY <1>2 DEF Activation, FromStart, FromFirst, FromSecond, s
<1>9. pc' = ram[s + 1]
    <2>1. pc' = Masked(256 * ram[s] + ram[s + 1])
        BY <1>5, <1>6 DEF ReturnAddress, implReadMem
    <2>2. 256 * ram[s] + ram[s + 1] = ram[s + 1]
        BY <1>8
    <2> QED BY <1>8, <2>1, <2>2 DEF Masked
<1>10. CodeIs'
    BY <1>5 DEF CodeIs, Ready
<1>11. Activations'
    BY <1>4, ReturnKeeps
<1>12. CASE FromStart(1)
    <2>1. Len(slots) = 1 /\ pc' = 14 /\ s = 4093 /\ a = Argument(program)
        BY <1>9, <1>12 DEF FromStart, a, s
    <2>2. slots' = <<>>
        BY <1>4, <2>1, ReturnStacks
    <2>3. ss_sp' = 4095
        BY <1>7, <2>1
    <2>4. Starting'
        BY <1>3, <1>5, <2>1, <2>2, <2>3 DEF Starting, Computed
    <2> QED BY <1>5, <1>10, <1>11, <2>4 DEF Running
<1>13. ASSUME 1 # Len(slots)
       PROVE  slots' # <<>> /\ slots'[1] = slots[2] /\ Given(1)' = Given(2)
    <2>1. slots \in Seq(Address) /\ Len(slots) \in Nat /\ Len(slots) # 0
        BY <1>1 DEF Ready, Slots
    <2>2. slots' \in Seq(Address) /\ Len(slots') = Len(slots) - 1
        BY <1>4, ReturnStacks
    <2>3. 1 \in DOMAIN slots' /\ slots' # <<>>
        BY <1>13, <2>1, <2>2
    <2>4. PICK i \in DOMAIN slots' : i = 1 /\ i + 1 = 2
        BY <2>3
    <2>5. slots'[i] = slots[i + 1] /\ given'[i] = given[i + 1]
        BY <1>4, ReturnStacks
    <2> QED BY <2>3, <2>4, <2>5 DEF Given
<1>14. CASE FromFirst(1)
    <2>1. 1 + 1 = 2
        OBVIOUS
    <2>2. /\ 1 # Len(slots) /\ pc' = 28 /\ slots[2] = s + 3 /\ a > 0 /\ Given(2) = a + 1
          /\ ram[s + 2] = a
        BY <1>9, <1>14, <2>1 DEF FromFirst, a, s
    <2>3. slots' # <<>> /\ slots'[1] = s + 3 /\ Given(1)' = a + 1
        BY <1>13, <2>2
    <2>4. ss_sp' = (s + 3) - 1 /\ ram'[(s + 3) - 1] = (a + 1) - 1 /\ a + 1 > 1
          /\ 256 * gpr'[2] + gpr'[1] = Fib16((a + 1) - 1)
        <3>1. (s + 3) - 1 = s + 2 /\ (a + 1) - 1 = a /\ a + 1 > 1
            BY <1>1, <2>2
        <3> QED BY <1>3, <1>5, <1>7, <2>2, <3>1
    <2>5. InRoutine'
        BY <2>2, <2>3, <2>4 DEF InRoutine, Computed
    <2> QED BY <1>5, <1>10, <1>11, <2>5 DEF Running
<1>15. CASE FromSecond(1)
    <2>1. 1 + 1 = 2
        OBVIOUS
    <2>2. /\ 1 # Len(slots) /\ pc' = 38 /\ slots[2] = s + 4 /\ Given(2) = a + 2
          /\ 256 * ram[s + 2] + ram[s + 3] = Fib16(a + 1)
        BY <1>9, <1>15, <2>1 DEF FromSecond, a, s
    <2>3. slots' # <<>> /\ slots'[1] = s + 4 /\ Given(1)' = a + 2
        BY <1>13, <2>2
    <2>4. /\ ss_sp' = (s + 4) - 2 /\ a + 2 > 1
          /\ 256 * gpr'[2] + gpr'[1] = Fib16(((a + 2) - 1) - 1)
          /\ 256 * ram'[(s + 4) - 2] + ram'[(s + 4) - 1] = Fib16((a + 2) - 1)
        <3>1. /\ (s + 4) - 2 = s + 2 /\ (s + 4) - 1 = s + 3 /\ (a + 2) - 1 = a + 1
              /\ ((a + 2) - 1) - 1 = a /\ a + 2 > 1
            BY <1>1
        <3> QED BY <1>3, <1>5, <1>7, <2>2, <3>1
    <2>5. InRoutine'
        BY <2>2, <2>3, <2>4 DEF InRoutine, Computed
    <2> QED BY <1>5, <1>10, <1>11, <2>5 DEF Running
<1>16. FromStart(1) \/ FromFirst(1) \/ FromSecond(1)
    BY <1>2 DEF Activation
<1> QED BY <1>12, <1>14, <1>15, <1>16

-----------------------------------------------------------------------------
(* The invariant of the recursion, and what follows from it.               *)

\* The inductive invariant.
RunInv == TypeOK /\ (Loaded => Running)

\* It is what the run checks, with the type invariant.
LEMMA RecursingIs ==
    Recursing <=> (Loaded => Running)
BY DEF Recursing, Running, CodeIs

\* A step from a state of the invariant is one that the lemmas above speak of: the
\* slots lie high up and in order, and the argument is a byte.
LEMMA ReadyIs ==
    ASSUME TypeOK, Loaded, Running, ~halted, StackNext
    PROVE  \E n : Ready(n)
<1>1. PICK n \in Nat : n < 256 /\ program = programArray(n) /\ Argument(program) = n
    BY LoadedIs
<1>2. Len(program) = 30
    BY <1>1, WordsAre
<1>3. Slots
    BY <1>1, SlotsHigh DEF Running
<1>4. Ready(n)
    BY <1>1, <1>2, <1>3 DEF Ready, Running
<1> QED BY <1>4

\* Every step of the start, ...
LEMMA StartingSteps ==
    ASSUME NEW n, Ready(n), Starting
    PROVE  Running'
<1>1. pc \in {0, 6, 10} \/ pc \in {2, 4, 8} \/ pc = 12 \/ pc = 14
    BY DEF Starting
<1> QED BY <1>1, StartLoads, SetupSteps, FirstCall, HaltStep

\* ... of the routine, ...
LEMMA RoutineSteps ==
    ASSUME NEW n, Ready(n), InRoutine
    PROVE  Running'
<1>1. \/ pc \in {48, 50, 54, 56} \/ pc \in {18, 22} \/ pc \in {16, 20, 34}
      \/ pc \in {42, 44} \/ pc \in {24, 30, 32} \/ pc \in {28, 38, 40}
      \/ pc \in {26, 36} \/ pc \in {46, 52, 58}
    BY DEF InRoutine
<1> QED BY <1>1, RoutineLoads, BranchSteps, AddiSteps, AddSteps, PushSteps, PopSteps,
           InnerCalls, RetSteps

\* ... and behind the halt, keeps the invariant.
LEMMA FinishedStep ==
    ASSUME Running, halted, StackNext
    PROVE  Running'
<1>1. UNCHANGED vars /\ UNCHANGED program
    BY DEF StackNext, Next, vcore_step
<1>2. slots' = slots /\ given' = given
    BY DEF StackNext
<1>3. CodeIs' /\ Activations'
    BY <1>1, <1>2 DEF Running, CodeIs, Activations, Activation, FromStart, FromFirst,
                      FromSecond, Given, vars, coreVars, flags
<1>4. Finished'
    BY <1>1 DEF Running, Finished, Computed, vars, coreVars, flags
<1>5. ~zren'
    BY <1>1 DEF Running, vars, coreVars
<1> QED BY <1>3, <1>4, <1>5 DEF Running

\* main copies the program and starts it at 0, with nothing on the stack.
LEMMA RunStart ==
    ASSUME StackInit
    PROVE  RunInv
<1>1. TypeOK
    BY InitType DEF StackInit
<1>2. ASSUME Loaded
      PROVE  Running
    <2>1. /\ slots = <<>> /\ given = <<>> /\ pc = 0 /\ ss_sp = 0 /\ ~zren /\ ~halted
        BY DEF StackInit, Init
    <2>2. CodeIs
        <3>1. Len(program) = 30
            BY <1>2, LoadedIs, WordsAre
        <3>2. \A a \in Image(program) : a \in Address
            BY <3>1, ImageIs, AddressBounds
        <3>3. PICK heap \in Heap :
                 ram = [address \in Address |->
                           IF address \in Image(program) THEN ProgramByte(program, address)
                           ELSE heap[address]]
            BY DEF StackInit, Init
        <3> QED BY <3>2, <3>3 DEF CodeIs
    <2>3. Activations
        BY <2>1 DEF Activations
    <2>4. Starting
        BY <2>1 DEF Starting
    <2> QED BY <2>1, <2>2, <2>3, <2>4 DEF Running
<1> QED BY <1>1, <1>2 DEF RunInv

\* The inductive step.
LEMMA RunStep ==
    ASSUME RunInv, [StackNext]_stackVars
    PROVE  RunInv'
<1>1. TypeOK'
    BY NextType DEF RunInv, StackNext, stackVars
<1>2. CASE StackNext
    <2>1. program' = program
        BY <1>2 DEF StackNext, Next
    <2>2. ASSUME Loaded
          PROVE  Running'
        <3>1. TypeOK /\ Running
            BY <2>2 DEF RunInv
        <3>2. CASE halted
            BY <1>2, <3>1, <3>2, FinishedStep
        <3>3. CASE ~halted
            <4>1. PICK n : Ready(n)
                BY <1>2, <2>2, <3>1, <3>3, ReadyIs
            <4>2. Starting \/ InRoutine
                BY <3>1, <3>3 DEF Running, Finished
            <4> QED BY <4>1, <4>2, StartingSteps, RoutineSteps
        <3> QED BY <3>2, <3>3
    <2> QED BY <1>1, <2>1, <2>2 DEF RunInv, Loaded
<1>3. CASE UNCHANGED stackVars
    <2>1. UNCHANGED <<vars, program, slots, given>>
        BY <1>3 DEF stackVars, vmVars
    <2>2. (Loaded => Running)'
        BY <2>1 DEF RunInv, Loaded, Running, CodeIs, Activations, Activation, FromStart,
                    FromFirst, FromSecond, Given, Starting, InRoutine, Finished, Computed,
                    vars, coreVars, flags
    <2> QED BY <1>1, <2>2 DEF RunInv
<1> QED BY <1>2, <1>3

\* Wherever the program that main loads is, the return addresses and the values saved
\* between them are those of the calls made so far, and the registers hold what the
\* next instruction needs (programArray, main.c, run by vcore_step, virtcore.c).
THEOREM RecursionInvariant == StackSpec => []Recursing
<1>1. RunInv => Recursing
    BY RecursingIs DEF RunInv
<1> QED BY <1>1, RunStart, RunStep, PTL DEF StackSpec

\* What the invariant says behind the halt is that the result is right, ...
LEMMA ResultIs ==
    ASSUME RunInv, Loaded
    PROVE  FibResult
<1>1. PICK n \in Nat : n < 256 /\ program = programArray(n)
                       /\ Argument(program) = n /\ Wide(program)
    BY LoadedIs
<1>2. halted => 256 * gpr[2] + gpr[1] = Fibonacci[Argument(program)] % 65536
    BY DEF RunInv, Running, Finished, Computed, Fib16
<1> QED BY <1>1, <1>2 DEF FibResult, Result, Modulus

\* ... and at every instruction that the code is as it was loaded.
LEMMA CodeIsIntact ==
    ASSUME RunInv, Loaded
    PROVE  CodeIntact
BY DEF RunInv, Running, CodeIs, CodeIntact

\* There is room on the stack: it has not come down further than three bytes for
\* each unit of the argument.
LEMMA RoomBelow ==
    ASSUME Slots, NEW t \in Nat, ss_sp = t, 3000 < t, slots # <<>> => t <= slots[1]
    PROVE  Room(1) /\ Room(2)
<1>1. ASSUME NEW i \in DOMAIN slots
      PROVE  Depth(i) + 1 <= 4094 /\ Depth(i) + 2 <= 4094
    <2>1. slots # <<>> /\ 1 \in DOMAIN slots
        BY DEF Slots
    <2>2. slots[i] \in Nat /\ slots[i] <= 4093 /\ slots[1] <= slots[i]
        BY DEF Slots
    <2>3. slots[1] \in Nat
        <3>1. Slots
            OBVIOUS
        <3> QED BY ONLY <2>1, <3>1 DEF Slots
    <2>4. PICK d \in Nat : d = slots[i] - t /\ d < 1094 /\ slots[i] + 4096 - t = d + 4096
        BY <2>1, <2>2, <2>3
    <2>5. (d + 4096) % 4096 = d
        BY <2>4
    <2>6. Depth(i) = d
        BY <2>4, <2>5 DEF Depth
    <2> QED BY <2>4, <2>6
<1> QED BY <1>1 DEF Room

\* The program keeps to what Disciplined asks of it, so that its calls return.
LEMMA RunIsDisciplined ==
    ASSUME RunInv, Loaded
    PROVE  Disciplined
<1>1. SUFFICES ASSUME ~halted PROVE Disciplined
    BY DEF Disciplined
<1>2. PICK n \in Nat : n < 256 /\ program = programArray(n) /\ Argument(program) = n
    BY LoadedIs
<1>3. CodeIs /\ Activations /\ (Starting \/ InRoutine)
    BY <1>1 DEF RunInv, Running, Finished
<1>4. Slots
    BY <1>2, <1>3, SlotsHigh
<1>5. slots # <<>> => /\ slots[1] \in Nat /\ 3328 <= slots[1] /\ slots[1] <= 4093
                      /\ Head(slots) = slots[1]
    <2>1. slots # <<>> => 1 \in DOMAIN slots
        BY <1>4 DEF Slots
    <2>2. 1 \in DOMAIN slots => slots[1] \in Nat /\ 3328 <= slots[1] /\ slots[1] <= 4093
        BY <1>4 DEF Slots
    <2>3. slots # <<>> => Head(slots) = slots[1]
        BY <1>4 DEF Slots
    <2> QED BY <2>1, <2>2, <2>3
<1>6. CASE pc \in {0, 6, 8, 10, 14, 16, 18, 20, 22, 34, 42, 44, 48, 50, 54, 56}
    <2>1. Decode(Fetch) \in {"ldi", "wrds", "halt", "addi", "beq", "add", "adc"}
        BY <1>2, <1>3, <1>6, FetchedAt
    <2> QED BY <2>1 DEF Disciplined
<1>7. CASE pc \in {2, 4}
    <2>1. Decode(Fetch) \in {"wrss", "wrsp"}
        BY <1>2, <1>3, <1>7, FetchedAt
    <2>2. slots = <<>>
        BY <1>3, <1>7 DEF Starting, InRoutine
    <2> QED BY <2>1, <2>2 DEF Disciplined
<1>8. CASE pc \in {12, 26, 36}
    <2>1. Decode(Fetch) = "call"
        BY <1>2, <1>3, <1>8, FetchedAt
    <2>2. NextPc < 512
        BY <1>8 DEF NextPc
    <2>3. Room(2)
        <3>1. \/ slots = <<>> /\ ss_sp = 4095
              \/ slots # <<>> /\ (ss_sp = slots[1] - 1 \/ ss_sp = slots[1] - 2)
            BY <1>3, <1>8 DEF Starting, InRoutine
        <3>2. PICK t \in Nat : ss_sp = t /\ 3000 < t /\ (slots # <<>> => t <= slots[1])
            BY <1>5, <3>1
        <3> QED BY <1>4, <3>2, RoomBelow
    <2> QED BY <2>1, <2>2, <2>3 DEF Disciplined
<1>9. CASE pc \in {24, 30, 32}
    <2>1. Decode(Fetch) = "push"
        BY <1>2, <1>3, <1>9, FetchedAt
    <2>2. slots # <<>> /\ (ss_sp = slots[1] \/ ss_sp = slots[1] - 1)
        BY <1>3, <1>9 DEF Starting, InRoutine
    <2>3. PICK t \in Nat : ss_sp = t /\ 3000 < t /\ t <= slots[1]
        BY <1>5, <2>2
    <2>4. Room(1)
        BY <1>4, <2>3, RoomBelow
    <2> QED BY <2>1, <2>4 DEF Disciplined
<1>10. CASE pc \in {28, 38, 40}
    <2>1. Decode(Fetch) = "pop"
        BY <1>2, <1>3, <1>10, FetchedAt
    <2>2. slots # <<>> /\ (ss_sp = slots[1] - 1 \/ ss_sp = slots[1] - 2)
        BY <1>3, <1>10 DEF Starting, InRoutine
    <2>3. ss_sp # Head(slots)
        BY <1>5, <2>2
    <2> QED BY <2>1, <2>3 DEF Disciplined
<1>11. CASE pc \in {46, 52, 58}
    <2>1. Decode(Fetch) = "ret"
        BY <1>2, <1>3, <1>11, FetchedAt
    <2>2. slots # <<>> /\ ss_sp = Head(slots)
        BY <1>3, <1>5, <1>11 DEF Starting, InRoutine
    <2> QED BY <2>1, <2>2 DEF Disciplined
<1>12. pc \in {0, 2, 4, 6, 8, 10, 12, 14, 16, 18, 20, 22, 24, 26, 28, 30, 32, 34, 36, 38,
               40, 42, 44, 46, 48, 50, 52, 54, 56, 58}
    BY <1>3 DEF Starting, InRoutine
<1> QED BY <1>6, <1>7, <1>8, <1>9, <1>10, <1>11, <1>12

\* For every argument that its ldi can hold, that program has its Fibonacci number,
\* modulo 65536, in r2:r1 when it halts: nested calls, saved registers and the carry
\* from add to adc all work (programArray, main.c, run by vcore_step, virtcore.c).
THEOREM RecursionComputes == StackSpec /\ Loaded => []FibResult
<1>1. Loaded /\ [StackNext]_stackVars => Loaded'
    BY DEF Loaded, StackNext, Next, stackVars, vmVars
<1>2. RunInv /\ Loaded => FibResult
    BY ResultIs
<1> QED BY <1>1, <1>2, RunStart, RunStep, PTL DEF StackSpec

\* Its stack never reaches its code, however deep it calls, although nothing in
\* instruction_push and instruction_call (virtcore.c) bounds it.
THEOREM RecursionLeavesCode == StackSpec /\ Loaded => []CodeIntact
<1>1. Loaded /\ [StackNext]_stackVars => Loaded'
    BY DEF Loaded, StackNext, Next, stackVars, vmVars
<1>2. RunInv /\ Loaded => CodeIntact
    BY CodeIsIntact
<1> QED BY <1>1, <1>2, RunStart, RunStep, PTL DEF StackSpec

\* It never pops more than it pushed, never stores over a return address and never
\* uses the stack up: the premise of CallsComeBack (call, ret, push and pop, virtcore.c).
THEOREM RecursionDisciplined == StackSpec /\ Loaded => []Disciplined
<1>1. Loaded /\ [StackNext]_stackVars => Loaded'
    BY DEF Loaded, StackNext, Next, stackVars, vmVars
<1> QED BY <1>1, RunIsDisciplined, RunStart, RunStep, PTL DEF StackSpec

\* Its calls return, last call first: the machine with the stack in its RAM implements
\* CallReturn whenever it runs the program that main loads, whatever the rest of the
\* RAM and the ports hold (instruction_call and instruction_ret, virtcore.c).
THEOREM RecursionReturns == StackSpec /\ Loaded => CallsReturn
BY RecursionDisciplined, CallsComeBack, PTL

=============================================================================
