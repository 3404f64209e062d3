------------------------------- MODULE MCZero -------------------------------
(***************************************************************************)
(* Every instruction, with r0 and r1 as operands, in two machines whose r0 *)
(* may differ.                                                             *)
(***************************************************************************)
EXTENDS ZeroRegister

R == {0, 1}
MCPortInput == {0, 255}

Branches == UNION {{MKI_JMP(a), MKI_CALL(a), MKI_BLTU(a), MKI_BLEU(a),
                    MKI_BLTS(a), MKI_BLES(a), MKI_BEQ(a), MKI_BNE(a)} : a \in {10}}
Plain == {MKI_NOP, MKI_HALT, MKI_RET, MKI_ENZR, MKI_DSZR, 37779 (* illegal *)}
OneRegister == UNION {{MKI_PUSH(r), MKI_WRSS(r), MKI_WRDS(r), MKI_WRSP(r),
                       MKI_POP(r), MKI_RDSS(r), MKI_RDDS(r), MKI_RDSP(r),
                       MKI_OUT(1, r), MKI_IN(r, 1), MKI_LDI(r, 129),
                       MKI_SRLDR(r, 255), MKI_SRSTR(r, 255)} : r \in R}
TwoRegisters == UNION {{MKI_MOV(d, s), MKI_NOT(d, s), MKI_LDR(d, s),
                        MKI_STR(d, s), MKI_ADDI(d, s, 255)} : d, s \in R}
ThreeRegister == UNION {{MKI_ADD(1, s, t), MKI_SUB(1, s, t), MKI_ADC(1, s, t),
                         MKI_SBC(1, s, t), MKI_AND(1, s, t), MKI_OR(1, s, t),
                         MKI_XOR(1, s, t)} : s, t \in R}
Words == Branches \cup Plain \cup OneRegister \cup TwoRegisters \cup ThreeRegister

\* Read r0 from a port, turn the zero register on, set the stage, run any word.
Stages == {MKI_NOP, MKI_DSZR, MKI_ADDI(1, 0, 129), MKI_WRSP(0), MKI_STR(0, 1)}
MCPrograms == {<<MKI_IN(0, 0), MKI_ENZR, s, w, MKI_HALT, MKI_HALT>> : s \in Stages, w \in Words}

MCHeap == {[address \in Address |-> 147]}
=============================================================================
