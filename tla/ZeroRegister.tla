---------------------------- MODULE ZeroRegister ----------------------------
(***************************************************************************)
(* What the zero register hides.  Two virtual machines run the same        *)
(* program in lockstep; their ports may answer differently, so that the    *)
(* program can bring them apart.  Once enzr has made r0 read as zero, what *)
(* r0 holds must not reach anything else.                                  *)
(***************************************************************************)
EXTENDS VectorVM

VARIABLES gprB, pcB, dsB, ss_spB, zrenB, haltedB, zfB, cfB, ltsB, ltuB, ramB

varsB == <<gprB, pcB, dsB, ss_spB, zrenB, haltedB, zfB, cfB, ltsB, ltuB, ramB>>
pairVars == <<vmVars, varsB>>

Other == INSTANCE VectorVM WITH
    gpr <- gprB, pc <- pcB, ds <- dsB, ss_sp <- ss_spB, zren <- zrenB,
    halted <- haltedB, zf <- zfB, cf <- cfB, lts <- ltsB, ltu <- ltuB,
    ram <- ramB

PairInit ==
    /\ Init
    /\ gprB = gpr /\ pcB = pc /\ dsB = ds /\ ss_spB = ss_sp /\ zrenB = zren
    /\ haltedB = halted /\ zfB = zf /\ cfB = cf /\ ltsB = lts /\ ltuB = ltu
    /\ ramB = ram

PairNext == Next /\ Other!Next
PairSpec == PairInit /\ [][PairNext]_pairVars

-----------------------------------------------------------------------------
SameButR0(f, g) == \A r \in Register \ {0} : f[r] = g[r]

\* The machines differ in what r0 holds, and in nothing else.
AlikeButR0 ==
    /\ SameButR0(gpr, gprB)
    /\ <<pc, ds, ss_sp, zren, halted, zf, cf, lts, ltu, ram>>
         = <<pcB, dsB, ss_spB, zrenB, haltedB, zfB, cfB, ltsB, ltuB, ramB>>

\* The steps by which the machines come apart though r0 reads as zero: in, whose
\* answers may differ, and str with r0 as address register, which instruction_str
\* reads raw.
Escapes == \/ Decode(Fetch) = "in"
           \/ Decode(Fetch) = "str" /\ INS_DST(Fetch) = 0

\* While the zero register is on, no other instruction lets r0 through: not to
\* another register, the flags, the stack pointer, a segment, memory or control.
R0Hidden == [][AlikeButR0 /\ zren /\ ~Escapes => AlikeButR0']_pairVars
=============================================================================
