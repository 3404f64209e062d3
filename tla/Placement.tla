------------------------------ MODULE Placement ------------------------------
(***************************************************************************)
(* The assembler with a history of where things will have to lie: how many *)
(* bytes the statements read so far stand for, at which of them each       *)
(* statement begins, and, for each label, what is in front of it and how   *)
(* far @offset has put the addresses away from the positions in the file.  *)
(***************************************************************************)
EXTENDS Assembler

VARIABLES size,       \* the bytes of the statements read so far
          starts,     \* the position at which each of them begins
          shift,      \* address minus position, as the last @offset made it
          places      \* for each label: the next statement, position and shift

placementVars == <<vars, size, starts, shift, places>>

Sets(line) ==
    line.kind = "@offset" /\ line.args # <<>> /\ Parses("addr", line.args[1])

PlacementInit ==
    /\ Init
    /\ size = 0 /\ starts = <<>> /\ shift = 0 /\ places = <<>>

\* What the history records of a line that has been read.
Recorded ==
    /\ IF statements' = statements THEN UNCHANGED <<size, starts>>
       ELSE /\ size' = size + Size(statements'[Len(statements')])
            /\ starts' = Append(starts, size)
    /\ places' = IF labels' = labels THEN places
                 ELSE Append(places, [next |-> Len(statements) + 1,
                                      position |-> size, shift |-> shift])
    /\ shift' = IF Sets(source[cur]) THEN source[cur].args[1].num - size ELSE shift

PlacementNext ==
    /\ Next
    /\ IF cur' = cur THEN UNCHANGED <<size, starts, shift, places>> ELSE Recorded

PlacementSpec == PlacementInit /\ [][PlacementNext]_placementVars

-----------------------------------------------------------------------------
\* The three passes count alike: the address that the first one has reached is
\* that of the bytes read so far, the second one allocates just those bytes, and
\* the third one never writes behind them and fills them (its own check,
\* main.c:1476).
PassesAgree ==
    /\ offset = Uint16(shift + size)
    /\ status \in {"writing", "done"} => totalSize = size /\ Len(buf) <= totalSize
    /\ status = "done" => Len(buf) = totalSize

\* A label means the statement behind it: when the third pass comes to that
\* statement, the bytes it has written are those that the label's address counts
\* from the last @offset, whatever strings, refused lines and other @offsets
\* stand around it.
LabelsPlaced ==
    \A n \in DOMAIN labels :
        /\ labels[n].addr = Uint16(places[n].shift + places[n].position)
        /\ status = "writing" /\ i = places[n].next => Len(buf) = places[n].position

LiesAt(stmnt, position) ==
    SubSeq(buf, position + 1, position + Size(stmnt)) = Bytes(stmnt)

\* Every jump arrives: in the image it is its opcode with the address of the first
\* label of its name, in front of it or behind it, and where this label counts to,
\* whole, are the bytes of the statement behind it.  A jump to no label, or to one
\* at 0xffff, which resolveLabel has for none, goes to 0 (asmCpuInstr, and the third
\* pass of assemble).
JumpsArrive ==
    status = "done" =>
        \A n \in DOMAIN statements :
            statements[n].type = "instruction" /\ statements[n].addr_label # NoLabel =>
                LET target == buf[starts[n] + 1] + 256 * buf[starts[n] + 2]
                                - statements[n].opcode
                    named  == {k \in DOMAIN labels :
                                  labels[k].name = statements[n].addr_label}
                IN  \/ named = {} /\ target = 0
                    \/ \E k \in named :
                          LET address == Uint16(places[k].shift + places[k].position)
                          IN  /\ \A m \in named : k <= m
                              /\ target = IF address = 65535 THEN 0 ELSE address % 4096
                              /\ places[k].next \in DOMAIN statements =>
                                    LiesAt(statements[places[k].next], places[k].position)
=============================================================================
