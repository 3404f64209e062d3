----------------------------- MODULE Assembler -----------------------------
(***************************************************************************)
(* assemble of vras/src/main.c.  A first pass turns the lines into         *)
(* statements and labels, counting in `offset` the RAM address that it has *)
(* reached; a second one adds up the sizes of the statements, for a buffer *)
(* of that many bytes; a third writes their bytes there and fills in the   *)
(* addresses of the labels.  The passes count on their own: that the       *)
(* counts agree is what makes a jump arrive.                               *)
(*                                                                         *)
(* A line is what the tokens that strtok finds say it is: blank (or all    *)
(* comment), a directive, a label, or a mnemonic with its operands.        *)
(***************************************************************************)
EXTENDS AsmEncode

CONSTANT Sources       \* the sequences of lines, preprocessed

VARIABLES source,
          cur,         \* the line the first pass has come to
          offset,
          labels, statements,
          i,           \* the statement that the other passes have come to
          totalSize,   \* the bytes the buffer is allocated for
          buf,         \* the bytes written: the third pass's idx is Len(buf)
          status       \* the pass: "reading", "sizing" or "writing"; then "done",
                       \* or "crashed" on the way

vars == <<source, cur, offset, labels, statements, i, totalSize, buf, status>>

Blank              == [kind |-> "blank"]
OffsetLine(args)   == [kind |-> "@offset", args |-> args]
AsciizLine(indent, items) ==
    [kind |-> "@asciiz", indent |-> indent, items |-> items]
UnquotedLine       == [kind |-> "@asciiz unquoted"]    \* or never closed
BareAsciizLine     == [kind |-> "@asciiz bare"]        \* nothing behind it
OtherDirective     == [kind |-> "@"]
LabelLine(name)    == [kind |-> "label", name |-> name]
CodeLine(mnemonic, args) ==
    [kind |-> "code", mnemonic |-> mnemonic, args |-> args]

\* What stands between the quotes of a string: a character, one behind a
\* backslash, \x with two hex digits or without, or a pair of slashes.
Char(c)   == [char |-> c]
Escape(c) == [escape |-> c]
Hex(n)    == [hex |-> n]
BadHex    == [bad |-> "hex"]
Slashes   == [bad |-> "slashes"]

Item == [char : Byte] \cup [escape : Byte] \cup [hex : Byte] \cup {BadHex, Slashes}

LineType ==
    {Blank, UnquotedLine, BareAsciizLine, OtherDirective}
      \cup [kind : {"@offset"}, args : Seq(Token)]
      \cup [kind : {"@asciiz"}, indent : Nat, items : Seq(Item)]
      \cup [kind : {"label"}, name : Token]
      \cup [kind : {"code"}, mnemonic : STRING, args : Seq(Token)]

ASSUME SourceAssumption == Sources \subseteq Seq(LineType)

Asciiz(string) == [type |-> "asciiz", string |-> string]

Uint16(n) == n % 65536

-----------------------------------------------------------------------------
Advance(bytes) == offset' = Uint16(offset + bytes)

\* A line that leaves no trace: nothing on it, or a message was printed.
Skipped == UNCHANGED <<offset, labels, statements, status>>

BlankLine(line) == line.kind \in {"blank", "@asciiz unquoted", "@"} /\ Skipped

\* Only the address counts from here on; nothing is written up to it.
DirectiveOffset(line) ==
    /\ line.kind = "@offset" /\ line.args # <<>>
    /\ offset' = IF Parses("addr", line.args[1]) THEN line.args[1].num ELSE offset
    /\ UNCHANGED <<labels, statements, status>>

\* ll_get(&tokens, ...)->data of a token that is not there.
NullToken ==
    /\ status' = "crashed"
    /\ UNCHANGED <<offset, labels, statements>>

DirectiveCrashes(line) ==
    /\ \/ line.kind = "@asciiz bare"
       \/ line.kind = "@offset" /\ line.args = <<>>
    /\ NullToken

\* \n, \r and \t; any other character behind a backslash stands for itself.
Escaped(c) ==
    IF c = 110 THEN 10 ELSE IF c = 114 THEN 13 ELSE IF c = 116 THEN 9 ELSE c

ItemByte(item) == IF "char" \in DOMAIN item THEN item.char
                  ELSE IF "hex" \in DOMAIN item THEN item.hex
                  ELSE Escaped(item.escape)

\* A pair of slashes has cut the line off as at a comment, closing quote and all.
Closed(items) == \A n \in DOMAIN items : items[n] # Slashes

\* The items are read up to there.
HasBadHex(items) ==
    \E n \in DOMAIN items : items[n] = BadHex /\ Closed(SubSeq(items, 1, n))

\* The directive is skipped by its length from the start of the line, so that
\* behind any indent the opening quote is not where it is looked for.
QuoteFound(line) == line.kind = "@asciiz" /\ line.indent = 0

\* Mutant: the zero byte behind the string is not counted.
DirectiveAsciiz_NoZero(line) ==
    /\ QuoteFound(line) /\ ~HasBadHex(line.items) /\ Closed(line.items)
    /\ statements' = Append(statements,
                            Asciiz([n \in DOMAIN line.items |-> ItemByte(line.items[n])]))
    /\ Advance(Len(line.items))
    /\ UNCHANGED <<labels, status>>

DirectiveAsciiz(line) ==
    /\ QuoteFound(line) /\ ~HasBadHex(line.items) /\ Closed(line.items)
    /\ statements' = Append(statements,
                            Asciiz([n \in DOMAIN line.items |-> ItemByte(line.items[n])]))
    /\ Advance(Len(line.items) + 1)
    /\ UNCHANGED <<labels, status>>

\* No opening quote, or no closing one.
AsciizRefused(line) ==
    /\ line.kind = "@asciiz"
    /\ \/ ~QuoteFound(line)
       \/ ~HasBadHex(line.items) /\ ~Closed(line.items)
    /\ Skipped

\* The buffer of the string is freed and written to: the address sanitizer that
\* vras is built with stops it there.
AsciizCrashes(line) ==
    /\ QuoteFound(line) /\ HasBadHex(line.items)
    /\ status' = "crashed"
    /\ UNCHANGED <<offset, labels, statements>>

\* Whatever follows the label on its line is dropped.
Label(line) ==
    /\ line.kind = "label"
    /\ labels' = Append(labels, [name |-> line.name, addr |-> offset])
    /\ UNCHANGED <<offset, statements, status>>

Known(line) == line.mnemonic \in DOMAIN instructionFormats
Pattern(line) == instructionFormats[line.mnemonic].pat

\* PAT_SI asks for one operand, and reads two.
Required(pat) == IF pat = "SI" THEN 1 ELSE Len(Operands[pat])

TooFew(line) == Len(line.args) < Required(Pattern(line))
Complete(line) == Len(line.args) >= Len(Operands[Pattern(line)])

\* Operands beyond those of the pattern are not looked at.
Accepted(line) ==
    LET operands == Operands[Pattern(line)]
    IN \A n \in DOMAIN operands : Accepts(operands[n], line.args[n])

\* An unknown mnemonic, an operand too few or one that is none of its kind: the
\* line is dropped (goto err_ne_tok), and the next one takes its address.
CodeRefused(line) ==
    /\ line.kind = "code"
    /\ \/ ~Known(line)
       \/ Known(line) /\ TooFew(line)
       \/ Known(line) /\ Complete(line) /\ ~Accepted(line)
    /\ Skipped

CodeCrashes(line) ==
    /\ line.kind = "code"
    /\ Known(line) /\ ~TooFew(line) /\ ~Complete(line)
    /\ NullToken

Code(line) ==
    /\ line.kind = "code"
    /\ Known(line) /\ Complete(line) /\ Accepted(line)
    /\ statements' = Append(statements, Statement(line.mnemonic, line.args))
    /\ Advance(2)
    /\ UNCHANGED <<labels, status>>

Read ==
    /\ status = "reading" /\ cur \in DOMAIN source
    /\ LET line == source[cur]
       IN \/ BlankLine(line)
          \/ DirectiveOffset(line)
          \/ DirectiveCrashes(line)
          \/ DirectiveAsciiz(line)
          \/ AsciizRefused(line)
          \/ AsciizCrashes(line)
          \/ Label(line)
          \/ CodeRefused(line)
          \/ CodeCrashes(line)
          \/ Code(line)
    /\ cur' = cur + 1
    /\ UNCHANGED <<i, totalSize, buf>>

AllRead ==
    /\ status = "reading" /\ cur \notin DOMAIN source
    /\ status' = "sizing" /\ i' = 1
    /\ UNCHANGED <<cur, offset, labels, statements, totalSize, buf>>

-----------------------------------------------------------------------------
\* Mutant: the zero byte behind a string is forgotten.
Size_NoZero(stmnt) == IF stmnt.type = "asciiz" THEN Len(stmnt.string) ELSE 2

\* The size that the second pass adds for a statement.
Size(stmnt) == IF stmnt.type = "asciiz" THEN Len(stmnt.string) + 1 ELSE 2

SizeUp ==
    /\ status = "sizing" /\ i \in DOMAIN statements
    /\ totalSize' = totalSize + Size(statements[i])
    /\ i' = i + 1
    /\ UNCHANGED <<cur, offset, labels, statements, buf, status>>

AllSized ==
    /\ status = "sizing" /\ i \notin DOMAIN statements
    /\ status' = "writing" /\ i' = 1
    /\ UNCHANGED <<cur, offset, labels, statements, totalSize, buf>>

\* Mutant: the high byte first.
Bytes_HighFirst(stmnt) ==
    IF stmnt.type = "asciiz" THEN stmnt.string \o <<0>>
    ELSE LET w == Uint16(asmCpuInstr(stmnt, labels)) IN <<w \div 256, w % 256>>

\* What the third pass copies for it; a word goes low byte first.
Bytes(stmnt) ==
    IF stmnt.type = "asciiz" THEN stmnt.string \o <<0>>
    ELSE LET w == Uint16(asmCpuInstr(stmnt, labels)) IN <<w % 256, w \div 256>>

Write ==
    /\ status = "writing" /\ i \in DOMAIN statements
    /\ buf' = buf \o Bytes(statements[i])
    /\ i' = i + 1
    /\ UNCHANGED <<cur, offset, labels, statements, totalSize, status>>

AllWritten ==
    /\ status = "writing" /\ i \notin DOMAIN statements
    /\ status' = "done"
    /\ UNCHANGED <<cur, offset, labels, statements, i, totalSize, buf>>

Init ==
    /\ source \in Sources
    /\ cur = 1 /\ offset = 0
    /\ labels = <<>> /\ statements = <<>>
    /\ i = 1 /\ totalSize = 0 /\ buf = <<>>
    /\ status = "reading"

Next ==
    /\ Read \/ AllRead \/ SizeUp \/ AllSized \/ Write \/ AllWritten
    /\ UNCHANGED source

Spec == Init /\ [][Next]_vars

-----------------------------------------------------------------------------
\* What an operand can be stored as: it fits the bits that the encoding has.
FieldRange == [addr |-> Address, imm8 |-> Byte, pid |-> 0..7,
               dest |-> 0..7, src1 |-> 0..7, src2 |-> 0..7]

StatementType ==
    [type : {"asciiz"}, string : Seq(Byte)] \cup
    [type : {"instruction"}, pat : DOMAIN Operands, opcode : Nat,
     fields : {f \in [Fields -> Nat] : \A x \in Fields : f[x] \in FieldRange[x]},
     addr_label : {NoLabel} \cup Token]

\* Every pass keeps to its own lists, an operand is stored as it fits the bits
\* that the encoding has, and all that is written are bytes.
TypeOK ==
    /\ cur \in 1..Len(source) + 1
    /\ offset \in Word
    /\ labels \in Seq([name : Token, addr : Word])
    /\ statements \in Seq(StatementType)
    /\ i \in 1..Len(statements) + 1
    /\ totalSize \in Nat
    /\ buf \in Seq(Byte)
    /\ status \in {"reading", "sizing", "writing", "done", "crashed"}
=============================================================================
