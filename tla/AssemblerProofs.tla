-------------------------- MODULE AssemblerProofs --------------------------
(***************************************************************************)
(* For every source: the lists of the assembler stay well formed, its      *)
(* three passes count the same bytes, and the address that a label gets in *)
(* the first one is where the third one puts the statement behind it.      *)
(***************************************************************************)
EXTENDS Placement, NaturalMinimum, SequenceTheorems

-----------------------------------------------------------------------------
(* What the encoding makes of a line.                                      *)

PatternNames == {"A", "N", "S", "D", "SP", "DP", "DS", "DSS", "DI", "SI", "SDI"}

LEMMA OperandsDomain == DOMAIN Operands = PatternNames
BY DEF Operands, PatternNames

\* The operands of every pattern are fields of struct instruction.
LEMMA OperandsType ==
    ASSUME NEW pat \in DOMAIN Operands
    PROVE  Operands[pat] \in Seq(Fields)
<1>1. {Operands["A"], Operands["S"], Operands["D"]} \subseteq Seq(Fields)
    BY DEF Operands, Fields
<1>2. {Operands["SP"], Operands["DP"], Operands["DS"], Operands["DI"],
       Operands["SI"]} \subseteq Seq(Fields)
    BY DEF Operands, Fields
<1>3. {Operands["DSS"], Operands["SDI"]} \subseteq Seq(Fields)
    BY DEF Operands, Fields
<1>4. Operands["N"] \in Seq(Fields)
    <2>1. Operands["N"] = <<>>
        BY DEF Operands
    <2> QED BY <2>1, EmptySeq
<1> QED BY <1>1, <1>2, <1>3, <1>4, OperandsDomain DEF PatternNames

\* Every format has an opcode and a known pattern.
LEMMA FormatType ==
    ASSUME NEW mnemonic \in DOMAIN instructionFormats
    PROVE  /\ instructionFormats[mnemonic].opcode \in Nat
           /\ instructionFormats[mnemonic].pat \in DOMAIN Operands
<1> DEFINE F == [opcode : Nat, pat : PatternNames]
           I(m) == instructionFormats[m]
<1>1. {I("jmp"), I("call"), I("bltu"), I("bleu"), I("blts"), I("bles"), I("beq"),
       I("bne")} \subseteq F
    BY DEF instructionFormats, Format, PatternNames
<1>2. {I("nop"), I("halt"), I("ret"), I("enzr"), I("dszr")} \subseteq F
    BY DEF instructionFormats, Format, PatternNames
<1>3. {I("push"), I("wrss"), I("wrds"), I("wrsp"), I("pop"), I("rdss"), I("rdds"),
       I("rdsp")} \subseteq F
    BY DEF instructionFormats, Format, PatternNames
<1>4. {I("out"), I("in"), I("mov"), I("not"), I("ldr"), I("str")} \subseteq F
    BY DEF instructionFormats, Format, PatternNames
<1>5. {I("add"), I("sub"), I("adc"), I("sbc"), I("and"), I("or"), I("xor")} \subseteq F
    BY DEF instructionFormats, Format, PatternNames
<1>6. {I("ldi"), I("srldr"), I("srstr"), I("addi")} \subseteq F
    BY DEF instructionFormats, Format, PatternNames
<1>7. DOMAIN instructionFormats =
        {"jmp", "call", "bltu", "bleu", "blts", "bles", "beq", "bne", "nop", "halt",
         "ret", "enzr", "dszr", "push", "wrss", "wrds", "wrsp", "pop", "rdss", "rdds",
         "rdsp", "out", "in", "mov", "not", "ldr", "str", "add", "sub", "adc", "sbc",
         "and", "or", "xor", "ldi", "srldr", "srstr", "addi"}
    BY DEF instructionFormats
<1>8. I(mnemonic) \in F
    <2> HIDE DEF I, F
    <2> QED BY <1>1, <1>2, <1>3, <1>4, <1>5, <1>6, <1>7
<1> QED BY <1>8, OperandsDomain

\* An operand that can be parsed is stored as a number that fits its field.
LEMMA ParsedType ==
    ASSUME NEW field \in Fields, NEW tok \in Token, Parses(field, tok)
    PROVE  Parsed(field, tok) \in FieldRange[field]
<1>1. CASE field \in {"dest", "src1", "src2"}
    BY <1>1 DEF Token, Parses, Parsed, FieldRange, IsReg
<1>2. CASE field = "addr"
    BY <1>2 DEF Token, Parses, Parsed, FieldRange, Numbers, IsReg, IsNum
<1>3. CASE field = "pid"
    BY <1>3 DEF Token, Parses, Parsed, FieldRange, Numbers, IsReg, IsNum
<1>4. CASE field = "imm8"
    BY <1>4 DEF Token, Parses, Parsed, FieldRange, Numbers, IsReg, IsNum, Byte
<1> QED BY <1>1, <1>2, <1>3, <1>4 DEF Fields

\* An address that can be parsed is a 12-bit number.
LEMMA AddressType ==
    ASSUME NEW tok, Parses("addr", tok)
    PROVE  tok.num \in Address
<1>1. Numbers["addr"] = Address
    BY DEF Numbers
<1>2. tok.num \in Numbers["addr"]
    BY DEF Parses
<1> QED BY <1>1, <1>2

\* The statement of an accepted line is well formed.
LEMMA StatementIsTyped ==
    ASSUME NEW mnemonic \in DOMAIN instructionFormats, NEW args \in Seq(Token),
           Len(args) >= Len(Operands[instructionFormats[mnemonic].pat])
    PROVE  Statement(mnemonic, args) \in StatementType
<1> DEFINE pat == instructionFormats[mnemonic].pat
           At(field) == {n \in DOMAIN Operands[pat] :
                            Operands[pat][n] = field /\ Parses(field, args[n])}
           stored == [f \in Fields |-> IF At(f) = {} THEN 0
                                       ELSE Parsed(f, args[CHOOSE n \in At(f) : TRUE])]
           label == IF pat = "A" /\ At("addr") = {} THEN args[1] ELSE NoLabel
<1>1. pat \in DOMAIN Operands /\ instructionFormats[mnemonic].opcode \in Nat
    BY FormatType, Zenon
<1>2. DOMAIN Operands[pat] = 1..Len(Operands[pat]) /\ Len(Operands[pat]) \in Nat
    <2>1. Operands[pat] \in Seq(Fields)
        BY <1>1, OperandsType, Zenon
    <2> QED BY <2>1, LenProperties
<1>3. ASSUME NEW f \in Fields
      PROVE  stored[f] \in FieldRange[f] /\ stored[f] \in Nat
    <2>1. FieldRange[f] \subseteq Nat /\ 0 \in FieldRange[f]
        <3>1. CASE f = "addr"
            BY <3>1 DEF FieldRange, Address
        <3>2. CASE f = "imm8"
            BY <3>2 DEF FieldRange, Byte
        <3>3. CASE f \in {"pid", "dest", "src1", "src2"}
            BY <3>3 DEF FieldRange
        <3> QED BY <3>1, <3>2, <3>3 DEF Fields
    <2>2. CASE At(f) = {}
        BY <2>1, <2>2
    <2>3. CASE At(f) # {}
        <3>1. PICK n \in At(f) : n = (CHOOSE m \in At(f) : TRUE)
            BY <2>3
        <3>2. args[n] \in Token /\ Parses(f, args[n])
            BY <1>2, <3>1, ElementOfSeq, LenProperties
        <3>3. stored[f] = Parsed(f, args[n])
            BY <2>3, <3>1
        <3> QED BY <2>1, <3>2, <3>3, ParsedType
    <2> QED BY <2>2, <2>3
<1>4. stored \in {f \in [Fields -> Nat] : \A x \in Fields : f[x] \in FieldRange[x]}
    BY <1>3
<1>5. label \in {NoLabel} \cup Token
    <2>1. CASE pat = "A"
        <3>1. Len(Operands[pat]) = 1
            BY <2>1 DEF Operands
        <3>2. 1 \in 1..Len(args)
            BY <3>1, LenProperties
        <3> QED BY <3>2, ElementOfSeq
    <2>2. CASE pat # "A"
        BY <2>2
    <2> QED BY <2>1, <2>2
<1>6. Statement(mnemonic, args) =
          [type |-> "instruction", pat |-> pat,
           opcode |-> instructionFormats[mnemonic].opcode,
           fields |-> stored, addr_label |-> label]
    BY DEF Statement
<1> HIDE DEF pat, stored, label
<1> QED BY <1>1, <1>4, <1>5, <1>6 DEF StatementType

\* The characters of a closed string without a bad escape are bytes.
LEMMA ItemByteType ==
    ASSUME NEW item \in Item, item # Slashes, item # BadHex
    PROVE  ItemByte(item) \in Byte
BY DEF Item, ItemByte, Escaped, Slashes, BadHex, Byte

-----------------------------------------------------------------------------
(* A word that is written is two bytes.                                    *)

\* The types of addresses and words, as bounds.
LEMMA AddressBounds ==
    \A a : a \in Address <=> a \in Nat /\ a < 4096
<1>1. PICK n \in Nat : n = 4095
    OBVIOUS
<1>2. Address = 0..n
    BY <1>1 DEF Address
<1>3. \A a : a \in 0..n <=> a \in Nat /\ a < n + 1
    OBVIOUS
<1>4. \A a : a \in Address <=> a \in Nat /\ a < n + 1
    BY <1>2, <1>3
<1> QED BY <1>1, <1>4

LEMMA WordBounds ==
    \A a : a \in Word <=> a \in Nat /\ a < 65536
<1>1. PICK n \in Nat : n = 65535
    OBVIOUS
<1>2. Word = 0..n
    BY <1>1 DEF Word
<1>3. \A a : a \in 0..n <=> a \in Nat /\ a < n + 1
    OBVIOUS
<1>4. \A a : a \in Word <=> a \in Nat /\ a < n + 1
    BY <1>2, <1>3
<1> QED BY <1>1, <1>4

Labels == Seq([name : Token, addr : Word])

LEMMA ResolvedType ==
    ASSUME NEW L \in Labels, NEW name
    PROVE  resolveLabel(L, name) \in Word
<1> DEFINE I == {n \in 1..Len(L) : L[n].name = name}
<1>1. CASE I = {}
    <2>1. resolveLabel(L, name) = 65535
        BY <1>1 DEF resolveLabel, SelectInSubSeq
    <2> QED BY <2>1, WordBounds
<1>2. CASE I # {}
    <2>1. I \subseteq Nat
        BY LenProperties DEF Labels
    <2>2. Min(I) \in 1..Len(L)
        BY <1>2, <2>1, MinIsLeast
    <2>3. L[Min(I)].addr \in Word
        <3>1. L[Min(I)] \in [name : Token, addr : Word]
            <4> HIDE DEF I
            <4> QED BY <2>2, ElementOfSeq DEF Labels
        <3> QED BY <3>1
    <2>4. resolveLabel(L, name) = L[Min(I)].addr
        BY <1>2, <2>2 DEF resolveLabel, SelectInSubSeq, Labels
    <2> QED BY <2>3, <2>4
<1> QED BY <1>1, <1>2

\* Uint16 makes a word of any integer, and of a word itself.
LEMMA Uint16Type ==
    /\ \A n \in Int : Uint16(n) \in Word
    /\ \A n \in Word : Uint16(n) = n
<1>1. \A n \in Int : n % 65536 \in Nat /\ n % 65536 < 65536
    OBVIOUS
<1>2. \A n \in Nat : n < 65536 => n % 65536 = n
    OBVIOUS
<1> QED BY <1>1, <1>2, WordBounds DEF Uint16

\* The word for any well-formed instruction is an integer.
LEMMA EncodedType ==
    ASSUME NEW L \in Labels, NEW s \in StatementType, s.type = "instruction"
    PROVE  asmCpuInstr(s, L) \in Int
<1>1. /\ s.opcode \in Nat /\ s.pat \in PatternNames
      /\ s.fields \in [Fields -> Nat]
    BY OperandsDomain DEF StatementType
<1>2. Target(s, L) \in Nat
    <2>1. s.fields["addr"] \in Nat
        BY <1>1 DEF Fields
    <2>2. resolveLabel(L, s.addr_label) \in Nat
        <3>1. resolveLabel(L, s.addr_label) \in Word
            BY ResolvedType
        <3>2. \A n \in Word : n \in Nat
            BY WordBounds
        <3> QED BY <3>1, <3>2
    <2> QED BY <2>1, <2>2 DEF Target
<1>3. MKC_ADDR(Target(s, L)) \in Nat
    BY <1>2 DEF MKC_ADDR
<1>4. \A n \in Nat : /\ MKC_IMM8(n) \in Nat /\ MKC_DST(n) \in Nat
                     /\ MKC_SRC1(n) \in Nat /\ MKC_SRC2(n) \in Nat
                     /\ MKC_SRC1ALT1(n) \in Nat /\ MKC_SRC1ALT2(n) \in Nat
    BY DEF MKC_IMM8, MKC_DST, MKC_SRC1, MKC_SRC2, MKC_SRC1ALT1, MKC_SRC1ALT2
<1> QED BY <1>1, <1>3, <1>4 DEF asmCpuInstr, PatternNames, Fields

\* What is written for a statement are as many bytes as it was counted for.
LEMMA BytesType ==
    ASSUME labels \in Labels, NEW s \in StatementType
    PROVE  /\ Size(s) \in Nat
           /\ Bytes(s) \in Seq(Byte)
           /\ Len(Bytes(s)) = Size(s)
<1>1. CASE s.type = "asciiz"
    <2>1. s.string \in Seq(Byte)
        BY <1>1 DEF StatementType
    <2>2. <<0>> \in Seq(Byte) /\ Len(<<0>>) = 1
        BY DEF Byte
    <2>3. /\ s.string \o <<0>> \in Seq(Byte)
          /\ Len(s.string \o <<0>>) = Len(s.string) + 1
        BY <2>1, <2>2, ConcatProperties
    <2>4. Len(s.string) \in Nat
        BY <2>1, LenProperties
    <2> QED BY <1>1, <2>3, <2>4 DEF Bytes, Size
<1>2. CASE s.type = "instruction"
    <2> DEFINE w == Uint16(asmCpuInstr(s, labels))
    <2>1. w \in Word
        BY <1>2, EncodedType, Uint16Type
    <2>2. \A n \in Word : n % 256 \in Byte /\ n \div 256 \in Byte
        <3>1. SUFFICES ASSUME NEW n \in Word
                       PROVE  n % 256 \in Byte /\ n \div 256 \in Byte
            OBVIOUS
        <3>2. n \in Nat /\ n < 65536
            BY <3>1, WordBounds
        <3>3. n % 256 \in 0..255
            BY <3>2
        <3>4. n \div 256 \in 0..255
            BY <3>2
        <3> QED BY <3>3, <3>4 DEF Byte
    <2>3. Bytes(s) = <<w % 256, w \div 256>> /\ Size(s) = 2
        BY <1>2 DEF Bytes, Size
    <2>4. \A x, y \in Byte : <<x, y>> \in Seq(Byte) /\ Len(<<x, y>>) = 2
        OBVIOUS
    <2> HIDE DEF w
    <2> QED BY <2>1, <2>2, <2>3, <2>4
<1>3. s.type \in {"asciiz", "instruction"}
    BY DEF StatementType
<1> QED BY <1>1, <1>2, <1>3

-----------------------------------------------------------------------------
(* Type correctness.                                                       *)

\* The lines stay what they are.
Typed == source \in Seq(LineType) /\ TypeOK

LEMMA InitTyped == Init => Typed
<1> SUFFICES ASSUME Init PROVE Typed
    OBVIOUS
<1>1. source \in Seq(LineType)
    BY SourceAssumption DEF Init
<1>2. Len(source) \in Nat
    BY <1>1, LenProperties
<1>3. /\ labels \in Seq([name : Token, addr : Word])
      /\ statements \in Seq(StatementType) /\ Len(statements) = 0
      /\ buf \in Seq(Byte)
    BY EmptySeq DEF Init
<1>4. 0 \in Word
    BY WordBounds
<1> QED BY <1>1, <1>2, <1>3, <1>4 DEF Init, Typed, TypeOK

\* A line has the parts of its kind.
LEMMA LineParts ==
    ASSUME NEW line \in LineType
    PROVE  /\ line.kind = "@offset" => line.args \in Seq(Token)
           /\ line.kind = "@asciiz" => line.items \in Seq(Item)
           /\ line.kind = "label" => line.name \in Token
           /\ line.kind = "code" => line.args \in Seq(Token)
<1> DEFINE Plain    == {Blank, UnquotedLine, BareAsciizLine, OtherDirective}
           Offsets  == [kind : {"@offset"}, args : Seq(Token)]
           Strings  == [kind : {"@asciiz"}, indent : Nat, items : Seq(Item)]
           Named    == [kind : {"label"}, name : Token]
           Coded    == [kind : {"code"}, mnemonic : STRING, args : Seq(Token)]
<1>1. \A l \in Plain : l.kind \notin {"@offset", "@asciiz", "label", "code"}
    <2>1. Blank.kind = "blank" /\ UnquotedLine.kind = "@asciiz unquoted"
        BY DEF Blank, UnquotedLine
    <2>2. BareAsciizLine.kind = "@asciiz bare" /\ OtherDirective.kind = "@"
        BY DEF BareAsciizLine, OtherDirective
    <2> QED BY <2>1, <2>2
<1>2. \A l \in Offsets : l.kind = "@offset" /\ l.args \in Seq(Token)
    OBVIOUS
<1>3. \A l \in Strings : l.kind = "@asciiz" /\ l.items \in Seq(Item)
    OBVIOUS
<1>4. \A l \in Named : l.kind = "label" /\ l.name \in Token
    OBVIOUS
<1>5. \A l \in Coded : l.kind = "code" /\ l.args \in Seq(Token)
    OBVIOUS
<1>6. line \in Plain \cup Offsets \cup Strings \cup Named \cup Coded
    BY DEF LineType
<1> HIDE DEF Plain, Offsets, Strings, Named, Coded
<1> QED BY <1>1, <1>2, <1>3, <1>4, <1>5, <1>6

\* The bytes of a string that is not refused.
LEMMA StringType ==
    ASSUME NEW items \in Seq(Item), ~HasBadHex(items), Closed(items)
    PROVE  [n \in DOMAIN items |-> ItemByte(items[n])] \in Seq(Byte)
<1>1. DOMAIN items = 1..Len(items) /\ Len(items) \in Nat
    BY LenProperties
<1>2. ASSUME NEW n \in 1..Len(items)
      PROVE  ItemByte(items[n]) \in Byte
    <2>1. items[n] \in Item
        BY ElementOfSeq
    <2>2. items[n] # Slashes
        BY <1>1 DEF Closed
    <2>3. items[n] # BadHex
        <3>1. \A m \in 1..n : items[m] \in Item
            BY <1>1, ElementOfSeq
        <3>2. SubSeq(items, 1, n) \in Seq(Item) /\ Len(SubSeq(items, 1, n)) = n
              /\ \A m \in 1..n : SubSeq(items, 1, n)[m] = items[m]
            BY <3>1, SubSeqProperties
        <3>3. DOMAIN SubSeq(items, 1, n) = 1..n
            BY <3>2, LenProperties
        <3>4. Closed(SubSeq(items, 1, n))
            BY <1>1, <3>2, <3>3 DEF Closed
        <3> QED BY <1>1, <3>4 DEF HasBadHex
    <2> QED BY <2>1, <2>2, <2>3, ItemByteType
<1> QED BY <1>1, <1>2

\* What the first pass may do with a line: it leaves the lists as they are,
\* appends a label that has the address reached, or appends a statement and
\* counts its bytes.
Unmarked  == labels' = labels /\ statements' = statements
Marked    == /\ \E name \in Token : labels' = Append(labels, [name |-> name, addr |-> offset])
             /\ UNCHANGED <<offset, statements, status>>
Placed(s) == /\ statements' = Append(statements, s)
             /\ Advance(Size(s)) /\ UNCHANGED <<labels, status>>

LEMMA ReadCases ==
    ASSUME Typed, Read
    PROVE  /\ cur \in 1..Len(source) /\ source[cur] \in LineType /\ cur' = cur + 1
           /\ UNCHANGED <<i, totalSize, buf>>
           /\ \/ Skipped
              \/ Unmarked /\ UNCHANGED offset /\ status' = "crashed"
              \/ DirectiveOffset(source[cur])
              \/ Marked
              \/ \E s \in StatementType : Placed(s)
<1> DEFINE line == source[cur]
<1>1. cur \in 1..Len(source) /\ line \in LineType
    <2>1. DOMAIN source = 1..Len(source)
        BY LenProperties DEF Typed
    <2>2. cur \in 1..Len(source)
        BY <2>1 DEF Read
    <2> QED BY <2>2, ElementOfSeq DEF Typed
<1>2. cur' = cur + 1 /\ UNCHANGED <<i, totalSize, buf>>
    BY DEF Read
<1> HIDE DEF line
<1>3. CASE BlankLine(line) \/ AsciizRefused(line) \/ CodeRefused(line)
    BY <1>1, <1>2, <1>3 DEF BlankLine, AsciizRefused, CodeRefused, line
<1>4. CASE DirectiveCrashes(line) \/ AsciizCrashes(line) \/ CodeCrashes(line)
    BY <1>1, <1>2, <1>4 DEF DirectiveCrashes, AsciizCrashes, CodeCrashes, NullToken,
                           Unmarked, line
<1>5. CASE DirectiveOffset(line)
    BY <1>1, <1>2, <1>5 DEF line
<1>6. CASE DirectiveAsciiz(line)
    <2> DEFINE string == [n \in DOMAIN line.items |-> ItemByte(line.items[n])]
    <2>1. line.items \in Seq(Item) /\ ~HasBadHex(line.items) /\ Closed(line.items)
        BY <1>1, <1>6, LineParts DEF DirectiveAsciiz, QuoteFound
    <2>2. string \in Seq(Byte)
        BY <2>1, StringType
    <2>3. Len(string) = Len(line.items)
        <3>1. DOMAIN string = 1..Len(line.items) /\ Len(line.items) \in Nat
            BY <2>1, LenProperties
        <3> HIDE DEF string
        <3>2. DOMAIN string = 1..Len(string) /\ Len(string) \in Nat
            BY <2>2, LenProperties
        <3> QED BY <3>1, <3>2
    <2>4. Asciiz(string) \in StatementType
        BY <2>2 DEF Asciiz, StatementType
    <2>5. Size(Asciiz(string)) = Len(line.items) + 1
        BY <2>3 DEF Asciiz, Size
    <2>6. Placed(Asciiz(string))
        BY <1>6, <2>5 DEF DirectiveAsciiz, Placed
    <2> QED BY <1>1, <1>2, <2>4, <2>6 DEF line
<1>7. CASE Label(line)
    <2>1. line.name \in Token
        BY <1>1, <1>7, LineParts DEF Label
    <2>2. Marked
        BY <1>7, <2>1 DEF Label, Marked
    <2> QED BY <1>1, <1>2, <2>2 DEF line
<1>8. CASE Code(line)
    <2> DEFINE s == Statement(line.mnemonic, line.args)
    <2>1. line.args \in Seq(Token)
        BY <1>1, <1>8, LineParts DEF Code
    <2>2. /\ line.mnemonic \in DOMAIN instructionFormats
          /\ Len(line.args) >= Len(Operands[instructionFormats[line.mnemonic].pat])
        BY <1>8 DEF Code, Known, Complete, Pattern
    <2>3. s \in StatementType
        BY <2>1, <2>2, StatementIsTyped
    <2>4. Size(s) = 2
        BY DEF Statement, Size
    <2>5. Placed(s)
        BY <1>8, <2>4 DEF Code, Placed
    <2> QED BY <1>1, <1>2, <2>3, <2>5 DEF line
<1> QED BY <1>3, <1>4, <1>5, <1>6, <1>7, <1>8 DEF Read, line

LEMMA NextTyped == Typed /\ [Next]_vars => Typed'
<1> SUFFICES ASSUME Typed, [Next]_vars PROVE Typed'
    OBVIOUS
<1>1. CASE UNCHANGED vars
    BY <1>1 DEF Typed, TypeOK, vars
<1>2. CASE Next
    <2>1. source' = source
        BY <1>2 DEF Next
    <2>2. Len(source) \in Nat /\ Len(statements) \in Nat
        BY LenProperties DEF Typed, TypeOK
    <2>3. CASE Read
        <3>1. /\ cur \in 1..Len(source) /\ cur' = cur + 1 /\ UNCHANGED <<i, totalSize, buf>>
              /\ source[cur] \in LineType
            BY <2>3, ReadCases
        <3>2. cur' \in 1..Len(source') + 1
            BY <2>1, <2>2, <3>1
        <3>3. /\ offset' \in Word /\ labels' \in Labels
              /\ statements' \in Seq(StatementType) /\ Len(statements') >= Len(statements)
              /\ status' \in {"reading", "crashed"}
            <4>0. /\ offset \in Word /\ labels \in Labels /\ status = "reading"
                  /\ statements \in Seq(StatementType)
                BY <2>3 DEF Typed, TypeOK, Labels, Read
            <4>1. CASE Skipped
                BY <2>2, <4>0, <4>1 DEF Skipped
            <4>2. CASE Unmarked /\ UNCHANGED offset /\ status' = "crashed"
                BY <2>2, <4>0, <4>2 DEF Unmarked
            <4>3. CASE DirectiveOffset(source[cur])
                <5>1. offset' \in Word
                    <6>1. \A n \in Address : n \in Word
                        BY AddressBounds, WordBounds
                    <6>2. CASE Parses("addr", source[cur].args[1])
                        <7> DEFINE num == source[cur].args[1].num
                        <7>1. num \in Address
                            BY <6>2, AddressType
                        <7>2. offset' = num
                            BY <4>3, <6>2 DEF DirectiveOffset
                        <7> HIDE DEF num
                        <7> QED BY <6>1, <7>1, <7>2
                    <6>3. CASE ~Parses("addr", source[cur].args[1])
                        BY <4>0, <4>3, <6>3 DEF DirectiveOffset
                    <6> QED BY <6>2, <6>3
                <5> QED BY <2>2, <4>0, <4>3, <5>1 DEF DirectiveOffset
            <4>4. CASE Marked
                <5>1. PICK name \in Token :
                          labels' = Append(labels, [name |-> name, addr |-> offset])
                    BY <4>4 DEF Marked
                <5>2. labels' \in Labels
                    BY <4>0, <5>1, AppendProperties DEF Labels
                <5> QED BY <2>2, <4>0, <4>4, <5>2 DEF Marked
            <4>5. CASE \E s \in StatementType : Placed(s)
                <5>1. PICK s \in StatementType : Placed(s)
                    BY <4>5
                <5>2. /\ statements' \in Seq(StatementType)
                      /\ Len(statements') = Len(statements) + 1
                    BY <4>0, <5>1, AppendProperties DEF Placed
                <5>3. offset' \in Word
                    <6>1. offset + Size(s) \in Int
                        BY <4>0, BytesType, WordBounds
                    <6> QED BY <5>1, <6>1, Uint16Type DEF Placed, Advance
                <5> QED BY <2>2, <4>0, <5>1, <5>2, <5>3 DEF Placed
            <4> QED BY <2>3, <4>1, <4>2, <4>3, <4>4, <4>5, ReadCases
        <3>4. Len(statements') \in Nat
            BY <3>3, LenProperties
        <3>5. i' \in 1..Len(statements') + 1
            BY <2>2, <3>1, <3>3, <3>4 DEF Typed, TypeOK
        <3> QED BY <2>1, <3>1, <3>2, <3>3, <3>5 DEF Typed, TypeOK, Labels
    <2>4. CASE AllRead
        BY <2>1, <2>2, <2>4 DEF AllRead, Typed, TypeOK
    <2>5. CASE SizeUp
        <3>1. i \in 1..Len(statements) /\ statements[i] \in StatementType
            BY <2>5, LenProperties, ElementOfSeq DEF SizeUp, Typed, TypeOK
        <3>2. Size(statements[i]) \in Nat
            BY <3>1, BytesType DEF Typed, TypeOK, Labels
        <3>3. totalSize' \in Nat /\ i' \in 1..Len(statements) + 1
            BY <2>2, <2>5, <3>1, <3>2 DEF SizeUp, Typed, TypeOK
        <3> QED BY <2>1, <2>5, <3>3 DEF SizeUp, Typed, TypeOK
    <2>6. CASE AllSized
        BY <2>1, <2>2, <2>6 DEF AllSized, Typed, TypeOK
    <2>7. CASE Write
        <3>1. i \in 1..Len(statements) /\ statements[i] \in StatementType
            BY <2>7, LenProperties, ElementOfSeq DEF Write, Typed, TypeOK
        <3>2. Bytes(statements[i]) \in Seq(Byte)
            BY <3>1, BytesType DEF Typed, TypeOK, Labels
        <3>3. buf' \in Seq(Byte)
            BY <2>7, <3>2, ConcatProperties DEF Write, Typed, TypeOK
        <3>4. i' \in 1..Len(statements) + 1
            BY <2>2, <2>7, <3>1 DEF Write
        <3> QED BY <2>1, <2>7, <3>3, <3>4 DEF Write, Typed, TypeOK
    <2>8. CASE AllWritten
        BY <2>1, <2>8 DEF AllWritten, Typed, TypeOK
    <2> QED BY <1>2, <2>3, <2>4, <2>5, <2>6, <2>7, <2>8 DEF Next
<1> QED BY <1>1, <1>2

\* Whatever the source: an operand is stored as a number that fits its field, a
\* string is bytes, an address is a uint16_t and every byte that is written is one.
THEOREM TypeCorrect == Spec => []TypeOK
<1>1. Spec => []Typed
    BY InitTyped, NextTyped, PTL DEF Spec
<1>2. Typed => TypeOK
    BY DEF Typed
<1> QED BY <1>1, <1>2, PTL

-----------------------------------------------------------------------------
(* The counts of the three passes.                                         *)

\* Where statement n begins, or would begin if there were one more.
StartOf(n) == IF n \in 1..Len(statements) THEN starts[n] ELSE size

\* What the history says: the statements lie one behind the other.
Contiguous ==
    /\ size \in Nat /\ shift \in Int
    /\ starts \in Seq(Nat) /\ Len(starts) = Len(statements)
    /\ StartOf(1) = 0
    /\ \A n \in 1..Len(statements) :
          /\ starts[n] <= size
          /\ StartOf(n + 1) = starts[n] + Size(statements[n])

\* What each pass has counted when it has come to statement i.
Counted ==
    /\ offset = Uint16(shift + size)
    /\ status = "reading" => totalSize = 0 /\ Len(buf) = 0
    /\ status = "sizing" => totalSize = StartOf(i) /\ Len(buf) = 0
    /\ status = "writing" => totalSize = size /\ Len(buf) = StartOf(i)
    /\ status = "done" => totalSize = size /\ Len(buf) = size

Place == [next : Nat, position : Nat, shift : Int]

\* A label's place is where the statement behind it begins.
Marks ==
    /\ places \in Seq(Place) /\ Len(places) = Len(labels)
    /\ \A n \in 1..Len(labels) :
          /\ places[n].next \in 1..Len(statements) + 1
          /\ places[n].position = StartOf(places[n].next)
          /\ labels[n].addr = Uint16(places[n].shift + places[n].position)

PlacementInv == Typed /\ Contiguous /\ Counted /\ Marks

LEMMA InitPlaced == PlacementInit => Contiguous /\ Counted /\ Marks
<1> SUFFICES ASSUME PlacementInit PROVE Contiguous /\ Counted /\ Marks
    OBVIOUS
<1>1. /\ statements = <<>> /\ labels = <<>> /\ buf = <<>> /\ starts = <<>> /\ places = <<>>
      /\ size = 0 /\ shift = 0 /\ offset = 0 /\ totalSize = 0 /\ status = "reading"
    BY DEF PlacementInit, Init
<1>2. Len(<<>>) = 0
    BY EmptySeq
<1>3. starts \in Seq(Nat) /\ places \in Seq(Place)
    BY <1>1, EmptySeq
<1>4. StartOf(1) = 0
    BY <1>1, <1>2 DEF StartOf
<1>5. Contiguous
    BY <1>1, <1>2, <1>3, <1>4 DEF Contiguous
<1>6. Counted
    BY <1>1, <1>2 DEF Counted, Uint16
<1>7. Marks
    BY <1>1, <1>2, <1>3 DEF Marks
<1> QED BY <1>5, <1>6, <1>7

\* Steps that read no line leave the history alone, and with it the starts.
LEMMA StartsStay ==
    ASSUME UNCHANGED <<statements, labels, offset, size, starts, shift, places>>
    PROVE  /\ Contiguous => Contiguous'
           /\ Marks => Marks'
           /\ \A n : StartOf(n)' = StartOf(n)
<1>1. \A n : StartOf(n)' = StartOf(n)
    BY DEF StartOf
<1>2. Contiguous => Contiguous'
    BY <1>1 DEF Contiguous, StartOf, Size
<1>3. Marks => Marks'
    BY <1>1 DEF Marks, StartOf, Uint16
<1> QED BY <1>1, <1>2, <1>3

\* A statement is appended: it begins where the others end.
LEMMA AppendContiguous ==
    ASSUME Typed, Contiguous, NEW s \in StatementType,
           statements' = Append(statements, s), size' = size + Size(s),
           starts' = Append(starts, size), shift' \in Int
    PROVE  /\ Contiguous'
           /\ \A n \in 1..Len(statements) + 1 : StartOf(n)' = StartOf(n)
<1>1. /\ statements \in Seq(StatementType) /\ Len(statements) \in Nat
      /\ size \in Nat /\ Size(s) \in Nat /\ starts \in Seq(Nat)
      /\ Len(starts) = Len(statements)
    BY LenProperties, BytesType DEF Typed, TypeOK, Contiguous, Labels
<1>2. /\ Len(statements') = Len(statements) + 1
      /\ statements'[Len(statements) + 1] = s
      /\ \A n \in 1..Len(statements) : statements'[n] = statements[n]
    BY <1>1, AppendProperties
<1>3. /\ starts' \in Seq(Nat) /\ Len(starts') = Len(statements) + 1
      /\ starts'[Len(statements) + 1] = size
      /\ \A n \in 1..Len(statements) : starts'[n] = starts[n]
    BY <1>1, AppendProperties
<1>4. size' \in Nat /\ size <= size'
    BY <1>1
<1>5. \A n \in 1..Len(statements) + 1 : StartOf(n)' = StartOf(n)
    <2>1. SUFFICES ASSUME NEW n \in 1..Len(statements) + 1
                   PROVE  StartOf(n)' = StartOf(n)
        OBVIOUS
    <2>2. StartOf(n)' = starts'[n]
        BY <1>2, <2>1 DEF StartOf
    <2>3. CASE n = Len(statements) + 1
        BY <1>1, <1>3, <2>2, <2>3 DEF StartOf
    <2>4. CASE n \in 1..Len(statements)
        BY <1>3, <2>2, <2>4 DEF StartOf
    <2> QED BY <1>1, <2>1, <2>3, <2>4
<1>6. ASSUME NEW n \in 1..Len(statements')
      PROVE  starts'[n] <= size' /\ StartOf(n + 1)' = starts'[n] + Size(statements'[n])
    <2>1. CASE n = Len(statements) + 1
        <3>1. StartOf(n + 1)' = size'
            BY <1>1, <1>2, <2>1 DEF StartOf
        <3> QED BY <1>1, <1>2, <1>3, <1>4, <2>1, <3>1
    <2>2. CASE n \in 1..Len(statements)
        <3>1. StartOf(n + 1)' = StartOf(n + 1)
            BY <1>1, <1>5, <2>2
        <3>2. starts[n] <= size /\ StartOf(n + 1) = starts[n] + Size(statements[n])
            BY <2>2 DEF Contiguous
        <3>3. starts[n] \in Nat
            BY <1>1, <2>2, ElementOfSeq
        <3>4. starts'[n] <= size'
            BY <1>1, <1>3, <1>4, <2>2, <3>2, <3>3
        <3> QED BY <1>2, <1>3, <2>2, <3>1, <3>2, <3>4
    <2> QED BY <1>1, <1>2, <2>1, <2>2
<1>7. StartOf(1)' = 0
    BY <1>1, <1>5 DEF Contiguous
<1>8. \A n \in 1..Len(statements') :
          starts'[n] <= size' /\ StartOf(n + 1)' = starts'[n] + Size(statements'[n])
    BY <1>6
<1>9. Contiguous'
    BY <1>2, <1>3, <1>4, <1>7, <1>8 DEF Contiguous, Size
<1> QED BY <1>5, <1>9

\* Counting on from an address that has wrapped is counting on from any other.
LEMMA Uint16Adds ==
    ASSUME NEW a \in Int, NEW b \in Nat
    PROVE  Uint16(Uint16(a) + b) = Uint16(a + b)
BY DEF Uint16

\* Only @offset sets the address, and it does nothing else.
LEMMA SetsOffset ==
    ASSUME Read, Sets(source[cur])
    PROVE  /\ offset' = source[cur].args[1].num /\ source[cur].args[1].num \in Address
           /\ UNCHANGED <<labels, statements, status>>
<1> DEFINE line == source[cur]
<1>1. line.kind = "@offset" /\ line.args # <<>> /\ Parses("addr", line.args[1])
    BY DEF Sets
<1> HIDE DEF line
<1>2. DirectiveOffset(line)
    BY <1>1 DEF Read, line, BlankLine, DirectiveCrashes, DirectiveAsciiz, AsciizRefused,
                AsciizCrashes, Label, CodeRefused, CodeCrashes, Code, QuoteFound
<1>3. line.args[1].num \in Address
    BY <1>1, AddressType
<1> QED BY <1>1, <1>2, <1>3 DEF DirectiveOffset, line

LEMMA ReadPlaced ==
    ASSUME PlacementInv, Read, Recorded
    PROVE  Contiguous' /\ Counted' /\ Marks'
<1>1. /\ cur' = cur + 1 /\ UNCHANGED <<i, totalSize, buf>> /\ source[cur] \in LineType
    BY ReadCases DEF PlacementInv
<1>2. /\ status = "reading" /\ offset = Uint16(shift + size)
      /\ totalSize = 0 /\ Len(buf) = 0
    BY DEF Read, PlacementInv, Counted
<1>3. /\ labels \in Labels /\ Len(labels) \in Nat /\ offset \in Word
      /\ statements \in Seq(StatementType) /\ Len(statements) \in Nat
    BY LenProperties DEF PlacementInv, Typed, TypeOK, Labels
<1>4. /\ size \in Nat /\ shift \in Int /\ StartOf(Len(statements) + 1) = size
      /\ places \in Seq(Place) /\ Len(places) = Len(labels)
    BY <1>3 DEF PlacementInv, Contiguous, Marks, StartOf
<1>5. CASE Sets(source[cur])
    <2> DEFINE num == source[cur].args[1].num
    <2>1. offset' = num /\ num \in Address /\ UNCHANGED <<labels, statements, status>>
        BY <1>5, SetsOffset
    <2>2. UNCHANGED <<size, starts, places>> /\ shift' = num - size
        BY <1>5, <2>1 DEF Recorded
    <2> HIDE DEF num
    <2>3. num \in Int /\ Uint16(num) = num
        BY <2>1 DEF Address, Uint16
    <2>4. \A n : StartOf(n)' = StartOf(n)
        BY <2>1, <2>2 DEF StartOf
    <2>5. Contiguous'
        BY <1>4, <2>1, <2>2, <2>3, <2>4 DEF PlacementInv, Contiguous, StartOf, Size
    <2>6. offset' = Uint16(shift' + size')
        BY <1>4, <2>1, <2>2, <2>3
    <2>7. Counted'
        BY <1>1, <1>2, <2>1, <2>6 DEF Counted, Uint16
    <2>8. Marks'
        BY <2>1, <2>2, <2>4 DEF PlacementInv, Marks, StartOf, Uint16
    <2> QED BY <2>5, <2>7, <2>8
<1>6. CASE ~Sets(source[cur])
    <2>1. shift' = shift
        BY <1>6 DEF Recorded
    <2>2. CASE Unmarked /\ UNCHANGED offset /\ status' \in {"reading", "crashed"}
        <3>1. UNCHANGED <<statements, labels, offset, size, starts, shift, places>>
            BY <2>1, <2>2 DEF Unmarked, Recorded
        <3>2. Contiguous' /\ Marks'
            BY <3>1, StartsStay DEF PlacementInv
        <3>3. Counted'
            BY <1>1, <1>2, <2>2, <3>1 DEF Counted, Uint16
        <3> QED BY <3>2, <3>3
    <2>3. CASE Marked
        <3> DEFINE place == [next |-> Len(statements) + 1, position |-> size, shift |-> shift]
        <3>1. PICK name \in Token :
                  labels' = Append(labels, [name |-> name, addr |-> offset])
            BY <2>3 DEF Marked
        <3>2. UNCHANGED <<offset, statements, status>>
            BY <2>3 DEF Marked
        <3>3. /\ Len(labels') = Len(labels) + 1
              /\ labels'[Len(labels) + 1].addr = offset
              /\ \A n \in 1..Len(labels) : labels'[n] = labels[n]
            BY <1>3, <3>1, AppendProperties DEF Labels
        <3>4. places' = Append(places, place) /\ UNCHANGED <<size, starts>>
            BY <1>3, <3>2, <3>3 DEF Recorded
        <3>5. place \in Place
            BY <1>3, <1>4 DEF Place
        <3>6. /\ place.next = Len(statements) + 1 /\ place.position = size
              /\ place.shift = shift
            OBVIOUS
        <3> HIDE DEF place
        <3>7. /\ places' \in Seq(Place) /\ Len(places') = Len(labels) + 1
              /\ places'[Len(labels) + 1] = place
              /\ \A n \in 1..Len(labels) : places'[n] = places[n]
            BY <1>4, <3>4, <3>5, AppendProperties
        <3>8. \A n : StartOf(n)' = StartOf(n)
            BY <3>2, <3>4 DEF StartOf
        <3>9. Contiguous'
            BY <1>4, <2>1, <3>2, <3>4, <3>8 DEF PlacementInv, Contiguous, StartOf, Size
        <3>10. Counted'
            BY <1>1, <1>2, <2>1, <3>2, <3>4 DEF Counted, Uint16
        <3>11. ASSUME NEW n \in 1..Len(labels')
               PROVE  /\ places'[n].next \in 1..Len(statements') + 1
                      /\ places'[n].position = StartOf(places'[n].next)
                      /\ labels'[n].addr = Uint16(places'[n].shift + places'[n].position)
            <4>1. CASE n = Len(labels) + 1
                BY <1>2, <1>3, <1>4, <3>2, <3>3, <3>6, <3>7, <4>1
            <4>2. CASE n \in 1..Len(labels)
                BY <3>2, <3>3, <3>7, <4>2 DEF PlacementInv, Marks
            <4> QED BY <1>3, <3>3, <4>1, <4>2
        <3>12. Marks'
            BY <3>3, <3>7, <3>8, <3>11 DEF Marks, StartOf, Uint16
        <3> QED BY <3>9, <3>10, <3>12
    <2>4. CASE \E s \in StatementType : Placed(s)
        <3>1. PICK s \in StatementType : Placed(s)
            BY <2>4
        <3>2. /\ statements' = Append(statements, s) /\ UNCHANGED <<labels, status>>
              /\ offset' = Uint16(offset + Size(s))
            BY <3>1 DEF Placed, Advance
        <3>3. /\ Len(statements') = Len(statements) + 1
              /\ statements'[Len(statements')] = s
            BY <1>3, <3>2, AppendProperties
        <3>4. size' = size + Size(s) /\ starts' = Append(starts, size) /\ places' = places
            BY <1>3, <3>2, <3>3 DEF Recorded
        <3>5. /\ Contiguous'
              /\ \A n \in 1..Len(statements) + 1 : StartOf(n)' = StartOf(n)
            BY <1>4, <2>1, <3>2, <3>4, AppendContiguous DEF PlacementInv
        <3>6. Size(s) \in Nat
            BY <1>3, BytesType
        <3>7. offset' = Uint16(shift' + size')
            <4>1. offset' = Uint16((shift + size) + Size(s))
                <5>1. shift + size \in Int
                    BY <1>4
                <5> QED BY ONLY <1>2, <3>2, <3>6, <5>1, Uint16Adds
            <4> QED BY <1>4, <2>1, <3>4, <3>6, <4>1
        <3>8. Counted'
            BY <1>1, <1>2, <3>2, <3>7 DEF Counted, Uint16
        <3>9. ASSUME NEW n \in 1..Len(labels)
              PROVE  /\ places[n].next \in 1..Len(statements') + 1
                     /\ places[n].position = StartOf(places[n].next)'
                     /\ labels[n].addr = Uint16(places[n].shift + places[n].position)
            <4>1. /\ places[n].next \in 1..Len(statements) + 1
                  /\ places[n].position = StartOf(places[n].next)
                  /\ labels[n].addr = Uint16(places[n].shift + places[n].position)
                BY DEF PlacementInv, Marks
            <4>2. places'[n] = places[n]
                BY <3>4
            <4>3. StartOf(places[n].next)' = StartOf(places[n].next)
                BY <3>5, <4>1, <4>2
            <4> QED BY <1>3, <3>3, <4>1, <4>3
        <3>10. Marks'
            BY <1>4, <3>2, <3>4, <3>9 DEF Marks, Uint16
        <3> QED BY <3>5, <3>8, <3>10
    <2>5. \/ Unmarked /\ UNCHANGED offset /\ status' \in {"reading", "crashed"}
          \/ Marked \/ \E s \in StatementType : Placed(s)
        <3>1. DirectiveOffset(source[cur]) => Unmarked /\ UNCHANGED <<offset, status>>
            BY <1>6 DEF DirectiveOffset, Sets, Unmarked
        <3>2. Skipped => Unmarked /\ UNCHANGED <<offset, status>>
            BY DEF Skipped, Unmarked
        <3> QED BY <1>2, <3>1, <3>2, ReadCases DEF PlacementInv
    <2> QED BY <2>2, <2>3, <2>4, <2>5
<1> QED BY <1>5, <1>6

\* The other passes leave what was read alone.
LEMMA OtherPlaced ==
    ASSUME PlacementInv, AllRead \/ SizeUp \/ AllSized \/ Write \/ AllWritten,
           UNCHANGED <<size, starts, shift, places>>
    PROVE  Contiguous' /\ Counted' /\ Marks'
<1>1. UNCHANGED <<statements, labels, offset, size, starts, shift, places>>
    BY DEF AllRead, SizeUp, AllSized, Write, AllWritten
<1>2. Contiguous' /\ Marks' /\ \A n : StartOf(n)' = StartOf(n)
    BY <1>1, StartsStay DEF PlacementInv
<1>3. /\ statements \in Seq(StatementType) /\ DOMAIN statements = 1..Len(statements)
      /\ Len(statements) \in Nat /\ i \in 1..Len(statements) + 1
      /\ labels \in Labels /\ buf \in Seq(Byte)
    BY LenProperties DEF PlacementInv, Typed, TypeOK, Labels
<1>4. StartOf(1) = 0
    BY DEF PlacementInv, Contiguous
<1>5. offset' = Uint16(shift' + size')
    BY <1>1 DEF PlacementInv, Counted, Uint16
<1>6. i \in 1..Len(statements) =>
          /\ statements[i] \in StatementType
          /\ StartOf(i) + Size(statements[i]) = StartOf(i + 1)
    BY <1>3, ElementOfSeq DEF PlacementInv, Contiguous, StartOf
<1>7. i \notin 1..Len(statements) => StartOf(i) = size
    BY DEF StartOf
<1>8. StartOf(i)' = StartOf(i')
    BY <1>1 DEF StartOf
<1>9. CASE AllRead
    <2>1. totalSize' = StartOf(i)' /\ Len(buf') = 0
        BY <1>4, <1>8, <1>9 DEF AllRead, PlacementInv, Counted
    <2> QED BY <1>2, <1>5, <1>9, <2>1 DEF AllRead, Counted
<1>10. CASE SizeUp
    <2>1. totalSize' = StartOf(i)' /\ Len(buf') = 0
        BY <1>8, <1>3, <1>6, <1>10 DEF SizeUp, PlacementInv, Counted
    <2> QED BY <1>5, <1>2, <1>10, <2>1 DEF SizeUp, Counted
<1>11. CASE AllSized
    <2>1. totalSize' = size' /\ Len(buf') = StartOf(i)'
        BY <1>1, <1>8, <1>3, <1>4, <1>7, <1>11 DEF AllSized, PlacementInv, Counted
    <2> QED BY <1>5, <1>2, <1>11, <2>1 DEF AllSized, Counted
<1>12. CASE Write
    <2>1. i \in 1..Len(statements) /\ i' = i + 1 /\ buf' = buf \o Bytes(statements[i])
        BY <1>3, <1>12 DEF Write
    <2>2. /\ Bytes(statements[i]) \in Seq(Byte)
          /\ Len(Bytes(statements[i])) = Size(statements[i])
        BY <1>3, <1>6, <2>1, BytesType
    <2>3. Len(buf') = Len(buf) + Size(statements[i])
        BY <1>3, <2>1, <2>2, ConcatProperties
    <2>4. Len(buf) = StartOf(i) /\ totalSize = size
        BY <1>12 DEF Write, PlacementInv, Counted
    <2>5. Len(buf') = StartOf(i + 1)
        BY <1>6, <2>1, <2>3, <2>4
    <2>6. Len(buf') = StartOf(i)'
        BY <1>8, <2>1, <2>5
    <2> QED BY <1>1, <1>2, <1>5, <1>12, <2>4, <2>6 DEF Write, Counted
<1>13. CASE AllWritten
    <2>1. totalSize' = size' /\ Len(buf') = size'
        BY <1>1, <1>3, <1>7, <1>13 DEF AllWritten, PlacementInv, Counted
    <2> QED BY <1>5, <1>2, <1>13, <2>1 DEF AllWritten, Counted
<1> QED BY <1>9, <1>10, <1>11, <1>12, <1>13

LEMMA PlacementInvariant == PlacementSpec => []PlacementInv
<1>1. PlacementInit => PlacementInv
    BY InitPlaced, InitTyped DEF PlacementInit, PlacementInv
<1>2. PlacementInv /\ [PlacementNext]_placementVars => PlacementInv'
    <2> SUFFICES ASSUME PlacementInv, [PlacementNext]_placementVars
                 PROVE  PlacementInv'
        OBVIOUS
    <2>1. Typed'
        BY NextTyped DEF PlacementInv, PlacementNext, placementVars
    <2>2. CASE UNCHANGED placementVars
        <3>1. UNCHANGED <<vars, statements, labels, offset, size, starts, shift, places>>
            BY <2>2 DEF placementVars, vars
        <3>2. Contiguous' /\ Marks' /\ \A n : StartOf(n)' = StartOf(n)
            BY <3>1, StartsStay DEF PlacementInv
        <3>3. Counted'
            BY <3>1, <3>2 DEF PlacementInv, Counted, Uint16, vars
        <3> QED BY <2>1, <3>2, <3>3 DEF PlacementInv
    <2>3. CASE PlacementNext
        <3>1. CASE Read
            <4>1. cur' # cur
                BY <3>1, ReadCases DEF PlacementInv
            <4>2. Recorded
                BY <2>3, <4>1 DEF PlacementNext
            <4> QED BY <2>1, <3>1, <4>2, ReadPlaced DEF PlacementInv
        <3>2. CASE AllRead \/ SizeUp \/ AllSized \/ Write \/ AllWritten
            <4>1. cur' = cur
                BY <3>2 DEF AllRead, SizeUp, AllSized, Write, AllWritten
            <4>2. UNCHANGED <<size, starts, shift, places>>
                BY <2>3, <4>1 DEF PlacementNext
            <4> QED BY <2>1, <3>2, <4>2, OtherPlaced DEF PlacementInv
        <3> QED BY <2>3, <3>1, <3>2 DEF PlacementNext, Next
    <2> QED BY <2>2, <2>3
<1> QED BY <1>1, <1>2, PTL DEF PlacementSpec

\* Whatever the source: the first pass's address, the second pass's size and the
\* bytes of the third are the same count, and the third never writes behind the
\* buffer that the second one allocated.
THEOREM PassesAlwaysAgree == PlacementSpec => []PassesAgree
<1>1. PlacementInv => PassesAgree
    <2> SUFFICES ASSUME PlacementInv PROVE PassesAgree
        OBVIOUS
    <2>1. offset = Uint16(shift + size)
        BY DEF PlacementInv, Counted
    <2>2. CASE status = "writing"
        <3>1. i \in 1..Len(statements) => starts[i] <= size
            BY DEF PlacementInv, Contiguous
        <3>2. StartOf(i) <= size
            BY <3>1 DEF StartOf, PlacementInv, Contiguous
        <3> QED BY <2>1, <2>2, <3>2 DEF PlacementInv, Counted, PassesAgree
    <2>3. CASE status = "done"
        BY <2>1, <2>3 DEF PlacementInv, Contiguous, Counted, PassesAgree
    <2>4. CASE status \notin {"writing", "done"}
        BY <2>1, <2>4 DEF PassesAgree
    <2> QED BY <2>2, <2>3, <2>4
<1> QED BY <1>1, PlacementInvariant, PTL

\* Whatever the source: when the third pass comes to the statement behind a label,
\* it has written the bytes that the label's address counts.
THEOREM LabelsAlwaysPlaced == PlacementSpec => []LabelsPlaced
<1>1. PlacementInv => LabelsPlaced
    <2> SUFFICES ASSUME PlacementInv, NEW n \in DOMAIN labels
                 PROVE  /\ labels[n].addr = Uint16(places[n].shift + places[n].position)
                        /\ status = "writing" /\ i = places[n].next =>
                               Len(buf) = places[n].position
        BY DEF LabelsPlaced
    <2>1. n \in 1..Len(labels)
        BY LenProperties DEF PlacementInv, Typed, TypeOK
    <2>2. /\ labels[n].addr = Uint16(places[n].shift + places[n].position)
          /\ places[n].position = StartOf(places[n].next)
        BY <2>1 DEF PlacementInv, Marks
    <2>3. status = "writing" => Len(buf) = StartOf(i)
        BY DEF PlacementInv, Counted
    <2> QED BY <2>2, <2>3
<1> QED BY <1>1, PlacementInvariant, PTL

-----------------------------------------------------------------------------
(* The image: where the bytes of the statements are, and where jumps go.   *)

\* What is appended to a sequence does not change what was there, and is found
\* behind it.
LEMMA PrefixKept ==
    ASSUME NEW s \in Seq(Byte), NEW t \in Seq(Byte), NEW m \in Nat, NEW n \in Nat,
           n <= Len(s)
    PROVE  SubSeq(s \o t, m + 1, n) = SubSeq(s, m + 1, n)
<1>1. Len(s) \in Nat /\ Len(t) \in Nat
    BY LenProperties
<1> QED BY <1>1

LEMMA SuffixFound ==
    ASSUME NEW s \in Seq(Byte), NEW t \in Seq(Byte)
    PROVE  SubSeq(s \o t, Len(s) + 1, Len(s) + Len(t)) = t
<1>1. Len(s) \in Nat /\ Len(t) \in Nat
    BY LenProperties
<1> QED BY <1>1

\* The two bytes of a word, put together again.
LEMMA WordOfTwo ==
    ASSUME NEW w \in Nat
    PROVE  (w % 256) + 256 * (w \div 256) = w
OBVIOUS

\* The statements that name a label are jumps, whose opcode leaves the address free.
JumpForm(s) ==
    s.type = "instruction" /\ s.addr_label # NoLabel =>
        s.pat = "A" /\ s.opcode \in Nat /\ s.opcode <= 28672

LEMMA JumpOpcodes ==
    ASSUME NEW mnemonic \in DOMAIN instructionFormats,
           instructionFormats[mnemonic].pat = "A"
    PROVE  /\ instructionFormats[mnemonic].opcode \in Nat
           /\ instructionFormats[mnemonic].opcode <= 28672
<1> DEFINE I(m) == instructionFormats[m]
           F == [opcode : Nat, pat : {"A"}]
           Small(m) == I(m).opcode <= 28672
           G(m) == I(m).pat # "A"
<1>1. Small("jmp") /\ Small("call") /\ Small("bltu") /\ Small("bleu") /\ Small("blts")
      /\ Small("bles") /\ Small("beq") /\ Small("bne")
    BY DEF instructionFormats, Format
<1>2. G("nop") /\ G("halt") /\ G("ret") /\ G("enzr") /\ G("dszr") /\ G("push")
      /\ G("wrss") /\ G("wrds") /\ G("wrsp") /\ G("pop") /\ G("rdss") /\ G("rdds")
      /\ G("rdsp")
    BY DEF instructionFormats, Format
<1>3. G("out") /\ G("in") /\ G("mov") /\ G("not") /\ G("ldr") /\ G("str") /\ G("add")
      /\ G("sub") /\ G("adc") /\ G("sbc") /\ G("and") /\ G("or") /\ G("xor")
    BY DEF instructionFormats, Format
<1>4. G("ldi") /\ G("srldr") /\ G("srstr") /\ G("addi")
    BY DEF instructionFormats, Format
<1>5. DOMAIN instructionFormats =
        {"jmp", "call", "bltu", "bleu", "blts", "bles", "beq", "bne", "nop", "halt",
         "ret", "enzr", "dszr", "push", "wrss", "wrds", "wrsp", "pop", "rdss", "rdds",
         "rdsp", "out", "in", "mov", "not", "ldr", "str", "add", "sub", "adc", "sbc",
         "and", "or", "xor", "ldi", "srldr", "srstr", "addi"}
    BY DEF instructionFormats
<1>6. ~G(mnemonic)
    OBVIOUS
<1>7. Small(mnemonic)
    <2> HIDE DEF G, Small, I
    <2> QED BY <1>1, <1>2, <1>3, <1>4, <1>5, <1>6
<1> QED BY <1>7, FormatType

LEMMA StatementForm ==
    ASSUME NEW mnemonic \in DOMAIN instructionFormats, NEW args
    PROVE  JumpForm(Statement(mnemonic, args))
<1> DEFINE s == Statement(mnemonic, args)
<1>1. /\ s.pat = instructionFormats[mnemonic].pat
      /\ s.opcode = instructionFormats[mnemonic].opcode
    BY DEF Statement
<1>2. s.addr_label # NoLabel => s.pat = "A"
    BY DEF Statement
<1> HIDE DEF s
<1>3. JumpForm(s)
    BY <1>1, <1>2, JumpOpcodes DEF JumpForm
<1> QED BY <1>3 DEF s

\* What reading a line leaves behind has this form.
LEMMA ReadForms ==
    ASSUME Read
    PROVE  \/ statements' = statements
           \/ \E s : JumpForm(s) /\ statements' = Append(statements, s)
<1> DEFINE line == source[cur]
<1>1. CASE DirectiveAsciiz(line)
    <2> DEFINE string == [n \in DOMAIN line.items |-> ItemByte(line.items[n])]
    <2>1. statements' = Append(statements, Asciiz(string))
        BY <1>1 DEF DirectiveAsciiz
    <2>2. JumpForm(Asciiz(string))
        BY DEF JumpForm, Asciiz
    <2> QED BY <2>1, <2>2
<1>2. CASE Code(line)
    <2>1. line.mnemonic \in DOMAIN instructionFormats
        BY <1>2 DEF Code, Known
    <2>2. statements' = Append(statements, Statement(line.mnemonic, line.args))
        BY <1>2 DEF Code
    <2> QED BY <2>1, <2>2, StatementForm
<1>3. CASE \/ BlankLine(line) \/ DirectiveOffset(line) \/ DirectiveCrashes(line)
           \/ AsciizRefused(line) \/ AsciizCrashes(line) \/ Label(line)
           \/ CodeRefused(line) \/ CodeCrashes(line)
    BY <1>3 DEF BlankLine, DirectiveOffset, DirectiveCrashes, AsciizRefused, AsciizCrashes,
                Label, CodeRefused, CodeCrashes, Skipped, NullToken
<1> QED BY <1>1, <1>2, <1>3 DEF Read

Forms == \A n \in 1..Len(statements) : JumpForm(statements[n])

\* Each statement that has been written lies where the history has it.
Laid ==
    status \in {"writing", "done"} =>
        /\ \A n \in 1..Len(statements) : n < i =>
              /\ starts[n] + Size(statements[n]) <= Len(buf)
              /\ LiesAt(statements[n], starts[n])
        /\ status = "done" => i = Len(statements) + 1

ImageInv == PlacementInv /\ Forms /\ Laid

LEMMA FormsKept ==
    ASSUME ImageInv, PlacementNext
    PROVE  Forms'
<1>1. statements \in Seq(StatementType) /\ Len(statements) \in Nat
    BY LenProperties DEF ImageInv, PlacementInv, Typed, TypeOK
<1>2. CASE statements' = statements
    BY <1>2 DEF ImageInv, Forms
<1>3. ASSUME Read, NEW s, JumpForm(s), statements' = Append(statements, s)
      PROVE  Forms'
    <2>1. Len(statements') = Len(statements) + 1
        BY <1>1, <1>3
    <2>2. \A n \in 1..Len(statements') :
              statements'[n] = IF n = Len(statements) + 1 THEN s ELSE statements[n]
        BY <1>1, <1>3
    <2>3. ASSUME NEW n \in 1..Len(statements') PROVE JumpForm(statements'[n])
        <3>1. CASE n = Len(statements) + 1
            BY <1>3, <2>2, <3>1
        <3>2. CASE n \in 1..Len(statements)
            <4>1. statements'[n] = statements[n]
                BY <1>1, <2>2, <3>2
            <4> QED BY <3>2, <4>1 DEF ImageInv, Forms
        <3> QED BY <1>1, <2>1, <3>1, <3>2
    <2> QED BY <2>3 DEF Forms, JumpForm
<1>4. AllRead \/ SizeUp \/ AllSized \/ Write \/ AllWritten => statements' = statements
    BY DEF AllRead, SizeUp, AllSized, Write, AllWritten
<1> QED BY <1>2, <1>3, <1>4, ReadForms DEF PlacementNext, Next

\* The third pass appends, and so leaves everything where it is.
LEMMA LaidKept ==
    ASSUME ImageInv, PlacementNext
    PROVE  Laid'
<1>1. /\ statements \in Seq(StatementType) /\ DOMAIN statements = 1..Len(statements)
      /\ Len(statements) \in Nat /\ i \in 1..Len(statements) + 1
      /\ labels \in Labels /\ buf \in Seq(Byte) /\ Len(buf) \in Nat
      /\ starts \in Seq(Nat) /\ Len(starts) = Len(statements)
    BY LenProperties DEF ImageInv, PlacementInv, Typed, TypeOK, Labels, Contiguous
<1>2. CASE Read \/ AllRead \/ SizeUp
    <2>1. status' \notin {"writing", "done"}
        <3>1. Read => status' \in {"reading", "crashed"}
            BY ReadCases DEF ImageInv, PlacementInv, Read, Skipped, DirectiveOffset, Marked, Placed
        <3> QED BY <1>2, <3>1 DEF AllRead, SizeUp
    <2> QED BY <2>1 DEF Laid
<1>3. CASE AllSized
    <2>1. status' = "writing" /\ i' = 1 /\ statements' = statements
        BY <1>3 DEF AllSized
    <2>2. \A n \in 1..Len(statements) : ~(n < 1)
        BY <1>1
    <2> QED BY <2>1, <2>2 DEF Laid
<1>4. ASSUME Write \/ AllWritten
      PROVE  UNCHANGED <<statements, labels, starts>>
    <2>1. cur' = cur /\ UNCHANGED <<statements, labels>>
        BY <1>4 DEF Write, AllWritten
    <2> QED BY <2>1 DEF PlacementNext
<1>5. CASE Write
    <2> DEFINE bytes == Bytes(statements[i])
    <2>1. i \in 1..Len(statements) /\ i' = i + 1 /\ buf' = buf \o bytes /\ status = "writing"
          /\ status' = "writing"
        BY <1>1, <1>5 DEF Write
    <2>2. bytes \in Seq(Byte) /\ Len(bytes) = Size(statements[i]) /\ Len(bytes) \in Nat
        <3>1. statements[i] \in StatementType
            BY <1>1, <2>1, ElementOfSeq
        <3> QED BY <1>1, <3>1, BytesType
    <2>3. Len(buf) = starts[i]
        BY <2>1 DEF ImageInv, PlacementInv, Counted, StartOf
    <2> HIDE DEF bytes
    <2>4. Len(buf') = Len(buf) + Len(bytes)
        BY <1>1, <2>1, <2>2, ConcatProperties
    <2>5. ASSUME NEW n \in 1..Len(statements), n < i'
          PROVE  /\ starts[n] + Size(statements[n]) <= Len(buf')
                 /\ SubSeq(buf', starts[n] + 1, starts[n] + Size(statements[n]))
                       = Bytes(statements[n])
        <3>1. CASE n = i
            <4>1. starts[n] + Size(statements[n]) = Len(buf) + Len(bytes)
                BY <2>2, <2>3, <3>1
            <4>2. SubSeq(buf \o bytes, Len(buf) + 1, Len(buf) + Len(bytes)) = bytes
                BY <1>1, <2>2, SuffixFound
            <4> QED BY <2>1, <2>2, <2>3, <2>4, <3>1, <4>1, <4>2 DEF bytes
        <3>2. CASE n < i
            <4>1. /\ starts[n] + Size(statements[n]) <= Len(buf)
                  /\ LiesAt(statements[n], starts[n])
                BY <2>1, <3>2 DEF ImageInv, Laid
            <4>2. starts[n] \in Nat /\ Size(statements[n]) \in Nat
                <5>1. statements[n] \in StatementType
                    BY <1>1, ElementOfSeq
                <5>2. Size(statements[n]) \in Nat
                    BY <1>1, <5>1, BytesType
                <5> QED BY <1>1, <5>2, ElementOfSeq
            <4>3. starts[n] + Size(statements[n]) \in Nat
                BY <4>2
            <4>4. SubSeq(buf \o bytes, starts[n] + 1, starts[n] + Size(statements[n]))
                      = SubSeq(buf, starts[n] + 1, starts[n] + Size(statements[n]))
                BY <1>1, <2>2, <4>1, <4>2, <4>3, PrefixKept
            <4>5. starts[n] + Size(statements[n]) <= Len(buf')
                BY <1>1, <2>2, <2>4, <4>1, <4>3
            <4>6. SubSeq(buf, starts[n] + 1, starts[n] + Size(statements[n]))
                      = Bytes(statements[n])
                BY <4>1 DEF LiesAt
            <4> QED BY ONLY <2>1, <4>4, <4>5, <4>6
        <3>3. n = i \/ n < i
            BY <1>1, <2>1, <2>5
        <3> QED BY ONLY <3>1, <3>2, <3>3
    <2>6. \A n \in 1..Len(statements) : (Bytes(statements[n]))' = Bytes(statements[n])
        BY <1>4, <1>5 DEF Bytes
    <2> QED BY <1>4, <1>5, <2>1, <2>5, <2>6 DEF Laid, LiesAt, Size
<1>6. CASE AllWritten
    <2>1. i = Len(statements) + 1
        BY <1>1, <1>6 DEF AllWritten
    <2>2. UNCHANGED <<i, buf>> /\ status = "writing"
        BY <1>6 DEF AllWritten
    <2>3. \A n \in 1..Len(statements) : (Bytes(statements[n]))' = Bytes(statements[n])
        BY <1>4, <1>6 DEF Bytes
    <2> QED BY <1>4, <1>6, <2>1, <2>2, <2>3 DEF ImageInv, Laid, LiesAt, Size
<1> QED BY <1>2, <1>3, <1>5, <1>6 DEF PlacementNext, Next

LEMMA ImageInvariant == PlacementSpec => []ImageInv
<1>1. PlacementInit => Forms /\ Laid
    <2> SUFFICES ASSUME PlacementInit PROVE Forms /\ Laid
        OBVIOUS
    <2>1. Len(statements) = 0 /\ status = "reading"
        BY EmptySeq DEF PlacementInit, Init
    <2> QED BY <2>1 DEF Forms, Laid
<1>2. PlacementInv /\ Forms /\ Laid /\ [PlacementNext]_placementVars => (Forms /\ Laid)'
    <2> SUFFICES ASSUME ImageInv, [PlacementNext]_placementVars PROVE (Forms /\ Laid)'
        BY DEF ImageInv
    <2>1. CASE PlacementNext
        BY <2>1, FormsKept, LaidKept
    <2>2. CASE UNCHANGED placementVars
        <3>1. UNCHANGED <<statements, status, i, buf, labels, starts>>
            BY <2>2 DEF placementVars, vars
        <3>2. \A n \in 1..Len(statements) : (Bytes(statements[n]))' = Bytes(statements[n])
            BY <3>1 DEF Bytes
        <3> QED BY <3>1, <3>2 DEF ImageInv, Forms, JumpForm, Laid, LiesAt, Size
    <2> QED BY <2>1, <2>2
<1> QED BY <1>1, <1>2, PlacementInvariant, PTL DEF PlacementSpec, ImageInv

\* The labels of a name, of which resolveLabel finds the first.
Named(L, name) == {k \in DOMAIN L : L[k].name = name}

LEMMA FirstLabel ==
    ASSUME NEW L \in Labels, NEW name
    PROVE  \/ Named(L, name) = {} /\ resolveLabel(L, name) = 65535
           \/ \E k \in Named(L, name) : /\ \A m \in Named(L, name) : k <= m
                                        /\ resolveLabel(L, name) = L[k].addr
<1> DEFINE I == {n \in 1..Len(L) : L[n].name = name}
<1>1. Named(L, name) = I
    BY LenProperties DEF Labels, Named
<1>2. CASE Named(L, name) = {}
    <2>1. resolveLabel(L, name) = 65535
        BY <1>1, <1>2 DEF resolveLabel, SelectInSubSeq
    <2> QED BY <1>2, <2>1
<1>3. CASE Named(L, name) # {}
    <2>1. I \subseteq Nat
        BY LenProperties DEF Labels
    <2>2. Min(I) \in I /\ \A m \in I : Min(I) <= m
        BY <1>1, <1>3, <2>1, MinIsLeast
    <2>3. resolveLabel(L, name) = L[Min(I)].addr
        BY <1>1, <1>3, <2>2 DEF resolveLabel, SelectInSubSeq, Labels
    <2> HIDE DEF I
    <2> QED BY <1>1, <2>2, <2>3
<1> QED BY <1>2, <1>3

\* What is written for a statement that names a label.
LEMMA JumpWord ==
    ASSUME labels \in Labels, NEW s \in StatementType, JumpForm(s),
           s.type = "instruction", s.addr_label # NoLabel
    PROVE  LET address == resolveLabel(labels, s.addr_label)
               word == s.opcode + (IF address = 65535 THEN 0 ELSE address % 4096)
           IN  word \in Nat /\ Bytes(s) = <<word % 256, word \div 256>> /\ Size(s) = 2
<1> DEFINE address == resolveLabel(labels, s.addr_label)
           offs == IF address = 65535 THEN 0 ELSE address % 4096
<1>1. s.pat = "A" /\ s.opcode \in Nat /\ s.opcode <= 28672
    BY DEF JumpForm
<1>2. address \in Nat
    BY ResolvedType, WordBounds
<1>3. Target(s, labels) = IF address = 65535 THEN 0 ELSE address
    BY DEF Target
<1> HIDE DEF address
<1>4. MKC_ADDR(Target(s, labels)) = offs
    BY <1>2, <1>3 DEF MKC_ADDR
<1>5. offs \in Nat /\ offs < 4096
    BY <1>2
<1>6. asmCpuInstr(s, labels) = s.opcode + offs
    BY <1>1, <1>4 DEF asmCpuInstr
<1> HIDE DEF offs
<1>7. s.opcode + offs \in Nat /\ s.opcode + offs < 65536
    BY <1>1, <1>5
<1>8. Uint16(asmCpuInstr(s, labels)) = s.opcode + offs
    BY <1>6, <1>7 DEF Uint16
<1>9. Bytes(s) = <<(s.opcode + offs) % 256, (s.opcode + offs) \div 256>> /\ Size(s) = 2
    BY <1>8 DEF Bytes, Size
<1> QED BY <1>7, <1>9 DEF offs, address

\* Whatever the source, with any number of labels, strings, refused lines and
\* @offsets: every jump in the finished image has the address of the first label of
\* its name, and the bytes of the statement behind that label lie where this address
\* counts to (resolveLabel, asmCpuInstr and the passes of assemble).
THEOREM JumpsAlwaysArrive == PlacementSpec => []JumpsArrive
<1>1. ImageInv => JumpsArrive
    <2> SUFFICES ASSUME ImageInv, status = "done", NEW n \in DOMAIN statements,
                        statements[n].type = "instruction",
                        statements[n].addr_label # NoLabel
                 PROVE  LET target == buf[starts[n] + 1] + 256 * buf[starts[n] + 2]
                                         - statements[n].opcode
                            named  == {k \in DOMAIN labels :
                                          labels[k].name = statements[n].addr_label}
                        IN  \/ named = {} /\ target = 0
                            \/ \E k \in named :
                                  LET address == Uint16(places[k].shift + places[k].position)
                                  IN  /\ \A m \in named : k <= m
                                      /\ target = IF address = 65535 THEN 0
                                                  ELSE address % 4096
                                      /\ places[k].next \in DOMAIN statements =>
                                            LiesAt(statements[places[k].next],
                                                   places[k].position)
        BY DEF JumpsArrive
    <2> DEFINE s == statements[n]
               p == starts[n]
               address == resolveLabel(labels, s.addr_label)
               offs == IF address = 65535 THEN 0 ELSE address % 4096
               word == s.opcode + offs
               named == Named(labels, s.addr_label)
    <2>1. /\ statements \in Seq(StatementType) /\ DOMAIN statements = 1..Len(statements)
          /\ Len(statements) \in Nat /\ labels \in Labels
          /\ DOMAIN labels = 1..Len(labels) /\ buf \in Seq(Byte)
          /\ starts \in Seq(Nat) /\ Len(starts) = Len(statements)
        BY LenProperties DEF ImageInv, PlacementInv, Typed, TypeOK, Labels, Contiguous
    <2>2. \A k \in 1..Len(statements) : LiesAt(statements[k], starts[k])
        <3>1. Laid /\ status = "done"
            BY DEF ImageInv
        <3>2. /\ i = Len(statements) + 1
              /\ \A k \in 1..Len(statements) : k < i => LiesAt(statements[k], starts[k])
            BY ONLY <3>1 DEF Laid
        <3>3. \A k \in 1..Len(statements) : k < Len(statements) + 1
            BY <2>1
        <3> QED BY ONLY <3>2, <3>3
    <2>3. s \in StatementType /\ p \in Nat
        BY <2>1, ElementOfSeq
    <2>4. JumpForm(s)
        BY <2>1 DEF ImageInv, Forms
    <2>5. word \in Nat /\ Bytes(s) = <<word % 256, word \div 256>> /\ Size(s) = 2
        BY <2>1, <2>3, <2>4, JumpWord
    <2>6. SubSeq(buf, p + 1, p + 2) = <<word % 256, word \div 256>>
        <3>1. SubSeq(buf, p + 1, p + Size(s)) = Bytes(s)
            BY <2>1, <2>2 DEF LiesAt
        <3> QED BY <2>5, <3>1
    <2>7. s.opcode \in Nat
        BY <2>4 DEF JumpForm
    <2>8. address \in Nat
        BY <2>1, ResolvedType, WordBounds
    <2> HIDE DEF address
    <2>9. offs \in Nat
        BY <2>8
    <2> HIDE DEF offs
    <2>10. buf[p + 1] = word % 256 /\ buf[p + 2] = word \div 256
        <3> HIDE DEF word, p
        <3>1. SubSeq(buf, p + 1, p + 2)[1] = buf[p + 1] /\ SubSeq(buf, p + 1, p + 2)[2] = buf[p + 2]
            BY <2>1, <2>3
        <3>2. PICK x, y : x = word % 256 /\ y = word \div 256
            OBVIOUS
        <3>3. SubSeq(buf, p + 1, p + 2) = <<x, y>>
            BY <2>6, <3>2
        <3>4. <<x, y>>[1] = x /\ <<x, y>>[2] = y
            OBVIOUS
        <3> QED BY <3>1, <3>2, <3>3, <3>4
    <2>11. buf[p + 1] + 256 * buf[p + 2] = word
        <3> HIDE DEF word
        <3> QED BY <2>5, <2>10, WordOfTwo
    <2>12. buf[p + 1] + 256 * buf[p + 2] - s.opcode = offs
        <3>1. PICK o, f, x, y \in Nat : /\ o = s.opcode /\ f = offs
                                        /\ x = buf[p + 1] /\ y = buf[p + 2]
            <4> HIDE DEF word, p
            <4> QED BY <2>5, <2>7, <2>9, <2>10
        <3>2. x + 256 * y = o + f
            BY <2>11, <3>1
        <3>3. x + 256 * y - o = f
            BY <3>2
        <3> QED BY <3>1, <3>3
    <2>13. CASE named = {} /\ address = 65535
        BY <2>12, <2>13 DEF offs, Named
    <2>14. ASSUME NEW k \in named, \A m \in named : k <= m, address = labels[k].addr
           PROVE  /\ Uint16(places[k].shift + places[k].position) = address
                  /\ places[k].next \in DOMAIN statements =>
                        LiesAt(statements[places[k].next], places[k].position)
        <3>1. k \in 1..Len(labels)
            BY <2>1 DEF Named
        <3>2. /\ places[k].position = StartOf(places[k].next)
              /\ labels[k].addr = Uint16(places[k].shift + places[k].position)
            BY <3>1 DEF ImageInv, PlacementInv, Marks
        <3>3. places[k].next \in DOMAIN statements => places[k].position = starts[places[k].next]
            BY <2>1, <3>2 DEF StartOf
        <3> QED BY <2>1, <2>2, <2>14, <3>2, <3>3
    <2>15. \/ named = {} /\ address = 65535
           \/ \E k \in named : (\A m \in named : k <= m) /\ address = labels[k].addr
        BY <2>1, FirstLabel DEF address
    <2> QED BY <2>12, <2>13, <2>14, <2>15 DEF offs, Named
<1> QED BY <1>1, ImageInvariant, PTL
=============================================================================
