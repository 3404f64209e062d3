---------------------------- MODULE MCAssembler ----------------------------
(***************************************************************************)
(* All sources of up to MaxLines of the lines below, behind an @offset or  *)
(* none, one line more of those that bear on labels, and vras/asm/fib.asm  *)
(* for two places in RAM.                                                  *)
(***************************************************************************)
EXTENDS Placement

Isa == INSTANCE FibPrograms

CONSTANT MaxLines

Here  == Text("here")
There == Text("there")

Greeting == AsciizLine(0, <<Char(104), Escape(110), Hex(255)>>)

LabelLines == { LabelLine(Here),
                LabelLine(There),
                CodeLine("call", <<Here>>),
                CodeLine("bne", <<There, Here>>),
                CodeLine("push", <<>>),
                Greeting,
                OffsetLine(<<Num(256)>>) }

MCLines == LabelLines \cup
           { CodeLine("addi", <<Reg(2), Reg(1), Num(-1)>>),
             CodeLine("ldi", <<Reg(1), Num(256)>>),
             CodeLine("srstr", <<Reg(1)>>),
             CodeLine("jmp", <<Num(-1)>>),
             CodeLine("load", <<Reg(1)>>),
             AsciizLine(2, <<Char(104)>>),
             AsciizLine(0, <<Char(104), Slashes, BadHex>>),
             AsciizLine(0, <<BadHex>>),
             UnquotedLine,
             BareAsciizLine,
             Blank }

Origins == { <<>>, <<OffsetLine(<<Num(1024)>>)>>, <<OffsetLine(<<Num(4095)>>)>>,
             <<OffsetLine(<<Num(4096)>>)>>, <<OffsetLine(<<>>)>> }

fibSource(origin) ==
    LET fib == Text("fib") zc == Text("zc") oc == Text("oc")
        r(n) == Reg(n)
    IN << OffsetLine(<<Num(origin)>>),
          LabelLine(Text("start")),
          CodeLine("ldi", <<r(1), Num(255)>>),
          CodeLine("wrss", <<r(1)>>),
          CodeLine("wrsp", <<r(1)>>),
          CodeLine("ldi", <<r(1), Num(13)>>),
          CodeLine("call", <<fib>>),
          CodeLine("halt", <<>>),
          Blank,
          LabelLine(fib),
          CodeLine("addi", <<r(2), r(1), Num(0)>>),
          CodeLine("beq", <<zc>>),
          CodeLine("addi", <<r(1), r(1), Num(-1)>>),
          CodeLine("beq", <<oc>>),
          CodeLine("push", <<r(1)>>),
          CodeLine("call", <<fib>>),
          CodeLine("pop", <<r(1)>>),
          CodeLine("push", <<r(0)>>),
          CodeLine("addi", <<r(1), r(1), Num(-1)>>),
          CodeLine("call", <<fib>>),
          CodeLine("pop", <<r(1)>>),
          CodeLine("add", <<r(0), r(0), r(1)>>),
          CodeLine("ret", <<>>),
          Blank,
          LabelLine(zc),
          CodeLine("ldi", <<r(0), Num(0)>>),
          CodeLine("ret", <<>>),
          Blank,
          LabelLine(oc),
          CodeLine("ldi", <<r(0), Num(1)>>),
          CodeLine("ret", <<>>) >>

MCSources ==
    {o \o s : o \in Origins,
              s \in UNION {[1..n -> MCLines] : n \in 0..MaxLines}
                      \cup [1..MaxLines + 1 -> LabelLines]}
      \cup {fibSource(0), fibSource(512)}

-----------------------------------------------------------------------------
\* What a line adds to the image, told line by line: nothing if it is refused.
BytesOf(line) ==
    IF line = Greeting THEN 4
    ELSE IF line.kind # "code" THEN 0
    ELSE IF line \in {CodeLine("load", <<Reg(1)>>), CodeLine("push", <<>>),
                      CodeLine("ldi", <<Reg(1), Num(256)>>),
                      CodeLine("jmp", <<Num(-1)>>)} THEN 0
    ELSE 2

\* The bytes of the image that come from the first n lines.
Written(n) ==
    FoldSeq(LAMBDA line, sum : BytesOf(line) + sum, 0, SubSeq(source, 1, n))

\* The address of line n: it counts from the last @offset with a 12-bit number.
AddressOf(n) ==
    LET origins == {m \in 1..n : source[m].kind = "@offset" /\ source[m].args[1].num < 4096}
    IN IF origins = {} THEN Written(n)
       ELSE LET m == Max(origins) IN source[m].args[1].num + Written(n) - Written(m)

\* The line with the label, the first one of several.
LineOf(name) ==
    SelectInSubSeq(source, 1, Len(source), LAMBDA l : l = LabelLine(name))

\* The image is what the source says, line by line: a jump to a label is that
\* instruction, in its place, with the address of the first line that has the
\* label, and a string is its characters with a zero behind them.  Strings in
\* between, refused lines and labels declared later or twice change nothing; an
\* unknown label gives address 0.
LinesInPlace ==
    status = "done" =>
        \A n \in DOMAIN source :
            LET line == source[n]
                at   == Written(n - 1)
                word == buf[at + 1] + 256 * buf[at + 2]
            IN /\ line.kind = "code" /\ line.mnemonic \in {"call", "bne", "beq"} =>
                    LET label == LineOf(line.args[1])
                    IN /\ Isa!Decode(word) = line.mnemonic
                       /\ Isa!INS_ADDR(word) =
                            IF label = 0 THEN 0 ELSE AddressOf(label) % 4096
               /\ line = Greeting => SubSeq(buf, at + 1, at + 4) = <<104, 10, 255, 0>>

\* vras/asm/fib.asm becomes the program fib[] of vectorvm/src/main.c, and at
\* another place in RAM the same program with its jumps moved.
FibAssembles ==
    status = "done" =>
        \A origin \in {0, 512} :
            source = fibSource(origin) =>
                LET words == Isa!fibArray(13, origin)
                IN buf = FlattenSeq([n \in DOMAIN words |->
                                        <<words[n] % 256, words[n] \div 256>>])
=============================================================================
