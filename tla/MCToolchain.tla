---------------------------- MODULE MCToolchain ----------------------------
(***************************************************************************)
(* The tools on the sample sources in vras/asm, and on one that uses       *)
(* macros, conditionals and a string, for command lines of up to three     *)
(* options, and those with both directories, in every order.               *)
(***************************************************************************)
EXTENDS Toolchain, TLC

Isa == INSTANCE FibPrograms

Enc == INSTANCE AsmEncode

Line(directive, words) == [directive |-> directive, words |-> words]
Source(words) == Line("", words)
Include(name) == Line("include", <<name>>)
Library(name) == Line("include<>", <<name>>)
Blank(n) == [k \in 1..n |-> Source(<<>>)]

fibRoutine ==
    [n \in 1..20 |-> Source(
        << <<"fib:">>, <<"addi", "r2", "r1", "0">>, <<"beq", "zc">>,
           <<"addi", "r1", "r1", "-1">>, <<"beq", "oc">>, <<"push", "r1">>,
           <<"call", "fib">>, <<"pop", "r1">>, <<"push", "r0">>,
           <<"addi", "r1", "r1", "-1">>, <<"call", "fib">>, <<"pop", "r1">>,
           <<"add", "r0", "r0", "r1">>, <<"ret">>, <<>>,
           <<"zc:">>, <<"ldi", "r0", "0">>, <<"ret">>, <<>>,
           <<"oc:">> >>[n])]
    \o << Source(<<"ldi", "r0", "1">>), Source(<<"ret">>) >>

\* fib.asm, main.asm and test.asm, without their comments; lib/fib.asm is another
\* file of that name, custom.asm chooses with a macro what main.asm has as it
\* stands, and again.asm includes itself.
MCFile ==
    ("asm/fib.asm" :>
        << Source(<<"@offset", "0x0">>), Source(<<"start:">>),
           Source(<<"ldi", "r1", "0xff">>), Source(<<"wrss", "r1">>),
           Source(<<"wrsp", "r1">>), Source(<<"ldi", "r1", "13">>),
           Source(<<"call", "fib">>), Source(<<"halt">>), Source(<<>>) >>
        \o fibRoutine \o Blank(3))
    @@ ("asm/main.asm" :>
        << Source(<<"_start:">>), Source(<<"dszr">>), Source(<<>>),
           Source(<<"ldi", "r1", "0xff">>), Source(<<"wrss", "r1">>),
           Source(<<"wrsp", "r1">>), Source(<<>>), Source(<<"ldi", "r1", "0">>),
           Source(<<"wrds", "r1">>), Source(<<>>), Source(<<"ldi", "r1", "13">>),
           Source(<<"call", "fib">>), Source(<<>>), Library("fib.asm") >>)
    @@ ("asm/test.asm" :>
        << Source(<<>>), Include("include/bigint.asm"),
           Include("include/bigint.asm"),
           Include("incl.asm"), Include("dir/nestedIncl.asm"), Source(<<>>),
           Line("define", <<"PI", "3.14">>),
           Line("define", <<"two2PI", "2*3.14">>), Source(<<>>),
           Line("ifdef", <<"PI">>), Line("undef", <<"PI">>), Line("endif", <<>>),
           Source(<<>>), Source(<<"mov", "r0", "PI">>), Source(<<>>),
           Source(<<"@offset", "0x0">>),
           Source(<<"start:">>), Source(<<"ldi", "r1", "13">>),
           Source(<<"call", "fib">>), Source(<<"halt">>), Source(<<>>) >>
        \o InsertAt(fibRoutine, 19, Source(<<>>)))
    @@ ("asm/custom.asm" :>
        << Line("define", <<"N", "13">>), Line("define", <<"ACC", "r1">>),
           Library("fib.asm"), Line("ifndef", <<"GREETING">>),
           Line("define", <<"GREETING", "Hi">>), Line("endif", <<>>),
           Source(<<"@asciiz", "GREETING">>), Source(<<"ldi", "ACC", "N">>),
           Source(<<"call", "fib">>), Line("else", <<>>) >>)
    @@ ("asm/again.asm" :>
        << Line("ifndef", <<"AGAIN">>), Line("define", <<"AGAIN">>),
           Source(<<"halt">>), Include("again.asm"), Line("endif", <<>>) >>)
    @@ ("asm/broken.asm" :> << Source(<<"halt">>), Line("ifdef", <<"PI">>) >>)
    @@ ("asm/bare.asm" :> << Source(<<"halt">>), Source(<<"@offset">>) >>)
    @@ ("asm/short.asm" :> << Source(<<"halt">>), Source(<<"srstr", "r1">>) >>)
    @@ ("asm/hex.asm" :> << Source(<<"@asciiz", "\\x">>), Source(<<"halt">>) >>)
    @@ ("asm/include/bigint.asm" :>
        << Line("ifndef", <<"INCLUDE_BIGINT">>), Line("define", <<"INCLUDE_BIGINT">>),
           Source(<<>>), Source(<<"bigint_add:">>), Source(<<"add", "r1", "r1", "r1">>),
           Source(<<"ret">>), Source(<<>>), Line("endif", <<>>) >>)
    @@ ("asm/incl.asm" :> Blank(2))
    @@ ("asm/dir/nestedIncl.asm" :> Blank(4))
    @@ ("asm/include/fib.asm" :> fibRoutine \o Blank(3))
    @@ ("lib/fib.asm" :>
        << Source(<<"fib:">>), Source(<<"ldi", "r0", "0">>), Source(<<"ret">>) >>)

MCDirOf == [f \in DOMAIN MCFile |-> "asm"]

MCFound == [path \in {<<"asm", "include/bigint.asm">>, <<"asm", "incl.asm">>,
                      <<"asm", "again.asm">>, <<"asm", "dir/nestedIncl.asm">>, <<"asm/include", "fib.asm">>,
                      <<"lib", "fib.asm">>} |->
               IF path[1] = "asm"
               THEN CASE path[2] = "incl.asm" -> "asm/incl.asm"
                      [] path[2] = "again.asm" -> "asm/again.asm"
                      [] path[2] = "include/bigint.asm" -> "asm/include/bigint.asm"
                      [] path[2] = "dir/nestedIncl.asm" -> "asm/dir/nestedIncl.asm"
               ELSE IF path[1] = "lib" THEN "lib/fib.asm" ELSE "asm/include/fib.asm"]

MCName == {"PI", "two2PI", "AGAIN", "N", "ACC", "GREETING", "INCLUDE_BIGINT"}
MCBadCharacters == [n \in MCName |-> 0]

MCLabelOf == [w \in {"start:", "_start:", "fib:", "zc:", "oc:", "bigint_add:"} |->
                 Enc!Text(CASE w = "start:" -> "start" [] w = "_start:" -> "_start"
                          [] w = "fib:" -> "fib" [] w = "zc:" -> "zc" [] w = "oc:" -> "oc"
                          [] w = "bigint_add:" -> "bigint_add")]

MCTokenOf ==
    ("r0" :> Enc!Reg(0)) @@ ("r1" :> Enc!Reg(1)) @@ ("r2" :> Enc!Reg(2))
    @@ ("0" :> Enc!Num(0)) @@ ("1" :> Enc!Num(1)) @@ ("13" :> Enc!Num(13))
    @@ ("-1" :> Enc!Num(-1)) @@ ("0xff" :> Enc!Num(255)) @@ ("0x0" :> Enc!Num(0))
    @@ [w \in {"fib", "zc", "oc", "PI"} |-> Enc!Text(w)]

MCItemsOf == ("Hi" :> <<[char |-> 72], [char |-> 105]>>) @@ ("\\x" :> <<[bad |-> "hex"]>>)

Lines == UNION {ToSet(MCFile[f]) : f \in DOMAIN MCFile}

MCVocabulary == {""} \cup UNION {ToSet(line.words) : line \in Lines}

MCWritable == {"out"}

\* What stops vras on its way through a source: an open conditional, an @offset
\* without its number, srstr with one operand, an invalid hex escape.
Fatal == {"asm/broken.asm", "asm/bare.asm", "asm/short.asm", "asm/hex.asm"}

\* Up to three options in every order, or two and a flag that lacks its value;
\* an input, the output and both directories in every order; the other sources.
Options == { <<"-i", "asm/fib.asm">>, <<"-i", "asm/main.asm">>, <<"-i", "asm/none">>,
             <<"-o", "out">>, <<"-o", "none/out">>, <<"-I", "asm/include">>,
             <<"-I", "lib">>, <<"-h">>, <<"-v">> }

MCInvocations ==
    {FlattenSeq(s) : s \in UNION {[1..n -> Options] : n \in 0..3}}
      \cup {FlattenSeq(s) \o <<flag>> : s \in UNION {[1..n -> Options] : n \in 0..2},
                                        flag \in {"-i", "-o", "-I"}}
      \cup UNION {{FlattenSeq(s) : s \in SetToSeqs({<<"-i", f>>, <<"-o", "out">>,
                                                   <<"-I", "lib">>, <<"-I", "asm/include">>})} :
                      f \in {"asm/fib.asm", "asm/main.asm"}}
      \cup {<<"-i", f, "-o", "out">> \o dirs :
               f \in {"asm/test.asm", "asm/custom.asm", "asm/again.asm"} \cup Fatal,
               dirs \in {<<>>, <<"-I", "asm/include">>, <<"-I", "lib", "-I", "asm/include">>}}

-----------------------------------------------------------------------------
\* What the arguments ask for.  A value is no flag in these invocations.
Flags(flag) == {n \in DOMAIN argv : argv[n] = flag}

Again == {n \in Flags("-i") \cup Flags("-o") : \E m \in 1..n - 1 : argv[m] = argv[n]}

WithoutValue == (Flags("-i") \cup Flags("-o") \cup Flags("-I")) \cap {Len(argv)}

Named(flag) == argv[Min(Flags(flag)) + 1]

\* The files called fib.asm in the directories given, in their order.
Libraries ==
    SelectSeq([n \in DOMAIN argv |-> IF n > 1 /\ argv[n - 1] = "-I" THEN argv[n] ELSE ""],
              LAMBDA dir : <<dir, "fib.asm">> \in DOMAIN Found)

\* What the first of them has, at the address fib, and the address for the call.
Routine(fib) ==
    IF Libraries = <<>> THEN <<>>
    ELSE IF Libraries[1] = "lib" THEN <<Isa!MKI_LDI(0, 0), Isa!MKI_RET>>
    ELSE Isa!fibRoutine(fib)

Called(fib) == IF Libraries = <<>> THEN 0 ELSE fib

Bytes(words) == FlattenSeq([n \in DOMAIN words |-> <<words[n] % 256, words[n] \div 256>>])

\* The file that the source named by -i should become, put together by hand.  In
\* test.asm, the addresses count from the @offset behind bigint_add.
Image ==
    CASE Named("-i") = "asm/fib.asm" -> Bytes(Isa!fibArray(13, 0))
      [] Named("-i") = "asm/main.asm" ->
            Bytes(<<Isa!MKI_DSZR, Isa!MKI_LDI(1, 255), Isa!MKI_WRSS(1), Isa!MKI_WRSP(1),
                    Isa!MKI_LDI(1, 0), Isa!MKI_WRDS(1), Isa!MKI_LDI(1, 13),
                    Isa!MKI_CALL(Called(16))>> \o Routine(16))
      [] Named("-i") = "asm/test.asm" ->
            Bytes(<<Isa!MKI_ADD(1, 1, 1), Isa!MKI_RET,
                    Isa!MKI_LDI(1, 13), Isa!MKI_CALL(6), Isa!MKI_HALT>> \o Isa!fibRoutine(6))
      [] Named("-i") = "asm/custom.asm" ->
            Bytes(Routine(0)) \o <<72, 105, 0>>
              \o Bytes(<<Isa!MKI_LDI(1, 13), Isa!MKI_CALL(0)>>)
      [] Named("-i") = "asm/again.asm" -> Bytes(<<Isa!MKI_HALT>>)

\* vras ends as its arguments ask: the first -h, repeated or unfinished option
\* decides, whatever comes behind it; else both files must be named, and be there.
\* A fatal line stops it behind the lines that it has read, and it writes a file
\* just when it succeeds: the one that the source, its macros and the first
\* directory that has the included file make.
MakesImage ==
    phase \in {"disassemble", "ended"} =>
        LET stops == Flags("-h") \cup Again \cup WithoutValue
            first == Min(stops)
            code  == IF stops # {}
                     THEN IF first \in Flags("-h") THEN "0"
                          ELSE IF first \in Again THEN "1" ELSE "crash"
                     ELSE IF Flags("-i") = {} \/ Flags("-o") = {} THEN "1"
                     ELSE IF Named("-i") \notin DOMAIN File THEN "-1"
                     ELSE IF Named("-i") \in Fatal THEN "crash"
                     ELSE IF Named("-o") \in Writable THEN "written" ELSE "crash"
        IN IF code = "written" THEN exit = "0" /\ written = Image
           ELSE exit = code /\ written = <<>>

\* Where statement n begins.
Position(n) == FoldSeq(LAMBDA s, sum : A!Size(s) + sum, 0, SubSeq(statements, 1, n - 1))

\* Every whole pair of bytes has an entry, and an instruction is shown where the
\* assembler has put it: at an even place as what it is; at an odd one, behind a
\* string, its low byte is shown as the high byte of a word with the byte before.
ListedAsAssembled ==
    exit = "0" /\ phase = "ended" /\ written # <<>> =>
        /\ Len(listing) = Len(written) \div 2
        /\ \A n \in {m \in DOMAIN statements : statements[m].type = "instruction"} :
               LET place == Position(n)
                   made  == A!Uint16(A!asmCpuInstr(statements[n], labels))
               IN listing[place \div 2 + 1] =
                      IF place % 2 = 0 THEN D!Entry(place, made)
                      ELSE D!Entry(place - 1, written[place] + 256 * (made % 256))

\* Every invocation comes to its end, that of a file that includes itself too: its
\* guard, defined on the way in, removes what it includes.
Finishes == <>(phase = "ended")
=============================================================================
