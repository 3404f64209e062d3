--------------------------- MODULE MCPreprocessor ---------------------------
(***************************************************************************)
(* All sources of up to MaxLines of the lines below, against a reference   *)
(* preprocessor that reads the lines once, from the first to the last, and *)
(* keeps a stack of open conditionals and a table of macros.               *)
(***************************************************************************)
EXTENDS Preprocessor, TLC

CONSTANT MaxLines

MCName == {"A", "B", "GUARD", "1A", "A--"}
MCDigitFirst == {"1A"}
MCBadCharacters == [n \in MCName |-> IF n = "A--" THEN 2 ELSE 0]

\* asm/guarded has an include guard and includes itself.  There is a lib in each
\* of two directories for -I; both include a part of their own, and asm/part is
\* yet another file.
MCFile == [guarded |-> << Line("ifndef", <<"GUARD">>),
                          Line("define", <<"GUARD">>),
                          Line("", <<"B">>),
                          Line(Quoted, <<"guarded">>),
                          Line("endif", <<>>) >>,
           lib1    |-> << Line(Quoted, <<"part">>), Line("", <<"1">>) >>,
           lib2    |-> << Line("", <<"2">>), Line(Quoted, <<"part">>) >>,
           part1   |-> << Line("define", <<"A", "1">>) >>,
           part2   |-> << Line("undef", <<"A">>) >>,
           part    |-> << Line("", <<"3">>) >>]

MCDirOf == [main |-> "asm", guarded |-> "asm", part |-> "asm",
            lib1 |-> "inc1", part1 |-> "inc1", lib2 |-> "inc2", part2 |-> "inc2"]

MCFound == (<<"asm", "guarded">> :> "guarded") @@ (<<"asm", "part">> :> "part")
           @@ (<<"inc1", "lib">> :> "lib1") @@ (<<"inc1", "part">> :> "part1")
           @@ (<<"inc2", "lib">> :> "lib2") @@ (<<"inc2", "part">> :> "part2")

MCAbsolute == {"/lib"}
MCIncludePaths == {<<>>, <<"inc1", "inc2">>, <<"inc0", "inc2", "inc1">>}

BlockLines == { Line("", <<"A", "B">>),
                Line("define", <<"A", "x">>),
                Line("undef", <<"A">>),
                Line("ifdef", <<"A">>),
                Line("ifndef", <<"B">>),
                Line("endif", <<>>) }

MCLines == BlockLines \cup
           { Line("define", <<"B", "A">>),
             Line("define", <<"A">>),
             Line("define", <<"1A", "x">>),
             Line("define", <<"A--", "x">>),
             Line(Quoted, <<"guarded">>),
             Line(Quoted, <<"missing">>),
             Line(Bracketed, <<"lib">>),
             Line(Bracketed, <<"part">>),
             Line(Quoted, <<"/lib">>) }

MCWord == MCName \cup {"x", "1", "2", "3", "guarded", "missing", "lib", "part", "/lib", Empty}

\* Up to MaxLines of any lines, and one more of conditionals and what they test.
MCSources == UNION {[1..n -> MCLines] : n \in 0..MaxLines}
               \cup [1..MaxLines + 1 -> BlockLines]

-----------------------------------------------------------------------------
Undefined == "undefined"

Expanded(word, table) ==
    IF word \in Name /\ table[word] # Undefined THEN table[word] ELSE word

ExpandedLine(line, table) ==
    [line EXCEPT !.words = [i \in DOMAIN @ |-> Expanded(@[i], table)]]

\* The lines of the file that an #include means: the one beside the file that it
\* stands in, or the first one in a list of directories.
RECURSIVE InFirstOf(_, _)
InFirstOf(name, dirs) ==
    IF dirs = <<>> THEN <<>>
    ELSE IF <<Head(dirs), name>> \in DOMAIN Found
    THEN LET file == Found[<<Head(dirs), name>>] IN Located(File[file], file)
    ELSE InFirstOf(name, Tail(dirs))

Included(line) ==
    InFirstOf(line.words[1],
              IF line.directive = Quoted THEN <<DirOf[line.file]>> ELSE includes)

\* What is left of `lines`, given the table of macros and, innermost first,
\* whether each open conditional holds; `stops` at an absolute name that is
\* looked for in the directories, at a #define of a name that is wrong twice, and
\* where a conditional stays open.
RECURSIVE Reference(_, _, _)
Reference(lines, table, open) ==
    IF lines = <<>> THEN [lines |-> <<>>, stops |-> open # <<>>]
    ELSE
    LET line   == Head(lines)
        rest   == Tail(lines)
        active == FALSE \notin ToSet(open)
        name   == line.words[1]
        kept(l, result) == [result EXCEPT !.lines = <<l>> \o @]
    IN CASE line.directive = "ifdef" ->
              Reference(rest, table, <<table[name] # Undefined>> \o open)
         [] line.directive = "ifndef" ->
              Reference(rest, table, <<table[name] = Undefined>> \o open)
         [] line.directive = "endif" /\ open # <<>> ->
              Reference(rest, table, Tail(open))
         [] line.directive = "endif" /\ open = <<>> ->
              kept(line, Reference(rest, table, open))
         [] line.directive \notin {"ifdef", "ifndef", "endif"} /\ ~active ->
              Reference(rest, table, open)
         [] line.directive = "define" /\ active /\ name \in DigitFirst ->
              Reference(rest, table, open)
         [] line.directive = "define" /\ active /\ BadCharacters[name] > 1 ->
              [lines |-> <<>>, stops |-> TRUE]
         [] line.directive = "define" /\ active /\ Identifier(name) ->
              Reference(rest,
                        [table EXCEPT ![name] =
                            IF Len(line.words) = 1 THEN Empty
                            ELSE Expanded(line.words[2], table)],
                        open)
         [] line.directive = "undef" /\ active ->
              Reference(rest, [table EXCEPT ![name] = Undefined], open)
         [] line.directive \in Includes /\ active ->
              IF name \in Absolute /\ includes # <<>>
              THEN [lines |-> <<>>, stops |-> TRUE]
              ELSE Reference(Included(line) \o rest, table, open)
         [] line.directive = "" /\ active ->
              kept(ExpandedLine(line, table), Reference(rest, table, open))

\* The lines that preprocess leaves are those of the reference, each with the
\* file it came from, with the same expansions: removing, inserting and scanning
\* again never skips a line, takes one twice, ends a conditional at the wrong
\* #endif or looks for a file beside the wrong one.  It crashes on exactly the
\* sources with a conditional left open, or that get to an absolute name the
\* search cannot take or a macro name with two wrong characters.
MatchesReference ==
    status # "running" =>
        LET expected == Reference(Located(source, Input),
                                  [n \in Name |-> Undefined], <<>>)
        IN IF status = "done" THEN ~expected.stops /\ head = expected.lines
           ELSE expected.stops
=============================================================================
