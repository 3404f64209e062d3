---------------------------- MODULE MCMacroNames ----------------------------
(***************************************************************************)
(* Sources with a macro name that has one character which no name may have *)
(* in it, the - of A-B.                                                    *)
(***************************************************************************)
EXTENDS Preprocessor

MCName == {"A", "A-B"}
MCBadCharacters == [n \in MCName |-> IF n = "A-B" THEN 1 ELSE 0]
\* There is nothing to include.
MCFile == <<>>
MCFound == <<>>
MCDirOf == [main |-> "asm"]
MCIncludePaths == {<<>>}

MCLines == { Line("", <<"A">>),
             Line("define", <<"A", "x">>),
             Line("define", <<"A-B", "x">>) }

MCWord == MCName \cup {"x", Empty}

MCSources == UNION {[1..n -> MCLines] : n \in 0..3}

-----------------------------------------------------------------------------
\* A #define whose name is reported as violating the rules (main.c:590) has no
\* effect: the line goes, as it does for a name with a digit in front, and
\* neither the macros nor any other line change.
BadNameRefused ==
    [][ status = "running" /\ idx \in 0..Len(head) - 1
        => LET line == head[idx + 1]
           IN line.directive = "define" /\ BadCharacters[line.words[1]] # 0
              => macros' = macros /\ head' = RemoveAt(head, idx + 1) ]_vars
=============================================================================
