------------------------- MODULE PreprocessorProofs -------------------------
(***************************************************************************)
(* For every source, every set of included files and every macro name,     *)
(* valid or not: the list of lines and the list of macros stay well        *)
(* formed, idx never runs ahead of the lines, and no name is defined       *)
(* twice.                                                                  *)
(***************************************************************************)
EXTENDS Preprocessor, NaturalMinimum, SequenceTheorems

-----------------------------------------------------------------------------
(* The operators on the two lists.                                         *)

\* Lines from..to are replaced, the others stay.
LEMMA SplicedType ==
    ASSUME head \in Seq(LineType),
           NEW from \in Nat, NEW to \in Int, NEW lines \in Seq(LineType),
           from <= to + 1, to < Len(head)
    PROVE  /\ Spliced(from, to, lines) \in Seq(LineType)
           /\ Len(Spliced(from, to, lines)) = from + Len(lines) + Len(head) - to - 1
<1> DEFINE front == SubSeq(head, 1, from)
           back  == SubSeq(head, to + 2, Len(head))
<1>1. Len(head) \in Nat /\ Len(lines) \in Nat
    BY LenProperties
<1>2. front \in Seq(LineType) /\ Len(front) = from
    <2>1. \A i \in 1..from : head[i] \in LineType
        BY <1>1, ElementOfSeq
    <2> QED BY <2>1, SubSeqProperties
<1>3. back \in Seq(LineType) /\ Len(back) = Len(head) - to - 1
    <2>1. \A i \in to + 2..Len(head) : head[i] \in LineType
        BY <1>1, ElementOfSeq
    <2> QED BY <2>1, <1>1, SubSeqProperties
<1>4. /\ front \o lines \in Seq(LineType)
      /\ Len(front \o lines) = from + Len(lines)
    <2> HIDE DEF front
    <2> QED BY <1>2, ConcatProperties
<1>5. /\ (front \o lines) \o back \in Seq(LineType)
      /\ Len((front \o lines) \o back) = from + Len(lines) + Len(head) - to - 1
    <2> DEFINE most == front \o lines
    <2>1. most \in Seq(LineType) /\ Len(most) = from + Len(lines)
        BY <1>4
    <2> HIDE DEF front, back, most
    <2>2. most \o back \in Seq(LineType) /\ Len(most \o back) = Len(most) + Len(back)
        BY <1>3, <2>1, ConcatProperties
    <2>3. Len(most \o back) = from + Len(lines) + Len(head) - to - 1
        BY <1>1, <1>3, <2>1, <2>2
    <2> QED BY <2>2, <2>3 DEF most
<1> QED BY <1>5 DEF Spliced

\* The first match of a list that has one is in the list.
LEMMA FirstMatch ==
    ASSUME macros \in Seq(Macro), NEW words, Defined(words)
    PROVE  /\ Min(Matching(words)) \in 1..Len(macros)
           /\ <<macros[Min(Matching(words))].macroName>> = words
<1>1. DOMAIN macros = 1..Len(macros)
    BY LenProperties
<1>2. Matching(words) \subseteq Nat /\ Matching(words) # {}
    BY <1>1 DEF Matching, Defined
<1>3. Min(Matching(words)) \in Matching(words)
    BY <1>2, MinIsLeast
<1> QED BY <1>1, <1>3 DEF Matching

LEMMA FindMacroType ==
    ASSUME macros \in Seq(Macro), NEW word \in Word
    PROVE  findMacro(word) \in Word
<1>1. CASE Identifier(word) /\ Defined(<<word>>)
    <2>1. macros[Min(Matching(<<word>>))] \in Macro
        BY <1>1, FirstMatch, ElementOfSeq
    <2> QED BY <1>1, <2>1 DEF findMacro, Macro
<1>2. CASE ~(Identifier(word) /\ Defined(<<word>>))
    BY <1>2 DEF findMacro
<1> QED BY <1>1, <1>2

\* An expanded line is a line with the same directive, and the name that #define
\* is followed by is left alone.
LEMMA ExpandedType ==
    ASSUME macros \in Seq(Macro), NEW line \in LineType
    PROVE  /\ expandMacros(line) \in LineType
           /\ expandMacros(line).directive = line.directive
<1> DEFINE words == [i \in DOMAIN line.words |->
                        IF i = 1 /\ line.directive \in NotExpanded
                        THEN line.words[i] ELSE findMacro(line.words[i])]
<1>1. /\ line.words \in Seq(Word) /\ line.directive \in Directive
      /\ line.file \in DOMAIN DirOf
      /\ [directive |-> line.directive, words |-> line.words] \in TextType
    BY DEF LineType
<1>2. Len(line.words) \in Nat /\ DOMAIN line.words = 1..Len(line.words)
    BY <1>1, LenProperties
<1>3. \A i \in 1..Len(line.words) : words[i] \in Word
    BY <1>1, <1>2, ElementOfSeq, FindMacroType
<1>4. words \in Seq(Word)
    <2>1. words \in [1..Len(line.words) -> Word]
        BY <1>2, <1>3
    <2> HIDE DEF words
    <2> QED BY <1>2, <2>1, SeqDef
<1>5. ASSUME line.words # <<>>
      PROVE  words # <<>> /\ (line.directive = "define" => words[1] = line.words[1])
    <2>1. Len(line.words) # 0
        BY <1>1, <1>5, EmptySeq
    <2>2. DOMAIN words = 1..Len(line.words) /\ 1 \in DOMAIN words
        BY <1>2, <2>1
    <2>3. words # <<>>
        <3>1. DOMAIN <<>> = {}
            OBVIOUS
        <3> QED BY <2>2, <3>1
    <2> QED BY <1>2, <2>2, <2>3 DEF NotExpanded
<1>6. [directive |-> line.directive, words |-> words] \in TextType
    <2> HIDE DEF words
    <2> QED BY <1>1, <1>4, <1>5 DEF TextType
<1>7. [directive |-> line.directive, words |-> words, file |-> line.file] \in LineType
    <2> HIDE DEF words
    <2> QED BY <1>1, <1>4, <1>6 DEF LineType
<1> QED BY <1>7 DEF expandMacros

\* The lines of a text, located in a file, are lines.
LEMMA LocatedType ==
    ASSUME NEW text \in Seq(TextType), NEW file \in DOMAIN DirOf
    PROVE  Located(text, file) \in Seq(LineType)
<1> DEFINE line(i) == [directive |-> text[i].directive,
                       words |-> text[i].words, file |-> file]
<1>1. Len(text) \in Nat /\ DOMAIN text = 1..Len(text)
    BY LenProperties
<1>2. ASSUME NEW i \in 1..Len(text)
      PROVE  line(i) \in LineType
    <2>1. text[i] \in TextType
        BY ElementOfSeq
    <2>2. text[i] = [directive |-> text[i].directive, words |-> text[i].words]
        BY <2>1 DEF TextType
    <2>3. text[i].directive \in Directive /\ text[i].words \in Seq(Word)
        BY <2>1 DEF TextType
    <2> QED BY <2>1, <2>2, <2>3 DEF LineType
<1>3. Located(text, file) \in [1..Len(text) -> LineType]
    BY <1>1, <1>2 DEF Located
<1> QED BY <1>1, <1>3, SeqDef

LEMMA ReplacementType ==
    ASSUME NEW line \in LineType
    PROVE  Replacement(line) \in Word
<1> DEFINE left == {i \in 2..Len(line.words) : line.words[i] # Empty}
<1>1. line.words \in Seq(Word) /\ Len(line.words) \in Nat
    BY LenProperties DEF LineType
<1>2. CASE left = {}
    BY <1>2, NameAssumption DEF Replacement
<1>3. CASE left # {}
    <2>1. left \subseteq Nat
        BY <1>1
    <2>2. Min(left) \in left
        <3> HIDE DEF left
        <3> QED BY <1>3, <2>1, MinIsLeast
    <2>3. Min(left) \in 1..Len(line.words)
        <3>1. \A i \in left : i \in 1..Len(line.words)
            BY <1>1
        <3> HIDE DEF left
        <3> QED BY <2>2, <3>1
    <2>4. line.words[Min(left)] \in Word
        <3> HIDE DEF left
        <3> QED BY <1>1, <2>3, ElementOfSeq
    <2> QED BY <1>3, <2>4 DEF Replacement
<1> QED BY <1>2, <1>3

\* RemoveAt takes one element out and moves the ones behind it forward.
LEMMA RemoveAtType ==
    ASSUME NEW S, NEW s \in Seq(S), NEW k \in 1..Len(s)
    PROVE  /\ RemoveAt(s, k) \in Seq(S)
           /\ Len(RemoveAt(s, k)) = Len(s) - 1
           /\ \A i \in 1..Len(s) - 1 :
                  RemoveAt(s, k)[i] = s[IF i < k THEN i ELSE i + 1]
<1> DEFINE front == SubSeq(s, 1, k - 1)
           back  == SubSeq(s, k + 1, Len(s))
<1>1. Len(s) \in Nat /\ k \in Nat
    BY LenProperties
<1>2. /\ front \in Seq(S) /\ Len(front) = k - 1
      /\ \A i \in 1..k - 1 : front[i] = s[i]
    <2>1. \A i \in 1..k - 1 : s[i] \in S
        BY <1>1, ElementOfSeq
    <2> QED BY <1>1, <2>1, SubSeqProperties
<1>3. /\ back \in Seq(S) /\ Len(back) = Len(s) - k
      /\ \A i \in 1..Len(s) - k : back[i] = s[i + k]
    <2>1. \A i \in k + 1..Len(s) : s[i] \in S
        BY <1>1, ElementOfSeq
    <2> QED BY <1>1, <2>1, SubSeqProperties
<1>4. /\ front \o back \in Seq(S)
      /\ Len(front \o back) = Len(front) + Len(back)
      /\ \A i \in 1..Len(front) + Len(back) :
            (front \o back)[i] = IF i <= Len(front) THEN front[i]
                                 ELSE back[i - Len(front)]
    <2> HIDE DEF front, back
    <2> QED BY <1>2, <1>3, ConcatProperties
<1>5. Len(front) + Len(back) = Len(s) - 1
    <2> HIDE DEF front, back
    <2> QED BY <1>1, <1>2, <1>3
<1>6. ASSUME NEW i \in 1..Len(s) - 1
      PROVE  (front \o back)[i] = s[IF i < k THEN i ELSE i + 1]
    <2>1. (front \o back)[i] = IF i <= k - 1 THEN front[i] ELSE back[i - (k - 1)]
        BY <1>2, <1>4, <1>5
    <2> HIDE DEF front, back
    <2>2. CASE i < k
        BY <1>1, <1>2, <2>1, <2>2
    <2>3. CASE ~(i < k)
        <3>1. i - (k - 1) \in 1..Len(s) - k /\ (i - (k - 1)) + k = i + 1
            BY <1>1, <2>3
        <3>2. back[i - (k - 1)] = s[i + 1]
            BY <1>3, <3>1
        <3> QED BY <1>1, <2>1, <2>3, <3>2
    <2> QED BY <2>2, <2>3
<1> QED BY <1>4, <1>5, <1>6 DEF RemoveAt

\* Removing the macro of a name leaves distinct names, and none of that name.
LEMMA WithoutMacroType ==
    ASSUME macros \in Seq(Macro), NamesDistinct, NEW words
    PROVE  /\ WithoutMacro(words) \in Seq(Macro)
           /\ \A i \in 1..Len(WithoutMacro(words)) :
                  <<WithoutMacro(words)[i].macroName>> # words
           /\ \A i, j \in 1..Len(WithoutMacro(words)) :
                  WithoutMacro(words)[i].macroName = WithoutMacro(words)[j].macroName
                    => i = j
<1>1. DOMAIN macros = 1..Len(macros) /\ Len(macros) \in Nat
    BY LenProperties
<1>2. \A i, j \in 1..Len(macros) :
        macros[i].macroName = macros[j].macroName => i = j
    BY <1>1 DEF NamesDistinct
<1>3. CASE ~Defined(words)
    <2>1. WithoutMacro(words) = macros
        BY <1>3 DEF WithoutMacro
    <2>2. \A i \in 1..Len(macros) : <<macros[i].macroName>> # words
        BY <1>1, <1>3 DEF Defined, Matching
    <2> QED BY <1>2, <2>1, <2>2
<1>4. CASE Defined(words)
    <2> DEFINE k == Min(Matching(words))
               without == RemoveAt(macros, k)
               from(i) == IF i < k THEN i ELSE i + 1
    <2>1. WithoutMacro(words) = without
        BY <1>4 DEF WithoutMacro
    <2>2. k \in 1..Len(macros) /\ <<macros[k].macroName>> = words
        BY <1>4, FirstMatch
    <2> HIDE DEF k
    <2>3. /\ without \in Seq(Macro) /\ Len(without) = Len(macros) - 1
          /\ \A i \in 1..Len(macros) - 1 : without[i] = macros[from(i)]
        BY <2>2, RemoveAtType
    <2>4. \A i \in 1..Len(macros) - 1 : from(i) \in 1..Len(macros) /\ from(i) # k
        BY <1>1, <2>2
    <2>5. \A i, j \in 1..Len(macros) - 1 : from(i) = from(j) => i = j
        BY <1>1, <2>2
    <2> HIDE DEF without, from
    <2>6. \A i \in 1..Len(without) : <<without[i].macroName>> # words
        <3>1. SUFFICES ASSUME NEW i \in 1..Len(without),
                              <<without[i].macroName>> = words
                       PROVE  FALSE
            OBVIOUS
        <3>2. macros[from(i)].macroName = macros[k].macroName
            BY <2>2, <2>3, <3>1
        <3> QED BY <1>2, <2>2, <2>3, <2>4, <3>2
    <2>7. \A i, j \in 1..Len(without) :
            without[i].macroName = without[j].macroName => i = j
        BY <1>2, <2>3, <2>4, <2>5
    <2> QED BY <2>1, <2>3, <2>6, <2>7
<1> QED BY <1>3, <1>4

-----------------------------------------------------------------------------
(* The steps.  The two lists are only changed by Spliced and WithMacro.    *)

\* Registering a macro takes an earlier one of the name out of the list first.
LEMMA WithMacroKeeps ==
    ASSUME macros \in Seq(Macro), NamesDistinct,
           NEW name \in Word, NEW replacement \in Word,
           macros' = WithMacro(name, replacement)
    PROVE  macros' \in Seq(Macro) /\ NamesDistinct'
<1> DEFINE without == WithoutMacro(<<name>>)
           macro == [macroName |-> name, replacement |-> replacement]
<1>1. macro \in Macro /\ macro.macroName = name
    BY DEF Macro
<1>2. /\ without \in Seq(Macro)
      /\ \A i \in 1..Len(without) : <<without[i].macroName>> # <<name>>
      /\ \A i, j \in 1..Len(without) :
            without[i].macroName = without[j].macroName => i = j
    BY WithoutMacroType
<1>3. Len(without) \in Nat
    <2> HIDE DEF without
    <2> QED BY <1>2, LenProperties
<1>4. macros' = Append(without, macro)
    BY DEF WithMacro
<1> HIDE DEF without, macro
<1>5. /\ macros' \in Seq(Macro)
      /\ Len(macros') = Len(without) + 1
      /\ \A i \in 1..Len(without) : macros'[i] = without[i]
      /\ macros'[Len(without) + 1] = macro
    BY <1>1, <1>2, <1>4, AppendProperties
<1>6. ASSUME NEW i \in 1..Len(without) + 1, NEW j \in 1..Len(without) + 1,
             macros'[i].macroName = macros'[j].macroName
      PROVE  i = j
    <2>1. CASE i \in 1..Len(without) /\ j \in 1..Len(without)
        BY <1>2, <1>5, <1>6, <2>1
    <2>2. CASE i \in 1..Len(without) /\ j = Len(without) + 1
        <3>1. without[i].macroName = name
            BY <1>1, <1>5, <1>6, <2>2
        <3> QED BY <1>2, <2>2, <3>1
    <2>3. CASE i = Len(without) + 1 /\ j \in 1..Len(without)
        <3>1. without[j].macroName = name
            BY <1>1, <1>5, <1>6, <2>3
        <3> QED BY <1>2, <2>3, <3>1
    <2> QED BY <1>3, <2>1, <2>2, <2>3
<1>7. DOMAIN macros' = 1..Len(without) + 1
    <2>1. DOMAIN macros' = 1..Len(macros')
        BY <1>5, LenProperties
    <2> QED BY <1>5, <2>1
<1> QED BY <1>5, <1>6, <1>7 DEF NamesDistinct

\* Removing one leaves the names of the others distinct.
LEMMA WithoutMacroKeeps ==
    ASSUME macros \in Seq(Macro), NamesDistinct, NEW words,
           macros' = WithoutMacro(words)
    PROVE  macros' \in Seq(Macro) /\ NamesDistinct'
<1>1. /\ macros' \in Seq(Macro)
      /\ \A i, j \in 1..Len(macros') :
            macros'[i].macroName = macros'[j].macroName => i = j
    BY WithoutMacroType
<1>2. DOMAIN macros' = 1..Len(macros')
    BY <1>1, LenProperties
<1> QED BY <1>1, <1>2 DEF NamesDistinct

\* Replacing the lines idx..to leaves idx within the list.
LEMMA SplicedKeeps ==
    ASSUME head \in Seq(LineType), idx \in 0..Len(head) - 1,
           NEW to \in idx..Len(head) - 1, NEW lines \in Seq(LineType),
           head' = Spliced(idx, to, lines)
    PROVE  /\ head' \in Seq(LineType)
           /\ Len(head') \in Nat
           /\ Len(head') >= idx + Len(lines)
<1>1. Len(head) \in Nat /\ Len(lines) \in Nat
    BY LenProperties
<1>2. idx \in Nat /\ to \in Int /\ idx <= to + 1 /\ to < Len(head)
    BY <1>1
<1>3. /\ head' \in Seq(LineType)
      /\ Len(head') = idx + Len(lines) + Len(head) - to - 1
    BY <1>2, SplicedType
<1> QED BY <1>1, <1>2, <1>3

Inv == TypeOK /\ NamesDistinct

\* A conditional that is closed leaves the lines between its two, or none.
LEMMA ConditionalKeeps ==
    ASSUME Inv, idx \in 0..Len(head) - 1, status = "running",
           NEW removeCode, Conditional(removeCode)
    PROVE  Inv'
<1> DEFINE closing == {i \in idx + 1..Len(head) - 1 : Closes(i)}
           endif == Min(closing)
           between == SubSeq(head, idx + 2, endif)
           lines == IF removeCode THEN <<>> ELSE between
<1>1. /\ head \in Seq(LineType) /\ Len(head) \in Nat
      /\ macros \in Seq(Macro) /\ NamesDistinct
    BY LenProperties DEF Inv, TypeOK
<1>2. CASE closing = {}
    BY <1>1, <1>2 DEF Conditional, Inv, TypeOK, NamesDistinct
<1>3. CASE closing # {}
    <2>1. endif \in idx + 1..Len(head) - 1
        <3>1. closing \subseteq Nat /\ closing \subseteq idx + 1..Len(head) - 1
            BY <1>1
        <3> HIDE DEF closing
        <3> QED BY <1>3, <3>1, MinIsLeast
    <2>2. /\ head' = Spliced(idx, endif, lines)
          /\ UNCHANGED <<idx, macros, status>>
        BY <1>3 DEF Conditional
    <2> HIDE DEF endif
    <2>3. between \in Seq(LineType)
        <3>1. \A i \in idx + 2..endif : head[i] \in LineType
            BY <1>1, <2>1, ElementOfSeq
        <3>2. idx + 2 \in Int /\ endif \in Int
            BY <2>1
        <3> QED BY <3>1, <3>2, SubSeqProperties
    <2>4. lines \in Seq(LineType) /\ Len(lines) \in Nat
        <3>1. lines \in Seq(LineType)
            <4> HIDE DEF between
            <4> QED BY <2>3, EmptySeq
        <3> HIDE DEF lines
        <3> QED BY <3>1, LenProperties
    <2> HIDE DEF lines
    <2>5. endif \in idx..Len(head) - 1
        BY <1>1, <2>1
    <2>6. /\ head' \in Seq(LineType) /\ Len(head') \in Nat
          /\ Len(head') >= idx + Len(lines)
        BY <1>1, <2>2, <2>4, <2>5, SplicedKeeps
    <2>7. idx' \in Int /\ idx' <= Len(head')
        BY <2>2, <2>4, <2>6
    <2> QED BY <1>1, <2>2, <2>6, <2>7 DEF Inv, TypeOK, NamesDistinct
<1> QED BY <1>2, <1>3

-----------------------------------------------------------------------------
(* The theorems.                                                           *)

LEMMA InitInv == Init => Inv
<1> SUFFICES ASSUME Init PROVE Inv
    OBVIOUS
<1>1. head \in Seq(LineType) /\ macros = <<>> /\ macros \in Seq(Macro)
    <2>1. source \in Seq(TextType) /\ Input \in DOMAIN DirOf
        BY SourceAssumption, FileAssumption DEF Init
    <2> QED BY <2>1, LocatedType, EmptySeq DEF Init
<1>2. Len(head) \in Nat
    BY <1>1, LenProperties
<1>3. DOMAIN macros = {}
    BY <1>1
<1> QED BY <1>1, <1>2, <1>3 DEF Init, Inv, TypeOK, NamesDistinct

\* A round that keeps the macros and replaces the line at idx by others, with
\* idx where it was or behind them.
LEMMA LineReplaced ==
    ASSUME Inv, idx \in 0..Len(head) - 1, NEW lines \in Seq(LineType),
           head' = Spliced(idx, idx, lines),
           idx' \in {idx, idx + Len(lines)},
           status' \in {"running", "done", "crashed"},
           macros' \in Seq(Macro), NamesDistinct'
    PROVE  Inv'
<1>1. head \in Seq(LineType) /\ Len(head) \in Nat /\ Len(lines) \in Nat
    BY LenProperties DEF Inv, TypeOK
<1>2. /\ head' \in Seq(LineType) /\ Len(head') \in Nat
      /\ Len(head') >= idx + Len(lines)
    <2>1. idx \in idx..Len(head) - 1
        BY <1>1
    <2> QED BY <1>1, <2>1, SplicedKeeps
<1>3. idx' \in Int /\ idx' <= Len(head')
    BY <1>1, <1>2
<1> QED BY <1>2, <1>3 DEF Inv, TypeOK

LEMMA DefineKeeps ==
    ASSUME Inv, idx \in 0..Len(head) - 1, status = "running",
           NEW line \in LineType, Define(line)
    PROVE  Inv'
<1> DEFINE lost  == BadCharacters[line.words[1]]
           first == IF lost > idx THEN 0 ELSE idx - lost
<1>1. /\ head \in Seq(LineType) /\ Len(head) \in Nat
      /\ macros \in Seq(Macro) /\ NamesDistinct
    BY LenProperties DEF Inv, TypeOK
<1>2. line.words[1] \in Name /\ line.words[1] \in Word
    BY NameAssumption DEF Define, LineType, TextType
<1>3. lost \in Nat
    BY <1>2, NameAssumption
<1>4. macros' \in Seq(Macro) /\ NamesDistinct'
    <2>1. Replacement(line) \in Word
        BY ReplacementType
    <2>2. macros' = WithMacro(line.words[1], Replacement(line))
        BY DEF Define
    <2> QED BY <1>1, <1>2, <2>1, <2>2, WithMacroKeeps
<1>5. head' = Spliced(first, idx, <<>>) /\ idx' = idx - lost /\ status' = status
    BY DEF Define
<1> HIDE DEF lost
<1>6. first \in Nat /\ first <= idx + 1 /\ idx \in Int /\ idx < Len(head)
    BY <1>1, <1>3
<1>7. idx - lost <= first /\ idx - lost \in Int
    BY <1>1, <1>3
<1> HIDE DEF first
<1>8. <<>> \in Seq(LineType) /\ Len(<<>>) = 0
    BY EmptySeq
<1>9. /\ head' \in Seq(LineType)
      /\ Len(head') = first + Len(<<>>) + Len(head) - idx - 1
    BY <1>1, <1>5, <1>6, <1>8, SplicedType
<1>10. idx' \in Int /\ idx' <= Len(head')
    BY <1>1, <1>5, <1>6, <1>7, <1>8, <1>9
<1> QED BY <1>4, <1>5, <1>9, <1>10 DEF Inv, TypeOK

\* The invariant is kept by every round of the loop, one step per action.
LEMMA NextInv == Inv /\ [Next]_vars => Inv'
<1> SUFFICES ASSUME Inv, [Next]_vars PROVE Inv'
    OBVIOUS
<1>1. /\ head \in Seq(LineType) /\ Len(head) \in Nat
      /\ macros \in Seq(Macro) /\ NamesDistinct
    BY LenProperties DEF Inv, TypeOK
<1>2. CASE UNCHANGED vars
    BY <1>2 DEF vars, Inv, TypeOK, NamesDistinct
<1>3. CASE Done /\ status = "running"
    BY <1>3 DEF Done, Inv, TypeOK, NamesDistinct
<1>4. ASSUME Next, ~Done
      PROVE  Inv'
    <2>1. PICK line \in {expandMacros(head[idx + 1])} :
              \/ Keep(line) \/ Include(line) \/ IncludeMissing(line)
              \/ IncludeAsserts(line) \/ DefineRefused(line) \/ Define(line)
              \/ DefineCrashes(line) \/ Undef(line)
              \/ Ifdef(line) \/ Ifndef(line)
        BY <1>4 DEF Next
    <2>2. idx \in 0..Len(head) - 1 /\ status = "running"
        BY <1>4 DEF Next
    <2>3. line \in LineType
        <3>1. idx + 1 \in 1..Len(head)
            BY <1>1, <2>2
        <3>2. head[idx + 1] \in LineType
            BY <1>1, <3>1, ElementOfSeq
        <3> QED BY <1>1, <2>1, <3>2, ExpandedType
    <2>4. <<>> \in Seq(LineType) /\ Len(<<>>) = 0
        BY EmptySeq
    <2>5. CASE Keep(line)
        <3>1. <<line>> \in Seq(LineType) /\ Len(<<line>>) = 1
            BY <2>3
        <3>2. NamesDistinct'
            BY <1>1, <2>5 DEF Keep, NamesDistinct
        <3> QED BY <1>1, <2>2, <2>5, <3>1, <3>2, LineReplaced DEF Keep
    <2>6. CASE Include(line)
        <3> DEFINE file == Found[PathOf(line)]
        <3>1. file \in DOMAIN File /\ file \in DOMAIN DirOf
            BY <2>6, FileAssumption DEF Include
        <3>2. Located(File[file], file) \in Seq(LineType)
            BY <3>1, SourceAssumption, LocatedType
        <3>3. NamesDistinct'
            BY <1>1, <2>6 DEF Include, NamesDistinct
        <3>4. head' = Spliced(idx, idx, Located(File[file], file))
            BY <2>6 DEF Include
        <3> HIDE DEF file
        <3> QED BY <1>1, <2>2, <2>6, <3>2, <3>3, <3>4, LineReplaced DEF Include
    <2>7. CASE IncludeMissing(line)
        <3>1. NamesDistinct'
            BY <1>1, <2>7 DEF IncludeMissing, NamesDistinct
        <3> QED BY <1>1, <2>2, <2>4, <2>7, <3>1, LineReplaced DEF IncludeMissing
    <2>8. CASE DefineRefused(line)
        <3>1. NamesDistinct'
            BY <1>1, <2>8 DEF DefineRefused, NamesDistinct
        <3> QED BY <1>1, <2>2, <2>4, <2>8, <3>1, LineReplaced DEF DefineRefused
    <2>9. CASE Define(line)
        BY <2>2, <2>3, <2>9, DefineKeeps
    <2>10. CASE Undef(line)
        <3>1. macros' \in Seq(Macro) /\ NamesDistinct'
            BY <1>1, <2>10, WithoutMacroKeeps DEF Undef
        <3> QED BY <2>2, <2>4, <2>10, <3>1, LineReplaced DEF Undef
    <2>11. CASE Ifdef(line)
        BY <2>2, <2>11, ConditionalKeeps DEF Ifdef
    <2>12. CASE Ifndef(line)
        BY <2>2, <2>12, ConditionalKeeps DEF Ifndef
    <2>13. CASE IncludeAsserts(line)
        BY <1>1, <2>13 DEF IncludeAsserts, Inv, TypeOK, NamesDistinct
    <2>14. CASE DefineCrashes(line)
        BY <1>1, <2>14 DEF DefineCrashes, Inv, TypeOK, NamesDistinct
    <2> QED BY <2>1, <2>5, <2>6, <2>7, <2>8, <2>9, <2>10, <2>11, <2>12, <2>13, <2>14
<1> QED BY <1>2, <1>3, <1>4 DEF Next

\* Whatever the source, the files and the names: preprocess keeps its list a
\* list of lines and its index within it (or wrapped around below 0), also
\* where a bad macro name makes it remove more lines than one.
THEOREM TypeCorrect == Spec => []TypeOK
<1>1. Init => Inv
    BY InitInv
<1>2. Inv /\ [Next]_vars => Inv'
    BY NextInv
<1>3. Inv => TypeOK
    BY DEF Inv
<1> QED BY <1>1, <1>2, <1>3, PTL DEF Spec

\* Whatever the source, the files and the names: no name has two macros.
THEOREM NamesStayDistinct == Spec => []NamesDistinct
<1>1. Init => Inv
    BY InitInv
<1>2. Inv /\ [Next]_vars => Inv'
    BY NextInv
<1>3. Inv => NamesDistinct
    BY DEF Inv
<1> QED BY <1>1, <1>2, <1>3, PTL DEF Spec
=============================================================================
