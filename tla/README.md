# Verification of the vector CPU toolchain

TLA+ models of the three programs of this repository: the virtual machine
(`vectorvm`), the assembler (`vras`) and the disassembler (`vrdisas`). TLC checks the
models on small instances, and TLAPS checks proofs of what holds for every value of
their constants. Paths below are relative to `src/`.

## 1. Inventory

| component | source | state | operations |
|---|---|---|---|
| instruction set | `vectorvm/src/virtcore.c` 6-21, 198-237; `virtcore.h` 33-96 | none | field extractors, the table `isa`, encoding macros |
| CPU core | `virtcore.c` 23-184, 276-290 | `struct vcpu_core` | a handler per instruction, `vcore_step` |
| VM host | `vectorvm/src/main.c` | `ram`, the core | initialisation, the loop until halted |
| linked list | `vras/src/linkedList.c` | nodes and their links | append, insert, get, remove, delete |
| preprocessor | `vras/src/main.c` 302-726 | list of lines, list of macros, index | directives, macro expansion |
| encoding | `vras/src/main.c` 51-166, 728-832 | none | operand parsers, table, word macros |
| `assemble` | `vras/src/main.c` 834-1483 | offset, labels, statements, output | three passes |
| paths, whitespace | `vras/src/main.c` 198-264 | none | finding an included file, string handling |
| command line | `vras/src/main.c` 1539-1695 | file names, include directories | `main`, from the arguments to the output file |
| disassembler | `vrdisas/src/main.c` | position in the file | its table, the walk over a file |

How they interact. `main` of the assembler reads a file into a list of lines;
`preprocess` rewrites that list in place, and `assemble` turns it into bytes. Both keep
everything in linked lists, which own the data they hold. The bytes are what the
disassembler lists, and what the host could run: it copies a program to address 0 of its
RAM (two are compiled into it, as arrays of encoding macros) and calls `vcore_step` until
the core has halted. The core reaches memory and ports through four function pointers
that the host fills in.

All three are sequential programs: there are no threads, signals or persistent state.
What is hard about them is elsewhere:

- *Layout repeated*: the encoding exists four times (table and extractors, macros of the
  machine, macros and table of the assembler, disassembler), by hand.
- *Order of options and directories*: the command line is read from left to right, with
  early returns, and the first include directory that has a file wins.
- *Numbers at their limits*: 8-bit data, 12-bit addresses in 16-bit fields, a stack that
  wraps, flags read off top bits.
- *A protocol in memory*: calls and returns trust whatever lies at the stack pointer.
- *A list rewritten under its index*: every directive of the preprocessor removes and
  inserts lines around the index that walks over them.
- *Passes that must count alike*: label addresses come from one pass, bytes from another.
- *Partial failure*: a refused line is dropped, and all counts must behave as if it had
  not been there.
- *Termination*: a program that has lost its way, a file that includes itself.

Correctness, per component: the table is unambiguous and agrees with every encoder; the
arithmetic is that of 8- and 16-bit numbers; calls return behind the call; the zero
register hides `r0`; the list is a sequence, in both directions, without dangling
pointers; the preprocessor does what reading the lines once from top to bottom would do,
and ends; every pass of the assembler counts alike, and labels mean the statement behind
them; a listing is the program it lists; and from the command line to the file, the image
is the one that the source, its macros and its included files should become.

## 2. Modules

| module | models | role |
|---|---|---|
| `Isa` | table, extractors, `MKC_`/`MKI_` macros, all literal | operators |
| `Alu` | the expressions in the arithmetic and logic handlers | operators |
| `VirtCore` | `struct vcpu_core`, one action per handler, `vcore_step` | component |
| `VectorVM` | `main` of the host: initial state, step loop | component over `VirtCore` |
| `FibPrograms` | the two embedded programs | data |
| `CallReturn` | what call and return promise | abstract specification |
| `CallStack` | `VectorVM` with a history of the calls not yet returned from: where the return address is, which registers it was made with | refinement of `CallReturn` |
| `Recursion` | `CallStack` running the programs of `FibPrograms` | properties of programs |
| `ZeroRegister` | two copies of `VectorVM` in lockstep | composition |
| `AluContract` | what programs compute with `Alu` | contract |
| `SequenceList` | a list is a sequence that owns its data | abstract specification |
| `LinkedList` | `linkedList.c`, node by node | component, refines `SequenceList` |
| `Preprocessor` | `expandMacros`, `preprocess` | component, uses the list as a sequence |
| `AsmEncode` | operand parsing, `instructionFormats`, `asmCpuInstr` | operators |
| `Assembler` | the passes of `assemble` | component over `AsmEncode` |
| `Placement` | `Assembler` with a history of where things must lie | specification of the passes |
| `Disassembler` | `vrdisas/src/main.c` | component |
| `Toolchain` | `main` of the assembler; then the disassembler | composition of `Preprocessor`, `Assembler`, `Disassembler` |
| `MC*` | instances for TLC, reference definitions | model checking |
| `VectorVMProofs`, `AluContractProofs`, `ZeroRegisterProofs`, `CallStackProofs` | of the machine | proofs |
| `LinkedListProofs`, `PreprocessorProofs`, `AssemblerProofs` | of the assembler | proofs |
| `NaturalMinimum` | the least element of a set of numbers | lemmas |

### Correspondence with the code

**Machine.** The variables of `VirtCore` are the fields of `struct vcpu_core` and the
host's `ram`; the names are the source's, except `zf cf lts ltu` for the four flags. An
action `instruction_x` is the handler of that name, and `vcore_step` is fetch, table
look-up and the halt on a word that no row matches. Arithmetic keeps its width (`% 256`,
`% 4096`, `% 65536`); bitwise operations on bytes are sums over bits. What `malloc` leaves
in RAM is the constant `Heap`, what a port answers the constant `PortInput`. `vcore_dump`
only prints and is left out.

**Lists.** `LinkedList` keeps `struct ll_head` and the fields of all nodes in one record,
`head`. A cell that has been freed holds `Freed` in every field, so that a pointer left to
it shows. `call` is the last call with what it returned or handed to the list's delete
function; it is there to be compared with `SequenceList`, whose items are `AsSequence`, the
data along the chain. `Preprocessor` and `Assembler`
then use sequences: that is what the refinement allows.

**Preprocessor.** A line is its directive and its words; the text of a word, blanks,
commas and quotes are left out. `head`, `idx` and `macros` are the source's variables, and
each action is one round of the loop of `preprocess`, from `ll_get` to `continue`: the
expansion of the line is part of it, and so are the removals and the `idx--` after them.
`idx` is a `size_t`; below 0 stands for a value that has wrapped around, for which the loop
condition fails. Dereferencing the node that `ll_get` does not find is `status =
"crashed"`, and so are a failed assertion and the use of freed memory, at which the address
sanitizer that `vras` is built with stops it. A line knows the file it was read from. A path
is a directory and a name; `PathOf` is what `resolveRelPath` and `resolveInIncludes` make of
them, and `Asserts` says when the assertion in the former fails: also from the error message
for a quoted file that is missing, which searches the include directories once more. The
constants leave out these cases: directive keywords and file names as names of macros, parts
of a bad name (`A` in `A-B`) as names of macros, indented directives (which are kept as
text), and operands missing altogether.

**Assembler.** A line is what its tokens make it (blank, directive, label, mnemonic with
operands); a token is a register, a number, a word or junk. Each pass takes one step for a
line or statement: `Read`, with one action per kind of line, then `SizeUp`, then `Write`,
with `AllRead`, `AllSized` and `AllWritten` between them. A statement is the source's
`struct statement`, `fields` its operand fields with `calloc`'s zeros. Lines refused half way
(`goto err_ne_tok`) are `CodeRefused`. The text of an `@asciiz` is a sequence of items:
a character, one behind a backslash, `\x` with two hex digits or without, or `//`, which cuts
the line off as at a comment (860). `DirectiveAsciiz` turns items into bytes;
`AsciizRefused` covers a line whose opening quote is not found, because the directive is
skipped by its length from the start of the line (945) and the line is indented, or whose
closing quote is missing; `AsciizCrashes` is the invalid hex escape, which frees the buffer
and goes on writing to it (996).

**Placement.** The history variables say, in positions of the output file, where every
statement and label has to be: `size` and `starts` follow the statements, `shift` is how far the
last `@offset` has put the addresses away from the positions, `places` notes for each label
what is in front of it. They read the code's variables and never influence them.

**Disassembler.** `isa` and the extractors are literal; the handlers fall into groups that
print the same kinds of operands (`Operands`). A printed line is a record of address,
mnemonic and operands with their prefixes, which are part of the model because five handlers
print what the assembler does not read: `bleq` for `beq`, and registers as `t0` to `t7`.
`PrintWord` is one round of the loop; an odd last byte is in no word.

**Toolchain.** The variables of the parts stay apart; `Toolchain` instantiates each part with
its own and gives it what the one before has left: `head` as lines of tokens (`AsmLine`) is the
source of `Assembler`, `buf` becomes the file of `Disassembler`. One action for each branch of the
argument loop (`Help`, `Repeated`, `ValueMissing`, `TakeValue`, `Ignored`), then `Start`, the
steps of the parts, and `Save`. `exit` is what `main` returns, or "crash": the
sanitizer's report of leaks at exit may change the exit code of the process, which is left
out. A macro without a replacement leaves no token behind; lines of directives that
`preprocess` has left (`#else`) are unknown mnemonics to `assemble`.

## 3. Runs

| run | question | size |
|---|---|---|
| `isa` | Do table, extractors, macros, assembler and disassembler agree on every word? | all 65536 words |
| `asm_operands` | Are *all* operands assembled? No: violated | first word with `srstr r2` |
| `alu` | Do the arithmetic units of programs compute numbers? | all pairs of bytes, four upper bytes |
| `alu_ult` | Does `ULT` after `sub` mean "below"? No: violated | pairs of bytes |
| `programs` | Do the embedded programs work, on the machine as it is? | 15 programs, up to fib(14) |
| `zero` | Does the zero register hide `r0`? | every instruction in five situations, two machines |
| `relocated` | Does the program run elsewhere in RAM? No: violated | one program at 0x200 |
| `list` | Is the list a sequence, and its chain sound? | four nodes, four data, indices 0 to 5 |
| `preproc` | Does preprocessing mean what a single reading means? | sources of up to four lines of 15 kinds and of five of 6, three lists of directories |
| `macro_names` | Is a bad macro name refused? No: violated | sources of up to three lines |
| `assemble` | Is every line in its place, do the passes agree? | up to three lines of 18 kinds and four of 7, five origins, `fib.asm` twice |
| `toolchain` | Do arguments and sources become the right image, and its listing? | all orders of up to three options out of nine, and of four; nine sources |

**isa.** `Unambiguous`: no word matches two rows, so their order does not matter.
`RoundTrip`: a legal word is what the macro of its instruction makes of the operands that
the handler would take from it. `AssemblerAgrees`: and what the assembler makes of the
line that names them, for all mnemonics but `in`, `out` and `srstr`. `ListingReassembles`: the
disassembler knows exactly the words that the machine executes, and the line that it prints,
read by the assembler, is that word again; it lists the five mnemonics whose line the
assembler refuses and the three that lose an operand on the way back.

**alu.** `CompareByAdding`: `addi` of a negated constant and a branch is a comparison, with
two constants for which it is wrong (0 in the unsigned order, -128 in the signed one).
`AddChain`: `add` and `adc` make a 16-bit addition. `SubChain`: `sub` and `sbc` make a 16-bit
subtraction unless the low bytes borrow; then the result is 512 too large, because `sbc`
adds the bit that `sub` sets as a borrow. No document says otherwise, so the property states
what programs get. `LogicAgreesWithSum` ties the logic instructions to addition.

**programs.** `FibResult`: when the core halts, the result is the Fibonacci number, in 8 and
in 16 bits. `CodeIntact`: the stack does not reach the code. `Disciplined` is what a program
owes its stack between a call and the return: to pop what it pushed and no more, to leave the
stack pointer alone otherwise, to store over no return address, not to use the stack up, and
to call from below 0x200; nothing in the core enforces it. `CallsReturn`: calls nest, and
return addresses in RAM survive until they are used; this is the refinement of `CallReturn`
under a mapping that reads the addresses back from RAM. `Recursing` goes through the program
that `main` loads instruction by instruction: what is in the registers, what lies on the stack
above the innermost return address, and, for every call not yet returned from, where it returns
to and which argument or intermediate result is saved there; it is the inductive invariant
of section 4, checked for six arguments. `Halts`: the loop ends. Two of the programs have their stack at 0 and 1, so that it
wraps around the end of RAM; another starts at the end of RAM and runs on past it, with a
program counter of 0x1000, to address 0. RAM beyond the program holds words that are no instruction: a
program that strays stops there at once and fails `FibResult`.

**zero.** Two machines whose ports answer differently read `r0` from a port and turn the zero
register on. `R0Hidden`: a step from two states that differ in `r0` alone leads to two such
states, except by `in`, and by `str` with `r0` as address, which reads `r0` as it is.

**list.** `TypeOK`: nothing reachable is freed. `BothWays`: the chain forwards and the chain
backwards are the same nodes, and no others are live. `IsSequence`: every call does to the
sequence what `SequenceList` says, with out-of-range indices and the empty list. Four nodes
are enough to insert or remove in front, behind, between two and next to both ends, and
nothing in the code looks further than one node to either side. Nodes are interchangeable,
which the run uses as a symmetry.

**preproc.** `MatchesReference` compares the lines that are left with those of a recursive
preprocessor that reads each line once, with a stack of open conditionals and a table of
macros, and follows each include to the file it means; the run crashes exactly on sources in
which a conditional is left open, a name that begins with a slash is searched for in the include
directories, or a macro name has two bad characters. `NamesDistinct`: no name has two macros.
`Terminates`: also when a file includes itself behind a guard. Five lines hold two nested
conditionals with a line inside, or a macro defined, used, defined again and used in another
macro. Two directories hold a file of the same name, which includes a file of its own
directory; they are searched in both orders, once behind a directory without the file.

**assemble.** `LinesInPlace` reads the image line by line, with the machine's table: each
jump is in the place where the lines in front of it put it, its address is that of the first
line that has its label (counted from the last `@offset` in front of the label; 0 if there is
none), and a string is its characters with a zero behind them. `LabelsPlaced` says the same
of labels from inside: when the third pass comes to the statement behind a label, it has
written as many bytes as the label's address counts. `JumpsArrive` says it of the finished image,
without a look at the source: a jump to a label has the address of the first label of its name, and
the bytes of the statement behind that label lie where this address counts to. It mentions
the one address that no jump can have: 0xffff is what `resolveLabel` returns for no label. `PassesAgree`: the address of the first
pass is always that of the bytes read so far, the second allocates just those, and the
third fills them and no more. `FibAssembles`: `vras/asm/fib.asm` becomes, byte for byte, the
program `fib[]` of `vectorvm/src/main.c`, at 0 and, with its jumps moved, at 0x200. Four lines
allow a label before and behind a jump with a string, a refused line or another `@offset` in
between. Registers, numbers and words are few because only the table of `AsmEncode` depends
on them, and `isa` has all of those.

**toolchain.** `MakesImage` has a reading of its own of the arguments: the first `-h`, repeated
or unfinished option decides how `vras` ends, whatever is behind it; else the files must be
there. The image is compared with one put together by hand, of the macros of the machine.
`vras/asm/test.asm` has code in front of its `@offset 0x0`, so that its labels count from there;
`main.asm` includes `fib.asm`, which two directories have, with different content, or none
has; `custom.asm` chooses by macros; `again.asm` includes itself behind its guard. Four sources have a fatal line; they leave no output.
`ListedAsAssembled`: the listing shows every instruction at an even place as what it is; of
those that a string of odd size has put out of step, the low byte is shown as the high byte of
another word, and a last odd byte not at all. `Finishes`: every invocation comes to its end,
that of `again.asm` included, whose guard must be defined before the file is read again. Three options in every order hold a repeated option behind
each other one; with four, both files and both directories are given. What the image of `fib.asm`
does when it is run is the run `programs`.

Each property of a passing run comes with a mutant of the modelled code, in the module
beside the definition that it replaces, under which the property fails.

### Disagreements found

1. `virtcore.c:41`: `call` saves the upper byte of the return address with a logical and;
   a call from above 0x1ff returns elsewhere (`relocated`).
2. `virtcore.c:106`: `sub` sets `ltu` by a rule that is right for additions (`alu_ult`).
3. `vras/src/main.c:57`, 64-65: the assembler loses the register of `srstr` and the port of
   `in` and `out` (`asm_operands`).
4. `vras/src/main.c:591`: a macro name reported as invalid is registered, and lines in front
   of it are removed (`macro_names`).

### Fairness and deadlock

`VectorVM`, `CallStack`, `Preprocessor` and `Toolchain` assume weak fairness of their whole next-state
relation, and of nothing smaller: `while(!core.halted) vcore_step(&core)` and the loop of
`preprocess` do nothing else, so that the program takes its next step unless it is stopped
from outside. `Halts`, `ResultInR0`, `Terminates` and `Finishes` are the properties that need it. The
preprocessor, the assembler and the tools together do end, so their runs do not check for
deadlock.

## 4. Proofs

| theorem | says | from |
|---|---|---|
| `VectorVMProofs!TypeCorrect` | registers, flags, stack pointer, segment and RAM keep their widths, for every program, RAM content and port | `ProgramsAssumption`, `HeapAssumption`, `PortInputAssumption` |
| `AluContractProofs!AddChainCorrect` | `add` and `adc` add all 16-bit numbers | upper bytes are bytes |
| `AluContractProofs!CompareCorrect` | the comparison rules, with their two exceptions | none |
| `AluContractProofs!SubChainCorrect` | `sub` and `sbc` subtract all 16-bit numbers, 512 out after a borrow | upper bytes are bytes |
| `AluContractProofs!LogicCorrect` | `and`, `or`, `xor` fit together with addition | none |
| `ZeroRegisterProofs!ZeroRegisterHides` | only `in` and `str` show what the hidden `r0` holds, in any program | as `TypeCorrect` |
| `CallStackProofs!CallsComeBack` | a program that is always `Disciplined` has the calls and returns of `CallReturn` | the same, and `[]Disciplined` |
| `CallStackProofs!FramesNest` | its return addresses keep their order and distances | the same |
| `CallStackProofs!RecursionInvariant` | at each instruction of the program that `main` loads, with any argument byte, registers, stack and code are as `Recursing` says | as `TypeCorrect` |
| `CallStackProofs!RecursionComputes` | it has its Fibonacci number, modulo 65536, when it halts | the same, and `Loaded` |
| `CallStackProofs!RecursionLeavesCode` | its stack never reaches its code | the same |
| `CallStackProofs!RecursionDisciplined` | it is always `Disciplined` | the same |
| `CallStackProofs!RecursionReturns` | it has the calls and returns of `CallReturn`, with no hypothesis about its steps | the same |
| `LinkedListProofs!TypeInvariant` | nothing in the list points to a freed node | the constants' assumptions of `LinkedList` |
| `LinkedListProofs!WalkedBothWays` | both directions visit the same nodes, which are all | the same |
| `LinkedListProofs!ListIsSequence` | the list implements `SequenceList` | the same |
| `PreprocessorProofs!TypeCorrect` | the lines stay lines, the macros macros, the index within the list or wrapped around below 0 | `NameAssumption`, `SourceAssumption` |
| `PreprocessorProofs!NamesStayDistinct` | no name ever has two macros | the same |
| `AssemblerProofs!TypeCorrect` | the passes keep to their lists, operands fit their fields, only bytes are written | `SourceAssumption` of `Assembler` |
| `AssemblerProofs!PassesAlwaysAgree` | the three passes count alike, for every source | the same |
| `AssemblerProofs!LabelsAlwaysPlaced` | every label means the statement behind it, for every source | the same |
| `AssemblerProofs!JumpsAlwaysArrive` | every jump in the image leads to the statement behind the first label of its name, for every source | the same |

*Machine.* The type invariant is inductive as it stands. Lemmas give the ranges of the
extractors, results and flags; one step per handler follows. The types
of words, addresses and bytes enter through `WordBounds`, `AddressBounds` and `ByteBounds`, as two
inequalities: the provers would write an interval of numbers out.

*Arithmetic.* `x` and `y` being bytes is the invariant. The carry of a sum is what its low
byte leaves out (`CarryOfSum`); the flags depend on the top bits of the operands and of the
sum (`MsbOfByte`, `MsbOfSum`), and the comparison follows by cases on those. The low byte of
`sbc` is the difference plus the carry, modulo 256 (`LowByteOfSbc`), and the carry of `sub` is
a borrow (`CarryOfSub`); so the high byte is two too large after a borrow, which is 512 in
the word (`WordOfBytes`, by cases on where byte and word wrap around). A byte is the sum of
the weights of its bits (`ByteIsItsBits`), and the logic instructions agree with the sum at
each weight.

*Zero register.* The invariant is the type invariant of the machine and the domain of the
other one's registers. Both machines are copies of `VectorVM` with the same operators;
`SameDecode`, `SameArithmetic` and their like identify those that read no variable, so that there is one lemma for each
thing that handlers have in common (`Load`, `Jump`, `Arithmetic`, `Store`): if the operands
agree, so do the states afterwards. `Source` agrees in both because `zren` is set. Then one
case per handler, in which every operand must be shown to be a `Source`; `str` is the one
where this fails.

*Calls.* Addresses are on a circle, so that the order of return addresses means nothing.
`Nested` therefore speaks of distances above the stack pointer, `Depth`: return addresses are at
least two bytes apart in the order of their calls, and the last byte of the outermost is not
beyond the end of the circle. `push` and `call` add one and two to every distance, `pop` and
`ret` take them away (`ApartMoves`), and the room that `Disciplined` asks for keeps the bytes
they write out of every frame (`BelowIsFree`). `Kinds` sorts the 39 handlers into six
movements of the stack. That the pushed bytes are read back in the right order, with one bit
for the upper half, is `PushedIsReturned`: it holds up to 0x1ff, and the theorem with any
larger bound in `Disciplined` is false (`relocated`). The hypothesis is a property of programs;
`programs` checks it of the ones embedded in the host, on four places for the stack, and for
the one that `main` loads it is proved.

*Recursion.* `Loaded` says which program is in the host: `programArray(n)`, for any byte n as
operand of its `ldi`; nothing is assumed of the rest of RAM or of the ports. The invariant
`RunInv` is `TypeOK` and `Recursing`. Its parts depend on each other: the core fetches the
words of the program only if the code is as it was copied, the code stays so only if the stack
is above it, and the stack stays there only because the arguments get smaller from call to
call. So each `Activation` says that three bytes for each unit of its argument are enough for everything
above it, which leaves the stack above 3328 for any argument (`SlotsHigh`), and
`RoomBelow` gives the rest of `Disciplined`. What a word is decoded to is proved from its upper
and lower bits (`Decodes` in `VectorVMProofs`), once for each of the 30 addresses (`FetchedAt`).
Then there is a lemma for each group of instructions: loads, the setting up of the segments,
comparisons, `addi`, `add` with `adc`, pushes, pops, the call of the start and the two of the
routine, and `ret`. A call puts an activation in front and shows
that the outer ones are left alone (`CallKeeps`); a return takes it away and finds the value
that its caller has saved in its place (`ReturnKeeps`, `RetSteps`). The sum is right although
its low byte is computed first and its carry is added to other registers
(`LowSum`, `HighSum`), because `Fib16Is` is the equation of the Fibonacci numbers modulo 65536.
That the recursive function `Fibonacci` satisfies its equation is proved from
its definition, without induction over an operator: there is a solution up to each number, since the least number
without one would have one (`SolutionsExist`), and any two agree (`SolutionsAgree`), both by
`MinIsLeast`.

*Linked list.* The invariant `ChainInv` numbers the nodes: the walk from `start` (`Chain`)
visits `len` different nodes, `next` and `prev` go from each to its neighbours, the first and last are
`start` and `end`, and no other node is live. Every call either inserts a node in such a
chain (`GrownChained`; the four insertions of `linkedList.c`, each with its cases for empty
list and ends, are all `Grown`), removes one (`UnlinkedChained`) or leaves it. Since nothing can be proved by induction
over the walk, `WalkAlong` shows that any such numbering is the walk by the least index at
which they would differ (`MinIsLeast`). On the side of the callers, the new numbering is the old
with an element inserted or removed, which is what `InsertAt` and `RemoveAt` of the
sequence library do (`InsertAtIsInserted`, `RemoveAtIsWithout`). The proof of the refinement
showed that `SequenceList` had allowed `append` only together with an index; the run had not
noticed, as its set of indices is not empty.

*Preprocessor.* `Inv` is both properties together: the type of the macros is what makes
the first match of a name exist, and distinct names are what makes removing that first
match leave none of the name. `SplicedType` says what replacing lines does to the length of
the list, from which every action gets the bound on the index; `RemoveAtType` and
`WithoutMacroType` follow the positions of the macros that stay. The first match and the
closing `#endif` are minima of sets; `MinIsLeast` is proved from the well-foundedness of strict
inclusion among initial segments, since no induction theorem with an operator parameter
can be used. The theorems cover every name and number of bad characters, and in particular the
lines that such a name removes.

*Assembler.* `Typed` is the type invariant together with what the status says of the lists. The
agreement of the passes needs more: while the third pass writes, only a prefix of the
statements is in the buffer. `PlacementInv` is `Typed` with three parts. `Contiguous`: `starts`
numbers the statements without gaps, each beginning where the one before ends, and `size` is
where the last ends. `Counted`: the address is `shift + size`, and the total of the second pass
and the bytes of the third are the start of the statement that `i` has come to. `Marks`: each
label's place is the start of the statement behind it. So no sum over the statements, which
would be recursive, appears anywhere; one step of a pass is one step along `starts`.
`ReadCases` reduces the ten kinds of line to what they leave behind (nothing, a crash, a new
address, a label, a statement), and `BytesType` and `EncodedType`
say that what the third pass writes has the size that the first two have counted, and is made of
bytes, for each of the eleven patterns. For the jumps, `ImageInv` adds what the third pass has
done: `Laid` says that each statement behind it lies in the buffer where `starts` has it, which
a pass that only appends keeps (`PrefixKept`), and `Forms` that a statement with a label has the
opcode of a jump, which leaves the twelve bits of the address free (`JumpOpcodes`), so that the
word can be taken apart again (`JumpWord`). `FirstLabel` is `resolveLabel`, by `MinIsLeast`.

Model-checked only: everything about liveness (`Halts`, `Terminates`, `Finishes`), which is out
of the prover's reach, so that `RecursionComputes` says nothing of whether the program halts;
`FibResult`, `CodeIntact` and `Disciplined` for the programs that compute in 8 bits, for a stack
that wraps around the end of RAM and for the start at the end of RAM, as the proofs are about the
16-bit program that `main` loads; `MatchesReference`, `LinesInPlace`, `FibAssembles` and the properties of
`Toolchain`, whose references are recursive or about single sources (of `LinesInPlace`, what
does not depend on its reading of the source is `JumpsArrive`); and the agreement of the tables
(`Unambiguous`, `RoundTrip`, `AssemblerAgrees`, `ListingReassembles`), a finite question that
`isa` answers completely.

## 5. Not modelled

- `stripTrailingSlash` and `stripWhitespace`, the spelling of paths and lines: the models have
  words, which are the same however they are spelled. For the same reason the bounds of
  character buffers (an identifier of 256 characters, `main.c:354`) are left out.
- Files that cannot be opened by the disassembler, and its call without an argument: it
  prints a message and ends.
- The build files; of `test.c`, writing its array to a file.
- `#else`, `#elifdef`, `#elifndef`: listed in `vras/doc.txt`, marked "maybe not?" at
  `main.c:286`; the code keeps them as lines, and so does `Preprocessor`.
- `vcore_dump`, messages, the freeing of memory at the end of `main`.

## 6. Plan

Written in this order: instruction set and core; host, programs, calls and zero
register; list; preprocessor; encoding and assembler; placement and its proofs;
disassembler; toolchain; proofs of the machine, the list, the preprocessor and the
assembler. What is left:

1. The programs that compute in 8 bits, by the argument used for the 16-bit one; and what an
   arbitrary program that is `Disciplined` may do to its code, from a bound on the depth
   of its calls.
2. A relation between the preprocessor's list before and after a directive that does not
   need the recursive reference, so that it can be proved.
