# Violang: formal models of the parser, the compiler, the stack machine and the collector

Violang is a small S-expression language in C++ (`src/` and `vio-vm.cpp`):
a generated parser, a one-pass bytecode compiler, a stack machine, and a
mark-sweep collector that is not connected to the machine yet. This directory holds
TLA+ models of it, their TLC configurations, and TLAPS proofs. Paths below are
relative to the `src/` of the repository, except `vio-vm.cpp` and `README.md`
(the language's, not this file) at its root; `VioVM.h:441` is line 441 of
`src/vm/VioVM.h`.

Nothing in Violang is concurrent, nothing is stored on disk and no message is
lost. What is hard in it is a *contract that no line of the code states*: the
compiler numbers locals, constants, globals and jump targets, the machine uses
the numbers without checking them, and an error of one byte or one stack slot
is only noticed much later, in another function, or never. The models state the
contract and check both sides of it.

## 1. The system

| component | source | state | operations |
|---|---|---|---|
| Values and code objects | `vm/VioValue.h` | code objects: bytecode, constant pool, locals, scope level, arity | `addLocal`, `addConst`, `getLocalIndex`, type tests, `AS_*` casts |
| Global table | `vm/Global.h` | vector of (name, value) | `define`, `addGlobal`, `addNativeFunction`, `getGlobalIndex`, `get`, `set` |
| Instruction set | `bytecode/OpCode.h` | none | 17 opcodes, one-byte operands, two-byte addresses |
| Compiler | `compiler/VioCompiler.h` | `codeObjects_`, `co` (the code object being filled), the C++ stack of `gen()` | `compile`, the cases of `gen`, `scopeExit`, patching |
| Machine | `vm/VioVM.h` | `ip`, `sp`, `bp`, `fn`, operand stack of 512, call stack | the cases of `eval()`, `push`, `pop`, `peek`, `popN` |
| Collector | `gc/VioCollector.h`, `Traceable` | the list of objects, their marks, the count of bytes | `operator new`, `operator delete`, `cleanup`, `gc`, `mark`, `sweep` |
| Tokenizer | `parser/VioParser.h:112-457` | text, cursor, line, offset of the line's begin | `getNextToken`, eight lexical rules |
| Parser | `parser/VioParser.h:461-801`, `EvaGrammar.bnf` | stacks of states, values and tokens | `parse`, eight productions and their handlers |
| Disassembler | `disassembler/VioDisassembler.h` | the offset it has come to | `disassemble` of each code object |
| Logger, command line | `Logger.h`, `vio-vm.cpp` | none | `DIE`, reading the program, printing |

How they interact: `VioVM::exec(program)` wraps the text in `(begin ...)`, has
it parsed, has the expression compiled (which fills the code objects and the
table of globals that the machine shares), disassembles it, sets `ip`, `sp`,
`bp` and `fn`, and runs `eval()` until OP_HALT. Every error that is checked
calls `DIE`, which exits the process. Many are not checked.

Per component, what makes it correct, and where that is hard:

* **Tokenizer and parser.** Between two tokens only blanks and comments are
  skipped; the tree returned is the one written; a wrong text is given up at the
  first token that cannot follow, and the message names its place. Hard because
  the first lexical rule that matches wins, because the handlers pop stacks
  without looking, and because line and column are carried from match to match.
* **Compiler.** What it emits verifies: on every path each instruction finds the
  operands it needs, two paths to one instruction have the same stack height,
  jumps go to instruction boundaries, indexes name what was meant. Hard because
  patch addresses, `co` and `scopeLevel` are kept across recursive calls of
  `gen()`, and because the slot of a local is a *count of names* at compile time
  and a *count of values* at run time.
* **Global table and pools.** An index once emitted keeps its meaning while the
  tables grow.
* **Machine.** It stays in its stack, bytecode and tables; a return restores the
  caller as it was; a function leaves its caller's slots alone. Hard because
  `popN`, `peek`, `Global::get` and the bounds of locals are not checked (or are
  compared with the capacity of the array), so it holds only for good bytecode.
* **Both together.** The result is what the program means.
* **Disassembler.** It lists the instructions that will run, and reads only what
  is there. Hard because it has its own idea of how long instructions are, and
  reads the compiler's tables after the compiler is done with them.
* **Collector.** A cycle should keep what the roots reach, free the rest, and
  leave no mark that saves garbage next time, although marks start
  uninitialized; the count of bytes, which is to start collections, should not
  drift. Of the first two, the code keeps only the roots and frees nothing
  (section 5).

`PROJECT.json` lists the hazards by line.

## 2. The modules

| module | models | |
|---|---|---|
| `OpCode` | `OpCode.h`, widths of bytes and addresses | constants and conversions, `% 2^8`, `% 2^16` |
| `VioValue`, `Global`, `VioAst` | `VioValue.h`, `Global.h`, `Exp` | values, code objects, name lookup, expressions |
| `VioTokenizer` | `Tokenizer` of `VioParser.h` | state machine, one action per way `getNextToken()` ends or calls itself |
| `VioParser` | `VioParser` of `VioParser.h` | state machine, one action per pass of the loop of `parse()` |
| `VioParserSafety` | reference | comments and the grammar said of tokens, with no automaton; the parser's inductive invariant |
| `VioParsing` | reference | the trees that tokens spell |
| `CommandLine` | `vio-vm.cpp`, `exec()` | the text that is parsed |
| `VioCompiler` | `VioCompiler.h` | state machine, one action per stretch of `gen()` between two recursive calls |
| `VioVM` | `VioVM.h` | state machine, one action per `case` of `eval()` |
| `Violang` | `exec()` | composes the two: compile, set the registers, evaluate |
| `VioVerifier` | the contract between the two | flow of (offset, stack height) through a code object |
| `VioSemantics` | reference | what a program means, by name, with no stack and no indexes |
| `VioDisassembler` | `VioDisassembler.h`, `disassembleBytecode()` | state machine that goes on where `VioCompiler` ends, one action per instruction |
| `VioVMSafety` | | what the machine guarantees for verified code |
| `ViolangSafety` | | what both guarantee together, at every step |
| `VioCorrectness` | | that the result is the meaning, and that there is one |
| `Activations` | reference | calls and returns where every activation has slots of its own |
| `VioActivations` | | `VioVM` on verified code mapped to `Activations` |
| `VioVMBounds` | | what the machine guarantees for any bytecode |
| `VioCompilerSafety` | | what holds inside `gen()`: the code object and the scope each suspended activation will find |
| `VioLayout` | | what code is while `gen()` writes it: whole instructions, open jumps, the activations that will patch them; how far the listing has come |
| `VioVMProofs`, `VioVMBoundsProofs`, `VioCompilerProofs`, `VioLayoutProofs`, `ViolangProofs`, `VioCollectorProofs`, `VioParserProofs` | | TLAPS proofs, of section 4 |
| `VioVectorProofs` | | lemmas about vectors: bounds, `push_back`, concatenation, the last element found by name; about least elements, and the verifier's flow |
| `VioCollector` | `VioCollector.h`, `Traceable` | state machine, one action per turn of a loop |
| `Collection` | reference | a collection as one step, and what can be reached from the roots |
| `VioPrograms`, `VioImages` | | programs; the bytecode of six of them, and bytecode that does not verify |
| `MC*` | | the values of the constants |

### State and actions

**`VioVM`**: `ip`, `sp`, `bp` are offsets (`bp` is the index of the slot the
pointer points to), `fn` the index of the running code object, `stack` a
function on `0 .. STACK_LIMIT - 1`, `callStack` a sequence of frames. Each
action reads the opcode at `ip`, its operands, and does all the case does.
`Halt`, `Const`, `Math(op)`, `Compare`, `JmpIfFalse`, `Jmp`, `GetGlobal`,
`SetGlobal`, `Pop`, `GetLocal`, `SetLocal`, `ScopeExit`, `Call`, `Return` are
the cases in their order; `UnknownOpcode` is the default; `FetchBeyondCode` is a
fetch past the bytecode. `status` is `"died"` after `DIE`. It is `"undefined"`
after an access C++ gives no meaning to (beyond the stack, the bytecode, a pool;
a cast to the wrong object type; the top of an empty call stack); the model
stops there rather than guess. A `popN()` of more than the stack holds is not
noticed by the code: `ScopeExit` moves `sp` below the array and is undefined
with it (`PopBelow`). OP_CALL pops with `popN()` too, but it has read the slot
of the function before, which is the lowest one it drops. OP_JMP_IF_FALSE pops
its condition before it reads the address, so on an empty stack it dies even
where the address is cut off (`JmpIfFalse`); the other instructions read first.
Uninitialized results are choices: `Compare` with an operator byte that is not
one of the six, a condition that is an object.

Operand order is the code's: `BINARY_OP` pops the right operand into `op1`, so
`(- 1 x)` is `x - 1`, as the factorial of `vio-vm.cpp:64-68` needs it. Numbers
are integers: all literals are, and the only operator that leaves them is `/`;
the model gives `/` its value where the quotient is an integer of at most
`NumBound`, and TLC would stop at any other (the programs have none).

**`VioCompiler`**: `work` is the stack of unfinished calls of `gen()`. A task
`[kind |-> "gen", exp]` is a call about to start; the others are what is left of
a call when the recursive one inside it returns, with its C++ locals: for an
`if`, the address to patch; for a `def`, the code object to restore. So
`GenIf`, `IfTested`, `IfConsequent`, `IfDone` are the four stretches of
`VioCompiler.h:167-199`. `GenMissing` is the access of an element the list does
not have (`exp.list[i]`, undefined). `true` and `false` are literals, other
symbols are looked up in `co`'s locals and then in the globals.

**`Violang`** extends `VioCompiler` with an instance of `VioVM` that shares
`codeObjects` and `globals`, as the `shared_ptr` does, and orders the two:
`Compile`, `StartEval`, `Evaluate`. Its specification is `Exec`.

**`VioTokenizer`, `VioParser`**: a text is a sequence of characters, and `str`,
`cursor`, `line`, `lineBegin` are `str_`, `cursor_`, `currentLine_`,
`currentLineBeginOffset_`. `lexRules` gives for each regular expression the
length of its match at the cursor. `statesStack`, `valuesStack`, `tokensStack`
are those of `parse()`, `table` and `productions` its tables. `Shift` asks for
the next token, so after it `status` is `"scanning"` and the tokenizer's actions
(`Match`, `EndOfText`, `UnexpectedCharacter`) run until one returns; then it is
`"parsing"`. There is one action per handler (`ReduceExp`, `ReduceNumber`,
`ReduceAtom`, `ReduceList`, `ReduceEmpty`, `ReduceEntry`), with the pops of the
states before it and the transition after it. `"thrown"` is an exception:
nothing in the program catches one, and `report` is the line and column in its
message. `token` and `read` also keep what was read, for the properties. The
production for the start symbol is never reduced by. `pushState`, `begin` and
`popState` of the tokenizer are never called: there is one state.

**`VioDisassembler`** continues `VioCompiler`: while compilation lasts, `GenStep`;
then `unit` and `offset` walk through the code objects, by the lengths of the
disassembler's own cases (`ShownBytes`), which owe nothing to the machine's
(`InstrLen` of `OpCode`). `Fates` is what may come
of an instruction: an element beyond the end of a vector is undefined, except
that the name of a popped local may still be found where it was.

**`VioActivations`** maps the machine to `Activations`: frame `i` of `callStack`
and the registers delimit the slots of activation `i`. An activation also knows
how many slots its callers hold (`below`), so that the calls that find every slot
taken can be told from those that do not.

**`VioCollector`**: `objects` is `Traceable::objects`, `marked` the set flags,
`worklist` the vector in `mark()`, `it` the iterator of `sweep()`. `delete` and
`cleanup` are those of `Traceable`; `size` is what `operator new` was asked for,
and `Bytes(os)` the bytes that the objects `os` hold. `memory` is what
`::operator new` has handed out and nothing gives back: the call in
`operator delete` is a comment (`VioValue.h:68`), so `delete` only counts.
`references` are pointers from object to object, made by `addConst`; no action
of the collector reads them. None of this is connected: the definitions of
`Traceable`'s static variables (`VioValue.h:95`, `:100`), without which the
collector does not link, the include (`VioVM.h:16`), the base class of `Object`
(`VioValue.h:107`) and the calls (`VioVM.h:190-255`) are comments. The
model is what they would give if they were not, and the roots are any subset of
the heap in any order.

**Mutated forms.** Definitions commented *"Mutated form of ..."* (a dropped
check, an off-by-one, a reset forgotten) are not part of any specification. They
stand beside the definition they damage and are used to test the properties:
with the damaged definition in place, the property listed with it in
`PROJECT.json` fails.

### How the models were compared with the program

The models were written from the source and then compared with the built
program: for all programs of the run `supported_programs` but the largest, the
bytecode and the result are those the binary prints. All 987 programs of
`compiler_forms` were given to a driver compiled with `VioVM.h`, which stops
before the listing: for the 656 that the model compiles the names, arities and
bytes of all code objects and the names of the globals are the same, the 105
that die in the model die, and the other 226 are undefined in it. `VioImages`
holds bytes from the binary's listings. All 10565 texts of `parser_texts` were
given to a driver compiled with `VioParser.h`: accepted or thrown, the tree, and
the line and column of the message are the same as in the model. Programs of the
kinds that `machine_unverified` has were run, too: they agree up to the point
where the model has a choice or says `"undefined"`.

## 3. The runs

| run | what it asks | bounds |
|---|---|---|
| `machine_verified` | on verified bytecode: types, no undefined step, no fatal error but the full stack, stack heights, resumable callers, callers' slots, termination; it implements `Activations` | six programs with recursion, mutual recursion, functions as values, native calls, nested scopes, `n` in 0..3, `STACK_LIMIT` 14 |
| `machine_unverified` | on bytecode that does not verify, `eval()` ends; `sp` never passes the end of the stack, and goes below its begin only where the model ends | 197 programs: the empty one (also that of a file that is not there), missing and mixed operands, wrong calls, a full stack, loops of up to 9 turns left past the code, loops left to a byte that is every opcode in turn, in sums, in calls and in a function, a function that leaves its scope twice and takes `sp` to -1; `STACK_LIMIT` 8 |
| `compiler_forms` | unique names, balanced scopes, indexes kept, patches only in open addresses, termination; the listing shows what runs, misses only names of locals, and ends | 987 programs: every form in every place of every form, two deep, 8 lists too short for their form, and 3 forms whose name is a number or a list |
| `supported_programs` | result and globals are those of `VioSemantics`; the code verifies; operands fit; nothing undefined is done; nothing left on the stack; it halts | 248 programs; the largest has 256 globals, 256 constants and a jump over 256 bytes; `STACK_LIMIT` 64 |
| `collector_cycle` | a cycle implements the atomic `Collection`: roots stay, what cannot be reached goes; it ends; no dangling pointer; the count of bytes is that of the list of objects | three objects of different sizes, any references, any roots, any order, any initial marks, `cleanup()` between cycles |
| `parser_texts` | nothing read is lost, only expressions are accepted, the tree is the one written, errors are noticed on time and at their place, `parse()` ends | 10565 texts: all of up to 3 of 11 characters and up to 4 of 6, all of up to 4 of 8 words (brackets, atoms, comments and strings with line ends, an illegal character), all of up to 7 of `(`, `)`, `a`; the limits of `int`; programs as `main()` and `exec()` wrap them, with comments behind |
| `readme_example`, `readme_condition`, `misfit_frames`, `pending_operand`, `listing_locals` | violated: see section 5 | one to three programs each |
| `collector_references` | violated: see section 5 | those of `collector_cycle` |

Why the bounds are enough:

* `STACK_LIMIT` is 512 in the code. The machine treats all slots alike, so what
  matters is whether a program fits. 14 is more than the finite images need and
  less than the endless recursion wants, so both ends are met; with 8 the
  images `Filling` fill the last slot by an instruction and by a native call.
  The theorems hold for every `STACK_LIMIT`.
* The argument `n` in 0..3 makes every conditional go both ways and each
  recursion return at least twice. Factorial of 0 counts down for ever and ends
  in the full stack.
* Expressions nested two deep put every form into every position of every
  other; deeper nesting meets the same `gen()` with the same kind of context
  (`co`, scope level, open patches), except for scopes, for which `Shadowing`
  goes three deep.
* Three objects are the least for which a sweep can erase the first, a middle
  and the last of the list in one cycle. Symmetry is not used, as `size` tells
  the objects apart.
* Four words are enough for a comment between two tokens and a second comment
  behind it, for an error after a token of several lines, and for a list in a
  list; seven brackets nest three deep and leave entries before and behind a
  closed list. The automaton has 11 states and looks one token ahead; all of its
  table is used. Characters that the rules do not tell apart are represented by
  one or two.
* `machine_unverified` chooses, through the index of a literal, the byte that is
  executed as an opcode after a loop is left one byte too late: all of 0..17, OP_DIV
  in one place only (elsewhere its quotient need not be an integer).

Fairness is weak fairness of the one step relation of each state machine
(`Eval`, `GenStep`, `ListingStep`, `Step`, `Collect`, `Parse`): there is one thread, and it runs. Nothing
is assumed of `Allocate`, `cleanup` or `StartMark`. `Stops`, `Compiles`, `ListingEnds`, `Parses`, `Halts`,
`Ends` and `CollectionEnds` are the liveness properties; `Stops` and `Ends` rely on the
bounded stack for recursion that never ends.

Deadlock is checked in every run. A process that is over stays as it is through
an explicit action (`Exited`, `Finished`).

### What the properties say

* `HeightMatches`, `FramesMatch` (machine): at each step the stack above `bp`
  has a height computed for this offset from the bytes alone, and every
  suspended caller will have its computed height again when it is resumed. This
  is the contract in one line; the rest follows from it.
* `CallerSlotsUntouched`: no step changes a slot below the running `bp`.
* `DiesOnlyOfOverflow`, `Safe`: of all `DIE`s and all unchecked accesses in
  `eval()`, only the `DIE` of `push()` can be reached.
* `RunsAsActivations`: refinement. The one array of the machine, cut at `bp` and
  at the saved base pointers, is a stack of activations that have nothing in
  common: an instruction changes only the slots of its own, a call hands over
  the function and the arguments and nothing else, a return puts one value in
  their place, and the run ends early only when every slot is taken.
* `CompiledCodeVerifies`: the compiler keeps its side for supported programs.
* `OperandsFit`: `TypesFit` of the compiled program, with the constants and
  functions the compiler gave it.
* `RunsSafely`: no step of `eval()` is undefined, and one that dies dies of the
  full stack.
* `ResultIsMeaning`: evaluation by slot and index gives the value, and leaves the
  globals, of evaluation by name.
* `IndexesKept`, `NamesUnique`, `OnlyHolesPatched`, `ScopesBalance`: what the
  compiler may never do to what it has emitted, to its tables and to `co`.
* `CollectsAtomically`: refinement. While a cycle runs, the heap it amounts to
  is `Kept`; the step of `Collection` happens when `gc()` is called, and all of
  `mark()` and `sweep()` are stutters of it. The abstract step keeps the roots
  and drops what cannot be reached from them (but for objects allocated with
  their mark set); of what can be reached and is no root it demands nothing,
  since the code fails it: that is `KeepsReachable`, a property by itself.
* `KeepsReachable`: what `README.md:50` says of the collector; violated.
* `StackInRange`: `sp` is not past the end of the array, and not below its begin
  while nothing undefined was done. That it is not below at all would be false.
* `BytesAreCounted`: at any moment of a cycle, and over any number of them. What
  it counts is the list of objects, not the memory.
* `NothingLost`: the three stacks of `parse()`, read state by state, spell the
  tokens shifted so far, in order. `StacksAgree` is its skeleton: each state
  above the first has one token or one value, so no handler pops an empty stack.
* `AcceptsExpressions`, `ReturnsTheTree`, `GivesUpOnTime`: together, `parse()` returns for exactly the
  texts whose tokens are one expression, and otherwise throws at the first token
  after which no expression could follow, at a character that begins no
  token, or at a number that is no `int`.
* `SkipsOnlyComments`: what lies between two tokens is a sequence of blanks and
  of comments, each ending at its first closing mark.
* `ReportsTruePlace`: the place in a message, computed from increments, is the
  one a reader counts in the text.
* `FilesParse`: a comment at the end of a file does not hide the parenthesis
  that `exec()` adds, because `main()` ends the last line.
* `ShowsWhatRuns`: every offset the verifier's flow can reach is one the listing
  starts an instruction at. Code with a `while` is exempt: its exit address is
  off by one (section 5).
* `OnlyHolesPatched`: a byte that is written twice was 0 before and lies behind
  the code of a jump; that it is the address of a jump that is still open is
  part of the invariant it is proved from.
* `OnlyLocalsMissing`: of the reads of the disassembler that nothing guards, only
  that of a local's name can fail; `ListingEnds`: the walk is over or dead.

**Supported programs** are those with no `while`, no `if` without an
alternative, no `var` where an operand is pending, no `def` inside a function,
no block in a function body that is not itself a block, calls with as many
arguments as parameters, operands of one type, boolean conditions. Outside these
the code has the defects of section 5.

## 4. What is proved

All for every value of the constants: stack sizes, programs nested to any depth,
bytecode and texts of any length, sets of objects of any size.

| theorem | states | assumes |
|---|---|---|
| `VioVMProofs`: `TypeCorrect`, `Safety`, `OnlyOverflow`, `HeightsMatch`, `CallersCanResume`, `CallersKeepTheirSlots` | `[]TypeOK`, `[]Safe`, `[]DiesOnlyOfOverflow`, `[]HeightMatches`, `[]FramesMatch`, `CallerSlotsUntouched` | `ImagesVerified`, `[]TypesFit` |
| `VioVMProofs`: `Refinement` | `RunsAsActivations` | the same |
| `VioVMBoundsProofs`: `InRange`, `NamesKept` | `[]StackInRange`, `GlobalNamesKept` of any bytecode | `ImagesWellFormed` |
| `VioCompilerProofs`: `TypeCorrect`, `NamesStayUnique`, `EveryScopeIsLeft`, `IndexesStay`, `ValuesAlwaysExist` | `[]TypeOK`, `[]NamesUnique`, `[]ScopesBalance`, `IndexesKept`, `[]ValuesExist` | `ExpressionsAreTrees`, `ProgramsAreBlocks` |
| `VioLayoutProofs`: `PatchesHitHoles` | `OnlyHolesPatched` | these and `[]CodeFits` |
| `VioLayoutProofs`: `ListingReadsWhatIsThere`, `ListingShowsWhatRuns` | `OnlyLocalsMissing`, `[]ShowsWhatRuns` of compiler and disassembler | the same |
| `ViolangProofs`: `StackStaysInRange` | `[]StackInRange` of compiler and machine | `ExpressionsAreTrees`, `ProgramsAreBlocks` |
| `ViolangProofs`: `VerifiedCodeRunsSafely`, `NothingStaysBehind`, `ReturnsWithItsResult`, `ResultIsThere` | `RunsSafely`, `[]NothingLeftBehind`, `[]ReturnsOneValue`, `[]LastValueIsResult` of both | these, `[]CompiledCodeVerifies` and `[]OperandsFit` |
| `VioCollectorProofs`: `TypeCorrect`, `CountIsExact`, `Refinement` | `[]TypeOK`, `[]BytesAreCounted`, `CollectsAtomically` | `SizeAssumption` |
| `VioParserProofs`: `TypeCorrect`, `StacksStayInStep`, `OnlyCommentsSkipped`, `AcceptsOnlyExpressions`, `NeverTooLateOrTooEarly`, `MessagesNameThePlace` | `[]TypeOK`, `[]StacksAgree`, `[]SkipsOnlyComments`, `[]AcceptsExpressions`, `GivesUpOnTime`, `ReportsTruePlace` | `TextsAreSequences` |
| `VioParserProofs`: `NothingIsLost`, `TheTreeIsRight` | `[]NothingLost`, `[]ReturnsTheTree` | `TextsAreSequences`, `LettersAreNoQuotes` |

Most modules have a theorem `Invariance` for the inductive invariant the others
follow from (`IInv`, `Bounded`, `CInv`, `PInv`). The refinement of `Activations`
adds three conjuncts to `IInv`, the trees of the parser three to `PInv`, and
`LInv` and `DInv` of `VioLayout` extend the `CInv` of the compiler.

Assumptions:

* `StackLimitAssumption`: there is at least one slot. Both machine modules have it.
* `ImagesVerified`: the machine is started on bytecode for which `Verified`
  holds. It is what `CompiledCodeVerifies` says of the compiler. TLC evaluates
  the assumption for the images of `machine_verified`.
* `[]TypesFit`: an operator gets two numbers or two strings, and a call finds a
  function with as many parameters as arguments, or the native function and a
  number. The machine checks neither and the compiler cannot, so it is a
  property of the program that is run; TLC checks it of the programs of
  `machine_verified`. Conditions need no such assumption: a jump on any value
  is safe.
* `ImagesWellFormed`: code is made of bytes, constants and globals are values
  that exist. Nothing is said of instructions. TLC evaluates it for the images of
  `machine_verified`, and `ViolangProofs` shows it of whatever is compiled.
* `ExpressionsAreTrees`, `ProgramsAreBlocks`: the constant `Expressions` holds the
  programs and the entries of all its lists, and a program is a `begin`, as
  `exec()` wraps it (`VioVM.h:265`). Lists may be too short for their form.
* `SizeAssumption`: each object has a size.
* `TextsAreSequences`: a text is a sequence, of any characters.
* `LettersAreNoQuotes`: the letters of `\w` are those of the alphabet and `_`. A
  symbol that began with a quote would be taken for a string by the constructor
  of `Exp`, which looks at nothing else.
* `[]CodeFits`: each code object has less than 65536 bytes. Addresses have 16
  bits (`VioCompiler.h:611`) and `getOffset()` wraps beyond them, so that patches
  would hit the wrong bytes: the theorems about addresses hold of no longer code.
* `[]CompiledCodeVerifies`, `[]OperandsFit`: what the machine relies on and does
  not check. TLC checks both for `supported_programs`; the programs of section 5
  violate the first.

**The machine on verified code.** None of the properties is inductive by itself:
that `pop()` finds a value says nothing about the next `pop()`. The invariant
`IInv` joins
`TypeOK`, `HeightMatches`, `FramesMatch` and `MainAtBottom` with `Safe`,
`DiesOnlyOfOverflow` and the fact that the code objects and the number of
globals are still those that verified. `Flow(codeObjects, f)`, the points a
function can be in, is closed under `Successors`; a step inside a function goes
to a successor (`LocalStep`), a call goes to the callee's entry and leaves a
frame whose return point is a successor of the call, and a return finds exactly
one value above `bp` (`Admissible` of OP_RETURN), which is the height the frame
was promised. `MainAtBottom` is needed because OP_RETURN is only admissible
outside main and OP_HALT only in it: so the call stack is not empty at a return.
There is one lemma per instruction, over three lemmas for the ways an
instruction changes the stack (`Pushing`, `Replacing`, `Dropping`).

`Flow` applies the steps of execution again and again, to as many points as the
code can have, with a recursive function. `VioVectorProofs` shows that it exists
(`FlowAdvances`), and that execution stays in every set of points that it cannot
leave (`FlowStays`). That `Flow` itself is such a set is part of `Verified`.

**The refinement of `Activations`.** Three facts about frames are added to `IInv`:
the saved base pointers ascend (`BasesAscend`), so that the pieces between them
are disjoint and cover the stack, main's piece begins at slot 0 (`MainAtZero`),
and only the lowest activation is main's (`MainRunsOnce`), so that OP_HALT ends
the last activation. Each step then
falls into one of the abstract actions: an instruction leaves all pieces but the
last (`Stays`, from `CallerSlotsUntouched`), a call cuts the last piece in two
(`InvokeMaps`), a return joins two (`ReturnMaps`), and the `DIE` of `push()`
comes when the pieces fill the limit.

**The machine on any bytecode.** `Bounded` holds no heights and no flow: all that
remains is that registers and saved registers are offsets, that `fn` and
whatever looks like a function is a code object, and that `sp` is in the array.
It has to speak of all slots, also those above `sp`, since a jump into an
operand may bring them back. `sp` never passes the end, whatever is executed.
Below the begin it is a weaker statement: the `popN()` of OP_SCOPE_EXIT can
take it there, the process is then in undefined behaviour, and the model ends in
that very state. The theorem says that no other step does, not that
`sp` stays in the array, which it does not (section 5).

**The compiler.** What is hard is that `co` and the scope level are variables
that recursive calls change, and each suspended activation relies on them.
The invariant gives every height of the C++ stack a code object and a scope
level (`owner`, `level` in `Pending`): what `co` and its level will be when the
activation there is resumed. Neighbours are linked (`Link`): below a block is
the same code object one scope further out, below a `def` the code object saved
in `prevCo`, in any other case nothing differs. Code objects that no activation
waits for have been left (level 0), and main is at level 0 only outside
the program's block, so `isGlobalScope()` cannot be true in a nested one.
Each action either replaces the top activation (`Resuming`), suspends it
(`Suspending`) or, at the end of a `def`, gives back the code object
(`Restoring`). `LocalsNested` says that locals lie in the order of their scopes,
which `scopeExit()` needs to pop just those of the scope; `ParametersFirst`
that a function's own name and parameters stay under them. When the work is
over, height 0 is reached with main at level 0: `ScopesBalance`. That tables only
grow (`IndexesKept`) is proved of the same steps.

**The code while it is written.** `Layout` gives each code object the set of the
offsets where its instructions start (`starts`) and each activation the code
object it will find (`owner`). The jumps that are still to be patched are
computed from the addresses that the suspended `if`s and `while`s remember
(`Holes`); each is a jump with an address of 0, and no two activations remember
the same one. So a patch goes into a hole and every other byte is written once:
`OnlyHolesPatched`. All other jumps land on starts (`Lands`), except in code with a
`while`, whose exit address is one byte too high: its jump back (`IsLoopEnd`) is
already there when the exit is patched. What an operand names is in its table
when it is emitted, and tables grow (`Readable`).

TLC can evaluate `Layout` but not choose `owner` and `starts`. Before it was
proved, the invariant was checked on the programs of `compiler_forms` with the
two written out.

**The listing.** `Listed` adds that the disassembler stands at a start and has shown
the starts before it: its instruction lengths and the compiler's are the same. So
what it reads is there (`OnlyLocalsMissing`). And the verifier's flow only comes to
starts: it begins at one, goes on to the next and jumps to others, as long as
execution does not run out of the code (`Complete`). `ShowsWhatRuns` follows by
an induction over the iterations of `Flow`.

**Compiler and machine together.** Until `eval()` starts, the invariant is that of
`gen()`, with `ValuesExist`. When it starts, the code objects are bytes and the
constants are values, which is what the theorems about any bytecode ask of the
machine's initial state: `StackStaysInRange`. If the code verifies, it is also what
the theorems about verified code ask, and their invariant is that of the rest of
the run: `VerifiedCodeRunsSafely`. The verifier demands that OP_HALT finds a height
of 1 and OP_RETURN one value above the base, which gives `NothingStaysBehind`,
`ReturnsWithItsResult` and `ResultIsThere`. The last two state the properties that
`misfit_frames` and `readme_condition` show to be violated by programs whose code
does not verify.

**The collector.** `CInv` follows the phases: in `mark()` each root is marked or
in the worklist and nothing else is, in `sweep()` no object before the
iterator is marked, so the objects before it and the marked ones behind it are
what the cycle will keep. The roots are part of it and all else of it had its mark
set before, so nothing is kept that is neither reachable nor stale. `KeptIs` shows from it that the heap the
cycle amounts to does not change while it runs; the count of bytes is exact
since an object is deleted only when it is in the list (`BytesTaken`), and so the
unsigned counter never passes below zero. Nothing is proved about memory, and of
reachability only that what cannot be reached goes.

**The tokenizer and the parser.** `PInv` has four parts, for what is carried
from step to step.

* `CursorOK`: `line` and `lineBegin` are what counting in the text gives at the
  cursor. A match of `n` characters adds its own line ends (`LinesMore`), so
  `ReportsTruePlace` follows for messages at the cursor, and the place put into a
  token stays true until parse() uses it.
* `TokensOK`: what was skipped up to the cursor can be cut into blanks and
  comments. `SkipsOnlyComments` is said with a recursive function over the text;
  the proofs replace it by the existence of a set of offsets where the text is
  cut, which satisfies the same equation, so that no offset is the least one
  where the two differ (`IgnorableIsCuttable`). A match adds one cut.
* `StatesOK`, `NumberOK`: which states may lie on which (`Above`). The table alone
  does not say what a reduction finds below the states it pops; `Above` does: below
  9 are 8 and 7, below 10 are 8 and 7, and all else lies on 0 or 8. So a
  transition never misses, and `StacksAgree` is kept: of the popped states, as
  many stand for tokens as the handler pops (`ReducedTop`, `ReducedList`,
  `ReducedEmpty`, `ReducedEntry`).
* `NestingOK`: the automaton has no counter of parentheses, the stack is one. As
  many 7s lie on it that no 9 closes as parentheses are open in the tokens
  shifted, and before the last of these at least one was open. So state 1 is on
  top only after one whole expression (`AcceptsExpressions`), the tokens shifted
  are always the beginning of one (`NestedBegins`), and each empty entry of
  `table` under the states that can be on top is a token after which none can
  follow (`FailsWhere`, `UnexpectedIsWrong`). That is `GivesUpOnTime`, in both
  directions; the throw of `std::stoi` is traced to the token shifted
  last (`NumberIsRead`).

**The trees of the parser.** `Spells` says that a text of expressions becomes the
tokens when the lists in it are replaced by their entries in parentheses, often
enough. The invariant `Trees` says it of the text that the stacks hold, with a set
of expressions (`Forest`) that has the entries of all its lists, so that every
replacement stays in it. A shift adds one item to both sides (`SpelledMore`). A
reduction of an entry or of an atom leaves the text as it is. The reduction of a
list is one replacement undone (`SpelledFolded`): it puts the list in the place of
its parentheses and entries, and one more depth spells it. That the depth is
bounded by the number of tokens, as `Spells` demands, is kept by counting it
together with the length of the text (`Spelled`). The replacement is a recursive
function, as is the flattening of sequences in the library: the proofs show that
they exist and what their steps are, by least counterexamples.

Only model-checked:

* all liveness (`Stops`, `Compiles`, `ListingEnds`, `Halts`, `Ends`, `Parses`,
  `CollectionEnds`), which needs fairness and ENABLED;
* `ResultIsMeaning`, which compares with a recursive evaluator;
* `CompiledCodeVerifies`, which is true of supported programs and false of others:
  a proof needs the height at every start in `Layout`, for a grammar of
  supported programs;
* `TypesFit` and `OperandsFit`, which are assumptions about programs;
* `FilesParse`, which is about the texts of its run.

Theorems that take an operator cannot be used with the provers at hand, so the
induction theorems of the library cannot; where a proof needs induction it is done
with the least number in a set (`Least`, `Greatest`, `Induction` of
`VioVectorProofs`).

## 5. Disagreements found

Each was seen in the model and, where it shows, in the program. The collector
cannot be run: see section 6.

1. `readme_example`. The example of `README.md:5-9`, its conditions written as
   lists, leaves the `while` to an address one too high (`VioCompiler.h:218`,
   `getOffset() + 1`): the machine runs past the bytecode.
2. `readme_condition`. The first two lines of it with `x` 5: an `if` without an
   alternative leaves no value when the condition is false
   (`VioCompiler.h:192`), and OP_HALT pops an empty stack.
3. `misfit_frames`. Functions that return with too much or too little on the
   stack: a block in a branch of a body that is no block (scope level 1 stands
   for "function body", `:541`), a block body with neither parameters nor
   variables (`:462`), a local `def` (`:547`). Each of the three programs
   violates `ReturnsOneValue` alone.
4. `pending_operand`. `(+ a (begin (var z 5) z))` in a function stores `z` in the
   slot of the pending `a` (`:238`).
5. `listing_locals`. The listing of a function with a variable of its own reads
   the variable's name from `co->locals` (`VioDisassembler.h:131`) after
   `scopeExit()` popped it. The binary prints what is left there, or crashes.
6. `collector_references`. `getPointers()` is empty for every object
   (`VioCollector.h:42`; its body is a comment), although `README.md:50` has the
   collector "following references and marking all reachable objects": only the
   roots survive.

Described by the models but without a run of their own: "Any objects that are
not marked are freed" (`README.md:52`), but the call that would free them is a
comment (`VioValue.h:68`), so they are taken from the list, counted off, and
stay allocated; `popN()` has a `DIE` for the empty stack (`VioVM.h:183-185`)
that asks for the capacity of the array, which is never 0, so a function that
leaves its scope twice, called first in main, takes `sp` to one slot below the
array, where the next `push()` writes; `(if 1 2 3)` takes the alternative,
because OP_JMP_IF_FALSE reads the low byte of the number (`VioVM.h:353`), while
`OpCode.h:32` says "if the value on the stack is false"; `(+ 1 "a")` pops both
operands and pushes nothing (`README.md:45` says the result is pushed back);
every turn of a `while` leaves the value of its body on the stack
(`VioCompiler.h:212`); a user's function called `main` is taken for the
program's (`:536`); the 257th constant or global of a program wraps to index 0
(`:641`); a block with variables in main makes `getVarsCountOnScopeExit` read
`locals.back()` of an empty vector (`VioCompiler.h:599-604`), as the second
program in the comments of `vio-vm.cpp` does; with `-e` a comment at the end of
the program swallows the `)` that `exec()` adds, and the message is "Unexpected
end of input"; `(x>10)` of the README lexes as a list of the one symbol `x>10`,
and `-1` and `a//b` as symbols too, which are undeclared names and so fatal
errors of the compiler; a file that cannot be read is run as the empty program,
whose OP_HALT pops an empty stack.

## 6. What is not modelled

* **The regular expressions' engine**: a rule is the length of its match. `.` stops
  at line feed and carriage return; `\s` is blank, tab,
  line feed, carriage return and form feed (the vertical tab cannot be written in
  a TLA+ string); the letters of `\w` are those of the texts, and the code does not
  tell others apart.
* **The wording of messages and listings.** Of a message the place is modelled,
  of a listing what is read for it.
* **The text between parser and compiler.** `VioParser` returns the trees that
  `VioCompiler` takes, but names are sequences of characters in the one and
  strings in the other, so the two are not composed.
* **Doubles.** Rounding, infinities and division with a remainder.
* **Usage message, reading of the file, Logger output, `dumpStack`,
  `opcodeToString`.** Input and printing.
* **Dead code**: `compileFunction`, `isLambda`, `isFunctionDeclaration`,
  `blockEnter` and the class and cell objects that nothing creates.
* **The collector in the machine.** It is not connected. The include of it
  (`VioVM.h:16`), the calls and the choice of roots (`VioVM.h:190-255`) are
  comments; so are the definitions of `Traceable`'s two static variables
  (`VioValue.h:95`, `:100`), without which a program that used it would not link,
  and the version of `Object` that derives from `Traceable` (`VioValue.h:107-110`).
  What is modelled is the algorithm, over the heap that these comments describe.

## 7. Plan

Done: the instruction set, values, globals (1), the machine (2), the verifier
and the machine's safety (3), the compiler (4), their composition and the
by-name semantics (5), the collector and its abstract specification (6), the
proofs about the machine (7), the tokenizer and the parser (8), the disassembler
(9), activations and the refinement (10), the proofs of that refinement, of the
collector and its refinement, of the machine on any bytecode, of the
compiler, and of the tokenizer and parser (11).

Then the code while it is written and the listing (12), compiler and machine
together (13), and the trees of the parser (14).

Next would be `CompiledCodeVerifies` for every supported program: `Layout` with a
height at each start, which is the number of locals and pending operands that
`gen()` has in mind there.
