# WhyR in TLA+

WhyR translates LLVM IR with `whyr.*` annotations into theories and goals for
Why3, and can run Why3 on the result.  This directory holds TLA+ models of the
parts of WhyR in which something can go wrong over several steps, the TLC
configurations that check them, and TLAPS proofs of the properties that matter
most.  Paths below are relative to `src/` (the repository); `E` stands for
`src/esc_why3.cpp`.

## 1. The system

WhyR is a sequential pipeline, driven by `main` (`src/main.cpp`).  The only
concurrency is the child process that `execWhy3` forks.

    options -> moduleFromIR/Bitcode -> annotate -> addRTE? -> generateWhy3
            -> output -> warnings, errors, exit code -> execWhy3? -> Why3Output

| component | code | state | operations | modelled by |
|---|---|---|---|---|
| Command line | `main.cpp`, `whyr.hpp` | `WhyRSettings` (flags, `errors`, `warnings` lists) | `main` | Emission: the flags that change what is printed, the exit code |
| Import | `import.cpp` | none | read a file through LLVM | no: I/O |
| Annotations | `module.cpp`, `function.cpp`, `instruction.cpp` | the list of annotated functions, the clauses of each function and instruction | `annotate` of module, function, instruction; `addAssignsAssertions` | Annotate |
| Metadata parser | `parser.cpp`, `logic.cpp` | `logicLocals`, the stacks of bound names | `parseMetadata` and one case per node | Expressions: what types a clause is made of; Annotate: it parses or does not |
| WAR parser | `war.y`, `war.l`, `war.cpp` | flex's buffer, the current source, the stacks of bound names | `parseWarString` and the grammar's actions | War (with WarTerms): scanner, parser, names; Expressions: casts and `in` |
| Expressions and types | `expr_*.cpp`, `type_*.cpp` | immutable trees | `checkTypes`, `toWhy3`, `toString` | Expressions: the types; War: the names; Rte: what those that `addRTE` builds mean |
| Runtime error assertions | `rte.cpp` | the assert clauses | `addRTE` | Rte (the clause), Annotate (joining it) |
| Type discovery | E 23-222, 453-496, 2799-2869 | `TypeInfo`, sets of types and functions used | `getTypeInfo`, `addImports` | Discovery; Emission: calls and null clauses |
| Ordering | E 2664-2760 | the result list and a shrinking hash set | `getCorrectDerivedTypeOrder`, `getCorrectFunctionOrder` | TopoOrder, DepOrder |
| Names | E 228-415 | none | `getWhy3SafeName`, `getWhy3...Name` | no: pure functions on strings |
| Integer theories | E 1932-2110 | none | `addCommonIntType`, `addIntType` | Rte: what the RTE checks use; Opcodes: what the instructions use |
| Other type theories | E 2110-2446 | none | pointers, arrays, structs, vectors, floats | Discovery: what each imports, in which order; MemModel: pointers and sizes; the rest is text without control |
| Memory model | E 2446-2660 | none (axioms) | `addGlobals`, `addMemoryModel` | MemModel |
| Verification conditions | E 417-1930, 2760-2797 | the output stream | `addInstruction`, `addBlock`, `addGoal`, `addGoals` | VCGen (one function), Emission (the module) |
| Running Why3 | `exec_why3.cpp` 25-84 | two pipes, two processes | `execWhy3` | ExecWhy3 |
| Reading the answer | `exec_why3.cpp` 85-210, `main.cpp` 222-264 | a cursor into the answer, the list of goals | `Why3Output` | Why3Answer |
| Errors | `exception.cpp` | `settings->errors`, `settings->warnings` | exceptions with a source | Annotate, Emission: that they are recorded |

How they interact.  `annotate` fills the clauses that `addRTE` extends and
`generateWhy3` prints.  Errors and warnings travel in `WhyRSettings` and reach
the exit code only at the end of `main`.  `addAssignsAssertions` reads the
list of functions that `AnnotatedModule::annotate` is still filling.
`generateWhy3` prints each function's theory once in dependency order, then
prints it again for each goal with one clause in another role.  Why3's verdicts
come back as text.

What is hard here:

* a goal is sound only in the company of all the others, since each assumes
  what the others prove (VCGen);
* one Why3 constant stands for an SSA value in every iteration of a loop (VCGen);
* the order in which a hash set is walked decides the order of the theories,
  and cycles must cost only what depends on them (DepOrder);
* parent and child share two bounded pipes and can each fail at any call
  (ExecWhy3);
* three writers share an assert clause, and a list is searched while it is
  being built (Annotate);
* clauses and goals can be lost at several points between the metadata and the
  exit code (Emission);
* facts about memory must not outlive the stores that refute them, and the
  axioms are about pointers that are only as good as the arithmetic on them
  (MemModel);
* bounds of integers in two theories, for scalars and vectors (Rte), and what an
  instruction is said to compute in a theory where nothing wraps (Opcodes);
* `checkTypes` and `toWhy3` of some forty classes must agree on what is well
  typed, and each is written without looking at the other (Expressions);
* scanner and parser are global state that one annotation leaves for the next,
  also when it ends in an exception (War);
* an expression is parsed with stacks of names and printed without
  parentheses for Why3's scopes (War);
* which theories are printed, imported and named is decided by three walks
  over the same module at three times (Discovery);
* Why3 may die in the middle of its answer, and its reader has no notion of
  an end (Why3Answer).

`PROJECT.json` lists each hazard at its line, with the properties that watch it.

## 2. Modules

| module | what it is |
|---|---|
| `TopoOrder` | what an order of theories must satisfy: the abstract specification |
| `DepOrder` | the worklist; implements TopoOrder |
| `VCGen` | the goals of one function, and the executions they are about |
| `ExecWhy3` | parent, child and pipes |
| `Why3Answer` | what becomes of the text ExecWhy3 returns |
| `Annotate` | from metadata to clauses |
| `WarTerms` | the annotation language as far as it has names: how terms are written, what their locals mean |
| `War` | scanner, parser and printer of that language, over several annotations |
| `MemModel` | the axioms about memory, against a machine |
| `Discovery` | which theories a file has, imports and names |
| `Emission` | from clauses to a file and an exit code; composes Annotate and the order TopoOrder allows |
| `Rte` | the clause `addRTE` builds, evaluated in both integer theories |
| `Opcodes` | the equation `addInstruction` prints for an integer instruction, in both theories; extends `Rte` |
| `Expressions` | expression classes: their type checks against the sorts of the text they print |
| `MC...` | constants for TLC, claims of the documentation |
| `...Proofs` | theorems and proofs |

Operators named `Faulty...` are the definition after them with a plausible bug
put in; they are there to show that a property can fail, and nothing refers to
them.

### TopoOrder and DepOrder

`getCorrectDerivedTypeOrder` and `getCorrectFunctionOrder` are the same loop
twice, so they are one module over a set `Node`.  `notSeen` is the
`unordered_set`, `pass` the part of it the iterator still has to visit, `out`
the returned list, `changed` the flag.  The iterator's next element is any
element of `pass`: that covers every hash function.  Erasing the element the
iterator stands on does not change which elements are still to be visited.
`TopoOrder` says only what Why3 needs: place a node when everything it names is
placed, finish when nothing more can be placed.

### VCGen

The theory of a function has a constant for each SSA value and each memory
state, a predicate for each block, and axioms that equate the predicate of a
block with a chain of implications.  In the model an instruction sees one
memory and one local, `at[n]`, and `H` is the set of instructions whose chain is
true, the suffixes of the block predicates.  `Chain` and `Statement` are the
formulas `addBlock` and `addInstruction` print, for the goal `g`; `Solves` says
that the block axioms hold; `Proves(p, g)` that the goal follows.  Why3's answer
is taken to be exactly that: an ideal prover.  The actions from `addFunction`
to `goalsDone` print the goals in the order of the code, and the actions from
`Enter` to `Branch` run the function and note whether a clause fails.

Abstracted: what an instruction computes is an arbitrary function of memory and
local; a contract of a callee is a set of pairs.  Several locals, the statepoint
names and the text are left out.  A `call` binds the callee's `exit_state`, as
the clone of its theory does.  A run keeps the callee's contract: its own
goals, in its own theory, establish it.

### ExecWhy3

`holds` is the set of pipe ends each process has open, `inPipe` and `outPipe`
the bytes in the pipes, of which each holds at most `Cap`.  Every system call of
`execWhy3` is an action, with the outcomes the manual gives it: `write` puts
bytes into the pipe as there is room and raises SIGPIPE when nobody can read,
`read` returns 0 when the pipe is empty and nobody can write, `waitpid` blocks.
Why3 itself is external: it reads its input until the end or until it finds an
error (`stopAt`), may print at any time, and exits when it has printed all.
Bytes are counted, not spelled.

### Annotate

`stage`, `func` and `inst` are where the nested `annotate` methods are;
`listed` is how much of `AnnotatedModule`'s list exists when
`addAssignsAssertions` asks it for a callee.  An assert clause is the set of its
conjuncts, so that joining with `and` is union; a conjunct that `annotate`
makes up carries the two frames it compares, and `null` is a null pointer that
was put into an expression: whyr crashes when it prints the clause, so no clause
with one is ever proved.  An assigns clause that breaks in the middle keeps
the sets before it, as the code does.  `AllocatedAfter` is the set of locations
of which the memory model's `allocated_after` holds at the entry: the check on a
store is `old (fresh p) or p in assigns`, and what `fresh` amounts to is a
question for MemModel, where `FreshMeansNew` is refuted: it is true of the
globals too.  `WritesDeclared` says that what a run of a function writes is
allocated later or in the frame of a function that it runs (`RunBy`), itself
included, as far as the checks can see the calls (`CallsSeen`): no check is put on
a call through a pointer, nor on one of an unannotated function further down the
file (`UnannotatedCalleeUnprovable`).  It does not say that the
caller's own frame covers the callee's; the code's check does not give that
(`CallsRespectFrame`).  The model covers `main`'s use, with settings present:
a `WhyRSettings` of NULL makes the methods rethrow instead.

### MemModel

The machine has objects made of bits (`cells`) and real addresses.  The
theories have pointers with a base and an offset, and `n_allocs`.  `regs` are
the addresses the program holds, each with the machine's address and the term
Why3 has for it.  `known` is what Why3 can derive about the current state: facts
"a load at p, at type t, gives v".  `store_then_load` adds one, `load_separation`
keeps those that `separated` allows, and everything else forgets.  Entering the
function forgets what `state_init` stored, because nothing is said of
`entry_state`; a call forgets everything, because `havoc` keeps a location only
when `mem` is false of it and no axiom ever makes it false.  The fields `size`
and `static` and the predicates `valid_read` and `valid_write` are left out:
nothing that is printed uses them.

Two facts about the printed axioms are hypotheses of `KnownIsTrue` and named as
such.  `Consistent`: `bits` is positive and the same for all types with one Why3
type, which the size axioms say and which `--int-mode int`, where all integers
are the Why3 type `int`, contradicts.  `Exact`: a term denotes the address the
machine computed, which the first index of `getelementptr` breaks (`GepFindsElement`).

### Emission

Extends Annotate, whose actions are the first phase, and goes on where it ends:
the order of the functions is any that TopoOrder allows (`DepOrderProofs` shows
the code returns such an order), then one theory per function, warnings, goals
in module order, exit code.  A theory is the function, its goal, what that goal
proves and the theories it clones.  The combined goal of `-G` proves the function's
ensures and assert clauses; the requires clause of a callee is printed only where
the goal is that call (E 1803), so the combined goal does not have it.
`ZeroMeansNothingLost` says that each obligation is proved by a goal of the
file or one of the two kinds that `-G` gives up (`GivenUp`).  The two crashes the code can reach, a null pointer in a
clause and a call through a pointer in `addGoals`, are actions.

### Rte

`addRTE` builds the clause from opcode, flags and the number of elements, as a
set of checks; `Execute` then picks operands.  `CheckHolds` evaluates a check
as the printed theory defines it: in `--int-mode int`, integers are unbounded
and a register's bits can be read as signed or unsigned; in `bv` arithmetic
wraps.  Constants have the values that are printed: `MAXINT` is 2^(W-1),
`MININT` is -2^W, and -1 is printed unsigned.  Division by zero and `pow2` of a
negative number are unspecified in Why3, so a check that needs one counts as
not provable.  `Undefined` is LLVM's side.

### Opcodes

`addInstruction` (E 856-980, 1367-1495) prints one equation per instruction, which
every later goal assumes.  `Opcodes` extends `Rte` with the right hand side of the
equation, evaluated on the operands `Execute` picked, and with LLVM's result
(`Computed`); the operators on bits go bit by bit (`Bit`, `FromBits`).  `Assumed` has a value per element, since the operators of a vector's
theory (E 2376-2401) go over its elements one by one.  In mode `int` the equation
can only be true in the sense that the result stands for its bits the way
the operands stood for theirs: `KeepsUnsigned`, `KeepsSigned` and `KeepsCongruent`
(nothing but multiples of 2^width is lost) are closed under sequences of
instructions, so that one instruction at a time is enough.  Where they stop is
stated as claims in `MCRte` and refuted: `and`, `or` and `xor` turn unsigned values
into signed ones, `sext` takes the 1 of an `icmp` for a positive number, and
`ashr` rounds to zero.  In mode `bv` all equations are true.  That the amount of
a scalar shift is printed with an unqualified `to_uint` (E 899), which is that of
the integer theory imported last, is not modelled, nor is the `to_uint` that
`insertelement` puts around the element (E 1267): both matter to Why3's type
checker in mode `bv`.

### Expressions

A clause is read bottom up: `stack` has the expressions that are waiting for the
one around them, `nodes` counts what the clause has so far, `status` says how it
ended.  There is one operator per class of `expr_*.cpp`; it has the operands the
constructor takes, and gives the expression, or the set of those that can come
out, empty where the constructor throws.  Of an expression the model keeps
`type` (what `returnType` gives), the verdict of its own comparisons (`own`),
that of `checkTypes` as the code calls it (`check`), whether all the comparisons
in it hold (`deep`), and the `sort` that Why3's type checker gives the printed
text, or `Ill`.  `check` and `deep` differ because some classes do not go on to
their parts.  The actions are the constructors by number of operands, then
`EndClause`, which is the `checkTypes` that `annotate` calls and the test for the
clause's type, then the next clause.

A sort is written as the type that has it.  That is the bitvector mode, where
each LLVM type is a Why3 type of its own; with `--int-mode int` more is typed.
Formulas and terms of type `bool`, the values of literals (of which those of
`int` that can be a struct's index are kept), names and their scopes are left
out.  Where check and text are known to disagree, the expression carries a
flaw, and there are four kinds: a type without a text (`noSort`), negation of a
vector, a cast of a pointer to an integer, and checks that ask for more than Why3
does (`stricter`).  The properties speak of expressions without a flaw, and the
claims at the end of section 3 show that three of the flaws are real.

### Why3Answer

`printed` is the stream that `execWhy3` returns: what Why3 says (`lines`: goals
with a verdict, warnings, an error), whole or cut after any word, because the
child may die at any byte; or what a child prints in which `execlp` failed.
`at` is what `str` points to.  The loops of `Why3Output` are actions on whole
lines; `Display` is what `main` makes of the result.  The chain of `strncmp`
compares as many characters as the word has, so that no word at all is
"Valid", and a word it has no case for leaves the status as it was on the stack
(`Verdict`).  A cursor past the end of the answer crashes, or finds another NUL
there.  Numbers (line, column, time, steps) are left out, and of the punctuation
only spaces and line ends count: other marks are words.  `Upto(lines)[n]` is the
text of the first n lines, so that a place in the answer is a line and a rest.
The specification is `OutputSpec`, and its names are not those of ExecWhy3, with
which it shares a module of proofs.  ExecWhy3's
`OutputComplete` is why nothing else than the child's death shortens an answer.

### War and WarTerms

`WarTerms` is the abstract side: for a term, its text by the rules of `war.y`
read as a language, and its tree, in which every local says which binder it
belongs to.  `War` is the code.  The scanner's `buffer`, `next` and `status` are
flex's; it refills from `yyin` when it has scanned all, must see beyond a word
to know that it ends, and starts afresh only after the end of the input.  So
what an exception leaves in the buffer comes before the next text, and the words
at the seam join (`ScanAcross`).  The parser is bison's, with one token of
lookahead that it reads only where it needs one; `stack` has the symbols,
`scope` is `logicLocals`, `declared` and `nodes` what the actions have made.
`toWhy3` prints a tree, and `MeantByWhy3` is how Why3 scopes what is printed.

One infix operator stands for all, and one constant; types of locals, casts,
and operators that only call a constructor are left out.  An annotation has no
blanks at its ends, is not empty and fits the scanner's buffer (16 KB).

The properties name where the code goes wrong.  After an error in the middle of
a text the next annotation is read from the rest of the bad one (`CleanBefore`).
A binder as the left operand of an operator is printed without parentheses and
swallows the operator (`LeftBinder`); the definitions of one `let` are printed
as nested ones, so that a value may see a name of the same `let` (`LetCapture`).
Leaving out any of the three exceptions is refuted.  Seen while reading, but
not modelled: `war_parse_set_type($2)` passes the node of a keyword where that
of the type is meant; nodes of binary boolean operators and of `not` have no
source, so that a label on them is lost; and a `blockaddress` cannot be read at
all, since its function is never a global variable.

### Discovery

`generateWhy3` from its first to its last line, as far as it decides which
theories there are.  `Visit` is one call of `getTypeInfo(info, type)`, `stack` the
calls that are open, each with the parts it has yet to go on to; `MaxDepth` is
the call stack.  `vectors` is what the iterator over `vectorTypes` has before it
while the loop inserts into the same set: after an insertion that makes the
hash table grow, any of the rest may be lost.  The roots are visited in any
order.  `Closure` gives what a type is made of (`MadeOf`) and how far its name
spells that out (`Spelled`: up to the structs that have a name of their own); it
is what the recursive functions of the code compute, written as that many steps
as there are types.  `Emit` prints a theory with its imports and names and notes
those that dangle.  A class of expressions is
represented by what its `toWhy3` tells `Why3Data` and what it names
(`LogicExpression...`).  Within `addGoal` the set of types is computed by its
meaning (`Found`); that the walk gives that meaning is `FindsEveryType`, for the
module, and the walk over a function is the same code.  What an instruction names
(`InstructionNames`) is read off the equations of `addInstruction`,
independently of what `addGoal` imports for it.  `addGoals` prints a caller again
for the goal of a call, with the callee's requires clause in it, whose
imports it throws away (`GoalNames`, E 1803-1822).  The goals of ensures and assert
clauses are left out: they import and name what their function's theory does.

`FindsEveryType` is about the types that `getTypeInfo` is called with: the target
of a cast in a clause and the types of assigns clauses are not among them.  The other
properties name the exceptions the code has.  Imports of theories that are not
there come from assigns clauses of functions that are called, from block
addresses that only a clause has, and from vectors of pointers.  Names without an
import come from casts in clauses, from block addresses within constants (in
clauses, in operands that are aggregates, in initialisers), from conversions
of vectors of pointers to narrow integers, and from the callee's requires clause in
the goal of a call.  Each of these is a file that Why3 refuses.
`CrashesExactly` is about types and globals: the crashes over null clauses
and calls through pointers are Emission's, and an iterator that a rehash has
invalidated loses elements in the model, it does not crash.

## 3. What is checked

| run | shows | bounds, and why they are enough |
|---|---|---|
| `dep_order` | the order is topological and complete, leaves out only what no order could place, and the loop ends | all 512 graphs on 3 nodes, self-loops and two-cycles included; 3 is the least that has a node above a cycle, and the proofs cover every size |
| `vcgen` | if all goals are proved no execution breaks a clause (`ProvedMeansSafe`), and a goal that fails has an execution that breaks its clause (`Precise`) | four instructions, one bit of memory and of local: straight lines, diamonds with a phi, calls, indirectbr, indirect calls, and no loops, where the first is refuted (below); both are proved for every size |
| `exec_why3` | `execWhy3` ends, and neither the file nor the answer loses a byte | pipe of 3 bytes, reads of 2, files of 1 and 4 bytes, answers of 0, 2 and 3: shorter than a read, one exactly full, a file that does not fit |
| `exec_why3_deadlock` | refuted: an answer that Why3 can give is returned | an answer of 4 bytes, one more than fits |
| `annotate` | what a run writes is allocated later or declared by a function it runs, no user clause is lost, every error is counted once | chains of three functions, pairs that call themselves or each other in both directions, two locations and a fresh one; every place for a broken clause; proved for modules of every size |
| `mem_model` | what Why3 knows to be in memory is there; addresses of different objects differ | two objects of up to 4 bits, types of 1 and 2 bits (so that stores overlap, abut and miss), 4 addresses, 2 values; proved for every size |
| `why3_answer` | a verdict of Why3's reaches the user as what it is, nothing else is shown as valid, an error is shown as one | up to three lines of goals, warnings and errors, cut after any word: two warnings in front of an error, a goal between two others; proved for any number of lines |
| `war` | every annotation is read from its own text and no other, with the locals it means; what Why3 reads is what was parsed; every annotation comes to an end | two names; all terms with two binders within each other and operators between; modules of two annotations from 23 texts and of three whose first is broken, which is enough for what an error leaves to meet what was cleaned up and what was not |
| `discovery` | no type that is asked for is missed, what dangles or is named without an import has one of the named causes, whyr crashes over types and globals for exactly the modules it must | 25 types, one or two of each kind (a list, two vectors of pointers, a function pointer); one function with up to two instructions, a callee with a requires and an assigns clause, the goals of the calls, a clause of each class, constants with and without a block address in them, a global; the depth 10 is above that of every type that is not part of itself; proved for every universe of types and modules of every size |
| `emission` | a theory clones only theories above it; exit code 0 means that a goal proves each obligation, or `-G` gave it up | all call graphs on 3 functions with at most two callees each, clauses of every kind, all flags |
| `rte` | unsigned checks are exact over unbounded integers (but for `shl` of vectors, `ShlEveryElement` below), no check raises a false alarm, division by zero is caught; the equations that goals assume are true of what LLVM computes | trunc to 2 bits and ext to 5; 3 bits: the smallest width in which the bounds 0, 2^(W-1), 2^W - 1 and the numbers between them all differ; vectors of 2, the least with a first and a last element; proved for every width and size |
| `expressions` | what passes all its checks prints as a text of its type's sort, what fails one does not, and casts are given classes whose checks hold | one or two types of each kind, 15 in all; clauses of up to 4 expressions, the last of which takes all: a ternary or a cast of an operator on two operands; proved for every universe of types and every size |

The properties are commented where they are defined: safety and liveness with
the component, claims of the documentation in the `MC` module.

Fairness.  `ExecWhy3` has weak fairness of the parent's and of the child's next
system call: the kernel runs a process whose call can return.  Why3 is assumed
to come to an end, not to be quick.  `DepOrder` has weak fairness of the loop,
which is sequential code, and so has `War`: its one process takes a step whenever
it can, and the question is whether the parser's loop can go on without one.
The other modules have no liveness properties and no fairness: they are
sequential programs whose loops go over finite lists.

`exec_why3_deadlock` is the one claim of the documentation that is kept as a run
of its own.  The others below are definitions in the modules named; to see TLC
refute one, take the module's configuration, put the claim in the place of its
INVARIANTS and PROPERTIES, and change the constants as the table says.

| module | claim refuted | constants |
|---|---|---|
| `MCVCGen` | `ProvedHoldsForAllInputs` (`README.md` 71): the equations of two iterations of a loop meet in one formula and may contradict each other | `Programs <- Loops` |
| `MCVCGen` | the same, for indirectbr: the phis of all its destinations are equated at once | `Programs <- Wild` |
| `MCVCGen` | `CombinesAllGoals`: with `-G` a callee's requires clause is neither proved nor assumed | `Programs <- CallLines` |
| `MCVCGen` | `IndirectCallIgnored`: `addGoals` dereferences the null callee | `Programs <- IndirectCalls` |
| `MCVCGen` | `PreciseAfterCalls`: what a callee promises of the state cannot be used | `Programs <- CallLines` |
| `MCVCGen` | `VacuousMeansContradiction`: a vacuous goal passes because its clause is false | `Programs <- Failing` |
| `MCExecWhy3` | `ErrorArrives`: SIGPIPE kills whyr when Why3 gives up early | |
| `MCExecWhy3` | `OnlyWhy3Output`: a failed `execlp` reports as if it were Why3 | `Inputs <- Small` |
| `MCAnnotate` | `CallsRespectFrame`: the check at a call compares the frames the wrong way round | `Modules <- Pairs` |
| `MCAnnotate` | `UnannotatedCalleeUnprovable`: a callee further down the file is not found | `Modules <- Forward` |
| `MCAnnotate` | `EmptyAssignsAllowed`: a null pointer in the clause | `Modules <- Pure` |
| `MCMemModel` | `FreshMeansNew`: what is `fresh` at the entry was there before | |
| `MCMemModel` | `GepFindsElement`: the term for an element's address is not the element's address | |
| `MCEmission` | `OmittedAreIgnored`: an ignored function still has goals | `Modules <- Recursive` |
| `MCEmission` | `WarnedAreRecursive`: callers of recursive functions are warned about | `Modules <- AboveCycle` |
| `MCEmission` | `GoalsDisabled`: `-g -G` prints goals | `Modules <- One` |
| `MCEmission` | `NothingGivenUp`: exit code 0, though `-G` has no goal for the requires clauses of callees | `Modules <- AllModules` |
| `MCRte` | `DivisionDefined`: the overflow of sdiv is compared with -2^W | `MaxElements = 1` |
| `MCRte` | `SignedOverflowCaught`: the signed range is twice too wide | `MaxElements = 1` |
| `MCRte` | `UnsignedOverflowCaughtInBv`: the sum has wrapped before it is compared | `MaxElements = 1` |
| `MCRte` | `ShlBothFlags`: the check for nsw takes the place of that for nuw | `W = 2`, `Narrow = 1`, `MaxElements = 1` |
| `MCRte` | `ShlEveryElement`: the middle elements of a vector have no check | `W = 2`, `Narrow = 1`, `MaxElements = 3` |
| `MCRte` | `ExactDivisionGetsClause`: a null pointer in the clause | `W = 2`, `Narrow = 1` |
| `MCRte` | `BitwiseKeepsUnsigned`: the operators on bits give signed values | |
| `MCRte` | `SextOfUnsigned`: sext copies a value that is unsigned | |
| `MCRte` | `AshrOfNegative`: ashr of a negative number rounds to zero | |
| `MCExpressions` | `CheckedThroughout`: `include/whyr/logic.hpp` says `checkTypes` covers "this expression and any subexpressions"; a cast of an i1 to `bool`, the values of `let`, and `getelementptr` do not go on to theirs | `MaxNodes = 3` |
| `MCExpressions` | `TypeOperandsSorted`: a variable may be quantified over types, for which there is no text | `MaxNodes = 3` |
| `MCExpressions` | `NegationSorted`: the negation of a vector subtracts it from a number | |
| `MCExpressions` | `PointerToIntSorted`: the cast closes parentheses it did not open | |
| `MCExpressions` | `NeverCrashes`: the index of a struct is not compared with the number of its fields, and a negative one makes `stoul` throw | `MaxNodes = 3` |
| `MCWar` | `LabelsKept`: `include/whyr/logic.hpp` 58 says the label "helps in Why3 generation", but it points into the scanner's buffer, which the next annotation overwrites before goals are named after it | |

## 4. What is proved

| module | theorem | from |
|---|---|---|
| `DepOrderProofs` | `TypeCorrect`, `OrderCorrect`, `OmissionExact`, `Implements` | nothing about `Node`, which may be infinite |
| `VCGenProofs` | `TypeCorrect`, `Soundness`, `Precision` | `ProgramsAssumption`: there is an instruction, a memory and a local, and programs are well formed |
| `ExecWhy3Proofs` | `TypeCorrect`, `AnswerIsWhole`, `InputIsWhole` | `SizeAssumption`: sizes are numbers, those of the pipe and of a read are not 0 |
| `ExecWhy3Proofs`, on `Why3Answer` | `OutputIsFollowed`, `VerdictsAlwaysReachTheUser`, `ValidIsAlwaysWhy3s`, `ErrorsAlwaysReachTheUser` | `AnswerAssumption`: a goal's name is no space and no line end, there is a bound on the number of lines |
| `MemModelProofs` | `TypeCorrect`, `KnownSound`, `BasesSound`, `PtrIntContradiction` | `MemModelAssumption`: sizes and indices are numbers |
| `EmissionProofs`, on `Annotate` | `TypeCorrect`, `UserAssertsAlwaysKept`, `ErrorsAlwaysExact`, `WritesAlwaysDeclared` | `ModulesAssumption`: modules are sequences of functions, callees are functions of the module |
| `EmissionProofs`, on `Emission` | `EmissionTypeCorrect`, `AlwaysWellScoped`, `ZeroAlwaysMeansNothingLost` | the same |
| `DiscoveryProofs` | `EveryTypeFound`, `EveryImportResolves`, `EveryNameImported`, `CrashesAreExact` | `TypeAssumption` (finitely many types, which are LLVM's), `ModulesAssumption` (LLVM's modules), `StackAssumption`: the stack has room for a type that is not part of itself |
| `RteProofs` | `UnsignedChecksAlwaysExact`, `NeverFalseAlarms`, `DivisionByZeroAlwaysCaught` | `RteAssumption`: integers have a bit and vectors an element |
| `RteProofs`, on `Opcodes` | `EquationsAlwaysTrue` | the same and `OpcodesAssumption`: trunc makes an integer narrower, ext a wider one |
| `ExpressionsProofs` | `TypeCorrect`, `ChecksEnough`, `ChecksNeeded`, `CastsAreChecked` | `TypeAssumption`, `PartsAssumption`: every type has a kind, what a type is of and its fields are types |

The arguments:

* **DepOrder.**  `Topological` is not inductive: that `AllSeen` reads `notSeen`
  helps only if `notSeen` and `out` divide the nodes (`Partition`).  That what is
  left at the end could not be placed needs `Swept` (while this pass has moved
  nothing, the nodes it has been over are all still waiting) and `Kept` (a
  hopeless node never leaves `notSeen`).
* **VCGen.**  The values an execution gives the constants can be completed to
  many valuations of the theory.  While the execution is at `pc`, every
  completion that agrees with it up to `pc` makes the chain at `pc` true in every
  solution of the block axioms (`OnTrack`): at the entry because the goal is
  proved, later because each step of the execution satisfies the antecedents
  in front of the next instruction.  When a clause fails, the chain contradicts
  the failure, provided the axioms have a solution; they do, because chains are
  monotone.  `InScope` is where loops, indirectbr with phis and `-G` with
  required clauses fall out: the claims about those are refuted (section 3).
  `Precision` is the other direction.  A goal that is not proved has a valuation
  in which the block axioms hold and the chain of the entry is false.  Follow
  the run that starts with this valuation's values at the entry.  As long as its
  values are the valuation's and the chain in front of it is false, the chain
  breaks either here, and then the clause of the goal fails here in the run,
  or further on, and then the antecedents in between are true and force the
  valuation to agree with the next step too.  Instructions only go forward,
  so the last one reached with a false chain is where the clause fails.
  `GoalsExact` says that the goals tried are those the code prints and that
  Why3's verdicts are `Proves`.  With calls this breaks down, since the valuation
  need not keep the contract (`PreciseAfterCalls`).
* **ExecWhy3.**  Nothing is lost in the pipes (`Conserved`), the child only runs
  while the parent is between fork and the end of waitpid (`Alive`), and as long
  as it runs the parent holds the ends that keep it from an early end of file or
  a SIGPIPE (`ParentHolds`).  `Answered` ties the program point at which the
  parent sees the end of the answer to everything having been printed.
* **Why3Answer.**  The three properties speak of the end of `main` only, so the
  invariant (`OutputInv`) has to say what is true in each loop of the
  cursor.  In front of the last line that came, `at` is the rest of the answer
  after some line (`Rest`), the lines skipped were warnings (`Skipped`), and the
  goals read are those of the lines between (`Right`), none of them a
  HighFailure (`NoHigh`).  That is not inductive where the answer is cut: words
  end at the next space, wherever that is, so what is read of the last line
  depends on which piece it ends in.  Those endings are the other disjuncts:
  a goal's line cut before or after its verdict (`GoalCut`), a message cut in
  its place or its text (`MessageCut`), which the second loop takes for a goal
  without a verdict, and a rest behind a HighFailure (`AtHigh`).  The work is
  in where a line's words end for each length that can be left of it (`AtGoal`,
  `AtMessage`), and in that the text of the first l lines is where the rest begins
  (`Layout`, by induction over the lines).  What a child prints that
  is not Why3 is outside of the invariant, as the properties are.
* **MemModel.**  `KnownIsTrue` needs that two pointers with different bases are
  in different objects (`Bases`: bases count the objects) and, for `state_init`,
  that no two globals share an object (`GlobalsApart`).  Then a fact that
  `separated` keeps has no bit in common with the bits the store writes.
  `PtrIntContradiction` is a remark on the axioms alone: `to_from_ptrint`
  and `offset_ptrint` together have no model, so that Why3 may prove anything in
  a theory that imports `LLVMPtr`.  `KnownSound` speaks of the memory axioms only.
* **Expressions.**  `WellSorted` alone is not inductive: it says nothing of an
  expression that has failed a check, and the next one may be built on it.
  `Right` adds that a text never has a wrong sort: it has the sort of its type or
  none.  So a check that compares types speaks of the sorts where there are any,
  and a class that compares nothing (`getelementptr`, `old`) cannot turn an
  ill-sorted part into a text of another sort.  One lemma per class shows that
  it makes right expressions of right operands; `NodeRight` does it for all
  classes whose check and text are two conditions on the same operands.

* **Annotate.**  `IInv` says what every variable is, as a function of how far
  the nested `annotate` methods have come: a clause is in force when its node has
  been passed and parses, a check is in an assert clause when
  `addAssignsAssertions` has passed the instruction, `errors` is the number of bad
  nodes that have been passed.  The last needs that the sets of passed bad nodes
  are finite and that a step adds exactly the nodes it passes.
  `WritesDeclared` is about calls of any depth, up and down the file and recursive:
  `Writes` is the least family of sets that is closed under calls, so it
  is enough that the following family W is closed too.  For a function with an assigns
  clause, W is what is allocated later with the frames of all that it runs; for
  others it is everything.  A store is in W by the check put on it, a call is
  because what the callee runs the caller runs (`RunByCalls`), unless the callee has
  no clause.  That this does not happen is where `CallsSeen` is used: such a
  callee is further up, so the check on the call is `false`.
* **Emission.**  While theories are printed the file is the theories of a prefix
  of `order`; afterwards its first `Len(order)` entries are, and everything behind
  them is a goal.  So a clone in a theory is found because the order is
  topological, and one in a goal because nothing was left out: an injective
  order with as many entries as there are functions has them all.  Exit code 0
  goes back to no errors (`main` returns 1 if there is one), from there to all
  clauses in force (`NoErrorsInForce`, from the invariant of Annotate), and so
  each obligation is in the ensures or an assert clause or is a call's.  Without `-G`
  each of these has a goal of its own, since goals exist for everything `addGoals` has
  passed; under it, the combined goals of the functions in the order have the
  first two kinds.  `TheoriesExact` says that a theory's `proves` is what its
  goal proves, now that no clause changes any more.
* **Rte.**  The invariant is small; the work is arithmetic on 2^W with W a
  constant without a value.  That 2^(n+1) is twice 2^n comes from counting
  subsets (`FS_SUBSET`), the rest by induction: a set of numbers that has 0, and
  n + 1 with n, has all.  For exact division, quotients that round to zero
  (ComputerDivision) and those that round down leave no rest for the same
  operands; and a register shifted by less than its width loses the same bits
  whether it is read as signed or unsigned, because 2^n divides 2^W.
  `EquationsAlwaysTrue` goes through the operators once for bitvectors, once
  for each reading of an int, and once up to multiples of 2^width.  An equation
  that holds of the numbers up to a multiple of 2^W holds of the bits
  (`RestIsUnique`), and sums, products and shifts to the left
  keep such multiples (`RestsAgree`); so what is left to show is that a result
  without a flag's overflow is in the range of its reading.  The operators on
  bits are shown to stay in W bits (`BitwiseType`, by induction over the bits).
* **Discovery.**  What is to be found is found already or is reached from a type
  that is `Pending`: a root, or a part of a type whose call is still open
  (`WalkOK`).  A type that is made of itself is always reached from what is
  pending, so the walk of a module that has one never gets to its end; that it is
  the only reason for the stack to overflow needs `StackOK`, by which the types of
  the open calls are a chain, each a part of the next.  A chain with more members
  than there are types has one of them twice, and that type is part of
  itself.  Once the walk is over, `FoundOK` and `PrintedOK` say which theories have
  been printed by which phase; a derived theory can always go next, because among
  those that wait the one whose type is made of the fewest types waits for no
  other.  A vector of pointers loses its vector of integers only while another such
  vector is inserted (`VectorsOK`), hence the exception in `ImportsResolve`.
  For `NamesImported`, each name of an instruction is a type found in the
  function (`NamedFound`: what a type's name spells out it is made of), a theory
  `addGoal` imports for the opcode, or one of the exceptions (`InstructionFacts`),
  and what a clause names is asked for by the class it is of (`NodeFacts`), or is
  one of the exceptions.
  `CheckedOK` remembers that what has been printed could be, so that a run that
  comes to the end is one of a `Printable` module, the other half of
  `CrashesExactly`.  TLC has checked all of this invariant but `StackOK`, whose
  chains it cannot enumerate.

Every invariant of every run is proved but those of `War`.  Only model-checked are

* liveness: `Terminates` of `DepOrder`, `ComesToAnEnd` of `ExecWhy3` and
  `AnnotationsEnd` of `War`, which need fairness and `ENABLED`;
* `ReadsOwnText` and `NamesSurvivePrinting` of `War`.  Trees are
  printed, and what is printed is read, by folds over data of any depth, and that
  one undoes the other is an induction over terms, for which there is no instance of the
  library's induction theorems; and where the parser stops is `ENABLED`.

## 5. What is not modelled

Not modelled for good: reading files and LLVM's own parsers (I/O), option parsing,
the wording of messages, the rethrowing of exceptions when a library user passes
no settings, the operators of arrays, structs, vectors and floats (text, or
external).  `rte.cpp` says nothing about shifts by the width or more, so neither
does `Rte`.

Names (E 228-415) are pure functions on strings, and whether two names collide
has nothing to do with a state of the program.  They do: the theory of `{i8}*` has
the same name as that of the struct whose one field is `i8*`, because the name of a
literal struct has no end; and the pointer to the struct `%x` has the name of the
struct `%xP`.

What could come next: `War`, as soon as the prover can reason by induction over
terms; the operators of structs and vectors, whose axioms are text so far; and the
hazards in `PROJECT.json` that no property watches, which are about text rather
than states.
