# Tarot: specifications of the parser, the analyzer, the code generator and the virtual machine

Tarot (`src/`, a C89 program) compiles the scripting language *pentagram* to
bytecode and interprets it. It is a pipeline: a parser builds a tree and the
symbols of its scopes, an analyzer loads further modules and links names to
declarations, a code generator writes bytecode, a virtual machine runs it; a
serializer prints a tree as source again. Below them are lists and an allocator.
All of these are specified here. The last two stages are the core: they have to
agree with each other and with nothing else to check them:

* the **code generator** (`bytecode/bytecode.c`), which decides *where* memory
  is tracked, copied, moved and freed, where regions and handlers open and
  close, and which way every statement leaves a function;
* the **virtual machine** (`bytecode/vm.c`, `thread.c`, `region.c`), which does
  it, one instruction at a time, on three stacks and one heap.

Memory is managed by neither reference counts nor a collector but by this
agreement, so a wrong instruction is a double free, a use after free or a leak
that shows up long after it ran. The front half has the same kind of hazard in
other places: a parser that recovers from errors in the middle of a construct
frees, keeps and registers nodes whose other half never came.
Nothing in the repository tests it (`tests/tests.c` is an empty function).

Paths below are relative to `src/src/`.

## 1. Inventory

| component | state it keeps | operations | modelled by |
|---|---|---|---|
| regions (`bytecode/region.c`) | per frame: one list of tracked pointers, up to ten byte-sized indices into it | push, pop, add, remove, clear | `Regions`, `Ownership` |
| thread (`bytecode/thread.c`) | operand stack (`base`, `ptr`, `baseptr`, size), call stack of reusable frames, handlers per frame, exception flag | push, pop, argument, variable, call, return, push/pop try | `VirtualMachine` |
| interpreter (`bytecode/vm.c`) | instruction pointer, bytecode, queue of ready threads | one case per opcode | `VirtualMachine` (not its queue) |
| code generator (`bytecode/bytecode.c`) | the output buffer, the function table, positions of loops | one function per kind of tree node | `CodeGenerator` |
| instruction set (`bytecode/opcodes.c`) | none | names and widths | `Instructions` |
| lists (`datatypes/list.c`) | a header with length and capacity and the elements, in one block that moves | create, copy, append, pop, remove, clear, trim, find, free | `Lists`, `ListContents`; as sequences in `Regions` |
| dictionaries (`datatypes/dictionary.c`) | one list of key and value pairs | lookup by key, set, copy | as lists of pairs, in `MCLists` |
| numbers and strings (`datatypes/integer.c`, `rational.c`, `string.c`) | a heap block each | create, copy, free, arithmetic | as blocks with a small content, in `VirtualMachine` |
| allocator (`system/malloc.c`) | counters, a header per block | malloc, realloc, free | `Allocator`; as the set of live blocks in `Regions` |
| analyzer, scopes (`tree/analyze.c`, `scope.c`) | stack of scopes, indices of functions and variables, panic flag | two passes over the tree | `Analyzer` |
| imports (`tree/import.c`) | list of loaded modules | parse and link the modules imported | `Analyzer` |
| parser (`tree/parse.c`) | window of two tokens, calm flag, error count, scope stack, the function, class and loop around it | one function per production, recovery, parsers within a parser for f-strings | `Grammar`, `Parser` |
| syntax tree (`tree/node.c`) | nodes, their fields, links and symbol lists | create, attach, copy, free, traverse | `SyntaxTree`; the traversal in `Analyzer` |
| scanner (`lexer/*`) | position in the input | next token | as the parser's input |
| serializer (`tree/serialize.c`) | none | print a tree as source | `Serializer`, `Formatter` |
| validator, simplifier (`tree/*`) | which variables are set, errors per module | one rule per kind of node | `Analyzer` (names, calls, functions) |
| streams (`system/iostream.c`) | a stack of eight open streams | open, close, read, seek | `Parser` (open and close) |
| errors (`system/error.c`) | the registered handler | report | `Parser` (which parser hears of an error) |
| logging, platform, command line | a log, options | report, write | no, see section 8 |

**How they interact.** `main.c` calls, in this order: the parser on one file,
`tarot_import` (which parses further files until none is missing, then
analyzes), the validator and simplifier node by node from inside of the
analyzer, the code generator, and the interpreter. All of this is sequential
calls on one tree; the hard part there is state that outlives a step: scopes
that still hold nodes recovery has thrown away, indices assigned in the order
of a traversal, flags raised in one function and lowered in another.

From code generator to machine everything passes through the bytecode file: a
sequence of bytes, a table of functions (start, end, parameters, variables,
whether it returns a value). The machine trusts it. Interpreter, thread and
regions share a frame per call: `OP_CallFunction` pushes a frame and opens its
first region, `OP_Return` closes all regions of the frame, moves the result to
where the arguments were and tracks it in the caller, and decides whether an
exception goes on.

**What is hard here.** There is one thread of control, so no interleaving of
threads; what interleaves is the order of instructions that the program's text
and the outcome of its comparisons select. The difficult behaviours are:

* exceptions, which leave any number of loops and functions at once, while
  each of them has a region open, variables to free and handlers to close;
* frames that are reused without being cleared;
* values that belong to a region, a variable, the stack or the caller in turn;
* a stack that moves when it grows, and holds pointers into itself;
* two passes of generation that have to produce the same addresses;
* limits: ten regions, sixteen handlers, byte-sized indices.

**What makes each component correct.** Regions: every live block has one owner,
and popping a region reaches only its own blocks. Thread: frames nest; what a
call takes a return gives back. Machine: it never leaves the instructions, the
memory it may touch, or its limits. Generator: programs print what their source
means, everything allocated is freed, handlers belong to the function that runs,
every program ends that should. Analyzer: an identifier means its innermost
declaration; functions and variables get distinct slots within the number the
function table says. Parser: nothing is lost, in a file or in memory, without a
message, and whatever was entered or opened is left and closed. Serializer: what
it prints is read back as the same tree. Lists: a sequence, in a block large
enough for it. `PROJECT.json` lists the hazards behind these, each at its line.

## 2. Modules

```
Ownership            what regions promise: one owner per block, no lists
   ^ refines
Regions              lists and indices of every frame
   ^ instance R                                      RegionsProofs
VirtualMachine <- Depths <- Instructions       (Depths <- Discipline)
   ^ extends                    ^ extends            VirtualMachineProofs (instance RP
   |                        CodeGenerator <- Programs   of RegionsProofs),
   |                         <- SoundPrograms,       which extends Discipline
   |                            AnyPrograms, Divergences
MCSound (with SourceSemantics), MCAny, MCDivergences

Scoping              what names mean and which programs are right
   ^ instance Reference
Analyzer             imports, both passes, scopes, function table   AnalyzerProofs
   ^ extends
MCAnalyzer (with AnalyzerPrograms), MissingModule

SyntaxTree           nodes in a heap: create, attach, copy, free
   ^ extends             ^ extends
RuleShapes (Grammar)     |
   ^ extends             |
Parser               Serializer                      ParserProofs <- TreeProofs
   ^ extends             | instance Printer              <- NamesProofs <- JumpProofs
Formatter ---------------+         <- MCParser

ListContents         what lists promise: sequences, no blocks
   ^ refines
Lists <- MCLists     blocks that move, capacities       ListsProofs
   | extends
   v
Allocator            blocks with headers, the counters
```

The parser's output, a tree with the symbols of its scopes, is what `Analyzer`
takes as given: its programs have the scopes `ScopesMatchTree` says a parsed file
has. The analyzer's output (`index` of functions and variables, links) is what
`CodeGenerator` takes as given: its programs refer to variables and functions by
index.

**Ownership** knows blocks, an owner for each (a region, named by its frame and
depth, or a holder outside of regions), the current frame and the depth of each.
It has an action per thing that can happen to an owner.

**Regions** is `region.c` with the part of `thread.c` it lives in. `region[f]`
is the list `scope.region`, `indices[f]` the used part of `scope.indices`;
`Leaving` is what `tarot_pop_region` pops off, `RemoveFromRegion` is
`tarot_remove_from_region` with the shift that `tarot_list_remove` does. The
actions are the combinations the opcodes make of these (`Allocate` for literals,
copies and results, `Store` for `OP_Store*`, `Return` for `OP_Return`). `level`
is a history variable: the depth a block was last tracked at. It carries the
refinement mapping (`owner`) and the property `OuterBelowInner`.

**VirtualMachine** executes one instruction per step, with one action per opcode
or per group of opcodes that do the same to the state. Its actions on the heap
are actions of `Regions`, through the instance `R`. The state follows
`struct tarot_thread`: `stack`, `ptr`, `baseptr`, `frames`, `except`,
`unwinding` (the flag `thread->except`), `traces` (the stack trace that a raise
creates). Slots of the stack hold what the union holds, with a tag the program
does not have; that makes it visible when an instruction takes one kind of value
for another. A pointer to a slot remembers the size of the stack it points into,
because growing it reallocates. The machine stops, and says why in `status`,
where the C program has an assertion that fails (`aborted`), reads, writes or
frees memory that it may not (`fault`), or where a bound of the instance is
reached (`exhausted`).

Contents of numbers and texts are numbers modulo `Modulus`, copied and computed
but never compared: a comparison may come out either way, which explores every
path through a program; at most `MaxDecisions` of a run come out true, which
ends its loops. The outcomes are kept in `decisions`, for the reference.

**Instructions** has what each instruction pops and pushes; **Depths** derives a
lower bound on the operands every instruction of an image finds, from its code
alone, one instruction at a time. The machine never looks at how full its stack
is, so this is what its frames rely on. **Discipline** derives, in the same way,
exactly how many operands, open regions and open handlers there are at an
instruction (`Reckoned`), and says when that is true of an image whatever way
leads there (`Agrees`): a verifier of bytecode that the program does not have.
Its second half does the same for the blocks that no region frees
(`Accounts`): which variables of a function blocks are stored in or freed from
(`Owned`), all that have a type whose values are freed among them (`Declares`), to
which of them the pointer on top of the stack leads (`Pointed`), which have not
been freed yet where a function ends (`Pending`), that freeing begins only there
(`Freeing`), and where a result that was taken out of its region waits meanwhile
(`Carried`). `Delivers` asks of a function with a result that each way out of it
returns one.

**CodeGenerator** has an operator per `generate_*` function, from a tree node to
a sequence of instructions with their byte offsets. The two passes of
`tarot_create_bytecode` appear as the size of a piece of code (first pass) and
its placement (second pass). It is recursive over the tree, and TLC's only.

**SourceSemantics** is the reference: what a program prints and how it ends,
read off the tree without stacks, regions, frames or addresses, given the
outcomes of the comparisons. A parameter is the argument at its index, as
`thread.h:27` says.

**SoundPrograms** are the programs the generated code is right for, **AnyPrograms**
the programs of every kind, **Divergences** one program for each place where the
code does other than the repository says. **Programs** holds the constructors
they are written with.

**Analyzer** starts from trees as the parser leaves them and follows
`tarot_import`, `run_pass_1`, `run_pass_2` and the registration of functions.
Every step of a walk enters or leaves one node: `path` holds the activations of
`traverse_node` with the children each has left, `scopes` is the scope stack,
`module` and `cursor` say how far the walk over the list of modules is. `Enter`
is the enter callback with `enter_node`, `LeaveFirst` and `LeaveSecond` are
`leave_node` with the leave callbacks of the passes, `LeaveInPanic` is the branch
of `leave2` between an error and the end of a statement. `ResolveImport` does an
import of the list that it extends. Of the validator it has the rules with state
(names, variables that are set, calls, the symbols that invalid functions and
imports take out of their scope); the rules about types are a flag of the node.
`symbols[n]` is the scope of a module, namespace or function.

**Scoping** is its reference: the meaning of a name is the innermost declaration
around it, followed through imports; the program's modules are the least set
closed under imports, as far as there are such files (`Belonging`); a program is right when every name of it means something
that is declared before, calls fit their functions, types are accepted and
there is a main function. It knows no order of modules, passes or stacks.

**SyntaxTree** is the heap of nodes. A node keeps the fields that were set, in
their order; `below` is its subtree. `Attach`, `Free` and `Copy` follow
`node.c`: what a traversal does not visit is not freed with its parent.

**Grammar** holds the productions of `parse.c` as data, one rule per parse
function: the tokens it may start with, and the steps it takes (expect a token,
read a name, parse a field, enter a scope, link a jump, ...). **Parser** executes
them. `frames` are the parse functions under way, `parsers` the parsers at work:
the one of the file, and one for each f-string that is being parsed within. A
parser has a position, the `calm` flag and a count of errors; `Expected` and
`Matched` are the macros `expect` and `match`, `Return` is `result`, which frees
a node that was built in a panic, `TakeItem` is the recovery of `multiparse`.
`Raised` goes to the outermost parser, because it is the one whose handler is
registered. `within` holds the function, class and loop that jumps are linked
to, `scopes` and `symbols` what `scope.c` keeps, `streams` what `iostream.c`
keeps. A failed assertion or the use of a freed node ends the run (`fault`).
Tokens stand for the scanner; a piece that it rejects is a token of its own.
Nodes are handed over as the local variables of the C functions hand them over:
a frame has hold of the `node` it builds and of one more (`held`), a function
returns its node in `answer`, and whoever takes it clears it (`Taking`).
`Restart` opens the next file when one has been parsed (`Spec`).

**RuleShapes** says what all rules have in common, whatever they parse: they call
rules that exist, set fields that the traversal of the node visits, and leave
what they enter on every path, an optional part skipped or not. Its
`RulesAssumption` is what the proofs need of `Grammar`, and TLC evaluates it for
the rules of `Grammar` in every run of the parser. `NamesFit` says of the rules
whose nodes have names, and of those that look into a list, that the name is
read and the list is parsed before. `JumpsFit` says where a jump can come from:
values are made of values only, the rules of statements call such rules only, a
jump is linked in one step, once and in its own rule, and whatever can have a jump
in it is parsed between the steps that set and clear the registers of functions
and loops.

**Serializer** prints a node as tokens, a case for each kind as in
`serialize.c`. **Formatter** closes the circle: a file that was parsed without
errors is printed, and what was printed is the next file. It prints the tree as
it was parsed; in the program the analyzer and the simplifier have been over it.

**Allocator** has an action for `malloc`, `realloc` (which of NULL makes a block
that counts) and `free`, with the header of each block and the two counters that an
assertion compares. **Lists** has one
for each function of `list.c` that is called and moves, reads or searches the
elements, but for the replacement of one. `cells` is the memory behind the
header, which keeps what was last written whatever the length says; `at` is the
variable of the caller, which `Resize` changes when the block moves. Growing and
shrinking are part of the actions that need them. Elements are plain, as those of
the lists the program itself keeps; the elements that a list of a type frees and
copies with itself are those of dictionaries (section 8). Beside the lists there is
a stack of a thread, as far as the allocator sees it: `GrowStack` and `ClearStack`
(`thread.c:5-11`, `25-29`), the one block of the program that is made by `realloc`;
the array of frames is another of the same kind. **ListContents** is what the
callers rely on: a sequence each, and nothing about blocks.

## 3. Runs

| run | question | size of the instance |
|---|---|---|
| `regions` | does every interleaving of region operations keep one owner per block, and implement `Ownership`? | 3 symmetric blocks, 2 frames, up to 3 regions in a frame |
| `sound` | do the programs of the discipline print what they mean, free what they allocate, and end? | the limits of the code (10 regions, 16 handlers, 16 slots of growth, 256 index values), 16 blocks, 6 frames, 3 true comparisons |
| `any` | does the machine keep its structure for any program, until the step that faults? | small limits (5 regions, 2 handlers, growth 6), 8 blocks, 4 frames, 2 true comparisons |
| `afterRaise`, `readme`, `twoArguments`, `leaveLoops`, `keptRational` | five disagreements of code and documentation, each with its shortest program | the limits of the code |
| `analyzer` | are modules loaded, names linked, programs judged and indices assigned as the reference says? | 851 programs, 3 files that import each other in a circle, 3 nested scopes (the most the stack is given) |
| `missingModule` | does an import from a missing file end in an error of the program? | one program of two statements |
| `parser` | is every file, right or wrong, parsed to its end with everything reported, freed and closed, and is what is printed of it read back? | 1136 files: 15 programs, and each of them with a token removed or replaced |
| `lists` | do lists stay within their blocks and behave as sequences, in any order of operations, and do the allocator's counters stay right, also when a block is made by `realloc`? | 2 lists of up to 2 items, a stack of up to 3 slots that grows twice, 3 symmetric blocks, 3 allocations |

Properties of `regions`: `SingleOwner` (no double free, no free of a block in
use, no loss), `OuterBelowInner` (a pop never reaches an enclosing region,
although removals shift the list below the recorded indices), `CleanFrames`
(`push_frame` may reuse a frame's scope uncleared), `OwnershipSpec` (refinement).

Properties of `sound`: `OutputAgrees` (the output is that of the reference),
`NoFault`, `NothingLeaks` (at `OP_Halt` heap, stack, call stack and traces are
empty), `EndsBalanced` (a function that falls off its end has consumed its
operands and closed its regions), `HandlersOfFunction`, `CodeInOrder` (the images
are `Disciplined` and `Accounted`, what the proofs rest on),
`NoStatementAfterRaise`, and the liveness property `Ends`.

Properties of `any`: `TypeOK`, `OnInstruction` (no jump, call, handler or return
address leads between instructions), `FramesNest` (frames on the stack do not
overlap: nothing an instruction takes lies below the operands of its function),
`RegionSpec` (the machine uses regions only as `Regions` allows), `LocalsFreed`
(a frame that is left, by return or by exception, leaves no block in its Integers
and Strings; variables of other types own no block, and what a slot held before
the call may still be in them).

Properties of `analyzer`: `ModulesLoaded` (what is needed, once, each import
linked to its module), `AcceptsRight` (accepted exactly if right: an error is not
lost by the skipping after it, and none is invented), `LinksMean` (every name of
an accepted program is linked to its meaning), `SlotsOfFrame` (the variables of
each function are numbered from 0 without gaps, within the number its frame
reserves, and are referred to from this function only), `TableComplete` (each function has an entry
of the table, and entry 0 is the program's main), `Decides` (liveness).

Properties of `parser`: `NothingLost` (every node that is not in the tree has
been freed), `NoSilentFailure` (no tree without a reported error, although
recovery makes a parser calm again), `FaultsReported` (freed nodes are used, and
assertions fail, only after an error was reported), `EndsClean` (every scope,
function, class and loop is left; streams are closed in reverse order and the
f-string's parser is gone), `JumpsLinked` (break, return and assert are linked to
the innermost loop and function around them), `ScopesMatchTree` (the symbols of a
scope are the declarations directly inside of it), `NamesKept` (no name of a
file without errors is missing from its tree), `ReadsBack` (what is printed is
parsed as the same tree), `AcceptsPrograms`, and the liveness property
`Terminates` (recovery always comes to an end).

Properties of `lists`: `StaysInBlock` (a list has a block of its own and fits into
it, after a clear, a trim, a move or a copy too), `CountsBlocks` (the assertion
of `malloc.c:97` holds, and the warning about leaks is right, whether a block was
made by `malloc` or by `realloc`), `ContentsSpec` (refinement: the lists are
sequences, whatever the stack does).

**Why the bounds are enough.** Two frames show everything a call and a return do
to each other's regions; three nested regions are the least with an enclosing,
an inner and a skipped one; three blocks are the least with one to remove, one
below and one above it. In `sound` every statement appears in every construct
and every two constructs in each other, with the code's own limits, so `NoFault`
also says these limits are not reached. `any` puts every two statements, and
every statement into every compound, next to a library of functions that call,
return, recurse and raise; its limits are small so that they *are* reached.

In `analyzer` every two of 17 statements follow each other in `main`, every
statement meets every list of imports and every kind of later definition; the
two library files import from each other and from the program, with an import of an
import and namespaces. 77 of the programs are right and 774 are wrong, in one
place or in several. Three files are the least with an import of an import that
a third file goes through.

The 15 programs of `parser` have every production of the grammar that is reached
from a file, and the edits put an error at each of their tokens: a token that is
missing, a brace that closes too early, a name and a semicolon where something
else is expected. So recovery starts in every rule and at every step of it. The
model was compared with the built program on these files: both accept and reject
the same ones, and abort on the same ones.

In `lists` two lists are the least that a copy needs, two items the least for an
order, a growth beyond the initial capacity and a removal that shifts; three
blocks let a list move while the other one stays, and an array or the stack be
alive beside them. The stack is made, grows and moves, and is cleared; its sizes are
small (`SlotSize`, `Growth`), which says nothing about its contents. Items are pairs that are looked up by their key, with keys that two items
may share, so that the first match is not the only one.

Deadlock is checked in every run but two: a stopped machine stutters explicitly
(`Stopped`), everything else must have a step. A parser really stops when the
file is parsed or an assertion fails, and `lists` stops when its three
allocations are used up and everything is freed.

**Fairness.** `WF_vars(Execute)`: `tarot_attach_executor` is a `for (;;)` around
the switch (`vm.c:104`), which goes on as long as there is an instruction.
Programs end although comparisons are arbitrary because `MaxDecisions` bounds
the true ones; what `Ends` shows is that no jump, handler or unwinding leads
round in a circle that needs no comparison. In `Analyzer` it is
`WF_vars(Proceed)`: the phases are loops and recursive calls of one thread.
`Decides` then says that the walk over a growing list and the recursion end. In
`Formatter` it is `WF_allVars(Proceed)`, for the same reason, and nothing for
`Format`, which is an option of the command line: `Terminates` is about one
parse and about the parse of what was printed.

## 4. Proofs

`RegionsProofs` proves for **every** set of blocks, number of frames and size of
the index array (under `RegionsAssumption`: at least one frame, at least two
index slots, and lists shorter than the values an index can have):

* `TypeCorrect`, `OneOwner`, `RegionsNest`, `FramesReusable`: the type
  invariant, `SingleOwner`, `OuterBelowInner` and `CleanFrames` are invariants.

The argument is one inductive invariant, `IInv`, their conjunction. None of
them is inductive alone: that a pop frees each block once needs `SingleOwner`;
that it frees only its own needs the positions of `OuterBelowInner`; that
`Return` may free the whole list needs that the outermost index is that of the
empty list, which is `CleanFrames`. Lemmas about lists come first
(`LookupFacts`, `RemoveFacts`, `PopToFacts`), the key one being that removal
moves every element down by at most one place and never up; then a lemma per
operation, then one case per disjunct of `Next`.

The refinement comes last, `RegionsOwnBlocks`: `Regions` implements
`Ownership` under the mapping `owner`, one case per operation. It needs all of
`IInv` in every step: that a block's owner is a function of the state is
`SingleOwner`, and that a pop gives up exactly the blocks the abstract region
owns is `OuterBelowInner`.

`VirtualMachineProofs` proves for every image the machine may be given and for
every bound:

* `MachineUsesRegions`: the machine implements `Regions!Spec`; each instruction
  is an operation of the regions or leaves heap and regions alone.
* `MachineOwnsOnce`, `MachineKeepsOwners`: so `SingleOwner` is an invariant of
  the machine too, and its runs are behaviours of `Ownership`.

Together: whatever the code generator writes for programs of scalar types (the
instructions of lists and dictionaries are not modelled, see 8), until the machine
steps out of the memory it may use, no block has two owners or none. These three do not need the
image to be well formed.

The next theorems are about images that are (`WellFormed`: jumps and handlers name
instructions, calls name functions, functions start and end at instructions,
nothing but a jump, return or halt is last, and literals are contents, numbers
below `Modulus`) and `Balanced` (every instruction
finds the operands it pops, in every order it can be reached in, and handlers
and functions expect none). The machine checks none of this. That the generator
writes only such images is `ImagesAssumption`, which TLC evaluates for every
image of `sound`, `any` and the violation runs. (A generator whose second pass
disagrees with its first by one byte fails it.)

* `AlwaysOnInstruction`: the machine then never leaves its instructions.
* `FramesStayLinked`: the frames stay linked through calls, returns and
  exceptions (the unconditional half of `FramesNest`).
* `FramesNeverOverlap`: `FramesNest`, all of it, through any sequence of calls,
  returns, raises and handlers.
* `MachineTypes`: the type invariant of the machine, for any limits.

The inductive invariant is `CodeInv`: not only the instruction pointer but
everything it can come from names an instruction, that is the return addresses
of active frames and the handlers of **all** frames, since a call inherits those
its frame was left with. That return addresses are right needs that frames are
unwound one at a time, and that a raise or a return with the flag set has a
frame below needs the assertions of `Asserts`.

`ListsProofs` proves for every set of blocks, lists and elements and any sizes
of header and element:

* `TypeCorrect`, `InBounds`, `CountersRight`: the type invariant, `StaysInBlock`
  and `CountsBlocks` are invariants;
* `ListsAreSequences`: `Lists` implements `ListContents`.

The inductive invariant `Inv` adds three facts to these: no capacity is beyond the
cells the model looks at (`CapacityInCells`; what a list of `MaxLength` grows to
is bounded, since it grows only when it is full), a variable without a block
has length 0, and the stack's block, when it has one, is in use (`StackInUse`: so
that growing it is a resize of a counted block, or the making of one). The refinement then needs that growing and trimming keep the cells
below the length (`Kept`), which is where `StaysInBlock` comes in: a block of the
new size reaches as far as the elements do.

`FramesNeverOverlap` rests on `StackInv`: while the machine runs there are at
least `Depth(ip)` operands above the base, and each frame that waits for a call
promises its caller what the depth at the return address asks for
(`FrameNests`). Handlers, also those of frames that are only kept for reuse,
lead where the depth is 0, which is what makes an exception out of the middle
of an expression harmless. The two facts have to be carried together: a return
restores one from the other.

`MachineTypes` rests on `TypeInv`, and does not need the images to be balanced.
A call does not make room for its variables, so the stack pointer may be above
the stack: by no more than 127 slots for each open call, and what a return
restores is bounded by the number of frames below it. That a stack trace is
there to be freed when a handler is found (`traces` stays a natural number)
takes that the flag is only set together with a trace.

The second half of `VirtualMachineProofs` is about images that are `Disciplined`
(`Discipline`). Nothing but the generator's care makes an image so, and some of
its images are not: a `raise` with statements after it or inside of its own `try`,
handlers that stay open in a frame, a `raise` out of a loop, a program that calls
its own main. `CodeInOrder` has TLC evaluate `Disciplined` for every image of
`sound`, and the theorems hold of every other such image, with any limits and any
outcomes of its comparisons:

* `FunctionsEndBalanced`: `EndsBalanced`;
* `HandlersStayHome`: `HandlersOfFunction`;
* `SilentAfterRaise`: `NoStatementAfterRaise`.

The inductive invariant is `ExactInv`, on top of `StackInv`: at every instruction
there are as many operands and open regions as `Reckoned` says, each frame that
waits for a call will have them at its return address (`ReturnsExact`), and the
handlers of a frame, below main, are as many as counted and lead into the function
that runs in it (`HandlersExact`). Three things make it work that no single
function shows. A frame is reused with the handlers it was left with, so a
function must have none open where it ends, and where an exception may leave it;
`Raising` is the least set of functions for which the second has to be asked.
Main is left for no other function, so a handler of main may stay open, but then
any later exception may go to any of main's handlers: all of them have to expect
the same counts. And an exception in flight is only ever at the freeing of
variables that every function ends with (`Leaving`), which is why
nothing is printed meanwhile.

* `EverythingIsFreed`: `NothingLeaks`, for images that are `Accounted` too.

The hard half of it is the blocks that were taken out of their regions (`held`).
`OwnInv` adds to `ExactInv` who has to free each of them (`HasOwner`): it is the
result that waits on top of the stack (`CarriedHere`), or in a variable of the
running function that the code has still to free (`OwnedHere`), or in a variable
of a function that waits for its call (`OwnedBelow`). A store and a free happen
through a pointer, so the pointer on top has to be the one the code says
(`PointsTo`); pops and pushes of the running function must not reach the callers'
variables (`FramesRise`); and a caller goes on with all of its variables to free
(`CallersOwn`). At OP_Halt no frame is left and nothing waits, and the blocks in
regions are gone because all regions are closed, which is the invariant of
`RegionsProofs`.

* `FramesLeaveNothing`: `LocalsFreed`, for the same images.

It adds `FreedInv` to the above: what is in an owned variable of the running
function that is no longer pending is no block taken out of its region, unless it
is the result that waits on top of the stack. A variable stops being pending only
by its free, after which its slot still holds the freed block, and between the
first free and the return nothing is stored and no block leaves a region
(`FreedStays`); everywhere before that, all variables are pending (`AllPending`).
A function that returns its variable spares it: the variable still holds the block
while this is the result on top, and the return gives the block to a region of
the caller. A function with Integers or Strings of its own that returns an
*expression* frees them before it computes it (`bytecode.c:1466`); it is not
`Accounted`, and these theorems say nothing of an image that has one.

`Delivers` was found by this proof. `tarot_return` takes a result off the stack
whenever the function is declared with one (`thread.c:106-107`), also when an
exception goes through its end, which pushes none. If the function has no
variables, what is taken, and zeroed by the pop, is what the frame below has on
top, its last variable:

    main { try { h(); } catch ... }
    h(): Void { let x: Integer = 2; x = f(); }
    f(): Integer { g(); return 1; }
    g(): Void { raise ...; }

The block of `x` is then never freed. The image is `Disciplined` and every store
has its free; only `Delivers` says that functions an exception may leave have no
result (`ReachInv` then shows that the void end of a function with a result is
never executed).

`ParserProofs` and `TreeProofs` are about **every** sequence of tokens (`Sources`,
`Class` and `Slices` are constants with no more assumed of them than that
identifiers, strings and f-strings are classes of tokens), right or wrong, of any
length, with any number of errors and files:

* `ControlFits`: the invariant `ParserInv`, that frames, parsers, streams, scopes
  and registers fit each other;
* `NoTreeIsReported`: `NoSilentFailure`;
* `LeavesNothingBehind`: `EndsClean`;
* `EveryNodeHasItsOwner`: the invariant `TreeInv`, on top of `ParserInv`;
* `OnlyTheTreeIsLeft`: `NothingLost`;
* `ParserTypes`: `TypeOK`.

`NamesProofs` has the last of these, for texts whose names are never empty
(`NamesAssumption`: a name that was not read is told apart from all that are):

* `FaultsOnlyAfterErrors`: `FaultsReported`.

`JumpProofs` goes on from there, with and without errors:

* `JumpsFindTheirTarget`: `JumpsLinked`.

`ParserInv` has a part for each thing that outlives a function's step. `FramesInv`
says which phase a frame of each form of rule may be in, what it may have hold of
then, and which frames wait for another. `StreamsInv` and `ScopesInv` say that the
open streams are those of the frames that parse a piece of an f-string, and the
scopes those of the frames between their `enter` and `leave` steps, each **in the
order of the frames** (`Orders`): that is why closing the last one closes the
right one, and why none is left when no frame is. `ParsersInv` says that a parser
that is not calm, and a frame that recovers, has an error reported; the recovery
of `multiparse` makes the parser calm again, so the error count and not the flag
has to carry this, and it has to be the outermost parser's, to which the
handler reports.

`TreeInv` is an ownership discipline for a language without one: every
allocated node is below exactly one of the nodes that a frame (`node`, `held`)
or the answer has hold of (`Forest`), and no two frames have hold of the same.
Each operation on nodes has a lemma for what it makes of a forest
(`CreateForest`, `AttachForest`, `FreeForest`, `EditForest`, `CopyForest`), and
each action moves nodes between frame, answer and tree without loss. That `Free`
takes all of a subtree needs that fields are only ever set that the traversal
visits, which is in `RulesAssumption` and, for the rest of a rule under way, in
`KindFits`. The delicate places are where a node is in the C code's hands
twice: the target of `x += e`, which is copied for the right side
(`parse.c:1372`), and the target of an assignment that gives up
(`parse.c:1414-1422`); `FramesInv` therefore knows that the frame of such an
assignment still waits for its target's new owner (`Ahead`).

`ParserTypes` adds the symbols (`SymbolsInv`): nodes are freed while scopes are
entered, with their symbols, and what keeps a scope's own symbols alive is that
its node is one a frame has hold of.

`FaultsReported` is about the flow of data within the rules, which the code
leaves to the order of its statements. A symbol is compared by a name
(`tarot_compare_strings` asserts that there is one), so every rule that declares
must have read its name; parameters are indexed and handlers are linked in a list
that the rule must have attached; a constructor takes its name from the class
around it; an import without an alias takes that of what it imports. `NamesInv`
says this as two parts. `CallsInv` holds always: which rule waits for which
(`CalledBy`), that a class is never inside of another one, and that the parts of
a class are only ever parsed between the `enter` and `leave` of a class, whose
node is then in the register (`within.class`). `NamesRight` holds **as long as no
error was reported**: nodes of the kinds that have names have them (`NodeNamed`),
symbols are allocated nodes of declaring kinds (`SymbolsNamed`), the node of a
frame is of the kind its rule makes and has the list the next step looks into
(`Placed`), and a rule that has ended, or the answer of one, returned a node of
that rule's kind, or none only if it may (`Gives`). The second part is not
inductive with the errors left in: recovery gives up nodes whose scopes and symbols stay. That
an error once counted is never taken back (`ErrorsGrow`: the handler counts at the
outermost parser, and nested parsers come and go) is what makes the condition safe. The facts
about single rules are in `NamesFit` of `RuleShapes`, which TLC evaluates for the
grammar as it is: a step that declares is in a rule whose node has a name, the
step in front of `index` and `handlers` parses the list and always returns one, and
so on. Statements that abort on their own are left as exceptions in the property,
and the proof says why there are no others: scopes and streams are left in
their order (`LeaveRight`, `CloseRight`, from `ParserInv`).

`JumpsLinked` relates two things that are made at different times: a jump is
linked while its function and loops are registers, and is below them only when
they have been attached, by the callers of the callers. `JumpInv` therefore says of
every node that a frame or the answer has hold of that its jumps are linked **as if
what the frame is in were around it** (`Tied`): a jump below a function or loop of
its own part of the tree links to the innermost one there, any other one to the
function (`FunctionFor`) and the loop (`OuterLoop`) that the frame is parsed in,
and the jump that a frame is still building is left out (`Unsettled`). Attaching a
part to a function or loop then makes that the innermost one for just the jumps
that named it already (`JoinedTied`, whose hypothesis is that the frame's node is the
one that was entered; for everything else the part moves on unchanged). The
function around a jump is what the register says, because functions are not nested
(`NestInv`: what is local calls only what is local). The loop is not: the register is
cleared at the end of a loop also when another loop is around that one
(`parse.c:1308`), and holds the loop of the frames **or nothing**
(`RegistersInv`). That this does no harm is `BreakRight`: a break without a loop in the
register reports an error and is given up, so that it gets into no tree (a break
that follows an inner loop is rejected, not linked wrongly). Where a node goes by
another way than that of its rule, it must have no jumps at all: the target of
`x += e`, which is copied with its links (`NoJumps` of whatever is parsed as a
value, `Evaluating`), and the handlers and enumerators, which are linked to their
try and their enumeration behind the list (`PlainKids`).

`AnalyzerProofs` is about every forest of trees a parser may leave (`Shaped`: a
node is followed by what is below it, every node is in a module, an Import or a
Call has its Identifier first), with whatever errors, and any capacity of the
scope stack:

* `AnalyzerTypes`: `TypeOK`;
* `EveryFunctionHasItsEntry`: `TableComplete`, for programs with one `main` at
  most (`OneMain`, a hypothesis of the theorem that TLC evaluates for the programs
  of `analyzer`; nothing in the code asks for it, see 6);
* `VariablesKeepToTheirFrames`: `SlotsOfFrame`, for programs without a function
  inside of a function (`FlatFunctions`, which TLC evaluates too: `parse_statement`
  begins no function, namespace or module) and in states with `GlobalsApart`: no
  constant outside of functions comes before a function that has variables, and no
  name is linked to one. The code breaks the property without it (5: the counter is
  shared), and a frame has no slot for a constant of a module anyway. TLC has found
  `GlobalsApart` in every finished state of `analyzer`, whose programs have such
  constants (`limit`) as well as functions with variables;
* `WhatIsNeededIsLoaded`: `ModulesLoaded`, for every program, also one whose
  imports name files that are not there.

`WalkInv` describes the walk: the path is a chain in which each node is the child
that the one before it has been at last (`Chain`), and an Import is the last but
one on it at most, its Identifier behind it (`Importing`), which is why
`type_checking`, a counter in the code, is a flag. From the chain follows what the
second theorem needs: the nodes the walk has left for good are those of the
module up to a point, except for the path (`VisitedBy`), leaving a node adds that
node (`LeaveVisited`), and behind the last one all have been visited, each once
(`WholeModule`). `TableInv` then counts: as long as there are no errors the
functions of the visited nodes have the indices from 1 on, and main has 0
(`Indexed`); an error makes the module's count positive and no step lowers it, so
what is skipped in a panic cannot matter (`Clean`); and the generator, which goes
over the same nodes once more, enters a function at an index no other has
(`Entered`).

The third theorem takes two more invariants on top of the walk. `LinkInv` says
that the stack of scopes is the scopes of the path (`ScopesOf`), so that a lookup
meets the variables of the one function the walk is inside of and of no other:
imports name modules, modules declare no such variables, and a link, once made, is
between nodes of one owner (`OwnLinks`). `SlotsInv` says how far the counter is:
functions that are done are numbered (`Framed`), the one on the path is numbered
as far as its nodes have been left (`Framing`), and outside of functions the
counter is 0 as long as a function with variables is to come, which is where
`GlobalsApart` is needed. As with the table it holds while there are no errors. The
frame has room because parameters and variables are different symbols of one scope
(`RoomForValues`), none of which an accepted program has lost (`WholeScopes`).

The list of modules grows while the imports of its modules are resolved, so what is
said of it holds of the part behind the cursor (`LoadInv`): the imports that have
been handled are linked to the module of their file, which is in the list
(`Loading`), and whatever is in the list is in every closed set, since the import
that brought it in is of a module that was in the list already (`Needed`). The
phase ends at the end of the list as it then is; all of its imports have been
handled, so the list is a closed set itself, and the least one. That each module is
in it once is in `WalkInv`, and follows from there being one module of a path.

Two of the models were found not to be provable as they stood, and were
changed to follow the code more closely: `FramesNest` said less than the name
(operands of the running function were not part of it), and the parser's model
left the node a function had returned in `answer` when its caller already had it,
so that two things had hold of one node where in the C code there is one.

**Only model-checked**:

* `ScopesMatchTree`, `NamesKept`, `ReadsBack`, `AcceptsPrograms`: they relate a
  whole file to its whole tree; what a rule computes from its tokens is an
  induction over data.
* `AcceptsRight` and `LinksMean` of the analyzer compare it with what names mean,
  which follows chains of imports of any length: an induction over data.
* `OutputAgrees`, and that the images of all programs of section 6 are in order
  (`CodeInOrder`): the generator's definitions are recursive over the tree and so
  out of the prover's reach.
* `NoFault`: it does not follow from `Disciplined` and `Accounted`. A call does not
  clear its variables, and a store frees what the last call left in the slot, so
  it takes that every function leaves nothing but freed or zeroed slots behind
  the way they are used next; and a pointer to a variable is taken before the
  push that may move the stack (`LoadVariablePointer`), so it takes that some
  push before it was deeper.
* Liveness, which is out of the prover's reach too.

## 5. Findings

The violation runs each quote the line they contradict in `PROJECT.json`:

1. `AfterRaise`: a `raise` without a handler in its function sets a flag and
   the statements after it are executed (`vm.c:170-173`).
2. `Readme`: assignment generates its target as a value and stores through it
   (`bytecode.c:1715`); the repository's README has such an assignment.
3. `TwoArguments`: arguments arrive in reverse (`thread.c:76`).
4. `LeaveLoops`: `raise` leaves the regions of loops open until the assertion
   of `region.c:17` fails.
5. `KeptRational`: variables of rationals are never freed (`bytecode.c:1431`).
6. `MissingModule`: an import from a missing file is reported and then looked
   into, which fails the assertion of `node.c:334` (`import.c:45`).

Others met on the way, each seen in the built program as well, and kept out of
`SoundPrograms` for that reason: more variables than the stack has room for
(`thread.c:96`); a handler that stays open in its frame after an exception went
to it, so that the next call that reuses the frame inherits it (`thread.c:37`);
returning an argument itself or a Boolean expression
(`bytecode.c:1466`); a function called twice with an untouched variable slot,
whose stale value a store frees; printing a power, which nothing tracks; a cast
of a cast to Integer, which is tracked twice; storing a rational, which looks
for it in a region; an exception no function handles, which runs into the
assertion of `current_frame`.

A `main` without variables is left out as well: its `OP_Return` looks at the top
of the stack before it knows whether there is a result (`vm.c:317`), and that
stack is empty, or was never allocated. This one is read from the code, and
`VirtualMachine` stops with a fault there.

For the same reason the programs of `analyzer` leave out: a constant of a module
in front of a function, which moves the indices of that function's variables
(`analyze.c:248`, the counter is shared); an imported module with a main of its
own, which takes the place of the program's (`analyze.c:215`); a local name that
a later global declaration has too, which is linked to the global, since
`lookup_symbol` begins with the outermost scope (`scope.c:126`); a symbol imported
under its own name that its module lacks, which is then found in the import
itself; and imports that name each other in a circle, which `definition_of`
follows for ever (`node.c:826`).

In the parser, where the properties are stated so that these show as what they
are: break after an inner loop has ended is rejected, since there is one register
for the loop (`parse.c:1308`, which has a FIXME); a class that has lost its name
but whose body recovers reaches an assertion about a NULL name (`string.c:223`);
a block that is discarded leaves its declarations in the scope around it, which
a later declaration of the name then reports as a redefinition; a type
definition, an import without a name and a compound assignment to a subscript
with a range abort (`parse.c:1160`, `1458`, `1372`). In the serializer: `x *= a + b;` is printed as
`x = x*a+b;`; print statements, for, range, break, breakpoints, constructors,
methods and attributes have no printed form or half of one (`Unprinted`); long
strings are split by `tarot_string_split`, whose removal of the front overwrites
part of the rest with zeros (`string.c:182`).

## 6. The discipline of the programs

The generated code is right for programs whose main has variables, that assign by
`let` only, raise inside of the `try` of the same function or as its last statement,
have functions whose parameters may be exchanged (one, or two that are used alike:
the machine takes the last argument for the first, finding 3), return fresh values from functions that have no variables (a function
that returns its variable is called once, since the caller's block stays in the
slot), do not leave loops or functions that have a result by exceptions, and do
not keep rationals in variables. Within it the combination of statements is free.

The programs of `AnalyzerPrograms` have no name declared inside of a scope that
declares it too (`Scoping!Unshadowed`; the parser enforces it only for names that
come later), one main function (`OneMain`: with a second one, in a namespace or an
imported module, both get index 0, `analyze.c:215`, and the one that is generated
later takes the other's entry), no function inside of a function (`FlatFunctions`:
no text has one), and no constants outside of functions in front of
a function that has variables (`GlobalsApart`).

## 7. Plan

1. *(done)* `Regions`, `Ownership`, proofs of the invariants.
2. *(done)* `VirtualMachine`, `CodeGenerator`, reference semantics, divergences;
   proof that the machine uses the regions as specified.
3. *(done)* `Analyzer` with imports and scopes: loading modules, linking names,
   assigning indices, against a declarative definition of scoping and right
   programs.
4. *(done)* `Parser` with recovery, scopes, streams and nested parsers, over
   `Grammar` and `SyntaxTree`; `Serializer` and `Formatter`.
5. *(done)* `Allocator`, `Lists`, `ListContents` with proofs; dictionaries as lists
   of pairs; the fields of the function table (`NumParameters`).
6. *(done)* Proofs of the refinement of `Ownership`, of `AlwaysOnInstruction` and of
   the linked frames, for well-formed images.
7. *(done)* Proofs that frames never overlap, for balanced images; that operands,
   regions and handlers are in order, for disciplined images; of the
   parser's control, of the ownership of its nodes, and of its type invariant,
   for every text; of the machine's type invariant, for well-formed images; of the
   analyzer's type invariant, of the modules that are loaded, of the function table
   and of the slots of variables;
   of the names and lists the parser relies on and of the targets of its jumps, for
   every text; that nothing is left when the machine halts, and in the variables of
   a frame that is left.
8. What would come next: `NoFault` as a theorem; classes, methods and their constructors
   in `Analyzer` and `CodeGenerator`; a model of the type rules of the validator.

## 8. Not modelled, and why

* Lists, dictionaries, objects, ranges and foreign functions in the machine and
  the generator. They add kinds of values, not control. A list of the language has
  no elements (`OP_ListAppend` does nothing, `vm.c:915`). A dictionary has: its pairs
  are put in by `OP_PushDict` (`bytecode.c:1333-1343`, `vm.c:941-950`) and it is
  tagged as a list of strings, so that popping its region frees its keys with it
  (`region.c:48`, `list.c:66-84`), although the region tracks each of them
  too (`vm.c:807`); `dictionary.c:21` has a FIXME about this. `Regions` and the
  machine therefore speak of scalar values, blocks that own no others, and what they
  show does not hold of dictionaries; `Lists` leaves out the freeing and copying
  of elements for the same reason.
* The queue of ready threads (`vm.c:35`): one thread is ever created, and it is
  taken out once.
* Insertion into and reversal of lists, which nothing calls; the same holds for
  some parse functions.
* The scanner, beyond the tokens it delivers: a loop that keeps its position.
* White space, comments and the breaking of long lines in the serializer.
* Arbitrary-precision arithmetic (`extern/mini-gmp`), floating point
  (`extern/fdlibm`) and the text of strings: third-party or pure.
* Type rules of the validator, and the simplifier: stateless rules over each kind
  of node. Classes, methods, relations and types in the analyzer.
* Error messages, logging, bytecode disassembly: formatted output.
* Command line: reads options and calls the others in order.
