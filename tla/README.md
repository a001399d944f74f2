# RackVM: a TLA+ model

RackVM (`src/`) is a virtual machine with a stack and a register instruction
set, an assembler that turns `.asm` text into its binary format, and a compiler
for the small language Rack. This directory holds TLA+ specifications of its
parts, configurations that TLC checks, and proofs that TLAPS checks. Every
definition is translated from the source; `PROJECT.json` gives, for each one, the
lines it stands for.

    tlc -workers 2 -config RackHeapStack.cfg RackHeap     # one run
    tlapm RackHeapProofs.tla                              # proofs

## Inventory

| part | source | state | operations | hard behaviour |
|---|---|---|---|---|
| heap | `vm/vm_memory.c` | one region: `Alloc_t` headers in a linked list, between them guest data | `VMHeapAlloc`, `VMHeapRealloc`, `VMHeapFree`, three string allocators, `AllocateHeap`, `ResetHeap` | long sequences of legal calls; stale links; the heap being full; data read as headers |
| stack interpreter | `vm/stack_impl.h` | `instrPtr`, `sp`, `stackFrame`, the stack | one per opcode | overflow check after the write; unsequenced operands |
| register interpreter | `vm/register_impl.h` | the same, 32 registers at the bottom of the stack | one per opcode | step lengths against the encoder's |
| frames, system calls | `vm/shared_impl.h` | frame chain, `sysArgs`, `sysArgPtr` | `CALL`, `RET*`, `SARG`, `SCALL` | frames in memory the guest writes; unbounded arguments |
| loader, main loop | `vm/vm.c` | header fields, sentinels at the stack's bottom | `ReadProgram`, `AllocateStack`, the benchmark loop | 32-bit sizes; a rerun on state of the last run |
| assembler | `assembler/assembler.cpp` | `m_instrAddr`, header, working text | first pass, directives, second pass | the passes must agree on every address |
| labels | `assembler/label.cpp` | name to address, reference count | register, resolve | collisions with registers and system functions |
| encoder | `assembler/encoder.cpp` | instruction tables | lookups | agreement with the interpreters |
| compiler | `compiler/compiler.cpp`, `parser.yy`, `lexer.l` | scope stack, function list, counters | `DeclVar`, `UseVar`, `UseFunc`, `AddFunc` | shadowing, positions, calls before the end of a declaration |
| code generator | `compiler/code_generator.cpp` | instructions per function, jump indices | one per statement and expression, `Flush` | jumps to instructions that do not exist yet |

How they interact: the compiler writes assembly text, the assembler reads it and
writes a file, `ReadProgram` loads the file and allocates the heap, and one
interpreter loop runs it in a single thread. The interpreters call the heap for
`NEW`, `DEL`, `RESZ` and the string instructions, and system calls call it for
`INPUT` and `STR`. There is no concurrency, and nothing is persisted: what is
hard in this program is what a long sequence of legal instructions can do to
links, frames and addresses that nothing checks.

What makes each part correct:

* heap: live blocks never overlap, data stays until it is overwritten or freed,
  headers stay whole whatever guests write into their own data, searches end,
  requests fail only when the heap is full, free neighbours are joined;
* frames: a return restores the caller's frame, stack height and position, for
  every nesting, and no push goes past the stack unseen;
* assembler: each label's address is where its instruction lies in the file,
  `dataStart` is where the code ends, and the interpreters step over exactly the
  bytes the encoder wrote;
* system calls: each gets the arguments put for it and takes those off, no others;
* code generator: each branch has a label and it is the one its statement needs,
  and between statements nothing is left on the stack;
* compiler: a name means the innermost declaration, and each variable has a number of
  its own.

| modules | model | promise | proofs |
|---|---|---|---|
| heap | `RackHeap` | `AbstractHeap` | `RackHeapProofs` |
| stack, frames | `StackVM` | `CallStack` | `StackVMProofs`, `CallStackRefinement` |
| system calls | `SysCalls` | `Variadic` | `SysCallsProofs` |
| instruction sets, assembler, loader, loop | `InstrSet`, `Assembler`, `Toolchain`, `ToolchainMC` | `SourceProgram` | `AssemblerProofs`, `ToolchainProofs` |
| compiler, code generator | `RackTypes`, `RackNames`, `RackExpressions`, `CodeGen`, `RackCompiler`, `RackMC` | `RackFlow` | `CompilerProofs` |

`SequenceProofs` has the lemmas on sequences and folds, and the induction over sets
of natural numbers, that several of the proof modules cite.

`PROJECT.json` lists every part under "components", and under "hazards" the
places where these can fail and the properties that watch them.

## The heap: `RackHeap`, `AbstractHeap`

### State

All sizes are rounded up to multiples of `sizeof(Alloc_t)` = 24 bytes, so headers
lie at multiples of 24 only, and the heap is modelled as `HeapCells` cells of 24
bytes. `mem[c]` is what the allocator would read if it took cell `c` for a
header: whether `safebytes` is intact, the `occupied` byte, `next` and `prev`.
Guest data read as a header gives `Junk` pointers and either value of `occupied`;
memory that nobody cleared, and data that is copied, keeps the headers of earlier
blocks with their links, as in the code.
`held[c]` is what the guest knows: the number of data cells of the block it holds
with data at `c + 1`. `pc`, `cur` and `want` are the position of `VMHeapAlloc`'s
loop and the request it serves. `pc = "fault"` stands for everything after an
access that C gives no meaning to, and ends the behaviour.

### Actions

| action | code |
|---|---|
| `Init` | `AllocateHeap` |
| `New`, `NewString`, `NewCombined` | a call of `VMHeapAlloc` from `NEW`, from `VMHeapAllocString`, from `VMHeapAllocCombinedString` or `VMHeapAllocSubStr` |
| `Hop` | one turn of the loop of lines 94-100 |
| `Place` | the loop ends at a block that fits: the split of lines 113-129 and what the caller does with the result (nothing, writing the string, or copying and freeing the moved block) |
| `Overrun` | the loop ends past the heap, or the split would: lines 115-118, "TODO: Handle heap resize" |
| `ReturnNull` | lines 102-106 and what the callers do with the 0 |
| `VMHeapFree(c)` | lines 191-221 |
| `VMHeapRealloc(c, bytes)` | lines 132-189: `Unresized`, `Shrink`, `Grow`, or `Move`, which calls `VMHeapAlloc` |
| `EmptySubStr` | `"empty"` in `Ops`: a substring of no characters, whose terminator goes to the first byte of the heap |
| `Store(c, x)` | the guest writes into its own data (`STM` and its variants) |
| `ResetHeap` | the benchmark loop's restart |

A guest may use the heap in the ways `Ops` names, and with `Discipline = "stack"`
it frees and resizes only the topmost block it holds. `Ops` and `Discipline` are
about guests only: no definition of the allocator looks at them. Guests never
free a block twice, never use a block after they freed it and write only into
their own data. After `Grow` the guest goes on with the address the code returns,
which is that of the header (see below).

### Properties

* `OnlyMovesTurnBack`: no step makes a link of the list lead backward, except the
  copy of a block that moves. (`PointersForward`: a `next` leads forward, or to the
  header itself; a `prev` leads backward.)
* `SearchEnds`: the loop of `VMHeapAlloc` ends if every header leads on
  (`LinksLeadOn`). `SearchLeaves`: it ends. A loop that turns at one header for ever
  is a behaviour in which `Hop` changes nothing.
* `LiveDisjoint`, `LiveHeaders`: blocks the guest holds are apart, and their
  headers are as they were made.
* `LiveSafebytes`: a guest that behaves is never warned of heap corruption.
* `FreeJoined`: no free block is followed by a free block.
* `FaultsOnlyWhenFull`: a request runs past the heap only if no free stretch is
  long enough.
* `AbsSpec`: `RackHeap` implements `AbstractHeap`, which says what a guest may
  rely on: where blocks may be put, and that their contents stay. The refinement
  maps `held` to itself and `data` to the contents of the cells in live blocks.

### Runs

| run | guest | cells | shows |
|---|---|---|---|
| `heap_stack` | frees and shrinks its topmost block, stores, makes strings, combined ones too | 7 | `LiveDisjoint`, `LiveHeaders`, `LiveSafebytes`, `FreeJoined`, `AbsSpec` hold |
| `heap_any` | frees and grows in any order, strings, resets | 6 | `TypeOK`, `OnlyMovesTurnBack`, `SearchEnds` hold |
| `heap_bump` | never frees; stores, all strings, resets | 8 | `SearchLeaves`, `FaultsOnlyWhenFull`, `AbsSpec` hold |
| `heap_free_overlap` | frees in any order | 8 | `LiveDisjoint` is violated |
| `heap_shrink_overlap` | shrinks any block | 8 | `LiveDisjoint` is violated |
| `heap_search_endless` | frees in any order | 6 | `SearchLeaves` is violated |

Requests are of 24 and 30 bytes, one and two cells, 24 being the size at which a
terminator reaches the next header; two of the violations take 24 and 90 bytes so that
a block can cover several others, the third 24 alone. Seven cells hold three blocks and the header at
the end: enough for a block with two neighbours, the case every join is about.
Searches start and end, and
exhaustion is reached, in every run that passes.

The bounds are those constants alone: no action is cut off by a counter.
`CHECK_DEADLOCK FALSE` is set because a guest whose behaviour has come to a fault
takes no more steps.

`heap_any`, `heap_bump` and `heap_search_endless` assume weak fairness of the loop's
steps (`Hop \/ Place \/ Overrun \/ ReturnNull`): the VM is a single thread, and nothing
else can run until the loop is left. Guests owe nothing.

What the three violations show:

* **Freeing out of order** (`vm_memory.c:209-211`). `VMHeapAlloc` does not tell
  the block after a split one that its predecessor changed. A later `VMHeapFree`
  joins through that stale `prev` and redirects a link over a live block.
* **Shrinking under a live block** (`vm_memory.c:153`). The new header's next is
  `curr->next->next`: the block in between is skipped, live or not.
* **Exact size** (`vm_memory.c:113, 126`). A request that takes a free block of exactly
  its size puts the new header where the next one is and gives it its own address for
  a `next`. The header has size 0 and fits no request: a search that comes to it stays
  in the loop of lines 94-100 for ever.

Growing a block in place (`vm_memory.c:160`) returns the address of its header, 24
bytes before the data; the other paths return the data's. The guest's next store goes
over the header. `held` follows the address returned, so in the model the grown block
seems to begin a cell early, and no property of live blocks is stated of guests that
grow blocks.

A block that moves is copied with all that lies in it (line 183), headers of earlier
blocks that nobody cleared included, whose links then may lead backward, or in a
circle; `VMHeapFree` follows them. So `OnlyMovesTurnBack` excepts moves: that the list
leads forward "whatever the guest does" would be false.

No run shows one more: with both neighbours free (`vm_memory.c:208-216`) the block
is joined with prev, and next is joined into the block, which is no longer in the
list. So free blocks may lie side by side for a guest that frees in any order;
no comment of the code says that they do not.

Programs the Rack compiler emits are on the safe side: its grammar has no rule
for `destroy` (commented out in `parser.yy`), so they never free nor resize.

### Proofs

All theorems hold for every `HeapCells`, every nonempty set of positive `Requests`
and every `Discipline` (`HeapAssumption`); what they ask of the guest is said with
each.

All are in `RackHeapProofs`. Part 1:

* `HeapTypes`, any guest: `Spec => []TypeOK`. Its invariant adds that the block being
  moved lies in the heap.
* `LinksTurn`, any guest: `Spec => OnlyMovesTurnBack`. One lemma per operator that
  rewrites the heap (`Placed`, `Resized`, `Freed`, `Written`, `Terminated`) says that it
  keeps the links forward; there is none for `Copied`.
* `ForwardList`, for guests that never resize a block (`FixedSizes`), but free in any
  order, write, make every string and are restarted: `Spec => []PointersForward`.

Part 2:

* `StackSafe`, for a `StackGuest`, one that neither resets the heap nor grows
  blocks, and frees and shrinks only the topmost block or nothing at all:
  `Spec => [](LiveDisjoint /\ LiveHeaders /\ FreeJoined)`. None of the three is
  inductive: what keeps blocks apart is where the free memory is. `StackInv` says
  that live blocks lie side by side from the first cell up to a header `t` that is
  not live, their `prev` links exact, and that the list goes on from `t` only over
  headers `K` that look occupied, which stale memory can bring about. So a search
  can stop only at `t` (`SearchStopsAtT`), and splitting, freeing and shrinking
  turn one such shape into another (`PlacedShape`, `FreedShape`, `ResizedShape`).

Parts 3 and 4:

* `StackRefines`, for a `StackGuest`: `Spec => AbsSpec`. Each action is a step of
  `AbstractHeap` or none: the turns of the loop and the faults change nothing a
  guest sees, `Place` is the abstract `New`, and it overwrites no data because all
  that it writes lies from `t` on (`PlaceWrites`).
* `StackSafebytes`, for a `StackGuest` without `"empty"` in `Ops`:
  `Spec => []LiveSafebytes`. A terminator that falls into the next header's safe bytes
  (line 247) meets a header that is not live, as all live blocks lie before it.
  `STRCPY` of no characters writes its terminator into the first header
  (`EmptySubStr`), live or not, which is why `"empty"` is excluded.

Part 5, for a `BumpGuest`, one that never frees or resizes a block, but may
store, make every kind of string and be restarted by the benchmark mode:

* `BumpSafe`: `Spec => [](LiveDisjoint /\ LiveHeaders /\ FreeJoined)`,
  `BumpFaults`: `Spec => FaultsOnlyWhenFull`, `BumpRefines`: `Spec => AbsSpec`.
  `StackInv` does not survive a restart, after which the list ends in a NULL.
  `BumpInv` says that live blocks fill the heap up to `t`, that all behind `t` is
  free and that `t` leads to the end or to NULL; a search is in a live block, at
  `t`, or at the end when nothing behind `t` is large enough.

Only model-checked: `SearchLeaves` and `SearchEnds` (liveness is out of TLAPS's reach).

`StackGuest` excludes restarts, and `BumpGuest` frees; a guest that does both is not
safe, even if it frees only its topmost block. The restarted heap is zeroed, so its
list ends in a NULL instead of at the end of the heap. When such a guest frees and
allocates again, a header left by an earlier block can look occupied and lead to that
NULL; a search that passes it reports heap corruption, `VMHeapAlloc` returns 0, and
the caller writes its string over the header of the first live block. TLC finds this
in `RackHeap` with 7 cells, requests of 24 and 30 bytes, `Discipline = "stack"` and
`Ops = {"free", "shrink", "store", "string", "reset"}`, as a violation of
`LiveHeaders`. So the two hypotheses cannot be made one.

### Left out

Requests of 0 bytes (they change nothing), sizes that wrap around 2^32, the
cells past the last whole one, `VMGetHeapAllocSize` (it reads only), and which
guest bytes a cell holds beyond what a header would read there. The operands of
`RESZ` and `STRCMB` are taken to be the ones meant: in the stack interpreter they
are unsequenced with `--sp`.

## The stack: `StackVM`, `CallStack`

### State

`stk` is the array `AllocateStack` makes, in 32-bit words, and the two words of
memory behind it: no instruction reaches further past its end. `sp` and `frame`
are `sp` and `stackFrame` as indices. `back` is where the last `RET` sent
`instrPtr`; otherwise the program is not modelled, and any instruction may be
next. `status` tells whether the loop runs and how it was left. `argc` is on no
stack: it is what the guest's code knows of itself, the words of arguments each
active function was called with.

Words a guest computes are `0` and `1`; addresses behind its `CALL`s are too, so
that nothing tells a saved frame from data but its place. The words above `sp`
are kept as the code leaves them, stale. `malloc`'s uninitialised words start as
0: a guest that keeps to its words never reads one it did not write.

### Actions

| action | code |
|---|---|
| `Init` | `AllocateStack` |
| `Operate(<<taken, left>>)` | every instruction that only takes words off the stack and leaves others, by their numbers |
| `LoadLocal(m)`, `LoadArgument(m)` | `LDL`, `LDA`; `m` = 2 for the 64-bit ones |
| `StoreLocal(m)`, `StoreArgument(m)` | `STL`, `STA` |
| `Call` | `SHARED_CALL` |
| `Return(m)` | `SHARED_RET`, `SHARED_RET_32`, `SHARED_RET_64` outside main |
| `MainReturns` | `SHARED_RET` in main, whose frame is the two words at the bottom: it jumps to 0xFACE, past the end of any program shorter than that |
| `Exit` | `EXIT`, and running past the program's end |
| `Rerun` | the benchmark loop, lines 475-486 |

`Continue` is the end of every turn of the loop: the check of line 552 comes
after the instruction has written. Guests take off the stack only what they put
there (`Holds`), name locals and arguments that exist (`Locals`, `Arguments`),
and a `RET` takes off what the caller pushed. The interpreter checks none of it;
these are the guards about guests, and the only ones.

### Properties

* `FramesNested`: from `frame`, the saved frames lead to main's, one for each
  active call, each below the words of the function it belongs to.
* `SentinelsIntact`: the words main checks at the end stay.
* `AbsSpec`: `StackVM` implements `CallStack`, in which every active function has
  a sequence of words of its own, there are no frames, and `Return` gives the
  caller back what it had, less the arguments, plus the result, after its call.
  The refinement finds the activations by walking the frames.

That nothing behind the stack is written is not among them: the check of line 552
comes after the write, and a `CALL` writes two words. `stk` has those two words so
that this can happen, and `TypeOK` that it stops there.

### Runs

| run | guest | shows |
|---|---|---|
| `stack_calls` | all of the above; reruns after an `EXIT` in main | `TypeOK`, `FramesNested`, `SentinelsIntact`, `AbsSpec` hold |
| `stack_rerun` | reruns after any end of a run | `FramesNested` is violated: `stackFrame` still names a function of the last run |

A stack of 8 words holds main's frame and three more, or one with arguments and
a result of 64 bits; the overflow is reached by every instruction that pushes.
Nothing else is bounded. The loop may stop at any time, so deadlock is not
checked, and no fairness is assumed.

### Proofs

For every `StackSize` above 2 and every set of `Words` and `Rets`
(`StackAssumption`), if the benchmark mode reruns only programs that ended in main
(`RerunsFromMain`; `stack_rerun` shows why):

* `StackIntact` (`StackVMProofs`):
  `Spec => [](TypeOK /\ FramesChained /\ SentinelsIntact)`. `FramesChained` is
  `FramesNested` with "some frames" for the frames `FramesTo` computes. The two words
  at the bottom are main's frame, and so they are kept because all frames are: a
  write that misses the two words of each frame keeps the chain (`FramesStay`), the
  words of the running function and its arguments miss them (`OwnWordsMiss`,
  `ArgumentsMiss`), `CALL` adds a link above all others and `RET` drops one, writing
  over no other.
* `StackFrames` (`CallStackRefinement`): `Spec => []FramesNested`. `FramesTo` is a
  recursive function, so that it solves its equation has to be proved: each saved
  frame is below the one it was found in, so it is built up from the bottom
  (`ChainUpTo`), and the chain it finds is the only one (`FoundFrames`).
* `StackRefinesCalls` (`CallStackRefinement`): `Spec => AbsSpec`. The words a function
  owns lie between its frame and the next; each instruction changes those of the
  running function alone, and `CALL` and `RET` cut them where `CallStack` does.

The induction that both need is one over sets of natural numbers, from the
well-foundedness of `<` (`LeastNat`, `SetInduction`): the library's induction
theorems take a predicate as an operator, which the provers cannot instantiate.

### Left out

What instructions compute and where branches lead (`Toolchain` has the branches),
`RET.32` and `RET.64` in main (they put their result over the two words at the
bottom), `SARG` and `SCALL` (see `SysCalls`), and the register interpreter's use of
the same frames.

## System calls: `SysCalls`, `Variadic`

### State and actions

The arguments of a system call lie on the stack, `stk`; the VM knows how many and
how wide they are only from the bytes `SARG` appends to the global `sysArgs`.
`given` is what the guest's code is about: the arguments it has put for each call
it prepares. `said` tells whether the last one has its `SARG` behind it, `out` what
the last call took for its arguments. Arguments are ints, longs, floats, doubles
and strings; a wide one is two words, whose halves are told apart, so that reading
one word off gives neither value. The size of `sysArgs` is `Slots`.

| action | code |
|---|---|
| `Push`, `Pop`, `Begin`, `Put` | instructions of the guest that leave words or arguments |
| `SARG` | `SHARED_SARG`, `shared_impl.h:90-97` |
| `SysPrint`, `SysStr`, `SysInput` | `SHARED_SCALL` and the functions it calls, 74-273: how far below `sp` each argument is looked for (`ValueSizeSum`), what is printed (`SysPrint` makes a float a double, `SysStr` does not), what is taken off, the result, and `sysArgPtr` going back |
| `NoFunction` | `SCALL` of `__write`, `__read`, `__open`, `__close` (`vm.c:72-75`), for which it has no case: only `sysArgPtr` goes back |

`Variadic` has no bytes: a call gets the arguments put for it, in order, floats as
doubles. The four functions that are only names change nothing (`Ignored`).

### Properties, run, proofs

`sys_calls` (4 slots, two values, calls with up to 4 arguments): `ArgsInArray`
(nothing of an earlier call takes room, so `SARG` stays in the array), `EntriesMatch`
(every entry is that of an argument of this call), and `AbsSpec`, the refinement of
`Variadic`. With 4 slots the array is filled and emptied, and every argument can stand
before and behind one of another width; nothing in the code depends on the number 8
but its bound.

What the guests of this run do not do, and what would become of it:

* `"nested"` in `Ops`: a system call among the arguments of another. There is one
  `sysArgs`: the inner call takes over the entries of the outer, and its reset
  loses them.
* `"many"`: more arguments than `sysArgs` has bytes. `SARG` writes past the array: it has
  no bound, and that a guest announces at most `Slots` arguments is a condition on
  guests that no code enforces.
* `"str_numbers"`: doubles, longs and floats given to `SysStr`. It looks for a wide
  argument one word off from where `SysPrint` does (lines 212 and 128), and leaves a
  float as it is, which `printf` takes for a double's half (lines 219 and 134). The
  compiler's type flags would reach this, but the generator emits no flags
  (`code_generator.cpp:555`).

None of the three is a promise of the code, so no property is stated of such guests;
the hazards list them.

`SysCallsProofs`, for every `Slots`, all values and any stack height
(`SysCallsAssumption`):

* `TypesKept`, for any guest: `Spec => []TypeOK`.
* `OwnArguments`, for guests that do not nest calls and put no more than `Slots`
  arguments (`Careful`): `Spec => [](ArgsInArray /\ EntriesMatch)`.
  The invariant adds that at most one call is in preparation, that its arguments
  fit, and that `sysArgs` has as many entries as it has arguments, less the one not
  announced yet.
* `CallsGetArguments`, for a `PlainGuest`, the guest of the run, that does none of
  the three things above: `Spec => AbsSpec`. The words of the arguments put so far lie
  on top of the guest's own (`Stacked`); the sum of the entries' sizes, a fold, is
  the number of those words from an argument on, proved by induction over the
  length as in `CallStackRefinement`, and so `Topmost(i)` is where the `i`-th ends.

Nothing of `SysCalls` is only model-checked.

## From source to execution: `InstrSet`, `Assembler`, `Toolchain`, `SourceProgram`

### State and actions

`InstrSet` has no state: it writes down the two instruction sets three times, as
the opcodes' enumeration, as the assembler's tables of widths and sizes, and as
what the interpreters read and step over, each from its own file.

`Assembler` reads `src`, a sequence of lines (the grammar is in its header). `addr`,
`labels`, `header`, `failed` are the members of that meaning; `loaded` is the list
of instruction sets `.MODE` has loaded, `working` is `workingText`, with the address
each line was given kept beside it; `out` and `fpos` are the file behind its header.

| action | code |
|---|---|
| `FirstPassReadLine` | one line of `FirstPassReadLine`: label, directive, data, instruction, comment, or an error that is reported |
| `FirstPassFails` | a number of `.HEAP`, `.HEAP_MAX` or `.BYTE` that `stoul` cannot read (lines 263, 274, 300): the exception goes to `main` (697-707), the file stays empty |
| `FirstPassEnds` | the header is written, whatever errors there were |
| `AssembleData`, `AssembleInstr` | one line of `AssembleLine` in the second pass, with `EvaluateArgument` |
| `AssemblyFails` | an operand or data that throws (`main` closes the file as it is, phase `"cut"`), a mnemonic without a function or a division by zero (the process is killed, `"killed"`) |
| `SecondPassEnds` | the end of `Assemble` |
| `ReadProgram` (`Toolchain`) | `ReadProgram` and `AllocateHeap` of `vm.c`, of any file `rackasm` has closed: an empty one is refused, one of a failed assembly is not |
| `Jump`, `Branch`, `JumpThrough`, `BranchThrough`, `Call`, `Return`, `MainReturns`, `Exit`, `Proceed`, `LoopEnds` | one turn of either interpreter loop: decode at `pc`, read operands, go on |

`rackasm` calls an assembly a success if `Assemble` returns more than 0 (`Assembled`).
The VM starts on the file of any other just as well: the model does, too, and then
goes on with whatever instructions it finds there, but nothing is promised of that.
What is in the file of a `rackasm` that was killed depends on its buffers, and such
files are not followed.

A `RET` in main jumps to the second word at the bottom of the stack, 0xFACE
(`MainReturns`), which ends the loop of any program whose code ends before that
(`NearData`). In register mode that word is R1, and since the contents of registers
are left out, so is a `RET` in main there.

Branches go either way and jumps through a value anywhere the program can name,
since values are not modelled.

`SourceProgram` is what an author relies on: lines with instructions, in order, a
label is the line it is on, `.DATA` ends the code. It has neither addresses nor
bytes.

### Properties and runs

* `LabelsPlaced`, `DataPlaced`: after both passes every label, and `dataStart`, is
  the position in the file where its line begins.
* `HeapAsDeclared`: the VM runs a program exactly if the heap it declares is within
  the maximum it declares.
* `InStep`: the interpreter is always at the first byte of an instruction.
* `HeapAsDeclared`, `InStep` and `AbsSpec` are about sources assembled without an error;
  others count as programs that do not start.
* `AbsSpec`: assembler, loader and loop together do what `SourceProgram` says:
  the refinement maps `instrPtr` and return addresses to the lines written there.

`assembled` checks them all on about 7500 sources
(`Programs` of `ToolchainMC`): every instruction of both sets once, between labels
and reached by a call; all bodies of three lines in stack mode and two in register
mode with two labels, each on no, one or more lines, jumps, calls, branches and
wrong lines; 25 combinations of heap sizes around their limits; and sources
`rackasm` rejects, throws or crashes on. Calls nest two deep. The passes meet in every
program, and duplicated, undefined and forward labels all occur.

`asm_register` checks `InStep` on all instructions of the register set and finds it
violated: `register_impl.h` steps over `BORI`, `BXORI`, `BANDI` (both widths),
`CPI.64`, and a `BRIZ` or `BRINZ` not taken by another number of bytes than they
have. These nine (`Odd`) are left out of `assembled`.

Left out of `assembled` as well, because they go wrong in the way told:

* `STA` in register mode: loaded with the function of `STL` (`encoder.cpp:403`).
* Programs without `.HEAP_MAX`: the default of 67108864 KiB, commented "64 MiB",
  is 2^36 bytes and wraps to 0, so the VM refuses them.
* `.BYTE` with another size than its data has: the first pass counts the declared
  size, the second writes a number's decimal text, and reads past a string that is
  too short (`assembler.cpp:300, 498-531`).
* A string with a `;`: `workingText` separates lines by it, and the string is cut.
* A symbol divided by a number, or in an expression of 64 bits: garbage, the upper
  half of the value was never set (`assembler.cpp:173-190`).
* An instruction before `.MODE`: it counts 0 bytes, so `.MODE` is still accepted.
* Operands too wide for their field are cut.

### Proofs

`LabelsRight` (`AssemblerProofs`) proves `[](LabelsPlaced /\ DataPlaced)` for every set of `Sources` that
are `Sound`: `.MODE` comes before the first instruction and the first `.BYTE`, and a
`.BYTE` has the size it declares. Both conditions are needed, see above. Sources
may be of any length, with any labels, and no size of an instruction enters the
proof. Neither property is inductive. `IInv` says that each line of `working`
begins where the one before it ends, with sizes asked for of the sets loaded *now*
(`WorkingOK`; they are those of the time it was counted, because no set is loaded
once there is a line: `ReadCases`), that each address given lies between the lines
before its own and the others (`Placed`), and in the second pass that what is
written has the lines, positions and sizes counted (`SecondInv`). It assumes that
no register or system function has an empty name (`NoEmptyName`, which TLC
evaluates). The instance of `assembled` has one source that is not sound, a second
`.MODE` after an instruction, which is refused.

`ToolchainProofs` is about both tools, for every set of `Sources` that are `Clean`:
sequences of lines that are a `SoundSource`, and whose instructions have sequences
of operands. `SoundSource` is where the list of what goes wrong, above, is put
positively:

* its instructions are `Faithful`: assembler and interpreter agree on opcode, length
  and every operand (all of stack mode; all of register mode but `Odd` and `STA`);
* operands fit their fields, and those with a label are of 32 bits, without a
  quotient; a jump names its label alone (`SoundInstr`, `Fits`);
* `.BYTE` has the size of its data, which has no `;` in it (`SoundData`);
* there is one `.MODE`, before, and one `.DATA`, behind all instructions and data
  that have to be there, and behind each label is a line with bytes.

Wrong lines, unknown or repeated labels and wrong numbers of operands are allowed:
the assembler has to find them. That every source of `assembled` but the
rejected ones is sound, TLC evaluates (`ProgramsSound` in `ToolchainMC`).

* `ToolTypes`: `ToolSpec => []TypeOK`; `InstructionsMeet`:
  `ToolSpec /\ []NearData => []InStep`;
  `PlacesKept`: `ToolSpec => [](LabelsPlaced /\ DataPlaced)`.
* `HeapDeclared`: `ToolSpec => []HeapAsDeclared`, if each source also declares both
  sizes of its heap, below 2^22 KiB (`SoundSizes`).
* `ToolsRefineSource`: `ToolSpec /\ []NearData => AbsSpec`, for any `MaxDepth`.

`[]NearData` is needed for `MainReturns` alone: in a program with 0xFACE bytes of code or
more, a `RET` in main goes on in the middle of it.

`AsmInv` adds to `IInv` what a source without an error has become: no line is
missing from `working` (`Covered`), the sets loaded are that of `.MODE` (`ModeRead`),
every label is that of one line and no register's (`Named`), and `out` has the
opcodes and operands of its lines (`BytesRight`). So in a program that was `Made`
the lines lie one behind the other without a gap (`FileMade`), and an address
between the lines before `k` and the others (`Begins(k, a)`) is that of the first
instruction from `k` on, or behind the code (`NextHere`). `ToolInv` says that
`instrPtr` and every return address are such addresses (`Spot`). An instruction read
there is the one of its line (`Fetch`), with the operands the source means
(`DidShown`), and leads to another such address, which the refinement maps to the
line `SourceProgram` goes on with (`InstructionMoves`).

Nothing of these modules is only model-checked.

## The compiler: `RackTypes`, `RackNames`, `RackExpressions`, `CodeGen`, `RackCompiler`

### State and actions

`RackTypes` is `types.hpp` and the type checks of `compiler.cpp`: expressions,
promotions, casts, indices. `RackNames` has functions, identifiers and scopes.
`CodeGen` is `code_generator.cpp` for the stack, without expressions: each statement
becomes a sequence of instructions, a branch counts how many of them it goes over
(`over`; the code notes the index of the last one), and `Flush` gives labels to where
branches go and lists the functions. `TranslateStatement` calls itself for blocks and
branches in the code; here `CodeOf` gives code to the statements level by level
(`Levels`), from the deepest up, since no module with a proof may declare a
`RECURSIVE` operator. `RackCompiler` is the class `Compiler` under the actions of the
grammar: `scopes`, `curr`, `funcs` are its members, `open` is the parser's stack of
statements under construction, `list` the listing.

Expressions are trees of any depth. `RackExpressions` builds and translates them, with
`RECURSIVE` operators, and so what becomes of one is a constant of the modules that
are proved about: `Checked` (the typed expression, whether it is ok, whether its names
are known) and `ExpressionCode` (its instructions); `Size` counts statements, for the
bound on a program's length. `RackMC` gives them their definitions
(`BuildExpression`, `TranslateExpression`, `StatementCount`), and the proofs hold for
any.

There is one action for each rule of `parser.yy` that changes state:
`FunctionHead`, `FunctionEnd`, `Declaration`, `Initialization`, `Assignment`,
`OffsetAssignment`, `Creation`, `InitialCreation`, `Return`, `CallStatement`,
`OpenBlock`, `CloseBlock`, `If`, `Else`, `EndIf`, `ParseEnds`, `Generate`, with the
exceptions that end the compiler (`phase = "crash"`) and the messages that do not
(`reported`). The parser may read any program made of a *vocabulary*: heads of
functions, declarations, expressions and forms of statements.

`RackFlow` puts two readings of a function beside each other: `Statements` goes through
the statements, with the names in them looked up in the scopes as they are entered
and left, and `Steps` goes through the listing as the interpreter does. Both note, in
order, every number put, variable read or set, operation, test and return, given how
each test comes out. It says nothing of values.

### Properties and run

* `PositionsApart`: two variables of a kind that are visible, or hidden, at one point
  have different position numbers.
* `ExpressionsFallThrough`: the instructions of every expression of an accepted
  program are of the assembler's set, with their operands, and none branches or
  returns. It is what the proofs below ask of `RackExpressions`.
* `JumpsResolved`: every branch has the label of one instruction further down.
* `InInstructionSet`: every instruction is in the assembler's table (`InstrSet`),
  with as many operands as it asks for.
* `Balanced`: between statements nothing is on the stack, and a `RET` leaves
  nothing or one value of the function's type.
* `FollowsStatements`: for functions on ints and longs without calls, in whatever way
  their tests come out, the listing takes the steps of the statements, in their order:
  each branch goes where its statement ends, and each name is the innermost variable
  declared before it.

`compiled` checks them for all programs of four vocabularies: ints with blocks and
conditions (4 statements, 3 levels deep), ints and longs in expressions (3), strings
and arrays (3), calls and overloads (two functions of 2 statements). Four statements
hold an `if` with an `else` and a shadowing block, or an `if` in an `if`, what
jump fix-up and positions are about. After a message was printed what is open is
read to its end, but no new statement is begun: the listing of a program with a
message is of no use, only its end is of interest. Deadlock is not checked, since a
program that is generated, or crashes the compiler, is at its end.

The properties of listings are about `Accepted` programs, those for which no
message was printed and whose functions have names of their own; `Balanced` also needs
`Sized` functions (each expression leaves the bytes of its type). What is outside, and why:

* Names that are called lose their first letter (`code_generator.cpp:559`, `=` for
  `==`), overloads are appended to the first of their name (92), `RET` has no operand
  (401), `SARG` no type flag (555). No generated program with a function can be run,
  as `src/README.md` says ("the compiler cannot produce fully functional code"). So
  `compiled` looks at listings, and `Toolchain` does not take them as sources.
  `InInstructionSet` makes `RET` its one exception.
* Positions count variables from 0; the VM takes the operand of `LDL`, `STL`, `LDA` and
  `STA` for bytes (`stack_impl.h:118-149`), from the word behind the saved frame or back
  from it. So in a compiled function local 0 is the return address, argument 0 the
  saved frame, and variables of 4 or 8 bytes at neighbouring positions overlap:
  `vm.c:262-269` has the first local at +8 and the first argument at -4. `CALL` pushes
  the frame and the address above the arguments, where the `STA`s at the head of a
  compiled function do not expect them. `PositionsApart` and `FollowsStatements` are about
  the numbers in the listing; no property says that a compiled function computes what
  is written, and in this VM it does not.
* A comparison of longs leaves 4 bytes and has type LONG (`types.hpp:452`): not
  `Sized`. The index of an assigned element may be a long, and is stored in the
  array's variable (`code_generator.cpp:310`).
* A call as a statement leaves its result on the stack (327): not `Sized`.
* A branch that leads behind the function's last instruction gets no operand (262).
  This takes a function with a type that ends without a `return`, which is reported.
* Creating an int array reads the last of no expressions (`compiler.cpp:284`); in
  the model the expression is lost. `create` on an existing variable is neither
  checked nor scaled (`parser.yy:200`). `return;` is accepted in a function with a
  type (`compiler.cpp:227`), a recursive call is not checked (202), a declaration
  that is all of an `if` stays visible behind it.
* `AddFunc` reads the last of no statements (122), and the generator the first of
  no instructions (112): `crash` in the model.

### Proofs

`CompilerProofs`, for all vocabularies, `Names`, depths of nesting (`MaxNesting`), and
whatever `Checked`, `ExpressionCode` and `Size` are:

* `TypeCorrect`: `Spec => []TypeOK`; `PositionsDiffer`: `Spec => []PositionsApart`, position
  numbers, not bytes.
  Neither is inductive. `IInv` adds that every position in a scope is below the
  function's count of variables of its kind and that a name is in a scope for itself
  (`InScope`), so that a new variable, which gets the count, has a place that no
  visible or hidden one has; that there is one scope for each body and block that is
  open, so that closing one always finds its own; that every statement read is in a
  set `T` closed under "is in" (`Tree`), a branch having one block or two, and that a
  function without a message ends with `RETURN` (`AllReturn`); and that a generated
  listing is `Flush` of those functions. One lemma per group of actions keeps it:
  statements that are only added, heads and blocks that open, blocks, branches and
  functions that are closed, and the crashes.
* `ListingInInstructionSet`:
  `Spec /\ []ExpressionsFallThrough => []InInstructionSet`.
* `ListingJumpsResolved`, where `DistinctLabels`:
  `Spec /\ []ExpressionsFallThrough => []JumpsResolved`.
  `Within(c, d)` says of code `c` that each of its branches goes to an instruction of
  it further down (`d` = 1), or to that or just behind its end (`d` = 0), and that
  every other instruction is encodable. `Within(c, 0)` holds of the code of each
  kind of statement if it holds of the code of the statements in it, and so, by
  induction over the levels of `CodeOf`, of every function; as that ends with a
  `RET`, it is `Within(c, 1)`. The listing is laid out by a fold: `Listed` says on
  which line instruction `n` of function `k` is, and that each line is one of these
  (`FlattenLaid`). A label has the number of the targets whose first branch comes
  before (`MadeBefore`): of two targets one comes first, so their numbers differ
  (`LabelsDiffer`).

The levels of `CodeOf` end at `Deepest`, twice `MaxNesting`. A body or block that is open
has at most two levels of statements below those around it, a branch and its block, so
no statement lies deeper; `compiled` would find one that is left out, as
`FollowsStatements` compares the listing with all of them.

The two hypotheses. `ExpressionsFallThrough` is about the `RECURSIVE` operators of
`RackExpressions`; `compiled` checks it. `DistinctLabels`: `CreateLabel` makes
different labels of different numbers, and none of them is a function's name. Names
begin with a letter (`id`, `lexer.l:58`) and labels with `_L`, and TLC evaluates it for
the names of `RackMC` and the numbers 0 to 19 (`LabelsAssumption`); about the
characters of strings TLAPS knows nothing.

Only model-checked: `ExpressionsFallThrough`, `Balanced` and `FollowsStatements`, which
are about expressions, trees computed over by `RECURSIVE` operators: they need
induction over data.

## Plan

Done: all modules above, twelve runs, and proofs of every property they check except
the five named above as only model-checked. What would come next:

1. Widths: sizes near 2^32 in `VMHeapAlloc` (`vm_memory.c:89`) as a module of its own.
2. Floats, conversions and calls in `RackFlow`, with `FollowsStatements` for them.

## Not modelled

* What instructions compute: arithmetic, conversions, contents of strings, and what
  `printf` makes of its arguments. It decides no control that the models leave open.
* The register code generator (every one of its functions reports an error), the
  listing's header and string literals, the printing of statements and listings.
* Lexing, and splitting an assembly line into its parts: sources are given as lines
  and tokens. Names with `_` as their second letter are left out of the compiler's
  vocabularies: the test for system functions looks at that letter alone.
* Command lines, timing, messages; the decoding experiment, the benchmark programs,
  plots and third-party headers.
* `RET.32` and `RET.64` in main; the order in which C evaluates `*--sp = f(*sp, ...)`
  in `RESZ` and `STRCMB`.
* Liveness outside the heap's search: a guest may loop, and the compiler's and the
  assembler's loops run over finite text.
