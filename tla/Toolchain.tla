------------------------------- MODULE Toolchain -------------------------------
(***************************************************************************)
(* A program's way through the tools: rackasm (Assembler) makes a file of  *)
(* the source, the VM reads the file (ReadProgram, src/vm/vm.c) and        *)
(* executes what it finds at instrPtr. What instructions do to values is   *)
(* left out: a branch may go either way, a jump through a value anywhere   *)
(* the program can name.                                                   *)
(*                                                                         *)
(* ToolSpec is to do what SourceProgram promises the author of the source. *)
(***************************************************************************)
EXTENDS Assembler

CONSTANT MaxDepth  \* of calls

VARIABLES
    vm,     \* "off", "refused" (no header, or no heap), "run" or "ended"
    pc,     \* instrPtr, from the start of the program
    calls,  \* return addresses on the stack, the last one last
    did     \* the instruction just executed: the one meant, operands as read

toolVars == <<vars, vm, pc, calls, did>>

Quiet == [mn |-> <<"", "">>, args |-> <<>>, line |-> 0]

ToolInit == Init /\ vm = "off" /\ pc = 0 /\ calls = <<>> /\ did = Quiet

\* A bug in it: 16 bits for the size.
Bits16(kib) == kib % 2^6

\* Sizes are turned from KiB into bytes in 32 bits; counted in KiB, 22.
InBytes(kib) == kib % 2^22

\* A file is read whatever rackasm has said of it, if it has closed it. An empty
\* one has no header. AllocateHeap: a heap larger than its maximum is refused.
ReadProgram ==
    /\ vm = "off" /\ phase \in {"empty", "cut", "done"}
    /\ vm' = IF phase = "empty" \/ InBytes(header.heap) > InBytes(header.heap_max)
             THEN "refused" ELSE "run"
    /\ UNCHANGED <<vars, pc, calls, did>>

----------------------------------------------------------------------------
(* The interpreter loop.                                                   *)

BeforeEnd == header.dataStart = NoData \/ pc < header.dataStart

\* What the second pass has written here, if a line begins here.
Chunks(a) == {n \in DOMAIN out : out[n].at = a /\ out[n].size > 0}
ChunkAt(a) == out[CHOOSE n \in Chunks(a) : TRUE]

\* An operand in one byte is cut; one that is not where it is read is garbage.
Operand(mn, k, value) ==
    IF ~Arrives(header.mode, mn, k) THEN Garbage
    ELSE IF Fields(header.mode, mn)[k] = 1 THEN value % 256 ELSE value

\* The instruction at instrPtr, if one begins there. The loop has no bound but
\* instrEnd.
Fetched ==
    LET begun == {n \in Chunks(pc) : vm = "run" /\ BeforeEnd /\ out[n].opcode >= 0}
        read(c, mn) == [mn |-> mn, line |-> c.line,
                        args |-> [k \in DOMAIN c.args |-> Operand(mn, k, c.args[k])]]
    IN  {read(out[n], Meant(header.mode, out[n].opcode)) : n \in begun}

Addresses == {labels[x] : x \in DOMAIN labels \ DOMAIN Preloaded}

\* Another: back instead of on.
Before(f) == pc - Step(header.mode, f.mn)

Behind(f) == pc + Step(header.mode, f.mn)

Executes(f) == did' = f /\ UNCHANGED vars

Transfers == {"JMP", "JMPI", "BRZ", "BRNZ", "BRIZ", "BRINZ", "CALL", "RET", "EXIT"}

Jump(f) ==
    Executes(f) /\ f.mn[1] = "JMP" /\ pc' = f.args[1] /\ UNCHANGED <<vm, calls>>

Branch(f) ==
    /\ Executes(f) /\ f.mn[1] \in {"BRZ", "BRNZ"}
    /\ pc' \in {Behind(f), f.args[1]} /\ UNCHANGED <<vm, calls>>

JumpThrough(f) ==
    Executes(f) /\ f.mn[1] = "JMPI" /\ pc' \in Addresses /\ UNCHANGED <<vm, calls>>

BranchThrough(f) ==
    /\ Executes(f) /\ f.mn[1] \in {"BRIZ", "BRINZ"}
    /\ pc' \in Addresses \cup {Behind(f)} /\ UNCHANGED <<vm, calls>>

Call(f) ==
    /\ Executes(f) /\ f.mn[1] = "CALL" /\ Len(calls) < MaxDepth
    /\ pc' = f.args[1] /\ calls' = Append(calls, pc + 5) /\ UNCHANGED vm

Return(f) ==
    /\ Executes(f) /\ f.mn[1] = "RET" /\ calls # <<>>
    /\ pc' = Last(calls) /\ calls' = Front(calls) /\ UNCHANGED vm

\* With no call active the address is the second word at the bottom of the stack.
\* In register mode that is R1, whose value is left out.
FACE == 64206  \* 0xFACE
MainReturns(f) ==
    /\ Executes(f) /\ f.mn[1] = "RET" /\ calls = <<>> /\ header.mode = "stack"
    /\ pc' = FACE /\ UNCHANGED <<vm, calls>>

Exit(f) ==
    Executes(f) /\ f.mn[1] = "EXIT" /\ vm' = "ended" /\ UNCHANGED <<pc, calls>>

Proceed(f) ==
    /\ Executes(f) /\ f.mn[1] \notin Transfers
    /\ pc' = Behind(f) /\ UNCHANGED <<vm, calls>>

LoopEnds ==
    /\ vm = "run" /\ ~BeforeEnd /\ vm' = "ended"
    /\ UNCHANGED <<vars, pc, calls, did>>

ToolNext ==
    \/ Next /\ UNCHANGED <<vm, pc, calls, did>>
    \/ ReadProgram
    \/ LoopEnds
    \/ \E f \in Fetched :
          \/ Jump(f) \/ Branch(f) \/ JumpThrough(f) \/ BranchThrough(f)
          \/ Call(f) \/ Return(f) \/ MainReturns(f) \/ Exit(f) \/ Proceed(f)

ToolSpec == ToolInit /\ [][ToolNext]_toolVars

----------------------------------------------------------------------------
(* Properties.                                                             *)

\* "Assembly successful!". Of other files nothing is promised below, except that
\* the VM does start on them.
Assembled == Result > 0

TypeOK ==
    /\ phase \in {"first", "second", "empty", "cut", "killed", "done"} /\ failed \in BOOLEAN
    /\ addr \in Nat /\ fpos \in Nat /\ \A x \in DOMAIN labels : labels[x] \in Nat
    /\ vm \in {"off", "refused", "run", "ended"}
    /\ Assembled => pc \in Nat /\ calls \in Seq(Nat)

\* The last value the source declares for a directive.
Declared(op) == LET ls == {k \in DOMAIN src : src[k].what.op = op}
                IN  src[Max(ls)].what.kib

\* The VM runs a program, from the file with its header, exactly if the heap
\* its source asks for is no larger than the maximum the source declares.
HeapAsDeclared ==
    Assembled /\ vm # "off" => (vm = "refused" <=> Declared("heap") > Declared("heap_max"))

\* Between two instructions the interpreter is at the first byte of one: as
\* encoder.cpp has it, the size of an instruction is loaded with it.
InStep ==
    Assembled /\ vm = "run" /\ BeforeEnd => Chunks(pc) # {} /\ ChunkAt(pc).opcode >= 0

\* A RET in main ends the program if this is so.
NearData == header.dataStart <= FACE

\* What a source may contain for the tools to do what it says. Instructions whose
\* opcode, operands and length the assembler and the interpreter agree on:
Faithful(mode, mn) ==
    /\ mn \in Mnemonics[mode]
    /\ Encoded(mode, mn) >= 0 /\ Meant(mode, Encoded(mode, mn)) = mn
    /\ Step(mode, mn) = ByteSize(mode, mn)
    /\ \A k \in DOMAIN Fields(mode, mn) : Arrives(mode, mn, k)
    /\ mn[1] = "CALL" => ByteSize(mode, mn) = 5

\* operands that fit where they are put:
Fits(width, a) ==
    \/ a.sym = "" /\ a.num \in Int /\ (width = 1 => a.num \in 0 .. 255)
    \/ a.sym \in DOMAIN Preloaded /\ a.op = ""
    \/ /\ a.sym \notin DOMAIN Preloaded \cup {""} /\ width = 4 /\ a.num \in Nat
       /\ a.op \in {"", "+", "-"} \/ (a.op = "*" /\ a.num > 0)

SoundInstr(mode, w) ==
    /\ Faithful(mode, w.mn)
    /\ \A k \in DOMAIN w.args \cap DOMAIN Fields(mode, w.mn) :
          Fits(Fields(mode, w.mn)[k], w.args[k])
    /\ w.mn[1] \in {"JMP", "BRZ", "BRNZ", "CALL"} =>
          /\ 1 \in DOMAIN w.args /\ w.args[1].op = ""
          /\ w.args[1].sym \notin DOMAIN Preloaded \cup {""}

\* data of the size declared, in one piece:
SoundData(w) ==
    /\ w.size \in Nat \ {0} /\ w.data # "split"
    /\ w.data = "number" => w.text = w.size

\* one .MODE before and one .DATA behind all instructions that are executed, and
\* labels with something behind them.
ModeOf(s) == s[CHOOSE k \in DOMAIN s : s[k].what.op = "mode"].what.mode

SoundSource(s) ==
    /\ \A k \in DOMAIN s :
        /\ s[k].what.op = "byte"  => SoundData(s[k].what)
        /\ s[k].what.op = "instr" => SoundInstr(ModeOf(s), s[k].what)
        /\ s[k].label # "" =>
              \E n \in DOMAIN s : n >= k /\ s[n].what.op \in {"byte", "instr"}
    /\ \E k \in DOMAIN s :
        /\ \A n \in DOMAIN s : s[n].what.op = "mode" <=> n = k
        /\ \A n \in DOMAIN s : s[n].what.op \in {"byte", "instr"} => n > k
    /\ \E k \in DOMAIN s :
        /\ s[k].label = "" /\ \A n \in DOMAIN s : s[n].what.op = "data" <=> n = k
        /\ \A n \in DOMAIN s : s[n].what.op = "byte" => n > k

\* The sizes of the heap, both declared in KiB that are still counted in bytes.
SoundSizes(s) ==
    \A op \in {"heap", "heap_max"} :
        /\ \E k \in DOMAIN s : s[k].what.op = op
        /\ \A k \in DOMAIN s : s[k].what.op = op => s[k].what.kib \in 0 .. 2^22 - 1

\* The line that begins at an address, if it was written whole.
LineAt(a) ==
    IF \E n \in Chunks(a) : out[n].whole THEN ChunkAt(a).line ELSE -1

Text == INSTANCE SourceProgram WITH at <- 0, calls <- <<>>, did <- Quiet

\* A file that is none of a successful assembly counts as no execution.
Started == Assembled /\ vm \notin {"off", "refused"}

AbsAt ==
    IF ~Started THEN Text!NextCode(1)
    ELSE IF vm = "run" /\ BeforeEnd THEN LineAt(pc) ELSE 0

AbsCall(a) == IF header.dataStart # NoData /\ a >= header.dataStart THEN 0 ELSE LineAt(a)
AbsCalls == IF Started THEN [n \in DOMAIN calls |-> AbsCall(calls[n])] ELSE <<>>

\* The symbol's value in operand a, which came to n.
Undone(a, n) ==
    CASE a.op = "+" -> n - a.num
      [] a.op = "-" -> n + a.num
      [] a.op = "*" -> n \div a.num
      [] OTHER      -> n

\* Operands that the source gives with labels are the lines they lead to.
AbsDid ==
    LET given(k) == src[did.line].what.args[k]
        named(k) == given(k).sym
    IN  IF ~Started \/ did = Quiet THEN Text!Quiet
        ELSE [mn |-> did.mn,
              args |-> [k \in DOMAIN did.args |->
                          IF named(k) = "" \/ named(k) \in DOMAIN Preloaded THEN did.args[k]
                          ELSE LineAt(Undone(given(k), did.args[k]))]]

\* Through both tools a program does what its source says: the instructions of
\* its lines in their order, with the operands written there, jumps and calls
\* to the lines of the labels, no further than .DATA.
Abs == INSTANCE SourceProgram WITH
    at <- AbsAt, calls <- AbsCalls, did <- AbsDid

AbsSpec == Abs!Spec
=============================================================================
