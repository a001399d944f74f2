------------------------------ MODULE Assembler ------------------------------
(***************************************************************************)
(* The assembler (src/assembler/assembler.cpp): the first pass reads the   *)
(* source line by line, gives every label the address its line will have,  *)
(* executes the directives and leaves the rest in workingText; the second  *)
(* pass reads that and writes the program behind a header the first pass   *)
(* has filled in. The addresses are right only if the second pass writes   *)
(* as many bytes for each line as the first has counted.                   *)
(*                                                                         *)
(* A source line is a label, which may be "", and what follows it:         *)
(*   none                        nothing, or a comment                     *)
(*   wrong                       text that is reported wherever it stands  *)
(*   mode, heap, heap_max, data  the directives that fill in the header    *)
(*   bad                         .HEAP, .HEAP_MAX or .BYTE with a number   *)
(*                               that is missing or that stoul cannot read *)
(*   byte                        .BYTE: a declared size and data, a string *)
(*                               ("split" if it holds a ';'), or a number, *)
(*                               which has `text' characters as a decimal, *)
(*                               or "junk" that stoul cannot read          *)
(*   instr                       a mnemonic and operands: a number, or a   *)
(*                               symbol, which op may join to a number     *)
(*                               ("many": further operators follow, "neg": *)
(*                               there is a minus sign in front)           *)
(* Labels begin their lines.                                               *)
(***************************************************************************)
EXTENDS InstrSet, TLC

CONSTANT Sources  \* the programs to assemble

VARIABLES
    src,      \* the source
    phase,    \* "first" or "second" pass, or how rackasm has ended: "done", or after an
              \* exception in the first pass ("empty") or the second ("cut"), or "killed"
    lineNbr,  \* the next line of the pass
    addr,     \* m_instrAddr
    labels,   \* m_labelDict
    loaded,   \* the instruction sets loaded, the last one last
    header,   \* m_binHeader
    working,  \* the lines of workingText, with the address each was given
    failed,   \* m_hasError
    out,      \* what was written behind the header: the bytes of each line
    fpos      \* how much that is

vars == <<src, phase, lineNbr, addr, labels, loaded, header, working, failed, out, fpos>>

----------------------------------------------------------------------------
(* Labels, and what m_info knows of instructions.                          *)

\* The labels there are from the beginning: registers and system functions.
RegisterNames == [n \in 0 .. 31 |-> "R" \o ToString(n)]
SysNames == [n \in 0 .. 6 |-> <<"__print", "__input", "__write", "__read",
                                "__open", "__close", "__str">>[n + 1]]
Preloaded ==
    [x \in Range(RegisterNames) \cup Range(SysNames) |->
        IF x \in Range(RegisterNames) THEN AntiFunction(RegisterNames)[x]
        ELSE AntiFunction(SysNames)[x]]

ASSUME NoEmptyName == "" \notin DOMAIN Preloaded

NoData == -1  \* dataStart before a .DATA, 2^32 - 1
DefaultHeader ==
    [mode |-> "register", heap |-> 4096, heap_max |-> 67108864, dataStart |-> NoData]

\* LoadInstructionSet empties m_translate but adds to m_info: of the sets loaded,
\* sets, the last one that has the mnemonic is the one it has the size of.
Knowing(sets, mn)  == {i \in DOMAIN sets : mn \in Mnemonics[sets[i]]}
Info(sets, mn)     == sets[Max(Knowing(sets, mn))]
Size(sets, mn)     == IF Knowing(sets, mn) = {} THEN 0
                      ELSE ByteSize(Info(sets, mn), mn)
ArgCount(sets, mn) == IF Knowing(sets, mn) = {} THEN 0
                      ELSE Len(Fields(Info(sets, mn), mn))
Translates(mn)     == loaded # <<>> /\ mn \in Mnemonics[Last(loaded)]

\* Bugs the properties tell from the code: data not counted, undefined labels
\* passed over, dataStart taken in the wrong place.
CountedCode(sets, w) == IF w.op = "byte" THEN 0 ELSE Size(sets, w.mn)
Undefined(w)         == FALSE
DataStartNext(a)     == a + 1

\* What the first pass adds to the address for a line that is left for the
\* second.
Counted(sets, w) == IF w.op = "byte" THEN w.size ELSE Size(sets, w.mn)

\* What the second pass writes for it.
Written(sets, w) ==
    IF w.op = "instr" THEN Size(sets, w.mn)
    ELSE IF w.data = "number" THEN w.text ELSE w.size

\* An operand with a symbol that is defined nowhere, or too long an expression.
Unresolved(w) ==
    \E k \in DOMAIN w.args :
        w.args[k].sym \notin DOMAIN labels \cup {""} \/ w.args[k].op = "many"

\* stoul cannot read the data, or the left side of a minus sign that has none.
Throws(w) ==
    \/ w.op = "byte"  /\ w.data = "junk"
    \/ w.op = "instr" /\ \E k \in DOMAIN w.args : w.args[k].op = "neg"

\* Divided by zero, or, the operands evaluated, a mnemonic that m_translate has no
\* function for: the one that is called is NULL.
Kills(w) ==
    /\ w.op = "instr"
    /\ \/ ~Throws(w) /\ ~Translates(w.mn)
       \/ \E k \in DOMAIN w.args : /\ w.args[k].op = "/" /\ w.args[k].num = 0
                                   /\ w.args[k].sym \in DOMAIN labels

\* Of a symbol's value in an expression only the lower 32 bits are set.
Garbage == -3
EvaluateArgument(a, width) ==
    LET value == labels[a.sym]
    IN  IF a.sym = "" THEN a.num
        ELSE IF a.op = "many" \/ a.sym \notin DOMAIN labels THEN 0
        ELSE IF a.op = "" THEN value
        ELSE IF a.op = "/" \/ width = 8 THEN Garbage
        ELSE CASE a.op = "+" -> value + a.num
               [] a.op = "-" -> value - a.num
               [] a.op = "*" -> value * a.num

DataStart(a) == a

----------------------------------------------------------------------------
(* The first pass.                                                         *)

Init ==
    /\ src \in Sources
    /\ phase = "first" /\ lineNbr = 1 /\ addr = 0
    /\ labels = Preloaded /\ loaded = <<>> /\ header = DefaultHeader
    /\ working = <<>> /\ failed = FALSE /\ out = <<>> /\ fpos = 0

LineError == failed' = TRUE /\ UNCHANGED <<addr, loaded, header, working>>

Ignored == UNCHANGED <<addr, loaded, header, working, failed>>

\* .MODE, only before the first byte.
SetMode(w) ==
    IF addr > 0 \/ w.mode \notin Modes THEN LineError
    ELSE /\ header' = [header EXCEPT !.mode = w.mode]
         /\ loaded' = Append(loaded, w.mode)
         /\ UNCHANGED <<addr, working, failed>>

\* .HEAP, .HEAP_MAX and .DATA.
SetHeader(w) ==
    /\ \/ w.op = "heap"     /\ header' = [header EXCEPT !.heap = w.kib]
       \/ w.op = "heap_max" /\ header' = [header EXCEPT !.heap_max = w.kib]
       \/ w.op = "data"     /\ header' = [header EXCEPT !.dataStart = DataStart(addr)]
    /\ UNCHANGED <<addr, loaded, working, failed>>

\* .BYTE and instructions go on to the second pass.
Leave(w) ==
    /\ working' = Append(working, [line |-> lineNbr, at |-> addr, what |-> w])
    /\ addr' = addr + Counted(loaded, w)
    /\ UNCHANGED <<loaded, header, failed>>

Read(w) ==
    \/ w.op = "none"  /\ Ignored
    \/ w.op = "wrong" /\ LineError
    \/ w.op = "mode"  /\ SetMode(w)
    \/ w.op \in {"heap", "heap_max", "data"} /\ SetHeader(w)
    \/ w.op = "byte"  /\ Leave(w)
    \/ w.op = "instr" /\ IF Len(w.args) = ArgCount(loaded, w.mn) THEN Leave(w) ELSE LineError

Registered(x, a) == [y \in DOMAIN labels \cup {x} |-> IF y = x THEN a ELSE labels[y]]
LabelsWith(l) == IF l.label = "" THEN labels ELSE Registered(l.label, addr)

\* A label that is there already: the rest of its line is dropped, too.
FirstPassReadLine ==
    /\ phase = "first" /\ lineNbr <= Len(src)
    /\ LET l == src[lineNbr]
       IN  IF l.label \in DOMAIN labels THEN LineError /\ UNCHANGED labels
           ELSE labels' = LabelsWith(l) /\ Read(l.what)
    /\ lineNbr' = lineNbr + 1
    /\ UNCHANGED <<src, phase, out, fpos>>

\* A number that cannot be read throws. main catches that; the file stays empty.
FirstPassFails ==
    /\ phase = "first" /\ lineNbr <= Len(src)
    /\ LET l == src[lineNbr]
       IN  l.label \notin DOMAIN labels /\ l.what.op = "bad" /\ labels' = LabelsWith(l)
    /\ phase' = "empty"
    /\ UNCHANGED <<src, lineNbr, addr, loaded, header, working, failed, out, fpos>>

\* The header is written, whatever errors there were.
FirstPassEnds ==
    /\ phase = "first" /\ lineNbr > Len(src)
    /\ phase' = "second" /\ lineNbr' = 1 /\ addr' = 0
    /\ UNCHANGED <<src, labels, loaded, header, working, failed, out, fpos>>

----------------------------------------------------------------------------
(* The second pass.                                                        *)

Emit(bytes) ==
    /\ out' = Append(out, bytes)
    /\ fpos' = fpos + bytes.size
    /\ lineNbr' = lineNbr + 1
    /\ UNCHANGED <<src, phase, labels, loaded, header, working>>

\* A string is cut where a ';' ends it in workingText. The address stays.
AssembleData ==
    /\ phase = "second" /\ lineNbr <= Len(working)
    /\ LET w == working[lineNbr]
       IN  /\ w.what.op = "byte" /\ ~Throws(w.what)
           /\ Emit([line |-> w.line, at |-> fpos, size |-> Written(loaded, w.what),
                    opcode |-> -1, args |-> <<>>,
                    whole |-> w.what.data # "split"])
    /\ UNCHANGED <<addr, failed>>

AssembleInstr ==
    /\ phase = "second" /\ lineNbr <= Len(working)
    /\ LET w == working[lineNbr]
       IN  /\ w.what.op = "instr" /\ ~Throws(w.what) /\ ~Kills(w.what)
           /\ Emit([line |-> w.line, at |-> fpos, size |-> Written(loaded, w.what),
                    opcode |-> Encoded(Last(loaded), w.what.mn),
                    args |-> [k \in DOMAIN w.what.args |->
                                EvaluateArgument(w.what.args[k],
                                                 Fields(Last(loaded), w.what.mn)[k])],
                    whole |-> TRUE])
           /\ failed' = (failed \/ Unresolved(w.what))
           /\ addr' = addr + Size(loaded, w.what.mn)

\* After an exception main closes the file, with the lines before this one in it.
AssemblyFails ==
    /\ phase = "second" /\ lineNbr <= Len(working)
    /\ LET w == working[lineNbr].what
       IN  \/ Throws(w) /\ phase' = "cut"
           \/ Kills(w)  /\ phase' = "killed"
    /\ UNCHANGED <<src, lineNbr, addr, labels, loaded, header, working, failed, out, fpos>>

SecondPassEnds ==
    /\ phase = "second" /\ lineNbr > Len(working)
    /\ phase' = "done"
    /\ UNCHANGED <<src, lineNbr, addr, labels, loaded, header, working, failed, out, fpos>>

Next ==
    \/ FirstPassReadLine \/ FirstPassFails \/ FirstPassEnds
    \/ AssembleData \/ AssembleInstr \/ AssemblyFails \/ SecondPassEnds

Spec == Init /\ [][Next]_vars

\* What Assemble returns. rackasm calls more than 0 a success.
Result == IF phase = "done" /\ ~failed THEN addr ELSE 0

----------------------------------------------------------------------------
(* Properties.                                                             *)

\* At a, in the file, end the lines before k and begin those from k on.
Begins(k, a) ==
    \A n \in DOMAIN out : IF out[n].line < k THEN out[n].at + out[n].size <= a
                          ELSE a <= out[n].at

\* When both passes are through without an error, every label is the position
\* in the file of the line it was put on: the first pass has counted for each
\* line in between what the second has written.
LabelsPlaced ==
    phase = "done" /\ ~failed =>
        \A k \in DOMAIN src : src[k].label # "" => Begins(k, labels[src[k].label])

\* And so is dataStart, where the VM will leave its loop, for a source with one
\* .DATA.
DataPlaced ==
    phase = "done" =>
        \A k \in DOMAIN src :
            /\ src[k].what.op = "data" /\ src[k].label = ""
            /\ \A m \in DOMAIN src : src[m].what.op = "data" => m = k
            => Begins(k, header.dataStart)
=============================================================================
