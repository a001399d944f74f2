---------------------------- MODULE SourceProgram ----------------------------
(***************************************************************************)
(* What the author of an assembly program relies on: the VM executes the   *)
(* instructions of the source, one line after the other, with the operands *)
(* written there. A label is the line it is put on, wherever that ends up. *)
(* After the last instruction before .DATA the program ends, and so it     *)
(* does, in stack mode, with a RET that no call waits for.                 *)
(***************************************************************************)
EXTENDS Integers, Sequences, SequencesExt, FiniteSetsExt

CONSTANT Preloaded  \* the values of the symbols that are no labels

VARIABLES
    src,    \* the source
    at,     \* the line of the next instruction, 0 when there is none
    calls,  \* the lines to return to
    did     \* the instruction just executed

avars == <<src, at, calls, did>>

Quiet == [mn |-> <<"", "">>, args |-> <<>>]

Lines(ops) == {k \in DOMAIN src : src[k].what.op \in ops}
CodeEnd == IF Lines({"data"}) = {} THEN Len(src) + 1 ELSE Max(Lines({"data"}))
Code == {k \in Lines({"instr"}) : k < CodeEnd}

\* The first of these lines from k on.
First(lines, k) ==
    LET from == {n \in lines : n >= k} IN IF from = {} THEN 0 ELSE Min(from)
NextCode(k) == First(Code, k)

StackMode == \E k \in Lines({"mode"}) : src[k].what.mode = "stack"

Labelled(x) == {k \in DOMAIN src : src[k].label = x}
Symbols == {src[k].label : k \in DOMAIN src} \ {""}

\* The line of label x; it must be on one. Data is no place to go on.
LineOf(x) == First(Lines({"instr", "byte"}), CHOOSE k \in Labelled(x) : TRUE)
Goto(x) == IF LineOf(x) \in Code THEN LineOf(x) ELSE 0

\* What operand k of w stands for: a line, a register or function, a number.
Operand(w, k) ==
    LET a == w.args[k]
    IN  CASE a.sym = ""               -> a.num
          [] a.sym \in DOMAIN Preloaded -> Preloaded[a.sym]
          [] OTHER                    -> LineOf(a.sym)

\* Every label an instruction names is on one line.
Clear(w) ==
    \A k \in DOMAIN w.args :
        \/ w.args[k].sym \in DOMAIN Preloaded \cup {""}
        \/ \E n \in DOMAIN src : Labelled(w.args[k].sym) = {n}

Execute ==
    /\ at > 0
    /\ LET w    == src[at].what
           name == w.mn[1]
           next == NextCode(at + 1)
       IN  /\ Clear(w)
           /\ did' = [mn |-> w.mn, args |-> [k \in DOMAIN w.args |-> Operand(w, k)]]
           /\ \/ name = "EXIT" /\ at' = 0 /\ UNCHANGED calls
              \/ name = "JMP" /\ at' = Goto(w.args[1].sym) /\ UNCHANGED calls
              \/ name \in {"BRZ", "BRNZ"} /\ at' \in {next, Goto(w.args[1].sym)}
                 /\ UNCHANGED calls
              \/ name = "JMPI" /\ at' \in {Goto(x) : x \in Symbols} /\ UNCHANGED calls
              \/ name \in {"BRIZ", "BRINZ"}
                 /\ at' \in {next} \cup {Goto(x) : x \in Symbols} /\ UNCHANGED calls
              \/ name = "CALL" /\ at' = Goto(w.args[1].sym) /\ calls' = Append(calls, next)
              \/ name = "RET" /\ calls # <<>> /\ at' = Last(calls) /\ calls' = Front(calls)
              \/ name = "RET" /\ calls = <<>> /\ StackMode /\ at' = 0 /\ UNCHANGED calls
              \/ name \notin {"EXIT", "JMP", "BRZ", "BRNZ", "JMPI", "BRIZ", "BRINZ",
                              "CALL", "RET"}
                 /\ at' = next /\ UNCHANGED calls
    /\ UNCHANGED src

Init == at = NextCode(1) /\ calls = <<>> /\ did = Quiet

Spec == Init /\ [][Execute]_avars
=============================================================================
