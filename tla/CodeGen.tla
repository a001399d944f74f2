-------------------------------- MODULE CodeGen --------------------------------
(***************************************************************************)
(* The stack code generator (src/compiler/code_generator.cpp), except for  *)
(* expressions: functions of typed statements become sequences of          *)
(* instructions; Flush gives labels to where branches go and lists the     *)
(* functions by name.                                                      *)
(*                                                                         *)
(* An instruction is a mnemonic, operands and, if it branches, how many    *)
(* instructions it goes over, else -1 (the code notes the number of the    *)
(* last one it goes over). A string literal's label stands for the text    *)
(* itself; the lines of data at the listing's end are left out.            *)
(***************************************************************************)
EXTENDS RackTypes, TLC

CONSTANTS ExpressionCode(_),  \* the instructions of an expression
          MaxNesting          \* how many bodies and blocks may be open at once

ASSUME NestingAssumption == MaxNesting \in Nat \ {0}

\* A bug: an instruction branches when it is made.
BranchingInstruction(mn, args) == [mn |-> mn, args |-> args, over |-> 0]

Instruction(mn, args) == [mn |-> mn, args |-> args, over |-> -1]
AddInstruction(mn, args) == <<Instruction(mn, args)>>

\* RETURN_ERROR does not return: what follows it is added, too.
Error == AddInstruction(<<"NOP", "">>, <<>>)
ErrorUnless(ok) == IF ok THEN <<>> ELSE Error

\* A bug: the sizes the wrong way round.
ByOther(name, t) == <<name, IF GetDataTypeBytes(t) = 8 THEN "" ELSE ".64">>

BySize(name, t) == <<name, IF GetDataTypeBytes(t) = 8 THEN ".64" ELSE "">>

Access(local, arg, id) ==
    CASE id.type = "LOCAL_VAR" -> local
      [] id.type = "ARG_VAR"   -> arg
      [] OTHER                 -> ""

----------------------------------------------------------------------------
(* Statements: a type, an identifier, expressions and statements in it.    *)
(* code[t] is the code of a statement t that is in s.                      *)

stmt_assignment(s) ==
    LET name == Access("STL", "STA", s.id)
    IN  ExpressionCode(s.exprs[1]) \o ErrorUnless(name # "")
        \o AddInstruction(BySize(name, s.id.dataType), <<s.id.position>>)

stmt_creation(s) ==
    LET name == Access("STL", "STA", s.id)
    IN  ExpressionCode(s.exprs[1]) \o AddInstruction(<<"NEW", "">>, <<>>)
        \o IF name = "" THEN Error ELSE AddInstruction(<<name, "">>, <<s.id.position>>)

stmt_return(s) ==
    (IF s.exprs = <<>> THEN <<>> ELSE ExpressionCode(s.exprs[1]))
    \o AddInstruction(<<"RET", "">>, <<>>)

\* A bug: the branch goes to the last instruction and not behind it.
BranchToLast(mn, n) ==
    <<[Instruction(<<mn, "">>, <<>>) EXCEPT !.over = IF n = 0 THEN 0 ELSE n - 1]>>

\* A branch over the n instructions behind it.
BranchOver(mn, n) == <<[Instruction(<<mn, "">>, <<>>) EXCEPT !.over = n]>>

\* BRZ over the one block, if there is another, JMP at its end over that.
stmt_branch(s, code) ==
    LET then == IF Len(s.sub) = 2
                THEN code[s.sub[1]] \o BranchOver("JMP", Len(code[s.sub[2]]))
                ELSE code[s.sub[1]]
        else == IF Len(s.sub) = 2 THEN code[s.sub[2]] ELSE <<>>
    IN  ExpressionCode(s.sub[1].exprs[1]) \o BranchOver("BRZ", Len(then)) \o then \o else

TranslateStatement(s, code) ==
    CASE s.type \in {"ASSIGNMENT", "INITIALIZATION", "ASSIGN_OFFSET"} -> stmt_assignment(s)
      [] s.type = "FUNC_CALL" -> ExpressionCode(s.exprs[1])
      [] s.type = "BRANCH"    -> stmt_branch(s, code)
      [] s.type = "BLOCK"     -> FlattenSeq([k \in DOMAIN s.sub |-> code[s.sub[k]]])
      [] s.type = "CREATION"  -> stmt_creation(s)
      [] s.type = "RETURN"    -> stmt_return(s)
      [] OTHER                -> <<>>

\* More than the levels of statements in a function: those of a block or a branch that
\* is open are at most two levels below the statements around it.
Deepest == 2 * MaxNesting

\* The statements of a body, those in them, those in these, and so on.
Levels(stmts) ==
    LET level[k \in 0 .. Deepest] ==
            IF k = 0 THEN ToSet(stmts) ELSE UNION {ToSet(s.sub) : s \in level[k - 1]}
    IN  level

\* From the deepest level up.
CodeOf(stmts) ==
    LET code[d \in 0 .. Deepest] ==
            [s \in Levels(stmts)[Deepest - d] |->
                IF d = 0 THEN <<>> ELSE TranslateStatement(s, code[d - 1])]
    IN  code[Deepest]

----------------------------------------------------------------------------
(* Functions.                                                              *)

\* Arguments are taken off the stack, the last one first.
LoadArguments(args) ==
    [k \in DOMAIN args |->
        LET a == args[Len(args) + 1 - k]
        IN  Instruction(BySize("STA", a.dataType), <<a.position>>)]

TranslateFunction(f) ==
    LoadArguments(f.args)
    \o FlattenSeq([k \in DOMAIN f.statements |-> CodeOf(f.statements)[f.statements[k]]])

\* A function with the name of an earlier one is added to its code.
TranslateFunctions(funcs) ==
    [name \in {funcs[k].id : k \in DOMAIN funcs} |->
        FlattenSeq([k \in DOMAIN funcs |->
                       IF funcs[k].id = name THEN TranslateFunction(funcs[k]) ELSE <<>>])]

CreateLabel(n) == "_L" \o ToString(n)

\* The branches of the code to instruction t of it, which are all before t.
BranchesTo(code, t) ==
    {n \in DOMAIN code : code[n].over >= 0 /\ n + code[n].over + 1 = t}

\* The instructions branches go to, with the numbers of their functions.
Targets(codes) ==
    UNION {{<<k, t>> : t \in {t \in DOMAIN codes[k] : BranchesTo(codes[k], t) # {}}} :
           k \in DOMAIN codes}

\* Labels are made in the order of the branches that ask for them.
MadeBefore(codes, p, q) ==
    \/ p[1] < q[1]
    \/ /\ p[1] = q[1]
       /\ Min(BranchesTo(codes[p[1]], p[2])) < Min(BranchesTo(codes[q[1]], q[2]))

\* A bug: the number is not counted up.
SameLabel(codes, q) == CreateLabel(0)

\* The number of labels made before.
LabelOf(codes, q) ==
    CreateLabel(Cardinality({p \in Targets(codes) : MadeBefore(codes, p, q)}))

\* Instruction n of function k. A branch out of its function gets no operand,
\* and is reported.
Line(names, codes, k, n) ==
    LET ins    == codes[k][n]
        target == <<k, n + ins.over + 1>>
    IN  [label |-> IF n = 1 THEN names[k]
                   ELSE IF <<k, n>> \in Targets(codes) THEN LabelOf(codes, <<k, n>>)
                   ELSE "",
         mn    |-> ins.mn,
         args  |-> IF ins.over >= 0 /\ target \in Targets(codes)
                   THEN Append(ins.args, LabelOf(codes, target)) ELSE ins.args]

\* names: the functions in the order of the listing, which is that of their names.
Flush(gs, names) ==
    LET codes == [k \in DOMAIN names |-> IF names[k] \in DOMAIN gs THEN gs[names[k]]
                                         ELSE <<>>]
    IN  FlattenSeq([k \in DOMAIN codes |-> [n \in DOMAIN codes[k] |-> Line(names, codes, k, n)]])
=============================================================================
