----------------------------- MODULE RackExpressions -----------------------------
(***************************************************************************)
(* Expressions of the Rack language from the grammar's rules               *)
(* (src/compiler/parser.yy), which check them and look up their names, to  *)
(* the code generator's instructions (src/compiler/code_generator.cpp).    *)
(*                                                                         *)
(* In an expression that was not built yet, a name is an expression of     *)
(* type "NAME" and an index one of type "INDEX".                           *)
(***************************************************************************)
EXTENDS RackNames, CodeGen

SystemFunctions == {"__print", "__input", "__write", "__read", "__open", "__close", "__str"}

System(id, returnType, types, variadic) ==
    [NoFunction EXCEPT !.id = id, !.returnType = returnType, !.variadic = variadic,
                       !.args = [k \in DOMAIN types |-> [NoId EXCEPT !.dataType = types[k]]]]
SystemFuncs ==
    <<System("__print", "UNDEFINED", <<"STRING">>, TRUE),
      System("__input", "STRING", <<>>, FALSE),
      System("__write", "UNDEFINED", <<"INT", "STRING">>, FALSE),
      System("__read", "STRING", <<"INT">>, FALSE),
      System("__open", "INT", <<"STRING", "STRING">>, FALSE),
      System("__close", "UNDEFINED", <<"INT">>, FALSE),
      System("__str", "STRING", <<"STRING">>, TRUE)>>

\* A variadic function, too, matches only with an argument.
MatchFunctionArgs(f, types) ==
    \/ f.args = <<>> /\ types = <<>>
    \/ /\ types # <<>>
       /\ Len(f.args) <= Len(types)
       /\ \A k \in DOMAIN f.args : f.args[k].dataType = types[k]
       /\ f.variadic \/ Len(types) = Len(f.args)

\* The first function that matches; else the one being compiled, if it has the
\* name, whatever its arguments.
FuncName(x) == IF "__" \o x \in SystemFunctions THEN "__" \o x ELSE x
Matching(funcs, x, types) ==
    SelectSeq(SystemFuncs \o funcs,
              LAMBDA f: f.id = FuncName(x) /\ MatchFunctionArgs(f, types))
HasFunc(funcs, curr, x, types) ==
    Matching(funcs, x, types) # <<>> \/ curr.id = FuncName(x)
UseFunc(funcs, curr, x, types) ==
    IF Matching(funcs, x, types) # <<>> THEN Head(Matching(funcs, x, types)) ELSE curr

----------------------------------------------------------------------------
(* Expressions are built of their operands and checked as they are reduced. *)

Built(e)     == CheckType(e) @@ [known |-> TRUE]
Plain(e)     == [e |-> e, ok |-> TRUE, known |-> TRUE]
NotKnown(e)  == [e |-> e, ok |-> TRUE, known |-> FALSE]

Callee(f) == Expr("ID", f.returnType, <<>>, [NoId EXCEPT !.type = "FUNC_NAME"])
CallOf(f, args) ==
    Expr("CALL", "UNDEFINED", <<Callee(f), Expr("EXPR_LIST", "UNDEFINED", args, 0)>>,
         [name |-> f.id, variadic |-> f.variadic])

\* An expression of its operands, which have been reduced to es.
Reduced(e, es, scs, funcs, curr) ==
    CASE e.type = "NOT"  -> Built(Op("EQ", es \o <<Number(0, "INT")>>))
      [] e.type = "CAST" -> Built(Cast(e.dataType, es))
      [] e.type = "INDEX" ->
           IF Known(scs, e.value)
           THEN Built(Op("ID_OFFSET", <<Id(UseVar(scs, e.value))>> \o es))
           ELSE NotKnown(e)
      [] e.type = "CALL" ->
           LET ts == [k \in DOMAIN es |-> es[k].dataType]
           IN  IF HasFunc(funcs, curr, e.value, ts)
               THEN Built(CallOf(UseFunc(funcs, curr, e.value, ts), es))
               ELSE NotKnown(e)
      [] OTHER -> Built(Op(e.type, es))

RECURSIVE BuildExpression(_, _, _, _)
BuildExpression(e, scs, funcs, curr) ==
    LET rs == [k \in DOMAIN e.operands |-> BuildExpression(e.operands[k], scs, funcs, curr)]
        r  == Reduced(e, [k \in DOMAIN rs |-> rs[k].e], scs, funcs, curr)
    IN  CASE e.type = "NAME" ->
               IF Known(scs, e.value) THEN Plain(Id(UseVar(scs, e.value))) ELSE NotKnown(e)
          [] e.type \in {"NUMBER", "STRING"} -> Plain(e)
          [] OTHER ->
               IF \E k \in DOMAIN rs : ~rs[k].known THEN NotKnown(e)
               ELSE [r EXCEPT !.ok = @ /\ \A k \in DOMAIN rs : rs[k].ok]

----------------------------------------------------------------------------
(* Their code.                                                             *)

ByType(name, t) ==
    <<name, CASE t = "FLOAT" -> ".F" [] t = "DOUBLE" -> ".F64" [] t = "LONG" -> ".64"
              [] OTHER -> "">>

\* A bug in them: a mnemonic the assembler does not have.
Misspelt ==
    [EQ |-> "CPEQ", NEQ |-> "CPNE", GT |-> "CPGT", LT |-> "CPLS", GEQ |-> "CPGE",
     LEQ |-> "CPLE"]

Comparison ==
    [EQ |-> "CPEQ", NEQ |-> "CPNQ", GT |-> "CPGT", LT |-> "CPLT", GEQ |-> "CPGQ",
     LEQ |-> "CPLQ"]

expr_id(e) ==
    LET name == Access("LDL", "LDA", e.value)
    IN  ErrorUnless(name # "")
        \o AddInstruction(BySize(name, e.dataType), <<e.value.position>>)

\* Numbers are ints and longs: floats have no literals.
expr_literal(e) ==
    CASE e.dataType = "STRING" -> AddInstruction(<<"STR", "">>, <<e.value>>)
      [] e.dataType \in {"INT", "LONG"} ->
             AddInstruction(BySize("LDI", e.dataType), <<e.value>>)
      [] OTHER -> Error

CompareStrings(e) ==
    ErrorUnless(e.operands[2].dataType = "STRING")
    \o CASE e.type = "EQ"    -> AddInstruction(<<"CPSTR", "">>, <<>>)
         [] e.type = "NEQ"   -> AddInstruction(<<"CPSTR", "">>, <<>>)
                                \o AddInstruction(<<"CPZ", "">>, <<>>)
         [] e.type = "STREQ" -> AddInstruction(<<"CPCHR", "">>, <<>>)
         [] OTHER            -> Error

\* What is behind the operands of an operation.
Operation(e) ==
    CASE e.type \in {"ADD", "SUB", "MUL", "DIV"} ->
             AddInstruction(ByType(e.type, e.dataType), <<>>)
      [] e.type \in {"OR", "AND"} -> AddInstruction(<<e.type, "">>, <<>>)
      [] e.type = "NEG" -> AddInstruction(ByType("NEG", e.operands[1].dataType), <<>>)
      [] OTHER ->
             IF e.operands[1].dataType = "STRING" THEN CompareStrings(e)
             ELSE IF e.type \in DOMAIN Comparison
             THEN AddInstruction(ByType(Comparison[e.type], e.dataType), <<>>)
             ELSE Error \o AddInstruction(ByType("", e.dataType), <<>>)

Letter ==
    [INT |-> "I", LONG |-> "L", FLOAT |-> "F", DOUBLE |-> "D", STRING |-> "S"]
Conversion ==
    [f \in DOMAIN Letter |-> [t \in DOMAIN Letter |-> Letter[f] \o "TO" \o Letter[t]]]

\* Text is made from floats with a number of decimals, read with a value for
\* what is no number, and copied up to a length, which the final 0 is added to;
\* they may be given.
expr_cast(e) ==
    LET from == e.operands[1].dataType
        arg  == IF Len(e.operands) = 2 THEN <<e.operands[2].value>> ELSE <<"default">>
    IN  IF ~{from, e.dataType} \subseteq DOMAIN Letter THEN Error
        ELSE IF from # e.dataType
        THEN AddInstruction(<<Conversion[from][e.dataType], "">>,
                 IF from = "STRING" \/ (e.dataType = "STRING" /\ from \in {"FLOAT", "DOUBLE"})
                 THEN arg ELSE <<>>)
        ELSE IF from # "STRING" THEN <<>>
        ELSE AddInstruction(<<"STRCPY", "">>,
                 IF Len(e.operands) = 2 THEN <<arg[1] + 1>> ELSE arg)

\* `=' for `==' in its condition overwrites the first letter of the name. (It is
\* the second letter that tells a system function: users' names with a "_" there
\* are left out.)
Damaged(name) == "?" \o name

RECURSIVE TranslateExpression(_)

\* An index of 0 is not added.
expr_id_offset(e) ==
    LET index == e.operands[2]
        added == IF index.type = "NUMBER" /\ index.value <= 0 THEN <<>>
                 ELSE TranslateExpression(index) \o AddInstruction(<<"ADD", "">>, <<>>)
    IN  TranslateExpression(e.operands[1]) \o added
        \o IF e.operands[1].dataType = "STRING" THEN <<>>
           ELSE AddInstruction(BySize("LDM", e.dataType), <<>>)

expr_func_call(e) ==
    LET fun == e.value
        Passed(a) ==
            TranslateExpression(a)
            \o IF fun.variadic
               THEN AddInstruction(<<"SARG", "">>, <<GetDataTypeBytes(a.dataType)>>)
               ELSE <<>>
        args == e.operands[2].operands
    IN  FlattenSeq([k \in DOMAIN args |-> Passed(args[k])])
        \o AddInstruction(<<IF fun.name \in SystemFunctions THEN "SCALL" ELSE "CALL", "">>,
                          <<Damaged(fun.name)>>)

TranslateExpression(e) ==
    CASE e.type = "ID"                   -> expr_id(e)
      [] e.type = "ID_OFFSET"            -> expr_id_offset(e)
      [] e.type \in {"NUMBER", "STRING"} -> expr_literal(e)
      [] e.type = "CALL"                 -> expr_func_call(e)
      [] e.type = "CAST" -> TranslateExpression(e.operands[1]) \o expr_cast(e)
      [] OTHER -> FlattenSeq([k \in DOMAIN e.operands |-> TranslateExpression(e.operands[k])])
                  \o Operation(e)
=============================================================================
