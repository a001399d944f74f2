------------------------------- MODULE RackTypes -------------------------------
(***************************************************************************)
(* Expressions of the Rack language and their types                        *)
(* (src/compiler/types.hpp). An expression has a type, the data type of    *)
(* its value, "UNDEFINED" until CheckType finds it, operands, and a value: *)
(* a number, a text, or the identifier it stands for.                      *)
(***************************************************************************)
EXTENDS Integers, Sequences, SequencesExt

ArrayToBase ==
    [INT_ARR |-> "INT", LONG_ARR |-> "LONG", FLOAT_ARR |-> "FLOAT",
     DOUBLE_ARR |-> "DOUBLE", STRING_ARR |-> "STRING", STRING |-> "STRING"]
Base(t) == IF t \in DOMAIN ArrayToBase THEN ArrayToBase[t] ELSE "UNDEFINED"
IsArray(t) == t \in DOMAIN ArrayToBase \ {"STRING"}

GetDataTypeBytes(t) ==
    CASE t \in {"LONG", "DOUBLE"} -> 8
      [] t = "UNDEFINED"          -> 0
      [] OTHER                    -> 4

Expr(type, dataType, operands, value) ==
    [type |-> type, dataType |-> dataType, operands |-> operands, value |-> value]
Number(n, t) == Expr("NUMBER", t, <<>>, n)
Text(s)      == Expr("STRING", "STRING", <<>>, s)
Id(id)       == Expr("ID", id.dataType, <<>>, id)
Op(type, es) == Expr(type, "UNDEFINED", es, 0)
Cast(t, es)  == Expr("CAST", t, es, 0)

----------------------------------------------------------------------------

Widens(from, to) == <<from, to>> \in {<<"INT", "LONG">>, <<"FLOAT", "DOUBLE">>}

\* A number takes the wider type itself.
TryTypeCast(e, to) ==
    IF ~Widens(e.dataType, to) THEN e
    ELSE IF e.type = "NUMBER" THEN [e EXCEPT !.dataType = to] ELSE Cast(to, <<e>>)

\* Of an int and a long the int is widened.
TryTypePromotion(l, r) ==
    CASE <<l.dataType, r.dataType>> = <<"INT", "LONG">> -> <<TryTypeCast(l, "LONG"), r>>
      [] <<l.dataType, r.dataType>> = <<"LONG", "INT">> -> <<l, TryTypeCast(r, "LONG")>>
      [] OTHER                                          -> <<l, r>>

Ok(e)      == [e |-> e, ok |-> TRUE]
Report(e)  == [e |-> e, ok |-> FALSE]

\* An index counts elements: it is turned into bytes.
CheckIndex(e) ==
    LET l == e.operands[1]
        r == e.operands[2]
        t == Base(l.dataType)
        n == GetDataTypeBytes(t)
        scaled == IF l.dataType = "STRING" THEN r
                  ELSE IF r.type = "NUMBER" THEN [r EXCEPT !.value = @ * n]
                  ELSE Op("MUL", <<Number(n, "INT"), r>>)
        typed == [e EXCEPT !.dataType = t]
    IN  IF r.dataType # "INT" THEN Report(typed)
        ELSE Ok([typed EXCEPT !.operands = <<l, scaled>>])

NotForStrings == {"ADD", "SUB", "MUL", "DIV", "GEQ", "GT", "LEQ", "LT", "AND", "OR"}

CheckBinary(e) ==
    LET ops  == TryTypePromotion(e.operands[1], e.operands[2])
        same == e.operands[1].dataType = e.operands[2].dataType
        t    == ops[1].dataType
    IN  IF t # ops[2].dataType THEN Report(e)
        ELSE [e  |-> [e EXCEPT !.operands = ops,
                               !.dataType = IF same THEN @ ELSE t],
              ok |-> ~(e.type \in NotForStrings /\ (t = "STRING" \/ IsArray(t)))]

\* A comparison has the type of what it compares, too.
CheckType(expr) ==
    IF expr.operands = <<>> THEN Ok(expr)
    ELSE LET e == IF expr.dataType # "UNDEFINED" THEN expr
                  ELSE [expr EXCEPT !.dataType = expr.operands[1].dataType]
         IN  IF Len(e.operands) = 1 \/ e.type \in {"CALL", "CAST"} THEN Ok(e)
             ELSE CASE e.type = "STREQ" ->
                         [e  |-> e,
                          ok |-> \A k \in 1 .. 2 : e.operands[k].dataType = "STRING"]
                    [] e.type = "ID_OFFSET" -> CheckIndex(e)
                    [] OTHER -> CheckBinary(e)

\* For `id = value'. An operation on a variable counts as that variable's type.
CheckAssignmentType(id, value) ==
    LET ofFirst == /\ value.operands # <<>> /\ value.type \notin {"ID_OFFSET", "CAST"}
                   /\ value.operands[1].type = "ID"
        t == IF ofFirst THEN value.operands[1].dataType ELSE value.dataType
    IN  IF t = id.dataType THEN Ok(value)
        ELSE [e |-> TryTypeCast(value, id.dataType),
              ok |-> Widens(value.dataType, id.dataType)]

\* For `id[index] = value'. An element is never widened: the type asked for is
\* that of the array.
CheckOffsetType(id, index, value) ==
    /\ index.dataType \in {"INT", "LONG"}
    /\ value.dataType = Base(id.dataType)

\* The length of an array made with its declaration. When the elements take
\* 4 bytes the expression is lost.
CheckArrayCreation(id, length) ==
    LET n == GetDataTypeBytes(Base(id.dataType))
        bytes == CheckType(Op("MUL", <<length, Number(n, "INT")>>)).e
    IN  IF length.dataType # "INT" THEN [es |-> <<length>>, ok |-> FALSE]
        ELSE [es |-> IF n > 4 THEN <<bytes>> ELSE <<>>, ok |-> TRUE]
=============================================================================
