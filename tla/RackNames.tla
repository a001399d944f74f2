------------------------------- MODULE RackNames -------------------------------
(***************************************************************************)
(* Functions, variables and scopes of the Rack compiler                    *)
(* (src/compiler/compiler.cpp). A scope is a function from the names       *)
(* declared in it to identifiers; the innermost scope is the last.         *)
(***************************************************************************)
EXTENDS RackTypes

NoFunction ==
    [id |-> "", returnType |-> "UNDEFINED", localVarCnt |-> 0, argVarCnt |-> 0,
     statements |-> <<>>, args |-> <<>>, variadic |-> FALSE]
NoId == [type |-> "UNDEFINED", id |-> "", position |-> 0, dataType |-> "UNDEFINED"]

EnterScope(scs) == Append(scs, <<>>)

\* A bug: the block stays in scope.
StayInScope(scs) == scs

ExitScope(scs) == Front(scs)

\* Declaring fails for a name that is in this scope.
CanDeclare(scs, x) == x \notin DOMAIN Last(scs)

\* A bug: variables are counted by scope.
CountInScope(f, idType, scs) ==
    Cardinality({x \in DOMAIN Last(scs) : Last(scs)[x].type = idType})

VarCount(f, idType, scs) == IF idType = "ARG_VAR" THEN f.argVarCnt ELSE f.localVarCnt

Identifier(f, idType, scs, t, x) ==
    [type |-> idType, id |-> x, position |-> VarCount(f, idType, scs), dataType |-> t]

Counted(f, idType) ==
    IF idType = "ARG_VAR" THEN [f EXCEPT !.argVarCnt = @ + 1]
    ELSE [f EXCEPT !.localVarCnt = @ + 1]

Declared(scs, x, id) ==
    [scs EXCEPT ![Len(scs)] =
        [y \in DOMAIN Last(scs) \cup {x} |-> IF y = x THEN id ELSE Last(scs)[y]]]

\* The identifier of the innermost scope that has the name.
Known(scs, x) == \E k \in DOMAIN scs : x \in DOMAIN scs[k]
UseVar(scs, x) == scs[Max({k \in DOMAIN scs : x \in DOMAIN scs[k]})][x]
=============================================================================
