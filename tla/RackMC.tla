--------------------------------- MODULE RackMC ---------------------------------
(***************************************************************************)
(* Vocabularies for the Rack compiler: ints with blocks and conditions,    *)
(* ints and longs in expressions, strings and arrays, and calls. Each has  *)
(* the forms of statements its questions are about.                        *)
(***************************************************************************)
EXTENDS RackFlow

Name(x)       == Expr("NAME", "UNDEFINED", <<>>, x)
IntNb(n)      == Number(n, "INT")

\* Stands for a literal beyond 32 bits.
LongNb(n) == Number(n, "LONG")
Is(l, r)      == Op("EQ", <<l, r>>)
Index(x, e)   == Expr("INDEX", "UNDEFINED", <<e>>, x)
CallTo(f, es) == Expr("CALL", "UNDEFINED", es, f)

Void(f, params) == [id |-> f, returnType |-> "UNDEFINED", params |-> params]

Control ==
    [heads |-> {Void("main", <<<<"INT", "a">>>>),
                Void("main", <<<<"INT", "a">>, <<"LONG", "a">>>>)},
     decls |-> {<<"INT", "x">>, <<"INT", "y">>},
     exprs |-> {Name("a"), Name("x"), IntNb(2)},
     forms |-> {"decl", "init", "assign", "block", "if", "return"},
     functions |-> 1, statements |-> 4]

Numbers ==
    [heads |-> {[id |-> "main", returnType |-> "LONG",
                 params |-> <<<<"LONG", "l">>, <<"INT", "a">>>>]},
     decls |-> {<<"LONG", "x">>, <<"INT", "y">>},
     exprs |-> {Name("y"), Name("x"), LongNb(7), IntNb(1),
                Op("SUB", <<Name("a"), Name("l")>>), Op("ADD", <<Name("l"), Name("a")>>),
                Op("MUL", <<Name("a"), Name("a")>>), Op("NEG", <<Name("l")>>),
                Op("LT", <<Name("a"), Name("l")>>), Op("NOT", <<Name("a")>>),
                Op("OR", <<Name("a"), Is(Name("y"), IntNb(1))>>),
                Cast("INT", <<Name("l")>>)},
     forms |-> {"init", "assign", "if", "return"},
     functions |-> 1, statements |-> 3]

Texts ==
    [heads |-> {Void("main", <<<<"STRING", "t">>>>)},
     decls |-> {<<"STRING", "s">>, <<"LONG_ARR", "b">>, <<"DOUBLE", "d">>},
     exprs |-> {Name("s"), Text("abc"), Is(Name("t"), Text("abc")),
                Op("NEQ", <<Name("t"), Name("t")>>), Op("STREQ", <<Name("t"), Text("abc")>>),
                IntNb(3), Index("b", IntNb(1)), Index("b", IntNb(0)), Index("t", IntNb(2)),
                Cast("STRING", <<Name("t"), IntNb(4)>>), Cast("STRING", <<Name("d")>>),
                Cast("DOUBLE", <<IntNb(3)>>), Cast("LONG", <<Index("b", IntNb(1))>>)},
     forms |-> {"decl", "assign", "offset", "create", "if"},
     functions |-> 1, statements |-> 3]

Calls ==
    [heads |-> {Void("main", <<>>), [id |-> "f", returnType |-> "INT",
                                     params |-> <<<<"INT", "a">>>>],
                [id |-> "f", returnType |-> "INT", params |-> <<>>]},
     decls |-> {<<"INT", "x">>, <<"INT_ARR", "c">>},
     exprs |-> {CallTo("f", <<IntNb(1)>>), CallTo("print", <<Text("%d"), IntNb(1)>>),
                CallTo("f", <<>>), IntNb(1)},
     forms |-> {"call", "return", "create"},
     functions |-> 2, statements |-> 2]

SomeVocabularies ==
    [control |-> Control, numbers |-> Numbers, texts |-> Texts, calls |-> Calls]
NamesInOrder == <<"f", "main">>

\* Flush's labels, as far as they are made here, are no names of functions.
ASSUME LabelsAssumption ==
    \A m \in 0 .. 19 :
        /\ CreateLabel(m) \notin {"", "f", "main"}
        /\ \A n \in 0 .. 19 : CreateLabel(m) = CreateLabel(n) => m = n

RECURSIVE StatementCount(_)
StatementCount(stmts) == FoldLeft(LAMBDA n, s: n + 1 + StatementCount(s.sub), 0, stmts)
=============================================================================
