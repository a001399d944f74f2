-------------------------------- MODULE RackFlow --------------------------------
(***************************************************************************)
(* What a Rack function is to do and what its code does, step by step: the *)
(* statements, with the names in them looked up where they are executed,   *)
(* and the listing, as the stack interpreter goes through it               *)
(* (src/vm/stack_impl.h). A step is                                        *)
(*   <<"put", n>>                a number,                                 *)
(*   <<"get" or "set", id>>      a variable read or given a value,         *)
(*   <<op>>                      an operation on what was put before,      *)
(*   <<"test">>, <<"return">>    a condition, the end.                     *)
(* A variable is its kind and the number the code has for it: what bytes   *)
(* of the frame the interpreter takes that number for is not looked at.    *)
(***************************************************************************)
EXTENDS RackCompiler, RackExpressions

(* The statements. env is a sequence of scopes.                            *)

Variable(id) == <<id.type, id.position>>
Meant(env, x) == env[Max({k \in DOMAIN env : x \in DOMAIN env[k]})][x]

\* Operands first, from left to right.
RECURSIVE Evaluation(_, _)
Evaluation(e, env) ==
    LET operands == FlattenSeq([k \in DOMAIN e.operands |-> Evaluation(e.operands[k], env)])
        cast     == e.type = "CAST"
    IN  CASE e.type = "NUMBER" -> <<<<"put", e.value>>>>
          [] e.type = "ID"     -> <<<<"get", Meant(env, e.value.id)>>>>
          [] cast /\ e.operands[1].dataType = e.dataType -> operands
          [] OTHER             -> Append(operands, <<e.type>>)

\* m.live: whether what is read now is executed, with the outcomes m.tests of the
\* conditions to come. What is not executed declares its names all the same.
Note(m, steps)  == IF m.live THEN [m EXCEPT !.did = @ \o steps] ELSE m
Bind(m, id)     == [m EXCEPT !.env[Len(m.env)] = (id.id :> Variable(id)) @@ @]

RECURSIVE Do(_, _)
Do(m, s) ==
    LET evaluated == Note(m, FlattenSeq([k \in DOMAIN s.exprs |-> Evaluation(s.exprs[k], m.env)]))
    IN  CASE s.type = "DECLARATION"    -> Bind(m, s.id)
          [] s.type = "INITIALIZATION" ->
               Bind(Note(evaluated, <<<<"set", Variable(s.id)>>>>), s.id)
          [] s.type = "ASSIGNMENT" -> Note(evaluated, <<<<"set", Meant(m.env, s.id.id)>>>>)
          [] s.type = "BLOCK" ->
               [FoldLeft(Do, [m EXCEPT !.env = Append(@, <<>>)], s.sub) EXCEPT !.env = Front(@)]
          [] s.type = "BRANCH" ->
               LET holds  == m.live /\ Head(m.tests)
                   tested == [Note(m, Append(Evaluation(s.sub[1].exprs[1], m.env), <<"test">>))
                                EXCEPT !.tests = IF m.live THEN Tail(@) ELSE @]
                   Part(n, k) ==
                       LET taken == (k = 1) = holds
                           after == FoldLeft(Do, [n EXCEPT !.live = @ /\ taken], s.sub[k].sub)
                       IN  [after EXCEPT !.live = IF taken THEN @ ELSE n.live]
               IN  FoldLeftDomain(Part, tested, s.sub)
          [] s.type = "RETURN" -> [Note(evaluated, <<<<"return">>>>) EXCEPT !.live = FALSE]

\* Of function f, which gives its arguments their values first, from the last on.
Statements(f, tests) ==
    LET arg(k) == <<"ARG_VAR", k - 1>>
        n      == Len(f.args)
        names  == [x \in {f.args[k].id : k \in 1 .. n} |->
                      arg(CHOOSE k \in 1 .. n : f.args[k].id = x)]
    IN  FoldLeft(Do, [env |-> <<names>>, tests |-> tests, live |-> TRUE,
                      did |-> [k \in 1 .. n |-> <<"set", arg(n + 1 - k)>>]],
                 f.statements).did

----------------------------------------------------------------------------
(* The listing.                                                            *)

\* What instructions do (src/vm/stack_impl.h).
Operations ==
    [CPEQ |-> "EQ", CPNQ |-> "NEQ", CPGT |-> "GT", CPLT |-> "LT", CPGQ |-> "GEQ",
     CPLQ |-> "LEQ", ITOL |-> "CAST", LTOI |-> "CAST", BRZ |-> "test", RET |-> "return"]

Step(ins) ==
    LET mn == ins.mn[1]
        Of(kind) == <<kind, ins.args[1]>>
    IN  CASE mn = "LDI" -> <<"put", ins.args[1]>>
          [] mn = "LDL" -> <<"get", Of("LOCAL_VAR")>>
          [] mn = "LDA" -> <<"get", Of("ARG_VAR")>>
          [] mn = "STL" -> <<"set", Of("LOCAL_VAR")>>
          [] mn = "STA" -> <<"set", Of("ARG_VAR")>>
          [] OTHER      -> <<IF mn \in DOMAIN Operations THEN Operations[mn] ELSE mn>>

\* Where a label is; there must be one place.
Place(lines, label) == CHOOSE n \in DOMAIN lines : lines[n].label = label

\* From line n on. BRZ goes on with the next line if the test holds.
RECURSIVE Steps(_, _, _)
Steps(lines, n, tests) ==
    LET ins == lines[n]
        target == Place(lines, ins.args[1])
    IN  IF n > Len(lines) THEN <<<<"lost">>>>
        ELSE CASE ins.mn[1] = "RET" -> <<Step(ins)>>
               [] ins.mn[1] = "JMP" -> Steps(lines, target, tests)
               [] ins.mn[1] = "BRZ" ->
                    <<Step(ins)>> \o Steps(lines, IF Head(tests) THEN n + 1 ELSE target, Tail(tests))
               [] OTHER -> <<Step(ins)>> \o Steps(lines, n + 1, tests)

----------------------------------------------------------------------------
(* Programs the properties are about.                                      *)

\* The bytes the value of an expression has on the stack. A comparison of longs
\* has 4, though its data type has 8.
BytesLeft(e) ==
    IF e.type \in DOMAIN Comparison \cup {"OR", "AND", "STREQ"} THEN 4
    ELSE GetDataTypeBytes(e.dataType)

RECURSIVE AsTyped(_)
AsTyped(e) ==
    /\ e.type # "CALL"
    /\ \A k \in DOMAIN e.operands :
          LET o == e.operands[k]
          IN  /\ AsTyped(o) /\ BytesLeft(o) = GetDataTypeBytes(o.dataType)
              /\ e.type \in {"OR", "AND"} => BytesLeft(o) = 4

\* Values have the bytes of their types, conditions and lengths have 4, and
\* nothing is called. (The index of an element that is assigned may be a long,
\* and is taken for the value.)
RECURSIVE WellSized(_)
WellSized(s) ==
    /\ s.type # "ASSIGN_OFFSET"
    /\ \A k \in DOMAIN s.exprs :
          /\ AsTyped(s.exprs[k])
          /\ BytesLeft(s.exprs[k]) = IF s.type \in {"BLOCK", "CREATION"} THEN 4
                                     ELSE GetDataTypeBytes(s.exprs[k].dataType)
    /\ \A k \in DOMAIN s.sub : WellSized(s.sub[k])

Sized(f) == \A k \in DOMAIN f.statements : WellSized(f.statements[k])

RECURSIVE Types(_)
Types(e) ==
    {IF e.type = "CALL" THEN "CALL" ELSE e.dataType}
    \cup UNION {Types(e.operands[k]) : k \in DOMAIN e.operands}
RECURSIVE TypesIn(_)
TypesIn(stmts) ==
    UNION {UNION {Types(stmts[k].exprs[n]) : n \in DOMAIN stmts[k].exprs}
           \cup {IF stmts[k].type = "CREATION" THEN "ARRAY" ELSE stmts[k].id.dataType}
           \cup TypesIn(stmts[k].sub) : k \in DOMAIN stmts}

\* Ints and longs, and no calls.
OnNumbers(f) == TypesIn(f.statements) \subseteq {"INT", "LONG", "UNDEFINED"}

----------------------------------------------------------------------------
(* Properties.                                                             *)

\* Words that an instruction takes from the stack and puts there.
Wide(mn) == IF mn[2] \in {".64", ".F64"} THEN 2 ELSE 1
Wider(t) == GetDataTypeBytes(t) \div 4
Effect(mn) ==
    LET w == Wide(mn)
        conversions == {c \in (DOMAIN Letter) \X (DOMAIN Letter) :
                            Conversion[c[1]][c[2]] = mn[1]}
    IN  CASE mn[1] \in {"LDI", "LDL", "LDA"}         -> <<0, w>>
          [] mn[1] \in {"STL", "STA"}                -> <<w, 0>>
          [] mn[1] \in {"ADD", "SUB", "MUL", "DIV"}  -> <<2 * w, w>>
          [] mn[1] = "NEG"                           -> <<w, w>>
          [] mn[1] = "LDM"                           -> <<1, w>>
          [] mn[1] \in {"CPZ", "NEW", "STRCPY"}      -> <<1, 1>>
          [] mn[1] \in {"OR", "AND", "CPSTR", "CPCHR"} -> <<2, 1>>
          [] mn[1] = "STR"                           -> <<0, 1>>
          [] mn[1] = "BRZ"                           -> <<1, 0>>
          [] mn[1] \in {"JMP", "RET"}                -> <<0, 0>>
          [] conversions # {} -> LET c == CHOOSE c \in conversions : TRUE
                                 IN  <<Wider(c[1]), Wider(c[2])>>
          [] OTHER -> <<2 * w, 1>>

\* The depth of the stack before instruction n, counted from `from'; -1 once
\* more was taken than there was.
Depth(from, n) ==
    FoldLeft(LAMBDA d, ins: LET e == Effect(ins.mn)
                            IN  IF d < e[1] THEN -1
                                ELSE IF ins.mn[1] = "RET" THEN 0 ELSE d - e[1] + e[2],
             0, SubSeq(list, from, n - 1))

\* Between its statements a function has nothing on the stack, and when it
\* returns nothing but a value of its type.
Balanced ==
    Accepted =>
        \A k \in DOMAIN funcs : Sized(funcs[k]) =>
            LET f    == funcs[k]
                from == Place(list, f.id) + Len(f.args)
                next == {n \in from .. Len(list) :
                            n > from /\ list[n].label \in {g.id : g \in ToSet(funcs)}}
                last == IF next = {} THEN Len(list) ELSE Min(next) - 1
            IN  \A n \in from .. last :
                    /\ list[n].mn[1] \in {"STL", "STA", "BRZ", "JMP"} => Depth(from, n + 1) = 0
                    /\ list[n].mn[1] = "RET" =>
                          Depth(from, n) \in {0, Wider(f.returnType)}

\* In whatever way the conditions of a function on numbers come out, its code reads,
\* computes, stores, tests and returns what the statements say, in their order, and
\* each name is the variable of the innermost declaration before it.
FollowsStatements ==
    Accepted =>
        \A k \in DOMAIN funcs : OnNumbers(funcs[k]) =>
            LET tests == 1 .. Cardinality({n \in DOMAIN list : list[n].mn[1] = "BRZ"})
            IN  \A outcomes \in [tests -> BOOLEAN] :
                    Steps(list, Place(list, funcs[k].id), outcomes)
                        = Statements(funcs[k], outcomes)
=============================================================================
