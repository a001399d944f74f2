------------------------------ MODULE RackCompiler ------------------------------
(***************************************************************************)
(* The Rack compiler (src/compiler/compiler.cpp) as the grammar drives it  *)
(* (src/compiler/parser.yy): functions, blocks and variables are declared  *)
(* and used as they are read, then code is generated of the functions that *)
(* were read to their ends, whatever was reported on the way. The parser   *)
(* may read any program: one action for each rule that changes state.      *)
(*                                                                         *)
(* A program is made of what is in one of the Vocabularies: heads of       *)
(* functions (a name, a return type, parameters), decls (a data type and a *)
(* name), exprs, which are built with the names known where they are read, *)
(* forms of statements, and how many functions and statements of each      *)
(* function there may be.                                                  *)
(***************************************************************************)
EXTENDS RackNames, CodeGen

Instr == INSTANCE InstrSet

CONSTANTS Vocabularies,
          Names,  \* the functions' names in their alphabetic order
          Checked(_, _, _, _),
                  \* of an expression, the scopes, the functions and the one being
                  \* compiled: the expression e with its types, whether this is ok,
                  \* and whether its names are known
          Size(_) \* how many statements there are in a sequence of them

ASSUME NamesAssumption == Names \in Seq(STRING)

ASSUME VocabulariesAssumption ==
    \A v \in DOMAIN Vocabularies : \A h \in Vocabularies[v].heads :
        h.params \in Seq(STRING \X STRING)

VARIABLES
    voc,       \* the name of this program's vocabulary
    phase,     \* "parse", "parsed", "crash", or "generated"
    scopes,    \* m_scopes
    curr,      \* m_currFunction
    open,      \* the statements read so far of all that is open
    funcs,     \* m_funcList without the system functions
    reported,  \* whether a message was printed
    list       \* the listing

vars == <<voc, phase, scopes, curr, open, funcs, reported, list>>

\* What is under construction: the body of a function, a block, or the one
\* statement that is governed by an if or an else.
Frame(kind, cond, then) == [kind |-> kind, cond |-> cond, then |-> then, stmts |-> <<>>]
NoExpr == <<>>
Top == Last(open)
Words == Vocabularies[voc]

Stmt(type, id, exprs, sub) == [type |-> type, id |-> id, exprs |-> exprs, sub |-> sub]
Block(exprs, sub) == Stmt("BLOCK", NoId, exprs, sub)
Branch(cond, blocks) == Stmt("BRANCH", NoId, <<>>, blocks)

Elaborate(e) == Checked(e, scopes, funcs, curr)

----------------------------------------------------------------------------
(* Reading a program.                                                      *)

Init ==
    /\ voc \in DOMAIN Vocabularies
    /\ phase = "parse" /\ scopes = <<>> /\ curr = NoFunction /\ open = <<>>
    /\ funcs = <<>> /\ reported = FALSE /\ list = <<>>

\* An exception of the parser ends it: there is no rule to go on with.
SyntaxError ==
    /\ phase' = "parsed" /\ reported' = TRUE
    /\ UNCHANGED <<voc, scopes, curr, open, funcs, list>>

\* The parameters are declared one after the other.
DeclareArgs(f, scs, params) ==
    LET declare[k \in 0 .. Len(params)] ==
            IF k = 0 THEN [f |-> f, scs |-> scs]
            ELSE LET d  == declare[k - 1]
                     id == Identifier(d.f, "ARG_VAR", d.scs, params[k][1], params[k][2])
                 IN  [f   |-> [Counted(d.f, "ARG_VAR") EXCEPT !.args = Append(@, id)],
                      scs |-> Declared(d.scs, params[k][2], id)]
    IN  declare[Len(params)]

FunctionHead ==
    /\ phase = "parse" /\ open = <<>> /\ Len(funcs) < Words.functions
    /\ \E h \in Words.heads :
          LET d == DeclareArgs([NoFunction EXCEPT !.id = h.id, !.returnType = h.returnType],
                               EnterScope(scopes), h.params)
              twice == \E k, n \in DOMAIN h.params : k # n /\ h.params[k][2] = h.params[n][2]
          IN  IF twice THEN SyntaxError
              ELSE /\ curr' = d.f /\ scopes' = d.scs
                   /\ open' = <<Frame("body", NoExpr, <<>>)>>
                   /\ UNCHANGED <<voc, phase, funcs, reported, list>>

\* After a message only what is open is read to its end.
WithinBounds ==
    /\ FoldLeft(LAMBDA n, f: n + 1 + Size(f.stmts) + Size(f.then), 0, open)
          <= Words.statements
    /\ ~reported

\* A statement of this form may be read: there is room for one in what is open.
Reads(form) ==
    /\ phase = "parse" /\ open # <<>> /\ form \in Words.forms
    /\ Top.kind \in {"then", "else"} => Top.stmts = <<>>
    /\ WithinBounds

Add(s) == open' = [open EXCEPT ![Len(open)].stmts = Append(@, s)]

Report1(ok) == reported' = (reported \/ ~ok)

Declaration ==
    /\ Reads("decl")
    /\ \E d \in Words.decls :
          IF ~CanDeclare(scopes, d[2]) THEN SyntaxError
          ELSE LET id == Identifier(curr, "LOCAL_VAR", scopes, d[1], d[2])
               IN  /\ Add(Stmt("DECLARATION", id, <<>>, <<>>))
                   /\ scopes' = Declared(scopes, d[2], id)
                   /\ curr' = Counted(curr, "LOCAL_VAR")
                   /\ UNCHANGED <<voc, phase, funcs, reported, list>>

\* The value is read before the name is declared.
Initialization ==
    /\ Reads("init")
    /\ \E d \in Words.decls, e \in Words.exprs :
          LET v == Elaborate(e)
              id == Identifier(curr, "LOCAL_VAR", scopes, d[1], d[2])
              a == CheckAssignmentType(id, v.e)
          IN  IF ~v.known \/ ~CanDeclare(scopes, d[2]) THEN SyntaxError
              ELSE /\ Add(Stmt("INITIALIZATION", id, <<a.e>>, <<>>))
                   /\ scopes' = Declared(scopes, d[2], id)
                   /\ curr' = Counted(curr, "LOCAL_VAR")
                   /\ Report1(v.ok /\ a.ok)
                   /\ UNCHANGED <<voc, phase, funcs, list>>

Assignment ==
    /\ Reads("assign")
    /\ \E x \in {d[2] : d \in Words.decls}, e \in Words.exprs :
          LET v == Elaborate(e)
              a == CheckAssignmentType(UseVar(scopes, x), v.e)
          IN  IF ~v.known \/ ~Known(scopes, x) THEN SyntaxError
              ELSE /\ Add(Stmt("ASSIGNMENT", UseVar(scopes, x), <<a.e>>, <<>>))
                   /\ Report1(v.ok /\ a.ok)
                   /\ UNCHANGED <<voc, phase, scopes, curr, funcs, list>>

OffsetAssignment ==
    /\ Reads("offset")
    /\ \E x \in {d[2] : d \in Words.decls}, n \in Words.exprs, e \in Words.exprs :
          LET k == Elaborate(n)
              v == Elaborate(e)
          IN  IF ~k.known \/ ~v.known \/ ~Known(scopes, x) THEN SyntaxError
              ELSE /\ Add(Stmt("ASSIGN_OFFSET", UseVar(scopes, x), <<k.e, v.e>>, <<>>))
                   /\ Report1(k.ok /\ v.ok /\ CheckOffsetType(UseVar(scopes, x), k.e, v.e))
                   /\ UNCHANGED <<voc, phase, scopes, curr, funcs, list>>

\* The length of an array made for a variable that is there is not checked.
Creation ==
    /\ Reads("create")
    /\ \E x \in {d[2] : d \in Words.decls}, e \in Words.exprs :
          LET v == Elaborate(e)
          IN  IF ~v.known \/ ~Known(scopes, x) THEN SyntaxError
              ELSE /\ Add(Stmt("CREATION", UseVar(scopes, x), <<v.e>>, <<>>))
                   /\ Report1(v.ok)
                   /\ UNCHANGED <<voc, phase, scopes, curr, funcs, list>>

\* Of an array with elements of 4 bytes the length is lost and then used, as the
\* last of no expressions, which is undefined: the compiler crashes, or goes on
\* with what the memory still holds of a number or a variable.
InitialCreation ==
    /\ Reads("create")
    /\ \E d \in Words.decls, e \in Words.exprs :
          LET v  == Elaborate(e)
              id == Identifier(curr, "LOCAL_VAR", scopes, d[1], d[2])
              c  == CheckArrayCreation(id, v.e)
              Create(es, ok) ==
                  /\ Add(Stmt("CREATION", id, es, <<>>))
                  /\ scopes' = Declared(scopes, d[2], id)
                  /\ curr' = Counted(curr, "LOCAL_VAR")
                  /\ Report1(ok)
                  /\ UNCHANGED <<voc, phase, funcs, list>>
          IN  \/ /\ ~v.known \/ ~CanDeclare(scopes, d[2])
                 /\ SyntaxError
              \/ /\ v.known /\ CanDeclare(scopes, d[2]) /\ c.es = <<>>
                 /\ \/ v.e.type \in {"NUMBER", "ID"} /\ Create(<<v.e>>, v.ok)
                    \/ /\ phase' = "crash"
                       /\ UNCHANGED <<voc, scopes, curr, open, funcs, reported, list>>
              \/ /\ v.known /\ CanDeclare(scopes, d[2]) /\ c.es # <<>>
                 /\ Create(c.es, v.ok /\ c.ok)

Return ==
    /\ Reads("return")
    /\ \/ /\ Add(Stmt("RETURN", NoId, <<>>, <<>>))
          /\ UNCHANGED <<voc, phase, scopes, curr, funcs, reported, list>>
       \/ \E e \in Words.exprs :
             LET v == Elaborate(e)
             IN  IF ~v.known THEN SyntaxError
                 ELSE /\ Add(Stmt("RETURN", NoId, <<v.e>>, <<>>))
                      /\ Report1(v.ok /\ v.e.dataType = curr.returnType)
                      /\ UNCHANGED <<voc, phase, scopes, curr, funcs, list>>

\* The call of a statement is not checked: its type stays "UNDEFINED".
CallStatement ==
    /\ Reads("call")
    /\ \E e \in Words.exprs :
          LET v == Elaborate(e)
          IN  /\ e.type = "CALL"
              /\ IF ~v.known THEN SyntaxError
                 ELSE /\ Add(Stmt("FUNC_CALL", NoId,
                                  <<[v.e EXCEPT !.dataType = "UNDEFINED"]>>, <<>>))
                      /\ Report1(v.ok)
                      /\ UNCHANGED <<voc, phase, scopes, curr, funcs, list>>

OpenBlock ==
    /\ Reads("block") /\ Len(open) < MaxNesting
    /\ open' = Append(open, Frame("block", NoExpr, <<>>))
    /\ scopes' = EnterScope(scopes)
    /\ UNCHANGED <<voc, phase, curr, funcs, reported, list>>

Close(s) == open' = [Front(open) EXCEPT ![Len(open) - 1].stmts = Append(@, s)]

CloseBlock ==
    /\ phase = "parse" /\ open # <<>> /\ Top.kind = "block"
    /\ Close(Block(<<>>, Top.stmts))
    /\ scopes' = ExitScope(scopes)
    /\ UNCHANGED <<voc, phase, curr, funcs, reported, list>>

If ==
    /\ Reads("if") /\ Len(open) < MaxNesting
    /\ \E e \in Words.exprs :
          LET v == Elaborate(e)
          IN  IF ~v.known THEN SyntaxError
              ELSE /\ open' = Append(open, Frame("then", <<v.e>>, <<>>))
                   /\ Report1(v.ok)
                   /\ UNCHANGED <<voc, phase, scopes, curr, funcs, list>>

\* An else belongs to the innermost if that has none. In the chain of an if, its
\* else, if this is an if, and so on, that is the last one.
WantsElse(s) ==
    LET chain[k \in 0 .. MaxNesting] ==
            IF k = 0 THEN s ELSE chain[k - 1].sub[2].sub[1]
        IsIf(k, n) == chain[k].type = "BRANCH" /\ Len(chain[k].sub) = n
    IN  \E k \in 0 .. MaxNesting : (\A j \in 0 .. k - 1 : IsIf(j, 2)) /\ IsIf(k, 1)

Else ==
    /\ phase = "parse" /\ open # <<>> /\ Top.kind = "then" /\ Top.stmts # <<>>
    /\ ~WantsElse(Top.stmts[1])
    /\ open' = Append(Front(open), Frame("else", Top.cond, Top.stmts))
    /\ UNCHANGED <<voc, phase, scopes, curr, funcs, reported, list>>

EndIf ==
    /\ phase = "parse" /\ open # <<>> /\ Top.stmts # <<>>
    /\ \/ Top.kind = "then" /\ Close(Branch(Top.cond, <<Block(Top.cond, Top.stmts)>>))
       \/ Top.kind = "else" /\ Close(Branch(Top.cond, <<Block(Top.cond, Top.then),
                                                        Block(<<>>, Top.stmts)>>))
    /\ UNCHANGED <<voc, phase, scopes, curr, funcs, reported, list>>

\* AddFunc. Only the last statement is looked at.
FunctionEnd ==
    /\ phase = "parse" /\ open # <<>> /\ Top.kind = "body"
    /\ LET returns == Top.stmts # <<>> /\ Last(Top.stmts).type = "RETURN"
           void    == curr.returnType = "UNDEFINED"
           all     == IF void /\ ~returns
                      THEN Append(Top.stmts, Stmt("RETURN", NoId, <<>>, <<>>))
                      ELSE Top.stmts
       IN  /\ funcs' = Append(funcs, [curr EXCEPT !.statements = all])
           /\ Report1(void \/ returns)
    /\ curr' = NoFunction /\ open' = <<>> /\ scopes' = ExitScope(scopes)
    /\ UNCHANGED <<voc, phase, list>>

ParseEnds ==
    /\ phase = "parse" /\ open = <<>> /\ funcs # <<>>
    /\ phase' = "parsed"
    /\ UNCHANGED <<voc, scopes, curr, open, funcs, reported, list>>

\* Parse goes on after an error, too. The label of a function is put at its
\* first instruction, whether there is one or not.
Generate ==
    /\ phase = "parsed"
    /\ IF \E k \in DOMAIN funcs :
             TranslateFunctions(SubSeq(funcs, 1, k))[funcs[k].id] = <<>>
       THEN phase' = "crash" /\ UNCHANGED list
       ELSE phase' = "generated" /\ list' = Flush(TranslateFunctions(funcs), Names)
    /\ UNCHANGED <<voc, scopes, curr, open, funcs, reported>>

Next ==
    \/ FunctionHead \/ Declaration \/ Initialization \/ Assignment \/ OffsetAssignment
    \/ Creation \/ InitialCreation \/ Return \/ CallStatement \/ OpenBlock \/ CloseBlock
    \/ If \/ Else \/ EndIf \/ FunctionEnd \/ ParseEnds \/ Generate

Spec == Init /\ [][Next]_vars

----------------------------------------------------------------------------
(* Programs the properties are about.                                      *)

\* No message was printed, and a name stands for one function.
Accepted ==
    /\ phase = "generated" /\ ~reported
    /\ \A k, n \in DOMAIN funcs : funcs[k].id = funcs[n].id => k = n

----------------------------------------------------------------------------
(* Properties.                                                             *)

TypeOK ==
    /\ phase \in {"parse", "parsed", "crash", "generated"} /\ reported \in BOOLEAN
    /\ \A k \in DOMAIN scopes : \A x \in DOMAIN scopes[k] :
          /\ scopes[k][x].id = x /\ scopes[k][x].type \in {"LOCAL_VAR", "ARG_VAR"}
          /\ scopes[k][x].position \in Nat
    /\ phase = "parse" => Len(scopes) = Cardinality({k \in DOMAIN open :
                                             open[k].kind \in {"body", "block"}})

\* Two variables of a kind that can be named at one point of a function, or one of
\* which is hidden by the other, have different positions: DeclVar counts them for
\* the whole function, while their scopes come and go. These are numbers, of which the
\* interpreter, for which they are bytes, makes parts of the frame that overlap.
PositionsApart ==
    \A k, n \in DOMAIN scopes :
        \A x \in DOMAIN scopes[k], y \in DOMAIN scopes[n] :
            /\ scopes[k][x].type = scopes[n][y].type
            /\ scopes[k][x].position = scopes[n][y].position
            => k = n /\ x = y

IsSeq(s) == Len(s) \in Nat /\ s = [n \in 1 .. Len(s) |-> s[n]]

\* The expressions a statement is translated with.
Translated(s) ==
    CASE s.type \in {"ASSIGNMENT", "INITIALIZATION", "ASSIGN_OFFSET", "FUNC_CALL",
                     "CREATION"} -> {s.exprs[1]}
      [] s.type = "RETURN" /\ s.exprs # <<>> -> {s.exprs[1]}
      [] s.type = "BRANCH" -> {s.sub[1].exprs[1]}
      [] OTHER -> {}

\* An instruction of the assembler's stack set with as many operands as that asks
\* for; RET has none, and asks for one.
Encodable(mn, args) ==
    mn \in Instr!Mnemonics["stack"] /\ (mn[1] # "RET" => Len(args) = Len(Instr!Fields("stack", mn)))

\* What the generator adds for an expression of an accepted program are
\* instructions of the set, with their operands, and none of them leaves.
ExpressionsFallThrough ==
    Accepted =>
        \A f \in ToSet(funcs) : \A k \in 0 .. Deepest :
            \A s \in Levels(f.statements)[k] : \A e \in Translated(s) :
                LET c == ExpressionCode(e)
                IN  /\ IsSeq(c)
                    /\ \A n \in DOMAIN c :
                          /\ Encodable(c[n].mn, c[n].args) /\ c[n].over = -1
                          /\ c[n].mn[1] \notin {"BRZ", "JMP", "RET"}

\* In the listing of a program without messages every branch goes to a label
\* that is there once, further down.
JumpsResolved ==
    Accepted =>
        \A n \in DOMAIN list : list[n].mn[1] \in {"BRZ", "JMP"} =>
            /\ Len(list[n].args) = 1
            /\ \E m \in n + 1 .. Len(list) :
                  {k \in DOMAIN list : list[k].label = list[n].args[1]} = {m}

\* Every instruction of the listing is one of the assembler's, with its operands.
InInstructionSet == Accepted => \A n \in DOMAIN list : Encodable(list[n].mn, list[n].args)
=============================================================================
