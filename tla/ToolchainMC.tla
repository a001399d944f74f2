------------------------------ MODULE ToolchainMC ------------------------------
(***************************************************************************)
(* Programs for the toolchain: every instruction of both modes once, small *)
(* bodies with labels and jumps of every kind, and headers that a VM takes *)
(* or refuses. Left out of `Programs' are the sources for which README.md  *)
(* says what goes wrong.                                                   *)
(***************************************************************************)
EXTENDS Toolchain, FiniteSetsExt

Sym(x) == [sym |-> x, op |-> "", num |-> 0]
Num(n) == [sym |-> "", op |-> "", num |-> n]
Term(x, op, n) == [sym |-> x, op |-> op, num |-> n]

Plain(what)       == [label |-> "", what |-> what]
On(label, what)   == [label |-> label, what |-> what]
None              == [op |-> "none"]
Instr(mn, args)   == [op |-> "instr", mn |-> mn, args |-> args]
Bytes(size, data) == [op |-> "byte", size |-> size, data |-> data, text |-> 0]
Kib(op, n)        == Plain([op |-> op, kib |-> n])
Mode(m)           == Plain([op |-> "mode", mode |-> m])

Header(m, heap, max) == <<Mode(m), Kib("heap", heap), Kib("heap_max", max)>>
Data == <<Plain([op |-> "data"]), On("text", Bytes(3, "string")), On("more", Bytes(1, "string"))>>

\* An instruction with operands that fit where they are put.
Operands(m, mn) ==
    [k \in DOMAIN Fields(m, mn) |->
        CASE mn[1] \in {"JMP", "CALL", "BRZ", "BRNZ"}           -> Sym("a")
          [] mn[1] = "STR" /\ Fields(m, mn)[k] = 4              -> Term("text", "+", 1)
          [] mn[1] = "STRCPY" /\ Fields(m, mn)[k] = 4           -> Term("text", "*", 2)
          [] mn[1] = "STRCAT" /\ Fields(m, mn)[k] = 4           -> Term("text", "-", 1)
          [] mn[1] = "SCALL"                                    -> Sym("__str")
          [] m = "register" /\ k = 1 /\ mn \notin ToSet(Shared) /\ Fields(m, mn)[k] = 1
                                                                -> Sym("R31")
          [] OTHER                                              -> Num(17 * k)]

Once(m, mn) == Instr(mn, Operands(m, mn))

\* Each instruction between two labels, reached by a call.
Single1(m, mn) ==
    Header(m, 1, 2)
    \o <<Plain(Instr(<<"CALL", "">>, <<Sym("b")>>)), On("a", Instr(<<"EXIT", "">>, <<>>)),
         On("b", Once(m, mn)), Plain(Instr(<<"RET", "">>, <<Num(4)>>))>>
    \o Data

Unsound == Odd \cup {<<"STA", "">>, <<"STA", ".64">>}

Singles(Left) ==
    {Single1("stack", mn) : mn \in Mnemonics["stack"]}
    \cup {Single1("register", mn) : mn \in Mnemonics["register"] \ Left}

\* Bodies with labels that are there once, twice or not at all, and wrong lines.
Whats(m) ==
    {None,
     Instr(<<"JMP", "">>, <<Sym("a")>>),
     Instr(<<"CALL", "">>, <<Sym("b")>>),
     Instr(<<"RET", "">>, <<Num(0)>>),
     Instr(<<"BRNZ", "">>, <<Sym("b")>>),
     IF m = "stack" THEN Instr(<<"BRIZ", "">>, <<>>)
     ELSE Instr(<<"JMPI", "">>, <<Sym("R1")>>)}

BodyLines(m) ==
    {On(x, w) : x \in {"", "a", "b"}, w \in Whats(m)} \cup {Plain([op |-> "wrong"])}

Bodies(m, lines) ==
    {Header(m, 2, 2) \o b \o Data : b \in [1 .. lines -> BodyLines(m)]}

\* Headers, with the largest maximum that is not wrapped, and sources that
\* rackasm reports or crashes on.
Nop == Plain(Instr(<<"NOP", "">>, <<>>))
Headers ==
    {Header("stack", h, m) \o <<Nop>> \o Data :
        h \in {1, 63, 64, 65, 5000}, m \in {1, 63, 64, 65, 4194303}}
Rejected ==
    {<<Mode("stack"), Plain(Instr(<<"FOO", "">>, <<>>))>>,
     <<Mode("stack"), Nop, Mode("register")>>,
     <<Mode("vector"), Nop>>,
     Header("stack", 1, 1) \o <<Plain(Instr(<<"NOP", "">>, <<Num(1)>>))>> \o Data,
     <<Mode("stack"), Nop, On("a", [op |-> "bad"]), Nop>>,
     <<Mode("stack"), Nop, Plain([op |-> "data"]), Plain(Bytes(1, "junk"))>>}
    \cup {Header("stack", 1, 1) \o <<Plain(Instr(<<"STR", "">>, <<a>>))>> \o Data :
            a \in {Term("text", "neg", 0), Term("text", "/", 0), Term("text", "many", 1),
                   Term("none", "+", 1)}}

Programs ==
    Singles(Unsound) \cup Bodies("stack", 3) \cup Bodies("register", 2)
    \cup Headers \cup Rejected

\* What the proofs ask of a source, these have.
ASSUME ProgramsSound == \A s \in Programs \ Rejected : SoundSource(s) /\ SoundSizes(s)

\* All instructions of the register mode.
RegisterPrograms == Singles({})
=============================================================================
