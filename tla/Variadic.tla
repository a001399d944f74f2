------------------------------- MODULE Variadic -------------------------------
(***************************************************************************)
(* What a guest relies on when it makes a system call (the comment of      *)
(* src/examples/asm/add.asm, lines 86 to 95): it puts the arguments on the *)
(* stack, calls, and the call gets these arguments, whole and in order,    *)
(* takes them off and leaves its own result, if it has one. A call made    *)
(* while the arguments of another are put leaves that one an argument; the *)
(* four functions that are only names (src/vm/vm.c, lines 72 to 75) leave  *)
(* all as it was.                                                          *)
(***************************************************************************)
EXTENDS Integers, Sequences, SequencesExt

CONSTANT Vals  \* what an argument or a word may hold

VARIABLES
    stk,    \* the words the guest has on the stack
    given,  \* the arguments put so far for each system call being prepared,
            \* the innermost last
    out     \* the last system call made: the function, what it was given

avars == <<stk, given, out>>

Types == {"string", "double", "float", "long", "int"}
Wide  == {"double", "long"}
Arguments == [type : Types, val : Vals]

\* The words of an argument, the lower first.
WordsOf(x) == IF x.type \in Wide THEN <<<<x.val, 1>>, <<x.val, 2>>>>
              ELSE <<<<x.val, 1>>>>
Words(args) == FlattenSeq([i \in DOMAIN args |-> WordsOf(args[i])])

\* The double of the value of a float that takes the word w, and what printf
\* gets for an argument: no float.
Double(w) == <<w, <<w[1], w[2] + 1>>>>
Passed(x) == IF x.type = "float" THEN Double(<<x.val, 1>>) ELSE WordsOf(x)

Missing == {"write", "read", "open", "close"}

\* The string a system call made.
Made  == [type |-> "string", val |-> "made"]
Quiet == [fn |-> "none", got |-> <<>>]

\* Adds xs to the arguments of the innermost call.
Given(calls, xs) ==
    IF calls = <<>> THEN <<>>
    ELSE Append(Front(calls), Last(calls) \o xs)

Init == stk = <<>> /\ given = <<>> /\ out = Quiet

\* Words that are no arguments.
Push == \E v \in Vals : stk' = Append(stk, <<v, 1>>) /\ UNCHANGED <<given, out>>
Pop  == stk # <<>> /\ stk' = Front(stk) /\ UNCHANGED <<given, out>>

Begin == given' = Append(given, <<>>) /\ out' = Quiet /\ UNCHANGED stk

Put(x) ==
    /\ given # <<>>
    /\ stk' = stk \o WordsOf(x)
    /\ given' = Given(given, <<x>>)
    /\ UNCHANGED out

\* The call takes its own arguments, of all that is on the stack.
Call(fn, result) ==
    /\ given # <<>>
    /\ LET args == Last(given)
       IN  /\ out' = [fn |-> fn, got |-> [i \in DOMAIN args |-> Passed(args[i])]]
           /\ stk' = SubSeq(stk, 1, Len(stk) - Len(Words(args))) \o Words(result)
    /\ given' = Given(Front(given), result)

Ignored(fn) ==
    /\ given # <<>>
    /\ out' = [fn |-> fn, got |-> <<>>]
    /\ given' = Given(Front(given), <<>>)
    /\ UNCHANGED stk

Next ==
    \/ Push \/ Pop \/ Begin
    \/ \E x \in Arguments : Put(x)
    \/ Call("print", <<>>)
    \/ \E fn \in {"str", "input"} : Call(fn, <<Made>>)
    \/ \E fn \in Missing : Ignored(fn)

Spec == Init /\ [][Next]_avars
=============================================================================
