------------------------------- MODULE SysCalls -------------------------------
(***************************************************************************)
(* System calls of the RackVM interpreters (src/vm/shared_impl.h). The     *)
(* arguments of a call lie on the stack. How many there are, and where     *)
(* each begins, the VM knows only from the SARG instructions the guest     *)
(* executes between them: each appends one byte to the global sysArgs, a   *)
(* type flag and a size, and SCALL works down from sp with what it finds   *)
(* there. Four of the functions that SysFunc_t names it does not know.     *)
(*                                                                         *)
(* Guests push words, put arguments, announce each right after it is on    *)
(* the stack, and call; a call with one string needs no SARG. With         *)
(* "nested" they make a call while they put the arguments of another, with *)
(* "many" they put more arguments than sysArgs has bytes for, with         *)
(* "str_numbers" they give __str doubles, floats and longs.                *)
(***************************************************************************)
EXTENDS Integers, Sequences, SequencesExt

CONSTANTS
    Slots,    \* the size of sysArgs, 8
    Vals,     \* what an argument or a word may hold
    Height,   \* how many words of its own a guest pushes
    Ops       \* what guests do besides

ASSUME SysCallsAssumption ==
    /\ Slots \in Nat \ {0} /\ Height \in Nat
    /\ Ops \subseteq {"nested", "many", "str_numbers"}

VARIABLES
    stk,      \* the words up to sp
    sysArgs,  \* its entries below sysArgPtr
    given,    \* what the guest's code is about: the arguments it has put for
              \* each call it prepares, the innermost last
    said,     \* the last one has been announced
    out,      \* what the last system call took for its arguments
    fault     \* SARG has written past sysArgs

vars == <<stk, sysArgs, given, said, out, fault>>

A == INSTANCE Variadic

Wide  == A!Wide
Inner == Last(given)

----------------------------------------------------------------------------
(* What SCALL makes of sysArgs.                                            *)

\* Bugs the properties tell from the code: sizes in bytes, the sum counted from
\* the wrong end, and no reset where nothing is printed.
ByteInBytes(x) == [flag |-> x.type, size |-> 4 * Len(A!WordsOf(x))]
ValueSizeSumUp(i) ==
    FoldLeft(LAMBDA n, b: n + (IF b.flag \in Wide THEN 2 ELSE 1), 0,
             SubSeq(sysArgs, 1, i - 1))
ResetByPrint(fn) == IF fn = "print" THEN <<>> ELSE sysArgs

\* The byte for an argument: the flag in the upper nibble, "int" for none, and
\* the size in the lower, here in words.
Byte(x) == [flag |-> x.type, size |-> Len(A!WordsOf(x))]

\* The words below sp that the arguments after the i-th take.
ValueSizeSum(i) ==
    FoldLeft(LAMBDA n, b: n + (IF b.flag \in Wide THEN 2 ELSE 1), 0,
             SubSeq(sysArgs, i + 1, Len(sysArgs)))

\* What lies above sp is left from earlier.
WordAt(p) == IF p \in DOMAIN stk THEN stk[p] ELSE <<"stale", 1>>

\* argVal[i]: its topmost word is at p. SysPrint reads 64 bits from the word
\* below and makes a float a double; SysStr reads 64 bits from p itself and
\* leaves a float as it is.
Topmost(i) == Len(stk) - ValueSizeSum(i)
PrintArg(i) ==
    LET p == Topmost(i)
    IN  CASE sysArgs[i].flag \in Wide   -> <<WordAt(p - 1), WordAt(p)>>
          [] sysArgs[i].flag = "float"  -> A!Double(WordAt(p))
          [] OTHER                      -> <<WordAt(p)>>
StrArg(i) ==
    LET p == Topmost(i)
    IN  IF sysArgs[i].flag \in Wide THEN <<WordAt(p), WordAt(p + 1)>> ELSE <<WordAt(p)>>

\* With one argument or none the word on top is the string to print.
Formatted(args) == IF Len(sysArgs) <= 1 THEN <<<<WordAt(Len(stk))>>>> ELSE args

\* sp goes down by the sizes announced; with more than 8 no case applies.
TakenOff ==
    CASE Len(sysArgs) <= 1    -> 1
      [] Len(sysArgs) > Slots -> 0
      [] OTHER -> FoldLeft(LAMBDA n, b: n + b.size, 0, sysArgs)

\* SCALL ends with sysArgPtr at the beginning again.
Reset(fn) == <<>>

----------------------------------------------------------------------------
(* Instructions.                                                           *)

Init == A!Init /\ sysArgs = <<>> /\ said = TRUE /\ fault = FALSE

Push ==
    /\ given = <<>> /\ Len(stk) < Height
    /\ A!Push /\ UNCHANGED <<sysArgs, said, fault>>

Pop ==
    /\ given = <<>>
    /\ A!Pop /\ UNCHANGED <<sysArgs, said, fault>>

\* The guest turns to the arguments of a system call.
Begin ==
    /\ given = <<>> \/ ("nested" \in Ops /\ Len(given) = 1 /\ said)
    /\ given = <<>> => Len(stk) <= Height
    /\ A!Begin /\ UNCHANGED <<sysArgs, said, fault>>

\* The instructions that leave an argument; the first is the format string.
Put(x) ==
    /\ given # <<>> /\ said
    /\ Len(Inner) < (IF "many" \in Ops THEN Slots + 1 ELSE Slots)
    /\ Inner = <<>> => x.type = "string"
    /\ A!Put(x)
    /\ said' = FALSE
    /\ UNCHANGED <<sysArgs, fault>>

SARG ==
    /\ ~said
    /\ sysArgs' = Append(sysArgs, Byte(Last(Inner)))
    /\ fault' = (Len(sysArgs) >= Slots)
    /\ said' = TRUE
    /\ UNCHANGED <<stk, given, out>>

\* SCALL fn, which takes n words off, gets the arguments args and leaves result.
\* Whoever prepares another call announces the result as its argument next.
SCALL(fn, args, n, result) ==
    /\ given # <<>>
    /\ out' = [fn |-> fn, got |-> args]
    /\ stk' = SubSeq(stk, 1, Len(stk) - n) \o A!Words(result)
    /\ sysArgs' = Reset(fn)
    /\ given' = A!Given(Front(given), result)
    /\ said' = (given' = <<>> \/ result = <<>>)
    /\ UNCHANGED fault

Prepared == Inner # <<>> /\ (said \/ Len(Inner) = 1)

SysPrint ==
    /\ Prepared
    /\ SCALL("print", Formatted([i \in DOMAIN sysArgs |-> PrintArg(i)]), TakenOff, <<>>)

SysStr ==
    /\ Prepared
    /\ "str_numbers" \in Ops
       \/ \A i \in DOMAIN Inner : Inner[i].type \in {"string", "int"}
    /\ SCALL("str", Formatted([i \in DOMAIN sysArgs |-> StrArg(i)]), TakenOff, <<A!Made>>)

SysInput ==
    /\ Inner = <<>>
    /\ SCALL("input", <<>>, 0, <<A!Made>>)

\* SCALL has no case for the function: what was announced is forgotten and what
\* was put stays on the stack.
NoFunction ==
    /\ Inner = <<>> \/ Prepared
    /\ \E fn \in A!Missing : SCALL(fn, <<>>, 0, <<>>)

Next ==
    /\ ~fault
    /\ \/ Push \/ Pop \/ Begin \/ SARG
       \/ \E x \in A!Arguments : Put(x)
       \/ given # <<>> /\ (SysPrint \/ SysStr \/ SysInput \/ NoFunction)

Spec == Init /\ [][Next]_vars

----------------------------------------------------------------------------
(* Properties.                                                             *)

\* Everything has the type it should have.
TypeOK ==
    /\ stk \in Seq((Vals \cup {"made"}) \X {1, 2})
    /\ sysArgs \in Seq([flag : A!Types, size : {1, 2}])
    /\ given \in Seq(Seq([type : A!Types, val : Vals \cup {"made"}]))
    /\ said \in BOOLEAN /\ fault \in BOOLEAN

\* SARG never writes past sysArgs: the entries are those of the one call that is
\* being prepared, and the reset of SCALL has left none of an earlier call.
ArgsInArray == ~fault /\ Len(sysArgs) <= Slots

\* Every entry of sysArgs announces an argument of the call the guest prepares,
\* at its position: nothing is left over from an earlier call for SysPrint or
\* SysStr to take off the stack (SCALL's reset, src/vm/shared_impl.h:86).
EntriesMatch ==
    LET put == IF given = <<>> THEN <<>> ELSE Inner
    IN  /\ Len(put) = Len(sysArgs) + (IF said THEN 0 ELSE 1)
        /\ \A i \in DOMAIN sysArgs : sysArgs[i] = Byte(put[i])

\* Each system call gets the arguments put for it, whole and in order, takes them
\* off the stack and nothing else, and leaves its result.
AbsSpec == A!Spec
=============================================================================
