------------------------------- MODULE StackVM -------------------------------
(***************************************************************************)
(* The stack of the RackVM stack interpreter (src/vm/stack_impl.h, and the *)
(* CALL and RET macros of src/vm/shared_impl.h): one array of 32-bit words *)
(* that holds the words of every active function, their frames, and, at    *)
(* its bottom, two words main checks at the end (src/vm/vm.c).             *)
(*                                                                         *)
(* A frame at word f of the stack is the caller's frame, at f, and the     *)
(* address to return to, at f + 1. The words of the function itself lie    *)
(* above, the arguments its caller pushed below. The guest keeps to that:  *)
(* it takes off the stack what it put there, names locals and arguments    *)
(* that exist, and its RETs take off the arguments its callers pushed.     *)
(***************************************************************************)
EXTENDS Integers, Sequences, SequencesExt

CONSTANTS
    StackSize,  \* STACK_SIZE, in words
    Words,      \* what an instruction may leave on the stack
    Rets,       \* the addresses behind the guest's CALL instructions
    Ops         \* guest and benchmark steps besides the ordinary ones

ASSUME StackAssumption ==
    /\ StackSize \in Nat /\ StackSize > 2
    /\ Words \subseteq Int /\ Rets \subseteq Words
    /\ Ops \subseteq {"main_returns", "rerun", "rerun_any"}

VARIABLES
    stk,    \* the words of the stack, and the two that follow it in memory
    sp,     \* the topmost word
    frame,  \* stackFrame
    argc,   \* the words of arguments of every active function, main's first:
            \* what the guest's code knows of itself, nowhere on the stack
    back,   \* where the last RET took instrPtr, 0 before the first
    status  \* "run" inside the loop, "exit" or "overflow" when it is left

vars == <<stk, sp, frame, argc, back, status>>

AC1D == 44061
FACE == 64206
Beyond == -1                   \* what memory behind the stack holds
Memory == 0 .. StackSize + 1

----------------------------------------------------------------------------
(* Pieces of the instructions.                                             *)

\* What a plain instruction takes off the stack and leaves there, in words.
Arity ==
    {<<0, 1>>, <<0, 2>>,            \* LDI, STR; LDI_64
     <<1, 1>>, <<2, 2>>,            \* INV, CPZ, LDM, NEW; INV_64, LTOD
     <<2, 1>>, <<4, 2>>, <<4, 1>>,  \* ADD, LTOI, STRCMB; ADD_64; CPEQ_64
     <<1, 2>>,                      \* ITOL, LDM_64
     <<1, 0>>, <<2, 0>>, <<3, 0>>}  \* BRZ, DEL; STM, BRIZ; STM_64

\* m words from w on.
Read(w, m) == [k \in 1 .. m |-> stk[w + k - 1]]

\* The stack with the words of r at w.
Write(w, r) ==
    [i \in Memory |-> IF i - w + 1 \in DOMAIN r THEN r[i - w + 1] ELSE stk[i]]

\* Bugs the properties tell from the code: the frame saved after it was set, a
\* word too many taken off, the arguments left on, no check.
FramedLate(ret) == Write(sp + 1, <<sp + 1, ret>>)
ReturnedFar(n) == frame - n - 2
ReturnedWithArgs(n) == frame - 1
Unchecked(s) == "run"

Framed(ret) == Write(sp + 1, <<frame, ret>>)
Returned(n) == frame - n - 1
Checked(s) == IF s >= StackSize THEN "overflow" ELSE "run"

\* The loop goes on with the stack s and its top t, unless that is too high.
Continue(s, t) ==
    /\ stk' = s /\ sp' = t /\ status' = Checked(t)

----------------------------------------------------------------------------
(* What the guest may name: words of its own, and arguments.               *)

Locals(m) == {w \in frame + 2 .. sp : w + m - 1 <= sp}
Arguments(m) == {w \in frame - Last(argc) .. frame - 1 : w + m - 1 < frame}
Holds(m) == sp - m >= frame + 1

----------------------------------------------------------------------------
Init ==
    /\ stk = [i \in Memory |-> CASE i = 0 -> AC1D
                                 [] i = 1 -> FACE
                                 [] i \in 2 .. StackSize - 1 -> 0
                                 [] OTHER -> Beyond]
    /\ sp = 1 /\ frame = 0 /\ argc = <<0>> /\ back = 0 /\ status = "run"

\* LDI and the like, arithmetic, comparisons, conversions, branches and the
\* heap instructions. Results and the next instruction are any.
Operate(a) ==
    /\ status = "run" /\ Holds(a[1])
    /\ \E res \in [1 .. a[2] -> Words] :
          Continue(Write(sp - a[1] + 1, res), sp - a[1] + a[2])
    /\ UNCHANGED <<frame, argc, back>>

\* LDL and LDL_64.
LoadLocal(m) ==
    /\ status = "run"
    /\ \E w \in Locals(m) : Continue(Write(sp + 1, Read(w, m)), sp + m)
    /\ UNCHANGED <<frame, argc, back>>

\* LDA and LDA_64. main has no arguments.
LoadArgument(m) ==
    /\ status = "run" /\ frame # 0
    /\ \E w \in Arguments(m) : Continue(Write(sp + 1, Read(w, m)), sp + m)
    /\ UNCHANGED <<frame, argc, back>>

\* STL and STL_64: the words stored are not among those left.
StoreLocal(m) ==
    /\ status = "run" /\ Holds(m)
    /\ \E w \in Locals(m) : /\ w + m - 1 <= sp - m
                            /\ Continue(Write(w, Read(sp - m + 1, m)), sp - m)
    /\ UNCHANGED <<frame, argc, back>>

\* STA and STA_64.
StoreArgument(m) ==
    /\ status = "run" /\ frame # 0 /\ Holds(m)
    /\ \E w \in Arguments(m) : Continue(Write(w, Read(sp - m + 1, m)), sp - m)
    /\ UNCHANGED <<frame, argc, back>>

Call ==
    /\ status = "run"
    /\ \E ret \in Rets : Continue(Framed(ret), sp + 2)
    /\ \E n \in 0 .. sp - frame - 1 : argc' = Append(argc, n)
    /\ frame' = sp + 1
    /\ UNCHANGED back

\* RET, RET_32 and RET_64: m words go to where the arguments began.
Return(m) ==
    /\ status = "run" /\ frame # 0 /\ Holds(m)
    /\ LET top == Returned(Last(argc))
       IN  Continue(Write(top + 1, Read(sp - m + 1, m)), top + m)
    /\ frame' = stk[frame]
    /\ argc' = Front(argc)
    /\ back' = stk[frame + 1]

\* RET in main: its frame is the two words at the bottom. It "returns" behind
\* the program, which ends the loop.
MainReturns ==
    /\ "main_returns" \in Ops
    /\ status = "run" /\ frame = 0
    /\ sp' = Returned(0)
    /\ frame' = stk[frame]
    /\ back' = stk[frame + 1]
    /\ status' = "exit"
    /\ UNCHANGED <<stk, argc>>

\* EXIT, and running past the program's end.
Exit ==
    /\ status = "run"
    /\ status' = "exit"
    /\ UNCHANGED <<stk, sp, frame, argc, back>>

\* The benchmark mode's next run: after a run that ended with main's EXIT, or
\* after any run.
Rerun ==
    /\ \/ "rerun" \in Ops /\ frame = 0
       \/ "rerun_any" \in Ops
    /\ status # "run"
    /\ stk' = [stk EXCEPT ![0] = AC1D, ![1] = FACE]
    /\ sp' = 1
    /\ argc' = <<0>>
    /\ status' = "run"
    /\ UNCHANGED <<frame, back>>

Next ==
    \/ \E a \in Arity : Operate(a)
    \/ \E m \in 1 .. 2 : \/ LoadLocal(m) \/ LoadArgument(m)
                         \/ StoreLocal(m) \/ StoreArgument(m)
    \/ Call
    \/ \E m \in 0 .. 2 : Return(m)
    \/ MainReturns
    \/ Exit
    \/ Rerun

Spec == Init /\ [][Next]_vars

----------------------------------------------------------------------------
(* Properties.                                                             *)

\* Types.
TypeOK ==
    /\ stk \in [Memory -> Int] /\ argc \in Seq(Nat) /\ back \in Int
    /\ sp \in -1 .. StackSize + 1
    /\ status = "run" => sp < StackSize
    /\ status \in {"run", "exit", "overflow"}

\* fr are the frames of the active functions, main's first: each names the one
\* before it, below the words of the function there and its own arguments.
Nested(fr) ==
    /\ argc # <<>> /\ DOMAIN fr = DOMAIN argc
    /\ fr[1] = 0 /\ fr[Len(argc)] = frame /\ frame + 1 <= sp
    /\ \A i, j \in DOMAIN argc : i < j => fr[i] + 2 <= fr[j]
    /\ \A i \in DOMAIN argc \ {1} : /\ stk[fr[i]] = fr[i - 1]
                                   /\ fr[i - 1] + 2 + argc[i] <= fr[i]

\* The frames found by following the saved ones from f, main's first.
FramesTo ==
    LET chain[f \in Memory] ==
          IF f = 0 \/ stk[f] \notin 0 .. f - 1 THEN <<f>>
          ELSE Append(chain[stk[f]], f)
    IN  chain

\* Whatever the guest calls, computes, stores and returns, from the current
\* frame the saved frames lead down to main's, each below the words of the
\* function above it: every RET will find the frame its CALL left (CALL and
\* RET of shared_impl.h).
FramesNested == status = "run" => frame \in Memory /\ Nested(FramesTo[frame])

\* The two words at the bottom stay as they are, so the check for "potential
\* stack corruption" at the end of main (vm.c) has nothing to report of a
\* guest that keeps to its words.
SentinelsIntact == stk[0] = AC1D /\ stk[1] = FACE

\* The words of the function whose frame is the i-th of F.
Own(F, i) ==
    LET bottom == F[i] + 2
        top    == IF i = Len(F) THEN sp ELSE F[i + 1] - 1
    IN  [k \in 1 .. top - bottom + 1 |-> stk[bottom + k - 1]]

Activations ==
    IF status # "run" THEN <<>>
    ELSE LET F == FramesTo[frame]
         IN  [i \in DOMAIN F |-> [ret |-> stk[F[i] + 1], args |-> argc[i],
                                own |-> Own(F, i)]]

Calls == INSTANCE CallStack WITH acts <- Activations

\* The calling convention: every guest function has its words to itself, sees
\* its arguments, and is resumed after its call with what it had before, less
\* the arguments, plus the result.
AbsSpec == Calls!Spec
=============================================================================
