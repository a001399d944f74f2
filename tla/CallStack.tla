------------------------------ MODULE CallStack ------------------------------
(***************************************************************************)
(* What a guest function relies on when it calls and is called (the stack  *)
(* frame comment of src/vm/vm.c, and src/examples/asm/add.asm): it has     *)
(* words of its own, it sees the arguments its caller pushed, and when the *)
(* function it called returns, it goes on after the call with everything   *)
(* it had but the arguments, and the result on top.                        *)
(***************************************************************************)
EXTENDS Integers, Sequences, SequencesExt

CONSTANT Words  \* what an instruction may leave on the stack

VARIABLES
    acts,   \* the active functions, main first: where each returns to, how
            \* many words of arguments it has, and its own words; none when
            \* the program has ended
    back    \* where the last return went

cvars == <<acts, back>>

Callee     == Last(acts)
Caller     == acts[Len(acts) - 1]
Popped(s, n) == SubSeq(s, 1, Len(s) - n)
Taken(s, n)  == SubSeq(s, Len(s) - n + 1, Len(s))
WithOwn(as, i, own) == [as EXCEPT ![i].own = own]
\* Where the arguments begin among the caller's words.
FirstArgument == Len(Caller.own) - Callee.args + 1
InCallee(own) == WithOwn(acts, Len(acts), own)

\* s with its words from position i on replaced by those of r.
Overwritten(s, i, r) ==
    [j \in DOMAIN s |-> IF j \in i .. i + Len(r) - 1 THEN r[j - i + 1] ELSE s[j]]

OnlyMain == Len(acts) = 1 /\ acts[1].own = <<>>

Init == OnlyMain /\ back = 0

\* Takes words off the top, leaves others.
Operate ==
    /\ acts # <<>>
    /\ \E take \in 0 .. Len(Callee.own), leave \in 0 .. 2 :
          \E res \in [1 .. leave -> Words] :
             acts' = InCallee(Popped(Callee.own, take) \o res)
    /\ UNCHANGED back

\* Pushes a copy of m of its own words.
LoadLocal(m) ==
    /\ acts # <<>>
    /\ \E i \in 1 .. Len(Callee.own) - m + 1 :
          acts' = InCallee(Callee.own \o SubSeq(Callee.own, i, i + m - 1))
    /\ UNCHANGED back

\* Pushes a copy of m words of its arguments, which its caller had pushed.
LoadArgument(m) ==
    /\ Len(acts) > 1
    /\ \E i \in FirstArgument .. Len(Caller.own) - m + 1 :
          acts' = InCallee(Callee.own \o SubSeq(Caller.own, i, i + m - 1))
    /\ UNCHANGED back

\* Moves its top m words into a local.
StoreLocal(m) ==
    /\ acts # <<>> /\ m <= Len(Callee.own)
    /\ LET rest == Popped(Callee.own, m)
       IN  \E i \in 1 .. Len(rest) - m + 1 :
              acts' = InCallee(Overwritten(rest, i, Taken(Callee.own, m)))
    /\ UNCHANGED back

\* Moves its top m words into an argument.
StoreArgument(m) ==
    /\ Len(acts) > 1 /\ m <= Len(Callee.own)
    /\ \E i \in FirstArgument .. Len(Caller.own) - m + 1 :
          acts' = WithOwn(InCallee(Popped(Callee.own, m)), Len(acts) - 1,
                          Overwritten(Caller.own, i, Taken(Callee.own, m)))
    /\ UNCHANGED back

Call ==
    /\ acts # <<>>
    /\ \E ret \in Words, n \in 0 .. Len(Callee.own) :
          acts' = Append(acts, [ret |-> ret, args |-> n, own |-> <<>>])
    /\ UNCHANGED back

\* Hands m words back, in place of the arguments.
Return(m) ==
    /\ Len(acts) > 1
    /\ m <= Len(Callee.own)
    /\ acts' = WithOwn(Front(acts), Len(acts) - 1,
                       Popped(Caller.own, Callee.args) \o Taken(Callee.own, m))
    /\ back' = Callee.ret

End     == acts' = <<>>
Restart == acts = <<>> /\ OnlyMain' /\ UNCHANGED back

Next ==
    \/ Operate \/ Call \/ End \/ Restart
    \/ \E m \in 1 .. 2 : \/ LoadLocal(m) \/ LoadArgument(m)
                         \/ StoreLocal(m) \/ StoreArgument(m)
    \/ \E m \in 0 .. 2 : Return(m)

Spec == Init /\ [][Next]_cvars
=============================================================================
