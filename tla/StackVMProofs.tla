---------------------------- MODULE StackVMProofs ----------------------------
(***************************************************************************)
(* That frames nest and the two words at the bottom of the stack stay, for *)
(* every size of the stack and every guest that keeps to its words.        *)
(***************************************************************************)
EXTENDS StackVM, TLAPS

\* The stack of a program is run again only after it ended in main.
RerunsFromMain == "rerun_any" \notin Ops

\* The frames of the active functions are on the stack.
Chained == \E fr \in [DOMAIN argc -> Memory] : Nested(fr)

\* While the loop runs, the frames lead down to main's: FramesNested, for some
\* frames instead of those FramesTo finds.
FramesChained == status = "run" => Chained

\* The inductive invariant: the two words are main's frame, so they stay
\* because all frames do.
IInv ==
    /\ TypeOK
    /\ SentinelsIntact
    /\ FramesChained

LEMMA InitIInv == Init => IInv
<1> SUFFICES ASSUME Init PROVE IInv
  OBVIOUS
<1> USE StackAssumption
<1>1. TypeOK
  BY DEF Init, TypeOK, Memory, AC1D, FACE, Beyond
<1>2. SentinelsIntact
  BY DEF Init, SentinelsIntact, Memory, AC1D, FACE
<1>3. Chained
  <2> DEFINE fr == [i \in DOMAIN argc |-> 0]
  <2>1. argc = <<0>> /\ DOMAIN argc = {1} /\ Len(argc) = 1
    BY DEF Init
  <2>2. fr \in [DOMAIN argc -> Memory]
    BY DEF Memory
  <2>3. Nested(fr)
    BY <2>1 DEF Init, Nested
  <2> QED
    BY <2>2, <2>3 DEF Chained
<1> QED
  BY <1>1, <1>2, <1>3 DEF IInv, FramesChained

\* All frames are at or below the current one.
LEMMA FramesBelow ==
  ASSUME TypeOK, NEW fr \in [DOMAIN argc -> Memory], Nested(fr)
  PROVE  /\ Len(argc) \in Nat \ {0} /\ DOMAIN argc = 1 .. Len(argc)
         /\ \A i \in DOMAIN argc : fr[i] \in Int /\ fr[i] <= frame
         /\ \A i \in DOMAIN argc : i # Len(argc) => fr[i] + 2 <= frame
         /\ frame \in Memory
<1>1. Len(argc) \in Nat \ {0} /\ DOMAIN argc = 1 .. Len(argc)
  BY DEF TypeOK, Nested
<1>2. Len(argc) \in DOMAIN argc
  BY <1>1
<1>3. frame \in Memory
  BY <1>2 DEF Nested
<1>4. \A i \in DOMAIN argc : i # Len(argc) => fr[i] + 2 <= frame
  BY <1>1, <1>2 DEF Nested
<1>5. \A i \in DOMAIN argc : fr[i] \in Int
  BY StackAssumption DEF Memory
<1>6. \A i \in DOMAIN argc : fr[i] <= frame
  BY <1>3, <1>4, <1>5, StackAssumption DEF Memory, Nested
<1> QED
  BY <1>1, <1>3, <1>4, <1>5, <1>6

\* A write that misses the words of a frame leaves them.
LEMMA WriteMisses ==
  ASSUME TypeOK, NEW w \in Int, NEW m \in Nat, NEW r \in [1 .. m -> Int]
  PROVE  /\ Write(w, r) \in [Memory -> Int]
         /\ \A f \in Memory : (f < w \/ w + m - 1 < f) => Write(w, r)[f] = stk[f]
<1>1. DOMAIN r = 1 .. m
  OBVIOUS
<1>2. Memory \subseteq Int
  BY StackAssumption DEF Memory
<1>3. Write(w, r) \in [Memory -> Int]
  BY <1>1 DEF Write, TypeOK
<1>4. ASSUME NEW f \in Memory, f < w \/ w + m - 1 < f
      PROVE  Write(w, r)[f] = stk[f]
  BY <1>1, <1>2, <1>4 DEF Write
<1> QED
  BY <1>3, <1>4

\* What m words on the stack are.
LEMMA ReadWords ==
  ASSUME TypeOK, NEW w \in Int, NEW m \in Nat, 0 <= w, w + m - 1 <= StackSize
  PROVE  Read(w, m) \in [1 .. m -> Int]
<1> SUFFICES ASSUME NEW k \in 1 .. m PROVE stk[w + k - 1] \in Int
  BY DEF Read
<1>1. w + k - 1 \in 0 .. StackSize + 1
  BY StackAssumption
<1> QED
  BY <1>1 DEF TypeOK, Memory

\* Every frame's two words lie apart from the words w to w + m - 1.
Misses(fr, w, m) ==
    \A i \in DOMAIN argc : fr[i] + 1 < w \/ w + m - 1 < fr[i]

\* A write that misses all frames leaves the frames, and the two words.
LEMMA FramesStay ==
  ASSUME TypeOK, SentinelsIntact,
         NEW fr \in [DOMAIN argc -> Memory], Nested(fr),
         NEW w \in Int, NEW m \in Nat, NEW r \in [1 .. m -> Int],
         Misses(fr, w, m)
  PROVE  /\ Write(w, r) \in [Memory -> Int]
         /\ Write(w, r)[0] = AC1D /\ Write(w, r)[1] = FACE
         /\ \A i \in DOMAIN argc : Write(w, r)[fr[i]] = stk[fr[i]]
<1>1. /\ Write(w, r) \in [Memory -> Int]
      /\ \A f \in Memory : (f < w \/ w + m - 1 < f) => Write(w, r)[f] = stk[f]
  BY WriteMisses
<1>2. /\ Len(argc) \in Nat \ {0} /\ DOMAIN argc = 1 .. Len(argc)
      /\ \A i \in DOMAIN argc : fr[i] \in Int
  BY FramesBelow
<1>3. \A i \in DOMAIN argc : Write(w, r)[fr[i]] = stk[fr[i]]
  <2> SUFFICES ASSUME NEW i \in DOMAIN argc PROVE Write(w, r)[fr[i]] = stk[fr[i]]
    OBVIOUS
  <2>1. fr[i] \in Memory /\ fr[i] \in Int
    BY <1>2
  <2>2. fr[i] < w \/ w + m - 1 < fr[i]
    BY <2>1 DEF Misses
  <2> QED
    BY <1>1, <2>1, <2>2
<1>4. 1 < w \/ w + m - 1 < 0
  BY <1>2 DEF Misses, Nested
<1>5. 0 \in Memory /\ 1 \in Memory
  BY StackAssumption DEF Memory
<1>6. Write(w, r)[0] = stk[0] /\ Write(w, r)[1] = stk[1]
  BY <1>1, <1>4, <1>5
<1> QED
  BY <1>1, <1>3, <1>6 DEF SentinelsIntact

\* Instructions that neither call nor return, and write beside the frames.
LEMMA PlainStep ==
  ASSUME IInv, status = "run",
         NEW fr \in [DOMAIN argc -> Memory], Nested(fr),
         NEW w \in Int, NEW m \in Nat, NEW r \in [1 .. m -> Int],
         Misses(fr, w, m),
         NEW t \in Int, frame + 1 <= t, t <= StackSize + 1,
         Continue(Write(w, r), t), UNCHANGED <<frame, argc, back>>
  PROVE  IInv'
<1>1. TypeOK /\ SentinelsIntact
  BY DEF IInv, FramesChained
<1>2. /\ Write(w, r) \in [Memory -> Int]
      /\ Write(w, r)[0] = AC1D /\ Write(w, r)[1] = FACE
      /\ \A i \in DOMAIN argc : Write(w, r)[fr[i]] = stk[fr[i]]
  BY <1>1, FramesStay
<1>3. frame \in Memory /\ frame \in Nat
  BY <1>1, FramesBelow, StackAssumption DEF Memory
<1>4. stk' = Write(w, r) /\ sp' = t /\ status' = Checked(t)
  BY DEF Continue
<1>5. TypeOK'
  BY <1>1, <1>2, <1>3, <1>4, StackAssumption DEF TypeOK, Checked
<1>6. SentinelsIntact'
  BY <1>2, <1>4 DEF SentinelsIntact
<1>7. Nested(fr)'
  <2>1. \A i \in DOMAIN argc : stk'[fr[i]] = stk[fr[i]]
    BY <1>2, <1>4
  <2> QED
    BY <1>4, <2>1 DEF Nested
<1>8. Chained'
  BY <1>7 DEF Chained
<1> QED
  BY <1>5, <1>6, <1>8 DEF IInv, FramesChained

\* Words from two above the frame on belong to no frame.
LEMMA OwnWordsMiss ==
  ASSUME TypeOK, NEW fr \in [DOMAIN argc -> Memory], Nested(fr),
         NEW w \in Int, NEW m \in Nat, frame + 2 <= w
  PROVE  Misses(fr, w, m)
<1>1. \A i \in DOMAIN argc : fr[i] \in Int /\ fr[i] <= frame
  BY FramesBelow
<1>2. frame \in Int
  BY FramesBelow, StackAssumption DEF Memory
<1> QED
  BY <1>1, <1>2 DEF Misses

\* Nor do the arguments of a function other than main, and what follows them
\* up to the frame.
LEMMA ArgumentsMiss ==
  ASSUME TypeOK, NEW fr \in [DOMAIN argc -> Memory], Nested(fr),
         frame # 0, NEW w \in Int, NEW m \in Nat,
         frame - Last(argc) <= w, w + m - 1 < frame
  PROVE  Misses(fr, w, m)
<1> DEFINE n == Len(argc)
<1>1. /\ n \in Nat \ {0} /\ DOMAIN argc = 1 .. n
      /\ \A i \in DOMAIN argc : fr[i] \in Int
      /\ frame \in Memory
  BY FramesBelow
<1>2. n # 1
  BY DEF Nested
<1>3. Last(argc) = argc[n] /\ argc[n] \in Nat
  BY <1>1 DEF Last, TypeOK
<1>4. n \in DOMAIN argc /\ n - 1 \in DOMAIN argc /\ n \in DOMAIN argc \ {1}
  BY <1>1, <1>2
<1>5. fr[n - 1] + 2 + argc[n] <= frame
  BY <1>4 DEF Nested
<1>6. fr[n - 1] + 1 < w
  BY <1>1, <1>3, <1>4, <1>5, StackAssumption, SMTT(30) DEF Memory
<1>7. ASSUME NEW i \in DOMAIN argc, i # n PROVE fr[i] + 1 < w
  <2>1. CASE i = n - 1
    BY <1>6, <2>1
  <2>2. CASE i # n - 1
    <3>1. i < n - 1
      BY <1>1, <1>7, <2>2
    <3>2. fr[i] + 2 <= fr[n - 1]
      BY <1>4, <3>1 DEF Nested
    <3> QED
      BY <1>1, <1>4, <1>6, <3>2, SMTT(30)
  <2> QED
    BY <2>1, <2>2
<1>8. fr[n] = frame
  BY DEF Nested
<1> QED
  BY <1>7, <1>8 DEF Misses

----------------------------------------------------------------------------
(* Each step keeps the invariant.                                          *)

LEMMA OperateKeeps == ASSUME IInv, NEW a \in Arity, Operate(a) PROVE IInv'
<1>1. PICK res \in [1 .. a[2] -> Words] :
         Continue(Write(sp - a[1] + 1, res), sp - a[1] + a[2])
  BY DEF Operate
<1>2. status = "run" /\ TypeOK /\ UNCHANGED <<frame, argc, back>>
  BY DEF Operate, IInv
<1>3. PICK fr \in [DOMAIN argc -> Memory] : Nested(fr)
  BY <1>2 DEF IInv, FramesChained, Chained
<1>4. a[1] \in Nat /\ a[2] \in Nat /\ a[2] <= 2
  BY DEF Arity
<1>5. frame \in Int /\ sp \in Int /\ sp < StackSize
  BY <1>2, <1>3, FramesBelow, StackAssumption DEF Memory, TypeOK
<1>6. sp - a[1] >= frame + 1
  BY DEF Operate, Holds
<1>7. res \in [1 .. a[2] -> Int]
  BY StackAssumption
<1> DEFINE w == sp - a[1] + 1
           t == sp - a[1] + a[2]
<1>8. w \in Int /\ t \in Int /\ frame + 2 <= w /\ frame + 1 <= t /\ t <= StackSize + 1
  BY <1>4, <1>5, <1>6, StackAssumption, SMTT(30)
<1>9. Misses(fr, w, a[2])
  BY <1>2, <1>3, <1>4, <1>8, OwnWordsMiss
<1>10. Continue(Write(w, res), t) /\ a[2] \in Nat
  BY <1>1, <1>4
<1> HIDE DEF w, t
<1> QED
  BY <1>2, <1>3, <1>7, <1>8, <1>9, <1>10, PlainStep

\* What every step that moves one or two words within the stack starts from.
LEMMA Moving ==
  ASSUME IInv, status = "run"
  PROVE  /\ TypeOK
         /\ \E fr \in [DOMAIN argc -> Memory] : Nested(fr)
         /\ frame \in Nat /\ sp \in Int /\ frame + 1 <= sp /\ sp < StackSize
<1>1. TypeOK
  BY DEF IInv, FramesChained
<1>2. PICK fr \in [DOMAIN argc -> Memory] : Nested(fr)
  BY DEF IInv, FramesChained, Chained
<1>3. frame \in Memory
  BY <1>1, <1>2, FramesBelow
<1>4. frame + 1 <= sp
  BY <1>2 DEF Nested
<1>5. sp \in Int /\ sp < StackSize
  BY <1>1, StackAssumption DEF TypeOK
<1>6. frame \in Nat
  BY <1>3, StackAssumption DEF Memory
<1> QED
  BY <1>1, <1>2, <1>4, <1>5, <1>6

\* The arguments of a function other than main are words above main's frame.
LEMMA ArgumentsOnStack ==
  ASSUME IInv, status = "run", frame # 0
  PROVE  Last(argc) \in Nat /\ 2 <= frame - Last(argc)
<1>1. TypeOK /\ frame \in Nat
  BY Moving
<1>2. PICK fr \in [DOMAIN argc -> Memory] : Nested(fr)
  BY Moving
<1> DEFINE n == Len(argc)
<1>3. n \in Nat \ {0} /\ DOMAIN argc = 1 .. n
  BY <1>1, <1>2, FramesBelow
<1>4. n # 1
  BY <1>2 DEF Nested
<1>5. n - 1 \in DOMAIN argc /\ n \in DOMAIN argc \ {1}
  BY <1>3, <1>4
<1>6. fr[n - 1] + 2 + argc[n] <= fr[n] /\ fr[n] = frame
  BY <1>2, <1>5 DEF Nested
<1>7. Last(argc) = argc[n] /\ argc[n] \in Nat
  BY <1>1, <1>5 DEF Last, TypeOK
<1>8. fr[n - 1] \in Nat
  BY <1>5, StackAssumption DEF Memory
<1> QED
  BY <1>1, <1>6, <1>7, <1>8

LEMMA LoadLocalKeeps ==
  ASSUME IInv, NEW m \in 1 .. 2, LoadLocal(m) PROVE IInv'
<1>1. status = "run" /\ UNCHANGED <<frame, argc, back>>
  BY DEF LoadLocal
<1>2. PICK w \in Locals(m) : Continue(Write(sp + 1, Read(w, m)), sp + m)
  BY DEF LoadLocal
<1>3. /\ TypeOK
      /\ frame \in Nat /\ sp \in Int /\ frame + 1 <= sp /\ sp < StackSize
  BY <1>1, Moving
<1>4. PICK fr \in [DOMAIN argc -> Memory] : Nested(fr)
  BY <1>1, Moving
<1>5. w \in Int /\ 0 <= w /\ w + m - 1 <= StackSize
  BY <1>3, StackAssumption DEF Locals
<1>6. Read(w, m) \in [1 .. m -> Int]
  BY <1>3, <1>5, ReadWords
<1>7. Misses(fr, sp + 1, m)
  BY <1>3, <1>4, OwnWordsMiss
<1>8. frame + 1 <= sp + m /\ sp + m <= StackSize + 1 /\ sp + m \in Int /\ sp + 1 \in Int
  BY <1>3, StackAssumption
<1> QED
  BY <1>1, <1>2, <1>4, <1>6, <1>7, <1>8, PlainStep

LEMMA LoadArgumentKeeps ==
  ASSUME IInv, NEW m \in 1 .. 2, LoadArgument(m) PROVE IInv'
<1>1. status = "run" /\ frame # 0 /\ UNCHANGED <<frame, argc, back>>
  BY DEF LoadArgument
<1>2. PICK w \in Arguments(m) : Continue(Write(sp + 1, Read(w, m)), sp + m)
  BY DEF LoadArgument
<1>3. /\ TypeOK
      /\ frame \in Nat /\ sp \in Int /\ frame + 1 <= sp /\ sp < StackSize
  BY <1>1, Moving
<1>4. PICK fr \in [DOMAIN argc -> Memory] : Nested(fr)
  BY <1>1, Moving
<1>5. Last(argc) \in Nat /\ 2 <= frame - Last(argc)
  BY <1>1, ArgumentsOnStack
<1>6. w \in Int /\ 0 <= w /\ w + m - 1 <= StackSize
  BY <1>3, <1>5, StackAssumption DEF Arguments
<1>7. Read(w, m) \in [1 .. m -> Int]
  BY <1>3, <1>6, ReadWords
<1>8. Misses(fr, sp + 1, m)
  BY <1>3, <1>4, OwnWordsMiss
<1>9. frame + 1 <= sp + m /\ sp + m <= StackSize + 1 /\ sp + m \in Int /\ sp + 1 \in Int
  BY <1>3, StackAssumption
<1> QED
  BY <1>1, <1>2, <1>4, <1>7, <1>8, <1>9, PlainStep

LEMMA StoreLocalKeeps ==
  ASSUME IInv, NEW m \in 1 .. 2, StoreLocal(m) PROVE IInv'
<1>1. status = "run" /\ Holds(m) /\ UNCHANGED <<frame, argc, back>>
  BY DEF StoreLocal
<1>2. PICK w \in Locals(m) :
         Continue(Write(w, Read(sp - m + 1, m)), sp - m)
  BY DEF StoreLocal
<1>3. /\ TypeOK
      /\ frame \in Nat /\ sp \in Int /\ frame + 1 <= sp /\ sp < StackSize
  BY <1>1, Moving
<1>4. PICK fr \in [DOMAIN argc -> Memory] : Nested(fr)
  BY <1>1, Moving
<1>5. frame + 1 <= sp - m
  BY <1>1, <1>3 DEF Holds
<1>6. Read(sp - m + 1, m) \in [1 .. m -> Int]
  <2> DEFINE v == sp - m + 1
  <2>1. v \in Int /\ m \in Nat /\ 0 <= v /\ v + m - 1 <= StackSize
    BY <1>3, <1>5, StackAssumption
  <2> HIDE DEF v
  <2>2. Read(v, m) \in [1 .. m -> Int]
    BY <1>3, <2>1, ReadWords
  <2> QED
    BY <2>2 DEF v
<1>7. w \in Int /\ frame + 2 <= w
  BY <1>3 DEF Locals
<1>8. Misses(fr, w, m)
  BY <1>3, <1>4, <1>7, OwnWordsMiss
<1>9. sp - m <= StackSize + 1 /\ sp - m \in Int
  BY <1>3, StackAssumption
<1> QED
  BY <1>1, <1>2, <1>4, <1>5, <1>6, <1>7, <1>8, <1>9, PlainStep

LEMMA StoreArgumentKeeps ==
  ASSUME IInv, NEW m \in 1 .. 2, StoreArgument(m) PROVE IInv'
<1>1. status = "run" /\ frame # 0 /\ Holds(m) /\ UNCHANGED <<frame, argc, back>>
  BY DEF StoreArgument
<1>2. PICK w \in Arguments(m) :
         Continue(Write(w, Read(sp - m + 1, m)), sp - m)
  BY DEF StoreArgument
<1>3. /\ TypeOK
      /\ frame \in Nat /\ sp \in Int /\ frame + 1 <= sp /\ sp < StackSize
  BY <1>1, Moving
<1>4. PICK fr \in [DOMAIN argc -> Memory] : Nested(fr)
  BY <1>1, Moving
<1>5. frame + 1 <= sp - m
  BY <1>1, <1>3 DEF Holds
<1>6. Read(sp - m + 1, m) \in [1 .. m -> Int]
  <2> DEFINE v == sp - m + 1
  <2>1. v \in Int /\ m \in Nat /\ 0 <= v /\ v + m - 1 <= StackSize
    BY <1>3, <1>5, StackAssumption
  <2> HIDE DEF v
  <2>2. Read(v, m) \in [1 .. m -> Int]
    BY <1>3, <2>1, ReadWords
  <2> QED
    BY <2>2 DEF v
<1>7. Last(argc) \in Nat
  BY <1>1, ArgumentsOnStack
<1>8. w \in Int /\ frame - Last(argc) <= w /\ w + m - 1 < frame
  BY <1>3, <1>7 DEF Arguments
<1>9. Misses(fr, w, m)
  BY <1>1, <1>3, <1>4, <1>8, ArgumentsMiss
<1>10. sp - m <= StackSize + 1 /\ sp - m \in Int
  BY <1>3, StackAssumption
<1> QED
  BY <1>1, <1>2, <1>4, <1>5, <1>6, <1>8, <1>9, <1>10, PlainStep

\* CALL adds a frame above all others.
LEMMA CallKeeps == ASSUME IInv, Call PROVE IInv'
<1>1. status = "run" /\ frame' = sp + 1 /\ back' = back
  BY DEF Call
<1>2. PICK ret \in Rets : Continue(Framed(ret), sp + 2)
  BY DEF Call
<1>3. PICK k \in 0 .. sp - frame - 1 : argc' = Append(argc, k)
  BY DEF Call
<1>4. /\ TypeOK /\ SentinelsIntact
      /\ frame \in Nat /\ sp \in Int /\ frame + 1 <= sp /\ sp < StackSize
  BY <1>1, Moving DEF IInv, FramesChained
<1>5. PICK fr \in [DOMAIN argc -> Memory] : Nested(fr)
  BY <1>1, Moving
<1> DEFINE n == Len(argc)
           r == <<frame, ret>>
<1>6. /\ n \in Nat \ {0} /\ DOMAIN argc = 1 .. n
      /\ \A i \in DOMAIN argc : fr[i] \in Int /\ fr[i] <= frame
  BY <1>4, <1>5, FramesBelow
<1>7. DOMAIN r = 1 .. 2 /\ r[1] = frame /\ r[2] = ret /\ r \in [1 .. 2 -> Int]
  BY <1>4, StackAssumption
<1>8. Misses(fr, sp + 1, 2)
  BY <1>4, <1>6 DEF Misses
<1>9. Framed(ret) = Write(sp + 1, r)
  BY DEF Framed
<1>10. stk' = Write(sp + 1, r) /\ sp' = sp + 2 /\ status' = Checked(sp + 2)
  BY <1>2, <1>9 DEF Continue
<1> HIDE DEF r
<1>11. /\ stk' \in [Memory -> Int] /\ stk'[0] = AC1D /\ stk'[1] = FACE
       /\ \A i \in DOMAIN argc : stk'[fr[i]] = stk[fr[i]]
  <2>1. sp + 1 \in Int /\ 2 \in Nat
    BY <1>4
  <2>2. /\ Write(sp + 1, r) \in [Memory -> Int]
        /\ Write(sp + 1, r)[0] = AC1D /\ Write(sp + 1, r)[1] = FACE
        /\ \A i \in DOMAIN argc : Write(sp + 1, r)[fr[i]] = stk[fr[i]]
    BY <1>4, <1>5, <1>7, <1>8, <2>1, FramesStay
  <2> QED
    BY <1>10, <2>2
<1>12. stk'[sp + 1] = frame
  <2>1. sp + 1 \in Memory
    BY <1>4, StackAssumption DEF Memory
  <2>2. (sp + 1) - (sp + 1) + 1 = 1 /\ 1 \in 1 .. 2
    BY <1>4
  <2>3. Write(sp + 1, r)[sp + 1] = r[1]
    BY <1>7, <2>1, <2>2, Zenon DEF Write
  <2> QED
    BY <1>7, <1>10, <2>3
<1>13. /\ argc' \in Seq(Nat) /\ argc' # <<>> /\ Len(argc') = n + 1
       /\ DOMAIN argc' = 1 .. n + 1
       /\ \A i \in 1 .. n : argc'[i] = argc[i]
       /\ argc'[n + 1] = k
  <2>1. k \in Nat /\ argc \in Seq(Nat)
    BY <1>3, <1>4 DEF TypeOK
  <2>2. argc' \in Seq(Nat) /\ Len(argc') = n + 1 /\ argc'[n + 1] = k
    BY <1>3, <2>1
  <2>3. \A i \in 1 .. n : argc'[i] = argc[i]
    BY <1>3, <2>1
  <2>4. DOMAIN argc' = 1 .. n + 1
    BY <2>2
  <2> QED
    BY <1>6, <2>2, <2>3, <2>4
<1>14. TypeOK'
  BY <1>1, <1>4, <1>10, <1>11, <1>13, StackAssumption DEF TypeOK, Checked
<1>15. PICK fn \in [DOMAIN argc' -> Memory] :
          fn[n + 1] = sp + 1 /\ \A i \in 1 .. n : fn[i] = fr[i]
  <2> DEFINE top == sp + 1
             f   == [i \in DOMAIN argc' |-> IF i = n + 1 THEN top ELSE fr[i]]
  <2>1. top \in Memory
    BY <1>4, StackAssumption DEF Memory
  <2> HIDE DEF top
  <2>2. \A i \in 1 .. n + 1 : i # n + 1 => i \in DOMAIN argc
    BY <1>6
  <2>3. f \in [DOMAIN argc' -> Memory]
    BY <1>13, <2>1, <2>2
  <2>4. n + 1 \in DOMAIN argc' /\ \A i \in 1 .. n : i \in DOMAIN argc' /\ i # n + 1
    BY <1>6, <1>13
  <2>5. f[n + 1] = top /\ \A i \in 1 .. n : f[i] = fr[i]
    BY <2>4
  <2> QED
    BY <2>3, <2>5 DEF top
<1>16. DOMAIN fn = DOMAIN argc'
  OBVIOUS
<1>17. Nested(fn)'
  <2>1. fn[1] = 0 /\ fn[Len(argc')] = frame' /\ frame' + 1 <= sp'
    <3>1. 1 \in 1 .. n /\ fr[1] = 0
      BY <1>5, <1>6 DEF Nested
    <3>2. frame' + 1 <= sp'
      BY <1>1, <1>4, <1>10
    <3> QED
      BY <1>1, <1>13, <1>15, <3>1, <3>2
  <2>2. ASSUME NEW i \in DOMAIN argc', NEW j \in DOMAIN argc', i < j
        PROVE  fn[i] + 2 <= fn[j]
    <3>1. i \in 1 .. n
      BY <1>6, <1>13, <2>2
    <3>2. CASE j \in 1 .. n
      BY <1>5, <1>15, <2>2, <3>1, <3>2 DEF Nested
    <3>3. CASE j = n + 1
      <4>1. fr[i] \in Int /\ fr[i] <= frame
        BY <1>6, <3>1
      <4> QED
        BY <1>4, <1>15, <3>1, <3>3, <4>1
    <3> QED
      BY <1>6, <1>13, <3>2, <3>3
  <2>3. ASSUME NEW i \in DOMAIN argc' \ {1}
        PROVE  stk'[fn[i]] = fn[i - 1] /\ fn[i - 1] + 2 + argc'[i] <= fn[i]
    <3>1. CASE i \in 1 .. n
      <4>1. i \in DOMAIN argc \ {1} /\ i - 1 \in 1 .. n
        BY <1>6, <3>1
      <4>2. stk[fr[i]] = fr[i - 1] /\ fr[i - 1] + 2 + argc[i] <= fr[i]
        BY <1>5, <4>1 DEF Nested
      <4> QED
        BY <1>11, <1>13, <1>15, <3>1, <4>1, <4>2
    <3>2. CASE i = n + 1
      <4>1. i - 1 = n /\ n \in 1 .. n
        BY <1>6, <3>2
      <4>2. fn[i - 1] = frame /\ fn[i] = sp + 1 /\ argc'[i] = k
        BY <1>5, <1>13, <1>15, <3>2, <4>1 DEF Nested
      <4>3. frame + 2 + k <= sp + 1
        BY <1>4
      <4> QED
        BY <1>12, <4>2, <4>3
    <3> QED
      BY <1>6, <1>13, <3>1, <3>2
  <2> QED
    BY <1>13, <1>16, <2>1, <2>2, <2>3 DEF Nested
<1>18. Chained'
  BY <1>17 DEF Chained
<1> QED
  BY <1>11, <1>14, <1>18 DEF IInv, FramesChained, SentinelsIntact

\* RET drops the topmost frame. It may write over that frame, and over words
\* above the caller's.
LEMMA ReturnKeeps == ASSUME IInv, NEW m \in 0 .. 2, Return(m) PROVE IInv'
<1> DEFINE n   == Len(argc)
           a   == Last(argc)
           top == Returned(a)
           r   == Read(sp - m + 1, m)
<1>1. /\ status = "run" /\ frame # 0 /\ Holds(m)
      /\ Continue(Write(top + 1, r), top + m)
      /\ frame' = stk[frame] /\ argc' = Front(argc) /\ back' = stk[frame + 1]
  BY DEF Return
<1>2. /\ TypeOK /\ SentinelsIntact
      /\ frame \in Nat /\ sp \in Int /\ frame + 1 <= sp /\ sp < StackSize
  BY <1>1, Moving DEF IInv, FramesChained
<1>3. PICK fr \in [DOMAIN argc -> Memory] : Nested(fr)
  BY <1>1, Moving
<1>4. /\ n \in Nat \ {0} /\ DOMAIN argc = 1 .. n
      /\ \A i \in DOMAIN argc : fr[i] \in Int
  BY <1>2, <1>3, FramesBelow
<1>5. n # 1
  BY <1>1, <1>3 DEF Nested
<1>6. n - 1 \in 1 .. n /\ n \in DOMAIN argc \ {1} /\ n \in 1 .. n /\ 1 \in 1 .. n - 1
  BY <1>4, <1>5
<1>7. a = argc[n] /\ a \in Nat
  BY <1>2, <1>4, <1>6 DEF Last, TypeOK
<1>8. stk[frame] = fr[n - 1] /\ fr[n - 1] + 2 + a <= frame
  BY <1>3, <1>6, <1>7 DEF Nested
<1>9. top = frame - a - 1 /\ top \in Int /\ fr[n - 1] + 1 <= top
  <2>1. fr[n - 1] \in Int
    BY <1>4, <1>6
  <2>2. top = frame - a - 1
    BY DEF Returned
  <2> HIDE DEF top, a, n
  <2> QED
    BY <1>2, <1>7, <1>8, <2>1, <2>2
<1>10. sp - m >= frame + 1
  BY <1>1 DEF Holds
<1> HIDE DEF n, a, top
<1>11. r \in [1 .. m -> Int]
  <2> DEFINE v == sp - m + 1
  <2>1. v \in Int /\ m \in Nat /\ 0 <= v /\ v + m - 1 <= StackSize
    BY <1>2, <1>10, StackAssumption
  <2> HIDE DEF v
  <2>2. Read(v, m) \in [1 .. m -> Int]
    BY <1>2, <2>1, ReadWords
  <2> QED
    BY <2>2 DEF v
<1> HIDE DEF r
<1>12. /\ stk' = Write(top + 1, r) /\ sp' = top + m /\ status' = Checked(top + m)
  BY <1>1 DEF Continue
<1>13. /\ stk' \in [Memory -> Int]
       /\ \A f \in Memory : f < top + 1 => stk'[f] = stk[f]
  <2>1. top + 1 \in Int /\ m \in Nat
    BY <1>9
  <2>2. /\ Write(top + 1, r) \in [Memory -> Int]
        /\ \A f \in Memory : (f < top + 1 \/ top + 1 + m - 1 < f)
                              => Write(top + 1, r)[f] = stk[f]
    BY <1>2, <1>11, <2>1, WriteMisses
  <2> QED
    BY <1>12, <2>2
<1>14. \A i \in 1 .. n - 1 : /\ i \in DOMAIN argc /\ i # n
                             /\ fr[i] \in Memory /\ fr[i] < top + 1
  <2> SUFFICES ASSUME NEW i \in 1 .. n - 1
               PROVE  i \in DOMAIN argc /\ i # n /\ fr[i] \in Memory /\ fr[i] < top + 1
    OBVIOUS
  <2>1. i \in DOMAIN argc /\ i # n /\ n - 1 \in DOMAIN argc
    BY <1>4, <1>6
  <2>2. fr[i] <= fr[n - 1]
    <3>1. CASE i = n - 1
      BY <1>4, <2>1, <3>1
    <3>2. CASE i # n - 1
      <4>1. i < n - 1
        BY <1>4, <3>2
      <4>2. fr[i] + 2 <= fr[n - 1]
        BY <1>3, <2>1, <4>1 DEF Nested
      <4> QED
        BY <1>4, <2>1, <4>2
    <3> QED
      BY <3>1, <3>2
  <2> QED
    BY <1>4, <1>9, <2>1, <2>2
<1>15. /\ argc' \in Seq(Nat) /\ argc' # <<>> /\ Len(argc') = n - 1
       /\ DOMAIN argc' = 1 .. n - 1
       /\ \A i \in 1 .. n - 1 : argc'[i] = argc[i]
  <2>1. argc' = SubSeq(argc, 1, n - 1)
    BY <1>1 DEF Front, n
  <2>2. argc \in Seq(Nat) /\ n = Len(argc) /\ n - 1 \in Nat /\ n - 1 <= Len(argc)
    BY <1>2, <1>4 DEF TypeOK, n
  <2>3. argc' \in Seq(Nat) /\ Len(argc') = n - 1
    BY <2>1, <2>2
  <2>4. \A i \in 1 .. n - 1 : argc'[i] = argc[i]
    BY <2>1, <2>2
  <2>5. DOMAIN argc' = 1 .. n - 1
    BY <2>3
  <2> QED
    BY <1>6, <2>3, <2>4, <2>5
<1>16. TypeOK'
  <2>1. sp' \in -1 .. StackSize + 1
    <3>1. top + m <= sp /\ 0 <= top + m
      <4>1. fr[n - 1] \in Memory /\ fr[n - 1] \in Nat
        BY <1>4, <1>6, StackAssumption DEF Memory
      <4> QED
        BY <1>2, <1>7, <1>9, <1>10, <4>1
    <3> QED
      BY <1>2, <1>9, <1>12, <3>1, StackAssumption
  <2>2. back' \in Int
    <3>1. frame + 1 \in Memory
      BY <1>2, StackAssumption DEF Memory
    <3> QED
      BY <1>1, <1>2, <3>1 DEF TypeOK
  <2>3. (status' = "run" => sp' < StackSize) /\ status' \in {"run", "exit", "overflow"}
    BY <1>9, <1>12, <2>1, StackAssumption DEF Checked
  <2> QED
    BY <1>13, <1>15, <2>1, <2>2, <2>3 DEF TypeOK
<1>17. SentinelsIntact'
  <2>1. fr[1] = 0
    BY <1>3 DEF Nested
  <2>2. fr[1] <= fr[n - 1]
    <3>1. CASE n - 1 = 1
      BY <1>4, <1>6, <3>1
    <3>2. CASE n - 1 # 1
      <4>1. 1 < n - 1 /\ 1 \in DOMAIN argc /\ n - 1 \in DOMAIN argc
        BY <1>4, <1>6, <3>2
      <4>2. fr[1] + 2 <= fr[n - 1]
        BY <1>3, <4>1 DEF Nested
      <4> QED
        BY <1>4, <4>1, <4>2
    <3> QED
      BY <3>1, <3>2
  <2>3. 0 < top + 1 /\ 1 < top + 1
    BY <1>4, <1>6, <1>9, <2>1, <2>2
  <2>4. 0 \in Memory /\ 1 \in Memory
    BY StackAssumption DEF Memory
  <2> QED
    BY <1>2, <1>13, <2>3, <2>4 DEF SentinelsIntact
<1>18. PICK fn \in [DOMAIN argc' -> Memory] : \A i \in 1 .. n - 1 : fn[i] = fr[i]
  <2> DEFINE f == [i \in DOMAIN argc' |-> fr[i]]
  <2>1. f \in [DOMAIN argc' -> Memory]
    BY <1>14, <1>15
  <2>2. \A i \in 1 .. n - 1 : f[i] = fr[i]
    BY <1>15
  <2> QED
    BY <2>1, <2>2
<1>19. Nested(fn)'
  <2>1. fn[1] = 0 /\ fn[Len(argc')] = frame'
    <3>1. fr[1] = 0 /\ n - 1 \in 1 .. n - 1
      BY <1>3, <1>4, <1>6 DEF Nested
    <3> QED
      BY <1>1, <1>6, <1>8, <1>15, <1>18, <3>1
  <2>2. frame' + 1 <= sp'
    BY <1>1, <1>4, <1>6, <1>8, <1>9, <1>12, SMTT(30)
  <2>3. ASSUME NEW i \in DOMAIN argc', NEW j \in DOMAIN argc', i < j
        PROVE  fn[i] + 2 <= fn[j]
    <3>1. i \in DOMAIN argc /\ j \in DOMAIN argc /\ fn[i] = fr[i] /\ fn[j] = fr[j]
      BY <1>14, <1>15, <1>18
    <3> QED
      BY <1>3, <2>3, <3>1 DEF Nested
  <2>4. ASSUME NEW i \in DOMAIN argc' \ {1}
        PROVE  stk'[fn[i]] = fn[i - 1] /\ fn[i - 1] + 2 + argc'[i] <= fn[i]
    <3>1. i \in 1 .. n - 1 /\ i - 1 \in 1 .. n - 1
      BY <1>4, <1>15
    <3>2. i \in DOMAIN argc \ {1} /\ stk'[fr[i]] = stk[fr[i]]
      BY <1>13, <1>14, <3>1
    <3>3. stk[fr[i]] = fr[i - 1] /\ fr[i - 1] + 2 + argc[i] <= fr[i]
      BY <1>3, <3>2 DEF Nested
    <3> QED
      BY <1>15, <1>18, <3>1, <3>2, <3>3
  <2>5. DOMAIN fn = DOMAIN argc'
    OBVIOUS
  <2> QED
    BY <1>15, <2>1, <2>2, <2>3, <2>4, <2>5 DEF Nested
<1>20. Chained'
  BY <1>19 DEF Chained
<1> QED
  BY <1>16, <1>17, <1>20 DEF IInv, FramesChained

\* Leaving the loop changes no word.
LEMMA EndKeeps == ASSUME IInv, MainReturns \/ Exit PROVE IInv'
<1>1. CASE MainReturns
  <2>1. TypeOK /\ status = "run" /\ frame = 0
    BY <1>1 DEF MainReturns, IInv, FramesChained
  <2>2. back' = stk[1] /\ sp' = -1 /\ UNCHANGED <<stk, argc>> /\ status' = "exit"
    BY <1>1, <2>1 DEF MainReturns, Returned
  <2>3. stk[1] \in Int
    BY <2>1, StackAssumption DEF TypeOK, Memory
  <2> QED
    BY <2>1, <2>2, <2>3, StackAssumption DEF IInv, FramesChained, TypeOK, SentinelsIntact
<1>2. CASE Exit
  BY <1>2 DEF Exit, IInv, FramesChained, TypeOK, SentinelsIntact
<1> QED
  BY <1>1, <1>2

LEMMA RerunKeeps == ASSUME RerunsFromMain, IInv, Rerun PROVE IInv'
<1>1. frame = 0 /\ frame' = 0 /\ back' = back
  BY DEF Rerun, RerunsFromMain
<1>2. /\ stk' = [stk EXCEPT ![0] = AC1D, ![1] = FACE]
      /\ sp' = 1 /\ argc' = <<0>> /\ status' = "run"
  BY DEF Rerun
<1>3. 0 \in Memory /\ 1 \in Memory /\ stk \in [Memory -> Int] /\ back \in Int
  BY StackAssumption DEF Memory, IInv, TypeOK
<1>4. stk' \in [Memory -> Int] /\ stk'[0] = AC1D /\ stk'[1] = FACE
  BY <1>2, <1>3 DEF AC1D, FACE
<1>5. argc' \in Seq(Nat) /\ Len(argc') = 1 /\ DOMAIN argc' = {1} /\ argc' # <<>>
  BY <1>2
<1>6. TypeOK'
  BY <1>1, <1>2, <1>3, <1>4, <1>5, StackAssumption DEF TypeOK
<1>7. PICK fn \in [DOMAIN argc' -> Memory] : fn[1] = 0
  <2> DEFINE f == [i \in DOMAIN argc' |-> 0]
  <2>1. f \in [DOMAIN argc' -> Memory] /\ f[1] = 0
    BY <1>3, <1>5
  <2> QED
    BY <2>1
<1>8. Nested(fn)'
  BY <1>1, <1>2, <1>5, <1>7 DEF Nested
<1>9. Chained'
  BY <1>8 DEF Chained
<1> QED
  BY <1>4, <1>6, <1>9 DEF IInv, FramesChained, SentinelsIntact

LEMMA NextIInv == ASSUME RerunsFromMain, IInv, [Next]_vars PROVE IInv'
<1>1. CASE \E a \in Arity : Operate(a)
  BY <1>1, OperateKeeps
<1>2. CASE \E m \in 1 .. 2 : \/ LoadLocal(m) \/ LoadArgument(m)
                            \/ StoreLocal(m) \/ StoreArgument(m)
  BY <1>2, LoadLocalKeeps, LoadArgumentKeeps, StoreLocalKeeps, StoreArgumentKeeps
<1>3. CASE Call
  BY <1>3, CallKeeps
<1>4. CASE \E m \in 0 .. 2 : Return(m)
  BY <1>4, ReturnKeeps
<1>5. CASE MainReturns \/ Exit
  BY <1>5, EndKeeps
<1>6. CASE Rerun
  BY <1>6, RerunKeeps
<1>7. CASE UNCHANGED vars
  BY <1>7 DEF vars, IInv, FramesChained, TypeOK, SentinelsIntact, Chained, Nested
<1> QED
  BY <1>1, <1>2, <1>3, <1>4, <1>5, <1>6, <1>7 DEF Next

\* Whatever a guest that keeps to its words calls, stores and returns (CALL,
\* RET, STL, STA of stack_impl.h), the state is typed, every RET finds the frame
\* its CALL left, and the two words main checks at the end are intact.
THEOREM StackIntact ==
  ASSUME RerunsFromMain PROVE Spec => [](TypeOK /\ FramesChained /\ SentinelsIntact)
<1>1. Init => IInv
  BY InitIInv
<1>2. IInv /\ [Next]_vars => IInv'
  BY NextIInv
<1>3. IInv => TypeOK /\ FramesChained /\ SentinelsIntact
  BY DEF IInv
<1> QED
  BY <1>1, <1>2, <1>3, PTL DEF Spec
=============================================================================
