------------------------ MODULE CallStackRefinement ------------------------
(***************************************************************************)
(* The frames that FramesTo finds in the stack of StackVM are those of the *)
(* active functions, and the steps of the stack are steps of CallStack, for *)
(* every size of the stack and every guest that keeps to its words.        *)
(***************************************************************************)
EXTENDS StackVMProofs, SequenceProofs

----------------------------------------------------------------------------
(* Part 1: the frames found are the frames there are.                      *)

\* The equation FramesTo solves, for the stack s.
Followed(g, s, f) ==
    IF f = 0 \/ s[f] \notin 0 .. f - 1 THEN <<f>> ELSE Append(g[s[f]], f)
Chain(s) == CHOOSE g : g = [f \in Memory |-> Followed(g, s, f)]

LEMMA FramesToIsChain == FramesTo = Chain(stk) /\ FramesTo' = Chain(stk')
BY DEF FramesTo, Chain, Followed

\* The equation has a solution on the words up to n, whatever n.
LEMMA ChainUpTo ==
  ASSUME NEW s \in [Memory -> Int], NEW n \in Nat, n <= StackSize + 1
  PROVE  \E g \in [0 .. n -> Seq(Nat)] : \A f \in 0 .. n : g[f] = Followed(g, s, f)
<1> DEFINE Solves(g, k) == \A f \in 0 .. k : g[f] = Followed(g, s, f)
           Solvable(k) == k <= StackSize + 1 => \E g \in [0 .. k -> Seq(Nat)] : Solves(g, k)
           S == {k \in Nat : Solvable(k)}
<1>1. Solvable(0)
  <2> DEFINE g == [f \in 0 .. 0 |-> <<f>>]
  <2>1. g \in [0 .. 0 -> Seq(Nat)] /\ Solves(g, 0)
    BY DEF Followed
  <2> QED
    BY <2>1
<1>2. ASSUME NEW k \in Nat, Solvable(k)
      PROVE  Solvable(k + 1)
  <2> SUFFICES ASSUME k + 1 <= StackSize + 1
               PROVE  \E h \in [0 .. k + 1 -> Seq(Nat)] : Solves(h, k + 1)
    OBVIOUS
  <2>1. PICK g \in [0 .. k -> Seq(Nat)] : Solves(g, k)
    BY <1>2, StackAssumption, SMTT(30)
  <2> DEFINE h == [f \in 0 .. k + 1 |-> IF f = k + 1 THEN Followed(g, s, f) ELSE g[f]]
  <2>2. Followed(g, s, k + 1) \in Seq(Nat)
    <3>1. CASE s[k + 1] \in 0 .. k
      <4>1. g[s[k + 1]] \in Seq(Nat) /\ k + 1 \in Nat
        BY <3>1
      <4>2. Append(g[s[k + 1]], k + 1) \in Seq(Nat)
        BY <4>1, AppendProperties
      <4> QED
        BY <3>1, <4>2 DEF Followed
    <3>2. CASE s[k + 1] \notin 0 .. k
      BY <3>2 DEF Followed
    <3> QED
      BY <3>1, <3>2
  <2>3. h \in [0 .. k + 1 -> Seq(Nat)] /\ \A f \in 0 .. k : h[f] = g[f]
    BY <2>2
  <2>4. h[k + 1] = Followed(g, s, k + 1)
    OBVIOUS
  <2> HIDE DEF h
  <2>5. ASSUME NEW f \in 0 .. k + 1 PROVE Followed(h, s, f) = Followed(g, s, f)
    BY <2>3, <2>5 DEF Followed
  <2>6. ASSUME NEW f \in 0 .. k + 1 PROVE h[f] = Followed(h, s, f)
    <3>1. CASE f = k + 1
      BY <2>4, <2>5, <3>1
    <3>2. CASE f # k + 1
      <4>1. f \in 0 .. k
        BY <3>2
      <4> QED
        BY <2>1, <2>3, <2>5, <4>1
    <3> QED
      BY <3>1, <3>2
  <2> QED
    BY <2>3, <2>6
<1> HIDE DEF Solvable
<1>3. 0 \in S /\ \A k \in Nat : k \in S => k + 1 \in S
  BY <1>1, <1>2
<1> HIDE DEF S
<1>4. n \in S
  BY <1>3, SetInduction
<1> QED
  BY <1>4 DEF S, Solvable

\* So FramesTo does what its recursive equation says.
LEMMA ChainFollows ==
  ASSUME NEW s \in [Memory -> Int], NEW f \in Memory
  PROVE  Chain(s)[f] = Followed(Chain(s), s, f)
<1> DEFINE top == StackSize + 1
<1>0. top \in Nat /\ top <= StackSize + 1 /\ Memory = 0 .. top
  BY StackAssumption DEF Memory
<1> HIDE DEF top
<1>1. PICK g \in [0 .. top -> Seq(Nat)] : \A w \in 0 .. top : g[w] = Followed(g, s, w)
  BY <1>0, ChainUpTo
<1>2. g = [w \in Memory |-> Followed(g, s, w)]
  BY <1>0, <1>1
<1>3. Chain(s) = [w \in Memory |-> Followed(Chain(s), s, w)]
  BY <1>2 DEF Chain
<1> QED
  BY <1>3

\* The saved frames in the stack s lead from the last of fr down to main's.
LeadUp(s, n, fr) ==
    /\ fr \in [1 .. n -> Memory]
    /\ fr[1] = 0
    /\ \A i \in 2 .. n : s[fr[i]] = fr[i - 1] /\ fr[i - 1] < fr[i]

\* A list of frames that leads up from main's is found from its last.
LEMMA ChainFinds ==
  ASSUME NEW s \in [Memory -> Int], NEW n \in Nat \ {0}, NEW fr, LeadUp(s, n, fr)
  PROVE  Chain(s)[fr[n]] = fr
<1> USE DEF LeadUp
<1> DEFINE Upto(i) == [k \in 1 .. i |-> fr[k]]
           Finds(i) == i + 1 <= n => Chain(s)[fr[i + 1]] = Upto(i + 1)
           S == {i \in Nat : Finds(i)}
<1>0. Memory \subseteq Nat
  BY StackAssumption DEF Memory
<1>1. Finds(0)
  <2>1. Chain(s)[fr[1]] = <<0>>
    <3>1. 0 \in Memory
      BY StackAssumption DEF Memory
    <3>2. Chain(s)[0] = Followed(Chain(s), s, 0)
      BY <3>1, ChainFollows
    <3> QED
      BY <3>2 DEF Followed
  <2>2. Upto(1) = <<0>>
    OBVIOUS
  <2>3. 0 + 1 = 1
    OBVIOUS
  <2> HIDE DEF Upto
  <2> QED
    BY <2>1, <2>2, <2>3
<1>2. ASSUME NEW i \in Nat, Finds(i), i + 2 <= n
      PROVE  Chain(s)[fr[i + 2]] = Upto(i + 2)
  <2>1. i + 1 \in 1 .. n /\ i + 2 \in 2 .. n /\ i + 2 \in 1 .. n
    BY <1>2
  <2>2. s[fr[i + 2]] = fr[i + 1] /\ fr[i + 1] < fr[i + 2]
    BY <2>1
  <2>3. fr[i + 1] \in Nat /\ fr[i + 2] \in Nat /\ fr[i + 2] \in Memory
    BY <1>0, <2>1
  <2>4. Chain(s)[fr[i + 2]] = Append(Chain(s)[fr[i + 1]], fr[i + 2])
    <3>1. Chain(s)[fr[i + 2]] = Followed(Chain(s), s, fr[i + 2])
      BY <2>3, ChainFollows
    <3>2. fr[i + 2] # 0 /\ s[fr[i + 2]] \in 0 .. fr[i + 2] - 1
      BY <2>2, <2>3
    <3> QED
      BY <2>2, <3>1, <3>2 DEF Followed
  <2>5. Chain(s)[fr[i + 1]] = Upto(i + 1)
    BY <1>2, <2>1
  <2>6. Append(Upto(i + 1), fr[i + 2]) = Upto(i + 2)
    <3>0. i + 1 \in Nat /\ i + 2 \in Nat /\ \A k \in 1 .. i + 2 : fr[k] \in Nat
      <4>1. i + 1 \in Nat /\ i + 2 \in Nat /\ \A k \in 1 .. i + 2 : k \in 1 .. n
        BY <1>2
      <4> QED
        BY <1>0, <4>1
    <3>1. Upto(i + 1) \in Seq(Nat) /\ Len(Upto(i + 1)) = i + 1
      BY <3>0
    <3>2. Upto(i + 2) \in Seq(Nat)
      BY <3>0
    <3>5. Append(Upto(i + 1), fr[i + 2]) \in Seq(Nat)
      <4> HIDE DEF Upto
      <4> QED
        BY <2>3, <3>1, AppendProperties
    <3>3. \A k \in 1 .. i + 2 : Append(Upto(i + 1), fr[i + 2])[k] = Upto(i + 2)[k]
      BY <2>3, <3>1
    <3>4. Len(Append(Upto(i + 1), fr[i + 2])) = i + 2 /\ Len(Upto(i + 2)) = i + 2
      BY <1>2, <2>3, <3>1
    <3> HIDE DEF Upto
    <3> QED
      BY <3>2, <3>3, <3>4, <3>5, SeqEqual
  <2> QED
    BY <2>4, <2>5, <2>6
<1>3. ASSUME NEW i \in Nat, Finds(i) PROVE Finds(i + 1)
  <2> SUFFICES ASSUME i + 1 + 1 <= n
               PROVE  Chain(s)[fr[i + 1 + 1]] = Upto(i + 1 + 1)
    OBVIOUS
  <2>1. i + 1 + 1 = i + 2
    OBVIOUS
  <2> HIDE DEF Upto, Finds
  <2>2. Chain(s)[fr[i + 2]] = Upto(i + 2)
    BY <1>2, <1>3, <2>1
  <2> QED
    BY <2>1, <2>2
<1>4. Finds(n - 1)
  <2> HIDE DEF Finds
  <2>1. 0 \in S /\ \A i \in Nat : i \in S => i + 1 \in S
    BY <1>1, <1>3
  <2> HIDE DEF S
  <2>2. Nat \subseteq S
    BY <2>1, SetInduction
  <2>3. n - 1 \in Nat
    OBVIOUS
  <2> QED
    BY <2>2, <2>3 DEF S
<1>5. Upto(n) = fr
  OBVIOUS
<1>6. n - 1 + 1 = n
  OBVIOUS
<1> HIDE DEF Upto
<1> QED
  BY <1>4, <1>5, <1>6

\* The frames found from the current one are the frames there are.
LEMMA FoundFrames ==
  ASSUME TypeOK, NEW fr \in [DOMAIN argc -> Memory], Nested(fr)
  PROVE  FramesTo[frame] = fr
<1>1. Len(argc) \in Nat \ {0} /\ DOMAIN argc = 1 .. Len(argc)
  BY FramesBelow
<1>2. \A i \in 2 .. Len(argc) : stk[fr[i]] = fr[i - 1] /\ fr[i - 1] < fr[i]
  <2> SUFFICES ASSUME NEW i \in 2 .. Len(argc)
               PROVE  stk[fr[i]] = fr[i - 1] /\ fr[i - 1] < fr[i]
    OBVIOUS
  <2>1. i \in DOMAIN argc \ {1} /\ i - 1 \in DOMAIN argc /\ i \in DOMAIN argc /\ i - 1 < i
    BY <1>1
  <2>2. fr[i - 1] \in Int /\ fr[i] \in Int
    BY <2>1, FramesBelow
  <2>3. stk[fr[i]] = fr[i - 1] /\ fr[i - 1] + 2 <= fr[i]
    BY <2>1 DEF Nested
  <2> QED
    BY <2>2, <2>3
<1>3. stk \in [Memory -> Int] /\ fr[1] = 0 /\ fr[Len(argc)] = frame
  BY DEF TypeOK, Nested
<1> DEFINE n == Len(argc)
<1>4. Chain(stk)[fr[n]] = fr
  <2>1. n \in Nat \ {0} /\ LeadUp(stk, n, fr)
    BY <1>1, <1>2, <1>3 DEF LeadUp
  <2> HIDE DEF n
  <2> QED
    BY <1>3, <2>1, ChainFinds
<1> QED
  BY <1>3, <1>4, FramesToIsChain

\* Whatever a guest that keeps to its words does, following the saved frames
\* leads from the current one down to main's: every RET (shared_impl.h) will
\* find the frame its CALL left.
THEOREM StackFrames == ASSUME RerunsFromMain PROVE Spec => []FramesNested
<1>1. IInv => FramesNested
  <2> SUFFICES ASSUME IInv, status = "run"
               PROVE  frame \in Memory /\ Nested(FramesTo[frame])
    BY DEF FramesNested
  <2>1. PICK fr \in [DOMAIN argc -> Memory] : Nested(fr)
    BY DEF IInv, FramesChained, Chained
  <2>2. TypeOK
    BY DEF IInv
  <2> QED
    BY <2>1, <2>2, FoundFrames, FramesBelow
<1> QED
  BY <1>1, InitIInv, NextIInv, PTL DEF Spec

----------------------------------------------------------------------------
(* Part 2: words on the stack, as sequences.                               *)

\* The words lo .. hi of the stack s.
WordsOf(s, lo, hi) == [k \in 1 .. hi - lo + 1 |-> s[lo + k - 1]]

\* lo .. hi are words of the stack, or none, next to lo.
Span(lo, hi) == lo \in Nat /\ hi \in Int /\ lo <= hi + 1 /\ hi <= StackSize + 1

\* t are the words lo .. hi of s.
AreWords(t, s, lo, hi) ==
    /\ t \in Seq(Int) /\ Len(t) = hi - lo + 1
    /\ \A k \in 1 .. hi - lo + 1 : t[k] = s[lo + k - 1]

LEMMA WordsType ==
  ASSUME NEW s \in [Memory -> Int], NEW lo, NEW hi, Span(lo, hi)
  PROVE  AreWords(WordsOf(s, lo, hi), s, lo, hi)
<1> DEFINE l == hi - lo + 1
<1>1. l \in Nat
  BY DEF Span
<1>2. \A k \in 1 .. l : lo + k - 1 \in Memory
  BY StackAssumption DEF Span, Memory
<1>3. \A k \in 1 .. l : s[lo + k - 1] \in Int
  BY <1>2
<1>4. WordsOf(s, lo, hi) = [k \in 1 .. l |-> s[lo + k - 1]]
  BY DEF WordsOf
<1> HIDE DEF l
<1>5. WordsOf(s, lo, hi) \in Seq(Int) /\ Len(WordsOf(s, lo, hi)) = l
  BY <1>1, <1>3, <1>4
<1> QED
  BY <1>4, <1>5 DEF l, AreWords

\* A part of them.
LEMMA WordsPart ==
  ASSUME NEW s \in [Memory -> Int], NEW lo, NEW hi, Span(lo, hi),
         NEW i \in Int, NEW j \in Int, 1 <= i, i <= j + 1, j <= hi - lo + 1
  PROVE  SubSeq(WordsOf(s, lo, hi), i, j) = WordsOf(s, lo + i - 1, lo + j - 1)
<1> DEFINE t == WordsOf(s, lo, hi)
           lo2 == lo + i - 1
           hi2 == lo + j - 1
<1>1. AreWords(t, s, lo, hi)
  BY WordsType
<1>2. Span(lo2, hi2) /\ hi2 - lo2 + 1 = j - i + 1
  <2>1. lo \in Nat /\ hi \in Int /\ hi <= StackSize + 1 /\ StackSize \in Nat
    BY StackAssumption DEF Span
  <2>2. lo2 \in Nat /\ hi2 \in Int /\ hi2 <= hi /\ lo2 <= hi2 + 1
    BY <2>1
  <2> QED
    BY <2>1, <2>2 DEF Span
<1> HIDE DEF t
<1> USE DEF AreWords
<1>3. \A k \in i .. j : t[k] \in Int
  BY <1>1 DEF Span
<1>4. /\ SubSeq(t, i, j) \in Seq(Int) /\ Len(SubSeq(t, i, j)) = j - i + 1
      /\ \A k \in 1 .. j - i + 1 : SubSeq(t, i, j)[k] = t[i + k - 1]
  BY <1>3, SubSeqProperties
<1> HIDE DEF lo2, hi2
<1> HIDE DEF AreWords
<1> DEFINE u == WordsOf(s, lo2, hi2)
<1>5. AreWords(u, s, lo2, hi2)
  BY <1>2, WordsType
<1> HIDE DEF u
<1>8. /\ u \in Seq(Int) /\ Len(u) = j - i + 1
      /\ \A k \in 1 .. j - i + 1 : u[k] = s[lo2 + k - 1]
  BY <1>2, <1>5, Zenon DEF AreWords
<1> USE DEF AreWords
<1>6. ASSUME NEW k \in 1 .. j - i + 1
      PROVE  SubSeq(t, i, j)[k] = u[k]
  <2>1. i + k - 1 \in 1 .. hi - lo + 1 /\ lo + (i + k - 1) - 1 = lo2 + k - 1
    BY DEF lo2, Span
  <2> QED
    BY <1>1, <1>4, <1>8, <2>1
<1>7. SubSeq(t, i, j) = u
  BY <1>4, <1>8, <1>6, SeqEqual
<1> QED
  BY <1>7 DEF t, u, lo2, hi2

\* In s2 the words r are put behind the words lo .. mid of s.
Joined(s, s2, lo, mid, r, hi) ==
    /\ s \in [Memory -> Int] /\ s2 \in [Memory -> Int] /\ r \in Seq(Int)
    /\ Span(lo, mid) /\ Span(lo, hi) /\ hi = mid + Len(r)
    /\ \A x \in lo .. mid : s2[x] = s[x]
    /\ \A k \in 1 .. Len(r) : s2[mid + k] = r[k]

LEMMA WordsJoined ==
  ASSUME NEW s, NEW s2, NEW lo, NEW mid, NEW r, NEW hi,
         Joined(s, s2, lo, mid, r, hi)
  PROVE  WordsOf(s, lo, mid) \o r = WordsOf(s2, lo, hi)
<1>0. /\ s \in [Memory -> Int] /\ s2 \in [Memory -> Int] /\ r \in Seq(Int)
      /\ Span(lo, mid) /\ Span(lo, hi) /\ hi = mid + Len(r)
  BY DEF Joined
<1> DEFINE a == WordsOf(s, lo, mid)
           b == WordsOf(s2, lo, hi)
<1>1. AreWords(a, s, lo, mid)
  BY <1>0, WordsType
<1>2. AreWords(b, s2, lo, hi)
  BY <1>0, WordsType
<1> HIDE DEF a, b
<1> USE DEF AreWords
<1>3. /\ Len(r) \in Nat /\ lo \in Nat /\ mid \in Int /\ lo <= mid + 1
      /\ hi = mid + Len(r) /\ r \in Seq(Int)
  BY <1>0 DEF Span
<1>4. /\ a \o r \in Seq(Int) /\ Len(a \o r) = Len(a) + Len(r)
      /\ \A k \in 1 .. Len(a) + Len(r) :
            (a \o r)[k] = IF k <= Len(a) THEN a[k] ELSE r[k - Len(a)]
  BY <1>1, <1>3, ConcatProperties
<1>5. ASSUME NEW k \in 1 .. hi - lo + 1 PROVE (a \o r)[k] = b[k]
  <2>1. CASE k <= mid - lo + 1
    <3>1. lo + k - 1 \in lo .. mid /\ k \in 1 .. mid - lo + 1 /\ k \in 1 .. Len(a) + Len(r)
      BY <1>1, <1>3, <2>1
    <3> QED
      BY <1>1, <1>2, <1>4, <2>1, <3>1 DEF Joined
  <2>2. CASE ~(k <= mid - lo + 1)
    <3> DEFINE j == k - (mid - lo + 1)
    <3>1. j \in 1 .. Len(r) /\ lo + k - 1 = mid + j /\ k \in 1 .. Len(a) + Len(r)
      BY <1>1, <1>3, <2>2
    <3>2. (a \o r)[k] = r[j]
      BY <1>1, <1>4, <2>2, <3>1
    <3>3. b[k] = s2[mid + j]
      BY <1>2, <3>1
    <3> HIDE DEF j
    <3> QED
      BY <3>1, <3>2, <3>3 DEF Joined
  <2> QED
    BY <2>1, <2>2
<1>6. Len(a \o r) = hi - lo + 1
  BY <1>1, <1>3, <1>4
<1>7. a \o r = b
  BY <1>2, <1>4, <1>5, <1>6, SeqEqual
<1> QED
  BY <1>7 DEF a, b

\* In s2 the words r are put over some of the words lo .. hi of s, from word w.
Over(s, s2, lo, hi, w, r) ==
    /\ s \in [Memory -> Int] /\ s2 \in [Memory -> Int] /\ r \in Seq(Int)
    /\ Span(lo, hi) /\ w \in Int
    /\ lo <= w /\ w + Len(r) - 1 <= hi
    /\ \A x \in lo .. hi : ~(w <= x /\ x <= w + Len(r) - 1) => s2[x] = s[x]
    /\ \A k \in 1 .. Len(r) : s2[w + k - 1] = r[k]

LEMMA WordsOver ==
  ASSUME NEW s, NEW s2, NEW lo, NEW hi, NEW r, NEW w, Over(s, s2, lo, hi, w, r),
         NEW e, e = w - lo + 1
  PROVE  Calls!Overwritten(WordsOf(s, lo, hi), e, r) = WordsOf(s2, lo, hi)
<1>0. /\ s \in [Memory -> Int] /\ s2 \in [Memory -> Int] /\ r \in Seq(Int)
      /\ Span(lo, hi) /\ w \in Int
  BY DEF Over
<1> DEFINE a == WordsOf(s, lo, hi)
           b == WordsOf(s2, lo, hi)
           i == w - lo + 1
           l == hi - lo + 1
<1>1. AreWords(a, s, lo, hi)
  BY <1>0, WordsType
<1>2. AreWords(b, s2, lo, hi)
  BY <1>0, WordsType
<1>3. Len(r) \in Nat /\ lo \in Nat /\ hi \in Int /\ i \in Int /\ l \in Nat
  BY <1>0 DEF Span
<1> HIDE DEF a, b
<1> USE DEF AreWords
<1>4. DOMAIN a = 1 .. l /\ DOMAIN b = 1 .. l
  BY <1>1, <1>2
<1> DEFINE o == Calls!Overwritten(a, i, r)
<1>5. o = [j \in 1 .. l |-> IF j \in i .. i + Len(r) - 1 THEN r[j - i + 1] ELSE a[j]]
  BY <1>4 DEF Calls!Overwritten
<1> HIDE DEF o
<1>6. ASSUME NEW k \in 1 .. l PROVE o[k] = b[k]
  <2>1. CASE k \in i .. i + Len(r) - 1
    <3>1. k - i + 1 \in 1 .. Len(r) /\ lo + k - 1 = w + (k - i + 1) - 1
      BY <1>3, <2>1 DEF Over
    <3>2. s2[w + (k - i + 1) - 1] = r[k - i + 1]
      BY <3>1 DEF Over
    <3> QED
      BY <1>2, <1>5, <2>1, <3>1, <3>2
  <2>2. CASE k \notin i .. i + Len(r) - 1
    <3>1. lo + k - 1 \in lo .. hi /\ ~(w <= lo + k - 1 /\ lo + k - 1 <= w + Len(r) - 1)
      BY <1>0, <1>3, <2>2
    <3> QED
      BY <1>1, <1>2, <1>5, <2>2, <3>1 DEF Over
  <2> QED
    BY <2>1, <2>2
<1>7. o = b
  <2>1. b = [j \in 1 .. l |-> b[j]]
    BY <1>2, <1>4
  <2> QED
    BY <1>5, <1>6, <2>1
<1> QED
  BY <1>7 DEF o, a, b

----------------------------------------------------------------------------
(* Part 3: the active functions, as CallStack has them.                    *)

\* The stack s, whose topmost word is p, holds the words of n functions, with
\* the frames fr and the words of arguments ac.
Laid(s, p, n, fr, ac) ==
    /\ s \in [Memory -> Int] /\ n \in Nat \ {0}
    /\ fr \in [1 .. n -> Memory] /\ ac \in [1 .. n -> Nat]
    /\ LeadUp(s, n, fr)
    /\ p \in Int /\ fr[n] + 1 <= p /\ p <= StackSize + 1
    /\ \A i, j \in 1 .. n : i < j => fr[i] + 2 <= fr[j]
    /\ \A i \in 1 .. n - 1 : fr[i] + 2 + ac[i + 1] <= fr[i + 1]

\* The topmost word of the i-th of them.
TopOf(p, n, fr, i) == IF i = n THEN p ELSE fr[i + 1] - 1

OwnOf(s, p, n, fr, i) == WordsOf(s, fr[i] + 2, TopOf(p, n, fr, i))

ActsOf(s, p, n, fr, ac) ==
    [i \in 1 .. n |-> [ret |-> s[fr[i] + 1], args |-> ac[i],
                       own |-> OwnOf(s, p, n, fr, i)]]

Act == [ret : Int, args : Nat, own : Seq(Int)]

LEMMA LaidSpans ==
  ASSUME NEW s, NEW p, NEW n, NEW fr, NEW ac, Laid(s, p, n, fr, ac),
         NEW i \in 1 .. n
  PROVE  /\ fr[i] \in Nat /\ fr[i] + 1 \in Memory
         /\ Span(fr[i] + 2, TopOf(p, n, fr, i))
<1>1. /\ n \in Nat \ {0} /\ fr \in [1 .. n -> Memory] /\ p \in Int
      /\ fr[n] + 1 <= p /\ p <= StackSize + 1
      /\ \A k \in 1 .. n : k < n => fr[k] + 2 <= fr[n]
  BY DEF Laid
<1>2. fr[i] \in Nat /\ fr[n] \in Nat /\ fr[n] <= StackSize
  BY <1>1, StackAssumption DEF Memory
<1>3. fr[i] + 1 \in Memory
  <2>1. fr[i] <= fr[n]
    <3>1. CASE i = n
      BY <1>2, <3>1
    <3>2. CASE i # n
      <4>1. i < n
        BY <1>1, <3>2
      <4>2. fr[i] + 2 <= fr[n]
        BY <1>1, <4>1
      <4> QED
        BY <1>2, <4>2
    <3> QED
      BY <3>1, <3>2
  <2> QED
    BY <1>2, <2>1, StackAssumption DEF Memory
<1>4. CASE i = n
  BY <1>1, <1>2, <1>3, <1>4 DEF TopOf, Span
<1>5. CASE i # n
  <2>1. i \in 1 .. n - 1 /\ i + 1 \in 1 .. n /\ i < i + 1
    BY <1>1, <1>5
  <2>2. fr[i + 1] \in Memory
    BY <1>1, <2>1
  <2>3. fr[i] + 2 <= fr[i + 1]
    BY <2>1 DEF Laid
  <2>4. fr[i + 1] \in Nat /\ fr[i + 1] <= StackSize + 1
    BY <2>2, StackAssumption DEF Memory
  <2>5. TopOf(p, n, fr, i) = fr[i + 1] - 1
    BY <1>5 DEF TopOf
  <2> QED
    BY <1>2, <1>3, <2>3, <2>4, <2>5, StackAssumption DEF Span
<1> QED
  BY <1>4, <1>5

LEMMA ActsType ==
  ASSUME NEW s, NEW p, NEW n, NEW fr, NEW ac, Laid(s, p, n, fr, ac)
  PROVE  /\ ActsOf(s, p, n, fr, ac) \in Seq(Act)
         /\ Len(ActsOf(s, p, n, fr, ac)) = n
         /\ ActsOf(s, p, n, fr, ac) # <<>>
<1>1. s \in [Memory -> Int] /\ n \in Nat \ {0} /\ ac \in [1 .. n -> Nat]
  BY DEF Laid
<1>2. ASSUME NEW i \in 1 .. n
      PROVE  [ret |-> s[fr[i] + 1], args |-> ac[i], own |-> OwnOf(s, p, n, fr, i)] \in Act
  <2>1. fr[i] + 1 \in Memory /\ Span(fr[i] + 2, TopOf(p, n, fr, i))
    BY LaidSpans
  <2>2. AreWords(OwnOf(s, p, n, fr, i), s, fr[i] + 2, TopOf(p, n, fr, i))
    BY <1>1, <2>1, WordsType DEF OwnOf
  <2>3. OwnOf(s, p, n, fr, i) \in Seq(Int)
    BY <2>2 DEF AreWords
  <2> QED
    BY <1>1, <2>1, <2>3 DEF Act
<1>3. ActsOf(s, p, n, fr, ac) \in [1 .. n -> Act]
  BY <1>2 DEF ActsOf
<1> QED
  BY <1>1, <1>3

\* Activations, of any stack and any frames.
ActsFrom(F, s, p, ac) ==
    [i \in DOMAIN F |->
       [ret |-> s[F[i] + 1], args |-> ac[i],
        own |-> LET bottom == F[i] + 2
                    top    == IF i = Len(F) THEN p ELSE F[i + 1] - 1
                IN  [k \in 1 .. top - bottom + 1 |-> s[bottom + k - 1]]]]

LEMMA ActivationsFrom ==
  /\ status = "run" => Activations = ActsFrom(FramesTo[frame], stk, sp, argc)
  /\ status' = "run" =>
       Activations' = ActsFrom(FramesTo'[frame'], stk', sp', argc')
  /\ status # "run" => Activations = <<>>
  /\ status' # "run" => Activations' = <<>>
BY DEF Activations, ActsFrom, Own

LEMMA ActsFromLaid ==
  ASSUME NEW s, NEW p, NEW n, NEW fr, NEW ac, Laid(s, p, n, fr, ac)
  PROVE  ActsFrom(Chain(s)[fr[n]], s, p, ac) = ActsOf(s, p, n, fr, ac)
<1>1. s \in [Memory -> Int] /\ n \in Nat \ {0} /\ fr \in [1 .. n -> Memory] /\ LeadUp(s, n, fr)
  BY DEF Laid
<1>2. Chain(s)[fr[n]] = fr
  BY <1>1, ChainFinds
<1>3. DOMAIN fr = 1 .. n /\ Len(fr) = n
  BY <1>1
<1>4. ActsFrom(fr, s, p, ac) = ActsOf(s, p, n, fr, ac)
  BY <1>3 DEF ActsFrom, ActsOf, OwnOf, WordsOf, TopOf
<1> QED
  BY <1>2, <1>4

\* The active functions of a stack known to be laid out so, before a step and
\* after it.
LEMMA ActsBefore ==
  ASSUME status = "run", NEW n, NEW fr, Laid(stk, sp, n, fr, argc), fr[n] = frame
  PROVE  Activations = ActsOf(stk, sp, n, fr, argc)
BY ActivationsFrom, ActsFromLaid, FramesToIsChain

LEMMA ActsAfter ==
  ASSUME status' = "run", NEW n, NEW fr, Laid(stk', sp', n, fr, argc'), fr[n] = frame'
  PROVE  Activations' = ActsOf(stk', sp', n, fr, argc')
BY ActivationsFrom, ActsFromLaid, FramesToIsChain

\* While the loop runs, the stack is laid out so.
LEMMA RunningLaid ==
  ASSUME IInv, status = "run"
  PROVE  /\ Len(argc) \in Nat \ {0}
         /\ \E fr : Laid(stk, sp, Len(argc), fr, argc) /\ fr[Len(argc)] = frame
<1>1. /\ TypeOK
      /\ frame \in Nat /\ sp \in Int /\ frame + 1 <= sp /\ sp < StackSize
  BY Moving
<1>2. PICK fr \in [DOMAIN argc -> Memory] : Nested(fr)
  BY Moving
<1> DEFINE n == Len(argc)
<1>3. n \in Nat \ {0} /\ DOMAIN argc = 1 .. n
  BY <1>1, <1>2, FramesBelow
<1>4. fr \in [1 .. n -> Memory] /\ argc \in [1 .. n -> Nat] /\ stk \in [Memory -> Int]
  BY <1>1, <1>3 DEF TypeOK
<1>5. fr[1] = 0 /\ fr[n] = frame
  BY <1>2 DEF Nested
<1>6. \A i, j \in 1 .. n : i < j => fr[i] + 2 <= fr[j]
  BY <1>2, <1>3 DEF Nested
<1>7. \A i \in 2 .. n : stk[fr[i]] = fr[i - 1] /\ fr[i - 1] + 2 + argc[i] <= fr[i]
  <2> SUFFICES ASSUME NEW i \in 2 .. n
               PROVE  stk[fr[i]] = fr[i - 1] /\ fr[i - 1] + 2 + argc[i] <= fr[i]
    OBVIOUS
  <2>1. i \in DOMAIN argc \ {1}
    BY <1>3
  <2> QED
    BY <1>2, <2>1 DEF Nested
<1> HIDE DEF n
<1>8. LeadUp(stk, n, fr)
  <2>1. ASSUME NEW i \in 2 .. n PROVE fr[i - 1] < fr[i]
    <3>1. i \in 1 .. n /\ i - 1 \in 1 .. n /\ i - 1 < i
      BY <1>3
    <3>2. fr[i] \in Int /\ fr[i - 1] \in Int
      BY <1>4, <3>1, StackAssumption DEF Memory
    <3> QED
      BY <1>6, <3>1, <3>2
  <2> QED
    BY <1>4, <1>5, <1>7, <2>1 DEF LeadUp
<1>9. \A i \in 1 .. n - 1 : fr[i] + 2 + argc[i + 1] <= fr[i + 1]
  <2> SUFFICES ASSUME NEW i \in 1 .. n - 1
               PROVE  fr[i] + 2 + argc[i + 1] <= fr[i + 1]
    OBVIOUS
  <2>1. i + 1 \in 2 .. n /\ (i + 1) - 1 = i
    BY <1>3
  <2> QED
    BY <1>7, <2>1
<1>10. Laid(stk, sp, n, fr, argc)
  BY <1>1, <1>3, <1>4, <1>5, <1>6, <1>8, <1>9, StackAssumption DEF Laid
<1> QED
  BY <1>3, <1>5, <1>10 DEF n

----------------------------------------------------------------------------
(* Part 4: what writing some words does to the active functions.           *)

\* s2 has the words of s below word w.
SameBelow(s, s2, w) == \A x \in Memory : x < w => s2[x] = s[x]

LEMMA SameWords ==
  ASSUME NEW s, NEW s2, NEW lo, NEW hi, Span(lo, hi),
         \A x \in lo .. hi : s2[x] = s[x]
  PROVE  WordsOf(s2, lo, hi) = WordsOf(s, lo, hi)
<1>1. lo \in Nat /\ hi \in Int
  BY DEF Span
<1>2. \A k \in 1 .. hi - lo + 1 : lo + k - 1 \in lo .. hi
  BY <1>1
<1>3. \A k \in 1 .. hi - lo + 1 : s2[lo + k - 1] = s[lo + k - 1]
  BY <1>2
<1> QED
  BY <1>3 DEF WordsOf

\* The frames in order: those before the last end below it.
LEMMA LaidOrder ==
  ASSUME NEW s, NEW p, NEW n, NEW fr, NEW ac, Laid(s, p, n, fr, ac),
         NEW i \in 1 .. n, NEW j \in 1 .. n, i < j
  PROVE  /\ fr[i] \in Nat /\ fr[j] \in Nat /\ fr[i] + 2 <= fr[j]
         /\ TopOf(p, n, fr, i) = fr[i + 1] - 1
         /\ TopOf(p, n, fr, i) <= fr[j] - 1
<1>1. n \in Nat /\ fr[i] \in Nat /\ fr[j] \in Nat /\ fr[i] + 2 <= fr[j]
  BY LaidSpans DEF Laid
<1>2. i # n /\ i + 1 \in 1 .. n
  BY <1>1
<1>3. fr[i + 1] \in Nat
  BY <1>2, LaidSpans
<1>4. fr[i + 1] <= fr[j]
  <2>1. CASE i + 1 = j
    BY <1>1, <2>1
  <2>2. CASE i + 1 # j
    <3>1. i + 1 < j
      BY <1>1, <2>2
    <3>2. fr[i + 1] + 2 <= fr[j]
      BY <1>2, <3>1 DEF Laid
    <3> QED
      BY <1>1, <1>3, <3>2
  <2> QED
    BY <2>1, <2>2
<1> QED
  BY <1>1, <1>2, <1>3, <1>4 DEF TopOf

\* A stack that keeps the saved frames stays laid out.
LEMMA LaidStays ==
  ASSUME NEW s, NEW p, NEW n, NEW fr, NEW ac, Laid(s, p, n, fr, ac),
         NEW s2 \in [Memory -> Int], NEW p2 \in Int,
         fr[n] + 1 <= p2, p2 <= StackSize + 1,
         \A i \in 1 .. n : s2[fr[i]] = s[fr[i]]
  PROVE  Laid(s2, p2, n, fr, ac)
<1>1. n \in Nat \ {0} /\ LeadUp(s, n, fr)
  BY DEF Laid
<1>2. \A i \in 2 .. n : i \in 1 .. n
  BY <1>1
<1>3. LeadUp(s2, n, fr)
  BY <1>1, <1>2 DEF LeadUp
<1> QED
  BY <1>3 DEF Laid

\* What a function other than the last of them is does not depend on the words
\* above its own.
LEMMA SameFunction ==
  ASSUME NEW s, NEW p, NEW n, NEW fr, NEW ac, Laid(s, p, n, fr, ac),
         NEW s2, NEW p2, NEW n2, NEW fr2, NEW ac2,
         NEW i \in 1 .. n, NEW w, SameBelow(s, s2, w),
         i \in 1 .. n2, fr2[i] = fr[i], ac2[i] = ac[i],
         TopOf(p2, n2, fr2, i) = TopOf(p, n, fr, i),
         w \in Int, TopOf(p, n, fr, i) < w, fr[i] + 1 < w
  PROVE  ActsOf(s2, p2, n2, fr2, ac2)[i] = ActsOf(s, p, n, fr, ac)[i]
<1>1. /\ fr[i] \in Nat /\ fr[i] + 1 \in Memory
      /\ Span(fr[i] + 2, TopOf(p, n, fr, i))
  BY LaidSpans
<1>2. s2[fr[i] + 1] = s[fr[i] + 1]
  BY <1>1 DEF SameBelow
<1>3. OwnOf(s2, p2, n2, fr2, i) = OwnOf(s, p, n, fr, i)
  <2> DEFINE lo == fr[i] + 2
             hi == TopOf(p, n, fr, i)
  <2>1. lo \in Nat /\ hi \in Int /\ hi <= StackSize + 1 /\ StackSize \in Nat /\ Span(lo, hi)
    BY <1>1, StackAssumption DEF Span
  <2>2. \A x \in lo .. hi : x \in Memory /\ x < w
    <3> HIDE DEF lo, hi
    <3>1. hi < w
      BY DEF hi
    <3> QED
      BY <2>1, <3>1 DEF Memory
  <2>3. \A x \in lo .. hi : s2[x] = s[x]
    BY <2>2 DEF SameBelow
  <2>4. WordsOf(s2, lo, hi) = WordsOf(s, lo, hi)
    <3> HIDE DEF lo, hi
    <3> QED
      BY <2>1, <2>3, SameWords
  <2> QED
    BY <2>4 DEF OwnOf
<1> QED
  BY <1>2, <1>3 DEF ActsOf

LEMMA LastLaid ==
  ASSUME NEW s, NEW p, NEW n, NEW fr, NEW ac, Laid(s, p, n, fr, ac)
  PROVE  n \in Nat \ {0} /\ n \in 1 .. n /\ fr[n] \in Nat /\ fr[n] \in Memory
<1>1. n \in Nat \ {0} /\ fr \in [1 .. n -> Memory]
  BY DEF Laid
<1>2. n \in 1 .. n
  BY <1>1
<1> QED
  BY <1>1, <1>2, LaidSpans

\* Writes above the current frame change the words of its function only.
LEMMA CalleeStep ==
  ASSUME NEW s, NEW p, NEW n, NEW fr, NEW ac, Laid(s, p, n, fr, ac),
         NEW s2 \in [Memory -> Int], NEW p2 \in Int,
         fr[n] + 1 <= p2, p2 <= StackSize + 1, SameBelow(s, s2, fr[n] + 2)
  PROVE  /\ Laid(s2, p2, n, fr, ac)
         /\ ActsOf(s2, p2, n, fr, ac) =
              Calls!WithOwn(ActsOf(s, p, n, fr, ac), n, WordsOf(s2, fr[n] + 2, p2))
<1> DEFINE A  == ActsOf(s, p, n, fr, ac)
           A2 == ActsOf(s2, p2, n, fr, ac)
           o  == WordsOf(s2, fr[n] + 2, p2)
<1>1. n \in Nat \ {0} /\ n \in 1 .. n /\ fr[n] \in Nat /\ fr[n] \in Memory
  BY LastLaid
<1>2. ASSUME NEW i \in 1 .. n PROVE s2[fr[i]] = s[fr[i]]
  <2>1. fr[i] \in Memory /\ fr[i] \in Nat
    BY LaidSpans DEF Laid
  <2>2. fr[i] < fr[n] + 2
    <3>1. CASE i = n
      BY <1>1, <3>1
    <3>2. CASE i # n
      <4>1. i < n
        BY <1>1, <3>2
      <4>2. fr[i] + 2 <= fr[n]
        BY <1>1, <4>1, LaidOrder
      <4> QED
        BY <1>1, <2>1, <4>2
    <3> QED
      BY <3>1, <3>2
  <2> QED
    BY <2>1, <2>2 DEF SameBelow
<1>3. Laid(s2, p2, n, fr, ac)
  BY <1>2, LaidStays
<1>4. ASSUME NEW i \in 1 .. n, i # n PROVE A2[i] = A[i]
  <2>1. i < n
    BY <1>1, <1>4
  <2>2. /\ fr[i] \in Nat /\ fr[i] + 2 <= fr[n]
        /\ TopOf(p, n, fr, i) = fr[i + 1] - 1 /\ TopOf(p, n, fr, i) <= fr[n] - 1
    BY <1>1, <2>1, LaidOrder
  <2>3. TopOf(p2, n, fr, i) = TopOf(p, n, fr, i)
    BY <1>4 DEF TopOf
  <2>4. TopOf(p, n, fr, i) \in Int
    BY LaidSpans DEF Span
  <2>5. TopOf(p, n, fr, i) < fr[n] + 2 /\ fr[i] + 1 < fr[n] + 2 /\ fr[n] + 2 \in Int
    BY <1>1, <2>2, <2>4
  <2> QED
    BY <2>3, <2>5, SameFunction
<1>5. A2[n] = [A[n] EXCEPT !.own = o]
  <2>1. s2[fr[n] + 1] = s[fr[n] + 1]
    <3>1. fr[n] + 1 \in Memory /\ fr[n] + 1 < fr[n] + 2
      BY <1>1, LaidSpans
    <3> QED
      BY <3>1 DEF SameBelow
  <2>2. OwnOf(s2, p2, n, fr, n) = o
    BY DEF OwnOf, TopOf
  <2> QED
    BY <1>1, <2>1, <2>2 DEF ActsOf
<1>6. A2 = [A EXCEPT ![n].own = o]
  <2>1. A = [i \in 1 .. n |-> A[i]] /\ A2 = [i \in 1 .. n |-> A2[i]]
    BY DEF ActsOf
  <2> HIDE DEF A, A2, o
  <2> QED
    BY <1>4, <1>5, <2>1
<1> QED
  BY <1>3, <1>6 DEF Calls!WithOwn

\* Writes to the arguments of the function whose frame is current change those
\* of its caller's words, and what it takes off the stack its own.
LEMMA ArgumentStep ==
  ASSUME NEW s, NEW p, NEW n, NEW fr, NEW ac, Laid(s, p, n, fr, ac), n # 1,
         NEW s2 \in [Memory -> Int], NEW p2 \in Int,
         fr[n] + 1 <= p2, p2 <= p,
         SameBelow(s, s2, fr[n - 1] + 2),
         \A x \in Memory : x >= fr[n] => s2[x] = s[x]
  PROVE  /\ Laid(s2, p2, n, fr, ac)
         /\ ActsOf(s2, p2, n, fr, ac) =
              Calls!WithOwn(
                Calls!WithOwn(ActsOf(s, p, n, fr, ac), n, WordsOf(s, fr[n] + 2, p2)),
                n - 1, WordsOf(s2, fr[n - 1] + 2, fr[n] - 1))
<1> DEFINE A  == ActsOf(s, p, n, fr, ac)
           A2 == ActsOf(s2, p2, n, fr, ac)
           o  == WordsOf(s, fr[n] + 2, p2)
           c  == WordsOf(s2, fr[n - 1] + 2, fr[n] - 1)
<1>1. n \in Nat \ {0} /\ n \in 1 .. n /\ fr[n] \in Nat /\ fr[n] \in Memory
  BY LastLaid
<1>2. n - 1 \in 1 .. n /\ n - 1 < n
  BY <1>1
<1>3. fr[n - 1] \in Nat /\ fr[n - 1] + 2 <= fr[n]
  BY <1>1, <1>2, LaidOrder
<1>4. p \in Int /\ p <= StackSize + 1
  BY DEF Laid
<1>5. ASSUME NEW i \in 1 .. n, i # n
      PROVE  /\ fr[i] \in Nat /\ fr[i] + 1 \in Memory /\ fr[i] \in Memory
             /\ fr[i] + 1 < fr[n - 1] + 2
  <2>1. fr[i] \in Nat /\ fr[i] + 1 \in Memory /\ fr[i] \in Memory
    BY LaidSpans DEF Laid
  <2>2. CASE i = n - 1
    BY <1>3, <2>1, <2>2
  <2>3. CASE i # n - 1
    <3>1. i < n - 1
      BY <1>1, <1>5, <2>3
    <3>2. fr[i] + 2 <= fr[n - 1]
      BY <1>2, <3>1, LaidOrder
    <3> QED
      BY <1>3, <2>1, <3>2
  <2> QED
    BY <2>1, <2>2, <2>3
<1>6. ASSUME NEW i \in 1 .. n PROVE s2[fr[i]] = s[fr[i]]
  <2>1. CASE i = n
    BY <1>1, <2>1
  <2>2. CASE i # n
    BY <1>3, <1>5, <2>2 DEF SameBelow
  <2> QED
    BY <2>1, <2>2
<1>7. Laid(s2, p2, n, fr, ac)
  BY <1>4, <1>6, LaidStays, StackAssumption
<1>8. ASSUME NEW i \in 1 .. n, i # n, i # n - 1 PROVE A2[i] = A[i]
  <2>1. i < n - 1
    BY <1>1, <1>8
  <2>2. /\ fr[i] \in Nat
        /\ TopOf(p, n, fr, i) = fr[i + 1] - 1 /\ TopOf(p, n, fr, i) <= fr[n - 1] - 1
    BY <1>2, <2>1, LaidOrder
  <2>3. TopOf(p2, n, fr, i) = TopOf(p, n, fr, i)
    BY <1>8 DEF TopOf
  <2>4. TopOf(p, n, fr, i) \in Int
    BY LaidSpans DEF Span
  <2>5. TopOf(p, n, fr, i) < fr[n - 1] + 2 /\ fr[n - 1] + 2 \in Int
    BY <1>3, <2>2, <2>4
  <2> QED
    BY <1>5, <1>8, <2>3, <2>5, SameFunction
<1>9. A2[n] = [A[n] EXCEPT !.own = o]
  <2>1. s2[fr[n] + 1] = s[fr[n] + 1]
    <3>1. fr[n] + 1 \in Memory /\ fr[n] + 1 >= fr[n]
      BY <1>1, LaidSpans
    <3> QED
      BY <3>1
  <2>2. OwnOf(s2, p2, n, fr, n) = o
    <3>1. Span(fr[n] + 2, p2)
      BY <1>1, <1>4, StackAssumption DEF Span
    <3>2. \A x \in fr[n] + 2 .. p2 : s2[x] = s[x]
      BY <1>1, <1>4, StackAssumption, SMTT(30) DEF Memory
    <3>3. WordsOf(s2, fr[n] + 2, p2) = o
      BY <3>1, <3>2, SameWords
    <3> QED
      BY <3>3 DEF OwnOf, TopOf
  <2> QED
    BY <1>1, <2>1, <2>2 DEF ActsOf
<1>10. A2[n - 1] = [A[n - 1] EXCEPT !.own = c]
  <2>1. s2[fr[n - 1] + 1] = s[fr[n - 1] + 1]
    BY <1>1, <1>2, <1>5 DEF SameBelow
  <2>2. OwnOf(s2, p2, n, fr, n - 1) = c
    <3>1. n - 1 # n /\ n - 1 + 1 = n
      BY <1>1
    <3> QED
      BY <3>1 DEF OwnOf, TopOf
  <2> QED
    BY <1>2, <2>1, <2>2 DEF ActsOf
<1>11. A2 = [[A EXCEPT ![n].own = o] EXCEPT ![n - 1].own = c]
  <2>1. A = [i \in 1 .. n |-> A[i]] /\ A2 = [i \in 1 .. n |-> A2[i]]
    BY DEF ActsOf
  <2> HIDE DEF A, A2, o, c
  <2> DEFINE B == [[A EXCEPT ![n].own = o] EXCEPT ![n - 1].own = c]
  <2>2. B = [i \in 1 .. n |-> IF i = n - 1 THEN [A[n - 1] EXCEPT !.own = c]
                              ELSE IF i = n THEN [A[n] EXCEPT !.own = o] ELSE A[i]]
    BY <1>1, <1>2, <2>1
  <2> HIDE DEF B
  <2>3. \A i \in 1 .. n : A2[i] = B[i]
    BY <1>2, <1>8, <1>9, <1>10, <2>2
  <2>4. B = [i \in 1 .. n |-> B[i]]
    BY <2>2
  <2>5. A2 = B
    BY <2>1, <2>3, <2>4
  <2> QED
    BY <2>5 DEF B
<1> QED
  BY <1>7, <1>11 DEF Calls!WithOwn

\* f2 is f, a list of n elements, with x behind them.
Adds(n, x, f, f2) == f2 = [i \in 1 .. n + 1 |-> IF i = n + 1 THEN x ELSE f[i]]

LEMMA Added ==
  ASSUME NEW n \in Nat, NEW x, NEW f, NEW f2, Adds(n, x, f, f2)
  PROVE  /\ f2[n + 1] = x
         /\ \A i \in 1 .. n : f2[i] = f[i]
         /\ \A S : x \in S /\ f \in [1 .. n -> S] => f2 \in [1 .. n + 1 -> S]
<1>1. n + 1 \in 1 .. n + 1 /\ \A i \in 1 .. n : i \in 1 .. n + 1 /\ i # n + 1
  OBVIOUS
<1>2. \A i \in 1 .. n + 1 : i # n + 1 => i \in 1 .. n
  OBVIOUS
<1> QED
  BY <1>1, <1>2 DEF Adds

\* CALL adds a function without words of its own.
LEMMA CallStep ==
  ASSUME NEW s, NEW p, NEW n, NEW fr, NEW ac, Laid(s, p, n, fr, ac),
         NEW s2 \in [Memory -> Int], SameBelow(s, s2, p + 1),
         p + 2 <= StackSize + 1, s2[p + 1] = fr[n],
         NEW args \in Nat, fr[n] + 2 + args <= p + 1,
         NEW fr2, Adds(n, p + 1, fr, fr2), NEW ac2, Adds(n, args, ac, ac2)
  PROVE  /\ Laid(s2, p + 2, n + 1, fr2, ac2)
         /\ ActsOf(s2, p + 2, n + 1, fr2, ac2) =
              Append(ActsOf(s, p, n, fr, ac),
                     [ret |-> s2[p + 2], args |-> args, own |-> <<>>])
<1> DEFINE A  == ActsOf(s, p, n, fr, ac)
           A2 == ActsOf(s2, p + 2, n + 1, fr2, ac2)
<1>1. n \in Nat \ {0} /\ n \in 1 .. n /\ fr[n] \in Nat /\ fr[n] \in Memory
  BY LastLaid
<1>2. /\ fr \in [1 .. n -> Memory] /\ LeadUp(s, n, fr)
      /\ p \in Int /\ fr[n] + 1 <= p
      /\ \A i, j \in 1 .. n : i < j => fr[i] + 2 <= fr[j]
      /\ \A i \in 1 .. n - 1 : fr[i] + 2 + ac[i + 1] <= fr[i + 1]
  BY DEF Laid
<1>3. n + 1 \in 1 .. n + 1 /\ \A i \in 1 .. n : i \in 1 .. n + 1 /\ i # n + 1
  BY <1>1
<1>4. fr2[n + 1] = p + 1 /\ \A i \in 1 .. n : fr2[i] = fr[i]
  BY <1>1, Added
<1>20. ac2[n + 1] = args /\ \A i \in 1 .. n : ac2[i] = ac[i]
  BY <1>1, Added
<1>5. p + 1 \in Memory /\ p + 2 \in Memory
  <2>1. p \in Nat
    BY <1>1, <1>2
  <2> QED
    BY <2>1, StackAssumption DEF Memory
<1>6. fr2 \in [1 .. n + 1 -> Memory] /\ ac2 \in [1 .. n + 1 -> Nat]
  <2>1. ac \in [1 .. n -> Nat]
    BY DEF Laid
  <2> QED
    BY <1>1, <1>2, <1>5, <2>1, Added
<1>7. ASSUME NEW i \in 1 .. n
      PROVE  /\ fr[i] \in Nat /\ fr[i] \in Memory /\ fr[i] + 2 <= p + 1
             /\ s2[fr[i]] = s[fr[i]]
  <2>1. fr[i] \in Nat /\ fr[i] \in Memory
    BY <1>2, LaidSpans
  <2>4. fr[i] + 2 <= p + 1 => s2[fr[i]] = s[fr[i]]
    BY <1>2, <2>1 DEF SameBelow
  <2>2. CASE i = n
    BY <1>1, <1>2, <2>1, <2>2, <2>4
  <2>3. CASE i # n
    <3>1. i < n
      BY <1>1, <2>3
    <3>2. fr[i] + 2 <= fr[n]
      BY <1>1, <1>2, <3>1
    <3> QED
      BY <1>1, <1>2, <2>1, <2>4, <3>2, SMTT(30)
  <2> QED
    BY <2>2, <2>3
<1> HIDE DEF A, A2
<1>8. LeadUp(s2, n + 1, fr2)
  <2>1. fr2[1] = 0
    BY <1>1, <1>2, <1>4 DEF LeadUp
  <2>2. ASSUME NEW i \in 2 .. n + 1
        PROVE  s2[fr2[i]] = fr2[i - 1] /\ fr2[i - 1] < fr2[i]
    <3>1. CASE i = n + 1
      <4>1. i - 1 = n
        BY <1>1, <3>1
      <4> QED
        BY <1>1, <1>2, <1>4, <3>1, <4>1
    <3>2. CASE i # n + 1
      <4>1. i \in 2 .. n /\ i \in 1 .. n /\ i - 1 \in 1 .. n
        BY <1>1, <3>2
      <4>2. s[fr[i]] = fr[i - 1] /\ fr[i - 1] < fr[i]
        BY <1>2, <4>1 DEF LeadUp
      <4> QED
        BY <1>4, <1>7, <4>1, <4>2
    <3> QED
      BY <3>1, <3>2
  <2> QED
    BY <1>6, <2>1, <2>2 DEF LeadUp
<1>9. ASSUME NEW i \in 1 .. n + 1, NEW j \in 1 .. n + 1, i < j
      PROVE  fr2[i] + 2 <= fr2[j]
  <2>1. i \in 1 .. n
    BY <1>1, <1>9
  <2>2. CASE j = n + 1
    BY <1>4, <1>7, <2>1, <2>2
  <2>3. CASE j # n + 1
    <3>1. j \in 1 .. n
      BY <1>1, <2>3
    <3> QED
      BY <1>2, <1>4, <1>9, <2>1, <3>1
  <2> QED
    BY <2>2, <2>3
<1>10. ASSUME NEW i \in 1 .. n PROVE fr2[i] + 2 + ac2[i + 1] <= fr2[i + 1]
  <2>1. CASE i = n
    BY <1>4, <1>20, <2>1
  <2>2. CASE i # n
    <3>1. i \in 1 .. n - 1 /\ i + 1 \in 1 .. n
      BY <1>1, <2>2
    <3> QED
      BY <1>2, <1>4, <1>20, <3>1
  <2> QED
    BY <2>1, <2>2
<1>11. Laid(s2, p + 2, n + 1, fr2, ac2)
  <2>1. n + 1 \in Nat \ {0} /\ n + 1 - 1 = n /\ p + 2 \in Int /\ fr2[n + 1] + 1 <= p + 2
    BY <1>1, <1>2, <1>4
  <2> DEFINE k == n + 1
             q == p + 2
  <2>3. k \in Nat \ {0} /\ q \in Int /\ fr2[k] + 1 <= q /\ q <= StackSize + 1
    BY <2>1
  <2>4. fr2 \in [1 .. k -> Memory] /\ ac2 \in [1 .. k -> Nat] /\ LeadUp(s2, k, fr2)
    BY <1>6, <1>8
  <2>5. \A i, j \in 1 .. k : i < j => fr2[i] + 2 <= fr2[j]
    BY <1>9
  <2>2. k - 1 = n
    BY <1>1
  <2>6. \A i \in 1 .. k - 1 : fr2[i] + 2 + ac2[i + 1] <= fr2[i + 1]
    <3> HIDE DEF k
    <3> QED
      BY <1>10, <2>2
  <2> HIDE DEF k, q
  <2>7. Laid(s2, q, k, fr2, ac2)
    BY <2>3, <2>4, <2>5, <2>6 DEF Laid
  <2> QED
    BY <2>7 DEF k, q
<1>12. ASSUME NEW i \in 1 .. n PROVE A2[i] = A[i]
  <2>1. TopOf(p + 2, n + 1, fr2, i) = TopOf(p, n, fr, i)
    <3>1. CASE i = n
      <4>1. i # n + 1 /\ i + 1 = n + 1
        BY <1>3, <3>1
      <4>2. TopOf(p + 2, n + 1, fr2, i) = p + 1 - 1
        <5>1. TopOf(p + 2, n + 1, fr2, n) = fr2[n + 1] - 1
          BY <3>1, <4>1 DEF TopOf
        <5> QED
          BY <1>1, <1>2, <1>4, <3>1, <5>1
      <4>3. p + 1 - 1 = p /\ TopOf(p, n, fr, n) = p
        BY <1>2 DEF TopOf
      <4> QED
        BY <3>1, <4>2, <4>3
    <3>2. CASE i # n
      <4>1. i # n + 1 /\ i + 1 \in 1 .. n
        BY <1>1, <3>2
      <4> QED
        BY <1>4, <3>2, <4>1 DEF TopOf
    <3> QED
      BY <3>1, <3>2
  <2>2. TopOf(p, n, fr, i) < p + 1
    <3>1. CASE i = n
      BY <1>2, <3>1 DEF TopOf
    <3>2. CASE i # n
      <4>1. i < n
        BY <1>1, <3>2
      <4>2. TopOf(p, n, fr, i) <= fr[n] - 1
        BY <1>1, <4>1, LaidOrder
      <4>3. TopOf(p, n, fr, i) \in Int
        BY LaidSpans DEF Span
      <4> QED
        BY <1>1, <1>2, <4>2, <4>3
    <3> QED
      BY <3>1, <3>2
  <2>3. i \in 1 .. n + 1 /\ fr2[i] = fr[i] /\ ac2[i] = ac[i]
    BY <1>3, <1>4, <1>20
  <2>4. p + 1 \in Int /\ fr[i] + 1 < p + 1
    BY <1>2, <1>7
  <2> QED
    BY <2>1, <2>2, <2>3, <2>4, SameFunction DEF A, A2
<1> DEFINE new == [ret |-> s2[p + 2], args |-> args, own |-> <<>>]
<1>13. A2[n + 1] = new
  <2>1. TopOf(p + 2, n + 1, fr2, n + 1) = p + 2
    BY DEF TopOf
  <2>2. OwnOf(s2, p + 2, n + 1, fr2, n + 1) = <<>>
    <3>1. (p + 2) - (p + 1 + 2) + 1 = 0
      BY <1>2
    <3>2. WordsOf(s2, p + 1 + 2, p + 2) = <<>>
      BY <3>1 DEF WordsOf
    <3> QED
      BY <1>4, <2>1, <3>2 DEF OwnOf
  <2>3. fr2[n + 1] + 1 = p + 2
    BY <1>2, <1>4
  <2> QED
    BY <1>3, <1>20, <2>2, <2>3 DEF A2, ActsOf
<1>14. A \in Seq(Act) /\ Len(A) = n
  BY ActsType DEF A
<1>15. A2 \in Seq(Act) /\ Len(A2) = n + 1
  BY <1>11, ActsType DEF A2
<1>16. new \in Act
  <2>1. s2[p + 2] \in Int /\ <<>> \in Seq(Int)
    BY <1>5
  <2> QED
    BY <2>1 DEF Act
<1> HIDE DEF new
<1>17. Append(A, new) \in Seq(Act) /\ Len(Append(A, new)) = n + 1
  BY <1>14, <1>16, AppendProperties
<1>18. \A i \in 1 .. n + 1 : A2[i] = Append(A, new)[i]
  BY <1>12, <1>13, <1>14, <1>16, AppendProperties
<1>19. A2 = Append(A, new)
  BY <1>15, <1>17, <1>18, SeqEqual
<1> QED
  BY <1>11, <1>19 DEF A, A2, new

\* fr2 and ac2 are fr and ac without the last.
Cuts(n, fr, ac, k, fr2, ac2) ==
    /\ n = k + 1 /\ k \in Nat \ {0}
    /\ fr2 = [i \in 1 .. k |-> fr[i]]
    /\ ac2 = [i \in 1 .. k |-> ac[i]]

\* Without the last of them, the others are laid out up to its frame.
LEMMA DropLast ==
  ASSUME NEW s, NEW p, NEW n, NEW fr, NEW ac, Laid(s, p, n, fr, ac),
         NEW k, NEW fr2, NEW ac2, Cuts(n, fr, ac, k, fr2, ac2)
  PROVE  /\ Laid(s, fr[n] - 1, k, fr2, ac2)
         /\ ActsOf(s, fr[n] - 1, k, fr2, ac2) = Front(ActsOf(s, p, n, fr, ac))
<1>1. n \in Nat \ {0} /\ n \in 1 .. n /\ fr[n] \in Nat /\ fr[n] \in Memory
  BY LastLaid
<1>2. /\ s \in [Memory -> Int]
      /\ fr \in [1 .. n -> Memory] /\ ac \in [1 .. n -> Nat]
      /\ LeadUp(s, n, fr)
      /\ p \in Int /\ fr[n] + 1 <= p /\ p <= StackSize + 1
      /\ \A i, j \in 1 .. n : i < j => fr[i] + 2 <= fr[j]
      /\ \A i \in 1 .. n - 1 : fr[i] + 2 + ac[i + 1] <= fr[i + 1]
  BY DEF Laid
<1>20. n = k + 1 /\ k \in Nat \ {0}
  BY DEF Cuts
<1>3. \A i \in 1 .. k : i \in 1 .. n /\ i # n /\ i < n
  BY <1>20
<1>4. \A i \in 1 .. k : fr2[i] = fr[i] /\ ac2[i] = ac[i]
  BY DEF Cuts
<1>5. fr2 \in [1 .. k -> Memory] /\ ac2 \in [1 .. k -> Nat]
  BY <1>2, <1>3 DEF Cuts
<1>6. LeadUp(s, k, fr2)
  <2>1. 1 \in 1 .. k /\ \A i \in 2 .. k : i \in 2 .. n /\ i \in 1 .. k /\ i - 1 \in 1 .. k
    BY <1>20
  <2> QED
    BY <1>2, <1>4, <1>5, <2>1 DEF LeadUp
<1>7. \A i, j \in 1 .. k : i < j => fr2[i] + 2 <= fr2[j]
  BY <1>2, <1>3, <1>4
<1>8. \A i \in 1 .. k - 1 : fr2[i] + 2 + ac2[i + 1] <= fr2[i + 1]
  <2> SUFFICES ASSUME NEW i \in 1 .. k - 1
               PROVE  fr2[i] + 2 + ac2[i + 1] <= fr2[i + 1]
    OBVIOUS
  <2>1. i \in 1 .. k /\ i + 1 \in 1 .. k /\ i \in 1 .. n - 1
    BY <1>20
  <2>2. fr[i] + 2 + ac[i + 1] <= fr[i + 1]
    BY <1>2, <2>1
  <2> QED
    BY <1>4, <2>1, <2>2
<1> DEFINE q == fr[n] - 1
<1>9. q \in Int /\ fr2[k] + 1 <= q /\ q <= StackSize + 1
  <2>1. k \in 1 .. n /\ k < n /\ k \in 1 .. k
    BY <1>20
  <2>2. fr[k] \in Nat /\ fr[k] + 2 <= fr[n]
    BY <1>1, <2>1, LaidOrder
  <2>3. fr2[k] = fr[k]
    BY <1>4, <2>1
  <2> QED
    <3>1. p \in Int /\ fr[n] + 1 <= p /\ p <= StackSize + 1 /\ StackSize \in Nat
      BY <1>2, StackAssumption
    <3>2. q \in Int /\ q <= StackSize + 1
      BY <1>1, <3>1
    <3>3. fr[k] + 1 <= q
      BY <1>1, <2>2
    <3> QED
      BY <2>3, <3>2, <3>3
<1> HIDE DEF q
<1>10. Laid(s, q, k, fr2, ac2)
  BY <1>20, <1>2, <1>5, <1>6, <1>7, <1>8, <1>9 DEF Laid
<1> DEFINE A  == ActsOf(s, p, n, fr, ac)
           A2 == ActsOf(s, q, k, fr2, ac2)
<1> HIDE DEF A, A2
<1>11. ASSUME NEW i \in 1 .. k PROVE A2[i] = A[i]
  <2>1. i \in 1 .. n /\ i < n /\ fr2[i] = fr[i] /\ ac2[i] = ac[i]
    BY <1>3, <1>4
  <2>2. /\ fr[i] \in Nat /\ fr[i] + 2 <= fr[n]
        /\ TopOf(p, n, fr, i) = fr[i + 1] - 1 /\ TopOf(p, n, fr, i) <= fr[n] - 1
    BY <1>1, <2>1, LaidOrder
  <2>3. TopOf(q, k, fr2, i) = TopOf(p, n, fr, i)
    <3>1. CASE i = k
      BY <1>20, <2>2, <3>1 DEF TopOf, q
    <3>2. CASE i # k
      <4>1. i + 1 \in 1 .. k
        BY <1>20, <3>2
      <4> QED
        BY <1>4, <2>2, <3>2, <4>1 DEF TopOf
    <3> QED
      BY <3>1, <3>2
  <2>4. TopOf(p, n, fr, i) \in Int
    BY <2>1, LaidSpans DEF Span
  <2>5. TopOf(p, n, fr, i) < fr[n] /\ fr[i] + 1 < fr[n] /\ fr[n] \in Int
    BY <1>1, <2>2, <2>4
  <2>6. SameBelow(s, s, fr[n])
    BY DEF SameBelow
  <2> QED
    BY <2>1, <2>3, <2>5, <2>6, SameFunction DEF A, A2
<1>12. A \in Seq(Act) /\ Len(A) = n
  BY ActsType DEF A
<1>13. A2 \in Seq(Act) /\ Len(A2) = k
  BY <1>10, ActsType DEF A2
<1>14. Front(A) = SubSeq(A, 1, k)
  BY <1>12, <1>20 DEF Front
<1>15. /\ SubSeq(A, 1, k) \in Seq(Act) /\ Len(SubSeq(A, 1, k)) = k
       /\ \A i \in 1 .. k : SubSeq(A, 1, k)[i] = A[i]
  BY <1>12, <1>20
<1>16. A2 = SubSeq(A, 1, k)
  BY <1>11, <1>13, <1>15, SeqEqual
<1> QED
  BY <1>10, <1>14, <1>16 DEF A, A2, q

\* RET gives the caller's words back, and puts the result on top.
LEMMA ReturnStep ==
  ASSUME NEW s, NEW p, NEW n, NEW fr, NEW ac, Laid(s, p, n, fr, ac),
         NEW k, NEW fr2, NEW ac2, Cuts(n, fr, ac, k, fr2, ac2),
         NEW s2 \in [Memory -> Int], NEW p2 \in Int,
         fr[k] + 1 <= p2, p2 <= StackSize + 1, SameBelow(s, s2, fr[k] + 2)
  PROVE  /\ Laid(s2, p2, k, fr2, ac2)
         /\ ActsOf(s2, p2, k, fr2, ac2) =
              Calls!WithOwn(Front(ActsOf(s, p, n, fr, ac)), k,
                            WordsOf(s2, fr[k] + 2, p2))
<1>1. /\ Laid(s, fr[n] - 1, k, fr2, ac2)
      /\ ActsOf(s, fr[n] - 1, k, fr2, ac2) = Front(ActsOf(s, p, n, fr, ac))
  BY DropLast
<1>2. fr2[k] = fr[k]
  BY DEF Cuts
<1> QED
  BY <1>1, <1>2, CalleeStep

----------------------------------------------------------------------------
(* Part 5: the instructions are steps of CallStack.                        *)

\* The stack as CallStack sees it: n functions, with the frames fr.
Sees(n, fr) ==
    /\ n = Len(argc) /\ status = "run" /\ TypeOK
    /\ Laid(stk, sp, n, fr, argc) /\ fr[n] = frame
    /\ sp < StackSize

LEMMA SomethingSeen == IInv /\ status = "run" => \E n, fr : Sees(n, fr)
BY RunningLaid, Moving DEF Sees

\* What it sees of the function that runs.
LEMMA CalleeSeen ==
  ASSUME NEW n, NEW fr, Sees(n, fr)
  PROVE  /\ Activations = ActsOf(stk, sp, n, fr, argc)
         /\ Activations \in Seq(Act) /\ Len(Activations) = n /\ Activations # <<>>
         /\ n \in Nat \ {0} /\ frame \in Nat /\ sp \in Int /\ frame + 1 <= sp
         /\ Span(frame + 2, sp)
         /\ Calls!Callee = [ret |-> stk[frame + 1], args |-> argc[n],
                            own |-> WordsOf(stk, frame + 2, sp)]
         /\ Calls!Callee.own \in Seq(Int)
         /\ Len(Calls!Callee.own) = sp - frame - 1
<1>1. Activations = ActsOf(stk, sp, n, fr, argc)
  BY ActsBefore DEF Sees
<1>2. Laid(stk, sp, n, fr, argc) /\ fr[n] = frame
  BY DEF Sees
<1>3. Activations \in Seq(Act) /\ Len(Activations) = n /\ Activations # <<>>
  BY <1>1, <1>2, ActsType
<1>4. n \in Nat \ {0} /\ n \in 1 .. n /\ frame \in Nat
  BY <1>2, LastLaid
<1>5. sp \in Int /\ frame + 1 <= sp /\ stk \in [Memory -> Int]
  BY <1>2 DEF Laid
<1>6. Span(frame + 2, sp)
  <2>1. Span(fr[n] + 2, TopOf(sp, n, fr, n))
    BY <1>2, <1>4, LaidSpans
  <2> QED
    BY <1>2, <2>1 DEF TopOf
<1>7. Calls!Callee = Activations[n]
  BY <1>3 DEF Calls!Callee, Last, Calls!Last
<1>8. Activations[n] = [ret |-> stk[frame + 1], args |-> argc[n],
                        own |-> WordsOf(stk, frame + 2, sp)]
  BY <1>1, <1>2, <1>4 DEF ActsOf, OwnOf, TopOf
<1>9. AreWords(Calls!Callee.own, stk, frame + 2, sp)
  BY <1>5, <1>6, <1>7, <1>8, WordsType
<1>10. Calls!Callee.own \in Seq(Int) /\ Len(Calls!Callee.own) = sp - frame - 1
  BY <1>4, <1>5, <1>9 DEF AreWords
<1> QED
  BY <1>1, <1>3, <1>4, <1>5, <1>6, <1>7, <1>8, <1>10

\* What it sees of the function that called it.
LEMMA CallerSeen ==
  ASSUME NEW n, NEW fr, Sees(n, fr), frame # 0
  PROVE  /\ n # 1 /\ n - 1 \in 1 .. n
         /\ fr[n - 1] \in Nat /\ argc[n] \in Nat
         /\ fr[n - 1] + 2 + argc[n] <= frame
         /\ stk[frame] = fr[n - 1]
         /\ Span(fr[n - 1] + 2, frame - 1)
         /\ Calls!Caller.own = WordsOf(stk, fr[n - 1] + 2, frame - 1)
         /\ Calls!Caller.own \in Seq(Int)
         /\ Len(Calls!Caller.own) = frame - fr[n - 1] - 2
<1>1. /\ Activations = ActsOf(stk, sp, n, fr, argc) /\ Len(Activations) = n
      /\ n \in Nat \ {0} /\ frame \in Nat
  BY CalleeSeen
<1>2. Laid(stk, sp, n, fr, argc) /\ fr[n] = frame
  BY DEF Sees
<1>3. LeadUp(stk, n, fr) /\ stk \in [Memory -> Int] /\ argc \in [1 .. n -> Nat]
  BY <1>2 DEF Laid
<1>4. n # 1
  BY <1>2, <1>3 DEF LeadUp
<1>5. n - 1 \in 1 .. n /\ n - 1 \in 1 .. n - 1 /\ n \in 2 .. n /\ n - 1 + 1 = n
  BY <1>1, <1>4
<1>6. fr[n - 1] \in Nat /\ Span(fr[n - 1] + 2, TopOf(sp, n, fr, n - 1))
  BY <1>2, <1>5, LaidSpans
<1>7. TopOf(sp, n, fr, n - 1) = frame - 1
  BY <1>1, <1>2, <1>5 DEF TopOf
<1>8. fr[n - 1] + 2 + argc[n] <= frame
  <2>1. fr[n - 1] + 2 + argc[n - 1 + 1] <= fr[n - 1 + 1]
    BY <1>2, <1>5 DEF Laid
  <2> QED
    BY <1>2, <1>5, <2>1
<1>9. stk[frame] = fr[n - 1]
  BY <1>2, <1>3, <1>5 DEF LeadUp
<1>10. Calls!Caller = Activations[n - 1]
  BY <1>1 DEF Calls!Caller
<1>11. Activations[n - 1].own = WordsOf(stk, fr[n - 1] + 2, frame - 1)
  BY <1>1, <1>5, <1>7 DEF ActsOf, OwnOf
<1>12. AreWords(Calls!Caller.own, stk, fr[n - 1] + 2, frame - 1)
  BY <1>3, <1>6, <1>7, <1>10, <1>11, WordsType
<1>13. Calls!Caller.own \in Seq(Int) /\ Len(Calls!Caller.own) = frame - fr[n - 1] - 2
  BY <1>1, <1>6, <1>12 DEF AreWords
<1>14. argc[n] \in Nat
  BY <1>3, <1>5
<1> QED
  BY <1>4, <1>5, <1>6, <1>7, <1>8, <1>9, <1>10, <1>11, <1>13, <1>14

\* An overflow ends the program.
LEMMA Overflown == status' # "run" => Calls!Next
BY ActivationsFrom DEF Calls!Next, Calls!End

\* The words a write puts on the stack are there, the others stay.
LEMMA Written ==
  ASSUME TypeOK, NEW w \in Nat, NEW m \in Nat, w + m <= StackSize + 2,
         NEW r \in [1 .. m -> Int]
  PROVE  /\ Write(w, r) \in [Memory -> Int]
         /\ SameBelow(stk, Write(w, r), w)
         /\ \A x \in Memory : w + m - 1 < x => Write(w, r)[x] = stk[x]
         /\ \A k \in 1 .. m : Write(w, r)[w + k - 1] = r[k]
         /\ r \in Seq(Int) /\ Len(r) = m
<1>1. /\ Write(w, r) \in [Memory -> Int]
      /\ \A f \in Memory : (f < w \/ w + m - 1 < f) => Write(w, r)[f] = stk[f]
  BY WriteMisses
<1>2. ASSUME NEW k \in 1 .. m PROVE Write(w, r)[w + k - 1] = r[k]
  <2>1. w + k - 1 \in Memory
    BY StackAssumption DEF Memory
  <2>2. (w + k - 1) - w + 1 = k
    OBVIOUS
  <2>3. DOMAIN r = 1 .. m
    OBVIOUS
  <2>4. Write(w, r)[w + k - 1] = IF (w + k - 1) - w + 1 \in DOMAIN r
                                 THEN r[(w + k - 1) - w + 1] ELSE stk[w + k - 1]
    BY <2>1 DEF Write
  <2> QED
    BY <2>2, <2>3, <2>4
<1> QED
  BY <1>1, <1>2 DEF SameBelow

\* A step that changes only the words of the function that runs.
LEMMA CalleeAfter ==
  ASSUME NEW n, NEW fr, Sees(n, fr), status' = "run",
         stk' \in [Memory -> Int], SameBelow(stk, stk', frame + 2),
         sp' \in Int, frame + 1 <= sp', sp' <= StackSize + 1,
         UNCHANGED <<frame, argc>>
  PROVE  Activations' = Calls!InCallee(WordsOf(stk', frame + 2, sp'))
<1>1. /\ Activations = ActsOf(stk, sp, n, fr, argc) /\ Len(Activations) = n
  BY CalleeSeen
<1>2. Laid(stk, sp, n, fr, argc) /\ fr[n] = frame
  BY DEF Sees
<1>3. /\ Laid(stk', sp', n, fr, argc)
      /\ ActsOf(stk', sp', n, fr, argc) =
           Calls!WithOwn(ActsOf(stk, sp, n, fr, argc), n, WordsOf(stk', frame + 2, sp'))
  BY <1>2, CalleeStep
<1>4. Activations' = ActsOf(stk', sp', n, fr, argc)
  BY <1>2, <1>3, ActsAfter
<1> QED
  BY <1>1, <1>3, <1>4 DEF Calls!InCallee

\* The topmost words of the function that runs, and the rest.
LEMMA PoppedTaken ==
  ASSUME NEW n, NEW fr, Sees(n, fr), NEW m \in Nat, Holds(m)
  PROVE  /\ m <= Len(Calls!Callee.own)
         /\ Calls!Popped(Calls!Callee.own, m) = WordsOf(stk, frame + 2, sp - m)
         /\ Calls!Taken(Calls!Callee.own, m) = Read(sp - m + 1, m)
         /\ Span(frame + 2, sp - m) /\ sp - m + 1 \in Nat
         /\ Read(sp - m + 1, m) \in [1 .. m -> Int]
<1> DEFINE o == Calls!Callee.own
           l == frame + 2
<1>1. /\ frame \in Nat /\ sp \in Int /\ frame + 1 <= sp /\ Span(l, sp)
      /\ o = WordsOf(stk, l, sp) /\ Len(o) = sp - frame - 1
  BY CalleeSeen
<1>2. TypeOK /\ stk \in [Memory -> Int] /\ sp < StackSize
  BY DEF Sees, TypeOK
<1>3. frame + 1 <= sp - m
  BY <1>1 DEF Holds
<1>4. Span(l, sp - m) /\ sp - m + 1 \in Nat
  BY <1>1, <1>2, <1>3, StackAssumption DEF Span
<1> HIDE DEF o, l
<1>5. Calls!Popped(o, m) = WordsOf(stk, l, sp - m)
  <2>1. /\ 1 <= Len(o) - m + 1 /\ Len(o) - m <= sp - l + 1
        /\ Len(o) - m \in Int /\ l + (Len(o) - m) - 1 = sp - m /\ l + 1 - 1 = l
    BY <1>1, <1>3 DEF l
  <2> DEFINE j == Len(o) - m
  <2> HIDE DEF j
  <2>3. j \in Int /\ 1 \in Int /\ 1 <= 1 /\ 1 <= j + 1 /\ j <= sp - l + 1
    BY <2>1 DEF j
  <2>4. Span(l, sp) /\ stk \in [Memory -> Int]
    BY <1>1, <1>2
  <2>2. SubSeq(WordsOf(stk, l, sp), 1, j) = WordsOf(stk, l + 1 - 1, l + j - 1)
    BY <2>3, <2>4, WordsPart
  <2> QED
    BY <1>1, <2>1, <2>2 DEF Calls!Popped, j
<1>6. Calls!Taken(o, m) = WordsOf(stk, sp - m + 1, sp)
  <2> DEFINE i == Len(o) - m + 1
             j == Len(o)
  <2>1. /\ i \in Int /\ j \in Int /\ 1 <= i /\ i <= j + 1 /\ j <= sp - l + 1
        /\ l + i - 1 = sp - m + 1 /\ l + j - 1 = sp
    BY <1>1, <1>3 DEF l
  <2>2. Calls!Taken(o, m) = SubSeq(o, i, j)
    BY DEF Calls!Taken
  <2> HIDE DEF i, j
  <2>3. SubSeq(WordsOf(stk, l, sp), i, j) = WordsOf(stk, l + i - 1, l + j - 1)
    BY <1>1, <1>2, <2>1, WordsPart
  <2> QED
    BY <1>1, <2>1, <2>2, <2>3
<1>7. WordsOf(stk, sp - m + 1, sp) = Read(sp - m + 1, m)
  <2>1. sp - (sp - m + 1) + 1 = m
    BY <1>1
  <2> QED
    BY <2>1 DEF WordsOf, Read
<1>8. Read(sp - m + 1, m) \in [1 .. m -> Int]
  <2> DEFINE v == sp - m + 1
  <2>1. v \in Int /\ 0 <= v /\ v + m - 1 <= StackSize
    BY <1>1, <1>2, <1>4, StackAssumption
  <2> HIDE DEF v
  <2>2. Read(v, m) \in [1 .. m -> Int]
    BY <1>2, <2>1, ReadWords
  <2> QED
    BY <2>2 DEF v
<1>9. m <= Len(o)
  BY <1>1, <1>3
<1> QED
  BY <1>4, <1>5, <1>6, <1>7, <1>8, <1>9 DEF o, l

\* Words put where some of its own were taken off, or behind them.
LEMMA Pushed ==
  ASSUME NEW n, NEW fr, Sees(n, fr), NEW t \in Int, frame + 1 <= t, t <= sp,
         NEW m \in 0 .. 2, NEW r \in [1 .. m -> Int],
         Continue(Write(t + 1, r), t + m), UNCHANGED <<frame, argc>>,
         status' = "run"
  PROVE  /\ r \in Seq(Int) /\ Len(r) = m
         /\ Activations' = Calls!InCallee(WordsOf(stk, frame + 2, t) \o r)
<1>1. frame \in Nat /\ sp \in Int /\ sp < StackSize /\ TypeOK /\ stk \in [Memory -> Int]
  BY CalleeSeen DEF Sees, TypeOK
<1> DEFINE w == t + 1
           hi == t + m
<1>2. w \in Nat /\ m \in Nat /\ w + m <= StackSize + 2 /\ hi \in Int
  BY <1>1, StackAssumption
<1>3. stk' = Write(w, r) /\ sp' = hi
  BY DEF Continue
<1>4. w + m - 1 = hi /\ frame + 2 <= w /\ hi <= StackSize + 1 /\ frame + 1 <= hi
  BY <1>1, StackAssumption
<1> HIDE DEF w
<1>5. /\ stk' \in [Memory -> Int] /\ SameBelow(stk, stk', w)
      /\ \A k \in 1 .. m : stk'[w + k - 1] = r[k]
      /\ r \in Seq(Int) /\ Len(r) = m
  BY <1>1, <1>2, <1>3, Written
<1>6. SameBelow(stk, stk', frame + 2)
  <2>1. \A x \in Memory : x \in Int
    BY StackAssumption DEF Memory
  <2>2. \A x \in Memory : x < frame + 2 => x < w
    BY <1>1, <1>2, <1>4, <2>1
  <2> QED
    BY <1>5, <2>2 DEF SameBelow
<1> HIDE DEF hi
<1>7. Activations' = Calls!InCallee(WordsOf(stk', frame + 2, hi))
  BY <1>2, <1>3, <1>4, <1>5, <1>6, CalleeAfter
<1>8. WordsOf(stk, frame + 2, t) \o r = WordsOf(stk', frame + 2, hi)
  <2> DEFINE lo == frame + 2
  <2>1. Span(lo, t) /\ Span(lo, hi) /\ hi = t + Len(r)
    BY <1>1, <1>2, <1>4, <1>5, StackAssumption DEF Span, w, hi
  <2>2. Joined(stk, stk', lo, t, r, hi)
    <3>1. ASSUME NEW x \in lo .. t PROVE stk'[x] = stk[x]
      <4>1. x \in Memory /\ x < w
        BY <1>1, <1>2, StackAssumption DEF Memory, w
      <4> QED
        BY <1>5, <4>1 DEF SameBelow
    <3>2. ASSUME NEW k \in 1 .. Len(r) PROVE stk'[t + k] = r[k]
      <4>1. t + k = w + k - 1 /\ k \in 1 .. m
        BY <1>5 DEF w
      <4> QED
        BY <1>5, <4>1
    <3>3. stk \in [Memory -> Int] /\ stk' \in [Memory -> Int] /\ r \in Seq(Int)
      BY <1>1, <1>5
    <3> HIDE DEF lo
    <3> QED
      BY <2>1, <3>1, <3>2, <3>3 DEF Joined
  <2> HIDE DEF lo
  <2>3. WordsOf(stk, lo, t) \o r = WordsOf(stk', lo, hi)
    BY <2>2, WordsJoined, SMTT(30)
  <2> QED
    BY <2>3 DEF lo
<1> QED
  BY <1>5, <1>7, <1>8

LEMMA OperateMaps == ASSUME IInv, NEW a \in Arity, Operate(a) PROVE Calls!Next
<1>1. PICK res \in [1 .. a[2] -> Words] :
         Continue(Write(sp - a[1] + 1, res), sp - a[1] + a[2])
  BY DEF Operate
<1>2. status = "run" /\ Holds(a[1]) /\ UNCHANGED <<frame, argc, back>>
  BY DEF Operate
<1>3. PICK n, fr : Sees(n, fr)
  BY <1>2, SomethingSeen
<1>4. a[1] \in Nat /\ a[2] \in 0 .. 2
  BY DEF Arity
<1>5. CASE status' = "run"
  <2> DEFINE t == sp - a[1]
             o == Calls!Callee.own
  <2>1. /\ frame \in Nat /\ sp \in Int /\ o \in Seq(Int) /\ Activations # <<>>
    BY <1>3, CalleeSeen
  <2>2. t \in Int /\ frame + 1 <= t /\ t <= sp
    BY <1>2, <1>4, <2>1 DEF Holds
  <2>3. /\ a[1] <= Len(o) /\ Calls!Popped(o, a[1]) = WordsOf(stk, frame + 2, t)
    BY <1>2, <1>3, <1>4, PoppedTaken
  <2>4. res \in [1 .. a[2] -> Int]
    BY StackAssumption
  <2>5. Continue(Write(t + 1, res), t + a[2])
    BY <1>1
  <2>9. a[1] \in 0 .. Len(o)
    BY <1>4, <2>1, <2>3
  <2> HIDE DEF t, o
  <2>6. Activations' = Calls!InCallee(WordsOf(stk, frame + 2, t) \o res)
    BY <1>2, <1>3, <1>4, <1>5, <2>2, <2>4, <2>5, Pushed
  <2>7. Activations' = Calls!InCallee(Calls!Popped(o, a[1]) \o res)
    BY <2>3, <2>6
  <2>8. Calls!Operate
    BY <1>2, <1>4, <2>1, <2>7, <2>9 DEF Calls!Operate, o
  <2> QED
    BY <2>8 DEF Calls!Next
<1> QED
  BY <1>5, Overflown

LEMMA ReadIsWords ==
  ASSUME NEW w \in Int, NEW m \in Nat
  PROVE  Read(w, m) = WordsOf(stk, w, w + m - 1)
<1>1. (w + m - 1) - w + 1 = m
  OBVIOUS
<1> QED
  BY <1>1 DEF Read, WordsOf

LEMMA LoadLocalMaps ==
  ASSUME IInv, NEW m \in 1 .. 2, LoadLocal(m) PROVE Calls!Next
<1>1. status = "run" /\ UNCHANGED <<frame, argc, back>>
  BY DEF LoadLocal
<1>2. PICK w \in Locals(m) : Continue(Write(sp + 1, Read(w, m)), sp + m)
  BY DEF LoadLocal
<1>3. PICK n, fr : Sees(n, fr)
  BY <1>1, SomethingSeen
<1>4. CASE status' = "run"
  <2> DEFINE o == Calls!Callee.own
             l == frame + 2
             i == w - l + 1
             r == Read(w, m)
  <2>1. /\ frame \in Nat /\ sp \in Int /\ frame + 1 <= sp /\ Activations # <<>>
        /\ o = WordsOf(stk, l, sp) /\ Len(o) = sp - frame - 1 /\ Span(l, sp)
    BY <1>3, CalleeSeen
  <2>2. TypeOK /\ stk \in [Memory -> Int] /\ sp < StackSize /\ StackSize \in Nat
    BY <1>3, StackAssumption DEF Sees, TypeOK
  <2>3. w \in Int /\ l <= w /\ w + m - 1 <= sp
    BY <2>1 DEF Locals
  <2>4. r \in [1 .. m -> Int]
    <3>1. 0 <= w /\ w + m - 1 <= StackSize /\ m \in Nat
      BY <2>1, <2>2, <2>3
    <3> QED
      BY <2>2, <2>3, <3>1, ReadWords
  <2>5. /\ i \in Int /\ i + m - 1 \in Int /\ 1 <= i /\ i <= i + m - 1 + 1
        /\ i + m - 1 <= sp - l + 1 /\ l + i - 1 = w /\ l + (i + m - 1) - 1 = w + m - 1
    BY <2>1, <2>3
  <2>6. SubSeq(o, i, i + m - 1) = r
    <3> DEFINE j == i + m - 1
    <3>3. j \in Int /\ i <= j + 1 /\ j <= sp - l + 1
      BY <2>5
    <3>4. o = WordsOf(stk, l, sp) /\ Span(l, sp) /\ stk \in [Memory -> Int]
      BY <2>1, <2>2
    <3>5. i \in Int /\ 1 <= i
      BY <2>5
    <3> HIDE DEF o, l, i, j
    <3>1. SubSeq(o, i, j) = WordsOf(stk, l + i - 1, l + j - 1)
      BY <3>3, <3>4, <3>5, WordsPart
    <3>2. r = WordsOf(stk, w, w + m - 1)
      BY <2>3, ReadIsWords
    <3> QED
      BY <2>5, <3>1, <3>2 DEF j
  <2>7. Activations' = Calls!InCallee(o \o r)
    <3>1. sp \in Int /\ frame + 1 <= sp /\ sp <= sp /\ m \in 0 .. 2
      BY <2>1
    <3> HIDE DEF r
    <3>2. Continue(Write(sp + 1, r), sp + m)
      BY <1>2 DEF r
    <3> QED
      BY <1>1, <1>3, <1>4, <2>1, <2>4, <3>1, <3>2, Pushed
  <2>8. i \in 1 .. Len(o) - m + 1
    <3> HIDE DEF o
    <3> QED
      BY <2>1, <2>3, <2>5
  <2> HIDE DEF r, i
  <2>9. Calls!LoadLocal(m)
    BY <1>1, <2>1, <2>6, <2>7, <2>8 DEF Calls!LoadLocal
  <2> QED
    BY <2>9 DEF Calls!Next
<1> QED
  BY <1>4, Overflown

\* Words of the caller's that are arguments.
LEMMA ArgumentSeen ==
  ASSUME NEW n, NEW fr, Sees(n, fr), frame # 0,
         NEW m \in 1 .. 2, NEW w \in Arguments(m),
         NEW i, i = w - fr[n - 1] - 1
  PROVE  /\ w \in Nat /\ fr[n - 1] + 2 <= w /\ w + m - 1 < frame
         /\ i \in Int /\ i + m - 1 \in Int
         /\ i \in Calls!FirstArgument .. Len(Calls!Caller.own) - m + 1
         /\ SubSeq(Calls!Caller.own, i, i + m - 1) = Read(w, m)
         /\ Read(w, m) \in [1 .. m -> Int]
<1> DEFINE c == Calls!Caller.own
           l == fr[n - 1] + 2
<1>1. /\ fr[n - 1] \in Nat /\ argc[n] \in Nat /\ l + argc[n] <= frame
      /\ Span(l, frame - 1) /\ c = WordsOf(stk, l, frame - 1)
      /\ Len(c) = frame - fr[n - 1] - 2
  BY CallerSeen
<1>2. /\ n \in Nat \ {0} /\ frame \in Nat /\ sp \in Int /\ frame + 1 <= sp
      /\ Calls!Callee.args = argc[n]
  BY CalleeSeen
<1>3. TypeOK /\ stk \in [Memory -> Int] /\ sp < StackSize /\ StackSize \in Nat
  BY StackAssumption DEF Sees, TypeOK
<1>4. Last(argc) = argc[n]
  BY DEF Last, Sees
<1>5. w \in Int /\ frame - argc[n] <= w /\ w + m - 1 < frame
  BY <1>1, <1>2, <1>4 DEF Arguments
<1> DEFINE x == fr[n - 1]
           g == argc[n]
<1>11. /\ x \in Nat /\ g \in Nat /\ l = x + 2 /\ l + g <= frame /\ frame \in Nat
       /\ w \in Int /\ frame - g <= w /\ w + m - 1 < frame /\ i = w - x - 1
  BY <1>1, <1>2, <1>5
<1>12. Calls!FirstArgument = Len(c) - g + 1 /\ Len(c) = frame - x - 2
  BY <1>1, <1>2 DEF Calls!FirstArgument
<1> HIDE DEF x, g, l, c
<1>6. w \in Nat /\ l <= w
  BY <1>11
<1>7. /\ i \in Int /\ i + m - 1 \in Int /\ 1 <= i /\ i <= i + m - 1 + 1
      /\ i + m - 1 <= frame - 1 - l + 1 /\ l + i - 1 = w /\ l + (i + m - 1) - 1 = w + m - 1
  BY <1>6, <1>11
<1>8. i \in Calls!FirstArgument .. Len(c) - m + 1
  <2>1. Calls!FirstArgument = frame - x - 2 - g + 1 /\ Len(c) - m + 1 = frame - x - 2 - m + 1
    BY <1>12
  <2>2. frame - x - 2 - g + 1 <= i /\ i <= frame - x - 2 - m + 1 /\ i \in Int
    BY <1>11
  <2>3. i \in (frame - x - 2 - g + 1) .. (frame - x - 2 - m + 1)
    BY <1>11, <2>2
  <2> QED
    BY <2>1, <2>3
<1>9. SubSeq(c, i, i + m - 1) = Read(w, m)
  <2> DEFINE j == i + m - 1
  <2>3. j \in Int /\ i <= j + 1 /\ j <= (frame - 1) - l + 1
    BY <1>7
  <2>4. c = WordsOf(stk, l, frame - 1) /\ Span(l, frame - 1) /\ stk \in [Memory -> Int]
    BY <1>1, <1>3
  <2> HIDE DEF c, l, j
  <2>5. i \in Int /\ 1 <= i
    BY <1>7
  <2> DEFINE h == frame - 1
  <2>6. j <= h - l + 1 /\ Span(l, h) /\ c = WordsOf(stk, l, h)
    BY <2>3, <2>4
  <2> HIDE DEF h
  <2>7. SubSeq(WordsOf(stk, l, h), i, j) = WordsOf(stk, l + i - 1, l + j - 1)
    BY <2>3, <2>4, <2>5, <2>6, WordsPart, ZenonT(30)
  <2>1. SubSeq(c, i, j) = WordsOf(stk, l + i - 1, l + j - 1)
    BY <2>6, <2>7
  <2>2. Read(w, m) = WordsOf(stk, w, w + m - 1)
    BY <1>5, ReadIsWords
  <2> QED
    BY <1>7, <2>1, <2>2 DEF j
<1>10. Read(w, m) \in [1 .. m -> Int]
  <2>1. 0 <= w /\ w + m - 1 <= StackSize /\ m \in Nat
    BY <1>2, <1>3, <1>5, <1>6
  <2> QED
    BY <1>3, <1>5, <2>1, ReadWords
<1> QED
  BY <1>5, <1>6, <1>7, <1>8, <1>9, <1>10 DEF c, l

LEMMA LoadArgumentMaps ==
  ASSUME IInv, NEW m \in 1 .. 2, LoadArgument(m) PROVE Calls!Next
<1>1. status = "run" /\ frame # 0 /\ UNCHANGED <<frame, argc, back>>
  BY DEF LoadArgument
<1>2. PICK w \in Arguments(m) : Continue(Write(sp + 1, Read(w, m)), sp + m)
  BY DEF LoadArgument
<1>3. PICK n, fr : Sees(n, fr)
  BY <1>1, SomethingSeen
<1>4. CASE status' = "run"
  <2> DEFINE o == Calls!Callee.own
             i == w - fr[n - 1] - 1
             r == Read(w, m)
  <2>1. /\ frame \in Nat /\ sp \in Int /\ frame + 1 <= sp
        /\ o = WordsOf(stk, frame + 2, sp) /\ Len(Activations) = n /\ n \in Nat \ {0}
    BY <1>3, CalleeSeen
  <2>2. n # 1
    BY <1>1, <1>3, CallerSeen
  <2>3. /\ i \in Calls!FirstArgument .. Len(Calls!Caller.own) - m + 1
        /\ SubSeq(Calls!Caller.own, i, i + m - 1) = r
        /\ r \in [1 .. m -> Int]
    BY <1>1, <1>3, ArgumentSeen
  <2>4. Activations' = Calls!InCallee(o \o r)
    <3>1. sp \in Int /\ frame + 1 <= sp /\ sp <= sp /\ m \in 0 .. 2
      BY <2>1
    <3> HIDE DEF r
    <3>2. Continue(Write(sp + 1, r), sp + m)
      BY <1>2 DEF r
    <3> QED
      BY <1>1, <1>3, <1>4, <2>1, <2>3, <3>1, <3>2, Pushed
  <2>5. Len(Activations) > 1
    BY <2>1, <2>2
  <2> HIDE DEF r, i
  <2>6. Calls!LoadArgument(m)
    BY <1>1, <2>3, <2>4, <2>5 DEF Calls!LoadArgument
  <2> QED
    BY <2>6 DEF Calls!Next
<1> QED
  BY <1>4, Overflown

LEMMA StoreLocalMaps ==
  ASSUME IInv, NEW m \in 1 .. 2, StoreLocal(m) PROVE Calls!Next
<1> DEFINE t == sp - m
           r == Read(sp - m + 1, m)
<1>1. status = "run" /\ Holds(m) /\ UNCHANGED <<frame, argc, back>>
  BY DEF StoreLocal
<1>2. PICK w \in Locals(m) : w + m - 1 <= t /\ Continue(Write(w, r), t)
  BY DEF StoreLocal
<1>3. PICK n, fr : Sees(n, fr)
  BY <1>1, SomethingSeen
<1>4. CASE status' = "run"
  <2> DEFINE o == Calls!Callee.own
             l == frame + 2
             e == w - l + 1
             rest == Calls!Popped(o, m)
  <2>1. /\ frame \in Nat /\ sp \in Int /\ frame + 1 <= sp /\ Activations # <<>>
        /\ Len(o) = sp - frame - 1
    BY <1>3, CalleeSeen
  <2>2. TypeOK /\ stk \in [Memory -> Int] /\ sp < StackSize /\ StackSize \in Nat
    BY <1>3, StackAssumption DEF Sees, TypeOK
  <2>3. /\ m <= Len(o) /\ rest = WordsOf(stk, l, t) /\ Calls!Taken(o, m) = r
        /\ Span(l, t) /\ r \in [1 .. m -> Int] /\ m \in Nat
    BY <1>1, <1>3, PoppedTaken
  <2>4. w \in Nat /\ l <= w /\ w + m - 1 <= t
    BY <1>2, <2>1 DEF Locals
  <2>5. t \in Int /\ frame + 1 <= t /\ t <= sp
    BY <1>1, <2>1 DEF Holds
  <2> HIDE DEF r, t, rest
  <2>6. stk' = Write(w, r) /\ sp' = t
    BY <1>2 DEF Continue
  <2>7. w + m <= StackSize + 2
    BY <2>1, <2>2, <2>4, <2>5
  <2>8. /\ stk' \in [Memory -> Int] /\ SameBelow(stk, stk', w)
        /\ \A x \in Memory : w + m - 1 < x => stk'[x] = stk[x]
        /\ \A k \in 1 .. m : stk'[w + k - 1] = r[k]
        /\ r \in Seq(Int) /\ Len(r) = m
    BY <2>2, <2>3, <2>4, <2>6, <2>7, Written
  <2>9. SameBelow(stk, stk', l)
    <3>1. \A x \in Memory : x < l => x < w
      BY <2>1, <2>4, StackAssumption DEF Memory
    <3> QED
      BY <2>8, <3>1 DEF SameBelow
  <2>10. Activations' = Calls!InCallee(WordsOf(stk', l, t))
    <3>1. sp' \in Int /\ frame + 1 <= sp' /\ sp' <= StackSize + 1
      BY <2>1, <2>2, <2>5, <2>6
    <3> QED
      BY <1>1, <1>3, <1>4, <2>6, <2>8, <2>9, <3>1, CalleeAfter
  <2>11. Calls!Overwritten(rest, e, r) = WordsOf(stk', l, t)
    <3>1. ASSUME NEW x \in l .. t, ~(w <= x /\ x <= w + m - 1) PROVE stk'[x] = stk[x]
      <4>1. x \in Memory /\ x \in Int
        BY <2>1, <2>2, <2>5 DEF Memory
      <4>2. x < w \/ w + m - 1 < x
        BY <2>4, <3>1, <4>1
      <4> QED
        BY <2>8, <4>1, <4>2 DEF SameBelow
    <3>2. Over(stk, stk', l, t, w, r)
      <4> HIDE DEF l
      <4> QED
        BY <2>2, <2>3, <2>4, <2>8, <3>1 DEF Over
    <3> HIDE DEF l
    <3>3. Calls!Overwritten(WordsOf(stk, l, t), e, r) = WordsOf(stk', l, t)
      BY <3>2, WordsOver
    <3> QED
      BY <2>3, <3>3
  <2>12. Len(rest) = sp - m - frame - 1
    <3>1. AreWords(rest, stk, l, t)
      BY <2>2, <2>3, WordsType
    <3> QED
      BY <2>1, <3>1 DEF AreWords, t
  <2>13. e \in 1 .. Len(rest) - m + 1
    BY <2>1, <2>4, <2>12 DEF t
  <2> HIDE DEF e, o
  <2>14. Calls!StoreLocal(m)
    BY <1>1, <2>1, <2>3, <2>10, <2>11, <2>13 DEF Calls!StoreLocal, rest, o
  <2> QED
    BY <2>14 DEF Calls!Next
<1> QED
  BY <1>4, Overflown

LEMMA StoreArgumentMaps ==
  ASSUME IInv, NEW m \in 1 .. 2, StoreArgument(m) PROVE Calls!Next
<1> DEFINE t == sp - m
           r == Read(sp - m + 1, m)
<1>1. status = "run" /\ frame # 0 /\ Holds(m) /\ UNCHANGED <<frame, argc, back>>
  BY DEF StoreArgument
<1>2. PICK w \in Arguments(m) : Continue(Write(w, r), t)
  BY DEF StoreArgument
<1>3. PICK n, fr : Sees(n, fr)
  BY <1>1, SomethingSeen
<1>4. CASE status' = "run"
  <2> DEFINE o == Calls!Callee.own
             c == Calls!Caller.own
             l == fr[n - 1] + 2
             e == w - fr[n - 1] - 1
             rest == Calls!Popped(o, m)
             args == WordsOf(stk', l, frame - 1)
  <2>1. /\ frame \in Nat /\ sp \in Int /\ frame + 1 <= sp
        /\ Activations = ActsOf(stk, sp, n, fr, argc) /\ Len(Activations) = n
        /\ n \in Nat \ {0}
    BY <1>3, CalleeSeen
  <2>2. TypeOK /\ stk \in [Memory -> Int] /\ sp < StackSize /\ StackSize \in Nat
    BY <1>3, StackAssumption DEF Sees, TypeOK
  <2>3. /\ m <= Len(o) /\ rest = WordsOf(stk, frame + 2, t) /\ Calls!Taken(o, m) = r
        /\ r \in [1 .. m -> Int] /\ m \in Nat
    BY <1>1, <1>3, PoppedTaken
  <2>4. /\ n # 1 /\ fr[n - 1] \in Nat /\ Span(l, frame - 1)
        /\ c = WordsOf(stk, l, frame - 1)
    BY <1>1, <1>3, CallerSeen
  <2>5. t \in Int /\ frame + 1 <= t /\ t <= sp
    BY <1>1, <2>1 DEF Holds
  <2>6. /\ w \in Nat /\ l <= w /\ w + m - 1 < frame
        /\ e \in Calls!FirstArgument .. Len(c) - m + 1
    BY <1>1, <1>3, ArgumentSeen
  <2> HIDE DEF r, t, rest, o, c
  <2>7. stk' = Write(w, r) /\ sp' = t
    BY <1>2 DEF Continue
  <2>8. w + m <= StackSize + 2
    BY <2>1, <2>2, <2>6
  <2>9. /\ stk' \in [Memory -> Int] /\ SameBelow(stk, stk', w)
        /\ \A x \in Memory : w + m - 1 < x => stk'[x] = stk[x]
        /\ \A k \in 1 .. m : stk'[w + k - 1] = r[k]
        /\ r \in Seq(Int) /\ Len(r) = m
    BY <2>2, <2>3, <2>6, <2>7, <2>8, Written
  <2>10. SameBelow(stk, stk', l)
    <3>1. \A x \in Memory : x < l => x < w
      BY <2>4, <2>6, StackAssumption DEF Memory
    <3> QED
      BY <2>9, <3>1 DEF SameBelow
  <2>11. \A x \in Memory : x >= frame => stk'[x] = stk[x]
    <3>1. \A x \in Memory : x >= frame => w + m - 1 < x
      BY <2>1, <2>6, StackAssumption DEF Memory
    <3> QED
      BY <2>9, <3>1
  <2>12. Laid(stk, sp, n, fr, argc) /\ fr[n] = frame
    BY <1>3 DEF Sees
  <2>13. /\ Laid(stk', t, n, fr, argc)
         /\ ActsOf(stk', t, n, fr, argc) =
              Calls!WithOwn(Calls!WithOwn(Activations, n, WordsOf(stk, frame + 2, t)),
                            n - 1, args)
    <3>1. fr[n] + 1 <= t /\ \A x \in Memory : x >= fr[n] => stk'[x] = stk[x]
      BY <2>5, <2>11, <2>12
    <3>2. /\ SameBelow(stk, stk', fr[n - 1] + 2) /\ stk' \in [Memory -> Int]
          /\ t \in Int /\ t <= sp /\ n # 1 /\ Laid(stk, sp, n, fr, argc)
      BY <2>4, <2>5, <2>9, <2>10, <2>12
    <3>3. /\ Laid(stk', t, n, fr, argc)
          /\ ActsOf(stk', t, n, fr, argc) =
               Calls!WithOwn(
                 Calls!WithOwn(ActsOf(stk, sp, n, fr, argc), n, WordsOf(stk, fr[n] + 2, t)),
                 n - 1, WordsOf(stk', fr[n - 1] + 2, fr[n] - 1))
      BY <3>1, <3>2, ArgumentStep
    <3> QED
      BY <2>1, <2>12, <3>3
  <2>14. Activations' = ActsOf(stk', t, n, fr, argc)
    BY <1>1, <1>4, <2>7, <2>12, <2>13, ActsAfter
  <2>15. Calls!Overwritten(c, e, r) = args
    <3>1. ASSUME NEW x \in l .. frame - 1, ~(w <= x /\ x <= w + m - 1)
          PROVE  stk'[x] = stk[x]
      <4>1. x \in Memory /\ x \in Int
        BY <2>1, <2>2, <2>4 DEF Memory
      <4>2. x < w \/ w + m - 1 < x
        BY <2>6, <3>1, <4>1
      <4> QED
        BY <2>9, <4>1, <4>2 DEF SameBelow
    <3>2. e = w - l + 1
      BY <2>4, <2>6
    <3>3. w + Len(r) - 1 <= frame - 1 /\ w \in Int
      BY <2>1, <2>6, <2>9
    <3> HIDE DEF l, e
    <3>4. Over(stk, stk', l, frame - 1, w, r)
      BY <2>2, <2>4, <2>6, <2>9, <3>1, <3>3 DEF Over
    <3>5. Calls!Overwritten(WordsOf(stk, l, frame - 1), e, r) = WordsOf(stk', l, frame - 1)
      BY <3>2, <3>4, WordsOver
    <3> QED
      BY <2>4, <3>5
  <2>16. Len(Activations) > 1
    BY <2>1, <2>4
  <2> HIDE DEF e, args
  <2>17. Activations' = Calls!WithOwn(Calls!InCallee(rest), Len(Activations) - 1,
                                      Calls!Overwritten(c, e, r))
    BY <2>1, <2>3, <2>13, <2>14, <2>15 DEF Calls!InCallee
  <2>18. Calls!StoreArgument(m)
    BY <1>1, <2>3, <2>6, <2>16, <2>17 DEF Calls!StoreArgument, rest, o, c
  <2> QED
    BY <2>18 DEF Calls!Next
<1> QED
  BY <1>4, Overflown

LEMMA CallMaps == ASSUME IInv, Call PROVE Calls!Next
<1>1. status = "run" /\ frame' = sp + 1 /\ back' = back
  BY DEF Call
<1>2. PICK ret \in Rets : Continue(Framed(ret), sp + 2)
  BY DEF Call
<1>3. PICK args \in 0 .. sp - frame - 1 : argc' = Append(argc, args)
  BY DEF Call
<1>4. PICK n, fr : Sees(n, fr)
  BY <1>1, SomethingSeen
<1>5. CASE status' = "run"
  <2> DEFINE r   == <<frame, ret>>
             fr2 == [i \in 1 .. n + 1 |-> IF i = n + 1 THEN sp + 1 ELSE fr[i]]
             new == [ret |-> ret, args |-> args, own |-> <<>>]
  <2>1. /\ frame \in Nat /\ sp \in Int /\ frame + 1 <= sp /\ n \in Nat \ {0}
        /\ Activations = ActsOf(stk, sp, n, fr, argc) /\ Activations # <<>>
        /\ Len(Calls!Callee.own) = sp - frame - 1
    BY <1>4, CalleeSeen
  <2>2. /\ TypeOK /\ stk \in [Memory -> Int] /\ sp < StackSize /\ StackSize \in Nat
        /\ n = Len(argc) /\ argc \in Seq(Nat)
        /\ Laid(stk, sp, n, fr, argc) /\ fr[n] = frame
    BY <1>4, StackAssumption DEF Sees, TypeOK
  <2>3. r \in [1 .. 2 -> Int] /\ r[1] = frame /\ r[2] = ret
    BY <2>1, StackAssumption
  <2>4. stk' = Write(sp + 1, r) /\ sp' = sp + 2
    BY <1>2 DEF Continue, Framed
  <2> HIDE DEF r, fr2
  <2>5. /\ stk' \in [Memory -> Int] /\ SameBelow(stk, stk', sp + 1)
        /\ stk'[sp + 1] = frame /\ stk'[sp + 2] = ret
    <3> DEFINE w == sp + 1
    <3>1. w \in Nat /\ 2 \in Nat /\ w + 2 <= StackSize + 2
      BY <2>1, <2>2
    <3>2. w + 1 - 1 = sp + 1 /\ w + 2 - 1 = sp + 2 /\ 1 \in 1 .. 2 /\ 2 \in 1 .. 2
      BY <2>1
    <3> HIDE DEF w
    <3>3. /\ Write(w, r) \in [Memory -> Int] /\ SameBelow(stk, Write(w, r), w)
          /\ \A k \in 1 .. 2 : Write(w, r)[w + k - 1] = r[k]
      BY <2>2, <2>3, <3>1, Written
    <3>4. Write(w, r)[w + 1 - 1] = r[1] /\ Write(w, r)[w + 2 - 1] = r[2]
      BY <3>2, <3>3
    <3> QED
      BY <2>3, <2>4, <3>2, <3>3, <3>4 DEF w
  <2>6. Adds(n, sp + 1, fr, fr2)
    BY DEF Adds, fr2
  <2>7. Adds(n, args, argc, argc')
    <3>1. args \in Nat
      BY <2>1
    <3>2. argc' \in Seq(Nat) /\ Len(argc') = n + 1
      BY <1>3, <2>2, <3>1
    <3>3. \A i \in 1 .. n + 1 : argc'[i] = IF i = n + 1 THEN args ELSE argc[i]
      BY <1>3, <2>1, <2>2, <3>1
    <3>4. argc' = [i \in 1 .. n + 1 |-> argc'[i]]
      BY <3>2
    <3> QED
      BY <3>3, <3>4 DEF Adds
  <2>8. args \in Nat /\ frame + 2 + args <= sp + 1
    BY <2>1
  <2>9. fr2[n + 1] = frame'
    BY <1>1, <2>1, <2>6, Added
  <2>10. /\ Laid(stk', sp + 2, n + 1, fr2, argc')
         /\ ActsOf(stk', sp + 2, n + 1, fr2, argc') =
              Append(Activations, [ret |-> stk'[sp + 2], args |-> args, own |-> <<>>])
    <3>1. sp + 2 <= StackSize + 1
      BY <2>1, <2>2
    <3>2. /\ stk'[sp + 1] = fr[n] /\ fr[n] + 2 + args <= sp + 1
          /\ args \in Nat /\ Laid(stk, sp, n, fr, argc)
      BY <2>2, <2>5, <2>8
    <3>4. stk' \in [Memory -> Int] /\ SameBelow(stk, stk', sp + 1)
      BY <2>5
    <3>3. /\ Laid(stk', sp + 2, n + 1, fr2, argc')
          /\ ActsOf(stk', sp + 2, n + 1, fr2, argc') =
              Append(ActsOf(stk, sp, n, fr, argc),
                     [ret |-> stk'[sp + 2], args |-> args, own |-> <<>>])
      BY <2>6, <2>7, <3>1, <3>2, <3>4, CallStep
    <3> QED
      BY <2>1, <3>3
  <2>11. Activations' = ActsOf(stk', sp', n + 1, fr2, argc')
    BY <1>5, <2>4, <2>9, <2>10, ActsAfter
  <2>12. Activations' = Append(Activations, new)
    BY <2>4, <2>5, <2>10, <2>11
  <2>13. args \in 0 .. Len(Calls!Callee.own) /\ ret \in Words
    BY <2>1, StackAssumption
  <2>14. Calls!Call
    BY <1>1, <2>1, <2>12, <2>13 DEF Calls!Call
  <2> QED
    BY <2>14 DEF Calls!Next
<1> QED
  BY <1>5, Overflown

LEMMA ReturnMaps == ASSUME IInv, NEW m \in 0 .. 2, Return(m) PROVE Calls!Next
<1> DEFINE r == Read(sp - m + 1, m)
           top == Returned(Last(argc))
<1>1. /\ status = "run" /\ frame # 0 /\ Holds(m)
      /\ Continue(Write(top + 1, r), top + m)
      /\ frame' = stk[frame] /\ argc' = Front(argc) /\ back' = stk[frame + 1]
  BY DEF Return
<1>2. PICK n, fr : Sees(n, fr)
  BY <1>1, SomethingSeen
<1>3. CASE status' = "run"
  <2> DEFINE o == Calls!Callee.own
             c == Calls!Caller.own
             k == n - 1
             l == fr[k] + 2
             a == argc[n]
             fr2 == [i \in 1 .. k |-> fr[i]]
             rest == Calls!Popped(c, a)
  <2>1. /\ frame \in Nat /\ sp \in Int /\ frame + 1 <= sp
        /\ Activations = ActsOf(stk, sp, n, fr, argc) /\ Len(Activations) = n
        /\ n \in Nat \ {0}
        /\ Calls!Callee.args = a /\ Calls!Callee.ret = stk[frame + 1]
    BY <1>2, CalleeSeen
  <2>2. /\ TypeOK /\ stk \in [Memory -> Int] /\ sp < StackSize /\ StackSize \in Nat
        /\ n = Len(argc) /\ argc \in Seq(Nat)
        /\ Laid(stk, sp, n, fr, argc) /\ fr[n] = frame
    BY <1>2, StackAssumption DEF Sees, TypeOK
  <2>3. m <= Len(o) /\ Calls!Taken(o, m) = r /\ r \in [1 .. m -> Int] /\ m \in Nat
    BY <1>1, <1>2, PoppedTaken
  <2>4. /\ n # 1 /\ fr[k] \in Nat /\ a \in Nat /\ l + a <= frame
        /\ stk[frame] = fr[k] /\ Span(l, frame - 1)
        /\ c = WordsOf(stk, l, frame - 1) /\ Len(c) = frame - fr[k] - 2
    BY <1>1, <1>2, CallerSeen
  <2>5. k \in Nat \ {0} /\ n = k + 1
    BY <2>1, <2>4
  <2>6. top = frame - a - 1
    BY <2>2 DEF Returned, Last
  <2>7. sp - m >= frame + 1
    BY <1>1 DEF Holds
  <2> HIDE DEF r, top, o, c, k, l, a, fr2, rest
  <2>8. l = fr[k] + 2 /\ top \in Int /\ l <= top + 1 /\ top <= frame - 1 /\ top + 1 \in Nat
    BY <2>1, <2>4, <2>6, SMTT(30) DEF l
  <2>9. stk' = Write(top + 1, r) /\ sp' = top + m
    BY <1>1 DEF Continue
  <2>10. /\ top + m \in Int /\ fr[k] + 1 <= top + m /\ top + m <= StackSize + 1
         /\ top + m <= StackSize
    <3> DEFINE x == fr[k]
    <3>1. /\ x \in Nat /\ l = x + 2 /\ top \in Int /\ l <= top + 1 /\ top <= frame - 1
          /\ frame \in Nat /\ sp \in Int /\ sp < StackSize /\ StackSize \in Nat
          /\ sp - m >= frame + 1 /\ m \in Nat
      BY <2>1, <2>2, <2>3, <2>4, <2>7, <2>8
    <3> HIDE DEF x
    <3>2. top + m \in Int /\ x + 1 <= top + m /\ top + m <= StackSize
      BY <3>1
    <3> QED
      BY <3>1, <3>2 DEF x
  <2>11. /\ stk' \in [Memory -> Int] /\ SameBelow(stk, stk', top + 1)
         /\ \A j \in 1 .. m : stk'[top + 1 + j - 1] = r[j]
         /\ r \in Seq(Int) /\ Len(r) = m
    <3> DEFINE w == top + 1
    <3>1. w \in Nat /\ w + m <= StackSize + 2
      BY <2>2, <2>8, <2>10
    <3> HIDE DEF w
    <3>2. /\ Write(w, r) \in [Memory -> Int] /\ SameBelow(stk, Write(w, r), w)
          /\ \A j \in 1 .. m : Write(w, r)[w + j - 1] = r[j]
          /\ r \in Seq(Int) /\ Len(r) = m
      BY <2>2, <2>3, <3>1, Written
    <3> QED
      BY <2>9, <3>2 DEF w
  <2>12. SameBelow(stk, stk', fr[k] + 2)
    <3>1. \A x \in Memory : x < l => x < top + 1
      BY <2>4, <2>8, StackAssumption DEF Memory
    <3> QED
      BY <2>8, <2>11, <3>1 DEF SameBelow
  <2>13. Cuts(n, fr, argc, k, fr2, argc')
    <3>1. argc' = SubSeq(argc, 1, k)
      BY <1>1, <2>2 DEF Front, k
    <3>5. k \in Nat /\ k <= Len(argc) /\ argc \in Seq(Nat)
      BY <2>2, <2>5
    <3>2. argc' \in Seq(Nat) /\ Len(argc') = k
      BY <3>1, <3>5
    <3>3. \A i \in 1 .. k : argc'[i] = argc[i]
      BY <3>1, <3>5
    <3>4. argc' = [i \in 1 .. k |-> argc[i]]
      BY <3>2, <3>3
    <3> QED
      BY <2>5, <3>4 DEF Cuts, fr2
  <2>14. /\ Laid(stk', top + m, k, fr2, argc')
         /\ ActsOf(stk', top + m, k, fr2, argc') =
              Calls!WithOwn(Front(Activations), k, WordsOf(stk', fr[k] + 2, top + m))
    <3> DEFINE q == top + m
    <3>1. /\ Laid(stk, sp, n, fr, argc) /\ stk' \in [Memory -> Int]
          /\ q \in Int /\ fr[k] + 1 <= q /\ q <= StackSize + 1
      BY <2>2, <2>10, <2>11
    <3> HIDE DEF q
    <3>2. /\ Laid(stk', q, k, fr2, argc')
          /\ ActsOf(stk', q, k, fr2, argc') =
               Calls!WithOwn(Front(ActsOf(stk, sp, n, fr, argc)), k,
                             WordsOf(stk', fr[k] + 2, q))
      BY <2>12, <2>13, <3>1, ReturnStep
    <3> QED
      BY <2>1, <3>2 DEF q
  <2>15. fr2[k] = frame'
    BY <1>1, <2>4, <2>5 DEF fr2
  <2>16. Activations' = ActsOf(stk', top + m, k, fr2, argc')
    BY <1>3, <2>9, <2>14, <2>15, ActsAfter
  <2>17. rest \o r = WordsOf(stk', l, top + m)
    <3>1. rest = WordsOf(stk, l, top)
      <4> DEFINE j == Len(c) - a
      <4>1. /\ j \in Int /\ 1 <= j + 1 /\ j <= (frame - 1) - l + 1
            /\ l + j - 1 = top /\ l + 1 - 1 = l
        <5> DEFINE x == fr[k]
        <5>1. x \in Nat /\ l = x + 2 /\ a \in Nat /\ j = frame - x - 2 - a /\ l + a <= frame
          BY <2>4, <2>8
        <5>2. frame \in Nat /\ top = frame - a - 1
          BY <2>1, <2>6
        <5> HIDE DEF x, j
        <5>3. j \in Int /\ l \in Int /\ 1 <= j + 1 /\ j <= (frame - 1) - l + 1
          BY <5>1, <5>2
        <5>4. l + j - 1 = top /\ l + 1 - 1 = l
          BY <5>1, <5>2
        <5> QED
          BY <5>3, <5>4
      <4>2. rest = SubSeq(c, 1, j)
        BY DEF Calls!Popped, rest
      <4> HIDE DEF j
      <4>3. 1 \in Int /\ 1 <= 1
        OBVIOUS
      <4>4. SubSeq(WordsOf(stk, l, frame - 1), 1, j) = WordsOf(stk, l + 1 - 1, l + j - 1)
        BY <2>2, <2>4, <4>1, <4>3, WordsPart, ZenonT(30)
      <4> QED
        BY <2>4, <4>1, <4>2, <4>4
    <3>2. Joined(stk, stk', l, top, r, top + m)
      <4>1. Span(l, top) /\ Span(l, top + m) /\ top + m = top + Len(r)
        BY <2>1, <2>2, <2>4, <2>8, <2>10, <2>11 DEF Span
      <4>2. ASSUME NEW x \in l .. top PROVE stk'[x] = stk[x]
        <5>2. x \in Int /\ l <= x /\ x <= top /\ l \in Nat
          BY <2>4, <2>8
        <5>1. x \in Memory /\ x < top + 1
          BY <2>1, <2>2, <2>8, <5>2, SMTT(30) DEF Memory
        <5> QED
          BY <2>11, <5>1 DEF SameBelow
      <4>3. ASSUME NEW j \in 1 .. Len(r) PROVE stk'[top + j] = r[j]
        <5>1. top + j = top + 1 + j - 1 /\ j \in 1 .. m
          BY <2>8, <2>11
        <5> QED
          BY <2>11, <5>1
      <4> QED
        BY <2>2, <2>11, <4>1, <4>2, <4>3 DEF Joined
    <3> QED
      BY <3>1, <3>2, WordsJoined, SMTT(30)
  <2>18. Len(Activations) > 1 /\ Len(Activations) - 1 = k
    BY <2>1, <2>5
  <2>19. Activations' = Calls!WithOwn(Front(Activations), k, rest \o r)
    BY <2>8, <2>14, <2>16, <2>17
  <2>20. Front(Activations) = Calls!Front(Activations)
    BY DEF Front, Calls!Front
  <2>21. Calls!Return(m)
    BY <1>1, <2>1, <2>3, <2>18, <2>19, <2>20 DEF Calls!Return, rest, o, c, a
  <2> QED
    BY <2>21 DEF Calls!Next
<1> QED
  BY <1>3, Overflown

LEMMA EndMaps == ASSUME MainReturns \/ Exit PROVE Calls!Next
<1>1. status' # "run"
  BY DEF MainReturns, Exit
<1> QED
  BY <1>1, Overflown

\* With main's frame alone on it, the stack is main's, without words.
LEMMA OnlyMainSeen ==
  ASSUME NEW s \in [Memory -> Int]
  PROVE  /\ Laid(s, 1, 1, <<0>>, <<0>>) /\ <<0>>[1] = 0
         /\ Len(ActsOf(s, 1, 1, <<0>>, <<0>>)) = 1
         /\ ActsOf(s, 1, 1, <<0>>, <<0>>)[1].own = <<>>
<1> DEFINE z == <<0>>
           A == ActsOf(s, 1, 1, z, z)
<1>1. z \in [1 .. 1 -> {0}] /\ z[1] = 0 /\ 0 \in Memory
  BY StackAssumption DEF Memory
<1> HIDE DEF z
<1>2. z \in [1 .. 1 -> Memory] /\ z \in [1 .. 1 -> Nat]
  BY <1>1
<1>3. LeadUp(s, 1, z)
  BY <1>1, <1>2 DEF LeadUp
<1>4. Laid(s, 1, 1, z, z)
  BY <1>1, <1>2, <1>3, StackAssumption DEF Laid
<1>5. Len(A) = 1
  <2> DEFINE k == 1
  <2>1. Laid(s, k, k, z, z)
    BY <1>4
  <2> HIDE DEF A, k
  <2>2. Len(ActsOf(s, k, k, z, z)) = k
    BY <2>1, ActsType
  <2> QED
    BY <2>2 DEF A, k
<1>6. A[1].own = OwnOf(s, 1, 1, z, 1)
  BY DEF ActsOf
<1>7. OwnOf(s, 1, 1, z, 1) = <<>>
  BY <1>1 DEF OwnOf, WordsOf, TopOf
<1> QED
  BY <1>1, <1>4, <1>5, <1>6, <1>7 DEF z

LEMMA RerunMaps == ASSUME RerunsFromMain, IInv, Rerun PROVE Calls!Next
<1>1. /\ frame' = 0 /\ back' = back /\ sp' = 1 /\ argc' = <<0>>
      /\ status # "run" /\ status' = "run"
  BY DEF Rerun, RerunsFromMain
<1>2. stk' \in [Memory -> Int]
  BY RerunKeeps DEF IInv, TypeOK
<1>3. /\ Laid(stk', 1, 1, <<0>>, <<0>>) /\ <<0>>[1] = 0
      /\ Len(ActsOf(stk', 1, 1, <<0>>, <<0>>)) = 1
      /\ ActsOf(stk', 1, 1, <<0>>, <<0>>)[1].own = <<>>
  BY <1>2, OnlyMainSeen
<1>4. Laid(stk', sp', 1, <<0>>, argc') /\ <<0>>[1] = frame'
  BY <1>1, <1>3
<1>5. Activations' = ActsOf(stk', 1, 1, <<0>>, <<0>>)
  BY <1>1, <1>4, ActsAfter
<1>6. Activations = <<>>
  BY <1>1, ActivationsFrom
<1>7. Calls!Restart
  BY <1>1, <1>3, <1>5, <1>6 DEF Calls!Restart, Calls!OnlyMain
<1> QED
  BY <1>7 DEF Calls!Next

LEMMA InitMaps == ASSUME Init PROVE Calls!Init
<1>1. frame = 0 /\ back = 0 /\ sp = 1 /\ argc = <<0>> /\ status = "run"
  BY DEF Init
<1>2. stk \in [Memory -> Int]
  BY InitIInv DEF IInv, TypeOK
<1>3. /\ Laid(stk, 1, 1, <<0>>, <<0>>) /\ <<0>>[1] = 0
      /\ Len(ActsOf(stk, 1, 1, <<0>>, <<0>>)) = 1
      /\ ActsOf(stk, 1, 1, <<0>>, <<0>>)[1].own = <<>>
  BY <1>2, OnlyMainSeen
<1>4. Laid(stk, sp, 1, <<0>>, argc) /\ <<0>>[1] = frame
  BY <1>1, <1>3
<1>5. Activations = ActsOf(stk, 1, 1, <<0>>, <<0>>)
  BY <1>1, <1>4, ActsBefore
<1> QED
  BY <1>1, <1>3, <1>5 DEF Calls!Init, Calls!OnlyMain

\* Nothing CallStack sees depends on anything but the variables.
LEMMA StutterMaps == ASSUME UNCHANGED vars PROVE UNCHANGED Calls!cvars
BY DEF vars, Calls!cvars, Activations, Own, FramesTo

\* The calling convention: whatever a guest that keeps to its words does, with
\* whatever words, every function has its words to itself, sees the arguments
\* its caller pushed, and is resumed after its call with what it had, less the
\* arguments, plus the result (CALL and RET of shared_impl.h, LDL, LDA, STL and
\* STA of stack_impl.h).
THEOREM StackRefinesCalls == ASSUME RerunsFromMain PROVE Spec => AbsSpec
<1>1. Init => Calls!Init
  BY InitMaps
<1>2. IInv /\ [Next]_vars => [Calls!Next]_Calls!cvars
  <2> SUFFICES ASSUME IInv, [Next]_vars PROVE [Calls!Next]_Calls!cvars
    OBVIOUS
  <2>1. CASE \E a \in Arity : Operate(a)
    BY <2>1, OperateMaps
  <2>2. CASE \E m \in 1 .. 2 : \/ LoadLocal(m) \/ LoadArgument(m)
                              \/ StoreLocal(m) \/ StoreArgument(m)
    BY <2>2, LoadLocalMaps, LoadArgumentMaps, StoreLocalMaps, StoreArgumentMaps
  <2>3. CASE Call
    BY <2>3, CallMaps
  <2>4. CASE \E m \in 0 .. 2 : Return(m)
    BY <2>4, ReturnMaps
  <2>5. CASE MainReturns \/ Exit
    BY <2>5, EndMaps
  <2>6. CASE Rerun
    BY <2>6, RerunMaps
  <2>7. CASE UNCHANGED vars
    BY <2>7, StutterMaps
  <2> QED
    BY <2>1, <2>2, <2>3, <2>4, <2>5, <2>6, <2>7 DEF Next
<1> QED
  BY <1>1, <1>2, InitIInv, NextIInv, PTL DEF Spec, AbsSpec, Calls!Spec
=============================================================================
