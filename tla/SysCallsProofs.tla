---------------------------- MODULE SysCallsProofs ----------------------------
(***************************************************************************)
(* System calls, for every size of sysArgs and all values.                 *)
(*                                                                         *)
(* SARG checks nothing. For a guest that puts no more arguments than       *)
(* sysArgs has bytes and does not nest its system calls, the entries are   *)
(* those of the call being prepared, which SCALL's reset and nothing else  *)
(* makes true of the next call, and so lie in the array (Part 1). If it    *)
(* gives __str only strings and ints, every call gets the arguments put    *)
(* for it (Part 5): SCALL counts down from sp by sums over the entries,    *)
(* the words lie at sums over the arguments, and the two sums are the      *)
(* same. The first are recursive functions under the folds of the          *)
(* community modules; Part 2 shows by induction over sets of numbers that  *)
(* they exist and what they come to, as SequenceProofs does of FlattenSeq, *)
(* which lays the words.                                                   *)
(***************************************************************************)
EXTENDS SysCalls, SequenceProofs

----------------------------------------------------------------------------
(* Part 1: the entries of sysArgs.                                         *)

\* A guest that finishes a call before it turns to the arguments of another, and
\* gives no call more arguments than sysArgs has bytes.
Careful == Ops \cap {"nested", "many"} = {}

\* The arguments put for the call being prepared.
PutSoFar == IF given = <<>> THEN <<>> ELSE given[Len(given)]

\* At most one call is being prepared, and fits; sysArgs has a byte for each of
\* its arguments but one that was only just put.
OneCall ==
    /\ given \in Seq(Seq(A!Arguments \cup {A!Made})) /\ Len(given) <= 1
    /\ Len(PutSoFar) <= Slots

Announced ==
    /\ sysArgs \in Seq({Byte(x) : x \in A!Arguments \cup {A!Made}})
    /\ said \in BOOLEAN
    /\ Len(PutSoFar) = Len(sysArgs) + (IF said THEN 0 ELSE 1)
    /\ \A i \in 1 .. Len(sysArgs) : sysArgs[i] = Byte(PutSoFar[i])

IInv == OneCall /\ Announced /\ ~fault

LEMMA InitIInv == Init => IInv
BY SysCallsAssumption DEF Init, A!Init, IInv, OneCall, Announced, PutSoFar

\* What Given, Front and Last make of the calls when there is at most one.
LEMMA OneGiven ==
  ASSUME NEW S, given \in Seq(S), Len(given) <= 1, given # <<>>, NEW xs
  PROVE  /\ Len(given) = 1 /\ Last(given) = given[1]
         /\ given[1] \in S /\ PutSoFar = given[1]
         /\ A!Given(given, xs) = <<given[1] \o xs>>
         /\ A!Given(Front(given), xs) = <<>>
<1>1. Len(given) = 1
  <2>1. Len(given) # 0 /\ Len(given) \in Nat
    BY EmptySeq, LenProperties
  <2> QED
    BY <2>1
<1>2. Last(given) = given[1] /\ given[1] \in S /\ PutSoFar = given[1]
  BY <1>1 DEF Last, PutSoFar
<1>3. Front(given) = <<>> /\ A!Front(given) = <<>> /\ A!Last(given) = given[1]
  BY <1>1 DEF Front, A!Front, A!Last
<1>4. A!Given(given, xs) = <<given[1] \o xs>>
  <2>1. A!Given(given, xs) = Append(A!Front(given), A!Last(given) \o xs)
    BY DEF A!Given
  <2> DEFINE r == given[1] \o xs
  <2>2. A!Given(given, xs) = Append(<<>>, r)
    BY <1>3, <2>1
  <2> HIDE DEF r
  <2>3. Append(<<>>, r) = <<r>>
    OBVIOUS
  <2> QED
    BY <2>2, <2>3 DEF r
<1>5. A!Given(Front(given), xs) = <<>>
  BY <1>3 DEF A!Given
<1> QED
  BY <1>1, <1>2, <1>4, <1>5

\* A system call leaves no call prepared and nothing announced.
LEMMA CallResets ==
  ASSUME IInv, NEW fn, NEW args, NEW n, NEW result, SCALL(fn, args, n, result)
  PROVE  IInv'
<1>1. given # <<>> /\ given' = <<>> /\ sysArgs' = <<>> /\ said' = TRUE /\ ~fault'
  BY OneGiven DEF SCALL, Reset, IInv, OneCall
<1> QED
  BY <1>1, SysCallsAssumption DEF IInv, OneCall, Announced, PutSoFar

\* Turning to the arguments of a call, with none prepared.
LEMMA BeginKeeps ==
  ASSUME Careful, IInv, Begin PROVE IInv'
<1>1. given = <<>> /\ UNCHANGED <<sysArgs, said, fault>> /\ given' = Append(given, <<>>)
  BY DEF Begin, A!Begin, Careful
<1>2. given' = <<<<>>>>
  BY <1>1
<1>3. sysArgs = <<>> /\ said = TRUE
  BY <1>1 DEF IInv, Announced, PutSoFar
<1>4. PutSoFar' = <<>>
  BY <1>2 DEF PutSoFar
<1> QED
  BY <1>1, <1>3, <1>4, <1>2, SysCallsAssumption DEF IInv, OneCall, Announced

\* An argument is put: one that is not announced yet.
LEMMA PutKeeps ==
  ASSUME Careful, IInv, NEW x \in A!Arguments, Put(x) PROVE IInv'
<1>1. /\ given # <<>> /\ said = TRUE /\ said' = FALSE /\ UNCHANGED <<sysArgs, fault>>
      /\ given' = A!Given(given, <<x>>) /\ Len(Last(given)) < Slots
  BY DEF Put, A!Put, IInv, Announced, Inner, Careful
<1> DEFINE Known == A!Arguments \cup {A!Made}
<1>2. given' = <<given[1] \o <<x>>>> /\ given[1] \in Seq(Known) /\ PutSoFar = given[1]
      /\ Last(given) = given[1]
  BY <1>1, OneGiven DEF IInv, OneCall
<1>3. PutSoFar' = given[1] \o <<x>>
  BY <1>2 DEF PutSoFar
<1>4. given[1] \o <<x>> \in Seq(Known) /\ Len(given[1] \o <<x>>) = Len(given[1]) + 1
      /\ \A i \in 1 .. Len(given[1]) : (given[1] \o <<x>>)[i] = given[1][i]
  BY <1>2
<1> DEFINE r == given[1] \o <<x>>
<1> HIDE DEF r
<1>5. /\ given' = <<r>> /\ PutSoFar' = r /\ r \in Seq(Known) /\ Len(r) = Len(given[1]) + 1
      /\ \A i \in 1 .. Len(given[1]) : r[i] = given[1][i]
  BY <1>2, <1>3, <1>4 DEF r
<1>6. OneCall'
  <2>1. given' \in Seq(Seq(Known)) /\ Len(given') <= 1
    BY <1>5
  <2>2. Len(given[1]) < Slots /\ Len(given[1]) \in Nat
    BY <1>1, <1>2
  <2>3. Len(PutSoFar') <= Slots
    BY <1>5, <2>2, SysCallsAssumption
  <2> QED
    BY <2>1, <2>3 DEF OneCall
<1>7. Announced'
  <2>1. Len(given[1]) = Len(sysArgs) /\ Len(sysArgs) \in Nat
        /\ \A i \in 1 .. Len(sysArgs) : sysArgs[i] = Byte(given[1][i])
    BY <1>1, <1>2 DEF Announced, IInv
  <2>2. \A i \in 1 .. Len(sysArgs) : sysArgs[i] = Byte(r[i])
    BY <2>1, <1>5
  <2>3. Len(PutSoFar') = Len(sysArgs') + 1
    BY <2>1, <1>5, <1>1
  <2> QED
    BY <1>1, <1>5, <2>2, <2>3 DEF Announced, IInv
<1> QED
  BY <1>1, <1>6, <1>7 DEF IInv

\* SARG: the byte is that of the last argument, and has a place.
LEMMA SARGKeeps ==
  ASSUME IInv, SARG PROVE IInv'
<1>1. /\ said = FALSE /\ said' = TRUE /\ UNCHANGED given
      /\ sysArgs' = Append(sysArgs, Byte(Last(Last(given))))
      /\ fault' = (Len(sysArgs) >= Slots)
  BY DEF SARG, IInv, Announced, Inner
<1> DEFINE Known == A!Arguments \cup {A!Made}
           Bytes == {Byte(x) : x \in Known}
<1>2. sysArgs \in Seq(Bytes) /\ Len(PutSoFar) = Len(sysArgs) + 1 /\ given # <<>>
  BY <1>1 DEF IInv, Announced, PutSoFar
<1>3. PutSoFar = Last(given) /\ PutSoFar \in Seq(Known)
  BY <1>2, OneGiven DEF IInv, OneCall
<1>4. PutSoFar' = PutSoFar
  BY <1>1 DEF PutSoFar
<1>5. Last(Last(given)) = PutSoFar[Len(sysArgs) + 1]
      /\ PutSoFar[Len(sysArgs) + 1] \in Known
  BY <1>2, <1>3 DEF Last
<1> DEFINE b == Byte(PutSoFar[Len(sysArgs) + 1])
<1>6. b \in Bytes /\ sysArgs' = Append(sysArgs, b)
  BY <1>1, <1>5
<1> HIDE DEF b, Bytes
<1>7. /\ sysArgs' \in Seq(Bytes) /\ Len(sysArgs') = Len(sysArgs) + 1
      /\ sysArgs'[Len(sysArgs) + 1] = b
      /\ \A i \in 1 .. Len(sysArgs) : sysArgs'[i] = sysArgs[i]
  BY <1>2, <1>6
<1>8. \A i \in 1 .. Len(sysArgs') : sysArgs'[i] = Byte(PutSoFar[i])
  BY <1>2, <1>7 DEF b, IInv, Announced
<1>9. Announced'
  BY <1>1, <1>2, <1>4, <1>7, <1>8 DEF Announced, Bytes
<1>10. OneCall'
  BY <1>1, <1>4 DEF OneCall, IInv
<1>11. ~fault'
  <2>1. Len(sysArgs) \in Nat /\ Len(sysArgs) + 1 <= Slots
    BY <1>2 DEF IInv, OneCall
  <2>2. ~(Len(sysArgs) >= Slots)
    BY <2>1, SysCallsAssumption
  <2> QED
    BY <1>1, <2>2
<1> QED
  BY <1>9, <1>10, <1>11 DEF IInv

\* Every step of such a guest.
LEMMA NextIInv ==
  ASSUME Careful PROVE IInv /\ [Next]_vars => IInv'
<1> SUFFICES ASSUME IInv, [Next]_vars PROVE IInv'
  OBVIOUS
<1>1. CASE Push \/ Pop \/ UNCHANGED vars
  <2>1. UNCHANGED <<given, sysArgs, said, fault>>
    BY <1>1 DEF Push, Pop, A!Push, A!Pop, vars
  <2> QED
    BY <2>1 DEF IInv, OneCall, Announced, PutSoFar
<1>2. CASE Begin
  BY <1>2, BeginKeeps
<1>3. CASE SARG
  BY <1>3, SARGKeeps
<1>4. CASE \E x \in A!Arguments : Put(x)
  BY <1>4, PutKeeps
<1>5. CASE SysPrint \/ SysStr \/ SysInput \/ NoFunction
  <2>1. PICK fn, args, n, result : SCALL(fn, args, n, result)
    BY <1>5 DEF SysPrint, SysStr, SysInput, NoFunction
  <2> QED
    BY <2>1, CallResets
<1> QED
  BY <1>1, <1>2, <1>3, <1>4, <1>5 DEF Next

LEMMA IInvImplies == IInv => ArgsInArray /\ EntriesMatch
<1> SUFFICES ASSUME IInv PROVE ArgsInArray /\ EntriesMatch
  OBVIOUS
<1>1. sysArgs \in Seq({Byte(x) : x \in A!Arguments \cup {A!Made}})
      /\ said \in BOOLEAN /\ Len(sysArgs) \in Nat
  BY DEF IInv, Announced
<1>2. Len(sysArgs) <= Len(PutSoFar)
  BY <1>1 DEF IInv, Announced
<1>3. ArgsInArray
  <2>1. PutSoFar \in Seq(A!Arguments \cup {A!Made})
    BY OneGiven DEF IInv, OneCall, PutSoFar
  <2> QED
    BY <1>1, <1>2, <2>1, SysCallsAssumption DEF ArgsInArray, IInv, OneCall
<1>4. PutSoFar = (IF given = <<>> THEN <<>> ELSE Inner)
  BY DEF PutSoFar, Inner, Last
<1>5. DOMAIN sysArgs = 1 .. Len(sysArgs)
  BY <1>1
<1>6. EntriesMatch
  BY <1>4, <1>5 DEF EntriesMatch, IInv, Announced
<1> QED
  BY <1>3, <1>6

\* For every size of sysArgs: however many calls a guest makes one after the
\* other, each entry announces the argument of the current call at its position,
\* nothing of an earlier call, so that a guest that gives no call more arguments
\* than sysArgs has bytes stays inside the array (SARG, which does not check, and
\* SCALL of shared_impl.h).
THEOREM OwnArguments ==
  ASSUME Careful PROVE Spec => [](ArgsInArray /\ EntriesMatch)
<1>1. Init => IInv
  BY InitIInv
<1>2. IInv /\ [Next]_vars => IInv'
  BY NextIInv
<1>3. IInv => ArgsInArray /\ EntriesMatch
  BY IInvImplies
<1> QED
  BY <1>1, <1>2, <1>3, PTL DEF Spec

----------------------------------------------------------------------------
(* Part 2: sums over sequences.                                            *)

\* f adds up x over the sets of indices up to n, the largest index last.
Adds(f, x, n) ==
    f = [t \in SUBSET (1 .. n) |-> IF t = {} THEN 0 ELSE f[t \ {Max(t)}] + x[Max(t)]]

\* There is such an f.
LEMMA AddsExists ==
  ASSUME NEW n \in Nat, NEW x
  PROVE  \E f : Adds(f, x, n)
<1> DEFINE S == {m \in Nat : \E f : Adds(f, x, m)}
<1>1. 0 \in S
  <2> DEFINE f == [t \in SUBSET (1 .. 0) |-> 0]
  <2>1. f = [t \in SUBSET (1 .. 0) |-> IF t = {} THEN 0 ELSE f[t \ {Max(t)}] + x[Max(t)]]
    <3>1. \A t \in SUBSET (1 .. 0) : t = {}
      OBVIOUS
    <3> QED
      BY <3>1
  <2> HIDE DEF f
  <2>2. Adds(f, x, 0)
    BY <2>1 DEF Adds
  <2> QED
    BY <2>2
<1>2. ASSUME NEW m \in Nat, m \in S
      PROVE  m + 1 \in S
  <2>1. PICK f : Adds(f, x, m)
    BY <1>2
  <2> DEFINE k == m + 1
             g == [t \in SUBSET (1 .. k) |-> IF k \in t THEN f[t \ {k}] + x[k] ELSE f[t]]
             rhs(t) == IF t = {} THEN 0 ELSE g[t \ {Max(t)}] + x[Max(t)]
  <2>0. k \in Nat
    OBVIOUS
  <2>2. ASSUME NEW t \in SUBSET (1 .. k) PROVE g[t] = rhs(t)
    <3>0. t # {} => Max(t) \in t /\ \A y \in t : y <= Max(t)
      <4> HIDE DEF k
      <4> QED
        BY <2>0, MaxIsLargest
    <3>1. CASE t = {}
      <4>1. {} \in SUBSET (1 .. m) /\ f[{}] = 0
        BY <2>1 DEF Adds
      <4> QED
        BY <3>1, <4>1
    <3>2. CASE k \in t
      <4>1. Max(t) = k
        <5>1. Max(t) \in 1 .. k /\ k <= Max(t)
          BY <3>0, <3>2
        <5> QED
          BY <5>1
      <4>2. t \ {k} \in SUBSET (1 .. k) /\ k \notin t \ {k}
        OBVIOUS
      <4>3. g[t \ {k}] = f[t \ {k}]
        BY <4>2
      <4>4. g[t] = f[t \ {k}] + x[k]
        BY <3>2
      <4> QED
        BY <3>2, <4>1, <4>3, <4>4
    <3>3. CASE t # {} /\ k \notin t
      <4>1. t \in SUBSET (1 .. m)
        BY <3>3
      <4>2. Max(t) \in t
        BY <3>0, <3>3
      <4>3. f[t] = f[t \ {Max(t)}] + x[Max(t)]
        BY <3>3, <4>1, <2>1 DEF Adds
      <4>4. g[t] = f[t] /\ g[t \ {Max(t)}] = f[t \ {Max(t)}]
        BY <3>3, <4>2
      <4> QED
        BY <3>3, <4>3, <4>4
    <3> QED
      BY <3>1, <3>2, <3>3
  <2>3. g = [t \in SUBSET (1 .. k) |-> rhs(t)]
    BY <2>2
  <2> HIDE DEF g
  <2>4. Adds(g, x, k)
    BY <2>3 DEF Adds
  <2> QED
    BY <2>4
<1> HIDE DEF S
<1>3. 0 .. n \subseteq S
  BY <1>1, <1>2, SetInductionTo
<1>4. n \in S
  BY <1>3
<1> QED
  BY <1>4 DEF S

LEMMA AddsSums ==
  ASSUME NEW n \in Nat, NEW x \in [1 .. n -> Nat], NEW f, Adds(f, x, n)
  PROVE  \E p : Sums(p, x, n) /\ f[1 .. n] = p[n]
<1> DEFINE p == [k \in 0 .. n |-> f[1 .. k]]
<1>1. p[0] = 0
  <2>1. 1 .. 0 = {} /\ {} \in SUBSET (1 .. n) /\ 0 \in 0 .. n
    OBVIOUS
  <2>2. f[{}] = 0
    BY <2>1 DEF Adds
  <2> QED
    BY <2>1, <2>2
<1>2. ASSUME NEW k \in 1 .. n PROVE p[k] = p[k - 1] + x[k]
  <2>1. 1 .. k \in SUBSET (1 .. n) /\ 1 .. k # {} /\ (1 .. k) \ {k} = 1 .. k - 1
        /\ k \in 0 .. n /\ k - 1 \in 0 .. n
    OBVIOUS
  <2>2. Max(1 .. k) = k
    <3>1. Max(1 .. k) \in 1 .. k /\ \A y \in 1 .. k : y <= Max(1 .. k)
      BY <2>1, MaxIsLargest
    <3> QED
      BY <3>1
  <2>3. f[1 .. k] = f[1 .. k - 1] + x[k]
    BY <2>1, <2>2 DEF Adds
  <2> QED
    BY <2>1, <2>3
<1> HIDE DEF p
<1>3. \A k \in 0 .. n : p[k] \in Nat
  <2> DEFINE S == {k \in 0 .. n : p[k] \in Nat}
  <2>1. 0 \in S
    BY <1>1
  <2>2. ASSUME NEW m \in 0 .. n - 1, m \in S PROVE m + 1 \in S
    <3>1. m + 1 \in 1 .. n /\ (m + 1) - 1 = m
      OBVIOUS
    <3>2. p[m + 1] = p[m] + x[m + 1] /\ x[m + 1] \in Nat
      BY <3>1, <1>2
    <3> QED
      BY <3>1, <3>2, <2>2
  <2> HIDE DEF S
  <2>3. 0 .. n \subseteq S
    BY <2>1, <2>2, SetInductionTo
  <2> QED
    BY <2>3 DEF S
<1>4. p \in [0 .. n -> Nat] /\ f[1 .. n] = p[n]
  BY <1>3 DEF p
<1>5. Sums(p, x, n)
  BY <1>1, <1>2, <1>4 DEF Sums
<1> QED
  BY <1>4, <1>5

----------------------------------------------------------------------------

\* The two folds of SCALL over entries of sysArgs are such sums.
Entries == [flag : A!Types, size : {1, 2}]
Sizes(s)  == [k \in 1 .. Len(s) |-> s[k].size]
Widths(s) == [k \in 1 .. Len(s) |-> IF s[k].flag \in Wide THEN 2 ELSE 1]

LEMMA SizesAdd ==
  ASSUME NEW s \in Seq(Entries)
  PROVE  \E p : Sums(p, Sizes(s), Len(s))
                /\ FoldLeft(LAMBDA n, b: n + b.size, 0, s) = p[Len(s)]
<1> DEFINE f == CHOOSE f : f = [t \in SUBSET (DOMAIN s) |->
                     IF t = {} THEN 0 ELSE f[t \ {Max(t)}] + s[Max(t)].size]
<1>1. FoldLeft(LAMBDA n, b: n + b.size, 0, s) = f[DOMAIN s]
  BY DEF FoldLeft, MapThenFoldSet
<1>2. Len(s) \in Nat /\ DOMAIN s = 1 .. Len(s) /\ \A k \in 1 .. Len(s) : s[k] \in Entries
  OBVIOUS
<1>3. Sizes(s) \in [1 .. Len(s) -> Nat]
  BY <1>2 DEF Sizes, Entries
<1>4. ASSUME NEW t \in SUBSET (1 .. Len(s)), t # {}
      PROVE  Sizes(s)[Max(t)] = s[Max(t)].size
  <2>1. Max(t) \in 1 .. Len(s)
    BY <1>2, <1>4, MaxIsLargest
  <2> QED
    BY <2>1 DEF Sizes
<1>5. \A g : Adds(g, Sizes(s), Len(s))
             <=> g = [t \in SUBSET (DOMAIN s) |->
                        IF t = {} THEN 0 ELSE g[t \ {Max(t)}] + s[Max(t)].size]
  <2> TAKE g
  <2>1. \A t \in SUBSET (1 .. Len(s)) :
          (IF t = {} THEN 0 ELSE g[t \ {Max(t)}] + Sizes(s)[Max(t)])
          = (IF t = {} THEN 0 ELSE g[t \ {Max(t)}] + s[Max(t)].size)
    BY <1>4
  <2> QED
    BY <2>1, <1>2 DEF Adds
<1>6. Adds(f, Sizes(s), Len(s))
  BY <1>5, <1>2, AddsExists
<1> HIDE DEF f
<1>7. PICK p : Sums(p, Sizes(s), Len(s)) /\ f[1 .. Len(s)] = p[Len(s)]
  BY <1>2, <1>3, <1>6, AddsSums
<1>8. f[DOMAIN s] = p[Len(s)]
  BY <1>2, <1>7
<1> QED
  BY <1>1, <1>7, <1>8, Zenon

LEMMA WidthsAdd ==
  ASSUME NEW s \in Seq(Entries)
  PROVE  \E p : Sums(p, Widths(s), Len(s))
                /\ FoldLeft(LAMBDA n, b: n + (IF b.flag \in Wide THEN 2 ELSE 1), 0, s)
                   = p[Len(s)]
<1> DEFINE f == CHOOSE f : f = [t \in SUBSET (DOMAIN s) |->
                     IF t = {} THEN 0
                     ELSE f[t \ {Max(t)}] + (IF s[Max(t)].flag \in Wide THEN 2 ELSE 1)]
<1>1. FoldLeft(LAMBDA n, b: n + (IF b.flag \in Wide THEN 2 ELSE 1), 0, s) = f[DOMAIN s]
  BY DEF FoldLeft, MapThenFoldSet
<1>2. Len(s) \in Nat /\ DOMAIN s = 1 .. Len(s)
  OBVIOUS
<1>3. Widths(s) \in [1 .. Len(s) -> Nat]
  BY <1>2 DEF Widths
<1>4. ASSUME NEW t \in SUBSET (1 .. Len(s)), t # {}
      PROVE  Widths(s)[Max(t)] = IF s[Max(t)].flag \in Wide THEN 2 ELSE 1
  <2>1. Max(t) \in 1 .. Len(s)
    BY <1>2, <1>4, MaxIsLargest
  <2> QED
    BY <2>1 DEF Widths
<1>5. \A g : Adds(g, Widths(s), Len(s))
             <=> g = [t \in SUBSET (DOMAIN s) |->
                        IF t = {} THEN 0
                        ELSE g[t \ {Max(t)}] + (IF s[Max(t)].flag \in Wide THEN 2 ELSE 1)]
  <2> TAKE g
  <2>1. \A t \in SUBSET (1 .. Len(s)) :
          (IF t = {} THEN 0 ELSE g[t \ {Max(t)}] + Widths(s)[Max(t)])
          = (IF t = {} THEN 0
             ELSE g[t \ {Max(t)}] + (IF s[Max(t)].flag \in Wide THEN 2 ELSE 1))
    BY <1>4
  <2> QED
    BY <2>1, <1>2 DEF Adds
<1>6. Adds(f, Widths(s), Len(s))
  BY <1>5, <1>2, AddsExists
<1> HIDE DEF f
<1>7. PICK p : Sums(p, Widths(s), Len(s)) /\ f[1 .. Len(s)] = p[Len(s)]
  BY <1>2, <1>3, <1>6, AddsSums
<1>8. f[DOMAIN s] = p[Len(s)]
  BY <1>2, <1>7
<1> QED
  BY <1>1, <1>7, <1>8, Zenon

----------------------------------------------------------------------------

----------------------------------------------------------------------------
(* Part 3: the words of arguments.                                         *)

Held   == Vals \cup {"made"}
Word   == Held \X {1, 2}
Valued == [type : A!Types, val : Held]

LEMMA WordsOfOne ==
  ASSUME NEW x \in Valued
  PROVE  /\ A!WordsOf(x) \in Seq(Word)
         /\ Len(A!WordsOf(x)) = (IF x.type \in Wide THEN 2 ELSE 1)
         /\ Byte(x) \in Entries /\ Byte(x).flag = x.type
         /\ Byte(x).size = Len(A!WordsOf(x))
<1>1. x.val \in Held /\ x.type \in A!Types
  BY DEF Valued
<1>2. <<x.val, 1>> \in Word /\ <<x.val, 2>> \in Word
  BY <1>1 DEF Word
<1>3. A!WordsOf(x) \in Seq(Word) /\ Len(A!WordsOf(x)) = (IF x.type \in Wide THEN 2 ELSE 1)
  BY <1>2 DEF A!WordsOf, Wide
<1>4. Len(A!WordsOf(x)) \in {1, 2}
  BY <1>3
<1> QED
  BY <1>1, <1>3, <1>4 DEF Byte, Entries

LEMMA MadeValued == A!Made \in Valued /\ A!Arguments \subseteq Valued
  BY DEF A!Made, Valued, Held, A!Arguments, A!Types

WordSeqs(args) == [i \in DOMAIN args |-> A!WordsOf(args[i])]

LEMMA WordSeqsTyped ==
  ASSUME NEW args \in Seq(Valued)
  PROVE  /\ WordSeqs(args) \in Seq(Seq(Word)) /\ Len(WordSeqs(args)) = Len(args)
         /\ \A i \in 1 .. Len(args) : WordSeqs(args)[i] = A!WordsOf(args[i])
<1>1. DOMAIN args = 1 .. Len(args) /\ Len(args) \in Nat
      /\ \A i \in 1 .. Len(args) : args[i] \in Valued
  OBVIOUS
<1>2. \A i \in 1 .. Len(args) : A!WordsOf(args[i]) \in Seq(Word)
  BY <1>1, WordsOfOne
<1>3. WordSeqs(args) = [i \in 1 .. Len(args) |-> A!WordsOf(args[i])]
  BY <1>1 DEF WordSeqs
<1>4. WordSeqs(args) \in [1 .. Len(args) -> Seq(Word)]
  BY <1>2, <1>3
<1> QED
  BY <1>1, <1>3, <1>4

LEMMA WordsAreLaid == \A args : A!Words(args) = FlattenSeq(WordSeqs(args))
BY DEF A!Words, A!FlattenSeq, FlattenSeq, WordSeqs

LEMMA WordsTyped ==
  ASSUME NEW args \in Seq(Valued)
  PROVE  A!Words(args) \in Seq(Word)
<1> HIDE DEF Valued, Word
<1> QED
  BY WordSeqsTyped, FlattenLaid, WordsAreLaid

LEMMA WordsAppend ==
  ASSUME NEW args \in Seq(Valued), NEW x \in Valued
  PROVE  A!Words(args \o <<x>>) = A!Words(args) \o A!WordsOf(x)
<1> DEFINE more == args \o <<x>>
<1>1. more \in Seq(Valued) /\ Len(more) = Len(args) + 1 /\ Len(args) \in Nat
      /\ more[Len(args) + 1] = x
      /\ \A i \in 1 .. Len(args) : more[i] = args[i]
  OBVIOUS
<1> HIDE DEF more
<1> DEFINE ws == WordSeqs(args)  vs == WordSeqs(more)  n == Len(args)
<1>2. ws \in Seq(Seq(Word)) /\ Len(ws) = n /\ \A i \in 1 .. n : ws[i] = A!WordsOf(args[i])
  BY WordSeqsTyped
<1>3. vs \in Seq(Seq(Word)) /\ Len(vs) = n + 1
      /\ \A i \in 1 .. n + 1 : vs[i] = A!WordsOf(more[i])
  BY <1>1, WordSeqsTyped
<1>4. \A k \in 1 .. Len(ws) : vs[k] = ws[k]
  BY <1>1, <1>2, <1>3
<1> HIDE DEF ws, vs
<1>5. FlattenSeq(vs) = FlattenSeq(ws) \o vs[n + 1]
  <2>1. Len(vs) = Len(ws) + 1
    BY <1>2, <1>3
  <2>2. FlattenSeq(vs) = FlattenSeq(ws) \o vs[Len(vs)]
    BY <1>2, <1>3, <1>4, <2>1, FlattenAppend
  <2> QED
    BY <2>2, <1>3
<1>6. vs[n + 1] = A!WordsOf(x)
  BY <1>1, <1>3
<1>7. A!Words(args) = FlattenSeq(ws) /\ A!Words(more) = FlattenSeq(vs)
  BY WordsAreLaid DEF ws, vs
<1> QED
  BY <1>5, <1>6, <1>7 DEF more

LEMMA WordsOfFew ==
  /\ A!Words(<<>>) = <<>>
  /\ \A x \in Valued : A!Words(<<x>>) = A!WordsOf(x)
<1>1. A!Words(<<>>) = <<>>
  <2>1. [i \in DOMAIN <<>> |-> A!WordsOf((<<>>)[i])] = <<>>
    OBVIOUS
  <2>2. Len(<<>>) = 0
    OBVIOUS
  <2> QED
    BY <2>1, <2>2 DEF A!Words, A!FlattenSeq
<1>2. ASSUME NEW x \in Valued PROVE A!Words(<<x>>) = A!WordsOf(x)
  <2>1. <<>> \o <<x>> = <<x>> /\ <<>> \in Seq(Valued)
    OBVIOUS
  <2>2. A!Words(<<>> \o <<x>>) = A!Words(<<>>) \o A!WordsOf(x)
    BY <2>1, WordsAppend
  <2>3. <<>> \o A!WordsOf(x) = A!WordsOf(x)
    BY WordsOfOne
  <2> QED
    BY <1>1, <2>1, <2>2, <2>3
<1> QED
  BY <1>1, <1>2

\* Where the words of each argument are.
LEMMA WordsLaid ==
  ASSUME NEW args \in Seq(Valued)
  PROVE  \E p : /\ p \in [0 .. Len(args) -> Nat] /\ p[0] = 0
                /\ \A k \in 1 .. Len(args) : p[k] = p[k - 1] + Len(A!WordsOf(args[k]))
                /\ Len(A!Words(args)) = p[Len(args)]
                /\ \A k \in 1 .. Len(args) : \A j \in 1 .. Len(A!WordsOf(args[k])) :
                     A!Words(args)[p[k - 1] + j] = A!WordsOf(args[k])[j]
<1> DEFINE ws == WordSeqs(args)
<1>1. ws \in Seq(Seq(Word)) /\ Len(ws) = Len(args) /\ Len(args) \in Nat
      /\ \A i \in 1 .. Len(args) : ws[i] = A!WordsOf(args[i])
  BY WordSeqsTyped
<1>2. A!Words(args) = FlattenSeq(ws)
  BY WordsAreLaid
<1> HIDE DEF ws
<1>3. PICK p : /\ Sums(p, Lengths(ws), Len(ws)) /\ Len(FlattenSeq(ws)) = p[Len(ws)]
               /\ LaidAt(FlattenSeq(ws), ws, p)
  BY <1>1, FlattenLaid
<1>4. p \in [0 .. Len(args) -> Nat] /\ p[0] = 0
  BY <1>1, <1>3 DEF Sums
<1>5. \A k \in 1 .. Len(args) : p[k] = p[k - 1] + Len(A!WordsOf(args[k]))
  BY <1>1, <1>3 DEF Sums, Lengths
<1>6. \A k \in 1 .. Len(args) : \A j \in 1 .. Len(A!WordsOf(args[k])) :
        A!Words(args)[p[k - 1] + j] = A!WordsOf(args[k])[j]
  BY <1>1, <1>2, <1>3, SMTT(30) DEF LaidAt
<1>7. Len(A!Words(args)) = p[Len(args)]
  BY <1>1, <1>2, <1>3
<1> QED
  BY <1>4, <1>5, <1>6, <1>7, Zenon

----------------------------------------------------------------------------
(* Part 4: types.                                                          *)

\* What is to be announced is there.
Typed == TypeOK /\ (~said => given # <<>> /\ given[Len(given)] # <<>>)

LEMMA InitTyped == Init => Typed
<1> SUFFICES ASSUME Init PROVE Typed
  OBVIOUS
<1>1. stk = <<>> /\ sysArgs = <<>> /\ given = <<>> /\ said = TRUE /\ fault = FALSE
  BY DEF Init, A!Init
<1>2. \A S : <<>> \in Seq(S)
  BY EmptySeq
<1>3. TypeOK
  BY <1>1, <1>2, Zenon DEF TypeOK
<1> QED
  BY <1>1, <1>3 DEF Typed

\* The innermost call, and what Given makes of the calls.
LEMMA GivenTyped ==
  ASSUME NEW calls \in Seq(Seq(Valued)), NEW xs \in Seq(Valued)
  PROVE  /\ A!Given(calls, xs) \in Seq(Seq(Valued))
         /\ calls # <<>> =>
              /\ Front(calls) \in Seq(Seq(Valued)) /\ Last(calls) \in Seq(Valued)
              /\ Last(calls) = calls[Len(calls)] /\ Front(calls) = A!Front(calls)
              /\ Last(calls) = A!Last(calls)
              /\ A!Given(calls, xs) # <<>>
              /\ A!Given(calls, xs)[Len(A!Given(calls, xs))] = Last(calls) \o xs
<1> DEFINE S == Seq(Valued)
<1>1. CASE calls = <<>>
  BY <1>1 DEF A!Given
<1>2. CASE calls # <<>>
  <2> HIDE DEF S
  <2>1. Len(calls) \in Nat \ {0} /\ calls \in Seq(S)
    BY <1>2, EmptySeq DEF S
  <2>2. Last(calls) = calls[Len(calls)] /\ A!Last(calls) = calls[Len(calls)]
        /\ calls[Len(calls)] \in S
    BY <2>1, ElementOfSeq DEF Last, A!Last
  <2>3. Front(calls) = SubSeq(calls, 1, Len(calls) - 1) /\ A!Front(calls) = Front(calls)
    BY DEF Front, A!Front
  <2>4. Front(calls) \in Seq(S)
    BY <2>1, <2>3
  <2> DEFINE r == Last(calls) \o xs
  <2>5. r \in S
    BY <2>2, ConcatProperties DEF S
  <2>6. A!Given(calls, xs) = Append(Front(calls), r)
    BY <1>2, <2>2, <2>3 DEF A!Given
  <2> HIDE DEF r
  <2>7. Append(Front(calls), r) \in Seq(S) /\ Append(Front(calls), r) # <<>>
        /\ Append(Front(calls), r)[Len(Append(Front(calls), r))] = r
    BY <2>4, <2>5, AppendProperties
  <2> QED
    BY <2>2, <2>3, <2>4, <2>6, <2>7 DEF r, S
<1> QED
  BY <1>1, <1>2

LEMMA TakenOffNat ==
  ASSUME sysArgs \in Seq(Entries) PROVE TakenOff \in Nat
<1>1. FoldLeft(LAMBDA n, b: n + b.size, 0, sysArgs) \in Nat
  <2>1. PICK p : Sums(p, Sizes(sysArgs), Len(sysArgs))
                 /\ FoldLeft(LAMBDA n, b: n + b.size, 0, sysArgs) = p[Len(sysArgs)]
    BY SizesAdd
  <2>2. Len(sysArgs) \in 0 .. Len(sysArgs)
    OBVIOUS
  <2>3. p[Len(sysArgs)] \in Nat
    BY <2>1, <2>2 DEF Sums
  <2> QED
    BY <2>1, <2>3
<1> DEFINE total == FoldLeft(LAMBDA n, b: n + b.size, 0, sysArgs)
<1>2. TakenOff = CASE Len(sysArgs) <= 1 -> 1 [] Len(sysArgs) > Slots -> 0 [] OTHER -> total
  BY DEF TakenOff
<1>3. Len(sysArgs) \in Nat
  OBVIOUS
<1>6. total \in Nat
  BY <1>1
<1> HIDE DEF total
<1>4. CASE Len(sysArgs) <= 1
  <2>1. ~(Len(sysArgs) > Slots)
    BY <1>3, <1>4, SysCallsAssumption
  <2> QED
    BY <1>2, <1>4, <2>1
<1>5. CASE Len(sysArgs) > 1
  <2>1. TakenOff \in {0, total}
    BY <1>2, <1>3, <1>5, SysCallsAssumption
  <2> QED
    BY <2>1, <1>6
<1> QED
  BY <1>3, <1>4, <1>5

LEMMA CallTyped ==
  ASSUME Typed, NEW fn, NEW args, NEW n \in Nat, NEW result,
         result = <<>> \/ result = <<A!Made>>,
         SCALL(fn, args, n, result)
  PROVE  Typed'
<1>1. /\ given # <<>>
      /\ stk' = SubSeq(stk, 1, Len(stk) - n) \o A!Words(result)
      /\ sysArgs' = <<>> /\ given' = A!Given(Front(given), result)
      /\ said' = (given' = <<>> \/ result = <<>>) /\ UNCHANGED fault
  BY DEF SCALL, Reset
<1>2. stk \in Seq(Word) /\ given \in Seq(Seq(Valued)) /\ fault \in BOOLEAN
  BY DEF Typed, TypeOK, Word, Held, Valued
<1>3. result \in Seq(Valued)
  <2>1. <<A!Made>> \in Seq(Valued) /\ <<>> \in Seq(Valued)
    BY MadeValued
  <2> QED
    BY <2>1
<1>4. stk' \in Seq(Word)
  <2>1. A!Words(result) \in Seq(Word)
    BY <1>3, WordsTyped
  <2>2. SubSeq(stk, 1, Len(stk) - n) \in Seq(Word)
    <3> HIDE DEF Word
    <3>1. Len(stk) \in Nat /\ \A i \in 1 .. Len(stk) - n : stk[i] \in Word
      BY <1>2
    <3> DEFINE m == Len(stk) - n
    <3>2. m \in Int /\ \A i \in 1 .. m : stk[i] \in Word
      BY <3>1
    <3> HIDE DEF m
    <3>3. SubSeq(stk, 1, m) \in Seq(Word)
      BY <3>2, SubSeqProperties
    <3> QED
      BY <3>3 DEF m
  <2> QED
    BY <1>1, <2>1, <2>2, ConcatProperties
<1>5. Front(given) \in Seq(Seq(Valued))
  BY <1>1, <1>2, <1>3, GivenTyped
<1>6. given' \in Seq(Seq(Valued))
  BY <1>1, <1>3, <1>5, GivenTyped
<1>7. ASSUME ~said' PROVE given' # <<>> /\ given'[Len(given')] # <<>>
  <2>1. given' # <<>> /\ result = <<A!Made>>
    BY <1>1, <1>7
  <2>2. Front(given) # <<>>
    BY <1>1, <2>1 DEF A!Given
  <2>3. given'[Len(given')] = Last(Front(given)) \o result
        /\ Last(Front(given)) \in Seq(Valued)
    BY <1>1, <1>3, <1>5, <2>2, GivenTyped
  <2>4. Last(Front(given)) \o result # <<>>
    <3> DEFINE s == Last(Front(given))
    <3>1. s \in Seq(Valued) /\ result \in Seq(Valued) /\ result # <<>>
      BY <1>3, <2>1, <2>3
    <3> HIDE DEF s
    <3>2. s \o result # <<>>
      BY <3>1, ConcatEqualIffEmpty
    <3> QED
      BY <3>2 DEF s
  <2> QED
    BY <2>1, <2>3, <2>4
<1>8. TypeOK'
  <2>1. sysArgs' \in Seq([flag : A!Types, size : {1, 2}]) /\ said' \in BOOLEAN
    BY <1>1
  <2> QED
    BY <1>1, <1>2, <1>4, <1>6, <2>1 DEF TypeOK, Word, Held, Valued
<1> QED
  BY <1>7, <1>8 DEF Typed

LEMMA TypedParts ==
  ASSUME Typed
  PROVE  /\ stk \in Seq(Word) /\ given \in Seq(Seq(Valued)) /\ sysArgs \in Seq(Entries)
         /\ said \in BOOLEAN /\ fault \in BOOLEAN
         /\ ~said => given # <<>> /\ given[Len(given)] # <<>>
BY DEF Typed, TypeOK, Word, Held, Valued, Entries

LEMMA TypedNext ==
  ASSUME stk' \in Seq(Word), given' \in Seq(Seq(Valued)), sysArgs' \in Seq(Entries),
         said' \in BOOLEAN, fault' \in BOOLEAN,
         ~said' => given' # <<>> /\ given'[Len(given')] # <<>>
  PROVE  Typed'
BY DEF Typed, TypeOK, Word, Held, Valued, Entries

LEMMA PushPopTyped ==
  ASSUME Typed, Push \/ Pop PROVE Typed'
<1>1. /\ given = <<>> /\ UNCHANGED <<given, sysArgs, said, fault>>
      /\ \/ \E v \in Vals : stk' = Append(stk, <<v, 1>>)
         \/ stk # <<>> /\ stk' = A!Front(stk)
  BY DEF Push, Pop, A!Push, A!Pop
<1>2. stk \in Seq(Word)
  BY TypedParts
<1>3. stk' \in Seq(Word)
  <2>1. ASSUME NEW v \in Vals, stk' = Append(stk, <<v, 1>>) PROVE stk' \in Seq(Word)
    <3>1. <<v, 1>> \in Word
      BY DEF Word, Held
    <3> HIDE DEF Word
    <3> QED
      BY <1>2, <2>1, <3>1, AppendProperties
  <2>2. ASSUME stk # <<>>, stk' = A!Front(stk) PROVE stk' \in Seq(Word)
    <3> HIDE DEF Word
    <3>1. stk' = SubSeq(stk, 1, Len(stk) - 1)
      BY <2>2 DEF A!Front
    <3> QED
      BY <1>2, <3>1
  <2> QED
    BY <1>1, <2>1, <2>2
<1> QED
  BY <1>1, <1>3, TypedParts, TypedNext

LEMMA BeginTyped ==
  ASSUME Typed, Begin PROVE Typed'
<1>1. given' = Append(given, <<>>) /\ UNCHANGED <<stk, sysArgs, said, fault>>
      /\ (given = <<>> \/ said)
  BY DEF Begin, A!Begin
<1>2. given \in Seq(Seq(Valued)) /\ said = TRUE
  BY <1>1, TypedParts
<1>3. given' \in Seq(Seq(Valued))
  <2> DEFINE S == Seq(Valued)
  <2>1. <<>> \in S
    OBVIOUS
  <2> HIDE DEF S
  <2>2. given \in Seq(S)
    BY <1>2 DEF S
  <2>3. Append(given, <<>>) \in Seq(S)
    BY <2>1, <2>2, AppendProperties
  <2> QED
    BY <1>1, <2>3 DEF S
<1> QED
  BY <1>1, <1>2, <1>3, TypedParts, TypedNext

LEMMA PutTyped ==
  ASSUME Typed, NEW x \in A!Arguments, Put(x) PROVE Typed'
<1>1. /\ given # <<>> /\ stk' = stk \o A!WordsOf(x) /\ given' = A!Given(given, <<x>>)
      /\ said' = FALSE /\ UNCHANGED <<sysArgs, fault>>
  BY DEF Put, A!Put
<1>2. x \in Valued /\ <<x>> \in Seq(Valued) /\ <<x>> # <<>>
  BY MadeValued
<1>3. stk' \in Seq(Word)
  BY <1>1, <1>2, WordsOfOne, TypedParts, ConcatProperties
<1>4. /\ given' \in Seq(Seq(Valued)) /\ given' # <<>>
      /\ given'[Len(given')] = Last(given) \o <<x>> /\ Last(given) \in Seq(Valued)
  BY <1>1, <1>2, GivenTyped, TypedParts
<1>5. Last(given) \o <<x>> # <<>>
  BY <1>2, <1>4, ConcatEqualIffEmpty
<1> QED
  BY <1>1, <1>3, <1>4, <1>5, TypedParts, TypedNext

LEMMA SARGTyped ==
  ASSUME Typed, SARG PROVE Typed'
<1>1. /\ ~said /\ sysArgs' = Append(sysArgs, Byte(Last(Last(given))))
      /\ fault' = (Len(sysArgs) >= Slots) /\ said' = TRUE /\ UNCHANGED <<stk, given>>
  BY DEF SARG, Inner
<1>2. given # <<>> /\ Last(given) = given[Len(given)] /\ Last(given) # <<>>
  BY <1>1, TypedParts DEF Last
<1>3. Last(given) \in Seq(Valued)
  <2>1. <<>> \in Seq(Valued)
    OBVIOUS
  <2> QED
    BY <1>2, <2>1, GivenTyped, TypedParts
<1>4. Last(Last(given)) \in Valued
  <2> DEFINE s == Last(given)
  <2>1. s \in Seq(Valued) /\ s # <<>>
    BY <1>2, <1>3
  <2> HIDE DEF s
  <2>2. s[Len(s)] \in Valued
    BY <2>1, EmptySeq, ElementOfSeq
  <2> QED
    BY <2>2 DEF s, Last
<1>5. sysArgs' \in Seq(Entries)
  BY <1>1, <1>4, WordsOfOne, TypedParts, AppendProperties
<1>6. fault' \in BOOLEAN
  BY <1>1
<1> QED
  BY <1>1, <1>5, <1>6, TypedParts, TypedNext

\* Every step of every guest.
LEMMA NextTyped == Typed /\ [Next]_vars => Typed'
<1> SUFFICES ASSUME Typed, [Next]_vars PROVE Typed'
  OBVIOUS
<1>1. CASE UNCHANGED vars
  BY <1>1 DEF vars, Typed, TypeOK
<1>2. CASE Push \/ Pop
  BY <1>2, PushPopTyped
<1>3. CASE Begin
  BY <1>3, BeginTyped
<1>4. CASE SARG
  BY <1>4, SARGTyped
<1>5. CASE \E x \in A!Arguments : Put(x)
  BY <1>5, PutTyped
<1>6. CASE SysPrint \/ SysStr \/ SysInput \/ NoFunction
  <2>1. TakenOff \in Nat /\ 0 \in Nat
    BY TakenOffNat, TypedParts
  <2> DEFINE shown == Formatted([i \in DOMAIN sysArgs |-> PrintArg(i)])
             joined == Formatted([i \in DOMAIN sysArgs |-> StrArg(i)])
  <2>2. \/ SCALL("print", shown, TakenOff, <<>>)
        \/ SCALL("str", joined, TakenOff, <<A!Made>>)
        \/ SCALL("input", <<>>, 0, <<A!Made>>)
        \/ \E fn \in A!Missing : SCALL(fn, <<>>, 0, <<>>)
    BY <1>6 DEF SysPrint, SysStr, SysInput, NoFunction
  <2> HIDE DEF shown, joined
  <2> QED
    BY <2>1, <2>2, CallTyped
<1> QED
  BY <1>1, <1>2, <1>3, <1>4, <1>5, <1>6 DEF Next

\* Whatever the guest does, its stack has typed words, every entry of sysArgs a
\* size of one word or two, and no SARG announces what was not put: SARG and
\* SCALL of shared_impl.h.
THEOREM TypesKept == Spec => []TypeOK
<1>1. Typed => TypeOK
  BY DEF Typed
<1> QED
  BY <1>1, InitTyped, NextTyped, PTL DEF Spec

----------------------------------------------------------------------------
(* Part 5: what a call gets.                                              *)

\* The sum that starts after the i-th entry is the difference of two sums.
LEMMA WidthsAfter ==
  ASSUME NEW s \in Seq(Entries), NEW p, Sums(p, Widths(s), Len(s)), NEW i \in 1 .. Len(s)
  PROVE  FoldLeft(LAMBDA n, b: n + (IF b.flag \in Wide THEN 2 ELSE 1), 0,
                  SubSeq(s, i + 1, Len(s)))
         = p[Len(s)] - p[i]
<1> DEFINE n == Len(s)  r == SubSeq(s, i + 1, n)
<1>1. n \in Nat /\ i \in 1 .. n /\ i + 1 \in Int
  OBVIOUS
<1>2. r \in Seq(Entries) /\ Len(r) = n - i /\ n - i \in Nat
      /\ \A k \in 1 .. n - i : r[k] = s[i + k]
  <2> HIDE DEF Entries
  <2>1. \A k \in i + 1 .. n : s[k] \in Entries
    BY <1>1
  <2>2. /\ r \in Seq(Entries) /\ Len(r) = IF i + 1 <= n THEN n - (i + 1) + 1 ELSE 0
        /\ \A k \in 1 .. n - (i + 1) + 1 : r[k] = s[(i + 1) + k - 1]
    BY <1>1, <2>1, SubSeqProperties
  <2>3. n - (i + 1) + 1 = n - i /\ n - i \in Nat /\ (~(i + 1 <= n) => n - i = 0)
    BY <1>1
  <2>4. \A k \in 1 .. n - i : (i + 1) + k - 1 = i + k
    BY <1>1
  <2> QED
    BY <2>2, <2>3, <2>4
<1> HIDE DEF r
<1>3. PICK q : /\ Sums(q, Widths(r), Len(r))
               /\ FoldLeft(LAMBDA m, b: m + (IF b.flag \in Wide THEN 2 ELSE 1), 0, r) = q[Len(r)]
  BY <1>2, WidthsAdd
<1> DEFINE S == {k \in 0 .. n - i : q[k] = p[i + k] - p[i]}
<1>4. p \in [0 .. n -> Nat]
  BY DEF Sums
<1>5. 0 \in S
  <2>1. i \in 0 .. n /\ i + 0 = i
    BY <1>1
  <2>2. p[i] \in Nat /\ q[0] = 0
    BY <1>3, <1>4, <2>1 DEF Sums
  <2> QED
    BY <1>2, <2>1, <2>2
<1>6. ASSUME NEW k \in 0 .. n - i - 1, k \in S PROVE k + 1 \in S
  <2>1. /\ k + 1 \in 1 .. n - i /\ (k + 1) - 1 = k /\ i + (k + 1) \in 1 .. n
        /\ (i + (k + 1)) - 1 = i + k /\ i + k \in 0 .. n /\ i \in 0 .. n
    BY <1>1
  <2> DEFINE j == i + (k + 1)
  <2>2. Widths(r)[k + 1] = Widths(s)[j] /\ Widths(s)[j] \in Nat
    BY <2>1, <1>2 DEF Widths
  <2>3. q[k + 1] = q[k] + Widths(r)[k + 1]
    BY <2>1, <1>2, <1>3 DEF Sums
  <2>4. p[j] = p[i + k] + Widths(s)[j]
    BY <2>1 DEF Sums
  <2>5. q[k] = p[i + k] - p[i] /\ p[i + k] \in Nat /\ p[i] \in Nat
    BY <1>4, <1>6, <2>1
  <2> HIDE DEF j
  <2>6. q[k + 1] = p[j] - p[i]
    BY <2>2, <2>3, <2>4, <2>5
  <2> QED
    BY <2>1, <2>6 DEF j
<1> HIDE DEF S
<1>7. 0 .. n - i \subseteq S
  BY <1>2, <1>5, <1>6, SetInductionTo
<1>8. q[n - i] = p[n] - p[i]
  <2>1. n - i \in S /\ i + (n - i) = n
    BY <1>1, <1>2, <1>7
  <2> QED
    BY <2>1 DEF S
<1>9. FoldLeft(LAMBDA m, b: m + (IF b.flag \in Wide THEN 2 ELSE 1), 0, r) = p[n] - p[i]
  BY <1>2, <1>3, <1>8
<1> QED
  BY <1>9 DEF r

\* The words of the arguments put so far lie on top of the guest's own; the first
\* of them is a string.
Stacked ==
    /\ PutSoFar # <<>> => PutSoFar[1].type = "string"
    /\ \E under \in Seq(Word) : stk = under \o A!Words(PutSoFar)

StackInv == IInv /\ Typed /\ Stacked

LEMMA PutSoFarTyped ==
  ASSUME Typed
  PROVE  /\ PutSoFar \in Seq(Valued)
         /\ given # <<>> => PutSoFar = Last(given) /\ PutSoFar = A!Last(given)
<1>1. given \in Seq(Seq(Valued))
  BY TypedParts
<1>2. <<>> \in Seq(Valued)
  OBVIOUS
<1>3. CASE given = <<>>
  BY <1>2, <1>3 DEF PutSoFar
<1>4. CASE given # <<>>
  BY <1>1, <1>2, <1>4, GivenTyped DEF PutSoFar
<1> QED
  BY <1>3, <1>4

\* What the guests in question give __str.
Joined == {"string", "int"}

\* Where SCALL looks for the i-th of several arguments it lies.
LEMMA ArgsFound ==
  ASSUME StackInv, said, Len(sysArgs) > 1
  PROVE  /\ TakenOff = Len(A!Words(PutSoFar)) /\ Len(PutSoFar) = Len(sysArgs)
         /\ \A i \in 1 .. Len(PutSoFar) :
              /\ PrintArg(i) = A!Passed(PutSoFar[i])
              /\ PutSoFar[i].type \in Joined => StrArg(i) = A!Passed(PutSoFar[i])
<1> DEFINE args == PutSoFar  n == Len(sysArgs)
           wd(i) == Len(A!WordsOf(args[i]))
<1>1. args \in Seq(Valued) /\ sysArgs \in Seq(Entries) /\ stk \in Seq(Word)
  BY PutSoFarTyped, TypedParts DEF StackInv
<1>2. n \in Nat /\ Len(args) = n /\ n > 1 /\ ~(n <= 1) /\ ~(n > Slots)
      /\ \A i \in 1 .. n : sysArgs[i] = Byte(args[i])
  <2>1. n \in Nat /\ Len(args) = n /\ \A i \in 1 .. n : sysArgs[i] = Byte(args[i])
    BY <1>1 DEF StackInv, IInv, Announced
  <2>2. Len(args) <= Slots
    BY DEF StackInv, IInv, OneCall
  <2> QED
    BY <2>1, <2>2, SysCallsAssumption
<1>3. PICK under \in Seq(Word) : stk = under \o A!Words(args)
  BY DEF StackInv, Stacked
<1> HIDE DEF args
<1>4. \A i \in 1 .. n :
        /\ args[i] \in Valued /\ A!WordsOf(args[i]) \in Seq(Word)
        /\ wd(i) = (IF args[i].type \in Wide THEN 2 ELSE 1)
        /\ sysArgs[i].flag = args[i].type /\ sysArgs[i].size = wd(i)
  <2> TAKE i \in 1 .. n
  <2>1. args[i] \in Valued /\ sysArgs[i] = Byte(args[i])
    BY <1>1, <1>2
  <2> QED
    BY <2>1, WordsOfOne
<1> DEFINE x == [k \in 1 .. n |-> wd(k)]
<1>5. x \in [1 .. n -> Nat] /\ Sizes(sysArgs) = x /\ Widths(sysArgs) = x
  <2>1. \A k \in 1 .. n : wd(k) \in Nat
    BY <1>4
  <2>2. Sizes(sysArgs) = x
    BY <1>4 DEF Sizes
  <2>3. Widths(sysArgs) = x
    BY <1>4 DEF Widths
  <2> HIDE DEF wd
  <2> QED
    BY <2>1, <2>2, <2>3
<1>10. PICK p : /\ p \in [0 .. Len(args) -> Nat] /\ p[0] = 0
                /\ \A k \in 1 .. Len(args) : p[k] = p[k - 1] + wd(k)
                /\ Len(A!Words(args)) = p[Len(args)]
                /\ \A k \in 1 .. Len(args) : \A j \in 1 .. wd(k) :
                     A!Words(args)[p[k - 1] + j] = A!WordsOf(args[k])[j]
  BY <1>1, WordsLaid
<1>6. /\ p \in [0 .. n -> Nat] /\ p[0] = 0
      /\ \A k \in 1 .. n : p[k] = p[k - 1] + wd(k)
      /\ Len(A!Words(args)) = p[n]
      /\ \A k \in 1 .. n : \A j \in 1 .. wd(k) :
           A!Words(args)[p[k - 1] + j] = A!WordsOf(args[k])[j]
  <2>1. Len(args) = n
    BY <1>2
  <2> HIDE DEF wd, n
  <2> QED
    BY <2>1, <1>10
<1>7. Sums(p, x, n)
  <2> HIDE DEF wd
  <2> QED
    BY <1>6 DEF Sums
<1>8. TakenOff = p[n]
  <2>1. PICK q : Sums(q, Sizes(sysArgs), n)
                 /\ FoldLeft(LAMBDA m, b: m + b.size, 0, sysArgs) = q[n]
    BY <1>1, SizesAdd
  <2>2. q = p
    <3> HIDE DEF x, n
    <3> QED
      BY <1>2, <1>5, <1>7, <2>1, SumsUnique, ZenonT(60)
  <2>3. TakenOff = FoldLeft(LAMBDA m, b: m + b.size, 0, sysArgs)
    BY <1>2 DEF TakenOff
  <2> QED
    BY <2>1, <2>2, <2>3
<1>9. ASSUME NEW i \in 1 .. n
      PROVE  /\ PrintArg(i) = A!Passed(args[i])
             /\ args[i].type \in Joined => StrArg(i) = A!Passed(args[i])
  <2> DEFINE u == Len(under)  w == A!Words(args)  a == p[i - 1]
  <2>1. ValueSizeSum(i) = p[n] - p[i]
    BY <1>1, <1>5, <1>7, WidthsAfter DEF ValueSizeSum
  <2>2. w \in Seq(Word) /\ u \in Nat /\ Len(w) \in Nat /\ Len(stk) = u + Len(w)
        /\ \A k \in 1 .. Len(w) : stk[u + k] = w[k]
    <3> HIDE DEF Word
    <3>1. w \in Seq(Word)
      BY <1>1, WordsTyped
    <3> HIDE DEF w
    <3>2. stk = under \o w
      BY <1>3 DEF w
    <3> QED
      BY <3>1, <3>2
  <2>3. a \in Nat /\ p[i] = a + wd(i) /\ Len(w) = p[n] /\ p[n] \in Nat /\ p[i] \in Nat
        /\ \A j \in 1 .. wd(i) : w[a + j] = A!WordsOf(args[i])[j]
    <3>1. i - 1 \in 0 .. n /\ i \in 0 .. n /\ n \in 0 .. n
      BY <1>2
    <3> QED
      BY <1>6, <3>1
  <2>4. Topmost(i) = u + p[i]
    <3> HIDE DEF u, w
    <3> QED
      BY <2>1, <2>2, <2>3 DEF Topmost
  <2>5. p[i] <= p[n]
    <3> DEFINE S == {k \in 0 .. n : k >= i => p[i] <= p[k]}
    <3> HIDE DEF wd
    <3>1. 0 \in S
      BY <1>2
    <3>2. ASSUME NEW k \in 0 .. n - 1, k \in S PROVE k + 1 \in S
      <4>1. k + 1 \in 1 .. n /\ k + 1 \in 0 .. n /\ (k + 1) - 1 = k
        BY <1>2
      <4>2. p[k + 1] = p[k] + wd(k + 1) /\ wd(k + 1) \in Nat /\ p[k] \in Nat
        <5>1. x[k + 1] = wd(k + 1) /\ x[k + 1] \in Nat
          BY <1>5, <4>1
        <5> QED
          BY <4>1, <1>6, <5>1
      <4>3. k + 1 = i \/ (k >= i <=> k + 1 >= i)
        BY <1>2
      <4>4. k + 1 >= i => p[i] <= p[k + 1]
        BY <2>3, <3>2, <4>2, <4>3
      <4> QED
        BY <4>1, <4>4
    <3> HIDE DEF S
    <3>3. 0 .. n \subseteq S
      BY <1>2, <3>1, <3>2, SetInductionTo
    <3>4. n \in S
      BY <1>2, <3>3
    <3> QED
      BY <3>4, <1>2 DEF S
  <2> DEFINE l == wd(i)  t == Topmost(i)
  <2>6. l \in {1, 2} /\ (l = 2 <=> args[i].type \in Wide) /\ Len(A!WordsOf(args[i])) = l
        /\ A!WordsOf(args[i]) \in Seq(Word) /\ sysArgs[i].flag = args[i].type
    <3>1. l = (IF args[i].type \in Wide THEN 2 ELSE 1)
      BY <1>4
    <3> HIDE DEF l
    <3>2. l \in {1, 2} /\ (l = 2 <=> args[i].type \in Wide)
      BY <3>1
    <3> QED
      BY <3>2, <1>4 DEF l
  <2>7. ASSUME NEW j \in 1 .. l
        PROVE  WordAt(t - l + j) = A!WordsOf(args[i])[j]
    <3> HIDE DEF u, w, a, l, t
    <3>1. t = u + a + l /\ t - l + j = u + (a + j) /\ a + j \in 1 .. Len(w)
      <4>1. t = u + p[i] /\ p[i] = a + l
        BY <2>3, <2>4 DEF l, t
      <4> QED
        BY <4>1, <2>2, <2>3, <2>5, <2>6
    <3>2. stk[t - l + j] = w[a + j]
      BY <2>2, <3>1
    <3>3. t - l + j \in DOMAIN stk
      <4>1. DOMAIN stk = 1 .. Len(stk)
        BY <1>1
      <4> QED
        BY <2>2, <3>1, <4>1
    <3> QED
      BY <2>3, <3>2, <3>3 DEF WordAt, l
  <2>8. t \in Int
    BY <2>4, <2>3, <2>2
  <2> DEFINE v == A!WordsOf(args[i])
  <2>9. CASE args[i].type \in Wide
    <3>1. l = 2 /\ Len(v) = 2 /\ v \in Seq(Word)
      BY <2>6, <2>9
    <3> HIDE DEF l, t, v
    <3>2. WordAt(t - 1) = v[1] /\ WordAt(t) = v[2]
      <4>1. t - 2 + 1 = t - 1 /\ t - 2 + 2 = t /\ 1 \in 1 .. l /\ 2 \in 1 .. l
        BY <2>8, <3>1
      <4> QED
        BY <4>1, <3>1, <2>7 DEF v
    <3>3. v = <<WordAt(t - 1), WordAt(t)>>
      <4> HIDE DEF Word
      <4> QED
        BY <3>1, <3>2
    <3>4. PrintArg(i) = <<WordAt(t - 1), WordAt(t)>>
      BY <2>6, <2>9 DEF PrintArg, t, Wide, A!Wide
    <3>5. A!Passed(args[i]) = v /\ args[i].type \notin Joined
      BY <2>9 DEF A!Passed, Wide, A!Wide, Joined, v
    <3> QED
      BY <3>3, <3>4, <3>5
  <2>10. CASE args[i].type \notin Wide
    <3>1. l = 1 /\ Len(v) = 1 /\ v \in Seq(Word)
      BY <2>6, <2>10
    <3> HIDE DEF l, t, v
    <3>2. WordAt(t) = v[1]
      <4>1. t - 1 + 1 = t /\ 1 \in 1 .. l
        BY <2>8, <3>1
      <4> QED
        BY <4>1, <3>1, <2>7 DEF v
    <3>3. v = <<WordAt(t)>>
      <4> HIDE DEF Word
      <4> QED
        BY <3>1, <3>2
    <3>4. CASE args[i].type = "float"
      <4>1. v = <<<<args[i].val, 1>>>>
        BY <2>10 DEF v, A!WordsOf, Wide
      <4>2. WordAt(t) = <<args[i].val, 1>>
        BY <3>2, <4>1
      <4>3. PrintArg(i) = A!Double(WordAt(t))
        BY <2>6, <2>10, <3>4 DEF PrintArg, t
      <4> QED
        BY <3>4, <4>2, <4>3 DEF A!Passed, Joined
    <3>5. CASE args[i].type # "float"
      <4>1. PrintArg(i) = <<WordAt(t)>> /\ StrArg(i) = <<WordAt(t)>>
        BY <2>6, <2>10, <3>5 DEF PrintArg, StrArg, t
      <4>2. A!Passed(args[i]) = v
        BY <3>5 DEF A!Passed, v
      <4> QED
        BY <3>3, <4>1, <4>2
    <3> QED
      BY <3>4, <3>5
  <2> QED
    BY <2>9, <2>10
<1> QED
  BY <1>2, <1>6, <1>8, <1>9 DEF args

\* A call with one string finds it on top, announced or not.
LEMMA StringFound ==
  ASSUME StackInv, given # <<>>, Prepared, Len(sysArgs) <= 1
  PROVE  /\ TakenOff = Len(A!Words(PutSoFar))
         /\ <<<<WordAt(Len(stk))>>>> = [i \in DOMAIN PutSoFar |-> A!Passed(PutSoFar[i])]
         /\ Len(PutSoFar) = 1
<1>1. PutSoFar \in Seq(Valued) /\ PutSoFar = Last(given) /\ stk \in Seq(Word)
      /\ sysArgs \in Seq(Entries) /\ said \in BOOLEAN
  BY PutSoFarTyped, TypedParts DEF StackInv
<1>2. Len(PutSoFar) = 1
  <2>1. Len(PutSoFar) = Len(sysArgs) + (IF said THEN 0 ELSE 1) /\ Len(sysArgs) \in Nat
    BY <1>1 DEF StackInv, IInv, Announced
  <2>2. PutSoFar # <<>> /\ (said \/ Len(PutSoFar) = 1)
    BY <1>1 DEF Prepared, Inner
  <2>3. Len(PutSoFar) \in Nat \ {0}
    BY <1>1, <2>2, EmptySeq
  <2>4. CASE said
    <3>1. (IF said THEN 0 ELSE 1) = 0
      BY <2>4
    <3>2. Len(PutSoFar) = Len(sysArgs) + 0
      BY <2>1, <3>1, Zenon
    <3> QED
      BY <2>1, <2>3, <3>2
  <2>5. CASE ~said
    BY <2>2, <2>5
  <2> QED
    BY <2>4, <2>5
<1> DEFINE x == PutSoFar[1]
<1>3. PutSoFar = <<x>> /\ x \in Valued /\ PutSoFar # <<>>
  <2> DEFINE s == PutSoFar
  <2>1. s \in Seq(Valued) /\ Len(s) = 1
    BY <1>1, <1>2
  <2> HIDE DEF s, Valued
  <2>2. s = <<s[1]>> /\ s[1] \in Valued /\ s # <<>>
    BY <2>1
  <2> QED
    BY <2>2 DEF s
<1>4. x.type = "string"
  BY <1>3 DEF StackInv, Stacked
<1> DEFINE w == <<x.val, 1>>
<1>5. A!WordsOf(x) = <<w>> /\ w \in Word
  <2>1. A!WordsOf(x) = <<w>>
    BY <1>4 DEF A!WordsOf, A!Wide
  <2>2. w \in Word
    BY <1>3 DEF Word, Valued
  <2> QED
    BY <2>1, <2>2
<1>6. A!Words(PutSoFar) = <<w>>
  <2> HIDE DEF x, w
  <2> QED
    BY <1>3, <1>5, WordsOfFew
<1>7. PICK under \in Seq(Word) : stk = under \o <<w>>
  BY <1>6 DEF StackInv, Stacked
<1>8. WordAt(Len(stk)) = w
  <2> HIDE DEF w, Word
  <2>1. Len(stk) = Len(under) + 1 /\ Len(under) \in Nat /\ stk[Len(under) + 1] = w
        /\ DOMAIN stk = 1 .. Len(stk)
    BY <1>1, <1>5, <1>7
  <2> QED
    BY <2>1 DEF WordAt
<1>9. TakenOff = 1
  <2>1. ~(Len(sysArgs) > Slots)
    BY <1>1, SysCallsAssumption
  <2> QED
    BY <2>1 DEF TakenOff
<1>10. [i \in DOMAIN PutSoFar |-> A!Passed(PutSoFar[i])] = <<<<w>>>>
  <2>1. DOMAIN PutSoFar = 1 .. 1
    BY <1>1, <1>2
  <2>2. \A i \in 1 .. 1 : i = 1
    OBVIOUS
  <2>3. \A i \in 1 .. 1 : A!Passed(PutSoFar[i]) = <<w>>
    BY <2>2, <1>4, <1>5 DEF A!Passed
  <2> HIDE DEF w
  <2>4. [i \in 1 .. 1 |-> <<w>>] = <<<<w>>>>
    OBVIOUS
  <2> QED
    BY <2>1, <2>3, <2>4
<1>11. Len(<<w>>) = 1
  OBVIOUS
<1> HIDE DEF w
<1> QED
  BY <1>2, <1>6, <1>8, <1>9, <1>10, <1>11

\* What print and str take for their arguments are the arguments.
LEMMA ArgumentsGot ==
  ASSUME StackInv, given # <<>>, Prepared
  PROVE  /\ TakenOff = Len(A!Words(PutSoFar))
         /\ Formatted([i \in DOMAIN sysArgs |-> PrintArg(i)])
            = [i \in DOMAIN PutSoFar |-> A!Passed(PutSoFar[i])]
         /\ (\A i \in DOMAIN PutSoFar : PutSoFar[i].type \in Joined) =>
              Formatted([i \in DOMAIN sysArgs |-> StrArg(i)])
              = [i \in DOMAIN PutSoFar |-> A!Passed(PutSoFar[i])]
<1>1. PutSoFar \in Seq(Valued) /\ PutSoFar = Last(given) /\ sysArgs \in Seq(Entries)
  BY PutSoFarTyped, TypedParts DEF StackInv
<1>2. Len(sysArgs) \in Nat /\ DOMAIN sysArgs = 1 .. Len(sysArgs)
      /\ DOMAIN PutSoFar = 1 .. Len(PutSoFar)
  BY <1>1
<1>3. CASE Len(sysArgs) <= 1
  BY <1>3, StringFound DEF Formatted
<1>4. CASE Len(sysArgs) > 1
  <2>1. said
    <3>1. Len(PutSoFar) = Len(sysArgs) + (IF said THEN 0 ELSE 1)
      BY DEF StackInv, IInv, Announced
    <3>2. said \/ Len(PutSoFar) = 1
      BY <1>1 DEF Prepared, Inner
    <3> QED
      BY <1>2, <1>4, <3>1, <3>2
  <2>2. TakenOff = Len(A!Words(PutSoFar)) /\ Len(PutSoFar) = Len(sysArgs)
        /\ \A i \in 1 .. Len(PutSoFar) :
             /\ PrintArg(i) = A!Passed(PutSoFar[i])
             /\ PutSoFar[i].type \in Joined => StrArg(i) = A!Passed(PutSoFar[i])
    BY <1>4, <2>1, ArgsFound
  <2>3. ~(Len(sysArgs) <= 1)
    BY <1>2, <1>4
  <2> QED
    BY <1>2, <2>2, <2>3 DEF Formatted
<1> QED
  BY <1>2, <1>3, <1>4

\* A system call is a call of Variadic.
LEMMA CallMaps ==
  ASSUME StackInv, given # <<>>, NEW fn, NEW args, NEW n, NEW result,
         SCALL(fn, args, n, result), n = Len(A!Words(PutSoFar)),
         args = [i \in DOMAIN PutSoFar |-> A!Passed(PutSoFar[i])]
  PROVE  A!Call(fn, result)
<1>1. PutSoFar = A!Last(given)
  BY PutSoFarTyped DEF StackInv
<1>2. Front(given) = A!Front(given)
  BY DEF Front, A!Front
<1>3. /\ out' = [fn |-> fn, got |-> args]
      /\ stk' = SubSeq(stk, 1, Len(stk) - n) \o A!Words(result)
      /\ given' = A!Given(Front(given), result)
  BY DEF SCALL
<1> QED
  BY <1>1, <1>2, <1>3 DEF A!Call

\* A careful guest that gives __str strings and ints.
PlainGuest == Ops = {}

LEMMA StepMaps ==
  ASSUME PlainGuest, StackInv, [Next]_vars
  PROVE  [A!Next]_(A!avars)
<1>1. CASE UNCHANGED vars \/ SARG
  BY <1>1 DEF vars, SARG, A!avars
<1>2. CASE Push \/ Pop \/ Begin
  BY <1>2 DEF Push, Pop, Begin, A!Next
<1>3. CASE \E x \in A!Arguments : Put(x)
  BY <1>3 DEF Put, A!Next
<1>4. CASE given # <<>> /\ SysPrint
  <2>1. A!Call("print", <<>>)
    BY <1>4, ArgumentsGot, CallMaps DEF SysPrint
  <2> QED
    BY <2>1 DEF A!Next
<1>5. CASE given # <<>> /\ SysStr
  <2>1. PutSoFar = Inner
    BY <1>5, PutSoFarTyped DEF StackInv, Inner
  <2>2. \A i \in DOMAIN PutSoFar : PutSoFar[i].type \in Joined
    BY <1>5, <2>1 DEF SysStr, PlainGuest, Joined
  <2>3. A!Call("str", <<A!Made>>)
    BY <1>5, <2>2, ArgumentsGot, CallMaps DEF SysStr
  <2> QED
    BY <2>3 DEF A!Next
<1>6. CASE given # <<>> /\ SysInput
  <2>1. PutSoFar = <<>>
    BY <1>6, PutSoFarTyped DEF StackInv, Inner, SysInput
  <2>2. A!Words(PutSoFar) = <<>> /\ Len(<<>>) = 0
        /\ [i \in DOMAIN PutSoFar |-> A!Passed(PutSoFar[i])] = <<>>
    BY <2>1, WordsOfFew
  <2>3. A!Call("input", <<A!Made>>)
    BY <1>6, <2>2, CallMaps DEF SysInput
  <2> QED
    BY <2>3 DEF A!Next
<1>7. CASE given # <<>> /\ NoFunction
  <2>1. PICK fn \in A!Missing : SCALL(fn, <<>>, 0, <<>>)
    BY <1>7 DEF NoFunction
  <2>2. A!Words(<<>>) = <<>> /\ Front(given) = A!Front(given)
    BY WordsOfFew DEF Front, A!Front
  <2>3. stk' = SubSeq(stk, 1, Len(stk) - 0) \o <<>>
    BY <2>1, <2>2 DEF SCALL
  <2>4. stk' = stk
    <3>1. stk \in Seq(Word)
      BY TypedParts DEF StackInv
    <3> HIDE DEF Word
    <3>2. Len(stk) \in Nat /\ Len(stk) - 0 = Len(stk)
      BY <3>1
    <3>3. SubSeq(stk, 1, Len(stk)) = stk /\ stk \o <<>> = stk
      BY <3>1
    <3> QED
      BY <2>3, <3>2, <3>3
  <2>5. A!Ignored(fn)
    BY <1>7, <2>1, <2>2, <2>4 DEF SCALL, A!Ignored
  <2> QED
    BY <2>5 DEF A!Next
<1> QED
  BY <1>1, <1>2, <1>3, <1>4, <1>5, <1>6, <1>7 DEF Next

LEMMA NoneStacked ==
  ASSUME stk' \in Seq(Word), PutSoFar' = <<>> PROVE Stacked'
<1>1. A!Words(PutSoFar)' = <<>>
  BY WordsOfFew
<1>2. stk' = stk' \o <<>>
  <2> HIDE DEF Word
  <2> QED
    OBVIOUS
<1> QED
  BY <1>1, <1>2 DEF Stacked

LEMMA PutStacked ==
  ASSUME StackInv, NEW x \in A!Arguments, Put(x) PROVE Stacked'
<1>1. /\ given # <<>> /\ stk' = stk \o A!WordsOf(x) /\ given' = A!Given(given, <<x>>)
      /\ (Last(given) = <<>> => x.type = "string")
  BY DEF Put, A!Put, Inner
<1>2. x \in Valued /\ <<x>> \in Seq(Valued) /\ A!WordsOf(x) \in Seq(Word)
  BY MadeValued, WordsOfOne
<1>3. PutSoFar = Last(given) /\ PutSoFar \in Seq(Valued) /\ given \in Seq(Seq(Valued))
  BY <1>1, PutSoFarTyped, TypedParts DEF StackInv
<1>4. PutSoFar' = PutSoFar \o <<x>>
  BY <1>1, <1>2, <1>3, GivenTyped DEF PutSoFar
<1>5. PICK under \in Seq(Word) : stk = under \o A!Words(PutSoFar)
  BY DEF StackInv, Stacked
<1>6. A!Words(PutSoFar') = A!Words(PutSoFar) \o A!WordsOf(x)
  BY <1>2, <1>3, <1>4, WordsAppend
<1>7. stk' = under \o A!Words(PutSoFar')
  <2>1. A!Words(PutSoFar) \in Seq(Word)
    BY <1>3, WordsTyped
  <2> QED
    BY <1>1, <1>2, <1>5, <1>6, <2>1, ConcatAssociative, SMTT(30)
<1>8. PutSoFar'[1].type = "string"
  <2> DEFINE s == PutSoFar
  <2>1. s \in Seq(Valued)
    BY <1>3
  <2>2. CASE s = <<>>
    <3>1. x.type = "string" /\ (<<>> \o <<x>>)[1] = x
      BY <1>1, <1>3, <2>2
    <3> QED
      BY <1>4, <2>2, <3>1
  <2>3. CASE s # <<>>
    <3>1. s[1].type = "string"
      BY <2>3 DEF StackInv, Stacked
    <3> HIDE DEF s, Valued
    <3>2. (s \o <<x>>)[1] = s[1]
      BY <1>2, <2>1, <2>3
    <3> QED
      BY <1>4, <3>1, <3>2 DEF s
  <2> QED
    BY <2>2, <2>3
<1> QED
  BY <1>5, <1>7, <1>8 DEF Stacked

LEMMA NextStacked ==
  ASSUME PlainGuest, StackInv, [Next]_vars PROVE StackInv'
<1>0. Careful
  BY DEF PlainGuest, Careful
<1>1. IInv' /\ Typed'
  BY <1>0, NextIInv, NextTyped DEF StackInv
<1>2. stk' \in Seq(Word)
  BY <1>1 DEF Typed, TypeOK, Word, Held
<1>3. CASE UNCHANGED vars \/ SARG
  <2>1. UNCHANGED <<stk, given>>
    BY <1>3 DEF vars, SARG
  <2> QED
    BY <1>1, <2>1 DEF StackInv, Stacked, PutSoFar
<1>4. CASE Push \/ Pop
  <2>1. given' = <<>>
    BY <1>4 DEF Push, Pop, A!Push, A!Pop
  <2> QED
    BY <1>1, <1>2, <2>1, NoneStacked DEF StackInv, PutSoFar
<1>5. CASE Begin
  <2>1. given' = <<<<>>>>
    <3>1. given = <<>> /\ given' = Append(given, <<>>)
      BY <1>5 DEF Begin, A!Begin, PlainGuest
    <3> QED
      BY <3>1
  <2>2. PutSoFar' = <<>>
    BY <2>1 DEF PutSoFar
  <2> QED
    BY <1>1, <1>2, <2>2, NoneStacked DEF StackInv
<1>6. CASE \E x \in A!Arguments : Put(x)
  BY <1>1, <1>6, PutStacked DEF StackInv
<1>7. CASE given # <<>> /\ (SysPrint \/ SysStr \/ SysInput \/ NoFunction)
  <2>1. PICK fn, args, n, result : SCALL(fn, args, n, result)
    BY <1>7 DEF SysPrint, SysStr, SysInput, NoFunction
  <2>2. given' = <<>>
    BY <2>1, OneGiven DEF SCALL, StackInv, IInv, OneCall
  <2> QED
    BY <1>1, <1>2, <2>2, NoneStacked DEF StackInv, PutSoFar
<1> QED
  BY <1>3, <1>4, <1>5, <1>6, <1>7 DEF Next

\* For every size of sysArgs and every guest that does not nest its system calls,
\* gives none more arguments than sysArgs has bytes, and gives __str strings and
\* ints only: SysPrint and SysStr find each argument whole at the place the bytes
\* of SARG give it, SysPrint's floats as doubles, take exactly the arguments off
\* the stack and leave the result, and a function that SCALL has no case for
\* leaves all as it was, so that SysCalls implements Variadic (shared_impl.h).
THEOREM CallsGetArguments ==
  ASSUME PlainGuest PROVE Spec => AbsSpec
<1>1. Init => StackInv
  <2> SUFFICES ASSUME Init PROVE StackInv
    OBVIOUS
  <2>1. stk = <<>> /\ given = <<>> /\ PutSoFar = <<>>
    BY DEF Init, A!Init, PutSoFar
  <2>2. A!Words(PutSoFar) = <<>> /\ <<>> \o <<>> = <<>> /\ <<>> \in Seq(Word)
    BY <2>1, WordsOfFew, EmptySeq
  <2> QED
    BY <2>1, <2>2, InitIInv, InitTyped DEF StackInv, Stacked
<1>2. StackInv /\ [Next]_vars => StackInv'
  BY NextStacked
<1>3. Init => A!Init
  BY DEF Init
<1>4. StackInv /\ [Next]_vars => [A!Next]_(A!avars)
  BY StepMaps
<1> QED
  BY <1>1, <1>2, <1>3, <1>4, PTL DEF Spec, AbsSpec, A!Spec
=============================================================================
