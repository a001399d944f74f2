--------------------------- MODULE AssemblerProofs ---------------------------
(***************************************************************************)
(* For every set of sources whose .MODE comes before the first instruction *)
(* and the first .BYTE, and in which .BYTE declares the size of its data,  *)
(* the labels and the start of the data are where the second pass puts     *)
(* what they name. No length of an instruction matters: the argument is    *)
(* that both passes ask for it with the same sets loaded.                  *)
(***************************************************************************)
EXTENDS Assembler, SequenceTheorems, TLAPS

IsSeq(s) == \E T : s \in Seq(T)

Passed == {"byte", "instr"}  \* what is left for the second pass

SoundLine(w) ==
    w.op = "byte" => w.size \in Nat /\ (w.data = "number" => w.text = w.size)

Sound(s) ==
    /\ IsSeq(s)
    /\ \A k \in DOMAIN s : SoundLine(s[k].what)
    /\ \A k, n \in DOMAIN s : s[k].what.op = "mode" /\ n < k => s[n].what.op \notin Passed

----------------------------------------------------------------------------
(* The invariant.                                                          *)

\* Where line i of wk ends, and where the first n do, with the sets loaded.
EndOf(wk, sets, i) == wk[i].at + Counted(sets, wk[i].what)
Ends(wk, sets, n)  == IF n = 0 THEN 0 ELSE EndOf(wk, sets, n)

\* wk is made of lines of s, each beginning where the one before it ends.
LineOK(s, w) ==
    /\ w.line \in DOMAIN s /\ w.at \in Nat
    /\ w.what = s[w.line].what /\ w.what.op \in Passed
WorkingOK(s, wk, sets) ==
    /\ IsSeq(wk)
    /\ \A i \in 1 .. Len(wk) : LineOK(s, wk[i]) /\ wk[i].at = Ends(wk, sets, i - 1)

\* Lines before k end at a, and are all there are so far.
AllBefore(wk, sets, k, a) ==
    \A i \in 1 .. Len(wk) : wk[i].line < k /\ EndOf(wk, sets, i) <= a

\* Address a, given to line k, is between the lines before k and the others.
Placed(wk, sets, k, a) ==
    /\ a \in Nat
    /\ \A i \in 1 .. Len(wk) : IF wk[i].line < k THEN EndOf(wk, sets, i) <= a
                                ELSE a <= wk[i].at

\* The one line with .DATA.
OnlyData(s, k) ==
    /\ s[k].what.op = "data" /\ s[k].label = ""
    /\ \A m \in DOMAIN s : s[m].what.op = "data" => m = k

LabelGiven(k) ==
    ~failed /\ src[k].label # "" =>
        src[k].label \in DOMAIN labels /\ Placed(working, loaded, k, labels[src[k].label])
DataGiven(k) == OnlyData(src, k) => Placed(working, loaded, k, header.dataStart)

\* In the first pass all addresses given are behind the lines read so far.
LabelBehind(k) == ~failed /\ src[k].label # "" => labels[src[k].label] <= addr
DataBehind(k)  == OnlyData(src, k) => header.dataStart <= addr

FirstInv ==
    /\ lineNbr \in 1 .. Len(src) + 1 /\ out = <<>> /\ fpos = 0
    /\ addr = Ends(working, loaded, Len(working)) /\ addr \in Nat
    /\ AllBefore(working, loaded, lineNbr, addr)
    /\ \A k \in 1 .. lineNbr - 1 :
        LabelGiven(k) /\ LabelBehind(k) /\ DataGiven(k) /\ DataBehind(k)

\* In the second, what is written is what was counted.
SecondInv ==
    /\ IsSeq(out) /\ Len(out) <= Len(working) /\ lineNbr = Len(out) + 1
    /\ fpos = Ends(working, loaded, Len(out))
    /\ \A n \in 1 .. Len(out) :
        /\ out[n].line = working[n].line /\ out[n].at = working[n].at
        /\ out[n].size = Counted(loaded, working[n].what)
    /\ \A k \in DOMAIN src : LabelGiven(k) /\ DataGiven(k)

HeaderOK(h) ==
    h = [mode |-> h.mode, heap |-> h.heap, heap_max |-> h.heap_max,
         dataStart |-> h.dataStart]

IInv ==
    /\ Sound(src) /\ "" \notin DOMAIN labels /\ HeaderOK(header)
    /\ WorkingOK(src, working, loaded)
    /\ phase = "first" => FirstInv
    /\ phase # "first" => SecondInv

----------------------------------------------------------------------------
(* Sequences of anything, and sizes.                                       *)

\* Append adds one entry and keeps the others.
LEMMA AppendAny ==
    ASSUME NEW s, NEW e, IsSeq(s)
    PROVE  /\ IsSeq(Append(s, e)) /\ Len(Append(s, e)) = Len(s) + 1
           /\ Append(s, e)[Len(s) + 1] = e
           /\ \A i \in 1 .. Len(s) : Append(s, e)[i] = s[i]
<1>1. PICK T : s \in Seq(T)
  BY DEF IsSeq
<1> DEFINE U == T \cup {e}
<1>2. s \in Seq(U) /\ e \in U
  BY <1>1
<1>3. Append(s, e) \in Seq(U)
  BY <1>2, AppendProperties
<1> HIDE DEF U
<1> QED
  BY <1>2, <1>3, AppendProperties DEF IsSeq

LEMMA SeqDomain ==
    ASSUME NEW s, IsSeq(s)
    PROVE  Len(s) \in Nat /\ DOMAIN s = 1 .. Len(s)
<1>1. PICK T : s \in Seq(T)
  BY DEF IsSeq
<1> QED
  BY <1>1, LenProperties

\* Every instruction has a size, whatever sets are loaded.
LEMMA SizeNat == ASSUME NEW sets, NEW mn PROVE Size(sets, mn) \in Nat
<1>1. Imm(mn) \in Nat
  BY DEF Imm
<1>2. SharedBytes(mn) \in Nat
  BY DEF SharedBytes
<1>3. StackBytes(mn) \in Nat
  BY DEF StackBytes
<1>4. RegisterBytes(mn) \in Nat
  BY DEF RegisterBytes
<1>5. \A m : ByteSize(m, mn) \in Nat
  BY <1>2, <1>3, <1>4 DEF ByteSize
<1> QED
  BY <1>5 DEF Size

\* So has every line that is left for the second pass, and it is what is written.
LEMMA CountedNat ==
    ASSUME NEW sets, NEW w, SoundLine(w), w.op \in Passed
    PROVE  Counted(sets, w) \in Nat /\ Written(sets, w) = Counted(sets, w)
<1>1. CASE w.op = "byte"
  <2>1. Counted(sets, w) = w.size
    BY <1>1 DEF Counted
  <2>2. Written(sets, w) = w.size
    BY <1>1 DEF Written, SoundLine
  <2> QED
    BY <1>1, <2>1, <2>2 DEF SoundLine
<1>2. CASE w.op = "instr"
  <2>1. w.op # "byte"
    BY <1>2
  <2>2. Counted(sets, w) = Size(sets, w.mn)
    BY <2>1 DEF Counted
  <2>3. Written(sets, w) = Size(sets, w.mn)
    BY <1>2, <2>1 DEF Written
  <2> QED
    BY <2>2, <2>3, SizeNat
<1> QED
  BY <1>1, <1>2 DEF Passed

LEMMA EndsNat ==
    ASSUME NEW s, NEW wk, NEW sets, Sound(s), WorkingOK(s, wk, sets)
    PROVE  /\ Len(wk) \in Nat
           /\ \A i \in 1 .. Len(wk) :
                /\ Counted(sets, wk[i].what) \in Nat
                /\ Written(sets, wk[i].what) = Counted(sets, wk[i].what)
                /\ EndOf(wk, sets, i) \in Nat
                /\ wk[i].line \in Nat
<1>1. Len(wk) \in Nat
  BY SeqDomain DEF WorkingOK
<1>2. ASSUME NEW i \in 1 .. Len(wk)
      PROVE  /\ Counted(sets, wk[i].what) \in Nat
             /\ Written(sets, wk[i].what) = Counted(sets, wk[i].what)
             /\ EndOf(wk, sets, i) \in Nat
             /\ wk[i].line \in Nat
  <2>1. SoundLine(wk[i].what) /\ wk[i].what.op \in Passed /\ wk[i].at \in Nat
    BY DEF WorkingOK, Sound, LineOK
  <2>2. /\ Counted(sets, wk[i].what) \in Nat
        /\ Written(sets, wk[i].what) = Counted(sets, wk[i].what)
    BY <2>1, CountedNat
  <2>3. DOMAIN s = 1 .. Len(s) /\ Len(s) \in Nat
    BY SeqDomain DEF Sound
  <2>4. wk[i].line \in DOMAIN s
    BY DEF WorkingOK, LineOK
  <2> QED
    BY <2>1, <2>2, <2>3, <2>4 DEF EndOf
<1> QED
  BY <1>1, <1>2

\* new is wk with the line e behind its lines.
Longer(wk, sets, e, new) ==
    /\ Len(new) = Len(wk) + 1 /\ Len(wk) \in Nat /\ new[Len(wk) + 1] = e
    /\ EndOf(new, sets, Len(wk) + 1) = e.at + Counted(sets, e.what)
    /\ \A i \in 1 .. Len(wk) : new[i] = wk[i] /\ EndOf(new, sets, i) = EndOf(wk, sets, i)

\* A line added at the end of the others keeps the shape of working.
LEMMA AddLine ==
    ASSUME NEW s, NEW wk, NEW sets, NEW e, Sound(s), WorkingOK(s, wk, sets),
           LineOK(s, e), e.at = Ends(wk, sets, Len(wk)), NEW new, new = Append(wk, e)
    PROVE  WorkingOK(s, new, sets) /\ Longer(wk, sets, e, new)
<1> DEFINE n == Len(wk) + 1
<1>1. /\ IsSeq(new) /\ Len(new) = n /\ new[n] = e
      /\ \A i \in 1 .. Len(wk) : new[i] = wk[i]
  BY AppendAny DEF WorkingOK
<1>2. Len(wk) \in Nat
  BY EndsNat
<1>3. EndOf(new, sets, n) = e.at + Counted(sets, e.what)
  BY <1>1 DEF EndOf
<1>4. \A i \in 1 .. Len(wk) : EndOf(new, sets, i) = EndOf(wk, sets, i)
  BY <1>1 DEF EndOf
<1>5. \A i \in 0 .. Len(wk) : Ends(new, sets, i) = Ends(wk, sets, i)
  BY <1>2, <1>4 DEF Ends
<1>6. ASSUME NEW i \in 1 .. Len(wk)
      PROVE  LineOK(s, new[i]) /\ new[i].at = Ends(new, sets, i - 1)
  <2>1. i - 1 \in 0 .. Len(wk)
    BY <1>2
  <2> QED
    BY <1>1, <1>5, <2>1 DEF WorkingOK
<1>7. LineOK(s, new[n]) /\ new[n].at = Ends(new, sets, n - 1)
  <2>1. n - 1 = Len(wk) /\ Len(wk) \in 0 .. Len(wk)
    BY <1>2
  <2> QED
    BY <1>1, <1>5, <2>1
<1>8. \A i \in 1 .. n : i = n \/ i \in 1 .. Len(wk)
  BY <1>2
<1>9. WorkingOK(s, new, sets)
  <2> HIDE DEF n
  <2> QED
    BY <1>1, <1>6, <1>7, <1>8 DEF WorkingOK
<1> QED
  BY <1>1, <1>2, <1>3, <1>4, <1>9 DEF Longer

\* The addresses given before stay between their lines when a line is added that
\* begins behind them.
LEMMA StaysPlaced ==
    ASSUME NEW s, NEW wk, NEW sets, NEW e, Sound(s), WorkingOK(s, wk, sets),
           LineOK(s, e), e.at = Ends(wk, sets, Len(wk)),
           NEW new, new = Append(wk, e),
           NEW k \in Nat, NEW a, Placed(wk, sets, k, a), a <= e.at, k <= e.line
    PROVE  Placed(new, sets, k, a)
<1> DEFINE n == Len(wk) + 1
<1>0. Longer(wk, sets, e, new)
  BY AddLine
<1>1. /\ Len(new) = n /\ Len(wk) \in Nat /\ new[n] = e
      /\ \A i \in 1 .. Len(wk) : new[i] = wk[i] /\ EndOf(new, sets, i) = EndOf(wk, sets, i)
  BY <1>0 DEF Longer
<1>2. e.line \in Nat
  BY SeqDomain DEF Sound, LineOK
<1>3. ~(e.line < k)
  BY <1>2
<1>4. \A i \in 1 .. n : i = n \/ i \in 1 .. Len(wk)
  BY <1>1
<1>5. ASSUME NEW i \in 1 .. Len(wk)
      PROVE  IF new[i].line < k THEN EndOf(new, sets, i) <= a ELSE a <= new[i].at
  BY <1>1 DEF Placed
<1>6. IF new[n].line < k THEN EndOf(new, sets, n) <= a ELSE a <= new[n].at
  BY <1>1, <1>3
<1> HIDE DEF n
<1> QED
  BY <1>1, <1>4, <1>5, <1>6 DEF Placed

\* The end of all lines is a place for the next one.
LEMMA EndPlaced ==
    ASSUME NEW wk, NEW sets, NEW k, NEW a \in Nat, AllBefore(wk, sets, k, a)
    PROVE  Placed(wk, sets, k, a)
BY DEF AllBefore, Placed

----------------------------------------------------------------------------
(* The first pass.                                                         *)

LEMMA InitInv ==
    ASSUME \A s \in Sources : Sound(s), Init
    PROVE  IInv
<1>1. Sound(src) /\ Len(src) \in Nat
  BY SeqDomain DEF Init, Sound
<1>2. "" \notin DOMAIN labels
  BY NoEmptyName DEF Init
<1>3. working = <<>> /\ out = <<>> /\ fpos = 0 /\ addr = 0 /\ lineNbr = 1 /\ phase = "first"
  BY DEF Init
<1>4. HeaderOK(header)
  BY DEF Init, HeaderOK, DefaultHeader
<1>5. Len(working) = 0 /\ IsSeq(working)
  BY <1>3, EmptySeq DEF IsSeq
<1>6. WorkingOK(src, working, loaded)
  BY <1>5 DEF WorkingOK
<1>7. FirstInv
  BY <1>1, <1>3, <1>5 DEF FirstInv, Ends, AllBefore
<1> QED
  BY <1>1, <1>2, <1>3, <1>4, <1>6, <1>7 DEF IInv

\* What reading a line can do: the line is left for the second pass, or working
\* and the address stay, and once there is a line in working no set is loaded.
LEMMA ReadCases ==
    ASSUME IInv, phase = "first", FirstPassReadLine
    PROVE  /\ lineNbr \in DOMAIN src
           /\ \/ /\ UNCHANGED <<working, addr>>
                 /\ Len(working) > 0 => loaded' = loaded
              \/ /\ Leave(src[lineNbr].what)
                 /\ src[lineNbr].what.op \in Passed
<1> DEFINE w == src[lineNbr].what
<1>1. lineNbr \in 1 .. Len(src)
  <2>1. lineNbr \in 1 .. Len(src) + 1 /\ Len(src) \in Nat
    BY SeqDomain DEF IInv, FirstInv, Sound
  <2>2. lineNbr <= Len(src)
    BY DEF FirstPassReadLine
  <2> QED
    BY <2>1, <2>2
<1>2. lineNbr \in DOMAIN src
  BY <1>1, SeqDomain DEF IInv, Sound
<1>3. LineError \/ Read(w)
  BY DEF FirstPassReadLine
<1>4. CASE LineError
  BY <1>2, <1>4 DEF LineError
<1>5. CASE w.op = "mode" /\ SetMode(w)
  <2>1. ASSUME NEW i \in 1 .. Len(working)
        PROVE  FALSE
    <3>1. /\ working[i].line \in DOMAIN src /\ working[i].line < lineNbr
          /\ src[working[i].line].what.op \in Passed
      BY <1>5 DEF IInv, WorkingOK, FirstInv, LineOK, AllBefore
    <3> QED
      BY <1>2, <1>5, <3>1 DEF IInv, Sound
  <2>2. Len(working) \in Nat
    BY SeqDomain DEF IInv, WorkingOK
  <2>3. ~(Len(working) > 0)
    BY <2>1, <2>2
  <2>4. UNCHANGED <<working, addr>>
    BY <1>5 DEF SetMode, LineError
  <2> QED
    BY <1>2, <2>3, <2>4
<1>6. CASE Ignored
  BY <1>2, <1>6 DEF Ignored
<1>7. CASE SetHeader(w)
  BY <1>2, <1>7 DEF SetHeader
<1>8. CASE Leave(w) /\ w.op \in Passed
  BY <1>2, <1>8
<1>9. Read(w) => \/ LineError
                 \/ Ignored
                 \/ SetHeader(w)
                 \/ w.op = "mode" /\ SetMode(w)
                 \/ Leave(w) /\ w.op \in Passed
  BY DEF Read, Passed
<1> QED
  BY <1>3, <1>4, <1>5, <1>6, <1>7, <1>8, <1>9

\* So working keeps its shape, and addresses given stay between their lines.
LEMMA FirstKeepsWorking ==
    ASSUME IInv, phase = "first", FirstPassReadLine
    PROVE  /\ WorkingOK(src, working', loaded')
           /\ addr' = Ends(working', loaded', Len(working')) /\ addr' \in Nat /\ addr <= addr'
           /\ AllBefore(working', loaded', lineNbr + 1, addr')
           /\ \A k \in 1 .. lineNbr : \A a :
                Placed(working, loaded, k, a) /\ a <= addr => Placed(working', loaded', k, a)
<1> DEFINE w == src[lineNbr].what
           e == [line |-> lineNbr, at |-> addr, what |-> w]
<1>1. lineNbr \in DOMAIN src /\ lineNbr \in Nat
  <2>1. lineNbr \in DOMAIN src
    BY ReadCases
  <2>2. DOMAIN src = 1 .. Len(src) /\ Len(src) \in Nat
    BY SeqDomain DEF IInv, Sound
  <2> QED
    BY <2>1, <2>2
<1>2. /\ Sound(src) /\ WorkingOK(src, working, loaded)
      /\ Len(working) \in Nat /\ addr = Ends(working, loaded, Len(working)) /\ addr \in Nat
      /\ AllBefore(working, loaded, lineNbr, addr)
  BY EndsNat DEF IInv, FirstInv
<1>3. \A i \in 1 .. Len(working) :
        /\ working[i].line < lineNbr /\ EndOf(working, loaded, i) <= addr
        /\ EndOf(working, loaded, i) \in Nat /\ working[i].line \in Nat
  BY <1>2, EndsNat DEF AllBefore
<1>4. CASE UNCHANGED <<working, addr>> /\ Len(working) = 0
  <2>1. WorkingOK(src, working', loaded') /\ addr' = Ends(working', loaded', Len(working'))
    BY <1>2, <1>4 DEF WorkingOK, Ends
  <2>2. AllBefore(working', loaded', lineNbr + 1, addr')
    BY <1>4 DEF AllBefore
  <2>3. \A k, a : Placed(working, loaded, k, a) => Placed(working', loaded', k, a)
    BY <1>4 DEF Placed
  <2> QED
    BY <1>2, <1>4, <2>1, <2>2, <2>3
<1>5. CASE UNCHANGED <<working, addr>> /\ Len(working) # 0 /\ loaded' = loaded
  <2>1. AllBefore(working', loaded', lineNbr + 1, addr')
    BY <1>1, <1>3, <1>5 DEF AllBefore
  <2> QED
    BY <1>2, <1>5, <2>1
<1>6. CASE Leave(w) /\ w.op \in Passed
  <2>1. /\ working' = Append(working, e) /\ loaded' = loaded
        /\ addr' = addr + Counted(loaded, w)
    BY <1>6 DEF Leave
  <2>2. LineOK(src, e) /\ e.at = Ends(working, loaded, Len(working)) /\ e.what = w
        /\ e.line = lineNbr /\ e.at = addr
    BY <1>1, <1>2, <1>6 DEF LineOK
  <2> HIDE DEF e
  <2>3. Counted(loaded, w) \in Nat
    BY <1>1, <1>2, <1>6, CountedNat DEF Sound
  <2>4. WorkingOK(src, working', loaded) /\ Longer(working, loaded, e, working')
    <3> HIDE DEF w
    <3> QED
      BY <1>2, <2>1, <2>2, AddLine
  <2>4a. /\ Len(working') = Len(working) + 1
        /\ working'[Len(working) + 1] = e
        /\ EndOf(working', loaded, Len(working) + 1) = e.at + Counted(loaded, e.what)
        /\ \A i \in 1 .. Len(working) :
            /\ working'[i] = working[i]
            /\ EndOf(working', loaded, i) = EndOf(working, loaded, i)
    BY <2>4 DEF Longer
  <2>5. addr' = Ends(working', loaded', Len(working')) /\ addr' \in Nat /\ addr <= addr'
    BY <1>2, <2>1, <2>2, <2>3, <2>4a DEF Ends
  <2>6. ASSUME NEW i \in 1 .. Len(working')
        PROVE  working'[i].line < lineNbr + 1 /\ EndOf(working', loaded', i) <= addr'
    <3>1. CASE i = Len(working) + 1
      BY <1>1, <2>1, <2>2, <2>3, <2>4a, <2>5, <3>1
    <3>2. CASE i \in 1 .. Len(working)
      <4>1. working'[i].line = working[i].line /\ EndOf(working', loaded', i) <= addr
        BY <1>3, <2>1, <2>4a, <3>2
      <4>2. EndOf(working', loaded', i) \in Nat
        BY <1>3, <2>1, <2>4a, <3>2
      <4> QED
        BY <1>1, <1>2, <1>3, <2>5, <3>2, <4>1, <4>2
    <3> QED
      BY <1>2, <2>4a, <3>1, <3>2
  <2>7. ASSUME NEW k \in 1 .. lineNbr, NEW a, Placed(working, loaded, k, a), a <= addr
        PROVE  Placed(working', loaded', k, a)
    <3>1. k \in Nat /\ k <= e.line /\ a <= e.at
      BY <1>1, <2>2, <2>7
    <3> HIDE DEF w
    <3> QED
      BY <1>2, <2>1, <2>2, <2>7, <3>1, StaysPlaced
  <2> QED
    BY <2>1, <2>4, <2>5, <2>6, <2>7 DEF AllBefore
<1> QED
  BY <1>2, <1>4, <1>5, <1>6, ReadCases

\* Labels stay what they are, and a new one is the address of its line.
LEMMA FirstLabels ==
    ASSUME IInv, FirstPassReadLine
    PROVE  /\ "" \notin DOMAIN labels'
           /\ \A x \in DOMAIN labels : x \in DOMAIN labels' /\ labels'[x] = labels[x]
           /\ ~failed' => ~failed
           /\ ~failed' /\ src[lineNbr].label # "" =>
                src[lineNbr].label \in DOMAIN labels' /\ labels'[src[lineNbr].label] = addr
<1> DEFINE l == src[lineNbr]
<1>1. ~failed' => ~failed
  BY DEF FirstPassReadLine, LineError, Read, Ignored, SetMode, SetHeader, Leave
<1>2. "" \notin DOMAIN labels
  BY DEF IInv
<1>3. CASE l.label \in DOMAIN labels
  BY <1>1, <1>2, <1>3 DEF FirstPassReadLine, LineError
<1>4. CASE l.label \notin DOMAIN labels /\ l.label = ""
  BY <1>1, <1>2, <1>4 DEF FirstPassReadLine, LabelsWith
<1>5. CASE l.label \notin DOMAIN labels /\ l.label # ""
  <2>1. labels' = Registered(l.label, addr)
    BY <1>5 DEF FirstPassReadLine, LabelsWith
  <2> QED
    BY <1>1, <1>2, <1>5, <2>1 DEF Registered
<1> QED
  BY <1>3, <1>4, <1>5

\* The header changes only by directives, dataStart only by .DATA.
LEMMA FirstHeader ==
    ASSUME IInv, FirstPassReadLine
    PROVE  /\ HeaderOK(header')
           /\ src[lineNbr].what.op # "data" => header'.dataStart = header.dataStart
           /\ src[lineNbr].what.op = "data" /\ src[lineNbr].label = "" =>
                header'.dataStart = addr
<1> DEFINE w == src[lineNbr].what
<1>1. HeaderOK(header) /\ "" \notin DOMAIN labels
  BY DEF IInv
<1>2. CASE UNCHANGED header /\ ~(w.op = "data" /\ src[lineNbr].label = "")
  BY <1>1, <1>2
<1>3. CASE w.op = "mode" /\ header' = [header EXCEPT !.mode = w.mode]
  BY <1>1, <1>3 DEF HeaderOK
<1>4. CASE SetHeader(w)
  BY <1>1, <1>4 DEF HeaderOK, SetHeader, DataStart
<1>5. \/ UNCHANGED header /\ ~(w.op = "data" /\ src[lineNbr].label = "")
      \/ w.op = "mode" /\ header' = [header EXCEPT !.mode = w.mode]
      \/ SetHeader(w)
  BY <1>1 DEF FirstPassReadLine, Read, LineError, Ignored, SetMode, Leave
<1> QED
  BY <1>2, <1>3, <1>4, <1>5

LEMMA FirstStep ==
    ASSUME IInv, phase = "first", FirstPassReadLine
    PROVE  IInv'
<1> DEFINE w == src[lineNbr].what
<1>1. /\ src' = src /\ phase' = phase /\ out' = out /\ fpos' = fpos
      /\ lineNbr' = lineNbr + 1 /\ lineNbr <= Len(src)
  BY DEF FirstPassReadLine
<1>2. /\ DOMAIN src = 1 .. Len(src) /\ Len(src) \in Nat
      /\ lineNbr \in Nat /\ lineNbr \in DOMAIN src
  <2>1. DOMAIN src = 1 .. Len(src) /\ Len(src) \in Nat
    BY SeqDomain DEF IInv, Sound
  <2>2. lineNbr \in DOMAIN src
    BY ReadCases
  <2> QED
    BY <2>1, <2>2
<1>3. /\ WorkingOK(src, working', loaded')
      /\ addr' = Ends(working', loaded', Len(working')) /\ addr' \in Nat /\ addr <= addr'
      /\ AllBefore(working', loaded', lineNbr + 1, addr')
      /\ \A k \in 1 .. lineNbr : \A a :
           Placed(working, loaded, k, a) /\ a <= addr => Placed(working', loaded', k, a)
  BY FirstKeepsWorking
<1>4. Placed(working, loaded, lineNbr, addr) /\ addr \in Nat
  BY EndPlaced DEF IInv, FirstInv
<1>5. Placed(working', loaded', lineNbr, addr)
  BY <1>2, <1>3, <1>4
<1>6. ASSUME NEW k \in 1 .. lineNbr
      PROVE  k \in 1 .. lineNbr - 1 \/ k = lineNbr
  BY <1>2
<1>7. ASSUME NEW k \in 1 .. lineNbr, ~failed', src[k].label # ""
      PROVE  /\ src[k].label \in DOMAIN labels'
             /\ Placed(working', loaded', k, labels'[src[k].label])
             /\ labels'[src[k].label] <= addr'
  <2>1. CASE k = lineNbr
    BY <1>3, <1>4, <1>5, <1>7, <2>1, FirstLabels
  <2>2. CASE k \in 1 .. lineNbr - 1
    <3>1. ~failed
      BY <1>7, FirstLabels
    <3>2. LabelGiven(k) /\ LabelBehind(k)
      BY <2>2 DEF IInv, FirstInv
    <3>3. /\ src[k].label \in DOMAIN labels
          /\ Placed(working, loaded, k, labels[src[k].label])
          /\ labels[src[k].label] <= addr
      BY <1>7, <3>1, <3>2 DEF LabelGiven, LabelBehind
    <3>4. labels[src[k].label] \in Nat
      BY <3>3 DEF Placed
    <3>5. /\ src[k].label \in DOMAIN labels'
          /\ labels'[src[k].label] = labels[src[k].label]
      BY <3>3, FirstLabels
    <3> QED
      BY <1>3, <1>4, <3>3, <3>4, <3>5
  <2> QED
    BY <1>6, <2>1, <2>2
<1>8. ASSUME NEW k \in 1 .. lineNbr, OnlyData(src, k)
      PROVE  /\ Placed(working', loaded', k, header'.dataStart)
             /\ header'.dataStart <= addr'
  <2>1. CASE k = lineNbr
    <3>1. header'.dataStart = addr
      BY <1>8, <2>1, FirstHeader DEF OnlyData
    <3> QED
      BY <1>3, <1>5, <2>1, <3>1
  <2>2. CASE k \in 1 .. lineNbr - 1
    <3>1. src[lineNbr].what.op # "data"
      <4>1. lineNbr # k
        BY <1>2, <2>2
      <4> QED
        BY <1>2, <1>8, <4>1 DEF OnlyData
    <3>2. header'.dataStart = header.dataStart
      BY <3>1, FirstHeader
    <3>3. DataGiven(k) /\ DataBehind(k)
      BY <2>2 DEF IInv, FirstInv
    <3>4. Placed(working, loaded, k, header.dataStart) /\ header.dataStart <= addr
      BY <1>8, <3>3 DEF DataGiven, DataBehind
    <3>5. header.dataStart \in Nat
      BY <3>4 DEF Placed
    <3> QED
      BY <1>3, <1>4, <3>2, <3>4, <3>5
  <2> QED
    BY <1>6, <2>1, <2>2
<1>9. lineNbr' \in 1 .. Len(src') + 1 /\ lineNbr' - 1 = lineNbr
  BY <1>1, <1>2
<1>10. \A k \in 1 .. lineNbr :
          LabelGiven(k)' /\ LabelBehind(k)' /\ DataGiven(k)' /\ DataBehind(k)'
  BY <1>1, <1>7, <1>8 DEF LabelGiven, LabelBehind, DataGiven, DataBehind
<1>11. out' = <<>> /\ fpos' = 0
  BY <1>1 DEF IInv, FirstInv
<1>12. AllBefore(working', loaded', lineNbr', addr')
  BY <1>1, <1>3
<1>13. FirstInv'
  BY <1>3, <1>9, <1>10, <1>11, <1>12 DEF FirstInv
<1>14. Sound(src') /\ "" \notin DOMAIN labels' /\ HeaderOK(header')
  BY <1>1, FirstLabels, FirstHeader DEF IInv
<1>15. WorkingOK(src', working', loaded')
  BY <1>1, <1>3
<1>16. phase' = "first"
  BY <1>1
<1> QED
  BY <1>13, <1>14, <1>15, <1>16 DEF IInv

LEMMA FirstEnds ==
    ASSUME IInv, FirstPassEnds
    PROVE  IInv'
<1>1. /\ phase = "first" /\ phase' = "second" /\ lineNbr' = 1 /\ lineNbr > Len(src)
      /\ UNCHANGED <<src, labels, loaded, header, working, failed, out, fpos>>
  BY DEF FirstPassEnds
<1>2. /\ DOMAIN src = 1 .. Len(src) /\ Len(src) \in Nat /\ lineNbr \in 1 .. Len(src) + 1
      /\ out = <<>> /\ fpos = 0
  BY <1>1, SeqDomain DEF IInv, Sound, FirstInv
<1>3. \A k \in DOMAIN src : LabelGiven(k) /\ DataGiven(k)
  <2>1. lineNbr - 1 = Len(src)
    BY <1>1, <1>2
  <2> QED
    BY <1>1, <1>2, <2>1 DEF IInv, FirstInv
<1>4. \A k \in DOMAIN src : LabelGiven(k)' /\ DataGiven(k)'
  BY <1>1, <1>3 DEF LabelGiven, DataGiven
<1>5. Len(out') = 0 /\ IsSeq(out') /\ Len(working) \in Nat
  BY <1>1, <1>2, EmptySeq, EndsNat DEF IsSeq, IInv
<1>6. SecondInv'
  BY <1>1, <1>2, <1>4, <1>5 DEF SecondInv, Ends
<1> QED
  BY <1>1, <1>6 DEF IInv

----------------------------------------------------------------------------
(* The second pass.                                                        *)

\* Line lineNbr of working is written, and behind the others.
LEMMA SecondStep ==
    ASSUME IInv, AssembleData \/ AssembleInstr
    PROVE  IInv'
<1> DEFINE w == working[lineNbr]
<1>1. PICK b : Emit(b) /\ b.line = w.line /\ b.at = fpos /\ b.size = Written(loaded, w.what)
  BY DEF AssembleData, AssembleInstr
<1>2. /\ phase = "second" /\ lineNbr <= Len(working) /\ (~failed' => ~failed)
  <2>1. phase = "second" /\ lineNbr <= Len(working)
    BY DEF AssembleData, AssembleInstr
  <2>2. \/ failed' = failed
        \/ failed' = (failed \/ Unresolved(w.what))
    BY DEF AssembleData, AssembleInstr
  <2>3. ~failed' => ~failed
    BY <2>2, Zenon
  <2> QED
    BY <2>1, <2>3
<1>3. /\ out' = Append(out, b) /\ fpos' = fpos + b.size /\ lineNbr' = lineNbr + 1
      /\ UNCHANGED <<src, phase, labels, loaded, header, working>>
  BY <1>1 DEF Emit
<1>4. /\ Sound(src) /\ WorkingOK(src, working, loaded) /\ SecondInv
  BY <1>2 DEF IInv
<1>5. /\ IsSeq(out) /\ lineNbr = Len(out) + 1 /\ Len(out) \in Nat /\ Len(working) \in Nat
  BY <1>4, SeqDomain DEF SecondInv, WorkingOK
<1>6. lineNbr \in 1 .. Len(working)
  BY <1>2, <1>5
<1>7. Written(loaded, w.what) = Counted(loaded, w.what)
  BY <1>4, <1>6, EndsNat
<1>8. fpos = w.at
  <2>1. lineNbr - 1 = Len(out)
    BY <1>5
  <2>2. w.at = Ends(working, loaded, lineNbr - 1)
    BY <1>4, <1>6 DEF WorkingOK
  <2> QED
    BY <1>4, <2>1, <2>2 DEF SecondInv
<1>9. /\ IsSeq(out') /\ Len(out') = lineNbr /\ out'[lineNbr] = b
      /\ \A n \in 1 .. Len(out) : out'[n] = out[n]
  BY <1>3, <1>5, AppendAny
<1>10. fpos' = Ends(working', loaded', Len(out'))
  BY <1>1, <1>3, <1>5, <1>7, <1>8, <1>9 DEF Ends, EndOf
<1>11. ASSUME NEW n \in 1 .. Len(out')
       PROVE  /\ out'[n].line = working[n].line /\ out'[n].at = working[n].at
              /\ out'[n].size = Counted(loaded, working[n].what)
  <2>1. CASE n = lineNbr
    BY <1>1, <1>7, <1>8, <1>9, <2>1
  <2>2. CASE n \in 1 .. Len(out)
    BY <1>4, <1>9, <2>2 DEF SecondInv
  <2> QED
    BY <1>5, <1>9, <2>1, <2>2
<1>12. \A k \in DOMAIN src : LabelGiven(k) /\ DataGiven(k)
  BY <1>4 DEF SecondInv
<1>13. \A k \in DOMAIN src' : LabelGiven(k)' /\ DataGiven(k)'
  BY <1>2, <1>3, <1>12 DEF LabelGiven, DataGiven
<1>14. Len(out') <= Len(working') /\ lineNbr' = Len(out') + 1
  BY <1>3, <1>5, <1>6, <1>9
<1>15. SecondInv'
  BY <1>3, <1>9, <1>10, <1>11, <1>13, <1>14 DEF SecondInv
<1> QED
  BY <1>2, <1>3, <1>15 DEF IInv

LEMMA SecondEnds ==
    ASSUME IInv, AssemblyFails \/ SecondPassEnds \/ UNCHANGED vars
    PROVE  IInv'
<1>1. CASE UNCHANGED vars
  BY <1>1 DEF IInv, FirstInv, SecondInv, LabelGiven, LabelBehind, DataGiven, DataBehind, vars
<1>2. CASE AssemblyFails \/ SecondPassEnds
  <2>1. /\ phase # "first" /\ phase' # "first"
        /\ UNCHANGED <<src, lineNbr, labels, loaded, header, working, failed, out, fpos>>
    BY <1>2 DEF AssemblyFails, SecondPassEnds
  <2>2. SecondInv'
    BY <2>1 DEF IInv, SecondInv, LabelGiven, DataGiven
  <2> QED
    BY <2>1, <2>2 DEF IInv
<1> QED
  BY <1>1, <1>2

----------------------------------------------------------------------------
(* The theorem.                                                            *)

\* What is placed is so in the file.
LEMMA PlacedBegins ==
    ASSUME SecondInv, NEW k, NEW a, Placed(working, loaded, k, a),
           Len(working) \in Nat
    PROVE  Begins(k, a)
<1>1. DOMAIN out = 1 .. Len(out) /\ Len(out) \in Nat
  BY SeqDomain DEF SecondInv
<1>2. ASSUME NEW n \in DOMAIN out
      PROVE  IF out[n].line < k THEN out[n].at + out[n].size <= a ELSE a <= out[n].at
  <2>1. n \in 1 .. Len(working) /\ n \in 1 .. Len(out)
    BY <1>1 DEF SecondInv
  <2>2. /\ out[n].line = working[n].line /\ out[n].at = working[n].at
        /\ out[n].at + out[n].size = EndOf(working, loaded, n)
    BY <2>1 DEF SecondInv, EndOf
  <2> QED
    BY <2>1, <2>2 DEF Placed
<1> QED
  BY <1>2 DEF Begins

\* Every step, unless it is the exception that leaves the file empty.
LEMMA NextInv == IInv /\ [Next]_vars => IInv' \/ FirstPassFails
<1> SUFFICES ASSUME IInv, [Next]_vars, ~FirstPassFails
             PROVE  IInv'
  OBVIOUS
<1>1. CASE FirstPassReadLine
  <2>1. phase = "first"
    BY <1>1 DEF FirstPassReadLine
  <2> QED
    BY <1>1, <2>1, FirstStep
<1>2. CASE FirstPassEnds
  BY <1>2, FirstEnds
<1>3. CASE AssembleData \/ AssembleInstr
  BY <1>3, SecondStep
<1>4. CASE AssemblyFails \/ SecondPassEnds \/ UNCHANGED vars
  BY <1>4, SecondEnds
<1> QED
  BY <1>1, <1>2, <1>3, <1>4 DEF Next

\* After that exception nothing is done.
LEMMA EmptyStays ==
    ASSUME phase = "empty", [Next]_vars
    PROVE  UNCHANGED vars
BY DEF Next, FirstPassReadLine, FirstPassFails, FirstPassEnds, AssembleData, AssembleInstr,
   AssemblyFails, SecondPassEnds

\* In sources whose .MODE comes first and whose .BYTEs have the size they declare,
\* every label of a program assembled without an error is where the line it was
\* put on begins in the file, and dataStart is where the data begins.
THEOREM LabelsRight ==
    ASSUME \A s \in Sources : Sound(s)
    PROVE  Spec => [](LabelsPlaced /\ DataPlaced)
<1>1. Init => IInv
  BY InitInv
<1>2. (IInv \/ phase = "empty") /\ [Next]_vars => (IInv \/ phase = "empty")'
  BY NextInv, EmptyStays DEF FirstPassFails, vars
<1>3. IInv \/ phase = "empty" => LabelsPlaced /\ DataPlaced
  <2>0. phase = "empty" => LabelsPlaced /\ DataPlaced
    BY DEF LabelsPlaced, DataPlaced
  <2> SUFFICES ASSUME IInv, phase = "done"
               PROVE  /\ ~failed => \A k \in DOMAIN src :
                            src[k].label # "" => Begins(k, labels[src[k].label])
                      /\ \A k \in DOMAIN src :
                            OnlyData(src, k) => Begins(k, header.dataStart)
    BY <2>0 DEF LabelsPlaced, DataPlaced, OnlyData
  <2>1. SecondInv /\ Len(working) \in Nat
    BY EndsNat DEF IInv
  <2>2. \A k \in DOMAIN src : LabelGiven(k) /\ DataGiven(k)
    BY <2>1 DEF SecondInv
  <2> QED
    BY <2>1, <2>2, PlacedBegins DEF LabelGiven, DataGiven
<1> QED
  BY <1>1, <1>2, <1>3, PTL DEF Spec
=============================================================================
