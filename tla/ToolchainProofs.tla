--------------------------- MODULE ToolchainProofs ---------------------------
(***************************************************************************)
(* For every set of sources that keep to SoundSource, of any length: the   *)
(* VM executes the instructions the source has, in the order it gives      *)
(* them and with the operands it gives them.                               *)
(***************************************************************************)
EXTENDS Toolchain, AssemblerProofs, SequenceProofs

Clean(s) ==
    /\ IsSeq(s) /\ SoundSource(s)
    /\ \A k \in DOMAIN s : s[k].what.op = "instr" => IsSeq(s[k].what.args)

\* The line of .MODE and that of .DATA.
ModeLine(s) == CHOOSE k \in DOMAIN s : s[k].what.op = "mode"
DataLine(s) == CHOOSE k \in DOMAIN s : s[k].what.op = "data"

LEMMA SourceShape ==
  ASSUME NEW s, Clean(s)
  PROVE  /\ DOMAIN s = 1 .. Len(s) /\ Len(s) \in Nat /\ Sound(s)
         /\ ModeLine(s) \in DOMAIN s /\ ModeOf(s) = s[ModeLine(s)].what.mode
         /\ \A n \in DOMAIN s : s[n].what.op = "mode" <=> n = ModeLine(s)
         /\ \A n \in DOMAIN s : s[n].what.op \in Passed => n > ModeLine(s)
         /\ DataLine(s) \in DOMAIN s /\ OnlyData(s, DataLine(s))
         /\ \A n \in DOMAIN s : s[n].what.op = "data" <=> n = DataLine(s)
         /\ \A n \in DOMAIN s : s[n].what.op = "byte" => n > DataLine(s)
<1>1. DOMAIN s = 1 .. Len(s) /\ Len(s) \in Nat
  BY SeqDomain DEF Clean
<1>2. PICK m \in DOMAIN s :
        /\ \A n \in DOMAIN s : s[n].what.op = "mode" <=> n = m
        /\ \A n \in DOMAIN s : s[n].what.op \in Passed => n > m
  BY DEF Clean, SoundSource, Passed
<1>3. PICK d \in DOMAIN s :
        /\ s[d].label = "" /\ \A n \in DOMAIN s : s[n].what.op = "data" <=> n = d
        /\ \A n \in DOMAIN s : s[n].what.op = "byte" => n > d
  BY DEF Clean, SoundSource
<1>4. ModeLine(s) = m
  BY <1>2 DEF ModeLine
<1>5. DataLine(s) = d
  BY <1>3 DEF DataLine
<1>6. OnlyData(s, d)
  BY <1>3 DEF OnlyData
<1>7. Sound(s)
  <2>1. \A k \in DOMAIN s : SoundLine(s[k].what)
    BY DEF Clean, SoundSource, SoundData, SoundLine
  <2>2. \A k, n \in DOMAIN s : s[k].what.op = "mode" /\ n < k => s[n].what.op \notin Passed
    <3> TAKE k, n \in DOMAIN s
    <3> SUFFICES ASSUME s[k].what.op = "mode", n < k, s[n].what.op \in Passed PROVE FALSE
      OBVIOUS
    <3>1. k = m /\ n > m
      BY <1>2
    <3> QED
      BY <1>1, <3>1
  <2> QED
    BY <2>1, <2>2 DEF Sound, Clean
<1>8. ModeOf(s) = s[m].what.mode
  BY <1>4 DEF ModeOf, ModeLine
<1> QED
  BY <1>1, <1>2, <1>3, <1>4, <1>5, <1>6, <1>7, <1>8

LEMMA SourceLines ==
  ASSUME NEW s, Clean(s), NEW k \in DOMAIN s
  PROVE  /\ s[k].what.op = "byte" => SoundData(s[k].what)
         /\ s[k].what.op = "instr" =>
              SoundInstr(ModeOf(s), s[k].what) /\ IsSeq(s[k].what.args)
         /\ s[k].label # "" => \E n \in DOMAIN s : n >= k /\ s[n].what.op \in Passed
BY DEF Clean, SoundSource, Passed

----------------------------------------------------------------------------
(* What the assembler has made of a source without an error.               *)

\* The lines the first pass has read.
ReadLines == IF phase = "first" THEN 1 .. lineNbr - 1 ELSE DOMAIN src

Numbered ==
    /\ \A x \in DOMAIN Preloaded : x \in DOMAIN labels /\ labels[x] = Preloaded[x]
    /\ \A x \in DOMAIN labels : labels[x] \in Nat

\* Lines are left in their order, each behind the ones before it.
Rising ==
    \A i, j \in 1 .. Len(working) : i < j =>
        /\ working[i].line < working[j].line
        /\ EndOf(working, loaded, i) <= working[j].at

\* The data begins no later than the program ends.
DataInside == header.dataStart <= Ends(working, loaded, Len(working))

ModeRead ==
    IF ModeLine(src) \in ReadLines
    THEN loaded = <<ModeOf(src)>> /\ header.mode = ModeOf(src) /\ ModeOf(src) \in Modes
    ELSE loaded = <<>>

\* No line is dropped.
Covered ==
    \A k \in ReadLines : src[k].what.op \in Passed =>
        \E i \in 1 .. Len(working) : working[i].line = k

\* No two lines have the same label, and none that of a register.
Named ==
    /\ \A x \in DOMAIN labels \ DOMAIN Preloaded : \E k \in ReadLines : src[k].label = x
    /\ \A k \in ReadLines : src[k].label \notin DOMAIN Preloaded
    /\ \A k, n \in ReadLines : src[k].label # "" /\ src[k].label = src[n].label => k = n

\* Instructions have the operands the assembler knows them to have.
Known ==
    \A i \in 1 .. Len(working) : working[i].what.op = "instr" =>
        /\ ModeLine(src) \in ReadLines
        /\ Len(working[i].what.args) = ArgCount(loaded, working[i].what.mn)

\* k is the last line read with this directive.
LastRead(op, k) ==
    /\ k \in ReadLines /\ src[k].what.op = op
    /\ \A n \in ReadLines : src[n].what.op = op => n <= k
SizesRead ==
    /\ \A k : LastRead("heap", k) => header.heap = src[k].what.kib
    /\ \A k : LastRead("heap_max", k) => header.heap_max = src[k].what.kib

Faultless == ModeRead /\ Covered /\ Named /\ Known /\ SizesRead

\* The bytes of a line.
Bytes(b, w) ==
    /\ b.whole = TRUE
    /\ w.op = "byte" => b.opcode = -1
    /\ w.op = "instr" =>
        /\ b.opcode = Encoded(Last(loaded), w.mn) /\ ~Unresolved(w)
        /\ DOMAIN b.args = DOMAIN w.args
        /\ \A k \in DOMAIN w.args :
              b.args[k] = EvaluateArgument(w.args[k], Fields(Last(loaded), w.mn)[k])
BytesRight == \A n \in 1 .. Len(out) : Bytes(out[n], working[n].what)

AsmTypes ==
    /\ phase \in {"first", "second", "cut", "killed", "done"}
    /\ failed \in BOOLEAN /\ addr \in Nat

AsmInv ==
    /\ IInv /\ Clean(src) /\ AsmTypes /\ Numbered /\ Rising
    /\ phase # "first" => DataInside
    /\ phase = "done" => Len(out) = Len(working)
    /\ ~failed => Faultless
    /\ ~failed /\ phase # "first" => BytesRight

\* The values that are there from the beginning.
LEMMA PreloadedNat ==
  \A x \in DOMAIN Preloaded : Preloaded[x] \in 0 .. 255
<1>1. ASSUME NEW x \in Range(RegisterNames)
      PROVE  AntiFunction(RegisterNames)[x] \in 0 .. 31
  <2>1. AntiFunction(RegisterNames)[x] =
          CHOOSE s \in DOMAIN RegisterNames : x \in Range(RegisterNames) => RegisterNames[s] = x
    BY DEF AntiFunction, Inverse
  <2>2. PICK s \in DOMAIN RegisterNames : RegisterNames[s] = x
    BY DEF Range
  <2>3. DOMAIN RegisterNames = 0 .. 31
    BY DEF RegisterNames
  <2> QED
    BY <2>1, <2>2, <2>3
<1>2. ASSUME NEW x \in Range(SysNames)
      PROVE  AntiFunction(SysNames)[x] \in 0 .. 6
  <2>1. AntiFunction(SysNames)[x] =
          CHOOSE s \in DOMAIN SysNames : x \in Range(SysNames) => SysNames[s] = x
    BY DEF AntiFunction, Inverse
  <2>2. PICK s \in DOMAIN SysNames : SysNames[s] = x
    BY DEF Range
  <2>3. DOMAIN SysNames = 0 .. 6
    BY DEF SysNames
  <2> QED
    BY <2>1, <2>2, <2>3
<1> QED
  BY <1>1, <1>2 DEF Preloaded

LEMMA AsmInit ==
  ASSUME \A s \in Sources : Clean(s), Init
  PROVE  AsmInv
<1>1. Clean(src) /\ \A s \in Sources : Sound(s)
  BY SourceShape DEF Init
<1>2. IInv
  BY <1>1, InitInv
<1>3. /\ phase = "first" /\ lineNbr = 1 /\ addr = 0 /\ labels = Preloaded /\ loaded = <<>>
      /\ working = <<>> /\ failed = FALSE
  BY DEF Init
<1>4. AsmTypes
  BY <1>3 DEF AsmTypes
<1>5. Numbered
  <2>1. \A x \in DOMAIN Preloaded : Preloaded[x] \in Nat
    BY PreloadedNat
  <2> QED
    BY <1>3, <2>1, Zenon DEF Numbered
<1>6. ReadLines = {} /\ Len(working) = 0
  BY <1>3 DEF ReadLines
<1>7. Rising
  BY <1>6 DEF Rising
<1>8. Faultless
  BY <1>3, <1>6 DEF Faultless, ModeRead, Covered, Named, Known, SizesRead, LastRead
<1> QED
  BY <1>1, <1>2, <1>3, <1>4, <1>5, <1>7, <1>8 DEF AsmInv

\* What happens to a line without an error.
ReadWell(w) ==
    \/ w.op = "none" /\ UNCHANGED <<loaded, header, working>>
    \/ /\ w.op = "mode" /\ w.mode \in Modes /\ UNCHANGED working
       /\ header' = [header EXCEPT !.mode = w.mode] /\ loaded' = Append(loaded, w.mode)
    \/ w.op \in {"heap", "heap_max", "data"} /\ SetHeader(w)
    \/ /\ w.op \in Passed /\ Leave(w)
       /\ w.op = "instr" => Len(w.args) = ArgCount(loaded, w.mn)

LEMMA ReadRight ==
  ASSUME AsmInv, FirstPassReadLine, ~failed'
  PROVE  /\ ~failed /\ Faultless
         /\ src[lineNbr].label \notin DOMAIN labels
         /\ labels' = IF src[lineNbr].label = "" THEN labels
                      ELSE Registered(src[lineNbr].label, addr)
         /\ ReadWell(src[lineNbr].what)
<1>1. ~failed
  BY FirstLabels DEF AsmInv
<1>2. src[lineNbr].label \notin DOMAIN labels
  BY DEF FirstPassReadLine, LineError
<1>3. /\ labels' = IF src[lineNbr].label = "" THEN labels
                   ELSE Registered(src[lineNbr].label, addr)
      /\ Read(src[lineNbr].what)
  BY <1>2 DEF FirstPassReadLine, LabelsWith
<1>4. ReadWell(src[lineNbr].what)
  BY <1>3 DEF Read, ReadWell, Passed, LineError, Ignored, SetMode, Leave
<1> QED
  BY <1>1, <1>2, <1>3, <1>4 DEF AsmInv

LEMMA ReadPlace ==
  ASSUME AsmInv, FirstPassReadLine
  PROVE  /\ phase = "first" /\ phase' = "first" /\ src' = src /\ lineNbr' = lineNbr + 1
         /\ lineNbr \in Nat \ {0} /\ lineNbr \in DOMAIN src
         /\ ReadLines = 1 .. lineNbr - 1 /\ ReadLines' = 1 .. lineNbr
         /\ \A k \in ReadLines' : k \in Nat /\ (k \in ReadLines \/ k = lineNbr)
         /\ \A k \in ReadLines : k \in ReadLines' /\ k < lineNbr /\ k \in DOMAIN src
         /\ lineNbr \in ReadLines' /\ lineNbr \notin ReadLines
<1>1. phase = "first" /\ phase' = "first" /\ src' = src /\ lineNbr' = lineNbr + 1
  BY DEF FirstPassReadLine
<1>2. lineNbr \in DOMAIN src
  BY <1>1, ReadCases DEF AsmInv
<1>3. DOMAIN src = 1 .. Len(src) /\ Len(src) \in Nat
  BY SourceShape DEF AsmInv
<1>4. lineNbr \in Nat \ {0}
  BY <1>2, <1>3
<1>5. ReadLines = 1 .. lineNbr - 1 /\ ReadLines' = 1 .. lineNbr
  BY <1>1, <1>4 DEF ReadLines
<1> QED
  BY <1>1, <1>2, <1>3, <1>4, <1>5

\* Labels: the new one is the address, and the only one of its name.
LEMMA ReadNumbered ==
  ASSUME AsmInv, FirstPassReadLine
  PROVE  Numbered'
<1>1. Numbered /\ addr \in Nat
  BY DEF AsmInv, AsmTypes
<1>2. labels' = labels \/ \E x : x \notin DOMAIN labels /\ labels' = Registered(x, addr)
  BY DEF FirstPassReadLine, LabelsWith
<1>3. CASE labels' = labels
  BY <1>1, <1>3 DEF Numbered
<1>4. ASSUME NEW x, x \notin DOMAIN labels, labels' = Registered(x, addr)
      PROVE  Numbered'
  <2>1. DOMAIN labels' = DOMAIN labels \cup {x}
    BY <1>4 DEF Registered
  <2>2. \A y \in DOMAIN labels : labels'[y] = labels[y]
    BY <1>4 DEF Registered
  <2>3. labels'[x] = addr
    BY <1>4 DEF Registered
  <2> QED
    BY <1>1, <2>1, <2>2, <2>3 DEF Numbered
<1> QED
  BY <1>2, <1>3, <1>4

LEMMA ReadNamed ==
  ASSUME AsmInv, FirstPassReadLine, ~failed'
  PROVE  Named'
<1> DEFINE l == src[lineNbr].label
<1>1. Named /\ Numbered /\ "" \notin DOMAIN labels
  BY ReadRight DEF AsmInv, Faultless, IInv
<1>2. /\ src' = src
      /\ \A k \in ReadLines' : k \in ReadLines \/ k = lineNbr
      /\ \A k \in ReadLines : k \in ReadLines'
      /\ lineNbr \in ReadLines'
  BY ReadPlace
<1>3. /\ l \notin DOMAIN labels
      /\ labels' = IF l = "" THEN labels ELSE Registered(l, addr)
  BY ReadRight
<1>4. \A k \in ReadLines : src[k].label # "" => src[k].label \in DOMAIN labels
  <2>1. \A k \in 1 .. lineNbr - 1 : LabelGiven(k)
    <3>1. phase = "first"
      BY ReadPlace
    <3> QED
      BY <3>1 DEF AsmInv, IInv, FirstInv
  <2>2. ReadLines = 1 .. lineNbr - 1 /\ ~failed
    BY ReadPlace, ReadRight
  <2> QED
    BY <2>1, <2>2 DEF LabelGiven
<1>5. l \notin DOMAIN Preloaded
  BY <1>1, <1>3 DEF Numbered
<1>6. \A x \in DOMAIN labels' : x \in DOMAIN labels \/ (x = l /\ l # "")
  BY <1>3 DEF Registered
<1>7. \A x \in DOMAIN labels' \ DOMAIN Preloaded : \E k \in ReadLines' : src'[k].label = x
  <2> SUFFICES ASSUME NEW x \in DOMAIN labels' \ DOMAIN Preloaded
               PROVE  \E k \in ReadLines' : src[k].label = x
    BY <1>2, Zenon
  <2>1. CASE x \in DOMAIN labels
    BY <1>1, <1>2, <2>1 DEF Named
  <2>2. CASE x = l
    BY <1>2, <2>2
  <2> QED
    BY <1>6, <2>1, <2>2
<1>8. \A k \in ReadLines' : src'[k].label \notin DOMAIN Preloaded
  BY <1>1, <1>2, <1>5 DEF Named
<1>9. ASSUME NEW k \in ReadLines', NEW n \in ReadLines',
             src[k].label # "", src[k].label = src[n].label
      PROVE  k = n
  <2>1. CASE k \in ReadLines /\ n \in ReadLines
    BY <1>1, <1>9, <2>1 DEF Named
  <2>2. CASE k = lineNbr /\ n \in ReadLines
    BY <1>3, <1>4, <1>9, <2>2
  <2>3. CASE n = lineNbr /\ k \in ReadLines
    BY <1>3, <1>4, <1>9, <2>3
  <2> QED
    BY <1>2, <2>1, <2>2, <2>3
<1> QED
  BY <1>2, <1>7, <1>8, <1>9 DEF Named

\* The mode is that of the only .MODE.
LEMMA ReadMode ==
  ASSUME AsmInv, FirstPassReadLine, ~failed'
  PROVE  ModeRead'
<1> DEFINE w == src[lineNbr].what
           m == ModeLine(src)
<1>1. ModeRead /\ ReadWell(w) /\ HeaderOK(header)
  BY ReadRight DEF AsmInv, Faultless, IInv
<1>2. Clean(src)
  BY DEF AsmInv
<1>3. w.op = "mode" <=> lineNbr = m
  BY <1>2, SourceShape, ReadPlace
<1>4. ModeOf(src) = src[m].what.mode
  BY <1>2, SourceShape
<1>5. src' = src /\ (m \in ReadLines' <=> m \in ReadLines \/ m = lineNbr)
  BY ReadPlace
<1>6. CASE w.op = "mode"
  <2>1. /\ header' = [header EXCEPT !.mode = w.mode] /\ loaded' = Append(loaded, w.mode)
        /\ w.mode \in Modes
    BY <1>1, <1>6 DEF ReadWell, SetHeader, Passed
  <2>2. loaded = <<>>
    BY <1>1, <1>3, <1>6, ReadPlace DEF ModeRead
  <2>3. loaded' = <<w.mode>>
    BY <2>1, <2>2
  <2>4. header'.mode = w.mode
    BY <1>1, <2>1 DEF HeaderOK
  <2> QED
    BY <1>3, <1>4, <1>5, <1>6, <2>1, <2>3, <2>4 DEF ModeRead
<1>7. CASE w.op # "mode"
  <2>1. loaded' = loaded /\ header'.mode = header.mode
    BY <1>1, <1>7 DEF ReadWell, SetHeader, Leave, HeaderOK
  <2> QED
    BY <1>1, <1>3, <1>5, <1>7, <2>1 DEF ModeRead
<1> QED
  BY <1>6, <1>7

\* Directives take the values of the last line they are on.
LEMMA ReadSizes ==
  ASSUME AsmInv, FirstPassReadLine, ~failed'
  PROVE  SizesRead'
<1> DEFINE w == src[lineNbr].what
<1>1. SizesRead /\ ReadWell(w) /\ HeaderOK(header)
  BY ReadRight DEF AsmInv, Faultless, IInv
<1>2. /\ src' = src
      /\ \A k \in ReadLines' : k \in Nat /\ (k \in ReadLines \/ k = lineNbr)
      /\ \A k \in ReadLines : k \in ReadLines' /\ k < lineNbr
      /\ lineNbr \in ReadLines' /\ lineNbr \in Nat
  BY ReadPlace
<1>3. ASSUME NEW op, NEW k, LastRead(op, k)', k # lineNbr
      PROVE  LastRead(op, k) /\ w.op # op
  <2>1. /\ k \in ReadLines' /\ src[k].what.op = op
        /\ \A n \in ReadLines' : src[n].what.op = op => n <= k
    BY <1>2, <1>3 DEF LastRead
  <2>2. k \in ReadLines /\ k \in Nat /\ k < lineNbr
    BY <1>2, <1>3, <2>1
  <2>3. w.op # op
    BY <1>2, <2>1, <2>2
  <2> QED
    BY <1>2, <2>1, <2>2, <2>3 DEF LastRead
<1>4. /\ header'.heap = IF w.op = "heap" THEN w.kib ELSE header.heap
      /\ header'.heap_max = IF w.op = "heap_max" THEN w.kib ELSE header.heap_max
  BY <1>1 DEF ReadWell, SetHeader, Leave, HeaderOK, Passed
<1>5. ASSUME NEW k, LastRead("heap", k)'
      PROVE  header'.heap = src'[k].what.kib
  <2>1. CASE k = lineNbr
    BY <1>2, <1>4, <1>5, <2>1 DEF LastRead
  <2>2. CASE k # lineNbr
    BY <1>1, <1>2, <1>3, <1>4, <1>5, <2>2 DEF SizesRead
  <2> QED
    BY <2>1, <2>2
<1>6. ASSUME NEW k, LastRead("heap_max", k)'
      PROVE  header'.heap_max = src'[k].what.kib
  <2>1. CASE k = lineNbr
    BY <1>2, <1>4, <1>6, <2>1 DEF LastRead
  <2>2. CASE k # lineNbr
    BY <1>1, <1>2, <1>3, <1>4, <1>6, <2>2 DEF SizesRead
  <2> QED
    BY <2>1, <2>2
<1> QED
  BY <1>5, <1>6 DEF SizesRead

\* A line is added behind the others, or none.
LEMMA ReadAdds ==
  ASSUME AsmInv, FirstPassReadLine
  PROVE  /\ Len(working) \in Nat /\ \A i \in 1 .. Len(working) : working[i].line < lineNbr
         /\ \/ UNCHANGED working /\ (Len(working) > 0 => loaded' = loaded)
            \/ /\ Leave(src[lineNbr].what) /\ loaded' = loaded
               /\ Longer(working, loaded, [line |-> lineNbr, at |-> addr,
                                           what |-> src[lineNbr].what], working')
<1> DEFINE w == src[lineNbr].what
           e == [line |-> lineNbr, at |-> addr, what |-> w]
<1>1. IInv /\ phase = "first"
  BY ReadPlace DEF AsmInv
<1>2. /\ Sound(src) /\ WorkingOK(src, working, loaded)
      /\ addr = Ends(working, loaded, Len(working)) /\ addr \in Nat
      /\ AllBefore(working, loaded, lineNbr, addr)
  BY <1>1 DEF IInv, FirstInv
<1>3. Len(working) \in Nat /\ \A i \in 1 .. Len(working) : working[i].line < lineNbr
  BY <1>2, EndsNat DEF AllBefore
<1>4. CASE Leave(w) /\ w.op \in Passed
  <2>1. working' = Append(working, e) /\ loaded' = loaded
    BY <1>4 DEF Leave
  <2>2. LineOK(src, e) /\ e.at = Ends(working, loaded, Len(working))
    BY <1>2, <1>4, ReadPlace DEF LineOK
  <2>3. Longer(working, loaded, e, working')
    <3> HIDE DEF e
    <3> QED
      BY <1>2, <2>1, <2>2, AddLine
  <2> QED
    BY <1>3, <1>4, <2>1, <2>3
<1> QED
  BY <1>1, <1>3, <1>4, ReadCases

LEMMA ReadRising ==
  ASSUME AsmInv, FirstPassReadLine
  PROVE  Rising'
<1> DEFINE e == [line |-> lineNbr, at |-> addr, what |-> src[lineNbr].what]
<1>1. Rising /\ Len(working) \in Nat /\ \A i \in 1 .. Len(working) : working[i].line < lineNbr
  BY ReadAdds DEF AsmInv
<1>2. \A i \in 1 .. Len(working) : EndOf(working, loaded, i) <= addr
  <2>1. phase = "first"
    BY ReadPlace
  <2> QED
    BY <2>1 DEF AsmInv, IInv, FirstInv, AllBefore
<1>3. CASE UNCHANGED working /\ (Len(working) > 0 => loaded' = loaded)
  <2>1. \A i \in 1 .. Len(working) : loaded' = loaded
    BY <1>1, <1>3
  <2> QED
    BY <1>1, <1>3, <2>1 DEF Rising
<1>4. CASE loaded' = loaded /\ Longer(working, loaded, e, working')
  <2>1. e.line = lineNbr /\ e.at = addr
    OBVIOUS
  <2> HIDE DEF e
  <2>2. /\ Len(working') = Len(working) + 1 /\ working'[Len(working) + 1] = e
        /\ \A i \in 1 .. Len(working) : /\ working'[i] = working[i]
                                        /\ EndOf(working', loaded, i) = EndOf(working, loaded, i)
    BY <1>4 DEF Longer
  <2>3. ASSUME NEW i \in 1 .. Len(working'), NEW j \in 1 .. Len(working'), i < j
        PROVE  /\ working'[i].line < working'[j].line
               /\ EndOf(working', loaded, i) <= working'[j].at
    <3>1. i \in 1 .. Len(working)
      BY <1>1, <2>2, <2>3
    <3>2. CASE j \in 1 .. Len(working)
      BY <1>1, <2>2, <2>3, <3>1, <3>2 DEF Rising
    <3>3. CASE j = Len(working) + 1
      BY <1>1, <1>2, <2>1, <2>2, <3>1, <3>3
    <3> QED
      BY <1>1, <2>2, <3>2, <3>3
  <2> QED
    BY <1>4, <2>3 DEF Rising
<1> QED
  BY <1>3, <1>4, ReadAdds

LEMMA ReadCovered ==
  ASSUME AsmInv, FirstPassReadLine, ~failed'
  PROVE  Covered' /\ Known'
<1> DEFINE w == src[lineNbr].what
           e == [line |-> lineNbr, at |-> addr, what |-> w]
<1>1. Covered /\ Known /\ ModeRead /\ ReadWell(w) /\ Clean(src)
  BY ReadRight DEF Faultless, AsmInv
<1>2. /\ src' = src
      /\ \A k \in ReadLines' : k \in ReadLines \/ k = lineNbr
      /\ \A k \in ReadLines : k \in ReadLines'
      /\ lineNbr \in DOMAIN src /\ lineNbr \in Nat
  BY ReadPlace
<1>3. Len(working) \in Nat
  BY ReadAdds
<1>4. CASE w.op \notin Passed
  <2>1. UNCHANGED working
    BY <1>1, <1>4 DEF ReadWell, SetHeader
  <2>2. Covered'
    BY <1>1, <1>2, <1>4, <2>1 DEF Covered
  <2>3. ASSUME NEW i \in 1 .. Len(working) PROVE loaded' = loaded
    <3>1. Leave(w) => w.op \in Passed
      BY <1>1, <1>4, <2>1, <1>3 DEF Leave, ReadWell, SetHeader, Passed
    <3>2. Len(working) > 0
      BY <1>3, <2>3
    <3> QED
      BY <1>4, <3>1, <3>2, ReadAdds
  <2>4. ModeLine(src) \in ReadLines => ModeLine(src') \in ReadLines'
    BY <1>2
  <2> QED
    BY <1>1, <2>1, <2>2, <2>3, <2>4 DEF Known
<1>5. CASE w.op \in Passed
  <2>1. Leave(w) /\ loaded' = loaded /\ (w.op = "instr" => Len(w.args) = ArgCount(loaded, w.mn))
    BY <1>1, <1>5 DEF ReadWell, Leave, Passed
  <2>2. Longer(working, loaded, e, working')
    <3>1. working' # working
      <4>1. Len(working') = Len(working) + 1
        BY <2>1, AppendAny DEF Leave, AsmInv, IInv, WorkingOK
      <4> QED
        BY <1>3, <4>1
    <3> QED
      BY <3>1, ReadAdds
  <2>3. e.line = lineNbr /\ e.what = w
    OBVIOUS
  <2> HIDE DEF e
  <2>4. /\ Len(working') = Len(working) + 1 /\ working'[Len(working) + 1] = e
        /\ \A i \in 1 .. Len(working) : working'[i] = working[i]
        /\ \A i \in 1 .. Len(working') : i \in 1 .. Len(working) \/ i = Len(working) + 1
        /\ Len(working) + 1 \in 1 .. Len(working')
        /\ \A i \in 1 .. Len(working) : i \in 1 .. Len(working')
    BY <1>3, <2>2 DEF Longer
  <2>5. Covered'
    <3> SUFFICES ASSUME NEW k \in ReadLines', src[k].what.op \in Passed
                 PROVE  \E i \in 1 .. Len(working') : working'[i].line = k
      BY <1>2, Zenon DEF Covered
    <3>1. CASE k = lineNbr
      BY <2>3, <2>4, <3>1
    <3>2. CASE k \in ReadLines
      <4>1. PICK i \in 1 .. Len(working) : working[i].line = k
        BY <1>1, <3>2 DEF Covered
      <4> QED
        BY <2>4, <4>1
    <3> QED
      BY <1>2, <3>1, <3>2
  <2>6. ModeLine(src) \in ReadLines
    <3>1. lineNbr > ModeLine(src) /\ ModeLine(src) \in DOMAIN src
      BY <1>1, <1>2, <1>5, SourceShape
    <3>2. ModeLine(src) \in 1 .. lineNbr - 1
      BY <1>1, <1>2, <3>1, SourceShape
    <3> QED
      BY <3>2, ReadPlace
  <2>7. Known'
    <3> SUFFICES ASSUME NEW i \in 1 .. Len(working'), working'[i].what.op = "instr"
                 PROVE  Len(working'[i].what.args) = ArgCount(loaded, working'[i].what.mn)
      BY <1>2, <2>1, <2>6 DEF Known
    <3>1. CASE i \in 1 .. Len(working)
      BY <1>1, <2>4, <3>1 DEF Known
    <3>2. CASE i = Len(working) + 1
      BY <2>1, <2>3, <2>4, <3>2
    <3> QED
      BY <2>4, <3>1, <3>2
  <2> QED
    BY <2>5, <2>7
<1> QED
  BY <1>4, <1>5

LEMMA AsmReads ==
  ASSUME AsmInv, FirstPassReadLine
  PROVE  AsmInv'
<1>1. IInv' /\ addr' \in Nat
  <2>1. IInv /\ phase = "first"
    BY ReadPlace DEF AsmInv
  <2> QED
    BY <2>1, FirstStep, FirstKeepsWorking
<1>2. Clean(src') /\ phase' = "first"
  BY ReadPlace DEF AsmInv
<1>3. failed' \in BOOLEAN
  BY DEF FirstPassReadLine, LineError, Read, Ignored, SetMode, SetHeader, Leave, AsmInv, AsmTypes
<1>4. AsmTypes'
  BY <1>1, <1>2, <1>3 DEF AsmTypes
<1>5. ~failed' => Faultless'
  BY ReadMode, ReadCovered, ReadNamed, ReadSizes DEF Faultless
<1> QED
  BY <1>1, <1>2, <1>4, <1>5, ReadNumbered, ReadRising DEF AsmInv

----------------------------------------------------------------------------
(* The second pass, and what it leaves.                                    *)

\* All lines are read, so nothing said of them changes any more.
LEMMA StillFaultless ==
  ASSUME AsmInv, ~failed, phase # "first", phase' # "first",
         UNCHANGED <<src, labels, loaded, header, working>>
  PROVE  Faultless'
<1>1. Faultless /\ ReadLines = DOMAIN src /\ ReadLines' = DOMAIN src
  BY DEF AsmInv, ReadLines
<1> QED
  BY <1>1 DEF Faultless, ModeRead, Covered, Named, Known, SizesRead, LastRead

LEMMA AsmFirstEnds ==
  ASSUME AsmInv, FirstPassEnds
  PROVE  AsmInv'
<1>1. /\ phase = "first" /\ phase' = "second" /\ addr' = 0 /\ lineNbr > Len(src)
      /\ UNCHANGED <<src, labels, loaded, header, working, failed, out, fpos>>
  BY DEF FirstPassEnds
<1>2. IInv' /\ Clean(src') /\ AsmTypes'
  BY <1>1, FirstEnds DEF AsmInv, AsmTypes
<1>3. Numbered' /\ Rising'
  BY <1>1 DEF AsmInv, Numbered, Rising, EndOf
<1>4. DOMAIN src = 1 .. Len(src) /\ Len(src) \in Nat /\ lineNbr = Len(src) + 1
  <2>1. DOMAIN src = 1 .. Len(src) /\ Len(src) \in Nat
    BY SourceShape DEF AsmInv
  <2>2. lineNbr \in 1 .. Len(src) + 1
    BY <1>1 DEF AsmInv, IInv, FirstInv
  <2> QED
    BY <1>1, <2>1, <2>2
<1>5. ReadLines = DOMAIN src /\ ReadLines' = DOMAIN src
  BY <1>1, <1>4 DEF ReadLines
<1>6. ~failed' => Faultless'
  <2> SUFFICES ASSUME ~failed PROVE Faultless'
    BY <1>1
  <2>1. Faultless
    BY DEF AsmInv
  <2> QED
    BY <1>1, <1>5, <2>1
    DEF Faultless, ModeRead, Covered, Named, Known, SizesRead, LastRead
<1>7. DataInside'
  <2>1. DataLine(src) \in 1 .. lineNbr - 1 /\ OnlyData(src, DataLine(src))
    BY <1>4, SourceShape DEF AsmInv
  <2>2. header.dataStart <= addr /\ addr = Ends(working, loaded, Len(working))
    BY <1>1, <2>1 DEF AsmInv, IInv, FirstInv, DataBehind
  <2> QED
    BY <1>1, <2>2 DEF DataInside
<1>8. BytesRight'
  <2>1. Len(out') = 0
    BY <1>1 DEF AsmInv, IInv, FirstInv
  <2> QED
    BY <2>1 DEF BytesRight
<1> QED
  BY <1>1, <1>2, <1>3, <1>6, <1>7, <1>8 DEF AsmInv

\* What was right is so as long as labels and sets stay.
LEMMA StillRight ==
  ASSUME UNCHANGED <<labels, loaded, working>>,
         \A n \in 1 .. Len(out') : Bytes(out'[n], working[n].what)
  PROVE  BytesRight'
<1> SUFFICES ASSUME NEW n \in 1 .. Len(out')
             PROVE  Bytes(out[n], working[n].what)'
  BY DEF BytesRight
<1> DEFINE w == working[n].what
           mode == Last(loaded)
<1>1. Bytes(out'[n], w) /\ working'[n].what = w /\ Last(loaded') = mode
  OBVIOUS
<1>2. /\ out'[n].whole = TRUE /\ (w.op = "byte" => out'[n].opcode = -1)
      /\ w.op = "instr" => out'[n].opcode = Encoded(mode, w.mn)
  BY <1>1 DEF Bytes
<1>3. ASSUME w.op = "instr"
      PROVE  /\ ~Unresolved(w)' /\ DOMAIN out'[n].args = DOMAIN w.args
             /\ \A k \in DOMAIN w.args :
                  out'[n].args[k] = EvaluateArgument(w.args[k], Fields(mode, w.mn)[k])'
  <2>1. /\ ~Unresolved(w) /\ DOMAIN out'[n].args = DOMAIN w.args
        /\ \A k \in DOMAIN w.args :
             out'[n].args[k] = EvaluateArgument(w.args[k], Fields(mode, w.mn)[k])
    BY <1>1, <1>3 DEF Bytes
  <2>2. ~Unresolved(w)'
    BY <2>1 DEF Unresolved
  <2>3. ASSUME NEW k \in DOMAIN w.args
        PROVE  EvaluateArgument(w.args[k], Fields(mode, w.mn)[k])' =
               EvaluateArgument(w.args[k], Fields(mode, w.mn)[k])
    BY DEF EvaluateArgument
  <2> QED
    BY <2>1, <2>2, <2>3
<1> QED
  BY <1>2, <1>3 DEF Bytes

\* A line written is written as it should be.
LEMMA AsmWrites ==
  ASSUME AsmInv, AssembleData \/ AssembleInstr
  PROVE  AsmInv'
<1> DEFINE w == working[lineNbr]
<1>1. /\ phase = "second" /\ phase' = "second" /\ lineNbr <= Len(working)
      /\ UNCHANGED <<src, labels, loaded, header, working>>
  BY DEF AssembleData, AssembleInstr, Emit
<1>2. IInv' /\ IInv
  BY SecondStep DEF AsmInv
<1>3. SecondInv /\ IsSeq(out) /\ lineNbr = Len(out) + 1 /\ Len(out) \in Nat
  <2>1. SecondInv
    BY <1>1, <1>2 DEF IInv
  <2> QED
    BY <2>1, SeqDomain DEF SecondInv
<1>4. Clean(src') /\ DataInside' /\ Numbered' /\ Rising'
  BY <1>1 DEF AsmInv, DataInside, Numbered, Rising, EndOf, Ends
<1>5. addr' \in Nat /\ failed' \in BOOLEAN
  <2>1. addr \in Nat /\ failed \in BOOLEAN
    BY DEF AsmInv, AsmTypes
  <2>2. CASE AssembleData
    BY <2>1, <2>2 DEF AssembleData
  <2>3. CASE AssembleInstr
    <3>1. addr' = addr + Size(loaded, w.what.mn) /\ failed' = (failed \/ Unresolved(w.what))
      BY <2>3 DEF AssembleInstr
    <3>2. (failed \/ Unresolved(w.what)) \in BOOLEAN
      OBVIOUS
    <3> QED
      BY <2>1, <3>1, <3>2, SizeNat
  <2> QED
    BY <2>2, <2>3
<1>6. AsmTypes'
  BY <1>1, <1>5 DEF AsmTypes
<1>7. ASSUME ~failed'
      PROVE  Faultless' /\ BytesRight'
  <2>1. ~failed
    <3>1. failed' = failed \/ failed' = (failed \/ Unresolved(w.what))
      BY DEF AssembleData, AssembleInstr
    <3> QED
      BY <1>7, <3>1, Zenon
  <2>2. Faultless'
    BY <1>1, <2>1, StillFaultless
  <2>3. BytesRight
    BY <1>1, <2>1 DEF AsmInv
  <2>4. PICK b : out' = Append(out, b) /\ Bytes(b, w.what)
    <3>1. CASE AssembleData
      <4> DEFINE b == [line |-> w.line, at |-> fpos, size |-> Written(loaded, w.what),
                       opcode |-> -1, args |-> <<>>, whole |-> w.what.data # "split"]
      <4>1. out' = Append(out, b) /\ w.what.op = "byte"
        BY <3>1 DEF AssembleData, Emit
      <4>2. w.what.data # "split"
        <5>1. lineNbr \in 1 .. Len(working)
          <6>1. Len(working) \in Nat
            BY <1>2, EndsNat DEF IInv
          <6> QED
            BY <1>1, <1>3, <6>1
        <5>2. LineOK(src, w)
          BY <1>2, <5>1 DEF IInv, WorkingOK
        <5>3. w.line \in DOMAIN src /\ w.what = src[w.line].what
          BY <5>2 DEF LineOK
        <5>4. \A k \in DOMAIN src : src[k].what.op = "byte" => src[k].what.data # "split"
          BY DEF AsmInv, Clean, SoundSource, SoundData
        <5> QED
          BY <4>1, <5>3, <5>4
      <4>3. b.whole = TRUE /\ b.opcode = -1
        BY <4>2
      <4> HIDE DEF b
      <4>4. Bytes(b, w.what)
        BY <4>1, <4>3 DEF Bytes
      <4> QED
        BY <4>1, <4>4
    <3>2. CASE AssembleInstr
      <4> DEFINE b == [line |-> w.line, at |-> fpos, size |-> Written(loaded, w.what),
                       opcode |-> Encoded(Last(loaded), w.what.mn),
                       args |-> [k \in DOMAIN w.what.args |->
                                   EvaluateArgument(w.what.args[k],
                                                    Fields(Last(loaded), w.what.mn)[k])],
                       whole |-> TRUE]
      <4>1. out' = Append(out, b) /\ w.what.op = "instr"
        BY <3>2 DEF AssembleInstr, Emit
      <4>2. failed' = (failed \/ Unresolved(w.what))
        BY <3>2 DEF AssembleInstr
      <4>3. ~Unresolved(w.what)
        BY <1>7, <4>2, Zenon
      <4>4. /\ b.whole = TRUE /\ b.opcode = Encoded(Last(loaded), w.what.mn)
            /\ b.args = [k \in DOMAIN w.what.args |->
                           EvaluateArgument(w.what.args[k],
                                            Fields(Last(loaded), w.what.mn)[k])]
        OBVIOUS
      <4> HIDE DEF b
      <4>5. Bytes(b, w.what)
        BY <4>1, <4>3, <4>4 DEF Bytes
      <4> QED
        BY <4>1, <4>5
    <3> QED
      BY <3>1, <3>2
  <2>5. /\ Len(out') = Len(out) + 1 /\ out'[Len(out) + 1] = b
        /\ \A n \in 1 .. Len(out) : out'[n] = out[n]
    BY <1>3, <2>4, AppendAny
  <2>6. ASSUME NEW n \in 1 .. Len(out')
        PROVE  Bytes(out'[n], working[n].what)
    <3>1. CASE n = Len(out) + 1
      BY <1>3, <2>4, <2>5, <3>1
    <3>2. CASE n \in 1 .. Len(out)
      <4>1. Bytes(out[n], working[n].what)
        BY <2>3, <3>2 DEF BytesRight
      <4> QED
        BY <2>5, <3>2, <4>1
    <3> QED
      BY <1>3, <2>5, <3>1, <3>2
  <2>7. BytesRight'
    BY <1>1, <2>6, StillRight
  <2> QED
    BY <2>2, <2>7
<1> QED
  BY <1>1, <1>2, <1>4, <1>6, <1>7 DEF AsmInv

LEMMA AsmEnds ==
  ASSUME AsmInv, AssemblyFails \/ SecondPassEnds \/ UNCHANGED vars
  PROVE  AsmInv'
<1>1. IInv'
  BY SecondEnds DEF AsmInv
<1>2. CASE UNCHANGED vars
  <2>1. /\ Clean(src') /\ AsmTypes' /\ Numbered' /\ Rising'
        /\ phase' # "first" => DataInside'
        /\ phase' = "done" => Len(out') = Len(working')
    BY <1>2 DEF AsmInv, vars, AsmTypes, Numbered, Rising, DataInside, EndOf, Ends
  <2>2. ~failed' => Faultless'
    <3> SUFFICES ASSUME ~failed PROVE Faultless'
      BY <1>2 DEF vars
    <3>1. Faultless /\ ReadLines' = ReadLines
      BY <1>2 DEF AsmInv, ReadLines, vars
    <3> QED
      BY <1>2, <3>1
      DEF vars, Faultless, ModeRead, Covered, Named, Known, SizesRead, LastRead
  <2>3. ~failed' /\ phase' # "first" => BytesRight'
    <3> SUFFICES ASSUME ~failed, phase # "first" PROVE BytesRight'
      BY <1>2 DEF vars
    <3>1. BytesRight
      BY DEF AsmInv
    <3> QED
      BY <1>2, <3>1, StillRight DEF vars, BytesRight
  <2> QED
    BY <1>1, <2>1, <2>2, <2>3 DEF AsmInv
<1>3. CASE AssemblyFails \/ SecondPassEnds
  <2>1. /\ phase = "second" /\ phase' \in {"cut", "killed", "done"}
        /\ UNCHANGED <<src, lineNbr, addr, labels, loaded, header, working, failed, out, fpos>>
        /\ phase' = "done" => lineNbr > Len(working)
    BY <1>3 DEF AssemblyFails, SecondPassEnds
  <2>2. ~failed' => Faultless' /\ BytesRight'
    <3> SUFFICES ASSUME ~failed PROVE Faultless' /\ BytesRight'
      BY <2>1
    <3>1. Faultless'
      BY <2>1, StillFaultless
    <3>2. BytesRight
      BY <2>1 DEF AsmInv
    <3> QED
      BY <2>1, <3>1, <3>2, StillRight DEF BytesRight
  <2>3. phase' = "done" => Len(out') = Len(working')
    <3>1. SecondInv /\ Len(out) \in Nat /\ Len(working) \in Nat
      <4>1. IInv /\ SecondInv
        BY <2>1 DEF AsmInv, IInv
      <4> QED
        BY <4>1, SeqDomain, EndsNat DEF SecondInv, IInv
    <3> QED
      BY <2>1, <3>1 DEF SecondInv
  <2>4. AsmTypes' /\ Clean(src') /\ Numbered' /\ Rising' /\ DataInside'
    BY <2>1 DEF AsmInv, AsmTypes, Numbered, Rising, DataInside, EndOf, Ends
  <2> QED
    BY <1>1, <2>1, <2>2, <2>3, <2>4 DEF AsmInv
<1> QED
  BY <1>2, <1>3

\* The file left empty.
Emptied ==
    /\ phase = "empty" /\ failed \in BOOLEAN /\ addr \in Nat /\ fpos = 0
    /\ \A x \in DOMAIN labels : labels[x] \in Nat

LEMMA AsmStops ==
  ASSUME AsmInv, FirstPassFails
  PROVE  Emptied'
<1>1. /\ phase = "first" /\ phase' = "empty"
      /\ failed' = failed /\ addr' = addr /\ fpos' = fpos
      /\ labels' = LabelsWith(src[lineNbr])
  BY DEF FirstPassFails
<1>2. /\ failed \in BOOLEAN /\ addr \in Nat /\ fpos = 0
      /\ \A x \in DOMAIN labels : labels[x] \in Nat
  BY <1>1 DEF AsmInv, AsmTypes, Numbered, IInv, FirstInv
<1>3. \A x \in DOMAIN labels' : labels'[x] \in Nat
  BY <1>1, <1>2 DEF LabelsWith, Registered
<1> QED
  BY <1>1, <1>2, <1>3 DEF Emptied

LEMMA EmptiedStays ==
  ASSUME Emptied, [Next]_vars
  PROVE  Emptied' /\ UNCHANGED vars
<1>1. UNCHANGED vars
  BY EmptyStays DEF Emptied
<1> QED
  BY <1>1 DEF Emptied, vars

LEMMA AsmNext == AsmInv /\ [Next]_vars => AsmInv' \/ FirstPassFails
BY AsmReads, AsmFirstEnds, AsmWrites, AsmEnds DEF Next

----------------------------------------------------------------------------
(* A program assembled without an error, as it lies in the file.           *)

Made == AsmInv /\ phase = "done" /\ ~failed

ChunkOK(i) ==
    /\ out[i].line \in DOMAIN src /\ src[out[i].line].what.op \in Passed
    /\ out[i].at \in Nat /\ out[i].size \in Nat \ {0} /\ out[i].whole = TRUE
    /\ out[i].at = IF i = 1 THEN 0 ELSE out[i - 1].at + out[i - 1].size

InOrder(i, j) == out[i].line < out[j].line /\ out[i].at + out[i].size <= out[j].at

\* The lines one behind the other, none of them left out, and where the data is.
FileOK ==
    /\ DOMAIN out = 1 .. Len(out) /\ Len(out) \in Nat
    /\ DOMAIN src = 1 .. Len(src) /\ Len(src) \in Nat
    /\ \A i \in DOMAIN out : ChunkOK(i)
    /\ \A i, j \in DOMAIN out : i < j => InOrder(i, j)
    /\ \A k \in DOMAIN src : src[k].what.op \in Passed => \E i \in DOMAIN out : out[i].line = k
    /\ header.dataStart \in Nat /\ Begins(DataLine(src), header.dataStart)
    /\ header.dataStart <= IF Len(out) = 0 THEN 0 ELSE out[Len(out)].at + out[Len(out)].size

LEMMA SizeMode ==
  ASSUME NEW m, NEW mn, mn \in Mnemonics[m]
  PROVE  Size(<<m>>, mn) = ByteSize(m, mn) /\ ArgCount(<<m>>, mn) = Len(Fields(m, mn))
<1>1. Knowing(<<m>>, mn) = {1}
  BY DEF Knowing
<1>2. Max({1}) = 1
  BY DEF Max
<1>3. Info(<<m>>, mn) = m
  BY <1>1, <1>2 DEF Info
<1> QED
  BY <1>1, <1>3 DEF Size, ArgCount

LEMMA ByteSizePositive == \A m, mn : ByteSize(m, mn) \in Nat \ {0}
<1> TAKE m, mn
<1>1. Imm(mn) \in {4, 8}
  BY DEF Imm
<1>2. SharedBytes(mn) \in Nat \ {0}
  BY DEF SharedBytes
<1>3. StackBytes(mn) \in Nat \ {0}
  BY DEF StackBytes
<1>4. RegisterBytes(mn) \in Nat \ {0}
  BY DEF RegisterBytes
<1> QED
  BY <1>2, <1>3, <1>4 DEF ByteSize

LEMMA FieldsSeq == \A m, mn : IsSeq(Fields(m, mn))
<1> TAKE m, mn
<1>0. Imm(mn) \in Nat
  BY DEF Imm
<1>1. SharedFields(mn) \in Seq(Nat)
  BY DEF SharedFields
<1>2. StackFields(mn) \in Seq(Nat)
  BY <1>0 DEF StackFields
<1>3. RegisterFields(mn) \in Seq(Nat)
  BY <1>0 DEF RegisterFields
<1> QED
  BY <1>1, <1>2, <1>3 DEF Fields, IsSeq

\* The sets loaded are one, that of the mode.
LEMMA MadeMode ==
  ASSUME Made
  PROVE  /\ loaded = <<ModeOf(src)>> /\ Last(loaded) = ModeOf(src)
         /\ header.mode = ModeOf(src) /\ ModeOf(src) \in Modes /\ ReadLines = DOMAIN src
<1>1. ModeRead /\ ReadLines = DOMAIN src /\ ModeLine(src) \in DOMAIN src
  BY SourceShape DEF Made, AsmInv, Faultless, ReadLines
<1>2. loaded = <<ModeOf(src)>> /\ header.mode = ModeOf(src) /\ ModeOf(src) \in Modes
  BY <1>1 DEF ModeRead
<1>3. Last(loaded) = ModeOf(src)
  BY <1>2 DEF Last
<1> QED
  BY <1>1, <1>2, <1>3

\* Each line of working is one of out.
LEMMA MadeLine ==
  ASSUME Made
  PROVE  /\ SecondInv /\ Len(working) = Len(out) /\ Len(out) \in Nat /\ DOMAIN out = 1 .. Len(out)
         /\ \A i \in DOMAIN out :
              /\ LineOK(src, working[i]) /\ working[i].at = Ends(working, loaded, i - 1)
              /\ out[i].line = working[i].line /\ out[i].at = working[i].at
              /\ out[i].size = Counted(loaded, working[i].what)
              /\ out[i].size \in Nat \ {0}
              /\ EndOf(working, loaded, i) = out[i].at + out[i].size
              /\ Bytes(out[i], src[out[i].line].what)
<1>1. SecondInv /\ Len(out) = Len(working) /\ BytesRight /\ WorkingOK(src, working, loaded)
  BY DEF Made, AsmInv, IInv
<1>2. Len(out) \in Nat /\ DOMAIN out = 1 .. Len(out)
  BY <1>1, SeqDomain DEF SecondInv
<1>3. ASSUME NEW i \in DOMAIN out
      PROVE  /\ LineOK(src, working[i]) /\ working[i].at = Ends(working, loaded, i - 1)
             /\ out[i].line = working[i].line /\ out[i].at = working[i].at
             /\ out[i].size = Counted(loaded, working[i].what)
             /\ EndOf(working, loaded, i) = out[i].at + out[i].size
             /\ Bytes(out[i], src[out[i].line].what)
  BY <1>1, <1>2 DEF WorkingOK, SecondInv, EndOf, BytesRight, LineOK
<1>4. ASSUME NEW i \in DOMAIN out
      PROVE  Counted(loaded, working[i].what) \in Nat \ {0}
  <2> DEFINE w == working[i].what
             k == working[i].line
  <2>1. k \in DOMAIN src /\ w = src[k].what /\ w.op \in Passed
    BY <1>3 DEF LineOK
  <2>2. CASE w.op = "byte"
    <3>1. SoundData(w)
      BY <2>1, <2>2, SourceLines DEF Made, AsmInv
    <3>2. w.size \in Nat \ {0}
      BY <3>1 DEF SoundData
    <3> QED
      BY <2>2, <3>2 DEF Counted
  <2>3. CASE w.op = "instr"
    <3>1. w.mn \in Mnemonics[ModeOf(src)]
      BY <2>1, <2>3, SourceLines DEF Made, AsmInv, SoundInstr, Faithful
    <3>2. Counted(loaded, w) = ByteSize(ModeOf(src), w.mn)
      BY <2>3, <3>1, MadeMode, SizeMode DEF Counted
    <3> QED
      BY <3>2, ByteSizePositive
  <2> QED
    BY <2>1, <2>2, <2>3 DEF Passed
<1> QED
  BY <1>1, <1>2, <1>3, <1>4

LEMMA FileMade == ASSUME Made PROVE FileOK
<1>1. /\ Len(working) = Len(out) /\ Len(out) \in Nat /\ DOMAIN out = 1 .. Len(out)
      /\ SecondInv
  BY MadeLine
<1>2. DOMAIN src = 1 .. Len(src) /\ Len(src) \in Nat
  BY SourceShape DEF Made, AsmInv
<1>3. ASSUME NEW i \in DOMAIN out
      PROVE  ChunkOK(i)
  <2>1. /\ out[i].line \in DOMAIN src /\ src[out[i].line].what.op \in Passed
        /\ out[i].at \in Nat /\ out[i].size \in Nat \ {0} /\ out[i].whole = TRUE
    BY MadeLine, ZenonT(30) DEF LineOK, Bytes
  <2>2. out[i].at = Ends(working, loaded, i - 1)
    BY MadeLine
  <2>3. CASE i = 1
    BY <2>1, <2>2, <2>3 DEF Ends, ChunkOK
  <2>4. CASE i # 1
    <3>1. i - 1 \in DOMAIN out /\ i - 1 # 0
      BY <1>1, <2>4
    <3>2. out[i].at = out[i - 1].at + out[i - 1].size
      BY <2>2, <3>1, MadeLine DEF Ends
    <3> QED
      BY <2>1, <2>4, <3>2 DEF ChunkOK
  <2> QED
    BY <2>3, <2>4
<1>4. \A i, j \in DOMAIN out : i < j => InOrder(i, j)
  <2> SUFFICES ASSUME NEW i \in DOMAIN out, NEW j \in DOMAIN out, i < j
               PROVE  InOrder(i, j)
    OBVIOUS
  <2>1. working[i].line < working[j].line /\ EndOf(working, loaded, i) <= working[j].at
    BY <1>1 DEF Made, AsmInv, Rising
  <2> QED
    BY <2>1, MadeLine DEF InOrder
<1>5. \A k \in DOMAIN src : src[k].what.op \in Passed => \E i \in DOMAIN out : out[i].line = k
  <2>1. Covered /\ ReadLines = DOMAIN src
    BY MadeMode DEF Made, AsmInv, Faultless
  <2> SUFFICES ASSUME NEW k \in DOMAIN src, src[k].what.op \in Passed
               PROVE  \E i \in DOMAIN out : out[i].line = k
    OBVIOUS
  <2>2. PICK i \in 1 .. Len(working) : working[i].line = k
    BY <2>1 DEF Covered
  <2> QED
    BY <1>1, <2>2, MadeLine
<1>6. /\ header.dataStart \in Nat /\ Begins(DataLine(src), header.dataStart)
  <2>1. DataLine(src) \in DOMAIN src /\ OnlyData(src, DataLine(src))
    BY SourceShape DEF Made, AsmInv
  <2>2. Placed(working, loaded, DataLine(src), header.dataStart)
    BY <1>1, <2>1 DEF SecondInv, DataGiven
  <2> QED
    BY <1>1, <2>2, PlacedBegins DEF Placed
<1>7. header.dataStart <= IF Len(out) = 0 THEN 0 ELSE out[Len(out)].at + out[Len(out)].size
  <2>1. header.dataStart <= Ends(working, loaded, Len(out))
    BY <1>1 DEF Made, AsmInv, DataInside
  <2>2. CASE Len(out) = 0
    BY <2>1, <2>2 DEF Ends
  <2>3. CASE Len(out) # 0
    <3>1. Len(out) \in DOMAIN out
      BY <1>1, <2>3
    <3> QED
      BY <2>1, <2>3, <3>1, MadeLine DEF Ends
  <2> QED
    BY <2>2, <2>3
<1> QED
  BY <1>1, <1>2, <1>3, <1>4, <1>5, <1>6, <1>7 DEF FileOK

----------------------------------------------------------------------------
(* Addresses and lines.                                                    *)

\* The line executed at address a, 0 behind the code.
Here(a) == IF a < header.dataStart THEN LineAt(a) ELSE 0

\* The first c chunks are those of the lines before k.
Cut(k, c) ==
    /\ \A i \in 1 .. c : out[i].line < k
    /\ \A i \in c + 1 .. Len(out) : k <= out[i].line

EndAt(c) == IF c = 0 THEN 0 ELSE out[c].at + out[c].size

LEMMA ChunkFacts ==
  ASSUME FileOK, NEW i \in DOMAIN out
  PROVE  /\ i \in Nat \ {0} /\ out[i].line \in DOMAIN src /\ out[i].line \in Nat \ {0}
         /\ src[out[i].line].what.op \in Passed
         /\ out[i].at \in Nat /\ out[i].size \in Nat \ {0} /\ out[i].whole = TRUE
<1>1. ChunkOK(i) /\ i \in 1 .. Len(out) /\ Len(out) \in Nat /\ DOMAIN src = 1 .. Len(src)
  BY DEF FileOK
<1>2. out[i].line \in Nat \ {0}
  BY <1>1 DEF ChunkOK, FileOK
<1> QED
  BY <1>1, <1>2 DEF ChunkOK

LEMMA ChunkEnd ==
  ASSUME FileOK, NEW i \in DOMAIN out
  PROVE  out[i].at = EndAt(i - 1) /\ EndAt(i) = out[i].at + out[i].size
<1>1. ChunkOK(i) /\ i \in 1 .. Len(out) /\ Len(out) \in Nat
  BY DEF FileOK
<1> QED
  BY <1>1 DEF ChunkOK, EndAt

LEMMA ChunkOrder ==
  ASSUME FileOK, NEW i \in DOMAIN out, NEW j \in DOMAIN out, i < j
  PROVE  out[i].line < out[j].line /\ out[i].at + out[i].size <= out[j].at
BY DEF FileOK, InOrder

LEMMA CutAt ==
  ASSUME FileOK, NEW k \in Nat
  PROVE  \E c \in 0 .. Len(out) : Cut(k, c)
<1> DEFINE T == {n \in 1 .. Len(out) + 1 : n \in DOMAIN out => k <= out[n].line}
<1>1. DOMAIN out = 1 .. Len(out) /\ Len(out) \in Nat
  BY DEF FileOK
<1>2. T \subseteq Nat /\ T # {}
  <2>1. Len(out) + 1 \in T
    BY <1>1
  <2> QED
    BY <1>1, <2>1
<1>3. \A n \in 1 .. Len(out) + 1 : n \in T <=> (n \in DOMAIN out => k <= out[n].line)
  OBVIOUS
<1>4. \A n \in T : n \in 1 .. Len(out) + 1
  OBVIOUS
<1> HIDE DEF T
<1>5. PICK n \in T : \A m \in T : n <= m
  BY <1>2, LeastNat
<1>6. n \in 1 .. Len(out) + 1 /\ n - 1 \in 0 .. Len(out) /\ n - 1 + 1 = n
  BY <1>1, <1>4
<1>7. ASSUME NEW i \in 1 .. n - 1
      PROVE  out[i].line < k
  <2>1. i \in DOMAIN out /\ i \in 1 .. Len(out) + 1 /\ i < n /\ i \in Nat /\ n \in Nat
    BY <1>1, <1>6
  <2>1a. out[i].line \in Nat
    BY <2>1, ChunkFacts
  <2>2. i \notin T
    BY <1>5, <2>1
  <2>3. ~(k <= out[i].line)
    BY <1>3, <2>1, <2>2
  <2> QED
    BY <2>1a, <2>3
<1>8. ASSUME NEW i \in n .. Len(out)
      PROVE  k <= out[i].line
  <2>1. n \in DOMAIN out /\ i \in DOMAIN out /\ (i = n \/ n < i)
    BY <1>1, <1>6
  <2>2. k <= out[n].line
    BY <1>3, <1>6, <2>1
  <2>3. CASE n < i
    <3>1. out[n].line \in Nat /\ out[i].line \in Nat
      BY <2>1, ChunkFacts
    <3>2. out[n].line < out[i].line
      BY <2>1, <2>3, ChunkOrder
    <3> QED
      BY <2>2, <3>1, <3>2
  <2> QED
    BY <2>1, <2>2, <2>3
<1> QED
  BY <1>6, <1>7, <1>8 DEF Cut

\* An address between the lines before k and the others is where the first of
\* these begins.
LEMMA CutEnd ==
  ASSUME FileOK, NEW k \in Nat, NEW a \in Nat, Begins(k, a),
         NEW c \in 0 .. Len(out), Cut(k, c)
  PROVE  EndAt(c) <= a /\ (c < Len(out) => c + 1 \in DOMAIN out /\ out[c + 1].at = a)
<1>1. DOMAIN out = 1 .. Len(out) /\ Len(out) \in Nat
  BY DEF FileOK
<1>2. EndAt(c) <= a
  <2>1. CASE c = 0
    BY <2>1 DEF EndAt
  <2>2. CASE c # 0
    <3>1. c \in DOMAIN out /\ out[c].line < k
      BY <1>1, <2>2 DEF Cut
    <3> QED
      BY <2>2, <3>1 DEF Begins, EndAt
  <2> QED
    BY <2>1, <2>2
<1>3. ASSUME c < Len(out)
      PROVE  c + 1 \in DOMAIN out /\ out[c + 1].at = a
  <2>1. c + 1 \in DOMAIN out /\ c + 1 - 1 = c /\ c + 1 \in c + 1 .. Len(out)
    BY <1>1, <1>3
  <2>2. out[c + 1].line \in Nat /\ out[c + 1].at \in Nat
    BY <2>1, ChunkFacts
  <2>3. out[c + 1].at = EndAt(c)
    BY <2>1, ChunkEnd
  <2>4. k <= out[c + 1].line
    BY <2>1 DEF Cut
  <2>5. a <= out[c + 1].at
    BY <2>1, <2>2, <2>4 DEF Begins
  <2> QED
    BY <1>2, <2>1, <2>2, <2>3, <2>5
<1> QED
  BY <1>2, <1>3

LEMMA ChunkOne ==
  ASSUME FileOK, NEW i \in DOMAIN out
  PROVE  /\ Chunks(out[i].at) = {i} /\ ChunkAt(out[i].at) = out[i]
         /\ LineAt(out[i].at) = out[i].line
<1>1. ASSUME NEW n \in DOMAIN out, out[n].at = out[i].at
      PROVE  n = i
  <2>1. n \in Nat /\ i \in Nat
    BY DEF FileOK
  <2>2. /\ out[n].at \in Nat /\ out[n].size \in Nat \ {0}
        /\ out[i].at \in Nat /\ out[i].size \in Nat \ {0}
    BY ChunkFacts
  <2>3. n < i => out[n].at + out[n].size <= out[i].at
    BY ChunkOrder
  <2>4. i < n => out[i].at + out[i].size <= out[n].at
    BY ChunkOrder
  <2> QED
    BY <1>1, <2>1, <2>2, <2>3, <2>4
<1>2. out[i].size > 0 /\ out[i].whole = TRUE
  <2>1. out[i].size \in Nat \ {0} /\ out[i].whole = TRUE
    BY ChunkFacts
  <2> QED
    BY <2>1
<1>3. Chunks(out[i].at) = {i}
  BY <1>1, <1>2 DEF Chunks
<1>4. ChunkAt(out[i].at) = out[i]
  BY <1>3 DEF ChunkAt
<1> QED
  BY <1>2, <1>3, <1>4 DEF LineAt

----------------------------------------------------------------------------
(* What the source promises, said of the file.                             *)

LEMMA LeastIs ==
  ASSUME NEW T, T \subseteq Nat, NEW m \in T, \A n \in T : m <= n
  PROVE  Abs!Min(T) = m
<1>1. \A x \in T : (\A y \in T : x <= y) => x = m
  BY SMT
<1> QED
  BY <1>1 DEF Abs!Min

\* The first of these lines from k on is m, or there is none.
LEMMA FirstIs ==
  ASSUME NEW T, T \subseteq Nat, NEW k \in Nat
  PROVE  /\ \A m \in T : k <= m /\ (\A n \in T : k <= n => m <= n) => Abs!First(T, k) = m
         /\ (\A n \in T : ~(k <= n)) => Abs!First(T, k) = 0
<1> DEFINE F == {n \in T : n >= k}
<1>1. ASSUME NEW m \in T, k <= m, \A n \in T : k <= n => m <= n
      PROVE  Abs!First(T, k) = m
  <2>1. F \subseteq Nat /\ m \in F /\ \A n \in F : m <= n
    BY <1>1
  <2>2. Abs!First(T, k) = IF F = {} THEN 0 ELSE Abs!Min(F)
    BY DEF Abs!First
  <2> HIDE DEF F
  <2>3. Abs!Min(F) = m
    BY <2>1, LeastIs
  <2> QED
    BY <2>1, <2>2, <2>3
<1>2. ASSUME \A n \in T : ~(k <= n)
      PROVE  Abs!First(T, k) = 0
  <2>1. F = {}
    BY <1>2
  <2> QED
    BY <2>1 DEF Abs!First
<1> QED
  BY <1>1, <1>2

LEMMA CodeIs ==
  ASSUME Clean(src)
  PROVE  /\ Abs!CodeEnd = DataLine(src)
         /\ Abs!Code = {k \in DOMAIN src : src[k].what.op = "instr" /\ k < DataLine(src)}
         /\ Abs!Lines({"instr", "byte"}) = {k \in DOMAIN src : src[k].what.op \in Passed}
<1>1. /\ DataLine(src) \in DOMAIN src
      /\ \A n \in DOMAIN src : src[n].what.op = "data" <=> n = DataLine(src)
  BY SourceShape
<1>2. Abs!Lines({"data"}) = {DataLine(src)}
  BY <1>1 DEF Abs!Lines
<1>3. Abs!Max({DataLine(src)}) = DataLine(src)
  <2>1. DataLine(src) \in Nat
    BY <1>1, SourceShape
  <2> QED
    BY <2>1 DEF Abs!Max
<1>4. Abs!CodeEnd = DataLine(src)
  BY <1>2, <1>3 DEF Abs!CodeEnd
<1> QED
  BY <1>4 DEF Abs!Code, Abs!Lines, Passed

\* Between the lines before k and the others is the first instruction from k on
\* to be executed.
LEMMA NextHere ==
  ASSUME Made, NEW k \in Nat, NEW a \in Nat, Begins(k, a)
  PROVE  /\ Here(a) = Abs!NextCode(k)
         /\ a < header.dataStart => \E i \in DOMAIN out :
               /\ out[i].at = a /\ out[i].line = Here(a) /\ k <= out[i].line /\ Cut(k, i - 1)
               /\ src[out[i].line].what.op = "instr"
<1> DEFINE d == DataLine(src)
           s == header.dataStart
<1>1. FileOK /\ Clean(src)
  BY FileMade DEF Made, AsmInv
<1>2. /\ DOMAIN out = 1 .. Len(out) /\ Len(out) \in Nat /\ s \in Nat /\ Begins(d, s)
      /\ DOMAIN src = 1 .. Len(src) /\ Len(src) \in Nat
      /\ s <= EndAt(Len(out))
  BY <1>1 DEF FileOK, EndAt
<1>3. /\ d \in DOMAIN src /\ d \in Nat /\ src[d].what.op = "data"
      /\ \A n \in DOMAIN src : src[n].what.op = "byte" => n > d
  BY <1>1, <1>2, SourceShape
<1>4. PICK c \in 0 .. Len(out) : Cut(k, c)
  BY <1>1, CutAt
<1>5. EndAt(c) <= a /\ (c < Len(out) => c + 1 \in DOMAIN out /\ out[c + 1].at = a)
  BY <1>1, <1>4, CutEnd
<1>6. Abs!Code \subseteq Nat /\ Abs!NextCode(k) = Abs!First(Abs!Code, k)
  BY <1>1, <1>2, CodeIs DEF Abs!NextCode
\* The lines from k on are those of the chunks behind c.
<1>7. ASSUME NEW m \in DOMAIN src, src[m].what.op \in Passed, k <= m
      PROVE  \E i \in c + 1 .. Len(out) : out[i].line = m
  <2>1. PICK i \in DOMAIN out : out[i].line = m
    BY <1>1, <1>7 DEF FileOK
  <2>2. i \notin 1 .. c
    BY <1>2, <1>4, <1>7, <2>1 DEF Cut
  <2> QED
    BY <1>2, <2>1, <2>2
<1>8. CASE c < Len(out) /\ out[c + 1].line < d
  <2> DEFINE i == c + 1
             m == out[i].line
  <2>1. i \in DOMAIN out /\ out[i].at = a /\ i - 1 = c /\ k <= m
    BY <1>2, <1>4, <1>5, <1>8 DEF Cut
  <2>2. m \in DOMAIN src /\ m \in Nat /\ src[m].what.op \in Passed
        /\ out[i].size \in Nat \ {0}
    BY <1>1, <2>1, ChunkFacts
  <2>3. src[m].what.op = "instr" /\ m \in Abs!Code
    <3>1. src[m].what.op # "byte"
      BY <1>3, <1>8, <2>2
    <3> QED
      BY <1>1, <1>8, <2>2, <3>1, CodeIs DEF Passed
  <2>4. ASSUME NEW n \in Abs!Code, k <= n
        PROVE  m <= n
    <3>1. n \in DOMAIN src /\ src[n].what.op \in Passed
      BY <1>1, CodeIs DEF Passed
    <3>2. PICK j \in c + 1 .. Len(out) : out[j].line = n
      BY <1>7, <2>4, <3>1
    <3>3. j \in DOMAIN out /\ (j = i \/ i < j)
      BY <1>2, <3>2
    <3>4. CASE i < j
      BY <1>1, <2>1, <2>2, <3>2, <3>3, <3>4, ChunkOrder, <1>6
    <3> QED
      BY <2>2, <3>2, <3>3, <3>4
  <2>5. Abs!NextCode(k) = m
    BY <1>6, <2>1, <2>3, <2>4, FirstIs
  <2>6. a < s
    <3>1. out[i].at + out[i].size <= s
      BY <1>2, <1>8, <2>1 DEF Begins
    <3> QED
      BY <1>2, <2>1, <2>2, <3>1
  <2>7. LineAt(a) = m
    BY <1>1, <2>1, ChunkOne
  <2>8. Here(a) = m
    BY <2>6, <2>7 DEF Here
  <2> HIDE DEF i
  <2> QED
    BY <1>4, <2>1, <2>3, <2>5, <2>8
<1>9. CASE ~(c < Len(out) /\ out[c + 1].line < d)
  <2>1. s <= a
    <3>1. CASE c < Len(out)
      <4>1. c + 1 \in DOMAIN out /\ out[c + 1].at = a
        BY <1>5, <3>1
      <4>2. out[c + 1].line \in Nat
        BY <1>1, <4>1, ChunkFacts
      <4>3. ~(out[c + 1].line < d)
        BY <1>9, <3>1
      <4> QED
        BY <1>2, <4>1, <4>3 DEF Begins
    <3>2. CASE ~(c < Len(out))
      <4>1. c = Len(out) /\ EndAt(c) \in Nat
        <5>1. c = Len(out)
          <6>1. c \in 0 .. Len(out) /\ Len(out) \in Nat
            BY <1>2
          <6> QED
            BY <3>2, <6>1
        <5>2. CASE c = 0
          BY <5>1, <5>2 DEF EndAt
        <5>3. CASE c # 0
          <6>1. c \in DOMAIN out
            BY <1>2, <5>1, <5>3
          <6>2. out[c].at \in Nat /\ out[c].size \in Nat
            BY <1>1, <6>1, ChunkFacts
          <6> QED
            BY <5>1, <5>3, <6>2, SMTT(30) DEF EndAt
        <5> QED
          BY <5>2, <5>3
      <4> QED
        BY <1>2, <1>5, <4>1
    <3> QED
      BY <3>1, <3>2
  <2>2. \A n \in Abs!Code : ~(k <= n)
    <3> SUFFICES ASSUME NEW n \in Abs!Code, k <= n PROVE FALSE
      OBVIOUS
    <3>1. n \in DOMAIN src /\ src[n].what.op \in Passed /\ n < d
      BY <1>1, CodeIs DEF Passed
    <3>2. PICK j \in c + 1 .. Len(out) : out[j].line = n
      BY <1>7, <3>1
    <3>3. /\ j \in DOMAIN out /\ c + 1 \in DOMAIN out /\ (j = c + 1 \/ c + 1 < j)
          /\ c < Len(out)
      BY <1>2, <3>2
    <3>4. out[c + 1].line \in Nat
      BY <1>1, <3>3, ChunkFacts
    <3>5. c + 1 < j => out[c + 1].line < n
      BY <1>1, <3>2, <3>3, ChunkOrder
    <3>6. out[c + 1].line <= n
      BY <3>2, <3>3, <3>4, <3>5, <1>2, <3>1
    <3> QED
      BY <1>2, <1>3, <1>9, <3>1, <3>3, <3>4, <3>6
  <2>3. Abs!NextCode(k) = 0
    BY <1>6, <2>2, FirstIs
  <2> QED
    BY <1>2, <2>1, <2>3 DEF Here
<1> QED
  BY <1>8, <1>9

\* A label is the address of what the source has behind it.
HasLabel(k) == src[k].label # ""

LEMMA LabelHere ==
  ASSUME Made, NEW k \in DOMAIN src, HasLabel(k)
  PROVE  /\ src[k].label \in DOMAIN labels \ DOMAIN Preloaded
         /\ labels[src[k].label] \in Nat /\ k \in Nat /\ Begins(k, labels[src[k].label])
         /\ Abs!Labelled(src[k].label) = {k}
         /\ LineAt(labels[src[k].label]) = Abs!LineOf(src[k].label)
         /\ Here(labels[src[k].label]) = Abs!Goto(src[k].label)
<1> DEFINE x == src[k].label
           a == labels[x]
           d == DataLine(src)
           P == {n \in DOMAIN src : src[n].what.op \in Passed}
<1>1. /\ FileOK /\ Clean(src) /\ Named /\ SecondInv /\ Len(working) \in Nat
      /\ ReadLines = DOMAIN src
  BY FileMade, MadeLine, MadeMode DEF Made, AsmInv, Faultless
<1>2. /\ DOMAIN out = 1 .. Len(out) /\ Len(out) \in Nat
      /\ DOMAIN src = 1 .. Len(src) /\ Len(src) \in Nat /\ k \in Nat
  <2>1. /\ DOMAIN out = 1 .. Len(out) /\ Len(out) \in Nat
        /\ DOMAIN src = 1 .. Len(src) /\ Len(src) \in Nat
    BY <1>1 DEF FileOK
  <2> QED
    BY <2>1
<1>3. x \in DOMAIN labels /\ Placed(working, loaded, k, a)
  <2>1. LabelGiven(k)
    BY <1>1 DEF SecondInv
  <2> QED
    BY <2>1 DEF LabelGiven, Made, HasLabel
<1>4. a \in Nat /\ Begins(k, a)
  BY <1>1, <1>3, PlacedBegins DEF Placed
<1>5. x \notin DOMAIN Preloaded
  BY <1>1 DEF Named
<1>6. Abs!Labelled(x) = {k}
  <2>1. \A n \in DOMAIN src : src[n].label = x => n = k
    BY <1>1 DEF Named, HasLabel
  <2> QED
    BY <2>1 DEF Abs!Labelled
<1>7. Abs!LineOf(x) = Abs!First(P, k)
  <2>1. (CHOOSE n \in {k} : TRUE) = k
    OBVIOUS
  <2>2. Abs!Lines({"instr", "byte"}) = P
    BY <1>1, CodeIs
  <2> QED
    BY <1>6, <2>1, <2>2 DEF Abs!LineOf
<1>8. P \subseteq Nat
  BY <1>2
<1>9. PICK c \in 0 .. Len(out) : Cut(k, c)
  BY <1>1, <1>2, CutAt
<1>10. ASSUME NEW n \in P, k <= n
       PROVE  \E i \in c + 1 .. Len(out) : out[i].line = n
  <2>1. n \in DOMAIN src /\ src[n].what.op \in Passed
    OBVIOUS
  <2>2. PICK i \in DOMAIN out : out[i].line = n
    BY <1>1, <2>1 DEF FileOK
  <2>3. i \notin 1 .. c
    BY <1>2, <1>9, <1>10, <2>1, <2>2 DEF Cut
  <2> QED
    BY <1>2, <2>2, <2>3
<1>11. c < Len(out)
  <2>1. PICK n \in DOMAIN src : n >= k /\ src[n].what.op \in Passed
    BY <1>1, SourceLines DEF HasLabel
  <2>2. n \in P /\ k <= n
    BY <1>2, <2>1
  <2>3. PICK i \in c + 1 .. Len(out) : out[i].line = n
    BY <1>10, <2>2
  <2> QED
    BY <1>2, <2>3
<1> DEFINE i == c + 1
           m == out[i].line
<1>12. i \in DOMAIN out /\ out[i].at = a
  BY <1>1, <1>2, <1>4, <1>9, <1>11, CutEnd
<1>13. m \in P /\ m \in Nat /\ k <= m
  <2>1. m \in DOMAIN src /\ m \in Nat /\ src[m].what.op \in Passed
    BY <1>1, <1>12, ChunkFacts
  <2>2. i \in c + 1 .. Len(out)
    BY <1>2, <1>12
  <2> QED
    BY <1>9, <2>1, <2>2 DEF Cut
<1>14. ASSUME NEW n \in P, k <= n
       PROVE  m <= n
  <2>1. PICK j \in c + 1 .. Len(out) : out[j].line = n
    BY <1>10, <1>14
  <2>2. j \in DOMAIN out /\ (j = i \/ i < j)
    BY <1>2, <2>1
  <2>3. i < j => m < n
    BY <1>1, <1>12, <2>1, <2>2, ChunkOrder
  <2> QED
    BY <1>8, <1>13, <2>1, <2>2, <2>3
<1> HIDE DEF P, m, i
<1>15. Abs!LineOf(x) = m
  <2>1. \A n \in P : k <= n => m <= n
    BY <1>14
  <2>2. Abs!First(P, k) = m
    BY <1>2, <1>8, <1>13, <2>1, FirstIs
  <2> QED
    BY <1>7, <2>2
<1>16. LineAt(a) = m
  BY <1>1, <1>12, ChunkOne DEF m
<1>17. Here(a) = Abs!NextCode(k)
  BY <1>2, <1>4, NextHere
<1>18. \A n : n \in Abs!Code <=> n \in P /\ src[n].what.op = "instr" /\ n < d
  BY <1>1, CodeIs DEF P, Passed
<1>19. Abs!Code \subseteq Nat /\ Abs!NextCode(k) = Abs!First(Abs!Code, k)
  BY <1>8, <1>18 DEF Abs!NextCode
<1>20. Abs!NextCode(k) = IF m \in Abs!Code THEN m ELSE 0
  <2>1. CASE m \in Abs!Code
    <3>1. \A n \in Abs!Code : k <= n => m <= n
      BY <1>14, <1>18
    <3> QED
      BY <1>2, <1>13, <1>19, <2>1, <3>1, FirstIs
  <2>2. CASE m \notin Abs!Code
    <3>1. ASSUME NEW n \in Abs!Code, k <= n PROVE FALSE
      <4>1. n \in P /\ n < d /\ n \in Nat
        BY <1>8, <1>18
      <4>2. m <= n
        BY <1>14, <3>1, <4>1
      <4>3. d \in Nat /\ \A j \in DOMAIN src : src[j].what.op = "byte" => j > d
        BY <1>1, <1>2, SourceShape
      <4>4. m < d
        BY <1>13, <4>1, <4>2, <4>3
      <4>5. src[m].what.op # "byte"
        BY <1>13, <4>3, <4>4 DEF P
      <4> QED
        BY <1>13, <1>18, <2>2, <4>4, <4>5 DEF P, Passed
    <3> QED
      BY <1>2, <1>19, <2>2, <3>1, FirstIs
  <2> QED
    BY <2>1, <2>2
<1>21. Here(a) = Abs!Goto(x)
  BY <1>15, <1>17, <1>20 DEF Abs!Goto
<1> QED
  BY <1>2, <1>3, <1>4, <1>5, <1>6, <1>15, <1>16, <1>21

----------------------------------------------------------------------------
(* Operands.                                                               *)

LEMMA DivOfProduct ==
  ASSUME NEW x \in Nat, NEW n \in Nat, n > 0
  PROVE  (x * n) \div n = x
OBVIOUS

\* A value for one byte fits, and so is not cut.
LEMMA OneByte ==
  ASSUME Numbered, NEW a, Fits(1, a)
  PROVE  EvaluateArgument(a, 1) \in 0 .. 255
<1>1. CASE a.sym = ""
  BY <1>1, NoEmptyName DEF Fits, EvaluateArgument
<1>2. CASE a.sym \in DOMAIN Preloaded /\ a.op = ""
  <2>1. a.sym \in DOMAIN labels /\ labels[a.sym] = Preloaded[a.sym] /\ a.sym # ""
    BY <1>2, NoEmptyName DEF Numbered
  <2>2. EvaluateArgument(a, 1) = Preloaded[a.sym]
    BY <1>2, <2>1 DEF EvaluateArgument
  <2> QED
    BY <1>2, <2>2, PreloadedNat
<1>3. a.sym = "" \/ (a.sym \in DOMAIN Preloaded /\ a.op = "")
  <2>1. 1 # 4
    OBVIOUS
  <2> QED
    BY <2>1, Zenon DEF Fits
<1> QED
  BY <1>1, <1>2, <1>3, Zenon

\* A label is found again in what an expression with it comes to.
IsLabel(x) == x \in DOMAIN labels /\ x \notin DOMAIN Preloaded \cup {""}

LEMMA Undoes ==
  ASSUME Numbered, NEW width, NEW a, Fits(width, a), IsLabel(a.sym)
  PROVE  /\ Undone(a, EvaluateArgument(a, width)) = labels[a.sym]
         /\ a.op = "" => EvaluateArgument(a, width) = labels[a.sym]
<1> DEFINE v == labels[a.sym]
           n == a.num
<1>1. v \in Nat /\ a.sym # "" /\ a.sym \in DOMAIN labels
  BY DEF Numbered, IsLabel
<1>2. /\ n \in Nat /\ width = 4
      /\ a.op \in {"", "+", "-"} \/ (a.op = "*" /\ n > 0)
  BY DEF Fits, IsLabel
<1> DEFINE joined == CASE a.op = "+" -> v + n
                       [] a.op = "-" -> v - n
                       [] a.op = "*" -> v * n
<1>0. ASSUME a.op \in {"+", "-", "*"}
      PROVE  EvaluateArgument(a, width) = joined
  <2>1. EvaluateArgument(a, width) = IF a.op = "/" \/ width = 8 THEN Garbage ELSE joined
    BY <1>0, <1>1 DEF EvaluateArgument
  <2>2. a.op # "/"
    BY <1>0
  <2>3. width # 8
    <3>1. width = 4
      BY <1>2
    <3> QED
      BY <3>1
  <2> HIDE DEF joined
  <2> QED
    BY <2>1, <2>2, <2>3, Zenon
<1> HIDE DEF v, n
<1>7. v \in Nat /\ n \in Nat
  BY <1>1, <1>2
<1>3. CASE a.op = ""
  BY <1>1, <1>3 DEF EvaluateArgument, Undone, v
<1>4. CASE a.op = "+"
  <2>1. EvaluateArgument(a, width) = v + n
    BY <1>0, <1>4
  <2>2. Undone(a, v + n) = (v + n) - n
    BY <1>4 DEF Undone, n
  <2>3. (v + n) - n = v
    BY <1>7
  <2>4. a.op # ""
    BY <1>4
  <2> QED
    BY <2>1, <2>2, <2>3, <2>4, Zenon DEF v
<1>5. CASE a.op = "-"
  <2>1. EvaluateArgument(a, width) = v - n
    BY <1>0, <1>5
  <2>2. Undone(a, v - n) = (v - n) + n
    BY <1>5 DEF Undone, n
  <2>3. (v - n) + n = v
    BY <1>7
  <2>4. a.op # ""
    BY <1>5
  <2> QED
    BY <2>1, <2>2, <2>3, <2>4, Zenon DEF v
<1>6. CASE a.op = "*" /\ n > 0
  <2>1. EvaluateArgument(a, width) = v * n
    BY <1>0, <1>6
  <2>2. Undone(a, v * n) = (v * n) \div n
    BY <1>6 DEF Undone, n
  <2>3. (v * n) \div n = v
    BY <1>6, <1>7, DivOfProduct
  <2> QED
    BY <1>6, <2>1, <2>2, <2>3 DEF v
<1> QED
  BY <1>2, <1>3, <1>4, <1>5, <1>6

\* An instruction in the file is the one of its line, for both programs.
LEMMA InstrMade ==
  ASSUME Made, NEW i \in DOMAIN out, src[out[i].line].what.op = "instr",
         NEW w, w = src[out[i].line].what, NEW mode, mode = header.mode
  PROVE  /\ SoundInstr(mode, w) /\ mode = ModeOf(src)
         /\ out[i].opcode = Encoded(mode, w.mn) /\ out[i].opcode >= 0
         /\ Meant(mode, out[i].opcode) = w.mn
         /\ out[i].size = Step(mode, w.mn)
         /\ w.mn[1] = "CALL" => out[i].size = 5
         /\ ~Unresolved(w)
         /\ DOMAIN w.args = DOMAIN Fields(mode, w.mn) /\ DOMAIN out[i].args = DOMAIN w.args
         /\ \A k \in DOMAIN w.args :
              /\ out[i].args[k] = EvaluateArgument(w.args[k], Fields(mode, w.mn)[k])
              /\ Arrives(mode, w.mn, k) /\ Fits(Fields(mode, w.mn)[k], w.args[k])
<1>1. /\ LineOK(src, working[i]) /\ out[i].line = working[i].line
      /\ out[i].size = Counted(loaded, working[i].what) /\ Bytes(out[i], w)
      /\ i \in 1 .. Len(working)
  BY MadeLine
<1>2. out[i].line \in DOMAIN src /\ working[i].what = w /\ w.op = "instr"
  BY <1>1 DEF LineOK
<1>3. /\ loaded = <<mode>> /\ Last(loaded) = mode /\ mode = ModeOf(src)
  BY MadeMode
<1>4. SoundInstr(mode, w) /\ IsSeq(w.args)
  BY <1>2, <1>3, SourceLines DEF Made, AsmInv
<1>5. /\ w.mn \in Mnemonics[mode] /\ Encoded(mode, w.mn) >= 0
      /\ Meant(mode, Encoded(mode, w.mn)) = w.mn
      /\ Step(mode, w.mn) = ByteSize(mode, w.mn)
      /\ \A k \in DOMAIN Fields(mode, w.mn) : Arrives(mode, w.mn, k)
      /\ w.mn[1] = "CALL" => ByteSize(mode, w.mn) = 5
  BY <1>4 DEF SoundInstr, Faithful
<1>6. /\ out[i].opcode = Encoded(mode, w.mn) /\ ~Unresolved(w)
      /\ DOMAIN out[i].args = DOMAIN w.args
      /\ \A k \in DOMAIN w.args :
           out[i].args[k] = EvaluateArgument(w.args[k], Fields(mode, w.mn)[k])
  BY <1>1, <1>2, <1>3 DEF Bytes
<1>7. out[i].size = ByteSize(mode, w.mn)
  <2>1. Counted(loaded, w) = Size(<<mode>>, w.mn)
    BY <1>2, <1>3 DEF Counted
  <2> QED
    BY <1>1, <1>2, <1>5, <2>1, SizeMode
<1>8. DOMAIN w.args = DOMAIN Fields(mode, w.mn)
  <2>1. Known
    BY DEF Made, AsmInv, Faultless
  <2>2. Len(w.args) = ArgCount(<<mode>>, w.mn)
    BY <1>1, <1>2, <1>3, <2>1 DEF Known
  <2>3. Len(w.args) = Len(Fields(mode, w.mn))
    BY <1>5, <2>2, SizeMode
  <2> QED
    BY <1>4, <2>3, SeqDomain, FieldsSeq
<1>9. \A k \in DOMAIN w.args : Fits(Fields(mode, w.mn)[k], w.args[k])
  BY <1>4, <1>8 DEF SoundInstr
<1> QED
  BY <1>3, <1>4, <1>5, <1>6, <1>7, <1>8, <1>9

----------------------------------------------------------------------------
(* An instruction read at instrPtr.                                        *)

Spot(a) == a \in Nat /\ \E k \in Nat : Begins(k, a)

\* f is the instruction of line m: with the operands the assembler has evaluated.
ReadFrom(f, m) ==
    /\ m \in DOMAIN src /\ m \in Nat \ {0} /\ src[m].what.op = "instr"
    /\ SoundInstr(header.mode, src[m].what) /\ ~Unresolved(src[m].what)
    /\ f.mn = src[m].what.mn /\ f.line = m /\ DOMAIN f.args = DOMAIN src[m].what.args
    /\ \A k \in DOMAIN f.args :
         \E width : /\ Fits(width, src[m].what.args[k])
                    /\ f.args[k] = EvaluateArgument(src[m].what.args[k], width)

\* The line behind it begins where it ends.
Follows(f, m) ==
    /\ Here(pc) = m /\ pc < header.dataStart
    /\ Behind(f) \in Nat /\ Begins(m + 1, Behind(f))
    /\ f.mn[1] = "CALL" => Behind(f) = pc + 5

LEMMA OperandKept ==
  ASSUME Numbered, NEW mn, NEW k, NEW a, Arrives(header.mode, mn, k),
         Fits(Fields(header.mode, mn)[k], a)
  PROVE  Operand(mn, k, EvaluateArgument(a, Fields(header.mode, mn)[k])) =
         EvaluateArgument(a, Fields(header.mode, mn)[k])
<1> DEFINE width == Fields(header.mode, mn)[k]
           v == EvaluateArgument(a, width)
<1>1. Operand(mn, k, v) = IF width = 1 THEN v % 256 ELSE v
  BY DEF Operand
<1> HIDE DEF width
<1>2. CASE width = 1
  <2>1. Fits(1, a) /\ v = EvaluateArgument(a, 1)
    BY <1>2 DEF width
  <2>2. v \in 0 .. 255
    BY <2>1, OneByte
  <2> HIDE DEF v
  <2>3. v % 256 = v
    BY <2>2
  <2> QED
    BY <1>1, <1>2, <2>3, Zenon DEF v, width
<1>3. CASE width # 1
  BY <1>1, <1>3, Zenon DEF v, width
<1> QED
  BY <1>2, <1>3

\* What begins there is a line.
LEMMA ChunkSpot ==
  ASSUME FileOK, NEW n \in DOMAIN out
  PROVE  Spot(out[n].at)
<1> DEFINE a == out[n].at
           k == out[n].line
<1>1. n \in Nat \ {0} /\ k \in Nat \ {0} /\ a \in Nat /\ out[n].size \in Nat \ {0}
  BY ChunkFacts
<1>2. ASSUME NEW j \in DOMAIN out
      PROVE  IF out[j].line < k THEN out[j].at + out[j].size <= a ELSE a <= out[j].at
  <2>1. j \in Nat \ {0} /\ out[j].line \in Nat /\ out[j].at \in Nat /\ out[j].size \in Nat
    BY ChunkFacts
  <2>2. CASE j = n
    BY <1>1, <2>2
  <2>3. CASE j < n
    <3>1. out[j].line < k /\ out[j].at + out[j].size <= a
      BY <2>3, ChunkOrder
    <3> QED
      BY <3>1
  <2>4. CASE n < j
    <3>1. k < out[j].line /\ a + out[n].size <= out[j].at
      BY <2>4, ChunkOrder
    <3> QED
      BY <1>1, <2>1, <3>1
  <2> QED
    BY <1>1, <2>1, <2>2, <2>3, <2>4
<1> HIDE DEF a, k
<1>3. Begins(k, a)
  BY <1>2 DEF Begins
<1> QED
  BY <1>1, <1>3 DEF Spot, a

LEMMA Fetch ==
  ASSUME Made, NEW f \in Fetched
  PROVE  /\ vm = "run" /\ f = [mn |-> f.mn, line |-> f.line, args |-> f.args]
         /\ \E m : ReadFrom(f, m) /\ Follows(f, m)
<1>1. FileOK /\ Numbered /\ header.dataStart \in Nat
  BY FileMade DEF Made, AsmInv, FileOK
<1>2. PICK n \in Chunks(pc) :
        /\ vm = "run" /\ BeforeEnd /\ out[n].opcode >= 0
        /\ f = [mn |-> Meant(header.mode, out[n].opcode), line |-> out[n].line,
                args |-> [k \in DOMAIN out[n].args |->
                            Operand(Meant(header.mode, out[n].opcode), k, out[n].args[k])]]
  BY DEF Fetched
<1>3. n \in DOMAIN out /\ out[n].at = pc
  BY DEF Chunks
<1>4. pc < header.dataStart
  <2>1. header.dataStart # NoData
    BY <1>1 DEF NoData
  <2> QED
    BY <1>2, <2>1 DEF BeforeEnd
<1> DEFINE m == out[n].line
           w == src[m].what
<1>5a. Spot(pc)
  BY <1>1, <1>3, ChunkSpot
<1>5. PICK k \in Nat : Begins(k, pc)
  BY <1>5a DEF Spot
<1>6. PICK i \in DOMAIN out :
        /\ out[i].at = pc /\ out[i].line = Here(pc) /\ Cut(k, i - 1)
        /\ src[out[i].line].what.op = "instr"
  BY <1>4, <1>5, <1>5a, NextHere DEF Spot
<1>7. i = n
  <2>1. Chunks(out[i].at) = {i}
    BY <1>1, ChunkOne
  <2> QED
    BY <1>6, <2>1
<1>8. /\ m \in DOMAIN src /\ m \in Nat \ {0} /\ pc \in Nat /\ n \in Nat \ {0}
      /\ out[n].size \in Nat \ {0}
  BY <1>1, <1>3, ChunkFacts
<1>9. /\ SoundInstr(header.mode, w) /\ Meant(header.mode, out[n].opcode) = w.mn
      /\ out[n].size = Step(header.mode, w.mn)
      /\ w.mn[1] = "CALL" => out[n].size = 5
      /\ ~Unresolved(w) /\ DOMAIN out[n].args = DOMAIN w.args
      /\ \A j \in DOMAIN w.args :
           /\ out[n].args[j] = EvaluateArgument(w.args[j], Fields(header.mode, w.mn)[j])
           /\ Arrives(header.mode, w.mn, j) /\ Fits(Fields(header.mode, w.mn)[j], w.args[j])
  BY <1>3, <1>6, <1>7, InstrMade
<1>10. /\ f.mn = w.mn /\ f.line = m /\ DOMAIN f.args = DOMAIN w.args
       /\ \A j \in DOMAIN w.args : f.args[j] = Operand(w.mn, j, out[n].args[j])
       /\ f = [mn |-> f.mn, line |-> f.line, args |-> f.args]
  BY <1>2, <1>9
<1>11. ReadFrom(f, m)
  <2>1. ASSUME NEW j \in DOMAIN w.args
        PROVE  \E width : /\ Fits(width, w.args[j])
                          /\ f.args[j] = EvaluateArgument(w.args[j], width)
    <3> DEFINE v == EvaluateArgument(w.args[j], Fields(header.mode, w.mn)[j])
    <3>0. Operand(w.mn, j, v) = v
      BY <1>1, <1>9, OperandKept, ZenonT(30)
    <3>1. f.args[j] = v
      <4>1. out[n].args[j] = v /\ f.args[j] = Operand(w.mn, j, out[n].args[j])
        BY <1>9, <1>10, Zenon
      <4> QED
        BY <3>0, <4>1, Zenon
    <3> QED
      BY <1>9, <3>1
  <2> QED
    BY <1>6, <1>7, <1>8, <1>9, <1>10, <2>1 DEF ReadFrom
<1>12. Behind(f) = pc + out[n].size
  BY <1>9, <1>10 DEF Behind
<1>13. Begins(m + 1, pc + out[n].size)
  <2> SUFFICES ASSUME NEW j \in DOMAIN out
               PROVE  IF out[j].line < m + 1 THEN out[j].at + out[j].size <= pc + out[n].size
                      ELSE pc + out[n].size <= out[j].at
    BY DEF Begins
  <2>1. j \in Nat \ {0} /\ out[j].line \in Nat /\ out[j].at \in Nat /\ out[j].size \in Nat
    BY <1>1, ChunkFacts
  <2>2. CASE j = n
    BY <1>3, <1>8, <2>1, <2>2
  <2>3. CASE j < n
    <3>1. out[j].line < m /\ out[j].at + out[j].size <= out[n].at
      BY <1>1, <1>3, <2>3, ChunkOrder
    <3> QED
      BY <1>3, <1>8, <2>1, <3>1
  <2>4. CASE n < j
    <3>1. m < out[j].line /\ out[n].at + out[n].size <= out[j].at
      BY <1>1, <1>3, <2>4, ChunkOrder
    <3> QED
      BY <1>3, <1>8, <2>1, <3>1
  <2> QED
    BY <1>8, <2>1, <2>2, <2>3, <2>4
<1>14. Follows(f, m)
  <2>1. pc + out[n].size \in Nat
    BY <1>8
  <2>2. f.mn[1] = "CALL" => pc + out[n].size = pc + 5
    BY <1>9, <1>10
  <2> QED
    BY <1>4, <1>6, <1>7, <1>12, <1>13, <2>1, <2>2 DEF Follows
<1> QED
  BY <1>2, <1>10, <1>11, <1>14

----------------------------------------------------------------------------
(* What it does, in the terms of the source.                               *)

\* AbsDid, of any instruction.
Shown(f, k) ==
    IF src[f.line].what.args[k].sym \in DOMAIN Preloaded \cup {""} THEN f.args[k]
    ELSE LineAt(Undone(src[f.line].what.args[k], f.args[k]))
DidOf(f) == [mn |-> f.mn, args |-> [k \in DOMAIN f.args |-> Shown(f, k)]]

\* x is the label of some line.
IsNamed(x) == \E n \in DOMAIN src : HasLabel(n) /\ src[n].label = x

LEMMA LabelNamed ==
  ASSUME Made, NEW x, IsLabel(x)
  PROVE  IsNamed(x)
<1>1. Named /\ ReadLines = DOMAIN src
  BY MadeMode DEF Made, AsmInv, Faultless
<1>2. PICK n \in DOMAIN src : src[n].label = x
  BY <1>1 DEF Named, IsLabel
<1>3. HasLabel(n)
  BY <1>2 DEF HasLabel, IsLabel
<1> QED
  BY <1>2, <1>3 DEF IsNamed

\* Where it leads.
LEMMA NamedHere ==
  ASSUME Made, NEW x, IsNamed(x)
  PROVE  /\ Spot(labels[x]) /\ Here(labels[x]) = Abs!Goto(x) /\ x \in Abs!Symbols
         /\ LineAt(labels[x]) = Abs!LineOf(x)
         /\ \E n \in DOMAIN src : Abs!Labelled(x) = {n}
<1>1. PICK n \in DOMAIN src : HasLabel(n) /\ src[n].label = x
  BY DEF IsNamed
<1>2. /\ labels[x] \in Nat /\ n \in Nat /\ Begins(n, labels[x])
      /\ Abs!Labelled(x) = {n} /\ LineAt(labels[x]) = Abs!LineOf(x)
      /\ Here(labels[x]) = Abs!Goto(x)
  BY <1>1, LabelHere
<1>3. x \in Abs!Symbols
  BY <1>1 DEF Abs!Symbols, HasLabel
<1> QED
  BY <1>2, <1>3 DEF Spot

LEMMA ArgumentShown ==
  ASSUME Made, NEW f, NEW m, ReadFrom(f, m), NEW k \in DOMAIN f.args
  PROVE  /\ Shown(f, k) = Abs!Operand(src[m].what, k)
         /\ \/ src[m].what.args[k].sym \in DOMAIN Preloaded \cup {""}
            \/ /\ IsNamed(src[m].what.args[k].sym)
               /\ src[m].what.args[k].op = "" =>
                    f.args[k] = labels[src[m].what.args[k].sym]
<1> DEFINE w == src[m].what
           a == w.args[k]
<1>1. Numbered /\ f.line = m /\ k \in DOMAIN w.args /\ ~Unresolved(w)
  BY DEF Made, AsmInv, ReadFrom
<1>2. PICK width : Fits(width, a) /\ f.args[k] = EvaluateArgument(a, width)
  BY DEF ReadFrom
<1>3. CASE a.sym = ""
  <2>1. EvaluateArgument(a, width) = a.num
    BY <1>3 DEF EvaluateArgument
  <2>2. Shown(f, k) = f.args[k]
    BY <1>1, <1>3 DEF Shown
  <2>3. Abs!Operand(w, k) = a.num
    <3>1. a.sym \notin DOMAIN Preloaded
      BY <1>3, NoEmptyName
    <3> QED
      BY <1>3, <3>1 DEF Abs!Operand
  <2> QED
    BY <1>2, <1>3, <2>1, <2>2, <2>3
<1>4. CASE a.sym \in DOMAIN Preloaded
  <2>1. a.sym # "" /\ a.sym \in DOMAIN labels /\ labels[a.sym] = Preloaded[a.sym]
    BY <1>1, <1>4, NoEmptyName DEF Numbered
  <2>2. a.op = ""
    BY <1>2, <1>4, <2>1, Zenon DEF Fits
  <2>3. EvaluateArgument(a, width) = Preloaded[a.sym]
    BY <2>1, <2>2 DEF EvaluateArgument
  <2>4. Shown(f, k) = f.args[k]
    BY <1>1, <1>4 DEF Shown
  <2>5. Abs!Operand(w, k) = Preloaded[a.sym]
    BY <1>4, <2>1 DEF Abs!Operand
  <2> QED
    BY <1>2, <1>4, <2>3, <2>4, <2>5
<1>5. CASE a.sym # "" /\ a.sym \notin DOMAIN Preloaded
  <2>1. IsLabel(a.sym)
    BY <1>1, <1>5 DEF IsLabel, Unresolved
  <2>2. /\ Undone(a, f.args[k]) = labels[a.sym]
        /\ a.op = "" => f.args[k] = labels[a.sym]
    BY <1>1, <1>2, <2>1, Undoes
  <2>3. IsNamed(a.sym)
    BY <2>1, LabelNamed
  <2>4. LineAt(labels[a.sym]) = Abs!LineOf(a.sym)
    BY <2>3, NamedHere
  <2>5. Shown(f, k) = LineAt(labels[a.sym])
    BY <1>1, <1>5, <2>2 DEF Shown
  <2>6. Abs!Operand(w, k) = Abs!LineOf(a.sym)
    BY <1>5 DEF Abs!Operand
  <2> QED
    BY <2>2, <2>3, <2>4, <2>5, <2>6
<1> QED
  BY <1>3, <1>4, <1>5

LEMMA DidShown ==
  ASSUME Made, NEW f, NEW m, ReadFrom(f, m)
  PROVE  /\ DidOf(f) = [mn |-> src[m].what.mn,
                        args |-> [k \in DOMAIN src[m].what.args |->
                                    Abs!Operand(src[m].what, k)]]
         /\ Abs!Clear(src[m].what)
<1>1. f.mn = src[m].what.mn /\ DOMAIN f.args = DOMAIN src[m].what.args
  BY DEF ReadFrom
<1>2. \A k \in DOMAIN f.args : Shown(f, k) = Abs!Operand(src[m].what, k)
  BY ArgumentShown, ZenonT(30)
<1>3. DidOf(f) = [mn |-> src[m].what.mn,
                  args |-> [k \in DOMAIN src[m].what.args |->
                              Abs!Operand(src[m].what, k)]]
  BY <1>1, <1>2 DEF DidOf
<1>4. ASSUME NEW k \in DOMAIN src[m].what.args
      PROVE  \/ src[m].what.args[k].sym \in DOMAIN Preloaded \cup {""}
             \/ \E n \in DOMAIN src : Abs!Labelled(src[m].what.args[k].sym) = {n}
  BY <1>1, ArgumentShown, NamedHere
<1> QED
  BY <1>3, <1>4 DEF Abs!Clear

\* The operand of a jump is the address of the line it names.
Direct == {"JMP", "BRZ", "BRNZ", "CALL"}

LEMMA Target ==
  ASSUME Made, NEW f, NEW m, ReadFrom(f, m), f.mn[1] \in Direct
  PROVE  /\ Spot(f.args[1])
         /\ Here(f.args[1]) = Abs!Goto(src[m].what.args[1].sym)
<1> DEFINE a == src[m].what.args[1]
<1>1. /\ 1 \in DOMAIN src[m].what.args /\ a.op = ""
      /\ a.sym \notin DOMAIN Preloaded \cup {""}
  BY DEF ReadFrom, SoundInstr, Direct
<1>2. 1 \in DOMAIN f.args
  BY <1>1 DEF ReadFrom
<1>3. \/ a.sym \in DOMAIN Preloaded \cup {""}
      \/ IsNamed(a.sym) /\ (a.op = "" => f.args[1] = labels[a.sym])
  <2>1. \A k \in DOMAIN f.args :
          \/ src[m].what.args[k].sym \in DOMAIN Preloaded \cup {""}
          \/ /\ IsNamed(src[m].what.args[k].sym)
             /\ src[m].what.args[k].op = "" =>
                  f.args[k] = labels[src[m].what.args[k].sym]
    BY ArgumentShown, ZenonT(30)
  <2> QED
    BY <1>2, <2>1
<1>4. IsNamed(a.sym) /\ f.args[1] = labels[a.sym]
  BY <1>1, <1>3
<1> QED
  BY <1>4, NamedHere

----------------------------------------------------------------------------
(* Calls that wait, as lines.                                              *)

MapCalls(cs) == [n \in DOMAIN cs |-> Here(cs[n])]

LEMMA MapAppend ==
  ASSUME NEW cs \in Seq(Nat), NEW b \in Nat
  PROVE  MapCalls(Append(cs, b)) = Append(MapCalls(cs), Here(b))
<1> DEFINE T == {Here(a) : a \in Nat}
           more == Append(cs, b)
<1>1. MapCalls(cs) \in Seq(T) /\ Len(MapCalls(cs)) = Len(cs) /\ DOMAIN cs = 1 .. Len(cs)
  <2>1. DOMAIN cs = 1 .. Len(cs) /\ Len(cs) \in Nat /\ \A n \in DOMAIN cs : cs[n] \in Nat
    BY LenProperties, ElementOfSeq
  <2>2. MapCalls(cs) = [n \in 1 .. Len(cs) |-> Here(cs[n])]
    BY <2>1 DEF MapCalls
  <2>3. \A n \in 1 .. Len(cs) : Here(cs[n]) \in T
    BY <2>1
  <2> HIDE DEF T
  <2>4. MapCalls(cs) \in [1 .. Len(cs) -> T]
    BY <2>2, <2>3
  <2> QED
    BY <2>1, <2>4, SeqDef, LenProperties
<1>2. /\ more \in Seq(Nat) /\ Len(more) = Len(cs) + 1 /\ more[Len(cs) + 1] = b
      /\ \A i \in 1 .. Len(cs) : more[i] = cs[i]
  BY AppendProperties
<1>3. DOMAIN more = 1 .. Len(cs) + 1 /\ Len(cs) \in Nat
  BY <1>2, LenProperties
<1>4. Here(b) \in T
  OBVIOUS
<1> HIDE DEF T, more
<1>5. /\ Append(MapCalls(cs), Here(b)) \in Seq(T)
      /\ Len(Append(MapCalls(cs), Here(b))) = Len(cs) + 1
      /\ Append(MapCalls(cs), Here(b))[Len(cs) + 1] = Here(b)
      /\ \A i \in 1 .. Len(cs) : Append(MapCalls(cs), Here(b))[i] = MapCalls(cs)[i]
  BY <1>1, <1>4, AppendProperties
<1>6. Append(MapCalls(cs), Here(b)) \in [1 .. Len(cs) + 1 -> T]
  <2>1. Append(MapCalls(cs), Here(b)) \in
          [1 .. Len(Append(MapCalls(cs), Here(b))) -> T]
    BY <1>5, LenProperties
  <2> QED
    BY <1>5, <2>1
<1>7. ASSUME NEW i \in 1 .. Len(cs) + 1
      PROVE  MapCalls(more)[i] = Append(MapCalls(cs), Here(b))[i]
  <2>1. MapCalls(more)[i] = Here(more[i])
    BY <1>3 DEF MapCalls
  <2>2. CASE i = Len(cs) + 1
    BY <1>2, <1>5, <2>1, <2>2
  <2>3. CASE i \in 1 .. Len(cs)
    BY <1>1, <1>2, <1>5, <2>1, <2>3 DEF MapCalls
  <2>4. i = Len(cs) + 1 \/ i \in 1 .. Len(cs)
    <3>1. Len(cs) \in Nat
      BY <1>3
    <3> QED
      BY <3>1
  <2> QED
    BY <2>2, <2>3, <2>4, Zenon
<1>8. MapCalls(more) = [i \in 1 .. Len(cs) + 1 |-> Here(more[i])]
  BY <1>3 DEF MapCalls
<1> QED
  BY <1>6, <1>7, <1>8 DEF more

LEMMA MapReturn ==
  ASSUME NEW cs \in Seq(Nat), cs # <<>>
  PROVE  /\ MapCalls(cs) # <<>> /\ Last(cs) \in Nat /\ Front(cs) \in Seq(Nat)
         /\ Len(cs) \in DOMAIN cs /\ Last(cs) = cs[Len(cs)]
         /\ \A n \in DOMAIN Front(cs) : n \in DOMAIN cs /\ Front(cs)[n] = cs[n]
         /\ Abs!Last(MapCalls(cs)) = Here(Last(cs))
         /\ Abs!Front(MapCalls(cs)) = MapCalls(Front(cs))
<1> DEFINE T == {Here(a) : a \in Nat}
<1>1. /\ DOMAIN cs = 1 .. Len(cs) /\ Len(cs) \in Nat \ {0}
      /\ \A n \in DOMAIN cs : cs[n] \in Nat
  <2>1. DOMAIN cs = 1 .. Len(cs) /\ Len(cs) \in Nat /\ \A n \in DOMAIN cs : cs[n] \in Nat
    BY LenProperties, ElementOfSeq
  <2>2. Len(cs) # 0
    BY EmptySeq
  <2> QED
    BY <2>1, <2>2
<1>2. MapCalls(cs) \in Seq(T) /\ Len(MapCalls(cs)) = Len(cs)
  <2>1. MapCalls(cs) = [n \in 1 .. Len(cs) |-> Here(cs[n])]
    BY <1>1 DEF MapCalls
  <2>2. \A n \in 1 .. Len(cs) : Here(cs[n]) \in T
    BY <1>1
  <2> HIDE DEF T
  <2>3. MapCalls(cs) \in [1 .. Len(cs) -> T]
    BY <2>1, <2>2
  <2> QED
    BY <1>1, <2>3, SeqDef, LenProperties
<1> HIDE DEF T
<1>3. MapCalls(cs) # <<>>
  BY <1>1, <1>2, EmptySeq
<1>4. Last(cs) = cs[Len(cs)] /\ Last(cs) \in Nat /\ Len(cs) \in DOMAIN cs
  BY <1>1 DEF Last
<1>5. Abs!Last(MapCalls(cs)) = Here(Last(cs))
  BY <1>1, <1>2, <1>4 DEF Abs!Last, MapCalls
<1>6. /\ Front(cs) = [n \in 1 .. Len(cs) - 1 |-> cs[n]]
      /\ Abs!Front(MapCalls(cs)) = [n \in 1 .. Len(cs) - 1 |-> MapCalls(cs)[n]]
  BY <1>1, <1>2 DEF Front, Abs!Front, SubSeq
<1>7. \A n \in 1 .. Len(cs) - 1 : n \in DOMAIN cs
  BY <1>1
<1>8. Front(cs) \in Seq(Nat)
  <2>1. Front(cs) \in [1 .. Len(cs) - 1 -> Nat] /\ Len(cs) - 1 \in Nat
    BY <1>1, <1>6, <1>7
  <2> QED
    BY <2>1, SeqDef
<1>9. Abs!Front(MapCalls(cs)) = MapCalls(Front(cs))
  BY <1>6, <1>7 DEF MapCalls
<1>10. \A n \in DOMAIN Front(cs) : n \in DOMAIN cs /\ Front(cs)[n] = cs[n]
  BY <1>6, <1>7
<1> QED
  BY <1>3, <1>4, <1>5, <1>8, <1>9, <1>10, Zenon

----------------------------------------------------------------------------
(* The invariant of the tools.                                             *)

\* Where a line begins, or where a RET in main leads.
Reached(a) == Spot(a) \/ a = FACE

ToolInv ==
    /\ AsmInv
    /\ vm \in {"off", "refused", "run", "ended"} /\ pc \in Nat /\ calls \in Seq(Nat)
    /\ vm \in {"off", "refused"} => pc = 0 /\ calls = <<>> /\ did = Quiet
    /\ vm # "off" => Made /\ Assembled
    /\ vm = "run" => Reached(pc)
    /\ \A n \in DOMAIN calls : Spot(calls[n])

\* The VM has a file of an assembly that has failed, or could have. The assembler
\* is through with it.
Lost ==
    /\ AsmInv \/ Emptied
    /\ phase \in {"empty", "cut", "done"} /\ ~Assembled
    /\ vm \in {"off", "refused", "run", "ended"}

ToolsInv == ToolInv \/ Lost

\* Nothing of the program changes when it is executed.
LEMMA Unmoved ==
  ASSUME UNCHANGED vars
  PROVE  /\ src' = src /\ (AsmInv => AsmInv') /\ (Made => Made')
         /\ (Assembled => Assembled') /\ (Assembled' => Assembled)
         /\ \A a : Spot(a) => a \in Nat /\ \E k \in Nat : Begins(k, a)'
<1>1. AsmInv => AsmInv'
  BY AsmEnds
<1>2. src' = src /\ phase' = phase /\ failed' = failed /\ out' = out /\ addr' = addr
  BY DEF vars
<1>2a. (Assembled => Assembled') /\ (Assembled' => Assembled)
  BY <1>2 DEF Assembled, Result
<1>3. Made => Made'
  BY <1>1, <1>2 DEF Made
<1>4. ASSUME NEW a, Spot(a)
      PROVE  a \in Nat /\ \E k \in Nat : Begins(k, a)'
  BY <1>2, <1>4 DEF Spot, Begins
<1> QED
  BY <1>1, <1>2, <1>2a, <1>3, <1>4

\* Where an instruction leaves the interpreter.
StepsTo(cs) ==
    /\ UNCHANGED vars /\ cs \in Seq(Nat) /\ calls' = cs
    /\ vm' \in {"run", "ended"} /\ Reached(pc')
    /\ \A n \in DOMAIN cs : Spot(cs[n])

LEMMA StepInv ==
  ASSUME ToolInv, vm # "off", NEW cs, StepsTo(cs)
  PROVE  ToolInv'
<1>1. UNCHANGED vars /\ pc' \in Nat /\ calls' = cs /\ vm' \in {"run", "ended"}
  BY DEF StepsTo, Reached, Spot, FACE
<1>2. Made' /\ AsmInv' /\ Assembled'
  BY <1>1, Unmoved DEF ToolInv
<1>3. Reached(pc)'
  <2>1. out' = out
    BY <1>1 DEF vars
  <2> QED
    BY <2>1 DEF StepsTo, Reached, Spot, Begins, FACE
<1>4. \A n \in DOMAIN calls' : Spot(calls[n])'
  <2>1. out' = out
    BY <1>1 DEF vars
  <2>2. \A n \in DOMAIN calls' : Spot(calls'[n])
    BY <1>1 DEF StepsTo
  <2> QED
    BY <2>1, <2>2 DEF Spot, Begins
<1>5. calls' \in Seq(Nat)
  BY <1>1 DEF StepsTo
<1>6. vm' \notin {"off", "refused"} /\ vm' \in {"off", "refused", "run", "ended"}
  BY <1>1
<1> QED
  BY <1>1, <1>2, <1>3, <1>4, <1>5, <1>6 DEF ToolInv

Instruction(f) ==
    \/ Jump(f) \/ Branch(f) \/ JumpThrough(f) \/ BranchThrough(f)
    \/ Call(f) \/ Return(f) \/ MainReturns(f) \/ Exit(f) \/ Proceed(f)

\* Any address of a label is where a line begins.
LEMMA AddressHere ==
  ASSUME Made, NEW a \in Addresses
  PROVE  Spot(a) /\ \E x \in Abs!Symbols : Here(a) = Abs!Goto(x)
<1>1. PICK x \in DOMAIN labels \ DOMAIN Preloaded : a = labels[x]
  BY DEF Addresses
<1>2. IsLabel(x)
  BY <1>1 DEF IsLabel, Made, AsmInv, IInv
<1>3. IsNamed(x)
  BY <1>2, LabelNamed
<1> QED
  BY <1>1, <1>3, NamedHere

\* Behind an instruction begins the next one of the source.
LEMMA BehindHere ==
  ASSUME Made, NEW f, NEW m, ReadFrom(f, m), Follows(f, m)
  PROVE  Spot(Behind(f)) /\ Here(Behind(f)) = Abs!NextCode(m + 1)
<1>1. m + 1 \in Nat /\ Behind(f) \in Nat /\ Begins(m + 1, Behind(f))
  BY DEF ReadFrom, Follows
<1> QED
  BY <1>1, NextHere DEF Spot

LEMMA InstructionSteps ==
  ASSUME ToolInv, NEW f \in Fetched, Instruction(f)
  PROVE  StepsTo(calls') /\ Made /\ vm = "run"
<1>1. vm = "run"
  BY DEF Fetched
<1>2. Made /\ Reached(pc) /\ calls \in Seq(Nat) /\ \A n \in DOMAIN calls : Spot(calls[n])
  BY <1>1 DEF ToolInv
<1>3. PICK m : ReadFrom(f, m) /\ Follows(f, m)
  BY <1>2, Fetch
<1>4. UNCHANGED vars
  BY DEF Instruction, Jump, Branch, JumpThrough, BranchThrough, Call, Return, MainReturns,
     Exit, Proceed, Executes
<1>5. Spot(Behind(f))
  BY <1>2, <1>3, BehindHere
<1>6. f.mn[1] \in Direct => Spot(f.args[1])
  BY <1>2, <1>3, Target
<1>7. CASE UNCHANGED calls /\ UNCHANGED vm /\ Reached(pc')
  BY <1>1, <1>2, <1>4, <1>7 DEF StepsTo
<1>8. CASE Jump(f) \/ Branch(f) \/ JumpThrough(f) \/ BranchThrough(f) \/ Proceed(f)
  <2>1. UNCHANGED calls /\ UNCHANGED vm
    BY <1>8 DEF Jump, Branch, JumpThrough, BranchThrough, Proceed
  <2>2. \/ pc' = Behind(f)
        \/ pc' \in Addresses
        \/ f.mn[1] \in Direct /\ pc' = f.args[1]
    BY <1>8 DEF Jump, Branch, JumpThrough, BranchThrough, Proceed, Direct
  <2>3. Spot(pc')
    <3>1. \A a \in Addresses : Spot(a)
      BY <1>2, AddressHere
    <3> QED
      BY <1>5, <1>6, <2>2, <3>1
  <2> QED
    BY <1>7, <2>1, <2>3 DEF Reached
<1>9. CASE Call(f)
  <2>1. f.mn[1] = "CALL" /\ pc' = f.args[1] /\ calls' = Append(calls, pc + 5) /\ vm' = vm
    BY <1>9 DEF Call
  <2>2. Spot(pc') /\ Spot(pc + 5) /\ pc + 5 \in Nat
    <3>1. pc + 5 = Behind(f)
      BY <1>3, <2>1 DEF Follows
    <3>2. f.mn[1] \in Direct
      BY <2>1 DEF Direct
    <3> QED
      BY <1>5, <1>6, <2>1, <3>1, <3>2 DEF Spot
  <2>3. /\ calls' \in Seq(Nat) /\ Len(calls') = Len(calls) + 1 /\ Len(calls) \in Nat
        /\ calls'[Len(calls) + 1] = pc + 5
        /\ \A i \in 1 .. Len(calls) : calls'[i] = calls[i]
        /\ DOMAIN calls' = 1 .. Len(calls') /\ DOMAIN calls = 1 .. Len(calls)
    BY <1>2, <2>1, <2>2, AppendProperties, LenProperties
  <2>4. \A n \in DOMAIN calls' : n \in DOMAIN calls \/ n = Len(calls) + 1
    BY <2>3
  <2>5. \A n \in DOMAIN calls' : Spot(calls'[n])
    BY <1>2, <2>2, <2>3, <2>4
  <2> QED
    BY <1>1, <1>2, <1>4, <2>1, <2>2, <2>3, <2>5 DEF StepsTo, Reached
<1>10. CASE Return(f)
  <2>1. calls # <<>> /\ pc' = Last(calls) /\ calls' = Front(calls) /\ vm' = vm
    BY <1>10 DEF Return
  <2>2. /\ calls' \in Seq(Nat) /\ Len(calls) \in DOMAIN calls /\ pc' = calls[Len(calls)]
        /\ \A n \in DOMAIN calls' : n \in DOMAIN calls /\ calls'[n] = calls[n]
    BY <1>2, <2>1, MapReturn
  <2>3. Spot(pc') /\ \A n \in DOMAIN calls' : Spot(calls'[n])
    BY <1>2, <2>2
  <2>4. StepsTo(calls')
    BY <1>1, <1>4, <2>1, <2>2, <2>3 DEF StepsTo, Reached
  <2> QED
    BY <1>1, <1>2, <2>4
<1>10a. CASE MainReturns(f)
  <2>1. calls' = calls /\ vm' = vm /\ pc' = FACE
    BY <1>10a DEF MainReturns
  <2> QED
    BY <1>7, <2>1 DEF Reached
<1>11. CASE Exit(f)
  <2>1. vm' = "ended" /\ pc' = pc /\ calls' = calls
    BY <1>11 DEF Exit
  <2>2. Reached(pc') /\ calls' \in Seq(Nat) /\ \A n \in DOMAIN calls' : Spot(calls'[n])
    BY <1>2, <2>1, Zenon
  <2>3. vm' \in {"run", "ended"}
    BY <2>1
  <2>4. StepsTo(calls')
    BY <1>4, <2>1, <2>2, <2>3 DEF StepsTo
  <2> QED
    BY <1>1, <1>2, <2>4
<1>12. \/ Jump(f) \/ Branch(f) \/ JumpThrough(f) \/ BranchThrough(f) \/ Proceed(f)
       \/ Call(f) \/ Return(f) \/ MainReturns(f) \/ Exit(f)
  BY DEF Instruction
<1> QED
  BY <1>8, <1>9, <1>10, <1>10a, <1>11, <1>12, Zenon

LEMMA ToolStarts ==
  ASSUME \A s \in Sources : Clean(s), ToolInit
  PROVE  ToolInv
<1>1. AsmInv
  BY AsmInit DEF ToolInit
<1>2. vm = "off" /\ pc = 0 /\ calls = <<>> /\ did = Quiet
  BY DEF ToolInit
<1>3. calls \in Seq(Nat) /\ DOMAIN calls = {}
  BY <1>2
<1> QED
  BY <1>1, <1>2, <1>3 DEF ToolInv

\* The program begins with the first line of its code.
LEMMA StartHere ==
  ASSUME Made
  PROVE  Spot(0) /\ Here(0) = Abs!NextCode(1)
<1>1. FileOK
  BY FileMade
<1>2. \A n \in DOMAIN out : out[n].line \in Nat \ {0} /\ out[n].at \in Nat
  BY <1>1, ChunkFacts
<1>3. Begins(1, 0)
  BY <1>2 DEF Begins
<1> QED
  BY <1>3, NextHere DEF Spot

\* The VM leaves the work of the assembler alone, and the assembler that of the VM.
LEMMA AsmOnly ==
  ASSUME ToolInv, Next
  PROVE  vm = "off"
<1>1. phase \in {"first", "second"}
  BY DEF Next, FirstPassReadLine, FirstPassFails, FirstPassEnds, AssembleData, AssembleInstr,
     AssemblyFails, SecondPassEnds
<1> QED
  BY <1>1 DEF ToolInv, Made

LEMMA ReadMade ==
  ASSUME ToolInv, ReadProgram, Assembled
  PROVE  Made /\ UNCHANGED vars /\ pc = 0 /\ calls = <<>>
<1>1. phase = "done" /\ ~failed
  BY DEF Assembled, Result
<1> QED
  BY <1>1 DEF ReadProgram, ToolInv, Made

\* What happens to a file of a failed assembly happens in the VM.
LEMMA LostStays ==
  ASSUME Lost, [ToolNext]_toolVars
  PROVE  Lost' /\ UNCHANGED vars
<1>1. ~Next
  BY DEF Lost, Next, FirstPassReadLine, FirstPassFails, FirstPassEnds, AssembleData,
     AssembleInstr, AssemblyFails, SecondPassEnds
<1>2. /\ UNCHANGED vars
      /\ vm' = vm \/ vm' \in {"refused", "run", "ended"}
  BY <1>1 DEF ToolNext, toolVars, ReadProgram, LoopEnds, Jump, Branch, JumpThrough,
     BranchThrough, Call, Return, MainReturns, Exit, Proceed, Executes
<1>3. AsmInv' \/ Emptied'
  BY <1>2, AsmEnds, EmptiedStays DEF Lost
<1>4. ~Assembled' /\ phase' = phase
  BY <1>2, Unmoved DEF Lost, vars
<1> QED
  BY <1>2, <1>3, <1>4 DEF Lost

LEMMA ToolSteps ==
  ASSUME ToolInv, [ToolNext]_toolVars
  PROVE  ToolsInv'
<1>1. CASE UNCHANGED toolVars
  <2>1. UNCHANGED vars /\ vm' = vm /\ pc' = pc /\ calls' = calls /\ did' = did
    BY <1>1 DEF toolVars
  <2>2. AsmInv' /\ (Made => Made') /\ (Assembled => Assembled') /\ out' = out
    BY <2>1, Unmoved DEF ToolInv, vars
  <2> QED
    BY <2>1, <2>2 DEF ToolsInv, ToolInv, Reached, Spot, Begins, FACE
<1>1a. CASE FirstPassFails /\ UNCHANGED <<vm, pc, calls, did>>
  <2>1. Emptied' /\ vm' = vm
    BY <1>1a, AsmStops DEF ToolInv
  <2>2. ~Assembled'
    BY <2>1 DEF Assembled, Result, Emptied
  <2> QED
    BY <2>1, <2>2 DEF ToolsInv, Lost, ToolInv, Emptied
<1>2. CASE Next /\ UNCHANGED <<vm, pc, calls, did>> /\ ~FirstPassFails
  <2>1. vm = "off"
    BY <1>2, AsmOnly
  <2>2. AsmInv'
    BY <1>2, AsmNext DEF ToolInv
  <2>3. pc = 0 /\ calls = <<>> /\ did = Quiet
    BY <2>1 DEF ToolInv
  <2>4. vm' = "off" /\ pc' = 0 /\ calls' = <<>> /\ did' = Quiet
    BY <1>2, <2>1, <2>3
  <2>5. calls' \in Seq(Nat) /\ DOMAIN calls' = {}
    BY <2>4
  <2> QED
    BY <2>2, <2>4, <2>5 DEF ToolsInv, ToolInv
<1>2a. CASE ReadProgram /\ ~Assembled
  <2>1. UNCHANGED vars /\ phase \in {"empty", "cut", "done"} /\ vm' \in {"refused", "run"}
    BY <1>2a DEF ReadProgram
  <2>2. AsmInv' /\ ~Assembled' /\ phase' = phase
    BY <1>2a, <2>1, Unmoved DEF ToolInv, vars
  <2> QED
    BY <2>1, <2>2 DEF ToolsInv, Lost
<1>3. CASE ReadProgram /\ Assembled
  <2>1. Made /\ UNCHANGED vars /\ pc = 0 /\ calls = <<>>
    BY <1>3, ReadMade
  <2>2. /\ pc' = 0 /\ calls' = <<>> /\ vm' \in {"refused", "run"}
        /\ did' = did /\ did = Quiet
    BY <1>3, <2>1 DEF ReadProgram, ToolInv
  <2>3. Spot(0)
    BY <2>1, StartHere
  <2>4. AsmInv' /\ Made' /\ Assembled' /\ out' = out
    BY <1>3, <2>1, Unmoved DEF ToolInv, vars
  <2>5. Spot(0)'
    BY <2>3, <2>4 DEF Spot, Begins
  <2>6. calls' \in Seq(Nat) /\ DOMAIN calls' = {}
    BY <2>2
  <2>7. Spot(pc)'
    BY <2>2, <2>5 DEF Spot, Begins
  <2> QED
    BY <2>2, <2>4, <2>6, <2>7 DEF ToolsInv, ToolInv, Reached
<1>4. CASE LoopEnds
  <2>1. /\ UNCHANGED vars /\ vm = "run" /\ vm' = "ended" /\ pc' = pc /\ calls' = calls
    BY <1>4 DEF LoopEnds
  <2>2. Reached(pc) /\ calls \in Seq(Nat) /\ \A n \in DOMAIN calls : Spot(calls[n])
    BY <2>1 DEF ToolInv
  <2>3. Reached(pc') /\ calls' \in Seq(Nat) /\ \A n \in DOMAIN calls' : Spot(calls'[n])
    BY <2>1, <2>2, Zenon
  <2>4. vm' \in {"run", "ended"}
    BY <2>1
  <2>5. StepsTo(calls')
    BY <2>1, <2>3, <2>4 DEF StepsTo
  <2>6. vm # "off"
    BY <2>1
  <2> QED
    BY <2>5, <2>6, StepInv DEF ToolsInv
<1>5. CASE \E f \in Fetched : Instruction(f)
  <2>1. PICK f \in Fetched : Instruction(f)
    BY <1>5
  <2>2. StepsTo(calls') /\ vm = "run"
    BY <2>1, InstructionSteps
  <2>3. vm # "off"
    BY <2>2
  <2> QED
    BY <2>2, <2>3, StepInv DEF ToolsInv
<1>6. ToolNext => \/ Next /\ UNCHANGED <<vm, pc, calls, did>>
                  \/ ReadProgram \/ LoopEnds \/ \E f \in Fetched : Instruction(f)
  BY Zenon DEF ToolNext, Instruction
<1> QED
  BY <1>1, <1>1a, <1>2, <1>2a, <1>3, <1>4, <1>5, <1>6

LEMMA ToolsKeep == ToolsInv /\ [ToolNext]_toolVars => ToolsInv'
BY ToolSteps, LostStays DEF ToolsInv

----------------------------------------------------------------------------
(* What the runs check, of every program of sound sources.                 *)

\* Between two instructions of a program the VM executes, each of them read
\* whole (src/vm/stack_impl.h) and left for the next, a label or a return
\* address, it is always at the first byte of an instruction the assembler
\* (src/assembler/encoder.cpp) has written.
LEMMA AtInstruction ==
  ASSUME ToolsInv, NearData
  PROVE  InStep
<1> SUFFICES ASSUME ToolInv, vm = "run", BeforeEnd
             PROVE  Chunks(pc) # {} /\ ChunkAt(pc).opcode >= 0
  BY DEF InStep, ToolsInv, Lost
<1>0. Made /\ Reached(pc) /\ pc \in Nat
  BY DEF ToolInv
<1>2. FileOK /\ header.dataStart \in Nat
  BY <1>0, FileMade DEF FileOK
<1>3. pc < header.dataStart
  BY <1>2 DEF BeforeEnd, NoData
<1>1. Made /\ Spot(pc)
  BY <1>0, <1>2, <1>3 DEF Reached, NearData, FACE
<1>4. PICK k \in Nat : Begins(k, pc)
  BY <1>1 DEF Spot
<1>5. PICK i \in DOMAIN out : out[i].at = pc /\ src[out[i].line].what.op = "instr"
  BY <1>1, <1>3, <1>4, NextHere DEF Spot
<1>6. Chunks(pc) = {i} /\ ChunkAt(pc) = out[i]
  BY <1>2, <1>5, ChunkOne
<1>7. out[i].opcode >= 0
  BY <1>1, <1>5, InstrMade
<1> QED
  BY <1>6, <1>7

LEMMA Greatest ==
  ASSUME NEW T, T \subseteq Nat, NEW m \in T, \A n \in T : n <= m
  PROVE  Max(T) = m
<1>1. \A x \in T : (\A y \in T : x >= y) => x = m
  BY SMT
<1> QED
  BY <1>1 DEF Max

\* The last of the lines with a directive.
LEMMA LastOne ==
  ASSUME Clean(src), NEW op, \E k \in DOMAIN src : src[k].what.op = op
  PROVE  \E k \in DOMAIN src :
            /\ src[k].what.op = op /\ Declared(op) = src[k].what.kib
            /\ \A n \in DOMAIN src : src[n].what.op = op => n <= k
<1> DEFINE T == {k \in DOMAIN src : src[k].what.op = op}
           U == {Len(src) - k : k \in T}
<1>1. DOMAIN src = 1 .. Len(src) /\ Len(src) \in Nat
  BY SourceShape
<1>2. T \subseteq Nat /\ T # {} /\ \A k \in T : k <= Len(src)
  BY <1>1
<1> HIDE DEF T
<1>3. U \subseteq Nat /\ U # {}
  <2>1. ASSUME NEW k \in T
        PROVE  Len(src) - k \in Nat
    <3>1. k \in Nat /\ k <= Len(src) /\ Len(src) \in Nat
      BY <1>1, <1>2
    <3> QED
      BY <3>1
  <2> QED
    BY <1>2, <2>1
<1> HIDE DEF U
<1>4. PICK u \in U : \A v \in U : u <= v
  BY <1>3, LeastNat
<1>5. PICK k \in T : u = Len(src) - k
  BY <1>4 DEF U
<1>6. \A n \in T : n <= k
  <2> TAKE n \in T
  <2>1. Len(src) - n \in U
    BY DEF U
  <2>2. Len(src) - k <= Len(src) - n
    BY <1>4, <1>5, <2>1
  <2>3. k \in Nat /\ n \in Nat
    BY <1>2
  <2> QED
    BY <1>1, <2>2, <2>3
<1>7. Max(T) = k
  BY <1>2, <1>5, <1>6, Greatest
<1>8. Declared(op) = src[k].what.kib
  BY <1>7 DEF Declared, T
<1> QED
  BY <1>5, <1>6, <1>8 DEF T

\* The sizes the VM reads are those the source declares.
LEMMA HeaderSizes ==
  ASSUME Made, SoundSizes(src)
  PROVE  /\ header.heap = Declared("heap") /\ header.heap_max = Declared("heap_max")
         /\ InBytes(header.heap) = header.heap
         /\ InBytes(header.heap_max) = header.heap_max
<1>1. Clean(src) /\ SizesRead /\ ReadLines = DOMAIN src
  BY MadeMode DEF Made, AsmInv, Faultless
<1>2. PICK k \in DOMAIN src :
        /\ src[k].what.op = "heap" /\ Declared("heap") = src[k].what.kib
        /\ \A n \in DOMAIN src : src[n].what.op = "heap" => n <= k
  BY <1>1, LastOne DEF SoundSizes
<1>3. PICK m \in DOMAIN src :
        /\ src[m].what.op = "heap_max" /\ Declared("heap_max") = src[m].what.kib
        /\ \A n \in DOMAIN src : src[n].what.op = "heap_max" => n <= m
  BY <1>1, LastOne DEF SoundSizes
<1>4. header.heap = src[k].what.kib /\ header.heap_max = src[m].what.kib
  BY <1>1, <1>2, <1>3 DEF SizesRead, LastRead
<1>5. src[k].what.kib \in 0 .. 2^22 - 1 /\ src[m].what.kib \in 0 .. 2^22 - 1
  BY <1>2, <1>3 DEF SoundSizes
<1>6. \A x \in 0 .. 2^22 - 1 : InBytes(x) = x
  BY DEF InBytes
<1> QED
  BY <1>2, <1>3, <1>4, <1>5, <1>6

LEMMA SourceStays ==
  ASSUME [ToolNext]_toolVars
  PROVE  src' = src
<1>1. Next => src' = src
  BY DEF Next, FirstPassReadLine, FirstPassFails, FirstPassEnds, AssembleData, AssembleInstr,
     AssemblyFails, SecondPassEnds, Emit
<1>2. UNCHANGED vars => src' = src
  BY DEF vars
<1> QED
  BY <1>1, <1>2 DEF ToolNext, toolVars, ReadProgram, LoopEnds, Jump, Branch, JumpThrough,
     BranchThrough, Call, Return, MainReturns, Exit, Proceed, Executes

LEMMA SizedSteps ==
  ASSUME ToolInv, SoundSizes(src), HeapAsDeclared, [ToolNext]_toolVars
  PROVE  HeapAsDeclared'
<1>1. src' = src
  BY SourceStays
<1>2. /\ \A op : Declared(op)' = Declared(op)
      /\ HeapAsDeclared' = (Assembled' /\ vm' # "off" =>
            (vm' = "refused" <=> Declared("heap") > Declared("heap_max")))
  BY <1>1 DEF HeapAsDeclared, Declared
<1>3. CASE ReadProgram
  <2> SUFFICES ASSUME Assembled' PROVE HeapAsDeclared'
    BY <1>2
  <2>1. Made
    BY <1>3, ReadMade, Unmoved DEF ReadProgram
  <2>2. vm' = IF Declared("heap") > Declared("heap_max") THEN "refused" ELSE "run"
    BY <1>3, <2>1, HeaderSizes DEF ReadProgram, Made
  <2> QED
    BY <1>1, <1>2, <2>2
<1>4. CASE UNCHANGED vars /\ UNCHANGED vm
  BY <1>1, <1>2, <1>4, Unmoved DEF HeapAsDeclared
<1>5. CASE UNCHANGED vars /\ vm = "run" /\ vm' \in {"run", "ended"}
  BY <1>1, <1>2, <1>5, Unmoved DEF HeapAsDeclared
<1>5a. CASE Next /\ UNCHANGED vm
  <2>1. vm = "off"
    BY <1>5a, AsmOnly
  <2> QED
    BY <1>2, <1>5a, <2>1
<1>6. ASSUME NEW f \in Fetched, Instruction(f)
      PROVE  UNCHANGED vars /\ vm = "run" /\ vm' \in {"run", "ended"}
  BY <1>6, InstructionSteps DEF StepsTo
<1>7. ToolNext => \/ Next /\ UNCHANGED vm
                  \/ ReadProgram \/ LoopEnds
                  \/ \E f \in Fetched : Instruction(f)
  BY Zenon DEF ToolNext, Instruction
<1>8. LoopEnds => UNCHANGED vars /\ vm = "run" /\ vm' \in {"run", "ended"}
  BY DEF LoopEnds
<1>9. UNCHANGED toolVars => UNCHANGED vars /\ UNCHANGED vm
  BY DEF toolVars
<1> QED
  BY <1>3, <1>4, <1>5, <1>5a, <1>6, <1>7, <1>8, <1>9

\* For all sources that keep to SoundSource, of any length, the state of the tools
\* is one of the state they have (src/assembler/assembler.cpp, src/vm/vm.c).
THEOREM ToolTypes ==
    ASSUME \A s \in Sources : Clean(s)
    PROVE  ToolSpec => []TypeOK
<1>1. ToolInit => ToolsInv
  BY ToolStarts DEF ToolsInv
<1>3. ToolsInv => TypeOK
  <2>0. CASE Emptied /\ Lost
    BY <2>0 DEF TypeOK, Emptied, Lost
  <2> SUFFICES ASSUME ToolsInv, AsmInv PROVE TypeOK
    BY <2>0 DEF ToolsInv, ToolInv, Lost
  <2>1. AsmTypes /\ Numbered /\ IInv
    BY DEF AsmInv
  <2>2. fpos \in Nat
    <3>1. Sound(src) /\ WorkingOK(src, working, loaded)
      BY <2>1 DEF IInv
    <3>2. CASE phase = "first"
      <4>1. FirstInv
        BY <2>1, <3>2 DEF IInv
      <4> QED
        BY <4>1 DEF FirstInv
    <3>3. CASE phase # "first"
      <4>1. /\ fpos = Ends(working, loaded, Len(out)) /\ Len(out) <= Len(working)
            /\ IsSeq(out)
        BY <2>1, <3>3 DEF IInv, SecondInv
      <4>2. Len(out) \in Nat
        BY <4>1, SeqDomain
      <4>3. /\ Len(working) \in Nat
            /\ \A i \in 1 .. Len(working) : EndOf(working, loaded, i) \in Nat
        BY <3>1, EndsNat
      <4> QED
        BY <4>1, <4>2, <4>3 DEF Ends
    <3> QED
      BY <3>2, <3>3
  <2>3. /\ vm \in {"off", "refused", "run", "ended"}
        /\ Assembled => pc \in Nat /\ calls \in Seq(Nat)
    BY DEF ToolsInv, ToolInv, Lost
  <2> QED
    BY <2>1, <2>2, <2>3 DEF TypeOK, AsmTypes, Numbered
<1> QED
  BY <1>1, ToolsKeep, <1>3, PTL DEF ToolSpec

\* Between two instructions the interpreter loops (src/vm/stack_impl.h,
\* src/vm/register_impl.h) are at the first byte of one that encoder.cpp wrote,
\* if the code ends before the address a RET in main leads to.
THEOREM InstructionsMeet ==
    ASSUME \A s \in Sources : Clean(s)
    PROVE  ToolSpec /\ []NearData => []InStep
<1>1. ToolInit => ToolsInv
  BY ToolStarts DEF ToolsInv
<1>2. ToolsInv /\ NearData => InStep
  BY AtInstruction
<1> QED
  BY <1>1, <1>2, ToolsKeep, PTL DEF ToolSpec

\* A VM (ReadProgram, src/vm/vm.c) executes a program exactly if its source asks
\* for no more heap than the maximum it declares.
THEOREM HeapDeclared ==
    ASSUME \A s \in Sources : Clean(s) /\ SoundSizes(s)
    PROVE  ToolSpec => []HeapAsDeclared
<1>1. ToolInit => ToolsInv /\ SoundSizes(src) /\ HeapAsDeclared
  BY ToolStarts DEF ToolsInv, ToolInit, Init, HeapAsDeclared
<1>2. ToolsInv /\ SoundSizes(src) /\ HeapAsDeclared /\ [ToolNext]_toolVars
        => ToolsInv' /\ SoundSizes(src)' /\ HeapAsDeclared'
  <2> SUFFICES ASSUME ToolsInv, SoundSizes(src), HeapAsDeclared, [ToolNext]_toolVars
               PROVE  ToolsInv' /\ SoundSizes(src)' /\ HeapAsDeclared'
    OBVIOUS
  <2>1. ToolsInv' /\ SoundSizes(src)'
    BY ToolsKeep, SourceStays
  <2>2. CASE ToolInv
    BY <2>1, <2>2, SizedSteps
  <2>3. CASE Lost
    BY <2>1, <2>3, LostStays DEF Lost, HeapAsDeclared
  <2> QED
    BY <2>1, <2>2, <2>3 DEF ToolsInv
<1> QED
  BY <1>1, <1>2, PTL DEF ToolSpec

\* And the addresses the assembler gives are right, whatever the VM does then.
THEOREM PlacesKept ==
    ASSUME \A s \in Sources : Clean(s)
    PROVE  ToolSpec => [](LabelsPlaced /\ DataPlaced)
<1>1. ToolInit => Init
  BY DEF ToolInit
<1>2. [ToolNext]_toolVars => [Next]_vars
  BY DEF ToolNext, toolVars, ReadProgram, LoopEnds, Jump, Branch, JumpThrough,
     BranchThrough, Call, Return, MainReturns, Exit, Proceed, Executes
<1>3. Spec => [](LabelsPlaced /\ DataPlaced)
  <2>1. \A s \in Sources : Sound(s)
    BY SourceShape
  <2> QED
    BY <2>1, LabelsRight
<1> QED
  BY <1>1, <1>2, <1>3, PTL DEF ToolSpec, Spec

----------------------------------------------------------------------------
(* The program the source is, executed.                                    *)

LEMMA MapNone == MapCalls(<<>>) = <<>> /\ DidOf(Quiet) = Abs!Quiet
<1>1. MapCalls(<<>>) = <<>>
  BY DEF MapCalls
<1>2. DOMAIN Quiet.args = DOMAIN <<>> /\ Quiet.mn = <<"", "">>
  BY DEF Quiet
<1> DEFINE e(k) == Shown(Quiet, k)
<1> HIDE DEF e
<1>3. [k \in DOMAIN <<>> |-> e(k)] = <<>>
  OBVIOUS
<1>4. DidOf(Quiet) = [mn |-> <<"", "">>, args |-> [k \in DOMAIN <<>> |-> e(k)]]
  BY <1>2 DEF DidOf, e
<1> QED
  BY <1>1, <1>3, <1>4 DEF Abs!Quiet

\* The line the VM is at.
AtLine ==
    CASE vm \in {"off", "refused"} -> Abs!NextCode(1)
      [] vm = "run"                -> Here(pc)
      [] vm = "ended"              -> 0

LEMMA StartedIs ==
  ASSUME ToolInv
  PROVE  Started <=> vm \notin {"off", "refused"}
BY DEF ToolInv, Started

LEMMA SameText == Text!NextCode(1) = Abs!NextCode(1)
BY DEF Text!NextCode, Abs!NextCode, Text!First, Abs!First, Text!Code, Abs!Code,
   Text!CodeEnd, Abs!CodeEnd, Text!Lines, Abs!Lines, Text!Max, Abs!Max, Text!Min, Abs!Min

LEMMA AbsAtIs ==
  ASSUME ToolInv
  PROVE  AbsAt = AtLine
<1>1. Text!NextCode(1) = Abs!NextCode(1) /\ (Started <=> vm \notin {"off", "refused"})
  BY SameText, StartedIs
<1>2. vm \in {"off", "refused", "run", "ended"}
  BY DEF ToolInv
<1>3. CASE vm = "run"
  <2>1. header.dataStart \in Nat
    BY <1>3, FileMade DEF ToolInv, FileOK
  <2>2. BeforeEnd <=> pc < header.dataStart
    BY <2>1 DEF BeforeEnd, NoData
  <2> QED
    BY <1>1, <1>3, <2>2 DEF AbsAt, AtLine, Here
<1>4. CASE vm # "run"
  BY <1>1, <1>2, <1>4 DEF AbsAt, AtLine
<1> QED
  BY <1>3, <1>4

LEMMA AbsCallsIs ==
  ASSUME ToolInv
  PROVE  AbsCalls = MapCalls(calls)
<1>1. DOMAIN calls = 1 .. Len(calls) /\ \A n \in DOMAIN calls : calls[n] \in Nat
  BY LenProperties, ElementOfSeq DEF ToolInv
<1>2. CASE vm \in {"off", "refused"}
  <2>1. calls = <<>> /\ ~Started
    BY <1>2, StartedIs DEF ToolInv
  <2> QED
    BY <2>1, MapNone DEF AbsCalls
<1>3. CASE vm \notin {"off", "refused"}
  <2>1. header.dataStart \in Nat /\ Started
    BY <1>3, FileMade, StartedIs DEF ToolInv, FileOK
  <2>2. ASSUME NEW a \in Nat
        PROVE  AbsCall(a) = Here(a)
    <3>1. header.dataStart # NoData /\ (a >= header.dataStart <=> ~(a < header.dataStart))
      BY <2>1 DEF NoData
    <3> QED
      BY <3>1 DEF AbsCall, Here
  <2>3. AbsCalls = [n \in DOMAIN calls |-> AbsCall(calls[n])]
    BY <2>1 DEF AbsCalls
  <2> QED
    BY <1>1, <2>2, <2>3 DEF MapCalls
<1> QED
  BY <1>2, <1>3
LEMMA AbsDidIs ==
  ASSUME ToolInv
  PROVE  AbsDid = DidOf(did)
<1>1. ASSUME NEW k
      PROVE  src[did.line].what.args[k].sym = "" \/ src[did.line].what.args[k].sym \in DOMAIN Preloaded
             <=> src[did.line].what.args[k].sym \in DOMAIN Preloaded \cup {""}
  OBVIOUS
<1>2. CASE did = Quiet
  BY <1>2, MapNone DEF AbsDid, Text!Quiet, Abs!Quiet
<1>3. CASE did # Quiet
  <2>1. Started
    BY <1>3, StartedIs DEF ToolInv
  <2> QED
    BY <1>1, <1>3, <2>1 DEF AbsDid, DidOf, Shown
<1> QED
  BY <1>2, <1>3

\* The source's view before a step, and, the program unmoved, behind it.

AtLineIn(v, p) ==
    CASE v \in {"off", "refused"} -> Abs!NextCode(1)
      [] v = "run"                -> Here(p)
      [] v = "ended"              -> 0

ViewIs == AbsAt = AtLine /\ AbsCalls = MapCalls(calls) /\ AbsDid = DidOf(did)
LEMMA ViewRight == ToolInv => ViewIs
BY AbsAtIs, AbsCallsIs, AbsDidIs DEF ViewIs

LEMMA After ==
  ASSUME ToolInv', UNCHANGED vars
  PROVE  AbsAt' = AtLineIn(vm', pc') /\ AbsCalls' = MapCalls(calls') /\ AbsDid' = DidOf(did')
<1>1. ViewIs'
  BY ViewRight, PTL
<1>2. src' = src /\ header' = header /\ out' = out
  BY DEF vars
<1>3. AbsAt' = AtLine' /\ AbsCalls' = MapCalls(calls)' /\ AbsDid' = DidOf(did)'
  BY <1>1 DEF ViewIs
<1>4. AtLine' = AtLineIn(vm', pc')
  <2>1. Here(pc)' = Here(pc')
    BY <1>2 DEF Here, LineAt, ChunkAt, Chunks
  <2>2. Abs!NextCode(1)' = Abs!NextCode(1)
    BY <1>2 DEF Abs!NextCode, Abs!First, Abs!Code, Abs!CodeEnd, Abs!Lines
  <2> QED
    BY <2>1, <2>2 DEF AtLine, AtLineIn
<1>5. MapCalls(calls)' = MapCalls(calls')
  BY <1>2 DEF MapCalls, Here, LineAt, ChunkAt, Chunks
<1>6. DidOf(did)' = DidOf(did')
  BY <1>2 DEF DidOf, Shown, LineAt, ChunkAt, Chunks
<1> QED
  BY <1>3, <1>4, <1>5, <1>6

\* What is no execution of the source's program shows none of it.
LEMMA Rests ==
  ASSUME ~Started, ~Started', src' = src
  PROVE  UNCHANGED Abs!avars
<1>1. AbsAt = Text!NextCode(1) /\ AbsCalls = <<>> /\ AbsDid = Text!Quiet
  BY DEF AbsAt, AbsCalls, AbsDid
<1>2. AbsAt' = Text!NextCode(1)' /\ AbsCalls' = <<>> /\ AbsDid' = Text!Quiet
  BY DEF AbsAt, AbsCalls, AbsDid, Text!Quiet
<1>3. Text!NextCode(1)' = Text!NextCode(1)
  BY DEF Text!NextCode, Text!First, Text!Code, Text!CodeEnd, Text!Lines
<1> QED
  BY <1>1, <1>2, <1>3 DEF Abs!avars

\* Where the source goes on from line m: to line n, with the calls cs after bs.
Moves(m, n, bs, cs) ==
    LET w    == src[m].what
        name == w.mn[1]
        next == Abs!NextCode(m + 1)
    IN  \/ name = "EXIT" /\ n = 0 /\ cs = bs
        \/ name = "JMP" /\ n = Abs!Goto(w.args[1].sym) /\ cs = bs
        \/ name \in {"BRZ", "BRNZ"} /\ n \in {next, Abs!Goto(w.args[1].sym)} /\ cs = bs
        \/ name = "JMPI" /\ n \in {Abs!Goto(x) : x \in Abs!Symbols} /\ cs = bs
        \/ /\ name \in {"BRIZ", "BRINZ"}
           /\ n \in {next} \cup {Abs!Goto(x) : x \in Abs!Symbols} /\ cs = bs
        \/ name = "CALL" /\ n = Abs!Goto(w.args[1].sym) /\ cs = Append(bs, next)
        \/ /\ name = "RET" /\ bs # <<>>
           /\ n = Abs!Last(bs) /\ cs = Abs!Front(bs)
        \/ name = "RET" /\ bs = <<>> /\ Abs!StackMode /\ n = 0 /\ cs = bs
        \/ /\ name \notin {"EXIT", "JMP", "BRZ", "BRNZ", "JMPI", "BRIZ", "BRINZ",
                           "CALL", "RET"}
           /\ n = next /\ cs = bs

\* An instruction that leads where the one in the source does is that one.
LEMMA Executed ==
  ASSUME ToolInv, ToolInv', UNCHANGED vars, vm = "run", NEW f, NEW m, ReadFrom(f, m),
         Follows(f, m), did' = f,
         Moves(m, AtLineIn(vm', pc'), MapCalls(calls), MapCalls(calls'))
  PROVE  Abs!Execute
<1>1. AbsAt = m /\ AbsCalls = MapCalls(calls)
  BY ViewRight DEF ViewIs, AtLine, Follows
<1>2. /\ AbsAt' = AtLineIn(vm', pc') /\ AbsCalls' = MapCalls(calls')
      /\ AbsDid' = DidOf(did')
  BY After
<1>3. Made /\ m \in Nat \ {0} /\ src' = src
  BY DEF ToolInv, ReadFrom, vars
<1>4. /\ AbsDid' = [mn |-> src[m].what.mn,
                    args |-> [k \in DOMAIN src[m].what.args |->
                                Abs!Operand(src[m].what, k)]]
      /\ Abs!Clear(src[m].what)
  BY <1>2, <1>3, DidShown
<1>5. Moves(m, AbsAt', AbsCalls, AbsCalls')
  BY <1>1, <1>2
<1>6. AbsAt > 0
  BY <1>1, <1>3
<1> QED
  BY <1>1, <1>3, <1>4, <1>5, <1>6, Zenon DEF Moves, Abs!Execute, AbsCalls

\* Each instruction the VM executes leads where that of the source does.
LEMMA InstructionMoves ==
  ASSUME ToolInv, NearData, vm = "run", NEW f \in Fetched, Instruction(f), NEW m,
         ReadFrom(f, m), Follows(f, m)
  PROVE  Moves(m, AtLineIn(vm', pc'), MapCalls(calls), MapCalls(calls'))
<1> DEFINE w == src[m].what
           next == Abs!NextCode(m + 1)
           goto == Abs!Goto(w.args[1].sym)
<1>1. Made /\ calls \in Seq(Nat) /\ f.mn = w.mn
  BY DEF ToolInv, ReadFrom
<1>2. Here(Behind(f)) = next /\ Behind(f) \in Nat
  BY <1>1, BehindHere DEF Spot
<1>3. f.mn[1] \in Direct => Here(f.args[1]) = goto
  BY <1>1, Target
<1>4. \A a \in Addresses : Here(a) \in {Abs!Goto(x) : x \in Abs!Symbols}
  BY <1>1, AddressHere
<1>5. vm' = "run" => AtLineIn(vm', pc') = Here(pc')
  BY DEF AtLineIn
<1>6. calls' = calls => MapCalls(calls') = MapCalls(calls)
  OBVIOUS
<1> HIDE DEF next, goto
<1>7. CASE Jump(f)
  <2>1. w.mn[1] = "JMP" /\ pc' = f.args[1] /\ calls' = calls /\ vm' = "run"
    BY <1>1, <1>7 DEF Jump
  <2>2. AtLineIn(vm', pc') = goto
    BY <1>1, <1>3, <1>5, <2>1 DEF Direct
  <2> QED
    BY <1>6, <2>1, <2>2, Zenon DEF Moves, goto
<1>8. CASE Branch(f)
  <2>1. /\ w.mn[1] \in {"BRZ", "BRNZ"} /\ pc' \in {Behind(f), f.args[1]}
        /\ calls' = calls /\ vm' = "run"
    BY <1>1, <1>8 DEF Branch
  <2>2. f.mn[1] \in Direct
    BY <1>1, <2>1 DEF Direct
  <2>3. AtLineIn(vm', pc') \in {next, goto}
    BY <1>2, <1>3, <1>5, <2>1, <2>2
  <2> QED
    BY <1>6, <2>1, <2>3, Zenon DEF Moves, next, goto
<1>9. CASE JumpThrough(f)
  <2>1. w.mn[1] = "JMPI" /\ pc' \in Addresses /\ calls' = calls /\ vm' = "run"
    BY <1>1, <1>9 DEF JumpThrough
  <2>2. AtLineIn(vm', pc') \in {Abs!Goto(x) : x \in Abs!Symbols}
    BY <1>4, <1>5, <2>1
  <2> QED
    BY <1>6, <2>1, <2>2, Zenon DEF Moves
<1>10. CASE BranchThrough(f)
  <2>1. /\ w.mn[1] \in {"BRIZ", "BRINZ"} /\ pc' \in Addresses \cup {Behind(f)}
        /\ calls' = calls /\ vm' = "run"
    BY <1>1, <1>10 DEF BranchThrough
  <2>2. AtLineIn(vm', pc') \in {next} \cup {Abs!Goto(x) : x \in Abs!Symbols}
    BY <1>2, <1>4, <1>5, <2>1
  <2> QED
    BY <1>6, <2>1, <2>2, Zenon DEF Moves, next
<1>11. CASE Call(f)
  <2>1. w.mn[1] = "CALL" /\ pc' = f.args[1] /\ calls' = Append(calls, pc + 5) /\ vm' = "run"
    BY <1>1, <1>11 DEF Call
  <2>2. AtLineIn(vm', pc') = goto
    BY <1>1, <1>3, <1>5, <2>1 DEF Direct
  <2>3. Behind(f) = pc + 5
    BY <1>1, <2>1 DEF Follows
  <2>4. MapCalls(Append(calls, Behind(f))) = Append(MapCalls(calls), next)
    BY <1>1, <1>2, MapAppend
  <2>5. MapCalls(calls') = Append(MapCalls(calls), next)
    BY <2>1, <2>3, <2>4
  <2> QED
    BY <2>1, <2>2, <2>5, Zenon DEF Moves, next, goto
<1>12. CASE Return(f)
  <2>1. /\ w.mn[1] = "RET" /\ calls # <<>> /\ pc' = Last(calls) /\ calls' = Front(calls)
        /\ vm' = "run"
    BY <1>1, <1>12 DEF Return
  <2>2. /\ MapCalls(calls) # <<>> /\ Abs!Last(MapCalls(calls)) = Here(Last(calls))
        /\ Abs!Front(MapCalls(calls)) = MapCalls(Front(calls))
    BY <1>1, <2>1, MapReturn
  <2>3. AtLineIn(vm', pc') = Abs!Last(MapCalls(calls))
    BY <1>5, <2>1, <2>2
  <2>4. MapCalls(calls') = Abs!Front(MapCalls(calls))
    BY <2>1, <2>2
  <2> QED
    BY <2>1, <2>2, <2>3, <2>4, Zenon DEF Moves
<1>12a. CASE MainReturns(f)
  <2>1. /\ w.mn[1] = "RET" /\ calls = <<>> /\ pc' = FACE /\ calls' = calls /\ vm' = "run"
        /\ header.mode = "stack"
    BY <1>1, <1>12a DEF MainReturns
  <2>2. MapCalls(calls) = <<>>
    BY <2>1, MapNone
  <2>3. AtLineIn(vm', pc') = 0
    <3>1. header.dataStart \in Nat
      BY <1>1, FileMade DEF FileOK
    <3> QED
      BY <1>5, <2>1, <3>1 DEF Here, NearData, FACE
  <2>4. Abs!StackMode
    <3>1. header.mode = src[ModeLine(src)].what.mode /\ ModeLine(src) \in DOMAIN src
          /\ src[ModeLine(src)].what.op = "mode"
      BY <1>1, MadeMode, SourceShape DEF Made, AsmInv
    <3> QED
      BY <2>1, <3>1 DEF Abs!StackMode, Abs!Lines
  <2> QED
    BY <1>6, <2>1, <2>2, <2>3, <2>4, Zenon DEF Moves
<1>13. CASE Exit(f)
  <2>1. w.mn[1] = "EXIT" /\ calls' = calls /\ vm' = "ended"
    BY <1>1, <1>13 DEF Exit
  <2>2. AtLineIn(vm', pc') = 0
    BY <2>1 DEF AtLineIn
  <2> QED
    BY <1>6, <2>1, <2>2, Zenon DEF Moves
<1>14. CASE Proceed(f)
  <2>1. w.mn[1] \notin Transfers /\ calls' = calls /\ vm' = "run" /\ pc' = Behind(f)
    BY <1>1, <1>14 DEF Proceed
  <2>2. AtLineIn(vm', pc') = next
    BY <1>2, <1>5, <2>1
  <2>3. w.mn[1] \notin {"EXIT", "JMP", "BRZ", "BRNZ", "JMPI", "BRIZ", "BRINZ", "CALL", "RET"}
    BY <2>1 DEF Transfers
  <2> QED
    BY <1>6, <2>2, <2>1, <2>3, Zenon DEF Moves, next
<1> QED
  BY <1>7, <1>8, <1>9, <1>10, <1>11, <1>12, <1>12a, <1>13, <1>14, Zenon DEF Instruction

\* What the VM does is a step of the program its source is, or none of it.
LEMMA ToolMaps ==
  ASSUME ToolInv, ToolInv', NearData, [ToolNext]_toolVars
  PROVE  [Abs!Execute]_(Abs!avars)
<1>1. ASSUME UNCHANGED vars, AtLineIn(vm', pc') = AtLine, calls' = calls, did' = did
      PROVE  UNCHANGED Abs!avars
  <2>1. AbsAt = AtLine /\ AbsCalls = MapCalls(calls) /\ AbsDid = DidOf(did)
    BY ViewRight DEF ViewIs
  <2>2. AbsAt' = AtLine /\ AbsCalls' = MapCalls(calls) /\ AbsDid' = DidOf(did)
    BY <1>1, After
  <2>3. src' = src
    BY <1>1 DEF vars
  <2> QED
    BY <2>1, <2>2, <2>3 DEF Abs!avars
<1>2. CASE UNCHANGED toolVars
  <2>1. UNCHANGED vars /\ vm' = vm /\ pc' = pc /\ calls' = calls /\ did' = did
    BY <1>2 DEF toolVars
  <2>2. AtLineIn(vm', pc') = AtLine
    BY <2>1 DEF AtLineIn, AtLine
  <2> QED
    BY <1>1, <2>1, <2>2
<1>3. CASE Next /\ UNCHANGED <<vm, pc, calls, did>>
  <2>1. vm = "off" /\ vm' = "off"
    BY <1>3, AsmOnly
  <2>2. ~Started /\ ~Started'
    BY <2>1 DEF Started
  <2> QED
    BY <2>2, SourceStays, Rests
<1>4. CASE ReadProgram
  <2>1a. Assembled
    BY <1>4, Unmoved DEF ReadProgram, ToolInv
  <2>1. Made /\ UNCHANGED vars
    BY <1>4, <2>1a, ReadMade
  <2>2. vm = "off" /\ pc' = 0 /\ calls' = calls /\ did' = did /\ vm' \in {"refused", "run"}
    BY <1>4, <2>1a, ReadMade DEF ReadProgram
  <2>3. Here(0) = Abs!NextCode(1)
    BY <2>1, StartHere
  <2>4. AtLineIn(vm', pc') = AtLine
    BY <2>2, <2>3 DEF AtLineIn, AtLine
  <2> QED
    BY <1>1, <2>1, <2>2, <2>4
<1>5. CASE LoopEnds
  <2>1. /\ vm = "run" /\ ~BeforeEnd /\ vm' = "ended"
        /\ UNCHANGED vars /\ pc' = pc /\ calls' = calls /\ did' = did
    BY <1>5 DEF LoopEnds
  <2>2. Here(pc) = 0
    BY <2>1 DEF BeforeEnd, Here
  <2>3. AtLineIn(vm', pc') = AtLine
    BY <2>1, <2>2 DEF AtLineIn, AtLine
  <2> QED
    BY <1>1, <2>1, <2>3
<1>6. ASSUME NEW f \in Fetched, Instruction(f)
      PROVE  Abs!Execute
  <2>1. Made /\ vm = "run" /\ UNCHANGED vars
    BY <1>6, InstructionSteps DEF StepsTo
  <2>2. PICK m : ReadFrom(f, m) /\ Follows(f, m)
    BY <2>1, Fetch DEF ToolInv
  <2>3. did' = f
    BY <1>6 DEF Instruction, Jump, Branch, JumpThrough, BranchThrough, Call, Return, Exit,
       MainReturns, Proceed, Executes
  <2>4. Moves(m, AtLineIn(vm', pc'), MapCalls(calls), MapCalls(calls'))
    BY <1>6, <2>1, <2>2, InstructionMoves
  <2> QED
    BY <2>1, <2>2, <2>3, <2>4, Executed
<1>7. ToolNext => \/ Next /\ UNCHANGED <<vm, pc, calls, did>>
                  \/ ReadProgram \/ LoopEnds \/ \E f \in Fetched : Instruction(f)
  BY Zenon DEF ToolNext, Instruction
<1> QED
  BY <1>2, <1>3, <1>4, <1>5, <1>6, <1>7, Zenon

\* Nor does a step around a file of a failed assembly show anything.
LEMMA ToolsMap == ToolsInv /\ NearData /\ [ToolNext]_toolVars => [Abs!Execute]_(Abs!avars)
<1> SUFFICES ASSUME ToolsInv, NearData, [ToolNext]_toolVars
             PROVE  [Abs!Execute]_(Abs!avars)
  OBVIOUS
<1>1. ToolsInv' /\ src' = src
  BY ToolsKeep, SourceStays
<1>2. CASE ToolInv /\ ToolInv'
  BY <1>2, ToolMaps
<1>3. CASE Lost
  <2>1. ~Started /\ ~Started'
    BY <1>3, LostStays DEF Lost, Started
  <2> QED
    BY <1>1, <2>1, Rests
<1>4. CASE ToolInv /\ Lost'
  <2>1. ~Assembled'
    BY <1>4 DEF Lost
  <2>2. CASE Assembled
    <3>1. ~(UNCHANGED vars)
      BY <2>1, <2>2, Unmoved
    <3>2. Next
      BY <3>1 DEF ToolNext, toolVars, ReadProgram, LoopEnds, Jump, Branch, JumpThrough,
         BranchThrough, Call, Return, MainReturns, Exit, Proceed, Executes
    <3>3. vm = "off"
      BY <1>4, <3>2, AsmOnly
    <3>4. ~Started /\ ~Started'
      BY <2>1, <3>3 DEF Started
    <3> QED
      BY <1>1, <3>4, Rests
  <2>3. CASE ~Assembled
    <3>1. ~Started /\ ~Started'
      BY <2>1, <2>3 DEF Started
    <3> QED
      BY <1>1, <3>1, Rests
  <2> QED
    BY <2>2, <2>3
<1> QED
  BY <1>1, <1>2, <1>3, <1>4 DEF ToolsInv

\* For all sound sources, of any length, and calls of any depth: through assembler
\* (src/assembler/assembler.cpp, encoder.cpp) and VM (src/vm) a program does what
\* its source says, if its code ends before the address a RET in main leads to.
THEOREM ToolsRefineSource ==
    ASSUME \A s \in Sources : Clean(s)
    PROVE  ToolSpec /\ []NearData => AbsSpec
<1>1. ToolInit => ToolInv
  BY ToolStarts
<1>2. ToolInit => ToolsInv
  BY <1>1 DEF ToolsInv
<1>3. ToolInit => Abs!Init
  <2> SUFFICES ASSUME ToolInit PROVE Abs!Init
    OBVIOUS
  <2>1. ToolInv /\ vm = "off" /\ calls = <<>> /\ did = Quiet
    BY <1>1 DEF ToolInit
  <2>2. AbsAt = Abs!NextCode(1) /\ AbsCalls = <<>> /\ AbsDid = Abs!Quiet
    BY <2>1, ViewRight, MapNone DEF ViewIs, AtLine
  <2> QED
    BY <2>2 DEF Abs!Init
<1> QED
  BY <1>2, <1>3, ToolsKeep, ToolsMap, PTL DEF ToolSpec, AbsSpec, Abs!Spec
=============================================================================
