--------------------------- MODULE RackHeapProofs ---------------------------
(***************************************************************************)
(* Proofs about the heap of RackHeap, for every heap size and every set of *)
(* requests.  Part 1 holds whatever the guest does, but for links leading  *)
(* forward, which lasts until a block is moved; part 2 is about guests     *)
(* that free and shrink only the topmost block they hold.  Parts 3 to 5    *)
(* take the heap step by step against what AbstractHeap promises of it:    *)
(* single steps, guests as in part 2, and guests that never free or resize *)
(* a block.                                                                *)
(***************************************************************************)
EXTENDS RackHeap, TLAPS

USE HeapAssumption DEF Cells, End, NULL, Junk, Abs!Cells

-----------------------------------------------------------------------------
(* Part 1: any guest. *)

\* A block being moved lies in the heap, and so does the data to copy.
CopyInHeap == want.old + want.copy < End

\* Every request needs at least one cell.
LEMMA CellsForPositive ==
    \A b \in Requests : CellsFor(b) \in Nat /\ CellsFor(b) > 0
BY SMT DEF CellsFor, HDR

\* The rest of the state.
RestOK ==
    /\ held \in [Cells -> Nat]
    /\ pc \in {"idle", "search", "fault"}
    /\ cur \in Cells \cup {End, NULL, Junk}
    /\ want \in Wants
    /\ CopyInHeap

\* What keeps the types needs no link to lead forward.
Typed(m) == m \in [Cells -> Alloc_t]
TypeInv  == Typed(mem) /\ RestOK

LEMMA NeedPositive == ASSUME RestOK PROVE Need \in Nat /\ Need > 0
BY CellsForPositive DEF RestOK, Wants, Need

LEMMA IdleOK == Idle \in Wants /\ Idle.old + Idle.copy < End
BY DEF Idle, Wants

LEMMA PlacedTyped ==
    ASSUME NEW m, Typed(m), NEW c \in Cells, NEW n \in Nat, c + 1 + n < End
    PROVE  Typed(Placed(m, c, n))
<1> DEFINE q == c + 1 + n
           mc == [m[c] EXCEPT !.occupied = TRUE, !.safebytes = TRUE, !.next = q]
           mq == [m[q] EXCEPT !.next = m[c].next, !.prev = c]
<1>1. q \in Cells /\ q # c
  OBVIOUS
<1>2. m[c] \in Alloc_t /\ m[q] \in Alloc_t
  BY <1>1 DEF Typed
<1>3. mc \in Alloc_t /\ mq \in Alloc_t
  BY <1>1, <1>2 DEF Alloc_t
<1>4. Placed(m, c, n) = [m EXCEPT ![c] = mc, ![q] = mq]
  BY <1>1 DEF Placed
<1> HIDE DEF mc, mq
<1>5. QED
  BY <1>1, <1>3, <1>4 DEF Typed

LEMMA ResizedTyped ==
    ASSUME NEW m, Typed(m), NEW c \in Cells, NEW n \in Nat, c + 1 + n < End,
           m[c].next \in Cells
    PROVE  Typed(Resized(m, c, n))
<1> DEFINE q == c + 1 + n
           nn == m[m[c].next].next
           mc == [m[c] EXCEPT !.next = q]
           mq == [m[q] EXCEPT !.prev = c, !.safebytes = TRUE, !.next = nn]
<1>1. q \in Cells /\ q # c
  OBVIOUS
<1>2. m[c] \in Alloc_t /\ m[q] \in Alloc_t /\ m[m[c].next] \in Alloc_t
  BY <1>1 DEF Typed
<1>3. mc \in Alloc_t /\ mq \in Alloc_t
  BY <1>1, <1>2 DEF Alloc_t
<1>4. Resized(m, c, n) = [m EXCEPT ![c] = mc, ![q] = mq]
  BY <1>1 DEF Resized
<1> HIDE DEF mc, mq
<1>5. QED
  BY <1>1, <1>3, <1>4 DEF Typed

LEMMA NextTyped ==
    ASSUME NEW m, Typed(m), NEW c \in Cells, NEW t \in Cells \cup {End, NULL, Junk}
    PROVE  Typed([m EXCEPT ![c].next = t])
<1>1. [m[c] EXCEPT !.next = t] \in Alloc_t
  BY DEF Typed, Alloc_t
<1>2. QED
  BY <1>1 DEF Typed

LEMMA FlagsTyped ==
    ASSUME NEW m, Typed(m), NEW c \in Cells
    PROVE  /\ Typed([m EXCEPT ![c].occupied = FALSE])
           /\ Typed([m EXCEPT ![c].safebytes = FALSE])
<1>1. /\ [m[c] EXCEPT !.occupied = FALSE] \in Alloc_t
      /\ [m[c] EXCEPT !.safebytes = FALSE] \in Alloc_t
  BY DEF Typed, Alloc_t
<1>2. QED
  BY <1>1 DEF Typed

LEMMA FreedTyped ==
    ASSUME NEW m, Typed(m), NEW c \in Cells, ~FreeFaults(m, c)
    PROVE  Typed(Freed(m, c))
<1> DEFINE prev == m[c].prev
           next == m[c].next
           m1 == IF prev # NULL /\ ~m[prev].occupied
                 THEN [m EXCEPT ![prev].next = next] ELSE m
           m2 == IF next < End /\ ~m1[next].occupied
                 THEN [m1 EXCEPT ![c].next = m1[next].next] ELSE m1
<1>1. next \in Cells \cup {End} /\ prev \in Cells \cup {NULL}
  BY DEF Typed, FreeFaults, Alloc_t
<1>2. Typed(m1)
  BY <1>1, NextTyped
<1> HIDE DEF m1
<1>3. CASE next < End /\ ~m1[next].occupied
  <2>1. next \in Cells /\ m1[next].next \in Cells \cup {End, NULL, Junk}
    BY <1>1, <1>2, <1>3 DEF Typed, Alloc_t
  <2>2. Typed(m2)
    BY <1>2, <1>3, <2>1, NextTyped
  <2> HIDE DEF m2
  <2>3. Typed([m2 EXCEPT ![c].occupied = FALSE])
    BY <2>2, FlagsTyped
  <2>4. QED
    BY <2>3 DEF Freed, m1, m2
<1>4. CASE ~(next < End /\ ~m1[next].occupied)
  <2>1. m2 = m1
    BY <1>4
  <2>2. Freed(m, c) = [m2 EXCEPT ![c].occupied = FALSE]
    BY DEF Freed, m1
  <2>3. Typed([m1 EXCEPT ![c].occupied = FALSE])
    BY <1>2, FlagsTyped
  <2> HIDE DEF m2
  <2>4. QED
    BY <2>1, <2>2, <2>3
<1>5. QED
  BY <1>3, <1>4

LEMMA CopiedTyped ==
    ASSUME NEW m, Typed(m), NEW dst \in Int, NEW src \in Nat, NEW k \in Int,
           src + k - 1 < End
    PROVE  Typed(Copied(m, dst, src, k))
<1>1. ASSUME NEW x \in Cells, x \in dst .. dst + k - 1
      PROVE  m[src + x - dst] \in Alloc_t
  <2>1. src + x - dst \in Cells
    BY <1>1
  <2>2. QED
    BY <2>1 DEF Typed
<1>2. QED
  BY <1>1 DEF Copied, Typed

LEMMA WrittenTyped ==
    ASSUME NEW m, Typed(m), NEW dst \in Int, NEW k \in Int, NEW b \in BOOLEAN
    PROVE  Typed(Written(m, dst, k, b))
<1>1. GuestData(b) \in Alloc_t
  BY DEF GuestData, Alloc_t
<1>2. QED
  BY <1>1 DEF Written, Typed

LEMMA StringTyped ==
    ASSUME NEW m, Typed(m), NEW dst \in Nat, NEW w \in Wants, NEW b \in BOOLEAN
    PROVE  Typed(StringWritten(m, dst, w, b))
<1> DEFINE text == Written(m, dst, CellsFor(w.bytes), b)
<1>1. w.bytes \in Requests /\ CellsFor(w.bytes) \in Nat
  BY CellsForPositive DEF Wants
<1>2. Typed(text)
  BY <1>1, WrittenTyped
<1> HIDE DEF text
<1>3. Typed(Terminated(text, dst, w.bytes))
  BY <1>2, FlagsTyped DEF Terminated
<1>4. QED
  BY <1>2, <1>3 DEF StringWritten, text

\* VMHeapRealloc's tail: the data copied, the old block freed.
LEMMA MovedTyped ==
    ASSUME NEW m, Typed(m), RestOK, NEW dst \in Nat,
           ~FreeFaults(Copied(m, dst, want.old + 1, want.copy), want.old)
    PROVE  Typed(Freed(Copied(m, dst, want.old + 1, want.copy), want.old))
<1>1. want.old \in Cells /\ want.old + 1 \in Nat /\ want.copy \in Int
      /\ want.old + 1 + want.copy - 1 < End
  BY DEF RestOK, CopyInHeap, Wants
<1>2. \A src \in Nat, k \in Int :
         src + k - 1 < End => Typed(Copied(m, dst, src, k))
  BY CopiedTyped
<1>3. Typed(Copied(m, dst, want.old + 1, want.copy))
  BY <1>1, <1>2, Zenon
<1>4. QED
  BY <1>1, <1>3, FreedTyped

LEMMA FaultTyped == TypeInv /\ Fault => TypeInv'
BY DEF TypeInv, RestOK, Typed, CopyInHeap, Fault

LEMMA InitTyped == Init => TypeInv
<1> SUFFICES ASSUME Init PROVE TypeInv
  OBVIOUS
<1>1. Zero \in Alloc_t /\ [Zero EXCEPT !.safebytes = TRUE, !.next = End] \in Alloc_t
  BY DEF Zero, Alloc_t
<1>2. Typed(mem)
  BY <1>1 DEF Init, Typed
<1>3. QED
  BY <1>2, IdleOK DEF Init, TypeInv, RestOK, CopyInHeap

LEMMA ReturnTyped ==
    ASSUME RestOK, Typed(mem'), held' \in [Cells -> Nat], Return
    PROVE  TypeInv'
BY IdleOK DEF RestOK, Return, CopyInHeap, TypeInv

LEMMA PlaceTyped == TypeInv /\ Place => TypeInv'
<1> SUFFICES ASSUME TypeInv, Place PROVE TypeInv'
  OBVIOUS
<1>1. Typed(mem) /\ RestOK /\ held \in [Cells -> Nat] /\ want \in Wants
  BY DEF TypeInv, RestOK
<1>2. Need \in Nat /\ Need > 0
  BY <1>1, NeedPositive
<1>3. cur \in Cells /\ cur + 1 + Need < End /\ cur + 1 \in Nat
  BY DEF Place
<1> DEFINE placed == Placed(mem, cur, Need)
<1>4. Typed(placed)
  BY <1>1, <1>2, <1>3, PlacedTyped
<1> HIDE DEF placed
<1>7. CASE PlaceRaw
  BY <1>1, <1>2, <1>3, <1>4, <1>7, ReturnTyped DEF PlaceRaw, placed
<1>8. CASE PlaceString
  <2>1. PICK b \in BOOLEAN : mem' = StringWritten(placed, cur + 1, want, b)
    BY <1>8 DEF PlaceString, placed
  <2>2. Typed(mem')
    BY <1>1, <1>3, <1>4, <2>1, StringTyped
  <2>3. QED
    BY <1>1, <1>2, <1>3, <1>8, <2>2, ReturnTyped DEF PlaceString
<1>9. CASE PlaceMoved
  <2> DEFINE m == Copied(placed, cur + 1, want.old + 1, want.copy)
  <2>1. CASE Fault
    BY <2>1, FaultTyped
  <2>2. CASE ~Fault
    <3>1. /\ ~FreeFaults(m, want.old)
          /\ mem' = Freed(m, want.old)
          /\ held' = [held EXCEPT ![cur] = Need, ![want.old] = 0]
          /\ Return
      BY <1>9, <2>2 DEF PlaceMoved, placed
    <3>2. Typed(mem')
      BY <1>1, <1>3, <1>4, <3>1, MovedTyped
    <3>3. held' \in [Cells -> Nat]
      BY <1>1, <1>2, <1>3, <3>1
    <3>4. QED
      BY <1>1, <3>1, <3>2, <3>3, ReturnTyped
  <2>3. QED
    BY <2>1, <2>2
<1>10. QED
  BY <1>7, <1>8, <1>9 DEF Place

LEMMA ReturnNullTyped == TypeInv /\ ReturnNull => TypeInv'
<1> SUFFICES ASSUME TypeInv, ReturnNull PROVE TypeInv'
  OBVIOUS
<1>1. Typed(mem) /\ RestOK /\ held \in [Cells -> Nat] /\ want \in Wants
  BY DEF TypeInv, RestOK
<1>4. CASE want.kind = "raw" /\ mem' = mem /\ held' = held /\ Return
  BY <1>1, <1>4, ReturnTyped
<1>5. CASE /\ \E b \in BOOLEAN : mem' = StringWritten(mem, 0, want, b)
           /\ held' = held
           /\ Return
  <2>1. Typed(mem')
    BY <1>1, <1>5, StringTyped
  <2>2. QED
    BY <1>1, <1>5, <2>1, ReturnTyped
<1>6. ASSUME LET m == Copied(mem, 0, want.old + 1, want.copy)
             IN  /\ ~FreeFaults(m, want.old)
                 /\ mem' = Freed(m, want.old)
                 /\ held' = [held EXCEPT ![want.old] = 0]
                 /\ Return
      PROVE  TypeInv'
  <2>1. Typed(mem')
    BY <1>1, <1>6, MovedTyped
  <2>2. QED
    BY <1>1, <1>6, <2>1, ReturnTyped
<1>7. CASE Fault
  BY <1>7, FaultTyped
<1>8. QED
  BY <1>4, <1>5, <1>6, <1>7 DEF ReturnNull

LEMMA ReallocTyped ==
    ASSUME NEW c \in Cells, NEW bytes \in Requests, TypeInv, VMHeapRealloc(c, bytes)
    PROVE  TypeInv'
<1> DEFINE n == CellsFor(bytes)
           next == mem[c].next
<1>1. Typed(mem) /\ RestOK /\ held \in [Cells -> Nat] /\ mem[c] \in Alloc_t
  BY DEF TypeInv, RestOK, Typed
<1>2. n \in Nat /\ n > 0
  BY CellsForPositive
<1>4. CASE Fault
  BY <1>4, FaultTyped
<1>5. ASSUME Typed(mem'), held' \in [Cells -> Nat], UNCHANGED <<pc, cur, want>>
      PROVE  TypeInv'
  BY <1>1, <1>5 DEF TypeInv, RestOK, CopyInHeap
<1> HIDE DEF n
<1>6. ASSUME next \notin {NULL, Junk}
      PROVE  next \in Cells \cup {End}
  BY <1>1, <1>6 DEF Alloc_t
<1>7. CASE next \notin {NULL, Junk} /\ Unresized(c, n)
  BY <1>1, <1>2, <1>5, <1>7 DEF Unresized, Typed
<1>8. CASE next \notin {NULL, Junk} /\ Shrink(c, n) /\ ~Fault
  <2>1. next \in Cells /\ c + 1 + n < End /\ mem' = Resized(mem, c, n)
        /\ held' = [held EXCEPT ![c] = n] /\ UNCHANGED <<pc, cur, want>>
    BY <1>2, <1>6, <1>8 DEF Shrink
  <2>2. QED
    BY <1>1, <1>2, <1>5, <2>1, ResizedTyped
<1>9. CASE next \notin {NULL, Junk} /\ Grow(c, n) /\ ~Fault
  <2>1. /\ next \in Cells /\ c + 1 + n < End /\ mem' = Resized(mem, c, n)
        /\ held' = GrownHeld(c, n) /\ UNCHANGED <<pc, cur, want>>
    BY <1>2, <1>6, <1>9 DEF Grow, NextSuits
  <2>2. held' \in [Cells -> Nat]
    BY <1>1, <1>2, <2>1 DEF GrownHeld
  <2>3. QED
    BY <1>1, <1>2, <1>5, <2>1, <2>2, ResizedTyped
<1>10. CASE next \notin {NULL, Junk} /\ Move(c, bytes)
  <2>1. /\ want' = [kind |-> "move", bytes |-> bytes, old |-> c, copy |-> next - c - 1]
        /\ pc' = "search" /\ cur' = 0 /\ UNCHANGED <<mem, held>>
    BY <1>10 DEF Move, Search
  <2>2. next - c - 1 \in -1 .. HeapCells /\ c + (next - c - 1) < End
    BY <1>6, <1>10 DEF Move, SizeAtLeast, Before
  <2>3. want' \in Wants /\ CopyInHeap'
    BY <2>1, <2>2 DEF Wants, CopyInHeap
  <2>4. QED
    BY <1>1, <2>1, <2>3 DEF RestOK, TypeInv
<1>11. QED
  BY <1>4, <1>7, <1>8, <1>9, <1>10 DEF VMHeapRealloc, n

LEMMA TypedNext == TypeInv /\ [Next]_vars => TypeInv'
<1> SUFFICES ASSUME TypeInv, [Next]_vars PROVE TypeInv'
  OBVIOUS
<1>1. Typed(mem) /\ RestOK
  BY DEF TypeInv
<1>2. ASSUME NEW kind \in {"raw", "string", "combined"}, NEW bytes \in Requests,
             Search(kind, bytes, 0, 0)
      PROVE  TypeInv'
  <2>1. want' \in Wants /\ CopyInHeap'
    BY <1>2 DEF Search, Wants, CopyInHeap
  <2>2. QED
    BY <1>1, <1>2, <2>1 DEF Search, RestOK, TypeInv
<1>3. ASSUME NEW bytes \in Requests, New(bytes) \/ NewString(bytes) \/ NewCombined(bytes)
      PROVE  TypeInv'
  BY <1>2, <1>3 DEF New, NewString, NewCombined
<1>4. CASE Hop
  <2>1. mem[cur].next \in Cells \cup {End, NULL, Junk}
    BY <1>1, <1>4 DEF Hop, Typed, Alloc_t
  <2>2. QED
    BY <1>1, <1>4, <2>1 DEF Hop, RestOK, CopyInHeap, TypeInv
<1>5. CASE Place
  BY <1>5, PlaceTyped
<1>6. CASE Overrun
  BY <1>6, FaultTyped DEF Overrun
<1>7. CASE ReturnNull
  BY <1>7, ReturnNullTyped
<1>8. ASSUME Typed(mem'), held' \in [Cells -> Nat], UNCHANGED <<pc, cur, want>>
      PROVE  TypeInv'
  BY <1>1, <1>8 DEF RestOK, CopyInHeap, TypeInv
<1>9. CASE EmptySubStr
  <2>1. 0 \in Cells
    OBVIOUS
  <2>2. Typed(mem')
    BY <1>1, <1>9, <2>1, FlagsTyped, Zenon DEF EmptySubStr
  <2>3. QED
    BY <1>1, <1>8, <1>9, <2>2 DEF RestOK, EmptySubStr
<1>10. CASE ResetHeap
  <2>1. Typed(mem') /\ held' \in [Cells -> Nat]
    BY <1>10 DEF ResetHeap, Typed, Zero, Alloc_t
  <2>2. QED
    BY <1>8, <1>10, <2>1 DEF ResetHeap
<1>11. ASSUME NEW c \in Cells, VMHeapFree(c)
       PROVE  TypeInv'
  <2>1. CASE FreeFaults(mem, c)
    BY <1>11, <2>1, FaultTyped DEF VMHeapFree
  <2>2. CASE ~FreeFaults(mem, c)
    <3>1. Typed(mem') /\ held' \in [Cells -> Nat] /\ UNCHANGED <<pc, cur, want>>
      BY <1>1, <1>11, <2>2, FreedTyped DEF VMHeapFree, RestOK
    <3>2. QED
      BY <1>8, <3>1
  <2>3. QED
    BY <2>1, <2>2
<1>12. ASSUME NEW c \in Cells, NEW bytes \in Requests, VMHeapRealloc(c, bytes)
       PROVE  TypeInv'
  BY <1>12, ReallocTyped
<1>13. ASSUME NEW c \in Cells, NEW x \in Cells, Store(c, x)
       PROVE  TypeInv'
  <2>1. Typed(mem')
    BY <1>1, <1>13 DEF Store, GuestData, Typed, Alloc_t
  <2>2. QED
    BY <1>1, <1>8, <1>13, <2>1 DEF Store, RestOK
<1>14. CASE UNCHANGED vars
  BY <1>14 DEF vars, TypeInv, RestOK, Typed, CopyInHeap
<1>15. QED
  BY <1>3, <1>4, <1>5, <1>6, <1>7, <1>9, <1>10, <1>11, <1>12, <1>13, <1>14 DEF Next

\* Whatever the guest does, until an access that has no meaning: every header is
\* one, and a search is at a header, at the end, at NULL or at guest data.
THEOREM HeapTypes == Spec => []TypeOK
<1>1. TypeInv => TypeOK
  BY DEF TypeInv, TypeOK, RestOK, Typed
<1>2. QED
  BY InitTyped, TypedNext, <1>1, PTL DEF Spec

IInv == TypeOK /\ PointersForward /\ CopyInHeap

\* What an action may do to the heap: keep the cells typed and the links forward.
Forward(m) ==
    /\ m \in [Cells -> Alloc_t]
    /\ \A c \in Cells : /\ m[c].next \in {NULL, Junk} \/ m[c].next >= c
                        /\ m[c].prev \in {NULL, Junk} \/ m[c].prev < c

\* Splitting a block that fits.
LEMMA PlacedForward ==
    ASSUME NEW m, Forward(m), NEW c \in Cells, NEW n \in Nat,
           n > 0, Fits(m, c, n), c + 1 + n < End
    PROVE  Forward(Placed(m, c, n))
<1> DEFINE p == Placed(m, c, n)
           q == c + 1 + n
           mc == [m[c] EXCEPT !.occupied = TRUE, !.safebytes = TRUE, !.next = q]
           mq == [m[q] EXCEPT !.next = m[c].next, !.prev = c]
<1>1. q \in Cells /\ q # c
  OBVIOUS
<1>2. m[c] \in Alloc_t /\ m[q] \in Alloc_t
  BY <1>1 DEF Forward
<1>3. m[c].next = NULL \/ m[c].next >= q
  BY <1>2 DEF Fits, SizeAtLeast, Before, Forward, Alloc_t
<1>4. mc \in Alloc_t /\ mc.next = q /\ mc.prev = m[c].prev
  BY <1>1, <1>2 DEF Alloc_t
<1>5. mq \in Alloc_t /\ mq.next = m[c].next /\ mq.prev = c
  BY <1>1, <1>2 DEF Alloc_t
<1>6. p = [m EXCEPT ![c] = mc, ![q] = mq]
  BY <1>1 DEF Placed
<1> HIDE DEF p, mc, mq
<1>7. p \in [Cells -> Alloc_t] /\ p[c] = mc /\ p[q] = mq /\ \A x \in Cells \ {c, q} : p[x] = m[x]
  BY <1>1, <1>4, <1>5, <1>6 DEF Forward
<1>8. Forward(p)
  BY <1>1, <1>3, <1>4, <1>5, <1>7, SMTT(30) DEF Forward
<1>9. QED
  BY <1>8 DEF p

\* Making a header between a block and the one after its next.
LEMMA ResizedForward ==
    ASSUME NEW m, Forward(m), NEW c \in Cells, NEW n \in Nat,
           n > 0, c + 1 + n < End, m[c].next \in Cells,
           m[m[c].next].next \in {NULL, Junk} \/ m[m[c].next].next >= c + 1 + n
    PROVE  Forward(Resized(m, c, n))
<1> DEFINE p == Resized(m, c, n)
           q == c + 1 + n
           nn == m[m[c].next].next
           mc == [m[c] EXCEPT !.next = q]
           mq == [m[q] EXCEPT !.prev = c, !.safebytes = TRUE, !.next = nn]
<1>1. q \in Cells /\ q # c
  OBVIOUS
<1>2. m[c] \in Alloc_t /\ m[q] \in Alloc_t /\ m[m[c].next] \in Alloc_t
  BY <1>1 DEF Forward
<1>3. nn \in Cells \cup {End, NULL, Junk}
  BY <1>2 DEF Alloc_t
<1>4. mc \in Alloc_t /\ mc.next = q /\ mc.prev = m[c].prev
  BY <1>1, <1>2 DEF Alloc_t
<1>5. mq \in Alloc_t /\ mq.next = nn /\ mq.prev = c
  BY <1>1, <1>2, <1>3 DEF Alloc_t
<1>6. p = [m EXCEPT ![c] = mc, ![q] = mq]
  BY <1>1 DEF Resized
<1> HIDE DEF p, mc, mq
<1>7. p \in [Cells -> Alloc_t] /\ p[c] = mc /\ p[q] = mq /\ \A x \in Cells \ {c, q} : p[x] = m[x]
  BY <1>1, <1>4, <1>5, <1>6 DEF Forward
<1>8. Forward(p)
  BY <1>1, <1>3, <1>4, <1>5, <1>7 DEF Forward
<1>9. QED
  BY <1>8 DEF p

\* Redirecting one next pointer forward, or clearing an occupied byte.
LEMMA NextForward ==
    ASSUME NEW m, Forward(m), NEW c \in Cells, NEW t \in Cells \cup {End, NULL, Junk},
           t \in {NULL, Junk} \/ t >= c
    PROVE  Forward([m EXCEPT ![c].next = t])
<1> DEFINE mc == [m[c] EXCEPT !.next = t]
           p == [m EXCEPT ![c] = mc]
<1>1. mc \in Alloc_t /\ mc.next = t /\ mc.prev = m[c].prev
  BY DEF Forward, Alloc_t
<1> HIDE DEF mc
<1>2. p \in [Cells -> Alloc_t] /\ p[c] = mc /\ \A x \in Cells \ {c} : p[x] = m[x]
  BY <1>1 DEF Forward
<1> HIDE DEF p
<1>3. Forward(p)
  BY <1>1, <1>2 DEF Forward
<1>4. QED
  BY <1>3 DEF p, mc

LEMMA FlagsForward ==
    ASSUME NEW m, Forward(m), NEW c \in Cells, NEW b \in BOOLEAN
    PROVE  Forward([m EXCEPT ![c].occupied = b]) /\ Forward([m EXCEPT ![c].safebytes = b])
<1>1. ASSUME NEW r \in Alloc_t, r.next = m[c].next, r.prev = m[c].prev
      PROVE  Forward([m EXCEPT ![c] = r])
  <2>1. [m EXCEPT ![c] = r] \in [Cells -> Alloc_t]
    BY <1>1 DEF Forward
  <2>2. QED
    BY <1>1, <2>1 DEF Forward
<1>2. /\ [m[c] EXCEPT !.occupied = b] \in Alloc_t
      /\ [m[c] EXCEPT !.occupied = b].next = m[c].next
      /\ [m[c] EXCEPT !.occupied = b].prev = m[c].prev
      /\ [m[c] EXCEPT !.safebytes = b] \in Alloc_t
      /\ [m[c] EXCEPT !.safebytes = b].next = m[c].next
      /\ [m[c] EXCEPT !.safebytes = b].prev = m[c].prev
  BY DEF Forward, Alloc_t
<1>3. QED
  BY <1>1, <1>2

\* Joining a freed block with its neighbours.
LEMMA FreedForward ==
    ASSUME NEW m, Forward(m), NEW c \in Cells, ~FreeFaults(m, c)
    PROVE  Forward(Freed(m, c))
<1> DEFINE prev == m[c].prev
           next == m[c].next
           m1 == IF prev # NULL /\ ~m[prev].occupied
                 THEN [m EXCEPT ![prev].next = next] ELSE m
           m2 == IF next < End /\ ~m1[next].occupied
                 THEN [m1 EXCEPT ![c].next = m1[next].next] ELSE m1
<1>1. /\ next \in Cells \cup {End} /\ next >= c
      /\ prev = NULL \/ (prev \in Cells /\ prev < c)
  BY DEF Forward, FreeFaults, Alloc_t
<1>2. Forward(m1)
  BY <1>1, NextForward
<1> HIDE DEF m1
<1>3. Forward(m2)
  <2>1. CASE next < End /\ ~m1[next].occupied
    <3>1. next \in Cells /\ m1[next].next \in Cells \cup {End, NULL, Junk}
      BY <1>1, <1>2, <2>1 DEF Forward, Alloc_t
    <3>2. m1[next].next \in {NULL, Junk} \/ m1[next].next >= c
      BY <1>1, <1>2, <3>1 DEF Forward
    <3>3. QED
      BY <1>2, <2>1, <3>1, <3>2, NextForward
  <2>2. CASE ~(next < End /\ ~m1[next].occupied)
    BY <1>2, <2>2
  <2>3. QED
    BY <2>1, <2>2
<1>4. Freed(m, c) = [m2 EXCEPT ![c].occupied = FALSE]
  BY DEF Freed, m1
<1> HIDE DEF m2
<1>5. Forward([m2 EXCEPT ![c].occupied = FALSE])
  BY <1>3, FlagsForward, Zenon
<1>6. QED
  BY <1>4, <1>5

LEMMA WrittenForward ==
    ASSUME NEW m, Forward(m), NEW dst \in Int, NEW k \in Int, NEW b \in BOOLEAN
    PROVE  Forward(Written(m, dst, k, b))
<1> DEFINE p == Written(m, dst, k, b)
<1>1. GuestData(b) \in Alloc_t /\ GuestData(b).next = Junk /\ GuestData(b).prev = Junk
  BY DEF GuestData, Alloc_t
<1>2. p = [x \in Cells |-> IF x \in dst .. dst + k - 1 THEN GuestData(b) ELSE m[x]]
  BY DEF Written
<1> HIDE DEF p
<1>3. p \in [Cells -> Alloc_t]
  BY <1>1, <1>2 DEF Forward
<1>4. Forward(p)
  BY <1>1, <1>2, <1>3 DEF Forward
<1>5. QED
  BY <1>4 DEF p

LEMMA StringForward ==
    ASSUME NEW m, Forward(m), NEW dst \in Nat, NEW w \in Wants, NEW b \in BOOLEAN
    PROVE  Forward(StringWritten(m, dst, w, b))
<1> DEFINE text == Written(m, dst, CellsFor(w.bytes), b)
<1>1. w.bytes \in Requests /\ CellsFor(w.bytes) \in Nat
  BY CellsForPositive DEF Wants
<1>2. Forward(text)
  BY <1>1, WrittenForward
<1> HIDE DEF text
<1>3. Forward(Terminated(text, dst, w.bytes))
  BY <1>2, FlagsForward DEF Terminated
<1>4. QED
  BY <1>2, <1>3 DEF StringWritten, text

LEMMA IInvParts == IInv <=> Forward(mem) /\ RestOK
BY DEF IInv, TypeOK, PointersForward, Forward, RestOK

LEMMA IInvPartsNext == IInv' <=> Forward(mem') /\ RestOK'
BY DEF IInv, TypeOK, PointersForward, Forward, RestOK

LEMMA InitIInv == Init => IInv
<1> SUFFICES ASSUME Init PROVE IInv
  OBVIOUS
<1>1. Zero \in Alloc_t /\ Zero.next = NULL /\ Zero.prev = NULL
  BY DEF Zero, Alloc_t
<1> DEFINE first == [Zero EXCEPT !.safebytes = TRUE, !.next = End]
<1>2. first \in Alloc_t /\ first.next = End /\ first.prev = NULL
  BY DEF Zero, Alloc_t
<1>3. mem = [c \in Cells |-> IF c = 0 THEN first ELSE Zero]
  BY DEF Init
<1> HIDE DEF first
<1>4. Forward(mem)
  <2>1. mem \in [Cells -> Alloc_t]
    BY <1>1, <1>2, <1>3
  <2>2. QED
    BY <1>1, <1>2, <1>3, <2>1 DEF Forward
<1>5. RestOK
  BY IdleOK DEF Init, RestOK, CopyInHeap
<1>6. QED
  BY <1>4, <1>5, IInvParts

\* VMHeapAlloc and its callers, all but VMHeapRealloc.
LEMMA PlaceForward ==
    ASSUME Forward(mem), RestOK, want.kind # "move", Place
    PROVE  Forward(mem')
<1>2. Need \in Nat /\ Need > 0 /\ want \in Wants
  BY NeedPositive DEF RestOK
<1>3. cur \in Cells /\ Fits(mem, cur, Need) /\ cur + 1 + Need < End /\ cur + 1 \in Nat
  BY DEF Place
<1> DEFINE placed == Placed(mem, cur, Need)
<1>4. Forward(placed)
  BY <1>2, <1>3, PlacedForward
<1> HIDE DEF placed
<1>5. CASE PlaceRaw
  BY <1>4, <1>5 DEF PlaceRaw, placed
<1>6. CASE PlaceString
  <2>1. PICK b \in BOOLEAN : mem' = StringWritten(placed, cur + 1, want, b)
    BY <1>6 DEF PlaceString, placed
  <2>2. QED
    BY <1>2, <1>3, <1>4, <2>1, StringForward
<1>7. QED
  BY <1>5, <1>6 DEF Place, PlaceMoved

LEMMA ReturnNullForward ==
    ASSUME Forward(mem), RestOK, want.kind # "move", ReturnNull
    PROVE  Forward(mem')
<1>1. want \in Wants
  BY DEF RestOK
<1>2. QED
  BY <1>1, StringForward DEF ReturnNull

\* The ways VMHeapRealloc rearranges headers in place.
LEMMA ReallocForward ==
    ASSUME NEW c \in Cells, NEW bytes \in Requests, Forward(mem),
           VMHeapRealloc(c, bytes)
    PROVE  Forward(mem')
<1> DEFINE n == CellsFor(bytes)
           next == mem[c].next
<1>1. n \in Nat /\ n > 0
  BY CellsForPositive
<1>2. mem[c] \in Alloc_t
  BY DEF Forward
<1> HIDE DEF n
<1>3. ASSUME next \notin {NULL, Junk}
      PROVE  next \in Cells \cup {End} /\ next >= c
  BY <1>2, <1>3 DEF Forward, Alloc_t
<1>4. CASE next \notin {NULL, Junk} /\ Shrink(c, n) /\ ~Fault
  <2>1. next \in Cells /\ n + 1 < next - c /\ mem' = Resized(mem, c, n)
        /\ c + 1 + n < End
    BY <1>1, <1>3, <1>4 DEF Shrink, Before
  <2>2. mem[next].next \in {NULL, Junk} \/ mem[next].next >= c + 1 + n
    <3>1. mem[next] \in Alloc_t
          /\ (mem[next].next \in {NULL, Junk} \/ mem[next].next >= next)
      BY <2>1 DEF Forward
    <3>2. QED
      BY <1>1, <2>1, <3>1 DEF Alloc_t
  <2>3. QED
    BY <1>1, <2>1, <2>2, ResizedForward
<1>5. CASE next \notin {NULL, Junk} /\ Grow(c, n) /\ ~Fault
  <2>1. /\ next \in Cells /\ next >= c /\ c + 1 + n < End
        /\ SizeAtLeast(mem, next, n + 1)
        /\ mem' = Resized(mem, c, n)
    BY <1>1, <1>3, <1>5 DEF Grow, NextSuits
  <2>2. mem[next].next \in {NULL, Junk} \/ mem[next].next >= c + 1 + n
    <3>1. mem[next] \in Alloc_t
          /\ (mem[next].next \in {NULL, Junk} \/ mem[next].next >= next)
      BY <2>1 DEF Forward
    <3>2. QED
      BY <1>1, <2>1, <3>1 DEF SizeAtLeast, Before, Alloc_t
  <2>3. QED
    BY <1>1, <2>1, <2>2, ResizedForward
<1>6. CASE UNCHANGED mem
  BY <1>6
<1>7. QED
  BY <1>4, <1>5, <1>6 DEF VMHeapRealloc, n, Fault, Unresized, Move, Search

LEMMA StepForward ==
    ASSUME Forward(mem), RestOK, pc = "search" => want.kind # "move", [Next]_vars
    PROVE  Forward(mem')
<1>1. CASE UNCHANGED mem
  BY <1>1
<1>2. CASE Place
  BY <1>2, PlaceForward DEF Place
<1>3. CASE ReturnNull
  BY <1>3, ReturnNullForward DEF ReturnNull
<1>4. CASE EmptySubStr
  <2>1. 0 \in Cells /\ FALSE \in BOOLEAN
    OBVIOUS
  <2>2. Forward([mem EXCEPT ![0].safebytes = FALSE])
    BY <2>1, FlagsForward, Zenon
  <2>3. QED
    BY <1>4, <2>2 DEF EmptySubStr
<1>5. CASE ResetHeap
  <2>1. Zero \in Alloc_t /\ Zero.next = NULL /\ Zero.prev = NULL
    BY DEF Zero, Alloc_t
  <2>2. QED
    BY <1>5, <2>1 DEF ResetHeap, Forward
<1>6. ASSUME NEW c \in Cells, VMHeapFree(c)
      PROVE  Forward(mem')
  BY <1>6, FreedForward DEF VMHeapFree, Fault
<1>7. ASSUME NEW c \in Cells, NEW bytes \in Requests, VMHeapRealloc(c, bytes)
      PROVE  Forward(mem')
  BY <1>7, ReallocForward
<1>8. ASSUME NEW c \in Cells, NEW x \in Cells, Store(c, x)
      PROVE  Forward(mem')
  <2>1. PICK b \in BOOLEAN : mem' = [mem EXCEPT ![x] = GuestData(b)]
    BY <1>8 DEF Store
  <2>2. GuestData(b) \in Alloc_t /\ GuestData(b).next = Junk /\ GuestData(b).prev = Junk
    BY DEF GuestData, Alloc_t
  <2>3. QED
    BY <2>1, <2>2 DEF Forward
<1>9. QED
  BY <1>1, <1>2, <1>3, <1>4, <1>5, <1>6, <1>7, <1>8
  DEF Next, vars, New, NewString, NewCombined, Search, Hop, Overrun, Fault

LEMMA NextIInv ==
    IInv /\ (pc = "search" => want.kind # "move") /\ [Next]_vars => IInv'
<1> SUFFICES ASSUME IInv, pc = "search" => want.kind # "move", [Next]_vars PROVE IInv'
  OBVIOUS
<1>1. Forward(mem) /\ RestOK
  BY IInvParts
<1>2. TypeInv
  BY <1>1 DEF TypeInv, Forward, Typed
<1>3. RestOK'
  BY <1>2, TypedNext DEF TypeInv
<1>4. QED
  BY <1>1, <1>3, StepForward, IInvPartsNext

\* Whatever the guest does, no call but the copy of a block that moves makes a
\* link lead backward.
THEOREM LinksTurn == Spec => OnlyMovesTurnBack
<1>1. TypeInv /\ [Next]_vars
      => [PointersForward /\ want.kind # "move" => PointersForward']_vars
  <2> SUFFICES ASSUME TypeInv, [Next]_vars, PointersForward, want.kind # "move"
               PROVE  PointersForward'
    BY DEF vars, PointersForward
  <2>1. Forward(mem) /\ RestOK
    BY DEF TypeInv, Typed, Forward, PointersForward
  <2>2. Forward(mem')
    BY <2>1, StepForward
  <2>3. QED
    BY <2>2 DEF Forward, PointersForward
<1>2. QED
  BY InitTyped, TypedNext, <1>1, PTL DEF Spec, OnlyMovesTurnBack

\* Guests that never resize a block: every link leads forward, or to its own
\* header, whatever they free and in whatever order.
FixedSizes == Ops \cap {"shrink", "grow"} = {}
THEOREM ForwardList == ASSUME FixedSizes PROVE Spec => []PointersForward
<1> DEFINE FInv == IInv /\ (pc = "search" => want.kind # "move")
<1>1. Init => FInv
  BY InitIInv DEF Init
<1>2. FInv /\ [Next]_vars => FInv'
  <2> SUFFICES ASSUME FInv, [Next]_vars PROVE FInv'
    OBVIOUS
  <2>1. IInv'
    BY NextIInv
  <2>2. ASSUME NEW c \in Cells, NEW bytes \in Requests
        PROVE  ~VMHeapRealloc(c, bytes)
    BY DEF VMHeapRealloc, FixedSizes
  <2>3. pc' = "search" => want'.kind # "move"
    BY <2>2 DEF Next, vars, New, NewString, NewCombined, Search, Hop, Place, PlaceRaw,
                PlaceString, PlaceMoved, Overrun, ReturnNull, Fault, Return,
                EmptySubStr, ResetHeap, VMHeapFree, Store
  <2>4. QED
    BY <2>1, <2>3
<1>3. FInv => PointersForward
  BY DEF IInv
<1> HIDE DEF FInv
<1>4. QED
  BY <1>1, <1>2, <1>3, PTL DEF Spec

-----------------------------------------------------------------------------
(* Part 2: guests that free and shrink only the topmost block. *)

StackGuest == /\ "reset" \notin Ops /\ "grow" \notin Ops
              /\ Discipline = "stack" \/ Ops \cap {"free", "shrink"} = {}

(***************************************************************************)
(* The live blocks h lie side by side from the start of the heap m up to   *)
(* cell t, the first header that is not live.                              *)
(***************************************************************************)
Stacked(m, h, t) ==
    /\ t \in Cells /\ h[t] = 0
    /\ t > 0 => h[0] > 0
    /\ m[0].prev = NULL
    /\ \A c \in Cells : h[c] > 0 =>
          /\ c < t /\ c + 1 + h[c] <= t
          /\ c + 1 + h[c] = t \/ h[c + 1 + h[c]] > 0
          /\ m[c].occupied /\ m[c].next = c + 1 + h[c]
    /\ \A c \in Cells : (h[c] > 0 \/ c = t) /\ c > 0 =>
          /\ m[c].prev \in Cells /\ h[m[c].prev] > 0
          /\ m[c].prev + 1 + h[m[c].prev] = c
    /\ \A c, d \in Cells : h[c] > 0 /\ h[d] > 0 /\ c < d => c + h[c] < d

\* Past t the list may go on over headers K that the guest's own data made
\* look occupied.
Beyond(m, t, K) ==
    /\ K \subseteq Cells
    /\ m[t].next \in K \cup {t, End}
    /\ m[t].next = t => m[t].occupied
    /\ \A k \in K : /\ t < k /\ m[t].next <= k
                    /\ m[k].occupied
                    /\ m[k].next \in K \cup {End}

Shape(m, h, t, K) == Stacked(m, h, t) /\ Beyond(m, t, K)

\* Where the search is.  No block is ever moved.
Searching(t, K) ==
    pc = "search" => /\ cur \in K \cup {t, End} \/ (cur \in Cells /\ Live(cur))
                     /\ want.kind # "move"

StackInv ==
    \E t \in Cells, K \in SUBSET Cells :
        Shape(mem, held, t, K) /\ Searching(t, K)

\* Two heaps with the same links and occupied bytes in the cells S.
Same(m, m2, S) ==
    \A x \in S : /\ m2[x].next = m[x].next /\ m2[x].prev = m[x].prev
                 /\ m2[x].occupied = m[x].occupied

\* Past t the list leads forward and never back to t.
LEMMA BeyondForward ==
    ASSUME NEW m, Forward(m), NEW t \in Cells, NEW K \in SUBSET Cells, Beyond(m, t, K),
           NEW k \in K
    PROVE  /\ k \in Cells /\ t < k /\ m[t].next <= k /\ m[k].occupied
           /\ m[k].next \in K \cup {End} /\ m[k].next \in Int /\ k <= m[k].next
<1>1. k \in Cells /\ m[k] \in Alloc_t
  BY DEF Forward
<1>2. t < k /\ m[t].next <= k /\ m[k].occupied /\ m[k].next \in K \cup {End}
  BY DEF Beyond
<1>3. m[k].next \in Cells \cup {End}
  BY <1>2
<1>4. m[k].next \notin {NULL, Junk} /\ m[k].next \in Int
  BY <1>3
<1>5. k <= m[k].next
  BY <1>1, <1>4 DEF Forward
<1>6. QED
  BY <1>1, <1>2, <1>4, <1>5

\* A new block at t.
LEMMA PlacedShape ==
    ASSUME NEW m, Forward(m), NEW m2, NEW h \in [Cells -> Nat],
           NEW t \in Cells, NEW K \in SUBSET Cells, Shape(m, h, t, K),
           NEW n \in Nat, n > 0, Fits(m, t, n), t + 1 + n < End,
           Same(m, m2, Cells \ (t .. t + 1 + n)),
           m2[t].occupied, m2[t].next = t + 1 + n, m2[t].prev = m[t].prev,
           m2[t + 1 + n].next = m[t].next, m2[t + 1 + n].prev = t,
           m2[t + 1 + n].occupied = m[t + 1 + n].occupied
    PROVE  Shape(m2, [h EXCEPT ![t] = n], t + 1 + n, K \ {t + 1 + n})
<1> DEFINE q == t + 1 + n
           h2 == [h EXCEPT ![t] = n]
<1>1. q \in Cells /\ t < q /\ m[t] \in Alloc_t
  BY DEF Forward
<1>2. m[t].next \in K \cup {End} /\ m[t].next >= q
  BY <1>1, SMTT(30) DEF Shape, Beyond, Fits, SizeAtLeast, Before, Forward, Alloc_t
<1>3. h2[t] = n /\ \A c \in Cells \ {t} : h2[c] = h[c]
  OBVIOUS
<1>4. \A c \in Cells : h[c] > 0 => c < t /\ c + 1 + h[c] <= t /\ c \notin t .. q
  BY DEF Shape, Stacked
<1> HIDE DEF h2
<1>5. Stacked(m2, h2, q)
  <2>1. q \in Cells /\ h2[q] = 0 /\ h2[0] > 0
    BY <1>1, <1>3, <1>4 DEF Shape, Stacked
  <2>2. m2[0].prev = NULL
    <3>1. CASE t = 0
      BY <3>1 DEF Shape, Stacked
    <3>2. CASE t # 0
      <4>1. 0 \in Cells \ (t .. q)
        BY <3>2
      <4>2. QED
        BY <4>1 DEF Shape, Stacked, Same
    <3>3. QED
      BY <3>1, <3>2
  <2>3. ASSUME NEW c \in Cells, h2[c] > 0
        PROVE  /\ c < q /\ c + 1 + h2[c] <= q
               /\ c + 1 + h2[c] = q \/ h2[c + 1 + h2[c]] > 0
               /\ m2[c].occupied /\ m2[c].next = c + 1 + h2[c]
    <3>1. CASE c = t
      BY <1>1, <1>3, <3>1
    <3>2. CASE c # t
      <4>1. h[c] > 0 /\ h2[c] = h[c] /\ c \in Cells \ (t .. q)
        BY <1>3, <1>4, <2>3, <3>2
      <4>2. c + 1 + h[c] \in Cells
        BY <1>4, <4>1
      <4>3. m2[c].occupied /\ m2[c].next = c + 1 + h[c]
        <5>1. m2[c].occupied = m[c].occupied /\ m2[c].next = m[c].next
          BY <4>1 DEF Same
        <5>2. QED
          BY <4>1, <5>1 DEF Shape, Stacked
      <4>4. c < q /\ c + 1 + h[c] < q
        <5>1. c < t /\ c + 1 + h[c] <= t
          BY <1>4, <4>1
        <5>2. QED
          BY <1>1, <4>2, <5>1
      <4>5. c + 1 + h[c] = t \/ h[c + 1 + h[c]] > 0
        BY <4>1 DEF Shape, Stacked
      <4>6. h2[c + 1 + h[c]] > 0
        BY <1>3, <4>2, <4>5
      <4>7. QED
        BY <4>1, <4>3, <4>4, <4>6
    <3>3. QED
      BY <3>1, <3>2
  <2>4. ASSUME NEW c \in Cells, (h2[c] > 0 \/ c = q) /\ c > 0
        PROVE  /\ m2[c].prev \in Cells /\ h2[m2[c].prev] > 0
               /\ m2[c].prev + 1 + h2[m2[c].prev] = c
    <3>1. CASE c = q
      BY <1>1, <1>3, <3>1
    <3>2. CASE c # q
      <4>1. h[c] > 0 \/ c = t
        BY <1>3, <2>4, <3>2
      <4>2. m2[c].prev = m[c].prev
        BY <1>4, <4>1 DEF Same
      <4>3. m[c].prev \in Cells /\ h[m[c].prev] > 0 /\ m[c].prev + 1 + h[m[c].prev] = c
        BY <2>4, <4>1 DEF Shape, Stacked
      <4>4. m[c].prev # t
        BY <4>3 DEF Shape, Stacked
      <4>5. QED
        BY <1>3, <4>2, <4>3, <4>4
    <3>3. QED
      BY <3>1, <3>2
  <2>5. ASSUME NEW c \in Cells, NEW d \in Cells, h2[c] > 0 /\ h2[d] > 0 /\ c < d
        PROVE  c + h2[c] < d
    <3>1. c # t
      BY <1>1, <1>3, <1>4, <2>5, SMTT(30)
    <3>2. h[c] > 0 /\ h2[c] = h[c] /\ c + 1 + h[c] <= t
      BY <1>3, <1>4, <2>5, <3>1
    <3>3. CASE d = t
      BY <3>2, <3>3
    <3>4. CASE d # t
      BY <1>3, <2>5, <3>2, <3>4 DEF Shape, Stacked
    <3>5. QED
      BY <3>3, <3>4
  <2>6. QED
    BY <2>1, <2>2, <2>3, <2>4, <2>5 DEF Stacked
<1>6. Beyond(m2, q, K \ {q})
  <2>1. m2[q].next \in (K \ {q}) \cup {q, End} /\ (m2[q].next = q => m2[q].occupied)
    BY <1>1, <1>2 DEF Shape, Beyond
  <2>2. ASSUME NEW k \in K \ {q}
        PROVE  /\ q < k /\ m2[q].next <= k /\ m2[k].occupied
               /\ m2[k].next \in (K \ {q}) \cup {End}
    <3>1. /\ k \in Cells /\ m[t].next <= k /\ m[k].occupied
          /\ m[k].next \in K \cup {End} /\ m[k].next \in Int /\ k <= m[k].next
      BY BeyondForward DEF Shape
    <3>2. m[t].next \in Cells \cup {End} /\ m[t].next \in Int
      <4>1. m[t].next \in Cells \cup {End}
        BY <1>2
      <4>2. QED
        BY <4>1
    <3>3. q < k /\ k \in Cells \ (t .. q)
      <4>1. q <= k /\ q # k
        BY <1>1, <1>2, <3>1, <3>2
      <4>2. QED
        BY <1>1, <3>1, <4>1
    <3>4. m2[k].occupied /\ m2[k].next = m[k].next
      BY <3>1, <3>3 DEF Same
    <3>5. m[k].next # q
      BY <1>1, <3>1, <3>3
    <3>6. QED
      BY <3>1, <3>3, <3>4, <3>5
  <2>3. QED
    BY <2>1, <2>2 DEF Beyond
<1>7. QED
  BY <1>5, <1>6 DEF Shape, h2

\* Writing to no header of the list.
LEMMA SameShape ==
    ASSUME NEW m, NEW m2, NEW h \in [Cells -> Nat], NEW t \in Cells,
           NEW K \in SUBSET Cells, Shape(m, h, t, K),
           \A x \in Cells : x = 0 \/ h[x] > 0 \/ t <= x => Same(m, m2, {x})
    PROVE  Shape(m2, h, t, K)
<1>1. \A x \in Cells : x = 0 \/ h[x] > 0 \/ t <= x =>
         m2[x].next = m[x].next /\ m2[x].prev = m[x].prev /\ m2[x].occupied = m[x].occupied
  BY DEF Same
<1>2. Stacked(m2, h, t)
  <2>1. m2[0].prev = NULL
    BY <1>1 DEF Shape, Stacked
  <2>2. ASSUME NEW c \in Cells, h[c] > 0
        PROVE  /\ c < t /\ c + 1 + h[c] <= t
               /\ c + 1 + h[c] = t \/ h[c + 1 + h[c]] > 0
               /\ m2[c].occupied /\ m2[c].next = c + 1 + h[c]
    <3>1. m2[c].occupied = m[c].occupied /\ m2[c].next = m[c].next
      BY <1>1, <2>2
    <3>2. QED
      BY <2>2, <3>1 DEF Shape, Stacked
  <2>3. ASSUME NEW c \in Cells, (h[c] > 0 \/ c = t) /\ c > 0
        PROVE  /\ m2[c].prev \in Cells /\ h[m2[c].prev] > 0
               /\ m2[c].prev + 1 + h[m2[c].prev] = c
    <3>1. m2[c].prev = m[c].prev
      BY <1>1, <2>3
    <3>2. QED
      BY <2>3, <3>1 DEF Shape, Stacked
  <2>4. QED
    BY <2>1, <2>2, <2>3 DEF Shape, Stacked
<1>3. Beyond(m2, t, K)
  <2>1. m2[t].next = m[t].next /\ m2[t].occupied = m[t].occupied
    BY <1>1
  <2>2. ASSUME NEW k \in K
        PROVE  m2[k].next = m[k].next /\ m2[k].occupied = m[k].occupied
    <3>1. k \in Cells /\ t < k
      BY DEF Shape, Beyond
    <3>2. QED
      BY <1>1, <3>1
  <2>3. QED
    BY <2>1, <2>2 DEF Shape, Beyond
<1>4. QED
  BY <1>2, <1>3 DEF Shape

\* The topmost live block ends at t.
LEMMA TopEndsAtT ==
    ASSUME NEW m, NEW h \in [Cells -> Nat], NEW t \in Cells, Stacked(m, h, t),
           NEW c \in Cells, h[c] > 0, \A d \in Cells : h[d] > 0 => d <= c
    PROVE  c + 1 + h[c] = t /\ m[c].next = t /\ m[c].occupied
<1>1. c + 1 + h[c] <= t /\ c < t /\ (c + 1 + h[c] = t \/ h[c + 1 + h[c]] > 0)
  BY DEF Stacked
<1>2. c + 1 + h[c] \in Cells
  BY <1>1
<1>3. c + 1 + h[c] = t
  BY <1>1, <1>2
<1>4. QED
  BY <1>3 DEF Stacked

\* The topmost block c freed: its header is the new end of the stack.
LEMMA FreedShape ==
    ASSUME NEW m, Forward(m), NEW h \in [Cells -> Nat], NEW t \in Cells,
           NEW K \in SUBSET Cells, Shape(m, h, t, K),
           NEW c \in Cells, h[c] > 0, \A d \in Cells : h[d] > 0 => d <= c
    PROVE  /\ \A x \in Cells \ {c} : Freed(m, c)[x] = m[x]
           /\ Shape(Freed(m, c), [h EXCEPT ![c] = 0], c,
                    IF m[t].occupied THEN K \cup {t} ELSE K)
<1> DEFINE m2 == Freed(m, c)
           h2 == [h EXCEPT ![c] = 0]
           L  == IF m[t].occupied THEN K \cup {t} ELSE K
           nn == IF m[t].occupied THEN t ELSE m[t].next
           mc == [m[c] EXCEPT !.next = nn, !.occupied = FALSE]
<1>1. c + 1 + h[c] = t /\ c < t /\ m[c].next = t /\ m[c].occupied
  <2>1. Stacked(m, h, t)
    BY DEF Shape
  <2>2. c + 1 + h[c] = t /\ m[c].next = t /\ m[c].occupied
    BY <2>1, TopEndsAtT, Zenon
  <2>3. QED
    BY <2>2
<1>2. m[c].prev = NULL \/ (m[c].prev \in Cells /\ m[m[c].prev].occupied)
  <2>1. CASE c = 0
    BY <2>1 DEF Shape, Stacked
  <2>2. CASE c > 0
    <3>1. m[c].prev \in Cells /\ h[m[c].prev] > 0
      BY <2>2 DEF Shape, Stacked
    <3>2. QED
      BY <3>1 DEF Shape, Stacked
  <2>3. QED
    BY <2>1, <2>2
<1>3. m[c] \in Alloc_t /\ m[t] \in Alloc_t
  BY DEF Forward
<1>4. m2[c] = mc /\ \A x \in Cells \ {c} : m2[x] = m[x]
  <2>0. m \in [Cells -> Alloc_t]
    BY DEF Forward
  <2>1. CASE m[t].occupied
    <3>1. m2 = [m EXCEPT ![c].occupied = FALSE]
      BY <1>1, <1>2, <2>1 DEF Freed
    <3>2. [m[c] EXCEPT !.occupied = FALSE] = mc
      BY <1>1, <1>3, <2>1 DEF Alloc_t
    <3>3. QED
      BY <2>0, <3>1, <3>2
  <2>2. CASE ~m[t].occupied
    <3>0. t < End /\ ~(m[c].prev # NULL /\ ~m[m[c].prev].occupied)
      BY <1>2
    <3>1. m2 = [[m EXCEPT ![c].next = m[t].next] EXCEPT ![c].occupied = FALSE]
      BY <1>1, <2>2, <3>0 DEF Freed
    <3>2. [[m[c] EXCEPT !.next = m[t].next] EXCEPT !.occupied = FALSE] = mc
      BY <1>3, <2>2 DEF Alloc_t
    <3>3. /\ m2[c] = [[m[c] EXCEPT !.next = m[t].next] EXCEPT !.occupied = FALSE]
          /\ \A x \in Cells \ {c} : m2[x] = m[x]
      <4> HIDE DEF m2, mc
      <4>1. QED
        BY <2>0, <3>1
    <3>4. QED
      BY <3>2, <3>3
  <2>3. QED
    BY <2>1, <2>2
<1>5. mc.next = nn /\ mc.prev = m[c].prev /\ mc.occupied = FALSE
  BY <1>3 DEF Alloc_t
<1> HIDE DEF m2, mc
<1>6. m2[c] = mc /\ \A x \in Cells \ {c} : m2[x] = m[x]
  BY <1>4
<1>7. h2[c] = 0 /\ \A x \in Cells \ {c} : h2[x] = h[x]
  OBVIOUS
<1> HIDE DEF h2
<1>8. \A x \in Cells \ {c} : m2[x] = m[x]
  BY <1>6
<1>9. Stacked(m2, h2, c)
  <2>1. c > 0 => h2[0] > 0
    BY <1>1, <1>7 DEF Shape, Stacked
  <2>2. m2[0].prev = NULL
    <3>1. m2[0].prev = m[0].prev
      BY <1>5, <1>6
    <3>2. QED
      BY <3>1 DEF Shape, Stacked
  <2>3. ASSUME NEW d \in Cells, h2[d] > 0
        PROVE  /\ d < c /\ d + 1 + h2[d] <= c
               /\ d + 1 + h2[d] = c \/ h2[d + 1 + h2[d]] > 0
               /\ m2[d].occupied /\ m2[d].next = d + 1 + h2[d]
    <3>1. d # c /\ h[d] > 0 /\ h2[d] = h[d] /\ d < c
      BY <1>7, <2>3
    <3>2. d + h[d] < c /\ d + 1 + h[d] \in Cells /\ d + 1 + h[d] # t
      <4>1. d + h[d] < c
        BY <3>1 DEF Shape, Stacked
      <4>2. QED
        BY <1>1, <4>1, SMTT(30)
    <3>3. h[d + 1 + h[d]] > 0 /\ m[d].occupied /\ m[d].next = d + 1 + h[d]
      BY <3>1, <3>2 DEF Shape, Stacked
    <3>4. QED
      BY <1>6, <1>7, <3>1, <3>2, <3>3
  <2>4. ASSUME NEW d \in Cells, (h2[d] > 0 \/ d = c) /\ d > 0
        PROVE  /\ m2[d].prev \in Cells /\ h2[m2[d].prev] > 0
               /\ m2[d].prev + 1 + h2[m2[d].prev] = d
    <3>1. h[d] > 0 /\ d <= c /\ m2[d].prev = m[d].prev
      BY <1>5, <1>6, <1>7, <2>4
    <3>2. m[d].prev \in Cells /\ h[m[d].prev] > 0 /\ m[d].prev + 1 + h[m[d].prev] = d
      BY <2>4, <3>1 DEF Shape, Stacked
    <3>3. m[d].prev # c
      BY <3>1, <3>2
    <3>4. QED
      BY <1>7, <3>1, <3>2, <3>3
  <2>5. ASSUME NEW d \in Cells, NEW e \in Cells, h2[d] > 0 /\ h2[e] > 0 /\ d < e
        PROVE  d + h2[d] < e
    <3>1. h[d] > 0 /\ h[e] > 0 /\ h2[d] = h[d]
      BY <1>7, <2>5
    <3>2. QED
      BY <2>5, <3>1 DEF Shape, Stacked
  <2>6. QED
    BY <1>7, <2>1, <2>2, <2>3, <2>4, <2>5 DEF Stacked
<1>10. Beyond(m2, c, L)
  <2>1. m[t].next \in K \cup {t, End} /\ (m[t].next = t => m[t].occupied)
    BY DEF Shape, Beyond
  <2>2. L \subseteq Cells /\ K \subseteq Cells
    OBVIOUS
  <2>3. m2[c].next = nn /\ nn \in L \cup {End} /\ nn # c
    <3>1. nn \in L \cup {End}
      BY <2>1
    <3>2. nn # c
      <4>1. CASE m[t].occupied
        BY <1>1, <4>1
      <4>2. CASE ~m[t].occupied
        <5>1. m[t].next \in K \cup {End}
          BY <2>1, <4>2
        <5>2. CASE m[t].next \in K
          BY <1>1, <4>2, <5>2, BeyondForward DEF Shape
        <5>3. CASE m[t].next = End
          BY <4>2, <5>3
        <5>4. QED
          BY <5>1, <5>2, <5>3
      <4>3. QED
        BY <4>1, <4>2
    <3>3. QED
      BY <1>5, <1>6, <3>1, <3>2
  <2>4. ASSUME NEW k \in L
        PROVE  /\ c < k /\ m2[c].next <= k /\ m2[k].occupied
               /\ m2[k].next \in L \cup {End}
    <3>1. CASE k \in K
      <4>1. /\ k \in Cells /\ t < k /\ m[t].next <= k /\ m[k].occupied
            /\ m[k].next \in K \cup {End}
        BY <3>1, BeyondForward DEF Shape
      <4>2. m2[k] = m[k] /\ c < k
        <5>1. k \in Cells /\ t \in Int /\ t < k /\ c < t
          BY <1>1, <4>1
        <5>2. k \in Cells \ {c} /\ c < k
          BY <5>1
        <5>3. QED
          BY <1>6, <5>2, Zenon
      <4>3. m2[c].next <= k
        BY <2>3, <4>1
      <4>4. m2[k].occupied /\ m2[k].next \in L \cup {End}
        <5>1. K \subseteq L
          OBVIOUS
        <5>2. m2[k].occupied /\ m2[k].next \in K \cup {End}
          BY <4>1, <4>2
        <5>3. QED
          BY <5>1, <5>2
      <4>5. QED
        BY <4>2, <4>3, <4>4
    <3>2. CASE k = t /\ m[t].occupied
      BY <1>1, <1>6, <2>1, <2>3, <3>2
    <3>3. QED
      BY <3>1, <3>2
  <2>5. QED
    BY <2>2, <2>3, <2>4 DEF Beyond
<1>11. QED
  BY <1>8, <1>9, <1>10 DEF Shape, m2, h2
\* The topmost block c made n cells short: the header after it is the new end.
LEMMA ResizedShape ==
    ASSUME NEW m, Forward(m), NEW h \in [Cells -> Nat], NEW t \in Cells,
           NEW K \in SUBSET Cells, Shape(m, h, t, K),
           NEW c \in Cells, h[c] > 0, \A d \in Cells : h[d] > 0 => d <= c,
           NEW n \in Nat, n > 0, c + 1 + n < t
    PROVE  Shape(Resized(m, c, n), [h EXCEPT ![c] = n], c + 1 + n,
                 IF m[t].next = t THEN K \cup {t} ELSE K)
<1> DEFINE q  == c + 1 + n
           m2 == Resized(m, c, n)
           h2 == [h EXCEPT ![c] = n]
           L  == IF m[t].next = t THEN K \cup {t} ELSE K
           nn == m[t].next
<1>1. c + 1 + h[c] = t /\ c < t /\ m[c].next = t /\ m[c].occupied
  <2>1. Stacked(m, h, t)
    BY DEF Shape
  <2>2. c + 1 + h[c] = t /\ m[c].next = t /\ m[c].occupied
    BY <2>1, TopEndsAtT, Zenon
  <2>3. QED
    BY <2>2
<1>2. c # q /\ c < q /\ q \in Cells
  OBVIOUS
<1>3. m \in [Cells -> Alloc_t]
  BY DEF Forward
<1>4. /\ m2[c].next = q /\ m2[c].prev = m[c].prev /\ m2[c].occupied
      /\ m2[q].next = nn /\ m2[q].prev = c
      /\ \A x \in Cells \ {c, q} : m2[x] = m[x]
  <2>1. m2[c] = [m[c] EXCEPT !.next = q]
    BY <1>2, <1>3 DEF Resized
  <2>2. m2[q] = [m[q] EXCEPT !.prev = c, !.safebytes = TRUE, !.next = nn]
    BY <1>1, <1>2, <1>3 DEF Resized
  <2>3. \A x \in Cells \ {c, q} : m2[x] = m[x]
    BY <1>2, <1>3 DEF Resized
  <2>4. m[c] \in Alloc_t /\ m[q] \in Alloc_t
    BY <1>2, <1>3
  <2> HIDE DEF m2, q, nn
  <2>5. m2[c].next = q /\ m2[c].prev = m[c].prev /\ m2[c].occupied = m[c].occupied
    BY <2>1, <2>4 DEF Alloc_t
  <2>6. m2[q].next = nn /\ m2[q].prev = c
    BY <2>2, <2>4 DEF Alloc_t
  <2>7. QED
    BY <1>1, <2>3, <2>5, <2>6
<1> HIDE DEF m2
<1>5. h2[c] = n /\ \A x \in Cells \ {c} : h2[x] = h[x]
  OBVIOUS
<1> HIDE DEF h2
<1>6. h[q] = 0 /\ h2[q] = 0
  <2>1. ~(h[q] > 0)
    BY <1>2
  <2>2. h[q] = 0
    BY <1>2, <2>1
  <2>3. QED
    BY <1>2, <1>5, <2>2
<1>7. Stacked(m2, h2, q)
  <2>1. h2[0] > 0
    <3>1. CASE c = 0
      BY <1>5, <3>1
    <3>2. CASE c # 0
      <4>1. h[0] > 0
        BY <1>1 DEF Shape, Stacked
      <4>2. QED
        BY <1>5, <3>2, <4>1
    <3>3. QED
      BY <3>1, <3>2
  <2>2. m2[0].prev = NULL
    <3>1. m2[0].prev = m[0].prev
      <4>1. 0 = c \/ 0 \in Cells \ {c, q}
        BY <1>2
      <4>2. QED
        BY <1>4, <4>1
    <3>2. QED
      BY <3>1 DEF Shape, Stacked
  <2>3. ASSUME NEW d \in Cells, h2[d] > 0
        PROVE  /\ d < q /\ d + 1 + h2[d] <= q
               /\ d + 1 + h2[d] = q \/ h2[d + 1 + h2[d]] > 0
               /\ m2[d].occupied /\ m2[d].next = d + 1 + h2[d]
    <3>1. CASE d = c
      BY <1>4, <1>5, <3>1
    <3>2. CASE d # c
      <4>1. h[d] > 0 /\ h2[d] = h[d] /\ d < c
        BY <1>5, <2>3, <3>2
      <4>2. d + h[d] < c /\ d + 1 + h[d] \in Cells /\ d + 1 + h[d] # t
        <5>1. d + h[d] < c
          BY <4>1 DEF Shape, Stacked
        <5>2. QED
          BY <1>1, <5>1, SMTT(30)
      <4>3. h[d + 1 + h[d]] > 0 /\ m[d].occupied /\ m[d].next = d + 1 + h[d]
        BY <4>1, <4>2 DEF Shape, Stacked
      <4>4. d \in Cells \ {c, q}
        BY <1>2, <4>1
      <4>5. h2[d + 1 + h[d]] > 0
        BY <1>5, <4>2, <4>3
      <4>6. QED
        BY <1>2, <1>4, <4>1, <4>2, <4>3, <4>4, <4>5, SMTT(30)
    <3>3. QED
      BY <3>1, <3>2
  <2>4. ASSUME NEW d \in Cells, (h2[d] > 0 \/ d = q) /\ d > 0
        PROVE  /\ m2[d].prev \in Cells /\ h2[m2[d].prev] > 0
               /\ m2[d].prev + 1 + h2[m2[d].prev] = d
    <3>1. CASE d = q
      BY <1>4, <1>5, <3>1
    <3>2. CASE d # q
      <4>1. h[d] > 0 /\ d <= c /\ m2[d].prev = m[d].prev
        BY <1>4, <1>5, <2>4, <3>2
      <4>2. m[d].prev \in Cells /\ h[m[d].prev] > 0 /\ m[d].prev + 1 + h[m[d].prev] = d
        BY <2>4, <4>1 DEF Shape, Stacked
      <4>3. m[d].prev # c
        BY <4>1, <4>2
      <4>4. QED
        BY <1>5, <4>1, <4>2, <4>3
    <3>3. QED
      BY <3>1, <3>2
  <2>5. ASSUME NEW d \in Cells, NEW e \in Cells, h2[d] > 0 /\ h2[e] > 0 /\ d < e
        PROVE  d + h2[d] < e
    <3>1. d # c /\ h2[d] = h[d] /\ h[d] > 0 /\ h[e] > 0
      <4>1. h[e] > 0 /\ e <= c
        BY <1>1, <1>5, <2>5
      <4>2. QED
        BY <1>5, <2>5, <4>1
    <3>2. QED
      BY <2>5, <3>1 DEF Shape, Stacked
  <2>6. QED
    BY <1>2, <1>6, <2>1, <2>2, <2>3, <2>4, <2>5 DEF Stacked
<1>8. Beyond(m2, q, L)
  <2>1. nn \in K \cup {t, End} /\ (nn = t => m[t].occupied)
    BY DEF Shape, Beyond
  <2>2. nn \in Int /\ t <= nn /\ q < nn
    <3>1. nn \in Cells \cup {End}
      BY <2>1
    <3>2. nn \in Int /\ nn \notin {NULL, Junk}
      BY <3>1
    <3>3. t <= nn
      BY <3>2 DEF Forward
    <3>4. QED
      BY <1>2, <3>2, <3>3
  <2>3. K \subseteq L /\ L \subseteq Cells /\ nn \in L \cup {End}
    BY <2>1
  <2>4. ASSUME NEW k \in K
        PROVE  q < k /\ nn <= k /\ m2[k].occupied /\ m2[k].next \in K \cup {End}
    <3>1. k \in Cells /\ t < k /\ nn <= k /\ m[k].occupied /\ m[k].next \in K \cup {End}
      BY BeyondForward DEF Shape
    <3>2. q < k
      BY <1>2, <2>2, <3>1
    <3>3. k \in Cells \ {c, q}
      BY <1>2, <3>1, <3>2, SMTT(30)
    <3>4. m2[k] = m[k]
      BY <1>4, <3>3, Zenon
    <3>5. QED
      BY <3>1, <3>2, <3>4
  <2>5. nn = t => q < t /\ m2[t].occupied /\ m2[t].next = t
    <3>1. SUFFICES ASSUME nn = t PROVE q < t /\ m2[t].occupied /\ m2[t].next = t
      OBVIOUS
    <3>2. q < t /\ m[t].occupied
      BY <2>1, <2>2, <3>1
    <3>3. t \in Cells \ {c, q}
      BY <1>1, <1>2, <3>2
    <3>4. m2[t] = m[t]
      BY <1>4, <3>3, Zenon
    <3>5. QED
      BY <3>1, <3>2, <3>4
  <2>6. ASSUME NEW k \in L
        PROVE  q < k /\ nn <= k /\ m2[k].occupied /\ m2[k].next \in L \cup {End}
    <3>1. CASE k \in K
      BY <2>3, <2>4, <3>1
    <3>2. CASE k \notin K
      <4>1. k = t /\ nn = t /\ t \in L
        BY <3>2
      <4>2. QED
        BY <2>2, <2>5, <4>1
    <3>3. QED
      BY <3>1, <3>2
  <2>7. m2[q].next = nn /\ nn # q
    BY <1>2, <1>4, <2>2
  <2> HIDE DEF L, nn
  <2>8. QED
    BY <2>3, <2>6, <2>7 DEF Beyond
<1>9. QED
  BY <1>7, <1>8 DEF Shape, m2, h2
\* Between requests only the heap's shape matters.
LEMMA StackAtRest ==
    ASSUME NEW t \in Cells, NEW K \in SUBSET Cells, Shape(mem', held', t, K),
           pc' # "search"
    PROVE  StackInv'
BY DEF StackInv, Searching

LEMMA StackInit == Init => StackInv
<1> SUFFICES ASSUME Init PROVE StackInv
  OBVIOUS
<1>1. 0 \in Cells /\ {} \in SUBSET Cells
  OBVIOUS
<1>2. /\ mem[0].next = End /\ mem[0].prev = NULL /\ held \in [Cells -> Nat]
      /\ \A c \in Cells : held[c] = 0
  BY <1>1 DEF Init, Zero
<1>3. Stacked(mem, held, 0)
  BY <1>1, <1>2 DEF Stacked
<1>4. Beyond(mem, 0, {})
  BY <1>1, <1>2 DEF Beyond
<1>5. pc = "idle"
  BY DEF Init
<1>6. QED
  BY <1>1, <1>3, <1>4, <1>5 DEF StackInv, Shape, Searching

\* The search meets live blocks, then t, then occupied headers: it can only
\* stop at t.
LEMMA SearchStopsAtT ==
    ASSUME IInv, NEW t \in Cells, NEW K \in SUBSET Cells,
           Shape(mem, held, t, K), Searching(t, K),
           pc = "search"
    PROVE  /\ cur # NULL
           /\ cur \in Cells /\ Fits(mem, cur, Need) => cur = t /\ want.kind # "move"
<1>1. cur \in K \cup {t, End} \/ (cur \in Cells /\ held[cur] > 0)
  BY DEF Searching, Live
<1>2. cur \in Cells \cup {End}
  BY <1>1
<1>3. ASSUME cur \in Cells, Fits(mem, cur, Need), cur # t PROVE FALSE
  <2>1. ~mem[cur].occupied
    BY <1>3 DEF Fits
  <2>2. cur \notin K
    BY <2>1 DEF Shape, Beyond
  <2>3. ~(held[cur] > 0)
    BY <1>3, <2>1 DEF Shape, Stacked
  <2>4. cur # End
    BY <1>3
  <2>5. QED
    BY <1>1, <1>3, <2>2, <2>3, <2>4
<1>4. cur # NULL
  BY <1>2
<1>5. ASSUME cur \in Cells, Fits(mem, cur, Need)
      PROVE  cur = t /\ want.kind # "move"
  BY <1>3, <1>5 DEF Searching
<1>6. QED
  BY <1>4, <1>5

LEMMA HopStack == ASSUME IInv, StackInv, Hop PROVE StackInv'
<1>1. PICK t \in Cells, K \in SUBSET Cells :
          Shape(mem, held, t, K) /\ Searching(t, K)
  BY DEF StackInv
<1>2. /\ pc = "search" /\ cur \in Cells /\ cur' = mem[cur].next
      /\ mem' = mem /\ held' = held /\ pc' = pc /\ want' = want
  BY DEF Hop
<1>3. cur \in K \cup {t} \/ held[cur] > 0
  BY <1>1, <1>2 DEF Searching, Live
<1>4. held \in [Cells -> Nat]
  BY DEF IInv, TypeOK
<1>5. cur' \in K \cup {t, End} \/ (cur' \in Cells /\ held[cur'] > 0)
  <2>1. CASE cur \in K \cup {t}
    <3>1. mem[cur].next \in K \cup {t, End}
      BY <1>1, <2>1 DEF Shape, Beyond
    <3>2. QED
      BY <1>2, <3>1
  <2>2. CASE held[cur] > 0
    <3>1. /\ cur + 1 + held[cur] <= t /\ mem[cur].next = cur + 1 + held[cur]
          /\ cur + 1 + held[cur] = t \/ held[cur + 1 + held[cur]] > 0
      BY <1>1, <1>2, <2>2 DEF Shape, Stacked
    <3>2. cur + 1 + held[cur] \in Cells
      BY <1>2, <1>4, <3>1
    <3>3. QED
      BY <1>2, <3>1, <3>2
  <2>3. QED
    BY <1>3, <2>1, <2>2
<1>6. Shape(mem', held', t, K)
  BY <1>1, <1>2
<1>7. Searching(t, K)'
  BY <1>1, <1>2, <1>5 DEF Searching, Live, Fits, SizeAtLeast, Need
<1>8. QED
  BY <1>6, <1>7 DEF StackInv

\* What the split and the string written into the new block leave in the heap:
\* the block's header, the header after it but for its safe bytes, and all else.
LEMMA PlaceWrites ==
    ASSUME IInv, Place, want.kind # "move", NEW q, q = cur + 1 + Need
    PROVE  /\ cur \in Cells /\ q \in Cells /\ cur < q /\ Need \in Nat /\ Need > 0
           /\ pc' = "idle" /\ held' = [held EXCEPT ![cur] = Need]
           /\ \A x \in Cells \ (cur .. q) : mem'[x] = mem[x]
           /\ mem'[cur].occupied /\ mem'[cur].safebytes
           /\ mem'[cur].next = q /\ mem'[cur].prev = mem[cur].prev
           /\ mem'[q].next = mem[cur].next /\ mem'[q].prev = cur
           /\ mem'[q].occupied = mem[q].occupied
<1>1. pc = "search" /\ cur \in Cells /\ Fits(mem, cur, Need) /\ cur + 1 + Need < End
  BY DEF Place
<1>2. Need \in Nat /\ Need > 0 /\ want.bytes \in Requests
  BY CellsForPositive DEF IInv, TypeOK, Wants, Need
<1> DEFINE n == Need
           t == cur
           p == Placed(mem, t, n)
<1>3. mem \in [Cells -> Alloc_t] /\ held \in [Cells -> Nat] /\ Forward(mem)
  BY DEF IInv, TypeOK, PointersForward, Forward
<1>4. q \in Cells /\ t < q /\ q = t + 1 + n
  BY <1>1, <1>2
<1> HIDE DEF n
<1>5. /\ p[t].occupied /\ p[t].safebytes /\ p[t].next = q /\ p[t].prev = mem[t].prev
      /\ p[q].next = mem[t].next /\ p[q].prev = t /\ p[q].occupied = mem[q].occupied
      /\ \A x \in Cells \ {t, q} : p[x] = mem[x]
  <2>1. p[t] = [mem[t] EXCEPT !.occupied = TRUE, !.safebytes = TRUE, !.next = q]
    <3>1. t \in DOMAIN mem /\ t # q
      BY <1>1, <1>3, <1>4
    <3>2. p = [mem EXCEPT ![t] = [mem[t] EXCEPT !.occupied = TRUE, !.safebytes = TRUE, !.next = q],
                          ![q] = [mem[q] EXCEPT !.next = mem[t].next, !.prev = t]]
      BY <1>4 DEF Placed
    <3> HIDE DEF p
    <3>3. QED
      BY <3>1, <3>2
  <2>2. p[q] = [mem[q] EXCEPT !.next = mem[t].next, !.prev = t]
    BY <1>1, <1>3, <1>4 DEF Placed
  <2>3. \A x \in Cells \ {t, q} : p[x] = mem[x]
    BY <1>1, <1>3, <1>4 DEF Placed
  <2>4. mem[t] \in Alloc_t /\ mem[q] \in Alloc_t
    BY <1>1, <1>3, <1>4
  <2> HIDE DEF p
  <2>5. p[t].occupied /\ p[t].safebytes /\ p[t].next = q /\ p[t].prev = mem[t].prev
    BY <2>1, <2>4 DEF Alloc_t
  <2>6. p[q].next = mem[t].next /\ p[q].prev = t /\ p[q].occupied = mem[q].occupied
    BY <2>2, <2>4 DEF Alloc_t
  <2>7. QED
    BY <2>3, <2>5, <2>6
<1>6. p \in [Cells -> Alloc_t]
  <2>1. Forward(p)
    BY <1>1, <1>2, <1>3, PlacedForward DEF n
  <2>2. QED
    BY <2>1 DEF Forward
<1>7. /\ pc' = "idle" /\ held' = [held EXCEPT ![cur] = Need]
      /\ mem' = p \/ \E b \in BOOLEAN : mem' = StringWritten(p, t + 1, want, b)
  BY DEF Place, PlaceRaw, PlaceString, PlaceMoved, Return, n
<1> HIDE DEF p
<1> DEFINE Kept(x) == /\ x # q => mem'[x] = p[x]
                      /\ mem'[x].next = p[x].next /\ mem'[x].prev = p[x].prev
                      /\ mem'[x].occupied = p[x].occupied
<1>8. ASSUME NEW x \in Cells, x \notin t + 1 .. q - 1 PROVE Kept(x)
  <2>1. CASE mem' = p
    BY <2>1
  <2>2. ASSUME NEW b \in BOOLEAN, mem' = StringWritten(p, t + 1, want, b)
        PROVE  Kept(x)
    <3> DEFINE w == Written(p, t + 1, n, b)
    <3>1. w[x] = p[x]
      BY <1>1, <1>2, <1>4, <1>8 DEF Written, n
    <3>2. w \in [Cells -> Alloc_t]
      BY <1>6 DEF Written, GuestData, Alloc_t
    <3>3. mem' = w \/ mem' = Terminated(w, t + 1, want.bytes)
      BY <2>2 DEF StringWritten, n, Need
    <3> HIDE DEF w
    <3>4. mem' = w \/ mem' = [w EXCEPT ![q].safebytes = FALSE]
      <4>1. CASE mem' = w
        BY <4>1
      <4>2. CASE mem' = Terminated(w, t + 1, want.bytes) /\ mem' # w
        <5>1. /\ want.bytes % HDR = 0
              /\ mem' = [w EXCEPT ![t + 1 + want.bytes \div HDR].safebytes = FALSE]
          BY <4>2 DEF Terminated
        <5>2. want.bytes \div HDR = n
          BY <1>2, <5>1 DEF n, Need, CellsFor, HDR
        <5>3. t + 1 + n = q
          BY <1>4
        <5>4. QED
          BY <5>1, <5>2, <5>3
      <4>3. QED
        BY <3>3, <4>1, <4>2
    <3>5. w[x] \in Alloc_t
      BY <3>2
    <3>6. mem'[x] = w[x] \/ (x = q /\ mem'[x] = [w[x] EXCEPT !.safebytes = FALSE])
      BY <1>4, <3>2, <3>4
    <3>7. QED
      BY <3>1, <3>5, <3>6 DEF Alloc_t
  <2>3. QED
    BY <1>7, <2>1, <2>2
<1>9. \A x \in Cells : x \in {t, q} \/ x \notin t .. q => x \notin t + 1 .. q - 1
  BY <1>1, <1>4
<1>10. \A x \in Cells \ (t .. q) : mem'[x] = mem[x]
  <2>1. ASSUME NEW x \in Cells \ (t .. q) PROVE mem'[x] = mem[x]
    <3>1. x \in Cells \ {t, q} /\ x \notin t + 1 .. q - 1
      BY <1>1, <1>4, <1>9
    <3>2. QED
      BY <1>5, <1>8, <3>1
  <2>2. QED
    BY <2>1
<1>11. mem'[t] = p[t] /\ mem'[q].next = p[q].next /\ mem'[q].prev = p[q].prev
       /\ mem'[q].occupied = p[q].occupied
  BY <1>1, <1>4, <1>8, <1>9
<1>12. QED
  BY <1>1, <1>2, <1>4, <1>5, <1>7, <1>10, <1>11

LEMMA PlaceStack == ASSUME IInv, StackInv, Place PROVE StackInv'
<1>1. PICK t \in Cells, K \in SUBSET Cells :
          Shape(mem, held, t, K) /\ Searching(t, K)
  BY DEF StackInv
<1>2. pc = "search" /\ cur \in Cells /\ Fits(mem, cur, Need) /\ cur + 1 + Need < End
  BY DEF Place
<1>3. cur = t /\ want.kind # "move"
  BY <1>1, <1>2, SearchStopsAtT
<1> DEFINE q == t + 1 + Need
<1>4. /\ mem \in [Cells -> Alloc_t] /\ held \in [Cells -> Nat] /\ Forward(mem)
  BY DEF IInv, TypeOK, PointersForward, Forward
<1>5. /\ q \in Cells /\ Need \in Nat /\ Need > 0
      /\ pc' # "search" /\ held' = [held EXCEPT ![t] = Need]
      /\ \A x \in Cells \ (t .. q) : mem'[x] = mem[x]
      /\ mem'[t].occupied /\ mem'[t].next = q /\ mem'[t].prev = mem[t].prev
      /\ mem'[q].next = mem[t].next /\ mem'[q].prev = t
      /\ mem'[q].occupied = mem[q].occupied
  BY <1>3, PlaceWrites
<1>6. Same(mem, mem', Cells \ (t .. q))
  BY <1>5 DEF Same
<1>7. Shape(mem', [held EXCEPT ![t] = Need], q, K \ {q})
  BY <1>1, <1>2, <1>3, <1>4, <1>5, <1>6, PlacedShape
<1>8. QED
  BY <1>5, <1>7, StackAtRest

LEMMA FaultStack == ASSUME StackInv, Fault PROVE StackInv'
<1>1. PICK t \in Cells, K \in SUBSET Cells : Shape(mem, held, t, K)
  BY DEF StackInv
<1>2. Shape(mem', held', t, K) /\ pc' # "search"
  BY <1>1 DEF Fault
<1>3. QED
  BY <1>2, StackAtRest

\* The block that a stack guest frees or shrinks is the topmost.
LEMMA MineIsTop ==
    ASSUME StackGuest, NEW c \in Cells, Mine(c),
           Ops \cap {"free", "shrink"} # {}
    PROVE  held[c] > 0 /\ \A d \in Cells : held[d] > 0 => d <= c
BY DEF StackGuest, Mine, Live

LEMMA FreeStack ==
    ASSUME StackGuest, IInv, StackInv, NEW c \in Cells, VMHeapFree(c)
    PROVE  StackInv'
<1>1. CASE FreeFaults(mem, c)
  BY <1>1, FaultStack DEF VMHeapFree
<1>2. CASE ~FreeFaults(mem, c)
  <2>1. PICK t \in Cells, K \in SUBSET Cells : Shape(mem, held, t, K)
    BY DEF StackInv
  <2>2. held[c] > 0 /\ \A d \in Cells : held[d] > 0 => d <= c
    BY MineIsTop DEF VMHeapFree
  <2>3. Forward(mem) /\ held \in [Cells -> Nat]
    BY DEF IInv, TypeOK, PointersForward, Forward
  <2>4. mem' = Freed(mem, c) /\ held' = [held EXCEPT ![c] = 0] /\ pc' # "search"
    BY <1>2 DEF VMHeapFree
  <2> DEFINE L == IF mem[t].occupied THEN K \cup {t} ELSE K
  <2>5. Shape(Freed(mem, c), [held EXCEPT ![c] = 0], c, L)
    BY <2>1, <2>2, <2>3, FreedShape
  <2>6. L \in SUBSET Cells
    OBVIOUS
  <2> HIDE DEF L
  <2>7. QED
    BY <2>4, <2>5, <2>6, StackAtRest
<1>3. QED
  BY <1>1, <1>2

LEMMA ReallocStack ==
    ASSUME StackGuest, IInv, StackInv, NEW c \in Cells, NEW bytes \in Requests,
           VMHeapRealloc(c, bytes)
    PROVE  StackInv'
<1> DEFINE n == CellsFor(bytes)
<1>1. PICK t \in Cells, K \in SUBSET Cells : Shape(mem, held, t, K)
  BY DEF StackInv
<1>2. held[c] > 0 /\ \A d \in Cells : held[d] > 0 => d <= c
  <2>1. Mine(c) /\ "shrink" \in Ops
    BY DEF VMHeapRealloc, StackGuest
  <2>2. QED
    BY <2>1, MineIsTop
<1>3. Forward(mem) /\ mem \in [Cells -> Alloc_t] /\ held \in [Cells -> Nat]
  BY DEF IInv, TypeOK, PointersForward, Forward
<1>4. n \in Nat /\ n > 0
  BY CellsForPositive
<1> HIDE DEF n
<1>5. c + 1 + held[c] = t /\ mem[c].next = t
  <2>1. Stacked(mem, held, t)
    BY <1>1 DEF Shape
  <2>2. c + 1 + held[c] = t /\ mem[c].next = t /\ mem[c].occupied
    BY <1>2, <1>3, <2>1, TopEndsAtT
  <2>3. QED
    BY <2>2
<1>6. n <= held[c]
  BY DEF VMHeapRealloc, StackGuest, n
<1>7. CASE Fault
  BY <1>7, FaultStack
<1>8. CASE Unresized(c, n)
  <2>1. held' = held /\ mem' = mem /\ pc' # "search"
    BY <1>3, <1>4, <1>5, <1>8 DEF Unresized, VMHeapRealloc
  <2>2. QED
    BY <1>1, <2>1, StackAtRest
<1>9. CASE Shrink(c, n) /\ ~Fault
  <2>0. ~Before(mem, c)
    BY <1>3, <1>5 DEF Before
  <2>1. /\ n + 1 < t - c /\ mem' = Resized(mem, c, n)
        /\ held' = [held EXCEPT ![c] = n] /\ pc' # "search"
    BY <1>5, <1>9, <2>0 DEF Shrink, VMHeapRealloc
  <2>2. c + 1 + n < t /\ c + 1 + n \in Cells
    BY <1>4, <2>1
  <2> DEFINE L == IF mem[t].next = t THEN K \cup {t} ELSE K
  <2>3. Shape(Resized(mem, c, n), [held EXCEPT ![c] = n], c + 1 + n, L)
    BY <1>1, <1>2, <1>3, <1>4, <2>2, ResizedShape
  <2>4. L \in SUBSET Cells
    OBVIOUS
  <2> HIDE DEF L
  <2>5. QED
    BY <2>1, <2>2, <2>3, <2>4, StackAtRest
<1>10. SizeAtLeast(mem, c, n + 1)
  BY <1>3, <1>4, <1>5, <1>6 DEF SizeAtLeast
<1>11. QED
  BY <1>7, <1>8, <1>9, <1>10 DEF VMHeapRealloc, Grow, Move, n

\* Guests write into their own data, which holds no header of the list.
LEMMA StoreStack ==
    ASSUME IInv, StackInv, NEW c \in Cells, NEW x \in Cells, Store(c, x)
    PROVE  StackInv'
<1>1. PICK t \in Cells, K \in SUBSET Cells : Shape(mem, held, t, K)
  BY DEF StackInv
<1>2. PICK b \in BOOLEAN : mem' = [mem EXCEPT ![x] = GuestData(b)]
  BY DEF Store
<1>3. mem \in [Cells -> Alloc_t] /\ held \in [Cells -> Nat]
  BY DEF IInv, TypeOK
<1>4. held[c] > 0 /\ x \in c + 1 .. c + held[c] /\ held' = held /\ pc' # "search"
  BY DEF Store, Live, Payload
<1>5. c + 1 + held[c] <= t /\ (held[x] > 0 => ~(c < x) \/ c + held[c] < x)
  BY <1>1, <1>4 DEF Shape, Stacked
<1>6. x # 0 /\ x < t /\ ~(held[x] > 0)
  BY <1>3, <1>4, <1>5, SMTT(30)
<1>7. ASSUME NEW y \in Cells, y = 0 \/ held[y] > 0 \/ t <= y
      PROVE  Same(mem, mem', {y})
  <2>1. y # x
    BY <1>6, <1>7
  <2>2. QED
    BY <1>2, <1>3, <2>1 DEF Same
<1>8. Shape(mem', held, t, K)
  BY <1>1, <1>3, <1>7, SameShape
<1>9. QED
  BY <1>4, <1>8, StackAtRest

LEMMA StackNotMoving == StackInv => (pc = "search" => want.kind # "move")
BY DEF StackInv, Searching

LEMMA StackNext == ASSUME StackGuest, IInv, StackInv, [Next]_vars PROVE StackInv'
<1>1. PICK t \in Cells, K \in SUBSET Cells :
          Shape(mem, held, t, K) /\ Searching(t, K)
  BY DEF StackInv
<1>2. mem \in [Cells -> Alloc_t] /\ held \in [Cells -> Nat]
  BY DEF IInv, TypeOK
<1>3. ASSUME NEW kind \in {"raw", "string", "combined"}, NEW bytes \in Requests,
             Search(kind, bytes, 0, 0)
      PROVE  StackInv'
  <2>1. mem' = mem /\ held' = held /\ cur' = 0 /\ want'.kind # "move"
    BY <1>3 DEF Search
  <2>2. 0 \in Cells /\ (0 = t \/ held[0] > 0)
    BY <1>1 DEF Shape, Stacked
  <2>3. Searching(t, K)'
    BY <2>1, <2>2 DEF Searching, Live
  <2>4. QED
    BY <1>1, <2>1, <2>3 DEF StackInv
<1>4. ASSUME NEW bytes \in Requests, New(bytes) \/ NewString(bytes) \/ NewCombined(bytes)
      PROVE  StackInv'
  BY <1>3, <1>4 DEF New, NewString, NewCombined
<1>5. CASE Hop
  BY <1>5, HopStack
<1>6. CASE Place
  BY <1>6, PlaceStack
<1>7. CASE Overrun
  BY <1>7, FaultStack DEF Overrun
<1>8. CASE ReturnNull
  BY <1>1, <1>8, SearchStopsAtT DEF ReturnNull
<1>9. CASE EmptySubStr
  <2>1. mem' = [mem EXCEPT ![0].safebytes = FALSE] /\ held' = held /\ pc' # "search"
    BY <1>9 DEF EmptySubStr
  <2>2. \A y \in Cells : Same(mem, mem', {y})
    <3>1. \A y \in Cells : /\ mem[y] \in Alloc_t
                           /\ mem'[y] = mem[y] \/ mem'[y] = [mem[y] EXCEPT !.safebytes = FALSE]
      BY <1>2, <2>1
    <3>2. ASSUME NEW y \in Cells
          PROVE  /\ mem'[y].next = mem[y].next /\ mem'[y].prev = mem[y].prev
                 /\ mem'[y].occupied = mem[y].occupied
      BY <3>1 DEF Alloc_t
    <3>3. QED
      BY <3>2 DEF Same
  <2>3. Shape(mem', held, t, K)
    BY <1>1, <1>2, <2>2, SameShape
  <2>4. QED
    BY <2>1, <2>3, StackAtRest
<1>10. CASE ResetHeap
  BY <1>10 DEF ResetHeap, StackGuest
<1>11. ASSUME NEW c \in Cells, VMHeapFree(c) PROVE StackInv'
  BY <1>11, FreeStack
<1>12. ASSUME NEW c \in Cells, NEW bytes \in Requests, VMHeapRealloc(c, bytes)
       PROVE  StackInv'
  BY <1>12, ReallocStack
<1>13. ASSUME NEW c \in Cells, NEW x \in Cells, Store(c, x) PROVE StackInv'
  BY <1>13, StoreStack
<1>14. CASE UNCHANGED vars
  BY <1>14 DEF vars, StackInv, Shape, Stacked, Beyond, Searching, Live, Fits,
               SizeAtLeast, Need
<1>15. QED
  BY <1>4, <1>5, <1>6, <1>7, <1>8, <1>9, <1>10, <1>11, <1>12, <1>13, <1>14 DEF Next

\* What the shape gives: live blocks apart from each other, their headers whole,
\* and no free block before a free block.
LEMMA StackInvSafe ==
    ASSUME IInv, StackInv PROVE LiveDisjoint /\ LiveHeaders /\ FreeJoined
<1>1. PICK t \in Cells, K \in SUBSET Cells : Shape(mem, held, t, K)
  BY DEF StackInv
<1>2. mem \in [Cells -> Alloc_t] /\ held \in [Cells -> Nat]
  BY DEF IInv, TypeOK
<1>3. LiveDisjoint
  BY <1>1 DEF Shape, Stacked, LiveDisjoint, Live
<1>4. LiveHeaders
  <2>1. ASSUME NEW c \in Cells, held[c] > 0
        PROVE  mem[c].occupied /\ mem[c].next = c + 1 + held[c] /\ mem[c].next < End
    <3>1. mem[c].occupied /\ mem[c].next = c + 1 + held[c] /\ c + 1 + held[c] <= t
      BY <1>1, <2>1 DEF Shape, Stacked
    <3>2. QED
      BY <1>2, <3>1
  <2>2. QED
    BY <2>1 DEF LiveHeaders, Live
<1>5. FreeJoined
  <2>1. ASSUME NEW c \in Cells, Listed(c), ~mem[c].occupied, mem[c].next \in Cells
        PROVE  mem[mem[c].next].occupied
    <3>1. ~(held[c] > 0)
      BY <1>1, <2>1 DEF Shape, Stacked
    <3>2. c = t
      <4>1. CASE c = 0
        BY <1>1, <3>1, <4>1 DEF Shape, Stacked
      <4>2. ASSUME NEW d \in Cells, held[d] > 0, mem[d].next = c PROVE c = t
        BY <1>1, <3>1, <4>2 DEF Shape, Stacked
      <4>3. QED
        BY <2>1, <4>1, <4>2 DEF Listed, Live
    <3>3. mem[t].next \in K \cup {t, End} /\ (mem[t].next = t => mem[t].occupied)
      BY <1>1 DEF Shape, Beyond
    <3>4. mem[t].next \in K
      BY <2>1, <3>2, <3>3
    <3>5. QED
      BY <1>1, <3>2, <3>4 DEF Shape, Beyond
  <2>2. QED
    BY <2>1 DEF FreeJoined
<1>6. QED
  BY <1>3, <1>4, <1>5

\* A guest that frees and resizes only the topmost block it holds never gets
\* memory of a block it still holds, and the headers of its blocks stay exact.
THEOREM StackSafe ==
    ASSUME StackGuest PROVE Spec => [](LiveDisjoint /\ LiveHeaders /\ FreeJoined)
<1>1. IInv /\ StackInv /\ [Next]_vars => (IInv /\ StackInv)'
  BY NextIInv, StackNotMoving, StackNext
<1>2. IInv /\ StackInv => LiveDisjoint /\ LiveHeaders /\ FreeJoined
  BY StackInvSafe
<1>3. QED
  BY InitIInv, StackInit, <1>1, <1>2, PTL DEF Spec
-----------------------------------------------------------------------------
(* Part 3: the steps of AbstractHeap. *)

\* The cell x is data of a live block, of the lengths h.
Owned(h, x) == \E c \in Cells : h[c] > 0 /\ x \in c + 1 .. c + h[c]

\* What the guest is entitled to see of the heap.
Seen == [x \in Cells |-> IF \E c \in Cells : Live(c) /\ x \in Payload(c)
                         THEN mem[x] ELSE Zero]

LEMMA SeenNow == \A x \in Cells : Seen[x] = IF Owned(held, x) THEN mem[x] ELSE Zero
BY DEF Seen, Owned, Live, Payload

LEMMA SeenNext ==
    \A x \in Cells : Seen'[x] = IF Owned(held', x) THEN mem'[x] ELSE Zero
BY DEF Seen, Owned, Live, Payload

\* Blocks of the lengths h share no cell.
Apart(h) == \A c, d \in Cells : h[c] > 0 /\ h[d] > 0 /\ c < d => c + h[c] < d

\* A block of n cells at t, above all others.
LEMMA MallocStep ==
    ASSUME held \in [Cells -> Nat], mem' \in [Cells -> Alloc_t],
           NEW t \in Cells, NEW n \in Nat, n > 0, t + n < End, held[t] = 0,
           held' = [held EXCEPT ![t] = n],
           \A d \in Cells : held[d] > 0 => d + held[d] < t,
           \A x \in Cells : x < t => mem'[x] = mem[x]
    PROVE  Abs!Next
<1>1. \A x \in Cells \ (t + 1 .. t + n) : Owned(held', x) <=> Owned(held, x)
  BY DEF Owned
<1>2. \A x \in Cells : Owned(held, x) => x < t
  BY DEF Owned
<1>3. \A x \in t + 1 .. t + n : x \in Cells /\ Owned(held', x)
  BY DEF Owned
<1>4. \A x \in Cells \ (t + 1 .. t + n) : Seen'[x] = Seen[x]
  BY <1>1, <1>2, SeenNow, SeenNext
<1>5. \A x \in t + 1 .. t + n : Seen'[x] \in Alloc_t
  BY <1>3, SeenNext
<1>6. \A d \in Cells \ {t} : held[d] > 0 => d + held[d] < t \/ t + n < d
  OBVIOUS
<1>7. Abs!Malloc(t, n)
  BY <1>4, <1>5, <1>6 DEF Abs!Malloc, Abs!Room, Abs!KeptOutside, Seen
<1>8. n \in 1 .. HeapCells
  OBVIOUS
<1>9. QED
  BY <1>7, <1>8 DEF Abs!Next

\* Block c made n cells long instead of h[c], none of them if n is 0.
LEMMA OwnedShorter ==
    ASSUME NEW h \in [Cells -> Nat], Apart(h), NEW c \in Cells, h[c] > 0,
           NEW n \in Nat, n <= h[c], NEW x \in Cells
    PROVE  Owned([h EXCEPT ![c] = n], x) <=> Owned(h, x) /\ x \notin c + n + 1 .. c + h[c]
<1> DEFINE h2 == [h EXCEPT ![c] = n]
<1>1. h2[c] = n /\ \A d \in Cells \ {c} : h2[d] = h[d]
  OBVIOUS
<1> HIDE DEF h2
<1>2. ASSUME NEW d \in Cells, h2[d] > 0, x \in d + 1 .. d + h2[d]
      PROVE  Owned(h, x) /\ x \notin c + n + 1 .. c + h[c]
  <2>1. CASE d = c
    <3>1. x \in c + 1 .. c + h[c] /\ x <= c + n
      BY <1>1, <1>2, <2>1
    <3>2. QED
      BY <3>1 DEF Owned
  <2>2. CASE d # c
    <3>1. h[d] > 0 /\ x \in d + 1 .. d + h[d]
      BY <1>1, <1>2, <2>2
    <3>2. d + h[d] < c \/ c + h[c] < d
      BY <2>2, <3>1 DEF Apart
    <3>3. x \notin c + n + 1 .. c + h[c]
      BY <3>1, <3>2
    <3>4. QED
      BY <3>1, <3>3 DEF Owned
  <2>3. QED
    BY <2>1, <2>2
<1>3. ASSUME NEW d \in Cells, h[d] > 0, x \in d + 1 .. d + h[d],
             x \notin c + n + 1 .. c + h[c]
      PROVE  h2[d] > 0 /\ x \in d + 1 .. d + h2[d]
  BY <1>1, <1>3
<1>4. QED
  BY <1>2, <1>3 DEF Owned, h2

\* The header of a block lies in no block.
LEMMA HeaderNotOwned ==
    ASSUME NEW h \in [Cells -> Nat], Apart(h), NEW c \in Cells, h[c] > 0
    PROVE  ~Owned(h, c)
<1> SUFFICES ASSUME NEW d \in Cells, h[d] > 0, c \in d + 1 .. d + h[d] PROVE FALSE
  BY DEF Owned
<1>1. d < c /\ c <= d + h[d] /\ h[d] \in Nat
  OBVIOUS
<1>2. d + h[d] < c
  BY <1>1 DEF Apart
<1>3. QED
  BY <1>1, <1>2

\* Block c given back: its cells are nobody's, all others stay as they are.
LEMMA FreeStep ==
    ASSUME held \in [Cells -> Nat], Apart(held), NEW c \in Cells, held[c] > 0,
           held' = [held EXCEPT ![c] = 0],
           c + held[c] < End,
           \A x \in Cells \ {c} : mem'[x] = mem[x]
    PROVE  Abs!Next
<1>1. \A x \in Cells : Owned(held', x) <=> Owned(held, x) /\ x \notin c + 1 .. c + held[c]
  <2>1. 0 \in Nat /\ 0 <= held[c] /\ c + 0 + 1 = c + 1
    OBVIOUS
  <2>2. QED
    BY <2>1, OwnedShorter
<1>2. ~Owned(held, c)
  BY HeaderNotOwned
<1>3. \A x \in Cells \ (c + 1 .. c + held[c]) : Seen'[x] = Seen[x]
  BY <1>1, <1>2, SeenNow, SeenNext
<1>4. \A x \in c + 1 .. c + held[c] : x \in Cells => Seen'[x] = Zero
  BY <1>1, SeenNext
<1>5. Abs!Free(c)
  BY <1>3, <1>4 DEF Abs!Free, Abs!KeptOutside, Abs!Payload, Seen
<1>6. QED
  BY <1>5 DEF Abs!Next

\* Block c, in place, n cells long instead of held[c], and not longer.
LEMMA ShrinkStep ==
    ASSUME held \in [Cells -> Nat], Apart(held), NEW c \in Cells,
           NEW n \in Nat, n > 0, n < held[c], c + held[c] < End,
           held' = [held EXCEPT ![c] = n],
           \A x \in Cells \ {c, c + 1 + n} : mem'[x] = mem[x]
    PROVE  Abs!Next
<1> DEFINE gone == c + n + 1 .. c + held[c]
<1>0. held[c] \in Nat /\ n <= held[c] /\ held[c] > 0
  OBVIOUS
<1>1. \A x \in Cells : Owned(held', x) <=> Owned(held, x) /\ x \notin gone
  BY <1>0, OwnedShorter
<1>2. ~Owned(held, c) /\ c + 1 + n \in gone /\ gone \subseteq Cells
  <2>1. ~Owned(held, c)
    BY <1>0, HeaderNotOwned
  <2>2. c + 1 + n \in gone /\ gone \subseteq Cells
    BY <1>0
  <2>3. QED
    BY <2>1, <2>2
<1> HIDE DEF gone
<1>3. \A x \in Cells \ gone : Seen'[x] = Seen[x]
  BY <1>1, <1>2, SeenNow, SeenNext
<1>4. \A x \in gone : x \in Cells /\ Seen'[x] = Zero
  BY <1>1, <1>2, SeenNext
<1>5. \A d \in Cells \ {c} : held[d] > 0 => d + held[d] < c \/ c + n < d
  BY DEF Apart
<1>6. c + held[c] + 1 .. c + n = {} /\ c + n < End
  BY <1>0
<1> DEFINE S == (c + held[c] + 1 .. c + n) \cup (c + n + 1 .. c + held[c])
<1>7. Abs!Resize(c, n)
  <2>1. Abs!Room(c, n)
    BY <1>5, <1>6 DEF Abs!Room
  <2>2. \A x \in c + held[c] + 1 .. c + n : Seen'[x] \in Alloc_t
    BY <1>6
  <2>3. \A x \in c + n + 1 .. c + held[c] : Seen'[x] = Zero
    BY <1>4 DEF gone
  <2>4. \A x \in Cells \ S : Seen'[x] = Seen[x]
    BY <1>3 DEF gone
  <2> HIDE DEF S
  <2>5. Abs!KeptOutside(S)
    BY <2>4 DEF Abs!KeptOutside, Seen
  <2>6. QED
    BY <1>0, <2>1, <2>2, <2>3, <2>5 DEF Abs!Resize, Seen, S
<1>8. n \in 1 .. HeapCells
  OBVIOUS
<1>9. QED
  BY <1>7, <1>8 DEF Abs!Next

\* A cell of block c written by the guest.
LEMMA WriteStep ==
    ASSUME held \in [Cells -> Nat], mem' \in [Cells -> Alloc_t],
           NEW c \in Cells, held[c] > 0, NEW x \in Cells, x \in c + 1 .. c + held[c],
           held' = held,
           \A y \in Cells \ {x} : mem'[y] = mem[y]
    PROVE  Abs!Next
<1>1. \A y \in Cells \ {x} : Seen'[y] = Seen[y]
  BY SeenNow, SeenNext
<1>2. Seen'[x] \in Alloc_t
  BY SeenNext DEF Owned
<1>3. x \in Abs!Payload(c)
  BY DEF Abs!Payload
<1>4. Abs!Write(c, x)
  BY <1>1, <1>2, <1>3 DEF Abs!Write, Abs!KeptOutside, Seen
<1>5. QED
  BY <1>3, <1>4 DEF Abs!Next

LEMMA RestartStep == held' = [c \in Cells |-> 0] => Abs!Next
<1> SUFFICES ASSUME held' = [c \in Cells |-> 0] PROVE Abs!Next
  OBVIOUS
<1>1. \A x \in Cells : Seen'[x] = Zero
  BY SeenNext DEF Owned
<1>2. Seen' = [x \in Cells |-> Zero]
  BY <1>1 DEF Seen
<1>3. Abs!Restart
  BY <1>2 DEF Abs!Restart, Seen
<1>4. QED
  BY <1>3 DEF Abs!Next

\* Nothing the guest is entitled to see changes.
LEMMA StutterStep ==
    ASSUME held' = held, \A x \in Cells : Owned(held, x) => mem'[x] = mem[x]
    PROVE  UNCHANGED Abs!avars
<1>1. \A x \in Cells : Seen'[x] = Seen[x]
  BY SeenNow, SeenNext
<1>2. Seen' = Seen
  BY <1>1 DEF Seen
<1>3. QED
  BY <1>2 DEF Abs!avars, Seen

LEMMA AbsInit == Init => Abs!Init
<1> SUFFICES ASSUME Init PROVE Abs!Init
  OBVIOUS
<1>1. \A x \in Cells : Seen[x] = Zero
  BY SeenNow DEF Owned, Init
<1>2. Seen = [x \in Cells |-> Zero]
  BY <1>1 DEF Seen
<1>3. QED
  BY <1>2 DEF Abs!Init, Init, Seen

-----------------------------------------------------------------------------
(* Part 4: guests that free and shrink only the topmost block. *)

\* What the stack's shape says of the lengths of the blocks.
LEMMA StackApart ==
    ASSUME IInv, StackInv
    PROVE  /\ Apart(held) /\ held \in [Cells -> Nat] /\ mem \in [Cells -> Alloc_t]
           /\ \A c \in Cells : held[c] > 0 => c + held[c] < End
           /\ ~Owned(held, 0)
<1>1. LiveDisjoint /\ LiveHeaders
  BY StackInvSafe
<1>2. held \in [Cells -> Nat] /\ mem \in [Cells -> Alloc_t]
  BY DEF IInv, TypeOK
<1>3. Apart(held)
  BY <1>1 DEF Apart, LiveDisjoint, Live
<1>4. ASSUME NEW c \in Cells, held[c] > 0 PROVE c + held[c] < End
  <2>1. held[c] \in Nat /\ Live(c)
    BY <1>2, <1>4 DEF Live
  <2>2. c + 1 + held[c] < End
    BY <1>1, <2>1 DEF LiveHeaders
  <2>3. QED
    BY <2>1, <2>2
<1>5. ~Owned(held, 0)
  BY <1>2 DEF Owned
<1>6. QED
  BY <1>2, <1>3, <1>4, <1>5

LEMMA PlaceStackStep == ASSUME IInv, IInv', StackInv, Place PROVE Abs!Next
<1>1. PICK t \in Cells, K \in SUBSET Cells :
          Shape(mem, held, t, K) /\ Searching(t, K)
  BY DEF StackInv
<1>2. cur = t /\ want.kind # "move"
  BY <1>1, SearchStopsAtT DEF Place
<1> DEFINE q == t + 1 + Need
<1>3. /\ q \in Cells /\ Need \in Nat /\ Need > 0 /\ held' = [held EXCEPT ![t] = Need]
      /\ \A x \in Cells \ (t .. q) : mem'[x] = mem[x]
  BY <1>2, PlaceWrites
<1>4. held \in [Cells -> Nat] /\ mem' \in [Cells -> Alloc_t]
  BY DEF IInv, TypeOK
<1>5. held[t] = 0 /\ \A d \in Cells : held[d] > 0 => d + held[d] < t
  <2>1. held[t] = 0 /\ \A d \in Cells : held[d] > 0 => d + 1 + held[d] <= t
    BY <1>1 DEF Shape, Stacked
  <2>2. QED
    BY <1>4, <2>1
<1>6. t + Need < End /\ \A x \in Cells : x < t => mem'[x] = mem[x]
  BY <1>3
<1>7. QED
  BY <1>3, <1>4, <1>5, <1>6, MallocStep

LEMMA FreeStackStep ==
    ASSUME StackGuest, IInv, StackInv, NEW c \in Cells, VMHeapFree(c)
    PROVE  Abs!Next \/ (mem' = mem /\ held' = held)
<1>1. CASE FreeFaults(mem, c)
  BY <1>1 DEF VMHeapFree, Fault
<1>2. CASE ~FreeFaults(mem, c)
  <2>1. PICK t \in Cells, K \in SUBSET Cells : Shape(mem, held, t, K)
    BY DEF StackInv
  <2>2. held[c] > 0 /\ \A d \in Cells : held[d] > 0 => d <= c
    BY MineIsTop DEF VMHeapFree
  <2>3. Forward(mem) /\ held \in [Cells -> Nat]
    BY DEF IInv, TypeOK, PointersForward, Forward
  <2>4. mem' = Freed(mem, c) /\ held' = [held EXCEPT ![c] = 0]
    BY <1>2 DEF VMHeapFree
  <2>5. \A x \in Cells \ {c} : mem'[x] = mem[x]
    BY <2>1, <2>2, <2>3, <2>4, FreedShape
  <2>6. QED
    BY <2>2, <2>4, <2>5, StackApart, FreeStep
<1>3. QED
  BY <1>1, <1>2

\* The ways VMHeapRealloc ends for a block of its own: nothing to do, or a new
\* header put into the block.
LEMMA ReallocStackWrites ==
    ASSUME StackGuest, IInv, StackInv, NEW c \in Cells, NEW bytes \in Requests,
           VMHeapRealloc(c, bytes)
    PROVE  \/ mem' = mem /\ held' = held
           \/ /\ held[c] > 0
              /\ \E n \in Nat : /\ n > 0 /\ n < held[c]
                                /\ held' = [held EXCEPT ![c] = n]
                                /\ mem' = Resized(mem, c, n)
<1> DEFINE n == CellsFor(bytes)
<1>1. PICK t \in Cells, K \in SUBSET Cells : Shape(mem, held, t, K)
  BY DEF StackInv
<1>2. held[c] > 0 /\ \A d \in Cells : held[d] > 0 => d <= c
  <2>1. Mine(c) /\ "shrink" \in Ops
    BY DEF VMHeapRealloc, StackGuest
  <2>2. QED
    BY <2>1, MineIsTop
<1>3. held \in [Cells -> Nat] /\ n \in Nat /\ n > 0 /\ n <= held[c]
  BY CellsForPositive DEF IInv, TypeOK, VMHeapRealloc, StackGuest
<1> HIDE DEF n
<1>4. mem[c].next = c + 1 + held[c]
  BY <1>1, <1>2 DEF Shape, Stacked
<1>5. CASE Fault
  BY <1>5 DEF Fault
<1>6. CASE Unresized(c, n)
  BY <1>3, <1>4, <1>6 DEF Unresized
<1>7. CASE Shrink(c, n) /\ ~Fault
  <2>1. /\ n + 1 < mem[c].next - c /\ mem' = Resized(mem, c, n)
        /\ held' = [held EXCEPT ![c] = n]
    BY <1>3, <1>4, <1>7 DEF Shrink, Before
  <2>2. n < held[c]
    BY <1>3, <1>4, <2>1
  <2>3. QED
    BY <1>2, <1>3, <2>1, <2>2
<1>8. SizeAtLeast(mem, c, n + 1)
  BY <1>3, <1>4 DEF SizeAtLeast
<1>9. QED
  BY <1>5, <1>6, <1>7, <1>8 DEF VMHeapRealloc, Grow, Move, n

LEMMA ReallocStackStep ==
    ASSUME StackGuest, IInv, StackInv, NEW c \in Cells, NEW bytes \in Requests,
           VMHeapRealloc(c, bytes)
    PROVE  Abs!Next \/ (mem' = mem /\ held' = held)
<1>1. CASE mem' = mem /\ held' = held
  BY <1>1
<1>2. ASSUME held[c] > 0, NEW n \in Nat, n > 0, n < held[c],
             held' = [held EXCEPT ![c] = n], mem' = Resized(mem, c, n)
      PROVE  Abs!Next
  <2>1. /\ Apart(held) /\ held \in [Cells -> Nat] /\ c + held[c] < End
        /\ mem \in [Cells -> Alloc_t]
    BY <1>2, StackApart
  <2>2. \A x \in Cells \ {c, c + 1 + n} : mem'[x] = mem[x]
    BY <1>2, <2>1 DEF Resized
  <2>3. QED
    BY <1>2, <2>1, <2>2, ShrinkStep
<1>3. QED
  BY <1>1, <1>2, ReallocStackWrites

LEMMA StoreStep ==
    ASSUME IInv, IInv', NEW c \in Cells, NEW x \in Cells, Store(c, x)
    PROVE  Abs!Next
<1>1. PICK b \in BOOLEAN : mem' = [mem EXCEPT ![x] = GuestData(b)]
  BY DEF Store
<1>2. held[c] > 0 /\ x \in c + 1 .. c + held[c] /\ held' = held
  BY DEF Store, Live, Payload
<1>3. /\ held \in [Cells -> Nat] /\ mem \in [Cells -> Alloc_t]
      /\ mem' \in [Cells -> Alloc_t]
  BY DEF IInv, TypeOK
<1>4. \A y \in Cells \ {x} : mem'[y] = mem[y]
  BY <1>1, <1>3
<1>5. QED
  BY <1>2, <1>3, <1>4, WriteStep

\* Every step of a stack guest's heap is a step of AbstractHeap, or changes
\* nothing the guest is entitled to see.
LEMMA StackStep ==
    ASSUME StackGuest, IInv, IInv', StackInv, [Next]_vars
    PROVE  [Abs!Next]_Abs!avars
<1>1. mem' = mem /\ held' = held => UNCHANGED Abs!avars
  BY StutterStep
<1>2. ASSUME NEW bytes \in Requests, New(bytes) \/ NewString(bytes) \/ NewCombined(bytes)
      PROVE  mem' = mem /\ held' = held
  BY <1>2 DEF New, NewString, NewCombined, Search
<1>3. Hop \/ Overrun \/ UNCHANGED vars => mem' = mem /\ held' = held
  BY DEF Hop, Overrun, Fault, vars
<1>4. Place => Abs!Next
  BY PlaceStackStep
<1>5. ~ReturnNull
  <2>1. PICK t \in Cells, K \in SUBSET Cells :
            Shape(mem, held, t, K) /\ Searching(t, K)
    BY DEF StackInv
  <2>2. QED
    BY <2>1, SearchStopsAtT DEF ReturnNull
<1>6. EmptySubStr => UNCHANGED Abs!avars
  <2>1. SUFFICES ASSUME EmptySubStr PROVE UNCHANGED Abs!avars
    OBVIOUS
  <2>2. held' = held /\ mem' = [mem EXCEPT ![0].safebytes = FALSE]
    BY <2>1 DEF EmptySubStr
  <2>3. \A x \in Cells : Owned(held, x) => mem'[x] = mem[x]
    BY <2>2, StackApart
  <2>4. QED
    BY <2>2, <2>3, StutterStep
<1>7. ResetHeap => Abs!Next
  BY RestartStep DEF ResetHeap
<1>8. ASSUME NEW c \in Cells, VMHeapFree(c)
      PROVE  Abs!Next \/ (mem' = mem /\ held' = held)
  BY <1>8, FreeStackStep
<1>9. ASSUME NEW c \in Cells, NEW bytes \in Requests, VMHeapRealloc(c, bytes)
      PROVE  Abs!Next \/ (mem' = mem /\ held' = held)
  BY <1>9, ReallocStackStep
<1>10. ASSUME NEW c \in Cells, NEW x \in Cells, Store(c, x)
       PROVE  Abs!Next
  BY <1>10, StoreStep
<1>11. QED
  BY <1>1, <1>2, <1>3, <1>4, <1>5, <1>6, <1>7, <1>8, <1>9, <1>10 DEF Next

\* To a guest that frees and shrinks only the topmost of its blocks, the heap is
\* what AbstractHeap promises: blocks where no other lies, that stay where they
\* are and keep what was stored in them (VMHeapAlloc, VMHeapFree, VMHeapRealloc).
THEOREM StackRefines == ASSUME StackGuest PROVE Spec => AbsSpec
<1>1. IInv /\ StackInv /\ [Next]_vars => (IInv /\ StackInv)'
  BY NextIInv, StackNotMoving, StackNext
<1>2. IInv /\ StackInv /\ (IInv /\ StackInv)' /\ [Next]_vars => [Abs!Next]_Abs!avars
  BY StackStep
<1>3. QED
  BY InitIInv, StackInit, AbsInit, <1>1, <1>2, PTL DEF Spec, AbsSpec, Abs!Spec

\* Only STRCPY of no characters touches the safe bytes of a live block: those of
\* the first header.
SafeButFirst ==
    \A c \in Cells : Live(c) => mem[c].safebytes \/ (c = 0 /\ "empty" \in Ops)

LEMMA SafeInit == Init => SafeButFirst
BY DEF Init, SafeButFirst, Live

\* Writing to no header of a live block.
LEMMA SafeKept ==
    ASSUME SafeButFirst, held' = held,
           \A d \in Cells : held[d] > 0 => mem'[d] = mem[d]
    PROVE  SafeButFirst'
BY DEF SafeButFirst, Live

LEMMA SafeNext ==
    ASSUME StackGuest, IInv, StackInv, SafeButFirst, [Next]_vars
    PROVE  SafeButFirst'
<1>1. /\ Apart(held) /\ held \in [Cells -> Nat] /\ mem \in [Cells -> Alloc_t]
  BY StackApart
<1>2. CASE mem' = mem /\ held' = held
  BY <1>2, SafeKept
<1>3. CASE Place
  <2>1. PICK t \in Cells, K \in SUBSET Cells :
            Shape(mem, held, t, K) /\ Searching(t, K)
    BY DEF StackInv
  <2>2. cur = t /\ want.kind # "move"
    BY <1>3, <2>1, SearchStopsAtT DEF Place
  <2> DEFINE q == t + 1 + Need
  <2>3. /\ q \in Cells /\ held' = [held EXCEPT ![t] = Need] /\ mem'[t].safebytes
        /\ \A x \in Cells \ (t .. q) : mem'[x] = mem[x]
    BY <1>3, <2>2, PlaceWrites
  <2>4. \A d \in Cells : held[d] > 0 => d < t
    BY <2>1 DEF Shape, Stacked
  <2> HIDE DEF q
  <2>5. \A d \in Cells : held'[d] > 0 => d = t \/ (held[d] > 0 /\ mem'[d] = mem[d])
    BY <1>1, <2>3, <2>4
  <2>6. QED
    BY <2>3, <2>5 DEF SafeButFirst, Live
<1>4. CASE EmptySubStr
  <2>1. /\ "empty" \in Ops /\ held' = held
        /\ \A d \in Cells \ {0} : mem'[d] = mem[d]
    BY <1>1, <1>4 DEF EmptySubStr
  <2>2. QED
    BY <2>1 DEF SafeButFirst, Live
<1>5. ASSUME NEW c \in Cells, VMHeapFree(c), ~FreeFaults(mem, c)
      PROVE  SafeButFirst'
  <2>1. PICK t \in Cells, K \in SUBSET Cells : Shape(mem, held, t, K)
    BY DEF StackInv
  <2>2. held[c] > 0 /\ \A d \in Cells : held[d] > 0 => d <= c
    BY <1>5, MineIsTop DEF VMHeapFree
  <2>3. Forward(mem)
    BY DEF IInv, TypeOK, PointersForward, Forward
  <2>4. mem' = Freed(mem, c) /\ held' = [held EXCEPT ![c] = 0]
    BY <1>5 DEF VMHeapFree
  <2>5. \A x \in Cells \ {c} : mem'[x] = mem[x] /\ held'[x] = held[x]
    BY <1>1, <2>1, <2>2, <2>3, <2>4, FreedShape
  <2>6. held'[c] = 0
    BY <1>1, <2>4
  <2>7. QED
    BY <2>5, <2>6 DEF SafeButFirst, Live
<1>6. ASSUME NEW c \in Cells, NEW bytes \in Requests, VMHeapRealloc(c, bytes)
      PROVE  SafeButFirst'
  <2>1. ASSUME held[c] > 0, NEW n \in Nat, n > 0, n < held[c],
               held' = [held EXCEPT ![c] = n], mem' = Resized(mem, c, n)
        PROVE  SafeButFirst'
    <3>1. c + 1 + n \in Cells /\ c + 1 + n # c
      BY <1>1, <2>1, StackApart
    <3>2. mem'[c] = [mem[c] EXCEPT !.next = c + 1 + n]
      BY <1>1, <2>1, <3>1 DEF Resized
    <3>3. mem'[c].safebytes = mem[c].safebytes
      BY <1>1, <3>2 DEF Alloc_t
    <3>4. \A x \in Cells \ {c, c + 1 + n} : mem'[x] = mem[x]
      BY <1>1, <2>1 DEF Resized
    <3>5. ~(held[c + 1 + n] > 0)
      BY <1>1, <2>1, <3>1 DEF Apart
    <3>6. \A x \in Cells : held'[x] > 0 =>
             held[x] > 0 /\ mem'[x].safebytes = mem[x].safebytes
      BY <1>1, <2>1, <3>3, <3>4, <3>5
    <3>7. QED
      BY <3>6 DEF SafeButFirst, Live
  <2>2. QED
    BY <1>2, <1>6, <2>1, ReallocStackWrites
<1>7. ASSUME NEW c \in Cells, NEW x \in Cells, Store(c, x)
      PROVE  SafeButFirst'
  <2>1. held[c] > 0 /\ x \in c + 1 .. c + held[c] /\ held' = held
        /\ \A y \in Cells \ {x} : mem'[y] = mem[y]
    BY <1>1, <1>7 DEF Store, Live, Payload
  <2>2. ~(held[x] > 0)
    BY <1>1, <2>1 DEF Apart
  <2>3. QED
    BY <2>1, <2>2, SafeKept
<1>8. ~ReturnNull /\ ~ResetHeap
  <2>1. PICK t \in Cells, K \in SUBSET Cells :
            Shape(mem, held, t, K) /\ Searching(t, K)
    BY DEF StackInv
  <2>2. QED
    BY <2>1, SearchStopsAtT DEF ReturnNull, ResetHeap, StackGuest
<1>9. ASSUME NEW bytes \in Requests, New(bytes) \/ NewString(bytes) \/ NewCombined(bytes)
      PROVE  mem' = mem /\ held' = held
  BY <1>9 DEF New, NewString, NewCombined, Search
<1>10. Hop \/ Overrun \/ UNCHANGED vars => mem' = mem /\ held' = held
  BY DEF Hop, Overrun, Fault, vars
<1>11. ASSUME NEW c \in Cells, VMHeapFree(c), FreeFaults(mem, c)
       PROVE  mem' = mem /\ held' = held
  BY <1>11 DEF VMHeapFree, Fault
<1>12. QED
  BY <1>2, <1>3, <1>4, <1>5, <1>6, <1>7, <1>8, <1>9, <1>10, <1>11 DEF Next

\* A stack guest that takes no empty substrings is never told of "heap memory
\* corruption" when it frees a block it holds: the safe bytes that VMHeapFree
\* looks for are in every header of its blocks.
THEOREM StackSafebytes ==
    ASSUME StackGuest, "empty" \notin Ops PROVE Spec => []LiveSafebytes
<1>1. IInv /\ StackInv /\ SafeButFirst /\ [Next]_vars
      => (IInv /\ StackInv /\ SafeButFirst)'
  BY NextIInv, StackNotMoving, StackNext, SafeNext
<1>2. SafeButFirst => LiveSafebytes
  BY DEF SafeButFirst, LiveSafebytes
<1>3. QED
  BY InitIInv, StackInit, SafeInit, <1>1, <1>2, PTL DEF Spec

-----------------------------------------------------------------------------
(* Part 5: guests that never free or resize a block. They may store anything *)
(* in their blocks, make strings of any kind and be started again on a       *)
(* zeroed heap.                                                              *)

BumpGuest == Ops \cap {"free", "shrink", "grow"} = {}

(***************************************************************************)
(* The live blocks h fill the heap m up to cell t, which is free to the    *)
(* end of the heap, or, after a restart, to a NULL.                        *)
(***************************************************************************)
Bump(m, h, t) ==
    /\ t \in Cells /\ h[t] = 0
    /\ \A c \in Cells : h[c] > 0 =>
          /\ c + 1 + h[c] <= t
          /\ c + 1 + h[c] = t \/ h[c + 1 + h[c]] > 0
          /\ m[c].occupied /\ m[c].next = c + 1 + h[c]
    /\ Apart(h)
    /\ \A c \in Cells : c < t => \E d \in Cells : h[d] > 0 /\ d <= c /\ c <= d + h[d]
    /\ m[t].next \in {End, NULL}
    /\ \A c \in Cells : t <= c => ~m[c].occupied

\* Where the search is. No block is ever moved.
Bumping(t) ==
    pc = "search" => /\ \/ cur = t
                        \/ cur \in Cells /\ Live(cur)
                        \/ cur = End /\ End < t + Need + 1
                     /\ want.kind # "move"

BumpInv == \E t \in Cells : Bump(mem, held, t) /\ Bumping(t)

LEMMA BumpTypes ==
    IInv => held \in [Cells -> Nat] /\ mem \in [Cells -> Alloc_t]
BY DEF IInv, TypeOK

\* The heap without a block.
LEMMA BumpEmpty ==
    ASSUME NEW m, NEW h, \A c \in Cells : h[c] = 0 /\ ~m[c].occupied,
           m[0].next \in {End, NULL}
    PROVE  Bump(m, h, 0)
<1>1. 0 \in Cells /\ \A c \in Cells : ~(c < 0) /\ ~(h[c] > 0)
  OBVIOUS
<1>2. QED
  BY <1>1 DEF Bump, Apart

LEMMA BumpInit == Init => BumpInv
<1> SUFFICES ASSUME Init PROVE BumpInv
  OBVIOUS
<1>1. /\ mem[0].next = End /\ pc = "idle"
      /\ \A c \in Cells : held[c] = 0 /\ ~mem[c].occupied
  BY DEF Init, Zero
<1>2. Bump(mem, held, 0)
  BY <1>1, BumpEmpty
<1>3. 0 \in Cells
  OBVIOUS
<1>4. QED
  BY <1>1, <1>2, <1>3 DEF BumpInv, Bumping

\* The links and occupied bytes of live blocks and from t on left alone.
LEMMA BumpSame ==
    ASSUME NEW m, NEW m2, NEW h \in [Cells -> Nat], NEW t \in Cells, Bump(m, h, t),
           \A x \in Cells : h[x] > 0 \/ t <= x => Same(m, m2, {x})
    PROVE  Bump(m2, h, t)
<1>1. \A x \in Cells : h[x] > 0 \/ t <= x =>
         m2[x].next = m[x].next /\ m2[x].occupied = m[x].occupied
  BY DEF Same
<1>2. m2[t].next = m[t].next /\ \A x \in Cells : t <= x => m2[x].occupied = m[x].occupied
  BY <1>1
<1>3. ASSUME NEW c \in Cells, h[c] > 0
      PROVE  /\ c + 1 + h[c] <= t /\ (c + 1 + h[c] = t \/ h[c + 1 + h[c]] > 0)
             /\ m2[c].occupied /\ m2[c].next = c + 1 + h[c]
  <2>1. m2[c].next = m[c].next /\ m2[c].occupied = m[c].occupied
    BY <1>1, <1>3
  <2>2. QED
    BY <1>3, <2>1 DEF Bump
<1>4. m2[t].next \in {End, NULL} /\ \A c \in Cells : t <= c => ~m2[c].occupied
  BY <1>2 DEF Bump
<1>5. QED
  BY <1>3, <1>4 DEF Bump

\* A new block at t.
LEMMA BumpPlaced ==
    ASSUME NEW m \in [Cells -> Alloc_t], NEW m2, NEW h \in [Cells -> Nat],
           NEW t \in Cells, Bump(m, h, t),
           NEW n \in Nat, n > 0, NEW q \in Cells, q = t + 1 + n, Fits(m, t, n),
           \A x \in Cells \ (t .. q) : m2[x] = m[x],
           m2[t].occupied, m2[t].next = q,
           m2[q].next = m[t].next, m2[q].occupied = m[q].occupied
    PROVE  Bump(m2, [h EXCEPT ![t] = n], q)
<1> DEFINE h2 == [h EXCEPT ![t] = n]
<1>1. h2[t] = n /\ \A c \in Cells \ {t} : h2[c] = h[c]
  OBVIOUS
<1>2. \A c \in Cells : h[c] > 0 => c + 1 + h[c] <= t /\ c < t
  BY DEF Bump
<1> HIDE DEF h2
<1>3. h2[q] = 0
  BY <1>1, <1>2
<1>4. ASSUME NEW c \in Cells, h2[c] > 0
      PROVE  /\ c + 1 + h2[c] <= q
             /\ c + 1 + h2[c] = q \/ h2[c + 1 + h2[c]] > 0
             /\ m2[c].occupied /\ m2[c].next = c + 1 + h2[c]
  <2>1. CASE c = t
    BY <1>1, <2>1
  <2>2. CASE c # t
    <3>1. h[c] > 0 /\ h2[c] = h[c] /\ c \in Cells \ (t .. q) /\ m2[c] = m[c]
      BY <1>1, <1>2, <1>4, <2>2
    <3>2. c + 1 + h[c] <= t /\ (c + 1 + h[c] = t \/ h[c + 1 + h[c]] > 0)
          /\ m[c].occupied /\ m[c].next = c + 1 + h[c]
      BY <3>1 DEF Bump
    <3>3. c + 1 + h[c] \in Cells
      BY <3>2, SMTT(30)
    <3>4. h2[c + 1 + h[c]] > 0
      BY <1>1, <3>2, <3>3
    <3>5. QED
      BY <3>1, <3>2, <3>3, <3>4
  <2>3. QED
    BY <2>1, <2>2
<1>5. Apart(h2)
  <2>1. ASSUME NEW c \in Cells, NEW d \in Cells, h2[c] > 0, h2[d] > 0, c < d
        PROVE  c + h2[c] < d
    <3>1. c # t
      BY <1>1, <1>2, <2>1
    <3>2. h[c] > 0 /\ h2[c] = h[c] /\ c + 1 + h[c] <= t
      BY <1>1, <1>2, <2>1, <3>1
    <3>3. CASE d = t
      <4>1. h[c] \in Nat /\ c \in Int /\ t \in Int
        BY <1>1
      <4>2. QED
        BY <3>2, <3>3, <4>1
    <3>4. CASE d # t
      <4>1. h[d] > 0
        BY <1>1, <2>1, <3>4
      <4>2. QED
        BY <2>1, <3>2, <4>1 DEF Bump, Apart
    <3>5. QED
      BY <3>3, <3>4
  <2>2. QED
    BY <2>1 DEF Apart
<1>6. ASSUME NEW c \in Cells, c < q
      PROVE  \E d \in Cells : h2[d] > 0 /\ d <= c /\ c <= d + h2[d]
  <2>1. CASE t <= c
    <3>1. h2[t] > 0 /\ t <= c /\ c <= t + h2[t]
      BY <1>1, <1>6, <2>1
    <3>2. QED
      BY <3>1
  <2>2. CASE c < t
    <3>1. PICK d \in Cells : h[d] > 0 /\ d <= c /\ c <= d + h[d]
      BY <2>2 DEF Bump
    <3>2. d # t
      BY <1>2, <3>1
    <3>3. QED
      BY <1>1, <3>1, <3>2
  <2>3. QED
    BY <2>1, <2>2, SMTT(30)
<1>7. m2[q].next \in {End, NULL}
  BY DEF Bump
<1>8. ASSUME NEW c \in Cells, q <= c PROVE ~m2[c].occupied
  <2>1. ~m[c].occupied /\ (c = q \/ c \in Cells \ (t .. q))
    BY <1>8 DEF Bump
  <2>2. QED
    BY <2>1
<1>9. QED
  BY <1>3, <1>4, <1>5, <1>6, <1>7, <1>8 DEF Bump, h2

\* Between requests only the heap's shape matters.
LEMMA BumpAtRest ==
    ASSUME NEW t \in Cells, Bump(mem', held', t), pc' # "search"
    PROVE  BumpInv'
BY DEF BumpInv, Bumping

\* The search meets live blocks, then t: it can only stop there.
LEMMA BumpSearch ==
    ASSUME IInv, NEW t \in Cells, Bump(mem, held, t), Bumping(t), pc = "search"
    PROVE  /\ cur \in Cells \cup {End} /\ want.kind # "move"
           /\ cur = End => End < t + Need + 1
           /\ cur \in Cells /\ cur # t => mem[cur].occupied /\ held[cur] > 0
<1>1. cur \in Cells /\ cur # t => held[cur] > 0
  BY DEF Bumping, Live
<1>2. cur \in Cells /\ cur # t => mem[cur].occupied
  BY <1>1 DEF Bump
<1>3. cur = End => End < t + Need + 1
  BY DEF Bumping
<1>4. QED
  BY <1>1, <1>2, <1>3 DEF Bumping

LEMMA BumpHop == ASSUME IInv, BumpInv, Hop PROVE BumpInv'
<1>1. PICK t \in Cells : Bump(mem, held, t) /\ Bumping(t)
  BY DEF BumpInv
<1>2. /\ pc = "search" /\ cur \in Cells /\ ~Fits(mem, cur, Need)
      /\ cur' = mem[cur].next /\ UNCHANGED <<mem, held, pc, want>>
  BY DEF Hop
<1>3. want.kind # "move" /\ Need \in Nat /\ held \in [Cells -> Nat]
  BY <1>1, <1>2, BumpSearch, BumpTypes, CellsForPositive DEF IInv, TypeOK, Wants, Need
<1>4. \/ cur' = t
      \/ cur' \in Cells /\ held[cur'] > 0
      \/ cur' = End /\ End < t + Need + 1
  <2>1. CASE cur = t
    <3>1. ~mem[t].occupied /\ mem[t].next \in {End, NULL}
      BY <1>1 DEF Bump
    <3>2. ~SizeAtLeast(mem, t, Need + 1)
      BY <1>2, <2>1, <3>1 DEF Fits
    <3>3. mem[t].next = End /\ End - t < Need + 1
      BY <1>3, <3>1, <3>2 DEF SizeAtLeast, Before
    <3>4. QED
      BY <1>2, <1>3, <2>1, <3>3
  <2>2. CASE cur # t
    <3>1. held[cur] > 0
      BY <1>1, <1>2, <2>2, BumpSearch
    <3>2. /\ cur' = cur + 1 + held[cur] /\ cur + 1 + held[cur] <= t
          /\ cur + 1 + held[cur] = t \/ held[cur + 1 + held[cur]] > 0
      BY <1>1, <1>2, <3>1 DEF Bump
    <3>3. cur + 1 + held[cur] \in Cells
      BY <1>2, <1>3, <3>2
    <3>4. QED
      BY <3>2, <3>3
  <2>3. QED
    BY <2>1, <2>2
<1>5. Bump(mem', held', t) /\ Need' = Need
  BY <1>1, <1>2 DEF Need
<1>6. Bumping(t)'
  BY <1>2, <1>3, <1>4, <1>5 DEF Bumping, Live
<1>7. QED
  BY <1>5, <1>6 DEF BumpInv

\* Place, seen from t.
LEMMA BumpPlaceFacts ==
    ASSUME IInv, NEW t \in Cells, Bump(mem, held, t), Bumping(t), Place
    PROVE  /\ cur = t /\ want.kind # "move" /\ Fits(mem, t, Need)
           /\ held[t] = 0 /\ \A d \in Cells : held[d] > 0 => d + held[d] < t
<1>1. /\ pc = "search" /\ cur \in Cells /\ Fits(mem, cur, Need)
  BY DEF Place
<1>2. cur = t /\ want.kind # "move"
  BY <1>1, BumpSearch DEF Fits
<1>3. held[t] = 0 /\ \A d \in Cells : held[d] > 0 => d + 1 + held[d] <= t
  BY DEF Bump
<1>4. QED
  BY <1>1, <1>2, <1>3, BumpTypes

LEMMA BumpPlace == ASSUME IInv, BumpInv, Place PROVE BumpInv'
<1>1. PICK t \in Cells : Bump(mem, held, t) /\ Bumping(t)
  BY DEF BumpInv
<1>2. cur = t /\ want.kind # "move" /\ Fits(mem, t, Need)
  BY <1>1, BumpPlaceFacts
<1> DEFINE q == t + 1 + Need
<1>3. /\ q \in Cells /\ Need \in Nat /\ Need > 0
      /\ pc' # "search" /\ held' = [held EXCEPT ![t] = Need]
      /\ \A x \in Cells \ (t .. q) : mem'[x] = mem[x]
      /\ mem'[t].occupied /\ mem'[t].next = q
      /\ mem'[q].next = mem[t].next /\ mem'[q].occupied = mem[q].occupied
  BY <1>2, PlaceWrites
<1>4. Bump(mem', [held EXCEPT ![t] = Need], q)
  BY <1>1, <1>2, <1>3, BumpTypes, BumpPlaced
<1>5. QED
  BY <1>3, <1>4, BumpAtRest

LEMMA BumpNotMoving == BumpInv => (pc = "search" => want.kind # "move")
BY DEF BumpInv, Bumping

LEMMA BumpNext == ASSUME BumpGuest, IInv, BumpInv, [Next]_vars PROVE BumpInv'
<1>1. PICK t \in Cells : Bump(mem, held, t) /\ Bumping(t)
  BY DEF BumpInv
<1>2. mem \in [Cells -> Alloc_t] /\ held \in [Cells -> Nat]
  BY BumpTypes
<1>3. ASSUME NEW kind \in {"raw", "string", "combined"}, NEW bytes \in Requests,
             Search(kind, bytes, 0, 0)
      PROVE  BumpInv'
  <2>1. mem' = mem /\ held' = held /\ cur' = 0 /\ want'.kind # "move"
    BY <1>3 DEF Search
  <2>2. 0 \in Cells /\ (0 = t \/ held[0] > 0)
    <3>1. 0 \in Cells /\ (0 = t \/ 0 < t)
      OBVIOUS
    <3>2. 0 < t => held[0] > 0
      BY <1>1, <1>2, <3>1 DEF Bump
    <3>3. QED
      BY <3>1, <3>2
  <2>3. Bumping(t)'
    BY <2>1, <2>2 DEF Bumping, Live
  <2>4. QED
    BY <1>1, <2>1, <2>3 DEF BumpInv
<1>4. ASSUME NEW bytes \in Requests, New(bytes) \/ NewString(bytes) \/ NewCombined(bytes)
      PROVE  BumpInv'
  BY <1>3, <1>4 DEF New, NewString, NewCombined
<1>5. CASE Hop
  BY <1>5, BumpHop
<1>6. CASE Place
  BY <1>6, BumpPlace
<1>7. CASE Overrun
  <2>1. Bump(mem', held', t) /\ pc' # "search"
    BY <1>1, <1>7 DEF Overrun, Fault
  <2>2. QED
    BY <2>1, BumpAtRest
<1>8. CASE ReturnNull
  BY <1>1, <1>8, BumpSearch DEF ReturnNull
<1>9. CASE EmptySubStr
  <2>2. held' = held /\ pc' # "search"
    BY <1>9 DEF EmptySubStr
  <2>3. \A y \in Cells : /\ mem[y] \in Alloc_t
                         /\ mem'[y] = mem[y] \/ mem'[y] = [mem[y] EXCEPT !.safebytes = FALSE]
    BY <1>2, <1>9 DEF EmptySubStr
  <2>4. ASSUME NEW y \in Cells
        PROVE  /\ mem'[y].next = mem[y].next /\ mem'[y].prev = mem[y].prev
               /\ mem'[y].occupied = mem[y].occupied
    BY <2>3 DEF Alloc_t
  <2>5. \A y \in Cells : Same(mem, mem', {y})
    BY <2>4 DEF Same
  <2>6. Bump(mem', held', t)
    BY <1>1, <1>2, <2>2, <2>5, BumpSame
  <2>7. QED
    BY <2>2, <2>6, BumpAtRest
<1>10. CASE ResetHeap
  <2>1. /\ \A c \in Cells : held'[c] = 0 /\ ~mem'[c].occupied
        /\ mem'[0].next \in {End, NULL} /\ pc' # "search"
    BY <1>10 DEF ResetHeap, Zero
  <2>2. Bump(mem', held', 0)
    BY <2>1, BumpEmpty
  <2>3. 0 \in Cells
    OBVIOUS
  <2>4. QED
    BY <2>1, <2>2, <2>3, BumpAtRest
<1>11. ASSUME NEW c \in Cells, NEW x \in Cells, Store(c, x) PROVE BumpInv'
  <2>1. /\ held[c] > 0 /\ x \in c + 1 .. c + held[c] /\ held' = held /\ pc' # "search"
        /\ \A y \in Cells \ {x} : mem'[y] = mem[y]
    BY <1>2, <1>11 DEF Store, Live, Payload
  <2>2. x < t /\ ~(held[x] > 0)
    <3>1. c + 1 + held[c] <= t
      BY <1>1, <2>1 DEF Bump
    <3>2. ~(held[x] > 0)
      BY <1>1, <1>2, <2>1 DEF Bump, Apart
    <3>3. QED
      BY <1>2, <2>1, <3>1, <3>2
  <2>3. \A y \in Cells : held[y] > 0 \/ t <= y => Same(mem, mem', {y})
    BY <2>1, <2>2 DEF Same
  <2>4. Bump(mem', held', t)
    BY <1>1, <1>2, <2>1, <2>3, BumpSame
  <2>5. QED
    BY <2>1, <2>4, BumpAtRest
<1>12. CASE UNCHANGED vars
  BY <1>12 DEF vars, BumpInv, Bump, Bumping, Live, Need
<1>13. \A c \in Cells : /\ ~VMHeapFree(c)
                        /\ \A bytes \in Requests : ~VMHeapRealloc(c, bytes)
  BY DEF VMHeapFree, VMHeapRealloc, BumpGuest
<1>14. QED
  BY <1>4, <1>5, <1>6, <1>7, <1>8, <1>9, <1>10, <1>11, <1>12, <1>13 DEF Next

\* What the shape gives.
LEMMA BumpInvSafe ==
    ASSUME IInv, BumpInv PROVE LiveDisjoint /\ LiveHeaders /\ FreeJoined
<1>1. PICK t \in Cells : Bump(mem, held, t)
  BY DEF BumpInv
<1>2. held \in [Cells -> Nat]
  BY BumpTypes
<1>3. LiveDisjoint
  BY <1>1 DEF Bump, Apart, LiveDisjoint, Live
<1>4. LiveHeaders
  <2>1. ASSUME NEW c \in Cells, held[c] > 0
        PROVE  mem[c].occupied /\ mem[c].next = c + 1 + held[c] /\ mem[c].next < End
    <3>1. mem[c].occupied /\ mem[c].next = c + 1 + held[c] /\ c + 1 + held[c] <= t
      BY <1>1, <2>1 DEF Bump
    <3>2. QED
      BY <1>2, <3>1
  <2>2. QED
    BY <2>1 DEF LiveHeaders, Live
<1>5. FreeJoined
  <2>1. ASSUME NEW c \in Cells, Listed(c), ~mem[c].occupied, mem[c].next \in Cells
        PROVE  FALSE
    <3>1. ~(held[c] > 0)
      BY <1>1, <2>1 DEF Bump
    <3>2. c = t
      <4>1. CASE c = 0
        BY <1>1, <1>2, <3>1, <4>1 DEF Bump
      <4>2. ASSUME NEW d \in Cells, held[d] > 0, mem[d].next = c PROVE c = t
        BY <1>1, <3>1, <4>2 DEF Bump
      <4>3. QED
        BY <2>1, <4>1, <4>2 DEF Listed, Live
    <3>3. mem[t].next \in {End, NULL}
      BY <1>1 DEF Bump
    <3>4. QED
      BY <2>1, <3>2, <3>3
  <2>2. QED
    BY <2>1 DEF FreeJoined
<1>6. QED
  BY <1>3, <1>4, <1>5

LEMMA BumpStep ==
    ASSUME BumpGuest, IInv, IInv', BumpInv, [Next]_vars
    PROVE  [Abs!Next]_Abs!avars
<1>1. mem' = mem /\ held' = held => UNCHANGED Abs!avars
  BY StutterStep
<1>2. PICK t \in Cells : Bump(mem, held, t) /\ Bumping(t)
  BY DEF BumpInv
<1>3. ASSUME NEW bytes \in Requests, New(bytes) \/ NewString(bytes) \/ NewCombined(bytes)
      PROVE  mem' = mem /\ held' = held
  BY <1>3 DEF New, NewString, NewCombined, Search
<1>4. Hop \/ Overrun \/ UNCHANGED vars => mem' = mem /\ held' = held
  BY DEF Hop, Overrun, Fault, vars
<1>5. CASE Place
  <2>1. /\ cur = t /\ want.kind # "move" /\ held[t] = 0
        /\ \A d \in Cells : held[d] > 0 => d + held[d] < t
    BY <1>2, <1>5, BumpPlaceFacts
  <2> DEFINE q == t + 1 + Need
  <2>2. /\ q \in Cells /\ Need \in Nat /\ Need > 0 /\ held' = [held EXCEPT ![t] = Need]
        /\ \A x \in Cells \ (t .. q) : mem'[x] = mem[x]
    BY <1>5, <2>1, PlaceWrites
  <2>3. held \in [Cells -> Nat] /\ mem' \in [Cells -> Alloc_t]
    BY DEF IInv, TypeOK
  <2>4. t + Need < End /\ \A x \in Cells : x < t => mem'[x] = mem[x]
    BY <2>2
  <2>5. QED
    BY <2>1, <2>2, <2>3, <2>4, MallocStep
<1>6. ~ReturnNull
  BY <1>2, BumpSearch DEF ReturnNull
<1>7. CASE EmptySubStr
  <2>1. held' = held /\ mem' = [mem EXCEPT ![0].safebytes = FALSE]
    BY <1>7 DEF EmptySubStr
  <2>2. \A x \in Cells : Owned(held, x) => x # 0
    BY BumpTypes DEF Owned
  <2>3. \A x \in Cells : Owned(held, x) => mem'[x] = mem[x]
    BY <2>1, <2>2, BumpTypes
  <2>4. QED
    BY <2>1, <2>3, StutterStep
<1>8. ResetHeap => Abs!Next
  BY RestartStep DEF ResetHeap
<1>9. ASSUME NEW c \in Cells, NEW x \in Cells, Store(c, x)
      PROVE  Abs!Next
  BY <1>9, StoreStep
<1>10. \A c \in Cells : /\ ~VMHeapFree(c)
                        /\ \A bytes \in Requests : ~VMHeapRealloc(c, bytes)
  BY DEF VMHeapFree, VMHeapRealloc, BumpGuest
<1>11. QED
  BY <1>1, <1>3, <1>4, <1>5, <1>6, <1>7, <1>8, <1>9, <1>10 DEF Next

\* A search that leaves the list leaves it at its end, where no header and
\* Need cells have room behind them; and no run of cells before t is free.
LEMMA BumpFaultsFull ==
    ASSUME BumpGuest, IInv, BumpInv, [Next]_vars, pc = "search", pc' = "fault"
    PROVE  Exhausted
<1>1. PICK t \in Cells : Bump(mem, held, t) /\ Bumping(t)
  BY DEF BumpInv
<1>2. Need \in Nat /\ Need > 0
  BY CellsForPositive DEF IInv, TypeOK, Wants, Need
<1>3. cur \in Cells \cup {End} /\ want.kind # "move"
  BY <1>1, BumpSearch
<1>4. ~ReturnNull /\ ~Place
  <2>1. cur # NULL
    BY <1>3
  <2>2. ~Place
    BY <1>3 DEF Place, PlaceRaw, PlaceString, PlaceMoved, Return
  <2>3. QED
    BY <2>1, <2>2 DEF ReturnNull
<1>5. Overrun
  BY <1>4 DEF Next, New, NewString, NewCombined, Search, Hop, EmptySubStr, ResetHeap,
              VMHeapFree, VMHeapRealloc, Store, vars
<1>6. End <= t + Need + 1
  <2>1. CASE cur = End
    BY <1>1, <1>2, <2>1, BumpSearch
  <2>2. CASE cur \in Cells /\ Fits(mem, cur, Need) /\ cur + 1 + Need >= End
    <3>1. cur = t
      BY <1>1, <2>2, BumpSearch DEF Fits
    <3>2. QED
      BY <1>2, <2>2, <3>1
  <2>3. QED
    BY <1>3, <1>5, <2>1, <2>2 DEF Overrun
<1>7. ASSUME NEW c \in Cells, c + Need + 1 < End
      PROVE  \E d \in Cells : Live(d) /\ d <= c + Need /\ c <= d + held[d]
  <2>1. c < t
    BY <1>2, <1>6, <1>7
  <2>2. PICK d \in Cells : held[d] > 0 /\ d <= c /\ c <= d + held[d]
    BY <1>1, <2>1 DEF Bump
  <2>3. d <= c + Need
    BY <1>2, <2>2
  <2>4. QED
    BY <2>2, <2>3 DEF Live
<1>8. QED
  BY <1>7 DEF Exhausted

LEMMA BumpInductive ==
    ASSUME BumpGuest
    PROVE  /\ Init => IInv /\ BumpInv
           /\ IInv /\ BumpInv /\ [Next]_vars => (IInv /\ BumpInv)'
BY InitIInv, NextIInv, BumpNotMoving, BumpInit, BumpNext

\* A guest that only allocates and stores, restarts included, never gets memory
\* of a block it still holds, and the headers of its blocks stay exact.
THEOREM BumpSafe ==
    ASSUME BumpGuest PROVE Spec => [](LiveDisjoint /\ LiveHeaders /\ FreeJoined)
<1>1. IInv /\ BumpInv => LiveDisjoint /\ LiveHeaders /\ FreeJoined
  BY BumpInvSafe
<1>2. QED
  BY BumpInductive, <1>1, PTL DEF Spec

\* A request of such a guest goes wrong (VMHeapAlloc's "TODO: Handle heap
\* resize") only when nowhere in the heap there is room for it.
THEOREM BumpFaults == ASSUME BumpGuest PROVE Spec => FaultsOnlyWhenFull
<1>1. IInv /\ BumpInv /\ [Next]_vars
      => [pc = "search" /\ pc' = "fault" => Exhausted]_vars
  BY BumpFaultsFull
<1>2. QED
  BY BumpInductive, <1>1, PTL DEF Spec, FaultsOnlyWhenFull

\* To such a guest, the heap is what AbstractHeap promises, restarts included.
THEOREM BumpRefines == ASSUME BumpGuest PROVE Spec => AbsSpec
<1>1. IInv /\ BumpInv /\ (IInv /\ BumpInv)' /\ [Next]_vars => [Abs!Next]_Abs!avars
  BY BumpStep
<1>2. QED
  BY BumpInductive, AbsInit, <1>1, PTL DEF Spec, AbsSpec, Abs!Spec
=============================================================================
