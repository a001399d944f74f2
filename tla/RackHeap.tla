------------------------------ MODULE RackHeap ------------------------------
(***************************************************************************)
(* The heap the VM gives to guest programs (src/vm/vm_memory.c): a single  *)
(* calloc'ed region in which every block is an Alloc_t header of 24 bytes  *)
(* followed by its data, and the headers form a linked list.               *)
(*                                                                         *)
(* Every size is rounded up to a multiple of sizeof(Alloc_t), so headers   *)
(* only ever lie at multiples of 24: the heap is an array of CELLS of 24   *)
(* bytes, and an address is the number of a cell.  The bytes left over     *)
(* when heapSize is not a multiple of 24 hold no complete header and are   *)
(* not modelled: HeapCells is the number of whole cells.                   *)
(*                                                                         *)
(* A cell is what the allocator would read there if it took the cell for a *)
(* header.  Guest data read as a header gives Junk pointers, no safe bytes *)
(* and either value of the occupied byte; the data of a block that nobody  *)
(* wrote yet is whatever the cell held before, headers of earlier blocks   *)
(* included, because nothing is ever cleared.                              *)
(*                                                                         *)
(* pc = "fault" stands for every behaviour after an access the C language  *)
(* gives no meaning to: a header written past the heap, a Junk or NULL     *)
(* pointer followed, a memcpy of a negative length.                        *)
(***************************************************************************)
EXTENDS Integers

CONSTANTS
    HeapCells,  \* whole cells in the heap: heapSize \div 24
    Requests,   \* the sizes in bytes that guests ask for
    Discipline, \* "any", or "stack": guests free and resize only the topmost
                \* of the blocks they hold
    Ops         \* what guests do besides NEW: a subset of GuestOps

GuestOps == {"free", "store", "string", "combined", "empty", "shrink", "grow", "reset"}

ASSUME HeapAssumption ==
    /\ HeapCells \in Nat \ {0}
    /\ Requests \subseteq Nat \ {0} /\ Requests # {}
    /\ Discipline \in {"any", "stack"}
    /\ Ops \subseteq GuestOps

HDR   == 24                     \* sizeof(Alloc_t)
Cells == 0 .. HeapCells - 1
End   == HeapCells              \* heap + heapSize
NULL  == -1
Junk  == -2                     \* guest data taken for a pointer

Alloc_t == [safebytes : BOOLEAN,             \* is it ALLOC_SAFE_BYTES?
            occupied  : BOOLEAN,
            next      : Cells \cup {End, NULL, Junk},
            prev      : Cells \cup {NULL, Junk}]

\* The header of a cell that calloc or memset left at zero.
Zero == [safebytes |-> FALSE, occupied |-> FALSE, next |-> NULL, prev |-> NULL]

\* What guest data looks like as a header; b is its fifth byte being nonzero.
GuestData(b) == [safebytes |-> FALSE, occupied |-> b, next |-> Junk, prev |-> Junk]

VARIABLES
    mem,    \* the heap: Cells -> Alloc_t
    held,   \* data cells of the block whose data the guest was told to be after
            \* this cell, 0 if none: the cell is the block's header, if the
            \* guest was told right
    pc,     \* "idle", "search" (in VMHeapAlloc's loop) or "fault"
    cur,    \* VMHeapAlloc's curr
    want    \* the request VMHeapAlloc is serving

vars == <<mem, held, pc, cur, want>>

(***************************************************************************)
(* want.kind says who called VMHeapAlloc: NEW ("raw"), one of the string   *)
(* functions ("string"; "combined" writes its terminator one byte past its *)
(* data) or VMHeapRealloc moving a block ("move").                         *)
(***************************************************************************)
Wants == [kind  : {"raw", "string", "combined", "move"},
          bytes : Requests,
          old   : Cells,                     \* "move": the block to move
          copy  : -1 .. HeapCells]           \* "move": its data cells

Idle == [kind |-> "raw", bytes |-> CHOOSE b \in Requests : TRUE,
         old |-> 0, copy |-> 0]

TypeOK ==
    /\ mem \in [Cells -> Alloc_t]
    /\ held \in [Cells -> Nat]
    /\ pc \in {"idle", "search", "fault"}
    /\ cur \in Cells \cup {End, NULL, Junk}
    /\ want \in Wants

-----------------------------------------------------------------------------
\* size = ((size-1) / sizeof(Alloc_t) + 1) * sizeof(Alloc_t), in cells.
CellsFor(bytes) == (bytes - 1) \div HDR + 1

\* GetAllocSize(c) >= n: the unsigned difference to NULL, or to a header before
\* c, is huge.
Before(m, c)         == m[c].next # Junk /\ m[c].next < c
SizeAtLeast(m, c, n) == Before(m, c) \/ m[c].next - c >= n

Live(c)    == held[c] > 0
Payload(c) == c + 1 .. c + held[c]

\* The first header VMHeapAlloc's loop stops at, besides NULL and the end.
Fits(m, c, n) == ~m[c].occupied /\ SizeAtLeast(m, c, n + 1)

\* Faulty splits: the second header over the last cell of the data; its links
\* exchanged; its next read after it was overwritten; the occupied byte or the
\* safe bytes forgotten.
PlacedShort(m, c, n) ==
    [m EXCEPT ![c] = [@ EXCEPT !.occupied = TRUE, !.safebytes = TRUE, !.next = c + n],
              ![c + n] = [@ EXCEPT !.next = m[c].next, !.prev = c]]
PlacedSwapped(m, c, n) ==
    [m EXCEPT ![c] = [@ EXCEPT !.occupied = TRUE, !.safebytes = TRUE, !.next = c + 1 + n],
              ![c + 1 + n] = [@ EXCEPT !.next = c, !.prev = m[c].next]]
PlacedLate(m, c, n) ==
    [m EXCEPT ![c] = [@ EXCEPT !.occupied = TRUE, !.safebytes = TRUE, !.next = c + 1 + n],
              ![c + 1 + n] = [@ EXCEPT !.next = c + 1 + n, !.prev = c]]
PlacedUnmarked(m, c, n) ==
    [m EXCEPT ![c] = [@ EXCEPT !.safebytes = TRUE, !.next = c + 1 + n],
              ![c + 1 + n] = [@ EXCEPT !.next = m[c].next, !.prev = c]]
PlacedUnsafe(m, c, n) ==
    [m EXCEPT ![c] = [@ EXCEPT !.occupied = TRUE, !.next = c + 1 + n],
              ![c + 1 + n] = [@ EXCEPT !.next = m[c].next, !.prev = c]]

\* The split VMHeapAlloc makes in block c.  The header it creates keeps the
\* occupied and safe bytes that the cell held, and the header after that one
\* keeps its prev pointer.
Placed(m, c, n) ==
    LET next == c + 1 + n
    IN  [m EXCEPT ![c]    = [@ EXCEPT !.occupied = TRUE, !.safebytes = TRUE,
                                      !.next = next],
                  ![next] = [@ EXCEPT !.next = m[c].next, !.prev = c]]

\* Faulty: links the header it makes back to the block.
ResizedBack(m, c, n) ==
    [m EXCEPT ![c].next = c + 1 + n,
              ![c + 1 + n] = [@ EXCEPT !.prev = c, !.safebytes = TRUE, !.next = c]]

\* Faulty: puts the header it makes over the last cell of the data.
ResizedShort(m, c, n) ==
    [m EXCEPT ![c].next = c + n,
              ![c + n] = [@ EXCEPT !.prev = c, !.safebytes = TRUE,
                                   !.next = m[m[c].next].next]]

\* The header VMHeapRealloc makes to shrink block c or to grow it in place.
Resized(m, c, n) ==
    LET next == c + 1 + n
    IN  [m EXCEPT ![c]    = [@ EXCEPT !.next = next],
                  ![next] = [@ EXCEPT !.prev = c, !.safebytes = TRUE,
                                      !.next = m[m[c].next].next]]

\* Faulty: joins with prev though it is occupied; never joins with next.
FreedIntoPrev(m, c) ==
    LET m1 == IF m[c].prev # NULL
              THEN [m EXCEPT ![m[c].prev].next = m[c].next] ELSE m
    IN  [m1 EXCEPT ![c].occupied = FALSE]
FreedAlone(m, c) ==
    LET m1 == IF m[c].prev # NULL /\ ~m[m[c].prev].occupied
              THEN [m EXCEPT ![m[c].prev].next = m[c].next] ELSE m
    IN  [m1 EXCEPT ![c].occupied = FALSE]

\* VMHeapFree: join with prev, join with next, mark free.
Freed(m, c) ==
    LET prev == m[c].prev
        next == m[c].next
        m1   == IF prev # NULL /\ ~m[prev].occupied
                THEN [m EXCEPT ![prev].next = next] ELSE m
        m2   == IF next < End /\ ~m1[next].occupied
                THEN [m1 EXCEPT ![c].next = m1[next].next] ELSE m1
    IN  [m2 EXCEPT ![c].occupied = FALSE]

\* VMHeapFree follows prev (unless it is NULL) and next (unless past the end).
FreeFaults(m, c) == m[c].prev = Junk \/ m[c].next \in {NULL, Junk}

\* Data of k cells copied from src to dst, as they are: what was a header of an
\* earlier block is one in its new place, with the links it had.
Copied(m, dst, src, k) ==
    [x \in Cells |-> IF x \in dst .. dst + k - 1 THEN m[src + x - dst] ELSE m[x]]

\* memcpy has no meaning for a negative length or for areas that overlap.
CopyFaults(dst, src, k) == k < 0 \/ (dst < src + k /\ src < dst + k)

\* k cells of a string with b.
Written(m, dst, k, b) ==
    [x \in Cells |-> IF x \in dst .. dst + k - 1 THEN GuestData(b) ELSE m[x]]

\* The '\0' that VMHeapAllocCombinedString and VMHeapAllocSubStr store at
\* str + size: in the next header's safe bytes when size is a multiple of 24.
Terminated(m, dst, bytes) ==
    IF bytes % HDR = 0 /\ dst + bytes \div HDR \in Cells
    THEN [m EXCEPT ![dst + bytes \div HDR].safebytes = FALSE]
    ELSE m

StringWritten(m, dst, w, b) ==
    LET text == Written(m, dst, CellsFor(w.bytes), b)
    IN  IF w.kind = "combined" THEN Terminated(text, dst, w.bytes) ELSE text

Fault == pc' = "fault" /\ UNCHANGED <<mem, held, cur, want>>
Return == pc' = "idle" /\ cur' = 0 /\ want' = Idle

-----------------------------------------------------------------------------
(***************************************************************************)
(* The calls.  VMHeapAlloc is one step per header its loop visits, so that *)
(* a loop that never ends is a behaviour of the model; the VM has a single *)
(* thread, and no guest instruction runs between these steps.              *)
(***************************************************************************)
\* AllocateHeap.
Init ==
    /\ mem = [c \in Cells |-> IF c = 0
                              THEN [Zero EXCEPT !.safebytes = TRUE, !.next = End]
                              ELSE Zero]
    /\ held = [c \in Cells |-> 0]
    /\ pc = "idle"
    /\ cur = 0
    /\ want = Idle

Search(kind, bytes, old, copy) ==
    /\ pc = "idle"
    /\ pc' = "search"
    /\ cur' = 0
    /\ want' = [kind |-> kind, bytes |-> bytes, old |-> old, copy |-> copy]
    /\ UNCHANGED <<mem, held>>

\* NEW and NEWI.
New(bytes) == Search("raw", bytes, 0, 0)

\* STR, INPUT and the number formatters; STRCPY, STRCAT and STRCMB.
NewString(bytes)   == "string" \in Ops /\ Search("string", bytes, 0, 0)
NewCombined(bytes) == "combined" \in Ops /\ Search("combined", bytes, 0, 0)

\* STRCPY of no characters: VMHeapAlloc(0) returns 0, and the terminator goes
\* to heap[0], in the safe bytes of the first header.
EmptySubStr ==
    /\ pc = "idle" /\ "empty" \in Ops
    /\ mem' = [mem EXCEPT ![0].safebytes = FALSE]
    /\ UNCHANGED <<held, pc, cur, want>>

Need == CellsFor(want.bytes)

\* Faulty: advances twice.
HopTwice ==
    /\ pc = "search" /\ cur \in Cells /\ ~Fits(mem, cur, Need)
    /\ cur' = LET next == mem[cur].next
              IN  IF next \in Cells THEN mem[next].next ELSE next
    /\ UNCHANGED <<mem, held, pc, want>>

\* Faulty: stays at occupied headers.
HopStays ==
    /\ pc = "search" /\ cur \in Cells /\ ~Fits(mem, cur, Need)
    /\ cur' = IF mem[cur].occupied THEN cur ELSE mem[cur].next
    /\ UNCHANGED <<mem, held, pc, want>>

\* The loop goes on to the next header. At an occupied header that is its own
\* next, or one too small, the loop turns for ever: a step that changes nothing.
Hop ==
    /\ pc = "search" /\ cur \in Cells /\ ~Fits(mem, cur, Need)
    /\ cur' = mem[cur].next
    /\ UNCHANGED <<mem, held, pc, want>>

\* The loop leaves the list: past the end the code goes on to write a header
\* there ("TODO: Handle heap resize"); so it does if the split's second header
\* lies past the end.
Overrun ==
    /\ pc = "search"
    /\ \/ cur \in {End, Junk}
       \/ cur \in Cells /\ Fits(mem, cur, Need) /\ cur + 1 + Need >= End
    /\ Fault

\* VMHeapAlloc returns cur's data; the guest holds it from then on.
PlaceRaw ==
    /\ want.kind = "raw"
    /\ mem' = Placed(mem, cur, Need)
    /\ held' = [held EXCEPT ![cur] = Need]
    /\ Return

PlaceString ==
    /\ want.kind \in {"string", "combined"}
    /\ \E b \in BOOLEAN :
          mem' = StringWritten(Placed(mem, cur, Need), cur + 1, want, b)
    /\ held' = [held EXCEPT ![cur] = Need]
    /\ Return

\* The rest of VMHeapRealloc: copy the data, free the old block.
PlaceMoved ==
    LET m == Copied(Placed(mem, cur, Need), cur + 1, want.old + 1, want.copy)
    IN  /\ want.kind = "move"
        /\ IF CopyFaults(cur + 1, want.old + 1, want.copy) \/ FreeFaults(m, want.old)
           THEN Fault
           ELSE /\ mem' = Freed(m, want.old)
                /\ held' = [held EXCEPT ![cur] = Need, ![want.old] = 0]
                /\ Return

\* Faulty: does not see that the second header lies past the end.
PlaceUnchecked ==
    /\ pc = "search" /\ cur \in Cells /\ Fits(mem, cur, Need)
    /\ PlaceRaw \/ PlaceString \/ PlaceMoved

Place ==
    /\ pc = "search" /\ cur \in Cells /\ Fits(mem, cur, Need)
    /\ cur + 1 + Need < End
    /\ PlaceRaw \/ PlaceString \/ PlaceMoved

\* "Heap memory corruption": VMHeapAlloc returns 0.  Its callers go on with 0
\* as the address of the data: the first header is overwritten.
ReturnNull ==
    /\ pc = "search" /\ cur = NULL
    /\ \/ want.kind = "raw" /\ mem' = mem /\ held' = held /\ Return
       \/ /\ want.kind \in {"string", "combined"}
          /\ \E b \in BOOLEAN : mem' = StringWritten(mem, 0, want, b)
          /\ held' = held
          /\ Return
       \/ LET m == Copied(mem, 0, want.old + 1, want.copy)
          IN  /\ want.kind = "move"
              /\ IF CopyFaults(0, want.old + 1, want.copy) \/ FreeFaults(m, want.old)
                 THEN Fault
                 ELSE /\ mem' = Freed(m, want.old)
                      /\ held' = [held EXCEPT ![want.old] = 0]
                      /\ Return

\* Blocks that a guest of the given discipline may free or resize.
Mine(c) ==
    /\ Live(c)
    /\ Discipline = "stack" => \A d \in Cells : Live(d) => d <= c

\* DEL, of a block the guest holds.
VMHeapFree(c) ==
    /\ pc = "idle" /\ "free" \in Ops
    /\ Mine(c)
    /\ IF FreeFaults(mem, c)
       THEN Fault
       ELSE /\ mem' = Freed(mem, c)
            /\ held' = [held EXCEPT ![c] = 0]
            /\ UNCHANGED <<pc, cur, want>>

\* RESZ and RESZI to a size of n cells, of a block the guest holds.  The guest
\* goes on with the address that VMHeapRealloc returns.
Unresized(c, n) ==
    /\ mem[c].next - c = n + 1
    /\ held' = [held EXCEPT ![c] = n]
    /\ UNCHANGED <<mem, pc, cur, want>>

Shrink(c, n) ==
    /\ Before(mem, c) \/ n + 1 < mem[c].next - c
    /\ IF mem[c].next = End \/ c + 1 + n >= End
       THEN Fault
       ELSE /\ mem' = Resized(mem, c, n)
            /\ held' = [held EXCEPT ![c] = n]
            /\ UNCHANGED <<pc, cur, want>>

\* The address returned is that of the header: to the guest, the block's data
\* starts one cell early, and at address 0, no block, if it is the first one.
GrownHeld(c, n) ==
    IF c = 0 THEN [held EXCEPT ![0] = 0]
    ELSE [held EXCEPT ![c] = 0, ![c - 1] = n]

\* "Check if next is suitable for expansion.  Best case scenario!"
NextSuits(c, n) ==
    LET next == mem[c].next
    IN  next < End /\ ~mem[next].occupied /\ SizeAtLeast(mem, next, n + 1)

Grow(c, n) ==
    /\ ~SizeAtLeast(mem, c, n + 1) /\ NextSuits(c, n)
    /\ IF c + 1 + n >= End
       THEN Fault
       ELSE /\ mem' = Resized(mem, c, n)
            /\ held' = GrownHeld(c, n)
            /\ UNCHANGED <<pc, cur, want>>

Move(c, bytes) ==
    /\ ~SizeAtLeast(mem, c, CellsFor(bytes) + 1) /\ ~NextSuits(c, CellsFor(bytes))
    /\ Search("move", bytes, c, mem[c].next - c - 1)

VMHeapRealloc(c, bytes) ==
    /\ pc = "idle" /\ Mine(c)
    /\ (IF CellsFor(bytes) <= held[c] THEN "shrink" ELSE "grow") \in Ops
    /\ IF mem[c].next \in {NULL, Junk}
       THEN Fault
       ELSE \/ Unresized(c, CellsFor(bytes))
            \/ Shrink(c, CellsFor(bytes))
            \/ Grow(c, CellsFor(bytes))
            \/ Move(c, bytes)

\* Guest code writes into the data of a block it holds.
Store(c, x) ==
    /\ pc = "idle" /\ "store" \in Ops
    /\ Live(c) /\ x \in Payload(c)
    /\ \E b \in BOOLEAN : mem' = [mem EXCEPT ![x] = GuestData(b)]
    /\ UNCHANGED <<held, pc, cur, want>>

\* The benchmark mode starts the program again on a zeroed heap: the first
\* header is not rebuilt.
ResetHeap ==
    /\ pc = "idle" /\ "reset" \in Ops
    /\ mem' = [c \in Cells |-> Zero]
    /\ held' = [c \in Cells |-> 0]
    /\ UNCHANGED <<pc, cur, want>>

Next ==
    \/ \E bytes \in Requests : New(bytes) \/ NewString(bytes) \/ NewCombined(bytes)
    \/ Hop \/ Place \/ Overrun \/ ReturnNull
    \/ EmptySubStr \/ ResetHeap
    \/ \E c \in Cells :
          \/ VMHeapFree(c)
          \/ \E bytes \in Requests : VMHeapRealloc(c, bytes)
          \/ \E x \in Cells : Store(c, x)

Spec == Init /\ [][Next]_vars

\* The loop runs until it leaves: nothing can keep the thread from it.
FairSpec == Spec /\ WF_vars(Hop \/ Place \/ Overrun \/ ReturnNull)

-----------------------------------------------------------------------------
(***************************************************************************)
(* What makes the heap correct, whatever the guest asks for.               *)
(***************************************************************************)
\* A header's next pointer leads forward, or to the header itself, or out of
\* the heap; its prev pointer leads backward.  The loop over the list rests on
\* this: it turns at most at a header that is its own next.
PointersForward ==
    \A c \in Cells : /\ mem[c].next \in {NULL, Junk} \/ mem[c].next >= c
                     /\ mem[c].prev \in {NULL, Junk} \/ mem[c].prev < c

\* Only VMHeapRealloc's copy of a block that moves (vm_memory.c:183) makes links
\* lead backward: no other call does, whatever the guest did before, in whatever
\* order it frees and shrinks blocks, after a benchmark reset, and when
\* VMHeapAlloc's callers write over the first header.
OnlyMovesTurnBack ==
    [][PointersForward /\ want.kind # "move" => PointersForward']_vars

\* VMHeapAlloc's loop leaves the list: it finds a block or reaches the end.
SearchLeaves == pc = "search" ~> pc # "search"

\* VMHeapAlloc's loop ends, found or not, if every link leads on: if no header is
\* its own next, as the split of a block of exactly the requested size makes the
\* header behind it, and none leads back.
LinksLeadOn == \A c \in Cells : mem[c].next \in {NULL, Junk} \/ mem[c].next > c
SearchEnds == pc = "search" /\ LinksLeadOn ~> pc # "search"

(***************************************************************************)
(* What makes it correct for the guest.                                    *)
(***************************************************************************)
\* Two blocks that the guest holds never share a cell: "Search for a free
\* block that is big enough" finds blocks that are free.
LiveDisjoint ==
    \A c, d \in Cells : Live(c) /\ Live(d) /\ c < d => c + held[c] < d

\* The headers of live blocks are as VMHeapAlloc left them: occupied, and as
\* big as asked for.
LiveHeaders ==
    \A c \in Cells : Live(c) => /\ mem[c].occupied
                                /\ mem[c].next = c + 1 + held[c]
                                /\ mem[c].next < End

\* Guests that write into their own blocks only are never told of "heap
\* corruption" when they free them.
LiveSafebytes == \A c \in Cells : Live(c) => mem[c].safebytes

\* No free block is followed by a free block: VMHeapFree joins them.  (Headers
\* of the list: those reached from live blocks and from the first header.)
Listed(c) == c = 0 \/ \E d \in Cells : Live(d) /\ mem[d].next = c
FreeJoined ==
    \A c \in Cells :
        LET next == mem[c].next
        IN  Listed(c) /\ ~mem[c].occupied /\ next \in Cells
            => mem[next].occupied

\* A request goes wrong only when the heap is full: when no Need + 1 cells in
\* a row, with room for one header after them, are outside all live blocks.
Exhausted ==
    \A c \in Cells :
        c + Need + 1 < End
        => \E d \in Cells : Live(d) /\ d <= c + Need /\ c <= d + held[d]
FaultsOnlyWhenFull == [][pc = "search" /\ pc' = "fault" => Exhausted]_vars

\* The blocks that the guest holds, and what is in them, as the guest is
\* entitled to see them.
Abs == INSTANCE AbstractHeap WITH
    Contents <- Alloc_t,
    Blank    <- Zero,
    data     <- [x \in Cells |->
                    IF \E c \in Cells : Live(c) /\ x \in Payload(c)
                    THEN mem[x] ELSE Zero]
AbsSpec == Abs!Spec
=============================================================================
