---------------------------- MODULE AbstractHeap ----------------------------
(***************************************************************************)
(* What a guest program relies on when it uses NEW, DEL, RESZ and the      *)
(* string instructions (src/vm/vm_memory.h): a block is handed out only    *)
(* where no live block lies, it stays where it is until it is freed, and   *)
(* what the guest stored in it is still there, whatever else is allocated  *)
(* or freed meanwhile.  Nothing here says where blocks are put, nor that a *)
(* request succeeds.                                                       *)
(***************************************************************************)
EXTENDS Integers

CONSTANTS
    HeapCells,  \* cells in the heap
    Contents,   \* what a cell of data may contain
    Blank       \* what is said of a cell of no live block

Cells == 0 .. HeapCells - 1

VARIABLES
    held,   \* data cells of the live block with this header, 0 if none
    data    \* the contents of the cells of live blocks

avars == <<held, data>>

Payload(c) == c + 1 .. c + held[c]

Init ==
    /\ held = [c \in Cells |-> 0]
    /\ data = [c \in Cells |-> Blank]

\* The cells outside S keep their contents.
KeptOutside(S) == \A x \in Cells \ S : data'[x] = data[x]

\* Cells c .. c + n lie in the heap, and no live block but c's own meets them.
Room(c, n) ==
    /\ c + n < HeapCells
    /\ \A d \in Cells \ {c} :
          held[d] > 0 => d + held[d] < c \/ c + n < d

Malloc(c, n) ==
    /\ n > 0 /\ held[c] = 0 /\ Room(c, n)
    /\ held' = [held EXCEPT ![c] = n]
    /\ \A x \in c + 1 .. c + n : data'[x] \in Contents
    /\ KeptOutside(c + 1 .. c + n)

Free(c) ==
    /\ held[c] > 0
    /\ held' = [held EXCEPT ![c] = 0]
    /\ \A x \in Payload(c) : data'[x] = Blank
    /\ KeptOutside(Payload(c))

\* In place: the cells that both the old and the new block have are kept.
Resize(c, n) ==
    /\ n > 0 /\ held[c] > 0 /\ Room(c, n)
    /\ held' = [held EXCEPT ![c] = n]
    /\ \A x \in c + held[c] + 1 .. c + n : data'[x] \in Contents
    /\ \A x \in c + n + 1 .. c + held[c] : data'[x] = Blank
    /\ KeptOutside((c + held[c] + 1 .. c + n) \cup (c + n + 1 .. c + held[c]))

\* The guest writes one cell of its data.
Write(c, x) ==
    /\ held[c] > 0 /\ x \in Payload(c)
    /\ data'[x] \in Contents
    /\ KeptOutside({x})
    /\ UNCHANGED held

\* The program is started again.
Restart ==
    /\ held' = [c \in Cells |-> 0]
    /\ data' = [c \in Cells |-> Blank]

Next ==
    \/ Restart
    \/ \E c \in Cells :
          \/ Free(c)
          \/ \E x \in Payload(c) : Write(c, x)
          \/ \E n \in 1 .. HeapCells : Malloc(c, n) \/ Resize(c, n)

Spec == Init /\ [][Next]_avars
=============================================================================
