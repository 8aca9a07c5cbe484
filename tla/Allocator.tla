----------------------------- MODULE Allocator ------------------------------
(***************************************************************************)
(* What operator new and operator delete promise: memory that is given out *)
(* overlaps no other memory that is given out, and goes back as a whole.   *)
(* FreeList implements this.                                               *)
(***************************************************************************)
EXTENDS Integers

CONSTANT MaxHeap \* bound: words of the heap

VARIABLE given \* the requests that are in use: address and size of the data

Init == given = {}

Overlap(r, q) == /\ r.addr < q.addr + q.size
                 /\ q.addr < r.addr + r.size

Malloc == \E a \in 1 .. MaxHeap + 1, s \in 0 .. MaxHeap :
            LET r == [addr |-> a, size |-> s]
            IN  /\ \A q \in given : ~Overlap(r, q) /\ q.addr # a
                /\ a + s <= MaxHeap + 1
                /\ given' = given \cup {r}

Free == \E r \in given : given' = given \ {r}

Next == Malloc \/ Free

Spec == Init /\ [][Next]_given

=============================================================================
