------------------------------ MODULE FreeList ------------------------------
(***************************************************************************)
(* The heap behind operator new and delete: class FreeList, a doubly       *)
(* linked list of blocks in address order, first fit, with splitting and   *)
(* fusion.  There are two copies of it, which differ in what brk does:     *)
(* kernel/SharedResources/HeapManager.cpp, whose brk moves heap_ptr, and   *)
(* programs/ministl/HeapManager.cpp, whose brk is a system call that       *)
(* leaves heap_ptr alone.                                                  *)
(*                                                                         *)
(* Memory is counted in words (align4) and hdr holds, at every address,    *)
(* the BlockHeader last written there, as long as it can still be read.    *)
(***************************************************************************)
EXTENDS Integers

CONSTANTS Header,  \* BLOCKHEADER_OFFSET in words, 5 in the code
          Sizes,   \* bound: the requests to each copy, in words
          MaxHeap  \* bound: words of the heap of each copy

ASSUME FreeListAssumption ==
         /\ Header \in Nat \ {0}
         /\ Sizes \in [{"kernel", "programs"} -> SUBSET Nat]
         /\ MaxHeap \in [{"kernel", "programs"} -> Nat]

Null == 0
Base == 1
AllSizes == Sizes["kernel"] \cup Sizes["programs"]

VARIABLES
  copy,         \* whose heap this is: kernel or programs
  hdr,          \* the BlockHeader at each address
  head,         \* FreeList::head
  last_visited, \* FreeList::last_visited
  heap_ptr,     \* the end of the heap
  call,         \* idle, find (inside malloc), or corrupt
  want,         \* malloc: s
  it,           \* findBlock: it
  given,        \* history: address and size of what clients have
  leaked        \* history: blocks that free was called for in vain

heapVars == <<hdr, head, last_visited, heap_ptr>>
vars == <<copy, heapVars, call, want, it, given, leaked>>

\* brk moves heap_ptr.
Shrinks == copy = "kernel"

Addr == Base .. MaxHeap[copy]

-----------------------------------------------------------------------------
(* Blocks *)

\* own: the field ptr holds the address of the block's own data.
NoHeader == [size |-> 0, next |-> Null, prev |-> Null, free |-> FALSE,
             own |-> FALSE]

\* A header that left the list is only read through a stale last_visited:
\* never in the kernel, where ExtendStale ends the model.
Retired(h) == IF Shrinks THEN NoHeader ELSE h

Data(b) == b + Header
End(b) == Data(b) + hdr[b].size

Init ==
  /\ copy \in {"kernel", "programs"}
  /\ hdr = [a \in Addr |-> NoHeader]
  /\ head = Null
  /\ last_visited = Null
  /\ heap_ptr = Base
  /\ call = "idle"
  /\ want = 0
  /\ it = Null
  /\ given = {}
  /\ leaked = {}

-----------------------------------------------------------------------------
(* malloc *)

\* The bound on the heap; sbrk itself never fails.
HasRoom(s) == heap_ptr + Header + s <= MaxHeap[copy] + 1

\* malloc starts the search at head, if there is one.
Malloc(s) ==
  /\ call = "idle"
  /\ HasRoom(s)
  /\ call' = "find"
  /\ want' = s
  /\ it' = head
  /\ last_visited' = IF head # Null THEN head ELSE last_visited
  /\ UNCHANGED <<hdr, head, heap_ptr, given, leaked>>

Fits(b) == hdr[b].free /\ hdr[b].size >= want

\* Faulty variant: the search starts over at the end of the list.
FindNextWraps ==
  /\ call = "find"
  /\ it # Null
  /\ ~Fits(it)
  /\ last_visited' = it
  /\ it' = IF hdr[it].next = Null THEN head ELSE hdr[it].next
  /\ UNCHANGED <<hdr, head, heap_ptr, call, want, given, leaked>>

\* One turn of the loop in findBlock.
FindNext ==
  /\ call = "find"
  /\ it # Null
  /\ ~Fits(it)
  /\ last_visited' = it
  /\ it' = hdr[it].next
  /\ UNCHANGED <<hdr, head, heap_ptr, call, want, given, leaked>>

Return(b) == /\ call' = "idle"
             /\ want' = 0
             /\ it' = Null
             /\ given' = given \cup {[addr |-> Data(b), size |-> want]}

\* splitBlock does not set ptr of the new block: it is what the memory holds
\* there, its own address if the same header was there before.
Split(b, own) ==
  LET add == Data(b) + want
      h == [hdr EXCEPT ![b].size = want, ![b].next = add, ![b].free = FALSE,
                       ![add] = [size |-> hdr[b].size - want - Header,
                                 next |-> hdr[b].next, prev |-> b,
                                 free |-> TRUE, own |-> own]]
  IN  IF hdr[b].next = Null THEN h ELSE [h EXCEPT ![hdr[b].next].prev = add]

Taken(b) == [hdr EXCEPT ![b].free = FALSE]

Reuse ==
  /\ call = "find"
  /\ it # Null
  /\ Fits(it)
  /\ IF hdr[it].size - want >= Header + 1
       THEN \E own \in BOOLEAN : hdr' = Split(it, own)
       ELSE hdr' = Taken(it)
  /\ Return(it)
  /\ UNCHANGED <<head, last_visited, heap_ptr, leaked>>

Extended(b) ==
  LET h == [hdr EXCEPT ![b] = [size |-> want, next |-> Null,
                               prev |-> last_visited, free |-> FALSE,
                               own |-> TRUE]]
  IN  IF last_visited = Null THEN h ELSE [h EXCEPT ![last_visited].next = b]

\* With an empty list malloc calls extendHeap without a search, and
\* last_visited is a block of the past.
Stale == head = Null /\ last_visited # Null

\* extendHeap, and head = it if there was no head.
Extend ==
  /\ call = "find"
  /\ it = Null
  /\ ~(Shrinks /\ Stale)
  /\ hdr' = Extended(heap_ptr)
  /\ heap_ptr' = heap_ptr + Header + want
  /\ head' = IF head = Null THEN heap_ptr ELSE head
  /\ Return(heap_ptr)
  /\ UNCHANGED <<last_visited, leaked>>

\* Where brk moves heap_ptr, a block of the past lies in the new block: its
\* prev and next point to itself or into its data.
ExtendStale ==
  /\ call = "find"
  /\ it = Null
  /\ Shrinks /\ Stale
  /\ call' = "corrupt"
  /\ UNCHANGED <<heapVars, want, it, given, leaked>>

-----------------------------------------------------------------------------
(* free *)

ValidAddr(b) == /\ head # Null
                /\ Data(b) > head
                /\ Data(b) < heap_ptr
                /\ hdr[b].own

\* fusion: b takes in the block after it if that is free.
Fused(h, b) ==
  LET n == h[b].next
      m == h[n].next
      g == [h EXCEPT ![b].size = @ + Header + h[n].size, ![b].next = m,
                     ![n] = Retired(@)]
  IN  IF n = Null \/ ~h[n].free THEN h
      ELSE IF m = Null THEN g ELSE [g EXCEPT ![m].prev = b]

Marked(b) == [hdr EXCEPT ![b].free = TRUE]

\* Faulty variant: only the block after b is considered.
FirstFreeHere(b) == b

\* The block that b becomes part of: the one before it, if that is free.
FirstFree(b) ==
  IF hdr[b].prev # Null /\ hdr[hdr[b].prev].free THEN hdr[b].prev ELSE b

WithPrevious(b) ==
  IF FirstFree(b) = b THEN Marked(b) ELSE Fused(Marked(b), FirstFree(b))

\* Faulty variant: prev->next is not reset.
DropTailLinked(h, b) ==
  /\ hdr' = [h EXCEPT ![b] = Retired(@)]
  /\ head' = IF h[b].prev = Null THEN Null ELSE head
  /\ heap_ptr' = IF Shrinks THEN b ELSE heap_ptr

\* The last block leaves the list and its memory is given to brk.
DropTail(h, b) ==
  /\ LET g == [h EXCEPT ![b] = Retired(@)]
     IN  hdr' = IF h[b].prev = Null THEN g
                                    ELSE [g EXCEPT ![h[b].prev].next = Null]
  /\ head' = IF h[b].prev = Null THEN Null ELSE head
  /\ heap_ptr' = IF Shrinks THEN b ELSE heap_ptr

GivenBlock(b, r) == r \in given /\ r.addr = Data(b)

Free(b) ==
  /\ call = "idle"
  /\ \E r \in given : GivenBlock(b, r) /\ given' = given \ {r}
  /\ ValidAddr(b)
  /\ LET first == FirstFree(b)
         h == WithPrevious(b)
     IN  IF h[first].next # Null
           THEN hdr' = Fused(h, first) /\ UNCHANGED <<head, heap_ptr>>
           ELSE DropTail(h, first)
  /\ UNCHANGED <<last_visited, call, want, it, leaked>>

\* free returns early.
FreeIgnored(b) ==
  /\ call = "idle"
  /\ \E r \in given : GivenBlock(b, r) /\ given' = given \ {r}
  /\ ~ValidAddr(b)
  /\ leaked' = leaked \cup {b}
  /\ UNCHANGED <<heapVars, call, want, it>>

-----------------------------------------------------------------------------

MallocStep == FindNext \/ Reuse \/ Extend \/ ExtendStale

Next == /\ UNCHANGED copy
        /\ \/ \E s \in Sizes[copy] : Malloc(s)
           \/ MallocStep
           \/ \E b \in Addr : Free(b) \/ FreeIgnored(b)

Spec == Init /\ [][Next]_vars

\* malloc is not interrupted for ever; its clients owe nothing.
FairSpec == Spec /\ WF_vars(MallocStep /\ UNCHANGED copy)

-----------------------------------------------------------------------------
(* Correctness *)

Pointers == Addr \cup {Null}

IsHeader(h) == /\ h.size \in 0..MaxHeap[copy]
               /\ h.next \in Pointers
               /\ h.prev \in Pointers
               /\ h.free \in BOOLEAN
               /\ h.own \in BOOLEAN

TypeOK ==
  /\ copy \in {"kernel", "programs"}
  /\ \A a \in Addr : IsHeader(hdr[a])
  /\ head \in Pointers
  /\ last_visited \in Pointers
  /\ heap_ptr \in Base .. MaxHeap[copy] + 1
  /\ call \in {"idle", "find", "corrupt"}
  /\ want \in AllSizes \cup {0}
  /\ it \in Pointers
  /\ given \subseteq [addr : 1 .. MaxHeap[copy] + 1, size : AllSizes]
  /\ leaked \subseteq Addr

\* The blocks on the list.
Visit[n \in 0..MaxHeap[copy]] ==
  IF n = 0 THEN head
  ELSE IF Visit[n - 1] = Null THEN Null ELSE hdr[Visit[n - 1]].next

Listed == {Visit[n] : n \in 0..MaxHeap[copy]} \ {Null}

\* Splitting, fusion and brk keep the list an exact tiling of the heap, in
\* which prev is the inverse of next: no word of it is lost or in two blocks.
\* (In the programs the memory that was given to brk is lost.)
TilesHeap == copy = "kernel" =>
  /\ IF head = Null THEN heap_ptr = Base
                    ELSE head = Base /\ hdr[head].prev = Null
  /\ \A b \in Listed :
       IF hdr[b].next = Null THEN End(b) = heap_ptr
       ELSE hdr[b].next = End(b) /\ hdr[hdr[b].next].prev = b

\* free leaves no two free blocks next to each other and no free block at the
\* end, though it looks at one neighbour on each side only: the heap is never
\* larger than its last block in use requires.
Coalesced == copy = "kernel" =>
  \A b \in Listed : hdr[b].free =>
    hdr[b].next # Null /\ ~hdr[hdr[b].next].free

\* The blocks marked as used are those the clients have, and those that free
\* ignored: nothing in use is ever marked free, through any order of calls.
UsedBlocks == {b \in Listed : ~hdr[b].free}
GivenBlocks == {r.addr - Header : r \in given}

UsedAreGiven ==
  copy = "kernel" => UsedBlocks = GivenBlocks \cup leaked

\* The list of blocks is an exact tiling of the heap without two free blocks
\* in a row, and the blocks marked as used are those that clients have.
HeapExact == TypeOK /\ TilesHeap /\ Coalesced /\ UsedAreGiven

\* Each search of malloc ends: whatever was split, fused and dropped, the
\* list has no cycle.
MallocReturns == call = "find" ~> call # "find"

\* What the clients rely on.
Largest == CHOOSE n \in {MaxHeap["kernel"], MaxHeap["programs"]} :
             MaxHeap["kernel"] <= n /\ MaxHeap["programs"] <= n

AllocatorOf == INSTANCE Allocator WITH MaxHeap <- Largest

AllocatorRefinement == AllocatorOf!Spec

=============================================================================
