--------------------------- MODULE RuntimeProofs ----------------------------
(***************************************************************************)
(* What every program leans on, for every value of the constants: the heap *)
(* of the kernel, and the console.                                         *)
(*                                                                         *)
(* The heap.  The list tiles the heap exactly, no two free blocks follow   *)
(* one another, and the blocks in use are those that clients have.  The    *)
(* list is seen from its headers instead of from its head: an address      *)
(* holds a block if it holds a header with an owner or a previous block.   *)
(* That these are the blocks on the list is shown from there; that the     *)
(* heap implements Allocator follows in the part after it.                 *)
(*                                                                         *)
(* The console.  A number becomes its own text (Decimal), the system calls *)
(* print and read what the process has (ConsoleCalls), and cout loses,     *)
(* doubles and reorders nothing (ConsoleStream).                           *)
(***************************************************************************)
EXTENDS FreeList, ConsoleStream, FiniteSetTheorems, WellFoundedInduction, TLAPS

HeapEnd == MaxHeap["kernel"]
Space == Base .. HeapEnd
Links == Space \cup {Null}
Headers == [size : 0 .. HeapEnd, next : Links, prev : Links,
            free : BOOLEAN, own : BOOLEAN]

Blocks(h) == {a \in Space : h[a].own \/ h[a].prev # Null}
EndOf(h, b) == b + Header + h[b].size

\* A block, its neighbours and the end of the heap.
LinkedAt(h, b, end) ==
  /\ EndOf(h, b) <= end
  /\ IF h[b].next = Null THEN EndOf(h, b) = end
     ELSE /\ h[b].next = EndOf(h, b)
          /\ h[b].next \in Blocks(h)
          /\ h[h[b].next].prev = b
  /\ IF h[b].prev = Null THEN b = Base
     ELSE h[b].prev \in Blocks(h) /\ h[h[b].prev].next = b
  /\ b = Base => h[b].prev = Null /\ h[b].own

\* A list that starts at first and tiles the heap up to end.
Shape(h, first, end) ==
  /\ h \in [Space -> Headers]
  /\ end \in Base .. HeapEnd + 1
  /\ IF Blocks(h) = {} THEN first = Null /\ end = Base
                       ELSE first = Base /\ Base \in Blocks(h)
  /\ \A b \in Blocks(h) : LinkedAt(h, b, end)
  /\ \A b, c \in Blocks(h) : b < c => EndOf(h, b) <= c

\* No free block is the last, or before another free one.
NoFreePair(h) ==
  \A b \in Blocks(h) : h[b].free => h[b].next # Null /\ ~h[h[b].next].free

Used(h) == {b \in Blocks(h) : ~h[b].free}

Clients ==
  /\ given \subseteq [addr : Int, size : Sizes["kernel"]]
  /\ leaked \subseteq Space
  /\ Used(hdr) = GivenBlocks \cup leaked
  /\ GivenBlocks \cap leaked = {}
  /\ \A r, s \in given : r.addr = s.addr => r = s

\* What a client has got lies in its block.
Inside == \A r \in given : r.size <= hdr[r.addr - Header].size

\* Where a search is, and that there is room for its result.
Search ==
  /\ call \in {"idle", "find", "corrupt"}
  /\ last_visited \in Links
  /\ want \in Sizes["kernel"] \cup {0}
  /\ it # Null => call = "find" /\ it \in Blocks(hdr)
  /\ call = "find" =>
       /\ want \in Sizes["kernel"]
       /\ heap_ptr + Header + want <= HeapEnd + 1
       /\ it = Null /\ head # Null =>
            last_visited \in Blocks(hdr) /\ hdr[last_visited].next = Null

IInv == /\ Shape(hdr, head, heap_ptr)
        /\ NoFreePair(hdr)
        /\ Clients
        /\ Inside
        /\ Search

-----------------------------------------------------------------------------
(* Lists *)

LEMMA Constants == Header \in Nat \ {0} /\ HeapEnd \in Nat
  BY FreeListAssumption DEF FreeListAssumption, HeapEnd

\* What the fields of a block are, and that it lies between its neighbours.
LEMMA Block ==
  ASSUME NEW h, NEW first, NEW end, Shape(h, first, end), NEW b \in Blocks(h)
  PROVE  /\ b \in Space /\ b \in Nat /\ b >= 1 /\ b # Null
         /\ h[b] \in Headers
         /\ h[b].size \in Nat
         /\ EndOf(h, b) \in Nat /\ b < EndOf(h, b)
         /\ EndOf(h, b) <= end /\ end \in Nat /\ end <= HeapEnd + 1
         /\ h[b].next # Null => /\ h[b].next \in Blocks(h)
                                /\ h[b].next = EndOf(h, b)
                                /\ h[h[b].next].prev = b
         /\ h[b].next = Null => EndOf(h, b) = end
         /\ h[b].prev # Null => h[b].prev \in Blocks(h) /\ h[h[b].prev].next = b
         /\ h[b].prev = Null <=> b = Base
         /\ b = Base => h[b].own
         /\ first = Base /\ Base \in Blocks(h)
  <1>1. b \in Space /\ h \in [Space -> Headers] /\ LinkedAt(h, b, end)
    BY DEF Shape, Blocks
  <1>2. b \in Nat /\ b >= 1 /\ b # Null
    BY <1>1, Constants DEF Space, Base, Null
  <1>3. h[b] \in Headers /\ h[b].size \in Nat
    BY <1>1, Constants DEF Headers
  <1>4. EndOf(h, b) \in Nat /\ b < EndOf(h, b)
    BY <1>2, <1>3, Constants DEF EndOf
  <1>5. end \in Nat /\ end <= HeapEnd + 1
    BY Constants DEF Shape, Base
  <1>6. first = Base /\ Base \in Blocks(h)
    BY DEF Shape
  <1> QED BY <1>1, <1>2, <1>3, <1>4, <1>5, <1>6 DEF LinkedAt

\* Blocks do not overlap.
LEMMA Apart ==
  ASSUME NEW h, NEW first, NEW end, Shape(h, first, end),
         NEW b \in Blocks(h), NEW c \in Blocks(h), b < c
  PROVE  EndOf(h, b) <= c
  BY DEF Shape

\* The last block is the highest, and the only one without a next.
LEMMA LastBlock ==
  ASSUME NEW h, NEW first, NEW end, Shape(h, first, end),
         NEW b \in Blocks(h), h[b].next = Null
  PROVE  \A c \in Blocks(h) : c = b \/ (c < b /\ EndOf(h, c) <= b)
  <1> SUFFICES ASSUME NEW c \in Blocks(h), c # b
               PROVE  c < b /\ EndOf(h, c) <= b
    OBVIOUS
  <1>1. b \in Nat /\ c \in Nat /\ EndOf(h, c) \in Nat /\ c < EndOf(h, c)
        /\ EndOf(h, b) = end /\ EndOf(h, c) <= end /\ end \in Nat
    BY Block
  <1>2. ~(b < c)
    <2> SUFFICES ASSUME b < c PROVE FALSE
      OBVIOUS
    <2>1. EndOf(h, b) <= c
      BY Apart
    <2> QED BY <1>1, <2>1
  <1>3. c < b
    BY <1>1, <1>2
  <1> QED BY <1>3, Apart

\* g is h with the flag of block b set to f.
MarkedIn(g, h, b, f) ==
  /\ Blocks(g) = Blocks(h)
  /\ \A c \in Space : /\ g[c].next = h[c].next
                      /\ g[c].prev = h[c].prev
                      /\ g[c].size = h[c].size
                      /\ g[c].free = IF c = b THEN f ELSE h[c].free

\* To mark a block changes nothing else.
LEMMA MarkKeeps ==
  ASSUME NEW h, NEW first, NEW end, Shape(h, first, end), NEW b \in Blocks(h),
         NEW f \in BOOLEAN
  PROVE  LET g == [h EXCEPT ![b].free = f]
         IN  Shape(g, first, end) /\ MarkedIn(g, h, b, f)
  <1> DEFINE g == [h EXCEPT ![b].free = f]
  <1>1. h \in [Space -> Headers] /\ b \in Space
    BY DEF Shape, Blocks
  <1>2. g \in [Space -> Headers]
    BY <1>1 DEF Headers
  <1>3. \A c \in Space : /\ g[c].size = h[c].size /\ g[c].next = h[c].next
                         /\ g[c].prev = h[c].prev /\ g[c].own = h[c].own
                         /\ g[c].free = IF c = b THEN f ELSE h[c].free
    BY <1>1 DEF Headers
  <1> HIDE DEF g
  <1>4. Blocks(g) = Blocks(h) /\ Blocks(h) \subseteq Space
    BY <1>3 DEF Blocks
  <1>5. \A c \in Blocks(h) : EndOf(g, c) = EndOf(h, c)
    BY <1>3, <1>4 DEF EndOf
  <1>6. \A c \in Blocks(g) : LinkedAt(g, c, end)
    <2> SUFFICES ASSUME NEW c \in Blocks(h) PROVE LinkedAt(g, c, end)
      BY <1>4
    <2>1. LinkedAt(h, c, end) /\ c \in Space
      BY <1>4 DEF Shape
    <2>2. h[c].next # Null => h[c].next \in Space
      BY <1>4, <2>1 DEF LinkedAt
    <2>3. h[c].prev # Null => h[c].prev \in Space
      BY <1>4, <2>1 DEF LinkedAt
    <2> QED BY <1>3, <1>4, <1>5, <2>1, <2>2, <2>3 DEF LinkedAt
  <1>7. Shape(g, first, end)
    BY <1>2, <1>4, <1>5, <1>6 DEF Shape
  <1>8. MarkedIn(g, h, b, f)
    BY ONLY <1>3, <1>4 DEF MarkedIn
  <1> QED BY ONLY <1>7, <1>8 DEF g

\* fusion of a block with the one after it.
Merged(h, b) ==
  LET n == h[b].next
      m == h[n].next
      g == [h EXCEPT ![b].size = @ + Header + h[n].size, ![b].next = m,
                     ![n] = NoHeader]
  IN  IF m = Null THEN g ELSE [g EXCEPT ![m].prev = b]

LEMMA MergeKeeps ==
  ASSUME NEW h, NEW first, NEW end, Shape(h, first, end), NEW b \in Blocks(h),
         h[b].next # Null
  PROVE  LET g == Merged(h, b)
             n == h[b].next
         IN  /\ Shape(g, first, end)
             /\ n # b
             /\ Blocks(g) = Blocks(h) \ {n}
             /\ \A c \in Blocks(g) :
                  /\ g[c].free = h[c].free
                  /\ g[c].next = IF c = b THEN h[n].next ELSE h[c].next
                  /\ c # b => g[c].size = h[c].size
  <1> DEFINE n == h[b].next
             m == h[n].next
             g == Merged(h, b)
  <1>1. /\ b \in Space /\ b \in Nat /\ b >= 1 /\ h[b] \in Headers
        /\ n \in Blocks(h) /\ n = EndOf(h, b) /\ h[n].prev = b /\ n # Null
        /\ b < n /\ h[b].size \in Nat
    BY Block
  <1>2. /\ n \in Space /\ n \in Nat /\ h[n] \in Headers /\ h[n].size \in Nat
        /\ n < EndOf(h, n) /\ EndOf(h, n) <= end /\ end \in Nat
        /\ end <= HeapEnd + 1 /\ n # Base
    BY <1>1, Block
  <1>3. m # Null => /\ m \in Blocks(h) /\ m = EndOf(h, n) /\ h[m].prev = n
                    /\ m \in Space /\ m \in Nat /\ n < m /\ h[m] \in Headers
                    /\ m # Base
    BY <1>1, <1>2, Block
  <1>4. m = Null => EndOf(h, n) = end
    BY <1>1, Block
  <1>5. h \in [Space -> Headers]
    BY DEF Shape
  <1> DEFINE size == h[b].size + Header + h[n].size
  <1>6. size \in 0 .. HeapEnd /\ b + Header + size = EndOf(h, n) /\ m \in Links
    BY <1>1, <1>2, <1>3, Constants DEF EndOf, Links
  <1>7. /\ g \in [Space -> Headers]
        /\ \A c \in Space :
             /\ g[c].size = IF c = n THEN 0 ELSE IF c = b THEN size
                            ELSE h[c].size
             /\ g[c].next = IF c = n THEN Null ELSE IF c = b THEN m
                            ELSE h[c].next
             /\ g[c].prev = IF c = n THEN Null
                            ELSE IF m # Null /\ c = m THEN b ELSE h[c].prev
             /\ g[c].own = IF c = n THEN FALSE ELSE h[c].own
             /\ g[c].free = IF c = n THEN FALSE ELSE h[c].free
    <2> DEFINE hb == [[h[b] EXCEPT !.size = size] EXCEPT !.next = m]
               g1 == [h EXCEPT ![b] = hb, ![n] = NoHeader]
    <2>1. /\ hb \in Headers
          /\ hb.size = size /\ hb.next = m /\ hb.prev = h[b].prev
          /\ hb.free = h[b].free /\ hb.own = h[b].own
      <3> HIDE DEF size, m, n
      <3> QED BY <1>1, <1>6 DEF Headers
    <2>2. NoHeader \in Headers
      BY Constants DEF Headers, NoHeader, Links, Null
    <2>3. [h EXCEPT ![b].size = @ + Header + h[n].size, ![b].next = m,
                    ![n] = NoHeader] = g1
      <3>1. [h EXCEPT ![b].size = @ + Header + h[n].size, ![b].next = m]
              = [h EXCEPT ![b] = hb]
        BY <1>1, <1>5
      <3> HIDE DEF hb, n, m, size
      <3> QED BY <3>1
    <2>4. g1 \in [Space -> Headers]
          /\ \A c \in Space : g1[c] = IF c = n THEN NoHeader
                                      ELSE IF c = b THEN hb ELSE h[c]
      BY <1>1, <1>2, <1>5, <2>1, <2>2
    <2>5. g = IF m = Null THEN g1 ELSE [g1 EXCEPT ![m].prev = b]
      BY <2>3 DEF Merged
    <2> HIDE DEF g1, g, m, n, size
    <2>6. g \in [Space -> Headers]
          /\ \A c \in Space :
               /\ c = n => g[c] = NoHeader
               /\ c = b => g[c] = hb
               /\ m # Null /\ c = m => g[c] = [h[m] EXCEPT !.prev = b]
               /\ c # n /\ c # b /\ ~(m # Null /\ c = m) => g[c] = h[c]
      <3> HIDE DEF hb
      <3>1. CASE m = Null
        BY <1>1, <2>4, <2>5, <3>1
      <3>2. CASE m # Null
        <4>1. g1[m] = h[m] /\ m # n /\ m # b
          BY <1>1, <1>2, <1>3, <2>4, <3>2
        <4> DEFINE hm == [h[m] EXCEPT !.prev = b]
        <4>2. hm \in Headers
          BY <1>1, <1>3, <3>2 DEF Headers, Links
        <4> HIDE DEF hm
        <4>3. g = [g1 EXCEPT ![m] = hm]
          BY <2>5, <3>2, <4>1 DEF hm
        <4>4. g \in [Space -> Headers]
              /\ \A c \in Space : g[c] = IF c = m THEN hm ELSE g1[c]
          BY <1>3, <2>4, <3>2, <4>2, <4>3
        <4>5. \A c \in Space :
                /\ c = n => g[c] = NoHeader
                /\ c = b => g[c] = hb
                /\ m # Null /\ c = m => g[c] = hm
                /\ c # n /\ c # b /\ ~(m # Null /\ c = m) => g[c] = h[c]
          BY <1>1, <2>4, <3>2, <4>1, <4>4
        <4> QED BY <4>4, <4>5 DEF hm
      <3> QED BY <3>1, <3>2
    <2> SUFFICES ASSUME NEW c \in Space
                 PROVE
             /\ g[c].size = IF c = n THEN 0 ELSE IF c = b THEN size
                            ELSE h[c].size
             /\ g[c].next = IF c = n THEN Null ELSE IF c = b THEN m
                            ELSE h[c].next
             /\ g[c].prev = IF c = n THEN Null
                            ELSE IF m # Null /\ c = m THEN b ELSE h[c].prev
             /\ g[c].own = IF c = n THEN FALSE ELSE h[c].own
             /\ g[c].free = IF c = n THEN FALSE ELSE h[c].free
      BY <2>6
    <2>7. CASE c = n
      <3>1. g[c] = NoHeader
        BY <2>6, <2>7
      <3> QED BY <2>7, <3>1 DEF NoHeader
    <2>8. CASE c = b
      <3> HIDE DEF hb
      <3>1. g[c] = hb /\ c # n /\ ~(m # Null /\ c = m)
        BY <1>1, <1>2, <1>3, <2>6, <2>8
      <3> QED BY <2>1, <2>8, <3>1
    <2>9. CASE m # Null /\ c = m
      <3>1. g[c] = [h[c] EXCEPT !.prev = b] /\ c # n /\ c # b
        BY <1>1, <1>2, <1>3, <2>6, <2>9
      <3>2. h[c] \in Headers
        BY <1>5
      <3> QED BY <2>9, <3>1, <3>2 DEF Headers
    <2>10. CASE c # n /\ c # b /\ ~(m # Null /\ c = m)
      BY <2>6, <2>10
    <2> QED BY <2>7, <2>8, <2>9, <2>10
  <1> HIDE DEF g, size
  <1>8. Blocks(g) = Blocks(h) \ {n}
    <2>1. \A c \in Space : c \in Blocks(g) <=> c \in Blocks(h) /\ c # n
      <3> SUFFICES ASSUME NEW c \in Space
                   PROVE  c \in Blocks(g) <=> c \in Blocks(h) /\ c # n
        OBVIOUS
      <3>1. CASE c = n
        BY <1>7, <3>1 DEF Blocks
      <3>2. CASE c # n /\ m # Null /\ c = m
        <4>1. b # Null
          BY <1>1 DEF Null
        <4>2. g[c].prev = b
          BY <1>7, <3>2
        <4> QED BY <1>3, <3>2, <4>1, <4>2 DEF Blocks
      <3>3. CASE c # n /\ ~(m # Null /\ c = m)
        BY <1>7, <3>3 DEF Blocks
      <3> QED BY <3>1, <3>2, <3>3
    <2> QED BY <2>1 DEF Blocks
  <1>9. \A c \in Blocks(g) : c \in Space /\ c \in Blocks(h) /\ c # n
    BY <1>8 DEF Blocks
  <1>10. \A c \in Blocks(g) : EndOf(g, c) = IF c = b THEN EndOf(h, n)
                                            ELSE EndOf(h, c)
    BY <1>6, <1>7, <1>9 DEF EndOf
  <1>11. \A c \in Blocks(g) : LinkedAt(g, c, end)
    <2> SUFFICES ASSUME NEW c \in Blocks(g) PROVE LinkedAt(g, c, end)
      OBVIOUS
    <2>1. c \in Space /\ c \in Blocks(h) /\ c # n
      BY <1>9
    <2>2. LinkedAt(h, c, end)
      BY <2>1 DEF Shape
    <2>3. EndOf(g, c) <= end
      BY <1>2, <1>10, <2>2 DEF LinkedAt
    <2>4. IF g[c].next = Null THEN EndOf(g, c) = end
          ELSE /\ g[c].next = EndOf(g, c)
               /\ g[c].next \in Blocks(g)
               /\ g[g[c].next].prev = c
      <3>1. CASE c = b
        <4>1. g[c].next = m /\ EndOf(g, c) = EndOf(h, n)
          BY <1>7, <1>10, <2>1, <3>1
        <4>2. m # Null => m # n /\ m \in Blocks(g)
          BY <1>2, <1>3, <1>8
        <4>3. m # Null => g[m].prev = b
          BY <1>3, <1>7, <4>2
        <4> QED BY <1>3, <1>4, <3>1, <4>1, <4>2, <4>3
      <3>2. CASE c # b
        <4>1. g[c].next = h[c].next /\ EndOf(g, c) = EndOf(h, c)
          BY <1>7, <1>10, <2>1, <3>2
        <4>2. h[c].next # Null => /\ h[c].next # n /\ h[c].next # m
                                  /\ h[c].next \in Space
          BY <1>1, <1>3, <2>1, <2>2, <3>2 DEF LinkedAt, Blocks
        <4>3. h[c].next # Null => /\ h[c].next \in Blocks(g)
                                  /\ g[h[c].next].prev = c
          BY <1>7, <1>8, <2>2, <4>2 DEF LinkedAt
        <4> QED BY <2>2, <4>1, <4>3 DEF LinkedAt
      <3> QED BY <3>1, <3>2
    <2>5. IF g[c].prev = Null THEN c = Base
          ELSE g[c].prev \in Blocks(g) /\ g[g[c].prev].next = c
      <3>1. CASE m # Null /\ c = m
        <4>1. g[c].prev = b /\ g[b].next = m /\ b \in Blocks(g)
          BY <1>1, <1>7, <1>8, <2>1, <3>1
        <4> QED BY <1>1, <3>1, <4>1 DEF Space, Base, Null
      <3>2. CASE ~(m # Null /\ c = m)
        <4>1. g[c].prev = h[c].prev
          BY <1>7, <2>1, <3>2
        <4>2. h[c].prev # Null => /\ h[c].prev # n /\ h[c].prev # b
                                  /\ h[c].prev \in Space
          BY <1>1, <2>1, <2>2, <3>2, Block DEF LinkedAt, Blocks
        <4>3. IF h[c].prev = Null THEN c = Base
              ELSE h[c].prev \in Blocks(h) /\ h[h[c].prev].next = c
          BY <2>2 DEF LinkedAt
        <4>4. h[c].prev # Null => /\ h[c].prev \in Blocks(g)
                                  /\ g[h[c].prev].next = c
          BY <1>7, <1>8, <4>2, <4>3
        <4> QED BY <4>1, <4>3, <4>4
      <3> QED BY <3>1, <3>2
    <2>6. c = Base => g[c].prev = Null /\ g[c].own
      BY <1>2, <1>3, <1>7, <2>1, <2>2 DEF LinkedAt
    <2> QED BY <2>3, <2>4, <2>5, <2>6 DEF LinkedAt
  <1>12. ASSUME NEW c \in Blocks(g), NEW d \in Blocks(g), c < d
         PROVE  EndOf(g, c) <= d
    <2>1. c \in Blocks(h) /\ d \in Blocks(h) /\ d # n
      BY <1>9
    <2>2. CASE c # b
      BY <1>10, <1>12, <2>1, <2>2, Apart
    <2>3. CASE c = b
      <3>1. d \in Nat /\ n <= d
        BY <1>1, <1>12, <2>1, <2>3, Apart, Block
      <3>2. n < d
        BY <1>2, <2>1, <3>1
      <3>3. EndOf(h, n) <= d
        BY <1>1, <2>1, <3>2, Apart
      <3> QED BY <1>10, <2>3, <3>3
    <2> QED BY <2>2, <2>3
  <1>13. first = Base /\ Base \in Blocks(g)
    BY <1>2, <1>8, Block
  <1>14. Shape(g, first, end)
    <2>1. end \in Base .. HeapEnd + 1
      BY DEF Shape
    <2>2. Blocks(g) # {}
      BY <1>13
    <2> QED BY <1>7, <1>11, <1>12, <1>13, <2>1, <2>2 DEF Shape
  <1>15. \A c \in Blocks(g) :
           /\ g[c].free = h[c].free
           /\ g[c].next = IF c = b THEN m ELSE h[c].next
           /\ c # b => g[c].size = h[c].size
    BY <1>7, <1>9
  <1> QED BY <1>1, <1>8, <1>14, <1>15 DEF g

\* The last block leaves the list.
Dropped(h, b) ==
  LET g == [h EXCEPT ![b] = NoHeader]
  IN  IF h[b].prev = Null THEN g ELSE [g EXCEPT ![h[b].prev].next = Null]

LEMMA DropKeeps ==
  ASSUME NEW h, NEW first, NEW end, Shape(h, first, end), NEW b \in Blocks(h),
         h[b].next = Null
  PROVE  LET g == Dropped(h, b)
         IN  /\ Shape(g, IF h[b].prev = Null THEN Null ELSE first, b)
             /\ Blocks(g) = Blocks(h) \ {b}
             /\ \A c \in Blocks(g) :
                  /\ g[c].free = h[c].free
                  /\ g[c].next = IF c = h[b].prev THEN Null ELSE h[c].next
                  /\ g[c].size = h[c].size
  <1> DEFINE p == h[b].prev
             g == Dropped(h, b)
  <1>1. /\ b \in Space /\ b \in Nat /\ b >= 1 /\ b <= HeapEnd /\ h[b] \in Headers
        /\ first = Base /\ Base \in Blocks(h) /\ h[b].size \in Nat
        /\ (p = Null <=> b = Base)
    <2>1. b \in Space
      BY Block
    <2> QED BY <2>1, Block, Constants DEF Space
  <1>2. p # Null => /\ p \in Blocks(h) /\ h[p].next = b /\ p \in Space
                    /\ p \in Nat /\ EndOf(h, p) = b /\ h[p] \in Headers
                    /\ p # b
    <2> SUFFICES ASSUME p # Null
                 PROVE  /\ p \in Blocks(h) /\ h[p].next = b /\ p \in Space
                        /\ p \in Nat /\ EndOf(h, p) = b /\ h[p] \in Headers
                        /\ p # b
      OBVIOUS
    <2>1. p \in Blocks(h) /\ h[p].next = b /\ b # Null
      BY Block
    <2> HIDE DEF p
    <2> QED BY <2>1, Block
  <1>3. \A c \in Blocks(h) : c = b \/ (c < b /\ EndOf(h, c) <= b)
    BY LastBlock
  <1>4. h \in [Space -> Headers] /\ NoHeader \in Headers
    BY Constants DEF Shape, Headers, NoHeader, Links, Null
  <1>5. g \in [Space -> Headers]
        /\ \A c \in Space :
             /\ c = b => g[c] = NoHeader
             /\ p # Null /\ c = p => g[c] = [h[c] EXCEPT !.next = Null]
             /\ c # b /\ ~(p # Null /\ c = p) => g[c] = h[c]
    <2> DEFINE g1 == [h EXCEPT ![b] = NoHeader]
    <2>1. g = IF p = Null THEN g1 ELSE [g1 EXCEPT ![p].next = Null]
      BY DEF Dropped
    <2>2. /\ g1 \in [Space -> Headers]
          /\ \A c \in Space : g1[c] = IF c = b THEN NoHeader ELSE h[c]
      BY <1>1, <1>4
    <2> HIDE DEF g, g1, p
    <2>3. CASE p = Null
      BY <1>1, <2>1, <2>2, <2>3
    <2>4. CASE p # Null
      <3> DEFINE hp == [h[p] EXCEPT !.next = Null]
      <3>1. hp \in Headers
        BY <1>2, <2>4 DEF Headers, Links
      <3>2. g1[p] = h[p]
        BY <1>2, <2>2, <2>4
      <3> HIDE DEF hp
      <3>3. g = [g1 EXCEPT ![p] = hp]
        BY <2>1, <2>4, <3>2 DEF hp
      <3>4. g \in [Space -> Headers]
            /\ \A c \in Space : g[c] = IF c = p THEN hp ELSE g1[c]
        BY <1>2, <2>2, <2>4, <3>1, <3>3
      <3>5. \A c \in Space :
              /\ c = b => g[c] = NoHeader
              /\ c = p => g[c] = hp
              /\ c # b /\ c # p => g[c] = h[c]
        BY <1>2, <2>2, <2>4, <3>4
      <3> QED BY <2>4, <3>4, <3>5 DEF hp
    <2> QED BY <2>3, <2>4
  <1> HIDE DEF g
  <1>6. \A c \in Space \ {b} :
          /\ g[c].size = h[c].size /\ g[c].prev = h[c].prev
          /\ g[c].own = h[c].own /\ g[c].free = h[c].free
          /\ g[c].next = IF p # Null /\ c = p THEN Null ELSE h[c].next
    <2> SUFFICES ASSUME NEW c \in Space \ {b}
                 PROVE  /\ g[c].size = h[c].size /\ g[c].prev = h[c].prev
                        /\ g[c].own = h[c].own /\ g[c].free = h[c].free
                        /\ g[c].next = IF p # Null /\ c = p THEN Null
                                       ELSE h[c].next
      OBVIOUS
    <2>1. CASE p # Null /\ c = p
      <3>1. g[c] = [h[c] EXCEPT !.next = Null] /\ h[c] \in Headers
        BY <1>4, <1>5, <2>1
      <3> QED BY <2>1, <3>1 DEF Headers
    <2>2. CASE ~(p # Null /\ c = p)
      BY <1>5, <2>2
    <2> QED BY <2>1, <2>2
  <1>7. Blocks(g) = Blocks(h) \ {b}
    <2>1. g[b] = NoHeader
      BY <1>1, <1>5
    <2>2. b \notin Blocks(g)
      BY <2>1 DEF Blocks, NoHeader
    <2> QED BY <1>6, <2>2 DEF Blocks
  <1>8. \A c \in Blocks(g) : /\ c \in Blocks(h) /\ c \in Space \ {b} /\ c < b
                             /\ EndOf(g, c) = EndOf(h, c) /\ EndOf(g, c) <= b
    <2> SUFFICES ASSUME NEW c \in Blocks(g)
                 PROVE  /\ c \in Blocks(h) /\ c \in Space \ {b} /\ c < b
                        /\ EndOf(g, c) = EndOf(h, c) /\ EndOf(g, c) <= b
      OBVIOUS
    <2>1. c \in Blocks(h) /\ c \in Space \ {b}
      BY <1>7 DEF Blocks
    <2> QED BY <1>3, <1>6, <2>1 DEF EndOf
  <1>9. \A c \in Blocks(g) : LinkedAt(g, c, b)
    <2> SUFFICES ASSUME NEW c \in Blocks(g) PROVE LinkedAt(g, c, b)
      OBVIOUS
    <2>1. /\ c \in Blocks(h) /\ c \in Space \ {b} /\ LinkedAt(h, c, end)
          /\ EndOf(g, c) = EndOf(h, c) /\ EndOf(g, c) <= b
      BY <1>8 DEF Shape
    <2>2. IF g[c].next = Null THEN EndOf(g, c) = b
          ELSE /\ g[c].next = EndOf(g, c)
               /\ g[c].next \in Blocks(g)
               /\ g[g[c].next].prev = c
      <3>1. CASE p # Null /\ c = p
        BY <1>2, <1>6, <2>1, <3>1
      <3>2. CASE ~(p # Null /\ c = p)
        <4>1. g[c].next = h[c].next
          BY <1>6, <2>1, <3>2
        <4>2. h[c].next # Null
          <5>1. c < b /\ c \in Nat
            BY <1>8, Block
          <5> SUFFICES ASSUME h[c].next = Null PROVE FALSE
            OBVIOUS
          <5>2. b = c \/ b < c
            BY <2>1, LastBlock
          <5> QED BY <1>1, <5>1, <5>2
        <4>3. h[c].next # b /\ h[c].next \in Blocks(h)
          BY <2>1, <3>2, <4>2, Block DEF LinkedAt
        <4>4. h[c].next \in Blocks(g) /\ h[c].next \in Space \ {b}
          BY <1>7, <4>3 DEF Blocks
        <4> QED BY <1>6, <2>1, <4>1, <4>2, <4>4 DEF LinkedAt
      <3> QED BY <3>1, <3>2
    <2>3. g[c].prev = h[c].prev /\ g[c].own = h[c].own
      BY <1>6, <2>1
    <2>4. h[c].prev # Null => h[c].prev \in Blocks(g) /\ g[h[c].prev].next = c
      <3> SUFFICES ASSUME h[c].prev # Null
                   PROVE  h[c].prev \in Blocks(g) /\ g[h[c].prev].next = c
        OBVIOUS
      <3>1. h[c].prev \in Blocks(h) /\ h[h[c].prev].next = c
        BY <2>1 DEF LinkedAt
      <3>2. c # Null /\ c # b
        BY <2>1, Block
      <3>3. h[c].prev # b /\ ~(p # Null /\ h[c].prev = p)
        BY <1>2, <3>1, <3>2
      <3>4. h[c].prev \in Blocks(g) /\ h[c].prev \in Space \ {b}
        BY <1>7, <3>1, <3>3 DEF Blocks
      <3> QED BY <1>6, <3>1, <3>3, <3>4
    <2> QED BY <2>1, <2>2, <2>3, <2>4 DEF LinkedAt
  <1>10. \A c, d \in Blocks(g) : c < d => EndOf(g, c) <= d
    BY <1>8, Apart
  <1>11. IF Blocks(g) = {} THEN p = Null /\ b = Base
                           ELSE p # Null /\ first = Base /\ Base \in Blocks(g)
    <2>1. CASE p = Null
      <3>1. \A c \in Blocks(g) : FALSE
        <4> SUFFICES ASSUME NEW c \in Blocks(g) PROVE FALSE
          OBVIOUS
        <4>1. c < b /\ c \in Nat /\ c >= 1
          BY <1>8, Block
        <4> QED BY <1>1, <2>1, <4>1 DEF Base
      <3> QED BY <1>1, <2>1, <3>1
    <2>2. CASE p # Null
      BY <1>1, <1>7, <2>2
    <2> QED BY <2>1, <2>2
  <1>12. b \in Base .. HeapEnd + 1
    BY <1>1, Constants DEF Base
  <1>13. Shape(g, IF p = Null THEN Null ELSE first, b)
    BY <1>5, <1>9, <1>10, <1>11, <1>12 DEF Shape
  <1>14. \A c \in Blocks(g) : /\ g[c].free = h[c].free
                              /\ g[c].next = IF c = p THEN Null ELSE h[c].next
                              /\ g[c].size = h[c].size
    <2> SUFFICES ASSUME NEW c \in Blocks(g)
                 PROVE  /\ g[c].free = h[c].free
                        /\ g[c].next = IF c = p THEN Null ELSE h[c].next
                        /\ g[c].size = h[c].size
      OBVIOUS
    <2>1. c \in Space \ {b} /\ c # Null
      BY <1>8, Block
    <2> QED BY <1>6, <2>1
  <1> QED BY <1>7, <1>13, <1>14 DEF g

\* g is hdr with block b taken and cut short, and a free block add behind it.
SplitAt(g, b, add) ==
  /\ add \notin Blocks(hdr)
  /\ Blocks(g) = Blocks(hdr) \cup {add}
  /\ \A c \in Blocks(g) :
       /\ g[c].free = IF c = b THEN FALSE
                      ELSE IF c = add THEN TRUE ELSE hdr[c].free
       /\ g[c].next = IF c = b THEN add
                      ELSE IF c = add THEN hdr[b].next ELSE hdr[c].next
       /\ c # add => g[c].size = IF c = b THEN want ELSE hdr[c].size

LEMMA SplitKeeps ==
  ASSUME Shape(hdr, head, heap_ptr), NEW b \in Blocks(hdr), want \in Nat,
         hdr[b].size - want >= Header + 1, NEW own \in BOOLEAN
  PROVE  LET g == Split(b, own)
         IN  Shape(g, head, heap_ptr) /\ SplitAt(g, b, Data(b) + want)
  <1> DEFINE n == hdr[b].next
             add == Data(b) + want
             rest == hdr[b].size - want - Header
             g == Split(b, own)
  <1>1. /\ b \in Space /\ b \in Nat /\ b >= 1 /\ b <= HeapEnd /\ hdr[b] \in Headers
        /\ hdr[b].size \in Nat /\ EndOf(hdr, b) <= heap_ptr
        /\ heap_ptr \in Nat /\ heap_ptr <= HeapEnd + 1
        /\ head = Base /\ Base \in Blocks(hdr)
    <2>1. b \in Space
      BY Block
    <2> QED BY <2>1, Block, Constants DEF Space
  <1>2. n # Null => /\ n \in Blocks(hdr) /\ n = EndOf(hdr, b)
                    /\ hdr[n].prev = b /\ n \in Space /\ n \in Nat
                    /\ hdr[n] \in Headers /\ n # Base
    <2> SUFFICES ASSUME n # Null
                 PROVE  /\ n \in Blocks(hdr) /\ n = EndOf(hdr, b)
                        /\ hdr[n].prev = b /\ n \in Space /\ n \in Nat
                        /\ hdr[n] \in Headers /\ n # Base
      OBVIOUS
    <2>1. n \in Blocks(hdr) /\ n = EndOf(hdr, b) /\ hdr[n].prev = b /\ b # Null
      BY Block
    <2> HIDE DEF n
    <2> QED BY <2>1, Block
  <1>3. n = Null => EndOf(hdr, b) = heap_ptr
    BY Block
  <1>4. hdr \in [Space -> Headers]
    BY DEF Shape
  <1>5. /\ add \in Nat /\ b < add /\ add < EndOf(hdr, b) /\ rest \in Nat
        /\ add = b + Header + want /\ add + Header + rest = EndOf(hdr, b)
        /\ rest \in 0 .. HeapEnd /\ want \in 0 .. HeapEnd
        /\ add \in Space /\ add # Null /\ add # b /\ add # Base
    BY <1>1, Constants DEF Data, EndOf, Space, Base, Null
  <1>6. add \notin Blocks(hdr)
    <2> SUFFICES ASSUME add \in Blocks(hdr) PROVE FALSE
      OBVIOUS
    <2>1. EndOf(hdr, b) <= add
      BY <1>5, Apart
    <2>2. EndOf(hdr, b) \in Nat
      BY Block
    <2> QED BY <1>5, <2>1, <2>2
  <1> DEFINE hb == [[[hdr[b] EXCEPT !.size = want] EXCEPT !.next = add]
                      EXCEPT !.free = FALSE]
             hadd == [size |-> rest, next |-> n, prev |-> b, free |-> TRUE,
                      own |-> own]
             hn == [hdr[n] EXCEPT !.prev = add]
  <1>7. /\ hb \in Headers
        /\ hb.size = want /\ hb.next = add /\ hb.prev = hdr[b].prev
        /\ hb.free = FALSE /\ hb.own = hdr[b].own
    <2> HIDE DEF add
    <2> QED BY <1>1, <1>5 DEF Headers, Links
  <1>8. hadd \in Headers
    <2>1. n \in Links
      BY <1>2 DEF Links
    <2> HIDE DEF n, rest
    <2> QED BY <1>1, <1>5, <2>1 DEF Headers, Links
  <1>9. n # Null => /\ hn \in Headers
                    /\ hn.size = hdr[n].size /\ hn.next = hdr[n].next
                    /\ hn.prev = add /\ hn.free = hdr[n].free
                    /\ hn.own = hdr[n].own
    <2> HIDE DEF n, add
    <2> QED BY <1>2, <1>5 DEF Headers, Links
  <1>10. /\ g \in [Space -> Headers]
         /\ \A c \in Space :
              /\ c = b => g[c] = hb
              /\ c = add => g[c] = hadd
              /\ n # Null /\ c = n => g[c] = hn
              /\ c # b /\ c # add /\ ~(n # Null /\ c = n) => g[c] = hdr[c]
    <2> DEFINE g1 == [hdr EXCEPT ![b] = hb, ![add] = hadd]
    <2>1. [hdr EXCEPT ![b].size = want, ![b].next = add, ![b].free = FALSE,
                      ![add] = hadd] = g1
      <3>1. [hdr EXCEPT ![b].size = want, ![b].next = add, ![b].free = FALSE]
              = [hdr EXCEPT ![b] = hb]
        <4> HIDE DEF add
        <4> QED BY <1>1, <1>4
      <3> HIDE DEF hb, hadd, add
      <3> QED BY <3>1
    <2>2. g = IF n = Null THEN g1 ELSE [g1 EXCEPT ![n].prev = add]
      BY <2>1 DEF Split
    <2> HIDE DEF hb, hadd, add, g, n
    <2>3. /\ g1 \in [Space -> Headers]
          /\ \A c \in Space : g1[c] = IF c = add THEN hadd
                                      ELSE IF c = b THEN hb ELSE hdr[c]
      BY <1>1, <1>4, <1>5, <1>7, <1>8
    <2> HIDE DEF g1
    <2>4. CASE n = Null
      BY <1>5, <2>2, <2>3, <2>4
    <2>5. CASE n # Null
      <3>1. n # add /\ n # b
        <4>1. n # add
          BY <1>2, <1>6, <2>5
        <4> QED BY <1>2, <1>5, <2>5, <4>1
      <3>2. g1[n] = hdr[n]
        BY <1>2, <2>3, <2>5, <3>1
      <3>3. g = [g1 EXCEPT ![n] = hn]
        BY <2>2, <2>5, <3>2
      <3> HIDE DEF hn
      <3>4. g \in [Space -> Headers]
            /\ \A c \in Space : g[c] = IF c = n THEN hn ELSE g1[c]
        BY <1>2, <1>9, <2>3, <2>5, <3>3
      <3>5. \A c \in Space :
              /\ c = b => g[c] = hb
              /\ c = add => g[c] = hadd
              /\ c = n => g[c] = hn
              /\ c # b /\ c # add /\ c # n => g[c] = hdr[c]
        BY <1>5, <2>3, <3>1, <3>4
      <3> QED BY <2>5, <3>4, <3>5
    <2> QED BY <2>4, <2>5
  <1>11. n # Null => n # b /\ n # add
    BY <1>1, <1>2, <1>5, <1>6
  <1> HIDE DEF g, hb, hn
  <1>12. \A c \in Space :
           /\ g[c].size = IF c = b THEN want ELSE IF c = add THEN rest
                          ELSE hdr[c].size
           /\ g[c].next = IF c = b THEN add ELSE IF c = add THEN n
                          ELSE hdr[c].next
           /\ g[c].prev = IF c = add THEN b
                          ELSE IF n # Null /\ c = n THEN add ELSE hdr[c].prev
           /\ g[c].own = IF c = add THEN own ELSE hdr[c].own
           /\ g[c].free = IF c = b THEN FALSE ELSE IF c = add THEN TRUE
                          ELSE hdr[c].free
    <2> SUFFICES ASSUME NEW c \in Space
                 PROVE
           /\ g[c].size = IF c = b THEN want ELSE IF c = add THEN rest
                          ELSE hdr[c].size
           /\ g[c].next = IF c = b THEN add ELSE IF c = add THEN n
                          ELSE hdr[c].next
           /\ g[c].prev = IF c = add THEN b
                          ELSE IF n # Null /\ c = n THEN add ELSE hdr[c].prev
           /\ g[c].own = IF c = add THEN own ELSE hdr[c].own
           /\ g[c].free = IF c = b THEN FALSE ELSE IF c = add THEN TRUE
                          ELSE hdr[c].free
      OBVIOUS
    <2> HIDE DEF add, rest, n
    <2>1. CASE c = b
      <3>1. g[c] = hb /\ c # add /\ ~(n # Null /\ c = n)
        BY <1>5, <1>10, <1>11, <2>1
      <3> QED BY <1>7, <2>1, <3>1
    <2>2. CASE c = add
      <3>1. g[c] = hadd /\ c # b
        BY <1>5, <1>10, <2>2
      <3> QED BY <2>2, <3>1
    <2>3. CASE n # Null /\ c = n
      <3>1. g[c] = hn /\ c # b /\ c # add
        BY <1>10, <1>11, <2>3
      <3> QED BY <1>9, <2>3, <3>1
    <2>4. CASE c # b /\ c # add /\ ~(n # Null /\ c = n)
      BY <1>10, <2>4
    <2> QED BY <2>1, <2>2, <2>3, <2>4
  <1> HIDE DEF hadd
  <1>13. Blocks(g) = Blocks(hdr) \cup {add}
    <2> SUFFICES ASSUME NEW c \in Space
                 PROVE  c \in Blocks(g) <=> c \in Blocks(hdr) \/ c = add
      BY <1>5 DEF Blocks
    <2> HIDE DEF add, n
    <2>1. CASE c = add
      <3>0. b # Null
        BY <1>1 DEF Null
      <3>1. g[c].prev = b
        BY <1>12, <2>1
      <3> QED BY <2>1, <3>0, <3>1 DEF Blocks
    <2>2. CASE n # Null /\ c = n
      <3>1. g[c].prev = add /\ c # add
        BY <1>11, <1>12, <2>2
      <3> QED BY <1>2, <1>5, <2>2, <3>1 DEF Blocks
    <2>3. CASE c # add /\ ~(n # Null /\ c = n)
      BY <1>12, <2>3 DEF Blocks
    <2> QED BY <2>1, <2>2, <2>3
  <1>14. \A c \in Blocks(hdr) : c \in Space /\ c # add
    BY <1>6 DEF Blocks
  <1>15. /\ EndOf(g, b) = add /\ EndOf(g, add) = EndOf(hdr, b)
         /\ \A c \in Blocks(hdr) : c # b => EndOf(g, c) = EndOf(hdr, c)
    <2>1. g[b].size = want /\ g[add].size = rest
      BY <1>1, <1>5, <1>12
    <2>2. \A c \in Blocks(hdr) : c # b => g[c].size = hdr[c].size
      BY <1>12, <1>14
    <2> QED BY <1>5, <2>1, <2>2 DEF EndOf
  <1>16. \A c \in Blocks(g) : LinkedAt(g, c, heap_ptr)
    <2> SUFFICES ASSUME NEW c \in Blocks(g) PROVE LinkedAt(g, c, heap_ptr)
      OBVIOUS
    <2> HIDE DEF n, rest
    <2>1. CASE c = add
      <3> HIDE DEF add
      <3>1. EndOf(g, c) <= heap_ptr
        BY <1>1, <1>15, <2>1
      <3>0. b # Null
        BY <1>1 DEF Null
      <3>2. g[c].next = n /\ g[c].prev = b /\ g[b].next = add /\ b # Null
        BY <1>1, <1>5, <1>12, <2>1, <3>0
      <3>3. n # Null => n \in Blocks(g) /\ g[n].prev = add
        BY <1>2, <1>11, <1>12, <1>13
      <3>4. b \in Blocks(g)
        BY <1>13
      <3> QED BY <1>2, <1>3, <1>5, <1>15, <2>1, <3>1, <3>2, <3>3, <3>4
              DEF LinkedAt
    <2>2. CASE c = b
      <3> HIDE DEF add
      <3>1. LinkedAt(hdr, b, heap_ptr)
        BY DEF Shape
      <3>2. g[b].next = add /\ g[b].prev = hdr[b].prev /\ g[b].own = hdr[b].own
        BY <1>1, <1>5, <1>11, <1>12
      <3>3. add \in Blocks(g) /\ g[add].prev = b
        BY <1>5, <1>12, <1>13
      <3>4. add <= heap_ptr
        BY <1>1, <1>5, Block
      <3>5. hdr[b].prev # Null => /\ hdr[b].prev \in Blocks(g)
                                  /\ g[hdr[b].prev].next = b
        <4> SUFFICES ASSUME hdr[b].prev # Null
                     PROVE  hdr[b].prev \in Blocks(g) /\ g[hdr[b].prev].next = b
          OBVIOUS
        <4> DEFINE p == hdr[b].prev
        <4>1. p \in Blocks(hdr) /\ hdr[p].next = b /\ b # Null
          BY Block
        <4> HIDE DEF p
        <4>2. p # b
          BY <1>1, <4>1, Block
        <4>3. p \in Space /\ p # add
          BY <1>14, <4>1
        <4>4. g[p].next = b /\ p \in Blocks(g)
          BY <1>12, <1>13, <4>1, <4>2, <4>3
        <4> QED BY <4>4 DEF p
      <3> QED BY <1>5, <1>15, <2>2, <3>1, <3>2, <3>3, <3>4, <3>5 DEF LinkedAt
    <2>3. CASE c # add /\ c # b
      <3> HIDE DEF add
      <3>1. c \in Blocks(hdr) /\ c \in Space
        BY <1>13, <1>14, <2>3
      <3>2. LinkedAt(hdr, c, heap_ptr) /\ EndOf(g, c) = EndOf(hdr, c)
        BY <1>15, <2>3, <3>1 DEF Shape
      <3>3. g[c].next = hdr[c].next /\ g[c].own = hdr[c].own
        BY <1>12, <2>3, <3>1
      <3>4. hdr[c].next # Null => /\ hdr[c].next \in Blocks(g)
                                  /\ g[hdr[c].next].prev = c
        <4> SUFFICES ASSUME hdr[c].next # Null
                     PROVE  hdr[c].next \in Blocks(g) /\ g[hdr[c].next].prev = c
          OBVIOUS
        <4> DEFINE d == hdr[c].next
        <4>1. d \in Blocks(hdr) /\ hdr[d].prev = c
          BY <3>1, Block
        <4> HIDE DEF d
        <4>2. d # add /\ d \in Space /\ ~(n # Null /\ d = n)
          BY <1>2, <1>14, <2>3, <4>1
        <4>3. g[d].prev = c /\ d \in Blocks(g)
          BY <1>12, <1>13, <4>1, <4>2
        <4> QED BY <4>3 DEF d
      <3>5. IF g[c].prev = Null THEN c = Base
            ELSE g[c].prev \in Blocks(g) /\ g[g[c].prev].next = c
        <4>1. CASE n # Null /\ c = n
          <5>1. g[c].prev = add /\ g[add].next = n /\ add \in Blocks(g)
            BY <1>5, <1>12, <1>13, <2>3, <3>1, <4>1
          <5> QED BY <1>5, <4>1, <5>1
        <4>2. CASE ~(n # Null /\ c = n)
          <5>1. g[c].prev = hdr[c].prev
            BY <1>12, <2>3, <3>1, <4>2
          <5>2. hdr[c].prev # Null => /\ hdr[c].prev \in Blocks(g)
                                      /\ g[hdr[c].prev].next = c
            <6> SUFFICES ASSUME hdr[c].prev # Null
                         PROVE  /\ hdr[c].prev \in Blocks(g)
                                /\ g[hdr[c].prev].next = c
              OBVIOUS
            <6> DEFINE p == hdr[c].prev
            <6>1. p \in Blocks(hdr) /\ hdr[p].next = c /\ c # Null
              BY <3>1, Block
            <6> HIDE DEF p
            <6>2. p # b
              BY <4>2, <6>1 DEF n
            <6>3. p # add /\ p \in Space
              BY <1>14, <6>1
            <6>4. g[p].next = c /\ p \in Blocks(g)
              BY <1>12, <1>13, <6>1, <6>2, <6>3
            <6> QED BY <6>4 DEF p
          <5> QED BY <3>2, <5>1, <5>2 DEF LinkedAt
        <4> QED BY <4>1, <4>2
      <3>6. c = Base => g[c].prev = Null
        BY <1>2, <1>12, <2>3, <3>1, <3>2 DEF LinkedAt
      <3> QED BY <3>2, <3>3, <3>4, <3>5, <3>6 DEF LinkedAt
    <2> QED BY <2>1, <2>2, <2>3
  <1>17. ASSUME NEW c \in Blocks(g), NEW d \in Blocks(g), c < d
         PROVE  EndOf(g, c) <= d
    <2> DEFINE end == EndOf(hdr, b)
    <2>1. end \in Nat /\ add < end /\ \A x \in Blocks(hdr) : x \in Nat
      BY <1>5, Block
    <2>2. \A x \in Blocks(g) : x \in Blocks(hdr) \/ x = add
      BY <1>13
    <2>3. \A x \in Blocks(hdr) : b < x => end <= x
      BY Apart
    <2>4. \A x \in Blocks(hdr) : x < b => EndOf(hdr, x) <= b
      BY Apart
    <2>5. \A x, y \in Blocks(hdr) : x < y => EndOf(hdr, x) <= y
      BY Apart
    <2> HIDE DEF add, end, rest, n
    <2>6. CASE c = b
      BY <1>1, <1>5, <1>15, <1>17, <2>1, <2>2, <2>3, <2>6
    <2>7. CASE c = add
      <3>1. d \in Blocks(hdr) /\ b < d
        BY <1>1, <1>5, <1>17, <2>1, <2>2, <2>7
      <3> QED BY <1>15, <2>3, <2>7, <3>1 DEF end
    <2>8. CASE c # b /\ c # add
      <3>1. c \in Blocks(hdr) /\ EndOf(g, c) = EndOf(hdr, c) /\ c \in Nat
            /\ EndOf(hdr, c) \in Nat /\ c < EndOf(hdr, c)
        BY <1>15, <2>1, <2>2, <2>8, Block
      <3>2. CASE d \in Blocks(hdr)
        BY <1>17, <2>5, <3>1, <3>2
      <3>3. CASE d = add
        <4>1. c < b
          BY <1>1, <1>5, <1>17, <2>1, <2>3, <2>8, <3>1, <3>3
        <4> QED BY <1>1, <1>5, <2>4, <3>1, <3>3, <4>1
      <3> QED BY <2>2, <3>2, <3>3
    <2> QED BY <2>6, <2>7, <2>8
  <1>18. Shape(g, head, heap_ptr)
    <2>1. heap_ptr \in Base .. HeapEnd + 1
      BY DEF Shape
    <2>2. Base \in Blocks(g) /\ Blocks(g) # {}
      BY <1>1, <1>13
    <2> QED BY <1>1, <1>10, <1>16, <1>17, <2>1, <2>2 DEF Shape
  <1>19. \A c \in Blocks(g) : c \in Space
    BY DEF Blocks
  <1> HIDE DEF add, n
  <1>20. SplitAt(g, b, add)
    <2>1. ASSUME NEW c \in Blocks(g)
          PROVE  /\ g[c].free = IF c = b THEN FALSE
                                ELSE IF c = add THEN TRUE ELSE hdr[c].free
                 /\ g[c].next = IF c = b THEN add
                                ELSE IF c = add THEN n ELSE hdr[c].next
                 /\ c # add => g[c].size = IF c = b THEN want ELSE hdr[c].size
      <3>1. c \in Space
        BY <1>19
      <3> HIDE DEF g
      <3> QED BY ONLY <1>12, <3>1
    <2> HIDE DEF g
    <2> QED BY ONLY <1>6, <1>13, <2>1 DEF SplitAt, n
  <1> QED BY ONLY <1>18, <1>19, <1>20 DEF g, add

LEMMA ExtendKeeps ==
  ASSUME Shape(hdr, head, heap_ptr), want \in Nat,
         heap_ptr + Header + want <= HeapEnd + 1,
         IF head = Null THEN last_visited = Null
         ELSE last_visited \in Blocks(hdr) /\ hdr[last_visited].next = Null
  PROVE  LET g == Extended(heap_ptr)
         IN  /\ Shape(g, IF head = Null THEN heap_ptr ELSE head,
                      heap_ptr + Header + want)
             /\ heap_ptr \notin Blocks(hdr)
             /\ Blocks(g) = Blocks(hdr) \cup {heap_ptr}
             /\ \A c \in Blocks(g) :
                  /\ g[c].free = IF c = heap_ptr THEN FALSE ELSE hdr[c].free
                  /\ g[c].next = IF c = heap_ptr THEN Null
                                 ELSE IF c = last_visited THEN heap_ptr
                                 ELSE hdr[c].next
                  /\ g[c].size = IF c = heap_ptr THEN want ELSE hdr[c].size
  <1> DEFINE b == heap_ptr
             l == last_visited
             end == heap_ptr + Header + want
             g == Extended(heap_ptr)
  <1>1. /\ b \in Space /\ b \in Nat /\ b >= 1 /\ b # Null /\ b < end
        /\ end \in Nat /\ end <= HeapEnd + 1 /\ want \in 0 .. HeapEnd
        /\ hdr \in [Space -> Headers] /\ end \in Base .. HeapEnd + 1
    BY Constants DEF Shape, Space, Base, Null
  <1>2. /\ head = Null => Blocks(hdr) = {} /\ b = Base
        /\ head # Null => head = Base /\ Base \in Blocks(hdr)
        /\ head = Null <=> Blocks(hdr) = {}
    BY DEF Shape, Base, Null
  <1>3. \A c \in Blocks(hdr) : /\ c \in Space /\ c \in Nat /\ c < b
                               /\ EndOf(hdr, c) <= b /\ c # Null
                               /\ EndOf(hdr, c) \in Nat
                               /\ LinkedAt(hdr, c, b)
    <2> SUFFICES ASSUME NEW c \in Blocks(hdr)
                 PROVE  /\ c \in Space /\ c \in Nat /\ c < b
                        /\ EndOf(hdr, c) <= b /\ c # Null
                        /\ EndOf(hdr, c) \in Nat
                        /\ LinkedAt(hdr, c, b)
      OBVIOUS
    <2>1. LinkedAt(hdr, c, b)
      BY DEF Shape
    <2> QED BY <1>1, <2>1, Block
  <1>4. b \notin Blocks(hdr)
    <2> SUFFICES ASSUME b \in Blocks(hdr) PROVE FALSE
      OBVIOUS
    <2>1. b < b
      BY <1>3
    <2> QED BY <1>1, <2>1
  <1>5. l # Null => /\ l \in Blocks(hdr) /\ hdr[l].next = Null /\ l \in Space
                    /\ hdr[l] \in Headers /\ l # b /\ l \in Nat
                    /\ EndOf(hdr, l) = b
    <2> SUFFICES ASSUME l # Null
                 PROVE  /\ l \in Blocks(hdr) /\ hdr[l].next = Null /\ l \in Space
                        /\ hdr[l] \in Headers /\ l # b /\ l \in Nat
                        /\ EndOf(hdr, l) = b
      OBVIOUS
    <2>1. l \in Blocks(hdr) /\ hdr[l].next = Null
      OBVIOUS
    <2> QED BY <1>1, <1>3, <1>4, <2>1, Block
  <1>6. l = Null <=> head = Null
    BY <1>3
  <1> DEFINE hb == [size |-> want, next |-> Null, prev |-> l, free |-> FALSE,
                    own |-> TRUE]
             hl == [hdr[l] EXCEPT !.next = b]
  <1>7. hb \in Headers
    BY <1>1, <1>5 DEF Headers, Links
  <1>8. l # Null => /\ hl \in Headers
                    /\ hl.size = hdr[l].size /\ hl.next = b
                    /\ hl.prev = hdr[l].prev /\ hl.free = hdr[l].free
                    /\ hl.own = hdr[l].own
    BY <1>1, <1>5 DEF Headers, Links
  <1>9. /\ g \in [Space -> Headers]
        /\ \A c \in Space :
             /\ c = b => g[c] = hb
             /\ l # Null /\ c = l => g[c] = hl
             /\ c # b /\ ~(l # Null /\ c = l) => g[c] = hdr[c]
    <2> DEFINE g1 == [hdr EXCEPT ![b] = hb]
    <2>1. g = IF l = Null THEN g1 ELSE [g1 EXCEPT ![l].next = b]
      BY DEF Extended
    <2> HIDE DEF hb, g
    <2>2. /\ g1 \in [Space -> Headers]
          /\ \A c \in Space : g1[c] = IF c = b THEN hb ELSE hdr[c]
      BY <1>1, <1>7
    <2> HIDE DEF g1
    <2>3. CASE l = Null
      BY <2>1, <2>2, <2>3
    <2>4. CASE l # Null
      <3>1. g1[l] = hdr[l]
        BY <1>5, <2>2, <2>4
      <3>2. g = [g1 EXCEPT ![l] = hl]
        BY <2>1, <2>4, <3>1
      <3> HIDE DEF hl
      <3>3. g \in [Space -> Headers]
            /\ \A c \in Space : g[c] = IF c = l THEN hl ELSE g1[c]
        BY <1>5, <1>8, <2>2, <2>4, <3>2
      <3>4. \A c \in Space : /\ c = b => g[c] = hb
                             /\ c = l => g[c] = hl
                             /\ c # b /\ c # l => g[c] = hdr[c]
        BY <1>5, <2>2, <2>4, <3>3
      <3> QED BY <2>4, <3>3, <3>4
    <2> QED BY <2>3, <2>4
  <1> HIDE DEF g, hl
  <1>10. \A c \in Space :
           /\ g[c].size = IF c = b THEN want ELSE hdr[c].size
           /\ g[c].next = IF c = b THEN Null ELSE IF l # Null /\ c = l THEN b
                          ELSE hdr[c].next
           /\ g[c].prev = IF c = b THEN l ELSE hdr[c].prev
           /\ g[c].own = IF c = b THEN TRUE ELSE hdr[c].own
           /\ g[c].free = IF c = b THEN FALSE ELSE hdr[c].free
    <2> SUFFICES ASSUME NEW c \in Space
                 PROVE
           /\ g[c].size = IF c = b THEN want ELSE hdr[c].size
           /\ g[c].next = IF c = b THEN Null ELSE IF l # Null /\ c = l THEN b
                          ELSE hdr[c].next
           /\ g[c].prev = IF c = b THEN l ELSE hdr[c].prev
           /\ g[c].own = IF c = b THEN TRUE ELSE hdr[c].own
           /\ g[c].free = IF c = b THEN FALSE ELSE hdr[c].free
      OBVIOUS
    <2>1. CASE c = b
      <3>1. g[c] = hb
        BY <1>9, <2>1
      <3> QED BY <2>1, <3>1
    <2>2. CASE l # Null /\ c = l
      <3>1. g[c] = hl /\ c # b
        BY <1>5, <1>9, <2>2
      <3> QED BY <1>8, <2>2, <3>1
    <2>3. CASE c # b /\ ~(l # Null /\ c = l)
      BY <1>9, <2>3
    <2> QED BY <2>1, <2>2, <2>3
  <1> HIDE DEF hb
  <1>11. Blocks(g) = Blocks(hdr) \cup {b}
    <2> SUFFICES ASSUME NEW c \in Space
                 PROVE  c \in Blocks(g) <=> c \in Blocks(hdr) \/ c = b
      BY <1>1 DEF Blocks
    <2>1. CASE c = b
      <3>1. g[c].own
        BY <1>10, <2>1
      <3> QED BY <2>1, <3>1 DEF Blocks
    <2>2. CASE c # b
      BY <1>10, <2>2 DEF Blocks
    <2> QED BY <2>1, <2>2
  <1>12. /\ EndOf(g, b) = end
         /\ \A c \in Blocks(hdr) : EndOf(g, c) = EndOf(hdr, c)
    <2>1. g[b].size = want
      BY <1>1, <1>10
    <2>2. \A c \in Blocks(hdr) : g[c].size = hdr[c].size
      BY <1>3, <1>4, <1>10
    <2> QED BY <2>1, <2>2 DEF EndOf
  <1>13. LinkedAt(g, b, end)
    <2>1. g[b].next = Null /\ g[b].prev = l
      BY <1>1, <1>10
    <2>2. g[b].own
      BY <1>1, <1>10
    <2>3. l = Null => b = Base
      BY <1>2, <1>6
    <2>4. l # Null => l \in Blocks(g) /\ g[l].next = b /\ b # Base
      <3> SUFFICES ASSUME l # Null
                   PROVE  l \in Blocks(g) /\ g[l].next = b /\ b # Base
        OBVIOUS
      <3>1. l \in Blocks(g) /\ g[l].next = b
        BY <1>5, <1>10, <1>11
      <3>2. Base < b
        BY <1>2, <1>3, <1>6
      <3> QED BY <1>1, <3>1, <3>2 DEF Base
    <2> HIDE DEF b
    <2> QED BY <1>1, <1>12, <2>1, <2>2, <2>3, <2>4 DEF LinkedAt
  <1>14. ASSUME NEW c \in Blocks(hdr) PROVE LinkedAt(g, c, end)
    <2>1. /\ c \in Space /\ c # b /\ LinkedAt(hdr, c, b) /\ c # Null
          /\ EndOf(g, c) = EndOf(hdr, c) /\ EndOf(g, c) <= end
      BY <1>1, <1>3, <1>4, <1>12
    <2>2. g[c].prev = hdr[c].prev
      BY <1>10, <2>1
    <2>3. g[c].own = hdr[c].own
      BY <1>10, <2>1
    <2>4. IF g[c].next = Null THEN EndOf(g, c) = end
          ELSE /\ g[c].next = EndOf(g, c)
               /\ g[c].next \in Blocks(g)
               /\ g[g[c].next].prev = c
      <3>1. CASE c = l
        <4>1. g[c].next = b /\ g[b].prev = c /\ b \in Blocks(g)
          BY <1>1, <1>10, <1>11, <2>1, <3>1
        <4> QED BY <1>1, <1>5, <2>1, <3>1, <4>1
      <3>2. CASE c # l
        <4> DEFINE d == hdr[c].next
        <4>1. g[c].next = d
          BY <1>10, <2>1, <3>2
        <4>2. d # Null
          <5> SUFFICES ASSUME d = Null PROVE FALSE
            OBVIOUS
          <5>1. l # Null
            BY <1>2, <1>6
          <5>2. c = l \/ c < l
            BY <1>5, <5>1, LastBlock
          <5>3. l = c \/ l < c
            BY <1>5, <5>1, LastBlock
          <5> QED BY <1>3, <1>5, <3>2, <5>1, <5>2, <5>3
        <4>3. d \in Blocks(hdr) /\ hdr[d].prev = c /\ d = EndOf(hdr, c)
          BY <4>2, Block
        <4> HIDE DEF d
        <4>4. d \in Space /\ d # b /\ d \in Blocks(g)
          BY <1>3, <1>4, <1>11, <4>3
        <4>5. g[d].prev = c
          BY <1>10, <4>3, <4>4
        <4> QED BY <2>1, <4>1, <4>2, <4>3, <4>4, <4>5
      <3> QED BY <3>1, <3>2
    <2>5. hdr[c].prev # Null => hdr[c].prev \in Blocks(g) /\ g[hdr[c].prev].next = c
      <3> SUFFICES ASSUME hdr[c].prev # Null
                   PROVE  hdr[c].prev \in Blocks(g) /\ g[hdr[c].prev].next = c
        OBVIOUS
      <3> DEFINE p == hdr[c].prev
      <3>1. p \in Blocks(hdr) /\ hdr[p].next = c
        BY Block
      <3> HIDE DEF p
      <3>2. p \in Space /\ p # b /\ ~(l # Null /\ p = l) /\ p \in Blocks(g)
        BY <1>3, <1>4, <1>5, <1>11, <2>1, <3>1
      <3>3. g[p].next = c
        BY <1>10, <3>1, <3>2
      <3> QED BY <3>2, <3>3 DEF p
    <2> QED BY <2>1, <2>2, <2>3, <2>4, <2>5 DEF LinkedAt
  <1>15. \A c, d \in Blocks(g) : c < d => EndOf(g, c) <= d
    <2> SUFFICES ASSUME NEW c \in Blocks(g), NEW d \in Blocks(g), c < d
                 PROVE  EndOf(g, c) <= d
      OBVIOUS
    <2> HIDE DEF b, end
    <2>1. CASE c = b
      <3>1. d = b \/ d < b
        BY <1>3, <1>11
      <3>2. d \in Nat
        BY <1>1, <1>3, <1>11
      <3> QED BY <1>1, <2>1, <3>1, <3>2
    <2>2. CASE c \in Blocks(hdr) /\ d \in Blocks(hdr)
      <3>1. EndOf(hdr, c) <= d
        BY <2>2, Apart
      <3> QED BY <1>12, <2>2, <3>1
    <2>3. CASE c \in Blocks(hdr) /\ d = b
      BY <1>3, <1>12, <2>3
    <2> QED BY <1>11, <2>1, <2>2, <2>3
  <1>16. (IF head = Null THEN b ELSE head) = Base /\ Base \in Blocks(g)
    BY <1>2, <1>11
  <1>17. Shape(g, IF head = Null THEN b ELSE head, end)
    <2>1. Blocks(g) # {}
      BY <1>16
    <2>2. \A c \in Blocks(g) : LinkedAt(g, c, end)
      BY <1>11, <1>13, <1>14
    <2> QED BY <1>1, <1>9, <1>15, <1>16, <2>1, <2>2 DEF Shape
  <1>18. \A c \in Blocks(g) :
           /\ g[c].free = IF c = b THEN FALSE ELSE hdr[c].free
           /\ g[c].next = IF c = b THEN Null ELSE IF c = l THEN b
                          ELSE hdr[c].next
           /\ g[c].size = IF c = b THEN want ELSE hdr[c].size
    <2>1. \A c \in Blocks(g) : c \in Space /\ c # Null
      BY <1>1, <1>3, <1>11
    <2> QED BY <1>10, <2>1
  <1> QED BY <1>4, <1>11, <1>17, <1>18 DEF g

LEMMA FusedIs ==
  ASSUME copy = "kernel", NEW h, NEW b
  PROVE  Fused(h, b) = IF h[b].next = Null \/ ~h[h[b].next].free THEN h
                                                             ELSE Merged(h, b)
  BY DEF Fused, Merged, Retired, Shrinks

\* What free makes of the block and the one before it.
LEMMA WithPreviousKeeps ==
  ASSUME copy = "kernel", Shape(hdr, head, heap_ptr), NoFreePair(hdr),
         NEW b \in Blocks(hdr), ~hdr[b].free
  PROVE  LET first == FirstFree(b)
             h == WithPrevious(b)
         IN  /\ Shape(h, head, heap_ptr)
             /\ first \in Blocks(h) /\ h[first].free
             /\ Used(h) = Used(hdr) \ {b}
             /\ h[first].next = hdr[b].next
             /\ \A c \in Used(h) : h[c].size = hdr[c].size
             /\ \A c \in Blocks(h) \ {first} : h[c].free =>
                  h[c].next # Null /\ ~h[h[c].next].free
  <1> DEFINE p == hdr[b].prev
             first == FirstFree(b)
             h == WithPrevious(b)
             k == Marked(b)
  <1>1. /\ Shape(k, head, heap_ptr)
        /\ Blocks(k) = Blocks(hdr)
        /\ \A c \in Space : /\ k[c].next = hdr[c].next
                            /\ k[c].prev = hdr[c].prev
                            /\ k[c].size = hdr[c].size
                            /\ k[c].free = IF c = b THEN TRUE ELSE hdr[c].free
    <2>1. Shape(k, head, heap_ptr) /\ MarkedIn(k, hdr, b, TRUE)
      BY MarkKeeps DEF Marked
    <2> HIDE DEF k
    <2> QED BY ONLY <2>1 DEF MarkedIn
  <1>2. \A c \in Blocks(hdr) : c \in Space /\ c # Null
    BY Block DEF Blocks
  <1>3. \A c \in Blocks(hdr) : hdr[c].free => /\ hdr[c].next \in Blocks(hdr)
                                              /\ hdr[c].next # Null
                                              /\ ~hdr[hdr[c].next].free
                                              /\ hdr[hdr[c].next].prev = c
    BY Block DEF NoFreePair
  <1>4. p # Null => p \in Blocks(hdr) /\ hdr[p].next = b
    BY Block
  <1> HIDE DEF p, k
  <1>5. CASE ~(p # Null /\ hdr[p].free)
    <2>1. first = b /\ h = k
      BY <1>5 DEF FirstFree, WithPrevious, k, p
    <2> HIDE DEF first, h
    <2>2. Used(h) = Used(hdr) \ {b}
      BY <1>1, <1>2, <2>1 DEF Used
    <2>3. ASSUME NEW c \in Blocks(h) \ {first}, h[c].free
          PROVE  h[c].next # Null /\ ~h[h[c].next].free
      <3>1. c \in Blocks(hdr) /\ c # b /\ c \in Space
        BY <1>1, <1>2, <2>1
      <3>2. hdr[c].free /\ h[c].next = hdr[c].next
        BY <1>1, <2>1, <2>3, <3>1
      <3> DEFINE d == hdr[c].next
      <3>3. d \in Blocks(hdr) /\ d # Null /\ ~hdr[d].free /\ hdr[d].prev = c
        BY <1>3, <3>1, <3>2
      <3> HIDE DEF d
      <3>4. d # b
        BY <1>2, <1>5, <3>1, <3>2, <3>3 DEF p
      <3>5. ~k[d].free
        BY <1>1, <1>2, <3>3, <3>4
      <3> QED BY <2>1, <3>2, <3>3, <3>5 DEF d
    <2>4. h[first].free /\ h[first].next = hdr[b].next
      BY <1>1, <1>2, <2>1
    <2>5. \A c \in Used(h) : h[c].size = hdr[c].size
      BY <1>1, <1>2, <2>1 DEF Used
    <2> QED BY <1>1, <2>1, <2>2, <2>3, <2>4, <2>5 DEF first, h
  <1>6. CASE p # Null /\ hdr[p].free
    <2>1. first = p /\ p \in Blocks(hdr) /\ p # b /\ p \in Space
      BY <1>2, <1>4, <1>6 DEF FirstFree, p
    <2>2. k[p].next = b /\ b # Null /\ b \in Space /\ k[b].next = hdr[b].next
      BY <1>1, <1>2, <1>4, <1>6, <2>1
    <2>3. k[b].free
      BY <1>1, <1>2
    <2>4. h = Merged(k, p)
      <3>1. h = Fused(k, p)
        BY <2>1 DEF WithPrevious, k
      <3> QED BY <2>2, <2>3, <3>1, FusedIs
    <2>5. /\ Shape(h, head, heap_ptr)
          /\ Blocks(h) = Blocks(k) \ {b}
          /\ \A c \in Blocks(h) :
               /\ h[c].free = k[c].free
               /\ h[c].next = IF c = p THEN k[b].next ELSE k[c].next
               /\ c # p => h[c].size = k[c].size
      <3>1. p \in Blocks(k) /\ k[p].next # Null
        BY <1>1, <2>1, <2>2
      <3> QED BY <1>1, <2>2, <2>4, <3>1, MergeKeeps
    <2> HIDE DEF first, h
    <2>6. \A c \in Blocks(h) : /\ c \in Blocks(hdr) /\ c # b
                               /\ h[c].free = hdr[c].free
      BY <1>1, <1>2, <2>5
    <2>7. Used(h) = Used(hdr) \ {b}
      BY <1>1, <2>5, <2>6 DEF Used
    <2>8. first \in Blocks(h)
      BY <1>1, <2>1, <2>5
    <2>9. h[first].free /\ h[first].next = hdr[b].next
      BY <1>6, <2>1, <2>2, <2>5, <2>6, <2>8
    <2>10. ASSUME NEW c \in Blocks(h) \ {first}, h[c].free
           PROVE  h[c].next # Null /\ ~h[h[c].next].free
      <3>1. c \in Blocks(hdr) /\ c # b /\ c # p /\ hdr[c].free /\ c \in Space
        BY <1>2, <2>1, <2>6, <2>10
      <3>2. h[c].next = hdr[c].next
        BY <1>1, <2>5, <3>1
      <3> DEFINE d == hdr[c].next
      <3>3. d \in Blocks(hdr) /\ d # Null /\ ~hdr[d].free /\ hdr[d].prev = c
        BY <1>3, <3>1
      <3> HIDE DEF d
      <3>4. d # b
        BY <3>1, <3>3 DEF p
      <3>5. d \in Blocks(h)
        BY <1>1, <2>5, <3>3, <3>4
      <3> QED BY <2>6, <3>2, <3>3, <3>5 DEF d
    <2>11. \A c \in Used(h) : h[c].size = hdr[c].size
      <3> SUFFICES ASSUME NEW c \in Used(h) PROVE h[c].size = hdr[c].size
        OBVIOUS
      <3>1. c \in Blocks(h) /\ ~hdr[c].free /\ c \in Space
        BY <1>2, <2>6 DEF Used
      <3>2. c # p
        BY <1>6, <3>1
      <3> QED BY <1>1, <2>5, <3>1, <3>2
    <2> QED BY <2>5, <2>7, <2>8, <2>9, <2>10, <2>11 DEF first, h
  <1> QED BY <1>5, <1>6

-----------------------------------------------------------------------------
(* The invariant *)

\* The clients have block b more.
LEMMA Handed ==
  ASSUME Clients, NEW b \in Space, b \notin Used(hdr),
         Used(hdr)' = Used(hdr) \cup {b}, want \in Sizes["kernel"],
         Return(b), leaked' = leaked
  PROVE  Clients'
  <1> DEFINE new == [addr |-> Data(b), size |-> want]
  <1>1. given' = given \cup {new} /\ new.addr = b + Header
    BY DEF Return, Data
  <1>2. b \in Int /\ Header \in Int
    BY Constants DEF Space, Base
  <1>3. new \in [addr : Int, size : Sizes["kernel"]]
    BY <1>2 DEF Data
  <1> HIDE DEF new
  <1>4. GivenBlocks' = GivenBlocks \cup {b}
    BY <1>1, <1>2 DEF GivenBlocks
  <1>5. \A r \in given : r.addr # new.addr
    <2> SUFFICES ASSUME NEW r \in given, r.addr = new.addr PROVE FALSE
      OBVIOUS
    <2>1. r.addr - Header = b
      BY <1>1, <1>2
    <2>2. b \in GivenBlocks
      BY <2>1 DEF GivenBlocks
    <2> QED BY <2>2 DEF Clients
  <1>6. b \notin leaked
    BY DEF Clients
  <1> QED BY <1>1, <1>3, <1>4, <1>5, <1>6 DEF Clients

\* The block is as large as was asked for, and the others are as they were.
LEMMA HandedInside ==
  ASSUME Clients, Inside, NEW b \in Space, b \notin Used(hdr), Return(b),
         want <= hdr'[b].size,
         \A c \in Used(hdr) : c # b => hdr'[c].size = hdr[c].size
  PROVE  Inside'
  <1> DEFINE new == [addr |-> Data(b), size |-> want]
  <1>1. /\ given' = given \cup {new} /\ new.addr - Header = b
        /\ new.size = want
    <2>1. b \in Int /\ Header \in Int
      BY Constants DEF Space, Base
    <2> QED BY <2>1 DEF Return, Data
  <1> HIDE DEF new
  <1>2. \A r \in given : /\ r.addr - Header \in Used(hdr)
                         /\ r.addr - Header # b
    BY DEF Clients, GivenBlocks
  <1> QED BY <1>1, <1>2 DEF Inside

\* A block of the clients is in use.
LEMMA GivenInUse ==
  ASSUME Clients, NEW b \in Space, NEW r \in given, r.addr = Data(b)
  PROVE  /\ b \in Blocks(hdr) /\ ~hdr[b].free
         /\ {s.addr - Header : s \in given \ {r}} = GivenBlocks \ {b}
         /\ b \in GivenBlocks
         /\ b \notin leaked
  <1>1. b \in Int /\ Header \in Int
    BY Constants DEF Space, Base
  <1>2. r.addr - Header = b
    BY <1>1 DEF Data
  <1>3. b \in GivenBlocks
    BY <1>2 DEF GivenBlocks
  <1>4. \A s \in given \ {r} : s.addr - Header # b
    <2> SUFFICES ASSUME NEW s \in given \ {r}, s.addr - Header = b PROVE FALSE
      OBVIOUS
    <2>1. s.addr \in Int /\ r.addr \in Int
      BY DEF Clients
    <2>2. s.addr = r.addr
      BY <1>1, <1>2, <2>1
    <2> QED BY <2>2 DEF Clients
  <1>5. {s.addr - Header : s \in given \ {r}} = GivenBlocks \ {b}
    BY <1>2, <1>4 DEF GivenBlocks
  <1> QED BY <1>3, <1>5 DEF Clients, Used

-----------------------------------------------------------------------------
(* Each step keeps the invariant *)

LEMMA InitOK == Init /\ copy = "kernel" => IInv
  <1> SUFFICES ASSUME Init, copy = "kernel" PROVE IInv
    OBVIOUS
  <1>1. hdr = [a \in Space |-> NoHeader] /\ Addr = Space
    BY DEF Init, Addr, Space, HeapEnd
  <1>2. NoHeader \in Headers
    BY Constants DEF NoHeader, Headers, Links
  <1>3. hdr \in [Space -> Headers] /\ Blocks(hdr) = {}
    BY <1>1, <1>2 DEF Blocks, NoHeader
  <1>4. Shape(hdr, head, heap_ptr) /\ NoFreePair(hdr)
    BY <1>3, Constants DEF Shape, NoFreePair, Init, Base
  <1>5. Clients
    BY <1>3 DEF Clients, Used, GivenBlocks, Init
  <1>7. Inside
    BY DEF Inside, Init
  <1>6. Search
    BY DEF Search, Init, Links
  <1> QED BY <1>4, <1>5, <1>6, <1>7 DEF IInv

LEMMA MallocOK ==
  ASSUME IInv, copy = "kernel", copy' = copy, NEW s \in Sizes[copy], Malloc(s)
  PROVE  IInv'
  <1>1. /\ hdr' = hdr /\ head' = head /\ heap_ptr' = heap_ptr
        /\ given' = given /\ leaked' = leaked
        /\ call' = "find" /\ want' = s /\ it' = head
        /\ last_visited' = IF head # Null THEN head ELSE last_visited
    BY DEF Malloc
  <1>2. Shape(hdr, head, heap_ptr)' /\ NoFreePair(hdr)' /\ Clients' /\ Inside'
    BY <1>1 DEF IInv, Shape, NoFreePair, Clients, Inside, Used, GivenBlocks
  <1>3. head # Null => head \in Blocks(hdr) /\ head \in Links
    BY DEF IInv, Shape, Blocks, Links
  <1>4. heap_ptr + Header + s <= HeapEnd + 1
    BY DEF Malloc, HasRoom, HeapEnd
  <1>5. s \in Sizes["kernel"]
    OBVIOUS
  <1>6. Search'
    BY <1>1, <1>3, <1>4, <1>5 DEF Search, IInv
  <1> QED BY <1>2, <1>6 DEF IInv

LEMMA FindNextOK ==
  ASSUME IInv, copy = "kernel", copy' = copy, FindNext
  PROVE  IInv'
  <1>1. /\ hdr' = hdr /\ head' = head /\ heap_ptr' = heap_ptr
        /\ given' = given /\ leaked' = leaked
        /\ call' = call /\ want' = want /\ it' = hdr[it].next
        /\ last_visited' = it /\ call = "find" /\ it # Null
    BY DEF FindNext
  <1>2. Shape(hdr, head, heap_ptr)' /\ NoFreePair(hdr)' /\ Clients' /\ Inside'
    BY <1>1 DEF IInv, Shape, NoFreePair, Clients, Inside, Used, GivenBlocks
  <1>3. it \in Blocks(hdr) /\ it \in Links
    BY <1>1 DEF IInv, Search, Blocks, Links
  <1>4. hdr[it].next # Null => hdr[it].next \in Blocks(hdr)
    BY <1>3, Block DEF IInv
  <1>5. Search'
    BY <1>1, <1>3, <1>4 DEF Search, IInv
  <1> QED BY <1>2, <1>5 DEF IInv

\* Back to idle, the search keeps nothing but last_visited.
LEMMA BetweenCalls ==
  ASSUME Search, call' = "idle", want' = 0 \/ want' = want, it' = Null,
         last_visited' = last_visited
  PROVE  Search'
  BY DEF Search

LEMMA ReuseOK ==
  ASSUME IInv, copy = "kernel", copy' = copy, Reuse
  PROVE  IInv'
  <1> DEFINE b == it
  <1>1. /\ it # Null /\ call = "find" /\ hdr[b].free /\ hdr[b].size >= want
        /\ Return(b) /\ head' = head /\ heap_ptr' = heap_ptr
        /\ last_visited' = last_visited /\ leaked' = leaked
    BY DEF Reuse, Fits
  <1>2. b \in Blocks(hdr) /\ want \in Nat /\ want \in Sizes["kernel"]
    BY <1>1, FreeListAssumption DEF IInv, Search, FreeListAssumption
  <1>3. b \in Space /\ b \notin Used(hdr)
    BY <1>1, <1>2 DEF Used, Blocks
  <1>4. hdr[b].next # Null /\ ~hdr[hdr[b].next].free
        /\ hdr[b].next \in Blocks(hdr)
    BY <1>1, <1>2, Block DEF IInv, NoFreePair
  <1>5. /\ Shape(hdr', head, heap_ptr) /\ NoFreePair(hdr')
        /\ Used(hdr') = Used(hdr) \cup {b}
        /\ want <= hdr'[b].size
        /\ \A c \in Used(hdr) : c # b => hdr'[c].size = hdr[c].size
    <2>1. CASE hdr[b].size - want >= Header + 1
      <3> DEFINE add == Data(b) + want
      <3>1. PICK own \in BOOLEAN : hdr' = Split(b, own)
        BY <2>1 DEF Reuse
      <3>2. /\ Shape(hdr', head, heap_ptr)
            /\ add \notin Blocks(hdr)
            /\ Blocks(hdr') = Blocks(hdr) \cup {add}
            /\ \A c \in Blocks(hdr') :
                 /\ hdr'[c].free = IF c = b THEN FALSE
                                   ELSE IF c = add THEN TRUE ELSE hdr[c].free
                 /\ hdr'[c].next = IF c = b THEN add
                                   ELSE IF c = add THEN hdr[b].next
                                   ELSE hdr[c].next
                 /\ c # add => hdr'[c].size = IF c = b THEN want
                                              ELSE hdr[c].size
        <4>1. Shape(hdr, head, heap_ptr) /\ b \in Blocks(hdr) /\ want \in Nat
          BY <1>2 DEF IInv
        <4> HIDE DEF b
        <4>2. LET g == Split(b, own)
              IN  Shape(g, head, heap_ptr) /\ SplitAt(g, b, Data(b) + want)
          BY <2>1, <4>1, SplitKeeps
        <4>3. Shape(hdr', head, heap_ptr) /\ SplitAt(hdr', b, add)
          BY ONLY <3>1, <4>2 DEF add
        <4> HIDE DEF add
        <4> QED BY ONLY <4>3 DEF SplitAt
      <3> HIDE DEF add
      <3>3. b # add
        BY <1>2, <3>2
      <3>4. Used(hdr') = Used(hdr) \cup {b}
        <4>1. \A c \in Blocks(hdr') :
                ~hdr'[c].free <=> c = b \/ (c # add /\ ~hdr[c].free)
          BY <3>2, <3>3
        <4> QED BY <1>2, <3>2, <4>1 DEF Used
      <3>5. NoFreePair(hdr')
        <4> SUFFICES ASSUME NEW c \in Blocks(hdr'), hdr'[c].free
                     PROVE  hdr'[c].next # Null /\ ~hdr'[hdr'[c].next].free
          BY DEF NoFreePair
        <4>1. c # b
          BY <3>2
        <4>2. CASE c = add
          <5>1. hdr'[c].next = hdr[b].next /\ hdr[b].next # add
            BY <1>4, <3>2, <3>3, <4>2
          <5>2. ~hdr'[hdr[b].next].free
            BY <1>4, <3>2, <5>1
          <5> QED BY <1>4, <5>1, <5>2
        <4>3. CASE c # add
          <5>1. c \in Blocks(hdr) /\ hdr[c].free /\ hdr'[c].next = hdr[c].next
            BY <3>2, <4>1, <4>3
          <5>2. hdr[c].next # Null /\ ~hdr[hdr[c].next].free
                /\ hdr[c].next \in Blocks(hdr)
            BY <5>1, Block DEF IInv, NoFreePair
          <5>3. ~hdr'[hdr[c].next].free
            BY <3>2, <5>2
          <5> QED BY <5>1, <5>2, <5>3
        <4> QED BY <4>2, <4>3
      <3>6. hdr'[b].size = want
        BY <1>2, <3>2, <3>3
      <3>7. \A c \in Used(hdr) : c # b => hdr'[c].size = hdr[c].size
        <4>1. \A c \in Used(hdr) : c \in Blocks(hdr') /\ c # add
          BY <3>2 DEF Used
        <4> QED BY <3>2, <4>1
      <3> QED BY <1>2, <3>2, <3>4, <3>5, <3>6, <3>7
    <2>2. CASE ~(hdr[b].size - want >= Header + 1)
      <3>1. hdr' = Taken(b)
        BY <2>2 DEF Reuse
      <3>2. /\ Shape(hdr', head, heap_ptr)
            /\ Blocks(hdr') = Blocks(hdr)
            /\ \A c \in Space : /\ hdr'[c].next = hdr[c].next
                                /\ hdr'[c].size = hdr[c].size
                                /\ hdr'[c].free = IF c = b THEN FALSE
                                                  ELSE hdr[c].free
        <4>1. Shape(hdr, head, heap_ptr)
          BY DEF IInv
        <4>2. hdr' = [hdr EXCEPT ![b].free = FALSE]
          BY <3>1 DEF Taken
        <4> HIDE DEF b
        <4>3. LET g == [hdr EXCEPT ![b].free = FALSE]
              IN  Shape(g, head, heap_ptr) /\ MarkedIn(g, hdr, b, FALSE)
          BY <1>2, <4>1, MarkKeeps
        <4>4. Shape(hdr', head, heap_ptr) /\ MarkedIn(hdr', hdr, b, FALSE)
          BY ONLY <4>2, <4>3
        <4> QED BY ONLY <4>4 DEF MarkedIn
      <3>3. Used(hdr') = Used(hdr) \cup {b}
        <4>1. \A c \in Blocks(hdr) : ~hdr'[c].free <=> c = b \/ ~hdr[c].free
          BY <3>2 DEF Blocks
        <4> QED BY <1>2, <3>2, <4>1 DEF Used
      <3>4. NoFreePair(hdr')
        <4> SUFFICES ASSUME NEW c \in Blocks(hdr), hdr'[c].free
                     PROVE  hdr'[c].next # Null /\ ~hdr'[hdr'[c].next].free
          BY <3>2 DEF NoFreePair
        <4>1. c \in Space /\ hdr[c].free /\ hdr'[c].next = hdr[c].next
          BY <3>2 DEF Blocks
        <4>2. hdr[c].next # Null /\ ~hdr[hdr[c].next].free
              /\ hdr[c].next \in Blocks(hdr)
          BY <4>1, Block DEF IInv, NoFreePair
        <4>3. ~hdr'[hdr[c].next].free
          BY <3>2, <4>2 DEF Blocks
        <4> QED BY <4>1, <4>2, <4>3
      <3>5. hdr'[b].size = hdr[b].size
            /\ \A c \in Used(hdr) : hdr'[c].size = hdr[c].size
        BY <1>3, <3>2 DEF Used, Blocks
      <3> QED BY <1>1, <3>2, <3>3, <3>4, <3>5
    <2> QED BY <2>1, <2>2
  <1>6. Used(hdr)' = Used(hdr) \cup {b}
    BY <1>5 DEF Used, Blocks
  <1>7. Clients'
    BY <1>1, <1>2, <1>3, <1>6, Handed DEF IInv
  <1>8. Search'
    BY <1>1, BetweenCalls DEF IInv, Return
  <1>9. Shape(hdr, head, heap_ptr)' /\ NoFreePair(hdr)'
    BY <1>1, <1>5 DEF Shape, NoFreePair
  <1>10. Inside'
    BY <1>1, <1>3, <1>5, HandedInside DEF IInv
  <1> QED BY <1>7, <1>8, <1>9, <1>10 DEF IInv

LEMMA ExtendOK ==
  ASSUME IInv, copy = "kernel", copy' = copy, Extend
  PROVE  IInv'
  <1> DEFINE b == heap_ptr
  <1>1. /\ call = "find" /\ it = Null /\ ~Stale /\ Return(b)
        /\ hdr' = Extended(b) /\ heap_ptr' = heap_ptr + Header + want
        /\ head' = (IF head = Null THEN heap_ptr ELSE head)
        /\ last_visited' = last_visited /\ leaked' = leaked
    BY DEF Extend, Shrinks
  <1>2. want \in Nat /\ want \in Sizes["kernel"]
        /\ heap_ptr + Header + want <= HeapEnd + 1
    BY <1>1, FreeListAssumption DEF IInv, Search, FreeListAssumption
  <1>3. IF head = Null THEN last_visited = Null
        ELSE last_visited \in Blocks(hdr) /\ hdr[last_visited].next = Null
    BY <1>1 DEF IInv, Search, Stale
  <1>4. /\ Shape(hdr', head', heap_ptr')
        /\ b \notin Blocks(hdr)
        /\ Blocks(hdr') = Blocks(hdr) \cup {b}
        /\ \A c \in Blocks(hdr') :
             /\ hdr'[c].free = IF c = b THEN FALSE ELSE hdr[c].free
             /\ hdr'[c].next = IF c = b THEN Null
                               ELSE IF c = last_visited THEN b
                               ELSE hdr[c].next
             /\ hdr'[c].size = IF c = b THEN want ELSE hdr[c].size
    BY <1>1, <1>2, <1>3, ExtendKeeps DEF IInv
  <1>5. b \in Space
    BY <1>4 DEF Blocks
  <1>6. Used(hdr)' = Used(hdr) \cup {b}
    <2>1. \A c \in Blocks(hdr') : ~hdr'[c].free <=> c = b \/ ~hdr[c].free
      BY <1>4
    <2> QED BY <1>4, <2>1 DEF Used
  <1>7. NoFreePair(hdr')
    <2> SUFFICES ASSUME NEW c \in Blocks(hdr'), hdr'[c].free
                 PROVE  hdr'[c].next # Null /\ ~hdr'[hdr'[c].next].free
      BY DEF NoFreePair
    <2>1. c # b /\ c \in Blocks(hdr) /\ hdr[c].free
      BY <1>4
    <2>2. hdr[c].next # Null /\ ~hdr[hdr[c].next].free
          /\ hdr[c].next \in Blocks(hdr)
      BY <2>1, Block DEF IInv, NoFreePair
    <2>3. c \in Blocks(hdr) /\ c # Null
      BY <2>1, Block DEF IInv
    <2>4. c # last_visited
      BY <1>3, <2>2, <2>3
    <2>5. hdr'[c].next = hdr[c].next
      BY <1>4, <2>1, <2>4
    <2>6. ~hdr'[hdr[c].next].free
      BY <1>4, <2>2
    <2> QED BY <2>2, <2>5, <2>6
  <1>8. Clients'
    BY <1>1, <1>2, <1>4, <1>5, <1>6, Handed DEF IInv, Used
  <1>9. Search'
    BY <1>1, BetweenCalls DEF IInv, Return
  <1>10. Shape(hdr, head, heap_ptr)' /\ NoFreePair(hdr)'
    BY <1>4, <1>7 DEF Shape, NoFreePair
  <1>11. Inside'
    <2>1. hdr'[b].size = want /\ b \notin Used(hdr)
      BY <1>4 DEF Used
    <2>2. \A c \in Used(hdr) : c # b => hdr'[c].size = hdr[c].size
      BY <1>4 DEF Used
    <2> QED BY <1>1, <1>2, <1>5, <2>1, <2>2, HandedInside DEF IInv
  <1> QED BY <1>8, <1>9, <1>10, <1>11 DEF IInv

\* What is left of a list when free is done with it.
LEMMA FreeKeepsShape ==
  ASSUME IInv, copy = "kernel", NEW b \in Blocks(hdr), ~hdr[b].free,
         LET first == FirstFree(b)
             h == WithPrevious(b)
         IN  IF h[first].next # Null
               THEN hdr' = Fused(h, first) /\ UNCHANGED <<head, heap_ptr>>
               ELSE DropTail(h, first)
  PROVE  /\ Shape(hdr', head', heap_ptr')
         /\ NoFreePair(hdr')
         /\ Used(hdr') = Used(hdr) \ {b}
         /\ \A c \in Used(hdr') : hdr'[c].size = hdr[c].size
  <1> DEFINE first == FirstFree(b)
             h == WithPrevious(b)
             n == h[first].next
  <1>1. /\ Shape(h, head, heap_ptr)
        /\ first \in Blocks(h) /\ h[first].free
        /\ Used(h) = Used(hdr) \ {b}
        /\ \A c \in Used(h) : h[c].size = hdr[c].size
        /\ \A c \in Blocks(h) \ {first} : h[c].free =>
             h[c].next # Null /\ ~h[h[c].next].free
    BY WithPreviousKeeps DEF IInv
  <1>2. IF h[first].next # Null
          THEN hdr' = Fused(h, first) /\ UNCHANGED <<head, heap_ptr>>
          ELSE DropTail(h, first)
    OBVIOUS
  <1> HIDE DEF first, h
  <1>3. SUFFICES /\ Shape(hdr', head', heap_ptr')
                 /\ NoFreePair(hdr')
                 /\ Used(hdr') = Used(h)
                 /\ \A c \in Used(h) : hdr'[c].size = h[c].size
    BY <1>1
  <1>4. \A c \in Blocks(h) \ {first} : h[c].free =>
          /\ h[c].next # Null /\ ~h[h[c].next].free
          /\ h[c].next \in Blocks(h)
    BY <1>1, Block
  <1>5. CASE n # Null /\ ~h[n].free
    <2>1. hdr' = h /\ head' = head /\ heap_ptr' = heap_ptr
      BY <1>2, <1>5, FusedIs
    <2>2. NoFreePair(h)
      BY <1>1, <1>5 DEF NoFreePair
    <2> QED BY <1>1, <2>1, <2>2
  <1>6. CASE n # Null /\ h[n].free
    <2>1. hdr' = Merged(h, first) /\ head' = head /\ heap_ptr' = heap_ptr
      BY <1>2, <1>6, FusedIs
    <2> DEFINE g == Merged(h, first)
    <2>2. /\ Shape(g, head, heap_ptr) /\ n # first
          /\ Blocks(g) = Blocks(h) \ {n}
          /\ \A c \in Blocks(g) :
               /\ g[c].free = h[c].free
               /\ g[c].next = IF c = first THEN h[n].next ELSE h[c].next
               /\ c # first => g[c].size = h[c].size
      BY <1>1, <1>6, MergeKeeps
    <2> HIDE DEF g, n
    <2>3. n \in Blocks(h)
      BY <1>1, <1>6, Block DEF n
    <2>4. Used(g) = Used(h)
      BY <1>6, <2>2, <2>3 DEF Used
    <2>5. NoFreePair(g)
      <3> SUFFICES ASSUME NEW c \in Blocks(g), g[c].free
                   PROVE  g[c].next # Null /\ ~g[g[c].next].free
        BY DEF NoFreePair
      <3>1. CASE c = first
        <4>1. g[c].next = h[n].next
          BY <2>2, <3>1
        <4>2. h[n].next # Null /\ ~h[h[n].next].free /\ h[n].next \in Blocks(h)
          BY <1>4, <1>6, <2>2, <2>3
        <4>3. h[n].next \in Blocks(g)
          BY <1>6, <2>2, <4>2
        <4> QED BY <2>2, <4>1, <4>2, <4>3
      <3>2. CASE c # first
        <4>1. c \in Blocks(h) /\ h[c].free /\ g[c].next = h[c].next
          BY <2>2, <3>2
        <4>2. h[c].next # Null /\ ~h[h[c].next].free /\ h[c].next \in Blocks(h)
          BY <1>4, <3>2, <4>1
        <4>3. h[c].next \in Blocks(g)
          BY <1>6, <2>2, <4>2
        <4> QED BY <2>2, <4>1, <4>2, <4>3
      <3> QED BY <3>1, <3>2
    <2>6. hdr' = g
      BY <2>1 DEF g
    <2>7. \A c \in Used(h) : g[c].size = h[c].size
      <3>1. \A c \in Used(h) : c \in Blocks(g) /\ c # first
        BY <1>1, <2>4 DEF Used
      <3> QED BY <2>2, <3>1
    <2> QED BY <2>1, <2>2, <2>4, <2>5, <2>6, <2>7
  <1>7. CASE n = Null
    <2> DEFINE g == Dropped(h, first)
    <2>1. /\ hdr' = g /\ heap_ptr' = first
          /\ head' = IF h[first].prev = Null THEN Null ELSE head
      BY <1>2, <1>7 DEF DropTail, Dropped, Retired, Shrinks
    <2>2. /\ Shape(g, IF h[first].prev = Null THEN Null ELSE head, first)
          /\ Blocks(g) = Blocks(h) \ {first}
          /\ \A c \in Blocks(g) :
               /\ g[c].free = h[c].free
               /\ g[c].next = IF c = h[first].prev THEN Null ELSE h[c].next
               /\ g[c].size = h[c].size
      BY <1>1, <1>7, DropKeeps
    <2> HIDE DEF g
    <2>3. Used(g) = Used(h)
      BY <1>1, <2>2 DEF Used
    <2>4. NoFreePair(g)
      <3> SUFFICES ASSUME NEW c \in Blocks(g), g[c].free
                   PROVE  g[c].next # Null /\ ~g[g[c].next].free
        BY DEF NoFreePair
      <3>1. c \in Blocks(h) /\ c # first /\ h[c].free
        BY <2>2
      <3>2. h[c].next # Null /\ ~h[h[c].next].free /\ h[c].next \in Blocks(h)
        BY <1>4, <3>1
      <3>3. h[c].next # first
        BY <1>1, <3>2
      <3>4. c # h[first].prev
        <4>1. c # Null
          BY <1>1, <3>1, Block
        <4>2. h[first].prev # Null => h[h[first].prev].next = first
          BY <1>1, Block
        <4> QED BY <3>3, <4>1, <4>2
      <3>5. g[c].next = h[c].next /\ h[c].next \in Blocks(g)
        BY <2>2, <3>2, <3>3, <3>4
      <3> QED BY <2>2, <3>2, <3>5
    <2>5. \A c \in Used(h) : g[c].size = h[c].size
      BY <2>2, <2>3 DEF Used
    <2> QED BY <2>1, <2>2, <2>3, <2>4, <2>5
  <1> QED BY <1>5, <1>6, <1>7

LEMMA FreeOK ==
  ASSUME IInv, copy = "kernel", copy' = copy, NEW b \in Addr, Free(b)
  PROVE  IInv'
  <1>1. b \in Space
    BY DEF Addr, Space, HeapEnd
  <1>2. PICK r \in given : r.addr = Data(b) /\ given' = given \ {r}
    BY DEF Free, GivenBlock
  <1>3. /\ call = "idle" /\ call' = call /\ want' = want /\ it' = it
        /\ last_visited' = last_visited /\ leaked' = leaked
    BY DEF Free
  <1>4. /\ b \in Blocks(hdr) /\ ~hdr[b].free
        /\ {s.addr - Header : s \in given \ {r}} = GivenBlocks \ {b}
        /\ b \in GivenBlocks /\ b \notin leaked
    BY <1>1, <1>2, GivenInUse DEF IInv
  <1>5. /\ Shape(hdr', head', heap_ptr')
        /\ NoFreePair(hdr')
        /\ Used(hdr') = Used(hdr) \ {b}
        /\ \A c \in Used(hdr') : hdr'[c].size = hdr[c].size
    BY <1>4, FreeKeepsShape DEF Free
  <1>6. GivenBlocks' = GivenBlocks \ {b}
    BY <1>2, <1>4 DEF GivenBlocks
  <1>7. Clients'
    <2>1. Used(hdr)' = GivenBlocks' \cup leaked'
      BY <1>3, <1>4, <1>5, <1>6 DEF IInv, Clients
    <2> QED BY <1>2, <1>3, <1>6, <2>1 DEF IInv, Clients
  <1>8. Search'
    BY <1>3 DEF IInv, Search
  <1>9. Inside'
    <2>1. \A s \in given' : s \in given /\ s.addr - Header \in Used(hdr')
      BY <1>2, <1>4, <1>5, <1>6 DEF GivenBlocks, IInv, Clients
    <2> QED BY <1>5, <2>1 DEF Inside, IInv
  <1> QED BY <1>5, <1>7, <1>8, <1>9 DEF IInv

LEMMA FreeIgnoredOK ==
  ASSUME IInv, copy = "kernel", copy' = copy, NEW b \in Addr, FreeIgnored(b)
  PROVE  IInv'
  <1>1. b \in Space
    BY DEF Addr, Space, HeapEnd
  <1>2. PICK r \in given : r.addr = Data(b) /\ given' = given \ {r}
    BY DEF FreeIgnored, GivenBlock
  <1>3. /\ call = "idle" /\ call' = call /\ want' = want /\ it' = it
        /\ hdr' = hdr /\ head' = head /\ heap_ptr' = heap_ptr
        /\ last_visited' = last_visited /\ leaked' = leaked \cup {b}
    BY DEF FreeIgnored, heapVars
  <1>4. /\ {s.addr - Header : s \in given \ {r}} = GivenBlocks \ {b}
        /\ b \in GivenBlocks
    BY <1>1, <1>2, GivenInUse DEF IInv
  <1>5. GivenBlocks' = GivenBlocks \ {b}
    BY <1>2, <1>4 DEF GivenBlocks
  <1>6. Clients'
    <2>1. Used(hdr)' = Used(hdr)
      BY <1>3 DEF Used
    <2> QED BY <1>1, <1>2, <1>3, <1>4, <1>5, <2>1 DEF IInv, Clients
  <1>7. Search' /\ Shape(hdr, head, heap_ptr)' /\ NoFreePair(hdr)' /\ Inside'
    BY <1>2, <1>3 DEF IInv, Search, Shape, NoFreePair, Inside
  <1> QED BY <1>6, <1>7 DEF IInv

-----------------------------------------------------------------------------
(* The blocks are those on the list *)

LEMMA Least ==
  ASSUME NEW T, T \subseteq Nat, T # {}
  PROVE  \E n \in T : \A m \in T : n <= m
  <1> DEFINE R == OpToRel(<, Nat)
  <1>1. IsWellFoundedOn(R, Nat)
    BY NatLessThanWellFounded
  <1>2. \A n, m \in Nat : n < m => <<n, m>> \in R
    BY DEF OpToRel
  <1> HIDE DEF R
  <1>3. PICK n \in T : \A m \in T : ~ (<<m, n>> \in R)
    BY <1>1, WFMin
  <1>4. \A m \in T : ~(m < n)
    BY <1>2, <1>3
  <1> QED BY <1>3, <1>4

\* Where the list is after each of the first k steps along next.
After(f, h, first, k) ==
  /\ DOMAIN f = 0 .. k
  /\ f[0] = first
  /\ \A n \in 1 .. k : f[n] = IF f[n - 1] = Null THEN Null ELSE h[f[n - 1]].next

LEMMA AfterExists ==
  ASSUME NEW h, NEW first, NEW k \in Nat
  PROVE  \E f : After(f, h, first, k)
  <1> DEFINE Bad == {i \in Nat : ~ \E f : After(f, h, first, i)}
  <1>1. SUFFICES ASSUME Bad # {} PROVE FALSE
    OBVIOUS
  <1>2. PICK i \in Bad : \A j \in Bad : i <= j
    <2>1. Bad \subseteq Nat
      OBVIOUS
    <2> HIDE DEF Bad
    <2> QED BY <1>1, <2>1, Least
  <1>3. i \in Nat /\ ~ \E f : After(f, h, first, i)
    OBVIOUS
  <1>4. CASE i = 0
    <2> DEFINE f == [n \in 0 .. 0 |-> first]
    <2>1. DOMAIN f = 0 .. i /\ f[0] = first
      BY <1>4
    <2>2. After(f, h, first, i)
      BY <1>4, <2>1 DEF After
    <2> QED BY <1>3, <2>2
  <1>5. CASE i # 0
    <2>1. i - 1 \in Nat /\ i - 1 \notin Bad
      BY <1>2, <1>3, <1>5
    <2>2. PICK g : After(g, h, first, i - 1)
      BY <2>1
    <2> DEFINE f == [n \in 0 .. i |->
                       IF n # i THEN g[n]
                       ELSE IF g[i - 1] = Null THEN Null ELSE h[g[i - 1]].next]
    <2>3. \A n \in 0 .. i - 1 : f[n] = g[n]
      BY <1>3
    <2>4. f[i] = IF g[i - 1] = Null THEN Null ELSE h[g[i - 1]].next
      BY <1>3
    <2>5. DOMAIN f = 0 .. i
      OBVIOUS
    <2> HIDE DEF f, Bad
    <2>6. f[0] = first
      BY <1>3, <1>5, <2>2, <2>3 DEF After
    <2>7. ASSUME NEW n \in 1 .. i
          PROVE  f[n] = IF f[n - 1] = Null THEN Null ELSE h[f[n - 1]].next
      <3>1. n - 1 \in 0 .. i - 1 /\ f[n - 1] = g[n - 1]
        BY <1>3, <2>3
      <3>2. CASE n = i
        BY <2>4, <3>1, <3>2
      <3>3. CASE n # i
        <4>1. n \in 1 .. i - 1 /\ n \in 0 .. i - 1
          BY <1>3, <3>3
        <4>2. f[n] = g[n]
          BY <2>3, <4>1
        <4> QED BY <2>2, <3>1, <4>1, <4>2 DEF After
      <3> QED BY <3>2, <3>3
    <2> QED BY <1>3, <2>5, <2>6, <2>7 DEF After
  <1> QED BY <1>4, <1>5

\* Visit walks along next.
LEMMA VisitIs ==
  ASSUME copy = "kernel"
  PROVE  /\ Visit[0] = head
         /\ \A n \in 1 .. HeapEnd : Visit[n] = IF Visit[n - 1] = Null THEN Null
                                           ELSE hdr[Visit[n - 1]].next
  <1> DEFINE Body(v, n) == IF n = 0 THEN head
                           ELSE IF v[n - 1] = Null THEN Null
                                ELSE hdr[v[n - 1]].next
             Walk(v) == v = [n \in 0 .. MaxHeap[copy] |-> Body(v, n)]
  <1>1. MaxHeap[copy] = HeapEnd /\ HeapEnd \in Nat
    BY Constants DEF HeapEnd
  <1>2. PICK f : After(f, hdr, head, HeapEnd)
    BY <1>1, AfterExists
  <1>3. PICK g : g = [n \in 0 .. HeapEnd |-> f[n]]
    OBVIOUS
  <1>4. Walk(g)
    <2>1. \A n \in 0 .. HeapEnd : g[n] = Body(g, n)
      <3> SUFFICES ASSUME NEW n \in 0 .. HeapEnd PROVE g[n] = Body(g, n)
        OBVIOUS
      <3>1. CASE n = 0
        BY <1>1, <1>2, <1>3, <3>1 DEF After
      <3>2. CASE n # 0
        <4>1. n \in 1 .. HeapEnd /\ n - 1 \in 0 .. HeapEnd
          BY <1>1, <3>2
        <4>2. g[n] = f[n] /\ g[n - 1] = f[n - 1]
          BY <1>3, <4>1
        <4> QED BY <1>2, <3>2, <4>1, <4>2 DEF After
      <3> QED BY <3>1, <3>2
    <2>2. g = [n \in 0 .. HeapEnd |-> g[n]]
      BY <1>3
    <2> QED BY <1>1, <2>1, <2>2
  <1>5. Visit = CHOOSE v : Walk(v)
    BY DEF Visit
  <1> HIDE DEF Walk
  <1>6. Walk(Visit)
    BY <1>4, <1>5
  <1>7. \A n \in 0 .. HeapEnd : Visit[n] = Body(Visit, n)
    <2>1. Visit = [n \in 0 .. HeapEnd |-> Body(Visit, n)]
      BY <1>1, <1>6 DEF Walk
    <2> HIDE DEF Body
    <2>2. \A v : v = [n \in 0 .. HeapEnd |-> Body(Visit, n)]
                   => \A n \in 0 .. HeapEnd : v[n] = Body(Visit, n)
      OBVIOUS
    <2> QED BY <2>1, <2>2
  <1>8. Visit[0] = head
    BY <1>1, <1>7
  <1>9. ASSUME NEW n \in 1 .. HeapEnd
        PROVE  Visit[n] = IF Visit[n - 1] = Null THEN Null
                          ELSE hdr[Visit[n - 1]].next
    BY <1>1, <1>7
  <1> QED BY <1>8, <1>9

LEMMA ListedIsBlocks ==
  ASSUME Shape(hdr, head, heap_ptr), copy = "kernel"
  PROVE  Listed = Blocks(hdr)
  <1>1. MaxHeap[copy] = HeapEnd /\ HeapEnd \in Nat
    BY Constants DEF HeapEnd
  <1>2. ASSUME NEW n \in 0 .. HeapEnd
        PROVE  Visit[n] = Null \/ Visit[n] \in Blocks(hdr)
    <2> DEFINE Bad == {i \in 0 .. HeapEnd :
                         ~(Visit[i] = Null \/ Visit[i] \in Blocks(hdr))}
    <2>1. SUFFICES ASSUME Bad # {} PROVE FALSE
      BY <1>2
    <2>2. PICK i \in Bad : \A j \in Bad : i <= j
      <3>1. Bad \subseteq Nat
        BY <1>1
      <3> HIDE DEF Bad
      <3> QED BY <2>1, <3>1, Least
    <2>3. i \in 0 .. HeapEnd /\ ~(Visit[i] = Null \/ Visit[i] \in Blocks(hdr))
      OBVIOUS
    <2>4. CASE i = 0
      <3>1. head = Null \/ head \in Blocks(hdr)
        BY DEF Shape
      <3> QED BY <2>3, <2>4, <3>1, VisitIs
    <2>5. CASE i # 0
      <3>1. i \in 1 .. HeapEnd /\ i - 1 \in 0 .. HeapEnd /\ i - 1 \notin Bad
        BY <1>1, <2>2, <2>3, <2>5
      <3>2. Visit[i - 1] = Null \/ Visit[i - 1] \in Blocks(hdr)
        BY <3>1
      <3>3. Visit[i] = IF Visit[i - 1] = Null THEN Null
                       ELSE hdr[Visit[i - 1]].next
        BY <3>1, VisitIs
      <3>4. \A b \in Blocks(hdr) : hdr[b].next = Null
                                     \/ hdr[b].next \in Blocks(hdr)
        BY Block
      <3> QED BY <2>3, <3>2, <3>3, <3>4
    <2> QED BY <2>4, <2>5
  <1>3. ASSUME NEW b \in Blocks(hdr)
        PROVE  \E n \in 0 .. HeapEnd : Visit[n] = b
    <2> DEFINE Found(c) == \E n \in 0 .. HeapEnd : n < c /\ Visit[n] = c
               Bad == {c \in Blocks(hdr) : ~Found(c)}
    <2>1. SUFFICES ASSUME Bad # {} PROVE FALSE
      BY <1>3
    <2>2. PICK c \in Bad : \A d \in Bad : c <= d
      <3>1. Bad \subseteq Nat
        BY Block
      <3> HIDE DEF Bad
      <3> QED BY <2>1, <3>1, Least
    <2>3. c \in Blocks(hdr) /\ ~Found(c)
      OBVIOUS
    <2>4. c \in Nat /\ c >= 1 /\ c <= HeapEnd
      <3>1. c \in Space
        BY <2>3 DEF Blocks
      <3> QED BY <1>1, <3>1 DEF Space, Base
    <2>5. CASE c = Base
      <3>1. head = c
        BY <2>3, <2>5, Block
      <3>2. 0 \in 0 .. HeapEnd /\ 0 < c /\ Visit[0] = c
        BY <1>1, <2>4, <3>1, VisitIs
      <3> QED BY <2>3, <3>2
    <2>6. CASE c # Base
      <3> DEFINE p == hdr[c].prev
      <3>1. p \in Blocks(hdr) /\ hdr[p].next = c
        BY <2>3, <2>6, Block
      <3> HIDE DEF p
      <3>2. c # Null
        BY <2>4 DEF Null
      <3>3. p \in Nat /\ p < c /\ p # Null
        BY <2>4, <3>1, <3>2, Block
      <3>4. Found(p)
        BY <2>2, <2>4, <3>1, <3>3
      <3>5. PICK n \in 0 .. HeapEnd : n < p /\ Visit[n] = p
        BY <3>4
      <3>6. n + 1 \in 1 .. HeapEnd /\ n + 1 \in 0 .. HeapEnd /\ n + 1 < c
            /\ (n + 1) - 1 = n
        BY <1>1, <2>4, <3>3, <3>5
      <3>7. Visit[n + 1] = c
        BY <3>1, <3>3, <3>5, <3>6, VisitIs
      <3> QED BY <2>3, <3>6, <3>7
    <2> QED BY <2>5, <2>6
  <1>4. Listed = {Visit[n] : n \in 0 .. HeapEnd} \ {Null}
    BY <1>1 DEF Listed
  <1>5. Null \notin Blocks(hdr)
    BY Block
  <1> QED BY <1>2, <1>3, <1>4, <1>5

\* The invariant says of the blocks what HeapExact says of the list.
LEMMA Exact ==
  ASSUME IInv, copy = "kernel"
  PROVE  HeapExact
  <1>1. Listed = Blocks(hdr) /\ Shape(hdr, head, heap_ptr)
    BY ListedIsBlocks DEF IInv
  <1>2. Addr = Space /\ Pointers = Links /\ MaxHeap[copy] = HeapEnd /\ HeapEnd \in Nat
    BY Constants DEF Addr, Space, Pointers, Links, HeapEnd
  <1>3. Sizes["kernel"] \subseteq AllSizes
    BY DEF AllSizes
  <1>4. TypeOK
    <2>1. \A a \in Addr : IsHeader(hdr[a])
      <3> SUFFICES ASSUME NEW a \in Space PROVE IsHeader(hdr[a])
        BY <1>2
      <3>1. hdr[a] \in Headers
        BY <1>1 DEF Shape
      <3> QED BY <1>2, <3>1 DEF IsHeader, Headers
    <2>2. head \in Pointers /\ heap_ptr \in Base .. MaxHeap[copy] + 1
      BY <1>1, <1>2 DEF Shape, Links, Blocks
    <2>3. /\ last_visited \in Pointers /\ call \in {"idle", "find", "corrupt"}
          /\ want \in AllSizes \cup {0}
      BY <1>2, <1>3 DEF IInv, Search
    <2>4. it \in Pointers
      BY <1>2 DEF IInv, Search, Links, Blocks
    <2>5. leaked \subseteq Addr
      BY <1>2 DEF IInv, Clients
    <2>6. given \subseteq [addr : 1 .. MaxHeap[copy] + 1, size : AllSizes]
      <3> SUFFICES ASSUME NEW r \in given
                   PROVE  r \in [addr : 1 .. MaxHeap[copy] + 1, size : AllSizes]
        OBVIOUS
      <3>1. r \in [addr : Int, size : Sizes["kernel"]]
        BY DEF IInv, Clients
      <3> DEFINE b == r.addr - Header
      <3>2. b \in Blocks(hdr)
        BY DEF IInv, Clients, Used, GivenBlocks
      <3>3. /\ b \in Nat /\ b >= 1 /\ hdr[b].size \in Nat
            /\ b + Header + hdr[b].size <= heap_ptr
            /\ heap_ptr \in Nat /\ heap_ptr <= HeapEnd + 1
        <4> HIDE DEF b
        <4> QED BY <1>1, <3>2, Block DEF EndOf
      <3>4. r.addr >= 1 /\ r.addr <= HeapEnd + 1
        BY <1>2, <3>1, <3>3, Constants
      <3> QED BY <1>2, <1>3, <3>1, <3>4
    <2> QED BY <2>1, <2>2, <2>3, <2>4, <2>5, <2>6 DEF TypeOK
  <1>5. TilesHeap
    <2>1. IF head = Null THEN heap_ptr = Base
                         ELSE head = Base /\ hdr[head].prev = Null
      <3>1. CASE Blocks(hdr) = {}
        BY <1>1, <3>1 DEF Shape
      <3>2. CASE Blocks(hdr) # {}
        <4>1. head = Base /\ Base \in Blocks(hdr)
          BY <1>1, <3>2 DEF Shape
        <4>2. hdr[Base].prev = Null /\ Base # Null
          BY <1>1, <4>1, Block
        <4> QED BY <4>1, <4>2
      <3> QED BY <3>1, <3>2
    <2>2. \A b \in Blocks(hdr) :
            IF hdr[b].next = Null THEN End(b) = heap_ptr
            ELSE hdr[b].next = End(b) /\ hdr[hdr[b].next].prev = b
      BY <1>1, Block DEF End, EndOf, Data
    <2> QED BY <1>1, <2>1, <2>2 DEF TilesHeap
  <1>6. Coalesced
    BY <1>1 DEF Coalesced, IInv, NoFreePair
  <1>7. UsedAreGiven
    BY <1>1 DEF UsedAreGiven, UsedBlocks, Used, IInv, Clients
  <1> QED BY <1>4, <1>5, <1>6, <1>7 DEF HeapExact

LEMMA NextOK ==
  ASSUME copy = "kernel" => IInv, [Next]_vars
  PROVE  (copy = "kernel" => IInv)'
  <1>1. CASE UNCHANGED vars
    BY <1>1 DEF vars, heapVars, IInv, Shape, NoFreePair, Clients, Inside, Search,
                Used, GivenBlocks
  <1>2. CASE Next
    <2>1. copy' = copy
      BY <1>2 DEF Next
    <2>2. SUFFICES ASSUME IInv, copy = "kernel" PROVE IInv'
      BY <2>1
    <2>3. ASSUME NEW s \in Sizes[copy], Malloc(s) PROVE IInv'
      BY <2>1, <2>2, <2>3, MallocOK
    <2>4. CASE FindNext
      BY <2>1, <2>2, <2>4, FindNextOK
    <2>5. CASE Reuse
      BY <2>1, <2>2, <2>5, ReuseOK
    <2>6. CASE Extend
      BY <2>1, <2>2, <2>6, ExtendOK
    <2>7. CASE ExtendStale
      BY <2>2, <2>7 DEF ExtendStale, heapVars, IInv, Shape, NoFreePair, Clients,
                        Inside, Search, Used, GivenBlocks
    <2>8. ASSUME NEW b \in Addr, Free(b) PROVE IInv'
      BY <2>1, <2>2, <2>8, FreeOK
    <2>9. ASSUME NEW b \in Addr, FreeIgnored(b) PROVE IInv'
      BY <2>1, <2>2, <2>9, FreeIgnoredOK
    <2> QED BY <1>2, <2>3, <2>4, <2>5, <2>6, <2>7, <2>8, <2>9
            DEF Next, MallocStep
  <1> QED BY <1>1, <1>2

\* Whatever the sizes and the order of the calls of new and delete in the
\* kernel, splitBlock, extendHeap, fusion and the return of the last block to
\* brk keep every header, link and block as the invariant has them.
THEOREM KernelHeapInvariant == Spec => [](copy = "kernel" => IInv)
  <1>1. Init => (copy = "kernel" => IInv)
    BY InitOK
  <1>2. (copy = "kernel" => IInv) /\ [Next]_vars => (copy = "kernel" => IInv)'
    BY NextOK
  <1> QED BY <1>1, <1>2, PTL DEF Spec

\* The heap of the kernel is exactly tiled by the blocks on the list of class
\* FreeList, no two free ones follow one another, and the blocks marked as
\* used are those that the callers of malloc have or that free ignored.
THEOREM KernelHeapIsExact == Spec => [](copy = "kernel" => HeapExact)
  <1>1. (copy = "kernel" => IInv) => (copy = "kernel" => HeapExact)
    BY Exact
  <1> QED BY <1>1, KernelHeapInvariant, PTL

-----------------------------------------------------------------------------
(* The heap of the kernel is an allocator *)

LEMMA LargestBounds == Largest \in Nat /\ HeapEnd <= Largest
  <1> DEFINE K == MaxHeap["kernel"]
             P == MaxHeap["programs"]
             Bounds(n) == K <= n /\ P <= n
  <1>1. K \in Nat /\ P \in Nat
    BY FreeListAssumption DEF FreeListAssumption
  <1>2. \E n \in {K, P} : Bounds(n)
    BY <1>1
  <1>3. Largest = CHOOSE n \in {K, P} : Bounds(n)
    BY DEF Largest
  <1> HIDE DEF Bounds
  <1>4. Largest \in {K, P} /\ Bounds(Largest)
    BY <1>2, <1>3
  <1> QED BY <1>1, <1>4 DEF Bounds, HeapEnd

\* What clients have lies in the heap and apart.
GivenApart ==
  \A r \in given :
    /\ r = [addr |-> r.addr, size |-> r.size]
    /\ r.addr \in 1 .. HeapEnd + 1 /\ r.size \in 0 .. HeapEnd
    /\ r.addr + r.size <= HeapEnd + 1
    /\ \A q \in given : q # r => /\ q.addr # r.addr
                                 /\ ~AllocatorOf!Overlap(r, q)

LEMMA IsApart == IInv => GivenApart
  <1> SUFFICES ASSUME IInv PROVE GivenApart
    OBVIOUS
  <1>1. Shape(hdr, head, heap_ptr) /\ Clients /\ Inside
    BY DEF IInv
  <1> DEFINE At(r) == r.addr - Header
  <1>2. ASSUME NEW r \in given
        PROVE  /\ r = [addr |-> r.addr, size |-> r.size]
               /\ r.addr \in Int /\ r.size \in Nat /\ At(r) \in Blocks(hdr)
               /\ r.size <= hdr[At(r)].size
               /\ At(r) \in Nat /\ At(r) >= 1
               /\ hdr[At(r)].size \in Nat
               /\ EndOf(hdr, At(r)) = r.addr + hdr[At(r)].size
               /\ EndOf(hdr, At(r)) <= HeapEnd + 1
    <2>1. r \in [addr : Int, size : Sizes["kernel"]]
      BY <1>1 DEF Clients
    <2>2. Sizes["kernel"] \subseteq Nat
      BY FreeListAssumption DEF FreeListAssumption
    <2>3. At(r) \in Blocks(hdr) /\ r.size <= hdr[At(r)].size
      BY <1>1 DEF Clients, Used, GivenBlocks, Inside
    <2>4. /\ At(r) \in Nat /\ At(r) >= 1 /\ hdr[At(r)].size \in Nat
          /\ EndOf(hdr, At(r)) <= heap_ptr /\ EndOf(hdr, At(r)) \in Nat
          /\ heap_ptr \in Nat /\ heap_ptr <= HeapEnd + 1
      <3> HIDE DEF At
      <3> QED BY <1>1, <2>3, Block
    <2>5. EndOf(hdr, At(r)) = r.addr + hdr[At(r)].size
      BY <2>1, <2>4, Constants DEF EndOf
    <2>6. EndOf(hdr, At(r)) <= HeapEnd + 1
      BY <2>4, Constants
    <2> HIDE DEF At
    <2> QED BY <2>1, <2>2, <2>3, <2>4, <2>5, <2>6
  <1>3. \A r, q \in given : At(r) < At(q) => r.addr + r.size < q.addr
    <2> SUFFICES ASSUME NEW r \in given, NEW q \in given, At(r) < At(q)
                 PROVE  r.addr + r.size < q.addr
      OBVIOUS
    <2>1. EndOf(hdr, At(r)) <= At(q)
      <3> HIDE DEF At
      <3> QED BY <1>1, <1>2, Apart
    <2>2. At(q) < q.addr
      BY <1>2, Constants
    <2> HIDE DEF At
    <2> QED BY <1>2, <2>1, <2>2
  <1> SUFFICES ASSUME NEW r \in given
               PROVE  /\ r = [addr |-> r.addr, size |-> r.size]
                      /\ r.addr \in 1 .. HeapEnd + 1 /\ r.size \in 0 .. HeapEnd
                      /\ r.addr + r.size <= HeapEnd + 1
                      /\ \A q \in given : q # r =>
                           q.addr # r.addr /\ ~AllocatorOf!Overlap(r, q)
    BY DEF GivenApart
  <1>4. /\ r.addr \in 1 .. HeapEnd + 1 /\ r.size \in 0 .. HeapEnd
        /\ r.addr + r.size <= HeapEnd + 1
    <2>1. r.addr >= 1 + Header
      BY <1>2, Constants
    <2> HIDE DEF At
    <2> QED BY <1>2, <2>1, Constants
  <1>5. ASSUME NEW q \in given, q # r
        PROVE  q.addr # r.addr /\ ~AllocatorOf!Overlap(r, q)
    <2>1. q.addr # r.addr /\ q.addr \in Int /\ r.addr \in Int
      BY <1>1, <1>2, <1>5 DEF Clients
    <2>2. At(r) < At(q) \/ At(q) < At(r)
      BY <2>1, Constants
    <2>3. r.addr + r.size < q.addr \/ q.addr + q.size < r.addr
      BY <1>3, <2>2
    <2> HIDE DEF At
    <2>4. ~AllocatorOf!Overlap(r, q)
      BY <1>2, <2>1, <2>3 DEF AllocatorOf!Overlap
    <2> QED BY <2>1, <2>4
  <1> QED BY <1>2, <1>4, <1>5

\* What malloc returns is new to the clients.
LEMMA ReturnMaps ==
  ASSUME IInv, GivenApart', NEW b, b \notin Used(hdr), b \in Int, Return(b)
  PROVE  AllocatorOf!Next
  <1> DEFINE r == [addr |-> Data(b), size |-> want]
  <1>1. given' = given \cup {r} /\ r.addr = b + Header
    BY DEF Return, Data
  <1> HIDE DEF r
  <1>2. \A q \in given : q # r
    <2> SUFFICES ASSUME r \in given PROVE FALSE
      OBVIOUS
    <2>1. r.addr - Header = b
      BY <1>1, Constants
    <2>2. b \in GivenBlocks
      BY <2>1 DEF GivenBlocks
    <2> QED BY <2>2 DEF IInv, Clients
  <1>3. /\ r = [addr |-> r.addr, size |-> r.size]
        /\ r.addr \in 1 .. HeapEnd + 1 /\ r.size \in 0 .. HeapEnd
        /\ r.addr + r.size <= HeapEnd + 1
        /\ \A q \in given : q.addr # r.addr /\ ~AllocatorOf!Overlap(r, q)
    BY <1>1, <1>2 DEF GivenApart
  <1>4. /\ r.addr \in 1 .. Largest + 1 /\ r.size \in 0 .. Largest
        /\ r.addr + r.size <= Largest + 1
    BY <1>3, LargestBounds, Constants
  <1>5. PICK a \in 1 .. Largest + 1, s \in 0 .. Largest :
          a = r.addr /\ s = r.size
    BY <1>4
  <1>6. AllocatorOf!Malloc
    BY <1>1, <1>3, <1>4, <1>5 DEF AllocatorOf!Malloc
  <1> QED BY <1>6 DEF AllocatorOf!Next

LEMMA NextMaps ==
  ASSUME IInv, copy = "kernel", GivenApart', [Next]_vars
  PROVE  [AllocatorOf!Next]_given
  <1>1. CASE UNCHANGED vars
    BY <1>1 DEF vars
  <1>2. CASE Reuse
    <2>1. it \in Blocks(hdr) /\ hdr[it].free /\ Return(it)
      BY <1>2 DEF Reuse, Fits, IInv, Search
    <2>2. it \notin Used(hdr) /\ it \in Int
      BY <2>1 DEF Used, Blocks, Space, Base
    <2> QED BY <2>1, <2>2, ReturnMaps
  <1>3. CASE Extend
    <2>1. heap_ptr \in Int /\ heap_ptr \notin Used(hdr)
      <3>1. Shape(hdr, head, heap_ptr) /\ heap_ptr \in Int
        BY DEF IInv, Shape, Base
      <3>2. \A c \in Blocks(hdr) : c < EndOf(hdr, c) /\ EndOf(hdr, c) <= heap_ptr
                                   /\ c \in Nat /\ EndOf(hdr, c) \in Nat
        BY <3>1, Block
      <3>3. heap_ptr \notin Blocks(hdr)
        BY <3>1, <3>2
      <3> QED BY <3>1, <3>3 DEF Used
    <2>2. Return(heap_ptr)
      BY <1>3 DEF Extend
    <2> QED BY <2>1, <2>2, ReturnMaps
  <1>4. ASSUME NEW b, Free(b) \/ FreeIgnored(b)
        PROVE  AllocatorOf!Next
    BY <1>4 DEF Free, FreeIgnored, AllocatorOf!Next, AllocatorOf!Free
  <1>5. ASSUME NEW s, Malloc(s) PROVE given' = given
    BY <1>5 DEF Malloc
  <1>6. CASE FindNext \/ ExtendStale
    BY <1>6 DEF FindNext, ExtendStale
  <1> QED BY <1>1, <1>2, <1>3, <1>4, <1>5, <1>6 DEF Next, MallocStep

\* In the kernel malloc and free give out no word of memory twice: whatever was
\* split, fused and given back to brk, what malloc returns overlaps nothing that
\* a caller still has.
THEOREM KernelHeapAllocates == Spec /\ copy = "kernel" => AllocatorRefinement
  <1>1. Init => AllocatorOf!Init
    BY DEF Init, AllocatorOf!Init
  <1>2. IInv => GivenApart
    BY IsApart
  <1>3. IInv /\ copy = "kernel" /\ GivenApart' /\ [Next]_vars
          => [AllocatorOf!Next]_given
    BY NextMaps
  <1>4. copy = "kernel" /\ [Next]_vars => (copy = "kernel")'
    BY DEF Next, vars
  <1> QED BY <1>1, <1>2, <1>3, <1>4, KernelHeapInvariant, PTL
          DEF Spec, AllocatorRefinement, AllocatorOf!Spec

-----------------------------------------------------------------------------
(* Numbers and powers of two *)

\* A nonempty set of numbers has a least one.
LEMMA LeastOf ==
  ASSUME NEW S, S \subseteq Nat, S # {}
  PROVE  \E n \in S : \A k \in S : n <= k
<1> DEFINE R == OpToRel(<, Nat)
<1>1. IsWellFoundedOn(R, Nat)
  BY NatLessThanWellFounded
<1>2. \A n, k \in Nat : n < k => <<n, k>> \in R
  BY DEF OpToRel
<1> HIDE DEF R
<1>3. PICK n \in S : \A k \in S : ~ (<<k, n>> \in R)
  BY <1>1, WFMin
<1>4. \A k \in S : ~ (k < n)
  BY <1>2, <1>3
<1> QED BY <1>3, <1>4

\* A claim about the numbers up to k fails first somewhere.
LEMMA FirstFailure ==
  ASSUME NEW k \in Nat, NEW Good, NEW m \in 0 .. k, m \notin Good
  PROVE  \E j \in 0 .. k : j \notin Good /\ \A i \in 0 .. j - 1 : i \in Good
<1> DEFINE Bad == {j \in 0 .. k : j \notin Good}
<1>1. Bad \subseteq Nat /\ Bad # {}
  OBVIOUS
<1>2. PICK j \in Bad : \A i \in Bad : j <= i
  <2> HIDE DEF Bad
  <2> QED BY <1>1, LeastOf
<1>3. \A i \in 0 .. j - 1 : i \in Good
  BY <1>2
<1> QED BY <1>2, <1>3

\* Division with a remainder.
LEMMA QuotientRemainder ==
  ASSUME NEW a \in Nat, NEW b \in Nat \ {0}
  PROVE  /\ a % b \in 0 .. b - 1 /\ a \div b \in Nat
         /\ a = (a \div b) * b + (a % b)
<1>1. a % b \in 0 .. b - 1 /\ a \div b \in Int /\ a = (a \div b) * b + (a % b)
  BY Z3
<1>2. PICK q \in Int, r \in 0 .. b - 1 : q = a \div b /\ r = a % b
  BY <1>1
<1>3. CASE q <= -1
  <2>1. q * b <= -b
    BY <1>3, Z3
  <2> QED BY <2>1, <1>1, <1>2
<1> QED BY <1>1, <1>2, <1>3

\* The provers know nothing of ^; the library says how many subsets a set has.
LEMMA PowerPositive ==
  ASSUME NEW n \in Nat
  PROVE  2 ^ n \in Nat \ {0}
<1>1. IsFiniteSet(1 .. n) /\ Cardinality(1 .. n) = n
  BY FS_Interval
<1>2. Cardinality(SUBSET (1 .. n)) = 2 ^ n /\ IsFiniteSet(SUBSET (1 .. n))
  BY <1>1, FS_SUBSET
<1>3. SUBSET (1 .. n) # {}
  OBVIOUS
<1> HIDE DEF IsFiniteSet
<1>4. Cardinality(SUBSET (1 .. n)) \in Nat /\ Cardinality(SUBSET (1 .. n)) # 0
  BY <1>2, <1>3, FS_CardinalityType, FS_EmptySet
<1> QED BY <1>2, <1>4

\* A power of two is twice the one before: half of the subsets have the last
\* number.
LEMMA PowerDoubles ==
  ASSUME NEW n \in Nat
  PROVE  2 ^ (n + 1) = 2 * 2 ^ n
<1> DEFINE A == SUBSET (1 .. n)
           B == {a \cup {n + 1} : a \in A}
<1>1. /\ IsFiniteSet(1 .. n) /\ Cardinality(1 .. n) = n
      /\ IsFiniteSet(1 .. n + 1) /\ Cardinality(1 .. n + 1) = n + 1
  BY FS_Interval
<1>2. /\ Cardinality(A) = 2 ^ n /\ IsFiniteSet(A)
      /\ Cardinality(SUBSET (1 .. n + 1)) = 2 ^ (n + 1)
  BY <1>1, FS_SUBSET
<1>3. SUBSET (1 .. n + 1) = A \cup B
  <2>1. ASSUME NEW s \in SUBSET (1 .. n + 1) PROVE s \in A \cup B
    <3>1. CASE n + 1 \notin s
      <4>1. s \in A
        BY <3>1
      <4> QED BY <4>1
    <3>2. CASE n + 1 \in s
      <4>1. s \ {n + 1} \in A /\ s = (s \ {n + 1}) \cup {n + 1}
        BY <3>2
      <4> QED BY <4>1
    <3> QED BY <3>1, <3>2
  <2>2. ASSUME NEW a \in A
        PROVE  a \in SUBSET (1 .. n + 1) /\ a \cup {n + 1} \in SUBSET (1 .. n + 1)
    <3>1. 1 .. n \subseteq 1 .. n + 1 /\ n + 1 \in 1 .. n + 1
      OBVIOUS
    <3> QED BY <3>1
  <2> HIDE DEF A
  <2>3. A \subseteq SUBSET (1 .. n + 1) /\ B \subseteq SUBSET (1 .. n + 1)
    BY <2>2
  <2> HIDE DEF B
  <2> QED BY <2>1, <2>3
<1>4. A \cap B = {}
  <2>1. \A a \in A : n + 1 \notin a
    OBVIOUS
  <2> QED BY <2>1
<1>5. IsFiniteSet(B) /\ Cardinality(B) = Cardinality(A)
  <2> DEFINE f == [a \in A |-> a \cup {n + 1}]
  <2>1. f \in Bijection(A, B)
    <3>1. \A a, b \in A : f[a] = f[b] => a = b
      <4> SUFFICES ASSUME NEW a \in A, NEW b \in A, f[a] = f[b] PROVE a = b
        OBVIOUS
      <4>1. n + 1 \notin a /\ n + 1 \notin b
        OBVIOUS
      <4> QED BY <4>1
    <3>2. f \in [A -> B] /\ \A b \in B : \E a \in A : f[a] = b
      OBVIOUS
    <3> HIDE DEF f, A, B
    <3> QED BY <3>1, <3>2 
           DEF Bijection, Injection, IsInjective, Surjection
  <2>2. ExistsBijection(A, B)
    BY <2>1 DEF ExistsBijection
  <2> QED BY <2>2, <1>2, FS_Bijection
<1>6. PICK p \in Nat : p = 2 ^ n
  BY PowerPositive
<1>7. Cardinality(A) = p /\ Cardinality(B) = p
  BY <1>2, <1>5, <1>6
<1>8. Cardinality(A \cup B) = 2 ^ (n + 1)
  BY <1>2, <1>3
<1> HIDE DEF A, B
<1>9. Cardinality(A \cup B)
        = Cardinality(A) + Cardinality(B) - Cardinality(A \cap B)
  BY <1>2, <1>5, FS_Union
<1>10. Cardinality(A \cap B) = 0
  BY <1>4, FS_EmptySet
<1>11. Cardinality(A \cup B) = p + p - 0
  BY <1>7, <1>9, <1>10
<1>12. 2 ^ (n + 1) = p + p
  BY <1>8, <1>11
<1> QED BY <1>6, <1>12

LEMMA PowerZero == 2 ^ 0 = 1
<1>1. IsFiniteSet({}) /\ Cardinality({}) = 0
  BY FS_EmptySet
<1>2. Cardinality(SUBSET {}) = 2 ^ 0
  BY <1>1, FS_SUBSET
<1>3. SUBSET {} = {{}}
  OBVIOUS
<1>4. Cardinality({{}}) = 1
  BY FS_Singleton
<1> QED BY <1>2, <1>3, <1>4

-----------------------------------------------------------------------------
(* Decimal: a number and its digits *)

\* The absolute value.
Magnitude(v) == IF v < 0 THEN -v ELSE v

Values == -(2 ^ (Bits - 1)) .. 2 ^ Bits - 1

\* The powers of two that bound an int, and the radix.
LEMMA IntRange ==
  /\ 2 ^ Bits = 2 * 2 ^ (Bits - 1) /\ 2 ^ (Bits - 1) \in Nat \ {0}
  /\ 2 ^ Bits \in Nat \ {0}
  /\ Bits \in Nat \ {0} /\ Radix \in Nat \ {0, 1}
  /\ Radix <= 2 ^ (Bits - 1)
<1>1. PICK n \in Nat : Bits = n + 1 /\ n = Bits - 1
  <2>1. Bits - 1 \in Nat /\ Bits = (Bits - 1) + 1
    BY DecimalAssumption
  <2> QED BY <2>1
<1> QED BY <1>1, PowerDoubles, PowerPositive, DecimalAssumption

\* C++ divides the absolute value, and the digit is its remainder: for the
\* smallest int too, none of whose digits is as small.
LEMMA DigitOfMagnitude ==
  ASSUME NEW v \in Int
  PROVE  /\ Quotient(v, Radix) \in Int
         /\ Magnitude(v) \in Nat /\ Magnitude(Quotient(v, Radix)) \in Nat
         /\ Magnitude(Quotient(v, Radix)) = Magnitude(v) \div Radix
         /\ Digit(v) = Magnitude(v) % Radix
<1>1. PICK R \in Nat \ {0, 1} : R = Radix
  BY IntRange
<1>2. PICK half \in Nat \ {0} : half = 2 ^ (Bits - 1) /\ R <= half
  BY <1>1, IntRange
<1>3. PICK a \in Nat : a = Magnitude(v)
  BY DEF Magnitude
<1>4. PICK q \in Nat, r \in 0 .. R - 1 :
        q = a \div R /\ r = a % R /\ a = q * R + r
  BY QuotientRemainder
<1>5. \A u \in 0 .. half - 1 : Wrapped(u) = u
  <2>1. TAKE u \in 0 .. half - 1
  <2>2. (u + half) % (2 * half) = u + half
    <3>1. u + half \in Nat /\ 2 * half \in Nat \ {0} /\ u + half < 2 * half
      OBVIOUS
    <3>2. \A n, d \in Nat : d # 0 /\ n < d => n % d = n
      BY Z3
    <3> QED BY <3>1, <3>2
  <2> QED BY <1>2, <2>2 DEF Wrapped
<1>6. R * q = a - r
  <2>1. R * q = q * R
    BY Z3
  <2> QED BY <2>1, <1>4
<1>7. CASE v >= 0
  <2>1. v = a /\ Quotient(v, Radix) = q
    BY <1>1, <1>3, <1>4, <1>7 DEF Quotient, Magnitude
  <2>2. Rest(v, Radix) = r
    BY <1>1, <1>6, <2>1 DEF Rest
  <2>3. Digit(v) = r
    BY <2>2 DEF Digit
  <2> QED BY <1>1, <1>3, <1>4, <2>1, <2>3 DEF Magnitude
<1>8. CASE v < 0
  <2>1. v = -a /\ Quotient(v, Radix) = -q
    BY <1>1, <1>3, <1>4, <1>8 DEF Quotient, Magnitude
  <2>2. R * (-q) = -(R * q)
    BY Z3
  <2>6. Rest(v, Radix) = -a - R * (-q)
    BY <1>1, <2>1 DEF Rest
  <2>3. Rest(v, Radix) = -r
    BY <1>6, <2>2, <2>6
  <2>4. r \in 0 .. half - 1 /\ -(-r) = r
    BY <1>2
  <2>5. Digit(v) = r
    BY <1>5, <2>3, <2>4 DEF Digit
  <2> QED BY <1>1, <1>3, <1>4, <2>1, <2>5 DEF Magnitude
<1> QED BY <1>7, <1>8

\* The quotients of the loop, one after another.
Quotients(f, v, k) ==
  f = [n \in 0 .. k |-> IF n = 0 THEN v ELSE Quotient(f[n - 1], Radix)]

LEMMA QuotientsExist ==
  ASSUME NEW v, NEW k \in Nat
  PROVE  \E f : Quotients(f, v, k)
<1> DEFINE Good == {j \in Nat : \E f : Quotients(f, v, j)}
<1>1. SUFFICES ASSUME k \notin Good PROVE FALSE
  OBVIOUS
<1>2. PICK j \in 0 .. k : j \notin Good /\ \A i \in 0 .. j - 1 : i \in Good
  <2> HIDE DEF Good
  <2> QED BY <1>1, FirstFailure
<1>3. CASE j = 0
  <2>1. Quotients([n \in 0 .. 0 |-> v], v, 0)
    BY DEF Quotients
  <2> QED BY <1>2, <1>3, <2>1
<1>4. CASE j > 0
  <2>1. PICK f : Quotients(f, v, j - 1)
    BY <1>2, <1>4
  <2> DEFINE g == [n \in 0 .. j |->
                     IF n = j THEN Quotient(f[j - 1], Radix) ELSE f[n]]
  <2>2. f = [n \in 0 .. j - 1 |->
               IF n = 0 THEN v ELSE Quotient(f[n - 1], Radix)]
    BY <2>1 DEF Quotients
  <2>3. \A n \in 0 .. j : g[n] = IF n = 0 THEN v ELSE Quotient(g[n - 1], Radix)
    BY <1>2, <1>4, <2>2
  <2>4. Quotients(g, v, j)
    BY <2>3 DEF Quotients
  <2> QED BY <1>2, <2>4
<1> QED BY <1>2, <1>3, <1>4

\* g is a number, divided by the radix again and again, up to 0 after m times.
Divided(g, a, m) ==
  /\ m \in 0 .. Bits
  /\ g \in [0 .. Bits -> Nat]
  /\ g[0] = a
  /\ \A n \in 1 .. Bits : g[n] = g[n - 1] \div Radix
  /\ \A n \in 0 .. Bits : g[n] # 0 <=> n < m

LEMMA QuotientShrinks ==
  ASSUME NEW a \in Nat
  PROVE  a \div Radix \in Nat /\ 2 * (a \div Radix) <= a
<1>1. PICK R \in Nat \ {0, 1} : R = Radix
  BY IntRange
<1>2. PICK q \in Nat, r \in 0 .. R - 1 : q = a \div R /\ a = q * R + r
  BY QuotientRemainder
<1>3. q * R >= q * 2
  <2>1. PICK d \in Nat : R = 2 + d
    <3>1. R - 2 \in Nat /\ R = 2 + (R - 2)
      OBVIOUS
    <3> QED BY <3>1
  <2>2. q * R = q * 2 + q * d /\ q * d \in Nat
    BY <2>1, Z3
  <2>3. q * 2 \in Nat
    OBVIOUS
  <2> QED BY <2>2, <2>3
<1> QED BY <1>1, <1>2, <1>3

\* As many divisions as an int has bits leave nothing.
LEMMA NothingLeft ==
  ASSUME NEW g \in [0 .. Bits -> Nat], g[0] < 2 ^ Bits,
         \A n \in 1 .. Bits : g[n] = g[n - 1] \div Radix
  PROVE  g[Bits] = 0
<1> DEFINE Good == {n \in Nat : g[n] < 2 ^ (Bits - n)}
<1>1. \A n \in 0 .. Bits : n \in Good
  <2>1. SUFFICES ASSUME NEW k \in 0 .. Bits, k \notin Good PROVE FALSE
    OBVIOUS
  <2>2. PICK j \in 0 .. k : j \notin Good /\ \A i \in 0 .. j - 1 : i \in Good
    <3>1. k \in Nat /\ k \in 0 .. k
      OBVIOUS
    <3> HIDE DEF Good
    <3> QED BY <2>1, <3>1, FirstFailure
  <2>3. j # 0
    <3>1. Bits - 0 = Bits
      BY IntRange
    <3> QED BY <2>2, <3>1
  <2>4. PICK p \in Nat : p = 2 ^ (Bits - j)
    <3>1. Bits - j \in Nat
      BY IntRange
    <3> QED BY <3>1, PowerPositive
  <2>5. 2 ^ (Bits - (j - 1)) = 2 * p
    <3>1. Bits - j \in Nat /\ Bits - (j - 1) = (Bits - j) + 1
      BY IntRange
    <3>2. 2 ^ ((Bits - j) + 1) = 2 * 2 ^ (Bits - j)
      BY <3>1, PowerDoubles
    <3> QED BY <2>4, <3>1, <3>2
  <2>6. j - 1 \in 0 .. j - 1 /\ j - 1 \in 0 .. Bits /\ j \in 1 .. Bits
    BY <2>3, IntRange
  <2>7. g[j - 1] < 2 * p
    BY <2>2, <2>5, <2>6
  <2>8. g[j - 1] \in Nat /\ g[j] \in Nat /\ 2 * g[j] <= g[j - 1]
    BY <2>6, QuotientShrinks
  <2>9. g[j] < p
    BY <2>4, <2>7, <2>8
  <2> QED BY <2>2, <2>4, <2>9
<1>2. Bits \in 0 .. Bits /\ Bits - Bits = 0
  BY IntRange
<1>3. g[Bits] < 1 /\ g[Bits] \in Nat
  BY <1>1, <1>2, PowerZero
<1> QED BY <1>3

\* The loop finds the digits of the absolute value, and stops after the
\* last one.
LEMMA DigitsOfMagnitude ==
  ASSUME NEW v \in Values
  PROVE  \E g, m : /\ Divided(g, Magnitude(v), m)
                   /\ Digits(v) = [i \in 1 .. m |-> g[i - 1] % Radix]
<1> DEFINE rest == CHOOSE f : f = [n \in 0 .. Bits |->
                      IF n = 0 THEN v ELSE Quotient(f[n - 1], Radix)]
           used == {n \in 0 .. Bits - 1 : rest[n] # 0}
           g == [n \in 0 .. Bits |-> Magnitude(rest[n])]
           Good == {n \in Nat : rest[n] \in Int}
<1>0. Bits \in Nat \ {0} /\ v \in Int
  BY IntRange DEF Values
<1>1. Digits(v) = [i \in 1 .. Cardinality(used) |-> Digit(rest[i - 1])]
  BY DEF Digits
<1>2. Quotients(rest, v, Bits)
  <2>1. \E f : Quotients(f, v, Bits)
    BY <1>0, QuotientsExist
  <2> QED BY <2>1 DEF Quotients
<1> HIDE DEF rest
<1>3. \A n \in 0 .. Bits :
        rest[n] = IF n = 0 THEN v ELSE Quotient(rest[n - 1], Radix)
  BY <1>2 DEF Quotients
<1>4. \A n \in 0 .. Bits : rest[n] \in Int
  <2>1. SUFFICES ASSUME NEW k \in 0 .. Bits, k \notin Good PROVE FALSE
    OBVIOUS
  <2>2. PICK j \in 0 .. k : j \notin Good /\ \A i \in 0 .. j - 1 : i \in Good
    <3>1. k \in Nat /\ k \in 0 .. k
      OBVIOUS
    <3> HIDE DEF Good
    <3> QED BY <2>1, <3>1, FirstFailure
  <2>3. j # 0 /\ j \in Nat
    BY <1>0, <1>3, <2>2
  <2>4. rest[j - 1] \in Int
    BY <2>2, <2>3
  <2>5. rest[j] \in Int
    BY <1>0, <1>3, <2>3, <2>4, DigitOfMagnitude
  <2> QED BY <2>2, <2>3, <2>5
<1>5. /\ g \in [0 .. Bits -> Nat]
      /\ g[0] = Magnitude(v)
      /\ \A n \in 1 .. Bits : g[n] = g[n - 1] \div Radix
  <2>1. \A n \in 0 .. Bits : Magnitude(rest[n]) \in Nat
    BY <1>4, DigitOfMagnitude
  <2>2. g[0] = Magnitude(v)
    BY <1>0, <1>3
  <2>3. ASSUME NEW n \in 1 .. Bits PROVE g[n] = g[n - 1] \div Radix
    <3>1. n \in 0 .. Bits /\ n - 1 \in 0 .. Bits /\ n # 0
      BY <1>0
    <3>2. rest[n] = Quotient(rest[n - 1], Radix)
      BY <1>3, <3>1
    <3>3. Magnitude(rest[n]) = Magnitude(rest[n - 1]) \div Radix
      BY <1>4, <3>1, <3>2, DigitOfMagnitude
    <3> QED BY <3>1, <3>3
  <2> QED BY <2>1, <2>2, <2>3
<1>6. \A n \in 0 .. Bits : g[n] # 0 <=> rest[n] # 0
  BY <1>4 DEF Magnitude
<1>7. \A n \in 0 .. Bits : Digit(rest[n]) = g[n] % Radix
  BY <1>4, DigitOfMagnitude
<1>8. g[0] < 2 ^ Bits
  <2>1. PICK half \in Nat \ {0} : half = 2 ^ (Bits - 1) /\ 2 ^ Bits = 2 * half
    BY IntRange
  <2> QED BY <1>0, <1>5, <2>1 DEF Values, Magnitude
<1> HIDE DEF g
<1>9. g[Bits] = 0
  BY <1>5, <1>8, NothingLeft
<1>10. PICK m \in 0 .. Bits : g[m] = 0 /\ \A n \in 0 .. m - 1 : g[n] # 0
  <2> DEFINE Some == {n \in Nat : g[n] # 0}
  <2>1. Bits \notin Some /\ Bits \in 0 .. Bits
    BY <1>0, <1>9
  <2>2. PICK m \in 0 .. Bits : m \notin Some /\ \A n \in 0 .. m - 1 : n \in Some
    <3> HIDE DEF Some
    <3> QED BY <1>0, <2>1, FirstFailure
  <2> QED BY <2>2
<1>11. \A n \in m .. Bits : g[n] = 0
  <2> DEFINE Zero == {n \in Nat : n < m \/ g[n] = 0}
  <2>1. SUFFICES ASSUME NEW k \in m .. Bits, k \notin Zero PROVE FALSE
    OBVIOUS
  <2>2. PICK j \in 0 .. k : j \notin Zero /\ \A i \in 0 .. j - 1 : i \in Zero
    <3>1. k \in Nat /\ k \in 0 .. k
      OBVIOUS
    <3> HIDE DEF Zero
    <3> QED BY <2>1, <3>1, FirstFailure
  <2>3. j > m /\ j \in 1 .. Bits
    <3>1. j \in Nat /\ j <= Bits /\ ~ (j < m) /\ g[j] # 0
      BY <1>0, <2>2
    <3>2. j # m
      BY <1>10, <3>1
    <3> QED BY <1>0, <3>1, <3>2
  <2>4. g[j - 1] = 0
    BY <2>2, <2>3
  <2>5. 0 \div Radix = 0
    BY QuotientShrinks
  <2> QED BY <1>5, <2>2, <2>3, <2>4, <2>5
<1>12. Divided(g, Magnitude(v), m)
  BY <1>5, <1>10, <1>11 DEF Divided
<1>13. used = 0 .. m - 1
  BY <1>0, <1>6, <1>10, <1>11
<1>14. Cardinality(used) = m
  <2>1. Cardinality(0 .. m - 1) = m
    <3>1. 0 \in Int /\ m - 1 \in Int
      OBVIOUS
    <3>2. Cardinality(0 .. m - 1) = IF 0 > m - 1 THEN 0 ELSE (m - 1) - 0 + 1
      BY <3>1, FS_Interval
    <3> QED BY <3>2
  <2> QED BY <1>13, <2>1
<1>15. Digits(v) = [i \in 1 .. m |-> g[i - 1] % Radix]
  <2>1. \A i \in 1 .. m : i - 1 \in 0 .. Bits
    BY <1>0
  <2> HIDE DEF used
  <2> QED BY <1>1, <1>7, <1>14, <2>1
<1> QED BY <1>12, <1>15

\* What digits mean, by any function that adds them up.
LEMMA MeaningIs ==
  ASSUME NEW s, NEW k \in Nat, Len(s) = k, NEW h,
         h = [i \in 0 .. k |-> IF i = 0 THEN 0 ELSE Radix * h[i - 1] + s[i]]
  PROVE  Meaning(s) = h[k]
<1> DEFINE c == CHOOSE f : f = [i \in 0 .. Len(s) |->
                     IF i = 0 THEN 0 ELSE Radix * f[i - 1] + s[i]]
           Good == {j \in Nat : c[j] = h[j]}
<1>1. c = [i \in 0 .. k |-> IF i = 0 THEN 0 ELSE Radix * c[i - 1] + s[i]]
  OBVIOUS
<1>2. Meaning(s) = c[k]
  BY DEF Meaning
<1> HIDE DEF c
<1>3. SUFFICES ASSUME k \notin Good PROVE FALSE
  BY <1>2
<1>4. PICK j \in 0 .. k : j \notin Good /\ \A i \in 0 .. j - 1 : i \in Good
  <2>1. k \in 0 .. k
    OBVIOUS
  <2> HIDE DEF Good
  <2> QED BY <1>3, <2>1, FirstFailure
<1>5. /\ c[j] = IF j = 0 THEN 0 ELSE Radix * c[j - 1] + s[j]
      /\ h[j] = IF j = 0 THEN 0 ELSE Radix * h[j - 1] + s[j]
  BY <1>1
<1>6. j > 0 => c[j - 1] = h[j - 1]
  BY <1>4
<1> QED BY <1>4, <1>5, <1>6

\* The quotients and the digits of one step.
LEMMA OneDivision ==
  ASSUME NEW a \in Nat
  PROVE  /\ a % Radix \in 0 .. Radix - 1
         /\ a = Radix * (a \div Radix) + (a % Radix)
         /\ a \div Radix = 0 => a % Radix = a
<1>1. PICK R \in Nat \ {0, 1} : R = Radix
  BY IntRange
<1>2. PICK q \in Nat, r \in 0 .. R - 1 :
        q = a \div R /\ r = a % R /\ a = q * R + r
  BY QuotientRemainder
<1>3. R * q = q * R /\ (q = 0 => q * R = 0)
  BY Z3
<1> QED BY <1>1, <1>2, <1>3

\* The digits, in the order they are written.
Written(v) == Reverse(Digits(v))

LEMMA WrittenIsMagnitude ==
  ASSUME NEW v \in Values, v # 0
  PROVE  /\ Digits(v) \in Seq(0 .. Radix - 1)
         /\ Written(v) \in Seq(0 .. Radix - 1)
         /\ Len(Written(v)) > 0
         /\ Head(Written(v)) # 0
         /\ Meaning(Written(v)) = Magnitude(v)
<1>1. PICK g, m : /\ Divided(g, Magnitude(v), m)
                  /\ Digits(v) = [i \in 1 .. m |-> g[i - 1] % Radix]
  BY DigitsOfMagnitude
<1>2. /\ m \in 0 .. Bits /\ g \in [0 .. Bits -> Nat] /\ g[0] = Magnitude(v)
      /\ \A n \in 1 .. Bits : g[n] = g[n - 1] \div Radix
      /\ \A n \in 0 .. Bits : g[n] # 0 <=> n < m
      /\ Bits \in Nat \ {0} /\ v \in Int
  BY <1>1, IntRange DEF Divided, Values
<1>3. m # 0 /\ m \in Nat
  <2>1. g[0] # 0
    BY <1>2 DEF Magnitude
  <2> QED BY <1>2, <2>1
<1>4. \A i \in 0 .. Bits : g[i] \in Nat /\ g[i] % Radix \in 0 .. Radix - 1
  BY <1>2, OneDivision
<1> DEFINE d == Digits(v)
           w == Written(v)
           h == [i \in 0 .. m |-> g[m - i]]
<1>5. d \in Seq(0 .. Radix - 1) /\ Len(d) = m
  <2>1. \A i \in 1 .. m : i - 1 \in 0 .. Bits
    BY <1>2
  <2>2. \A i \in 1 .. m : g[i - 1] % Radix \in 0 .. Radix - 1
    BY <1>4, <2>1
  <2> QED BY <1>1, <1>3, <2>2
<1>6. w = [i \in 1 .. m |-> g[m - i] % Radix]
  <2>1. w = [i \in 1 .. m |-> d[(m - i) + 1]]
    BY <1>5 DEF Written, Reverse
  <2>2. \A i \in 1 .. m : (m - i) + 1 \in 1 .. m /\ ((m - i) + 1) - 1 = m - i
    BY <1>3
  <2>3. \A i \in 1 .. m : d[(m - i) + 1] = g[m - i] % Radix
    BY <1>1, <2>2
  <2> QED BY <2>1, <2>3
<1>7. \A i \in 1 .. m : m - i \in 0 .. Bits /\ (m - i) + 1 \in 1 .. Bits
  BY <1>2, <1>3
<1>8. w \in Seq(0 .. Radix - 1) /\ Len(w) = m
  <2>1. \A i \in 1 .. m : g[m - i] % Radix \in 0 .. Radix - 1
    BY <1>4, <1>7
  <2> QED BY <1>3, <1>6, <2>1
<1>9. Head(w) # 0
  <2>1. Head(w) = g[m - 1] % Radix /\ m - 1 \in 0 .. Bits /\ m \in 1 .. Bits
    BY <1>2, <1>3, <1>6
  <2>2. g[m] = 0 /\ g[m] = g[m - 1] \div Radix /\ g[m - 1] # 0
    <3>1. m \in 0 .. Bits /\ ~ (m < m) /\ m - 1 < m
      BY <1>2
    <3> QED BY <1>2, <2>1, <3>1
  <2>3. g[m - 1] % Radix = g[m - 1]
    BY <1>4, <2>1, <2>2, OneDivision
  <2> QED BY <2>1, <2>2, <2>3
<1>10. h = [i \in 0 .. m |-> IF i = 0 THEN 0 ELSE Radix * h[i - 1] + w[i]]
  <2>1. ASSUME NEW i \in 1 .. m
        PROVE  h[i] = Radix * h[i - 1] + w[i]
    <3>1. h[i] = g[m - i] /\ h[i - 1] = g[(m - i) + 1]
      <4>1. i - 1 \in 0 .. m /\ i \in 0 .. m /\ m - (i - 1) = (m - i) + 1
        BY <1>3
      <4> QED BY <4>1
    <3>2. g[(m - i) + 1] = g[m - i] \div Radix
      <4>1. ((m - i) + 1) - 1 = m - i
        BY <1>3
      <4> QED BY <1>2, <1>7, <4>1
    <3>3. w[i] = g[m - i] % Radix
      BY <1>6
    <3> QED BY <1>4, <1>7, <3>1, <3>2, <3>3, OneDivision
  <2>2. h[0] = 0
    <3>1. m - 0 = m /\ m \in 0 .. Bits /\ ~ (m < m) /\ 0 \in 0 .. m
      BY <1>2, <1>3
    <3> QED BY <1>2, <3>1
  <2>3. \A i \in 0 .. m :
          h[i] = IF i = 0 THEN 0 ELSE Radix * h[i - 1] + w[i]
    <3> HIDE DEF h, w
    <3>1. \A i \in 0 .. m : i = 0 \/ i \in 1 .. m
      OBVIOUS
    <3> QED BY <2>1, <2>2, <3>1
  <2> QED BY <2>3
<1>11. h[m] = Magnitude(v)
  <2>1. m - m = 0 /\ m \in 0 .. m
    BY <1>3
  <2> QED BY <1>2, <2>1
<1> HIDE DEF h, w, d
<1>12. Meaning(w) = Magnitude(v)
  BY <1>3, <1>8, <1>10, <1>11, MeaningIs
<1> QED BY <1>3, <1>5, <1>8, <1>9, <1>12 DEF w, d

\* The sign is put behind the digits, and comes to the front.
LEMMA SignInFront ==
  ASSUME NEW s \in Seq(Int), NEW t
  PROVE  Reverse(s \o <<t>>) = <<t>> \o Reverse(s)
<1>1. PICK n \in Nat : Len(s) = n /\ DOMAIN s = 1 .. n
  OBVIOUS
<1> DEFINE u == s \o <<t>>
<1>2. Len(u) = n + 1
  BY <1>1
<1>3. /\ \A i \in 1 .. n : u[i] = s[i]
      /\ u[n + 1] = t
  BY <1>1
<1>4. Reverse(u) = [i \in 1 .. n + 1 |-> u[((n + 1) - i) + 1]]
  BY <1>2 DEF Reverse
<1>5. Reverse(s) = [i \in 1 .. n |-> s[(n - i) + 1]]
  BY <1>1 DEF Reverse
<1>6. Reverse(s) \in Seq(Int) /\ Len(Reverse(s)) = n
  <2>1. \A i \in 1 .. n : s[(n - i) + 1] \in Int
    <3>1. \A i \in 1 .. n : (n - i) + 1 \in 1 .. n
      OBVIOUS
    <3> QED BY <1>1, <3>1
  <2> QED BY <1>5, <2>1
<1> DEFINE r == <<t>> \o Reverse(s)
<1>7. r = [i \in 1 .. n + 1 |-> IF i = 1 THEN t ELSE Reverse(s)[i - 1]]
  <2>1. Len(<<t>>) = 1 /\ <<t>>[1] = t
    OBVIOUS
  <2> HIDE DEF u
  <2> QED BY <1>6, <2>1
<1>8. \A i \in 1 .. n + 1 :
        u[((n + 1) - i) + 1] = IF i = 1 THEN t ELSE Reverse(s)[i - 1]
  <2>1. TAKE i \in 1 .. n + 1
  <2>2. CASE i = 1
    <3>1. ((n + 1) - 1) + 1 = n + 1
      OBVIOUS
    <3> QED BY <1>3, <2>2, <3>1
  <2>3. CASE i # 1
    <3>1. /\ i - 1 \in 1 .. n /\ ((n + 1) - i) + 1 \in 1 .. n
          /\ (n - (i - 1)) + 1 = ((n + 1) - i) + 1
      BY <2>3
    <3> HIDE DEF u
    <3> QED BY <1>3, <1>5, <2>3, <3>1
  <2> QED BY <2>2, <2>3
<1> HIDE DEF u, r
<1> QED BY <1>4, <1>7, <1>8 DEF u, r

\* What RoundTrip says of a value and its text.
IsTextOf(t, v) ==
  LET negative == Head(t) = Minus
      digits == IF negative THEN Tail(t) ELSE t
  IN  /\ digits # <<>>
      /\ \A i \in DOMAIN digits : digits[i] \in 0 .. Radix - 1
      /\ Head(digits) = 0 => t = <<0>>
      /\ v = IF negative THEN -Meaning(digits) ELSE Meaning(digits)

LEMMA ZeroText == IsTextOf(<<0>>, 0)
<1> DEFINE h == [i \in 0 .. 1 |-> 0]
<1>1. Head(<<0>>) # Minus /\ Len(<<0>>) = 1
  BY DEF Minus
<1>2. h = [i \in 0 .. 1 |-> IF i = 0 THEN 0 ELSE Radix * h[i - 1] + <<0>>[i]]
  <2>1. \A i \in 0 .. 1 : i # 0 => i = 1
    OBVIOUS
  <2>2. Radix * h[0] + <<0>>[1] = 0
    <3>1. h[0] = 0 /\ <<0>>[1] = 0
      OBVIOUS
    <3>2. Radix * 0 = 0
      BY IntRange
    <3> HIDE DEF h
    <3> QED BY <3>1, <3>2
  <2> QED BY <2>1, <2>2
<1>3. Meaning(<<0>>) = h[1]
  <2>1. PICK s : s = <<0>>
    OBVIOUS
  <2>2. 1 \in Nat /\ Len(s) = 1
    BY <1>1, <2>1
  <2> HIDE DEF h
  <2>3. h = [i \in 0 .. 1 |-> IF i = 0 THEN 0 ELSE Radix * h[i - 1] + s[i]]
    BY <1>2, <2>1
  <2>4. Meaning(s) = h[1]
    BY <2>2, <2>3, MeaningIs
  <2> QED BY <2>1, <2>4
<1>4. 0 \in 0 .. Radix - 1
  BY IntRange
<1>5. \A i \in DOMAIN <<0>> : <<0>>[i] = 0
  OBVIOUS
<1>6. Meaning(<<0>>) = 0
  BY <1>3
<1> HIDE DEF h
<1> QED BY <1>1, <1>4, <1>5, <1>6 DEF IsTextOf

LEMMA DigitsText ==
  ASSUME NEW v \in Values, v # 0
  PROVE  /\ v > 0 => IsTextOf(Written(v), v)
         /\ v < 0 => IsTextOf(<<Minus>> \o Written(v), v)
<1>1. PICK w \in Seq(0 .. Radix - 1) :
        /\ w = Written(v) /\ Len(w) > 0 /\ Head(w) # 0
        /\ Meaning(w) = Magnitude(v)
  BY WrittenIsMagnitude
<1>2. \A i \in DOMAIN w : w[i] \in 0 .. Radix - 1
  <2>1. \A S : \A s \in Seq(S) : \A i \in DOMAIN s : s[i] \in S
    OBVIOUS
  <2> QED BY <2>1
<1>3. v \in Int
  BY IntRange DEF Values
<1>4. ASSUME v > 0 PROVE IsTextOf(w, v)
  <2>1. Head(w) # Minus
    BY <1>1, <1>2 DEF Minus
  <2>2. v = Meaning(w)
    BY <1>1, <1>3, <1>4 DEF Magnitude
  <2> QED BY <1>1, <1>2, <2>1, <2>2 DEF IsTextOf
<1>5. ASSUME v < 0 PROVE IsTextOf(<<Minus>> \o w, v)
  <2> DEFINE t == <<Minus>> \o w
  <2>1. Head(t) = Minus /\ Tail(t) = w
    BY <1>1
  <2>2. v = -Meaning(w)
    BY <1>1, <1>3, <1>5 DEF Magnitude
  <2> HIDE DEF t
  <2>4. w # <<>>
    BY <1>1
  <2>3. IsTextOf(t, v)
    BY <1>1, <1>2, <2>1, <2>2, <2>4, Zenon DEF IsTextOf
  <2> QED BY <2>3 DEF t
<1> QED BY <1>1, <1>4, <1>5

\* The text, once it is there, is the one of the value.
DecimalInv ==
  /\ value \in Values
  /\ ~signed => value >= 0
  /\ text # Pending => IsTextOf(text, value)

\* A number becomes its own text, whatever the width of an int.
THEOREM DecimalExact == DecimalSpec => []RoundTrip
<1>1. DecimalInit => DecimalInv
  <2> SUFFICES ASSUME DecimalInit PROVE DecimalInv
    OBVIOUS
  <2>1. PICK half \in Nat \ {0} :
          half = 2 ^ (Bits - 1) /\ 2 ^ Bits = 2 * half
    BY IntRange
  <2>2. value \in Values /\ (~signed => value >= 0)
    BY <2>1 DEF DecimalInit, Values
  <2> QED BY <2>2 DEF DecimalInit, DecimalInv
<1>2. DecimalInv /\ [Convert]_decimalVars => DecimalInv'
  <2> SUFFICES ASSUME DecimalInv, [Convert]_decimalVars PROVE DecimalInv'
    OBVIOUS
  <2>1. CASE Convert
    <3>1. value' = value /\ signed' = signed
      BY <2>1 DEF Convert
    <3>2. IsTextOf(text', value)
      <4>1. CASE value = 0
        <5>1. text' = <<0>>
          BY <2>1, <4>1 DEF Convert, SignedText, UnsignedText
        <5> QED BY <4>1, <5>1, ZeroText
      <4>2. CASE value # 0
        <5>1. /\ value \in Values /\ value \in Int
              /\ Digits(value) \in Seq(0 .. Radix - 1)
          BY <4>2, WrittenIsMagnitude, IntRange DEF DecimalInv, Values
        <5>2. Digits(value) \in Seq(Int) /\ Digits(value) \o <<>> = Digits(value)
          BY <5>1, IntRange
        <5>3. CASE value > 0
          <6>2. ~ (value < 0)
            BY <5>1, <5>3
          <6>3. SignedText(value) = Written(value)
            BY <4>2, <5>2, <6>2 DEF SignedText, Written
          <6>4. UnsignedText(value) = Written(value)
            BY <4>2 DEF UnsignedText, Written
          <6>1. text' = Written(value)
            BY <2>1, <6>3, <6>4 DEF Convert
          <6> QED BY <4>2, <5>1, <5>3, <6>1, DigitsText
        <5>4. CASE value < 0
          <6>1. signed
            BY <5>4, <5>1 DEF DecimalInv
          <6>2. text' = Reverse(Digits(value) \o <<Minus>>)
            BY <2>1, <4>2, <5>4, <6>1 DEF Convert, SignedText
          <6>3. text' = <<Minus>> \o Written(value)
            BY <5>2, <6>2, SignInFront DEF Written
          <6> QED BY <4>2, <5>1, <5>4, <6>3, DigitsText
        <5> QED BY <4>2, <5>1, <5>3, <5>4
      <4> QED BY <4>1, <4>2
    <3> QED BY <3>1, <3>2 DEF DecimalInv
  <2>2. CASE UNCHANGED decimalVars
    <3>1. text' = text /\ value' = value /\ signed' = signed
      BY <2>2 DEF decimalVars
    <3> QED BY <3>1 DEF DecimalInv
  <2> QED BY <2>1, <2>2
<1>3. DecimalInv => RoundTrip
  BY DEF DecimalInv, RoundTrip, IsTextOf
<1> QED BY <1>1, <1>2, <1>3, PTL DEF DecimalSpec

-----------------------------------------------------------------------------
(* ConsoleCalls: pages, and the strings that are printed and read *)

LEMMA PageSplit ==
  ASSUME NEW a \in Nat
  PROVE  /\ PageOf(a) \in Nat /\ Offset(a) \in 0 .. PageSize - 1
         /\ a = PageOf(a) * PageSize + Offset(a)
<1>1. PICK s \in Nat \ {0} : s = PageSize
  BY ConsoleCallsAssumption
<1> QED BY <1>1, QuotientRemainder DEF PageOf, Offset

\* No other page and offset make the same address.
LEMMA PageUnique ==
  ASSUME NEW i \in Nat, NEW o \in 0 .. PageSize - 1
  PROVE  /\ i * PageSize + o \in Nat
         /\ PageOf(i * PageSize + o) = i
         /\ Offset(i * PageSize + o) = o
<1>1. PICK s \in Nat \ {0} : s = PageSize
  BY ConsoleCallsAssumption
<1>2. PICK a \in Nat : a = i * s + o
  <2>1. i * s \in Nat
    OBVIOUS
  <2> QED BY <2>1, <1>1
<1>3. PICK q \in Nat, r \in 0 .. s - 1 :
        q = PageOf(a) /\ r = Offset(a) /\ a = q * s + r
  BY <1>1, PageSplit
<1>4. q * s - i * s = o - r /\ o - r < s /\ r - o < s
  <2>1. q * s \in Nat /\ i * s \in Nat
    OBVIOUS
  <2> QED BY <2>1, <1>1, <1>2, <1>3
<1>5. CASE q > i
  <2>1. PICK e \in Nat : q = i + 1 + e
    <3>1. q - i - 1 \in Nat /\ q = i + 1 + (q - i - 1)
      BY <1>5
    <3> QED BY <3>1
  <2>2. q * s = i * s + s + e * s /\ e * s \in Nat /\ i * s \in Nat
    BY <2>1, Z3
  <2> QED BY <1>4, <2>2
<1>6. CASE q < i
  <2>1. PICK e \in Nat : i = q + 1 + e
    <3>1. i - q - 1 \in Nat /\ i = q + 1 + (i - q - 1)
      BY <1>6
    <3> QED BY <3>1
  <2>2. i * s = q * s + s + e * s /\ e * s \in Nat /\ q * s \in Nat
    BY <2>1, Z3
  <2> QED BY <1>4, <2>2
<1>7. CASE q = i
  <2>1. o = r
    BY <1>4, <1>7, Z3
  <2> QED BY <1>1, <1>2, <1>3, <1>7, <2>1
<1> QED BY <1>5, <1>6, <1>7

\* The address after others is on no earlier page.
LEMMA PagesGrow ==
  ASSUME NEW a \in Nat, NEW b \in Nat, a <= b
  PROVE  PageOf(a) <= PageOf(b)
<1>1. PICK s \in Nat \ {0} : s = PageSize
  BY ConsoleCallsAssumption
<1>2. PICK q \in Nat, r \in 0 .. s - 1 : q = PageOf(a) /\ a = q * s + r
  BY <1>1, PageSplit
<1>3. PICK t \in Nat, u \in 0 .. s - 1 : t = PageOf(b) /\ b = t * s + u
  BY <1>1, PageSplit
<1>4. SUFFICES ASSUME t < q PROVE FALSE
  BY <1>2, <1>3
<1>5. PICK e \in Nat : q = t + 1 + e
  <2>1. q - t - 1 \in Nat /\ q = t + 1 + (q - t - 1)
    BY <1>4
  <2> QED BY <2>1
<1>6. q * s = t * s + s + e * s /\ e * s \in Nat /\ t * s \in Nat
  BY <1>5, Z3
<1> QED BY <1>2, <1>3, <1>6

\* The flags of a TLB entry leave the page number alone.
LEMMA FrameInEntry ==
  ASSUME NEW f \in Nat
  PROVE  FrameIn(EntryLo(f)) = f
  BY Z3 DEF FrameIn, EntryLo

\* The addresses of n pages are those whose page is below n.
LEMMA AddressOfPage ==
  ASSUME NEW n \in Nat, NEW a \in Nat
  PROVE  a \in 0 .. n * PageSize - 1 <=> PageOf(a) \in 0 .. n - 1
<1>1. PICK s \in Nat \ {0} : s = PageSize
  BY ConsoleCallsAssumption
<1>2. PICK q \in Nat, r \in 0 .. s - 1 : q = PageOf(a) /\ a = q * s + r
  BY <1>1, PageSplit
<1>3. CASE q < n
  <2>1. PICK e \in Nat : n = q + 1 + e
    <3>1. n - q - 1 \in Nat /\ n = q + 1 + (n - q - 1)
      BY <1>3
    <3> QED BY <3>1
  <2>2. n * s = q * s + s + e * s /\ e * s \in Nat /\ q * s \in Nat
    BY <2>1, Z3
  <2>3. n * s \in Nat
    OBVIOUS
  <2> QED BY <1>1, <1>2, <1>3, <2>2, <2>3
<1>4. CASE q >= n
  <2>1. PICK e \in Nat : q = n + e
    <3>1. q - n \in Nat /\ q = n + (q - n)
      BY <1>4
    <3> QED BY <3>1
  <2>2. q * s = n * s + e * s /\ e * s \in Nat /\ n * s \in Nat
    BY <2>1, Z3
  <2> QED BY <1>1, <1>2, <1>4, <2>2
<1> QED BY <1>3, <1>4

Held == Chars \cup {Nul}

\* The page table gives each page a frame of its own.
TableOk ==
  /\ DOMAIN table \subseteq 0 .. Pages - 1
  /\ \A p \in DOMAIN table : table[p] \in 0 .. Frames - 1
  /\ \A p, q \in DOMAIN table : table[p] = table[q] => p = q

\* Where a byte of the process is.
LEMMA TranslatedIs ==
  ASSUME TableOk, NEW a \in Mapped
  PROVE  /\ a \in Nat /\ PageOf(a) \in DOMAIN table
         /\ Translated(a) = table[PageOf(a)] * PageSize + Offset(a)
         /\ Translated(a) \in Physical
         /\ PageOf(Translated(a)) = table[PageOf(a)]
         /\ Offset(Translated(a)) = Offset(a)
<1>1. a \in Nat /\ PageOf(a) \in DOMAIN table
  <2>1. \A n \in Int : \A k \in 0 .. n : k \in Nat
    OBVIOUS
  <2>2. Pages * PageSize - 1 \in Int
    BY ConsoleCallsAssumption
  <2> QED BY <2>1, <2>2 DEF Mapped, Addresses
<1>2. PICK f \in Nat : f = table[PageOf(a)] /\ f \in 0 .. Frames - 1
  BY <1>1, ConsoleCallsAssumption DEF TableOk
<1>3. Offset(a) \in 0 .. PageSize - 1
  BY <1>1, PageSplit
<1>4. Translated(a) = f * PageSize + Offset(a)
  BY <1>2, FrameInEntry DEF Translated
<1>5. /\ Translated(a) \in Nat /\ PageOf(Translated(a)) = f
      /\ Offset(Translated(a)) = Offset(a)
  BY <1>3, <1>4, PageUnique
<1>6. Translated(a) \in Physical
  BY <1>2, <1>5, AddressOfPage, ConsoleCallsAssumption DEF Physical
<1> QED BY <1>1, <1>2, <1>4, <1>5, <1>6

\* Two bytes of the process are never in one place.
LEMMA TranslatedInjective ==
  ASSUME TableOk, NEW a \in Mapped, NEW b \in Mapped,
         Translated(a) = Translated(b)
  PROVE  a = b
<1>1. PageOf(a) = PageOf(b) /\ Offset(a) = Offset(b)
  BY TranslatedIs DEF TableOk
<1>2. a \in Nat /\ b \in Nat
  BY TranslatedIs
<1> QED BY <1>1, <1>2, PageSplit

\* What the process has at a while the kernel copies: the bytes that were
\* read come to their place one after another.
Copied(a) ==
  IF pc = "copy" /\ a \in reading.to .. reading.to + reading.done - 1
    THEN reading.bytes[a - reading.to + 1] ELSE expected[a]

ReadingOk ==
  /\ reading = [to |-> reading.to, bytes |-> reading.bytes, done |-> reading.done]
  /\ reading.to \in Nat
  /\ reading.bytes \in Seq(Chars)
  /\ reading.done \in 0 .. Len(reading.bytes)

MemoryOk ==
  /\ mem \in [Physical -> Held \cup {Foreign}]
  /\ expected \in [Mapped -> Held]
  /\ tlb \subseteq DOMAIN table
  /\ pc \in {"user", "copy", "halted"}

\* What the process has, at its place.
InPlace == pc # "halted" => \A a \in Mapped : mem[Translated(a)] = Copied(a)

CallInv ==
  TableOk /\ ReadingOk /\ MemoryOk /\ InPlace /\ ForeignKept /\ PrintedIsText

LEMMA CallInitially == CallInit => CallInv
<1> SUFFICES ASSUME CallInit PROVE CallInv
  OBVIOUS
<1>1. TableOk
  <2>1. PICK S \in SUBSET (0 .. Pages - 1) : table \in Injection(S, 0 .. Frames - 1)
    BY DEF CallInit
  <2> QED BY <2>1 DEF TableOk, Injection, IsInjective
<1>2. ReadingOk
  <2>1. /\ reading = [to |-> 0, bytes |-> <<>>, done |-> 0]
        /\ reading.to = 0 /\ reading.bytes = <<>> /\ reading.done = 0
    BY DEF CallInit
  <2> QED BY <2>1 DEF ReadingOk
<1>3. MemoryOk
  BY DEF CallInit, MemoryOk, Held
<1>4. InPlace
  <2>1. ASSUME NEW a \in Mapped PROVE mem[Translated(a)] = Copied(a)
    <3>1. Translated(a) \in Physical
          /\ Translated(a) \div PageSize = table[PageOf(a)]
          /\ PageOf(a) \in DOMAIN table
      BY <1>1, TranslatedIs DEF PageOf
    <3>2. mem[Translated(a)] = Nul
      BY <3>1 DEF CallInit
    <3> QED BY <3>2 DEF CallInit, Copied
  <2> QED BY <2>1 DEF InPlace
<1>5. ForeignKept
  <2>1. ASSUME NEW f \in Physical
        PROVE  mem[f] = Foreign <=> (f \div PageSize) \notin Range(table)
    <3>1. (f \div PageSize) \in Range(table)
            <=> \E p \in DOMAIN table : table[p] = f \div PageSize
      BY DEF Range
    <3> QED BY <3>1, ConsoleCallsAssumption DEF CallInit
  <2> QED BY <2>1 DEF ForeignKept
<1>6. PrintedIsText
  BY DEF CallInit, PrintedIsText
<1> QED BY <1>1, <1>2, <1>3, <1>4, <1>5, <1>6 DEF CallInv

\* The process owns the frame of each of its bytes.
LEMMA OwnFrame ==
  ASSUME TableOk, NEW a \in Mapped
  PROVE  (Translated(a) \div PageSize) \in Range(table)
  BY TranslatedIs DEF Range, PageOf

\* A store to a byte of the process.
Stored(a, c) ==
  /\ mem' = [mem EXCEPT ![Translated(a)] = c]
  /\ table' = table

LEMMA StoreKeeps ==
  ASSUME TableOk, MemoryOk, ForeignKept, NEW a \in Mapped, NEW c \in Held,
         Stored(a, c)
  PROVE  /\ mem' \in [Physical -> Held \cup {Foreign}]
         /\ mem'[Translated(a)] = c
         /\ \A b \in Mapped : b # a => mem'[Translated(b)] = mem[Translated(b)]
         /\ ForeignKept'
<1>1. PICK t \in Physical : t = Translated(a)
  BY TranslatedIs
<1>2. mem \in [Physical -> Held \cup {Foreign}]
  BY DEF MemoryOk
<1>3. mem' = [mem EXCEPT ![t] = c] /\ table' = table
  BY <1>1 DEF Stored
<1>4. mem' \in [Physical -> Held \cup {Foreign}] /\ mem'[t] = c
      /\ \A f \in Physical : f # t => mem'[f] = mem[f]
  BY <1>2, <1>3
<1>5. \A b \in Mapped : b # a => mem'[Translated(b)] = mem[Translated(b)]
  <2>1. SUFFICES ASSUME NEW b \in Mapped, b # a
                 PROVE  mem'[Translated(b)] = mem[Translated(b)]
    OBVIOUS
  <2>2. Translated(b) # t /\ Translated(b) \in Physical
    BY <1>1, <2>1, TranslatedIs, TranslatedInjective
  <2> QED BY <1>4, <2>2
<1>6. c # Foreign /\ (t \div PageSize) \in Range(table)
  BY <1>1, OwnFrame, ConsoleCallsAssumption DEF Held
<1>7. ForeignKept'
  BY <1>3, <1>4, <1>6 DEF ForeignKept
<1> QED BY <1>1, <1>4, <1>5, <1>7

\* What does not touch the page table leaves the translations alone.
LEMMA SameTable ==
  ASSUME table' = table
  PROVE  /\ Mapped' = Mapped
         /\ \A a : Translated(a)' = Translated(a)
         /\ TableOk <=> TableOk'
  BY DEF Mapped, Translated, TableOk

LEMMA UserStoreKeeps ==
  ASSUME CallInv, NEW a \in Addresses, NEW c \in Held, UserStore(a, c)
  PROVE  CallInv'
<1>1. /\ a \in Mapped /\ Stored(a, c) /\ pc = "user"
      /\ expected' = [expected EXCEPT ![a] = c]
      /\ table' = table /\ tlb' = tlb /\ pc' = pc /\ reading' = reading
      /\ printed' = printed
  BY DEF UserStore, Stored
<1>2. /\ mem' \in [Physical -> Held \cup {Foreign}]
      /\ mem'[Translated(a)] = c
      /\ \A b \in Mapped : b # a => mem'[Translated(b)] = mem[Translated(b)]
      /\ ForeignKept'
  BY <1>1, StoreKeeps DEF CallInv
<1>3. TableOk' /\ ReadingOk' /\ PrintedIsText' /\ Mapped' = Mapped
      /\ \A b : Translated(b)' = Translated(b)
  BY <1>1, SameTable DEF CallInv, ReadingOk, PrintedIsText, Straight
<1>4. MemoryOk'
  BY <1>1, <1>2, <1>3 DEF CallInv, MemoryOk
<1>5. InPlace'
  <2>1. ASSUME NEW b \in Mapped PROVE mem'[Translated(b)] = Copied(b)'
    <3>1. Copied(b)' = expected'[b] /\ Copied(b) = expected[b]
      BY <1>1 DEF Copied
    <3>2. mem[Translated(b)] = Copied(b)
      BY <1>1 DEF CallInv, InPlace
    <3>3. expected'[b] = IF b = a THEN c ELSE expected[b]
      BY <1>1 DEF CallInv, MemoryOk
    <3> QED BY <1>2, <3>1, <3>2, <3>3
  <2> QED BY <1>3, <2>1 DEF InPlace
<1> QED BY <1>2, <1>3, <1>4, <1>5 DEF CallInv

LEMMA HaltKeeps ==
  ASSUME CallInv, Halt
  PROVE  CallInv'
<1>1. TableOk' /\ Mapped' = Mapped
  BY SameTable DEF CallInv, Halt
<1>2. ReadingOk' /\ PrintedIsText' /\ ForeignKept' /\ InPlace'
  BY DEF CallInv, Halt, ReadingOk, PrintedIsText, Straight, ForeignKept, InPlace
<1>3. MemoryOk'
  BY <1>1 DEF CallInv, Halt, MemoryOk
<1> QED BY <1>1, <1>2, <1>3 DEF CallInv

LEMMA ReadStringKeeps ==
  ASSUME CallInv, NEW a \in Addresses, NEW n \in 1 .. MaxRead,
         NEW s \in Seq(Chars), ReadString(a, n, s)
  PROVE  CallInv'
<1>1. /\ pc = "user" /\ pc' = "copy"
      /\ reading' = [to |-> a, bytes |-> s, done |-> 0]
      /\ mem' = mem /\ table' = table /\ tlb' = tlb /\ expected' = expected
      /\ printed' = printed
  BY DEF ReadString
<1>2. reading'.to = a /\ reading'.bytes = s /\ reading'.done = 0
  BY <1>1
<1>3. a \in Nat
  <2>1. Pages * PageSize - 1 \in Int
    BY ConsoleCallsAssumption
  <2>2. \A m \in Int : \A k \in 0 .. m : k \in Nat
    OBVIOUS
  <2> QED BY <2>1, <2>2 DEF Addresses
<1>4. ReadingOk'
  BY <1>1, <1>2, <1>3 DEF ReadingOk
<1>5. TableOk' /\ Mapped' = Mapped /\ \A b : Translated(b)' = Translated(b)
  BY <1>1, SameTable DEF CallInv
<1>6. PrintedIsText' /\ ForeignKept'
  BY <1>1 DEF CallInv, PrintedIsText, Straight, ForeignKept
<1>7. MemoryOk'
  BY <1>1, <1>5 DEF CallInv, MemoryOk
<1>8. InPlace'
  <2>1. ASSUME NEW b \in Mapped PROVE mem'[Translated(b)] = Copied(b)'
    <3>1. Copied(b) = expected[b] /\ mem[Translated(b)] = Copied(b)
      BY <1>1 DEF Copied, CallInv, InPlace
    <3>2. b \notin a .. a + 0 - 1
      BY <1>3
    <3>3. Copied(b)' = expected[b]
      BY <1>1, <1>2, <3>2 DEF Copied
    <3> QED BY <1>1, <3>1, <3>3
  <2> QED BY <1>5, <2>1 DEF InPlace
<1> QED BY <1>4, <1>5, <1>6, <1>7, <1>8 DEF CallInv

LEMMA MissKeeps ==
  ASSUME CallInv, Miss
  PROVE  CallInv'
<1>1. CASE Halt
  BY <1>1, HaltKeeps
<1>2. CASE /\ Destination \in Mapped /\ Fill
           /\ UNCHANGED <<mem, table, pc, reading, expected, printed>>
  <2>1. TableOk' /\ Mapped' = Mapped /\ \A b : Translated(b)' = Translated(b)
    BY <1>2, SameTable DEF CallInv
  <2>2. PrintedIsText' /\ ForeignKept' /\ ReadingOk'
    BY <1>2 DEF CallInv, PrintedIsText, Straight, ForeignKept, ReadingOk
  <2>3. tlb' \subseteq DOMAIN table
    BY <1>2 DEF CallInv, MemoryOk, Fill, Mapped
  <2>4. MemoryOk'
    BY <1>2, <2>1, <2>3 DEF CallInv, MemoryOk
  <2>5. \A b : Copied(b)' = Copied(b)
    BY <1>2 DEF Copied
  <2>6. InPlace'
    BY <1>2, <2>1, <2>5 DEF CallInv, InPlace
  <2> QED BY <2>1, <2>2, <2>4, <2>6 DEF CallInv
<1> QED BY <1>1, <1>2 DEF Miss

LEMMA CopyByteKeeps ==
  ASSUME CallInv, CopyByte
  PROVE  CallInv'
<1> DEFINE d == Destination
           c == reading.bytes[reading.done + 1]
<1>1. /\ pc = "copy" /\ pc' = "copy" /\ reading.done < Len(reading.bytes)
      /\ PageOf(d) \in tlb /\ Stored(d, c)
      /\ reading' = [reading EXCEPT !.done = @ + 1]
      /\ table' = table /\ tlb' = tlb /\ expected' = expected
      /\ printed' = printed
  BY DEF CopyByte, Stored
<1>2. PICK t \in Nat, n \in Nat :
        /\ t = reading.to /\ n = reading.done /\ d = t + n
        /\ n < Len(reading.bytes)
  BY <1>1 DEF CallInv, ReadingOk, Destination
<1>3. reading.bytes \in Seq(Chars) /\ c \in Chars
  BY <1>2 DEF CallInv, ReadingOk
<1>4. /\ reading'.to = t /\ reading'.bytes = reading.bytes
      /\ reading'.done = n + 1
      /\ reading' = [to |-> reading'.to, bytes |-> reading'.bytes,
                     done |-> reading'.done]
  <2>1. reading = [to |-> t, bytes |-> reading.bytes, done |-> n]
    BY <1>2 DEF CallInv, ReadingOk
  <2>2. reading' = [to |-> t, bytes |-> reading.bytes, done |-> n + 1]
    BY <1>1, <2>1
  <2> QED BY <2>2
<1>5. d \in Mapped
  <2>1. PageOf(d) \in 0 .. Pages - 1 /\ PageOf(d) \in DOMAIN table
    BY <1>1 DEF CallInv, MemoryOk, TableOk
  <2>2. d \in Nat
    BY <1>2
  <2>3. Pages \in Nat
    BY ConsoleCallsAssumption
  <2> HIDE DEF d
  <2>4. d \in Addresses
    BY <2>1, <2>2, <2>3, AddressOfPage DEF Addresses
  <2> QED BY <2>1, <2>4 DEF Mapped
<1> HIDE DEF d, c
<1>6. /\ mem' \in [Physical -> Held \cup {Foreign}]
      /\ mem'[Translated(d)] = c
      /\ \A b \in Mapped : b # d => mem'[Translated(b)] = mem[Translated(b)]
      /\ ForeignKept'
  <2>1. c \in Held
    BY <1>3 DEF Held
  <2> QED BY <1>1, <1>5, <2>1, StoreKeeps DEF CallInv
<1>7. TableOk' /\ Mapped' = Mapped /\ PrintedIsText'
      /\ \A b : Translated(b)' = Translated(b)
  BY <1>1, SameTable DEF CallInv, PrintedIsText, Straight
<1>8. ReadingOk'
  BY <1>2, <1>3, <1>4 DEF ReadingOk
<1>9. MemoryOk'
  BY <1>1, <1>6, <1>7 DEF CallInv, MemoryOk
<1>10. InPlace'
  <2>1. ASSUME NEW b \in Mapped PROVE mem'[Translated(b)] = Copied(b)'
    <3>0. b \in Nat
      BY TranslatedIs DEF CallInv
    <3>1. mem[Translated(b)] = Copied(b)
      BY <1>1 DEF CallInv, InPlace
    <3>2. Copied(b)' = IF b \in t .. t + (n + 1) - 1
                         THEN reading.bytes[b - t + 1] ELSE expected[b]
      BY <1>1, <1>4 DEF Copied
    <3>3. Copied(b) = IF b \in t .. t + n - 1
                        THEN reading.bytes[b - t + 1] ELSE expected[b]
      BY <1>1, <1>2 DEF Copied
    <3>4. CASE b = d
      <4>1. b - t + 1 = n + 1 /\ b \in t .. t + (n + 1) - 1
        BY <1>2, <3>4
      <4>2. c = reading.bytes[n + 1]
        BY <1>2 DEF c
      <4> QED BY <1>6, <3>2, <3>4, <4>1, <4>2
    <3>5. CASE b # d
      <4>0. t \in Nat /\ n \in Nat /\ b \in Nat /\ b # t + n
        BY <1>2, <3>0, <3>5
      <4>1. b \in t .. t + (n + 1) - 1 <=> b \in t .. t + n - 1
        BY ONLY <4>0
      <4>2. mem'[Translated(b)] = mem[Translated(b)]
        BY <1>6, <3>5
      <4>3. Copied(b)' = Copied(b)
        BY <3>2, <3>3, <4>1
      <4> QED BY <3>1, <4>2, <4>3
    <3> QED BY <3>4, <3>5
  <2> QED BY <1>7, <2>1 DEF InPlace
<1> QED BY <1>6, <1>7, <1>8, <1>9, <1>10 DEF CallInv

LEMMA ReadReturnsKeeps ==
  ASSUME CallInv, ReadReturns
  PROVE  CallInv'
<1>1. PICK t \in Nat, n \in Nat :
        t = reading.to /\ n = reading.done /\ n = Len(reading.bytes)
  BY DEF CallInv, ReadingOk, ReadReturns
<1>2. /\ pc = "copy" /\ pc' = "user"
      /\ expected' = [a \in Mapped |->
                        IF a \in t .. t + n - 1
                          THEN reading.bytes[a - t + 1] ELSE expected[a]]
      /\ mem' = mem /\ table' = table /\ tlb' = tlb /\ reading' = reading
      /\ printed' = printed
  BY <1>1 DEF ReadReturns
<1>3. TableOk' /\ Mapped' = Mapped /\ \A b : Translated(b)' = Translated(b)
  BY <1>2, SameTable DEF CallInv
<1>4. PrintedIsText' /\ ForeignKept' /\ ReadingOk'
  BY <1>2 DEF CallInv, PrintedIsText, Straight, ForeignKept, ReadingOk
<1>5. \A a \in Mapped : expected'[a] = Copied(a)
  BY <1>1, <1>2 DEF Copied
<1>6. expected' \in [Mapped -> Held]
  <2>1. ASSUME NEW a \in Mapped, a \in t .. t + n - 1
        PROVE  reading.bytes[a - t + 1] \in Held
    <3>1. a \in Nat
      BY TranslatedIs DEF CallInv
    <3>2. a - t + 1 \in 1 .. n /\ reading.bytes \in Seq(Chars)
      BY <1>1, <2>1, <3>1 DEF CallInv, ReadingOk
    <3> QED BY <1>1, <3>2 DEF Held
  <2>2. \A a \in Mapped : expected[a] \in Held
    BY DEF CallInv, MemoryOk
  <2> QED BY <1>2, <2>1, <2>2
<1>7. MemoryOk'
  BY <1>2, <1>3, <1>6 DEF CallInv, MemoryOk
<1>8. InPlace'
  <2>1. ASSUME NEW b \in Mapped PROVE mem'[Translated(b)] = Copied(b)'
    <3>1. Copied(b)' = expected'[b]
      BY <1>2 DEF Copied
    <3> QED BY <1>2, <1>5, <3>1 DEF CallInv, InPlace
  <2> QED BY <1>3, <2>1 DEF InPlace
<1> QED BY <1>3, <1>4, <1>7, <1>8 DEF CallInv

\* Where the text from n on ends.
Ends(f, n, k) ==
  /\ k \in n .. (Frames + Pages) * PageSize
  /\ k \notin DOMAIN f \/ f[k] = Nul
  /\ \A j \in n .. k - 1 : j \in DOMAIN f /\ f[j] # Nul

\* A text ends in one place only.
LEMMA TextFromIs ==
  ASSUME NEW f, NEW n \in Nat, NEW k, Ends(f, n, k)
  PROVE  TextFrom(f, n) = [i \in 1 .. k - n |-> f[n + i - 1]]
<1> DEFINE stop == CHOOSE j \in n .. (Frames + Pages) * PageSize :
                     /\ j \notin DOMAIN f \/ f[j] = Nul
                     /\ \A i \in n .. j - 1 : i \in DOMAIN f /\ f[i] # Nul
<1>1. Ends(f, n, stop)
  BY DEF Ends
<1>2. TextFrom(f, n) = [i \in 1 .. stop - n |-> f[n + i - 1]]
  BY DEF TextFrom
<1> HIDE DEF stop
<1>3. k \in Nat /\ stop \in Nat /\ n <= k /\ n <= stop
  <2>1. (Frames + Pages) * PageSize \in Int
    BY ConsoleCallsAssumption
  <2> QED BY <1>1, <2>1 DEF Ends
<1>4. ~ (stop < k)
  <2>1. SUFFICES ASSUME stop < k PROVE FALSE
    OBVIOUS
  <2>2. stop \in n .. k - 1
    BY <1>3, <2>1
  <2> QED BY <1>1, <2>2 DEF Ends
<1>5. ~ (k < stop)
  <2>1. SUFFICES ASSUME k < stop PROVE FALSE
    OBVIOUS
  <2>2. k \in n .. stop - 1
    BY <1>3, <2>1
  <2> QED BY <1>1, <2>2 DEF Ends
<1>6. stop = k
  BY <1>3, <1>4, <1>5
<1> QED BY <1>2, <1>6

\* There is no byte behind the last one.
LEMMA AddressesEnd ==
  /\ (Frames + Pages) * PageSize \in Nat
  /\ \A a \in Addresses : a \in Nat /\ a < (Frames + Pages) * PageSize
  /\ \A a \in Physical : a \in Nat /\ a < (Frames + Pages) * PageSize
<1>1. PICK f \in Nat, g \in Nat, s \in Nat \ {0} :
        f = Frames /\ g = Pages /\ s = PageSize
  BY ConsoleCallsAssumption
<1>2. (f + g) * s = f * s + g * s /\ f * s \in Nat /\ g * s \in Nat
  BY <1>1, Z3
<1>3. \A a \in 0 .. g * s - 1 : a \in Nat /\ a < f * s + g * s
  BY <1>2
<1>4. \A a \in 0 .. f * s - 1 : a \in Nat /\ a < f * s + g * s
  BY <1>2
<1> QED BY <1>1, <1>2, <1>3, <1>4 DEF Addresses, Physical

LEMMA EndExists ==
  ASSUME NEW f, DOMAIN f \subseteq Addresses, NEW n \in Addresses
  PROVE  \E k \in Nat : Ends(f, n, k)
<1> DEFINE Stops == {k \in Nat : n <= k /\ (k \notin DOMAIN f \/ f[k] = Nul)}
<1>1. PICK last \in Nat : last = (Frames + Pages) * PageSize
  BY AddressesEnd
<1>2. n \in Nat /\ n < last /\ last \notin DOMAIN f
  BY <1>1, AddressesEnd
<1>3. last \in Stops /\ Stops \subseteq Nat /\ Stops # {}
  BY <1>2
<1>4. PICK k \in Stops : \A j \in Stops : k <= j
  <2> HIDE DEF Stops
  <2> QED BY <1>3, LeastOf
<1>5. k \in n .. last
  BY <1>2, <1>3, <1>4
<1>6. \A j \in n .. k - 1 : j \in DOMAIN f /\ f[j] # Nul
  BY <1>2, <1>4
<1> QED BY <1>1, <1>4, <1>5, <1>6 DEF Ends

\* A string of the process that is straight in memory is read from there as
\* it is.
LEMMA StraightIsText ==
  ASSUME TableOk, MemoryOk, NEW a \in Mapped, IsString(a),
         \A b \in Mapped : mem[Translated(b)] = expected[b],
         Straight(a, Len(TextFrom(expected, a)))
  PROVE  TextFrom(mem, PhysAddr(a)) = TextFrom(expected, a)
<1> DEFINE t == Translated(a)
<1>1. DOMAIN expected = Mapped /\ DOMAIN mem = Physical
      /\ Mapped \subseteq Addresses
  BY DEF MemoryOk, Mapped
<1>2. a \in Nat /\ a \in Addresses /\ PhysAddr(a) = t
      /\ t \in Physical /\ t \in Nat
  BY <1>1, AddressesEnd, TranslatedIs DEF PhysAddr, Translated
<1>3. PICK k \in Nat : Ends(expected, a, k)
  BY <1>1, <1>2, EndExists
<1>4. TextFrom(expected, a) = [i \in 1 .. k - a |-> expected[a + i - 1]]
  BY <1>2, <1>3, TextFromIs
<1>5. a <= k
  BY <1>2, <1>3, AddressesEnd DEF Ends
<1>6. PICK n \in Nat : n = k - a /\ k = a + n
  BY <1>2, <1>5
<1>7. Len(TextFrom(expected, a)) = n
  BY <1>4, <1>6
<1>8. a + n \in Mapped
  BY <1>7 DEF IsString
<1> HIDE DEF t
<1>9. ASSUME NEW j \in 0 .. n
      PROVE  a + j \in Mapped /\ Translated(a + j) = t + j
  <2>1. PICK b \in Nat : b = a + j /\ a <= b /\ b <= a + n
    BY <1>2
  <2>2. PageOf(a) <= PageOf(b) /\ PageOf(b) <= PageOf(a + n)
    BY <1>2, <2>1, PagesGrow
  <2>3. PICK q \in Nat, r \in Nat, m \in Nat :
          q = PageOf(a) /\ r = PageOf(b) /\ m = PageOf(a + n)
    <3>1. a + n \in Nat
      BY <1>2
    <3>2. PageOf(a) \in Nat /\ PageOf(b) \in Nat /\ PageOf(a + n) \in Nat
      BY <1>2, <3>1, PageSplit
    <3> QED BY <3>2
  <2>4. r \in q .. m
    BY <2>2, <2>3
  <2>5. r \in DOMAIN table /\ table[r] = table[q] + r - q
    BY <1>7, <2>3, <2>4 DEF Straight
  <2>6. b \in Addresses
    <3>1. PICK e \in Int : e = Pages * PageSize - 1
      BY ConsoleCallsAssumption
    <3>2. a + n \in 0 .. e
      BY <1>1, <1>8, <3>1 DEF Addresses
    <3> QED BY <2>1, <3>1, <3>2 DEF Addresses
  <2>7. b \in Mapped
    BY <2>3, <2>5, <2>6 DEF Mapped
  <2>8. PICK s \in Nat : s = PageSize
    BY ConsoleCallsAssumption
  <2>9. PICK u \in Nat, v \in Nat : u = table[q] /\ v = table[r] /\ v = u + r - q
    <3>1. PageOf(a) \in DOMAIN table
      BY TranslatedIs
    <3>2. table[q] \in 0 .. Frames - 1 /\ table[r] \in 0 .. Frames - 1
      BY <2>3, <2>5, <3>1 DEF TableOk
    <3>3. table[q] \in Nat /\ table[r] \in Nat
      BY <3>2, ConsoleCallsAssumption
    <3> QED BY <2>5, <3>3
  <2>10. PICK o \in Nat, p \in Nat :
           /\ o = Offset(a) /\ a = q * s + o
           /\ p = Offset(b) /\ b = r * s + p
    <3>1. PICK o \in 0 .. s - 1 : o = Offset(a) /\ a = q * s + o
      BY <1>2, <2>3, <2>8, PageSplit
    <3>2. PICK p \in 0 .. s - 1 : p = Offset(b) /\ b = r * s + p
      BY <2>3, <2>8, PageSplit
    <3>3. o \in Nat /\ p \in Nat
      OBVIOUS
    <3> QED BY <3>1, <3>2, <3>3
  <2>11. t = u * s + o /\ Translated(b) = v * s + p
    BY <2>3, <2>7, <2>8, <2>9, <2>10, TranslatedIs DEF t
  <2>12. v * s = u * s + r * s - q * s
    BY <2>9, Z3
  <2>13. v * s + p = u * s + o + j
    <3>1. PICK us \in Nat, rs \in Nat, qs \in Nat, vs \in Nat :
            us = u * s /\ rs = r * s /\ qs = q * s /\ vs = v * s
      OBVIOUS
    <3>2. b = a + j /\ a = qs + o /\ b = rs + p /\ vs = us + rs - qs
      BY <2>1, <2>10, <2>12, <3>1
    <3>3. vs + p = us + o + j
      BY <3>2
    <3> QED BY <3>1, <3>3
  <2> QED BY <2>1, <2>7, <2>11, <2>13
<1>10. \A j \in 0 .. n : t + j \in Physical /\ mem[t + j] = expected[a + j]
  BY <1>9, TranslatedIs
<1>11. Ends(mem, t, t + n)
  <2>1. t + n \in Physical /\ t + n \in Nat
    BY <1>2, <1>10
  <2>2. t + n < (Frames + Pages) * PageSize
    BY <2>1, AddressesEnd
  <2>3. t + n \in t .. (Frames + Pages) * PageSize
    BY <1>2, <2>2, AddressesEnd
  <2>4. mem[t + n] = Nul
    <3>1. expected[a + n] = Nul
      BY <1>1, <1>3, <1>6, <1>8 DEF Ends
    <3> QED BY <1>10, <3>1
  <2>5. ASSUME NEW j \in t .. (t + n) - 1
        PROVE  j \in DOMAIN mem /\ mem[j] # Nul
    <3>1. PICK i \in 0 .. n : i = j - t /\ j = t + i /\ i < n
      <4>1. j - t \in 0 .. n /\ j = t + (j - t) /\ j - t < n
        BY <1>2
      <4> QED BY <4>1
    <3>2. a + i \in a .. k - 1
      BY <1>2, <1>6, <3>1
    <3>3. expected[a + i] # Nul
      BY <1>3, <3>2 DEF Ends
    <3> QED BY <1>1, <1>10, <3>1, <3>3
  <2> QED BY <2>3, <2>4, <2>5 DEF Ends
<1>12. TextFrom(mem, t) = [i \in 1 .. (t + n) - t |-> mem[t + i - 1]]
  BY <1>2, <1>11, TextFromIs
<1>13. (t + n) - t = n
  BY <1>2
<1>14. \A i \in 1 .. n : mem[t + i - 1] = expected[a + i - 1]
  <2>1. TAKE i \in 1 .. n
  <2>2. PICK j \in 0 .. n : j = i - 1
    OBVIOUS
  <2>3. t + i - 1 = t + j /\ a + i - 1 = a + j
    BY <1>2, <2>2
  <2>4. \A x \in 0 .. n : mem[t + x] = expected[a + x]
    BY ONLY <1>10, Zenon
  <2>5. mem[t + j] = expected[a + j]
    BY ONLY j \in 0 .. n, <2>4, Zenon
  <2> QED BY ONLY <2>3, <2>5
<1>15. PhysAddr(a) = t /\ n = k - a
  BY <1>2, <1>6
<1>16. TextFrom(mem, t) = [i \in 1 .. n |-> mem[t + i - 1]]
  BY ONLY <1>12, <1>13
<1>17. TextFrom(expected, a) = [i \in 1 .. n |-> expected[a + i - 1]]
  BY ONLY <1>4, <1>15
<1>18. [i \in 1 .. n |-> mem[t + i - 1]] = [i \in 1 .. n |-> expected[a + i - 1]]
  BY ONLY <1>14
<1> QED BY ONLY <1>15, <1>16, <1>17, <1>18

LEMMA PrintStringKeeps ==
  ASSUME CallInv, NEW a \in Addresses, PrintString(a)
  PROVE  CallInv'
<1>1. CASE Halt
  BY <1>1, HaltKeeps
<1>2. CASE /\ a \in Mapped
           /\ printed' = [at |-> a, has |-> TextFrom(expected, a),
                          wrote |-> TextFrom(mem, PhysAddr(a))]
           /\ UNCHANGED <<mem, table, pc, tlb, reading, expected>>
  <2>1. TableOk' /\ Mapped' = Mapped /\ \A b : Translated(b)' = Translated(b)
    BY <1>2, SameTable DEF CallInv
  <2>2. ForeignKept' /\ ReadingOk'
    BY <1>2 DEF CallInv, ForeignKept, ReadingOk
  <2>3. MemoryOk'
    BY <1>2, <2>1 DEF CallInv, MemoryOk
  <2>4. \A b : Copied(b)' = Copied(b)
    BY <1>2 DEF Copied
  <2>5. InPlace'
    BY <1>2, <2>1, <2>4 DEF CallInv, InPlace
  <2>6. /\ printed'.at = a /\ printed'.has = TextFrom(expected, a)
        /\ printed'.wrote = TextFrom(mem, PhysAddr(a))
    BY <1>2
  <2>7. \A n : Straight(a, n)' <=> Straight(a, n)
    BY <1>2 DEF Straight
  <2>8. pc = "user" /\ IsString(a)
    BY <1>2 DEF PrintString
  <2>9. \A b \in Mapped : mem[Translated(b)] = expected[b]
    BY <2>8 DEF CallInv, InPlace, Copied
  <2>10. Straight(a, Len(TextFrom(expected, a)))
           => TextFrom(mem, PhysAddr(a)) = TextFrom(expected, a)
    BY <1>2, <2>8, <2>9, StraightIsText DEF CallInv
  <2>11. PrintedIsText'
    BY <1>2, <2>6, <2>10 DEF PrintedIsText, Straight
  <2> QED BY <2>1, <2>2, <2>3, <2>5, <2>11 DEF CallInv
<1> QED BY <1>1, <1>2 DEF PrintString

\* What is printed is the text of the process if that is straight, what is
\* read is delivered, and no other process sees a change.
THEOREM ConsoleCallsHold ==
  CallSpec => [](PrintedIsText /\ ReadIsDelivered /\ ForeignKept)
<1>1. CallInv /\ [CallNext]_callVars => CallInv'
  <2> SUFFICES ASSUME CallInv, [CallNext]_callVars PROVE CallInv'
    OBVIOUS
  <2>1. ASSUME NEW a \in Addresses, PrintString(a) PROVE CallInv'
    BY <2>1, PrintStringKeeps
  <2>2. ASSUME NEW a \in Addresses, NEW c \in Chars \cup {Nul}, UserStore(a, c)
        PROVE  CallInv'
    BY <2>2, UserStoreKeeps DEF Held
  <2>3. ASSUME NEW a \in Addresses, NEW n \in 1 .. MaxRead,
               NEW s \in UNION {[1 .. k -> Chars] : k \in 1 .. n},
               ReadString(a, n, s)
        PROVE  CallInv'
    <3>1. s \in Seq(Chars)
      BY ConsoleCallsAssumption
    <3> QED BY <2>3, <3>1, ReadStringKeeps
  <2>4. CASE UNCHANGED callVars
    <3>1. /\ mem' = mem /\ table' = table /\ tlb' = tlb /\ pc' = pc
          /\ reading' = reading /\ expected' = expected /\ printed' = printed
      BY <2>4 DEF callVars
    <3>2. TableOk' /\ Mapped' = Mapped /\ \A b : Translated(b)' = Translated(b)
      BY <3>1, SameTable DEF CallInv
    <3>3. PrintedIsText' /\ ForeignKept' /\ ReadingOk'
      BY <3>1 DEF CallInv, PrintedIsText, Straight, ForeignKept, ReadingOk
    <3>4. MemoryOk'
      BY <3>1, <3>2 DEF CallInv, MemoryOk
    <3>5. \A b : Copied(b)' = Copied(b)
      BY <3>1 DEF Copied
    <3>6. InPlace'
      BY <3>1, <3>2, <3>5 DEF CallInv, InPlace
    <3> QED BY <3>2, <3>3, <3>4, <3>6 DEF CallInv
  <2>5. CASE Miss
    BY <2>5, MissKeeps
  <2>6. CASE CopyByte
    BY <2>6, CopyByteKeeps
  <2>7. CASE ReadReturns
    BY <2>7, ReadReturnsKeeps
  <2>8. ASSUME ReadsNothing(MaxRead + 1) PROVE CallInv'
    BY <2>4, <2>8 DEF ReadsNothing
  <2> QED BY <2>1, <2>2, <2>3, <2>4, <2>5, <2>6, <2>7, <2>8
          DEF CallNext, Copying
<1>2. CallInv => PrintedIsText /\ ReadIsDelivered /\ ForeignKept
  BY DEF CallInv, InPlace, Copied, ReadIsDelivered
<1> QED BY <1>1, <1>2, CallInitially, PTL DEF CallSpec

-----------------------------------------------------------------------------
(* ConsoleStream: from << to the console *)

\* The texts of s, put together one after another.
Joins(f, s, k) ==
  f = [i \in 1 .. k |-> IF i = 1 THEN s[i] ELSE f[i - 1] \o s[i]]

LEMMA JoinsStep ==
  ASSUME NEW s, NEW k \in Nat, NEW f, Joins(f, s, k), NEW i \in 1 .. k
  PROVE  f[i] = IF i = 1 THEN s[i] ELSE f[i - 1] \o s[i]
<1>1. f = [n \in 1 .. k |-> IF n = 1 THEN s[n] ELSE f[n - 1] \o s[n]]
  BY DEF Joins
<1> QED BY <1>1

\* What sequences of any elements have.
LEMMA SequenceFacts ==
  ASSUME NEW S, NEW s \in Seq(S)
  PROVE  /\ Len(s) \in Nat
         /\ \A i \in 1 .. Len(s) : s[i] \in S
         /\ Len(s) = 0 => s = <<>>
         /\ \A e : Append(s, e) = [i \in 1 .. Len(s) + 1 |->
                                     IF i <= Len(s) THEN s[i] ELSE e]
         /\ \A e : Len(Append(s, e)) = Len(s) + 1
<1>1. Len(s) \in Nat /\ (Len(s) = 0 => s = <<>>)
  OBVIOUS
<1>2. \A i \in 1 .. Len(s) : s[i] \in S
  OBVIOUS
<1>3. ASSUME NEW e
      PROVE  /\ Append(s, e) = [i \in 1 .. Len(s) + 1 |->
                                  IF i <= Len(s) THEN s[i] ELSE e]
             /\ Len(Append(s, e)) = Len(s) + 1
  <2> DEFINE a == Append(s, e)
  <2>1. PICK n \in Nat : n = Len(s)
    OBVIOUS
  <2>2. a \in Seq(S \cup {e})
    <3>1. s \in Seq(S \cup {e}) /\ e \in S \cup {e}
      OBVIOUS
    <3> QED BY <3>1
  <2>3. /\ Len(a) = n + 1 /\ a[n + 1] = e
        /\ \A i \in 1 .. n : a[i] = s[i]
    BY <2>1
  <2> HIDE DEF a
  <2>4. a = [i \in 1 .. n + 1 |-> a[i]]
    BY <2>2, <2>3
  <2>5. \A i \in 1 .. n + 1 : a[i] = IF i <= n THEN s[i] ELSE e
    <3>1. \A i \in 1 .. n + 1 : i \in 1 .. n \/ (i = n + 1 /\ ~ (i <= n))
      OBVIOUS
    <3> QED BY <2>3, <3>1
  <2> QED BY <2>1, <2>3, <2>4, <2>5 DEF a
<1> QED BY <1>1, <1>2, <1>3

\* The sequence s with e behind it, as a function.
Behind(s, e) == [i \in 1 .. Len(s) + 1 |-> IF i <= Len(s) THEN s[i] ELSE e]

LEMMA AppendIs ==
  ASSUME NEW S, NEW s \in Seq(S), NEW e
  PROVE  Append(s, e) = Behind(s, e)
<1>1. \A v : Append(s, v) = [i \in 1 .. Len(s) + 1 |->
                               IF i <= Len(s) THEN s[i] ELSE v]
  BY SequenceFacts
<1> QED BY <1>1, Zenon DEF Behind

LEMMA IsSequence ==
  ASSUME NEW S, NEW n \in Nat, NEW s, s = [i \in 1 .. n |-> s[i]],
         \A i \in 1 .. n : s[i] \in S
  PROVE  s \in Seq(S) /\ Len(s) = n
  OBVIOUS

LEMMA JoinsExist ==
  ASSUME NEW s, NEW k \in Nat
  PROVE  \E f : Joins(f, s, k)
<1> DEFINE Good == {j \in Nat : \E f : Joins(f, s, j)}
<1>1. SUFFICES ASSUME k \notin Good PROVE FALSE
  OBVIOUS
<1>2. PICK j \in 0 .. k : j \notin Good /\ \A i \in 0 .. j - 1 : i \in Good
  <2>1. k \in 0 .. k
    OBVIOUS
  <2> HIDE DEF Good
  <2> QED BY <1>1, <2>1, FirstFailure
<1>3. CASE j = 0
  <2> DEFINE f == [i \in 1 .. 0 |-> s]
  <2>1. f = [i \in 1 .. 0 |-> IF i = 1 THEN s[i] ELSE f[i - 1] \o s[i]]
    OBVIOUS
  <2> HIDE DEF f
  <2> QED BY <1>2, <1>3, <2>1 DEF Joins
<1>4. CASE j > 0
  <2>1. PICK f : Joins(f, s, j - 1)
    BY <1>2, <1>4
  <2> DEFINE g == [i \in 1 .. j |->
                     IF i < j THEN f[i]
                     ELSE IF i = 1 THEN s[i] ELSE f[i - 1] \o s[i]]
  <2>2. \A i \in 1 .. j - 1 :
          f[i] = IF i = 1 THEN s[i] ELSE f[i - 1] \o s[i]
    BY <2>1 DEF Joins
  <2>3. \A i \in 1 .. j : g[i] = IF i = 1 THEN s[i] ELSE g[i - 1] \o s[i]
    <3>1. TAKE i \in 1 .. j
    <3>2. i # 1 => i - 1 \in 1 .. j - 1 /\ g[i - 1] = f[i - 1]
      BY <1>4
    <3>3. i < j => i \in 1 .. j - 1
      BY <1>4
    <3> QED BY <2>2, <3>2, <3>3
  <2>4. Joins(g, s, j)
    BY <2>3 DEF Joins
  <2> QED BY <1>2, <2>4
<1> QED BY <1>2, <1>3, <1>4

LEMMA FlattenIs ==
  ASSUME NEW s, NEW k \in Nat \ {0}, Len(s) = k, NEW f, Joins(f, s, k)
  PROVE  FlattenSeq(s) = f[k]
<1> DEFINE c == CHOOSE g : g = [i \in 1 .. Len(s) |->
                     IF i = 1 THEN s[i] ELSE g[i - 1] \o s[i]]
           Good == {j \in Nat : j = 0 \/ c[j] = f[j]}
<1>1. Joins(c, s, k)
  <2>1. \E g : Joins(g, s, Len(s))
    BY JoinsExist
  <2>2. Joins(c, s, Len(s))
    BY ONLY <2>1 DEF Joins
  <2> HIDE DEF c
  <2> QED BY ONLY <2>2, Len(s) = k
<1>2. FlattenSeq(s) = c[k]
  BY DEF FlattenSeq
<1> HIDE DEF c
<1>3. SUFFICES ASSUME k \notin Good PROVE FALSE
  BY <1>2
<1>4. PICK j \in 0 .. k : j \notin Good /\ \A i \in 0 .. j - 1 : i \in Good
  <2>1. k \in 0 .. k
    OBVIOUS
  <2> HIDE DEF Good
  <2> QED BY <1>3, <2>1, FirstFailure
<1>5. j # 0 /\ c[j] # f[j]
  BY <1>4
<1>6. /\ c[j] = IF j = 1 THEN s[j] ELSE c[j - 1] \o s[j]
      /\ f[j] = IF j = 1 THEN s[j] ELSE f[j - 1] \o s[j]
  <2>1. j \in 1 .. k
    BY <1>4, <1>5
  <2> QED BY <1>1, <2>1, JoinsStep
<1>7. j # 1 => c[j - 1] = f[j - 1]
  BY <1>4, <1>5
<1> QED BY <1>5, <1>6, <1>7

Chunks == Seq(Seq(Letters))

LEMMA FlattenEmpty ==
  ASSUME NEW s, Len(s) = 0
  PROVE  FlattenSeq(s) = s
  BY DEF FlattenSeq

\* Texts that are put together are a text.
LEMMA FlattenType ==
  ASSUME NEW s \in Chunks
  PROVE  FlattenSeq(s) \in Seq(Letters)
<1>1. PICK k \in Nat : k = Len(s)
  BY SequenceFacts DEF Chunks
<1>2. CASE k = 0
  <2>1. s = <<>>
    BY <1>1, <1>2, SequenceFacts DEF Chunks
  <2>2. Len(s) = 0
    BY <1>1, <1>2
  <2>3. FlattenSeq(s) = s
    BY <2>2, FlattenEmpty
  <2>4. <<>> \in Seq(Letters)
    OBVIOUS
  <2> QED BY <2>1, <2>3, <2>4
<1>3. CASE k # 0
  <2>1. PICK f : Joins(f, s, k)
    BY JoinsExist
  <2>2. FlattenSeq(s) = f[k]
    BY <1>1, <1>3, <2>1, FlattenIs
  <2> DEFINE Good == {j \in Nat : j = 0 \/ f[j] \in Seq(Letters)}
  <2>3. SUFFICES ASSUME k \notin Good PROVE FALSE
    BY <1>3, <2>2
  <2>4. PICK j \in 0 .. k : j \notin Good /\ \A i \in 0 .. j - 1 : i \in Good
    <3>1. k \in 0 .. k
      OBVIOUS
    <3> HIDE DEF Good
    <3> QED BY <2>3, <3>1, FirstFailure
  <2>5. j # 0 /\ j \in 1 .. k /\ f[j] \notin Seq(Letters)
    BY <2>4
  <2>6. f[j] = IF j = 1 THEN s[j] ELSE f[j - 1] \o s[j]
    BY <2>1, <2>5, JoinsStep
  <2>7. s[j] \in Seq(Letters)
    BY <1>1, <2>5, SequenceFacts DEF Chunks
  <2>8. j # 1 => f[j - 1] \in Seq(Letters)
    BY <2>4, <2>5
  <2>9. f[j] \in Seq(Letters)
    BY <2>6, <2>7, <2>8
  <2> QED BY <2>5, <2>9
<1> QED BY <1>2, <1>3

\* One text more comes behind the others.
LEMMA FlattenAppend ==
  ASSUME NEW s \in Chunks, NEW t \in Seq(Letters)
  PROVE  FlattenSeq(Append(s, t)) = FlattenSeq(s) \o t
<1>1. PICK k \in Nat : k = Len(s)
  BY SequenceFacts DEF Chunks
<1> DEFINE u == Append(s, t)
<1>2. /\ Len(u) = k + 1 /\ u[k + 1] = t
      /\ \A i \in 1 .. k : u[i] = s[i]
  BY <1>1, SequenceFacts DEF Chunks
<1> HIDE DEF u
<1>3. PICK f : Joins(f, u, k + 1)
  BY ONLY k + 1 \in Nat, JoinsExist
<1>4. FlattenSeq(u) = f[k + 1]
  <2>1. k + 1 \in Nat \ {0}
    OBVIOUS
  <2> QED BY <1>2, <1>3, <2>1, FlattenIs
<1>5. f[k + 1] = IF k + 1 = 1 THEN u[k + 1] ELSE f[(k + 1) - 1] \o u[k + 1]
  <2>1. PICK m \in Nat : m = k + 1 /\ m \in 1 .. m
    <3>1. k + 1 \in Nat /\ k + 1 \in 1 .. k + 1
      OBVIOUS
    <3> QED BY <3>1
  <2>2. Joins(f, u, m)
    BY <1>3, <2>1
  <2>3. f = [i \in 1 .. m |-> IF i = 1 THEN u[i] ELSE f[i - 1] \o u[i]]
    BY <2>2 DEF Joins
  <2>4. f[m] = IF m = 1 THEN u[m] ELSE f[m - 1] \o u[m]
    BY <2>1, <2>3
  <2> QED BY <2>1, <2>4
<1>6. CASE k = 0
  <2>1. FlattenSeq(s) = <<>>
    <3>1. s = <<>>
      BY <1>1, <1>6, SequenceFacts DEF Chunks
    <3> QED BY <1>1, <1>6, <3>1, FlattenEmpty
  <2>2. <<>> \o t = t
    OBVIOUS
  <2> QED BY <1>2, <1>4, <1>5, <1>6, <2>1, <2>2 DEF u
<1>7. CASE k # 0
  <2> DEFINE g == [i \in 1 .. k |-> f[i]]
  <2>1. ASSUME NEW i \in 1 .. k
        PROVE  f[i] = IF i = 1 THEN s[i] ELSE f[i - 1] \o s[i]
    <3>1. k + 1 \in Nat /\ i \in 1 .. k + 1
      OBVIOUS
    <3>2. f[i] = IF i = 1 THEN u[i] ELSE f[i - 1] \o u[i]
      BY <1>3, <3>1, JoinsStep
    <3> QED BY <1>2, <3>2
  <2>2. \A i \in 1 .. k : i = 1 \/ g[i - 1] = f[i - 1]
    OBVIOUS
  <2>3. g = [i \in 1 .. k |-> IF i = 1 THEN s[i] ELSE g[i - 1] \o s[i]]
    BY <2>1, <2>2
  <2>4. g[k] = f[k]
    BY <1>7
  <2> HIDE DEF g
  <2>5. FlattenSeq(s) = g[k]
    <3>1. Joins(g, s, k)
      BY <2>3 DEF Joins
    <3> QED BY <1>1, <1>7, <3>1, FlattenIs
  <2>6. (k + 1) - 1 = k /\ k + 1 # 1
    BY <1>7
  <2> QED BY <1>2, <1>4, <1>5, <2>4, <2>5, <2>6 DEF u
<1> QED BY <1>6, <1>7

Writings == [by : Processes, text : Seq(Letters)]

\* What process q has printed since there were from texts on the console.
PrintedOf(con, from, q) ==
  FlattenSeq([i \in 1 .. Len(con) - from |->
                IF con[from + i].by = q THEN con[from + i].text ELSE <<>>])

LEMMA PrintedType ==
  ASSUME NEW con \in Seq(Writings), NEW from \in 0 .. Len(con), NEW q
  PROVE  PrintedOf(con, from, q) \in Seq(Letters)
<1>1. PICK n \in Nat : n = Len(con) - from
  OBVIOUS
<1>2. \A i \in 1 .. n : from + i \in 1 .. Len(con)
  BY <1>1
<1>3. \A i \in 1 .. n : con[from + i].text \in Seq(Letters)
  <2>1. \A i \in 1 .. n : con[from + i] \in Writings
    BY <1>2, SequenceFacts
  <2> QED BY <2>1 DEF Writings
<1>4. <<>> \in Seq(Letters)
  OBVIOUS
<1> DEFINE s == [i \in 1 .. n |->
                  IF con[from + i].by = q THEN con[from + i].text ELSE <<>>]
<1>5. s \in Chunks
  <2>1. s = [i \in 1 .. n |-> s[i]] /\ \A i \in 1 .. n : s[i] \in Seq(Letters)
    BY <1>3, <1>4
  <2> HIDE DEF s
  <2> QED BY <2>1, IsSequence DEF Chunks
<1> HIDE DEF s
<1>6. FlattenSeq(s) \in Seq(Letters)
  BY <1>5, FlattenType
<1> QED BY <1>1, <1>6 DEF PrintedOf, s

LEMMA PrintedNothing ==
  ASSUME NEW con \in Seq(Writings), NEW q
  PROVE  PrintedOf(con, Len(con), q) = <<>>
<1> DEFINE s == [i \in 1 .. Len(con) - Len(con) |->
                  IF con[Len(con) + i].by = q THEN con[Len(con) + i].text
                                              ELSE <<>>]
<1>1. s = <<>> /\ Len(s) = 0
  OBVIOUS
<1> HIDE DEF s
<1> QED BY <1>1, FlattenEmpty DEF PrintedOf, s

LEMMA PrintedAppend ==
  ASSUME NEW con \in Seq(Writings), NEW from \in 0 .. Len(con), NEW q,
         NEW e \in Writings
  PROVE  PrintedOf(Append(con, e), from, q)
           = PrintedOf(con, from, q) \o (IF e.by = q THEN e.text ELSE <<>>)
<1>1. PICK m \in Nat, n \in Nat : n = Len(con) - from /\ m = Len(con)
                                  /\ from + n = m /\ from \in Nat
  OBVIOUS
<1> DEFINE c == Append(con, e)
           s == [i \in 1 .. n |->
                  IF con[from + i].by = q THEN con[from + i].text ELSE <<>>]
           t == [i \in 1 .. n + 1 |->
                  IF c[from + i].by = q THEN c[from + i].text ELSE <<>>]
           u == IF e.by = q THEN e.text ELSE <<>>
<1>2. /\ Len(c) = m + 1 /\ c[m + 1] = e
      /\ \A i \in 1 .. m : c[i] = con[i]
  BY <1>1
<1>3. \A i \in 1 .. n : con[from + i].text \in Seq(Letters)
  <2>1. \A i \in 1 .. n : from + i \in 1 .. Len(con)
    BY <1>1
  <2>2. \A i \in 1 .. n : con[from + i] \in Writings
    BY <2>1, SequenceFacts
  <2> QED BY <2>2 DEF Writings
<1>4. s \in Chunks /\ u \in Seq(Letters) /\ Len(s) = n
  <2>1. <<>> \in Seq(Letters) /\ e.text \in Seq(Letters)
    BY DEF Writings
  <2>2. s = [i \in 1 .. n |-> s[i]] /\ \A i \in 1 .. n : s[i] \in Seq(Letters)
    BY <1>3, <2>1
  <2>3. u \in Seq(Letters)
    BY <2>1
  <2> HIDE DEF s, u
  <2> QED BY <2>2, <2>3, IsSequence DEF Chunks
<1> HIDE DEF c
<1>5. t = Append(s, u)
  <2>1. Append(s, u) = [i \in 1 .. n + 1 |-> IF i <= n THEN s[i] ELSE u]
    <3> HIDE DEF s, u
    <3>1. s \in Seq(Seq(Letters)) /\ Len(s) = n
      BY <1>4 DEF Chunks
    <3>2. Append(s, u) = Behind(s, u)
      BY ONLY <3>1, AppendIs
    <3> QED BY ONLY <3>1, <3>2 DEF Behind
  <2>2. \A i \in 1 .. n : t[i] = s[i]
    <3>1. \A i \in 1 .. n : from + i \in 1 .. m /\ i \in 1 .. n + 1
      BY <1>1
    <3> QED BY <1>2, <3>1
  <2>3. t[n + 1] = u
    <3>1. from + (n + 1) = m + 1 /\ n + 1 \in 1 .. n + 1
      BY <1>1
    <3> QED BY <1>2, <3>1
  <2>4. \A i \in 1 .. n + 1 : t[i] = IF i <= n THEN s[i] ELSE u
    <3>1. \A i \in 1 .. n + 1 : i \in 1 .. n \/ (i = n + 1 /\ ~ (i <= n))
      OBVIOUS
    <3> HIDE DEF t, s, u
    <3> QED BY <2>2, <2>3, <3>1
  <2>5. t = [i \in 1 .. n + 1 |-> t[i]]
    OBVIOUS
  <2> HIDE DEF t, s, u
  <2> QED BY <2>1, <2>4, <2>5
<1>6. PrintedOf(con, from, q) = FlattenSeq(s)
  BY <1>1 DEF PrintedOf
<1>7. PrintedOf(c, from, q) = FlattenSeq(t)
  <2>1. Len(c) - from = n + 1
    BY <1>1, <1>2
  <2> QED BY <2>1 DEF PrintedOf
<1> HIDE DEF s, t, u
<1>8. FlattenSeq(t) = FlattenSeq(s) \o u
  BY <1>4, <1>5, FlattenAppend
<1> QED BY <1>6, <1>7, <1>8 DEF c, u

\* What is left to stream: characters, and then a flush or not.
Streams(s) == \E t \in Seq(Letters) : s = t \/ s = t \o <<Flush>>

LEMMA LettersOnly ==
  ASSUME NEW s \in Seq(Letters)
  PROVE  /\ Unstreamed(s) = s /\ Unstreamed(s \o <<Flush>>) = s
         /\ Streams(s) /\ Streams(s \o <<Flush>>)
         /\ s \o <<>> = s
<1>1. PICK n \in Nat : n = Len(s)
  OBVIOUS
<1>2. Unstreamed(s) = s
  <2>1. ASSUME s # <<>> PROVE Last(s) # Flush
    <3>1. s[Len(s)] \in Letters
      BY <2>1
    <3> QED BY <3>1, ConsoleAssumption DEF Last
  <2> QED BY <2>1 DEF Unstreamed
<1> DEFINE u == s \o <<Flush>>
<1>3. /\ Len(u) = n + 1 /\ u[n + 1] = Flush
      /\ \A i \in 1 .. n : u[i] = s[i]
  BY <1>1
<1>4. u # <<>>
  BY <1>1, <1>3
<1>5. Last(u) = Flush
  BY <1>3 DEF Last
<1>6. Front(u) = s
  <2>1. Front(u) = [i \in 1 .. n |-> u[i]]
    <3>1. SubSeq(u, 1, n) = [i \in 1 .. n |-> u[i]]
      <4>1. u \in Seq(Letters \cup {Flush})
        OBVIOUS
      <4> HIDE DEF u
      <4>2. 1 \in 1 .. (n + 1) /\ n \in 0 .. (n + 1)
        OBVIOUS
      <4> QED BY <1>3, <4>1, <4>2
    <3>2. (n + 1) - 1 = n
      OBVIOUS
    <3> HIDE DEF u
    <3> QED BY <1>3, <3>1, <3>2 DEF Front
  <2>2. s = [i \in 1 .. n |-> s[i]]
    BY <1>1
  <2> HIDE DEF u
  <2> QED BY <1>3, <2>1, <2>2
<1> HIDE DEF u
<1>7. Unstreamed(u) = s
  BY <1>4, <1>5, <1>6 DEF Unstreamed
<1> QED BY <1>2, <1>7 DEF Streams, u

\* A character is the first of what is left.
LEMMA NextLetter ==
  ASSUME NEW s, Streams(s), s # <<>>, Head(s) # Flush
  PROVE  /\ Head(s) \in Letters
         /\ Streams(Tail(s))
         /\ Unstreamed(s) = <<Head(s)>> \o Unstreamed(Tail(s))
         /\ Unstreamed(Tail(s)) \in Seq(Letters)
         /\ Tail(s) = <<>> => Last(s) # Flush
<1>1. PICK t \in Seq(Letters) : s = t \/ s = t \o <<Flush>>
  BY DEF Streams
<1>2. t # <<>>
  <2>1. <<>> \o <<Flush>> = <<Flush>> /\ Head(<<Flush>>) = Flush
    OBVIOUS
  <2> QED BY <1>1, <2>1
<1>3. Head(t) \in Letters /\ Tail(t) \in Seq(Letters)
      /\ t = <<Head(t)>> \o Tail(t)
  BY <1>2
<1>4. CASE s = t
  <2>1. Unstreamed(s) = t /\ Unstreamed(Tail(s)) = Tail(t) /\ Streams(Tail(s))
    BY <1>3, <1>4, LettersOnly
  <2>2. Last(s) # Flush
    <3>1. t[Len(t)] \in Letters
      BY <1>2
    <3> QED BY <1>4, <3>1, ConsoleAssumption DEF Last
  <2> QED BY <1>3, <1>4, <2>1, <2>2
<1>5. CASE s = t \o <<Flush>>
  <2>1. Head(s) = Head(t) /\ Tail(s) = Tail(t) \o <<Flush>>
    <3>1. PICK h \in Letters, r \in Seq(Letters) :
            h = Head(t) /\ r = Tail(t) /\ t = <<h>> \o r
      BY <1>3
    <3>2. s = <<h>> \o (r \o <<Flush>>)
      BY <1>5, <3>1
    <3>3. Head(s) = h /\ Tail(s) = r \o <<Flush>>
      BY <3>2
    <3> QED BY <3>1, <3>3
  <2>2. Unstreamed(s) = t /\ Unstreamed(Tail(s)) = Tail(t) /\ Streams(Tail(s))
    BY <1>3, <1>5, <2>1, LettersOnly
  <2>3. Tail(s) # <<>>
    <3>1. Len(Tail(t) \o <<Flush>>) = Len(Tail(t)) + 1
      BY <1>3
    <3>2. Len(Tail(t)) \in Nat /\ Len(<<>>) = 0
      BY <1>3
    <3> QED BY <2>1, <3>1, <3>2
  <2> QED BY <1>3, <2>1, <2>2, <2>3
<1> QED BY <1>1, <1>4, <1>5

\* A flush is the last of what is left.
LEMMA NextFlush ==
  ASSUME NEW s, Streams(s), s # <<>>, Head(s) = Flush
  PROVE  Tail(s) = <<>> /\ Unstreamed(s) = <<>>
<1>1. PICK t \in Seq(Letters) : s = t \/ s = t \o <<Flush>>
  BY DEF Streams
<1>2. t = <<>>
  <2>1. SUFFICES ASSUME t # <<>> PROVE FALSE
    OBVIOUS
  <2>2. Head(t) \in Letters /\ Tail(t) \in Seq(Letters)
        /\ t = <<Head(t)>> \o Tail(t)
    BY <2>1
  <2>3. CASE s = t
    BY <2>2, <2>3, ConsoleAssumption
  <2>4. CASE s = t \o <<Flush>>
    <3>1. PICK h \in Letters, r \in Seq(Letters) : t = <<h>> \o r
      BY <2>2
    <3>2. s = <<h>> \o (r \o <<Flush>>)
      BY <2>4, <3>1
    <3>3. Head(s) = h
      BY <3>2
    <3> QED BY <3>3, ConsoleAssumption
  <2> QED BY <1>1, <2>3, <2>4
<1>3. s = <<Flush>> /\ s = <<>> \o <<Flush>>
  BY <1>1, <1>2
<1>4. Unstreamed(s) = <<>>
  <2>1. <<>> \in Seq(Letters)
    OBVIOUS
  <2> QED BY <1>3, <2>1, LettersOnly
<1> QED BY <1>3, <1>4

\* What the program of a process has said is on the console, in its buffer,
\* or about to go there.
InOrder(p) ==
  said[p] = PrintedOf(console, begun[p], p) \o buffer[p] \o Unstreamed(todo[p])

ProcessOk(p) ==
  /\ begun[p] \in 0 .. Len(console)
  /\ said[p] \in Seq(Letters)
  /\ Streams(todo[p])
  /\ p \notin Running => todo[p] = <<>>
  /\ p \in Running => /\ buffer[p] \in Seq(Letters)
                      /\ Len(buffer[p]) <= MaxBuf
                      /\ InOrder(p)

Shaped ==
  /\ Running \subseteq Processes
  /\ buffer = [p \in Running |-> buffer[p]]
  /\ todo = [p \in Processes |-> todo[p]]
  /\ said = [p \in Processes |-> said[p]]
  /\ begun = [p \in Processes |-> begun[p]]
  /\ console \in Seq(Writings)

StreamInv == Shaped /\ \A p \in Processes : ProcessOk(p)

LEMMA StreamInitially == StreamInit => StreamInv
<1> SUFFICES ASSUME StreamInit PROVE StreamInv
  OBVIOUS
<1>1. /\ buffer = [p \in {First} |-> <<>>] /\ Running = {First}
      /\ todo = [p \in Processes |-> <<>>]
      /\ said = [p \in Processes |-> <<>>]
      /\ begun = [p \in Processes |-> 0] /\ console = <<>>
  BY DEF StreamInit, Running
<1>2. <<>> \in Seq(Letters) /\ <<>> \in Seq(Writings) /\ Len(<<>>) = 0
  OBVIOUS
<1>3. Shaped
  BY <1>1, <1>2, ConsoleAssumption DEF Shaped
<1>4. Streams(<<>>) /\ Unstreamed(<<>>) = <<>>
  BY <1>2, LettersOnly
<1>5. \A p : PrintedOf(<<>>, 0, p) = <<>>
  <2>1. \A p : PrintedOf(<<>>, Len(<<>>), p) = <<>>
    BY <1>2, PrintedNothing
  <2> QED BY <1>2, <2>1
<1>6. ASSUME NEW p \in Processes PROVE ProcessOk(p)
  <2>1. /\ begun[p] = 0 /\ said[p] = <<>> /\ todo[p] = <<>>
        /\ (p \in Running => buffer[p] = <<>>)
    BY <1>1
  <2>2. p \in Running => InOrder(p)
    BY <1>1, <1>4, <1>5, <2>1 DEF InOrder
  <2>3. 0 \in 0 .. Len(console) /\ 0 <= MaxBuf
    BY <1>1, <1>2, ConsoleAssumption
  <2> QED BY <1>2, <1>4, <2>1, <2>2, <2>3 DEF ProcessOk
<1> QED BY <1>3, <1>6 DEF StreamInv

\* A process that is not concerned: at most, another one prints.
Bystander(q) ==
  /\ todo'[q] = todo[q] /\ said'[q] = said[q] /\ begun'[q] = begun[q]
  /\ q \in Running' <=> q \in Running
  /\ q \in Running => buffer'[q] = buffer[q]

Quiet(q) ==
  \/ console' = console
  \/ \E e \in Writings : e.by # q /\ console' = Append(console, e)

LEMMA BystanderKeeps ==
  ASSUME NEW q, ProcessOk(q), console \in Seq(Writings), Bystander(q), Quiet(q)
  PROVE  ProcessOk(q)'
<1>1. Len(console') \in Nat /\ Len(console) <= Len(console')
      /\ begun[q] \in 0 .. Len(console')
  BY SequenceFacts DEF Quiet, ProcessOk
<1>2. PrintedOf(console', begun[q], q) = PrintedOf(console, begun[q], q)
  <2>1. ASSUME NEW e \in Writings, e.by # q, console' = Append(console, e)
        PROVE  PrintedOf(console', begun[q], q) = PrintedOf(console, begun[q], q)
    <3>1. PrintedOf(console', begun[q], q)
            = PrintedOf(console, begun[q], q) \o <<>>
      BY <2>1, PrintedAppend DEF ProcessOk
    <3>2. PrintedOf(console, begun[q], q) \in Seq(Letters)
      BY PrintedType DEF ProcessOk
    <3> QED BY <3>1, <3>2, LettersOnly
  <2> QED BY <2>1 DEF Quiet
<1>3. q \in Running => InOrder(q)'
  BY <1>2 DEF ProcessOk, InOrder, Bystander
<1> QED BY <1>1, <1>3 DEF ProcessOk, Bystander

LEMMA SaysKeeps ==
  ASSUME StreamInv, NEW p \in Processes, NEW s \in Seq(Letters), NEW end,
         end = <<>> \/ end = <<Flush>>, Says(p, s, end)
  PROVE  StreamInv'
<1>1. /\ p \in Running /\ todo[p] = <<>>
      /\ todo' = [todo EXCEPT ![p] = s \o end]
      /\ said' = [said EXCEPT ![p] = said[p] \o s]
      /\ buffer' = buffer /\ console' = console /\ begun' = begun
  BY DEF Says, Idle
<1>2. Shaped' /\ Running' = Running
  BY <1>1 DEF StreamInv, Shaped, Running
<1>3. todo'[p] = s \o end /\ said'[p] = said[p] \o s
  BY <1>1 DEF StreamInv, Shaped
<1>4. Streams(s \o end) /\ Unstreamed(s \o end) = s
  BY LettersOnly
<1>5. ProcessOk(p)
  BY DEF StreamInv
<1>6. PrintedOf(console, begun[p], p) \in Seq(Letters)
  BY <1>5, PrintedType DEF StreamInv, Shaped, ProcessOk
<1>7. InOrder(p)'
  <2>1. PICK a \in Seq(Letters), b \in Seq(Letters) :
          a = PrintedOf(console, begun[p], p) /\ b = buffer[p]
    BY <1>1, <1>5, <1>6 DEF ProcessOk
  <2>2. Unstreamed(<<>>) = <<>>
    <3>1. <<>> \in Seq(Letters)
      OBVIOUS
    <3> QED BY <3>1, LettersOnly
  <2>3. said[p] = a \o b \o <<>>
    BY <1>1, <1>5, <2>1, <2>2 DEF ProcessOk, InOrder
  <2>4. a \o b \o <<>> = a \o b
    BY <2>1
  <2>5. said'[p] = a \o b \o s
    BY <1>3, <2>3, <2>4
  <2> QED BY <1>1, <1>3, <1>4, <2>1, <2>5 DEF InOrder
<1>8. ProcessOk(p)'
  <2>1. said'[p] \in Seq(Letters)
    BY <1>3, <1>5 DEF ProcessOk
  <2> QED BY <1>1, <1>2, <1>3, <1>4, <1>5, <1>7, <2>1 DEF ProcessOk
<1>9. ASSUME NEW q \in Processes, q # p PROVE ProcessOk(q)'
  <2>1. Bystander(q) /\ Quiet(q)
    BY <1>1, <1>2, <1>9 DEF Bystander, Quiet, StreamInv, Shaped
  <2> QED BY <2>1, BystanderKeeps DEF StreamInv, Shaped
<1> QED BY <1>2, <1>8, <1>9 DEF StreamInv

LEMMA Associative ==
  ASSUME NEW a \in Seq(Letters), NEW b \in Seq(Letters), NEW c \in Seq(Letters)
  PROVE  /\ (a \o b) \o c = a \o (b \o c)
         /\ a \o b \in Seq(Letters)
         /\ a \o <<>> = a /\ <<>> \o a = a
  OBVIOUS

\* The buffer of p is printed, with what came before.
LEMMA PrintsBuffer ==
  ASSUME StreamInv, NEW p \in Processes, p \in Running, Prints(p, buffer[p])
  PROVE  /\ [by |-> p, text |-> buffer[p]] \in Writings
         /\ console' = Append(console, [by |-> p, text |-> buffer[p]])
         /\ console' \in Seq(Writings)
         /\ Len(console') \in Nat /\ Len(console) <= Len(console')
         /\ PrintedOf(console', begun[p], p)
              = PrintedOf(console, begun[p], p) \o buffer[p]
         /\ \A q : q # p => Quiet(q)
<1> DEFINE e == [by |-> p, text |-> buffer[p]]
<1>1. e \in Writings /\ e.by = p /\ e.text = buffer[p]
  BY DEF Writings, StreamInv, ProcessOk
<1>2. console' = Append(console, e) /\ console \in Seq(Writings)
  BY DEF Prints, StreamInv, Shaped
<1> HIDE DEF e
<1>3. console' \in Seq(Writings)
      /\ Len(console') \in Nat /\ Len(console) <= Len(console')
  BY <1>1, <1>2
<1>4. PrintedOf(console', begun[p], p)
        = PrintedOf(console, begun[p], p) \o buffer[p]
  <2>1. begun[p] \in 0 .. Len(console)
    BY DEF StreamInv, ProcessOk
  <2>2. PrintedOf(Append(console, e), begun[p], p)
          = PrintedOf(console, begun[p], p)
              \o (IF e.by = p THEN e.text ELSE <<>>)
    BY <1>1, <1>2, <2>1, PrintedAppend
  <2> QED BY <1>1, <1>2, <2>2
<1>5. \A q : q # p => Quiet(q)
  BY <1>1, <1>2 DEF Quiet
<1> QED BY <1>1, <1>2, <1>3, <1>4, <1>5 DEF e

LEMMA AppendBufKeeps ==
  ASSUME StreamInv, NEW p \in Processes, AppendBuf(p)
  PROVE  StreamInv'
<1> DEFINE c == Head(todo[p])
           r == Unstreamed(Tail(todo[p]))
<1>1. /\ p \in Running /\ todo[p] # <<>> /\ Head(todo[p]) # Flush
      /\ todo' = [todo EXCEPT ![p] = Tail(todo[p])]
      /\ said' = said /\ begun' = begun
  BY DEF AppendBuf
<1>2. ProcessOk(p)
  BY DEF StreamInv
<1>3. /\ c \in Letters /\ Streams(Tail(todo[p]))
      /\ Unstreamed(todo[p]) = <<c>> \o r /\ r \in Seq(Letters)
  BY <1>1, <1>2, NextLetter DEF ProcessOk
<1> HIDE DEF c, r
<1>4. PICK a \in Seq(Letters), b \in Seq(Letters) :
        /\ a = PrintedOf(console, begun[p], p) /\ b = buffer[p]
        /\ said[p] = a \o b \o (<<c>> \o r)
  <2>1. PrintedOf(console, begun[p], p) \in Seq(Letters)
    BY <1>2, PrintedType DEF StreamInv, Shaped, ProcessOk
  <2> QED BY <1>1, <1>2, <1>3, <2>1 DEF ProcessOk, InOrder
<1>5. todo'[p] = Tail(todo[p])
  BY <1>1 DEF StreamInv, Shaped
<1>6. CASE IsFull(p)
  <2>1. Prints(p, buffer[p]) /\ buffer' = [buffer EXCEPT ![p] = <<c>>]
    BY <1>6 DEF AppendBuf, Emptied, c
  <2>2. /\ console' \in Seq(Writings)
        /\ Len(console') \in Nat /\ Len(console) <= Len(console')
        /\ PrintedOf(console', begun[p], p) = a \o b
        /\ \A q : q # p => Quiet(q)
    BY <1>1, <1>4, <2>1, PrintsBuffer
  <2>3. /\ Running' = Running /\ buffer'[p] = <<c>>
        /\ \A q \in Running : q # p => buffer'[q] = buffer[q]
        /\ Shaped'
    BY <1>1, <2>1, <2>2 DEF StreamInv, Shaped, Running
  <2>4. <<c>> \in Seq(Letters) /\ Len(<<c>>) = 1 /\ 1 <= MaxBuf
    BY <1>3, ConsoleAssumption
  <2>5. InOrder(p)'
    <3>0. a \o b \in Seq(Letters)
      BY ONLY a \in Seq(Letters), b \in Seq(Letters), Associative
    <3>1. a \o b \o (<<c>> \o r) = (a \o b) \o <<c>> \o r
      <4>1. PICK x \in Seq(Letters), y \in Seq(Letters), z \in Seq(Letters) :
              x = a \o b /\ y = <<c>> /\ z = r
        BY ONLY <1>3, <2>4, <3>0, Zenon
      <4>2. (x \o y) \o z = x \o (y \o z)
        BY Associative
      <4> QED BY ONLY <4>1, <4>2, Zenon
    <3>2. said'[p] = a \o b \o (<<c>> \o r)
      BY <1>1, <1>4
    <3>3. PrintedOf(console', begun'[p], p) = a \o b
      BY <1>1, <2>2
    <3>4. buffer'[p] = <<c>> /\ Unstreamed(todo'[p]) = r
      BY <1>5, <2>3 DEF r
    <3>5. InOrder(p)' <=>
            said'[p] = PrintedOf(console', begun'[p], p) \o buffer'[p]
                         \o Unstreamed(todo'[p])
      BY ONLY DEF InOrder
    <3>6. PrintedOf(console', begun'[p], p) \o buffer'[p] \o Unstreamed(todo'[p])
            = (a \o b) \o <<c>> \o r
      BY ONLY <3>3, <3>4
    <3> QED BY ONLY <3>1, <3>2, <3>5, <3>6
  <2>6. ProcessOk(p)'
    BY <1>1, <1>2, <1>3, <1>5, <2>2, <2>3, <2>4, <2>5 DEF ProcessOk
  <2>7. ASSUME NEW q \in Processes, q # p PROVE ProcessOk(q)'
    <3>1. Bystander(q)
      BY <1>1, <2>3, <2>7 DEF Bystander, StreamInv, Shaped
    <3> QED BY <2>2, <2>7, <3>1, BystanderKeeps DEF StreamInv, Shaped
  <2> QED BY <2>3, <2>6, <2>7 DEF StreamInv
<1>7. CASE ~ IsFull(p)
  <2>1. console' = console /\ buffer' = [buffer EXCEPT ![p] = Append(b, c)]
    BY <1>4, <1>7 DEF AppendBuf, c
  <2>2. /\ Running' = Running /\ buffer'[p] = Append(b, c)
        /\ \A q \in Running : q # p => buffer'[q] = buffer[q]
        /\ Shaped'
    BY <1>1, <2>1 DEF StreamInv, Shaped, Running
  <2>3. Append(b, c) = b \o <<c>> /\ <<c>> \in Seq(Letters)
    BY <1>3
  <2>4. Append(b, c) \in Seq(Letters) /\ Len(Append(b, c)) = Len(b) + 1
    BY <1>3
  <2>5. Len(b) + 1 <= MaxBuf
    BY <1>1, <1>2, <1>4, <1>7, ConsoleAssumption DEF IsFull, ProcessOk
  <2>6. InOrder(p)'
    <3>0. /\ a \o b \in Seq(Letters)
          /\ (a \o b) \o <<c>> = a \o (b \o <<c>>)
      BY ONLY a \in Seq(Letters), b \in Seq(Letters), <2>3, Associative
    <3>7. a \o b \o (<<c>> \o r) = (a \o b) \o <<c>> \o r
      <4>1. PICK x \in Seq(Letters), y \in Seq(Letters), z \in Seq(Letters) :
              x = a \o b /\ y = <<c>> /\ z = r
        BY ONLY <1>3, <2>3, <3>0, Zenon
      <4>2. (x \o y) \o z = x \o (y \o z)
        BY Associative
      <4> QED BY ONLY <4>1, <4>2, Zenon
    <3>1. a \o b \o (<<c>> \o r) = a \o (b \o <<c>>) \o r
      BY ONLY <3>0, <3>7
    <3>2. said'[p] = a \o b \o (<<c>> \o r)
      BY <1>1, <1>4
    <3>3. PrintedOf(console', begun'[p], p) = a
      BY <1>1, <1>4, <2>1
    <3>4. buffer'[p] = b \o <<c>> /\ Unstreamed(todo'[p]) = r
      BY <1>5, <2>2, <2>3 DEF r
    <3>5. InOrder(p)' <=>
            said'[p] = PrintedOf(console', begun'[p], p) \o buffer'[p]
                         \o Unstreamed(todo'[p])
      BY ONLY DEF InOrder
    <3>6. PrintedOf(console', begun'[p], p) \o buffer'[p] \o Unstreamed(todo'[p])
            = a \o (b \o <<c>>) \o r
      BY ONLY <3>3, <3>4
    <3> QED BY ONLY <3>1, <3>2, <3>5, <3>6
  <2>7. ProcessOk(p)'
    BY <1>1, <1>2, <1>3, <1>5, <2>1, <2>2, <2>4, <2>5, <2>6 DEF ProcessOk
  <2>8. ASSUME NEW q \in Processes, q # p PROVE ProcessOk(q)'
    <3>1. Bystander(q) /\ Quiet(q)
      BY <1>1, <2>1, <2>2, <2>8 DEF Bystander, Quiet, StreamInv, Shaped
    <3> QED BY <3>1, BystanderKeeps DEF StreamInv, Shaped
  <2> QED BY <2>2, <2>7, <2>8 DEF StreamInv
<1> QED BY <1>6, <1>7

LEMMA FlushBufKeeps ==
  ASSUME StreamInv, NEW p \in Processes, FlushBuf(p)
  PROVE  StreamInv' /\ said[p] = PrintedOf(console', begun'[p], p)
<1>1. /\ p \in Running /\ todo[p] # <<>> /\ Head(todo[p]) = Flush
      /\ todo' = [todo EXCEPT ![p] = Tail(todo[p])]
      /\ Prints(p, buffer[p]) /\ buffer' = [buffer EXCEPT ![p] = <<>>]
      /\ said' = said /\ begun' = begun
  BY DEF FlushBuf
<1>2. ProcessOk(p)
  BY DEF StreamInv
<1>3. Tail(todo[p]) = <<>> /\ Unstreamed(todo[p]) = <<>>
  BY <1>1, <1>2, NextFlush DEF ProcessOk
<1>4. PICK a \in Seq(Letters), b \in Seq(Letters) :
        /\ a = PrintedOf(console, begun[p], p) /\ b = buffer[p]
        /\ said[p] = a \o b \o <<>>
  <2>1. PrintedOf(console, begun[p], p) \in Seq(Letters)
    BY <1>2, PrintedType DEF StreamInv, Shaped, ProcessOk
  <2> QED BY <1>1, <1>2, <1>3, <2>1 DEF ProcessOk, InOrder
<1>5. todo'[p] = <<>>
  BY <1>1, <1>3 DEF StreamInv, Shaped
<1>6. /\ console' \in Seq(Writings)
      /\ Len(console') \in Nat /\ Len(console) <= Len(console')
      /\ PrintedOf(console', begun[p], p) = a \o b
      /\ \A q : q # p => Quiet(q)
  BY <1>1, <1>4, PrintsBuffer
<1>7. /\ Running' = Running /\ buffer'[p] = <<>>
      /\ \A q \in Running : q # p => buffer'[q] = buffer[q]
      /\ Shaped'
  BY <1>1, <1>6 DEF StreamInv, Shaped, Running
<1>8. /\ <<>> \in Seq(Letters) /\ Len(<<>>) = 0 /\ 0 <= MaxBuf
      /\ Streams(<<>>) /\ Unstreamed(<<>>) = <<>>
  <2>1. <<>> \in Seq(Letters) /\ Len(<<>>) = 0
    OBVIOUS
  <2>2. Streams(<<>>) /\ Unstreamed(<<>>) = <<>>
    BY <2>1, LettersOnly
  <2>3. 0 <= MaxBuf
    BY ConsoleAssumption
  <2> QED BY <2>1, <2>2, <2>3
<1>9. a \o b \o <<>> = a \o b
  BY <1>4, Associative
<1>10. InOrder(p)'
  BY <1>1, <1>4, <1>5, <1>6, <1>7, <1>8, <1>9 DEF InOrder
<1>11. ProcessOk(p)'
  <2>1. begun'[p] \in 0 .. Len(console') /\ said'[p] \in Seq(Letters)
    BY <1>1, <1>2, <1>6 DEF ProcessOk
  <2>2. /\ buffer'[p] \in Seq(Letters) /\ Len(buffer'[p]) <= MaxBuf
        /\ Streams(todo'[p])
    BY <1>5, <1>7, <1>8
  <2> QED BY <1>5, <1>10, <2>1, <2>2 DEF ProcessOk
<1>12. ASSUME NEW q \in Processes, q # p PROVE ProcessOk(q)'
  <2>1. Bystander(q)
    BY <1>1, <1>7, <1>12 DEF Bystander, StreamInv, Shaped
  <2> QED BY <1>6, <1>12, <2>1, BystanderKeeps DEF StreamInv, Shaped
<1> QED BY <1>1, <1>4, <1>6, <1>7, <1>9, <1>11, <1>12 DEF StreamInv

LEMMA EmptyFacts ==
  /\ <<>> \in Seq(Letters) /\ Len(<<>>) = 0 /\ 0 <= MaxBuf
  /\ Streams(<<>>) /\ Unstreamed(<<>>) = <<>>
<1>1. <<>> \in Seq(Letters) /\ Len(<<>>) = 0
  OBVIOUS
<1>2. Streams(<<>>) /\ Unstreamed(<<>>) = <<>>
  BY <1>1, LettersOnly
<1>3. 0 <= MaxBuf
  BY ConsoleAssumption
<1> QED BY <1>1, <1>2, <1>3

\* A program that begins has printed nothing.
LEMMA Beginning ==
  ASSUME StreamInv, NEW p \in Processes
  PROVE  PrintedOf(console, Len(console), p) = <<>>
         /\ Len(console) \in 0 .. Len(console)
  BY PrintedNothing DEF StreamInv, Shaped

LEMMA ForkKeeps ==
  ASSUME StreamInv, NEW p \in Processes, NEW child \in Processes,
         Fork(p, child)
  PROVE  StreamInv'
<1>1. /\ p \in Running /\ child \notin Running /\ todo[p] = <<>>
      /\ buffer' = [q \in Running \cup {child} |->
                      IF q = child THEN buffer[p] ELSE buffer[q]]
      /\ said' = [said EXCEPT ![child] = buffer[p]]
      /\ begun' = [begun EXCEPT ![child] = Len(console)]
      /\ todo' = todo /\ console' = console
  BY DEF Fork, Idle
<1>2. /\ Running' = Running \cup {child} /\ buffer'[child] = buffer[p]
      /\ \A q \in Running : buffer'[q] = buffer[q]
  BY <1>1 DEF Running
<1>3. Shaped'
  BY <1>1, <1>2 DEF StreamInv, Shaped
<1>4. /\ said'[child] = buffer[p] /\ begun'[child] = Len(console)
      /\ \A q \in Processes : q # child =>
           said'[q] = said[q] /\ begun'[q] = begun[q]
  BY <1>1 DEF StreamInv, Shaped
<1>5. PICK b \in Seq(Letters) : b = buffer[p] /\ Len(b) <= MaxBuf
  BY <1>1 DEF StreamInv, ProcessOk
<1>6. todo[child] = <<>>
  BY <1>1 DEF StreamInv, ProcessOk
<1>7. PrintedOf(console, Len(console), child) = <<>>
      /\ Len(console) \in 0 .. Len(console)
  BY Beginning
<1>8. ProcessOk(child)'
  <2>1. <<>> \o b \o <<>> = b
    OBVIOUS
  <2>2. InOrder(child)'
    BY <1>1, <1>2, <1>4, <1>5, <1>6, <1>7, <2>1, EmptyFacts DEF InOrder
  <2>3. /\ begun'[child] \in 0 .. Len(console')
        /\ said'[child] \in Seq(Letters) /\ Streams(todo'[child])
    BY <1>1, <1>4, <1>5, <1>6, <1>7, EmptyFacts
  <2>4. buffer'[child] \in Seq(Letters) /\ Len(buffer'[child]) <= MaxBuf
    BY <1>2, <1>5
  <2> QED BY <1>2, <2>2, <2>3, <2>4 DEF ProcessOk
<1>9. ASSUME NEW q \in Processes, q # child PROVE ProcessOk(q)'
  <2>1. Bystander(q) /\ Quiet(q)
    BY <1>1, <1>2, <1>4, <1>9 DEF Bystander, Quiet
  <2> QED BY <2>1, BystanderKeeps DEF StreamInv, Shaped
<1> QED BY <1>3, <1>8, <1>9 DEF StreamInv

LEMMA ExecKeeps ==
  ASSUME StreamInv, NEW p \in Processes, Exec(p)
  PROVE  StreamInv'
<1>1. /\ p \in Running /\ todo[p] = <<>>
      /\ buffer' = [buffer EXCEPT ![p] = <<>>]
      /\ said' = [said EXCEPT ![p] = <<>>]
      /\ begun' = [begun EXCEPT ![p] = Len(console)]
      /\ todo' = todo /\ console' = console
  BY DEF Exec, Idle
<1>2. /\ Running' = Running /\ buffer'[p] = <<>>
      /\ \A q \in Running : q # p => buffer'[q] = buffer[q]
      /\ said'[p] = <<>> /\ begun'[p] = Len(console)
      /\ \A q \in Processes : q # p =>
           said'[q] = said[q] /\ begun'[q] = begun[q]
  BY <1>1 DEF StreamInv, Shaped, Running
<1>3. Shaped'
  BY <1>1, <1>2 DEF StreamInv, Shaped
<1>4. PrintedOf(console, Len(console), p) = <<>>
      /\ Len(console) \in 0 .. Len(console)
  BY Beginning
<1>5. ProcessOk(p)'
  <2>1. <<>> \o <<>> \o <<>> = <<>>
    OBVIOUS
  <2>2. InOrder(p)'
    BY <1>1, <1>2, <1>4, <2>1, EmptyFacts DEF InOrder
  <2>3. /\ begun'[p] \in 0 .. Len(console')
        /\ said'[p] \in Seq(Letters) /\ Streams(todo'[p])
    BY <1>1, <1>2, <1>4, EmptyFacts
  <2>4. buffer'[p] \in Seq(Letters) /\ Len(buffer'[p]) <= MaxBuf
    BY <1>2, EmptyFacts
  <2> QED BY <1>1, <1>2, <2>2, <2>3, <2>4 DEF ProcessOk
<1>6. ASSUME NEW q \in Processes, q # p PROVE ProcessOk(q)'
  <2>1. Bystander(q) /\ Quiet(q)
    BY <1>1, <1>2, <1>6 DEF Bystander, Quiet
  <2> QED BY <2>1, BystanderKeeps DEF StreamInv, Shaped
<1> QED BY <1>3, <1>5, <1>6 DEF StreamInv

LEMMA ExitKeeps ==
  ASSUME StreamInv, NEW p \in Processes, Exit(p)
  PROVE  StreamInv'
<1>1. /\ p \in Running /\ todo[p] = <<>>
      /\ buffer' = [q \in Running \ {p} |-> buffer[q]]
      /\ said' = said /\ begun' = begun /\ todo' = todo /\ console' = console
  BY DEF Exit, Idle, Restrict
<1>2. /\ Running' = Running \ {p}
      /\ \A q \in Running \ {p} : buffer'[q] = buffer[q]
  BY <1>1 DEF Running
<1>3. Shaped'
  BY <1>1, <1>2 DEF StreamInv, Shaped
<1>4. ProcessOk(p)'
  BY <1>1, <1>2 DEF StreamInv, ProcessOk
<1>5. ASSUME NEW q \in Processes, q # p PROVE ProcessOk(q)'
  <2>1. Bystander(q) /\ Quiet(q)
    BY <1>1, <1>2, <1>5 DEF Bystander, Quiet
  <2> QED BY <2>1, BystanderKeeps DEF StreamInv, Shaped
<1> QED BY <1>3, <1>4, <1>5 DEF StreamInv

LEMMA StreamIdles ==
  ASSUME StreamInv, UNCHANGED streamVars
  PROVE  StreamInv'
<1>1. /\ buffer' = buffer /\ said' = said /\ begun' = begun /\ todo' = todo
      /\ console' = console /\ Running' = Running
  BY DEF streamVars, Running
<1>2. Shaped'
  BY <1>1 DEF StreamInv, Shaped
<1>3. ASSUME NEW q \in Processes PROVE ProcessOk(q)'
  <2>1. Bystander(q) /\ Quiet(q)
    BY <1>1 DEF Bystander, Quiet
  <2> QED BY <2>1, BystanderKeeps DEF StreamInv, Shaped
<1> QED BY <1>2, <1>3 DEF StreamInv

\* What one << or endl adds.
LEMMA StreamIsSays ==
  ASSUME NEW p, Stream(p) \/ Endl(p)
  PROVE  \E s \in Seq(Letters), end \in {<<>>, <<Flush>>} : Says(p, s, end)
<1>1. CASE Stream(p)
  <2>1. PICK s \in Texts : Says(p, s, <<>>)
    BY <1>1 DEF Stream
  <2>2. s \in Seq(Letters)
    BY ConsoleAssumption
  <2> QED BY <2>1, <2>2
<1>2. CASE Says(p, <<NewLine>>, <<Flush>>)
  <2>1. <<NewLine>> \in Seq(Letters)
    BY ConsoleAssumption
  <2> QED BY <1>2, <2>1
<1>3. CASE Says(p, <<>>, <<Flush>>)
  BY <1>3, EmptyFacts
<1> QED BY <1>1, <1>2, <1>3 DEF Endl

LEMMA StreamStep ==
  ASSUME StreamInv, [StreamNext]_streamVars
  PROVE  StreamInv'
<1>1. ASSUME NEW p \in Processes, Stream(p) \/ Endl(p) PROVE StreamInv'
  <2>1. PICK s \in Seq(Letters), end \in {<<>>, <<Flush>>} : Says(p, s, end)
    BY <1>1, StreamIsSays
  <2>2. end = <<>> \/ end = <<Flush>>
    OBVIOUS
  <2> QED BY <2>1, <2>2, SaysKeeps
<1>2. ASSUME NEW p \in Processes, Step(p) PROVE StreamInv'
  BY <1>2, AppendBufKeeps, FlushBufKeeps DEF Step
<1>3. ASSUME NEW p \in Processes, Exec(p) PROVE StreamInv'
  BY <1>3, ExecKeeps
<1>4. ASSUME NEW p \in Processes, Exit(p) PROVE StreamInv'
  BY <1>4, ExitKeeps
<1>5. ASSUME NEW p \in Processes, NEW child \in Processes, Fork(p, child)
      PROVE  StreamInv'
  BY <1>5, ForkKeeps
<1> QED BY <1>1, <1>2, <1>3, <1>4, <1>5, StreamIdles DEF StreamNext

FlushDone(p) ==
  /\ todo[p] # <<>> /\ todo'[p] = <<>> /\ Last(todo[p]) = Flush
  => said[p] = Printed(p)'

\* Only the flush itself takes the last place of what is left.
LEMMA FlushedStep ==
  ASSUME StreamInv, [StreamNext]_streamVars, NEW p \in Running
  PROVE  FlushDone(p)
<1> SUFFICES ASSUME todo[p] # <<>>, todo'[p] = <<>>, Last(todo[p]) = Flush
             PROVE  said[p] = Printed(p)'
  BY DEF FlushDone
<1>1. p \in Processes
  BY DEF StreamInv, Shaped
<1>2. PICK q \in Processes : Step(q)
  <2>1. ASSUME NEW q \in Processes, Stream(q) \/ Endl(q) PROVE FALSE
    <3>1. PICK s \in Seq(Letters), end \in {<<>>, <<Flush>>} : Says(q, s, end)
      BY <2>1, StreamIsSays
    <3>2. todo[q] = <<>> /\ todo' = [todo EXCEPT ![q] = s \o end]
      BY <3>1 DEF Says, Idle
    <3>3. p # q /\ todo'[p] = todo[p]
      BY <1>1, <3>2 DEF StreamInv, Shaped
    <3> QED BY <3>3
  <2>2. ASSUME todo' = todo PROVE FALSE
    BY <2>2
  <2>3. StreamNext
    BY <2>2 DEF streamVars
  <2> QED BY <2>1, <2>2, <2>3 DEF StreamNext, Exec, Exit, Fork
<1>3. q = p
  <2>1. todo' = [todo EXCEPT ![q] = Tail(todo[q])]
    BY <1>2 DEF Step, AppendBuf, FlushBuf
  <2> QED BY <1>1, <2>1 DEF StreamInv, Shaped
<1>4. CASE FlushBuf(p)
  <2>1. said[p] = PrintedOf(console', begun'[p], p)
    BY <1>1, <1>4, FlushBufKeeps
  <2> QED BY <2>1 DEF Printed, PrintedOf
<1>5. CASE AppendBuf(p)
  <2>1. Head(todo[p]) # Flush /\ todo' = [todo EXCEPT ![p] = Tail(todo[p])]
    BY <1>5 DEF AppendBuf
  <2>2. Tail(todo[p]) = <<>>
    BY <1>1, <2>1 DEF StreamInv, Shaped
  <2>3. Last(todo[p]) # Flush
    BY <1>1, <2>1, <2>2, NextLetter DEF StreamInv, ProcessOk
  <2> QED BY <2>3
<1> QED BY <1>2, <1>3, <1>4, <1>5 DEF Step

\* No character that a program streams is lost, doubled or reordered, the
\* buffer does not overflow, and what is flushed is on the console.
THEOREM ConsoleStreamHolds ==
  StreamSpec => [](TextInOrder /\ BufferFits) /\ FlushedIsPrinted
<1>1. StreamInv /\ [StreamNext]_streamVars => StreamInv'
  BY StreamStep
<1>2. StreamInv => TextInOrder /\ BufferFits
  <2> SUFFICES ASSUME StreamInv, NEW p \in Running
               PROVE  /\ said[p] = Printed(p) \o buffer[p] \o Unstreamed(todo[p])
                      /\ Len(buffer[p]) + 1 <= MaxBuf + 1
    BY DEF TextInOrder, BufferFits
  <2>1. ProcessOk(p)
    BY DEF StreamInv, Shaped
  <2>2. Len(buffer[p]) \in Nat /\ MaxBuf \in Nat
    BY <2>1, ConsoleAssumption DEF ProcessOk
  <2>3. Printed(p) = PrintedOf(console, begun[p], p)
    BY DEF Printed, PrintedOf
  <2>4. said[p] = Printed(p) \o buffer[p] \o Unstreamed(todo[p])
    BY <2>1, <2>3 DEF ProcessOk, InOrder
  <2>5. Len(buffer[p]) <= MaxBuf
    BY <2>1 DEF ProcessOk
  <2> QED BY <2>2, <2>4, <2>5
<1>3. StreamInv /\ [StreamNext]_streamVars =>
        [\A p \in Running :
           /\ todo[p] # <<>> /\ todo'[p] = <<>> /\ Last(todo[p]) = Flush
           => said[p] = Printed(p)']_streamVars
  BY FlushedStep DEF FlushDone
<1> QED BY <1>1, <1>2, <1>3, StreamInitially, PTL
           DEF StreamSpec, FlushedIsPrinted

-----------------------------------------------------------------------------
(* The console, from << to the screen and from the keyboard to memory *)

\* What reaches the console is what was streamed, and what is read is what
\* the process finds.
THEOREM ConsoleExactHolds ==
  DecimalSpec /\ StreamSpec /\ CallSpec => ConsoleExact
<1>1. DecimalSpec => []RoundTrip
  BY DecimalExact
<1>2. StreamSpec => [](TextInOrder /\ BufferFits) /\ FlushedIsPrinted
  BY ConsoleStreamHolds
<1>3. CallSpec => [](PrintedIsText /\ ReadIsDelivered /\ ForeignKept)
  BY ConsoleCallsHold
<1> QED BY <1>1, <1>2, <1>3 DEF ConsoleExact

=============================================================================
