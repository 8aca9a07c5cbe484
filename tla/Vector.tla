------------------------------- MODULE Vector -------------------------------
(***************************************************************************)
(* ministl::vector (kernel/kstl/Vector.h; the programs have the same code  *)
(* in programs/ministl/Vector.h): raw memory from operator new[], of which *)
(* the first size cells hold elements that were constructed there.         *)
(*                                                                         *)
(* Each call is one step.  at, [], front and back are the same access.  An *)
(* assertion that fails halts the machine: the guard of the call.          *)
(***************************************************************************)
EXTENDS Integers, Sequences, FiniteSetsExt, Functions

CONSTANTS
  Vectors,    \* vectors
  Elements,   \* values of T
  MovedFrom,  \* a T that was moved from
  Default,    \* T()
  Raw,        \* a cell where there is no object
  DefaultCap, \* DEFAULT_CAP, 8 in the code
  Growth,     \* GROWTH_FACTOR
  SizeBits,   \* bits of size_t, 32 in the code
  Shifts,     \* the shifts of roundToNearestPowOf2: 1, 2, 4, 8, 16
  Counts,     \* what reserve is asked for
  MaxSize     \* bound: elements of a vector

Objects == Elements \cup {MovedFrom, Default}

ASSUME VectorAssumption ==
  /\ MaxSize \in Nat /\ Counts \subseteq 0 .. MaxSize
  /\ Growth \in Nat \ {0, 1}
  /\ Shifts \in Seq(Nat) /\ \A i \in 1 .. Len(Shifts) : Shifts[i] = 2 ^ (i - 1)
  /\ SizeBits \in 1 .. 2 ^ Len(Shifts)
  /\ Growth * MaxSize <= 2 ^ (SizeBits - 1)
  /\ DefaultCap \in 1 .. 2 ^ SizeBits - 1
  /\ Raw \notin Objects

VARIABLES
  heap, \* the arrays that operator new[] gave out, by address
  vec,  \* the vectors that exist: size, capacity and data
  room  \* history: the count of the last reserve of each vector, 0 when the
        \* vector was changed in another way than by push_back or pop_back

vectorVars == <<heap, vec, room>>

Null == 0

\* f with the value y at k, where it may have had none.
Extended(f, k, y) == [i \in DOMAIN f \cup {k} |-> IF i = k THEN y ELSE f[i]]

-----------------------------------------------------------------------------
(* roundToNearestPowOf2: bit by bit, in SizeBits bits *)

Bits(x) == {p \in 0 .. SizeBits - 1 : (x \div 2 ^ p) % 2 = 1}

Number(bits) ==
  LET sum[i \in 0 .. SizeBits] ==
        IF i = 0 THEN 0
        ELSE sum[i - 1] + IF i - 1 \in bits THEN 2 ^ (i - 1) ELSE 0
  IN  sum[SizeBits]

\* x |= x >> k, for all k in Shifts.
Smeared(bits) ==
  LET smeared[i \in 0 .. Len(Shifts)] ==
        IF i = 0 THEN bits
        ELSE smeared[i - 1]
               \cup {p \in 0 .. SizeBits - 1 : p + Shifts[i] \in smeared[i - 1]}
  IN  smeared[Len(Shifts)]

\* Faulty variant: x is not decremented first.
RoundUpPast(x) ==
  IF x = 0 THEN 1 ELSE (Number(Smeared(Bits(x))) + 1) % 2 ^ SizeBits

RoundUp(x) ==
  IF x = 0 THEN 1 ELSE (Number(Smeared(Bits(x - 1))) + 1) % 2 ^ SizeBits

-----------------------------------------------------------------------------
(* Memory.  A vector with its heap is a record of heap and v.              *)

NewArray(h) ==
  CHOOSE a \in 1 .. Cardinality(DOMAIN h) + 1 : a \notin DOMAIN h

\* operator delete[]; a null pointer is not deleted.
Freed(h, a) == Restrict(h, DOMAIN h \ {a})

Cells(seq, cap) ==
  [i \in 1 .. cap |-> IF i <= Len(seq) THEN seq[i] ELSE Raw]

Held(s) == SubSeq(s.heap[s.v.data], 1, s.v.size)

\* The constructors: an array of cap cells with the elements seq.
Constructed(h, seq, cap) ==
  LET a == NewArray(h)
  IN  [heap |-> Extended(h, a, Cells(seq, cap)),
       v |-> [size |-> Len(seq), cap |-> cap, data |-> a]]

Contents(s) == IF s.v.data = Null THEN <<>> ELSE Held(s)

\* What reserve and shrink_to_fit do: the elements move to an array of cap.
Reallocated(s, cap) ==
  LET new == Constructed(s.heap, Contents(s), cap)
  IN  [new EXCEPT !.heap = Freed(@, s.v.data)]

Reserved(s, count) ==
  LET n == IF count = 0 THEN 1 ELSE count
  IN  IF n <= s.v.cap THEN s ELSE Reallocated(s, RoundUp(n))

Shrunk(s) ==
  LET cap == RoundUp(s.v.size)
  IN  IF cap >= s.v.cap THEN s ELSE Reallocated(s, cap)

IsFull(s) == s.v.size = s.v.cap

MadeRoom(s) == IF IsFull(s) THEN Reserved(s, s.v.cap * Growth) ELSE s

\* Constructing e behind the last element.
Placed(s, e) ==
  [s EXCEPT !.heap[s.v.data][s.v.size + 1] = e, !.v.size = @ + 1]

EmplacedBack(s, e) == Placed(MadeRoom(s), e)

Popped(s) == [s EXCEPT !.heap[s.v.data][s.v.size] = Raw, !.v.size = @ - 1]

Resized(s, n, e) ==
  LET popped[i \in 0 .. s.v.size] ==
        IF i = 0 THEN s ELSE Popped(popped[i - 1])
      grown[i \in 0 .. n] ==
        IF i = 0 THEN s ELSE EmplacedBack(grown[i - 1], e)
  IN  IF n <= s.v.size THEN popped[s.v.size - n] ELSE grown[n - s.v.size]

Cleared(s) ==
  [s EXCEPT !.v.size = 0,
            !.heap = [a \in DOMAIN @ |->
                        IF a = s.v.data THEN Cells(<<>>, s.v.cap) ELSE @[a]]]

-----------------------------------------------------------------------------
VectorInit == heap = <<>> /\ vec = <<>> /\ room = [v \in Vectors |-> 0]

AliveVectors == DOMAIN vec

Of(v) == [heap |-> heap, v |-> vec[v]]

\* v becomes s.v, with the heap s.heap.
VectorBecomes(v, s) == heap' = s.heap /\ vec' = Extended(vec, v, s.v)

Changed(v, s) == VectorBecomes(v, s) /\ room' = [room EXCEPT ![v] = 0]

\* vector(), vector(count), vector(count, value); copies of one element
\* stand for an initializer list.
ConstructVector(v) ==
  /\ v \notin AliveVectors
  /\ \/ Changed(v, Constructed(heap, <<>>, DefaultCap))
     \/ \E n \in 0 .. MaxSize, e \in Elements \cup {Default} :
          Changed(v, Constructed(heap, [i \in 1 .. n |-> e], RoundUp(n)))

ConstructCopy(v, w) ==
  /\ v \notin AliveVectors /\ w \in AliveVectors
  /\ Changed(v, Constructed(heap, Contents(Of(w)), vec[w].cap))

NoArray == [size |-> 0, cap |-> 0, data |-> Null]

\* Faulty variant: w keeps the pointer to the array that is v's now.
TakeShared(v, w, h) == heap' = h /\ vec' = Extended(vec, v, vec[w])

\* The memory of w is v's, and w has none.
Take(v, w, h) ==
  /\ heap' = h
  /\ vec' = Extended(Extended(vec, w, NoArray), v, vec[w])

ConstructMove(v, w) ==
  /\ v \notin AliveVectors /\ w \in AliveVectors
  /\ Take(v, w, heap)
  /\ room' = [room EXCEPT ![v] = 0, ![w] = 0]

AssignMove(v, w) ==
  /\ {v, w} \subseteq AliveVectors /\ v # w
  /\ Take(v, w, Freed(heap, vec[v].data))
  /\ room' = [room EXCEPT ![v] = 0, ![w] = 0]

\* Faulty variant: a longer vector keeps the elements behind the copies.
CopiedOver(s, other) ==
  IF s.v.cap = 0 THEN s
  ELSE [s EXCEPT !.heap[s.v.data] =
                   [i \in DOMAIN @ |-> IF i <= Len(other) THEN other[i]
                                                          ELSE @[i]],
                 !.v.size = Max({@, Len(other)})]

\* operator= of a vector that is long enough: the elements that both have
\* are assigned, then others are constructed or destroyed.  The capacity
\* is 0 only where there is nothing to copy.
Copied(s, other) ==
  IF s.v.cap = 0 THEN s
  ELSE [s EXCEPT !.heap[s.v.data] = Cells(other, s.v.cap),
                 !.v.size = Len(other)]

AssignCopy(v, w) ==
  /\ {v, w} \subseteq AliveVectors /\ v # w
  /\ LET s == Of(v)
         other == Contents(Of(w))
     IN  IF Len(other) > s.v.cap
           THEN Changed(v, Constructed(Freed(heap, s.v.data), other,
                                       vec[w].cap))
           ELSE Changed(v, Copied(s, other))

DestroyVector(v) ==
  /\ v \in AliveVectors
  /\ heap' = Freed(heap, vec[v].data)
  /\ vec' = Restrict(vec, AliveVectors \ {v})
  /\ room' = [room EXCEPT ![v] = 0]

Clear(v) == v \in AliveVectors /\ Changed(v, Cleared(Of(v)))

Reserve(v, n) ==
  /\ v \in AliveVectors
  /\ VectorBecomes(v, Reserved(Of(v), n))
  /\ room' = [room EXCEPT ![v] = n]

ShrinkToFit(v) == v \in AliveVectors /\ Changed(v, Shrunk(Of(v)))

PopBack(v) ==
  /\ v \in AliveVectors /\ vec[v].size > 0
  /\ VectorBecomes(v, Popped(Of(v)))
  /\ UNCHANGED room

Resize(v, n, e) == v \in AliveVectors /\ Changed(v, Resized(Of(v), n, e))

Access(v, i, e) ==
  /\ v \in AliveVectors /\ i <= vec[v].size
  /\ heap' = [heap EXCEPT ![vec[v].data][i] = e]
  /\ UNCHANGED <<vec, room>>

Fits(v) == v \in AliveVectors /\ vec[v].size < MaxSize

\* emplace_back, and push_back of an object that is in no vector.
EmplaceBack(v, e) ==
  /\ Fits(v)
  /\ VectorBecomes(v, EmplacedBack(Of(v), e))
  /\ UNCHANGED room

\* push_back(w[i]), where w may be v.  The reference is followed after v has
\* grown: when it refers to v, to an object that was moved and deleted.
PushBackCopy(v, w, i) ==
  /\ Fits(v) /\ w \in AliveVectors /\ i <= vec[w].size
  /\ \E e \in Objects :
       /\ (v = w /\ IsFull(Of(v))) \/ e = heap[vec[w].data][i]
       /\ VectorBecomes(v, EmplacedBack(Of(v), e))
  /\ UNCHANGED room

\* push_back(move(w[i])).
PushBackMove(v, w, i) ==
  /\ Fits(v) /\ w \in AliveVectors /\ i <= vec[w].size
  /\ \E e \in Objects :
       LET s == EmplacedBack(Of(v), e)
       IN  IF v = w /\ IsFull(Of(v)) THEN VectorBecomes(v, s)
           ELSE /\ e = heap[vec[w].data][i]
                /\ VectorBecomes(v, [s EXCEPT !.heap[vec[w].data][i] = MovedFrom])
  /\ UNCHANGED room

Call(v) ==
  \/ ConstructVector(v) \/ DestroyVector(v) \/ Clear(v) \/ ShrinkToFit(v) \/ PopBack(v)
  \/ \E n \in Counts : Reserve(v, n)
  \/ \E n \in 0 .. MaxSize, e \in Elements \cup {Default} : Resize(v, n, e)
  \/ \E e \in Elements : \/ EmplaceBack(v, e)
                         \/ \E i \in 1 .. MaxSize : Access(v, i, e)
  \/ \E w \in Vectors : \/ ConstructCopy(v, w) \/ ConstructMove(v, w)
                      \/ AssignCopy(v, w) \/ AssignMove(v, w)
                      \/ \E i \in 1 .. MaxSize :
                           PushBackCopy(v, w, i) \/ PushBackMove(v, w, i)

VectorNext == \E v \in Vectors : Call(v)

VectorSpec == VectorInit /\ [][VectorNext]_vectorVars

-----------------------------------------------------------------------------
(* Properties *)

\* A vector owns one array, of as many cells as its capacity, of which those
\* behind its size hold no object and the others do; no two own the same and
\* every array has an owner, so that each is deleted once.  A vector has no
\* array when it was moved from.
StorageExact ==
  /\ DOMAIN heap = {vec[v].data : v \in AliveVectors} \ {Null}
  /\ \A v \in AliveVectors :
       /\ vec[v].data = Null => vec[v].cap = 0 /\ vec[v].size = 0
       /\ vec[v].data # Null =>
            /\ DOMAIN heap[vec[v].data] = 1 .. vec[v].cap
            /\ \A i \in 1 .. vec[v].cap :
                 (i <= vec[v].size) = (heap[vec[v].data][i] \in Objects)
       /\ \A w \in AliveVectors \ {v} : vec[v].data # vec[w].data
                                 \/ vec[v].data = Null

\* A vector that asked for room with reserve has it: its elements stay where
\* they are, and references to them stay valid, up to that many push_back.
ReserveKeeps ==
  [][\A v \in AliveVectors \cap DOMAIN vec' :
       /\ vec[v].data # vec'[v].data
       /\ room'[v] = room[v] /\ room[v] > 0
       => vec[v].size >= room[v]]_vectorVars

\* After shrink_to_fit less than half of the cells are unused, and none of
\* the elements is lost: the capacity is rounded to the right power of two.
\* (It need not be greater than the size, as Vector.h:199 says it is.)
ShrinksEnough ==
  [][\A v \in AliveVectors :
       ShrinkToFit(v) => vec'[v].cap <= Max({1, 2 * vec[v].size - 1})]_vectorVars

\* What a capacity is for: room that was asked for (reserve) and no more of
\* it than the rounding needs (shrink_to_fit).
CapacityKept == ReserveKeeps /\ ShrinksEnough

\* Vectors are sequences, that share no elements.
AsContents ==
  INSTANCE Contents WITH content <- [v \in AliveVectors |-> Contents(Of(v))],
                         Names <- Vectors, Moved <- MovedFrom
ContentsRefinement == AsContents!Spec

=============================================================================
