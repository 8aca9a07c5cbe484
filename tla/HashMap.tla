------------------------------ MODULE HashMap ------------------------------
(***************************************************************************)
(* ministl::unordered_map (kernel/kstl/UnorderedMap.h), with which         *)
(* HashPageTable is built: a vector of lists (LinkedList), rehashed when   *)
(* there are as many entries as buckets, and the loops over it: fork       *)
(* copies a page table entry by entry into a map of its own, and a loop    *)
(* may erase the entry it is at.                                           *)
(*                                                                         *)
(* Each call is one step: the kernel is not interrupted.  hash is any      *)
(* function; vector, which is as long as it was made, is a function.       *)
(***************************************************************************)
EXTENDS LinkedList, Sequences, SequencesExt

CONSTANTS Keys, Values,
          Hash,         \* hasher
          BucketCounts, \* bucket_count of the map
          DefaultCap,   \* buckets of a map made without a count, 8 in the code
          MaxBuckets    \* bound: buckets of any map

HashMapAssumption ==
  /\ Hash \in [Keys -> Nat]
  /\ BucketCounts \subseteq 1..MaxBuckets
  /\ MaxBuckets \in Nat
  /\ DefaultCap \in 1..MaxBuckets

VARIABLES
  mem,   \* the nodes of all lists
  table, \* the map
  copy,  \* the map that the loop of fork fills
  it,    \* the iterator of the loop
  mode,  \* idle or loop
  ret,   \* what the last call returned
  defined \* FALSE once a null pointer was followed

vars == <<mem, table, copy, it, mode, ret, defined>>

-----------------------------------------------------------------------------
(* Maps *)

NewMap(count) ==
  [buckets |-> [b \in 0 .. count - 1 |-> EmptyList], size |-> 0]

BucketCount(map) == Cardinality(DOMAIN map.buckets)

Bucket(map, k) == Hash[k] % BucketCount(map)

Entry(k, v) == [key |-> k, value |-> v]

\* The nodes with key k in its bucket; the loops stop at the first of them.
Found(m, map, k) ==
  {n \in Nodes(m, map.buckets[Bucket(map, k)]) : m[n].value.key = k}

Has(m, map, k) == Found(m, map, k) # {}

FoundNode(m, map, k) == CHOOSE n \in Found(m, map, k) : TRUE

\* One turn of the inner loop of rehash: the last entry of bucket b.
MoveLast(s, b) ==
  LET e == Back(s.mem, s.old[b])
      to == Hash[e.key] % Cardinality(DOMAIN s.new)
      added == EmplaceBack(s.mem, s.new[to], e)
      popped == PopBack(added.mem, s.old[b])
  IN  [mem |-> popped.mem,
       old |-> [s.old EXCEPT ![b] = popped.list],
       new |-> [s.new EXCEPT ![to] = added.list]]

Turns(map) ==
  FlattenSeq([i \in 1 .. BucketCount(map) |->
                [j \in 1 .. map.buckets[i - 1].size |-> i - 1]])

Rehashed(m, map, count) ==
  IF count < map.size THEN [mem |-> m, map |-> map]
  ELSE LET start == [mem |-> m, old |-> map.buckets,
                     new |-> NewMap(count).buckets]
           s == FoldLeft(MoveLast, start, Turns(map))
       IN  [mem |-> s.mem, map |-> [map EXCEPT !.buckets = s.new]]

Full(map) == map.size = BucketCount(map)

\* What emplace and operator[] begin with.
Grown(m, map) ==
  IF Full(map) THEN Rehashed(m, map, 2 * BucketCount(map))
               ELSE [mem |-> m, map |-> map]

\* A list whose size is wrong, see Unlinked: the loop of rehash, and erase
\* when there is one node left, follow a null pointer.
Skewed(m, l) == l.size # Cardinality(Nodes(m, l))

Growable(m, map) ==
  Full(map) => \A b \in DOMAIN map.buckets : ~Skewed(m, map.buckets[b])

Erasable(l) == l.size = 1 \/ l.head # l.tail

WithinBound(map) == Full(map) => 2 * BucketCount(map) <= MaxBuckets

Added(g, k, v) ==
  LET b == Bucket(g.map, k)
      r == EmplaceBack(g.mem, g.map.buckets[b], Entry(k, v))
  IN  [mem |-> r.mem,
       map |-> [buckets |-> [g.map.buckets EXCEPT ![b] = r.list],
                size |-> g.map.size + 1]]

\* emplace keeps the value of a key that is there.
Emplaced(m, map, k, v) ==
  LET g == Grown(m, map)
  IN  IF Has(g.mem, g.map, k) THEN g ELSE Added(g, k, v)

\* operator[], and the assignment through the reference.
Assigned(m, map, k, v) ==
  LET g == Grown(m, map)
  IN  IF Has(g.mem, g.map, k)
        THEN [g EXCEPT !.mem[FoundNode(g.mem, g.map, k)].value.value = v]
        ELSE Added(g, k, v)

\* Erasing a node of bucket b.  The code leaves the size of the map alone.
Erased(m, map, b, n) ==
  LET r == Erase(m, map.buckets[b], n)
  IN  [mem |-> r.mem, map |-> [map EXCEPT !.buckets[b] = r.list]]

-----------------------------------------------------------------------------
(* Iterators *)

NoIterator == [outer |-> 0, inner |-> Null]

EndOf(map) == [outer |-> BucketCount(map), inner |-> Null]

SkipEmpty(map, b, n) ==
  LET later == {c \in DOMAIN map.buckets : c > b /\ map.buckets[c].head # Null}
      next == CHOOSE c \in later : \A d \in later : c <= d
  IN  IF n # Null THEN [outer |-> b, inner |-> n]
      ELSE IF later = {} THEN EndOf(map)
      ELSE [outer |-> next, inner |-> map.buckets[next].head]

Begin(map) == SkipEmpty(map, 0, map.buckets[0].head)

Advanced(m, map, i) == SkipEmpty(map, i.outer, m[i.inner].next)

-----------------------------------------------------------------------------
(* Calls *)

Init ==
  /\ mem = << >>
  /\ table \in {NewMap(n) : n \in BucketCounts}
  /\ copy = NewMap(DefaultCap)
  /\ it = NoIterator
  /\ mode = "idle"
  /\ ret = "none"
  /\ defined = TRUE

SetTable(r) == mem' = r.mem /\ table' = r.map

Emplace(k, v) ==
  /\ mode = "idle"
  /\ WithinBound(table) /\ Growable(mem, table)
  /\ SetTable(Emplaced(mem, table, k, v))
  /\ ret' = IF Has(mem, table, k) THEN "no" ELSE "yes"
  /\ UNCHANGED <<copy, it, mode, defined>>

Subscript(k, v) ==
  /\ mode = "idle"
  /\ WithinBound(table) /\ Growable(mem, table)
  /\ SetTable(Assigned(mem, table, k, v))
  /\ ret' = "none"
  /\ UNCHANGED <<copy, it, mode, defined>>

\* rehash called by the user of the map.
Rehash(count) ==
  /\ mode = "idle"
  /\ \A b \in DOMAIN table.buckets : ~Skewed(mem, table.buckets[b])
  /\ SetTable(Rehashed(mem, table, count))
  /\ UNCHANGED <<copy, it, mode, ret, defined>>

\* find and contains.
Find(k) ==
  /\ mode = "idle"
  /\ ret' = IF Has(mem, table, k)
              THEN mem[FoundNode(mem, table, k)].value.value ELSE "none"
  /\ UNCHANGED <<mem, table, copy, it, mode, defined>>

EraseKey(k) ==
  /\ mode = "idle"
  /\ Has(mem, table, k)
  /\ Erasable(table.buckets[Bucket(table, k)])
  /\ SetTable(Erased(mem, table, Bucket(table, k), FoundNode(mem, table, k)))
  /\ ret' = "yes"
  /\ UNCHANGED <<copy, it, mode, defined>>

EraseNothing(k) ==
  /\ mode = "idle"
  /\ ~Has(mem, table, k)
  /\ ret' = "no"
  /\ UNCHANGED <<mem, table, copy, it, mode, defined>>

StartLoop ==
  /\ mode = "idle"
  /\ mode' = "loop"
  /\ it' = Begin(table)
  /\ ret' = "none"
  /\ UNCHANGED <<mem, table, copy, defined>>

AtEntry == mode = "loop" /\ it # EndOf(table)

\* placed = table[curr->vpn]; ++*it
CopyEntry ==
  /\ AtEntry
  /\ WithinBound(copy)
  /\ LET e == mem[it.inner].value
         r == Assigned(mem, copy, e.key, e.value)
     IN  mem' = r.mem /\ copy' = r.map
  /\ it' = Advanced(mem, table, it)
  /\ UNCHANGED <<table, mode, ret, defined>>

\* it = erase(it)
EraseEntry ==
  /\ AtEntry
  /\ Erasable(table.buckets[it.outer])
  /\ SetTable(Erased(mem, table, it.outer, it.inner))
  /\ it' = Advanced(mem, table, it)
  /\ UNCHANGED <<copy, mode, ret, defined>>

\* The loop is over and the copy goes, with the child it was made for.
EndLoop ==
  /\ mode = "loop"
  /\ it = EndOf(table)
  /\ mode' = "idle"
  /\ mem' = Cleared(mem, {copy.buckets[b] : b \in DOMAIN copy.buckets})
  /\ copy' = NewMap(DefaultCap)
  /\ it' = NoIterator
  /\ UNCHANGED <<table, ret, defined>>

\* A call that follows a null pointer.
Undefined ==
  /\ \/ mode = "idle" /\ ~Growable(mem, table)
     \/ mode = "idle" /\ \E k \in Keys :
          Has(mem, table, k) /\ ~Erasable(table.buckets[Bucket(table, k)])
     \/ AtEntry /\ ~Erasable(table.buckets[it.outer])
  /\ defined' = FALSE
  /\ UNCHANGED <<mem, table, copy, it, mode, ret>>

Update == \E k \in Keys : \/ Find(k) \/ EraseKey(k) \/ EraseNothing(k)
                        \/ \E v \in Values : Emplace(k, v) \/ Subscript(k, v)

Loop == StartLoop \/ CopyEntry \/ EraseEntry \/ EndLoop

Next == /\ defined
        /\ \/ Update \/ Loop \/ Undefined
           \/ \E count \in 1..MaxBuckets : Rehash(count)

Spec == Init /\ [][Next]_vars

-----------------------------------------------------------------------------
(* Correctness *)

Pointers == DOMAIN mem \cup {Null}

IsList(l) == /\ l.head \in Pointers
             /\ l.tail \in Pointers
             /\ l.size \in Nat

IsMap(map) == /\ BucketCount(map) \in 1..MaxBuckets
              /\ map.size \in 0..BucketCount(map)
              /\ \A b \in DOMAIN map.buckets : IsList(map.buckets[b])

\* The load factor, _size by the number of buckets, does not exceed 1.
TypeOK ==
  /\ \A n \in DOMAIN mem : /\ mem[n].prev \in Pointers
                            /\ mem[n].next \in Pointers
                            /\ mem[n].value \in [key : Keys, value : Values]
  /\ IsMap(table) /\ IsMap(copy)
  /\ it.outer \in 0..BucketCount(table) /\ it.inner \in Pointers
  /\ mode \in {"idle", "loop"}
  /\ ret \in Values \cup {"yes", "no", "none"}
  /\ defined \in BOOLEAN

\* prev is the inverse of next from head to tail.
Linked(l) ==
  /\ l.head = Null <=> l.tail = Null
  /\ l.head # Null => mem[l.head].prev = Null /\ mem[l.tail].next = Null
  /\ \A n \in Nodes(mem, l) :
       IF mem[n].next = Null THEN n = l.tail ELSE mem[mem[n].next].prev = n

AllNodes(map) ==
  UNION {Nodes(mem, map.buckets[b]) : b \in DOMAIN map.buckets}

\* Rehashing from the back, erasing anywhere and copying leave each list a
\* well formed chain of the entries that belong there; no node is leaked or
\* in two lists.  Only a list that lost a node in the middle (erase keeps its
\* size) makes a later call follow a null pointer.
ListsLinked ==
  /\ \A map \in {table, copy} : \A b \in DOMAIN map.buckets :
       LET l == map.buckets[b]
           nodes == Nodes(mem, l)
       IN  /\ Linked(l)
           /\ \A n \in nodes : Bucket(map, mem[n].value.key) = b
           /\ l.size >= Cardinality(nodes)
           /\ \A c \in DOMAIN map.buckets :
                c # b => nodes \cap Nodes(mem, map.buckets[c]) = {}
  /\ AllNodes(table) \cap AllNodes(copy) = {}
  /\ DOMAIN mem = AllNodes(table) \cup AllNodes(copy)
  /\ ~defined => \E b \in DOMAIN table.buckets : Skewed(mem, table.buckets[b])

Contents(map) ==
  LET nodes == AllNodes(map)
  IN  [k \in {mem[n].value.key : n \in nodes} |->
         mem[CHOOSE n \in nodes : mem[n].value.key = k].value.value]

\* What the iterator has before it: the rest of its bucket, and all later ones.
Ahead ==
  IF mode # "loop" \/ it.inner = Null THEN {}
  ELSE Nodes(mem, [table.buckets[it.outer] EXCEPT !.head = it.inner])
         \cup UNION {Nodes(mem, table.buckets[b]) :
                       b \in {c \in DOMAIN table.buckets : c > it.outer}}

\* The map answers every call as a finite map does, whatever was rehashed,
\* and a loop that copies or erases comes to each entry once.
DictionaryOf ==
  INSTANCE Dictionary WITH dict <- Contents(table), copied <- Contents(copy),
                           todo <- {mem[n].value.key : n \in Ahead},
                           busy <- mode = "loop"

DictionaryRefinement == DictionaryOf!Spec

=============================================================================
