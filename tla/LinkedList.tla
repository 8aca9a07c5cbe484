----------------------------- MODULE LinkedList -----------------------------
(***************************************************************************)
(* ministl::list (kernel/kstl/Queue.h): a doubly linked list of nodes on   *)
(* the kernel heap.  mem is the heap: the nodes that exist, by address.    *)
(* An operation that changes a list gives a record of the heap and the     *)
(* list after it.  Following a pointer to a deleted node has no meaning:   *)
(* TLC reports it as an application of mem outside its domain.             *)
(***************************************************************************)
EXTENDS Integers, FiniteSets, TLC

Null == 0

EmptyList == [head |-> Null, tail |-> Null, size |-> 0]

Node(prev, next, value) == [prev |-> prev, next |-> next, value |-> value]

\* operator new: any unused address.
NewNode(mem) ==
  CHOOSE n \in 1 .. Cardinality(DOMAIN mem) + 1 : n \notin DOMAIN mem

Deleted(mem, nodes) == [n \in DOMAIN mem \ nodes |-> mem[n]]

-----------------------------------------------------------------------------
(* Iteration: begin(), ++, and end(), which is the null pointer *)

Walk(mem, l) ==
  LET w[i \in 0 .. Cardinality(DOMAIN mem)] ==
        IF i = 0 THEN l.head
        ELSE IF w[i - 1] = Null THEN Null ELSE mem[w[i - 1]].next
  IN  w

Nodes(mem, l) ==
  LET w == Walk(mem, l) IN {w[i] : i \in DOMAIN w} \ {Null}

\* clear, when the lists are destroyed.
Cleared(mem, lists) == Deleted(mem, UNION {Nodes(mem, l) : l \in lists})

Back(mem, l) == mem[l.tail].value

-----------------------------------------------------------------------------
(* Modifiers *)

\* Faulty variant: prev of the new node is not set.
EmplaceBackNoPrev(mem, l, v) ==
  LET n == NewNode(mem)
      new == n :> Node(Null, Null, v)
  IN  IF l.size = 0
        THEN [mem |-> new @@ mem,
              list |-> [head |-> n, tail |-> n, size |-> 1]]
        ELSE [mem |-> new @@ [mem EXCEPT ![l.tail].next = n],
              list |-> [l EXCEPT !.tail = n, !.size = @ + 1]]

EmplaceBack(mem, l, v) ==
  LET n == NewNode(mem)
      new == n :> Node(IF l.size = 0 THEN Null ELSE l.tail, Null, v)
  IN  IF l.size = 0
        THEN [mem |-> new @@ mem,
              list |-> [head |-> n, tail |-> n, size |-> 1]]
        ELSE [mem |-> new @@ [mem EXCEPT ![l.tail].next = n],
              list |-> [l EXCEPT !.tail = n, !.size = @ + 1]]

PopBack(mem, l) ==
  LET t == mem[l.tail].prev
  IN  IF l.size = 1
        THEN [mem |-> Deleted(mem, {l.tail}), list |-> EmptyList]
        ELSE [mem |-> [Deleted(mem, {mem[t].next}) EXCEPT ![t].next = Null],
              list |-> [l EXCEPT !.tail = t, !.size = @ - 1]]

PopFront(mem, l) ==
  LET h == mem[l.head].next
  IN  IF l.size = 1
        THEN [mem |-> Deleted(mem, {l.head}), list |-> EmptyList]
        ELSE [mem |-> [Deleted(mem, {mem[h].prev}) EXCEPT ![h].prev = Null],
              list |-> [l EXCEPT !.head = h, !.size = @ - 1]]

\* A node with two neighbours; the code leaves the size as it is.
Unlinked(mem, l, n) ==
  [mem |-> Deleted([mem EXCEPT ![mem[n].prev].next = mem[n].next,
                               ![mem[n].next].prev = mem[n].prev], {n}),
   list |-> l]

Erase(mem, l, n) ==
  IF l.size = 1 THEN [mem |-> Deleted(mem, {n}), list |-> EmptyList]
  ELSE IF n = l.head THEN PopFront(mem, l)
  ELSE IF n = l.tail THEN PopBack(mem, l)
  ELSE Unlinked(mem, l, n)

=============================================================================
