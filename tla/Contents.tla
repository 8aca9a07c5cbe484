------------------------------ MODULE Contents ------------------------------
(***************************************************************************)
(* What vectors promise: each is a sequence of its own, that an operation  *)
(* on another vector leaves alone unless it moves the elements away.       *)
(* Vector implements this.                                                 *)
(***************************************************************************)
EXTENDS Integers, Sequences, Functions

CONSTANTS Names, Elements,
          Moved,   \* an element that was moved away
          Default, \* T()
          MaxSize  \* bound: elements of a vector

VARIABLE content \* the sequence of each vector that exists

Init == content = <<>>

Alive == DOMAIN content

\* f with the sequence s of v.
Extended(f, v, s) == [w \in DOMAIN f \cup {v} |-> IF w = v THEN s ELSE f[w]]

Set(v, s) == content' = Extended(content, v, s)

Uniform == {[i \in 1 .. n |-> e] : n \in 0 .. MaxSize,
                                   e \in Elements \cup {Default}}

Make(v) == /\ v \notin Alive
           /\ \E s \in Uniform : Set(v, s)

End(v) == v \in Alive /\ content' = Restrict(content, Alive \ {v})

Copy(v, w) == w \in Alive /\ Set(v, content[w])

Take(v, w) == /\ v # w /\ w \in Alive
              /\ content' = Extended(Extended(content, w, <<>>), v, content[w])

Append1(v, e) == v \in Alive /\ Set(v, Append(content[v], e))

TakeElement(v, w, i) ==
  /\ {v, w} \subseteq Alive /\ v # w
  /\ content' = [content EXCEPT ![v] = Append(@, content[w][i]),
                                ![w][i] = Moved]

\* The element that is moved away is one of the vector it is added to.
Rotate(v, i) ==
  /\ v \in Alive
  /\ Set(v, Append([content[v] EXCEPT ![i] = Moved], content[v][i]))

Assign(v, i, e) == v \in Alive /\ Set(v, [content[v] EXCEPT ![i] = e])

Truncate(v) == /\ v \in Alive
               /\ \E n \in 0 .. Len(content[v]) - 1 :
                    Set(v, SubSeq(content[v], 1, n))

Extend(v, e) ==
  /\ v \in Alive
  /\ \E n \in 1 .. MaxSize :
       Set(v, content[v] \o [i \in 1 .. n |-> e])

Operation(v) ==
  \/ Make(v) \/ End(v) \/ Truncate(v)
  \/ \E e \in Elements \cup {Default, Moved} : Append1(v, e) \/ Extend(v, e)
  \/ \E i \in 1 .. MaxSize :
       /\ v \in Alive /\ i \in DOMAIN content[v]
       /\ Rotate(v, i) \/ \E e \in Elements : Assign(v, i, e)
  \/ \E w \in Alive :
       \/ Copy(v, w) \/ Take(v, w)
       \/ \E i \in DOMAIN content[w] : TakeElement(v, w, i)

Next == \E v \in Names : Operation(v)

Spec == Init /\ [][Next]_content

=============================================================================
