------------------------------ MODULE Programs ------------------------------
(***************************************************************************)
(* What loading a program promises: a process appears with the bytes of    *)
(* the sections .text and .data of its file, all at once or not at all,    *)
(* and keeps them.                                                         *)
(***************************************************************************)
EXTENDS Integers, Sequences

CONSTANTS Files, Layout, MaxProcs

VARIABLE image \* what each process has in its segments, or <<>>

Pids == 1..MaxProcs

\* The last section of that name counts.
Named(f, name) == {i \in 1..Len(Layout[f].sections) :
                     Layout[f].sections[i].name = name}

Bytes(f, name) ==
  IF Named(f, name) = {} THEN <<>>
  ELSE LET i == CHOOSE i \in Named(f, name) :
                  \A j \in Named(f, name) : j <= i
           s == Layout[f].sections[i]
       IN  [k \in 0 .. s.size - 1 |-> <<f, s.offset + k>>]

Init == image = [p \in Pids |-> <<>>]

Load(p, f) == /\ image[p] = <<>>
              /\ image' = [image EXCEPT
                   ![p] = [s \in {"text", "data"} |-> Bytes(f, s)]]

Unload(p) == image[p] # <<>> /\ image' = [image EXCEPT ![p] = <<>>]

Next == \E p \in Pids : Unload(p) \/ \E f \in Files : Load(p, f)

Spec == Init /\ [][Next]_image

=============================================================================
