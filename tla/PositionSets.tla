---------------------------- MODULE PositionSets ----------------------------
(***************************************************************************)
(* What bitsets promise: each is a set of positions below N.               *)
(* Bitset implements this.                                                 *)
(***************************************************************************)
EXTENDS Integers

CONSTANTS Names, N

VARIABLE set \* the set that each bitset is

Positions == 0 .. N - 1

Init == set = [x \in Names |-> {}]

Becomes(x, s) == set' = [set EXCEPT ![x] = s]

Put(x, p) == Becomes(x, set[x] \cup {p})

Remove(x, p) == Becomes(x, set[x] \ {p})

Toggle(x, p) == IF p \in set[x] THEN Remove(x, p) ELSE Put(x, p)

Up(x, y, n) == Becomes(x, {p \in Positions : p - n \in set[y]})

Down(x, y, n) == Becomes(x, {p \in Positions : p + n \in set[y]})

Next ==
  \E x \in Names :
    \/ \E p \in Positions : Put(x, p) \/ Remove(x, p) \/ Toggle(x, p)
    \/ Becomes(x, {})
    \/ Becomes(x, Positions \ set[x])
    \/ \E y \in Names :
         \/ Becomes(x, set[x] \cap set[y])
         \/ Becomes(x, set[x] \cup set[y])
         \/ Becomes(x, (set[x] \cup set[y]) \ (set[x] \cap set[y]))
         \/ \E n \in 0 .. N : Up(x, y, n) \/ Down(x, y, n)

Spec == Init /\ [][Next]_set

=============================================================================
