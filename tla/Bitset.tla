------------------------------- MODULE Bitset -------------------------------
(***************************************************************************)
(* ministl::bitset (kernel/kstl/Bitset.h), which holds the free frames and *)
(* the free ASIDs: N bits in an array of blocks of W bits.  A block is the *)
(* set of its bits that are set.  Each call is one step.                   *)
(***************************************************************************)
EXTENDS Integers, FiniteSets, FiniteSetsExt

CONSTANTS
  Names, \* the bitsets
  N,     \* bits of a bitset
  W      \* bits_per_block, 32 in the code

ASSUME BitsetAssumption == N \in Nat \ {0} /\ W \in Nat \ {0}

VARIABLE blocks_ \* the blocks of each bitset

Positions == 0 .. N - 1
Offsets == 0 .. W - 1
Last == (N + W - 1) \div W - 1 \* num_blocks - 1
BlockNumbers == 0 .. Last

\* high_mask: the bits of the last block that are in use.
HighMask == LET r == N % W IN IF r = 0 THEN Offsets ELSE 0 .. r - 1

\* Faulty variant: the bits behind the last are not cleared.
Untrimmed(b) == b

Trimmed(b) == [b EXCEPT ![Last] = @ \cap HighMask]

Zero == [i \in BlockNumbers |-> {}]

Test(b, pos) == pos % W \in b[pos \div W]

Differing(s, t) == (s \cup t) \ (s \cap t)

Flipped(b) == Trimmed([i \in BlockNumbers |-> Offsets \ b[i]])

\* <<= and >>= of one block.
BlockUp(s, k) == {o \in Offsets : o - k \in s}
BlockDown(s, k) == {o \in Offsets : o + k \in s}

\* Faulty variant: bits do not cross from a block to the next.
UpInBlocks(b, pos) ==
  IF pos >= N THEN Zero
  ELSE LET blkShift == pos \div W
       IN  Trimmed([i \in BlockNumbers |->
                      IF i < blkShift THEN {}
                      ELSE BlockUp(b[i - blkShift], pos % W)])

\* operator<<
ShiftedUp(b, pos) ==
  IF pos >= N THEN Zero
  ELSE LET blkShift == pos \div W
           bitShift == pos % W
       IN  Trimmed([i \in BlockNumbers |->
                      IF i < blkShift THEN {}
                      ELSE BlockUp(b[i - blkShift], bitShift) \cup
                           IF bitShift # 0 /\ i > blkShift
                             THEN BlockDown(b[i - blkShift - 1], W - bitShift)
                             ELSE {}])

\* operator>>
ShiftedDown(b, pos) ==
  IF pos >= N THEN Zero
  ELSE LET blkShift == pos \div W
           bitShift == pos % W
       IN  [i \in BlockNumbers |->
              IF i + blkShift > Last THEN {}
              ELSE BlockDown(b[i + blkShift], bitShift) \cup
                   IF bitShift # 0 /\ i + blkShift + 1 <= Last
                     THEN BlockUp(b[i + blkShift + 1], W - bitShift)
                     ELSE {}]

\* count(); any() and none() compare it with 0.
Count(b) == MapThenSumSet(LAMBDA i : Cardinality(b[i]), BlockNumbers)

-----------------------------------------------------------------------------
Init == blocks_ = [x \in Names |-> Zero]

Becomes(x, b) == blocks_' = [blocks_ EXCEPT ![x] = b]

\* set(pos, value), reset(pos) and flip(pos): the callers stay below N.
SetBit(x, pos) ==
  Becomes(x, [blocks_[x] EXCEPT ![pos \div W] = @ \cup {pos % W}])
ResetBit(x, pos) ==
  Becomes(x, [blocks_[x] EXCEPT ![pos \div W] = @ \ {pos % W}])
FlipBit(x, pos) ==
  Becomes(x, [blocks_[x] EXCEPT ![pos \div W] = Differing(@, {pos % W})])

Reset(x) == Becomes(x, Zero)

Flip(x) == Becomes(x, Flipped(blocks_[x]))

\* &=, |= and ^=.
And(x, y) ==
  Becomes(x, [i \in BlockNumbers |-> blocks_[x][i] \cap blocks_[y][i]])
Or(x, y) ==
  Becomes(x, [i \in BlockNumbers |-> blocks_[x][i] \cup blocks_[y][i]])
Xor(x, y) ==
  Becomes(x, [i \in BlockNumbers |->
                Differing(blocks_[x][i], blocks_[y][i])])

ShiftUp(x, y, pos) == Becomes(x, ShiftedUp(blocks_[y], pos))
ShiftDown(x, y, pos) == Becomes(x, ShiftedDown(blocks_[y], pos))

Next ==
  \E x \in Names :
    \/ \E pos \in Positions : SetBit(x, pos) \/ ResetBit(x, pos)
                              \/ FlipBit(x, pos)
    \/ Reset(x) \/ Flip(x)
    \/ \E y \in Names : \/ And(x, y) \/ Or(x, y) \/ Xor(x, y)
                        \/ \E pos \in 0 .. N :
                             ShiftUp(x, y, pos) \/ ShiftDown(x, y, pos)

Spec == Init /\ [][Next]_blocks_

-----------------------------------------------------------------------------
(* Properties *)

\* The value of a bitset: the positions whose test is true.
SetOf(b) == {p \in Positions : Test(b, p)}

\* The blocks of every bitset have no bit that is not one of its N bits:
\* count, any and == look at whole blocks.
HighBitsClear ==
  /\ blocks_ \in [Names -> [BlockNumbers -> SUBSET Offsets]]
  /\ \A x \in Names : blocks_[x][Last] \subseteq HighMask

\* count is the number of positions that test says are set, and == says
\* that two bitsets are equal when all their positions are.
ObserversExact ==
  \A x, y \in Names :
    /\ Count(blocks_[x]) = Cardinality(SetOf(blocks_[x]))
    /\ (blocks_[x] = blocks_[y]) = (SetOf(blocks_[x]) = SetOf(blocks_[y]))

\* A bitset is a set of positions, whatever the sizes of it and its blocks.
Abstract == INSTANCE PositionSets WITH
              set <- [x \in Names |-> SetOf(blocks_[x])]
SetRefinement == Abstract!Spec

=============================================================================
