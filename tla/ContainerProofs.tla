-------------------------- MODULE ContainerProofs --------------------------
(***************************************************************************)
(* For every number of bits and every width of a block, a bitset is the    *)
(* set that PositionSets says it is; for every set of optionals, of        *)
(* unique_ptrs and of objects, what they hold is deleted once and not      *)
(* lost; and for vectors of any length, each is a sequence of its own in   *)
(* one array that nothing else owns, of a capacity that is a power of two  *)
(* where it was rounded.                                                   *)
(***************************************************************************)
EXTENDS Bitset, UniquePointers, Vector, FiniteSetTheorems, SequenceTheorems,
        WellFoundedInduction, TLAPS

-----------------------------------------------------------------------------
(* Positions, blocks and offsets *)

\* The block and the offset of a position are its only ones.
LEMMA Split ==
  ASSUME NEW p \in Nat
  PROVE  /\ p \div W \in Nat
         /\ p % W \in Offsets
         /\ p = W * (p \div W) + (p % W)
  BY BitsetAssumption, Z3 DEF Offsets

LEMMA Unique ==
  ASSUME NEW p \in Nat, NEW i \in Int, NEW o \in Offsets,
         p = W * i + o
  PROVE  p \div W = i /\ p % W = o
  <1> DEFINE q == p \div W
             r == p % W
  <1>1. q \in Nat /\ r \in 0 .. W - 1 /\ p = W * q + r
    BY Split DEF Offsets
  <1>2. o \in 0 .. W - 1 /\ W \in Nat \ {0}
    BY BitsetAssumption DEF Offsets
  <1> HIDE DEF q, r
  <1>3. W * (q - i) = o - r
    BY <1>1, <1>2
  <1>4. q - i = 0
    <2>1. ASSUME q - i >= 1 PROVE FALSE
      <3>1. W * (q - i) >= W
        BY <2>1, <1>1, <1>2
      <3> QED BY <3>1, <1>1, <1>2, <1>3
    <2>2. ASSUME q - i <= -1 PROVE FALSE
      <3>1. W * (q - i) <= -W
        BY <2>2, <1>1, <1>2
      <3> QED BY <3>1, <1>1, <1>2, <1>3
    <2> QED BY <2>1, <2>2, <1>1
  <1>5. q = i /\ r = o
    BY <1>1, <1>2, <1>4
  <1> QED BY <1>5 DEF q, r

\* The last block is the one of the last position.
LEMMA LastBlock ==
  /\ Last \in Nat
  /\ W * Last < N
  /\ N <= W * Last + W
  <1> DEFINE n == N + W - 1
  <1>1. n \in Nat /\ N \in Nat /\ W \in Nat /\ N > 0 /\ W > 0
    BY BitsetAssumption
  <1>2. /\ n \div W \in Nat
        /\ n % W \in 0 .. W - 1
        /\ n = W * (n \div W) + (n % W)
    BY <1>1, Split DEF Offsets
  <1>3. Last = n \div W - 1
    BY DEF Last
  <1>4. n \div W # 0
    BY <1>1, <1>2
  <1>5. W * Last = W * (n \div W) - W
    BY <1>1, <1>2, <1>3
  <1> HIDE DEF n
  <1> QED BY <1>1, <1>2, <1>3, <1>4, <1>5 DEF n

\* high_mask has the offsets of the positions in the last block.
LEMMA HighMaskExact ==
  /\ HighMask \subseteq Offsets
  /\ \A o \in Offsets : o \in HighMask <=> W * Last + o < N
  <1> DEFINE r == N - W * Last
  <1>1. N \in Nat /\ W \in Nat /\ Last \in Nat /\ W > 0
    BY BitsetAssumption, LastBlock
  <1>2. r \in 1 .. W /\ N = W * Last + r
    BY <1>1, LastBlock
  <1> HIDE DEF r
  <1>3. CASE r = W
    <2>1. N = W * (Last + 1) + 0 /\ 0 \in Offsets /\ Last + 1 \in Int
      BY <1>1, <1>2, <1>3 DEF Offsets
    <2>2. N % W = 0
      BY <2>1, <1>1, Unique
    <2>3. HighMask = Offsets
      BY <2>2 DEF HighMask
    <2> QED BY <2>3, <1>1, <1>2, <1>3 DEF Offsets
  <1>4. CASE r # W
    <2>1. r \in Offsets
      BY <1>1, <1>2, <1>4 DEF Offsets
    <2>2. N % W = r
      <3>1. N \in Nat /\ Last \in Int /\ N = W * Last + r
        BY <1>1, <1>2
      <3> QED BY ONLY <2>1, <3>1, Unique, Zenon
    <2>3. HighMask = 0 .. r - 1
      BY <2>2, <1>2 DEF HighMask
    <2> QED BY <2>3, <1>1, <1>2 DEF Offsets
  <1> QED BY <1>3, <1>4

\* A position has a place in the blocks, which is not trimmed away.
LEMMA Place ==
  ASSUME NEW p \in Positions
  PROVE  /\ p \in Nat
         /\ p \div W \in BlockNumbers
         /\ p % W \in Offsets
         /\ p \div W = Last => p % W \in HighMask
  <1> DEFINE i == p \div W
             o == p % W
  <1>1. N \in Nat /\ W \in Nat /\ Last \in Nat /\ W > 0 /\ p \in Nat /\ p < N
    BY BitsetAssumption, LastBlock DEF Positions
  <1>2. i \in Nat /\ o \in Offsets /\ p = W * i + o
    BY <1>1, Split
  <1> HIDE DEF i, o
  <1>3. o \in Nat
    BY <1>2, <1>1 DEF Offsets
  <1>4. i <= Last
    <2> SUFFICES ASSUME i >= Last + 1 PROVE FALSE
      BY <1>1, <1>2
    <2>1. W * i >= W * (Last + 1)
      BY <1>1, <1>2
    <2> QED BY <2>1, <1>1, <1>2, <1>3, LastBlock
  <1>5. i = Last => o \in HighMask
    BY <1>1, <1>2, HighMaskExact
  <1> QED BY <1>1, <1>2, <1>4, <1>5 DEF BlockNumbers, i, o

\* Two positions with the same place are the same.
LEMMA SamePlace ==
  ASSUME NEW p \in Nat, NEW q \in Nat,
         p \div W = q \div W, p % W = q % W
  PROVE  p = q
  BY Split

-----------------------------------------------------------------------------
(* What the operations do to the positions *)

Wellformed(b) == /\ b \in [BlockNumbers -> SUBSET Offsets]
                 /\ b[Last] \subseteq HighMask

LEMMA LastInBlocks == Last \in BlockNumbers
  BY LastBlock DEF BlockNumbers

LEMMA ZeroIsEmpty == Wellformed(Zero) /\ SetOf(Zero) = {}
  BY Place, LastInBlocks DEF Wellformed, Zero, SetOf, Test

\* Trimming clears no position.
LEMMA TrimmedIsSame ==
  ASSUME NEW b \in [BlockNumbers -> SUBSET Offsets]
  PROVE  Wellformed(Trimmed(b)) /\ SetOf(Trimmed(b)) = SetOf(b)
  BY Place, LastInBlocks DEF Wellformed, Trimmed, SetOf, Test

\* set, reset and flip of one position, for any effect on its offset.
LEMMA OneBit ==
  ASSUME NEW b, Wellformed(b), NEW p \in Positions, NEW c \in SUBSET Offsets,
         \A o \in Offsets \ {p % W} : o \in c <=> o \in b[p \div W]
  PROVE  LET d == [b EXCEPT ![p \div W] = c]
         IN  /\ Wellformed(d)
             /\ \A q \in Positions \ {p} : Test(d, q) <=> Test(b, q)
             /\ Test(d, p) <=> p % W \in c
  <1> DEFINE d == [b EXCEPT ![p \div W] = c]
  <1>1. p \div W \in BlockNumbers /\ p % W \in Offsets /\ p \in Nat
        /\ (p \div W = Last => p % W \in HighMask)
    BY Place
  <1>2. Wellformed(d)
    BY <1>1, LastInBlocks, HighMaskExact DEF Wellformed
  <1>3. ASSUME NEW q \in Positions \ {p}
        PROVE  Test(d, q) <=> Test(b, q)
    <2>1. q \in Nat /\ q \div W \in BlockNumbers /\ q % W \in Offsets
      BY Place
    <2>2. CASE q \div W = p \div W
      <3>1. q % W # p % W
        BY <1>1, <2>1, <2>2, SamePlace
      <3> QED BY <3>1, <1>1, <2>1, <2>2 DEF Test, Wellformed
    <2>3. CASE q \div W # p \div W
      BY <1>1, <2>1, <2>3 DEF Test, Wellformed
    <2> QED BY <2>2, <2>3
  <1>4. Test(d, p) <=> p % W \in c
    BY <1>1 DEF Test, Wellformed
  <1> QED BY <1>2, <1>3, <1>4

\* The position of a block and an offset, in Nat.
LEMMA Composed ==
  ASSUME NEW i \in Nat, NEW o \in Offsets
  PROVE  /\ W * i + o \in Nat
         /\ (W * i + o) \div W = i
         /\ (W * i + o) % W = o
  <1> DEFINE p == W * i + o
  <1>1. p \in Nat
    BY BitsetAssumption DEF Offsets
  <1>2. p = W * i + o /\ i \in Int
    OBVIOUS
  <1> HIDE DEF p
  <1>3. p \div W = i /\ p % W = o
    BY <1>1, <1>2, Unique
  <1> QED BY <1>1, <1>3 DEF p

\* Which bits are positions of the set.
LEMMA Member ==
  ASSUME NEW b, Wellformed(b), NEW i \in Nat, NEW o \in Offsets
  PROVE  W * i + o \in SetOf(b) <=> i \in BlockNumbers /\ o \in b[i]
  <1> DEFINE p == W * i + o
  <1>1. p \in Nat /\ p \div W = i /\ p % W = o
    BY Composed
  <1>2. p = W * i + o
    OBVIOUS
  <1> HIDE DEF p
  <1>3. ASSUME p \in SetOf(b)
        PROVE  i \in BlockNumbers /\ o \in b[i]
    BY <1>1, <1>3, Place DEF SetOf, Test
  <1>4. ASSUME i \in BlockNumbers, o \in b[i]
        PROVE  p \in SetOf(b)
    <2>1. /\ N \in Nat /\ W \in Nat /\ Last \in Nat /\ W > 0
          /\ o \in 0 .. W - 1
          /\ i <= Last
      BY <1>4, BitsetAssumption, LastBlock DEF Offsets, BlockNumbers
    <2>2. CASE i = Last
      <3>1. o \in HighMask
        BY <1>4, <2>2 DEF Wellformed
      <3>2. p < N
        BY <1>2, <2>1, <2>2, <3>1, HighMaskExact
      <3> QED BY <1>1, <1>4, <2>1, <3>2 DEF SetOf, Test, Positions
    <2>3. CASE i < Last
      <3>1. W * (i + 1) <= W * Last
        BY <2>1, <2>3
      <3>2. p < N
        BY <1>2, <2>1, <3>1, LastBlock
      <3> QED BY <1>1, <1>4, <2>1, <3>2 DEF SetOf, Test, Positions
    <2> QED BY <2>1, <2>2, <2>3
  <1> QED BY <1>3, <1>4 DEF p

-----------------------------------------------------------------------------
(* Shifts *)

LEMMA ShiftUpMoves ==
  ASSUME NEW b, Wellformed(b), NEW n \in 0 .. N
  PROVE  /\ Wellformed(ShiftedUp(b, n))
         /\ SetOf(ShiftedUp(b, n)) = {p \in Positions : p - n \in SetOf(b)}
  <1> DEFINE j == n \div W
             k == n % W
             f == [i \in BlockNumbers |->
                     IF i < j THEN {}
                     ELSE BlockUp(b[i - j], k) \cup
                          IF k # 0 /\ i > j
                            THEN BlockDown(b[i - j - 1], W - k)
                            ELSE {}]
  <1>1. CASE n >= N
    <2>1. \A p \in Positions : p - n \notin Positions
      BY <1>1, BitsetAssumption DEF Positions
    <2>2. ShiftedUp(b, n) = Zero
      BY <1>1 DEF ShiftedUp
    <2> QED BY <2>1, <2>2, ZeroIsEmpty DEF SetOf
  <1>2. CASE n < N
    <2>1. /\ N \in Nat /\ W \in Nat /\ W > 0
          /\ j \in Nat /\ k \in Offsets /\ k \in 0 .. W - 1
          /\ n = W * j + k /\ n \in Nat /\ Last \in Nat
      BY BitsetAssumption, LastBlock, Split DEF Offsets
    <2>2. ShiftedUp(b, n) = Trimmed(f)
      BY <1>2, <2>1 DEF ShiftedUp
    <2>3. f \in [BlockNumbers -> SUBSET Offsets]
      BY DEF BlockUp, BlockDown
    <2>4. ASSUME NEW p \in Positions
          PROVE  Test(f, p) <=> p - n \in SetOf(b)
      <3> DEFINE i == p \div W
                 o == p % W
      <3>1. /\ i \in BlockNumbers /\ o \in Offsets /\ p \in Nat
            /\ p = W * i + o /\ i \in Nat /\ o \in 0 .. W - 1
        BY Place, Split DEF Offsets
      <3>2. Test(f, p) <=> o \in f[i]
        BY DEF Test
      <3>3. \A m \in BlockNumbers : b[m] \subseteq Offsets
        BY DEF Wellformed
      <3> HIDE DEF i, o, j, k
      <3>4. CASE i < j
        <4>1. W * (i + 1) <= W * j
          BY <2>1, <3>1, <3>4
        <4>2. p - n < 0
          BY <2>1, <3>1, <4>1
        <4>3. p - n \notin SetOf(b)
          BY <4>2, <2>1, <3>1 DEF SetOf, Positions
        <4> QED BY <3>1, <3>2, <3>4, <4>3
      <3>5. CASE i >= j /\ o >= k
        <4>1. /\ i - j \in Nat /\ o - k \in Offsets
              /\ i - j \in BlockNumbers
          BY <2>1, <3>1, <3>5 DEF Offsets, BlockNumbers
        <4>2. p - n = W * (i - j) + (o - k)
          BY <2>1, <3>1, <3>5
        <4>3. p - n \in SetOf(b) <=> o - k \in b[i - j]
          BY <4>1, <4>2, Member
        <4>4. i > j => o + (W - k) \notin b[i - j - 1]
          <5>1. o + (W - k) \notin Offsets
            BY <2>1, <3>1, <3>5 DEF Offsets
          <5>2. i > j => i - j - 1 \in BlockNumbers
            BY <2>1, <3>1 DEF BlockNumbers
          <5> QED BY <5>1, <5>2, <3>3
        <4>5. o \in f[i] <=> o - k \in b[i - j]
          BY <2>1, <3>1, <3>5, <4>4 DEF BlockUp, BlockDown
        <4> QED BY <3>2, <4>3, <4>5
      <3>6. CASE i > j /\ o < k
        <4>1. /\ i - j - 1 \in Nat /\ o + (W - k) \in Offsets
              /\ i - j \in BlockNumbers /\ i - j - 1 \in BlockNumbers
          BY <2>1, <3>1, <3>6 DEF Offsets, BlockNumbers
        <4>2. p - n = W * (i - j - 1) + (o + (W - k))
          <5>1. W * (i - j - 1) = W * i - W * j - W
            BY <2>1, <3>1
          <5> QED BY <5>1, <2>1, <3>1
        <4>3. p - n \in SetOf(b) <=> o + (W - k) \in b[i - j - 1]
          BY <4>1, <4>2, Member
        <4>4. o - k \notin b[i - j]
          <5>1. o - k \notin Offsets
            BY <2>1, <3>1, <3>6 DEF Offsets
          <5> QED BY <5>1, <4>1, <3>3
        <4>5. o \in f[i] <=> o + (W - k) \in b[i - j - 1]
          BY <2>1, <3>1, <3>6, <4>4 DEF BlockUp, BlockDown
        <4> QED BY <3>2, <4>3, <4>5
      <3>7. CASE i = j /\ o < k
        <4>1. p - n < 0
          BY <2>1, <3>1, <3>7
        <4>2. p - n \notin SetOf(b)
          BY <4>1, <2>1, <3>1 DEF SetOf, Positions
        <4>3. o - k \notin b[i - j]
          <5>1. o - k \notin Offsets
            BY <2>1, <3>1, <3>7 DEF Offsets
          <5>2. i - j \in BlockNumbers
            BY <2>1, <3>1, <3>7 DEF BlockNumbers
          <5> QED BY <5>1, <5>2, <3>3
        <4> QED BY <2>1, <3>1, <3>2, <3>7, <4>2, <4>3 DEF BlockUp
      <3> QED BY <2>1, <3>1, <3>4, <3>5, <3>6, <3>7
    <2> HIDE DEF f
    <2> QED BY <2>2, <2>3, <2>4, TrimmedIsSame DEF SetOf
  <1> QED BY <1>1, <1>2, BitsetAssumption

LEMMA ShiftDownMoves ==
  ASSUME NEW b, Wellformed(b), NEW n \in 0 .. N
  PROVE  /\ Wellformed(ShiftedDown(b, n))
         /\ SetOf(ShiftedDown(b, n)) =
              {p \in Positions : p + n \in SetOf(b)}
  <1> DEFINE j == n \div W
             k == n % W
             f == [i \in BlockNumbers |->
                     IF i + j > Last THEN {}
                     ELSE BlockDown(b[i + j], k) \cup
                          IF k # 0 /\ i + j + 1 <= Last
                            THEN BlockUp(b[i + j + 1], W - k)
                            ELSE {}]
  <1>1. CASE n >= N
    <2>1. \A p \in Positions : p + n \notin Positions
      BY <1>1, BitsetAssumption DEF Positions
    <2>2. ShiftedDown(b, n) = Zero
      BY <1>1 DEF ShiftedDown
    <2> QED BY <2>1, <2>2, ZeroIsEmpty DEF SetOf
  <1>2. CASE n < N
    <2>1. /\ N \in Nat /\ W \in Nat /\ W > 0
          /\ j \in Nat /\ k \in Offsets /\ k \in 0 .. W - 1
          /\ n = W * j + k /\ n \in Nat /\ Last \in Nat
      BY BitsetAssumption, LastBlock, Split DEF Offsets
    <2>2. ShiftedDown(b, n) = f
      BY <1>2, <2>1 DEF ShiftedDown
    <2>3. f \in [BlockNumbers -> SUBSET Offsets]
      BY DEF BlockUp, BlockDown
    <2>4. \A m \in BlockNumbers : b[m] \subseteq Offsets
      BY DEF Wellformed
    <2>5. f[Last] \subseteq HighMask
      <3> HIDE DEF j, k
      <3> SUFFICES ASSUME NEW o \in Offsets, o \in f[Last]
                   PROVE  o \in HighMask
        BY <2>3, LastInBlocks
      <3>1. j = 0 /\ o + k \in b[Last]
        BY <2>1, LastInBlocks DEF BlockDown
      <3>2. o + k \in HighMask /\ o + k \in Offsets
        BY <3>1, <2>4, LastInBlocks DEF Wellformed
      <3>3. W * Last + (o + k) < N
        BY <3>2, HighMaskExact
      <3>4. W * Last + o < N
        BY <3>3, <2>1 DEF Offsets
      <3> QED BY <3>4, HighMaskExact
    <2>6. ASSUME NEW p \in Positions
          PROVE  Test(f, p) <=> p + n \in SetOf(b)
      <3> DEFINE i == p \div W
                 o == p % W
      <3>1. /\ i \in BlockNumbers /\ o \in Offsets /\ p \in Nat
            /\ p = W * i + o /\ i \in Nat /\ o \in 0 .. W - 1
        BY Place, Split DEF Offsets
      <3>2. Test(f, p) <=> o \in f[i]
        BY DEF Test
      <3> HIDE DEF i, o, j, k
      <3>3. CASE o + k < W
        <4>1. i + j \in Nat /\ o + k \in Offsets
          BY <2>1, <3>1, <3>3 DEF Offsets
        <4>2. p + n = W * (i + j) + (o + k)
          BY <2>1, <3>1
        <4>3. p + n \in SetOf(b) <=>
                i + j \in BlockNumbers /\ o + k \in b[i + j]
          BY <4>1, <4>2, Member
        <4>4. i + j \in BlockNumbers <=> i + j <= Last
          BY <2>1, <3>1 DEF BlockNumbers
        <4>5. i + j + 1 <= Last => o - (W - k) \notin b[i + j + 1]
          <5>1. o - (W - k) \notin Offsets
            BY <2>1, <3>1, <3>3 DEF Offsets
          <5>2. i + j + 1 <= Last => i + j + 1 \in BlockNumbers
            BY <2>1, <3>1 DEF BlockNumbers
          <5> QED BY <5>1, <5>2, <2>4
        <4>6. o \in f[i] <=> i + j <= Last /\ o + k \in b[i + j]
          BY <2>1, <3>1, <4>5 DEF BlockUp, BlockDown
        <4> QED BY <3>2, <4>3, <4>4, <4>6
      <3>4. CASE o + k >= W
        <4>1. i + j + 1 \in Nat /\ o - (W - k) \in Offsets /\ k # 0
          BY <2>1, <3>1, <3>4 DEF Offsets
        <4>2. p + n = W * (i + j + 1) + (o - (W - k))
          <5>1. W * (i + j + 1) = W * i + W * j + W
            BY <2>1, <3>1
          <5> QED BY <5>1, <2>1, <3>1
        <4>3. p + n \in SetOf(b) <=>
                /\ i + j + 1 \in BlockNumbers
                /\ o - (W - k) \in b[i + j + 1]
          BY <4>1, <4>2, Member
        <4>4. i + j + 1 \in BlockNumbers <=> i + j + 1 <= Last
          BY <2>1, <3>1 DEF BlockNumbers
        <4>5. i + j <= Last => o + k \notin b[i + j]
          <5>1. o + k \notin Offsets
            BY <2>1, <3>1, <3>4 DEF Offsets
          <5>2. i + j <= Last => i + j \in BlockNumbers
            BY <2>1, <3>1 DEF BlockNumbers
          <5> QED BY <5>1, <5>2, <2>4
        <4>6. o \in f[i] <=>
                i + j + 1 <= Last /\ o - (W - k) \in b[i + j + 1]
          BY <2>1, <3>1, <4>1, <4>5 DEF BlockUp, BlockDown
        <4> QED BY <3>2, <4>3, <4>4, <4>6
      <3> QED BY <2>1, <3>1, <3>3, <3>4
    <2> HIDE DEF f
    <2> QED BY <2>2, <2>3, <2>5, <2>6 DEF SetOf, Wellformed
  <1> QED BY <1>1, <1>2, BitsetAssumption

-----------------------------------------------------------------------------
(* The other operations *)

LEMMA BitIsPut ==
  ASSUME NEW b, Wellformed(b), NEW p \in Positions
  PROVE  LET d == [b EXCEPT ![p \div W] = @ \cup {p % W}]
         IN  Wellformed(d) /\ SetOf(d) = SetOf(b) \cup {p}
  <1> DEFINE c == b[p \div W] \cup {p % W}
  <1>1. c \in SUBSET Offsets
    BY Place DEF Wellformed
  <1>2. \A o \in Offsets \ {p % W} : o \in c <=> o \in b[p \div W]
    OBVIOUS
  <1>3. p % W \in c
    OBVIOUS
  <1> HIDE DEF c
  <1> DEFINE d == [b EXCEPT ![p \div W] = c]
  <1>4. /\ Wellformed(d)
        /\ \A q \in Positions \ {p} : Test(d, q) <=> Test(b, q)
        /\ Test(d, p)
    BY <1>1, <1>2, <1>3, OneBit
  <1>5. Wellformed(d) /\ SetOf(d) = SetOf(b) \cup {p}
    <2> HIDE DEF d
    <2> QED BY <1>4 DEF SetOf
  <1> QED BY <1>5 DEF c

LEMMA BitIsRemoved ==
  ASSUME NEW b, Wellformed(b), NEW p \in Positions
  PROVE  LET d == [b EXCEPT ![p \div W] = @ \ {p % W}]
         IN  Wellformed(d) /\ SetOf(d) = SetOf(b) \ {p}
  <1> DEFINE c == b[p \div W] \ {p % W}
  <1>1. c \in SUBSET Offsets
    BY Place DEF Wellformed
  <1>2. \A o \in Offsets \ {p % W} : o \in c <=> o \in b[p \div W]
    OBVIOUS
  <1>3. p % W \notin c
    OBVIOUS
  <1> HIDE DEF c
  <1>4. LET d == [b EXCEPT ![p \div W] = c]
        IN  Wellformed(d) /\ SetOf(d) = SetOf(b) \ {p}
    BY <1>1, <1>2, <1>3, OneBit DEF SetOf
  <1>5. [b EXCEPT ![p \div W] = @ \ {p % W}]
          = [b EXCEPT ![p \div W] = c]
    BY DEF c
  <1> QED BY <1>4, <1>5

LEMMA BitIsToggled ==
  ASSUME NEW b, Wellformed(b), NEW p \in Positions
  PROVE  LET d == [b EXCEPT ![p \div W] = Differing(@, {p % W})]
         IN  /\ Wellformed(d)
             /\ SetOf(d) = IF p \in SetOf(b) THEN SetOf(b) \ {p}
                                             ELSE SetOf(b) \cup {p}
  <1> DEFINE c == Differing(b[p \div W], {p % W})
  <1>1. c \in SUBSET Offsets
    BY Place DEF Wellformed, Differing
  <1>2. \A o \in Offsets \ {p % W} : o \in c <=> o \in b[p \div W]
    BY DEF Differing
  <1>3. p % W \in c <=> ~Test(b, p)
    BY DEF Differing, Test
  <1> HIDE DEF c
  <1>4. LET d == [b EXCEPT ![p \div W] = c]
        IN  /\ Wellformed(d)
            /\ SetOf(d) = IF p \in SetOf(b) THEN SetOf(b) \ {p}
                                            ELSE SetOf(b) \cup {p}
    <2> DEFINE d == [b EXCEPT ![p \div W] = c]
    <2>1. /\ Wellformed(d)
          /\ \A q \in Positions \ {p} : Test(d, q) <=> Test(b, q)
          /\ Test(d, p) <=> ~Test(b, p)
      BY <1>1, <1>2, <1>3, OneBit
    <2> HIDE DEF d
    <2>2. SetOf(d) = IF p \in SetOf(b) THEN SetOf(b) \ {p}
                                       ELSE SetOf(b) \cup {p}
      BY <2>1 DEF SetOf
    <2> QED BY <2>1, <2>2 DEF d
  <1>5. [b EXCEPT ![p \div W] = Differing(@, {p % W})]
          = [b EXCEPT ![p \div W] = c]
    BY DEF c, Differing
  <1> QED BY <1>4, <1>5

\* The complement within the positions.
LEMMA FlipIsComplement ==
  ASSUME NEW b, Wellformed(b)
  PROVE  /\ Wellformed(Flipped(b))
         /\ SetOf(Flipped(b)) = Positions \ SetOf(b)
  <1> DEFINE f == [i \in BlockNumbers |-> Offsets \ b[i]]
  <1>1. f \in [BlockNumbers -> SUBSET Offsets]
    OBVIOUS
  <1>2. SetOf(f) = Positions \ SetOf(b)
    BY Place DEF SetOf, Test
  <1> QED BY <1>1, <1>2, TrimmedIsSame DEF Flipped

\* &=, |= and ^= block by block are those of the sets.
LEMMA BlockwiseAnd ==
  ASSUME NEW b, Wellformed(b), NEW c, Wellformed(c),
         NEW d \in [BlockNumbers -> SUBSET Offsets],
         \A i \in BlockNumbers : d[i] = b[i] \cap c[i]
  PROVE  Wellformed(d) /\ SetOf(d) = SetOf(b) \cap SetOf(c)
  BY Place, LastInBlocks DEF SetOf, Test, Wellformed, Differing

LEMMA BlockwiseOr ==
  ASSUME NEW b, Wellformed(b), NEW c, Wellformed(c),
         NEW d \in [BlockNumbers -> SUBSET Offsets],
         \A i \in BlockNumbers : d[i] = b[i] \cup c[i]
  PROVE  Wellformed(d) /\ SetOf(d) = SetOf(b) \cup SetOf(c)
  BY Place, LastInBlocks DEF SetOf, Test, Wellformed, Differing

LEMMA BlockwiseXor ==
  ASSUME NEW b, Wellformed(b), NEW c, Wellformed(c),
         NEW d \in [BlockNumbers -> SUBSET Offsets],
         \A i \in BlockNumbers : d[i] = Differing(b[i], c[i])
  PROVE  Wellformed(d) /\ SetOf(d) = 
                   (SetOf(b) \cup SetOf(c)) \ (SetOf(b) \cap SetOf(c))
  BY Place, LastInBlocks DEF SetOf, Test, Wellformed, Differing

-----------------------------------------------------------------------------
(* The theorems *)

\* The sets that a step of PositionSets may make of bitset x.
MayBecome(x, s) ==
  \/ \E p \in Positions : \/ s = SetOf(blocks_[x]) \cup {p}
                          \/ s = SetOf(blocks_[x]) \ {p}
  \/ s = {}
  \/ s = Positions \ SetOf(blocks_[x])
  \/ \E y \in Names :
       \/ s = SetOf(blocks_[x]) \cap SetOf(blocks_[y])
       \/ s = SetOf(blocks_[x]) \cup SetOf(blocks_[y])
       \/ s = (SetOf(blocks_[x]) \cup SetOf(blocks_[y]))
              \ (SetOf(blocks_[x]) \cap SetOf(blocks_[y]))
       \/ \E n \in 0 .. N :
            \/ s = {p \in Positions : p - n \in SetOf(blocks_[y])}
            \/ s = {p \in Positions : p + n \in SetOf(blocks_[y])}

LEMMA StepMaps ==
  ASSUME HighBitsClear, Next
  PROVE  \E x \in Names : \E d : /\ Wellformed(d)
                                 /\ Becomes(x, d)
                                 /\ MayBecome(x, SetOf(d))
  <1>1. \A y \in Names : Wellformed(blocks_[y])
    BY DEF HighBitsClear, Wellformed
  <1>2. PICK x \in Names :
          \/ \E p \in Positions : \/ SetBit(x, p) \/ ResetBit(x, p)
                                 \/ FlipBit(x, p)
          \/ Reset(x) \/ Flip(x)
          \/ \E y \in Names : \/ And(x, y) \/ Or(x, y) \/ Xor(x, y)
                              \/ \E n \in 0 .. N : \/ ShiftUp(x, y, n)
                                                   \/ ShiftDown(x, y, n)
    BY DEF Next
  <1>3. CASE \E p \in Positions : SetBit(x, p)
    <2>1. PICK p \in Positions : SetBit(x, p)
      BY <1>3
    <2> DEFINE d == [blocks_[x] EXCEPT ![p \div W] = @ \cup {p % W}]
    <2>2. Becomes(x, d)
      BY <2>1 DEF SetBit
    <2>3. Wellformed(d) /\ MayBecome(x, SetOf(d))
      BY <1>1, BitIsPut DEF MayBecome
    <2> HIDE DEF d
    <2> QED BY <2>2, <2>3
  <1>4. CASE \E p \in Positions : ResetBit(x, p)
    <2>1. PICK p \in Positions : ResetBit(x, p)
      BY <1>4
    <2> DEFINE d == [blocks_[x] EXCEPT ![p \div W] = @ \ {p % W}]
    <2>2. Becomes(x, d)
      BY <2>1 DEF ResetBit
    <2>3. Wellformed(d) /\ MayBecome(x, SetOf(d))
      BY <1>1, BitIsRemoved DEF MayBecome
    <2> HIDE DEF d
    <2> QED BY <2>2, <2>3
  <1>5. CASE \E p \in Positions : FlipBit(x, p)
    <2>1. PICK p \in Positions : FlipBit(x, p)
      BY <1>5
    <2> DEFINE d == [blocks_[x] EXCEPT ![p \div W] =
                                           Differing(@, {p % W})]
    <2>2. Becomes(x, d)
      BY <2>1 DEF FlipBit
    <2>3. Wellformed(d) /\ MayBecome(x, SetOf(d))
      BY <1>1, BitIsToggled DEF MayBecome
    <2> HIDE DEF d
    <2> QED BY <2>2, <2>3
  <1>6. CASE Reset(x)
    BY <1>6, ZeroIsEmpty DEF Reset, MayBecome
  <1>7. CASE Flip(x)
    BY <1>1, <1>7, FlipIsComplement DEF Flip, MayBecome
  <1>8. CASE \E y \in Names : And(x, y)
    <2>1. PICK y \in Names : And(x, y)
      BY <1>8
    <2> DEFINE d == [i \in BlockNumbers |-> blocks_[x][i] \cap blocks_[y][i]]
    <2>2. Becomes(x, d)
      BY <2>1 DEF And
    <2>3. d \in [BlockNumbers -> SUBSET Offsets]
      BY <1>1 DEF Wellformed, Differing
    <2>4. Wellformed(d) /\ MayBecome(x, SetOf(d))
      BY <1>1, <2>3, BlockwiseAnd DEF MayBecome
    <2> HIDE DEF d
    <2> QED BY <2>2, <2>4
  <1>9. CASE \E y \in Names : Or(x, y)
    <2>1. PICK y \in Names : Or(x, y)
      BY <1>9
    <2> DEFINE d == [i \in BlockNumbers |-> blocks_[x][i] \cup blocks_[y][i]]
    <2>2. Becomes(x, d)
      BY <2>1 DEF Or
    <2>3. d \in [BlockNumbers -> SUBSET Offsets]
      BY <1>1 DEF Wellformed, Differing
    <2>4. Wellformed(d) /\ MayBecome(x, SetOf(d))
      BY <1>1, <2>3, BlockwiseOr DEF MayBecome
    <2> HIDE DEF d
    <2> QED BY <2>2, <2>4
  <1>10. CASE \E y \in Names : Xor(x, y)
    <2>1. PICK y \in Names : Xor(x, y)
      BY <1>10
    <2> DEFINE d == [i \in BlockNumbers |->
                       Differing(blocks_[x][i], blocks_[y][i])]
    <2>2. Becomes(x, d)
      BY <2>1 DEF Xor
    <2>3. d \in [BlockNumbers -> SUBSET Offsets]
      BY <1>1 DEF Wellformed, Differing
    <2>4. Wellformed(d) /\ MayBecome(x, SetOf(d))
      BY <1>1, <2>3, BlockwiseXor DEF MayBecome
    <2> HIDE DEF d
    <2> QED BY <2>2, <2>4
  <1>11. CASE \E y \in Names, n \in 0 .. N : ShiftUp(x, y, n)
    BY <1>1, <1>11, ShiftUpMoves DEF ShiftUp, MayBecome
  <1>12. CASE \E y \in Names, n \in 0 .. N : ShiftDown(x, y, n)
    BY <1>1, <1>12, ShiftDownMoves DEF ShiftDown, MayBecome
  <1> QED BY <1>2, <1>3, <1>4, <1>5, <1>6, <1>7, <1>8, <1>9, <1>10, <1>11,
             <1>12

\* The bits behind the last are never set, for every N and W: what count, any
\* and == rely on when they look at whole blocks.
THEOREM BitsInvariance == Spec => []HighBitsClear
  <1>1. Init => HighBitsClear
    BY ZeroIsEmpty DEF Init, HighBitsClear, Wellformed
  <1>2. HighBitsClear /\ [Next]_blocks_ => HighBitsClear'
    <2> SUFFICES ASSUME HighBitsClear, [Next]_blocks_ PROVE HighBitsClear'
      OBVIOUS
    <2>1. CASE Next
      <3>1. PICK x \in Names : \E d : Wellformed(d) /\ Becomes(x, d)
        BY <2>1, StepMaps
      <3>2. PICK d : Wellformed(d) /\ Becomes(x, d)
        BY <3>1
      <3> QED BY <3>2 DEF HighBitsClear, Wellformed, Becomes
    <2>2. CASE UNCHANGED blocks_
      BY <2>2 DEF HighBitsClear
    <2> QED BY <2>1, <2>2
  <1> QED BY <1>1, <1>2, PTL DEF Spec

\* == compares the sets, although it compares blocks.
THEOREM EqualSets ==
  ASSUME HighBitsClear, NEW x \in Names, NEW y \in Names
  PROVE  (blocks_[x] = blocks_[y]) <=> (SetOf(blocks_[x]) = SetOf(blocks_[y]))
  <1> DEFINE b == blocks_[x]
             c == blocks_[y]
  <1>1. Wellformed(b) /\ Wellformed(c)
    BY DEF HighBitsClear, Wellformed
  <1> HIDE DEF b, c
  <1>2. ASSUME SetOf(b) = SetOf(c), NEW i \in BlockNumbers
        PROVE  b[i] = c[i]
    <2>1. i \in Nat
      BY DEF BlockNumbers
    <2>2. \A o \in Offsets : o \in b[i] <=> o \in c[i]
      BY <1>1, <1>2, <2>1, Member
    <2> QED BY <1>1, <2>2 DEF Wellformed
  <1>3. SetOf(b) = SetOf(c) => b = c
    BY <1>1, <1>2 DEF Wellformed
  <1> QED BY <1>3 DEF b, c

\* Every bitset is a set of positions, for every N and W.
THEOREM BitsRefinement == Spec => SetRefinement
  <1> DEFINE sets == [x \in Names |-> SetOf(blocks_[x])]
  <1>1. Init => Abstract!Init
    BY ZeroIsEmpty DEF Init, Abstract!Init
  <1>2. HighBitsClear /\ [Next]_blocks_ => [Abstract!Next]_sets
    <2> SUFFICES ASSUME HighBitsClear, [Next]_blocks_
                 PROVE  [Abstract!Next]_sets
      OBVIOUS
    <2>1. CASE UNCHANGED blocks_
      BY <2>1
    <2>2. CASE Next
      <3>0. PICK x \in Names : \E d : Becomes(x, d) /\ MayBecome(x, SetOf(d))
        BY <2>2, StepMaps
      <3>1. PICK d : Becomes(x, d) /\ MayBecome(x, SetOf(d))
        BY <3>0
      <3>2. sets' = [sets EXCEPT ![x] = SetOf(d)]
        BY <3>1 DEF Becomes, HighBitsClear
      <3>3. \A y \in Names : sets[y] = SetOf(blocks_[y])
        OBVIOUS
      <3>4. CASE \E p \in Positions : \/ SetOf(d) = sets[x] \cup {p}
                                     \/ SetOf(d) = sets[x] \ {p}
        <4>1. PICK p \in Positions : \/ SetOf(d) = sets[x] \cup {p}
                                    \/ SetOf(d) = sets[x] \ {p}
          BY <3>4
        <4>2. Abstract!Put(x, p) \/ Abstract!Remove(x, p)
          BY <3>2, <4>1 DEF Abstract!Put, Abstract!Remove, Abstract!Becomes
        <4> QED BY <4>2, Zenon DEF Abstract!Next, Abstract!Positions, Positions
      <3>5. CASE SetOf(d) = {}
        <4>1. Abstract!Becomes(x, {})
          BY <3>2, <3>5 DEF Abstract!Becomes
        <4> QED BY <4>1, Zenon DEF Abstract!Next
      <3>6. CASE SetOf(d) = Positions \ sets[x]
        <4>1. Abstract!Becomes(x, Abstract!Positions \ sets[x])
          BY <3>2, <3>6 DEF Abstract!Becomes, Abstract!Positions, Positions
        <4> QED BY <4>1, Zenon DEF Abstract!Next
      <3>7. CASE \E y \in Names :
                   \/ SetOf(d) = sets[x] \cap sets[y]
                   \/ SetOf(d) = sets[x] \cup sets[y]
                   \/ SetOf(d) =
                        (sets[x] \cup sets[y]) \ (sets[x] \cap sets[y])
        <4>1. \E y \in Names :
                \/ Abstract!Becomes(x, sets[x] \cap sets[y])
                \/ Abstract!Becomes(x, sets[x] \cup sets[y])
                \/ Abstract!Becomes(x, (sets[x] \cup sets[y])
                                         \ (sets[x] \cap sets[y]))
          BY <3>2, <3>7 DEF Abstract!Becomes
        <4> QED BY <4>1, Zenon DEF Abstract!Next
      <3>8. CASE \E y \in Names, n \in 0 .. N :
                   \/ SetOf(d) = {p \in Positions : p - n \in sets[y]}
                   \/ SetOf(d) = {p \in Positions : p + n \in sets[y]}
        <4>1. PICK y \in Names, n \in 0 .. N :
                   \/ SetOf(d) = {p \in Positions : p - n \in sets[y]}
                   \/ SetOf(d) = {p \in Positions : p + n \in sets[y]}
          BY <3>8
        <4>2. Abstract!Up(x, y, n) \/ Abstract!Down(x, y, n)
          BY <3>2, <4>1, Zenon
          DEF Abstract!Up, Abstract!Down, Abstract!Becomes,
              Abstract!Positions, Positions
        <4> QED BY <4>2, Zenon DEF Abstract!Next
      <3>9. CASE \E y \in Names, n \in 0 .. N :
                   \/ SetOf(d) =
                        {p \in Positions : p - n \in SetOf(blocks_[y])}
                   \/ SetOf(d) =
                        {p \in Positions : p + n \in SetOf(blocks_[y])}
        BY <3>3, <3>8, <3>9
      <3> HIDE DEF sets
      <3> QED
        BY <3>1, <3>3, <3>4, <3>5, <3>6, <3>7, <3>9 DEF MayBecome
    <2> QED BY <2>1, <2>2
  <1> QED BY <1>1, <1>2, BitsInvariance, PTL DEF Spec, SetRefinement, Abstract!Spec

-----------------------------------------------------------------------------
(* Optionals *)

\* What an optional has is what it is meant to have, so that the flag is right
\* and no object was lost.
OptionalInv ==
  /\ DOMAIN live = DOMAIN storage
  /\ live = [h \in DOMAIN live |-> live[h]]
  /\ storage = [h \in DOMAIN storage |-> storage[h]]
  /\ meant = storage
  /\ \A h \in DOMAIN live : live[h] = (storage[h] # Nothing)
  /\ lost = FALSE

\* The whole of an optional is written.
LEMMA Written ==
  ASSUME OptionalInv, NEW h, NEW v, Has(h, v), Means(h, v), lost' = FALSE
  PROVE  OptionalInv'
<1>1. /\ live' = [k \in {h} \cup DOMAIN live |->
                    IF k = h THEN v # Nothing ELSE live[k]]
      /\ storage' = [k \in {h} \cup DOMAIN storage |->
                       IF k = h THEN v ELSE storage[k]]
      /\ meant' = [k \in {h} \cup DOMAIN meant |->
                     IF k = h THEN v ELSE meant[k]]
  BY DEF Has, Means, With
<1> QED BY <1>1 DEF OptionalInv

LEMMA OptionalStep ==
  ASSUME OptionalInv, [OptionalNext]_optionalVars
  PROVE  OptionalInv'
<1>1. CASE UNCHANGED optionalVars
  BY <1>1 DEF OptionalInv, optionalVars
<1>2. ASSUME NEW h, ConstructEmpty(h) PROVE OptionalInv'
  BY <1>2, Written DEF ConstructEmpty, Unharmed, OptionalInv
<1>3. ASSUME NEW h, NEW v, ConstructFrom(h, v) PROVE OptionalInv'
  BY <1>3, Written DEF ConstructFrom, Unharmed, OptionalInv
<1>4. ASSUME NEW h, NEW k, CopyConstruct(h, k) PROVE OptionalInv'
  <2>1. k \in DOMAIN live
    BY <1>4 DEF CopyConstruct, Present
  <2>2. Has(h, storage[k]) /\ Means(h, storage[k]) /\ lost' = FALSE
    BY <1>4, <2>1 DEF CopyConstruct, OptionalInv
  <2> QED BY <2>2, Written
<1>5. ASSUME NEW h, NEW k, MoveConstructOptional(h, k) PROVE OptionalInv'
  <2>1. k \in DOMAIN live /\ h \notin DOMAIN live
    BY <1>5 DEF MoveConstructOptional, Present, Absent
  <2>2. CASE live[k]
    <3>1. storage[k] # Nothing /\ Moved # Nothing
      BY <2>1, <2>2, OptionalsAssumption DEF OptionalInv
    <3>2. /\ live' = [j \in {h} \cup DOMAIN live |->
                        IF j = h THEN TRUE ELSE live[j]]
          /\ storage' = [j \in {h} \cup DOMAIN storage |->
                           IF j = h THEN storage[k]
                           ELSE IF j = k THEN Moved ELSE storage[j]]
          /\ meant' = [j \in {h} \cup DOMAIN meant |->
                         IF j = h THEN meant[k]
                         ELSE IF j = k THEN Moved ELSE meant[j]]
          /\ lost' = FALSE
      <4>1. /\ meant = storage /\ DOMAIN live = DOMAIN storage
            /\ meant[k] # Nothing /\ lost = FALSE
        BY <3>1 DEF OptionalInv
      <4>2. /\ live' = With(live, h, TRUE)
            /\ storage' = With(With(storage, k, Moved), h, storage[k])
            /\ meant' = With(With(meant, k, Moved), h, meant[k])
            /\ lost' = FALSE
        BY <1>5, <2>2, <3>1, <4>1 DEF MoveConstructOptional
      <4> QED BY <2>1, <4>1, <4>2 DEF With
    <3> QED BY <2>1, <2>2, <3>1, <3>2 DEF OptionalInv
  <2>3. CASE ~live[k]
    <3>1. meant[k] = Nothing
      BY <2>1, <2>3 DEF OptionalInv
    <3>2. Has(h, Nothing) /\ lost' = FALSE
      BY <1>5, <2>3 DEF MoveConstructOptional, Unharmed, OptionalInv
    <3>3. meant' = [j \in {h} \cup DOMAIN meant |->
                      IF j = h THEN Nothing ELSE meant[j]]
      BY <1>5, <2>1, <3>1
      DEF MoveConstructOptional, OptionalInv, With
    <3>4. Means(h, Nothing)
      BY <3>3 DEF Means, With
    <3> QED BY <3>2, <3>4, Written
  <2> QED BY <2>2, <2>3
<1>6. ASSUME NEW h, h \in Present
      PROVE  /\ h \in DOMAIN live
             /\ AfterReset(h).bad = FALSE
             /\ AfterReset(h).object = Nothing
             /\ AfterReset(h).live = FALSE
  BY <1>6 DEF Present, AfterReset, OptionalInv
<1>7. ASSUME NEW h, h \in Present, ResetObject(h), Means(h, Nothing)
      PROVE  OptionalInv'
  <2>1. /\ live' = [live EXCEPT ![h] = FALSE]
        /\ storage' = [storage EXCEPT ![h] = Nothing]
        /\ lost' = lost /\ UNCHANGED threw
    BY <1>7, <1>6 DEF ResetObject, OptionalInv
  <2>2. h \in DOMAIN live /\ h \in DOMAIN storage
    BY <1>7, <1>6 DEF OptionalInv
  <2>3. live' = With(live, h, FALSE)
    BY <2>1, <2>2 DEF With
  <2>4. storage' = With(storage, h, Nothing)
    BY <2>1, <2>2 DEF With
  <2>5. (Nothing # Nothing) = FALSE
    OBVIOUS
  <2>6. Has(h, Nothing)
    BY <2>1, <2>3, <2>4, <2>5 DEF Has
  <2>7. lost' = FALSE
    BY <2>1 DEF OptionalInv
  <2> QED BY <2>6, <2>7, <1>7, Written
<1>8. ASSUME NEW h, NEW v, h \in Present, Emplaced(h, v), Means(h, v)
      PROVE  OptionalInv'
  BY <1>8, <1>6, Written DEF Emplaced, OptionalInv
<1>9. ASSUME NEW h, NEW v, h \in Present, live[h], v # Nothing,
             AssignObject(h, v), Means(h, v)
      PROVE  OptionalInv'
  <2>1. h \in DOMAIN live /\ live[h] /\ lost = FALSE
    BY <1>9, <1>6 DEF OptionalInv
  <2>2. live' = With(live, h, v # Nothing)
    <3>1. live' = live /\ DOMAIN live \cup {h} = DOMAIN live
      BY <2>1, <1>9 DEF AssignObject
    <3>2. live = [i \in DOMAIN live |-> IF i = h THEN v # Nothing ELSE live[i]]
      BY <2>1, <1>9 DEF OptionalInv
    <3> QED BY <3>1, <3>2 DEF With
  <2>3. storage' = With(storage, h, v)
    <3>1. h \in DOMAIN storage /\ DOMAIN storage \cup {h} = DOMAIN storage
      BY <2>1 DEF OptionalInv
    <3> QED BY <3>1, <1>9 DEF AssignObject, With, OptionalInv
  <2>4. lost' = FALSE
    BY <2>1, <1>9 DEF AssignObject, OptionalInv
  <2> QED BY <2>2, <2>3, <2>4, <1>9, Written DEF Has, AssignObject
<1>10. ASSUME NEW h, NEW v \in Values, AssignValue(h, v) PROVE OptionalInv'
  BY <1>10, <1>8, <1>9, OptionalsAssumption DEF AssignValue
<1>11. ASSUME NEW h, NEW k, CopyAssign(h, k) PROVE OptionalInv'
  <2>1. /\ h \in Present /\ k \in Present
        /\ AssignFrom(h, k) /\ Means(h, storage[k])
        /\ live[k] = (storage[k] # Nothing)
    BY <1>11 DEF CopyAssign, OptionalInv, Present
  <2>2. CASE live[k] /\ live[h]
    BY <2>1, <2>2, <1>9 DEF AssignFrom
  <2>3. CASE live[k] /\ ~live[h]
    BY <2>1, <2>3, <1>8 DEF AssignFrom
  <2>4. CASE ~live[k] /\ live[h]
    BY <2>1, <2>4, <1>7 DEF AssignFrom
  <2>5. CASE ~live[k] /\ ~live[h]
    <3>1. storage[h] = Nothing /\ storage[k] = Nothing /\ h \in DOMAIN live
      BY <2>1, <2>5 DEF OptionalInv, Present
    <3>2. Has(h, Nothing) /\ lost' = FALSE
      BY <2>1, <2>5, <3>1 DEF AssignFrom, Has, OptionalInv, With
    <3> QED BY <2>1, <3>1, <3>2, Written
  <2> QED BY <2>2, <2>3, <2>4, <2>5
<1>12. ASSUME NEW h, DestroyOptional(h) PROVE OptionalInv'
  <2>1. h \in Present /\ Present = DOMAIN live
    BY <1>12 DEF DestroyOptional, Present
  <2> QED BY <2>1, <1>6, <1>12 DEF DestroyOptional, Restrict, OptionalInv
<1>13. ASSUME NEW h, ValueFails(h) \/ Value(h) PROVE OptionalInv'
  BY <1>13 DEF ValueFails, Value, Present, OptionalInv
<1> QED
  BY <1>1, <1>2, <1>3, <1>4, <1>5, <1>7, <1>8, <1>10, <1>11, <1>12, <1>13
  DEF OptionalNext, ResetOptional, Emplace

\* The flag, the storage and what the optional is meant to have agree after
\* any sequence of the functions of optional.
THEOREM OptionalsHold == OptionalSpec => []OptionalsOwned
<1>1. OptionalInit => OptionalInv
  BY DEF OptionalInit, OptionalInv
<1>2. OptionalInv /\ [OptionalNext]_optionalVars => OptionalInv'
  BY OptionalStep
<1>3. OptionalInv => OptionalsOwned
  BY DEF OptionalInv, OptionalsOwned, FlagIsObject, ObjectsLiveOnce,
         HasWhatWasMeant
<1> QED BY <1>1, <1>2, <1>3, PTL DEF OptionalSpec

-----------------------------------------------------------------------------
(* Chains *)

\* What the pointers of f lead to, apart from Null.
Things(f) == DOMAIN f \cap Pointees

Pointing(f) ==
  /\ DOMAIN f \subseteq Variables \cup Pointees
  /\ f \in [DOMAIN f -> Pointees \cup {NullPtr}]

\* A chain is the least closed set that its first object is in.
LEMMA ChainLeast ==
  ASSUME NEW f, NEW o, NEW S \in SUBSET Pointees, Closed(f, S),
         o \in S \cup {NullPtr}
  PROVE  ChainIn(f, o) \subseteq S
BY DEF ChainIn

LEMMA ChainClosed ==
  ASSUME NEW f, Pointing(f), NEW o \in Pointees \cup {NullPtr}
  PROVE  /\ ChainIn(f, o) \subseteq Pointees
         /\ Closed(f, ChainIn(f, o))
         /\ o \in ChainIn(f, o) \cup {NullPtr}
<1>1. o \in ChainIn(f, o) \cup {NullPtr}
  BY DEF ChainIn
<1>2. ASSUME NEW p \in ChainIn(f, o), p \in DOMAIN f
      PROVE  f[p] \in ChainIn(f, o) \cup {NullPtr}
  <2> SUFFICES ASSUME f[p] # NullPtr, NEW S \in SUBSET Pointees, Closed(f, S),
                      o \in S \cup {NullPtr}
               PROVE  f[p] \in S
    BY <1>2 DEF ChainIn, Pointing
  <2>1. p \in S
    BY DEF ChainIn
  <2> QED BY <1>2, <2>1 DEF Closed
<1> QED BY <1>1, <1>2 DEF Closed, ChainIn

\* Nothing is behind Null.
LEMMA ChainNull ==
  ASSUME NEW f
  PROVE  ChainIn(f, NullPtr) = {}
<1>1. Closed(f, {})
  BY DEF Closed
<1> QED BY <1>1, ChainLeast

\* With fewer pointers there is less behind an object.
LEMMA ChainLess ==
  ASSUME NEW f, NEW g, NEW o, Pointing(f), o \in Pointees \cup {NullPtr},
         DOMAIN g \subseteq DOMAIN f,
         \A p \in DOMAIN g : g[p] \in {f[p], NullPtr}
  PROVE  ChainIn(g, o) \subseteq ChainIn(f, o)
<1>1. /\ ChainIn(f, o) \in SUBSET Pointees
      /\ Closed(f, ChainIn(f, o))
      /\ o \in ChainIn(f, o) \cup {NullPtr}
  BY ChainClosed
<1>2. Closed(g, ChainIn(f, o))
  BY <1>1 DEF Closed
<1> QED BY <1>1, <1>2, ChainLeast

\* A pointer that is not in the chain does not matter to it.
LEMMA ChainSame ==
  ASSUME NEW f, NEW g, NEW o, NEW p, Pointing(f), Pointing(g),
         o \in Pointees \cup {NullPtr}, DOMAIN g = DOMAIN f,
         \A q \in DOMAIN f \ {p} : g[q] = f[q],
         p \notin ChainIn(f, o)
  PROVE  ChainIn(g, o) = ChainIn(f, o)
<1>1. /\ ChainIn(f, o) \in SUBSET Pointees
      /\ Closed(f, ChainIn(f, o))
      /\ o \in ChainIn(f, o) \cup {NullPtr}
  BY ChainClosed
<1>2. Closed(g, ChainIn(f, o))
  BY <1>1 DEF Closed
<1>3. ChainIn(g, o) \subseteq ChainIn(f, o)
  BY <1>1, <1>2, ChainLeast
<1>4. /\ ChainIn(g, o) \in SUBSET Pointees
      /\ Closed(g, ChainIn(g, o))
      /\ o \in ChainIn(g, o) \cup {NullPtr}
  BY ChainClosed
<1>5. Closed(f, ChainIn(g, o))
  BY <1>3, <1>4 DEF Closed
<1>6. ChainIn(f, o) \subseteq ChainIn(g, o)
  BY <1>4, <1>5, ChainLeast
<1> QED BY <1>3, <1>6

-----------------------------------------------------------------------------
(* Forests *)

\* The objects that the program holds with the pointers f and plain pointers
\* to r.
HasRoots(f, r, S) ==
  /\ r \subseteq S
  /\ \A v \in Variables \cap DOMAIN f : f[v] \in S \cup {NullPtr}

\* Pointers lead to what exists, no two to the same, none to what a plain
\* pointer is responsible for; and all objects can be reached.
Forest(f, r) ==
  /\ Pointing(f)
  /\ \A p \in DOMAIN f : f[p] \in Things(f) \cup {NullPtr}
  /\ r \subseteq Things(f)
  /\ \A p, q \in DOMAIN f : f[p] = f[q] /\ f[p] # NullPtr => p = q
  /\ \A p \in DOMAIN f : f[p] \notin r
  /\ \A S \in SUBSET Pointees :
       Closed(f, S) /\ HasRoots(f, r, S) => Things(f) \subseteq S

\* What is behind an object that exists exists.
LEMMA ChainExists ==
  ASSUME NEW f, NEW r, Forest(f, r), NEW o \in Things(f) \cup {NullPtr}
  PROVE  ChainIn(f, o) \subseteq Things(f)
<1>1. Closed(f, Things(f)) /\ Things(f) \in SUBSET Pointees
  BY DEF Closed, Forest, Things
<1> QED BY <1>1, ChainLeast

\* Each object of a chain but the first is behind another one of it.
LEMMA ChainBehind ==
  ASSUME NEW f, NEW r, Forest(f, r), NEW o \in Things(f) \cup {NullPtr},
         NEW x \in ChainIn(f, o), x # o
  PROVE  \E p \in ChainIn(f, o) \cap DOMAIN f : f[p] = x
<1> DEFINE C == ChainIn(f, o)
<1> SUFFICES ASSUME \A p \in C \cap DOMAIN f : f[p] # x
             PROVE  FALSE
  OBVIOUS
<1>1. C \in SUBSET Pointees /\ Closed(f, C) /\ o \in C \cup {NullPtr}
  BY ChainClosed DEF Forest, Things
<1>2. Closed(f, C \ {x})
  BY <1>1 DEF Closed
<1>3. C \subseteq C \ {x}
  BY <1>1, <1>2, ChainLeast
<1> QED BY <1>3

\* No object is behind itself: it could not be reached.
LEMMA NoSelf ==
  ASSUME NEW f, NEW r, Forest(f, r), NEW p \in DOMAIN f
  PROVE  p \notin ChainIn(f, f[p])
<1> DEFINE C == ChainIn(f, f[p])
<1> SUFFICES ASSUME p \in C PROVE FALSE
  OBVIOUS
<1>1. /\ Pointing(f) /\ f[p] \in Things(f) \cup {NullPtr}
      /\ \A q, s \in DOMAIN f : f[q] = f[s] /\ f[q] # NullPtr => q = s
      /\ \A q \in DOMAIN f : f[q] \notin r
  BY DEF Forest
<1>2. C \subseteq Things(f)
  BY <1>1, ChainExists
<1>3. \A x \in C : \E q \in C \cap DOMAIN f : f[q] = x
  <2> SUFFICES ASSUME NEW x \in C PROVE \E q \in C \cap DOMAIN f : f[q] = x
    OBVIOUS
  <2>1. CASE x = f[p]
    BY <2>1
  <2>2. CASE x # f[p]
    BY <2>2, <1>1, ChainBehind
  <2> QED BY <2>1, <2>2
<1>4. \A q \in DOMAIN f : f[q] \in C => q \in C
  BY <1>1, <1>2, <1>3, PointersAssumption DEF Things
<1> DEFINE S == Things(f) \ C
<1>5. Closed(f, S)
  BY <1>4 DEF Closed, Forest, Things
<1>6. HasRoots(f, r, S)
  <2>1. \A x \in r : x \notin C
    BY <1>1, <1>3
  <2>2. \A v \in Variables \cap DOMAIN f : f[v] \notin C
    BY <1>4, <1>2, PointersAssumption DEF Things
  <2> QED BY <2>1, <2>2 DEF HasRoots, Forest
<1>7. Things(f) \subseteq S
  BY <1>5, <1>6 DEF Forest, Things
<1> QED BY <1>2, <1>7

-----------------------------------------------------------------------------
(* What can be done to a forest *)

\* Pointer q gives up what it has to a plain pointer.
LEMMA Cut ==
  ASSUME NEW f, NEW r, Forest(f, r), NEW q \in DOMAIN f
  PROVE  Forest([f EXCEPT ![q] = NullPtr], r \cup ({f[q]} \ {NullPtr}))
<1> DEFINE g == [f EXCEPT ![q] = NullPtr]
           t == r \cup ({f[q]} \ {NullPtr})
<1>1. /\ Pointing(f) /\ \A p \in DOMAIN f : f[p] \in Things(f) \cup {NullPtr}
      /\ r \subseteq Things(f)
      /\ \A p, s \in DOMAIN f : f[p] = f[s] /\ f[p] # NullPtr => p = s
      /\ \A p \in DOMAIN f : f[p] \notin r
  BY DEF Forest
<1>2. /\ DOMAIN g = DOMAIN f /\ g[q] = NullPtr
      /\ \A p \in DOMAIN f \ {q} : g[p] = f[p]
      /\ Things(g) = Things(f)
      /\ Pointing(g)
  BY <1>1 DEF Pointing, Things
<1> HIDE DEF g
<1>3. \A p \in DOMAIN g : g[p] \in Things(g) \cup {NullPtr}
  BY <1>1, <1>2
<1>4. t \subseteq Things(g) /\ \A p \in DOMAIN g : g[p] \notin t
  BY <1>1, <1>2, PointersAssumption DEF Things
<1>5. \A p, s \in DOMAIN g : g[p] = g[s] /\ g[p] # NullPtr => p = s
  BY <1>1, <1>2
<1>6. ASSUME NEW S \in SUBSET Pointees, Closed(g, S), HasRoots(g, t, S)
      PROVE  Things(g) \subseteq S
  <2>1. f[q] \in S \cup {NullPtr} /\ r \subseteq S
    BY <1>6 DEF HasRoots
  <2>2. Closed(f, S) /\ HasRoots(f, r, S)
    BY <1>6, <1>2, <2>1 DEF Closed, HasRoots
  <2> QED BY <1>2, <2>2 DEF Forest
<1> QED BY <1>2, <1>3, <1>4, <1>5, <1>6 DEF Forest, g

\* What a plain pointer is responsible for is deleted, or nothing is.
LEMMA Drop ==
  ASSUME NEW f, NEW r, Forest(f, r), NEW o \in r \cup {NullPtr}
  PROVE  Forest(Restrict(f, DOMAIN f \ ChainIn(f, o)), r \ {o})
<1> DEFINE C == ChainIn(f, o)
           g == Restrict(f, DOMAIN f \ C)
<1>1. /\ Pointing(f) /\ \A p \in DOMAIN f : f[p] \in Things(f) \cup {NullPtr}
      /\ r \subseteq Things(f)
      /\ \A p, s \in DOMAIN f : f[p] = f[s] /\ f[p] # NullPtr => p = s
      /\ \A p \in DOMAIN f : f[p] \notin r
  BY DEF Forest
<1>2. C \subseteq Things(f) /\ Closed(f, C) /\ o \in C \cup {NullPtr}
  BY <1>1, ChainExists, ChainClosed DEF Things
<1>3. /\ DOMAIN g = DOMAIN f \ C
      /\ \A p \in DOMAIN g : g[p] = f[p]
      /\ Things(g) = Things(f) \ C
      /\ g = [p \in DOMAIN g |-> g[p]]
  BY DEF Restrict, Things
<1>4. \A x \in C : x # o => \E p \in C \cap DOMAIN f : f[p] = x
  BY <1>1, ChainBehind
<1> HIDE DEF g, C
<1>5. \A p \in DOMAIN f \ C : f[p] \notin C
  <2> SUFFICES ASSUME NEW p \in DOMAIN f \ C, f[p] \in C PROVE FALSE
    OBVIOUS
  <2>1. f[p] # NullPtr
    BY <1>2, PointersAssumption DEF Things
  <2>2. f[p] # o
    BY <1>1, <2>1
  <2> QED BY <1>1, <1>4, <2>1, <2>2
<1>6. \A p \in DOMAIN g : g[p] \in Things(g) \cup {NullPtr}
  BY <1>1, <1>3, <1>5
<1>7. Pointing(g)
  <2>1. DOMAIN g \subseteq Variables \cup Pointees
    BY <1>1, <1>3 DEF Pointing
  <2>2. \A p \in DOMAIN g : g[p] \in Pointees \cup {NullPtr}
    BY <1>6 DEF Things
  <2> QED BY <1>3, <2>1, <2>2 DEF Pointing
<1>8. r \ {o} \subseteq Things(g)
  BY <1>1, <1>3, <1>4
<1>9. ASSUME NEW S \in SUBSET Pointees, Closed(g, S), HasRoots(g, r \ {o}, S)
      PROVE  Things(g) \subseteq S
  <2>1. C \subseteq Pointees
    BY <1>2 DEF Things
  <2>2. Closed(f, S \cup C)
    BY <1>2, <1>3, <1>9 DEF Closed
  <2>3. HasRoots(f, r, S \cup C)
    <3>1. r \subseteq S \cup C
      BY <1>1, <1>2, <1>9, PointersAssumption DEF HasRoots, Things
    <3>2. \A v \in Variables \cap DOMAIN f : v \in DOMAIN g
      BY <1>3, <2>1, PointersAssumption
    <3> QED BY <1>3, <1>9, <3>1, <3>2 DEF HasRoots
  <2>4. Things(f) \subseteq S \cup C
    BY <2>1, <2>2, <2>3 DEF Forest
  <2> QED BY <1>3, <2>4
<1>10. Forest(g, r \ {o})
  BY <1>1, <1>3, <1>6, <1>7, <1>8, <1>9 DEF Forest
<1> QED BY <1>10 DEF g, C

\* A pointer that has nothing takes what a plain pointer was responsible for,
\* and is not inside of it.
LEMMA Attach ==
  ASSUME NEW f, NEW r, Forest(f, r), NEW p \in DOMAIN f, f[p] = NullPtr,
         NEW o \in r \cup {NullPtr}, p \notin ChainIn(f, o)
  PROVE  Forest([f EXCEPT ![p] = o], r \ {o})
<1> DEFINE C == ChainIn(f, o)
           g == [f EXCEPT ![p] = o]
<1>1. /\ Pointing(f) /\ \A q \in DOMAIN f : f[q] \in Things(f) \cup {NullPtr}
      /\ r \subseteq Things(f)
      /\ \A q, s \in DOMAIN f : f[q] = f[s] /\ f[q] # NullPtr => q = s
      /\ \A q \in DOMAIN f : f[q] \notin r
  BY DEF Forest
<1>2. C \subseteq Pointees /\ Closed(f, C) /\ o \in C \cup {NullPtr}
  BY <1>1, ChainClosed DEF Things
<1>3. /\ DOMAIN g = DOMAIN f /\ g[p] = o
      /\ \A q \in DOMAIN f \ {p} : g[q] = f[q]
      /\ Things(g) = Things(f)
      /\ Pointing(g)
  BY <1>1 DEF Pointing, Things
<1> HIDE DEF g, C
<1>4. \A q \in DOMAIN g : g[q] \in Things(g) \cup {NullPtr}
  BY <1>1, <1>3
<1>5. \A q, s \in DOMAIN g : g[q] = g[s] /\ g[q] # NullPtr => q = s
  BY <1>1, <1>3
<1>6. r \ {o} \subseteq Things(g) /\ \A q \in DOMAIN g : g[q] \notin r \ {o}
  BY <1>1, <1>3
<1>7. ASSUME NEW S \in SUBSET Pointees, Closed(g, S), HasRoots(g, r \ {o}, S)
      PROVE  Things(g) \subseteq S
  <2>1. Closed(f, S \cup C)
    BY <1>2, <1>3, <1>7 DEF Closed
  <2>2. HasRoots(f, r, S \cup C)
    <3>1. r \subseteq S \cup C
      BY <1>1, <1>2, <1>7, PointersAssumption DEF HasRoots, Things
    <3> QED BY <1>3, <1>7, <3>1 DEF HasRoots
  <2>3. Things(f) \subseteq S \cup C
    BY <1>2, <2>1, <2>2 DEF Forest
  <2>4. o \in S \cup {NullPtr}
    <3>1. CASE p \in Variables
      BY <3>1, <1>3, <1>7 DEF HasRoots
    <3>2. CASE p \in Pointees
      <4>1. p \in S
        BY <3>2, <2>3 DEF Things, C
      <4> QED BY <4>1, <1>3, <1>7 DEF Closed
    <3> QED BY <3>1, <3>2, <1>1 DEF Pointing
  <2>5. Closed(f, S)
    BY <1>3, <1>7 DEF Closed
  <2>6. C \subseteq S
    BY <2>4, <2>5, ChainLeast DEF C
  <2> QED BY <1>3, <2>3, <2>6
<1>8. Forest(g, r \ {o})
  BY <1>3, <1>4, <1>5, <1>6, <1>7 DEF Forest
<1> QED BY <1>8 DEF g

\* A pointer that has nothing appears: a variable, or the member of a new
\* object.
LEMMA Appear ==
  ASSUME NEW f, NEW r, Forest(f, r),
         NEW p \in (Variables \cup Pointees) \ DOMAIN f
  PROVE  Forest(With(f, p, NullPtr), r \cup ({p} \cap Pointees))
<1> DEFINE g == With(f, p, NullPtr)
           t == r \cup ({p} \cap Pointees)
<1>1. /\ Pointing(f) /\ \A q \in DOMAIN f : f[q] \in Things(f) \cup {NullPtr}
      /\ r \subseteq Things(f)
      /\ \A q, s \in DOMAIN f : f[q] = f[s] /\ f[q] # NullPtr => q = s
      /\ \A q \in DOMAIN f : f[q] \notin r
  BY DEF Forest
<1>2. /\ DOMAIN g = DOMAIN f \cup {p} /\ g[p] = NullPtr
      /\ \A q \in DOMAIN f : g[q] = f[q]
      /\ Things(g) = Things(f) \cup ({p} \cap Pointees)
      /\ Pointing(g)
  BY <1>1 DEF Pointing, Things, With
<1> HIDE DEF g
<1>3. \A q \in DOMAIN g : g[q] \in Things(g) \cup {NullPtr}
  BY <1>1, <1>2
<1>4. \A q, s \in DOMAIN g : g[q] = g[s] /\ g[q] # NullPtr => q = s
  BY <1>1, <1>2
<1>5. t \subseteq Things(g) /\ \A q \in DOMAIN g : g[q] \notin t
  BY <1>1, <1>2, PointersAssumption DEF Things
<1>6. ASSUME NEW S \in SUBSET Pointees, Closed(g, S), HasRoots(g, t, S)
      PROVE  Things(g) \subseteq S
  <2>1. Closed(f, S) /\ HasRoots(f, r, S)
    BY <1>6, <1>2 DEF Closed, HasRoots
  <2>2. Things(f) \subseteq S
    BY <2>1 DEF Forest
  <2> QED BY <1>2, <1>6, <2>2 DEF HasRoots
<1> QED BY <1>2, <1>3, <1>4, <1>5, <1>6 DEF Forest, g

\* A variable that has nothing disappears.
LEMMA Disappear ==
  ASSUME NEW f, NEW r, Forest(f, r), NEW v \in Variables \cap DOMAIN f,
         f[v] = NullPtr
  PROVE  Forest(Restrict(f, DOMAIN f \ {v}), r)
<1> DEFINE g == Restrict(f, DOMAIN f \ {v})
<1>1. /\ Pointing(f) /\ \A q \in DOMAIN f : f[q] \in Things(f) \cup {NullPtr}
      /\ r \subseteq Things(f)
      /\ \A q, s \in DOMAIN f : f[q] = f[s] /\ f[q] # NullPtr => q = s
      /\ \A q \in DOMAIN f : f[q] \notin r
  BY DEF Forest
<1>2. /\ DOMAIN g = DOMAIN f \ {v}
      /\ \A q \in DOMAIN g : g[q] = f[q]
      /\ Things(g) = Things(f)
      /\ Pointing(g)
  BY <1>1, PointersAssumption DEF Pointing, Things, Restrict
<1> HIDE DEF g
<1>3. \A q \in DOMAIN g : g[q] \in Things(g) \cup {NullPtr}
  BY <1>1, <1>2
<1>4. ASSUME NEW S \in SUBSET Pointees, Closed(g, S), HasRoots(g, r, S)
      PROVE  Things(g) \subseteq S
  <2>1. Closed(f, S) /\ HasRoots(f, r, S)
    BY <1>4, <1>2 DEF Closed, HasRoots
  <2> QED BY <1>2, <2>1 DEF Forest
<1> QED BY <1>1, <1>2, <1>3, <1>4 DEF Forest, g

\* A pointer lets go of what it has, with all that is behind it, and takes
\* what a plain pointer was responsible for.
LEMMA Replace ==
  ASSUME NEW f, NEW r, Forest(f, r), NEW p \in DOMAIN f,
         NEW o \in r \cup {NullPtr}, p \notin ChainIn(f, o)
  PROVE  /\ Forest(Restrict([f EXCEPT ![p] = o],
                            DOMAIN f \ ChainIn(f, f[p])), r \ {o})
         /\ ChainIn(f, f[p]) \subseteq DOMAIN f
<1> DEFINE x == f[p]
           f1 == [f EXCEPT ![p] = NullPtr]
           r1 == r \cup ({x} \ {NullPtr})
           C == ChainIn(f, x)
           f2 == Restrict(f1, DOMAIN f1 \ ChainIn(f1, x))
           f3 == [f2 EXCEPT ![p] = o]
           g == Restrict([f EXCEPT ![p] = o], DOMAIN f \ C)
<1>1. /\ Pointing(f) /\ x \in Things(f) \cup {NullPtr}
      /\ r \subseteq Things(f) /\ x \notin r
  BY DEF Forest
<1>2. p \notin C /\ C \subseteq DOMAIN f
  BY <1>1, NoSelf, ChainExists DEF Things
<1>3. Forest(f1, r1)
  BY Cut
<1>4. DOMAIN f1 = DOMAIN f /\ f1[p] = NullPtr
      /\ \A q \in DOMAIN f \ {p} : f1[q] = f[q]
  BY <1>1 DEF Pointing
<1> HIDE DEF f1
<1>5. ChainIn(f1, x) = C
  BY <1>1, <1>2, <1>3, <1>4, ChainSame DEF Things, Forest
<1>6. r1 \ {x} = r
  BY <1>1, PointersAssumption DEF Things
<1>7. Forest(f2, r)
  <2>1. x \in r1 \cup {NullPtr}
    OBVIOUS
  <2>2. Forest(f2, r1 \ {x})
    BY <2>1, <1>3, Drop
  <2> QED BY <2>2, <1>6
<1>8. /\ DOMAIN f2 = DOMAIN f \ C
      /\ \A q \in DOMAIN f2 : f2[q] = f1[q]
      /\ f2 = [q \in DOMAIN f2 |-> f2[q]]
  BY <1>4, <1>5 DEF Restrict
<1>9. p \in DOMAIN f2 /\ f2[p] = NullPtr
  BY <1>2, <1>4, <1>8
<1>10. ChainIn(f2, o) \subseteq ChainIn(f, o)
  <2>1. Pointing(f) /\ o \in Pointees \cup {NullPtr}
    BY <1>1 DEF Things
  <2> HIDE DEF f2, C
  <2>2. DOMAIN f2 \subseteq DOMAIN f
    BY <1>8
  <2>3. \A q \in DOMAIN f2 : f2[q] \in {f[q], NullPtr}
    BY <1>4, <1>8
  <2> QED BY <2>1, <2>2, <2>3, ChainLess
<1> HIDE DEF f2
<1>11. Forest(f3, r \ {o})
  BY <1>7, <1>9, <1>10, Attach
<1>12. f3 = g
  <2>1. f3 = [q \in DOMAIN f \ C |-> IF q = p THEN o ELSE f[q]]
    BY <1>4, <1>8, <1>9
  <2>2. g = [q \in DOMAIN f \ C |-> IF q = p THEN o ELSE f[q]]
    BY <1>1 DEF Restrict, Pointing
  <2> QED BY <2>1, <2>2
<1> QED BY <1>2, <1>11, <1>12

-----------------------------------------------------------------------------
(* Pointers *)

PointerInv == /\ knotted \in BOOLEAN
              /\ ~knotted => misused = FALSE /\ Forest(ptr, raw)

\* A step that ties no knot.
LEMMA Constructions ==
  ASSUME Forest(ptr, raw), misused = FALSE
  PROVE  /\ \A o : New(o) => Forest(ptr', raw')
         /\ \A v, o : Construct(v, o) => Forest(ptr', raw')
         /\ \A v, q : MoveConstruct(v, q) => Forest(ptr', raw')
<1>1. /\ Pointing(ptr) /\ \A q \in DOMAIN ptr : ptr[q] \in Things(ptr) \cup {NullPtr}
      /\ raw \subseteq Things(ptr)
      /\ \A q \in DOMAIN ptr : ptr[q] \notin raw
  BY DEF Forest
<1>2. ASSUME NEW o, New(o) PROVE Forest(ptr', raw')
  <2>1. o \in (Variables \cup Pointees) \ DOMAIN ptr /\ {o} \cap Pointees = {o}
    BY <1>2 DEF New, Exist
  <2>2. Forest(With(ptr, o, NullPtr), raw \cup {o})
    BY <2>1, Appear
  <2> QED BY <2>2, <1>2 DEF New
<1>3. ASSUME NEW f, NEW r, Forest(f, r), NEW v \in Variables \ DOMAIN f,
             NEW o \in r \cup {NullPtr}
      PROVE  Forest(With(f, v, o), r \ {o})
  <2> DEFINE g == With(f, v, NullPtr)
  <2>1. v \notin Pointees /\ r \cup ({v} \cap Pointees) = r
    BY PointersAssumption
  <2>2. Forest(g, r)
    BY <2>1, <1>3, Appear
  <2>3. v \in DOMAIN g /\ g[v] = NullPtr /\ v \notin ChainIn(g, o)
    BY <2>1 DEF With, ChainIn
  <2>4. [g EXCEPT ![v] = o] = With(f, v, o)
    BY DEF With
  <2> HIDE DEF g
  <2>5. Forest([g EXCEPT ![v] = o], r \ {o})
    BY <2>2, <2>3, Attach
  <2> QED BY <2>4, <2>5
<1>4. ASSUME NEW v, NEW o, Construct(v, o) PROVE Forest(ptr', raw')
  BY <1>3, <1>4 DEF Construct, Exist
<1>5. ASSUME NEW v, NEW q, MoveConstruct(v, q) PROVE Forest(ptr', raw')
  <2> DEFINE f == [ptr EXCEPT ![q] = NullPtr]
             r == raw \cup ({ptr[q]} \ {NullPtr})
  <2>1. q \in DOMAIN ptr /\ v \in Variables \ DOMAIN ptr
    BY <1>5 DEF MoveConstruct, Exist
  <2>2. Forest(f, r)
    BY <2>1, Cut
  <2>3. DOMAIN f = DOMAIN ptr /\ ptr[q] \in r \cup {NullPtr}
    OBVIOUS
  <2>4. r \ {ptr[q]} = raw
    BY <1>1, <2>1, PointersAssumption DEF Things
  <2>5. ptr' = With(f, v, ptr[q]) /\ raw' = raw
    BY <1>5 DEF MoveConstruct
  <2> HIDE DEF f, r
  <2>6. Forest(With(f, v, ptr[q]), r \ {ptr[q]})
    BY <1>3, <2>1, <2>2, <2>3
  <2> QED BY <2>4, <2>5, <2>6
<1> QED BY <1>2, <1>4, <1>5

LEMMA Deletions ==
  ASSUME Forest(ptr, raw), misused = FALSE
  PROVE  /\ \A o : Delete(o) => Forest(ptr', raw') /\ misused' = FALSE
         /\ \A v : Destroy(v) => Forest(ptr', raw') /\ misused' = FALSE
         /\ \A p : Release(p) => Forest(ptr', raw') /\ misused' = FALSE
<1>1. /\ Pointing(ptr) /\ \A q \in DOMAIN ptr : ptr[q] \in Things(ptr) \cup {NullPtr}
      /\ raw \subseteq Things(ptr)
      /\ \A q \in DOMAIN ptr : ptr[q] \notin raw
  BY DEF Forest
<1>2. ASSUME NEW o, Delete(o) PROVE Forest(ptr', raw') /\ misused' = FALSE
  <2>1. /\ o \in raw /\ raw' = raw \ {o}
        /\ ptr' = Restrict(ptr, DOMAIN ptr \ ChainIn(ptr, o))
        /\ misused' = (misused \/ ~(ChainIn(ptr, o) \subseteq DOMAIN ptr))
    BY <1>2 DEF Delete, Become, Chain, Exist
  <2>2. ChainIn(ptr, o) \subseteq DOMAIN ptr
    BY <1>1, <2>1, ChainExists DEF Things
  <2> QED BY <2>1, <2>2, Drop
<1>3. ASSUME NEW v, Destroy(v) PROVE Forest(ptr', raw') /\ misused' = FALSE
  <2> DEFINE C == ChainIn(ptr, ptr[v])
             g == Restrict([ptr EXCEPT ![v] = NullPtr], DOMAIN ptr \ C)
  <2>1. /\ v \in Variables \cap DOMAIN ptr /\ raw' = raw
        /\ ptr' = Restrict(ptr, DOMAIN ptr \ ({v} \cup C))
        /\ misused' = (misused \/ ~({v} \cup C \subseteq DOMAIN ptr))
    BY <1>3 DEF Destroy, Become, Chain, Exist
  <2>2. v \notin Pointees /\ ChainIn(ptr, NullPtr) = {} /\ raw \ {NullPtr} = raw
    BY <1>1, <2>1, ChainNull, PointersAssumption DEF Things
  <2>3. Forest(g, raw) /\ C \subseteq DOMAIN ptr
    BY <2>1, <2>2, Replace
  <2>4. v \in DOMAIN g /\ g[v] = NullPtr /\ DOMAIN g = DOMAIN ptr \ C
    BY <2>1, <2>2 DEF Restrict, ChainIn
  <2>5. Restrict(g, DOMAIN g \ {v}) = Restrict(ptr, DOMAIN ptr \ ({v} \cup C))
    BY <2>1, <2>4 DEF Restrict
  <2> HIDE DEF g
  <2>6. Forest(Restrict(g, DOMAIN g \ {v}), raw)
    BY <2>1, <2>3, <2>4, Disappear
  <2> QED BY <2>1, <2>3, <2>5, <2>6
<1>4. ASSUME NEW p, Release(p) PROVE Forest(ptr', raw') /\ misused' = FALSE
  BY <1>4, Cut DEF Release, Exist
<1> QED BY <1>2, <1>3, <1>4

\* reset, of the pointers from, for what plain pointers to r are responsible.
LEMMA Resets ==
  ASSUME NEW from, NEW r, Forest(from, r), NEW p \in DOMAIN from,
         NEW o \in r \cup {NullPtr, from[p]},
         misused = FALSE, knotted = FALSE, ResetTo(p, o, from), ~knotted',
         DOMAIN from = Exist
  PROVE  Forest(ptr', r \ {o}) /\ misused' = FALSE
<1>1. CASE o = from[p]
  <2>1. r \ {o} = r
    BY <1>1, PointersAssumption DEF Forest
  <2> QED BY <1>1, <2>1 DEF ResetTo
<1>2. CASE o # from[p]
  <2>1. /\ ptr' = Restrict([from EXCEPT ![p] = o],
                           DOMAIN from \ ChainIn(from, from[p]))
        /\ misused' = (misused \/ ~(ChainIn(from, from[p]) \subseteq Exist))
        /\ p \notin ChainIn(from, o)
    BY <1>2 DEF ResetTo, Become
  <2>2. /\ Forest(Restrict([from EXCEPT ![p] = o],
                           DOMAIN from \ ChainIn(from, from[p])), r \ {o})
        /\ ChainIn(from, from[p]) \subseteq DOMAIN from
    BY <1>2, <2>1, Replace
  <2> QED BY <2>1, <2>2
<1> QED BY <1>1, <1>2

LEMMA Assignments ==
  ASSUME Forest(ptr, raw), misused = FALSE, knotted = FALSE, ~knotted'
  PROVE  /\ \A p, o : ResetPointer(p, o) => Forest(ptr', raw') /\ misused' = FALSE
         /\ \A p, q : ConvertAssign(p, q) => Forest(ptr', raw') /\ misused' = FALSE
         /\ \A p, q : MoveAssign(p, q) => Forest(ptr', raw') /\ misused' = FALSE
<1>1. /\ Pointing(ptr) /\ \A q \in DOMAIN ptr : ptr[q] \in Things(ptr) \cup {NullPtr}
      /\ raw \subseteq Things(ptr)
      /\ \A q \in DOMAIN ptr : ptr[q] \notin raw
      /\ \A q, s \in DOMAIN ptr : ptr[q] = ptr[s] /\ ptr[q] # NullPtr => q = s
  BY DEF Forest
<1>2. ASSUME NEW p, NEW o, ResetPointer(p, o)
      PROVE  Forest(ptr', raw') /\ misused' = FALSE
  BY <1>2, Resets DEF ResetPointer, Exist
<1>3. ASSUME NEW q \in DOMAIN ptr
      PROVE  /\ Forest([ptr EXCEPT ![q] = NullPtr], raw \cup ({ptr[q]} \ {NullPtr}))
             /\ (raw \cup ({ptr[q]} \ {NullPtr})) \ {ptr[q]} = raw
             /\ ptr[q] \in (raw \cup ({ptr[q]} \ {NullPtr})) \cup {NullPtr}
  BY <1>1, <1>3, Cut, PointersAssumption DEF Things
<1>4. ASSUME NEW p, NEW q, ConvertAssign(p, q)
      PROVE  Forest(ptr', raw') /\ misused' = FALSE
  <2> DEFINE f == [ptr EXCEPT ![q] = NullPtr]
             r == raw \cup ({ptr[q]} \ {NullPtr})
  <2>1. /\ p \in DOMAIN ptr /\ q \in DOMAIN ptr
        /\ ResetTo(p, ptr[q], f) /\ raw' = raw
    BY <1>4 DEF ConvertAssign, Exist
  <2>2. DOMAIN f = Exist
    BY DEF Exist
  <2>3. Forest(f, r) /\ r \ {ptr[q]} = raw /\ ptr[q] \in r \cup {NullPtr}
    BY <2>1, <1>3
  <2> HIDE DEF f, r
  <2>4. Forest(ptr', r \ {ptr[q]}) /\ misused' = FALSE
    BY <2>1, <2>2, <2>3, Resets DEF Exist
  <2> QED BY <2>1, <2>3, <2>4
<1>5. ASSUME NEW p, NEW q, MoveAssign(p, q)
      PROVE  Forest(ptr', raw') /\ misused' = FALSE
  <2> DEFINE f == [ptr EXCEPT ![q] = NullPtr]
             r == raw \cup ({ptr[q]} \ {NullPtr})
             C == ChainIn(ptr, ptr[p])
             g == [ptr EXCEPT ![p] = ptr[q], ![q] = NullPtr]
  <2>1. p \in DOMAIN ptr /\ q \in DOMAIN ptr /\ p # q /\ raw' = raw
    BY <1>5 DEF MoveAssign, Exist
  <2>2. /\ q \notin C /\ p \notin ChainIn(ptr, ptr[q])
        /\ ptr' = Restrict(g, DOMAIN ptr \ C)
        /\ misused' = (misused \/ ~(C \subseteq DOMAIN ptr) \/ q \in C)
    BY <1>5 DEF MoveAssign, Chain, Exist
  <2>3. Forest(f, r) /\ r \ {ptr[q]} = raw /\ ptr[q] \in r \cup {NullPtr}
    BY <2>1, <1>3
  <2>4. /\ DOMAIN f = DOMAIN ptr /\ f[q] = NullPtr /\ f[p] = ptr[p]
        /\ \A s \in DOMAIN ptr \ {q} : f[s] = ptr[s]
        /\ [f EXCEPT ![p] = ptr[q]] = g
    BY <2>1, <1>1 DEF Pointing
  <2> HIDE DEF f, r, g
  <2>5. Pointing(f)
    BY <2>3 DEF Forest
  <2>6. ChainIn(f, ptr[p]) = C
    <3>1. Pointing(ptr) /\ ptr[p] \in Pointees \cup {NullPtr}
      BY <1>1, <2>1 DEF Things
    <3> QED BY <2>2, <2>4, <2>5, <3>1, ChainSame
  <2>7. ChainIn(f, ptr[q]) \subseteq ChainIn(ptr, ptr[q])
    BY <1>1, <2>1, <2>4, ChainLess DEF Things
  <2>8. /\ Forest(Restrict(g, DOMAIN ptr \ C), raw)
        /\ C \subseteq DOMAIN ptr
    <3>1. /\ Forest(Restrict([f EXCEPT ![p] = ptr[q]],
                             DOMAIN f \ ChainIn(f, f[p])), r \ {ptr[q]})
          /\ ChainIn(f, f[p]) \subseteq DOMAIN f
      BY <2>1, <2>2, <2>3, <2>4, <2>7, Replace
    <3> QED BY <3>1, <2>3, <2>4, <2>6
  <2> QED BY <2>1, <2>2, <2>8
<1> QED BY <1>2, <1>4, <1>5

LEMMA PointerStep ==
  ASSUME PointerInv, [PointerNext]_pointerVars
  PROVE  PointerInv'
<1>1. CASE UNCHANGED pointerVars
  BY <1>1 DEF PointerInv, pointerVars
<1>2. CASE PointerNext
  <2>1. knotted' \in BOOLEAN /\ (knotted => knotted')
    BY <1>2
    DEF PointerNext, PointerInv, New, Delete, Destroy, Construct,
        MoveConstruct, Release, ResetPointer, ResetTo, MoveAssign,
        ConvertAssign
  <2> SUFFICES ASSUME ~knotted' PROVE misused' = FALSE /\ Forest(ptr', raw')
    BY <2>1 DEF PointerInv
  <2>2. knotted = FALSE /\ misused = FALSE /\ Forest(ptr, raw)
    BY <2>1 DEF PointerInv
  <2>3. CASE \E o \in Pointees : New(o) \/ Delete(o)
    BY <2>2, <2>3, Constructions, Deletions DEF New
  <2>4. CASE \E v \in Variables :
               \/ Destroy(v)
               \/ \E o \in Pointees \cup {NullPtr} : Construct(v, o)
               \/ \E q \in Variables \cup Pointees : MoveConstruct(v, q)
    BY <2>2, <2>4, Constructions, Deletions DEF Construct, MoveConstruct
  <2>5. CASE \E p \in Variables \cup Pointees :
               \/ Release(p)
               \/ \E o \in Pointees \cup {NullPtr} : ResetPointer(p, o)
               \/ \E q \in Variables \cup Pointees :
                    MoveAssign(p, q) \/ ConvertAssign(p, q)
    BY <2>2, <2>5, Assignments, Deletions
  <2> QED BY <1>2, <2>3, <2>4, <2>5 DEF PointerNext
<1> QED BY <1>1, <1>2

\* The pointers form a forest as long as no knot is tied.
THEOREM PointersAreForest == PointerSpec => []PointerInv
<1>1. PointerInit => PointerInv
  <2> SUFFICES ASSUME PointerInit PROVE PointerInv
    OBVIOUS
  <2>1. ptr = <<>> /\ raw = {} /\ misused = FALSE /\ knotted = FALSE
    BY DEF PointerInit
  <2>2. DOMAIN ptr = {} /\ ptr = [p \in {} |-> NullPtr]
    BY <2>1
  <2>3. Things(ptr) = {}
    BY <2>2 DEF Things
  <2>4. Pointing(ptr)
    BY <2>2, <2>3 DEF Pointing
  <2>5. Forest(ptr, raw)
    BY <2>1, <2>2, <2>3, <2>4 DEF Forest
  <2> QED BY <2>1, <2>5 DEF PointerInv
<1>2. PointerInv /\ [PointerNext]_pointerVars => PointerInv'
  BY PointerStep
<1> QED BY <1>1, <1>2, PTL DEF PointerSpec

\* In a forest every object has one owner and is behind a root.
LEMMA ForestOwns ==
  ASSUME PointerInv
  PROVE  OwnedOnce /\ NothingLost
<1> SUFFICES ASSUME ~knotted PROVE OwnedOnce /\ NothingLost
  BY DEF OwnedOnce, NothingLost
<1>1. /\ Pointing(ptr) /\ \A q \in DOMAIN ptr : ptr[q] \in Things(ptr) \cup {NullPtr}
      /\ raw \subseteq Things(ptr)
      /\ \A q \in DOMAIN ptr : ptr[q] \notin raw
      /\ \A q, s \in DOMAIN ptr : ptr[q] = ptr[s] /\ ptr[q] # NullPtr => q = s
      /\ Forest(ptr, raw) /\ misused = FALSE
      /\ Exist = DOMAIN ptr /\ Alive = Things(ptr)
  BY DEF Forest, PointerInv, Exist, Alive, Things
<1>2. ASSUME NEW o \in Alive
      PROVE  Cardinality({p \in Exist : ptr[p] = o}) = IF o \in raw THEN 0 ELSE 1
  <2>1. CASE o \in raw
    <3>1. {p \in Exist : ptr[p] = o} = {}
      BY <1>1, <2>1
    <3> QED BY <3>1, <2>1, FS_EmptySet
  <2>2. CASE o \notin raw
    <3>1. \E p \in Exist : ptr[p] = o
      <4> SUFFICES ASSUME \A p \in Exist : ptr[p] # o PROVE FALSE
        OBVIOUS
      <4> DEFINE S == Alive \ {o}
      <4>1. Closed(ptr, S) /\ HasRoots(ptr, raw, S) /\ S \in SUBSET Pointees
        BY <1>1, <2>2 DEF Closed, HasRoots, Things
      <4>2. Alive \subseteq S
        BY <4>1, <1>1 DEF Forest
      <4> QED BY <4>2, <1>2
    <3>2. PICK p \in Exist : ptr[p] = o
      BY <3>1
    <3>3. o # NullPtr
      BY <1>1, PointersAssumption DEF Things
    <3>4. {q \in Exist : ptr[q] = o} = {p}
      BY <1>1, <3>2, <3>3
    <3> QED BY <3>4, <2>2, FS_Singleton
  <2> QED BY <2>1, <2>2
<1>3. OwnedOnce
  BY <1>1, <1>2 DEF OwnedOnce
<1>4. NothingLost
  <2> DEFINE Roots == raw \cup {ptr[v] : v \in Variables \cap Exist}
             S == UNION {Chain(o) : o \in Roots}
  <2>1. Roots \subseteq Things(ptr) \cup {NullPtr}
    BY <1>1
  <2>2. ASSUME NEW o \in Roots
        PROVE  /\ Chain(o) \subseteq Things(ptr)
               /\ Closed(ptr, Chain(o)) /\ o \in Chain(o) \cup {NullPtr}
    BY <2>1, <1>1, ChainExists, ChainClosed DEF Chain, Things
  <2>3. S \subseteq Things(ptr)
    BY <2>2
  <2>4. Closed(ptr, S)
    BY <2>2 DEF Closed
  <2>5. HasRoots(ptr, raw, S)
    <3>1. \A o \in Roots : o \in S \cup {NullPtr}
      BY <2>2
    <3> QED BY <3>1, <1>1, PointersAssumption DEF HasRoots, Things
  <2>6. Things(ptr) \subseteq S
    BY <2>3, <2>4, <2>5, <1>1 DEF Forest, Things
  <2>7. Alive = S
    BY <1>1, <2>3, <2>6
  <2> QED BY <2>7 DEF NothingLost
<1> QED BY <1>3, <1>4

\* Objects in optionals and behind unique_ptrs are there when the flag or the
\* pointer says so, are deleted once, and are not lost.
THEOREM ObjectsAreOwned == OptionalSpec /\ PointerSpec => []ObjectsOwned
<1>1. PointerInv => OwnedOnce /\ NothingLost
  BY ForestOwns
<1> QED
  BY <1>1, OptionalsHold, PointersAreForest, PTL DEF ObjectsOwned

-----------------------------------------------------------------------------
(* Numbers and powers of two *)

\* A nonempty set of numbers has a least one.
LEMMA LeastOf ==
  ASSUME NEW S, S \subseteq Nat, S # {}
  PROVE  \E n \in S : \A k \in S : n <= k
<1> DEFINE R == OpToRel(<, Nat)
<1>1. IsWellFoundedOn(R, Nat)
  BY NatLessThanWellFounded
<1>2. \A n, k \in Nat : n < k => <<n, k>> \in R
  BY DEF OpToRel
<1> HIDE DEF R
<1>3. PICK n \in S : \A k \in S : ~ (<<k, n>> \in R)
  BY <1>1, WFMin
<1>4. \A k \in S : ~ (k < n)
  BY <1>2, <1>3
<1> QED BY <1>3, <1>4

\* A claim about the numbers up to k fails first somewhere.
LEMMA FirstFailure ==
  ASSUME NEW k \in Nat, NEW Good, NEW m \in 0 .. k, m \notin Good
  PROVE  \E j \in 0 .. k : j \notin Good /\ \A i \in 0 .. j - 1 : i \in Good
<1> DEFINE Bad == {j \in 0 .. k : j \notin Good}
<1>1. Bad \subseteq Nat /\ Bad # {}
  OBVIOUS
<1>2. PICK j \in Bad : \A i \in Bad : j <= i
  <2> HIDE DEF Bad
  <2> QED BY <1>1, LeastOf
<1>3. \A i \in 0 .. j - 1 : i \in Good
  BY <1>2
<1> QED BY <1>2, <1>3

\* Division with a remainder.
LEMMA QuotientRemainder ==
  ASSUME NEW a \in Nat, NEW b \in Nat \ {0}
  PROVE  /\ a % b \in 0 .. b - 1 /\ a \div b \in Nat
         /\ a = (a \div b) * b + (a % b)
<1>1. a % b \in 0 .. b - 1 /\ a \div b \in Int /\ a = (a \div b) * b + (a % b)
  BY Z3
<1>2. PICK q \in Int, r \in 0 .. b - 1 : q = a \div b /\ r = a % b
  BY <1>1
<1>3. CASE q <= -1
  <2>1. q * b <= -b
    BY <1>3, Z3
  <2> QED BY <2>1, <1>1, <1>2
<1> QED BY <1>1, <1>2, <1>3

\* The provers know nothing of ^; the library says how many subsets a set has.
LEMMA PowerPositive ==
  ASSUME NEW n \in Nat
  PROVE  2 ^ n \in Nat \ {0}
<1>1. IsFiniteSet(1 .. n) /\ Cardinality(1 .. n) = n
  BY FS_Interval
<1>2. Cardinality(SUBSET (1 .. n)) = 2 ^ n /\ IsFiniteSet(SUBSET (1 .. n))
  BY <1>1, FS_SUBSET
<1>3. SUBSET (1 .. n) # {}
  OBVIOUS
<1> HIDE DEF IsFiniteSet
<1>4. Cardinality(SUBSET (1 .. n)) \in Nat /\ Cardinality(SUBSET (1 .. n)) # 0
  BY <1>2, <1>3, FS_CardinalityType, FS_EmptySet
<1> QED BY <1>2, <1>4

\* A power of two is twice the one before: half of the subsets have the last
\* number.
LEMMA PowerDoubles ==
  ASSUME NEW n \in Nat
  PROVE  2 ^ (n + 1) = 2 * 2 ^ n
<1> DEFINE A == SUBSET (1 .. n)
           B == {a \cup {n + 1} : a \in A}
<1>1. /\ IsFiniteSet(1 .. n) /\ Cardinality(1 .. n) = n
      /\ IsFiniteSet(1 .. n + 1) /\ Cardinality(1 .. n + 1) = n + 1
  BY FS_Interval
<1>2. /\ Cardinality(A) = 2 ^ n /\ IsFiniteSet(A)
      /\ Cardinality(SUBSET (1 .. n + 1)) = 2 ^ (n + 1)
  BY <1>1, FS_SUBSET
<1>3. SUBSET (1 .. n + 1) = A \cup B
  <2>1. ASSUME NEW s \in SUBSET (1 .. n + 1) PROVE s \in A \cup B
    <3>1. CASE n + 1 \notin s
      <4>1. s \in A
        BY <3>1
      <4> QED BY <4>1
    <3>2. CASE n + 1 \in s
      <4>1. s \ {n + 1} \in A /\ s = (s \ {n + 1}) \cup {n + 1}
        BY <3>2
      <4> QED BY <4>1
    <3> QED BY <3>1, <3>2
  <2>2. ASSUME NEW a \in A
        PROVE  a \in SUBSET (1 .. n + 1) /\ a \cup {n + 1} \in SUBSET (1 .. n + 1)
    <3>1. 1 .. n \subseteq 1 .. n + 1 /\ n + 1 \in 1 .. n + 1
      OBVIOUS
    <3> QED BY <3>1
  <2> HIDE DEF A
  <2>3. A \subseteq SUBSET (1 .. n + 1) /\ B \subseteq SUBSET (1 .. n + 1)
    BY <2>2
  <2> HIDE DEF B
  <2> QED BY <2>1, <2>3
<1>4. A \cap B = {}
  <2>1. \A a \in A : n + 1 \notin a
    OBVIOUS
  <2> QED BY <2>1
<1>5. IsFiniteSet(B) /\ Cardinality(B) = Cardinality(A)
  <2> DEFINE f == [a \in A |-> a \cup {n + 1}]
  <2>1. f \in Bijection(A, B)
    <3>1. \A a, b \in A : f[a] = f[b] => a = b
      <4> SUFFICES ASSUME NEW a \in A, NEW b \in A, f[a] = f[b] PROVE a = b
        OBVIOUS
      <4>1. n + 1 \notin a /\ n + 1 \notin b
        OBVIOUS
      <4> QED BY <4>1
    <3>2. f \in [A -> B] /\ \A b \in B : \E a \in A : f[a] = b
      OBVIOUS
    <3> HIDE DEF f, A, B
    <3> QED BY <3>1, <3>2 
           DEF Bijection, Injection, IsInjective, Surjection
  <2>2. ExistsBijection(A, B)
    BY <2>1 DEF ExistsBijection
  <2> QED BY <2>2, <1>2, FS_Bijection
<1>6. PICK p \in Nat : p = 2 ^ n
  BY PowerPositive
<1>7. Cardinality(A) = p /\ Cardinality(B) = p
  BY <1>2, <1>5, <1>6
<1>8. Cardinality(A \cup B) = 2 ^ (n + 1)
  BY <1>2, <1>3
<1> HIDE DEF A, B
<1>9. Cardinality(A \cup B)
        = Cardinality(A) + Cardinality(B) - Cardinality(A \cap B)
  BY <1>2, <1>5, FS_Union
<1>10. Cardinality(A \cap B) = 0
  BY <1>4, FS_EmptySet
<1>11. Cardinality(A \cup B) = p + p - 0
  BY <1>7, <1>9, <1>10
<1>12. 2 ^ (n + 1) = p + p
  BY <1>8, <1>11
<1> QED BY <1>6, <1>12

LEMMA PowerZero == 2 ^ 0 = 1
<1>1. IsFiniteSet({}) /\ Cardinality({}) = 0
  BY FS_EmptySet
<1>2. Cardinality(SUBSET {}) = 2 ^ 0
  BY <1>1, FS_SUBSET
<1>3. SUBSET {} = {{}}
  OBVIOUS
<1>4. Cardinality({{}}) = 1
  BY FS_Singleton
<1> QED BY <1>2, <1>3, <1>4

\* Powers of two grow.
LEMMA PowerGrows ==
  ASSUME NEW m \in Nat, NEW n \in Nat, m <= n
  PROVE  2 ^ m <= 2 ^ n
<1> DEFINE Good == {j \in Nat : j < m \/ 2 ^ m <= 2 ^ j}
<1>1. SUFFICES ASSUME n \notin Good PROVE FALSE
  OBVIOUS
<1>2. PICK j \in 0 .. n : j \notin Good /\ \A i \in 0 .. j - 1 : i \in Good
  <2> HIDE DEF Good
  <2> QED BY <1>1, FirstFailure
<1>3. j > m
  <2>1. j # m
    <3>1. 2 ^ m \in Nat
      BY PowerPositive
    <3> QED BY <1>2, <3>1
  <2> QED BY <1>2, <2>1
<1>4. PICK a \in Nat, b \in Nat, c \in Nat :
        a = 2 ^ m /\ b = 2 ^ (j - 1) /\ c = 2 ^ j
  <2>1. j - 1 \in Nat
    BY <1>3
  <2> QED BY <2>1, PowerPositive
<1>5. c = 2 * b
  <2>1. PICK k \in Nat : k = j - 1 /\ j = k + 1
    BY <1>3
  <2> QED BY <1>4, <2>1, PowerDoubles
<1>6. a <= b
  <2>1. j - 1 \in Good
    BY <1>2, <1>3
  <2> QED BY <1>3, <1>4, <2>1
<1>7. a <= c
  BY <1>5, <1>6
<1> QED BY <1>2, <1>4, <1>7

\* The quotient is determined by where the number lies.
LEMMA QuotientIs ==
  ASSUME NEW a \in Nat, NEW b \in Nat \ {0}, NEW q \in Nat,
         q * b <= a, a < (q + 1) * b
  PROVE  a \div b = q
<1>1. PICK d \in Nat, r \in 0 .. b - 1 : a = d * b + r /\ a \div b = d
  BY QuotientRemainder
<1>2. ~(d >= q + 1)
  <2>1. SUFFICES ASSUME d >= q + 1 PROVE FALSE
    OBVIOUS
  <2>2. d * b >= (q + 1) * b
    BY <2>1
  <2> QED BY <1>1, <2>2
<1>3. ~(d + 1 <= q)
  <2>1. SUFFICES ASSUME d + 1 <= q PROVE FALSE
    OBVIOUS
  <2>2. (d + 1) * b <= q * b
    BY <2>1
  <2>3. (d + 1) * b = d * b + b
    OBVIOUS
  <2>4. d * b \in Nat /\ q * b \in Nat
    OBVIOUS
  <2> QED BY <1>1, <2>2, <2>3, <2>4
<1> QED BY <1>1, <1>2, <1>3

-----------------------------------------------------------------------------
(* roundToNearestPowOf2 *)

\* The values of the first bits, as a function.
Sums(f, bits, k) ==
  f = [i \in 0 .. k |->
         IF i = 0 THEN 0
         ELSE f[i - 1] + IF i - 1 \in bits THEN 2 ^ (i - 1) ELSE 0]

\* There is a function that adds the bits up.
LEMMA SumsExist ==
  ASSUME NEW bits, NEW k \in Nat
  PROVE  \E f : Sums(f, bits, k)
<1> DEFINE Good == {j \in Nat : \E f : Sums(f, bits, j)}
<1>1. SUFFICES ASSUME k \notin Good PROVE FALSE
  OBVIOUS
<1>2. PICK j \in 0 .. k : j \notin Good /\ \A i \in 0 .. j - 1 : i \in Good
  <2> HIDE DEF Good
  <2> QED BY <1>1, FirstFailure
<1>3. CASE j = 0
  <2>1. Sums([i \in 0 .. 0 |-> 0], bits, 0)
    BY DEF Sums
  <2> QED BY <1>2, <1>3, <2>1
<1>4. CASE j > 0
  <2>1. PICK f : Sums(f, bits, j - 1)
    BY <1>2, <1>4
  <2> DEFINE last == f[j - 1] + IF j - 1 \in bits THEN 2 ^ (j - 1) ELSE 0
             g == [i \in 0 .. j |-> IF i = j THEN last ELSE f[i]]
  <2>2. \A i \in 0 .. j - 1 :
          f[i] = IF i = 0 THEN 0
                 ELSE f[i - 1] + IF i - 1 \in bits THEN 2 ^ (i - 1) ELSE 0
    BY <2>1 DEF Sums
  <2>3. \A i \in 0 .. j :
          g[i] = IF i = 0 THEN 0
                 ELSE g[i - 1] + IF i - 1 \in bits THEN 2 ^ (i - 1) ELSE 0
    <3>1. TAKE i \in 0 .. j
    <3>2. CASE i = j
      <4>1. g[i - 1] = f[i - 1]
        BY <1>4, <3>2
      <4> QED BY <1>4, <3>2, <4>1
    <3>3. CASE i < j
      <4>1. i \in 0 .. j - 1 /\ g[i] = f[i] /\ (i > 0 => g[i - 1] = f[i - 1])
        BY <3>3
      <4> QED BY <2>2, <4>1
    <3> QED BY <3>2, <3>3
  <2>4. Sums(g, bits, j)
    <3> HIDE DEF last
    <3>1. g = [i \in 0 .. j |-> g[i]]
      OBVIOUS
    <3> HIDE DEF g
    <3> QED BY <2>3, <3>1 DEF Sums
  <2> QED BY <1>2, <2>4
<1> QED BY <1>2, <1>3, <1>4

\* Number is the last value of such a function.
LEMMA NumberIs ==
  ASSUME NEW bits, SizeBits \in Nat
  PROVE  \E f : Sums(f, bits, SizeBits) /\ Number(bits) = f[SizeBits]
<1> DEFINE c == CHOOSE f :
                  f = [i \in 0 .. SizeBits |->
                         IF i = 0 THEN 0
                         ELSE f[i - 1]
                                + IF i - 1 \in bits THEN 2 ^ (i - 1) ELSE 0]
<1>1. Sums(c, bits, SizeBits)
  BY SumsExist DEF Sums
<1>2. Number(bits) = c[SizeBits]
  BY DEF Number
<1> QED BY <1>1, <1>2

\* The bits below bit t, if t is the number of lowest bits that are set.
LEMMA NumberOfLowest ==
  ASSUME SizeBits \in Nat, NEW t \in 0 .. SizeBits
  PROVE  Number(0 .. t - 1) = 2 ^ t - 1
<1>1. PICK f : /\ Sums(f, 0 .. t - 1, SizeBits)
               /\ Number(0 .. t - 1) = f[SizeBits]
  BY NumberIs
<1> DEFINE Good == {j \in Nat : f[j] = IF j <= t THEN 2 ^ j - 1 ELSE 2 ^ t - 1}
<1>2. SizeBits \in Good
  <2>1. SUFFICES ASSUME SizeBits \notin Good PROVE FALSE
    OBVIOUS
  <2>2. PICK j \in 0 .. SizeBits :
          j \notin Good /\ \A i \in 0 .. j - 1 : i \in Good
    <3> HIDE DEF Good
    <3> QED BY <2>1, FirstFailure
  <2>3. f[j] = IF j = 0 THEN 0
               ELSE f[j - 1] + IF j - 1 \in 0 .. t - 1 THEN 2 ^ (j - 1) ELSE 0
    BY <1>1 DEF Sums
  <2>4. CASE j = 0
    BY <2>2, <2>3, <2>4, PowerZero
  <2>5. CASE j > 0
    <3>1. PICK k \in Nat : k = j - 1 /\ j = k + 1
      BY <2>5
    <3>2. PICK a \in Nat, b \in Nat, c \in Nat :
            a = 2 ^ k /\ b = 2 ^ j /\ c = 2 ^ t
      BY PowerPositive
    <3>3. b = 2 * a
      BY <3>1, <3>2, PowerDoubles
    <3>4. f[k] = IF k <= t THEN a - 1 ELSE c - 1
      <4>1. k \in Good
        BY <2>2, <3>1
      <4> QED BY <3>2, <4>1
    <3>5. f[j] = f[k] + IF k \in 0 .. t - 1 THEN a ELSE 0
      BY <2>3, <3>1, <3>2
    <3>6. CASE k < t
      <4>1. f[j] = b - 1 /\ j <= t
        BY <3>1, <3>3, <3>4, <3>5, <3>6
      <4> QED BY <2>2, <3>2, <4>1
    <3>7. CASE k >= t
      <4>1. k = t => a = c
        BY <3>2
      <4>2. f[j] = c - 1 /\ ~(j <= t)
        BY <3>1, <3>4, <3>5, <3>7, <4>1
      <4> QED BY <2>2, <3>2, <4>2
    <3> QED BY <3>6, <3>7
  <2> QED BY <2>4, <2>5
<1>3. SizeBits <= t => SizeBits = t
  OBVIOUS
<1> QED BY <1>1, <1>2, <1>3

\* A number has a highest bit.
LEMMA HighestBit ==
  ASSUME NEW n \in Nat, NEW y \in Nat \ {0}, y < 2 ^ n
  PROVE  \E t \in 0 .. n - 1 : 2 ^ t <= y /\ y < 2 ^ (t + 1)
<1> DEFINE S == {k \in Nat : y < 2 ^ k}
<1>1. PICK k \in S : \A j \in S : k <= j
  <2>1. S \subseteq Nat /\ S # {}
    OBVIOUS
  <2> HIDE DEF S
  <2> QED BY <2>1, LeastOf
<1>2. k # 0
  <2>1. SUFFICES ASSUME k = 0 PROVE FALSE
    OBVIOUS
  <2>2. y < 2 ^ 0
    BY <1>1, <2>1
  <2>3. y < 1
    BY <2>2, PowerZero
  <2> QED BY <2>3
<1>3. PICK t \in Nat : k = t + 1 /\ t = k - 1
  BY <1>2
<1>4. ~(y < 2 ^ t)
  <2>1. t \notin S
    BY <1>1, <1>3
  <2> QED BY <2>1
<1>5. k <= n
  BY <1>1
<1>6. t \in 0 .. n - 1
  BY <1>3, <1>5
<1>7. 2 ^ t \in Nat
  BY PowerPositive
<1> QED BY <1>1, <1>3, <1>4, <1>6, <1>7

\* The bits of a number go up to its highest.
LEMMA BitsBelow ==
  ASSUME SizeBits \in Nat, NEW t \in 0 .. SizeBits - 1, NEW y \in Nat,
         2 ^ t <= y, y < 2 ^ (t + 1)
  PROVE  t \in Bits(y) /\ Bits(y) \subseteq 0 .. t
<1>1. PICK a \in Nat \ {0}, b \in Nat \ {0} :
        a = 2 ^ t /\ b = 2 ^ (t + 1) /\ b = 2 * a
  BY PowerPositive, PowerDoubles
<1>2. y \div a = 1
  <2>1. 1 * a <= y /\ y < (1 + 1) * a
    BY <1>1
  <2> QED BY <2>1, QuotientIs
<1>3. ASSUME NEW p \in Nat, p > t
      PROVE  y \div 2 ^ p = 0
  <2>1. PICK c \in Nat \ {0} : c = 2 ^ p
    BY PowerPositive
  <2>2. b <= c
    <3>1. t + 1 \in Nat /\ t + 1 <= p
      BY <1>3
    <3> QED BY <1>1, <2>1, <3>1, PowerGrows
  <2>3. 0 * c <= y /\ y < (0 + 1) * c
    BY <1>1, <2>2
  <2> QED BY <2>1, <2>3, QuotientIs
<1>4. 1 % 2 = 1 /\ 0 % 2 = 0
  OBVIOUS
<1>5. t \in Bits(y)
  BY <1>1, <1>2, <1>4 DEF Bits
<1>6. ASSUME NEW p \in Bits(y) PROVE p \in 0 .. t
  <2>1. p \in Nat /\ (y \div 2 ^ p) % 2 = 1
    BY DEF Bits
  <2>2. ~(p > t)
    <3>1. SUFFICES ASSUME p > t PROVE FALSE
      OBVIOUS
    <3>2. y \div 2 ^ p = 0
      BY <1>3, <2>1, <3>1
    <3>3. 0 % 2 = 1
      BY <2>1, <3>2
    <3> QED BY <1>4, <3>3
  <2> QED BY <2>1, <2>2
<1> QED BY <1>5, <1>6

\* Nothing is 0 in bits.
LEMMA BitsOfZero ==
  ASSUME SizeBits \in Nat
  PROVE  Bits(0) = {}
<1>1. ASSUME NEW p \in Nat PROVE (0 \div 2 ^ p) % 2 = 0
  <2>1. PICK c \in Nat \ {0} : c = 2 ^ p
    BY PowerPositive
  <2>2. 0 \div c = 0
    <3>1. 0 * c <= 0 /\ 0 < (0 + 1) * c
      OBVIOUS
    <3> QED BY <3>1, QuotientIs
  <2> QED BY <2>1, <2>2
<1>2. ASSUME NEW p \in Bits(0) PROVE FALSE
  <2>1. p \in Nat /\ (0 \div 2 ^ p) % 2 = 1
    BY DEF Bits
  <2> QED BY <1>1, <2>1
<1> QED BY <1>2

\* The sets that Smeared goes through, one for each shift.
Smears(f, bits, k) ==
  f = [i \in 0 .. k |->
         IF i = 0 THEN bits
         ELSE f[i - 1]
                \cup {p \in 0 .. SizeBits - 1 : p + Shifts[i] \in f[i - 1]}]

\* There is such a function.
LEMMA SmearsExist ==
  ASSUME NEW bits, NEW k \in Nat
  PROVE  \E f : Smears(f, bits, k)
<1> DEFINE Good == {j \in Nat : \E f : Smears(f, bits, j)}
<1>1. SUFFICES ASSUME k \notin Good PROVE FALSE
  OBVIOUS
<1>2. PICK j \in 0 .. k : j \notin Good /\ \A i \in 0 .. j - 1 : i \in Good
  <2> HIDE DEF Good
  <2> QED BY <1>1, FirstFailure
<1>3. CASE j = 0
  <2>1. Smears([i \in 0 .. 0 |-> bits], bits, 0)
    BY DEF Smears
  <2> QED BY <1>2, <1>3, <2>1
<1>4. CASE j > 0
  <2>1. PICK f : Smears(f, bits, j - 1)
    BY <1>2, <1>4
  <2> DEFINE last == f[j - 1]
                       \cup {p \in 0 .. SizeBits - 1 : p + Shifts[j] \in f[j - 1]}
             g == [i \in 0 .. j |-> IF i = j THEN last ELSE f[i]]
             step(h, i) ==
               IF i = 0 THEN bits
               ELSE h[i - 1]
                      \cup {p \in 0 .. SizeBits - 1 : p + Shifts[i] \in h[i - 1]}
  <2>2. \A i \in 0 .. j - 1 : f[i] = step(f, i)
    BY <2>1 DEF Smears
  <2>3. \A i \in 0 .. j : g[i] = step(g, i)
    <3>1. TAKE i \in 0 .. j
    <3>2. CASE i = j
      <4>1. g[i - 1] = f[i - 1] /\ g[i] = last
        BY <1>4, <3>2
      <4> QED BY <1>4, <3>2, <4>1
    <3>3. CASE i < j
      <4>1. i \in 0 .. j - 1 /\ g[i] = f[i] /\ (i > 0 => g[i - 1] = f[i - 1])
        BY <3>3
      <4>2. step(g, i) = step(f, i)
        <5> HIDE DEF g
        <5>1. CASE i = 0
          BY <5>1
        <5>2. CASE i > 0
          <6>1. g[i - 1] = f[i - 1]
            BY <4>1, <5>2
          <6> QED BY <6>1
        <5> QED BY <5>1, <5>2
      <4> HIDE DEF step, g
      <4> QED BY <2>2, <4>1, <4>2
    <3> QED BY <3>2, <3>3
  <2>4. Smears(g, bits, j)
    <3> HIDE DEF last
    <3>1. g = [i \in 0 .. j |-> g[i]]
      OBVIOUS
    <3> HIDE DEF g
    <3>2. g = [i \in 0 .. j |-> step(g, i)]
      <4> HIDE DEF step
      <4> QED BY <2>3, <3>1
    <3> QED BY <3>2 DEF Smears
  <2> QED BY <1>2, <2>4
<1> QED BY <1>2, <1>3, <1>4

\* Smeared is the last value of such a function.
LEMMA SmearedIs ==
  ASSUME NEW bits
  PROVE  \E f : Smears(f, bits, Len(Shifts)) /\ Smeared(bits) = f[Len(Shifts)]
<1> DEFINE c == CHOOSE f :
                  f = [i \in 0 .. Len(Shifts) |->
                         IF i = 0 THEN bits
                         ELSE f[i - 1]
                                \cup {p \in 0 .. SizeBits - 1 :
                                         p + Shifts[i] \in f[i - 1]}]
<1>1. Len(Shifts) \in Nat
  BY VectorAssumption
<1>2. Smears(c, bits, Len(Shifts))
  <2>1. \E f : Smears(f, bits, Len(Shifts))
    BY <1>1, SmearsExist
  <2> QED BY <2>1 DEF Smears
<1>3. Smeared(bits) = c[Len(Shifts)]
  BY DEF Smeared
<1> QED BY <1>2, <1>3

\* Every bit below the highest that is set becomes set, since the shifts
\* double.
LEMMA SmearedFills ==
  ASSUME NEW t \in 0 .. SizeBits - 1, NEW bits, t \in bits, bits \subseteq 0 .. t
  PROVE  Smeared(bits) = 0 .. t
<1>1. PICK f : /\ Smears(f, bits, Len(Shifts))
               /\ Smeared(bits) = f[Len(Shifts)]
  BY SmearedIs
<1>2. PICK l \in Nat : l = Len(Shifts)
  BY VectorAssumption
<1>3. SizeBits \in Nat /\ SizeBits <= 2 ^ l /\ t \in Nat /\ t < SizeBits
  <2>1. PICK m \in Nat : m = 2 ^ l
    BY PowerPositive
  <2>2. SizeBits \in 1 .. m
    BY <1>2, <2>1, VectorAssumption
  <2> QED BY <2>1, <2>2
<1> DEFINE Good == {j \in Nat : /\ f[j] \subseteq 0 .. t
                               /\ \A p \in 0 .. t : p + 2 ^ j > t => p \in f[j]}
<1>4. l \in Good
  <2>1. SUFFICES ASSUME l \notin Good PROVE FALSE
    OBVIOUS
  <2>2. PICK j \in 0 .. l : j \notin Good /\ \A i \in 0 .. j - 1 : i \in Good
    <3> HIDE DEF Good
    <3> QED BY <2>1, FirstFailure
  <2>3. CASE j = 0
    <3>1. f[j] = bits
      BY <1>1, <1>2, <2>3 DEF Smears
    <3>2. ASSUME NEW p \in 0 .. t, p + 2 ^ j > t PROVE p \in f[j]
      <4>1. p + 1 > t
        BY <2>3, <3>2, PowerZero
      <4>2. p = t
        BY <1>3, <4>1
      <4> QED BY <3>1, <4>2
    <3>3. j \in Nat /\ f[j] \subseteq 0 .. t
      BY <3>1
    <3>4. j \in Good
      BY <3>2, <3>3
    <3> HIDE DEF Good
    <3> QED BY <2>2, <3>4
  <2>4. CASE j > 0
    <3>1. PICK k \in Nat : k = j - 1 /\ j = k + 1 /\ k \in 0 .. j - 1
      BY <2>4
    <3>2. PICK a \in Nat, b \in Nat : a = 2 ^ k /\ b = 2 ^ j /\ b = 2 * a
      BY <3>1, PowerPositive, PowerDoubles
    <3>3. Shifts[j] = a
      <4>1. j \in 1 .. Len(Shifts)
        BY <1>2, <2>4
      <4>2. Shifts[j] = 2 ^ (j - 1)
        BY <4>1, VectorAssumption
      <4> QED BY <3>1, <3>2, <4>2
    <3>4. f[j] = f[k] \cup {p \in 0 .. SizeBits - 1 : p + a \in f[k]}
      <4>1. j \in 0 .. Len(Shifts) /\ j # 0
        BY <1>2, <2>4
      <4>2. f[j] = f[j - 1]
              \cup {p \in 0 .. SizeBits - 1 : p + Shifts[j] \in f[j - 1]}
        BY <1>1, <4>1 DEF Smears
      <4> QED BY <3>1, <3>3, <4>2
    <3>5. /\ f[k] \subseteq 0 .. t
          /\ \A p \in 0 .. t : p + a > t => p \in f[k]
      <4>1. k \in Good
        BY <2>2, <3>1
      <4> QED BY <3>2, <4>1
    <3>6. f[j] \subseteq 0 .. t
      <4>1. ASSUME NEW p \in 0 .. SizeBits - 1, p + a \in f[k]
            PROVE  p \in 0 .. t
        <5>1. p + a \in 0 .. t
          BY <3>5, <4>1
        <5> QED BY <1>3, <5>1
      <4> QED BY <3>4, <3>5, <4>1
    <3>7. ASSUME NEW p \in 0 .. t, p + b > t PROVE p \in f[j]
      <4>1. CASE p + a > t
        BY <3>4, <3>5, <4>1
      <4>2. CASE p + a <= t
        <5>1. p + a \in 0 .. t /\ (p + a) + a > t /\ p \in 0 .. SizeBits - 1
          BY <1>3, <3>2, <3>7, <4>2
        <5>2. p + a \in f[k]
          BY <3>5, <5>1
        <5> QED BY <3>4, <5>1, <5>2
      <4> QED BY <4>1, <4>2
    <3>8. \A p \in 0 .. t : p + 2 ^ j > t => p \in f[j]
      BY <3>2, <3>7
    <3> QED BY <2>2, <3>6, <3>8
  <2> QED BY <2>3, <2>4
<1>5. PICK m \in Nat : m = 2 ^ l
  BY PowerPositive
<1>6. \A p \in 0 .. t : p + m > t
  BY <1>3, <1>5
<1>7. f[l] = 0 .. t
  <2>1. f[l] \subseteq 0 .. t /\ \A p \in 0 .. t : p + m > t => p \in f[l]
    BY <1>4, <1>5
  <2> QED BY <1>6, <2>1
<1> QED BY <1>1, <1>2, <1>7

\* Nothing becomes set where nothing is.
LEMMA SmearedOfNone == Smeared({}) = {}
<1>1. PICK f : Smears(f, {}, Len(Shifts)) /\ Smeared({}) = f[Len(Shifts)]
  BY SmearedIs
<1>2. PICK l \in Nat : l = Len(Shifts)
  BY VectorAssumption
<1> DEFINE Good == {j \in Nat : f[j] = {}}
<1>3. SUFFICES ASSUME l \notin Good PROVE FALSE
  BY <1>1, <1>2
<1>4. PICK j \in 0 .. l : j \notin Good /\ \A i \in 0 .. j - 1 : i \in Good
  <2> HIDE DEF Good
  <2> QED BY <1>3, FirstFailure
<1>5. CASE j = 0
  <2>1. f[j] = {}
    BY <1>1, <1>2, <1>5 DEF Smears
  <2> QED BY <1>4, <2>1
<1>6. CASE j > 0
  <2>1. j \in 0 .. Len(Shifts) /\ j # 0 /\ j - 1 \in 0 .. j - 1
    BY <1>2, <1>6
  <2>2. f[j] = f[j - 1]
          \cup {p \in 0 .. SizeBits - 1 : p + Shifts[j] \in f[j - 1]}
    BY <1>1, <2>1 DEF Smears
  <2>3. f[j - 1] = {}
    BY <1>4, <2>1
  <2>4. f[j] = {}
    BY <2>2, <2>3
  <2> QED BY <1>4, <2>4
<1> QED BY <1>5, <1>6

\* size_t has bits.
LEMMA HasBits == SizeBits \in Nat /\ SizeBits - 1 \in Nat
<1>1. PICK l \in Nat : l = Len(Shifts)
  BY VectorAssumption
<1>2. PICK m \in Nat : m = 2 ^ l
  BY PowerPositive
<1>3. SizeBits \in 1 .. m
  BY <1>1, <1>2, VectorAssumption
<1> QED BY <1>2, <1>3

\* roundToNearestPowOf2 gives the least power of two that is not less than
\* what it is given, as long as that has half of the range of size_t: less
\* than twice as much.
THEOREM RoundsUp ==
  ASSUME NEW n \in 1 .. 2 ^ (SizeBits - 1)
  PROVE  \E k \in Nat : RoundUp(n) = 2 ^ k /\ n <= 2 ^ k /\ 2 ^ k < 2 * n
<1>1. PICK b \in Nat : SizeBits = b + 1 /\ b = SizeBits - 1
  BY HasBits
<1>2. PICK h \in Nat \ {0}, m \in Nat :
        h = 2 ^ b /\ m = 2 ^ SizeBits /\ m = 2 * h
  BY <1>1, PowerPositive, PowerDoubles
<1>3. n \in 1 .. h
  BY <1>1, <1>2
<1>4. PICK y \in Nat : y = n - 1 /\ n = y + 1 /\ y < h
  BY <1>3
<1>5. RoundUp(n) = (Number(Smeared(Bits(y))) + 1) % m
  BY <1>2, <1>3, <1>4 DEF RoundUp
<1>6. CASE y = 0
  <2>1. Smeared(Bits(y)) = 0 .. 0 - 1
    <3>1. 0 .. 0 - 1 = {}
      OBVIOUS
    <3> QED BY <1>1, <1>6, <3>1, BitsOfZero, SmearedOfNone
  <2>2. Number(0 .. 0 - 1) = 2 ^ 0 - 1
    <3>1. SizeBits \in Nat /\ 0 \in 0 .. SizeBits
      BY <1>1
    <3> QED BY ONLY <3>1, NumberOfLowest
  <2>3. RoundUp(n) = (0 + 1) % m
    BY <1>5, <2>1, <2>2, PowerZero
  <2>4. RoundUp(n) = 1
    BY <1>2, <2>3
  <2>5. n <= 1 /\ 1 < 2 * n
    BY <1>3, <1>4, <1>6
  <2>6. 0 \in Nat /\ RoundUp(n) = 2 ^ 0 /\ n <= 2 ^ 0 /\ 2 ^ 0 < 2 * n
    BY <2>4, <2>5, PowerZero
  <2> QED BY <2>6
<1>7. CASE y > 0
  <2>1. PICK t \in 0 .. b - 1 : 2 ^ t <= y /\ y < 2 ^ (t + 1)
    <3>1. y \in Nat \ {0} /\ y < 2 ^ b
      BY <1>2, <1>4, <1>7
    <3> QED BY <3>1, HighestBit
  <2>2. PICK p \in Nat, q \in Nat :
          p = 2 ^ t /\ q = 2 ^ (t + 1) /\ q = 2 * p
    BY PowerPositive, PowerDoubles
  <2>3. t \in 0 .. SizeBits - 1 /\ t + 1 \in 0 .. SizeBits /\ t + 1 <= b
    BY <1>1
  <2>4. Smeared(Bits(y)) = 0 .. t
    <3>1. t \in Bits(y) /\ Bits(y) \subseteq 0 .. t
      BY <1>1, <2>1, <2>3, BitsBelow
    <3> QED BY <2>3, <3>1, SmearedFills
  <2>5. Number(0 .. t) = q - 1
    <3>1. PICK u \in Nat : u = t + 1 /\ t = u - 1 /\ u \in 0 .. SizeBits
      BY <2>3
    <3>2. Number(0 .. u - 1) = 2 ^ u - 1
      BY <1>1, <3>1, NumberOfLowest
    <3> QED BY <2>2, <3>1, <3>2
  <2>6. q <= h
    BY <1>2, <2>2, <2>3, PowerGrows
  <2>7. RoundUp(n) = q
    <3>1. RoundUp(n) = ((q - 1) + 1) % m
      BY <1>5, <2>4, <2>5
    <3>2. (q - 1) + 1 = q
      BY <2>2
    <3>3. q % m = q
      BY <1>2, <2>6, <2>2
    <3> QED BY <3>1, <3>2, <3>3
  <2>8. n <= q /\ q < 2 * n
    BY <1>4, <2>1, <2>2
  <2> QED BY <2>2, <2>7, <2>8
<1> QED BY <1>6, <1>7

-----------------------------------------------------------------------------
(* Memory *)

\* The operator new[] has addresses left, and null is none of them.
IsHeap(h) == IsFiniteSet(DOMAIN h) /\ DOMAIN h \subseteq Nat \ {Null}

\* An array of cap cells of which the first size hold objects.
Holding(cells, size, cap) ==
  /\ cells \in [1 .. cap -> Objects \cup {Raw}]
  /\ \A i \in 1 .. cap : cells[i] \in Objects <=> i <= size

\* A vector with its heap.
Sound(s) ==
  /\ IsHeap(s.heap)
  /\ s = [heap |-> s.heap, v |-> s.v]
  /\ s.v \in [size : Nat, cap : Nat, data : Nat]
  /\ s.v.size <= s.v.cap
  /\ s.v.data = Null => s.v.cap = 0
  /\ s.v.data # Null =>
       /\ s.v.data \in DOMAIN s.heap
       /\ Holding(s.heap[s.v.data], s.v.size, s.v.cap)

\* t is s with another array, or other cells in the same one, and the rest
\* of the heap is as it was.
Replaces(s, t) ==
  /\ DOMAIN t.heap = ((DOMAIN s.heap \ {s.v.data}) \cup {t.v.data}) \ {Null}
  /\ t.v.data = s.v.data \/ t.v.data \notin DOMAIN s.heap
  /\ \A a \in DOMAIN s.heap \ {s.v.data} : t.heap[a] = s.heap[a]

LEMMA ReplacesItself ==
  ASSUME NEW s, Sound(s)
  PROVE  Replaces(s, s)
  BY DEF Sound, IsHeap, Replaces

LEMMA ReplacesOnce ==
  ASSUME NEW r, NEW s, NEW t, Sound(r), Sound(s), Sound(t),
         Replaces(r, s), Replaces(s, t)
  PROVE  Replaces(r, t)
  BY DEF Sound, IsHeap, Replaces

\* A new array has an address of its own.
LEMMA NewArrayIsNew ==
  ASSUME NEW h, IsHeap(h)
  PROVE  NewArray(h) \in Nat \ {Null} /\ NewArray(h) \notin DOMAIN h
<1>1. PICK c \in Nat : c = Cardinality(DOMAIN h)
  BY FS_CardinalityType DEF IsHeap
<1>2. IsFiniteSet(1 .. c + 1) /\ Cardinality(1 .. c + 1) = c + 1
  BY FS_Interval
<1>3. \E a \in 1 .. c + 1 : a \notin DOMAIN h
  <2>1. SUFFICES ASSUME 1 .. c + 1 \subseteq DOMAIN h PROVE FALSE
    OBVIOUS
  <2>2. Cardinality(1 .. c + 1) <= Cardinality(DOMAIN h)
    BY <2>1, FS_Subset DEF IsHeap
  <2> QED BY <1>1, <1>2, <2>2
<1>4. NewArray(h) \in 1 .. c + 1 /\ NewArray(h) \notin DOMAIN h
  BY <1>1, <1>3 DEF NewArray
<1> QED BY <1>4 DEF Null

\* The contents of a vector are what its first cells hold.
LEMMA ContentsAre ==
  ASSUME NEW s, Sound(s)
  PROVE  /\ Contents(s) \in Seq(Objects)
         /\ Len(Contents(s)) = s.v.size
         /\ \A i \in 1 .. s.v.size : Contents(s)[i] = s.heap[s.v.data][i]
<1>1. CASE s.v.data = Null
  <2>1. s.v.size = 0
    BY <1>1 DEF Sound
  <2>2. Contents(s) = <<>>
    BY <1>1 DEF Contents
  <2>3. <<>> \in Seq(Objects) /\ Len(<<>>) = 0
    OBVIOUS
  <2> QED BY <2>1, <2>2, <2>3
<1>2. CASE s.v.data # Null
  <2>1. PICK n, c : n \in Nat /\ n = s.v.size /\ c = s.heap[s.v.data]
    BY DEF Sound
  <2>2. Contents(s) = SubSeq(c, 1, n)
    BY <1>2, <2>1 DEF Contents, Held
  <2>3. \A i \in 1 .. n : c[i] \in Objects
    BY <1>2, <2>1 DEF Sound, Holding
  <2>4. /\ SubSeq(c, 1, n) \in Seq(Objects)
        /\ Len(SubSeq(c, 1, n)) = IF 1 <= n THEN n - 1 + 1 ELSE 0
        /\ \A i \in 1 .. n - 1 + 1 : SubSeq(c, 1, n)[i] = c[1 + i - 1]
    BY <2>1, <2>3, SubSeqProperties
  <2>5. Len(SubSeq(c, 1, n)) = n
    BY <2>1, <2>4
  <2>6. \A i \in 1 .. n : SubSeq(c, 1, n)[i] = c[i]
    <3>1. TAKE i \in 1 .. n
    <3>2. i \in 1 .. n - 1 + 1 /\ 1 + i - 1 = i
      BY <2>1
    <3> QED BY <2>4, <3>2
  <2> QED BY <2>1, <2>2, <2>4, <2>5, <2>6
<1> QED BY <1>1, <1>2

\* And no other sequence is.
LEMMA ContentsAreOnly ==
  ASSUME NEW s, Sound(s), NEW c \in Seq(Objects), Len(c) = s.v.size,
         \A i \in 1 .. s.v.size : c[i] = s.heap[s.v.data][i]
  PROVE  Contents(s) = c
<1>1. /\ Contents(s) \in Seq(Objects) /\ Len(Contents(s)) = Len(c)
      /\ \A i \in 1 .. Len(Contents(s)) : Contents(s)[i] = c[i]
  BY ContentsAre
<1> QED BY <1>1, SeqEqual

\* Raw cells behind the elements.
LEMMA CellsHold ==
  ASSUME NEW seq \in Seq(Objects), NEW cap \in Nat, Len(seq) <= cap
  PROVE  /\ Holding(Cells(seq, cap), Len(seq), cap)
         /\ \A i \in 1 .. Len(seq) : Cells(seq, cap)[i] = seq[i]
<1>1. PICK n \in Nat : n = Len(seq) /\ \A i \in 1 .. n : seq[i] \in Objects
  OBVIOUS
<1>2. Raw \notin Objects
  BY VectorAssumption
<1>3. Cells(seq, cap) = [i \in 1 .. cap |-> IF i <= n THEN seq[i] ELSE Raw]
  BY <1>1 DEF Cells
<1>4. \A i \in 1 .. cap : /\ Cells(seq, cap)[i] = IF i <= n THEN seq[i] ELSE Raw
                          /\ Cells(seq, cap)[i] \in Objects \cup {Raw}
                          /\ Cells(seq, cap)[i] \in Objects <=> i <= n
  BY <1>1, <1>2, <1>3
<1>5. Cells(seq, cap) \in [1 .. cap -> Objects \cup {Raw}]
  BY <1>3, <1>4
<1> QED BY <1>1, <1>4, <1>5 DEF Holding

\* A constructor makes a vector of seq with room for cap.
LEMMA ConstructedSound ==
  ASSUME NEW h, IsHeap(h), NEW seq \in Seq(Objects), NEW cap \in Nat,
         Len(seq) <= cap, NEW t, t = Constructed(h, seq, cap)
  PROVE  /\ Sound(t) /\ Contents(t) = seq
         /\ t.v = [size |-> Len(seq), cap |-> cap, data |-> t.v.data]
         /\ t.v.data # Null /\ t.v.data \notin DOMAIN h
         /\ DOMAIN t.heap = DOMAIN h \cup {t.v.data}
         /\ \A a \in DOMAIN h : t.heap[a] = h[a]
<1>1. PICK a \in Nat \ {Null} : a = NewArray(h) /\ a \notin DOMAIN h
  BY NewArrayIsNew
<1>2. PICK c, n : /\ n \in Nat /\ n = Len(seq) /\ n <= cap
                  /\ c = Cells(seq, cap) /\ Holding(c, n, cap)
                  /\ \A i \in 1 .. n : c[i] = seq[i]
  <2>1. /\ Holding(Cells(seq, cap), Len(seq), cap)
        /\ \A i \in 1 .. Len(seq) : Cells(seq, cap)[i] = seq[i]
    BY CellsHold
  <2>2. Len(seq) \in Nat
    OBVIOUS
  <2> QED BY <2>1, <2>2
<1>3. PICK g : /\ g = Extended(h, a, c)
               /\ DOMAIN g = DOMAIN h \cup {a} /\ g[a] = c
               /\ \A b \in DOMAIN h : b # a => g[b] = h[b]
  <2>1. /\ DOMAIN Extended(h, a, c) = DOMAIN h \cup {a}
        /\ Extended(h, a, c)[a] = c
        /\ \A b \in DOMAIN h : b # a => Extended(h, a, c)[b] = h[b]
    BY DEF Extended
  <2> QED BY <2>1
<1>4. t = [heap |-> g, v |-> [size |-> n, cap |-> cap, data |-> a]]
  BY <1>1, <1>2, <1>3 DEF Constructed
<1>5. /\ t.heap = g /\ t.v.size = n /\ t.v.cap = cap /\ t.v.data = a
      /\ t.v = [size |-> n, cap |-> cap, data |-> a]
      /\ t = [heap |-> t.heap, v |-> t.v]
  BY <1>4
<1>6. IsHeap(g)
  BY <1>1, <1>3, FS_AddElement DEF IsHeap
<1>7. Sound(t)
  BY <1>1, <1>2, <1>3, <1>5, <1>6 DEF Sound
<1>8. Contents(t) = seq
  <2>1. Len(seq) = t.v.size /\ \A i \in 1 .. t.v.size : seq[i] = t.heap[t.v.data][i]
    BY <1>2, <1>3, <1>5
  <2> QED BY <1>7, <2>1, ContentsAreOnly
<1> QED BY <1>1, <1>2, <1>3, <1>5, <1>7, <1>8

\* What reserve and shrink_to_fit make is the same vector elsewhere.
LEMMA ReallocatedSound ==
  ASSUME NEW s, Sound(s), NEW cap \in Nat, s.v.size <= cap, cap # 0,
         NEW t, t = Reallocated(s, cap)
  PROVE  /\ Sound(t) /\ Replaces(s, t) /\ Contents(t) = Contents(s)
         /\ t.v = [size |-> s.v.size, cap |-> cap, data |-> t.v.data]
         /\ t.v.data # s.v.data
<1>1. PICK old : /\ old = s.v.data /\ IsHeap(s.heap)
                 /\ old \in DOMAIN s.heap \/ old = Null
  BY DEF Sound
<1>2. PICK seq \in Seq(Objects) : seq = Contents(s) /\ Len(seq) = s.v.size
  BY ContentsAre
<1>3. PICK m : m = Constructed(s.heap, seq, cap)
  OBVIOUS
<1>4. /\ Sound(m) /\ Contents(m) = seq
      /\ m.v = [size |-> Len(seq), cap |-> cap, data |-> m.v.data]
      /\ m.v.data # Null /\ m.v.data \notin DOMAIN s.heap
      /\ DOMAIN m.heap = DOMAIN s.heap \cup {m.v.data}
      /\ \A a \in DOMAIN s.heap : m.heap[a] = s.heap[a]
  BY <1>1, <1>2, <1>3, ConstructedSound
<1>5. PICK g : /\ g = Freed(m.heap, old)
               /\ DOMAIN g = DOMAIN m.heap \ {old}
               /\ \A a \in DOMAIN g : g[a] = m.heap[a]
  <2>1. Freed(m.heap, old) = [a \in DOMAIN m.heap \ {old} |-> m.heap[a]]
    BY DEF Freed, Restrict
  <2> QED BY <2>1
<1>6. m = [heap |-> m.heap, v |-> m.v]
  BY <1>4 DEF Sound
<1>7. t = [heap |-> g, v |-> m.v]
  <2>1. t = [m EXCEPT !.heap = Freed(@, old)]
    BY <1>1, <1>2, <1>3 DEF Reallocated
  <2> QED BY <1>5, <1>6, <2>1
<1>8. t.heap = g /\ t.v = m.v /\ t = [heap |-> t.heap, v |-> t.v]
  BY <1>7
<1>9. m.v.data # old
  BY <1>1, <1>4
<1>10. IsHeap(g)
  <2>1. IsFiniteSet(DOMAIN m.heap) /\ DOMAIN m.heap \subseteq Nat \ {Null}
    BY <1>4 DEF Sound, IsHeap
  <2>2. IsFiniteSet(DOMAIN g)
    BY <1>5, <2>1, FS_RemoveElement
  <2> QED BY <1>5, <2>1, <2>2 DEF IsHeap
<1>11. m.v.data \in DOMAIN g /\ g[m.v.data] = m.heap[m.v.data]
  BY <1>4, <1>5, <1>9
<1>12. Sound(t)
  BY <1>4, <1>8, <1>10, <1>11 DEF Sound
<1>13. Contents(t) = seq
  <2>1. /\ Len(seq) = t.v.size
        /\ \A i \in 1 .. t.v.size : seq[i] = t.heap[t.v.data][i]
    BY <1>4, <1>8, <1>11, ContentsAre
  <2> QED BY <1>12, <2>1, ContentsAreOnly
<1>14. Replaces(s, t)
  <2>1. Null \notin DOMAIN s.heap
    BY <1>1 DEF IsHeap
  <2> QED BY <1>1, <1>4, <1>5, <1>8, <1>9, <2>1 DEF Replaces
<1> QED BY <1>1, <1>2, <1>4, <1>8, <1>9, <1>12, <1>13, <1>14

\* What is asked of roundToNearestPowOf2 is in its range.
LEMMA CapacityFor ==
  ASSUME NEW n \in Nat, n <= Growth * MaxSize
  PROVE  /\ RoundUp(n) \in Nat \ {0} /\ n <= RoundUp(n)
         /\ n = 0 => RoundUp(n) = 1
         /\ n # 0 => RoundUp(n) < 2 * n
<1>1. CASE n = 0
  <2>1. RoundUp(n) = 1
    BY <1>1 DEF RoundUp
  <2> QED BY <1>1, <2>1
<1>2. CASE n # 0
  <2>1. PICK g, m : /\ g = Growth * MaxSize /\ m = 2 ^ (SizeBits - 1)
                   /\ g \in Nat /\ g <= m
    BY VectorAssumption
  <2>2. SizeBits - 1 \in Nat
    BY HasBits
  <2>3. m \in Nat
    BY <2>1, <2>2, PowerPositive
  <2>4. n \in 1 .. m
    BY <1>2, <2>1, <2>3
  <2>5. n \in 1 .. 2 ^ (SizeBits - 1)
    BY <2>1, <2>4
  <2>6. PICK k \in Nat : RoundUp(n) = 2 ^ k /\ n <= 2 ^ k /\ 2 ^ k < 2 * n
    BY <2>5, RoundsUp
  <2>7. 2 ^ k \in Nat \ {0}
    BY PowerPositive
  <2> QED BY <1>2, <2>6, <2>7
<1> QED BY <1>1, <1>2

\* What a vector may hold may be asked for.
LEMMA SizesSmall ==
  ASSUME NEW n \in Nat, n <= MaxSize
  PROVE  n * Growth \in Nat /\ n * Growth <= Growth * MaxSize /\ 2 * n <= n * Growth
         /\ n <= Growth * MaxSize
<1>1. PICK g \in Nat : g = Growth /\ g >= 2 /\ MaxSize \in Nat
  BY VectorAssumption
<1>2. n * g <= MaxSize * g
  BY <1>1
<1>3. 2 * n <= n * g
  BY <1>1
<1>4. MaxSize * g = g * MaxSize /\ n * g \in Nat /\ n <= 2 * n
  BY <1>1
<1>5. g * MaxSize \in Nat
  BY <1>1
<1>6. PICK a \in Nat, b \in Nat : a = n * g /\ b = g * MaxSize
  BY <1>4, <1>5
<1>7. a <= b /\ 2 * n <= a
  BY <1>2, <1>3, <1>4, <1>6
<1>8. n <= b
  BY <1>7
<1> QED BY <1>1, <1>6, <1>7, <1>8

\* reserve makes room for as many elements as it is given.
LEMMA ReservedSound ==
  ASSUME NEW s, Sound(s), NEW count \in Nat, count <= Growth * MaxSize,
         NEW t, t = Reserved(s, count)
  PROVE  /\ Sound(t) /\ Replaces(s, t) /\ Contents(t) = Contents(s)
         /\ t.v.size = s.v.size /\ count <= t.v.cap /\ t.v.cap # 0
         /\ s.v.cap <= t.v.cap
         /\ (count <= s.v.cap /\ s.v.cap # 0) => t = s
<1>1. PICK n \in Nat : n = (IF count = 0 THEN 1 ELSE count)
  OBVIOUS
<1>2. s.v.size \in Nat /\ s.v.cap \in Nat /\ s.v.size <= s.v.cap
  BY DEF Sound
<1>3. CASE n <= s.v.cap
  <2>1. t = s
    BY <1>1, <1>3 DEF Reserved
  <2> QED BY <1>1, <1>2, <1>3, <2>1, ReplacesItself
<1>4. CASE ~(n <= s.v.cap)
  <2>1. t = Reallocated(s, RoundUp(n))
    BY <1>1, <1>4 DEF Reserved
  <2>2. PICK cap \in Nat \ {0} : cap = RoundUp(n) /\ n <= cap
    <3>1. CASE count # 0
      BY <1>1, <3>1, CapacityFor
    <3>2. CASE count = 0
      <4>1. n = 1 /\ RoundUp(1) = 1
        <5>1. 1 \in 1 .. 2 ^ (SizeBits - 1)
          <6>1. PICK m \in Nat \ {0} : m = 2 ^ (SizeBits - 1)
            BY HasBits, PowerPositive
          <6> QED BY <6>1
        <5>2. PICK k \in Nat :
                RoundUp(1) = 2 ^ k /\ 1 <= 2 ^ k /\ 2 ^ k < 2 * 1
          BY <5>1, RoundsUp
        <5>3. 2 ^ k \in Nat
          BY PowerPositive
        <5> QED BY <1>1, <3>2, <5>2, <5>3
      <4> QED BY <4>1
    <3> QED BY <3>1, <3>2
  <2>3. s.v.size <= cap
    BY <1>2, <1>4, <2>2
  <2>4. /\ Sound(t) /\ Replaces(s, t) /\ Contents(t) = Contents(s)
        /\ t.v = [size |-> s.v.size, cap |-> cap, data |-> t.v.data]
    BY <2>1, <2>2, <2>3, ReallocatedSound
  <2>5. t.v.size = s.v.size /\ t.v.cap = cap
    BY <2>4
  <2> QED BY <1>1, <1>2, <1>4, <2>2, <2>4, <2>5
<1> QED BY <1>3, <1>4

\* shrink_to_fit leaves less than twice the cells that are needed.
LEMMA ShrunkSound ==
  ASSUME NEW s, Sound(s), s.v.size <= MaxSize, NEW t, t = Shrunk(s)
  PROVE  /\ Sound(t) /\ Replaces(s, t) /\ Contents(t) = Contents(s)
         /\ t.v.size = s.v.size
         /\ t.v.cap <= Max({1, 2 * s.v.size - 1})
<1>1. PICK n \in Nat : n = s.v.size /\ s.v.cap \in Nat /\ n <= s.v.cap
  BY DEF Sound
<1>2. PICK cap \in Nat \ {0} :
        /\ cap = RoundUp(n) /\ n <= cap
        /\ n = 0 => cap = 1
        /\ n # 0 => cap < 2 * n
  BY <1>1, SizesSmall, CapacityFor
<1>3. cap <= Max({1, 2 * n - 1})
  <2> DEFINE M == {1, 2 * n - 1}
  <2>1. \E m \in M : \A k \in M : m >= k
    OBVIOUS
  <2>2. Max(M) \in M /\ \A k \in M : Max(M) >= k
    <3> HIDE DEF M
    <3> QED BY <2>1 DEF Max
  <2>3. Max(M) \in Int /\ Max(M) >= 1 /\ Max(M) >= 2 * n - 1
    BY <2>2
  <2> HIDE DEF M
  <2>4. cap <= Max(M)
    BY <1>2, <2>3
  <2> QED BY <2>4 DEF M
<1>4. CASE cap >= s.v.cap
  <2>1. t = s
    BY <1>1, <1>2, <1>4 DEF Shrunk
  <2>2. PICK m : m = Max({1, 2 * n - 1})
    OBVIOUS
  <2>3. m \in Int
    <3> DEFINE M == {1, 2 * n - 1}
    <3>1. \E k \in M : \A j \in M : k >= j
      OBVIOUS
    <3>2. Max(M) \in M
      <4> HIDE DEF M
      <4> QED BY <3>1 DEF Max
    <3> QED BY <2>2, <3>2
  <2>4. s.v.cap <= m
    BY <1>1, <1>2, <1>3, <1>4, <2>2, <2>3
  <2> QED BY <1>1, <2>1, <2>2, <2>4, ReplacesItself
<1>5. CASE ~(cap >= s.v.cap)
  <2>1. t = Reallocated(s, cap)
    BY <1>1, <1>2, <1>5 DEF Shrunk
  <2>2. /\ Sound(t) /\ Replaces(s, t) /\ Contents(t) = Contents(s)
        /\ t.v = [size |-> s.v.size, cap |-> cap, data |-> t.v.data]
    BY <1>1, <1>2, <2>1, ReallocatedSound
  <2>3. t.v.size = s.v.size /\ t.v.cap = cap
    BY <2>2
  <2> QED BY <1>1, <1>3, <2>2, <2>3
<1> QED BY <1>4, <1>5

\* A full vector grows before an element is added.
LEMMA MadeRoomSound ==
  ASSUME NEW s, Sound(s), s.v.size <= MaxSize, NEW t, t = MadeRoom(s)
  PROVE  /\ Sound(t) /\ Replaces(s, t) /\ Contents(t) = Contents(s)
         /\ t.v.size = s.v.size /\ t.v.size < t.v.cap
         /\ s.v.cap <= t.v.cap
         /\ ~IsFull(s) => t = s
<1>1. PICK n \in Nat, c \in Nat : n = s.v.size /\ c = s.v.cap /\ n <= c
  BY DEF Sound
<1>2. CASE IsFull(s)
  <2>1. c = n /\ t = Reserved(s, c * Growth)
    BY <1>1, <1>2 DEF IsFull, MadeRoom
  <2>2. PICK g \in Nat : g = c * Growth /\ g <= Growth * MaxSize /\ 2 * c <= g
    BY <1>1, <2>1, SizesSmall
  <2>3. /\ Sound(t) /\ Replaces(s, t) /\ Contents(t) = Contents(s)
        /\ t.v.size = s.v.size /\ g <= t.v.cap /\ t.v.cap # 0
    BY <2>1, <2>2, ReservedSound
  <2>4. t.v.cap \in Nat
    BY <2>3 DEF Sound
  <2> QED BY <1>1, <1>2, <2>1, <2>2, <2>3, <2>4
<1>3. CASE ~IsFull(s)
  <2>1. t = s /\ c # n
    BY <1>1, <1>3 DEF IsFull, MadeRoom
  <2> QED BY <1>1, <2>1, ReplacesItself
<1> QED BY <1>2, <1>3

\* t has other cells in the array of s.
LEMMA RewrittenSound ==
  ASSUME NEW s, Sound(s), s.v.data # Null, NEW t, NEW n \in Nat, n <= s.v.cap,
         t = [heap |-> t.heap, v |-> t.v],
         t.v = [size |-> n, cap |-> s.v.cap, data |-> s.v.data],
         DOMAIN t.heap = DOMAIN s.heap,
         Holding(t.heap[s.v.data], n, s.v.cap),
         \A a \in DOMAIN s.heap \ {s.v.data} : t.heap[a] = s.heap[a]
  PROVE  Sound(t) /\ Replaces(s, t)
<1>1. t.v.size = n /\ t.v.cap = s.v.cap /\ t.v.data = s.v.data
  OBVIOUS
<1>2. s.v.cap \in Nat /\ s.v.data \in Nat /\ s.v.data \in DOMAIN s.heap
  BY DEF Sound
<1>3. IsHeap(t.heap)
  BY DEF Sound, IsHeap
<1>4. Sound(t)
  BY <1>1, <1>2, <1>3 DEF Sound
<1>5. Replaces(s, t)
  BY <1>1, <1>2, <1>3 DEF Replaces, IsHeap
<1> QED BY <1>4, <1>5

\* An element is constructed in the first cell that has none.
LEMMA PlacedSound ==
  ASSUME NEW s, Sound(s), s.v.size < s.v.cap, NEW e \in Objects,
         NEW t, t = Placed(s, e)
  PROVE  /\ Sound(t) /\ Replaces(s, t)
         /\ Contents(t) = Append(Contents(s), e)
         /\ t.v.size = s.v.size + 1 /\ t.v.cap = s.v.cap /\ t.v.data = s.v.data
<1>1. PICK n, c, d : /\ n = s.v.size /\ c = s.v.cap /\ d = s.v.data
                     /\ n \in Nat /\ c \in Nat /\ n < c
  BY DEF Sound
<1>2. /\ d # Null /\ d \in DOMAIN s.heap /\ Holding(s.heap[d], n, c)
      /\ s = [heap |-> s.heap, v |-> s.v] /\ s.v = [size |-> n, cap |-> c, data |-> d]
  BY <1>1 DEF Sound, Null
<1>3. PICK cells : cells = [s.heap[d] EXCEPT ![n + 1] = e]
  OBVIOUS
<1>4. Holding(cells, n + 1, c) /\ cells[n + 1] = e
      /\ \A i \in 1 .. n : cells[i] = s.heap[d][i]
  BY <1>1, <1>2, <1>3 DEF Holding
<1>5. PICK g : g = [s.heap EXCEPT ![d] = cells]
  OBVIOUS
<1>6. /\ DOMAIN g = DOMAIN s.heap /\ g[d] = cells
      /\ \A a \in DOMAIN s.heap \ {d} : g[a] = s.heap[a]
  BY <1>2, <1>5
<1>7. t = [heap |-> g, v |-> [size |-> n + 1, cap |-> c, data |-> d]]
  <2>1. t = [s EXCEPT !.heap[d][n + 1] = e, !.v.size = n + 1]
    BY <1>1 DEF Placed
  <2>2. PICK h : h = s.heap /\ s = [heap |-> h, v |-> [size |-> n, cap |-> c,
                                                      data |-> d]]
    BY <1>2
  <2>3. t = [[s EXCEPT !.heap[d][n + 1] = e] EXCEPT !.v.size = n + 1]
    BY <2>1, <2>2
  <2>4. [s EXCEPT !.heap[d][n + 1] = e]
          = [heap |-> [h EXCEPT ![d][n + 1] = e],
             v |-> [size |-> n, cap |-> c, data |-> d]]
    BY <2>2
  <2>5. [h EXCEPT ![d][n + 1] = e] = g
    BY <1>2, <1>3, <1>5, <2>2
  <2>6. t = [[heap |-> g, v |-> [size |-> n, cap |-> c, data |-> d]]
               EXCEPT !.v.size = n + 1]
    BY <2>3, <2>4, <2>5
  <2> QED BY <2>6
<1>8. /\ Sound(t) /\ Replaces(s, t)
      /\ t.v.size = n + 1 /\ t.v.cap = c /\ t.v.data = d
      /\ t.heap[t.v.data] = cells
  <2>1. /\ t = [heap |-> t.heap, v |-> t.v] /\ t.heap = g
        /\ t.v = [size |-> n + 1, cap |-> s.v.cap, data |-> s.v.data]
        /\ t.v.size = n + 1 /\ t.v.cap = c /\ t.v.data = d
    BY <1>1, <1>7
  <2>2. n + 1 \in Nat /\ n + 1 <= s.v.cap
    BY <1>1
  <2>3. /\ s.v.data # Null /\ DOMAIN t.heap = DOMAIN s.heap
        /\ Holding(t.heap[s.v.data], n + 1, s.v.cap)
        /\ \A a \in DOMAIN s.heap \ {s.v.data} : t.heap[a] = s.heap[a]
    BY <1>1, <1>2, <1>4, <1>6, <2>1
  <2>4. Sound(t) /\ Replaces(s, t)
    BY <2>1, <2>2, <2>3, RewrittenSound
  <2> QED BY <1>6, <2>1, <2>4
<1>9. Contents(t) = Append(Contents(s), e)
  <2>1. PICK old \in Seq(Objects) :
          /\ old = Contents(s) /\ Len(old) = n
          /\ \A i \in 1 .. n : old[i] = s.heap[d][i]
    BY <1>1, ContentsAre
  <2>2. PICK new \in Seq(Objects) :
          /\ new = Append(old, e) /\ Len(new) = n + 1
          /\ \A i \in 1 .. n : new[i] = old[i]
          /\ new[n + 1] = e
    <3>1. /\ Append(old, e) \in Seq(Objects)
          /\ Len(Append(old, e)) = n + 1
          /\ \A i \in 1 .. n : Append(old, e)[i] = old[i]
          /\ Append(old, e)[n + 1] = e
      BY <2>1, AppendProperties
    <3> QED BY <3>1
  <2>3. \A i \in 1 .. n + 1 : new[i] = cells[i]
    <3>1. TAKE i \in 1 .. n + 1
    <3>2. i \in 1 .. n \/ i = n + 1
      BY <1>1
    <3> QED BY <1>4, <2>1, <2>2, <3>2
  <2>4. Contents(t) = new
    BY <1>1, <1>8, <2>2, <2>3, ContentsAreOnly
  <2> QED BY <2>1, <2>2, <2>4
<1> QED BY <1>1, <1>8, <1>9

\* emplace_back adds its element behind the others.
LEMMA EmplacedBackSound ==
  ASSUME NEW s, Sound(s), s.v.size <= MaxSize, NEW e \in Objects,
         NEW t, t = EmplacedBack(s, e)
  PROVE  /\ Sound(t) /\ Replaces(s, t)
         /\ Contents(t) = Append(Contents(s), e)
         /\ t.v.size = s.v.size + 1 /\ s.v.cap <= t.v.cap
         /\ ~IsFull(s) => t.v.data = s.v.data /\ t.v.cap = s.v.cap
<1>1. PICK m : m = MadeRoom(s)
  OBVIOUS
<1>2. /\ Sound(m) /\ Replaces(s, m) /\ Contents(m) = Contents(s)
      /\ m.v.size = s.v.size /\ m.v.size < m.v.cap /\ s.v.cap <= m.v.cap
      /\ ~IsFull(s) => m = s
  BY <1>1, MadeRoomSound
<1>3. /\ Sound(t) /\ Replaces(m, t)
      /\ Contents(t) = Append(Contents(m), e)
      /\ t.v.size = m.v.size + 1 /\ t.v.cap = m.v.cap /\ t.v.data = m.v.data
  BY <1>1, <1>2, PlacedSound DEF EmplacedBack
<1>4. Replaces(s, t)
  BY <1>2, <1>3, ReplacesOnce
<1> QED BY <1>2, <1>3, <1>4

\* pop_back destroys the last element.
LEMMA PoppedSound ==
  ASSUME NEW s, Sound(s), s.v.size > 0, NEW t, t = Popped(s)
  PROVE  /\ Sound(t) /\ Replaces(s, t)
         /\ t.v.size = s.v.size - 1 /\ t.v.cap = s.v.cap /\ t.v.data = s.v.data
         /\ \A i \in 1 .. t.v.size : Contents(t)[i] = Contents(s)[i]
<1>1. PICK n, c, d : /\ n = s.v.size /\ c = s.v.cap /\ d = s.v.data
                     /\ n \in Nat /\ c \in Nat /\ n <= c /\ n > 0
                     /\ n - 1 \in Nat
  BY DEF Sound
<1>2. /\ d # Null /\ d \in DOMAIN s.heap /\ Holding(s.heap[d], n, c)
      /\ s = [heap |-> s.heap, v |-> s.v] /\ s.v = [size |-> n, cap |-> c, data |-> d]
  BY <1>1 DEF Sound, Null
<1>3. PICK cells : cells = [s.heap[d] EXCEPT ![n] = Raw]
  OBVIOUS
<1>4. /\ Holding(cells, n - 1, c)
      /\ \A i \in 1 .. n - 1 : cells[i] = s.heap[d][i]
  <2>1. Raw \notin Objects
    BY VectorAssumption
  <2> QED BY <1>1, <1>2, <1>3, <2>1 DEF Holding
<1>5. PICK g : g = [s.heap EXCEPT ![d] = cells]
  OBVIOUS
<1>6. /\ DOMAIN g = DOMAIN s.heap /\ g[d] = cells
      /\ \A a \in DOMAIN s.heap \ {d} : g[a] = s.heap[a]
  BY <1>2, <1>5
<1>7. t = [heap |-> g, v |-> [size |-> n - 1, cap |-> c, data |-> d]]
  <2>1. t = [s EXCEPT !.heap[d][n] = Raw, !.v.size = n - 1]
    BY <1>1 DEF Popped
  <2>2. PICK h : h = s.heap /\ s = [heap |-> h, v |-> [size |-> n, cap |-> c,
                                                      data |-> d]]
    BY <1>2
  <2>3. t = [[s EXCEPT !.heap[d][n] = Raw] EXCEPT !.v.size = n - 1]
    BY <2>1, <2>2
  <2>4. [s EXCEPT !.heap[d][n] = Raw]
          = [heap |-> [h EXCEPT ![d][n] = Raw],
             v |-> [size |-> n, cap |-> c, data |-> d]]
    BY <2>2
  <2>5. [h EXCEPT ![d][n] = Raw] = g
    BY <1>2, <1>3, <1>5, <2>2
  <2>6. t = [[heap |-> g, v |-> [size |-> n, cap |-> c, data |-> d]]
               EXCEPT !.v.size = n - 1]
    BY <2>3, <2>4, <2>5
  <2> QED BY <2>6
<1>8. /\ Sound(t) /\ Replaces(s, t)
      /\ t.v.size = n - 1 /\ t.v.cap = c /\ t.v.data = d
      /\ t.heap[t.v.data] = cells
  <2>1. /\ t = [heap |-> t.heap, v |-> t.v] /\ t.heap = g
        /\ t.v = [size |-> n - 1, cap |-> s.v.cap, data |-> s.v.data]
        /\ t.v.size = n - 1 /\ t.v.cap = c /\ t.v.data = d
    BY <1>1, <1>7
  <2>2. n - 1 \in Nat /\ n - 1 <= s.v.cap
    BY <1>1
  <2>3. /\ s.v.data # Null /\ DOMAIN t.heap = DOMAIN s.heap
        /\ Holding(t.heap[s.v.data], n - 1, s.v.cap)
        /\ \A a \in DOMAIN s.heap \ {s.v.data} : t.heap[a] = s.heap[a]
    BY <1>1, <1>2, <1>4, <1>6, <2>1
  <2>4. Sound(t) /\ Replaces(s, t)
    BY <2>1, <2>2, <2>3, RewrittenSound
  <2> QED BY <1>6, <2>1, <2>4
<1>9. \A i \in 1 .. n - 1 : Contents(t)[i] = Contents(s)[i]
  <2>1. \A i \in 1 .. n : Contents(s)[i] = s.heap[d][i]
    BY <1>1, ContentsAre
  <2>2. \A i \in 1 .. n - 1 : Contents(t)[i] = cells[i]
    BY <1>8, ContentsAre
  <2> QED BY <1>1, <1>4, <2>1, <2>2
<1> QED BY <1>1, <1>8, <1>9

\* clear destroys all.
LEMMA ClearedSound ==
  ASSUME NEW s, Sound(s), NEW t, t = Cleared(s)
  PROVE  /\ Sound(t) /\ Replaces(s, t) /\ Contents(t) = <<>>
         /\ t.v.size = 0 /\ t.v.cap = s.v.cap /\ t.v.data = s.v.data
<1>1. PICK n, c, d : /\ n = s.v.size /\ c = s.v.cap /\ d = s.v.data
                     /\ n \in Nat /\ c \in Nat
                     /\ s = [heap |-> s.heap, v |-> s.v]
                     /\ s.v = [size |-> n, cap |-> c, data |-> d]
  BY DEF Sound
<1>2. PICK g : g = [a \in DOMAIN s.heap |->
                      IF a = d THEN Cells(<<>>, c) ELSE s.heap[a]]
  OBVIOUS
<1>3. t = [heap |-> g, v |-> [size |-> 0, cap |-> c, data |-> d]]
  <2>1. t = [s EXCEPT !.v.size = 0,
                      !.heap = [a \in DOMAIN @ |->
                                  IF a = d THEN Cells(<<>>, c) ELSE @[a]]]
    BY <1>1 DEF Cleared
  <2> QED BY <1>1, <1>2, <2>1
<1>4. t.heap = g /\ t.v.size = 0 /\ t.v.cap = c /\ t.v.data = d
  BY <1>3
<1>5. Sound(t) /\ Replaces(s, t)
  <2>1. CASE d = Null
    <3>1. DOMAIN g = DOMAIN s.heap /\ \A a \in DOMAIN g : a # Null /\ g[a] = s.heap[a]
      BY <1>1, <1>2, <2>1 DEF Sound, IsHeap
    <3>2. /\ IsHeap(t.heap) /\ t = [heap |-> t.heap, v |-> t.v]
          /\ t.v \in [size : Nat, cap : Nat, data : Nat] /\ c = 0
      BY <1>1, <1>3, <1>4, <2>1, <3>1 DEF Sound, IsHeap
    <3> QED BY <1>1, <1>4, <2>1, <3>1, <3>2 DEF Sound, Replaces
  <2>2. CASE d # Null
    <3>1. /\ <<>> \in Seq(Objects) /\ Len(<<>>) = 0
      OBVIOUS
    <3>2. Holding(Cells(<<>>, c), 0, c)
      <4>1. /\ c \in Nat /\ Len(<<>>) <= c
        BY <1>1, <3>1
      <4>2. Holding(Cells(<<>>, c), Len(<<>>), c)
        BY <3>1, <4>1, CellsHold
      <4> QED BY <3>1, <4>2
    <3>3. /\ DOMAIN g = DOMAIN s.heap /\ g[d] = Cells(<<>>, c)
          /\ \A a \in DOMAIN s.heap \ {d} : g[a] = s.heap[a]
      BY <1>1, <1>2, <2>2 DEF Sound
    <3>4. /\ t = [heap |-> t.heap, v |-> t.v]
          /\ t.v = [size |-> 0, cap |-> s.v.cap, data |-> s.v.data]
          /\ DOMAIN t.heap = DOMAIN s.heap
          /\ Holding(t.heap[s.v.data], 0, s.v.cap)
          /\ \A a \in DOMAIN s.heap \ {s.v.data} : t.heap[a] = s.heap[a]
      BY <1>1, <1>3, <3>2, <3>3
    <3>5. s.v.data # Null /\ 0 <= s.v.cap /\ 0 \in Nat
      BY <1>1, <2>2
    <3> QED BY <3>4, <3>5, RewrittenSound
  <2> QED BY <2>1, <2>2
<1>6. Contents(t) = <<>>
  BY <1>4, <1>5, ContentsAre, EmptySeq
<1> QED BY <1>1, <1>4, <1>5, <1>6

\* operator= where there is room.
LEMMA CopiedSound ==
  ASSUME NEW s, Sound(s), NEW other \in Seq(Objects), Len(other) <= s.v.cap,
         NEW t, t = Copied(s, other)
  PROVE  /\ Sound(t) /\ Replaces(s, t) /\ Contents(t) = other
         /\ t.v.size = Len(other) /\ t.v.cap = s.v.cap
<1>1. PICK n, c, d : /\ n = s.v.size /\ c = s.v.cap /\ d = s.v.data
                     /\ n \in Nat /\ c \in Nat /\ n <= c
                     /\ s = [heap |-> s.heap, v |-> s.v]
                     /\ s.v = [size |-> n, cap |-> c, data |-> d]
  BY DEF Sound
<1>2. PICK m \in Nat : m = Len(other) /\ m <= c
  BY <1>1
<1>3. CASE c = 0
  <2>1. t = s
    BY <1>1, <1>3 DEF Copied
  <2>2. m = 0 /\ n = 0
    BY <1>1, <1>2, <1>3
  <2>3. Contents(t) = other
    BY <1>1, <1>2, <2>1, <2>2, ContentsAre, EmptySeq
  <2> QED BY <1>1, <1>2, <2>1, <2>2, <2>3, ReplacesItself
<1>4. CASE c # 0
  <2>1. d # Null /\ d \in DOMAIN s.heap
    BY <1>1, <1>4 DEF Sound
  <2>2. PICK cells : /\ cells = Cells(other, c) /\ Holding(cells, m, c)
                     /\ \A i \in 1 .. m : cells[i] = other[i]
    BY <1>1, <1>2, CellsHold
  <2>3. PICK g : g = [s.heap EXCEPT ![d] = cells]
    OBVIOUS
  <2>4. /\ DOMAIN g = DOMAIN s.heap /\ g[d] = cells
        /\ \A a \in DOMAIN s.heap \ {d} : g[a] = s.heap[a]
    BY <2>1, <2>3
  <2>5. t = [heap |-> g, v |-> [size |-> m, cap |-> c, data |-> d]]
    <3>1. t = [s EXCEPT !.heap[d] = cells, !.v.size = m]
      BY <1>1, <1>2, <1>4, <2>2 DEF Copied
    <3> QED BY <1>1, <2>3, <3>1
  <2>6. /\ Sound(t) /\ Replaces(s, t)
        /\ t.v.size = m /\ t.v.cap = c /\ t.v.data = d
        /\ t.heap[t.v.data] = cells
    <3>1. m \in Nat /\ m <= s.v.cap /\ s.v.data # Null
      BY <1>1, <1>2, <2>1
    <3>2. /\ t = [heap |-> t.heap, v |-> t.v] /\ t.heap = g
          /\ t.v = [size |-> m, cap |-> s.v.cap, data |-> s.v.data]
          /\ t.v.size = m /\ t.v.cap = c /\ t.v.data = d
      BY <1>1, <2>5
    <3>3. /\ DOMAIN t.heap = DOMAIN s.heap
          /\ Holding(t.heap[s.v.data], m, s.v.cap)
          /\ \A a \in DOMAIN s.heap \ {s.v.data} : t.heap[a] = s.heap[a]
      BY <1>1, <2>2, <2>4, <3>2
    <3>4. Sound(t) /\ Replaces(s, t)
      BY <3>1, <3>2, <3>3, RewrittenSound
    <3> QED BY <2>4, <3>2, <3>4
  <2>7. Contents(t) = other
    BY <1>2, <2>2, <2>6, ContentsAreOnly
  <2> QED BY <1>1, <1>2, <2>6, <2>7
<1> QED BY <1>3, <1>4

-----------------------------------------------------------------------------
(* resize is a row of pop_back or of emplace_back *)

\* The vectors that a row of pop_back goes through.
Pops(f, s, k) ==
  f = [i \in 0 .. k |-> IF i = 0 THEN s ELSE Popped(f[i - 1])]

LEMMA PopsExist ==
  ASSUME NEW s, NEW k \in Nat
  PROVE  \E f : Pops(f, s, k)
<1> DEFINE Good == {j \in Nat : \E f : Pops(f, s, j)}
<1>1. SUFFICES ASSUME k \notin Good PROVE FALSE
  OBVIOUS
<1>2. PICK j \in 0 .. k : j \notin Good /\ \A i \in 0 .. j - 1 : i \in Good
  <2> HIDE DEF Good
  <2> QED BY <1>1, FirstFailure
<1>3. CASE j = 0
  <2>1. Pops([i \in 0 .. 0 |-> s], s, 0)
    BY DEF Pops
  <2> QED BY <1>2, <1>3, <2>1
<1>4. CASE j > 0
  <2>1. PICK f : Pops(f, s, j - 1)
    BY <1>2, <1>4
  <2> DEFINE last == Popped(f[j - 1])
             g == [i \in 0 .. j |-> IF i = j THEN last ELSE f[i]]
  <2>2. \A i \in 0 .. j - 1 : f[i] = IF i = 0 THEN s ELSE Popped(f[i - 1])
    BY <2>1 DEF Pops
  <2>3. \A i \in 0 .. j : g[i] = IF i = 0 THEN s ELSE Popped(g[i - 1])
    <3>1. TAKE i \in 0 .. j
    <3>2. CASE i = j
      <4>1. g[i - 1] = f[i - 1] /\ g[i] = last
        BY <1>4, <3>2
      <4> QED BY <1>4, <3>2, <4>1
    <3>3. CASE i < j
      <4>1. i \in 0 .. j - 1 /\ g[i] = f[i] /\ (i > 0 => g[i - 1] = f[i - 1])
        BY <3>3
      <4> HIDE DEF g
      <4>2. CASE i = 0
        BY <2>2, <4>1, <4>2
      <4>3. CASE i > 0
        <5>1. g[i - 1] = f[i - 1] /\ i # 0
          BY <4>1, <4>3
        <5> QED BY <2>2, <4>1, <5>1
      <4> QED BY <4>2, <4>3
    <3> QED BY <3>2, <3>3
  <2>4. Pops(g, s, j)
    <3> HIDE DEF last
    <3>1. g = [i \in 0 .. j |-> g[i]]
      OBVIOUS
    <3> HIDE DEF g
    <3> QED BY <2>3, <3>1 DEF Pops
  <2> QED BY <1>2, <2>4
<1> QED BY <1>2, <1>3, <1>4

\* The vectors that a row of emplace_back goes through.
Grows(f, s, e, k) ==
  f = [i \in 0 .. k |-> IF i = 0 THEN s ELSE EmplacedBack(f[i - 1], e)]

LEMMA GrowsExist ==
  ASSUME NEW s, NEW e, NEW k \in Nat
  PROVE  \E f : Grows(f, s, e, k)
<1> DEFINE Good == {j \in Nat : \E f : Grows(f, s, e, j)}
<1>1. SUFFICES ASSUME k \notin Good PROVE FALSE
  OBVIOUS
<1>2. PICK j \in 0 .. k : j \notin Good /\ \A i \in 0 .. j - 1 : i \in Good
  <2> HIDE DEF Good
  <2> QED BY <1>1, FirstFailure
<1>3. CASE j = 0
  <2>1. Grows([i \in 0 .. 0 |-> s], s, e, 0)
    BY DEF Grows
  <2> QED BY <1>2, <1>3, <2>1
<1>4. CASE j > 0
  <2>1. PICK f : Grows(f, s, e, j - 1)
    BY <1>2, <1>4
  <2> DEFINE last == EmplacedBack(f[j - 1], e)
             g == [i \in 0 .. j |-> IF i = j THEN last ELSE f[i]]
  <2>2. \A i \in 0 .. j - 1 : f[i] = IF i = 0 THEN s ELSE EmplacedBack(f[i - 1], e)
    BY <2>1 DEF Grows
  <2>3. \A i \in 0 .. j : g[i] = IF i = 0 THEN s ELSE EmplacedBack(g[i - 1], e)
    <3>1. TAKE i \in 0 .. j
    <3>2. CASE i = j
      <4>1. g[i - 1] = f[i - 1] /\ g[i] = last
        BY <1>4, <3>2
      <4> QED BY <1>4, <3>2, <4>1
    <3>3. CASE i < j
      <4>1. i \in 0 .. j - 1 /\ g[i] = f[i] /\ (i > 0 => g[i - 1] = f[i - 1])
        BY <3>3
      <4> HIDE DEF g
      <4>2. CASE i = 0
        BY <2>2, <4>1, <4>2
      <4>3. CASE i > 0
        <5>1. g[i - 1] = f[i - 1] /\ i # 0
          BY <4>1, <4>3
        <5> QED BY <2>2, <4>1, <5>1
      <4> QED BY <4>2, <4>3
    <3> QED BY <3>2, <3>3
  <2>4. Grows(g, s, e, j)
    <3> HIDE DEF last
    <3>1. g = [i \in 0 .. j |-> g[i]]
      OBVIOUS
    <3> HIDE DEF g
    <3> QED BY <2>3, <3>1 DEF Grows
  <2> QED BY <1>2, <2>4
<1> QED BY <1>2, <1>3, <1>4

\* After i steps, i elements are gone and the others are as before.
LEMMA PopsSound ==
  ASSUME NEW s, Sound(s), NEW k \in 0 .. s.v.size, NEW f, Pops(f, s, s.v.size),
         NEW t, t = f[k]
  PROVE  /\ Sound(t) /\ Replaces(s, t)
         /\ t.v.size = s.v.size - k /\ t.v.cap = s.v.cap
         /\ \A i \in 1 .. t.v.size : Contents(t)[i] = Contents(s)[i]
<1>1. PICK n \in Nat : n = s.v.size /\ k \in 0 .. n
  BY DEF Sound
<1> DEFINE After(j, r) == /\ Sound(r) /\ Replaces(s, r)
                          /\ r.v.size = n - j /\ r.v.cap = s.v.cap
                          /\ \A i \in 1 .. r.v.size :
                               Contents(r)[i] = Contents(s)[i]
           Good == {j \in Nat : After(j, f[j])}
<1>2. SUFFICES ASSUME k \notin Good PROVE FALSE
  BY <1>1
<1>3. PICK j \in 0 .. k : j \notin Good /\ \A i \in 0 .. j - 1 : i \in Good
  <2> HIDE DEF Good
  <2> QED BY <1>1, <1>2, FirstFailure
<1>4. j \in 0 .. n /\ j \in Nat
  BY <1>1
<1>5. f[j] = IF j = 0 THEN s ELSE Popped(f[j - 1])
  BY <1>1, <1>4 DEF Pops
<1>6. CASE j = 0
  <2>1. After(0, s)
    BY <1>1, ReplacesItself
  <2> QED BY <1>3, <1>4, <1>5, <1>6, <2>1
<1>7. CASE j > 0
  <2>1. PICK r : r = f[j - 1] /\ After(j - 1, r)
    <3>1. j - 1 \in Good
      BY <1>3, <1>4, <1>7
    <3> QED BY <3>1
  <2>2. PICK m : m = f[j] /\ m = Popped(r)
    BY <1>5, <1>7, <2>1
  <2>3. PICK x \in Nat : x = r.v.size /\ x = n - (j - 1) /\ x > 0 /\ x - 1 = n - j
    BY <1>1, <1>4, <1>7, <2>1 DEF Sound
  <2>4. /\ Sound(m) /\ Replaces(r, m)
        /\ m.v.size = x - 1 /\ m.v.cap = r.v.cap
        /\ \A i \in 1 .. m.v.size : Contents(m)[i] = Contents(r)[i]
    BY <2>1, <2>2, <2>3, PoppedSound
  <2>5. Replaces(s, m)
    BY <2>1, <2>4, ReplacesOnce
  <2>6. \A i \in 1 .. m.v.size : Contents(m)[i] = Contents(s)[i]
    <3>1. TAKE i \in 1 .. m.v.size
    <3>2. i \in 1 .. r.v.size
      BY <2>3, <2>4
    <3> QED BY <2>1, <2>4, <3>2
  <2>7. After(j, m)
    BY <2>1, <2>3, <2>4, <2>5, <2>6
  <2> QED BY <1>3, <1>4, <2>2, <2>7
<1> QED BY <1>6, <1>7

\* After k steps, there are k elements e behind those of before.
LEMMA GrowsSound ==
  ASSUME NEW s, Sound(s), NEW n \in Nat, s.v.size + n <= MaxSize,
         NEW k \in 0 .. n, NEW l \in Nat, n <= l,
         NEW e \in Objects, NEW f, Grows(f, s, e, l),
         NEW t, t = f[k]
  PROVE  /\ Sound(t) /\ Replaces(s, t)
         /\ t.v.size = s.v.size + k /\ s.v.cap <= t.v.cap
         /\ \A i \in 1 .. t.v.size :
              Contents(t)[i] = IF i <= s.v.size THEN Contents(s)[i] ELSE e
<1>1. PICK z \in Nat : z = s.v.size /\ z + n <= MaxSize /\ MaxSize \in Nat
  BY VectorAssumption DEF Sound
<1> DEFINE After(j, r) ==
             /\ Sound(r) /\ Replaces(s, r)
             /\ r.v.size = z + j /\ s.v.cap <= r.v.cap
             /\ \A i \in 1 .. r.v.size :
                  Contents(r)[i] = IF i <= z THEN Contents(s)[i] ELSE e
           Good == {j \in Nat : After(j, f[j])}
<1>2. SUFFICES ASSUME k \notin Good PROVE FALSE
  BY <1>1
<1>3. PICK j \in 0 .. k : j \notin Good /\ \A i \in 0 .. j - 1 : i \in Good
  <2> HIDE DEF Good
  <2> QED BY <1>1, <1>2, FirstFailure
<1>4. j \in 0 .. l /\ j \in Nat /\ z + j <= MaxSize
  BY <1>1
<1>5. f[j] = IF j = 0 THEN s ELSE EmplacedBack(f[j - 1], e)
  BY <1>1, <1>4 DEF Grows
<1>6. CASE j = 0
  <2>1. After(0, s)
    <3>1. s.v.cap <= s.v.cap
      BY DEF Sound
    <3> QED BY <1>1, <3>1, ReplacesItself
  <2> QED BY <1>3, <1>4, <1>5, <1>6, <2>1
<1>7. CASE j > 0
  <2>1. PICK r : r = f[j - 1] /\ After(j - 1, r)
    <3>1. j - 1 \in Good
      BY <1>3, <1>4, <1>7
    <3> QED BY <3>1
  <2>2. PICK m : m = f[j] /\ m = EmplacedBack(r, e)
    BY <1>5, <1>7, <2>1
  <2>3. PICK x \in Nat : x = r.v.size /\ x = z + (j - 1) /\ x + 1 = z + j
                         /\ x <= MaxSize
    BY <1>1, <1>4, <1>7, <2>1 DEF Sound
  <2>4. /\ Sound(m) /\ Replaces(r, m)
        /\ Contents(m) = Append(Contents(r), e)
        /\ m.v.size = x + 1 /\ r.v.cap <= m.v.cap
    BY <2>1, <2>2, <2>3, EmplacedBackSound
  <2>5. Replaces(s, m)
    BY <2>1, <2>4, ReplacesOnce
  <2>6. ASSUME NEW i \in 1 .. m.v.size
        PROVE  Contents(m)[i] = IF i <= z THEN Contents(s)[i] ELSE e
    <3>1. PICK old \in Seq(Objects) : old = Contents(r) /\ Len(old) = x
      BY <2>1, <2>3, ContentsAre
    <3>2. /\ \A h \in 1 .. x : Append(old, e)[h] = old[h]
          /\ Append(old, e)[x + 1] = e
      BY <3>1, AppendProperties
    <3>3. CASE i <= x
      BY <2>1, <2>3, <2>4, <3>1, <3>2, <3>3
    <3>4. CASE i > x
      <4>1. i = x + 1 /\ ~(i <= z)
        BY <1>4, <1>7, <2>3, <2>4, <3>4
      <4> QED BY <2>4, <3>1, <3>2, <4>1
    <3>5. i \in Int
      BY <2>3, <2>4
    <3> QED BY <2>3, <3>3, <3>4, <3>5
  <2>7. s.v.cap <= m.v.cap
    <3>1. s.v.cap \in Nat /\ r.v.cap \in Nat /\ m.v.cap \in Nat
      BY <2>1, <2>4 DEF Sound
    <3>2. s.v.cap <= r.v.cap /\ r.v.cap <= m.v.cap
      BY <2>1, <2>4
    <3> QED BY <3>1, <3>2
  <2>8. After(j, m)
    BY <2>3, <2>4, <2>5, <2>6, <2>7
  <2> QED BY <1>3, <1>4, <2>2, <2>8
<1> QED BY <1>6, <1>7

\* resize makes the vector as long as it is told, with copies of e at the end.
LEMMA ResizedSound ==
  ASSUME NEW s, Sound(s), s.v.size <= MaxSize, NEW n \in 0 .. MaxSize,
         NEW e \in Objects, NEW t, t = Resized(s, n, e)
  PROVE  /\ Sound(t) /\ Replaces(s, t) /\ t.v.size = n /\ s.v.cap <= t.v.cap
         /\ \A i \in 1 .. n :
              Contents(t)[i] = IF i <= s.v.size THEN Contents(s)[i] ELSE e
<1>1. PICK z \in Nat : /\ z = s.v.size /\ z <= MaxSize /\ MaxSize \in Nat
                       /\ n \in Nat
  BY VectorAssumption DEF Sound
<1> DEFINE popped == CHOOSE f :
                       f = [i \in 0 .. s.v.size |->
                              IF i = 0 THEN s ELSE Popped(f[i - 1])]
           grown == CHOOSE f :
                      f = [i \in 0 .. n |->
                             IF i = 0 THEN s ELSE EmplacedBack(f[i - 1], e)]
<1>2. t = IF n <= s.v.size THEN popped[s.v.size - n] ELSE grown[n - s.v.size]
  BY DEF Resized
<1>3. Pops(popped, s, s.v.size)
  <2>1. \E f : Pops(f, s, s.v.size)
    BY <1>1, PopsExist
  <2> QED BY <2>1 DEF Pops
<1>4. Grows(grown, s, e, n)
  <2>1. \E f : Grows(f, s, e, n)
    BY <1>1, GrowsExist
  <2> QED BY <2>1 DEF Grows
<1> HIDE DEF popped, grown
<1>5. CASE n <= z
  <2>1. PICK k \in 0 .. z : k = z - n /\ z - k = n
    BY <1>1, <1>5
  <2>2. t = popped[k] /\ k \in 0 .. s.v.size
    BY <1>1, <1>2, <1>5, <2>1
  <2>3. /\ Sound(t) /\ Replaces(s, t)
        /\ t.v.size = s.v.size - k /\ t.v.cap = s.v.cap
        /\ \A i \in 1 .. t.v.size : Contents(t)[i] = Contents(s)[i]
    BY <1>3, <2>2, PopsSound
  <2>4. t.v.size = n /\ s.v.cap <= t.v.cap
    BY <1>1, <2>1, <2>3 DEF Sound
  <2>5. \A i \in 1 .. n : i <= z
    BY <1>1, <1>5
  <2> QED BY <1>1, <2>3, <2>4, <2>5
<1>6. CASE ~(n <= z)
  <2>1. PICK k \in 0 .. n : k = n - z /\ z + k = n /\ k \in Nat /\ k \in 0 .. k
    BY <1>1, <1>6
  <2>2. t = grown[k] /\ s.v.size + k <= MaxSize /\ k <= n
    BY <1>1, <1>2, <1>6, <2>1
  <2>3. /\ Sound(t) /\ Replaces(s, t)
        /\ t.v.size = s.v.size + k /\ s.v.cap <= t.v.cap
        /\ \A i \in 1 .. t.v.size :
             Contents(t)[i] = IF i <= s.v.size THEN Contents(s)[i] ELSE e
    BY <1>1, <1>4, <2>1, <2>2, GrowsSound
  <2>4. t.v.size = n
    BY <1>1, <2>1, <2>3
  <2> QED BY <2>3, <2>4
<1> QED BY <1>5, <1>6

-----------------------------------------------------------------------------
(* Vectors with one heap *)

\* Every vector has the array it needs and no other, and none is shared.
Owned(h, ve) ==
  /\ IsHeap(h)
  /\ DOMAIN ve \subseteq Vectors
  /\ \A v \in DOMAIN ve : /\ Sound([heap |-> h, v |-> ve[v]])
                          /\ ve[v].size <= MaxSize
  /\ \A v, w \in DOMAIN ve :
       v # w => ve[v].data # ve[w].data \/ ve[v].data = Null
  /\ DOMAIN h = {ve[v].data : v \in DOMAIN ve} \ {Null}

\* And it has the room that was asked for.
VectorInv == /\ Owned(heap, vec)
             /\ room \in [Vectors -> Nat]
             /\ \A v \in AliveVectors : room[v] <= vec[v].cap

\* What the vectors stand for.
Lists == [v \in AliveVectors |-> Contents(Of(v))]

LEMMA SoundFields ==
  ASSUME NEW h, NEW r, Sound([heap |-> h, v |-> r])
  PROVE  /\ r \in [size : Nat, cap : Nat, data : Nat] /\ r.size <= r.cap
         /\ r.size \in Nat /\ r.cap \in Nat /\ r.data \in Nat
         /\ r.data = Null => r.cap = 0
         /\ r.data # Null => /\ r.data \in DOMAIN h
                             /\ Holding(h[r.data], r.size, r.cap)
<1>1. PICK s : s = [heap |-> h, v |-> r] /\ s.heap = h /\ s.v = r /\ Sound(s)
  OBVIOUS
<1> QED BY <1>1 DEF Sound

\* A vector does not depend on the arrays of others.
LEMMA ElsewhereSound ==
  ASSUME NEW h, NEW r, Sound([heap |-> h, v |-> r]), NEW g, IsHeap(g),
         r.data # Null => r.data \in DOMAIN g /\ g[r.data] = h[r.data]
  PROVE  /\ Sound([heap |-> g, v |-> r])
         /\ Contents([heap |-> g, v |-> r]) = Contents([heap |-> h, v |-> r])
<1>1. PICK s : s = [heap |-> h, v |-> r] /\ s.heap = h /\ s.v = r /\ Sound(s)
  OBVIOUS
<1>2. PICK t : t = [heap |-> g, v |-> r] /\ t.heap = g /\ t.v = r
  <2>1. /\ [heap |-> g, v |-> r].heap = g
        /\ [heap |-> g, v |-> r].v = r
    OBVIOUS
  <2> QED BY <2>1
<1>3. Sound(t)
  BY <1>1, <1>2 DEF Sound
<1>4. Contents(t) = Contents(s)
  BY <1>1, <1>2 DEF Contents, Held
<1> QED BY <1>1, <1>2, <1>3, <1>4

\* v, which is s on the heap h or begins, becomes t.
Renews(h, ve, v, s, t, we) ==
  /\ Owned(h, ve) /\ v \in Vectors /\ s.heap = h
  /\ v \in DOMAIN ve => s.v = ve[v]
  /\ v \notin DOMAIN ve => s.v = NoArray
  /\ Sound(t) /\ t.v.size <= MaxSize /\ Replaces(s, t)
  /\ we = Extended(ve, v, t.v)

\* The vectors we own the heap g, and hold what they held but for v, which is x.
ButFor(h, ve, v, x, g, we) ==
  /\ Owned(g, we)
  /\ DOMAIN we = DOMAIN ve \cup {v} /\ we[v] = x
  /\ \A w \in DOMAIN ve \ {v} :
       /\ we[w] = ve[w]
       /\ Contents([heap |-> g, v |-> we[w]]) = Contents([heap |-> h, v |-> ve[w]])

\* One vector begins, or gets another array or other cells.
LEMMA OwnedReplaced ==
  ASSUME NEW h, NEW ve, NEW v, NEW s, NEW t, NEW we, Renews(h, ve, v, s, t, we)
  PROVE  ButFor(h, ve, v, t.v, t.heap, we)
<1> USE DEF Renews
<1>1. /\ DOMAIN we = DOMAIN ve \cup {v} /\ we[v] = t.v
      /\ \A w \in DOMAIN ve \ {v} : we[w] = ve[w]
  BY DEF Extended
<1> DEFINE g == t.heap
           d == s.v.data
           e == t.v.data
<1>2. /\ g = t.heap /\ d = s.v.data /\ e = t.v.data
      /\ IsHeap(g) /\ t = [heap |-> g, v |-> t.v]
      /\ DOMAIN g = ((DOMAIN h \ {d}) \cup {e}) \ {Null}
      /\ e = d \/ e \notin DOMAIN h
      /\ \A a \in DOMAIN h \ {d} : g[a] = h[a]
  <2>1. IsHeap(t.heap) /\ t = [heap |-> t.heap, v |-> t.v]
    BY DEF Sound
  <2>2. /\ DOMAIN t.heap = ((DOMAIN h \ {s.v.data}) \cup {t.v.data}) \ {Null}
        /\ t.v.data = s.v.data \/ t.v.data \notin DOMAIN h
        /\ \A a \in DOMAIN h \ {s.v.data} : t.heap[a] = h[a]
    BY DEF Replaces
  <2> QED BY <2>1, <2>2
<1> HIDE DEF g, d, e
<1>3. \A w \in DOMAIN ve \ {v} : ve[w].data # d \/ ve[w].data = Null
  <2>1. TAKE w \in DOMAIN ve \ {v}
  <2>2. CASE v \in DOMAIN ve
    BY <1>2, <2>2 DEF Owned
  <2>3. CASE v \notin DOMAIN ve
    <3>1. d = Null
      BY <1>2, <2>3 DEF NoArray
    <3> QED BY <3>1
  <2> QED BY <2>2, <2>3
<1>4. \A w \in DOMAIN ve : ve[w].data \in DOMAIN h \/ ve[w].data = Null
  BY DEF Owned
<1>5. ASSUME NEW w \in DOMAIN ve \ {v}
      PROVE  /\ Sound([heap |-> g, v |-> we[w]])
             /\ Contents([heap |-> g, v |-> we[w]])
                  = Contents([heap |-> h, v |-> ve[w]])
             /\ we[w].size <= MaxSize
  <2>1. PICK r : r = ve[w] /\ r = we[w] /\ Sound([heap |-> h, v |-> r])
                 /\ r.size <= MaxSize
    BY <1>1 DEF Owned
  <2>2. r.data # Null => r.data \in DOMAIN g /\ g[r.data] = h[r.data]
    BY <1>2, <1>3, <1>4, <2>1
  <2>3. /\ Sound([heap |-> g, v |-> r])
        /\ Contents([heap |-> g, v |-> r]) = Contents([heap |-> h, v |-> r])
    BY <1>2, <2>1, <2>2, ElsewhereSound
  <2> QED BY <2>1, <2>3
<1>6. Sound([heap |-> g, v |-> we[v]]) /\ we[v].size <= MaxSize
  BY <1>1, <1>2
<1>7. \A w \in DOMAIN ve \ {v} : ve[w].data # e \/ ve[w].data = Null
  BY <1>2, <1>3, <1>4
<1>8. \A x, w \in DOMAIN we :
        x # w => we[x].data # we[w].data \/ we[x].data = Null
  <2>1. SUFFICES ASSUME NEW x \in DOMAIN we, NEW w \in DOMAIN we, x # w
                 PROVE  we[x].data # we[w].data \/ we[x].data = Null
    OBVIOUS
  <2>2. CASE x # v /\ w # v
    BY <1>1, <2>1, <2>2 DEF Owned
  <2>3. CASE x = v
    BY <1>1, <1>2, <1>7, <2>1, <2>3
  <2>4. CASE w = v
    BY <1>1, <1>2, <1>7, <2>1, <2>4
  <2> QED BY <2>2, <2>3, <2>4
<1>9. DOMAIN g = {we[w].data : w \in DOMAIN we} \ {Null}
  <2>1. ASSUME NEW a \in DOMAIN g
        PROVE  a # Null /\ \E w \in DOMAIN we : a = we[w].data
    <3>1. a # Null
      BY <1>2
    <3>2. CASE a = e
      BY <1>1, <1>2, <3>1, <3>2
    <3>3. CASE a # e
      <4>1. a \in DOMAIN h /\ a # d
        BY <1>2, <3>3
      <4>2. PICK w \in DOMAIN ve : a = ve[w].data
        BY <4>1 DEF Owned
      <4>3. w # v
        BY <1>2, <4>1, <4>2
      <4> QED BY <1>1, <3>1, <4>2, <4>3
    <3> QED BY <3>2, <3>3
  <2>2. ASSUME NEW w \in DOMAIN we, we[w].data # Null
        PROVE  we[w].data \in DOMAIN g
    <3>1. CASE w = v
      BY <1>1, <1>2, <2>2, <3>1
    <3>2. CASE w # v
      BY <1>1, <1>2, <1>3, <1>4, <2>2, <3>2
    <3> QED BY <3>1, <3>2
  <2>3. \A w \in DOMAIN we : we[w].data # Null => we[w].data \in DOMAIN g
    BY <2>2
  <2>4. \A a \in DOMAIN g : a \in {we[w].data : w \in DOMAIN we} \ {Null}
    BY <2>1
  <2>5. \A a \in {we[w].data : w \in DOMAIN we} \ {Null} : a \in DOMAIN g
    BY <2>3
  <2> QED BY <2>4, <2>5
<1>10. DOMAIN we \subseteq Vectors
  BY <1>1 DEF Owned
<1>11. \A w \in DOMAIN we : /\ Sound([heap |-> g, v |-> we[w]])
                            /\ we[w].size <= MaxSize
  BY <1>1, <1>5, <1>6
<1>12. Owned(g, we)
  BY <1>2, <1>8, <1>9, <1>10, <1>11 DEF Owned
<1>13. DOMAIN we = DOMAIN ve \cup {v} /\ we[v] = t.v /\ g = t.heap
  BY ONLY <1>1, <1>2
<1>14. \A w \in DOMAIN ve \ {v} :
         /\ we[w] = ve[w]
         /\ Contents([heap |-> g, v |-> we[w]]) = Contents([heap |-> h, v |-> ve[w]])
  BY ONLY <1>1, <1>5
<1> QED BY ONLY <1>12, <1>13, <1>14 DEF ButFor

\* Without v, whose array is deleted, h and ve are g and we.
Ends(h, ve, v, g, we) ==
  /\ v \in DOMAIN ve
  /\ DOMAIN g = DOMAIN h \ {ve[v].data}
  /\ \A a \in DOMAIN g : g[a] = h[a]
  /\ DOMAIN we = DOMAIN ve \ {v}
  /\ \A w \in DOMAIN we : we[w] = ve[w]

\* Then the others still own what they did.
LEMMA OwnedFewer ==
  ASSUME NEW h, NEW ve, Owned(h, ve), NEW v, NEW g, NEW we,
         Ends(h, ve, v, g, we)
  PROVE  /\ Owned(g, we)
         /\ \A w \in DOMAIN we : Contents([heap |-> g, v |-> we[w]])
                                   = Contents([heap |-> h, v |-> ve[w]])
<1> USE DEF Ends
<1>1. IsHeap(g)
  <2>1. IsFiniteSet(DOMAIN h) /\ DOMAIN h \subseteq Nat \ {Null}
    BY DEF Owned, IsHeap
  <2>2. IsFiniteSet(DOMAIN g)
    BY <2>1, FS_RemoveElement
  <2> QED BY <2>1, <2>2 DEF IsHeap
<1>2. \A w \in DOMAIN we : /\ ve[w].data # ve[v].data \/ ve[w].data = Null
                           /\ ve[w].data \in DOMAIN h \/ ve[w].data = Null
  BY DEF Owned
<1>3. ASSUME NEW w \in DOMAIN we
      PROVE  /\ Sound([heap |-> g, v |-> we[w]]) /\ we[w].size <= MaxSize
             /\ Contents([heap |-> g, v |-> we[w]])
                  = Contents([heap |-> h, v |-> ve[w]])
  <2>1. PICK r : r = ve[w] /\ r = we[w] /\ Sound([heap |-> h, v |-> r])
                 /\ r.size <= MaxSize
    BY DEF Owned
  <2>2. r.data # Null => r.data \in DOMAIN g /\ g[r.data] = h[r.data]
    BY <1>2, <2>1
  <2> QED BY <1>1, <2>1, <2>2, ElsewhereSound
<1>4. DOMAIN g = {we[w].data : w \in DOMAIN we} \ {Null}
  <2>1. ASSUME NEW a \in DOMAIN g
        PROVE  a # Null /\ \E w \in DOMAIN we : a = we[w].data
    <3>1. PICK w \in DOMAIN ve : a = ve[w].data /\ a # Null
      BY DEF Owned
    <3>2. w # v
      BY <3>1
    <3> QED BY <3>1, <3>2
  <2>2. \A w \in DOMAIN we : we[w].data # Null => we[w].data \in DOMAIN g
    BY <1>2
  <2> QED BY <2>1, <2>2
<1>5. Owned(g, we)
  <2>1. DOMAIN we \subseteq Vectors
    BY DEF Owned
  <2>2. \A x, w \in DOMAIN we :
          x # w => we[x].data # we[w].data \/ we[x].data = Null
    BY DEF Owned
  <2> QED BY <1>1, <1>3, <1>4, <2>1, <2>2 DEF Owned
<1> QED BY <1>3, <1>5

\* The memory of w becomes v's, which has none of its own any more.
Gives(ve, v, w, we) ==
  /\ v \in Vectors \ DOMAIN ve /\ w \in DOMAIN ve
  /\ we = Extended(Extended(ve, w, NoArray), v, ve[w])

LEMMA OwnedTaken ==
  ASSUME NEW h, NEW ve, Owned(h, ve), NEW v, NEW w, NEW we,
         Gives(ve, v, w, we)
  PROVE  Owned(h, we)
<1>1. /\ DOMAIN we = DOMAIN ve \cup {v} /\ we[v] = ve[w] /\ we[w] = NoArray
      /\ \A x \in DOMAIN ve \ {w} : we[x] = ve[x]
  <2>1. PICK m : /\ m = Extended(ve, w, NoArray)
                 /\ v \notin DOMAIN ve /\ w \in DOMAIN ve
                 /\ we = Extended(m, v, ve[w])
    BY DEF Gives
  <2>2. /\ DOMAIN m = DOMAIN ve /\ m[w] = NoArray
        /\ \A x \in DOMAIN ve \ {w} : m[x] = ve[x]
    BY <2>1 DEF Extended
  <2>3. /\ DOMAIN we = DOMAIN m \cup {v} /\ we[v] = ve[w]
        /\ \A x \in DOMAIN m \ {v} : we[x] = m[x]
    BY <2>1 DEF Extended
  <2> QED BY <2>1, <2>2, <2>3
<1>2. Sound([heap |-> h, v |-> NoArray]) /\ NoArray.size <= MaxSize
      /\ NoArray.data = Null
  <2>1. PICK s : s = [heap |-> h, v |-> NoArray] /\ s.heap = h /\ s.v = NoArray
    <3>1. /\ [heap |-> h, v |-> NoArray].heap = h
          /\ [heap |-> h, v |-> NoArray].v = NoArray
      OBVIOUS
    <3> QED BY <3>1
  <2>2. /\ NoArray \in [size : Nat, cap : Nat, data : Nat]
        /\ NoArray.size = 0 /\ NoArray.cap = 0 /\ NoArray.data = Null
    BY DEF NoArray, Null
  <2>3. Sound(s)
    BY <2>1, <2>2 DEF Sound, Owned
  <2>4. MaxSize \in Nat
    BY VectorAssumption
  <2> QED BY <2>1, <2>2, <2>3, <2>4
<1>3. DOMAIN we \subseteq Vectors /\ v \notin DOMAIN ve /\ w \in DOMAIN ve
  BY <1>1 DEF Owned, Gives
<1>4. ASSUME NEW x \in DOMAIN we
      PROVE  Sound([heap |-> h, v |-> we[x]]) /\ we[x].size <= MaxSize
  <2>1. x = v \/ x = w \/ x \in DOMAIN ve \ {w}
    BY <1>1
  <2> QED BY <1>1, <1>2, <1>3, <2>1 DEF Owned
<1>5. \A x, y \in DOMAIN we :
        x # y => we[x].data # we[y].data \/ we[x].data = Null
  <2>1. SUFFICES ASSUME NEW x \in DOMAIN we, NEW y \in DOMAIN we, x # y
                 PROVE  we[x].data # we[y].data \/ we[x].data = Null
    OBVIOUS
  <2>2. CASE x = w \/ y = w
    BY <1>1, <1>2, <2>2
  <2>3. CASE x # w /\ y # w /\ x # v /\ y # v
    BY <1>1, <2>1, <2>3 DEF Owned
  <2>4. CASE x = v /\ y # w
    <3>1. y \in DOMAIN ve \ {w} /\ we[y] = ve[y] /\ we[x] = ve[w]
      BY <1>1, <1>3, <2>1, <2>4
    <3> QED BY <1>3, <3>1 DEF Owned
  <2>5. CASE y = v /\ x # w
    <3>1. x \in DOMAIN ve \ {w} /\ we[x] = ve[x] /\ we[y] = ve[w]
      BY <1>1, <1>3, <2>1, <2>5
    <3> QED BY <1>3, <3>1 DEF Owned
  <2> QED BY <2>2, <2>3, <2>4, <2>5
<1>6. DOMAIN h = {we[x].data : x \in DOMAIN we} \ {Null}
  <2>1. ASSUME NEW a \in DOMAIN h
        PROVE  a # Null /\ \E x \in DOMAIN we : a = we[x].data
    <3>1. PICK x \in DOMAIN ve : a = ve[x].data /\ a # Null
      BY DEF Owned
    <3>2. CASE x = w
      BY <1>1, <1>3, <3>1, <3>2
    <3>3. CASE x # w
      BY <1>1, <1>3, <3>1, <3>3
    <3> QED BY <3>2, <3>3
  <2>2. ASSUME NEW x \in DOMAIN we, we[x].data # Null
        PROVE  we[x].data \in DOMAIN h
    <3>1. x = v \/ x = w \/ x \in DOMAIN ve \ {w}
      BY <1>1
    <3> QED BY <1>1, <1>2, <1>3, <2>2, <3>1 DEF Owned
  <2> QED BY <2>1, <2>2
<1>7. IsHeap(h)
  BY DEF Owned
<1>8. Owned(h, we)
  BY <1>3, <1>4, <1>5, <1>6, <1>7 DEF Owned
<1> QED BY <1>8

\* An element is written over.
Overwrites(h, ve, w, i, e, g) ==
  /\ w \in DOMAIN ve /\ i \in 1 .. ve[w].size /\ e \in Objects
  /\ g = [h EXCEPT ![ve[w].data][i] = e]

Overwritten(c, i, e) == [c EXCEPT ![i] = e]

LEMMA OwnedOverwritten ==
  ASSUME NEW h, NEW ve, Owned(h, ve), NEW w, NEW i, NEW e, NEW g,
         Overwrites(h, ve, w, i, e, g)
  PROVE  /\ Owned(g, ve)
         /\ Contents([heap |-> g, v |-> ve[w]])
              = Overwritten(Contents([heap |-> h, v |-> ve[w]]), i, e)
         /\ \A x \in DOMAIN ve \ {w} : Contents([heap |-> g, v |-> ve[x]])
                                         = Contents([heap |-> h, v |-> ve[x]])
<1> USE DEF Overwrites, Overwritten
<1>1. PICK s : s = [heap |-> h, v |-> ve[w]] /\ s.heap = h /\ s.v = ve[w]
               /\ Sound(s) /\ s.v.size <= MaxSize
  <2>1. Sound([heap |-> h, v |-> ve[w]]) /\ ve[w].size <= MaxSize
    BY DEF Owned
  <2>2. /\ [heap |-> h, v |-> ve[w]].heap = h
        /\ [heap |-> h, v |-> ve[w]].v = ve[w]
    OBVIOUS
  <2> QED BY <2>1, <2>2
<1>2. PICK n, c, d : /\ n = s.v.size /\ c = s.v.cap /\ d = s.v.data
                     /\ n \in Nat /\ c \in Nat /\ n <= c
                     /\ s.v = [size |-> n, cap |-> c, data |-> d]
  BY <1>1 DEF Sound
<1>3. i \in 1 .. n /\ d # Null /\ d \in DOMAIN h /\ Holding(h[d], n, c)
  BY <1>1, <1>2 DEF Sound
<1>4. PICK cells : /\ cells = [h[d] EXCEPT ![i] = e] /\ Holding(cells, n, c)
                   /\ cells[i] = e
                   /\ \A j \in 1 .. n : j # i => cells[j] = h[d][j]
  <2>1. PICK old : /\ old = h[d] /\ old \in [1 .. c -> Objects \cup {Raw}]
                   /\ \A j \in 1 .. c : old[j] \in Objects <=> j <= n
    BY <1>3 DEF Holding
  <2>2. PICK cells : cells = [old EXCEPT ![i] = e]
    OBVIOUS
  <2>3. /\ cells \in [1 .. c -> Objects \cup {Raw}]
        /\ i \in 1 .. c /\ cells[i] = e
        /\ \A j \in 1 .. c : j # i => cells[j] = old[j]
    BY <1>2, <1>3, <2>1, <2>2
  <2>4. \A j \in 1 .. c : cells[j] \in Objects <=> j <= n
    BY <1>3, <2>1, <2>3
  <2>5. \A j \in 1 .. n : j \in 1 .. c
    BY <1>2
  <2> QED BY <2>1, <2>2, <2>3, <2>4, <2>5 DEF Holding
<1>5. /\ g = [h EXCEPT ![d] = cells]
      /\ DOMAIN g = DOMAIN h /\ g[d] = cells
      /\ \A a \in DOMAIN h \ {d} : g[a] = h[a]
  <2>1. g = [h EXCEPT ![d][i] = e]
    BY <1>1, <1>2
  <2>2. g = [h EXCEPT ![d] = cells]
    BY <1>3, <1>4, <2>1
  <2> QED BY <1>3, <2>2
<1>6. PICK t : t = [heap |-> g, v |-> ve[w]] /\ t.heap = g /\ t.v = ve[w]
  <2>1. /\ [heap |-> g, v |-> ve[w]].heap = g
        /\ [heap |-> g, v |-> ve[w]].v = ve[w]
    OBVIOUS
  <2> QED BY <2>1
<1>7. Sound(t) /\ Replaces(s, t)
  <2>1. /\ t = [heap |-> t.heap, v |-> t.v]
        /\ t.v = [size |-> n, cap |-> s.v.cap, data |-> s.v.data]
        /\ DOMAIN t.heap = DOMAIN s.heap
        /\ Holding(t.heap[s.v.data], n, s.v.cap)
        /\ \A a \in DOMAIN s.heap \ {s.v.data} : t.heap[a] = s.heap[a]
    BY <1>1, <1>2, <1>4, <1>5, <1>6
  <2>2. s.v.data # Null /\ n \in Nat /\ n <= s.v.cap
    BY <1>2, <1>3
  <2> QED BY <1>1, <2>1, <2>2, RewrittenSound
<1>8. PICK we : we = Extended(ve, w, t.v)
  OBVIOUS
<1>9. /\ Owned(t.heap, we) /\ DOMAIN we = DOMAIN ve \cup {w} /\ we[w] = t.v
      /\ \A x \in DOMAIN ve \ {w} :
           /\ we[x] = ve[x]
           /\ Contents([heap |-> t.heap, v |-> we[x]])
                = Contents([heap |-> h, v |-> ve[x]])
  <2>1. w \in Vectors /\ t.v.size <= MaxSize
    BY <1>1, <1>6 DEF Owned
  <2>2. Owned(h, ve) /\ s.heap = h /\ w \in DOMAIN ve /\ s.v = ve[w]
    BY <1>1
  <2>3. Renews(h, ve, w, s, t, we)
    BY ONLY <1>7, <1>8, <2>1, <2>2 DEF Renews
  <2>4. ButFor(h, ve, w, t.v, t.heap, we)
    BY ONLY <2>3, OwnedReplaced
  <2> QED BY ONLY <2>4 DEF ButFor
<1>10. /\ DOMAIN we = DOMAIN ve
       /\ \A x \in DOMAIN ve : we[x] = ve[x]
  BY <1>6, <1>9
<1>11. Owned(g, ve)
  BY <1>6, <1>9, <1>10 DEF Owned
<1>12. Contents(t) = [Contents(s) EXCEPT ![i] = e]
  <2>1. PICK old \in Seq(Objects) :
          /\ old = Contents(s) /\ Len(old) = n
          /\ \A j \in 1 .. n : old[j] = h[d][j]
    BY <1>1, <1>2, ContentsAre
  <2>2. PICK new \in Seq(Objects) :
          /\ new = [old EXCEPT ![i] = e] /\ Len(new) = n
          /\ \A j \in 1 .. n : new[j] = IF j = i THEN e ELSE old[j]
    <3>1. /\ [old EXCEPT ![i] = e] \in Seq(Objects)
          /\ Len([old EXCEPT ![i] = e]) = n
          /\ \A j \in 1 .. n :
               [old EXCEPT ![i] = e][j] = IF j = i THEN e ELSE old[j]
      BY <1>2, <1>3, <2>1, ExceptSeq
    <3> QED BY <3>1
  <2>3. Len(new) = t.v.size /\ \A j \in 1 .. t.v.size : new[j] = t.heap[t.v.data][j]
    BY <1>1, <1>2, <1>4, <1>5, <1>6, <2>1, <2>2
  <2>4. Contents(t) = new
    BY <1>7, <2>2, <2>3, ContentsAreOnly
  <2> QED BY <2>1, <2>2, <2>4
<1> QED BY <1>1, <1>6, <1>9, <1>10, <1>11, <1>12

-----------------------------------------------------------------------------
(* Steps *)

\* A vector moves its elements only when it has as many as it had room for.
Kept ==
  \A w \in AliveVectors \cap DOMAIN vec' :
    /\ vec[w].data # vec'[w].data
    /\ room'[w] = room[w] /\ room[w] > 0
    => vec[w].size >= room[w]

LEMMA OfSound ==
  ASSUME VectorInv, NEW v \in AliveVectors
  PROVE  /\ Sound(Of(v)) /\ Of(v).heap = heap /\ Of(v).v = vec[v]
         /\ vec[v].size \in Nat /\ vec[v].cap \in Nat
         /\ vec[v].size <= vec[v].cap /\ vec[v].size <= MaxSize
         /\ v \in Vectors
<1>1. Sound([heap |-> heap, v |-> vec[v]]) /\ vec[v].size <= MaxSize
  BY DEF VectorInv, Owned, AliveVectors
<1>2. v \in Vectors
  BY DEF VectorInv, Owned, AliveVectors
<1> QED BY <1>1, <1>2, SoundFields DEF Of

\* The other vectors stay as they are when v becomes t.
LEMMA BecomesHolds ==
  ASSUME VectorInv, NEW v \in Vectors, NEW s, s.heap = heap,
         v \in AliveVectors => s.v = vec[v],
         v \notin AliveVectors => s.v = NoArray,
         NEW t, Sound(t), t.v.size <= MaxSize, Replaces(s, t),
         VectorBecomes(v, t)
  PROVE  /\ Owned(heap', vec') /\ heap' = t.heap
         /\ DOMAIN vec' = AliveVectors \cup {v} /\ vec'[v] = t.v
         /\ \A w \in AliveVectors \ {v} : vec'[w] = vec[w]
         /\ Lists' = Extended(Lists, v, Contents(t))
<1>1. heap' = t.heap /\ vec' = Extended(vec, v, t.v)
  BY DEF VectorBecomes
<1>2. Owned(heap, vec)
  BY DEF VectorInv
<1>3. /\ Owned(t.heap, vec')
      /\ DOMAIN vec' = DOMAIN vec \cup {v} /\ vec'[v] = t.v
      /\ \A w \in DOMAIN vec \ {v} :
           /\ vec'[w] = vec[w]
           /\ Contents([heap |-> t.heap, v |-> vec'[w]])
                = Contents([heap |-> heap, v |-> vec[w]])
  <2>1. PICK we : we = vec' /\ we = Extended(vec, v, t.v)
    BY <1>1
  <2>2. v \in DOMAIN vec => s.v = vec[v]
    BY DEF AliveVectors
  <2>3. v \notin DOMAIN vec => s.v = NoArray
    BY DEF AliveVectors
  <2>4. /\ Owned(t.heap, we)
        /\ DOMAIN we = DOMAIN vec \cup {v} /\ we[v] = t.v
        /\ \A w \in DOMAIN vec \ {v} :
             /\ we[w] = vec[w]
             /\ Contents([heap |-> t.heap, v |-> we[w]])
                  = Contents([heap |-> heap, v |-> vec[w]])
    <3>1. Renews(heap, vec, v, s, t, we)
      BY <1>2, <2>1, <2>2, <2>3 DEF Renews
    <3>2. ButFor(heap, vec, v, t.v, t.heap, we)
      BY ONLY <3>1, OwnedReplaced
    <3> QED BY ONLY <3>2 DEF ButFor
  <2> QED BY <2>1, <2>4
<1>4. Lists' = [w \in DOMAIN vec' |-> Contents([heap |-> heap', v |-> vec'[w]])]
  BY DEF Lists, AliveVectors, Of
<1>5. Lists = [w \in DOMAIN vec |-> Contents([heap |-> heap, v |-> vec[w]])]
  BY DEF Lists, AliveVectors, Of
<1>6. t = [heap |-> t.heap, v |-> t.v]
  BY DEF Sound
<1>7. \A w \in DOMAIN vec' : Contents([heap |-> heap', v |-> vec'[w]])
                               = IF w = v THEN Contents(t) ELSE Lists[w]
  <2>1. TAKE w \in DOMAIN vec'
  <2>2. CASE w = v
    BY <1>1, <1>3, <1>6, <2>2
  <2>3. CASE w # v
    <3>1. w \in DOMAIN vec \ {v}
      BY <1>3, <2>3
    <3> QED BY <1>1, <1>3, <1>5, <2>3, <3>1
  <2> QED BY <2>2, <2>3
<1>8. Lists' = Extended(Lists, v, Contents(t))
  <2>1. DOMAIN Lists = DOMAIN vec
    BY <1>5
  <2> QED BY <1>3, <1>4, <1>7, <2>1 DEF Extended
<1> QED BY <1>1, <1>3, <1>8 DEF AliveVectors

\* A change that no one relies on the room of a vector across.
LEMMA ChangedHolds ==
  ASSUME VectorInv, NEW v \in Vectors, NEW s, s.heap = heap,
         v \in AliveVectors => s.v = vec[v],
         v \notin AliveVectors => s.v = NoArray,
         NEW t, Sound(t), t.v.size <= MaxSize, Replaces(s, t), Changed(v, t)
  PROVE  /\ VectorInv' /\ Kept /\ vec'[v] = t.v
         /\ Lists' = Extended(Lists, v, Contents(t))
<1>1. VectorBecomes(v, t) /\ room' = [room EXCEPT ![v] = 0]
  BY DEF Changed
<1>2. /\ Owned(heap', vec')
      /\ DOMAIN vec' = AliveVectors \cup {v} /\ vec'[v] = t.v
      /\ \A w \in AliveVectors \ {v} : vec'[w] = vec[w]
      /\ Lists' = Extended(Lists, v, Contents(t))
  BY <1>1, BecomesHolds
<1>3. /\ room' \in [Vectors -> Nat] /\ room'[v] = 0
      /\ \A w \in Vectors \ {v} : room'[w] = room[w]
  BY <1>1 DEF VectorInv
<1>4. t.v.cap \in Nat
  BY DEF Sound
<1>5. \A w \in DOMAIN vec' : room'[w] <= vec'[w].cap
  <2>1. TAKE w \in DOMAIN vec'
  <2>2. CASE w = v
    BY <1>2, <1>3, <1>4, <2>2
  <2>3. CASE w # v
    <3>1. w \in AliveVectors /\ w \in Vectors
      BY <1>2, <2>3 DEF VectorInv, Owned, AliveVectors
    <3> QED BY <1>2, <1>3, <2>3, <3>1 DEF VectorInv
  <2> QED BY <2>2, <2>3
<1>6. VectorInv'
  BY <1>2, <1>3, <1>5 DEF VectorInv, AliveVectors
<1>7. Kept
  <2>1. \A w \in AliveVectors : w = v \/ vec'[w] = vec[w]
    BY <1>2
  <2>2. room'[v] = room[v] /\ room[v] > 0 => FALSE
    BY <1>3
  <2> QED BY <2>1, <2>2 DEF Kept
<1> QED BY <1>2, <1>6, <1>7

\* push_back, emplace_back and pop_back keep the room.
LEMMA ExtendedHolds ==
  ASSUME VectorInv, NEW v \in AliveVectors,
         NEW t, Sound(t), t.v.size <= MaxSize, Replaces(Of(v), t),
         vec[v].cap <= t.v.cap,
         t.v.data = vec[v].data \/ IsFull(Of(v)),
         VectorBecomes(v, t), UNCHANGED room
  PROVE  /\ VectorInv' /\ Kept
         /\ Lists' = Extended(Lists, v, Contents(t))
<1>1. /\ Of(v).heap = heap /\ Of(v).v = vec[v] /\ v \in Vectors
      /\ vec[v].cap \in Nat
  BY OfSound
<1>2. /\ Owned(heap', vec')
      /\ DOMAIN vec' = AliveVectors \cup {v} /\ vec'[v] = t.v
      /\ \A w \in AliveVectors \ {v} : vec'[w] = vec[w]
      /\ Lists' = Extended(Lists, v, Contents(t))
  BY <1>1, BecomesHolds
<1>3. /\ room' = room /\ room \in [Vectors -> Nat]
      /\ \A w \in AliveVectors : room[w] <= vec[w].cap /\ w \in Vectors
  BY DEF VectorInv, Owned, AliveVectors
<1>4. t.v.cap \in Nat
  BY DEF Sound
<1>5. \A w \in DOMAIN vec' : room'[w] <= vec'[w].cap
  <2>1. TAKE w \in DOMAIN vec'
  <2>2. CASE w = v
    <3>1. room[v] \in Nat /\ room[v] <= vec[v].cap
      BY <1>1, <1>3
    <3> QED BY <1>1, <1>2, <1>3, <1>4, <2>2, <3>1
  <2>3. CASE w # v
    BY <1>2, <1>3, <2>3
  <2> QED BY <2>2, <2>3
<1>6. VectorInv'
  BY <1>2, <1>3, <1>5 DEF VectorInv, AliveVectors
<1>7. Kept
  <2>1. \A w \in AliveVectors : w = v \/ vec'[w] = vec[w]
    BY <1>2
  <2>2. IsFull(Of(v)) => vec[v].size = vec[v].cap
    BY <1>1 DEF IsFull
  <2>3. vec[v].data # vec'[v].data => vec[v].size >= room[v]
    <3>1. SUFFICES ASSUME vec[v].data # vec'[v].data
                   PROVE  vec[v].size >= room[v]
      OBVIOUS
    <3>2. vec[v].size = vec[v].cap
      BY <1>2, <2>2, <3>1
    <3>3. room[v] <= vec[v].cap /\ room[v] \in Nat /\ vec[v].cap \in Nat
      BY <1>1, <1>3
    <3> QED BY <3>2, <3>3
  <2> QED BY <2>1, <2>3 DEF Kept
<1> QED BY <1>2, <1>6, <1>7

\* h is the heap of s without the array of s.
Lacks(h, s) == /\ IsHeap(h) /\ DOMAIN h = DOMAIN s.heap \ {s.v.data}
               /\ \A a \in DOMAIN h : h[a] = s.heap[a]

\* A vector that is constructed in the place of s.
LEMMA ConstructedReplaces ==
  ASSUME NEW s, NEW h, Lacks(h, s),
         NEW seq \in Seq(Objects), NEW cap \in Nat, Len(seq) <= cap,
         NEW t, t = Constructed(h, seq, cap)
  PROVE  /\ Sound(t) /\ Replaces(s, t) /\ Contents(t) = seq
         /\ t.v.size = Len(seq) /\ t.v.cap = cap
<1>1. /\ Sound(t) /\ Contents(t) = seq
      /\ t.v = [size |-> Len(seq), cap |-> cap, data |-> t.v.data]
      /\ t.v.data # Null /\ t.v.data \notin DOMAIN h
      /\ DOMAIN t.heap = DOMAIN h \cup {t.v.data}
      /\ \A a \in DOMAIN h : t.heap[a] = h[a]
  BY ConstructedSound DEF Lacks
<1>2. Null \notin DOMAIN h
  BY DEF IsHeap, Lacks
<1>3. Replaces(s, t)
  BY <1>1, <1>2 DEF Replaces, Lacks
<1>4. t.v.size = Len(seq) /\ t.v.cap = cap
  BY <1>1
<1> QED BY <1>1, <1>3, <1>4

\* Copies of one element.
LEMMA CopiesOf ==
  ASSUME NEW n \in Nat, NEW e \in Objects
  PROVE  [i \in 1 .. n |-> e] \in Seq(Objects) /\ Len([i \in 1 .. n |-> e]) = n
  OBVIOUS

LEMMA ConstructHolds ==
  ASSUME VectorInv, NEW v \in Vectors, ConstructVector(v)
  PROVE  /\ VectorInv' /\ Kept
         /\ \E n \in 0 .. MaxSize, e \in Elements \cup {Default} :
              Lists' = Extended(Lists, v, [i \in 1 .. n |-> e])
<1>1. PICK n, e, cap : /\ n \in 0 .. MaxSize /\ e \in Elements \cup {Default}
                       /\ cap \in Nat /\ n <= cap
                       /\ Changed(v, Constructed(heap, [i \in 1 .. n |-> e], cap))
  <2>1. CASE Changed(v, Constructed(heap, <<>>, DefaultCap))
    <3>1. <<>> = [i \in 1 .. 0 |-> Default]
      OBVIOUS
    <3>2. 0 \in 0 .. MaxSize /\ DefaultCap \in Nat /\ 0 <= DefaultCap
      BY VectorAssumption
    <3>3. Changed(v, Constructed(heap, [i \in 1 .. 0 |-> Default], DefaultCap))
      BY <2>1, <3>1
    <3> QED BY <3>2, <3>3
  <2>2. ASSUME NEW n \in 0 .. MaxSize, NEW e \in Elements \cup {Default},
               Changed(v, Constructed(heap, [i \in 1 .. n |-> e], RoundUp(n)))
        PROVE  \E cap : /\ cap \in Nat /\ n <= cap
                        /\ Changed(v, Constructed(heap, [i \in 1 .. n |-> e], cap))
    <3>1. n \in Nat /\ n <= MaxSize
      BY VectorAssumption
    <3>2. RoundUp(n) \in Nat /\ n <= RoundUp(n)
      BY <3>1, SizesSmall, CapacityFor
    <3> QED BY <2>2, <3>2
  <2> QED BY <2>1, <2>2 DEF ConstructVector
<1>2. PICK seq : seq = [i \in 1 .. n |-> e] /\ seq \in Seq(Objects) /\ Len(seq) = n
  <2>1. n \in Nat /\ e \in Objects
    BY <1>1, VectorAssumption DEF Objects
  <2> QED BY <2>1, CopiesOf
<1>3. PICK t : t = Constructed(heap, seq, cap) /\ Changed(v, t)
  BY <1>1, <1>2
<1>4. PICK s : s = [heap |-> heap, v |-> NoArray] /\ s.heap = heap /\ s.v = NoArray
  <2>1. /\ [heap |-> heap, v |-> NoArray].heap = heap
        /\ [heap |-> heap, v |-> NoArray].v = NoArray
    OBVIOUS
  <2> QED BY <2>1
<1>5. Lacks(heap, s)
  BY <1>4 DEF VectorInv, Owned, IsHeap, NoArray, Lacks
<1>6. /\ Sound(t) /\ Replaces(s, t) /\ Contents(t) = seq /\ t.v.size = n
  <2>1. PICK c \in Nat : c = cap /\ Len(seq) <= c /\ seq \in Seq(Objects)
    BY <1>1, <1>2
  <2>2. /\ Sound(t) /\ Replaces(s, t) /\ Contents(t) = seq
        /\ t.v.size = Len(seq)
    BY <1>3, <1>5, <2>1, ConstructedReplaces
  <2> QED BY <1>2, <2>2
<1>7. v \notin AliveVectors /\ t.v.size <= MaxSize
  BY <1>1, <1>6, VectorAssumption DEF ConstructVector
<1>8. VectorInv' /\ Kept /\ Lists' = Extended(Lists, v, seq)
  BY <1>3, <1>4, <1>6, <1>7, ChangedHolds
<1> QED BY <1>1, <1>2, <1>8

LEMMA ConstructCopyHolds ==
  ASSUME VectorInv, NEW v \in Vectors, NEW w \in Vectors, ConstructCopy(v, w)
  PROVE  VectorInv' /\ Kept /\ Lists' = Extended(Lists, v, Lists[w])
<1>1. /\ v \notin AliveVectors /\ w \in AliveVectors
      /\ Changed(v, Constructed(heap, Contents(Of(w)), vec[w].cap))
  BY DEF ConstructCopy
<1>2. /\ Sound(Of(w)) /\ Of(w).v = vec[w]
      /\ vec[w].size \in Nat /\ vec[w].cap \in Nat
      /\ vec[w].size <= vec[w].cap /\ vec[w].size <= MaxSize
  BY <1>1, OfSound
<1>3. PICK seq \in Seq(Objects) :
        seq = Contents(Of(w)) /\ Len(seq) = vec[w].size /\ seq = Lists[w]
  BY <1>1, <1>2, ContentsAre DEF Lists
<1>4. PICK t : t = Constructed(heap, seq, vec[w].cap) /\ Changed(v, t)
  BY <1>1, <1>3
<1>5. PICK s : s = [heap |-> heap, v |-> NoArray] /\ s.heap = heap /\ s.v = NoArray
  <2>1. /\ [heap |-> heap, v |-> NoArray].heap = heap
        /\ [heap |-> heap, v |-> NoArray].v = NoArray
    OBVIOUS
  <2> QED BY <2>1
<1>6. Lacks(heap, s)
  BY <1>5 DEF VectorInv, Owned, IsHeap, NoArray, Lacks
<1>7. Sound(t) /\ Replaces(s, t) /\ Contents(t) = seq /\ t.v.size = Len(seq)
  <2>1. PICK cap \in Nat : cap = vec[w].cap /\ Len(seq) <= cap
    BY <1>2, <1>3
  <2> QED BY <1>4, <1>6, <2>1, ConstructedReplaces
<1>8. t.v.size <= MaxSize
  BY <1>2, <1>3, <1>7
<1>9. VectorInv' /\ Kept /\ Lists' = Extended(Lists, v, seq)
  BY <1>1, <1>4, <1>5, <1>7, <1>8, ChangedHolds
<1> QED BY <1>3, <1>9

\* What Lists is now and after a step.
LEMMA ListsAre ==
  /\ DOMAIN Lists = AliveVectors
  /\ \A v \in AliveVectors : Lists[v] = Contents([heap |-> heap, v |-> vec[v]])
  /\ Lists' = [v \in DOMAIN vec' |-> Contents([heap |-> heap', v |-> vec'[v]])]
  BY DEF Lists, AliveVectors, Of

\* The memory of w becomes v's.
LEMMA TakeHolds ==
  ASSUME VectorInv, NEW v \in Vectors, NEW w \in AliveVectors, v # w,
         NEW h, Take(v, w, h), \A a \in DOMAIN h : h[a] = heap[a],
         v \notin AliveVectors => DOMAIN h = DOMAIN heap,
         v \in AliveVectors => DOMAIN h = DOMAIN heap \ {vec[v].data},
         room' = [room EXCEPT ![v] = 0, ![w] = 0]
  PROVE  /\ VectorInv' /\ Kept
         /\ Lists' = Extended(Extended(Lists, w, <<>>), v, Lists[w])
<1> DEFINE ve == [x \in AliveVectors \ {v} |-> vec[x]]
<1>1. /\ DOMAIN ve = AliveVectors \ {v} /\ w \in DOMAIN ve /\ v \notin DOMAIN ve
      /\ \A x \in DOMAIN ve : ve[x] = vec[x]
  OBVIOUS
<1>2. /\ Owned(h, ve)
      /\ \A x \in DOMAIN ve : Contents([heap |-> h, v |-> ve[x]])
                                = Contents([heap |-> heap, v |-> vec[x]])
  <2> HIDE DEF ve
  <2>1. Owned(heap, vec)
    BY DEF VectorInv
  <2>2. CASE v \in AliveVectors
    <3>1. Ends(heap, vec, v, h, ve)
      BY <1>1, <2>2 DEF Ends, AliveVectors
    <3> QED BY <1>1, <2>1, <3>1, OwnedFewer
  <2>3. CASE v \notin AliveVectors
    <3>1. DOMAIN ve = DOMAIN vec /\ DOMAIN h = DOMAIN heap
      BY <1>1, <2>3 DEF AliveVectors
    <3>2. ASSUME NEW x \in DOMAIN ve
          PROVE  /\ Sound([heap |-> h, v |-> ve[x]])
                 /\ Contents([heap |-> h, v |-> ve[x]])
                      = Contents([heap |-> heap, v |-> vec[x]])
      <4>1. PICK r : /\ r = vec[x] /\ r = ve[x]
                     /\ Sound([heap |-> heap, v |-> r])
        BY <1>1, <2>1, <3>1 DEF Owned
      <4>2. IsHeap(h)
        BY <2>1, <3>1 DEF Owned, IsHeap
      <4>3. r.data # Null => r.data \in DOMAIN h /\ h[r.data] = heap[r.data]
        BY <3>1, <4>1, SoundFields
      <4> QED BY <4>1, <4>2, <4>3, ElsewhereSound
    <3>3. IsHeap(h)
      BY <2>1, <3>1 DEF Owned, IsHeap
    <3>4. DOMAIN heap = {ve[x].data : x \in DOMAIN ve} \ {Null}
      BY <1>1, <2>1, <3>1 DEF Owned
    <3>5. \A x, y \in DOMAIN ve :
            x # y => ve[x].data # ve[y].data \/ ve[x].data = Null
      BY <1>1, <2>1, <3>1 DEF Owned
    <3>6. DOMAIN ve \subseteq Vectors /\ \A x \in DOMAIN ve : ve[x].size <= MaxSize
      BY <1>1, <2>1, <3>1 DEF Owned
    <3>7. Owned(h, ve)
      BY <3>1, <3>2, <3>3, <3>4, <3>5, <3>6 DEF Owned
    <3> QED BY <3>2, <3>7
  <2> QED BY <2>2, <2>3
<1>3. heap' = h /\ vec' = Extended(Extended(vec, w, NoArray), v, vec[w])
  BY DEF Take
<1>4. /\ vec' = Extended(Extended(ve, w, NoArray), v, ve[w])
      /\ vec' = [x \in AliveVectors \cup {v} |->
                   IF x = v THEN vec[w] ELSE IF x = w THEN NoArray ELSE vec[x]]
  <2>1. DOMAIN vec' = AliveVectors \cup {v}
    BY <1>3 DEF Extended, AliveVectors
  <2>2. vec' = [x \in AliveVectors \cup {v} |->
                  IF x = v THEN vec[w] ELSE IF x = w THEN NoArray ELSE vec[x]]
    BY <1>3 DEF Extended, AliveVectors
  <2>3. Extended(Extended(ve, w, NoArray), v, ve[w])
          = [x \in AliveVectors \cup {v} |->
               IF x = v THEN vec[w] ELSE IF x = w THEN NoArray ELSE vec[x]]
    <3> HIDE DEF ve
    <3>1. PICK m : m = Extended(ve, w, NoArray)
      OBVIOUS
    <3>2. /\ DOMAIN m = AliveVectors \ {v}
          /\ \A x \in AliveVectors \ {v} :
               m[x] = IF x = w THEN NoArray ELSE vec[x]
      BY <1>1, <3>1 DEF Extended
    <3>3. Extended(m, v, ve[w])
            = [x \in DOMAIN m \cup {v} |-> IF x = v THEN vec[w] ELSE m[x]]
      BY <1>1 DEF Extended
    <3>4. DOMAIN m \cup {v} = AliveVectors \cup {v}
      BY <3>2
    <3>5. \A x \in AliveVectors \cup {v} :
            (IF x = v THEN vec[w] ELSE m[x])
              = IF x = v THEN vec[w] ELSE IF x = w THEN NoArray ELSE vec[x]
      BY <3>2
    <3> QED BY <3>1, <3>3, <3>4, <3>5
  <2> QED BY <2>2, <2>3
<1> HIDE DEF ve
<1>5. /\ Owned(h, vec') /\ DOMAIN vec' = DOMAIN ve \cup {v}
      /\ vec'[v] = ve[w] /\ vec'[w] = NoArray
      /\ \A x \in DOMAIN ve \ {w} : vec'[x] = ve[x]
  <2>1. PICK we : we = vec'
    OBVIOUS
  <2>2. Gives(ve, v, w, we)
    BY <1>1, <1>4, <2>1 DEF Gives
  <2>3. Owned(h, we)
    BY <1>2, <2>2, OwnedTaken
  <2>4. /\ DOMAIN vec' = AliveVectors \cup {v} /\ DOMAIN ve \cup {v} = AliveVectors \cup {v}
        /\ vec'[v] = vec[w] /\ vec'[w] = NoArray
        /\ \A x \in AliveVectors \ {v, w} : vec'[x] = vec[x]
    BY <1>1, <1>4
  <2> QED BY <1>1, <2>1, <2>3, <2>4
<1>6. /\ room' \in [Vectors -> Nat] /\ room'[v] = 0 /\ room'[w] = 0
      /\ \A x \in Vectors \ {v, w} : room'[x] = room[x]
  <2>1. w \in Vectors /\ room \in [Vectors -> Nat]
    BY DEF VectorInv, Owned, AliveVectors
  <2> QED BY <2>1
<1>7. \A x \in DOMAIN vec' : room'[x] <= vec'[x].cap
  <2>1. TAKE x \in DOMAIN vec'
  <2>2. CASE x = v \/ x = w
    <3>1. room'[x] = 0
      BY <1>6, <2>2
    <3>2. vec'[x].cap \in Nat
      BY <1>5, SoundFields DEF Owned
    <3> QED BY <3>1, <3>2
  <2>3. CASE x # v /\ x # w
    <3>1. x \in AliveVectors /\ x \in Vectors /\ vec'[x] = vec[x]
      BY <1>1, <1>5, <2>3 DEF Owned
    <3> QED BY <1>6, <2>3, <3>1 DEF VectorInv
  <2> QED BY <2>2, <2>3
<1>8. VectorInv'
  BY <1>3, <1>5, <1>6, <1>7 DEF VectorInv, AliveVectors
<1>9. Kept
  <2>1. \A x \in AliveVectors : x = v \/ x = w \/ vec'[x] = vec[x]
    BY <1>1, <1>5
  <2>2. \A x \in {v, w} : room'[x] = room[x] /\ room[x] > 0 => FALSE
    BY <1>6
  <2> QED BY <2>1, <2>2 DEF Kept
<1>10. Lists' = Extended(Extended(Lists, w, <<>>), v, Lists[w])
  <2>1. \A x \in DOMAIN vec' :
          Contents([heap |-> heap', v |-> vec'[x]])
            = IF x = v THEN Lists[w] ELSE IF x = w THEN <<>> ELSE Lists[x]
    <3>1. TAKE x \in DOMAIN vec'
    <3>2. CASE x = v
      BY <1>1, <1>2, <1>3, <1>5, <3>2, ListsAre
    <3>3. CASE x = w
      <4>1. Contents([heap |-> h, v |-> NoArray]) = <<>>
        BY DEF Contents, NoArray
      <4> QED BY <1>3, <1>5, <3>3, <4>1
    <3>4. CASE x # v /\ x # w
      <4>1. x \in DOMAIN ve \ {w} /\ x \in AliveVectors
        BY <1>1, <1>5, <3>4
      <4> QED BY <1>1, <1>2, <1>3, <1>5, <3>4, <4>1, ListsAre
    <3> QED BY <3>2, <3>3, <3>4
  <2>2. DOMAIN vec' = AliveVectors \cup {v}
    BY <1>1, <1>5
  <2>3. Lists' = [x \in AliveVectors \cup {v} |->
                    IF x = v THEN Lists[w] ELSE IF x = w THEN <<>> ELSE Lists[x]]
    BY <2>1, <2>2, ListsAre
  <2>4. PICK m : m = Extended(Lists, w, <<>>)
    OBVIOUS
  <2>5. /\ DOMAIN m = AliveVectors
        /\ \A x \in AliveVectors : m[x] = IF x = w THEN <<>> ELSE Lists[x]
    BY <2>4, ListsAre DEF Extended
  <2>6. Extended(m, v, Lists[w])
          = [x \in AliveVectors \cup {v} |-> IF x = v THEN Lists[w] ELSE m[x]]
    BY <2>5 DEF Extended
  <2>7. \A x \in AliveVectors \cup {v} :
          (IF x = v THEN Lists[w] ELSE m[x])
            = IF x = v THEN Lists[w] ELSE IF x = w THEN <<>> ELSE Lists[x]
    BY <2>5
  <2> QED BY <2>3, <2>4, <2>6, <2>7
<1> QED BY <1>8, <1>9, <1>10

LEMMA ConstructMoveHolds ==
  ASSUME VectorInv, NEW v \in Vectors, NEW w \in Vectors, ConstructMove(v, w)
  PROVE  /\ VectorInv' /\ Kept
         /\ Lists' = Extended(Extended(Lists, w, <<>>), v, Lists[w])
<1>1. /\ v \notin AliveVectors /\ w \in AliveVectors /\ v # w
      /\ Take(v, w, heap) /\ room' = [room EXCEPT ![v] = 0, ![w] = 0]
  BY DEF ConstructMove
<1>2. PICK h : h = heap
  OBVIOUS
<1>3. /\ Take(v, w, h) /\ DOMAIN h = DOMAIN heap
      /\ \A a \in DOMAIN h : h[a] = heap[a]
  BY <1>1, <1>2
<1> QED BY <1>1, <1>3, TakeHolds

LEMMA AssignMoveHolds ==
  ASSUME VectorInv, NEW v \in Vectors, NEW w \in Vectors, AssignMove(v, w)
  PROVE  /\ VectorInv' /\ Kept
         /\ Lists' = Extended(Extended(Lists, w, <<>>), v, Lists[w])
<1>1. /\ v \in AliveVectors /\ w \in AliveVectors /\ v # w
      /\ Take(v, w, Freed(heap, vec[v].data))
      /\ room' = [room EXCEPT ![v] = 0, ![w] = 0]
  BY DEF AssignMove
<1>2. PICK h : /\ h = Freed(heap, vec[v].data)
               /\ DOMAIN h = DOMAIN heap \ {vec[v].data}
               /\ \A a \in DOMAIN h : h[a] = heap[a]
  <2>1. Freed(heap, vec[v].data)
          = [a \in DOMAIN heap \ {vec[v].data} |-> heap[a]]
    BY DEF Freed, Restrict
  <2> QED BY <2>1
<1> QED BY <1>1, <1>2, TakeHolds

LEMMA DestroyHolds ==
  ASSUME VectorInv, NEW v \in Vectors, DestroyVector(v)
  PROVE  /\ VectorInv' /\ Kept /\ v \in AliveVectors
         /\ Lists' = Restrict(Lists, AliveVectors \ {v})
<1>1. /\ v \in AliveVectors
      /\ heap' = [a \in DOMAIN heap \ {vec[v].data} |-> heap[a]]
      /\ vec' = [x \in AliveVectors \ {v} |-> vec[x]]
      /\ room' = [room EXCEPT ![v] = 0]
  BY DEF DestroyVector, Freed, Restrict
<1>2. /\ Owned(heap', vec')
      /\ \A x \in DOMAIN vec' : Contents([heap |-> heap', v |-> vec'[x]])
                                  = Contents([heap |-> heap, v |-> vec[x]])
  <2>1. PICK h, ve : h = heap' /\ ve = vec'
    OBVIOUS
  <2>2. /\ Ends(heap, vec, v, h, ve)
        /\ \A x \in DOMAIN ve : ve[x] = vec[x]
    BY <1>1, <2>1 DEF Ends, AliveVectors
  <2>3. Owned(heap, vec) /\ v \in DOMAIN vec
    BY <1>1 DEF VectorInv, AliveVectors
  <2>4. /\ Owned(h, ve)
        /\ \A x \in DOMAIN ve : Contents([heap |-> h, v |-> ve[x]])
                                  = Contents([heap |-> heap, v |-> vec[x]])
    BY <2>2, <2>3, OwnedFewer
  <2> QED BY <2>1, <2>4
<1>3. /\ room' \in [Vectors -> Nat]
      /\ \A x \in Vectors \ {v} : room'[x] = room[x]
  BY <1>1 DEF VectorInv
<1>4. \A x \in DOMAIN vec' : x # v /\ x \in AliveVectors /\ vec'[x] = vec[x]
  BY <1>1
<1>5. VectorInv'
  <2>1. \A x \in DOMAIN vec' : room'[x] <= vec'[x].cap
    BY <1>3, <1>4 DEF VectorInv, Owned, AliveVectors
  <2> QED BY <1>2, <1>3, <2>1 DEF VectorInv, AliveVectors
<1>6. Kept
  BY <1>4 DEF Kept
<1>7. Lists' = Restrict(Lists, AliveVectors \ {v})
  <2>1. DOMAIN vec' = AliveVectors \ {v}
    BY <1>1
  <2>2. \A x \in AliveVectors \ {v} :
          Contents([heap |-> heap', v |-> vec'[x]]) = Lists[x]
    BY <1>2, <1>4, <2>1, ListsAre
  <2> QED BY <2>1, <2>2, ListsAre DEF Restrict
<1> QED BY <1>1, <1>5, <1>6, <1>7

LEMMA ClearHolds ==
  ASSUME VectorInv, NEW v \in Vectors, Clear(v)
  PROVE  VectorInv' /\ Kept /\ Lists' = Extended(Lists, v, <<>>)
<1>1. v \in AliveVectors
  BY DEF Clear
<1>2. PICK s : /\ s = Of(v) /\ Sound(s) /\ s.heap = heap /\ s.v = vec[v]
  BY <1>1, OfSound
<1>3. PICK t : t = Cleared(s) /\ Changed(v, t)
  BY <1>2 DEF Clear
<1>4. Sound(t) /\ Replaces(s, t) /\ Contents(t) = <<>> /\ t.v.size = 0
  BY <1>2, <1>3, ClearedSound
<1>5. t.v.size <= MaxSize
  BY <1>4, VectorAssumption
<1> QED BY <1>1, <1>2, <1>3, <1>4, <1>5, ChangedHolds

LEMMA ShrinkHolds ==
  ASSUME VectorInv, NEW v \in Vectors, ShrinkToFit(v)
  PROVE  /\ VectorInv' /\ Kept /\ v \in AliveVectors
         /\ Lists' = Extended(Lists, v, Lists[v])
         /\ vec'[v].cap <= Max({1, 2 * vec[v].size - 1})
<1>1. v \in AliveVectors
  BY DEF ShrinkToFit
<1>2. PICK s : /\ s = Of(v) /\ Sound(s) /\ s.heap = heap /\ s.v = vec[v]
               /\ s.v.size <= MaxSize
  BY <1>1, OfSound
<1>3. PICK t : t = Shrunk(s) /\ Changed(v, t)
  BY <1>2 DEF ShrinkToFit
<1>4. /\ Sound(t) /\ Replaces(s, t) /\ Contents(t) = Contents(s)
      /\ t.v.size = s.v.size
      /\ t.v.cap <= Max({1, 2 * s.v.size - 1})
  BY <1>2, <1>3, ShrunkSound
<1>5. t.v.size <= MaxSize
  BY <1>2, <1>4
<1>6. /\ VectorInv' /\ Kept /\ vec'[v] = t.v
      /\ Lists' = Extended(Lists, v, Contents(t))
  BY <1>1, <1>2, <1>3, <1>4, <1>5, ChangedHolds
<1>7. Lists[v] = Contents(s)
  BY <1>1, <1>2 DEF Lists
<1> QED BY <1>1, <1>2, <1>4, <1>6, <1>7

LEMMA ResizeHolds ==
  ASSUME VectorInv, NEW v \in Vectors, NEW n \in 0 .. MaxSize,
         NEW e \in Elements \cup {Default}, Resize(v, n, e)
  PROVE  /\ VectorInv' /\ Kept /\ v \in AliveVectors
         /\ \E c \in Seq(Objects) :
              /\ Lists' = Extended(Lists, v, c) /\ Len(c) = n
              /\ \A i \in 1 .. n :
                   c[i] = IF i <= Len(Lists[v]) THEN Lists[v][i] ELSE e
<1>1. v \in AliveVectors
  BY DEF Resize
<1>2. PICK s : /\ s = Of(v) /\ Sound(s) /\ s.heap = heap /\ s.v = vec[v]
               /\ s.v.size <= MaxSize
  BY <1>1, OfSound
<1>3. PICK t : t = Resized(s, n, e) /\ Changed(v, t)
  BY <1>2 DEF Resize
<1>4. /\ Sound(t) /\ Replaces(s, t) /\ t.v.size = n
      /\ \A i \in 1 .. n :
           Contents(t)[i] = IF i <= s.v.size THEN Contents(s)[i] ELSE e
  <2>1. e \in Objects
    BY DEF Objects
  <2> QED BY <1>2, <1>3, <2>1, ResizedSound
<1>5. t.v.size <= MaxSize
  BY <1>4, VectorAssumption
<1>6. VectorInv' /\ Kept /\ Lists' = Extended(Lists, v, Contents(t))
  BY <1>1, <1>2, <1>3, <1>4, <1>5, ChangedHolds
<1>7. Lists[v] = Contents(s) /\ Len(Contents(s)) = s.v.size
  BY <1>1, <1>2, ContentsAre DEF Lists
<1>8. Contents(t) \in Seq(Objects) /\ Len(Contents(t)) = n
  BY <1>4, ContentsAre
<1> QED BY <1>1, <1>4, <1>6, <1>7, <1>8

LEMMA AssignCopyHolds ==
  ASSUME VectorInv, NEW v \in Vectors, NEW w \in Vectors, AssignCopy(v, w)
  PROVE  /\ VectorInv' /\ Kept /\ w \in AliveVectors
         /\ Lists' = Extended(Lists, v, Lists[w])
<1>1. v \in AliveVectors /\ w \in AliveVectors
  BY DEF AssignCopy
<1>2. PICK s : /\ s = Of(v) /\ Sound(s) /\ s.heap = heap /\ s.v = vec[v]
  BY <1>1, OfSound
<1>3. /\ Sound(Of(w)) /\ Of(w).v = vec[w]
      /\ vec[w].size \in Nat /\ vec[w].cap \in Nat
      /\ vec[w].size <= vec[w].cap /\ vec[w].size <= MaxSize
  BY <1>1, OfSound
<1>4. PICK other \in Seq(Objects) :
        /\ other = Contents(Of(w)) /\ Len(other) = vec[w].size
        /\ other = Lists[w]
  BY <1>1, <1>3, ContentsAre DEF Lists
<1>5. IF Len(other) > s.v.cap
        THEN Changed(v, Constructed(Freed(heap, s.v.data), other, vec[w].cap))
        ELSE Changed(v, Copied(s, other))
  BY <1>2, <1>4 DEF AssignCopy
<1>6. CASE Len(other) > s.v.cap
  <2>1. PICK h : /\ h = Freed(heap, s.v.data)
                 /\ DOMAIN h = DOMAIN heap \ {s.v.data}
                 /\ \A a \in DOMAIN h : h[a] = heap[a]
    <3>1. Freed(heap, s.v.data) = [a \in DOMAIN heap \ {s.v.data} |-> heap[a]]
      BY DEF Freed, Restrict
    <3> QED BY <3>1
  <2>2. Lacks(h, s)
    <3>1. IsFiniteSet(DOMAIN heap) /\ DOMAIN heap \subseteq Nat \ {Null}
      BY DEF VectorInv, Owned, IsHeap
    <3>3. IsFiniteSet(DOMAIN heap \ {s.v.data})
      BY <3>1, FS_RemoveElement
    <3>2. IsFiniteSet(DOMAIN h)
      BY <2>1, <3>3
    <3> QED BY <1>2, <2>1, <3>1, <3>2 DEF Lacks, IsHeap
  <2>3. PICK cap \in Nat : cap = vec[w].cap /\ Len(other) <= cap
    BY <1>3, <1>4
  <2>4. PICK t : t = Constructed(h, other, cap) /\ Changed(v, t)
    BY <1>5, <1>6, <2>1, <2>3
  <2>5. /\ Sound(t) /\ Replaces(s, t) /\ Contents(t) = other
        /\ t.v.size = Len(other)
    BY <2>2, <2>3, <2>4, ConstructedReplaces
  <2>6. t.v.size <= MaxSize
    BY <1>3, <1>4, <2>5
  <2>7. VectorInv' /\ Kept /\ Lists' = Extended(Lists, v, other)
    BY <1>1, <1>2, <2>4, <2>5, <2>6, ChangedHolds
  <2> QED BY <1>1, <1>4, <2>7
<1>7. CASE ~(Len(other) > s.v.cap)
  <2>1. PICK t : t = Copied(s, other) /\ Changed(v, t)
    BY <1>5, <1>7
  <2>2. Len(other) <= s.v.cap
    <3>1. Len(other) \in Nat /\ s.v.cap \in Nat
      BY <1>2, <1>4 DEF Sound
    <3> QED BY <1>7, <3>1
  <2>3. /\ Sound(t) /\ Replaces(s, t) /\ Contents(t) = other
        /\ t.v.size = Len(other)
    BY <1>2, <2>1, <2>2, CopiedSound
  <2>4. t.v.size <= MaxSize
    BY <1>3, <1>4, <2>3
  <2>5. VectorInv' /\ Kept /\ Lists' = Extended(Lists, v, other)
    BY <1>1, <1>2, <2>1, <2>3, <2>4, ChangedHolds
  <2> QED BY <1>1, <1>4, <2>5
<1> QED BY <1>6, <1>7

LEMMA ReserveHolds ==
  ASSUME VectorInv, NEW v \in Vectors, NEW n \in Counts, Reserve(v, n)
  PROVE  /\ VectorInv' /\ Kept /\ v \in AliveVectors
         /\ Lists' = Extended(Lists, v, Lists[v])
<1>1. v \in AliveVectors /\ room' = [room EXCEPT ![v] = n]
  BY DEF Reserve
<1>2. PICK s : /\ s = Of(v) /\ Sound(s) /\ s.heap = heap /\ s.v = vec[v]
               /\ s.v.size <= MaxSize /\ s.v.cap \in Nat
  BY <1>1, OfSound
<1>3. PICK t : t = Reserved(s, n) /\ VectorBecomes(v, t)
  BY <1>2 DEF Reserve
<1>4. n \in Nat /\ n <= MaxSize /\ n <= Growth * MaxSize
  <2>1. n \in Nat /\ n <= MaxSize
    BY VectorAssumption
  <2> QED BY <2>1, SizesSmall
<1>5. /\ Sound(t) /\ Replaces(s, t) /\ Contents(t) = Contents(s)
      /\ t.v.size = s.v.size /\ n <= t.v.cap
      /\ (n <= s.v.cap /\ s.v.cap # 0) => t = s
  BY <1>2, <1>3, <1>4, ReservedSound
<1>6. t.v.size <= MaxSize
  BY <1>2, <1>5
<1>7. /\ Owned(heap', vec')
      /\ DOMAIN vec' = AliveVectors \cup {v} /\ vec'[v] = t.v
      /\ \A w \in AliveVectors \ {v} : vec'[w] = vec[w]
      /\ Lists' = Extended(Lists, v, Contents(t))
  BY <1>1, <1>2, <1>3, <1>5, <1>6, BecomesHolds
<1>8. /\ room' \in [Vectors -> Nat] /\ room'[v] = n
      /\ \A w \in Vectors \ {v} : room'[w] = room[w]
      /\ \A w \in AliveVectors : w \in Vectors /\ room[w] <= vec[w].cap
  BY <1>1, <1>4 DEF VectorInv, Owned, AliveVectors
<1>9. \A w \in DOMAIN vec' : room'[w] <= vec'[w].cap
  <2>1. TAKE w \in DOMAIN vec'
  <2>2. CASE w = v
    BY <1>5, <1>7, <1>8, <2>2
  <2>3. CASE w # v
    BY <1>7, <1>8, <2>3
  <2> QED BY <2>2, <2>3
<1>10. VectorInv'
  BY <1>7, <1>8, <1>9 DEF VectorInv, AliveVectors
<1>11. Kept
  <2>1. \A w \in AliveVectors : w = v \/ vec'[w] = vec[w]
    BY <1>7
  <2>2. SUFFICES ASSUME vec[v].data # vec'[v].data, room'[v] = room[v],
                        room[v] > 0
                 PROVE  vec[v].size >= room[v]
    BY <2>1 DEF Kept
  <2>3. n <= s.v.cap /\ s.v.cap # 0
    BY <1>1, <1>2, <1>4, <1>8, <2>2
  <2>4. t = s
    BY <1>5, <2>3
  <2> QED BY <1>2, <1>7, <2>2, <2>4
<1>12. Lists[v] = Contents(s)
  BY <1>1, <1>2 DEF Lists
<1> QED BY <1>1, <1>5, <1>7, <1>10, <1>11, <1>12

LEMMA PopBackHolds ==
  ASSUME VectorInv, NEW v \in Vectors, PopBack(v)
  PROVE  /\ VectorInv' /\ Kept /\ v \in AliveVectors
         /\ Len(Lists[v]) > 0
         /\ \E c \in Seq(Objects) :
              /\ Lists' = Extended(Lists, v, c) /\ Len(c) = Len(Lists[v]) - 1
              /\ \A i \in 1 .. Len(c) : c[i] = Lists[v][i]
<1>1. v \in AliveVectors /\ vec[v].size > 0 /\ UNCHANGED room
  BY DEF PopBack
<1>2. PICK s : /\ s = Of(v) /\ Sound(s) /\ s.heap = heap /\ s.v = vec[v]
               /\ s.v.size <= MaxSize /\ s.v.cap \in Nat /\ s.v.size \in Nat
  BY <1>1, OfSound
<1>3. PICK t : t = Popped(s) /\ VectorBecomes(v, t)
  BY <1>2 DEF PopBack
<1>4. /\ Sound(t) /\ Replaces(s, t)
      /\ t.v.size = s.v.size - 1 /\ t.v.cap = s.v.cap /\ t.v.data = s.v.data
      /\ \A i \in 1 .. t.v.size : Contents(t)[i] = Contents(s)[i]
  BY <1>1, <1>2, <1>3, PoppedSound
<1>5. t.v.size <= MaxSize /\ vec[v].cap <= t.v.cap
  BY <1>2, <1>4, VectorAssumption
<1>6. VectorInv' /\ Kept /\ Lists' = Extended(Lists, v, Contents(t))
  BY <1>1, <1>2, <1>3, <1>4, <1>5, ExtendedHolds
<1>7. Lists[v] = Contents(s) /\ Len(Contents(s)) = s.v.size
  BY <1>1, <1>2, ContentsAre DEF Lists
<1>8. Contents(t) \in Seq(Objects) /\ Len(Contents(t)) = t.v.size
  BY <1>4, ContentsAre
<1> QED BY <1>1, <1>2, <1>4, <1>6, <1>7, <1>8

LEMMA AccessHolds ==
  ASSUME VectorInv, NEW v \in Vectors, NEW i \in 1 .. MaxSize,
         NEW e \in Elements, Access(v, i, e)
  PROVE  /\ VectorInv' /\ Kept /\ v \in AliveVectors
         /\ i \in 1 .. Len(Lists[v])
         /\ Lists' = Extended(Lists, v, Overwritten(Lists[v], i, e))
<1>1. /\ v \in AliveVectors /\ i <= vec[v].size
      /\ heap' = [heap EXCEPT ![vec[v].data][i] = e]
      /\ vec' = vec /\ room' = room
  BY DEF Access
<1>2. /\ i \in 1 .. vec[v].size /\ e \in Objects /\ Owned(heap, vec)
      /\ v \in DOMAIN vec
  <2>1. vec[v].size \in Nat /\ MaxSize \in Nat
    BY <1>1, OfSound, VectorAssumption
  <2> QED BY <1>1, <2>1 DEF Objects, VectorInv, AliveVectors
<1>3. PICK g : g = heap' /\ g = [heap EXCEPT ![vec[v].data][i] = e]
  BY <1>1
<1>4. /\ Owned(g, vec)
      /\ Contents([heap |-> g, v |-> vec[v]])
           = Overwritten(Contents([heap |-> heap, v |-> vec[v]]), i, e)
      /\ \A x \in DOMAIN vec \ {v} : Contents([heap |-> g, v |-> vec[x]])
                                       = Contents([heap |-> heap, v |-> vec[x]])
  <2>1. Overwrites(heap, vec, v, i, e, g)
    BY <1>2, <1>3 DEF Overwrites
  <2> QED BY <1>2, <2>1, OwnedOverwritten
<1>5. VectorInv'
  BY <1>1, <1>3, <1>4 DEF VectorInv, AliveVectors
<1>6. Kept
  BY <1>1 DEF Kept
<1>7. Lists' = Extended(Lists, v, Overwritten(Lists[v], i, e))
  <2>1. Lists' = [x \in DOMAIN vec |-> Contents([heap |-> g, v |-> vec[x]])]
    BY <1>1, <1>3, ListsAre
  <2>2. PICK c : c = Overwritten(Lists[v], i, e)
    OBVIOUS
  <2>3. \A x \in DOMAIN vec : Contents([heap |-> g, v |-> vec[x]])
                                = IF x = v THEN c ELSE Lists[x]
    BY <1>2, <1>4, <2>2, ListsAre DEF AliveVectors
  <2>4. Extended(Lists, v, c) = [x \in DOMAIN vec |-> IF x = v THEN c ELSE Lists[x]]
    <3>1. DOMAIN Lists \cup {v} = DOMAIN vec
      BY <1>2, ListsAre DEF AliveVectors
    <3> QED BY <3>1 DEF Extended
  <2> QED BY <2>1, <2>2, <2>3, <2>4
<1>8. Len(Lists[v]) = vec[v].size
  BY <1>1, OfSound, ContentsAre DEF Lists
<1> QED BY <1>1, <1>2, <1>5, <1>6, <1>7, <1>8

\* t is the vector v with e behind its elements.
PutBehind(v, e, t) ==
  /\ Sound(t) /\ Replaces(Of(v), t) /\ t.v.size <= MaxSize
  /\ vec[v].cap <= t.v.cap /\ t.v.size = vec[v].size + 1
  /\ ~IsFull(Of(v)) => t.v.data = vec[v].data
  /\ Contents(t) = Append(Lists[v], e)
  /\ v \in AliveVectors

\* What emplace_back does to a vector that fits.
LEMMA EmplacedHolds ==
  ASSUME VectorInv, NEW v \in Vectors, Fits(v), NEW e \in Objects,
         NEW t, t = EmplacedBack(Of(v), e)
  PROVE  PutBehind(v, e, t)
<1>1. v \in AliveVectors /\ vec[v].size < MaxSize
  BY DEF Fits
<1>2. PICK s : /\ s = Of(v) /\ Sound(s) /\ s.heap = heap /\ s.v = vec[v]
               /\ s.v.size <= MaxSize /\ s.v.cap \in Nat /\ s.v.size \in Nat
  BY <1>1, OfSound
<1>3. /\ Sound(t) /\ Replaces(s, t)
      /\ Contents(t) = Append(Contents(s), e)
      /\ t.v.size = s.v.size + 1 /\ s.v.cap <= t.v.cap
      /\ ~IsFull(s) => t.v.data = s.v.data /\ t.v.cap = s.v.cap
  BY <1>2, EmplacedBackSound
<1>4. Lists[v] = Contents(s)
  BY <1>1, <1>2 DEF Lists
<1>5. t.v.size <= MaxSize
  BY <1>1, <1>2, <1>3, VectorAssumption
<1> QED BY <1>1, <1>2, <1>3, <1>4, <1>5 DEF PutBehind

LEMMA EmplaceBecomes ==
  ASSUME VectorInv, NEW v \in Vectors, Fits(v), NEW e \in Objects,
         VectorBecomes(v, EmplacedBack(Of(v), e)), UNCHANGED room
  PROVE  /\ VectorInv' /\ Kept /\ v \in AliveVectors
         /\ Lists' = Extended(Lists, v, Append(Lists[v], e))
<1>1. PICK t : t = EmplacedBack(Of(v), e)
  OBVIOUS
<1>2. /\ Sound(t) /\ Replaces(Of(v), t) /\ t.v.size <= MaxSize
      /\ vec[v].cap <= t.v.cap
      /\ ~IsFull(Of(v)) => t.v.data = vec[v].data
      /\ Contents(t) = Append(Lists[v], e)
      /\ v \in AliveVectors
  <2>1. PutBehind(v, e, t)
    BY <1>1, EmplacedHolds
  <2> QED BY ONLY <2>1 DEF PutBehind
<1>3. VectorBecomes(v, t)
  BY <1>1
<1> QED BY <1>2, <1>3, ExtendedHolds

LEMMA EmplaceBackHolds ==
  ASSUME VectorInv, NEW v \in Vectors, NEW e \in Elements, EmplaceBack(v, e)
  PROVE  /\ VectorInv' /\ Kept /\ v \in AliveVectors
         /\ Lists' = Extended(Lists, v, Append(Lists[v], e))
<1>1. e \in Objects
  BY DEF Objects
<1> QED BY <1>1, EmplaceBecomes DEF EmplaceBack

LEMMA PushBackCopyHolds ==
  ASSUME VectorInv, NEW v \in Vectors, NEW w \in Vectors, NEW i \in 1 .. MaxSize,
         PushBackCopy(v, w, i)
  PROVE  /\ VectorInv' /\ Kept /\ v \in AliveVectors
         /\ \E e \in Objects :
              Lists' = Extended(Lists, v, Append(Lists[v], e))
<1>1. PICK e \in Objects : VectorBecomes(v, EmplacedBack(Of(v), e))
  BY DEF PushBackCopy
<1>2. Fits(v) /\ UNCHANGED room
  BY DEF PushBackCopy
<1> QED BY <1>1, <1>2, EmplaceBecomes
\* What push_back(move(w[i])) leaves behind in w, which holds the element in
\* its place i still when v has got it.
MovesOut(v, w, i, e, s) ==
  /\ v # w \/ ~IsFull(Of(v))
  /\ i \in 1 .. vec[w].size
  /\ s = EmplacedBack(Of(v), e)
  /\ heap' = [s.heap EXCEPT ![vec[w].data][i] = MovedFrom]
  /\ vec' = Extended(vec, v, s.v)

LEMMA MovedOut ==
  ASSUME VectorInv, NEW v \in Vectors, Fits(v), NEW w \in AliveVectors,
         NEW i, NEW e \in Objects, NEW s, MovesOut(v, w, i, e, s)
  PROVE  /\ Owned(heap', vec')
         /\ LET l == Extended(Lists, v, Append(Lists[v], e))
            IN  Lists' = Extended(l, w, Overwritten(l[w], i, MovedFrom))
<1>1. /\ Sound(s) /\ Replaces(Of(v), s) /\ s.v.size <= MaxSize
      /\ s.v.size = vec[v].size + 1
      /\ ~IsFull(Of(v)) => s.v.data = vec[v].data
      /\ Contents(s) = Append(Lists[v], e)
      /\ v \in AliveVectors
  <2>1. PutBehind(v, e, s)
    BY EmplacedHolds DEF MovesOut
  <2> QED BY ONLY <2>1 DEF PutBehind
<1>2. PICK o : o = Of(v) /\ o.heap = heap /\ o.v = vec[v]
  BY <1>1, OfSound
<1>3. PICK we, h : we = vec' /\ h = s.heap /\ we = Extended(vec, v, s.v)
  BY DEF MovesOut
<1>4. /\ Owned(h, we) /\ DOMAIN we = AliveVectors /\ we[v] = s.v
      /\ \A x \in AliveVectors \ {v} :
           /\ we[x] = vec[x]
           /\ Contents([heap |-> h, v |-> we[x]])
                = Contents([heap |-> heap, v |-> vec[x]])
  <2>1. Owned(heap, vec) /\ v \in DOMAIN vec
    BY <1>1 DEF VectorInv, AliveVectors
  <2>3. v \in DOMAIN vec => o.v = vec[v]
    BY <1>2
  <2>4. v \notin DOMAIN vec => o.v = NoArray
    BY <2>1
  <2>5. /\ Owned(heap, vec) /\ o.heap = heap
        /\ Sound(s) /\ s.v.size <= MaxSize /\ Replaces(o, s)
        /\ we = Extended(vec, v, s.v)
    BY <1>1, <1>2, <1>3, <2>1
  <2>2. /\ Owned(s.heap, we) /\ DOMAIN we = DOMAIN vec \cup {v} /\ we[v] = s.v
        /\ \A x \in DOMAIN vec \ {v} :
             /\ we[x] = vec[x]
             /\ Contents([heap |-> s.heap, v |-> we[x]])
                  = Contents([heap |-> heap, v |-> vec[x]])
    <3>1. Renews(heap, vec, v, o, s, we)
      BY <2>3, <2>4, <2>5 DEF Renews
    <3>2. ButFor(heap, vec, v, s.v, s.heap, we)
      BY ONLY <3>1, OwnedReplaced
    <3> QED BY ONLY <3>2 DEF ButFor
  <2> QED BY <1>3, <2>1, <2>2 DEF AliveVectors
<1>5. Contents([heap |-> h, v |-> we[v]]) = Append(Lists[v], e)
  BY <1>1, <1>3, <1>4 DEF Sound
<1>6. we[w].data = vec[w].data /\ i \in 1 .. we[w].size
  <2>1. CASE v = w
    <3>1. vec[w].size \in Nat /\ s.v.size \in Nat
      BY <1>1, OfSound DEF Sound
    <3> QED BY <1>1, <1>4, <2>1, <3>1 DEF MovesOut
  <2>2. CASE v # w
    BY <1>4, <2>2 DEF MovesOut
  <2> QED BY <2>1, <2>2
<1>7. PICK g : g = heap' /\ Overwrites(h, we, w, i, MovedFrom, g)
  BY <1>3, <1>4, <1>6 DEF Overwrites, Objects, MovesOut
<1>8. /\ Owned(g, we)
      /\ Contents([heap |-> g, v |-> we[w]])
           = Overwritten(Contents([heap |-> h, v |-> we[w]]), i, MovedFrom)
      /\ \A x \in DOMAIN we \ {w} : Contents([heap |-> g, v |-> we[x]])
                                      = Contents([heap |-> h, v |-> we[x]])
  BY <1>4, <1>7, OwnedOverwritten
<1>9. PICK l : l = Extended(Lists, v, Append(Lists[v], e))
  OBVIOUS
<1>10. /\ DOMAIN l = AliveVectors
       /\ \A x \in AliveVectors : l[x] = Contents([heap |-> h, v |-> we[x]])
  <2>1. /\ DOMAIN l = AliveVectors \cup {v} /\ l[v] = Append(Lists[v], e)
        /\ \A x \in AliveVectors \ {v} : l[x] = Lists[x]
    BY <1>9, ListsAre DEF Extended
  <2> QED BY <1>1, <1>4, <1>5, <2>1, ListsAre
<1>11. Lists' = [x \in AliveVectors |-> Contents([heap |-> g, v |-> we[x]])]
  BY <1>3, <1>4, <1>7, ListsAre
<1>12. PICK c : c = Overwritten(l[w], i, MovedFrom)
  OBVIOUS
<1>13. Lists' = Extended(l, w, c)
  <2>1. \A x \in AliveVectors :
          Contents([heap |-> g, v |-> we[x]]) = IF x = w THEN c ELSE l[x]
    BY <1>4, <1>8, <1>10, <1>12
  <2>2. Extended(l, w, c) = [x \in AliveVectors |-> IF x = w THEN c ELSE l[x]]
    <3>1. DOMAIN l \cup {w} = AliveVectors
      BY <1>10
    <3> QED BY <3>1 DEF Extended
  <2> QED BY <1>11, <2>1, <2>2
<1> QED BY <1>3, <1>7, <1>8, <1>9, <1>12, <1>13

\* The element that push_back(T&&) moves is e, and s is v with e put in.
TakesIn(v, w, i, e, s) ==
  /\ s = EmplacedBack(Of(v), e) /\ e = heap[vec[w].data][i]
  /\ VectorBecomes(v, [s EXCEPT !.heap[vec[w].data][i] = MovedFrom])

LEMMA PushBackMoveHolds ==
  ASSUME VectorInv, NEW v \in Vectors, NEW w \in Vectors, NEW i \in 1 .. MaxSize,
         PushBackMove(v, w, i)
  PROVE  /\ VectorInv' /\ Kept /\ v \in AliveVectors
         /\ \/ \E e \in Objects :
                 Lists' = Extended(Lists, v, Append(Lists[v], e))
            \/ /\ w \in AliveVectors /\ i \in 1 .. Len(Lists[w])
               /\ LET l == Extended(Lists, v, Append(Lists[v], Lists[w][i]))
                  IN  Lists' = Extended(l, w, Overwritten(l[w], i, MovedFrom))
<1>1. /\ Fits(v) /\ w \in AliveVectors /\ i <= vec[w].size /\ UNCHANGED room
      /\ v \in AliveVectors
  BY DEF PushBackMove, Fits
<1>2. CASE v = w /\ IsFull(Of(v))
  <2>1. PICK e \in Objects : VectorBecomes(v, EmplacedBack(Of(v), e))
    BY <1>2 DEF PushBackMove
  <2> QED BY <1>1, <2>1, EmplaceBecomes
<1>3. CASE v # w \/ ~IsFull(Of(v))
  <2>0. PICK e \in Objects : TakesIn(v, w, i, e, EmplacedBack(Of(v), e))
    BY <1>3, Zenon DEF PushBackMove, TakesIn
  <2>1. PICK s : s = EmplacedBack(Of(v), e) /\ TakesIn(v, w, i, e, s)
    BY ONLY <2>0
  <2>2. /\ Sound(s) /\ s.v.size <= MaxSize
        /\ vec[v].cap <= s.v.cap
        /\ ~IsFull(Of(v)) => s.v.data = vec[v].data
    <3>1. PutBehind(v, e, s)
      BY ONLY VectorInv, e \in Objects, <1>1, <2>1, EmplacedHolds,
              v \in Vectors
    <3> QED BY ONLY <3>1 DEF PutBehind
  <2>3. /\ heap' = [s.heap EXCEPT ![vec[w].data][i] = MovedFrom]
        /\ vec' = Extended(vec, v, s.v)
    <3>1. PICK h, r, d : /\ s = [heap |-> h, v |-> r] /\ h = s.heap /\ r = s.v
                         /\ d = vec[w].data
      BY <2>2 DEF Sound
    <3>2. [s EXCEPT !.heap[d][i] = MovedFrom]
            = [heap |-> [h EXCEPT ![d][i] = MovedFrom], v |-> r]
      BY <3>1
    <3>3. PICK g : g = [h EXCEPT ![d][i] = MovedFrom]
      OBVIOUS
    <3>4. VectorBecomes(v, [heap |-> g, v |-> r])
      <4>1. VectorBecomes(v, [s EXCEPT !.heap[d][i] = MovedFrom])
        <5>1. VectorBecomes(v, [s EXCEPT !.heap[vec[w].data][i] = MovedFrom])
          BY ONLY <2>1, Zenon DEF TakesIn
        <5>2. d = vec[w].data
          BY ONLY <3>1
        <5> QED BY ONLY <5>1, <5>2, Zenon
      <4>2. [s EXCEPT !.heap[d][i] = MovedFrom] = [heap |-> g, v |-> r]
        BY ONLY <3>2, <3>3
      <4> QED BY ONLY <4>1, <4>2
    <3>5. heap' = g /\ vec' = Extended(vec, v, r)
      BY <3>4 DEF VectorBecomes
    <3> QED BY ONLY <3>1, <3>3, <3>5
  <2>4. i \in 1 .. vec[w].size
    BY <1>1, OfSound
  <2>5. /\ Owned(heap', vec')
        /\ LET l == Extended(Lists, v, Append(Lists[v], e))
           IN  Lists' = Extended(l, w, Overwritten(l[w], i, MovedFrom))
    <3>1. MovesOut(v, w, i, e, s)
      BY ONLY <1>3, <2>1, <2>3, <2>4 DEF MovesOut
    <3> QED BY <1>1, <3>1, MovedOut
  <2>6. e = Lists[w][i] /\ i \in 1 .. Len(Lists[w])
    <3>1. PICK o : /\ o = Of(w) /\ Sound(o) /\ o.heap = heap /\ o.v = vec[w]
      BY <1>1, OfSound
    <3>2. /\ Len(Contents(o)) = vec[w].size
          /\ \A j \in 1 .. vec[w].size : Contents(o)[j] = heap[vec[w].data][j]
      BY <3>1, ContentsAre
    <3>3. Lists[w] = Contents(o)
      BY <1>1, <3>1 DEF Lists
    <3>4. e = heap[vec[w].data][i]
      BY ONLY <2>1, Zenon DEF TakesIn
    <3> QED BY ONLY <2>4, <3>2, <3>3, <3>4
  <2>7. /\ DOMAIN vec' = AliveVectors /\ vec'[v] = s.v
        /\ \A x \in AliveVectors \ {v} : vec'[x] = vec[x]
    BY <1>1, <2>3 DEF Extended, AliveVectors
  <2>8. /\ room' = room /\ room \in [Vectors -> Nat]
        /\ \A x \in AliveVectors : room[x] <= vec[x].cap /\ x \in Vectors
    BY <1>1 DEF VectorInv, Owned, AliveVectors
  <2>9. \A x \in DOMAIN vec' : room'[x] <= vec'[x].cap
    <3>1. room[v] \in Nat /\ vec[v].cap \in Nat /\ s.v.cap \in Nat
      BY <1>1, <2>2, <2>8, OfSound DEF Sound
    <3>2. room[v] <= s.v.cap
      BY <1>1, <2>2, <2>8, <3>1
    <3> QED BY <2>7, <2>8, <3>2
  <2>10. VectorInv'
    BY <2>5, <2>8, <2>9 DEF VectorInv, AliveVectors
  <2>11. Kept
    <3>1. \A x \in AliveVectors : x = v \/ vec'[x] = vec[x]
      BY <2>7
    <3>2. SUFFICES ASSUME vec[v].data # vec'[v].data
                   PROVE  vec[v].size >= room[v]
      BY <3>1 DEF Kept
    <3>3. vec[v].size = vec[v].cap
      BY <1>1, <2>2, <2>7, <3>2, OfSound DEF IsFull
    <3> QED BY <1>1, <2>8, <3>3, OfSound
  <2> QED BY <1>1, <2>5, <2>6, <2>10, <2>11
<1> QED BY <1>2, <1>3
-----------------------------------------------------------------------------
(* Every step of the vectors is one of the sequences they stand for, or none *)

LEMMA ListsSound ==
  ASSUME VectorInv, NEW v \in AliveVectors
  PROVE  /\ v \in Vectors /\ v \in DOMAIN Lists
         /\ Lists[v] \in Seq(Objects) /\ Len(Lists[v]) \in 0 .. MaxSize
<1>1. PICK s : /\ s = Of(v) /\ Sound(s) /\ s.v = vec[v]
               /\ s.v.size <= MaxSize /\ s.v.size \in Nat
  BY OfSound
<1>2. Contents(s) \in Seq(Objects) /\ Len(Contents(s)) = s.v.size
  BY <1>1, ContentsAre
<1>3. Lists[v] = Contents(s)
  BY <1>1 DEF Lists
<1> QED BY <1>1, <1>2, <1>3, OfSound, VectorAssumption, ListsAre

\* The abstract state is Lists.
LEMMA SetIs ==
  ASSUME NEW v, NEW s, Lists' = Extended(Lists, v, s)
  PROVE  AsContents!Set(v, s)
  BY DEF AsContents!Set, AsContents!Extended, Extended, Lists

LEMMA ContentIs ==
  /\ AsContents!Alive = AliveVectors
  /\ \A v \in AliveVectors :
       [w \in AliveVectors |-> Contents(Of(w))][v] = Lists[v]
  BY DEF AsContents!Alive, Lists

\* An assignment of what a vector holds already.
LEMMA SameLists ==
  ASSUME NEW v \in AliveVectors, Lists' = Extended(Lists, v, Lists[v])
  PROVE  Lists' = Lists
<1>1. DOMAIN Lists = AliveVectors /\ Lists = [w \in AliveVectors |-> Lists[w]]
  BY DEF Lists
<1>2. Extended(Lists, v, Lists[v]) = [w \in AliveVectors |-> Lists[w]]
  <2>1. DOMAIN Lists \cup {v} = AliveVectors
    BY <1>1
  <2>2. \A w \in AliveVectors : (IF w = v THEN Lists[v] ELSE Lists[w]) = Lists[w]
    OBVIOUS
  <2> QED BY <2>1, <2>2 DEF Extended
<1> QED BY <1>1, <1>2

LEMMA Makes ==
  ASSUME NEW v, v \notin AliveVectors, NEW n \in 0 .. MaxSize,
         NEW e \in Elements \cup {Default},
         Lists' = Extended(Lists, v, [i \in 1 .. n |-> e])
  PROVE  AsContents!Operation(v)
<1>1. AsContents!Set(v, [i \in 1 .. n |-> e])
  BY SetIs
<1>2. [i \in 1 .. n |-> e] \in AsContents!Uniform
  BY DEF AsContents!Uniform
<1>3. AsContents!Make(v)
  BY <1>1, <1>2, ContentIs DEF AsContents!Make
<1> QED BY <1>3 DEF AsContents!Operation

LEMMA EndsOne ==
  ASSUME NEW v \in AliveVectors, Lists' = Restrict(Lists, AliveVectors \ {v})
  PROVE  AsContents!Operation(v)
<1>1. AsContents!End(v)
  BY ContentIs DEF AsContents!End, AsContents!Restrict, Restrict, Lists
<1> QED BY <1>1 DEF AsContents!Operation

LEMMA Copies ==
  ASSUME NEW v, NEW w \in AliveVectors, Lists' = Extended(Lists, v, Lists[w])
  PROVE  AsContents!Operation(v)
<1>1. AsContents!Set(v, Lists[w])
  BY SetIs
<1>2. AsContents!Copy(v, w)
  BY <1>1, ContentIs DEF AsContents!Copy
<1> QED BY <1>2, ContentIs DEF AsContents!Operation

LEMMA Takes ==
  ASSUME NEW v, NEW w \in AliveVectors, v # w,
         Lists' = Extended(Extended(Lists, w, <<>>), v, Lists[w])
  PROVE  AsContents!Operation(v)
<1>1. AsContents!Take(v, w)
  BY ContentIs DEF AsContents!Take, AsContents!Extended, Extended, Lists
<1> QED BY <1>1, ContentIs DEF AsContents!Operation

LEMMA Appends ==
  ASSUME NEW v \in AliveVectors, NEW e \in Objects,
         Lists' = Extended(Lists, v, Append(Lists[v], e))
  PROVE  AsContents!Operation(v)
<1>1. AsContents!Set(v, Append(Lists[v], e))
  BY SetIs
<1>2. AsContents!Append1(v, e)
  BY <1>1, ContentIs DEF AsContents!Append1
<1>3. e \in Elements \cup {Default, MovedFrom}
  BY DEF Objects
<1> QED BY <1>2, <1>3 DEF AsContents!Operation

LEMMA Assigns ==
  ASSUME VectorInv, NEW v \in AliveVectors, NEW i \in 1 .. Len(Lists[v]),
         NEW e \in Elements,
         Lists' = Extended(Lists, v, Overwritten(Lists[v], i, e))
  PROVE  AsContents!Operation(v)
<1>1. AsContents!Set(v, Overwritten(Lists[v], i, e))
  BY SetIs
<1>2. AsContents!Assign(v, i, e)
  BY <1>1, ContentIs DEF AsContents!Assign, Overwritten
<1>3. i \in 1 .. MaxSize /\ i \in DOMAIN Lists[v]
  BY ListsSound, VectorAssumption
<1> QED BY <1>2, <1>3, ContentIs DEF AsContents!Operation

LEMMA Truncates ==
  ASSUME VectorInv, NEW v \in AliveVectors,
         NEW c \in Seq(Objects), Lists' = Extended(Lists, v, c),
         Len(c) < Len(Lists[v]), \A i \in 1 .. Len(c) : c[i] = Lists[v][i]
  PROVE  AsContents!Operation(v)
<1>1. PICK l \in Seq(Objects), n \in Nat, m \in Nat :
        l = Lists[v] /\ n = Len(c) /\ m = Len(l)
  BY ListsSound
<1>2. SubSeq(l, 1, n) = c
  <2>1. \A i \in 1 .. n : l[i] \in Objects
    BY <1>1
  <2>2. /\ SubSeq(l, 1, n) \in Seq(Objects)
        /\ Len(SubSeq(l, 1, n)) = IF 1 <= n THEN n - 1 + 1 ELSE 0
        /\ \A i \in 1 .. n - 1 + 1 : SubSeq(l, 1, n)[i] = l[1 + i - 1]
    BY <1>1, <2>1, SubSeqProperties
  <2>3. Len(SubSeq(l, 1, n)) = n /\ \A i \in 1 .. n : SubSeq(l, 1, n)[i] = c[i]
    <3>1. \A i \in 1 .. n : i \in 1 .. n - 1 + 1 /\ 1 + i - 1 = i
      BY <1>1
    <3> QED BY <1>1, <2>2, <3>1
  <2> QED BY <1>1, <2>2, <2>3, SeqEqual
<1>3. n \in 0 .. m - 1
  BY <1>1
<1>4. AsContents!Set(v, SubSeq(Lists[v], 1, n))
  BY <1>1, <1>2, SetIs
<1>5. AsContents!Truncate(v)
  BY <1>1, <1>3, <1>4, ContentIs DEF AsContents!Truncate
<1> QED BY <1>5 DEF AsContents!Operation

LEMMA ExtendsOne ==
  ASSUME VectorInv, NEW v \in AliveVectors, NEW n \in 0 .. MaxSize,
         NEW e \in Elements \cup {Default},
         NEW c \in Seq(Objects), Lists' = Extended(Lists, v, c),
         Len(c) = n, Len(Lists[v]) < n,
         \A i \in 1 .. n :
           c[i] = IF i <= Len(Lists[v]) THEN Lists[v][i] ELSE e
  PROVE  AsContents!Operation(v)
<1>1. PICK l \in Seq(Objects), m \in Nat : l = Lists[v] /\ m = Len(l) /\ n \in Nat
  BY ListsSound
<1>2. PICK k \in 1 .. MaxSize : k = n - m
  <2>1. m < n /\ n <= MaxSize /\ MaxSize \in Nat
    BY <1>1, VectorAssumption
  <2>2. n - m \in 1 .. MaxSize
    BY <1>1, <2>1
  <2> QED BY <2>2
<1>3. PICK es \in Seq(Objects) : /\ es = [i \in 1 .. k |-> e] /\ Len(es) = k
                                 /\ \A i \in 1 .. k : es[i] = e
  <2>1. k \in Nat /\ e \in Objects
    BY <1>2, VectorAssumption DEF Objects
  <2>2. [i \in 1 .. k |-> e] \in Seq(Objects) /\ Len([i \in 1 .. k |-> e]) = k
    BY <2>1
  <2> QED BY <2>2
<1>4. l \o es = c
  <2>1. /\ l \o es \in Seq(Objects) /\ Len(l \o es) = m + k
        /\ \A i \in 1 .. m + k :
             (l \o es)[i] = IF i <= m THEN l[i] ELSE es[i - m]
    BY <1>1, <1>3, ConcatProperties
  <2>2. m + k = n
    BY <1>1, <1>2
  <2>3. \A i \in 1 .. n : (l \o es)[i] = c[i]
    <3>1. TAKE i \in 1 .. n
    <3>2. CASE i <= m
      BY <1>1, <2>1, <2>2, <3>2
    <3>3. CASE ~(i <= m)
      <4>1. i - m \in 1 .. k
        BY <1>1, <1>2, <3>3
      <4> QED BY <1>1, <1>3, <2>1, <2>2, <3>3, <4>1
    <3> QED BY <3>2, <3>3
  <2> QED BY <2>1, <2>2, <2>3, SeqEqual
<1>5. AsContents!Set(v, Lists[v] \o [i \in 1 .. k |-> e])
  BY <1>1, <1>3, <1>4, SetIs
<1>6. AsContents!Extend(v, e)
  BY <1>2, <1>5, ContentIs DEF AsContents!Extend
<1> QED BY <1>6 DEF AsContents!Operation
\* The last element of v is the one that was taken from w.
LEMMA MovesOne ==
  ASSUME VectorInv, NEW v \in AliveVectors, NEW w \in AliveVectors,
         NEW i, i \in 1 .. Len(Lists[w]),
         NEW l, l = Extended(Lists, v, Append(Lists[v], Lists[w][i])),
         Lists' = Extended(l, w, Overwritten(l[w], i, MovedFrom))
  PROVE  AsContents!Operation(v)
<1>1. i \in 1 .. MaxSize /\ i \in DOMAIN Lists[w]
  BY ListsSound, VectorAssumption
<1>2. /\ DOMAIN l = AliveVectors /\ l[v] = Append(Lists[v], Lists[w][i])
      /\ \A x \in AliveVectors \ {v} : l[x] = Lists[x]
  <2>1. DOMAIN Lists \cup {v} = AliveVectors
    BY ListsAre
  <2> QED BY <2>1 DEF Extended
<1>3. CASE v = w
  <2>1. PICK s \in Seq(Objects), n \in Nat, e \in Objects :
          s = Lists[v] /\ n = Len(s) /\ e = s[i] /\ i \in 1 .. n
    BY <1>3, ListsSound
  <2>2. PICK t \in Seq(Objects) :
          /\ t = Overwritten(s, i, MovedFrom) /\ Len(t) = n
          /\ \A j \in 1 .. n : t[j] = IF j = i THEN MovedFrom ELSE s[j]
    <3>1. MovedFrom \in Objects
      BY DEF Objects
    <3>2. /\ [s EXCEPT ![i] = MovedFrom] \in Seq(Objects)
          /\ Len([s EXCEPT ![i] = MovedFrom]) = n
          /\ \A j \in 1 .. n : [s EXCEPT ![i] = MovedFrom][j]
                                  = IF j = i THEN MovedFrom ELSE s[j]
      BY <2>1, <3>1, ExceptSeq
    <3> QED BY <3>2 DEF Overwritten
  <2>3. PICK a \in Seq(Objects) :
          /\ a = Append(s, e) /\ Len(a) = n + 1
          /\ \A j \in 1 .. n : a[j] = s[j]
          /\ a[n + 1] = e
    <3>1. /\ Append(s, e) \in Seq(Objects) /\ Len(Append(s, e)) = n + 1
          /\ \A j \in 1 .. n : Append(s, e)[j] = s[j]
          /\ Append(s, e)[n + 1] = e
      BY <2>1
    <3> QED BY <3>1
  <2>4. PICK b \in Seq(Objects) :
          /\ b = Append(t, e) /\ Len(b) = n + 1
          /\ \A j \in 1 .. n : b[j] = t[j]
          /\ b[n + 1] = e
    <3>1. /\ Append(t, e) \in Seq(Objects) /\ Len(Append(t, e)) = n + 1
          /\ \A j \in 1 .. n : Append(t, e)[j] = t[j]
          /\ Append(t, e)[n + 1] = e
      <4>1. t \in Seq(Objects) /\ Len(t) = n /\ e \in Objects
        BY <2>1, <2>2
      <4> QED BY <4>1
    <3> QED BY <3>1
  <2>5. Overwritten(a, i, MovedFrom) = b
    <3>1. PICK c \in Seq(Objects) :
            /\ c = Overwritten(a, i, MovedFrom) /\ Len(c) = n + 1
            /\ \A j \in 1 .. n + 1 : c[j] = IF j = i THEN MovedFrom ELSE a[j]
      <4>1. MovedFrom \in Objects /\ i \in 1 .. Len(a)
        BY <2>1, <2>3 DEF Objects
      <4>2. /\ [a EXCEPT ![i] = MovedFrom] \in Seq(Objects)
            /\ Len([a EXCEPT ![i] = MovedFrom]) = n + 1
            /\ \A j \in 1 .. n + 1 : [a EXCEPT ![i] = MovedFrom][j]
                                        = IF j = i THEN MovedFrom ELSE a[j]
        <5>1. a \in Seq(Objects) /\ Len(a) = n + 1
          BY <2>3
        <5> QED BY <4>1, <5>1, ExceptSeq
      <4> QED BY <4>2 DEF Overwritten
    <3>2. \A j \in 1 .. n + 1 : c[j] = b[j]
      <4>1. TAKE j \in 1 .. n + 1
      <4>2. CASE j \in 1 .. n
        <5>1. c[j] = (IF j = i THEN MovedFrom ELSE a[j]) /\ a[j] = s[j]
          BY <2>3, <3>1, <4>2
        <5>2. b[j] = t[j] /\ t[j] = IF j = i THEN MovedFrom ELSE s[j]
          BY <2>2, <2>4, <4>2
        <5> QED BY <5>1, <5>2
      <4>3. CASE j = n + 1
        BY <2>1, <2>3, <2>4, <3>1, <4>3
      <4>4. j \in 1 .. n \/ j = n + 1
        OBVIOUS
      <4> QED BY <4>2, <4>3, <4>4
    <3> QED BY <2>4, <3>1, <3>2, SeqEqual
  <2>6. Lists' = Extended(l, v, b)
    BY <1>2, <1>3, <2>1, <2>3, <2>5
  <2>7. Extended(l, v, b) = Extended(Lists, v, b)
    <3>1. DOMAIN l \cup {v} = AliveVectors /\ DOMAIN Lists \cup {v} = AliveVectors
      BY <1>2, ListsAre
    <3>2. \A x \in AliveVectors : (IF x = v THEN b ELSE l[x])
                                    = IF x = v THEN b ELSE Lists[x]
      BY <1>2
    <3> QED BY <3>1, <3>2 DEF Extended
  <2>8. AsContents!Set(v, Append(Overwritten(Lists[v], i, MovedFrom), Lists[v][i]))
    BY <2>1, <2>2, <2>4, <2>6, <2>7, SetIs
  <2>9. AsContents!Rotate(v, i)
    BY <2>8, ContentIs DEF AsContents!Rotate, Overwritten
  <2> QED BY <1>1, <1>3, <2>9, ContentIs DEF AsContents!Operation
<1>4. CASE v # w
  <2>1. PICK c, d : /\ c = Append(Lists[v], Lists[w][i])
                    /\ d = [Lists[w] EXCEPT ![i] = MovedFrom]
    OBVIOUS
  <2>2. Lists' = [x \in AliveVectors |->
                    IF x = w THEN d ELSE IF x = v THEN c ELSE Lists[x]]
    <3>1. Lists' = Extended(l, w, d) /\ DOMAIN l \cup {w} = AliveVectors
      BY <1>2, <1>4, <2>1 DEF Overwritten
    <3>2. \A x \in AliveVectors :
            (IF x = w THEN d ELSE l[x])
              = IF x = w THEN d ELSE IF x = v THEN c ELSE Lists[x]
      BY <1>2, <2>1
    <3> QED BY <3>1, <3>2 DEF Extended
  <2>3. [Lists EXCEPT ![v] = c, ![w] = d]
          = [x \in AliveVectors |->
               IF x = w THEN d ELSE IF x = v THEN c ELSE Lists[x]]
    BY <1>4, ListsAre
  <2>4. [Lists EXCEPT ![v] = Append(@, Lists[w][i]), ![w][i] = MovedFrom]
          = [Lists EXCEPT ![v] = c, ![w] = d]
    BY <1>4, <2>1, ListsAre
  <2>5. Lists' = [Lists EXCEPT ![v] = Append(@, Lists[w][i]),
                               ![w][i] = MovedFrom]
    BY <2>2, <2>3, <2>4
  <2>6. AsContents!TakeElement(v, w, i)
    BY <1>4, <2>5, ContentIs DEF AsContents!TakeElement, Lists
  <2> QED BY <1>1, <2>6, ContentIs DEF AsContents!Operation
<1> QED BY <1>3, <1>4
-----------------------------------------------------------------------------
(* Theorems *)

\* What the sequences do.
ListsStep == (\E v \in Vectors : AsContents!Operation(v)) \/ Lists' = Lists

LEMMA VectorInitHolds ==
  ASSUME VectorInit
  PROVE  VectorInv
<1>1. DOMAIN heap = {} /\ DOMAIN vec = {} /\ room = [v \in Vectors |-> 0]
  BY DEF VectorInit
<1>2. IsFiniteSet(DOMAIN heap)
  BY <1>1, FS_EmptySet
<1>3. Owned(heap, vec)
  BY <1>1, <1>2 DEF Owned, IsHeap
<1> QED BY <1>1, <1>3 DEF VectorInv, AliveVectors

LEMMA CallHolds ==
  ASSUME VectorInv, NEW v \in Vectors, Call(v)
  PROVE  VectorInv' /\ Kept /\ ListsStep
<1> DEFINE Result == VectorInv' /\ Kept /\ ListsStep
<1>1. ASSUME ConstructVector(v) PROVE Result
  <2>1. PICK n \in 0 .. MaxSize, e \in Elements \cup {Default} :
          Lists' = Extended(Lists, v, [i \in 1 .. n |-> e])
    BY <1>1, ConstructHolds
  <2>2. v \notin AliveVectors
    BY <1>1 DEF ConstructVector
  <2>3. AsContents!Operation(v)
    BY <2>1, <2>2, Makes
  <2> QED BY <1>1, <2>3, ConstructHolds DEF ListsStep
<1>2. ASSUME DestroyVector(v) PROVE Result
  <2>1. VectorInv' /\ Kept /\ v \in AliveVectors
        /\ Lists' = Restrict(Lists, AliveVectors \ {v})
    BY <1>2, DestroyHolds
  <2> QED BY <2>1, EndsOne DEF ListsStep
<1>3. ASSUME Clear(v) PROVE Result
  <2>1. VectorInv' /\ Kept /\ Lists' = Extended(Lists, v, <<>>)
    BY <1>3, ClearHolds
  <2>2. v \in AliveVectors
    BY <1>3 DEF Clear
  <2>3. CASE Lists[v] = <<>>
    BY <2>1, <2>2, <2>3, SameLists DEF ListsStep
  <2>4. CASE Lists[v] # <<>>
    <3>1. PICK c \in Seq(Objects) : c = <<>> /\ Len(c) = 0
      BY EmptySeq
    <3>2. Len(c) < Len(Lists[v])
      <4>1. Lists[v] \in Seq(Objects)
        BY <2>2, ListsSound
      <4> QED BY <2>4, <3>1, <4>1
    <3>3. Lists' = Extended(Lists, v, c) /\ \A i \in 1 .. Len(c) : c[i] = Lists[v][i]
      BY <2>1, <3>1
    <3> QED BY <2>1, <2>2, <3>2, <3>3, Truncates DEF ListsStep
  <2> QED BY <2>3, <2>4
<1>4. ASSUME ShrinkToFit(v) PROVE Result
  <2>1. VectorInv' /\ Kept /\ v \in AliveVectors
        /\ Lists' = Extended(Lists, v, Lists[v])
    BY <1>4, ShrinkHolds
  <2> QED BY <2>1, SameLists DEF ListsStep
<1>5. ASSUME PopBack(v) PROVE Result
  <2>1. /\ VectorInv' /\ Kept /\ v \in AliveVectors /\ Len(Lists[v]) > 0
        /\ \E c \in Seq(Objects) :
             /\ Lists' = Extended(Lists, v, c) /\ Len(c) = Len(Lists[v]) - 1
             /\ \A i \in 1 .. Len(c) : c[i] = Lists[v][i]
    BY <1>5, PopBackHolds
  <2>2. PICK c \in Seq(Objects) :
          /\ Lists' = Extended(Lists, v, c) /\ Len(c) = Len(Lists[v]) - 1
          /\ \A i \in 1 .. Len(c) : c[i] = Lists[v][i]
    BY <2>1
  <2>3. Len(c) < Len(Lists[v])
    BY <2>1, <2>2, ListsSound
  <2> QED BY <2>1, <2>2, <2>3, Truncates DEF ListsStep
<1>6. ASSUME NEW n \in Counts, Reserve(v, n) PROVE Result
  <2>1. VectorInv' /\ Kept /\ v \in AliveVectors
        /\ Lists' = Extended(Lists, v, Lists[v])
    BY <1>6, ReserveHolds
  <2> QED BY <2>1, SameLists DEF ListsStep
<1>7. ASSUME NEW n \in 0 .. MaxSize, NEW e \in Elements \cup {Default},
             Resize(v, n, e)
      PROVE  Result
  <2>1. /\ VectorInv' /\ Kept /\ v \in AliveVectors
        /\ \E c \in Seq(Objects) :
             /\ Lists' = Extended(Lists, v, c) /\ Len(c) = n
             /\ \A i \in 1 .. n :
                  c[i] = IF i <= Len(Lists[v]) THEN Lists[v][i] ELSE e
    BY <1>7, ResizeHolds
  <2>2. PICK c \in Seq(Objects) :
          /\ Lists' = Extended(Lists, v, c) /\ Len(c) = n
          /\ \A i \in 1 .. n :
               c[i] = IF i <= Len(Lists[v]) THEN Lists[v][i] ELSE e
    BY <2>1
  <2>3. PICK l \in Seq(Objects), m \in Nat :
          l = Lists[v] /\ m = Len(l) /\ n \in Nat /\ Len(c) = n
    BY <2>1, <2>2, ListsSound
  <2>4. CASE n < m
    <3>1. \A i \in 1 .. Len(c) : c[i] = Lists[v][i]
      BY <2>2, <2>3, <2>4
    <3>2. Len(c) < Len(Lists[v])
      BY <2>3, <2>4
    <3> QED BY <2>1, <2>2, <3>1, <3>2, Truncates DEF ListsStep
  <2>5. CASE n = m
    <3>1. c = l
      <4>1. \A i \in 1 .. n : c[i] = l[i]
        BY <2>2, <2>3, <2>5
      <4> QED BY <2>3, <2>5, <4>1, SeqEqual
    <3>2. Lists' = Extended(Lists, v, Lists[v])
      BY <2>2, <2>3, <3>1
    <3> QED BY <2>1, <3>2, SameLists DEF ListsStep
  <2>6. CASE m < n
    <3>1. Len(Lists[v]) < n
      BY <2>3, <2>6
    <3>2. AsContents!Operation(v)
      BY <2>1, <2>2, <3>1, ExtendsOne
    <3> QED BY <2>1, <3>2 DEF ListsStep
  <2> QED BY <2>3, <2>4, <2>5, <2>6
<1>8. ASSUME NEW e \in Elements, EmplaceBack(v, e) PROVE Result
  <2>1. /\ VectorInv' /\ Kept /\ v \in AliveVectors
        /\ Lists' = Extended(Lists, v, Append(Lists[v], e))
    BY <1>8, EmplaceBackHolds
  <2>2. e \in Objects
    BY DEF Objects
  <2> QED BY <2>1, <2>2, Appends DEF ListsStep
<1>9. ASSUME NEW e \in Elements, NEW i \in 1 .. MaxSize, Access(v, i, e)
      PROVE  Result
  <2>1. /\ VectorInv' /\ Kept /\ v \in AliveVectors /\ i \in 1 .. Len(Lists[v])
        /\ Lists' = Extended(Lists, v, Overwritten(Lists[v], i, e))
    BY <1>9, AccessHolds
  <2> QED BY <2>1, Assigns DEF ListsStep
<1>10. ASSUME NEW w \in Vectors, ConstructCopy(v, w) PROVE Result
  <2>1. VectorInv' /\ Kept /\ Lists' = Extended(Lists, v, Lists[w])
    BY <1>10, ConstructCopyHolds
  <2>2. w \in AliveVectors
    BY <1>10 DEF ConstructCopy
  <2> QED BY <2>1, <2>2, Copies DEF ListsStep
<1>11. ASSUME NEW w \in Vectors, AssignCopy(v, w) PROVE Result
  <2>1. VectorInv' /\ Kept /\ w \in AliveVectors
        /\ Lists' = Extended(Lists, v, Lists[w])
    BY <1>11, AssignCopyHolds
  <2> QED BY <2>1, Copies DEF ListsStep
<1>12. ASSUME NEW w \in Vectors, ConstructMove(v, w) PROVE Result
  <2>1. VectorInv' /\ Kept
        /\ Lists' = Extended(Extended(Lists, w, <<>>), v, Lists[w])
    BY <1>12, ConstructMoveHolds
  <2>2. w \in AliveVectors /\ v # w
    BY <1>12 DEF ConstructMove
  <2> QED BY <2>1, <2>2, Takes DEF ListsStep
<1>13. ASSUME NEW w \in Vectors, AssignMove(v, w) PROVE Result
  <2>1. VectorInv' /\ Kept
        /\ Lists' = Extended(Extended(Lists, w, <<>>), v, Lists[w])
    BY <1>13, AssignMoveHolds
  <2>2. w \in AliveVectors /\ v # w
    BY <1>13 DEF AssignMove
  <2> QED BY <2>1, <2>2, Takes DEF ListsStep
<1>14. ASSUME NEW w \in Vectors, NEW i \in 1 .. MaxSize, PushBackCopy(v, w, i)
       PROVE  Result
  <2>1. /\ VectorInv' /\ Kept /\ v \in AliveVectors
        /\ \E e \in Objects : Lists' = Extended(Lists, v, Append(Lists[v], e))
    BY <1>14, PushBackCopyHolds
  <2> QED BY <2>1, Appends DEF ListsStep
<1>15. ASSUME NEW w \in Vectors, NEW i \in 1 .. MaxSize, PushBackMove(v, w, i)
       PROVE  Result
  <2>1. /\ VectorInv' /\ Kept /\ v \in AliveVectors
        /\ \/ \E e \in Objects :
                Lists' = Extended(Lists, v, Append(Lists[v], e))
           \/ /\ w \in AliveVectors /\ i \in 1 .. Len(Lists[w])
              /\ LET l == Extended(Lists, v, Append(Lists[v], Lists[w][i]))
                 IN  Lists' = Extended(l, w, Overwritten(l[w], i, MovedFrom))
    BY <1>15, PushBackMoveHolds
  <2>2. CASE \E e \in Objects : Lists' = Extended(Lists, v, Append(Lists[v], e))
    BY <2>1, <2>2, Appends DEF ListsStep
  <2>3. CASE /\ w \in AliveVectors /\ i \in 1 .. Len(Lists[w])
             /\ LET l == Extended(Lists, v, Append(Lists[v], Lists[w][i]))
                IN  Lists' = Extended(l, w, Overwritten(l[w], i, MovedFrom))
    BY <2>1, <2>3, MovesOne DEF ListsStep
  <2> QED BY <2>1, <2>2, <2>3
<1> QED BY <1>1, <1>2, <1>3, <1>4, <1>5, <1>6, <1>7, <1>8, <1>9, <1>10, <1>11,
           <1>12, <1>13, <1>14, <1>15 DEF Call

LEMMA VectorStep ==
  ASSUME VectorInv, [VectorNext]_vectorVars
  PROVE  VectorInv' /\ Kept /\ ListsStep
<1>1. CASE VectorNext
  BY <1>1, CallHolds DEF VectorNext
<1>2. CASE UNCHANGED vectorVars
  <2>1. heap' = heap /\ vec' = vec /\ room' = room
    BY <1>2 DEF vectorVars
  <2>2. VectorInv'
    BY <2>1 DEF VectorInv, Owned, Sound, AliveVectors
  <2>3. Kept
    BY <2>1 DEF Kept
  <2>4. Lists' = Lists
    BY <2>1 DEF Lists, AliveVectors, Of
  <2> QED BY <2>2, <2>3, <2>4 DEF ListsStep
<1> QED BY <1>1, <1>2

LEMMA VectorInvariant == VectorSpec => []VectorInv
<1>1. VectorInit => VectorInv
  BY VectorInitHolds
<1>2. VectorInv /\ [VectorNext]_vectorVars => VectorInv'
  BY VectorStep
<1> QED BY <1>1, <1>2, PTL DEF VectorSpec

LEMMA StorageFollows == VectorInv => StorageExact
<1> SUFFICES ASSUME VectorInv PROVE StorageExact
  OBVIOUS
<1>1. ASSUME NEW v \in AliveVectors
      PROVE  /\ vec[v].data = Null => vec[v].cap = 0 /\ vec[v].size = 0
             /\ vec[v].data # Null =>
                  /\ DOMAIN heap[vec[v].data] = 1 .. vec[v].cap
                  /\ \A i \in 1 .. vec[v].cap :
                       (i <= vec[v].size) = (heap[vec[v].data][i] \in Objects)
  <2>1. PICK n, c, d : /\ n = vec[v].size /\ c = vec[v].cap /\ d = vec[v].data
                       /\ n \in Nat /\ c \in Nat /\ n <= c
                       /\ d = Null => c = 0
                       /\ d # Null => Holding(heap[d], n, c)
    BY SoundFields DEF VectorInv, Owned, AliveVectors
  <2>2. d = Null => n = 0
    BY <2>1
  <2>3. ASSUME d # Null
        PROVE  /\ DOMAIN heap[d] = 1 .. c
               /\ \A i \in 1 .. c : (i <= n) <=> (heap[d][i] \in Objects)
    BY <2>1, <2>3 DEF Holding
  <2>4. ASSUME d # Null, NEW i \in 1 .. c
        PROVE  (i <= n) = (heap[d][i] \in Objects)
    <3>1. (i <= n) <=> (heap[d][i] \in Objects)
      BY <2>3, <2>4
    <3> QED BY <3>1
  <2> QED BY <2>1, <2>2, <2>3, <2>4
<1>2. DOMAIN heap = {vec[v].data : v \in AliveVectors} \ {Null}
  BY DEF VectorInv, Owned, AliveVectors
<1>3. \A v \in AliveVectors : \A w \in AliveVectors \ {v} :
        vec[v].data # vec[w].data \/ vec[v].data = Null
  BY DEF VectorInv, Owned, AliveVectors
<1> QED BY <1>1, <1>2, <1>3 DEF StorageExact

\* Every array is owned by one vector, of as many cells as its capacity, the
\* first size of which hold objects, after any calls of reserve, resize,
\* push_back and the constructors and assignments of Vector.h: nothing leaks,
\* nothing is deleted twice and no raw cell is read as an element.
THEOREM StorageExactHolds == VectorSpec => []StorageExact
  BY VectorInvariant, StorageFollows, PTL

\* What reserve gave a vector (Vector.h, reserve) lasts until it holds that
\* many elements, however often it is pushed to; and shrink_to_fit leaves
\* less than half of the cells unused.
THEOREM CapacityKeptHolds == VectorSpec => CapacityKept
<1>1. VectorInv /\ [VectorNext]_vectorVars
        => [\A v \in AliveVectors \cap DOMAIN vec' :
              /\ vec[v].data # vec'[v].data
              /\ room'[v] = room[v] /\ room[v] > 0
              => vec[v].size >= room[v]]_vectorVars
  BY VectorStep DEF Kept
<1>2. VectorInv /\ [VectorNext]_vectorVars
        => [\A v \in AliveVectors :
              ShrinkToFit(v) =>
                vec'[v].cap <= Max({1, 2 * vec[v].size - 1})]_vectorVars
  BY ShrinkHolds, OfSound
<1>3. VectorSpec => ReserveKeeps
  BY <1>1, VectorInvariant, PTL DEF VectorSpec, ReserveKeeps
<1>4. VectorSpec => ShrinksEnough
  BY <1>2, VectorInvariant, PTL DEF VectorSpec, ShrinksEnough
<1> QED BY <1>3, <1>4 DEF CapacityKept

\* A vector is a sequence of its own: no call on another vector changes it,
\* whatever they share of the heap (Vector.h), unless the call moves its
\* elements away.
THEOREM ContentsRefined == VectorSpec => ContentsRefinement
<1>1. VectorInit => AsContents!Init
  <2>1. SUFFICES ASSUME VectorInit
                 PROVE  [v \in AliveVectors |-> Contents(Of(v))] = <<>>
    BY DEF AsContents!Init
  <2>2. AliveVectors = {}
    BY <2>1 DEF VectorInit, AliveVectors
  <2> QED BY <2>2
<1>2. VectorInv /\ [VectorNext]_vectorVars
        => [AsContents!Next]_([v \in AliveVectors |-> Contents(Of(v))])
  BY VectorStep DEF ListsStep, Lists, AsContents!Next
<1> QED BY <1>1, <1>2, VectorInvariant, PTL
        DEF VectorSpec, ContentsRefinement, AsContents!Spec

=============================================================================
