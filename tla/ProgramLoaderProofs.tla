------------------------ MODULE ProgramLoaderProofs ------------------------
(***************************************************************************)
(* ProgramLoader keeps its promises, for any files, sizes of pages and     *)
(* buffers, and numbers of frames and processes.  The inductive invariant  *)
(* says, beside the types, what is known of the file at each point of      *)
(* createProcess: which section headers info stands for, whose frames are  *)
(* written to, and how many bytes of each segment are in their place.      *)
(***************************************************************************)
EXTENDS ProgramLoader, FiniteSetTheorems, SequenceTheorems, TLAPS

-----------------------------------------------------------------------------
(* The inductive invariant *)

FrameNumbers == 0 .. NumFrames - 1
SectionInfo == [offset : Nat, size : Nat]
Infos == [text : SectionInfo, data : SectionInfo, bss : SectionInfo]
Tables == [text : Seq(FrameNumbers), data : Seq(FrameNumbers),
           stack : Seq(FrameNumbers)]
Slots == [table : Tables, info : Infos, live : BOOLEAN]

Types ==
  /\ mem \in [Addresses -> {Junk} \cup (Files \X Nat)]
  /\ procs \in Seq(Slots) /\ Len(procs) <= MaxProcs
  /\ freePids \in Seq(Nat)
  /\ at \in LoadLabels
  /\ file \in Files \cup {NoFile}
  /\ pos \in Nat /\ need \in Nat /\ out \in Nat /\ sec \in Nat /\ page \in Nat
  /\ info \in Infos
  /\ new \in [pid : 0 .. MaxProcs, table : Tables]

\* The table t has the pages of a program with the sections i.
Fits(t, i) == /\ Len(t.text) = Pages(i.text.size)
              /\ Len(t.data) = Pages(i.data.size + i.bss.size)

\* No frame is twice among those that are written to.
Apart(t) == /\ IsInjective(t.text) /\ IsInjective(t.data)
            /\ Range(t.text) \cap Range(t.data) = {}

ProcsInv == \A p \in 1 .. Len(procs) :
              procs[p].live => Fits(procs[p].table, procs[p].info)

Building == at \in {"totext", "text", "todata", "data", "finish"}

\* The frames of the new process are its own, and its PID is nobody's.
NewInv ==
  /\ at # "idle" => file \in Files /\ (Len(procs) < MaxProcs \/ freePids # <<>>)
  /\ Building =>
       /\ Fits(new.table, info)
       /\ Apart(new.table)
       /\ \A p \in 1 .. Len(procs) :
            FramesOf(procs[p].table) \cap FramesOf(new.table) = {}
       /\ new.pid = IF freePids = <<>> THEN Len(procs) + 1 ELSE Last(freePids)
  /\ ~Building => new = NotLoading

\* i has what the last of the first n sections of f with each name says.
Noted(f, n, i) ==
  \A s \in {"text", "data", "bss"} :
    LET named == {j \in 1 .. n : Layout[f].sections[j].name = s}
    IN  \/ named = {} /\ i[s] = [offset |-> 0, size |-> 0]
        \/ \E j \in named :
             /\ \A k \in named : k <= j
             /\ i[s] = [offset |-> Layout[f].sections[j].offset,
                        size |-> Layout[f].sections[j].size]

InfoInv ==
  /\ at = "idle" => need = 0
  /\ at \in {"idle", "header"} => sec = 0 /\ info = NoInfo
  /\ at = "shstr" => sec <= Len(Layout[file].sections) /\ Noted(file, sec, info)
  /\ at \in {"section", "name"} => /\ sec \in 1 .. Len(Layout[file].sections)
                                   /\ Noted(file, sec - 1, info)
  /\ Building => Noted(file, Len(Layout[file].sections), info)

\* Byte i of segment s of a program with the table t.
Place(t, s, i) == t[s][i \div PageSize + 1] * PageSize + (i % PageSize)

\* The first n bytes of s are in their place.
Copied(s, n) ==
  \A i \in 0 .. n - 1 : mem[Place(new.table, s, i)] = <<file, info[s].offset + i>>

\* How much of the page has been copied.
Got(s) == ReadAmount(s, page) - need

CopyInv ==
  /\ \A s \in Segments : at = s =>
       /\ page * PageSize < info[s].size
       /\ need <= ReadAmount(s, page)
       /\ out = new.table[s][page + 1] * PageSize + Got(s)
       /\ pos = info[s].offset + page * PageSize + Got(s)
       /\ Copied(s, page * PageSize + Got(s))
  /\ at \in {"todata", "data", "finish"} => Copied("text", info.text.size)
  /\ at = "finish" => Copied("data", info.data.size)

Inv == Types /\ ProcsInv /\ NewInv /\ InfoInv /\ CopyInv /\ PidsExact

-----------------------------------------------------------------------------
(* Pages *)

LEMMA SizesAreNat ==
  ASSUME LoaderAssumption
  PROVE  /\ PageSize \in Nat \ {0} /\ Chunk \in Nat \ {0}
         /\ Buffer \in Nat \ {0} /\ DataLimit \in Nat \ {0}
         /\ StackPages \in Nat /\ NumFrames \in Nat /\ MaxProcs \in Nat
BY DEF LoaderAssumption

LEMMA Divided ==
  ASSUME NEW a \in Nat, NEW b \in Nat \ {0}
  PROVE  /\ a % b \in 0 .. b - 1 /\ a \div b \in Nat
         /\ a = (a \div b) * b + (a % b)
<1>1. a % b \in 0 .. b - 1 /\ a \div b \in Int /\ a = (a \div b) * b + (a % b)
  BY Z3
<1>2. PICK q \in Int, r \in 0 .. b - 1 : q = a \div b /\ r = a % b
  BY <1>1
<1>3. CASE q <= -1
  <2>1. q * b <= -b
    BY <1>3, Z3
  <2> QED BY <2>1, <1>1, <1>2
<1> QED BY <1>1, <1>2, <1>3

\* Pages with different numbers do not overlap.
LEMMA Scaled ==
  ASSUME NEW c \in Nat, NEW a \in Nat, NEW b \in Nat, a < b
  PROVE  a * c + c <= b * c
<1>1. PICK d \in Nat : b = a + 1 + d
  <2>1. b - a - 1 \in Nat /\ b = a + 1 + (b - a - 1)
    OBVIOUS
  <2> QED BY <2>1
<1>2. b * c = a * c + c + d * c
  BY <1>1, Z3
<1>3. d * c >= 0
  BY <1>1, Z3
<1>4. a * c \in Nat /\ d * c \in Nat /\ b * c \in Nat
  BY <1>1
<1> QED BY <1>2, <1>3, <1>4

LEMMA OnePage ==
  ASSUME NEW c \in Nat \ {0}, NEW a \in Nat, NEW b \in Nat,
         NEW x \in 0 .. c - 1, NEW y \in 0 .. c - 1, a * c + x = b * c + y
  PROVE  a = b /\ x = y
<1>1. a * c \in Nat /\ b * c \in Nat
  OBVIOUS
<1>2. ~(a < b)
  <2> SUFFICES ASSUME a < b PROVE FALSE
    OBVIOUS
  <2>1. a * c + c <= b * c
    BY Scaled
  <2> QED BY <2>1, <1>1
<1>3. ~(b < a)
  <2> SUFFICES ASSUME b < a PROVE FALSE
    OBVIOUS
  <2>1. b * c + c <= a * c
    BY Scaled
  <2> QED BY <2>1, <1>1
<1>4. a = b
  BY <1>2, <1>3
<1> QED BY <1>4, <1>1

\* The page of a byte of a segment is one of those the segment has.
LEMMA PageWithin ==
  ASSUME LoaderAssumption, NEW size \in Nat, NEW i \in 0 .. size
  PROVE  /\ i \div PageSize \in Nat /\ i % PageSize \in 0 .. PageSize - 1
         /\ i = (i \div PageSize) * PageSize + (i % PageSize)
         /\ i \div PageSize + 1 \in 1 .. Pages(size)
         /\ Pages(size) \in Nat \ {0}
<1>1. PageSize \in Nat \ {0}
  BY SizesAreNat
<1>2. PICK q \in Nat, r \in 0 .. PageSize - 1 :
        q = i \div PageSize /\ r = i % PageSize /\ i = q * PageSize + r
  BY <1>1, Divided
<1>3. PICK t \in Nat, u \in 0 .. PageSize - 1 :
        t = size \div PageSize /\ size = t * PageSize + u
  BY <1>1, Divided
<1>4. q * PageSize \in Nat /\ t * PageSize \in Nat
  BY <1>1
<1>5. ~(t < q)
  <2> SUFFICES ASSUME t < q PROVE FALSE
    OBVIOUS
  <2>1. t * PageSize + PageSize <= q * PageSize
    BY <1>1, Scaled
  <2> QED BY <2>1, <1>1, <1>2, <1>3, <1>4
<1> QED BY <1>2, <1>3, <1>5 DEF Pages

\* More bytes do not need fewer pages.
LEMMA PagesGrow ==
  ASSUME LoaderAssumption, NEW m \in Nat, NEW n \in Nat, m <= n
  PROVE  Pages(m) <= Pages(n) /\ Pages(m) \in Nat /\ Pages(n) \in Nat
<1>1. m \in 0 .. n /\ m \in 0 .. m
  OBVIOUS
<1>2. m \div PageSize + 1 \in 1 .. Pages(n) /\ Pages(n) \in Nat
  BY <1>1, PageWithin
<1> QED BY <1>2 DEF Pages

-----------------------------------------------------------------------------
(* The lowest free frames *)

Rank(x, S) == Cardinality({y \in S : y < x})

LEMMA RankRange ==
  ASSUME NEW S \in SUBSET Int, IsFiniteSet(S), NEW x \in S
  PROVE  Rank(x, S) \in 0 .. Cardinality(S) - 1
<1>1. {y \in S : y < x} \in SUBSET (S \ {x})
  OBVIOUS
<1>2. IsFiniteSet(S \ {x}) /\ Cardinality(S \ {x}) = Cardinality(S) - 1
  BY FS_RemoveElement
<1>3. /\ IsFiniteSet({y \in S : y < x})
      /\ Cardinality({y \in S : y < x}) <= Cardinality(S) - 1
  BY <1>1, <1>2, FS_Subset
<1> QED BY <1>3, FS_CardinalityType DEF Rank

LEMMA RankGrows ==
  ASSUME NEW S \in SUBSET Int, IsFiniteSet(S), NEW x \in S, NEW y \in S, x < y
  PROVE  Rank(x, S) < Rank(y, S)
<1>1. x \in {z \in S : z < y}
  BY DEF Rank
<1>2. {z \in S : z < x} \in SUBSET ({z \in S : z < y} \ {x})
  <2>1. x \in Int /\ y \in Int /\ \A z \in S : z \in Int
    OBVIOUS
  <2>2. \A z \in S : z < x => z < y /\ z # x
    BY <2>1
  <2> QED BY <2>2
<1>3. IsFiniteSet({z \in S : z < x}) /\ IsFiniteSet({z \in S : z < y})
  BY FS_Subset
<1>4. /\ IsFiniteSet({z \in S : z < y} \ {x})
      /\ Cardinality({z \in S : z < y} \ {x}) = Rank(y, S) - 1
  BY <1>1, <1>3, FS_RemoveElement DEF Rank
<1>5. Rank(x, S) <= Rank(y, S) - 1
  BY <1>2, <1>4, FS_Subset DEF Rank
<1>6. Rank(x, S) \in Nat /\ Rank(y, S) \in Nat
  BY <1>3, FS_CardinalityType DEF Rank
<1> QED BY <1>5, <1>6

\* There is an element of each rank.
LEMMA RankExists ==
  ASSUME NEW S \in SUBSET Int, IsFiniteSet(S),
         NEW k \in 0 .. Cardinality(S) - 1
  PROVE  \E x \in S : Rank(x, S) = k
<1> DEFINE R == [x \in S |-> Rank(x, S)]
           T == 0 .. Cardinality(S) - 1
<1>1. Cardinality(S) \in Nat
  BY FS_CardinalityType
<1>2. IsFiniteSet(T) /\ Cardinality(T) = Cardinality(S)
  BY <1>1, FS_Interval
<1>3. R \in [S -> T]
  BY RankRange
<1>4. ASSUME NEW x \in S, NEW y \in S, Rank(x, S) = Rank(y, S)
      PROVE  x = y
  <2>1. x < y => Rank(x, S) < Rank(y, S)
    BY RankGrows
  <2>2. y < x => Rank(y, S) < Rank(x, S)
    BY RankGrows
  <2>3. Rank(x, S) \in Int /\ Rank(y, S) \in Int /\ x \in Int /\ y \in Int
    BY <1>1, RankRange
  <2> QED BY <1>4, <2>1, <2>2, <2>3
<1>5. R \in Injection(S, T)
  BY <1>3, <1>4 DEF Injection, IsInjective
<1>6. R \in Surjection(S, T)
  BY <1>2, <1>5, FS_Injection
<1> QED BY <1>6 DEF Surjection

\* n free frames, if there are as many.
LEMMA LowestFresh ==
  ASSUME LoaderAssumption, NEW S \in SUBSET FrameNumbers, NEW n \in Nat,
         n + Cardinality(S) <= NumFrames
  PROVE  /\ Lowest(n, S) \in Seq(FrameNumbers) /\ Len(Lowest(n, S)) = n
         /\ IsInjective(Lowest(n, S))
         /\ Range(Lowest(n, S)) \cap S = {}
         /\ Range(Lowest(n, S)) \in SUBSET FrameNumbers
         /\ Cardinality(S \cup Range(Lowest(n, S))) <= Cardinality(S) + n
         /\ Cardinality(S) \in Nat
         /\ Cardinality(S \cup Range(Lowest(n, S))) \in Nat
<1> DEFINE free == FrameNumbers \ S
           F(i) == CHOOSE f \in free : Rank(f, free) = i - 1
           L == Lowest(n, S)
<1>1. NumFrames \in Nat
  BY SizesAreNat
<1>2. /\ IsFiniteSet(FrameNumbers) /\ Cardinality(FrameNumbers) = NumFrames
      /\ FrameNumbers \in SUBSET Int
  <2>1. /\ IsFiniteSet(0 .. NumFrames - 1)
        /\ Cardinality(0 .. NumFrames - 1) = IF 0 > NumFrames - 1 THEN 0
                                             ELSE NumFrames - 1 - 0 + 1
    BY <1>1, FS_Interval
  <2>2. Cardinality(0 .. NumFrames - 1) = NumFrames
    BY <1>1, <2>1
  <2>3. 0 .. NumFrames - 1 \in SUBSET Int
    OBVIOUS
  <2> QED BY <2>1, <2>2, <2>3 DEF FrameNumbers
<1>3. IsFiniteSet(S) /\ IsFiniteSet(free) /\ Cardinality(S) \in Nat
  BY <1>2, FS_Subset, FS_CardinalityType
<1>4. Cardinality(free) = NumFrames - Cardinality(S)
  <2>1. Cardinality(free)
          = Cardinality(FrameNumbers) - Cardinality(FrameNumbers \cap S)
    BY <1>2, <1>3, FS_Difference
  <2>2. FrameNumbers \cap S = S
    OBVIOUS
  <2> QED BY <2>1, <2>2, <1>2
<1>5. ASSUME NEW i \in 1 .. n PROVE F(i) \in free /\ Rank(F(i), free) = i - 1
  <2>1. i - 1 \in 0 .. Cardinality(free) - 1
    BY <1>1, <1>3, <1>4
  <2>2. \E f \in free : Rank(f, free) = i - 1
    BY <2>1, <1>2, <1>3, RankExists
  <2> QED BY <2>2
<1>6. L = [i \in 1 .. n |-> F(i)]
  BY DEF Lowest, Rank, FrameNumbers
<1> HIDE DEF F, L
<1>7. L \in [1 .. n -> free]
  BY <1>5, <1>6
<1>8. L \in Seq(FrameNumbers) /\ Len(L) = n /\ DOMAIN L = 1 .. n
  BY <1>7
<1>9. IsInjective(L)
  <2>1. ASSUME NEW i \in 1 .. n, NEW j \in 1 .. n, L[i] = L[j] PROVE i = j
    <3>1. Rank(F(i), free) = i - 1 /\ Rank(F(j), free) = j - 1 /\ F(i) = F(j)
      BY <2>1, <1>5, <1>6
    <3> QED BY <3>1
  <2> QED BY <2>1, <1>8 DEF IsInjective
<1>10. Range(L) \in SUBSET free
  BY <1>7 DEF Range
<1>11. IsFiniteSet(Range(L)) /\ Cardinality(Range(L)) <= n
  <2>1. IsFiniteSet(1 .. n) /\ Cardinality(1 .. n) = n
    BY FS_Interval
  <2>2. L \in Surjection(1 .. n, Range(L))
    BY <1>7, <1>8 DEF Surjection, Range
  <2> QED BY <2>1, <2>2, FS_Surjection
<1>12. Cardinality(S \cup Range(L)) = Cardinality(S) + Cardinality(Range(L)) - 0
  <2>1. S \cap Range(L) = {}
    BY <1>10
  <2>2. Cardinality(S \cap Range(L)) = 0
    BY <2>1, FS_EmptySet
  <2>3. Cardinality(S \cup Range(L)) = Cardinality(S) + Cardinality(Range(L))
                                         - Cardinality(S \cap Range(L))
    BY <1>3, <1>11, FS_Union
  <2> QED BY <2>2, <2>3
<1>13. Cardinality(Range(L)) \in Nat
  BY <1>11, FS_CardinalityType
<1> QED BY <1>3, <1>8, <1>9, <1>10, <1>11, <1>12, <1>13 DEF L

-----------------------------------------------------------------------------
(* Tables *)

LEMMA FramesTyped ==
  ASSUME NEW t \in Tables
  PROVE  FramesOf(t) \in SUBSET FrameNumbers
<1>1. /\ t.text \in Seq(FrameNumbers) /\ t.data \in Seq(FrameNumbers)
      /\ t.stack \in Seq(FrameNumbers)
  BY DEF Tables
<1>2. \A l \in Seq(FrameNumbers) : Range(l) \in SUBSET FrameNumbers
  BY DEF Range
<1> QED BY <1>1, <1>2 DEF FramesOf

LEMMA NoFrames == FramesOf(None) = {} /\ None \in Tables
<1>1. None.text = <<>> /\ None.data = <<>> /\ None.stack = <<>>
  BY DEF None
<1>2. Range(<<>>) = {}
  BY DEF Range
<1> QED BY <1>1, <1>2 DEF FramesOf, None, Tables

LEMMA ProcTyped ==
  ASSUME Types, NEW p \in 1 .. Len(procs)
  PROVE  /\ procs[p] \in Slots /\ procs[p].table \in Tables
         /\ procs[p].info \in Infos /\ procs[p].live \in BOOLEAN
<1>1. procs[p] \in Slots
  BY ElementOfSeq DEF Types
<1> QED BY <1>1 DEF Slots

LEMMA SizesTyped ==
  ASSUME NEW i \in Infos
  PROVE  /\ i.text.size \in Nat /\ i.data.size \in Nat /\ i.bss.size \in Nat
         /\ i.text.offset \in Nat /\ i.data.offset \in Nat
         /\ \A s \in Segments : i[s].size \in Nat /\ i[s].offset \in Nat
BY DEF Infos, SectionInfo, Segments

\* HashPageTable finds frames of its own, if there are enough.
LEMMA NewTableFits ==
  ASSUME LoaderAssumption, Types, new = NotLoading, Enough(info)
  PROVE  /\ NewTable(info) \in Tables
         /\ Fits(NewTable(info), info)
         /\ Apart(NewTable(info))
         /\ \A p \in 1 .. Len(procs) :
              FramesOf(procs[p].table) \cap FramesOf(NewTable(info)) = {}
<1>1. Reserved \in SUBSET FrameNumbers
  <2>1. FramesOf(new.table) = {}
    BY NoFrames DEF NotLoading
  <2>2. \A p \in 1 .. Len(procs) : FramesOf(procs[p].table) \in SUBSET FrameNumbers
    BY ProcTyped, FramesTyped
  <2> QED BY <2>1, <2>2 DEF Reserved
<1>2. /\ info.text.size \in Nat /\ info.data.size \in Nat
      /\ info.bss.size \in Nat /\ info.data.size + info.bss.size \in Nat
  BY SizesTyped DEF Types
<1>3. PICK n \in Nat, m \in Nat :
        n = Pages(info.text.size) /\ m = Pages(info.data.size + info.bss.size)
  BY <1>2, PagesGrow
<1>4. StackPages \in Nat /\ NumFrames \in Nat
  BY SizesAreNat
<1>5. n + m + StackPages + Cardinality(Reserved) <= NumFrames
  BY <1>3 DEF Enough
<1>6. IsFiniteSet(Reserved) /\ Cardinality(Reserved) \in Nat
  <2>1. IsFiniteSet(FrameNumbers)
    BY <1>4, FS_Interval DEF FrameNumbers
  <2> QED BY <1>1, <2>1, FS_Subset, FS_CardinalityType
<1>7. PICK text : text = Lowest(n, Reserved)
  OBVIOUS
<1>8. /\ text \in Seq(FrameNumbers) /\ Len(text) = n /\ IsInjective(text)
      /\ Range(text) \cap Reserved = {}
      /\ Range(text) \in SUBSET FrameNumbers
      /\ Cardinality(Reserved \cup Range(text)) <= Cardinality(Reserved) + n
      /\ Cardinality(Reserved \cup Range(text)) \in Nat
  BY <1>1, <1>4, <1>5, <1>6, <1>7, LowestFresh
<1>9. PICK used \in SUBSET FrameNumbers : used = Reserved \cup Range(text)
  BY <1>1, <1>8
<1>10. PICK data : data = Lowest(m, used)
  OBVIOUS
<1>11. /\ data \in Seq(FrameNumbers) /\ Len(data) = m /\ IsInjective(data)
       /\ Range(data) \cap used = {}
       /\ Range(data) \in SUBSET FrameNumbers
       /\ Cardinality(used \cup Range(data)) <= Cardinality(used) + m
       /\ Cardinality(used \cup Range(data)) \in Nat
       /\ Cardinality(used) \in Nat
  <2>1. m + Cardinality(used) <= NumFrames
    BY <1>4, <1>5, <1>6, <1>8, <1>9
  <2> QED BY <2>1, <1>10, LowestFresh
<1>12. PICK stack : stack = Lowest(StackPages, used \cup Range(data))
  OBVIOUS
<1>13. /\ stack \in Seq(FrameNumbers)
       /\ Range(stack) \cap (used \cup Range(data)) = {}
  <2>1. StackPages + Cardinality(used \cup Range(data)) <= NumFrames
    BY <1>4, <1>5, <1>6, <1>8, <1>9, <1>11
  <2>2. used \cup Range(data) \in SUBSET FrameNumbers
    BY <1>11
  <2> QED BY <2>1, <2>2, <1>4, <1>12, LowestFresh
<1>14. NewTable(info) = [text |-> text, data |-> data, stack |-> stack]
  BY <1>3, <1>7, <1>9, <1>10, <1>12 DEF NewTable
<1>15. /\ NewTable(info).text = text /\ NewTable(info).data = data
       /\ NewTable(info).stack = stack
  BY <1>14
<1>16. NewTable(info) \in Tables
  BY <1>8, <1>11, <1>13, <1>14 DEF Tables
<1>17. Fits(NewTable(info), info)
  BY <1>3, <1>8, <1>11, <1>15 DEF Fits
<1>18. Apart(NewTable(info))
  BY <1>8, <1>9, <1>11, <1>15 DEF Apart
<1>19. ASSUME NEW p \in 1 .. Len(procs)
       PROVE  FramesOf(procs[p].table) \cap FramesOf(NewTable(info)) = {}
  <2>1. FramesOf(procs[p].table) \in SUBSET Reserved
    BY DEF Reserved
  <2>2. FramesOf(NewTable(info)) = Range(text) \cup Range(data) \cup Range(stack)
    BY <1>15 DEF FramesOf
  <2> QED BY <2>1, <2>2, <1>8, <1>9, <1>11, <1>13
<1> QED BY <1>16, <1>17, <1>18, <1>19

\* Where a byte of a segment is.
LEMMA PlaceIn ==
  ASSUME LoaderAssumption, NEW t \in Tables, NEW i \in Infos, Fits(t, i),
         NEW s \in Segments, NEW k \in Nat, k < i[s].size
  PROVE  /\ k \div PageSize \in Nat /\ k % PageSize \in 0 .. PageSize - 1
         /\ k = (k \div PageSize) * PageSize + (k % PageSize)
         /\ k \div PageSize + 1 \in 1 .. Len(t[s]) /\ t[s] \in Seq(FrameNumbers)
         /\ t[s][k \div PageSize + 1] \in Range(t[s])
         /\ t[s][k \div PageSize + 1] \in FrameNumbers
         /\ Range(t[s]) \in SUBSET FramesOf(t)
<1>1. i[s].size \in Nat /\ k \in 0 .. i[s].size
  BY SizesTyped
<1>2. /\ k \div PageSize \in Nat /\ k % PageSize \in 0 .. PageSize - 1
      /\ k = (k \div PageSize) * PageSize + (k % PageSize)
      /\ k \div PageSize + 1 \in 1 .. Pages(i[s].size)
      /\ Pages(i[s].size) \in Nat \ {0}
  BY <1>1, PageWithin
<1>3. t[s] \in Seq(FrameNumbers) /\ Pages(i[s].size) <= Len(t[s])
      /\ Range(t[s]) \in SUBSET FramesOf(t)
  <2>1. CASE s = "text"
    BY <2>1, <1>2 DEF Fits, Tables, FramesOf
  <2>2. CASE s = "data"
    <3>1. Pages(i.data.size) <= Pages(i.data.size + i.bss.size)
      <4>1. i.data.size \in Nat /\ i.bss.size \in Nat
        BY SizesTyped
      <4> QED BY <4>1, PagesGrow
    <3> QED BY <2>2, <3>1 DEF Fits, Tables, FramesOf
  <2> QED BY <2>1, <2>2 DEF Segments
<1>4. k \div PageSize + 1 \in 1 .. Len(t[s])
  BY <1>2, <1>3
<1>5. t[s][k \div PageSize + 1] \in FrameNumbers
  BY <1>3, <1>4, ElementOfSeq
<1>6. t[s][k \div PageSize + 1] \in Range(t[s])
  BY <1>3, <1>4 DEF Range
<1> QED BY <1>2, <1>3, <1>4, <1>5, <1>6

LEMMA InMemory ==
  ASSUME LoaderAssumption, NEW f \in FrameNumbers, NEW r \in 0 .. PageSize - 1
  PROVE  f * PageSize + r \in Addresses
<1>1. PageSize \in Nat \ {0} /\ NumFrames \in Nat /\ f \in Nat /\ f < NumFrames
  BY SizesAreNat DEF FrameNumbers
<1>2. f * PageSize + PageSize <= NumFrames * PageSize
  BY <1>1, Scaled
<1>3. f * PageSize \in Nat /\ NumFrames * PageSize \in Nat
  BY <1>1
<1> QED BY <1>1, <1>2, <1>3 DEF Addresses

-----------------------------------------------------------------------------
(* Reading *)

LEMMA SmallestOfTwo ==
  ASSUME NEW a \in Int, NEW b \in Int
  PROVE  Smallest({a, b}) = IF a <= b THEN a ELSE b
<1>1. \A n \in {a, b} :
        (\A k \in {a, b} : n <= k) => n = IF a <= b THEN a ELSE b
  OBVIOUS
<1>2. \E n \in {a, b} : \A k \in {a, b} : n <= k
  OBVIOUS
<1> QED BY <1>1, <1>2 DEF Smallest

\* No read asks for more than what is left to read.
LEMMA AskedWithin ==
  ASSUME LoaderAssumption, Types, need > 0
  PROVE  Asked \in Nat \ {0} /\ Asked <= need
<1>1. need \in Nat \ {0} /\ Chunk \in Nat \ {0} /\ Buffer \in Nat \ {0}
  BY SizesAreNat DEF Types
<1>2. PICK S \in SUBSET (Nat \ {0}) :
        /\ S = {need, Chunk} \cup (IF Copying THEN {Buffer} ELSE {})
        /\ need \in S
        /\ \E n \in S : \A k \in S : n <= k
  <2>1. CASE Copying
    <3>1. \E n \in {need, Chunk, Buffer} :
            \A k \in {need, Chunk, Buffer} : n <= k
      <4>1. CASE need <= Chunk /\ need <= Buffer
        BY <4>1, <1>1
      <4>2. CASE Chunk <= need /\ Chunk <= Buffer
        BY <4>2, <1>1
      <4>3. CASE Buffer <= need /\ Buffer <= Chunk
        BY <4>3, <1>1
      <4> QED BY <1>1, <4>1, <4>2, <4>3
    <3>2. {need, Chunk, Buffer}
            = {need, Chunk} \cup (IF Copying THEN {Buffer} ELSE {})
      BY <2>1
    <3> QED BY <3>1, <3>2, <1>1
  <2>2. CASE ~Copying
    <3>1. \E n \in {need, Chunk} : \A k \in {need, Chunk} : n <= k
      BY <1>1
    <3>2. {need, Chunk} = {need, Chunk} \cup (IF Copying THEN {Buffer} ELSE {})
      BY <2>2
    <3> QED BY <3>1, <3>2, <1>1
  <2> QED BY <2>1, <2>2
<1>3. Smallest(S) \in S /\ Smallest(S) <= need
  BY <1>2 DEF Smallest
<1>4. Asked = Smallest(S)
  BY <1>2 DEF Asked
<1> QED BY <1>2, <1>3, <1>4

\* What a read brings.
LEMMA Brought ==
  ASSUME LoaderAssumption, Types, file \in Files, need > 0, Available > 0,
         NEW got \in 1 .. Smallest({Asked, Available})
  PROVE  got \in Nat \ {0} /\ got <= need
<1>1. Asked \in Nat \ {0} /\ Asked <= need /\ need \in Nat
  BY AskedWithin DEF Types
<1>2. Available \in Int
  BY DEF Available, LoaderAssumption, Types
<1>3. Smallest({Asked, Available}) \in Int /\ Smallest({Asked, Available}) <= Asked
  BY <1>1, <1>2, SmallestOfTwo
<1> QED BY <1>1, <1>3

LEMMA AmountIs ==
  ASSUME LoaderAssumption, Types, NEW s \in Segments, NEW p \in Nat,
         p * PageSize < info[s].size
  PROVE  /\ p * PageSize \in Nat
         /\ ReadAmount(s, p) \in 1 .. PageSize
         /\ p * PageSize + ReadAmount(s, p) <= info[s].size
         /\ ReadAmount(s, p) = PageSize
              \/ p * PageSize + ReadAmount(s, p) = info[s].size
<1>1. PageSize \in Nat \ {0} /\ info[s].size \in Nat
  BY SizesAreNat, SizesTyped DEF Types
<1>2. PICK q \in Nat : q = p * PageSize
  BY <1>1
<1>3. PICK d \in Int : d = info[s].size - q /\ d > 0
  BY <1>1, <1>2
<1>4. ReadAmount(s, p) = IF d <= PageSize THEN d ELSE PageSize
  BY <1>1, <1>2, <1>3, SmallestOfTwo DEF ReadAmount
<1> QED BY <1>1, <1>2, <1>3, <1>4

\* Only the frame f is written to.
Only(f) ==
  \A h \in FrameNumbers, r \in 0 .. PageSize - 1 :
    h # f => mem'[h * PageSize + r] = mem[h * PageSize + r]

\* The bytes of a segment that has no part in f stay.
LEMMA SegmentKept ==
  ASSUME LoaderAssumption, NEW t \in Tables, NEW i \in Infos, Fits(t, i),
         NEW s \in Segments, NEW f, f \notin Range(t[s]), Only(f),
         NEW k \in Nat, k < i[s].size
  PROVE  mem'[Place(t, s, k)] = mem[Place(t, s, k)]
<1>1. /\ k % PageSize \in 0 .. PageSize - 1
      /\ t[s][k \div PageSize + 1] \in FrameNumbers
      /\ t[s][k \div PageSize + 1] # f
  BY PlaceIn
<1> QED BY <1>1 DEF Only, Place

\* stream_copy_to writes the next bytes of the page.
LEMMA Written ==
  ASSUME LoaderAssumption, Types, file \in Files,
         NEW f \in FrameNumbers, NEW g \in Nat, NEW got \in Nat \ {0},
         g + got <= PageSize, out = f * PageSize + g,
         mem' = [a \in Addresses |->
                   IF a \in out .. out + got - 1
                     THEN <<file, pos + (a - out)>> ELSE mem[a]]
  PROVE  /\ mem' \in [Addresses -> {Junk} \cup (Files \X Nat)]
         /\ Only(f)
         /\ \A r \in 0 .. g - 1 :
              mem'[f * PageSize + r] = mem[f * PageSize + r]
         /\ \A r \in g .. g + got - 1 :
              mem'[f * PageSize + r] = <<file, pos + (r - g)>>
<1>1. PageSize \in Nat \ {0} /\ f \in Nat /\ pos \in Nat
  BY SizesAreNat DEF FrameNumbers, Types
<1>2. PICK b \in Nat : b = f * PageSize
  BY <1>1
<1>3. mem' \in [Addresses -> {Junk} \cup (Files \X Nat)]
  <2>1. ASSUME NEW a \in out .. out + got - 1
        PROVE  <<file, pos + (a - out)>> \in Files \X Nat
    <3>1. out \in Nat
      BY <1>2
    <3>2. pos + (a - out) \in Nat
      BY <1>1, <3>1
    <3> QED BY <3>2
  <2> QED BY <2>1 DEF Types
<1>4. ASSUME NEW h \in FrameNumbers, NEW r \in 0 .. PageSize - 1, h # f
      PROVE  mem'[h * PageSize + r] = mem[h * PageSize + r]
  <2>1. h \in Nat
    BY DEF FrameNumbers
  <2>2. h * PageSize + r \in Addresses
    BY InMemory
  <2>3. PICK a \in Nat : a = h * PageSize + r
    BY <1>1, <2>1
  <2>4. a \notin out .. out + got - 1
    <3> SUFFICES ASSUME a \in out .. out + got - 1 PROVE FALSE
      OBVIOUS
    <3>1. PICK x \in 0 .. PageSize - 1 : x = a - b
      <4>1. a - b \in 0 .. PageSize - 1
        BY <1>1, <1>2
      <4> QED BY <4>1
    <3>2. h * PageSize + r = f * PageSize + x
      BY <3>1, <2>3, <1>2
    <3>3. h = f
      BY <3>2, <2>1, <1>1, OnePage
    <3> QED BY <3>3, <1>4
  <2> QED BY <2>2, <2>3, <2>4
<1>5. ASSUME NEW r \in 0 .. PageSize - 1
      PROVE  f * PageSize + r \in Addresses /\ f * PageSize + r = b + r
  BY <1>2, InMemory
<1>6. ASSUME NEW r \in 0 .. g - 1
      PROVE  mem'[f * PageSize + r] = mem[f * PageSize + r]
  <2>1. r \in 0 .. PageSize - 1 /\ b + r \notin out .. out + got - 1
    BY <1>1, <1>2
  <2> QED BY <2>1, <1>5
<1>7. ASSUME NEW r \in g .. g + got - 1
      PROVE  mem'[f * PageSize + r] = <<file, pos + (r - g)>>
  <2>1. r \in 0 .. PageSize - 1 /\ b + r \in out .. out + got - 1
        /\ (b + r) - out = r - g
    BY <1>1, <1>2
  <2> QED BY <2>1, <1>5
<1> QED BY <1>3, <1>4, <1>6, <1>7 DEF Only

LEMMA WhileBuilding ==
  ASSUME Inv, Building
  PROVE  /\ file \in Files /\ new.table \in Tables /\ info \in Infos
         /\ Fits(new.table, info) /\ Apart(new.table)
         /\ new.pid = IF freePids = <<>> THEN Len(procs) + 1 ELSE Last(freePids)
         /\ Len(procs) < MaxProcs \/ freePids # <<>>
         /\ \A p \in 1 .. Len(procs) :
              FramesOf(procs[p].table) \cap FramesOf(new.table) = {}
<1>1. at # "idle"
  BY DEF Building
<1> QED BY <1>1 DEF Inv, NewInv, Types

\* The page that is copied to has a frame.
LEMMA PageFrame ==
  ASSUME LoaderAssumption, Inv, NEW s \in Segments, at = s
  PROVE  /\ page + 1 \in 1 .. Len(new.table[s])
         /\ new.table[s] \in Seq(FrameNumbers)
         /\ new.table[s][page + 1] \in FrameNumbers
         /\ new.table[s][page + 1] \in Range(new.table[s])
         /\ Range(new.table[s]) \in SUBSET FramesOf(new.table)
<1>1. /\ page \in Nat /\ page * PageSize < info[s].size
      /\ PageSize \in Nat \ {0} /\ page * PageSize \in Nat
  BY SizesAreNat DEF Inv, CopyInv, Types
<1>2. Building
  BY DEF Building, Segments
<1>3. PICK k \in Nat : k = page * PageSize
  BY <1>1
<1>4. k \div PageSize = page
  <2>1. PICK q \in Nat, r \in 0 .. PageSize - 1 :
          q = k \div PageSize /\ k = q * PageSize + r
    BY <1>1, Divided
  <2>2. q * PageSize + r = page * PageSize + 0 /\ 0 \in 0 .. PageSize - 1
    <3>1. k + 0 = k /\ 0 \in 0 .. PageSize - 1
      BY <1>1
    <3> QED BY <3>1, <2>1, <1>3
  <2>3. q = page
    BY <2>2, <1>1, OnePage
  <2> QED BY <2>1, <2>3
<1>5. k < info[s].size
  BY <1>1, <1>3
<1>6. Fits(new.table, info) /\ new.table \in Tables /\ info \in Infos
  BY <1>2, WhileBuilding
<1> QED BY <1>4, <1>5, <1>6, PlaceIn

\* A read into memory: it goes to one frame of the new process, and what has
\* been copied of the segment has grown by what was read.
LEMMA CopyStep ==
  ASSUME LoaderAssumption, Inv, NEW s \in Segments, at = s, ReadSome
  PROVE  /\ mem' \in [Addresses -> {Junk} \cup (Files \X Nat)]
         /\ new.table[s][page + 1] \in Range(new.table[s])
         /\ Only(new.table[s][page + 1])
         /\ pos' \in Nat /\ out' \in Nat /\ need' \in Nat
         /\ need' <= ReadAmount(s, page)
         /\ out' = new.table[s][page + 1] * PageSize
                     + (ReadAmount(s, page) - need')
         /\ pos' = info[s].offset + page * PageSize
                     + (ReadAmount(s, page) - need')
         /\ \A i \in 0 .. page * PageSize + (ReadAmount(s, page) - need') - 1 :
              mem'[Place(new.table, s, i)] = <<file, info[s].offset + i>>
<1>1. /\ page \in Nat /\ need \in Nat /\ out \in Nat /\ pos \in Nat
      /\ info \in Infos /\ info[s].size \in Nat /\ info[s].offset \in Nat
      /\ PageSize \in Nat \ {0}
  BY SizesAreNat, SizesTyped DEF Inv, Types
<1>2. /\ page * PageSize < info[s].size
      /\ need <= ReadAmount(s, page)
      /\ out = new.table[s][page + 1] * PageSize + Got(s)
      /\ pos = info[s].offset + page * PageSize + Got(s)
      /\ Copied(s, page * PageSize + Got(s))
  BY DEF Inv, CopyInv
<1>3. PICK base \in Nat, amount \in 1 .. PageSize :
        /\ base = page * PageSize /\ amount = ReadAmount(s, page)
        /\ base + amount <= info[s].size
  BY <1>1, <1>2, AmountIs DEF Inv
<1>4. Building /\ Copying
  BY DEF Building, Segments, Copying
<1>5. /\ file \in Files /\ new.table \in Tables /\ Fits(new.table, info)
      /\ IsInjective(new.table[s])
  <2>1. IsInjective(new.table.text) /\ IsInjective(new.table.data)
    BY <1>4, WhileBuilding DEF Apart
  <2> QED BY <2>1, <1>4, WhileBuilding DEF Segments
<1>6. PICK f \in FrameNumbers :
        /\ f = new.table[s][page + 1] /\ f \in Range(new.table[s])
        /\ page + 1 \in 1 .. Len(new.table[s])
        /\ new.table[s] \in Seq(FrameNumbers)
  BY PageFrame
<1>7. PICK got \in 1 .. Smallest({Asked, Available}) :
        /\ need > 0 /\ Available > 0
        /\ pos' = pos + got /\ need' = need - got /\ out' = out + got
        /\ mem' = [a \in Addresses |->
                     IF a \in out .. out + got - 1
                       THEN <<file, pos + (a - out)>> ELSE mem[a]]
  BY <1>4 DEF ReadSome
<1>8. got \in Nat \ {0} /\ got <= need
  BY <1>5, <1>7, Brought DEF Inv
<1>9. PICK g \in Nat : g = amount - need /\ g = Got(s)
  <2>1. Got(s) = amount - need /\ amount - need \in Nat
    BY <1>1, <1>2, <1>3 DEF Got
  <2> QED BY <2>1
<1>10. g + got <= amount /\ g + got <= PageSize /\ amount - need' = g + got
  BY <1>1, <1>3, <1>7, <1>8, <1>9
<1>11. out = f * PageSize + g
  BY <1>2, <1>6, <1>9
<1>12. /\ mem' \in [Addresses -> {Junk} \cup (Files \X Nat)]
       /\ Only(f)
       /\ \A r \in 0 .. g - 1 :
            mem'[f * PageSize + r] = mem[f * PageSize + r]
       /\ \A r \in g .. g + got - 1 :
            mem'[f * PageSize + r] = <<file, pos + (r - g)>>
  BY <1>5, <1>7, <1>8, <1>10, <1>11, Written DEF Inv
<1>13. pos = info[s].offset + base + g
  BY <1>2, <1>3, <1>9
<1>14. ASSUME NEW i \in 0 .. base + (g + got) - 1
       PROVE  mem'[Place(new.table, s, i)] = <<file, info[s].offset + i>>
  <2>1. i \in Nat /\ i < info[s].size
    BY <1>1, <1>3, <1>8, <1>9, <1>10
  <2>2. PICK k \in Nat, r \in 0 .. PageSize - 1 :
          /\ k = i \div PageSize /\ r = i % PageSize
          /\ i = k * PageSize + r
          /\ k + 1 \in 1 .. Len(new.table[s])
          /\ new.table[s][k + 1] \in FrameNumbers
    BY <2>1, <1>1, <1>5, PlaceIn
  <2>3. Place(new.table, s, i) = new.table[s][k + 1] * PageSize + r
    BY <2>2 DEF Place
  <2>4. i \in 0 .. base + g - 1
          => mem[Place(new.table, s, i)] = <<file, info[s].offset + i>>
    BY <1>2, <1>3, <1>9 DEF Copied
  <2>5. CASE k = page
    <3>1. i = base + r
      BY <2>2, <2>5, <1>3
    <3>2. r < g + got
      BY <3>1, <1>3, <1>8
    <3>3. Place(new.table, s, i) = f * PageSize + r
      BY <2>3, <2>5, <1>6
    <3>4. CASE r < g
      <4>1. r \in 0 .. g - 1 /\ i \in 0 .. base + g - 1
        BY <3>1, <3>4, <1>3
      <4> QED BY <4>1, <2>4, <3>3, <1>12
    <3>5. CASE ~(r < g)
      <4>1. r \in g .. g + got - 1 /\ pos + (r - g) = info[s].offset + i
        BY <3>1, <3>2, <3>5, <1>1, <1>3, <1>8, <1>13
      <4> QED BY <4>1, <3>3, <1>12
    <3> QED BY <3>4, <3>5
  <2>6. CASE k # page
    <3>1. ~(page < k)
      <4> SUFFICES ASSUME page < k PROVE FALSE
        OBVIOUS
      <4>1. page * PageSize + PageSize <= k * PageSize
        BY <1>1, Scaled
      <4>2. PICK b \in Nat : b = k * PageSize
        BY <1>1
      <4>3. base + PageSize <= b /\ i = b + r
        BY <4>1, <4>2, <2>2, <1>3
      <4>4. i < base + PageSize
        BY <1>1, <1>3, <1>8, <1>9, <1>10
      <4> QED BY <4>2, <4>3, <4>4, <1>1, <1>3
    <3>2. k < page
      BY <3>1, <2>6, <1>1
    <3>3. k * PageSize + PageSize <= base /\ k * PageSize \in Nat
      BY <3>2, <1>1, <1>3, Scaled
    <3>4. i \in 0 .. base + g - 1
      BY <3>3, <2>2, <1>1, <1>3
    <3>5. new.table[s][k + 1] # f
      <4>1. k + 1 \in DOMAIN new.table[s] /\ page + 1 \in DOMAIN new.table[s]
            /\ k + 1 # page + 1
        <5>1. DOMAIN new.table[s] = 1 .. Len(new.table[s])
          BY <1>6
        <5> QED BY <5>1, <2>2, <2>6, <1>1, <1>6
      <4> QED BY <4>1, <1>5, <1>6 DEF IsInjective
    <3> QED BY <3>4, <3>5, <2>2, <2>3, <2>4, <1>12 DEF Only
  <2> QED BY <2>5, <2>6
<1>15. /\ pos' = info[s].offset + base + (g + got)
       /\ out' = f * PageSize + (g + got)
       /\ need' <= amount /\ need' \in Nat
  <2>1. f * PageSize \in Nat
    BY <1>1 DEF FrameNumbers
  <2> QED BY <2>1, <1>1, <1>2, <1>3, <1>7, <1>8, <1>11, <1>13
<1>16. pos' \in Nat /\ out' \in Nat
  BY <1>1, <1>7, <1>8
<1> HIDE DEF Only, Place, ReadAmount
<1>17. /\ page * PageSize = base /\ ReadAmount(s, page) = amount
       /\ ReadAmount(s, page) - need' = g + got
  BY ONLY <1>3, <1>10
<1>18. base + (g + got) - 1 = page * PageSize + (ReadAmount(s, page) - need') - 1
  BY ONLY <1>17
<1>19. \A i \in 0 .. page * PageSize + (ReadAmount(s, page) - need') - 1 :
         mem'[Place(new.table, s, i)] = <<file, info[s].offset + i>>
  BY ONLY <1>14, <1>18
<1>20. /\ new.table[s][page + 1] \in Range(new.table[s])
       /\ Only(new.table[s][page + 1])
  BY ONLY <1>6, <1>12
<1>21. /\ need' <= ReadAmount(s, page)
       /\ out' = new.table[s][page + 1] * PageSize
                   + (ReadAmount(s, page) - need')
       /\ pos' = info[s].offset + page * PageSize
                   + (ReadAmount(s, page) - need')
  BY ONLY <1>6, <1>15, <1>17
<1> QED BY ONLY <1>12, <1>15, <1>16, <1>19, <1>20, <1>21

-----------------------------------------------------------------------------
(* The file is looked through *)

LEMMA LayoutTyped ==
  ASSUME LoaderAssumption, NEW f \in Files
  PROVE  /\ Layout[f].len \in Nat /\ Layout[f].shoff \in Nat
         /\ Layout[f].names \in Nat /\ Len(Layout[f].sections) \in Nat
         /\ \A j \in 1 .. Len(Layout[f].sections) :
              /\ Layout[f].sections[j].offset \in Nat
              /\ Layout[f].sections[j].size \in Nat
<1> DEFINE S == [name : STRING, offset : Nat, size : Nat]
<1>1. Layout[f] \in [len : Nat, shoff : Nat, names : Nat, sections : Seq(S)]
  BY DEF LoaderAssumption
<1>2. Layout[f].sections \in Seq(S)
  BY <1>1
<1>3. \A j \in 1 .. Len(Layout[f].sections) : Layout[f].sections[j] \in S
  BY <1>2, ElementOfSeq
<1> QED BY <1>1, <1>2, <1>3

\* A step inside createProcess that leaves memory and the processes alone.
LEMMA ProcsKept ==
  ASSUME Inv, UNCHANGED <<procs, freePids>>
  PROVE  /\ ProcsInv' /\ PidsExact'
         /\ procs' \in Seq(Slots) /\ Len(procs') <= MaxProcs
         /\ freePids' \in Seq(Nat)
BY DEF Inv, ProcsInv, PidsExact, Types

LEMMA ReturnFailedInv ==
  ASSUME LoaderAssumption, Inv, ReturnFailed
  PROVE  Inv'
<1>1. /\ at' = "idle" /\ pos' = 0 /\ need' = 0 /\ out' = 0 /\ sec' = 0
      /\ page' = 0 /\ info' = NoInfo /\ new' = NotLoading /\ file' = NoFile
      /\ UNCHANGED <<mem, procs, freePids>>
  BY DEF ReturnFailed
<1>2. ProcsInv' /\ PidsExact' /\ procs' \in Seq(Slots)
      /\ Len(procs') <= MaxProcs /\ freePids' \in Seq(Nat)
  BY <1>1, ProcsKept
<1>3. NoInfo \in Infos
  BY DEF NoInfo, Infos, SectionInfo
<1>4. NotLoading \in [pid : 0 .. MaxProcs, table : Tables]
  <2>1. 0 \in 0 .. MaxProcs
    BY SizesAreNat
  <2> QED BY <2>1, NoFrames DEF NotLoading
<1>5. Types'
  BY <1>1, <1>2, <1>3, <1>4 DEF Types, Inv, LoadLabels
<1>6. NewInv' /\ InfoInv' /\ CopyInv'
  BY <1>1 DEF NewInv, InfoInv, CopyInv, Building, Segments
<1> QED BY <1>2, <1>5, <1>6 DEF Inv

LEMMA CreateInv ==
  ASSUME LoaderAssumption, Inv, NEW f \in Files, Create(f)
  PROVE  Inv'
<1>1. /\ at = "idle" /\ file' = f /\ at' = "header" /\ pos' = 0 /\ need' = 1
      /\ Len(procs) < MaxProcs \/ freePids # <<>>
      /\ UNCHANGED <<mem, procs, freePids, out, sec, info, new, page>>
  BY DEF Create, ReadUnit
<1>2. ProcsInv' /\ PidsExact'
  BY <1>1, ProcsKept
<1>3. Types'
  BY <1>1 DEF Types, Inv, LoadLabels
<1>4. new = NotLoading /\ sec = 0 /\ info = NoInfo
  BY <1>1 DEF Inv, NewInv, InfoInv, Building
<1>5. NewInv' /\ InfoInv' /\ CopyInv'
  BY <1>1, <1>4 DEF NewInv, InfoInv, CopyInv, Building, Segments
<1> QED BY <1>2, <1>3, <1>5 DEF Inv

\* Nothing is reserved before all section headers were read.
LEMMA Looking ==
  ASSUME LoaderAssumption, Inv,
         at \in {"header", "shstr", "section", "name"},
         at' \in {"shstr", "section", "name", "asserted"},
         UNCHANGED <<mem, procs, freePids, file, new>>,
         pos' \in Nat, need' \in Nat, out' \in Nat, page' \in Nat,
         sec' \in Nat, info' \in Infos, InfoInv'
  PROVE  Inv'
<1>1. ProcsInv' /\ PidsExact'
  BY ProcsKept
<1>2. Types'
  BY DEF Types, Inv, LoadLabels
<1>3. NewInv' /\ CopyInv'
  BY DEF Inv, NewInv, CopyInv, Building, Segments
<1> QED BY <1>1, <1>2, <1>3 DEF Inv

LEMMA LookingTyped ==
  ASSUME LoaderAssumption, Inv, at # "idle"
  PROVE  /\ file \in Files
         /\ pos \in Nat /\ need \in Nat /\ out \in Nat /\ page \in Nat
         /\ sec \in Nat /\ info \in Infos
BY DEF Inv, Types, NewInv

LEMMA ReadShstrInv ==
  ASSUME LoaderAssumption, Inv, ReadShstr
  PROVE  Inv'
<1>1. /\ at = "header" /\ at' = "shstr" /\ need' = 1
      /\ pos' = Layout[file].shoff + Len(Layout[file].sections)
      /\ UNCHANGED <<mem, procs, freePids, file, out, sec, info, new, page>>
  BY DEF ReadShstr, IsAt, ReadUnit
<1>2. sec = 0 /\ info = NoInfo /\ file \in Files
  BY <1>1, LookingTyped DEF Inv, InfoInv
<1>3. pos' \in Nat /\ Len(Layout[file].sections) \in Nat
  BY <1>1, <1>2, LayoutTyped
<1>4. Noted(file, 0, NoInfo)
  <2>1. \A j : j \notin 1 .. 0
    OBVIOUS
  <2> QED BY <2>1 DEF Noted, NoInfo
<1>5. InfoInv'
  BY <1>1, <1>2, <1>3, <1>4 DEF InfoInv, Building
<1> QED BY <1>1, <1>3, <1>5, LookingTyped, Looking

LEMMA ReadSectionInv ==
  ASSUME LoaderAssumption, Inv, ReadSection
  PROVE  Inv'
<1>1. /\ at = "shstr" /\ at' = "section" /\ need' = 1
      /\ sec < Len(Layout[file].sections)
      /\ pos' = Layout[file].shoff + sec /\ sec' = sec + 1
      /\ UNCHANGED <<mem, procs, freePids, file, out, info, new, page>>
  BY DEF ReadSection, IsAt, ReadUnit, MoreSections
<1>2. file \in Files /\ sec \in Nat /\ Noted(file, sec, info)
  BY <1>1, LookingTyped DEF Inv, InfoInv
<1>3. pos' \in Nat /\ Len(Layout[file].sections) \in Nat
  BY <1>1, <1>2, LayoutTyped
<1>4. sec' \in 1 .. Len(Layout[file].sections) /\ sec' - 1 = sec
  BY <1>1, <1>2, <1>3
<1>5. InfoInv'
  BY <1>1, <1>2, <1>4 DEF InfoInv, Building
<1> QED BY <1>1, <1>2, <1>3, <1>4, <1>5, LookingTyped, Looking

LEMMA ReadNameInv ==
  ASSUME LoaderAssumption, Inv, ReadName
  PROVE  Inv'
<1>1. /\ at = "section" /\ at' = "name" /\ need' = 1
      /\ pos' = Layout[file].names + sec - 1
      /\ UNCHANGED <<mem, procs, freePids, file, out, sec, info, new, page>>
  BY DEF ReadName, IsAt, ReadUnit
<1>2. /\ file \in Files /\ sec \in Nat /\ Noted(file, sec - 1, info)
      /\ sec \in 1 .. Len(Layout[file].sections)
  BY <1>1, LookingTyped DEF Inv, InfoInv
<1>3. pos' \in Nat
  <2>1. Layout[file].names \in Nat
    BY <1>2, LayoutTyped
  <2> QED BY <2>1, <1>1, <1>2
<1>4. InfoInv'
  BY <1>1, <1>2 DEF InfoInv, Building
<1> QED BY <1>1, <1>3, <1>4, LookingTyped, Looking

\* The section headers looked at are one more.
LEMMA OneMoreNoted ==
  ASSUME LoaderAssumption, NEW f \in Files, NEW i \in Infos, NEW k \in Infos,
         NEW n \in 1 .. Len(Layout[f].sections), Noted(f, n - 1, i),
         \A s \in {"text", "data", "bss"} :
           k[s] = IF Layout[f].sections[n].name = s
                    THEN [offset |-> Layout[f].sections[n].offset,
                          size |-> Layout[f].sections[n].size]
                    ELSE i[s]
  PROVE  Noted(f, n, k)
<1> DEFINE Of(m, s) == {j \in 1 .. m : Layout[f].sections[j].name = s}
<1>1. Len(Layout[f].sections) \in Nat
  BY LayoutTyped
<1>2. ASSUME NEW s \in {"text", "data", "bss"}
      PROVE  \/ Of(n, s) = {} /\ k[s] = [offset |-> 0, size |-> 0]
             \/ \E j \in Of(n, s) :
                  /\ \A h \in Of(n, s) : h <= j
                  /\ k[s] = [offset |-> Layout[f].sections[j].offset,
                             size |-> Layout[f].sections[j].size]
  <2>1. CASE Layout[f].sections[n].name = s
    <3>1. n \in Of(n, s) /\ \A h \in Of(n, s) : h <= n
      BY <2>1, <1>1
    <3> QED BY <3>1, <2>1
  <2>2. CASE Layout[f].sections[n].name # s
    <3>1. 1 .. n = (1 .. n - 1) \cup {n}
      BY <1>1
    <3>2. Of(n, s) = Of(n - 1, s)
      BY <3>1, <2>2
    <3>3. k[s] = i[s]
      BY <2>2
    <3>4. \/ Of(n - 1, s) = {} /\ i[s] = [offset |-> 0, size |-> 0]
          \/ \E j \in Of(n - 1, s) :
               /\ \A h \in Of(n - 1, s) : h <= j
               /\ i[s] = [offset |-> Layout[f].sections[j].offset,
                          size |-> Layout[f].sections[j].size]
      BY DEF Noted
    <3> QED BY <3>2, <3>3, <3>4
  <2> QED BY <2>1, <2>2
<1> QED BY <1>2 DEF Noted

LEMMA NoteSectionInv ==
  ASSUME LoaderAssumption, Inv, NoteSection
  PROVE  Inv'
<1>1. /\ at = "name" /\ at' = "shstr"
      /\ info' = IF Section.name \in DOMAIN info
                   THEN [info EXCEPT ![Section.name] =
                           [offset |-> Section.offset, size |-> Section.size]]
                   ELSE info
      /\ UNCHANGED <<mem, procs, freePids, file, pos, need, out, sec, new, page>>
  BY DEF NoteSection, IsAt
<1>2. /\ file \in Files /\ Noted(file, sec - 1, info) /\ info \in Infos
      /\ sec \in 1 .. Len(Layout[file].sections)
  BY <1>1, LookingTyped DEF Inv, InfoInv
<1>3. /\ Section = Layout[file].sections[sec]
      /\ Section.offset \in Nat /\ Section.size \in Nat
      /\ Len(Layout[file].sections) \in Nat
  BY <1>2, LayoutTyped DEF Section
<1>4. PICK v \in SectionInfo :
        v = [offset |-> Section.offset, size |-> Section.size]
  BY <1>3 DEF SectionInfo
<1>5. DOMAIN info = {"text", "data", "bss"}
  BY <1>2 DEF Infos
<1>6. /\ info' \in Infos
      /\ \A s \in {"text", "data", "bss"} :
           info'[s] = IF Section.name = s THEN v ELSE info[s]
  <2>1. CASE Section.name = "text"
    <3>1. info' = [info EXCEPT !["text"] = v]
      BY <2>1, <1>1, <1>4, <1>5
    <3> QED BY <3>1, <2>1, <1>2 DEF Infos
  <2>2. CASE Section.name = "data"
    <3>1. info' = [info EXCEPT !["data"] = v]
      BY <2>2, <1>1, <1>4, <1>5
    <3> QED BY <3>1, <2>2, <1>2 DEF Infos
  <2>3. CASE Section.name = "bss"
    <3>1. info' = [info EXCEPT !["bss"] = v]
      BY <2>3, <1>1, <1>4, <1>5
    <3> QED BY <3>1, <2>3, <1>2 DEF Infos
  <2>4. CASE Section.name \notin {"text", "data", "bss"}
    BY <2>4, <1>1, <1>2, <1>5
  <2> QED BY <2>1, <2>2, <2>3, <2>4
<1>7. Noted(file, sec, info')
  BY <1>2, <1>3, <1>4, <1>6, OneMoreNoted
<1>8. InfoInv'
  BY <1>1, <1>2, <1>3, <1>7 DEF InfoInv, Building
<1> QED BY <1>1, <1>6, <1>8, LookingTyped, Looking

LEMMA AssertFailsInv ==
  ASSUME LoaderAssumption, Inv, AssertFails
  PROVE  Inv'
<1>1. /\ at = "shstr" /\ at' = "asserted"
      /\ UNCHANGED <<mem, procs, freePids, file, pos, need, out, sec, info, new,
                     page>>
  BY DEF AssertFails, IsAt
<1>2. InfoInv'
  BY <1>1 DEF InfoInv, Building
<1> QED BY <1>1, <1>2, LookingTyped, Looking

-----------------------------------------------------------------------------
(* The process is built *)

LEMMA AllocateInv ==
  ASSUME LoaderAssumption, Inv, Allocate
  PROVE  Inv'
<1>1. /\ at = "shstr" /\ at' = "totext" /\ Enough(info)
      /\ ~(sec < Len(Layout[file].sections))
      /\ new' = [pid |-> IF freePids = <<>> THEN Len(procs) + 1
                                            ELSE Last(freePids),
                 table |-> NewTable(info)]
      /\ UNCHANGED <<mem, procs, freePids, file, pos, need, out, sec, info, page>>
  BY DEF Allocate, IsAt, MoreSections
<1>2. new = NotLoading /\ file \in Files
      /\ (Len(procs) < MaxProcs \/ freePids # <<>>)
  BY <1>1 DEF Inv, NewInv, Building
<1>3. /\ NewTable(info) \in Tables /\ Fits(NewTable(info), info)
      /\ Apart(NewTable(info))
      /\ \A p \in 1 .. Len(procs) :
           FramesOf(procs[p].table) \cap FramesOf(NewTable(info)) = {}
  BY <1>1, <1>2, NewTableFits DEF Inv
<1>4. new'.pid \in 0 .. MaxProcs
  <2>1. procs \in Seq(Slots) /\ Len(procs) \in Nat /\ Len(procs) <= MaxProcs
        /\ freePids \in Seq(Nat) /\ MaxProcs \in Nat
    BY SizesAreNat DEF Inv, Types
  <2>2. CASE freePids = <<>>
    BY <2>1, <2>2, <1>1, <1>2
  <2>3. CASE freePids # <<>>
    <3>1. Len(freePids) \in 1 .. Len(freePids)
      BY <2>1, <2>3, EmptySeq
    <3>2. Last(freePids) \in Range(freePids)
      BY <3>1, <2>1 DEF Last, Range
    <3>3. Last(freePids) \in 1 .. Len(procs)
      BY <3>2 DEF Inv, PidsExact
    <3> QED BY <3>3, <2>1, <2>3, <1>1
  <2> QED BY <2>2, <2>3
<1>5. new' \in [pid : 0 .. MaxProcs, table : Tables]
  BY <1>1, <1>3, <1>4
<1>6. ProcsInv' /\ PidsExact'
  BY <1>1, ProcsKept
<1>7. Types'
  BY <1>1, <1>5 DEF Types, Inv, LoadLabels
<1>8. NewInv'
  BY <1>1, <1>2, <1>3 DEF NewInv, Building
<1>9. InfoInv'
  <2>1. sec = Len(Layout[file].sections) /\ Noted(file, sec, info)
    <3>1. Len(Layout[file].sections) \in Nat /\ sec \in Nat
      BY <1>2, LayoutTyped DEF Inv, Types
    <3> QED BY <3>1, <1>1 DEF Inv, InfoInv
  <2> QED BY <2>1, <1>1 DEF InfoInv, Building
<1>10. CopyInv'
  BY <1>1 DEF CopyInv, Segments
<1> QED BY <1>6, <1>7, <1>8, <1>9, <1>10 DEF Inv

\* A step while the segments are copied.
LEMMA Filling ==
  ASSUME LoaderAssumption, Inv, Building, Building',
         UNCHANGED <<procs, freePids, file, sec, info, new>>,
         mem' \in [Addresses -> {Junk} \cup (Files \X Nat)],
         pos' \in Nat, need' \in Nat, out' \in Nat, page' \in Nat, CopyInv'
  PROVE  Inv'
<1>1. ProcsInv' /\ PidsExact'
  BY ProcsKept
<1>2. Types'
  BY DEF Types, Inv, LoadLabels, Building
<1>3. NewInv'
  <2>1. at # "idle"
    BY DEF Building
  <2> QED BY <2>1 DEF NewInv, Inv
<1>4. InfoInv'
  BY DEF InfoInv, Inv, Building
<1> QED BY <1>1, <1>2, <1>3, <1>4 DEF Inv

LEMMA CopiedKept ==
  ASSUME UNCHANGED <<mem, file, info, new>>, NEW s, NEW n, Copied(s, n)
  PROVE  Copied(s, n)'
BY DEF Copied, Place

LEMMA StartSegmentInv ==
  ASSUME LoaderAssumption, Inv, NEW s \in Segments, StartSegment(s)
  PROVE  Inv'
<1>1. /\ at = Before(s) /\ info[s].size > 0
      /\ at' = s /\ page' = 0 /\ pos' = info[s].offset
      /\ out' = new.table[s][1] * PageSize
      /\ need' = ReadAmount(s, 0)
      /\ UNCHANGED <<mem, procs, freePids, file, sec, info, new>>
  BY DEF StartSegment, IsAt
<1>2. at = IF s = "text" THEN "totext" ELSE "todata"
  BY <1>1 DEF Before
<1>3. Building /\ Building'
  BY <1>1, <1>2 DEF Building, Segments
<1>4. /\ info \in Infos /\ new.table \in Tables /\ Fits(new.table, info)
      /\ PageSize \in Nat \ {0} /\ 0 * PageSize = 0
      /\ info[s].size \in Nat /\ info[s].offset \in Nat
  BY <1>3, WhileBuilding, SizesAreNat, SizesTyped
<1>5. 0 * PageSize < info[s].size
  BY <1>1, <1>4
<1>6. need' \in 1 .. PageSize
  BY <1>1, <1>5, AmountIs DEF Inv
<1>7. PICK f \in FrameNumbers : f = new.table[s][1]
  <2>1. 0 \div PageSize = 0
    <3>1. PICK q \in Nat, r \in 0 .. PageSize - 1 :
            q = 0 \div PageSize /\ 0 = q * PageSize + r
      BY <1>4, Divided
    <3>2. q * PageSize \in Nat
      BY <1>4
    <3>3. q * PageSize + r = 0 * PageSize + 0 /\ 0 \in 0 .. PageSize - 1
      BY <3>1, <1>4
    <3>4. q = 0
      BY <3>3, <1>4, OnePage
    <3> QED BY <3>1, <3>4
  <2>2. new.table[s][0 + 1] \in FrameNumbers
    BY <2>1, <1>1, <1>4, PlaceIn
  <2> QED BY <2>2
<1>8. out' \in Nat /\ out' = f * PageSize + 0
  BY <1>1, <1>4, <1>7 DEF FrameNumbers
<1>9. CopyInv'
  <2>1. (ReadAmount(s, page) - need)' = 0
    <3>1. (ReadAmount(s, page))' = ReadAmount(s, 0)
      BY <1>1 DEF ReadAmount
    <3> QED BY <3>1, <1>1, <1>6
  <2>2. Got(s)' = 0
    BY <2>1 DEF Got
  <2>4. Copied(s, page * PageSize + Got(s))'
    <3>1. (page * PageSize + Got(s))' = 0
      BY <2>2, <1>1, <1>4
    <3> QED BY <3>1 DEF Copied
  <2>5. need' <= ReadAmount(s, page)'
    BY <1>1, <1>6 DEF ReadAmount
  <2>6. s = "data" => Copied("text", info.text.size)'
    <3>1. s = "data" => Copied("text", info.text.size)
      BY <1>2 DEF Inv, CopyInv
    <3>2. UNCHANGED <<mem, file, info, new>>
      BY <1>1
    <3>3. Copied("text", info.text.size) => Copied("text", info.text.size)'
      BY <3>2 DEF Copied, Place
    <3> QED BY <3>1, <3>3
  <2>7. /\ page' * PageSize < info'[s].size
        /\ out' = new'.table[s][page' + 1] * PageSize + Got(s)'
        /\ pos' = info'[s].offset + page' * PageSize + Got(s)'
    <3>1. page' + 1 = 1 /\ info[s].offset + 0 + 0 = info[s].offset
      BY <1>1, <1>4
    <3> QED BY <3>1, <2>2, <1>1, <1>4, <1>5, <1>7, <1>8
  <2> QED BY <2>4, <2>5, <2>6, <2>7, <1>1 DEF CopyInv, Segments
<1>10. pos' \in Nat /\ page' \in Nat /\ need' \in Nat
  BY <1>1, <1>4, <1>6
<1>11. mem' \in [Addresses -> {Junk} \cup (Files \X Nat)]
  BY <1>1 DEF Inv, Types
<1> QED BY <1>1, <1>3, <1>8, <1>9, <1>10, <1>11, Filling

LEMMA SkipSegmentInv ==
  ASSUME LoaderAssumption, Inv, NEW s \in Segments, SkipSegment(s)
  PROVE  Inv'
<1>1. /\ at = Before(s) /\ info[s].size = 0 /\ at' = Following(s)
      /\ UNCHANGED <<mem, procs, freePids, file, pos, need, out, sec, info, new,
                     page>>
  BY DEF SkipSegment, IsAt
<1>2. /\ at = IF s = "text" THEN "totext" ELSE "todata"
      /\ at' = IF s = "text" THEN "todata" ELSE "finish"
  BY <1>1 DEF Before, Following
<1>3. Building /\ Building'
  BY <1>2 DEF Building, Segments
<1>4. CopyInv'
  <2>1. Copied(s, info[s].size)
    BY <1>1 DEF Copied
  <2>2. s = "data" => Copied("text", info.text.size)
    BY <1>2 DEF Inv, CopyInv
  <2>3. s = "text" => Copied("text", info.text.size)
    BY <2>1
  <2>4. s = "data" => Copied("data", info.data.size)
    BY <2>1
  <2>5. Copied("text", info.text.size)'
    <3>1. Copied("text", info.text.size)
      BY <2>2, <2>3 DEF Segments
    <3> QED BY <3>1, <1>1 DEF Copied, Place
  <2>6. s = "data" => Copied("data", info.data.size)'
    BY <2>4, <1>1 DEF Copied, Place
  <2> QED BY <2>5, <2>6, <1>2 DEF CopyInv, Segments
<1>5. /\ mem' \in [Addresses -> {Junk} \cup (Files \X Nat)]
      /\ pos' \in Nat /\ need' \in Nat /\ out' \in Nat /\ page' \in Nat
  BY <1>1 DEF Inv, Types
<1> QED BY <1>1, <1>3, <1>4, <1>5, Filling

-----------------------------------------------------------------------------
\* When nothing is left of a page, the page is full or the segment ends.
LEMMA PageDone ==
  ASSUME LoaderAssumption, Inv, NEW s \in Segments, at = s, need = 0
  PROVE  /\ page \in Nat /\ PageSize \in Nat \ {0} /\ page * PageSize \in Nat
         /\ (page + 1) * PageSize = page * PageSize + PageSize
         /\ info[s].size \in Nat /\ info[s].offset \in Nat
         /\ (page + 1) * PageSize < info[s].size =>
              /\ Copied(s, (page + 1) * PageSize)
              /\ pos = info[s].offset + (page + 1) * PageSize
         /\ (page + 1) * PageSize >= info[s].size => Copied(s, info[s].size)
<1>1. /\ page \in Nat /\ PageSize \in Nat \ {0} /\ info \in Infos
      /\ info[s].size \in Nat /\ info[s].offset \in Nat
  BY SizesAreNat, SizesTyped DEF Inv, Types
<1>2. /\ page * PageSize < info[s].size
      /\ pos = info[s].offset + page * PageSize + Got(s)
      /\ Copied(s, page * PageSize + Got(s))
  BY DEF Inv, CopyInv
<1>3. PICK base \in Nat : base = page * PageSize
  BY <1>1
<1>4. (page + 1) * PageSize = base + PageSize
  <2>1. (page + 1) * PageSize = page * PageSize + PageSize
    BY <1>1, Z3
  <2> QED BY <2>1, <1>3
<1>5. PICK amount \in 1 .. PageSize :
        /\ amount = ReadAmount(s, page)
        /\ base + amount <= info[s].size
        /\ amount = PageSize \/ base + amount = info[s].size
  BY <1>1, <1>2, <1>3, AmountIs DEF Inv
<1>6. Got(s) = amount
  BY <1>1, <1>5 DEF Got
<1>7. ASSUME (page + 1) * PageSize < info[s].size
      PROVE  /\ Copied(s, (page + 1) * PageSize)
             /\ pos = info[s].offset + (page + 1) * PageSize
  <2>1. base + amount = base + PageSize
    BY <1>1, <1>3, <1>4, <1>5, <1>7
  <2>2. base + amount = (page + 1) * PageSize
    BY <2>1, <1>4
  <2>3. page * PageSize + Got(s) = (page + 1) * PageSize
    BY <2>2, <1>3, <1>6
  <2>4. pos = info[s].offset + (base + amount)
    BY <1>1, <1>2, <1>3, <1>5, <1>6
  <2> QED BY <2>2, <2>3, <2>4, <1>2
<1>8. ASSUME (page + 1) * PageSize >= info[s].size
      PROVE  Copied(s, info[s].size)
  <2>1. base + amount = info[s].size
    BY <1>1, <1>3, <1>4, <1>5, <1>8
  <2>2. page * PageSize + Got(s) = info[s].size
    BY <2>1, <1>3, <1>6
  <2> QED BY <2>2, <1>2
<1> QED BY <1>1, <1>3, <1>4, <1>7, <1>8

LEMMA NextPageInv ==
  ASSUME LoaderAssumption, Inv, NEW s \in Segments, NextPage(s)
  PROVE  Inv'
<1>1. /\ at = s /\ need = 0 /\ (page + 1) * PageSize < info[s].size
      /\ page' = page + 1
      /\ out' = new.table[s][page + 2] * PageSize
      /\ need' = ReadAmount(s, page + 1)
      /\ UNCHANGED <<mem, procs, freePids, at, file, pos, sec, info, new>>
  BY DEF NextPage, IsAt
<1>2. Building /\ Building'
  BY <1>1 DEF Building, Segments
<1>3. /\ page \in Nat /\ PageSize \in Nat \ {0} /\ page + 1 \in Nat
      /\ info[s].size \in Nat /\ info[s].offset \in Nat
      /\ Copied(s, (page + 1) * PageSize)
      /\ pos = info[s].offset + (page + 1) * PageSize
  BY <1>1, PageDone
<1>4. PICK base \in Nat : base = (page + 1) * PageSize
  BY <1>3
<1>5. need' \in 1 .. PageSize
  BY <1>1, <1>3, AmountIs DEF Inv
<1>6. ReadAmount(s, page)' = need' /\ Got(s)' = 0
  <2>1. ReadAmount(s, page)' = need'
    BY <1>1 DEF ReadAmount
  <2>2. Got(s)' = ReadAmount(s, page)' - need'
    BY DEF Got
  <2>3. \A k \in 1 .. PageSize : k - k = 0
    BY <1>3
  <2>4. need' - need' = 0
    BY <2>3, <1>5
  <2>5. Got(s)' = need' - need'
    BY <2>1, <2>2
  <2> QED BY <2>1, <2>4, <2>5
<1>7. /\ (page + 1) * PageSize + 0 = (page + 1) * PageSize
      /\ info[s].offset + (page + 1) * PageSize + 0
           = info[s].offset + (page + 1) * PageSize
  BY <1>3, <1>4
<1>8. PICK f \in FrameNumbers : f = new.table[s][page + 2]
  <2>1. base < info[s].size /\ base \div PageSize = page + 1
    <3>1. PICK q \in Nat, r \in 0 .. PageSize - 1 :
            q = base \div PageSize /\ base = q * PageSize + r
      BY <1>3, Divided
    <3>2. q * PageSize + r = (page + 1) * PageSize + 0
      BY <3>1, <1>4, <1>7
    <3>3. 0 \in 0 .. PageSize - 1
      BY <1>3
    <3>4. q = page + 1
      BY <3>2, <3>3, <1>3, OnePage
    <3> QED BY <3>1, <3>4, <1>1, <1>4
  <2>2. Fits(new.table, info) /\ new.table \in Tables /\ info \in Infos
    BY <1>2, WhileBuilding
  <2>3. new.table[s][(page + 1) + 1] \in FrameNumbers
    BY <2>1, <2>2, PlaceIn
  <2>4. (page + 1) + 1 = page + 2
    BY <1>3
  <2> QED BY <2>3, <2>4
<1>9. f * PageSize \in Nat /\ f * PageSize + 0 = f * PageSize
  BY <1>3 DEF FrameNumbers
<1>10. CopyInv'
  <2>1. Copied(s, page * PageSize + Got(s))'
    <3>1. page' * PageSize + Got(s)' = (page + 1) * PageSize
      BY <1>1, <1>6, <1>7
    <3>2. Copied(s, (page + 1) * PageSize)
      BY <1>3
    <3> QED BY <3>1, <3>2, <1>1 DEF Copied, Place
  <2>2. s = "data" => Copied("text", info.text.size)'
    <3>1. s = "data" => Copied("text", info.text.size)
      BY <1>1 DEF Inv, CopyInv
    <3> QED BY <3>1, <1>1 DEF Copied, Place
  <2>3. /\ page' * PageSize < info'[s].size
        /\ need' <= ReadAmount(s, page)'
        /\ out' = new'.table[s][page' + 1] * PageSize + Got(s)'
        /\ pos' = info'[s].offset + page' * PageSize + Got(s)'
    <3>1. page' + 1 = page + 2
      BY <1>1, <1>3
    <3>2. need' <= ReadAmount(s, page)'
      BY <1>5, <1>6
    <3>3. out' = new'.table[s][page' + 1] * PageSize + Got(s)'
      BY <3>1, <1>1, <1>6, <1>8, <1>9
    <3>4. pos' = info'[s].offset + page' * PageSize + Got(s)'
      BY <1>1, <1>3, <1>6, <1>7
    <3> QED BY <3>2, <3>3, <3>4, <1>1
  <2> QED BY <2>1, <2>2, <2>3, <1>1 DEF CopyInv, Segments
<1>11. /\ mem' \in [Addresses -> {Junk} \cup (Files \X Nat)]
       /\ pos' \in Nat /\ need' \in Nat /\ out' \in Nat /\ page' \in Nat
  BY <1>1, <1>3, <1>5, <1>8, <1>9 DEF Inv, Types
<1> QED BY <1>1, <1>2, <1>10, <1>11, Filling

LEMMA EndSegmentInv ==
  ASSUME LoaderAssumption, Inv, NEW s \in Segments, EndSegment(s)
  PROVE  Inv'
<1>1. /\ at = s /\ need = 0 /\ (page + 1) * PageSize >= info[s].size
      /\ at' = Following(s)
      /\ UNCHANGED <<mem, procs, freePids, file, pos, need, out, sec, info, new,
                     page>>
  BY DEF EndSegment, IsAt
<1>2. at' = IF s = "text" THEN "todata" ELSE "finish"
  BY <1>1 DEF Following
<1>3. Building /\ Building'
  BY <1>1, <1>2 DEF Building, Segments
<1>4. Copied(s, info[s].size)
  BY <1>1, PageDone
<1>5. CopyInv'
  <2>1. Copied("text", info.text.size)
    <3>1. s = "data" => Copied("text", info.text.size)
      BY <1>1 DEF Inv, CopyInv
    <3> QED BY <3>1, <1>4 DEF Segments
  <2>2. Copied("text", info.text.size)'
    BY <2>1, <1>1 DEF Copied, Place
  <2>3. s = "data" => Copied("data", info.data.size)'
    <3>1. s = "data" => Copied("data", info.data.size)
      BY <1>4
    <3> QED BY <3>1, <1>1 DEF Copied, Place
  <2> QED BY <2>2, <2>3, <1>2 DEF CopyInv, Segments
<1>6. /\ mem' \in [Addresses -> {Junk} \cup (Files \X Nat)]
      /\ pos' \in Nat /\ need' \in Nat /\ out' \in Nat /\ page' \in Nat
  BY <1>1 DEF Inv, Types
<1> QED BY <1>1, <1>3, <1>5, <1>6, Filling

\* A read of a header or a name, or one that is left over.
LEMMA OtherReadInv ==
  ASSUME LoaderAssumption, Inv, ReadSome, ~Copying
  PROVE  Inv'
<1>1. PICK got \in 1 .. Smallest({Asked, Available}) :
        /\ need > 0 /\ Available > 0
        /\ pos' = pos + got /\ need' = need - got
        /\ UNCHANGED <<mem, out, procs, freePids, at, file, sec, info, new, page>>
  BY DEF ReadSome
<1>2. at # "idle" /\ file \in Files /\ pos \in Nat /\ need \in Nat
  BY <1>1 DEF Inv, InfoInv, NewInv, Types
<1>3. got \in Nat \ {0} /\ got <= need
  BY <1>1, <1>2, Brought DEF Inv
<1>4. pos' \in Nat /\ need' \in Nat
  BY <1>1, <1>2, <1>3
<1>5. ProcsInv' /\ PidsExact'
  BY <1>1, ProcsKept
<1>6. Types'
  BY <1>1, <1>4 DEF Types, Inv
<1>7. NewInv' /\ InfoInv'
  BY <1>1, <1>2 DEF NewInv, InfoInv, Inv, Building
<1>8. CopyInv'
  BY <1>1 DEF CopyInv, Inv, Copying, Segments, Copied, Place
<1> QED BY <1>5, <1>6, <1>7, <1>8 DEF Inv

LEMMA CopyReadInv ==
  ASSUME LoaderAssumption, Inv, ReadSome, NEW s \in Segments, at = s
  PROVE  Inv'
<1>1. Building /\ Copying
  BY DEF Building, Segments, Copying
<1>2. UNCHANGED <<procs, freePids, at, file, sec, info, new, page>>
  BY DEF ReadSome
<1>3. PICK f : f = new.table[s][page + 1]
  OBVIOUS
<1>4. /\ mem' \in [Addresses -> {Junk} \cup (Files \X Nat)]
      /\ f \in Range(new.table[s]) /\ Only(f)
      /\ pos' \in Nat /\ out' \in Nat /\ need' \in Nat
      /\ need' <= ReadAmount(s, page)
      /\ out' = new.table[s][page + 1] * PageSize
                  + (ReadAmount(s, page) - need')
      /\ pos' = info[s].offset + page * PageSize
                  + (ReadAmount(s, page) - need')
      /\ \A i \in 0 .. page * PageSize + (ReadAmount(s, page) - need') - 1 :
           mem'[Place(new.table, s, i)] = <<file, info[s].offset + i>>
  BY <1>3, CopyStep
<1>5. Building' /\ page' \in Nat
  BY <1>1, <1>2 DEF Building, Inv, Types
<1>6. ReadAmount(s, page)' = ReadAmount(s, page)
      /\ Got(s)' = ReadAmount(s, page) - need'
  BY <1>2 DEF ReadAmount, Got
<1>7. page * PageSize \in Nat /\ ReadAmount(s, page) \in Int
  <2>1. page \in Nat /\ info[s].size \in Nat /\ PageSize \in Nat \ {0}
    BY SizesAreNat, SizesTyped DEF Inv, Types
  <2>2. page * PageSize < info[s].size
    BY DEF Inv, CopyInv
  <2> QED BY <2>1, <2>2, AmountIs DEF Inv
<1>8. Copied(s, page * PageSize + Got(s))'
  <2>1. PICK n : n = page * PageSize + (ReadAmount(s, page) - need')
    OBVIOUS
  <2>2. Copied(s, n)'
    <3>1. PICK base \in Nat, d \in Int :
            base = page * PageSize /\ d = ReadAmount(s, page) - need'
      BY <1>4, <1>7
    <3>2. base + (d - 1) = n - 1
      BY <2>1, <3>1
    <3>3. \A i \in 0 .. base + (d - 1) :
            mem'[Place(new.table, s, i)] = <<file, info[s].offset + i>>
      BY <1>4, <3>1
    <3>4. \A i \in 0 .. n - 1 :
            mem'[Place(new.table, s, i)] = <<file, info[s].offset + i>>
      BY <3>2, <3>3
    <3> QED BY <3>4, <1>2 DEF Copied, Place
  <2>3. (page * PageSize + Got(s))' = n
    BY <2>1, <1>2, <1>6
  <2> QED BY <2>2, <2>3 DEF Copied, Place
<1>9. s = "data" => Copied("text", info.text.size)'
  <2> SUFFICES ASSUME s = "data" PROVE Copied("text", info.text.size)'
    OBVIOUS
  <2>1. Copied("text", info.text.size)
    BY DEF Inv, CopyInv
  <2>2. /\ file \in Files /\ new.table \in Tables /\ info \in Infos
        /\ Fits(new.table, info)
        /\ Range(new.table.text) \cap Range(new.table.data) = {}
    BY <1>1, WhileBuilding DEF Apart
  <2>3. f \notin Range(new.table["text"])
    BY <2>2, <1>4
  <2>4. ASSUME NEW i \in 0 .. info.text.size - 1
        PROVE  mem'[Place(new.table, "text", i)] = mem[Place(new.table, "text", i)]
    <3>1. i \in Nat /\ i < info["text"].size /\ "text" \in Segments
      BY <2>2, SizesTyped DEF Segments
    <3> QED BY <3>1, <2>2, <2>3, <1>4, SegmentKept
  <2> QED BY <2>1, <2>4, <1>2 DEF Copied, Place
<1>10. CopyInv'
  <2>1. page * PageSize < info[s].size
    BY DEF Inv, CopyInv
  <2> QED BY <2>1, <1>2, <1>4, <1>6, <1>8, <1>9 DEF CopyInv, Segments
<1> QED BY <1>1, <1>2, <1>4, <1>5, <1>10, Filling

LEMMA ReadSomeInv ==
  ASSUME LoaderAssumption, Inv, ReadSome
  PROVE  Inv'
<1>1. Copying => \E s \in Segments : at = s
  BY DEF Copying, Segments
<1> QED BY <1>1, OtherReadInv, CopyReadInv

-----------------------------------------------------------------------------
(* Processes come and go *)

LEMMA LastAndFront ==
  ASSUME NEW S, NEW l \in Seq(S), l # <<>>
  PROVE  /\ Len(l) \in Nat \ {0} /\ Last(l) = l[Len(l)] /\ Last(l) \in S
         /\ Front(l) \in Seq(S) /\ Len(Front(l)) = Len(l) - 1
         /\ \A i \in 1 .. Len(l) - 1 : Front(l)[i] = l[i]
<1>1. Len(l) \in Nat \ {0}
  BY EmptySeq
<1>2. Last(l) = l[Len(l)] /\ l[Len(l)] \in S
  BY <1>1, ElementOfSeq DEF Last
<1>3. /\ Front(l) \in Seq(S) /\ Len(Front(l)) = Len(l) - 1
      /\ \A i \in 1 .. Len(l) - 1 : Front(l)[i] = l[i]
  <2>1. PICK m \in Nat : m = Len(l) - 1
    BY <1>1
  <2>2. Front(l) = SubSeq(l, 1, m)
    BY <2>1 DEF Front
  <2>3. \A i \in 1 .. m : l[i] \in S
    BY <2>1, <1>1, ElementOfSeq
  <2>4. /\ SubSeq(l, 1, m) \in Seq(S)
        /\ Len(SubSeq(l, 1, m)) = IF 1 <= m THEN m - 1 + 1 ELSE 0
        /\ \A i \in 1 .. m - 1 + 1 : SubSeq(l, 1, m)[i] = l[1 + i - 1]
    BY <2>1, <2>3, SubSeqProperties
  <2>5. Len(SubSeq(l, 1, m)) = m
    BY <2>1, <2>4
  <2>6. ASSUME NEW i \in 1 .. m PROVE SubSeq(l, 1, m)[i] = l[i]
    <3>1. i \in 1 .. m - 1 + 1 /\ 1 + i - 1 = i
      BY <2>1
    <3> QED BY <3>1, <2>4
  <2> QED BY <2>1, <2>2, <2>4, <2>5, <2>6
<1> QED BY <1>1, <1>2, <1>3

\* The slot of the new process: at the end, or the one freed last.
LEMMA FinishSlot ==
  ASSUME LoaderAssumption, Inv, FinishLoad
  PROVE  /\ new.pid \in 1 .. MaxProcs
         /\ new.pid \in 1 .. Len(procs) => ~procs[new.pid].live
         /\ procs' \in Seq(Slots) /\ Len(procs') <= MaxProcs
         /\ 1 .. Len(procs') = (1 .. Len(procs)) \cup {new.pid}
         /\ procs'[new.pid] = [table |-> new.table, info |-> info, live |-> TRUE]
         /\ \A p \in 1 .. Len(procs) : p # new.pid => procs'[p] = procs[p]
         /\ freePids' \in Seq(Nat) /\ PidsExact'
<1>1. /\ at = "finish"
      /\ \/ /\ freePids # <<>> /\ new.pid = Last(freePids)
            /\ procs' = [procs EXCEPT ![new.pid] =
                           [table |-> new.table, info |-> info, live |-> TRUE]]
            /\ freePids' = Front(freePids)
         \/ /\ ~(freePids # <<>> /\ new.pid = Last(freePids))
            /\ procs' = Append(procs, [table |-> new.table, info |-> info,
                                       live |-> TRUE])
            /\ UNCHANGED freePids
  BY DEF FinishLoad, IsAt
<1>2. /\ new.table \in Tables /\ info \in Infos
      /\ new.pid = IF freePids = <<>> THEN Len(procs) + 1 ELSE Last(freePids)
      /\ Len(procs) < MaxProcs \/ freePids # <<>>
  BY <1>1, WhileBuilding DEF Building
<1>3. PICK e \in Slots : e = [table |-> new.table, info |-> info, live |-> TRUE]
  BY <1>2 DEF Slots
<1>4. /\ procs \in Seq(Slots) /\ Len(procs) \in Nat /\ Len(procs) <= MaxProcs
      /\ freePids \in Seq(Nat) /\ MaxProcs \in Nat
      /\ IsInjective(freePids)
      /\ Range(freePids) = {p \in 1 .. Len(procs) : ~procs[p].live}
  BY SizesAreNat DEF Inv, Types, PidsExact
<1>5. e.live
  BY <1>3
<1>6. PICK n : n = new.pid
  OBVIOUS
<1>7. CASE freePids = <<>>
  <2>1. procs' = Append(procs, e) /\ freePids' = <<>> /\ n = Len(procs) + 1
    BY <1>1, <1>2, <1>3, <1>6, <1>7
  <2>2. /\ procs' \in Seq(Slots) /\ Len(procs') = Len(procs) + 1
        /\ procs'[n] = e
        /\ \A p \in 1 .. Len(procs) : procs'[p] = procs[p]
    BY <2>1, <1>4, AppendProperties
  <2>3. n \in 1 .. MaxProcs /\ Len(procs') <= MaxProcs /\ n \notin 1 .. Len(procs)
    BY <2>1, <2>2, <1>2, <1>4, <1>7
  <2>4. 1 .. Len(procs') = (1 .. Len(procs)) \cup {n}
    BY <2>1, <2>2, <1>4
  <2>5. \A p \in 1 .. Len(procs) : procs[p].live
    <3>1. Range(freePids) = {}
      BY <1>7 DEF Range
    <3> QED BY <3>1, <1>4
  <2>6. {p \in 1 .. Len(procs') : ~procs'[p].live} = {}
    BY <2>2, <2>4, <2>5, <1>5
  <2>7. PidsExact'
    BY <2>1, <2>6, <1>4, <1>7 DEF PidsExact, Range, IsInjective
  <2> QED BY <2>1, <2>2, <2>3, <2>4, <2>7, <1>3, <1>4, <1>6, <1>7
<1>8. CASE freePids # <<>>
  <2>1. n = Last(freePids) /\ procs' = [procs EXCEPT ![n] = e]
        /\ freePids' = Front(freePids)
    BY <1>1, <1>2, <1>3, <1>6, <1>8
  <2>2. PICK m \in Nat \ {0} :
          /\ m = Len(freePids) /\ n = freePids[m]
          /\ freePids' \in Seq(Nat) /\ Len(freePids') = m - 1
          /\ \A i \in 1 .. m - 1 : freePids'[i] = freePids[i]
    BY <2>1, <1>4, <1>8, LastAndFront
  <2>3. /\ DOMAIN freePids = 1 .. m /\ DOMAIN freePids' = 1 .. m - 1
        /\ m \in 1 .. m
    BY <2>2, <1>4
  <2>4. n \in Range(freePids)
    BY <2>2, <2>3 DEF Range
  <2>5. n \in 1 .. Len(procs) /\ ~procs[n].live
    BY <2>4, <1>4
  <2>6. /\ procs' \in Seq(Slots) /\ Len(procs') = Len(procs)
        /\ procs'[n] = e
        /\ \A p \in 1 .. Len(procs) : p # n => procs'[p] = procs[p]
    BY <2>1, <2>5, <1>3, <1>4
  <2>7. IsInjective(freePids')
    <3>1. \A i, j \in 1 .. m : freePids[i] = freePids[j] => i = j
      BY <2>3, <1>4 DEF IsInjective
    <3>2. \A i \in 1 .. m - 1 : i \in 1 .. m /\ freePids'[i] = freePids[i]
      BY <2>2
    <3>3. \A i, j \in 1 .. m - 1 : freePids'[i] = freePids'[j] => i = j
      BY <3>1, <3>2
    <3> QED BY <3>3, <2>3 DEF IsInjective
  <2>8. Range(freePids') = Range(freePids) \ {n}
    <3>1. ASSUME NEW i \in 1 .. m - 1
          PROVE  freePids'[i] \in Range(freePids) /\ freePids'[i] # n
      <4>1. i \in 1 .. m /\ i # m /\ freePids'[i] = freePids[i]
        BY <2>2
      <4> QED BY <4>1, <2>2, <2>3, <1>4 DEF Range, IsInjective
    <3>2. ASSUME NEW x \in Range(freePids), x # n
          PROVE  x \in Range(freePids')
      <4>1. PICK i \in 1 .. m : x = freePids[i]
        BY <2>3 DEF Range
      <4>2. i \in 1 .. m - 1
        BY <4>1, <3>2, <2>2
      <4> QED BY <4>1, <4>2, <2>2, <2>3 DEF Range
    <3> QED BY <3>1, <3>2, <2>3 DEF Range
  <2>9. {p \in 1 .. Len(procs') : ~procs'[p].live}
          = {p \in 1 .. Len(procs) : ~procs[p].live} \ {n}
    BY <2>6, <1>5
  <2>10. PidsExact'
    BY <2>7, <2>8, <2>9, <1>4 DEF PidsExact
  <2>11. 1 .. Len(procs') = (1 .. Len(procs)) \cup {n} /\ n \in 1 .. MaxProcs
    BY <2>5, <2>6, <1>4
  <2> QED BY <2>2, <2>5, <2>6, <2>10, <2>11, <1>3, <1>4, <1>6
<1> QED BY <1>7, <1>8

LEMMA FinishInv ==
  ASSUME LoaderAssumption, Inv, FinishLoad
  PROVE  Inv'
<1>1. /\ at = "finish" /\ at' = "idle" /\ pos' = 0 /\ need' = 0 /\ out' = 0
      /\ sec' = 0 /\ page' = 0 /\ info' = NoInfo /\ new' = NotLoading
      /\ file' = NoFile /\ mem' = mem
  BY DEF FinishLoad, IsAt
<1>2. Fits(new.table, info)
  BY <1>1, WhileBuilding DEF Building
<1>3. /\ procs' \in Seq(Slots) /\ Len(procs') <= MaxProcs
      /\ 1 .. Len(procs') = (1 .. Len(procs)) \cup {new.pid}
      /\ procs'[new.pid] = [table |-> new.table, info |-> info, live |-> TRUE]
      /\ \A p \in 1 .. Len(procs) : p # new.pid => procs'[p] = procs[p]
      /\ freePids' \in Seq(Nat) /\ PidsExact'
  BY FinishSlot
<1>4. ProcsInv'
  <2> SUFFICES ASSUME NEW p \in 1 .. Len(procs'), procs'[p].live
               PROVE  Fits(procs'[p].table, procs'[p].info)
    BY DEF ProcsInv, Fits
  <2>1. CASE p = new.pid
    BY <2>1, <1>2, <1>3
  <2>2. CASE p # new.pid
    <3>1. p \in 1 .. Len(procs) /\ procs'[p] = procs[p]
      BY <2>2, <1>3
    <3> QED BY <3>1 DEF Inv, ProcsInv
  <2> QED BY <2>1, <2>2
<1>5. NoInfo \in Infos
  BY DEF NoInfo, Infos, SectionInfo
<1>6. NotLoading \in [pid : 0 .. MaxProcs, table : Tables]
  <2>1. 0 \in 0 .. MaxProcs
    BY SizesAreNat
  <2> QED BY <2>1, NoFrames DEF NotLoading
<1>7. Types'
  BY <1>1, <1>3, <1>5, <1>6 DEF Types, Inv, LoadLabels
<1>8. NewInv' /\ InfoInv' /\ CopyInv'
  BY <1>1 DEF NewInv, InfoInv, CopyInv, Building, Segments
<1> QED BY <1>3, <1>4, <1>7, <1>8 DEF Inv

LEMMA FreeSlot ==
  ASSUME LoaderAssumption, Inv, NEW p \in 1 .. Len(procs), FreeProcess(p)
  PROVE  /\ procs[p].live
         /\ procs' \in Seq(Slots) /\ Len(procs') <= MaxProcs
         /\ Len(procs') \in Nat /\ Len(procs') <= Len(procs)
         /\ p \in 1 .. Len(procs') => ~procs'[p].live
         /\ \A q \in 1 .. Len(procs) :
              q # p => q \in 1 .. Len(procs') /\ procs'[q] = procs[q]
         /\ \A q \in 1 .. Len(procs') : procs'[q] = procs[q] \/ procs'[q] = Absent
         /\ freePids' \in Seq(Nat) /\ PidsExact'
<1>1. /\ procs[p].live
      /\ \/ p = Len(procs) /\ procs' = Front(procs) /\ UNCHANGED freePids
         \/ /\ p # Len(procs)
            /\ procs' = [procs EXCEPT ![p] = Absent]
            /\ freePids' = Append(freePids, p)
  BY DEF FreeProcess
<1>2. /\ procs \in Seq(Slots) /\ Len(procs) \in Nat /\ Len(procs) <= MaxProcs
      /\ freePids \in Seq(Nat) /\ MaxProcs \in Nat /\ p \in Nat
      /\ IsInjective(freePids)
      /\ Range(freePids) = {q \in 1 .. Len(procs) : ~procs[q].live}
  BY SizesAreNat DEF Inv, Types, PidsExact
<1>3. PICK n \in Nat : n = Len(procs)
  BY <1>2
<1>4. CASE p = n
  <2>1. procs' = Front(procs) /\ freePids' = freePids
    BY <1>1, <1>3, <1>4
  <2>2. procs # <<>>
    BY <1>2
  <2>3. /\ procs' \in Seq(Slots) /\ Len(procs') = n - 1
        /\ \A q \in 1 .. n - 1 : procs'[q] = procs[q]
    BY <2>1, <2>2, <1>2, <1>3, LastAndFront
  <2>4. {q \in 1 .. n - 1 : ~procs'[q].live} = {q \in 1 .. n : ~procs[q].live}
    BY <2>3, <1>1, <1>4
  <2>5. PidsExact'
    BY <2>1, <2>3, <2>4, <1>2, <1>3 DEF PidsExact
  <2> QED BY <2>1, <2>3, <2>5, <1>1, <1>2, <1>3, <1>4
<1>5. CASE p # n
  <2>1. procs' = [procs EXCEPT ![p] = Absent] /\ freePids' = Append(freePids, p)
    BY <1>1, <1>3, <1>5
  <2>2. Absent \in Slots /\ ~Absent.live
    BY NoFrames DEF Absent, Slots, NoInfo, Infos, SectionInfo
  <2>3. /\ procs' \in Seq(Slots) /\ Len(procs') = n
        /\ procs'[p] = Absent
        /\ \A q \in 1 .. n : q # p => procs'[q] = procs[q]
    BY <2>1, <2>2, <1>2, <1>3
  <2>4. PICK m \in Nat : m = Len(freePids) /\ DOMAIN freePids = 1 .. m
    BY <1>2
  <2>5. /\ freePids' \in Seq(Nat) /\ Len(freePids') = m + 1
        /\ DOMAIN freePids' = 1 .. m + 1
        /\ freePids'[m + 1] = p
        /\ \A i \in 1 .. m : freePids'[i] = freePids[i]
    BY <2>1, <2>4, <1>2, AppendProperties
  <2>6. p \notin Range(freePids)
    BY <1>1, <1>2
  <2>7. \A i \in 1 .. m : freePids[i] # p
    BY <2>4, <2>6 DEF Range
  <2>8. IsInjective(freePids')
    <3>1. ASSUME NEW i \in 1 .. m + 1, NEW j \in 1 .. m + 1,
                 freePids'[i] = freePids'[j]
          PROVE  i = j
      <4>1. CASE i \in 1 .. m /\ j \in 1 .. m
        BY <4>1, <3>1, <2>4, <2>5, <1>2 DEF IsInjective
      <4>2. CASE i = m + 1 /\ j \in 1 .. m
        BY <4>2, <3>1, <2>5, <2>7
      <4>3. CASE j = m + 1 /\ i \in 1 .. m
        BY <4>3, <3>1, <2>5, <2>7
      <4>4. CASE i = m + 1 /\ j = m + 1
        BY <4>4
      <4> QED BY <4>1, <4>2, <4>3, <4>4
    <3> QED BY <3>1, <2>5 DEF IsInjective
  <2>9. Range(freePids') = Range(freePids) \cup {p}
    <3>1. 1 .. m + 1 = (1 .. m) \cup {m + 1}
      OBVIOUS
    <3>2. Range(freePids') = {freePids'[i] : i \in (1 .. m) \cup {m + 1}}
      BY <3>1, <2>5 DEF Range
    <3>3. Range(freePids) = {freePids[i] : i \in 1 .. m}
      BY <2>4 DEF Range
    <3> QED BY <3>2, <3>3, <2>5
  <2>10. {q \in 1 .. n : ~procs'[q].live} = {q \in 1 .. n : ~procs[q].live} \cup {p}
    BY <2>2, <2>3, <1>3
  <2>11. PidsExact'
    BY <2>3, <2>8, <2>9, <2>10, <1>2, <1>3 DEF PidsExact
  <2> QED BY <2>2, <2>3, <2>5, <2>11, <1>1, <1>2, <1>3
<1> QED BY <1>4, <1>5

LEMMA FreeProcessInv ==
  ASSUME LoaderAssumption, Inv, NEW p \in 1 .. Len(procs), FreeProcess(p)
  PROVE  Inv'
<1>1. /\ at = "idle"
      /\ UNCHANGED <<mem, at, file, pos, need, out, sec, info, new, page>>
  BY DEF FreeProcess
<1>2. /\ procs' \in Seq(Slots) /\ Len(procs') <= MaxProcs
      /\ \A q \in 1 .. Len(procs') : procs'[q] = procs[q] \/ procs'[q] = Absent
      /\ Len(procs') \in Nat /\ Len(procs') <= Len(procs)
      /\ freePids' \in Seq(Nat) /\ PidsExact'
  BY FreeSlot
<1>3. ProcsInv'
  <2> SUFFICES ASSUME NEW q \in 1 .. Len(procs'), procs'[q].live
               PROVE  Fits(procs'[q].table, procs'[q].info)
    BY DEF ProcsInv, Fits
  <2>1. procs'[q] = procs[q]
    BY <1>2 DEF Absent
  <2>2. q \in 1 .. Len(procs)
    BY <1>2 DEF Inv, Types
  <2> QED BY <2>1, <2>2 DEF Inv, ProcsInv
<1>4. Types'
  BY <1>1, <1>2 DEF Types, Inv
<1>5. NewInv' /\ InfoInv' /\ CopyInv'
  BY <1>1 DEF NewInv, InfoInv, CopyInv, Inv, Building, Segments
<1> QED BY <1>2, <1>3, <1>4, <1>5 DEF Inv

-----------------------------------------------------------------------------
(* The invariant *)

LEMMA InitInv ==
  ASSUME LoaderAssumption, LoaderInit
  PROVE  Inv
<1>1. /\ mem = [a \in Addresses |-> Junk] /\ procs = <<>> /\ freePids = <<>>
      /\ at = "idle" /\ file = NoFile /\ pos = 0 /\ need = 0 /\ out = 0
      /\ sec = 0 /\ page = 0 /\ info = NoInfo /\ new = NotLoading
  BY DEF LoaderInit
<1>2. Len(procs) = 0 /\ MaxProcs \in Nat
  BY <1>1, SizesAreNat
<1>3. NoInfo \in Infos
  BY DEF NoInfo, Infos, SectionInfo
<1>4. NotLoading \in [pid : 0 .. MaxProcs, table : Tables]
  BY <1>2, NoFrames DEF NotLoading
<1>5. Types
  BY <1>1, <1>2, <1>3, <1>4 DEF Types, LoadLabels
<1>6. ProcsInv /\ NewInv /\ InfoInv /\ CopyInv
  BY <1>1, <1>2 DEF ProcsInv, NewInv, InfoInv, CopyInv, Building, Segments
<1>7. PidsExact
  BY <1>1, <1>2 DEF PidsExact, IsInjective, Range
<1> QED BY <1>5, <1>6, <1>7 DEF Inv

LEMMA StepInv ==
  ASSUME LoaderAssumption, Inv, [LoaderNext]_loaderVars
  PROVE  Inv'
<1>1. ASSUME NEW f \in Files, Create(f) PROVE Inv'
  BY <1>1, CreateInv
<1>2. CASE ReadSome
  BY <1>2, ReadSomeInv
<1>3. CASE ReadNothing
  BY <1>3, ReturnFailedInv DEF ReadNothing
<1>4. CASE ReadShstr
  BY <1>4, ReadShstrInv
<1>5. CASE ReadSection
  BY <1>5, ReadSectionInv
<1>6. CASE ReadName
  BY <1>6, ReadNameInv
<1>7. CASE NoteSection
  BY <1>7, NoteSectionInv
<1>8. CASE Allocate
  BY <1>8, AllocateInv
<1>9. CASE AssertFails
  BY <1>9, AssertFailsInv
<1>10. ASSUME NEW s \in Segments,
              StartSegment(s) \/ SkipSegment(s) \/ NextPage(s) \/ EndSegment(s)
       PROVE  Inv'
  BY <1>10, StartSegmentInv, SkipSegmentInv, NextPageInv, EndSegmentInv
<1>11. CASE FinishLoad
  BY <1>11, FinishInv
<1>12. ASSUME NEW p \in 1 .. Len(procs), FreeProcess(p) PROVE Inv'
  BY <1>12, FreeProcessInv
<1>13. CASE UNCHANGED loaderVars
  <2>1. /\ mem' = mem /\ procs' = procs /\ freePids' = freePids /\ at' = at
        /\ file' = file /\ pos' = pos /\ need' = need /\ out' = out
        /\ sec' = sec /\ info' = info /\ new' = new /\ page' = page
    BY <1>13 DEF loaderVars
  <2>2. Types' /\ ProcsInv' /\ PidsExact'
    BY <2>1 DEF Inv, Types, ProcsInv, PidsExact
  <2>3. Building' <=> Building
    BY <2>1 DEF Building
  <2>4. NewInv'
    BY <2>1, <2>3 DEF Inv, NewInv
  <2>5. InfoInv'
    BY <2>1, <2>3 DEF Inv, InfoInv
  <2>6. /\ \A s : ReadAmount(s, page)' = ReadAmount(s, page)
        /\ \A s : Got(s)' = Got(s)
    BY <2>1 DEF Got, ReadAmount
  <2>7. CopyInv'
    <3>1. \A s \in Segments :
            Copied(s, page * PageSize + Got(s))' <=> Copied(s, page * PageSize + Got(s))
      BY <2>1, <2>6 DEF Copied
    <3>2. /\ Copied("text", info.text.size)' <=> Copied("text", info.text.size)
          /\ Copied("data", info.data.size)' <=> Copied("data", info.data.size)
      BY <2>1 DEF Copied
    <3> QED BY <2>1, <2>6, <3>1, <3>2 DEF Inv, CopyInv
  <2> QED BY <2>2, <2>4, <2>5, <2>7 DEF Inv
<1> QED BY <1>1, <1>2, <1>3, <1>4, <1>5, <1>6, <1>7, <1>8, <1>9, <1>10, <1>11,
           <1>12, <1>13 DEF LoaderNext, LoaderStep

\* The inductive invariant holds in every state of ProgramLoader.
THEOREM LoaderInvariant == LoaderAssumption => (LoaderSpec => []Inv)
<1> SUFFICES ASSUME LoaderAssumption PROVE LoaderSpec => []Inv
  OBVIOUS
<1>1. LoaderInit => Inv
  BY InitInv
<1>2. Inv /\ [LoaderNext]_loaderVars => Inv'
  BY StepInv
<1> QED BY <1>1, <1>2, PTL DEF LoaderSpec

LEMMA InvTypes ==
  ASSUME LoaderAssumption, Inv
  PROVE  LoaderTypeOK
<1>1. \A a \in Addresses :
        mem[a] # Junk => mem[a][1] \in Files /\ mem[a][2] \in Nat
  BY DEF Inv, Types
<1>2. Range(freePids) \subseteq 1 .. Len(procs)
  BY DEF Inv, PidsExact
<1>3. FramesOf(new.table) \subseteq 0 .. NumFrames - 1
  <2>1. new.table \in Tables
    BY DEF Inv, Types
  <2> QED BY <2>1, FramesTyped DEF FrameNumbers
<1> QED BY <1>1, <1>2, <1>3 DEF LoaderTypeOK, Inv, Types

LEMMA InvWrites ==
  ASSUME LoaderAssumption, Inv
  PROVE  WritesOwnFrame
<1> SUFFICES ASSUME NEW s \in Segments, at = s, need > 0
             PROVE  /\ page + 1 <= Len(new.table[s])
                    /\ out + need <= (new.table[s][page + 1] + 1) * PageSize
                    /\ out >= new.table[s][page + 1] * PageSize
  BY DEF WritesOwnFrame, Copying, Segments
<1>1. /\ page + 1 \in 1 .. Len(new.table[s])
      /\ new.table[s][page + 1] \in FrameNumbers
      /\ new.table[s] \in Seq(FrameNumbers)
  BY PageFrame
<1>2. /\ page * PageSize < info[s].size
      /\ need <= ReadAmount(s, page)
      /\ out = new.table[s][page + 1] * PageSize + (ReadAmount(s, page) - need)
      /\ need \in Nat /\ page \in Nat /\ PageSize \in Nat \ {0}
  BY SizesAreNat DEF Inv, CopyInv, Types, Got
<1>3. PICK amount \in 1 .. PageSize : amount = ReadAmount(s, page)
  BY <1>2, AmountIs DEF Inv
<1>4. PICK f \in Nat : f = new.table[s][page + 1]
  BY <1>1 DEF FrameNumbers
<1>5. (f + 1) * PageSize = f * PageSize + PageSize /\ f * PageSize \in Nat
  BY <1>2, Z3
<1>6. PICK b \in Nat : b = f * PageSize
  BY <1>5
<1>7. out = b + (amount - need)
  BY <1>2, <1>3, <1>4, <1>6
<1>8. out + need <= b + PageSize /\ out >= b
  BY <1>2, <1>3, <1>7
<1> QED BY <1>1, <1>4, <1>5, <1>6, <1>8

-----------------------------------------------------------------------------
(* The refinement *)

SegmentIn(m, proc, s) ==
  [i \in 0 .. proc.info[s].size - 1 |-> m[Place(proc.table, s, i)]]

ImageIn(m, ps) ==
  [p \in Pids |-> IF p \in 1 .. Len(ps) /\ ps[p].live
                    THEN [s \in Segments |-> SegmentIn(m, ps[p], s)] ELSE <<>>]

LEMMA ImageIs == Image = ImageIn(mem, procs) /\ Image' = ImageIn(mem', procs')
BY DEF Image, ImageIn, Segment, SegmentIn, Place

\* A read goes to no segment of a process that has been loaded.
LEMMA ReadKeepsImage ==
  ASSUME LoaderAssumption, Inv, ReadSome
  PROVE  Image' = Image
<1>1. procs' = procs
  BY DEF ReadSome
<1>2. CASE ~Copying
  <2>1. mem' = mem
    BY <1>2 DEF ReadSome
  <2> QED BY <2>1, <1>1, ImageIs
<1>3. ASSUME NEW c \in Segments, at = c PROVE Image' = Image
  <2>1. PICK f : f \in FramesOf(new.table) /\ Only(f)
    <3>1. /\ new.table[c][page + 1] \in Range(new.table[c])
          /\ Range(new.table[c]) \in SUBSET FramesOf(new.table)
          /\ Only(new.table[c][page + 1])
      BY <1>3, CopyStep, PageFrame
    <3> QED BY <3>1
  <2>2. ASSUME NEW p \in 1 .. Len(procs), procs[p].live, NEW s \in Segments
        PROVE  SegmentIn(mem', procs[p], s) = SegmentIn(mem, procs[p], s)
    <3>1. /\ procs[p].table \in Tables /\ procs[p].info \in Infos
          /\ Fits(procs[p].table, procs[p].info)
      BY <2>2, ProcTyped DEF Inv, ProcsInv
    <3>2. f \notin FramesOf(procs[p].table)
      <4>1. Building
        BY <1>3 DEF Building, Segments
      <4> QED BY <4>1, <2>1, WhileBuilding
    <3>3. f \notin Range(procs[p].table[s])
      BY <3>2 DEF FramesOf, Segments
    <3>4. ASSUME NEW i \in 0 .. procs[p].info[s].size - 1
          PROVE  mem'[Place(procs[p].table, s, i)]
                   = mem[Place(procs[p].table, s, i)]
      <4>1. i \in Nat /\ i < procs[p].info[s].size
        BY <3>1, SizesTyped
      <4> QED BY <4>1, <3>1, <3>3, <2>1, SegmentKept
    <3> QED BY <3>4 DEF SegmentIn
  <2>3. ImageIn(mem', procs) = ImageIn(mem, procs)
    BY <2>2 DEF ImageIn
  <2> QED BY <2>3, <1>1, ImageIs
<1>4. Copying => at \in Segments
  BY DEF Copying, Segments
<1> QED BY <1>2, <1>3, <1>4

\* What info says and what was copied are the bytes of the file.
LEMMA SegmentIsBytes ==
  ASSUME LoaderAssumption, Inv, at = "finish", NEW s \in Segments
  PROVE  SegmentIn(mem, [table |-> new.table, info |-> info, live |-> TRUE], s)
           = ProgramsOf!Bytes(file, s)
<1> DEFINE proc == [table |-> new.table, info |-> info, live |-> TRUE]
           named == {j \in 1 .. Len(Layout[file].sections) :
                       Layout[file].sections[j].name = s}
<1>1. Building /\ file \in Files /\ info \in Infos
  BY WhileBuilding DEF Building
<1>2. Copied(s, info[s].size)
  BY DEF Inv, CopyInv, Segments
<1>3. SegmentIn(mem, proc, s)
        = [i \in 0 .. info[s].size - 1 |-> <<file, info[s].offset + i>>]
  BY <1>2 DEF SegmentIn, Copied
<1>4. \/ named = {} /\ info[s] = [offset |-> 0, size |-> 0]
      \/ \E j \in named :
           /\ \A k \in named : k <= j
           /\ info[s] = [offset |-> Layout[file].sections[j].offset,
                         size |-> Layout[file].sections[j].size]
  <2>1. Noted(file, Len(Layout[file].sections), info)
    BY <1>1 DEF Inv, InfoInv
  <2> QED BY <2>1 DEF Noted, Segments
<1>5. ProgramsOf!Named(file, s) = named
  BY DEF ProgramsOf!Named
<1> HIDE DEF named
<1>6. CASE named = {}
  <2>1. info[s].size = 0
    BY <1>4, <1>6
  <2>2. 0 .. info[s].size - 1 = {}
    BY <2>1
  <2>3. ProgramsOf!Bytes(file, s) = <<>>
    BY <1>5, <1>6 DEF ProgramsOf!Bytes
  <2>4. [i \in {} |-> <<file, info[s].offset + i>>] = <<>>
    OBVIOUS
  <2> QED BY <1>3, <2>2, <2>3, <2>4
<1>7. CASE named # {}
  <2>1. PICK j \in named :
          /\ \A k \in named : k <= j
          /\ info[s] = [offset |-> Layout[file].sections[j].offset,
                        size |-> Layout[file].sections[j].size]
    BY <1>4, <1>7
  <2>2. named \subseteq Int
    BY <1>1, LayoutTyped DEF named
  <2>3. (CHOOSE i \in ProgramsOf!Named(file, s) :
           \A k \in ProgramsOf!Named(file, s) : k <= i) = j
    <3>1. \A i \in named : (\A k \in named : k <= i) => i = j
      BY <2>1, <2>2
    <3>2. /\ j \in ProgramsOf!Named(file, s)
          /\ \A k \in ProgramsOf!Named(file, s) : k <= j
          /\ \A i \in ProgramsOf!Named(file, s) :
               (\A k \in ProgramsOf!Named(file, s) : k <= i) => i = j
      BY <2>1, <3>1, <1>5
    <3> QED BY <3>2, Zenon
  <2>4. ProgramsOf!Bytes(file, s)
          = [k \in 0 .. Layout[file].sections[j].size - 1 |->
               <<file, Layout[file].sections[j].offset + k>>]
    <3>1. ProgramsOf!Named(file, s) # {}
      BY <1>5, <1>7
    <3>2. PICK k : k = (CHOOSE i \in ProgramsOf!Named(file, s) :
                          \A h \in ProgramsOf!Named(file, s) : h <= i)
      OBVIOUS
    <3>3. ProgramsOf!Bytes(file, s)
            = [i \in 0 .. Layout[file].sections[k].size - 1 |->
                 <<file, Layout[file].sections[k].offset + i>>]
      BY <3>1, <3>2 DEF ProgramsOf!Bytes
    <3> QED BY <3>2, <3>3, <2>3
  <2> QED BY <1>3, <2>1, <2>4
<1> QED BY <1>6, <1>7

\* createProcess returns a PID: the process appears with all its bytes.
LEMMA FinishLoads ==
  ASSUME LoaderAssumption, Inv, FinishLoad
  PROVE  ProgramsOf!Load(new.pid, file) /\ new.pid \in Pids /\ file \in Files
<1> DEFINE proc == [table |-> new.table, info |-> info, live |-> TRUE]
<1>1. at = "finish" /\ mem' = mem
  BY DEF FinishLoad, IsAt
<1>2. file \in Files
  BY <1>1, WhileBuilding DEF Building
<1>3. /\ new.pid \in 1 .. MaxProcs
      /\ new.pid \in 1 .. Len(procs) => ~procs[new.pid].live
      /\ 1 .. Len(procs') = (1 .. Len(procs)) \cup {new.pid}
      /\ procs'[new.pid] = proc
      /\ \A p \in 1 .. Len(procs) : p # new.pid => procs'[p] = procs[p]
  BY FinishSlot
<1>4. PICK n \in Pids : n = new.pid
  BY <1>3 DEF Pids
<1>5. Image[n] = <<>>
  BY <1>3, <1>4, ImageIs DEF ImageIn
<1>6. ASSUME NEW p \in Pids, p # n
      PROVE  ImageIn(mem, procs')[p] = Image[p]
  <2>1. p \in 1 .. Len(procs') <=> p \in 1 .. Len(procs)
    BY <1>3, <1>4, <1>6
  <2>2. p \in 1 .. Len(procs) => procs'[p] = procs[p]
    BY <1>3, <1>4, <1>6
  <2> QED BY <2>1, <2>2, ImageIs DEF ImageIn
<1>7. ImageIn(mem, procs')[n]
        = [s \in {"text", "data"} |-> ProgramsOf!Bytes(file, s)]
  <2>1. n \in 1 .. Len(procs') /\ procs'[n] = proc /\ procs'[n].live
    BY <1>3, <1>4
  <2>2. ImageIn(mem, procs')[n] = [s \in Segments |-> SegmentIn(mem, proc, s)]
    BY <2>1 DEF ImageIn
  <2>3. \A s \in Segments : SegmentIn(mem, proc, s) = ProgramsOf!Bytes(file, s)
    BY <1>1, SegmentIsBytes
  <2> HIDE DEF proc
  <2> QED BY <2>2, <2>3 DEF Segments
<1>8. Image' = [Image EXCEPT
                  ![n] = [s \in {"text", "data"} |-> ProgramsOf!Bytes(file, s)]]
  <2>1. Image' = ImageIn(mem, procs')
    BY <1>1, ImageIs
  <2>2. DOMAIN Image = Pids /\ Image = [p \in Pids |-> Image[p]]
    BY DEF Image
  <2>3. ImageIn(mem, procs') = [p \in Pids |-> ImageIn(mem, procs')[p]]
    BY DEF ImageIn
  <2> QED BY <1>6, <1>7, <2>1, <2>2, <2>3
<1> QED BY <1>2, <1>4, <1>5, <1>8 DEF ProgramsOf!Load

LEMMA FreeUnloads ==
  ASSUME LoaderAssumption, Inv, NEW p \in 1 .. Len(procs), FreeProcess(p)
  PROVE  ProgramsOf!Unload(p) /\ p \in Pids
<1>1. mem' = mem
  BY DEF FreeProcess
<1>2. /\ procs[p].live
      /\ Len(procs') \in Nat /\ Len(procs') <= Len(procs)
      /\ p \in 1 .. Len(procs') => ~procs'[p].live
      /\ \A q \in 1 .. Len(procs) :
           q # p => q \in 1 .. Len(procs') /\ procs'[q] = procs[q]
  BY FreeSlot
<1>3. p \in Pids /\ Len(procs) \in Nat
  BY SizesAreNat DEF Pids, Inv, Types
<1>4. Image[p] # <<>>
  <2>1. Image[p] = [s \in Segments |-> SegmentIn(mem, procs[p], s)]
    BY <1>2, <1>3, ImageIs DEF ImageIn
  <2>2. DOMAIN Image[p] = Segments
    BY <2>1
  <2>3. DOMAIN <<>> = {}
    OBVIOUS
  <2> QED BY <2>2, <2>3 DEF Segments
<1>5. ASSUME NEW q \in Pids
      PROVE  ImageIn(mem, procs')[q] = IF q = p THEN <<>> ELSE Image[q]
  <2>1. q # p => (q \in 1 .. Len(procs') <=> q \in 1 .. Len(procs))
    BY <1>2, <1>3
  <2>2. q # p /\ q \in 1 .. Len(procs) => procs'[q] = procs[q]
    BY <1>2
  <2> QED BY <2>1, <2>2, <1>2, ImageIs DEF ImageIn
<1>6. Image' = [Image EXCEPT ![p] = <<>>]
  <2>1. Image' = ImageIn(mem, procs')
    BY <1>1, ImageIs
  <2>2. DOMAIN Image = Pids /\ Image = [q \in Pids |-> Image[q]]
    BY DEF Image
  <2>3. ImageIn(mem, procs') = [q \in Pids |-> ImageIn(mem, procs')[q]]
    BY DEF ImageIn
  <2> QED BY <1>3, <1>5, <2>1, <2>2, <2>3
<1> QED BY <1>3, <1>4, <1>6 DEF ProgramsOf!Unload

LEMMA StepLoads ==
  ASSUME LoaderAssumption, Inv, [LoaderNext]_loaderVars
  PROVE  [ProgramsOf!Next]_Image
<1>1. ASSUME UNCHANGED <<mem, procs>> PROVE Image' = Image
  BY <1>1, ImageIs
<1>2. CASE ReadSome
  BY <1>2, ReadKeepsImage
<1>3. CASE FinishLoad
  BY <1>3, FinishLoads DEF ProgramsOf!Next, ProgramsOf!Pids, Pids
<1>4. ASSUME NEW p \in 1 .. Len(procs), FreeProcess(p)
      PROVE  ProgramsOf!Next
  BY <1>4, FreeUnloads DEF ProgramsOf!Next, ProgramsOf!Pids, Pids
<1>5. ASSUME NEW f \in Files, Create(f) PROVE UNCHANGED <<mem, procs>>
  BY <1>5 DEF Create
<1>6. CASE \/ ReadNothing \/ ReadShstr \/ ReadSection \/ ReadName
           \/ NoteSection \/ Allocate \/ AssertFails \/ UNCHANGED loaderVars
  BY <1>6, <1>1 DEF ReadNothing, ReturnFailed, ReadShstr, ReadSection, ReadName,
                    NoteSection, Allocate, AssertFails, loaderVars
<1>7. ASSUME NEW s \in Segments,
             StartSegment(s) \/ SkipSegment(s) \/ NextPage(s) \/ EndSegment(s)
      PROVE  UNCHANGED <<mem, procs>>
  BY <1>7 DEF StartSegment, SkipSegment, NextPage, EndSegment
<1> QED BY <1>1, <1>2, <1>3, <1>4, <1>5, <1>6, <1>7 DEF LoaderNext, LoaderStep

\* createProcess, on any file: a process appears with the bytes of its file
\* or not at all and keeps them as long as it lives; what is written goes to
\* its frames only, and the PIDs are as they were when it fails.
THEOREM LoadsPrograms == LoaderAssumption => (LoaderSpec => ProgramsLoaded)
<1> SUFFICES ASSUME LoaderAssumption PROVE LoaderSpec => ProgramsLoaded
  OBVIOUS
<1>1. Inv => LoaderTypeOK /\ WritesOwnFrame /\ PidsExact
  BY InvTypes, InvWrites DEF Inv
<1>2. LoaderInit => ProgramsOf!Init
  <2> SUFFICES ASSUME LoaderInit PROVE ProgramsOf!Init
    OBVIOUS
  <2>1. procs = <<>>
    BY DEF LoaderInit
  <2>2. 1 .. Len(procs) = {}
    BY <2>1
  <2>3. Image = [p \in Pids |-> <<>>]
    BY <2>2, ImageIs DEF ImageIn
  <2> QED BY <2>3 DEF ProgramsOf!Init, ProgramsOf!Pids, Pids
<1>3. Inv /\ [LoaderNext]_loaderVars => [ProgramsOf!Next]_Image
  BY StepLoads
<1>4. LoaderSpec => []Inv
  BY LoaderInvariant
<1> QED BY <1>1, <1>2, <1>3, <1>4, PTL
        DEF LoaderSpec, ProgramsLoaded, ProgramsRefinement, ProgramsOf!Spec

=============================================================================
