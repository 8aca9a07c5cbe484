------------------------ MODULE ProcessManagerProofs ------------------------
(***************************************************************************)
(* The properties of ProcessManager, for any number of frames, ASIDs and   *)
(* pages.  The invariants of ProcessManager are inductive together, with   *)
(* the types of the data below them and what step says of current and      *)
(* newborn.                                                                *)
(*                                                                         *)
(* A trap changes the vector of processes in one of three ways: a slot is  *)
(* updated, a process is placed, or one is removed.  There is a lemma for  *)
(* what each does to the slots and the free PIDs, and one for frames and   *)
(* one for ASIDs; the lemma of an action puts them together.               *)
(***************************************************************************)
EXTENDS ProcessManager, FiniteSetTheorems, SequenceTheorems, TLAPS

Tables == UNION {[D -> Frames] : D \in SUBSET Pages}

Pcbs == [table : Tables, asid : Asids, brk : Nat, granted : 0..HeapPages,
         refcount : 0..1, used : {TRUE}]

Slots == Pcbs \cup {Empty}

Types ==
  /\ processes \in Seq(Slots)
  /\ freePids \in Seq(Nat)
  /\ queue \in Seq(Nat)
  /\ asids \subseteq Asids
  /\ frames \subseteq Frames
  /\ lost \subseteq frames
  /\ current \in Nat \cup {NoPid}
  /\ newborn \in Nat \cup {NoPid}
  /\ step \in {"user", "syscall", "exec", "tail"}
  /\ status \in {"up", "halted", "faulted", "unmapped", "noFrame", "noAsid",
                 "hostAbort"}

\* Which Guards there are at a step: none but the one of the process that made
\* the trap, unless it was killed, and that of the new process in exec.
Control ==
  /\ current = NoPid => step = "tail"
  /\ newborn # NoPid <=> step = "exec"

IInv ==
  /\ Types
  /\ Control
  /\ FramesExclusive
  /\ FrameAccounting
  /\ AsidsExact
  /\ FreePidsExact
  /\ RefcountIsGuards
  /\ ScheduledOnce

-----------------------------------------------------------------------------
(* The lowest free frame and the lowest free ASID *)

LEMMA RankRange ==
  ASSUME NEW S \in SUBSET Int, IsFiniteSet(S), NEW x \in S
  PROVE  Rank(x, S) \in 0 .. Cardinality(S) - 1
<1> DEFINE B == {y \in S : y < x}
<1>1. B \in SUBSET (S \ {x})
  OBVIOUS
<1>2. IsFiniteSet(S \ {x}) /\ Cardinality(S \ {x}) = Cardinality(S) - 1
  BY FS_RemoveElement
<1>3. IsFiniteSet(B) /\ Cardinality(B) <= Cardinality(S) - 1
  BY <1>1, <1>2, FS_Subset
<1>. QED  BY <1>3, FS_CardinalityType DEF Rank

LEMMA RankIncreases ==
  ASSUME NEW S \in SUBSET Int, IsFiniteSet(S),
         NEW x \in S, NEW y \in S, x < y
  PROVE  Rank(x, S) < Rank(y, S)
<1> DEFINE B == {z \in S : z < x}
           C == {z \in S : z < y}
<1>1. IsFiniteSet(B) /\ IsFiniteSet(C)
  BY FS_Subset
<1>2. x \notin B /\ B \cup {x} \in SUBSET C
  <2>1. x \in Int /\ y \in Int /\ \A z \in S : z \in Int
    OBVIOUS
  <2>2. x \notin B
    BY <2>1
  <2>3. \A z \in B : z \in C
    BY <2>1
  <2>. QED  BY <2>2, <2>3
<1>3. Cardinality(B \cup {x}) = Cardinality(B) + 1
  BY <1>1, <1>2, FS_AddElement
<1>4. Cardinality(B \cup {x}) <= Cardinality(C)
  BY <1>1, <1>2, FS_Subset
<1>5. Cardinality(B) \in Nat /\ Cardinality(C) \in Nat
  BY <1>1, FS_CardinalityType
<1>. QED  BY <1>3, <1>4, <1>5 DEF Rank

\* There is an element of each rank.
LEMMA RankExists ==
  ASSUME NEW S \in SUBSET Int, IsFiniteSet(S),
         NEW k \in 0 .. Cardinality(S) - 1
  PROVE  \E x \in S : Rank(x, S) = k
<1> DEFINE n == Cardinality(S)
           R == [x \in S |-> Rank(x, S)]
<1>1. n \in Nat
  BY FS_CardinalityType
<1>2. IsFiniteSet(0 .. n - 1) /\ Cardinality(0 .. n - 1) = n
  BY <1>1, FS_Interval
<1>3. R \in [S -> 0 .. n - 1]
  BY RankRange
<1>4. ASSUME NEW x \in S, NEW y \in S, R[x] = R[y]
      PROVE  x = y
  <2>1. x \in Int /\ y \in Int /\ Rank(x, S) \in Int /\ Rank(y, S) \in Int
    BY <1>1, RankRange
  <2>2. x < y => Rank(x, S) < Rank(y, S)
    BY RankIncreases
  <2>3. y < x => Rank(y, S) < Rank(x, S)
    BY RankIncreases
  <2>. QED  BY <1>4, <2>1, <2>2, <2>3
<1>5. R \in Injection(S, 0 .. n - 1)
  BY <1>3, <1>4 DEF Injection, IsInjective
<1>6. R \in Surjection(S, 0 .. n - 1)
  BY <1>2, <1>5, FS_Injection
<1>. QED  BY <1>6 DEF Surjection

LEMMA FiniteSets ==
  /\ Pages \in SUBSET Int /\ IsFiniteSet(Pages)
  /\ Frames \in SUBSET Int /\ IsFiniteSet(Frames)
  /\ Asids \in SUBSET Int /\ IsFiniteSet(Asids)
<1>1. Pages \in SUBSET (-MaxImage .. HeapPages)
  BY ProcessManagerAssumption DEF Pages, Image, Heap
<1>2. IsFiniteSet(-MaxImage .. HeapPages)
  BY ProcessManagerAssumption, FS_Interval
<1>3. IsFiniteSet(Frames) /\ IsFiniteSet(Asids)
  BY ProcessManagerAssumption, FS_Interval DEF Frames, Asids
<1>4. Pages \in SUBSET Int /\ Frames \in SUBSET Int /\ Asids \in SUBSET Int
  BY ProcessManagerAssumption DEF Pages, Image, Heap, Frames, Asids
<1>. QED  BY <1>1, <1>2, <1>3, <1>4, FS_Subset

\* Every page gets a free frame of its own.
LEMMA AllocatedFresh ==
  ASSUME NEW pages \in SUBSET Pages, Enough(pages)
  PROVE  /\ Allocated(pages) \in [pages -> FreeFrames]
         /\ \A p, q \in pages :
              Allocated(pages)[p] = Allocated(pages)[q] => p = q
<1> DEFINE F(p) == CHOOSE f \in FreeFrames :
                     Rank(f, FreeFrames) = Rank(p, pages)
<1>1. pages \in SUBSET Int /\ IsFiniteSet(pages)
  BY FiniteSets, FS_Subset
<1>2. FreeFrames \in SUBSET Int /\ IsFiniteSet(FreeFrames)
  BY FiniteSets, FS_Subset DEF FreeFrames
<1>3. Cardinality(pages) \in Nat /\ Cardinality(FreeFrames) \in Nat
  BY <1>1, <1>2, FS_CardinalityType
<1>4. ASSUME NEW p \in pages
      PROVE  F(p) \in FreeFrames /\ Rank(F(p), FreeFrames) = Rank(p, pages)
  <2>1. Rank(p, pages) \in 0 .. Cardinality(FreeFrames) - 1
    BY <1>1, <1>3, RankRange DEF Enough
  <2>2. \E f \in FreeFrames : Rank(f, FreeFrames) = Rank(p, pages)
    BY <1>2, <2>1, RankExists
  <2>. QED  BY <2>2
<1>5. ASSUME NEW p \in pages, NEW q \in pages, F(p) = F(q)
      PROVE  p = q
  <2>1. Rank(p, pages) = Rank(q, pages)
    BY <1>4, <1>5
  <2>2. p \in Int /\ q \in Int /\ Rank(p, pages) \in Int
    BY <1>1, <1>3, RankRange
  <2>3. p < q => Rank(p, pages) < Rank(q, pages)
    BY <1>1, RankIncreases
  <2>4. q < p => Rank(q, pages) < Rank(p, pages)
    BY <1>1, RankIncreases
  <2>. QED  BY <2>1, <2>2, <2>3, <2>4
<1>. QED  BY <1>4, <1>5 DEF Allocated

LEMMA NextAsidFree ==
  ASSUME asids \subseteq Asids, asids # Asids
  PROVE  NextAsid \in Asids \ asids
<1> DEFINE S == Asids \ asids
<1>1. S \in SUBSET Int /\ IsFiniteSet(S) /\ S # {}
  BY FiniteSets, FS_Subset
<1>2. Cardinality(S) \in Nat /\ Cardinality(S) # 0
  BY <1>1, FS_CardinalityType, FS_EmptySet
<1>3. PICK a \in S : Rank(a, S) = 0
  BY <1>1, <1>2, RankExists
<1>4. {b \in S : b < a} = {}
  <2>1. IsFiniteSet({b \in S : b < a})
    BY <1>1, FS_Subset
  <2>. QED  BY <1>3, <2>1, FS_EmptySet DEF Rank
<1>5. \A b \in S : a <= b
  BY <1>1, <1>4
<1>. QED  BY <1>5 DEF NextAsid

-----------------------------------------------------------------------------
(* The slots of the vector and the free PIDs *)

LEMMA SlotTypes ==
  ASSUME processes \in Seq(Slots)
  PROVE  /\ Len(processes) \in Nat
         /\ Live \subseteq Pids /\ Pids \subseteq Nat
         /\ \A pid \in Pids : Proc(pid) \in Slots
         /\ \A pid \in Live : Proc(pid) \in Pcbs
<1>1. Len(processes) \in Nat
  OBVIOUS
<1>2. \A pid \in Pids : pid \in Nat /\ pid + 1 \in 1 .. Len(processes)
  BY <1>1 DEF Pids
<1>3. \A pid \in Pids : Proc(pid) \in Slots
  BY <1>2 DEF Proc
<1>4. ~Empty.used
  BY DEF Empty
<1>. QED  BY <1>1, <1>2, <1>3, <1>4 DEF Live, Slots

\* WithProc updates one slot.
LEMMA SlotUpdated ==
  ASSUME processes \in Seq(Slots), NEW pid \in Live, NEW pcb \in Pcbs,
         processes' = WithProc(pid, pcb)
  PROVE  /\ processes' \in Seq(Slots)
         /\ Pids' = Pids /\ Live' = Live
         /\ Proc(pid)' = pcb
         /\ \A i \in Pids \ {pid} : Proc(i)' = Proc(i)
<1>1. pid \in Pids /\ pid \in Nat /\ pid + 1 \in 1 .. Len(processes)
  BY SlotTypes DEF Pids
<1>2. pcb \in Slots /\ pcb.used
  BY DEF Slots, Pcbs
<1>3. /\ processes' \in Seq(Slots)
      /\ Len(processes') = Len(processes)
      /\ \A j \in 1 .. Len(processes) :
           processes'[j] = IF j = pid + 1 THEN pcb ELSE processes[j]
  BY <1>1, <1>2, ExceptSeq DEF WithProc
<1>4. Pids' = Pids
  BY <1>3 DEF Pids
<1>5. \A i \in Pids : i \in Nat /\ i + 1 \in 1 .. Len(processes)
  BY SlotTypes DEF Pids
<1>6. Proc(pid)' = pcb /\ \A i \in Pids \ {pid} : Proc(i)' = Proc(i)
  BY <1>1, <1>3, <1>5 DEF Proc
<1>7. Live' = Live
  BY <1>1, <1>2, <1>4, <1>6 DEF Live
<1>. QED  BY <1>3, <1>4, <1>6, <1>7

LEMMA FrontLemma ==
  ASSUME NEW S, NEW s \in Seq(S), s # << >>
  PROVE  /\ Len(s) \in Nat \ {0}
         /\ Front(s) \in Seq(S)
         /\ Len(Front(s)) = Len(s) - 1
         /\ \A i \in 1 .. Len(s) - 1 : Front(s)[i] = s[i]
         /\ Last(s) = s[Len(s)]
         /\ Last(s) \in S
<1>1. Len(s) \in Nat \ {0}
  BY EmptySeq
<1>2. \A i \in 1 .. Len(s) - 1 : s[i] \in S
  BY <1>1, ElementOfSeq
<1>3. /\ Front(s) \in Seq(S)
      /\ Len(Front(s)) = Len(s) - 1
      /\ \A i \in 1 .. Len(s) - 1 : Front(s)[i] = s[i]
  <2>1. Front(s) = SubSeq(s, 1, Len(s) - 1)
    BY DEF Front
  <2>2. /\ SubSeq(s, 1, Len(s) - 1) \in Seq(S)
        /\ Len(SubSeq(s, 1, Len(s) - 1)) =
             IF 1 <= Len(s) - 1 THEN Len(s) - 1 - 1 + 1 ELSE 0
        /\ \A i \in 1 .. Len(s) - 1 - 1 + 1 :
             SubSeq(s, 1, Len(s) - 1)[i] = s[1 + i - 1]
    BY <1>1, <1>2, SubSeqProperties
  <2>3. Len(s) - 1 - 1 + 1 = Len(s) - 1 /\ \A i \in Nat : 1 + i - 1 = i
    BY <1>1
  <2>4. Front(s) \in Seq(S) /\ Len(Front(s)) = Len(s) - 1
    <3>1. \A n \in Nat \ {0} :
            (IF 1 <= n - 1 THEN n - 1 - 1 + 1 ELSE 0) = n - 1
      OBVIOUS
    <3>2. Len(SubSeq(s, 1, Len(s) - 1)) = Len(s) - 1
      BY <1>1, <2>2, <3>1, Zenon
    <3>. QED  BY <2>1, <2>2, <3>2, Zenon
  <2>5. ASSUME NEW i \in 1 .. Len(s) - 1
        PROVE  Front(s)[i] = s[i]
    <3>1. SubSeq(s, 1, Len(s) - 1)[i] = s[1 + i - 1] /\ 1 + i - 1 = i
      BY <1>1, <2>2, <2>3
    <3>. QED  BY <2>1, <3>1
  <2>. QED  BY <2>4, <2>5
<1>4. Last(s) = s[Len(s)] /\ Last(s) \in S
  BY <1>1, ElementOfSeq DEF Last
<1>. QED  BY <1>1, <1>3, <1>4

\* The PID of a new process is the index of an empty slot, or the next index.
LEMMA NextPidFree ==
  ASSUME Types, FreePidsExact
  PROVE  /\ NextPid \in Nat /\ NextPid \notin Live
         /\ freePids = << >> => NextPid = Len(processes)
         /\ freePids # << >> => NextPid \in Pids
<1>1. freePids \in Seq(Nat) /\ Len(processes) \in Nat /\ Live \subseteq Pids
  BY SlotTypes DEF Types
<1>2. CASE freePids = << >>
  BY <1>1, <1>2 DEF NextPid, Pids
<1>3. CASE freePids # << >>
  <2>1. Len(freePids) \in Nat \ {0} /\ NextPid = freePids[Len(freePids)]
    BY <1>1, <1>3, FrontLemma DEF NextPid
  <2>2. NextPid \in ToSet(freePids)
    BY <1>1, <2>1 DEF ToSet
  <2>. QED  BY <1>1, <1>3, <2>2, SlotTypes DEF FreePidsExact, Types
<1>. QED  BY <1>2, <1>3

\* createProcess and forkProcess: a slot is filled, and none is overwritten.
LEMMA SlotPlaced ==
  ASSUME Types, FreePidsExact, NEW pcb \in Pcbs, NEW n, n = NextPid,
         processes' = Placed(processes, pcb), freePids' = FreePidsTaken
  PROVE  /\ processes' \in Seq(Slots) /\ freePids' \in Seq(Nat)
         /\ Live' = Live \cup {n}
         /\ Proc(n)' = pcb
         /\ \A i \in Live : Proc(i)' = Proc(i)
         /\ FreePidsExact'
<1>1. /\ freePids \in Seq(Nat) /\ processes \in Seq(Slots)
      /\ Len(processes) \in Nat /\ Len(freePids) \in Nat
      /\ Live \subseteq Pids /\ Pids \subseteq Nat
  BY SlotTypes DEF Types
<1>2. n \in Nat /\ n \notin Live
  BY NextPidFree
<1>3. pcb \in Slots /\ pcb.used
  BY DEF Slots, Pcbs
<1>4. /\ processes' \in Seq(Slots)
      /\ Pids' = Pids \cup {n}
      /\ n + 1 \in 1 .. Len(processes') /\ processes'[n + 1] = pcb
      /\ \A i \in Pids \ {n} : processes'[i + 1] = processes[i + 1]
  <2>1. CASE freePids = << >>
    <3>1. n = Len(processes) /\ processes' = Append(processes, pcb)
      BY <2>1, NextPidFree DEF Placed
    <3>2. /\ processes' \in Seq(Slots) /\ Len(processes') = Len(processes) + 1
          /\ \A j \in 1 .. Len(processes) : processes'[j] = processes[j]
          /\ processes'[Len(processes) + 1] = pcb
      BY <1>1, <1>3, <3>1, AppendProperties
    <3>3. Pids' = Pids \cup {n}
      BY <1>1, <3>1, <3>2 DEF Pids
    <3>4. \A i \in Pids : i + 1 \in 1 .. Len(processes)
      BY <1>1 DEF Pids
    <3>5. n + 1 \in 1 .. Len(processes') /\ processes'[n + 1] = pcb
      BY <1>1, <3>1, <3>2
    <3>6. \A i \in Pids \ {n} : processes'[i + 1] = processes[i + 1]
      BY <3>2, <3>4
    <3>. QED  BY <3>2, <3>3, <3>5, <3>6
  <2>2. CASE freePids # << >>
    <3>1. n \in Pids /\ processes' = [processes EXCEPT ![n + 1] = pcb]
      BY <2>2, NextPidFree DEF Placed
    <3>2. \A i \in Pids : i \in Nat /\ i + 1 \in 1 .. Len(processes)
      BY <1>1 DEF Pids
    <3>3. /\ processes' \in Seq(Slots) /\ Len(processes') = Len(processes)
          /\ \A j \in 1 .. Len(processes) :
               processes'[j] = IF j = n + 1 THEN pcb ELSE processes[j]
      BY <1>1, <1>3, <3>1, <3>2, ExceptSeq
    <3>4. Pids' = Pids \cup {n}
      BY <3>1, <3>3 DEF Pids
    <3>. QED  BY <3>1, <3>2, <3>3, <3>4
  <2>. QED  BY <2>1, <2>2
<1>5. Proc(n)' = pcb /\ \A i \in Pids \ {n} : Proc(i)' = Proc(i)
  BY <1>4 DEF Proc
<1>6. Live' = Live \cup {n}
  <2>1. \A i \in Pids \ {n} : Proc(i)'.used = Proc(i).used
    BY <1>5
  <2>2. Live' = {i \in Pids \cup {n} : Proc(i)'.used}
    BY <1>4 DEF Live
  <2>3. n \in Live'
    BY <1>3, <1>5, <2>2
  <2>4. \A i \in Pids \ {n} : i \in Live' <=> i \in Live
    BY <2>1, <2>2 DEF Live
  <2>. QED  BY <1>1, <1>2, <2>2, <2>3, <2>4
<1>7. freePids' \in Seq(Nat) /\ FreePidsExact'
  <2>1. CASE freePids = << >>
    <3>1. freePids' = freePids /\ ToSet(freePids) = {}
      BY <1>1, <2>1 DEF FreePidsTaken, ToSet
    <3>2. Pids' \ Live' = {}
      BY <1>1, <1>4, <1>6, <3>1 DEF FreePidsExact
    <3>. QED  BY <1>1, <2>1, <3>1, <3>2 DEF FreePidsExact
  <2>2. CASE freePids # << >>
    <3> DEFINE m == Len(freePids)
    <3>1. /\ m \in Nat \ {0} /\ freePids[m] = n
          /\ freePids' \in Seq(Nat) /\ Len(freePids') = m - 1
          /\ \A i \in 1 .. m - 1 : freePids'[i] = freePids[i]
      BY <1>1, <2>2, FrontLemma DEF FreePidsTaken, NextPid
    <3>2. \A i, j \in 1 .. m : freePids[i] = freePids[j] => i = j
      BY DEF FreePidsExact
    <3>3. DOMAIN freePids = 1 .. m /\ DOMAIN freePids' = 1 .. m - 1
      BY <1>1, <3>1
    <3>4. ToSet(freePids)' = ToSet(freePids) \ {n}
      <4>1. ASSUME NEW i \in 1 .. m - 1
            PROVE  freePids'[i] = freePids[i] /\ freePids[i] # n
        BY <3>1, <3>2, <4>1
      <4>2. ASSUME NEW i \in 1 .. m, freePids[i] # n
            PROVE  i \in 1 .. m - 1
        BY <3>1, <4>2
      <4>3. /\ ToSet(freePids) = {freePids[i] : i \in 1 .. m}
            /\ ToSet(freePids)' = {freePids'[i] : i \in 1 .. m - 1}
        BY <3>3 DEF ToSet
      <4>4. \A i \in 1 .. m - 1 : i \in 1 .. m
        BY <3>1
      <4>. QED  BY <4>1, <4>2, <4>3, <4>4
    <3>5. Pids' \ Live' = (Pids \ Live) \ {n}
      BY <1>4, <1>6
    <3>6. ToSet(freePids) = Pids \ Live
      BY DEF FreePidsExact
    <3>7. \A i, j \in 1 .. Len(freePids') : freePids'[i] = freePids'[j] => i = j
      BY <3>1, <3>2
    <3>. QED  BY <3>1, <3>4, <3>5, <3>6, <3>7 DEF FreePidsExact
  <2>. QED  BY <2>1, <2>2
<1>8. \A i \in Live : Proc(i)' = Proc(i)
  BY <1>1, <1>2, <1>5
<1>. QED  BY <1>4, <1>5, <1>6, <1>7, <1>8

\* freeProcess: a slot is emptied and listed, or popped.  procs is the vector
\* after what exec did to another slot.
LEMMA SlotRemoved ==
  ASSUME Types, FreePidsExact, NEW pid \in Live,
         NEW procs \in Seq(Slots), Len(procs) = Len(processes),
         \A i \in Pids : procs[i + 1].used = Proc(i).used,
         processes' = Removed(procs, pid), freePids' = FreePidsListed(pid)
  PROVE  /\ processes' \in Seq(Slots) /\ freePids' \in Seq(Nat)
         /\ Live' = Live \ {pid}
         /\ \A i \in Live \ {pid} : Proc(i)' = procs[i + 1]
         /\ FreePidsExact'
<1> DEFINE n == Len(processes)
<1>1. /\ freePids \in Seq(Nat) /\ n \in Nat
      /\ Live \subseteq Pids /\ Pids \subseteq Nat /\ pid \in Pids
  BY SlotTypes DEF Types
<1>2. \A i \in Pids : i \in Nat /\ i + 1 \in 1 .. n
  BY <1>1 DEF Pids
<1>3. pid \notin ToSet(freePids) /\ ToSet(freePids) = Pids \ Live
  BY DEF FreePidsExact
<1>4. \A i, j \in 1 .. Len(freePids) : freePids[i] = freePids[j] => i = j
  BY DEF FreePidsExact
<1>5. CASE pid = n - 1
  <2>1. processes' = Front(procs) /\ freePids' = freePids
    BY <1>5 DEF Removed, FreePidsListed, IsLast
  <2>2. procs # << >>
    <3>1. n # 0
      BY <1>1, <1>2
    <3>. QED  BY <3>1, EmptySeq
  <2>3. /\ processes' \in Seq(Slots) /\ Len(processes') = n - 1
        /\ \A i \in 1 .. n - 1 : processes'[i] = procs[i]
    BY <2>1, <2>2, FrontLemma
  <2>4. Pids' = Pids \ {pid}
    BY <1>1, <1>5, <2>3 DEF Pids
  <2>5. \A i \in Pids' : i + 1 \in 1 .. n - 1
    BY <1>1, <2>3 DEF Pids
  <2>6. \A i \in Pids' : Proc(i)' = procs[i + 1]
    BY <2>3, <2>5 DEF Proc
  <2>7. Live' = Live \ {pid}
    BY <2>4, <2>6 DEF Live
  <2>8. Pids' \ Live' = Pids \ Live
    BY <2>4, <2>7
  <2>9. FreePidsExact'
    BY <1>3, <1>4, <2>1, <2>8 DEF FreePidsExact
  <2>10. \A i \in Live \ {pid} : Proc(i)' = procs[i + 1]
    BY <1>1, <2>4, <2>6
  <2>. QED  BY <1>1, <2>1, <2>3, <2>7, <2>9, <2>10
<1>6. CASE pid # n - 1
  <2>1. /\ processes' = [procs EXCEPT ![pid + 1] = Empty]
        /\ freePids' = Append(freePids, pid)
    BY <1>6 DEF Removed, FreePidsListed, IsLast
  <2>2. pid + 1 \in 1 .. Len(procs) /\ Empty \in Slots /\ ~Empty.used
    BY <1>2, <1>1 DEF Slots, Empty
  <2>3. /\ processes' \in Seq(Slots) /\ Len(processes') = n
        /\ \A j \in 1 .. n :
             processes'[j] = IF j = pid + 1 THEN Empty ELSE procs[j]
    BY <2>1, <2>2, ExceptSeq
  <2>4. Pids' = Pids
    BY <2>3 DEF Pids
  <2>5. Proc(pid)' = Empty
    BY <2>2, <2>3 DEF Proc
  <2>6. \A i \in Pids \ {pid} : Proc(i)' = procs[i + 1]
    BY <1>1, <1>2, <2>3 DEF Proc
  <2>7. Live' = Live \ {pid}
    <3>1. Live' = {i \in Pids : Proc(i)'.used}
      BY <2>4 DEF Live
    <3>2. pid \notin Live'
      BY <2>2, <2>5, <3>1
    <3>3. \A i \in Pids \ {pid} : i \in Live' <=> i \in Live
      BY <2>6, <3>1 DEF Live
    <3>. QED  BY <1>1, <3>1, <3>2, <3>3
  <2>8. Pids' \ Live' = (Pids \ Live) \cup {pid}
    BY <1>1, <2>4, <2>7
  <2> DEFINE m == Len(freePids)
  <2>9. /\ m \in Nat /\ freePids' \in Seq(Nat) /\ Len(freePids') = m + 1
        /\ \A i \in 1 .. m : freePids'[i] = freePids[i]
        /\ freePids'[m + 1] = pid
        /\ DOMAIN freePids = 1 .. m /\ DOMAIN freePids' = 1 .. m + 1
    <3>1. pid \in Nat /\ m \in Nat
      BY <1>1
    <3>2. /\ freePids' \in Seq(Nat) /\ Len(freePids') = m + 1
          /\ \A i \in 1 .. m : freePids'[i] = freePids[i]
          /\ freePids'[m + 1] = pid
      BY <1>1, <2>1, <3>1, AppendProperties
    <3>3. DOMAIN freePids = 1 .. m /\ DOMAIN freePids' = 1 .. m + 1
      BY <1>1, <3>1, <3>2
    <3>. QED  BY <3>1, <3>2, <3>3
  <2>10. \A i \in 1 .. m : freePids[i] # pid
    BY <1>3, <2>9 DEF ToSet
  <2>11. ToSet(freePids)' = ToSet(freePids) \cup {pid}
    <3>1. /\ ToSet(freePids) = {freePids[i] : i \in 1 .. m}
          /\ ToSet(freePids)' = {freePids'[i] : i \in 1 .. m + 1}
      BY <2>9 DEF ToSet
    <3>2. \A i \in 1 .. m + 1 : i \in 1 .. m \/ i = m + 1
      BY <2>9
    <3>3. m + 1 \in 1 .. m + 1 /\ \A i \in 1 .. m : i \in 1 .. m + 1
      BY <2>9
    <3>4. ASSUME NEW x \in ToSet(freePids)'
          PROVE  x \in ToSet(freePids) \cup {pid}
      <4>1. PICK i \in 1 .. m + 1 : x = freePids'[i]
        BY <3>1, <3>4
      <4>2. CASE i \in 1 .. m
        BY <2>9, <3>1, <4>1, <4>2
      <4>3. CASE i = m + 1
        BY <2>9, <4>1, <4>3
      <4>. QED  BY <3>2, <4>2, <4>3
    <3>5. ASSUME NEW x \in ToSet(freePids) PROVE x \in ToSet(freePids)'
      <4>1. PICK i \in 1 .. m : x = freePids[i]
        BY <3>1, <3>5
      <4>2. i \in 1 .. m + 1 /\ x = freePids'[i]
        BY <2>9, <3>3, <4>1
      <4>. QED  BY <3>1, <4>2
    <3>6. pid \in ToSet(freePids)'
      BY <2>9, <3>1, <3>3
    <3>. QED  BY <3>4, <3>5, <3>6
  <2>12. \A i, j \in 1 .. Len(freePids') :
           freePids'[i] = freePids'[j] => i = j
    BY <1>4, <2>9, <2>10
  <2>13. FreePidsExact'
    BY <1>3, <2>8, <2>11, <2>12 DEF FreePidsExact
  <2>14. \A i \in Live \ {pid} : Proc(i)' = procs[i + 1]
    BY <1>1, <2>6
  <2>. QED  BY <2>3, <2>7, <2>9, <2>13, <2>14
<1>. QED  BY <1>5, <1>6

-----------------------------------------------------------------------------
(* Who has which frames *)

LEMMA MappedFrames ==
  \A f : f \in Mapped <=>
           \E i \in Live : \E p \in DOMAIN Proc(i).table :
             f = Proc(i).table[p]
  BY DEF Mapped, FramesOf

\* Nothing happens to a page table.
LEMMA FramesKept ==
  ASSUME FramesExclusive, FrameAccounting,
         Live' = Live, \A i \in Live : Proc(i)'.table = Proc(i).table,
         frames' = frames, lost' = lost
  PROVE  FramesExclusive' /\ FrameAccounting'
<1>1. FramesExclusive'
  BY DEF FramesExclusive
<1>2. Mapped' = Mapped
  BY DEF Mapped
<1>. QED  BY <1>1, <1>2 DEF FrameAccounting

\* A process is born with a page table of free frames.
LEMMA FramesAdded ==
  ASSUME FramesExclusive, FrameAccounting, frames \subseteq Frames,
         NEW n, n \notin Live, Live' = Live \cup {n},
         \A i \in Live : Proc(i)'.table = Proc(i).table,
         NEW pages, NEW new \in [pages -> FreeFrames],
         \A p, q \in pages : new[p] = new[q] => p = q,
         Proc(n)'.table = new,
         frames' = frames \cup FramesOf(new), lost' = lost
  PROVE  FramesExclusive' /\ FrameAccounting' /\ frames' \subseteq Frames
<1>1. DOMAIN new = pages /\ \A p \in pages : new[p] \in Frames \ frames
  BY DEF FreeFrames
<1>2. FramesOf(new) \subseteq Frames /\ FramesOf(new) \cap frames = {}
  BY <1>1 DEF FramesOf
<1>3. \A i \in Live : \A p \in DOMAIN Proc(i).table : Proc(i).table[p] \in frames
  BY MappedFrames DEF FrameAccounting
<1>4. FramesExclusive'
  <2>1. ASSUME NEW i \in Live', NEW j \in Live',
               NEW p \in DOMAIN Proc(i)'.table,
               NEW q \in DOMAIN Proc(j)'.table,
               Proc(i)'.table[p] = Proc(j)'.table[q]
        PROVE  i = j /\ p = q
    <3>1. CASE i \in Live /\ j \in Live
      BY <2>1, <3>1 DEF FramesExclusive
    <3>2. CASE i = n /\ j = n
      BY <1>1, <2>1, <3>2
    <3>3. CASE i = n /\ j \in Live
      BY <1>1, <1>3, <2>1, <3>3
    <3>4. CASE i \in Live /\ j = n
      BY <1>1, <1>3, <2>1, <3>4
    <3>. QED  BY <3>1, <3>2, <3>3, <3>4
  <2>. QED  BY <2>1 DEF FramesExclusive
<1>5. Mapped' = Mapped \cup FramesOf(new)
  <2>1. Mapped' = UNION {FramesOf(Proc(i)'.table) : i \in Live \cup {n}}
    BY DEF Mapped
  <2>2. Mapped = UNION {FramesOf(Proc(i)'.table) : i \in Live}
    BY DEF Mapped
  <2>. QED  BY <2>1, <2>2
<1>. QED  BY <1>2, <1>4, <1>5 DEF FrameAccounting

\* The frames of a process that is freed are free again.
LEMMA FramesFreed ==
  ASSUME FramesExclusive, FrameAccounting,
         NEW pid \in Live, Live' = Live \ {pid},
         \A i \in Live' : Proc(i)'.table = Proc(i).table,
         frames' = frames \ FramesOf(Proc(pid).table), lost' = lost
  PROVE  FramesExclusive' /\ FrameAccounting'
<1> DEFINE old == Proc(pid).table
<1>1. FramesExclusive'
  BY DEF FramesExclusive
<1>2. Mapped' = UNION {FramesOf(Proc(i).table) : i \in Live \ {pid}}
  BY DEF Mapped
<1>3. Mapped = FramesOf(old) \cup UNION {FramesOf(Proc(i).table) : i \in Live \ {pid}}
  BY DEF Mapped
<1>4. ASSUME NEW i \in Live \ {pid}
      PROVE  FramesOf(Proc(i).table) \cap FramesOf(old) = {}
  BY DEF FramesExclusive, FramesOf
<1>5. Mapped' = Mapped \ FramesOf(old)
  BY <1>2, <1>3, <1>4
<1>6. FramesOf(old) \cap lost = {}
  BY <1>3 DEF FrameAccounting
<1>. QED  BY <1>1, <1>5, <1>6 DEF FrameAccounting

\* exec: the page table of n becomes that of c, whose old one is freed.
LEMMA FramesMoved ==
  ASSUME FramesExclusive, FrameAccounting,
         NEW c \in Live, NEW n \in Live, c # n, Live' = Live \ {n},
         Proc(c)'.table = Proc(n).table,
         \A i \in Live \ {c, n} : Proc(i)'.table = Proc(i).table,
         frames' = frames \ FramesOf(Proc(c).table), lost' = lost
  PROVE  FramesExclusive' /\ FrameAccounting'
<1> DEFINE Others == UNION {FramesOf(Proc(i).table) : i \in Live \ {c, n}}
           old == FramesOf(Proc(c).table)
           new == FramesOf(Proc(n).table)
<1>1. FramesExclusive'
  <2>1. ASSUME NEW i \in Live', NEW j \in Live',
               NEW p \in DOMAIN Proc(i)'.table,
               NEW q \in DOMAIN Proc(j)'.table,
               Proc(i)'.table[p] = Proc(j)'.table[q]
        PROVE  i = j /\ p = q
    <3>1. CASE i # c /\ j # c
      BY <2>1, <3>1 DEF FramesExclusive
    <3>2. CASE i = c /\ j = c
      BY <2>1, <3>2 DEF FramesExclusive
    <3>3. CASE i = c /\ j # c
      BY <2>1, <3>3 DEF FramesExclusive
    <3>4. CASE i # c /\ j = c
      BY <2>1, <3>4 DEF FramesExclusive
    <3>. QED  BY <3>1, <3>2, <3>3, <3>4
  <2>. QED  BY <2>1 DEF FramesExclusive
<1>2. Mapped' = new \cup Others
  <2>1. Mapped' = UNION {FramesOf(Proc(i)'.table) : i \in Live \ {n}}
    BY DEF Mapped
  <2>2. Others = UNION {FramesOf(Proc(i)'.table) : i \in Live \ {c, n}}
    OBVIOUS
  <2>. QED  BY <2>1, <2>2
<1>3. Mapped = old \cup new \cup Others
  BY DEF Mapped
<1>4. old \cap new = {}
  BY DEF FramesExclusive, FramesOf
<1>5. ASSUME NEW i \in Live \ {c, n}
      PROVE  FramesOf(Proc(i).table) \cap old = {}
  BY DEF FramesExclusive, FramesOf
<1>6. old \cap Others = {}
  BY <1>5
<1>7. Mapped' = Mapped \ old
  BY <1>2, <1>3, <1>4, <1>6
<1>8. old \cap lost = {}
  BY <1>3 DEF FrameAccounting
<1>. QED  BY <1>1, <1>7, <1>8 DEF FrameAccounting

\* brk: c gets new pages; a frame meant for a page it had already is lost.
LEMMA FramesGrown ==
  ASSUME FramesExclusive, FrameAccounting,
         frames \subseteq Frames, lost \subseteq frames,
         NEW c \in Live, Live' = Live,
         \A i \in Live \ {c} : Proc(i)'.table = Proc(i).table,
         NEW pages, NEW new \in [pages -> FreeFrames],
         \A p, q \in pages : new[p] = new[q] => p = q,
         Proc(c)'.table = Grown(Proc(c).table, new),
         frames' = frames \cup FramesOf(new),
         lost' = lost \cup {new[p] : p \in pages \cap DOMAIN Proc(c).table}
  PROVE  /\ FramesExclusive' /\ FrameAccounting'
         /\ frames' \subseteq Frames /\ lost' \subseteq frames'
<1> DEFINE old == Proc(c).table
           Lost == {new[p] : p \in pages \cap DOMAIN old}
           Used == {new[p] : p \in pages \ DOMAIN old}
           Others == UNION {FramesOf(Proc(i).table) : i \in Live \ {c}}
<1>1. DOMAIN new = pages /\ \A p \in pages : new[p] \in Frames \ frames
  BY DEF FreeFrames
<1>2. FramesOf(new) = Lost \cup Used /\ Lost \cap Used = {}
  BY <1>1 DEF FramesOf
<1>3. FramesOf(new) \subseteq Frames /\ FramesOf(new) \cap frames = {}
  BY <1>1 DEF FramesOf
<1>4. \A i \in Live : \A p \in DOMAIN Proc(i).table : Proc(i).table[p] \in frames
  BY MappedFrames DEF FrameAccounting
<1>5. /\ DOMAIN Proc(c)'.table = DOMAIN old \cup pages
      /\ \A p \in DOMAIN old : Proc(c)'.table[p] = old[p]
      /\ \A p \in pages \ DOMAIN old : Proc(c)'.table[p] = new[p]
  BY <1>1 DEF Grown
<1>6. FramesExclusive'
  <2>1. ASSUME NEW p \in DOMAIN Proc(c)'.table, NEW j \in Live \ {c},
               NEW q \in DOMAIN Proc(j).table
        PROVE  Proc(c)'.table[p] # Proc(j).table[q]
    <3>1. CASE p \in DOMAIN old
      BY <1>5, <2>1, <3>1 DEF FramesExclusive
    <3>2. CASE p \in pages \ DOMAIN old
      BY <1>1, <1>4, <1>5, <2>1, <3>2
    <3>. QED  BY <1>5, <2>1, <3>1, <3>2
  <2>2. ASSUME NEW p \in DOMAIN Proc(c)'.table, NEW q \in DOMAIN Proc(c)'.table,
               Proc(c)'.table[p] = Proc(c)'.table[q]
        PROVE  p = q
    <3>1. CASE p \in DOMAIN old /\ q \in DOMAIN old
      BY <1>5, <2>2, <3>1 DEF FramesExclusive
    <3>2. CASE p \in pages \ DOMAIN old /\ q \in pages \ DOMAIN old
      BY <1>5, <2>2, <3>2
    <3>3. CASE p \in DOMAIN old /\ q \in pages \ DOMAIN old
      BY <1>1, <1>4, <1>5, <2>2, <3>3
    <3>4. CASE p \in pages \ DOMAIN old /\ q \in DOMAIN old
      BY <1>1, <1>4, <1>5, <2>2, <3>4
    <3>. QED  BY <1>5, <3>1, <3>2, <3>3, <3>4
  <2>3. ASSUME NEW i \in Live', NEW j \in Live',
               NEW p \in DOMAIN Proc(i)'.table,
               NEW q \in DOMAIN Proc(j)'.table,
               Proc(i)'.table[p] = Proc(j)'.table[q]
        PROVE  i = j /\ p = q
    <3>1. CASE i # c /\ j # c
      BY <2>3, <3>1 DEF FramesExclusive
    <3>2. CASE i = c /\ j = c
      BY <2>2, <2>3, <3>2
    <3>3. CASE i = c /\ j # c
      BY <2>1, <2>3, <3>3
    <3>4. CASE i # c /\ j = c
      BY <2>1, <2>3, <3>4
    <3>. QED  BY <3>1, <3>2, <3>3, <3>4
  <2>. QED  BY <2>3 DEF FramesExclusive
<1>7. Mapped' = Mapped \cup Used
  <2>1. Mapped' = FramesOf(Proc(c)'.table) \cup Others
    <3>1. Mapped' = UNION {FramesOf(Proc(i)'.table) : i \in Live}
      BY DEF Mapped
    <3>2. Others = UNION {FramesOf(Proc(i)'.table) : i \in Live \ {c}}
      OBVIOUS
    <3>. QED  BY <3>1, <3>2
  <2>2. Mapped = FramesOf(old) \cup Others
    BY DEF Mapped
  <2>3. FramesOf(Proc(c)'.table) = FramesOf(old) \cup Used
    BY <1>5 DEF FramesOf
  <2>. QED  BY <2>1, <2>2, <2>3
<1>8. lost' = lost \cup Lost /\ frames = Mapped \cup lost /\ Mapped \cap lost = {}
  BY DEF FrameAccounting
<1>9. FrameAccounting'
  BY <1>2, <1>3, <1>7, <1>8 DEF FrameAccounting
<1>. QED  BY <1>2, <1>3, <1>6, <1>8, <1>9

-----------------------------------------------------------------------------
(* Who has which ASID *)

LEMMA AsidsKept ==
  ASSUME AsidsExact, Live' = Live, asids' = asids,
         \A i \in Live : Proc(i)'.asid = Proc(i).asid
  PROVE  AsidsExact'
  BY DEF AsidsExact

LEMMA AsidsAdded ==
  ASSUME AsidsExact, NEW n, n \notin Live, Live' = Live \cup {n},
         \A i \in Live : Proc(i)'.asid = Proc(i).asid,
         NEW a, a \notin asids, Proc(n)'.asid = a, asids' = asids \cup {a}
  PROVE  AsidsExact'
<1>1. \A i \in Live : Proc(i)'.asid \in asids
  BY DEF AsidsExact
<1>2. \A i, j \in Live' : Proc(i)'.asid = Proc(j)'.asid => i = j
  BY <1>1 DEF AsidsExact
<1>3. asids' = {Proc(i)'.asid : i \in Live'}
  BY DEF AsidsExact
<1>. QED  BY <1>2, <1>3 DEF AsidsExact

LEMMA AsidsFreed ==
  ASSUME AsidsExact, NEW pid \in Live, Live' = Live \ {pid},
         \A i \in Live' : Proc(i)'.asid = Proc(i).asid,
         asids' = AsidsWithout(pid)
  PROVE  AsidsExact'
<1>1. \A i, j \in Live' : Proc(i)'.asid = Proc(j)'.asid => i = j
  BY DEF AsidsExact
<1>2. asids' = {Proc(i)'.asid : i \in Live'}
  BY DEF AsidsExact, AsidsWithout
<1>. QED  BY <1>1, <1>2 DEF AsidsExact

-----------------------------------------------------------------------------
(* The queue *)

LEMMA QueueAppended ==
  ASSUME queue \in Seq(Nat), NEW pid \in Nat
  PROVE  /\ Queued(pid) \in Seq(Nat)
         /\ ToSet(Queued(pid)) = InQueue \cup {pid}
         /\ \A i \in 1 .. Len(queue) : Queued(pid)[i] = queue[i]
         /\ Queued(pid)[Len(queue) + 1] = pid
         /\ Len(Queued(pid)) = Len(queue) + 1
<1> DEFINE m == Len(queue)
           q == Queued(pid)
<1>1. /\ q \in Seq(Nat) /\ Len(q) = m + 1 /\ m \in Nat
      /\ \A i \in 1 .. m : q[i] = queue[i]
      /\ q[m + 1] = pid
  BY AppendProperties DEF Queued
<1>2. InQueue = {queue[i] : i \in 1 .. m} /\ ToSet(q) = {q[i] : i \in 1 .. m + 1}
  <2>1. DOMAIN queue = 1 .. m /\ DOMAIN q = 1 .. m + 1
    BY <1>1
  <2>. QED  BY <2>1, Zenon DEF InQueue, ToSet
<1>3. \A i \in 1 .. m + 1 : i \in 1 .. m \/ i = m + 1
  BY <1>1
<1>4. m + 1 \in 1 .. m + 1 /\ \A i \in 1 .. m : i \in 1 .. m + 1
  BY <1>1
<1>5. ToSet(q) = InQueue \cup {pid}
  BY <1>1, <1>2, <1>3, <1>4
<1>. QED  BY <1>1, <1>5

\* The head of a queue without duplicates leaves it.
LEMMA QueuePopped ==
  ASSUME NEW q \in Seq(Nat), q # << >>,
         \A i, j \in 1 .. Len(q) : q[i] = q[j] => i = j
  PROVE  /\ Head(q) \in Nat /\ Popped(q) \in Seq(Nat)
         /\ ToSet(Popped(q)) = ToSet(q) \ {Head(q)} /\ Head(q) \in ToSet(q)
         /\ \A i, j \in 1 .. Len(Popped(q)) : Popped(q)[i] = Popped(q)[j] => i = j
         /\ Len(Popped(q)) = Len(q) - 1
         /\ \A i \in 1 .. Len(q) - 1 : Popped(q)[i] = q[i + 1]
<1> DEFINE m == Len(q)
           t == Popped(q)
<1>1. m \in Nat \ {0}
  BY EmptySeq
<1>2. /\ Head(q) \in Nat /\ t \in Seq(Nat) /\ Len(t) = m - 1
      /\ \A i \in 1 .. m - 1 : t[i] = q[i + 1]
      /\ Head(q) = q[1]
  BY <1>1, HeadTailProperties DEF Popped
<1>3. /\ \A i \in 1 .. m - 1 : i + 1 \in 1 .. m /\ i + 1 # 1 /\ i + 1 \in Nat
      /\ \A i \in 1 .. m : i = 1 \/ (i - 1 \in 1 .. m - 1 /\ (i - 1) + 1 = i)
      /\ 1 \in 1 .. m
  BY <1>1
<1>4. ToSet(t) = {t[i] : i \in 1 .. m - 1} /\ ToSet(q) = {q[i] : i \in 1 .. m}
  <2>1. DOMAIN t = 1 .. m - 1 /\ DOMAIN q = 1 .. m
    BY <1>1, <1>2
  <2>. QED  BY <2>1, Zenon DEF ToSet
<1>5. ToSet(t) = ToSet(q) \ {q[1]} /\ q[1] \in ToSet(q)
  <2>1. ASSUME NEW i \in 1 .. m - 1
        PROVE  t[i] \in ToSet(q) \ {q[1]}
    BY <1>2, <1>3, <1>4
  <2>2. ASSUME NEW i \in 1 .. m, q[i] # q[1]
        PROVE  q[i] \in ToSet(t)
    <3>1. i - 1 \in 1 .. m - 1 /\ t[i - 1] = q[i]
      BY <1>2, <1>3, <2>2
    <3>. QED  BY <1>4, <3>1
  <2>3. ToSet(t) \subseteq ToSet(q) \ {q[1]}
    BY <1>4, <2>1
  <2>4. ToSet(q) \ {q[1]} \subseteq ToSet(t)
    BY <1>4, <2>2
  <2>5. q[1] \in ToSet(q)
    BY <1>3, <1>4
  <2>. QED  BY <2>3, <2>4, <2>5
<1>6. \A i, j \in 1 .. m - 1 : t[i] = t[j] => i = j
  <2>1. ASSUME NEW i \in 1 .. m - 1, NEW j \in 1 .. m - 1, t[i] = t[j]
        PROVE  i = j
    <3>1. q[i + 1] = q[j + 1]
      BY <1>2, <2>1
    <3>2. i + 1 = j + 1
      BY <1>3, <3>1
    <3>. QED  BY <3>2
  <2>. QED  BY <2>1
<1>. QED  BY <1>2, <1>5, <1>6

-----------------------------------------------------------------------------
(* Steps *)

\* What OthersUntouched says of a step.
Untouched == \A i \in Live \ {current, newborn} :
               i \in Live' /\ Proc(i)' = Proc(i)

\* What IInv says of the process in user mode, of the Guards and of the queue.
LEMMA WhoLives ==
  ASSUME IInv
  PROVE  /\ NoPid \notin Live /\ NoPid \notin InQueue
         /\ Live \subseteq Nat /\ InQueue \subseteq Live
         /\ \A pid \in Live : Proc(pid) \in Pcbs
         /\ current # NoPid => current \in Live /\ current \in Nat
         /\ newborn # NoPid => newborn \in Live /\ newborn \in Nat
         /\ step # "tail" => current # NoPid
         /\ step # "exec" => newborn = NoPid
         /\ step = "exec" => newborn # NoPid /\ newborn # current
<1>1. /\ Live \subseteq Nat /\ NoPid \notin Nat
      /\ \A pid \in Live : Proc(pid) \in Pcbs
  BY SlotTypes DEF IInv, Types, NoPid
<1>2. InQueue \subseteq Live
  BY DEF IInv, ScheduledOnce
<1>3. /\ current # NoPid => current \in Live
      /\ newborn # NoPid => newborn \in Live
  BY DEF IInv, ScheduledOnce
<1>4. step = "exec" => newborn # NoPid /\ newborn # current
  BY DEF IInv, Control, ScheduledOnce
<1>. QED  BY <1>1, <1>2, <1>3, <1>4 DEF IInv, Control

LEMMA StopKeeps ==
  ASSUME IInv, UNCHANGED <<processes, freePids, queue, tableVars, current,
                           newborn, step>>,
         status' \in {"up", "halted", "faulted", "unmapped", "noFrame",
                      "noAsid", "hostAbort"}
  PROVE  IInv' /\ Untouched
<1>1. Live' = Live /\ Pids' = Pids /\ InQueue' = InQueue
      /\ \A i : Proc(i)' = Proc(i)
  BY DEF Live, Pids, Proc, InQueue
<1>2. Types' /\ Control'
  BY DEF IInv, Types, Control, tableVars
<1>3. FramesExclusive' /\ FrameAccounting'
  BY <1>1, FramesKept DEF IInv, tableVars
<1>4. AsidsExact' /\ FreePidsExact'
  BY <1>1, AsidsKept DEF IInv, FreePidsExact, tableVars
<1>5. RefcountIsGuards' /\ ScheduledOnce'
  BY <1>1 DEF IInv, RefcountIsGuards, ScheduledOnce
<1>6. Untouched
  BY <1>1 DEF Untouched
<1>. QED  BY <1>2, <1>3, <1>4, <1>5, <1>6 DEF IInv

\* What a step may write in a PCB without touching its resources.
LEMMA PcbChanged ==
  ASSUME IInv, NEW c \in Live, NEW pcb \in Pcbs,
         processes' = WithProc(c, pcb),
         pcb.table = Proc(c).table, pcb.asid = Proc(c).asid,
         UNCHANGED <<freePids, tableVars>>
  PROVE  /\ processes' \in Seq(Slots) /\ Live' = Live
         /\ Proc(c)' = pcb /\ \A i \in Live \ {c} : Proc(i)' = Proc(i)
         /\ FramesExclusive' /\ FrameAccounting'
         /\ AsidsExact' /\ FreePidsExact'
<1>1. /\ processes' \in Seq(Slots) /\ Pids' = Pids /\ Live' = Live
      /\ Proc(c)' = pcb /\ \A i \in Pids \ {c} : Proc(i)' = Proc(i)
  BY SlotUpdated DEF IInv, Types
<1>2. \A i \in Live \ {c} : Proc(i)' = Proc(i)
  BY <1>1 DEF Live
<1>3. \A i \in Live : /\ Proc(i)'.table = Proc(i).table
                      /\ Proc(i)'.asid = Proc(i).asid
  BY <1>1, <1>2
<1>4. FramesExclusive' /\ FrameAccounting'
  BY <1>1, <1>3, FramesKept DEF IInv, tableVars
<1>5. AsidsExact' /\ FreePidsExact'
  BY <1>1, <1>3, AsidsKept DEF IInv, FreePidsExact, tableVars
<1>. QED  BY <1>1, <1>2, <1>4, <1>5

\* The Guard count of a PCB is changed.
LEMMA PcbUpdate ==
  ASSUME NEW pcb \in Pcbs, NEW r \in 0..1
  PROVE  /\ [pcb EXCEPT !.refcount = r] \in Pcbs
         /\ [pcb EXCEPT !.refcount = r].table = pcb.table
         /\ [pcb EXCEPT !.refcount = r].asid = pcb.asid
         /\ [pcb EXCEPT !.refcount = r].refcount = r
  BY DEF Pcbs

LEMMA TrapKeeps ==
  ASSUME IInv, NEW cause \in {"syscall", "tail"}, Trap(cause),
         NEW c, c = current
  PROVE  IInv' /\ Untouched
<1> DEFINE pcb == [Me EXCEPT !.refcount = @ + 1]
<1>1. c \in Live /\ c # NoPid /\ newborn = NoPid /\ NoPid \notin Live
  BY WhoLives DEF Trap
<1>2. \A i \in Live : Proc(i).refcount = 0
  BY DEF IInv, RefcountIsGuards, Trap
<1>3. Me \in Pcbs /\ Me.refcount = 0
  BY <1>1, <1>2, WhoLives DEF Me
<1>4. /\ pcb \in Pcbs /\ pcb.refcount = 1
      /\ pcb.table = Proc(c).table /\ pcb.asid = Proc(c).asid
  <2>1. pcb = [Me EXCEPT !.refcount = 1]
    BY <1>3
  <2>2. Me.table = Proc(c).table /\ Me.asid = Proc(c).asid /\ 1 \in 0..1
    BY DEF Me
  <2>3. /\ [Me EXCEPT !.refcount = 1] \in Pcbs
        /\ [Me EXCEPT !.refcount = 1].table = Me.table
        /\ [Me EXCEPT !.refcount = 1].asid = Me.asid
        /\ [Me EXCEPT !.refcount = 1].refcount = 1
    BY <1>3, <2>2, PcbUpdate
  <2>. HIDE DEF pcb
  <2>. QED  BY <2>1, <2>2, <2>3
<1>5. /\ processes' \in Seq(Slots) /\ Live' = Live
      /\ Proc(c)' = pcb /\ \A i \in Live \ {c} : Proc(i)' = Proc(i)
      /\ FramesExclusive' /\ FrameAccounting'
      /\ AsidsExact' /\ FreePidsExact'
  BY <1>1, <1>4, PcbChanged DEF Trap, Borrow
<1>6. Types' /\ Control'
  BY <1>1, <1>5 DEF IInv, Types, Control, Trap, tableVars
<1>7. RefcountIsGuards'
  <2>1. step' # "user" /\ current' = c /\ newborn' = NoPid
    BY <1>1 DEF Trap
  <2>2. Proc(c)'.refcount = 1 /\ \A i \in Live \ {c} : Proc(i)'.refcount = 0
    BY <1>2, <1>4, <1>5
  <2>. QED  BY <1>1, <1>5, <2>1, <2>2 DEF RefcountIsGuards
<1>8. ScheduledOnce'
  BY <1>5 DEF IInv, ScheduledOnce, InQueue, Trap
<1>9. Untouched
  BY <1>5 DEF Untouched
<1>. QED  BY <1>5, <1>6, <1>7, <1>8, <1>9 DEF IInv

LEMMA OtherSyscallKeeps ==
  ASSUME IInv, OtherSyscall
  PROVE  IInv' /\ Untouched
<1>1. Live' = Live /\ Pids' = Pids /\ InQueue' = InQueue
      /\ \A i : Proc(i)' = Proc(i)
  BY DEF Live, Pids, Proc, InQueue, OtherSyscall
<1>2. Types' /\ Control'
  BY DEF IInv, Types, Control, tableVars, OtherSyscall
<1>3. FramesExclusive' /\ FrameAccounting'
  BY <1>1, FramesKept DEF IInv, tableVars, OtherSyscall
<1>4. AsidsExact' /\ FreePidsExact'
  BY <1>1, AsidsKept DEF IInv, FreePidsExact, tableVars, OtherSyscall
<1>5. RefcountIsGuards' /\ ScheduledOnce'
  BY <1>1 DEF IInv, RefcountIsGuards, ScheduledOnce, OtherSyscall
<1>6. Untouched
  BY <1>1 DEF Untouched
<1>. QED  BY <1>2, <1>3, <1>4, <1>5, <1>6 DEF IInv

LEMMA KillKeeps ==
  ASSUME IInv, step = "syscall", Kill, NEW c, c = current
  PROVE  IInv' /\ Untouched
<1>1. /\ c \in Live /\ newborn = NoPid
      /\ NoPid \notin Live /\ NoPid \notin InQueue
  BY WhoLives
<1>2. /\ processes' \in Seq(Slots) /\ freePids' \in Seq(Nat)
      /\ Live' = Live \ {c}
      /\ \A i \in Live \ {c} : Proc(i)' = Proc(i)
      /\ FreePidsExact'
  <2>1. \A i \in Pids : processes[i + 1].used = Proc(i).used
    BY DEF Proc
  <2>2. \A i : processes[i + 1] = Proc(i)
    BY DEF Proc
  <2>. QED  BY <1>1, <2>1, <2>2, SlotRemoved DEF IInv, Types, Kill
<1>3. FramesExclusive' /\ FrameAccounting'
  BY <1>1, <1>2, FramesFreed DEF IInv, Kill, FramesWithout
<1>4. AsidsExact'
  BY <1>1, <1>2, AsidsFreed DEF IInv, Kill
<1>5. Types'
  <2>1. lost' \subseteq frames' /\ frames' \subseteq Frames
    BY <1>3 DEF IInv, Types, Kill, FrameAccounting, FramesWithout
  <2>2. asids' \subseteq Asids
    BY DEF IInv, Types, Kill, AsidsWithout
  <2>. QED  BY <1>2, <2>1, <2>2 DEF IInv, Types, Kill
<1>6. Control'
  BY <1>1 DEF Control, Kill
<1>7. RefcountIsGuards'
  <2>1. \A i \in Live \ {c} : Proc(i).refcount = 0
    BY <1>1 DEF IInv, RefcountIsGuards
  <2>2. \A i \in Live' : Proc(i)'.refcount = 0
    BY <1>2, <2>1
  <2>3. current' = NoPid /\ newborn' = NoPid /\ NoPid \notin Live'
    BY <1>1, <1>2 DEF Kill
  <2>. QED  BY <2>2, <2>3 DEF RefcountIsGuards
<1>8. ScheduledOnce'
  <2>1. /\ queue' = queue /\ InQueue' = InQueue
        /\ current' = NoPid /\ newborn' = NoPid
    BY <1>1 DEF Kill, InQueue
  <2>2. Live' = InQueue
    BY <1>1, <1>2 DEF IInv, ScheduledOnce
  <2>. QED  BY <1>1, <2>1, <2>2 DEF IInv, ScheduledOnce
<1>9. Untouched
  BY <1>2 DEF Untouched
<1>. QED  BY <1>2, <1>3, <1>4, <1>5, <1>6, <1>7, <1>8, <1>9 DEF IInv

\* A process that was not in the queue is in it once afterwards.
LEMMA QueuedOnce ==
  ASSUME Types, ScheduledOnce, NEW n \in Nat, n \notin InQueue
  PROVE  LET q == Queued(n)
         IN  \A i, j \in 1 .. Len(q) : q[i] = q[j] => i = j
<1> DEFINE q == Queued(n)
<1>1. Len(queue) \in Nat /\ \A i \in 1 .. Len(queue) : queue[i] \in InQueue
  BY DEF Types, InQueue, ToSet
<1>2. \A i, j \in 1 .. Len(queue) : queue[i] = queue[j] => i = j
  BY DEF ScheduledOnce
<1>3. /\ \A i \in 1 .. Len(queue) : q[i] = queue[i]
      /\ q[Len(queue) + 1] = n
      /\ Len(q) = Len(queue) + 1
  BY QueueAppended DEF Types
<1>. HIDE DEF q
<1>4. \A i \in 1 .. Len(q) : i \in 1 .. Len(queue) \/ i = Len(queue) + 1
  BY <1>1, <1>3
<1>5. \A i \in 1 .. Len(queue) : q[i] = queue[i] /\ q[i] # n
  BY <1>1, <1>3
<1>6. \A i, j \in 1 .. Len(q) : q[i] = q[j] => i = j
  BY <1>2, <1>3, <1>4, <1>5
<1>. QED  BY <1>6 DEF q

\* A system call that does not change who runs.
LEMMA SyscallDone ==
  ASSUME IInv, step = "syscall", step' = "tail", Live' = Live,
         \A i \in Live : Proc(i)'.refcount = Proc(i).refcount,
         UNCHANGED <<queue, current, newborn>>
  PROVE  Control' /\ RefcountIsGuards' /\ ScheduledOnce'
<1>1. Control'
  BY WhoLives DEF Control
<1>2. RefcountIsGuards'
  BY DEF IInv, RefcountIsGuards
<1>3. ScheduledOnce'
  BY DEF IInv, ScheduledOnce, InQueue
<1>. QED  BY <1>1, <1>2, <1>3

LEMMA BrkBelowKeeps ==
  ASSUME IInv, BrkBelow, NEW c, c = current
  PROVE  IInv' /\ Untouched
<1>1. c \in Live /\ Me \in Pcbs /\ Me = Proc(c) /\ current' = c
  BY WhoLives DEF BrkBelow, Me
<1>2. PICK b \in 1..HeapPages :
        processes' = WithProc(c,
          [Me EXCEPT !.granted = IF @ < b THEN b ELSE @])
  BY DEF BrkBelow
<1> DEFINE g == IF Me.granted < b THEN b ELSE Me.granted
           pcb == [Me EXCEPT !.granted = g]
<1>3. processes' = WithProc(c, pcb)
  BY <1>2
<1>4. g \in 0..HeapPages
  BY <1>1, ProcessManagerAssumption DEF Pcbs
<1>. HIDE DEF g
<1>5. /\ pcb \in Pcbs /\ pcb.refcount = Me.refcount
      /\ pcb.table = Me.table /\ pcb.asid = Me.asid
  BY <1>1, <1>4 DEF Pcbs
<1>. HIDE DEF pcb
<1>6. UNCHANGED <<freePids, tableVars>>
  BY DEF BrkBelow
<1>7. /\ processes' \in Seq(Slots) /\ Live' = Live
      /\ Proc(c)' = pcb /\ \A i \in Live \ {c} : Proc(i)' = Proc(i)
      /\ FramesExclusive' /\ FrameAccounting'
      /\ AsidsExact' /\ FreePidsExact'
  BY <1>1, <1>3, <1>5, <1>6, PcbChanged
<1>8. \A i \in Live : Proc(i)'.refcount = Proc(i).refcount
  BY <1>1, <1>5, <1>7
<1>9. Control' /\ RefcountIsGuards' /\ ScheduledOnce'
  BY <1>7, <1>8, SyscallDone DEF BrkBelow
<1>10. Types'
  BY <1>7 DEF IInv, Types, BrkBelow, tableVars
<1>11. Untouched
  BY <1>7 DEF Untouched
<1>. QED  BY <1>7, <1>9, <1>10, <1>11 DEF IInv

LEMMA BrkGrowsKeeps ==
  ASSUME IInv, BrkGrows, NEW c, c = current
  PROVE  IInv' /\ Untouched
<1> DEFINE old == Proc(c).table
<1>1. c \in Live /\ Proc(c) \in Pcbs /\ current' = c
  BY WhoLives DEF BrkGrows
<1>2. PICK b \in 1..HeapPages :
        /\ b > Me.brk /\ Enough(Me.brk .. b - 1)
        /\ processes' = WithProc(c,
             [Me EXCEPT !.table = Grown(@, Allocated(Me.brk .. b - 1)),
                        !.brk = b, !.granted = b])
        /\ frames' = frames \cup FramesOf(Allocated(Me.brk .. b - 1))
        /\ lost' = lost \cup {Allocated(Me.brk .. b - 1)[p] :
                               p \in (Me.brk .. b - 1) \cap DOMAIN Me.table}
  BY DEF BrkGrows
<1> DEFINE pages == Me.brk .. b - 1
           new == Allocated(pages)
           grown == Grown(old, new)
           pcb == [Me EXCEPT !.table = grown, !.brk = b, !.granted = b]
<1>3. pages \in SUBSET Pages
  <2>1. Me.brk \in Nat
    BY <1>1 DEF Me, Pcbs
  <2>. QED  BY <2>1, ProcessManagerAssumption DEF Pages, Heap
<1>4. /\ new \in [pages -> FreeFrames]
      /\ \A p, q \in pages : new[p] = new[q] => p = q
  BY <1>2, <1>3, AllocatedFresh
<1>5. grown \in Tables
  <2>1. PICK D \in SUBSET Pages : old \in [D -> Frames]
    BY <1>1 DEF Pcbs, Tables
  <2>2. new \in [pages -> Frames]
    BY <1>4 DEF FreeFrames
  <2>. HIDE DEF new, pages
  <2>3. grown \in [D \cup pages -> Frames]
    BY <2>1, <2>2 DEF Grown
  <2>. QED  BY <1>3, <2>1, <2>3 DEF Tables
<1>6. /\ processes' = WithProc(c, pcb)
      /\ frames' = frames \cup FramesOf(new)
      /\ lost' = lost \cup {new[p] : p \in pages \cap DOMAIN old}
  BY <1>2 DEF Me
<1>. HIDE DEF grown, new, pages
<1>7. pcb \in Pcbs /\ pcb.table = grown /\ pcb.asid = Proc(c).asid
      /\ pcb.refcount = Proc(c).refcount
  <2>1. b \in Nat /\ b \in 0..HeapPages
    BY ProcessManagerAssumption
  <2>2. Me \in Pcbs /\ Me = Proc(c)
    BY <1>1 DEF Me
  <2>. QED  BY <1>5, <2>1, <2>2 DEF Pcbs
<1>. HIDE DEF pcb
<1>8. /\ processes' \in Seq(Slots) /\ Pids' = Pids /\ Live' = Live
      /\ Proc(c)' = pcb /\ \A i \in Pids \ {c} : Proc(i)' = Proc(i)
  BY <1>1, <1>6, <1>7, SlotUpdated DEF IInv, Types
<1>9. \A i \in Live \ {c} : Proc(i)' = Proc(i)
  BY <1>8 DEF Live
<1>10. /\ FramesExclusive' /\ FrameAccounting'
       /\ frames' \subseteq Frames /\ lost' \subseteq frames'
  BY <1>1, <1>4, <1>6, <1>7, <1>8, <1>9, FramesGrown
  DEF IInv, Types, grown
<1>11. AsidsExact' /\ FreePidsExact'
  BY <1>7, <1>8, <1>9, AsidsKept DEF IInv, FreePidsExact, BrkGrows
<1>12. Control' /\ RefcountIsGuards' /\ ScheduledOnce'
  BY <1>7, <1>8, <1>9, SyscallDone DEF BrkGrows
<1>13. Types'
  BY <1>1, <1>8, <1>10 DEF IInv, Types, BrkGrows
<1>14. Untouched
  BY <1>8, <1>9 DEF Untouched
<1>. QED  BY <1>8, <1>10, <1>11, <1>12, <1>13, <1>14 DEF IInv

\* fork and exec make a process.
LEMMA Born ==
  ASSUME IInv, NEW pages \in SUBSET Pages, CanMake(pages),
         NEW pcb \in Pcbs, pcb.table = Allocated(pages), pcb.asid = NextAsid,
         NEW n, n = NextPid, processes' = Placed(processes, pcb),
         freePids' = FreePidsTaken, lost' = lost,
         frames' = frames \cup FramesOf(Allocated(pages)),
         asids' = asids \cup {NextAsid}
  PROVE  /\ n \in Nat /\ n \notin Live
         /\ processes' \in Seq(Slots) /\ freePids' \in Seq(Nat)
         /\ Live' = Live \cup {n} /\ Proc(n)' = pcb
         /\ \A i \in Live : Proc(i)' = Proc(i)
         /\ FramesExclusive' /\ FrameAccounting'
         /\ AsidsExact' /\ FreePidsExact'
         /\ frames' \subseteq Frames /\ lost' \subseteq frames'
         /\ asids' \subseteq Asids
<1>1. n \in Nat /\ n \notin Live
  BY NextPidFree DEF IInv
<1>2. /\ processes' \in Seq(Slots) /\ freePids' \in Seq(Nat)
      /\ Live' = Live \cup {n} /\ Proc(n)' = pcb
      /\ \A i \in Live : Proc(i)' = Proc(i)
      /\ FreePidsExact'
  BY SlotPlaced DEF IInv
<1> DEFINE new == Allocated(pages)
<1>3. /\ new \in [pages -> FreeFrames]
      /\ \A p, q \in pages : new[p] = new[q] => p = q
  BY AllocatedFresh DEF CanMake
<1>4. NextAsid \in Asids \ asids
  BY NextAsidFree DEF IInv, Types, CanMake
<1>. HIDE DEF new
<1>5. frames' = frames \cup FramesOf(new) /\ Proc(n)'.table = new
  BY <1>2 DEF new
<1>6. FramesExclusive' /\ FrameAccounting' /\ frames' \subseteq Frames
  <2>1. \A i \in Live : Proc(i)'.table = Proc(i).table
    BY <1>2
  <2>2. FramesExclusive /\ FrameAccounting /\ frames \subseteq Frames
    BY DEF IInv, Types
  <2>3. n \notin Live /\ Live' = Live \cup {n} /\ lost' = lost
    BY <1>1, <1>2
  <2>. QED  BY <1>3, <1>5, <2>1, <2>2, <2>3, FramesAdded
<1>7. AsidsExact'
  BY <1>1, <1>2, <1>4, AsidsAdded DEF IInv
<1>8. lost' \subseteq frames' /\ asids' \subseteq Asids
  BY <1>4 DEF IInv, Types
<1>. QED  BY <1>1, <1>2, <1>6, <1>7, <1>8

LEMMA NewPcbType ==
  ASSUME IInv, NEW pages \in SUBSET Pages, CanMake(pages),
         NEW brk \in Nat, NEW granted \in 0..HeapPages
  PROVE  /\ NewPcb(Allocated(pages), brk, granted) \in Pcbs
         /\ NewPcb(Allocated(pages), brk, granted).table = Allocated(pages)
         /\ NewPcb(Allocated(pages), brk, granted).asid = NextAsid
         /\ NewPcb(Allocated(pages), brk, granted).refcount = 0
<1>1. Allocated(pages) \in Tables
  <2>1. Allocated(pages) \in [pages -> FreeFrames]
    BY AllocatedFresh DEF CanMake
  <2>2. Allocated(pages) \in [pages -> Frames]
    BY <2>1 DEF FreeFrames
  <2>. QED  BY <2>2 DEF Tables
<1>2. NextAsid \in Asids
  BY NextAsidFree DEF IInv, Types, CanMake
<1>. QED  BY <1>1, <1>2 DEF NewPcb, Pcbs

LEMMA ForkKeeps ==
  ASSUME IInv, Fork, NEW n, n = NextPid
  PROVE  IInv' /\ Untouched
<1> DEFINE pages == DOMAIN Me.table
<1>1. /\ current \in Live /\ Me \in Pcbs /\ newborn = NoPid
      /\ NoPid \notin Live /\ InQueue \subseteq Live
  BY WhoLives DEF Fork, Me
<1>2. pages \in SUBSET Pages
  <2>1. PICK D \in SUBSET Pages : Me.table \in [D -> Frames]
    BY <1>1 DEF Pcbs, Tables
  <2>. QED  BY <2>1
<1>3. PICK b \in FirstBrk :
        processes' = Placed(processes, NewPcb(Allocated(pages), b, Me.granted))
  BY DEF Fork, Copied
<1>. HIDE DEF pages
<1> DEFINE pcb == NewPcb(Allocated(pages), b, Me.granted)
<1>4. CanMake(pages)
  BY DEF Fork, pages
<1>5. /\ pcb \in Pcbs /\ pcb.table = Allocated(pages)
      /\ pcb.asid = NextAsid /\ pcb.refcount = 0
  <2>1. b \in Nat /\ Me.granted \in 0..HeapPages
    BY <1>1, ProcessManagerAssumption DEF Pcbs
  <2>. QED  BY <1>2, <1>4, <2>1, NewPcbType
<1>6. processes' = Placed(processes, pcb)
  BY <1>3
<1>. HIDE DEF pcb
<1>7. /\ freePids' = FreePidsTaken /\ lost' = lost
      /\ frames' = frames \cup FramesOf(Allocated(pages))
      /\ asids' = asids \cup {NextAsid}
      /\ queue' = Queued(n)
  BY DEF Fork, pages
<1>8. /\ n \in Nat /\ n \notin Live
      /\ processes' \in Seq(Slots) /\ freePids' \in Seq(Nat)
      /\ Live' = Live \cup {n} /\ Proc(n)' = pcb
      /\ \A i \in Live : Proc(i)' = Proc(i)
      /\ FramesExclusive' /\ FrameAccounting'
      /\ AsidsExact' /\ FreePidsExact'
      /\ frames' \subseteq Frames /\ lost' \subseteq frames'
      /\ asids' \subseteq Asids
  BY <1>2, <1>4, <1>5, <1>6, <1>7, Born
<1>9. /\ Queued(n) \in Seq(Nat) /\ ToSet(Queued(n)) = InQueue \cup {n}
      /\ \A i \in 1 .. Len(queue) : Queued(n)[i] = queue[i]
      /\ Queued(n)[Len(queue) + 1] = n
      /\ Len(Queued(n)) = Len(queue) + 1
  BY <1>8, QueueAppended DEF IInv, Types
<1>10. \A i, j \in 1 .. Len(queue') : queue'[i] = queue'[j] => i = j
  <2>1. n \notin InQueue
    BY <1>1, <1>8
  <2>. QED  BY <1>7, <1>8, <2>1, QueuedOnce DEF IInv
<1>11. ScheduledOnce'
  <2>1. InQueue' = InQueue \cup {n} /\ current' = current /\ newborn' = newborn
    BY <1>7, <1>9 DEF InQueue, Fork
  <2>2. /\ Live = InQueue \cup {current} /\ current \notin InQueue
        /\ n # current /\ NoPid # n
    BY <1>1, <1>8 DEF IInv, ScheduledOnce, NoPid
  <2>. QED  BY <1>1, <1>8, <1>10, <2>1, <2>2 DEF ScheduledOnce
<1>12. RefcountIsGuards'
  <2>1. /\ step # "user" /\ step' # "user"
        /\ current' = current /\ newborn' = newborn
    BY DEF Fork
  <2>2. \A i \in Live :
          Proc(i)'.refcount = IF i \in {current, newborn} THEN 1 ELSE 0
    BY <1>8, <2>1 DEF IInv, RefcountIsGuards
  <2>3. Proc(n)'.refcount = 0 /\ n \notin {current, newborn}
    BY <1>1, <1>5, <1>8 DEF NoPid
  <2>4. Live' = Live \cup {n}
    BY <1>8
  <2>. QED  BY <2>1, <2>2, <2>3, <2>4 DEF RefcountIsGuards
<1>13. Types' /\ Control'
  BY <1>1, <1>7, <1>8, <1>9 DEF IInv, Types, Control, Fork
<1>14. Untouched
  BY <1>8 DEF Untouched
<1>. QED  BY <1>8, <1>11, <1>12, <1>13, <1>14 DEF IInv

LEMMA ExecCreateKeeps ==
  ASSUME IInv, ExecCreate, NEW n, n = NextPid
  PROVE  IInv' /\ Untouched
<1>1. /\ current \in Live /\ newborn = NoPid /\ NoPid \notin Live
      /\ InQueue \subseteq Live
  BY WhoLives DEF ExecCreate
<1>2. PICK m \in 1..MaxImage, b \in FirstBrk :
        /\ CanMake(Image(m))
        /\ processes' = Placed(processes,
             [NewPcb(Allocated(Image(m)), b, 0) EXCEPT !.refcount = 1])
        /\ frames' = frames \cup FramesOf(Allocated(Image(m)))
  BY DEF ExecCreate
<1> DEFINE pages == Image(m)
           first == NewPcb(Allocated(pages), b, 0)
           pcb == [first EXCEPT !.refcount = 1]
<1>3. pages \in SUBSET Pages
  BY ProcessManagerAssumption DEF Image, Pages
<1>. HIDE DEF pages
<1>4. /\ first \in Pcbs /\ first.table = Allocated(pages)
      /\ first.asid = NextAsid
  BY <1>2, <1>3, NewPcbType, ProcessManagerAssumption DEF pages
<1>. HIDE DEF first
<1>5. /\ pcb \in Pcbs /\ pcb.table = Allocated(pages)
      /\ pcb.asid = NextAsid /\ pcb.refcount = 1
  <2>1. 1 \in 0..1
    OBVIOUS
  <2>. QED  BY <1>4, <2>1, PcbUpdate
<1>6. /\ processes' = Placed(processes, pcb) /\ CanMake(pages)
      /\ freePids' = FreePidsTaken /\ lost' = lost
      /\ frames' = frames \cup FramesOf(Allocated(pages))
      /\ asids' = asids \cup {NextAsid}
      /\ newborn' = n /\ step' = "exec" /\ current' = current
      /\ queue' = queue /\ status' = status
  BY <1>2 DEF ExecCreate, first, pages
<1>. HIDE DEF pcb
<1>7. /\ n \in Nat /\ n \notin Live
      /\ processes' \in Seq(Slots) /\ freePids' \in Seq(Nat)
      /\ Live' = Live \cup {n} /\ Proc(n)' = pcb
      /\ \A i \in Live : Proc(i)' = Proc(i)
      /\ FramesExclusive' /\ FrameAccounting'
      /\ AsidsExact' /\ FreePidsExact'
      /\ frames' \subseteq Frames /\ lost' \subseteq frames'
      /\ asids' \subseteq Asids
  BY <1>3, <1>5, <1>6, Born
<1>8. ScheduledOnce'
  <2>1. /\ InQueue' = InQueue /\ Live = InQueue \cup {current}
        /\ current \notin InQueue /\ n # current /\ n \notin InQueue
        /\ n # NoPid /\ current # NoPid
    BY <1>1, <1>6, <1>7 DEF IInv, ScheduledOnce, InQueue, NoPid
  <2>2. \A i, j \in 1 .. Len(queue') : queue'[i] = queue'[j] => i = j
    BY <1>6 DEF IInv, ScheduledOnce
  <2>. QED  BY <1>6, <1>7, <2>1, <2>2 DEF ScheduledOnce
<1>9. RefcountIsGuards'
  BY <1>1, <1>5, <1>6, <1>7 DEF IInv, RefcountIsGuards, ExecCreate
<1>10. Types' /\ Control'
  BY <1>1, <1>6, <1>7 DEF IInv, Types, Control, NoPid
<1>11. Untouched
  BY <1>7 DEF Untouched
<1>. QED  BY <1>7, <1>8, <1>9, <1>10, <1>11 DEF IInv

LEMMA ExecTakeKeeps ==
  ASSUME IInv, ExecTake, NEW c, c = current, NEW n, n = newborn
  PROVE  IInv' /\ Untouched
<1> DEFINE pcb == [Me EXCEPT !.table = Proc(n).table, !.granted = 0]
           procs == WithProc(c, pcb)
<1>1. /\ c \in Live /\ n \in Live /\ c # n /\ Me = Proc(c)
      /\ Proc(c) \in Pcbs /\ Proc(n) \in Pcbs
      /\ NoPid \notin Live /\ InQueue \subseteq Live
  BY WhoLives DEF ExecTake, Me
<1>2. /\ pcb \in Pcbs /\ pcb.table = Proc(n).table
      /\ pcb.asid = Proc(c).asid /\ pcb.refcount = Proc(c).refcount
  <2>1. 0 \in 0..HeapPages
    BY ProcessManagerAssumption
  <2>. QED  BY <1>1, <2>1 DEF Pcbs
<1>3. /\ processes' = Removed(procs, n) /\ freePids' = FreePidsListed(n)
      /\ asids' = AsidsWithout(n)
      /\ frames' = frames \ FramesOf(Proc(c).table)
      /\ newborn' = NoPid /\ step' = "tail" /\ current' = c
      /\ queue' = queue /\ lost' = lost /\ status' = status
  BY <1>1 DEF ExecTake, FramesAfterExec
<1>. HIDE DEF pcb
<1>4. /\ procs \in Seq(Slots) /\ Len(procs) = Len(processes)
      /\ procs[c + 1] = pcb
      /\ \A i \in Pids \ {c} : procs[i + 1] = Proc(i)
  <2>1. c \in Pids /\ c \in Nat /\ c + 1 \in 1 .. Len(processes)
    BY <1>1, SlotTypes DEF IInv, Types, Pids
  <2>2. pcb \in Slots
    BY <1>2 DEF Slots
  <2>3. /\ procs \in Seq(Slots) /\ Len(procs) = Len(processes)
        /\ \A j \in 1 .. Len(processes) :
             procs[j] = IF j = c + 1 THEN pcb ELSE processes[j]
    BY <2>1, <2>2, ExceptSeq DEF WithProc, IInv, Types
  <2>4. \A i \in Pids : i \in Nat /\ i + 1 \in 1 .. Len(processes)
    BY SlotTypes DEF IInv, Types, Pids
  <2>. QED  BY <2>1, <2>3, <2>4 DEF Proc
<1>. HIDE DEF procs
<1>5. \A i \in Pids : procs[i + 1].used = Proc(i).used
  <2>1. pcb.used = TRUE /\ Proc(c).used = TRUE
    BY <1>1, <1>2 DEF Pcbs
  <2>. QED  BY <1>4, <2>1
<1>6. /\ processes' \in Seq(Slots) /\ freePids' \in Seq(Nat)
      /\ Live' = Live \ {n} /\ FreePidsExact'
      /\ \A i \in Live \ {n} : Proc(i)' = procs[i + 1]
  BY <1>1, <1>3, <1>4, <1>5, SlotRemoved DEF IInv
<1>7. Proc(c)' = pcb /\ \A i \in Live \ {c, n} : Proc(i)' = Proc(i)
  BY <1>1, <1>4, <1>6 DEF Live
<1>8. FramesExclusive' /\ FrameAccounting'
  <2>1. \A i \in Live \ {c, n} : Proc(i)'.table = Proc(i).table
    BY <1>7
  <2>2. Proc(c)'.table = Proc(n).table
    BY <1>2, <1>7
  <2>. QED  BY <1>1, <1>3, <1>6, <2>1, <2>2, FramesMoved DEF IInv
<1>9. AsidsExact'
  <2>1. \A i \in Live' : Proc(i)'.asid = Proc(i).asid
    BY <1>2, <1>6, <1>7
  <2>. QED  BY <1>1, <1>3, <1>6, <2>1, AsidsFreed DEF IInv
<1>10. Types'
  <2>1. lost' \subseteq frames' /\ frames' \subseteq Frames
    BY <1>3, <1>8 DEF IInv, Types, FrameAccounting
  <2>2. asids' \subseteq Asids
    BY <1>3 DEF IInv, Types, AsidsWithout
  <2>. QED  BY <1>1, <1>3, <1>6, <2>1, <2>2 DEF IInv, Types
<1>11. Control'
  BY <1>1, <1>3 DEF Control
<1>12. RefcountIsGuards'
  <2>1. \A i \in Live : Proc(i).refcount = IF i \in {c, n} THEN 1 ELSE 0
    BY DEF IInv, RefcountIsGuards, ExecTake
  <2>2. \A i \in Live' : Proc(i)'.refcount = Proc(i).refcount
    BY <1>2, <1>6, <1>7
  <2>. QED  BY <1>1, <1>3, <1>6, <2>1, <2>2 DEF RefcountIsGuards
<1>13. ScheduledOnce'
  <2>1. /\ Live = InQueue \cup {c, n} /\ c \notin InQueue /\ n \notin InQueue
        /\ c # NoPid /\ InQueue' = InQueue
    BY <1>1, <1>3 DEF IInv, ScheduledOnce, InQueue
  <2>2. \A i, j \in 1 .. Len(queue') : queue'[i] = queue'[j] => i = j
    BY <1>3 DEF IInv, ScheduledOnce
  <2>. QED  BY <1>1, <1>3, <1>6, <2>1, <2>2 DEF ScheduledOnce
<1>14. Untouched
  BY <1>6, <1>7 DEF Untouched
<1>. QED  BY <1>6, <1>8, <1>9, <1>10, <1>11, <1>12, <1>13, <1>14 DEF IInv

LEMMA RescheduleKeeps ==
  ASSUME IInv, Reschedule, NEW c, c = current
  PROVE  IInv' /\ Untouched
<1> DEFINE pcb == [Me EXCEPT !.refcount = @ - 1]
           q == Queued(c)
<1>1. /\ c \in Live /\ c \in Nat /\ newborn = NoPid /\ Me = Proc(c)
      /\ NoPid \notin Live /\ InQueue \subseteq Live /\ Me \in Pcbs
  BY WhoLives DEF Reschedule, Me
<1>2. \A i \in Live : Proc(i).refcount = IF i = c THEN 1 ELSE 0
  BY <1>1 DEF IInv, RefcountIsGuards, Reschedule
<1>3. /\ pcb \in Pcbs /\ pcb.refcount = 0
      /\ pcb.table = Proc(c).table /\ pcb.asid = Proc(c).asid
  <2>1. Me.refcount = 1 /\ 0 \in 0..1
    BY <1>1, <1>2
  <2>2. pcb = [Me EXCEPT !.refcount = 0]
    BY <2>1
  <2>3. /\ [Me EXCEPT !.refcount = 0] \in Pcbs
        /\ [Me EXCEPT !.refcount = 0].table = Me.table
        /\ [Me EXCEPT !.refcount = 0].asid = Me.asid
        /\ [Me EXCEPT !.refcount = 0].refcount = 0
    BY <1>1, <2>1, PcbUpdate
  <2>. HIDE DEF pcb
  <2>. QED  BY <1>1, <2>2, <2>3
<1>4. /\ processes' = WithProc(c, pcb) /\ step' = "user"
      /\ current' = Head(q) /\ queue' = Popped(q) /\ newborn' = newborn
      /\ status' = status
      /\ UNCHANGED <<freePids, tableVars>>
  BY DEF Reschedule
<1>. HIDE DEF pcb
<1>5. /\ processes' \in Seq(Slots) /\ Live' = Live
      /\ Proc(c)' = pcb /\ \A i \in Live \ {c} : Proc(i)' = Proc(i)
      /\ FramesExclusive' /\ FrameAccounting'
      /\ AsidsExact' /\ FreePidsExact'
  BY <1>1, <1>3, <1>4, PcbChanged
<1>6. /\ q \in Seq(Nat) /\ ToSet(q) = InQueue \cup {c}
      /\ Len(q) = Len(queue) + 1 /\ Len(queue) \in Nat
  <2>1. queue \in Seq(Nat)
    BY DEF IInv, Types
  <2>2. Len(queue) \in Nat
    BY <2>1
  <2>. QED  BY <1>1, <2>1, <2>2, QueueAppended, Zenon
<1>7. \A i, j \in 1 .. Len(q) : q[i] = q[j] => i = j
  <2>1. c \notin InQueue
    BY DEF IInv, ScheduledOnce
  <2>. QED  BY <1>1, <2>1, QueuedOnce DEF IInv
<1>. HIDE DEF q
<1>8. /\ Head(q) \in Nat /\ Popped(q) \in Seq(Nat)
      /\ ToSet(Popped(q)) = ToSet(q) \ {Head(q)} /\ Head(q) \in ToSet(q)
      /\ \A i, j \in 1 .. Len(Popped(q)) : Popped(q)[i] = Popped(q)[j] => i = j
  <2>1. q # << >>
    BY <1>6
  <2>. QED  BY <1>6, <1>7, <2>1, QueuePopped
<1>9. Types' /\ Control'
  BY <1>1, <1>4, <1>5, <1>8 DEF IInv, Types, Control, tableVars, NoPid
<1>10. RefcountIsGuards'
  BY <1>2, <1>3, <1>4, <1>5 DEF RefcountIsGuards
<1>11. ScheduledOnce'
  <2>1. Live = InQueue \cup {c}
    BY <1>1 DEF IInv, ScheduledOnce
  <2>2. InQueue' = Live \ {Head(q)} /\ Head(q) \in Live
    BY <1>4, <1>6, <1>8, <2>1 DEF InQueue
  <2>3. newborn' = NoPid /\ current' = Head(q)
    BY <1>1, <1>4
  <2>4. \A i, j \in 1 .. Len(queue') : queue'[i] = queue'[j] => i = j
    BY <1>4, <1>8
  <2>. QED  BY <1>1, <1>5, <2>2, <2>3, <2>4 DEF ScheduledOnce
<1>12. Untouched
  BY <1>5 DEF Untouched
<1>. QED  BY <1>5, <1>9, <1>10, <1>11, <1>12 DEF IInv

LEMMA RunNextKeeps ==
  ASSUME IInv, RunNext
  PROVE  IInv' /\ Untouched
<1>1. /\ newborn = NoPid /\ current = NoPid
      /\ NoPid \notin Live /\ InQueue \subseteq Live
  BY WhoLives DEF RunNext
<1>2. /\ current' = Head(queue) /\ queue' = Popped(queue)
      /\ step' = "user" /\ newborn' = newborn /\ queue # << >>
      /\ queue \in Seq(Nat)
      /\ UNCHANGED <<processes, freePids, tableVars, status>>
  BY DEF RunNext, IInv, Types
<1>3. Live' = Live /\ Pids' = Pids /\ \A i : Proc(i)' = Proc(i)
  BY <1>2 DEF Live, Pids, Proc
<1>4. FramesExclusive' /\ FrameAccounting'
  BY <1>2, <1>3, FramesKept DEF IInv, tableVars
<1>5. AsidsExact' /\ FreePidsExact'
  BY <1>2, <1>3, AsidsKept DEF IInv, FreePidsExact, tableVars
<1>6. /\ Head(queue) \in Nat /\ Popped(queue) \in Seq(Nat)
      /\ ToSet(Popped(queue)) = InQueue \ {Head(queue)}
      /\ Head(queue) \in InQueue
      /\ \A i, j \in 1 .. Len(Popped(queue)) :
           Popped(queue)[i] = Popped(queue)[j] => i = j
  <2>1. \A i, j \in 1 .. Len(queue) : queue[i] = queue[j] => i = j
    BY DEF IInv, ScheduledOnce
  <2>. QED  BY <1>2, <2>1, QueuePopped DEF InQueue
<1>7. Types' /\ Control'
  BY <1>1, <1>2, <1>6 DEF IInv, Types, Control, tableVars, NoPid
<1>8. RefcountIsGuards'
  <2>1. \A i \in Live : Proc(i).refcount = 0
    BY <1>1 DEF IInv, RefcountIsGuards
  <2>. QED  BY <1>2, <1>3, <2>1 DEF RefcountIsGuards
<1>9. ScheduledOnce'
  <2>1. Live = InQueue
    BY <1>1 DEF IInv, ScheduledOnce
  <2>2. InQueue' = Live \ {Head(queue)} /\ Head(queue) \in Live
    BY <1>2, <1>6, <2>1 DEF InQueue
  <2>3. newborn' = NoPid /\ current' = Head(queue)
    BY <1>1, <1>2
  <2>4. \A i, j \in 1 .. Len(queue') : queue'[i] = queue'[j] => i = j
    BY <1>2, <1>6
  <2>. QED  BY <1>1, <1>3, <2>2, <2>3, <2>4 DEF ScheduledOnce
<1>10. Untouched
  BY <1>3 DEF Untouched
<1>. QED  BY <1>4, <1>5, <1>7, <1>8, <1>9, <1>10 DEF IInv

-----------------------------------------------------------------------------
(* The inductive invariant *)

LEMMA InitHolds ==
  Init => IInv
<1> SUFFICES ASSUME Init
             PROVE  IInv
  OBVIOUS
<1>1. PICK n \in 1..MaxImage, b \in FirstBrk :
        /\ n <= NumFrames /\ NumAsids > 0
        /\ processes = << [table |-> [p \in Image(n) |-> p + n], asid |-> 0,
                           brk |-> b, granted |-> 0, refcount |-> 0,
                           used |-> TRUE] >>
        /\ frames = 0 .. n - 1
  BY DEF Init
<1>2. /\ freePids = << >> /\ queue = << >> /\ asids = {0} /\ lost = {}
      /\ current = 0 /\ newborn = NoPid /\ step = "user" /\ status = "up"
  BY DEF Init
<1> DEFINE shell == [p \in Image(n) |-> p + n]
           pcb == [table |-> shell, asid |-> 0, brk |-> b, granted |-> 0,
                   refcount |-> 0, used |-> TRUE]
<1>3. n \in Nat /\ \A p \in Image(n) : p \in Int /\ p + n \in 0 .. n - 1
  BY ProcessManagerAssumption DEF Image
<1>4. shell \in Tables
  <2>1. Image(n) \in SUBSET Pages
    BY ProcessManagerAssumption DEF Image, Pages
  <2>2. shell \in [Image(n) -> Frames]
    BY <1>1, <1>3, ProcessManagerAssumption DEF Frames
  <2>. QED  BY <2>1, <2>2 DEF Tables
<1>5. FramesOf(shell) = 0 .. n - 1
  <2>1. ASSUME NEW f \in 0 .. n - 1
        PROVE  f - n \in Image(n) /\ (f - n) + n = f
    BY <1>3 DEF Image
  <2>. QED  BY <1>3, <2>1 DEF FramesOf
<1>6. processes = << pcb >>
  BY <1>1
<1>. HIDE DEF shell
<1>7. pcb \in Pcbs /\ pcb.table = shell /\ pcb.asid = 0 /\ pcb.refcount = 0
      /\ pcb.used
  BY <1>1, <1>4, ProcessManagerAssumption DEF Pcbs, Asids
<1>. HIDE DEF pcb
<1>8. /\ processes \in Seq(Slots) /\ Pids = {0} /\ Live = {0}
      /\ Proc(0) = pcb
  <2>1. pcb \in Slots
    BY <1>7 DEF Slots
  <2>2. processes \in Seq(Slots) /\ Len(processes) = 1 /\ processes[1] = pcb
    BY <1>6, <2>1
  <2>3. Pids = {0} /\ Proc(0) = pcb
    BY <2>2 DEF Pids, Proc
  <2>. QED  BY <1>7, <2>2, <2>3 DEF Live
<1>9. Types /\ Control
  BY <1>1, <1>2, <1>3, <1>8, ProcessManagerAssumption
  DEF Types, Control, NoPid, Asids, Frames
<1>10. FramesExclusive
  <2>1. \A p, q \in DOMAIN shell : shell[p] = shell[q] => p = q
    BY <1>3 DEF shell
  <2>. QED  BY <1>7, <1>8, <2>1 DEF FramesExclusive
<1>11. FrameAccounting
  <2>1. Mapped = FramesOf(shell)
    BY <1>7, <1>8 DEF Mapped
  <2>. QED  BY <1>1, <1>2, <1>5, <2>1 DEF FrameAccounting
<1>12. AsidsExact /\ RefcountIsGuards
  BY <1>2, <1>7, <1>8 DEF AsidsExact, RefcountIsGuards
<1>13. FreePidsExact
  <2>1. Len(freePids) = 0 /\ ToSet(freePids) = {}
    BY <1>2 DEF ToSet
  <2>. QED  BY <1>8, <2>1 DEF FreePidsExact
<1>14. ScheduledOnce
  <2>1. Len(queue) = 0 /\ InQueue = {}
    BY <1>2 DEF InQueue, ToSet
  <2>. QED  BY <1>2, <1>8, <2>1 DEF ScheduledOnce, NoPid
<1>. QED  BY <1>9, <1>10, <1>11, <1>12, <1>13, <1>14 DEF IInv

LEMMA StepKeeps ==
  IInv /\ [Next]_vars => IInv' /\ Untouched
<1> SUFFICES ASSUME IInv, [Next]_vars
             PROVE  IInv' /\ Untouched
  OBVIOUS
<1>1. CASE UNCHANGED vars
  BY <1>1, StopKeeps DEF vars, IInv, Types
<1>2. CASE UserStep
  <2>1. CASE Syscall \/ Interrupt
    BY <2>1, TrapKeeps DEF Syscall, Interrupt
  <2>2. CASE TlbMiss \/ Fault
    BY <2>2, StopKeeps DEF TlbMiss, Fault, Stop
  <2>. QED  BY <1>2, <2>1, <2>2 DEF UserStep
<1>3. CASE OtherSyscall
  BY <1>3, OtherSyscallKeeps
<1>4. CASE Exit
  BY <1>4, KillKeeps DEF Exit
<1>5. CASE BrkSyscall
  <2>1. CASE BadBrk
    BY <2>1, KillKeeps DEF BadBrk
  <2>2. CASE BrkBelow
    BY <2>2, BrkBelowKeeps
  <2>3. CASE BrkGrows
    BY <2>3, BrkGrowsKeeps
  <2>4. CASE BrkFails
    BY <2>4, StopKeeps DEF BrkFails, Stop
  <2>. QED  BY <1>5, <2>1, <2>2, <2>3, <2>4 DEF BrkSyscall
<1>6. CASE ForkSyscall
  <2>1. CASE Fork
    BY <2>1, ForkKeeps
  <2>2. CASE ForkFails
    BY <2>2, StopKeeps DEF ForkFails, Exhausted, Stop
  <2>. QED  BY <1>6, <2>1, <2>2 DEF ForkSyscall
<1>7. CASE ExecSyscall
  <2>1. CASE ExecNoFile
    BY <2>1, StopKeeps DEF ExecNoFile, Stop
  <2>2. CASE ExecBadFile
    BY <2>2, OtherSyscallKeeps DEF ExecBadFile
  <2>3. CASE ExecCreate
    BY <2>3, ExecCreateKeeps
  <2>4. CASE ExecFails
    BY <2>4, StopKeeps DEF ExecFails, Exhausted, Stop
  <2>5. CASE ExecTake
    BY <2>5, ExecTakeKeeps
  <2>. QED  BY <1>7, <2>1, <2>2, <2>3, <2>4, <2>5 DEF ExecSyscall
<1>8. CASE LeaveTrap
  <2>1. CASE Reschedule
    BY <2>1, RescheduleKeeps
  <2>2. CASE RunNext
    BY <2>2, RunNextKeeps
  <2>3. CASE HaltEmpty
    BY <2>3, StopKeeps DEF HaltEmpty, Stop
  <2>. QED  BY <1>8, <2>1, <2>2, <2>3 DEF LeaveTrap
<1>. QED  BY <1>1, <1>2, <1>3, <1>4, <1>5, <1>6, <1>7, <1>8 DEF Next

\* The kernel's bookkeeping of processes is consistent after every step of
\* every sequence of traps.
THEOREM Invariance == Spec => []IInv
  BY InitHolds, StepKeeps, PTL DEF Spec

LEMMA SeqOfItsElements ==
  ASSUME NEW S, NEW s \in Seq(Nat), ToSet(s) \subseteq S
  PROVE  s \in Seq(S)
<1>1. Len(s) \in Nat /\ DOMAIN s = 1 .. Len(s) /\ s = [i \in 1 .. Len(s) |-> s[i]]
  OBVIOUS
<1>2. \A i \in 1 .. Len(s) : s[i] \in S
  BY <1>1 DEF ToSet
<1>. QED  BY <1>1, <1>2, SeqDef

\* TypeOK of ProcessManager follows: its types are the data of Types, the rest
\* is in what the PIDs stand for.
LEMMA TypesHold ==
  IInv => TypeOK
<1> SUFFICES ASSUME IInv
             PROVE  TypeOK
  OBVIOUS
<1>1. Live \subseteq Pids /\ \A pid \in Pids : Proc(pid) \in Slots
  BY SlotTypes DEF IInv, Types
<1>2. \A pid \in Pids : Proc(pid) = Empty \/ IsPcb(Proc(pid))
  <2>1. ASSUME NEW pcb \in Pcbs
        PROVE  IsPcb(pcb)
    <3>1. PICK D \in SUBSET Pages : pcb.table \in [D -> Frames]
      BY DEF Pcbs, Tables
    <3>2. IsTable(pcb.table)
      BY <3>1 DEF IsTable
    <3>. QED  BY <3>2 DEF IsPcb, Pcbs
  <2>. QED  BY <1>1, <2>1 DEF Slots
<1>3. freePids \in Seq(Pids)
  <2>1. freePids \in Seq(Nat) /\ ToSet(freePids) \subseteq Pids
    BY DEF IInv, Types, FreePidsExact
  <2>. QED  BY <2>1, SeqOfItsElements
<1>4. queue \in Seq(Pids)
  <2>1. queue \in Seq(Nat) /\ ToSet(queue) \subseteq Pids
    BY <1>1, WhoLives DEF IInv, Types, InQueue
  <2>. QED  BY <2>1, SeqOfItsElements
<1>5. current \in Pids \cup {NoPid} /\ newborn \in Pids \cup {NoPid}
  BY <1>1, WhoLives
<1>. QED  BY <1>2, <1>3, <1>4, <1>5 DEF TypeOK, IInv, Types

\* Two pages never share a frame, whatever was forked, executed and freed.
THEOREM FramesAreExclusive == Spec => []FramesExclusive
<1>1. IInv => FramesExclusive
  BY DEF IInv
<1>. QED  BY <1>1, Invariance, PTL

\* Frames, ASIDs, PIDs and Guards are counted exactly.
THEOREM ResourcesAreExact == Spec => []ResourcesExact
<1>1. IInv => ResourcesExact
  BY TypesHold DEF IInv, ResourcesExact
<1>. QED  BY <1>1, Invariance, PTL

\* Every process is running, queued once, or being taken apart by exec.
THEOREM EachIsScheduledOnce == Spec => []ScheduledOnce
<1>1. IInv => ScheduledOnce
  BY DEF IInv
<1>. QED  BY <1>1, Invariance, PTL

\* A trap of one process does not touch any other.
THEOREM OthersAreUntouched == Spec => OthersUntouched
<1> DEFINE A == \A pid \in Live \ {current, newborn} :
                  /\ pid + 1 \in DOMAIN processes'
                  /\ processes'[pid + 1] = Proc(pid)
<1>1. ASSUME IInv, [Next]_vars
      PROVE  A
  <2>1. Untouched /\ processes' \in Seq(Slots) /\ Live' \subseteq Pids'
    BY <1>1, StepKeeps DEF IInv, Types, Live
  <2>2. \A i \in Pids' : i + 1 \in DOMAIN processes'
    BY <2>1 DEF Pids
  <2>. QED  BY <2>1, <2>2 DEF Untouched, Proc
<1>2. IInv /\ [Next]_vars => [A]_vars
  BY <1>1
<1>. QED  BY <1>2, Invariance, PTL DEF Spec, OthersUntouched

LEMMA InOrder ==
  ASSUME IInv, [Next]_vars
  PROVE  \A i \in 1 .. Len(queue) :
           \/ i = 1 /\ current' = queue[1]
           \/ \E j \in 1 .. i : j \in DOMAIN queue' /\ queue'[j] = queue[i]
<1>1. queue \in Seq(Nat) /\ Len(queue) \in Nat
  BY DEF IInv, Types
<1>2. ASSUME NEW q \in Seq(Nat), Len(q) >= Len(queue), queue' = Popped(q),
             \A i \in 1 .. Len(queue) : q[i] = queue[i],
             q # << >>, current' = Head(q), NEW i \in 1 .. Len(queue)
      PROVE  \/ i = 1 /\ current' = queue[1]
             \/ \E j \in 1 .. i : j \in DOMAIN queue' /\ queue'[j] = queue[i]
  <2>1. CASE i = 1
    <3>1. Head(q) = q[1]
      BY <1>2
    <3>. QED  BY <1>2, <2>1, <3>1
  <2>2. CASE i # 1
    <3>1. /\ Len(queue') = Len(q) - 1 /\ queue' \in Seq(Nat)
          /\ queue'[i - 1] = q[i]
      BY <1>1, <1>2, <2>2, HeadTailProperties DEF Popped
    <3>2. i - 1 \in 1 .. i /\ i - 1 \in DOMAIN queue'
      BY <1>1, <1>2, <2>2, <3>1
    <3>. QED  BY <1>2, <3>1, <3>2
  <2>. QED  BY <2>1, <2>2
<1>3. ASSUME NEW q \in Seq(Nat), Len(q) >= Len(queue), queue' = q,
             \A i \in 1 .. Len(queue) : q[i] = queue[i],
             NEW i \in 1 .. Len(queue)
      PROVE  \E j \in 1 .. i : j \in DOMAIN queue' /\ queue'[j] = queue[i]
  <2>1. i \in 1 .. i /\ i \in DOMAIN queue' /\ queue'[i] = queue[i]
    BY <1>1, <1>3
  <2>. QED  BY <2>1
<1>4. CASE queue' = queue
  BY <1>1, <1>3, <1>4
<1>5. CASE Fork
  <2>1. NextPid \in Nat
    BY NextPidFree DEF IInv
  <2>2. /\ Queued(NextPid) \in Seq(Nat)
        /\ Len(Queued(NextPid)) = Len(queue) + 1
        /\ \A i \in 1 .. Len(queue) : Queued(NextPid)[i] = queue[i]
    BY <1>1, <2>1, QueueAppended
  <2>3. Len(Queued(NextPid)) >= Len(queue) /\ queue' = Queued(NextPid)
    BY <1>1, <1>5, <2>2 DEF Fork
  <2>. QED  BY <1>3, <2>2, <2>3
<1>6. CASE Reschedule
  <2>1. current \in Nat
    BY <1>6, WhoLives DEF Reschedule
  <2>2. /\ Queued(current) \in Seq(Nat)
        /\ Len(Queued(current)) = Len(queue) + 1
        /\ \A i \in 1 .. Len(queue) : Queued(current)[i] = queue[i]
    BY <1>1, <2>1, QueueAppended
  <2>3. Len(Queued(current)) >= Len(queue) /\ Queued(current) # << >>
    BY <1>1, <2>2
  <2>4. queue' = Popped(Queued(current)) /\ current' = Head(Queued(current))
    BY <1>6 DEF Reschedule
  <2>. QED  BY <1>2, <2>2, <2>3, <2>4
<1>7. CASE RunNext
  BY <1>1, <1>2, <1>7 DEF RunNext
<1>8. queue' = queue \/ Fork \/ Reschedule \/ RunNext
  BY DEF Next, vars, UserStep, Syscall, Interrupt, Trap, TlbMiss, Fault, Stop,
         OtherSyscall, Exit, Kill, BrkSyscall, BadBrk, BrkBelow, BrkGrows,
         BrkFails, ForkSyscall, ForkFails, Exhausted, ExecSyscall, ExecNoFile,
         ExecBadFile, ExecCreate, ExecFails, ExecTake, LeaveTrap, HaltEmpty
<1>. QED  BY <1>4, <1>5, <1>6, <1>7, <1>8

\* The scheduler is first in, first out.
THEOREM NobodyOvertakes == Spec => NoOvertaking
  BY InOrder, Invariance, PTL DEF Spec, NoOvertaking

=============================================================================
