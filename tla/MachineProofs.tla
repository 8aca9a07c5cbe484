--------------------------- MODULE MachineProofs ----------------------------
(***************************************************************************)
(* HostFiles and Core keep their promises, HostFiles for any machines,     *)
(* files, descriptors and positions, Core for any width of a byte, any     *)
(* registers, any size of the cache and any programs.  The inductive       *)
(* invariants are                                                          *)
(*                                                                         *)
(*   Inv      which slots of a vector are done with while it grows or is   *)
(*            destroyed; without that, the end of a machine could leave    *)
(*            descriptors of the host behind,                              *)
(*   CoreInv  what the cache holds are instructions of aligned words, in   *)
(*            the order of their last use; without that, an instruction    *)
(*            from the cache could have operands that no register holds.   *)
(***************************************************************************)
EXTENDS HostFiles, Core, SequenceTheorems, FiniteSetTheorems,
        WellFoundedInduction, TLAPS

-----------------------------------------------------------------------------
(* Host files: the inductive invariant *)

Entries == [file : Files \cup {Missing}, pos : 0..MaxPos]
Slots == [open : BOOLEAN, fd : Fds, file : Files]

\* The table of the host: a descriptor without a file is closed, and what the
\* open slots of all machines say of it.
TableInv == \A fd \in Fds : table[fd].file = Missing => table[fd] = Closed

TableParts == /\ table \in [Fds -> Entries]
              /\ TableInv
              /\ DescriptorsOwned
              /\ ReadsOwnFile

\* The vector of each machine, and how far its growth or destruction is.
VectorInv ==
  \A m \in Machines :
    /\ Len(files[m]) <= capacity[m]
    /\ Len(files[m]) <= MaxFiles
    /\ \A i \in 1..Len(freeVFDs[m]) : freeVFDs[m][i] \in 1..Len(files[m])
    /\ phase[m] = "run" => at[m] = 0
    /\ phase[m] = "grow" => at[m] < Len(files[m])
    /\ at[m] <= Len(files[m])
    /\ phase[m] = "destroy" => \A v \in 1..at[m] : ~files[m][v].open

MachineParts ==
  /\ files \in [Machines -> Seq(Slots)]
  /\ capacity \in [Machines -> Nat]
  /\ freeVFDs \in [Machines -> Seq(Nat)]
  /\ phase \in [Machines -> {"run", "grow", "destroy"}]
  /\ at \in [Machines -> Nat]
  /\ VectorInv
  /\ FreeVFDsAreClosed

\* Whether and why the process has ended.
EndParts ==
  /\ ended \in {"no", "open", "range", "read", "close"}
  /\ damaged \in BOOLEAN
  /\ CloseFailsOnlyDamaged

Inv == TableParts /\ MachineParts /\ EndParts

-----------------------------------------------------------------------------
(* Sequences of free VFDs *)

LEMMA Popped ==
  ASSUME NEW q \in Seq(Nat), q # <<>>, IsInjective(q)
  PROVE  /\ Len(q) \in Nat \ {0} /\ Last(q) = q[Len(q)]
         /\ Front(q) \in Seq(Nat)
         /\ Len(Front(q)) = Len(q) - 1
         /\ \A i \in 1..Len(q) - 1 : Front(q)[i] = q[i]
         /\ IsInjective(Front(q))
         /\ Range(Front(q)) = Range(q) \ {Last(q)}
<1>1. Len(q) \in Nat \ {0} /\ DOMAIN q = 1..Len(q) /\ Last(q) = q[Len(q)]
  BY EmptySeq, LenProperties DEF Last
<1>2. /\ Front(q) \in Seq(Nat)
      /\ Len(Front(q)) = Len(q) - 1
      /\ \A i \in 1..Len(q) - 1 : Front(q)[i] = q[i]
  <2>1. \A i \in 1..Len(q) - 1 : q[i] \in Nat
    BY <1>1, ElementOfSeq
  <2>2. /\ SubSeq(q, 1, Len(q) - 1) \in Seq(Nat)
        /\ Len(SubSeq(q, 1, Len(q) - 1))
             = IF 1 <= Len(q) - 1 THEN Len(q) - 1 - 1 + 1 ELSE 0
        /\ \A i \in 1 .. Len(q) - 1 - 1 + 1 :
             SubSeq(q, 1, Len(q) - 1)[i] = q[1 + i - 1]
    <3>1. 1 \in Int /\ Len(q) - 1 \in Int
      BY <1>1
    <3> HIDE DEF Front
    <3> QED BY <2>1, <3>1, SubSeqProperties
  <2> QED BY <1>1, <2>2 DEF Front
<1>3. DOMAIN Front(q) = 1..Len(q) - 1
  BY <1>1, <1>2, LenProperties
<1>4. IsInjective(Front(q))
  <2>1. \A i, j \in 1..Len(q) : q[i] = q[j] => i = j
    BY <1>1 DEF IsInjective
  <2>2. \A i \in 1..Len(q) - 1 : i \in 1..Len(q) /\ Front(q)[i] = q[i]
    BY <1>1, <1>2
  <2>3. \A i, j \in 1..Len(q) - 1 : Front(q)[i] = Front(q)[j] => i = j
    BY <2>1, <2>2
  <2> QED
    BY <1>3, <2>3 DEF IsInjective
<1>5. Range(Front(q)) = Range(q) \ {Last(q)}
  <2> DEFINE n == Len(q)
  <2>0. n \in Nat \ {0}
    BY <1>1
  <2> HIDE DEF n
  <2>1. \A i \in 1..n : i \in 1..n - 1 \/ i = n
    BY <2>0
  <2>2. \A i \in 1..Len(q) - 1 : i \in 1..Len(q) /\ q[i] # q[Len(q)]
    BY <1>1 DEF IsInjective
  <2> QED BY <1>1, <1>2, <1>3, <2>1, <2>2 DEF Range, n
<1> QED
  BY <1>1, <1>2, <1>4, <1>5

LEMMA Pushed ==
  ASSUME NEW q \in Seq(Nat), NEW v \in Nat, IsInjective(q), v \notin Range(q)
  PROVE  /\ Append(q, v) \in Seq(Nat)
         /\ Len(Append(q, v)) = Len(q) + 1 /\ Len(q) \in Nat
         /\ \A i \in 1..Len(q) : Append(q, v)[i] = q[i]
         /\ Append(q, v)[Len(q) + 1] = v
         /\ IsInjective(Append(q, v))
         /\ Range(Append(q, v)) = Range(q) \cup {v}
<1>1. /\ Append(q, v) \in Seq(Nat)
      /\ Len(Append(q, v)) = Len(q) + 1
      /\ \A i \in 1..Len(q) : Append(q, v)[i] = q[i]
      /\ Append(q, v)[Len(q) + 1] = v
  BY AppendProperties
<1>2. /\ Len(q) \in Nat /\ DOMAIN q = 1..Len(q)
      /\ DOMAIN Append(q, v) = 1..Len(q) + 1
  BY <1>1, LenProperties
<1>3. IsInjective(Append(q, v))
  BY <1>1, <1>2 DEF IsInjective, Range
<1>4. Range(Append(q, v)) = Range(q) \cup {v}
  <2>1. \A i \in 1..Len(q) + 1 : i \in 1..Len(q) \/ i = Len(q) + 1
    BY <1>2
  <2>2. \A i \in 1..Len(q) : i \in 1..Len(q) + 1
    BY <1>2
  <2>3. Len(q) + 1 \in 1..Len(q) + 1
    BY <1>2
  <2> QED BY <1>1, <1>2, <2>1, <2>2, <2>3 DEF Range
<1> QED
  BY <1>1, <1>2, <1>3, <1>4

\* A closed VFD is reused only if it is free.
LEMMA LastFree ==
  ASSUME MachineParts, NEW m \in Machines, freeVFDs[m] # <<>>,
         phase[m] = "run"
  PROVE  /\ Last(freeVFDs[m]) \in 1..Len(files[m])
         /\ Last(freeVFDs[m]) \notin Open(m)
<1>1. freeVFDs[m] \in Seq(Nat) /\ IsInjective(freeVFDs[m])
  BY DEF MachineParts, FreeVFDsAreClosed
<1>2. /\ Len(freeVFDs[m]) \in Nat \ {0}
      /\ Last(freeVFDs[m]) = freeVFDs[m][Len(freeVFDs[m])]
  BY <1>1, Popped
<1>3. Last(freeVFDs[m]) \in Range(freeVFDs[m])
  BY <1>1, <1>2, LenProperties DEF Range
<1> QED
  BY <1>3 DEF MachineParts, FreeVFDsAreClosed

\* The host gives the lowest descriptor that is free.
LEMMA LowestFree ==
  ASSUME HostFilesAssumption, FreeFds # {}
  PROVE  Lowest \in FreeFds /\ Lowest \in Fds /\ table[Lowest] = Closed
<1> DEFINE R == OpToRel(<, Nat)
<1>1. FreeFds \subseteq Nat
  BY DEF FreeFds, Fds, HostFilesAssumption
<1>2. \E fd \in FreeFds : \A o \in FreeFds : fd <= o
  <2>1. IsWellFoundedOn(R, Nat)
    BY NatLessThanWellFounded
  <2>2. PICK fd \in FreeFds : \A o \in FreeFds : <<o, fd>> \notin R
    BY <1>1, <2>1, WFMin
  <2>3. \A o \in FreeFds : ~(o < fd)
    BY <1>1, <2>2 DEF OpToRel
  <2> QED BY <1>1, <2>3
<1>3. Lowest \in FreeFds
  BY <1>2 DEF Lowest
<1> QED
  BY <1>3 DEF FreeFds

-----------------------------------------------------------------------------
(* Slots *)

LEMMA SlotTypes ==
  ASSUME MachineParts, NEW n \in Machines
  PROVE  /\ Len(files[n]) \in Nat
         /\ \A w \in 1..Len(files[n]) : files[n][w] \in Slots
         /\ \A w \in Open(n) : /\ w \in Nat
                              /\ files[n][w].fd \in Fds
                              /\ files[n][w].file \in Files
<1>1. files[n] \in Seq(Slots)
  BY DEF MachineParts
<1>2. \A w \in 1..Len(files[n]) : files[n][w] \in Slots
  BY <1>1, ElementOfSeq
<1> QED
  BY <1>1, <1>2, LenProperties DEF Open, Slots

\* Slot v of m becomes s, in its place or at the end of the vector.
Becomes(m, v, s) ==
  /\ files' \in [Machines -> Seq(Slots)]
  /\ v \in 1..Len(files'[m])
  /\ files'[m][v] = s
  /\ \A n \in Machines : \A w \in Nat :
       w \in 1..Len(files'[n]) <=> w \in 1..Len(files[n]) \/ (n = m /\ w = v)
  /\ \A n \in Machines : \A w \in 1..Len(files[n]) :
       (n = m /\ w = v) \/ files'[n][w] = files[n][w]

LEMMA Put ==
  ASSUME MachineParts, NEW m \in Machines, NEW v \in 1..Len(files[m]),
         NEW s \in Slots, files' = [files EXCEPT ![m][v] = s]
  PROVE  Becomes(m, v, s) /\ \A n \in Machines : Len(files'[n]) = Len(files[n])
<1>1. files \in [Machines -> Seq(Slots)]
  BY DEF MachineParts
<1>2. /\ [files[m] EXCEPT ![v] = s] \in Seq(Slots)
      /\ Len([files[m] EXCEPT ![v] = s]) = Len(files[m])
      /\ \A w \in 1..Len(files[m]) :
           [files[m] EXCEPT ![v] = s][w] = IF w = v THEN s ELSE files[m][w]
  BY <1>1, ExceptSeq
<1>3. /\ files' \in [Machines -> Seq(Slots)]
      /\ files'[m] = [files[m] EXCEPT ![v] = s]
      /\ \A n \in Machines : n # m => files'[n] = files[n]
  BY <1>1, <1>2
<1> QED
  BY <1>2, <1>3 DEF Becomes

LEMMA Appended ==
  ASSUME MachineParts, NEW m \in Machines, NEW s \in Slots,
         files' = [files EXCEPT ![m] = Append(@, s)]
  PROVE  /\ Len(files[m]) \in Nat
         /\ Becomes(m, Len(files[m]) + 1, s)
         /\ Len(files'[m]) = Len(files[m]) + 1
         /\ \A n \in Machines : n # m => files'[n] = files[n]
<1>1. files \in [Machines -> Seq(Slots)]
  BY DEF MachineParts
<1>2. /\ Append(files[m], s) \in Seq(Slots)
      /\ Len(Append(files[m], s)) = Len(files[m]) + 1
      /\ \A w \in 1..Len(files[m]) : Append(files[m], s)[w] = files[m][w]
      /\ Append(files[m], s)[Len(files[m]) + 1] = s
      /\ Len(files[m]) \in Nat
  BY <1>1, AppendProperties, LenProperties
<1>3. /\ files' \in [Machines -> Seq(Slots)]
      /\ files'[m] = Append(files[m], s)
      /\ \A n \in Machines : n # m => files'[n] = files[n]
  BY <1>1, <1>2
<1> QED
  BY <1>2, <1>3 DEF Becomes

-----------------------------------------------------------------------------
(* The table of the host: what each change of it and of a slot preserves *)

\* A descriptor that is free is given to a slot that is not open.
LEMMA Fill ==
  ASSUME HostFilesAssumption, MachineParts, TableParts,
         NEW m \in Machines, NEW v \in Nat, NEW fd \in Fds, NEW f \in Files,
         table[fd] = Closed, Becomes(m, v, Slot(fd, f)), v \notin Open(m),
         table' = [table EXCEPT ![fd] = [file |-> f, pos |-> 0]],
         UNCHANGED damaged
  PROVE  TableParts'
<1>1. /\ table' \in [Fds -> Entries]
      /\ table'[fd] = [file |-> f, pos |-> 0]
      /\ \A o \in Fds : o # fd => table'[o] = table[o]
  BY DEF TableParts, Entries, HostFilesAssumption
<1>2. f # Missing /\ Missing \notin Files
  BY DEF HostFilesAssumption
<1>3. TableInv'
  BY <1>1, <1>2 DEF TableParts, TableInv
<1>4. /\ \A n \in Machines : \A w \in Open(n) :
           /\ w \in Nat /\ ~(n = m /\ w = v)
           /\ w \in Open(n)' /\ files'[n][w] = files[n][w]
      /\ \A n \in Machines : \A w \in Open(n)' :
           w \in Open(n) \/ (n = m /\ w = v)
      /\ v \in Open(m)' /\ files'[m][v] = Slot(fd, f)
  <2>1. v \in Open(m)' /\ files'[m][v] = Slot(fd, f)
    BY DEF Open, Becomes, Slot
  <2>2. ASSUME NEW n \in Machines, NEW w \in Open(n)
        PROVE  /\ w \in Nat /\ ~(n = m /\ w = v)
               /\ w \in Open(n)' /\ files'[n][w] = files[n][w]
    <3>1. w \in 1..Len(files[n]) /\ files[n][w].open /\ w \in Nat
      BY DEF Open
    <3>2. ~(n = m /\ w = v)
      OBVIOUS
    <3>3. w \in 1..Len(files'[n]) /\ files'[n][w] = files[n][w]
      BY <3>1, <3>2 DEF Becomes
    <3> QED
      BY <3>1, <3>2, <3>3 DEF Open
  <2>3. ASSUME NEW n \in Machines, NEW w \in Open(n)', ~(n = m /\ w = v)
        PROVE  w \in Open(n)
    <3>1. w \in 1..Len(files'[n]) /\ files'[n][w].open /\ w \in Nat
      BY DEF Open
    <3>2. w \in 1..Len(files[n]) /\ files'[n][w] = files[n][w]
      BY <2>3, <3>1 DEF Becomes
    <3> QED
      BY <3>1, <3>2 DEF Open
  <2> QED
    BY <2>1, <2>2, <2>3
<1>5. DescriptorsOwned'
  <2> SUFFICES ASSUME NEW o \in Fds, table'[o] # Closed
               PROVE  \E n \in Machines : \E w \in Open(n)' : files'[n][w].fd = o
    BY DEF DescriptorsOwned
  <2>1. CASE o = fd
    BY <1>4, <2>1 DEF Slot
  <2>2. CASE o # fd
    BY <1>1, <1>4, <2>2 DEF TableParts, DescriptorsOwned
  <2> QED
    BY <2>1, <2>2
<1>6. ReadsOwnFile'
  <2> SUFFICES ASSUME ~damaged
               PROVE  \A n \in Machines : \A w \in Open(n)' :
                        /\ table'[files'[n][w].fd].file = files'[n][w].file
                        /\ \A k \in Machines : \A u \in Open(k)' :
                             files'[k][u].fd = files'[n][w].fd => k = n /\ u = w
    BY DEF ReadsOwnFile
  <2>1. \A n \in Machines : \A w \in Open(n) :
          /\ files[n][w].fd \in Fds /\ files[n][w].file \in Files
          /\ table[files[n][w].fd].file = files[n][w].file
          /\ files[n][w].fd # fd
    BY <1>2, SlotTypes DEF TableParts, ReadsOwnFile, Closed
  <2>2. \A n \in Machines : \A w \in Open(n)' :
          table'[files'[n][w].fd].file = files'[n][w].file
    BY <1>1, <1>4, <2>1 DEF Slot
  <2>3. ASSUME NEW n \in Machines, NEW w \in Open(n)',
               NEW k \in Machines, NEW u \in Open(k)',
               files'[k][u].fd = files'[n][w].fd
        PROVE  k = n /\ u = w
    <3>1. CASE ~(n = m /\ w = v) /\ ~(k = m /\ u = v)
      <4>1. /\ w \in Open(n) /\ files'[n][w] = files[n][w]
            /\ u \in Open(k) /\ files'[k][u] = files[k][u]
        BY <1>4, <3>1
      <4> QED
        BY <4>1, <2>3 DEF TableParts, ReadsOwnFile
    <3>2. CASE n = m /\ w = v /\ ~(k = m /\ u = v)
      BY <1>4, <2>1, <2>3, <3>2 DEF Slot
    <3>3. CASE ~(n = m /\ w = v) /\ k = m /\ u = v
      <4>1. w \in Open(n) /\ files'[n][w] = files[n][w]
        BY <1>4, <3>3
      <4>2. files'[k][u].fd = fd
        BY <1>4, <3>3 DEF Slot
      <4> QED
        BY <4>1, <4>2, <2>1, <2>3
    <3> QED
      BY <3>1, <3>2, <3>3
  <2> QED
    BY <2>2, <2>3
<1> QED
  BY <1>1, <1>3, <1>5, <1>6 DEF TableParts

\* An open slot is closed, and with it its descriptor.
LEMMA Shut ==
  ASSUME HostFilesAssumption, MachineParts, TableParts,
         NEW m \in Machines, NEW v \in Open(m), NEW s \in Slots,
         Becomes(m, v, s), ~s.open, Close(files[m][v].fd),
         UNCHANGED damaged
  PROVE  TableParts'
<1>1. files[m][v] \in Slots /\ v \in Nat
  BY ElementOfSeq DEF MachineParts, Open
<1> DEFINE fd == files[m][v].fd
<1>2. /\ fd \in Fds
      /\ table' \in [Fds -> Entries]
      /\ table'[fd] = Closed
      /\ \A o \in Fds : o # fd => table'[o] = table[o]
  BY <1>1 DEF TableParts, Entries, Slots, HostFilesAssumption, Close, Closed
<1>3. TableInv'
  BY <1>2 DEF TableParts, TableInv, Closed
<1>4. /\ \A n \in Machines : \A w \in Open(n) :
           (n = m /\ w = v) \/ (w \in Open(n)' /\ files'[n][w] = files[n][w])
      /\ \A n \in Machines : \A w \in Open(n)' :
           w \in Open(n) /\ ~(n = m /\ w = v)
  BY <1>1 DEF Open, Becomes
<1>5. DescriptorsOwned'
  <2> HIDE DEF fd
  <2> SUFFICES ASSUME NEW o \in Fds, table'[o] # Closed
               PROVE  \E n \in Machines : \E w \in Open(n)' : files'[n][w].fd = o
    BY DEF DescriptorsOwned
  <2>1. o # fd /\ table[o] # Closed
    BY <1>2
  <2>2. PICK n \in Machines : \E w \in Open(n) : files[n][w].fd = o
    BY <2>1 DEF TableParts, DescriptorsOwned
  <2> PICK w \in Open(n) : files[n][w].fd = o
    BY <2>2
  <2>3. ~(n = m /\ w = v)
    BY <2>1 DEF fd
  <2> QED
    BY <1>4, <2>3
<1>6. ReadsOwnFile'
  <2>1. \A n \in Machines : \A w \in Open(n) : files[n][w].fd \in Fds
    BY SlotTypes
  <2>2. CASE damaged
    BY <2>2 DEF ReadsOwnFile
  <2>3. CASE ~damaged
    <3>1. \A n \in Machines : \A w \in Open(n)' :
            /\ w \in Open(n) /\ files'[n][w] = files[n][w]
            /\ files[n][w].fd # fd
      BY <1>4, <2>3 DEF TableParts, ReadsOwnFile
    <3> HIDE DEF fd
    <3> QED
      BY <1>2, <2>1, <2>3, <3>1 DEF TableParts, ReadsOwnFile
  <2> QED
    BY <2>2, <2>3
<1> QED
  BY <1>2, <1>3, <1>5, <1>6 DEF TableParts

\* The position of a descriptor that is not closed changes.
LEMMA Move ==
  ASSUME HostFilesAssumption, MachineParts, TableParts,
         NEW fd \in Fds, table[fd] # Closed, NEW pos \in 0..MaxPos,
         table' = [table EXCEPT ![fd].pos = pos],
         UNCHANGED files, damaged => damaged', damaged' \in BOOLEAN
  PROVE  TableParts'
<1>1. /\ table' \in [Fds -> Entries]
      /\ table'[fd].file = table[fd].file
      /\ \A o \in Fds : o # fd => table'[o] = table[o]
  BY DEF TableParts, Entries, HostFilesAssumption
<1>2. table[fd].file # Missing
  BY DEF TableParts, TableInv
<1>3. \A o \in Fds : /\ table'[o].file = table[o].file
                     /\ table'[o] = Closed <=> table[o] = Closed
  BY <1>1, <1>2 DEF Closed
<1>4. TableInv'
  BY <1>3, <1>1, <1>2 DEF TableParts, TableInv
<1>5. \A n \in Machines : Open(n)' = Open(n)
  BY DEF Open
<1>6. DescriptorsOwned'
  BY <1>3, <1>5 DEF TableParts, DescriptorsOwned
<1>7. ReadsOwnFile'
  <2>1. \A n \in Machines : \A w \in Open(n) : files[n][w].fd \in Fds
    BY SlotTypes
  <2> QED
    BY <1>3, <1>5, <2>1 DEF TableParts, ReadsOwnFile
<1> QED
  BY <1>1, <1>4, <1>6, <1>7 DEF TableParts

\* Growth closes the descriptor of an open slot.
LEMMA Lose ==
  ASSUME HostFilesAssumption, MachineParts, TableParts, NEW fd \in Fds,
         Close(fd), damaged', UNCHANGED files
  PROVE  TableParts'
<1>1. /\ table' \in [Fds -> Entries]
      /\ table'[fd] = Closed
      /\ \A o \in Fds : o # fd => table'[o] = table[o]
  BY DEF TableParts, Entries, HostFilesAssumption, Close, Closed
<1>2. TableInv'
  BY <1>1 DEF TableParts, TableInv, Closed
<1>3. \A n \in Machines : Open(n)' = Open(n)
  BY DEF Open
<1>4. DescriptorsOwned'
  BY <1>1, <1>3 DEF TableParts, DescriptorsOwned
<1>5. ReadsOwnFile'
  BY DEF ReadsOwnFile
<1> QED
  BY <1>1, <1>2, <1>4, <1>5 DEF TableParts

\* Neither the table nor what is open changes.
LEMMA Keep ==
  ASSUME TableParts, UNCHANGED table, damaged => damaged', damaged' \in BOOLEAN,
         \A n \in Machines :
           /\ Open(n)' = Open(n)
           /\ \A w \in Open(n) : files'[n][w] = files[n][w]
  PROVE  TableParts'
<1>1. TableInv' /\ table' \in [Fds -> Entries]
  BY DEF TableParts, TableInv
<1>2. DescriptorsOwned'
  BY DEF TableParts, DescriptorsOwned
<1>3. ReadsOwnFile'
  BY DEF TableParts, ReadsOwnFile
<1> QED
  BY <1>1, <1>2, <1>3 DEF TableParts

\* What Open and the elements become in the cases of Becomes.
LEMMA OpenAfter ==
  ASSUME MachineParts, NEW m \in Machines, NEW v \in Nat, NEW s \in Slots,
         Becomes(m, v, s)
  PROVE  /\ \A n \in Machines : n # m => Open(n)' = Open(n)
         /\ s.open => Open(m)' = Open(m) \cup {v}
         /\ ~s.open => Open(m)' = Open(m) \ {v}
<1>1. \A n \in Machines : Len(files[n]) \in Nat
  BY SlotTypes
<1>2. \A n \in Machines : n # m => Open(n)' = Open(n)
  <2> SUFFICES ASSUME NEW n \in Machines, n # m PROVE Open(n)' = Open(n)
    OBVIOUS
  <2>1. \A w \in 1..Len(files'[n]) : w \in 1..Len(files[n])
    BY DEF Becomes
  <2>2. \A w \in 1..Len(files[n]) :
          w \in 1..Len(files'[n]) /\ files'[n][w] = files[n][w]
    BY <1>1 DEF Becomes
  <2> QED
    BY <2>1, <2>2 DEF Open
<1>3. \A w \in 1..Len(files'[m]) : w # v => w \in 1..Len(files[m])
  BY DEF Becomes
<1>4. \A w \in 1..Len(files[m]) : w # v =>
        w \in 1..Len(files'[m]) /\ files'[m][w] = files[m][w]
  BY <1>1 DEF Becomes
<1>5. v \in 1..Len(files'[m]) /\ files'[m][v] = s
  BY DEF Becomes
<1> QED
  BY <1>2, <1>3, <1>4, <1>5 DEF Open

-----------------------------------------------------------------------------
(* The actions *)

LEMMA KeepMachines ==
  ASSUME MachineParts, UNCHANGED <<files, capacity, freeVFDs, phase, at>>
  PROVE  MachineParts'
  BY DEF MachineParts, VectorInv, FreeVFDsAreClosed, Open

\* The process ends, and everything stays as it is.
LEMMA EndInv ==
  ASSUME Inv, NEW why \in {"open", "range", "read", "close"},
         End(why), why = "close" => damaged
  PROVE  Inv'
<1>1. TableParts /\ MachineParts /\ EndParts
  BY DEF Inv
<1>2. TableParts'
  BY <1>1 DEF End, TableParts, TableInv, DescriptorsOwned, ReadsOwnFile, Open
<1>3. MachineParts'
  BY <1>1, KeepMachines DEF End
<1>4. EndParts'
  BY <1>1 DEF End, EndParts, CloseFailsOnlyDamaged
<1> QED
  BY <1>2, <1>3, <1>4 DEF Inv

LEMMA SlotIn ==
  ASSUME NEW fd \in Fds, NEW f \in Files
  PROVE  Slot(fd, f) \in Slots /\ Slot(fd, f).open
  BY DEF Slot, Slots

LEMMA OpenReuseInv ==
  ASSUME HostFilesAssumption, Inv,
         NEW m \in Machines, NEW f \in Files \cup {Missing}, OpenReuse(m, f)
  PROVE  Inv'
<1> DEFINE v == Last(freeVFDs[m])
           fd == Lowest
<1>1. TableParts /\ MachineParts /\ EndParts
  BY DEF Inv
<1>2. /\ f \in Files /\ fd \in Fds /\ table[fd] = Closed
      /\ phase[m] = "run" /\ freeVFDs[m] # <<>>
      /\ table' = [table EXCEPT ![fd] = [file |-> f, pos |-> 0]]
      /\ files' = [files EXCEPT ![m][v] = Slot(fd, f)]
      /\ freeVFDs' = [freeVFDs EXCEPT ![m] = Front(@)]
      /\ UNCHANGED <<capacity, phase, at, ended, damaged>>
  BY LowestFree DEF OpenReuse, Running, CanOpen, Opened
<1>3. v \in 1..Len(files[m]) /\ v \notin Open(m)
  BY <1>1, <1>2, LastFree
<1>4. v \in Nat
  BY <1>3
<1>5. Slot(fd, f) \in Slots /\ Slot(fd, f).open
  BY <1>2, SlotIn
<1> HIDE DEF v, fd
<1>6. /\ Becomes(m, v, Slot(fd, f))
      /\ \A n \in Machines : Len(files'[n]) = Len(files[n])
  BY <1>1, <1>2, <1>3, <1>5, Put
<1>7. TableParts'
  BY <1>1, <1>2, <1>3, <1>4, <1>6, Fill
<1>8. /\ \A n \in Machines : n # m => Open(n)' = Open(n)
      /\ Open(m)' = Open(m) \cup {v}
  BY <1>1, <1>4, <1>5, <1>6, OpenAfter
<1>9. /\ freeVFDs[m] \in Seq(Nat) /\ IsInjective(freeVFDs[m])
      /\ Range(freeVFDs[m]) = (1..Len(files[m])) \ Open(m)
  BY <1>1, <1>2 DEF MachineParts, FreeVFDsAreClosed
<1>10. /\ freeVFDs' \in [Machines -> Seq(Nat)]
       /\ freeVFDs'[m] = Front(freeVFDs[m])
       /\ \A n \in Machines : n # m => freeVFDs'[n] = freeVFDs[n]
  BY <1>1, <1>2, <1>9, Popped DEF MachineParts
<1>11. FreeVFDsAreClosed'
  <2> SUFFICES ASSUME NEW n \in Machines, phase[n] # "destroy"
               PROVE  /\ IsInjective(freeVFDs'[n])
                      /\ Range(freeVFDs'[n]) = (1..Len(files'[n])) \ Open(n)'
    BY <1>2 DEF FreeVFDsAreClosed
  <2>1. CASE n = m
    <3>1. /\ IsInjective(Front(freeVFDs[m]))
          /\ Range(Front(freeVFDs[m])) = Range(freeVFDs[m]) \ {v}
      BY <1>2, <1>9, Popped DEF v
    <3> QED
      BY <3>1, <2>1, <1>6, <1>8, <1>9, <1>10
  <2>2. CASE n # m
    BY <2>2, <1>1, <1>6, <1>8, <1>10 DEF MachineParts, FreeVFDsAreClosed
  <2> QED
    BY <2>1, <2>2
<1>12. VectorInv'
  <2>1. \A n \in Machines : \A i \in 1..Len(freeVFDs'[n]) :
          freeVFDs'[n][i] \in 1..Len(files'[n])
    <3> SUFFICES ASSUME NEW n \in Machines, NEW i \in 1..Len(freeVFDs'[n])
                 PROVE  freeVFDs'[n][i] \in 1..Len(files'[n])
      OBVIOUS
    <3>1. CASE n = m
      <4>1. /\ Len(freeVFDs[m]) \in Nat \ {0}
            /\ Len(Front(freeVFDs[m])) = Len(freeVFDs[m]) - 1
            /\ \A j \in 1..Len(freeVFDs[m]) - 1 :
                 Front(freeVFDs[m])[j] = freeVFDs[m][j]
        BY <1>2, <1>9, Popped
      <4>2. i \in 1..Len(freeVFDs[m]) - 1 /\ i \in 1..Len(freeVFDs[m])
        BY <4>1, <3>1, <1>10
      <4> QED
        BY <4>1, <4>2, <3>1, <1>1, <1>6, <1>10 DEF MachineParts, VectorInv
    <3>2. CASE n # m
      BY <3>2, <1>1, <1>6, <1>10 DEF MachineParts, VectorInv
    <3> QED
      BY <3>1, <3>2
  <2>2. \A n \in Machines : phase[n] = "destroy" =>
          \A w \in 1..at[n] : ~files'[n][w].open
    <3> SUFFICES ASSUME NEW n \in Machines, phase[n] = "destroy",
                        NEW w \in 1..at[n]
                 PROVE  ~files'[n][w].open
      OBVIOUS
    <3>1. n # m /\ at[n] \in Nat /\ at[n] <= Len(files[n])
      BY <1>1, <1>2 DEF MachineParts, VectorInv
    <3>2. Len(files[n]) \in Nat
      BY <1>1, SlotTypes
    <3>3. w \in 1..Len(files[n])
      BY <3>1, <3>2
    <3>4. files'[n][w] = files[n][w]
      BY <3>1, <3>3, <1>6 DEF Becomes
    <3> QED
      BY <3>4, <1>1 DEF MachineParts, VectorInv
  <2> QED
    BY <2>1, <2>2, <1>1, <1>2, <1>6 DEF MachineParts, VectorInv
<1>13. MachineParts'
  BY <1>1, <1>2, <1>6, <1>10, <1>11, <1>12 DEF MachineParts, Becomes
<1>14. EndParts'
  BY <1>1, <1>2 DEF EndParts, CloseFailsOnlyDamaged
<1> QED
  BY <1>7, <1>13, <1>14 DEF Inv

\* The vector has room, or grows by doubling.
LEMMA OpenNewInv ==
  ASSUME HostFilesAssumption, Inv,
         NEW m \in Machines, NEW f \in Files \cup {Missing}, OpenNew(m, f)
  PROVE  Inv'
<1> DEFINE v == Len(files[m]) + 1
           fd == Lowest
<1>1. TableParts /\ MachineParts /\ EndParts
  BY DEF Inv
<1>2. /\ f \in Files /\ fd \in Fds /\ table[fd] = Closed
      /\ phase[m] = "run" /\ freeVFDs[m] = <<>> /\ Len(files[m]) < MaxFiles
      /\ table' = [table EXCEPT ![fd] = [file |-> f, pos |-> 0]]
      /\ files' = [files EXCEPT ![m] = Append(@, Slot(fd, f))]
      /\ IF Full(m)
           THEN /\ capacity' = [capacity EXCEPT ![m] = Doubled(@)]
                /\ phase' = [phase EXCEPT ![m] = "grow"]
           ELSE UNCHANGED <<capacity, phase>>
      /\ UNCHANGED <<freeVFDs, at, ended, damaged>>
  BY LowestFree DEF OpenNew, Running, CanOpen, Opened
<1>3. Slot(fd, f) \in Slots /\ Slot(fd, f).open
  BY <1>2, SlotIn
<1> HIDE DEF fd
<1>4. /\ Len(files[m]) \in Nat
      /\ Becomes(m, v, Slot(fd, f))
      /\ Len(files'[m]) = Len(files[m]) + 1
      /\ \A n \in Machines : n # m => files'[n] = files[n]
  BY <1>1, <1>2, <1>3, Appended
<1>5. v \in Nat /\ v \notin Open(m)
  BY <1>4 DEF Open
<1>6. TableParts'
  BY <1>1, <1>2, <1>4, <1>5, Fill
<1>7. /\ \A n \in Machines : n # m => Open(n)' = Open(n)
      /\ Open(m)' = Open(m) \cup {v}
  BY <1>1, <1>3, <1>4, <1>5, OpenAfter
<1>8. FreeVFDsAreClosed'
  <2>1. IsInjective(<<>>) /\ Range(<<>>) = {}
    BY DEF IsInjective, Range
  <2>2. Open(m) = 1..Len(files[m])
    BY <2>1, <1>1, <1>2 DEF MachineParts, FreeVFDsAreClosed, Open
  <2>3. 1..Len(files'[m]) = Open(m)'
    BY <2>2, <1>4, <1>7
  <2> SUFFICES ASSUME NEW n \in Machines, phase'[n] # "destroy"
               PROVE  /\ IsInjective(freeVFDs'[n])
                      /\ Range(freeVFDs'[n]) = (1..Len(files'[n])) \ Open(n)'
    BY DEF FreeVFDsAreClosed
  <2>4. CASE n = m
    BY <2>1, <2>3, <2>4, <1>2
  <2>5. CASE n # m
    BY <2>5, <1>1, <1>2, <1>4, <1>7 DEF MachineParts, FreeVFDsAreClosed
  <2> QED
    BY <2>4, <2>5
<1>9. VectorInv'
  <2>1. Len(files[m]) <= capacity[m] /\ capacity[m] \in Nat /\ at[m] = 0
    BY <1>1, <1>2 DEF MachineParts, VectorInv
  <2>2. Len(files'[m]) <= capacity'[m] /\ Len(files'[m]) <= MaxFiles
    BY <2>1, <1>1, <1>2, <1>4 DEF Full, Doubled, MachineParts, HostFilesAssumption
  <2>3. freeVFDs'[m] = <<>> /\ at'[m] = 0 /\ phase'[m] \in {"run", "grow"}
    BY <2>1, <1>1, <1>2 DEF MachineParts
  <2> SUFFICES ASSUME NEW n \in Machines
               PROVE  /\ Len(files'[n]) <= capacity'[n]
                      /\ Len(files'[n]) <= MaxFiles
                      /\ \A i \in 1..Len(freeVFDs'[n]) :
                           freeVFDs'[n][i] \in 1..Len(files'[n])
                      /\ phase'[n] = "run" => at'[n] = 0
                      /\ phase'[n] = "grow" => at'[n] < Len(files'[n])
                      /\ at'[n] <= Len(files'[n])
                      /\ phase'[n] = "destroy" =>
                           \A w \in 1..at'[n] : ~files'[n][w].open
    BY DEF VectorInv
  <2>4. CASE n = m
    <3>1. \A i \in 1..Len(freeVFDs'[m]) : FALSE
      BY <2>3, EmptySeq
    <3> QED
      BY <3>1, <2>2, <2>3, <2>4, <1>4
  <2>5. CASE n # m
    <3>1. /\ files'[n] = files[n] /\ capacity'[n] = capacity[n]
          /\ phase'[n] = phase[n] /\ at'[n] = at[n]
          /\ freeVFDs'[n] = freeVFDs[n]
      BY <2>5, <1>1, <1>2, <1>4 DEF MachineParts
    <3> QED
      BY <3>1, <1>1 DEF MachineParts, VectorInv
  <2> QED
    BY <2>4, <2>5
<1>10. capacity' \in [Machines -> Nat]
       /\ phase' \in [Machines -> {"run", "grow", "destroy"}]
  <2>1. Doubled(capacity[m]) \in Nat
    BY <1>1 DEF MachineParts, Doubled
  <2> QED
    BY <2>1, <1>1, <1>2 DEF MachineParts
<1>11. MachineParts'
  BY <1>1, <1>2, <1>4, <1>8, <1>9, <1>10 DEF MachineParts, Becomes
<1>12. EndParts'
  BY <1>1, <1>2 DEF EndParts, CloseFailsOnlyDamaged
<1> QED
  BY <1>6, <1>11, <1>12 DEF Inv

\* What a slot becomes that is reset.
ResetSlot(m, v) == [files[m][v] EXCEPT !.open = FALSE]

LEMMA Reset ==
  ASSUME HostFilesAssumption, TableParts, MachineParts,
         NEW m \in Machines, NEW v \in 1..Len(files[m]),
         files' = [files EXCEPT ![m][v].open = FALSE]
  PROVE  /\ ResetSlot(m, v) \in Slots /\ ~ResetSlot(m, v).open
         /\ Becomes(m, v, ResetSlot(m, v))
         /\ \A n \in Machines : Len(files'[n]) = Len(files[n])
<1>1. files[m][v] \in Slots
  BY SlotTypes
<1>2. ResetSlot(m, v) \in Slots /\ ~ResetSlot(m, v).open
  BY <1>1 DEF ResetSlot, Slots
<1>3. files' = [files EXCEPT ![m][v] = ResetSlot(m, v)]
  BY DEF ResetSlot
<1> HIDE DEF ResetSlot
<1> QED
  BY <1>2, <1>3, Put

\* Before the vector has grown with an open file, a close does not fail.
LEMMA CloseSucceeds ==
  ASSUME HostFilesAssumption, TableParts, MachineParts,
         NEW m \in Machines, NEW v \in Open(m), CloseFails(files[m][v].fd)
  PROVE  damaged
<1>1. files[m][v].fd \in Fds /\ files[m][v].file \in Files
  BY SlotTypes
<1> QED
  BY <1>1 DEF TableParts, ReadsOwnFile, CloseFails, Closed, HostFilesAssumption

LEMMA CloseVFDInv ==
  ASSUME HostFilesAssumption, Inv,
         NEW m \in Machines, NEW v \in VFDs, CloseVFD(m, v)
  PROVE  Inv'
<1>1. TableParts /\ MachineParts /\ EndParts
  BY DEF Inv
<1>2. v \in Open(m) /\ v \in 1..Len(files[m]) /\ v \in Nat /\ phase[m] = "run"
  BY DEF CloseVFD, Running, Open
<1>3. CASE CloseFails(files[m][v].fd)
  <2>1. End("close") /\ damaged
    BY <1>1, <1>2, <1>3, CloseSucceeds DEF CloseVFD
  <2> QED
    BY <2>1, EndInv
<1>4. CASE ~CloseFails(files[m][v].fd)
  <2>1. /\ Close(files[m][v].fd)
        /\ files' = [files EXCEPT ![m][v].open = FALSE]
        /\ freeVFDs' = [freeVFDs EXCEPT ![m] = Append(@, v)]
        /\ UNCHANGED <<capacity, phase, at, ended, damaged>>
    BY <1>4 DEF CloseVFD
  <2>2. /\ ResetSlot(m, v) \in Slots /\ ~ResetSlot(m, v).open
        /\ Becomes(m, v, ResetSlot(m, v))
        /\ \A n \in Machines : Len(files'[n]) = Len(files[n])
    BY <1>1, <1>2, <2>1, Reset
  <2>3. TableParts'
    BY <1>1, <1>2, <2>1, <2>2, Shut
  <2>4. /\ \A n \in Machines : n # m => Open(n)' = Open(n)
        /\ Open(m)' = Open(m) \ {v}
    BY <1>1, <1>2, <2>2, OpenAfter
  <2>5. /\ freeVFDs[m] \in Seq(Nat) /\ IsInjective(freeVFDs[m])
        /\ Range(freeVFDs[m]) = (1..Len(files[m])) \ Open(m)
    BY <1>1, <1>2 DEF MachineParts, FreeVFDsAreClosed
  <2>6. /\ Append(freeVFDs[m], v) \in Seq(Nat)
        /\ Len(Append(freeVFDs[m], v)) = Len(freeVFDs[m]) + 1
        /\ Len(freeVFDs[m]) \in Nat
        /\ \A i \in 1..Len(freeVFDs[m]) :
             Append(freeVFDs[m], v)[i] = freeVFDs[m][i]
        /\ Append(freeVFDs[m], v)[Len(freeVFDs[m]) + 1] = v
        /\ IsInjective(Append(freeVFDs[m], v))
        /\ Range(Append(freeVFDs[m], v)) = Range(freeVFDs[m]) \cup {v}
    <3>1. v \notin Range(freeVFDs[m])
      BY <1>2, <2>5
    <3> QED
      BY <3>1, <1>2, <2>5, Pushed
  <2>7. /\ freeVFDs' \in [Machines -> Seq(Nat)]
        /\ freeVFDs'[m] = Append(freeVFDs[m], v)
        /\ \A n \in Machines : n # m => freeVFDs'[n] = freeVFDs[n]
    BY <1>1, <2>1, <2>6 DEF MachineParts
  <2>8. FreeVFDsAreClosed'
    <3> SUFFICES ASSUME NEW n \in Machines, phase[n] # "destroy"
                 PROVE  /\ IsInjective(freeVFDs'[n])
                        /\ Range(freeVFDs'[n]) = (1..Len(files'[n])) \ Open(n)'
      BY <2>1 DEF FreeVFDsAreClosed
    <3>1. CASE n = m
      BY <3>1, <1>2, <2>2, <2>4, <2>5, <2>6, <2>7
    <3>2. CASE n # m
      BY <3>2, <1>1, <2>2, <2>4, <2>7 DEF MachineParts, FreeVFDsAreClosed
    <3> QED
      BY <3>1, <3>2
  <2>9. VectorInv'
    <3>1. \A n \in Machines : \A i \in 1..Len(freeVFDs'[n]) :
            freeVFDs'[n][i] \in 1..Len(files'[n])
      <4> SUFFICES ASSUME NEW n \in Machines, NEW i \in 1..Len(freeVFDs'[n])
                   PROVE  freeVFDs'[n][i] \in 1..Len(files'[n])
        OBVIOUS
      <4>1. CASE n = m
        <5>0. Len(freeVFDs'[n]) = Len(freeVFDs[m]) + 1
          BY <4>1, <2>6, <2>7
        <5>1. i \in 1..Len(freeVFDs[m]) \/ i = Len(freeVFDs[m]) + 1
          BY <5>0, <2>6
        <5>2. CASE i \in 1..Len(freeVFDs[m])
          BY <5>2, <4>1, <1>1, <2>2, <2>6, <2>7 DEF MachineParts, VectorInv
        <5>3. CASE i = Len(freeVFDs[m]) + 1
          BY <5>3, <4>1, <1>2, <2>2, <2>6, <2>7
        <5> QED
          BY <5>1, <5>2, <5>3
      <4>2. CASE n # m
        BY <4>2, <1>1, <2>2, <2>7 DEF MachineParts, VectorInv
      <4> QED
        BY <4>1, <4>2
    <3>2. \A n \in Machines : phase[n] = "destroy" =>
            \A w \in 1..at[n] : ~files'[n][w].open
      <4> SUFFICES ASSUME NEW n \in Machines, phase[n] = "destroy",
                          NEW w \in 1..at[n]
                   PROVE  ~files'[n][w].open
        OBVIOUS
      <4>1. n # m /\ at[n] \in Nat /\ at[n] <= Len(files[n])
        BY <1>1, <1>2 DEF MachineParts, VectorInv
      <4>2. Len(files[n]) \in Nat
        BY <1>1, SlotTypes
      <4>3. w \in 1..Len(files[n])
        BY <4>1, <4>2
      <4>4. files'[n][w] = files[n][w]
        BY <4>1, <4>3, <2>2 DEF Becomes
      <4> QED
        BY <4>4, <1>1 DEF MachineParts, VectorInv
    <3> QED
      BY <3>1, <3>2, <1>1, <2>1, <2>2 DEF MachineParts, VectorInv
  <2>10. MachineParts'
    BY <1>1, <2>1, <2>2, <2>7, <2>8, <2>9 DEF MachineParts, Becomes
  <2>11. EndParts'
    BY <1>1, <2>1 DEF EndParts, CloseFailsOnlyDamaged
  <2> QED
    BY <2>3, <2>10, <2>11 DEF Inv
<1> QED
  BY <1>3, <1>4

\* The next element of a vector that is destroyed.
LEMMA NextElement ==
  ASSUME MachineParts, NEW m \in Machines, at[m] < Len(files[m])
  PROVE  /\ at[m] \in Nat /\ at[m] + 1 \in Nat
         /\ at[m] + 1 \in 1..Len(files[m])
         /\ Next1(m) = files[m][at[m] + 1]
         /\ Next1(m) \in Slots
         /\ Next1(m).open <=> at[m] + 1 \in Open(m)
<1>1. at[m] \in Nat /\ Len(files[m]) \in Nat
  BY SlotTypes DEF MachineParts
<1>2. at[m] + 1 \in 1..Len(files[m])
  BY <1>1
<1> QED
  BY <1>1, <1>2, SlotTypes DEF Next1, Open

LEMMA RelocateInv ==
  ASSUME HostFilesAssumption, Inv, NEW m \in Machines, Relocate(m)
  PROVE  Inv'
<1>1. TableParts /\ MachineParts /\ EndParts
  BY DEF Inv
<1>2. /\ phase[m] = "grow"
      /\ at[m] < Len(files[m]) - 1 /\ at[m] < Len(files[m]) /\ at[m] \in Nat
  BY <1>1, SlotTypes DEF Relocate, MachineParts
<1>3. Next1(m) \in Slots /\ (Next1(m).open <=> at[m] + 1 \in Open(m))
  BY <1>1, <1>2, NextElement
<1>4. CASE Next1(m).open /\ CloseFails(Next1(m).fd)
  <2>1. damaged
    BY <1>1, <1>2, <1>3, <1>4, CloseSucceeds DEF Next1
  <2>2. End("close")
    BY <1>4 DEF Relocate
  <2> QED
    BY <2>1, <2>2, EndInv
<1>5. CASE ~(Next1(m).open /\ CloseFails(Next1(m).fd))
  <2>1. /\ IF Next1(m).open THEN Close(Next1(m).fd) /\ damaged' = TRUE
                            ELSE UNCHANGED <<table, damaged>>
        /\ at' = [at EXCEPT ![m] = @ + 1]
        /\ UNCHANGED <<files, capacity, freeVFDs, phase, ended>>
    BY <1>5 DEF Relocate
  <2>2. TableParts'
    <3>1. CASE Next1(m).open
      <4>1. Next1(m).fd \in Fds
        BY <1>3 DEF Slots
      <4> QED
        BY <4>1, <3>1, <1>1, <2>1, Lose
    <3>2. CASE ~Next1(m).open
      BY <3>2, <1>1, <2>1 DEF TableParts, TableInv, DescriptorsOwned,
                              ReadsOwnFile, Open
    <3> QED
      BY <3>1, <3>2
  <2>3. at' \in [Machines -> Nat]
    BY <1>1, <1>2, <2>1 DEF MachineParts
  <2>4. VectorInv'
    <3>1. /\ at'[m] < Len(files'[m]) /\ at'[m] <= Len(files'[m])
          /\ phase'[m] = "grow"
      BY <1>1, <1>2, <2>1, SlotTypes DEF MachineParts
    <3>2. \A n \in Machines : n # m => at'[n] = at[n]
      BY <1>1, <2>1 DEF MachineParts
    <3> QED
      BY <3>1, <3>2, <1>1, <2>1 DEF MachineParts, VectorInv
  <2>5. FreeVFDsAreClosed'
    BY <1>1, <2>1 DEF MachineParts, FreeVFDsAreClosed, Open
  <2>6. MachineParts'
    BY <1>1, <2>1, <2>3, <2>4, <2>5 DEF MachineParts
  <2>7. EndParts'
    BY <1>1, <2>1 DEF EndParts, CloseFailsOnlyDamaged
  <2> QED
    BY <2>2, <2>6, <2>7 DEF Inv
<1> QED
  BY <1>4, <1>5

LEMMA GrownInv ==
  ASSUME Inv, NEW m \in Machines, Grown(m)
  PROVE  Inv'
<1>1. TableParts /\ MachineParts /\ EndParts
  BY DEF Inv
<1>2. /\ phase' = [phase EXCEPT ![m] = "run"]
      /\ at' = [at EXCEPT ![m] = 0]
      /\ phase[m] = "grow"
      /\ UNCHANGED <<table, files, capacity, freeVFDs, ended, damaged>>
  BY DEF Grown
<1>3. TableParts' /\ EndParts'
  BY <1>1, <1>2 DEF TableParts, TableInv, DescriptorsOwned, ReadsOwnFile, Open,
                    EndParts, CloseFailsOnlyDamaged
<1>4. /\ phase' \in [Machines -> {"run", "grow", "destroy"}]
      /\ at' \in [Machines -> Nat]
      /\ phase'[m] = "run" /\ at'[m] = 0
      /\ \A n \in Machines : n # m => phase'[n] = phase[n] /\ at'[n] = at[n]
  BY <1>1, <1>2 DEF MachineParts
<1>5. FreeVFDsAreClosed'
  BY <1>1, <1>2, <1>4 DEF MachineParts, FreeVFDsAreClosed, Open
<1>6. VectorInv'
  <2>1. \A n \in Machines : Len(files[n]) \in Nat
    BY <1>1, SlotTypes
  <2> QED
    BY <2>1, <1>1, <1>2, <1>4 DEF MachineParts, VectorInv
<1>7. MachineParts'
  BY <1>1, <1>2, <1>4, <1>5, <1>6 DEF MachineParts
<1> QED
  BY <1>3, <1>7 DEF Inv

\* A read or a seek moves the position of a descriptor, if it moves one.
LEMMA PositionInv ==
  ASSUME HostFilesAssumption, Inv, NEW m \in Machines, NEW v \in 1..Len(files[m]),
         \/ UNCHANGED table
         \/ /\ table[files[m][v].fd] # Closed
            /\ \E pos \in 0..MaxPos :
                 table' = [table EXCEPT ![files[m][v].fd].pos = pos],
         Stray(m, v), UNCHANGED <<files, capacity, freeVFDs, phase, at>>,
         ended' \in {ended, "read"}
  PROVE  Inv'
<1>1. TableParts /\ MachineParts /\ EndParts
  BY DEF Inv
<1>2. files[m][v] \in Slots /\ files[m][v].fd \in Fds
  BY <1>1, SlotTypes DEF Slots
<1>3. damaged' \in BOOLEAN /\ (damaged => damaged')
  BY <1>1, <1>2 DEF Stray, EndParts, Slots
<1>4. TableParts'
  <2>1. CASE UNCHANGED table
    BY <2>1, <1>1, <1>3 DEF TableParts, TableInv, DescriptorsOwned,
                            ReadsOwnFile, Open
  <2>2. ASSUME table[files[m][v].fd] # Closed, NEW pos \in 0..MaxPos,
               table' = [table EXCEPT ![files[m][v].fd].pos = pos]
        PROVE  TableParts'
    BY <2>2, <1>1, <1>2, <1>3, Move
  <2> QED
    BY <2>1, <2>2
<1>5. MachineParts'
  BY <1>1, KeepMachines
<1>6. EndParts'
  BY <1>1, <1>3 DEF EndParts, CloseFailsOnlyDamaged
<1> QED
  BY <1>4, <1>5, <1>6 DEF Inv

LEMMA ReadFailsInv ==
  ASSUME HostFilesAssumption, Inv,
         NEW m \in Machines, NEW v \in VFDs, ReadFails(m, v)
  PROVE  Inv'
  BY PositionInv DEF ReadFails

\* A read does not get past the end of the file or MaxPos.
LEMMA ReadTo ==
  ASSUME HostFilesAssumption, NEW pos \in 0..MaxPos, NEW count \in 1..Size
  PROVE  /\ Smaller(count, Left(pos)) \in 0..Size
         /\ pos + Smaller(count, Left(pos)) \in 0..MaxPos
         /\ Smaller(count, Left(pos)) > 0 => pos + Smaller(count, Left(pos)) <= Size
  BY DEF HostFilesAssumption, Smaller, Left

LEMMA ReadInv ==
  ASSUME HostFilesAssumption, Inv,
         NEW m \in Machines, NEW v \in VFDs, NEW count \in 1..Size,
         Read(m, v, count)
  PROVE  Inv'
<1> DEFINE fd == files[m][v].fd
<1>1. v \in 1..Len(files[m]) /\ table[fd] # Closed
  BY DEF Read, Readable
<1>2. fd \in Fds
  BY <1>1, SlotTypes DEF Inv, Slots
<1>3. table[fd].pos \in 0..MaxPos
  BY <1>2 DEF Inv, TableParts, Entries
<1> HIDE DEF fd
<1>4. table' = [table EXCEPT ![fd].pos
                  = table[fd].pos + Smaller(count, Left(table[fd].pos))]
  BY <1>2 DEF Read, fd
<1>5. \E pos \in 0..MaxPos : table' = [table EXCEPT ![fd].pos = pos]
  BY <1>3, <1>4, ReadTo
<1> QED
  BY <1>1, <1>5, PositionInv DEF Read, fd

LEMMA SeekInv ==
  ASSUME HostFilesAssumption, Inv, NEW m \in Machines, NEW v \in VFDs,
         NEW offset \in 0..MaxPos, NEW whence \in {"SET", "CUR", "END"},
         Seek(m, v, offset, whence)
  PROVE  Inv'
<1> DEFINE fd == files[m][v].fd
<1>1. v \in 1..Len(files[m])
  BY DEF Seek
<1>2. fd \in Fds
  BY <1>1, SlotTypes DEF Inv, Slots
<1>3. table[fd].pos \in 0..MaxPos
  BY <1>2 DEF Inv, TableParts, Entries
<1>4. Base(fd, whence) \in Nat
  BY <1>3 DEF Base, HostFilesAssumption
<1> HIDE DEF fd
<1>5. \/ UNCHANGED table
      \/ /\ table[fd] # Closed
         /\ \E pos \in 0..MaxPos : table' = [table EXCEPT ![fd].pos = pos]
  <2>1. CASE table[fd] = Closed
    BY <2>1 DEF Seek, fd
  <2>2. CASE table[fd] # Closed
    <3>1. /\ Base(fd, whence) + offset <= MaxPos
          /\ table' = [table EXCEPT ![fd].pos = Base(fd, whence) + offset]
      BY <2>2 DEF Seek, fd
    <3>2. Base(fd, whence) + offset \in 0..MaxPos
      BY <3>1, <1>4 DEF HostFilesAssumption
    <3> QED
      BY <2>2, <3>1, <3>2
  <2> QED
    BY <2>1, <2>2
<1> QED
  BY <1>1, <1>5, PositionInv DEF Seek, fd

LEMMA DestroyInv ==
  ASSUME Inv, NEW m \in Machines, Destroy(m)
  PROVE  Inv'
<1>1. TableParts /\ MachineParts /\ EndParts
  BY DEF Inv
<1>2. /\ phase' = [phase EXCEPT ![m] = "destroy"]
      /\ phase[m] = "run"
      /\ UNCHANGED <<table, files, capacity, freeVFDs, at, ended, damaged>>
  BY DEF Destroy, Running
<1>3. TableParts' /\ EndParts'
  BY <1>1, <1>2 DEF TableParts, TableInv, DescriptorsOwned, ReadsOwnFile, Open,
                    EndParts, CloseFailsOnlyDamaged
<1>4. /\ phase' \in [Machines -> {"run", "grow", "destroy"}]
      /\ phase'[m] = "destroy"
      /\ \A n \in Machines : n # m => phase'[n] = phase[n]
  BY <1>1, <1>2 DEF MachineParts
<1>5. FreeVFDsAreClosed'
  BY <1>1, <1>2, <1>4 DEF MachineParts, FreeVFDsAreClosed, Open
<1>6. VectorInv'
  <2>1. at[m] = 0
    BY <1>1, <1>2 DEF MachineParts, VectorInv
  <2> QED
    BY <2>1, <1>1, <1>2, <1>4 DEF MachineParts, VectorInv
<1>7. MachineParts'
  BY <1>1, <1>2, <1>4, <1>5, <1>6 DEF MachineParts
<1> QED
  BY <1>3, <1>7 DEF Inv

LEMMA DestroyNextInv ==
  ASSUME HostFilesAssumption, Inv, NEW m \in Machines, DestroyNext(m)
  PROVE  Inv'
<1> DEFINE v == at[m] + 1
<1>1. TableParts /\ MachineParts /\ EndParts
  BY DEF Inv
<1>2. /\ phase[m] = "destroy" /\ at[m] < Len(files[m])
      /\ at[m] \in Nat /\ v \in 1..Len(files[m]) /\ v \in Nat
      /\ Next1(m) = files[m][v]
      /\ Next1(m) \in Slots /\ (Next1(m).open <=> v \in Open(m))
  BY <1>1, NextElement DEF DestroyNext
<1>3. CASE Next1(m).open /\ CloseFails(Next1(m).fd)
  <2>1. damaged
    BY <1>1, <1>2, <1>3, CloseSucceeds
  <2>2. End("close")
    BY <1>3 DEF DestroyNext
  <2> QED
    BY <2>1, <2>2, EndInv
<1>4. CASE ~(Next1(m).open /\ CloseFails(Next1(m).fd))
  <2>1. /\ IF Next1(m).open THEN Close(Next1(m).fd) ELSE UNCHANGED table
        /\ files' = [files EXCEPT ![m][v].open = FALSE]
        /\ at' = [at EXCEPT ![m] = @ + 1]
        /\ UNCHANGED <<capacity, freeVFDs, phase, ended, damaged>>
    BY <1>4 DEF DestroyNext
  <2> HIDE DEF v
  <2>2. /\ ResetSlot(m, v) \in Slots /\ ~ResetSlot(m, v).open
        /\ Becomes(m, v, ResetSlot(m, v))
        /\ \A n \in Machines : Len(files'[n]) = Len(files[n])
    BY <1>1, <1>2, <2>1, Reset
  <2>3. /\ \A n \in Machines : n # m => Open(n)' = Open(n)
        /\ Open(m)' = Open(m) \ {v}
    BY <1>1, <1>2, <2>2, OpenAfter
  <2>4. TableParts'
    <3>1. CASE Next1(m).open
      BY <3>1, <1>1, <1>2, <2>1, <2>2, Shut
    <3>2. CASE ~Next1(m).open
      <4>1. \A n \in Machines :
              /\ Open(n)' = Open(n)
              /\ \A w \in Open(n) : files'[n][w] = files[n][w]
        <5>1. v \notin Open(m)
          BY <3>2, <1>2
        <5> QED
          BY <5>1, <2>2, <2>3 DEF Becomes, Open
      <4> QED
        BY <4>1, <3>2, <1>1, <2>1, Keep DEF EndParts
    <3> QED
      BY <3>1, <3>2
  <2>5. /\ at' \in [Machines -> Nat]
        /\ at'[m] = at[m] + 1
        /\ \A n \in Machines : n # m => at'[n] = at[n]
    BY <1>1, <1>2, <2>1 DEF MachineParts
  <2>6. FreeVFDsAreClosed'
    BY <1>1, <1>2, <2>1, <2>2, <2>3 DEF MachineParts, FreeVFDsAreClosed
  <2>7. \A n \in Machines : phase[n] = "destroy" =>
          \A w \in 1..at'[n] : ~files'[n][w].open
    <3> SUFFICES ASSUME NEW n \in Machines, phase[n] = "destroy",
                        NEW w \in 1..at'[n]
                 PROVE  ~files'[n][w].open
      OBVIOUS
    <3>1. at[n] \in Nat /\ at[n] <= Len(files[n]) /\ Len(files[n]) \in Nat
      BY <1>1, SlotTypes DEF MachineParts, VectorInv
    <3>2. CASE n = m /\ w = v
      BY <3>2, <2>2 DEF Becomes
    <3>3. CASE ~(n = m /\ w = v)
      <4>1. w \in 1..at[n]
        BY <3>1, <3>3, <2>5 DEF v
      <4>2. w \in 1..Len(files[n])
        BY <4>1, <3>1
      <4>3. files'[n][w] = files[n][w]
        BY <3>3, <4>2, <2>2 DEF Becomes
      <4> QED
        BY <4>1, <4>3, <1>1 DEF MachineParts, VectorInv
    <3> QED
      BY <3>2, <3>3
  <2>8. VectorInv'
    <3>1. at'[m] <= Len(files'[m]) /\ phase[m] = "destroy"
      BY <1>1, <1>2, <2>2, <2>5, SlotTypes
    <3> QED
      BY <3>1, <2>7, <1>1, <2>1, <2>2, <2>5 DEF MachineParts, VectorInv
  <2>9. MachineParts'
    BY <1>1, <2>1, <2>2, <2>5, <2>6, <2>8 DEF MachineParts, Becomes
  <2>10. EndParts'
    BY <1>1, <2>1 DEF EndParts, CloseFailsOnlyDamaged
  <2> QED
    BY <2>4, <2>9, <2>10 DEF Inv
<1> QED
  BY <1>3, <1>4

\* All elements are closed when a vector goes, so no descriptor is left behind.
LEMMA DestroyedInv ==
  ASSUME HostFilesAssumption, Inv, NEW m \in Machines, Destroyed(m)
  PROVE  Inv'
<1>1. TableParts /\ MachineParts /\ EndParts
  BY DEF Inv
<1>2. /\ phase[m] = "destroy" /\ at[m] = Len(files[m])
      /\ files' = [files EXCEPT ![m] = <<>>]
      /\ capacity' = [capacity EXCEPT ![m] = 0]
      /\ freeVFDs' = [freeVFDs EXCEPT ![m] = <<>>]
      /\ phase' = [phase EXCEPT ![m] = "run"]
      /\ at' = [at EXCEPT ![m] = 0]
      /\ UNCHANGED <<table, ended, damaged>>
  BY DEF Destroyed
<1>3. /\ files' \in [Machines -> Seq(Slots)]
      /\ capacity' \in [Machines -> Nat]
      /\ freeVFDs' \in [Machines -> Seq(Nat)]
      /\ phase' \in [Machines -> {"run", "grow", "destroy"}]
      /\ at' \in [Machines -> Nat]
  <2>1. <<>> \in Seq(Slots) /\ <<>> \in Seq(Nat)
    BY EmptySeq
  <2> QED
    BY <2>1, <1>1, <1>2 DEF MachineParts
<1>4. /\ files'[m] = <<>> /\ capacity'[m] = 0 /\ freeVFDs'[m] = <<>>
      /\ phase'[m] = "run" /\ at'[m] = 0
      /\ \A n \in Machines : n # m =>
           /\ files'[n] = files[n] /\ capacity'[n] = capacity[n]
           /\ freeVFDs'[n] = freeVFDs[n] /\ phase'[n] = phase[n]
           /\ at'[n] = at[n]
  BY <1>1, <1>2 DEF MachineParts
<1>5. Open(m) = {} /\ Open(m)' = {}
  <2>1. Open(m) = {}
    BY <1>1, <1>2 DEF MachineParts, VectorInv, Open
  <2>2. Open(m)' = {}
    BY <1>4, EmptySeq DEF Open
  <2> QED
    BY <2>1, <2>2
<1>6. \A n \in Machines :
        /\ Open(n)' = Open(n)
        /\ \A w \in Open(n) : files'[n][w] = files[n][w]
  BY <1>4, <1>5 DEF Open
<1>7. TableParts'
  BY <1>1, <1>2, <1>6, Keep DEF EndParts
<1>8. FreeVFDsAreClosed'
  <2>1. IsInjective(<<>>) /\ Range(<<>>) = {} /\ 1..Len(<<>>) = {}
    BY DEF IsInjective, Range
  <2> SUFFICES ASSUME NEW n \in Machines, phase'[n] # "destroy"
               PROVE  /\ IsInjective(freeVFDs'[n])
                      /\ Range(freeVFDs'[n]) = (1..Len(files'[n])) \ Open(n)'
    BY DEF FreeVFDsAreClosed
  <2>2. CASE n = m
    BY <2>1, <2>2, <1>4, <1>5
  <2>3. CASE n # m
    BY <2>3, <1>1, <1>4, <1>6 DEF MachineParts, FreeVFDsAreClosed
  <2> QED
    BY <2>2, <2>3
<1>9. VectorInv'
  <2> SUFFICES ASSUME NEW n \in Machines
               PROVE  /\ Len(files'[n]) <= capacity'[n]
                      /\ Len(files'[n]) <= MaxFiles
                      /\ \A i \in 1..Len(freeVFDs'[n]) :
                           freeVFDs'[n][i] \in 1..Len(files'[n])
                      /\ phase'[n] = "run" => at'[n] = 0
                      /\ phase'[n] = "grow" => at'[n] < Len(files'[n])
                      /\ at'[n] <= Len(files'[n])
                      /\ phase'[n] = "destroy" =>
                           \A w \in 1..at'[n] : ~files'[n][w].open
    BY DEF VectorInv
  <2>1. CASE n = m
    <3>1. Len(<<>>) = 0 /\ \A i \in 1..0 : FALSE
      BY EmptySeq
    <3> QED
      BY <3>1, <2>1, <1>4 DEF HostFilesAssumption
  <2>2. CASE n # m
    <3>1. /\ files'[n] = files[n] /\ capacity'[n] = capacity[n]
          /\ freeVFDs'[n] = freeVFDs[n] /\ phase'[n] = phase[n]
          /\ at'[n] = at[n]
      BY <2>2, <1>4
    <3> QED
      BY <3>1, <1>1 DEF MachineParts, VectorInv
  <2> QED
    BY <2>1, <2>2
<1>10. MachineParts'
  BY <1>3, <1>8, <1>9 DEF MachineParts
<1>11. EndParts'
  BY <1>1, <1>2 DEF EndParts, CloseFailsOnlyDamaged
<1> QED
  BY <1>7, <1>10, <1>11 DEF Inv

-----------------------------------------------------------------------------
(* FilesInvariant *)

LEMMA InitInv ==
  ASSUME HostFilesAssumption, Init
  PROVE  Inv
<1>1. <<>> \in Seq(Slots) /\ <<>> \in Seq(Nat) /\ Len(<<>>) = 0
  BY EmptySeq
<1>2. \A m \in Machines : /\ files[m] = <<>> /\ freeVFDs[m] = <<>>
                          /\ capacity[m] = 0 /\ phase[m] = "run" /\ at[m] = 0
                          /\ Open(m) = {}
  BY <1>1 DEF Init, Open
<1>3. TableParts
  BY <1>2 DEF Init, TableParts, TableInv, Entries, Closed, DescriptorsOwned,
              ReadsOwnFile, HostFilesAssumption
<1>4. FreeVFDsAreClosed
  <2>1. IsInjective(<<>>) /\ Range(<<>>) = {} /\ 1..0 = {}
    BY DEF IsInjective, Range
  <2> QED
    BY <2>1, <1>1, <1>2 DEF FreeVFDsAreClosed
<1>5. VectorInv
  <2>1. \A i \in 1..0 : FALSE
    OBVIOUS
  <2> QED
    BY <2>1, <1>1, <1>2 DEF VectorInv, HostFilesAssumption
<1>6. MachineParts
  BY <1>1, <1>4, <1>5 DEF Init, MachineParts
<1>7. EndParts
  BY DEF Init, EndParts, CloseFailsOnlyDamaged
<1> QED
  BY <1>3, <1>6, <1>7 DEF Inv

LEMMA NextInv ==
  ASSUME HostFilesAssumption, Inv, [Next]_vars
  PROVE  Inv'
<1>1. CASE UNCHANGED vars
  <2>1. TableParts' /\ EndParts'
    BY <1>1 DEF vars, Inv, TableParts, TableInv, DescriptorsOwned,
                ReadsOwnFile, Open, EndParts, CloseFailsOnlyDamaged
  <2>2. MachineParts'
    BY <1>1, KeepMachines DEF vars, Inv
  <2> QED
    BY <2>1, <2>2 DEF Inv
<1>2. ASSUME NEW m \in Machines, NEW f \in Files \cup {Missing},
             OpenFails(m, f) \/ OpenReuse(m, f) \/ OpenNew(m, f)
      PROVE  Inv'
  BY <1>2, EndInv, OpenReuseInv, OpenNewInv DEF OpenFails
<1>3. ASSUME NEW m \in Machines, Relocate(m) \/ Grown(m)
      PROVE  Inv'
  BY <1>3, RelocateInv, GrownInv
<1>4. ASSUME NEW m \in Machines, NEW v \in VFDs,
             OutOfRange(m, v) \/ ReadFails(m, v) \/ CloseVFD(m, v)
      PROVE  Inv'
  BY <1>4, EndInv, ReadFailsInv, CloseVFDInv DEF OutOfRange
<1>5. ASSUME NEW m \in Machines, NEW v \in VFDs, NEW count \in 1..Size,
             Read(m, v, count)
      PROVE  Inv'
  BY <1>5, ReadInv
<1>6. ASSUME NEW m \in Machines, NEW v \in VFDs, NEW offset \in 0..MaxPos,
             NEW whence \in {"SET", "CUR", "END"}, Seek(m, v, offset, whence)
      PROVE  Inv'
  BY <1>6, SeekInv
<1>7. ASSUME NEW m \in Machines, Destroy(m) \/ DestroyNext(m) \/ Destroyed(m)
      PROVE  Inv'
  BY <1>7, DestroyInv, DestroyNextInv, DestroyedInv
<1> QED
  BY <1>1, <1>2, <1>3, <1>4, <1>5, <1>6, <1>7 DEF Next

\* Descriptors, vectors and free VFDs agree in every state.
THEOREM FilesInvariant == HostFilesAssumption => (Spec => []Inv)
<1> SUFFICES ASSUME HostFilesAssumption PROVE Spec => []Inv
  OBVIOUS
<1>1. Init => Inv
  BY InitInv
<1>2. Inv /\ [Next]_vars => Inv'
  BY NextInv
<1> QED
  BY <1>1, <1>2, PTL DEF Spec

LEMMA InvTypes == Inv => TypeOK
<1> SUFFICES ASSUME Inv PROVE TypeOK
  OBVIOUS
<1>1. TableParts /\ MachineParts /\ EndParts
  BY DEF Inv
<1>2. \A m \in Machines : \A v \in 1..Len(files[m]) : IsSlot(files[m][v])
  BY <1>1, SlotTypes DEF IsSlot, Slots
<1>3. \A m \in Machines : at[m] \in 0..Len(files[m])
  BY <1>1, SlotTypes DEF MachineParts, VectorInv
<1> QED
  BY <1>1, <1>2, <1>3
     DEF TypeOK, TableParts, Entries, MachineParts, VectorInv, EndParts

-----------------------------------------------------------------------------
(* The refinement of OpenFiles *)

\* What VFD w of machine n leads to.
Cell(n, w) == IF w \in Open(n) THEN table[files[n][w].fd] ELSE Closed

Lost == damaged \/ ended # "no"

LEMMA ViewCells ==
  View = [n \in Machines |-> [w \in VFDs |-> Cell(n, w)]]
  BY DEF View, Cell

LEMMA ViewKept ==
  ASSUME \A n \in Machines : \A w \in VFDs : Cell(n, w)' = Cell(n, w)
  PROVE  View' = View
  BY DEF View, Cell

LEMMA ViewChanged ==
  ASSUME NEW m \in Machines, NEW v \in VFDs, NEW e, Cell(m, v)' = e,
         \A n \in Machines : \A w \in VFDs :
           (n = m /\ w = v) \/ Cell(n, w)' = Cell(n, w)
  PROVE  View' = [View EXCEPT ![m][v] = e]
<1>1. View' = [n \in Machines |-> [w \in VFDs |-> Cell(n, w)']]
  BY DEF View, Cell
<1>2. [View EXCEPT ![m][v] = e]
        = [n \in Machines |-> [w \in VFDs |->
             IF n = m /\ w = v THEN e ELSE Cell(n, w)]]
  BY ViewCells
<1> QED
  BY <1>1, <1>2

\* Undamaged, the descriptor of an open slot is that of no other one.
LEMMA OwnDescriptor ==
  ASSUME HostFilesAssumption, MachineParts, TableParts, ~damaged,
         NEW m \in Machines, NEW v \in Open(m)
  PROVE  /\ files[m][v].fd \in Fds
         /\ table[files[m][v].fd].file \in Files
         /\ table[files[m][v].fd].file # Missing
         /\ table[files[m][v].fd].pos \in 0..MaxPos
         /\ table[files[m][v].fd] # Closed
         /\ \A n \in Machines : \A w \in Open(n) :
              (n = m /\ w = v) \/ /\ files[n][w].fd \in Fds
                                  /\ files[n][w].fd # files[m][v].fd
<1>1. files[m][v].fd \in Fds /\ files[m][v].file \in Files
  BY SlotTypes
<1>2. table[files[m][v].fd].file = files[m][v].file
  BY DEF TableParts, ReadsOwnFile
<1>3. table[files[m][v].fd].pos \in 0..MaxPos
  BY <1>1 DEF TableParts, Entries
<1>4. \A n \in Machines : \A w \in Open(n) :
        (n = m /\ w = v) \/ /\ files[n][w].fd \in Fds
                            /\ files[n][w].fd # files[m][v].fd
  BY SlotTypes DEF TableParts, ReadsOwnFile
<1> QED
  BY <1>1, <1>2, <1>3, <1>4 DEF Closed, HostFilesAssumption

Fills(fd, f) == table' = [table EXCEPT ![fd] = [file |-> f, pos |-> 0]]

LEMMA FillView ==
  ASSUME HostFilesAssumption, MachineParts, TableParts, ~damaged,
         NEW m \in Machines, NEW v \in VFDs, NEW fd \in Fds, NEW f \in Files,
         table[fd] = Closed, Becomes(m, v, Slot(fd, f)), v \notin Open(m),
         Fills(fd, f)
  PROVE  /\ View[m][v] = Closed
         /\ View' = [View EXCEPT ![m][v] = [file |-> f, pos |-> 0]]
<1>1. v \in Nat
  BY DEF VFDs, HostFilesAssumption
<1>2. /\ \A n \in Machines : n # m => Open(n)' = Open(n)
      /\ Open(m)' = Open(m) \cup {v}
  BY <1>1, SlotIn, OpenAfter
<1>3. \A n \in Machines : \A w \in Open(n) :
        /\ ~(n = m /\ w = v) /\ files'[n][w] = files[n][w]
        /\ files[n][w].fd \in Fds /\ files[n][w].fd # fd
  <2> SUFFICES ASSUME NEW n \in Machines, NEW w \in Open(n)
               PROVE  /\ ~(n = m /\ w = v) /\ files'[n][w] = files[n][w]
                      /\ files[n][w].fd \in Fds /\ files[n][w].fd # fd
    OBVIOUS
  <2>1. ~(n = m /\ w = v) /\ w \in 1..Len(files[n])
    BY DEF Open
  <2>2. files'[n][w] = files[n][w]
    BY <2>1 DEF Becomes
  <2>3. files[n][w].fd \in Fds /\ table[files[n][w].fd] # Closed
    BY OwnDescriptor
  <2> QED
    BY <2>1, <2>2, <2>3
<1>4. /\ table'[fd] = [file |-> f, pos |-> 0]
      /\ \A o \in Fds : o # fd => table'[o] = table[o]
  BY DEF TableParts, Fills
<1>5. Cell(m, v)' = [file |-> f, pos |-> 0]
  BY <1>2, <1>4 DEF Cell, Becomes, Slot
<1>6. \A n \in Machines : \A w \in VFDs :
        (n = m /\ w = v) \/ Cell(n, w)' = Cell(n, w)
  BY <1>2, <1>3, <1>4 DEF Cell
<1>7. View[m][v] = Closed
  BY ViewCells DEF Cell
<1> QED
  BY <1>5, <1>6, <1>7, ViewChanged

LEMMA ShutView ==
  ASSUME HostFilesAssumption, MachineParts, TableParts, ~damaged,
         NEW m \in Machines, NEW v \in VFDs, v \in Open(m), NEW s \in Slots,
         Becomes(m, v, s), ~s.open, Close(files[m][v].fd)
  PROVE  View[m][v] # Closed /\ View' = [View EXCEPT ![m][v] = Closed]
<1> DEFINE fd == files[m][v].fd
<1>1. v \in Nat
  BY DEF VFDs, HostFilesAssumption
<1>2. /\ \A n \in Machines : n # m => Open(n)' = Open(n)
      /\ Open(m)' = Open(m) \ {v}
  BY <1>1, OpenAfter
<1>3. /\ fd \in Fds /\ table[fd] # Closed
      /\ \A n \in Machines : \A w \in Open(n) :
           (n = m /\ w = v) \/ (files[n][w].fd \in Fds /\ files[n][w].fd # fd)
  BY OwnDescriptor
<1> HIDE DEF fd
<1>4. \A o \in Fds : o # fd => table'[o] = table[o]
  BY DEF TableParts, Close, fd
<1>5. \A n \in Machines : \A w \in Open(n) :
        (n = m /\ w = v) \/ files'[n][w] = files[n][w]
  BY DEF Becomes, Open
<1>6. Cell(m, v)' = Closed
  BY <1>2 DEF Cell, Closed
<1>7. \A n \in Machines : \A w \in VFDs :
        (n = m /\ w = v) \/ Cell(n, w)' = Cell(n, w)
  BY <1>2, <1>3, <1>4, <1>5 DEF Cell, Closed
<1>8. View[m][v] # Closed
  BY <1>3, ViewCells DEF Cell, fd
<1> QED
  BY <1>6, <1>7, <1>8, ViewChanged

Reaches(m, v, pos) == table' = [table EXCEPT ![files[m][v].fd].pos = pos]

LEMMA MoveView ==
  ASSUME HostFilesAssumption, MachineParts, TableParts, ~damaged,
         NEW m \in Machines, NEW v \in VFDs, v \in Open(m), NEW pos,
         Reaches(m, v, pos), UNCHANGED files
  PROVE  View' = [View EXCEPT ![m][v].pos = pos]
<1> DEFINE fd == files[m][v].fd
<1>1. /\ fd \in Fds
      /\ \A n \in Machines : \A w \in Open(n) :
           (n = m /\ w = v) \/ (files[n][w].fd \in Fds /\ files[n][w].fd # fd)
  BY OwnDescriptor
<1> HIDE DEF fd
<1>2. /\ table'[fd] = [table[fd] EXCEPT !.pos = pos]
      /\ \A o \in Fds : o # fd => table'[o] = table[o]
  BY <1>1 DEF TableParts, Reaches, fd
<1>3. \A n \in Machines : Open(n)' = Open(n)
  BY DEF Open
<1>4. Cell(m, v)' = [Cell(m, v) EXCEPT !.pos = pos]
  BY <1>2, <1>3 DEF Cell, fd
<1>5. \A n \in Machines : \A w \in VFDs :
        (n = m /\ w = v) \/ Cell(n, w)' = Cell(n, w)
  BY <1>1, <1>2, <1>3 DEF Cell, Closed
<1>6. View[m][v] = Cell(m, v)
  BY ViewCells
<1>7. View' = [View EXCEPT ![m][v] = [View[m][v] EXCEPT !.pos = pos]]
  BY <1>4, <1>5, <1>6, ViewChanged
<1> QED
  BY <1>7

\* What OpenFiles may do with a VFD.
Moves(m, v) ==
  \/ \E f \in Files : OpenFilesOf!Open(m, v, f)
  \/ \E n \in 1..Size : OpenFilesOf!Read(m, v, n)
  \/ \E pos \in 0..MaxPos : OpenFilesOf!Seek(m, v, pos)
  \/ OpenFilesOf!Close(m, v)

LEMMA OpenReuseMoves ==
  ASSUME HostFilesAssumption, Inv, ~Lost',
         NEW m \in Machines, NEW f \in Files \cup {Missing}, OpenReuse(m, f)
  PROVE  \E v \in VFDs : Moves(m, v)
<1> DEFINE v == Last(freeVFDs[m])
           fd == Lowest
<1>1. TableParts /\ MachineParts /\ EndParts
  BY DEF Inv
<1>2. /\ f \in Files /\ fd \in Fds /\ table[fd] = Closed
      /\ phase[m] = "run" /\ freeVFDs[m] # <<>>
      /\ Fills(fd, f)
      /\ files' = [files EXCEPT ![m][v] = Slot(fd, f)]
      /\ ~damaged
  BY LowestFree DEF OpenReuse, Running, CanOpen, Opened, Fills, Lost
<1>3. v \in 1..Len(files[m]) /\ v \notin Open(m)
  BY <1>1, <1>2, LastFree
<1>4. v \in VFDs
  BY <1>1, <1>3, SlotTypes DEF VFDs, MachineParts, VectorInv, HostFilesAssumption
<1>5. Slot(fd, f) \in Slots
  BY <1>2, SlotIn
<1> HIDE DEF v, fd
<1>6. Becomes(m, v, Slot(fd, f))
  BY <1>1, <1>2, <1>3, <1>5, Put
<1>7. /\ View[m][v] = Closed
      /\ View' = [View EXCEPT ![m][v] = [file |-> f, pos |-> 0]]
  BY <1>1, <1>2, <1>3, <1>4, <1>6, FillView
<1>8. OpenFilesOf!Open(m, v, f)
  BY <1>7 DEF OpenFilesOf!Open, OpenFilesOf!Closed, Closed
<1> QED
  BY <1>2, <1>4, <1>8 DEF Moves

LEMMA OpenNewMoves ==
  ASSUME HostFilesAssumption, Inv, ~Lost',
         NEW m \in Machines, NEW f \in Files \cup {Missing}, OpenNew(m, f)
  PROVE  \E v \in VFDs : Moves(m, v)
<1> DEFINE v == Len(files[m]) + 1
           fd == Lowest
<1>1. TableParts /\ MachineParts /\ EndParts
  BY DEF Inv
<1>2. /\ f \in Files /\ fd \in Fds /\ table[fd] = Closed
      /\ Len(files[m]) < MaxFiles
      /\ Fills(fd, f)
      /\ files' = [files EXCEPT ![m] = Append(@, Slot(fd, f))]
      /\ ~damaged
  BY LowestFree DEF OpenNew, Running, CanOpen, Opened, Fills, Lost
<1>3. Slot(fd, f) \in Slots
  BY <1>2, SlotIn
<1> HIDE DEF fd
<1>4. Len(files[m]) \in Nat /\ Becomes(m, v, Slot(fd, f))
  BY <1>1, <1>2, <1>3, Appended
<1>5. v \in VFDs /\ v \notin Open(m)
  BY <1>2, <1>4 DEF Open, VFDs, HostFilesAssumption
<1> HIDE DEF v
<1>6. /\ View[m][v] = Closed
      /\ View' = [View EXCEPT ![m][v] = [file |-> f, pos |-> 0]]
  BY <1>1, <1>2, <1>4, <1>5, FillView
<1>7. OpenFilesOf!Open(m, v, f)
  BY <1>6 DEF OpenFilesOf!Open, OpenFilesOf!Closed, Closed
<1> QED
  BY <1>2, <1>5, <1>7 DEF Moves

LEMMA CloseVFDMoves ==
  ASSUME HostFilesAssumption, Inv, ~Lost',
         NEW m \in Machines, NEW v \in VFDs, CloseVFD(m, v)
  PROVE  Moves(m, v)
<1>1. TableParts /\ MachineParts /\ EndParts
  BY DEF Inv
<1>2. /\ v \in Open(m) /\ v \in 1..Len(files[m])
      /\ Close(files[m][v].fd)
      /\ files' = [files EXCEPT ![m][v].open = FALSE]
      /\ UNCHANGED damaged
  BY DEF CloseVFD, Open, End, Lost
<1>3. /\ ResetSlot(m, v) \in Slots /\ ~ResetSlot(m, v).open
      /\ Becomes(m, v, ResetSlot(m, v))
  BY <1>1, <1>2, Reset
<1>4. View[m][v] # Closed /\ View' = [View EXCEPT ![m][v] = Closed]
  BY <1>1, <1>2, <1>3, ShutView DEF Lost
<1> QED
  BY <1>4 DEF Moves, OpenFilesOf!Close, OpenFilesOf!Closed, Closed

LEMMA DestroyNextMoves ==
  ASSUME HostFilesAssumption, Inv, ~Lost', NEW m \in Machines, DestroyNext(m)
  PROVE  (\E v \in VFDs : Moves(m, v)) \/ UNCHANGED View
<1> DEFINE v == at[m] + 1
<1>1. TableParts /\ MachineParts /\ EndParts
  BY DEF Inv
<1>2. /\ at[m] < Len(files[m]) /\ v \in 1..Len(files[m]) /\ v \in Nat
      /\ Next1(m) = files[m][v]
      /\ Next1(m) \in Slots /\ (Next1(m).open <=> v \in Open(m))
  BY <1>1, NextElement DEF DestroyNext
<1>3. /\ IF Next1(m).open THEN Close(Next1(m).fd) ELSE UNCHANGED table
      /\ files' = [files EXCEPT ![m][v].open = FALSE]
      /\ UNCHANGED damaged
  BY DEF DestroyNext, End, Lost
<1>4. v \in VFDs
  BY <1>1, <1>2, SlotTypes DEF VFDs, MachineParts, VectorInv, HostFilesAssumption
<1> HIDE DEF v
<1>5. /\ ResetSlot(m, v) \in Slots /\ ~ResetSlot(m, v).open
      /\ Becomes(m, v, ResetSlot(m, v))
  BY <1>1, <1>2, <1>3, Reset
<1>6. CASE Next1(m).open
  <2>1. View[m][v] # Closed /\ View' = [View EXCEPT ![m][v] = Closed]
    BY <1>1, <1>2, <1>3, <1>4, <1>5, <1>6, ShutView DEF Lost
  <2>2. OpenFilesOf!Close(m, v)
    BY <2>1 DEF OpenFilesOf!Close, OpenFilesOf!Closed, Closed
  <2> QED
    BY <1>4, <2>2 DEF Moves
<1>7. CASE ~Next1(m).open
  <2>1. /\ \A n \in Machines : n # m => Open(n)' = Open(n)
        /\ Open(m)' = Open(m) \ {v} /\ v \notin Open(m)
    BY <1>1, <1>2, <1>5, <1>7, OpenAfter
  <2>2. \A n \in Machines : \A w \in Open(n) : files'[n][w] = files[n][w]
    BY <2>1, <1>5 DEF Becomes, Open
  <2>3. UNCHANGED table
    BY <1>3, <1>7
  <2>4. \A n \in Machines : \A w \in VFDs : Cell(n, w)' = Cell(n, w)
    BY <2>1, <2>2, <2>3 DEF Cell, Closed
  <2> QED
    BY <2>4, ViewKept
<1> QED
  BY <1>6, <1>7

\* A step that changes neither the table nor what is open.
LEMMA Stutters ==
  ASSUME UNCHANGED <<table, files>>
  PROVE  UNCHANGED View
  BY DEF View, Open

LEMMA DestroyedMoves ==
  ASSUME HostFilesAssumption, Inv, NEW m \in Machines, Destroyed(m)
  PROVE  UNCHANGED View
<1>1. /\ MachineParts /\ phase[m] = "destroy" /\ at[m] = Len(files[m])
      /\ files' = [files EXCEPT ![m] = <<>>] /\ UNCHANGED table
  BY DEF Inv, Destroyed
<1>2. files'[m] = <<>> /\ \A n \in Machines : n # m => files'[n] = files[n]
  BY <1>1 DEF MachineParts
<1>3. Open(m) = {} /\ Open(m)' = {}
  <2>1. Open(m) = {}
    BY <1>1 DEF MachineParts, VectorInv, Open
  <2>2. Open(m)' = {}
    BY <1>2, EmptySeq DEF Open
  <2> QED
    BY <2>1, <2>2
<1>4. \A n \in Machines : /\ Open(n)' = Open(n)
                          /\ \A w \in Open(n) : files'[n][w] = files[n][w]
  BY <1>2, <1>3 DEF Open
<1>5. \A n \in Machines : \A w \in VFDs : Cell(n, w)' = Cell(n, w)
  BY <1>1, <1>4 DEF Cell, Closed
<1> QED
  BY <1>5, ViewKept

LEMMA RelocateMoves ==
  ASSUME Inv, ~Lost', NEW m \in Machines, Relocate(m)
  PROVE  UNCHANGED View
<1>1. UNCHANGED <<table, files>>
  BY DEF Relocate, End, Lost
<1> QED
  BY <1>1, Stutters

LEMMA ReadMoves ==
  ASSUME HostFilesAssumption, Inv, ~Lost',
         NEW m \in Machines, NEW v \in VFDs, NEW count \in 1..Size,
         Read(m, v, count)
  PROVE  Moves(m, v) \/ UNCHANGED View
<1> DEFINE fd == files[m][v].fd
           n == Smaller(count, Left(table[fd].pos))
<1>1. TableParts /\ MachineParts /\ EndParts
  BY DEF Inv
<1>2. /\ v \in 1..Len(files[m]) /\ Readable(fd) /\ UNCHANGED files
      /\ table' = [table EXCEPT
                     ![fd].pos = @ + Smaller(count, Left(@))]
      /\ ~damaged /\ v \in Open(m)
  BY DEF Read, Stray, Open, Lost
<1>3. fd \in Fds /\ table[fd].pos \in 0..MaxPos
  BY <1>1, <1>2, OwnDescriptor
<1>4. View[m][v] = table[fd]
  BY <1>2, ViewCells DEF Cell
<1>5. n \in 0..Size /\ (n > 0 => table[fd].pos + n <= Size)
  BY <1>3, ReadTo
<1>6. table' = [table EXCEPT ![fd].pos = table[fd].pos + n]
  BY <1>2, <1>3
<1> HIDE DEF n
<1>7. View' = [View EXCEPT ![m][v].pos = table[fd].pos + n]
  <2> DEFINE pos == table[fd].pos + n
  <2> HIDE DEF pos
  <2>1. Reaches(m, v, pos)
    BY <1>6 DEF pos, Reaches
  <2>2. View' = [View EXCEPT ![m][v].pos = pos]
    BY <2>1, <1>1, <1>2, MoveView
  <2> QED
    BY <2>2 DEF pos
<1>8. CASE n = 0
  <2>1. table[fd] \in Entries /\ table[fd].pos + n = table[fd].pos
    BY <1>1, <1>3, <1>8 DEF TableParts, Entries
  <2>2. table' = table
    BY <1>1, <1>3, <1>6, <2>1 DEF TableParts, Entries
  <2> QED
    BY <2>2, <1>2, Stutters
<1>9. CASE n # 0
  <2>1. n \in 1..Size /\ table[fd].pos + n <= Size
    BY <1>5, <1>9 DEF HostFilesAssumption
  <2>2. table[fd] # Closed /\ table[fd].file \notin Dirs
    BY <1>2 DEF Readable
  <2> HIDE DEF fd
  <2>3. View' = [View EXCEPT ![m][v].pos = @ + n]
    BY <1>4, <1>7
  <2>4. OpenFilesOf!Read(m, v, n)
    BY <2>1, <2>2, <2>3, <1>4 DEF OpenFilesOf!Read, OpenFilesOf!Closed, Closed
  <2> QED
    BY <2>1, <2>4 DEF Moves
<1> QED
  BY <1>8, <1>9

LEMMA SeekMoves ==
  ASSUME HostFilesAssumption, Inv, ~Lost', NEW m \in Machines, NEW v \in VFDs,
         NEW offset \in 0..MaxPos, NEW whence \in {"SET", "CUR", "END"},
         Seek(m, v, offset, whence)
  PROVE  Moves(m, v) \/ UNCHANGED View
<1> DEFINE fd == files[m][v].fd
           pos == Base(fd, whence) + offset
<1>1. TableParts /\ MachineParts /\ EndParts
  BY DEF Inv
<1>2. v \in 1..Len(files[m]) /\ UNCHANGED files /\ ~damaged /\ v \in Open(m)
  BY DEF Seek, Stray, Open, Lost
<1>3. fd \in Fds /\ table[fd].pos \in 0..MaxPos /\ table[fd] # Closed
  BY <1>1, <1>2, OwnDescriptor
<1>4. pos <= MaxPos /\ table' = [table EXCEPT ![fd].pos = pos]
  BY <1>3 DEF Seek
<1>5. pos \in 0..MaxPos
  BY <1>3, <1>4 DEF Base, HostFilesAssumption
<1>6. View[m][v] = table[fd]
  BY <1>2, ViewCells DEF Cell
<1> HIDE DEF pos
<1>7. View' = [View EXCEPT ![m][v].pos = pos]
  <2>1. Reaches(m, v, pos)
    BY <1>4 DEF Reaches
  <2> QED
    BY <2>1, <1>1, <1>2, MoveView
<1> HIDE DEF fd
<1>8. OpenFilesOf!Seek(m, v, pos)
  BY <1>3, <1>6, <1>7 DEF OpenFilesOf!Seek, OpenFilesOf!Closed, Closed
<1> QED
  BY <1>5, <1>8 DEF Moves

\* As long as the promise holds, every step is one of OpenFiles.
LEMMA NextMoves ==
  ASSUME HostFilesAssumption, Inv, Next, ~Lost'
  PROVE  (\E m \in Machines, v \in VFDs : Moves(m, v)) \/ UNCHANGED View
<1>1. ASSUME NEW m \in Machines, NEW f \in Files \cup {Missing},
             OpenFails(m, f) \/ OpenReuse(m, f) \/ OpenNew(m, f)
      PROVE  \E v \in VFDs : Moves(m, v)
  BY <1>1, OpenReuseMoves, OpenNewMoves DEF OpenFails, End, Lost
<1>2. ASSUME NEW m \in Machines, Relocate(m) \/ Grown(m)
      PROVE  UNCHANGED View
  BY <1>2, RelocateMoves, Stutters DEF Grown
<1>3. ASSUME NEW m \in Machines, NEW v \in VFDs,
             OutOfRange(m, v) \/ ReadFails(m, v) \/ CloseVFD(m, v)
      PROVE  Moves(m, v)
  BY <1>3, CloseVFDMoves DEF OutOfRange, ReadFails, End, Lost
<1>4. ASSUME NEW m \in Machines, NEW v \in VFDs, NEW count \in 1..Size,
             Read(m, v, count)
      PROVE  Moves(m, v) \/ UNCHANGED View
  BY <1>4, ReadMoves
<1>5. ASSUME NEW m \in Machines, NEW v \in VFDs, NEW offset \in 0..MaxPos,
             NEW whence \in {"SET", "CUR", "END"}, Seek(m, v, offset, whence)
      PROVE  Moves(m, v) \/ UNCHANGED View
  BY <1>5, SeekMoves
<1>6. ASSUME NEW m \in Machines, Destroy(m) \/ DestroyNext(m) \/ Destroyed(m)
      PROVE  (\E v \in VFDs : Moves(m, v)) \/ UNCHANGED View
  BY <1>6, DestroyNextMoves, DestroyedMoves, Stutters DEF Destroy
<1> QED
  BY <1>1, <1>2, <1>3, <1>4, <1>5, <1>6 DEF Next

\* A process that has ended does nothing, and damage stays.
LEMMA Sticky ==
  ASSUME Next
  PROVE  ended = "no" /\ (damaged => damaged')
<1>1. ASSUME NEW m \in Machines, NEW f \in Files \cup {Missing},
             OpenFails(m, f) \/ OpenReuse(m, f) \/ OpenNew(m, f)
      PROVE  ended = "no" /\ (damaged => damaged')
  BY <1>1 DEF OpenFails, OpenReuse, OpenNew, Running, End
<1>2. ASSUME NEW m \in Machines, Relocate(m) \/ Grown(m)
      PROVE  ended = "no" /\ (damaged => damaged')
  BY <1>2 DEF Relocate, Grown, End
<1>3. ASSUME NEW m \in Machines, NEW v \in VFDs,
             OutOfRange(m, v) \/ ReadFails(m, v) \/ CloseVFD(m, v)
      PROVE  ended = "no" /\ (damaged => damaged')
  BY <1>3 DEF OutOfRange, ReadFails, CloseVFD, Running, End, Stray
<1>4. ASSUME NEW m \in Machines, NEW v \in VFDs, NEW count \in 1..Size,
             Read(m, v, count)
      PROVE  ended = "no" /\ (damaged => damaged')
  BY <1>4 DEF Read, Running, Stray
<1>5. ASSUME NEW m \in Machines, NEW v \in VFDs, NEW offset \in 0..MaxPos,
             NEW whence \in {"SET", "CUR", "END"}, Seek(m, v, offset, whence)
      PROVE  ended = "no" /\ (damaged => damaged')
  BY <1>5 DEF Seek, Running, Stray
<1>6. ASSUME NEW m \in Machines, Destroy(m) \/ DestroyNext(m) \/ Destroyed(m)
      PROVE  ended = "no" /\ (damaged => damaged')
  BY <1>6 DEF Destroy, DestroyNext, Destroyed, Running, End
<1> QED
  BY <1>1, <1>2, <1>3, <1>4, <1>5, <1>6 DEF Next

LEMMA StepMoves ==
  ASSUME HostFilesAssumption, Inv, [Next]_vars
  PROVE  [OpenFilesOf!Next]_<<View, damaged \/ ended # "no">>
<1>1. CASE UNCHANGED vars
  BY <1>1, Stutters DEF vars
<1>2. CASE Next /\ Lost'
  BY <1>2 DEF OpenFilesOf!Next, Lost
<1>3. CASE Next /\ ~Lost'
  <2>1. damaged' = FALSE /\ ended' = "no"
    BY <1>3, NextInv DEF Lost, Inv, EndParts
  <2>2. damaged = FALSE /\ ended = "no"
    <3>1. ended = "no" /\ (damaged => damaged')
      BY <1>3, Sticky
    <3> QED
      BY <3>1, <2>1 DEF Inv, EndParts
  <2>3. ~(damaged \/ ended # "no")
        /\ UNCHANGED (damaged \/ ended # "no")
    BY <2>1, <2>2
  <2>4. CASE UNCHANGED View
    BY <2>3, <2>4
  <2>5. CASE \E m \in Machines, v \in VFDs : Moves(m, v)
    <3>1. PICK m \in Machines, v \in VFDs : Moves(m, v)
      BY <2>5
    <3> QED
      BY <2>3, <3>1 DEF Moves, OpenFilesOf!Next, OpenFilesOf!VFDs, VFDs
  <2> QED
    BY <1>3, <2>4, <2>5, NextMoves
<1> QED
  BY <1>1, <1>2, <1>3

\* What every guest can rely on until a vector has grown with an open file in
\* it is OpenFiles: reads, seeks and closes of a machine act on its own files.
THEOREM FilesAreOpenFiles == HostFilesAssumption => (Spec => OpenFilesRefinement)
<1> SUFFICES ASSUME HostFilesAssumption PROVE Spec => OpenFilesRefinement
  OBVIOUS
<1>1. Init => OpenFilesOf!Init
  <2> SUFFICES ASSUME Init PROVE OpenFilesOf!Init
    OBVIOUS
  <2>1. \A m \in Machines : Open(m) = {}
    BY EmptySeq DEF Init, Open
  <2>2. View = [m \in Machines |-> [v \in VFDs |-> Closed]]
    BY <2>1 DEF View
  <2>3. ~(damaged \/ ended # "no")
    BY DEF Init
  <2> QED
    BY <2>2, <2>3 DEF OpenFilesOf!Init, OpenFilesOf!VFDs, OpenFilesOf!Closed,
                      VFDs, Closed
<1>2. Inv /\ [Next]_vars => [OpenFilesOf!Next]_<<View, damaged \/ ended # "no">>
  BY StepMoves
<1> QED
  BY <1>1, <1>2, FilesInvariant, PTL DEF Spec, OpenFilesRefinement, OpenFilesOf!Spec

\* Each open VFD has a descriptor of its own on its own file until then, free
\* VFDs and owned descriptors are exact, and no close fails before.
THEOREM FilesAreOwned == HostFilesAssumption => (Spec => FilesOwned)
<1> SUFFICES ASSUME HostFilesAssumption PROVE Spec => FilesOwned
  OBVIOUS
<1>1. Inv => /\ TypeOK /\ FreeVFDsAreClosed /\ DescriptorsOwned
             /\ ReadsOwnFile /\ CloseFailsOnlyDamaged
  BY InvTypes DEF Inv, TableParts, MachineParts, EndParts
<1> QED
  BY <1>1, FilesInvariant, FilesAreOpenFiles, PTL DEF FilesOwned

-----------------------------------------------------------------------------
(* The core: powers of two, and remainders *)

\* The provers know nothing of ^; the library says how many subsets a set has.
LEMMA PowerPositive ==
  ASSUME NEW n \in Nat
  PROVE  2 ^ n \in Nat \ {0}
<1>1. IsFiniteSet(1 .. n) /\ Cardinality(1 .. n) = n
  BY FS_Interval
<1>2. Cardinality(SUBSET (1 .. n)) = 2 ^ n /\ IsFiniteSet(SUBSET (1 .. n))
  BY <1>1, FS_SUBSET
<1>3. SUBSET (1 .. n) # {}
  OBVIOUS
<1> HIDE DEF IsFiniteSet
<1>4. Cardinality(SUBSET (1 .. n)) \in Nat /\ Cardinality(SUBSET (1 .. n)) # 0
  BY <1>2, <1>3, FS_CardinalityType, FS_EmptySet
<1> QED BY <1>2, <1>4

\* A power of two is twice the one before: half of the subsets have the last
\* number.
LEMMA PowerDoubles ==
  ASSUME NEW n \in Nat
  PROVE  2 ^ (n + 1) = 2 * 2 ^ n
<1> DEFINE A == SUBSET (1 .. n)
           B == {a \cup {n + 1} : a \in A}
<1>1. /\ IsFiniteSet(1 .. n) /\ Cardinality(1 .. n) = n
      /\ IsFiniteSet(1 .. n + 1) /\ Cardinality(1 .. n + 1) = n + 1
  BY FS_Interval
<1>2. /\ Cardinality(A) = 2 ^ n /\ IsFiniteSet(A)
      /\ Cardinality(SUBSET (1 .. n + 1)) = 2 ^ (n + 1)
  BY <1>1, FS_SUBSET
<1>3. SUBSET (1 .. n + 1) = A \cup B
  <2>1. ASSUME NEW s \in SUBSET (1 .. n + 1) PROVE s \in A \cup B
    <3>1. CASE n + 1 \notin s
      <4>1. s \in A
        BY <3>1
      <4> QED BY <4>1
    <3>2. CASE n + 1 \in s
      <4>1. s \ {n + 1} \in A /\ s = (s \ {n + 1}) \cup {n + 1}
        BY <3>2
      <4> QED BY <4>1
    <3> QED BY <3>1, <3>2
  <2>2. ASSUME NEW a \in A
        PROVE  a \in SUBSET (1 .. n + 1) /\ a \cup {n + 1} \in SUBSET (1 .. n + 1)
    <3>1. 1 .. n \subseteq 1 .. n + 1 /\ n + 1 \in 1 .. n + 1
      OBVIOUS
    <3> QED BY <3>1
  <2> HIDE DEF A
  <2>3. A \subseteq SUBSET (1 .. n + 1) /\ B \subseteq SUBSET (1 .. n + 1)
    BY <2>2
  <2> HIDE DEF B
  <2> QED BY <2>1, <2>3
<1>4. A \cap B = {}
  <2>1. \A a \in A : n + 1 \notin a
    OBVIOUS
  <2> QED BY <2>1
<1>5. IsFiniteSet(B) /\ Cardinality(B) = Cardinality(A)
  <2> DEFINE f == [a \in A |-> a \cup {n + 1}]
  <2>1. f \in Bijection(A, B)
    <3>1. \A a, b \in A : f[a] = f[b] => a = b
      <4> SUFFICES ASSUME NEW a \in A, NEW b \in A, f[a] = f[b] PROVE a = b
        OBVIOUS
      <4>1. n + 1 \notin a /\ n + 1 \notin b
        OBVIOUS
      <4> QED BY <4>1
    <3>2. f \in [A -> B] /\ \A b \in B : \E a \in A : f[a] = b
      OBVIOUS
    <3> HIDE DEF f, A, B
    <3> QED BY <3>1, <3>2 
           DEF Bijection, Injection, IsInjective, Surjection
  <2>2. ExistsBijection(A, B)
    BY <2>1 DEF ExistsBijection
  <2> QED BY <2>2, <1>2, FS_Bijection
<1>6. PICK p \in Nat : p = 2 ^ n
  BY PowerPositive
<1>7. Cardinality(A) = p /\ Cardinality(B) = p
  BY <1>2, <1>5, <1>6
<1>8. Cardinality(A \cup B) = 2 ^ (n + 1)
  BY <1>2, <1>3
<1> HIDE DEF A, B
<1>9. Cardinality(A \cup B)
        = Cardinality(A) + Cardinality(B) - Cardinality(A \cap B)
  BY <1>2, <1>5, FS_Union
<1>10. Cardinality(A \cap B) = 0
  BY <1>4, FS_EmptySet
<1>11. Cardinality(A \cup B) = p + p - 0
  BY <1>7, <1>9, <1>10
<1>12. 2 ^ (n + 1) = p + p
  BY <1>8, <1>11
<1> QED BY <1>6, <1>12

\* The sizes of a byte, half a word and a word, which is a multiple of 16.
LEMMA Sizes ==
  /\ ByteMod \in Nat /\ ByteMod >= 2
  /\ HalfMod \in Nat /\ HalfMod >= 4 /\ HalfMod = ByteMod * ByteMod
  /\ WordMod \in Nat /\ WordMod >= 16 /\ WordMod = HalfMod * HalfMod
  /\ HalfMod <= WordMod /\ ByteMod <= HalfMod
  /\ \E k \in Nat : WordMod = 16 * k
<1>1. ByteBits - 1 \in Nat /\ ByteBits = (ByteBits - 1) + 1
  BY WordsAssumption
<1>2. ByteMod = 2 * 2 ^ (ByteBits - 1)
  BY <1>1, PowerDoubles DEF ByteMod
<1>3. 2 ^ (ByteBits - 1) \in Nat \ {0}
  BY <1>1, PowerPositive
<1>4. PICK k \in Nat \ {0} : ByteMod = 2 * k
  BY <1>2, <1>3
<1>5. k * k \in Nat \ {0}
  BY <1>4
<1>6. PICK j \in Nat \ {0} : j = k * k
  BY <1>5
<1>7. HalfMod = 4 * j
  BY <1>4, <1>6 DEF HalfMod
<1>8. j * j \in Nat \ {0}
  BY <1>6
<1>9. WordMod = 16 * (j * j)
  BY <1>6, <1>7 DEF WordMod
<1>10. j <= j * j /\ k <= j
  BY <1>6, <1>4
<1> QED
  BY <1>4, <1>6, <1>7, <1>8, <1>9, <1>10 DEF HalfMod, WordMod

LEMMA Remainders ==
  ASSUME NEW a \in Int, NEW b \in Nat \ {0}
  PROVE  /\ a % b \in 0 .. b - 1 /\ a \div b \in Int
         /\ a = b * (a \div b) + (a % b)
  BY Z3

\* Quotient and remainder are the only ones.
LEMMA Unique ==
  ASSUME NEW b \in Nat \ {0}, NEW q \in Int, NEW p \in Int,
         NEW r \in 0 .. b - 1, NEW s \in 0 .. b - 1, b * q + r = b * p + s
  PROVE  q = p /\ r = s
<1>1. b * (q - p) = s - r
  BY Z3
<1>2. -b < b * (q - p) /\ b * (q - p) < b
  BY <1>1
<1>3. PICK d \in Int : d = q - p
  OBVIOUS
<1>4. CASE d >= 1
  <2>1. b * d >= b
    BY <1>4, Z3
  <2> QED BY <2>1, <1>2, <1>3
<1>5. CASE d <= -1
  <2>1. b * d <= -b
    BY <1>5, Z3
  <2> QED BY <2>1, <1>2, <1>3
<1>6. CASE d = 0
  BY <1>6, <1>3, <1>1
<1> QED BY <1>4, <1>5, <1>6

\* What Word leaves out is a multiple of WordMod.
LEMMA WordOf ==
  ASSUME NEW i \in Int
  PROVE  /\ Word(i) \in WordSet
         /\ \A k \in Int : i - k * WordMod \in WordSet => Word(i) = i - k * WordMod
<1>1. WordMod \in Nat \ {0}
  BY Sizes
<1>2. i % WordMod \in 0 .. WordMod - 1 /\ i \div WordMod \in Int
      /\ i = WordMod * (i \div WordMod) + (i % WordMod)
  BY <1>1, Remainders
<1>3. ASSUME NEW k \in Int, i - k * WordMod \in WordSet
      PROVE  Word(i) = i - k * WordMod
  <2>1. i - k * WordMod \in 0 .. WordMod - 1
    BY <1>3 DEF WordSet
  <2>2. PICK r \in 0 .. WordMod - 1 : r = i - k * WordMod
    BY <2>1
  <2>3. i = WordMod * k + r
    BY <2>2, <1>1, Z3
  <2>4. PICK q \in Int, s \in 0 .. WordMod - 1 :
          s = i % WordMod /\ i = WordMod * q + s
    BY <1>2
  <2>5. WordMod * k + r = WordMod * q + s
    BY <2>3, <2>4
  <2>6. r = s
    BY <2>5, <1>1, Unique
  <2> QED BY <2>2, <2>4, <2>6 DEF Word
<1> QED BY <1>2, <1>3 DEF Word, WordSet

\* Without a product, for what is out of range by less than a word.
LEMMA WordNear ==
  ASSUME NEW i \in Int
  PROVE  /\ Word(i) \in WordSet
         /\ i \in WordSet => Word(i) = i
         /\ i - WordMod \in WordSet => Word(i) = i - WordMod
         /\ i + WordMod \in WordSet => Word(i) = i + WordMod
<1>1. WordMod \in Nat
  BY Sizes
<1>2. 0 * WordMod = 0 /\ 1 * WordMod = WordMod /\ (-1) * WordMod = -WordMod
  BY <1>1
<1>3. Word(i) \in WordSet
        /\ \A k \in Int : i - k * WordMod \in WordSet => Word(i) = i - k * WordMod
  BY WordOf
<1>4. i \in WordSet => Word(i) = i
  <2>1. i - 0 * WordMod \in WordSet => Word(i) = i - 0 * WordMod
    BY <1>3
  <2> QED BY <2>1, <1>1, <1>2
<1>5. i - WordMod \in WordSet => Word(i) = i - WordMod
  <2>1. i - 1 * WordMod \in WordSet => Word(i) = i - 1 * WordMod
    BY <1>3
  <2> QED BY <2>1, <1>1, <1>2
<1>6. i + WordMod \in WordSet => Word(i) = i + WordMod
  <2>1. i - (-1) * WordMod \in WordSet => Word(i) = i - (-1) * WordMod
    BY <1>3
  <2>2. i - (-1) * WordMod = i + WordMod
    BY <1>1
  <2> QED BY <2>1, <2>2
<1> QED BY <1>3, <1>4, <1>5, <1>6

-----------------------------------------------------------------------------
(* Results are words *)

LEMMA SignedInt ==
  ASSUME NEW w \in WordSet
  PROVE  Signed(w) \in Int /\ w \in Nat /\ w \in Int
BY Sizes DEF Signed, WordSet

LEMMA Words01 ==
  0 \in WordSet /\ 1 \in WordSet /\ 2 \in WordSet /\ \A b \in BOOLEAN : Flag(b) \in WordSet
BY Sizes DEF WordSet, Flag

LEMMA QuotientWord ==
  ASSUME NEW w \in WordSet, NEW n \in Nat \ {0}
  PROVE  w \div n \in WordSet /\ w % n \in WordSet
<1>1. WordMod \in Nat /\ w \in 0 .. WordMod - 1
  BY Sizes DEF WordSet
<1>2. w % n \in 0 .. n - 1 /\ w \div n \in Int /\ w = n * (w \div n) + (w % n)
  BY <1>1, Remainders
<1>3. PICK q \in Int, r \in 0 .. n - 1 : q = w \div n /\ r = w % n
  BY <1>2
<1>4. w = n * q + r
  BY <1>2, <1>3
<1>5. q >= 0
  <2> SUFFICES ASSUME q <= -1 PROVE FALSE
    BY <1>3
  <2>1. n * q <= -n
    BY Z3
  <2> QED BY <2>1, <1>4, <1>1
<1>6. n * q >= q
  BY <1>5, Z3
<1>7. n * q >= 0
  BY <1>5, <1>6
<1>8. q <= w /\ r <= w
  BY <1>4, <1>6, <1>7, <1>1, <1>5
<1> QED BY <1>1, <1>3, <1>5, <1>8 DEF WordSet

LEMMA ShiftedWords ==
  ASSUME NEW t \in WordSet, NEW n \in Nat, NEW op \in ShiftOps
  PROVE  Shifted(t, n)[op] \in WordSet
<1>1. 2 ^ n \in Nat \ {0}
  BY PowerPositive
<1>2. Word(t * 2 ^ n) \in WordSet
  BY <1>1, SignedInt, WordOf
<1>3. t \div 2 ^ n \in WordSet
  BY <1>1, QuotientWord
<1>4. Word(Signed(t) \div 2 ^ n) \in WordSet
  <2>1. Signed(t) \div 2 ^ n \in Int
    BY <1>1, SignedInt, Remainders
  <2> QED BY <2>1, WordOf
<1> QED BY <1>2, <1>3, <1>4 DEF Shifted, ShiftOps

LEMMA Operators ==
  ASSUME NEW s \in WordSet, NEW t \in WordSet
  PROVE  /\ WordAnd(s, t) \in WordSet /\ WordOr(s, t) \in WordSet
         /\ WordXor(s, t) \in WordSet /\ WordMod - 1 - WordOr(s, t) \in WordSet
<1>1. /\ WordAnd(s, t) \in WordSet /\ WordOr(s, t) \in WordSet
      /\ WordXor(s, t) \in WordSet
  BY WordsAssumption
<1> QED BY <1>1, Sizes DEF WordSet

LEMMA ComputedWords ==
  ASSUME NEW s \in WordSet, NEW t \in WordSet, NEW d \in WordSet,
         NEW op \in ComputeOps
  PROVE  Computed(s, t, d)[op] \in WordSet
<1>1. /\ s \in Int /\ t \in Int /\ Signed(s) \in Int /\ Signed(t) \in Int
  BY SignedInt
<1>2. Word(s + t) \in WordSet /\ Word(s - t) \in WordSet
  BY <1>1, WordOf
<1>3. Word(Signed(s) * Signed(t)) \in WordSet
  <2>1. Signed(s) * Signed(t) \in Int
    BY <1>1
  <2> QED BY <2>1, WordOf
<1>4. Flag(Signed(s) < Signed(t)) \in WordSet /\ Flag(s < t) \in WordSet
  BY <1>1, Words01 DEF Flag
<1>5. Amount(s) \in Nat
  <2>1. WordBits \in Nat \ {0}
    BY WordsAssumption DEF WordBits
  <2> QED BY <2>1, SignedInt, Remainders DEF Amount
<1>6. /\ Shifted(t, Amount(s)).SLL \in WordSet
      /\ Shifted(t, Amount(s)).SRL \in WordSet
      /\ Shifted(t, Amount(s)).SRA \in WordSet
  BY <1>5, ShiftedWords DEF ShiftOps
<1>7. (IF t # 0 THEN s ELSE d) \in WordSet
  OBVIOUS
<1> HIDE DEF Word, Signed, Flag, Amount, Shifted, WordSet
<1> QED BY <1>2, <1>3, <1>4, <1>6, <1>7, Operators DEF Computed, ComputeOps

LEMMA ImmediateWords ==
  ASSUME NEW s \in WordSet, NEW imm \in Int, NEW op \in ImmediateOps
  PROVE  Immediate(s, imm)[op] \in WordSet
<1>1. s \in Int /\ Signed(s) \in Int
  BY SignedInt
<1>2. HalfWord(imm) \in 0 .. HalfMod - 1
  BY Sizes, Remainders DEF HalfWord
<1>3. HalfWord(imm) \in WordSet /\ HalfWord(imm) * HalfMod \in Int
  BY <1>2, Sizes DEF WordSet
<1>4. Word(s + imm) \in WordSet /\ Word(HalfWord(imm) * HalfMod) \in WordSet
  BY <1>1, <1>3, WordOf
<1>5. Flag(Signed(s) < imm) \in WordSet /\ Flag(s < HalfWord(imm)) \in WordSet
  BY Words01 DEF Flag
<1> QED BY <1>3, <1>4, <1>5, Operators DEF Immediate, ImmediateOps

-----------------------------------------------------------------------------
(* Memory *)

Memories == [WordSet -> 0 .. ByteMod - 1]

LEMMA AlignedWithin ==
  ASSUME NEW a \in WordSet, NEW n \in {1, 2, 4}, Aligned(a, n)
  PROVE  \A x \in a .. a + n - 1 : x \in WordSet
<1>1. PICK k \in Nat : WordMod = 16 * k
  BY Sizes
<1>2. a \in 0 .. 16 * k - 1
  BY <1>1 DEF WordSet
<1>3. a + n - 1 <= 16 * k - 1
  BY <1>2 DEF Aligned
<1> QED BY <1>1, <1>2, <1>3 DEF WordSet

LEMMA Joined ==
  ASSUME NEW b \in Nat \ {0}, NEW x \in 0 .. b - 1, NEW y \in 0 .. b - 1
  PROVE  x * b + y \in 0 .. b * b - 1
<1>1. x * b \in Int /\ b * b \in Int /\ x * b >= 0
  BY Z3
<1>2. x * b <= (b - 1) * b
  BY Z3
<1>3. (b - 1) * b = b * b - b
  BY Z3
<1> QED BY <1>1, <1>2, <1>3

\* Bytes that are read make up a number of their size.
LEMMA BytesRead ==
  ASSUME NEW m \in Memories, NEW a \in WordSet, NEW n \in {1, 2, 4}, Aligned(a, n)
  PROVE  /\ n = 1 => ReadBytes(m, a, n) \in 0 .. ByteMod - 1
         /\ n = 2 => ReadBytes(m, a, n) \in 0 .. HalfMod - 1
         /\ n = 4 => ReadBytes(m, a, n) \in 0 .. WordMod - 1
<1>1. \A x \in a .. a + n - 1 : m[x] \in 0 .. ByteMod - 1
  BY AlignedWithin DEF Memories
<1>2. a \in Int /\ ByteMod \in Nat \ {0} /\ HalfMod \in Nat \ {0}
  BY Sizes, SignedInt
<1>3. n >= 2 => m[a] * ByteMod + m[a + 1] \in 0 .. HalfMod - 1
  <2> SUFFICES ASSUME n >= 2 PROVE m[a] * ByteMod + m[a + 1] \in 0 .. HalfMod - 1
    OBVIOUS
  <2>1. m[a] \in 0 .. ByteMod - 1 /\ m[a + 1] \in 0 .. ByteMod - 1
    BY <1>1, <1>2
  <2> QED BY <2>1, <1>2, Joined DEF HalfMod
<1>4. n = 4 => m[a + 2] * ByteMod + m[a + 3] \in 0 .. HalfMod - 1
  <2> SUFFICES ASSUME n = 4 PROVE m[a + 2] * ByteMod + m[a + 3] \in 0 .. HalfMod - 1
    OBVIOUS
  <2>1. m[a + 2] \in 0 .. ByteMod - 1 /\ m[a + 3] \in 0 .. ByteMod - 1
    BY <1>1, <1>2
  <2> QED BY <2>1, <1>2, Joined DEF HalfMod
<1>5. CASE n = 1
  BY <1>5, <1>1, <1>2 DEF ReadBytes
<1>6. CASE n = 2
  BY <1>6, <1>3 DEF ReadBytes
<1>7. CASE n = 4
  <2>1. PICK h \in 0 .. HalfMod - 1 : h = m[a] * ByteMod + m[a + 1]
    BY <1>3, <1>7
  <2>2. PICK l \in 0 .. HalfMod - 1 : l = m[a + 2] * ByteMod + m[a + 3]
    BY <1>4, <1>7
  <2>3. h * HalfMod + l \in 0 .. WordMod - 1
    BY <1>2, Joined DEF WordMod
  <2>4. m[a + 2] * ByteMod \in Int /\ m[a + 3] \in Int
    BY <1>1, <1>2, <1>7
  <2>5. h * HalfMod \in Int
    BY <1>2
  <2>6. ReadBytes(m, a, n) = h * HalfMod + m[a + 2] * ByteMod + m[a + 3]
    BY <2>1, <1>7 DEF ReadBytes
  <2>7. ReadBytes(m, a, n) = h * HalfMod + l
    BY <2>2, <2>4, <2>5, <2>6
  <2> QED BY <2>3, <2>7, <1>7
<1> QED BY <1>5, <1>6, <1>7

LEMMA LoadedWords ==
  ASSUME NEW m \in Memories, NEW a \in WordSet, NEW op \in LoadOps,
         Aligned(a, Width[op])
  PROVE  Loaded(op, ReadBytes(m, a, Width[op])) \in WordSet
<1>1. \/ op \in {"LB", "LBU"} /\ Width[op] = 1
      \/ op \in {"LH", "LHU"} /\ Width[op] = 2
      \/ op = "LW" /\ Width[op] = 4
  BY DEF LoadOps, Width
<1>2. ReadBytes(m, a, Width[op]) \in WordSet
  BY <1>1, BytesRead, Sizes DEF WordSet
<1>3. ASSUME NEW v \in WordSet, NEW b \in Int PROVE Extended(v, b) \in WordSet
  <2>1. (IF v < b \div 2 THEN v ELSE v - b) \in Int
    BY SignedInt
  <2> QED BY <2>1, WordOf DEF Extended
<1>4. ByteMod \in Int /\ HalfMod \in Int
  BY Sizes
<1>5. CASE op = "LB"
  BY <1>2, <1>3, <1>4, <1>5 DEF Loaded
<1>6. CASE op = "LH"
  BY <1>2, <1>3, <1>4, <1>6 DEF Loaded
<1>7. CASE op \in {"LBU", "LHU", "LW"}
  BY <1>2, <1>7 DEF Loaded
<1> QED BY <1>1, <1>5, <1>6, <1>7

\* A write leaves bytes.
LEMMA BytesWritten ==
  ASSUME NEW m \in Memories, NEW a \in WordSet, NEW n \in {1, 2, 4}, NEW w \in WordSet
  PROVE  Written(m, a, n, w) \in Memories
<1>1. DOMAIN m = WordSet
  BY DEF Memories
<1>2. ASSUME NEW x \in WordSet, x \in a .. a + n - 1
      PROVE  (w \div 2 ^ (ByteBits * (a + n - 1 - x))) % ByteMod \in 0 .. ByteMod - 1
  <2>1. a + n - 1 - x \in Nat
    BY <1>2, SignedInt
  <2>2. ByteBits * (a + n - 1 - x) \in Nat
    BY <2>1, WordsAssumption
  <2>3. 2 ^ (ByteBits * (a + n - 1 - x)) \in Nat \ {0}
    BY <2>2, PowerPositive
  <2>4. w \div 2 ^ (ByteBits * (a + n - 1 - x)) \in WordSet
    BY <2>3, QuotientWord
  <2>5. ByteMod \in Nat \ {0}
    BY Sizes
  <2> QED BY <2>4, <2>5, SignedInt, Remainders
<1> QED BY <1>1, <1>2 DEF Written, Memories

-----------------------------------------------------------------------------
(* The cache *)

LEMMA Concatenated ==
  ASSUME NEW X, NEW s \in Seq(X), NEW t \in Seq(X)
  PROVE  /\ s \o t \in Seq(X) /\ Len(s \o t) = Len(s) + Len(t)
         /\ \A i \in 1 .. Len(s) + Len(t) :
              (s \o t)[i] = IF i <= Len(s) THEN s[i] ELSE t[i - Len(s)]
OBVIOUS

\* To the front of a sequence, from another place or from nowhere.
LEMMA Fronted ==
  ASSUME NEW X, NEW s \in Seq(X), NEW x \in X, NEW p \in 1 .. Len(s)
  PROVE  /\ <<x>> \o RemoveAt(s, p) \in Seq(X)
         /\ Len(<<x>> \o RemoveAt(s, p)) = Len(s)
         /\ (<<x>> \o RemoveAt(s, p))[1] = x
         /\ \A i \in 2 .. Len(s) :
              (<<x>> \o RemoveAt(s, p))[i] = IF i <= p THEN s[i - 1] ELSE s[i]
<1> DEFINE u == SubSeq(s, 1, p - 1)
           v == SubSeq(s, p + 1, Len(s))
<1>1. /\ Len(s) \in Nat /\ p \in Nat /\ p >= 1 /\ p <= Len(s)
  OBVIOUS
<1>2. u \in Seq(X) /\ Len(u) = p - 1 /\ \A i \in 1 .. p - 1 : u[i] = s[i]
  BY <1>1
<1>3. v \in Seq(X) /\ Len(v) = Len(s) - p /\ \A i \in 1 .. Len(s) - p : v[i] = s[p + i]
  BY <1>1
<1>4. RemoveAt(s, p) = u \o v
  BY DEF RemoveAt
<1> HIDE DEF u, v
<1>5. /\ u \o v \in Seq(X) /\ Len(u \o v) = Len(s) - 1
      /\ \A i \in 1 .. Len(s) - 1 :
           (u \o v)[i] = IF i <= p - 1 THEN s[i] ELSE s[i + 1]
  <2>0. u \o v \in Seq(X) /\ Len(u \o v) = Len(u) + Len(v)
    BY <1>2, <1>3, Concatenated
  <2>1. u \o v \in Seq(X) /\ Len(u \o v) = Len(s) - 1
    BY <2>0, <1>1, <1>2, <1>3
  <2>2. ASSUME NEW i \in 1 .. Len(s) - 1
        PROVE  (u \o v)[i] = IF i <= p - 1 THEN s[i] ELSE s[i + 1]
    <3>0. (u \o v)[i] = IF i <= Len(u) THEN u[i] ELSE v[i - Len(u)]
      BY <1>1, <1>2, <1>3, Concatenated
    <3>1. CASE i <= p - 1
      BY <3>0, <3>1, <1>1, <1>2
    <3>2. CASE i > p - 1
      <4>1. (u \o v)[i] = v[i - (p - 1)]
        BY <3>0, <3>2, <1>1, <1>2
      <4>2. i - (p - 1) \in 1 .. Len(s) - p /\ p + (i - (p - 1)) = i + 1
        BY <3>2, <1>1
      <4>3. v[i - (p - 1)] = s[p + (i - (p - 1))]
        BY <4>2, <1>3
      <4> QED BY <4>1, <4>2, <4>3, <3>2, <1>1
    <3>3. i <= p - 1 \/ i > p - 1
      BY <1>1
    <3> QED BY <3>1, <3>2, <3>3
  <2> QED BY <2>1, <2>2
<1>6. PICK r \in Seq(X) : r = u \o v
  BY <1>5
<1>7. /\ <<x>> \o r \in Seq(X) /\ Len(<<x>> \o r) = Len(r) + 1
      /\ (<<x>> \o r)[1] = x
      /\ \A i \in 2 .. Len(r) + 1 : (<<x>> \o r)[i] = r[i - 1]
  OBVIOUS
<1>8. Len(r) = Len(s) - 1
  BY <1>5, <1>6
<1>9. ASSUME NEW i \in 2 .. Len(s)
      PROVE  (<<x>> \o r)[i] = IF i <= p THEN s[i - 1] ELSE s[i]
  <2>1. (<<x>> \o r)[i] = r[i - 1]
    BY <1>7, <1>8, <1>1
  <2>2. i - 1 \in 1 .. Len(s) - 1
    BY <1>1
  <2>3. r[i - 1] = IF i - 1 <= p - 1 THEN s[i - 1] ELSE s[(i - 1) + 1]
    BY <1>5, <1>6, <2>2
  <2>4. (i - 1) + 1 = i /\ (i - 1 <= p - 1 <=> i <= p)
    BY <1>1
  <2> QED BY <2>1, <2>3, <2>4
<1> QED BY <1>1, <1>4, <1>6, <1>7, <1>8, <1>9

LEMMA Prepended ==
  ASSUME NEW X, NEW s \in Seq(X), NEW x \in X
  PROVE  /\ <<x>> \o s \in Seq(X) /\ Len(<<x>> \o s) = Len(s) + 1
         /\ (<<x>> \o s)[1] = x
         /\ \A i \in 2 .. Len(s) + 1 : (<<x>> \o s)[i] = s[i - 1]
OBVIOUS

Instructions ==
  {i \in [op : Ops, d : Int, t : Regs, s : Regs, imm : Int] : IsInstruction(i)}

CacheEntry == [key : WordSet, value : {NoValue} \cup Instructions]

Injective(r) == \A i, j \in 1 .. Len(r) : r[i] = r[j] => i = j

\* The cache c holds the first of the keys r.
Mirrors(c, r) ==
  /\ c \in [storage : Seq(CacheEntry), tracker : SUBSET WordSet]
  /\ r \in Seq(WordSet) /\ Injective(r)
  /\ Len(c.storage) = IF Len(r) < Capacity THEN Len(r) ELSE Capacity
  /\ \A i \in 1 .. Len(c.storage) : c.storage[i].key = r[i]
  /\ c.tracker = {r[i] : i \in 1 .. Len(c.storage)}

\* m is r with the key moved to the front from its place p, or put there.
AtFront(m, r, p, key) ==
  /\ p <= Len(r) => r[p] = key
  /\ p = Len(r) + 1 => \A i \in 1 .. Len(r) : r[i] # key
  /\ m \in Seq(WordSet) /\ Injective(m)
  /\ Len(m) = IF p <= Len(r) THEN Len(r) ELSE Len(r) + 1
  /\ m[1] = key
  /\ \A i \in 2 .. Len(m) : m[i] = IF i <= p THEN r[i - 1] ELSE r[i]

\* Moving a key to the front is a matter of the place p that it comes from.
LEMMA FrontedKey ==
  ASSUME NEW r \in Seq(WordSet), Injective(r), NEW key \in WordSet
  PROVE  \E p \in 1 .. Len(r) + 1 : AtFront(MovedToFront(r, key), r, p, key)
<1>1. PICK m : m = MovedToFront(r, key)
  OBVIOUS
<1>2. Len(r) \in Nat
  OBVIOUS
<1>3. CASE \E p \in 1 .. Len(r) : r[p] = key
  <2>1. PICK p \in 1 .. Len(r) : r[p] = key
    BY <1>3
  <2>2. (CHOOSE i \in 1 .. Len(r) : r[i] = key) = p
    BY <2>1 DEF Injective
  <2>3. key \in Range(r)
    BY <2>1 DEF Range
  <2>4. m = <<key>> \o RemoveAt(r, p)
    BY <1>1, <2>2, <2>3 DEF MovedToFront
  <2>5. /\ m \in Seq(WordSet) /\ Len(m) = Len(r) /\ m[1] = key
        /\ \A i \in 2 .. Len(r) : m[i] = IF i <= p THEN r[i - 1] ELSE r[i]
    <3>1. /\ <<key>> \o RemoveAt(r, p) \in Seq(WordSet)
          /\ Len(<<key>> \o RemoveAt(r, p)) = Len(r)
          /\ (<<key>> \o RemoveAt(r, p))[1] = key
          /\ \A i \in 2 .. Len(r) :
               (<<key>> \o RemoveAt(r, p))[i] = IF i <= p THEN r[i - 1] ELSE r[i]
      BY Fronted
    <3> QED BY <2>4, <3>1
  <2>6. \A i \in 2 .. Len(r) :
          \E j \in 1 .. Len(r) : /\ m[i] = r[j] /\ j # p
                                 /\ j = IF i <= p THEN i - 1 ELSE i
    BY <2>5, <1>2
  <2>7. Injective(m)
    <3> SUFFICES ASSUME NEW i \in 1 .. Len(r), NEW j \in 1 .. Len(r), m[i] = m[j]
                 PROVE  i = j
      BY <2>5 DEF Injective
    <3>1. \A k \in 2 .. Len(r) : m[k] # key
      BY <2>1, <2>6 DEF Injective
    <3>2. CASE i = 1 \/ j = 1
      BY <3>1, <3>2, <2>5, <1>2
    <3>3. CASE i # 1 /\ j # 1
      <4>1. i \in 2 .. Len(r) /\ j \in 2 .. Len(r)
        BY <3>3, <1>2
      <4>2. (IF i <= p THEN i - 1 ELSE i) = (IF j <= p THEN j - 1 ELSE j)
        BY <4>1, <2>6 DEF Injective
      <4> QED BY <4>1, <4>2, <1>2
    <3> QED BY <3>2, <3>3
  <2> HIDE DEF Injective
  <2>8. p \in 1 .. Len(r) + 1 /\ AtFront(m, r, p, key)
    BY <1>2, <2>1, <2>5, <2>7 DEF AtFront
  <2> QED BY ONLY <1>1, <2>8
<1>4. CASE \A i \in 1 .. Len(r) : r[i] # key
  <2>1. key \notin Range(r)
    BY <1>4 DEF Range
  <2>2. m = <<key>> \o r
    BY <1>1, <2>1 DEF MovedToFront
  <2>3. /\ m \in Seq(WordSet) /\ Len(m) = Len(r) + 1 /\ m[1] = key
        /\ \A i \in 2 .. Len(r) + 1 : m[i] = r[i - 1]
    BY <2>2, Prepended
  <2>4. Injective(m)
    <3> SUFFICES ASSUME NEW i \in 1 .. Len(r) + 1, NEW j \in 1 .. Len(r) + 1,
                        m[i] = m[j]
                 PROVE  i = j
      BY <2>3 DEF Injective
    <3>1. \A k \in 2 .. Len(r) + 1 : k - 1 \in 1 .. Len(r) /\ m[k] # key
      BY <2>3, <1>2, <1>4
    <3>2. CASE i = 1 \/ j = 1
      BY <3>1, <3>2, <2>3, <1>2
    <3>3. CASE i # 1 /\ j # 1
      <4>1. i \in 2 .. Len(r) + 1 /\ j \in 2 .. Len(r) + 1
        BY <3>3, <1>2
      <4>2. /\ i - 1 \in 1 .. Len(r) /\ j - 1 \in 1 .. Len(r)
            /\ r[i - 1] = r[j - 1]
        BY <4>1, <3>1, <2>3
      <4>3. i - 1 = j - 1
        BY <4>2 DEF Injective
      <4> QED BY <4>1, <4>3, <1>2
    <3> QED BY <3>2, <3>3
  <2>5. Len(r) + 1 \in 1 .. Len(r) + 1 /\ ~(Len(r) + 1 <= Len(r))
        /\ \A i \in 2 .. Len(r) + 1 : i <= Len(r) + 1
    BY <1>2
  <2>6. AtFront(m, r, Len(r) + 1, key)
    BY <1>4, <2>3, <2>4, <2>5 DEF AtFront
  <2> QED BY ONLY <1>1, <2>5, <2>6
<1> QED BY <1>3, <1>4

LEMMA TrackedCount ==
  ASSUME NEW r \in Seq(WordSet), Injective(r), NEW n \in 0 .. Len(r)
  PROVE  Cardinality({r[i] : i \in 1 .. n}) = n
<1> DEFINE K == {r[i] : i \in 1 .. n}
           f == [i \in 1 .. n |-> r[i]]
<1>1. IsFiniteSet(1 .. n) /\ Cardinality(1 .. n) = n
  BY FS_Interval
<1>2. \A i, j \in 1 .. n : f[i] = f[j] => i = j
  BY DEF Injective
<1>3. f \in [1 .. n -> K] /\ \A k \in K : \E i \in 1 .. n : f[i] = k
  OBVIOUS
<1> HIDE DEF f, K
<1>4. ExistsBijection(1 .. n, K)
  BY <1>2, <1>3 DEF ExistsBijection, Bijection, Injection, IsInjective, Surjection
<1>5. Cardinality(K) = n
  BY <1>1, <1>4, FS_Bijection
<1> QED BY <1>5 DEF K

Places(a, c) == \A j \in 1 .. Len(a.storage) :
                  \/ a.storage[j].value = NoValue
                  \/ \E i \in 1 .. Len(c.storage) : a.storage[j] = c.storage[i]

\* operator[] keeps the list and the map of the cache, and follows the order
\* of use; it makes up no values.
LEMMA AccessMirrors ==
  ASSUME NEW c, NEW r, Mirrors(c, r), NEW key \in WordSet
  PROVE  /\ Mirrors(Access(c, key), MovedToFront(r, key))
         /\ Len(Access(c, key).storage) >= 1
         /\ Access(c, key).storage[1].key = key
         /\ Places(Access(c, key), c)
<1> DEFINE a == Access(c, key)
           m == MovedToFront(r, key)
           l == c.storage
<1>1. /\ c \in [storage : Seq(CacheEntry), tracker : SUBSET WordSet]
      /\ l \in Seq(CacheEntry) /\ Len(l) \in Nat
      /\ r \in Seq(WordSet) /\ Injective(r) /\ Len(r) \in Nat
      /\ Len(l) = (IF Len(r) < Capacity THEN Len(r) ELSE Capacity)
      /\ \A i \in 1 .. Len(l) : l[i].key = r[i]
      /\ c.tracker = {r[i] : i \in 1 .. Len(l)}
      /\ Capacity \in Nat /\ Capacity >= 1
  BY CoreAssumption DEF Mirrors
<1>2. PICK p \in 1 .. Len(r) + 1 :
        /\ p <= Len(r) => r[p] = key
        /\ p = Len(r) + 1 => \A i \in 1 .. Len(r) : r[i] # key
        /\ m \in Seq(WordSet) /\ Injective(m)
        /\ Len(m) = IF p <= Len(r) THEN Len(r) ELSE Len(r) + 1
        /\ m[1] = key
        /\ \A i \in 2 .. Len(m) : m[i] = IF i <= p THEN r[i - 1] ELSE r[i]
  <2>1. r \in Seq(WordSet) /\ Injective(r)
    BY <1>1
  <2>2. key \in WordSet
    OBVIOUS
  <2>3. PICK p \in 1 .. Len(r) + 1 : AtFront(m, r, p, key)
    BY ONLY <2>1, <2>2, FrontedKey
  <2> HIDE DEF m
  <2> QED BY ONLY p \in 1 .. Len(r) + 1, <2>3 DEF AtFront
<1>3. p \in Nat /\ p >= 1 /\ Len(l) <= Len(r) /\ Len(l) <= Capacity
  BY <1>1
<1>4. \A i \in 1 .. Len(l) : r[i] = key => i = p
  <2> SUFFICES ASSUME NEW i \in 1 .. Len(l), r[i] = key PROVE i = p
    OBVIOUS
  <2>1. i \in 1 .. Len(r)
    BY <1>1, <1>3
  <2>2. p # Len(r) + 1 => p \in 1 .. Len(r) /\ p <= Len(r)
    BY <1>1
  <2> QED BY <2>1, <2>2, <1>1, <1>2 DEF Injective
<1>5. key \in c.tracker <=> p <= Len(l)
  <2>1. p <= Len(l) => key = r[p] /\ p \in 1 .. Len(l)
    BY <1>1, <1>2, <1>3
  <2>2. key \in c.tracker => \E i \in 1 .. Len(l) : r[i] = key
    BY <1>1
  <2> QED BY <1>1, <1>4, <2>1, <2>2
<1> HIDE DEF m
<1>6. CASE p <= Len(l)
  <2>1. Position(c, key) = p
    <3>1. p \in DOMAIN l /\ l[p].key = key
      BY <1>6, <1>1, <1>2, <1>3
    <3>2. \A i \in DOMAIN l : l[i].key = key => i = p
      BY <1>1, <1>4
    <3> QED BY <3>1, <3>2 DEF Position
  <2>2. l[p] \in CacheEntry /\ p \in 1 .. Len(l)
    BY <1>6, <1>1, <1>3
  <2>3. PICK k \in Seq(CacheEntry) :
          /\ k = <<l[p]>> \o RemoveAt(l, p) /\ Len(k) = Len(l) /\ k[1] = l[p]
          /\ \A i \in 2 .. Len(l) : k[i] = IF i <= p THEN l[i - 1] ELSE l[i]
    <3> HIDE DEF l, a
    <3>0. l \in Seq(CacheEntry) /\ p \in 1 .. Len(l)
      BY <1>1, <2>2
    <3>1. PICK x \in CacheEntry : x = l[p]
      BY <2>2
    <3>2. /\ <<x>> \o RemoveAt(l, p) \in Seq(CacheEntry)
          /\ Len(<<x>> \o RemoveAt(l, p)) = Len(l)
          /\ (<<x>> \o RemoveAt(l, p))[1] = x
          /\ \A i \in 2 .. Len(l) :
               (<<x>> \o RemoveAt(l, p))[i] = IF i <= p THEN l[i - 1] ELSE l[i]
      BY <3>0, Fronted
    <3> QED BY <3>1, <3>2
  <2>4. a = [storage |-> k, tracker |-> c.tracker]
    BY <1>1, <1>5, <1>6, <2>1, <2>3 DEF Access, Touched
  <2>5. a.storage = k /\ a.tracker = c.tracker
        /\ a \in [storage : Seq(CacheEntry), tracker : SUBSET WordSet]
    BY <2>4, <1>1
  <2> HIDE DEF a, l
  <2>6. Len(m) = Len(r)
    BY <1>2, <1>3, <1>6, <1>1
  <2>7. \A i \in 1 .. Len(k) : k[i].key = m[i]
    <3> SUFFICES ASSUME NEW i \in 1 .. Len(k) PROVE k[i].key = m[i]
      OBVIOUS
    <3>1. CASE i = 1
      BY <3>1, <2>2, <2>3, <1>1, <1>2, <1>3, <1>6
    <3>2. CASE i # 1 /\ i <= p
      <4>1. i - 1 \in 1 .. Len(l) /\ i \in 2 .. Len(l) /\ i \in 2 .. Len(m)
        BY <3>2, <2>3, <2>6, <1>1, <1>3
      <4> QED BY <4>1, <3>2, <2>3, <1>1, <1>2
    <3>3. CASE i # 1 /\ i > p
      <4>1. i \in 1 .. Len(l) /\ i \in 2 .. Len(l) /\ i \in 2 .. Len(m)
            /\ ~(i <= p)
        BY <3>3, <2>3, <2>6, <1>1, <1>3
      <4> QED BY <4>1, <2>3, <1>1, <1>2
    <3> QED BY <3>1, <3>2, <3>3, <1>3
  <2>8. c.tracker = {m[i] : i \in 1 .. Len(k)}
    <3>1. ASSUME NEW i \in 1 .. Len(l) PROVE \E j \in 1 .. Len(k) : m[j] = r[i]
      <4>1. CASE i < p
        <5>1. i + 1 \in 2 .. Len(m) /\ i + 1 <= p /\ (i + 1) - 1 = i
              /\ i + 1 \in 1 .. Len(k)
          BY <4>1, <1>1, <1>3, <1>6, <2>3, <2>6
        <5>2. m[i + 1] = r[(i + 1) - 1]
          BY <5>1, <1>2
        <5> QED BY <5>1, <5>2
      <4>2. CASE i = p
        <5>1. 1 \in 1 .. Len(k) /\ m[1] = r[i]
          BY <4>2, <1>1, <1>2, <1>3, <1>6, <2>3
        <5> QED BY <5>1
      <4>3. CASE i > p
        <5>1. i \in 2 .. Len(m) /\ i \in 1 .. Len(k) /\ ~(i <= p)
          BY <4>3, <1>1, <1>3, <2>3, <2>6
        <5>2. m[i] = r[i]
          BY <5>1, <1>2
        <5> QED BY <5>1, <5>2
      <4>4. i < p \/ i = p \/ i > p
        BY <1>3, <1>1
      <4> QED BY <4>1, <4>2, <4>3, <4>4
    <3>2. ASSUME NEW i \in 1 .. Len(k) PROVE \E j \in 1 .. Len(l) : m[i] = r[j]
      <4>1. CASE i = 1
        <5>1. p \in 1 .. Len(l) /\ m[1] = r[p]
          BY <1>1, <1>2, <1>3, <1>6
        <5> QED BY <5>1, <4>1
      <4>2. CASE i # 1 /\ i <= p
        <5>1. i \in 2 .. Len(m) /\ i - 1 \in 1 .. Len(l)
          BY <4>2, <1>1, <1>3, <1>6, <2>3, <2>6
        <5> QED BY <5>1, <4>2, <1>2
      <4>3. CASE i # 1 /\ ~(i <= p)
        <5>1. i \in 2 .. Len(m) /\ i \in 1 .. Len(l)
          BY <4>3, <1>1, <1>3, <1>6, <2>3, <2>6
        <5> QED BY <5>1, <4>3, <1>2
      <4> QED BY <4>1, <4>2, <4>3
    <3>3. c.tracker = {r[i] : i \in 1 .. Len(l)}
      BY <1>1
    <3>4. \A x \in {r[i] : i \in 1 .. Len(l)} : x \in {m[i] : i \in 1 .. Len(k)}
      BY <3>1
    <3>5. \A x \in {m[i] : i \in 1 .. Len(k)} : x \in {r[i] : i \in 1 .. Len(l)}
      BY <3>2
    <3> QED BY <3>3, <3>4, <3>5
  <2>9. Places(a, c)
    <3> SUFFICES ASSUME NEW j \in 1 .. Len(k)
                 PROVE  \E i \in 1 .. Len(l) : k[j] = l[i]
      BY <2>5 DEF Places, l
    <3>1. CASE j = 1
      BY <3>1, <2>2, <2>3
    <3>2. CASE j # 1
      <4>1. j \in 2 .. Len(l) /\ j - 1 \in 1 .. Len(l) /\ j \in 1 .. Len(l)
        BY <3>2, <2>3, <1>1
      <4> QED BY <4>1, <2>3
    <3> QED BY <3>1, <3>2
  <2>10. Len(a.storage) >= 1 /\ a.storage[1].key = key
    BY <2>5, <2>2, <2>3, <1>1, <1>2, <1>3, <1>6
  <2>11. Mirrors(a, m)
    BY <2>5, <2>6, <2>7, <2>8, <2>3, <1>1, <1>2 DEF Mirrors
  <2> QED BY <2>9, <2>10, <2>11 DEF a, m
<1>7. CASE ~(p <= Len(l))
  <2>1. PICK e : e = Evicted(c)
    OBVIOUS
  <2>2. PICK n \in Nat : n = IF Len(l) < Capacity THEN Len(l) ELSE Len(l) - 1
    BY <1>1
  <2>3. Cardinality(c.tracker) = Len(l)
    <3>1. Len(l) \in 0 .. Len(r)
      BY <1>1, <1>3
    <3> QED BY <3>1, <1>1, TrackedCount
  <2>4. /\ e.storage \in Seq(CacheEntry) /\ Len(e.storage) = n
        /\ \A i \in 1 .. n : e.storage[i] = l[i]
        /\ e.tracker = {r[i] : i \in 1 .. n}
    <3>1. CASE Len(l) < Capacity
      <4>1. e = c /\ n = Len(l)
        BY <3>1, <2>1, <2>2, <2>3 DEF Evicted
      <4> QED BY <4>1, <1>1
    <3>2. CASE ~(Len(l) < Capacity)
      <4>1. n = Len(l) - 1 /\ n + 1 = Len(l) /\ Len(l) >= 1
        BY <3>2, <2>2, <1>1
      <4>2. e = [storage |-> Front(l), tracker |-> c.tracker \ {Last(l).key}]
        BY <3>2, <2>1, <2>3 DEF Evicted
      <4>3. /\ Front(l) \in Seq(CacheEntry) /\ Len(Front(l)) = n
            /\ \A i \in 1 .. n : Front(l)[i] = l[i]
        BY <4>1, <1>1 DEF Front
      <4>4. Last(l).key = r[n + 1]
        BY <4>1, <1>1 DEF Last
      <4>5. \A i \in 1 .. n + 1 : r[i] = r[n + 1] => i = n + 1
        <5>1. n + 1 \in 1 .. Len(r) /\ \A i \in 1 .. n + 1 : i \in 1 .. Len(r)
          BY <4>1, <1>1, <1>3
        <5> QED BY <5>1, <1>1 DEF Injective
      <4>6. c.tracker \ {r[n + 1]} = {r[i] : i \in 1 .. n}
        <5>1. 1 .. Len(l) = (1 .. n) \cup {n + 1} /\ n + 1 \notin 1 .. n
          BY <4>1
        <5>2. \A i \in 1 .. n : r[i] # r[n + 1]
          BY <4>5, <5>1
        <5>3. c.tracker = {r[i] : i \in 1 .. Len(l)}
          BY <1>1
        <5> QED BY ONLY <5>1, <5>2, <5>3
      <4> QED BY <4>2, <4>3, <4>4, <4>6
    <3> QED BY <3>1, <3>2
  <2>5. Cached(key, NoValue) \in CacheEntry
    BY DEF Cached, CacheEntry
  <2>6. PICK k \in Seq(CacheEntry) :
          /\ k = <<Cached(key, NoValue)>> \o e.storage /\ Len(k) = n + 1
          /\ k[1] = Cached(key, NoValue)
          /\ \A i \in 2 .. n + 1 : k[i] = e.storage[i - 1]
    <3>1. PICK x \in CacheEntry, s \in Seq(CacheEntry) :
            x = Cached(key, NoValue) /\ s = e.storage
      BY <2>4, <2>5
    <3>2. /\ <<x>> \o s \in Seq(CacheEntry) /\ Len(<<x>> \o s) = Len(s) + 1
          /\ (<<x>> \o s)[1] = x
          /\ \A i \in 2 .. Len(s) + 1 : (<<x>> \o s)[i] = s[i - 1]
      BY Prepended
    <3> QED BY <3>1, <3>2, <2>4
  <2>7. a = [storage |-> k, tracker |-> e.tracker \cup {key}]
    BY <1>5, <1>7, <2>1, <2>6 DEF Access
  <2>8. \A i \in 1 .. n : r[i] \in WordSet
    <3>1. n <= Len(r)
      BY <2>2, <1>1, <1>3
    <3> QED BY <3>1, <1>1
  <2>9. a.storage = k /\ a.tracker = e.tracker \cup {key}
        /\ a \in [storage : Seq(CacheEntry), tracker : SUBSET WordSet]
    BY <2>7, <2>4, <2>8
  <2> HIDE DEF a, l
  <2>10. n + 1 = (IF Len(m) < Capacity THEN Len(m) ELSE Capacity)
         /\ n + 1 <= p /\ n + 1 <= Len(m)
    BY <2>2, <1>1, <1>2, <1>3, <1>7
  <2>11. \A i \in 2 .. n + 1 : m[i] = r[i - 1] /\ i - 1 \in 1 .. n
                               /\ i - 1 \in 1 .. Len(l)
    <3> SUFFICES ASSUME NEW i \in 2 .. n + 1
                 PROVE  m[i] = r[i - 1] /\ i - 1 \in 1 .. n /\ i - 1 \in 1 .. Len(l)
      OBVIOUS
    <3>1. i <= p /\ i \in 2 .. Len(m)
      BY <2>10, <1>2, <1>3
    <3> QED BY <3>1, <1>2, <2>2, <1>1
  <2>12. \A i \in 1 .. Len(k) : k[i].key = m[i]
    <3> SUFFICES ASSUME NEW i \in 1 .. n + 1 PROVE k[i].key = m[i]
      BY <2>6
    <3>1. CASE i = 1
      BY <3>1, <2>6, <1>2 DEF Cached
    <3>2. CASE i # 1
      <4>1. i \in 2 .. n + 1
        BY <3>2
      <4>2. k[i] = l[i - 1]
        BY <4>1, <2>4, <2>6, <2>11
      <4> QED BY <4>1, <4>2, <2>11, <1>1
    <3> QED BY <3>1, <3>2
  <2>13. a.tracker = {m[i] : i \in 1 .. Len(k)}
    <3>1. ASSUME NEW i \in 1 .. n PROVE \E j \in 1 .. n + 1 : m[j] = r[i]
      <4>1. i + 1 \in 2 .. n + 1 /\ (i + 1) - 1 = i /\ i + 1 \in 1 .. n + 1
        OBVIOUS
      <4>2. m[i + 1] = r[(i + 1) - 1]
        BY <4>1, <2>11
      <4> QED BY <4>1, <4>2
    <3>2. ASSUME NEW i \in 1 .. n + 1 PROVE m[i] = key \/ \E j \in 1 .. n : m[i] = r[j]
      <4>1. CASE i = 1
        BY <4>1, <1>2
      <4>2. CASE i # 1
        <5>1. i \in 2 .. n + 1
          BY <4>2
        <5> QED BY <5>1, <2>11
      <4> QED BY <4>1, <4>2
    <3>3. 1 \in 1 .. n + 1 /\ m[1] = key
      BY <1>2
    <3>4. a.tracker = {r[i] : i \in 1 .. n} \cup {key} /\ Len(k) = n + 1
      BY <2>4, <2>6, <2>9
    <3>5. \A x : x \in {r[i] : i \in 1 .. n} \cup {key}
                <=> x \in {m[i] : i \in 1 .. n + 1}
      BY <3>1, <3>2, <3>3
    <3> QED BY <3>4, <3>5
  <2>14. Places(a, c)
    <3> SUFFICES ASSUME NEW j \in 1 .. n + 1
                 PROVE  k[j].value = NoValue \/ \E i \in 1 .. Len(l) : k[j] = l[i]
      BY <2>6, <2>9 DEF Places, l
    <3>1. CASE j = 1
      BY <3>1, <2>6 DEF Cached
    <3>2. CASE j # 1
      <4>1. j \in 2 .. n + 1
        BY <3>2
      <4>2. k[j] = l[j - 1] /\ j - 1 \in 1 .. Len(l)
        BY <4>1, <2>4, <2>6, <2>11
      <4> QED BY <4>2
    <3> QED BY <3>1, <3>2
  <2>15. Len(a.storage) >= 1 /\ a.storage[1].key = key
    BY <2>6, <2>9 DEF Cached
  <2>16. Mirrors(a, m)
    BY <2>6, <2>9, <2>10, <2>12, <2>13, <1>2 DEF Mirrors
  <2> QED BY <2>14, <2>15, <2>16 DEF a, m
<1> QED BY <1>6, <1>7

LEMMA AssignedMirrors ==
  ASSUME NEW c, NEW r, Mirrors(c, r), Len(c.storage) >= 1,
         NEW value \in {NoValue} \cup Instructions
  PROVE  /\ Mirrors(Assigned(c, value), r)
         /\ Len(Assigned(c, value).storage) = Len(c.storage)
         /\ Assigned(c, value).storage[1] = Cached(c.storage[1].key, value)
         /\ \A i \in 2 .. Len(c.storage) :
              Assigned(c, value).storage[i] = c.storage[i]
<1>1. /\ c = [storage |-> c.storage, tracker |-> c.tracker]
      /\ c.storage \in Seq(CacheEntry) /\ c.tracker \in SUBSET WordSet
  BY DEF Mirrors
<1>2. PICK l \in Seq(CacheEntry) : l = c.storage
  BY <1>1
<1>3. 1 \in 1 .. Len(l) /\ l[1] \in CacheEntry
  BY <1>2
<1>4. [l[1] EXCEPT !.value = value] = Cached(l[1].key, value)
      /\ Cached(l[1].key, value) \in CacheEntry
  BY <1>3 DEF CacheEntry, Cached
<1>5. PICK k : k = [l EXCEPT ![1] = Cached(l[1].key, value)]
  OBVIOUS
<1>6. /\ k \in Seq(CacheEntry) /\ Len(k) = Len(l)
      /\ k[1] = Cached(l[1].key, value)
      /\ \A i \in 2 .. Len(l) : k[i] = l[i]
  BY <1>3, <1>4, <1>5
<1>7. Assigned(c, value) = [c EXCEPT !.storage = k]
  BY <1>2, <1>4, <1>5 DEF Assigned
<1>8. Assigned(c, value) = [storage |-> k, tracker |-> c.tracker]
  BY <1>1, <1>7
<1>9. \A i \in 1 .. Len(l) : k[i].key = l[i].key
  BY <1>6 DEF Cached
<1> QED BY <1>1, <1>2, <1>6, <1>8, <1>9 DEF Mirrors

LEMMA EmptyMirrors == Mirrors(NoEntries, << >>)
<1>1. Len(<< >>) = 0 /\ << >> \in Seq(CacheEntry) /\ << >> \in Seq(WordSet)
  OBVIOUS
<1>2. Capacity \in Nat /\ 0 < Capacity
  BY CoreAssumption
<1>3. {<< >>[i] : i \in 1 .. 0} = {}
  OBVIOUS
<1> QED BY <1>1, <1>2, <1>3 DEF Mirrors, NoEntries, Injective

-----------------------------------------------------------------------------
(* The inductive invariant *)

MachineTypes ==
  /\ pc \in WordSet
  /\ regs \in [Regs -> WordSet]
  /\ hi \in WordSet /\ lo \in WordSet
  /\ exl \in BOOLEAN /\ epc \in WordSet
  /\ cause \in [code : Codes \cup {"none"}, addr : WordSet]
  /\ mem \in Memories
  /\ host \in {"running", "aborted"}

DecodedIn(program, m, addr) == Bound(program[ReadBytes(m, addr, 4)], addr)

\* What the cache c holds are instructions of aligned words, decoded from the
\* memory m as it is but for the words that were stored to.
Faithful(c, program, m, st) ==
  \A i \in 1 .. Len(c.storage) :
    LET e == c.storage[i]
    IN  e.value # NoValue =>
          /\ Aligned(e.key, 4)
          /\ e.value = DecodedIn(program, m, e.key) \/ e.key \in st

CacheInv ==
  /\ code \in Programs
  /\ Mirrors(icache, recent)
  /\ Faithful(icache, code, mem, stored)
  /\ stored \subseteq WordSet

CoreInv == MachineTypes /\ CacheInv

LEMMA DecodedInstruction ==
  ASSUME NEW program \in Programs, NEW m \in Memories, NEW addr \in WordSet,
         Aligned(addr, 4)
  PROVE  DecodedIn(program, m, addr) \in Instructions
<1>1. ReadBytes(m, addr, 4) \in WordSet
  BY BytesRead DEF WordSet
<1>2. PICK i : i = program[ReadBytes(m, addr, 4)]
  OBVIOUS
<1>3. IsInstruction(i)
  BY <1>1, <1>2, CoreAssumption
<1>4. DecodedIn(program, m, addr) = Bound(i, addr)
  BY <1>2 DEF DecodedIn
<1>5. CASE i.op \notin {"J", "JAL"}
  BY <1>3, <1>4, <1>5 DEF Bound, Instructions, IsInstruction
<1>6. CASE i.op \in {"J", "JAL"}
  <2>1. PICK n : n = Word(Word(addr + 4) - (Word(addr + 4) % RegionMod)
                            + (i.imm % TargetMod) * 4 - 4)
    OBVIOUS
  <2>2. n \in Int
    <3>1. Word(addr + 4) \in Int /\ i.imm \in Int
      BY <1>3, SignedInt, WordOf DEF IsInstruction
    <3>2. Word(addr + 4) % RegionMod \in Int /\ i.imm % TargetMod \in Int
      <4>1. RegionMod \in Nat \ {0} /\ TargetMod \in Nat \ {0}
        BY CoreAssumption
      <4>2. PICK u \in Int, v \in Int : u = Word(addr + 4) /\ v = i.imm
        BY <3>1
      <4>3. u % RegionMod \in 0 .. RegionMod - 1 /\ v % TargetMod \in 0 .. TargetMod - 1
        BY <4>1, Remainders
      <4> QED BY <4>1, <4>2, <4>3
    <3>3. Word(addr + 4) - (Word(addr + 4) % RegionMod)
            + (i.imm % TargetMod) * 4 - 4 \in Int
      BY <3>1, <3>2
    <3> QED BY <2>1, <3>3, WordOf, SignedInt
  <2>3. Bound(i, addr) = [i EXCEPT !.imm = n]
    BY <1>6, <2>1 DEF Bound
  <2>4. i \in [op : Ops, d : Int, t : Regs, s : Regs, imm : Int]
        /\ (i.d \in Regs \/ i.op \in {"MFC0", "MTC0"})
    BY <1>3 DEF IsInstruction
  <2>5. PICK j : j = [i EXCEPT !.imm = n]
    OBVIOUS
  <2>6. /\ j \in [op : Ops, d : Int, t : Regs, s : Regs, imm : Int]
        /\ j.op = i.op /\ j.d = i.d
    BY <2>2, <2>4, <2>5
  <2>7. j.op \notin ShiftOps /\ j.op \notin ShortOps
    BY <1>6, <2>6 DEF ShiftOps, ShortOps, ImmediateOps, BranchOps, LoadOps, StoreOps
  <2>8. IsInstruction(j)
    BY <2>4, <2>6, <2>7 DEF IsInstruction
  <2> QED BY <1>4, <2>3, <2>5, <2>6, <2>8 DEF Instructions
<1> QED BY <1>5, <1>6

LEMMA DecodedIs == \A addr : Decoded(addr) = DecodedIn(code, mem, addr)
BY DEF Decoded, DecodedIn

\* The next instruction is one, and the place of the program counter in the
\* cache is at the front.
LEMMA Fetching ==
  ASSUME CoreInv
  PROVE  /\ Mirrors(CacheOpened, MovedToFront(recent, pc))
         /\ Len(CacheOpened.storage) >= 1
         /\ CacheOpened.storage[1].key = pc
         /\ Places(CacheOpened, icache)
         /\ Known \/ Aligned(pc, 4) => Instr \in Instructions
<1>1. /\ Mirrors(CacheOpened, MovedToFront(recent, pc))
      /\ Len(CacheOpened.storage) >= 1
      /\ CacheOpened.storage[1].key = pc
      /\ Places(CacheOpened, icache)
  BY AccessMirrors DEF CoreInv, MachineTypes, CacheInv, CacheOpened
<1>2. CASE Known
  <2>1. CacheOpened.storage[1] \in CacheEntry
    BY <1>1 DEF Mirrors
  <2>2. Accessed(CacheOpened) \in Instructions
    BY <2>1, <1>2 DEF Known, Accessed, CacheEntry
  <2> QED BY <1>1, <1>2, <2>2 DEF Instr
<1>3. CASE ~Known /\ Aligned(pc, 4)
  <2>1. Instr = DecodedIn(code, mem, pc)
    BY <1>3, DecodedIs DEF Instr
  <2> QED BY <1>1, <1>3, <2>1, DecodedInstruction DEF CoreInv, MachineTypes, CacheInv
<1> QED BY <1>1, <1>2, <1>3

LEMMA PlacesFaithful ==
  ASSUME NEW a, NEW c, NEW program, NEW m, NEW st, NEW r,
         Mirrors(a, r), Places(a, c), Faithful(c, program, m, st)
  PROVE  Faithful(a, program, m, st)
BY DEF Places, Faithful

\* After the fetch of an instruction it is at the front of the cache, or the
\* cache is cleared.
LEMMA FetchKeeps ==
  ASSUME CoreInv, NEW ops, Fetch(ops)
  PROVE  /\ Instr \in Instructions /\ Instr.op \in ops
         /\ Mirrors(icache', recent')
         /\ Faithful(icache', code, mem, Refreshed)
         /\ Refreshed \subseteq WordSet
<1>1. /\ Known \/ Aligned(pc, 4)
      /\ Instr \in Instructions /\ Instr.op \in ops
  BY Fetching DEF Fetch, Fetchable
<1>2. Refreshed \subseteq WordSet
  BY DEF CoreInv, CacheInv, Refreshed
<1>3. CASE Instr.op = "CACHE" /\ exl
  <2>1. icache' = NoEntries /\ recent' = << >>
    BY <1>3 DEF Fetch, CacheAfter
  <2>2. Faithful(NoEntries, code, mem, Refreshed)
    BY DEF Faithful, NoEntries
  <2> QED BY <1>1, <1>2, <2>1, <2>2, EmptyMirrors
<1>4. CASE ~(Instr.op = "CACHE" /\ exl)
  <2>1. icache' = Assigned(CacheOpened, Instr) /\ recent' = MovedToFront(recent, pc)
    BY <1>4 DEF Fetch, CacheAfter
  <2> DEFINE a == CacheOpened
  <2>2. PICK r : r = MovedToFront(recent, pc)
    OBVIOUS
  <2>3. /\ Mirrors(a, r) /\ Len(a.storage) >= 1 /\ a.storage[1].key = pc
        /\ Places(a, icache)
    BY <2>2, Fetching
  <2>4. PICK k : k = Assigned(a, Instr)
    OBVIOUS
  <2>5. /\ Mirrors(k, r) /\ Len(k.storage) = Len(a.storage)
        /\ k.storage[1] = Cached(pc, Instr)
        /\ \A i \in 2 .. Len(a.storage) : k.storage[i] = a.storage[i]
    BY <1>1, <2>3, <2>4, AssignedMirrors
  <2>6. Faithful(icache, code, mem, stored)
    BY DEF CoreInv, CacheInv
  <2>7. Faithful(a, code, mem, stored)
    BY <2>3, <2>6, PlacesFaithful
  <2>8. Len(k.storage) \in Nat /\ \A i \in 2 .. Len(k.storage) : k.storage[i].key # pc
    <3>1. Len(k.storage) \in Nat /\ Len(k.storage) <= Len(r) /\ Len(r) \in Nat
          /\ \A i \in 1 .. Len(k.storage) : k.storage[i].key = r[i]
      BY <2>5, CoreAssumption DEF Mirrors
    <3>2. 1 \in 1 .. Len(k.storage)
      BY <2>3, <2>5, <3>1
    <3>3. r[1] = pc
      BY <2>5, <3>1, <3>2 DEF Cached
    <3>4. ASSUME NEW i \in 2 .. Len(k.storage) PROVE k.storage[i].key # pc
      <4>1. i \in 1 .. Len(r) /\ 1 \in 1 .. Len(r) /\ i # 1 /\ i \in 1 .. Len(k.storage)
        BY <3>1
      <4>2. r[i] # r[1]
        BY <4>1, <2>5 DEF Mirrors, Injective
      <4> QED BY <4>1, <4>2, <3>1, <3>3
    <3> QED BY <3>1, <3>4
  <2>9. Faithful(k, code, mem, Refreshed)
    <3> SUFFICES ASSUME NEW i \in 1 .. Len(k.storage), k.storage[i].value # NoValue
                 PROVE  /\ Aligned(k.storage[i].key, 4)
                        /\ \/ k.storage[i].value = DecodedIn(code, mem, k.storage[i].key)
                           \/ k.storage[i].key \in Refreshed
      BY DEF Faithful
    <3>1. CASE i = 1 /\ Known
      <4>1. Instr = a.storage[1].value /\ a.storage[1].value # NoValue
        BY <3>1 DEF Instr, Known, Accessed
      <4>2. 1 \in 1 .. Len(a.storage)
        BY <2>3, <2>5, <2>8
      <4>3. Aligned(pc, 4) /\ (Instr = DecodedIn(code, mem, pc) \/ pc \in stored)
        BY <4>1, <4>2, <2>3, <2>7 DEF Faithful
      <4>4. Refreshed = stored
        BY <3>1 DEF Refreshed
      <4> QED BY <3>1, <4>3, <4>4, <2>5 DEF Cached
    <3>2. CASE i = 1 /\ ~Known
      <4>1. Instr = DecodedIn(code, mem, pc) /\ Aligned(pc, 4)
        BY <3>2, <1>1, DecodedIs DEF Instr
      <4> QED BY <3>2, <4>1, <2>5 DEF Cached
    <3>3. CASE i # 1
      <4>1. i \in 2 .. Len(a.storage) /\ i \in 2 .. Len(k.storage) /\ i \in 1 .. Len(a.storage)
        BY <3>3, <2>5, <2>8
      <4>2. k.storage[i] = a.storage[i] /\ k.storage[i].key # pc
        BY <4>1, <2>5, <2>8
      <4>3. /\ Aligned(k.storage[i].key, 4)
            /\ \/ k.storage[i].value = DecodedIn(code, mem, k.storage[i].key)
               \/ k.storage[i].key \in stored
        BY <4>1, <4>2, <2>7 DEF Faithful
      <4> QED BY <4>2, <4>3 DEF Refreshed
    <3> QED BY <3>1, <3>2, <3>3
  <2> QED BY <1>1, <1>2, <2>1, <2>2, <2>4, <2>5, <2>9
<1> QED BY <1>3, <1>4

LEMMA RunsKeeps ==
  ASSUME CoreInv, NEW ops, Runs(ops), mem' = mem
  PROVE  /\ Instr \in Instructions /\ Instr.op \in ops /\ CacheInv'
         /\ code' = code /\ host' = host
<1>1. Fetch(ops) /\ stored' = Refreshed /\ code' = code /\ host' = host
  BY DEF Runs
<1>2. /\ Instr \in Instructions /\ Instr.op \in ops
      /\ Mirrors(icache', recent')
      /\ Faithful(icache', code, mem, Refreshed)
      /\ Refreshed \subseteq WordSet
  BY <1>1, FetchKeeps
<1>3. code \in Programs
  BY DEF CoreInv, CacheInv
<1> QED BY <1>1, <1>2, <1>3 DEF CacheInv

\* A fetch without an instruction opens the cache.
LEMMA OpenKeeps ==
  ASSUME CoreInv, icache' = CacheOpened, recent' = MovedToFront(recent, pc),
         UNCHANGED <<code, mem, stored>>
  PROVE  CacheInv'
<1>1. PICK a, r : a = CacheOpened /\ r = MovedToFront(recent, pc)
  OBVIOUS
<1>2. Mirrors(a, r) /\ Places(a, icache)
  BY <1>1, Fetching
<1>3. code \in Programs /\ Faithful(icache, code, mem, stored) /\ stored \subseteq WordSet
  BY DEF CoreInv, CacheInv
<1>4. Faithful(a, code, mem, stored)
  BY <1>2, <1>3, PlacesFaithful
<1> QED BY <1>1, <1>2, <1>3, <1>4 DEF CacheInv

\* A store reaches one aligned word.
LEMMA StoredElsewhere ==
  ASSUME NEW m \in Memories, NEW a \in WordSet, NEW n \in {1, 2, 4}, Aligned(a, n),
         NEW w \in WordSet, NEW key \in WordSet, Aligned(key, 4),
         key # a - (a % 4)
  PROVE  ReadBytes(Written(m, a, n, w), key, 4) = ReadBytes(m, key, 4)
<1>1. a \in Nat /\ key \in Nat
  BY SignedInt
<1>2. key % 4 = 0 /\ a % n = 0
  BY DEF Aligned
<1>3. \A x \in key .. key + 3 : x \notin a .. a + n - 1
  <2> SUFFICES ASSUME NEW x \in key .. key + 3, x \in a .. a + n - 1 PROVE FALSE
    OBVIOUS
  <2>1. PICK q \in Nat : key = 4 * q
    BY <1>1, <1>2
  <2>2. PICK b \in Nat, c \in 0 .. 3 : a = 4 * b + c /\ a % 4 = c
    BY <1>1
  <2>3. c + n <= 4
    <3>1. CASE n = 1
      BY <3>1
    <3>2. CASE n = 2
      BY <3>2, <1>2, <2>2
    <3>3. CASE n = 4
      BY <3>3, <1>2, <2>2
    <3> QED BY <3>1, <3>2, <3>3
  <2>4. b = q
    BY <2>1, <2>2, <2>3
  <2> QED BY <2>1, <2>2, <2>4
<1>4. \A x \in key .. key + 3 : x \in WordSet
  <2>1. key + 4 - 1 = key + 3
    BY <1>1
  <2> QED BY <2>1, AlignedWithin
<1>5. \A x \in key .. key + 3 : Written(m, a, n, w)[x] = m[x]
  <2>1. \A x \in WordSet : x \notin a .. a + n - 1 => Written(m, a, n, w)[x] = m[x]
    BY DEF Written, Memories
  <2> QED BY <1>3, <1>4, <2>1
<1>6. /\ key \in key .. key + 3 /\ key + 1 \in key .. key + 3
      /\ key + 2 \in key .. key + 3 /\ key + 3 \in key .. key + 3
  BY <1>1
<1> QED BY <1>5, <1>6 DEF ReadBytes

-----------------------------------------------------------------------------
(* The end of a cycle keeps the types *)

LEMMA RetireTypes ==
  ASSUME CoreInv, NEW addr \in Int, Retire(addr)
  PROVE  /\ pc' \in WordSet /\ exl' \in BOOLEAN /\ epc' \in WordSet
         /\ cause' \in [code : Codes \cup {"none"}, addr : WordSet]
BY WordOf DEF CoreInv, MachineTypes, Retire, cp0

LEMMA RaiseTypes ==
  ASSUME CoreInv, NEW c \in Codes, NEW addr \in WordSet, Raise(c, addr)
  PROVE  /\ pc' \in WordSet /\ exl' \in BOOLEAN /\ epc' \in WordSet
         /\ cause' \in [code : Codes \cup {"none"}, addr : WordSet]
BY CoreAssumption DEF CoreInv, MachineTypes, Raise

LEMMA SetTypes ==
  ASSUME CoreInv, NEW r, NEW w \in WordSet, Set(r, w)
  PROVE  regs' \in [Regs -> WordSet]
BY DEF CoreInv, MachineTypes, Set

\* The operands of the instruction.
LEMMA Operands ==
  ASSUME CoreInv, Instr \in Instructions
  PROVE  /\ S \in WordSet /\ T \in WordSet /\ Imm \in Int /\ pc \in Int
         /\ S \in Int /\ T \in Int /\ Signed(S) \in Int /\ Signed(T) \in Int
         /\ Instr.op \notin {"MFC0", "MTC0"} => regs[Instr.d] \in WordSet
         /\ Instr.op \in ShiftOps => Imm \in Nat
         /\ Instr.op \in ShortOps => Imm \in -(HalfMod \div 2) .. HalfMod \div 2 - 1
         /\ Instr.s \in Regs /\ Instr.t \in Regs
<1>1. regs \in [Regs -> WordSet] /\ pc \in WordSet
  BY DEF CoreInv, MachineTypes
<1>2. /\ Instr.s \in Regs /\ Instr.t \in Regs /\ Imm \in Int
      /\ Instr.op \notin {"MFC0", "MTC0"} => Instr.d \in Regs
      /\ Instr.op \in ShiftOps => Imm \in Nat
      /\ Instr.op \in ShortOps => Imm \in -(HalfMod \div 2) .. HalfMod \div 2 - 1
  BY DEF Instructions, IsInstruction, Imm
<1>3. S \in WordSet /\ T \in WordSet
  BY <1>1, <1>2 DEF S, T
<1> QED BY <1>1, <1>2, <1>3, SignedInt

-----------------------------------------------------------------------------
(* Each action keeps the invariant *)

LEMMA AbortOK == CoreInv /\ Abort => CoreInv'
<1> SUFFICES ASSUME CoreInv, Abort PROVE CoreInv'
  OBVIOUS
<1>1. MachineTypes'
  BY DEF CoreInv, MachineTypes, Abort, cp0
<1>2. CacheInv'
  BY DEF CoreInv, CacheInv, Abort
<1> QED BY <1>1, <1>2 DEF CoreInv

LEMMA NoInstructionOK == CoreInv /\ NoInstruction => CoreInv'
<1> SUFFICES ASSUME CoreInv, NoInstruction PROVE CoreInv'
  OBVIOUS
<1>1. CASE FetchMiss
  <2>1. CacheInv'
    BY <1>1, OpenKeeps DEF FetchMiss
  <2>2. pc \in WordSet /\ "TLB_L" \in Codes /\ Raise("TLB_L", pc)
    BY <1>1 DEF CoreInv, MachineTypes, FetchMiss, Codes
  <2>3. MachineTypes'
    BY <1>1, <2>2, RaiseTypes DEF CoreInv, MachineTypes, FetchMiss
  <2> QED BY <2>1, <2>3 DEF CoreInv
<1>2. CASE FetchUnaligned
  BY <1>2, AbortOK DEF FetchUnaligned
<1>3. CASE Reserved
  <2>1. CacheInv'
    BY <1>3, OpenKeeps DEF Reserved
  <2>2. 0 \in WordSet /\ "RI" \in Codes /\ Raise("RI", 0)
    BY <1>3, Words01 DEF Reserved, Codes
  <2>3. MachineTypes'
    BY <1>3, <2>2, RaiseTypes DEF CoreInv, MachineTypes, Reserved
  <2> QED BY <2>1, <2>3 DEF CoreInv
<1> QED BY <1>1, <1>2, <1>3 DEF NoInstruction

\* What an instruction that runs has to show.
LEMMA RunsOK ==
  ASSUME CoreInv, NEW ops, Runs(ops), mem' = mem,
         /\ pc' \in WordSet /\ exl' \in BOOLEAN /\ epc' \in WordSet
         /\ cause' \in [code : Codes \cup {"none"}, addr : WordSet],
         regs' \in [Regs -> WordSet], hi' \in WordSet /\ lo' \in WordSet
  PROVE  CoreInv'
<1>1. CacheInv' /\ host' = host
  BY RunsKeeps
<1>2. mem \in Memories /\ host \in {"running", "aborted"}
  BY DEF CoreInv, MachineTypes
<1> QED BY <1>1, <1>2 DEF CoreInv, MachineTypes

LEMMA ComputeOK == CoreInv /\ Compute => CoreInv'
<1> SUFFICES ASSUME CoreInv, Compute PROVE CoreInv'
  OBVIOUS
<1>1. mem' = mem /\ hi' \in WordSet /\ lo' \in WordSet /\ Retire(pc) /\ pc \in Int
  BY SignedInt DEF CoreInv, MachineTypes, Compute, Proceed
<1>2. /\ pc' \in WordSet /\ exl' \in BOOLEAN /\ epc' \in WordSet
      /\ cause' \in [code : Codes \cup {"none"}, addr : WordSet]
  BY <1>1, RetireTypes
<1>3. CASE Runs(ShiftOps) /\ Set(Instr.d, Shifted(T, Imm)[Instr.op])
  <2>1. Instr \in Instructions /\ Instr.op \in ShiftOps
    BY <1>1, <1>3, RunsKeeps
  <2>2. Shifted(T, Imm)[Instr.op] \in WordSet
    BY <2>1, Operands, ShiftedWords
  <2> QED BY <1>1, <1>2, <1>3, <2>2, SetTypes, RunsOK
<1>4. CASE Runs(ComputeOps) /\ Set(Instr.d, Computed(S, T, regs[Instr.d])[Instr.op])
  <2>1. Instr \in Instructions /\ Instr.op \in ComputeOps
    BY <1>1, <1>4, RunsKeeps
  <2>2. Instr.op \notin {"MFC0", "MTC0"}
    BY <2>1 DEF ComputeOps
  <2>3. Computed(S, T, regs[Instr.d])[Instr.op] \in WordSet
    BY <2>1, <2>2, Operands, ComputedWords
  <2> QED BY <1>1, <1>2, <1>4, <2>3, SetTypes, RunsOK
<1>5. CASE Runs(ImmediateOps) /\ Set(Instr.t, Immediate(S, Imm)[Instr.op])
  <2>1. Instr \in Instructions /\ Instr.op \in ImmediateOps
    BY <1>1, <1>5, RunsKeeps
  <2>2. Immediate(S, Imm)[Instr.op] \in WordSet
    BY <2>1, Operands, ImmediateWords
  <2> QED BY <1>1, <1>2, <1>5, <2>2, SetTypes, RunsOK
<1> QED BY <1>3, <1>4, <1>5 DEF Compute

LEMMA AddTrappingOK == CoreInv /\ AddTrapping => CoreInv'
<1> SUFFICES ASSUME CoreInv, AddTrapping PROVE CoreInv'
  OBVIOUS
<1>1. /\ Runs({"ADD", "SUB", "ADDI"}) /\ Set(Instr.t, Word(Exact))
      /\ mem' = mem /\ hi' \in WordSet /\ lo' \in WordSet /\ pc \in Int
  BY SignedInt DEF CoreInv, MachineTypes, AddTrapping
<1>2. Instr \in Instructions /\ Instr.op \in {"ADD", "SUB", "ADDI"}
  BY <1>1, RunsKeeps
<1>3. Exact \in Int
  <2>1. Signed(S) \in Int /\ Signed(T) \in Int /\ Imm \in Int
    BY <1>2, Operands
  <2> QED BY <1>2, <2>1 DEF Exact, ExactSum
<1>4. regs' \in [Regs -> WordSet]
  BY <1>1, <1>3, WordOf, SetTypes
<1>5. Retire(pc) \/ Raise("OVERFLOW", 0)
  BY DEF AddTrapping, Proceed
<1>6. /\ pc' \in WordSet /\ exl' \in BOOLEAN /\ epc' \in WordSet
      /\ cause' \in [code : Codes \cup {"none"}, addr : WordSet]
  <2>1. 0 \in WordSet /\ "OVERFLOW" \in Codes
    BY Words01 DEF Codes
  <2> QED BY <1>1, <1>5, <2>1, RetireTypes, RaiseTypes
<1> QED BY <1>1, <1>4, <1>6, RunsOK

LEMMA MultiplyOK == CoreInv /\ Multiply => CoreInv'
<1> SUFFICES ASSUME CoreInv, Multiply PROVE CoreInv'
  OBVIOUS
<1>1. PICK p : p = Product(S, T)[Instr.op]
  OBVIOUS
<1>2. /\ Runs({"MULT", "MULTU"}) /\ SetHiLo(p \div WordMod, p)
      /\ mem' = mem /\ regs' \in [Regs -> WordSet] /\ Retire(pc) /\ pc \in Int
  BY <1>1, SignedInt DEF CoreInv, MachineTypes, Multiply, Proceed
<1>3. Instr \in Instructions /\ Instr.op \in {"MULT", "MULTU"}
  BY <1>2, RunsKeeps
<1>4. p \in Int
  <2>1. S \in Int /\ T \in Int /\ Signed(S) \in Int /\ Signed(T) \in Int
    BY <1>3, Operands
  <2>2. Signed(S) * Signed(T) \in Int /\ S * T \in Int
    BY <2>1
  <2> QED BY <1>1, <1>3, <2>2 DEF Product
<1>5. p \div WordMod \in Int
  BY <1>4, Sizes, Remainders
<1>6. hi' \in WordSet /\ lo' \in WordSet
  BY <1>2, <1>4, <1>5, WordOf DEF SetHiLo
<1>7. /\ pc' \in WordSet /\ exl' \in BOOLEAN /\ epc' \in WordSet
      /\ cause' \in [code : Codes \cup {"none"}, addr : WordSet]
  BY <1>2, RetireTypes
<1> QED BY <1>2, <1>6, <1>7, RunsOK

LEMMA DivideOK == CoreInv /\ (Divide \/ DivideAborts) => CoreInv'
<1> SUFFICES ASSUME CoreInv, Divide PROVE CoreInv'
  BY AbortOK DEF DivideAborts
<1>1. /\ Runs({"DIV", "DIVU"}) /\ T # 0
      /\ mem' = mem /\ regs' \in [Regs -> WordSet] /\ Retire(pc) /\ pc \in Int
  BY SignedInt DEF CoreInv, MachineTypes, Divide, Proceed, HasQuotient
<1>2. Instr \in Instructions /\ Instr.op \in {"DIV", "DIVU"}
  BY <1>1, RunsKeeps
<1>3. /\ S \in WordSet /\ T \in WordSet /\ Signed(S) \in Int /\ Signed(T) \in Int
      /\ T \in Nat \ {0} /\ Signed(T) # 0
  <2>1. /\ S \in WordSet /\ T \in WordSet /\ Signed(S) \in Int /\ Signed(T) \in Int
    BY <1>2, Operands
  <2> QED BY <1>1, <2>1, Sizes DEF WordSet, Signed
<1>4. S % T \in Int /\ S \div T \in Int
  BY <1>3, SignedInt, Remainders
<1>5. Truncated(Signed(S), Signed(T)) \in Int
  <2>1. PICK a \in Int, b \in Int \ {0} : a = Signed(S) /\ b = Signed(T)
    BY <1>3
  <2>2. AbsInt(a) \in Int /\ AbsInt(b) \in Nat \ {0}
    BY DEF AbsInt
  <2>3. AbsInt(a) \div AbsInt(b) \in Int
    BY <2>2, Remainders
  <2> QED BY <2>1, <2>3 DEF Truncated
<1>6. /\ Quotient(Signed(S), Signed(T)) \in Int
      /\ Remainder(Signed(S), Signed(T)) \in Int
  BY <1>3, <1>5 DEF Quotient, Remainder
<1>7. hi' \in WordSet /\ lo' \in WordSet
  BY <1>4, <1>6, WordOf DEF Divide, SetHiLo
<1>8. /\ pc' \in WordSet /\ exl' \in BOOLEAN /\ epc' \in WordSet
      /\ cause' \in [code : Codes \cup {"none"}, addr : WordSet]
  BY <1>1, RetireTypes
<1> QED BY <1>1, <1>7, <1>8, RunsOK

LEMMA MoveHiLoOK == CoreInv /\ MoveHiLo => CoreInv'
<1> SUFFICES ASSUME CoreInv, MoveHiLo PROVE CoreInv'
  OBVIOUS
<1>1. /\ mem' = mem /\ Retire(pc) /\ pc \in Int
      /\ hi \in WordSet /\ lo \in WordSet /\ regs \in [Regs -> WordSet]
  BY SignedInt DEF CoreInv, MachineTypes, MoveHiLo, Proceed
<1>2. /\ pc' \in WordSet /\ exl' \in BOOLEAN /\ epc' \in WordSet
      /\ cause' \in [code : Codes \cup {"none"}, addr : WordSet]
  BY <1>1, RetireTypes
<1>3. CASE Runs({"MFHI"}) /\ Set(Instr.d, hi) /\ UNCHANGED <<hi, lo>>
  BY <1>1, <1>2, <1>3, SetTypes, RunsOK
<1>4. CASE Runs({"MFLO"}) /\ Set(Instr.d, lo) /\ UNCHANGED <<hi, lo>>
  BY <1>1, <1>2, <1>4, SetTypes, RunsOK
<1>5. CASE Runs({"MTHI"}) /\ hi' = S /\ UNCHANGED <<regs, lo>>
  <2>1. S \in WordSet
    BY <1>1, <1>5, RunsKeeps, Operands
  <2> QED BY <1>1, <1>2, <1>5, <2>1, RunsOK
<1>6. CASE Runs({"MTLO"}) /\ lo' = S /\ UNCHANGED <<regs, hi>>
  <2>1. S \in WordSet
    BY <1>1, <1>6, RunsKeeps, Operands
  <2> QED BY <1>1, <1>2, <1>6, <2>1, RunsOK
<1> QED BY <1>3, <1>4, <1>5, <1>6 DEF MoveHiLo

LEMMA BranchOK == CoreInv /\ Branch => CoreInv'
<1> SUFFICES ASSUME CoreInv, Branch PROVE CoreInv'
  OBVIOUS
<1>1. PICK addr : addr = IF Taken(S, T)[Instr.op] THEN pc + 4 * Imm ELSE pc
  OBVIOUS
<1>2. /\ Runs(BranchOps) /\ mem' = mem /\ Retire(addr) /\ regs' \in [Regs -> WordSet]
      /\ hi' \in WordSet /\ lo' \in WordSet
  BY <1>1 DEF CoreInv, MachineTypes, Branch
<1>3. Imm \in Int /\ pc \in Int
  BY <1>2, RunsKeeps, Operands
<1>4. addr \in Int
  BY <1>1, <1>3
<1>5. /\ pc' \in WordSet /\ exl' \in BOOLEAN /\ epc' \in WordSet
      /\ cause' \in [code : Codes \cup {"none"}, addr : WordSet]
  BY <1>2, <1>4, RetireTypes
<1> QED BY <1>2, <1>5, RunsOK

LEMMA JumpOK == CoreInv /\ Jump => CoreInv'
<1> SUFFICES ASSUME CoreInv, Jump PROVE CoreInv'
  OBVIOUS
<1>1. /\ mem' = mem /\ hi' \in WordSet /\ lo' \in WordSet
      /\ regs \in [Regs -> WordSet] /\ pc \in Int
  BY SignedInt DEF CoreInv, MachineTypes, Jump
<1>2. Word(pc + 4) \in WordSet
  BY <1>1, WordOf
<1>3. SUFFICES ASSUME NEW ops, Runs(ops), NEW addr \in Int, Retire(addr),
                      regs' \in [Regs -> WordSet]
               PROVE  CoreInv'
  <2>1. CASE Runs({"J"}) /\ Retire(Imm) /\ UNCHANGED regs
    BY <1>1, <1>3, <2>1, RunsKeeps, Operands
  <2>2. CASE Runs({"JAL"}) /\ Set(RA, Word(pc + 4)) /\ Retire(Imm)
    BY <1>1, <1>2, <1>3, <2>2, RunsKeeps, Operands, SetTypes
  <2>3. CASE Runs({"JR"}) /\ Retire(S - 4) /\ UNCHANGED regs
    <3>1. S - 4 \in Int
      BY <1>1, <2>3, RunsKeeps, Operands
    <3> QED BY <1>1, <1>3, <2>3, <3>1
  <2>4. CASE /\ Runs({"JALR"}) /\ Set(Instr.d, Word(pc + 4))
             /\ Retire(regs'[Instr.s] - 4)
    <3>1. regs' \in [Regs -> WordSet]
      BY <1>2, <2>4, SetTypes
    <3>2. Instr.s \in Regs
      BY <1>1, <2>4, RunsKeeps, Operands
    <3>3. regs'[Instr.s] - 4 \in Int
      BY <3>1, <3>2, SignedInt
    <3> QED BY <1>3, <2>4, <3>1, <3>3
  <2> QED BY <2>1, <2>2, <2>3, <2>4 DEF Jump
<1>4. /\ pc' \in WordSet /\ exl' \in BOOLEAN /\ epc' \in WordSet
      /\ cause' \in [code : Codes \cup {"none"}, addr : WordSet]
  BY <1>3, RetireTypes
<1> QED BY <1>1, <1>3, <1>4, RunsOK

LEMMA MissOK == CoreInv /\ (AccessMiss \/ AccessUnaligned) => CoreInv'
<1> SUFFICES ASSUME CoreInv, AccessMiss PROVE CoreInv'
  BY AbortOK DEF AccessUnaligned
<1>1. /\ Runs(LoadOps \cup StoreOps)
      /\ mem' = mem /\ hi' \in WordSet /\ lo' \in WordSet /\ regs' \in [Regs -> WordSet]
  BY DEF CoreInv, MachineTypes, AccessMiss
<1>2. PICK c : c = IF Instr.op \in LoadOps THEN "TLB_L" ELSE "TLB_S"
  OBVIOUS
<1>3. c \in Codes /\ Raise(c, Address) /\ Address \in WordSet
  BY <1>2, CoreAssumption DEF AccessMiss, Codes
<1>4. /\ pc' \in WordSet /\ exl' \in BOOLEAN /\ epc' \in WordSet
      /\ cause' \in [code : Codes \cup {"none"}, addr : WordSet]
  BY <1>3, RaiseTypes
<1> QED BY <1>1, <1>4, RunsOK

LEMMA AddressWord ==
  ASSUME CoreInv, Instr \in Instructions
  PROVE  Address \in WordSet
<1>1. S + Imm \in Int
  BY Operands
<1> QED BY <1>1, WordOf DEF Address

LEMMA LoadOK == CoreInv /\ Load => CoreInv'
<1> SUFFICES ASSUME CoreInv, Load PROVE CoreInv'
  OBVIOUS
<1>1. /\ Runs(LoadOps) /\ Retire(pc) /\ pc \in Int
      /\ mem' = mem /\ hi' \in WordSet /\ lo' \in WordSet /\ mem \in Memories
  BY SignedInt DEF CoreInv, MachineTypes, Load, Proceed
<1>2. Instr \in Instructions /\ Instr.op \in LoadOps
  BY <1>1, RunsKeeps
<1>3. PICK w : w = Loaded(Instr.op, ReadBytes(mem, Address, Bytes))
  OBVIOUS
<1>4. w \in WordSet
  BY <1>1, <1>2, <1>3, AddressWord, LoadedWords DEF Load, Bytes
<1>5. regs' \in [Regs -> WordSet]
  BY <1>3, <1>4, SetTypes DEF Load
<1>6. /\ pc' \in WordSet /\ exl' \in BOOLEAN /\ epc' \in WordSet
      /\ cause' \in [code : Codes \cup {"none"}, addr : WordSet]
  BY <1>1, RetireTypes
<1> QED BY <1>1, <1>5, <1>6, RunsOK

\* A store to text leaves what was decoded before; the word is remembered.
LEMMA StoreOK == CoreInv /\ Store => CoreInv'
<1> SUFFICES ASSUME CoreInv, Store PROVE CoreInv'
  OBVIOUS
<1>1. /\ Fetch(StoreOps) /\ Retire(pc) /\ pc \in Int
      /\ hi' \in WordSet /\ lo' \in WordSet /\ mem \in Memories
      /\ regs' \in [Regs -> WordSet] /\ host' = host /\ code' = code
      /\ host \in {"running", "aborted"} /\ code \in Programs
      /\ Aligned(Address, Bytes)
  BY SignedInt DEF CoreInv, MachineTypes, CacheInv, Store, Proceed
<1>2. PICK f : f = Refreshed
  OBVIOUS
<1>3. /\ Instr \in Instructions /\ Instr.op \in StoreOps
      /\ Mirrors(icache', recent')
      /\ Faithful(icache', code, mem, f) /\ f \subseteq WordSet
  BY <1>1, <1>2, FetchKeeps
<1>11. PICK a \in WordSet, n \in {1, 2, 4}, w \in WordSet :
        a = Address /\ n = Bytes /\ w = T
  <2>1. Bytes \in {1, 2, 4}
    BY <1>3 DEF Bytes, Width, StoreOps
  <2> QED BY <1>3, <2>1, AddressWord, Operands
<1>4. PICK m : a = Address /\ n = Bytes /\ w = T /\ m = Written(mem, a, n, w)
  BY <1>11
<1>5. /\ Aligned(a, n) /\ mem' = m /\ stored' = f \cup {a - (a % 4)}
  BY <1>1, <1>2, <1>4 DEF Store
<1>6. m \in Memories
  BY <1>1, <1>4, BytesWritten
<1>7. a - (a % 4) \in WordSet
  <2>1. a \in 0 .. WordMod - 1 /\ WordMod \in Nat
    BY Sizes DEF WordSet
  <2> QED BY <2>1 DEF WordSet
<1>8. Faithful(icache', code, m, f \cup {a - (a % 4)})
  <2> SUFFICES ASSUME NEW c, c = icache'
               PROVE  Faithful(c, code, m, f \cup {a - (a % 4)})
    OBVIOUS
  <2> SUFFICES ASSUME NEW i \in 1 .. Len(c.storage), c.storage[i].value # NoValue
               PROVE  /\ Aligned(c.storage[i].key, 4)
                      /\ \/ c.storage[i].value = DecodedIn(code, m, c.storage[i].key)
                         \/ c.storage[i].key \in f \cup {a - (a % 4)}
    BY DEF Faithful
  <2>1. PICK key \in WordSet : key = c.storage[i].key
    BY <1>3 DEF Mirrors, CacheEntry
  <2>2. Aligned(key, 4) /\ (c.storage[i].value = DecodedIn(code, mem, key) \/ key \in f)
    BY <1>3, <2>1 DEF Faithful
  <2>3. key # a - (a % 4) => DecodedIn(code, m, key) = DecodedIn(code, mem, key)
    <3>1. key # a - (a % 4) => ReadBytes(m, key, 4) = ReadBytes(mem, key, 4)
      BY <1>1, <1>4, <1>5, <2>2, StoredElsewhere
    <3> QED BY <3>1 DEF DecodedIn
  <2> QED BY <2>1, <2>2, <2>3
<1>9. CacheInv'
  BY <1>1, <1>3, <1>5, <1>7, <1>8 DEF CacheInv
<1>10. /\ pc' \in WordSet /\ exl' \in BOOLEAN /\ epc' \in WordSet
       /\ cause' \in [code : Codes \cup {"none"}, addr : WordSet]
  BY <1>1, RetireTypes
<1> QED BY <1>1, <1>5, <1>6, <1>9, <1>10 DEF CoreInv, MachineTypes

LEMMA SoftTrapOK == CoreInv /\ (SoftTrap \/ NotPrivileged) => CoreInv'
<1> SUFFICES ASSUME CoreInv, SoftTrap \/ NotPrivileged PROVE CoreInv'
  OBVIOUS
<1>1. /\ mem' = mem /\ regs' \in [Regs -> WordSet]
      /\ hi' \in WordSet /\ lo' \in WordSet /\ pc \in Int
  BY SignedInt DEF CoreInv, MachineTypes, SoftTrap, NotPrivileged
<1>2. \E ops : Runs(ops)
  BY DEF SoftTrap, NotPrivileged
<1>3. Retire(pc) \/ \E c \in Codes : Raise(c, 0)
  BY DEF SoftTrap, NotPrivileged, Proceed, Codes
<1>4. /\ pc' \in WordSet /\ exl' \in BOOLEAN /\ epc' \in WordSet
      /\ cause' \in [code : Codes \cup {"none"}, addr : WordSet]
  BY <1>1, <1>3, Words01, RetireTypes, RaiseTypes
<1> QED BY <1>1, <1>2, <1>4, RunsOK

LEMMA MoveCp0OK == CoreInv /\ MoveCp0 => CoreInv'
<1> SUFFICES ASSUME CoreInv, MoveCp0 PROVE CoreInv'
  OBVIOUS
<1>1. /\ mem' = mem /\ hi' \in WordSet /\ lo' \in WordSet /\ pc \in Int
      /\ pc' = Word(pc + 4) /\ cause' \in [code : Codes \cup {"none"}, addr : WordSet]
      /\ regs \in [Regs -> WordSet] /\ exl \in BOOLEAN /\ epc \in WordSet
  BY SignedInt DEF CoreInv, MachineTypes, MoveCp0
<1>2. pc' \in WordSet
  BY <1>1, WordOf
<1>3. CASE /\ Runs({"MFC0"})
           /\ Set(Instr.t, IF Instr.d = 12 THEN 2 * Flag(exl) ELSE epc)
           /\ UNCHANGED <<exl, epc>>
  <2>1. (IF Instr.d = 12 THEN 2 * Flag(exl) ELSE epc) \in WordSet
    BY <1>1, Words01 DEF Flag
  <2> QED BY <1>1, <1>2, <1>3, <2>1, SetTypes, RunsOK
<1>4. CASE /\ Runs({"MTC0"})
           /\ exl' = IF Instr.d = 12 THEN (T \div 2) % 2 = 1 ELSE exl
           /\ epc' = IF Instr.d = 14 THEN T ELSE epc
           /\ UNCHANGED regs
  <2>1. T \in WordSet
    BY <1>1, <1>4, RunsKeeps, Operands
  <2>2. exl' \in BOOLEAN /\ epc' \in WordSet
    BY <1>1, <1>4, <2>1
  <2> QED BY <1>1, <1>2, <1>4, <2>2, RunsOK
<1> QED BY <1>3, <1>4 DEF MoveCp0

LEMMA ReturnFromTrapOK == CoreInv /\ ReturnFromTrap => CoreInv'
<1> SUFFICES ASSUME CoreInv, ReturnFromTrap PROVE CoreInv'
  OBVIOUS
<1>1. /\ mem' = mem /\ regs' \in [Regs -> WordSet]
      /\ hi' \in WordSet /\ lo' \in WordSet /\ pc \in Int /\ epc \in Int
  BY SignedInt DEF CoreInv, MachineTypes, ReturnFromTrap
<1>2. \E ops : Runs(ops)
  BY DEF ReturnFromTrap
<1>3. \E addr \in Int : Retire(addr)
  BY <1>1 DEF ReturnFromTrap, Proceed
<1>4. /\ pc' \in WordSet /\ exl' \in BOOLEAN /\ epc' \in WordSet
      /\ cause' \in [code : Codes \cup {"none"}, addr : WordSet]
  BY <1>3, RetireTypes
<1> QED BY <1>1, <1>2, <1>4, RunsOK

-----------------------------------------------------------------------------
(* Theorems *)

LEMMA CoreInitOK == CoreInit => CoreInv
<1> SUFFICES ASSUME CoreInit PROVE CoreInv
  OBVIOUS
<1>1. MachineTypes
  BY Words01, CoreAssumption DEF CoreInit, MachineTypes, Memories
<1>2. Mirrors(icache, recent)
  BY EmptyMirrors DEF CoreInit
<1>3. Faithful(icache, code, mem, stored)
  BY DEF CoreInit, Faithful, NoEntries
<1> QED BY <1>1, <1>2, <1>3 DEF CoreInit, CoreInv, CacheInv

LEMMA CoreNextOK == CoreInv /\ [CoreNext]_coreVars => CoreInv'
<1>1. CoreInv /\ UNCHANGED coreVars => CoreInv'
  BY DEF CoreInv, MachineTypes, CacheInv, coreVars, cp0
<1>2. CoreInv /\ Arithmetic => CoreInv'
  BY ComputeOK, AddTrappingOK, MultiplyOK, DivideOK, MoveHiLoOK DEF Arithmetic
<1>3. CoreInv /\ Memory => CoreInv'
  BY MissOK, LoadOK, StoreOK DEF Memory
<1>4. CoreInv /\ Control => CoreInv'
  BY BranchOK, JumpOK, SoftTrapOK, MoveCp0OK, ReturnFromTrapOK DEF Control
<1> QED BY <1>1, <1>2, <1>3, <1>4, NoInstructionOK DEF CoreNext, Cycle

\* Registers, memory and what the cache holds stay words, bytes and
\* instructions, whatever the program: no instruction makes more of them than
\* the width of a word.
THEOREM CoreInvariant == CoreSpec => []CoreInv
<1> QED BY CoreInitOK, CoreNextOK, PTL DEF CoreSpec

LEMMA CoreInvTypes == CoreInv => CoreTypeOK
<1> SUFFICES ASSUME CoreInv PROVE CoreTypeOK
  OBVIOUS
<1>1. \A e \in CacheEntries : e.value = NoValue \/ e.value.op \in Ops
  <2> SUFFICES ASSUME NEW i \in DOMAIN icache.storage
               PROVE  LET e == icache.storage[i]
                      IN  e.value = NoValue \/ e.value.op \in Ops
    BY DEF CacheEntries
  <2>1. icache.storage[i] \in CacheEntry
    BY DEF CoreInv, CacheInv, Mirrors
  <2> QED BY <2>1 DEF CacheEntry, Instructions
<1> QED BY <1>1 DEF CoreInv, CacheInv, MachineTypes, Memories, CoreTypeOK

LEMMA CoreInvTransparent == CoreInv => CacheTransparent
<1> SUFFICES ASSUME CoreInv PROVE CacheTransparent
  OBVIOUS
<1> DEFINE n == IF Len(recent) < Capacity THEN Len(recent) ELSE Capacity
<1>1. /\ Mirrors(icache, recent) /\ Faithful(icache, code, mem, stored)
      /\ icache.storage \in Seq(CacheEntry) /\ recent \in Seq(WordSet)
      /\ DOMAIN icache.storage = 1 .. n /\ Len(icache.storage) = n
      /\ n \in Nat /\ n <= Len(recent)
  BY CoreAssumption DEF CoreInv, CacheInv, Mirrors
<1>2. Keys(icache) = SubSeq(recent, 1, n)
  <2>1. Keys(icache) = [i \in 1 .. n |-> recent[i]]
    <3>1. \A i \in 1 .. n : icache.storage[i].key = recent[i]
      BY <1>1 DEF Mirrors
    <3> QED BY <1>1, <3>1 DEF Keys
  <2>2. /\ SubSeq(recent, 1, n) \in Seq(WordSet) /\ Len(SubSeq(recent, 1, n)) = n
        /\ \A i \in 1 .. n : SubSeq(recent, 1, n)[i] = recent[i]
    BY <1>1
  <2>3. /\ DOMAIN SubSeq(recent, 1, n) = 1 .. n
        /\ SubSeq(recent, 1, n)
             = [i \in DOMAIN SubSeq(recent, 1, n) |-> SubSeq(recent, 1, n)[i]]
    BY <2>2
  <2> HIDE DEF n
  <2> QED BY <2>1, <2>2, <2>3
<1>3. icache.tracker = {e.key : e \in CacheEntries}
  <2>1. icache.tracker = {recent[i] : i \in 1 .. n}
    BY <1>1 DEF Mirrors
  <2>2. \A i \in 1 .. n : icache.storage[i].key = recent[i]
    BY <1>1 DEF Mirrors
  <2> HIDE DEF n
  <2>3. CacheEntries = {icache.storage[i] : i \in 1 .. n}
    BY <1>1 DEF CacheEntries
  <2> QED BY <2>1, <2>2, <2>3
<1>4. ASSUME NEW e \in CacheEntries
      PROVE  e.value = NoValue \/ e.value = Decoded(e.key) \/ e.key \in stored
  <2>1. PICK i \in 1 .. Len(icache.storage) : e = icache.storage[i]
    BY <1>1 DEF CacheEntries
  <2> QED BY <2>1, <1>1, DecodedIs DEF Faithful
<1> QED BY <1>2, <1>3, <1>4 DEF CacheTransparent

\* The types of the core, of every program and every width of a byte.
THEOREM CoreTypes == CoreSpec => []CoreTypeOK
<1> QED BY CoreInvariant, CoreInvTypes, PTL

\* The cache of decoded instructions shows what is in memory, but for text
\* that was stored to and not yet flushed, and forgets what was used longest
\* ago.
THEOREM CacheIsTransparent == CoreSpec => []CacheTransparent
<1> QED BY CoreInvariant, CoreInvTransparent, PTL

-----------------------------------------------------------------------------
(* The laws of the instructions *)

\* Half of the words are negative.
LEMMA Halves ==
  /\ WordMod \div 2 \in Nat \ {0} /\ WordMod = 2 * (WordMod \div 2)
  /\ HalfMod \div 2 \in Nat /\ HalfMod \div 2 <= WordMod \div 2
<1>1. PICK k \in Nat : WordMod = 16 * k
  BY Sizes
<1>2. WordMod \in Nat /\ WordMod >= 16 /\ HalfMod \in Nat /\ HalfMod <= WordMod
  BY Sizes
<1> QED BY <1>1, <1>2

LEMMA SignedIs ==
  ASSUME NEW w \in WordSet
  PROVE  /\ Signed(w) \in -(WordMod \div 2) .. WordMod \div 2 - 1
         /\ Negative(w) <=> Signed(w) < 0
         /\ w = IF Negative(w) THEN Signed(w) + WordMod ELSE Signed(w)
         /\ Negative(w) \in BOOLEAN
<1>1. PICK h \in Nat \ {0} : h = WordMod \div 2 /\ WordMod = 2 * h
  BY Halves
<1>2. w \in 0 .. 2 * h - 1
  BY <1>1 DEF WordSet
<1> QED BY <1>1, <1>2 DEF Signed, Negative

\* An int is a word, and back.
LEMMA SignedWord ==
  ASSUME NEW i \in Int, IsInt(i)
  PROVE  Word(i) \in WordSet /\ Signed(Word(i)) = i
<1>1. PICK h \in Nat \ {0} : h = WordMod \div 2 /\ WordMod = 2 * h
  BY Halves
<1>2. -h <= i /\ i < h
  BY <1>1 DEF IsInt
<1>3. Word(i) = IF i >= 0 THEN i ELSE i + 2 * h
  BY <1>1, <1>2, WordNear DEF WordSet
<1>4. Signed(Word(i)) = i
  BY <1>1, <1>2, <1>3 DEF Signed
<1> QED BY <1>4, WordOf

\* Adding two ints leaves the ints if they have the same sign, and their sum
\* as a word another.
LEMMA SumOverflows ==
  ASSUME NEW s \in WordSet, NEW t \in WordSet
  PROVE  /\ LET e == Signed(s) + Signed(t)
            IN  ~IsInt(e) <=> /\ Negative(s) <=> Negative(t)
                              /\ ~(Negative(Word(e)) <=> Negative(s))
         /\ LET e == Signed(s) - Signed(t)
            IN  ~IsInt(e) <=> /\ ~(Negative(s) <=> Negative(t))
                              /\ ~(Negative(Word(e)) <=> Negative(s))
<1>1. PICK h \in Nat \ {0} : h = WordMod \div 2 /\ WordMod = 2 * h
  BY Halves
<1>2. PICK a \in -h .. h - 1, b \in -h .. h - 1 : a = Signed(s) /\ b = Signed(t)
  BY <1>1, SignedIs
<1>3. (Negative(s) <=> a < 0) /\ (Negative(t) <=> b < 0)
  BY <1>2, SignedIs
<1>4. ASSUME NEW e \in -(2 * h) .. 2 * h - 1
      PROVE  /\ Negative(Word(e)) <=> e >= h \/ (-h <= e /\ e < 0)
             /\ IsInt(e) <=> -h <= e /\ e < h
  <2>1. Word(e) = IF e >= 0 THEN e ELSE e + 2 * h
    BY <1>1, WordNear DEF WordSet
  <2> QED BY <1>1, <2>1 DEF Negative, IsInt
<1>5. a + b \in -(2 * h) .. 2 * h - 1 /\ a - b \in -(2 * h) .. 2 * h - 1
  OBVIOUS
<1>6. ~IsInt(a + b) <=> /\ Negative(s) <=> Negative(t)
                        /\ ~(Negative(Word(a + b)) <=> Negative(s))
  BY <1>3, <1>4, <1>5
<1>7. ~IsInt(a - b) <=> /\ ~(Negative(s) <=> Negative(t))
                        /\ ~(Negative(Word(a - b)) <=> Negative(s))
  BY <1>3, <1>4, <1>5
<1> QED BY <1>2, <1>6, <1>7

LEMMA LessIs ==
  ASSUME NEW s \in WordSet, NEW t \in WordSet
  PROVE  Signed(s) < Signed(t)
           <=> ~(Negative(Word(s - t))
                   <=> /\ ~(Negative(s) <=> Negative(t))
                       /\ ~(Negative(Word(s - t)) <=> Negative(s)))
<1>1. PICK h \in Nat \ {0} : h = WordMod \div 2 /\ WordMod = 2 * h
  BY Halves
<1>2. s \in 0 .. 2 * h - 1 /\ t \in 0 .. 2 * h - 1
  BY <1>1 DEF WordSet
<1>3. Word(s - t) = IF s >= t THEN s - t ELSE s - t + 2 * h
  BY <1>1, <1>2, WordNear DEF WordSet
<1> QED BY <1>1, <1>2, <1>3 DEF Signed, Negative

\* HI and LO together hold a product.
LEMMA ProductSplit ==
  ASSUME NEW s \in WordSet, NEW t \in WordSet
  PROVE  /\ LET p == s * t
            IN  Word(p \div WordMod) * WordMod + Word(p) = p
         /\ LET p == Signed(s) * Signed(t)
            IN  Signed(Word(p \div WordMod)) * WordMod + Word(p) = p
<1>1. PICK h \in Nat \ {0} : h = WordMod \div 2 /\ WordMod = 2 * h
  BY Halves
<1>2. ASSUME NEW p \in Int
      PROVE  \E q \in Int, r \in 0 .. 2 * h - 1 :
               q = p \div WordMod /\ r = Word(p) /\ p = 2 * h * q + r
  <2>1. /\ p % WordMod \in 0 .. WordMod - 1 /\ p \div WordMod \in Int
        /\ p = WordMod * (p \div WordMod) + (p % WordMod)
    <3>1. WordMod \in Nat \ {0}
      BY Sizes
    <3> QED BY <3>1, Remainders
  <2> QED BY <2>1, <1>1 DEF Word
<1>3. ASSUME NEW p, p = s * t
      PROVE  Word(p \div WordMod) * WordMod + Word(p) = p
  <2>1. s \in 0 .. 2 * h - 1 /\ t \in 0 .. 2 * h - 1
    BY <1>1 DEF WordSet
  <2>2. p \in Int /\ p >= 0 /\ p <= (2 * h - 1) * (2 * h - 1)
    <3>1. s * t \in Int /\ s * t >= 0
      BY <2>1, Z3
    <3>2. s * t <= s * (2 * h - 1) /\ s * (2 * h - 1) <= (2 * h - 1) * (2 * h - 1)
      BY <2>1, Z3
    <3>3. s * (2 * h - 1) \in Int /\ (2 * h - 1) * (2 * h - 1) \in Int
      BY <2>1, <1>1
    <3> QED BY <1>3, <3>1, <3>2, <3>3
  <2>3. PICK q \in Int, r \in 0 .. 2 * h - 1 :
          q = p \div WordMod /\ r = Word(p) /\ p = 2 * h * q + r
    BY <1>2, <2>2
  <2>4. q >= 0
    <3> SUFFICES ASSUME q <= -1 PROVE FALSE
      BY <2>3
    <3>1. 2 * h * q <= -(2 * h)
      BY Z3
    <3> QED BY <3>1, <2>2, <2>3
  <2>5. q <= 2 * h - 1
    <3> SUFFICES ASSUME q >= 2 * h PROVE FALSE
      BY <2>3
    <3>1. 2 * h * q >= 2 * h * (2 * h)
      BY Z3
    <3>2. (2 * h - 1) * (2 * h - 1) = 2 * h * (2 * h) - 4 * h + 1
      BY Z3
    <3> QED BY <3>1, <3>2, <2>2, <2>3
  <2>6. Word(q) = q
    BY <2>4, <2>5, <1>1, WordNear DEF WordSet
  <2>7. 2 * h * q = q * (2 * h)
    OBVIOUS
  <2> QED BY <2>3, <2>6, <2>7, <1>1
<1>4. ASSUME NEW p, p = Signed(s) * Signed(t)
      PROVE  Signed(Word(p \div WordMod)) * WordMod + Word(p) = p
  <2>1. PICK a \in -h .. h - 1, b \in -h .. h - 1 : a = Signed(s) /\ b = Signed(t)
    BY <1>1, SignedIs
  <2>2. p \in Int /\ -(h * h) <= p /\ p <= h * h
    <3>1. a * b \in Int /\ -(h * h) <= a * b /\ a * b <= h * h
      <4>1. CASE a >= 0
        <5>1. a * b <= a * h /\ -(a * h) <= a * b /\ a * h <= h * h
          BY <4>1, Z3
        <5>2. a * b \in Int /\ a * h \in Int /\ h * h \in Int
          OBVIOUS
        <5> QED BY <5>1, <5>2
      <4>2. CASE a < 0
        <5>1. a * b <= -(a * h) /\ a * h <= a * b /\ -(a * h) <= h * h
          BY <4>2, Z3
        <5>2. a * b \in Int /\ a * h \in Int /\ h * h \in Int
          OBVIOUS
        <5> QED BY <5>1, <5>2
      <4> QED BY <4>1, <4>2
    <3> QED BY <3>1, <2>1, <1>4
  <2>3. PICK q \in Int, r \in 0 .. 2 * h - 1 :
          q = p \div WordMod /\ r = Word(p) /\ p = 2 * h * q + r
    BY <1>2, <2>2
  <2>4. h * h \in Nat /\ h * h >= h
    BY Z3
  <2>5. q < h
    <3> SUFFICES ASSUME q >= h PROVE FALSE
      BY <2>3
    <3>1. 2 * h * q >= 2 * (h * h)
      BY Z3
    <3> QED BY <3>1, <2>2, <2>3, <2>4
  <2>6. q >= -h
    <3> SUFFICES ASSUME q <= -h - 1 PROVE FALSE
      BY <2>3
    <3>1. 2 * h * q <= -(2 * (h * h)) - 2 * h
      BY Z3
    <3> QED BY <3>1, <2>2, <2>3, <2>4
  <2>7. Signed(Word(q)) = q
    BY <2>5, <2>6, <1>1, SignedWord DEF IsInt
  <2>8. 2 * h * q = q * (2 * h)
    OBVIOUS
  <2> QED BY <2>3, <2>7, <2>8, <1>1
<1> QED BY <1>3, <1>4

\* The division of ints cuts towards zero.
LEMMA DivisionIs ==
  ASSUME NEW a \in Int, NEW b \in Int \ {0}
  PROVE  LET q == Truncated(a, b)
             r == Remainder(a, b)
         IN  /\ q \in Int /\ r \in Int
             /\ q * b + r = a
             /\ AbsInt(r) < AbsInt(b)
             /\ a >= 0 => r >= 0
             /\ a < 0 => r <= 0
<1>1. PICK x \in Nat, y \in Nat \ {0} : x = AbsInt(a) /\ y = AbsInt(b)
  <2>1. AbsInt(a) \in Nat /\ AbsInt(b) \in Nat \ {0}
    BY DEF AbsInt
  <2> QED BY <2>1
<1>2. PICK k \in Int, m \in 0 .. y - 1 : k = x \div y /\ x = y * k + m
  <2>1. x % y \in 0 .. y - 1 /\ x \div y \in Int /\ x = y * (x \div y) + (x % y)
    BY Remainders
  <2> QED BY <2>1
<1>3. PICK q \in Int : q = (IF (a < 0) = (b < 0) THEN k ELSE -k)
  OBVIOUS
<1>4. Truncated(a, b) = q
  BY <1>1, <1>2, <1>3 DEF Truncated
<1>5. PICK z \in Int : z = y * k
  OBVIOUS
<1>6. b * q = IF a < 0 THEN -z ELSE z
  <2>1. CASE b > 0
    <3>1. b = y
      BY <2>1, <1>1 DEF AbsInt
    <3>2. q = IF a < 0 THEN -k ELSE k
      BY <2>1, <1>3
    <3>3. y * (-k) = -(y * k)
      OBVIOUS
    <3> QED BY <3>1, <3>2, <3>3, <1>5
  <2>2. CASE b < 0
    <3>1. b = -y
      BY <2>2, <1>1 DEF AbsInt
    <3>2. q = IF a < 0 THEN k ELSE -k
      BY <2>2, <1>3
    <3>3. (-y) * (-k) = y * k /\ (-y) * k = -(y * k)
      OBVIOUS
    <3> QED BY <3>1, <3>2, <3>3, <1>5
  <2> QED BY <2>1, <2>2
<1>7. a = IF a < 0 THEN -x ELSE x
  BY <1>1 DEF AbsInt
<1>8. x = z + m
  BY <1>2, <1>5
<1>9. a - b * q = IF a < 0 THEN -m ELSE m
  BY <1>6, <1>7, <1>8
<1>10. PICK r \in Int : r = a - b * q /\ r = IF a < 0 THEN -m ELSE m
  BY <1>9
<1>11. Remainder(a, b) = r
  BY <1>4, <1>10 DEF Remainder
<1>12. AbsInt(r) = m
  BY <1>10 DEF AbsInt
<1>13. q * b = b * q /\ b * q \in Int
  OBVIOUS
<1> QED BY <1>1, <1>4, <1>10, <1>11, <1>12, <1>13

\* Each operation has one action.
LEMMA AddLaw ==
  ASSUME CoreInv, AddTrapping
  PROVE  Instr.op \in {"ADD", "SUB", "ADDI"} /\ OverflowLaw
<1>1. Runs({"ADD", "SUB", "ADDI"}) /\ Set(Instr.t, Word(Exact)) /\ mem' = mem
  BY DEF AddTrapping
<1>2. Instr \in Instructions /\ Instr.op \in {"ADD", "SUB", "ADDI"}
  BY <1>1, RunsKeeps
<1>3. /\ S \in WordSet /\ T \in WordSet /\ Imm \in Int /\ Instr.t \in Regs
      /\ Signed(S) \in Int /\ Signed(T) \in Int
  BY <1>2, Operands
<1>4. PICK t : t = IF Instr.op = "ADDI" THEN Word(Imm) ELSE T
  OBVIOUS
<1>5. t \in WordSet /\ (Instr.op = "ADDI" => Signed(t) = Imm)
      /\ (Instr.op # "ADDI" => t = T)
  <2>1. CASE Instr.op = "ADDI"
    <3>1. Imm \in -(HalfMod \div 2) .. HalfMod \div 2 - 1
      BY <1>2, <2>1, Operands DEF ShortOps
    <3>2. IsInt(Imm)
      BY <3>1, Halves DEF IsInt
    <3> QED BY <1>3, <1>4, <2>1, <3>2, SignedWord
  <2>2. CASE Instr.op # "ADDI"
    BY <1>3, <1>4, <2>2
  <2> QED BY <2>1, <2>2
<1>6. PICK e : e = Exact
  OBVIOUS
<1>7. /\ Instr.op # "SUB" => e = Signed(S) + Signed(t)
      /\ Instr.op = "SUB" => e = Signed(S) - Signed(t)
  BY <1>2, <1>5, <1>6 DEF Exact, ExactSum
<1>8. regs'[Instr.t] = Word(e)
  <2>1. regs \in [Regs -> WordSet]
    BY DEF CoreInv, MachineTypes
  <2> QED BY <1>1, <1>3, <1>6, <2>1 DEF Set
<1>9. ~IsInt(e) <=> /\ (Negative(S) = Negative(t)) = (Instr.op # "SUB")
                    /\ Negative(regs'[Instr.t]) # Negative(S)
  <2>1. /\ Negative(S) \in BOOLEAN /\ Negative(t) \in BOOLEAN
        /\ Negative(Word(e)) \in BOOLEAN
    BY DEF Negative
  <2>2. CASE Instr.op # "SUB"
    BY <1>3, <1>5, <1>7, <1>8, <2>1, <2>2, SumOverflows
  <2>3. CASE Instr.op = "SUB"
    BY <1>3, <1>5, <1>7, <1>8, <2>1, <2>3, SumOverflows
  <2> QED BY <2>2, <2>3
<1>10. IF IsInt(e) THEN Retire(pc) ELSE Raise("OVERFLOW", 0)
  BY <1>6 DEF AddTrapping, Proceed
<1>11. IF IsInt(e) THEN pc' = Word(pc + 4) /\ UNCHANGED cp0
                   ELSE epc' = pc /\ cause'.code = "OVERFLOW"
  BY <1>10 DEF Retire, Raise
<1> QED BY <1>2, <1>4, <1>9, <1>11 DEF OverflowLaw

LEMMA SetLessLaw ==
  ASSUME CoreInv, Compute, Instr.op = "SLT"
  PROVE  LessLaw
<1>1. mem' = mem
  BY DEF Compute
<1>2. Runs(ComputeOps) /\ Set(Instr.d, Computed(S, T, regs[Instr.d])[Instr.op])
  <2>1. ~Runs(ShiftOps) /\ ~Runs(ImmediateOps)
    BY DEF Runs, Fetch, Fetchable, ShiftOps, ImmediateOps
  <2> QED BY <2>1 DEF Compute
<1>3. Instr \in Instructions
  BY <1>1, <1>2, RunsKeeps
<1>4. S \in WordSet /\ T \in WordSet /\ Instr.d \in Regs
  BY <1>3, Operands DEF Instructions, IsInstruction
<1>5. regs'[Instr.d] = Flag(Signed(S) < Signed(T))
  <2>1. regs \in [Regs -> WordSet]
    BY DEF CoreInv, MachineTypes
  <2>2. Computed(S, T, regs[Instr.d])[Instr.op] = Flag(Signed(S) < Signed(T))
    BY DEF Computed
  <2> QED BY <1>2, <1>4, <2>1, <2>2 DEF Set
<1>6. PICK d : d = Word(S - T)
  OBVIOUS
<1>7. Negative(S) \in BOOLEAN /\ Negative(T) \in BOOLEAN /\ Negative(d) \in BOOLEAN
  BY DEF Negative
<1>8. Signed(S) < Signed(T)
        <=> Negative(d) # (Negative(S) # Negative(T) /\ Negative(d) # Negative(S))
  <2>1. Signed(S) < Signed(T)
          <=> ~(Negative(d) <=> /\ ~(Negative(S) <=> Negative(T))
                                /\ ~(Negative(d) <=> Negative(S)))
    BY <1>4, <1>6, LessIs
  <2>2. CASE Negative(S)
    BY <2>1, <2>2, <1>7
  <2>3. CASE ~Negative(S)
    BY <2>1, <2>3, <1>7
  <2> QED BY <2>2, <2>3
<1> QED BY <1>5, <1>6, <1>8 DEF LessLaw, Flag

LEMMA MultiplyLaw ==
  ASSUME CoreInv, Multiply
  PROVE  Instr.op \in {"MULT", "MULTU"} /\ ProductLaw
<1>1. PICK p : p = Product(S, T)[Instr.op]
  OBVIOUS
<1>2. /\ Runs({"MULT", "MULTU"}) /\ mem' = mem
      /\ hi' = Word(p \div WordMod) /\ lo' = Word(p)
  BY <1>1 DEF Multiply, SetHiLo
<1>3. Instr \in Instructions /\ Instr.op \in {"MULT", "MULTU"}
  BY <1>2, RunsKeeps
<1>4. S \in WordSet /\ T \in WordSet
  BY <1>3, Operands
<1>5. CASE Instr.op = "MULT"
  <2>1. p = Signed(S) * Signed(T)
    BY <1>1, <1>5 DEF Product
  <2>2. Signed(Word(p \div WordMod)) * WordMod + Word(p) = p
    BY <1>4, <2>1, ProductSplit
  <2> QED BY <1>2, <1>5, <2>1, <2>2 DEF ProductLaw
<1>6. CASE Instr.op = "MULTU"
  <2>1. p = S * T
    BY <1>1, <1>6 DEF Product
  <2>2. Word(p \div WordMod) * WordMod + Word(p) = p
    BY <1>4, <2>1, ProductSplit
  <2> QED BY <1>2, <1>6, <2>1, <2>2 DEF ProductLaw
<1> QED BY <1>3, <1>5, <1>6

LEMMA DivideLaw ==
  ASSUME CoreInv, Divide
  PROVE  Instr.op \in {"DIV", "DIVU"} /\ DivisionLaw
<1>1. Runs({"DIV", "DIVU"}) /\ HasQuotient /\ mem' = mem
  BY DEF Divide
<1>2. Instr \in Instructions /\ Instr.op \in {"DIV", "DIVU"}
  BY <1>1, RunsKeeps
<1>3. S \in WordSet /\ T \in WordSet /\ T # 0
  BY <1>1, <1>2, Operands DEF HasQuotient
<1>4. CASE Instr.op = "DIV"
  <2>1. PICK h \in Nat \ {0} : h = WordMod \div 2 /\ WordMod = 2 * h
    BY Halves
  <2>2. PICK a \in -h .. h - 1, b \in -h .. h - 1 : a = Signed(S) /\ b = Signed(T)
    BY <1>3, <2>1, SignedIs
  <2>3. b # 0
    BY <1>3, <2>1, <2>2 DEF WordSet, Signed
  <2>4. PICK q, m : q = Truncated(a, b) /\ m = Remainder(a, b)
    OBVIOUS
  <2>5. /\ q \in Int /\ m \in Int /\ q * b + m = a /\ AbsInt(m) < AbsInt(b)
        /\ (a >= 0 => m >= 0) /\ (a < 0 => m <= 0)
    <3>1. a \in Int /\ b \in Int \ {0}
      BY <2>3
    <3>2. LET x == Truncated(a, b)
              y == Remainder(a, b)
          IN  /\ x \in Int /\ y \in Int /\ x * b + y = a /\ AbsInt(y) < AbsInt(b)
              /\ a >= 0 => y >= 0
              /\ a < 0 => y <= 0
      BY <3>1, DivisionIs
    <3> QED BY <2>4, <3>2
  <2>6. hi' = Word(m) /\ lo' = Word(q) /\ IsInt(q)
    BY <1>1, <1>4, <2>2, <2>4 DEF Divide, SetHiLo, Quotient, HasQuotient
  <2>7. IsInt(m)
    BY <2>1, <2>5 DEF IsInt, AbsInt
  <2>8. Signed(lo') = q /\ Signed(hi') = m /\ hi' \in WordSet
    BY <2>5, <2>6, <2>7, SignedWord
  <2>9. hi' # 0 => (Negative(hi') = Negative(S))
    <3>1. (Negative(hi') <=> m < 0) /\ (Negative(S) <=> a < 0)
      BY <1>3, <2>2, <2>8, SignedIs
    <3>2. hi' # 0 => m # 0
      BY <2>1, <2>8 DEF Signed, WordSet
    <3>3. Negative(hi') \in BOOLEAN /\ Negative(S) \in BOOLEAN
      BY DEF Negative
    <3> QED BY <2>2, <2>5, <3>1, <3>2, <3>3
  <2> QED BY <1>4, <2>2, <2>5, <2>8, <2>9 DEF DivisionLaw
<1>5. CASE Instr.op = "DIVU"
  <2>1. /\ S \in Nat /\ T \in Nat \ {0}
        /\ S \div T \in WordSet /\ S % T \in WordSet
    BY <1>3, SignedInt, QuotientWord
  <2>2. S % T \in 0 .. T - 1 /\ S \div T \in Int /\ S = T * (S \div T) + (S % T)
    BY <2>1, Remainders
  <2>3. hi' = S % T /\ lo' = S \div T
    BY <1>5, <2>1, <2>2, WordNear DEF Divide, SetHiLo
  <2>4. PICK s \in Nat, t \in Nat \ {0}, q \in Int, m \in Nat :
          /\ s = S /\ t = T /\ q = S \div T /\ m = S % T
          /\ s = t * q + m /\ m < t
    BY <2>1, <2>2
  <2>5. q * t + m = s /\ m < t
    BY <2>4
  <2> QED BY <1>5, <2>3, <2>4, <2>5 DEF DivisionLaw
<1> QED BY <1>2, <1>4, <1>5

LEMMA JumpsLaw ==
  ASSUME CoreInv, Jump
  PROVE  Instr.op \in {"J", "JAL", "JR", "JALR"} /\ JumpLaw
<1>1. /\ mem' = mem /\ regs \in [Regs -> WordSet] /\ RA \in Regs
  BY CoreAssumption DEF CoreInv, MachineTypes, Jump
<1>2. ASSUME NEW w \in WordSet, Retire(w - 4) PROVE pc' = w
  <2>1. (w - 4) + 4 = w /\ w \in Int
    BY SignedInt
  <2> QED BY <1>2, <2>1, WordNear DEF Retire
<1>3. CASE Runs({"J"}) /\ Retire(Imm) /\ UNCHANGED regs
  BY <1>1, <1>3, RunsKeeps DEF JumpLaw
<1>4. CASE Runs({"JAL"}) /\ Set(RA, Word(pc + 4)) /\ Retire(Imm)
  <2>1. Instr.op = "JAL" /\ regs'[RA] = Word(pc + 4)
    BY <1>1, <1>4, RunsKeeps DEF Set
  <2> QED BY <2>1 DEF JumpLaw
<1>5. CASE Runs({"JR"}) /\ Retire(S - 4) /\ UNCHANGED regs
  <2>1. Instr.op = "JR" /\ S \in WordSet
    BY <1>1, <1>5, RunsKeeps, Operands
  <2> QED BY <1>2, <1>5, <2>1 DEF JumpLaw
<1>6. CASE /\ Runs({"JALR"}) /\ Set(Instr.d, Word(pc + 4))
           /\ Retire(regs'[Instr.s] - 4)
  <2>1. Instr.op = "JALR" /\ S \in WordSet /\ Instr.s \in Regs
    BY <1>1, <1>6, RunsKeeps, Operands
  <2>2. Instr.s # Instr.d => regs'[Instr.s] = S
    BY <1>1, <1>6, <2>1 DEF Set, S
  <2> QED BY <1>2, <1>6, <2>1, <2>2 DEF JumpLaw
<1> QED BY <1>3, <1>4, <1>5, <1>6 DEF Jump

LEMMA LawHolds ==
  ASSUME CoreInv, [CoreNext]_coreVars, Known \/ (Aligned(pc, 4) /\ pc \notin Paged),
         ~UNCHANGED coreVars
  PROVE  Law
<1> DEFINE laws == {"ADD", "SUB", "ADDI", "SLT", "MULT", "MULTU", "DIV", "DIVU",
                    "J", "JAL", "JR", "JALR"}
<1>1. Cycle
  BY DEF CoreNext
<1>2. SUFFICES ASSUME Instr.op \in laws PROVE Law
  BY DEF Law
<1>3. CASE NoInstruction
  <2>1. Instr.op = "RI"
    BY <1>3 DEF NoInstruction, FetchMiss, FetchUnaligned, Reserved, Instr
  <2> QED BY <2>1, <1>2
<1>4. CASE Compute
  <2>1. Instr.op \in ShiftOps \cup ComputeOps \cup ImmediateOps
    BY <1>4 DEF Compute, Runs, Fetch, Fetchable
  <2>2. Instr.op = "SLT"
    BY <1>2, <2>1 DEF ShiftOps, ComputeOps, ImmediateOps
  <2> QED BY <1>4, <2>2, SetLessLaw DEF Law
<1>5. CASE AddTrapping
  BY <1>5, AddLaw DEF Law
<1>6. CASE Multiply
  BY <1>6, MultiplyLaw DEF Law
<1>7. CASE Divide
  BY <1>7, DivideLaw DEF Law
<1>8. CASE DivideAborts
  <2>1. Instr.op \in {"DIV", "DIVU"} /\ host' = "aborted"
    BY <1>8 DEF DivideAborts, Fetchable, Abort
  <2> QED BY <2>1 DEF Law, DivisionLaw
<1>9. CASE Jump
  BY <1>9, JumpsLaw DEF Law
<1>10. ASSUME NEW ops, Fetchable(ops), ops \cap laws = {} PROVE FALSE
  BY <1>2, <1>10 DEF Fetchable
<1>11. CASE MoveHiLo
  <2>1. \E ops \in SUBSET {"MFHI", "MFLO", "MTHI", "MTLO"} : Fetchable(ops)
    BY <1>11 DEF MoveHiLo, Runs, Fetch
  <2> QED BY <2>1, <1>10
<1>12. CASE Memory
  <2>1. \E ops \in SUBSET (LoadOps \cup StoreOps) : Fetchable(ops)
    BY <1>12 DEF Memory, AccessMiss, AccessUnaligned, Load, Store, Runs, Fetch
  <2> QED BY <2>1, <1>10 DEF LoadOps, StoreOps
<1>13. CASE Branch
  <2>1. Fetchable(BranchOps)
    BY <1>13 DEF Branch, Runs, Fetch
  <2> QED BY <2>1, <1>10 DEF BranchOps
<1>14. CASE SoftTrap
  <2>1. \E ops \in SUBSET {"SYSCALL", "TEQ", "SYNC"} : Fetchable(ops)
    BY <1>14 DEF SoftTrap, Runs, Fetch
  <2> QED BY <2>1, <1>10
<1>15. CASE NotPrivileged \/ MoveCp0 \/ ReturnFromTrap
  <2>1. \E ops \in SUBSET PrivilegedOps : Fetchable(ops)
    BY <1>15 DEF NotPrivileged, MoveCp0, ReturnFromTrap, Runs, Fetch, PrivilegedOps
  <2> QED BY <2>1, <1>10 DEF PrivilegedOps
<1> QED
  BY <1>1, <1>3, <1>4, <1>5, <1>6, <1>7, <1>8, <1>9, <1>11, <1>12, <1>13, <1>14, <1>15
     DEF Cycle, Arithmetic, Control

\* The instructions that lean on casts, on overflow builtins or on the order
\* of assignments compute what algebra says, for words of every width: traps
\* on overflow, signed comparison, the halves of a product, the signs of a
\* division, the targets of jumps.
THEOREM InstructionsAreLawful == CoreSpec => InstructionLaws
<1>1. CoreInv /\ [CoreNext]_coreVars
        => [Known \/ (Aligned(pc, 4) /\ pc \notin Paged) => Law]_coreVars
  BY LawHolds
<1> QED BY <1>1, CoreInvariant, PTL DEF CoreSpec, InstructionLaws

=============================================================================
