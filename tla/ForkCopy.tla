------------------------------ MODULE ForkCopy ------------------------------
(***************************************************************************)
(* What the frames of ProcessManager hold: the page of a program that was  *)
(* written there.  createProcess writes the pages of an image and the      *)
(* constructor of HashPageTable that fork uses copies frames, 4096 ints    *)
(* for each page.  Writes of user code are left out: they reach the frames *)
(* of its own pages only (UserReachesOwnFrames in KernelTrap).             *)
(***************************************************************************)
EXTENDS ProcessManager

CONSTANT PagesCopied \* 4096 ints are 4 pages of 4096 bytes

VARIABLE content

Nothing == HeapPages \* no page of a program

Loaded(table) ==
  [f \in Frames |-> IF f \in FramesOf(table)
                      THEN CHOOSE p \in DOMAIN table : table[p] = f
                      ELSE content[f]]

\* dst[i] = src[i] in ascending order; behind the last frame is memory of the
\* host.
CopyFrame(c, src, dst, i) ==
  IF dst + i \notin Frames THEN c
  ELSE [c EXCEPT ![dst + i] = IF src + i \in Frames THEN c[src + i] ELSE Nothing]

CopyPage(c, src, dst) ==
  FoldLeft(LAMBDA d, n : CopyFrame(d, src, dst, n - 1), c,
           [n \in 1..PagesCopied |-> n])

\* The pages in the order in which their frames are reserved.
PageOrder(table) ==
  [n \in 1 .. Cardinality(DOMAIN table) |->
     CHOOSE p \in DOMAIN table : Rank(p, DOMAIN table) = n - 1]

Contents(table, child) ==
  FoldLeft(LAMBDA c, p : CopyPage(c, table[p], child[p]), content,
           PageOrder(table))

CopyInit ==
  /\ Init
  /\ content = [f \in Frames |->
                  IF f \in frames
                    THEN CHOOSE p \in DOMAIN Proc(0).table :
                           Proc(0).table[p] = f
                    ELSE Nothing]

ForkCopies == Fork /\ content' = Contents(Me.table, Copied(Me.table))

ExecLoads == ExecCreate /\ content' = Loaded(processes'[newborn' + 1].table)

KeepsMemory ==
  /\ \/ UserStep \/ OtherSyscall \/ Exit \/ BrkSyscall \/ ForkFails
     \/ ExecNoFile \/ ExecBadFile \/ ExecFails \/ ExecTake \/ LeaveTrap
  /\ UNCHANGED content

CopyNext == status = "up" /\ (ForkCopies \/ ExecLoads \/ KeepsMemory)

CopySpec == CopyInit /\ [][CopyNext]_<<vars, content>>

-----------------------------------------------------------------------------

\* Process.cpp:275: fork "copies the page's underlying memory", so each page
\* of the child holds what that of the parent does, and a frame that some
\* process has already is not changed.
Parent == Me.table
Child == processes'[NextPid + 1].table

ForkCopiesPages ==
  [][Fork => /\ \A p \in DOMAIN Parent : content'[Child[p]] = content[Parent[p]]
             /\ \A f \in frames : content'[f] = content[f]]_<<vars, content>>

=============================================================================
