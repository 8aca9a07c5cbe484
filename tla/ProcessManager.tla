--------------------------- MODULE ProcessManager ---------------------------
(***************************************************************************)
(* Processes of the guest kernel: ProcessManager, PCB and its Guards,      *)
(* AddressSpace (ASIDs, brk), MemoryManager (frames), HashPageTable and    *)
(* MultiLevelQueue, driven by handleTrap (kernel/trap.cpp).                *)
(*                                                                         *)
(* There is one core and the kernel is not interrupted, so the steps of    *)
(* handleTrap follow one another; what the properties relate is the state  *)
(* that many traps of many processes leave behind.  TLB misses of the      *)
(* kernel itself are not modelled here.                                    *)
(***************************************************************************)
EXTENDS Integers, Sequences, SequencesExt, FiniteSets

CONSTANTS NumFrames, \* frames above kernelReservedBoundary
          NumAsids,  \* 255 in the code
          MaxImage,  \* bound: pages of text, data and stack of a program
          HeapPages, \* pages between BRK_DEFAULT and HEAP_LIMIT
          FirstBrk   \* values the uninitialised brk of a new PCB may have

ASSUME ProcessManagerAssumption ==
         /\ NumFrames \in Nat
         /\ NumAsids \in Nat
         /\ MaxImage \in Nat \ {0}
         /\ HeapPages \in Nat
         /\ FirstBrk \subseteq Nat

Frames == 0 .. NumFrames - 1
Asids == 0 .. NumAsids - 1

\* Virtual pages: the image of a program below 0, its heap from 0 on.
Image(n) == -n .. -1
Heap == 0 .. HeapPages - 1
Pages == Image(MaxImage) \cup Heap

NoPid == -1 \* NOPCBEXISTS

VARIABLES
  processes, \* the PCB of each PID, or Empty (a null unique_ptr)
  freePids,  \* the stack of reusable PIDs
  queue,     \* MultiLevelQueue: levels[0], as priority stays 0
  asids,     \* AddressSpace::reservedASIDs
  frames,    \* MemoryManager::reservedPages
  lost,      \* history: frames reserved for a page that was mapped already
  current,   \* PID of the process in user mode, or of Guard oldThread
  newborn,   \* PID of Guard newProc during exec
  step,      \* user, syscall, exec, tail
  status     \* up, or why the machine stopped

tableVars == <<asids, frames, lost>>
vars == <<processes, freePids, queue, tableVars, current, newborn, step,
          status>>

-----------------------------------------------------------------------------
(* The vector of processes *)

Empty == [table |-> << >>, asid |-> -1, brk |-> 0, granted |-> 0,
          refcount |-> 0, used |-> FALSE]

Pids == 0 .. Len(processes) - 1
Proc(pid) == processes[pid + 1]
Live == {pid \in Pids : Proc(pid).used}

WithProc(pid, pcb) == [processes EXCEPT ![pid + 1] = pcb]

\* The PID the next process gets: back() of freePids, else the end.
NextPid == IF freePids = << >> THEN Len(processes) ELSE Last(freePids)

FreePidsTaken == IF freePids = << >> THEN freePids ELSE Front(freePids)

Placed(procs, pcb) ==
  IF freePids = << >> THEN Append(procs, pcb)
                      ELSE [procs EXCEPT ![NextPid + 1] = pcb]

\* freeProcess: the last slot is popped, another one is reset and listed.
IsLast(pid) == pid = Len(processes) - 1

\* Faulty variant: the slot is erased, which shifts the later ones.
RemovedErased(procs, pid) == RemoveAt(procs, pid + 1)

Removed(procs, pid) ==
  IF IsLast(pid) THEN Front(procs) ELSE [procs EXCEPT ![pid + 1] = Empty]

FreePidsListed(pid) ==
  IF IsLast(pid) THEN freePids ELSE Append(freePids, pid)

-----------------------------------------------------------------------------
(* Frames, page tables and address spaces *)

FreeFrames == Frames \ frames

Rank(x, S) == Cardinality({y \in S : y < x})

\* reserveFrame takes the lowest free frame, once for each page in order.
Allocated(pages) ==
  [p \in pages |-> CHOOSE f \in FreeFrames :
                     Rank(f, FreeFrames) = Rank(p, pages)]

Enough(pages) == Cardinality(pages) <= Cardinality(FreeFrames)

FramesOf(table) == {table[p] : p \in DOMAIN table}

\* AddressSpace takes the lowest free ASID.
NextAsid == CHOOSE a \in Asids \ asids : \A b \in Asids \ asids : a <= b

\* What `new PCB` makes.  brk is not initialised by any constructor.
NewPcb(table, brk, granted) ==
  [table |-> table, asid |-> NextAsid, brk |-> brk, granted |-> granted,
   refcount |-> 0, used |-> TRUE]

Stop(why) == /\ status' = why
             /\ UNCHANGED <<processes, freePids, queue, tableVars, current,
                            newborn, step>>

\* A new page table does not find its frames, or the address space its ASID.
Exhausted(pages) ==
  \/ ~Enough(pages) /\ Stop("noFrame")
  \/ Enough(pages) /\ asids = Asids /\ Stop("noAsid")

CanMake(pages) == Enough(pages) /\ asids # Asids

-----------------------------------------------------------------------------
(* MultiLevelQueue *)

\* Faulty variant: the process is put before the others.
QueuedFirst(pid) == << pid >> \o queue

Queued(pid) == Append(queue, pid)

\* Faulty variant: dequeue reads the front and does not pop it.
PoppedKept(q) == q

Popped(q) == Tail(q)

-----------------------------------------------------------------------------
(* Boot and traps *)

\* cppmain has created the shell and returns to run_process.
Init ==
  \E n \in 1..MaxImage, b \in FirstBrk :
    /\ n <= NumFrames /\ NumAsids > 0
    /\ processes = << [table |-> [p \in Image(n) |-> p + n], asid |-> 0,
                       brk |-> b, granted |-> 0, refcount |-> 0, used |-> TRUE] >>
    /\ freePids = << >>
    /\ queue = << >>
    /\ asids = {0}
    /\ frames = 0 .. n - 1
    /\ lost = {}
    /\ current = 0
    /\ newborn = NoPid
    /\ step = "user"
    /\ status = "up"

Me == Proc(current)

\* handleTrap begins with Guard oldThread = currentThread->borrow().
Borrow == processes' = WithProc(current, [Me EXCEPT !.refcount = @ + 1])

Trap(cause) ==
  /\ step = "user"
  /\ Borrow
  /\ step' = cause
  /\ UNCHANGED <<freePids, queue, tableVars, current, newborn, status>>

Syscall == Trap("syscall")
Interrupt == Trap("tail") \* INTERRUPT and the default case

\* TLB_L and TLB_S on a page of the image or of the heap that brk granted:
\* writeRandom and return, or the assertion in translate.
TlbMiss ==
  /\ step = "user"
  /\ \E p \in 0 .. Me.granted - 1 : p \notin DOMAIN Me.table
  /\ Stop("unmapped")

\* RI and OVERFLOW.
Fault == step = "user" /\ Stop("faulted")

\* The syscalls that only read or write registers, the terminal or memory.
OtherSyscall ==
  /\ step = "syscall"
  /\ step' = "tail"
  /\ UNCHANGED <<processes, freePids, queue, tableVars, current, newborn,
                 status>>

-----------------------------------------------------------------------------
(* EXIT, and BRK with a bad address *)

AsidsWithout(pid) == asids \ {Proc(pid).asid}

FramesWithout(pid) == frames \ FramesOf(Proc(pid).table)

\* markForDeath and oldThread.reset(): the last Guard frees the process (and
\* there is no other one, see RefcountIsGuards).
Kill ==
  /\ Me.refcount = 1
  /\ processes' = Removed(processes, current)
  /\ freePids' = FreePidsListed(current)
  /\ asids' = AsidsWithout(current)
  /\ frames' = FramesWithout(current)
  /\ current' = NoPid
  /\ step' = "tail"
  /\ UNCHANGED <<queue, lost, newborn, status>>

Exit == step = "syscall" /\ Kill

-----------------------------------------------------------------------------
(* BRK: AddressSpace::updateBrk *)

BadBrk == step = "syscall" /\ Kill

\* The heap does not have to grow, or believes so.
BrkBelow ==
  /\ step = "syscall"
  /\ \E b \in 1..HeapPages :
       /\ b <= Me.brk
       /\ processes' = WithProc(current, [Me EXCEPT !.granted = IF @ < b THEN b
                                                               ELSE @])
  /\ step' = "tail"
  /\ UNCHANGED <<freePids, queue, tableVars, current, newborn, status>>

\* mapPTE: emplace keeps the frame of a page that is mapped.
Grown(table, new) ==
  [p \in DOMAIN table \cup DOMAIN new |-> IF p \in DOMAIN table THEN table[p]
                                                                 ELSE new[p]]

BrkGrows ==
  /\ step = "syscall"
  /\ \E b \in 1..HeapPages :
       LET pages == Me.brk .. b - 1
           new == Allocated(pages)
       IN  /\ b > Me.brk
           /\ Enough(pages)
           /\ processes' = WithProc(current,
                [Me EXCEPT !.table = Grown(@, new), !.brk = b, !.granted = b])
           /\ frames' = frames \cup FramesOf(new)
           /\ lost' = lost \cup {new[p] : p \in pages \cap DOMAIN Me.table}
  /\ step' = "tail"
  /\ UNCHANGED <<freePids, queue, asids, current, newborn, status>>

BrkFails ==
  /\ step = "syscall"
  /\ \E b \in 1..HeapPages : b > Me.brk /\ ~Enough(Me.brk .. b - 1)
  /\ Stop("noFrame")

-----------------------------------------------------------------------------
(* FORK *)

\* Faulty variant: the child shares the frames.
CopiedShared(table) == table

\* HashPageTable(getIterator()): a frame of its own for every page.
Copied(table) == Allocated(DOMAIN table)

Fork ==
  /\ step = "syscall"
  /\ CanMake(DOMAIN Me.table)
  /\ \E b \in FirstBrk :
       processes' = Placed(processes, NewPcb(Copied(Me.table), b, Me.granted))
  /\ freePids' = FreePidsTaken
  /\ asids' = asids \cup {NextAsid}
  /\ frames' = frames \cup FramesOf(Allocated(DOMAIN Me.table))
  /\ queue' = Queued(NextPid)
  /\ step' = "tail"
  /\ UNCHANGED <<lost, current, newborn, status>>

ForkFails == step = "syscall" /\ Exhausted(DOMAIN Me.table)

-----------------------------------------------------------------------------
(* EXEC *)

\* The file cannot be opened: OpenFile::OpenFile asserts in the host.
ExecNoFile == step = "syscall" /\ Stop("hostAbort")

\* createProcess fails before it allocates, or afterwards and frees again.
ExecBadFile == OtherSyscall

\* createProcess succeeds; exec borrows the new process.
ExecCreate ==
  /\ step = "syscall"
  /\ \E n \in 1..MaxImage, b \in FirstBrk :
       /\ CanMake(Image(n))
       /\ processes' = Placed(processes,
            [NewPcb(Allocated(Image(n)), b, 0) EXCEPT !.refcount = 1])
       /\ frames' = frames \cup FramesOf(Allocated(Image(n)))
  /\ freePids' = FreePidsTaken
  /\ asids' = asids \cup {NextAsid}
  /\ newborn' = NextPid
  /\ step' = "exec"
  /\ UNCHANGED <<queue, lost, current, status>>

ExecFails == step = "syscall" /\ \E n \in 1..MaxImage : Exhausted(Image(n))

\* Faulty variant: the assignment does not delete the old page table.
FramesAfterExecLeaked == frames

FramesAfterExec == frames \ FramesOf(Me.table)

\* The page table moves over (brk and the ASID do not); the new process,
\* left without one, is marked and freed by its Guard.
ExecTake ==
  /\ step = "exec"
  /\ processes' = Removed(WithProc(current,
        [Me EXCEPT !.table = Proc(newborn).table, !.granted = 0]), newborn)
  /\ freePids' = FreePidsListed(newborn)
  /\ asids' = AsidsWithout(newborn)
  /\ frames' = FramesAfterExec
  /\ newborn' = NoPid
  /\ step' = "tail"
  /\ UNCHANGED <<queue, lost, current, status>>

-----------------------------------------------------------------------------
(* The end of handleTrap *)

\* oldThread is valid: it is queued and its Guard goes, the head runs.
Reschedule ==
  /\ step = "tail"
  /\ current # NoPid
  /\ processes' = WithProc(current, [Me EXCEPT !.refcount = @ - 1])
  /\ current' = Head(Queued(current))
  /\ queue' = Popped(Queued(current))
  /\ step' = "user"
  /\ UNCHANGED <<freePids, tableVars, newborn, status>>

\* oldThread was killed.
RunNext ==
  /\ step = "tail"
  /\ current = NoPid
  /\ queue # << >>
  /\ current' = Head(queue)
  /\ queue' = Popped(queue)
  /\ step' = "user"
  /\ UNCHANGED <<processes, freePids, tableVars, newborn, status>>

HaltEmpty ==
  /\ step = "tail"
  /\ current = NoPid
  /\ queue = << >>
  /\ Stop("halted")

-----------------------------------------------------------------------------

UserStep == Syscall \/ Interrupt \/ TlbMiss \/ Fault
BrkSyscall == BadBrk \/ BrkBelow \/ BrkGrows \/ BrkFails
ForkSyscall == Fork \/ ForkFails
ExecSyscall == ExecNoFile \/ ExecBadFile \/ ExecCreate \/ ExecFails \/ ExecTake
LeaveTrap == Reschedule \/ RunNext \/ HaltEmpty

Next == /\ status = "up"
        /\ \/ UserStep
           \/ OtherSyscall \/ Exit \/ BrkSyscall \/ ForkSyscall \/ ExecSyscall
           \/ LeaveTrap

Spec == Init /\ [][Next]_vars

-----------------------------------------------------------------------------
(* Correctness *)

IsTable(table) == /\ DOMAIN table \subseteq Pages
                  /\ \A p \in DOMAIN table : table[p] \in Frames

IsPcb(pcb) == /\ IsTable(pcb.table)
              /\ pcb.asid \in Asids
              /\ pcb.brk \in Nat
              /\ pcb.granted \in 0..HeapPages
              /\ pcb.refcount \in 0..1
              /\ pcb.used

TypeOK ==
  /\ \A pid \in Pids : Proc(pid) = Empty \/ IsPcb(Proc(pid))
  /\ freePids \in Seq(Pids)
  /\ queue \in Seq(Pids)
  /\ asids \subseteq Asids
  /\ frames \subseteq Frames
  /\ lost \subseteq frames
  /\ current \in Pids \cup {NoPid}
  /\ newborn \in Pids \cup {NoPid}
  /\ step \in {"user", "syscall", "exec", "tail"}
  /\ status \in {"up", "halted", "faulted", "unmapped", "noFrame", "noAsid",
                 "hostAbort"}

\* Processes do not share memory: a frame is mapped by one page of one page
\* table, whatever fork copied, exec moved and exit gave back.
FramesExclusive ==
  \A i, j \in Live :
    \A p \in DOMAIN Proc(i).table, q \in DOMAIN Proc(j).table :
      Proc(i).table[p] = Proc(j).table[q] => i = j /\ p = q

\* The bitset of MemoryManager is exact: reserved are the frames of the page
\* tables and those that mapPTE lost (it keeps the old frame of a page that a
\* forked heap had already, since brk is not inherited).
Mapped == UNION {FramesOf(Proc(pid).table) : pid \in Live}

FrameAccounting == frames = Mapped \cup lost /\ Mapped \cap lost = {}

\* Two processes never have the same ASID, and none is leaked.
AsidsExact ==
  /\ \A i, j \in Live : Proc(i).asid = Proc(j).asid => i = j
  /\ asids = {Proc(pid).asid : pid \in Live}

\* freePids is exactly the stack of null slots, so that forkProcess and
\* createProcess (which peeks at it first) never overwrite a process.
FreePidsExact ==
  /\ ToSet(freePids) = Pids \ Live
  /\ \A i, j \in 1..Len(freePids) : freePids[i] = freePids[j] => i = j

\* refcount counts the Guards in existence (Process.cpp:300), so that the
\* assertion of freeProcess holds and nothing borrowed is freed.
RefcountIsGuards ==
  \A pid \in Live :
    Proc(pid).refcount =
      IF step # "user" /\ pid \in {current, newborn} THEN 1 ELSE 0

\* Frames, ASIDs and PIDs: whatever sequence of create, fork, exec, brk and
\* exit has run, what is marked as taken is what the processes have.
ResourcesExact ==
  TypeOK /\ FrameAccounting /\ AsidsExact /\ FreePidsExact /\ RefcountIsGuards

\* A process is running, or once in the queue (or the one exec is taking
\* apart): none is lost or scheduled twice, and no queued PID is stale.
InQueue == ToSet(queue)

ScheduledOnce ==
  /\ \A i, j \in 1..Len(queue) : queue[i] = queue[j] => i = j
  /\ Live = InQueue \cup ({current, newborn} \ {NoPid})
  /\ current \notin InQueue /\ newborn \notin InQueue \cup ({current} \ {NoPid})

\* A trap of one process leaves the memory, the ASID and the PID of every
\* other one alone.
OthersUntouched ==
  [][\A pid \in Live \ {current, newborn} :
       /\ pid + 1 \in DOMAIN processes'
       /\ processes'[pid + 1] = Proc(pid)]_vars

\* The queue is first in, first out: nobody is overtaken.
NoOvertaking ==
  [][\A i \in 1..Len(queue) :
       \/ i = 1 /\ current' = queue[1]
       \/ \E j \in 1..i : j \in DOMAIN queue' /\ queue'[j] = queue[i]]_vars

\* VirtualMemory.cpp:172 asserts that a page is mapped; the process only uses
\* addresses that BRK accepted.
GrantedIsMapped == status # "unmapped"

=============================================================================
