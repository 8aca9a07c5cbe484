----------------------------- MODULE KernelTrap -----------------------------
(***************************************************************************)
(* The way into the guest kernel and out of it: the translation buffer     *)
(* (machine/Memory.{h,cpp}, tlbwr), the cycle of the core and the hardware *)
(* part of a trap (machine/Processors.cpp), kernel_trap and run_process    *)
(* (kernel/asmglue.asm), and handleTrap (kernel/trap.cpp) with the traps   *)
(* the kernel itself takes, because its PCBs and page tables lie in a heap *)
(* that is mapped through the TLB.                                         *)
(*                                                                         *)
(* One step is a cycle of user code, or a stretch of kernel code that can  *)
(* trap only at its beginning.  The stretches are numbered by 2, since     *)
(* the kernel computes with the addresses: the odd number below a stretch  *)
(* is the instruction in front of the one that trapped.  User instructions *)
(* are numbered by 1.                                                      *)
(***************************************************************************)
EXTENDS Integers, Sequences, FiniteSets

-----------------------------------------------------------------------------
(* The TLB.  Frames are kept abstract: a frame is named by the address     *)
(* space, the generation of its page table and the page, so that an entry  *)
(* shows which table it was filled from.                                   *)

CONSTANTS NumSlots,    \* TLB_ENTRIES, 64 in the code
          Asids,       \* the address spaces of processes
          KernelAsid,  \* AddressSpace::KERNEL_ASID
          UserPages,   \* pages below STACK_LIMIT
          KernelPages, \* pages of the kernel's heap, above KHEAP_BOUNDARY
          Empty        \* an entry that is not valid

TlbAssumption ==
  /\ NumSlots \in Nat \ {0}
  /\ KernelAsid \notin Asids
  /\ UserPages \cap KernelPages = {}

Slots == 0 .. NumSlots - 1

VARIABLES tlb,    \* tlbEntries
          random, \* the CP0 register RANDOM
          asid    \* the low byte of the CP0 register ENTRYHI

tlbVars == <<tlb, random, asid>>

Entry == [page : UserPages \cup KernelPages, asid : Asids \cup {KernelAsid},
          global : BOOLEAN, gen : Nat]

Matches(e, page, a) == /\ e # Empty
                       /\ e.page = page
                       /\ e.asid = a \/ e.global

Hits(page) == {s \in Slots : Matches(tlb[s], page, asid)}

\* The lookup goes upwards and returns the first entry that matches.
Lookup(page) == tlb[CHOOSE s \in Hits(page) : \A r \in Hits(page) : s <= r]

TlbInit == /\ tlb = [s \in Slots |-> Empty]
           /\ random = 0
           /\ asid \in Asids \cup {KernelAsid}

\* MTC0 to ENTRYHI and ENTRYLO0, then TLBWR: also the ASID of the running
\* code is the one of the entry from here on.
WriteRandom(e) == /\ tlb' = [tlb EXCEPT ![random] = e]
                  /\ random' = (random + 1) % NumSlots
                  /\ asid' = e.asid

TlbTypeOK == /\ tlb \in [Slots -> Entry \cup {Empty}]
             /\ random \in Slots
             /\ asid \in Asids \cup {KernelAsid}

\* Two entries never match the same access.  The handler of a miss writes
\* without a probe and never invalidates, so this rests on every write
\* following a miss, with nothing in between that fills the same page.
NoDuplicateEntries ==
  \A r, s \in Slots :
    r # s /\ tlb[r] # Empty /\ tlb[s] # Empty /\ tlb[r].page = tlb[s].page
      => tlb[r].asid # tlb[s].asid /\ ~tlb[r].global /\ ~tlb[s].global

-----------------------------------------------------------------------------
(* Traps *)

CONSTANTS TextPage,    \* the page of UserPages that user code runs in
          PcbPage,     \* the page of KernelPages that holds the PCBs
          HeapPage,    \* the page with page tables and queue nodes
          StackFrames, \* activations of kernel_trap the kernel stack can hold
          MaxInstr,    \* bound: instructions a process runs
          MaxGen,      \* bound: page tables an address space gets
          NoProc

ASSUME KernelTrapAssumption ==
  /\ TlbAssumption
  /\ TextPage \in UserPages
  /\ KernelPages = {PcbPage, HeapPage}
  /\ NoProc \notin Asids \cup {KernelAsid}
  /\ Asids \subseteq Nat /\ 0 \in Asids
  /\ StackFrames \in Nat /\ MaxInstr \in Nat /\ MaxGen \in Nat \ {0}

VARIABLES
  pc,     \* programCounter: <<mode, number>>
  regs,   \* whose general registers these are: <<owner, generation or depth>>
  epc,    \* CP0 EPC
  ie,     \* CP0 STATUS, bit 0
  exl,    \* CP0 STATUS, bit 1
  trap,   \* CP0 CAUSE and BADVADDR, and the request in $v0
  icache, \* instructionCache: the entries user code was decoded from
  depth,  \* exceptionDepth
  frames, \* the activations of kernel_trap on the kernel stack
  current,\* currentThread, by its address space
  regCtx, \* PCB::regCtx
  gen,    \* how many page tables each address space has had
  queue,  \* MultiLevelQueue::scheduler
  done    \* history: instructions each process has completed

vars == <<tlbVars, pc, regs, epc, ie, exl, trap, icache, depth, frames,
          current, regCtx, gen, queue, done>>

kernelVars == <<depth, frames, current, regCtx, gen, queue>>

-----------------------------------------------------------------------------
(* Addresses and contexts *)

User(n) == <<"user", n>>
Kernel(n) == <<"kernel", n>>
Halted == <<"halted", 0>>

Enter   == 2   \* kernel_trap: save the registers in a frame
Borrow  == 4   \* handleTrap: currentThread->borrow()
Handle  == 6   \* handleTrap: the switch over the cause
Copy    == 8   \* handleTrap: the loop of READ_STRING
Finish  == 10  \* handleTrap: save the context and enqueue, or go back
Save    == 12  \* handleTrap: currentThread->regCtx = *trapCtx
Sched   == 14  \* handleTrap: dequeue
Leave   == 16  \* the destructors of the guards, then kernel_trap
Restore == 18  \* run_process: load the registers
Enable  == 20  \* run_process: set IE
Eret    == 22  \* run_process: eret
Boot    == 24  \* cppmain

Labels == {Enter, Borrow, Handle, Copy, Finish, Save, Sched, Leave, Restore,
           Enable, Eret, Boot}

Back(addr) == <<addr[1], addr[2] - 1>>

Processes == Asids \cup {KernelAsid}
\* What a process asks for.  "plain" are the requests and exceptions that
\* are answered from the frame alone: PRINT_INTEGER, READ_INTEGER, TRAP, and
\* codes handleTrap does not know.
Requests == {"plain", "print", "read", "brk", "exec", "fork", "exit"}

Frame(c, t) == [ctx |-> c, cause |-> t.cause, page |-> t.page, req |-> t.req,
                old |-> NoProc]

Top == frames[Len(frames)]
SetTop(f) == frames' = [frames EXCEPT ![Len(frames)] = f]

At(label) == pc = Kernel(label)

-----------------------------------------------------------------------------
(* The core *)

\* raiseTrap.  addr is the program counter when it is called.
Raise(cause, page, req, addr) ==
  /\ epc' = addr
  /\ exl' = TRUE
  /\ ie' = FALSE
  /\ trap' = [cause |-> cause, page |-> page, req |-> req]
  /\ pc' = Kernel(Enter)

\* The end of a cycle: the device is polled, and it interrupts only if IE was
\* set before the instruction and still is.
Retire(addr, newIE) ==
  \/ /\ pc' = addr /\ ie' = newIE
     /\ UNCHANGED <<epc, exl, trap>>
  \/ ie /\ newIE /\ Raise("INTERRUPT", TextPage, "plain", addr)

\* A cycle that ended in a trap.
Raised == pc' = Kernel(Enter)

Cached(page) == \E e \in icache : e.page = page

Fetched == Cached(TextPage) \/ Hits(TextPage) # {}

Decoded == icache' = IF Cached(TextPage) THEN icache
                                         ELSE icache \cup {Lookup(TextPage)}

InUser == pc[1] = "user" /\ done[current] < MaxInstr

\* The fetch, or a load or store of the instruction, is not in the TLB.
UserMiss ==
  /\ InUser
  /\ \/ ~Fetched /\ Raise("TLB", TextPage, "plain", pc) /\ UNCHANGED icache
     \/ /\ Fetched /\ Decoded
        /\ \E page \in UserPages \ {TextPage} :
             Hits(page) = {} /\ Raise("TLB", page, "plain", pc)
  /\ UNCHANGED <<tlbVars, regs, kernelVars, done>>

UserRetire ==
  /\ InUser /\ Fetched /\ Decoded
  /\ Retire(User(pc[2] + 1), ie)
  /\ done' = [done EXCEPT ![current] = @ + 1]
  /\ UNCHANGED <<tlbVars, regs, kernelVars>>

\* SYSCALL and TRAP raise before the program counter is advanced.
UserSyscall ==
  /\ InUser /\ Fetched /\ Decoded
  /\ \E req \in Requests : /\ req = "fork" => \A a \in Asids : gen[a] < MaxGen
                           /\ Raise("SYSCALL", TextPage, req, pc)
  /\ done' = [done EXCEPT ![current] = @ + 1]
  /\ UNCHANGED <<tlbVars, regs, kernelVars>>

\* A reserved instruction, or an overflow.
UserFault ==
  /\ InUser /\ Fetched /\ Decoded
  /\ Raise("FAULT", TextPage, "plain", pc)
  /\ UNCHANGED <<tlbVars, regs, kernelVars, done>>

-----------------------------------------------------------------------------
(* Kernel code *)

\* The cases of handleTrap that use the PCB and page table of the thread.
WalksTable == \/ Top.cause = "TLB"
              \/ Top.cause = "SYSCALL" /\ Top.req # "plain"

\* The pages of the heap that a stretch of kernel code touches.  The PCB and
\* the page table of the kernel itself are static.
Touches(label) ==
  CASE label \in {Borrow, Save, Leave, Restore} /\ current # KernelAsid -> {PcbPage}
    [] label = Handle /\ Top.old # KernelAsid /\ WalksTable -> {PcbPage, HeapPage}
    [] label = Finish /\ Top.old \in Asids /\ depth = 1 /\ Top.cause # "TLB" -> {PcbPage, HeapPage}
    [] label \in {Sched, Boot} -> {PcbPage, HeapPage}
    [] OTHER -> {}

Mapped(label) == \A page \in Touches(label) : Hits(page) # {}

\* Kernel code runs at a label when it has everything it touches there.
Runs(label) == At(label) /\ Mapped(label)

KernelMiss ==
  /\ \E label \in Labels, page \in KernelPages :
       /\ At(label) /\ page \in Touches(label) /\ Hits(page) = {}
       /\ Raise("TLB", page, "plain", pc)
  /\ UNCHANGED <<tlbVars, regs, icache, kernelVars, done>>

\* A nested trap returned to the instruction before the one that trapped.
Replay ==
  /\ pc[1] = "kernel" /\ pc[2] % 2 = 1
  /\ Retire(Kernel(pc[2] + 1), ie)
  /\ UNCHANGED <<tlbVars, regs, icache, kernelVars, done>>

Goto(label) == Retire(Kernel(label), ie)

Context(addr, r, i) == [pc |-> addr, regs |-> r, ie |-> i]

\* Faulty variant: a nested trap starts at the top of the stack, too.
PushedAtTop(f) == <<f>>

\* kernel_trap: at depth 0 the stack starts at top_kstack.
Pushed(f) == IF depth = 0 THEN <<f>> ELSE Append(frames, f)

\* Beyond StackFrames the stack runs into the data of the kernel.
EnterTrap ==
  /\ At(Enter)
  /\ depth = 0 \/ Len(frames) < StackFrames
  /\ frames' = Pushed(Frame(Context(epc, regs, ie), trap))
  /\ depth' = depth + 1
  /\ regs' = <<KernelAsid, depth + 1>>
  /\ Goto(Borrow)
  /\ UNCHANGED <<tlbVars, icache, current, regCtx, gen, queue, done>>

\* handleTrap takes a guard on the thread that trapped and runs as the kernel.
BorrowThread ==
  /\ Runs(Borrow)
  /\ SetTop([Top EXCEPT !.old = current])
  /\ current' = KernelAsid
  /\ Goto(Handle)
  /\ UNCHANGED <<tlbVars, regs, icache, depth, regCtx, gen, queue, done>>

\* INTERRUPT: the interrupt came after the program counter was advanced.
HandleInterrupt ==
  /\ Runs(Handle) /\ Top.cause = "INTERRUPT"
  /\ SetTop([Top EXCEPT !.ctx.pc = Back(@)])
  /\ Goto(Finish)
  /\ UNCHANGED <<tlbVars, regs, icache, depth, current, regCtx, gen, queue, done>>

\* The page table of the thread that missed: Entry::toTLBEntry of its walk.
Translated(p, page) ==
  [page |-> page, asid |-> p, global |-> p = KernelAsid, gen |-> gen[p]]

\* Faulty variant: the instruction that missed is not repeated.
HandleMissNoRetry ==
  /\ Runs(Handle) /\ Top.cause = "TLB"
  /\ WriteRandom(Translated(Top.old, Top.page))
  /\ Goto(Finish)
  /\ UNCHANGED <<regs, icache, kernelVars, done>>

\* TLB_L and TLB_S.
HandleMiss ==
  /\ Runs(Handle) /\ Top.cause = "TLB"
  /\ WriteRandom(Translated(Top.old, Top.page))
  /\ SetTop([Top EXCEPT !.ctx.pc = Back(@)])
  /\ Goto(Finish)
  /\ UNCHANGED <<regs, icache, depth, current, regCtx, gen, queue, done>>

Syscall(req) == Runs(Handle) /\ Top.cause = "SYSCALL" /\ Top.req = req

\* Requests that leave what is modelled here alone.  PRINT_STRING reads the
\* text through its physical address, BRK adds pages to the page table.
HandlePlain ==
  /\ Syscall("plain") \/ Syscall("print") \/ Syscall("brk")
  /\ Goto(Finish)
  /\ UNCHANGED <<tlbVars, regs, icache, kernelVars, done>>

\* READ_STRING: the kernel goes on as the process, for its misses.
HandleRead ==
  /\ Syscall("read")
  /\ current' = Top.old
  /\ asid' = Top.old
  /\ Goto(Copy)
  /\ UNCHANGED <<tlb, random, regs, icache, depth, frames, regCtx, gen, queue, done>>

\* The loop writes to a page of the process and may miss on each.
CopyString ==
  /\ At(Copy)
  /\ \E page \in UserPages \ {TextPage} :
       IF Hits(page) = {}
         THEN Raise("TLB", page, "plain", pc) /\ UNCHANGED current
         ELSE current' = KernelAsid /\ Goto(Finish)
  /\ UNCHANGED <<tlbVars, regs, icache, depth, frames, regCtx, gen, queue, done>>

\* The context of a process that starts at its entry point.
Start(p) == Context(Back(User(0)), <<p, gen'[p]>>, FALSE)

\* Only processes that are queued, trapped or running have a PCB.
Living == {queue[i] : i \in 1..Len(queue)}
            \cup {frames[i].old : i \in 1..Len(frames)} \cup {current}

FreeAsids == Asids \ Living

\* assert_fail and HALT: the machine stops.
Halt == pc' = Halted /\ UNCHANGED <<tlbVars, regs, epc, ie, exl, trap, icache,
                                   kernelVars, done>>

\* RI and OVERFLOW stop the machine.
HandleFault == Runs(Handle) /\ Top.cause = "FAULT" /\ Halt

\* A PCB that is created takes an ASID, and the constructor asserts one.
NoAsidLeft == (Syscall("exec") \/ Syscall("fork")) /\ FreeAsids = {} /\ Halt

\* EXEC: the page table and the context of a process created for the file,
\* which gives its own ASID back.  Nothing changes if the file is no program.
HandleExec ==
  /\ Syscall("exec") /\ FreeAsids # {}
  /\ \/ /\ gen[Top.old] < MaxGen
        /\ gen' = [gen EXCEPT ![Top.old] = @ + 1]
        /\ SetTop([Top EXCEPT !.ctx = Start(Top.old)])
        /\ done' = [done EXCEPT ![Top.old] = 0]
     \/ UNCHANGED <<gen, frames, done>>
  /\ Goto(Finish)
  /\ UNCHANGED <<tlbVars, regs, icache, depth, current, regCtx, queue>>

\* FORK: the child gets the context of the parent and the lowest free ASID.
HandleFork ==
  /\ Syscall("fork")
  /\ \E child \in FreeAsids :
       /\ \A a \in FreeAsids : child <= a
       /\ gen' = [gen EXCEPT ![child] = @ + 1]
       /\ regCtx' = [regCtx EXCEPT ![child] =
                       [Top.ctx EXCEPT !.regs = <<child, gen'[child]>>]]
       /\ queue' = Append(queue, child)
       /\ done' = [done EXCEPT ![child] = done[Top.old]]
  /\ Goto(Finish)
  /\ UNCHANGED <<tlbVars, regs, icache, depth, frames, current>>

\* EXIT, and a BRK out of range: the guard held the last reference to the PCB.
HandleExit ==
  /\ Syscall("exit") \/ Syscall("brk")
  /\ SetTop([Top EXCEPT !.old = NoProc])
  /\ Goto(Finish)
  /\ UNCHANGED <<tlbVars, regs, icache, depth, current, regCtx, gen, queue, done>>

\* Back to the code that trapped, without scheduling.
TailReturn ==
  /\ Runs(Finish) /\ Top.old # NoProc
  /\ depth > 1 \/ Top.cause = "TLB"
  /\ current' = Top.old
  /\ Goto(Save)
  /\ UNCHANGED <<tlbVars, regs, icache, depth, frames, regCtx, gen, queue, done>>

\* The context of the frame becomes the one run_process is going to load.
SaveContext ==
  /\ Runs(Save)
  /\ regCtx' = [regCtx EXCEPT ![current] = Top.ctx]
  /\ Goto(Leave)
  /\ UNCHANGED <<tlbVars, regs, icache, depth, frames, current, gen, queue, done>>

\* A process leaves the processor: its context is saved and it is queued.
TailEnqueue ==
  /\ Runs(Finish)
  /\ IF Top.old = NoProc
       THEN UNCHANGED <<regCtx, queue>>
       ELSE /\ depth = 1 /\ Top.cause # "TLB"
            /\ regCtx' = [regCtx EXCEPT ![Top.old] = Top.ctx]
            /\ queue' = Append(queue, Top.old)
  /\ Goto(Sched)
  /\ UNCHANGED <<tlbVars, regs, icache, depth, frames, current, gen, done>>

\* Faulty variant: the instruction cache is kept.
ScheduleKeepCache ==
  /\ Runs(Sched) /\ queue # << >>
  /\ queue' = SubSeq(queue, 2, Len(queue))
  /\ current' = Head(queue)
  /\ asid' = Head(queue)
  /\ Goto(Leave)
  /\ UNCHANGED <<tlb, random, regs, icache, depth, frames, regCtx, gen, done>>

\* The rest of handleTrap: Halt without a process to run, otherwise the
\* instruction cache is cleared and the next process becomes current.
Schedule ==
  /\ Runs(Sched)
  /\ IF queue = << >>
       THEN /\ pc' = Halted
            /\ UNCHANGED <<epc, ie, exl, trap, queue, current, asid, icache>>
       ELSE /\ icache' = {}
            /\ queue' = SubSeq(queue, 2, Len(queue))
            /\ current' = Head(queue)
            /\ asid' = Head(queue)
            /\ Goto(Leave)
  /\ UNCHANGED <<tlb, random, regs, depth, frames, regCtx, gen, done>>

\* The end of kernel_trap: unwind the stack, exceptionDepth - 1.
LeaveTrap ==
  /\ Runs(Leave)
  /\ depth' = depth - 1
  /\ frames' = SubSeq(frames, 1, Len(frames) - 1)
  /\ Goto(Restore)
  /\ UNCHANGED <<tlbVars, regs, icache, current, regCtx, gen, queue, done>>

\* run_process loads the context of currentThread.  A nested return jumps to
\* the saved address itself (jr), the other one goes on with eret.
RestoreContext ==
  /\ Runs(Restore)
  /\ LET c == regCtx[current]
     IN  /\ regs' = c.regs
         /\ epc' = c.pc
         /\ ie' = c.ie
         /\ pc' = IF depth > 0 THEN c.pc ELSE Kernel(Enable)
  /\ exl' = TRUE
  /\ UNCHANGED <<tlbVars, trap, icache, kernelVars, done>>

\* The last mtc0 of run_process: no interrupt on the instruction itself.
EnableInterrupts ==
  /\ At(Enable)
  /\ Retire(Kernel(Eret), TRUE)
  /\ UNCHANGED <<tlbVars, regs, icache, kernelVars, done>>

\* eret leaves EXL alone; the cycle then advances the program counter.
ReturnToUser ==
  /\ At(Eret)
  /\ Retire(<<epc[1], epc[2] + 1>>, ie)
  /\ UNCHANGED <<tlbVars, regs, icache, kernelVars, done>>

\* cppmain creates the first process and makes it the current thread.
BootKernel ==
  /\ Runs(Boot)
  /\ current' = 0
  /\ asid' = 0
  /\ depth' = depth - 1
  /\ gen' = [gen EXCEPT ![0] = @ + 1]
  /\ regCtx' = [regCtx EXCEPT ![0] = Start(0)]
  /\ Goto(Restore)
  /\ UNCHANGED <<tlb, random, regs, icache, frames, queue, done>>

-----------------------------------------------------------------------------

TrapInit ==
  /\ TlbInit /\ asid = 0
  /\ pc = Kernel(Boot)
  /\ regs = <<KernelAsid, 1>>
  /\ epc = Kernel(Boot)
  /\ ie = FALSE /\ exl = TRUE
  /\ trap = [cause |-> "none", page |-> PcbPage, req |-> "plain"]
  /\ icache = {}
  /\ depth = 1
  /\ frames = << >>
  /\ current = KernelAsid
  /\ regCtx = [p \in Processes |-> Context(Kernel(Boot), <<KernelAsid, 1>>, FALSE)]
  /\ gen = [p \in Processes |-> 0]
  /\ queue = << >>
  /\ done = [p \in Processes |-> 0]

UserStep == UserMiss \/ UserRetire \/ UserSyscall \/ UserFault

Dispatch == \/ HandleInterrupt \/ HandleMiss \/ HandlePlain \/ HandleRead
            \/ CopyString \/ NoAsidLeft \/ HandleExec \/ HandleFork
            \/ HandleExit \/ HandleFault

KernelStep == \/ KernelMiss \/ Replay \/ EnterTrap \/ BorrowThread \/ Dispatch
              \/ TailReturn \/ SaveContext \/ TailEnqueue \/ Schedule
              \/ LeaveTrap \/ RestoreContext \/ EnableInterrupts
              \/ ReturnToUser \/ BootKernel

Next == UserStep \/ KernelStep

Spec == TrapInit /\ [][Next]_vars

\* The machine keeps cycling as long as there is an instruction to execute, and
\* the device does not interrupt at every single eret.
FairSpec == Spec /\ WF_vars(Next) /\ SF_vars(ReturnToUser /\ ~Raised)

-----------------------------------------------------------------------------
(* Properties *)

Address == ({"user"} \X (-1 .. MaxInstr)) \cup ({"kernel"} \X (0 .. Boot)) \cup {Halted}
Registers == (Asids \X (0 .. MaxGen))
               \cup ({KernelAsid} \X (0 .. StackFrames + 1))
Contexts == [pc : Address, regs : Registers, ie : BOOLEAN]
Causes == {"TLB", "SYSCALL", "FAULT", "INTERRUPT"}

\* Every variable has its type.
TypeOK ==
  /\ TlbTypeOK
  /\ pc \in Address /\ epc \in Address
  /\ regs \in Registers
  /\ ie \in BOOLEAN /\ exl \in BOOLEAN
  /\ trap \in [cause : Causes \cup {"none"}, page : UserPages \cup KernelPages,
               req : Requests]
  /\ icache \subseteq Entry
  /\ depth \in 0 .. StackFrames + 1
  /\ frames \in Seq([ctx : Contexts, cause : Causes, page : UserPages \cup KernelPages,
                     req : Requests, old : Processes \cup {NoProc}])
  /\ current \in Processes
  /\ regCtx \in [Processes -> Contexts]
  /\ gen \in [Processes -> 0 .. MaxGen]
  /\ queue \in Seq(Asids)
  /\ done \in [Processes -> 0 .. MaxInstr]

InUserMode == pc[1] = "user"

\* Traps, nested traps and interrupts bring a process back to its next
\* instruction: when the processor is in user code, it is exactly behind
\* the last instruction the process completed, with its own registers and in
\* its own address space.  The -4 of handleTrap on the EPC and the +4 of the
\* cycle cancel out.
UserResumes ==
  InUserMode => /\ depth = 0
                /\ current \in Asids
                /\ pc = User(done[current])
                /\ regs = <<current, gen[current]>>
                /\ asid = current

\* cppmain is still running: it is an activation without a frame.
Booting == gen[0] = 0

\* Between entry and exit the kernel runs with the registers of its innermost
\* activation, and each frame holds those of the activation below it: nested
\* traps neither overwrite a frame that is still needed, as they would if they
\* started at the top of the stack again, nor lose registers on the way back.
KernelContinues ==
  pc[1] = "kernel" /\ pc[2] > Enter /\ pc[2] < Restore =>
    /\ regs = <<KernelAsid, depth>>
    /\ depth = Len(frames) + (IF Booting THEN 1 ELSE 0)
    /\ \A i \in 1..Len(frames) :
         IF i = 1 /\ ~Booting
           THEN frames[i].ctx.regs[1] \in Asids
           ELSE frames[i].ctx.regs = <<KernelAsid, depth - Len(frames) + i - 1>>

\* Only user code is interrupted: IE is clear from the trap until the mtc0
\* before eret, and the cycle wants it set before and after the instruction.
InterruptsOnlyInUser ==
  /\ \A i \in 1..Len(frames) :
       frames[i].cause = "INTERRUPT" => i = 1 /\ frames[i].ctx.regs[1] \in Asids
  /\ At(Enter) /\ trap.cause = "INTERRUPT" => depth = 0 /\ epc[1] = "user"

\* Nested traps keep the activations of the kernel apart, and nothing
\* interrupts them.
KernelUndisturbed == TypeOK /\ KernelContinues /\ InterruptsOnlyInUser

\* User code runs from frames that were filled for its own process, through
\* the TLB and through the cache of decoded instructions, which has no ASIDs
\* and is cleared by handleTrap at every change of process.
UserReachesOwnFrames ==
  InUserMode =>
    \A e \in icache \cup {Lookup(page) : page \in {q \in UserPages : Hits(q) # {}}} :
       e.asid = current

\* Addresses of a process lead to its own frames, by one TLB entry.
AddressesSeparated == UserReachesOwnFrames /\ NoDuplicateEntries

\* Process.cpp:54, of exec: "make a new process and take it's page table".
\* The process runs from the frames of that table from then on.
ExecReplacesFrames ==
  InUserMode =>
    \A e \in icache \cup {Lookup(page) : page \in {q \in UserPages : Hits(q) # {}}} :
       e.gen = gen[current]

\* The TLB has replaced the page of the PCBs while a process is current.
PcbLost == Hits(PcbPage) = {} /\ current \in Asids

\* A trap ends, with all the traps nested in it: user code runs again or the
\* machine halts.  The kernel's own misses need only static memory, so they do
\* not nest further.  The one exception: if the PCB page is replaced while a
\* process is current, borrow() misses in every activation.
TrapEnded == InUserMode \/ pc = Halted \/ PcbLost

=============================================================================
