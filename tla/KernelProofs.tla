---------------------------- MODULE KernelProofs ----------------------------
(***************************************************************************)
(* The safety properties of KernelTrap, for any number of processes, slots *)
(* of the TLB and activations of kernel_trap.  They say how things are     *)
(* when user code runs; Inv adds how far each activation on the stack has  *)
(* come, and what its frame is to hold by then.                            *)
(*                                                                         *)
(* There is one way out: when the page of the PCBs is lost while a process *)
(* is current, borrow() misses in every activation and no trap ends.  What *)
(* Inv says of the activations is said for the other states only.          *)
(*                                                                         *)
(* The last part is about WallClock, the interrupt device of the machine.  *)
(***************************************************************************)
EXTENDS KernelTrap, WallClock, SequenceTheorems, WellFoundedInduction, TLAPS

\* Stretches of the kernel that a trap is taken in and that go on after it.
Suspending == {Handle, Copy, Finish, Sched, Boot}

\* cppmain is an activation without a frame.
Base == IF Booting THEN 1 ELSE 0

Depth == Len(frames)

\* The frame that a trap of user code pushed; there is one below all others.
OfUser(i) == i = 1 /\ ~Booting

\* Who took the trap of the frame: the registers of the process are in the
\* frame below all others, while the kernel misses on its own pages as itself
\* and on those of a process in READ_STRING.
Trapper(i) == IF OfUser(i) \/ frames[i].page \in UserPages
                THEN frames[1].ctx.regs[1] ELSE KernelAsid

Queued(p) == \E i \in 1..Len(queue) : queue[i] = p

\* The context a process is to be resumed with.
Resumed(p) == Context(User(done[p] - 1), <<p, gen[p]>>, FALSE)

\* Where a process is when it traps: behind the instructions it completed,
\* or on a system call, which counts as one of them.
TrapPc(p, cause) == User(IF cause = "SYSCALL" THEN done[p] - 1 ELSE done[p])

\* The TLB has no entry for the page.
NoEntry(page, a) ==
  \A s \in Slots : tlb[s] # Empty => ~(tlb[s].page = page /\ tlb[s].asid = a)

HasPcb == \E s \in Slots : tlb[s] # Empty /\ tlb[s].page = PcbPage

-----------------------------------------------------------------------------
(* The inductive invariant *)

\* Pages of the kernel have entries for every address space, and only they.
TlbInv ==
  /\ \A s \in Slots : tlb[s] # Empty =>
       /\ tlb[s].page \in KernelPages <=> tlb[s].asid = KernelAsid
       /\ tlb[s].global <=> tlb[s].asid = KernelAsid
  /\ \A r, s \in Slots :
       r # s /\ tlb[r] # Empty /\ tlb[s] # Empty /\ tlb[r].page = tlb[s].page
         => tlb[r].asid # tlb[s].asid

\* Each frame has the registers of the activation below it.
StackInv ==
  /\ depth = Depth + Base
  /\ \A i \in 1..Depth :
       /\ frames[i].ctx.ie = FALSE
       /\ OfUser(i) => /\ frames[i].ctx.regs[1] \in Asids
                       /\ frames[i].ctx.regs[2] = gen[frames[i].ctx.regs[1]]
       /\ ~OfUser(i) => /\ frames[i].cause = "TLB"
                        /\ frames[i].ctx.regs = <<KernelAsid, i - 1 + Base>>

\* Processes that wait have the context they are to go on with.
QueueInv ==
  /\ \A i, j \in 1..Len(queue) : queue[i] = queue[j] => i = j
  /\ \A i \in 1..Len(queue) : regCtx[queue[i]] = Resumed(queue[i])
  /\ Booting => queue = << >> /\ done[0] = 0

\* The cache is that of the process that trapped, or of the one that is next.
CacheInv ==
  /\ Booting => icache = {}
  /\ \A e \in icache : e.asid = IF Depth > 0 THEN frames[1].ctx.regs[1]
                                             ELSE current

\* A stretch of the kernel other than those at both ends of a trap.
Inside == {Borrow, Handle, Copy, Finish, Save, Sched, Leave, Boot}

\* The kernel runs with the registers of the innermost activation.
RunInv ==
  /\ pc[1] \in {"user", "kernel", "halted"}
  /\ pc[1] = "kernel" =>
       /\ \/ pc[2] \in Labels
          \/ \E r \in Suspending : pc[2] = r - 1
       /\ pc[2] # Eret => ie = FALSE
       /\ pc[2] \in Inside \/ pc[2] % 2 = 1 => depth > 0
       /\ (pc[2] \in Inside \cup {Enter} \/ pc[2] % 2 = 1) /\ depth > 0
            => regs = <<KernelAsid, depth>>
       /\ pc[2] = Enter /\ depth > 0 => trap.cause = "TLB"

\* What a frame holds when its activation is at stage r of handleTrap.
UserFrame(i, r) ==
  LET f == frames[i]
      p == f.ctx.regs[1]
  IN  /\ r # Boot
      /\ r \notin {Sched, Leave} => ~Queued(p)
      /\ r = Borrow => f.old = NoProc
      /\ r \in {Handle, Copy, Save} => f.old = p
      /\ r = Finish => f.old \in {p, NoProc}
      /\ r \in {Borrow, Handle} =>
           /\ f.ctx.pc = TrapPc(p, f.cause)
           /\ f.cause = "TLB" => f.page \in UserPages /\ NoEntry(f.page, p)
           /\ f.cause = "SYSCALL" /\ f.req = "fork" => \A a \in Asids : gen[a] < MaxGen
      /\ r \in {Copy, Finish, Save} /\ f.old = p => f.ctx.pc = User(done[p] - 1)
      /\ r = Copy => f.cause = "SYSCALL"

KernelFrame(i, r) ==
  LET f == frames[i]
      p == Trapper(i)
  IN  /\ r \in {Borrow, Handle, Finish, Save, Leave}
      /\ f.old = IF r = Borrow THEN NoProc ELSE p
      /\ r \in {Borrow, Handle} => NoEntry(f.page, p)
      /\ \E t \in Suspending :
           /\ f.ctx.pc = IF r \in {Borrow, Handle} THEN Kernel(t)
                                                   ELSE Back(Kernel(t))
           /\ t = Copy <=> f.page \in UserPages
           /\ t = Boot <=> i = 1
      /\ f.page \in UserPages => i = 2 /\ ~Booting

FrameAt(i, r) == IF OfUser(i) THEN UserFrame(i, r) ELSE KernelFrame(i, r)

\* The frames below others: their activations have come to where the next
\* frame says they are, and are those of a process.
BelowInv ==
  \A i \in 1..(Depth - 1), r \in Suspending :
    frames[i + 1].ctx.pc \in {Kernel(r), Back(Kernel(r))} =>
      /\ FrameAt(i, r)
      /\ Trapper(i) \in Asids
      /\ r = Finish => frames[i].cause # "TLB"

\* The innermost activation is at stage r.
Stage(r) ==
  /\ r = Boot <=> Depth = 0
  /\ r \in {Handle, Finish, Sched, Boot} => current = KernelAsid
  /\ Depth > 0 =>
       /\ FrameAt(Depth, r)
       /\ r \in {Borrow, Copy, Save} => current = Trapper(Depth)
       /\ /\ r \in {Copy, Save} \/ (r = Finish /\ frames[Depth].cause = "TLB")
          /\ Trapper(Depth) \in Asids
          => asid = Trapper(Depth)

\* A process is about to be loaded, and can be.
Ready ==
  /\ current \in Asids
  /\ ~Queued(current)
  /\ asid = current
  /\ HasPcb
  /\ regCtx[current] = Resumed(current)

\* A process runs, or has just run.
Loaded ==
  /\ current \in Asids
  /\ ~Queued(current)
  /\ asid = current
  /\ regs = <<current, gen[current]>>

Entering ==
  IF depth = 0
    THEN /\ Loaded
         /\ trap.cause \in Causes
         /\ epc = TrapPc(current, trap.cause)
         /\ trap.cause = "TLB" => /\ trap.page \in UserPages
                                  /\ NoEntry(trap.page, current)
         /\ trap.cause = "SYSCALL" /\ trap.req = "fork" =>
              \A a \in Asids : gen[a] < MaxGen
    ELSE \E r \in Suspending :
           /\ epc = Kernel(r)
           /\ Stage(r)
           /\ Depth > 0 => Trapper(Depth) \in Asids
           /\ r = Finish => frames[Depth].cause # "TLB"
           /\ NoEntry(trap.page, current)
           /\ IF r = Copy THEN trap.page \in UserPages
                          ELSE trap.page \in KernelPages

\* The trap ends: of a process by the choice of handleTrap, of the kernel
\* where it was.
Leaving ==
  IF OfUser(Depth) THEN Ready /\ \A e \in icache : e.asid = current
  ELSE /\ Stage(Leave)
       /\ current = Trapper(Depth)
       /\ regCtx[current] = frames[Depth].ctx
       /\ current \in Asids => asid = current /\ HasPcb

Restoring ==
  IF depth = 0 THEN Ready
  ELSE /\ current \in Asids => asid = current /\ HasPcb
       /\ \E r \in Suspending :
            /\ regCtx[current] = Context(Back(Kernel(r)), <<KernelAsid, depth>>, FALSE)
            /\ Stage(r)

\* Where the processor is.
PointInv ==
  /\ pc[1] = "user" => depth = 0 /\ Loaded /\ pc = User(done[current])
  /\ \A r \in Inside \ {Leave} : At(r) => Stage(r)
  /\ \A r \in Suspending : pc = Back(Kernel(r)) => Stage(r)
  /\ At(Enter) => Entering
  /\ At(Leave) => Leaving
  /\ At(Restore) => Restoring
  /\ At(Enable) \/ At(Eret) =>
       depth = 0 /\ Loaded /\ epc = User(done[current] - 1)

\* borrow() misses, in this activation and in every one above it.
Doomed ==
  /\ At(Enter) \/ At(Borrow) \/ At(Save)
  /\ depth > 0
  /\ current \in Asids
  /\ ~HasPcb

Inv ==
  /\ TypeOK
  /\ TlbInv
  /\ StackInv
  /\ RunInv
  /\ QueueInv
  /\ CacheInv
  /\ ~Doomed => BelowInv /\ PointInv

-----------------------------------------------------------------------------
(* Types *)

Frames == [ctx : Contexts, cause : Causes, page : UserPages \cup KernelPages,
           req : Requests, old : Processes \cup {NoProc}]

LEMMA AddressTypes ==
  /\ \A n \in -1..MaxInstr : User(n) \in Address
  /\ \A l \in Labels : Kernel(l) \in Address
  /\ \A r \in Suspending : Back(Kernel(r)) \in Address
  /\ Halted \in Address
BY DEF Address, User, Kernel, Back, Halted, Labels, Suspending, Boot, Enter,
       Borrow, Handle, Copy, Finish, Save, Sched, Leave, Restore, Enable, Eret

LEMMA RegisterTypes ==
  /\ \A p \in Asids, g \in 0..MaxGen : <<p, g>> \in Registers
  /\ \A d \in 0..(StackFrames + 1) : <<KernelAsid, d>> \in Registers
BY DEF Registers

LEMMA ContextType ==
  ASSUME NEW a \in Address, NEW r \in Registers, NEW i \in BOOLEAN
  PROVE  Context(a, r, i) \in Contexts
BY DEF Context, Contexts

LEMMA InitInv == TrapInit => Inv
<1> SUFFICES ASSUME TrapInit PROVE Inv
  OBVIOUS
<1> USE KernelTrapAssumption DEF TrapInit, TlbInit
<1>1. TypeOK
  <2>1. TlbTypeOK
    BY DEF TlbTypeOK, KernelTrapAssumption, TlbAssumption, Slots
  <2>2. Kernel(Boot) \in Address /\ <<KernelAsid, 1>> \in Registers
    BY AddressTypes, RegisterTypes DEF Labels, KernelTrapAssumption
  <2>3. Context(Kernel(Boot), <<KernelAsid, 1>>, FALSE) \in Contexts
    BY <2>2, ContextType
  <2> QED
    BY <2>1, <2>2, <2>3
       DEF TypeOK, KernelTrapAssumption, Processes, Requests
<1>2. TlbInv /\ StackInv /\ QueueInv /\ CacheInv
  BY DEF TlbInv, StackInv, QueueInv, CacheInv, Depth, Base, Booting,
     KernelTrapAssumption, Processes
<1>3. RunInv
  BY DEF RunInv, Kernel, Boot, Labels, Suspending, Inside, Eret, Enter
<1>4. BelowInv
  BY DEF BelowInv, Depth
<1>5. PointInv
  BY DEF PointInv, Kernel, Back, Stage, Depth, At, Inside, Suspending, Boot,
     Enter, Borrow, Handle, Copy, Finish, Save, Sched, Leave, Restore, Enable,
     Eret
<1> QED
  BY <1>1, <1>2, <1>3, <1>4, <1>5 DEF Inv

-----------------------------------------------------------------------------
(* The TLB *)

LEMMA PcbHits ==
  ASSUME TypeOK, TlbInv
  PROVE  Hits(PcbPage) # {} <=> HasPcb
<1>1. PcbPage \in KernelPages
  BY KernelTrapAssumption DEF KernelTrapAssumption
<1> QED
  BY <1>1 DEF TlbInv, Hits, Matches, HasPcb

LEMMA Missing ==
  ASSUME TlbInv, NEW page, Hits(page) = {}
  PROVE  /\ NoEntry(page, asid)
         /\ page \in KernelPages => \A a : NoEntry(page, a)
<1>1. \A s \in Slots : tlb[s] # Empty /\ tlb[s].page = page =>
        tlb[s].asid # asid /\ ~tlb[s].global
  BY DEF Hits, Matches
<1>2. NoEntry(page, asid)
  BY <1>1 DEF NoEntry
<1>3. ASSUME page \in KernelPages, NEW s \in Slots, tlb[s] # Empty
      PROVE  tlb[s].page # page
  BY <1>1, <1>3 DEF TlbInv
<1> QED
  BY <1>2, <1>3 DEF NoEntry

LEMMA LeastSlot ==
  ASSUME NEW S \in SUBSET Slots, S # {}
  PROVE  \E s \in S : \A r \in S : s <= r
<1> DEFINE R == OpToRel(<, Nat)
<1>1. IsWellFoundedOn(R, Nat)
  BY NatLessThanWellFounded
<1>2. S \subseteq Nat
  BY DEF Slots
<1>3. PICK s \in S : \A r \in S : <<r, s>> \notin R
  BY <1>1, <1>2, WFMin
<1>4. \A r \in S : ~(r < s)
  BY <1>2, <1>3 DEF OpToRel
<1> QED
  BY <1>2, <1>4

\* The TLB answers with an entry of the address space that asks.
LEMMA Found ==
  ASSUME TypeOK, TlbInv, NEW page \in UserPages, Hits(page) # {}
  PROVE  Lookup(page) \in Entry /\ Lookup(page).asid = asid
<1> DEFINE s == CHOOSE s \in Hits(page) : \A r \in Hits(page) : s <= r
<1>1. s \in Hits(page)
  BY LeastSlot DEF Hits
<1>2. s \in Slots /\ tlb[s] # Empty /\ tlb[s].page = page
      /\ (tlb[s].asid = asid \/ tlb[s].global)
  BY <1>1 DEF Hits, Matches
<1>3. tlb[s].asid # KernelAsid
  BY <1>2, KernelTrapAssumption DEF TlbInv, KernelTrapAssumption, TlbAssumption
<1> QED
  BY <1>2, <1>3 DEF Lookup, TlbInv, TypeOK, TlbTypeOK

-----------------------------------------------------------------------------
(* What a step leaves alone *)

LEMMA TlbSame == ASSUME TlbInv, UNCHANGED tlb PROVE TlbInv'
BY DEF TlbInv

LEMMA StackSame ==
  ASSUME StackInv, UNCHANGED <<depth, frames, gen>>
  PROVE  StackInv'
BY DEF StackInv, Depth, Base, Booting, OfUser

LEMMA QueueSame ==
  ASSUME QueueInv, UNCHANGED <<queue, regCtx, gen, done>>
  PROVE  QueueInv'
<1>1. queue' = queue /\ regCtx' = regCtx /\ done' = done
  OBVIOUS
<1>2. Booting' <=> Booting
  BY DEF Booting
<1>3. \A p : Resumed(p)' = Resumed(p)
  BY DEF Resumed
<1> QED BY <1>1, <1>2, <1>3 DEF QueueInv

LEMMA FrameSame ==
  ASSUME UNCHANGED <<tlb, frames, gen, queue, done>>, NEW i, NEW r
  PROVE  /\ FrameAt(i, r)' <=> FrameAt(i, r)
         /\ Trapper(i)' = Trapper(i)
         /\ Depth' = Depth /\ (OfUser(i)' <=> OfUser(i))
BY DEF FrameAt, UserFrame, KernelFrame, Trapper, OfUser, Booting, Queued,
       TrapPc, NoEntry, Depth

LEMMA BelowSame ==
  ASSUME BelowInv, UNCHANGED <<tlb, frames, gen, queue, done>>
  PROVE  BelowInv'
<1>1. Depth' = Depth /\ \A i : frames'[i] = frames[i]
  BY DEF Depth
<1> QED
  BY <1>1, FrameSame DEF BelowInv

-----------------------------------------------------------------------------
(* Where a step leads *)

LEMMA ToStage ==
  ASSUME NEW l \in Inside \ {Leave}, pc' = Kernel(l), ie' = FALSE,
         depth' > 0, regs' = <<KernelAsid, depth'>>
  PROVE  RunInv' /\ (Stage(l)' => PointInv')
BY DEF RunInv, PointInv, Inside, Suspending, Labels, At, Kernel, Back, User,
       Enter, Borrow, Handle, Copy, Finish, Save, Sched, Leave, Restore,
       Enable, Eret, Boot

LEMMA ToBack ==
  ASSUME NEW r \in Suspending, pc' = Back(Kernel(r)), ie' = FALSE,
         depth' > 0, regs' = <<KernelAsid, depth'>>, Stage(r)'
  PROVE  RunInv' /\ PointInv'
BY DEF RunInv, PointInv, Inside, Suspending, Labels, At, Kernel, Back, User,
       Enter, Borrow, Handle, Copy, Finish, Save, Sched, Leave, Restore,
       Enable, Eret, Boot

LEMMA ToEnter ==
  ASSUME pc' = Kernel(Enter), ie' = FALSE,
         depth' > 0 => regs' = <<KernelAsid, depth'>> /\ trap'.cause = "TLB"
  PROVE  RunInv' /\ (Entering' => PointInv')
BY DEF RunInv, PointInv, Inside, Suspending, Labels, At, Kernel, Back, User,
       Enter, Borrow, Handle, Copy, Finish, Save, Sched, Leave, Restore,
       Enable, Eret, Boot

LEMMA ToLeave ==
  ASSUME pc' = Kernel(Leave), ie' = FALSE, Leaving',
         depth' > 0, regs' = <<KernelAsid, depth'>>
  PROVE  RunInv' /\ PointInv'
BY DEF RunInv, PointInv, Inside, Suspending, Labels, At, Kernel, Back, User,
       Enter, Borrow, Handle, Copy, Finish, Save, Sched, Leave, Restore,
       Enable, Eret, Boot

LEMMA ToRestore ==
  ASSUME pc' = Kernel(Restore), ie' = FALSE, Restoring'
  PROVE  RunInv' /\ PointInv'
BY DEF RunInv, PointInv, Inside, Suspending, Labels, At, Kernel, Back, User,
       Enter, Borrow, Handle, Copy, Finish, Save, Sched, Leave, Restore,
       Enable, Eret, Boot

LEMMA ToEnd ==
  ASSUME NEW l \in {Enable, Eret}, pc' = Kernel(l), l = Enable => ie' = FALSE,
         depth' = 0, Loaded', epc' = User(done'[current'] - 1)
  PROVE  RunInv' /\ PointInv'
BY DEF RunInv, PointInv, Inside, Suspending, Labels, At, Kernel, Back, User,
       Enter, Borrow, Handle, Copy, Finish, Save, Sched, Leave, Restore,
       Enable, Eret, Boot

LEMMA ToUser ==
  ASSUME depth' = 0, Loaded', pc' = User(done'[current'])
  PROVE  RunInv' /\ PointInv'
BY DEF RunInv, PointInv, Inside, Suspending, Labels, At, Kernel, Back, User,
       Enter, Borrow, Handle, Copy, Finish, Save, Sched, Leave, Restore,
       Enable, Eret, Boot

LEMMA ToHalt ==
  ASSUME pc' = Halted
  PROVE  RunInv' /\ PointInv'
BY DEF RunInv, PointInv, Inside, Suspending, Labels, At, Kernel, Back, Halted,
       Enter, Borrow, Handle, Copy, Finish, Save, Sched, Leave, Restore,
       Enable, Eret, Boot

-----------------------------------------------------------------------------
(* User code *)

LEMMA InUserFacts ==
  ASSUME Inv, pc[1] = "user"
  PROVE  /\ depth = 0 /\ Depth = 0 /\ ~Booting
         /\ Loaded /\ pc = User(done[current])
         /\ done[current] \in 0..MaxInstr
         /\ BelowInv
<1>1. ~Doomed
  BY DEF Doomed, At, Kernel
<1>2. Depth \in Nat
  BY DEF Inv, TypeOK, Depth
<1> QED
  BY <1>1, <1>2 DEF Inv, PointInv, StackInv, Base, TypeOK, Processes, Loaded

\* What the decoded instruction was fetched through is of the process.
LEMMA DecodedOwn ==
  ASSUME Inv, pc[1] = "user", UNCHANGED icache \/ (Fetched /\ Decoded)
  PROVE  icache' \subseteq Entry /\ \A e \in icache' : e.asid = current
<1>1. TextPage \in UserPages
  BY KernelTrapAssumption DEF KernelTrapAssumption
<1>2. icache \subseteq Entry /\ \A e \in icache : e.asid = current
  BY InUserFacts DEF Inv, TypeOK, CacheInv
<1>3. asid = current
  BY InUserFacts DEF Loaded
<1>4. ASSUME Hits(TextPage) # {}
      PROVE  Lookup(TextPage) \in Entry /\ Lookup(TextPage).asid = current
  BY <1>1, <1>3, <1>4, Found DEF Inv
<1> QED
  BY <1>2, <1>4 DEF Fetched, Decoded

\* Without activations there are no frames to speak of.
LEMMA Bare ==
  ASSUME Inv, Depth = 0, ~Booting, depth = 0,
         UNCHANGED <<tlb, depth, frames, gen, queue, regCtx>>,
         \A i \in 1..Len(queue) : done'[queue[i]] = done[queue[i]]
  PROVE  TlbInv' /\ StackInv' /\ QueueInv' /\ BelowInv'
<1>1. TlbInv' /\ StackInv'
  BY TlbSame, StackSame DEF Inv
<1>2. QueueInv'
  BY DEF Inv, QueueInv, Resumed, Booting
<1>3. BelowInv'
  BY DEF BelowInv, Depth
<1> QED
  BY <1>1, <1>2, <1>3

LEMMA UserRaises ==
  ASSUME Inv, pc[1] = "user",
         NEW cause \in Causes, NEW page \in UserPages, NEW req \in Requests,
         Raise(cause, page, req, pc),
         UNCHANGED icache \/ (Fetched /\ Decoded),
         UNCHANGED <<tlbVars, regs, kernelVars>>,
         done' = IF cause = "SYSCALL"
                   THEN [done EXCEPT ![current] = @ + 1] ELSE done,
         cause = "SYSCALL" => done[current] < MaxInstr,
         cause = "TLB" => Hits(page) = {},
         cause = "SYSCALL" /\ req = "fork" => \A a \in Asids : gen[a] < MaxGen
  PROVE  Inv'
<1> USE DEF tlbVars, kernelVars
<1>1. /\ depth = 0 /\ Depth = 0 /\ ~Booting
      /\ Loaded /\ pc = User(done[current])
      /\ done[current] \in 0..MaxInstr
  BY InUserFacts
<1>2. current \in Asids /\ ~Queued(current) /\ asid = current
  BY <1>1 DEF Loaded
<1>3. icache' \subseteq Entry /\ \A e \in icache' : e.asid = current
  BY DecodedOwn
<1>4. done' \in [Processes -> 0..MaxInstr]
  <2>1. done[current] + 1 \in 0..MaxInstr \/ cause # "SYSCALL"
    BY <1>1, KernelTrapAssumption DEF KernelTrapAssumption
  <2> QED
    BY <2>1 DEF Inv, TypeOK
<1>5. TypeOK'
  <2>1. pc' \in Address /\ epc' \in Address
    BY AddressTypes DEF Raise, Inv, TypeOK, Labels
  <2>2. ie' \in BOOLEAN /\ exl' \in BOOLEAN
    BY DEF Raise
  <2>3. trap' \in [cause : Causes \cup {"none"},
                   page : UserPages \cup KernelPages, req : Requests]
    BY DEF Raise
  <2>4. TlbTypeOK'
    BY DEF Inv, TypeOK, TlbTypeOK
  <2> QED
    BY <1>3, <1>4, <2>1, <2>2, <2>3, <2>4 DEF Inv, TypeOK
<1>6. TlbInv' /\ StackInv' /\ QueueInv' /\ BelowInv'
  <2>1. \A i \in 1..Len(queue) : done'[queue[i]] = done[queue[i]]
    BY <1>2 DEF Queued, Inv, TypeOK
  <2> QED
    BY <1>1, <2>1, Bare
<1>7. CacheInv'
  BY <1>1, <1>3 DEF CacheInv, Depth, Booting
<1>8. Entering'
  <2>1. Loaded'
    BY <1>1 DEF Loaded, Queued
  <2>2. epc' = TrapPc(current, cause)'
    BY <1>1, <1>2 DEF Raise, TrapPc, Inv, TypeOK
  <2>3. cause = "TLB" => NoEntry(page, current)'
    BY <1>2, Missing DEF Inv, NoEntry
  <2> QED
    BY <1>1, <2>1, <2>2, <2>3 DEF Entering, Raise, TrapPc
<1>9. RunInv' /\ PointInv'
  <2>1. ~(depth' > 0)
    BY <1>1
  <2> QED
    BY <1>8, <2>1, ToEnter DEF Raise
<1> QED
  BY <1>5, <1>6, <1>7, <1>9 DEF Inv

LEMMA UserMissInv == ASSUME Inv, UserMiss PROVE Inv'
<1> TextPage \in UserPages
  BY KernelTrapAssumption DEF KernelTrapAssumption
<1>1. pc[1] = "user"
  BY DEF UserMiss, InUser
<1>2. CASE ~Fetched /\ Raise("TLB", TextPage, "plain", pc) /\ UNCHANGED icache
  BY <1>1, <1>2, UserRaises DEF UserMiss, Fetched, Causes, Requests
<1>3. ASSUME Fetched, Decoded, NEW page \in UserPages \ {TextPage},
             Hits(page) = {}, Raise("TLB", page, "plain", pc)
      PROVE  Inv'
  BY <1>1, <1>3, UserRaises DEF UserMiss, Causes, Requests
<1> QED
  BY <1>2, <1>3 DEF UserMiss

LEMMA UserSyscallInv == ASSUME Inv, UserSyscall PROVE Inv'
<1> TextPage \in UserPages
  BY KernelTrapAssumption DEF KernelTrapAssumption
<1> PICK req \in Requests :
      /\ req = "fork" => \A a \in Asids : gen[a] < MaxGen
      /\ Raise("SYSCALL", TextPage, req, pc)
  BY DEF UserSyscall
<1> QED
  BY UserRaises DEF UserSyscall, InUser, Causes

LEMMA UserFaultInv == ASSUME Inv, UserFault PROVE Inv'
<1> TextPage \in UserPages
  BY KernelTrapAssumption DEF KernelTrapAssumption
<1> QED
  BY UserRaises DEF UserFault, InUser, Causes, Requests

LEMMA NoFrames ==
  ASSUME Inv, depth = 0
  PROVE  Depth = 0 /\ ~Booting
BY DEF Inv, StackInv, Base, TypeOK, Depth

\* A cycle that ends in front of the next instruction of the process, or in
\* the interrupt that comes there.
LEMMA Resumes ==
  ASSUME Inv, depth = 0, Loaded,
         Retire(User(done'[current]), ie),
         UNCHANGED <<tlbVars, regs, kernelVars>>,
         icache' \subseteq Entry, \A e \in icache' : e.asid = current,
         done' \in [Processes -> 0..MaxInstr],
         \A p \in Processes \ {current} : done'[p] = done[p]
  PROVE  Inv'
<1> USE DEF tlbVars, kernelVars
<1>1. Depth = 0 /\ ~Booting
  BY NoFrames
<1>2. current \in Asids /\ ~Queued(current) /\ asid = current
  BY DEF Loaded
<1>3. TextPage \in UserPages
  BY KernelTrapAssumption DEF KernelTrapAssumption
<1>4. done'[current] \in 0..MaxInstr
  BY <1>2 DEF Processes
<1>5. TypeOK'
  <2>1. User(done'[current]) \in Address
    BY <1>4, AddressTypes
  <2>2. Kernel(Enter) \in Address
    BY AddressTypes DEF Labels
  <2>3. pc' \in Address /\ epc' \in Address /\ ie' \in BOOLEAN /\ exl' \in BOOLEAN
    BY <2>1, <2>2 DEF Retire, Raise, Inv, TypeOK
  <2>4. trap' \in [cause : Causes \cup {"none"},
                   page : UserPages \cup KernelPages, req : Requests]
    BY <1>3 DEF Retire, Raise, Inv, TypeOK, Causes, Requests
  <2>5. TlbTypeOK'
    BY DEF Inv, TypeOK, TlbTypeOK
  <2> QED
    BY <2>3, <2>4, <2>5 DEF Inv, TypeOK
<1>6. TlbInv' /\ StackInv' /\ QueueInv' /\ BelowInv'
  <2>1. \A i \in 1..Len(queue) : done'[queue[i]] = done[queue[i]]
    BY <1>2 DEF Queued, Inv, TypeOK, Processes
  <2> QED
    BY <1>1, <2>1, Bare
<1>7. CacheInv'
  BY <1>1 DEF CacheInv, Depth, Booting
<1>8. Loaded'
  BY DEF Loaded, Queued
<1>9. RunInv' /\ PointInv'
  <2>1. CASE pc' = User(done'[current])
    BY <1>8, <2>1, ToUser
  <2>2. CASE Raise("INTERRUPT", TextPage, "plain", User(done'[current]))
    <3>1. Entering'
      BY <1>8, <2>2 DEF Entering, Raise, TrapPc, Causes
    <3>2. ~(depth' > 0)
      OBVIOUS
    <3> QED
      BY <2>2, <3>1, <3>2, ToEnter DEF Raise
  <2> QED
    BY <2>1, <2>2 DEF Retire
<1> QED
  BY <1>5, <1>6, <1>7, <1>9 DEF Inv

LEMMA UserRetireInv == ASSUME Inv, UserRetire PROVE Inv'
<1>1. pc[1] = "user" /\ done[current] < MaxInstr
  BY DEF UserRetire, InUser
<1>2. /\ depth = 0 /\ Loaded /\ pc = User(done[current])
      /\ done[current] \in 0..MaxInstr /\ current \in Asids
  BY <1>1, InUserFacts DEF Loaded
<1>3. icache' \subseteq Entry /\ \A e \in icache' : e.asid = current
  BY <1>1, DecodedOwn DEF UserRetire
<1>4. done' = [done EXCEPT ![current] = @ + 1]
  BY DEF UserRetire
<1>5. done' \in [Processes -> 0..MaxInstr] /\ done'[current] = done[current] + 1
  BY <1>1, <1>2, <1>4, KernelTrapAssumption
     DEF KernelTrapAssumption, Inv, TypeOK, Processes
<1>6. \A p \in Processes \ {current} : done'[p] = done[p]
  BY <1>4 DEF Inv, TypeOK
<1>7. User(pc[2] + 1) = User(done'[current])
  BY <1>2, <1>5 DEF User
<1> QED
  BY <1>2, <1>3, <1>5, <1>6, <1>7, Resumes DEF UserRetire

\* eret: the EPC is in front of the instruction the process goes on with.
LEMMA ReturnToUserInv == ASSUME Inv, ReturnToUser PROVE Inv'
<1>1. ~Doomed /\ At(Eret)
  BY DEF ReturnToUser, Doomed, At, Kernel, Enter, Borrow, Save, Eret
<1>2. depth = 0 /\ Loaded /\ epc = User(done[current] - 1) /\ current \in Asids
  BY <1>1 DEF Inv, PointInv, Loaded
<1>3. Depth = 0
  BY <1>2, NoFrames
<1>4. icache' \subseteq Entry /\ \A e \in icache' : e.asid = current
  BY <1>3 DEF ReturnToUser, Inv, TypeOK, CacheInv
<1>5. done' = done /\ done[current] \in 0..MaxInstr
  BY <1>2 DEF ReturnToUser, Inv, TypeOK, Processes
<1>6. <<epc[1], epc[2] + 1>> = User(done'[current])
  BY <1>2, <1>5 DEF User
<1> QED
  BY <1>2, <1>4, <1>5, <1>6, Resumes DEF ReturnToUser, Inv, TypeOK

-----------------------------------------------------------------------------
(* The ends of a trap: run_process *)

LEMMA EnableInterruptsInv == ASSUME Inv, EnableInterrupts PROVE Inv'
<1> USE DEF tlbVars, kernelVars, EnableInterrupts
<1>1. ~Doomed /\ At(Enable)
  BY DEF Doomed, At, Kernel, Enter, Borrow, Save, Enable
<1>2. depth = 0 /\ Loaded /\ epc = User(done[current] - 1) /\ BelowInv
  BY <1>1 DEF Inv, PointInv
<1>3. ie = FALSE
  BY <1>1 DEF Inv, RunInv, At, Kernel, Enable, Eret
<1>4. pc' = Kernel(Eret) /\ ie' = TRUE /\ UNCHANGED <<epc, exl, trap>>
  BY <1>3 DEF Retire
<1>5. TypeOK'
  <2>1. Kernel(Eret) \in Address
    BY AddressTypes DEF Labels
  <2> QED
    BY <1>4, <2>1 DEF Inv, TypeOK, TlbTypeOK
<1>6. TlbInv' /\ StackInv' /\ QueueInv' /\ BelowInv'
  BY <1>2, TlbSame, StackSame, QueueSame, BelowSame DEF Inv
<1>7. CacheInv'
  BY DEF Inv, CacheInv, Depth, Booting
<1>8. RunInv' /\ PointInv'
  <2>1. Loaded'
    BY <1>2 DEF Loaded, Queued
  <2> QED
    BY <1>2, <1>4, <2>1, ToEnd DEF Eret, Enable
<1> QED
  BY <1>5, <1>6, <1>7, <1>8 DEF Inv

LEMMA StageSame ==
  ASSUME UNCHANGED <<tlb, frames, gen, queue, done, current, asid>>, NEW r
  PROVE  Stage(r)' <=> Stage(r)
BY FrameSame DEF Stage

LEMMA RestoreContextInv == ASSUME Inv, RestoreContext PROVE Inv'
<1> USE DEF tlbVars, kernelVars, RestoreContext
<1>1. ~Doomed /\ At(Restore)
  BY DEF Doomed, At, Kernel, Enter, Borrow, Save, Restore, Runs
<1>2. Restoring /\ BelowInv
  BY <1>1 DEF Inv, PointInv
<1> DEFINE c == regCtx[current]
<1>3. c \in Contexts
  BY DEF Inv, TypeOK
<1>4. /\ regs' = c.regs /\ epc' = c.pc /\ ie' = c.ie /\ exl' = TRUE
      /\ pc' = IF depth > 0 THEN c.pc ELSE Kernel(Enable)
  OBVIOUS
<1>5. TypeOK'
  <2>1. Kernel(Enable) \in Address
    BY AddressTypes DEF Labels
  <2>2. c.pc \in Address /\ c.regs \in Registers /\ c.ie \in BOOLEAN
    BY <1>3 DEF Contexts
  <2>3. pc' \in Address /\ epc' \in Address /\ regs' \in Registers
        /\ ie' \in BOOLEAN /\ exl' \in BOOLEAN
    BY <1>4, <2>1, <2>2
  <2> QED
    BY <2>3 DEF Inv, TypeOK, TlbTypeOK
<1>6. TlbInv' /\ StackInv' /\ QueueInv' /\ BelowInv'
  BY <1>2, TlbSame, StackSame, QueueSame, BelowSame DEF Inv
<1>7. CacheInv'
  BY DEF Inv, CacheInv, Depth, Booting
<1>8. RunInv' /\ PointInv'
  <2>1. CASE depth = 0
    <3>1. /\ current \in Asids /\ ~Queued(current) /\ asid = current
          /\ c = Resumed(current)
      BY <1>2, <2>1 DEF Restoring, Ready
    <3>2. Loaded' /\ epc' = User(done[current] - 1) /\ ie' = FALSE
      BY <1>4, <3>1 DEF Loaded, Queued, Resumed, Context
    <3>3. pc' = Kernel(Enable)
      BY <1>4, <2>1
    <3> QED
      BY <2>1, <3>2, <3>3, ToEnd
  <2>2. CASE depth # 0
    <3>1. depth > 0
      BY <2>2 DEF Inv, TypeOK
    <3>2. PICK r \in Suspending :
            /\ c = Context(Back(Kernel(r)), <<KernelAsid, depth>>, FALSE)
            /\ Stage(r)
      BY <1>2, <2>2 DEF Restoring
    <3>3. /\ pc' = Back(Kernel(r)) /\ ie' = FALSE
          /\ regs' = <<KernelAsid, depth>>
      BY <1>4, <3>1, <3>2 DEF Context
    <3>4. Stage(r)'
      BY <3>2, StageSame
    <3>5. depth' > 0 /\ regs' = <<KernelAsid, depth'>>
      BY <3>1, <3>3
    <3> QED
      BY <3>3, <3>4, <3>5, ToBack
  <2> QED
    BY <2>1, <2>2
<1> QED
  BY <1>5, <1>6, <1>7, <1>8 DEF Inv

-----------------------------------------------------------------------------
(* Kernel code that goes on *)

LEMMA AtInside ==
  ASSUME Inv, NEW l \in Inside, At(l)
  PROVE  /\ depth > 0 /\ depth = Depth + Base
         /\ regs = <<KernelAsid, depth>>
         /\ ie = FALSE
         /\ l \notin {Borrow, Save} => ~Doomed
         /\ l # Leave /\ ~Doomed => Stage(l)
         /\ Depth \in Nat
BY DEF Inv, RunInv, PointInv, StackInv, TypeOK, Depth, Doomed, Inside, At,
       Kernel, Enter, Borrow, Handle, Copy, Finish, Save, Sched, Leave, Boot,
       Eret

\* With IE clear a cycle ends where its instruction says.
LEMMA Goes ==
  ASSUME ie = FALSE, NEW addr, Retire(addr, ie)
  PROVE  pc' = addr /\ ie' = FALSE /\ UNCHANGED <<epc, exl, trap>>
BY DEF Retire

LEMMA ReplayInv == ASSUME Inv, Replay PROVE Inv'
<1> USE DEF tlbVars, kernelVars, Replay
<1>1. PICK r \in Suspending : pc[2] = r - 1
  BY DEF Inv, RunInv, Labels, Enter, Borrow, Handle, Copy, Finish, Save, Sched,
         Leave, Boot, Restore, Enable, Eret
<1>2. pc = Back(Kernel(r)) /\ Kernel(pc[2] + 1) = Kernel(r)
  BY <1>1 DEF Inv, TypeOK, Address, Halted, Back, Kernel, Suspending, Handle,
              Copy, Finish, Sched, Boot
<1>3. ~Doomed /\ ie = FALSE /\ depth > 0 /\ regs = <<KernelAsid, depth>>
  BY <1>1, <1>2 DEF Inv, RunInv, Doomed, At, Kernel, Enter, Borrow, Save,
     Suspending, Handle, Copy, Finish, Sched, Boot, Eret
<1>4. Stage(r) /\ BelowInv
  BY <1>2, <1>3 DEF Inv, PointInv
<1>5. pc' = Kernel(r) /\ ie' = FALSE /\ UNCHANGED <<epc, exl, trap>>
  BY <1>2, <1>3, Goes
<1>6. TypeOK'
  <2>1. Kernel(r) \in Address
    BY AddressTypes DEF Labels, Suspending
  <2> QED
    BY <1>5, <2>1 DEF Inv, TypeOK, TlbTypeOK
<1>7. TlbInv' /\ StackInv' /\ QueueInv' /\ BelowInv' /\ Stage(r)'
  BY <1>4, TlbSame, StackSame, QueueSame, BelowSame, StageSame DEF Inv
<1>8. CacheInv'
  BY DEF Inv, CacheInv, Depth, Booting
<1>9. RunInv' /\ PointInv'
  <2>1. r \in Inside \ {Leave}
    BY DEF Suspending, Inside, Handle, Copy, Finish, Sched, Boot, Leave
  <2>2. depth' > 0 /\ regs' = <<KernelAsid, depth'>>
    BY <1>3
  <2> QED
    BY <1>5, <1>7, <2>1, <2>2, ToStage
<1> QED
  BY <1>6, <1>7, <1>8, <1>9 DEF Inv

-----------------------------------------------------------------------------
(* The kernel traps *)

\* Where the trap is taken, unless borrow() misses.
LEMMA MissStage ==
  ASSUME Inv, ~Doomed, NEW label \in Labels, NEW page \in Touches(label),
         At(label), Hits(page) = {}
  PROVE  /\ label \in {Handle, Finish, Sched, Boot}
         /\ Stage(label) /\ current = KernelAsid
         /\ Depth > 0 => Trapper(Depth) \in Asids
         /\ label = Finish => frames[Depth].cause # "TLB"
<1> USE DEF Enter, Borrow, Handle, Copy, Finish, Save, Sched, Leave, Restore,
            Enable, Eret, Boot
<1>1. ASSUME label \in {Borrow, Save, Leave, Restore} PROVE FALSE
  <2>1. current \in Asids /\ page = PcbPage
    BY <1>1 DEF Touches, Inv, TypeOK, Processes
  <2>2. ~HasPcb
    BY <2>1, PcbHits DEF Inv
  <2>3. label \in {Leave, Restore}
    <3>1. label \in {Borrow, Save} => depth > 0
      BY AtInside DEF Inside
    <3> QED
      BY <1>1, <2>1, <2>2, <3>1 DEF Doomed
  <2>4. At(Leave) => Leaving
    BY DEF Inv, PointInv
  <2>5. At(Restore) => Restoring
    BY DEF Inv, PointInv
  <2> QED
    BY <2>1, <2>2, <2>3, <2>4, <2>5 DEF Leaving, Restoring, Ready
<1>2. label \in {Handle, Finish, Sched, Boot}
  BY <1>1 DEF Touches, Labels
<1>3. Stage(label) /\ current = KernelAsid /\ Depth \in Nat
  <2>1. label \in Inside /\ label # Leave
    BY <1>2 DEF Inside
  <2>2. Stage(label) /\ Depth \in Nat
    BY <2>1, AtInside
  <2> QED
    BY <1>2, <2>2 DEF Stage
<1>4. ASSUME Depth > 0 PROVE Trapper(Depth) \in Asids
  <2>1. FrameAt(Depth, label)
    BY <1>3, <1>4 DEF Stage
  <2>2. OfUser(Depth) => Trapper(Depth) \in Asids
    BY <1>3, <1>4 DEF Trapper, OfUser, Inv, StackInv
  <2>3. ASSUME ~OfUser(Depth) PROVE Trapper(Depth) \in Asids
    <3>1. KernelFrame(Depth, label) /\ Top = frames[Depth]
      BY <2>1, <2>3 DEF FrameAt, Top, Depth
    <3>2. label \in {Handle, Finish} /\ Top.old = Trapper(Depth)
      BY <1>2, <3>1 DEF KernelFrame
    <3>3. Trapper(Depth) # KernelAsid
      BY <3>2, KernelTrapAssumption
         DEF Touches, KernelTrapAssumption, TlbAssumption
    <3>4. frames[Depth].page \in UserPages
      BY <2>3, <3>3 DEF Trapper
    <3>5. OfUser(1) /\ 1 \in 1..Depth
      BY <1>3, <1>4, <3>1, <3>4 DEF KernelFrame, OfUser
    <3> QED
      BY <3>4, <3>5 DEF Trapper, Inv, StackInv
  <2> QED
    BY <2>2, <2>3
<1>5. label = Finish => frames[Depth].cause # "TLB"
  BY DEF Touches, Top, Depth
<1> QED
  BY <1>2, <1>3, <1>4, <1>5

LEMMA KernelMissInv == ASSUME Inv, KernelMiss PROVE Inv'
<1> USE DEF tlbVars, kernelVars
<1> PICK label \in Labels, page \in KernelPages :
      /\ At(label) /\ page \in Touches(label) /\ Hits(page) = {}
      /\ Raise("TLB", page, "plain", pc)
  BY DEF KernelMiss
<1>1. UNCHANGED <<tlbVars, regs, icache, kernelVars, done>>
  BY DEF KernelMiss
<1>2. /\ pc' = Kernel(Enter) /\ epc' = pc /\ exl' = TRUE /\ ie' = FALSE
      /\ trap' = [cause |-> "TLB", page |-> page, req |-> "plain"]
  BY DEF Raise
<1>3. TypeOK'
  <2>1. Kernel(Enter) \in Address
    BY AddressTypes DEF Labels
  <2> QED
    BY <1>1, <1>2, <2>1 DEF Inv, TypeOK, TlbTypeOK, Causes, Requests
<1>4. TlbInv' /\ StackInv' /\ QueueInv' /\ (BelowInv => BelowInv')
  BY <1>1, TlbSame, StackSame, QueueSame, BelowSame DEF Inv
<1>5. CacheInv'
  BY <1>1 DEF Inv, CacheInv, Depth, Booting
<1>6. CASE Doomed
  <2>1. Doomed'
    BY <1>1, <1>2, <1>6 DEF Doomed, At, HasPcb
  <2>2. label \in {Borrow, Save}
    BY <1>6 DEF Doomed, Touches, At, Kernel, Enter, Borrow, Handle, Copy, Finish, Save,
           Sched, Leave, Restore, Enable, Eret, Boot
  <2>3. depth > 0 /\ regs = <<KernelAsid, depth>>
    BY <2>2, AtInside DEF Inside
  <2>4. RunInv'
    BY <1>1, <1>2, <2>3, ToEnter
  <2> QED
    BY <1>3, <1>4, <1>5, <2>1, <2>4 DEF Inv
<1>7. CASE ~Doomed
  <2>1. /\ label \in {Handle, Finish, Sched, Boot}
        /\ Stage(label) /\ current = KernelAsid
        /\ Depth > 0 => Trapper(Depth) \in Asids
        /\ label = Finish => frames[Depth].cause # "TLB"
    BY <1>7, MissStage
  <2>2. depth > 0 /\ regs = <<KernelAsid, depth>>
    BY <2>1, AtInside DEF Inside
  <2>3. Entering'
    <3>1. Stage(label)' /\ label \in Suspending /\ epc' = Kernel(label)
      BY <1>1, <1>2, <2>1, StageSame DEF Suspending, At
    <3>2. /\ (Depth > 0 => Trapper(Depth) \in Asids)'
          /\ (label = Finish => frames[Depth].cause # "TLB")'
      BY <1>1, <2>1, FrameSame DEF Depth
    <3>3. NoEntry(trap.page, current)'
      BY <1>1, <1>2, Missing DEF Inv, NoEntry
    <3>4. label # Copy /\ trap'.page \in KernelPages /\ depth' # 0
      BY <1>1, <1>2, <2>1, <2>2 DEF Handle, Finish, Sched, Boot, Copy
    <3> QED
      BY <3>1, <3>2, <3>3, <3>4 DEF Entering
  <2>4. RunInv' /\ PointInv'
    BY <1>1, <1>2, <2>2, <2>3, ToEnter
  <2> QED
    BY <1>3, <1>4, <1>5, <1>7, <2>4 DEF Inv
<1> QED
  BY <1>6, <1>7

\* What is said of a frame rests on the frame and on the one of user code.
LEMMA FramesBelow ==
  ASSUME UNCHANGED <<tlb, gen, queue, done>>, NEW i, NEW r,
         frames'[i] = frames[i], frames'[1] = frames[1]
  PROVE  /\ FrameAt(i, r)' <=> FrameAt(i, r)
         /\ Trapper(i)' = Trapper(i)
         /\ OfUser(i)' <=> OfUser(i)
BY DEF FrameAt, UserFrame, KernelFrame, Trapper, OfUser, Booting, Queued,
       TrapPc, NoEntry

\* The address a frame holds tells where the activation below it has come.
LEMMA SameStage ==
  ASSUME NEW r \in Suspending, NEW t \in Suspending,
         Kernel(t) \in {Kernel(r), Back(Kernel(r))}
           \/ Back(Kernel(t)) \in {Kernel(r), Back(Kernel(r))}
  PROVE  r = t
BY DEF Suspending, Kernel, Back, Handle, Copy, Finish, Sched, Boot

\* kernel_trap pushes a frame with the registers of what it interrupts.
LEMMA PushFrame ==
  ASSUME Inv, EnterTrap
  PROVE  /\ ie = FALSE /\ Depth \in Nat
         /\ trap.cause \in Causes
         /\ depth > 0 => trap.cause = "TLB" /\ regs = <<KernelAsid, depth>>
         /\ frames' \in Seq(Frames) /\ Depth' = Depth + 1
         /\ frames'[Depth + 1] = Frame(Context(epc, regs, FALSE), trap)
         /\ \A i \in 1..Depth : frames'[i] = frames[i]
<1> DEFINE f == Frame(Context(epc, regs, FALSE), trap)
<1> HIDE DEF f
<1>1. At(Enter) /\ ie = FALSE
  BY DEF EnterTrap, Inv, RunInv, At, Kernel, Enter, Eret
<1>2. depth > 0 => trap.cause = "TLB" /\ regs = <<KernelAsid, depth>>
  BY <1>1 DEF Inv, RunInv, At, Kernel
<1>3. depth = 0 => Entering
  BY <1>1 DEF Inv, PointInv, Doomed
<1>4. trap.cause \in Causes
  BY <1>2, <1>3 DEF Entering, Causes, Inv, TypeOK
<1>5. f \in Frames
  <2>1. Context(epc, regs, FALSE) \in Contexts
    BY ContextType DEF Inv, TypeOK
  <2> QED
    BY <1>4, <2>1 DEF f, Frame, Frames, Inv, TypeOK
<1>6. frames \in Seq(Frames) /\ Depth \in Nat
  BY DEF Inv, TypeOK, Frames, Depth
<1>7. CASE depth = 0
  <2>1. frames' = <<f>> /\ Depth = 0
    BY <1>1, <1>7, NoFrames DEF f, EnterTrap, Pushed
  <2>2. frames' \in Seq(Frames)
    BY <1>5, <2>1
  <2>3. Len(frames') = 1 /\ frames'[1] = f
    BY <2>1
  <2>4. Depth' = Depth + 1 /\ frames'[Depth + 1] = f
    BY <2>1, <2>3 DEF Depth
  <2>5. \A i \in 1..Depth : frames'[i] = frames[i]
    BY <2>1
  <2> QED
    BY <1>1, <1>4, <1>6, <1>7, <2>2, <2>4, <2>5 DEF f
<1>8. CASE depth # 0
  <2>1. frames' = Append(frames, f)
    BY <1>1, <1>8 DEF f, EnterTrap, Pushed
  <2>2. frames' \in Seq(Frames) /\ Len(frames') = Len(frames) + 1
    BY <1>5, <1>6, <2>1
  <2>3. frames'[Depth + 1] = f /\ \A i \in 1..Depth : frames'[i] = frames[i]
    BY <1>5, <1>6, <2>1 DEF Depth
  <2> QED
    BY <1>1, <1>2, <1>4, <1>6, <2>2, <2>3 DEF f, Depth
<1> QED
  BY <1>7, <1>8

\* The activation of a new frame is at its beginning.
LEMMA EnterStage ==
  ASSUME Inv, EnterTrap, ~Doomed
  PROVE  BelowInv' /\ Stage(Borrow)'
<1> USE DEF tlbVars
<1> DEFINE f == Frame(Context(epc, regs, FALSE), trap)
           top == Depth + 1
<1> HIDE DEF f
<1>1. /\ Depth \in Nat /\ Depth' = top /\ frames'[top] = f
      /\ \A i \in 1..Depth : frames'[i] = frames[i]
  BY PushFrame DEF f
<1>2. UNCHANGED <<tlb, gen, queue, done, current, asid>>
  BY DEF EnterTrap
<1>3. Entering /\ BelowInv
  BY DEF EnterTrap, Inv, PointInv
<1>4. depth = Depth + Base
  BY DEF Inv, StackInv
<1>5. /\ f.ctx.pc = epc /\ f.ctx.regs = regs /\ f.old = NoProc
      /\ f.cause = trap.cause /\ f.page = trap.page /\ f.req = trap.req
  BY DEF f, Frame, Context
<1>6. CASE depth = 0
  <2>1. Depth = 0 /\ ~Booting /\ top = 1
    BY <1>6, NoFrames
  <2>2. /\ Loaded
        /\ epc = TrapPc(current, trap.cause)
        /\ trap.cause = "TLB" => /\ trap.page \in UserPages
                                 /\ NoEntry(trap.page, current)
        /\ trap.cause = "SYSCALL" /\ trap.req = "fork" =>
             \A a \in Asids : gen[a] < MaxGen
    BY <1>3, <1>6 DEF Entering
  <2>3. f.ctx.regs[1] = current /\ ~Queued(current)
    <3>1. regs[1] = current /\ ~Queued(current)
      BY <2>2 DEF Loaded
    <3> QED
      BY <1>5, <3>1
  <2>4. OfUser(1)' /\ Trapper(1)' = current
    BY <1>1, <1>2, <2>1, <2>3 DEF OfUser, Trapper, Booting
  <2>5. UserFrame(1, Borrow)'
    BY <1>1, <1>2, <1>5, <2>1, <2>2, <2>3
       DEF UserFrame, Queued, TrapPc, NoEntry, Borrow, Handle, Copy, Finish,
           Save, Sched, Leave, Boot
  <2>6. Stage(Borrow)'
    BY <1>1, <1>2, <2>1, <2>4, <2>5 DEF Stage, FrameAt, Borrow, Handle, Copy, Finish,
       Save, Sched, Boot
  <2>7. BelowInv'
    BY <1>1, <2>1 DEF BelowInv
  <2> QED
    BY <2>6, <2>7
<1>7. CASE depth # 0
  <2>1. PICK r \in Suspending :
           /\ epc = Kernel(r)
           /\ Stage(r)
           /\ Depth > 0 => Trapper(Depth) \in Asids
           /\ r = Finish => frames[Depth].cause # "TLB"
           /\ NoEntry(trap.page, current)
           /\ IF r = Copy THEN trap.page \in UserPages
                          ELSE trap.page \in KernelPages
    BY <1>3, <1>7 DEF Entering
  <2>2. Depth = 0 => Booting
    BY <1>4, <1>7 DEF Base
  <2>3. ~OfUser(Depth)'
    BY <1>1, <1>2, <2>2 DEF OfUser, Booting
  <2>4. r = Copy => Depth = 1 /\ ~Booting /\ current = frames[1].ctx.regs[1]
    <3>1. ASSUME r = Copy PROVE Depth > 0 /\ FrameAt(Depth, Copy) /\ current = Trapper(Depth)
      BY <1>1, <2>1, <3>1 DEF Stage, Copy, Boot
    <3>2. ~KernelFrame(Depth, Copy)
      BY DEF KernelFrame, Borrow, Handle, Copy, Finish, Save, Leave
    <3> QED
      BY <3>1, <3>2 DEF FrameAt, OfUser, Trapper
  <2>5. r # Copy => current = KernelAsid /\ trap.page \notin UserPages
    BY <2>1, KernelTrapAssumption
       DEF Stage, Suspending, KernelTrapAssumption, TlbAssumption
  <2>6. Trapper(Depth)' = current
    <3>1. frames'[top].page = trap.page
      BY <1>1, <1>5
    <3>2. CASE r = Copy
      <4>1. frames'[1] = frames[1]
        BY <1>1, <2>4, <3>2
      <4> QED
        BY <1>1, <2>1, <2>3, <2>4, <3>1, <3>2, <4>1 DEF Trapper
    <3>3. CASE r # Copy
      BY <1>1, <2>3, <2>5, <3>1, <3>3 DEF Trapper
    <3> QED
      BY <3>2, <3>3
  <2>7. KernelFrame(Depth, Borrow)'
    <3>1. (r = Boot) <=> (top = 1)
      BY <1>1, <2>1 DEF Stage
    <3>2. NoEntry(frames[Depth].page, current)'
      BY <1>1, <1>2, <1>5, <2>1 DEF NoEntry
    <3>3. r = Copy <=> frames'[top].page \in UserPages
      BY <1>1, <1>5, <2>1, <2>5
    <3>4. frames'[top].page \in UserPages => top = 2 /\ ~Booting'
      BY <1>2, <2>4, <3>3 DEF Booting
    <3>5. /\ frames'[top].old = NoProc
          /\ frames'[top].ctx.pc = Kernel(r)
      BY <1>1, <1>5, <2>1
    <3> QED
      BY <1>1, <1>2, <2>1, <2>6, <3>1, <3>2, <3>3, <3>4, <3>5 DEF KernelFrame
  <2>8. Stage(Borrow)'
    BY <1>1, <1>2, <2>3, <2>6, <2>7 DEF Stage, FrameAt, Borrow, Handle, Copy, Finish,
       Save, Sched, Boot
  <2>9. BelowInv'
    <3> SUFFICES ASSUME NEW i \in 1..Depth, NEW t \in Suspending,
                        frames'[i + 1].ctx.pc \in {Kernel(t), Back(Kernel(t))}
                 PROVE  /\ FrameAt(i, t)'
                        /\ Trapper(i)' \in Asids
                        /\ t = Finish => frames'[i].cause # "TLB"
      BY <1>1 DEF BelowInv
    <3>1. frames'[i] = frames[i] /\ frames'[1] = frames[1]
      BY <1>1
    <3>2. /\ FrameAt(i, t)
          /\ Trapper(i) \in Asids
          /\ t = Finish => frames[i].cause # "TLB"
      <4>1. CASE i = Depth
        <5>1. t = r
          BY <1>1, <1>5, <2>1, <4>1, SameStage
        <5> QED
          BY <1>1, <2>1, <4>1, <5>1 DEF Stage
      <4>2. CASE i # Depth
        BY <1>1, <1>3, <4>2 DEF BelowInv
      <4> QED
        BY <4>1, <4>2
    <3> QED
      BY <1>2, <3>1, <3>2, FramesBelow
  <2> QED
    BY <2>8, <2>9
<1> QED
  BY <1>6, <1>7

LEMMA EnterTrapInv == ASSUME Inv, EnterTrap PROVE Inv'
<1> USE DEF tlbVars
<1> DEFINE f == Frame(Context(epc, regs, FALSE), trap)
           top == Depth + 1
<1> HIDE DEF f
<1>1. /\ ie = FALSE /\ Depth \in Nat
      /\ depth > 0 => trap.cause = "TLB" /\ regs = <<KernelAsid, depth>>
      /\ frames' \in Seq(Frames) /\ Depth' = top /\ frames'[top] = f
      /\ \A i \in 1..Depth : frames'[i] = frames[i]
  BY PushFrame DEF f
<1>2. /\ UNCHANGED <<tlbVars, icache, current, regCtx, gen, queue, done>>
      /\ depth' = depth + 1 /\ regs' = <<KernelAsid, depth + 1>>
      /\ At(Enter)
  BY DEF EnterTrap
<1>3. pc' = Kernel(Borrow) /\ ie' = FALSE /\ UNCHANGED <<epc, exl, trap>>
  BY <1>1, Goes DEF EnterTrap, Goto
<1>4. depth = Depth + Base /\ depth \in 0..(StackFrames + 1)
  BY DEF Inv, StackInv, TypeOK
<1>5. TypeOK'
  <2>1. depth' \in 0..(StackFrames + 1)
    BY <1>1, <1>2, <1>4, KernelTrapAssumption DEF EnterTrap, Base, Depth, KernelTrapAssumption
  <2>2. Kernel(Borrow) \in Address /\ regs' \in Registers
    BY <1>2, <2>1, AddressTypes, RegisterTypes DEF Labels
  <2> QED
    BY <1>1, <1>2, <1>3, <2>1, <2>2 DEF Inv, TypeOK, TlbTypeOK, Frames
<1>6. TlbInv' /\ QueueInv'
  BY <1>2, TlbSame, QueueSame DEF Inv
<1>7. StackInv'
  <2>1. Base' = Base
    BY <1>2 DEF Base, Booting
  <2>2. \A i : OfUser(i)' <=> OfUser(i)
    BY <1>2 DEF OfUser, Booting
  <2>3. ASSUME OfUser(top)
        PROVE  regs[1] \in Asids /\ regs[2] = gen[regs[1]]
    <3>1. depth = 0
      BY <1>1, <1>4, <2>3 DEF OfUser, Base
    <3>2. Loaded
      BY <1>2, <3>1 DEF Inv, PointInv, Entering, Doomed
    <3> QED
      BY <3>2 DEF Loaded
  <2>4. ASSUME ~OfUser(top)
        PROVE  trap.cause = "TLB" /\ regs = <<KernelAsid, top - 1 + Base>>
    <3>1. depth > 0
      BY <1>1, <1>4, <2>4 DEF OfUser, Base
    <3> QED
      BY <1>1, <1>4, <3>1
  <2>5. f.ctx.ie = FALSE /\ f.ctx.regs = regs /\ f.cause = trap.cause
    BY DEF f, Frame, Context
  <2>6. ASSUME NEW i \in 1..top
        PROVE  /\ frames'[i].ctx.ie = FALSE
               /\ OfUser(i) => /\ frames'[i].ctx.regs[1] \in Asids
                               /\ frames'[i].ctx.regs[2] = gen[frames'[i].ctx.regs[1]]
               /\ ~OfUser(i) => /\ frames'[i].cause = "TLB"
                                /\ frames'[i].ctx.regs = <<KernelAsid, i - 1 + Base>>
    <3>1. CASE i = top
      BY <1>1, <2>3, <2>4, <2>5, <3>1
    <3>2. CASE i # top
      BY <1>1, <3>2 DEF Inv, StackInv
    <3> QED
      BY <3>1, <3>2
  <2>7. depth' = Depth' + Base'
    <3>1. Base \in Nat
      BY DEF Base
    <3> QED
      BY <1>1, <1>2, <1>4, <2>1, <3>1
  <2>8. gen' = gen
    BY <1>2
  <2> QED
    BY <1>1, <2>1, <2>2, <2>6, <2>7, <2>8 DEF StackInv
<1>8. CacheInv'
  <2>1. CASE Depth > 0
    BY <1>1, <1>2, <2>1 DEF Inv, CacheInv, Booting
  <2>2. CASE depth = 0
    <3>1. Loaded
      BY <1>2, <2>2 DEF Inv, PointInv, Entering, Doomed
    <3>2. frames'[1].ctx.regs[1] = current /\ Depth = 0
      BY <1>1, <2>2, <3>1, NoFrames DEF f, Frame, Context, Loaded
    <3> QED
      BY <1>1, <1>2, <3>2 DEF Inv, CacheInv, Booting
  <2>3. CASE Depth = 0 /\ depth # 0
    <3>1. icache = {}
      BY <1>4, <2>3 DEF Base, Inv, CacheInv
    <3> QED
      BY <1>2, <3>1 DEF CacheInv
  <2> QED
    BY <1>1, <2>1, <2>2, <2>3
<1>9. RunInv' /\ (Stage(Borrow)' => PointInv')
  <2>1. depth' > 0 /\ regs' = <<KernelAsid, depth'>>
    BY <1>2, <1>4
  <2>2. Borrow \in Inside \ {Leave}
    BY DEF Inside, Borrow, Leave
  <2> QED
    BY <1>3, <2>1, <2>2, ToStage
<1>10. Doomed => Doomed'
  BY <1>2, <1>3, <1>4 DEF Doomed, At, HasPcb
<1> QED
  BY <1>5, <1>6, <1>7, <1>8, <1>9, <1>10, EnterStage DEF Inv

-----------------------------------------------------------------------------
(* Stretches of the kernel that run *)

\* What the code of a label touches is mapped, so borrow() does not miss.
LEMMA RunsAt ==
  ASSUME Inv, NEW l \in Inside, Runs(l)
  PROVE  /\ At(l) /\ ~Doomed /\ BelowInv
         /\ depth > 0 /\ depth = Depth + Base
         /\ regs = <<KernelAsid, depth>>
         /\ ie = FALSE
         /\ Depth \in Nat /\ (l = Boot <=> Depth = 0)
         /\ l # Leave => Stage(l)
<1> USE DEF Enter, Borrow, Handle, Copy, Finish, Save, Sched, Leave, Boot
<1>1. At(l) /\ Mapped(l)
  BY DEF Runs
<1>2. ASSUME Doomed PROVE FALSE
  <2>1. l \in {Borrow, Save} /\ current \in Asids
    BY <1>1, <1>2 DEF Doomed, At, Kernel, Inside
  <2>2. PcbPage \in Touches(l)
    BY <2>1, KernelTrapAssumption DEF Touches, KernelTrapAssumption, TlbAssumption
  <2> QED
    BY <1>1, <1>2, <2>2, PcbHits DEF Mapped, Inv, Doomed
<1>3. BelowInv /\ PointInv
  BY <1>2 DEF Inv
<1>4. /\ depth > 0 /\ depth = Depth + Base /\ regs = <<KernelAsid, depth>>
      /\ ie = FALSE /\ Depth \in Nat /\ (l # Leave => Stage(l))
  BY <1>1, <1>2, AtInside
<1>5. l = Boot <=> Depth = 0
  <2>1. CASE l # Leave
    BY <1>4, <2>1 DEF Stage
  <2>2. CASE l = Leave
    BY <1>1, <1>3, <1>4, <2>2 DEF PointInv, Leaving, OfUser, Stage
  <2> QED
    BY <2>1, <2>2
<1> QED
  BY <1>1, <1>2, <1>3, <1>4, <1>5

\* Only user code has made a system call, was interrupted, or is rescheduled.
LEMMA NotNested ==
  ASSUME StackInv, Depth \in Nat \ {0}, frames[Depth].cause # "TLB"
  PROVE  OfUser(Depth) /\ Depth = 1
<1>1. Depth \in 1..Depth
  OBVIOUS
<1> QED
  BY <1>1 DEF StackInv, OfUser

\* The kernel goes on to another stretch.
LEMMA Onward ==
  ASSUME Inv, NEW m \in Inside \ {Leave}, ie = FALSE, depth > 0,
         regs = <<KernelAsid, depth>>, Goto(m), UNCHANGED <<regs, depth>>
  PROVE  /\ pc' = Kernel(m) /\ ie' = FALSE /\ UNCHANGED <<epc, exl, trap>>
         /\ pc' \in Address
         /\ RunInv' /\ (Stage(m)' => PointInv')
<1>1. pc' = Kernel(m) /\ ie' = FALSE /\ UNCHANGED <<epc, exl, trap>>
  BY Goes DEF Goto
<1>2. Kernel(m) \in Address
  BY AddressTypes DEF Inside, Labels
<1>3. depth' > 0 /\ regs' = <<KernelAsid, depth'>>
  OBVIOUS
<1> QED
  BY <1>1, <1>2, <1>3, ToStage

LEMMA TopFrame ==
  ASSUME Inv, Depth > 0
  PROVE  /\ Top \in Frames /\ Top = frames[Depth]
         /\ Top.ctx \in Contexts /\ Top.cause \in Causes
<1>1. frames \in Seq(Frames)
  BY DEF Inv, TypeOK, Frames
<1>2. Depth \in Nat /\ Depth \in 1..Len(frames)
  BY <1>1 DEF Depth
<1>3. Top \in Frames
  BY <1>1, <1>2 DEF Top, Depth
<1> QED
  BY <1>3 DEF Frames, Top, Depth

LEMMA TopTypes ==
  ASSUME Inv, Depth > 0, NEW f \in Frames, SetTop(f)
  PROVE  /\ frames \in Seq(Frames) /\ frames' \in Seq(Frames)
         /\ Depth \in Nat /\ Depth' = Depth
         /\ frames'[Depth] = f /\ Top = frames[Depth]
         /\ \A i \in 1..Depth : i # Depth => frames'[i] = frames[i]
BY DEF Inv, TypeOK, Frames, SetTop, Depth, Top

\* The innermost activation notes something in its frame, or moves the
\* address in it to the instruction before.
LEMMA TopStep ==
  ASSUME Inv, Depth > 0, NEW f \in Frames, SetTop(f),
         f.ctx.regs = Top.ctx.regs, f.ctx.ie = Top.ctx.ie,
         f.cause = Top.cause, f.page = Top.page,
         UNCHANGED <<gen, depth, icache>>
  PROVE  /\ StackInv' /\ CacheInv'
         /\ frames'[1].ctx.regs = frames[1].ctx.regs
         /\ Trapper(Depth)' = Trapper(Depth)
         /\ OfUser(Depth)' <=> OfUser(Depth)
<1>1. /\ Depth \in Nat /\ Depth' = Depth /\ frames'[Depth] = f
      /\ Top = frames[Depth]
      /\ \A i \in 1..Depth : i # Depth => frames'[i] = frames[i]
  BY TopTypes
<1>2. Base' = Base /\ (Booting' <=> Booting) /\ \A i : OfUser(i)' <=> OfUser(i)
  BY DEF Base, Booting, OfUser
<1>3. \A i \in 1..Depth : /\ frames'[i].ctx.regs = frames[i].ctx.regs
                          /\ frames'[i].ctx.ie = frames[i].ctx.ie
                          /\ frames'[i].cause = frames[i].cause
                          /\ frames'[i].page = frames[i].page
  BY <1>1
<1>4. 1 \in 1..Depth /\ Depth \in 1..Depth
  BY <1>1
<1>5. StackInv'
  BY <1>1, <1>2, <1>3 DEF Inv, StackInv
<1>6. CacheInv'
  BY <1>1, <1>2, <1>3, <1>4 DEF Inv, CacheInv
<1>7. Trapper(Depth)' = Trapper(Depth) /\ (OfUser(Depth)' <=> OfUser(Depth))
  BY <1>1, <1>2, <1>3, <1>4 DEF Trapper, OfUser
<1> QED
  BY <1>3, <1>4, <1>5, <1>6, <1>7

LEMMA TopBelow ==
  ASSUME Inv, BelowInv, Depth > 0, NEW f \in Frames, SetTop(f),
         \A r \in Suspending : f.ctx.pc \in {Kernel(r), Back(Kernel(r))} =>
                               Top.ctx.pc \in {Kernel(r), Back(Kernel(r))},
         UNCHANGED <<tlb, gen, queue, done>>
  PROVE  BelowInv'
<1>1. /\ Depth \in Nat /\ Depth' = Depth /\ frames'[Depth] = f
      /\ Top = frames[Depth]
      /\ \A i \in 1..Depth : i # Depth => frames'[i] = frames[i]
  BY TopTypes
<1> SUFFICES ASSUME NEW i \in 1..(Depth - 1), NEW r \in Suspending,
                    frames'[i + 1].ctx.pc \in {Kernel(r), Back(Kernel(r))}
             PROVE  /\ FrameAt(i, r)' /\ Trapper(i)' \in Asids
                    /\ r = Finish => frames'[i].cause # "TLB"
  BY <1>1 DEF BelowInv
<1>2. frames'[i] = frames[i] /\ frames'[1] = frames[1]
  BY <1>1
<1>3. frames[i + 1].ctx.pc \in {Kernel(r), Back(Kernel(r))}
  BY <1>1
<1> QED
  BY <1>2, <1>3, FramesBelow DEF BelowInv

\* handleTrap holds a guard on the thread from here on.
LEMMA BorrowThreadInv == ASSUME Inv, BorrowThread PROVE Inv'
<1> USE DEF tlbVars
<1> DEFINE f == [Top EXCEPT !.old = current]
<1>1. /\ ~Doomed /\ BelowInv /\ Stage(Borrow) /\ Depth \in Nat /\ Depth > 0
      /\ depth > 0 /\ regs = <<KernelAsid, depth>> /\ ie = FALSE
  BY RunsAt DEF BorrowThread, Inside, Borrow, Leave, Boot
<1>2. /\ SetTop(f) /\ current' = KernelAsid /\ Goto(Handle)
      /\ UNCHANGED <<tlbVars, regs, icache, depth, regCtx, gen, queue, done>>
  BY DEF BorrowThread
<1>3. Top \in Frames
  BY <1>1, TopFrame
<1>4. /\ f \in Frames /\ f.old = current /\ f.ctx = Top.ctx /\ f.cause = Top.cause
      /\ f.page = Top.page /\ f.req = Top.req
  BY <1>3 DEF Frames, Inv, TypeOK
<1> HIDE DEF f
<1>5. /\ frames' \in Seq(Frames) /\ Depth' = Depth /\ frames'[Depth] = f
      /\ Top = frames[Depth]
  BY <1>1, <1>2, <1>4, TopTypes
<1>6. /\ StackInv' /\ CacheInv' /\ BelowInv'
      /\ frames'[1].ctx.regs = frames[1].ctx.regs
      /\ Trapper(Depth)' = Trapper(Depth) /\ (OfUser(Depth)' <=> OfUser(Depth))
  BY <1>1, <1>2, <1>4, TopStep, TopBelow
<1>7. TlbInv' /\ QueueInv'
  BY <1>2, TlbSame, QueueSame DEF Inv
<1>8. /\ pc' = Kernel(Handle) /\ ie' = FALSE /\ UNCHANGED <<epc, exl, trap>>
      /\ pc' \in Address /\ RunInv' /\ (Stage(Handle)' => PointInv')
  <2>1. Handle \in Inside \ {Leave}
    BY DEF Inside, Handle, Leave
  <2> QED
    BY <1>1, <1>2, <2>1, Onward
<1>9. TypeOK'
  BY <1>2, <1>5, <1>8 DEF Inv, TypeOK, TlbTypeOK, Frames, Processes
<1>10. Stage(Handle)'
  <2>1. FrameAt(Depth, Borrow) /\ current = Trapper(Depth)
    BY <1>1 DEF Stage
  <2>2. FrameAt(Depth, Handle)'
    <3>1. CASE OfUser(Depth)
      <4>1. UserFrame(Depth, Borrow) /\ current = frames[Depth].ctx.regs[1]
        BY <2>1, <3>1 DEF FrameAt, Trapper, OfUser
      <4>2. UserFrame(Depth, Handle)'
        BY <1>2, <1>4, <1>5, <4>1
           DEF UserFrame, Queued, TrapPc, NoEntry, Borrow, Handle, Copy, Finish,
               Save, Sched, Leave, Boot
      <4> QED
        BY <1>6, <3>1, <4>2 DEF FrameAt
    <3>2. CASE ~OfUser(Depth)
      <4>1. KernelFrame(Depth, Borrow)
        BY <2>1, <3>2 DEF FrameAt
      <4>2. KernelFrame(Depth, Handle)'
        BY <1>2, <1>4, <1>5, <1>6, <2>1, <4>1
           DEF KernelFrame, NoEntry, Booting, Borrow, Handle
      <4> QED
        BY <1>6, <3>2, <4>2 DEF FrameAt
    <3> QED
      BY <3>1, <3>2
  <2> QED
    BY <1>1, <1>2, <1>5, <2>2
       DEF Stage, Borrow, Handle, Copy, Finish, Save, Sched, Boot
<1> QED
  BY <1>6, <1>7, <1>8, <1>9, <1>10 DEF Inv

\* The activation of a trap that user code took is the only one.
LEMMA UserTop ==
  ASSUME Inv, NEW l \in Inside \ {Leave, Boot}, Runs(l), OfUser(Depth)
  PROVE  /\ Depth = 1 /\ ~Booting /\ Top = frames[1] /\ Top \in Frames
         /\ UserFrame(1, l) /\ Stage(l)
         /\ Top.ctx.regs[1] \in Asids
         /\ Top.ctx.regs[2] = gen[Top.ctx.regs[1]]
         /\ Top.ctx.ie = FALSE
<1>1. Stage(l) /\ Depth = 1 /\ ~Booting
  BY RunsAt DEF OfUser
<1>2. Top \in Frames /\ Top = frames[1]
  BY <1>1, TopFrame
<1>3. UserFrame(1, l)
  BY <1>1 DEF Stage, FrameAt
<1> QED
  BY <1>1, <1>2, <1>3 DEF Inv, StackInv

LEMMA UserStage ==
  ASSUME NEW r, r # Boot, Depth' = 1, ~Booting', UserFrame(1, r)',
         r \in {Handle, Finish, Sched} => current' = KernelAsid,
         r \in {Borrow, Copy, Save} => current' = frames'[1].ctx.regs[1],
         r \in {Copy, Save} \/ (r = Finish /\ frames'[1].cause = "TLB")
           => asid' = frames'[1].ctx.regs[1]
  PROVE  Stage(r)' /\ BelowInv'
<1>1. OfUser(1)' /\ Trapper(1)' = frames'[1].ctx.regs[1]
  BY DEF OfUser, Trapper
<1> QED
  BY <1>1 DEF Stage, FrameAt, BelowInv, Boot, Handle, Finish, Sched

\* The requests and exceptions of user code that leave the rest alone.
LEMMA UserDispatch ==
  ASSUME Inv, Runs(Handle), OfUser(Depth), NEW f \in Frames,
         f.ctx.regs = Top.ctx.regs, f.ctx.ie = FALSE,
         f.cause = Top.cause, f.page = Top.page,
         SetTop(f), NEW m \in {Finish, Copy}, Goto(m),
         current' \in Processes, TlbTypeOK',
         UNCHANGED <<tlb, regs, icache, depth, regCtx, gen, queue, done>>,
         UserFrame(1, m)',
         m = Finish => current' = KernelAsid,
         m = Copy => current' = Top.ctx.regs[1],
         m = Copy \/ Top.cause = "TLB" => asid' = Top.ctx.regs[1]
  PROVE  Inv'
<1>1. /\ depth > 0 /\ regs = <<KernelAsid, depth>> /\ ie = FALSE
      /\ Depth = 1 /\ ~Booting /\ Top = frames[1] /\ Top.ctx.ie = FALSE
  <2>1. Handle \in Inside \ {Leave, Boot}
    BY DEF Inside, Handle, Leave, Boot
  <2> QED
    BY <2>1, RunsAt, UserTop
<1>2. /\ pc' = Kernel(m) /\ ie' = FALSE /\ UNCHANGED <<epc, exl, trap>>
      /\ pc' \in Address /\ RunInv' /\ (Stage(m)' => PointInv')
  <2>1. m \in Inside \ {Leave}
    BY DEF Inside, Finish, Copy, Leave
  <2> QED
    BY <1>1, <2>1, Onward
<1>3. frames' \in Seq(Frames) /\ Depth' = 1 /\ frames'[1] = f
  BY <1>1, TopTypes
<1>4. StackInv' /\ CacheInv'
  <2>1. f.ctx.ie = Top.ctx.ie
    BY <1>1
  <2> QED
    BY <1>1, <2>1, TopStep
<1>5. TlbInv' /\ QueueInv'
  BY TlbSame, QueueSame DEF Inv
<1>6. TypeOK'
  BY <1>2, <1>3 DEF Inv, TypeOK, Frames
<1>7. Stage(m)' /\ BelowInv'
  <2>1. m # Boot /\ m \notin {Handle, Sched, Borrow, Save} /\ ~Booting'
    BY <1>1 DEF Boot, Handle, Sched, Borrow, Save, Finish, Copy, Booting
  <2>2. frames'[1].cause = Top.cause /\ frames'[1].ctx.regs = Top.ctx.regs
    BY <1>3
  <2> QED
    BY <1>3, <2>1, <2>2, UserStage DEF Finish, Copy
<1> QED
  BY <1>2, <1>4, <1>5, <1>6, <1>7 DEF Inv

LEMMA HandleInterruptInv == ASSUME Inv, HandleInterrupt PROVE Inv'
<1> USE DEF tlbVars
<1> DEFINE f == [Top EXCEPT !.ctx.pc = Back(@)]
           p == Top.ctx.regs[1]
<1>1. /\ Runs(Handle) /\ Top.cause = "INTERRUPT" /\ SetTop(f) /\ Goto(Finish)
      /\ UNCHANGED <<tlbVars, regs, icache, depth, current, regCtx, gen, queue, done>>
  BY DEF HandleInterrupt
<1>2. Handle \in Inside \ {Leave, Boot}
  BY DEF Inside, Handle, Leave, Boot
<1>3. Depth \in Nat \ {0}
  BY <1>1, <1>2, RunsAt
<1>4. OfUser(Depth)
  BY <1>1, <1>3, TopFrame, NotNested DEF Inv
<1>5. /\ Depth = 1 /\ ~Booting /\ Top = frames[1] /\ Top \in Frames
      /\ UserFrame(1, Handle) /\ Stage(Handle) /\ p \in Asids
      /\ Top.ctx.ie = FALSE
  BY <1>1, <1>2, <1>4, UserTop
<1>6. Top.ctx.pc = User(done[p]) /\ done[p] \in 0..MaxInstr
  BY <1>1, <1>5 DEF UserFrame, Handle, Borrow, TrapPc, Inv, TypeOK, Processes
<1>7. Back(Top.ctx.pc) = User(done[p] - 1) /\ User(done[p] - 1) \in Address
  <2>1. done[p] - 1 \in -1..MaxInstr
    BY <1>6, KernelTrapAssumption DEF KernelTrapAssumption
  <2> QED
    BY <1>6, <2>1, AddressTypes DEF Back, User
<1>8. /\ f \in Frames /\ f.old = Top.old /\ f.cause = Top.cause /\ f.page = Top.page
      /\ f.ctx.regs = Top.ctx.regs /\ f.ctx.ie = Top.ctx.ie
      /\ f.ctx.pc = User(done[p] - 1)
  BY <1>5, <1>7 DEF Frames, Contexts
<1> HIDE DEF f
<1>9. Depth' = 1 /\ frames'[1] = f
  BY <1>1, <1>5, <1>8, TopTypes
<1>10. UserFrame(1, Finish)'
  BY <1>1, <1>5, <1>8, <1>9
     DEF UserFrame, Queued, Borrow, Handle, Copy, Finish, Save, Sched, Leave, Boot
<1>11. current = KernelAsid
  BY <1>5 DEF Stage
<1>12. current' \in Processes /\ TlbTypeOK'
  BY <1>1 DEF Inv, TypeOK, TlbTypeOK
<1>13. Finish # Copy
  BY DEF Finish, Copy
<1> QED
  BY <1>1, <1>4, <1>5, <1>8, <1>10, <1>11, <1>12, <1>13, UserDispatch

\* A process that asks for something is behind its system call.
LEMMA SyscallTop ==
  ASSUME Inv, NEW req, Syscall(req)
  PROVE  /\ OfUser(Depth) /\ Depth = 1 /\ ~Booting
         /\ Top = frames[1] /\ Top \in Frames /\ Top.cause = "SYSCALL"
         /\ UserFrame(1, Handle) /\ Stage(Handle) /\ current = KernelAsid
         /\ Top.ctx.regs[1] \in Asids /\ Top.old = Top.ctx.regs[1]
         /\ Top.ctx.regs[2] = gen[Top.ctx.regs[1]]
         /\ Top.ctx.ie = FALSE
         /\ Top.ctx.pc = User(done[Top.ctx.regs[1]] - 1)
         /\ ~Queued(Top.ctx.regs[1])
<1>1. Runs(Handle) /\ Top.cause = "SYSCALL"
  BY DEF Syscall
<1>2. Handle \in Inside \ {Leave, Boot}
  BY DEF Inside, Handle, Leave, Boot
<1>3. Depth \in Nat \ {0}
  BY <1>1, <1>2, RunsAt
<1>4. OfUser(Depth)
  BY <1>1, <1>3, TopFrame, NotNested DEF Inv
<1>5. /\ Depth = 1 /\ ~Booting /\ Top = frames[1] /\ Top \in Frames
      /\ UserFrame(1, Handle) /\ Stage(Handle) /\ Top.ctx.regs[1] \in Asids
      /\ Top.ctx.regs[2] = gen[Top.ctx.regs[1]]
      /\ Top.ctx.ie = FALSE
  BY <1>1, <1>2, <1>4, UserTop
<1>6. /\ Top.old = Top.ctx.regs[1] /\ ~Queued(Top.ctx.regs[1])
      /\ Top.ctx.pc = User(done[Top.ctx.regs[1]] - 1)
  BY <1>1, <1>5 DEF UserFrame, TrapPc, Handle, Sched, Leave
<1>7. current = KernelAsid
  BY <1>5 DEF Stage
<1> QED
  BY <1>1, <1>4, <1>5, <1>6, <1>7

LEMMA TopUnchanged ==
  ASSUME Inv, Depth > 0, UNCHANGED frames
  PROVE  SetTop(Top)
<1>1. frames \in Seq(Frames)
  BY DEF Inv, TypeOK, Frames
<1> QED
  BY <1>1 DEF SetTop, Top, Depth

LEMMA HandlePlainInv == ASSUME Inv, HandlePlain PROVE Inv'
<1> USE DEF tlbVars, kernelVars
<1>1. PICK req : Syscall(req)
  BY DEF HandlePlain
<1>2. /\ OfUser(Depth) /\ Depth = 1 /\ Top = frames[1] /\ Top \in Frames
      /\ UserFrame(1, Handle) /\ current = KernelAsid
      /\ Top.ctx.ie = FALSE /\ Top.cause = "SYSCALL"
      /\ Top.old = Top.ctx.regs[1]
      /\ Top.ctx.pc = User(done[Top.ctx.regs[1]] - 1)
      /\ ~Queued(Top.ctx.regs[1])
  BY <1>1, SyscallTop
<1>3. Runs(Handle) /\ Goto(Finish) /\ UNCHANGED <<tlbVars, regs, icache, kernelVars, done>>
  BY <1>1 DEF HandlePlain, Syscall
<1>4. SetTop(Top)
  BY <1>2, <1>3, TopUnchanged
<1>5. UserFrame(1, Finish)'
  BY <1>2, <1>3 DEF UserFrame, Queued, Borrow, Handle, Copy, Finish, Save, Sched,
                    Leave, Boot
<1>6. current' \in Processes /\ TlbTypeOK' /\ Finish # Copy
  BY <1>3 DEF Inv, TypeOK, TlbTypeOK, Finish, Copy
<1> QED
  BY <1>2, <1>3, <1>4, <1>5, <1>6, UserDispatch

LEMMA HandleReadInv == ASSUME Inv, HandleRead PROVE Inv'
<1>1. /\ OfUser(Depth) /\ Depth = 1 /\ Top = frames[1] /\ Top \in Frames
      /\ UserFrame(1, Handle)
      /\ Top.ctx.ie = FALSE /\ Top.cause = "SYSCALL"
      /\ Top.old = Top.ctx.regs[1] /\ Top.ctx.regs[1] \in Asids
      /\ Top.ctx.pc = User(done[Top.ctx.regs[1]] - 1)
      /\ ~Queued(Top.ctx.regs[1])
  BY SyscallTop DEF HandleRead
<1>2. /\ Runs(Handle) /\ Goto(Copy) /\ current' = Top.old /\ asid' = Top.old
      /\ UNCHANGED <<tlb, random, regs, icache, depth, frames, regCtx, gen, queue, done>>
  BY DEF HandleRead, Syscall
<1>3. SetTop(Top)
  BY <1>1, <1>2, TopUnchanged
<1>4. UserFrame(1, Copy)'
  BY <1>1, <1>2 DEF UserFrame, Queued, Borrow, Handle, Copy, Finish, Save, Sched,
                    Leave, Boot
<1>5. current' \in Processes /\ TlbTypeOK' /\ Finish # Copy
  BY <1>1, <1>2 DEF Inv, TypeOK, TlbTypeOK, Processes, Finish, Copy
<1> QED
  BY <1>1, <1>2, <1>3, <1>4, <1>5, UserDispatch

\* A process that ends is not the thread of the frame any longer.
LEMMA HandleExitInv == ASSUME Inv, HandleExit PROVE Inv'
<1> USE DEF tlbVars
<1> DEFINE f == [Top EXCEPT !.old = NoProc]
<1>1. PICK req : Syscall(req)
  BY DEF HandleExit
<1>2. /\ OfUser(Depth) /\ Depth = 1 /\ Top = frames[1] /\ Top \in Frames
      /\ UserFrame(1, Handle) /\ current = KernelAsid
      /\ Top.ctx.ie = FALSE /\ Top.cause = "SYSCALL"
      /\ Top.ctx.regs[1] \in Asids /\ ~Queued(Top.ctx.regs[1])
  BY <1>1, SyscallTop
<1>3. /\ Runs(Handle) /\ SetTop(f) /\ Goto(Finish)
      /\ UNCHANGED <<tlbVars, regs, icache, depth, current, regCtx, gen, queue, done>>
  BY <1>1 DEF HandleExit, Syscall
<1>4. /\ f \in Frames /\ f.old = NoProc /\ f.cause = Top.cause /\ f.page = Top.page
      /\ f.ctx = Top.ctx
  BY <1>2 DEF Frames
<1> HIDE DEF f
<1>5. Depth' = 1 /\ frames'[1] = f
  BY <1>2, <1>3, <1>4, TopTypes
<1>6. NoProc \notin Asids
  BY KernelTrapAssumption DEF KernelTrapAssumption
<1>7. UserFrame(1, Finish)'
  BY <1>2, <1>3, <1>4, <1>5, <1>6
     DEF UserFrame, Queued, Borrow, Handle, Copy, Finish, Save, Sched, Leave, Boot
<1>8. current' \in Processes /\ TlbTypeOK' /\ Finish # Copy
  BY <1>3 DEF Inv, TypeOK, TlbTypeOK, Finish, Copy
<1> QED
  BY <1>2, <1>3, <1>4, <1>7, <1>8, UserDispatch

LEMMA HaltInv == ASSUME Inv, ~Doomed, Halt PROVE Inv'
<1> USE DEF tlbVars, kernelVars
<1>1. pc' = Halted /\ UNCHANGED <<tlbVars, regs, epc, ie, exl, trap, icache,
                                  kernelVars, done>>
  BY DEF Halt
<1>2. TypeOK'
  BY <1>1, AddressTypes DEF Inv, TypeOK, TlbTypeOK
<1>3. TlbInv' /\ StackInv' /\ QueueInv' /\ BelowInv'
  BY <1>1, TlbSame, StackSame, QueueSame, BelowSame DEF Inv
<1>4. CacheInv'
  BY <1>1 DEF Inv, CacheInv, Depth, Booting
<1> QED
  BY <1>1, <1>2, <1>3, <1>4, ToHalt DEF Inv

LEMMA StopsInv == ASSUME Inv, HandleFault \/ NoAsidLeft PROVE Inv'
<1>1. Runs(Handle) /\ Halt
  BY DEF HandleFault, NoAsidLeft, Syscall
<1>2. ~Doomed
  BY <1>1, RunsAt DEF Inside
<1> QED
  BY <1>1, <1>2, HaltInv

\* The loop of READ_STRING misses as the process, on its pages.
LEMMA CopyStringInv == ASSUME Inv, CopyString PROVE Inv'
<1> USE DEF tlbVars
<1>1. /\ At(Copy)
      /\ UNCHANGED <<tlbVars, regs, icache, depth, frames, regCtx, gen, queue, done>>
  BY DEF CopyString
<1>2. PICK page \in UserPages \ {TextPage} :
        IF Hits(page) = {}
          THEN Raise("TLB", page, "plain", pc) /\ UNCHANGED current
          ELSE current' = KernelAsid /\ Goto(Finish)
  BY DEF CopyString
<1>3. Copy \in Inside /\ Copy \notin {Leave, Borrow, Save, Boot}
  BY DEF Inside, Copy, Leave, Borrow, Save, Boot
<1>4. /\ depth > 0 /\ regs = <<KernelAsid, depth>> /\ ie = FALSE
      /\ Stage(Copy) /\ ~Doomed /\ Depth \in Nat /\ BelowInv
  BY <1>1, <1>3, AtInside DEF Inv
<1>5. Depth # 0 /\ FrameAt(Depth, Copy) /\ current = Trapper(Depth)
  BY <1>3, <1>4 DEF Stage
<1>6. OfUser(Depth) /\ Depth = 1 /\ ~Booting
  BY <1>5 DEF FrameAt, KernelFrame, OfUser, Borrow, Handle, Copy, Finish, Save, Leave
<1>7. UserFrame(1, Copy) /\ current = frames[1].ctx.regs[1]
  BY <1>5, <1>6 DEF FrameAt, Trapper
<1>8. current \in Asids /\ asid = current
  BY <1>4, <1>5, <1>6, <1>7 DEF Inv, StackInv, Stage
<1>9. TlbInv' /\ StackInv' /\ QueueInv' /\ BelowInv'
  BY <1>1, <1>4, TlbSame, StackSame, QueueSame, BelowSame DEF Inv
<1>10. CacheInv'
  BY <1>1, <1>6 DEF Inv, CacheInv, Depth, Booting
<1>11. CASE Hits(page) = {}
  <2>1. /\ pc' = Kernel(Enter) /\ epc' = Kernel(Copy) /\ exl' = TRUE /\ ie' = FALSE
        /\ trap' = [cause |-> "TLB", page |-> page, req |-> "plain"]
        /\ current' = current
    BY <1>1, <1>2, <1>11 DEF Raise, At
  <2>2. TypeOK'
    <3>1. Kernel(Enter) \in Address /\ Kernel(Copy) \in Address
      BY AddressTypes DEF Labels
    <3> QED
      BY <1>1, <2>1, <3>1 DEF Inv, TypeOK, TlbTypeOK, Causes, Requests
  <2>3. Entering'
    <3>1. Stage(Copy)' /\ Copy \in Suspending
      BY <1>1, <1>4, <2>1, StageSame DEF Suspending
    <3>2. Trapper(Depth)' \in Asids
      BY <1>1, <1>5, <1>8, FrameSame
    <3>3. NoEntry(trap.page, current)'
      BY <1>1, <1>8, <1>11, <2>1, Missing DEF Inv, NoEntry
    <3>4. Copy # Finish /\ depth' # 0
      BY <1>1, <1>4 DEF Copy, Finish
    <3> QED
      BY <2>1, <3>1, <3>2, <3>3, <3>4 DEF Entering
  <2>4. RunInv' /\ PointInv'
    BY <1>1, <1>4, <2>1, <2>3, ToEnter
  <2> QED
    BY <1>9, <1>10, <2>2, <2>4 DEF Inv
<1>12. CASE Hits(page) # {}
  <2>1. current' = KernelAsid /\ Goto(Finish)
    BY <1>2, <1>12
  <2>2. /\ pc' = Kernel(Finish) /\ ie' = FALSE /\ UNCHANGED <<epc, exl, trap>>
        /\ pc' \in Address /\ RunInv' /\ (Stage(Finish)' => PointInv')
    <3>1. Finish \in Inside \ {Leave}
      BY DEF Inside, Finish, Leave
    <3> QED
      BY <1>1, <1>4, <2>1, <3>1, Onward
  <2>3. TypeOK'
    BY <1>1, <2>1, <2>2 DEF Inv, TypeOK, TlbTypeOK, Processes
  <2>4. UserFrame(1, Finish)'
    BY <1>1, <1>7 DEF UserFrame, Queued, Borrow, Handle, Copy, Finish, Save, Sched,
                      Leave, Boot
  <2>5. frames'[1].cause = "SYSCALL"
    BY <1>1, <1>7 DEF UserFrame
  <2>6. Finish \notin {Boot, Borrow, Copy, Save} /\ Depth' = 1 /\ ~Booting'
    BY <1>1, <1>6 DEF Finish, Boot, Borrow, Copy, Save, Depth, Booting
  <2>7. Stage(Finish)'
    BY <2>1, <2>4, <2>5, <2>6, UserStage
  <2> QED
    BY <1>9, <1>10, <2>2, <2>3, <2>7 DEF Inv
<1> QED
  BY <1>11, <1>12

-----------------------------------------------------------------------------
(* A miss is answered *)

\* Whose page table handleTrap walks: the page missed in has no entry.
LEMMA MissTop ==
  ASSUME Inv, Runs(Handle), Top.cause = "TLB"
  PROVE  /\ Stage(Handle) /\ Depth \in Nat \ {0} /\ Top = frames[Depth]
         /\ Top \in Frames /\ Top.old = Trapper(Depth)
         /\ NoEntry(Top.page, Top.old)
         /\ \/ Top.old \in Asids /\ Top.page \in UserPages
            \/ Top.old = KernelAsid /\ Top.page \in KernelPages
<1>1. Handle \in Inside \ {Leave, Boot}
  BY DEF Inside, Handle, Leave, Boot
<1>2. Stage(Handle) /\ Depth \in Nat \ {0} /\ FrameAt(Depth, Handle)
  <2>1. Stage(Handle) /\ Depth \in Nat \ {0}
    BY <1>1, RunsAt
  <2> QED
    BY <2>1 DEF Stage
<1>3. Top = frames[Depth] /\ Top \in Frames
  BY <1>2, TopFrame
<1>4. Top.page \in UserPages \cup KernelPages
  BY <1>3 DEF Frames
<1>5. CASE OfUser(Depth)
  <2>1. UserFrame(1, Handle) /\ Depth = 1 /\ Top.ctx.regs[1] \in Asids
    BY <1>1, <1>5, UserTop
  <2> QED
    BY <1>2, <1>3, <1>5, <2>1 DEF UserFrame, Trapper, Handle, Borrow
<1>6. CASE ~OfUser(Depth)
  <2>1. KernelFrame(Depth, Handle)
    BY <1>2, <1>6 DEF FrameAt
  <2>2. Top.old = Trapper(Depth) /\ NoEntry(Top.page, Top.old)
    BY <1>3, <2>1 DEF KernelFrame, Handle, Borrow
  <2>3. CASE Top.page \in UserPages
    <3>1. Depth = 2 /\ OfUser(1) /\ Top.old = frames[1].ctx.regs[1]
      BY <1>3, <2>1, <2>2, <2>3 DEF KernelFrame, Trapper, OfUser
    <3>2. frames[1].ctx.regs[1] \in Asids
      BY <3>1 DEF Inv, StackInv
    <3> QED
      BY <1>2, <1>3, <2>2, <2>3, <3>1, <3>2
  <2>4. CASE Top.page \notin UserPages
    <3>1. Top.old = KernelAsid
      BY <1>3, <1>6, <2>2, <2>4 DEF Trapper
    <3> QED
      BY <1>2, <1>3, <1>4, <2>2, <2>4, <3>1
  <2> QED
    BY <2>3, <2>4
<1> QED
  BY <1>5, <1>6

\* The entry that is written is the only one of its page.
LEMMA FillInv ==
  ASSUME TypeOK, TlbInv, NEW p \in Processes, NEW page \in UserPages \cup KernelPages,
         page \in KernelPages <=> p = KernelAsid,
         NoEntry(page, p), WriteRandom(Translated(p, page))
  PROVE  /\ TlbInv' /\ TlbTypeOK'
         /\ asid' = p
         /\ \A q, a : a # p /\ NoEntry(q, a) => NoEntry(q, a)'
<1> DEFINE e == Translated(p, page)
<1>1. /\ e.page = page /\ e.asid = p /\ (e.global <=> p = KernelAsid) /\ e \in Entry
  <2>1. gen[p] \in Nat
    BY KernelTrapAssumption DEF TypeOK, KernelTrapAssumption
  <2> QED
    BY <2>1 DEF Translated, Entry, Processes
<1> HIDE DEF e
<1>2. /\ tlb' = [tlb EXCEPT ![random] = e] /\ random' = (random + 1) % NumSlots
      /\ asid' = p
  BY <1>1 DEF WriteRandom, e
<1>3. tlb \in [Slots -> Entry \cup {Empty}] /\ random \in Slots
  BY DEF TypeOK, TlbTypeOK
<1>4. /\ tlb'[random] = e
      /\ \A s \in Slots : s # random => tlb'[s] = tlb[s]
      /\ tlb' \in [Slots -> Entry \cup {Empty}]
  BY <1>1, <1>2, <1>3
<1>5. TlbTypeOK'
  <2>1. (random + 1) % NumSlots \in Slots
    BY <1>3, KernelTrapAssumption DEF KernelTrapAssumption, TlbAssumption, Slots
  <2> QED
    BY <1>2, <1>4, <2>1 DEF TlbTypeOK, Processes
<1>6. TlbInv'
  BY <1>1, <1>3, <1>4 DEF TlbInv, NoEntry
<1>7. \A q, a : a # p /\ NoEntry(q, a) => NoEntry(q, a)'
  BY <1>1, <1>3, <1>4 DEF NoEntry
<1> QED
  BY <1>2, <1>5, <1>6, <1>7

\* The activations below are not waiting for the page.
LEMMA FillBelow ==
  ASSUME Inv, BelowInv, Runs(Handle), Top.cause = "TLB",
         NEW f \in Frames, SetTop(f), f.page = Top.page,
         \A r \in Suspending : f.ctx.pc \in {Kernel(r), Back(Kernel(r))} =>
                               Top.ctx.pc \in {Kernel(r), Back(Kernel(r))},
         UNCHANGED <<gen, queue, done>>,
         \A q, a : a # Top.old /\ NoEntry(q, a) => NoEntry(q, a)'
  PROVE  BelowInv'
<1>1. /\ Depth \in Nat \ {0} /\ Top = frames[Depth] /\ FrameAt(Depth, Handle)
      /\ \/ Top.old \in Asids /\ Top.page \in UserPages
         \/ Top.old = KernelAsid /\ Top.page \in KernelPages
  BY MissTop DEF Stage
<1>2. /\ Depth' = Depth /\ frames'[Depth] = f
      /\ \A i \in 1..Depth : i # Depth => frames'[i] = frames[i]
  BY <1>1, TopTypes
<1> SUFFICES ASSUME NEW i \in 1..(Depth - 1), NEW r \in Suspending,
                    frames'[i + 1].ctx.pc \in {Kernel(r), Back(Kernel(r))}
             PROVE  /\ FrameAt(i, r)' /\ Trapper(i)' \in Asids
                    /\ r = Finish => frames'[i].cause # "TLB"
  BY <1>2 DEF BelowInv
<1>3. frames'[i] = frames[i] /\ frames'[1] = frames[1]
  BY <1>1, <1>2
<1>4. frames[i + 1].ctx.pc \in {Kernel(r), Back(Kernel(r))}
  BY <1>1, <1>2
<1>5. /\ FrameAt(i, r) /\ Trapper(i) \in Asids
      /\ r = Finish => frames[i].cause # "TLB"
  BY <1>1, <1>4 DEF BelowInv
<1>6. Trapper(i)' = Trapper(i) /\ (OfUser(i)' <=> OfUser(i))
  BY <1>3 DEF Trapper, OfUser, Booting
<1>7. ASSUME r = Handle, NoEntry(frames[i].page, Trapper(i))
      PROVE  NoEntry(frames[i].page, Trapper(i))'
  <2>1. Top.old \notin Asids
    <3> SUFFICES ASSUME Top.page \in UserPages PROVE FALSE
      BY <1>1, KernelTrapAssumption DEF KernelTrapAssumption, TlbAssumption
    <3>1. ~OfUser(Depth)
      BY DEF OfUser
    <3>2. PICK t \in Suspending : Top.ctx.pc = Kernel(t) /\ t = Copy
      BY <1>1, <3>1 DEF FrameAt, KernelFrame, Handle, Borrow
    <3>3. Depth = 2
      BY <1>1, <3>1 DEF FrameAt, KernelFrame
    <3>4. Kernel(Copy) \in {Kernel(Handle), Back(Kernel(Handle))}
      BY <1>1, <1>4, <1>7, <3>2, <3>3
    <3> QED
      BY <3>4 DEF Kernel, Back, Copy, Handle
  <2>2. Trapper(i) # Top.old
    BY <1>5, <2>1
  <2>3. frames'[i].page = frames[i].page
    BY <1>3
  <2> QED
    BY <1>6, <1>7, <2>2, <2>3
<1>8. FrameAt(i, r)'
  <2>1. CASE OfUser(i)
    <3>1. UserFrame(i, r) /\ Trapper(i) = frames[i].ctx.regs[1]
      BY <1>5, <2>1 DEF FrameAt, Trapper, OfUser
    <3>2. r # Borrow
      BY DEF Suspending, Borrow, Handle, Copy, Finish, Sched, Boot
    <3>3. UserFrame(i, r)'
      BY <1>3, <1>6, <1>7, <3>1, <3>2 DEF UserFrame, Queued, TrapPc
    <3> QED
      BY <1>6, <2>1, <3>3 DEF FrameAt
  <2>2. CASE ~OfUser(i)
    <3>1. KernelFrame(i, r) /\ r # Borrow
      BY <1>5, <2>2
         DEF FrameAt, Suspending, Borrow, Handle, Copy, Finish, Sched, Boot
    <3>2. KernelFrame(i, r)'
      BY <1>3, <1>6, <1>7, <3>1 DEF KernelFrame, Booting
    <3> QED
      BY <1>6, <2>2, <3>2 DEF FrameAt
  <2> QED
    BY <2>1, <2>2
<1> QED
  BY <1>3, <1>5, <1>6, <1>8

\* The address in the frame of a miss, and the one handleTrap replaces it by.
LEMMA MissAddress ==
  ASSUME Inv, Runs(Handle), Top.cause = "TLB"
  PROVE  /\ Back(Top.ctx.pc) \in Address
         /\ \A r \in Suspending :
              Back(Top.ctx.pc) \in {Kernel(r), Back(Kernel(r))} =>
                Top.ctx.pc \in {Kernel(r), Back(Kernel(r))}
         /\ OfUser(Depth) => Back(Top.ctx.pc) = User(done[Top.old] - 1)
<1>1. /\ Stage(Handle) /\ Depth \in Nat \ {0} /\ Top = frames[Depth]
  BY MissTop
<1>2. CASE OfUser(Depth)
  <2> DEFINE p == Top.old
  <2>1. Handle \in Inside \ {Leave, Boot}
    BY DEF Inside, Handle, Leave, Boot
  <2>2. UserFrame(1, Handle) /\ p \in Asids /\ p = frames[1].ctx.regs[1]
    BY <1>1, <1>2, <2>1, UserTop DEF UserFrame
  <2>3. Top.ctx.pc = User(done[p]) /\ done[p] \in 0..MaxInstr
    BY <1>1, <1>2, <2>2
       DEF OfUser, UserFrame, Handle, Borrow, TrapPc, Inv, TypeOK, Processes
  <2>4. Back(Top.ctx.pc) = User(done[p] - 1) /\ done[p] - 1 \in -1..MaxInstr
    BY <2>3, KernelTrapAssumption DEF KernelTrapAssumption, Back, User
  <2>5. \A r : Back(Top.ctx.pc) \notin {Kernel(r), Back(Kernel(r))}
    BY <2>4 DEF User, Kernel, Back
  <2> QED
    BY <2>4, <2>5, AddressTypes
<1>3. CASE ~OfUser(Depth)
  <2>1. PICK t \in Suspending : Top.ctx.pc = Kernel(t)
    BY <1>1, <1>3 DEF Stage, FrameAt, KernelFrame, Handle, Borrow
  <2>2. Back(Top.ctx.pc) = Back(Kernel(t)) /\ Back(Kernel(t)) \in Address
    BY <2>1, AddressTypes
  <2> QED
    BY <1>3, <2>1, <2>2, SameStage
<1> QED
  BY <1>2, <1>3

\* Back at the instruction in front of the one that missed.
LEMMA HandleMissInv == ASSUME Inv, HandleMiss PROVE Inv'
<1> DEFINE f == [Top EXCEPT !.ctx.pc = Back(@)]
           p == Top.old
<1>1. /\ Runs(Handle) /\ Top.cause = "TLB"
      /\ WriteRandom(Translated(p, Top.page)) /\ SetTop(f) /\ Goto(Finish)
      /\ UNCHANGED <<regs, icache, depth, current, regCtx, gen, queue, done>>
  BY DEF HandleMiss
<1>2. /\ Stage(Handle) /\ Depth \in Nat \ {0} /\ Top = frames[Depth]
      /\ Top \in Frames /\ p = Trapper(Depth)
      /\ NoEntry(Top.page, p)
      /\ \/ p \in Asids /\ Top.page \in UserPages
         \/ p = KernelAsid /\ Top.page \in KernelPages
  BY <1>1, MissTop
<1>3. /\ depth > 0 /\ regs = <<KernelAsid, depth>> /\ ie = FALSE /\ BelowInv
  BY <1>1, RunsAt DEF Inside
<1>4. current = KernelAsid /\ FrameAt(Depth, Handle)
  BY <1>2 DEF Stage
<1>5. /\ f \in Frames /\ f.old = Top.old /\ f.cause = Top.cause /\ f.page = Top.page
      /\ f.ctx.regs = Top.ctx.regs /\ f.ctx.ie = Top.ctx.ie
      /\ f.ctx.pc = Back(Top.ctx.pc)
      /\ \A r \in Suspending : f.ctx.pc \in {Kernel(r), Back(Kernel(r))} =>
                               Top.ctx.pc \in {Kernel(r), Back(Kernel(r))}
      /\ OfUser(Depth) => f.ctx.pc = User(done[p] - 1)
  <2>1. f.ctx.pc = Back(Top.ctx.pc) /\ Back(Top.ctx.pc) \in Address /\ f \in Frames
    BY <1>1, <1>2, MissAddress DEF Frames, Contexts
  <2>2. /\ f.old = Top.old /\ f.cause = Top.cause /\ f.page = Top.page
        /\ f.ctx.regs = Top.ctx.regs /\ f.ctx.ie = Top.ctx.ie
    BY <1>2 DEF Frames, Contexts
  <2> HIDE DEF f
  <2> QED
    BY <1>1, <2>1, <2>2, MissAddress
<1> HIDE DEF f
<1>6. /\ frames' \in Seq(Frames) /\ Depth' = Depth /\ frames'[Depth] = f
  BY <1>1, <1>2, <1>5, TopTypes
<1>7. /\ StackInv' /\ CacheInv'
      /\ frames'[1].ctx.regs = frames[1].ctx.regs
      /\ Trapper(Depth)' = Trapper(Depth) /\ (OfUser(Depth)' <=> OfUser(Depth))
  BY <1>1, <1>2, <1>5, TopStep
<1>8. /\ TlbInv' /\ TlbTypeOK' /\ asid' = p
      /\ \A q, a : a # p /\ NoEntry(q, a) => NoEntry(q, a)'
  <2>1. p \in Processes /\ (Top.page \in KernelPages <=> p = KernelAsid)
    BY <1>2, KernelTrapAssumption DEF KernelTrapAssumption, TlbAssumption, Processes
  <2> QED
    BY <1>1, <1>2, <2>1, FillInv DEF Inv
<1>9. BelowInv'
  BY <1>1, <1>3, <1>5, <1>8, FillBelow
<1>10. QueueInv'
  BY <1>1, QueueSame DEF Inv
<1>11. /\ pc' = Kernel(Finish) /\ ie' = FALSE /\ UNCHANGED <<epc, exl, trap>>
       /\ pc' \in Address /\ RunInv' /\ (Stage(Finish)' => PointInv')
  <2>1. Finish \in Inside \ {Leave}
    BY DEF Inside, Finish, Leave
  <2> QED
    BY <1>1, <1>3, <2>1, Onward
<1>12. TypeOK'
  BY <1>1, <1>6, <1>8, <1>11 DEF Inv, TypeOK, Frames
<1>13. FrameAt(Depth, Finish)'
  <2>1. CASE OfUser(Depth)
    <3>1. UserFrame(Depth, Handle)
      BY <1>4, <2>1 DEF FrameAt
    <3>2. UserFrame(Depth, Finish)'
      BY <1>1, <1>2, <1>5, <1>6, <2>1, <3>1
         DEF UserFrame, Queued, Borrow, Handle, Copy, Finish, Save, Sched, Leave, Boot
    <3> QED
      BY <1>7, <2>1, <3>2 DEF FrameAt
  <2>2. CASE ~OfUser(Depth)
    <3>1. KernelFrame(Depth, Handle)
      BY <1>4, <2>2 DEF FrameAt
    <3>2. KernelFrame(Depth, Finish)'
      BY <1>1, <1>2, <1>5, <1>6, <1>7, <3>1
         DEF KernelFrame, Booting, Borrow, Handle, Finish
    <3> QED
      BY <1>7, <2>2, <3>2 DEF FrameAt
  <2> QED
    BY <2>1, <2>2
<1>14. Stage(Finish)'
  BY <1>1, <1>2, <1>4, <1>6, <1>7, <1>8, <1>13
     DEF Stage, Borrow, Handle, Copy, Finish, Save, Sched, Boot
<1> QED
  BY <1>7, <1>8, <1>9, <1>10, <1>11, <1>12, <1>14 DEF Inv

-----------------------------------------------------------------------------
(* Processes are replaced and created *)

LEMMA StartContext ==
  ASSUME NEW p \in Asids, gen'[p] \in 0..MaxGen
  PROVE  /\ Start(p) \in Contexts
         /\ Start(p) = Context(User(-1), <<p, gen'[p]>>, FALSE)
<1>1. User(-1) \in Address
  BY AddressTypes, KernelTrapAssumption DEF KernelTrapAssumption
<1>2. Back(User(0)) = User(-1)
  BY DEF Back, User
<1>3. <<p, gen'[p]>> \in Registers
  BY RegisterTypes
<1> QED
  BY <1>1, <1>2, <1>3, ContextType DEF Start

\* The process of the frame starts over, with a page table of its own.
LEMMA ReplacedInv ==
  ASSUME Inv, Syscall("exec"), gen[Top.old] < MaxGen,
         gen' = [gen EXCEPT ![Top.old] = @ + 1],
         SetTop([Top EXCEPT !.ctx = Start(Top.old)]),
         done' = [done EXCEPT ![Top.old] = 0], Goto(Finish),
         UNCHANGED <<tlbVars, regs, icache, depth, current, regCtx, queue>>
  PROVE  Inv'
<1> USE DEF tlbVars
<1> DEFINE p == Top.old
           f == [Top EXCEPT !.ctx = Start(p)]
<1>1. /\ Depth = 1 /\ ~Booting /\ Top = frames[1] /\ Top \in Frames
      /\ Top.cause = "SYSCALL" /\ current = KernelAsid
      /\ p \in Asids /\ p = Top.ctx.regs[1] /\ ~Queued(p)
  BY SyscallTop
<1>2. /\ depth > 0 /\ depth = Depth + Base /\ regs = <<KernelAsid, depth>> /\ ie = FALSE
  BY RunsAt DEF Syscall, Inside
<1>3. p \in Processes /\ gen \in [Processes -> 0..MaxGen]
      /\ done \in [Processes -> 0..MaxInstr] /\ gen[p] \in Nat
  <2>1. gen \in [Processes -> 0..MaxGen] /\ done \in [Processes -> 0..MaxInstr]
    BY DEF Inv, TypeOK
  <2>2. p \in Processes
    BY <1>1 DEF Processes
  <2> QED
    BY <2>1, <2>2, KernelTrapAssumption DEF KernelTrapAssumption
<1>4. /\ gen' \in [Processes -> 0..MaxGen] /\ gen'[p] = gen[p] + 1
      /\ done' \in [Processes -> 0..MaxInstr] /\ done'[p] = 0
      /\ \A q \in Processes \ {p} : gen'[q] = gen[q] /\ done'[q] = done[q]
  BY <1>3, KernelTrapAssumption DEF KernelTrapAssumption
<1>5. ~Booting'
  <2>1. 0 \in Processes
    BY KernelTrapAssumption DEF KernelTrapAssumption, Processes
  <2>2. gen[0] # 0
    BY <1>1 DEF Booting
  <2>3. gen'[0] # 0
    <3>1. CASE p = 0
      BY <1>3, <1>4, <3>1
    <3>2. CASE p # 0
      BY <1>4, <2>1, <2>2, <3>2
    <3> QED
      BY <3>1, <3>2
  <2> QED
    BY <2>3 DEF Booting
<1>6. Start(p) \in Contexts /\ Start(p) = Context(User(-1), <<p, gen'[p]>>, FALSE)
  BY <1>1, <1>3, <1>4, StartContext
<1>7. /\ f \in Frames /\ f.old = p /\ f.cause = Top.cause
      /\ f.ctx.pc = User(-1) /\ f.ctx.ie = FALSE
      /\ f.ctx.regs[1] = p /\ f.ctx.regs[2] = gen'[p]
  <2>1. /\ f \in Frames /\ f.old = p /\ f.cause = Top.cause
        /\ f.ctx = Start(p)
    BY <1>1, <1>6 DEF Frames
  <2> HIDE DEF f
  <2>2. /\ Start(p).pc = User(-1) /\ Start(p).ie = FALSE
        /\ Start(p).regs = <<p, gen'[p]>>
    BY <1>6 DEF Context
  <2> QED
    BY <2>1, <2>2
<1> HIDE DEF f
<1>8. SetTop(f)
  BY DEF f
<1>9. frames' \in Seq(Frames) /\ Depth' = 1 /\ frames'[1] = f
  BY <1>1, <1>7, <1>8, TopTypes
<1>10. TlbInv'
  BY TlbSame DEF Inv
<1>11. StackInv'
  BY <1>1, <1>2, <1>5, <1>7, <1>9 DEF StackInv, Base, OfUser
<1>12. QueueInv'
  <2>1. \A i \in 1..Len(queue) : queue[i] \in Processes \ {p}
    BY <1>1 DEF Queued, Inv, TypeOK, Processes
  <2>2. \A i \in 1..Len(queue) : /\ gen'[queue[i]] = gen[queue[i]]
                                  /\ done'[queue[i]] = done[queue[i]]
    BY <1>4, <2>1
  <2>3. ASSUME NEW i \in 1..Len(queue')
        PROVE  (regCtx[queue[i]] = Resumed(queue[i]))'
    <3>1. regCtx[queue[i]] = Resumed(queue[i])
      BY DEF Inv, QueueInv
    <3> QED
      BY <2>2, <3>1 DEF Resumed
  <2>4. \A i, j \in 1..Len(queue') : queue'[i] = queue'[j] => i = j
    BY DEF Inv, QueueInv
  <2> QED
    BY <1>5, <2>3, <2>4 DEF QueueInv
<1>13. CacheInv'
  BY <1>1, <1>5, <1>7, <1>9 DEF Inv, CacheInv
<1>14. /\ pc' = Kernel(Finish) /\ ie' = FALSE /\ UNCHANGED <<epc, exl, trap>>
       /\ pc' \in Address /\ RunInv' /\ (Stage(Finish)' => PointInv')
  <2>1. Finish \in Inside \ {Leave}
    BY DEF Inside, Finish, Leave
  <2> QED
    BY <1>2, <2>1, Onward
<1>15. TypeOK'
  BY <1>4, <1>9, <1>14 DEF Inv, TypeOK, TlbTypeOK, Frames
<1>16. UserFrame(1, Finish)'
  <2>1. \A i \in 1..Len(queue') : queue'[i] # p
    BY <1>1 DEF Queued
  <2>2. User(done'[p] - 1) = User(-1)
    BY <1>4
  <2> QED
    BY <1>7, <1>9, <2>1, <2>2
       DEF UserFrame, Queued, Borrow, Handle, Copy, Finish, Save, Sched, Leave, Boot
<1>17. Stage(Finish)' /\ BelowInv'
  <2>1. Finish \notin {Boot, Borrow, Copy, Save}
    BY DEF Finish, Boot, Borrow, Copy, Save
  <2> QED
    BY <1>1, <1>5, <1>7, <1>9, <1>16, <2>1, UserStage
<1> QED
  BY <1>10, <1>11, <1>12, <1>13, <1>14, <1>15, <1>17 DEF Inv

LEMMA HandleExecInv == ASSUME Inv, HandleExec PROVE Inv'
<1> USE DEF tlbVars
<1>1. /\ Syscall("exec") /\ Runs(Handle) /\ Goto(Finish)
      /\ UNCHANGED <<tlbVars, regs, icache, depth, current, regCtx, queue>>
  BY DEF HandleExec, Syscall
<1>2. CASE UNCHANGED <<gen, frames, done>>
  <2>1. /\ OfUser(Depth) /\ Depth = 1 /\ Top = frames[1] /\ Top \in Frames
        /\ UserFrame(1, Handle) /\ current = KernelAsid
        /\ Top.ctx.ie = FALSE /\ Top.cause = "SYSCALL"
        /\ Top.old = Top.ctx.regs[1]
        /\ Top.ctx.pc = User(done[Top.ctx.regs[1]] - 1)
        /\ ~Queued(Top.ctx.regs[1])
    BY <1>1, SyscallTop
  <2>2. SetTop(Top)
    BY <1>2, <2>1, TopUnchanged
  <2>3. UserFrame(1, Finish)'
    BY <1>1, <1>2, <2>1 DEF UserFrame, Queued, Borrow, Handle, Copy, Finish, Save,
                            Sched, Leave, Boot
  <2>4. current' \in Processes /\ TlbTypeOK' /\ Finish # Copy
    BY <1>1 DEF Inv, TypeOK, TlbTypeOK, Finish, Copy
  <2> QED
    BY <1>1, <1>2, <2>1, <2>2, <2>3, <2>4, UserDispatch
<1>3. CASE /\ gen[Top.old] < MaxGen
           /\ gen' = [gen EXCEPT ![Top.old] = @ + 1]
           /\ SetTop([Top EXCEPT !.ctx = Start(Top.old)])
           /\ done' = [done EXCEPT ![Top.old] = 0]
  BY <1>1, <1>3, ReplacedInv
<1> QED
  BY <1>2, <1>3 DEF HandleExec

\* The child is queued with the context of the parent, in the address space
\* of no other process.
LEMMA HandleForkInv == ASSUME Inv, HandleFork PROVE Inv'
<1> USE DEF tlbVars
<1> DEFINE p == Top.ctx.regs[1]
<1>1. /\ Syscall("fork") /\ Goto(Finish)
      /\ UNCHANGED <<tlbVars, regs, icache, depth, frames, current>>
  BY DEF HandleFork
<1>2. PICK child \in FreeAsids :
       /\ gen' = [gen EXCEPT ![child] = @ + 1]
       /\ regCtx' = [regCtx EXCEPT ![child] =
                       [Top.ctx EXCEPT !.regs = <<child, gen'[child]>>]]
       /\ queue' = Append(queue, child)
       /\ done' = [done EXCEPT ![child] = done[Top.old]]
  BY DEF HandleFork
<1>3. /\ OfUser(Depth) /\ Depth = 1 /\ ~Booting
      /\ Top = frames[1] /\ Top \in Frames /\ Top.cause = "SYSCALL"
      /\ UserFrame(1, Handle) /\ current = KernelAsid
      /\ p \in Asids /\ Top.old = p /\ p = frames[1].ctx.regs[1]
      /\ Top.ctx.regs[2] = gen[p] /\ Top.ctx.ie = FALSE
      /\ Top.ctx.pc = User(done[p] - 1) /\ ~Queued(p)
  BY <1>1, SyscallTop
<1>4. /\ depth > 0 /\ depth = Depth + Base /\ regs = <<KernelAsid, depth>> /\ ie = FALSE
  BY <1>1, RunsAt DEF Syscall, Inside
<1>5. child \in Asids /\ child # p /\ ~Queued(child)
  <2>1. child \notin Living
    BY DEF FreeAsids
  <2>2. p \in Living
    BY <1>3 DEF Living, Depth
  <2> QED
    BY <2>1, <2>2 DEF FreeAsids, Living, Queued
<1>6. gen[child] < MaxGen
  BY <1>1, <1>3, <1>5 DEF Syscall, UserFrame, Handle, Borrow
<1>7. /\ gen \in [Processes -> 0..MaxGen] /\ child \in Processes /\ p \in Processes
      /\ done \in [Processes -> 0..MaxInstr] /\ gen[child] \in Nat
      /\ regCtx \in [Processes -> Contexts] /\ queue \in Seq(Asids)
  <2>1. /\ gen \in [Processes -> 0..MaxGen] /\ done \in [Processes -> 0..MaxInstr]
        /\ regCtx \in [Processes -> Contexts] /\ queue \in Seq(Asids)
    BY DEF Inv, TypeOK
  <2>2. child \in Processes /\ p \in Processes
    BY <1>3, <1>5 DEF Processes
  <2> QED
    BY <2>1, <2>2, KernelTrapAssumption DEF KernelTrapAssumption
<1>8. /\ gen' \in [Processes -> 0..MaxGen] /\ gen'[child] = gen[child] + 1
      /\ done' \in [Processes -> 0..MaxInstr] /\ done'[child] = done[p]
      /\ \A q \in Processes \ {child} : gen'[q] = gen[q] /\ done'[q] = done[q]
  <2>1. MaxGen \in Nat /\ MaxInstr \in Nat
    BY KernelTrapAssumption DEF KernelTrapAssumption
  <2>2. /\ gen' = [gen EXCEPT ![child] = gen[child] + 1]
        /\ done' = [done EXCEPT ![child] = done[p]]
    BY <1>2, <1>3
  <2>3. gen[child] + 1 \in 0..MaxGen /\ done[p] \in 0..MaxInstr
    BY <1>6, <1>7, <2>1
  <2> QED
    BY <1>7, <2>2, <2>3
<1>9. ~Booting'
  <2>1. 0 \in Processes
    BY KernelTrapAssumption DEF KernelTrapAssumption, Processes
  <2> QED
    BY <1>3, <1>7, <1>8, <2>1 DEF Booting
<1> DEFINE c == [Top.ctx EXCEPT !.regs = <<child, gen'[child]>>]
<1>10. /\ c \in Contexts /\ c.pc = User(done'[child] - 1) /\ c.ie = FALSE
       /\ c.regs = <<child, gen'[child]>>
  <2>1. <<child, gen'[child]>> \in Registers
    BY <1>5, <1>7, <1>8, RegisterTypes
  <2> QED
    BY <1>3, <1>8, <2>1 DEF Frames, Contexts
<1> HIDE DEF c
<1>11. c = Resumed(child)'
  BY <1>10 DEF Resumed, Context, Contexts
<1>12. /\ regCtx' \in [Processes -> Contexts] /\ regCtx'[child] = c
       /\ \A q \in Processes \ {child} : regCtx'[q] = regCtx[q]
  BY <1>2, <1>7, <1>10 DEF c
<1>13. /\ queue' \in Seq(Asids) /\ Len(queue') = Len(queue) + 1
       /\ queue'[Len(queue) + 1] = child
       /\ \A i \in 1..Len(queue) : queue'[i] = queue[i]
  BY <1>2, <1>5, <1>7
<1>14. QueueInv'
  <2>1. \A i \in 1..Len(queue) : queue[i] \in Processes \ {child}
    BY <1>5, <1>7 DEF Queued, Processes
  <2>2. Len(queue) \in Nat
    BY <1>7
  <2>3. \A i, j \in 1..Len(queue') : queue'[i] = queue'[j] => i = j
    BY <1>13, <2>1, <2>2 DEF Inv, QueueInv
  <2>4. ASSUME NEW i \in 1..Len(queue') PROVE (regCtx[queue[i]] = Resumed(queue[i]))'
    <3>1. CASE i = Len(queue) + 1
      BY <1>11, <1>12, <1>13, <3>1
    <3>2. CASE i # Len(queue) + 1
      <4>1. i \in 1..Len(queue) /\ queue'[i] = queue[i]
        BY <1>13, <2>2, <3>2
      <4>2. regCtx'[queue[i]] = regCtx[queue[i]] /\ gen'[queue[i]] = gen[queue[i]]
            /\ done'[queue[i]] = done[queue[i]]
        BY <1>8, <1>12, <2>1, <4>1
      <4>3. regCtx[queue[i]] = Resumed(queue[i])
        BY <4>1 DEF Inv, QueueInv
      <4> QED
        BY <4>1, <4>2, <4>3 DEF Resumed
    <3> QED
      BY <3>1, <3>2
  <2> QED
    BY <1>9, <2>3, <2>4 DEF QueueInv
<1>15. /\ pc' = Kernel(Finish) /\ ie' = FALSE /\ UNCHANGED <<epc, exl, trap>>
       /\ pc' \in Address /\ RunInv' /\ (Stage(Finish)' => PointInv')
  <2>1. Finish \in Inside \ {Leave}
    BY DEF Inside, Finish, Leave
  <2> QED
    BY <1>1, <1>4, <2>1, Onward
<1>16. TypeOK'
  BY <1>1, <1>8, <1>12, <1>13, <1>15 DEF Inv, TypeOK, TlbTypeOK
<1>17. TlbInv'
  BY <1>1, TlbSame DEF Inv
<1>18. Depth' = 1 /\ frames' = frames
  BY <1>1, <1>3 DEF Depth
<1>19. StackInv'
  <2>1. gen'[p] = gen[p]
    BY <1>5, <1>7, <1>8
  <2> QED
    BY <1>1, <1>3, <1>4, <1>9, <1>18, <2>1 DEF StackInv, Base, OfUser
<1>20. CacheInv'
  BY <1>1, <1>3, <1>9, <1>18 DEF Inv, CacheInv
<1>21. UserFrame(1, Finish)'
  <2>1. \A i \in 1..Len(queue') : queue'[i] # p
    <3>1. Len(queue) \in Nat
      BY <1>7
    <3>2. \A i \in 1..Len(queue) : queue[i] # p
      BY <1>3 DEF Queued
    <3> HIDE DEF p
    <3> QED
      BY <1>5, <1>13, <3>1, <3>2
  <2>2. done'[p] = done[p]
    BY <1>5, <1>7, <1>8
  <2> QED
    BY <1>3, <1>18, <2>1, <2>2
       DEF UserFrame, Queued, Borrow, Handle, Copy, Finish, Save, Sched, Leave, Boot
<1>22. Stage(Finish)' /\ BelowInv'
  <2>1. Finish \notin {Boot, Borrow, Copy, Save}
    BY DEF Finish, Boot, Borrow, Copy, Save
  <2> QED
    BY <1>1, <1>3, <1>9, <1>18, <1>21, <2>1, UserStage
<1> QED
  BY <1>14, <1>15, <1>16, <1>17, <1>19, <1>20, <1>22 DEF Inv

-----------------------------------------------------------------------------
(* The end of handleTrap *)

LEMMA TrapperType ==
  ASSUME Inv, Depth \in Nat \ {0}, NEW r, FrameAt(Depth, r)
  PROVE  Trapper(Depth) \in Processes
<1>1. 1 \in 1..Depth
  OBVIOUS
<1>2. OfUser(1) => frames[1].ctx.regs[1] \in Asids
  BY <1>1 DEF Inv, StackInv
<1>3. frames[Depth].page \in UserPages \/ OfUser(Depth) => OfUser(1)
  BY DEF FrameAt, KernelFrame, OfUser
<1> QED
  BY <1>2, <1>3 DEF Trapper, Processes

LEMMA FinishTop ==
  ASSUME Inv, Runs(Finish)
  PROVE  /\ ~Doomed /\ BelowInv /\ Stage(Finish) /\ FrameAt(Depth, Finish)
         /\ Depth \in Nat \ {0} /\ depth > 0 /\ depth = Depth + Base
         /\ regs = <<KernelAsid, depth>> /\ ie = FALSE
         /\ current = KernelAsid /\ Top = frames[Depth] /\ Top \in Frames
<1>1. Finish \in Inside /\ Finish # Leave /\ Finish # Boot
  BY DEF Inside, Finish, Leave, Boot
<1>2. /\ ~Doomed /\ BelowInv /\ Stage(Finish)
      /\ Depth \in Nat \ {0} /\ depth > 0 /\ depth = Depth + Base
      /\ regs = <<KernelAsid, depth>> /\ ie = FALSE
  BY <1>1, RunsAt
<1>3. FrameAt(Depth, Finish) /\ current = KernelAsid
  BY <1>2 DEF Stage
<1> QED
  BY <1>2, <1>3, TopFrame

\* The thread of the frame is the one to go back to.
LEMMA TailReturnInv == ASSUME Inv, TailReturn PROVE Inv'
<1> USE DEF tlbVars
<1>1. /\ Runs(Finish) /\ Top.old # NoProc /\ (depth > 1 \/ Top.cause = "TLB")
      /\ current' = Top.old /\ Goto(Save)
      /\ UNCHANGED <<tlbVars, regs, icache, depth, frames, regCtx, gen, queue, done>>
  BY DEF TailReturn
<1>2. /\ BelowInv /\ Stage(Finish) /\ FrameAt(Depth, Finish)
      /\ Depth \in Nat \ {0} /\ depth > 0 /\ depth = Depth + Base
      /\ regs = <<KernelAsid, depth>> /\ ie = FALSE
      /\ Top = frames[Depth] /\ Top \in Frames
  BY <1>1, FinishTop
<1>3. Top.old = Trapper(Depth) /\ frames[Depth].cause = "TLB"
  <2>1. CASE OfUser(Depth)
    <3>1. UserFrame(Depth, Finish) /\ depth = 1
      BY <1>2, <2>1 DEF FrameAt, OfUser, Base
    <3> QED
      BY <1>1, <1>2, <2>1, <3>1 DEF UserFrame, Trapper, OfUser, Finish, Handle, Copy, Save
  <2>2. CASE ~OfUser(Depth)
    <3>1. KernelFrame(Depth, Finish) /\ Depth \in 1..Depth
      BY <1>2, <2>2 DEF FrameAt
    <3> QED
      BY <1>2, <2>2, <3>1 DEF KernelFrame, Finish, Borrow, Inv, StackInv
  <2> QED
    BY <2>1, <2>2
<1>4. Trapper(Depth) \in Asids => asid = Trapper(Depth)
  BY <1>2, <1>3 DEF Stage
<1>5. TlbInv' /\ StackInv' /\ QueueInv' /\ BelowInv'
  BY <1>1, <1>2, TlbSame, StackSame, QueueSame, BelowSame DEF Inv
<1>6. CacheInv'
  BY <1>1, <1>2 DEF Inv, CacheInv, Depth, Booting
<1>7. /\ pc' = Kernel(Save) /\ ie' = FALSE /\ UNCHANGED <<epc, exl, trap>>
      /\ pc' \in Address /\ RunInv' /\ (Stage(Save)' => PointInv')
  <2>1. Save \in Inside \ {Leave}
    BY DEF Inside, Save, Leave
  <2> QED
    BY <1>1, <1>2, <2>1, Onward
<1>8. current' \in Processes
  BY <1>1, <1>2 DEF Frames
<1>9. TypeOK'
  BY <1>1, <1>7, <1>8 DEF Inv, TypeOK, TlbTypeOK
<1>10. FrameAt(Depth, Save)
  <2>1. CASE OfUser(Depth)
    <3>1. UserFrame(Depth, Finish) /\ Trapper(Depth) = frames[Depth].ctx.regs[1]
      BY <1>2, <2>1 DEF FrameAt, OfUser, Trapper
    <3>2. UserFrame(Depth, Save)
      BY <1>2, <1>3, <3>1
         DEF UserFrame, Borrow, Handle, Copy, Finish, Save, Sched, Leave, Boot
    <3> QED
      BY <2>1, <3>2 DEF FrameAt
  <2>2. CASE ~OfUser(Depth)
    <3>1. KernelFrame(Depth, Finish)
      BY <1>2, <2>2 DEF FrameAt
    <3>2. KernelFrame(Depth, Save)
      BY <3>1 DEF KernelFrame, Borrow, Handle, Finish, Save
    <3> QED
      BY <2>2, <3>2 DEF FrameAt
  <2> QED
    BY <2>1, <2>2
<1>11. Stage(Save)'
  <2>1. FrameAt(Depth, Save)' /\ Trapper(Depth)' = Trapper(Depth) /\ Depth' = Depth
    BY <1>1, <1>10, FrameSame
  <2>2. Save \notin {Boot, Handle, Finish, Sched, Borrow}
    BY DEF Save, Boot, Handle, Finish, Sched, Borrow
  <2> QED
    BY <1>1, <1>2, <1>3, <1>4, <2>1, <2>2 DEF Stage
<1> QED
  BY <1>5, <1>6, <1>7, <1>9, <1>11 DEF Inv

\* What a context holds, told by its parts.
LEMMA ContextIs ==
  ASSUME NEW c \in Contexts, c.ie = FALSE
  PROVE  c = Context(c.pc, <<c.regs[1], c.regs[2]>>, FALSE)
<1>1. c.regs = <<c.regs[1], c.regs[2]>>
  BY DEF Contexts, Registers
<1> QED
  BY <1>1 DEF Contexts, Context

\* The activation whose context is saved: its thread is not queued.
LEMMA SaveTop ==
  ASSUME Inv, Runs(Save)
  PROVE  /\ ~Doomed /\ BelowInv /\ Stage(Save) /\ FrameAt(Depth, Save)
         /\ Depth \in Nat \ {0} /\ depth > 0 /\ depth = Depth + Base
         /\ regs = <<KernelAsid, depth>> /\ ie = FALSE
         /\ Top = frames[Depth] /\ Top \in Frames
         /\ current = Trapper(Depth)
         /\ current \in Asids => asid = current /\ HasPcb
         /\ ~Queued(current)
<1>1. Save \in Inside /\ Save # Leave /\ Save # Boot
  BY DEF Inside, Save, Leave, Boot
<1>2. /\ ~Doomed /\ BelowInv /\ Stage(Save)
      /\ Depth \in Nat \ {0} /\ depth > 0 /\ depth = Depth + Base
      /\ regs = <<KernelAsid, depth>> /\ ie = FALSE
  BY <1>1, RunsAt
<1>3. /\ FrameAt(Depth, Save) /\ current = Trapper(Depth)
      /\ Trapper(Depth) \in Asids => asid = Trapper(Depth)
  BY <1>2 DEF Stage
<1>4. Top = frames[Depth] /\ Top \in Frames
  BY <1>2, TopFrame
<1>5. current \in Asids => HasPcb
  BY <1>2, <1>1 DEF Doomed, Runs
<1>6. ~Queued(current)
  <2>1. CASE OfUser(Depth)
    BY <1>3, <2>1 DEF FrameAt, UserFrame, Trapper, OfUser, Save, Sched, Leave
  <2>2. CASE ~OfUser(Depth) /\ frames[Depth].page \in UserPages
    <3>1. KernelFrame(Depth, Save)
      BY <1>3, <2>2 DEF FrameAt
    <3>2. Depth = 2 /\ OfUser(1) /\ frames[2].ctx.pc = Back(Kernel(Copy))
      BY <2>2, <3>1 DEF KernelFrame, OfUser, Borrow, Handle, Save
    <3>3. FrameAt(1, Copy)
      <4>1. 1 \in 1..(Depth - 1) /\ Copy \in Suspending /\ frames[1 + 1] = frames[2]
        BY <3>2 DEF Suspending
      <4> QED
        BY <1>2, <3>2, <4>1 DEF BelowInv
    <3>4. ~Queued(frames[1].ctx.regs[1])
      BY <3>2, <3>3 DEF FrameAt, UserFrame, Copy, Sched, Leave
    <3> QED
      BY <1>3, <2>2, <3>4 DEF Trapper
  <2>3. CASE ~OfUser(Depth) /\ frames[Depth].page \notin UserPages
    BY <1>3, <2>3, KernelTrapAssumption
       DEF Trapper, Queued, Inv, TypeOK, KernelTrapAssumption, TlbAssumption
  <2> QED
    BY <2>1, <2>2, <2>3
<1> QED
  BY <1>2, <1>3, <1>4, <1>5, <1>6

\* run_process is going to find the context of the frame.
LEMMA SaveContextInv == ASSUME Inv, SaveContext PROVE Inv'
<1> USE DEF tlbVars
<1>1. /\ Runs(Save) /\ regCtx' = [regCtx EXCEPT ![current] = Top.ctx]
      /\ Goto(Leave)
      /\ UNCHANGED <<tlbVars, regs, icache, depth, frames, current, gen, queue, done>>
  BY DEF SaveContext
<1>2. /\ BelowInv /\ Stage(Save) /\ FrameAt(Depth, Save)
      /\ Depth \in Nat \ {0} /\ depth > 0
      /\ regs = <<KernelAsid, depth>> /\ ie = FALSE
      /\ Top = frames[Depth] /\ Top \in Frames
      /\ current = Trapper(Depth)
      /\ current \in Asids => asid = current /\ HasPcb
      /\ ~Queued(current)
  BY <1>1, SaveTop
<1>3. Top.ctx \in Contexts
  BY <1>2 DEF Frames
<1>4. /\ regCtx' \in [Processes -> Contexts] /\ regCtx'[current] = Top.ctx
      /\ \A p \in Processes \ {current} : regCtx'[p] = regCtx[p]
  BY <1>1, <1>3 DEF Inv, TypeOK
<1>5. pc' = Kernel(Leave) /\ ie' = FALSE /\ UNCHANGED <<epc, exl, trap>>
  BY <1>1, <1>2, Goes DEF Goto
<1>6. TypeOK'
  <2>1. Kernel(Leave) \in Address
    BY AddressTypes DEF Labels
  <2> QED
    BY <1>1, <1>4, <1>5, <2>1 DEF Inv, TypeOK, TlbTypeOK
<1>7. TlbInv' /\ StackInv' /\ BelowInv'
  BY <1>1, <1>2, TlbSame, StackSame, BelowSame DEF Inv
<1>8. CacheInv'
  BY <1>1 DEF Inv, CacheInv, Depth, Booting
<1>9. QueueInv'
  <2>1. \A i \in 1..Len(queue) : queue[i] \in Processes \ {current}
    BY <1>2 DEF Queued, Inv, TypeOK, Processes
  <2>2. \A i \in 1..Len(queue) : regCtx'[queue[i]] = regCtx[queue[i]]
    BY <1>4, <2>1
  <2>3. queue' = queue /\ gen' = gen /\ done' = done
    BY <1>1
  <2>4. QueueInv
    BY DEF Inv
  <2>5. \A i \in 1..Len(queue) : regCtx'[queue[i]] = Resumed(queue[i])
    BY <2>2, <2>4 DEF QueueInv
  <2>6. \A i \in 1..Len(queue) : (regCtx[queue[i]] = Resumed(queue[i]))'
    BY <2>3, <2>5 DEF Resumed
  <2>7. \A i, j \in 1..Len(queue') : queue'[i] = queue'[j] => i = j
    BY <2>3, <2>4 DEF QueueInv
  <2>8. Booting' => queue' = << >> /\ done'[0] = 0
    BY <2>3, <2>4 DEF QueueInv, Booting
  <2> QED
    BY <2>3, <2>6, <2>7, <2>8 DEF QueueInv
<1>10. Leaving'
  <2>1. Depth' = Depth /\ (OfUser(Depth)' <=> OfUser(Depth))
        /\ (FrameAt(Depth, Leave)' <=> FrameAt(Depth, Leave))
        /\ Trapper(Depth)' = Trapper(Depth)
    BY <1>1, FrameSame
  <2>2. HasPcb' <=> HasPcb
    BY <1>1 DEF HasPcb
  <2>3. CASE OfUser(Depth)
    <3>1. UserFrame(1, Save) /\ current = frames[1].ctx.regs[1] /\ Depth = 1
      BY <1>2, <2>3 DEF FrameAt, Trapper, OfUser
    <3>2. current \in Asids /\ frames[1].ctx.regs[2] = gen[current]
          /\ frames[1].ctx.ie = FALSE
      BY <2>3, <3>1 DEF Inv, StackInv
    <3>3. Top.ctx = Context(User(done[current] - 1), <<current, gen[current]>>, FALSE)
      <4>1. Top.ctx.pc = User(done[current] - 1)
        BY <1>2, <3>1 DEF UserFrame, Copy, Finish, Save, Handle
      <4>2. /\ Top.ctx.regs[1] = current /\ Top.ctx.regs[2] = gen[current]
            /\ Top.ctx.ie = FALSE
        BY <1>2, <3>1, <3>2
      <4> QED
        BY <1>3, <4>1, <4>2, ContextIs
    <3>4. (regCtx[current] = Resumed(current))'
      BY <1>1, <1>4, <3>3 DEF Resumed
    <3>5. \A e \in icache' : e.asid = current'
      BY <1>1, <3>1 DEF Inv, CacheInv
    <3>6. ~Queued(current)'
      BY <1>1, <1>2 DEF Queued
    <3> QED
      BY <1>1, <1>2, <2>1, <2>2, <2>3, <3>2, <3>4, <3>5, <3>6 DEF Leaving, Ready
  <2>4. CASE ~OfUser(Depth)
    <3>1. KernelFrame(Depth, Save)
      BY <1>2, <2>4 DEF FrameAt
    <3>2. FrameAt(Depth, Leave)
      BY <2>4, <3>1 DEF FrameAt, KernelFrame, Borrow, Handle, Save, Leave
    <3>3. Leave \notin {Boot, Handle, Finish, Sched, Borrow, Copy, Save}
      BY DEF Leave, Boot, Handle, Finish, Sched, Borrow, Copy, Save
    <3>4. Stage(Leave)'
      BY <1>2, <2>1, <3>2, <3>3 DEF Stage
    <3>5. (regCtx[current] = frames[Depth].ctx)'
      BY <1>1, <1>2, <1>4, <2>1
    <3> QED
      BY <1>1, <1>2, <2>1, <2>2, <2>4, <3>4, <3>5 DEF Leaving
  <2> QED
    BY <2>3, <2>4
<1>11. RunInv' /\ PointInv'
  <2>1. depth' > 0 /\ regs' = <<KernelAsid, depth'>>
    BY <1>1, <1>2
  <2> QED
    BY <1>5, <1>10, <2>1, ToLeave
<1> QED
  BY <1>6, <1>7, <1>8, <1>9, <1>11 DEF Inv

\* A process that leaves the processor is queued, unless it has ended.
LEMMA TailEnqueueInv == ASSUME Inv, TailEnqueue PROVE Inv'
<1> USE DEF tlbVars
<1> DEFINE p == Top.old
<1>1. /\ Runs(Finish) /\ Goto(Sched)
      /\ UNCHANGED <<tlbVars, regs, icache, depth, frames, current, gen, done>>
      /\ \/ p = NoProc /\ UNCHANGED <<regCtx, queue>>
         \/ /\ p # NoProc /\ Top.cause # "TLB"
            /\ regCtx' = [regCtx EXCEPT ![p] = Top.ctx]
            /\ queue' = Append(queue, p)
  BY DEF TailEnqueue
<1>2. /\ BelowInv /\ Stage(Finish) /\ FrameAt(Depth, Finish)
      /\ Depth \in Nat \ {0} /\ depth > 0
      /\ regs = <<KernelAsid, depth>> /\ ie = FALSE
      /\ current = KernelAsid /\ Top = frames[Depth] /\ Top \in Frames
  BY <1>1, FinishTop
<1>3. OfUser(Depth) /\ Depth = 1
  <2>1. CASE p = NoProc
    <3>1. ASSUME ~OfUser(Depth) PROVE FALSE
      <4>1. KernelFrame(Depth, Finish)
        BY <1>2, <3>1 DEF FrameAt
      <4>2. p = Trapper(Depth) /\ p \in Processes
        BY <1>2, <4>1, TrapperType DEF KernelFrame, Finish, Borrow
      <4> QED
        BY <2>1, <4>2, KernelTrapAssumption DEF KernelTrapAssumption, Processes
    <3> QED
      BY <3>1 DEF OfUser
  <2>2. CASE p # NoProc
    BY <1>1, <1>2, <2>2, NotNested DEF Inv
  <2> QED
    BY <2>1, <2>2
<1>4. UserFrame(1, Finish) /\ ~Booting
  BY <1>2, <1>3 DEF FrameAt, OfUser
<1>5. TlbInv' /\ StackInv' /\ CacheInv'
  BY <1>1, TlbSame, StackSame DEF Inv, CacheInv, Depth, Booting
<1>6. /\ pc' = Kernel(Sched) /\ ie' = FALSE /\ UNCHANGED <<epc, exl, trap>>
      /\ pc' \in Address /\ RunInv' /\ (Stage(Sched)' => PointInv')
  <2>1. Sched \in Inside \ {Leave}
    BY DEF Inside, Sched, Leave
  <2> QED
    BY <1>1, <1>2, <2>1, Onward
<1>7. Stage(Sched)' /\ BelowInv'
  <2>1. Depth' = 1 /\ ~Booting' /\ frames' = frames
    BY <1>1, <1>3, <1>4 DEF Depth, Booting
  <2>2. UserFrame(1, Sched)'
    BY DEF UserFrame, Borrow, Handle, Copy, Finish, Save, Sched, Leave, Boot
  <2>3. Sched \notin {Boot, Borrow, Copy, Save, Finish}
    BY DEF Sched, Boot, Borrow, Copy, Save, Finish
  <2> QED
    BY <1>1, <1>2, <2>1, <2>2, <2>3, UserStage
<1>8. QueueInv' /\ TypeOK'
  <2>1. CASE p = NoProc
    <3>1. UNCHANGED <<regCtx, queue>>
      BY <1>1, <2>1
    <3> QED
      BY <1>1, <1>6, <3>1, QueueSame DEF Inv, TypeOK, TlbTypeOK
  <2>2. CASE p # NoProc
    <3>1. regCtx' = [regCtx EXCEPT ![p] = Top.ctx] /\ queue' = Append(queue, p)
      BY <1>1, <2>2
    <3>2. p = frames[1].ctx.regs[1] /\ Top = frames[1]
      BY <1>2, <1>3, <1>4, <2>2 DEF UserFrame, Handle, Copy, Save, Finish
    <3>3. /\ p \in Asids /\ Top.ctx.regs[1] = p /\ Top.ctx.regs[2] = gen[p]
          /\ Top.ctx.ie = FALSE
      BY <1>3, <3>2 DEF Inv, StackInv
    <3>4. Top.ctx.pc = User(done[p] - 1) /\ ~Queued(p)
      BY <1>4, <3>2 DEF UserFrame, Finish, Sched, Leave
    <3>5. Top.ctx \in Contexts
      BY <1>2 DEF Frames
    <3>6. Top.ctx = Resumed(p)
      BY <3>3, <3>4, <3>5, ContextIs DEF Resumed
    <3> HIDE DEF p
    <3>7. regCtx \in [Processes -> Contexts] /\ p \in Processes /\ queue \in Seq(Asids)
      BY <3>3 DEF Inv, TypeOK, Processes
    <3>8. /\ regCtx' \in [Processes -> Contexts] /\ regCtx'[p] = Top.ctx
          /\ \A q \in Processes \ {p} : regCtx'[q] = regCtx[q]
      BY <3>1, <3>5, <3>7
    <3>9. /\ queue' \in Seq(Asids) /\ Len(queue') = Len(queue) + 1
          /\ queue'[Len(queue) + 1] = p
          /\ \A i \in 1..Len(queue) : queue'[i] = queue[i]
          /\ Len(queue) \in Nat
      BY <3>1, <3>3, <3>7
    <3>10. \A i \in 1..Len(queue) : queue[i] \in Processes \ {p}
      BY <3>4, <3>7 DEF Queued, Processes
    <3>11. \A i, j \in 1..Len(queue') : queue'[i] = queue'[j] => i = j
      BY <3>9, <3>10 DEF Inv, QueueInv
    <3>12. ASSUME NEW i \in 1..Len(queue')
           PROVE  (regCtx[queue[i]] = Resumed(queue[i]))'
      <4>1. CASE i = Len(queue) + 1
        BY <1>1, <3>6, <3>8, <3>9, <4>1 DEF Resumed
      <4>2. CASE i # Len(queue) + 1
        <5>1. i \in 1..Len(queue) /\ queue'[i] = queue[i]
          BY <3>9, <4>2
        <5>2. regCtx'[queue[i]] = regCtx[queue[i]]
          BY <3>8, <3>10, <5>1
        <5>3. regCtx[queue[i]] = Resumed(queue[i])
          BY <5>1 DEF Inv, QueueInv
        <5> QED
          BY <1>1, <5>1, <5>2, <5>3 DEF Resumed
      <4> QED
        BY <4>1, <4>2
    <3>13. QueueInv'
      BY <1>1, <1>4, <3>11, <3>12 DEF QueueInv, Booting
    <3> QED
      BY <1>1, <1>6, <3>8, <3>9, <3>13 DEF Inv, TypeOK, TlbTypeOK
  <2> QED
    BY <2>1, <2>2
<1> QED
  BY <1>5, <1>6, <1>7, <1>8 DEF Inv

\* The next process is loaded with an empty cache, or the machine stops.
LEMMA ScheduleInv == ASSUME Inv, Schedule PROVE Inv'
<1> USE DEF tlbVars
<1>1. /\ Runs(Sched)
      /\ UNCHANGED <<tlb, random, regs, depth, frames, regCtx, gen, done>>
      /\ \/ /\ pc' = Halted
            /\ UNCHANGED <<epc, ie, exl, trap, queue, current, asid, icache>>
         \/ /\ queue # << >> /\ icache' = {}
            /\ queue' = SubSeq(queue, 2, Len(queue))
            /\ current' = Head(queue)
            /\ asid' = Head(queue)
            /\ Goto(Leave)
  BY DEF Schedule
<1>2. Sched \in Inside /\ Sched # Leave /\ Sched # Boot
  BY DEF Inside, Sched, Leave, Boot
<1>3. /\ BelowInv /\ Stage(Sched) /\ Depth \in Nat \ {0} /\ depth > 0
      /\ regs = <<KernelAsid, depth>> /\ ie = FALSE /\ ~Doomed
  BY <1>1, <1>2, RunsAt
<1>4. OfUser(Depth) /\ Depth = 1 /\ ~Booting
  <2>1. FrameAt(Depth, Sched)
    BY <1>3 DEF Stage
  <2> QED
    BY <2>1 DEF FrameAt, KernelFrame, OfUser, Borrow, Handle, Finish, Save, Leave,
                Sched
<1>5. TlbInv' /\ StackInv'
  BY <1>1, TlbSame, StackSame DEF Inv
<1>6. CASE pc' = Halted /\ UNCHANGED <<epc, ie, exl, trap, queue, current, asid, icache>>
  BY <1>1, <1>3, <1>6, HaltInv DEF Halt, kernelVars
<1>7. CASE /\ queue # << >> /\ icache' = {}
           /\ queue' = SubSeq(queue, 2, Len(queue))
           /\ current' = Head(queue)
           /\ asid' = Head(queue)
           /\ Goto(Leave)
  <2>1. pc' = Kernel(Leave) /\ ie' = FALSE /\ UNCHANGED <<epc, exl, trap>>
    BY <1>3, <1>7, Goes DEF Goto
  <2>2. queue \in Seq(Asids)
    BY DEF Inv, TypeOK
  <2>3. /\ Len(queue) \in Nat \ {0}
        /\ current' = queue[1] /\ queue[1] \in Asids
        /\ queue' \in Seq(Asids) /\ Len(queue') = Len(queue) - 1
        /\ \A i \in 1..(Len(queue) - 1) : queue'[i] = queue[i + 1]
    <3>1. Len(queue) \in Nat \ {0} /\ queue[1] \in Asids
      BY <1>7, <2>2
    <3>2. current' = queue[1]
      BY <1>7, <2>2
    <3>3. /\ queue' \in Seq(Asids) /\ Len(queue') = Len(queue) - 1
          /\ \A i \in 1..(Len(queue) - 1) : queue'[i] = queue[i + 1]
      <4> DEFINE n == Len(queue)
                 s == SubSeq(queue, 2, n)
      <4>1. 2 \in Int /\ n \in Int /\ \A i \in 2..n : queue[i] \in Asids
        BY <2>2, <3>1
      <4>2. /\ s \in Seq(Asids) /\ Len(s) = IF 2 <= n THEN n - 2 + 1 ELSE 0
            /\ \A i \in 1..(n - 2 + 1) : s[i] = queue[2 + i - 1]
        BY <4>1, SubSeqProperties
      <4>3. queue' = s
        BY <1>7
      <4> HIDE DEF s
      <4> QED
        BY <3>1, <4>2, <4>3
    <3> QED
      BY <3>1, <3>2, <3>3
  <2>4. QueueInv'
    <3>1. \A i, j \in 1..Len(queue') : queue'[i] = queue'[j] => i = j
      BY <2>3 DEF Inv, QueueInv
    <3>2. ASSUME NEW i \in 1..Len(queue')
          PROVE  (regCtx[queue[i]] = Resumed(queue[i]))'
      <4>1. i + 1 \in 1..Len(queue) /\ queue'[i] = queue[i + 1]
        BY <2>3
      <4>2. regCtx[queue[i + 1]] = Resumed(queue[i + 1])
        BY <4>1 DEF Inv, QueueInv
      <4> QED
        BY <1>1, <4>1, <4>2 DEF Resumed
    <3> QED
      BY <1>1, <1>4, <3>1, <3>2 DEF QueueInv, Booting
  <2>5. CacheInv'
    BY <1>7 DEF CacheInv
  <2>6. TypeOK'
    <3>1. Kernel(Leave) \in Address
      BY AddressTypes DEF Labels
    <3>2. TlbTypeOK' /\ current' \in Processes
      BY <1>1, <1>7, <2>3 DEF Inv, TypeOK, TlbTypeOK, Processes
    <3> QED
      BY <1>1, <1>7, <2>1, <2>3, <3>1, <3>2 DEF Inv, TypeOK
  <2>7. BelowInv'
    BY <1>1, <1>4 DEF BelowInv, Depth
  <2>8. Leaving'
    <3>1. OfUser(Depth)'
      BY <1>1, <1>4 DEF OfUser, Depth, Booting
    <3>2. HasPcb'
      <4>1. HasPcb
        BY <1>1, PcbHits
           DEF Runs, Mapped, Touches, Inv, Sched, Borrow, Save, Leave, Restore, Handle,
               Finish
      <4> QED
        BY <1>1, <4>1 DEF HasPcb
    <3>3. ~Queued(current)'
      BY <2>3 DEF Queued, Inv, QueueInv
    <3>4. (regCtx[current] = Resumed(current))'
      <4>1. regCtx[queue[1]] = Resumed(queue[1])
        BY <2>3 DEF Inv, QueueInv
      <4> QED
        BY <1>1, <2>3, <4>1 DEF Resumed
    <3> QED
      BY <1>7, <2>3, <3>1, <3>2, <3>3, <3>4 DEF Leaving, Ready
  <2>9. RunInv' /\ PointInv'
    <3>1. depth' > 0 /\ regs' = <<KernelAsid, depth'>>
      BY <1>1, <1>3
    <3> QED
      BY <2>1, <2>8, <3>1, ToLeave
  <2> QED
    BY <1>5, <2>4, <2>5, <2>6, <2>7, <2>9 DEF Inv
<1> QED
  BY <1>1, <1>6, <1>7

\* The frame goes; the activation below is where that frame says it is.
LEMMA LeaveTrapInv == ASSUME Inv, LeaveTrap PROVE Inv'
<1> USE DEF tlbVars
<1>1. /\ Runs(Leave) /\ depth' = depth - 1
      /\ frames' = SubSeq(frames, 1, Len(frames) - 1) /\ Goto(Restore)
      /\ UNCHANGED <<tlbVars, regs, icache, current, regCtx, gen, queue, done>>
  BY DEF LeaveTrap
<1>2. Leave \in Inside /\ Leave # Boot
  BY DEF Inside, Leave, Boot
<1>3. /\ At(Leave) /\ BelowInv /\ Depth \in Nat \ {0} /\ depth > 0
      /\ depth = Depth + Base /\ regs = <<KernelAsid, depth>> /\ ie = FALSE /\ ~Doomed
  BY <1>1, <1>2, RunsAt
<1>4. Leaving
  BY <1>3 DEF Inv, PointInv
<1>5. /\ frames' \in Seq(Frames) /\ Depth' = Depth - 1
      /\ \A i \in 1..(Depth - 1) : frames'[i] = frames[i]
  <2> DEFINE n == Len(frames) - 1
             s == SubSeq(frames, 1, n)
  <2>1. frames \in Seq(Frames)
    BY DEF Inv, TypeOK, Frames
  <2>2. n \in Nat /\ n + 1 = Len(frames)
    BY <1>3 DEF Depth
  <2>3. 1 \in Int /\ n \in Int /\ \A i \in 1..n : frames[i] \in Frames
    BY <2>1, <2>2
  <2>4. /\ s \in Seq(Frames) /\ Len(s) = IF 1 <= n THEN n - 1 + 1 ELSE 0
        /\ \A i \in 1..(n - 1 + 1) : s[i] = frames[1 + i - 1]
    BY <2>3, SubSeqProperties
  <2>5. frames' = s
    BY <1>1
  <2> HIDE DEF s, n
  <2>6. Len(s) = n /\ \A i \in 1..n : s[i] = frames[i]
    BY <2>2, <2>4
  <2>7. Depth = n + 1 /\ Depth' = n
    BY <2>2, <2>5, <2>6 DEF Depth
  <2> QED
    BY <2>2, <2>4, <2>5, <2>6, <2>7
<1>6. pc' = Kernel(Restore) /\ ie' = FALSE /\ UNCHANGED <<epc, exl, trap>>
  BY <1>1, <1>3, Goes DEF Goto
<1>7. TypeOK'
  <2>1. Kernel(Restore) \in Address
    BY AddressTypes DEF Labels
  <2>2. depth' \in 0..(StackFrames + 1)
    BY <1>1, <1>3, KernelTrapAssumption DEF Inv, TypeOK, KernelTrapAssumption
  <2> QED
    BY <1>1, <1>5, <1>6, <2>1, <2>2 DEF Inv, TypeOK, TlbTypeOK, Frames
<1>8. TlbInv' /\ QueueInv'
  BY <1>1, TlbSame, QueueSame DEF Inv
<1>9. Base' = Base /\ (Booting' <=> Booting) /\ \A i : OfUser(i)' <=> OfUser(i)
  BY <1>1 DEF Base, Booting, OfUser
<1>10. StackInv'
  <2>1. depth' = Depth' + Base'
    <3>1. Base \in Nat
      BY DEF Base
    <3> QED
      BY <1>1, <1>3, <1>5, <1>9, <3>1
  <2>2. \A i \in 1..Depth' : i \in 1..Depth /\ frames'[i] = frames[i]
    BY <1>3, <1>5
  <2> QED
    BY <1>1, <1>9, <2>1, <2>2 DEF Inv, StackInv
<1>11. BelowInv'
  <2> SUFFICES ASSUME NEW i \in 1..(Depth - 2), NEW r \in Suspending,
                      frames'[i + 1].ctx.pc \in {Kernel(r), Back(Kernel(r))}
               PROVE  /\ FrameAt(i, r)' /\ Trapper(i)' \in Asids
                      /\ r = Finish => frames'[i].cause # "TLB"
    BY <1>3, <1>5 DEF BelowInv
  <2>1. /\ frames'[i] = frames[i] /\ frames'[1] = frames[1]
        /\ frames'[i + 1] = frames[i + 1]
    BY <1>3, <1>5
  <2>2. i \in 1..(Depth - 1)
    BY <1>3
  <2>3. /\ FrameAt(i, r) /\ Trapper(i) \in Asids
        /\ r = Finish => frames[i].cause # "TLB"
    BY <1>3, <2>1, <2>2 DEF BelowInv
  <2> QED
    BY <1>1, <2>1, <2>3, FramesBelow
<1>12. CacheInv' /\ Restoring'
  <2>1. CASE OfUser(Depth)
    <3>1. Ready /\ (\A e \in icache : e.asid = current) /\ Depth = 1 /\ ~Booting
      BY <1>4, <2>1 DEF Leaving, OfUser
    <3>2. depth' = 0 /\ Depth' = 0
      BY <1>1, <1>3, <1>5, <3>1 DEF Base
    <3>3. Ready'
      BY <1>1, <3>1 DEF Ready, Queued, HasPcb, Resumed
    <3>4. CacheInv'
      BY <1>1, <1>9, <3>1, <3>2 DEF CacheInv
    <3> QED
      BY <3>2, <3>3, <3>4 DEF Restoring
  <2>2. CASE ~OfUser(Depth)
    <3>1. /\ Stage(Leave) /\ current = Trapper(Depth)
          /\ regCtx[current] = frames[Depth].ctx
          /\ current \in Asids => asid = current /\ HasPcb
      BY <1>4, <2>2 DEF Leaving
    <3>2. KernelFrame(Depth, Leave)
      BY <1>3, <2>2, <3>1 DEF Stage, FrameAt
    <3>3. PICK t \in Suspending :
             /\ frames[Depth].ctx.pc = Back(Kernel(t))
             /\ t = Copy <=> frames[Depth].page \in UserPages
             /\ t = Boot <=> Depth = 1
      BY <3>2 DEF KernelFrame, Leave, Borrow, Handle
    <3>4. /\ frames[Depth].ctx.ie = FALSE
          /\ frames[Depth].ctx.regs = <<KernelAsid, depth - 1>>
      <4>1. Base \in Nat /\ Depth \in 1..Depth
        BY <1>3 DEF Base
      <4>2. /\ frames[Depth].ctx.ie = FALSE
            /\ frames[Depth].ctx.regs = <<KernelAsid, Depth - 1 + Base>>
        BY <2>2, <4>1 DEF Inv, StackInv
      <4>3. Depth - 1 + Base = depth - 1
        BY <1>3, <4>1
      <4> QED
        BY <4>2, <4>3
    <3>5. depth' > 0
      BY <1>1, <1>3, <2>2 DEF OfUser, Base
    <3>6. frames[Depth].ctx = Context(Back(Kernel(t)), <<KernelAsid, depth - 1>>, FALSE)
      <4>1. frames[Depth].ctx \in Contexts
        BY <1>3, TopFrame
      <4> QED
        BY <3>3, <3>4, <4>1 DEF Context, Contexts
    <3>7. Depth' > 0 => /\ FrameAt(Depth, t)'
                        /\ Trapper(Depth)' \in Asids
                        /\ t = Finish => frames'[Depth'].cause # "TLB"
      <4> SUFFICES ASSUME Depth' > 0
                   PROVE  /\ FrameAt(Depth, t)'
                          /\ Trapper(Depth)' \in Asids
                          /\ t = Finish => frames'[Depth'].cause # "TLB"
        OBVIOUS
      <4>1. PICK b \in Nat : b = Depth' /\ b = Depth - 1
        BY <1>3, <1>5
      <4>2. b \in 1..(Depth - 1) /\ frames[b + 1] = frames[Depth]
        BY <1>3, <4>1
      <4>3. FrameAt(b, t) /\ Trapper(b) \in Asids /\ (t = Finish => frames[b].cause # "TLB")
        BY <1>3, <3>3, <4>2 DEF BelowInv
      <4>4. frames'[b] = frames[b] /\ frames'[1] = frames[1]
        BY <1>5, <4>2
      <4>5. FrameAt(b, t)' /\ Trapper(b)' \in Asids
        BY <1>1, <4>3, <4>4, FramesBelow
      <4> QED
        BY <4>1, <4>3, <4>4, <4>5
    <3>8. t # Copy => current = KernelAsid
      BY <2>2, <3>1, <3>3 DEF Trapper
    <3>9. t = Copy => current = Trapper(Depth)' /\ Depth' > 0
      <4> SUFFICES ASSUME t = Copy PROVE current = Trapper(Depth)' /\ Depth' > 0
        OBVIOUS
      <4>1. frames[Depth].page \in UserPages /\ Depth = 2 /\ ~Booting
        BY <3>2, <3>3 DEF KernelFrame
      <4>2. current = frames[1].ctx.regs[1]
        BY <2>2, <3>1, <4>1 DEF Trapper
      <4>3. Depth' = 1 /\ frames'[1] = frames[1] /\ ~Booting'
        BY <1>5, <1>9, <4>1
      <4> QED
        BY <4>2, <4>3 DEF Trapper, OfUser
    <3>10. Stage(t)'
      <4>1. (t = Boot) <=> (Depth' = 0)
        BY <1>3, <1>5, <3>3
      <4>2. t \in {Handle, Finish, Sched, Boot} => current' = KernelAsid
        BY <1>1, <3>8 DEF Copy, Handle, Finish, Sched, Boot
      <4>3. t \in {Borrow, Copy, Save} => current' = Trapper(Depth)'
        BY <1>1, <3>9 DEF Suspending, Borrow, Handle, Copy, Finish, Save, Sched, Boot
      <4>4. t \in {Copy, Save} => asid' = Trapper(Depth)'
        <5> SUFFICES ASSUME t = Copy PROVE asid' = Trapper(Depth)'
          BY DEF Suspending, Handle, Copy, Finish, Save, Sched, Boot
        <5>1. current = Trapper(Depth)' /\ Trapper(Depth)' \in Asids
          BY <3>7, <3>9
        <5> QED
          BY <1>1, <3>1, <5>1
      <4> QED
        BY <3>7, <4>1, <4>2, <4>3, <4>4 DEF Stage
    <3>11. Restoring'
      <4>1. HasPcb' <=> HasPcb
        BY <1>1 DEF HasPcb
      <4>2. (regCtx[current] = Context(Back(Kernel(t)), <<KernelAsid, depth>>, FALSE))'
        BY <1>1, <3>1, <3>6
      <4>3. (current \in Asids => asid = current /\ HasPcb)'
        BY <1>1, <3>1, <4>1
      <4>4. depth' # 0
        BY <3>5
      <4> QED
        BY <3>10, <4>2, <4>3, <4>4 DEF Restoring
    <3>12. CacheInv'
      <4>1. CASE Depth = 1
        BY <1>1, <1>9, <2>2, <4>1 DEF Inv, CacheInv, OfUser
      <4>2. CASE Depth > 1
        <5>1. frames'[1] = frames[1] /\ Depth' > 0 /\ Depth > 0
          BY <1>3, <1>5, <4>2
        <5> QED
          BY <1>1, <1>9, <5>1 DEF Inv, CacheInv
      <4> QED
        BY <1>3, <4>1, <4>2
    <3> QED
      BY <3>11, <3>12
  <2> QED
    BY <2>1, <2>2
<1>13. RunInv' /\ PointInv'
  BY <1>6, <1>12, ToRestore
<1> QED
  BY <1>7, <1>8, <1>10, <1>11, <1>12, <1>13 DEF Inv

\* cppmain ends: its process is the next to be loaded.
LEMMA BootKernelInv == ASSUME Inv, BootKernel PROVE Inv'
<1> USE DEF tlbVars
<1>1. /\ Runs(Boot) /\ current' = 0 /\ asid' = 0 /\ depth' = depth - 1
      /\ gen' = [gen EXCEPT ![0] = @ + 1]
      /\ regCtx' = [regCtx EXCEPT ![0] = Start(0)]
      /\ Goto(Restore)
      /\ UNCHANGED <<tlb, random, regs, icache, frames, queue, done>>
  BY DEF BootKernel
<1>2. Boot \in Inside /\ Boot # Leave
  BY DEF Inside, Boot, Leave
<1>3. /\ depth > 0 /\ depth = Depth + Base /\ ie = FALSE /\ Depth = 0
  BY <1>1, <1>2, RunsAt
<1>4. Booting /\ depth = 1
  BY <1>3 DEF Base
<1>5. /\ 0 \in Asids /\ 0 \in Processes
      /\ gen \in [Processes -> 0..MaxGen] /\ gen[0] = 0
      /\ done \in [Processes -> 0..MaxInstr] /\ done[0] = 0 /\ queue = << >>
      /\ icache = {}
  <2>1. 0 \in Asids
    BY KernelTrapAssumption DEF KernelTrapAssumption
  <2> QED
    BY <1>4, <2>1 DEF Processes, Inv, TypeOK, Booting, QueueInv, CacheInv
<1>6. gen' \in [Processes -> 0..MaxGen] /\ gen'[0] = 1
  BY <1>1, <1>5, KernelTrapAssumption DEF KernelTrapAssumption
<1>7. /\ Start(0) \in Contexts
      /\ Start(0) = Context(User(-1), <<0, gen'[0]>>, FALSE)
  BY <1>5, <1>6, StartContext DEF Processes
<1>8. regCtx' \in [Processes -> Contexts] /\ regCtx'[0] = Start(0)
  BY <1>1, <1>5, <1>7 DEF Inv, TypeOK
<1>9. pc' = Kernel(Restore) /\ ie' = FALSE /\ UNCHANGED <<epc, exl, trap>>
  BY <1>1, <1>3, Goes DEF Goto
<1>10. depth' = 0 /\ Depth' = 0 /\ ~Booting'
  BY <1>1, <1>3, <1>4, <1>6 DEF Depth, Booting
<1>11. TypeOK'
  <2>1. Kernel(Restore) \in Address
    BY AddressTypes DEF Labels
  <2>2. depth' \in 0..(StackFrames + 1)
    BY <1>10, KernelTrapAssumption DEF KernelTrapAssumption
  <2> QED
    BY <1>1, <1>5, <1>6, <1>8, <1>9, <2>1, <2>2 DEF Inv, TypeOK, TlbTypeOK
<1>12. TlbInv'
  BY <1>1, TlbSame DEF Inv
<1>13. StackInv' /\ BelowInv'
  BY <1>10 DEF StackInv, BelowInv, Base
<1>14. QueueInv' /\ CacheInv'
  BY <1>1, <1>5, <1>10 DEF QueueInv, CacheInv
<1>15. Restoring'
  <2>1. HasPcb'
    <3>1. PcbPage \in Touches(Boot)
      BY DEF Touches, Boot, Borrow, Handle, Finish, Save, Sched, Leave, Restore
    <3>2. HasPcb
      BY <1>1, <3>1, PcbHits DEF Runs, Mapped, Inv
    <3> QED
      BY <1>1, <3>2 DEF HasPcb
  <2>2. Start(0) = Resumed(0)'
    <3>1. done'[0] - 1 = -1
      BY <1>1, <1>5
    <3> QED
      BY <1>7, <3>1 DEF Resumed
  <2>3. (regCtx[current] = Resumed(current))'
    BY <1>1, <1>8, <2>2 DEF Resumed
  <2>4. ~Queued(current)'
    BY <1>1, <1>5 DEF Queued
  <2>5. Ready'
    BY <1>1, <1>5, <2>1, <2>3, <2>4 DEF Ready
  <2> QED
    BY <1>10, <2>5 DEF Restoring
<1>16. RunInv' /\ PointInv'
  BY <1>9, <1>15, ToRestore
<1> QED
  BY <1>11, <1>12, <1>13, <1>14, <1>16 DEF Inv

-----------------------------------------------------------------------------
(* Theorems *)

LEMMA NextInv == ASSUME Inv, [Next]_vars PROVE Inv'
<1>1. CASE UserStep
  BY <1>1, UserMissInv, UserRetireInv, UserSyscallInv, UserFaultInv DEF UserStep
<1>2. CASE Dispatch
  BY <1>2, HandleInterruptInv, HandleMissInv, HandlePlainInv, HandleReadInv,
     CopyStringInv, StopsInv, HandleExecInv, HandleForkInv, HandleExitInv
     DEF Dispatch
<1>3. CASE KernelStep
  BY <1>2, <1>3, KernelMissInv, ReplayInv, EnterTrapInv, BorrowThreadInv,
     TailReturnInv, SaveContextInv, TailEnqueueInv, ScheduleInv, LeaveTrapInv,
     RestoreContextInv, EnableInterruptsInv, ReturnToUserInv, BootKernelInv
     DEF KernelStep
<1>4. CASE UNCHANGED vars
  <2> USE <1>4 DEF vars, tlbVars
  <2>1. TypeOK' <=> TypeOK
    BY DEF TypeOK, TlbTypeOK
  <2>2. /\ Inv => TlbInv' /\ StackInv' /\ QueueInv' /\ (BelowInv => BelowInv')
    BY TlbSame, StackSame, QueueSame, BelowSame DEF Inv
  <2>3. CacheInv' /\ RunInv'
    BY DEF Inv, CacheInv, RunInv, Depth, Booting
  <2>4. Doomed' <=> Doomed
    BY DEF Doomed, At, HasPcb
  <2>5. PointInv => PointInv'
    <3>1. \A r : Stage(r)' <=> Stage(r)
      BY StageSame
    <3>2. \A i : Trapper(i)' = Trapper(i)
      BY DEF Trapper, OfUser, Booting
    <3>3. Loaded' <=> Loaded
      BY DEF Loaded, Queued
    <3>4. Ready' <=> Ready
      BY DEF Ready, Queued, HasPcb, Resumed
    <3>5. Entering => Entering'
      BY <3>1, <3>2, <3>3 DEF Entering, TrapPc, NoEntry, Depth
    <3>6. Leaving => Leaving'
      BY <3>1, <3>2, <3>4 DEF Leaving, HasPcb, Depth, OfUser, Booting
    <3>7. Restoring => Restoring'
      BY <3>1, <3>4 DEF Restoring, HasPcb
    <3> QED
      BY <3>1, <3>3, <3>5, <3>6, <3>7 DEF PointInv, At
  <2> QED
    BY <2>1, <2>2, <2>3, <2>4, <2>5 DEF Inv
<1> QED
  BY <1>1, <1>3, <1>4 DEF Next

\* Every activation of kernel_trap on the stack is where the frame above it
\* says, and holds what its stage of handleTrap leaves there, unless borrow()
\* misses for ever.
THEOREM Invariance == Spec => []Inv
<1>1. TrapInit => Inv
  BY InitInv
<1>2. Inv /\ [Next]_vars => Inv'
  BY NextInv
<1> QED
  BY <1>1, <1>2, PTL DEF Spec

\* Whatever traps of its own the kernel takes on the way, a process goes on
\* behind its last completed instruction, with its registers and address space.
THEOREM Resumption == Spec => []UserResumes
<1>1. Inv => UserResumes
  <2> SUFFICES ASSUME Inv, pc[1] = "user"
               PROVE  /\ depth = 0 /\ current \in Asids
                      /\ pc = User(done[current])
                      /\ regs = <<current, gen[current]>> /\ asid = current
    BY DEF UserResumes, InUserMode
  <2> QED
    BY InUserFacts DEF Loaded
<1> QED
  BY <1>1, Invariance, PTL

\* Nested traps keep their frames and registers apart, and only user code is
\* interrupted.
THEOREM Undisturbed == Spec => []KernelUndisturbed
<1>1. Inv => KernelContinues
  <2> SUFFICES ASSUME Inv, pc[1] = "kernel", pc[2] > Enter, pc[2] < Restore
               PROVE  /\ regs = <<KernelAsid, depth>>
                      /\ depth = Len(frames) + (IF Booting THEN 1 ELSE 0)
                      /\ \A i \in 1..Len(frames) :
                           IF i = 1 /\ ~Booting
                             THEN frames[i].ctx.regs[1] \in Asids
                             ELSE frames[i].ctx.regs
                                    = <<KernelAsid, depth - Len(frames) + i - 1>>
    BY DEF KernelContinues
  <2>1. depth = Depth + Base /\ Depth \in Nat /\ Base \in Nat
    BY DEF Inv, StackInv, TypeOK, Depth, Base
  <2>2. pc[2] \in Inside \cup {Enter} \/ pc[2] % 2 = 1
    BY DEF Inv, RunInv, Labels, Suspending, Inside, Enter, Borrow, Handle, Copy,
       Finish, Save, Sched, Leave, Restore, Enable, Eret, Boot
  <2>3. regs = <<KernelAsid, depth>>
    BY <2>2 DEF Inv, RunInv, Enter, Restore, Inside, Borrow, Handle, Copy, Finish,
                Save, Sched, Leave, Boot
  <2>4. ASSUME NEW i \in 1..Depth, ~OfUser(i)
        PROVE  frames[i].ctx.regs = <<KernelAsid, depth - Depth + i - 1>>
    <3>1. frames[i].ctx.regs = <<KernelAsid, i - 1 + Base>>
      BY <2>4 DEF Inv, StackInv
    <3>2. i - 1 + Base = depth - Depth + i - 1
      BY <2>1
    <3> QED
      BY <3>1, <3>2
  <2>5. \A i \in 1..Depth : OfUser(i) => frames[i].ctx.regs[1] \in Asids
    BY DEF Inv, StackInv
  <2> QED
    BY <2>1, <2>3, <2>4, <2>5 DEF Base, Depth, OfUser
<1>2. Inv => InterruptsOnlyInUser
  <2> SUFFICES ASSUME Inv PROVE InterruptsOnlyInUser
    OBVIOUS
  <2>1. ASSUME NEW i \in 1..Len(frames), frames[i].cause = "INTERRUPT"
        PROVE  i = 1 /\ frames[i].ctx.regs[1] \in Asids
    BY <2>1 DEF Inv, StackInv, OfUser, Depth
  <2>2. ASSUME At(Enter), trap.cause = "INTERRUPT"
        PROVE  depth = 0 /\ epc[1] = "user"
    <3>1. depth = 0
      BY <2>2 DEF Inv, RunInv, TypeOK, At, Kernel
    <3>2. Entering
      BY <2>2, <3>1 DEF Inv, PointInv, Doomed
    <3> QED
      BY <3>1, <3>2 DEF Entering, TrapPc, User
  <2> QED
    BY <2>1, <2>2 DEF InterruptsOnlyInUser
<1>3. Inv => KernelUndisturbed
  BY <1>1, <1>2 DEF Inv, KernelUndisturbed
<1> QED
  BY <1>3, Invariance, PTL

\* User code runs from frames filled for its process, and no page has two
\* entries that match, although the handler of a miss never looks.
THEOREM Separation == Spec => []AddressesSeparated
<1>1. Inv => UserReachesOwnFrames
  <2> SUFFICES ASSUME Inv, pc[1] = "user",
                      NEW e \in icache \cup
                        {Lookup(page) : page \in {q \in UserPages : Hits(q) # {}}}
               PROVE  e.asid = current
    BY DEF UserReachesOwnFrames, InUserMode
  <2>1. Depth = 0 /\ asid = current
    BY InUserFacts DEF Loaded
  <2>2. CASE e \in icache
    BY <2>1, <2>2 DEF Inv, CacheInv
  <2>3. CASE e \notin icache
    <3>1. PICK page \in UserPages : Hits(page) # {} /\ e = Lookup(page)
      BY <2>3
    <3> QED
      BY <2>1, <3>1, Found DEF Inv
  <2> QED
    BY <2>2, <2>3
<1>2. Inv => NoDuplicateEntries
  <2> SUFFICES ASSUME Inv, NEW r \in Slots, NEW s \in Slots, r # s,
                      tlb[r] # Empty, tlb[s] # Empty, tlb[r].page = tlb[s].page
               PROVE  tlb[r].asid # tlb[s].asid /\ ~tlb[r].global /\ ~tlb[s].global
    BY DEF NoDuplicateEntries
  <2>1. tlb[r].asid # tlb[s].asid
    BY DEF Inv, TlbInv
  <2>2. /\ tlb[r].page \in KernelPages <=> tlb[r].asid = KernelAsid
        /\ tlb[s].page \in KernelPages <=> tlb[s].asid = KernelAsid
        /\ tlb[r].global <=> tlb[r].asid = KernelAsid
        /\ tlb[s].global <=> tlb[s].asid = KernelAsid
    BY DEF Inv, TlbInv
  <2> QED
    BY <2>1, <2>2
<1>3. Inv => AddressesSeparated
  BY <1>1, <1>2 DEF AddressesSeparated
<1> QED
  BY <1>3, Invariance, PTL

-----------------------------------------------------------------------------
(* ClockInv is inductive: the states of the two threads and the mutex      *)
(* determine each other closely enough that each action preserves it by    *)
(* itself.                                                                 *)

\* No thread exists before the first start.
LEMMA ClockInitInv == ClockInit => ClockInv
BY DEF ClockInit, ClockInv, ClockTypeOK, MutexHeld, Holding, PollingAsSet,
       NoStaleRead, SpawnsAlone, StoppedIsQuiet, WakesSleeper

\* A step of the owner inside start or stop, a call, or poll.
LEMMA OwnerInv ==
  ASSUME ClockInv, StartClock \/ StopClock \/ Poll \/ OwnerStep
  PROVE  ClockInv'
<1> USE DEF ClockInv, ClockTypeOK, MutexHeld, Holding, PollingAsSet,
            NoStaleRead, SpawnsAlone, StoppedIsQuiet, WakesSleeper, ownerVars
<1>1. CASE StartClock
  BY <1>1 DEF StartClock, Between
<1>2. CASE StopClock
  BY <1>2 DEF StopClock, Between
<1>3. CASE Poll
  BY <1>3 DEF Poll, Between
<1>4. CASE Swap
  BY <1>4 DEF Swap
<1>5. CASE Lock
  BY <1>5 DEF Lock
\* The poller is outside its critical section, so it is not about to sleep.
<1>6. CASE Unlock
  BY <1>6 DEF Unlock
<1>7. CASE Notify
  BY <1>7 DEF Notify
<1>8. CASE Join
  BY <1>8 DEF Join
<1>9. CASE Store
  BY <1>9 DEF Store
<1>10. CASE Spawn
  BY <1>10 DEF Spawn
<1> QED
  BY <1>1, <1>2, <1>3, <1>4, <1>5, <1>6, <1>7, <1>8, <1>9, <1>10
     DEF OwnerStep

\* A step of the poller, or the end of its sleep.
LEMMA PollerInv ==
  ASSUME ClockInv, PollerStep \/ Timeout \/ WakeSpurious
  PROVE  ClockInv'
<1> USE DEF ClockInv, ClockTypeOK, MutexHeld, Holding, PollingAsSet,
            NoStaleRead, SpawnsAlone, StoppedIsQuiet, WakesSleeper, ownerVars
<1>1. CASE Begin
  BY <1>1 DEF Begin
<1>2. CASE While
  BY <1>2 DEF While
<1>3. CASE Predicate
  BY <1>3 DEF Predicate
<1>4. CASE Doze
  BY <1>4 DEF Doze
<1>5. CASE Wake
  BY <1>5 DEF Wake
<1>6. CASE After
  BY <1>6 DEF After
<1>7. CASE Tick
  BY <1>7 DEF Tick
<1>8. CASE Exit
  BY <1>8 DEF Exit
<1>9. CASE Timeout
  BY <1>9 DEF Timeout
<1>10. CASE WakeSpurious
  BY <1>10 DEF WakeSpurious
<1> QED
  BY <1>1, <1>2, <1>3, <1>4, <1>5, <1>6, <1>7, <1>8, <1>9, <1>10
     DEF PollerStep

\* The inductive invariant holds in every state of WallClock.
THEOREM ClockInvariance == ClockSpec => []ClockInv
<1>1. ClockInit => ClockInv
  BY ClockInitInv
<1>2. ClockInv /\ [ClockNext]_clockVars => ClockInv'
  <2> SUFFICES ASSUME ClockInv, [ClockNext]_clockVars PROVE ClockInv'
    OBVIOUS
  <2>1. CASE ClockNext
    BY <2>1, OwnerInv, PollerInv DEF ClockNext
  <2>2. CASE UNCHANGED clockVars
    BY <2>2 DEF clockVars, ClockInv, ClockTypeOK, MutexHeld, PollingAsSet,
                NoStaleRead, SpawnsAlone, StoppedIsQuiet, WakesSleeper
  <2> QED
    BY <2>1, <2>2
<1> QED
  BY <1>1, <1>2, PTL DEF ClockSpec

\* stop never leaves the poller asleep: the notification cannot come between
\* its look at polling and its sleep.
THEOREM SleeperWoken == ClockSpec => []WakesSleeper
<1>1. ClockInv => WakesSleeper
  BY DEF ClockInv
<1> QED
  BY <1>1, ClockInvariance, PTL

\* There is never a second poller, and none after stop.
THEOREM OnePoller == ClockSpec => [](SpawnsAlone /\ StoppedIsQuiet)
<1>1. ClockInv => SpawnsAlone /\ StoppedIsQuiet
  BY DEF ClockInv
<1> QED
  BY <1>1, ClockInvariance, PTL

=============================================================================
