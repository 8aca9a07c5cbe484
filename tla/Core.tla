-------------------------------- MODULE Core --------------------------------
(***************************************************************************)
(* The core of the machine (machine/Processors.cpp) on the level of        *)
(* registers: a cycle fetches through the cache of decoded instructions,   *)
(* decodes if there is none, and runs the instruction.  Text and data are  *)
(* in the same memory, so that a store can reach text.  How an instruction *)
(* is encoded in a word is left open: code gives what a word decodes to.   *)
(*                                                                         *)
(* Each cycle is one step.  Floating point, the calls of the host and the  *)
(* interrupt device are left out; the TLB (see KernelTrap) is reduced to   *)
(* pages that it may or may not hold when they are accessed.               *)
(***************************************************************************)
EXTENDS Words, Sequences, SequencesExt, FiniteSets

CONSTANTS Capacity,  \* CAPACITY of LRUCache, 32 * 1024 for instructions
          NoValue,   \* T{} of LRUCache, no instruction
          Regs,      \* numbers of the registers
          RA,        \* the one that JAL writes
          Programs,  \* bound: what words decode to
          Image,     \* the memory that loadKernel fills
          Starts,    \* bound: registers in the middle of a program
          TrapEntry, \* trapEntry
          Paged,     \* addresses that are translated by the TLB
          TargetMod, \* the number of values of the field of J, 2^25
          RegionMod, \* the size of a region of J, 2^28
          MaxCycles  \* bound: cycles

PrivilegedOps == {"MFC0", "MTC0", "ERET", "CACHE"}

Ops == ShiftOps \cup ComputeOps \cup ImmediateOps \cup BranchOps \cup LoadOps
         \cup StoreOps \cup PrivilegedOps
         \cup {"ADD", "SUB", "ADDI", "MULT", "MULTU", "DIV", "DIVU", "MFHI",
               "MFLO", "MTHI", "MTLO", "J", "JAL", "JR", "JALR", "SYSCALL",
               "TEQ", "SYNC", "RI"}

\* Of these the immediate operand is a short.
ShortOps == ImmediateOps \cup BranchOps \cup LoadOps \cup StoreOps \cup {"ADDI"}

\* What decode returns: register numbers, and the amount of a shift or a short.
IsInstruction(i) ==
  /\ i \in [op : Ops, d : Int, t : Regs, s : Regs, imm : Int]
  /\ i.d \in Regs \/ i.op \in {"MFC0", "MTC0"}
  /\ i.op \in ShiftOps => i.imm \in Nat
  /\ i.op \in ShortOps => i.imm \in -(HalfMod \div 2) .. HalfMod \div 2 - 1

ASSUME CoreAssumption ==
  /\ Capacity \in Nat \ {0}
  /\ RA \in Regs
  /\ \A program \in Programs : \A w \in WordSet : IsInstruction(program[w])
  /\ Image \in [WordSet -> 0 .. ByteMod - 1]
  /\ TrapEntry \in WordSet /\ Starts \subseteq [Regs -> WordSet]
  /\ Paged \subseteq WordSet
  /\ TargetMod \in Nat \ {0} /\ RegionMod \in Nat \ {0}
  /\ TargetMod * 4 <= RegionMod
  /\ MaxCycles \in Nat

VARIABLES
  code,   \* what words decode to
  pc,     \* programCounter
  regs,   \* registerFile of the integer unit
  hi, lo, \* hiLo
  exl,    \* CP0 STATUS, bit 1
  epc,    \* CP0 EPC
  cause,  \* CP0 CAUSE and BADVADDR
  mem,    \* physMem
  icache, \* instructionCache
  host,   \* running, or aborted by an assertion or an arithmetic signal
  recent, \* history: the program counters in the order of their last use
  stored, \* history: where words were stored since they were decoded
  cycles  \* bound: cycles so far

cp0 == <<exl, epc, cause>>
coreVars == <<code, pc, regs, hi, lo, cp0, mem, icache, host, recent, stored,
          cycles>>

-----------------------------------------------------------------------------
(* machine/LRUCache.h, as far as the core uses it: storage is the list of  *)
(* entries, the most recently used one first, and tracker, a hash map to   *)
(* nodes of the list, is kept as the set of its keys.                      *)

NoEntries == [storage |-> << >>, tracker |-> {}]

Cached(key, value) == [key |-> key, value |-> value]

Position(c, key) == CHOOSE i \in DOMAIN c.storage : c.storage[i].key = key

\* The node moves to the front of the list.
Touched(c, key) ==
  LET i == Position(c, key)
  IN  [c EXCEPT !.storage = <<@[i]>> \o RemoveAt(@, i)]

\* The entry at the back makes room.
Evicted(c) ==
  IF Cardinality(c.tracker) < Capacity THEN c
  ELSE [storage |-> Front(c.storage),
        tracker |-> c.tracker \ {Last(c.storage).key}]

\* operator[]: the value of the key is at the front afterwards.
Access(c, key) ==
  IF key \in c.tracker THEN Touched(c, key)
  ELSE LET e == Evicted(c)
       IN  [storage |-> <<Cached(key, NoValue)>> \o e.storage,
            tracker |-> e.tracker \cup {key}]

\* What the reference that operator[] returned refers to.
Accessed(c) == c.storage[1].value

Assigned(c, value) == [c EXCEPT !.storage[1].value = value]

Keys(c) == [i \in DOMAIN c.storage |-> c.storage[i].key]

-----------------------------------------------------------------------------
(* Fetch and decode *)

\* Jump and JumpAndLink compute their target when they are decoded: in the
\* region of the next instruction.
Bound(i, addr) ==
  LET next == Word(addr + 4)
      region == next - (next % RegionMod)
  IN  IF i.op \in {"J", "JAL"}
        THEN [i EXCEPT !.imm = Word(region + (@ % TargetMod) * 4 - 4)]
        ELSE i

Decoded(addr) == Bound(code[ReadBytes(mem, addr, 4)], addr)

CacheOpened == Access(icache, pc)

Known == Accessed(CacheOpened) # NoValue

Instr == IF Known THEN Accessed(CacheOpened) ELSE Decoded(pc)

Aligned(addr, n) == addr % n = 0

\* Faulty variant: the clearing of the cache is forgotten.
CacheAfterKept == Assigned(CacheOpened, Instr)

CacheAfter == IF Instr.op = "CACHE" /\ exl THEN NoEntries
                                           ELSE Assigned(CacheOpened, Instr)

MovedToFront(s, x) ==
  <<x>> \o (IF x \in Range(s)
             THEN RemoveAt(s, CHOOSE i \in 1 .. Len(s) : s[i] = x) ELSE s)

Fetchable(ops) == (Known \/ Aligned(pc, 4)) /\ Instr.op \in ops

\* The instruction at the program counter runs.
Fetch(ops) ==
  /\ Fetchable(ops)
  /\ icache' = CacheAfter
  /\ recent' = IF Instr.op = "CACHE" /\ exl THEN << >>
                                            ELSE MovedToFront(recent, pc)

Refreshed == IF Known THEN stored ELSE stored \ {pc}

Runs(ops) == Fetch(ops) /\ stored' = Refreshed /\ UNCHANGED <<code, host>>

-----------------------------------------------------------------------------
(* The end of a cycle *)

\* Faulty variant: the program counter does not wrap around.
RetireWide(addr) == pc' = addr + 4 /\ UNCHANGED cp0

Retire(addr) == pc' = Word(addr + 4) /\ UNCHANGED cp0

Proceed == Retire(pc)

\* raiseTrap.
Raise(c, addr) ==
  /\ epc' = pc
  /\ exl' = TRUE
  /\ cause' = [code |-> c, addr |-> addr]
  /\ pc' = TrapEntry

\* An assertion of the host, or its arithmetic: the program is over.
Abort == host' = "aborted" /\ UNCHANGED <<code, pc, regs, hi, lo, cp0, mem,
                                          icache, recent, stored>>

Set(r, w) == regs' = [regs EXCEPT ![r] = w]

S == regs[Instr.s]
T == regs[Instr.t]
Imm == Instr.imm

-----------------------------------------------------------------------------
(* Fetches without an instruction *)

FetchMiss ==
  /\ ~Known /\ pc \in Paged
  /\ icache' = CacheOpened
  /\ recent' = MovedToFront(recent, pc)
  /\ Raise("TLB_L", pc)
  /\ UNCHANGED <<code, regs, hi, lo, mem, host, stored>>

FetchUnaligned == ~Known /\ ~Aligned(pc, 4) /\ Abort

\* decode throws and leaves the entry of the cache empty.
Reserved ==
  /\ ~Known /\ Aligned(pc, 4) /\ Decoded(pc).op = "RI"
  /\ icache' = CacheOpened
  /\ recent' = MovedToFront(recent, pc)
  /\ Raise("RI", 0)
  /\ UNCHANGED <<code, regs, hi, lo, mem, host, stored>>

-----------------------------------------------------------------------------
(* Instructions *)

Compute ==
  /\ \/ Runs(ShiftOps) /\ Set(Instr.d, Shifted(T, Imm)[Instr.op])
     \/ Runs(ComputeOps)
          /\ Set(Instr.d, Computed(S, T, regs[Instr.d])[Instr.op])
     \/ Runs(ImmediateOps) /\ Set(Instr.t, Immediate(S, Imm)[Instr.op])
  /\ Proceed
  /\ UNCHANGED <<hi, lo, mem>>

\* Add and Subtract write to rt, not to rd, and to it also if they trap.
Exact == ExactSum(S, T, Imm)[Instr.op]

AddTrapping ==
  /\ Runs({"ADD", "SUB", "ADDI"})
  /\ Set(Instr.t, Word(Exact))
  /\ IF IsInt(Exact) THEN Proceed ELSE Raise("OVERFLOW", 0)
  /\ UNCHANGED <<hi, lo, mem>>

SetHiLo(h, l) == hi' = Word(h) /\ lo' = Word(l)

Multiply ==
  /\ Runs({"MULT", "MULTU"})
  /\ LET p == Product(S, T)[Instr.op] IN SetHiLo(p \div WordMod, p)
  /\ Proceed
  /\ UNCHANGED <<regs, mem>>

HasQuotient == T # 0 /\ (Instr.op = "DIV" => IsInt(Quotient(Signed(S), Signed(T))))

Divide ==
  /\ Runs({"DIV", "DIVU"}) /\ HasQuotient
  /\ IF Instr.op = "DIV"
       THEN SetHiLo(Remainder(Signed(S), Signed(T)), Quotient(Signed(S), Signed(T)))
       ELSE SetHiLo(S % T, S \div T)
  /\ Proceed
  /\ UNCHANGED <<regs, mem>>

DivideAborts == Fetchable({"DIV", "DIVU"}) /\ ~HasQuotient /\ Abort

MoveHiLo ==
  /\ \/ Runs({"MFHI"}) /\ Set(Instr.d, hi) /\ UNCHANGED <<hi, lo>>
     \/ Runs({"MFLO"}) /\ Set(Instr.d, lo) /\ UNCHANGED <<hi, lo>>
     \/ Runs({"MTHI"}) /\ hi' = S /\ UNCHANGED <<regs, lo>>
     \/ Runs({"MTLO"}) /\ lo' = S /\ UNCHANGED <<regs, hi>>
  /\ Proceed
  /\ UNCHANGED mem

Branch ==
  /\ Runs(BranchOps)
  /\ Retire(IF Taken(S, T)[Instr.op] THEN pc + 4 * Imm ELSE pc)
  /\ UNCHANGED <<regs, hi, lo, mem>>

\* The cycle adds 4 to the target.  JALR links before it reads rs.
Jump ==
  /\ \/ Runs({"J"}) /\ Retire(Imm) /\ UNCHANGED regs
     \/ Runs({"JAL"}) /\ Set(RA, Word(pc + 4)) /\ Retire(Imm)
     \/ Runs({"JR"}) /\ Retire(S - 4) /\ UNCHANGED regs
     \/ Runs({"JALR"}) /\ Set(Instr.d, Word(pc + 4)) /\ Retire(regs'[Instr.s] - 4)
  /\ UNCHANGED <<hi, lo, mem>>

Address == Word(S + Imm)
Bytes == Width[Instr.op]

AccessMiss ==
  /\ Runs(LoadOps \cup StoreOps) /\ Address \in Paged
  /\ Raise(IF Instr.op \in LoadOps THEN "TLB_L" ELSE "TLB_S", Address)
  /\ UNCHANGED <<regs, hi, lo, mem>>

AccessUnaligned ==
  Fetchable(LoadOps \cup StoreOps) /\ ~Aligned(Address, Bytes) /\ Abort

Load ==
  /\ Runs(LoadOps) /\ Aligned(Address, Bytes)
  /\ Set(Instr.t, Loaded(Instr.op, ReadBytes(mem, Address, Bytes)))
  /\ Proceed
  /\ UNCHANGED <<hi, lo, mem>>

Store ==
  /\ Fetch(StoreOps) /\ Aligned(Address, Bytes)
  /\ mem' = Written(mem, Address, Bytes, T)
  /\ stored' = Refreshed \cup {Address - (Address % 4)}
  /\ Proceed
  /\ UNCHANGED <<code, regs, hi, lo, host>>

SoftTrap ==
  /\ \/ Runs({"SYSCALL"}) /\ Raise("SYSCALL", 0)
     \/ Runs({"TEQ"}) /\ IF S = T THEN Raise("TRAP", 0) ELSE Proceed
     \/ Runs({"SYNC"}) /\ Proceed
  /\ UNCHANGED <<regs, hi, lo, mem>>

NotPrivileged ==
  /\ Runs(PrivilegedOps) /\ ~exl
  /\ Raise("RI", 0)
  /\ UNCHANGED <<regs, hi, lo, mem>>

\* STATUS (12) is its bit 1 here; EPC is 14.
MoveCp0 ==
  /\ exl
  /\ pc' = Word(pc + 4)
  /\ \/ /\ Runs({"MFC0"})
        /\ Set(Instr.t, IF Instr.d = 12 THEN 2 * Flag(exl) ELSE epc)
        /\ UNCHANGED <<exl, epc>>
     \/ /\ Runs({"MTC0"})
        /\ exl' = IF Instr.d = 12 THEN (T \div 2) % 2 = 1 ELSE exl
        /\ epc' = IF Instr.d = 14 THEN T ELSE epc
        /\ UNCHANGED regs
  /\ UNCHANGED <<cause, hi, lo, mem>>

\* eret leaves EXL as it is, and the cycle goes on behind the EPC.
ReturnFromTrap ==
  /\ exl
  /\ \/ Runs({"ERET"}) /\ Retire(epc)
     \/ Runs({"CACHE"}) /\ Proceed
  /\ UNCHANGED <<regs, hi, lo, mem>>

-----------------------------------------------------------------------------

CoreInit ==
  /\ code \in Programs
  /\ pc = 0
  /\ regs \in Starts
  /\ hi = 0 /\ lo = 0
  /\ exl = TRUE /\ epc = 0
  /\ cause = [code |-> "none", addr |-> 0]
  /\ mem = Image
  /\ icache = NoEntries
  /\ host = "running"
  /\ recent = << >>
  /\ stored = {}
  /\ cycles = 0

NoInstruction == FetchMiss \/ FetchUnaligned \/ Reserved

Arithmetic == Compute \/ AddTrapping \/ Multiply \/ Divide \/ DivideAborts
                \/ MoveHiLo

Memory == AccessMiss \/ AccessUnaligned \/ Load \/ Store

Control == Branch \/ Jump \/ SoftTrap \/ NotPrivileged \/ MoveCp0
             \/ ReturnFromTrap

Cycle == NoInstruction \/ Arithmetic \/ Memory \/ Control

CoreNext == /\ host = "running"
        /\ cycles < MaxCycles /\ cycles' = cycles + 1
        /\ Cycle

CoreSpec == CoreInit /\ [][CoreNext]_coreVars

-----------------------------------------------------------------------------
(* Correctness *)

Codes == {"TLB_L", "TLB_S", "SYSCALL", "RI", "OVERFLOW", "TRAP"}

CacheEntries == {icache.storage[i] : i \in DOMAIN icache.storage}

CoreTypeOK ==
  /\ pc \in WordSet
  /\ regs \in [Regs -> WordSet]
  /\ hi \in WordSet /\ lo \in WordSet
  /\ exl \in BOOLEAN /\ epc \in WordSet
  /\ cause \in [code : Codes \cup {"none"}, addr : WordSet]
  /\ mem \in [WordSet -> 0 .. ByteMod - 1]
  /\ \A e \in CacheEntries : e.value = NoValue \/ e.value.op \in Ops
  /\ host \in {"running", "aborted"}
  /\ stored \subseteq WordSet

\* The cache holds the addresses used last, most recent first, through misses,
\* reserved instructions and clearings, and its list and its map agree.  It is
\* transparent except for text that was stored to after it was decoded: only
\* the CACHE instruction makes the core see that.
CacheTransparent ==
  /\ Keys(icache) = SubSeq(recent, 1, IF Len(recent) < Capacity
                                        THEN Len(recent) ELSE Capacity)
  /\ icache.tracker = {e.key : e \in CacheEntries}
  /\ \A e \in CacheEntries :
       \/ e.value = NoValue
       \/ e.value = Decoded(e.key)
       \/ e.key \in stored

Negative(w) == w >= WordMod \div 2

\* ADD, SUB and ADDI trap exactly if the sign of the result is impossible.
OverflowLaw ==
  LET r == regs'[Instr.t]
      t == IF Instr.op = "ADDI" THEN Word(Imm) ELSE T
      overflow == /\ (Negative(S) = Negative(t)) = (Instr.op # "SUB")
                  /\ Negative(r) # Negative(S)
  IN  IF overflow THEN epc' = pc /\ cause'.code = "OVERFLOW"
                  ELSE pc' = Word(pc + 4) /\ UNCHANGED cp0

\* SLT is the sign of the difference, corrected by overflow.
LessLaw ==
  LET d == Word(S - T)
      overflow == Negative(S) # Negative(T) /\ Negative(d) # Negative(S)
  IN  regs'[Instr.d] = Flag(Negative(d) # overflow)

ProductLaw ==
  IF Instr.op = "MULT" THEN Signed(hi') * WordMod + lo' = Signed(S) * Signed(T)
                       ELSE hi' * WordMod + lo' = S * T

\* The quotient is cut towards zero: the remainder has the sign of rs.
DivisionLaw ==
  host' = "running" =>
    IF Instr.op = "DIV"
      THEN /\ Signed(lo') * Signed(T) + Signed(hi') = Signed(S)
           /\ AbsInt(Signed(hi')) < AbsInt(Signed(T))
           /\ hi' # 0 => Negative(hi') = Negative(S)
      ELSE lo' * T + hi' = S /\ hi' < T

\* The -4 of the jumps and the +4 of the cycle cancel out.
JumpLaw ==
  /\ Instr.op = "JR" => pc' = S
  /\ Instr.op = "JALR" /\ Instr.s # Instr.d => pc' = S
  /\ Instr.op = "JAL" => regs'[RA] = Word(pc + 4)

Law == /\ Instr.op \in {"ADD", "SUB", "ADDI"} => OverflowLaw
       /\ Instr.op = "SLT" => LessLaw
       /\ Instr.op \in {"MULT", "MULTU"} => ProductLaw
       /\ Instr.op \in {"DIV", "DIVU"} => DivisionLaw
       /\ Instr.op \in {"J", "JAL", "JR", "JALR"} => JumpLaw

\* Where the code leans on casts, on builtins or on the order of assignments,
\* the result is what algebra says of it.
InstructionLaws ==
  [][Known \/ (Aligned(pc, 4) /\ pc \notin Paged) => Law]_coreVars

=============================================================================
