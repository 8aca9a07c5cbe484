----------------------------- MODULE MCMachine -----------------------------
(***************************************************************************)
(* Small instances of Core and HostFiles, checked side by side: part says  *)
(* which of them runs, and the others rest in an initial state.            *)
(*                                                                         *)
(*   core  Bytes of one bit, so that a word has four bits and memory holds *)
(*         four words: the instruction under test, two more, and a handler *)
(*         that returns.  The words of the image are their own numbers, so *)
(*         a store of a register to text changes which instruction is      *)
(*         there.  The third word is on a page that the TLB may lose.      *)
(*         Memory has two regions for jumps.                               *)
(*   two   Two machines with two VFDs each, on a file and a directory,     *)
(*         have as many descriptors as they need with one open file each,  *)
(*         and one more for a vector that grows.                           *)
(*   one   A machine with four VFDs sees its vector grow three times and   *)
(*         also add an element without growing, and seeks behind the end   *)
(*         of its file; the other machine is not used.                     *)
(***************************************************************************)
EXTENDS HostFiles, Core, Bitwise, TLC

CONSTANTS Parts, m1, m2, f1, d1

VARIABLE part

ASSUME HostFilesAssumption

MCAnd(s, t) == s & t
MCOr(s, t) == s | t
MCXor(s, t) == s ^^ t

MCRegs == {0, 1, 2}
MCStarts == {r \in [MCRegs -> WordSet] : r[0] = 0}
MCImage ==
  [a \in WordSet |->
     CASE a % 4 = 2 -> (a \div 8) % 2
       [] a % 4 = 3 -> (a \div 4) % 2
       [] OTHER     -> 0]
MCPaged == {8, 9, 10, 11}

I(op, d, t, s, imm) == [op |-> op, d |-> d, t |-> t, s |-> s, imm |-> imm]

Nop == I("SLL", 0, 0, 0, 0)
Eret == I("ERET", 0, 0, 0, 0)
Again == I("JR", 0, 0, 0, 0)

Three == {I(op, 1, 2, 1, 0) :
            op \in ComputeOps
                     \cup {"ADD", "SUB", "MULT", "MULTU", "DIV", "DIVU",
                           "MTLO", "MTHI", "JR", "SYSCALL", "TEQ", "SYNC",
                           "RI"}}
Others == {I(op, 1, 2, 0, n) : op \in ShiftOps, n \in {1, 3}}
            \cup {I(op, 1, 2, 1, n) :
                    op \in ImmediateOps \cup BranchOps
                             \cup LoadOps \cup StoreOps
                             \cup {"ADDI"}, n \in {-1, 1}}
            \cup {I("JALR", d, 0, 1, 0) : d \in {1, 2}}
            \cup {I(op, 0, 0, 0, n) : op \in {"J", "JAL"}, n \in {0, 1}}
            \cup {I(op, n, 2, 0, 0) : op \in {"MFC0", "MTC0"}, n \in {12, 14}}

Store1 == I("SW", 0, 1, 2, 0)
Result == {I(op, 1, 0, 0, 0) : op \in {"MFLO", "MFHI"}}

Program(first, second, third) ==
  [w \in WordSet |-> CASE w = 0 -> first
                           [] w = 1 -> second
                           [] w = 2 -> third
                           [] w = 3 -> Eret
                           [] OTHER -> I("RI", 0, 0, 0, 0)]

MCPrograms ==
  {Program(i, Nop, Again) : i \in Three \cup Others}
    \cup {Program(i, I("CACHE", 0, 0, 0, 0), Again) :
            i \in {Nop, Store1, I("MTC0", 12, 2, 0, 0)}}
    \cup {Program(Store1, i, Again) : i \in {Nop, I("SYSCALL", 0, 0, 0, 0)}}
    \cup {Program(I("MULT", 0, 2, 1, 0), i, Again) : i \in Result}
    \cup {Program(Nop, I("JAL", 0, 0, 0, n), Again) : n \in {0, 1}}

Two == {m1, m2}
MachineSymmetry == Permutations(Two)
MCFiles == {f1, d1}
MCDirs == {d1}

allVars == <<part, coreVars, vars>>

AtRest == /\ code = Program(I("RI", 1, 2, 1, 0), Nop, Again)
          /\ regs = [r \in MCRegs |-> 0]

MCInit ==
  /\ part \in Parts
  /\ CoreInit /\ (part = "core" \/ AtRest)
  /\ Init

Unused(m) == files[m] = <<>> /\ freeVFDs[m] = <<>> /\ phase[m] = "run"

OnlyCore == part = "core" /\ UNCHANGED <<part, vars>>
OnlyTwo == part = "two" /\ UNCHANGED <<part, coreVars>>
OnlyOne == part = "one" /\ UNCHANGED <<part, coreVars>>

MCNext == \/ OnlyCore /\ CoreNext
          \/ OnlyTwo /\ Next
               /\ \A m \in Two : Len(files'[m]) <= 2
               /\ \A fd \in Fds : table'[fd].pos <= Size
          \/ OnlyOne /\ Next /\ \E m \in Two : Unused(m)'

MCSpec == MCInit /\ [][MCNext]_allVars

=============================================================================
