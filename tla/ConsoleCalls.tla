---------------------------- MODULE ConsoleCalls ----------------------------
(***************************************************************************)
(* The system calls of a process that print and read a string, with the    *)
(* bytes they move: handleTrap (kernel/trap.cpp), which reads the string   *)
(* that is printed from physical memory and copies the one that is read    *)
(* through the translations of the process, and the host's answer to the   *)
(* kernel (VMTunnel in KInstructions.cpp).  A byte at a time is copied; a  *)
(* store that misses the TLB traps, the handler of the trap fills the TLB  *)
(* and the store is tried again.                                           *)
(*                                                                         *)
(* The kernel is not interrupted, and so there is one process only.        *)
(***************************************************************************)
EXTENDS Integers, Sequences, FiniteSets, Functions

CONSTANTS
  PageSize,  \* PAGE_SIZE
  Pages,     \* pages 0 .. Pages - 1 that the process may have
  Frames,    \* frames 0 .. Frames - 1 of the machine
  Chars, Nul,
  MaxRead,   \* the most that can be read, 4096 in the code
  Slots,     \* entries of the TLB
  Foreign    \* a byte of another process

ASSUME ConsoleCallsAssumption ==
  /\ {PageSize, Pages, Frames, Slots} \subseteq Nat \ {0}
  /\ MaxRead \in Nat
  /\ Nul \notin Chars /\ Foreign \notin Chars \cup {Nul}

VARIABLES
  mem,      \* physMem
  table,    \* the page table of the process: a frame for some pages
  tlb,      \* the pages of the process that the TLB has
  pc,       \* "user", "copy" in the loop of READ_STRING, or "halted"
  reading,  \* of READ_STRING: where to copy, the bytes, how many are copied
  expected, \* history: the memory the process believes to have
  printed   \* history: the last string that was printed: where it is, what
            \* the process has there, and what the host wrote

callVars == <<mem, table, tlb, pc, reading, expected, printed>>

Addresses == 0 .. Pages * PageSize - 1
Physical == 0 .. Frames * PageSize - 1

PageOf(a) == a \div PageSize
Offset(a) == a % PageSize
Mapped == {a \in Addresses : PageOf(a) \in DOMAIN table}

\* The page number in the low word of a TLB entry is above 6 bits of flags.
EntryLo(frame) == frame * 64 + 2
FrameIn(lo) == lo \div 64

\* TLB::translate.
Translated(a) == FrameIn(EntryLo(table[PageOf(a)])) * PageSize + Offset(a)

CallInit ==
  /\ table \in UNION {Injection(S, 0 .. Frames - 1) :
                        S \in SUBSET (0 .. Pages - 1) \ {{}}}
  /\ mem = [f \in Physical |->
              IF \E p \in DOMAIN table : table[p] = f \div PageSize
                THEN Nul ELSE Foreign]
  /\ tlb = {} /\ pc = "user"
  /\ reading = [to |-> 0, bytes |-> <<>>, done |-> 0]
  /\ expected = [a \in Mapped |-> Nul]
  /\ printed = [at |-> 0, has |-> <<>>, wrote |-> <<>>]

\* A store of the process, with the misses there are on the way.
UserStore(a, c) ==
  /\ pc = "user" /\ a \in Mapped
  /\ mem' = [mem EXCEPT ![Translated(a)] = c]
  /\ expected' = [expected EXCEPT ![a] = c]
  /\ UNCHANGED <<table, tlb, pc, reading, printed>>

\* A page without a frame is an assertion that fails in AddressSpace::
\* translate; the kernel halts the machine.
Halt == pc' = "halted" /\ UNCHANGED <<mem, table, tlb, reading, expected, printed>>

-----------------------------------------------------------------------------
(* PRINT_STRING *)

\* The text from n on, up to NUL or to where f ends: behind the last address
\* of the machine no promise is made.
TextFrom(f, n) ==
  LET stop == CHOOSE k \in n .. (Frames + Pages) * PageSize :
                /\ k \notin DOMAIN f \/ f[k] = Nul
                /\ \A j \in n .. k - 1 : j \in DOMAIN f /\ f[j] # Nul
  IN  [i \in 1 .. stop - n |-> f[n + i - 1]]

\* The process has a string at a, with its NUL.
IsString(a) == a + Len(TextFrom(expected, a)) \in Mapped

PhysAddr(a) ==
  FrameIn(EntryLo(table[PageOf(a)])) * PageSize + Offset(a)

PrintString(a) ==
  /\ pc = "user" /\ a \in Addresses
  /\ a \in Mapped => IsString(a)
  /\ IF a \notin Mapped THEN Halt
     ELSE /\ printed' = [at |-> a, has |-> TextFrom(expected, a),
                         wrote |-> TextFrom(mem, PhysAddr(a))]
          /\ UNCHANGED <<mem, table, tlb, pc, reading, expected>>

-----------------------------------------------------------------------------
(* READ_STRING *)

\* The host gives at most as many bytes as were asked for, here to a buffer
\* on the stack of the kernel, which needs no TLB.  Nothing is read when
\* too much is asked for.
ReadString(a, n, s) ==
  /\ pc = "user" /\ a \in Addresses
  /\ n <= MaxRead /\ Len(s) \in 1 .. n
  /\ pc' = "copy"
  /\ reading' = [to |-> a, bytes |-> s, done |-> 0]
  /\ UNCHANGED <<mem, table, tlb, expected, printed>>

ReadsNothing(n) == pc = "user" /\ n > MaxRead /\ UNCHANGED callVars

Destination == reading.to + reading.done

\* The handler of the miss: another entry may be lost.
Fill ==
  \E lost \in SUBSET tlb :
    /\ Cardinality(tlb \ lost) < Slots
    /\ tlb' = (tlb \ lost) \cup {PageOf(Destination)}

\* Faulty variant: epc stays behind the store that missed.
MissSkips ==
  /\ pc = "copy" /\ reading.done < Len(reading.bytes)
  /\ PageOf(Destination) \notin tlb
  /\ IF Destination \notin Mapped THEN Halt
     ELSE /\ Fill /\ reading' = [reading EXCEPT !.done = @ + 1]
          /\ UNCHANGED <<mem, table, pc, expected, printed>>

\* trapCtx->epc -= 4.
Miss ==
  /\ pc = "copy" /\ reading.done < Len(reading.bytes)
  /\ PageOf(Destination) \notin tlb
  /\ IF Destination \notin Mapped THEN Halt
     ELSE Fill /\ UNCHANGED <<mem, table, pc, reading, expected, printed>>

CopyByte ==
  /\ pc = "copy" /\ reading.done < Len(reading.bytes)
  /\ PageOf(Destination) \in tlb
  /\ mem' = [mem EXCEPT ![Translated(Destination)] =
                          reading.bytes[reading.done + 1]]
  /\ reading' = [reading EXCEPT !.done = @ + 1]
  /\ UNCHANGED <<table, tlb, pc, expected, printed>>

\* The process goes on, and has the bytes in its buffer.
ReadReturns ==
  /\ pc = "copy" /\ reading.done = Len(reading.bytes)
  /\ pc' = "user"
  /\ expected' = [a \in Mapped |->
                    IF a \in reading.to .. reading.to + Len(reading.bytes) - 1
                      THEN reading.bytes[a - reading.to + 1] ELSE expected[a]]
  /\ UNCHANGED <<mem, table, tlb, reading, printed>>

Copying == Miss \/ CopyByte \/ ReadReturns

CallNext ==
  \/ \E a \in Addresses :
       \/ PrintString(a)
       \/ \E c \in Chars \cup {Nul} : UserStore(a, c)
       \/ \E n \in 1 .. MaxRead :
            \E s \in UNION {[1 .. k -> Chars] : k \in 1 .. n} :
              ReadString(a, n, s)
  \/ ReadsNothing(MaxRead + 1)
  \/ Copying

\* The kernel is not interrupted while it copies.
CallSpec == CallInit /\ [][CallNext]_callVars /\ WF_callVars(Copying)

-----------------------------------------------------------------------------
(* Properties *)

\* The text at address a, its NUL included, is on one page, or its pages are
\* in frames that follow one another.
Straight(a, length) ==
  \A p \in PageOf(a) .. PageOf(a + length) :
    /\ p \in DOMAIN table
    /\ table[p] = table[PageOf(a)] + p - PageOf(a)

\* What is printed is the string of the process if that is straight, which
\* the kernel does not see to.
PrintedIsText ==
  Straight(printed.at, Len(printed.has)) => printed.wrote = printed.has

\* The process finds in its memory what it wrote or asked to be read, all of
\* it when the call returns, over whatever misses and page boundaries.
ReadIsDelivered ==
  pc = "user" => \A a \in Mapped : mem[Translated(a)] = expected[a]

\* No byte of another process is ever changed for it.
ForeignKept ==
  \A f \in Physical : (mem[f] = Foreign)
                        <=> (f \div PageSize) \notin Range(table)

\* A read that has begun ends, or the machine does.
ReadEnds == (pc = "copy") ~> (pc # "copy")

=============================================================================
