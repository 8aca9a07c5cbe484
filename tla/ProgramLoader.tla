--------------------------- MODULE ProgramLoader ---------------------------
(***************************************************************************)
(* ProcessManager::createProcess as a loader: it reads an ELF file through *)
(* kernel::File in pieces of the size the host likes, finds the sections   *)
(* .text, .data and .bss, reserves frames for them and writes the bytes of *)
(* the file straight to physical addresses, page by page.                  *)
(*                                                                         *)
(* A byte of a file is the pair of the file and its position.  The layout  *)
(* of a file is a record: its length, the positions of the section headers *)
(* and of the names, and the sections.  A section header takes one unit,   *)
(* and so do the ELF header and a name.                                    *)
(***************************************************************************)
EXTENDS Integers, Sequences, SequencesExt

CONSTANTS Files,      \* the files that can be opened
          Layout,     \* the record that describes each of them
          PageSize,   \* PAGE_SIZE
          Chunk,      \* the most that File::read asks for, 256 in the code
          Buffer,     \* the buffer of stream_copy_to, 512 in the code
          DataLimit,  \* the bound on .data that is asserted, 8 KiB
          StackPages, \* pages of the stack, 4 in the code
          NumFrames,  \* bound: frames of the machine
          MaxProcs    \* bound: processes

\* The header has no signed fields; that they lie in the file is not checked.
LoaderAssumption ==
  /\ {PageSize, Chunk, Buffer, DataLimit} \subseteq Nat \ {0}
  /\ {StackPages, NumFrames, MaxProcs} \subseteq Nat
  /\ Layout \in [Files -> [len : Nat, shoff : Nat, names : Nat,
                          sections : Seq([name : STRING, offset : Nat,
                                          size : Nat])]]

Pids == 1..MaxProcs
Addresses == 0 .. NumFrames * PageSize - 1
Junk == <<>>
NoFile == <<>>

VARIABLES
  mem,      \* physical memory
  procs,    \* ProcessManager::processes, or None
  freePids, \* ProcessManager::freePids
  at,       \* where createProcess is
  file,     \* the file being read, or NoFile
  pos,      \* its position
  need,     \* remaining, of read_full or stream_copy_to
  out,      \* where stream_copy_to writes next
  sec,      \* i, the section header looked at
  info,     \* what is known of the sections
  new,      \* newProcess: its PID and frames
  page      \* the page of the segment that dst is on

loaderVars ==
  <<mem, procs, freePids, at, file, pos, need, out, sec, info, new, page>>

None == [text |-> <<>>, data |-> <<>>, stack |-> <<>>]
NoInfo == [text |-> [offset |-> 0, size |-> 0],
           data |-> [offset |-> 0, size |-> 0],
           bss |-> [offset |-> 0, size |-> 0]]
NotLoading == [pid |-> 0, table |-> None]
Absent == [table |-> None, info |-> NoInfo, live |-> FALSE]

LoaderInit ==
  /\ mem = [a \in Addresses |-> Junk]
  /\ procs = <<>>
  /\ freePids = <<>>
  /\ at = "idle"
  /\ file = NoFile
  /\ pos = 0 /\ need = 0 /\ out = 0 /\ sec = 0 /\ page = 0
  /\ info = NoInfo
  /\ new = NotLoading

-----------------------------------------------------------------------------
(* Frames *)

FramesOf(t) == Range(t.text) \cup Range(t.data) \cup Range(t.stack)

Reserved == UNION {FramesOf(procs[p].table) : p \in 1..Len(procs)}
              \cup FramesOf(new.table)

\* The n lowest free frames, in order.
Lowest(n, S) ==
  LET free == (0 .. NumFrames - 1) \ S
  IN  [i \in 1..n |-> CHOOSE f \in free :
                        Cardinality({g \in free : g < f}) = i - 1]

Pages(size) == size \div PageSize + 1

Enough(i) == Pages(i.text.size) + Pages(i.data.size + i.bss.size) + StackPages
               + Cardinality(Reserved) <= NumFrames

\* HashPageTable::HashPageTable reserves the frames in this order.
NewTable(i) ==
  LET text == Lowest(Pages(i.text.size), Reserved)
      used == Reserved \cup Range(text)
      data == Lowest(Pages(i.data.size + i.bss.size), used)
  IN  [text |-> text, data |-> data,
       stack |-> Lowest(StackPages, used \cup Range(data))]

-----------------------------------------------------------------------------
(* Reading *)

Smallest(S) == CHOOSE n \in S : \A k \in S : n <= k

Copying == at \in {"text", "data"}
Available == Layout[file].len - pos
Asked == Smallest({need, Chunk} \cup (IF Copying THEN {Buffer} ELSE {}))

\* newProcess, the File and the frames are released by their destructors.
ReturnFailed ==
  /\ at' = "idle"
  /\ pos' = 0 /\ need' = 0 /\ out' = 0 /\ sec' = 0 /\ page' = 0
  /\ info' = NoInfo
  /\ new' = NotLoading
  /\ file' = NoFile
  /\ UNCHANGED <<mem, procs, freePids>>

\* Faulty variant: one read, however much it brings.
ReadOnce ==
  /\ need > 0
  /\ Available > 0
  /\ \E got \in 1 .. Smallest({Asked, Available}) :
       /\ pos' = pos + got
       /\ need' = 0
       /\ IF Copying
            THEN /\ out' = out + got
                 /\ mem' = [a \in Addresses |->
                              IF a \in out .. out + got - 1
                                THEN <<file, pos + (a - out)>> ELSE mem[a]]
            ELSE UNCHANGED <<mem, out>>
  /\ UNCHANGED <<procs, freePids, at, file, sec, info, new, page>>

\* One turn of the loop of read_full or stream_copy_to: the host may give
\* less than what was asked for.
ReadSome ==
  /\ need > 0
  /\ Available > 0
  /\ \E got \in 1 .. Smallest({Asked, Available}) :
       /\ pos' = pos + got
       /\ need' = need - got
       /\ IF Copying
            THEN /\ out' = out + got
                 /\ mem' = [a \in Addresses |->
                              IF a \in out .. out + got - 1
                                THEN <<file, pos + (a - out)>> ELSE mem[a]]
            ELSE UNCHANGED <<mem, out>>
  /\ UNCHANGED <<procs, freePids, at, file, sec, info, new, page>>

\* Faulty variant: the loop goes on.
ReadNothingAgain ==
  /\ need > 0
  /\ Available <= 0
  /\ UNCHANGED loaderVars

\* The end of the file, early: createProcess returns NOPCBEXISTS.
ReadNothing ==
  /\ need > 0
  /\ Available <= 0
  /\ ReturnFailed

-----------------------------------------------------------------------------
(* createProcess *)

IsAt(label) == at = label /\ need = 0

\* seek, and a read_full of one unit.
ReadUnit(label, position) ==
  /\ at' = label
  /\ pos' = position
  /\ need' = 1

Create(f) ==
  /\ at = "idle"
  /\ Len(procs) < MaxProcs \/ freePids # <<>>
  /\ file' = f
  /\ ReadUnit("header", 0)
  /\ UNCHANGED <<mem, procs, freePids, out, sec, info, new, page>>

ReadShstr ==
  /\ IsAt("header")
  /\ ReadUnit("shstr", Layout[file].shoff + Len(Layout[file].sections))
  /\ UNCHANGED <<mem, procs, freePids, file, out, sec, info, new, page>>

MoreSections == sec < Len(Layout[file].sections)

ReadSection ==
  /\ IsAt("shstr")
  /\ MoreSections
  /\ ReadUnit("section", Layout[file].shoff + sec)
  /\ sec' = sec + 1
  /\ UNCHANGED <<mem, procs, freePids, file, out, info, new, page>>

ReadName ==
  /\ IsAt("section")
  /\ ReadUnit("name", Layout[file].names + sec - 1)
  /\ UNCHANGED <<mem, procs, freePids, file, out, sec, info, new, page>>

Section == Layout[file].sections[sec]

\* The loop goes on with the next section header.
NoteSection ==
  /\ IsAt("name")
  /\ at' = "shstr"
  /\ info' = IF Section.name \in DOMAIN info
               THEN [info EXCEPT ![Section.name] =
                       [offset |-> Section.offset, size |-> Section.size]]
               ELSE info
  /\ UNCHANGED <<mem, procs, freePids, file, pos, need, out, sec, new, page>>

Allocate ==
  /\ IsAt("shstr")
  /\ ~MoreSections
  /\ info.data.size < DataLimit
  /\ Enough(info)
  /\ new' = [pid |-> IF freePids = <<>> THEN Len(procs) + 1
                                        ELSE Last(freePids),
             table |-> NewTable(info)]
  /\ at' = "totext"
  /\ UNCHANGED <<mem, procs, freePids, file, pos, need, out, sec, info, page>>

\* assert(info.data_size < 8_kb).
AssertFails ==
  /\ IsAt("shstr")
  /\ ~MoreSections
  /\ info.data.size >= DataLimit
  /\ at' = "asserted"
  /\ UNCHANGED <<mem, procs, freePids, file, pos, need, out, sec, info, new,
                 page>>

\* MIN(bytesLeft, PAGE_SIZE) for page p of segment s.
ReadAmount(s, p) == Smallest({info[s].size - p * PageSize, PageSize})

Before(s) == IF s = "text" THEN "totext" ELSE "todata"

\* The loop over the pages of a segment starts, with a seek, or there is
\* nothing to do.
StartSegment(s) ==
  /\ IsAt(Before(s))
  /\ info[s].size > 0
  /\ at' = s
  /\ page' = 0
  /\ pos' = info[s].offset
  /\ out' = new.table[s][1] * PageSize
  /\ need' = ReadAmount(s, 0)
  /\ UNCHANGED <<mem, procs, freePids, file, sec, info, new>>

Following(s) == IF s = "text" THEN "todata" ELSE "finish"

SkipSegment(s) ==
  /\ IsAt(Before(s))
  /\ info[s].size = 0
  /\ at' = Following(s)
  /\ UNCHANGED <<mem, procs, freePids, file, pos, need, out, sec, info, new,
                 page>>

\* dst is on the next page.
NextPage(s) ==
  /\ IsAt(s)
  /\ (page + 1) * PageSize < info[s].size
  /\ page' = page + 1
  /\ out' = new.table[s][page + 2] * PageSize
  /\ need' = ReadAmount(s, page + 1)
  /\ UNCHANGED <<mem, procs, freePids, at, file, pos, sec, info, new>>

EndSegment(s) ==
  /\ IsAt(s)
  /\ (page + 1) * PageSize >= info[s].size
  /\ at' = Following(s)
  /\ UNCHANGED <<mem, procs, freePids, file, pos, need, out, sec, info, new,
                 page>>

\* The process takes its PID.
FinishLoad ==
  /\ IsAt("finish")
  /\ LET proc == [table |-> new.table, info |-> info, live |-> TRUE]
     IN  IF freePids # <<>> /\ new.pid = Last(freePids)
           THEN /\ procs' = [procs EXCEPT ![new.pid] = proc]
                /\ freePids' = Front(freePids)
           ELSE /\ procs' = Append(procs, proc)
                /\ UNCHANGED freePids
  /\ at' = "idle"
  /\ pos' = 0 /\ need' = 0 /\ out' = 0 /\ sec' = 0 /\ page' = 0
  /\ info' = NoInfo
  /\ new' = NotLoading
  /\ file' = NoFile
  /\ UNCHANGED mem

\* freeProcess: the last slot is popped, any other is listed.
FreeProcess(p) ==
  /\ at = "idle"
  /\ procs[p].live
  /\ IF p = Len(procs)
       THEN procs' = Front(procs) /\ UNCHANGED freePids
       ELSE /\ procs' = [procs EXCEPT ![p] = Absent]
            /\ freePids' = Append(freePids, p)
  /\ UNCHANGED <<mem, at, file, pos, need, out, sec, info, new, page>>

-----------------------------------------------------------------------------

Segments == {"text", "data"}

LoaderStep ==
  \/ ReadSome \/ ReadNothing
  \/ ReadShstr \/ ReadSection \/ ReadName \/ NoteSection
  \/ Allocate \/ AssertFails
  \/ \E s \in Segments : \/ StartSegment(s) \/ SkipSegment(s)
                         \/ NextPage(s) \/ EndSegment(s)
  \/ FinishLoad

LoaderNext == \/ \E f \in Files : Create(f)
              \/ LoaderStep
              \/ \E p \in 1..Len(procs) : FreeProcess(p)

LoaderSpec == LoaderInit /\ [][LoaderNext]_loaderVars

\* The kernel runs with interrupts masked.
LoaderFairSpec == LoaderSpec /\ WF_loaderVars(LoaderStep)

-----------------------------------------------------------------------------
(* Correctness *)

LoadLabels == {"idle", "header", "shstr", "section", "name", "totext", "text",
           "todata", "data", "finish", "asserted"}

LoaderTypeOK ==
  /\ \A a \in Addresses :
       mem[a] # Junk => mem[a][1] \in Files /\ mem[a][2] \in Nat
  /\ Len(procs) <= MaxProcs
  /\ Range(freePids) \subseteq 1..Len(procs)
  /\ at \in LoadLabels
  /\ file \in Files \cup {NoFile}
  /\ {pos, need, out, sec, page} \subseteq Nat
  /\ FramesOf(new.table) \subseteq 0 .. NumFrames - 1
  /\ new.pid \in 0..MaxProcs

\* What is still to be copied fits in the frame of the page: with any sizes
\* of the sections and any sizes of the reads, stream_copy_to never writes to
\* a frame that is not the new process's own, nor to the wrong one of these.
WritesOwnFrame ==
  Copying /\ need > 0 =>
    /\ page + 1 <= Len(new.table[at])
    /\ out + need <= (new.table[at][page + 1] + 1) * PageSize
    /\ out >= new.table[at][page + 1] * PageSize

\* A load that fails anywhere leaves PIDs as they were ("Don't pop yet just
\* in case there's a failure"): every slot without a process is on the stack
\* of free PIDs, once.
PidsExact ==
  /\ IsInjective(freePids)
  /\ Range(freePids) = {p \in 1..Len(procs) : ~procs[p].live}

\* Where every load comes to, also with a file that is cut off anywhere.
LoadEnded == at \in {"idle", "asserted"}

\* What a program finds in its memory: each byte that its file has in .text
\* and .data, at its place, as long as it lives and whatever is loaded after
\* it.
Segment(proc, s) ==
  [i \in 0 .. proc.info[s].size - 1 |->
     mem[proc.table[s][i \div PageSize + 1] * PageSize + (i % PageSize)]]

Image == [p \in Pids |->
            IF p \in 1..Len(procs) /\ procs[p].live
              THEN [s \in Segments |-> Segment(procs[p], s)] ELSE <<>>]

ProgramsOf == INSTANCE Programs WITH image <- Image

ProgramsRefinement == ProgramsOf!Spec

\* createProcess gives a process the bytes of its file, all at once or not at
\* all; it writes to the frames of the new process only, and leaves the PIDs
\* as they were when it fails.
ProgramsLoaded ==
  /\ [](LoaderTypeOK /\ WritesOwnFrame /\ PidsExact)
  /\ ProgramsRefinement

=============================================================================
