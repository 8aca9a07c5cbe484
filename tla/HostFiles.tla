----------------------------- MODULE HostFiles -----------------------------
(***************************************************************************)
(* The files that the guests of one host process have open: the class      *)
(* FileSystem of each machine, a vector of optional<OpenFile> whose        *)
(* indices are the virtual descriptors (VFDs) of the guest, over the       *)
(* descriptor table of the host, which all machines share.  The requests   *)
(* are the cases FOPEN, FREAD, FSEEK and FCLOSE of VMTunnel.               *)
(*                                                                         *)
(* OpenFile has a destructor and therefore no move constructor: when       *)
(* emplace_back finds the vector full, each old element is copied to the   *)
(* new storage and then destroyed, which closes its descriptor.  The new   *)
(* element is constructed before that.                                     *)
(***************************************************************************)
EXTENDS Integers, Sequences, SequencesExt

CONSTANTS Machines, \* the machines of the process
          Files,    \* the paths that can be opened
          Dirs,     \* those of them that are directories
          Missing,  \* a path that cannot be opened
          Size,     \* bytes in a file
          NumFds,   \* bound: descriptors the host gives to files
          MaxFiles, \* bound: VFDs of a machine
          MaxPos    \* bound: position of a descriptor

HostFilesAssumption ==
  /\ Dirs \subseteq Files
  /\ Missing \notin Files
  /\ Size \in Nat
  /\ NumFds \in Nat
  /\ MaxFiles \in Nat
  /\ MaxPos \in Nat /\ Size <= MaxPos

Fds == 1..NumFds
Closed == [file |-> Missing, pos |-> 0]

VARIABLES
  table,    \* the descriptor table of the host
  files,    \* FileSystem::files
  capacity, \* files.capacity()
  freeVFDs, \* FileSystem::freeVFDs
  phase,    \* what the thread of the machine does: run, grow or destroy
  at,       \* the elements of files that grow or destroy has dealt with
  ended,    \* why the host process has ended, or no
  damaged   \* history: growth closed an open file, or a guest used a VFD
            \* that it had closed

vars == <<table, files, capacity, freeVFDs, phase, at, ended, damaged>>

\* slot.file is history: the path it was opened with.  OpenFile::offset is
\* not used, and err is only passed on in the answer to a seek.
Slot(fd, f) == [open |-> TRUE, fd |-> fd, file |-> f]

Init ==
  /\ table = [fd \in Fds |-> Closed]
  /\ files = [m \in Machines |-> <<>>]
  /\ capacity = [m \in Machines |-> 0]
  /\ freeVFDs = [m \in Machines |-> <<>>]
  /\ phase = [m \in Machines |-> "run"]
  /\ at = [m \in Machines |-> 0]
  /\ ended = "no"
  /\ damaged = FALSE

Open(m) == {v \in 1..Len(files[m]) : files[m][v].open}

Running(m) == ended = "no" /\ phase[m] = "run"

\* The process ends: an assertion fails or nobody catches an exception.
End(cause) ==
  /\ ended' = cause
  /\ UNCHANGED <<table, files, capacity, freeVFDs, phase, at, damaged>>

-----------------------------------------------------------------------------
(* FOPEN *)

FreeFds == {fd \in Fds : table[fd] = Closed}
Lowest == CHOOSE fd \in FreeFds : \A o \in FreeFds : fd <= o

\* OpenFile::OpenFile.
Opened(f) == table' = [table EXCEPT ![Lowest] = [file |-> f, pos |-> 0]]

CanOpen(f) == f \in Files /\ FreeFds # {}

\* assert(false) in the constructor.
OpenFails(m, f) == Running(m) /\ ~CanOpen(f) /\ End("open")

\* Faulty variant: the slot keeps the old OpenFile.
OpenReuseStale(m, f) ==
  /\ Running(m)
  /\ CanOpen(f)
  /\ freeVFDs[m] # <<>>
  /\ Opened(f)
  /\ files' = [files EXCEPT ![m][Last(freeVFDs[m])].open = TRUE]
  /\ freeVFDs' = [freeVFDs EXCEPT ![m] = Front(@)]
  /\ UNCHANGED <<capacity, phase, at, ended, damaged>>

OpenReuse(m, f) ==
  /\ Running(m)
  /\ CanOpen(f)
  /\ freeVFDs[m] # <<>>
  /\ Opened(f)
  /\ files' = [files EXCEPT ![m][Last(freeVFDs[m])] = Slot(Lowest, f)]
  /\ freeVFDs' = [freeVFDs EXCEPT ![m] = Front(@)]
  /\ UNCHANGED <<capacity, phase, at, ended, damaged>>

Full(m) == Len(files[m]) = capacity[m]
Doubled(n) == IF n = 0 THEN 1 ELSE 2 * n

OpenNew(m, f) ==
  /\ Running(m)
  /\ CanOpen(f)
  /\ freeVFDs[m] = <<>>
  /\ Len(files[m]) < MaxFiles
  /\ Opened(f)
  /\ files' = [files EXCEPT ![m] = Append(@, Slot(Lowest, f))]
  /\ IF Full(m)
       THEN /\ capacity' = [capacity EXCEPT ![m] = Doubled(@)]
            /\ phase' = [phase EXCEPT ![m] = "grow"]
       ELSE UNCHANGED <<capacity, phase>>
  /\ UNCHANGED <<freeVFDs, at, ended, damaged>>

\* OpenFile::~OpenFile.
CloseFails(fd) == table[fd] = Closed
Close(fd) == table' = [table EXCEPT ![fd] = Closed]

Next1(m) == files[m][at[m] + 1]

\* The next element is copied and destroyed.
Relocate(m) ==
  /\ ended = "no"
  /\ phase[m] = "grow"
  /\ at[m] < Len(files[m]) - 1
  /\ IF Next1(m).open /\ CloseFails(Next1(m).fd) THEN End("close")
     ELSE /\ IF Next1(m).open THEN Close(Next1(m).fd) /\ damaged' = TRUE
                              ELSE UNCHANGED <<table, damaged>>
          /\ at' = [at EXCEPT ![m] = @ + 1]
          /\ UNCHANGED <<files, capacity, freeVFDs, phase, ended>>

Grown(m) ==
  /\ ended = "no"
  /\ phase[m] = "grow"
  /\ at[m] = Len(files[m]) - 1
  /\ phase' = [phase EXCEPT ![m] = "run"]
  /\ at' = [at EXCEPT ![m] = 0]
  /\ UNCHANGED <<table, files, capacity, freeVFDs, ended, damaged>>

-----------------------------------------------------------------------------
(* FREAD, FSEEK *)

\* files.at(vfd) throws.
OutOfRange(m, v) == Running(m) /\ v > Len(files[m]) /\ End("range")

\* An optional that was reset still holds the old bytes: a closed VFD
\* reaches its old descriptor.
Stray(m, v) == damaged' = (damaged \/ ~files[m][v].open)

Readable(fd) == table[fd] # Closed /\ table[fd].file \notin Dirs

\* read returns -1; compared with Word(-1) it is no error, and
\* buffer.resize throws.
ReadFails(m, v) ==
  /\ Running(m)
  /\ v \in 1..Len(files[m])
  /\ ~Readable(files[m][v].fd)
  /\ ended' = "read"
  /\ Stray(m, v)
  /\ UNCHANGED <<table, files, capacity, freeVFDs, phase, at>>

Smaller(a, b) == IF a < b THEN a ELSE b
Left(pos) == IF pos < Size THEN Size - pos ELSE 0

Read(m, v, count) ==
  /\ Running(m)
  /\ v \in 1..Len(files[m])
  /\ LET fd == files[m][v].fd
     IN  /\ Readable(fd)
         /\ table' = [table EXCEPT
                        ![fd].pos = @ + Smaller(count, Left(@))]
  /\ Stray(m, v)
  /\ UNCHANGED <<files, capacity, freeVFDs, phase, at, ended>>

Base(fd, whence) == CASE whence = "SET" -> 0
                      [] whence = "CUR" -> table[fd].pos
                      [] whence = "END" -> Size

\* The offset is unsigned: no seek goes back from where it starts.
Seek(m, v, offset, whence) ==
  /\ Running(m)
  /\ v \in 1..Len(files[m])
  /\ LET fd == files[m][v].fd
     IN  IF table[fd] = Closed THEN UNCHANGED table
         ELSE /\ Base(fd, whence) + offset <= MaxPos
              /\ table' = [table EXCEPT
                             ![fd].pos = Base(fd, whence) + offset]
  /\ Stray(m, v)
  /\ UNCHANGED <<files, capacity, freeVFDs, phase, at, ended>>

-----------------------------------------------------------------------------
(* FCLOSE and the end of a machine *)

\* A VFD out of range, or closed, is ignored: the result is not used.
CloseVFD(m, v) ==
  /\ Running(m)
  /\ v \in Open(m)
  /\ IF CloseFails(files[m][v].fd) THEN End("close")
     ELSE /\ Close(files[m][v].fd)
          /\ files' = [files EXCEPT ![m][v].open = FALSE]
          /\ freeVFDs' = [freeVFDs EXCEPT ![m] = Append(@, v)]
          /\ UNCHANGED <<capacity, phase, at, ended, damaged>>

Destroy(m) ==
  /\ Running(m)
  /\ files[m] # <<>>
  /\ phase' = [phase EXCEPT ![m] = "destroy"]
  /\ UNCHANGED <<table, files, capacity, freeVFDs, at, ended, damaged>>

\* The next element of the vector is destroyed.
DestroyNext(m) ==
  /\ ended = "no"
  /\ phase[m] = "destroy"
  /\ at[m] < Len(files[m])
  /\ IF Next1(m).open /\ CloseFails(Next1(m).fd) THEN End("close")
     ELSE /\ IF Next1(m).open THEN Close(Next1(m).fd) ELSE UNCHANGED table
          /\ files' = [files EXCEPT ![m][at[m] + 1].open = FALSE]
          /\ at' = [at EXCEPT ![m] = @ + 1]
          /\ UNCHANGED <<capacity, freeVFDs, phase, ended, damaged>>

\* A new machine takes the place of the one that is gone.
Destroyed(m) ==
  /\ ended = "no"
  /\ phase[m] = "destroy"
  /\ at[m] = Len(files[m])
  /\ files' = [files EXCEPT ![m] = <<>>]
  /\ capacity' = [capacity EXCEPT ![m] = 0]
  /\ freeVFDs' = [freeVFDs EXCEPT ![m] = <<>>]
  /\ phase' = [phase EXCEPT ![m] = "run"]
  /\ at' = [at EXCEPT ![m] = 0]
  /\ UNCHANGED <<table, ended, damaged>>

-----------------------------------------------------------------------------

VFDs == 1..MaxFiles

Next ==
  \E m \in Machines :
    \/ \E f \in Files \cup {Missing} :
         OpenFails(m, f) \/ OpenReuse(m, f) \/ OpenNew(m, f)
    \/ Relocate(m) \/ Grown(m)
    \/ \E v \in VFDs :
         \/ OutOfRange(m, v) \/ ReadFails(m, v) \/ CloseVFD(m, v)
         \/ \E count \in 1..Size : Read(m, v, count)
         \/ \E offset \in 0..MaxPos, whence \in {"SET", "CUR", "END"} :
              Seek(m, v, offset, whence)
    \/ Destroy(m) \/ DestroyNext(m) \/ Destroyed(m)

Spec == Init /\ [][Next]_vars

-----------------------------------------------------------------------------
(* Correctness *)

IsSlot(s) == /\ s.open \in BOOLEAN
             /\ s.fd \in Fds
             /\ s.file \in Files

TypeOK ==
  /\ table \in [Fds -> [file : Files \cup {Missing}, pos : 0..MaxPos]]
  /\ \A m \in Machines :
       /\ \A v \in 1..Len(files[m]) : IsSlot(files[m][v])
       /\ Len(files[m]) <= capacity[m]
       /\ \A i \in 1..Len(freeVFDs[m]) : freeVFDs[m][i] \in 1..Len(files[m])
       /\ phase[m] \in {"run", "grow", "destroy"}
       /\ at[m] \in 0..Len(files[m])
  /\ ended \in {"no", "open", "range", "read", "close"}
  /\ damaged \in BOOLEAN

\* The VFDs to be reused are exactly the closed ones, each once, whatever the
\* order of opens and closes: the assertion "Reusing occupied VFD" of
\* FileSystem::open never fails and no VFD is lost.
FreeVFDsAreClosed ==
  \A m \in Machines : phase[m] # "destroy" =>
    /\ IsInjective(freeVFDs[m])
    /\ Range(freeVFDs[m]) = (1..Len(files[m])) \ Open(m)

\* No descriptor of the host outlives its VFD or its machine, even where
\* growth has closed the descriptors of other machines.
DescriptorsOwned ==
  \A fd \in Fds : table[fd] # Closed =>
    \E m \in Machines : \E v \in Open(m) : files[m][v].fd = fd

\* Until a vector has grown with an open file in it, every open VFD has a
\* descriptor of its own, on the file it was opened with: machines that share
\* the table of the host do not touch each other's files.
ReadsOwnFile ==
  damaged \/ \A m \in Machines : \A v \in Open(m) :
    /\ table[files[m][v].fd].file = files[m][v].file
    /\ \A n \in Machines : \A w \in Open(n) :
         files[n][w].fd = files[m][v].fd => n = m /\ w = v

\* Until then no close fails either, in FCLOSE or at the end of a machine.
\* After that the assertion of ~OpenFile ("should be a valid file") can fail.
CloseFailsOnlyDamaged == ended = "close" => damaged

\* What the guests rely on, until then.
View ==
  [m \in Machines |->
     [v \in VFDs |->
        IF v \in Open(m) THEN table[files[m][v].fd] ELSE Closed]]

OpenFilesOf == INSTANCE OpenFiles WITH view <- View,
                                       lost <- damaged \/ ended # "no"

OpenFilesRefinement == OpenFilesOf!Spec

\* Every open VFD has a descriptor of the host of its own, on its own file, at
\* a position that only its own requests move, until a vector has grown with
\* an open file in it, and until then no close fails; free VFDs and owned
\* descriptors are exact even after that.
FilesOwned ==
  /\ [](TypeOK /\ FreeVFDsAreClosed /\ DescriptorsOwned)
  /\ [](ReadsOwnFile /\ CloseFailsOnlyDamaged)
  /\ OpenFilesRefinement

=============================================================================
