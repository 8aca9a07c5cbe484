----------------------------- MODULE OpenFiles -----------------------------
(***************************************************************************)
(* What the requests FOPEN, FREAD, FSEEK and FCLOSE promise: each machine  *)
(* has descriptors of its own, each on one file, with a position that only *)
(* the machine's own requests move.                                        *)
(***************************************************************************)
EXTENDS Integers

CONSTANTS Machines, Files, Dirs, Missing, Size, MaxFiles, MaxPos

VARIABLES view, \* the file and position behind each VFD of each machine
          lost  \* the promise no longer holds

VFDs == 1..MaxFiles
Closed == [file |-> Missing, pos |-> 0]

Init == /\ view = [m \in Machines |-> [v \in VFDs |-> Closed]]
        /\ lost = FALSE

Open(m, v, f) == /\ view[m][v] = Closed
                 /\ view' = [view EXCEPT ![m][v] = [file |-> f, pos |-> 0]]

\* A read does not go past the end.
Read(m, v, n) == /\ view[m][v] # Closed
                 /\ view[m][v].file \notin Dirs
                 /\ view[m][v].pos + n <= Size
                 /\ view' = [view EXCEPT ![m][v].pos = @ + n]

Seek(m, v, pos) == /\ view[m][v] # Closed
                   /\ view' = [view EXCEPT ![m][v].pos = pos]

Close(m, v) == /\ view[m][v] # Closed
               /\ view' = [view EXCEPT ![m][v] = Closed]

Next ==
  \/ /\ ~lost
     /\ UNCHANGED lost
     /\ \E m \in Machines, v \in VFDs :
          \/ \E f \in Files : Open(m, v, f)
          \/ \E n \in 1..Size : Read(m, v, n)
          \/ \E pos \in 0..MaxPos : Seek(m, v, pos)
          \/ Close(m, v)
  \/ lost'

Spec == Init /\ [][Next]_<<view, lost>>

=============================================================================
