------------------------------ MODULE MCKernel ------------------------------
(***************************************************************************)
(* Small instances of KernelTrap, WallClock and ProgramLoader, checked     *)
(* side by side: part says which of them runs, and the others rest in an   *)
(* initial state.                                                          *)
(*                                                                         *)
(*   traps   Two processes with a page of text and one of data each, a     *)
(*           kernel heap of two pages.  Three slots are fewer than the six *)
(*           pages, so that the TLB replaces entries that are in use.      *)
(*   loader  Pages of two bytes and reads of at most two.  One file has a  *)
(*           text of one page and a half and a data section; one has a     *)
(*           text of exactly one page, twice the section .data, and        *)
(*           sections of other names; one is cut off in its text; one ends *)
(*           in its section headers; one has too much data.                *)
(*   clock   All of WallClock.                                             *)
(***************************************************************************)
EXTENDS KernelTrap, WallClock, ProgramLoader

CONSTANTS Parts, good, odd, short, broken, large

Header(name, offset, size) ==
  [name |-> name, offset |-> offset, size |-> size]

File(len, shoff, names, sections) ==
  [len |-> len, shoff |-> shoff, names |-> names, sections |-> sections]

MCFiles == {good, odd, short, broken, large}

MCLayout ==
  [f \in MCFiles |->
     CASE f = good ->
            File(9, 5, 7, <<Header("text", 1, 3), Header("data", 4, 1)>>)
       [] f = odd ->
            File(13, 4, 9, <<Header("data", 1, 1), Header("bss", 0, 2),
                             Header("text", 1, 2), Header("data", 2, 2)>>)
       [] f = short -> File(6, 1, 2, <<Header("text", 3, 4)>>)
       [] f = broken ->
            File(2, 1, 1, <<Header("text", 1, 1), Header("data", 1, 1)>>)
       [] f = large -> File(6, 1, 3, <<Header("data", 1, 4)>>)]

VARIABLE part

allVars == <<part, clockVars, vars, loaderVars>>

ASSUME LoaderAssumption

MCInit ==
  /\ part \in Parts
  /\ TrapInit
  /\ ClockInit /\ (part = "clock" \/ (polling /\ IDactive))
  /\ LoaderInit

OnlyTraps == part = "traps" /\ UNCHANGED <<part, clockVars, loaderVars>>
OnlyClock == part = "clock" /\ UNCHANGED <<part, vars, loaderVars>>
OnlyLoader == part = "loader" /\ UNCHANGED <<part, clockVars, vars>>

MCNext == \/ OnlyTraps /\ Next
          \/ OnlyClock /\ ClockNext
          \/ OnlyLoader /\ LoaderNext

\* The fairness of FairSpec, ClockFairSpec and LoaderFairSpec.
MCSpec ==
  /\ MCInit /\ [][MCNext]_allVars
  /\ WF_vars(part = "traps" /\ Next)
  /\ SF_vars(part = "traps" /\ ReturnToUser /\ ~Raised)
  /\ WF_clockVars(part = "clock" /\ OwnerStep)
  /\ WF_clockVars(part = "clock" /\ PollerStep)
  /\ WF_loaderVars(part = "loader" /\ LoaderStep)

-----------------------------------------------------------------------------
(* Correctness *)

Busy == \/ part = "clock" /\ ~Between
        \/ part = "traps" /\ pc[1] = "kernel"
        \/ part = "loader" /\ ~LoadEnded

Returned == \/ part = "clock" /\ Between
            \/ part = "traps" /\ TrapEnded
            \/ part = "loader" /\ LoadEnded

\* start and stop return even if no period ever ends; if periods end, a clock
\* that is on keeps giving interrupts.  Traps and loads end.
KernelReturns ==
  /\ Busy ~> Returned
  /\ SF_clockVars(Timeout) => Ticks

=============================================================================
