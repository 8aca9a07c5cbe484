----------------------------- MODULE MCRuntime -----------------------------
(***************************************************************************)
(* Small instances of FreeList, ConsoleStream, ConsoleCalls and Decimal,   *)
(* checked side by side: part says which of them runs, and the others rest *)
(* in an initial state.                                                    *)
(*                                                                         *)
(*   heap     Small heaps, with a header of one word.  The block of a      *)
(*            request of three words can be split for one of one word, and *)
(*            requests of zero words make blocks that consist of a header  *)
(*            only.                                                        *)
(*   stream   A process and the one it forks, with texts of one and two    *)
(*            characters and a buffer of two: it is full, full with more   *)
(*            to come, and exactly full at a flush.                        *)
(*   calls    Two pages of two bytes in any of three frames, and a TLB of  *)
(*            one entry: reads of up to three bytes cross the pages.       *)
(*   decimal  Every int and every unsigned int of eight bits.              *)
(***************************************************************************)
EXTENDS FreeList, ConsoleStream

CONSTANTS Parts, p, q, ch, x

MCSizes == [kernel |-> {0, 1, 3}, programs |-> {1, 3}]
MCMaxHeap == [kernel |-> 8, programs |-> 12]

MCProcesses == {p, q}
MCLetters == {ch, NewLine}
MCTexts == {<<ch>>, <<ch, NewLine>>}
MCChars == {x}

VARIABLE part

allVars == <<part, vars, streamVars, callVars, decimalVars>>

MCInit ==
  /\ part \in Parts
  /\ Init /\ (part = "heap" \/ copy = "kernel")
  /\ StreamInit
  /\ CallInit /\ (part = "calls" \/ table = [n \in {0} |-> 0])
  /\ DecimalInit /\ (part = "decimal" \/ (signed /\ value = 0))

OnlyHeap ==
  part = "heap" /\ UNCHANGED <<part, streamVars, callVars, decimalVars>>
OnlyStream ==
  part = "stream" /\ UNCHANGED <<part, vars, callVars, decimalVars>>
OnlyCalls ==
  part = "calls" /\ UNCHANGED <<part, vars, streamVars, decimalVars>>
OnlyDecimal ==
  part = "decimal" /\ UNCHANGED <<part, vars, streamVars, callVars>>

MCNext == \/ OnlyHeap /\ Next
          \/ OnlyStream /\ StreamNext
          \/ OnlyCalls /\ CallNext
          \/ OnlyDecimal /\ Convert

\* The fairness of FairSpec of FreeList, of StreamSpec and of CallSpec.
MCSpec ==
  /\ MCInit /\ [][MCNext]_allVars
  /\ WF_vars(part = "heap" /\ MallocStep /\ UNCHANGED copy)
  /\ \A r \in {p, q} : WF_streamVars(part = "stream" /\ Step(r))
  /\ WF_callVars(part = "calls" /\ Copying)

-----------------------------------------------------------------------------
(* Correctness *)

\* malloc, << and endl, and a read return.
RuntimeReturns == MallocReturns /\ EndlReturns /\ ReadEnds

=============================================================================
