----------------------------- MODULE MCNetwork -----------------------------
(***************************************************************************)
(* Small instances of the modules of src/network but the queue, checked    *)
(* side by side: part says which of them runs, and the others rest in      *)
(* their initial states.                                                   *)
(*                                                                         *)
(*   server    Two workers and two tasks of one client reach the races     *)
(*             between kill, run and ~VMTask; machines are never shared    *)
(*             by clients.                                                 *)
(*   reader    Up to three messages, empty ones and ones that need two     *)
(*             bytes for their length; the buffer of dispatch is smaller   *)
(*             than a frame.                                               *)
(*   sender    Two senders; messages whose length fits the second byte and *)
(*             ones that need two more; room for a frame and a half.       *)
(*                                                                         *)
(* The codec has no state: it is evaluated for payloads of every length up *)
(* to past the limit of the two-byte form, with bytes of three bits, where *)
(* lengths 0 and 1 are in the second byte, 2 to 63 in two bytes, and       *)
(* longer ones in eight.                                                   *)
(***************************************************************************)
EXTENDS Server, FrameReader, FrameSender, Bitwise

CONSTANTS Parts, c1, w1, w2, t1, t2, null, listener,
          MaxLen \* bound: length of a payload of the codec

MCConns == {c1}
MCWorkers == {w1, w2}
MCTasks == {t1, t2}

MCXor(a, b) == a ^^ b
MCCommands == {<<>>, <<1, 6>>}
MCKeys == {<<5, 2, 7, 1>>}
MCReplies == {<<3>>, <<1, 6>>}

ASSUME ReaderAssumption /\ SenderAssumption

\* The codec: every length, every prefix of every frame, and bytes behind.
ASSUME \A length \in 0 .. MaxLen, key \in {<<0, 0, 0, 0>>} \cup Keys :
         RoundTrip([i \in 1 .. length |-> (3 * i + 1) % Radix], key,
                   <<TextFrame, 0>>)

VARIABLE part

allVars == <<part, vars, readerVars, senderVars>>

MCInit == part \in Parts /\ Init /\ ReaderInit /\ SenderInit

OnlyServer == part = "server" /\ UNCHANGED <<part, readerVars, senderVars>>
OnlyReader == part = "reader" /\ UNCHANGED <<part, vars, senderVars>>
OnlySender == part = "sender" /\ UNCHANGED <<part, vars, readerVars>>

MCNext == \/ OnlyServer /\ Next
          \/ OnlyReader /\ ReaderNext
          \/ OnlySender /\ SenderNext

\* The fairness of FairSpec of Server, FrameReader and FrameSender.
MCSpec ==
  /\ MCInit /\ [][MCNext]_allVars
  /\ \A w \in Workers : WF_vars(part = "server" /\ Up /\ WorkerStep(w))
  /\ WF_readerVars(part = "reader" /\ ReadStep)
  /\ \A s \in MCWorkers : WF_senderVars(part = "sender" /\ SendStep(s))

-----------------------------------------------------------------------------
(* Correctness *)

\* What was begun ends: a killed Connection is destroyed, the bytes that have
\* arrived are read, and send returns.
NetworkProceeds == ZombieReaped /\ ReadsAll /\ SendReturns

=============================================================================
