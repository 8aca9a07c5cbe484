---------------------------- MODULE NetworkProofs ----------------------------
(***************************************************************************)
(* The safety properties of Server, for any number of clients, workers and *)
(* tasks; what the frames of Frames can carry, for payloads of any length; *)
(* and what FrameSender and FrameReader promise, for any messages, sizes   *)
(* of the buffers and numbers of senders.                                  *)
(*                                                                         *)
(* The invariants of Server say little about how far a worker is with its  *)
(* task; Inv adds that, and what the list of connections, the shared       *)
(* pointers and the batch of events have to do with each other.  Those of  *)
(* FrameSender and FrameReader, SenderInv and ReaderInv, say which bytes   *)
(* of which frame lie where in the stream.                                 *)
(***************************************************************************)
EXTENDS Server, FrameReader, FrameSender, FiniteSetTheorems,
        SequenceTheorems, WellFoundedInduction, TLAPS

-----------------------------------------------------------------------------
(* The inductive invariant *)

\* A task that is not done with its run: it has the machine it needs, and
\* LoadKernel has a byte to write.
Loaded(t) ==
  /\ task[t].kind \in VMKinds => taskVM[t] # Null
  /\ task[t].kind = "load" => task[t].left > 0

\* Why run() returned false.
Over(t) == \/ task[t].left = 0
           \/ taskVM[t] \in halted
           \/ conn[task[t].conn] = "dead"

TaskInv ==
  \A t \in Tasks :
    /\ place[t] \in {Pool!New, Pool!Done} => taskVM[t] = Null
    /\ place[t] # Pool!New => /\ task[t].kind # "none"
                              /\ task[t].conn \in Conns
                              /\ conn[task[t].conn] # "none"
    /\ taskVM[t] # Null => /\ taskVM[t] = task[t].conn
                           /\ task[t].kind \in VMKinds
                           /\ runningTask[taskVM[t]] = t
    /\ place[t] = Pool!Pool => Loaded(t)

\* A worker that is not idle has one task, in a state that fits where the
\* worker is.
HandInv ==
  /\ \A w \in Workers, t, u \in Tasks : place[t] = w /\ place[u] = w => t = u
  /\ \A w \in Workers : wpc[w] # "idle" => \E t \in Tasks : place[t] = w
  /\ \A w \in Workers, t \in Tasks : place[t] = w =>
       /\ wpc[w] # "idle"
       /\ wpc[w] \in {"taken", "ran"} => Loaded(t)
       /\ wpc[w] = "work" =>
            /\ held[w] = task[t].conn
            /\ task[t].kind \in VMKinds => taskVM[t] # Null /\ task[t].left > 0
       /\ wpc[w] = "destroy" /\ task[t].kind \in VMKinds =>
            taskVM[t] # Null /\ Over(t)
       /\ wpc[w] = "giveBack" =>
            /\ task[t].kind \in VMKinds
            /\ taskVM[t] # Null /\ Over(t)
            /\ held[w] = IF conn[task[t].conn] = "live" THEN task[t].conn
                                                        ELSE Null
       /\ wpc[w] = "leave" => taskVM[t] = Null
  /\ \A w \in Workers : held[w] # Null =>
       /\ wpc[w] \in {"work", "giveBack", "leave"}
       /\ conn[held[w]] = "live"

ConnInv ==
  \A c \in Conns :
    /\ connVM[c] # Null => connVM[c] = c /\ conn[c] = "live"
    /\ c \in listed => conn[c] = "live"
    /\ conn[c] = "live" /\ c \notin listed =>
         c \in heldAtKill /\ \E w \in Workers : held[w] = c

MachineInv ==
  \A m \in Conns :
    /\ \A t, u \in Tasks : taskVM[t] = m /\ taskVM[u] = m => t = u
    /\ \A t \in Tasks : taskVM[t] = m => connVM[m] = Null /\ freed[m] = 0
    /\ freed[m] \in {0, 1}
    /\ freed[m] = 1 => conn[m] = "dead" /\ connVM[m] = Null
    /\ conn[m] # "none" /\ connVM[m] = Null /\ freed[m] = 0 =>
         \E t \in Tasks : taskVM[t] = m

LoopInv ==
  /\ \A e, f \in batch : e.ptr = f.ptr => e = f
  /\ \A e \in batch : e.ptr \in Conns =>
       /\ conn[e.ptr] # "none"
       /\ e.ptr \in listed \/ e.ptr \in heldAtKill
  /\ DownOnlyForCause

Inv == TypeOK /\ TaskInv /\ HandInv /\ ConnInv /\ MachineInv /\ LoopInv

-----------------------------------------------------------------------------

LEMMA InitInv == Init => Inv
BY ServerAssumption, PlacesAssumption
DEF Init, Inv, TypeOK, TaskInv, HandInv, ConnInv, MachineInv, LoopInv,
    DownOnlyForCause, Pool!Init, Pool!New, Pool!Pool, Pool!Done, NoTaskRecord,
    VMKinds, Loaded

\* The task of a worker.
LEMMA Hand ==
  ASSUME Inv, NEW w \in Workers, wpc[w] # "idle"
  PROVE  /\ HandOf(w) \in Tasks
         /\ place[HandOf(w)] = w
         /\ \A t \in Tasks : place[t] = w <=> t = HandOf(w)
BY DEF Inv, HandInv, HandOf

\* What the end of a shared pointer does.
LEMMA ReleaseCases ==
  ASSUME Inv, NEW w \in Workers, Release(w)
  PROVE  /\ held' = [held EXCEPT ![w] = Null]
         /\ \/ /\ UNCHANGED <<conn, freed, connVM>>
               /\ held[w] \in Conns \ listed =>
                    \E v \in Workers \ {w} : held[v] = held[w]
            \/ /\ held[w] \in Conns \ listed
               /\ \A v \in Workers : held[v] = held[w] => v = w
               /\ Destroy(held[w])
<1>1. CASE held[w] # Null /\ held[w] \notin listed /\ Holders(held[w]) = {w}
  <2>1. \A v \in Workers : held[v] = held[w] => v = w
    BY <1>1 DEF Holders
  <2> QED
    BY <1>1, <2>1 DEF Release, Inv, TypeOK
<1>2. CASE ~(held[w] # Null /\ held[w] \notin listed
               /\ Holders(held[w]) = {w})
  <2>1. ASSUME held[w] \in Conns \ listed
        PROVE  \E v \in Workers \ {w} : held[v] = held[w]
    <3>1. Holders(held[w]) # {w} /\ w \in Holders(held[w])
      BY <1>2, <2>1, ServerAssumption DEF Holders
    <3> QED
      BY <3>1 DEF Holders
  <2> QED
    BY <1>2, <2>1 DEF Release
<1> QED
  BY <1>1, <1>2

-----------------------------------------------------------------------------
(* The clients and the event loop *)

LEMMA ClientInv ==
  ASSUME Inv, NEW c \in Conns, Up, ClientStep(c)
  PROVE  Inv'
<1>1. /\ UNCHANGED <<connVars, vmVars, halted, batch, taskVars, workVars, proc,
                     heldAtKill>>
      /\ \A d \in Conns : peer[d] = "rst" => peer'[d] = "rst"
  BY DEF ClientStep, Connect, ClientSend, Leave, Inv, TypeOK
<1> USE DEF connVars, vmVars, taskVars, workVars
<1>2. /\ peer' \in [Conns -> {"away", "open", "fin", "rst"}]
      /\ inbox' \in [Conns -> Requests \cup {"none"}]
  BY DEF ClientStep, Connect, ClientSend, Leave, Inv, TypeOK
<1>3. TypeOK'
  BY <1>1, <1>2 DEF Inv, TypeOK
<1>4. LoopInv'
  BY <1>1 DEF Inv, LoopInv, DownOnlyForCause
<1>5. TaskInv' /\ ConnInv' /\ MachineInv'
  BY <1>1 DEF Inv, TaskInv, ConnInv, MachineInv, Loaded
<1>6. HandInv'
  BY <1>1 DEF Inv, HandInv, Loaded, Over
<1> QED
  BY <1>3, <1>4, <1>5, <1>6 DEF Inv

LEMMA EpollInv ==
  ASSUME Inv, Up, EpollWait
  PROVE  Inv'
<1>1. /\ batch' \subseteq {EventOf(l) : l \in Ready}
      /\ UNCHANGED <<netVars, connVars, vmVars, halted, taskVars, workVars,
                     proc, heldAtKill>>
  BY DEF EpollWait, kSubset
<1>2. Ready \subseteq {c \in Conns : conn[c] = "live"} \cup {Listener}
  BY DEF Ready, Readable
<1>3. LoopInv'
  BY <1>1, <1>2, ServerAssumption
     DEF Inv, LoopInv, DownOnlyForCause, EventOf, ConnInv, connVars, vmVars,
         netVars
<1>4. TypeOK'
  BY <1>1, <1>2
     DEF Inv, TypeOK, EventOf, connVars, vmVars, netVars, taskVars, workVars
<1> QED
  BY <1>1, <1>3, <1>4
     DEF Inv, TaskInv, HandInv, ConnInv, MachineInv, Loaded, Over, connVars,
         vmVars, netVars, taskVars, workVars

LEMMA AcceptInv ==
  ASSUME Inv, NEW e \in batch, Up, Accept(e)
  PROVE  Inv'
<1> USE DEF Inv, Accept, EventDone, netVars, connVars, vmVars, taskVars,
            workVars
<1>1. \A c \in Waiting : conn[c] = "none" /\ connVM[c] = Null
  BY DEF Waiting, ConnInv
<1>2. TypeOK'
  BY <1>1 DEF TypeOK, Waiting
<1>3. TaskInv'
  BY <1>1 DEF TypeOK, TaskInv, Loaded
<1>4. HandInv'
  BY <1>1 DEF TypeOK, TaskInv, HandInv, Loaded, Over
<1>5. ConnInv'
  BY <1>1, ServerAssumption DEF TypeOK, ConnInv, Waiting
<1>6. MachineInv'
  BY <1>1, ServerAssumption DEF TypeOK, MachineInv, TaskInv, Waiting
<1>7. LoopInv'
  BY <1>1 DEF TypeOK, LoopInv, DownOnlyForCause
<1> QED
  BY <1>2, <1>3, <1>4, <1>5, <1>6, <1>7

\* The server goes down: by a call through a dangling pointer, which needs a
\* kill while a worker held the Connection, or by an exception.
LEMMA DownInv ==
  ASSUME Inv,
         \/ \E e \in batch : DispatchDangling(e)
         \/ \E e \in batch, c \in Conns : DispatchThrows(e, c)
         \/ \E w \in Workers : RunThrows(w) \/ GiveBackThrows(w)
  PROVE  Inv'
<1> USE DEF Inv, netVars, connVars, vmVars, taskVars, workVars
<1>1. /\ UNCHANGED <<netVars, connVars, vmVars, halted, batch, taskVars,
                     workVars, heldAtKill>>
      /\ proc' \in {"terminated", "undefined"}
  BY DEF DispatchDangling, DispatchThrows, RunThrows, GiveBackThrows,
         Terminate
<1>2. proc' = "undefined" => heldAtKill # {}
  BY DEF DispatchDangling, DispatchThrows, RunThrows, GiveBackThrows,
         Terminate, LoopInv, ConnInv
<1>3. proc' = "terminated" => \E c \in Conns : peer[c] = "rst"
  <2>1. ASSUME NEW w \in Workers, RunThrows(w) \/ GiveBackThrows(w)
        PROVE  held[w] \in Conns /\ peer[held[w]] = "rst"
    <3>1. CASE RunThrows(w)
      BY <3>1, Hand, PlacesAssumption
         DEF RunThrows, SendFails, HandInv, TaskInv, TypeOK, Pool!New
    <3>2. CASE GiveBackThrows(w)
      BY <3>2 DEF GiveBackThrows, SendFails, TypeOK
    <3> QED
      BY <2>1, <3>1, <3>2
  <2>2. CASE \E e \in batch : DispatchDangling(e)
    BY <2>2 DEF DispatchDangling
  <2>3. CASE \E e \in batch, c \in Conns : DispatchThrows(e, c)
    BY <2>3 DEF DispatchThrows
  <2> QED
    BY <2>1, <2>2, <2>3
<1>4. LoopInv'
  BY <1>1, <1>2, <1>3 DEF LoopInv, DownOnlyForCause
<1> QED
  BY <1>1, <1>4 DEF TypeOK, TaskInv, HandInv, ConnInv, MachineInv, Loaded,
                    Over

\* A Connection without holders dies: its machine, if it has one, goes too.
LEMMA DestroyInv ==
  ASSUME Inv, NEW c \in Conns, conn[c] = "live", Destroy(c),
         taskVM' = taskVM
  PROVE  /\ MachineInv'
         /\ conn' \in [Conns -> {"none", "live", "dead"}]
         /\ freed' \in [Conns -> Nat]
         /\ connVM' \in [Conns -> Conns \cup {Null}]
         /\ \A d \in Conns : d # c => conn'[d] = conn[d]
                                      /\ connVM'[d] = connVM[d]
         /\ conn'[c] = "dead" /\ connVM'[c] = Null
<1> USE DEF Inv, TypeOK, Destroy, Destroyed, FreedByConn
<1>1. /\ conn' = [conn EXCEPT ![c] = "dead"]
      /\ connVM' = [connVM EXCEPT ![c] = Null]
      /\ freed' = IF connVM[c] # Null THEN [freed EXCEPT ![c] = 1] ELSE freed
  <2>1. freed[c] = 0 /\ connVM[c] \in {c, Null}
    BY DEF ConnInv, MachineInv
  <2>2. [freed EXCEPT ![c] = freed[c] + 1] = [freed EXCEPT ![c] = 1]
    BY <2>1
  <2>3. CASE connVM[c] = c
    BY <2>2, <2>3
  <2>4. CASE connVM[c] = Null
    BY <2>4
  <2> QED
    BY <2>1, <2>3, <2>4
<1>2. MachineInv'
  BY <1>1 DEF MachineInv, ConnInv
<1> QED
  BY <1>1, <1>2

LEMMA KillInv ==
  ASSUME Inv, NEW e \in batch, e.ptr \in Conns, conn[e.ptr] = "live",
         Kill(e.ptr), EventDone(e), Up,
         inbox' \in [Conns -> Requests \cup {"none"}],
         handshake' \in [Conns -> BOOLEAN],
         UNCHANGED <<peer, runningTask, taskVM, halted, taskVars, workVars>>
  PROVE  Inv'
<1> DEFINE c == e.ptr
<1> USE DEF Inv, TypeOK, taskVars, workVars, EventDone
<1>1. CASE c \in listed /\ Holders(c) = {}
  <2>1. /\ listed' = listed \ {c} /\ Destroy(c) /\ UNCHANGED heldAtKill
        /\ UNCHANGED proc
    BY <1>1 DEF Kill
  <2>2. \A w \in Workers : held[w] # c
    BY <1>1 DEF Holders
  <2>3. /\ MachineInv'
        /\ conn' \in [Conns -> {"none", "live", "dead"}]
        /\ freed' \in [Conns -> Nat]
        /\ connVM' \in [Conns -> Conns \cup {Null}]
        /\ \A d \in Conns : d # c => conn'[d] = conn[d]
                                     /\ connVM'[d] = connVM[d]
        /\ conn'[c] = "dead" /\ connVM'[c] = Null
    BY <2>1, DestroyInv
  <2> HIDE DEF c
  <2>4. TypeOK'
    BY <2>1, <2>3
  <2>5. TaskInv'
    BY <2>3 DEF TaskInv, Loaded
  <2>6. HandInv'
    BY <2>2, <2>3, PlacesAssumption
       DEF HandInv, Loaded, Over, TaskInv, Pool!New
  <2>7. ConnInv'
    BY <2>1, <2>3 DEF ConnInv
  <2>8. LoopInv'
    BY <2>1, <2>3 DEF LoopInv, DownOnlyForCause, c
  <2> QED
    BY <2>3, <2>4, <2>5, <2>6, <2>7, <2>8
<1>2. CASE c \in listed /\ Holders(c) # {}
  <2>1. /\ listed' = listed \ {c} /\ heldAtKill' = heldAtKill \cup {c}
        /\ UNCHANGED <<conn, freed, connVM, proc>>
    BY <1>2 DEF Kill
  <2>2. \E w \in Workers : held[w] = c
    BY <1>2 DEF Holders
  <2>3. ConnInv'
    BY <2>1, <2>2 DEF ConnInv
  <2>4. LoopInv'
    BY <2>1 DEF LoopInv, DownOnlyForCause
  <2> QED
    BY <2>1, <2>3, <2>4 DEF TaskInv, HandInv, MachineInv, Loaded, Over
<1>3. CASE c \notin listed
  <2>1. proc' = "undefined"
        /\ UNCHANGED <<listed, conn, freed, connVM, heldAtKill>>
    BY <1>3 DEF Kill
  <2>2. c \in heldAtKill
    BY <1>3 DEF ConnInv
  <2>3. LoopInv'
    BY <2>1, <2>2 DEF LoopInv, DownOnlyForCause
  <2> QED
    BY <2>1, <2>3 DEF TaskInv, HandInv, ConnInv, MachineInv, Loaded, Over
<1> QED
  BY <1>1, <1>2, <1>3

LEMMA DispatchKillInv ==
  ASSUME Inv, NEW e \in batch, NEW c \in Conns, Up,
         DispatchLost(e, c) \/ DispatchHandshake(e, c)
  PROVE  Inv'
<1>1. CASE DispatchLost(e, c)
  <2>1. inbox' \in [Conns -> Requests \cup {"none"}]
    BY <1>1 DEF DispatchLost, Inv, TypeOK
  <2>2. handshake' \in [Conns -> BOOLEAN]
    BY <1>1 DEF DispatchLost, Inv, TypeOK
  <2> QED
    BY <1>1, <2>1, <2>2, KillInv DEF DispatchLost, Dispatch
<1>2. CASE DispatchHandshake(e, c)
  <2>1. inbox' \in [Conns -> Requests \cup {"none"}]
    BY <1>2 DEF DispatchHandshake, Received, Inv, TypeOK
  <2>2. handshake' \in [Conns -> BOOLEAN]
    BY <1>2 DEF DispatchHandshake, Inv, TypeOK
  <2>3. CASE Kill(c)
    BY <1>2, <2>1, <2>2, <2>3, KillInv
       DEF DispatchHandshake, Received, Dispatch
  <2>4. CASE UNCHANGED <<listed, conn, freed, connVM, proc, heldAtKill>>
    <3>1. /\ UNCHANGED <<listed, conn, freed, connVM, proc, heldAtKill, peer,
                         runningTask, taskVM, halted, taskVars, workVars>>
          /\ batch' = batch \ {e}
      BY <1>2, <2>4 DEF DispatchHandshake, Received, EventDone,
         taskVars, workVars
    <3>2. LoopInv'
      BY <3>1 DEF Inv, LoopInv, DownOnlyForCause
    <3> QED
      BY <2>1, <2>2, <3>1, <3>2
         DEF Inv, TypeOK, TaskInv, HandInv, ConnInv, MachineInv, Loaded,
             Over, taskVars, workVars
  <2> QED
    BY <1>2, <2>3, <2>4 DEF DispatchHandshake
<1> QED
  BY <1>1, <1>2

LEMMA NoTaskInv ==
  ASSUME Inv, NEW e \in batch, NEW c \in Conns, Up, DispatchNoTask(e, c)
  PROVE  Inv'
<1> USE DEF Inv, DispatchNoTask, Received, EventDone, connVars, vmVars,
            taskVars, workVars
<1>1. TypeOK'
  BY DEF TypeOK
<1>2. LoopInv'
  BY DEF LoopInv, DownOnlyForCause
<1> QED
  BY <1>1, <1>2 DEF TaskInv, HandInv, ConnInv, MachineInv, Loaded, Over

\* A new task in the pool; it may come with the machine of the Connection.
LEMMA SubmitInv ==
  ASSUME Inv, NEW e \in batch, NEW c \in Conns, Up,
         DispatchForward(e, c) \/ DispatchVMTask(e, c)
  PROVE  Inv'
<1>1. PICK t \in Tasks :
        /\ place[t] = Pool!New
        /\ place' = [place EXCEPT ![t] = Pool!Pool]
        /\ \/ /\ task' = [task EXCEPT ![t] =
                            [kind |-> "forward", conn |-> c, left |-> 0]]
              /\ UNCHANGED <<connVM, taskVM, runningTask>>
           \/ /\ connVM[c] # Null
              /\ \E k \in VMKinds, n \in Nat \ {0} :
                   task' = [task EXCEPT ![t] =
                              [kind |-> k, conn |-> c, left |-> n]]
              /\ runningTask' = [runningTask EXCEPT ![c] = t]
              /\ taskVM' = [taskVM EXCEPT ![t] = connVM[c]]
              /\ connVM' = [connVM EXCEPT ![c] = Null]
  <2>1. CASE DispatchForward(e, c)
    BY <2>1 DEF DispatchForward, Pool!Submit, connVars, vmVars
  <2>2. CASE DispatchVMTask(e, c)
    <3>1. PICK t \in Tasks, n \in IF inbox[c] = "load" THEN {KernelBytes}
                                                     ELSE 1..MaxSteps :
            /\ Pool!Submit(t)
            /\ task' = [task EXCEPT ![t] =
                          [kind |-> inbox[c], conn |-> c, left |-> n]]
            /\ runningTask' = [runningTask EXCEPT ![c] = t]
            /\ taskVM' = [taskVM EXCEPT ![t] = connVM[c]]
      BY <2>2 DEF DispatchVMTask
    <3>2. n \in Nat \ {0}
      BY <3>1, ServerAssumption
    <3> QED
      BY <2>2, <3>1, <3>2 DEF DispatchVMTask, Pool!Submit, Claimed
  <2> QED
    BY <2>1, <2>2
<1>2. /\ UNCHANGED <<peer, conn, listed, handshake, freed, halted, workVars,
                     proc, heldAtKill>>
      /\ inbox' = [inbox EXCEPT ![c] = "none"]
      /\ batch' = batch \ {e}
      /\ conn[c] = "live"
  BY DEF DispatchForward, DispatchVMTask, Received, Dispatch, EventDone,
         connVars, vmVars
<1>3. /\ taskVM[t] = Null
      /\ t \notin {u \in Tasks : taskVM[u] # Null}
      /\ \A w \in Workers : place[t] # w
      /\ \A w \in Workers : Pool!Pool # w
  BY <1>1, PlacesAssumption DEF Inv, TaskInv
<1>4. Pool!Pool # Pool!New /\ Pool!Pool # Pool!Done
  BY DEF Pool!Pool, Pool!New, Pool!Done
<1> USE DEF Inv, TypeOK, workVars
<1>5. TypeOK'
  <2>1. task' \in [Tasks -> [kind : {"none", "forward"} \cup VMKinds,
                            conn : Conns \cup {Null}, left : Nat]]
    <3>1. PICK r \in [kind : {"none", "forward"} \cup VMKinds,
                     conn : Conns \cup {Null}, left : Nat] :
            task' = [task EXCEPT ![t] = r]
      BY <1>1
    <3> QED
      BY <3>1
  <2>2. /\ place' \in [Tasks -> Workers \cup {Pool!New, Pool!Pool, Pool!Done}]
        /\ taskVM' \in [Tasks -> Conns \cup {Null}]
        /\ runningTask' \in [Conns -> Tasks \cup {Null}]
        /\ connVM' \in [Conns -> Conns \cup {Null}]
    <3>1. place' \in [Tasks -> Workers \cup {Pool!New, Pool!Pool, Pool!Done}]
      BY <1>1
    <3>2. taskVM' \in [Tasks -> Conns \cup {Null}]
      BY <1>1
    <3>3. runningTask' \in [Conns -> Tasks \cup {Null}]
      BY <1>1
    <3>4. connVM' \in [Conns -> Conns \cup {Null}]
      BY <1>1
    <3> QED
      BY <3>1, <3>2, <3>3, <3>4
  <2> QED
    BY <1>2, <2>1, <2>2
<1>6. TaskInv'
  BY <1>1, <1>2, <1>3, <1>4, ServerAssumption
     DEF TaskInv, ConnInv, MachineInv, Loaded, VMKinds
<1>7. HandInv'
  BY <1>1, <1>2, <1>3 DEF HandInv, Loaded, Over
<1>8. ConnInv'
  BY <1>1, <1>2, ServerAssumption DEF ConnInv
<1>9. MachineInv'
  <2>1. CASE UNCHANGED <<connVM, taskVM>>
    BY <1>2, <2>1 DEF MachineInv
  <2>2. CASE /\ connVM[c] # Null
             /\ taskVM' = [taskVM EXCEPT ![t] = connVM[c]]
             /\ connVM' = [connVM EXCEPT ![c] = Null]
    <3>1. /\ connVM[c] = c /\ freed[c] = 0
          /\ \A u \in Tasks : taskVM[u] # c
      BY <1>2, <2>2 DEF MachineInv, ConnInv
    <3> QED
      BY <1>2, <1>3, <2>2, <3>1, ServerAssumption DEF MachineInv
  <2> QED
    BY <1>1, <2>1, <2>2
<1>10. LoopInv'
  BY <1>2 DEF LoopInv, DownOnlyForCause
<1> QED
  BY <1>5, <1>6, <1>7, <1>8, <1>9, <1>10

-----------------------------------------------------------------------------
(* The workers *)

\* After the end of a shared pointer no worker holds a Connection that died.
LEMMA ReleaseInv ==
  ASSUME Inv, NEW w \in Workers, Release(w),
         UNCHANGED <<taskVM, listed, heldAtKill>>
  PROVE  /\ ConnInv' /\ MachineInv'
         /\ conn' \in [Conns -> {"none", "live", "dead"}]
         /\ freed' \in [Conns -> Nat]
         /\ connVM' \in [Conns -> Conns \cup {Null}]
         /\ held' = [held EXCEPT ![w] = Null]
         /\ \A c \in Conns :
              \/ conn'[c] = conn[c]
              \/ /\ conn[c] = "live" /\ conn'[c] = "dead"
                 /\ c \notin listed
                 /\ \A v \in Workers : held[v] = c => v = w
<1> USE DEF Inv, TypeOK
<1>1. held' = [held EXCEPT ![w] = Null]
  BY ReleaseCases
<1>2. CASE /\ UNCHANGED <<conn, freed, connVM>>
           /\ held[w] \in Conns \ listed =>
                \E v \in Workers \ {w} : held[v] = held[w]
  <2>1. ConnInv'
    <3> SUFFICES ASSUME NEW c \in Conns, conn[c] = "live", c \notin listed
                 PROVE  \E v \in Workers : held'[v] = c
      BY <1>2 DEF ConnInv
    <3>1. PICK v \in Workers : held[v] = c
      BY DEF ConnInv
    <3>2. CASE v = w
      BY <1>1, <1>2, <3>1, <3>2
    <3>3. CASE v # w
      BY <1>1, <3>1, <3>3
    <3> QED
      BY <3>2, <3>3
  <2>2. MachineInv'
    BY <1>2 DEF MachineInv
  <2> QED
    BY <1>1, <1>2, <2>1, <2>2
<1>3. CASE /\ held[w] \in Conns \ listed
           /\ \A v \in Workers : held[v] = held[w] => v = w
           /\ Destroy(held[w])
  <2>1. conn[held[w]] = "live"
    BY <1>3, ServerAssumption DEF HandInv
  <2>2. /\ MachineInv'
        /\ conn' \in [Conns -> {"none", "live", "dead"}]
        /\ freed' \in [Conns -> Nat]
        /\ connVM' \in [Conns -> Conns \cup {Null}]
        /\ \A d \in Conns : d # held[w] => conn'[d] = conn[d]
                                           /\ connVM'[d] = connVM[d]
        /\ conn'[held[w]] = "dead" /\ connVM'[held[w]] = Null
    BY <1>3, <2>1, DestroyInv
  <2>3. ConnInv'
    BY <1>1, <1>3, <2>2 DEF ConnInv
  <2> QED
    BY <1>1, <1>3, <2>1, <2>2, <2>3
<1> QED
  BY <1>2, <1>3, ReleaseCases

\* Any step of w may let go of its Connection: the other workers and the
\* events are as before.
LEMMA OthersInv ==
  ASSUME Inv, NEW w \in Workers, Release(w),
         UNCHANGED <<taskVM, listed, heldAtKill, batch, proc, peer,
                     runningTask>>,
         \A t \in Tasks :
           \/ place'[t] = place[t]
           \/ place'[t] = Pool!Done /\ place[t] = w /\ taskVM[t] = Null,
         task' \in [Tasks -> [kind : {"none", "forward"} \cup VMKinds,
                              conn : Conns \cup {Null}, left : Nat]],
         \A t \in Tasks : /\ place[t] # w => task'[t] = task[t]
                          /\ task'[t].kind = task[t].kind
                          /\ task'[t].conn = task[t].conn,
         halted \subseteq halted',
         NEW s, wpc' = [wpc EXCEPT ![w] = s]
  PROVE  /\ TaskInv' /\ LoopInv'
         /\ \A v \in Workers \ {w}, t \in Tasks : place[t] = v =>
              /\ wpc'[v] = wpc[v]
              /\ held'[v] = held[v]
              /\ Loaded(t) => Loaded(t)'
              /\ Over(t) => Over(t)'
              /\ task[t].conn \in Conns
              /\ held[v] \in Conns => conn'[held[v]] = conn[held[v]]
              /\ conn[task[t].conn] # "live" => conn'[task[t].conn] # "live"
<1> USE DEF Inv, TypeOK
<1>1. /\ held' = [held EXCEPT ![w] = Null]
      /\ \A c \in Conns :
           \/ conn'[c] = conn[c]
           \/ /\ conn[c] = "live" /\ conn'[c] = "dead"
              /\ c \notin listed
              /\ \A v \in Workers : held[v] = c => v = w
  BY ReleaseInv
<1>2. \A t \in Tasks : place'[t] = Pool!Pool => Loaded(t)'
  BY PlacesAssumption DEF TaskInv, Loaded, Pool!Pool, Pool!Done
<1>3. TaskInv'
  <2>1. \A t \in Tasks : place'[t] # Pool!New => place[t] # Pool!New
    BY PlacesAssumption DEF Pool!New
  <2>2. \A t \in Tasks :
          place'[t] \in {Pool!New, Pool!Done} => taskVM[t] = Null
    BY DEF TaskInv
  <2> QED
    BY <1>1, <1>2, <2>1, <2>2 DEF TaskInv
<1>4. LoopInv'
  BY <1>1 DEF LoopInv, DownOnlyForCause
<1>5. ASSUME NEW v \in Workers \ {w}, NEW t \in Tasks, place[t] = v
      PROVE  /\ wpc'[v] = wpc[v]
             /\ held'[v] = held[v]
             /\ Loaded(t) => Loaded(t)'
             /\ task[t].conn \in Conns
             /\ held[v] \in Conns => conn'[held[v]] = conn[held[v]]
             /\ conn[task[t].conn] # "live" => conn'[task[t].conn] # "live"
  BY <1>1, <1>5, PlacesAssumption DEF TaskInv, Loaded
<1>6. ASSUME NEW v \in Workers \ {w}, NEW t \in Tasks, place[t] = v, Over(t)
      PROVE  Over(t)'
  BY <1>1, <1>5, <1>6 DEF Over
<1> QED
  BY <1>3, <1>4, <1>5, <1>6

LEMMA TakeInv ==
  ASSUME Inv, NEW w \in Workers, NEW t \in Tasks, Up, Take(w, t)
  PROVE  Inv'
<1> USE DEF Inv, TypeOK, Take, WorkerGoto, Pool!Take, netVars, connVars,
            vmVars
<1>1. Pool!Pool # Pool!New /\ Pool!Pool # Pool!Done
  BY DEF Pool!Pool, Pool!New, Pool!Done
<1>2. w \notin {Pool!New, Pool!Pool, Pool!Done} /\ w # Null
  BY PlacesAssumption, ServerAssumption
<1>3. TaskInv'
  BY <1>1, <1>2 DEF TaskInv, Loaded
<1>4. HandInv'
  BY <1>1, <1>2, PlacesAssumption DEF HandInv, TaskInv, Loaded, Over
<1>5. LoopInv'
  BY DEF LoopInv, DownOnlyForCause
<1> QED
  BY <1>1, <1>2, <1>3, <1>4, <1>5 DEF ConnInv, MachineInv

LEMMA RunStartsInv ==
  ASSUME Inv, NEW w \in Workers, Up, RunStarts(w)
  PROVE  Inv'
<1>1. PICK t \in Tasks :
        t = HandOf(w) /\ place[t] = w /\ \A u \in Tasks : place[u] = w => u = t
  BY Hand DEF RunStarts
<1>2. /\ task[t].conn \in Conns /\ conn[task[t].conn] # "none"
      /\ Loaded(t) /\ held[w] = Null
  BY <1>1, PlacesAssumption DEF RunStarts, Inv, TaskInv, HandInv
<1>3. /\ UNCHANGED <<netVars, connVars, vmVars, halted, batch, taskVars, proc,
                     heldAtKill>>
      /\ \/ /\ NothingLeft(t) \/ conn[task[t].conn] # "live"
            /\ wpc' = [wpc EXCEPT ![w] = "destroy"]
            /\ held' = held
         \/ /\ ~NothingLeft(t)
            /\ conn[task[t].conn] = "live"
            /\ wpc' = [wpc EXCEPT ![w] = "work"]
            /\ held' = [held EXCEPT ![w] = task[t].conn]
  BY <1>1 DEF RunStarts, WorkerGoto, AfterRun
<1> USE DEF Inv, TypeOK, connVars, vmVars, taskVars, netVars
<1>4. TypeOK'
  BY <1>2, <1>3
<1>5. HandInv'
  <2>1. CASE /\ NothingLeft(t) \/ conn[task[t].conn] # "live"
             /\ wpc' = [wpc EXCEPT ![w] = "destroy"]
             /\ held' = held
    <3>1. Over(t) /\ (task[t].kind \in VMKinds => taskVM[t] # Null)
      BY <1>2, <2>1 DEF Over, Loaded, NothingLeft
    <3> QED
      BY <1>1, <1>2, <1>3, <2>1, <3>1, ServerAssumption
         DEF HandInv, Loaded, Over
  <2>2. CASE /\ ~NothingLeft(t)
             /\ conn[task[t].conn] = "live"
             /\ wpc' = [wpc EXCEPT ![w] = "work"]
             /\ held' = [held EXCEPT ![w] = task[t].conn]
    <3>1. task[t].kind \in VMKinds => taskVM[t] # Null /\ task[t].left > 0
      BY <1>1, <1>2, <2>2 DEF Loaded, NothingLeft, VMKinds
    <3> QED
      BY <1>1, <1>2, <1>3, <2>2, <3>1, ServerAssumption
         DEF HandInv, Loaded, Over
  <2> QED
    BY <1>3, <2>1, <2>2
<1>6. ConnInv'
  <2>1. \A v \in Workers : held[v] # Null => held'[v] = held[v]
    BY <1>2, <1>3
  <2> QED
    BY <1>3, <2>1, ServerAssumption DEF ConnInv
<1>7. LoopInv'
  BY <1>3 DEF LoopInv, DownOnlyForCause
<1> QED
  BY <1>3, <1>4, <1>5, <1>6, <1>7 DEF TaskInv, MachineInv, Loaded

\* run() does its work, unlocks the Connection and returns.
LEMMA RunReturnsInv ==
  ASSUME Inv, NEW w \in Workers, Up,
         RunForward(w) \/ RunLoad(w) \/ RunHalted(w) \/ RunStep(w)
  PROVE  Inv'
<1>1. PICK t \in Tasks :
        t = HandOf(w) /\ place[t] = w /\ \A u \in Tasks : place[u] = w => u = t
  BY Hand DEF RunForward, RunLoad, RunHalted, RunStep
<1>2. /\ wpc[w] = "work" /\ Release(w)
      /\ UNCHANGED <<netVars, listed, handshake, runningTask, taskVM, batch,
                     place, proc, heldAtKill>>
  BY DEF RunForward, RunLoad, RunHalted, RunStep, taskVars
<1>3. task[t].kind \in VMKinds => taskVM[t] \in Conns /\ task[t].left > 0
  BY <1>1, <1>2 DEF Inv, HandInv, TypeOK
<1>4. \/ /\ task[t].kind \notin VMKinds \/ taskVM[t] \in halted
         /\ UNCHANGED <<task, halted>>
         /\ wpc' = [wpc EXCEPT ![w] = "destroy"]
      \/ /\ task[t].kind \in VMKinds
         /\ task' = [task EXCEPT ![t].left = @ - 1]
         /\ halted \subseteq halted' /\ halted' \subseteq Conns
         /\ \/ /\ wpc' = [wpc EXCEPT ![w] = "destroy"]
               /\ task[t].left = 1
            \/ /\ wpc' = [wpc EXCEPT ![w] = "ran"]
               /\ task[t].kind = "load" => task[t].left # 1
  <2>1. CASE RunForward(w) \/ RunHalted(w)
    BY <1>1, <2>1
       DEF RunForward, RunHalted, WorkerGoto, AfterRun, VMKinds, taskVars
  <2>2. CASE RunLoad(w)
    <3>1. halted' = halted /\ halted \subseteq Conns
      BY <2>2 DEF RunLoad, Inv, TypeOK
    <3> QED
      BY <1>1, <2>2, <3>1 DEF RunLoad, WorkerGoto, AfterRun, VMKinds
  <2>3. CASE RunStep(w)
    <3>1. task[t].kind \in VMKinds /\ task[t].kind # "load"
      BY <1>1, <2>3 DEF RunStep, VMKinds
    <3>2. halted \subseteq halted' /\ halted' \subseteq Conns
      BY <1>1, <1>3, <2>3, <3>1 DEF RunStep, Inv, TypeOK
    <3> QED
      BY <1>1, <2>3, <3>1, <3>2 DEF RunStep, WorkerGoto
  <2> QED
    BY <2>1, <2>2, <2>3
<1>5. /\ task' \in [Tasks -> [kind : {"none", "forward"} \cup VMKinds,
                              conn : Conns \cup {Null}, left : Nat]]
      /\ \A u \in Tasks : /\ u # t => task'[u] = task[u]
                          /\ task'[u].kind = task[u].kind
                          /\ task'[u].conn = task[u].conn
  <2>1. CASE task' = task
    BY <2>1 DEF Inv, TypeOK
  <2>2. CASE /\ task[t].kind \in VMKinds
             /\ task' = [task EXCEPT ![t].left = @ - 1]
    <3>1. task[t].left - 1 \in Nat
      BY <1>1, <1>3, <2>2 DEF Inv, TypeOK
    <3> QED
      BY <1>1, <2>2, <3>1 DEF Inv, TypeOK
  <2> QED
    BY <1>4, <2>1, <2>2
<1>6. halted' \subseteq Conns /\ halted \subseteq halted'
  BY <1>4 DEF Inv, TypeOK
<1>7. PICK s \in {"destroy", "ran"} : wpc' = [wpc EXCEPT ![w] = s]
  BY <1>4
<1>8. /\ ConnInv' /\ MachineInv'
      /\ conn' \in [Conns -> {"none", "live", "dead"}]
      /\ freed' \in [Conns -> Nat]
      /\ connVM' \in [Conns -> Conns \cup {Null}]
      /\ held' = [held EXCEPT ![w] = Null]
  BY <1>2, ReleaseInv
<1>9. /\ TaskInv' /\ LoopInv'
      /\ \A v \in Workers \ {w}, u \in Tasks : place[u] = v =>
           /\ wpc'[v] = wpc[v]
           /\ held'[v] = held[v]
           /\ Loaded(u) => Loaded(u)'
           /\ Over(u) => Over(u)'
           /\ task[u].conn \in Conns
           /\ held[v] \in Conns => conn'[held[v]] = conn[held[v]]
           /\ conn[task[u].conn] # "live" => conn'[task[u].conn] # "live"
  <2>1. \A u \in Tasks : place[u] # w => task'[u] = task[u]
    BY <1>1, <1>5
  <2>2. UNCHANGED <<taskVM, listed, heldAtKill, batch, proc, peer,
                    runningTask, place>>
    BY <1>2 DEF netVars
  <2>3. \A u \in Tasks :
          \/ place'[u] = place[u]
          \/ place'[u] = Pool!Done /\ place[u] = w /\ taskVM[u] = Null
    BY <2>2
  <2>4. \A u \in Tasks : /\ place[u] # w => task'[u] = task[u]
                         /\ task'[u].kind = task[u].kind
                         /\ task'[u].conn = task[u].conn
    BY <1>5, <2>1
  <2>5. UNCHANGED <<taskVM, listed, heldAtKill, batch, proc, peer,
                    runningTask>>
    BY <2>2
  <2>6. Release(w) /\ halted \subseteq halted'
    BY <1>2, <1>6
  <2>7. task' \in [Tasks -> [kind : {"none", "forward"} \cup VMKinds,
                            conn : Conns \cup {Null}, left : Nat]]
    BY <1>5
  <2>8. /\ TaskInv' /\ LoopInv'
        /\ \A v \in Workers \ {w}, u \in Tasks : place[u] = v =>
             /\ wpc'[v] = wpc[v]
             /\ held'[v] = held[v]
             /\ Loaded(u) => Loaded(u)'
             /\ Over(u) => Over(u)'
             /\ task[u].conn \in Conns
             /\ held[v] \in Conns => conn'[held[v]] = conn[held[v]]
             /\ conn[task[u].conn] # "live" => conn'[task[u].conn] # "live"
    BY <1>7, <2>3, <2>4, <2>5, <2>6, <2>7, OthersInv
  <2> QED
    BY <2>8
<1>10. TypeOK'
  BY <1>2, <1>5, <1>6, <1>7, <1>8 DEF Inv, TypeOK, netVars
<1>11. /\ wpc'[w] = "ran" =>
            /\ task[t].kind \in VMKinds
            /\ task'[t].left = task[t].left - 1
            /\ task[t].kind = "load" => task[t].left # 1
       /\ wpc'[w] = "destroy" /\ task[t].kind \in VMKinds =>
            task'[t].left = 0 \/ taskVM[t] \in halted
  <2>1. CASE UNCHANGED <<task, halted>> /\ wpc' = [wpc EXCEPT ![w] = "destroy"]
             /\ (task[t].kind \notin VMKinds \/ taskVM[t] \in halted)
    BY <2>1 DEF Inv, TypeOK
  <2>2. CASE task' = [task EXCEPT ![t].left = @ - 1]
    <3>1. task'[t].left = task[t].left - 1
      BY <1>1, <2>2 DEF Inv, TypeOK
    <3>2. task[t].left = 1 => task'[t].left = 0
      BY <3>1
    <3>3. wpc'[w] = s
      BY <1>7 DEF Inv, TypeOK
    <3> QED
      BY <1>4, <1>7, <3>1, <3>2, <3>3 DEF Inv, TypeOK
  <2> QED
    BY <1>4, <2>1, <2>2
<1>12. /\ wpc'[w] = "ran" => Loaded(t)'
       /\ wpc'[w] = "destroy" /\ task[t].kind \in VMKinds =>
            taskVM[t] # Null /\ Over(t)'
  <2>1. task[t].left \in Nat
    BY <1>1 DEF Inv, TypeOK
  <2>2. wpc'[w] = "ran" => Loaded(t)'
    BY <1>1, <1>2, <1>3, <1>5, <1>11, <2>1, ServerAssumption DEF Loaded
  <2>3. wpc'[w] = "destroy" /\ task[t].kind \in VMKinds => Over(t)'
    BY <1>2, <1>6, <1>11 DEF Over
  <2> QED
    BY <1>3, <2>2, <2>3, ServerAssumption
<1>13. HandInv'
  <2>1. wpc' \in [Workers -> {"idle", "taken", "ran", "work", "destroy",
                             "giveBack", "leave"}]
    BY <1>10 DEF TypeOK
  <2>2. ASSUME NEW u \in Tasks, place[u] = w
        PROVE  /\ wpc'[w] \in {"ran", "destroy"}
               /\ wpc'[w] = "ran" => Loaded(u)'
               /\ wpc'[w] = "destroy" /\ task'[u].kind \in VMKinds =>
                    taskVM'[u] # Null /\ Over(u)'
    <3>1. u = t /\ wpc'[w] \in {"ran", "destroy"}
      BY <1>1, <1>7, <2>2 DEF Inv, TypeOK
    <3> QED
      BY <1>2, <1>5, <1>12, <3>1
  <2>3. ASSUME NEW v \in Workers, held'[v] # Null
        PROVE  v # w /\ conn'[held'[v]] = "live"
    BY <1>8, <1>9, <2>3, Hand DEF Inv, HandInv, TypeOK
  <2>4. \A v \in Workers \ {w}, u \in Tasks : place[u] = v =>
          /\ wpc'[v] # "idle"
          /\ wpc'[v] \in {"taken", "ran"} => Loaded(u)'
          /\ wpc'[v] = "work" =>
               /\ held'[v] = task'[u].conn
               /\ task'[u].kind \in VMKinds =>
                    taskVM'[u] # Null /\ task'[u].left > 0
          /\ wpc'[v] = "destroy" /\ task'[u].kind \in VMKinds =>
               taskVM'[u] # Null /\ Over(u)'
          /\ wpc'[v] = "giveBack" =>
               /\ task'[u].kind \in VMKinds
               /\ taskVM'[u] # Null /\ Over(u)'
               /\ held'[v] = IF conn'[task'[u].conn] = "live"
                               THEN task'[u].conn ELSE Null
          /\ wpc'[v] = "leave" => taskVM'[u] = Null
    BY <1>1, <1>2, <1>5, <1>9, ServerAssumption DEF Inv, HandInv
  <2>5. \A v \in Workers \ {w} : wpc'[v] = wpc[v] /\ held'[v] = held[v]
    BY <1>7, <1>8 DEF Inv, TypeOK
  <2> QED
    BY <1>2, <2>2, <2>3, <2>4, <2>5 DEF Inv, HandInv
<1> QED
  BY <1>8, <1>9, <1>10, <1>13 DEF Inv

\* Back to the pool, with what the next run needs.
LEMMA SliceOverInv ==
  ASSUME Inv, NEW w \in Workers, Up, SliceOver(w)
  PROVE  Inv'
<1>1. PICK t \in Tasks :
        t = HandOf(w) /\ place[t] = w /\ \A u \in Tasks : place[u] = w => u = t
  BY Hand DEF SliceOver
<1>2. /\ wpc[w] = "ran"
      /\ place' = [place EXCEPT ![t] = Pool!Pool]
      /\ wpc' = [wpc EXCEPT ![w] = "idle"]
      /\ UNCHANGED <<netVars, connVars, vmVars, halted, batch, task, held,
                     proc, heldAtKill>>
  BY <1>1 DEF SliceOver, Pool!Resubmit, WorkerGoto
<1> USE DEF Inv, TypeOK, netVars, connVars, vmVars
<1>3. Loaded(t) /\ held[w] = Null
  BY <1>1, <1>2 DEF HandInv
<1>4. Pool!Pool # Pool!New /\ Pool!Pool # Pool!Done /\ Pool!Pool \notin Workers
  BY PlacesAssumption DEF Pool!Pool, Pool!New, Pool!Done
<1>5. TaskInv'
  BY <1>1, <1>2, <1>3, <1>4, PlacesAssumption DEF TaskInv, Loaded
<1>6. HandInv'
  BY <1>1, <1>2, <1>3, <1>4 DEF HandInv, Loaded, Over
<1>7. LoopInv'
  BY <1>2 DEF LoopInv, DownOnlyForCause
<1>8. TypeOK'
  BY <1>2
<1> QED
  BY <1>2, <1>5, <1>6, <1>7, <1>8 DEF ConnInv, MachineInv

LEMMA LockConnInv ==
  ASSUME Inv, NEW w \in Workers, Up, LockConn(w)
  PROVE  Inv'
<1>1. PICK t \in Tasks :
        t = HandOf(w) /\ place[t] = w /\ \A u \in Tasks : place[u] = w => u = t
  BY Hand DEF LockConn
<1>2. /\ wpc[w] = "destroy" /\ task[t].kind \in VMKinds
      /\ held' = [held EXCEPT ![w] = IF conn[task[t].conn] = "live"
                                       THEN task[t].conn ELSE Null]
      /\ wpc' = [wpc EXCEPT ![w] = "giveBack"]
      /\ UNCHANGED <<netVars, connVars, vmVars, halted, batch, taskVars, proc,
                     heldAtKill>>
  BY <1>1 DEF LockConn, IsVMTask, WorkerGoto
<1> USE DEF Inv, TypeOK, netVars, connVars, vmVars, taskVars
<1>3. /\ taskVM[t] # Null /\ Over(t) /\ held[w] = Null
      /\ task[t].conn \in Conns
  BY <1>1, <1>2, PlacesAssumption DEF HandInv, TaskInv
<1>4. TypeOK'
  BY <1>2, <1>3
<1>5. HandInv'
  BY <1>1, <1>2, <1>3, ServerAssumption DEF HandInv, Loaded, Over
<1>6. ConnInv'
  <2>1. \A v \in Workers : held[v] # Null => held'[v] = held[v]
    BY <1>2, <1>3
  <2> QED
    BY <1>2, <2>1, ServerAssumption DEF ConnInv
<1>7. LoopInv'
  BY <1>2 DEF LoopInv, DownOnlyForCause
<1> QED
  BY <1>2, <1>4, <1>5, <1>6, <1>7 DEF TaskInv, MachineInv, Loaded

\* The machine leaves the task: for the Connection, or for good.
LEMMA VMLeavesInv ==
  ASSUME Inv, NEW w \in Workers, Up, GiveBack(w) \/ DeleteMachine(w)
  PROVE  Inv'
<1>1. PICK t \in Tasks :
        t = HandOf(w) /\ place[t] = w /\ \A u \in Tasks : place[u] = w => u = t
  BY Hand DEF GiveBack, DeleteMachine
<1>2. /\ wpc[w] = "giveBack"
      /\ \/ /\ held[w] # Null
            /\ connVM' = [connVM EXCEPT ![held[w]] = taskVM[t]]
            /\ freed' = freed
         \/ /\ held[w] = Null
            /\ freed' = [freed EXCEPT ![taskVM[t]] = @ + 1]
            /\ connVM' = connVM
      /\ taskVM' = [taskVM EXCEPT ![t] = Null]
      /\ wpc' = [wpc EXCEPT ![w] = "leave"]
      /\ UNCHANGED <<netVars, connVars, halted, batch, taskVars, held, proc,
                     heldAtKill>>
  BY <1>1 DEF GiveBack, DeleteMachine, WorkerGoto
<1> USE DEF Inv, TypeOK, netVars, connVars, taskVars
<1>3. PICK m \in Conns :
        /\ m = taskVM[t] /\ m = task[t].conn /\ m # Null
        /\ connVM[m] = Null /\ freed[m] = 0 /\ conn[m] # "none"
        /\ held[w] = IF conn[m] = "live" THEN m ELSE Null
        /\ \A u \in Tasks : taskVM[u] = m => u = t
  BY <1>1, <1>2, ServerAssumption, PlacesAssumption
     DEF HandInv, TaskInv, MachineInv
<1>4. /\ connVM' = IF held[w] = m THEN [connVM EXCEPT ![m] = m] ELSE connVM
      /\ freed' = IF held[w] = m THEN freed ELSE [freed EXCEPT ![m] = 1]
      /\ held[w] = m <=> conn[m] = "live"
  <2>1. [freed EXCEPT ![m] = freed[m] + 1] = [freed EXCEPT ![m] = 1]
    BY <1>3
  <2>2. CASE held[w] = Null
    BY <1>2, <1>3, <2>1, <2>2
  <2>3. CASE held[w] # Null
    BY <1>2, <1>3, <2>3
  <2> QED
    BY <2>2, <2>3
<1>5. TypeOK'
  BY <1>2, <1>4
<1>6. TaskInv'
  BY <1>1, <1>2, PlacesAssumption DEF TaskInv, Loaded
<1>7. HandInv'
  BY <1>1, <1>2 DEF HandInv, Loaded, Over
<1>8. ConnInv'
  BY <1>2, <1>3, <1>4 DEF ConnInv
<1>9. MachineInv'
  BY <1>2, <1>3, <1>4, ServerAssumption DEF MachineInv
<1>10. LoopInv'
  BY <1>2 DEF LoopInv, DownOnlyForCause
<1> QED
  BY <1>5, <1>6, <1>7, <1>8, <1>9, <1>10

LEMMA TaskDoneInv ==
  ASSUME Inv, NEW w \in Workers, Up, TaskDone(w)
  PROVE  Inv'
<1>1. PICK t \in Tasks :
        t = HandOf(w) /\ place[t] = w /\ \A u \in Tasks : place[u] = w => u = t
  BY Hand DEF TaskDone
<1>2. /\ Release(w)
      /\ place' = [place EXCEPT ![t] = Pool!Done]
      /\ wpc' = [wpc EXCEPT ![w] = "idle"]
      /\ UNCHANGED <<netVars, listed, handshake, runningTask, taskVM, halted,
                     batch, task, proc, heldAtKill>>
  BY <1>1 DEF TaskDone, Pool!Finish, WorkerGoto
<1>3. taskVM[t] = Null
  <2>1. CASE wpc[w] = "leave"
    BY <1>1, <2>1 DEF Inv, HandInv
  <2>2. CASE ~IsVMTask(t)
    BY <2>2 DEF Inv, TaskInv, IsVMTask
  <2> QED
    BY <1>1, <2>1, <2>2 DEF TaskDone
<1>4. /\ task' \in [Tasks -> [kind : {"none", "forward"} \cup VMKinds,
                              conn : Conns \cup {Null}, left : Nat]]
      /\ halted \subseteq halted'
      /\ \A u \in Tasks :
           \/ place'[u] = place[u]
           \/ place'[u] = Pool!Done /\ place[u] = w /\ taskVM[u] = Null
  BY <1>1, <1>2, <1>3 DEF Inv, TypeOK
<1>5. /\ ConnInv' /\ MachineInv'
      /\ conn' \in [Conns -> {"none", "live", "dead"}]
      /\ freed' \in [Conns -> Nat]
      /\ connVM' \in [Conns -> Conns \cup {Null}]
      /\ held' = [held EXCEPT ![w] = Null]
  BY <1>2, ReleaseInv
<1>6. /\ TaskInv' /\ LoopInv'
      /\ \A v \in Workers \ {w}, u \in Tasks : place[u] = v =>
           /\ wpc'[v] = wpc[v]
           /\ held'[v] = held[v]
           /\ Loaded(u) => Loaded(u)'
           /\ Over(u) => Over(u)'
           /\ task[u].conn \in Conns
           /\ held[v] \in Conns => conn'[held[v]] = conn[held[v]]
           /\ conn[task[u].conn] # "live" => conn'[task[u].conn] # "live"
  BY <1>2, <1>4, OthersInv DEF netVars
<1>7. TypeOK'
  BY <1>1, <1>2, <1>5 DEF Inv, TypeOK, netVars
<1>8. HandInv'
  <2>1. Pool!Done \notin Workers
    BY PlacesAssumption
  <2>2. \A v \in Workers, u \in Tasks : place'[u] = v =>
          v # w /\ place[u] = v
    BY <1>1, <1>2, <2>1 DEF Inv, TypeOK
  <2>3. \A v \in Workers \ {w} : /\ wpc'[v] = wpc[v] /\ held'[v] = held[v]
                                /\ \A u \in Tasks :
                                     place[u] = v => place'[u] = v
    BY <1>1, <1>2, <1>5 DEF Inv, TypeOK
  <2>4. wpc'[w] = "idle" /\ held'[w] = Null
    BY <1>2, <1>5 DEF Inv, TypeOK
  <2>5. ASSUME NEW v \in Workers, held'[v] # Null
        PROVE  /\ wpc'[v] \in {"work", "giveBack", "leave"}
               /\ conn'[held'[v]] = "live"
    <3>1. v # w /\ held[v] \in Conns /\ held'[v] = held[v] /\ wpc'[v] = wpc[v]
      BY <2>3, <2>4, <2>5 DEF Inv, TypeOK
    <3>2. wpc[v] \in {"work", "giveBack", "leave"} /\ conn[held[v]] = "live"
      BY <2>5, <3>1 DEF Inv, HandInv
    <3>3. \E u \in Tasks : place[u] = v
      BY <3>2 DEF Inv, HandInv
    <3> QED
      BY <1>6, <3>1, <3>2, <3>3
  <2>6. \A v \in Workers \ {w}, u \in Tasks : place[u] = v =>
          /\ wpc'[v] # "idle"
          /\ wpc'[v] \in {"taken", "ran"} => Loaded(u)'
          /\ wpc'[v] = "work" =>
               /\ held'[v] = task'[u].conn
               /\ task'[u].kind \in VMKinds =>
                    taskVM'[u] # Null /\ task'[u].left > 0
          /\ wpc'[v] = "destroy" /\ task'[u].kind \in VMKinds =>
               taskVM'[u] # Null /\ Over(u)'
          /\ wpc'[v] = "giveBack" =>
               /\ task'[u].kind \in VMKinds
               /\ taskVM'[u] # Null /\ Over(u)'
               /\ held'[v] = IF conn'[task'[u].conn] = "live"
                               THEN task'[u].conn ELSE Null
          /\ wpc'[v] = "leave" => taskVM'[u] = Null
    BY <1>2, <1>6, ServerAssumption DEF Inv, HandInv
  <2>7. \A v \in Workers : wpc'[v] # "idle" => \E u \in Tasks : place'[u] = v
    BY <2>3, <2>4 DEF Inv, HandInv
  <2>8. \A v \in Workers, u, x \in Tasks :
          place'[u] = v /\ place'[x] = v => u = x
    BY <2>2 DEF Inv, HandInv
  <2> QED
    BY <2>2, <2>5, <2>6, <2>7, <2>8 DEF HandInv
<1> QED
  BY <1>5, <1>6, <1>7, <1>8 DEF Inv

-----------------------------------------------------------------------------

LEMMA NextInv == Inv /\ [Next]_vars => Inv'
<1> SUFFICES ASSUME Inv, [Next]_vars PROVE Inv'
  OBVIOUS
<1>1. ASSUME NEW c \in Conns, Up, ClientStep(c) PROVE Inv'
  BY <1>1, ClientInv
<1>2. ASSUME NEW e \in batch, Up, LoopStep(e) PROVE Inv'
  BY <1>2, AcceptInv, DownInv, DispatchKillInv, NoTaskInv, SubmitInv
     DEF LoopStep
<1>3. ASSUME NEW w \in Workers, Up, WorkerStep(w) PROVE Inv'
  BY <1>3, RunStartsInv, RunReturnsInv, SliceOverInv, LockConnInv,
     VMLeavesInv, TaskDoneInv, DownInv
     DEF WorkerStep, RunReturns, EndTask
<1>4. CASE UNCHANGED vars
  BY <1>4
     DEF vars, Inv, TypeOK, TaskInv, HandInv, ConnInv, MachineInv, LoopInv,
         DownOnlyForCause, Loaded, Over, netVars, connVars, vmVars,
         taskVars, workVars
<1> QED
  BY <1>1, <1>2, <1>3, <1>4, EpollInv, TakeInv DEF Next

\* Inv holds in every state, for any number of clients, workers and tasks.
THEOREM Invariance == Spec => []Inv
BY InitInv, NextInv, PTL DEF Spec

\* At every moment the Connection or one VMTask that still exists owns the
\* machine, or it was deleted once: no race of kill with run or ~VMTask has a
\* worker run a machine that is gone, or two of them the same one.
THEOREM MachineHasOneOwner == Spec => []OneOwner
<1>1. Inv => OneOwner
  <2> SUFFICES ASSUME Inv, NEW m \in Conns
               PROVE  /\ Cardinality(Owners(m)) + freed[m] =
                           (IF conn[m] = "none" THEN 0 ELSE 1)
                      /\ \A c \in Conns : connVM[c] = m =>
                                            c = m /\ conn[c] = "live"
                      /\ \A t \in Tasks : taskVM[t] = m => place[t] # Pool!Done
    BY DEF OneOwner
  <2>1. \A c \in Conns : connVM[c] = m => c = m /\ conn[c] = "live"
    BY ServerAssumption DEF Inv, ConnInv
  <2>2. \A t \in Tasks : taskVM[t] = m =>
          /\ place[t] # Pool!Done
          /\ conn[m] # "none" /\ connVM[m] = Null /\ freed[m] = 0
          /\ \A u \in Tasks : taskVM[u] = m => u = t
    BY ServerAssumption DEF Inv, TaskInv, MachineInv
  <2>3. Cardinality({}) = 0 /\ \A x : Cardinality({x}) = 1
    BY FS_EmptySet, FS_Singleton
  <2>4. CASE connVM[m] = m
    <3>1. Owners(m) = {m}
      BY <2>1, <2>2, <2>4, ServerAssumption DEF Owners
    <3>2. freed[m] = 0 /\ conn[m] = "live"
      BY <2>1, <2>4, ServerAssumption DEF Inv, MachineInv
    <3>3. Cardinality(Owners(m)) + freed[m] = 1
      <4>1. Cardinality(Owners(m)) = 1
        BY <2>3, <3>1
      <4> QED BY ONLY <3>2, <4>1
    <3> QED
      BY <2>1, <2>2, <3>2, <3>3
  <2>5. CASE connVM[m] # m /\ \E t \in Tasks : taskVM[t] = m
    <3>1. PICK t \in Tasks : taskVM[t] = m
      BY <2>5
    <3>2. Owners(m) = {t}
      BY <2>1, <2>2, <2>5, <3>1 DEF Owners
    <3>3. Cardinality(Owners(m)) + freed[m] = 1
      <4>1. freed[m] = 0
        BY <2>2, <3>1
      <4>2. Cardinality(Owners(m)) = 1
        BY <2>3, <3>2
      <4> QED BY ONLY <4>1, <4>2
    <3> QED
      BY <2>1, <2>2, <3>1, <3>3
  <2>6. CASE connVM[m] # m /\ ~\E t \in Tasks : taskVM[t] = m
    <3>1. Owners(m) = {}
      BY <2>1, <2>6 DEF Owners
    <3>2. connVM[m] = Null
      BY <2>6 DEF Inv, ConnInv
    <3>3. freed[m] = IF conn[m] = "none" THEN 0 ELSE 1
      BY <2>6, <3>2 DEF Inv, MachineInv
    <3>4. Cardinality(Owners(m)) + freed[m] =
            (IF conn[m] = "none" THEN 0 ELSE 1)
      BY <2>3, <3>1, <3>3
    <3> QED
      BY <2>1, <2>2, <3>4
  <2> QED
    BY <2>4, <2>5, <2>6
<1> QED
  BY <1>1, Invariance, PTL

\* A null machine means a valid runningTask, which Connection::process needs
\* to tell the client, or to interrupt the task.
THEOREM RunningTaskIsValid == Spec => []RunningTaskValid
<1>1. Inv => RunningTaskValid
  <2> SUFFICES ASSUME Inv, NEW c \in Conns, conn[c] = "live",
                      connVM[c] = Null
               PROVE  /\ runningTask[c] # Null
                      /\ place[runningTask[c]] # Pool!Done
                      /\ taskVM[runningTask[c]] = c
    BY DEF RunningTaskValid
  <2>1. PICK t \in Tasks : taskVM[t] = c
    BY DEF Inv, MachineInv
  <2>2. c # Null /\ t # Null
    BY ServerAssumption
  <2> QED
    BY <2>1, <2>2 DEF Inv, TaskInv
<1> QED
  BY <1>1, Invariance, PTL

\* The message that a task is complete is true when it is sent.
THEOREM CompletionsAreReal == Spec => []CompletionIsReal
<1>1. Inv => CompletionIsReal
  <2> SUFFICES ASSUME Inv, NEW w \in Workers, wpc[w] = "giveBack",
                      held[w] # Null
               PROVE  \/ task[HandOf(w)].left = 0
                      \/ taskVM[HandOf(w)] \in halted
    BY DEF CompletionIsReal
  <2>1. PICK t \in Tasks : t = HandOf(w) /\ place[t] = w
    BY Hand
  <2>2. Over(t) /\ conn[task[t].conn] = "live"
    BY <2>1 DEF Inv, HandInv
  <2> QED
    BY <2>1, <2>2 DEF Over
<1> QED
  BY <1>1, Invariance, PTL

\* Only a kill of a Connection that a worker holds, or a reset by a client,
\* can bring the server down.
THEOREM GoesDownForCause == Spec => [](TypeOK /\ DownOnlyForCause)
<1>1. Inv => TypeOK /\ DownOnlyForCause
  BY DEF Inv, LoopInv
<1> QED
  BY <1>1, Invariance, PTL

-----------------------------------------------------------------------------
(* The refinement of VMOwnership *)

\* MachineOwner, in a state that satisfies Inv.
OwnerOf(m) == IF conn[m] = "none" THEN "none"
              ELSE IF freed[m] = 1 THEN "freed"
              ELSE IF connVM[m] = m THEN "conn"
              ELSE "task"

LEMMA OwnerIs == Inv => MachineOwner = [m \in Conns |-> OwnerOf(m)]
<1> SUFFICES ASSUME Inv, NEW m \in Conns
             PROVE  MachineOwner[m] = OwnerOf(m)
  BY DEF MachineOwner
<1> USE DEF MachineOwner, OwnerOf
<1>1. \A c \in Conns : connVM[c] = m => c = m /\ conn[c] = "live"
  BY ServerAssumption DEF Inv, ConnInv
<1>2. \A t \in Tasks : taskVM[t] = m =>
        /\ connVM[m] = Null /\ freed[m] = 0
        /\ \A u \in Tasks : taskVM[u] = m => u = t
  BY ServerAssumption DEF Inv, MachineInv
<1>3. CASE connVM[m] = m
  <2>1. Owners(m) = {m}
    BY <1>1, <1>2, <1>3, ServerAssumption DEF Owners
  <2>2. freed[m] = 0
    BY <1>1, <1>3, ServerAssumption DEF Inv, MachineInv
  <2> QED
    BY <1>3, <2>1, <2>2
<1>4. CASE connVM[m] # m /\ \E t \in Tasks : taskVM[t] = m
  <2>1. PICK t \in Tasks : taskVM[t] = m
    BY <1>4
  <2>2. Owners(m) = {t} /\ freed[m] = 0
    BY <1>1, <1>2, <1>4, <2>1 DEF Owners
  <2>3. {t} # {m}
    BY ServerAssumption
  <2> QED
    BY <1>4, <2>2, <2>3
<1>5. CASE connVM[m] # m /\ ~\E t \in Tasks : taskVM[t] = m
  <2>1. Owners(m) = {}
    BY <1>1, <1>5 DEF Owners
  <2>2. conn[m] # "none" => freed[m] = 1
    BY <1>5 DEF Inv, MachineInv, ConnInv
  <2> QED
    BY <1>5, <2>1, <2>2
<1> QED
  BY <1>3, <1>4, <1>5

LEMMA OwnerIsThen == Inv' => MachineOwner' = [m \in Conns |-> OwnerOf(m)']
<1>1. (Inv => MachineOwner = [m \in Conns |-> OwnerOf(m)])'
  BY OwnerIs, PTL
<1> QED
  BY <1>1

\* A step that changes what is known of one machine only.
LEMMA OneMoves ==
  ASSUME Inv, Inv', NEW m \in Conns,
         \A d \in Conns \ {m} : /\ conn'[d] = conn[d]
                                /\ connVM'[d] = connVM[d]
                                /\ freed'[d] = freed[d]
  PROVE  /\ MachineOwner[m] = OwnerOf(m)
         /\ MachineOwner' = [MachineOwner EXCEPT ![m] = OwnerOf(m)']
<1>1. MachineOwner = [d \in Conns |-> OwnerOf(d)]
  BY OwnerIs
<1>2. MachineOwner' = [d \in Conns |-> OwnerOf(d)']
  BY OwnerIsThen
<1>3. \A d \in Conns \ {m} : OwnerOf(d)' = OwnerOf(d)
  BY DEF OwnerOf
<1> QED
  BY <1>1, <1>2, <1>3

LEMMA OwnerKept ==
  ASSUME Inv, Inv', UNCHANGED <<conn, connVM, freed>>
  PROVE  MachineOwner' = MachineOwner
<1>1. \A m \in Conns : OwnerOf(m)' = OwnerOf(m)
  BY DEF OwnerOf
<1> QED
  BY <1>1, OwnerIs, OwnerIsThen

LEMMA DestroyFrees ==
  ASSUME Inv, Inv', NEW c \in Conns, conn[c] = "live", Destroy(c)
  PROVE  Ownership!Free(c) \/ MachineOwner' = MachineOwner
<1>1. /\ conn' = [conn EXCEPT ![c] = "dead"]
      /\ connVM' = [connVM EXCEPT ![c] = Null]
      /\ connVM[c] \in {c, Null}
      /\ freed[c] = 0
      /\ freed' = IF connVM[c] # Null THEN [freed EXCEPT ![c] = @ + 1]
                                      ELSE freed
  BY DEF Destroy, Destroyed, FreedByConn, Inv, ConnInv, MachineInv
<1>2. /\ MachineOwner[c] = OwnerOf(c)
      /\ MachineOwner' = [MachineOwner EXCEPT ![c] = OwnerOf(c)']
  BY <1>1, OneMoves DEF Inv, TypeOK
<1>3. CASE connVM[c] = Null
  <2>1. OwnerOf(c)' = OwnerOf(c)
    BY <1>1, <1>3, ServerAssumption DEF OwnerOf, Inv, TypeOK
  <2> QED
    BY <1>2, <2>1, OwnerIs
<1>4. CASE connVM[c] = c
  <2>1. OwnerOf(c) = "conn" /\ OwnerOf(c)' = "freed"
    BY <1>1, <1>4, ServerAssumption DEF OwnerOf, Inv, TypeOK
  <2> QED
    BY <1>2, <2>1 DEF Ownership!Free, Ownership!Move
<1> QED
  BY <1>1, <1>3, <1>4

\* The raw pointers implement the ownership that the comments of Server.h
\* describe: a machine moves between its Connection and one task, and the last
\* owner deletes it.
THEOREM OwnershipIsImplemented == Spec => OwnershipRefinement
<1>1. Init => Ownership!Init
  BY DEF Init, Ownership!Init, MachineOwner
<1>2. ASSUME Inv, Inv', [Next]_vars
      PROVE  Ownership!Next \/ MachineOwner' = MachineOwner
  <2> USE DEF Ownership!Next
  <2>1. CASE UNCHANGED <<conn, connVM, freed>>
    BY <1>2, <2>1, OwnerKept
  <2>2. ASSUME NEW e \in batch, Accept(e)
        PROVE  Ownership!Next
    <3>1. Waiting \subseteq Conns /\ \A m \in Waiting : conn[m] = "none"
      BY DEF Waiting
    <3>2. \A m \in Conns :
            OwnerOf(m)' = IF m \in Waiting THEN "conn" ELSE OwnerOf(m)
      BY <1>2, <2>2, <3>1, ServerAssumption
         DEF Accept, OwnerOf, Inv, MachineInv
    <3>3. /\ \A m \in Waiting : MachineOwner[m] = "none"
          /\ MachineOwner' = [m \in Conns |-> IF m \in Waiting THEN "conn"
                                              ELSE MachineOwner[m]]
      BY <1>2, <3>1, <3>2, OwnerIs, OwnerIsThen DEF OwnerOf
    <3> QED
      BY <3>1, <3>3 DEF Ownership!CreateAll
  <2>3. ASSUME NEW c \in Conns, conn[c] = "live", Kill(c)
        PROVE  Ownership!Next \/ MachineOwner' = MachineOwner
    BY <1>2, <2>1, <2>3, DestroyFrees DEF Kill
  <2>4. ASSUME NEW w \in Workers, Release(w)
        PROVE  Ownership!Next \/ MachineOwner' = MachineOwner
    <3>1. held[w] \in Conns => conn[held[w]] = "live"
      BY <1>2, ServerAssumption DEF Inv, HandInv
    <3> QED
      BY <1>2, <2>1, <2>4, <3>1, ReleaseCases, DestroyFrees
  <2>5. ASSUME NEW e \in batch, NEW c \in Conns, DispatchVMTask(e, c)
        PROVE  Ownership!Claim(c)
    <3>1. /\ connVM' = [connVM EXCEPT ![c] = Null]
          /\ connVM[c] = c /\ conn[c] = "live" /\ freed[c] = 0
          /\ UNCHANGED <<conn, freed>>
      BY <1>2, <2>5 DEF DispatchVMTask, Claimed, Inv, ConnInv, MachineInv
    <3>2. OwnerOf(c) = "conn" /\ OwnerOf(c)' = "task"
      BY <1>2, <3>1, ServerAssumption DEF OwnerOf, Inv, TypeOK
    <3> QED
      BY <1>2, <3>1, <3>2, OneMoves
         DEF Ownership!Claim, Ownership!Move, Inv, TypeOK
  <2>6. ASSUME NEW w \in Workers, GiveBack(w) \/ DeleteMachine(w)
        PROVE  \E m \in Conns : Ownership!Return(m) \/ Ownership!Free(m)
    <3>1. PICK t \in Tasks :
            /\ t = HandOf(w) /\ place[t] = w /\ wpc[w] = "giveBack"
      BY <1>2, <2>6, Hand DEF GiveBack, DeleteMachine
    <3>2. PICK m \in Conns :
            /\ m = taskVM[t] /\ connVM[m] = Null /\ freed[m] = 0
            /\ conn[m] # "none" /\ held[w] \in {m, Null}
      BY <1>2, <3>1, ServerAssumption, PlacesAssumption
         DEF Inv, HandInv, TaskInv, MachineInv, TypeOK
    <3>3. conn' = conn
      BY <2>6 DEF GiveBack, DeleteMachine, connVars
    <3>4. OwnerOf(m) = "task"
      BY <3>2, ServerAssumption DEF OwnerOf
    <3>5. CASE GiveBack(w)
      <4>1. connVM' = [connVM EXCEPT ![m] = m] /\ freed' = freed
        BY <3>1, <3>2, <3>5 DEF GiveBack
      <4>2. OwnerOf(m)' = "conn"
        BY <1>2, <3>2, <3>3, <4>1 DEF OwnerOf, Inv, TypeOK
      <4> QED
        BY <1>2, <3>3, <3>4, <4>1, <4>2, OneMoves
           DEF Ownership!Return, Ownership!Move, Inv, TypeOK
    <3>6. CASE DeleteMachine(w)
      <4>1. freed' = [freed EXCEPT ![m] = @ + 1] /\ connVM' = connVM
        BY <3>1, <3>2, <3>6 DEF DeleteMachine
      <4>2. OwnerOf(m)' = "freed"
        BY <1>2, <3>2, <3>3, <4>1 DEF OwnerOf, Inv, TypeOK
      <4> QED
        BY <1>2, <3>3, <3>4, <4>1, <4>2, OneMoves
           DEF Ownership!Free, Ownership!Move, Inv, TypeOK
    <3> QED
      BY <2>6, <3>5, <3>6
  <2>7. ASSUME NEW e \in batch, LoopStep(e)
        PROVE  Ownership!Next \/ MachineOwner' = MachineOwner
    BY <2>1, <2>2, <2>3, <2>5, <2>7
       DEF LoopStep, DispatchDangling, DispatchLost, DispatchThrows,
           DispatchHandshake, DispatchNoTask, DispatchForward, Received,
           Dispatch, Terminate, connVars, vmVars
  <2>8. ASSUME NEW w \in Workers, WorkerStep(w)
        PROVE  Ownership!Next \/ MachineOwner' = MachineOwner
    BY <2>1, <2>4, <2>6, <2>8
       DEF WorkerStep, RunReturns, EndTask, RunStarts, RunForward, RunLoad,
           RunHalted, RunStep, RunThrows, SliceOver, LockConn,
           GiveBackThrows, TaskDone, Terminate, connVars, vmVars
  <2>9. CASE \/ \E c \in Conns : ClientStep(c)
             \/ EpollWait
             \/ \E w \in Workers, t \in Tasks : Take(w, t)
             \/ UNCHANGED vars
    BY <2>1, <2>9
       DEF ClientStep, Connect, ClientSend, Leave, EpollWait, Take, vars,
           connVars, vmVars
  <2> QED
    BY <1>2, <2>7, <2>8, <2>9 DEF Next
<1>3. Inv /\ [Next]_vars => [Ownership!Next]_MachineOwner
  BY <1>2, NextInv
<1> QED
  BY <1>1, <1>3, Invariance, PTL
     DEF Spec, OwnershipRefinement, Ownership!Spec

-----------------------------------------------------------------------------
(* Numbers as bytes, and frames *)

\* A nonempty set of numbers has a least one.
LEMMA LeastOf ==
  ASSUME NEW S, S \subseteq Nat, S # {}
  PROVE  \E n \in S : \A k \in S : n <= k
<1> DEFINE R == OpToRel(<, Nat)
<1>1. IsWellFoundedOn(R, Nat)
  BY NatLessThanWellFounded
<1>2. \A n, k \in Nat : n < k => <<n, k>> \in R
  BY DEF OpToRel
<1> HIDE DEF R
<1>3. PICK n \in S : \A k \in S : ~ (<<k, n>> \in R)
  BY <1>1, WFMin
<1>4. \A k \in S : ~ (k < n)
  BY <1>2, <1>3
<1> QED BY <1>3, <1>4

\* A claim about the numbers up to k fails first somewhere.
LEMMA FirstFailure ==
  ASSUME NEW k \in Nat, NEW Good, NEW m \in 0 .. k, m \notin Good
  PROVE  \E j \in 0 .. k : j \notin Good /\ \A i \in 0 .. j - 1 : i \in Good
<1> DEFINE Bad == {j \in 0 .. k : j \notin Good}
<1>1. Bad \subseteq Nat /\ Bad # {}
  OBVIOUS
<1>2. PICK j \in Bad : \A i \in Bad : j <= i
  <2> HIDE DEF Bad
  <2> QED BY <1>1, LeastOf
<1>3. \A i \in 0 .. j - 1 : i \in Good
  BY <1>2
<1> QED BY <1>2, <1>3

-----------------------------------------------------------------------------
(* The codec *)

\* The bytes of a number.
LEMMA RadixFacts ==
  ASSUME FramesAssumption
  PROVE  /\ High \in Nat /\ High > 3
         /\ Radix \in Nat /\ Radix > 7 /\ Radix = 2 * High
         /\ MarkTwo \in Nat /\ MarkEight \in Nat
         /\ MarkTwo = High - 2 /\ MarkEight = High - 1
BY DEF FramesAssumption, Radix, MarkTwo, MarkEight

\* Division with a remainder.
LEMMA QuotientRemainder ==
  ASSUME NEW a \in Nat, NEW b \in Nat \ {0}
  PROVE  /\ a % b \in 0 .. b - 1 /\ a \div b \in Nat
         /\ a = (a \div b) * b + (a % b)
<1>1. a % b \in 0 .. b - 1 /\ a \div b \in Int /\ a = (a \div b) * b + (a % b)
  BY Z3
<1>2. PICK q \in Int, r \in 0 .. b - 1 : q = a \div b /\ r = a % b
  BY <1>1
<1>3. CASE q <= -1
  <2>1. q * b <= -b
    BY <1>3, Z3
  <2> QED BY <2>1, <1>1, <1>2
<1> QED BY <1>1, <1>2, <1>3

\* A number that is smaller than the divisor is left as it is.
LEMMA SmallRemainder ==
  ASSUME NEW a \in Nat, NEW b \in Nat \ {0}, a < b
  PROVE  a % b = a
<1>1. PICK q \in Nat, r \in 0 .. b - 1 : a = q * b + r /\ a % b = r
  BY QuotientRemainder
<1>2. q = 0
  <2>1. SUFFICES ASSUME q >= 1 PROVE FALSE
    OBVIOUS
  <2>2. q * b >= b
    BY <2>1
  <2> QED BY <1>1, <2>2
<1>3. q * b = 0
  BY <1>2
<1> QED BY <1>1, <1>3

\* Division by the radix leaves a quotient and a byte.
LEMMA Divides ==
  ASSUME FramesAssumption, NEW n \in Nat
  PROVE  /\ n \div Radix \in Nat /\ n % Radix \in 0 .. Radix - 1
         /\ n = (n \div Radix) * Radix + (n % Radix)
<1>1. Radix \in Nat \ {0}
  BY RadixFacts
<1> QED BY <1>1, QuotientRemainder

\* A quotient is small when the number is.
LEMMA QuotientBelow ==
  ASSUME FramesAssumption, NEW n \in Nat, NEW m \in Nat, n < m * Radix
  PROVE  n \div Radix < m
<1>1. PICK r \in Nat \ {0} : r = Radix
  BY RadixFacts
<1>2. PICK q \in Nat, s \in 0 .. r - 1 : q = n \div Radix /\ s = n % Radix
  BY <1>1, Divides
<1>3. n = q * r + s
  BY <1>1, <1>2, Divides
<1>4. SUFFICES ASSUME m <= q PROVE FALSE
  BY <1>2
<1>5. PICK d \in Nat : q = m + d
  <2>1. q - m \in Nat /\ q = m + (q - m)
    BY <1>4
  <2> QED BY <2>1
<1>6. q * r = m * r + d * r
  BY <1>5, Z3
<1>7. d * r \in Nat /\ m * r \in Nat /\ q * r \in Nat
  BY <1>1
<1>8. n < m * r
  BY <1>1
<1> QED BY <1>3, <1>6, <1>7, <1>8

\* n >> 8 * i, for each i, as a function.
Shifts(f, n, k) ==
  f = [i \in 0 .. k |-> IF i = 0 THEN n ELSE f[i - 1] \div Radix]

\* There is a function that divides by the radix, step by step.
LEMMA ShiftsExist ==
  ASSUME NEW n, NEW k \in Nat
  PROVE  \E f : Shifts(f, n, k)
<1> DEFINE Good == {j \in Nat : \E f : Shifts(f, n, j)}
<1>1. SUFFICES ASSUME k \notin Good PROVE FALSE
  OBVIOUS
<1>2. PICK j \in 0 .. k : j \notin Good /\ \A i \in 0 .. j - 1 : i \in Good
  <2> HIDE DEF Good
  <2> QED BY <1>1, FirstFailure
<1>3. CASE j = 0
  <2>1. Shifts([i \in 0 .. 0 |-> n], n, 0)
    BY DEF Shifts
  <2> QED BY <1>2, <1>3, <2>1
<1>4. CASE j > 0
  <2>1. PICK f : Shifts(f, n, j - 1)
    BY <1>2, <1>4
  <2> DEFINE g == [i \in 0 .. j |-> IF i = j THEN f[j - 1] \div Radix ELSE f[i]]
  <2>2. f = [i \in 0 .. j - 1 |-> IF i = 0 THEN n ELSE f[i - 1] \div Radix]
    BY <2>1 DEF Shifts
  <2>3. \A i \in 0 .. j : g[i] = IF i = 0 THEN n ELSE g[i - 1] \div Radix
    BY <1>2, <1>4, <2>2
  <2>4. Shifts(g, n, j)
    BY <2>3 DEF Shifts
  <2> QED BY <1>2, <2>4
<1> QED BY <1>2, <1>3, <1>4

\* All such functions agree, however far they are defined.
LEMMA ShiftsUnique ==
  ASSUME NEW n, NEW k \in Nat, NEW l \in 0 .. k,
         NEW f, Shifts(f, n, k), NEW g, Shifts(g, n, l)
  PROVE  f[l] = g[l]
<1> DEFINE Good == {j \in Nat : f[j] = g[j]}
<1>1. SUFFICES ASSUME l \notin Good PROVE FALSE
  OBVIOUS
<1>2. PICK j \in 0 .. l : j \notin Good /\ \A i \in 0 .. j - 1 : i \in Good
  <2> HIDE DEF Good
  <2> QED BY <1>1, FirstFailure
<1>3. /\ \A i \in 0 .. k : f[i] = IF i = 0 THEN n ELSE f[i - 1] \div Radix
      /\ \A i \in 0 .. l : g[i] = IF i = 0 THEN n ELSE g[i - 1] \div Radix
  BY DEF Shifts
<1>4. j > 0 => f[j - 1] = g[j - 1]
  BY <1>2
<1> QED BY <1>2, <1>3, <1>4

\* What >> does one byte at a time.
LEMMA ShiftedIs ==
  ASSUME NEW n, NEW k \in Nat
  PROVE  /\ Shifted(n, 0) = n
         /\ Shifted(n, k + 1) = Shifted(n, k) \div Radix
<1>1. \A l \in Nat : \E f : Shifts(f, n, l) /\ Shifted(n, l) = f[l]
  <2>4. TAKE l \in Nat
  <2> DEFINE c == CHOOSE f :
                    f = [i \in 0 .. l |->
                           IF i = 0 THEN n ELSE f[i - 1] \div Radix]
  <2>1. \E f : Shifts(f, n, l)
    BY ShiftsExist
  <2>2. Shifts(c, n, l)
    BY ONLY <2>1 DEF Shifts
  <2>3. Shifted(n, l) = c[l]
    BY DEF Shifted
  <2> QED BY <2>2, <2>3
<1>2. PICK f : Shifts(f, n, k + 1) /\ Shifted(n, k + 1) = f[k + 1]
  BY <1>1
<1>3. PICK g : Shifts(g, n, k) /\ Shifted(n, k) = g[k]
  BY <1>1
<1>4. f[k] = g[k]
  BY <1>2, <1>3, ShiftsUnique
<1>5. f[k + 1] = f[k] \div Radix
  BY <1>2 DEF Shifts
<1>6. PICK h : Shifts(h, n, 0) /\ Shifted(n, 0) = h[0]
  BY <1>1
<1>7. h[0] = n
  BY <1>6 DEF Shifts
<1> QED BY <1>2, <1>3, <1>4, <1>5, <1>6, <1>7

\* The shifts of a number of k bytes.
LEMMA ShiftedType ==
  ASSUME FramesAssumption, NEW n \in Nat, NEW k \in Nat
  PROVE  Shifted(n, k) \in Nat
<1> DEFINE Good == {j \in Nat : Shifted(n, j) \in Nat}
<1>1. SUFFICES ASSUME k \notin Good PROVE FALSE
  OBVIOUS
<1>2. PICK j \in 0 .. k : j \notin Good /\ \A i \in 0 .. j - 1 : i \in Good
  <2> HIDE DEF Good
  <2> QED BY <1>1, FirstFailure
<1>3. j # 0
  BY <1>2, ShiftedIs
<1>4. PICK i \in Nat : j = i + 1
  <2>1. j - 1 \in Nat /\ j = (j - 1) + 1
    BY <1>3
  <2> QED BY <2>1
<1>5. Shifted(n, i) \in Nat
  BY <1>2, <1>4
<1>6. Shifted(n, i + 1) \in Nat
  BY <1>5, ShiftedIs, Divides
<1> QED BY <1>2, <1>4, <1>6

\* A number is written as bytes, as many as asked for.
LEMMA BigEndianType ==
  ASSUME FramesAssumption, NEW n \in Nat, NEW k \in Nat
  PROVE  BigEndian(n, k) \in Seq(Byte) /\ Len(BigEndian(n, k)) = k
<1>1. \A i \in 1 .. k : Shifted(n, k - i) % Radix \in Byte
  <2>1. TAKE i \in 1 .. k
  <2>2. Shifted(n, k - i) \in Nat
    BY ShiftedType
  <2> QED BY <2>2, Divides DEF Byte
<1> QED BY <1>1 DEF BigEndian

\* What the bytes from the first on are as a number.
LEMMA ValueIs ==
  ASSUME NEW bytes, Len(bytes) \in Nat, NEW f,
         f = [i \in 0 .. Len(bytes) |-> IF i = 0 THEN 0
                                        ELSE f[i - 1] * Radix + bytes[i]]
  PROVE  Value(bytes) = f[Len(bytes)]
<1>0. PICK k \in Nat : k = Len(bytes)
  OBVIOUS
<1> DEFINE v == CHOOSE g : g = [i \in 0 .. Len(bytes) |->
                                  IF i = 0 THEN 0 ELSE g[i - 1] * Radix + bytes[i]]
<1>1. v = [i \in 0 .. Len(bytes) |->
             IF i = 0 THEN 0 ELSE v[i - 1] * Radix + bytes[i]]
  OBVIOUS
<1>2. Value(bytes) = v[k]
  BY <1>0 DEF Value
<1>7. k \in 0 .. k
  OBVIOUS
<1> HIDE DEF v
<1> DEFINE Good == {j \in Nat : v[j] = f[j]}
<1>3. SUFFICES ASSUME k \notin Good PROVE FALSE
  BY <1>0, <1>2
<1>4. PICK j \in 0 .. k : j \notin Good /\ \A i \in 0 .. j - 1 : i \in Good
  <2> HIDE DEF Good
  <2> QED BY <1>3, <1>7, FirstFailure
<1>5. /\ v[j] = IF j = 0 THEN 0 ELSE v[j - 1] * Radix + bytes[j]
      /\ f[j] = IF j = 0 THEN 0 ELSE f[j - 1] * Radix + bytes[j]
  <2>1. j \in 0 .. Len(bytes)
    BY <1>0
  <2> QED BY <1>1, <2>1
<1>6. j > 0 => v[j - 1] = f[j - 1]
  BY <1>4
<1> QED BY <1>4, <1>5, <1>6

\* A number that k bytes can hold is read as it was written.
LEMMA ValueOfBigEndian ==
  ASSUME FramesAssumption, NEW n \in Nat, NEW k \in Nat, Shifted(n, k) = 0
  PROVE  Value(BigEndian(n, k)) = n
<1> DEFINE b == BigEndian(n, k)
           f == [i \in 0 .. k |-> Shifted(n, k - i)]
<1>1. b \in Seq(Byte) /\ Len(b) = k
  BY BigEndianType
<1>2. \A i \in 1 .. k : b[i] = Shifted(n, k - i) % Radix
  BY DEF BigEndian
<1>3. \A i \in 1 .. k : f[i] = f[i - 1] * Radix + b[i]
  <2>1. TAKE i \in 1 .. k
  <2>2. f[i] = Shifted(n, k - i) /\ f[i - 1] = Shifted(n, (k - i) + 1)
    OBVIOUS
  <2>3. k - i \in Nat
    OBVIOUS
  <2>4. Shifted(n, (k - i) + 1) = Shifted(n, k - i) \div Radix
    BY <2>3, ShiftedIs
  <2>5. Shifted(n, k - i) \in Nat
    BY <2>3, ShiftedType
  <2> QED BY <1>2, <2>2, <2>4, <2>5, Divides
<1>4. f[0] = 0 /\ f[k] = n
  BY ShiftedIs
<1> HIDE DEF b
<1>5. f = [i \in 0 .. Len(b) |-> IF i = 0 THEN 0
                                 ELSE f[i - 1] * Radix + b[i]]
  <2>1. \A i \in 0 .. k : f[i] = IF i = 0 THEN 0 ELSE f[i - 1] * Radix + b[i]
    <3> HIDE DEF f
    <3> QED BY <1>3, <1>4
  <2>2. DOMAIN f = 0 .. k
    OBVIOUS
  <2>3. f = [i \in 0 .. k |-> f[i]]
    OBVIOUS
  <2> HIDE DEF f
  <2>4. f = [i \in 0 .. k |-> IF i = 0 THEN 0 ELSE f[i - 1] * Radix + b[i]]
    BY <2>1, <2>3
  <2> QED BY <1>1, <2>4
<1> HIDE DEF f
<1>6. Value(b) = f[Len(b)]
  BY <1>1, <1>5, ValueIs
<1> QED BY <1>1, <1>4, <1>6 DEF b

\* The numbers that fit two bytes, and eight.
LEMMA ShiftedOut ==
  ASSUME FramesAssumption, NEW n \in Nat, NEW k \in Nat, NEW m \in Nat,
         Shifted(n, k) < m * Radix
  PROVE  Shifted(n, k + 1) < m
BY ShiftedType, ShiftedIs, QuotientBelow

\* Nothing is left of a number of two bytes behind the second,
LEMMA FitsTwo ==
  ASSUME FramesAssumption, NEW n \in 0 .. MaxTwo
  PROVE  Shifted(n, 2) = 0
<1>1. Radix \in Nat /\ Radix * Radix \in Nat
  BY RadixFacts
<1>2. n \in Nat /\ Shifted(n, 0) < Radix * Radix
  BY <1>1, ShiftedIs DEF MaxTwo, Square
<1>3. Shifted(n, 1) < Radix
  BY <1>1, <1>2, ShiftedOut
<1>4. Shifted(n, 2) < 1
  BY <1>1, <1>2, <1>3, ShiftedOut
<1> QED BY <1>2, <1>4, ShiftedType

\* The three squares are the eighth power,
LEMMA SizeModIs ==
  ASSUME NEW r \in Nat
  PROVE  Square(Square(Square(r))) = ((((((r * r) * r) * r) * r) * r) * r) * r
<1>1. PICK s \in Nat : s = r * r
  OBVIOUS
<1>2. PICK t \in Nat : t = s * s
  OBVIOUS
<1>3. (s * r) * r = t
  <2>1. (s * r) * r = s * (r * r)
    BY Z3
  <2> QED BY <2>1, <1>1, <1>2
<1>4. (((t * r) * r) * r) * r = t * t
  <2>1. PICK u \in Nat : u = t * r
    OBVIOUS
  <2>2. (t * r) * r = t * s
    <3>1. (t * r) * r = t * (r * r)
      BY Z3
    <3> QED BY <3>1, <1>1
  <2>3. PICK w \in Nat : w = t * s
    OBVIOUS
  <2>4. (w * r) * r = w * s
    <3>1. (w * r) * r = w * (r * r)
      BY Z3
    <3> QED BY <3>1, <1>1
  <2>5. w * s = t * t
    <3>1. (t * s) * s = t * (s * s)
      BY Z3
    <3> QED BY <3>1, <2>3, <1>2
  <2> QED BY <2>2, <2>3, <2>4, <2>5
<1> QED BY <1>1, <1>2, <1>3, <1>4 DEF Square

\* and nothing of one of eight bytes behind the eighth.
LEMMA FitsEight ==
  ASSUME FramesAssumption, NEW n \in Nat, n < SizeMod
  PROVE  Shifted(n, 8) = 0
<1>1. PICK r \in Nat : r = Radix
  BY RadixFacts
<1>2. PICK p2 \in Nat, p3 \in Nat, p4 \in Nat, p5 \in Nat, p6 \in Nat, p7 \in Nat :
        /\ p2 = r * r /\ p3 = p2 * r /\ p4 = p3 * r
        /\ p5 = p4 * r /\ p6 = p5 * r /\ p7 = p6 * r
  OBVIOUS
<1>3. SizeMod = p7 * Radix
  BY <1>1, <1>2, SizeModIs DEF SizeMod
<1>4. Shifted(n, 0) < p7 * Radix
  BY <1>3, ShiftedIs
<1>5. Shifted(n, 1) < p7
  BY <1>2, <1>4, ShiftedOut
<1>6. Shifted(n, 2) < p6
  BY <1>1, <1>2, <1>5, ShiftedOut
<1>7. Shifted(n, 3) < p5
  BY <1>1, <1>2, <1>6, ShiftedOut
<1>8. Shifted(n, 4) < p4
  BY <1>1, <1>2, <1>7, ShiftedOut
<1>9. Shifted(n, 5) < p3
  BY <1>1, <1>2, <1>8, ShiftedOut
<1>10. Shifted(n, 6) < p2
  BY <1>1, <1>2, <1>9, ShiftedOut
<1>11. Shifted(n, 7) < r
  BY <1>1, <1>2, <1>10, ShiftedOut
<1>12. Shifted(n, 8) < 1
  BY <1>1, <1>2, <1>11, ShiftedOut
<1> QED BY <1>12, ShiftedType

\* The length field of a frame, with the bit that says whether there is a key.
IsField(f, n, mask) ==
  LET len7 == f[1] % High
  IN  /\ f \in Seq(Byte) /\ Len(f) = 1 + Extra(len7)
      /\ f[1] = mask + len7 /\ len7 \in 0 .. High - 1
      /\ n = IF Extra(len7) = 0 THEN len7 ELSE Value(SubSeq(f, 2, Len(f)))

\* The mask bit and the seven bits beside it do not disturb each other.
LEMMA SevenBits ==
  ASSUME FramesAssumption, NEW mask \in {0, High}, NEW n \in 0 .. High - 1
  PROVE  (mask + n) % High = n /\ mask + n \in Byte
<1>1. High \in Nat /\ High > 3 /\ Radix = 2 * High
  BY RadixFacts
<1>2. mask + n \in Byte
  BY <1>1 DEF Byte
<1>3. PICK q \in Nat, s \in 0 .. High - 1 :
        /\ q = (mask + n) \div High /\ s = (mask + n) % High
        /\ mask + n = q * High + s
  BY <1>1, QuotientRemainder
<1>4. PICK h \in Nat : h = High
  BY <1>1
<1>5. q < 2
  <2> SUFFICES ASSUME q >= 2 PROVE FALSE
    BY <1>3
  <2>1. PICK d \in Nat : q = 2 + d
    <3>1. q - 2 \in Nat /\ q = 2 + (q - 2)
      OBVIOUS
    <3> QED BY <3>1
  <2>2. q * h = 2 * h + d * h
    BY <2>1, Z3
  <2>3. d * h \in Nat /\ q * h \in Nat
    OBVIOUS
  <2> QED BY <2>2, <2>3, <1>1, <1>3, <1>4
<1>6. CASE q = 0
  BY <1>1, <1>2, <1>3, <1>4, <1>6
<1>7. CASE q = 1
  BY <1>1, <1>2, <1>3, <1>4, <1>7
<1> QED BY <1>5, <1>6, <1>7

\* LengthField writes one of the three forms of a length.
LEMMA FieldOf ==
  ASSUME FramesAssumption, NEW mask \in {0, High}, NEW n \in Nat, n < SizeMod
  PROVE  IsField(LengthField(n, mask), n, mask)
<1> DEFINE f == LengthField(n, mask)
<1>0. High \in Nat /\ High > 3 /\ MarkTwo = High - 2 /\ MarkEight = High - 1
  BY RadixFacts
<1>1. CASE n < MarkTwo
  <2>1. f = <<mask + n>>
    BY <1>1 DEF LengthField
  <2>2. n \in 0 .. High - 1
    BY <1>0, <1>1
  <2>3. (mask + n) % High = n /\ mask + n \in Byte
    BY <2>2, SevenBits
  <2>4. Extra(n) = 0
    BY <1>0, <1>1 DEF Extra
  <2>5. f \in Seq(Byte) /\ Len(f) = 1 /\ f[1] = mask + n
    BY <2>1, <2>3
  <2> QED BY <2>2, <2>3, <2>4, <2>5 DEF IsField
<1>2. ASSUME NEW k \in {2, 8}, NEW mark \in 0 .. High - 1, Extra(mark) = k,
             f = <<mask + mark>> \o BigEndian(n, k), Shifted(n, k) = 0
      PROVE  IsField(f, n, mask)
  <2>1. (mask + mark) % High = mark /\ mask + mark \in Byte
    BY SevenBits
  <2>2. BigEndian(n, k) \in Seq(Byte) /\ Len(BigEndian(n, k)) = k
    BY BigEndianType
  <2>3. <<mask + mark>> \in Seq(Byte) /\ Len(<<mask + mark>>) = 1
    BY <2>1
  <2> HIDE DEF f
  <2>4. /\ f \in Seq(Byte) /\ Len(f) = 1 + k /\ f[1] = mask + mark
        /\ \A i \in 1 .. k : f[1 + i] = BigEndian(n, k)[i]
    BY <1>2, <2>2, <2>3
  <2>5. SubSeq(f, 2, Len(f)) = BigEndian(n, k)
    <3>1. /\ SubSeq(f, 2, 1 + k) \in Seq(Byte) /\ Len(SubSeq(f, 2, 1 + k)) = k
          /\ \A i \in 1 .. k : SubSeq(f, 2, 1 + k)[i] = f[1 + i]
      BY <2>4
    <3> QED BY <3>1, <2>4, <2>2, SeqEqual
  <2>6. Value(BigEndian(n, k)) = n
    BY <1>2, ValueOfBigEndian
  <2>7. f[1] % High = mark
    BY <2>1, <2>4
  <2>8. Extra(mark) # 0
    BY <1>2
  <2>9. n = Value(SubSeq(f, 2, Len(f)))
    BY <2>5, <2>6
  <2> QED BY <1>2, <2>4, <2>7, <2>8, <2>9 DEF IsField
<1>3. CASE ~(n < MarkTwo) /\ n <= MaxTwo
  <2>1. f = <<mask + MarkTwo>> \o BigEndian(n, 2)
    BY <1>3 DEF LengthField
  <2>2. Shifted(n, 2) = 0
    <3>1. MaxTwo \in Int
      BY RadixFacts DEF MaxTwo, Square
    <3> QED BY <3>1, <1>3, FitsTwo
  <2>3. Extra(MarkTwo) = 2 /\ MarkTwo \in 0 .. High - 1
    BY <1>0 DEF Extra
  <2> QED BY <1>2, <2>1, <2>2, <2>3
<1>4. CASE ~(n < MarkTwo) /\ ~(n <= MaxTwo)
  <2>1. f = <<mask + MarkEight>> \o BigEndian(n, 8)
    BY <1>4 DEF LengthField
  <2>2. Shifted(n, 8) = 0
    BY FitsEight
  <2>3. Extra(MarkEight) = 8 /\ MarkEight \in 0 .. High - 1
    BY <1>0 DEF Extra
  <2> QED BY <1>2, <2>1, <2>2, <2>3
<1> QED BY <1>1, <1>3, <1>4

\* The place behind the field and the key.
StartOf(f, mask) == IF mask = High THEN 1 + Len(f) + 4 ELSE 1 + Len(f)

\* What is read from bytes that begin with a field, or with a part of one.
LEMMA DecodeIs ==
  ASSUME FramesAssumption, NEW mask \in {0, High}, NEW n \in Nat,
         n + 14 < SizeMod, NEW f, IsField(f, n, mask),
         NEW b \in Seq(Byte), Len(b) >= 2, b[2] = f[1],
         Len(b) >= 1 + Len(f) => \A i \in 2 .. Len(f) : b[1 + i] = f[i]
  PROVE  LET start == StartOf(f, mask)
         IN  Decode(b) =
               IF Len(b) < start + n THEN Failed
               ELSE [failed |-> FALSE,
                     payload |-> [i \in 1 .. n |->
                       IF mask = High
                         THEN ByteXor(b[start + i], b[start - 4 + 1 + ((i - 1) % 4)])
                         ELSE b[start + i]]]
<1> DEFINE len7 == f[1] % High
           offset == 2 + Extra(len7)
           start == StartOf(f, mask)
<1>0. High \in Nat /\ High > 3
  BY RadixFacts
<1>1. /\ Len(f) = 1 + Extra(len7) /\ f[1] = mask + len7 /\ len7 \in 0 .. High - 1
      /\ n = IF Extra(len7) = 0 THEN len7 ELSE Value(SubSeq(f, 2, Len(f)))
      /\ f \in Seq(Byte)
  BY DEF IsField
<1>2. Extra(len7) \in {0, 2, 8}
  BY DEF Extra
<1>3. b[2] % High = len7 /\ (b[2] >= High <=> mask = High)
  <2>1. b[2] % High = len7
    OBVIOUS
  <2> HIDE DEF len7
  <2>2. b[2] >= High <=> mask = High
    BY <1>0, <1>1
  <2> QED BY <2>1, <2>2
<1>4. offset = 1 + Len(f) /\ start = IF mask = High THEN offset + 4 ELSE offset
  <2> HIDE DEF len7
  <2>1. offset = 1 + Len(f)
    BY <1>1, <1>2
  <2> HIDE DEF offset
  <2> QED BY <2>1 DEF StartOf
<1>5. ASSUME Len(b) >= offset
      PROVE  SubSeq(b, 3, offset) = SubSeq(f, 2, Len(f))
  <2>1. \A i \in 2 .. Len(f) : b[1 + i] = f[i]
    BY <1>4, <1>5
  <2>2. Len(f) \in Nat /\ Len(b) \in Nat /\ offset \in Nat
    <3> HIDE DEF len7
    <3> QED BY <1>1, <1>2
  <2>3. SubSeq(b, 3, offset) = [i \in 1 .. Extra(len7) |-> b[2 + i]]
    <3> HIDE DEF len7
    <3>1. PICK e \in {0, 2, 8} : e = Extra(len7)
      BY <1>2
    <3>2. SubSeq(b, 3, 2 + e) = [i \in 1 .. e |-> b[2 + i]]
      <4>1. /\ SubSeq(b, 3, 2 + e) \in Seq(Byte)
            /\ Len(SubSeq(b, 3, 2 + e)) = e
            /\ \A i \in 1 .. e : SubSeq(b, 3, 2 + e)[i] = b[2 + i]
        BY <1>5, <2>2, <3>1
      <4> HIDE DEF offset
      <4> QED BY <4>1
    <3> QED BY <3>1, <3>2
  <2>4. SubSeq(f, 2, Len(f)) = [i \in 1 .. Extra(len7) |-> f[1 + i]]
    <3> HIDE DEF len7
    <3>1. PICK e \in {0, 2, 8} : e = Extra(len7) /\ Len(f) = 1 + e
      BY <1>1, <1>2
    <3>2. /\ SubSeq(f, 2, 1 + e) \in Seq(Byte)
          /\ Len(SubSeq(f, 2, 1 + e)) = e
          /\ \A i \in 1 .. e : SubSeq(f, 2, 1 + e)[i] = f[1 + i]
      <4>1. \A i \in 2 .. 1 + e : f[i] \in Byte
        BY <1>1, <3>1
      <4>2. /\ SubSeq(f, 2, 1 + e) \in Seq(Byte)
            /\ Len(SubSeq(f, 2, 1 + e)) = IF 2 <= 1 + e THEN (1 + e) - 2 + 1
                                           ELSE 0
            /\ \A i \in 1 .. (1 + e) - 2 + 1 :
                 SubSeq(f, 2, 1 + e)[i] = f[2 + i - 1]
        BY <4>1, SubSeqProperties
      <4>3. \A i \in 1 .. e : 2 + i - 1 = 1 + i
        OBVIOUS
      <4>4. (1 + e) - 2 + 1 = e /\ (2 <= 1 + e <=> e # 0)
        BY <3>1
      <4> QED BY ONLY <4>2, <4>3, <4>4
    <3> HIDE DEF offset, start
    <3>3. SubSeq(f, 2, 1 + e) = [i \in 1 .. e |-> f[1 + i]]
      <4>1. PICK g \in Seq(Byte) :
              /\ g = SubSeq(f, 2, 1 + e) /\ Len(g) = e
              /\ \A i \in 1 .. e : g[i] = f[1 + i]
        BY <3>2
      <4>2. g = [i \in 1 .. Len(g) |-> g[i]]
        OBVIOUS
      <4> QED BY <4>1, <4>2
    <3> QED BY <3>1, <3>3
  <2>5. \A i \in 1 .. Extra(len7) : b[2 + i] = f[1 + i]
    <3>1. TAKE i \in 1 .. Extra(len7)
    <3>2. 1 + i \in 2 .. Len(f) /\ 1 + (1 + i) = 2 + i
      BY <1>1, <1>2
    <3> QED BY <3>2, <2>1
  <2> QED BY <2>3, <2>4, <2>5
<1>6. EndOfFrame(offset, mask = High, n) = start + n
  <2>1. SizeMod \in Nat
    <3>1. \A r \in Nat : Square(r) \in Nat
      BY DEF Square
    <3> QED BY <3>1, RadixFacts DEF SizeMod
  <2>2. start + n \in 0 .. SizeMod - 1
    <3> HIDE DEF len7, start
    <3>1. PICK e \in {0, 2, 8} : e = Extra(len7)
      BY <1>2
    <3>2. start \in Nat /\ start <= 14
      BY <1>4, <3>1
    <3> HIDE DEF offset
    <3> QED BY <2>1, <3>2
  <2>3. offset + (IF mask = High THEN 4 ELSE 0) + n = start + n
    BY <1>2, <1>4
  <2>4. (start + n) % SizeMod = start + n
    <3>1. PICK a \in Nat, m \in Nat \ {0} :
            a = start + n /\ m = SizeMod /\ a < m
      BY <2>1, <2>2
    <3> QED BY <3>1, SmallRemainder
  <2> QED BY <2>3, <2>4 DEF EndOfFrame
<1>7. start \in Nat /\ offset \in Nat /\ start >= offset /\ Len(b) \in Nat
  BY <1>2, <1>4
<1> DEFINE keyed == b[2] >= High
           length == IF Extra(len7) = 0 THEN len7
                     ELSE Value(SubSeq(b, 3, offset))
           there == IF keyed THEN offset + 4 ELSE offset
<1>8. there = start /\ keyed = (mask = High)
  BY <1>3, <1>4
<1>9. Len(b) >= offset => length = n
  BY <1>1, <1>5
<1>10. Decode(b) =
         IF Len(b) < offset \/ Len(b) < there THEN Failed
         ELSE IF Len(b) < EndOfFrame(offset, keyed, length) THEN Failed
         ELSE [failed |-> FALSE,
               payload |-> [i \in 1 .. length |->
                 IF keyed
                   THEN ByteXor(b[there + i], b[offset + 1 + ((i - 1) % 4)])
                   ELSE b[there + i]]]
  <2>1. ~(Len(b) < 2)
    BY <1>7
  <2> QED BY <2>1, <1>3 DEF Decode
<1> HIDE DEF keyed, length, there, offset, len7, start
<1>11. CASE Len(b) < offset \/ Len(b) < start
  <2>1. Len(b) < start + n
    BY <1>7, <1>11
  <2> QED BY <2>1, <1>8, <1>10, <1>11 DEF start
<1>12. CASE ~(Len(b) < offset \/ Len(b) < start)
  <2>1. length = n
    BY <1>7, <1>9, <1>12
  <2>2. EndOfFrame(offset, keyed, length) = start + n
    BY <1>6, <1>8, <2>1
  <2>3. Decode(b) =
          IF Len(b) < start + n THEN Failed
          ELSE [failed |-> FALSE,
                payload |-> [i \in 1 .. n |->
                  IF mask = High
                    THEN ByteXor(b[start + i], b[offset + 1 + ((i - 1) % 4)])
                    ELSE b[start + i]]]
    BY <1>8, <1>10, <1>12, <2>1, <2>2
  <2>4. mask = High => offset = start - 4
    BY <1>4, <1>7
  <2> QED BY <2>3, <2>4 DEF start
<1> QED BY <1>11, <1>12

\* Payloads are bytes, and their frames have a length of 64 bits.
LEMMA PayloadFacts ==
  ASSUME NEW p \in Payloads
  PROVE  p \in Seq(Byte) /\ Len(p) \in Nat /\ Len(p) + 14 < SizeMod
BY DEF Payloads

\* The numbers of eight bytes have a bound.
LEMMA SizeModType ==
  ASSUME FramesAssumption
  PROVE  SizeMod \in Nat
<1>1. \A r \in Nat : Square(r) \in Nat
  BY DEF Square
<1> QED BY <1>1, RadixFacts DEF SizeMod

\* What o does, byte by byte.
LEMMA Joined ==
  ASSUME NEW a \in Seq(Byte), NEW b \in Seq(Byte)
  PROVE  /\ a \o b \in Seq(Byte) /\ Len(a \o b) = Len(a) + Len(b)
         /\ \A i \in 1 .. Len(a) : (a \o b)[i] = a[i]
         /\ \A i \in 1 .. Len(b) : (a \o b)[Len(a) + i] = b[i]
<1>1. Len(a) \in Nat /\ Len(b) \in Nat
  OBVIOUS
<1> QED BY <1>1, ConcatProperties

\* A key is four bytes.
LEMMA KeyFacts ==
  ASSUME NEW key \in MaskKeys
  PROVE  key \in Seq(Byte) /\ Len(key) = 4
<1>1. PICK a \in Byte, b \in Byte, c \in Byte, d \in Byte :
        key = <<a, b, c, d>>
  BY DEF MaskKeys
<1> QED BY <1>1

\* The two kinds of frames, byte by byte.
LEMMA ServerFrameIs ==
  ASSUME FramesAssumption, NEW p \in Payloads
  PROVE  LET f == LengthField(Len(p), 0)
             c == ServerFrame(p)
         IN  /\ IsField(f, Len(p), 0)
             /\ c \in Seq(Byte) /\ Len(c) = 1 + Len(f) + Len(p)
             /\ \A i \in 1 .. Len(f) : c[1 + i] = f[i]
             /\ \A i \in 1 .. Len(p) : c[1 + Len(f) + i] = p[i]
<1> DEFINE f == LengthField(Len(p), 0)
<1>1. p \in Seq(Byte) /\ Len(p) \in Nat /\ Len(p) < SizeMod
  BY PayloadFacts, SizeModType
<1>2. IsField(f, Len(p), 0)
  BY <1>1, FieldOf
<1>3. f \in Seq(Byte) /\ Len(f) \in Nat
  BY <1>2 DEF IsField
<1>4. <<TextFrame>> \in Seq(Byte) /\ Len(<<TextFrame>>) = 1
  <2>1. TextFrame \in Byte
    BY RadixFacts DEF TextFrame, Byte
  <2> QED BY <2>1
<1>5. ServerFrame(p) = (<<TextFrame>> \o f) \o p
  BY DEF ServerFrame
<1> HIDE DEF f
<1>6. PICK h \in Seq(Byte) : h = <<TextFrame>> \o f
  BY <1>3, <1>4, ConcatProperties
<1>7. /\ Len(h) = 1 + Len(f)
      /\ \A i \in 1 .. Len(f) : h[1 + i] = f[i]
  BY <1>3, <1>4, <1>6
<1>8. /\ h \o p \in Seq(Byte) /\ Len(h \o p) = 1 + Len(f) + Len(p)
      /\ \A i \in 1 .. Len(f) : (h \o p)[1 + i] = f[i]
      /\ \A i \in 1 .. Len(p) : (h \o p)[1 + Len(f) + i] = p[i]
  <2>1. PICK l \in Nat : l = 1 + Len(f)
    BY <1>3
  <2>2. \A i \in 1 .. Len(f) : 1 + i \in 1 .. Len(h)
    BY <1>3, <1>7
  <2>4. Len(h) = l /\ h \in Seq(Byte) /\ p \in Seq(Byte)
    BY <1>1, <1>7, <2>1
  <2>3. /\ h \o p \in Seq(Byte) /\ Len(h \o p) = l + Len(p)
        /\ \A i \in 1 .. Len(h) : (h \o p)[i] = h[i]
        /\ \A i \in 1 .. Len(p) : (h \o p)[l + i] = p[i]
    <3>1. /\ h \o p \in Seq(Byte) /\ Len(h \o p) = Len(h) + Len(p)
          /\ \A i \in 1 .. Len(h) : (h \o p)[i] = h[i]
          /\ \A i \in 1 .. Len(p) : (h \o p)[Len(h) + i] = p[i]
      BY <2>4, Joined
    <3> QED BY <2>4, <3>1
  <2> QED BY <1>7, <2>1, <2>2, <2>3
<1> QED BY <1>2, <1>5, <1>6, <1>8 DEF f

\* The frame of a client has the key behind the length, and is masked.
LEMMA ClientFrameIs ==
  ASSUME FramesAssumption, NEW p \in Payloads, NEW key \in MaskKeys
  PROVE  LET f == LengthField(Len(p), High)
             c == ClientFrame(p, key)
         IN  /\ IsField(f, Len(p), High)
             /\ c \in Seq(Byte) /\ Len(c) = 1 + Len(f) + 4 + Len(p)
             /\ \A i \in 1 .. Len(f) : c[1 + i] = f[i]
             /\ \A i \in 1 .. 4 : c[1 + Len(f) + i] = key[i]
             /\ \A i \in 1 .. Len(p) : c[1 + Len(f) + 4 + i]
                                         = ByteXor(p[i], key[((i - 1) % 4) + 1])
<1> DEFINE f == LengthField(Len(p), High)
           m == Masked(p, key)
<1>1. p \in Seq(Byte) /\ Len(p) \in Nat /\ Len(p) < SizeMod
  BY PayloadFacts, SizeModType
<1>2. IsField(f, Len(p), High)
  BY <1>1, FieldOf
<1>3. f \in Seq(Byte) /\ Len(f) \in Nat
  BY <1>2 DEF IsField
<1>4. <<TextFrame>> \in Seq(Byte) /\ Len(<<TextFrame>>) = 1
  <2>1. TextFrame \in Byte
    BY RadixFacts DEF TextFrame, Byte
  <2> QED BY <2>1
<1>5. key \in Seq(Byte) /\ Len(key) = 4
  BY KeyFacts
<1>6. /\ m \in Seq(Byte) /\ Len(m) = Len(p)
      /\ \A i \in 1 .. Len(p) : m[i] = ByteXor(p[i], key[((i - 1) % 4) + 1])
  <2>1. \A i \in 1 .. Len(p) : ByteXor(p[i], key[((i - 1) % 4) + 1]) \in Byte
    <3>1. TAKE i \in 1 .. Len(p)
    <3>2. p[i] \in Byte
      BY <1>1
    <3>3. ((i - 1) % 4) + 1 \in 1 .. 4
      <4>1. PICK j \in Nat : j = i - 1
        OBVIOUS
      <4>2. j % 4 \in 0 .. 3
        BY QuotientRemainder
      <4> QED BY <4>1, <4>2
    <3>4. key[((i - 1) % 4) + 1] \in Byte
      <4>1. PICK k \in 1 .. Len(key) : k = ((i - 1) % 4) + 1
        BY <3>3, <1>5
      <4>2. key[k] \in Byte
        BY <1>5, ElementOfSeq
      <4> QED BY <4>1, <4>2
    <3> QED BY <3>2, <3>4 DEF FramesAssumption
  <2>2. m = [i \in 1 .. Len(p) |-> ByteXor(p[i], key[((i - 1) % 4) + 1])]
    BY DEF Masked
  <2> HIDE DEF m
  <2> QED BY <1>1, <2>1, <2>2
<1>7. ClientFrame(p, key) = ((<<TextFrame>> \o f) \o key) \o m
  BY DEF ClientFrame
<1> HIDE DEF f, m
<1>8. PICK h \in Seq(Byte) : h = <<TextFrame>> \o f
  BY <1>3, <1>4, ConcatProperties
<1>9. /\ Len(h) = 1 + Len(f)
      /\ \A i \in 1 .. Len(f) : h[1 + i] = f[i]
  BY <1>3, <1>4, <1>8
<1>10. PICK g \in Seq(Byte) : g = h \o key
  BY <1>5, ConcatProperties
<1>11. /\ Len(g) = 1 + Len(f) + 4
       /\ \A i \in 1 .. Len(f) : g[1 + i] = f[i]
       /\ \A i \in 1 .. 4 : g[1 + Len(f) + i] = key[i]
  <2>1. PICK l \in Nat : l = 1 + Len(f)
    BY <1>3
  <2>2. \A i \in 1 .. Len(f) : 1 + i \in 1 .. Len(h)
    BY <1>3, <1>9
  <2>3. /\ Len(g) = l + 4
        /\ \A i \in 1 .. Len(h) : g[i] = h[i]
        /\ \A i \in 1 .. 4 : g[l + i] = key[i]
    <3>1. /\ Len(h \o key) = Len(h) + Len(key)
          /\ \A i \in 1 .. Len(h) : (h \o key)[i] = h[i]
          /\ \A i \in 1 .. Len(key) : (h \o key)[Len(h) + i] = key[i]
      BY <1>5, Joined
    <3> QED BY <1>5, <1>9, <1>10, <2>1, <3>1
  <2> QED BY <1>9, <2>1, <2>2, <2>3
<1>12. /\ g \o m \in Seq(Byte) /\ Len(g \o m) = 1 + Len(f) + 4 + Len(p)
       /\ \A i \in 1 .. Len(f) : (g \o m)[1 + i] = f[i]
       /\ \A i \in 1 .. 4 : (g \o m)[1 + Len(f) + i] = key[i]
       /\ \A i \in 1 .. Len(p) : (g \o m)[1 + Len(f) + 4 + i] = m[i]
  <2>1. PICK l \in Nat : l = 1 + Len(f)
    BY <1>3
  <2>2. /\ \A i \in 1 .. Len(f) : 1 + i \in 1 .. Len(g)
        /\ \A i \in 1 .. 4 : l + i \in 1 .. Len(g)
    BY <1>3, <1>11, <2>1
  <2>3. Len(g) = l + 4
    BY <1>11, <2>1
  <2>4. /\ g \o m \in Seq(Byte) /\ Len(g \o m) = l + 4 + Len(p)
        /\ \A i \in 1 .. Len(g) : (g \o m)[i] = g[i]
        /\ \A i \in 1 .. Len(p) : (g \o m)[l + 4 + i] = m[i]
    <3>1. /\ g \o m \in Seq(Byte) /\ Len(g \o m) = Len(g) + Len(m)
          /\ \A i \in 1 .. Len(g) : (g \o m)[i] = g[i]
          /\ \A i \in 1 .. Len(m) : (g \o m)[Len(g) + i] = m[i]
      BY <1>6, Joined
    <3> QED BY <1>6, <2>3, <3>1
  <2> QED BY <1>11, <2>1, <2>2, <2>4
<1> QED BY <1>2, <1>6, <1>7, <1>8, <1>10, <1>12 DEF f, m

\* The bytes b begin with those of c, or are the first of them.
Agree(b, c) ==
  \A i \in 1 .. Len(c) : i <= Len(b) => b[i] = c[i]

\* A reader takes a frame of the server apart, once it is there.
LEMMA DecodeServer ==
  ASSUME FramesAssumption, NEW p \in Payloads, NEW b \in Seq(Byte),
         Agree(b, ServerFrame(p))
  PROVE  Decode(b) = IF Len(b) < Len(ServerFrame(p)) THEN Failed
                     ELSE [failed |-> FALSE, payload |-> p]
<1> DEFINE f == LengthField(Len(p), 0)
           c == ServerFrame(p)
<1>1. /\ IsField(f, Len(p), 0)
      /\ c \in Seq(Byte) /\ Len(c) = 1 + Len(f) + Len(p)
      /\ \A i \in 1 .. Len(f) : c[1 + i] = f[i]
      /\ \A i \in 1 .. Len(p) : c[1 + Len(f) + i] = p[i]
  BY ServerFrameIs
<1>2. p \in Seq(Byte) /\ Len(p) \in Nat /\ Len(p) + 14 < SizeMod
  BY PayloadFacts
<1>3. f \in Seq(Byte) /\ Len(f) \in Nat /\ Len(f) >= 1 /\ Len(b) \in Nat
  BY <1>1 DEF IsField, Extra
<1> HIDE DEF f, c
<1>4. CASE Len(b) < 2
  BY <1>1, <1>2, <1>3, <1>4 DEF Decode, c
<1>5. CASE Len(b) >= 2
  <2>1. b[2] = f[1]
    <3>1. 1 \in 1 .. Len(f) /\ 1 + 1 = 2 /\ 2 \in 1 .. Len(c)
      BY <1>1, <1>2, <1>3
    <3>2. c[2] = f[1]
      BY <1>1, <3>1
    <3> QED BY <3>1, <3>2, <1>5 DEF Agree, c
  <2>2. Len(b) >= 1 + Len(f) => \A i \in 2 .. Len(f) : b[1 + i] = f[i]
    <3> SUFFICES ASSUME Len(b) >= 1 + Len(f), NEW i \in 2 .. Len(f)
                 PROVE  b[1 + i] = f[i]
      OBVIOUS
    <3>1. 1 + i \in 1 .. Len(c) /\ 1 + i <= Len(b) /\ i \in 1 .. Len(f)
      BY <1>1, <1>2, <1>3
    <3>2. b[1 + i] = c[1 + i]
      BY <3>1 DEF Agree, c
    <3> QED BY <3>1, <3>2, <1>1
  <2>3. 0 # High /\ 0 \in {0, High}
    BY RadixFacts
  <2>4. StartOf(f, 0) = 1 + Len(f)
    BY <2>3 DEF StartOf
  <2> DEFINE start == StartOf(f, 0)
  <2>5. Decode(b) =
          IF Len(b) < start + Len(p) THEN Failed
          ELSE [failed |-> FALSE,
                payload |-> [i \in 1 .. Len(p) |->
                  IF 0 = High
                    THEN ByteXor(b[start + i], b[start - 4 + 1 + ((i - 1) % 4)])
                    ELSE b[start + i]]]
    BY <1>1, <1>2, <1>5, <2>1, <2>2, <2>3, DecodeIs
  <2> HIDE DEF start
  <2>6. Decode(b) =
          IF Len(b) < start + Len(p) THEN Failed
          ELSE [failed |-> FALSE,
                payload |-> [i \in 1 .. Len(p) |-> b[start + i]]]
    BY <2>3, <2>5
  <2>7. start + Len(p) = Len(c)
    BY <1>1, <2>4 DEF start
  <2>8. ASSUME ~(Len(b) < Len(c))
        PROVE  [i \in 1 .. Len(p) |-> b[start + i]] = p
    <3>1. \A i \in 1 .. Len(p) : b[start + i] = p[i]
      <4>1. TAKE i \in 1 .. Len(p)
      <4>2. start + i \in 1 .. Len(c) /\ start + i <= Len(b)
        BY <1>1, <1>2, <1>3, <2>4, <2>8 DEF start
      <4>3. b[start + i] = c[start + i]
        BY <4>2 DEF Agree, c
      <4>4. c[1 + Len(f) + i] = p[i]
        BY <1>1
      <4> QED BY <4>3, <4>4, <2>4 DEF start
    <3>2. p = [i \in 1 .. Len(p) |-> p[i]]
      BY <1>2
    <3> QED BY <3>1, <3>2
  <2> QED BY <2>6, <2>7, <2>8 DEF c
<1> QED BY <1>3, <1>4, <1>5

\* ClientToServerPacket takes a frame of a client apart, once it is there.
LEMMA DecodeClient ==
  ASSUME FramesAssumption, NEW p \in Payloads, NEW key \in MaskKeys,
         NEW b \in Seq(Byte), Agree(b, ClientFrame(p, key))
  PROVE  Decode(b) = IF Len(b) < Len(ClientFrame(p, key)) THEN Failed
                     ELSE [failed |-> FALSE, payload |-> p]
<1> DEFINE f == LengthField(Len(p), High)
           c == ClientFrame(p, key)
<1>1. /\ IsField(f, Len(p), High)
      /\ c \in Seq(Byte) /\ Len(c) = 1 + Len(f) + 4 + Len(p)
      /\ \A i \in 1 .. Len(f) : c[1 + i] = f[i]
      /\ \A i \in 1 .. 4 : c[1 + Len(f) + i] = key[i]
      /\ \A i \in 1 .. Len(p) : c[1 + Len(f) + 4 + i]
                                  = ByteXor(p[i], key[((i - 1) % 4) + 1])
  BY ClientFrameIs
<1>2. p \in Seq(Byte) /\ Len(p) \in Nat /\ Len(p) + 14 < SizeMod
  BY PayloadFacts
<1>3. f \in Seq(Byte) /\ Len(f) \in Nat /\ Len(f) >= 1 /\ Len(b) \in Nat
  BY <1>1 DEF IsField, Extra
<1>4. key \in Seq(Byte) /\ Len(key) = 4
  BY KeyFacts
<1> HIDE DEF f, c
<1>5. CASE Len(b) < 2
  BY <1>1, <1>2, <1>3, <1>5 DEF Decode, c
<1>6. CASE Len(b) >= 2
  <2>1. b[2] = f[1]
    <3>1. 1 \in 1 .. Len(f) /\ 1 + 1 = 2 /\ 2 \in 1 .. Len(c)
      BY <1>1, <1>2, <1>3
    <3>2. c[2] = f[1]
      BY <1>1, <3>1
    <3> QED BY <3>1, <3>2, <1>6 DEF Agree, c
  <2>2. Len(b) >= 1 + Len(f) => \A i \in 2 .. Len(f) : b[1 + i] = f[i]
    <3> SUFFICES ASSUME Len(b) >= 1 + Len(f), NEW i \in 2 .. Len(f)
                 PROVE  b[1 + i] = f[i]
      OBVIOUS
    <3>1. 1 + i \in 1 .. Len(c) /\ 1 + i <= Len(b) /\ i \in 1 .. Len(f)
      BY <1>1, <1>2, <1>3
    <3>2. b[1 + i] = c[1 + i]
      BY <3>1 DEF Agree, c
    <3> QED BY <3>1, <3>2, <1>1
  <2>3. StartOf(f, High) = 1 + Len(f) + 4
    BY DEF StartOf
  <2> DEFINE start == StartOf(f, High)
  <2>4. Decode(b) =
          IF Len(b) < start + Len(p) THEN Failed
          ELSE [failed |-> FALSE,
                payload |-> [i \in 1 .. Len(p) |->
                  IF High = High
                    THEN ByteXor(b[start + i], b[start - 4 + 1 + ((i - 1) % 4)])
                    ELSE b[start + i]]]
    BY <1>1, <1>2, <1>6, <2>1, <2>2, DecodeIs
  <2> HIDE DEF start
  <2>5. Decode(b) =
          IF Len(b) < start + Len(p) THEN Failed
          ELSE [failed |-> FALSE,
                payload |-> [i \in 1 .. Len(p) |->
                  ByteXor(b[start + i], b[start - 4 + 1 + ((i - 1) % 4)])]]
    BY <2>4
  <2>6. start + Len(p) = Len(c) /\ start = 1 + Len(f) + 4
    BY <1>1, <2>3 DEF start
  <2>7. ASSUME ~(Len(b) < Len(c))
        PROVE  [i \in 1 .. Len(p) |->
                  ByteXor(b[start + i], b[start - 4 + 1 + ((i - 1) % 4)])] = p
    <3>1. \A i \in 1 .. Len(p) :
            ByteXor(b[start + i], b[start - 4 + 1 + ((i - 1) % 4)]) = p[i]
      <4>1. TAKE i \in 1 .. Len(p)
      <4>2. PICK k \in 1 .. 4 : k = ((i - 1) % 4) + 1
        <5>1. ((i - 1) % 4) + 1 \in 1 .. 4
          BY <1>2
        <5> QED BY <5>1
      <4>3. /\ start + i \in 1 .. Len(c) /\ start + i <= Len(b)
            /\ start - 4 + 1 + ((i - 1) % 4) = 1 + Len(f) + k
            /\ 1 + Len(f) + k \in 1 .. Len(c) /\ 1 + Len(f) + k <= Len(b)
        <5>1. start - 4 + 1 + ((i - 1) % 4) = 1 + Len(f) + k
          BY <1>2, <1>3, <2>6, <4>2
        <5> HIDE DEF f
        <5>4. PICK lc \in Nat, lb \in Nat, lf \in Nat, lp \in Nat :
                /\ lc = Len(c) /\ lb = Len(b) /\ lf = Len(f) /\ lp = Len(p)
                /\ start + lp = lc /\ start = 1 + lf + 4 /\ ~(lb < lc)
          BY <1>1, <1>2, <1>3, <2>6, <2>7
        <5>2. start + i \in 1 .. lc /\ start + i <= lb
          BY ONLY i \in 1 .. Len(p), <5>4
        <5>3. 1 + lf + k \in 1 .. lc /\ 1 + lf + k <= lb
          BY ONLY k \in 1 .. 4, <5>4
        <5> QED BY ONLY <5>1, <5>2, <5>3, <5>4
      <4>4. b[start + i] = ByteXor(p[i], key[k])
        <5>1. b[start + i] = c[start + i]
          BY <4>3 DEF Agree, c
        <5>2. c[1 + Len(f) + 4 + i] = ByteXor(p[i], key[((i - 1) % 4) + 1])
          BY <1>1
        <5> QED BY <5>1, <5>2, <2>6, <4>2
      <4>5. b[1 + Len(f) + k] = key[k]
        <5>1. b[1 + Len(f) + k] = c[1 + Len(f) + k]
          BY <4>3 DEF Agree, c
        <5> QED BY <5>1, <1>1
      <4>6. p[i] \in Byte /\ key[k] \in Byte
        <5>1. p[i] \in Byte
          BY <1>2
        <5>2. k \in 1 .. Len(key)
          BY <1>4
        <5>3. key[k] \in Byte
          BY <1>4, <5>2, ElementOfSeq
        <5> QED BY <5>1, <5>3
      <4>7. ByteXor(ByteXor(p[i], key[k]), key[k]) = p[i]
        BY <4>6 DEF FramesAssumption
      <4> QED BY <4>3, <4>4, <4>5, <4>7
    <3>2. p = [i \in 1 .. Len(p) |-> p[i]]
      BY <1>2
    <3> QED BY <3>1, <3>2
  <2> QED BY <2>5, <2>6, <2>7 DEF c
<1> QED BY <1>3, <1>5, <1>6

\* What was put into a frame is taken out of it, by the server and by a
\* client; no part of a frame is taken for one (convertToPacket and
\* ClientToServerPacket).
THEOREM FramesRoundTrip ==
  ASSUME FramesAssumption, NEW p \in Payloads, NEW key \in MaskKeys,
         NEW rest \in Seq(Byte)
  PROVE  RoundTrip(p, key, rest)
<1> DEFINE c == ClientFrame(p, key)
           s == ServerFrame(p)
<1>1. c \in Seq(Byte) /\ s \in Seq(Byte)
  BY ClientFrameIs, ServerFrameIs
<1> HIDE DEF c, s
<1>2. Decode(c \o rest) = [failed |-> FALSE, payload |-> p]
  <2>1. c \o rest \in Seq(Byte) /\ Len(c \o rest) = Len(c) + Len(rest)
    BY <1>1
  <2>2. Agree(c \o rest, c)
    BY <1>1 DEF Agree
  <2>3. ~(Len(c \o rest) < Len(c))
    BY <1>1, <2>1
  <2> QED BY <2>1, <2>2, <2>3, DecodeClient DEF c
<1>3. Decode(s \o rest) = [failed |-> FALSE, payload |-> p]
  <2>1. s \o rest \in Seq(Byte) /\ Len(s \o rest) = Len(s) + Len(rest)
    BY <1>1
  <2>2. Agree(s \o rest, s)
    BY <1>1 DEF Agree
  <2>3. ~(Len(s \o rest) < Len(s))
    BY <1>1, <2>1
  <2> QED BY <2>1, <2>2, <2>3, DecodeServer DEF s
<1>4. ASSUME NEW cut \in 0 .. Len(c) - 1
      PROVE  Decode(SubSeq(c, 1, cut)) = Failed
  <2>1. /\ SubSeq(c, 1, cut) \in Seq(Byte) /\ Len(SubSeq(c, 1, cut)) = cut
        /\ \A i \in 1 .. cut : SubSeq(c, 1, cut)[i] = c[i]
    BY <1>1
  <2>2. Agree(SubSeq(c, 1, cut), c)
    BY <2>1 DEF Agree
  <2>3. cut < Len(c)
    BY <1>1
  <2> QED BY <2>1, <2>2, <2>3, DecodeClient DEF c
<1> QED BY <1>2, <1>3, <1>4 DEF RoundTrip, c, s

-----------------------------------------------------------------------------
(* What a client makes of a stream *)

\* The places from m on that a client reads from, as a function.
Reads(f, bytes, m) ==
  f = [at \in m .. Len(bytes) |->
         IF WholeFrame(Behind(bytes, at)) = 0 THEN <<>>
         ELSE <<Decode(Behind(bytes, at)).payload>>
                \o f[at + WholeFrame(Behind(bytes, at))]]

\* The value of the first bytes, for each number of them, as a function.
Adds(f, bytes, k) ==
  f = [i \in 0 .. k |-> IF i = 0 THEN 0 ELSE f[i - 1] * Radix + bytes[i]]

\* There is a function that adds bytes up.
LEMMA AddsExist ==
  ASSUME NEW bytes, NEW k \in Nat
  PROVE  \E f : Adds(f, bytes, k)
<1> DEFINE Good == {j \in Nat : \E f : Adds(f, bytes, j)}
<1>1. SUFFICES ASSUME k \notin Good PROVE FALSE
  OBVIOUS
<1>2. PICK j \in 0 .. k : j \notin Good /\ \A i \in 0 .. j - 1 : i \in Good
  <2> HIDE DEF Good
  <2> QED BY <1>1, FirstFailure
<1>3. CASE j = 0
  <2>1. Adds([i \in 0 .. 0 |-> 0], bytes, 0)
    BY DEF Adds
  <2> QED BY <1>2, <1>3, <2>1
<1>4. CASE j > 0
  <2>1. PICK f : Adds(f, bytes, j - 1)
    BY <1>2, <1>4
  <2> DEFINE g == [i \in 0 .. j |-> IF i = j THEN f[j - 1] * Radix + bytes[j]
                                    ELSE f[i]]
  <2>2. \A i \in 0 .. j - 1 : f[i] = IF i = 0 THEN 0
                                     ELSE f[i - 1] * Radix + bytes[i]
    BY <2>1 DEF Adds
  <2>3. \A i \in 0 .. j : g[i] = IF i = 0 THEN 0
                                 ELSE g[i - 1] * Radix + bytes[i]
    BY <1>2, <1>4, <2>2
  <2>4. Adds(g, bytes, j)
    BY <2>3 DEF Adds
  <2> QED BY <1>2, <2>4
<1> QED BY <1>2, <1>3, <1>4

\* Bytes are read as a number.
LEMMA ValueType ==
  ASSUME FramesAssumption, NEW bytes \in Seq(Byte)
  PROVE  Value(bytes) \in Nat
<1>1. PICK k \in Nat : k = Len(bytes)
  OBVIOUS
<1>2. k \in 0 .. k /\ Radix \in Nat /\ \A i \in 1 .. k : bytes[i] \in Nat
  BY <1>1, RadixFacts DEF Byte
<1>3. PICK v : Adds(v, bytes, k) /\ Value(bytes) = v[k]
  <2> DEFINE c == CHOOSE g : g = [i \in 0 .. Len(bytes) |->
                                IF i = 0 THEN 0 ELSE g[i - 1] * Radix + bytes[i]]
  <2>1. Adds(c, bytes, k)
    BY <1>1, AddsExist DEF Adds
  <2>2. Value(bytes) = c[k]
    BY <1>1 DEF Value
  <2> QED BY <2>1, <2>2
<1> DEFINE Good == {j \in Nat : v[j] \in Nat}
<1>4. SUFFICES ASSUME k \notin Good PROVE FALSE
  BY <1>3
<1>5. PICK j \in 0 .. k : j \notin Good /\ \A i \in 0 .. j - 1 : i \in Good
  <2> HIDE DEF Good
  <2> QED BY <1>2, <1>4, FirstFailure
<1>6. v[j] = IF j = 0 THEN 0 ELSE v[j - 1] * Radix + bytes[j]
  BY <1>3 DEF Adds
<1>7. v[j] \in Nat
  <2>1. CASE j = 0
    BY <1>6, <2>1
  <2>2. CASE j > 0
    <3>1. PICK a \in Nat : a = v[j - 1]
      BY <1>5, <2>2
    <3>2. PICK b \in Nat : b = bytes[j]
      BY <1>2, <2>2
    <3>3. PICK r \in Nat : r = Radix
      BY <1>2
    <3>4. a * r + b \in Nat
      OBVIOUS
    <3> QED BY <1>6, <2>2, <3>1, <3>2, <3>3, <3>4
  <2> QED BY <2>1, <2>2
<1> QED BY <1>5, <1>7

\* The bytes behind a place.
LEMMA BehindIs ==
  ASSUME NEW bytes \in Seq(Byte), NEW at \in 0 .. Len(bytes)
  PROVE  /\ Behind(bytes, at) \in Seq(Byte)
         /\ Len(Behind(bytes, at)) = Len(bytes) - at
         /\ \A i \in 1 .. Len(bytes) - at : Behind(bytes, at)[i] = bytes[at + i]
<1>1. Len(bytes) \in Nat /\ \A i \in 1 .. Len(bytes) : bytes[i] \in Byte
  OBVIOUS
<1>2. at + 1 \in Int /\ Len(bytes) \in Int
  BY <1>1
<1>3. \A i \in at + 1 .. Len(bytes) : bytes[i] \in Byte
  BY <1>1
<1> QED BY <1>1, <1>2, <1>3, SubSeqProperties DEF Behind

\* A frame that is whole lies within the bytes.
LEMMA WholeFrameType ==
  ASSUME FramesAssumption, NEW bytes \in Seq(Byte)
  PROVE  WholeFrame(bytes) \in 0 .. Len(bytes)
<1>1. Len(bytes) \in Nat /\ \A i \in 1 .. Len(bytes) : bytes[i] \in Nat
  BY RadixFacts DEF Byte
<1>2. FrameLength(bytes) \in Nat
  <2>1. CASE Len(bytes) < 2
    BY <2>1 DEF FrameLength
  <2>2. CASE ~(Len(bytes) < 2)
    <3>1. PICK e \in {0, 2, 8} : e = Extra(bytes[2])
      BY DEF Extra
    <3>2. bytes[2] \in Nat
      BY <1>1, <2>2
    <3>3. CASE Len(bytes) < 2 + e
      BY <2>2, <3>1, <3>2, <3>3 DEF FrameLength
    <3>4. CASE ~(Len(bytes) < 2 + e)
      <4>1. SubSeq(bytes, 3, 2 + e) \in Seq(Byte)
        <5>1. \A i \in 3 .. 2 + e : bytes[i] \in Byte
          BY <1>1, <3>4
        <5> QED BY <5>1, SubSeqProperties
      <4>2. Value(SubSeq(bytes, 3, 2 + e)) \in Nat
        BY <4>1, ValueType
      <4> QED BY <2>2, <3>1, <3>2, <3>4, <4>2 DEF FrameLength
    <3> QED BY <1>1, <3>3, <3>4
  <2> QED BY <2>1, <2>2
<1> QED BY <1>1, <1>2 DEF WholeFrame

\* There is a function that reads frame after frame: from the end on, and
\* then from one place before.
LEMMA ReadsExist ==
  ASSUME FramesAssumption, NEW bytes \in Seq(Byte), NEW k \in 0 .. Len(bytes)
  PROVE  \E f : Reads(f, bytes, Len(bytes) - k)
<1>0. Len(bytes) \in Nat /\ k \in Nat /\ k \in 0 .. k
  OBVIOUS
<1> DEFINE Good == {j \in Nat : \E f : Reads(f, bytes, Len(bytes) - j)}
<1>1. SUFFICES ASSUME k \notin Good PROVE FALSE
  BY <1>0
<1>2. PICK j \in 0 .. k : j \notin Good /\ \A i \in 0 .. j - 1 : i \in Good
  <2> HIDE DEF Good
  <2> QED BY <1>0, <1>1, FirstFailure
<1> DEFINE m == Len(bytes) - j
           n(at) == WholeFrame(Behind(bytes, at))
<1>3. m \in 0 .. Len(bytes)
  BY <1>0
<1>4. \A at \in 0 .. Len(bytes) : n(at) \in 0 .. Len(bytes) - at
  BY BehindIs, WholeFrameType
<1>5. PICK f : j > 0 => Reads(f, bytes, m + 1)
  <2>1. j > 0 => \E f : Reads(f, bytes, Len(bytes) - (j - 1))
    <3> SUFFICES ASSUME j > 0
                 PROVE  \E f : Reads(f, bytes, Len(bytes) - (j - 1))
      OBVIOUS
    <3>1. j - 1 \in 0 .. j - 1
      BY <1>0
    <3>2. j - 1 \in Good
      <4> HIDE DEF Good
      <4> QED BY <1>2, <3>1
    <3> QED BY <3>2
  <2>2. Len(bytes) - (j - 1) = m + 1
    BY <1>0
  <2> QED BY <2>1, <2>2
<1>6. \A at \in m + 1 .. Len(bytes) :
        f[at] = IF n(at) = 0 THEN <<>>
                ELSE <<Decode(Behind(bytes, at)).payload>> \o f[at + n(at)]
  <2>1. TAKE at \in m + 1 .. Len(bytes)
  <2>2. j > 0
    BY <1>0
  <2> QED BY <1>5, <2>2 DEF Reads
<1> DEFINE step(at, rest) ==
             IF n(at) = 0 THEN <<>>
             ELSE <<Decode(Behind(bytes, at)).payload>> \o rest
           g == [at \in m .. Len(bytes) |->
                   IF at = m THEN step(m, f[m + n(m)]) ELSE f[at]]
<1>7. \A at \in m .. Len(bytes) : g[at] = step(at, g[at + n(at)])
  <2>1. TAKE at \in m .. Len(bytes)
  <2>2. PICK q \in 0 .. Len(bytes) - at : q = n(at)
    BY <1>3, <1>4
  <2> HIDE DEF n
  <2>3. CASE at = m
    <3>1. g[at] = step(m, f[m + q])
      BY <2>2, <2>3, <1>3
    <3>2. q # 0 => g[at + q] = f[m + q]
      BY <2>2, <2>3, <1>3
    <3> QED BY <2>2, <2>3, <3>1, <3>2
  <2>4. CASE at # m
    <3>1. g[at] = f[at] /\ at \in m + 1 .. Len(bytes)
      BY <2>4, <1>3
    <3>2. f[at] = step(at, f[at + q])
      BY <1>3, <1>6, <2>2, <3>1
    <3>3. g[at + q] = f[at + q]
      BY <1>3, <2>2, <2>4
    <3> QED BY <2>2, <3>1, <3>2, <3>3
  <2> QED BY <2>3, <2>4
<1>8. Reads(g, bytes, m)
  <2>1. g = [at \in m .. Len(bytes) |-> g[at]]
    OBVIOUS
  <2> HIDE DEF g
  <2>2. g = [at \in m .. Len(bytes) |-> step(at, g[at + n(at)])]
    BY <1>7, <2>1
  <2> QED BY <2>2 DEF Reads
<1> QED BY <1>2, <1>8

\* MessagesIn is the first value of such a function.
LEMMA MessagesInIs ==
  ASSUME FramesAssumption, NEW bytes \in Seq(Byte)
  PROVE  \E f : Reads(f, bytes, 0) /\ MessagesIn(bytes) = f[0]
<1> DEFINE c == CHOOSE f : f =
                  [at \in 0 .. Len(bytes) |->
                     IF WholeFrame(Behind(bytes, at)) = 0 THEN <<>>
                     ELSE <<Decode(Behind(bytes, at)).payload>>
                            \o f[at + WholeFrame(Behind(bytes, at))]]
<1>1. Len(bytes) \in 0 .. Len(bytes) /\ Len(bytes) - Len(bytes) = 0
  OBVIOUS
<1>2. \E f : Reads(f, bytes, 0)
  BY <1>1, ReadsExist
<1>3. Reads(c, bytes, 0)
  BY <1>2 DEF Reads
<1>4. MessagesIn(bytes) = c[0]
  BY DEF MessagesIn
<1> QED BY <1>3, <1>4

\* The bytes behind the second one of a frame are those of its length.
LEMMA ServerFrameLength ==
  ASSUME FramesAssumption, NEW p \in Payloads, NEW b \in Seq(Byte),
         Agree(b, ServerFrame(p))
  PROVE  /\ Len(ServerFrame(p)) \in Nat /\ Len(ServerFrame(p)) >= 2
         /\ WholeFrame(b) = IF Len(b) < Len(ServerFrame(p)) THEN 0
                            ELSE Len(ServerFrame(p))
<1> DEFINE f == LengthField(Len(p), 0)
           c == ServerFrame(p)
<1>1. /\ IsField(f, Len(p), 0)
      /\ c \in Seq(Byte) /\ Len(c) = 1 + Len(f) + Len(p)
      /\ \A i \in 1 .. Len(f) : c[1 + i] = f[i]
  BY ServerFrameIs
<1>2. Len(p) \in Nat /\ Len(b) \in Nat
  BY PayloadFacts
<1> HIDE DEF f, c
<1>3. PICK len7 \in 0 .. High - 1 :
        /\ f \in Seq(Byte) /\ Len(f) = 1 + Extra(len7) /\ f[1] = 0 + len7
        /\ Len(p) = IF Extra(len7) = 0 THEN len7 ELSE Value(SubSeq(f, 2, Len(f)))
  BY <1>1 DEF IsField
<1>4. PICK e \in {0, 2, 8} : e = Extra(len7) /\ Len(f) = 1 + e
  BY <1>3 DEF Extra
<1>5. len7 \in Nat /\ f[1] = len7 /\ Len(c) = 2 + e + Len(p)
  BY <1>1, <1>2, <1>3, <1>4, RadixFacts
<1>6. CASE Len(b) < 2
  BY <1>2, <1>4, <1>5, <1>6 DEF WholeFrame, FrameLength, c
<1>7. CASE Len(b) >= 2
  <2>1. b[2] = len7
    <3>1. 1 \in 1 .. Len(f) /\ 1 + 1 = 2 /\ 2 \in 1 .. Len(c)
      BY <1>1, <1>2, <1>4, <1>5
    <3>2. c[2] = f[1]
      BY <1>1, <3>1
    <3> QED BY <3>1, <3>2, <1>5, <1>7 DEF Agree, c
  <2>2. CASE e = 0
    <3>1. FrameLength(b) = 2 + len7 /\ Len(p) = len7
      BY <1>2, <1>3, <1>4, <1>7, <2>1, <2>2 DEF FrameLength
    <3> QED BY <1>2, <1>5, <2>2, <3>1 DEF WholeFrame, c
  <2>3. CASE e # 0 /\ Len(b) < 2 + e
    <3>1. FrameLength(b) = 0
      BY <1>2, <1>4, <1>7, <2>1, <2>3 DEF FrameLength
    <3> QED BY <1>2, <1>4, <1>5, <2>3, <3>1 DEF WholeFrame, c
  <2>4. CASE e # 0 /\ ~(Len(b) < 2 + e)
    <3>1. \A i \in 1 .. e : b[2 + i] = f[1 + i]
      <4>1. TAKE i \in 1 .. e
      <4>2. 1 + i \in 1 .. Len(f) /\ 1 + (1 + i) = 2 + i
            /\ 2 + i \in 1 .. Len(c) /\ 2 + i <= Len(b)
        BY <1>2, <1>4, <1>5, <2>4
      <4>3. c[2 + i] = f[1 + i]
        BY <1>1, <4>2
      <4> QED BY <4>2, <4>3 DEF Agree, c
    <3>2. /\ Len(SubSeq(b, 3, 2 + e)) = e
          /\ SubSeq(b, 3, 2 + e) \in Seq(Byte)
          /\ \A i \in 1 .. e : SubSeq(b, 3, 2 + e)[i] = b[2 + i]
      BY <1>2, <1>4, <2>4
    <3>3. /\ Len(SubSeq(f, 2, 1 + e)) = e
          /\ SubSeq(f, 2, 1 + e) \in Seq(Byte)
          /\ \A i \in 1 .. e : SubSeq(f, 2, 1 + e)[i] = f[1 + i]
      BY <1>3, <1>4
    <3>4. SubSeq(b, 3, 2 + e) = SubSeq(f, 2, 1 + e)
      <4>1. SubSeq(b, 3, 2 + e) = [i \in 1 .. e |-> b[2 + i]]
        BY <3>2
      <4>2. SubSeq(f, 2, 1 + e) = [i \in 1 .. e |-> f[1 + i]]
        BY <3>3
      <4> QED BY <3>1, <4>1, <4>2
    <3>5. Value(SubSeq(b, 3, 2 + e)) = Len(p)
      BY <1>3, <1>4, <2>4, <3>4
    <3>6. FrameLength(b) = 2 + e + Len(p)
      BY <1>2, <1>4, <1>7, <2>1, <2>4, <3>5 DEF FrameLength
    <3> QED BY <1>2, <1>4, <1>5, <3>6 DEF WholeFrame, c
  <2> QED BY <1>2, <1>4, <2>2, <2>3, <2>4
<1> QED BY <1>2, <1>6, <1>7

\* The messages lie in the bytes one behind the other, each beginning where
\* the one before it ends, as far as they have arrived.
Laid(at, messages, bytes) ==
  /\ at \in [0 .. Len(messages) -> Nat]
  /\ at[0] = 0
  /\ \A i \in 1 .. Len(messages) :
       /\ at[i] = at[i - 1] + Len(ServerFrame(messages[i]))
       /\ \A j \in 1 .. Len(ServerFrame(messages[i])) :
            at[i - 1] + j <= Len(bytes) =>
              bytes[at[i - 1] + j] = ServerFrame(messages[i])[j]

\* Frames that lie one behind the other end in order.
LEMMA LaidOrder ==
  ASSUME FramesAssumption, NEW messages \in Seq(Payloads), NEW bytes,
         NEW at, Laid(at, messages, bytes), NEW n \in 0 .. Len(messages),
         NEW k \in 0 .. n
  PROVE  at[k] <= at[n]
<1>1. Len(messages) \in Nat /\ n \in Nat /\ k \in Nat
  OBVIOUS
<1> DEFINE Good == {j \in Nat : j < k \/ at[k] <= at[j]}
<1>2. SUFFICES ASSUME n \notin Good PROVE FALSE
  BY <1>1
<1>3. n \in 0 .. n
  BY <1>1
<1>4. PICK j \in 0 .. n : j \notin Good /\ \A i \in 0 .. j - 1 : i \in Good
  <2> HIDE DEF Good
  <2> QED BY <1>1, <1>2, <1>3, FirstFailure
<1>5. at[k] \in Nat /\ at[j] \in Nat
  <2>1. k \in 0 .. Len(messages) /\ j \in 0 .. Len(messages)
    BY <1>1
  <2> QED BY <2>1 DEF Laid
<1>6. CASE j = k
  BY <1>4, <1>5, <1>6
<1>7. CASE j > k
  <2>1. j - 1 \in 0 .. j - 1 /\ j \in 1 .. Len(messages) /\ ~(j - 1 < k)
    BY <1>1, <1>7
  <2>2. at[k] <= at[j - 1] /\ at[j - 1] \in Nat
    <3>1. at[k] <= at[j - 1]
      BY <1>4, <2>1
    <3>2. j - 1 \in 0 .. Len(messages)
      BY <2>1
    <3> QED BY <3>1, <3>2 DEF Laid
  <2>3. Len(ServerFrame(messages[j])) \in Nat
    <3>1. messages[j] \in Payloads
      BY <2>1
    <3> QED BY <3>1, ServerFrameIs
  <2>4. at[j] = at[j - 1] + Len(ServerFrame(messages[j]))
    BY <2>1 DEF Laid
  <2> QED BY <1>4, <1>5, <2>2, <2>3, <2>4
<1> QED BY <1>1, <1>4, <1>6, <1>7

\* A message before others.
LEMMA Prepended ==
  ASSUME NEW m \in Payloads, NEW g \in Seq(Payloads)
  PROVE  /\ <<m>> \o g \in Seq(Payloads) /\ Len(<<m>> \o g) = 1 + Len(g)
         /\ (<<m>> \o g)[1] = m
         /\ \A i \in 1 .. Len(g) : (<<m>> \o g)[1 + i] = g[i]
<1>1. PICK q \in Nat : q = Len(g)
  OBVIOUS
<1>2. PICK h : h = <<m>>
  OBVIOUS
<1>3. h \in Seq(Payloads) /\ Len(h) = 1 /\ h[1] = m
  BY <1>2
<1>4. /\ h \o g \in Seq(Payloads) /\ Len(h \o g) = 1 + q
      /\ \A i \in 1 .. 1 + q : (h \o g)[i] = IF i <= 1 THEN h[i] ELSE g[i - 1]
  <2>1. h \o g \in Seq(Payloads)
    BY <1>3
  <2>2. Len(h \o g) = Len(h) + Len(g)
    BY <1>3, ConcatProperties
  <2>3. \A i \in 1 .. Len(h) + Len(g) :
          (h \o g)[i] = IF i <= Len(h) THEN h[i] ELSE g[i - Len(h)]
    BY <1>3, ConcatProperties
  <2> QED BY <1>1, <1>3, <2>1, <2>2, <2>3
<1>5. \A i \in 1 .. q : 1 + i \in 1 .. 1 + q /\ ~(1 + i <= 1) /\ (1 + i) - 1 = i
  OBVIOUS
<1>6. \A i \in 1 .. q : (h \o g)[1 + i] = g[i]
  BY <1>4, <1>5
<1> QED BY <1>1, <1>2, <1>3, <1>4, <1>6

\* A beginning is a prefix.
LEMMA IsPrefixIs ==
  ASSUME NEW s, NEW t, Len(s) <= Len(t), Len(s) \in Nat, DOMAIN s = 1 .. Len(s),
         NEW r, s = r, r = SubSeq(t, 1, Len(s))
  PROVE  IsPrefix(s, t)
BY DEF IsPrefix

\* A client that reads whole frames gets the messages in order.
LEMMA MessagesAre ==
  ASSUME FramesAssumption, NEW messages \in Seq(Payloads),
         NEW bytes \in Seq(Byte), NEW at, Laid(at, messages, bytes),
         NEW n \in 0 .. Len(messages), at[n] <= Len(bytes),
         IF n = Len(messages) THEN Len(bytes) = at[n]
                              ELSE Len(bytes) < at[n + 1]
  PROVE  /\ Len(MessagesIn(bytes)) = n
         /\ IsPrefix(MessagesIn(bytes), messages)
         /\ n = Len(messages) => MessagesIn(bytes) = messages
<1>1. PICK l \in Nat : l = Len(messages) /\ n \in 0 .. l /\ n \in Nat
  OBVIOUS
<1>2. PICK size \in Nat : size = Len(bytes)
  OBVIOUS
<1>3. PICK f : Reads(f, bytes, 0) /\ MessagesIn(bytes) = f[0]
  BY MessagesInIs
<1>4. \A at1 \in 0 .. size :
        f[at1] = IF WholeFrame(Behind(bytes, at1)) = 0 THEN <<>>
                 ELSE <<Decode(Behind(bytes, at1)).payload>>
                        \o f[at1 + WholeFrame(Behind(bytes, at1))]
  BY <1>2, <1>3 DEF Reads
<1>5. \A k \in 0 .. n : at[k] \in 0 .. size
  <2>1. TAKE k \in 0 .. n
  <2>2. k \in 0 .. Len(messages)
    BY <1>1
  <2>3. at[k] \in Nat /\ at[n] \in Nat
    BY <1>1, <2>2 DEF Laid
  <2>4. at[k] <= at[n]
    BY LaidOrder
  <2> QED BY <1>1, <1>2, <2>3, <2>4
<1> DEFINE c(i) == ServerFrame(messages[i])
<1>6. ASSUME NEW k \in 0 .. n, k < l
      PROVE  LET b == Behind(bytes, at[k])
             IN  /\ b \in Seq(Byte) /\ Len(b) = size - at[k]
                 /\ Agree(b, c(k + 1)) /\ messages[k + 1] \in Payloads
                 /\ Len(c(k + 1)) \in Nat /\ Len(c(k + 1)) >= 2
                 /\ at[k + 1] = at[k] + Len(c(k + 1))
  <2> DEFINE b == Behind(bytes, at[k])
  <2>0. at[k] \in 0 .. Len(bytes)
    BY <1>2, <1>5
  <2>1. /\ b \in Seq(Byte) /\ Len(b) = size - at[k]
        /\ \A i \in 1 .. size - at[k] : b[i] = bytes[at[k] + i]
    BY <1>2, <2>0, BehindIs
  <2>2. k + 1 \in 1 .. Len(messages) /\ (k + 1) - 1 = k
    BY <1>1, <1>6
  <2>3. messages[k + 1] \in Payloads
    BY <2>2, ElementOfSeq
  <2>4. /\ at[k + 1] = at[k] + Len(c(k + 1))
        /\ \A j \in 1 .. Len(c(k + 1)) :
             at[k] + j <= Len(bytes) => bytes[at[k] + j] = c(k + 1)[j]
    BY <2>2 DEF Laid
  <2>5. c(k + 1) \in Seq(Byte) /\ Len(c(k + 1)) \in Nat
    BY <2>3, ServerFrameIs
  <2> HIDE DEF b, c
  <2>6. Agree(b, c(k + 1))
    <3>1. SUFFICES ASSUME NEW i \in 1 .. Len(c(k + 1)), i <= Len(b)
                   PROVE  b[i] = c(k + 1)[i]
      BY DEF Agree
    <3>2. i \in 1 .. size - at[k] /\ at[k] + i <= Len(bytes)
      BY <1>2, <2>0, <2>1, <2>5, <3>1
    <3> QED BY <2>1, <2>4, <3>2
  <2>7. Len(c(k + 1)) >= 2
    BY <2>1, <2>3, <2>6, ServerFrameLength DEF c
  <2> QED BY <2>1, <2>3, <2>4, <2>5, <2>6, <2>7 DEF b
<1>7. f[at[n]] = <<>>
  <2>1. WholeFrame(Behind(bytes, at[n])) = 0
    <3>1. CASE n = l
      <4>1. at[n] \in 0 .. Len(bytes) /\ at[n] = size
        BY <1>1, <1>2, <1>5, <3>1
      <4>2. /\ Behind(bytes, at[n]) \in Seq(Byte)
            /\ Len(Behind(bytes, at[n])) = Len(bytes) - at[n]
        BY <4>1, BehindIs
      <4>3. Len(Behind(bytes, at[n])) = 0
        BY <1>2, <4>1, <4>2
      <4> QED BY <4>2, <4>3, WholeFrameType
    <3>2. CASE n < l
      <4> DEFINE b == Behind(bytes, at[n])
      <4>1. /\ b \in Seq(Byte) /\ Len(b) = size - at[n]
            /\ Agree(b, c(n + 1)) /\ messages[n + 1] \in Payloads
            /\ Len(c(n + 1)) \in Nat
            /\ at[n + 1] = at[n] + Len(c(n + 1))
        BY <1>1, <1>6, <3>2
      <4>2. at[n] \in 0 .. size
        BY <1>1, <1>5
      <4> HIDE DEF b
      <4>3. WholeFrame(b) = IF Len(b) < Len(c(n + 1)) THEN 0 ELSE Len(c(n + 1))
        BY <4>1, ServerFrameLength
      <4>4. Len(b) < Len(c(n + 1))
        <5> HIDE DEF c
        <5> QED BY <1>1, <1>2, <3>2, <4>1, <4>2
      <4> QED BY <4>3, <4>4 DEF b
    <3> QED BY <1>1, <3>1, <3>2
  <2>2. at[n] \in 0 .. size
    BY <1>1, <1>5
  <2> QED BY <1>4, <2>1, <2>2
<1>8. ASSUME NEW k \in 0 .. n, k < n
      PROVE  f[at[k]] = <<messages[k + 1]>> \o f[at[k + 1]]
  <2> DEFINE b == Behind(bytes, at[k])
  <2>1. /\ b \in Seq(Byte) /\ Len(b) = size - at[k]
        /\ Agree(b, c(k + 1)) /\ messages[k + 1] \in Payloads
        /\ Len(c(k + 1)) \in Nat /\ Len(c(k + 1)) >= 2
        /\ at[k + 1] = at[k] + Len(c(k + 1))
    BY <1>1, <1>6, <1>8
  <2>2. at[k] \in 0 .. size /\ at[k + 1] \in 0 .. size
    BY <1>1, <1>5, <1>8
  <2> HIDE DEF b
  <2>3. ~(Len(b) < Len(c(k + 1)))
    <3> HIDE DEF c
    <3> QED BY <1>2, <2>1, <2>2
  <2>4. WholeFrame(b) = Len(c(k + 1))
    BY <2>1, <2>3, ServerFrameLength
  <2>5. Decode(b).payload = messages[k + 1]
    BY <2>1, <2>3, DecodeServer
  <2>6. PICK w \in Nat : w = Len(c(k + 1)) /\ w # 0
    BY <2>1
  <2> HIDE DEF c
  <2>7. f[at[k]] = IF WholeFrame(b) = 0 THEN <<>>
                   ELSE <<Decode(b).payload>> \o f[at[k] + WholeFrame(b)]
    BY <1>4, <2>2 DEF b
  <2>8. f[at[k]] = <<messages[k + 1]>> \o f[at[k] + w]
    BY <2>4, <2>5, <2>6, <2>7
  <2> QED BY <2>1, <2>6, <2>8
<1> HIDE DEF c
<1> DEFINE Rest(g, k) ==
             /\ g \in Seq(Payloads) /\ Len(g) = n - k
             /\ \A i \in 1 .. n - k : g[i] = messages[k + i]
           Good == {j \in Nat : j <= n => Rest(f[at[n - j]], n - j)}
<1>9. n \in Good
  <2>1. SUFFICES ASSUME n \notin Good PROVE FALSE
    OBVIOUS
  <2>2. n \in 0 .. n
    BY <1>1
  <2>3. PICK j \in 0 .. n : j \notin Good /\ \A i \in 0 .. j - 1 : i \in Good
    <3> HIDE DEF Good
    <3> QED BY <1>1, <2>1, <2>2, FirstFailure
  <2>9. PICK k \in 0 .. n : k = n - j /\ k \in Nat
    BY <1>1
  <2>4. CASE j = 0
    <3>1. k = n /\ n - k = 0
      BY <1>1, <2>4, <2>9
    <3>2. Rest(<<>>, n)
      BY <1>1, <3>1
    <3> HIDE DEF Rest
    <3> QED BY <1>7, <2>3, <2>9, <3>1, <3>2
  <2>5. CASE j > 0
    <3>1. k < n /\ k + 1 = n - (j - 1) /\ j - 1 \in 0 .. j - 1 /\ j - 1 <= n
          /\ k + 1 \in 0 .. n
      BY <1>1, <2>5, <2>9
    <3>2. PICK g : g = f[at[k + 1]] /\ Rest(g, k + 1)
      <4> HIDE DEF Rest
      <4> QED BY <2>3, <3>1
    <3>3. f[at[k]] = <<messages[k + 1]>> \o g
      BY <1>8, <3>1, <3>2
    <3>4. messages[k + 1] \in Payloads
      BY <1>1, <3>1, ElementOfSeq
    <3>5. PICK q \in Nat : n - k = 1 + q
      <4>1. (n - k) - 1 \in Nat /\ n - k = 1 + ((n - k) - 1)
        BY <1>1, <2>9, <3>1
      <4> QED BY <4>1
    <3>6. /\ g \in Seq(Payloads) /\ Len(g) = q
          /\ \A i \in 1 .. q : g[i] = messages[(k + 1) + i]
      <4>1. n - (k + 1) = q
        BY <1>1, <2>9, <3>5
      <4> QED BY <3>2, <4>1
    <3>7. PICK r : r = <<messages[k + 1]>> \o g
      OBVIOUS
    <3>8. /\ r \in Seq(Payloads) /\ Len(r) = 1 + q /\ r[1] = messages[k + 1]
          /\ \A i \in 1 .. q : r[1 + i] = g[i]
      BY <3>4, <3>6, <3>7, Prepended
    <3>9. \A i \in 1 .. 1 + q : r[i] = messages[k + i]
      <4>1. TAKE i \in 1 .. 1 + q
      <4>2. CASE i = 1
        BY <3>8, <4>2
      <4>3. CASE i > 1
        <5>1. i - 1 \in 1 .. q /\ (k + 1) + (i - 1) = k + i /\ 1 + (i - 1) = i
          BY <2>9, <4>3
        <5>2. r[i] = g[i - 1]
          BY <3>8, <5>1
        <5>3. g[i - 1] = messages[k + i]
          BY <3>6, <5>1
        <5> QED BY <5>2, <5>3
      <4> QED BY <4>2, <4>3
    <3>11. f[at[k]] = r
      BY <3>3, <3>7
    <3>10. Rest(f[at[k]], k)
      BY <3>5, <3>8, <3>9, <3>11
    <3> HIDE DEF Rest
    <3> QED BY <2>3, <2>9, <3>10
  <2> QED BY <2>3, <2>4, <2>5
<1>10. PICK r \in Seq(Payloads) :
         /\ r = MessagesIn(bytes) /\ Len(r) = n
         /\ \A i \in 1 .. n : r[i] = messages[i]
  <2>1. n - n = 0 /\ at[0] = 0 /\ \A i \in 1 .. n : n - n + i = i
    BY <1>1 DEF Laid
  <2> QED BY <1>1, <1>3, <1>9, <2>1
<1>11. IsPrefix(r, messages)
  <2>1. SubSeq(messages, 1, n) = [i \in 1 .. n |-> messages[i]]
    BY <1>1
  <2>2. r = [i \in 1 .. n |-> messages[i]]
    BY <1>10
  <2> QED BY <1>1, <1>10, <2>1, <2>2, IsPrefixIs
<1>12. n = Len(messages) => r = messages
  BY <1>10, SeqEqual
<1> QED BY <1>10, <1>11, <1>12

\* A frame of the server has at least two bytes, and its message in it.
LEMMA FrameBytes ==
  ASSUME FramesAssumption, NEW p \in Payloads
  PROVE  /\ ServerFrame(p) \in Seq(Byte) /\ Len(ServerFrame(p)) \in Nat
         /\ Len(ServerFrame(p)) >= 2 /\ ServerFrame(p) # <<>>
         /\ Decode(ServerFrame(p)).payload = p
<1>1. ServerFrame(p) \in Seq(Byte)
  BY ServerFrameIs
<1>2. Agree(ServerFrame(p), ServerFrame(p))
  BY DEF Agree
<1>3. Len(ServerFrame(p)) \in Nat /\ Len(ServerFrame(p)) >= 2
  BY <1>1, <1>2, ServerFrameLength
<1>4. Decode(ServerFrame(p)) = [failed |-> FALSE, payload |-> p]
  BY <1>1, <1>2, <1>3, DecodeServer
<1> QED BY <1>1, <1>3, <1>4

\* The places of the messages and of one more, which begins where the bytes
\* end.
Began(at2, at, messages, m, bytes) ==
  /\ Laid(at2, Append(messages, m), bytes)
  /\ at2[Len(messages)] = at[Len(messages)]
  /\ at2[Len(messages) + 1] = at[Len(messages)] + Len(ServerFrame(m))

\* Nothing of the next message has been sent yet when the last is whole.
LEMMA LaidBegins ==
  ASSUME FramesAssumption, NEW messages \in Seq(Payloads), NEW bytes \in Seq(Byte),
         NEW at, Laid(at, messages, bytes), NEW m \in Payloads,
         at[Len(messages)] = Len(bytes)
  PROVE  \E at2 : Began(at2, at, messages, m, bytes)
<1>0. PICK k \in Nat : k = Len(messages) /\ at[k] = Len(bytes)
  OBVIOUS
<1> DEFINE more == Append(messages, m)
           at2 == [i \in 0 .. k + 1 |->
                     IF i = k + 1 THEN at[k] + Len(ServerFrame(m)) ELSE at[i]]
<1>1. /\ more \in Seq(Payloads) /\ Len(more) = k + 1 /\ more[k + 1] = m
      /\ \A i \in 1 .. k : more[i] = messages[i]
  BY <1>0
<1>2. /\ at \in [0 .. k -> Nat] /\ at[0] = 0
      /\ \A i \in 1 .. k :
           /\ at[i] = at[i - 1] + Len(ServerFrame(messages[i]))
           /\ \A j \in 1 .. Len(ServerFrame(messages[i])) :
                at[i - 1] + j <= Len(bytes) =>
                  bytes[at[i - 1] + j] = ServerFrame(messages[i])[j]
  BY <1>0 DEF Laid
<1>3. Len(ServerFrame(m)) \in Nat
  BY FrameBytes
<1>4. at2 \in [0 .. k + 1 -> Nat] /\ at2[0] = 0 /\ at2[k] = at[k]
      /\ at2[k + 1] = at[k] + Len(ServerFrame(m))
  BY <1>2, <1>3
<1>5. \A i \in 1 .. k : at2[i] = at[i] /\ at2[i - 1] = at[i - 1]
  OBVIOUS
<1> HIDE DEF more, at2
<1>6. ASSUME NEW i \in 1 .. k + 1
      PROVE  /\ at2[i] = at2[i - 1] + Len(ServerFrame(more[i]))
             /\ \A j \in 1 .. Len(ServerFrame(more[i])) :
                  at2[i - 1] + j <= Len(bytes) =>
                    bytes[at2[i - 1] + j] = ServerFrame(more[i])[j]
  <2>1. CASE i \in 1 .. k
    <3>1. /\ at2[i] = at[i] /\ at2[i - 1] = at[i - 1]
          /\ more[i] = messages[i]
      BY <1>1, <1>5, <2>1
    <3>2. /\ at[i] = at[i - 1] + Len(ServerFrame(messages[i]))
          /\ \A j \in 1 .. Len(ServerFrame(messages[i])) :
               at[i - 1] + j <= Len(bytes) =>
                 bytes[at[i - 1] + j] = ServerFrame(messages[i])[j]
      BY <1>2, <2>1
    <3> QED BY ONLY <3>1, <3>2
  <2>2. CASE i = k + 1
    <3>1. (k + 1) - 1 = k /\ at[k] \in Nat /\ at[k] = Len(bytes)
      BY <1>0, <1>2
    <3>2. at2[i - 1] = at[k] /\ more[i] = m
      BY <1>1, <1>4, <2>2, <3>1
    <3>3. \A j \in 1 .. Len(ServerFrame(m)) : ~(at[k] + j <= Len(bytes))
      BY <1>3, <3>1
    <3>4. at2[i] = at2[i - 1] + Len(ServerFrame(more[i]))
      BY <1>4, <2>2, <3>2
    <3> QED BY <3>2, <3>3, <3>4
  <2> QED BY <2>1, <2>2
<1>7. Laid(at2, more, bytes)
  BY <1>1, <1>4, <1>6 DEF Laid
<1> QED BY <1>0, <1>4, <1>7 DEF more, Began

\* More bytes of the last message.
LEMMA LaidGrows ==
  ASSUME FramesAssumption, NEW messages \in Seq(Payloads), NEW bytes \in Seq(Byte),
         NEW at, Laid(at, messages, bytes), NEW added \in Seq(Byte),
         NEW k \in Nat, k + 1 = Len(messages), NEW from \in Nat,
         Len(bytes) = at[k] + from,
         \A i \in 1 .. Len(added) :
           added[i] = ServerFrame(messages[k + 1])[from + i]
  PROVE  Laid(at, messages, bytes \o added)
<1> DEFINE all == bytes \o added
<1>1. PICK size \in Nat, more \in Nat : size = Len(bytes) /\ more = Len(added)
  OBVIOUS
<1>2. /\ all \in Seq(Byte) /\ Len(all) = size + more
      /\ \A i \in 1 .. size : all[i] = bytes[i]
      /\ \A i \in 1 .. more : all[size + i] = added[i]
  BY <1>1, Joined
<1> HIDE DEF all
<1>3. /\ at \in [0 .. Len(messages) -> Nat] /\ at[0] = 0
      /\ \A i \in 1 .. Len(messages) :
           /\ at[i] = at[i - 1] + Len(ServerFrame(messages[i]))
           /\ \A j \in 1 .. Len(ServerFrame(messages[i])) :
                at[i - 1] + j <= size =>
                  bytes[at[i - 1] + j] = ServerFrame(messages[i])[j]
  BY <1>1 DEF Laid
<1>4. ASSUME NEW i \in 1 .. Len(messages),
             NEW j \in 1 .. Len(ServerFrame(messages[i])),
             at[i - 1] + j <= size + more
      PROVE  all[at[i - 1] + j] = ServerFrame(messages[i])[j]
  <2>1. i - 1 \in 0 .. Len(messages) /\ k \in 0 .. Len(messages)
        /\ i \in 0 .. Len(messages)
    OBVIOUS
  <2>2. PICK a \in Nat : a = at[i - 1]
    BY <1>3, <2>1
  <2>3. PICK b \in Nat : b = at[k]
    BY <1>3, <2>1
  <2>4. CASE a + j <= size
    <3>1. a + j \in 1 .. size
      BY <2>4
    <3>2. all[a + j] = bytes[a + j]
      BY <1>2, <3>1
    <3>3. bytes[a + j] = ServerFrame(messages[i])[j]
      BY <1>3, <2>2, <2>4
    <3> QED BY ONLY <2>2, <3>2, <3>3
  <2>5. CASE ~(a + j <= size)
    <3>1. i = k + 1
      <4>1. SUFFICES ASSUME i <= k PROVE FALSE
        OBVIOUS
      <4>2. i \in 0 .. k
        BY <4>1
      <4>3. at[i] <= at[k]
        BY <2>1, <4>2, LaidOrder
      <4>4. messages[i] \in Payloads
        BY ElementOfSeq
      <4>5. Len(ServerFrame(messages[i])) \in Nat
        BY <4>4, FrameBytes
      <4>6. at[i] = a + Len(ServerFrame(messages[i]))
        BY <1>3, <2>2
      <4>7. PICK l \in Nat : /\ l = Len(ServerFrame(messages[i]))
                             /\ j <= l /\ j \in Nat
        BY <4>5
      <4>8. a + l <= b
        BY ONLY <2>3, <4>3, <4>6, <4>7
      <4>9. b <= size
        BY ONLY Len(bytes) = at[k] + from, from \in Nat, b \in Nat,
                <1>1, <2>3
      <4> QED BY ONLY a \in Nat, b \in Nat, size \in Nat, <2>5, <4>7, <4>8, <4>9
    <3>2. a = b /\ size = a + from
      <4>1. i - 1 = k
        BY <3>1
      <4>2. a = b
        BY <2>2, <2>3, <4>1
      <4>3. size = at[k] + from
        BY <1>1
      <4> QED BY <2>3, <4>2, <4>3
    <3>3. j - from \in 1 .. more /\ size + (j - from) = a + j
          /\ from + (j - from) = j
      BY <1>4, <2>2, <2>5, <3>2
    <3>4. all[a + j] = added[j - from]
      BY <1>2, <3>3
    <3>5. added[j - from] = ServerFrame(messages[k + 1])[j]
      BY <1>1, <3>3
    <3> QED BY <2>2, <3>1, <3>4, <3>5
  <2> QED BY <2>4, <2>5
<1>5. Laid(at, messages, all)
  BY <1>2, <1>3, <1>4 DEF Laid
<1> QED BY <1>5 DEF all

\* A sender has nothing to do, or is in the middle of a frame.
Sending(s) ==
  \/ frame[s] = <<>> /\ total[s] = 0
  \/ \E m \in Replies : frame[s] = ServerFrame(m) /\ total[s] < Len(frame[s])

\* The frames of the messages that were begun lie one behind the other, and
\* the last one alone may be on its way.
InOrder ==
  \E at :
    /\ Laid(at, started, stream)
    /\ \/ Len(stream) = at[Len(started)] /\ \A s \in Senders : total[s] = 0
       \/ /\ started # <<>>
          /\ \E s \in Senders :
               /\ total[s] > 0 /\ \A t \in Senders \ {s} : total[t] = 0
               /\ frame[s] = ServerFrame(started[Len(started)])
               /\ Len(stream) = at[Len(started) - 1] + total[s]

SenderInv ==
  /\ frame \in [Senders -> Seq(Byte)] /\ total \in [Senders -> Nat]
  /\ queue \in 0 .. Room /\ stream \in Seq(Byte) /\ started \in Seq(Replies)
  /\ mixed \in BOOLEAN /\ torn \in BOOLEAN
  /\ \A s \in Senders : Sending(s)
  /\ torn \/ mixed \/ InOrder

\* Replies are payloads.
LEMMA ReplyFacts ==
  ASSUME SenderAssumption, NEW messages \in Seq(Replies)
  PROVE  messages \in Seq(Payloads)
<1>1. Replies \subseteq Payloads
  BY DEF SenderAssumption
<1> QED BY <1>1

\* One ::send that takes bytes: it begins a frame where the last one ended,
\* or goes on with it.
LEMMA SendBytesKeeps ==
  ASSUME SenderAssumption, SenderInv, NEW s \in Senders, SendBytes(s)
  PROVE  SenderInv'
<1>0. /\ FramesAssumption /\ Room \in Nat /\ queue \in 0 .. Room
      /\ started \in Seq(Payloads)
  BY ReplyFacts DEF SenderAssumption, SenderInv
<1> DEFINE n == Least(Left(s), Room - queue)
           added == SubSeq(frame[s], total[s] + 1, total[s] + n)
<1>1. PICK m \in Replies : frame[s] = ServerFrame(m) /\ total[s] < Len(frame[s])
  BY DEF SenderInv, Sending, SendBytes, Idle
<1>2. m \in Payloads
  BY <1>1 DEF SenderAssumption
<1>3. PICK l \in Nat : l = Len(frame[s]) /\ l >= 2
  BY <1>0, <1>1, <1>2, FrameBytes
<1>4. PICK t \in Nat : t = total[s] /\ t < l
  BY <1>1, <1>3 DEF SenderInv
<1>5. PICK c \in Seq(Byte) :
        c = frame[s] /\ c = ServerFrame(m) /\ Decode(c).payload = m
  BY <1>0, <1>1, <1>2, FrameBytes
<1>6. n \in 1 .. l - t /\ n <= Room - queue
  <2>1. queue < Room /\ Left(s) = l - t
    BY <1>3, <1>4 DEF SendBytes, Left
  <2> QED BY <1>0, <1>4, <2>1 DEF Least
<1>7. /\ added \in Seq(Byte) /\ Len(added) = n
      /\ \A i \in 1 .. n : added[i] = c[t + i]
  <2> HIDE DEF n
  <2>1. Len(c) = l /\ t + n <= l /\ n \in Nat
    BY <1>3, <1>4, <1>5, <1>6
  <2>2. /\ SubSeq(c, t + 1, t + n) \in Seq(Byte)
        /\ Len(SubSeq(c, t + 1, t + n)) = n
        /\ \A i \in 1 .. n : SubSeq(c, t + 1, t + n)[i] = c[t + i]
    <3>1. t + 1 \in Int /\ t + n \in Int
          /\ \A i \in t + 1 .. t + n : i \in 1 .. Len(c)
      BY <1>6, <2>1
    <3>2. \A i \in t + 1 .. t + n : c[i] \in Byte
      BY <3>1, ElementOfSeq
    <3>3. PICK a \in Int, b \in Int : a = t + 1 /\ b = t + n
      BY <3>1
    <3>4. /\ SubSeq(c, a, b) \in Seq(Byte)
          /\ Len(SubSeq(c, a, b)) = IF a <= b THEN b - a + 1 ELSE 0
          /\ \A i \in 1 .. b - a + 1 : SubSeq(c, a, b)[i] = c[a + i - 1]
      BY <3>2, <3>3, SubSeqProperties
    <3>5. b - a + 1 = n /\ a <= b /\ \A i \in 1 .. n : a + i - 1 = t + i
      BY <1>6, <2>1, <3>3
    <3> QED BY <3>3, <3>4, <3>5
  <2> QED BY <1>4, <1>5, <2>2
<1>8. /\ stream' = stream \o added /\ queue' = queue + n
      /\ frame' = [frame EXCEPT ![s] = IF n = l - t THEN <<>> ELSE c]
      /\ total' = [total EXCEPT ![s] = IF n = l - t THEN 0 ELSE t + n]
      /\ started' = IF t > 0 THEN started ELSE Append(started, m)
      /\ mixed' = (mixed \/ \E u \in Senders \ {s} : total[u] > 0)
      /\ torn' = torn
  BY <1>3, <1>4, <1>5 DEF SendBytes, Left
<1> HIDE DEF n, added
<1>9. /\ stream' \in Seq(Byte) /\ started' \in Seq(Replies)
      /\ queue' \in 0 .. Room /\ mixed' \in BOOLEAN /\ torn' \in BOOLEAN
      /\ frame' \in [Senders -> Seq(Byte)] /\ total' \in [Senders -> Nat]
  <2>1. stream' \in Seq(Byte)
    BY <1>7, <1>8 DEF SenderInv
  <2>2. started' \in Seq(Replies)
    BY <1>1, <1>8 DEF SenderInv
  <2>3. queue' \in 0 .. Room
    BY <1>0, <1>6, <1>8
  <2>4. frame' \in [Senders -> Seq(Byte)]
    <3>1. (IF n = l - t THEN <<>> ELSE c) \in Seq(Byte)
      OBVIOUS
    <3> QED BY <1>8, <3>1 DEF SenderInv
  <2>5. total' \in [Senders -> Nat]
    <3>1. (IF n = l - t THEN 0 ELSE t + n) \in Nat
      BY <1>6
    <3> QED BY <1>8, <3>1 DEF SenderInv
  <2> QED BY <1>8, <2>1, <2>2, <2>3, <2>4, <2>5 DEF SenderInv
<1>10. ASSUME NEW u \in Senders PROVE Sending(u)'
  <2>1. CASE u = s /\ n = l - t
    BY <1>8, <2>1 DEF SenderInv, Sending
  <2>2. CASE u = s /\ n # l - t
    <3>1. frame'[s] = ServerFrame(m) /\ total'[s] < Len(frame'[s])
      <4>1. frame'[s] = c /\ total'[s] = t + n
        BY <1>8, <2>2 DEF SenderInv
      <4>2. t + n < l
        BY <1>6, <2>2
      <4> QED BY <1>3, <1>5, <4>1, <4>2
    <3> QED BY <2>2, <3>1 DEF Sending
  <2>3. CASE u # s
    BY <1>8, <2>3 DEF SenderInv, Sending
  <2> QED BY <2>1, <2>2, <2>3
<1>11. ASSUME ~torn', ~mixed' PROVE InOrder'
  <2>1. \A u \in Senders \ {s} : total[u] = 0
    <3>1. ~ \E u \in Senders \ {s} : total[u] > 0
      BY <1>8, <1>11
    <3>2. \A u \in Senders : total[u] \in Nat
      BY DEF SenderInv
    <3> QED BY <3>1, <3>2
  <2>2. \A u \in Senders \ {s} : total'[u] = 0
    BY <1>8, <2>1 DEF SenderInv
  <2>3. /\ total'[s] = IF n = l - t THEN 0 ELSE t + n
        /\ frame'[s] = IF n = l - t THEN <<>> ELSE c
    BY <1>8 DEF SenderInv
  <2>4. PICK at :
          /\ Laid(at, started, stream)
          /\ \/ Len(stream) = at[Len(started)] /\ \A u \in Senders : total[u] = 0
             \/ /\ started # <<>>
                /\ \E u \in Senders :
                     /\ total[u] > 0 /\ \A v \in Senders \ {u} : total[v] = 0
                     /\ frame[u] = ServerFrame(started[Len(started)])
                     /\ Len(stream) = at[Len(started) - 1] + total[u]
    BY <1>8, <1>11 DEF SenderInv, InOrder
  \* There is a place for the frame that the bytes belong to.
  <2>5. PICK k, at2 :
          /\ k \in Nat
          /\ Len(started') = k + 1 /\ started'[k + 1] = m
          /\ Laid(at2, started', stream)
          /\ Len(stream) = at2[k] + t
          /\ at2[k + 1] = at2[k] + l
    <3>1. CASE t = 0
      <4>1. PICK k \in Nat : k = Len(started)
        BY <1>0
      <4>2. at[k] = Len(stream)
        <5>1. \A u \in Senders : total[u] = 0
          BY <1>4, <2>1, <3>1
        <5> QED BY <2>4, <4>1, <5>1
      <4>3. PICK at2 : /\ Laid(at2, Append(started, m), stream)
                       /\ at2[k] = at[k]
                       /\ at2[k + 1] = at[k] + Len(ServerFrame(m))
        <5>1. stream \in Seq(Byte) /\ Laid(at, started, stream)
          BY <2>4 DEF SenderInv
        <5>2. PICK at2 : Began(at2, at, started, m, stream)
          BY <1>0, <1>2, <4>1, <4>2, <5>1, LaidBegins
        <5> QED BY <4>1, <5>2 DEF Began
      <4>4. started' = Append(started, m)
        BY <1>8, <3>1
      <4>5. Len(started') = k + 1 /\ started'[k + 1] = m
        BY <1>0, <4>1, <4>4
      <4>6. Len(stream) = at2[k] + t
        <5>1. Len(stream) \in Nat
          BY DEF SenderInv
        <5> QED BY <3>1, <4>2, <4>3, <5>1
      <4> QED BY <1>3, <1>5, <4>3, <4>4, <4>5, <4>6
    <3>2. CASE t > 0
      <4>1. /\ started # <<>>
            /\ frame[s] = ServerFrame(started[Len(started)])
            /\ Len(stream) = at[Len(started) - 1] + total[s]
        BY <1>4, <2>1, <2>4, <3>2
      <4>2. PICK k \in Nat : Len(started) = k + 1 /\ Len(started) - 1 = k
        <5>1. Len(started) - 1 \in Nat /\ Len(started) = (Len(started) - 1) + 1
          BY <1>0, <4>1
        <5> QED BY <5>1
      <4>3. started' = started
        BY <1>8, <3>2
      <4>4. started[k + 1] \in Payloads
        <5>1. k + 1 \in 1 .. Len(started)
          BY <4>2
        <5> QED BY <1>0, <5>1, ElementOfSeq
      <4>5. started[k + 1] = m
        BY <1>0, <1>5, <4>1, <4>2, <4>4, FrameBytes
      <4>6. at[k + 1] = at[k] + l
        <5>1. k + 1 \in 1 .. Len(started) /\ (k + 1) - 1 = k
          BY <4>2
        <5> QED BY <1>3, <1>5, <2>4, <4>5, <5>1 DEF Laid
      <4> QED BY <1>4, <2>4, <4>1, <4>2, <4>3, <4>5, <4>6
    <3> QED BY <3>1, <3>2
  <2>6. started' \in Seq(Payloads)
    BY <1>9, ReplyFacts
  <2>7. \A i \in 1 .. Len(added) : added[i] = ServerFrame(started'[k + 1])[t + i]
    BY <1>5, <1>7, <2>5
  <2>8. Laid(at2, started', stream')
    <3>1. stream \in Seq(Byte) /\ added \in Seq(Byte)
      BY <1>7 DEF SenderInv
    <3>2. PICK ms \in Seq(Payloads) : ms = started'
      BY <2>6
    <3>3. /\ Laid(at2, ms, stream) /\ k + 1 = Len(ms)
          /\ \A i \in 1 .. Len(added) : added[i] = ServerFrame(ms[k + 1])[t + i]
      BY <2>5, <2>7, <3>2
    <3>4. Laid(at2, ms, stream \o added)
      BY <1>0, <2>5, <3>1, <3>3, LaidGrows
    <3> QED BY <1>8, <3>2, <3>4
  <2>9. Len(stream') = at2[k] + (t + n)
    <3>1. Len(stream') = Len(stream) + n /\ n \in Nat
      <4>1. stream \in Seq(Byte)
        BY DEF SenderInv
      <4>2. Len(stream \o added) = Len(stream) + Len(added)
        BY <1>7, <4>1, Joined
      <4> QED BY <1>6, <1>7, <1>8, <4>2
    <3>2. at2[k] \in Nat
      <4>1. k \in 0 .. Len(started')
        BY <2>5
      <4> QED BY <2>8, <4>1 DEF Laid
    <3> QED BY <2>5, <3>1, <3>2
  <2>10. CASE n = l - t
    <3>1. Len(stream') = at2[Len(started')]
      BY <1>3, <1>4, <2>5, <2>9, <2>10
    <3>2. \A u \in Senders : total'[u] = 0
      BY <2>2, <2>3, <2>10
    <3> QED BY <2>8, <3>1, <3>2 DEF InOrder
  <2>11. CASE n # l - t
    <3>1. total'[s] > 0 /\ Len(stream') = at2[Len(started') - 1] + total'[s]
      BY <1>6, <2>3, <2>5, <2>9, <2>11
    <3>2. frame'[s] = ServerFrame(started'[Len(started')]) /\ started' # <<>>
      BY <1>5, <2>3, <2>5, <2>11
    <3> QED BY <2>2, <2>8, <3>1, <3>2 DEF InOrder
  <2> QED BY <2>10, <2>11
<1> QED BY <1>9, <1>10, <1>11 DEF SenderInv

\* What is in the stream stays there: a frame that is given up is torn only
\* when a part of it was sent.
LEMMA OtherStepsKeep ==
  ASSUME SenderAssumption, SenderInv, [SenderNext]_senderVars,
         ~ \E s \in Senders : SendBytes(s)
  PROVE  SenderInv'
<1>0. FramesAssumption /\ Room \in Nat
  BY DEF SenderAssumption
<1>1. ASSUME NEW s \in Senders, NEW m \in Replies, Send(s, m)
      PROVE  SenderInv'
  <2>1. m \in Payloads
    BY DEF SenderAssumption
  <2>2. /\ ServerFrame(m) \in Seq(Byte) /\ Len(ServerFrame(m)) \in Nat
        /\ Len(ServerFrame(m)) >= 2
    BY <1>0, <2>1, FrameBytes
  <2>3. frame[s] = <<>> /\ total[s] = 0
    <3>1. frame[s] = <<>>
      BY <1>1 DEF Send, Idle
    <3>2. \A r \in Replies : ServerFrame(r) # <<>>
      <4>1. TAKE r \in Replies
      <4>2. r \in Payloads
        BY DEF SenderAssumption
      <4> QED BY <1>0, <4>2, FrameBytes
    <3> QED BY <3>1, <3>2 DEF SenderInv, Sending
  <2>4. /\ frame' = [frame EXCEPT ![s] = ServerFrame(m)]
        /\ total' = [total EXCEPT ![s] = 0] /\ total' = total
        /\ UNCHANGED <<queue, stream, started, mixed, torn>>
    BY <1>1, <2>3 DEF Send, SenderInv
  <2>5. \A u \in Senders : Sending(u)'
    BY <2>2, <2>4 DEF SenderInv, Sending
  <2>6. frame' \in [Senders -> Seq(Byte)] /\ total' \in [Senders -> Nat]
    BY <2>2, <2>4 DEF SenderInv
  <2>7. InOrder => InOrder'
    <3>1. SUFFICES ASSUME InOrder PROVE InOrder'
      OBVIOUS
    <3>2. \A u \in Senders : total[u] > 0 => frame'[u] = frame[u]
      BY <2>3, <2>4 DEF SenderInv
    <3> QED BY <2>4, <3>1, <3>2 DEF InOrder
  <2> QED BY <2>4, <2>5, <2>6, <2>7 DEF SenderInv
<1>2. ASSUME NEW s \in Senders, SendAgain(s)
      PROVE  SenderInv'
  <2>1. /\ torn' = (torn \/ total[s] > 0)
        /\ frame' = [frame EXCEPT ![s] = <<>>]
        /\ total' = [total EXCEPT ![s] = 0]
        /\ UNCHANGED <<queue, stream, started, mixed>>
    BY <1>2 DEF SendAgain
  <2>2. \A u \in Senders : Sending(u)'
    BY <2>1 DEF SenderInv, Sending
  <2>3. frame' \in [Senders -> Seq(Byte)] /\ total' \in [Senders -> Nat]
    BY <2>1 DEF SenderInv
  <2>4. ASSUME ~torn', InOrder PROVE InOrder'
    <3>1. total[s] = 0
      <4>1. ~(total[s] > 0)
        BY <2>1, <2>4
      <4>2. total[s] \in Nat
        BY DEF SenderInv
      <4> QED BY <4>1, <4>2
    <3>2. /\ \A u \in Senders : total[u] > 0 => frame'[u] = frame[u]
          /\ total' = total
      BY <2>1, <3>1 DEF SenderInv
    <3> QED BY <2>1, <2>4, <3>2 DEF InOrder
  <2>5. torn' \in BOOLEAN
    BY <2>1
  <2> QED BY <2>1, <2>2, <2>3, <2>4, <2>5 DEF SenderInv
<1>3. ASSUME NEW n \in 1 .. Room, Drain(n) PROVE SenderInv'
  <2>1. /\ queue' \in 0 .. Room
        /\ UNCHANGED <<frame, total, stream, started, mixed, torn>>
    BY <1>0, <1>3 DEF Drain, SenderInv
  <2> QED BY <2>1 DEF SenderInv, Sending, InOrder
<1>4. CASE UNCHANGED senderVars
  BY <1>4 DEF senderVars, SenderInv, Sending, InOrder
<1> QED BY <1>1, <1>2, <1>3, <1>4 DEF SenderNext, SendStep

\* Nothing is sent at first.
LEMMA SenderStarts ==
  ASSUME SenderAssumption, SenderInit
  PROVE  SenderInv
<1> DEFINE at == [i \in 0 .. 0 |-> 0]
<1>1. Laid(at, started, stream)
  BY DEF Laid, SenderInit
<1>2. Len(stream) = at[Len(started)] /\ \A s \in Senders : total[s] = 0
  BY DEF SenderInit
<1>3. InOrder
  BY <1>1, <1>2 DEF InOrder
<1>4. Room \in Nat
  BY DEF SenderAssumption
<1>5. /\ frame \in [Senders -> Seq(Byte)] /\ total \in [Senders -> Nat]
      /\ \A s \in Senders : frame[s] = <<>> /\ total[s] = 0
  <2>1. <<>> \in Seq(Byte)
    OBVIOUS
  <2> QED BY <2>1 DEF SenderInit
<1>6. /\ queue \in 0 .. Room /\ stream \in Seq(Byte) /\ started \in Seq(Replies)
      /\ mixed \in BOOLEAN /\ torn \in BOOLEAN
  <2>1. queue = 0 /\ stream = <<>> /\ started = <<>> /\ ~mixed /\ ~torn
        /\ mixed = FALSE /\ torn = FALSE
    BY DEF SenderInit
  <2>2. <<>> \in Seq(Byte) /\ <<>> \in Seq(Replies)
    OBVIOUS
  <2>3. queue \in 0 .. Room
    BY <1>4, <2>1
  <2>4. stream \in Seq(Byte) /\ started \in Seq(Replies)
    BY <2>1, <2>2
  <2> QED BY <2>1, <2>3, <2>4
<1> QED BY <1>3, <1>5, <1>6 DEF SenderInv, Sending

\* A client that reads what lies in the stream in order gets the messages.
LEMMA SenderInvReceives ==
  ASSUME SenderAssumption, SenderInv
  PROVE  ClientReceives
<1>0. FramesAssumption /\ started \in Seq(Payloads) /\ stream \in Seq(Byte)
  BY ReplyFacts DEF SenderAssumption, SenderInv
<1>1. SenderTypeOK
  <2>1. ASSUME NEW s \in Senders PROVE total[s] \in 0 .. Len(frame[s])
    <3>1. frame[s] \in Seq(Byte) /\ Len(frame[s]) \in Nat /\ total[s] \in Nat
      BY DEF SenderInv
    <3> QED BY <3>1 DEF SenderInv, Sending
  <2> QED BY <2>1 DEF SenderInv, SenderTypeOK
<1>2. ASSUME InOrder
      PROVE  /\ IsPrefix(MessagesIn(stream), started)
             /\ Len(started) - Len(MessagesIn(stream)) <= 1
             /\ (\A s \in Senders : total[s] = 0) => MessagesIn(stream) = started
  <2>1. PICK at :
          /\ Laid(at, started, stream)
          /\ \/ Len(stream) = at[Len(started)] /\ \A s \in Senders : total[s] = 0
             \/ /\ started # <<>>
                /\ \E s \in Senders :
                     /\ total[s] > 0 /\ \A t \in Senders \ {s} : total[t] = 0
                     /\ frame[s] = ServerFrame(started[Len(started)])
                     /\ Len(stream) = at[Len(started) - 1] + total[s]
    BY <1>2 DEF InOrder
  <2>2. PICK k \in Nat : k = Len(started)
    BY <1>0
  <2>3. CASE Len(stream) = at[Len(started)] /\ \A s \in Senders : total[s] = 0
    <3>1. k \in 0 .. Len(started) /\ at[k] <= Len(stream)
      <4>1. Len(stream) \in Nat
        BY <1>0
      <4> QED BY <2>2, <2>3, <4>1
    <3>2. /\ Len(MessagesIn(stream)) = k
          /\ IsPrefix(MessagesIn(stream), started)
          /\ MessagesIn(stream) = started
      BY <1>0, <2>1, <2>2, <2>3, <3>1, MessagesAre
    <3> QED BY <2>2, <3>2
  <2>4. ASSUME started # <<>>, NEW s \in Senders, total[s] > 0,
               frame[s] = ServerFrame(started[Len(started)]),
               Len(stream) = at[Len(started) - 1] + total[s]
        PROVE  /\ IsPrefix(MessagesIn(stream), started)
               /\ Len(started) - Len(MessagesIn(stream)) <= 1
    <3>1. PICK n \in Nat : Len(started) = n + 1 /\ Len(started) - 1 = n
      <4>1. Len(started) - 1 \in Nat /\ Len(started) = (Len(started) - 1) + 1
        BY <1>0, <2>4
      <4> QED BY <4>1
    <3>2. n \in 0 .. Len(started) /\ n + 1 \in 1 .. Len(started)
          /\ (n + 1) - 1 = n
      BY <3>1
    <3>3. at[n] \in Nat /\ at[n + 1] = at[n] + Len(frame[s])
      BY <2>1, <2>4, <3>1, <3>2 DEF Laid
    <3>4. total[s] \in Nat /\ total[s] < Len(frame[s]) /\ Len(frame[s]) \in Nat
      BY <2>4 DEF SenderInv, Sending
    <3>5. at[n] <= Len(stream) /\ Len(stream) < at[n + 1] /\ n # Len(started)
      BY <2>4, <3>1, <3>3, <3>4
    <3>6. Len(MessagesIn(stream)) = n /\ IsPrefix(MessagesIn(stream), started)
      BY <1>0, <2>1, <3>2, <3>5, MessagesAre
    <3> QED BY <3>1, <3>6
  <2> QED BY <2>1, <2>3, <2>4
<1> QED BY <1>1, <1>2 DEF SenderInv, ClientReceives

\* Connection::send, for any numbers of senders and bytes of room: what the
\* client gets are the messages that were sent, whole and in order, unless a
\* frame was given up in the middle or mixed with another.
THEOREM ClientReceivesHolds ==
  SenderAssumption => (SenderSpec => []ClientReceives)
<1> SUFFICES ASSUME SenderAssumption PROVE SenderSpec => []ClientReceives
  OBVIOUS
<1>1. SenderInit => SenderInv
  BY SenderStarts
<1>2. SenderInv /\ [SenderNext]_senderVars => SenderInv'
  BY SendBytesKeeps, OtherStepsKeep
<1>3. SenderInv => ClientReceives
  BY SenderInvReceives
<1> QED BY <1>1, <1>2, <1>3, PTL DEF SenderSpec

-----------------------------------------------------------------------------
(* Reading frames *)

\* The bytes that no event has taken yet.
Unread == (IF pc = "recv" THEN data ELSE <<>>) \o inq \o wire

\* The frames of the messages that were sent lie one behind the other, and
\* those from the first unread byte on are still there.
Framed ==
  /\ parsed + Len(Unread) = Beginning(Len(sent) + 1)
  /\ \A i \in 1 .. Len(sent) :
       /\ ends[i] > Beginning(i)
       /\ Beginning(i) >= parsed =>
            \E key \in Keys :
              LET f == ClientFrame(sent[i], key)
              IN  /\ ends[i] = Beginning(i) + Len(f)
                  /\ \A j \in 1 .. Len(f) :
                       Unread[Beginning(i) - parsed + j] = f[j]

\* What was executed was sent, in that order, and lies before the unread
\* bytes; with single frames, it is all that lies there.
Delivered ==
  \E at \in Positions :
    /\ ExecutedAt(at)
    /\ \A k \in DOMAIN at : ends[at[k]] <= parsed
    /\ single => \A j \in 1 .. Len(sent) :
                   ends[j] <= parsed /\ sent[j] # <<>> => j \in Range(at)

ReaderTypes ==
  /\ wire \in Seq(Byte) /\ inq \in Seq(Byte) /\ data \in Seq(Byte)
  /\ pc \in {"wait", "recv"} /\ sent \in Seq(Commands)
  /\ ends \in Seq(Nat) /\ Len(ends) = Len(sent)
  /\ parsed \in Nat /\ boundary \in BOOLEAN /\ single \in BOOLEAN

AtBoundary ==
  /\ \E i \in 1 .. Len(sent) + 1 : parsed = Beginning(i)
  /\ executed \in Seq(Payloads)
  /\ Delivered

ReaderInv ==
  /\ ReaderTypes
  /\ pc = "recv" => Len(data) + Len(inq) > 0
  /\ Framed
  /\ single => boundary
  /\ boundary => AtBoundary

\* A step that moves bytes on without taking or adding any.
LEMMA BytesMove ==
  ASSUME ReaderInv, Unread' = Unread, ReaderTypes',
         UNCHANGED <<executed, sent, ends, parsed, boundary, single>>,
         (pc = "recv" => Len(data) + Len(inq) > 0)'
  PROVE  ReaderInv'
<1>1. \A i : Beginning(i)' = Beginning(i)
  BY DEF Beginning
<1>2. Framed'
  BY <1>1 DEF ReaderInv, Framed
<1>3. Delivered => Delivered'
  BY DEF Delivered, Positions, ExecutedAt
<1>4. AtBoundary => AtBoundary'
  BY <1>1, <1>3 DEF AtBoundary
<1> QED BY <1>2, <1>4 DEF ReaderInv

\* o associates.
LEMMA Associates ==
  ASSUME NEW a \in Seq(Byte), NEW b \in Seq(Byte), NEW c \in Seq(Byte)
  PROVE  (a \o b) \o c = a \o (b \o c)
BY ConcatAssociative

\* Bytes that are cut off at one place can be put back.
LEMMA Rejoined ==
  ASSUME NEW a \in Seq(Byte), NEW b \in Seq(Byte), NEW n \in 0 .. Len(b)
  PROVE  /\ SubSeq(b, 1, n) \in Seq(Byte) /\ Len(SubSeq(b, 1, n)) = n
         /\ SubSeq(b, n + 1, Len(b)) \in Seq(Byte)
         /\ Len(SubSeq(b, n + 1, Len(b))) = Len(b) - n
         /\ (a \o SubSeq(b, 1, n)) \o SubSeq(b, n + 1, Len(b)) = a \o b
<1>1. PICK l \in Nat : l = Len(b) /\ n \in 0 .. l /\ n \in Nat
  OBVIOUS
<1>2. \A i \in 1 .. l : b[i] \in Byte
  BY <1>1
<1>3. PICK x \in Seq(Byte) : /\ x = SubSeq(b, 1, n) /\ Len(x) = n
                             /\ \A i \in 1 .. n : x[i] = b[i]
  <2>1. SubSeq(b, 1, n) \in Seq(Byte) /\ Len(SubSeq(b, 1, n)) = n
    BY <1>1
  <2>2. \A i \in 1 .. n : SubSeq(b, 1, n)[i] = b[i]
    BY <1>1
  <2> QED BY <2>1, <2>2
<1>4. PICK y \in Seq(Byte) : /\ y = SubSeq(b, n + 1, l) /\ Len(y) = l - n
                             /\ \A i \in 1 .. l - n : y[i] = b[n + i]
  <2>1. PICK m \in Int : m = n + 1
    BY <1>1
  <2>2. \A i \in m .. l : b[i] \in Byte
    BY <1>1, <1>2, <2>1
  <2>3. /\ SubSeq(b, m, l) \in Seq(Byte)
        /\ Len(SubSeq(b, m, l)) = IF m <= l THEN l - m + 1 ELSE 0
        /\ \A i \in 1 .. l - m + 1 : SubSeq(b, m, l)[i] = b[m + i - 1]
    BY <1>1, <2>2, SubSeqProperties
  <2>4. l - m + 1 = l - n /\ (~(m <= l) => l - n = 0)
        /\ \A i \in 1 .. l - n : m + i - 1 = n + i
    BY <1>1, <2>1
  <2>5. SubSeq(b, m, l) = SubSeq(b, n + 1, l)
    BY <2>1
  <2>6. Len(SubSeq(b, m, l)) = l - n
    BY <1>1, <2>3, <2>4
  <2>7. \A i \in 1 .. l - n : SubSeq(b, m, l)[i] = b[n + i]
    BY <2>3, <2>4
  <2> QED BY <2>3, <2>5, <2>6, <2>7
<1>5. PICK k \in Nat : k = Len(a)
  OBVIOUS
<1>6. PICK z \in Seq(Byte) : /\ z = a \o x /\ Len(z) = k + n
                             /\ \A i \in 1 .. k : z[i] = a[i]
                             /\ \A i \in 1 .. n : z[k + i] = x[i]
  <2>1. /\ a \o x \in Seq(Byte)
        /\ Len(a \o x) = Len(a) + Len(x)
        /\ \A i \in 1 .. Len(a) : (a \o x)[i] = a[i]
        /\ \A i \in 1 .. Len(x) : (a \o x)[Len(a) + i] = x[i]
    BY Joined
  <2>2. Len(a) = k /\ Len(x) = n
    BY <1>3, <1>5
  <2>3. /\ a \o x \in Seq(Byte) /\ Len(a \o x) = k + n
        /\ \A i \in 1 .. k : (a \o x)[i] = a[i]
        /\ \A i \in 1 .. n : (a \o x)[k + i] = x[i]
    BY ONLY <2>1, <2>2
  <2> QED BY <2>3
<1>7. PICK u \in Seq(Byte) : /\ u = z \o y /\ Len(u) = (k + n) + (l - n)
                             /\ \A i \in 1 .. k + n : u[i] = z[i]
                             /\ \A i \in 1 .. l - n : u[(k + n) + i] = y[i]
  <2>1. /\ z \o y \in Seq(Byte)
        /\ Len(z \o y) = Len(z) + Len(y)
        /\ \A i \in 1 .. Len(z) : (z \o y)[i] = z[i]
        /\ \A i \in 1 .. Len(y) : (z \o y)[Len(z) + i] = y[i]
    BY Joined
  <2>2. Len(z) = k + n /\ Len(y) = l - n /\ y \in Seq(Byte)
    BY <1>4, <1>6
  <2>3. /\ Len(z \o y) = (k + n) + (l - n)
        /\ \A i \in 1 .. k + n : (z \o y)[i] = z[i]
        /\ \A i \in 1 .. l - n : (z \o y)[(k + n) + i] = y[i]
    BY ONLY <2>1, <2>2
  <2> QED BY <2>1, <2>3
<1>8. PICK v \in Seq(Byte) : /\ v = a \o b /\ Len(v) = k + l
                             /\ \A i \in 1 .. k : v[i] = a[i]
                             /\ \A i \in 1 .. l : v[k + i] = b[i]
  <2>1. /\ a \o b \in Seq(Byte)
        /\ Len(a \o b) = Len(a) + Len(b)
        /\ \A i \in 1 .. Len(a) : (a \o b)[i] = a[i]
        /\ \A i \in 1 .. Len(b) : (a \o b)[Len(a) + i] = b[i]
    BY Joined
  <2> QED BY <1>1, <1>5, <2>1
<1>9. \A i \in 1 .. k + l : u[i] = v[i]
  <2>1. TAKE i \in 1 .. k + l
  <2>2. CASE i <= k
    BY <1>1, <1>5, <1>6, <1>7, <1>8, <2>2
  <2>3. CASE k < i /\ i <= k + n
    <3>1. PICK j \in 1 .. n : i = k + j /\ j \in 1 .. l /\ i \in 1 .. k + n
      <4>1. i - k \in 1 .. n /\ i = k + (i - k) /\ i - k \in 1 .. l
            /\ i \in 1 .. k + n
        BY <1>1, <2>3
      <4> QED BY <4>1
    <3>2. u[i] = z[k + j] /\ z[k + j] = x[j] /\ x[j] = b[j]
      BY <1>3, <1>6, <1>7, <3>1
    <3>3. v[i] = b[j]
      BY <1>8, <3>1
    <3> QED BY <3>2, <3>3
  <2>4. CASE k + n < i
    <3>1. PICK j \in 1 .. l - n : i = (k + n) + j
      <4>1. i - (k + n) \in 1 .. l - n /\ i = (k + n) + (i - (k + n))
        BY <1>1, <2>4
      <4> QED BY <4>1
    <3>2. n + j \in 1 .. l /\ i = k + (n + j)
      BY <1>1, <3>1
    <3>3. u[i] = y[j]
      BY <1>7, <3>1
    <3>4. y[j] = b[n + j]
      BY <1>4
    <3>5. v[i] = b[n + j]
      BY <1>8, <3>2
    <3> QED BY <3>3, <3>4, <3>5
  <2> QED BY <1>1, <2>2, <2>3, <2>4
<1>10. u = v
  <2>1. Len(u) = k + l /\ Len(v) = k + l
    BY <1>1, <1>7, <1>8
  <2> QED BY <1>9, <2>1, SeqEqual
<1> QED BY <1>1, <1>3, <1>4, <1>6, <1>7, <1>8, <1>10

\* Bytes that arrive stay unread.
LEMMA ArriveKeeps ==
  ASSUME ReaderInv, NEW n \in 1 .. Len(wire), Arrive(n)
  PROVE  ReaderInv'
<1>1. wire \in Seq(Byte) /\ inq \in Seq(Byte) /\ data \in Seq(Byte)
  BY DEF ReaderInv, ReaderTypes
<1>2. PICK p \in Seq(Byte) : p = IF pc = "recv" THEN data ELSE <<>>
  <2>1. (IF pc = "recv" THEN data ELSE <<>>) \in Seq(Byte)
    BY <1>1
  <2> QED BY <2>1
<1> DEFINE x == SubSeq(wire, 1, n)
           y == SubSeq(wire, n + 1, Len(wire))
<1>3. inq' = inq \o x /\ wire' = y
      /\ UNCHANGED <<pc, data, executed, sent, ends, parsed, boundary, single>>
  BY DEF Arrive
<1>4. p \o inq \in Seq(Byte) /\ n \in 0 .. Len(wire) /\ n \in Nat
  BY <1>1
<1>5. x \in Seq(Byte) /\ y \in Seq(Byte) /\ Len(x) = n
      /\ ((p \o inq) \o x) \o y = (p \o inq) \o wire
  BY <1>1, <1>4, Rejoined
<1> HIDE DEF x, y
<1>6. (p \o inq) \o x = p \o (inq \o x)
  BY <1>1, <1>5, Associates
<1>7. Unread' = Unread
  BY <1>2, <1>3, <1>5, <1>6 DEF Unread
<1>8. /\ inq \o x \in Seq(Byte) /\ Len(inq \o x) = Len(inq) + n
      /\ Len(inq) \in Nat /\ Len(data) \in Nat
  BY <1>1, <1>5, Joined
<1>9. (pc = "recv" => Len(data) + Len(inq) > 0)'
  BY <1>3, <1>4, <1>8 DEF ReaderInv
<1>10. ReaderTypes'
  BY <1>3, <1>5, <1>8 DEF ReaderInv, ReaderTypes
<1> QED BY <1>3, <1>7, <1>9, <1>10, BytesMove

\* An event takes no byte yet.
LEMMA DispatchKeeps ==
  ASSUME ReaderInv, DispatchFrame
  PROVE  ReaderInv'
<1>1. Unread' = Unread
  BY DEF DispatchFrame, Unread
<1>2. ReaderTypes'
  <2>1. <<>> \in Seq(Byte)
    OBVIOUS
  <2> QED BY <2>1 DEF DispatchFrame, ReaderInv, ReaderTypes
<1>3. (pc = "recv" => Len(data) + Len(inq) > 0)'
  <2>1. inq \in Seq(Byte) /\ inq # <<>> /\ inq' = inq /\ data' = <<>>
    BY DEF DispatchFrame, ReaderInv, ReaderTypes
  <2>2. Len(inq) > 0 /\ Len(<<>>) = 0 /\ Len(inq) \in Nat
    BY <2>1
  <2> QED BY <2>1, <2>2
<1> QED BY <1>1, <1>2, <1>3, BytesMove DEF DispatchFrame

\* recv moves bytes into data.
LEMMA RecvKeeps ==
  ASSUME ReaderAssumption, ReaderInv, Recv
  PROVE  ReaderInv'
<1>1. /\ wire \in Seq(Byte) /\ inq \in Seq(Byte) /\ data \in Seq(Byte)
      /\ inq # <<>> /\ pc = "recv" /\ BufSize \in Nat \ {0}
  BY DEF Recv, ReaderInv, ReaderTypes, ReaderAssumption
<1> DEFINE n == Least(BufSize, Len(inq))
<1>2. n \in 1 .. Len(inq) /\ n \in 0 .. Len(inq)
  <2>1. Len(inq) \in Nat \ {0}
    BY <1>1
  <2> QED BY <1>1, <2>1 DEF Least
<1> DEFINE x == SubSeq(inq, 1, n)
           y == SubSeq(inq, n + 1, Len(inq))
<1>3. data' = data \o x /\ inq' = y
      /\ UNCHANGED <<wire, pc, executed, sent, ends, parsed, boundary, single>>
  BY DEF Recv
<1> HIDE DEF n
<1>4. x \in Seq(Byte) /\ y \in Seq(Byte) /\ Len(x) = n
      /\ (data \o x) \o y = data \o inq /\ Len(y) \in Nat
  <2>1. /\ x \in Seq(Byte) /\ Len(x) = n
        /\ y \in Seq(Byte)
        /\ Len(y) = Len(inq) - n
        /\ (data \o x) \o y = data \o inq
    BY <1>1, <1>2, Rejoined
  <2> HIDE DEF x, y
  <2> QED BY <2>1
<1> HIDE DEF x, y
<1>5. Unread' = Unread
  BY <1>1, <1>3, <1>4 DEF Unread
<1>6. /\ data \o x \in Seq(Byte) /\ Len(data \o x) = Len(data) + n
      /\ Len(data) \in Nat
  <2>1. /\ data \o x \in Seq(Byte)
        /\ Len(data \o x) = Len(data) + Len(x)
        /\ \A i \in 1 .. Len(data) : (data \o x)[i] = data[i]
        /\ \A i \in 1 .. Len(x) : (data \o x)[Len(data) + i] = x[i]
    BY <1>1, <1>4, Joined
  <2> QED BY <1>1, <1>4, <2>1
<1>7. (pc = "recv" => Len(data) + Len(inq) > 0)'
  BY <1>2, <1>3, <1>4, <1>6
<1>8. ReaderTypes'
  BY <1>3, <1>4, <1>6 DEF ReaderInv, ReaderTypes
<1> QED BY <1>3, <1>5, <1>7, <1>8, BytesMove

\* Ends that follow one another are in order.
LEMMA EndsOrder ==
  ASSUME NEW e \in Seq(Nat),
         \A i \in 1 .. Len(e) : e[i] > (IF i = 1 THEN 0 ELSE e[i - 1]),
         NEW j \in 1 .. Len(e), NEW i \in 1 .. j
  PROVE  e[i] <= e[j] /\ (i < j => e[i] < e[j])
<1>1. PICK n \in Nat : n = Len(e) /\ j \in 0 .. n /\ j \in Nat /\ i \in Nat
  OBVIOUS
<1>2. \A k \in 1 .. n : e[k] \in Nat
  BY <1>1
<1> DEFINE Good == {k \in Nat : k < i \/ (e[i] <= e[k] /\ (i < k => e[i] < e[k]))}
<1>3. SUFFICES ASSUME j \notin Good PROVE FALSE
  BY <1>1
<1>4. j \in 0 .. j
  BY <1>1
<1>5. PICK k \in 0 .. j : k \notin Good /\ \A l \in 0 .. k - 1 : l \in Good
  <2> HIDE DEF Good
  <2> QED BY <1>1, <1>3, <1>4, FirstFailure
<1>6. i <= k /\ k \in Nat
  BY <1>1, <1>5
<1>7. CASE i = k
  BY <1>1, <1>2, <1>5, <1>7
<1>8. CASE i < k
  <2>1. k - 1 \in 0 .. k - 1 /\ ~(k - 1 < i) /\ k \in 1 .. n /\ k - 1 \in 1 .. n
        /\ k # 1 /\ i \in 1 .. n
    BY <1>1, <1>6, <1>8
  <2>2. e[i] <= e[k - 1]
    BY <1>5, <2>1
  <2>3. e[k - 1] < e[k]
    BY <1>1, <1>2, <2>1
  <2> QED BY <1>1, <1>2, <1>5, <2>1, <2>2, <2>3
<1> QED BY <1>1, <1>6, <1>7, <1>8

\* A frame of a client is some bytes.
LEMMA ClientFrameBytes ==
  ASSUME FramesAssumption, NEW p \in Payloads, NEW key \in MaskKeys
  PROVE  /\ ClientFrame(p, key) \in Seq(Byte)
         /\ Len(ClientFrame(p, key)) \in Nat /\ Len(ClientFrame(p, key)) > 0
<1>1. PICK f : /\ IsField(f, Len(p), High)
               /\ ClientFrame(p, key) \in Seq(Byte)
               /\ Len(ClientFrame(p, key)) = 1 + Len(f) + 4 + Len(p)
  BY ClientFrameIs
<1>2. Len(f) \in Nat /\ Len(p) \in Nat
  BY <1>1, PayloadFacts DEF IsField
<1> QED BY <1>1, <1>2

\* Where a frame begins.
LEMMA BeginningIs ==
  ASSUME ReaderTypes, NEW i \in 1 .. Len(sent) + 1
  PROVE  Beginning(i) \in Nat
<1>1. CASE i = 1
  BY <1>1 DEF Beginning
<1>2. CASE i # 1
  <2>1. i - 1 \in 1 .. Len(ends) /\ ends \in Seq(Nat)
    BY <1>2 DEF ReaderTypes
  <2>2. ends[i - 1] \in Nat
    BY <2>1, ElementOfSeq
  <2> QED BY <1>2, <2>2 DEF Beginning
<1> QED BY <1>1, <1>2

\* A frame that is sent lies behind all others.
LEMMA SendCommandKeeps ==
  ASSUME ReaderAssumption, ReaderInv, NEW m \in Commands, NEW key \in Keys,
         SendCommand(m, key)
  PROVE  ReaderInv'
<1>1. FramesAssumption /\ m \in Payloads /\ key \in MaskKeys
  BY DEF ReaderAssumption
<1>2. /\ wire \in Seq(Byte) /\ inq \in Seq(Byte) /\ data \in Seq(Byte)
      /\ sent \in Seq(Commands) /\ ends \in Seq(Nat) /\ Len(ends) = Len(sent)
      /\ parsed \in Nat
  BY DEF ReaderInv, ReaderTypes
<1>3. PICK c \in Seq(Byte) : c = ClientFrame(m, key)
  BY <1>1, ClientFrameBytes
<1>4. PICK l \in Nat : l = Len(c) /\ l > 0
  BY <1>1, <1>3, ClientFrameBytes
<1>5. PICK n \in Nat : n = Len(sent) /\ n = Len(ends)
  BY <1>2
<1>6. PICK b \in Nat : b = Beginning(n + 1)
  <2>1. n + 1 \in 1 .. Len(sent) + 1
    BY <1>5
  <2> QED BY <2>1, BeginningIs DEF ReaderInv
<1>7. /\ wire' = wire \o c /\ sent' = Append(sent, m) /\ ends' = Append(ends, b + l)
      /\ UNCHANGED <<inq, pc, data, executed, parsed, boundary, single>>
  BY <1>3, <1>4, <1>5, <1>6 DEF SendCommand
<1>8. /\ sent' \in Seq(Commands) /\ Len(sent') = n + 1 /\ sent'[n + 1] = m
      /\ \A i \in 1 .. n : sent'[i] = sent[i]
  BY <1>2, <1>5, <1>7
<1>9. /\ ends' \in Seq(Nat) /\ Len(ends') = n + 1 /\ ends'[n + 1] = b + l
      /\ \A i \in 1 .. n : ends'[i] = ends[i]
  BY <1>2, <1>5, <1>7
<1>10. /\ \A i \in 1 .. n + 1 : Beginning(i)' = Beginning(i)
       /\ Beginning(n + 2)' = b + l
  <2>1. ASSUME NEW i \in 1 .. n + 1 PROVE Beginning(i)' = Beginning(i)
    <3>1. i # 1 => i - 1 \in 1 .. n
      BY <1>5
    <3> QED BY <1>9, <3>1 DEF Beginning
  <2>2. n + 2 # 1 /\ (n + 2) - 1 = n + 1
    BY <1>5
  <2>3. Beginning(n + 2)' = ends'[n + 1]
    BY <2>2 DEF Beginning
  <2> QED BY <1>9, <2>1, <2>3
<1>11. PICK u \in Seq(Byte) : u = Unread
  <2>1. (IF pc = "recv" THEN data ELSE <<>>) \in Seq(Byte)
    BY <1>2
  <2>2. (IF pc = "recv" THEN data ELSE <<>>) \o inq \in Seq(Byte)
    BY <1>2, <2>1, Joined
  <2> QED BY <1>2, <2>2, Joined DEF Unread
<1>12. Unread' = u \o c
  <2>1. PICK p \in Seq(Byte) : p = (IF pc = "recv" THEN data ELSE <<>>) \o inq
    <3>1. (IF pc = "recv" THEN data ELSE <<>>) \in Seq(Byte)
      BY <1>2
    <3> QED BY <1>2, <3>1, Joined
  <2>2. (p \o wire) \o c = p \o (wire \o c)
    BY <1>2, Associates
  <2> QED BY <1>7, <1>11, <2>1, <2>2 DEF Unread
<1>13. PICK k \in Nat : k = Len(u) /\ parsed + k = b
  <2>1. parsed + Len(u) = b
    BY <1>5, <1>6, <1>11 DEF ReaderInv, Framed
  <2> QED BY <2>1
<1>14. /\ u \o c \in Seq(Byte) /\ Len(u \o c) = k + l
       /\ \A i \in 1 .. k : (u \o c)[i] = u[i]
       /\ \A i \in 1 .. l : (u \o c)[k + i] = c[i]
  <2>1. /\ u \o c \in Seq(Byte)
        /\ Len(u \o c) = Len(u) + Len(c)
        /\ \A i \in 1 .. Len(u) : (u \o c)[i] = u[i]
        /\ \A i \in 1 .. Len(c) : (u \o c)[Len(u) + i] = c[i]
    BY Joined
  <2> QED BY <1>4, <1>13, <2>1
<1>15. \A i \in 1 .. n : /\ ends[i] > Beginning(i)
                         /\ ends[i] \in Nat /\ Beginning(i) \in Nat
                         /\ ends[i] <= b
  <2>1. \A i \in 1 .. n : ends[i] > Beginning(i) /\ ends[i] \in Nat
    BY <1>2, <1>5 DEF ReaderInv, Framed
  <2>2. \A i \in 1 .. Len(ends) : ends[i] > (IF i = 1 THEN 0 ELSE ends[i - 1])
    BY <1>5, <2>1 DEF Beginning
  <2>3. ASSUME NEW i \in 1 .. n PROVE ends[i] <= b
    <3>1. n \in 1 .. Len(ends) /\ i \in 1 .. n /\ n + 1 # 1 /\ (n + 1) - 1 = n
      BY <1>5
    <3>2. ends[i] <= ends[n]
      BY <1>2, <2>2, <3>1, EndsOrder
    <3>3. b = ends[n]
      BY <1>6, <3>1 DEF Beginning
    <3> QED BY <3>2, <3>3
  <2>4. ASSUME NEW i \in 1 .. n PROVE Beginning(i) \in Nat
    <3>1. i \in 1 .. Len(sent) + 1
      BY <1>5
    <3> QED BY <3>1, BeginningIs DEF ReaderInv
  <2> QED BY <2>1, <2>3, <2>4
<1>16. ReaderTypes'
  <2>1. wire' \in Seq(Byte)
    BY <1>2, <1>7, Joined
  <2> QED BY <1>7, <1>8, <1>9, <2>1 DEF ReaderInv, ReaderTypes
<1>17. Framed'
  <2>1. (parsed + Len(Unread) = Beginning(Len(sent) + 1))'
    <3>1. Len(sent') + 1 = n + 2
      BY <1>8
    <3>2. parsed' + Len(Unread') = b + l
      <4>1. parsed' = parsed /\ Len(Unread') = k + l
        BY <1>7, <1>12, <1>14
      <4>2. PICK q \in Nat : q = parsed /\ q + k = b
        BY <1>2, <1>13
      <4> QED BY <4>1, <4>2
    <3> QED BY <1>10, <3>1, <3>2
  <2>2. ASSUME NEW i \in 1 .. n
        PROVE  /\ (ends[i] > Beginning(i))'
               /\ (Beginning(i) >= parsed)' =>
                    \E key2 \in Keys :
                      LET f == ClientFrame(sent'[i], key2)
                      IN  /\ ends'[i] = Beginning(i)' + Len(f)
                          /\ \A j \in 1 .. Len(f) :
                               (Unread')[Beginning(i)' - parsed' + j] = f[j]
    <3>1. i \in 1 .. n + 1 /\ i \in 1 .. Len(sent)
      BY <1>5
    <3>2. /\ ends'[i] = ends[i] /\ Beginning(i)' = Beginning(i)
          /\ sent'[i] = sent[i] /\ parsed' = parsed
      BY <1>7, <1>8, <1>9, <1>10, <3>1
    <3>3. (ends[i] > Beginning(i))'
      BY <1>15, <3>2
    <3>4. ASSUME Beginning(i) >= parsed
          PROVE  \E key2 \in Keys :
                   LET f == ClientFrame(sent[i], key2)
                   IN  /\ ends[i] = Beginning(i) + Len(f)
                       /\ \A j \in 1 .. Len(f) :
                            (u \o c)[Beginning(i) - parsed + j] = f[j]
      <4>1. PICK key2 \in Keys :
              LET f == ClientFrame(sent[i], key2)
              IN  /\ ends[i] = Beginning(i) + Len(f)
                  /\ \A j \in 1 .. Len(f) : u[Beginning(i) - parsed + j] = f[j]
        BY <1>11, <3>1, <3>4 DEF ReaderInv, Framed
      <4>2. sent[i] \in Payloads /\ key2 \in MaskKeys
        <5>1. sent[i] \in Commands
          BY <1>2, <3>1, ElementOfSeq
        <5> QED BY <5>1 DEF ReaderAssumption
      <4>3. PICK f \in Seq(Byte) : f = ClientFrame(sent[i], key2) /\ Len(f) \in Nat
        BY <1>1, <4>2, ClientFrameBytes
      <4>4. ASSUME NEW j \in 1 .. Len(f)
            PROVE  (u \o c)[Beginning(i) - parsed + j] = f[j]
        <5>1. PICK q \in 1 .. k : q = Beginning(i) - parsed + j
          <6>1. Beginning(i) - parsed + j \in 1 .. k
            <7>1. /\ Beginning(i) \in Nat /\ ends[i] <= b
                  /\ ends[i] = Beginning(i) + Len(f)
              BY <1>15, <4>1, <4>3
            <7>2. PICK q \in Nat : q = parsed /\ q + k = b
              BY <1>2, <1>13
            <7>3. PICK o \in Nat : o = Beginning(i) /\ o >= q
              BY <3>4, <7>1, <7>2
            <7>4. o + Len(f) <= b
              BY <7>1, <7>3
            <7>5. o - q + j \in 1 .. k
              BY <4>3, <7>2, <7>3, <7>4
            <7> QED BY <7>2, <7>3, <7>5
          <6> QED BY <6>1
        <5>2. u[q] = f[j]
          BY <4>1, <4>3, <5>1
        <5> QED BY <1>14, <5>1, <5>2
      <4> QED BY <4>1, <4>3, <4>4
    <3> QED BY <1>12, <3>2, <3>3, <3>4
  <2>3. /\ ends'[n + 1] > Beginning(n + 1)'
        /\ ends'[n + 1] = Beginning(n + 1)' + Len(c)
        /\ \A j \in 1 .. Len(c) : (Unread')[Beginning(n + 1)' - parsed' + j] = c[j]
    <3>1. n + 1 \in 1 .. n + 1
      BY <1>5
    <3>2. Beginning(n + 1)' = b /\ parsed' = parsed
      BY <1>6, <1>7, <1>10, <3>1
    <3>3. ASSUME NEW j \in 1 .. l PROVE (u \o c)[b - parsed + j] = c[j]
      <4>1. b - parsed + j = k + j
        <5>1. PICK q \in Nat : q = parsed /\ q + k = b
          BY <1>2, <1>13
        <5> QED BY <5>1
      <4> QED BY <1>14, <4>1
    <3>4. ends'[n + 1] > b
      BY <1>4, <1>9
    <3>5. ends'[n + 1] = b + Len(c)
      BY <1>4, <1>9
    <3> QED BY <1>4, <1>12, <3>2, <3>3, <3>4, <3>5
  <2>4. ASSUME NEW i \in 1 .. n + 1
        PROVE  /\ (ends[i] > Beginning(i))'
               /\ (Beginning(i) >= parsed)' =>
                    \E key2 \in Keys :
                      LET f == ClientFrame(sent'[i], key2)
                      IN  /\ ends'[i] = Beginning(i)' + Len(f)
                          /\ \A j \in 1 .. Len(f) :
                               (Unread')[Beginning(i)' - parsed' + j] = f[j]
    <3>1. CASE i \in 1 .. n
      BY <2>2, <3>1
    <3>2. CASE i = n + 1
      BY <1>3, <1>8, <2>3, <3>2
    <3> QED BY <1>5, <3>1, <3>2
  <2> QED BY <1>8, <2>1, <2>4 DEF Framed
<1>18. Delivered => Delivered'
  <2>1. SUFFICES ASSUME Delivered PROVE Delivered'
    OBVIOUS
  <2>2. PICK at \in Positions :
          /\ ExecutedAt(at)
          /\ \A i \in DOMAIN at : ends[at[i]] <= parsed
          /\ single => \A j \in 1 .. Len(sent) :
                         ends[j] <= parsed /\ sent[j] # <<>> => j \in Range(at)
    BY <2>1 DEF Delivered
  <2>3. at \in [1 .. Len(executed) -> 1 .. n]
    BY <1>5 DEF Positions
  <2>4. at \in Positions'
    <3>1. 1 .. n \subseteq 1 .. n + 1
      BY <1>5
    <3> QED BY <1>7, <1>8, <2>3, <3>1 DEF Positions
  <2>5. \A i \in DOMAIN at : at[i] \in 1 .. n
    BY <2>3
  <2>6. ExecutedAt(at)'
    BY <1>7, <1>8, <2>2, <2>5 DEF ExecutedAt
  <2>7. \A i \in DOMAIN at : ends'[at[i]] <= parsed'
    BY <1>7, <1>9, <2>2, <2>5
  <2>8. ASSUME single', NEW j \in 1 .. n + 1, ends'[j] <= parsed', sent'[j] # <<>>
        PROVE  j \in Range(at)
    <3>1. j # n + 1
      BY <1>2, <1>4, <1>7, <1>9, <1>13, <2>8
    <3>2. j \in 1 .. n
      BY <1>5, <3>1
    <3> QED BY <1>5, <1>7, <1>8, <1>9, <2>2, <2>8, <3>2
  <2> QED BY <1>8, <2>4, <2>6, <2>7, <2>8 DEF Delivered
<1>19. AtBoundary => AtBoundary'
  <2>1. SUFFICES ASSUME AtBoundary PROVE AtBoundary'
    OBVIOUS
  <2>2. PICK i \in 1 .. n + 1 : parsed = Beginning(i)
    BY <1>5, <2>1 DEF AtBoundary
  <2>3. i \in 1 .. Len(sent') + 1 /\ parsed' = Beginning(i)'
    BY <1>5, <1>7, <1>8, <1>10, <2>2
  <2>4. (\E j \in 1 .. Len(sent) + 1 : parsed = Beginning(j))'
    BY <2>3
  <2> QED BY <1>7, <1>18, <2>1, <2>4 DEF AtBoundary
<1> QED BY <1>7, <1>16, <1>17, <1>19 DEF ReaderInv

\* The event takes the bytes of data away.
LEMMA RecvAgainFrames ==
  ASSUME ReaderAssumption, ReaderInv, RecvAgain
  PROVE  /\ Len(data) \in Nat /\ Len(data) > 0 /\ parsed' = parsed + Len(data)
         /\ \A i : Beginning(i)' = Beginning(i)
         /\ \A i \in 1 .. Len(data) : Unread[i] = data[i]
         /\ Framed'
<1>1. /\ wire \in Seq(Byte) /\ inq = <<>> /\ data \in Seq(Byte) /\ pc = "recv"
      /\ sent \in Seq(Commands) /\ ends \in Seq(Nat) /\ Len(ends) = Len(sent)
      /\ parsed \in Nat
  BY DEF RecvAgain, ReaderInv, ReaderTypes
<1>2. PICK d \in Nat, w \in Nat : d = Len(data) /\ w = Len(wire) /\ d > 0
  <2>1. Len(data) \in Nat /\ Len(wire) \in Nat /\ Len(data) > 0
    <3>1. Len(inq) = 0 /\ Len(data) + Len(inq) > 0 /\ Len(data) \in Nat
      BY <1>1 DEF ReaderInv
    <3> QED BY <1>1, <3>1
  <2> QED BY <2>1
<1>3. PICK a \in Nat : a = parsed
  BY <1>1
<1>4. pc' = "wait" /\ parsed' = a + d /\ UNCHANGED <<wire, sent, ends, inq, data>>
  <2>1. parsed' = parsed + Len(data) + Len(inq) /\ Len(inq) = 0
    BY <1>1 DEF RecvAgain, Decoded
  <2> QED BY <1>2, <1>3, <2>1 DEF RecvAgain, Decoded
<1>5. \A i : Beginning(i)' = Beginning(i)
  BY <1>4 DEF Beginning
<1>6. PICK u : u = Unread /\ u = data \o wire
  <2>1. data \o inq = data
    BY <1>1, ConcatEmptySeq
  <2> QED BY <1>1, <2>1 DEF Unread
<1>7. /\ Len(u) = d + w
      /\ \A i \in 1 .. d : u[i] = data[i]
      /\ \A i \in 1 .. w : u[d + i] = wire[i]
  <2>1. /\ data \o wire \in Seq(Byte)
        /\ Len(data \o wire) = Len(data) + Len(wire)
        /\ \A i \in 1 .. Len(data) : (data \o wire)[i] = data[i]
        /\ \A i \in 1 .. Len(wire) : (data \o wire)[Len(data) + i] = wire[i]
    BY <1>1, Joined
  <2> QED BY <1>2, <1>6, <2>1
<1>8. Unread' = wire
  <2>1. <<>> \o inq = <<>> /\ <<>> \o wire = wire
    BY <1>1, ConcatEmptySeq
  <2> QED BY <1>1, <1>4, <2>1 DEF Unread
<1>9. PICK n \in Nat : n = Len(sent) /\ n = Len(ends)
  BY <1>1
<1>10. PICK b \in Nat : b = Beginning(n + 1) /\ a + (d + w) = b
  <2>1. n + 1 \in 1 .. Len(sent) + 1
    BY <1>9
  <2>2. Beginning(n + 1) \in Nat
    BY <2>1, BeginningIs DEF ReaderInv
  <2> QED BY <1>3, <1>6, <1>7, <1>9, <2>2 DEF ReaderInv, Framed
<1>11. parsed' + Len(wire) = b
  BY <1>2, <1>4, <1>10
<1>12. ASSUME NEW i \in 1 .. n, Beginning(i) >= a + d
       PROVE  \E key \in Keys :
                LET f == ClientFrame(sent[i], key)
                IN  /\ ends[i] = Beginning(i) + Len(f)
                    /\ \A j \in 1 .. Len(f) : wire[Beginning(i) - (a + d) + j] = f[j]
  <2>1. PICK o \in Nat : o = Beginning(i)
    <3>1. i \in 1 .. Len(sent) + 1
      BY <1>9
    <3> QED BY <3>1, BeginningIs DEF ReaderInv
  <2>2. o >= a
    BY <1>12, <2>1
  <2>3. PICK key \in Keys :
          LET f == ClientFrame(sent[i], key)
          IN  /\ ends[i] = o + Len(f)
              /\ \A j \in 1 .. Len(f) : u[o - a + j] = f[j]
    <3>1. i \in 1 .. Len(sent) /\ Beginning(i) >= parsed
      BY <1>3, <1>9, <2>1, <2>2
    <3>2. \E key \in Keys :
            LET f == ClientFrame(sent[i], key)
            IN  /\ ends[i] = Beginning(i) + Len(f)
                /\ \A j \in 1 .. Len(f) : Unread[Beginning(i) - parsed + j] = f[j]
      BY <3>1 DEF ReaderInv, Framed
    <3> QED BY <1>3, <1>6, <2>1, <3>2
  <2>4. ends[i] <= b
    <3>1. n \in 1 .. Len(ends) /\ i \in 1 .. n /\ n + 1 # 1 /\ (n + 1) - 1 = n
      BY <1>9
    <3>2. \A k \in 1 .. Len(ends) : ends[k] > (IF k = 1 THEN 0 ELSE ends[k - 1])
      BY <1>9 DEF ReaderInv, Framed, Beginning
    <3>3. ends[i] <= ends[n]
      BY <1>1, <3>1, <3>2, EndsOrder
    <3> QED BY <1>10, <3>1, <3>3 DEF Beginning
  <2>5. ASSUME NEW j \in 1 .. Len(ClientFrame(sent[i], key))
        PROVE  wire[o - (a + d) + j] = ClientFrame(sent[i], key)[j]
    <3>1. PICK l \in Int : l = ends[i] - o /\ j \in 1 .. l /\ ends[i] = o + l
      <4>1. ends[i] \in Nat
        BY <1>1, <1>9, ElementOfSeq
      <4>2. PICK f : f = ClientFrame(sent[i], key) /\ ends[i] = o + Len(f)
        BY <2>3
      <4>3. j \in 1 .. Len(f)
        BY <4>2, <2>5
      <4>4. Len(f) \in Int
        <5>1. sent[i] \in Payloads /\ key \in MaskKeys
          <6>1. sent[i] \in Commands
            BY <1>1, <1>9, ElementOfSeq
          <6> QED BY <6>1 DEF ReaderAssumption
        <5> QED BY <4>2, <5>1, ClientFrameBytes DEF ReaderAssumption
      <4> QED BY <4>1, <4>2, <4>3, <4>4
    <3>2. PICK q \in 1 .. w : q = o - (a + d) + j /\ d + q = o - a + j
      <4>1. o - (a + d) + j \in 1 .. w /\ d + (o - (a + d) + j) = o - a + j
        <5>1. o >= a + d /\ o + l <= b /\ a + (d + w) = b
          BY <1>10, <1>12, <2>1, <2>4, <3>1
        <5>2. PICK e \in Nat : o = (a + d) + e
          <6>1. o - (a + d) \in Nat /\ o = (a + d) + (o - (a + d))
            BY <5>1
          <6> QED BY <6>1
        <5>3. e + j \in 1 .. w
          BY <3>1, <5>1, <5>2
        <5> QED BY <5>2, <5>3
      <4> QED BY <4>1
    <3>3. u[d + q] = wire[q]
      BY <1>7
    <3> QED BY <2>3, <3>2, <3>3
  <2> QED BY <2>1, <2>3, <2>5
<1>13. Framed'
  <2>1. (parsed + Len(Unread) = Beginning(Len(sent) + 1))'
    BY <1>4, <1>5, <1>8, <1>9, <1>10, <1>11
  <2>2. \A i \in 1 .. n : ends[i] > Beginning(i)
    BY <1>9 DEF ReaderInv, Framed
  <2> QED BY <1>4, <1>5, <1>8, <1>9, <1>12, <2>1, <2>2 DEF Framed
<1> QED BY <1>2, <1>3, <1>4, <1>5, <1>6, <1>7, <1>13

\* The frame at the first unread byte, when all of it was read, is what is
\* decoded.
LEMMA FirstIsDecoded ==
  ASSUME ReaderAssumption, ReaderInv, RecvAgain, NEW i \in 1 .. Len(sent),
         Beginning(i) = parsed, ends[i] <= parsed + Len(data)
  PROVE  Decode(data).payload = sent[i] /\ sent[i] \in Payloads
<1>1. /\ data \in Seq(Byte) /\ sent \in Seq(Commands) /\ parsed \in Nat
      /\ FramesAssumption
  BY DEF ReaderInv, ReaderTypes, ReaderAssumption
<1>2. sent[i] \in Payloads
  <2>1. sent[i] \in Commands
    BY <1>1, ElementOfSeq
  <2> QED BY <2>1 DEF ReaderAssumption
<1>3. PICK a \in Nat :
        a = parsed /\ Beginning(i) = a /\ a >= a /\ Beginning(i) >= parsed
  BY <1>1
<1>4. PICK key \in Keys :
        LET f == ClientFrame(sent[i], key)
        IN  /\ ends[i] = Beginning(i) + Len(f)
            /\ \A j \in 1 .. Len(f) : Unread[Beginning(i) - parsed + j] = f[j]
  BY <1>3 DEF ReaderInv, Framed
<1>5. key \in MaskKeys
  BY DEF ReaderAssumption
<1>6. PICK f \in Seq(Byte) : f = ClientFrame(sent[i], key) /\ Len(f) \in Nat
  BY <1>1, <1>2, <1>5, ClientFrameBytes
<1>7. \A j \in 1 .. Len(f) : Unread[j] = f[j]
  <2>1. TAKE j \in 1 .. Len(f)
  <2>2. Beginning(i) - parsed + j = j
    BY <1>3, <1>6
  <2>3. Unread[Beginning(i) - parsed + j] = f[j]
    BY <1>4, <1>6
  <2> QED BY <2>2, <2>3
<1>8. /\ Len(data) \in Nat
      /\ \A j \in 1 .. Len(data) : Unread[j] = data[j]
  BY RecvAgainFrames
<1>9. Len(f) <= Len(data)
  <2>1. ends[i] = a + Len(f)
    BY <1>3, <1>4, <1>6
  <2> QED BY <1>3, <1>6, <1>8, <2>1
<1>10. Agree(data, f)
  <2>1. SUFFICES ASSUME NEW j \in 1 .. Len(f), j <= Len(data)
                 PROVE  data[j] = f[j]
    BY DEF Agree
  <2>2. j \in 1 .. Len(data)
    BY <1>8, <2>1
  <2> QED BY <1>7, <1>8, <2>2
<1>11. Decode(data) = [failed |-> FALSE, payload |-> sent[i]]
  <2>1. ~(Len(data) < Len(f))
    BY <1>6, <1>8, <1>9
  <2> QED BY <1>1, <1>2, <1>5, <1>6, <1>10, <2>1, DecodeClient
<1> QED BY <1>2, <1>11

\* The first frame of what there was is executed; when there were more, or
\* less than one, the histories tell so.
LEMMA RecvAgainKeeps ==
  ASSUME ReaderAssumption, ReaderInv, RecvAgain
  PROVE  ReaderInv'
<1>1. /\ wire \in Seq(Byte) /\ inq = <<>> /\ data \in Seq(Byte)
      /\ sent \in Seq(Commands) /\ ends \in Seq(Nat) /\ Len(ends) = Len(sent)
      /\ parsed \in Nat /\ boundary \in BOOLEAN /\ single \in BOOLEAN
  BY DEF RecvAgain, ReaderInv, ReaderTypes
<1>2. /\ Len(data) \in Nat /\ Len(data) > 0 /\ parsed' = parsed + Len(data)
      /\ \A i : Beginning(i)' = Beginning(i)
      /\ Framed'
  BY RecvAgainFrames
<1>3. PICK a \in Nat, d \in Nat :
        a = parsed /\ d = Len(data) /\ d > 0 /\ parsed' = a + d
  BY <1>1, <1>2
<1> DEFINE taken == {e \in Range(ends) : a < e /\ e <= a + d}
<1>4. /\ pc' = "wait" /\ UNCHANGED <<wire, sent, ends, inq, data>>
      /\ executed' = IF Decode(data).payload = <<>> THEN executed
                     ELSE Append(executed, Decode(data).payload)
      /\ boundary' = (boundary /\ a + d \in Range(ends))
      /\ single' = (single /\ taken = {a + d})
  <2>1. parsed + Len(data) + Len(inq) = a + d
    BY <1>1, <1>3
  <2> QED BY <1>3, <2>1 DEF RecvAgain, Decoded
<1> HIDE DEF taken
<1>5. ReaderTypes'
  <2>1. parsed' \in Nat
    BY <1>3
  <2>2. boundary' \in BOOLEAN /\ single' \in BOOLEAN
    BY <1>4
  <2> QED BY <1>1, <1>4, <2>1, <2>2 DEF ReaderTypes
<1>6. single' => boundary'
  <2>1. SUFFICES ASSUME single' PROVE boundary'
    OBVIOUS
  <2>2. single /\ taken = {a + d}
    BY <1>4, <2>1
  <2>3. a + d \in Range(ends)
    BY <2>2 DEF taken
  <2> QED BY <1>4, <2>2, <2>3 DEF ReaderInv
<1>7. ASSUME boundary' PROVE AtBoundary'
  <2>1. boundary /\ a + d \in Range(ends) /\ AtBoundary
    BY <1>4, <1>7 DEF ReaderInv
  <2>2. PICK n \in Nat : n = Len(sent) /\ n = Len(ends)
    BY <1>1
  <2>3. PICK e \in 1 .. n : ends[e] = a + d
    <3>1. DOMAIN ends = 1 .. n
      BY <1>1, <2>2
    <3> QED BY <2>1, <3>1 DEF Range
  <2>4. PICK i \in 1 .. n + 1 : a = Beginning(i)
    BY <1>3, <2>1, <2>2 DEF AtBoundary
  <2>5. \A k \in 1 .. n : ends[k] \in Nat
    BY <1>1, <2>2
  <2>6. \A k \in 1 .. Len(ends) : ends[k] > (IF k = 1 THEN 0 ELSE ends[k - 1])
    BY <2>2 DEF ReaderInv, Framed, Beginning
  <2>7. ASSUME NEW k \in 1 .. n, NEW j \in 1 .. k
        PROVE  ends[j] <= ends[k] /\ (j < k => ends[j] < ends[k])
    <3>1. k \in 1 .. Len(ends)
      BY <2>2
    <3> QED BY <1>1, <2>6, <3>1, EndsOrder
  \* The frame that begins at a ends within the bytes.
  <2>8. i <= e
    <3>1. SUFFICES ASSUME e < i PROVE FALSE
      BY <2>2
    <3>2. i - 1 \in 1 .. n /\ e \in 1 .. i - 1 /\ i # 1
      BY <2>2, <3>1
    <3>3. a = ends[i - 1]
      BY <2>4, <3>2 DEF Beginning
    <3>4. ends[e] <= ends[i - 1]
      BY <2>7, <3>2
    <3> QED BY <1>3, <2>3, <3>3, <3>4
  <2>9. i \in 1 .. n /\ i \in 1 .. e
    BY <2>2, <2>8
  <2>10. ends[i] <= a + d /\ ends[i] > a /\ ends[i] \in Nat
    <3>1. ends[i] <= ends[e]
      BY <2>7, <2>9
    <3>2. ends[i] > Beginning(i)
      BY <2>2, <2>9 DEF ReaderInv, Framed
    <3> QED BY <2>3, <2>4, <2>5, <2>9, <3>1, <3>2
  <2>11. Decode(data).payload = sent[i] /\ sent[i] \in Payloads
    <3>1. /\ i \in 1 .. Len(sent) /\ Beginning(i) = parsed
          /\ ends[i] <= parsed + Len(data)
      BY <1>3, <2>2, <2>4, <2>9, <2>10
    <3> QED BY <3>1, FirstIsDecoded
  <2>12. executed \in Seq(Payloads)
    BY <2>1 DEF AtBoundary
  <2>13. executed' = IF sent[i] = <<>> THEN executed ELSE Append(executed, sent[i])
    BY <1>4, <2>11
  <2>14. executed' \in Seq(Payloads)
    BY <2>11, <2>12, <2>13
  <2>15. (\E j \in 1 .. Len(sent) + 1 : parsed = Beginning(j))'
    <3>1. e + 1 \in 1 .. Len(sent) + 1 /\ e + 1 # 1 /\ (e + 1) - 1 = e
      BY <2>2
    <3>2. Beginning(e + 1) = a + d
      BY <2>3, <3>1 DEF Beginning
    <3> QED BY <1>2, <1>3, <1>4, <3>1, <3>2
  <2>16. PICK at \in Positions :
           /\ ExecutedAt(at)
           /\ \A k \in DOMAIN at : ends[at[k]] <= parsed
           /\ single => \A j \in 1 .. Len(sent) :
                          ends[j] <= parsed /\ sent[j] # <<>> => j \in Range(at)
    BY <2>1 DEF AtBoundary, Delivered
  <2>17. PICK m \in Nat : m = Len(executed) /\ at \in [1 .. m -> 1 .. n]
    BY <2>2, <2>12, <2>16 DEF Positions
  <2>18. \A k \in 1 .. m : at[k] \in 1 .. n /\ ends[at[k]] <= a /\ at[k] < i
    <3>1. TAKE k \in 1 .. m
    <3>2. at[k] \in 1 .. n /\ ends[at[k]] <= a
      BY <1>3, <2>16, <2>17
    <3>3. ~(i <= at[k])
      <4>1. SUFFICES ASSUME i <= at[k] PROVE FALSE
        OBVIOUS
      <4>2. i \in 1 .. at[k]
        BY <2>9, <3>2, <4>1
      <4>3. ends[i] <= ends[at[k]] /\ ends[at[k]] \in Nat
        BY <2>5, <2>7, <3>2, <4>2
      <4> QED BY <1>3, <2>10, <3>2, <4>3
    <3> QED BY <2>9, <3>2, <3>3
  \* With single frames, the frame that begins at a is the only one.
  <2>19. ASSUME single', NEW j \in 1 .. n, ends[j] <= a + d, ~(ends[j] <= a)
         PROVE  j = i
    <3>1. single /\ taken = {a + d}
      BY <1>4, <2>19
    <3>2. ends[j] \in taken /\ ends[i] \in taken
      <4>1. DOMAIN ends = 1 .. n
        BY <1>1, <2>2
      <4>2. ends[j] \in Range(ends) /\ ends[i] \in Range(ends)
        BY <2>9, <4>1 DEF Range
      <4>3. a < ends[j] /\ a < ends[i]
        BY <1>3, <2>5, <2>10, <2>19
      <4> QED BY <2>10, <2>19, <4>2, <4>3 DEF taken
    <3>3. ends[j] = ends[i]
      BY <3>1, <3>2
    <3>4. ~(j < i) /\ ~(i < j)
      <4>1. ASSUME j < i PROVE FALSE
        <5>1. j \in 1 .. i
          BY <2>9, <4>1
        <5>2. ends[j] < ends[i]
          BY <2>7, <2>9, <4>1, <5>1
        <5> QED BY <2>10, <3>3, <5>2
      <4>2. ASSUME i < j PROVE FALSE
        <5>1. i \in 1 .. j
          BY <2>9, <4>2
        <5>2. ends[i] < ends[j]
          BY <2>7, <2>9, <4>2, <5>1
        <5> QED BY <2>10, <3>3, <5>2
      <4> QED BY <4>1, <4>2
    <3> QED BY <2>9, <3>4
  <2>20. ASSUME single', NEW j \in 1 .. n, ends[j] <= a, sent[j] # <<>>
         PROVE  j \in Range(at)
    <3>1. single
      BY <1>4, <2>20
    <3> QED BY <1>3, <2>2, <2>16, <2>20, <3>1
  <2>21. Delivered'
    <3>1. CASE sent[i] = <<>>
      <4>1. executed' = executed
        BY <2>13, <3>1
      <4>2. at \in Positions'
        BY <1>4, <2>2, <2>16, <4>1 DEF Positions
      <4>3. ExecutedAt(at)'
        BY <1>4, <2>16, <4>1 DEF ExecutedAt
      <4>4. \A k \in DOMAIN at : ends'[at[k]] <= parsed'
        <5>1. TAKE k \in DOMAIN at
        <5>2. k \in 1 .. m
          BY <2>17
        <5>3. ends[at[k]] <= a /\ ends[at[k]] \in Nat
          BY <2>5, <2>18, <5>2
        <5> QED BY <1>3, <1>4, <5>3
      <4>5. ASSUME single', NEW j \in 1 .. n, ends[j] <= a + d, sent[j] # <<>>
            PROVE  j \in Range(at)
        BY <2>19, <2>20, <3>1, <4>5
      <4>6. single' => \A j \in 1 .. Len(sent') :
              ends'[j] <= parsed' /\ sent'[j] # <<>> => j \in Range(at)
        BY <1>3, <1>4, <2>2, <4>5
      <4> QED BY <4>2, <4>3, <4>4, <4>6 DEF Delivered
    <3>2. CASE sent[i] # <<>>
      <4> DEFINE at2 == [k \in 1 .. m + 1 |-> IF k = m + 1 THEN i ELSE at[k]]
      <4>1. /\ executed' \in Seq(Payloads) /\ Len(executed') = m + 1
            /\ executed'[m + 1] = sent[i]
            /\ \A k \in 1 .. m : executed'[k] = executed[k]
        BY <2>11, <2>12, <2>13, <2>17, <3>2
      <4>2. /\ at2 \in [1 .. m + 1 -> 1 .. n] /\ at2[m + 1] = i
            /\ \A k \in 1 .. m : at2[k] = at[k]
        BY <2>9, <2>17
      <4> HIDE DEF at2
      <4>3. at2 \in Positions' /\ DOMAIN at2 = 1 .. m + 1
        BY <1>4, <2>2, <4>1, <4>2 DEF Positions
      <4>4. /\ \A k \in 1 .. m : executed[k] = sent[at[k]] /\ executed[k] # <<>>
            /\ \A k, l \in 1 .. m : k < l => at[k] < at[l]
        BY <2>16, <2>17 DEF ExecutedAt
      <4>5. \A k \in 1 .. m + 1 : executed'[k] = sent[at2[k]] /\ executed'[k] # <<>>
        <5>1. TAKE k \in 1 .. m + 1
        <5>2. CASE k \in 1 .. m
          BY <4>1, <4>2, <4>4, <5>2
        <5>3. CASE k = m + 1
          BY <3>2, <4>1, <4>2, <5>3
        <5> QED BY <5>2, <5>3
      <4>6. \A k, l \in 1 .. m + 1 : k < l => at2[k] < at2[l]
        <5>1. TAKE k, l \in 1 .. m + 1
        <5>2. CASE l \in 1 .. m
          BY <4>2, <4>4, <5>2
        <5>3. CASE l = m + 1
          BY <2>18, <4>2, <5>3
        <5> QED BY <5>2, <5>3
      <4>7. ExecutedAt(at2)'
        BY <1>4, <4>3, <4>5, <4>6 DEF ExecutedAt
      <4>8. \A k \in DOMAIN at2 : ends'[at2[k]] <= parsed'
        <5>1. TAKE k \in DOMAIN at2
        <5>2. CASE k \in 1 .. m
          <6>1. ends[at[k]] <= a /\ ends[at[k]] \in Nat
            BY <2>5, <2>18, <5>2
          <6> QED BY <1>3, <1>4, <4>2, <5>2, <6>1
        <5>3. CASE k = m + 1
          BY <1>3, <1>4, <2>10, <4>2, <5>3
        <5> QED BY <4>3, <5>2, <5>3
      <4>9. Range(at) \subseteq Range(at2) /\ i \in Range(at2)
        <5>1. DOMAIN at = 1 .. m /\ m + 1 \in 1 .. m + 1
          BY <2>17
        <5> QED BY <4>2, <4>3, <5>1 DEF Range
      <4>10. ASSUME single', NEW j \in 1 .. n, ends[j] <= a + d, sent[j] # <<>>
             PROVE  j \in Range(at2)
        BY <2>19, <2>20, <4>9, <4>10
      <4>11. single' => \A j \in 1 .. Len(sent') :
               ends'[j] <= parsed' /\ sent'[j] # <<>> => j \in Range(at2)
        BY <1>3, <1>4, <2>2, <4>10
      <4> QED BY <4>3, <4>7, <4>8, <4>11 DEF Delivered
    <3> QED BY <3>1, <3>2
  <2> QED BY <2>14, <2>15, <2>21 DEF AtBoundary
<1>8. (pc = "recv" => Len(data) + Len(inq) > 0)'
  BY <1>4
<1> QED BY <1>2, <1>5, <1>6, <1>7, <1>8 DEF ReaderInv

\* Nothing is sent at first.
LEMMA ReaderStarts ==
  ASSUME ReaderInit
  PROVE  ReaderInv
<1>1. <<>> \in Seq(Byte) /\ <<>> \in Seq(Commands) /\ <<>> \in Seq(Nat)
      /\ <<>> \in Seq(Payloads) /\ Len(<<>>) = 0
  OBVIOUS
<1>2. ReaderTypes
  BY <1>1 DEF ReaderInit, ReaderTypes
<1>3. Unread = <<>> /\ Len(Unread) = 0
  BY DEF Unread, ReaderInit
<1>4. Framed
  <2>1. Beginning(Len(sent) + 1) = 0
    BY <1>1 DEF Beginning, ReaderInit
  <2>2. 1 .. Len(sent) = {}
    BY <1>1 DEF ReaderInit
  <2>3. parsed + Len(Unread) = Beginning(Len(sent) + 1)
    BY <1>3, <2>1 DEF ReaderInit
  <2> QED BY <2>2, <2>3 DEF Framed
<1>5. Delivered
  <2>1. 1 .. Len(sent) = {} /\ 1 .. Len(executed) = {}
    BY <1>1 DEF ReaderInit
  <2> DEFINE at == [k \in 1 .. Len(executed) |-> 0]
  <2>2. at \in Positions /\ DOMAIN at = {}
    BY <2>1 DEF Positions
  <2> HIDE DEF at
  <2>3. ExecutedAt(at)
    BY <2>2 DEF ExecutedAt
  <2> QED BY <2>1, <2>2, <2>3 DEF Delivered
<1>6. AtBoundary
  <2>1. 1 \in 1 .. Len(sent) + 1 /\ parsed = Beginning(1)
    BY <1>1 DEF ReaderInit, Beginning
  <2> QED BY <1>1, <1>5, <2>1 DEF AtBoundary, ReaderInit
<1> QED BY <1>2, <1>4, <1>6 DEF ReaderInv, ReaderInit

\* Connection::dispatch, for any sizes of the buffer and of the messages, and
\* any way in which their bytes arrive: frames that come alone are executed,
\* all of them, and until one is torn nothing is executed that was not sent,
\* nor twice, nor out of order.
THEOREM MessagesExecutedHolds ==
  ReaderAssumption => (ReaderSpec => []MessagesExecuted)
<1> SUFFICES ASSUME ReaderAssumption PROVE ReaderSpec => []MessagesExecuted
  OBVIOUS
<1>1. ReaderInit => ReaderInv
  BY ReaderStarts
<1>2. ReaderInv /\ [ReaderNext]_readerVars => ReaderInv'
  <2>1. SUFFICES ASSUME ReaderInv, [ReaderNext]_readerVars PROVE ReaderInv'
    OBVIOUS
  <2>2. CASE UNCHANGED readerVars
    <3>1. UNCHANGED <<wire, inq, pc, data, executed, sent, ends, parsed,
                      boundary, single>>
      BY <2>2 DEF readerVars
    <3>2. Unread' = Unread /\ ReaderTypes'
      BY <2>1, <3>1 DEF Unread, ReaderTypes, ReaderInv
    <3>3. (pc = "recv" => Len(data) + Len(inq) > 0)'
      BY <2>1, <3>1 DEF ReaderInv
    <3> QED BY <2>1, <3>1, <3>2, <3>3, BytesMove
  <2>3. CASE ReaderNext
    BY <2>1, <2>3, SendCommandKeeps, ArriveKeeps, DispatchKeeps, RecvKeeps,
       RecvAgainKeeps DEF ReaderNext
  <2> QED BY <2>1, <2>2, <2>3
<1>3. ReaderInv => MessagesExecuted
  <2>1. SUFFICES ASSUME ReaderInv PROVE MessagesExecuted
    OBVIOUS
  <2>2. boundary => \E at \in Positions :
          /\ ExecutedAt(at)
          /\ single => \A j \in 1 .. Len(sent) :
                         ends[j] <= parsed /\ sent[j] # <<>> => j \in Range(at)
    BY <2>1 DEF ReaderInv, AtBoundary, Delivered
  <2>3. OnlySentExecuted
    BY <2>2 DEF OnlySentExecuted
  <2>4. SingleFramesExecuted
    BY <2>1, <2>2 DEF SingleFramesExecuted, ReaderInv
  <2> QED BY <2>3, <2>4 DEF MessagesExecuted
<1> QED BY <1>1, <1>2, <1>3, PTL DEF ReaderSpec

=============================================================================
