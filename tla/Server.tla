------------------------------- MODULE Server -------------------------------
(***************************************************************************)
(* The event loop, the connections and the VM tasks of network/Server.cpp. *)
(* The main thread accepts clients, reads their frames and turns them into *)
(* tasks; the workers run the tasks.  A Connection lives as long as it is  *)
(* in the list of the server or locked by a worker (shared_ptr); its       *)
(* Machine is a raw pointer that moves between the Connection and a task.  *)
(*                                                                         *)
(* The scheduler is the abstract TaskPool, which WorkQueue implements.  A  *)
(* machine is named by the connection that created it.                     *)
(***************************************************************************)
EXTENDS Integers, FiniteSets, FiniteSetsExt

CONSTANTS Conns,       \* the clients that may connect, each once
          Workers,     \* the threads of Server::workers
          Tasks,       \* the tasks the main thread may create
          KernelBytes, \* bound: bytes LoadKernel writes
          MaxSteps,    \* bound: the argument of a STEP command
          Null,        \* a null pointer
          Listener     \* the Server itself, as the EventListener of accept

ASSUME ServerAssumption ==
         /\ Null \notin Conns \cup Tasks \cup Workers
         /\ Conns \cap Tasks = {}
         /\ Listener \notin Conns
         /\ KernelBytes \in Nat \ {0}
         /\ MaxSteps \in Nat \ {0}

\* What a client sends.  "upgrade" stands for the HTTP request of the
\* handshake and, later, for any frame that names no command; "empty" is a
\* frame without payload.
Requests == {"upgrade", "empty", "forward", "load", "step"}
VMKinds == {"load", "step"}

VARIABLES
  peer,        \* the client's end: away, open, fin (closed), rst (reset)
  inbox,       \* the first frame in the socket's receive buffer
  conn,        \* the Connection object: none, live, dead
  listed,      \* Server::connections
  handshake,   \* handshakeStarted
  connVM,      \* Connection::vm
  runningTask, \* Connection::runningTask
  freed,       \* how often each Machine was deleted
  halted,      \* machines whose program ended (Machine::killed)
  batch,       \* events returned by epoll_wait and not dispatched yet
  place,       \* TaskPool: where each task is
  task,        \* kind, connection (weak_ptr) and work left of each task
  taskVM,      \* VMTask::vm
  wpc,         \* where each worker is
  held,        \* the shared_ptr a worker got from weak_ptr::lock
  proc,        \* the process: up, terminated, undefined (after UB)
  heldAtKill   \* history: connections killed while a worker held them

netVars == <<peer, inbox>>
connVars == <<conn, listed, handshake, runningTask>>
vmVars == <<connVM, taskVM, freed>>
taskVars == <<place, task>>
workVars == <<wpc, held>>
vars == <<netVars, connVars, vmVars, halted, batch, taskVars, workVars,
          proc, heldAtKill>>

Pool == INSTANCE TaskPool

ASSUME PlacesAssumption ==
         Workers \cap {Pool!New, Pool!Pool, Pool!Done} = {}

-----------------------------------------------------------------------------

NoTaskRecord == [kind |-> "none", conn |-> Null, left |-> 0]

Init ==
  /\ peer = [c \in Conns |-> "away"]
  /\ inbox = [c \in Conns |-> "none"]
  /\ conn = [c \in Conns |-> "none"]
  /\ listed = {}
  /\ handshake = [c \in Conns |-> FALSE]
  /\ connVM = [c \in Conns |-> Null]
  /\ runningTask = [c \in Conns |-> Null]
  /\ freed = [c \in Conns |-> 0]
  /\ halted = {}
  /\ batch = {}
  /\ Pool!Init
  /\ task = [t \in Tasks |-> NoTaskRecord]
  /\ taskVM = [t \in Tasks |-> Null]
  /\ wpc = [w \in Workers |-> "idle"]
  /\ held = [w \in Workers |-> Null]
  /\ proc = "up"
  /\ heldAtKill = {}

Up == proc = "up"

-----------------------------------------------------------------------------
(* The clients and their sockets *)

Connect(c) ==
  /\ peer[c] = "away"
  /\ peer' = [peer EXCEPT ![c] = "open"]
  /\ UNCHANGED <<inbox, connVars, vmVars, halted, batch, taskVars,
                 workVars, proc, heldAtKill>>

\* Connection::dispatch reads all there is and decodes one frame, so a frame
\* behind another that is still unread is lost: only the first is kept.
ClientSend(c) ==
  /\ peer[c] = "open"
  /\ inbox[c] = "none"
  /\ \E r \in Requests : inbox' = [inbox EXCEPT ![c] = r]
  /\ UNCHANGED <<peer, connVars, vmVars, halted, batch, taskVars,
                 workVars, proc, heldAtKill>>

\* The client closes, or it resets the connection (a close can turn into a
\* reset when data still arrives).
Leave(c) ==
  /\ \/ peer[c] = "open" /\ peer' = [peer EXCEPT ![c] = "fin"]
     \/ peer[c] \in {"open", "fin"} /\ peer' = [peer EXCEPT ![c] = "rst"]
  /\ UNCHANGED <<inbox, connVars, vmVars, halted, batch, taskVars,
                 workVars, proc, heldAtKill>>

\* ::send on a reset connection: send throws (or SIGPIPE), nobody catches.
SendFails(c) == peer[c] = "rst"

Terminate == /\ proc' = "terminated"
             /\ UNCHANGED <<netVars, connVars, vmVars, halted, batch,
                            taskVars, workVars, heldAtKill>>

-----------------------------------------------------------------------------
(* Lifetime of a Connection *)

Holders(c) == {w \in Workers : held[w] = c}

\* ~Connection: closes the socket and deletes the machine it owns.
Destroyed(c) == conn' = [conn EXCEPT ![c] = "dead"]

\* Faulty variant: the machine is not deleted.
FreedByConnLeaked(c) == freed

FreedByConn(c) ==
  IF connVM[c] # Null THEN [freed EXCEPT ![connVM[c]] = @ + 1] ELSE freed

Destroy(c) == /\ Destroyed(c)
              /\ freed' = FreedByConn(c)
              /\ connVM' = [connVM EXCEPT ![c] = Null]

\* A worker's shared_ptr goes out of scope.
Release(w) ==
  LET c == held[w]
  IN  /\ held' = [held EXCEPT ![w] = Null]
      /\ IF c # Null /\ c \notin listed /\ Holders(c) = {w}
           THEN Destroy(c)
           ELSE UNCHANGED <<conn, freed, connVM>>

\* kill: container->erase(self).  The second erase of a node is undefined.
Kill(c) ==
  IF c \in listed
    THEN /\ listed' = listed \ {c}
         /\ IF Holders(c) = {}
              THEN Destroy(c) /\ UNCHANGED heldAtKill
              ELSE /\ heldAtKill' = heldAtKill \cup {c}
                   /\ UNCHANGED <<conn, freed, connVM>>
         /\ UNCHANGED proc
    ELSE /\ proc' = "undefined"
         /\ UNCHANGED <<listed, conn, freed, connVM, heldAtKill>>

-----------------------------------------------------------------------------
(* The event loop: Server::listen *)

\* Faulty variant: ~Connection does not close the socket.
ReadableUnclosed(c) ==
  conn[c] # "none" /\ (inbox[c] # "none" \/ peer[c] # "open")

\* The socket of a live Connection is registered until ~Connection closes it.
Readable(c) == conn[c] = "live" /\ (inbox[c] # "none" \/ peer[c] # "open")
Waiting == {c \in Conns : conn[c] = "none" /\ peer[c] # "away"}
Ready == {c \in Conns : Readable(c)} \cup (IF Waiting = {} THEN {} ELSE {Listener})

EventOf(l) == [ptr |-> l,
               type |-> IF l # Listener /\ peer[l] = "rst" THEN "err" ELSE "in"]

\* possible_events.size(): the array is resized after each batch, and only
\* this thread changes the list.
Capacity == Cardinality(listed) + 1

EpollWait ==
  /\ batch = {}
  /\ Ready # {}
  /\ LET size == Min({Capacity, Cardinality(Ready)})
     IN  \E ls \in kSubset(size, Ready) : batch' = {EventOf(l) : l \in ls}
  /\ UNCHANGED <<netVars, connVars, vmVars, halted, taskVars, workVars, proc,
                 heldAtKill>>

EventDone(e) == batch' = batch \ {e}

\* Server::dispatch: accept until EAGAIN.  A Connection owns a new Machine.
Accept(e) ==
  /\ e \in batch
  /\ e.ptr = Listener
  /\ conn' = [c \in Conns |-> IF c \in Waiting THEN "live" ELSE conn[c]]
  /\ connVM' = [c \in Conns |-> IF c \in Waiting THEN c ELSE connVM[c]]
  /\ listed' = listed \cup Waiting
  /\ EventDone(e)
  /\ UNCHANGED <<netVars, handshake, runningTask, taskVM, freed, halted,
                 taskVars, workVars, proc, heldAtKill>>

\* The Connection of the event is gone: a call through a dangling pointer.
DispatchDangling(e) ==
  /\ e \in batch
  /\ e.ptr \in Conns
  /\ conn[e.ptr] = "dead"
  /\ proc' = "undefined"
  /\ UNCHANGED <<netVars, connVars, vmVars, halted, batch, taskVars,
                 workVars, heldAtKill>>

Dispatch(e, c) == e \in batch /\ e.ptr = c /\ conn[c] = "live"

\* EPOLLERR, or recv returns 0 after whatever data there was.
DispatchLost(e, c) ==
  /\ Dispatch(e, c)
  /\ e.type = "err" \/ peer[c] = "fin"
  /\ Kill(c)
  /\ EventDone(e)
  /\ inbox' = IF e.type = "err" THEN inbox ELSE [inbox EXCEPT ![c] = "none"]
  /\ UNCHANGED <<peer, handshake, runningTask, taskVM, halted, taskVars,
                 workVars>>

\* recv fails for another reason than EAGAIN: the exception leaves main.
DispatchThrows(e, c) ==
  /\ Dispatch(e, c)
  /\ e.type = "in" /\ peer[c] = "rst"
  /\ Terminate

Received(e, c) ==
  /\ Dispatch(e, c)
  /\ e.type = "in" /\ peer[c] = "open"
  /\ EventDone(e)
  /\ inbox' = [inbox EXCEPT ![c] = "none"]
  /\ UNCHANGED peer

DispatchHandshake(e, c) ==
  /\ Received(e, c)
  /\ ~handshake[c]
  /\ IF inbox[c] = "upgrade"
       THEN /\ handshake' = [handshake EXCEPT ![c] = TRUE]
            /\ UNCHANGED <<listed, conn, freed, connVM, proc, heldAtKill>>
       ELSE Kill(c) /\ UNCHANGED handshake
  /\ UNCHANGED <<runningTask, taskVM, halted, taskVars, workVars>>

\* A frame without payload is answered, one without a command ignored, and so
\* is a VM command while the machine is with another task.
DispatchNoTask(e, c) ==
  /\ Received(e, c)
  /\ handshake[c]
  /\ \/ inbox[c] \in {"empty", "upgrade"}
     \/ inbox[c] \in VMKinds /\ connVM[c] = Null
  /\ UNCHANGED <<connVars, vmVars, halted, taskVars, workVars, proc,
                 heldAtKill>>

\* FORWARD and TERMINATE.
DispatchForward(e, c) ==
  /\ Received(e, c)
  /\ handshake[c]
  /\ inbox[c] = "forward"
  /\ \E t \in Tasks :
       /\ Pool!Submit(t)
       /\ task' = [task EXCEPT ![t] =
                     [kind |-> "forward", conn |-> c, left |-> 0]]
  /\ UNCHANGED <<connVars, vmVars, halted, workVars, proc, heldAtKill>>

\* Faulty variant: load instead of exchange.
ClaimedLoad(c) == connVM

Claimed(c) == [connVM EXCEPT ![c] = Null]

\* LOAD_KERNEL and STEP: generateTask moves the machine to the new task.  Only
\* the exchange on connVM is visible to the workers before the enqueue.
DispatchVMTask(e, c) ==
  /\ Received(e, c)
  /\ handshake[c]
  /\ inbox[c] \in VMKinds
  /\ connVM[c] # Null
  /\ \E t \in Tasks :
     \E n \in IF inbox[c] = "load" THEN {KernelBytes} ELSE 1..MaxSteps :
       /\ Pool!Submit(t)
       /\ task' = [task EXCEPT ![t] =
                     [kind |-> inbox[c], conn |-> c, left |-> n]]
       /\ runningTask' = [runningTask EXCEPT ![c] = t]
       /\ taskVM' = [taskVM EXCEPT ![t] = connVM[c]]
  /\ connVM' = Claimed(c)
  /\ UNCHANGED <<conn, listed, handshake, freed, halted, workVars, proc,
                 heldAtKill>>

-----------------------------------------------------------------------------
(* The workers: one call of run() after another *)

HandOf(w) == CHOOSE t \in Tasks : place[t] = w

WorkerGoto(w, step) == wpc' = [wpc EXCEPT ![w] = step]

\* dequeue.
Take(w, t) ==
  /\ wpc[w] = "idle"
  /\ Pool!Take(w, t)
  /\ WorkerGoto(w, "taken")
  /\ UNCHANGED <<netVars, connVars, vmVars, halted, batch, task, held,
                 proc, heldAtKill>>

\* run() returned FALSE: the task is about to be destroyed.
AfterRun == "destroy"

\* Step::run returns before it looks at the connection.
NothingLeft(t) == task[t].kind = "step" /\ task[t].left = 0

\* run() begins: it locks the connection, or returns false.
RunStarts(w) ==
  /\ wpc[w] \in {"taken", "ran"}
  /\ LET t == HandOf(w)
     IN  IF NothingLeft(t) \/ conn[task[t].conn] # "live"
           THEN WorkerGoto(w, AfterRun) /\ UNCHANGED held
           ELSE /\ WorkerGoto(w, "work")
                /\ held' = [held EXCEPT ![w] = task[t].conn]
  /\ UNCHANGED <<netVars, connVars, vmVars, halted, batch, taskVars,
                 proc, heldAtKill>>

\* Forward::run and Terminate::run: send, return false.
RunForward(w) ==
  /\ wpc[w] = "work"
  /\ task[HandOf(w)].kind = "forward"
  /\ ~SendFails(held[w])
  /\ WorkerGoto(w, AfterRun)
  /\ Release(w)
  /\ UNCHANGED <<netVars, listed, handshake, runningTask, taskVM, halted,
                 batch, taskVars, proc, heldAtKill>>

\* LoadKernel::run writes one byte; it returns false with the last one.
RunLoad(w) ==
  /\ wpc[w] = "work"
  /\ LET t == HandOf(w)
     IN  /\ task[t].kind = "load"
         /\ task' = [task EXCEPT ![t].left = @ - 1]
         /\ WorkerGoto(w, IF task[t].left = 1 THEN AfterRun ELSE "ran")
  /\ Release(w)
  /\ UNCHANGED <<netVars, listed, handshake, runningTask, taskVM, halted,
                 batch, place, proc, heldAtKill>>

\* Step::run with Machine::killed set: it sends a message.
RunHalted(w) ==
  /\ wpc[w] = "work"
  /\ LET t == HandOf(w)
     IN  task[t].kind = "step" /\ taskVM[t] \in halted
  /\ ~SendFails(held[w])
  /\ WorkerGoto(w, AfterRun)
  /\ Release(w)
  /\ UNCHANGED <<netVars, listed, handshake, runningTask, taskVM, halted,
                 batch, taskVars, proc, heldAtKill>>

\* Machine::step: the guest may halt; what it prints is sent, and a failure
\* of that send is caught.
RunStep(w) ==
  /\ wpc[w] = "work"
  /\ LET t == HandOf(w)
     IN  /\ task[t].kind = "step" /\ taskVM[t] \notin halted
         /\ task' = [task EXCEPT ![t].left = @ - 1]
         /\ halted' \in {halted, halted \cup {taskVM[t]}}
  /\ WorkerGoto(w, "ran")
  /\ Release(w)
  /\ UNCHANGED <<netVars, listed, handshake, runningTask, taskVM, batch,
                 place, proc, heldAtKill>>

\* Forward, Terminate and the message of Step: the exception leaves the
\* thread.
RunThrows(w) ==
  /\ wpc[w] = "work"
  /\ LET t == HandOf(w)
     IN  \/ task[t].kind = "forward"
         \/ task[t].kind = "step" /\ taskVM[t] \in halted
  /\ SendFails(held[w])
  /\ Terminate

\* Faulty variant: the task is destroyed when its slice is over.
SliceOverDropped(w) ==
  /\ wpc[w] = "ran"
  /\ WorkerGoto(w, AfterRun)
  /\ UNCHANGED <<netVars, connVars, vmVars, halted, batch, taskVars, held,
                 proc, heldAtKill>>

\* run() returned true and the slice is over.
SliceOver(w) ==
  /\ wpc[w] = "ran"
  /\ Pool!Resubmit(w, HandOf(w))
  /\ WorkerGoto(w, "idle")
  /\ UNCHANGED <<netVars, connVars, vmVars, halted, batch, task, held,
                 proc, heldAtKill>>

-----------------------------------------------------------------------------
(* The workers: a task is destroyed *)

IsVMTask(t) == task[t].kind \in VMKinds

\* ~VMTask begins: conn.lock().
LockConn(w) ==
  /\ wpc[w] = "destroy"
  /\ LET t == HandOf(w)
     IN  /\ IsVMTask(t)
         /\ held' = [held EXCEPT ![w] = IF conn[task[t].conn] = "live"
                                          THEN task[t].conn ELSE Null]
  /\ WorkerGoto(w, "giveBack")
  /\ UNCHANGED <<netVars, connVars, vmVars, halted, batch, taskVars,
                 proc, heldAtKill>>

\* Faulty variant: the machine is not stored.
GiveBackForgotten(w) ==
  /\ wpc[w] = "giveBack"
  /\ held[w] # Null
  /\ ~SendFails(held[w])
  /\ taskVM' = [taskVM EXCEPT ![HandOf(w)] = Null]
  /\ WorkerGoto(w, "leave")
  /\ UNCHANGED <<netVars, connVars, connVM, freed, halted, batch, taskVars,
                 held, proc, heldAtKill>>

\* ~VMTask: the machine goes back to the Connection.  Until the store, the
\* exchange and the send are the task's own.
GiveBack(w) ==
  /\ wpc[w] = "giveBack"
  /\ held[w] # Null
  /\ ~SendFails(held[w])
  /\ LET t == HandOf(w)
     IN  /\ connVM' = [connVM EXCEPT ![held[w]] = taskVM[t]]
         /\ taskVM' = [taskVM EXCEPT ![t] = Null]
  /\ WorkerGoto(w, "leave")
  /\ UNCHANGED <<netVars, connVars, freed, halted, batch, taskVars, held,
                 proc, heldAtKill>>

\* An exception leaves the destructor.
GiveBackThrows(w) ==
  /\ wpc[w] = "giveBack"
  /\ held[w] # Null
  /\ SendFails(held[w])
  /\ Terminate

\* ~VMTask without a Connection: the machine is deleted.
DeleteMachine(w) ==
  /\ wpc[w] = "giveBack"
  /\ held[w] = Null
  /\ LET t == HandOf(w)
     IN  /\ freed' = [freed EXCEPT ![taskVM[t]] = @ + 1]
         /\ taskVM' = [taskVM EXCEPT ![t] = Null]
  /\ WorkerGoto(w, "leave")
  /\ UNCHANGED <<netVars, connVars, connVM, halted, batch, taskVars, held,
                 proc, heldAtKill>>

\* The destructor ends; its shared_ptr may be the last one.
TaskDone(w) ==
  /\ \/ wpc[w] = "leave"
     \/ wpc[w] = "destroy" /\ ~IsVMTask(HandOf(w))
  /\ Pool!Finish(w, HandOf(w))
  /\ WorkerGoto(w, "idle")
  /\ Release(w)
  /\ UNCHANGED <<netVars, listed, handshake, runningTask, taskVM, halted,
                 batch, task, proc, heldAtKill>>

-----------------------------------------------------------------------------

ClientStep(c) == Connect(c) \/ ClientSend(c) \/ Leave(c)

LoopStep(e) ==
  \/ Accept(e) \/ DispatchDangling(e)
  \/ \E c \in Conns :
       \/ DispatchLost(e, c) \/ DispatchThrows(e, c) \/ DispatchHandshake(e, c)
       \/ DispatchNoTask(e, c) \/ DispatchForward(e, c) \/ DispatchVMTask(e, c)

RunReturns(w) == \/ RunForward(w) \/ RunLoad(w) \/ RunHalted(w)
                 \/ RunStep(w) \/ RunThrows(w)

EndTask(w) == \/ LockConn(w) \/ GiveBack(w) \/ GiveBackThrows(w)
              \/ DeleteMachine(w) \/ TaskDone(w)

WorkerStep(w) == RunStarts(w) \/ RunReturns(w) \/ SliceOver(w) \/ EndTask(w)

Next == /\ Up
        /\ \/ \E c \in Conns : ClientStep(c)
           \/ EpollWait
           \/ \E e \in batch : LoopStep(e)
           \/ \E w \in Workers, t \in Tasks : Take(w, t)
           \/ \E w \in Workers : WorkerStep(w)

Spec == Init /\ [][Next]_vars

\* A worker that has a task goes on with it: nothing in run(), ~VMTask or
\* enqueue waits for another thread for ever.  dequeue is not fair (see
\* WorkQueue), and clients and the event loop owe nothing here.
FairSpec == Spec /\ \A w \in Workers : WF_vars(Up /\ WorkerStep(w))

-----------------------------------------------------------------------------
(* Correctness *)

TypeOK ==
  /\ peer \in [Conns -> {"away", "open", "fin", "rst"}]
  /\ inbox \in [Conns -> Requests \cup {"none"}]
  /\ conn \in [Conns -> {"none", "live", "dead"}]
  /\ listed \subseteq Conns
  /\ handshake \in [Conns -> BOOLEAN]
  /\ connVM \in [Conns -> Conns \cup {Null}]
  /\ runningTask \in [Conns -> Tasks \cup {Null}]
  /\ freed \in [Conns -> Nat]
  /\ halted \subseteq Conns
  /\ batch \subseteq [ptr : Conns \cup {Listener}, type : {"in", "err"}]
  /\ place \in [Tasks -> Workers \cup {Pool!New, Pool!Pool, Pool!Done}]
  /\ task \in [Tasks -> [kind : {"none", "forward"} \cup VMKinds,
                         conn : Conns \cup {Null}, left : Nat]]
  /\ taskVM \in [Tasks -> Conns \cup {Null}]
  /\ wpc \in [Workers -> {"idle", "taken", "ran", "work", "destroy",
                          "giveBack", "leave"}]
  /\ held \in [Workers -> Conns \cup {Null}]
  /\ proc \in {"up", "terminated", "undefined"}
  /\ heldAtKill \subseteq Conns

\* Server.h:48-56: a machine has one owner, the Connection or one VMTask, that
\* still exists; it is deleted once, after which nobody owns it.  kill on the
\* main thread races with run and ~VMTask on a worker, so run() would use a
\* machine that is gone, or that another worker uses.
Owners(m) == {c \in Conns : connVM[c] = m} \cup {t \in Tasks : taskVM[t] = m}

OneOwner ==
  \A m \in Conns :
    /\ Cardinality(Owners(m)) + freed[m] = (IF conn[m] = "none" THEN 0 ELSE 1)
    /\ \A c \in Conns : connVM[c] = m => c = m /\ conn[c] = "live"
    /\ \A t \in Tasks : taskVM[t] = m => place[t] # Pool!Done

\* Server.h:55: vm.load() == nullptr means runningTask is a valid pointer, to
\* the task that has the machine of this very Connection.
RunningTaskValid ==
  \A c \in Conns : conn[c] = "live" /\ connVM[c] = Null =>
    /\ runningTask[c] # Null
    /\ place[runningTask[c]] # Pool!Done
    /\ taskVM[runningTask[c]] = c

\* The exit message ("Kernel loaded!", "Completed steps!") is sent only when
\* that is so or the program has ended, however the task was cut into slices
\* and whichever of run and ~VMTask found the Connection alive.
CompletionIsReal ==
  \A w \in Workers : wpc[w] = "giveBack" /\ held[w] # Null =>
    LET t == HandOf(w) IN task[t].left = 0 \/ taskVM[t] \in halted

\* The server goes down for two reasons only: undefined behaviour (a second
\* erase of the list node, a dangling pointer in an epoll event) needs a kill
\* while a worker holds the Connection, and an exception that nothing catches
\* needs a client that reset its connection.
DownOnlyForCause ==
  /\ proc = "undefined" => heldAtKill # {}
  /\ proc = "terminated" => \E c \in Conns : peer[c] = "rst"

\* Server.h:43: a Connection has the iterator to remove itself.  kill erases a
\* node of the list once only if nothing dispatches to the Connection again.
RemovesItselfOnce == proc # "undefined"

\* A killed Connection is destroyed (and its socket closed) in the end.
ZombieReaped ==
  \A c \in Conns :
    conn[c] = "live" /\ c \notin listed ~> conn[c] = "dead" \/ ~Up

\* The raw pointers implement the ownership that the comments describe.
MachineOwner ==
  [m \in Conns |->
     IF conn[m] = "none" THEN "none"
     ELSE IF freed[m] = 1 /\ Owners(m) = {} THEN "freed"
     ELSE IF freed[m] = 0 /\ Owners(m) = {m} THEN "conn"
     ELSE IF freed[m] = 0 /\ \E t \in Tasks : Owners(m) = {t} THEN "task"
     ELSE "invalid"]

Ownership == INSTANCE VMOwnership WITH Machines <- Conns, owner <- MachineOwner

OwnershipRefinement == Ownership!Spec

=============================================================================
