----------------------------- MODULE WorkQueue ------------------------------
(***************************************************************************)
(* The multi-level feedback queue of network/Workers.{h,cpp} and the       *)
(* threads around it: the event loop, which enqueues new tasks             *)
(* (Connection::dispatch), and the workers (the lambda in Server::Server), *)
(* which dequeue a task, run it for its slice and enqueue it again.        *)
(*                                                                         *)
(* One action is one critical section or one atomic access of the code.    *)
(* qMtx[i] for i > 0 is only held inside an action; qMtx[0] is also held   *)
(* by a boost across its loop, and emptyMtx by dequeue from the predicate  *)
(* of the condition variable to the return, so these two are variables.    *)
(***************************************************************************)
EXTENDS Integers, Sequences, FiniteSets, SequencesExt

CONSTANTS Workers,   \* the threads of Server::workers
          Main,      \* the thread in Server::listen
          Tasks,     \* the tasks the event loop may create
          Levels,    \* LEVELS, 5 in the code
          MaxBoosts, \* bound: how often BOOST_QUANTA elapses in a behaviour
          NoTask, NoThread

ASSUME WorkQueueAssumption ==
         /\ Main \notin Workers
         /\ NoThread \notin Workers \cup {Main}
         /\ NoTask \notin Tasks
         /\ Workers \cap {"new", "pool", "done"} = {}
         /\ IsFiniteSet(Workers)
         /\ IsFiniteSet(Tasks)
         /\ Levels \in Nat \ {0}
         /\ MaxBoosts \in Nat

Threads == Workers \cup {Main}
Level == 0 .. Levels - 1

VARIABLES
  pc,         \* where each thread is
  hand,       \* the unique_ptr<Task> each thread owns
  lvl,        \* the loop index i of boost and of the scan in dequeue
  prev,       \* the value of lastBoost each thread loaded in checkQuanta
  levels,     \* _levels
  prio,       \* priorityLevel of each task
  size,       \* MLFQ::size
  lastBoost,  \* MLFQ::lastBoost, as the number of boosts claimed
  q0Owner,    \* holder of qMtx[0] (only across a boost)
  emptyOwner, \* holder of emptyMtx
  fresh,      \* tasks not created yet
  moved,      \* history: a boost moved tasks since the last scan began
  lostWake    \* history: a notify_one fell between a predicate and its wait

vars == <<pc, hand, lvl, prev, levels, prio, size, lastBoost,
          q0Owner, emptyOwner, fresh, moved, lostWake>>

-----------------------------------------------------------------------------

\* Every thread inside MLFQ, and what it does next.
Steps == {"idle",   \* the event loop, outside MLFQ
          "load",   \* checkQuanta: read the clock and lastBoost
          "claim",  \* checkQuanta: compare_exchange on lastBoost
          "boost0", \* boost: lock qMtx[0]
          "boost",  \* boost: the iteration for level lvl
          "push",   \* enqueue: append under qMtx
          "count",  \* enqueue: size.fetch_add
          "notify", \* enqueue: notify_one
          "lock",   \* dequeue: lock emptyMtx
          "test",   \* dequeue: the predicate size > 0
          "doze",   \* dequeue: predicate was false, about to block
          "blocked",\* dequeue: in the wait set of signalNonEmpty
          "scan",   \* dequeue: the iteration for level lvl
          "run",    \* worker: running the task in hand
          "crashed"}\* dequeue dereferenced a null task

IsWorker(th) == th \in Workers
Enqueuing(th) == hand[th] # NoTask

Queued == {t \in Tasks : \E i \in Level : \E k \in 1..Len(levels[i]) :
                            levels[i][k] = t}

\* A null dereference ends the process.
Running == \A th \in Threads : pc[th] # "crashed"

Goto(th, step) == pc' = [pc EXCEPT ![th] = step]

Init == /\ pc = [th \in Threads |-> IF th = Main THEN "idle" ELSE "load"]
        /\ hand = [th \in Threads |-> NoTask]
        /\ lvl = [th \in Threads |-> 0]
        /\ prev = [th \in Threads |-> 0]
        /\ levels = [i \in Level |-> << >>]
        /\ prio = [t \in Tasks |-> 0]
        /\ size = 0
        /\ lastBoost = 0
        /\ q0Owner = NoThread
        /\ emptyOwner = NoThread
        /\ fresh = Tasks
        /\ moved = FALSE
        /\ lostWake = FALSE

-----------------------------------------------------------------------------
(* The event loop *)

\* Connection::dispatch: generateTask returned a task, which is enqueued.
Submit(t) ==
  /\ pc[Main] = "idle"
  /\ t \in fresh
  /\ fresh' = fresh \ {t}
  /\ hand' = [hand EXCEPT ![Main] = t]
  /\ Goto(Main, "load")
  /\ UNCHANGED <<lvl, prev, levels, prio, size, lastBoost, q0Owner,
                 emptyOwner, moved, lostWake>>

-----------------------------------------------------------------------------
(* checkQuanta and boost, called first by both enqueue and dequeue *)

\* enqueue: priorityLevel = 0 after a boost, else it wraps at LEVELS.
EnterLevel(th, boosted) ==
  IF Enqueuing(th)
    THEN prio' = [prio EXCEPT ![hand[th]] = IF boosted THEN 0 ELSE @ % Levels]
    ELSE prio' = prio

AfterCheck(th) == IF Enqueuing(th) THEN "push" ELSE "lock"

\* Whether BOOST_QUANTA has elapsed at the clock reading is not determined
\* by the order of steps: both outcomes are possible, the second at most
\* MaxBoosts times.
NotDue(th) ==
  /\ pc[th] = "load"
  /\ Goto(th, AfterCheck(th))
  /\ EnterLevel(th, FALSE)
  /\ UNCHANGED <<hand, lvl, prev, levels, size, lastBoost, q0Owner,
                 emptyOwner, fresh, moved, lostWake>>

Due(th) ==
  /\ pc[th] = "load"
  /\ lastBoost < MaxBoosts
  /\ prev' = [prev EXCEPT ![th] = lastBoost]
  /\ Goto(th, "claim")
  /\ UNCHANGED <<hand, lvl, levels, prio, size, lastBoost, q0Owner,
                 emptyOwner, fresh, moved, lostWake>>

\* compare_exchange_strong(expected, desired).  checkQuanta returns true
\* whether or not the claim succeeds.
Claim(th) ==
  /\ pc[th] = "claim"
  /\ IF lastBoost = prev[th]
       THEN /\ lastBoost' = lastBoost + 1
            /\ Goto(th, "boost0")
       ELSE /\ Goto(th, AfterCheck(th))
            /\ UNCHANGED lastBoost
  /\ prev' = [prev EXCEPT ![th] = 0]
  /\ EnterLevel(th, TRUE)
  /\ UNCHANGED <<hand, lvl, levels, size, q0Owner, emptyOwner, fresh, moved,
                 lostWake>>

BoostLock(th) ==
  /\ pc[th] = "boost0"
  /\ q0Owner = NoThread
  /\ q0Owner' = th
  /\ lvl' = [lvl EXCEPT ![th] = 1]
  /\ Goto(th, "boost")
  /\ UNCHANGED <<hand, prev, levels, prio, size, lastBoost, emptyOwner,
                 fresh, moved, lostWake>>

\* Faulty variants: the tasks are popped and dropped; priorityLevel is kept.
BoostedLevelsDropped(i) == [levels EXCEPT ![i] = << >>]
BoostedPrioKept(i) == prio

\* The tasks of level i, taken from the back one at a time, go to the back
\* of level 0: they arrive reversed.
BoostedLevels(i) ==
  [levels EXCEPT ![0] = @ \o Reverse(levels[i]), ![i] = << >>]

BoostedPrio(i) ==
  [t \in Tasks |-> IF t \in ToSet(levels[i]) THEN 0 ELSE prio[t]]

BoostLevel(th) ==
  /\ pc[th] = "boost"
  /\ lvl[th] < Levels
  /\ levels' = BoostedLevels(lvl[th])
  /\ prio' = BoostedPrio(lvl[th])
  /\ moved' = (moved \/ levels[lvl[th]] # << >>)
  /\ lvl' = [lvl EXCEPT ![th] = @ + 1]
  /\ UNCHANGED <<pc, hand, prev, size, lastBoost, q0Owner, emptyOwner, fresh,
                 lostWake>>

\* Faulty variant: qMtx[0] is not released.
BoostUnlockKept(th) ==
  /\ pc[th] = "boost"
  /\ lvl[th] >= Levels
  /\ lvl' = [lvl EXCEPT ![th] = 0]
  /\ Goto(th, AfterCheck(th))
  /\ UNCHANGED <<hand, prev, levels, prio, size, lastBoost, q0Owner,
                 emptyOwner, fresh, moved, lostWake>>

BoostUnlock(th) ==
  /\ pc[th] = "boost"
  /\ lvl[th] >= Levels
  /\ q0Owner' = NoThread
  /\ lvl' = [lvl EXCEPT ![th] = 0]
  /\ Goto(th, AfterCheck(th))
  /\ UNCHANGED <<hand, prev, levels, prio, size, lastBoost, emptyOwner,
                 fresh, moved, lostWake>>

-----------------------------------------------------------------------------
(* The rest of enqueue *)

QMtxFree(i) == i = 0 => q0Owner = NoThread

PushedLevels(t) == [levels EXCEPT ![prio[t]] = Append(@, t)]

Push(th) ==
  /\ pc[th] = "push"
  /\ QMtxFree(prio[hand[th]])
  /\ levels' = PushedLevels(hand[th])
  /\ hand' = [hand EXCEPT ![th] = NoTask]
  /\ Goto(th, "count")
  /\ UNCHANGED <<lvl, prev, prio, size, lastBoost, q0Owner, emptyOwner,
                 fresh, moved, lostWake>>

\* Faulty variant: the task is not counted.
CountForgotten(th) ==
  /\ pc[th] = "count"
  /\ Goto(th, "notify")
  /\ UNCHANGED <<hand, lvl, prev, levels, prio, size, lastBoost, q0Owner,
                 emptyOwner, fresh, moved, lostWake>>

Count(th) ==
  /\ pc[th] = "count"
  /\ size' = size + 1
  /\ Goto(th, "notify")
  /\ UNCHANGED <<hand, lvl, prev, levels, prio, lastBoost, q0Owner,
                 emptyOwner, fresh, moved, lostWake>>

\* Faulty variant: notify_one is left out.
NobodyBlocked == {}

Blocked == {w \in Workers : pc[w] = "blocked"}

\* enqueue has returned: the event loop goes on, a worker calls dequeue.
AfterEnqueue(th) == IF IsWorker(th) THEN "load" ELSE "idle"

\* notify_one, called without emptyMtx: it wakes one blocked thread if there
\* is one, and has no effect on a thread that is about to block.
Notify(th) ==
  /\ pc[th] = "notify"
  /\ IF Blocked = {}
       THEN Goto(th, AfterEnqueue(th))
       ELSE \E w \in Blocked :
              pc' = [pc EXCEPT ![th] = AfterEnqueue(th), ![w] = "lock"]
  /\ lostWake' = (lostWake \/ \E w \in Workers : pc[w] = "doze")
  /\ UNCHANGED <<hand, lvl, prev, levels, prio, size, lastBoost, q0Owner,
                 emptyOwner, fresh, moved>>

-----------------------------------------------------------------------------
(* The rest of dequeue *)

\* Faulty variant: the scan is not exclusive.
LockShared(w) ==
  /\ pc[w] = "lock"
  /\ emptyOwner' = w
  /\ Goto(w, "test")
  /\ UNCHANGED <<hand, lvl, prev, levels, prio, size, lastBoost, q0Owner,
                 fresh, moved, lostWake>>

Lock(w) ==
  /\ pc[w] = "lock"
  /\ emptyOwner = NoThread
  /\ emptyOwner' = w
  /\ Goto(w, "test")
  /\ UNCHANGED <<hand, lvl, prev, levels, prio, size, lastBoost, q0Owner,
                 fresh, moved, lostWake>>

Test(w) ==
  /\ pc[w] = "test"
  /\ IF size > 0
       THEN Goto(w, "scan") /\ moved' = FALSE
       ELSE Goto(w, "doze") /\ UNCHANGED moved
  /\ UNCHANGED <<hand, lvl, prev, levels, prio, size, lastBoost, q0Owner,
                 emptyOwner, fresh, lostWake>>

\* The wait releases emptyMtx and joins the wait set atomically.
Block(w) ==
  /\ pc[w] = "doze"
  /\ emptyOwner' = NoThread
  /\ Goto(w, "blocked")
  /\ UNCHANGED <<hand, lvl, prev, levels, prio, size, lastBoost, q0Owner,
                 fresh, moved, lostWake>>

\* std::condition_variable may wake a waiter unasked.
SpuriousWake(w) ==
  /\ pc[w] = "blocked"
  /\ Goto(w, "lock")
  /\ UNCHANGED <<hand, lvl, prev, levels, prio, size, lastBoost, q0Owner,
                 emptyOwner, fresh, moved, lostWake>>

ScanEmpty(w) ==
  /\ pc[w] = "scan"
  /\ lvl[w] < Levels
  /\ QMtxFree(lvl[w])
  /\ levels[lvl[w]] = << >>
  /\ lvl' = [lvl EXCEPT ![w] = @ + 1]
  /\ UNCHANGED <<pc, hand, prev, levels, prio, size, lastBoost, q0Owner,
                 emptyOwner, fresh, moved, lostWake>>

\* Faulty variant: the front is moved from but not popped.
PoppedLevelsKept(i) == levels

PoppedLevels(i) == [levels EXCEPT ![i] = Tail(@)]

\* pop_front, fetch_sub, ++priorityLevel and the release of emptyMtx.  size
\* is read only under emptyMtx and the task is private once popped, so no
\* other thread sees a state in between.
ScanTake(w) ==
  /\ pc[w] = "scan"
  /\ lvl[w] < Levels
  /\ QMtxFree(lvl[w])
  /\ levels[lvl[w]] # << >>
  /\ LET t == Head(levels[lvl[w]])
     IN  /\ hand' = [hand EXCEPT ![w] = t]
         /\ prio' = [prio EXCEPT ![t] = @ + 1]
  /\ levels' = PoppedLevels(lvl[w])
  /\ size' = size - 1
  /\ emptyOwner' = NoThread
  /\ lvl' = [lvl EXCEPT ![w] = 0]
  /\ Goto(w, "run")
  /\ UNCHANGED <<prev, lastBoost, q0Owner, fresh, moved, lostWake>>

\* No level had a task: ++res->priorityLevel dereferences null.
ScanNull(w) ==
  /\ pc[w] = "scan"
  /\ lvl[w] >= Levels
  /\ Goto(w, "crashed")
  /\ UNCHANGED <<hand, lvl, prev, levels, prio, size, lastBoost, q0Owner,
                 emptyOwner, fresh, moved, lostWake>>

-----------------------------------------------------------------------------
(* The worker loop of Server::Server *)

\* run() returned false: the task is destroyed.
Finish(w) ==
  /\ pc[w] = "run"
  /\ hand' = [hand EXCEPT ![w] = NoTask]
  /\ Goto(w, "load")
  /\ UNCHANGED <<lvl, prev, levels, prio, size, lastBoost, q0Owner,
                 emptyOwner, fresh, moved, lostWake>>

\* run() returned true with the slice over: enqueue(std::move(currentTask)).
SliceOver(w) ==
  /\ pc[w] = "run"
  /\ Goto(w, "load")
  /\ UNCHANGED <<hand, lvl, prev, levels, prio, size, lastBoost, q0Owner,
                 emptyOwner, fresh, moved, lostWake>>

-----------------------------------------------------------------------------

CheckQuanta(th) == \/ NotDue(th) \/ Due(th) \/ Claim(th)
                   \/ BoostLock(th) \/ BoostLevel(th) \/ BoostUnlock(th)
Enqueue(th) == Push(th) \/ Count(th) \/ Notify(th)
Dequeue(w) == \/ Lock(w) \/ Test(w) \/ Block(w)
              \/ ScanEmpty(w) \/ ScanTake(w) \/ ScanNull(w)
RunTask(w) == Finish(w) \/ SliceOver(w)

Next == /\ Running
        /\ \/ \E t \in Tasks : Submit(t)
           \/ \E th \in Threads : CheckQuanta(th) \/ Enqueue(th)
           \/ \E w \in Workers : Dequeue(w) \/ SpuriousWake(w) \/ RunTask(w)

Spec == Init /\ [][Next]_vars

\* The operating system runs every thread that is not waiting for a lock; a
\* worker that waits for emptyMtx, which the other workers take and release
\* again and again, gets it.  The qMtx are held too briefly, and boosts are too
\* rare (one in BOOST_QUANTA), to need more.  A slice ends because each call of
\* run() is short.  Nothing obliges clients to send or wakeups to be spurious.
WorkerStep(w) == Dequeue(w) \/ RunTask(w)

FairSpec ==
  /\ Spec
  /\ WF_vars(Running /\ (CheckQuanta(Main) \/ Enqueue(Main)))
  /\ \A w \in Workers :
       /\ WF_vars(Running /\ (CheckQuanta(w) \/ Enqueue(w) \/ WorkerStep(w)))
       /\ SF_vars(Running /\ Lock(w))

-----------------------------------------------------------------------------
(* Correctness *)

\* Types, with the range of the index into _levels and qMtx that enqueue uses
\* (priorityLevel itself reaches LEVELS in the hands of a worker).
StateTypes ==
  /\ pc \in [Threads -> Steps]
  /\ hand \in [Threads -> Tasks \cup {NoTask}]
  /\ lvl \in [Threads -> 0 .. Levels]
  /\ prev \in [Threads -> Nat]
  /\ levels \in [Level -> Seq(Tasks)]
  /\ prio \in [Tasks -> 0 .. Levels]
  /\ size \in Int
  /\ lastBoost \in Nat
  /\ q0Owner \in Threads \cup {NoThread}
  /\ emptyOwner \in Workers \cup {NoThread}
  /\ fresh \subseteq Tasks
  /\ \A th \in Threads : pc[th] = "push" => prio[hand[th]] \in Level

FlagTypes == moved \in BOOLEAN /\ lostWake \in BOOLEAN

TypeOK == StateTypes /\ FlagTypes

\* A task is never lost, duplicated or shared: it waits in one slot of one
\* level, or is owned by one thread, or is not yet created, or is destroyed.
\* The unique_ptrs promise as much only if every move is paired with a pop.
OnePlace ==
  /\ \A i, j \in Level : \A m \in 1..Len(levels[i]), n \in 1..Len(levels[j]) :
       levels[i][m] = levels[j][n] => i = j /\ m = n
  /\ \A t \in Queued : \A th \in Threads : hand[th] # t
  /\ \A t, u \in Threads : hand[t] = hand[u] /\ hand[t] # NoTask => t = u
  /\ \A t \in fresh : t \notin Queued /\ \A th \in Threads : hand[th] # t

\* size is written outside the mutexes of the levels, so it may lag behind
\* the queues, but only by the enqueues between their push and their
\* fetch_add, and the size_t never wraps below zero.
SizeAccounting ==
  /\ size >= 0
  /\ size + Cardinality({th \in Threads : pc[th] = "count"})
       = Cardinality(Queued)

\* enqueue, dequeue and boost keep a task's priorityLevel equal to the level
\* whose list it is on, although it is changed under different mutexes.
PriorityMatchesLevel ==
  \A i \in Level : \A k \in 1..Len(levels[i]) : prio[levels[i][k]] = i

\* emptyMtx makes the predicate of the wait good for the whole scan: as long
\* as no boost moves tasks meanwhile, the scan finds one at its level or below.
ScanFindsUnlessBoosted ==
  \A w \in Workers : pc[w] = "scan" /\ ~moved =>
    \E i \in Level : i >= lvl[w] /\ levels[i] # << >>

\* A task waits while every worker sleeps and no enqueue is under way only
\* if a notify_one was lost to a worker between its predicate and its wait,
\* enqueue not holding emptyMtx when it notifies.
StrandedOnlyByLostWakeup ==
  (/\ Queued # {}
   /\ \A w \in Workers : pc[w] = "blocked"
   /\ pc[Main] = "idle") => lostWake

\* Workers.h:46: dequeue may return null, and the worker loop then continues
\* (Server.cpp:426).  What the code does instead is dereference it.
NullIsReturned == Running

\* Every enqueue returns, and every dequeue returns or blocks: the orders in
\* which emptyMtx, qMtx[0] and the other qMtx are taken do not deadlock.
OutsideQueue(th) == pc[th] \in {"idle", "run", "blocked"}

QueueCallsReturn ==
  \A th \in Threads : ~OutsideQueue(th) ~> OutsideQueue(th) \/ ~Running

\* The queue implements TaskPool: what its callers rely on.
Holder(t) == {w \in Workers : hand[w] = t}

PoolPlace ==
  [t \in Tasks |-> IF t \in fresh \/ hand[Main] = t THEN "new"
                   ELSE IF Holder(t) # {} THEN CHOOSE w \in Holder(t) : TRUE
                   ELSE IF t \in Queued THEN "pool" ELSE "done"]

PoolOf == INSTANCE TaskPool WITH place <- PoolPlace

PoolRefinement == PoolOf!Spec

=============================================================================
