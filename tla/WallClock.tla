----------------------------- MODULE WallClock -----------------------------
(***************************************************************************)
(* Hardware::WallClock, the interrupt device that counts milliseconds: its *)
(* owner, the thread of the machine, calls start, poll and stop; a second  *)
(* thread, the poller, sets IDactive whenever a period has passed.  Every  *)
(* atomic access, lock and wait is an action; when a period has passed is  *)
(* left open.                                                              *)
(***************************************************************************)

VARIABLES
  polling,  \* the atomic that keeps the poller going
  IDactive, \* the atomic that holds an interrupt
  mx,       \* who holds the mutex: nobody, owner or poller
  owner,    \* where the owner is
  starting, \* stop was called by start
  joinable, \* poller.joinable()
  poller,   \* where the poller is in run
  timed     \* its last wait ended because the time had come

clockVars == <<polling, IDactive, mx, owner, starting, joinable, poller, timed>>
ownerVars == <<owner, starting, joinable>>

\* Neither atomic is initialised.
ClockInit ==
  /\ polling \in BOOLEAN
  /\ IDactive \in BOOLEAN
  /\ mx = "nobody"
  /\ owner = "out"
  /\ starting = FALSE
  /\ joinable = FALSE
  /\ poller = "none"
  /\ timed = FALSE

-----------------------------------------------------------------------------
(* The owner *)

Between == owner \in {"out", "on"}

StartClock ==
  /\ Between
  /\ owner' = "swap"
  /\ starting' = TRUE
  /\ UNCHANGED <<polling, IDactive, mx, joinable, poller, timed>>

StopClock ==
  /\ Between
  /\ owner' = "swap"
  /\ starting' = FALSE
  /\ UNCHANGED <<polling, IDactive, mx, joinable, poller, timed>>

\* Faulty variant: the owner notifies without having had the mutex.
SwapNoLock ==
  /\ owner = "swap"
  /\ polling' = FALSE
  /\ owner' = IF polling THEN "notify" ELSE "join"
  /\ UNCHANGED <<IDactive, mx, starting, joinable, poller, timed>>

\* compare_exchange_strong.
Swap ==
  /\ owner = "swap"
  /\ polling' = FALSE
  /\ owner' = IF polling THEN "lock" ELSE "join"
  /\ UNCHANGED <<IDactive, mx, starting, joinable, poller, timed>>

Lock ==
  /\ owner = "lock"
  /\ mx = "nobody"
  /\ mx' = "owner"
  /\ owner' = "unlock"
  /\ UNCHANGED <<polling, IDactive, starting, joinable, poller, timed>>

Unlock ==
  /\ owner = "unlock"
  /\ mx' = "nobody"
  /\ owner' = "notify"
  /\ UNCHANGED <<polling, IDactive, starting, joinable, poller, timed>>

Notify ==
  /\ owner = "notify"
  /\ owner' = "join"
  /\ IF poller = "sleep" THEN poller' = "wake" /\ timed' = FALSE
                         ELSE UNCHANGED <<poller, timed>>
  /\ UNCHANGED <<polling, IDactive, mx, starting, joinable>>

Join ==
  /\ owner = "join"
  /\ joinable => poller = "done"
  /\ joinable' = FALSE
  /\ poller' = "none"
  /\ owner' = IF starting THEN "store" ELSE "out"
  /\ UNCHANGED <<polling, IDactive, mx, starting, timed>>

Store ==
  /\ owner = "store"
  /\ polling' = TRUE
  /\ owner' = "spawn"
  /\ UNCHANGED <<IDactive, mx, starting, joinable, poller, timed>>

Spawn ==
  /\ owner = "spawn"
  /\ joinable' = TRUE
  /\ poller' = "begin"
  /\ owner' = "on"
  /\ UNCHANGED <<polling, IDactive, mx, starting, timed>>

\* IDactive.exchange(false): an interrupt is taken.
Poll ==
  /\ Between
  /\ IDactive' = FALSE
  /\ UNCHANGED <<polling, mx, ownerVars, poller, timed>>

-----------------------------------------------------------------------------
(* The poller *)

Begin ==
  /\ poller = "begin"
  /\ mx = "nobody"
  /\ mx' = "poller"
  /\ poller' = "while"
  /\ UNCHANGED <<polling, IDactive, ownerVars, timed>>

While ==
  /\ poller = "while"
  /\ poller' = IF polling THEN "predicate" ELSE "exit"
  /\ UNCHANGED <<polling, IDactive, mx, ownerVars, timed>>

\* wait_until asks its predicate; it holds the mutex until it sleeps.
Predicate ==
  /\ poller = "predicate"
  /\ poller' = IF polling THEN "doze" ELSE "after"
  /\ UNCHANGED <<polling, IDactive, mx, ownerVars, timed>>

Doze ==
  /\ poller = "doze"
  /\ poller' = "sleep"
  /\ mx' = "nobody"
  /\ UNCHANGED <<polling, IDactive, ownerVars, timed>>

Timeout ==
  /\ poller = "sleep"
  /\ poller' = "wake"
  /\ timed' = TRUE
  /\ UNCHANGED <<polling, IDactive, mx, ownerVars>>

WakeSpurious ==
  /\ poller = "sleep"
  /\ poller' = "wake"
  /\ timed' = FALSE
  /\ UNCHANGED <<polling, IDactive, mx, ownerVars>>

Wake ==
  /\ poller = "wake"
  /\ mx = "nobody"
  /\ mx' = "poller"
  /\ poller' = IF timed THEN "after" ELSE "predicate"
  /\ UNCHANGED <<polling, IDactive, ownerVars, timed>>

After ==
  /\ poller = "after"
  /\ poller' = IF polling THEN "tick" ELSE "exit"
  /\ UNCHANGED <<polling, IDactive, mx, ownerVars, timed>>

Tick ==
  /\ poller = "tick"
  /\ IDactive' = TRUE
  /\ poller' = "while"
  /\ UNCHANGED <<polling, mx, ownerVars, timed>>

Exit ==
  /\ poller = "exit"
  /\ poller' = "done"
  /\ mx' = "nobody"
  /\ UNCHANGED <<polling, IDactive, ownerVars, timed>>

-----------------------------------------------------------------------------

OwnerStep == Swap \/ Lock \/ Unlock \/ Notify \/ Join \/ Store \/ Spawn
PollerStep == Begin \/ While \/ Predicate \/ Doze \/ Wake \/ After \/ Tick
                \/ Exit

ClockNext == \/ StartClock \/ StopClock \/ Poll
             \/ OwnerStep
             \/ PollerStep \/ Timeout \/ WakeSpurious

ClockSpec == ClockInit /\ [][ClockNext]_clockVars

\* Both threads run and get the mutex in the end; periods may take for ever.
ClockFairSpec ==
  /\ ClockSpec
  /\ WF_clockVars(OwnerStep)
  /\ WF_clockVars(PollerStep)

-----------------------------------------------------------------------------
(* Correctness *)

Holding == {"while", "predicate", "doze", "after", "tick", "exit"}

ClockTypeOK ==
  /\ polling \in BOOLEAN
  /\ IDactive \in BOOLEAN
  /\ mx \in {"nobody", "owner", "poller"}
  /\ owner \in {"out", "on", "swap", "lock", "unlock", "notify", "join",
                "store", "spawn"}
  /\ starting \in BOOLEAN
  /\ joinable \in BOOLEAN
  /\ poller \in {"none", "begin", "sleep", "wake", "done"} \cup Holding
  /\ timed \in BOOLEAN

\* start creates a thread only where there is none: neither is a joinable
\* std::thread overwritten, which ends the process, nor do two pollers serve
\* one clock.
SpawnsAlone == owner \in {"store", "spawn"} => poller = "none" /\ ~joinable

\* After stop, and so after the destructor, no poller is left that could
\* touch the clock.
StoppedIsQuiet == owner = "out" => poller = "none"

\* The comment "wake the sleeper immediately": because stop has had the mutex
\* between clearing polling and notifying, the poller cannot have looked at
\* polling before and go to sleep after the notification.
WakesSleeper == owner = "join" => poller # "sleep"

\* The inductive invariant: the mutex is held where the code says so, polling
\* is as the owner left it, and from the notification on the poller does not
\* act on a value of polling that it read before.
MutexHeld == /\ mx = "poller" <=> poller \in Holding
             /\ mx = "owner" <=> owner = "unlock"

PollingAsSet ==
  /\ owner \in {"lock", "unlock", "notify", "join", "store"} => ~polling
  /\ owner \in {"on", "swap"} /\ poller # "none" => polling
  /\ owner = "spawn" => polling

NoStaleRead == owner \in {"notify", "join"} => poller # "doze"

ClockInv ==
  /\ ClockTypeOK
  /\ MutexHeld
  /\ joinable <=> poller # "none"
  /\ PollingAsSet
  /\ NoStaleRead
  /\ SpawnsAlone
  /\ StoppedIsQuiet
  /\ WakesSleeper

\* While the clock is on, interrupts keep coming, if periods end (the deadline
\* stays while the poller wakes up for no reason).
Ticks == owner = "on" ~> (IDactive \/ owner # "on")

=============================================================================
