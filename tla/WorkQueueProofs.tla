-------------------------- MODULE WorkQueueProofs ---------------------------
(***************************************************************************)
(* Proofs about WorkQueue, for any number of workers, tasks, levels and    *)
(* boosts.  The inductive invariant has four layers: the control state     *)
(* (types, lock ownership, what a thread holds where), the places of the   *)
(* tasks, the count of the tasks, and what a dequeue may rely on.          *)
(***************************************************************************)
EXTENDS WorkQueue, FiniteSetTheorems, TLAPS

\* Who holds the two mutexes that outlive a step.
LockInv ==
  /\ \A th \in Threads : pc[th] = "boost" <=> q0Owner = th
  /\ \A w \in Workers :
       pc[w] \in {"test", "doze", "scan", "crashed"} <=> emptyOwner = w

\* Where a thread owns a task and where it does not.
HandInv ==
  /\ \A th \in Threads :
       /\ pc[th] \in {"push", "run"} => hand[th] # NoTask
       /\ pc[th] \in {"idle", "count", "notify", "lock", "test", "doze",
                      "blocked", "scan", "crashed"} => hand[th] = NoTask
  /\ \A w \in Workers : pc[w] # "idle"
  /\ pc[Main] \in {"idle", "load", "claim", "boost0", "boost", "push",
                   "count", "notify"}
  /\ pc[Main] \in {"load", "claim", "boost0", "boost"} => hand[Main] # NoTask

\* The loop indices, and the priority of a task that waits for a boost to end.
IndexInv ==
  \A th \in Threads :
    /\ pc[th] \notin {"boost", "scan", "crashed"} => lvl[th] = 0
    /\ pc[th] = "boost" => lvl[th] >= 1
    /\ pc[th] \in {"boost0", "boost"} /\ hand[th] # NoTask =>
         prio[hand[th]] = 0

Control == TypeOK /\ LockInv /\ HandInv /\ IndexInv

Places == OnePlace /\ PriorityMatchesLevel

\* A thread that scans may take one task without size wrapping.
ScanSize == \A w \in Workers : pc[w] = "scan" => size >= 1

\* A queued task without a lost wakeup has somebody who will look at the queue.
WakeInv ==
  (/\ ~lostWake
   /\ Queued # {}
   /\ \A th \in Threads : pc[th] \notin {"count", "notify"})
  => \E w \in Workers : pc[w] \notin {"blocked", "doze"}

-----------------------------------------------------------------------------
(* The sequence operators of the queue *)

LEMMA ReverseLemma ==
  ASSUME NEW S, NEW s \in Seq(S)
  PROVE  /\ Reverse(s) \in Seq(S)
         /\ Len(Reverse(s)) = Len(s)
         /\ \A k \in 1..Len(s) : Reverse(s)[k] = s[Len(s) - k + 1]
  BY DEF Reverse

LEMMA ConcatLemma ==
  ASSUME NEW S, NEW s \in Seq(S), NEW u \in Seq(S)
  PROVE  /\ s \o u \in Seq(S)
         /\ Len(s \o u) = Len(s) + Len(u)
         /\ \A k \in 1..Len(s) : (s \o u)[k] = s[k]
         /\ \A k \in Len(s) + 1 .. Len(s) + Len(u) : (s \o u)[k] = u[k - Len(s)]
  OBVIOUS

\* enqueue: priorityLevel %= LEVELS is an index into _levels.
LEMMA WrapInRange ==
  ASSUME NEW p \in 0 .. Levels
  PROVE  p % Levels \in Level
  BY WorkQueueAssumption DEF Level

-----------------------------------------------------------------------------
(* Control: types, locks, hands and indices *)

LEMMA ControlInit == Init => Control /\ Places
<1> SUFFICES ASSUME Init PROVE Control /\ Places
  OBVIOUS
<1> USE WorkQueueAssumption DEF Init, Threads
<1>1. StateTypes
  <2>1. pc \in [Threads -> Steps]
    BY DEF Steps
  <2>2. levels \in [Level -> Seq(Tasks)]
    BY DEF Level
  <2>. QED  BY <2>1, <2>2 DEF StateTypes
<1>2. FlagTypes
  BY Zenon DEF FlagTypes
<1>3. LockInv
  BY DEF LockInv
<1>4. HandInv
  BY DEF HandInv
<1>5. IndexInv
  BY DEF IndexInv
<1>6. Places
  BY DEF Places, PriorityMatchesLevel, OnePlace, Queued, Level
<1>. QED  BY <1>1, <1>2, <1>3, <1>4, <1>5, <1>6 DEF Control, TypeOK


LEMMA ControlNext == Control /\ Places /\ [Next]_vars => Control'
<1> SUFFICES ASSUME Control, Places, [Next]_vars PROVE Control'
  OBVIOUS
<1> USE WorkQueueAssumption DEF Threads, Control, TypeOK
<1>1. ASSUME NEW t \in Tasks, Submit(t) PROVE Control'
  <2>1. StateTypes'
    <3>1. pc' \in [Threads -> Steps]
      BY <1>1 DEF Submit, Goto, StateTypes, HandInv, Steps
    <3>. QED  BY <1>1, <3>1 DEF Submit, Goto, StateTypes, HandInv, IndexInv
  <2>2. LockInv'
    BY <1>1 DEF Submit, Goto, StateTypes, LockInv, HandInv, IndexInv
  <2>3. HandInv'
    BY <1>1 DEF Submit, Goto, StateTypes, LockInv, HandInv, IndexInv
  <2>4. IndexInv'
    BY <1>1 DEF Submit, Goto, StateTypes, LockInv, HandInv, IndexInv
  <2>5. FlagTypes'
    BY <1>1, Zenon DEF Submit, FlagTypes
  <2>. QED  BY <2>1, <2>2, <2>3, <2>4, <2>5
<1>2. ASSUME NEW th \in Threads, NotDue(th) PROVE Control'
  <2>1. StateTypes'
    <3>1. pc' \in [Threads -> Steps]
      BY <1>2 DEF NotDue, Goto, EnterLevel, AfterCheck, Enqueuing, StateTypes, HandInv, Steps
    <3>2. CASE hand[th] = NoTask
      BY <1>2, <3>1, <3>2 DEF NotDue, Goto, EnterLevel, AfterCheck, Enqueuing,
                              StateTypes
    <3>3. CASE hand[th] # NoTask
      <4>1. hand[th] \in Tasks /\ prio[hand[th]] \in 0..Levels
        BY <3>3 DEF StateTypes
      <4>2. prio[hand[th]] % Levels \in Level
        BY <4>1, WrapInRange
      <4>3. prio' = [prio EXCEPT ![hand[th]] = prio[hand[th]] % Levels]
        BY <1>2, <3>3, <4>1 DEF NotDue, EnterLevel, Enqueuing, StateTypes
      <4>4. prio' \in [Tasks -> 0..Levels]
        BY <4>1, <4>2, <4>3 DEF StateTypes, Level
      <4>5. \A u \in Threads : pc'[u] = "push" => prio'[hand'[u]] \in Level
        BY <1>2, <3>3, <4>1, <4>2, <4>3 DEF NotDue, Goto, AfterCheck, Enqueuing,
                                           StateTypes, HandInv
      <4>. QED  BY <1>2, <3>1, <4>4, <4>5 DEF NotDue, StateTypes
    <3>. QED  BY <3>2, <3>3
  <2>2. LockInv'
    BY <1>2 DEF NotDue, Goto, EnterLevel, AfterCheck, Enqueuing, StateTypes, LockInv, HandInv, IndexInv
  <2>3. HandInv'
    BY <1>2 DEF NotDue, Goto, EnterLevel, AfterCheck, Enqueuing, StateTypes, LockInv, HandInv, IndexInv
  <2>4. IndexInv'
    BY <1>2 DEF NotDue, Goto, EnterLevel, AfterCheck, Enqueuing, StateTypes, LockInv, HandInv, IndexInv
  <2>5. FlagTypes'
    BY <1>2, Zenon DEF NotDue, FlagTypes
  <2>. QED  BY <2>1, <2>2, <2>3, <2>4, <2>5
<1>3. ASSUME NEW th \in Threads, Due(th) PROVE Control'
  <2>1. StateTypes'
    <3>1. pc' \in [Threads -> Steps]
      BY <1>3 DEF Due, Goto, StateTypes, HandInv, Steps
    <3>. QED  BY <1>3, <3>1 DEF Due, Goto, StateTypes, HandInv, IndexInv
  <2>2. LockInv'
    BY <1>3 DEF Due, Goto, StateTypes, LockInv, HandInv, IndexInv
  <2>3. HandInv'
    BY <1>3 DEF Due, Goto, StateTypes, LockInv, HandInv, IndexInv
  <2>4. IndexInv'
    BY <1>3 DEF Due, Goto, StateTypes, LockInv, HandInv, IndexInv
  <2>5. FlagTypes'
    BY <1>3, Zenon DEF Due, FlagTypes
  <2>. QED  BY <2>1, <2>2, <2>3, <2>4, <2>5
<1>4. ASSUME NEW th \in Threads, Claim(th) PROVE Control'
  <2>1. StateTypes'
    <3>1. pc' \in [Threads -> Steps]
      BY <1>4 DEF Claim, Goto, EnterLevel, AfterCheck, Enqueuing, StateTypes, HandInv, Steps
    <3>2. prio' = IF hand[th] # NoTask THEN [prio EXCEPT ![hand[th]] = 0]
                                      ELSE prio
      BY <1>4 DEF Claim, EnterLevel, Enqueuing
    <3>3. \A u \in Threads : pc'[u] = "push" => prio'[hand'[u]] \in Level
      <4> SUFFICES ASSUME NEW u \in Threads, pc'[u] = "push"
                   PROVE  prio'[hand'[u]] \in Level
        OBVIOUS
      <4>1. 0 \in Level /\ hand' = hand
        BY <1>4 DEF Claim, Level
      <4>2. hand[u] \in Tasks
        BY <1>4 DEF Claim, Goto, AfterCheck, Enqueuing, StateTypes, HandInv
      <4>3. CASE u = th
        BY <3>2, <4>1, <4>2, <4>3 DEF StateTypes
      <4>4. CASE u # th
        <5>1. pc[u] = "push"
          BY <1>4, <4>4 DEF Claim, Goto, StateTypes
        <5>. QED  BY <3>2, <4>1, <4>2, <5>1 DEF StateTypes
      <4>. QED  BY <4>3, <4>4
    <3>5. prio' \in [Tasks -> 0..Levels]
      BY <3>2 DEF StateTypes
    <3>4. lastBoost' \in Nat /\ prev' \in [Threads -> Nat]
      BY <1>4 DEF Claim, StateTypes
    <3>. QED  BY <1>4, <3>1, <3>3, <3>4, <3>5 DEF Claim, StateTypes
  <2>2. LockInv'
    BY <1>4 DEF Claim, Goto, EnterLevel, AfterCheck, Enqueuing, StateTypes, LockInv, HandInv, IndexInv
  <2>3. HandInv'
    BY <1>4 DEF Claim, Goto, EnterLevel, AfterCheck, Enqueuing, StateTypes, LockInv, HandInv, IndexInv
  <2>4. IndexInv'
    BY <1>4 DEF Claim, Goto, EnterLevel, AfterCheck, Enqueuing, StateTypes, LockInv, HandInv, IndexInv
  <2>5. FlagTypes'
    BY <1>4, Zenon DEF Claim, FlagTypes
  <2>. QED  BY <2>1, <2>2, <2>3, <2>4, <2>5
<1>5. ASSUME NEW th \in Threads, BoostLock(th) PROVE Control'
  <2>1. StateTypes'
    <3>1. pc' \in [Threads -> Steps]
      BY <1>5 DEF BoostLock, Goto, StateTypes, HandInv, Steps
    <3>. QED  BY <1>5, <3>1 DEF BoostLock, Goto, StateTypes, HandInv, IndexInv
  <2>2. LockInv'
    BY <1>5 DEF BoostLock, Goto, StateTypes, LockInv, HandInv, IndexInv
  <2>3. HandInv'
    BY <1>5 DEF BoostLock, Goto, StateTypes, LockInv, HandInv, IndexInv
  <2>4. IndexInv'
    BY <1>5 DEF BoostLock, Goto, StateTypes, LockInv, HandInv, IndexInv
  <2>5. FlagTypes'
    BY <1>5, Zenon DEF BoostLock, FlagTypes
  <2>. QED  BY <2>1, <2>2, <2>3, <2>4, <2>5
<1>6. ASSUME NEW th \in Threads, BoostLevel(th) PROVE Control'
  <2>1. StateTypes'
    <3>1. pc' \in [Threads -> Steps]
      BY <1>6 DEF BoostLevel, Goto, BoostedLevels, BoostedPrio, StateTypes, HandInv, Steps
    <3>2. lvl[th] \in Level /\ 0 \in Level
      BY <1>6 DEF BoostLevel, StateTypes, Level
    <3>3. levels' \in [Level -> Seq(Tasks)]
      <4>1. Reverse(levels[lvl[th]]) \in Seq(Tasks)
        BY <3>2, ReverseLemma DEF StateTypes
      <4>2. levels[0] \o Reverse(levels[lvl[th]]) \in Seq(Tasks)
        BY <3>2, <4>1, ConcatLemma DEF StateTypes
      <4>3. << >> \in Seq(Tasks) /\ levels \in [Level -> Seq(Tasks)]
        BY DEF StateTypes
      <4>4. levels' = [levels EXCEPT ![0] = levels[0] \o Reverse(levels[lvl[th]]),
                                     ![lvl[th]] = << >>]
        BY <1>6 DEF BoostLevel, BoostedLevels
      <4>. QED  BY <3>2, <4>2, <4>3, <4>4
    <3>4. prio' \in [Tasks -> 0..Levels]
      BY <1>6 DEF BoostLevel, BoostedPrio, StateTypes
    <3>5. \A u \in Threads : pc'[u] = "push" => prio'[hand'[u]] \in Level
      BY <1>6, <3>2 DEF BoostLevel, BoostedPrio, StateTypes, HandInv
    <3>. QED  BY <1>6, <3>1, <3>3, <3>4, <3>5 DEF BoostLevel, StateTypes
  <2>2. LockInv'
    BY <1>6 DEF BoostLevel, Goto, BoostedLevels, BoostedPrio, StateTypes, LockInv, HandInv, IndexInv
  <2>3. HandInv'
    BY <1>6 DEF BoostLevel, Goto, BoostedLevels, BoostedPrio, StateTypes, LockInv, HandInv, IndexInv
  <2>4. IndexInv'
    BY <1>6 DEF BoostLevel, Goto, BoostedLevels, BoostedPrio, StateTypes, LockInv, HandInv, IndexInv
  <2>5. FlagTypes'
    BY <1>6, Zenon DEF BoostLevel, FlagTypes
  <2>. QED  BY <2>1, <2>2, <2>3, <2>4, <2>5
<1>7. ASSUME NEW th \in Threads, BoostUnlock(th) PROVE Control'
  <2>1. StateTypes'
    <3>1. pc' \in [Threads -> Steps]
      BY <1>7 DEF BoostUnlock, Goto, AfterCheck, Enqueuing, StateTypes, HandInv, Steps
    <3>2. \A u \in Threads : pc'[u] = "push" => prio'[hand'[u]] \in Level
      BY <1>7 DEF BoostUnlock, Goto, AfterCheck, Enqueuing, StateTypes,
                  IndexInv, Level
    <3>. QED  BY <1>7, <3>1, <3>2 DEF BoostUnlock, StateTypes
  <2>2. LockInv'
    BY <1>7 DEF BoostUnlock, Goto, AfterCheck, Enqueuing, StateTypes, LockInv, HandInv, IndexInv
  <2>3. HandInv'
    BY <1>7 DEF BoostUnlock, Goto, AfterCheck, Enqueuing, StateTypes, LockInv, HandInv, IndexInv
  <2>4. IndexInv'
    BY <1>7 DEF BoostUnlock, Goto, AfterCheck, Enqueuing, StateTypes, LockInv, HandInv, IndexInv
  <2>5. FlagTypes'
    BY <1>7, Zenon DEF BoostUnlock, FlagTypes
  <2>. QED  BY <2>1, <2>2, <2>3, <2>4, <2>5
<1>8. ASSUME NEW th \in Threads, Push(th) PROVE Control'
  <2>1. StateTypes'
    <3>1. pc' \in [Threads -> Steps]
      BY <1>8 DEF Push, Goto, PushedLevels, StateTypes, HandInv, Steps
    <3>. QED  BY <1>8, <3>1 DEF Push, Goto, PushedLevels, StateTypes, HandInv, IndexInv
  <2>2. LockInv'
    BY <1>8 DEF Push, Goto, PushedLevels, StateTypes, LockInv, HandInv, IndexInv
  <2>3. HandInv'
    BY <1>8 DEF Push, Goto, PushedLevels, StateTypes, LockInv, HandInv, IndexInv
  <2>4. IndexInv'
    BY <1>8 DEF Push, Goto, PushedLevels, StateTypes, LockInv, HandInv, IndexInv
  <2>5. FlagTypes'
    BY <1>8, Zenon DEF Push, FlagTypes
  <2>. QED  BY <2>1, <2>2, <2>3, <2>4, <2>5
<1>9. ASSUME NEW th \in Threads, Count(th) PROVE Control'
  <2>1. StateTypes'
    <3>1. pc' \in [Threads -> Steps]
      BY <1>9 DEF Count, Goto, StateTypes, HandInv, Steps
    <3>. QED  BY <1>9, <3>1 DEF Count, Goto, StateTypes, HandInv, IndexInv
  <2>2. LockInv'
    BY <1>9 DEF Count, Goto, StateTypes, LockInv, HandInv, IndexInv
  <2>3. HandInv'
    BY <1>9 DEF Count, Goto, StateTypes, LockInv, HandInv, IndexInv
  <2>4. IndexInv'
    BY <1>9 DEF Count, Goto, StateTypes, LockInv, HandInv, IndexInv
  <2>5. FlagTypes'
    BY <1>9, Zenon DEF Count, FlagTypes
  <2>. QED  BY <2>1, <2>2, <2>3, <2>4, <2>5
<1>10. ASSUME NEW th \in Threads, Notify(th) PROVE Control'
  <2>1. ASSUME NEW u \in Threads
        PROVE  \/ pc'[u] = pc[u]
               \/ /\ pc[u] = "notify"
                  /\ pc'[u] = IF u \in Workers THEN "load" ELSE "idle"
               \/ u \in Workers /\ pc[u] = "blocked" /\ pc'[u] = "lock"
    <3>1. CASE Blocked = {}
      BY <1>10, <3>1 DEF Notify, Goto, AfterEnqueue, IsWorker, StateTypes
    <3>2. CASE Blocked # {}
      <4>1. PICK w \in Blocked :
              pc' = [pc EXCEPT ![th] = AfterEnqueue(th), ![w] = "lock"]
        BY <1>10, <3>2 DEF Notify
      <4>. QED  BY <1>10, <4>1
                DEF Notify, Blocked, AfterEnqueue, IsWorker, StateTypes
    <3>. QED  BY <3>1, <3>2
  <2>2. UNCHANGED <<hand, lvl, prio, q0Owner, emptyOwner>>
    BY <1>10 DEF Notify
  <2>3. StateTypes'
    <3>1. pc' \in [Threads -> Steps]
      BY <1>10 DEF Notify, Goto, Blocked, AfterEnqueue, IsWorker, StateTypes, HandInv, Steps
    <3>2. \A u \in Threads : pc'[u] = "push" => prio'[hand'[u]] \in Level
      BY <2>1, <2>2 DEF StateTypes
    <3>. QED  BY <1>10, <3>1, <3>2 DEF Notify, StateTypes
  <2>4. LockInv'
    BY <2>1, <2>2 DEF LockInv
  <2>5. HandInv'
    BY <2>1, <2>2 DEF HandInv
  <2>6. IndexInv'
    BY <2>1, <2>2 DEF IndexInv
  <2>7. FlagTypes'
    BY <1>10, Zenon DEF Notify, FlagTypes
  <2>. QED  BY <2>3, <2>4, <2>5, <2>6, <2>7
<1>11. ASSUME NEW w \in Workers, Lock(w) PROVE Control'
  <2>1. StateTypes'
    <3>1. pc' \in [Threads -> Steps]
      BY <1>11 DEF Lock, Goto, StateTypes, HandInv, Steps
    <3>. QED  BY <1>11, <3>1 DEF Lock, Goto, StateTypes, HandInv, IndexInv
  <2>2. LockInv'
    BY <1>11 DEF Lock, Goto, StateTypes, LockInv, HandInv, IndexInv
  <2>3. HandInv'
    BY <1>11 DEF Lock, Goto, StateTypes, LockInv, HandInv, IndexInv
  <2>4. IndexInv'
    BY <1>11 DEF Lock, Goto, StateTypes, LockInv, HandInv, IndexInv
  <2>5. FlagTypes'
    BY <1>11, Zenon DEF Lock, FlagTypes
  <2>. QED  BY <2>1, <2>2, <2>3, <2>4, <2>5
<1>12. ASSUME NEW w \in Workers, Test(w) PROVE Control'
  <2>1. StateTypes'
    <3>1. pc' \in [Threads -> Steps]
      BY <1>12 DEF Test, Goto, StateTypes, HandInv, Steps
    <3>. QED  BY <1>12, <3>1 DEF Test, Goto, StateTypes, HandInv, IndexInv
  <2>2. LockInv'
    BY <1>12 DEF Test, Goto, StateTypes, LockInv, HandInv, IndexInv
  <2>3. HandInv'
    BY <1>12 DEF Test, Goto, StateTypes, LockInv, HandInv, IndexInv
  <2>4. IndexInv'
    BY <1>12 DEF Test, Goto, StateTypes, LockInv, HandInv, IndexInv
  <2>5. FlagTypes'
    BY <1>12, Zenon DEF Test, FlagTypes
  <2>. QED  BY <2>1, <2>2, <2>3, <2>4, <2>5
<1>13. ASSUME NEW w \in Workers, Block(w) PROVE Control'
  <2>1. StateTypes'
    <3>1. pc' \in [Threads -> Steps]
      BY <1>13 DEF Block, Goto, StateTypes, HandInv, Steps
    <3>. QED  BY <1>13, <3>1 DEF Block, Goto, StateTypes, HandInv, IndexInv
  <2>2. LockInv'
    BY <1>13 DEF Block, Goto, StateTypes, LockInv, HandInv, IndexInv
  <2>3. HandInv'
    BY <1>13 DEF Block, Goto, StateTypes, LockInv, HandInv, IndexInv
  <2>4. IndexInv'
    BY <1>13 DEF Block, Goto, StateTypes, LockInv, HandInv, IndexInv
  <2>5. FlagTypes'
    BY <1>13, Zenon DEF Block, FlagTypes
  <2>. QED  BY <2>1, <2>2, <2>3, <2>4, <2>5
<1>14. ASSUME NEW w \in Workers, SpuriousWake(w) PROVE Control'
  <2>1. StateTypes'
    <3>1. pc' \in [Threads -> Steps]
      BY <1>14 DEF SpuriousWake, Goto, StateTypes, HandInv, Steps
    <3>. QED  BY <1>14, <3>1 DEF SpuriousWake, Goto, StateTypes, HandInv, IndexInv
  <2>2. LockInv'
    BY <1>14 DEF SpuriousWake, Goto, StateTypes, LockInv, HandInv, IndexInv
  <2>3. HandInv'
    BY <1>14 DEF SpuriousWake, Goto, StateTypes, LockInv, HandInv, IndexInv
  <2>4. IndexInv'
    BY <1>14 DEF SpuriousWake, Goto, StateTypes, LockInv, HandInv, IndexInv
  <2>5. FlagTypes'
    BY <1>14, Zenon DEF SpuriousWake, FlagTypes
  <2>. QED  BY <2>1, <2>2, <2>3, <2>4, <2>5
<1>15. ASSUME NEW w \in Workers, ScanEmpty(w) PROVE Control'
  <2>1. StateTypes'
    <3>1. pc' \in [Threads -> Steps]
      BY <1>15 DEF ScanEmpty, Goto, StateTypes, HandInv, Steps
    <3>. QED  BY <1>15, <3>1 DEF ScanEmpty, Goto, StateTypes, HandInv, IndexInv
  <2>2. LockInv'
    BY <1>15 DEF ScanEmpty, Goto, StateTypes, LockInv, HandInv, IndexInv
  <2>3. HandInv'
    BY <1>15 DEF ScanEmpty, Goto, StateTypes, LockInv, HandInv, IndexInv
  <2>4. IndexInv'
    BY <1>15 DEF ScanEmpty, Goto, StateTypes, LockInv, HandInv, IndexInv
  <2>5. FlagTypes'
    BY <1>15, Zenon DEF ScanEmpty, FlagTypes
  <2>. QED  BY <2>1, <2>2, <2>3, <2>4, <2>5
<1>16. ASSUME NEW w \in Workers, ScanTake(w) PROVE Control'
  <2> DEFINE t == Head(levels[lvl[w]])
  <2>0. /\ lvl[w] \in Level /\ t \in Tasks /\ prio[t] = lvl[w]
        /\ Tail(levels[lvl[w]]) \in Seq(Tasks)
        /\ 1 \in 1..Len(levels[lvl[w]]) /\ t = levels[lvl[w]][1]
    <3>1. lvl[w] \in Level
      BY <1>16 DEF ScanTake, StateTypes, Level
    <3>2. levels[lvl[w]] \in Seq(Tasks) /\ levels[lvl[w]] # << >>
      BY <1>16, <3>1 DEF ScanTake, StateTypes
    <3>3. t \in Tasks /\ 1 \in 1..Len(levels[lvl[w]]) /\ t = levels[lvl[w]][1]
      BY <3>2
    <3>4. prio[t] = lvl[w]
      BY <3>1, <3>3 DEF Places, PriorityMatchesLevel
    <3>. QED  BY <3>1, <3>2, <3>3, <3>4
  <2>1. /\ hand' = [hand EXCEPT ![w] = t] /\ prio' = [prio EXCEPT ![t] = @ + 1]
        /\ pc' = [pc EXCEPT ![w] = "run"] /\ lvl' = [lvl EXCEPT ![w] = 0]
    BY <1>16 DEF ScanTake, Goto
  <2>2. \A u \in Threads : hand[u] # t
    BY <2>0, <1>16 DEF ScanTake, Places, OnePlace, Queued
  <2> HIDE DEF t
  <2>3. StateTypes'
    <3>1. pc' \in [Threads -> Steps]
      BY <2>1 DEF StateTypes, Steps
    <3>2. levels' \in [Level -> Seq(Tasks)]
      BY <1>16, <2>0 DEF ScanTake, PoppedLevels, StateTypes
    <3>3. prio' \in [Tasks -> 0..Levels]
      BY <2>0, <2>1 DEF StateTypes, Level
    <3>4. \A u \in Threads : pc'[u] = "push" => prio'[hand'[u]] \in Level
      BY <2>0, <2>1, <2>2 DEF StateTypes, HandInv
    <3>5. hand' \in [Threads -> Tasks \cup {NoTask}]
      BY <2>0, <2>1 DEF StateTypes
    <3>6. /\ lvl' \in [Threads -> 0 .. Levels] /\ size' \in Int
          /\ UNCHANGED <<prev, lastBoost, q0Owner>> /\ fresh' = fresh
          /\ emptyOwner' = NoThread
      BY <1>16, <2>1 DEF ScanTake, StateTypes
    <3>. QED  BY <3>1, <3>2, <3>3, <3>4, <3>5, <3>6 DEF StateTypes
  <2>4. LockInv'
    BY <1>16, <2>1 DEF ScanTake, StateTypes, LockInv
  <2>5. HandInv'
    BY <1>16, <2>0, <2>1 DEF ScanTake, StateTypes, HandInv
  <2>6. IndexInv'
    BY <1>16, <2>0, <2>1, <2>2 DEF ScanTake, StateTypes, IndexInv
  <2>7. FlagTypes'
    BY <1>16, Zenon DEF ScanTake, FlagTypes
  <2>. QED  BY <2>3, <2>4, <2>5, <2>6, <2>7
<1>17. ASSUME NEW w \in Workers, ScanNull(w) PROVE Control'
  <2>1. StateTypes'
    <3>1. pc' \in [Threads -> Steps]
      BY <1>17 DEF ScanNull, Goto, StateTypes, HandInv, Steps
    <3>. QED  BY <1>17, <3>1 DEF ScanNull, Goto, StateTypes, HandInv, IndexInv
  <2>2. LockInv'
    BY <1>17 DEF ScanNull, Goto, StateTypes, LockInv, HandInv, IndexInv
  <2>3. HandInv'
    BY <1>17 DEF ScanNull, Goto, StateTypes, LockInv, HandInv, IndexInv
  <2>4. IndexInv'
    BY <1>17 DEF ScanNull, Goto, StateTypes, LockInv, HandInv, IndexInv
  <2>5. FlagTypes'
    BY <1>17, Zenon DEF ScanNull, FlagTypes
  <2>. QED  BY <2>1, <2>2, <2>3, <2>4, <2>5
<1>18. ASSUME NEW w \in Workers, Finish(w) PROVE Control'
  <2>1. StateTypes'
    <3>1. pc' \in [Threads -> Steps]
      BY <1>18 DEF Finish, Goto, StateTypes, HandInv, Steps
    <3>. QED  BY <1>18, <3>1 DEF Finish, Goto, StateTypes, HandInv, IndexInv
  <2>2. LockInv'
    BY <1>18 DEF Finish, Goto, StateTypes, LockInv, HandInv, IndexInv
  <2>3. HandInv'
    BY <1>18 DEF Finish, Goto, StateTypes, LockInv, HandInv, IndexInv
  <2>4. IndexInv'
    BY <1>18 DEF Finish, Goto, StateTypes, LockInv, HandInv, IndexInv
  <2>5. FlagTypes'
    BY <1>18, Zenon DEF Finish, FlagTypes
  <2>. QED  BY <2>1, <2>2, <2>3, <2>4, <2>5
<1>19. ASSUME NEW w \in Workers, SliceOver(w) PROVE Control'
  <2>1. StateTypes'
    <3>1. pc' \in [Threads -> Steps]
      BY <1>19 DEF SliceOver, Goto, StateTypes, HandInv, Steps
    <3>. QED  BY <1>19, <3>1 DEF SliceOver, Goto, StateTypes, HandInv, IndexInv
  <2>2. LockInv'
    BY <1>19 DEF SliceOver, Goto, StateTypes, LockInv, HandInv, IndexInv
  <2>3. HandInv'
    BY <1>19 DEF SliceOver, Goto, StateTypes, LockInv, HandInv, IndexInv
  <2>4. IndexInv'
    BY <1>19 DEF SliceOver, Goto, StateTypes, LockInv, HandInv, IndexInv
  <2>5. FlagTypes'
    BY <1>19, Zenon DEF SliceOver, FlagTypes
  <2>. QED  BY <2>1, <2>2, <2>3, <2>4, <2>5
<1>20. CASE UNCHANGED vars
  <2>1. StateTypes'
    BY <1>20 DEF vars, StateTypes
  <2>2. FlagTypes'
    BY <1>20, Zenon DEF vars, FlagTypes
  <2>3. LockInv' /\ HandInv' /\ IndexInv'
    BY <1>20 DEF vars, LockInv, HandInv, IndexInv
  <2>. QED  BY <2>1, <2>2, <2>3
<1>. QED
  BY <1>1, <1>2, <1>3, <1>4, <1>5, <1>6, <1>7, <1>8, <1>9, <1>10, <1>11, <1>12, <1>13, <1>14, <1>15, <1>16, <1>17, <1>18, <1>19, <1>20
  DEF Next, CheckQuanta, Enqueue, Dequeue, RunTask

-----------------------------------------------------------------------------
(* Places: each task in one place, at the level of its priority *)

LEMMA PlacesFrame ==
  Places /\ UNCHANGED <<levels, hand, prio, fresh>> => Places'
  BY DEF Places, OnePlace, PriorityMatchesLevel, Queued

\* Where the slots of a level after a boost of level i come from.
SlotLevel(i, j, k) == IF j = 0 /\ k > Len(levels[0]) THEN i ELSE j
SlotIndex(i, j, k) == IF j = 0 /\ k > Len(levels[0])
                        THEN Len(levels[i]) - (k - Len(levels[0])) + 1 ELSE k

LEMMA ShiftIndex ==
  ASSUME NEW p \in Nat, NEW q \in Nat, NEW k \in 1 .. p + q, k > p
  PROVE  k - p \in 1..q /\ q - (k - p) + 1 \in 1..q /\ k \in p + 1 .. p + q
  OBVIOUS

LEMMA ShiftInjective ==
  ASSUME NEW p \in Int, NEW q \in Int, NEW k \in Int, NEW m \in Int,
         q - (k - p) + 1 = q - (m - p) + 1
  PROVE  k = m
  OBVIOUS

\* The types of the variables that hold tasks, without the rest of Control.
LEMMA DataTypes ==
  ASSUME Control
  PROVE  /\ levels \in [Level -> Seq(Tasks)]
         /\ hand \in [Threads -> Tasks \cup {NoTask}]
         /\ prio \in [Tasks -> 0..Levels]
         /\ fresh \subseteq Tasks
  BY DEF Control, TypeOK, StateTypes

\* The loop of boost starts at level 1.
LEMMA BoostIndex ==
  ASSUME Control, NEW th \in Threads, BoostLevel(th)
  PROVE  /\ lvl[th] \in Level /\ lvl[th] # 0 /\ 0 \in Level
         /\ levels[lvl[th]] \in Seq(Tasks) /\ levels[0] \in Seq(Tasks)
<1>1. pc[th] = "boost" /\ lvl[th] < Levels
  BY DEF BoostLevel
<1>2. lvl[th] \in 0..Levels
  BY DEF Control, TypeOK, StateTypes
<1>3. lvl[th] >= 1
  BY <1>1 DEF Control, IndexInv
<1>4. lvl[th] \in Level /\ lvl[th] # 0 /\ 0 \in Level
  BY <1>1, <1>2, <1>3, WorkQueueAssumption DEF Level
<1>. QED  BY <1>4, DataTypes

LEMMA BoostSlots ==
  ASSUME Control, NEW th \in Threads, BoostLevel(th),
         NEW i, i = lvl[th],
         NEW j \in Level, NEW k \in 1 .. Len(levels'[j])
  PROVE  /\ i \in Level /\ i # 0
         /\ SlotLevel(i, j, k) \in Level
         /\ SlotIndex(i, j, k) \in 1 .. Len(levels[SlotLevel(i, j, k)])
         /\ levels'[j][k] = levels[SlotLevel(i, j, k)][SlotIndex(i, j, k)]
         /\ j = 0 \/ SlotLevel(i, j, k) # i
<1>1. /\ i \in Level /\ i # 0 /\ 0 \in Level
      /\ levels \in [Level -> Seq(Tasks)]
      /\ levels[i] \in Seq(Tasks) /\ levels[0] \in Seq(Tasks)
  BY BoostIndex, DataTypes
<1>2. levels' = [levels EXCEPT ![0] = levels[0] \o Reverse(levels[i]),
                               ![i] = << >>]
  BY DEF BoostLevel, BoostedLevels
<1>3. /\ Reverse(levels[i]) \in Seq(Tasks)
      /\ Len(Reverse(levels[i])) = Len(levels[i])
      /\ \A n \in 1..Len(levels[i]) :
           Reverse(levels[i])[n] = levels[i][Len(levels[i]) - n + 1]
  BY <1>1, ReverseLemma
<1>4. CASE j = 0
  <2> DEFINE p == Len(levels[0])
             q == Len(levels[i])
             r == Reverse(levels[i])
  <2>1. levels'[0] = levels[0] \o r
    BY <1>1, <1>2
  <2>2. r \in Seq(Tasks) /\ Len(r) = q /\ p \in Nat /\ q \in Nat
    BY <1>1, <1>3
  <2>3. /\ Len(levels[0] \o r) = p + q
        /\ \A n \in 1..p : (levels[0] \o r)[n] = levels[0][n]
        /\ \A n \in p + 1 .. p + q : (levels[0] \o r)[n] = r[n - p]
    <3>1. Len(r) = q /\ Len(levels[0]) = p
      BY <2>2
    <3> HIDE DEF r
    <3>2. /\ Len(levels[0] \o r) = Len(levels[0]) + Len(r)
          /\ \A n \in 1 .. Len(levels[0]) : (levels[0] \o r)[n] = levels[0][n]
          /\ \A n \in Len(levels[0]) + 1 .. Len(levels[0]) + Len(r) :
               (levels[0] \o r)[n] = r[n - Len(levels[0])]
      <4>1. levels[0] \in Seq(Tasks) /\ r \in Seq(Tasks)
        BY <1>1, <2>2
      <4>. QED  BY ONLY <4>1, ConcatLemma
    <3>. QED  BY ONLY <3>1, <3>2
  <2>4. k \in 1 .. p + q
    BY <1>4, <2>1, <2>3
  <2>5. CASE k > p
    <3>1. k - p \in 1..q /\ q - (k - p) + 1 \in 1..q /\ k \in p + 1 .. p + q
      <4> HIDE DEF p, q
      <4>. QED  BY <2>2, <2>4, <2>5, ShiftIndex
    <3>2. levels'[j][k] = r[k - p]
      BY <1>4, <2>1, <2>3, <3>1
    <3>3. r[k - p] = levels[i][q - (k - p) + 1]
      BY <1>3, <3>1
    <3>4. SlotLevel(i, j, k) = i /\ SlotIndex(i, j, k) = q - (k - p) + 1
      BY <1>4, <2>5 DEF SlotLevel, SlotIndex
    <3>. QED  BY <1>1, <1>4, <3>1, <3>2, <3>3, <3>4
  <2>6. CASE ~(k > p)
    <3>1. k \in 1..p
      BY <2>2, <2>4, <2>6
    <3>2. SlotLevel(i, j, k) = 0 /\ SlotIndex(i, j, k) = k
      BY <1>4, <2>6 DEF SlotLevel, SlotIndex
    <3>. QED  BY <1>1, <1>4, <2>1, <2>3, <3>1, <3>2
  <2>. QED  BY <2>5, <2>6
<1>5. CASE j # 0
  <2>1. CASE j = i
    BY <1>1, <1>2, <1>5, <2>1
  <2>2. CASE j # i
    BY <1>1, <1>2, <1>5, <2>2 DEF SlotLevel, SlotIndex
  <2>. QED  BY <2>1, <2>2
<1>. QED  BY <1>4, <1>5

LEMMA SlotsInjective ==
  ASSUME Control, NEW th \in Threads, BoostLevel(th),
         NEW i, i = lvl[th],
         NEW j \in Level, NEW k \in 1 .. Len(levels'[j]),
         NEW l \in Level, NEW m \in 1 .. Len(levels'[l]),
         SlotLevel(i, j, k) = SlotLevel(i, l, m),
         SlotIndex(i, j, k) = SlotIndex(i, l, m)
  PROVE  j = l /\ k = m
<1>1. /\ i # 0 /\ i \in Level /\ 0 \in Level
      /\ levels[i] \in Seq(Tasks) /\ levels[0] \in Seq(Tasks)
  BY BoostIndex, DataTypes
<1>2. Len(levels[0]) \in Nat /\ Len(levels[i]) \in Nat /\ k \in Int /\ m \in Int
  BY <1>1
<1>3. /\ j = 0 \/ SlotLevel(i, j, k) # i
      /\ l = 0 \/ SlotLevel(i, l, m) # i
  BY BoostSlots
<1>4. j = l
  BY <1>1, <1>3 DEF SlotLevel
<1>5. CASE j = 0 /\ k > Len(levels[0])
  <2>1. m > Len(levels[0])
    BY <1>1, <1>4, <1>5 DEF SlotLevel
  <2>2. Len(levels[i]) - (k - Len(levels[0])) + 1
          = Len(levels[i]) - (m - Len(levels[0])) + 1
    BY <1>4, <1>5, <2>1 DEF SlotIndex
  <2>3. Len(levels[0]) \in Int /\ Len(levels[i]) \in Int
    BY <1>2
  <2>4. k = m
    BY <1>2, <2>2, <2>3, ShiftInjective
  <2>. QED  BY <1>4, <2>4
<1>6. CASE ~(j = 0 /\ k > Len(levels[0]))
  BY <1>1, <1>2, <1>4, <1>6 DEF SlotLevel, SlotIndex
<1>. QED  BY <1>4, <1>5, <1>6

LEMMA MirrorIndex ==
  ASSUME NEW p \in Nat, NEW q \in Nat, NEW k \in 1..q
  PROVE  /\ q - k + 1 \in 1..q
         /\ p + (q - k + 1) \in p + 1 .. p + q
         /\ p + (q - k + 1) \in 1 .. p + q
         /\ p + (q - k + 1) - p = q - k + 1
         /\ q - (q - k + 1) + 1 = k
  OBVIOUS

Join(s, u) == s \o Reverse(u)

LEMMA AppendReversed ==
  ASSUME NEW s \in Seq(Tasks), NEW u \in Seq(Tasks)
  PROVE  /\ \A n \in 1..Len(s) : /\ n \in 1..Len(Join(s, u))
                                /\ Join(s, u)[n] = s[n]
         /\ \A n \in 1..Len(u) : \E m \in 1..Len(Join(s, u)) :
                                Join(s, u)[m] = u[n]
<1> DEFINE c == Join(s, u)
<1>1. /\ Reverse(u) \in Seq(Tasks) /\ Len(Reverse(u)) = Len(u)
      /\ \A n \in 1..Len(u) : Reverse(u)[n] = u[Len(u) - n + 1]
  BY ReverseLemma
<1>2. /\ Len(c) = Len(s) + Len(u)
      /\ \A n \in 1..Len(s) : c[n] = s[n]
      /\ \A n \in Len(s) + 1 .. Len(s) + Len(u) : c[n] = Reverse(u)[n - Len(s)]
  <2>1. ASSUME NEW r \in Seq(Tasks)
        PROVE  /\ Len(s \o r) = Len(s) + Len(r)
               /\ \A n \in 1..Len(s) : (s \o r)[n] = s[n]
               /\ \A n \in Len(s) + 1 .. Len(s) + Len(r) :
                    (s \o r)[n] = r[n - Len(s)]
    BY ConcatLemma
  <2>. QED  BY <1>1, <2>1, Zenon DEF Join
<1> HIDE DEF c
<1>3. Len(s) \in Nat /\ Len(u) \in Nat
  OBVIOUS
<1>4. ASSUME NEW n \in 1..Len(u)
      PROVE  \E m \in 1..Len(c) : c[m] = u[n]
  <2> DEFINE m == Len(s) + (Len(u) - n + 1)
  <2>1. /\ Len(u) - n + 1 \in 1..Len(u) /\ m \in Len(s) + 1 .. Len(s) + Len(u)
        /\ m \in 1 .. Len(s) + Len(u) /\ m - Len(s) = Len(u) - n + 1
        /\ Len(u) - (Len(u) - n + 1) + 1 = n
    BY <1>3, MirrorIndex
  <2> HIDE DEF m
  <2>2. c[m] = Reverse(u)[Len(u) - n + 1]
    BY <1>2, <2>1
  <2>3. Reverse(u)[Len(u) - n + 1] = u[n]
    BY <1>1, <2>1
  <2>. QED  BY <1>2, <2>1, <2>2, <2>3
<1>5. \A n \in 1..Len(s) : n \in 1 .. Len(s) + Len(u)
  BY <1>3
<1>6. \A n \in 1..Len(s) : n \in 1..Len(c) /\ c[n] = s[n]
  BY <1>2, <1>5
<1>. QED  BY <1>4, <1>6 DEF c

LEMMA BoostKeepsQueued ==
  ASSUME Control, NEW th \in Threads, BoostLevel(th)
  PROVE  Queued' = Queued
<1> DEFINE i == lvl[th]
<1>1. /\ i \in Level /\ i # 0 /\ 0 \in Level
      /\ levels \in [Level -> Seq(Tasks)]
  BY BoostIndex, DataTypes
<1>2. ASSUME NEW t \in Tasks, NEW j \in Level, NEW k \in 1 .. Len(levels'[j]),
             levels'[j][k] = t
      PROVE  t \in Queued
  BY <1>2, BoostSlots DEF Queued
<1>3. ASSUME NEW t \in Tasks, NEW j \in Level, NEW k \in 1 .. Len(levels[j]),
             levels[j][k] = t
      PROVE  \E l \in Level : \E m \in 1 .. Len(levels'[l]) : levels'[l][m] = t
  <2>1. levels' = [levels EXCEPT ![0] = Join(levels[0], levels[i]), ![i] = << >>]
    BY DEF BoostLevel, BoostedLevels, Join
  <2>2. levels'[0] = Join(levels[0], levels[i])
    BY <1>1, <2>1
  <2>3. /\ \A n \in 1..Len(levels[0]) : /\ n \in 1..Len(levels'[0])
                                        /\ levels'[0][n] = levels[0][n]
        /\ \A n \in 1..Len(levels[i]) :
             \E m \in 1..Len(levels'[0]) : levels'[0][m] = levels[i][n]
    <3>1. levels[0] \in Seq(Tasks) /\ levels[i] \in Seq(Tasks)
      BY <1>1
    <3>2. /\ \A n \in 1..Len(levels[0]) :
               /\ n \in 1..Len(levels'[0])
               /\ levels'[0][n] = levels[0][n]
          /\ \A n \in 1..Len(levels[i]) :
               \E m \in 1..Len(levels'[0]) : levels'[0][m] = levels[i][n]
      <4> DEFINE c == Join(levels[0], levels[i])
      <4>1. /\ \A n \in 1..Len(levels[0]) : n \in 1..Len(c) /\ c[n] = levels[0][n]
            /\ \A n \in 1..Len(levels[i]) :
                 \E m \in 1..Len(c) : c[m] = levels[i][n]
        BY <3>1, AppendReversed
      <4>. QED  BY <2>2, <4>1, Zenon
    <3>. QED  BY <3>2
  <2>5. CASE j = 0
    BY <1>1, <1>3, <2>3, <2>5
  <2>6. CASE j = i
    BY <1>1, <1>3, <2>3, <2>6
  <2>7. CASE j # 0 /\ j # i
    BY <1>1, <1>3, <2>1, <2>7
  <2>. QED  BY <2>5, <2>6, <2>7
<1>. QED  BY <1>2, <1>3 DEF Queued

LEMMA PlacesBoost ==
  ASSUME Control, Places, NEW th \in Threads, BoostLevel(th)
  PROVE  Places'
<1> DEFINE i == lvl[th]
<1>1. Queued' = Queued /\ hand' = hand /\ fresh' = fresh
  BY BoostKeepsQueued DEF BoostLevel
<1>2. /\ i \in Level /\ levels[i] \in Seq(Tasks)
      /\ \A j \in Level : levels[j] \in Seq(Tasks)
      /\ prio' = [t \in Tasks |-> IF t \in ToSet(levels[i]) THEN 0 ELSE prio[t]]
  <2>1. i \in Level /\ levels \in [Level -> Seq(Tasks)]
    BY WorkQueueAssumption DEF BoostLevel, Control, TypeOK, StateTypes, Level
  <2>2. prio' = [t \in Tasks |-> IF t \in ToSet(levels[i]) THEN 0 ELSE prio[t]]
    BY DEF BoostLevel, BoostedPrio
  <2>. QED  BY <2>1, <2>2
<1>3. OnePlace'
  <2>1. ASSUME NEW j \in Level, NEW l \in Level,
               NEW k \in 1 .. Len(levels'[j]), NEW m \in 1 .. Len(levels'[l]),
               levels'[j][k] = levels'[l][m]
        PROVE  j = l /\ k = m
    <3>1. levels[SlotLevel(i, j, k)][SlotIndex(i, j, k)]
            = levels[SlotLevel(i, l, m)][SlotIndex(i, l, m)]
      BY <2>1, BoostSlots
    <3>2. /\ SlotLevel(i, j, k) = SlotLevel(i, l, m)
          /\ SlotIndex(i, j, k) = SlotIndex(i, l, m)
      BY <3>1, BoostSlots DEF Places, OnePlace
    <3>. QED  BY <3>2, SlotsInjective
  <2>. QED  BY <1>1, <2>1 DEF Places, OnePlace
<1>4. PriorityMatchesLevel'
  <2> SUFFICES ASSUME NEW j \in Level, NEW k \in 1 .. Len(levels'[j])
               PROVE  prio'[levels'[j][k]] = j
    BY DEF PriorityMatchesLevel
  <2> DEFINE sl == SlotLevel(i, j, k)
             si == SlotIndex(i, j, k)
             t == levels[sl][si]
  <2>1. /\ sl \in Level /\ si \in 1 .. Len(levels[sl])
        /\ levels'[j][k] = t /\ (j = 0 \/ sl # i)
    BY BoostSlots
  <2>2. prio[t] = sl /\ t \in Tasks
    BY <1>2, <2>1 DEF Places, PriorityMatchesLevel
  <2>3. t \in ToSet(levels[i]) <=> sl = i
    <3>1. ToSet(levels[i]) = {levels[i][n] : n \in 1 .. Len(levels[i])}
      BY <1>2 DEF ToSet
    <3> HIDE DEF sl, si, i
    <3>2. sl = i => t \in ToSet(levels[i])
      BY <2>1, <3>1
    <3>3. ASSUME NEW n \in 1 .. Len(levels[i]), t = levels[i][n]
          PROVE  sl = i
      BY <1>2, <2>1, <3>3 DEF Places, OnePlace
    <3>. QED  BY <3>1, <3>2, <3>3
  <2>4. sl = i => j = 0
    BY <2>1
  <2>5. sl # i => sl = j
    BY DEF SlotLevel
  <2>. QED  BY <1>2, <2>1, <2>2, <2>3, <2>4, <2>5
<1>. QED  BY <1>3, <1>4 DEF Places

LEMMA PlacesPush ==
  ASSUME Control, Places, NEW th \in Threads, Push(th)
  PROVE  Places' /\ Queued' = Queued \cup {hand[th]} /\ hand[th] \notin Queued
                 /\ hand[th] \in Tasks
<1> DEFINE t == hand[th]
           i == prio[t]
           n == Len(levels[i]) + 1
<1>1. t \in Tasks /\ i \in Level /\ levels \in [Level -> Seq(Tasks)]
  BY DEF Push, Control, TypeOK, StateTypes, HandInv
<1>2. /\ levels' = [levels EXCEPT ![i] = Append(levels[i], t)]
      /\ hand' = [hand EXCEPT ![th] = NoTask]
      /\ prio' = prio /\ fresh' = fresh
  BY DEF Push, PushedLevels
<1>3. /\ levels[i] \in Seq(Tasks) /\ Len(levels'[i]) = n /\ n \in 1..n
      /\ levels'[i][n] = t
      /\ \A k \in 1..n : k # n => k \in 1..Len(levels[i])
                               /\ levels'[i][k] = levels[i][k]
      /\ \A k \in 1..Len(levels[i]) : k \in 1..n /\ k # n
      /\ \A j \in Level : j # i => levels'[j] = levels[j]
  BY <1>1, <1>2
<1>4. t \notin Queued /\ \A u \in Threads : u # th => hand[u] # t
  BY <1>1, WorkQueueAssumption DEF Places, OnePlace
<1> HIDE DEF n
<1>5. Queued' = Queued \cup {t}
  <2>1. ASSUME NEW u \in Tasks, NEW j \in Level, NEW k \in 1..Len(levels'[j]),
               levels'[j][k] = u, u # t
        PROVE  \E m \in 1..Len(levels[j]) : levels[j][m] = u
    BY <1>3, <2>1
  <2>2. ASSUME NEW u \in Tasks, NEW j \in Level, NEW k \in 1..Len(levels[j]),
               levels[j][k] = u
        PROVE  \E m \in 1..Len(levels'[j]) : levels'[j][m] = u
    BY <1>3, <2>2
  <2>3. t \in Queued'
    BY <1>1, <1>3 DEF Queued
  <2>. QED  BY <1>1, <2>1, <2>2, <2>3 DEF Queued
<1>6. OnePlace'
  <2>1. ASSUME NEW j \in Level, NEW l \in Level,
               NEW k \in 1 .. Len(levels'[j]), NEW m \in 1 .. Len(levels'[l]),
               levels'[j][k] = levels'[l][m]
        PROVE  j = l /\ k = m
    <3>1. \A a \in Level : \A b \in 1 .. Len(levels'[a]) :
            \/ a = i /\ b = n /\ levels'[a][b] = t
            \/ /\ b \in 1 .. Len(levels[a]) /\ levels'[a][b] = levels[a][b]
               /\ levels[a][b] # t
      BY <1>1, <1>3, <1>4 DEF Queued
    <3>. QED  BY <2>1, <3>1 DEF Places, OnePlace
  <2>2. ASSUME NEW u \in Queued', NEW v \in Threads PROVE hand'[v] # u
    <3>1. u # NoTask
      BY WorkQueueAssumption DEF Queued
    <3>2. CASE v = th
      BY <1>2, <3>1, <3>2 DEF Control, TypeOK, StateTypes
    <3>3. CASE v # th
      BY <1>2, <1>4, <1>5, <3>3, DataTypes DEF Places, OnePlace
    <3>. QED  BY <3>2, <3>3
  <2>3. \A u, v \in Threads : hand'[u] = hand'[v] /\ hand'[u] # NoTask => u = v
    BY <1>2, DataTypes DEF Places, OnePlace
  <2>4. \A u \in fresh' : u \notin Queued' /\ \A v \in Threads : hand'[v] # u
    BY <1>1, <1>2, <1>5, WorkQueueAssumption, DataTypes
    DEF Places, OnePlace
  <2>. QED  BY <2>1, <2>2, <2>3, <2>4 DEF OnePlace
<1>7. PriorityMatchesLevel'
  BY <1>1, <1>2, <1>3 DEF Places, PriorityMatchesLevel
<1>. QED  BY <1>1, <1>4, <1>5, <1>6, <1>7 DEF Places

LEMMA PlacesScanTake ==
  ASSUME Control, Places, NEW w \in Workers, ScanTake(w)
  PROVE  /\ Places'
         /\ hand'[w] \in Queued
         /\ Queued' = Queued \ {hand'[w]}
<1> DEFINE i == lvl[w]
           t == Head(levels[i])
<1>1. i \in Level /\ levels \in [Level -> Seq(Tasks)] /\ levels[i] # << >>
  <2>1. i \in Level
    BY WorkQueueAssumption
    DEF ScanTake, Control, TypeOK, StateTypes, Level, Threads
  <2>2. levels \in [Level -> Seq(Tasks)]
    BY DataTypes
  <2>3. levels[i] # << >>
    BY DEF ScanTake
  <2>. QED  BY <2>1, <2>2, <2>3
<1>2. /\ levels' = [levels EXCEPT ![i] = Tail(levels[i])]
      /\ hand' = [hand EXCEPT ![w] = t]
      /\ prio' = [prio EXCEPT ![t] = @ + 1] /\ fresh' = fresh
  BY DEF ScanTake, PoppedLevels
<1>3. /\ 1 \in 1..Len(levels[i]) /\ t = levels[i][1] /\ t \in Tasks
      /\ \A k \in 1..Len(levels'[i]) : /\ k + 1 \in 1..Len(levels[i])
                                       /\ levels'[i][k] = levels[i][k + 1]
      /\ \A k \in 1..Len(levels[i]) : k # 1 => /\ k - 1 \in 1..Len(levels'[i])
                                               /\ levels'[i][k - 1] = levels[i][k]
      /\ \A j \in Level : j # i => levels'[j] = levels[j]
  BY <1>1, <1>2
<1>4. t \in Queued /\ hand'[w] = t /\ hand[w] = NoTask
  BY <1>1, <1>2, <1>3
  DEF Queued, ScanTake, Control, TypeOK, StateTypes, HandInv, Threads
<1> HIDE DEF t, i
<1>5. \A j \in Level : \A k \in 1..Len(levels'[j]) :
        LET m == IF j = i THEN k + 1 ELSE k
        IN  m \in 1..Len(levels[j]) /\ levels'[j][k] = levels[j][m]
            /\ levels[j][m] # t
  BY <1>1, <1>3 DEF Places, OnePlace
<1>6. Queued' = Queued \ {t}
  <2>1. ASSUME NEW u \in Queued, u # t PROVE u \in Queued'
    <3>0. PICK j \in Level : \E k \in 1..Len(levels[j]) : levels[j][k] = u
      BY DEF Queued
    <3>1. PICK k \in 1..Len(levels[j]) : levels[j][k] = u
      BY <3>0
    <3>2. CASE j = i
      BY <1>3, <2>1, <3>1, <3>2 DEF Queued
    <3>3. CASE j # i
      BY <1>3, <3>1, <3>3 DEF Queued
    <3>. QED  BY <3>2, <3>3
  <2>2. ASSUME NEW u \in Queued' PROVE u \in Queued /\ u # t
    BY <1>5 DEF Queued
  <2>. QED  BY <2>1, <2>2
<1>7. OnePlace'
  <2>1. ASSUME NEW j \in Level, NEW l \in Level,
               NEW k \in 1 .. Len(levels'[j]), NEW m \in 1 .. Len(levels'[l]),
               levels'[j][k] = levels'[l][m]
        PROVE  j = l /\ k = m
    <3> DEFINE a == IF j = i THEN k + 1 ELSE k
               b == IF l = i THEN m + 1 ELSE m
    <3>1. /\ a \in 1..Len(levels[j]) /\ levels'[j][k] = levels[j][a]
          /\ b \in 1..Len(levels[l]) /\ levels'[l][m] = levels[l][b]
      BY <1>5
    <3> HIDE DEF a, b
    <3>2. j = l /\ a = b
      <4>1. levels[j][a] = levels[l][b]
        BY <2>1, <3>1, Zenon
      <4>2. \A x, y \in Level : \A u \in 1..Len(levels[x]), v \in 1..Len(levels[y]) :
              levels[x][u] = levels[y][v] => x = y /\ u = v
        BY DEF Places, OnePlace
      <4>. QED  BY <3>1, <4>1, <4>2
    <3>3. k \in Int /\ m \in Int
      OBVIOUS
    <3>4. CASE j = i
      BY <3>2, <3>3, <3>4 DEF a, b
    <3>5. CASE j # i
      BY <3>2, <3>3, <3>5 DEF a, b
    <3>. QED  BY <3>4, <3>5
  <2>2. \A u \in Queued' : \A v \in Threads : hand'[v] # u
    BY <1>2, <1>6, DataTypes DEF Places, OnePlace
  <2>3. \A u, v \in Threads : hand'[u] = hand'[v] /\ hand'[u] # NoTask => u = v
    BY <1>2, <1>4, DataTypes DEF Places, OnePlace
  <2>4. \A u \in fresh' : u \notin Queued' /\ \A v \in Threads : hand'[v] # u
    BY <1>2, <1>4, <1>6, DataTypes DEF Places, OnePlace
  <2>. QED  BY <2>1, <2>2, <2>3, <2>4 DEF OnePlace
<1>8. PriorityMatchesLevel'
  <2>1. levels \in [Level -> Seq(Tasks)] /\ prio \in [Tasks -> 0..Levels]
    BY DEF Control, TypeOK, StateTypes
  <2>2. ASSUME NEW j \in Level, NEW k \in 1..Len(levels'[j])
        PROVE  prio'[levels'[j][k]] = j
    <3>1. PICK m \in 1..Len(levels[j]) : /\ levels'[j][k] = levels[j][m]
                                         /\ levels[j][m] # t
      BY <1>5
    <3>2. levels[j][m] \in Tasks
      BY <2>1
    <3>. QED  BY <1>2, <2>1, <3>1, <3>2 DEF Places, PriorityMatchesLevel
  <2>. QED  BY <2>2 DEF PriorityMatchesLevel
<1>. QED  BY <1>4, <1>6, <1>7, <1>8 DEF Places

\* priorityLevel of a task in a thread's hands is nobody else's business.
LEMMA PlacesPrivatePrio ==
  ASSUME Control, Places, NEW th \in Threads, UNCHANGED <<levels, hand, fresh>>,
         prio' = prio \/ (Enqueuing(th) /\ \E p : prio' = [prio EXCEPT ![hand[th]] = p])
  PROVE  Places'
<1>1. OnePlace'
  BY DEF Places, OnePlace, Queued
<1>2. CASE prio' = prio
  BY <1>1, <1>2 DEF Places, PriorityMatchesLevel
<1>3. CASE Enqueuing(th) /\ \E p : prio' = [prio EXCEPT ![hand[th]] = p]
  <2>1. PICK p : prio' = [prio EXCEPT ![hand[th]] = p]
    BY <1>3
  <2>2. ASSUME NEW j \in Level, NEW k \in 1..Len(levels[j])
        PROVE  prio'[levels[j][k]] = j
    <3>1. levels[j][k] \in Tasks /\ levels[j][k] # hand[th]
      BY DataTypes DEF Places, OnePlace, Queued
    <3>. QED  BY <2>1, <3>1, DataTypes
              DEF Places, PriorityMatchesLevel
  <2>. QED  BY <1>1, <2>2 DEF Places, PriorityMatchesLevel
<1>. QED  BY <1>2, <1>3

LEMMA PlacesNext == Control /\ Places /\ [Next]_vars => Places'
<1> SUFFICES ASSUME Control, Places, [Next]_vars PROVE Places'
  OBVIOUS
<1>1. ASSUME NEW t \in Tasks, Submit(t) PROVE Places'
  <2>1. /\ hand' = [hand EXCEPT ![Main] = t] /\ fresh' = fresh \ {t} /\ t \in fresh
        /\ UNCHANGED <<levels, prio>> /\ hand \in [Threads -> Tasks \cup {NoTask}]
        /\ Main \in Threads /\ t # NoTask
    BY <1>1, WorkQueueAssumption
    DEF Submit, Control, TypeOK, StateTypes, Threads
  <2>2. Queued' = Queued
    BY <2>1 DEF Queued
  <2>3. OnePlace'
    BY <2>1, <2>2 DEF Places, OnePlace
  <2>. QED  BY <2>1, <2>3 DEF Places, PriorityMatchesLevel
<1>2. ASSUME NEW th \in Threads, CheckQuanta(th) PROVE Places'
  <2>1. CASE NotDue(th)
    BY <2>1, PlacesPrivatePrio DEF NotDue, EnterLevel
  <2>2. CASE Due(th) \/ BoostLock(th) \/ BoostUnlock(th)
    BY <2>2, PlacesFrame DEF Due, BoostLock, BoostUnlock
  <2>3. CASE Claim(th)
    BY <2>3, PlacesPrivatePrio DEF Claim, EnterLevel
  <2>4. CASE BoostLevel(th)
    BY <2>4, PlacesBoost
  <2>. QED  BY <1>2, <2>1, <2>2, <2>3, <2>4 DEF CheckQuanta
<1>3. ASSUME NEW th \in Threads, Enqueue(th) PROVE Places'
  <2>1. CASE Push(th)
    BY <2>1, PlacesPush
  <2>2. CASE Count(th) \/ Notify(th)
    BY <2>2, PlacesFrame DEF Count, Notify
  <2>. QED  BY <1>3, <2>1, <2>2 DEF Enqueue
<1>4. ASSUME NEW w \in Workers, Dequeue(w) \/ SpuriousWake(w) PROVE Places'
  <2>1. CASE ScanTake(w)
    BY <2>1, PlacesScanTake
  <2>2. CASE Lock(w) \/ Test(w) \/ Block(w) \/ SpuriousWake(w)
             \/ ScanEmpty(w) \/ ScanNull(w)
    BY <2>2, PlacesFrame
    DEF Lock, Test, Block, SpuriousWake, ScanEmpty, ScanNull
  <2>. QED  BY <1>4, <2>1, <2>2 DEF Dequeue
<1>5. ASSUME NEW w \in Workers, RunTask(w) PROVE Places'
  <2>1. CASE Finish(w)
    <3>1. /\ hand' = [hand EXCEPT ![w] = NoTask] /\ fresh' = fresh
          /\ UNCHANGED <<levels, prio>>
          /\ hand \in [Threads -> Tasks \cup {NoTask}] /\ fresh \subseteq Tasks
      BY <2>1 DEF Finish, Control, TypeOK, StateTypes
    <3>2. Queued' = Queued /\ NoTask \notin Queued /\ NoTask \notin fresh
      BY <3>1, WorkQueueAssumption DEF Queued
    <3>3. OnePlace'
      BY <3>1, <3>2 DEF Places, OnePlace
    <3>. QED  BY <3>1, <3>3 DEF Places, PriorityMatchesLevel
  <2>2. CASE SliceOver(w)
    BY <2>2, PlacesFrame DEF SliceOver
  <2>. QED  BY <1>5, <2>1, <2>2 DEF RunTask
<1>6. CASE UNCHANGED vars
  BY <1>6, PlacesFrame DEF vars
<1>. QED  BY <1>1, <1>2, <1>3, <1>4, <1>5, <1>6 DEF Next

-----------------------------------------------------------------------------
(* The count of the queued tasks *)

Counting == {th \in Threads : pc[th] = "count"}

LEMMA FiniteSets ==
  IsFiniteSet(Threads) /\ IsFiniteSet(Queued) /\ IsFiniteSet(Counting)
<1>1. IsFiniteSet(Threads)
  BY WorkQueueAssumption, FS_AddElement, FS_Singleton, FS_Union DEF Threads
<1>2. Queued \subseteq Tasks /\ Counting \subseteq Threads
  BY DEF Queued, Counting
<1>. QED  BY <1>1, <1>2, WorkQueueAssumption, FS_Subset

CountInv == SizeAccounting /\ ScanSize

\* Steps that neither move a task in or out of the queue nor count one.
LEMMA CountFrame ==
  ASSUME CountInv, size \in Int, Queued' = Queued, size' = size, Counting' = Counting,
         \A w \in Workers : pc'[w] = "scan" => pc[w] = "scan" \/ size > 0
  PROVE  CountInv'
<1>1. SizeAccounting'
  BY DEF CountInv, SizeAccounting, Counting
<1>2. ScanSize'
  BY DEF CountInv, ScanSize
<1>. QED  BY <1>1, <1>2 DEF CountInv

LEMMA CountNext == Control /\ Places /\ CountInv /\ [Next]_vars => CountInv'
<1> SUFFICES ASSUME Control, Places, CountInv, [Next]_vars PROVE CountInv'
  OBVIOUS
<1> USE DEF Threads
<1>0. /\ size \in Int /\ pc \in [Threads -> Steps]
      /\ IsFiniteSet(Queued) /\ IsFiniteSet(Counting)
  BY FiniteSets DEF Control, TypeOK, StateTypes
<1>1. ASSUME NEW t \in Tasks, Submit(t) PROVE CountInv'
  <2>1. Queued' = Queued /\ size' = size
    BY <1>1 DEF Submit, Queued
  <2>2. Counting' = Counting /\ \A w \in Workers : pc'[w] = "scan" => pc[w] = "scan"
    BY <1>0, <1>1 DEF Submit, Goto, Counting
  <2>. QED  BY <1>0, <2>1, <2>2, CountFrame
<1>2. ASSUME NEW th \in Threads, CheckQuanta(th) PROVE CountInv'
  <2>1. Queued' = Queued
    <3>1. CASE BoostLevel(th)
      BY <3>1, BoostKeepsQueued
    <3>2. CASE ~BoostLevel(th)
      BY <1>2, <3>2 DEF CheckQuanta, NotDue, Due, Claim, BoostLock, BoostUnlock,
                        Queued
    <3>. QED  BY <3>1, <3>2
  <2>2. size' = size
    BY <1>2 DEF CheckQuanta, NotDue, Due, Claim, BoostLock, BoostLevel, BoostUnlock
  <2>3. Counting' = Counting /\ \A w \in Workers : pc'[w] = "scan" => pc[w] = "scan"
    BY <1>0, <1>2 DEF CheckQuanta, NotDue, Due, Claim, BoostLock, BoostLevel,
                      BoostUnlock, Goto, AfterCheck, Counting
  <2>. QED  BY <1>0, <2>1, <2>2, <2>3, CountFrame
<1>3. ASSUME NEW th \in Threads, Push(th) PROVE CountInv'
  <2>1. /\ Queued' = Queued \cup {hand[th]} /\ hand[th] \notin Queued
        /\ size' = size
    BY <1>3, PlacesPush DEF Push
  <2>2. /\ Counting' = Counting \cup {th} /\ th \notin Counting
        /\ \A w \in Workers : pc'[w] = "scan" => pc[w] = "scan"
    BY <1>0, <1>3 DEF Push, Goto, Counting
  <2>3. /\ Cardinality(Queued') = Cardinality(Queued) + 1
        /\ Cardinality(Counting') = Cardinality(Counting) + 1
    BY <1>0, <2>1, <2>2, FS_AddElement
  <2>4. Cardinality(Queued) \in Nat /\ Cardinality(Counting) \in Nat
    BY <1>0, FS_CardinalityType
  <2>. QED  BY <1>0, <2>1, <2>2, <2>3, <2>4
            DEF CountInv, SizeAccounting, ScanSize, Counting
<1>4. ASSUME NEW th \in Threads, Count(th) PROVE CountInv'
  <2>1. Queued' = Queued /\ size' = size + 1
    BY <1>4 DEF Count, Queued
  <2>2. /\ Counting' = Counting \ {th} /\ th \in Counting
        /\ \A w \in Workers : pc'[w] = "scan" => pc[w] = "scan"
    BY <1>0, <1>4 DEF Count, Goto, Counting
  <2>3. Cardinality(Counting') = Cardinality(Counting) - 1
    BY <1>0, <2>2, FS_RemoveElement
  <2>4. Cardinality(Queued) \in Nat /\ Cardinality(Counting) \in Nat
    BY <1>0, FS_CardinalityType
  <2>. QED  BY <1>0, <2>1, <2>2, <2>3, <2>4
            DEF CountInv, SizeAccounting, ScanSize, Counting
<1>5. ASSUME NEW th \in Threads, Notify(th) PROVE CountInv'
  <2>1. Queued' = Queued /\ size' = size
    BY <1>5 DEF Notify, Queued
  <2>2. Counting' = Counting /\ \A w \in Workers : pc'[w] = "scan" => pc[w] = "scan"
    BY <1>0, <1>5 DEF Notify, Goto, AfterEnqueue, IsWorker, Blocked, Counting
  <2>. QED  BY <1>0, <2>1, <2>2, CountFrame
<1>6. ASSUME NEW w \in Workers, ScanTake(w) PROVE CountInv'
  <2>1. /\ hand'[w] \in Queued /\ Queued' = Queued \ {hand'[w]}
        /\ size' = size - 1
    BY <1>6, PlacesScanTake DEF ScanTake
  <2>2. /\ Counting' = Counting /\ pc[w] = "scan"
        /\ \A v \in Workers : pc'[v] # "scan"
    BY <1>0, <1>6 DEF ScanTake, Goto, Counting, Control, LockInv
  <2>3. Cardinality(Queued') = Cardinality(Queued) - 1
    BY <1>0, <2>1, FS_RemoveElement
  <2>4. Cardinality(Queued) \in Nat /\ Cardinality(Counting) \in Nat
    BY <1>0, FS_CardinalityType
  <2>5. size >= 1 /\ size + Cardinality(Counting) = Cardinality(Queued)
    BY <2>2 DEF CountInv, SizeAccounting, ScanSize, Counting
  <2>6. size' >= 0 /\ size' + Cardinality(Counting') = Cardinality(Queued')
    BY <1>0, <2>1, <2>2, <2>3, <2>4, <2>5
  <2>7. SizeAccounting'
    BY <2>6 DEF SizeAccounting, Counting
  <2>. QED  BY <2>2, <2>7 DEF CountInv, ScanSize
<1>7. ASSUME NEW w \in Workers,
             \/ Lock(w) \/ Test(w) \/ Block(w) \/ SpuriousWake(w)
             \/ ScanEmpty(w) \/ ScanNull(w) \/ RunTask(w)
      PROVE  CountInv'
  <2>1. Queued' = Queued /\ size' = size
    BY <1>7 DEF Lock, Test, Block, SpuriousWake, ScanEmpty, ScanNull, RunTask,
                Finish, SliceOver, Queued
  <2>2. /\ Counting' = Counting
        /\ \A v \in Workers : pc'[v] = "scan" => pc[v] = "scan" \/ size > 0
    BY <1>0, <1>7 DEF Lock, Test, Block, SpuriousWake, ScanEmpty, ScanNull,
                      RunTask, Finish, SliceOver, Goto, Counting
  <2>. QED  BY <1>0, <2>1, <2>2, CountFrame
<1>8. CASE UNCHANGED vars
  BY <1>0, <1>8, CountFrame DEF vars, Queued, Counting
<1>. QED  BY <1>1, <1>2, <1>3, <1>4, <1>5, <1>6, <1>7, <1>8
          DEF Next, Enqueue, Dequeue


-----------------------------------------------------------------------------
(* What a dequeue may rely on *)

LEMMA SizeMeansQueued ==
  ASSUME CountInv, size \in Int, size > 0
  PROVE  Queued # {}
<1>1. Cardinality(Counting) \in Nat
  BY FiniteSets, FS_CardinalityType
<1>2. Cardinality(Queued) # 0
  BY <1>1 DEF CountInv, SizeAccounting, Counting
<1>. QED  BY <1>2, FS_EmptySet

LEMMA ScanNext ==
  Control /\ CountInv /\ ScanFindsUnlessBoosted /\ [Next]_vars
    => ScanFindsUnlessBoosted'
<1> SUFFICES ASSUME Control, CountInv, ScanFindsUnlessBoosted, [Next]_vars,
                    NEW w \in Workers, pc'[w] = "scan", ~moved'
             PROVE  \E i \in Level : i >= lvl'[w] /\ levels'[i] # << >>
  BY DEF ScanFindsUnlessBoosted
<1> USE DEF Threads
<1>0. /\ pc \in [Threads -> Steps] /\ lvl \in [Threads -> 0..Levels]
      /\ levels \in [Level -> Seq(Tasks)]
  BY DEF Control, TypeOK, StateTypes
<1>1. CASE pc[w] # "scan"
  <2>1. Test(w) /\ size > 0
    <3>1. \A t \in Tasks : ~Submit(t)
      BY <1>0, <1>1 DEF Submit, Goto
    <3>2. \A th \in Threads : ~NotDue(th) /\ ~Due(th) /\ ~Claim(th)
      BY <1>0, <1>1 DEF NotDue, Due, Claim, Goto, AfterCheck
    <3>3. \A th \in Threads : ~BoostLock(th) /\ ~BoostLevel(th) /\ ~BoostUnlock(th)
      BY <1>0, <1>1 DEF BoostLock, BoostLevel, BoostUnlock, Goto, AfterCheck
    <3>4. \A th \in Threads : ~Push(th) /\ ~Count(th) /\ ~Notify(th)
      BY <1>0, <1>1 DEF Push, Count, Notify, Goto, AfterEnqueue, IsWorker, Blocked
    <3>5. \A v \in Workers : /\ ~Lock(v) /\ ~Block(v) /\ ~SpuriousWake(v)
                              /\ ~Finish(v) /\ ~SliceOver(v)
      BY <1>0, <1>1 DEF Lock, Block, SpuriousWake, Finish, SliceOver, Goto
    <3>6. \A v \in Workers : ~ScanEmpty(v) /\ ~ScanTake(v) /\ ~ScanNull(v)
      BY <1>0, <1>1 DEF ScanEmpty, ScanTake, ScanNull, Goto
    <3>7. pc' # pc
      BY <1>1
    <3>8. PICK v \in Workers : Test(v)
      BY <3>1, <3>2, <3>3, <3>4, <3>5, <3>6, <3>7, Zenon
      DEF Next, CheckQuanta, Enqueue, Dequeue, RunTask, vars
    <3>9. v = w /\ size > 0
      BY <1>0, <1>1, <3>8 DEF Test, Goto
    <3>. QED  BY <3>8, <3>9
  <2>2. lvl'[w] = 0 /\ levels' = levels
    BY <2>1 DEF Test, Control, IndexInv
  <2>3. Queued # {}
    BY <2>1, SizeMeansQueued DEF Control, TypeOK, StateTypes
  <2>4. \E i \in Level : i >= 0 /\ levels[i] # << >>
    BY <1>0, <2>3 DEF Queued, Level
  <2>. QED  BY <2>2, <2>4
<1>2. CASE pc[w] = "scan"
  <2>0. \A v \in Workers : pc[v] \in {"test", "scan"} => v = w
    BY <1>2 DEF Control, LockInv
  <2>1. ASSUME NEW th \in Threads, Push(th)
        PROVE  lvl' = lvl /\ moved' = moved
               /\ \A i \in Level : levels[i] # << >> => levels'[i] # << >>
    <3>1. /\ prio[hand[th]] \in Level
          /\ levels' = [levels EXCEPT ![prio[hand[th]]] = Append(@, hand[th])]
          /\ hand[th] \in Tasks
      BY <2>1 DEF Push, PushedLevels, Control, TypeOK, StateTypes, HandInv
    <3>2. lvl' = lvl /\ moved' = moved
      BY <2>1, Zenon DEF Push
    <3>3. ASSUME NEW i \in Level, levels[i] # << >> PROVE levels'[i] # << >>
      <4>1. CASE i = prio[hand[th]]
        <5>1. levels[i] \in Seq(Tasks) /\ levels'[i] = Append(levels[i], hand[th])
          BY <1>0, <3>1, <4>1
        <5>. QED  BY <3>1, <5>1
      <4>2. CASE i # prio[hand[th]]
        BY <1>0, <3>1, <3>3, <4>2
      <4>. QED  BY <4>1, <4>2
    <3>. QED  BY <3>2, <3>3
  <2>2. ASSUME NEW th \in Threads, BoostLevel(th)
        PROVE  /\ lvl'[w] = lvl[w] /\ ~moved
               /\ \A i \in Level : levels[i] # << >> => levels'[i] # << >>
    <3>1. lvl[th] \in Level /\ th # w /\ lvl' = [lvl EXCEPT ![th] = @ + 1]
      BY <1>0, <1>2, <2>2, WorkQueueAssumption DEF BoostLevel, Level
    <3>2. levels[lvl[th]] = << >> /\ ~moved
      BY <2>2, Zenon DEF BoostLevel
    <3>3. levels' = [levels EXCEPT ![0] = levels[0] \o Reverse(levels[lvl[th]]),
                                   ![lvl[th]] = << >>]
      BY <2>2 DEF BoostLevel, BoostedLevels
    <3>4. 0 \in Level /\ lvl[th] # 0
      BY <2>2, WorkQueueAssumption DEF BoostLevel, Level, Control, IndexInv
    <3>5. /\ Reverse(levels[lvl[th]]) \in Seq(Tasks)
          /\ Len(Reverse(levels[lvl[th]])) = 0
      BY <1>0, <3>1, <3>2, ReverseLemma
    <3>6. levels'[0] = levels[0]
      <4>1. Reverse(levels[lvl[th]]) = << >>
        BY <3>5
      <4>2. levels'[0] = levels[0] \o Reverse(levels[lvl[th]])
        BY <1>0, <3>3, <3>4
      <4>3. levels[0] \in Seq(Tasks)
        BY <1>0, <3>4
      <4>. QED  BY <4>1, <4>2, <4>3
    <3>7. \A i \in Level : i # 0 /\ i # lvl[th] => levels'[i] = levels[i]
      BY <1>0, <3>3
    <3>. QED  BY <1>0, <3>1, <3>2, <3>6, <3>7
  <2>3. CASE ScanEmpty(w)
    <3>1. ~moved /\ levels' = levels /\ lvl'[w] = lvl[w] + 1
      BY <1>0, <2>3, Zenon DEF ScanEmpty
    <3>2. PICK i \in Level : i >= lvl[w] /\ levels[i] # << >>
      BY <1>2, <3>1 DEF ScanFindsUnlessBoosted
    <3>3. i # lvl[w]
      BY <2>3, <3>2 DEF ScanEmpty
    <3>4. i >= lvl[w] + 1
      BY <1>0, <3>2, <3>3 DEF Level
    <3>. QED  BY <3>1, <3>2, <3>4
  <2>4. CASE /\ ~ScanEmpty(w)
             /\ \A th \in Threads : ~Push(th) /\ ~BoostLevel(th)
    <3>1. lvl'[w] = lvl[w] /\ levels' = levels
      <4> DEFINE Kept == lvl'[w] = lvl[w] /\ levels' = levels
      <4>1. \A t \in Tasks : Submit(t) => Kept
        BY DEF Submit
      <4>2. \A th \in Threads : NotDue(th) \/ Due(th) \/ Claim(th) => Kept
        BY DEF NotDue, Due, Claim
      <4>3. \A th \in Threads : BoostLock(th) \/ BoostUnlock(th) => Kept
        BY <1>0, <1>2 DEF BoostLock, BoostUnlock
      <4>4. \A th \in Threads : Count(th) \/ Notify(th) => Kept
        BY DEF Count, Notify
      <4>5. \A v \in Workers : \/ Lock(v) \/ Test(v) \/ Block(v) \/ SpuriousWake(v)
                                \/ ScanNull(v) \/ Finish(v) \/ SliceOver(v) => Kept
        BY DEF Lock, Test, Block, SpuriousWake, ScanNull, Finish, SliceOver
      <4>6. \A v \in Workers : ~ScanEmpty(v) /\ ~ScanTake(v)
        BY <1>0, <1>2, <2>0, <2>4 DEF ScanEmpty, ScanTake, Goto
      <4>7. UNCHANGED vars => Kept
        BY DEF vars
      <4> HIDE DEF Kept
      <4>8. Kept
        BY <2>4, <4>1, <4>2, <4>3, <4>4, <4>5, <4>6, <4>7, Zenon
        DEF Next, CheckQuanta, Enqueue, Dequeue, RunTask
      <4>. QED  BY <4>8 DEF Kept
    <3>2. ~moved
      <4>1. CASE \E v \in Workers : Test(v)
        BY <1>0, <1>2, <2>0, <4>1 DEF Test
      <4>2. CASE ~\E v \in Workers : Test(v)
        BY <2>4, <4>2, Zenon
        DEF Next, CheckQuanta, Enqueue, Dequeue, RunTask, Submit, NotDue, Due,
            Claim, BoostLock, BoostUnlock, Count, Notify, Lock, Block,
            SpuriousWake, ScanEmpty, ScanTake, ScanNull, Finish, SliceOver, vars
      <4>. QED  BY <4>1, <4>2
    <3>. QED  BY <1>2, <3>1, <3>2 DEF ScanFindsUnlessBoosted
  <2>5. CASE \E th \in Threads : Push(th) \/ BoostLevel(th)
    <3>1. lvl'[w] = lvl[w] /\ ~moved
          /\ \A i \in Level : levels[i] # << >> => levels'[i] # << >>
      <4>1. CASE \E th \in Threads : Push(th)
        BY <2>1, <4>1, Zenon
      <4>2. CASE \E th \in Threads : BoostLevel(th)
        BY <2>2, <4>2, Zenon
      <4>. QED  BY <2>5, <4>1, <4>2
    <3>. QED  BY <1>2, <3>1 DEF ScanFindsUnlessBoosted
  <2>. QED  BY <2>3, <2>4, <2>5
<1>. QED  BY <1>1, <1>2

\* The strengthening of StrandedOnlyByLostWakeup needs a worker to exist.
LEMMA WakeNext ==
  Workers # {} /\ Control /\ CountInv /\ WakeInv /\ [Next]_vars => WakeInv'
<1> SUFFICES ASSUME Workers # {}, Control, CountInv, WakeInv, [Next]_vars,
                    ~lostWake', Queued' # {},
                    \A th \in Threads : pc'[th] \notin {"count", "notify"},
                    \A w \in Workers : pc'[w] \in {"blocked", "doze"}
             PROVE  FALSE
  BY DEF WakeInv
<1> USE DEF Threads
<1>0. pc \in [Threads -> Steps] /\ size \in Int
  BY DEF Control, TypeOK, StateTypes
<1>1. ~lostWake
  BY Zenon
  DEF Next, CheckQuanta, Enqueue, Dequeue, RunTask, Submit, NotDue, Due,
      Claim, BoostLock, BoostUnlock, BoostLevel, Push, Count, Notify, Lock, Test,
      Block, SpuriousWake, ScanEmpty, ScanTake, ScanNull, Finish, SliceOver, vars
<1>2. ASSUME Queued # {}, \A th \in Threads : pc[th] \notin {"count", "notify"}
      PROVE  \E w \in Workers : pc[w] \notin {"blocked", "doze"}
  BY <1>1, <1>2 DEF WakeInv
<1>3. CASE \E th \in Threads : Notify(th)
  <2>1. PICK th \in Threads : Notify(th)
    BY <1>3
  <2>2. \A w \in Workers : pc[w] # "doze"
    BY <2>1 DEF Notify
  <2>3. th \notin Workers
    BY <1>0, <2>1 DEF Notify, Goto, AfterEnqueue, IsWorker, Blocked
  <2>4. PICK w \in Workers : TRUE
    OBVIOUS
  <2>5. CASE Blocked = {}
    <3>1. pc'[w] = pc[w]
      BY <1>0, <2>1, <2>3, <2>5 DEF Notify, Goto
    <3>. QED  BY <2>2, <2>5, <3>1 DEF Blocked
  <2>6. CASE Blocked # {}
    BY <1>0, <2>1, <2>3, <2>6 DEF Notify, Blocked
  <2>. QED  BY <2>5, <2>6
<1>4. CASE \E w \in Workers : Test(w)
  <2>1. PICK w \in Workers : Test(w)
    BY <1>4
  <2>2. ~(size > 0) /\ Queued' = Queued
    BY <1>0, <2>1 DEF Test, Goto, Queued
  <2>3. \A th \in Threads : pc[th] # "count"
    BY <1>0, <2>1 DEF Test, Goto
  <2>4. Counting = {}
    BY <2>3 DEF Counting
  <2>5. Cardinality(Counting) = 0
    BY <2>4, FS_EmptySet
  <2>6. size >= 0 /\ size + Cardinality(Counting) = Cardinality(Queued)
    BY DEF CountInv, SizeAccounting, Counting
  <2>7. Cardinality(Queued) = 0
    BY <1>0, <2>2, <2>5, <2>6
  <2>. QED  BY <2>2, <2>7, FiniteSets, FS_EmptySet
<1>5. CASE \A th \in Threads : ~Notify(th) /\ (th \in Workers => ~Test(th))
  <2>1. \A w \in Workers : pc[w] \in {"blocked", "doze"}
    BY <1>0, <1>5
    DEF Next, CheckQuanta, Enqueue, Dequeue, RunTask, Submit, NotDue, Due,
        Claim, BoostLock, BoostUnlock, BoostLevel, Push, Count, Lock, Block,
        SpuriousWake, ScanEmpty, ScanTake, ScanNull, Finish, SliceOver, Goto,
        AfterCheck, vars
  <2>2. \A th \in Threads : pc[th] \notin {"count", "notify"}
    BY <1>0, <1>5, <2>1
    DEF Next, CheckQuanta, Enqueue, Dequeue, RunTask, Submit, NotDue, Due,
        Claim, BoostLock, BoostUnlock, BoostLevel, Push, Count, Lock, Block,
        SpuriousWake, ScanEmpty, ScanTake, ScanNull, Finish, SliceOver, Goto,
        AfterCheck, vars
  <2>3. Queued = {}
    BY <1>2, <2>1, <2>2
  <2>4. \A th \in Threads : ~Push(th)
    BY <1>0 DEF Push, Goto
  <2>5. CASE \E th \in Threads : BoostLevel(th)
    BY <2>3, <2>5, BoostKeepsQueued
  <2>6. CASE \A th \in Threads : ~BoostLevel(th) /\ (th \in Workers => ~ScanTake(th))
    <3>1. levels' = levels
      BY <1>5, <2>4, <2>6
      DEF Next, CheckQuanta, Enqueue, Dequeue, RunTask, Submit, NotDue, Due,
          Claim, BoostLock, BoostUnlock, Count, Lock, Block, SpuriousWake,
          ScanEmpty, ScanNull, Finish, SliceOver, vars
    <3>. QED  BY <2>3, <3>1 DEF Queued
  <2>7. CASE \E w \in Workers : ScanTake(w)
    BY <2>1, <2>7 DEF ScanTake
  <2>. QED  BY <2>5, <2>6, <2>7
<1>. QED  BY <1>3, <1>4, <1>5

-----------------------------------------------------------------------------
(* The theorems *)

LEMMA InitQueue ==
  Init => Queued = {} /\ CountInv /\ ScanFindsUnlessBoosted /\ WakeInv
<1> SUFFICES ASSUME Init
             PROVE  Queued = {} /\ CountInv /\ ScanFindsUnlessBoosted /\ WakeInv
  OBVIOUS
<1>1. Queued = {}
  BY DEF Init, Queued
<1>2. \A th \in Threads : pc[th] \notin {"count", "scan"}
  BY DEF Init
<1>3. Counting = {} /\ size = 0
  BY <1>2 DEF Counting, Init
<1>4. Cardinality(Counting) = 0 /\ Cardinality(Queued) = 0
  BY <1>1, <1>3, FS_EmptySet
<1>5. SizeAccounting
  BY <1>3, <1>4 DEF SizeAccounting, Counting
<1>. QED  BY <1>1, <1>2, <1>5
          DEF CountInv, ScanSize, ScanFindsUnlessBoosted, WakeInv, Threads

\* The control state, the places of the tasks and their count are inductive.
LEMMA QueueInvariant == Spec => [](Control /\ Places /\ CountInv)
<1>1. Init => Control /\ Places /\ CountInv
  BY ControlInit, InitQueue
<1>2. Control /\ Places /\ CountInv /\ [Next]_vars
        => (Control /\ Places /\ CountInv)'
  BY ControlNext, PlacesNext, CountNext
<1>. QED  BY <1>1, <1>2, PTL DEF Spec

\* The types hold, in particular enqueue never indexes past the last level.
THEOREM TypeCorrect == Spec => []TypeOK
<1>1. Control => TypeOK
  BY DEF Control
<1>. QED  BY <1>1, QueueInvariant, PTL

\* No task is lost, duplicated or owned twice by enqueue, dequeue and boost.
THEOREM TasksInOnePlace == Spec => []OnePlace
<1>1. Places => OnePlace
  BY DEF Places
<1>. QED  BY <1>1, QueueInvariant, PTL

\* A queued task is on the level of its priorityLevel, boosts included.
THEOREM PriorityIsLevel == Spec => []PriorityMatchesLevel
<1>1. Places => PriorityMatchesLevel
  BY DEF Places
<1>. QED  BY <1>1, QueueInvariant, PTL

\* MLFQ::size never wraps below zero and lags by the uncounted enqueues only.
THEOREM SizeIsExact == Spec => []SizeAccounting
<1>1. CountInv => SizeAccounting
  BY DEF CountInv
<1>. QED  BY <1>1, QueueInvariant, PTL

\* Without an overlapping boost the scan of dequeue ends at a task.
THEOREM ScanIsSound == Spec => []ScanFindsUnlessBoosted
<1>1. Init => ScanFindsUnlessBoosted
  BY InitQueue
<1>2. Control /\ Places /\ CountInv /\ ScanFindsUnlessBoosted /\ [Next]_vars
        => ScanFindsUnlessBoosted'
  BY ScanNext
<1>. QED  BY <1>1, <1>2, QueueInvariant, PTL DEF Spec

\* With at least one worker, only a lost notify_one strands a queued task.
THEOREM StrandingNeedsLostWakeup ==
  ASSUME Workers # {}
  PROVE  Spec => []StrandedOnlyByLostWakeup
<1>1. Init => WakeInv
  BY InitQueue
<1>2. Control /\ Places /\ CountInv /\ WakeInv /\ [Next]_vars => WakeInv'
  BY WakeNext
<1>3. Control /\ WakeInv => StrandedOnlyByLostWakeup
  BY Zenon DEF WakeInv, StrandedOnlyByLostWakeup, Threads
<1>. QED  BY <1>1, <1>2, <1>3, QueueInvariant, PTL DEF Spec

-----------------------------------------------------------------------------
(***************************************************************************)
(* The multi-level feedback queue implements TaskPool, for any number of   *)
(* workers, tasks, levels and boosts.  Since a task is in one place,       *)
(* PoolPlace says which, and only Push, ScanTake and Finish change it.     *)
(***************************************************************************)

(* The refinement mapping, case by case *)

\* PoolPlace[t], as a function of fresh, hand and Queued.
PlaceOf(F, h, Q, t) ==
  LET H == {w \in Workers : h[w] = t}
  IN  IF t \in F \/ h[Main] = t THEN "new"
      ELSE IF H # {} THEN CHOOSE w \in H : TRUE
      ELSE IF t \in Q THEN "pool" ELSE "done"

LEMMA PoolPlaceOf ==
  ASSUME NEW t \in Tasks
  PROVE  /\ PoolPlace[t] = PlaceOf(fresh, hand, Queued, t)
         /\ PoolPlace'[t] = PlaceOf(fresh', hand', Queued', t)
  BY DEF PoolPlace, PlaceOf, Holder

LEMMA PlaceRule ==
  ASSUME NEW F, NEW h, NEW Q, NEW t, t \notin F
  PROVE  /\ \A w \in Workers :
              (\A u \in Threads : h[u] = t <=> u = w) => PlaceOf(F, h, Q, t) = w
         /\ (\A u \in Threads : h[u] # t)
              => PlaceOf(F, h, Q, t) = IF t \in Q THEN "pool" ELSE "done"
<1>1. Main \in Threads /\ \A w \in Workers : w \in Threads /\ w # Main
  BY WorkQueueAssumption DEF Threads
<1>2. ASSUME NEW w \in Workers, \A u \in Threads : h[u] = t <=> u = w
      PROVE  PlaceOf(F, h, Q, t) = w
  <2>1. {v \in Workers : h[v] = t} = {w} /\ h[Main] # t
    BY <1>1, <1>2
  <2>2. (CHOOSE v \in {w} : TRUE) = w
    OBVIOUS
  <2>. QED  BY <2>1, <2>2 DEF PlaceOf
<1>3. ASSUME \A u \in Threads : h[u] # t
      PROVE  PlaceOf(F, h, Q, t) = IF t \in Q THEN "pool" ELSE "done"
  <2>1. {v \in Workers : h[v] = t} = {} /\ h[Main] # t
    BY <1>1, <1>3
  <2>. QED  BY <2>1 DEF PlaceOf
<1>. QED  BY <1>2, <1>3

LEMMA PlaceIs ==
  ASSUME Control, Places, NEW t \in Tasks
  PROVE  /\ t \in fresh \/ hand[Main] = t => PoolPlace[t] = "new"
         /\ \A w \in Workers : hand[w] = t => PoolPlace[t] = w
         /\ t \in Queued => PoolPlace[t] = "pool"
         /\ t \notin fresh /\ t \notin Queued
              /\ (\A th \in Threads : hand[th] # t) => PoolPlace[t] = "done"
<1>1. t # NoTask /\ \A w \in Workers : w \in Threads
  BY WorkQueueAssumption DEF Threads
<1>2. ASSUME NEW w \in Workers, hand[w] = t PROVE PoolPlace[t] = w
  <2>1. t \notin fresh /\ \A u \in Threads : hand[u] = t <=> u = w
    BY <1>1, <1>2 DEF Places, OnePlace
  <2>. QED  BY <2>1, PlaceRule, PoolPlaceOf
<1>3. t \in Queued => t \notin fresh /\ \A u \in Threads : hand[u] # t
  BY DEF Places, OnePlace
<1>4. t \in fresh \/ hand[Main] = t => PoolPlace[t] = "new"
  BY DEF PoolPlace
<1>. QED  BY <1>2, <1>3, <1>4, PlaceRule, PoolPlaceOf

\* A task has one of the four kinds of place.
LEMMA PlaceCases ==
  ASSUME NEW t \in Tasks
  PROVE  \/ t \in fresh \/ hand[Main] = t
         \/ \E w \in Workers : hand[w] = t
         \/ t \in Queued
         \/ t \notin fresh /\ t \notin Queued /\ \A th \in Threads : hand[th] # t
  BY DEF Threads

\* Steps that leave the task t where it is.
LEMMA PlaceKept ==
  ASSUME NEW t \in Tasks,
         (t \in fresh \/ hand[Main] = t) <=> (t \in fresh' \/ hand'[Main] = t),
         \A w \in Workers : hand[w] = t <=> hand'[w] = t,
         t \in Queued <=> t \in Queued'
  PROVE  PoolPlace'[t] = PoolPlace[t]
<1>1. Holder(t)' = Holder(t)
  BY DEF Holder
<1>. QED  BY <1>1 DEF PoolPlace

LEMMA PoolFunction ==
  /\ PoolPlace = [t \in Tasks |-> PoolPlace[t]]
  /\ PoolPlace' = [t \in Tasks |-> PoolPlace'[t]]
  BY DEF PoolPlace

LEMMA PoolFrame ==
  ASSUME fresh' = fresh, hand' = hand, Queued' = Queued
  PROVE  PoolPlace' = PoolPlace
<1>1. \A t \in Tasks : PoolPlace'[t] = PoolPlace[t]
  BY PlaceKept
<1>. QED  BY <1>1, PoolFunction

LEMMA QueueFrame ==
  ASSUME UNCHANGED <<fresh, hand, levels>>
  PROVE  PoolPlace' = PoolPlace
<1>1. Queued' = Queued
  BY DEF Queued
<1>. QED  BY <1>1, PoolFrame

-----------------------------------------------------------------------------
(* The steps *)

LEMMA SubmitMaps ==
  ASSUME Control, Places, NEW t \in Tasks, Submit(t)
  PROVE  PoolPlace' = PoolPlace
<1>1. /\ fresh' = fresh \ {t} /\ t \in fresh /\ hand' = [hand EXCEPT ![Main] = t]
      /\ hand[Main] = NoTask /\ hand \in [Threads -> Tasks \cup {NoTask}]
      /\ Main \in Threads /\ Main \notin Workers /\ NoTask \notin Tasks
      /\ \A w \in Workers : w \in Threads
  BY WorkQueueAssumption
  DEF Submit, Control, TypeOK, StateTypes, HandInv, Threads
<1>2. Queued' = Queued
  BY DEF Submit, Queued
<1>3. \A u \in Tasks : PoolPlace'[u] = PoolPlace[u]
  <2> SUFFICES ASSUME NEW u \in Tasks PROVE PoolPlace'[u] = PoolPlace[u]
    OBVIOUS
  <2>1. (u \in fresh \/ hand[Main] = u) <=> (u \in fresh' \/ hand'[Main] = u)
    BY <1>1
  <2>2. \A w \in Workers : hand[w] = u <=> hand'[w] = u
    BY <1>1
  <2>. QED  BY <1>2, <2>1, <2>2, PlaceKept
<1>. QED  BY <1>3, PoolFunction

LEMMA PushMaps ==
  ASSUME Control, Places, NEW th \in Threads, Push(th)
  PROVE  \E t \in Tasks :
           \/ PoolOf!Submit(t)
           \/ \E w \in Workers : PoolOf!Resubmit(w, t)
<1> DEFINE t == hand[th]
<1>1. /\ t \in Tasks /\ Queued' = Queued \cup {t} /\ t \notin Queued
      /\ hand' = [hand EXCEPT ![th] = NoTask] /\ fresh' = fresh
      /\ hand \in [Threads -> Tasks \cup {NoTask}] /\ NoTask \notin Tasks
      /\ t \notin fresh
      /\ \A u \in Threads : hand[u] = t => u = th
      /\ Main \in Threads /\ \A w \in Workers : w \in Threads
  <2>1. t \in Tasks /\ Queued' = Queued \cup {t} /\ t \notin Queued
    BY PlacesPush
  <2>2. /\ hand' = [hand EXCEPT ![th] = NoTask] /\ fresh' = fresh
        /\ hand \in [Threads -> Tasks \cup {NoTask}]
    BY DEF Push, Control, TypeOK, StateTypes
  <2>. QED  BY <2>1, <2>2, WorkQueueAssumption DEF Places, OnePlace, Threads
<1>2. PoolPlace'[t] = "pool"
  <2>1. t \notin fresh' /\ t \in Queued' /\ \A u \in Threads : hand'[u] # t
    BY <1>1
  <2>2. PoolPlace'[t] = PlaceOf(fresh', hand', Queued', t)
    BY <1>1, PoolPlaceOf
  <2>3. PlaceOf(fresh', hand', Queued', t) = "pool"
    <3> HIDE DEF t
    <3>. QED  BY <2>1, PlaceRule
  <2>. QED  BY <2>2, <2>3
<1>3. ASSUME NEW u \in Tasks, u # t PROVE PoolPlace'[u] = PoolPlace[u]
  <2>1. (u \in fresh \/ hand[Main] = u) <=> (u \in fresh' \/ hand'[Main] = u)
    BY <1>1, <1>3
  <2>2. \A w \in Workers : hand[w] = u <=> hand'[w] = u
    BY <1>1, <1>3
  <2>. QED  BY <1>1, <1>3, <2>1, <2>2, PlaceKept
<1>4. PoolPlace' = [PoolPlace EXCEPT ![t] = "pool"]
  BY <1>1, <1>2, <1>3, PoolFunction
<1>5. CASE th = Main
  <2>1. PoolPlace[t] = "new"
    BY <1>1, <1>5, PlaceIs
  <2>. QED  BY <1>1, <1>4, <2>1 DEF PoolOf!Submit, PoolOf!New, PoolOf!Pool
<1>6. CASE th \in Workers
  <2>1. PoolPlace[t] = th
    BY <1>1, <1>6, PlaceIs
  <2>. QED  BY <1>1, <1>4, <1>6, <2>1 DEF PoolOf!Resubmit, PoolOf!Pool
<1>. QED  BY <1>5, <1>6 DEF Threads

LEMMA ScanTakeMaps ==
  ASSUME Control, Places, NEW w \in Workers, ScanTake(w)
  PROVE  \E t \in Tasks : PoolOf!Take(w, t)
<1> DEFINE t == hand'[w]
<1>1. t \in Queued /\ t \in Tasks /\ Queued' = Queued \ {t}
  BY PlacesScanTake DEF Queued
<1>2. /\ hand' = [hand EXCEPT ![w] = t] /\ fresh' = fresh
      /\ hand \in [Threads -> Tasks \cup {NoTask}] /\ NoTask \notin Tasks
      /\ w \in Threads /\ w # Main /\ Main \in Threads /\ hand[w] = NoTask
  BY WorkQueueAssumption
  DEF ScanTake, Control, TypeOK, StateTypes, HandInv, Threads
<1>3. PoolPlace[t] = "pool" /\ PoolPlace'[t] = w
  <2>1. t \notin fresh /\ \A u \in Threads : hand[u] # t
    BY <1>1 DEF Places, OnePlace
  <2>2. \A u \in Threads : hand'[u] = t <=> u = w
    BY <1>2, <2>1
  <2>. QED  BY <1>1, <1>2, <2>1, <2>2, PlaceIs, PlaceRule, PoolPlaceOf
<1>4. ASSUME NEW u \in Tasks, u # t PROVE PoolPlace'[u] = PoolPlace[u]
  <2>1. (u \in fresh \/ hand[Main] = u) <=> (u \in fresh' \/ hand'[Main] = u)
    BY <1>2
  <2>2. \A v \in Workers : hand[v] = u <=> hand'[v] = u
    BY <1>2, <1>4 DEF Threads
  <2>. QED  BY <1>1, <1>4, <2>1, <2>2, PlaceKept
<1>5. PoolPlace' = [PoolPlace EXCEPT ![t] = w]
  BY <1>1, <1>3, <1>4, PoolFunction
<1>6. ASSUME NEW u \in Tasks PROVE PoolPlace[u] # w
  <2>1. hand[w] # u
    BY <1>2
  <2>2. \A v \in Workers : hand[v] = u => PoolPlace[u] # w
    BY <2>1, PlaceIs
  <2>3. w \notin {"new", "pool", "done"}
    BY WorkQueueAssumption
  <2>. QED  BY <2>2, <2>3, PlaceIs, PlaceCases
<1>. QED  BY <1>1, <1>3, <1>5, <1>6 DEF PoolOf!Take, PoolOf!Pool

LEMMA FinishMaps ==
  ASSUME Control, Places, NEW w \in Workers, Finish(w)
  PROVE  \E t \in Tasks : PoolOf!Finish(w, t)
<1> DEFINE t == hand[w]
<1>1. /\ t \in Tasks /\ hand' = [hand EXCEPT ![w] = NoTask] /\ fresh' = fresh
      /\ hand \in [Threads -> Tasks \cup {NoTask}] /\ NoTask \notin Tasks
      /\ w \in Threads /\ w # Main /\ Main \in Threads
  BY WorkQueueAssumption
  DEF Finish, Control, TypeOK, StateTypes, HandInv, Threads
<1>2. Queued' = Queued
  BY DEF Finish, Queued
<1>3. t \notin fresh /\ t \notin Queued /\ \A u \in Threads : hand[u] = t => u = w
  BY <1>1 DEF Places, OnePlace
<1>4. PoolPlace[t] = w
  BY <1>1, PlaceIs
<1>5. PoolPlace'[t] = "done"
  <2>1. t \notin fresh' /\ t \notin Queued' /\ \A u \in Threads : hand'[u] # t
    BY <1>1, <1>2, <1>3
  <2>2. PoolPlace'[t] = PlaceOf(fresh', hand', Queued', t)
    BY <1>1, PoolPlaceOf
  <2>3. PlaceOf(fresh', hand', Queued', t) = "done"
    <3> HIDE DEF t
    <3>. QED  BY <2>1, PlaceRule
  <2>. QED  BY <2>2, <2>3
<1>6. ASSUME NEW u \in Tasks, u # t PROVE PoolPlace'[u] = PoolPlace[u]
  <2>1. (u \in fresh \/ hand[Main] = u) <=> (u \in fresh' \/ hand'[Main] = u)
    BY <1>1
  <2>2. \A v \in Workers : hand[v] = u <=> hand'[v] = u
    BY <1>1, <1>6 DEF Threads
  <2>. QED  BY <1>2, <2>1, <2>2, PlaceKept
<1>7. PoolPlace' = [PoolPlace EXCEPT ![t] = "done"]
  BY <1>1, <1>5, <1>6, PoolFunction
<1>. QED  BY <1>1, <1>4, <1>7 DEF PoolOf!Finish, PoolOf!Done

LEMMA BoostMaps ==
  ASSUME Control, NEW th \in Threads, BoostLevel(th)
  PROVE  PoolPlace' = PoolPlace
<1>1. Queued' = Queued
  BY BoostKeepsQueued
<1>2. fresh' = fresh /\ hand' = hand
  BY DEF BoostLevel
<1>. QED  BY <1>1, <1>2, PoolFrame

-----------------------------------------------------------------------------

LEMMA InitMaps == Init => PoolOf!Init
<1> SUFFICES ASSUME Init PROVE PoolOf!Init
  OBVIOUS
<1>1. \A t \in Tasks : t \in fresh
  BY DEF Init
<1>. QED  BY <1>1 DEF PoolPlace, PoolOf!Init, PoolOf!New

LEMMA NextMaps ==
  Control /\ Places /\ [Next]_vars
    => [PoolOf!Next]_PoolPlace
<1> SUFFICES ASSUME Control, Places, [Next]_vars
             PROVE  PoolOf!Next \/ PoolPlace' = PoolPlace
  OBVIOUS
<1>1. ASSUME NEW t \in Tasks, Submit(t) PROVE PoolPlace' = PoolPlace
  BY <1>1, SubmitMaps
<1>2. ASSUME NEW th \in Threads, CheckQuanta(th) PROVE PoolPlace' = PoolPlace
  <2>1. CASE BoostLevel(th)
    BY <2>1, BoostMaps
  <2>2. CASE ~BoostLevel(th)
    BY <1>2, <2>2, QueueFrame
    DEF CheckQuanta, NotDue, Due, Claim, BoostLock, BoostUnlock
  <2>. QED  BY <2>1, <2>2
<1>3. ASSUME NEW th \in Threads, Enqueue(th)
      PROVE  PoolOf!Next \/ PoolPlace' = PoolPlace
  <2>1. CASE Push(th)
    BY <2>1, PushMaps DEF PoolOf!Next
  <2>2. CASE Count(th) \/ Notify(th)
    BY <2>2, QueueFrame DEF Count, Notify
  <2>. QED  BY <1>3, <2>1, <2>2 DEF Enqueue
<1>4. ASSUME NEW w \in Workers, Dequeue(w) \/ SpuriousWake(w)
      PROVE  PoolOf!Next \/ PoolPlace' = PoolPlace
  <2>1. CASE ScanTake(w)
    BY <2>1, ScanTakeMaps DEF PoolOf!Next
  <2>2. CASE Lock(w) \/ Test(w) \/ Block(w) \/ SpuriousWake(w)
             \/ ScanEmpty(w) \/ ScanNull(w)
    BY <2>2, QueueFrame
    DEF Lock, Test, Block, SpuriousWake, ScanEmpty, ScanNull
  <2>. QED  BY <1>4, <2>1, <2>2 DEF Dequeue
<1>5. ASSUME NEW w \in Workers, RunTask(w)
      PROVE  PoolOf!Next \/ PoolPlace' = PoolPlace
  <2>1. CASE Finish(w)
    BY <2>1, FinishMaps DEF PoolOf!Next
  <2>2. CASE SliceOver(w)
    BY <2>2, QueueFrame DEF SliceOver
  <2>. QED  BY <1>5, <2>1, <2>2 DEF RunTask
<1>6. CASE UNCHANGED vars
  BY <1>6, QueueFrame DEF vars
<1>. QED  BY <1>1, <1>2, <1>3, <1>4, <1>5, <1>6 DEF Next

\* Whatever enqueue, dequeue and boost do at once, their callers see a pool
\* that gives each task to one worker at a time and forgets none.
THEOREM QueueImplementsPool == Spec => PoolRefinement
<1>1. Init => PoolOf!Init
  BY InitMaps
<1>2. Control /\ Places /\ [Next]_vars
        => [PoolOf!Next]_PoolPlace
  BY NextMaps
<1>. QED  BY <1>1, <1>2, QueueInvariant, PTL
          DEF Spec, PoolRefinement, PoolOf!Spec

=============================================================================
