------------------------------ MODULE TaskPool ------------------------------
(***************************************************************************)
(* What network/Workers.h promises to its callers, without priorities,     *)
(* locks or time: MLFQ owns tasks (std::unique_ptr<Task>) between enqueue  *)
(* and dequeue, and a task is at any moment unsubmitted, in the pool, in   *)
(* the hands of exactly one worker, or destroyed.  WorkQueue implements    *)
(* this specification; Server uses it as its scheduler.                    *)
(***************************************************************************)
CONSTANTS Workers, \* the threads that run tasks
          Tasks    \* the tasks ever created

\* The places of a task that is held by no worker.
New == "new"
Pool == "pool"
Done == "done"

VARIABLE place

Init == place = [t \in Tasks |-> New]

\* MLFQ::enqueue by the event loop.
Submit(t) == /\ place[t] = New
             /\ place' = [place EXCEPT ![t] = Pool]

\* MLFQ::dequeue by w, which runs one task at a time.
Take(w, t) == /\ place[t] = Pool
              /\ \A u \in Tasks : place[u] # w
              /\ place' = [place EXCEPT ![t] = w]

\* The slice of w's task ran out: MLFQ::enqueue by the worker.
Resubmit(w, t) == /\ place[t] = w
                  /\ place' = [place EXCEPT ![t] = Pool]

\* Task::run returned false: the unique_ptr goes out of scope.
Finish(w, t) == /\ place[t] = w
                /\ place' = [place EXCEPT ![t] = Done]

Next == \E t \in Tasks :
          \/ Submit(t)
          \/ \E w \in Workers : Take(w, t) \/ Resubmit(w, t) \/ Finish(w, t)

Spec == Init /\ [][Next]_place

=============================================================================
