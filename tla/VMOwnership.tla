---------------------------- MODULE VMOwnership ----------------------------
(***************************************************************************)
(* What the comments of Server::Connection (network/Server.h) promise of   *)
(* the raw Hardware::Machine pointers, without connections, tasks or       *)
(* threads: a machine is owned by its connection or by one task, the       *)
(* ownership moves between the two, and the last owner frees it, once.     *)
(***************************************************************************)
CONSTANT Machines

VARIABLE owner \* "none" before new, then "conn" or "task", then "freed"

Init == owner = [m \in Machines |-> "none"]

Move(m, from, to) == /\ owner[m] = from
                     /\ owner' = [owner EXCEPT ![m] = to]

Claim(m) == Move(m, "conn", "task")    \* generateTask: conn.vm.exchange
Return(m) == Move(m, "task", "conn")   \* ~VMTask: conn.vm.store
Free(m) == \/ Move(m, "conn", "freed") \* ~Connection
           \/ Move(m, "task", "freed") \* ~VMTask

\* Server::dispatch accepts all waiting clients in one call.
CreateAll == \E M \in SUBSET Machines :
               /\ \A m \in M : owner[m] = "none"
               /\ owner' = [m \in Machines |-> IF m \in M THEN "conn"
                                                          ELSE owner[m]]

Next == CreateAll \/ \E m \in Machines : Claim(m) \/ Return(m) \/ Free(m)

Spec == Init /\ [][Next]_owner

=============================================================================
