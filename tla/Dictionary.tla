----------------------------- MODULE Dictionary -----------------------------
(***************************************************************************)
(* What the users of unordered_map rely on: a finite map, an answer to     *)
(* each call, and loops that come to every entry once, whether they copy   *)
(* the entries to another map or erase them.                               *)
(***************************************************************************)
EXTENDS TLC

CONSTANTS Keys, Values

VARIABLES dict,   \* the entries
          todo,   \* keys that the loop in progress has yet to come to
          copied, \* entries that it has copied
          busy,   \* whether a loop is in progress
          ret     \* what the last call returned

dictVars == <<dict, todo, copied, busy, ret>>

NoEntries == << >>

Put(d, k, v) == (k :> v) @@ d
Drop(d, k) == [x \in DOMAIN d \ {k} |-> d[x]]

YesNo(b) == IF b THEN "yes" ELSE "no"

Init == /\ dict = NoEntries
        /\ todo = {}
        /\ copied = NoEntries
        /\ busy = FALSE
        /\ ret = "none"

Idle == ~busy /\ UNCHANGED <<todo, copied, busy>>

Insert(k, v) == /\ Idle
                /\ dict' = IF k \in DOMAIN dict THEN dict ELSE Put(dict, k, v)
                /\ ret' = YesNo(k \notin DOMAIN dict)

Assign(k, v) == Idle /\ dict' = Put(dict, k, v) /\ ret' = "none"

Remove(k) == /\ Idle
             /\ dict' = Drop(dict, k)
             /\ ret' = YesNo(k \in DOMAIN dict)

Lookup(k) == /\ Idle
             /\ ret' = IF k \in DOMAIN dict THEN dict[k] ELSE "none"
             /\ UNCHANGED dict

BeginLoop == /\ ~busy
             /\ busy' = TRUE
             /\ todo' = DOMAIN dict
             /\ ret' = "none"
             /\ UNCHANGED <<dict, copied>>

Come(k) == busy /\ k \in todo /\ todo' = todo \ {k} /\ UNCHANGED <<busy, ret>>

CopyEntry(k) == /\ Come(k)
                /\ copied' = Put(copied, k, dict[k])
                /\ UNCHANGED dict

EraseEntry(k) == /\ Come(k)
                 /\ dict' = Drop(dict, k)
                 /\ UNCHANGED copied

EndLoop == /\ busy
           /\ todo = {}
           /\ busy' = FALSE
           /\ copied' = NoEntries
           /\ UNCHANGED <<dict, todo, ret>>

Next == \/ \E k \in Keys : \/ Remove(k) \/ Lookup(k)
                           \/ CopyEntry(k) \/ EraseEntry(k)
                           \/ \E v \in Values : Insert(k, v) \/ Assign(k, v)
        \/ BeginLoop \/ EndLoop

Spec == Init /\ [][Next]_dictVars

=============================================================================
