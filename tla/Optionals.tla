----------------------------- MODULE Optionals ------------------------------
(***************************************************************************)
(* optional<T> (kernel/kstl/Optional.h, and the same text in ministl of    *)
(* the programs): storage for an object of type T, in which one is         *)
(* constructed and destroyed by hand, and a flag that says whether one is  *)
(* there.  What the constructors, the destructor and the assignments of T  *)
(* do to the storage is modelled too: an object may not be constructed     *)
(* over another one, and only one that is there may be assigned to, read   *)
(* or destroyed.                                                           *)
(*                                                                         *)
(* The assignment from an optional that is moved takes a const one, from   *)
(* which no T can be moved: no program that uses it compiles.              *)
(***************************************************************************)
EXTENDS Integers, FiniteSets, Functions

CONSTANTS
  Holders, \* optionals
  Values,  \* what a T can be
  Moved,   \* a T that another was moved from
  Nothing  \* storage without a T

ASSUME OptionalsAssumption ==
  Moved \notin Values /\ Nothing \notin Values \cup {Moved}

VARIABLES
  live,    \* the flag of each optional that exists
  storage, \* history: the T in the storage of each, or Nothing
  lost,    \* history: an object was lost, or Nothing was taken for one
  meant,   \* history: the value each is to have, or Nothing, by what was
           \* called
  threw    \* whether the assertion of value() has failed

optionalVars == <<live, storage, lost, meant, threw>>

Present == IF threw THEN {} ELSE DOMAIN live
Absent == IF threw THEN {} ELSE Holders \ DOMAIN live

OptionalInit ==
  /\ live = <<>> /\ storage = <<>> /\ meant = <<>>
  /\ lost = FALSE /\ threw = FALSE

\* The function f, at k now x.
With(f, k, x) == [i \in DOMAIN f \cup {k} |-> IF i = k THEN x ELSE f[i]]

\* The storage of h has v, and the flag says so.
Has(h, v) == /\ live' = With(live, h, v # Nothing)
             /\ storage' = With(storage, h, v)
             /\ UNCHANGED threw

Unharmed == UNCHANGED lost

Means(h, v) == meant' = With(meant, h, v)

-----------------------------------------------------------------------------
(* Construction: the storage is of no object before. *)

ConstructEmpty(h) ==
  h \in Absent /\ Has(h, Nothing) /\ Unharmed /\ Means(h, Nothing)

\* From a T, copied or moved, or from the arguments of a constructor of T.
ConstructFrom(h, v) ==
  h \in Absent /\ Has(h, v) /\ Unharmed /\ Means(h, v)

CopyConstruct(h, k) ==
  /\ h \in Absent /\ k \in Present
  /\ Has(h, IF live[k] THEN storage[k] ELSE Nothing)
  /\ lost' = (lost \/ (live[k] /\ storage[k] = Nothing))
  /\ Means(h, meant[k])

MoveConstructOptional(h, k) ==
  /\ h \in Absent /\ k \in Present
  /\ IF live[k]
       THEN /\ live' = With(live, h, TRUE)
            /\ storage' = With(With(storage, k, Moved), h, storage[k])
            /\ lost' = (lost \/ storage[k] = Nothing)
            /\ UNCHANGED threw
       ELSE Has(h, Nothing) /\ Unharmed
  /\ meant' = With(With(meant, k, IF meant[k] = Nothing THEN Nothing ELSE Moved),
                   h, meant[k])

-----------------------------------------------------------------------------
(* Changes *)

\* What reset leaves, and whether it destroyed an object that is not there.
AfterReset(h) ==
  IF ~live[h] THEN [live |-> FALSE, object |-> storage[h], bad |-> FALSE]
  ELSE [live |-> FALSE, object |-> Nothing, bad |-> storage[h] = Nothing]

ResetObject(h) ==
  /\ live' = [live EXCEPT ![h] = AfterReset(h).live]
  /\ storage' = [storage EXCEPT ![h] = AfterReset(h).object]
  /\ lost' = (lost \/ AfterReset(h).bad)
  /\ UNCHANGED threw

\* reset, and the assignment of nullopt.
ResetOptional(h) == h \in Present /\ ResetObject(h) /\ Means(h, Nothing)

\* emplace: reset, then construction.
Emplaced(h, v) ==
  /\ Has(h, v)
  /\ lost' = (lost \/ AfterReset(h).bad
                \/ AfterReset(h).object # Nothing)

Emplace(h, v) == h \in Present /\ Emplaced(h, v) /\ Means(h, v)

\* T::operator=.
AssignObject(h, v) == /\ storage' = [storage EXCEPT ![h] = v]
                      /\ lost' = (lost \/ storage[h] = Nothing)
                      /\ UNCHANGED <<live, threw>>

AssignValue(h, v) ==
  /\ h \in Present
  /\ IF live[h] THEN AssignObject(h, v) ELSE Emplaced(h, v)
  /\ Means(h, v)

AssignFrom(h, k) ==
  IF live[k]
    THEN IF live[h] THEN AssignObject(h, storage[k])
                    ELSE Emplaced(h, storage[k])
    ELSE IF live[h] THEN ResetObject(h)
                    ELSE UNCHANGED <<live, storage, lost, threw>>

CopyAssign(h, k) ==
  /\ {h, k} \subseteq Present /\ h # k
  /\ AssignFrom(h, k)
  /\ Means(h, meant[k])

\* ~optional: reset, and the storage is gone.
DestroyOptional(h) ==
  /\ h \in Present
  /\ live' = Restrict(live, Present \ {h})
  /\ storage' = Restrict(storage, Present \ {h})
  /\ meant' = Restrict(meant, Present \ {h})
  /\ lost' = (lost \/ AfterReset(h).bad
                \/ AfterReset(h).object # Nothing)
  /\ UNCHANGED threw

\* value() of an optional without one ends the program.
ValueFails(h) == /\ h \in Present /\ ~live[h]
                 /\ threw' = TRUE
                 /\ UNCHANGED <<live, storage, lost, meant>>

\* value() of one that has: nothing changes, but the object is read.
Value(h) == /\ h \in Present /\ live[h]
            /\ lost' = (lost \/ storage[h] = Nothing)
            /\ UNCHANGED <<live, storage, meant, threw>>

OptionalNext ==
  \E h \in Holders :
    \/ ConstructEmpty(h) \/ ResetOptional(h) \/ DestroyOptional(h)
    \/ Value(h) \/ ValueFails(h)
    \/ \E v \in Values : ConstructFrom(h, v) \/ Emplace(h, v)
                         \/ AssignValue(h, v)
    \/ \E k \in Holders : \/ CopyConstruct(h, k)
                          \/ MoveConstructOptional(h, k)
                          \/ CopyAssign(h, k)

OptionalSpec == OptionalInit /\ [][OptionalNext]_optionalVars

-----------------------------------------------------------------------------
(* Properties *)

\* The flag tells whether there is an object, after every sequence of calls.
FlagIsObject ==
  \A h \in DOMAIN live : live[h] = (storage[h] # Nothing)

\* Every object is constructed in free storage and destroyed exactly once,
\* and nothing else is read, assigned to or destroyed.
ObjectsLiveOnce == ~lost

\* An optional has the value that was put there last, or none, whatever of
\* the nine functions did it; one that was moved from has one still.
HasWhatWasMeant ==
  \A h \in DOMAIN live : (IF live[h] THEN storage[h] ELSE Nothing) = meant[h]

OptionalsOwned == FlagIsObject /\ ObjectsLiveOnce /\ HasWhatWasMeant

=============================================================================
