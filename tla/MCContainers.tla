---------------------------- MODULE MCContainers ----------------------------
(***************************************************************************)
(* Small instances of the modules about kstl and ministl, checked side by  *)
(* side: part says which of them runs, and the others rest in an initial   *)
(* state.                                                                  *)
(*                                                                         *)
(*   bits      Two bitsets of five bits in blocks of two: three blocks, of *)
(*             which the last has one bit that is not in use.              *)
(*   map       Three pages whose hashes fall in one bucket of one, two or  *)
(*             four, and in different ones of three, so that chains of     *)
(*             three entries, empty buckets before, between and after      *)
(*             them, and moves in rehash occur.                            *)
(*   vectors   Two vectors, so that each can be copied, moved and pushed   *)
(*             into the other, of up to three elements: arrays of 0, 1, 2  *)
(*             and 4 cells, which are full, not full and reserved.         *)
(*   strings   Two strings of up to three characters, of two, and literals *)
(*             of 0 to 2.                                                  *)
(*   optionals Three optionals of two values.                              *)
(*   pointers  Two pointers and three objects with a pointer each.         *)
(***************************************************************************)
EXTENDS Bitset, UniquePointers, Vector

CONSTANTS Parts, e1, e2, x, y, z, u, v, Nul

VARIABLES
  part,
  mem, table, copy, it, mode, ret, defined,
  data, moved, failed

mapVars == <<mem, table, copy, it, mode, ret, defined>>
stringVars == <<data, moved, failed>>
allVars == <<part, blocks_, mapVars, vectorVars, stringVars, optionalVars,
             pointerVars>>

MCKeys == {0, 1, 2}

Map == INSTANCE HashMap
         WITH Keys <- MCKeys, Values <- {e1, e2},
              Hash <- [k \in MCKeys |-> 4 * k + 1], BucketCounts <- {1, 2},
              DefaultCap <- 2, MaxBuckets <- 4

Strings == INSTANCE Strings
             WITH Names <- {u, v}, Chars <- {e1, e2},
                  Literals <- {<<>>, <<e1>>, <<e2, e1>>}, MaxLen <- 3

MCHolders == {x, y, z}
MCValues == {e1, e2}
MCVariables == {u, v}
MCObjects == {e1, e2, x}
MCVectors == {u, v}
MCElements == {x}
MCShifts == <<1, 2, 4>>
MCCounts == {1, 3}

ASSUME /\ Map!HashMapAssumption
       /\ Strings!StringsAssumption

MCInit ==
  /\ part \in Parts
  /\ Init
  /\ Map!Init /\ (part = "map" \/ table = Map!NewMap(1))
  /\ VectorInit
  /\ Strings!Init /\ OptionalInit /\ PointerInit

NoBits == UNCHANGED blocks_
NoMap == UNCHANGED mapVars
NoVector == UNCHANGED vectorVars
NoString == UNCHANGED stringVars
NoOptional == UNCHANGED optionalVars
NoPointer == UNCHANGED pointerVars

MCNext ==
  /\ UNCHANGED part
  /\ \/ /\ part = "bits" /\ Next
        /\ NoMap /\ NoVector /\ NoString /\ NoOptional /\ NoPointer
     \/ /\ part = "map" /\ Map!Next
        /\ NoBits /\ NoVector /\ NoString /\ NoOptional /\ NoPointer
     \/ /\ part = "vectors" /\ VectorNext
        /\ NoBits /\ NoMap /\ NoString /\ NoOptional /\ NoPointer
     \/ /\ part = "strings" /\ Strings!Next
        /\ NoBits /\ NoMap /\ NoVector /\ NoOptional /\ NoPointer
     \/ /\ part = "optionals" /\ OptionalNext
        /\ NoBits /\ NoMap /\ NoVector /\ NoString /\ NoPointer
     \/ /\ part = "pointers" /\ PointerNext
        /\ NoBits /\ NoMap /\ NoVector /\ NoString /\ NoOptional

MCSpec == MCInit /\ [][MCNext]_allVars

-----------------------------------------------------------------------------
(* Correctness *)

\* Every call answers as the finite map, the sequence or the text would that
\* the container stands for.  Lists are linked both ways and hold the entries
\* of their buckets, and a text ends with the NUL.
ContainersRefinement ==
  /\ Map!DictionaryRefinement
  /\ ContentsRefinement
  /\ Strings!TextsRefinement
  /\ [](part = "map" => Map!TypeOK /\ Map!ListsLinked)
  /\ [](part = "strings" => Strings!Terminated /\ Strings!LegalCallsReturn)
  /\ [](part = "bits" => ObserversExact)

=============================================================================
