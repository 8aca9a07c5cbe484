--------------------------- MODULE UniquePointers ---------------------------
(***************************************************************************)
(* unique_ptr (kernel/kstl/UniquePtr.h, and the same in ministl of the     *)
(* programs) of a class that has a unique_ptr as a member, as a PCB has    *)
(* one of its page table: objects form chains, and an object that is       *)
(* deleted takes those behind it along.  A pointer is named by where it    *)
(* is: a variable of the program, or the object it is a member of.  The    *)
(* module has the state of Optionals beside its own, as ObjectsOwned is    *)
(* about both.                                                             *)
(***************************************************************************)
EXTENDS Optionals

CONSTANTS
  Variables, \* unique_ptrs that are no members
  Pointees,  \* objects that can be made
  NullPtr

ASSUME PointersAssumption ==
  Variables \cap Pointees = {} /\ NullPtr \notin Pointees

VARIABLES
  ptr,     \* of every unique_ptr that exists
  raw,     \* the objects a plain pointer of the program is responsible for
  misused, \* history: memory of a deleted object was used, or freed again
  knotted  \* history: a pointer was assigned from inside what it held, or
           \* into what it is given

pointerVars == <<ptr, raw, misused, knotted>>

Exist == DOMAIN ptr

\* The objects that exist: the member of each does.
Alive == Exist \cap Pointees

\* No pointer of f, in an object in S, leads out of S.
Closed(f, S) == \A p \in S \cap DOMAIN f : f[p] \in S \cup {NullPtr}

\* What is deleted with o: o and the objects behind it,
\* when the pointers are those of f.
ChainIn(f, o) ==
  {c \in Pointees :
     \A S \in SUBSET Pointees :
       Closed(f, S) /\ o \in S \cup {NullPtr} => c \in S}

Chain(o) == ChainIn(ptr, o)

PointerInit ==
  /\ ptr = <<>> /\ raw = {}
  /\ misused = FALSE /\ knotted = FALSE

\* The pointers become p, and those in gone are no more.
Become(p, gone) == /\ ptr' = Restrict(p, DOMAIN p \ gone)
                   /\ misused' = (misused \/ ~(gone \subseteq Exist))

\* new T: its member has nothing.
New(o) == /\ o \in Pointees \ Exist
          /\ ptr' = With(ptr, o, NullPtr)
          /\ raw' = raw \cup {o}
          /\ UNCHANGED <<misused, knotted>>

\* delete of a plain pointer.
Delete(o) == /\ o \in raw
             /\ Become(ptr, Chain(o))
             /\ raw' = raw \ {o}
             /\ UNCHANGED knotted

\* unique_ptr(T*), for a variable.
Construct(v, o) == /\ v \in Variables \ Exist /\ o \in raw \cup {NullPtr}
                   /\ ptr' = With(ptr, v, o)
                   /\ raw' = raw \ {o}
                   /\ UNCHANGED <<misused, knotted>>

\* unique_ptr(unique_ptr&&), of the same and of another type.
MoveConstruct(v, q) == /\ v \in Variables \ Exist /\ q \in Exist
                       /\ ptr' = With([ptr EXCEPT ![q] = NullPtr], v, ptr[q])
                       /\ UNCHANGED <<raw, misused, knotted>>

Destroy(v) == /\ v \in Variables \cap Exist
              /\ Become(ptr, {v} \cup Chain(ptr[v]))
              /\ UNCHANGED <<raw, knotted>>

\* Faulty variant: the other pointer keeps what it had.
MoveAssignKeeping(p, q) ==
  /\ {p, q} \subseteq Exist /\ p # q
  /\ LET gone == Chain(ptr[p])
     IN  /\ ptr' = Restrict([ptr EXCEPT ![p] = ptr[q]], Exist \ gone)
         /\ misused' = (misused \/ ~(gone \subseteq Exist) \/ q \in gone)
         /\ knotted' = (knotted \/ q \in gone \/ p \in Chain(ptr[q]))
  /\ UNCHANGED raw

\* operator=(unique_ptr&&): what p held is deleted first, and q with it if
\* it is a member in there; q is read after that.
MoveAssign(p, q) ==
  /\ {p, q} \subseteq Exist /\ p # q
  /\ LET gone == Chain(ptr[p])
     IN  /\ ptr' = Restrict([ptr EXCEPT ![p] = ptr[q], ![q] = NullPtr],
                            Exist \ gone)
         /\ misused' = (misused \/ ~(gone \subseteq Exist) \/ q \in gone)
         /\ knotted' = (knotted \/ q \in gone \/ p \in Chain(ptr[q]))
  /\ UNCHANGED raw

\* reset(T*) of p, when the pointers are those of from.
ResetTo(p, o, from) ==
  IF o = from[p] THEN ptr' = from /\ UNCHANGED <<misused, knotted>>
  ELSE LET gone == ChainIn(from, from[p])
       IN  /\ Become([from EXCEPT ![p] = o], gone)
           /\ knotted' = (knotted \/ p \in ChainIn(from, o))

ResetPointer(p, o) ==
  /\ p \in Exist /\ o \in raw \cup {NullPtr, ptr[p]}
  /\ ResetTo(p, o, ptr)
  /\ raw' = raw \ {o}

\* operator=(unique_ptr<U>&&): reset(other.release()).
ConvertAssign(p, q) ==
  /\ {p, q} \subseteq Exist /\ p # q
  /\ ResetTo(p, ptr[q], [ptr EXCEPT ![q] = NullPtr])
  /\ UNCHANGED raw

Release(p) == /\ p \in Exist
              /\ ptr' = [ptr EXCEPT ![p] = NullPtr]
              /\ raw' = raw \cup ({ptr[p]} \ {NullPtr})
              /\ UNCHANGED <<misused, knotted>>

\* What follows a use of deleted memory is not modelled.
PointerNext ==
  /\ ~misused
  /\ \/ \E o \in Pointees : New(o) \/ Delete(o)
     \/ \E v \in Variables :
          \/ Destroy(v)
          \/ \E o \in Pointees \cup {NullPtr} : Construct(v, o)
          \/ \E q \in Variables \cup Pointees : MoveConstruct(v, q)
     \/ \E p \in Variables \cup Pointees :
          \/ Release(p)
          \/ \E o \in Pointees \cup {NullPtr} : ResetPointer(p, o)
          \/ \E q \in Variables \cup Pointees :
               MoveAssign(p, q) \/ ConvertAssign(p, q)

PointerSpec == PointerInit /\ [][PointerNext]_pointerVars

-----------------------------------------------------------------------------
(* Properties *)

\* As long as no pointer is assigned from inside what it holds, or is given
\* what it is inside of, every object is deleted at most once and not used
\* after that, and exactly one pointer is responsible for it.  Of the two
\* assignments only the one from another type may take what is inside.
OwnedOnce ==
  ~knotted =>
    /\ ~misused
    /\ \A p \in Exist : ptr[p] \in Alive \cup {NullPtr}
    /\ \A o \in Alive :
         Cardinality({p \in Exist : ptr[p] = o})
           = IF o \in raw THEN 0 ELSE 1

\* Every object that is not deleted can still be reached from the program.
NothingLost ==
  ~knotted =>
    Alive = UNION {Chain(o) : o \in raw
                                  \cup {ptr[v] : v \in Variables \cap Exist}}

\* An object in an optional or behind a unique_ptr is there when the flag or
\* the pointer says so, is deleted once, and is not lost.
ObjectsOwned == OptionalsOwned /\ OwnedOnce /\ NothingLost

=============================================================================
