------------------------------ MODULE Strings -------------------------------
(***************************************************************************)
(* std::string of the programs (programs/ministl/String.cpp; the kernel    *)
(* has the same in kernel/kstl/String.cpp): a vector of characters that    *)
(* ends with NUL.  Vector shows that a vector is a sequence, and so it is  *)
(* one here.                                                               *)
(*                                                                         *)
(* A caller keeps to the rules of texts: it takes no character from an     *)
(* empty text and writes to none that is not there.  What then does not    *)
(* return is an assertion that failed, of string or of vector: the program *)
(* is over.                                                                *)
(***************************************************************************)
EXTENDS Integers, Sequences, SequencesExt

CONSTANTS
  Names,    \* strings
  Chars,    \* characters other than NUL
  Nul,
  Literals, \* the C strings that the program has, without their NUL
  SizeBits, \* bits of size_t, 32 in the code
  MaxLen    \* bound: characters of a text

StringsAssumption ==
  /\ Nul \notin Chars
  /\ Literals \subseteq Seq(Chars)
  /\ MaxLen \in Nat /\ SizeBits \in Nat /\ 2 * MaxLen + 2 < 2 ^ SizeBits

VARIABLES
  data,  \* _data of each string that exists
  moved, \* history: the strings that were moved from and not assigned since,
         \* and their copies
  failed \* the call in which an assertion failed, or None

vars == <<data, moved, failed>>

None == "none"

\* The strings there are; a program that is over has none.
Alive == IF failed = None THEN DOMAIN data ELSE {}

\* size(): one less than the vector has, which wraps when that is nothing.
Size(x) == (Len(data[x]) - 1) % 2 ^ SizeBits

\* The text the caller thinks x has.
Text(x) == IF data[x] = <<>> THEN <<>> ELSE Front(data[x])

\* resize of the vector; a new element is char(), which is NUL.
Resized(d, n) == [i \in 1 .. n |-> IF i <= Len(d) THEN d[i] ELSE Nul]

\* The loops over the characters of a C string and its NUL.
Written(d, s) ==
  [i \in DOMAIN d |-> IF i <= Len(s) THEN s[i]
                      ELSE IF i = Len(s) + 1 THEN Nul ELSE d[i]]

Init == data = <<>> /\ moved = {} /\ failed = None

Becomes(x, d) == /\ data' = x :> d @@ data
                 /\ moved' = moved \ {x}
                 /\ UNCHANGED failed

\* x is made a copy of y.
Copies(x, y) == /\ data' = x :> data[y] @@ data
                /\ moved' = IF y \in moved THEN moved \cup {x} ELSE moved \ {x}
                /\ UNCHANGED failed

\* The vector of y becomes the one of x.
MoveFrom(x, y) ==
  /\ data' = x :> data[y] @@ y :> <<>> @@ data
  /\ moved' = {y} \cup IF y \in moved THEN moved \cup {x} ELSE moved \ {x}
  /\ UNCHANGED failed

\* A call that an assertion ends unless ok holds.
Asserting(call, ok, action) ==
  IF ok THEN action ELSE failed' = call /\ UNCHANGED <<data, moved>>

\* The constructors from nothing, from a C string and from a character.
Construct(x) ==
  /\ failed = None /\ x \notin Alive
  /\ \/ Becomes(x, <<Nul>>)
     \/ \E s \in Literals : Becomes(x, Written(Resized(<<>>, Len(s) + 1), s))
     \/ \E c \in Chars : Becomes(x, <<c, Nul>>)

CopyConstruct(x, y) == x \notin Alive /\ y \in Alive /\ Copies(x, y)

MoveConstruct(x, y) == x \notin Alive /\ y \in Alive /\ MoveFrom(x, y)

CopyAssign(x, y) == {x, y} \subseteq Alive /\ x # y /\ Copies(x, y)

MoveAssign(x, y) == {x, y} \subseteq Alive /\ x # y /\ MoveFrom(x, y)

\* operator=(const char*) and operator=(char).
AssignLiteral(x) ==
  /\ x \in Alive
  /\ \E s \in Literals \cup {<<c>> : c \in Chars} :
       Becomes(x, Written(Resized(data[x], Len(s) + 1), s))

Destroy(x) ==
  /\ x \in Alive
  /\ data' = Restrict(data, Alive \ {x})
  /\ moved' = moved \ {x}
  /\ UNCHANGED failed

Clear(x) == x \in Alive /\ Becomes(x, <<Nul>>)

\* Writing through [], at, front or back.
Write(x, i, c) ==
  /\ x \in Alive /\ i \in DOMAIN Text(x)
  /\ Asserting("write", i - 1 < Size(x) /\ i - 1 < Len(data[x]),
               Becomes(x, [data[x] EXCEPT ![i] = c]))

\* operator+= of a string and of a C string, from which m + 1 characters are
\* read.  They are written behind the NUL that is there, and another NUL is
\* written behind them all.
Appended(x, s) ==
  LET start == Len(data[x])
      newSize == start + Len(s) + 1
      d == Resized(data[x], newSize)
  IN  [i \in DOMAIN d |-> IF i <= start THEN d[i]
                          ELSE Append(s, Nul)[i - start]]

\* str[i - start] asserts that the index is below size(), and the last
\* _data[newSize] that it is below the size of the vector.
AppendString(x, y) ==
  /\ {x, y} \subseteq Alive /\ x # y
  /\ Len(Text(x)) + Len(Text(y)) <= MaxLen
  /\ LET newSize == Len(data[x]) + Size(y) + 1
         read == 0 .. newSize - Len(data[x]) - 1
     IN  Asserting("append",
                   /\ \A k \in read : k < Size(y)
                   /\ newSize < Len(Appended(x, Text(y))),
                   Becomes(x, Appended(x, Text(y))))

AppendLiteral(x, s) ==
  /\ x \in Alive
  /\ Len(Text(x)) + Len(s) <= MaxLen
  /\ LET newSize == Len(data[x]) + Len(s) + 1
     IN  Asserting("append", newSize < Len(Appended(x, s)),
                   Becomes(x, Appended(x, s)))

Pushed(d, c) == Append([d EXCEPT ![Len(d)] = c], Nul)

\* push_back, and operator+= of a character: back() asserts that the vector
\* is not empty.
PushBack(x, c) ==
  /\ x \in Alive /\ Len(Text(x)) < MaxLen
  /\ Asserting("push_back", data[x] # <<>>, Becomes(x, Pushed(data[x], c)))

Popped(d) == [Front(d) EXCEPT ![Len(d) - 1] = Nul]

CanPop(x) == Size(x) > 0

PopBack(x) ==
  /\ x \in Alive /\ Text(x) # <<>>
  /\ Asserting("pop_back", CanPop(x), Becomes(x, Popped(data[x])))

Next ==
  \E x \in Names :
    \/ Construct(x) \/ Destroy(x) \/ AssignLiteral(x) \/ Clear(x)
    \/ PopBack(x)
    \/ \E y \in Names :
         \/ CopyConstruct(x, y) \/ MoveConstruct(x, y)
         \/ CopyAssign(x, y) \/ MoveAssign(x, y) \/ AppendString(x, y)
    \/ \E s \in Literals : AppendLiteral(x, s)
    \/ \E c \in Chars : \/ PushBack(x, c)
                        \/ \E i \in 1 .. MaxLen : Write(x, i, c)

Spec == Init /\ [][Next]_vars

-----------------------------------------------------------------------------
(* Properties *)

\* What c_str gives ends where the text ends: the last element is NUL and no
\* other is.  A string that was moved from has no element, and no NUL.
Terminated ==
  \A x \in DOMAIN data :
    IF data[x] = <<>> THEN x \in moved
    ELSE \A i \in DOMAIN data[x] : (data[x][i] = Nul) = (i = Len(data[x]))

\* A program that keeps to the rules of texts is ended by an assertion only
\* when it appends one text to another (the index of the NUL is not below
\* the size, as String.cpp:72 and Vector.h:132 assert), or when it adds
\* a character to a string that was moved from, to which vector gives no
\* room for a NUL.
LegalCallsReturn ==
  failed # None => failed = "append" \/ (failed = "push_back" /\ moved # {})

\* Strings are texts, one for each.
Abstract == INSTANCE Texts WITH text <- [x \in DOMAIN data |-> Text(x)]
TextsRefinement == Abstract!Spec

=============================================================================
