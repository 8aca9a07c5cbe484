------------------------------- MODULE Texts --------------------------------
(***************************************************************************)
(* What strings promise: each is a text of its own.  Strings implements    *)
(* this, as far as it goes on after a call.                                *)
(***************************************************************************)
EXTENDS Integers, Sequences, SequencesExt

CONSTANTS Names, Chars,
          Literals \* the texts that occur in the program

VARIABLE text \* of each string that exists

Init == text = <<>>

Alive == DOMAIN text

Becomes(x, s) == text' = x :> s @@ text

\* Construction or assignment from a literal, a character or nothing.
Set(x) == \/ \E s \in Literals : Becomes(x, s)
          \/ \E c \in Chars : Becomes(x, <<c>>)
          \/ Becomes(x, <<>>)

Copy(x, y) == Becomes(x, text[y])

\* A text that is moved away leaves none.
Move(x, y) == text' = x :> text[y] @@ y :> <<>> @@ text

Destroy(x) == text' = Restrict(text, Alive \ {x})

Write(x, i, c) == Becomes(x, [text[x] EXCEPT ![i] = c])

AddChar(x, c) == Becomes(x, Append(text[x], c))

RemoveChar(x) == text[x] # <<>> /\ Becomes(x, Front(text[x]))

Next ==
  \E x \in Names :
    \/ Set(x)
    \/ \E y \in Alive : Copy(x, y) \/ (x # y /\ Move(x, y))
    \/ /\ x \in Alive
       /\ \/ Destroy(x) \/ RemoveChar(x)
          \/ \E c \in Chars : \/ AddChar(x, c)
                              \/ \E i \in DOMAIN text[x] : Write(x, i, c)
          \/ \E s \in Literals : Becomes(x, text[x] \o s)
          \/ \E y \in Alive : Becomes(x, text[x] \o text[y])

Spec == Init /\ [][Next]_text

=============================================================================
