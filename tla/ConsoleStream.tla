--------------------------- MODULE ConsoleStream ----------------------------
(***************************************************************************)
(* std::cout of the programs (programs/ministl/iostream.cpp), in processes *)
(* that fork, execute other programs and exit (asmio.cpp): each has a      *)
(* buffer, which is copied with its memory, and printString prints a       *)
(* buffer at once, because the kernel is not interrupted.  Between two     *)
(* characters any other process may run.                                   *)
(*                                                                         *)
(* What is streamed are characters: a number has become its digits, see    *)
(* Decimal, and what printString does with a buffer is in ConsoleCalls.    *)
(* No character is NUL.                                                    *)
(***************************************************************************)
EXTENDS Decimal, ConsoleCalls

CONSTANTS
  Processes,
  First,    \* the process that is there at the start
  Letters,  \* characters
  Texts,    \* what << is called with
  NewLine,  \* '\n'
  MaxBuf,   \* MAX_BUF, 4096 in the code
  MaxCalls  \* bound: calls of << and endl of each process and its ancestors

Flush == "flush"

ASSUME ConsoleAssumption ==
  /\ First \in Processes
  /\ Texts \subseteq Seq(Letters) /\ NewLine \in Letters /\ Flush \notin Letters
  /\ MaxBuf \in Nat \ {0}

VARIABLES
  buffer,  \* streambuf up to bufsize, of each process that runs
  todo,    \* of each process: the characters left to stream, and Flush
  console, \* what was printed, in order: process and text
  said,    \* history: what each program of a process has streamed, with what
           \* it found in the buffer when it was forked
  begun,   \* history: where on the console the program of a process begins
  calls    \* of each process: calls of << and endl, for the bound

streamVars == <<buffer, todo, console, said, begun, calls>>

Running == DOMAIN buffer

Idle(p) == p \in Running /\ todo[p] = <<>>

Prints(p, s) ==
  console' = Append(console, [by |-> p, text |-> s])

StreamInit ==
  /\ buffer = [p \in {First} |-> <<>>]
  /\ todo = [p \in Processes |-> <<>>]
  /\ console = <<>>
  /\ said = [p \in Processes |-> <<>>]
  /\ begun = [p \in Processes |-> 0]
  /\ calls = [p \in Processes |-> 0]

Says(p, s, end) ==
  /\ Idle(p) /\ calls[p] < MaxCalls
  /\ todo' = [todo EXCEPT ![p] = s \o end]
  /\ said' = [said EXCEPT ![p] = @ \o s]
  /\ calls' = [calls EXCEPT ![p] = @ + 1]
  /\ UNCHANGED <<buffer, console, begun>>

\* << of a string, a number or a character.
Stream(p) == \E s \in Texts : Says(p, s, <<>>)

\* << endl and << flush.
Endl(p) == Says(p, <<NewLine>>, <<Flush>>) \/ Says(p, <<>>, <<Flush>>)

IsFull(p) == Len(buffer[p]) = MaxBuf

\* Faulty variant: the character that found the buffer full is dropped.
EmptiedOver(p, c) == <<>>

Emptied(p, c) == <<c>>

AppendBuf(p) ==
  /\ p \in Running /\ todo[p] # <<>> /\ Head(todo[p]) # Flush
  /\ todo' = [todo EXCEPT ![p] = Tail(@)]
  /\ LET c == Head(todo[p])
     IN  IF IsFull(p)
           THEN /\ Prints(p, buffer[p])
                /\ buffer' = [buffer EXCEPT ![p] = Emptied(p, c)]
           ELSE /\ buffer' = [buffer EXCEPT ![p] = Append(@, c)]
                /\ UNCHANGED console
  /\ UNCHANGED <<said, begun, calls>>

\* flush prints even an empty buffer.
FlushBuf(p) ==
  /\ p \in Running /\ todo[p] # <<>> /\ Head(todo[p]) = Flush
  /\ todo' = [todo EXCEPT ![p] = Tail(@)]
  /\ Prints(p, buffer[p])
  /\ buffer' = [buffer EXCEPT ![p] = <<>>]
  /\ UNCHANGED <<said, begun, calls>>

\* fork(): the child has the memory of its parent, and so its buffer.
Fork(p, child) ==
  /\ Idle(p) /\ child \notin Running /\ calls[child] = 0 /\ child # First
  /\ buffer' = [q \in Running \cup {child} |->
                  IF q = child THEN buffer[p] ELSE buffer[q]]
  /\ said' = [said EXCEPT ![child] = buffer[p]]
  /\ begun' = [begun EXCEPT ![child] = Len(console)]
  /\ calls' = [calls EXCEPT ![child] = calls[p] + 1]
  /\ UNCHANGED <<todo, console>>

\* exec(): a new program, whose cout is constructed again.
Exec(p) ==
  /\ Idle(p) /\ calls[p] < MaxCalls
  /\ buffer' = [buffer EXCEPT ![p] = <<>>]
  /\ said' = [said EXCEPT ![p] = <<>>]
  /\ begun' = [begun EXCEPT ![p] = Len(console)]
  /\ calls' = [calls EXCEPT ![p] = @ + 1]
  /\ UNCHANGED <<todo, console>>

\* exit(): __cxa_atexit does not register the destructor of cout, and the
\* destructor would not flush: what is in the buffer is lost.
Exit(p) ==
  /\ Idle(p)
  /\ buffer' = Restrict(buffer, Running \ {p})
  /\ UNCHANGED <<todo, console, said, begun, calls>>

Step(p) == AppendBuf(p) \/ FlushBuf(p)

StreamNext == \E p \in Processes :
          \/ Stream(p) \/ Endl(p) \/ Step(p) \/ Exec(p) \/ Exit(p)
          \/ \E child \in Processes : Fork(p, child)

\* The scheduler of the kernel runs every process again (RoundRobin in
\* ProcessManager): a call that has begun is gone on with.
StreamSpec == StreamInit /\ [][StreamNext]_streamVars /\ \A p \in Processes : WF_streamVars(Step(p))

-----------------------------------------------------------------------------
(* Properties *)

\* What the program of process p has printed.
Printed(p) ==
  FlattenSeq([i \in 1 .. Len(console) - begun[p] |->
                IF console[begun[p] + i].by = p
                  THEN console[begun[p] + i].text ELSE <<>>])

\* The characters of s, in which Flush comes last if at all.
Unstreamed(s) ==
  IF s # <<>> /\ Last(s) = Flush THEN Front(s) ELSE s

\* Nothing that a program streams is lost, doubled or reordered while it
\* runs: it is printed, in the buffer, or about to be put there.  The child
\* of a fork owes what its parent had in the buffer, too.
TextInOrder ==
  \A p \in Running : said[p] = Printed(p) \o buffer[p] \o Unstreamed(todo[p])

\* The buffer has MAX_BUF + 1 places, and flush needs one for the NUL.
BufferFits == \A p \in Running : Len(buffer[p]) + 1 <= MaxBuf + 1

\* Whatever is streamed is on the console once endl or flush is done.
FlushedIsPrinted ==
  [][\A p \in Running :
       /\ todo[p] # <<>> /\ todo'[p] = <<>> /\ Last(todo[p]) = Flush
       => said[p] = Printed(p)']_streamVars

\* cout, from << to the console: a number becomes its digits, no character is
\* lost, doubled or reordered on the way through the buffer, what is flushed
\* is printed, and a string that lies straight is printed as it is.  What is
\* read comes to its place, and nobody else's memory changes for it.
ConsoleExact ==
  /\ []RoundTrip
  /\ [](TextInOrder /\ BufferFits) /\ FlushedIsPrinted
  /\ [](PrintedIsText /\ ReadIsDelivered /\ ForeignKept)

\* endl returns.
EndlReturns ==
  \A p \in Processes :
    (p \in Running /\ todo[p] # <<>>) ~> (p \notin Running \/ todo[p] = <<>>)

=============================================================================
