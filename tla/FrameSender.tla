---------------------------- MODULE FrameSender ----------------------------
(***************************************************************************)
(* Connection::send, called for one connection by the main thread and by   *)
(* workers (SendIO, the tasks and their destructors), with no lock around  *)
(* its loop.  ::send takes what fits into the send buffer of the socket;   *)
(* when that is full the loop gives up and the rest of the frame is lost.  *)
(***************************************************************************)
EXTENDS Frames, SequencesExt

CONSTANTS Senders,   \* threads that send
          Replies,   \* payloads they send
          Room,      \* bytes in the send buffer of the socket
          MaxReplies \* bound: messages sent

SenderAssumption ==
  /\ FramesAssumption
  /\ \A m \in Replies : m \in Payloads
  /\ Room \in Nat \ {0}
  /\ MaxReplies \in Nat

VARIABLES
  frame,   \* what each sender is sending, or nothing
  total,   \* totalBytesSent of each sender
  queue,   \* the number of bytes in the send buffer
  stream,  \* all bytes that the client gets
  started, \* history: the messages whose first byte was sent, in order
  mixed,   \* history: a frame was begun or resumed within another
  torn     \* history: a frame was given up after part of it was sent

senderVars == <<frame, total, queue, stream, started, mixed, torn>>

SenderInit ==
  /\ frame = [s \in Senders |-> <<>>]
  /\ total = [s \in Senders |-> 0]
  /\ queue = 0
  /\ stream = <<>>
  /\ started = <<>>
  /\ mixed = FALSE
  /\ torn = FALSE

Idle(s) == frame[s] = <<>>

Send(s, m) ==
  /\ Idle(s)
  /\ Len(started) + Cardinality({t \in Senders : ~Idle(t)}) < MaxReplies
  /\ frame' = [frame EXCEPT ![s] = ServerFrame(m)]
  /\ total' = [total EXCEPT ![s] = 0]
  /\ UNCHANGED <<queue, stream, started, mixed, torn>>

Left(s) == Len(frame[s]) - total[s]

\* Faulty variant: each ::send starts with the first byte.
SendBytesAgain(s) ==
  /\ ~Idle(s)
  /\ queue < Room
  /\ LET n == Least(Left(s), Room - queue)
     IN  /\ stream' = stream \o SubSeq(frame[s], 1, n)
         /\ queue' = queue + n
         /\ frame' = [frame EXCEPT ![s] = IF n = Left(s) THEN <<>> ELSE @]
         /\ total' = [total EXCEPT ![s] = IF n = Left(s) THEN 0 ELSE @ + n]
  /\ started' = IF total[s] > 0 THEN started
                ELSE Append(started, Decode(frame[s]).payload)
  /\ mixed' = (mixed \/ \E t \in Senders \ {s} : total[t] > 0)
  /\ UNCHANGED torn

SendBytes(s) ==
  /\ ~Idle(s)
  /\ queue < Room
  /\ LET n == Least(Left(s), Room - queue)
     IN  /\ stream' = stream \o SubSeq(frame[s], total[s] + 1, total[s] + n)
         /\ queue' = queue + n
         /\ frame' = [frame EXCEPT ![s] = IF n = Left(s) THEN <<>> ELSE @]
         /\ total' = [total EXCEPT ![s] = IF n = Left(s) THEN 0 ELSE @ + n]
  /\ started' = IF total[s] > 0 THEN started
                ELSE Append(started, Decode(frame[s]).payload)
  /\ mixed' = (mixed \/ \E t \in Senders \ {s} : total[t] > 0)
  /\ UNCHANGED torn

\* Faulty variant: the loop waits for room.
SendAgainWaits(s) ==
  /\ ~Idle(s)
  /\ queue = Room
  /\ UNCHANGED senderVars

\* EAGAIN ends the loop.
SendAgain(s) ==
  /\ ~Idle(s)
  /\ queue = Room
  /\ torn' = (torn \/ total[s] > 0)
  /\ frame' = [frame EXCEPT ![s] = <<>>]
  /\ total' = [total EXCEPT ![s] = 0]
  /\ UNCHANGED <<queue, stream, started, mixed>>

\* The client reads.
Drain(n) ==
  /\ n <= queue
  /\ queue' = queue - n
  /\ UNCHANGED <<frame, total, stream, started, mixed, torn>>

SendStep(s) == SendBytes(s) \/ SendAgain(s)

SenderNext ==
  \/ \E s \in Senders : SendStep(s) \/ \E m \in Replies : Send(s, m)
  \/ \E n \in 1 .. Room : Drain(n)

SenderSpec == SenderInit /\ [][SenderNext]_senderVars
SenderFairSpec == SenderSpec /\ \A s \in Senders : WF_senderVars(SendStep(s))

-----------------------------------------------------------------------------
(* Correctness *)

SenderTypeOK ==
  /\ \A s \in Senders : /\ frame[s] \in Seq(Byte)
                        /\ total[s] \in 0 .. Len(frame[s])
  /\ queue \in 0 .. Room
  /\ stream \in Seq(Byte)
  /\ started \in Seq(Replies)
  /\ {mixed, torn} \subseteq BOOLEAN

\* What a client that knows the protocol makes of the stream: the length of
\* the first frame, 0 as long as it has not arrived completely, and all
\* messages.
FrameLength(bytes) ==
  IF Len(bytes) < 2 THEN 0
  ELSE LET e == Extra(bytes[2])
       IN  IF e = 0 THEN 2 + bytes[2]
           ELSE IF Len(bytes) < 2 + e THEN 0
           ELSE 2 + e + Value(SubSeq(bytes, 3, 2 + e))

Behind(bytes, at) == SubSeq(bytes, at + 1, Len(bytes))

WholeFrame(bytes) ==
  IF FrameLength(bytes) > Len(bytes) THEN 0 ELSE FrameLength(bytes)

MessagesIn(bytes) ==
  LET from[at \in 0 .. Len(bytes)] ==
        IF WholeFrame(Behind(bytes, at)) = 0 THEN <<>>
        ELSE <<Decode(Behind(bytes, at)).payload>>
               \o from[at + WholeFrame(Behind(bytes, at))]
  IN  from[0]

\* Connection::send: the client gets the messages that were sent, each whole
\* and in the order in which they were begun, through partial sends of any
\* size: unless a frame was given up in the middle, or a sender came in
\* while another had sent a part only.  (The last message may still be on
\* its way.)
ClientReceives ==
  /\ SenderTypeOK
  /\ torn \/ mixed
       \/ LET messages == MessagesIn(stream)
          IN  /\ IsPrefix(messages, started)
              /\ Len(started) - Len(messages) <= 1
              /\ (\A s \in Senders : total[s] = 0) => messages = started

\* send returns, though the client may never read.
SendReturns == \A s \in Senders : ~Idle(s) ~> Idle(s)

=============================================================================
