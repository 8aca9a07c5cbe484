---------------------------- MODULE FrameReader ----------------------------
(***************************************************************************)
(* Connection::dispatch after the handshake: the frames of a client arrive *)
(* in pieces of any size; each event makes the server read all bytes there *)
(* are and decode one frame from them.                                     *)
(***************************************************************************)
EXTENDS Frames, Functions

CONSTANTS Commands, \* payloads that clients send
          Keys,     \* keys that clients use
          BufSize,  \* the buffer of dispatch, 256 bytes
          MaxSent   \* bound: messages a client sends

ReaderAssumption ==
  /\ FramesAssumption
  /\ \A m \in Commands : m \in Payloads
  /\ Keys \subseteq MaskKeys
  /\ BufSize \in Nat \ {0}
  /\ MaxSent \in Nat

VARIABLES
  wire,     \* bytes that the client has sent and that have not arrived
  inq,      \* bytes that have arrived
  pc,       \* wait or recv
  data,     \* dispatch: data
  executed, \* the payloads handed to generateTask
  sent,     \* history: the messages the client has sent
  ends,     \* history: where the frame of each ends, in the stream of bytes
  parsed,   \* history: the number of bytes that earlier events have taken
  boundary, \* history: what there was to read ended with a frame,
            \* each time
  single    \* history: it was one frame, each time

readerVars ==
  <<wire, inq, pc, data, executed, sent, ends, parsed, boundary, single>>

ReaderInit ==
  /\ wire = <<>>
  /\ inq = <<>>
  /\ pc = "wait"
  /\ data = <<>>
  /\ executed = <<>>
  /\ sent = <<>>
  /\ ends = <<>>
  /\ parsed = 0
  /\ boundary = TRUE
  /\ single = TRUE

\* Where the frame of message i begins.
Beginning(i) == IF i = 1 THEN 0 ELSE ends[i - 1]

SendCommand(m, key) ==
  /\ Len(sent) < MaxSent
  /\ wire' = wire \o ClientFrame(m, key)
  /\ sent' = Append(sent, m)
  /\ ends' = Append(ends, Beginning(Len(sent) + 1) + Len(ClientFrame(m, key)))
  /\ UNCHANGED <<inq, pc, data, executed, parsed, boundary, single>>

Arrive(n) ==
  /\ inq' = inq \o SubSeq(wire, 1, n)
  /\ wire' = SubSeq(wire, n + 1, Len(wire))
  /\ UNCHANGED <<pc, data, executed, sent, ends, parsed, boundary, single>>

\* EPOLLIN.
DispatchFrame ==
  /\ pc = "wait"
  /\ inq # <<>>
  /\ pc' = "recv"
  /\ data' = <<>>
  /\ UNCHANGED <<wire, inq, executed, sent, ends, parsed, boundary, single>>

\* One frame is decoded from the bytes.  An empty payload, or none, is
\* answered with disconnectHeader.
Decoded(bytes) ==
  /\ pc' = "wait"
  /\ LET packet == Decode(bytes)
         arrived == parsed + Len(data) + Len(inq)
         taken == {e \in Range(ends) : parsed < e /\ e <= arrived}
     IN  /\ executed' = IF packet.payload = <<>> THEN executed
                        ELSE Append(executed, packet.payload)
         /\ parsed' = arrived
         /\ boundary' = (boundary /\ arrived \in Range(ends))
         /\ single' = (single /\ taken = {arrived})
  /\ UNCHANGED <<wire, sent, ends>>

\* Faulty variant: recv is called once.
RecvOnce ==
  /\ pc = "recv"
  /\ inq # <<>>
  /\ LET n == Least(BufSize, Len(inq))
     IN  /\ Decoded(SubSeq(inq, 1, n))
         /\ data' = SubSeq(inq, 1, n)
         /\ inq' = SubSeq(inq, n + 1, Len(inq))

Recv ==
  /\ pc = "recv"
  /\ inq # <<>>
  /\ LET n == Least(BufSize, Len(inq))
     IN  /\ data' = data \o SubSeq(inq, 1, n)
         /\ inq' = SubSeq(inq, n + 1, Len(inq))
  /\ UNCHANGED <<wire, pc, executed, sent, ends, parsed, boundary, single>>

\* EAGAIN: there is nothing left, and what there was is decoded.
RecvAgain ==
  /\ pc = "recv"
  /\ inq = <<>>
  /\ Decoded(data)
  /\ UNCHANGED <<inq, data>>

ReaderNext ==
  \/ \E m \in Commands, key \in Keys : SendCommand(m, key)
  \/ \E n \in 1 .. Len(wire) : Arrive(n)
  \/ DispatchFrame \/ Recv \/ RecvAgain

ReadStep == DispatchFrame \/ Recv \/ RecvAgain

ReaderSpec == ReaderInit /\ [][ReaderNext]_readerVars
ReaderFairSpec == ReaderSpec /\ WF_readerVars(ReadStep)

-----------------------------------------------------------------------------
(* Correctness *)

\* The messages that are executed are those that were sent at the positions
\* at, in order.
ExecutedAt(at) ==
  /\ \A i \in DOMAIN at : executed[i] = sent[at[i]] /\ executed[i] # <<>>
  /\ \A i, j \in DOMAIN at : i < j => at[i] < at[j]

Positions == [1 .. Len(executed) -> 1 .. Len(sent)]

\* Until a frame is torn, frames that arrive together are lost but for the
\* first: nothing is executed that was not sent, nor twice, nor out of order.
OnlySentExecuted == boundary => \E at \in Positions : ExecutedAt(at)

\* As long as every frame arrives by itself, also in pieces that arrive while
\* dispatch reads, each message is executed: none that is not empty is left
\* out before one that is executed, or among those that were taken.
SingleFramesExecuted ==
  single =>
    \E at \in Positions :
      /\ ExecutedAt(at)
      /\ \A j \in 1 .. Len(sent) :
           ends[j] <= parsed /\ sent[j] # <<>> => j \in Range(at)

\* dispatch executes what was sent: all of it while frames come alone, and
\* nothing else until a frame is torn.
MessagesExecuted == SingleFramesExecuted /\ OnlySentExecuted

\* Bytes that have arrived are read, and dispatch returns.
ReadsAll == inq # <<>> ~> inq = <<>> /\ pc = "wait"

=============================================================================
