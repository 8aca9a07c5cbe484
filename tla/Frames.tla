------------------------------- MODULE Frames -------------------------------
(***************************************************************************)
(* The frames of the WebSocket connection as sequences of bytes:           *)
(* convertToPacket, which the server sends, and ClientToServerPacket, its  *)
(* reading of what a client sends.  The size of a byte is a parameter, so  *)
(* that the limits of the three forms of the length, 125 and 65535, scale  *)
(* with it.                                                                *)
(***************************************************************************)
EXTENDS Integers, Sequences

CONSTANTS
  High,         \* the highest bit of a byte, 128 in the code
  ByteXor(_, _) \* ^ of two bytes

Radix == 2 * High
Byte == 0 .. Radix - 1
TextFrame == High + 1

FramesAssumption ==
  /\ High \in Nat /\ High > 3
  /\ \A a, b \in Byte : ByteXor(a, b) \in Byte /\ ByteXor(ByteXor(a, b), b) = a

\* The length 126 in the second byte announces two bytes, 127 eight.
MarkTwo == High - 2
MarkEight == High - 1

\* The numbers of two bytes and of eight, which size_t and uint64_t have.
Square(n) == n * n
MaxTwo == Square(Radix) - 1
SizeMod == Square(Square(Square(Radix)))

Least(a, b) == IF a < b THEN a ELSE b

\* n >> 8 * k.
Shifted(n, k) ==
  LET shifted[i \in 0 .. k] == IF i = 0 THEN n ELSE shifted[i - 1] \div Radix
  IN  shifted[k]

BigEndian(n, bytes) ==
  [i \in 1 .. bytes |-> Shifted(n, bytes - i) % Radix]

Value(bytes) ==
  LET value[i \in 0 .. Len(bytes)] ==
        IF i = 0 THEN 0 ELSE value[i - 1] * Radix + bytes[i]
  IN  value[Len(bytes)]

LengthField(n, mask) ==
  IF n < MarkTwo THEN <<mask + n>>
  ELSE IF n <= MaxTwo THEN <<mask + MarkTwo>> \o BigEndian(n, 2)
       ELSE <<mask + MarkEight>> \o BigEndian(n, 8)

\* convertToPacket.
ServerFrame(payload) ==
  <<TextFrame>> \o LengthField(Len(payload), 0) \o payload

Masked(payload, key) ==
  [i \in 1 .. Len(payload) |-> ByteXor(payload[i], key[((i - 1) % 4) + 1])]

\* What a client sends: with a key of four bytes, as it must.
ClientFrame(payload, key) ==
  <<TextFrame>> \o LengthField(Len(payload), High) \o key
    \o Masked(payload, key)

Failed == [failed |-> TRUE, payload |-> <<>>]

\* The bytes of the length behind the second byte.
Extra(len7) == IF len7 = MarkEight THEN 8 ELSE IF len7 = MarkTwo THEN 2 ELSE 0

\* offset + payloadLen is a number of 64 bits.
EndOfFrame(offset, keyed, payloadLen) ==
  (offset + (IF keyed THEN 4 ELSE 0) + payloadLen) % SizeMod

\* ClientToServerPacket::ClientToServerPacket.
Decode(bytes) ==
  IF Len(bytes) < 2 THEN Failed
  ELSE
    LET len7 == bytes[2] % High
        keyed == bytes[2] >= High
        offset == 2 + Extra(len7)
        start == IF keyed THEN offset + 4 ELSE offset
        payloadLen == IF Extra(len7) = 0 THEN len7
                      ELSE Value(SubSeq(bytes, 3, offset))
    IN  IF Len(bytes) < offset \/ Len(bytes) < start THEN Failed
        ELSE IF Len(bytes) < EndOfFrame(offset, keyed, payloadLen)
               THEN Failed
        ELSE [failed |-> FALSE,
              payload |-> [i \in 1 .. payloadLen |->
                IF keyed
                  THEN ByteXor(bytes[start + i],
                               bytes[offset + 1 + ((i - 1) % 4)])
                  ELSE bytes[start + i]]]

\* Payloads and keys that can be in a frame: a frame is in the memory of the
\* machine, and so its length is a number of eight bytes.
Payloads == {p \in Seq(Byte) : Len(p) + 14 < SizeMod}
MaskKeys == Byte \X Byte \X Byte \X Byte

-----------------------------------------------------------------------------
(* Correctness *)

\* ClientToServerPacket takes out what the client put in, whatever bytes
\* follow the frame, and refuses a frame that has not arrived completely,
\* wherever it is cut.  Any reader of the protocol takes out what
\* convertToPacket was given.
RoundTrip(payload, key, rest) ==
  LET frame == ClientFrame(payload, key)
  IN  /\ Decode(frame \o rest) = [failed |-> FALSE, payload |-> payload]
      /\ \A cut \in 0 .. Len(frame) - 1 :
           Decode(SubSeq(frame, 1, cut)) = Failed
      /\ Decode(ServerFrame(payload) \o rest)
           = [failed |-> FALSE, payload |-> payload]

=============================================================================
