----------------------------- MODULE StreamNet -----------------------------
(***************************************************************************)
(* The wire protocol streamsender and streamreceiver share                 *)
(* (src/streamnet_protocol.h) and the arithmetic that cuts one encoded     *)
(* frame into datagrams.  A frame is a record with at least the fields     *)
(* id (PacketHeader.frameId), size (frameSize) and key (flags bit 0); a    *)
(* datagram is a frame and a packetIdx, its payload is "fragment i of f".  *)
(***************************************************************************)
EXTENDS Integers

CONSTANTS
  MaxPayload,  \* kMaxPayload: bytes of bitstream in a full datagram
  TotalMod,    \* 2^16: totalPackets and packetIdx are uint16_t
  IdMod        \* 2^32: frameId is uint32_t

ASSUME StreamNetAssumption ==
  /\ MaxPayload \in Nat \ {0}
  /\ TotalMod \in Nat \ {0}
  /\ IdMod \in Nat \ {0}

\* The cast to uint16_t is where a huge frame would lose fragments.
Total(size) == ((size + MaxPayload - 1) \div MaxPayload) % TotalMod

Offset(i) == i * MaxPayload

Payload(size, i) ==
  IF size - Offset(i) < MaxPayload THEN size - Offset(i) ELSE MaxPayload

\* The bytes of the frame that fragment i carries.
Bytes(size, i) == Offset(i) .. (Offset(i) + Payload(size, i) - 1)

\* Largest frame whose packet count fits totalPackets.
MaxFrameSize == (TotalMod - 1) * MaxPayload
=============================================================================
