---------------------------- MODULE MCReassembly ----------------------------
(***************************************************************************)
(* Reassembly on six frame ids (the last one is the last id before the     *)
(* wrap), frames of one, two and three fragments, keyframes at 0 and 2.    *)
(***************************************************************************)
EXTENDS Reassembly

SizeOf == <<4, 1, 5, 3, 4, 3>>

MCFrames == {[id |-> n, size |-> SizeOf[n + 1], key |-> n \in {0, 2}] : n \in 0 .. 5}

\* The protocol arithmetic against its definition by bytes, on every size.
ASSUME \A size \in 1 .. MaxFrameSize :
  /\ UNION {Bytes(size, i) : i \in 0 .. Total(size) - 1} = 0 .. size - 1
  /\ \A i, j \in 0 .. Total(size) - 1 : i # j => Bytes(size, i) \cap Bytes(size, j) = {}
  /\ \A i \in 0 .. Total(size) - 1 : Payload(size, i) \in 1 .. MaxPayload
=============================================================================
