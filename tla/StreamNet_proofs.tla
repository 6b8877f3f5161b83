-------------------------- MODULE StreamNet_proofs --------------------------
(***************************************************************************)
(* The fragments of a frame tile it.                                       *)
(***************************************************************************)
EXTENDS StreamNet, TLAPS

\* Euclid's division.
LEMMA Division ==
  ASSUME NEW a \in Nat, NEW b \in Nat \ {0}
  PROVE  /\ a \div b \in Nat
         /\ b * (a \div b) <= a
         /\ a < b * (a \div b) + b
  OBVIOUS

\* Multiples of m are at least m apart.
LEMMA Multiples ==
  ASSUME NEW m \in Nat \ {0}, NEW i \in Nat, NEW j \in Nat, i < j
  PROVE  i * m + m <= j * m
  OBVIOUS

\* A number below the modulus is its own remainder.
LEMMA SmallRemainder ==
  ASSUME NEW m \in Nat \ {0}, NEW a \in Nat, a < m
  PROVE  a % m = a
  OBVIOUS

\* totalPackets of a frame that fits: the uint16_t cast loses nothing.
LEMMA TotalIsCeiling ==
  ASSUME NEW size \in 1 .. MaxFrameSize
  PROVE  /\ Total(size) \in 1 .. (TotalMod - 1)
         /\ size <= Total(size) * MaxPayload
         /\ (Total(size) - 1) * MaxPayload < size
<1> DEFINE q == (size + MaxPayload - 1) \div MaxPayload
<1>1. size \in Nat /\ size >= 1 /\ size + MaxPayload - 1 \in Nat
  BY StreamNetAssumption DEF MaxFrameSize
<1>2. /\ q \in Nat
      /\ MaxPayload * q <= size + MaxPayload - 1
      /\ size + MaxPayload - 1 < MaxPayload * q + MaxPayload
  BY <1>1, Division, StreamNetAssumption
<1>3. q >= 1
  BY <1>1, <1>2, StreamNetAssumption
<1>4. q < TotalMod
  <2>1. SUFFICES ASSUME TotalMod <= q PROVE FALSE
    BY <1>2, StreamNetAssumption
  <2>2. (TotalMod - 1) * MaxPayload + MaxPayload <= q * MaxPayload
    BY <2>1, <1>2, Multiples, StreamNetAssumption
  <2>3. size <= (TotalMod - 1) * MaxPayload
    BY DEF MaxFrameSize
  <2> QED
    BY <2>2, <2>3, <1>1, <1>2, StreamNetAssumption
<1>5. Total(size) = q
  BY <1>2, <1>4, SmallRemainder, StreamNetAssumption DEF Total
<1>6. size <= q * MaxPayload /\ (q - 1) * MaxPayload < size
  BY <1>1, <1>2, StreamNetAssumption
<1> HIDE DEF q
<1> QED
  BY <1>2, <1>3, <1>4, <1>5, <1>6, StreamNetAssumption

(***************************************************************************)
(* What the sender's loop over i and the receiver's memcpy at offset       *)
(* i * kMaxPayload rely on: the fragments of a frame are non-empty, stay   *)
(* inside it, cover it and do not overlap, so that a frame all of whose    *)
(* fragments were stored is the frame that was sent, byte for byte.        *)
(***************************************************************************)
THEOREM FragmentsTile ==
  ASSUME NEW size \in 1 .. MaxFrameSize
  PROVE  /\ \A i \in 0 .. (Total(size) - 1) :
              /\ Payload(size, i) \in 1 .. MaxPayload
              /\ Bytes(size, i) \subseteq 0 .. (size - 1)
         /\ \A b \in 0 .. (size - 1) :
              \E i \in 0 .. (Total(size) - 1) : b \in Bytes(size, i)
         /\ \A i, j \in 0 .. (Total(size) - 1) :
              i # j => Bytes(size, i) \cap Bytes(size, j) = {}
<1>1. size \in Nat /\ size >= 1
  BY StreamNetAssumption DEF MaxFrameSize
<1>2. /\ Total(size) \in Nat \ {0}
      /\ size <= Total(size) * MaxPayload
      /\ (Total(size) - 1) * MaxPayload < size
  BY TotalIsCeiling, StreamNetAssumption
<1>3. ASSUME NEW i \in 0 .. (Total(size) - 1)
      PROVE  Offset(i) \in Nat /\ Offset(i) < size
  <2>1. i * MaxPayload \in Nat
    BY <1>2, StreamNetAssumption
  <2>2. i * MaxPayload <= (Total(size) - 1) * MaxPayload
    <3>1. CASE i = Total(size) - 1
      BY <3>1, <1>2, <2>1, StreamNetAssumption
    <3>2. CASE i < Total(size) - 1
      BY <3>2, <1>2, Multiples, StreamNetAssumption
    <3> QED
      BY <3>1, <3>2, <1>2
  <2> QED
    BY <2>1, <2>2, <1>1, <1>2, StreamNetAssumption DEF Offset
<1>4. ASSUME NEW i \in 0 .. (Total(size) - 1)
      PROVE  /\ Payload(size, i) \in 1 .. MaxPayload
             /\ Bytes(size, i) \subseteq 0 .. (size - 1)
  BY <1>1, <1>3, StreamNetAssumption DEF Payload, Bytes
<1>5. ASSUME NEW b \in 0 .. (size - 1)
      PROVE  \E i \in 0 .. (Total(size) - 1) : b \in Bytes(size, i)
  <2> DEFINE i == b \div MaxPayload
  <2>1. /\ i \in Nat
        /\ MaxPayload * i <= b
        /\ b < MaxPayload * i + MaxPayload
    BY <1>1, Division, StreamNetAssumption
  <2>2. Offset(i) <= b /\ b < Offset(i) + MaxPayload /\ Offset(i) \in Nat
    BY <2>1, <1>1, StreamNetAssumption DEF Offset
  <2>3. i < Total(size)
    <3>1. SUFFICES ASSUME Total(size) <= i PROVE FALSE
      BY <2>1, <1>2
    <3>2. Total(size) * MaxPayload <= i * MaxPayload
      <4>1. CASE Total(size) = i
        BY <4>1, <2>1, StreamNetAssumption
      <4>2. CASE Total(size) < i
        BY <4>2, <1>2, <2>1, Multiples, StreamNetAssumption
      <4> QED
        BY <4>1, <4>2, <3>1, <1>2, <2>1
    <3> QED
      BY <3>2, <2>2, <1>1, <1>2, StreamNetAssumption DEF Offset
  <2> HIDE DEF i
  <2>4. b \in Bytes(size, i)
    BY <2>2, <1>1, StreamNetAssumption DEF Bytes, Payload
  <2> QED
    BY <2>1, <2>3, <2>4, <1>2
<1>6. ASSUME NEW i \in 0 .. (Total(size) - 1), NEW j \in 0 .. (Total(size) - 1), i < j
      PROVE  Bytes(size, i) \cap Bytes(size, j) = {}
  <2>1. Offset(i) + MaxPayload <= Offset(j)
    BY <1>2, <1>6, Multiples, StreamNetAssumption DEF Offset
  <2>2. Payload(size, i) \in 1 .. MaxPayload /\ Payload(size, j) \in 1 .. MaxPayload
    BY <1>4
  <2> QED
    BY <2>1, <2>2, <1>3, StreamNetAssumption DEF Bytes
<1>7. \A i, j \in 0 .. (Total(size) - 1) :
        i # j => Bytes(size, i) \cap Bytes(size, j) = {}
  <2> SUFFICES ASSUME NEW i \in 0 .. (Total(size) - 1),
                      NEW j \in 0 .. (Total(size) - 1), i # j
               PROVE  Bytes(size, i) \cap Bytes(size, j) = {}
    OBVIOUS
  <2>1. i < j \/ j < i
    BY <1>2
  <2> QED
    BY <2>1, <1>6
<1> QED
  BY <1>4, <1>5, <1>7
=============================================================================
