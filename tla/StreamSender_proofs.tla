------------------------ MODULE StreamSender_proofs ------------------------
(***************************************************************************)
(* For every ring length and every number of frames: the one blocking read *)
(* in EncodeFrame protects all three rings.  The pipeline counters keep    *)
(* got <= encoded <= inputFence <= Submitted (TypeOK), the read keeps got  *)
(* less than a ring behind (Blocked), and two frames less than a ring      *)
(* apart have different slots.                                             *)
(***************************************************************************)
EXTENDS StreamSender, TLAPS

\* Euclid's division.
LEMMA Division ==
  ASSUME NEW a \in Nat, NEW b \in Nat \ {0}
  PROVE  /\ a \div b \in Nat
         /\ b * (a \div b) <= a
         /\ a < b * (a \div b) + b
  OBVIOUS

LEMMA Remainder ==
  ASSUME NEW a \in Nat, NEW m \in Nat \ {0}
  PROVE  /\ a % m \in 0 .. m - 1
         /\ a = m * (a \div m) + (a % m)
  OBVIOUS

\* Numbers less than m apart have different remainders.
LEMMA RemaindersDiffer ==
  ASSUME NEW m \in Nat \ {0}, NEW j \in Nat, NEW k \in Nat, j < k, k < j + m
  PROVE  j % m # k % m
<1> DEFINE qj == j \div m
           qk == k \div m
<1>1. qj \in Nat /\ j % m \in Nat /\ j = m * qj + (j % m)
  BY Division, Remainder
<1>2. qk \in Nat /\ k = m * qk + (k % m)
  BY Division, Remainder
<1> HIDE DEF qj, qk
<1> SUFFICES ASSUME j % m = k % m PROVE FALSE
  OBVIOUS
<1>3. k - j = m * (qk - qj)
  BY <1>1, <1>2
<1>4. CASE qk - qj <= 0
  BY <1>1, <1>2, <1>3, <1>4
<1>5. CASE qk - qj >= 1
  BY <1>1, <1>2, <1>3, <1>5
<1> QED
  BY <1>1, <1>2, <1>4, <1>5

\* EncodeFrame let the thread come this far, and no engine runs ahead of it.
Blocked ==
  /\ ToSend <= got + (IF pc = "collect" THEN NumBfrs ELSE OutputDelay)
  /\ pc \in {"poll", "encode"} => got = IF frameId < NumBfrs THEN 0 ELSE frameId - OutputDelay
  /\ pc = "collect" =>
       /\ got <= (IF frameId + 1 < NumBfrs THEN 0 ELSE frameId + 1 - OutputDelay)
       /\ got >= (IF frameId < NumBfrs THEN 0 ELSE frameId - OutputDelay)
  /\ pc = "done" => got = frameId
  /\ encoded <= ToSend
  /\ encoding => encoded < inputFence /\ encoded < ToSend
  /\ copying => inputFence \in DOMAIN gpuQ

\* The queue waits only for textures that were published.
WaitsForPublished == \A k \in DOMAIN gpuQ : gpuQ[k] <= infoFence

Inv == TypeOK /\ Blocked /\ WaitsForPublished

\* The pipeline invariant holds of every reachable state.
THEOREM Inductive == Spec => []Inv
<1>1. Init => Inv
  <2> SUFFICES ASSUME Init PROVE Inv
    OBVIOUS
  <2>1. /\ inputFence = 0 /\ Submitted = 0
        /\ DOMAIN gpuQ = {} /\ 0 .. 0 - 1 = {}
        /\ infoFence = 0 /\ texFence = 0 /\ lastProducerFence = 0 /\ pc = "poll"
        /\ running = TRUE
        /\ frameId = 0 /\ got = 0 /\ encoded = 0 /\ copying = FALSE /\ encoding = FALSE
    BY DEF Init, Submitted
  <2>2. TypeOK
    <3>1. DOMAIN gpuQ = inputFence .. Submitted - 1
      BY <2>1
    <3>2. \A k \in DOMAIN gpuQ : gpuQ[k] \in Nat
      BY <2>1
    <3>3. got <= encoded /\ encoded <= inputFence /\ inputFence <= Submitted
      BY <2>1
    <3> QED
      BY <2>1, <3>1, <3>2, <3>3 DEF TypeOK
  <2>3. Blocked
    BY StreamSenderAssumption DEF Init, Blocked, ToSend, OutputDelay
  <2>4. WaitsForPublished
    BY <2>1 DEF WaitsForPublished
  <2> QED
    BY <2>2, <2>3, <2>4 DEF Inv
<1>2. Inv /\ [Next]_vars => Inv'
  <2> SUFFICES ASSUME Inv, [Next]_vars PROVE Inv'
    OBVIOUS
  <2> USE StreamSenderAssumption
          DEF Inv, TypeOK, Blocked, WaitsForPublished, Submitted, ToSend, OutputDelay, producer, cpu, gpu, nvenc
  <2>1. CASE Publish
    BY <2>1 DEF Publish
  <2>2. CASE FinishTexture
    BY <2>2 DEF FinishTexture
  <2>3. CASE Submit
    BY <2>3 DEF Submit, NewerFrame
  <2>4. CASE EncodeFrame
    BY <2>4 DEF EncodeFrame
  <2>5. CASE LockBitstream
    BY <2>5 DEF LockBitstream, Owed
  <2>6. CASE NextFrame
    BY <2>6 DEF NextFrame, Owed
  <2>7. CASE StartCopy
    BY <2>7 DEF StartCopy
  <2>8. CASE FinishCopy
    <3>1. inputFence \in DOMAIN gpuQ
      BY <2>8 DEF FinishCopy
    <3>2. /\ DOMAIN gpuQ' = DOMAIN gpuQ \ {inputFence}
          /\ \A k \in DOMAIN gpuQ' : gpuQ'[k] = gpuQ[k]
      BY <2>8 DEF FinishCopy, Restrict
    <3>3. /\ inputFence' = inputFence + 1 /\ copying' = FALSE
          /\ UNCHANGED <<infoFence, texFence, lastProducerFence, running, pc, frameId, got,
                         encoding, encoded>>
      BY <2>8 DEF FinishCopy
    <3>4. TypeOK'
      <4>1. DOMAIN gpuQ' = inputFence' .. Submitted' - 1
        BY <3>1, <3>2, <3>3
      <4>2. inputFence' \in Nat /\ inputFence' <= Submitted'
        BY <3>1, <3>3
      <4>3. \A k \in DOMAIN gpuQ' : gpuQ'[k] \in Nat
        BY <3>2
      <4>4. got' <= encoded' /\ encoded' <= inputFence'
        BY <3>3
      <4> QED
        BY <3>3, <4>1, <4>2, <4>3, <4>4
    <3>5. Blocked'
      BY <2>8 DEF FinishCopy
    <3>6. WaitsForPublished'
      BY <3>2, <3>3
    <3> QED
      BY <3>4, <3>5, <3>6
  <2>9. CASE StartEncode
    BY <2>9 DEF StartEncode, CopyDone
  <2>10. CASE FinishEncode
    <3>1. encoded < inputFence /\ encoded < ToSend
      BY <2>10 DEF FinishEncode
    <3>2. TypeOK'
      <4>1. /\ encoded' = encoded + 1 /\ encoding' = FALSE
            /\ UNCHANGED <<infoFence, texFence, lastProducerFence, running, pc, frameId, got,
                           gpuQ, copying, inputFence>>
        BY <2>10 DEF FinishEncode
      <4>2. encoded' \in Nat /\ got' <= encoded' /\ encoded' <= inputFence'
        BY <3>1, <4>1
      <4> QED
        BY <4>1, <4>2
    <3>3. Blocked' /\ WaitsForPublished'
      BY <2>10, <3>1 DEF FinishEncode
    <3> QED
      BY <3>2, <3>3
  <2>11. CASE UNCHANGED vars
    BY <2>11 DEF vars
  <2>12. CASE CtrlC
    BY <2>12 DEF CtrlC
  <2>13. CASE EndEncode
    BY <2>13 DEF EndEncode
  <2>14. CASE DestroyEncoder
    BY <2>14 DEF DestroyEncoder, Owed
  <2> QED
    BY <2>1, <2>2, <2>3, <2>4, <2>5, <2>6, <2>7, <2>8, <2>9, <2>10, <2>11, <2>12, <2>13, <2>14
       DEF Next, CpuStep, GpuStep, NvencStep
<1> QED
  BY <1>1, <1>2, PTL DEF Spec

LEMMA SlotsDiffer ==
  ASSUME NEW j \in Nat, NEW k \in Nat, j < k, k <= j + OutputDelay
  PROVE  Slot(j) # Slot(k)
<1>1. k < j + NumBfrs
  BY StreamSenderAssumption DEF OutputDelay
<1> QED
  BY <1>1, RemaindersDiffer, StreamSenderAssumption DEF Slot

(***************************************************************************)
(* Resetting the command allocator without waiting for the GPU is safe:    *)
(* the frames still queued are fewer than a ring behind frameId.           *)
(***************************************************************************)
THEOREM AllocatorsSafe == Spec => []AllocatorIdleAtReset
<1>1. Inv => AllocatorIdleAtReset
  <2> SUFFICES ASSUME Inv, pc = "poll", NEW k \in DOMAIN gpuQ
               PROVE  Slot(k) # Slot(frameId)
    BY DEF AllocatorIdleAtReset
  <2>1. k \in Nat /\ frameId \in Nat /\ k < frameId
    BY DEF Inv, TypeOK, Submitted
  <2>2. frameId <= k + OutputDelay
    BY StreamSenderAssumption DEF Inv, TypeOK, Blocked, ToSend, OutputDelay, Submitted
  <2> QED
    BY <2>1, <2>2, SlotsDiffer
<1> QED
  BY <1>1, Inductive, PTL

(***************************************************************************)
(* The command queue never overwrites an input texture that NVENC still    *)
(* has to read.                                                            *)
(***************************************************************************)
THEOREM InputBuffersSafe == Spec => []InputBufferFree
<1>1. Inv => InputBufferFree
  <2> SUFFICES ASSUME Inv, copying, NEW k \in encoded .. inputFence - 1
               PROVE  Slot(k) # Slot(inputFence)
    BY DEF InputBufferFree
  <2>1. k \in Nat /\ inputFence \in Nat /\ k < inputFence
    BY DEF Inv, TypeOK
  <2>2. inputFence < Submitted /\ got <= k
    <3>1. inputFence \in DOMAIN gpuQ /\ DOMAIN gpuQ = inputFence .. Submitted - 1
      BY DEF Inv, TypeOK, Blocked
    <3> QED
      BY <3>1 DEF Inv, TypeOK, Submitted
  <2>3. inputFence <= k + OutputDelay
    BY <2>1, <2>2, StreamSenderAssumption
       DEF Inv, TypeOK, Blocked, ToSend, OutputDelay, Submitted
  <2> QED
    BY <2>1, <2>3, SlotsDiffer
<1> QED
  BY <1>1, Inductive, PTL

(***************************************************************************)
(* NVENC never overwrites a bitstream the thread has yet to read back.     *)
(***************************************************************************)
THEOREM OutputBuffersSafe == Spec => []OutputBufferFree
<1>1. Inv => OutputBufferFree
  <2> SUFFICES ASSUME Inv, encoding, NEW k \in got .. encoded - 1
               PROVE  Slot(k) # Slot(encoded)
    BY DEF OutputBufferFree
  <2>1. k \in Nat /\ encoded \in Nat /\ k < encoded
    BY DEF Inv, TypeOK
  <2>2. encoded < ToSend /\ got <= k
    BY DEF Inv, TypeOK, Blocked
  <2>3. encoded <= k + OutputDelay
    BY <2>1, <2>2, StreamSenderAssumption
       DEF Inv, TypeOK, Blocked, ToSend, OutputDelay
  <2> QED
    BY <2>1, <2>3, SlotsDiffer
<1> QED
  BY <1>1, Inductive, PTL

(***************************************************************************)
(* Types, for any ring and any number of frames.                           *)
(***************************************************************************)
THEOREM TypeCorrect == Spec => []TypeOK
BY Inductive, PTL DEF Inv

(***************************************************************************)
(* The loop returns to its poll with NumBfrs - 1 frames in the encoder.    *)
(***************************************************************************)
THEOREM FramesHeldBack == Spec => []HeldBack
<1>1. Inv => HeldBack
  BY StreamSenderAssumption DEF Inv, Blocked, HeldBack, OutputDelay
<1> QED
  BY <1>1, Inductive, PTL

(***************************************************************************)
(* The encoder is destroyed only when both engines are idle: got = frameId *)
(* pushes encoded and inputFence up to it as well.                         *)
(***************************************************************************)
THEOREM DestroyedIdle == Spec => []IdleWhenDestroyed
<1>1. Inv => IdleWhenDestroyed
  <2> SUFFICES ASSUME Inv, pc = "done"
               PROVE  DOMAIN gpuQ = {} /\ ~copying /\ ~encoding
    BY DEF IdleWhenDestroyed
  <2>1. got = frameId /\ Submitted = frameId /\ ToSend = frameId
    BY DEF Inv, Blocked, Submitted, ToSend
  <2>2. got = encoded /\ encoded = inputFence /\ inputFence = Submitted
    <3>1. /\ got \in Nat /\ encoded \in Nat /\ inputFence \in Nat /\ frameId \in Nat
          /\ got <= encoded /\ encoded <= inputFence /\ inputFence <= Submitted
      BY DEF Inv, TypeOK
    <3> QED
      BY <2>1, <3>1
  <2>3. DOMAIN gpuQ = inputFence .. inputFence - 1 /\ inputFence \in Nat
    BY <2>2 DEF Inv, TypeOK
  <2>4. DOMAIN gpuQ = {}
    BY <2>3
  <2>5. ~copying
    BY <2>4 DEF Inv, Blocked
  <2>6. ~encoding
    <3>1. encoding => encoded < inputFence
      BY DEF Inv, Blocked
    <3>2. inputFence \in Nat
      BY <2>3
    <3> QED
      BY <2>2, <3>1, <3>2
  <2> QED
    BY <2>4, <2>5, <2>6
<1> QED
  BY <1>1, Inductive, PTL

(***************************************************************************)
(* The three queues cannot wait in a circle: whatever number of buffers,   *)
(* the thread blocked for a bitstream waits for work that is under way or  *)
(* held up at most by the producer's GPU, on a frame already published.    *)
(***************************************************************************)
THEOREM NeverCircular == Spec => []NoCircularWait
<1>1. Inv => NoCircularWait
  <2> SUFFICES ASSUME Inv, pc \in {"collect", "drain"}, Owed, encoded = got, ~CopyDone(encoded)
               PROVE  inputFence \in DOMAIN gpuQ /\ gpuQ[inputFence] <= infoFence
    BY DEF NoCircularWait
  <2>1. /\ encoded \in Nat /\ inputFence \in Nat /\ frameId \in Nat
        /\ encoded <= inputFence /\ DOMAIN gpuQ = inputFence .. Submitted - 1
    BY DEF Inv, TypeOK
  <2>2. encoded < Submitted
    BY <2>1, StreamSenderAssumption DEF Owed, ToSend, OutputDelay, Submitted
  <2>3. inputFence = encoded
    BY <2>1 DEF CopyDone
  <2>4. Submitted \in Nat
    BY <2>1 DEF Submitted
  <2>5. inputFence \in DOMAIN gpuQ
    BY <2>1, <2>2, <2>3, <2>4
  <2> QED
    BY <2>5 DEF Inv, WaitsForPublished
<1> QED
  BY <1>1, Inductive, PTL
=============================================================================
