---------------------------- MODULE StreamSender ----------------------------
(***************************************************************************)
(* The four actors behind streamsender's frame loop and its end            *)
(* (src/streamsender/main.cpp:284-384): the producer whose texture it      *)
(* copies, the CPU thread, its D3D12 command queue and NVENC.  The CPU     *)
(* thread keeps no fence of its own: what stops it from resetting an       *)
(* allocator, or from reusing an NVENC buffer, that is still in use is     *)
(* only that EncodeFrame blocks for the bitstream of OutputDelay frames    *)
(* ago.  Frames are numbered as frameId does (NvEncoder's m_iToSend is the *)
(* same count); frame k uses the allocator and buffers of slot k % NumBfrs.*)
(***************************************************************************)
EXTENDS Integers, Functions

CONSTANTS NumBfrs,   \* m_nEncoderBuffer, the length of every ring: 4
          MaxFence   \* bound: how many frames the producer publishes

ASSUME StreamSenderAssumption ==
  /\ NumBfrs \in Nat \ {0}
  /\ MaxFence \in Nat

VARIABLES
  infoFence,          \* SharedInfo.fenceValue, written by the producer
  texFence,           \* completed value of the producer's shared fence
  lastProducerFence,
  running,            \* g_running
  pc,                 \* CPU thread: "poll", "encode", "collect", "drain" or "done"
  frameId,
  gpuQ,               \* submitted copies not finished: frame -> fence to wait for
  copying,            \* the queue is executing the copy of frame inputFence
  inputFence,         \* completed value of NVENC's input fence: copies finished
  encoding,           \* NVENC is encoding frame `encoded`
  encoded,            \* frames NVENC has finished
  got                 \* m_iGot: bitstreams the CPU has read back

producer == <<infoFence, texFence>>
cpu      == <<running, lastProducerFence, pc, frameId, got>>
gpu      == <<gpuQ, copying, inputFence>>
nvenc    == <<encoding, encoded>>
vars     == <<producer, cpu, gpu, nvenc>>

Slot(k) == k % NumBfrs

\* Slip: EncodeFrame blocks one frame later.
OutputDelay_Longer == NumBfrs
OutputDelay == NumBfrs - 1

\* m_iToSend, which EncodeFrame increments before frameId moves on.
ToSend == IF pc = "collect" THEN frameId + 1 ELSE frameId

Init ==
  /\ infoFence = 0 /\ texFence = 0
  /\ running = TRUE /\ lastProducerFence = 0 /\ pc = "poll" /\ frameId = 0 /\ got = 0
  /\ gpuQ = [k \in {} |-> 0] /\ copying = FALSE /\ inputFence = 0
  /\ encoding = FALSE /\ encoded = 0

\* The producer queues its own Signal(n) before it stores n, so its GPU may be
\* one ahead of what is published, or far behind.
Publish ==
  /\ infoFence < MaxFence
  /\ infoFence' = infoFence + 1
  /\ UNCHANGED <<texFence, cpu, gpu, nvenc>>

FinishTexture ==
  /\ texFence <= infoFence /\ texFence < MaxFence
  /\ texFence' = texFence + 1
  /\ UNCHANGED <<infoFence, cpu, gpu, nvenc>>

\* Slip: the poll wants to be two frames behind.
NewerFrame_Late == infoFence > lastProducerFence + 1
NewerFrame == infoFence > lastProducerFence

CtrlC ==
  /\ running
  /\ running' = FALSE
  /\ UNCHANGED <<producer, lastProducerFence, pc, frameId, got, gpu, nvenc>>

\* Poll finds a newer frame: Wait, allocator Reset, copy, Signal, all queued.
Submit ==
  /\ pc = "poll" /\ running
  /\ NewerFrame
  /\ lastProducerFence' = infoFence
  /\ gpuQ' = [k \in DOMAIN gpuQ \cup {frameId} |->
                IF k = frameId THEN infoFence ELSE gpuQ[k]]
  /\ pc' = "encode"
  /\ UNCHANGED <<producer, running, frameId, got, copying, inputFence, nvenc>>

\* EncodeFrame hands the frame to NVENC, to start when the input fence allows.
EncodeFrame ==
  /\ pc = "encode"
  /\ pc' = "collect"
  /\ UNCHANGED <<producer, running, lastProducerFence, frameId, got, gpu, nvenc>>

\* GetEncodedPacket reads the bitstreams up to m_iToSend - m_nOutputDelay, and up to
\* m_iToSend for EndEncode.  Slip: EndEncode leaves the delayed ones too.
Owed_Delayed == got < ToSend - OutputDelay
Owed == got < (IF pc = "drain" THEN ToSend ELSE ToSend - OutputDelay)

LockBitstream ==
  /\ pc \in {"collect", "drain"}
  /\ Owed
  /\ encoded > got
  /\ got' = got + 1
  /\ UNCHANGED <<producer, running, lastProducerFence, pc, frameId, gpu, nvenc>>

NextFrame ==
  /\ pc = "collect"
  /\ ~Owed
  /\ pc' = "poll"
  /\ frameId' = frameId + 1
  /\ UNCHANGED <<producer, running, lastProducerFence, got, gpu, nvenc>>

\* Out of the loop: EndEncode reads back what is left (and main drops it), then
\* DestroyEncoder unregisters the rings.
EndEncode ==
  /\ pc = "poll" /\ ~running
  /\ pc' = "drain"
  /\ UNCHANGED <<producer, running, lastProducerFence, frameId, got, gpu, nvenc>>

DestroyEncoder ==
  /\ pc = "drain" /\ ~Owed
  /\ pc' = "done"
  /\ UNCHANGED <<producer, running, lastProducerFence, frameId, got, gpu, nvenc>>

StartCopy ==
  /\ ~copying
  /\ inputFence \in DOMAIN gpuQ
  /\ gpuQ[inputFence] <= texFence
  /\ copying' = TRUE
  /\ UNCHANGED <<producer, cpu, gpuQ, inputFence, nvenc>>

FinishCopy ==
  /\ copying
  /\ copying' = FALSE
  /\ gpuQ' = Restrict(gpuQ, DOMAIN gpuQ \ {inputFence})
  /\ inputFence' = inputFence + 1
  /\ UNCHANGED <<producer, cpu, nvenc>>

\* inputFencePoint.waitValue of frame k is k + 1.
\* Slips: the input fence is not waited for (bWait = false), or for the next copy.
CopyDone_NoWait(k) == TRUE
CopyDone_Next(k) == k + 2 <= inputFence
CopyDone(k) == k + 1 <= inputFence

StartEncode ==
  /\ ~encoding
  /\ encoded < ToSend
  /\ CopyDone(encoded)
  /\ encoding' = TRUE
  /\ UNCHANGED <<producer, cpu, gpu, encoded>>

FinishEncode ==
  /\ encoding
  /\ encoding' = FALSE
  /\ encoded' = encoded + 1
  /\ UNCHANGED <<producer, cpu, gpu>>

CpuStep   == \/ Submit \/ EncodeFrame \/ LockBitstream \/ NextFrame
             \/ EndEncode \/ DestroyEncoder
GpuStep   == StartCopy \/ FinishCopy
NvencStep == StartEncode \/ FinishEncode

Next == Publish \/ FinishTexture \/ CtrlC \/ CpuStep \/ GpuStep \/ NvencStep

\* A live machine: the thread runs, both engines work through what they were
\* given, and the producer's GPU finishes the frames it published.  Nothing
\* makes the producer publish another frame: the screen may stay as it is.
Fairness ==
  /\ WF_vars(CpuStep) /\ WF_vars(GpuStep) /\ WF_vars(NvencStep)
  /\ WF_vars(texFence < infoFence /\ FinishTexture)

Spec == Init /\ [][Next]_vars /\ Fairness
-----------------------------------------------------------------------------
\* Frames handed to the command queue so far.
Submitted == IF pc \in {"encode", "collect"} THEN frameId + 1 ELSE frameId

\* Types, and the order the four counters of the pipeline keep.
TypeOK ==
  /\ infoFence \in Nat /\ texFence \in Nat /\ lastProducerFence \in Nat
  /\ running \in BOOLEAN /\ pc \in {"poll", "encode", "collect", "drain", "done"}
  /\ copying \in BOOLEAN /\ encoding \in BOOLEAN
  /\ got \in Nat /\ encoded \in Nat /\ inputFence \in Nat /\ frameId \in Nat
  /\ got <= encoded /\ encoded <= inputFence /\ inputFence <= Submitted
  /\ DOMAIN gpuQ = inputFence .. Submitted - 1
  /\ \A k \in DOMAIN gpuQ : gpuQ[k] \in Nat

\* cmdAllocs[bfrIdx]->Reset() (line 300) has no CPU wait before it, yet no
\* command list recorded from that allocator is still queued or executing.
AllocatorIdleAtReset ==
  pc = "poll" => \A k \in DOMAIN gpuQ : Slot(k) # Slot(frameId)

\* The queue never copies a new picture into an NVENC input texture whose
\* previous picture NVENC has yet to read.
InputBufferFree ==
  copying => \A k \in encoded .. inputFence - 1 : Slot(k) # Slot(inputFence)

\* NVENC never writes a bitstream over one the CPU has yet to read back.
OutputBufferFree ==
  encoding => \A k \in got .. encoded - 1 : Slot(k) # Slot(encoded)

\* While the thread polls, exactly the last NumBfrs - 1 frames are still in the
\* encoder: when the screen stops changing, its last picture is not sent.
HeldBack ==
  pc = "poll" => got = IF frameId < NumBfrs THEN 0 ELSE frameId - (NumBfrs - 1)

\* DestroyEncoder unregisters the rings when no copy is queued and NVENC is idle.
IdleWhenDestroyed == pc = "done" => DOMAIN gpuQ = {} /\ ~copying /\ ~encoding

\* The thread blocked for a bitstream never waits in a circle: NVENC has the frame
\* or can start it, or the copy before it runs or waits at most for a texture that
\* its producer has published, whose Signal is then already queued.
NoCircularWait ==
  pc \in {"collect", "drain"} /\ Owed /\ encoded = got =>
    \/ encoding \/ CopyDone(encoded) \/ copying
    \/ inputFence \in DOMAIN gpuQ /\ gpuQ[inputFence] <= infoFence

\* The thread never blocks in EncodeFrame for good: every published frame is
\* noticed, or overtaken by a later one that is, until Ctrl+C.
EveryPublishNoticed ==
  \A v \in 1 .. MaxFence : infoFence = v ~> lastProducerFence >= v \/ ~running

\* After Ctrl+C the sender always gets to its end.
ExitCompletes == ~running ~> pc = "done"
=============================================================================
