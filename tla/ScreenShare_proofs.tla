------------------------- MODULE ScreenShare_proofs -------------------------
(***************************************************************************)
(* For any number of back buffers and frames: one fence value per buffer   *)
(* is enough for screendisplay to reuse its allocators, the queue's Wait   *)
(* is enough never to draw an older texture than the one announced, and    *)
(* the order of the set-up never to draw without knowing the size.         *)
(***************************************************************************)
EXTENDS ScreenShare, TLAPS

Submitted == [buffer : Buffers, latest : Nat, sized : BOOLEAN]

\* The value a buffer waits for comes after every submitted frame that uses it.
DueCovers == \A n \in DOMAIN drawQ : due[drawQ[n].buffer] >= n

\* The GPU samples the texture for a submitted frame only, once its wait is over.
ReadsHead == reading => drawQ # <<>> /\ texFence >= Head(drawQ).latest

\* What has been signalled since the last whole copy was dropped by CopyResource.
CopiedOrDropped == \A f \in content + 1 .. texFence : f \in misfits

\* Nothing is announced before the mapping is filled.
FilledFirst ==
  /\ fenceValue > 0 => created = 4
  /\ SizedWhenDrawn

Inv == /\ TypeOK /\ DueCovers /\ ReadsHead /\ CopiedOrDropped /\ FilledFirst
       /\ WaitsForQueuedSignals

LEMMA Starts == Init => Inv
<1> SUFFICES ASSUME Init PROVE Inv
  OBVIOUS
<1>1. drawQ = <<>> /\ DOMAIN drawQ = {} /\ reading = FALSE
  BY DEF Init
<1>2. TypeOK
  <2>1. frameIndex \in Buffers
    BY ScreenShareAssumption DEF Init, Buffers
  <2>2. due \in [Buffers -> Nat] /\ drawQ \in Seq([buffer : Buffers, latest : Nat, sized : BOOLEAN])
    BY DEF Init
  <2>3. /\ alive \in BOOLEAN /\ duplication \in BOOLEAN /\ fits \in BOOLEAN /\ writing = FALSE
        /\ quit \in BOOLEAN /\ reading \in BOOLEAN /\ writing \in BOOLEAN
    BY DEF Init
  <2>4. /\ created = 0 /\ fenceValue = 0 /\ infoFence = 0 /\ texFence = 0 /\ content = 0
        /\ misfits = {} /\ pc = "open" /\ opened = 0 /\ shown = 0
    BY DEF Init
  <2> QED
    BY <2>1, <2>2, <2>3, <2>4 DEF TypeOK
<1>3. DueCovers /\ ReadsHead /\ SizedWhenDrawn
  BY <1>1 DEF DueCovers, ReadsHead, SizedWhenDrawn
<1>4. CopiedOrDropped /\ ~(fenceValue > 0)
  <2>1. content = 0 /\ texFence = 0 /\ fenceValue = 0
    BY DEF Init
  <2> QED
    BY <2>1 DEF CopiedOrDropped
<1>5. WaitsForQueuedSignals
  <2>1. \A i \in Buffers : due[i] = 0
    BY DEF Init
  <2> QED
    BY <1>1, <2>1 DEF WaitsForQueuedSignals
<1> QED
  BY <1>2, <1>3, <1>4, <1>5 DEF Inv, FilledFirst

LEMMA Appended ==
  ASSUME NEW S, NEW q \in Seq(S), NEW e \in S
  PROVE  /\ Append(q, e) \in Seq(S) /\ Append(q, e) # <<>>
         /\ DOMAIN Append(q, e) = 1 .. Len(q) + 1 /\ DOMAIN q = 1 .. Len(q) /\ Len(q) \in Nat
         /\ \A n \in DOMAIN q : Append(q, e)[n] = q[n]
         /\ Append(q, e)[Len(q) + 1] = e
         /\ q # <<>> => Head(Append(q, e)) = Head(q)
<1>1. /\ Append(q, e) \in Seq(S) /\ Append(q, e) # <<>>
      /\ DOMAIN Append(q, e) = 1 .. Len(q) + 1 /\ DOMAIN q = 1 .. Len(q) /\ Len(q) \in Nat
  OBVIOUS
<1>2. \A n \in DOMAIN q : Append(q, e)[n] = q[n]
  OBVIOUS
<1>3. Append(q, e)[Len(q) + 1] = e
  OBVIOUS
<1>4. q # <<>> => Head(Append(q, e)) = Head(q)
  OBVIOUS
<1> QED
  BY <1>1, <1>2, <1>3, <1>4

LEMMA HeadAndTail ==
  ASSUME NEW S, NEW q \in Seq(S), q # <<>>
  PROVE  /\ Head(q) \in S /\ Tail(q) \in Seq(S)
         /\ \A n \in DOMAIN Tail(q) :
              n \in Nat \ {0} /\ n + 1 \in DOMAIN q /\ Tail(q)[n] = q[n + 1]
  OBVIOUS

LEMMA Element ==
  ASSUME NEW S, NEW q \in Seq(S), NEW n \in DOMAIN q
  PROVE  q[n] \in S /\ n \in Nat \ {0}
  OBVIOUS

\* What a submitted frame is made of.
LEMMA QueueEntry ==
  ASSUME NEW q \in Seq(Submitted), NEW n \in DOMAIN q
  PROVE  q[n].buffer \in Buffers /\ q[n].latest \in Nat /\ n \in Nat \ {0}
<1>1. q[n] \in Submitted /\ n \in Nat \ {0}
  BY Element
<1> QED
  BY <1>1 DEF Submitted

\* screencapture and the user leave what screendisplay draws with alone.
LEMMA CapturerSteps ==
  ASSUME Inv, Capturer \/ CloseWindow
  PROVE  Inv'
<1>1. UNCHANGED <<copier, pc, opened, frameIndex, drawing>>
  BY DEF Capturer, SetUp, Capture, Publish, AccessLost, NullAcquire, Stop, CloseWindow, display
<1>2. /\ alive' \in BOOLEAN /\ duplication' \in BOOLEAN /\ fits' \in BOOLEAN /\ quit' \in BOOLEAN
  <2> USE DEF Inv, TypeOK, setUp, display
  <2>1. CASE SetUp
    BY <2>1 DEF SetUp
  <2>2. CASE Capture \/ Publish
    BY <2>2 DEF Capture, Publish
  <2>3. CASE AccessLost
    BY <2>3 DEF AccessLost
  <2>4. CASE NullAcquire
    BY <2>4 DEF NullAcquire
  <2>5. CASE Stop
    BY <2>5 DEF Stop
  <2>6. CASE CloseWindow
    BY <2>6 DEF CloseWindow
  <2> QED
    BY <2>1, <2>2, <2>3, <2>4, <2>5, <2>6 DEF Capturer
<1>3. /\ created' \in 0 .. 4 /\ (created = 4 => created' = 4)
      /\ fenceValue' \in Nat /\ infoFence' \in Nat /\ infoFence' <= fenceValue'
      /\ fenceValue <= fenceValue' /\ misfits' \subseteq 1 .. fenceValue' /\ misfits \subseteq misfits'
      /\ fenceValue' > 0 => created' = 4
  <2> USE DEF Inv, TypeOK, FilledFirst, setUp, frames
  <2>1. CASE SetUp
    BY <2>1 DEF SetUp
  <2>2. CASE Capture
    <3>1. /\ fenceValue' = fenceValue + 1 /\ created = 4 /\ created' = created
          /\ infoFence' = infoFence /\ misfits \subseteq misfits'
          /\ misfits' \subseteq misfits \cup {fenceValue + 1}
      BY <2>2 DEF Capture, SetUpDone
    <3> QED
      BY <3>1
  <2>3. CASE Publish
    BY <2>3 DEF Publish, Announced
  <2>4. CASE AccessLost \/ NullAcquire \/ Stop \/ CloseWindow
    <3>1. UNCHANGED <<created, fenceValue, infoFence, misfits>>
      BY <2>4 DEF AccessLost, NullAcquire, Stop, CloseWindow
    <3> QED
      BY <3>1
  <2> QED
    BY <2>1, <2>2, <2>3, <2>4 DEF Capturer
<1>4. TypeOK'
  <2>1. /\ texFence \in Nat /\ fenceValue \in Nat /\ texFence <= fenceValue
        /\ (writing => texFence < fenceValue)
    BY DEF Inv, TypeOK
  <2>2. texFence' <= fenceValue' /\ (writing' => texFence' < fenceValue')
    BY <1>1, <1>3, <2>1 DEF copier
  <2>3. /\ UNCHANGED <<texFence, content, writing, pc, opened, frameIndex, due, drawQ, reading, shown>>
    BY <1>1 DEF copier, drawing
  <2> QED
    BY <1>2, <1>3, <2>2, <2>3 DEF Inv, TypeOK
<1>5. DueCovers' /\ ReadsHead' /\ SizedWhenDrawn'
  BY <1>1 DEF Inv, FilledFirst, DueCovers, ReadsHead, SizedWhenDrawn, copier, drawing
<1>6. CopiedOrDropped'
  BY <1>1, <1>3 DEF Inv, CopiedOrDropped, copier
<1>7. WaitsForQueuedSignals'
  <2> SUFFICES ASSUME NEW n \in DOMAIN drawQ PROVE drawQ[n].latest <= fenceValue'
    BY <1>1 DEF Inv, WaitsForQueuedSignals, drawing
  <2>1. drawQ[n].latest <= fenceValue /\ drawQ[n].latest \in Nat /\ fenceValue \in Nat
    BY QueueEntry DEF Inv, WaitsForQueuedSignals, TypeOK, Submitted
  <2> QED
    BY <1>3, <2>1
<1> QED
  BY <1>3, <1>4, <1>5, <1>6, <1>7 DEF Inv, FilledFirst

\* The completed value of the shared fence only grows.
LEMMA CopierSteps ==
  ASSUME Inv, Copier
  PROVE  Inv'
<1>1. UNCHANGED <<setUp, frames, display, drawing>>
  BY DEF Copier, StartCopy, FinishCopy
<1>2. /\ texFence \in Nat /\ content \in Nat /\ fenceValue \in Nat /\ texFence <= fenceValue
      /\ writing \in BOOLEAN
  BY DEF Inv, TypeOK
<1>3. /\ texFence' \in Nat /\ content' \in Nat /\ texFence <= texFence'
      /\ texFence' <= fenceValue /\ writing' \in BOOLEAN /\ (writing' => texFence' < fenceValue)
  <2>1. CASE StartCopy
    BY <2>1, <1>2 DEF StartCopy
  <2>2. CASE FinishCopy
    <3>1. /\ texFence < fenceValue /\ texFence' = texFence + 1 /\ writing' = FALSE
          /\ content' = texFence + 1 \/ content' = content
      BY <2>2 DEF FinishCopy
    <3>2. texFence' \in Nat /\ content' \in Nat /\ texFence <= texFence' /\ texFence' <= fenceValue
      BY <1>2, <3>1
    <3> QED
      BY <3>1, <3>2
  <2> QED
    BY <2>1, <2>2 DEF Copier
<1>4. CopiedOrDropped'
  <2>1. CASE StartCopy
    BY <1>1, <2>1 DEF StartCopy, Inv, CopiedOrDropped, frames
  <2>2. CASE FinishCopy
    <3>1. /\ texFence' = texFence + 1 /\ misfits' = misfits
          /\ \/ writing /\ content' = texFence + 1
             \/ texFence + 1 \in misfits /\ content' = content
      BY <1>1, <2>2 DEF FinishCopy, frames
    <3> QED
      BY <1>2, <3>1 DEF Inv, CopiedOrDropped
  <2> QED
    BY <2>1, <2>2 DEF Copier
<1>5. TypeOK'
  BY <1>1, <1>3 DEF Inv, TypeOK, setUp, frames, display, drawing
<1>6. DueCovers' /\ SizedWhenDrawn' /\ WaitsForQueuedSignals'
  BY <1>1 DEF Inv, FilledFirst, DueCovers, SizedWhenDrawn, WaitsForQueuedSignals, drawing, frames
<1>7. ReadsHead'
  <2> SUFFICES ASSUME reading, drawQ # <<>> PROVE texFence' >= Head(drawQ).latest
    BY <1>1 DEF Inv, ReadsHead, drawing
  <2>1. Head(drawQ).latest \in Nat
    <3>1. drawQ \in Seq(Submitted)
      BY DEF Inv, TypeOK, Submitted
    <3>2. Head(drawQ) \in Submitted
      BY <3>1, HeadAndTail
    <3> QED
      BY <3>2 DEF Submitted
  <2>2. texFence >= Head(drawQ).latest
    BY DEF Inv, ReadsHead
  <2> QED
    BY <1>2, <1>3, <2>1, <2>2
<1> QED
  BY <1>1, <1>4, <1>5, <1>6, <1>7 DEF Inv, FilledFirst, setUp, frames

\* A new frame goes behind the others and takes a buffer none of them uses.
LEMMA DrawFrameStep ==
  ASSUME Inv, DrawFrame
  PROVE  Inv'
<1> DEFINE e == [buffer |-> frameIndex, latest |-> infoFence, sized |-> created = 4]
<1>1. /\ drawQ' = Append(drawQ, e)
      /\ due' = [due EXCEPT ![frameIndex] = Len(drawQ) + 1]
      /\ frameIndex' = (frameIndex + 1) % NumBuffers
      /\ due[frameIndex] = 0 /\ pc' = "loop"
      /\ UNCHANGED <<setUp, frames, copier, opened, quit, reading, shown>>
  BY DEF DrawFrame, FenceDue
<1>2. /\ drawQ \in Seq(Submitted) /\ e \in Submitted
      /\ due \in [Buffers -> Nat] /\ frameIndex \in Buffers
  BY DEF Inv, TypeOK, Submitted
<1>3. e.buffer = frameIndex /\ (e.latest > 0 => e.sized)
  <2>1. infoFence > 0 => created = 4
    BY DEF Inv, TypeOK, FilledFirst
  <2>2. e.buffer = frameIndex /\ e.latest = infoFence /\ e.sized = (created = 4)
    OBVIOUS
  <2> HIDE DEF e
  <2> QED
    BY <2>1, <2>2
<1> HIDE DEF e
<1>4. /\ drawQ' \in Seq(Submitted) /\ drawQ' # <<>>
      /\ DOMAIN drawQ' = 1 .. Len(drawQ) + 1 /\ DOMAIN drawQ = 1 .. Len(drawQ)
      /\ Len(drawQ) \in Nat
      /\ \A n \in DOMAIN drawQ : drawQ'[n] = drawQ[n]
      /\ drawQ'[Len(drawQ) + 1] = e
      /\ drawQ # <<>> => Head(drawQ') = Head(drawQ)
  BY <1>1, <1>2, Appended
<1>5. TypeOK'
  <2>1. drawQ' \in Seq([buffer : Buffers, latest : Nat, sized : BOOLEAN])
    BY <1>4 DEF Submitted
  <2>2. due' \in [Buffers -> Nat]
    BY <1>1, <1>2, <1>4
  <2>3. frameIndex' \in Buffers
    BY <1>1, <1>2, ScreenShareAssumption DEF Buffers
  <2> QED
    BY <1>1, <2>1, <2>2, <2>3 DEF Inv, TypeOK, setUp, frames, copier
<1>6. DueCovers'
  <2> SUFFICES ASSUME NEW n \in DOMAIN drawQ' PROVE due'[drawQ'[n].buffer] >= n
    BY DEF DueCovers
  <2>1. CASE n = Len(drawQ) + 1
    BY <1>1, <1>2, <1>3, <1>4, <2>1
  <2>2. CASE n \in DOMAIN drawQ
    <3>1. drawQ'[n] = drawQ[n] /\ due[drawQ[n].buffer] >= n
      BY <1>4, <2>2 DEF Inv, DueCovers
    <3>2. drawQ[n].buffer \in Buffers /\ n \in Nat \ {0}
      BY <1>2, <2>2, QueueEntry
    <3>3. drawQ[n].buffer # frameIndex
      BY <1>1, <3>1, <3>2
    <3> QED
      BY <1>1, <1>2, <3>1, <3>2, <3>3
  <2> QED
    BY <1>4, <2>1, <2>2
<1>7. SizedWhenDrawn'
  BY <1>3, <1>4 DEF Inv, FilledFirst, SizedWhenDrawn
<1>8. ReadsHead' /\ CopiedOrDropped'
  BY <1>1, <1>4 DEF Inv, ReadsHead, CopiedOrDropped, copier, frames
<1>9. WaitsForQueuedSignals'
  <2>1. Len(drawQ') = Len(drawQ) + 1
    BY <1>4
  <2>2. \A i \in Buffers : due'[i] <= Len(drawQ')
    BY <1>1, <1>2, <1>4, <2>1 DEF Inv, WaitsForQueuedSignals
  <2>3. e.latest <= fenceValue
    BY DEF Inv, TypeOK, e
  <2>4. \A n \in DOMAIN drawQ' : drawQ'[n].latest <= fenceValue
    BY <1>4, <2>3 DEF Inv, WaitsForQueuedSignals
  <2> QED
    BY <1>1, <2>2, <2>4 DEF WaitsForQueuedSignals, frames
<1> QED
  BY <1>1, <1>5, <1>6, <1>7, <1>8, <1>9 DEF Inv, FilledFirst, setUp, frames

LEMMA DisplayerSteps ==
  ASSUME Inv, Open \/ PeekMessages \/ Exit
  PROVE  Inv'
<1>1. /\ UNCHANGED <<setUp, frames, copier, quit, frameIndex, drawing>>
      /\ pc' \in {"open", "loop", "wait", "drain", "done"}
  BY DEF Open, PeekMessages, Exit
<1>2. opened' \in 0 .. 3 /\ (pc' = "open" => opened' < 3)
  <2>1. CASE Open
    <3>1. /\ opened \in 0 .. 3 /\ opened < 3 /\ opened' = opened + 1
          /\ pc' = IF opened' = 3 THEN "loop" ELSE "open"
      BY <2>1 DEF Open, Inv, TypeOK
    <3> QED
      BY <3>1
  <2>2. CASE PeekMessages \/ Exit
    BY <2>2 DEF PeekMessages, Exit, Inv, TypeOK
  <2> QED
    BY <2>1, <2>2
<1>3. TypeOK'
  BY <1>1, <1>2 DEF Inv, TypeOK, setUp, frames, copier, drawing
<1> QED
  BY <1>1, <1>3 DEF Inv, DueCovers, ReadsHead, CopiedOrDropped, FilledFirst, SizedWhenDrawn,
                    WaitsForQueuedSignals, setUp, frames, copier, drawing

LEMMA DrawerSteps ==
  ASSUME Inv, Drawer
  PROVE  Inv'
<1>1. CASE StartDraw
  <2>1. /\ drawQ # <<>> /\ texFence >= Head(drawQ).latest
        /\ reading' = TRUE /\ shown' = content
        /\ UNCHANGED <<setUp, frames, copier, display, due, drawQ>>
    BY <1>1 DEF StartDraw, FenceReached
  <2>2. TypeOK'
    BY <2>1 DEF Inv, TypeOK, setUp, frames, copier, display
  <2> QED
    BY <2>1, <2>2 DEF Inv, DueCovers, ReadsHead, CopiedOrDropped, FilledFirst, SizedWhenDrawn,
                      WaitsForQueuedSignals, setUp, frames, copier
<1>2. CASE FinishFrame
  <2>1. /\ drawQ # <<>> /\ drawQ' = Tail(drawQ) /\ reading' = FALSE
        /\ due' = [i \in Buffers |-> IF due[i] > 0 THEN due[i] - 1 ELSE 0]
        /\ UNCHANGED <<setUp, frames, copier, display, shown>>
    BY <1>2 DEF FinishFrame
  <2>2. drawQ \in Seq(Submitted) /\ due \in [Buffers -> Nat]
    BY DEF Inv, TypeOK, Submitted
  <2>3. /\ drawQ' \in Seq(Submitted)
        /\ \A n \in DOMAIN drawQ' :
             n \in Nat \ {0} /\ n + 1 \in DOMAIN drawQ /\ drawQ'[n] = drawQ[n + 1]
    BY <2>1, <2>2, HeadAndTail
  <2>4. TypeOK'
    <3>1. drawQ' \in Seq([buffer : Buffers, latest : Nat, sized : BOOLEAN])
      BY <2>3 DEF Submitted
    <3>2. due' \in [Buffers -> Nat]
      BY <2>1, <2>2
    <3> QED
      BY <2>1, <3>1, <3>2 DEF Inv, TypeOK, setUp, frames, copier, display
  <2>5. DueCovers'
    <3> SUFFICES ASSUME NEW n \in DOMAIN drawQ' PROVE due'[drawQ'[n].buffer] >= n
      BY DEF DueCovers
    <3>1. n \in Nat \ {0} /\ n + 1 \in DOMAIN drawQ /\ drawQ'[n] = drawQ[n + 1]
      BY <2>3
    <3>2. due[drawQ[n + 1].buffer] >= n + 1
      BY <3>1 DEF Inv, DueCovers
    <3>3. drawQ[n + 1].buffer \in Buffers
      BY <2>2, <3>1, QueueEntry
    <3> QED
      BY <2>1, <2>2, <3>1, <3>2, <3>3
  <2>6. SizedWhenDrawn'
    BY <2>3 DEF Inv, FilledFirst, SizedWhenDrawn
  <2>7. ReadsHead' /\ CopiedOrDropped'
    BY <2>1 DEF Inv, ReadsHead, CopiedOrDropped, frames, copier
  <2>8. WaitsForQueuedSignals'
    <3>1. Len(drawQ') = Len(drawQ) - 1 /\ Len(drawQ) \in Nat \ {0}
      BY <2>1, <2>2
    <3>2. \A i \in Buffers : due'[i] <= Len(drawQ')
      BY <2>1, <2>2, <3>1 DEF Inv, WaitsForQueuedSignals
    <3>3. \A n \in DOMAIN drawQ' : drawQ'[n].latest <= fenceValue
      BY <2>3 DEF Inv, WaitsForQueuedSignals
    <3> QED
      BY <2>1, <3>2, <3>3 DEF WaitsForQueuedSignals, frames
  <2> QED
    BY <2>1, <2>4, <2>5, <2>6, <2>7, <2>8 DEF Inv, FilledFirst, setUp, frames
<1> QED
  BY <1>1, <1>2 DEF Drawer

(***************************************************************************)
(* The conjunction of the six is inductive.                                *)
(***************************************************************************)
THEOREM Inductive == Spec => []Inv
<1>1. Inv /\ [Next]_vars => Inv'
  <2> SUFFICES ASSUME Inv, [Next]_vars PROVE Inv'
    OBVIOUS
  <2>1. CASE UNCHANGED vars
    BY <2>1 DEF vars, setUp, frames, copier, display, drawing, Inv, TypeOK, DueCovers, ReadsHead,
                CopiedOrDropped, FilledFirst, SizedWhenDrawn, WaitsForQueuedSignals
  <2> QED
    BY <2>1, CapturerSteps, CopierSteps, DrawFrameStep, DisplayerSteps, DrawerSteps
       DEF Next, Displayer
<1> QED
  BY <1>1, Starts, PTL DEF Spec

(***************************************************************************)
(* The counters keep their order and the queue its shape, in every state.  *)
(***************************************************************************)
THEOREM TypeCorrect == Spec => []TypeOK
<1>1. Inv => TypeOK
  BY DEF Inv
<1> QED
  BY <1>1, Inductive, PTL

(***************************************************************************)
(* Waiting for one fence value per buffer is enough to reset the           *)
(* allocator: whatever number of buffers, no submitted frame uses it.      *)
(***************************************************************************)
THEOREM AllocatorsSafe == Spec => []AllocatorIdleAtReset
<1>1. Inv => AllocatorIdleAtReset
  <2> SUFFICES ASSUME Inv, due[frameIndex] = 0, NEW n \in DOMAIN drawQ
               PROVE  drawQ[n].buffer # frameIndex
    BY DEF AllocatorIdleAtReset
  <2>1. drawQ \in Seq(Submitted)
    BY DEF Inv, TypeOK, Submitted
  <2>2. due[drawQ[n].buffer] >= n /\ n \in Nat \ {0}
    BY <2>1, QueueEntry DEF Inv, DueCovers
  <2> QED
    BY <2>2
<1> QED
  BY <1>1, Inductive, PTL

(***************************************************************************)
(* A draw never samples a texture older than the frame it was told of, but *)
(* for frames that CopyResource dropped.                                   *)
(***************************************************************************)
THEOREM ContractKept == Spec => []ReadsPublishedFrame
<1>1. Inv => ReadsPublishedFrame
  <2> SUFFICES ASSUME Inv, reading, NEW f \in content + 1 .. Head(drawQ).latest
               PROVE  f \in misfits
    BY DEF ReadsPublishedFrame
  <2>1. drawQ \in Seq(Submitted) /\ drawQ # <<>> /\ content \in Nat /\ texFence \in Nat
    BY DEF Inv, TypeOK, Submitted, ReadsHead
  <2>2. Head(drawQ).latest \in Nat
    <3>1. Head(drawQ) \in Submitted
      BY <2>1, HeadAndTail
    <3> QED
      BY <3>1 DEF Submitted
  <2>3. f \in content + 1 .. texFence
    BY <2>1, <2>2 DEF Inv, ReadsHead
  <2> QED
    BY <2>3 DEF Inv, CopiedOrDropped
<1> QED
  BY <1>1, Inductive, PTL

(***************************************************************************)
(* A consumer that attaches during the producer's set-up never draws with  *)
(* the zeros of a fresh mapping.                                           *)
(***************************************************************************)
THEOREM SizesKnown == Spec => []SizedWhenDrawn
<1>1. Inv => SizedWhenDrawn
  BY DEF Inv, FilledFirst
<1> QED
  BY <1>1, Inductive, PTL

(***************************************************************************)
(* Neither the queue nor the thread of screendisplay waits for a fence     *)
(* value that nothing queued will signal, whatever number of buffers, and  *)
(* whenever screencapture ends.                                            *)
(***************************************************************************)
THEOREM WaitsEnd == Spec => []WaitsForQueuedSignals
<1>1. Inv => WaitsForQueuedSignals
  BY DEF Inv
<1> QED
  BY <1>1, Inductive, PTL
=============================================================================
