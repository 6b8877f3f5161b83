----------------------------- MODULE ScreenShare -----------------------------
(***************************************************************************)
(* The shared-texture contract on one machine, from both programs' start   *)
(* to their end.  screencapture names a texture, a fence and a mapping,    *)
(* copies each desktop frame into the texture and publishes its fence      *)
(* value (src/screencapture/main.cpp:179-268).  screendisplay opens the    *)
(* three, then waits for the fence on its own queue and draws the texture, *)
(* at most NumBuffers frames ahead of its GPU, until its window is closed  *)
(* (src/screendisplay/main.cpp:306-457).  Each program is a CPU thread and *)
(* a GPU queue, and the consumer tells the producer nothing.               *)
(***************************************************************************)
EXTENDS Integers, Sequences

CONSTANTS NumBuffers,  \* kFrameCount: 2
          MaxFrames    \* bound: how many frames the desktop delivers

ASSUME ScreenShareAssumption ==
  /\ NumBuffers \in Nat \ {0}
  /\ MaxFrames \in Nat

VARIABLES
  alive,        \* screencapture still runs
  created,      \* its set-up: 1 texture, 2 fence, 3 mapping named, 4 mapping filled
  duplication,  \* its duplication pointer is not null
  fits,         \* the desktop still has the size of the shared texture
  fenceValue,   \* frames whose copy and Signal are queued
  misfits,      \* those of them that had another size: CopyResource drops them
  infoFence,    \* SharedInfo.fenceValue
  texFence,     \* completed value of the shared fence
  writing,      \* the producer's GPU is copying frame texFence + 1
  content,      \* the desktop frame that the texture last received whole
  pc,           \* screendisplay: "open", "loop", "wait", "drain" or "done"
  opened,       \* how many of the three named objects it has opened
  quit,         \* its window was closed: WM_QUIT is in the message queue
  frameIndex,   \* the back buffer and allocator of this iteration
  due,          \* perFrameVal[i] less frameFence's completed value, or 0
  drawQ,        \* submitted frames not finished: buffer, `latest`, size known
  reading,      \* the consumer's GPU is sampling the texture for Head(drawQ)
  shown         \* the oldest frame that the last finished draw can show

setUp    == <<alive, created, duplication, fits>>
frames   == <<fenceValue, misfits, infoFence>>
copier   == <<texFence, writing, content>>
display  == <<pc, opened, quit, frameIndex>>
drawing  == <<due, drawQ, reading, shown>>
vars     == <<setUp, frames, copier, display, drawing>>

Buffers == 0 .. NumBuffers - 1

Init ==
  /\ alive = TRUE /\ created = 0 /\ duplication = TRUE /\ fits = TRUE
  /\ fenceValue = 0 /\ misfits = {} /\ infoFence = 0
  /\ texFence = 0 /\ writing = FALSE /\ content = 0
  /\ pc = "open" /\ opened = 0 /\ quit = FALSE /\ frameIndex = 0
  /\ due = [i \in Buffers |-> 0] /\ drawQ = <<>> /\ reading = FALSE /\ shown = 0
-----------------------------------------------------------------------------
\* screencapture, CPU.  A new mapping is zero-filled until step 4.
SetUp ==
  /\ alive /\ created < 4
  /\ created' = created + 1
  /\ UNCHANGED <<alive, duplication, fits, frames, copier, display, drawing>>

\* Slip: the mapping is filled after the first frames.
SetUpDone_Early == created >= 3
SetUpDone == created = 4

\* AcquireNextFrame timing out changes nothing.
Capture ==
  /\ alive /\ SetUpDone /\ duplication /\ fenceValue = infoFence
  /\ fenceValue < MaxFrames
  /\ fenceValue' = fenceValue + 1
  /\ misfits' = IF fits THEN misfits ELSE misfits \cup {fenceValue + 1}
  /\ UNCHANGED <<setUp, infoFence, copier, display, drawing>>

\* Slip: the next value is announced, before its copy is queued.
Announced_Next == fenceValue + 1
Announced == fenceValue

Publish ==
  /\ alive /\ infoFence < fenceValue
  /\ infoFence' = Announced
  /\ UNCHANGED <<setUp, fenceValue, misfits, copier, display, drawing>>

\* ACCESS_LOST, as after a change of the display mode: the duplication is reset,
\* and made again if that succeeds; the texture and its size stay as they are.
AccessLost ==
  /\ alive /\ SetUpDone /\ duplication /\ fenceValue = infoFence
  /\ duplication' \in BOOLEAN /\ fits' \in BOOLEAN
  /\ UNCHANGED <<alive, created, frames, copier, display, drawing>>

\* The next iteration calls AcquireNextFrame through the null pointer.
NullAcquire ==
  /\ alive /\ ~duplication
  /\ alive' = FALSE
  /\ UNCHANGED <<created, duplication, fits, frames, copier, display, drawing>>

\* Ctrl+C, another error of AcquireNextFrame, or one in the set-up; what was
\* flushed to the GPU is still done.
Stop ==
  /\ alive /\ duplication /\ fenceValue = infoFence
  /\ alive' = FALSE
  /\ UNCHANGED <<created, duplication, fits, frames, copier, display, drawing>>

\* screencapture, GPU: CopyResource and the Signal behind it.
StartCopy ==
  /\ ~writing /\ texFence < fenceValue /\ texFence + 1 \notin misfits
  /\ writing' = TRUE
  /\ UNCHANGED <<setUp, frames, texFence, content, display, drawing>>

FinishCopy ==
  /\ texFence < fenceValue /\ (writing \/ texFence + 1 \in misfits)
  /\ writing' = FALSE
  /\ texFence' = texFence + 1
  /\ content' = IF writing THEN texFence + 1 ELSE content
  /\ UNCHANGED <<setUp, frames, display, drawing>>
-----------------------------------------------------------------------------
\* screendisplay, CPU.  Each object is polled for until it is there.
Open ==
  /\ pc = "open" /\ alive /\ opened < created
  /\ opened' = opened + 1
  /\ pc' = IF opened' = 3 THEN "loop" ELSE "open"
  /\ UNCHANGED <<setUp, frames, copier, quit, frameIndex, drawing>>

CloseWindow ==
  /\ ~quit
  /\ quit' = TRUE
  /\ UNCHANGED <<setUp, frames, copier, pc, opened, frameIndex, drawing>>

PeekMessages ==
  /\ pc = "loop"
  /\ pc' = IF quit THEN "drain" ELSE "wait"
  /\ UNCHANGED <<setUp, frames, copier, opened, quit, frameIndex, drawing>>

\* perFrameVal[frameIndex] = ++frameFenceVal, seen from the completed value.
\* Slips: the value of the frame before, or of the next, which may never be drawn.
FenceDue_Early == Len(drawQ)
FenceDue_Late == Len(drawQ) + 2
FenceDue == Len(drawQ) + 1

\* The rest of the iteration, from the wait for its back buffer on.
DrawFrame ==
  /\ pc = "wait" /\ due[frameIndex] = 0
  /\ pc' = "loop"
  /\ drawQ' = Append(drawQ, [buffer |-> frameIndex, latest |-> infoFence,
                             sized |-> created = 4])
  /\ due' = [due EXCEPT ![frameIndex] = FenceDue]
  /\ frameIndex' = (frameIndex + 1) % NumBuffers
  /\ UNCHANGED <<setUp, frames, copier, opened, quit, reading, shown>>

\* The drain: a last Signal, which comes behind every frame.
Exit ==
  /\ pc = "drain" /\ drawQ = <<>>
  /\ pc' = "done"
  /\ UNCHANGED <<setUp, frames, copier, opened, quit, frameIndex, drawing>>

\* screendisplay, GPU: the queue's Wait; nothing is waited for, or drawn, before a
\* first frame.  Slips: the queue does not wait, or waits for the next value.
FenceReached_NoWait(latest) == TRUE
FenceReached_Next(latest) == texFence >= latest + 1
FenceReached(latest) == texFence >= latest

StartDraw ==
  /\ drawQ # <<>> /\ ~reading
  /\ Head(drawQ).latest > 0
  /\ FenceReached(Head(drawQ).latest)
  /\ reading' = TRUE
  /\ shown' = content
  /\ UNCHANGED <<setUp, frames, copier, display, due, drawQ>>

\* Draw (or only the clear), Present and Signal are done.
FinishFrame ==
  /\ drawQ # <<>>
  /\ reading \/ Head(drawQ).latest = 0
  /\ reading' = FALSE
  /\ drawQ' = Tail(drawQ)
  /\ due' = [i \in Buffers |-> IF due[i] > 0 THEN due[i] - 1 ELSE 0]
  /\ UNCHANGED <<setUp, frames, copier, display, shown>>

Capturer  == SetUp \/ Capture \/ Publish \/ AccessLost \/ NullAcquire \/ Stop
Copier    == StartCopy \/ FinishCopy
Displayer == Open \/ PeekMessages \/ DrawFrame \/ Exit
Drawer    == StartDraw \/ FinishFrame

Next == Capturer \/ Copier \/ CloseWindow \/ Displayer \/ Drawer

\* Both GPUs work through their queues and screendisplay's thread runs; the
\* desktop may stay as it is.
Fairness == WF_vars(Copier) /\ WF_vars(Displayer) /\ WF_vars(Drawer)

Spec == Init /\ [][Next]_vars /\ Fairness
-----------------------------------------------------------------------------
\* Types, and the order of the counters on either side.
TypeOK ==
  /\ alive \in BOOLEAN /\ created \in 0 .. 4
  /\ duplication \in BOOLEAN /\ fits \in BOOLEAN
  /\ fenceValue \in Nat /\ infoFence \in Nat /\ texFence \in Nat /\ content \in Nat
  /\ infoFence <= fenceValue /\ texFence <= fenceValue
  /\ misfits \subseteq 1 .. fenceValue
  /\ writing \in BOOLEAN /\ (writing => texFence < fenceValue)
  /\ pc \in {"open", "loop", "wait", "drain", "done"}
  /\ opened \in 0 .. 3 /\ (pc = "open" => opened < 3) /\ quit \in BOOLEAN
  /\ frameIndex \in Buffers /\ due \in [Buffers -> Nat]
  /\ drawQ \in Seq([buffer : Buffers, latest : Nat, sized : BOOLEAN])
  /\ reading \in BOOLEAN /\ shown \in Nat

\* cmdAlloc[frameIndex]->Reset() (line 392) comes after a wait for one fence
\* value only, yet no submitted frame still uses that allocator or back buffer.
AllocatorIdleAtReset ==
  due[frameIndex] = 0 => \A n \in DOMAIN drawQ : drawQ[n].buffer # frameIndex

\* "Consumer waits for fence >= last seen fenceValue before reading"
\* (screencapture/main.cpp:12): the texture a draw samples is that of the frame it
\* was told of or a newer one, except that frames captured after a change of the
\* display mode leave the one before them in the texture.
ReadsPublishedFrame ==
  reading => \A f \in content + 1 .. Head(drawQ).latest : f \in misfits

\* A consumer that attaches while the mapping is still zero-filled draws nothing
\* before it holds the size to sample with.
SizedWhenDrawn == \A n \in DOMAIN drawQ : drawQ[n].latest > 0 => drawQ[n].sized

\* What either waits for is bound to come, even if screencapture dies at once: the
\* queue waits for a value whose Signal the producer has queued already, and the
\* thread for a back buffer that a submitted frame still gives back.
WaitsForQueuedSignals ==
  /\ \A n \in DOMAIN drawQ : drawQ[n].latest <= fenceValue
  /\ \A i \in Buffers : due[i] <= Len(drawQ)

\* Each published frame that fits, or one after it, is drawn, unless the window is
\* closed or screencapture ends before screendisplay has attached: neither queue
\* waits for a value that nobody signals, even if screencapture dies.
EveryPublishShown ==
  \A v \in 1 .. MaxFrames :
    infoFence = v ~> \/ shown >= v \/ v \in misfits
                     \/ quit \/ (pc = "open" /\ ~alive)

\* Once attached, screendisplay can be closed: neither its wait for a back buffer
\* nor the drain lasts for ever, whatever became of screencapture.
DisplayExits == quit /\ pc # "open" ~> pc = "done"

\* "we only sample a frame that has finished being written"
\* (screendisplay/main.cpp:384-385): no draw overlaps a copy.
NoTear == ~(reading /\ writing)
=============================================================================
