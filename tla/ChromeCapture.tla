--------------------------- MODULE ChromeCapture ---------------------------
(***************************************************************************)
(* chromecapture after its start-up (src/chromecapture/main.cpp:656-805):  *)
(* the callback that Windows.Graphics.Capture runs on a pool thread for    *)
(* each frame, the thread that draws the red border on a timer, and main,  *)
(* which waits, joins and tears down.  The user moves, resizes, minimises  *)
(* or closes Chrome at any moment; the callback reads the window's layout  *)
(* as it is then, not as it was in the frame it holds.                     *)
(***************************************************************************)
EXTENDS CropGeometry, Sequences

CONSTANTS Windows,     \* the layouts the user can bring Chrome's window into
          Monitor,     \* size of the monitor at start-up
          PoolFrames,  \* buffers of the frame pool: 2
          MaxChanges,  \* bound: how often the user changes the layout
          MaxFrames    \* bound: how many frames the compositor delivers

ASSUME ChromeCaptureAssumption ==
  /\ Windows \subseteq Window
  /\ Monitor \in [w : Nat \ {0}, h : Nat \ {0}]
  /\ PoolFrames \in Nat \ {0} /\ MaxChanges \in Nat /\ MaxFrames \in Nat

VARIABLES
  win, iconic, open,  \* Chrome's window: layout, minimised, still there
  changes, frames,    \* how many layout changes and frames there were
  running,            \* g_running
  mainPc,             \* "wait", "join", "close" or "done"
  tex,                \* size of the shared texture
  pool,               \* poolW, poolH: also the size of the pool's surfaces
  queue,              \* frames in the pool: content size and surface size
  pc,                 \* the callback
  surface,            \* size of the surface of the frame it has taken
  crop,               \* cropX .. cropH, clipped to the texture
  fenceValue, info,   \* SharedInfo: width, height, fenceValue
  copied,             \* the box that was copied for fenceValue
  overlayCrop,        \* OverlayCtx, under its mutex
  overlay, border     \* the overlay window, and where it was last put

chrome   == <<win, iconic, open, changes>>
capture  == <<frames, queue>>
callback == <<pc, surface, pool, crop, fenceValue, info, copied, overlayCrop>>
border_  == <<overlay, border>>
vars     == <<chrome, frames, running, mainPc, tex, queue, callback, border_>>

Size(r) == [w |-> r.w, h |-> r.h]

\* A size of 0 (a minimised window) is raised to 1; at start-up the client area's size
\* is taken instead, raised to 1 as well.
AtLeastOne(size) ==
  [w |-> IF size.w = 0 THEN 1 ELSE size.w, h |-> IF size.h = 0 THEN 1 ELSE size.h]

Larger(a, b) == IF a < b THEN b ELSE a

Init ==
  /\ win \in Windows /\ iconic = FALSE /\ open = TRUE
  /\ changes = 0 /\ frames = 0
  /\ running = TRUE /\ mainPc = "wait"
  /\ pool = AtLeastOne(Size(win))
  /\ crop = ComputeCrop(win, pool)
  /\ tex = [w |-> Larger(crop.w, Monitor.w), h |-> Larger(crop.h, Monitor.h)]
  /\ queue = <<>> /\ pc = "idle" /\ surface = pool
  /\ fenceValue = 0 /\ info = [w |-> crop.w, h |-> crop.h, fence |-> 0] /\ copied = crop
  /\ overlayCrop = crop
  /\ overlay \in {"shown", "gone"} /\ border = crop
-----------------------------------------------------------------------------
\* The user, and what Windows does about it.
ChangeLayout ==
  /\ open /\ changes < MaxChanges
  /\ changes' = changes + 1
  /\ win' \in Windows /\ iconic' \in BOOLEAN
  /\ UNCHANGED <<open, capture, running, mainPc, tex, callback, border_>>

CloseWindow ==
  /\ open
  /\ open' = FALSE
  /\ UNCHANGED <<win, iconic, changes, capture, running, mainPc, tex, callback, border_>>

CtrlC ==
  /\ running
  /\ running' = FALSE
  /\ UNCHANGED <<chrome, capture, mainPc, tex, callback, border_>>

\* The item's Closed event.
Closed ==
  /\ ~open /\ running
  /\ running' = FALSE
  /\ UNCHANGED <<chrome, capture, mainPc, tex, callback, border_>>

Deliver ==
  /\ open /\ mainPc \in {"wait", "join"}
  /\ frames < MaxFrames /\ Len(queue) < PoolFrames
  /\ frames' = frames + 1
  /\ queue' = Append(queue, [content |-> Size(win), surface |-> pool])
  /\ UNCHANGED <<chrome, running, mainPc, tex, callback, border_>>
-----------------------------------------------------------------------------
\* The FrameArrived callback.  Recreate drops what the pool still holds.
TakeFrame ==
  /\ pc = "idle" /\ queue # <<>> /\ mainPc \in {"wait", "join"}
  /\ surface' = Head(queue).surface
  /\ IF Head(queue).content # pool
     THEN /\ pool' = AtLeastOne(Head(queue).content)
          /\ queue' = <<>>
          /\ pc' = "resize"
     ELSE queue' = Tail(queue) /\ pc' = "steady" /\ UNCHANGED pool
  /\ UNCHANGED <<chrome, frames, running, mainPc, tex, crop, fenceValue, info, copied,
                 overlayCrop, border_>>

\* applyCrop of the crop just computed, on either path.
\* Slip: the overlay is not told.
OverlayTold_Never(new) == overlayCrop
OverlayTold(new) == new

\* The resize path returns.  Slip: it goes on to the copy.
AfterCrop_Copies == "copy"
AfterCrop == IF pc = "steady" THEN "copy" ELSE "idle"

ApplyCrop ==
  /\ pc \in {"resize", "steady"}
  /\ pc' = AfterCrop
  /\ crop' = Fit(ComputeCrop(win, pool), tex)
  /\ IF crop' = crop
     THEN UNCHANGED <<info, overlayCrop>>
     ELSE /\ info' = [info EXCEPT !.w = crop'.w, !.h = crop'.h]
          /\ overlayCrop' = OverlayTold(crop')
  /\ UNCHANGED <<chrome, capture, running, mainPc, tex, surface, pool, fenceValue, copied,
                 border_>>

Smaller(a, b) == IF a < b THEN a ELSE b

\* The box of the crop in the surface.
Box == [x |-> crop.x, y |-> crop.y,
        w |-> Smaller(crop.x + crop.w, surface.w) - crop.x,
        h |-> Smaller(crop.y + crop.h, surface.h) - crop.y]

\* Nothing is copied when the box is empty, nor, whatever the box, when the
\* surface does not give out its texture: GetInterface may fail at any time.
SkipCopy ==
  /\ pc = "copy"
  /\ pc' = "idle"
  /\ UNCHANGED <<chrome, capture, running, mainPc, tex, surface, pool, crop, fenceValue, info,
                 copied, overlayCrop, border_>>

Copy ==
  /\ pc = "copy" /\ Box.w > 0 /\ Box.h > 0
  /\ pc' = "publish"
  /\ copied' = Box
  /\ fenceValue' = fenceValue + 1
  /\ UNCHANGED <<chrome, capture, running, mainPc, tex, surface, pool, crop, info,
                 overlayCrop, border_>>

Publish ==
  /\ pc = "publish"
  /\ pc' = "idle"
  /\ info' = [info EXCEPT !.fence = fenceValue]
  /\ UNCHANGED <<chrome, capture, running, mainPc, tex, surface, pool, crop, fenceValue, copied,
                 overlayCrop, border_>>
-----------------------------------------------------------------------------
\* WM_TIMER.  Slip: a minimised window is looked at first.
TimerEnds_Iconic == ~iconic /\ (~running \/ ~open)
TimerEnds == ~running \/ ~open

Timer ==
  /\ overlay # "gone"
  /\ IF TimerEnds THEN overlay' = "gone" /\ UNCHANGED border
     ELSE IF iconic THEN overlay' = "hidden" /\ UNCHANGED border
     ELSE overlay' = "shown" /\ border' = overlayCrop
  /\ UNCHANGED <<chrome, capture, running, mainPc, tex, callback>>

\* main: while (g_running) Sleep(100), join, then close the session and the pool,
\* which ends the callbacks to come, and unmap.
StopWaiting ==
  /\ mainPc = "wait" /\ ~running
  /\ mainPc' = "join"
  /\ UNCHANGED <<chrome, capture, running, tex, callback, border_>>

Join ==
  /\ mainPc = "join" /\ overlay = "gone"
  /\ mainPc' = "close"
  /\ UNCHANGED <<chrome, capture, running, tex, callback, border_>>

Unmap ==
  /\ mainPc = "close"
  /\ mainPc' = "done"
  /\ UNCHANGED <<chrome, capture, running, tex, callback, border_>>

User     == ChangeLayout \/ CloseWindow \/ CtrlC
Callback == TakeFrame \/ ApplyCrop \/ SkipCopy \/ Copy \/ Publish
Main     == StopWaiting \/ Join \/ Unmap

\* Nothing runs on once the process has ended.
Next == mainPc # "done" /\ (User \/ Closed \/ Deliver \/ Callback \/ Timer \/ Main)

Fairness == WF_vars(mainPc # "done" /\ Closed) /\ WF_vars(mainPc # "done" /\ Timer)
              /\ WF_vars(Main)

Spec == Init /\ [][Next]_vars /\ Fairness
-----------------------------------------------------------------------------
\* Types.  A callback holds the frame it took until it is idle again.
TypeOK ==
  /\ win \in Window /\ iconic \in BOOLEAN /\ open \in BOOLEAN /\ running \in BOOLEAN
  /\ changes \in Nat /\ frames \in Nat
  /\ mainPc \in {"wait", "join", "close", "done"}
  /\ tex \in [w : Nat, h : Nat] /\ pool \in [w : Nat, h : Nat]
  /\ queue \in Seq([content : [w : Nat, h : Nat], surface : [w : Nat, h : Nat]])
  /\ surface \in [w : Nat, h : Nat]
  /\ pc \in {"idle", "resize", "steady", "copy", "publish"}
  /\ crop \in Crop /\ overlayCrop \in Crop /\ border \in Crop /\ copied \in Crop
  /\ fenceValue \in Nat /\ info \in [w : Nat, h : Nat, fence : Nat] /\ info.fence <= fenceValue
  /\ overlay \in {"shown", "hidden", "gone"}

\* CopySubresourceRegion stays inside the surface it reads and the texture it
\* writes, whatever layout the window had when the crop was computed.
CopyInBounds ==
  pc = "copy" /\ Box.w > 0 /\ Box.h > 0 =>
    /\ crop.x + Box.w <= surface.w /\ crop.y + Box.h <= surface.h
    /\ Box.w <= tex.w /\ Box.h <= tex.h

\* The size SharedInfo shows with a new fence value is that of the picture copied
\* for it: the resize path never lets an old surface out under a new size.
PublishesCopiedSize ==
  [][info'.fence # info.fence => Size(info') = Size(copied)]_vars

\* The border is put where the captured region is, again and again, while the
\* window is there to be framed.
BorderTracksCrop == []<>(overlay = "gone" \/ iconic \/ border = crop)

\* Once Ctrl+C is pressed or the window is closed, main gets to its end: the overlay
\* thread it joins always ends, also when Chrome is minimised or already gone.
ShutdownCompletes == ~running \/ ~open ~> mainPc = "done"
=============================================================================
