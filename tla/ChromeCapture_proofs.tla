------------------------ MODULE ChromeCapture_proofs ------------------------
(***************************************************************************)
(* For every window layout, monitor and pool size, and any number of       *)
(* layout changes: the crop chromecapture copies lies in the frame and     *)
(* fits the texture, and its size is the one published with its fence.     *)
(***************************************************************************)
EXTENDS ChromeCapture, TLAPS

Sizes == [w : Nat, h : Nat]

\* One axis of ComputeCrop: a page that is visible at all lies in the frame.
LEMMA VisibleInside ==
  ASSUME NEW d \in Int, NEW len \in Nat, NEW size \in Nat, Visible(d, len, size) > 0
  PROVE  /\ At(d) \in Nat /\ Visible(d, len, size) \in Nat
         /\ At(d) + Visible(d, len, size) <= size
  BY DEF At, Visible

\* The crop lies in the pool's surface, for any layout and any surface.
LEMMA CropInside ==
  ASSUME NEW window \in Window, NEW size \in Sizes
  PROVE  LET c == ComputeCrop(window, size)
         IN  c \in Crop /\ c.x + c.w <= size.w /\ c.y + c.h <= size.h
<1> DEFINE dw == Visible(window.dx, window.dw, size.w)
           dh == Visible(window.dy, window.dh, size.h)
<1>1. /\ window.dx \in Int /\ window.dy \in Int /\ window.dw \in Nat /\ window.dh \in Nat
      /\ window.top \in Nat /\ size.w \in Nat /\ size.h \in Nat
  BY DEF Window, Sizes
<1>2. CASE window.page /\ dw > 0 /\ dh > 0
  <2>1. ComputeCrop(window, size) =
          [x |-> At(window.dx), y |-> At(window.dy), w |-> dw, h |-> dh]
    BY <1>2 DEF ComputeCrop
  <2>2. /\ At(window.dx) \in Nat /\ dw \in Nat /\ At(window.dx) + dw <= size.w
        /\ At(window.dy) \in Nat /\ dh \in Nat /\ At(window.dy) + dh <= size.h
    BY <1>1, <1>2, VisibleInside
  <2> HIDE DEF dw, dh
  <2> QED
    BY <2>1, <2>2 DEF Crop
<1>3. CASE ~(window.page /\ dw > 0 /\ dh > 0)
  <2>1. ComputeCrop(window, size) =
          IF window.caption /\ window.top < size.h
          THEN [x |-> 0, y |-> window.top, w |-> size.w, h |-> size.h - window.top]
          ELSE [x |-> 0, y |-> 0, w |-> size.w, h |-> size.h]
    BY <1>3 DEF ComputeCrop
  <2> QED
    BY <1>1, <2>1 DEF Crop
<1> QED
  BY <1>2, <1>3

\* applyCrop only shrinks, until what is left fits the texture.
LEMMA FitShrinks ==
  ASSUME NEW c \in Crop, NEW t \in Sizes
  PROVE  /\ Fit(c, t) \in Crop
         /\ Fit(c, t).x = c.x /\ Fit(c, t).w <= c.w /\ Fit(c, t).w <= t.w
         /\ Fit(c, t).y = c.y /\ Fit(c, t).h <= c.h /\ Fit(c, t).h <= t.h
<1>1. /\ c.x \in Nat /\ c.y \in Nat /\ c.w \in Nat /\ c.h \in Nat
      /\ t.w \in Nat /\ t.h \in Nat
  BY DEF Crop, Sizes
<1>2. /\ Fits(c.x, c.w, t.w) \in Nat /\ Fits(c.x, c.w, t.w) <= c.w
      /\ Fits(c.x, c.w, t.w) <= t.w
      /\ Fits(c.y, c.h, t.h) \in Nat /\ Fits(c.y, c.h, t.h) <= c.h
      /\ Fits(c.y, c.h, t.h) <= t.h
  BY <1>1 DEF Fits
<1> QED
  BY <1>1, <1>2 DEF Fit, Crop

\* "The monitor the window is on is a safe upper bound" (main.cpp:571-572): of a
\* window no larger than the texture nothing is cut off.
THEOREM NothingCutOff ==
  ASSUME NEW window \in Window, NEW size \in Sizes, NEW t \in Sizes,
         size.w <= t.w, size.h <= t.h
  PROVE  Fit(ComputeCrop(window, size), t) = ComputeCrop(window, size)
<1> DEFINE c == ComputeCrop(window, size)
<1>1. c \in Crop /\ c.x + c.w <= size.w /\ c.y + c.h <= size.h
  BY CropInside
<1> HIDE DEF c
<1>2. /\ c.x \in Nat /\ c.y \in Nat /\ c.w \in Nat /\ c.h \in Nat
      /\ size.w \in Nat /\ size.h \in Nat /\ t.w \in Nat /\ t.h \in Nat
  BY <1>1 DEF Crop, Sizes
<1>3. Fits(c.x, c.w, t.w) = c.w /\ Fits(c.y, c.h, t.h) = c.h
  BY <1>1, <1>2 DEF Fits
<1>4. Fit(c, t) = c
  BY <1>1, <1>3 DEF Crop, Fit
<1> QED
  BY <1>4 DEF c
-----------------------------------------------------------------------------
\* Recreate drops the queue, so what is in the pool has the pool's size; between
\* applyCrop and Publish the crop is one of the surface in hand.
InHand ==
  /\ \A n \in DOMAIN queue : queue[n].surface = pool
  /\ Size(info) = Size(crop)
  /\ pc \in {"steady", "copy"} => surface = pool
  /\ pc = "copy" => /\ crop.x + crop.w <= surface.w /\ crop.y + crop.h <= surface.h
                    /\ crop.w <= tex.w /\ crop.h <= tex.h
  /\ pc = "publish" => Size(copied) = Size(crop)

Inv == TypeOK /\ InHand

LEMMA AtLeastOneIsSize == \A s \in Sizes : AtLeastOne(s) \in Sizes
  BY DEF AtLeastOne, Sizes

LEMMA BoxIsCrop ==
  ASSUME crop \in Crop, surface \in Sizes,
         crop.x + crop.w <= surface.w, crop.y + crop.h <= surface.h
  PROVE  Box = crop
<1>1. /\ crop.x \in Nat /\ crop.y \in Nat /\ crop.w \in Nat /\ crop.h \in Nat
      /\ surface.w \in Nat /\ surface.h \in Nat
  BY DEF Crop, Sizes
<1>2. /\ Smaller(crop.x + crop.w, surface.w) - crop.x = crop.w
      /\ Smaller(crop.y + crop.h, surface.h) - crop.y = crop.h
  BY <1>1 DEF Smaller
<1> QED
  BY <1>2 DEF Box, Crop

LEMMA Appended ==
  ASSUME NEW S, NEW q \in Seq(S), NEW e \in S
  PROVE  /\ Append(q, e) \in Seq(S)
         /\ \A n \in DOMAIN Append(q, e) :
              \/ Append(q, e)[n] = e
              \/ n \in DOMAIN q /\ Append(q, e)[n] = q[n]
  OBVIOUS

LEMMA HeadAndTail ==
  ASSUME NEW S, NEW q \in Seq(S), q # <<>>
  PROVE  /\ Head(q) \in S /\ Tail(q) \in Seq(S)
         /\ Head(q) = q[1] /\ 1 \in DOMAIN q
         /\ \A n \in DOMAIN Tail(q) : n + 1 \in DOMAIN q /\ Tail(q)[n] = q[n + 1]
  OBVIOUS

LEMMA Starts == Init => Inv
<1> SUFFICES ASSUME Init PROVE Inv
  OBVIOUS
<1>1. win \in Window /\ Size(win) \in Sizes
  BY ChromeCaptureAssumption DEF Init, Window, Size, Sizes
<1>2. pool \in Sizes
  BY <1>1, AtLeastOneIsSize DEF Init
<1>3. crop \in Crop
  BY <1>1, <1>2, CropInside DEF Init
<1>4. crop.w \in Nat /\ crop.h \in Nat /\ Monitor.w \in Nat /\ Monitor.h \in Nat
  BY <1>3, ChromeCaptureAssumption DEF Crop
<1>5. tex \in Sizes
  BY <1>4 DEF Init, Larger, Sizes
<1>6. info \in [w : Nat, h : Nat, fence : Nat] /\ info.fence = 0 /\ Size(info) = Size(crop)
  BY <1>4 DEF Init, Size
<1>7. TypeOK
  <2>1. queue \in Seq([content : [w : Nat, h : Nat], surface : [w : Nat, h : Nat]])
    BY DEF Init
  <2>2. /\ iconic = FALSE /\ open = TRUE /\ running = TRUE /\ mainPc = "wait"
        /\ changes = 0 /\ frames = 0 /\ fenceValue = 0 /\ pc = "idle" /\ surface = pool
        /\ overlayCrop = crop /\ border = crop /\ copied = crop /\ overlay \in {"shown", "gone"}
    BY DEF Init
  <2>3. iconic \in BOOLEAN /\ open \in BOOLEAN /\ running \in BOOLEAN
    BY <2>2
  <2>4. fenceValue \in Nat /\ info.fence <= fenceValue /\ changes \in Nat /\ frames \in Nat
    BY <1>6, <2>2
  <2>5. /\ overlayCrop \in Crop /\ border \in Crop /\ copied \in Crop /\ surface \in Sizes
        /\ overlay \in {"shown", "hidden", "gone"}
        /\ pc \in {"idle", "resize", "steady", "copy", "publish"}
        /\ mainPc \in {"wait", "join", "close", "done"}
    BY <1>2, <1>3, <2>2
  <2> QED
    BY <1>1, <1>2, <1>3, <1>5, <1>6, <2>1, <2>3, <2>4, <2>5, Zenon DEF TypeOK, Sizes
<1>8. queue = <<>> /\ pc = "idle"
  BY DEF Init
<1>9. InHand
  BY <1>6, <1>8 DEF InHand
<1> QED
  BY <1>7, <1>9 DEF Inv

\* Steps of the user, the timer and main do not touch what the callback uses.
LEMMA OthersKeep ==
  ASSUME Inv, User \/ Closed \/ Timer \/ Main
  PROVE  Inv'
<1>1. UNCHANGED <<capture, tex, callback>>
  BY DEF User, ChangeLayout, CloseWindow, CtrlC, Closed, Timer, Main, StopWaiting, Join, Unmap
<1>2. InHand'
  BY <1>1 DEF Inv, InHand, capture, callback
<1>3. /\ win' \in Window /\ iconic' \in BOOLEAN /\ open' \in BOOLEAN /\ changes' \in Nat
      /\ running' \in BOOLEAN /\ mainPc' \in {"wait", "join", "close", "done"}
      /\ border' \in Crop /\ overlay' \in {"shown", "hidden", "gone"}
  <2> USE DEF Inv, TypeOK, chrome, border_
  <2>1. CASE ChangeLayout
    BY <2>1, ChromeCaptureAssumption DEF ChangeLayout
  <2>2. CASE CloseWindow
    BY <2>2 DEF CloseWindow
  <2>3. CASE CtrlC \/ Closed
    BY <2>3 DEF CtrlC, Closed
  <2>4. CASE Timer
    BY <2>4 DEF Timer
  <2>5. CASE Main
    BY <2>5 DEF Main, StopWaiting, Join, Unmap
  <2> QED
    BY <2>1, <2>2, <2>3, <2>4, <2>5 DEF User
<1> QED
  BY <1>1, <1>2, <1>3 DEF Inv, TypeOK, capture, callback

LEMMA DeliverKeeps == ASSUME Inv, Deliver PROVE Inv'
<1> USE DEF Inv
<1> DEFINE Entry == [content : [w : Nat, h : Nat], surface : [w : Nat, h : Nat]]
           entry == [content |-> Size(win), surface |-> pool]
<1>1. /\ queue' = Append(queue, entry) /\ frames' = frames + 1
      /\ UNCHANGED <<chrome, running, mainPc, tex, callback, border_>>
  BY DEF Deliver
<1>2. queue \in Seq(Entry) /\ entry \in Entry
  BY DEF TypeOK, Size, Window
<1> HIDE DEF Entry
<1>3. /\ queue' \in Seq(Entry)
      /\ \A n \in DOMAIN queue' :
           \/ queue'[n] = entry
           \/ n \in DOMAIN queue /\ queue'[n] = queue[n]
  BY <1>1, <1>2, Appended
<1>4. \A n \in DOMAIN queue' : queue'[n].surface = pool
  BY <1>3 DEF InHand
<1>5. TypeOK'
  <2>1. queue' \in Seq([content : [w : Nat, h : Nat], surface : [w : Nat, h : Nat]])
    BY <1>3 DEF Entry
  <2> QED
    BY <1>1, <2>1 DEF TypeOK, chrome, callback, border_
<1>6. Size(info)' = Size(crop)' /\ Size(copied)' = Size(copied)
  BY <1>1 DEF callback, InHand, Size
<1>7. InHand'
  BY <1>1, <1>4, <1>6 DEF InHand, callback
<1> QED
  BY <1>5, <1>7

LEMMA TakeFrameKeeps == ASSUME Inv, TakeFrame PROVE Inv'
<1> USE DEF Inv
<1> DEFINE Entry == [content : [w : Nat, h : Nat], surface : [w : Nat, h : Nat]]
<1>1. /\ queue # <<>> /\ surface' = Head(queue).surface
      /\ \/ /\ pool' = AtLeastOne(Head(queue).content) /\ queue' = <<>> /\ pc' = "resize"
         \/ pool' = pool /\ queue' = Tail(queue) /\ pc' = "steady"
      /\ UNCHANGED <<chrome, frames, running, mainPc, tex, crop, fenceValue, info, copied,
                     overlayCrop, border_>>
  BY DEF TakeFrame
<1>2. queue \in Seq(Entry)
  BY DEF TypeOK
<1>3. /\ Head(queue) \in Entry /\ Tail(queue) \in Seq(Entry)
      /\ Head(queue) = queue[1] /\ 1 \in DOMAIN queue
      /\ \A n \in DOMAIN Tail(queue) : n + 1 \in DOMAIN queue /\ Tail(queue)[n] = queue[n + 1]
  <2> HIDE DEF Entry
  <2> QED
    BY <1>1, <1>2, HeadAndTail
<1>4. Head(queue).content \in Sizes /\ Head(queue).surface \in Sizes
  BY <1>3 DEF Sizes
<1>5. pool' \in Sizes /\ surface' \in Sizes
  BY <1>1, <1>4, AtLeastOneIsSize DEF TypeOK, Sizes
<1>6. queue' \in Seq(Entry)
  <2> HIDE DEF Entry
  <2>1. <<>> \in Seq(Entry)
    OBVIOUS
  <2> QED
    BY <2>1, <1>1, <1>3
<1>7. pc' \in {"resize", "steady"}
  BY <1>1
<1>8. TypeOK'
  <2>1. queue' \in Seq([content : [w : Nat, h : Nat], surface : [w : Nat, h : Nat]])
    BY <1>6
  <2> HIDE DEF Entry
  <2> QED
    BY <1>1, <1>5, <1>7, <2>1 DEF TypeOK, Sizes, chrome, border_
<1>9. \A n \in DOMAIN queue' : queue'[n].surface = pool'
  <2>1. CASE queue' = <<>>
    BY <2>1
  <2>2. CASE pool' = pool /\ queue' = Tail(queue)
    <3>1. \A n \in DOMAIN queue : queue[n].surface = pool
      BY DEF InHand
    <3>2. \A n \in DOMAIN Tail(queue) : Tail(queue)[n].surface = pool
      BY <1>3, <3>1
    <3> QED
      BY <2>2, <3>2
  <2> QED
    BY <1>1, <2>1, <2>2
<1>10. surface' = pool
  BY <1>1, <1>3 DEF InHand
<1> QED
  BY <1>1, <1>8, <1>9, <1>10 DEF InHand

LEMMA ApplyCropKeeps == ASSUME Inv, ApplyCrop PROVE Inv'
<1> USE DEF Inv
<1>1. /\ pc \in {"resize", "steady"} /\ pc' = IF pc = "steady" THEN "copy" ELSE "idle"
      /\ crop' = Fit(ComputeCrop(win, pool), tex)
      /\ \/ crop' = crop /\ info' = info /\ overlayCrop' = overlayCrop
         \/ info' = [info EXCEPT !.w = crop'.w, !.h = crop'.h] /\ overlayCrop' = crop'
      /\ UNCHANGED <<chrome, capture, running, mainPc, tex, surface, pool, fenceValue, copied,
                     border_>>
  BY DEF ApplyCrop, AfterCrop, OverlayTold
<1>2. pool \in Sizes /\ tex \in Sizes /\ win \in Window
  BY DEF TypeOK, Sizes
<1> DEFINE c == ComputeCrop(win, pool)
<1>3. c \in Crop /\ c.x + c.w <= pool.w /\ c.y + c.h <= pool.h
  BY <1>2, CropInside
<1> HIDE DEF c
<1>4. /\ crop' \in Crop /\ crop'.x = c.x /\ crop'.y = c.y /\ crop'.w <= c.w /\ crop'.h <= c.h
      /\ crop'.w <= tex.w /\ crop'.h <= tex.h
  BY <1>1, <1>2, <1>3, FitShrinks DEF c
<1>5. crop'.x + crop'.w <= pool.w /\ crop'.y + crop'.h <= pool.h
  BY <1>2, <1>3, <1>4 DEF Crop, Sizes
<1>6. /\ info' \in [w : Nat, h : Nat, fence : Nat] /\ info'.fence = info.fence
      /\ Size(info') = Size(crop')
  BY <1>1, <1>4 DEF TypeOK, InHand, Size, Crop
<1>7. TypeOK'
  BY <1>1, <1>4, <1>6 DEF TypeOK, chrome, capture, border_
<1>8. Size(info)' = Size(crop)'
  BY <1>6 DEF Size
<1> QED
  BY <1>1, <1>4, <1>5, <1>7, <1>8 DEF InHand, capture

LEMMA CopyKeeps == ASSUME Inv, SkipCopy \/ Copy \/ Publish PROVE Inv'
<1> USE DEF Inv
<1>1. UNCHANGED <<chrome, capture, running, mainPc, tex, surface, pool, crop, overlayCrop, border_>>
  BY DEF SkipCopy, Copy, Publish
<1>2. CASE SkipCopy
  <2>1. pc' = "idle" /\ UNCHANGED <<fenceValue, info, copied>>
    BY <1>2 DEF SkipCopy
  <2> QED
    BY <1>1, <2>1 DEF TypeOK, InHand, chrome, capture, border_, Size
<1>3. CASE Copy
  <2>1. /\ pc = "copy" /\ pc' = "publish" /\ copied' = Box
        /\ fenceValue' = fenceValue + 1 /\ info' = info
    BY <1>3 DEF Copy
  <2>2. copied' = crop
    BY <2>1, BoxIsCrop DEF TypeOK, InHand, Sizes
  <2> QED
    BY <1>1, <2>1, <2>2 DEF TypeOK, InHand, chrome, capture, border_, Size
<1>4. CASE Publish
  <2>1. /\ pc = "publish" /\ pc' = "idle" /\ info' = [info EXCEPT !.fence = fenceValue]
        /\ UNCHANGED <<fenceValue, copied>>
    BY <1>4 DEF Publish
  <2>2. /\ info' \in [w : Nat, h : Nat, fence : Nat] /\ info'.fence = fenceValue
        /\ Size(info)' = Size(info)
    BY <2>1 DEF TypeOK, Size
  <2> QED
    BY <1>1, <2>1, <2>2 DEF TypeOK, InHand, chrome, capture, border_, Size
<1> QED
  BY <1>2, <1>3, <1>4

THEOREM Invariance == Spec => []Inv
<1>1. Inv /\ [Next]_vars => Inv'
  <2> SUFFICES ASSUME Inv, [Next]_vars PROVE Inv'
    OBVIOUS
  <2>1. CASE Next
    BY <2>1, OthersKeep, DeliverKeeps, TakeFrameKeeps, ApplyCropKeeps, CopyKeeps
       DEF Next, Callback
  <2>2. CASE UNCHANGED vars
    BY <2>2 DEF vars, chrome, callback, border_, Inv, TypeOK, InHand, Size
  <2> QED
    BY <2>1, <2>2
<1> QED
  BY Starts, <1>1, PTL DEF Spec

\* Types, for any layouts, monitor and pool.
THEOREM TypeCorrect == Spec => []TypeOK
BY Invariance, PTL DEF Inv

\* The box copied lies in its surface and fits the texture, although the layout may
\* change between the frame and the crop.
THEOREM CopiesInBounds == Spec => []CopyInBounds
<1>1. Inv => CopyInBounds
  BY BoxIsCrop DEF Inv, TypeOK, InHand, CopyInBounds, Sizes
<1> QED
  BY Invariance, <1>1, PTL

\* A new fence value is published together with the size that was copied for it.
THEOREM SizesPublished == Spec => PublishesCopiedSize
<1> DEFINE A == info'.fence # info.fence => Size(info') = Size(copied)
<1>1. ASSUME Inv, Next PROVE A
  <2>1. CASE Publish
    <3>1. pc = "publish" /\ info' = [info EXCEPT !.fence = fenceValue]
      BY <2>1 DEF Publish
    <3>2. info'.w = info.w /\ info'.h = info.h
      BY <3>1, <1>1 DEF Inv, TypeOK
    <3>3. Size(info) = Size(copied)
      BY <3>1, <1>1 DEF Inv, InHand
    <3> QED
      BY <3>2, <3>3 DEF Size
  <2>2. CASE ApplyCrop
    <3>1. info' = info \/ info' = [info EXCEPT !.w = crop'.w, !.h = crop'.h]
      BY <2>2 DEF ApplyCrop
    <3>2. info'.fence = info.fence
      BY <3>1, <1>1 DEF Inv, TypeOK
    <3> QED
      BY <3>2
  <2>3. CASE ~Publish /\ ~ApplyCrop
    <3>1. info' = info
      BY <2>3, <1>1 DEF Next, User, ChangeLayout, CloseWindow, CtrlC, Closed, Deliver, Callback,
         TakeFrame, SkipCopy, Copy, Timer, Main, StopWaiting, Join, Unmap, callback
    <3> QED
      BY <3>1
  <2> QED
    BY <2>1, <2>2, <2>3
<1>2. Inv /\ [Next]_vars => [A]_vars
  BY <1>1
<1> QED
  BY Invariance, <1>2, PTL DEF Spec, PublishesCopiedSize
=============================================================================
