---------------------------- MODULE CropGeometry ----------------------------
(***************************************************************************)
(* Which part of a captured Chrome window is its page, and how much of it  *)
(* fits the shared texture (src/chromecapture/main.cpp:253-303, 675-679).  *)
(* A window is a record: the size w, h of its captured content; `page`,    *)
(* whether it has a render widget, at dx, dy (relative to the window's     *)
(* frame, so possibly negative) and dw by dh large; `caption`, whether it  *)
(* has one, and `top`, 88 pixels at its DPI.                               *)
(***************************************************************************)
EXTENDS Integers

Window == [w : Nat, h : Nat, page : BOOLEAN, dx : Int, dy : Int, dw : Nat, dh : Nat,
           caption : BOOLEAN, top : Nat]
Crop == [x : Nat, y : Nat, w : Nat, h : Nat]

\* Where the page starts on one axis, and how much of it the frame holds.
At(d) == IF d < 0 THEN 0 ELSE d

Visible(d, len, size) ==
  LET right == d + len
  IN  IF right > size THEN size - At(d) ELSE right - At(d)

ComputeCrop(win, size) ==
  LET dw == Visible(win.dx, win.dw, size.w)
      dh == Visible(win.dy, win.dh, size.h)
  IN  IF win.page /\ dw > 0 /\ dh > 0
      THEN [x |-> At(win.dx), y |-> At(win.dy), w |-> dw, h |-> dh]
      ELSE IF win.caption /\ win.top < size.h
      THEN [x |-> 0, y |-> win.top, w |-> size.w, h |-> size.h - win.top]
      ELSE [x |-> 0, y |-> 0, w |-> size.w, h |-> size.h]

\* applyCrop's first lines, one axis of them.
\* Slips: the offset is not counted; an offset beyond the texture is not seen.
Fits_Beyond(at, len, tex) == IF at + len > tex THEN tex - at ELSE len
Fits_NoOffset(at, len, tex) == IF at >= tex THEN 0 ELSE len
Fits(at, len, tex) ==
  IF at >= tex THEN 0 ELSE IF at + len > tex THEN tex - at ELSE len

Fit(crop, tex) ==
  [x |-> crop.x, y |-> crop.y,
   w |-> Fits(crop.x, crop.w, tex.w), h |-> Fits(crop.y, crop.h, tex.h)]
=============================================================================
