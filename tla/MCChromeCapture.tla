--------------------------- MODULE MCChromeCapture ---------------------------
(***************************************************************************)
(* chromecapture on a monitor of 6 by 4 (a pixel stands for a few hundred) *)
(***************************************************************************)
EXTENDS ChromeCapture

Layout(w, h, page, dx, dy, dw, dh, caption) ==
  [w |-> w, h |-> h, page |-> page, dx |-> dx, dy |-> dy, dw |-> dw, dh |-> dh,
   caption |-> caption, top |-> 1]

\* A page hanging out of its window on two sides, F11 fullscreen of that size, a
\* window on a larger monitor with its page half or wholly beyond the texture, and
\* one of size 0 without a render widget.
MCWindows ==
  { Layout(5, 3, TRUE, -1, 1, 7, 3, TRUE),
    Layout(5, 3, FALSE, 0, 0, 0, 0, FALSE),
    Layout(9, 6, TRUE,  1, 1, 8, 5, TRUE),
    Layout(9, 6, TRUE,  7, 1, 2, 5, TRUE),
    Layout(0, 0, FALSE, 0, 0, 0, 0, TRUE) }

MCMonitor == [w |-> 6, h |-> 4]
=============================================================================
