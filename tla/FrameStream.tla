---------------------------- MODULE FrameStream ----------------------------
(***************************************************************************)
(* What the receiver promises its decoder, with no datagrams in sight:     *)
(* each step hands over some whole frames the sender encoded, no frame     *)
(* comes before `next`, and `next` never moves back, except that passing   *)
(* the last 32-bit frame id brings it round to 0.                          *)
(***************************************************************************)
EXTENDS Integers

CONSTANTS Frames,   \* the frames the sender encodes, each with its id
          IdMod

VARIABLES next,     \* the lowest id that may still be handed over
          shown     \* the frames the latest step handed over

Init == next = 0 /\ shown = {}

\* Hand over the frames of `shown'`, all from next .. limit - 1.
Show(limit) ==
  /\ next <= limit
  /\ shown' \subseteq {f \in Frames : next <= f.id /\ f.id < limit}
  /\ \A f, g \in shown' : f.id = g.id => f = g
  /\ next' = limit % IdMod

Next == \E limit \in 0 .. IdMod : Show(limit)

Spec == Init /\ [][Next]_<<next, shown>>
=============================================================================
