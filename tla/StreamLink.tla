----------------------------- MODULE StreamLink -----------------------------
(***************************************************************************)
(* streamsender, the UDP path and streamreceiver together.  The sender is  *)
(* its frame loop from forceIdr on (src/streamsender/main.cpp:336-378),    *)
(* one action per EncodeFrame and per sendto; the receiver is Reassembly,  *)
(* one action per datagram.  The path delivers in order unless Overtake    *)
(* allows a datagram to pass some before it; everything else that goes     *)
(* wrong is a fault, of the kinds and up to the number a model allows.     *)
(***************************************************************************)
EXTENDS StreamNet, Sequences, SequencesExt

CONSTANTS
  MaxPending,   \* the receiver's backlog limit
  IdrPeriod,    \* args.idrPeriod
  OutputDelay,  \* m_nOutputDelay: EncodeFrame(k) returns the bitstream of input k - OutputDelay
  Sizes,        \* encoded sizes a frame may have
  LastId,       \* bound: frames the sender starts per process; IdMod for no bound
  NetCap,       \* bound: datagrams in flight
  Overtake,     \* bound: how many datagrams a datagram may pass
  FaultKinds,   \* subset of {"lose", "dup", "sendto", "sender", "receiver"}
  MaxFaults     \* bound: faults in a behaviour

ASSUME StreamLinkAssumption ==
  /\ OutputDelay \in Nat \ {0}
  /\ IdrPeriod \in Nat \ {0}
  /\ Sizes \subseteq 1 .. MaxFrameSize
  /\ MaxPending \in Nat \ {0}
  /\ {LastId, NetCap, Overtake, MaxFaults} \subseteq Nat

VARIABLES
  sess,      \* which sender process this is
  frameId,
  encQ,      \* is the k-th input inside NVENC, oldest first, coded as an IDR?
  cur,       \* the frame whose datagrams are being sent, or NoFrame
  pos,       \* the loop's i
  net,       \* datagrams in flight, in sending order
  faults,
  hit,       \* history: ids of frames a fault or an overtaking datagram touched
  pending, nextDeliver, streamStarted, handed  \* the receiver's, see Reassembly

sender   == <<sess, frameId, encQ, cur, pos>>
receiver == <<pending, nextDeliver, streamStarted, handed>>
vars     == <<sender, net, faults, hit, receiver>>

Frames == [sess : 0 .. MaxFaults, id : 0 .. IdMod - 1, size : Sizes,
           key : BOOLEAN, idr : BOOLEAN]
NoFrame == [id |-> -1]

R == INSTANCE Reassembly

Init ==
  /\ sess = 0 /\ frameId = 0 /\ encQ = <<>> /\ cur = NoFrame /\ pos = 0
  /\ net = <<>> /\ faults = 0 /\ hit = {}
  /\ R!Init

ForceIdr(k) == k > 0 /\ k % IdrPeriod = 0

\* A new encoder's first picture is an IDR whether or not it is forced.
CodedAsIdr(k) == encQ = <<>> \/ ForceIdr(k)

\* The header's flags come from this iteration's forceIdr, the bits from NVENC.
KeyFlag(k) == ForceIdr(k)

Fault(kind) == kind \in FaultKinds /\ faults < MaxFaults /\ faults' = faults + 1

FrameSent ==
  /\ cur' = NoFrame /\ pos' = 0
  /\ frameId' = (frameId + 1) % IdMod

\* EncodeFrame returns nothing until OutputDelay inputs are inside.
Prime ==
  /\ cur = NoFrame /\ frameId < LastId
  /\ Len(encQ) < OutputDelay
  /\ encQ' = Append(encQ, CodedAsIdr(frameId))
  /\ FrameSent
  /\ UNCHANGED <<sess, net, faults, hit, receiver>>

Encode ==
  /\ cur = NoFrame /\ frameId < LastId
  /\ Len(encQ) = OutputDelay
  /\ encQ' = Append(Tail(encQ), CodedAsIdr(frameId))
  /\ \E size \in Sizes :
       cur' = [sess |-> sess, id |-> frameId, size |-> size,
               key |-> KeyFlag(frameId), idr |-> Head(encQ)]
  /\ pos' = 0
  /\ UNCHANGED <<sess, frameId, net, faults, hit, receiver>>

\* Slip: the loop runs to i <= total.
LastFragment_Beyond(i, f) == i = Total(f.size)
LastFragment(i, f) == i + 1 = Total(f.size)

SendFragment ==
  /\ cur # NoFrame /\ Len(net) < NetCap
  /\ net' = Append(net, [frame |-> cur, idx |-> pos])
  /\ \/ LastFragment(pos, cur) /\ FrameSent
     \/ ~LastFragment(pos, cur) /\ pos' = pos + 1 /\ UNCHANGED <<frameId, cur>>
  /\ UNCHANGED <<sess, encQ, faults, hit, receiver>>

\* Slip: the id of a frame cut short is used again.
SendError_SameId ==
  /\ cur # NoFrame /\ Fault("sendto")
  /\ hit' = hit \cup {cur.id}
  /\ cur' = NoFrame /\ pos' = 0
  /\ UNCHANGED <<sess, frameId, encQ, net, receiver>>

\* sendto fails: break out of the frame, the rest of it is never sent.
SendError ==
  /\ cur # NoFrame /\ Fault("sendto")
  /\ hit' = hit \cup {cur.id}
  /\ FrameSent
  /\ UNCHANGED <<sess, encQ, net, receiver>>

\* The process dies anywhere in its loop and is started again.
SenderRestart ==
  /\ Fault("sender")
  /\ sess' = sess + 1
  /\ frameId' = 0 /\ encQ' = <<>> /\ cur' = NoFrame /\ pos' = 0
  /\ UNCHANGED <<net, hit, receiver>>

ReceiverRestart ==
  /\ Fault("receiver")
  /\ pending' = R!Empty /\ nextDeliver' = 0 /\ streamStarted' = FALSE /\ handed' = R!Empty
  /\ UNCHANGED <<sender, net, hit>>

Lose ==
  /\ Fault("lose")
  /\ \E n \in DOMAIN net : /\ net' = RemoveAt(net, n)
                           /\ hit' = hit \cup {net[n].frame.id}
  /\ UNCHANGED <<sender, receiver>>

Duplicate ==
  /\ Fault("dup") /\ Len(net) < NetCap
  /\ \E n \in DOMAIN net : net' = Append(net, net[n])
  /\ UNCHANGED <<sender, hit, receiver>>

\* For the history: a datagram passed by one of another frame, or turned away
\* because no keyframe has started the stream.
OvertakenOrEarly(n) ==
  {m \in 1 .. n - 1 : net[m].frame.id # net[n].frame.id}
    \cup (IF streamStarted' THEN {} ELSE {n})

Deliver(n) ==
  /\ n \in DOMAIN net
  /\ R!Receive(net[n].frame, net[n].idx)
  /\ net' = RemoveAt(net, n)
  /\ hit' = hit \cup {net[m].frame.id : m \in OvertakenOrEarly(n)}
  /\ UNCHANGED <<sender, faults>>

Next ==
  \/ Prime \/ Encode \/ SendFragment \/ SendError \/ SenderRestart
  \/ ReceiverRestart \/ Lose \/ Duplicate
  \/ \E n \in 1 .. Overtake + 1 : Deliver(n)

\* The sender's loop runs while the producer publishes, and the path delivers
\* what it does not lose.
Fairness == WF_vars(Prime) /\ WF_vars(Encode) /\ WF_vars(SendFragment) /\ WF_vars(Deliver(1))

Spec == Init /\ [][Next]_vars

FairSpec == Spec /\ Fairness
-----------------------------------------------------------------------------
\* Types, the bounds, and that what is in flight is a datagram of some frame.
TypeOK ==
  /\ sess \in 0 .. MaxFaults /\ faults \in 0 .. MaxFaults
  /\ frameId \in 0 .. IdMod - 1
  /\ encQ \in Seq(BOOLEAN) /\ Len(encQ) <= OutputDelay
  /\ cur = NoFrame \/ (cur \in Frames /\ cur.id = frameId /\ pos \in 0 .. Total(cur.size) - 1)
  /\ Len(net) <= NetCap
  /\ \A n \in DOMAIN net :
       net[n].frame \in Frames /\ net[n].idx \in 0 .. Total(net[n].frame.size) - 1
  /\ R!TypeOK

\* A loss costs the frame it hits and no other: once the stream has started,
\* each frame nextDeliver passes over was handed to the decoder or was itself
\* lost from, cut short, overtaken, or in part received before the start.
DamageIsLocal ==
  [][streamStarted =>
       \A id \in nextDeliver .. nextDeliver' - 1 : id \in DOMAIN handed' \cup hit']_vars

\* End to end, while one sender process runs and its ids do not wrap: what the
\* decoder gets are whole encoded frames, in the order encoded and none twice
\* (unless the receiver is restarted, which brings nextDeliver back to 0).
InOrderWholeFrames == R!InOrderWholeFrames

\* Frames of one bitstream only: nothing handed to the decoder was put together
\* from two frames ("Any incomplete frame is dropped", streamnet_protocol.h:4-5).
NoMixedFrame == \A k \in DOMAIN handed : R!Picture(handed[k]) # R!Garbled

\* "Resync to the first keyframe we see, so the decoder gets a valid starting
\* point" (streamreceiver/main.cpp:475-476): the frame that starts the stream is an IDR.
ResyncsOnIdr ==
  [][~streamStarted /\ streamStarted' =>
       /\ \A k \in DOMAIN pending' : pending'[k].hdr.idr
       /\ \A k \in DOMAIN handed' : handed'[k].hdr.idr]_vars

\* A damaged frame holds the stream up for a bounded time, within one run of each
\* process and of the ids, on a path that keeps datagrams in order: once so many
\* frames are sent after frame id that MaxPending of them must reach the receiver
\* whatever the faults hide, id is delivered or given up, or a process restarted.
HoldUpIsBounded ==
  \A s \in 0 .. MaxFaults, id \in 0 .. LastId - MaxPending - MaxFaults :
    streamStarted /\ sess = s /\ frameId >= id + MaxPending + MaxFaults
      ~> nextDeliver > id \/ ~streamStarted \/ sess # s
=============================================================================
