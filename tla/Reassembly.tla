----------------------------- MODULE Reassembly -----------------------------
(***************************************************************************)
(* streamreceiver's reassembly loop (src/streamreceiver/main.cpp), one     *)
(* action per datagram: the keyframe gate, the stale test, the insertion   *)
(* into `pending`, the fragment store and the whole drain loop.  The       *)
(* network is arbitrary: any fragment of any frame of Frames may arrive at *)
(* any time, any number of times, or never.                                *)
(***************************************************************************)
EXTENDS StreamNet, FiniteSets, Functions

CONSTANTS Frames,      \* every frame some sender process encodes
          MaxPending   \* 12: an incomplete head is kept until more are pending

\* Total(f.size) > 0: the sender emits no datagram of a frame with no packets,
\* so the guard at lines 484-485 (zero totals) only rejects foreign traffic.
ASSUME ReassemblyAssumption ==
  /\ MaxPending \in Nat \ {0}
  /\ \A f \in Frames : /\ f.id \in 0 .. IdMod - 1
                       /\ f.size \in 1 .. MaxFrameSize
                       /\ f.key \in BOOLEAN

VARIABLES
  pending,        \* std::map<uint32_t, FrameAssembly>, a partial function
  nextDeliver,
  streamStarted,
  handed          \* what the latest datagram made the drain loop deliver
vars == <<pending, nextDeliver, streamStarted, handed>>

\* A FrameAssembly: hdr is the frame whose datagram created the entry (its
\* frameSize, totalPackets, width, height), slot[i] the frame whose fragment
\* i was copied into bits; DOMAIN slot is have[] and its size recvCount.
Empty == [k \in {} |-> {}]
NewEntry(f) == [hdr |-> f, slot |-> Empty]

Packets(e) == 0 .. Total(e.hdr.size) - 1

\* Slip: one fragment short counts as complete.
Complete_Short(e) == Cardinality(DOMAIN e.slot) + 1 >= Total(e.hdr.size)
Complete(e) == DOMAIN e.slot = Packets(e)

\* Copy fragment i of f unless it is out of range, a duplicate or too long.
Store(e, f, i) ==
  IF /\ i \in Packets(e) \ DOMAIN e.slot
     /\ Offset(i) + Payload(f.size, i) <= e.hdr.size
  THEN [e EXCEPT !.slot = [j \in DOMAIN e.slot \cup {i} |->
                             IF j = i THEN f ELSE e.slot[j]]]
  ELSE e

\* pending after the datagram, before the drain loop.
Filed(f, i) ==
  LET e == IF f.id \in DOMAIN pending THEN pending[f.id] ELSE NewEntry(f)
  IN  [k \in DOMAIN pending \cup {f.id} |->
         IF k = f.id THEN Store(e, f, i) ELSE pending[k]]

\* The heads at which the drain loop breaks: incomplete, and not backlogged.
Backlog(p, k) == Cardinality({j \in DOMAIN p : j >= k})
\* Slips: the limit compared one too high, one too low, and a break that does
\* not look at the head.
Stops_Late(p)   == {k \in DOMAIN p : ~Complete(p[k]) /\ Backlog(p, k) <= MaxPending + 1}
Stops_Early(p)  == {k \in DOMAIN p : ~Complete(p[k]) /\ Backlog(p, k) < MaxPending}
Stops_Blind(p)  == {k \in DOMAIN p : Backlog(p, k) <= MaxPending}
Stops(p)        == {k \in DOMAIN p : ~Complete(p[k]) /\ Backlog(p, k) <= MaxPending}

\* Slip: uint32_t arithmetic taken for unbounded.
After_Unbounded(id) == id + 1
After(id) == (id + 1) % IdMod

\* The drain loop, as what it leaves: every entry before the first stop goes,
\* the complete ones to the decoder and in order, the others nowhere.
Drain(p) ==
  \/ \E stop \in Stops(p) :
       /\ \A k \in Stops(p) : stop <= k
       /\ nextDeliver' = stop
       /\ pending' = Restrict(p, {k \in DOMAIN p : k >= stop})
       /\ handed' = Restrict(p, {k \in DOMAIN p : k < stop /\ Complete(p[k])})
  \/ /\ Stops(p) = {}
     /\ \E last \in DOMAIN p : /\ \A k \in DOMAIN p : k <= last
                               /\ nextDeliver' = After(last)
     /\ pending' = Empty
     /\ handed' = Restrict(p, {k \in DOMAIN p : Complete(p[k])})

\* Slip: the stale test rejects the awaited frame too.
Admitted_Late(f) == IF streamStarted THEN f.id > nextDeliver ELSE f.key
Admitted(f) == IF streamStarted THEN f.id >= nextDeliver ELSE f.key

Ignore(f) ==
  /\ ~Admitted(f)
  /\ handed' = Empty
  /\ UNCHANGED <<pending, nextDeliver, streamStarted>>

Accept(f, i) ==
  /\ Admitted(f)
  /\ streamStarted' = TRUE
  /\ Drain(Filed(f, i))

Receive(f, i) == Ignore(f) \/ Accept(f, i)

Init ==
  /\ pending = Empty
  /\ nextDeliver = 0
  /\ streamStarted = FALSE
  /\ handed = Empty

Next == \E f \in Frames : \E i \in 0 .. Total(f.size) - 1 : Receive(f, i)

Spec == Init /\ [][Next]_vars
-----------------------------------------------------------------------------
Ids == 0 .. IdMod - 1

IsEntry(k, e) ==
  /\ e = [hdr |-> e.hdr, slot |-> e.slot]
  /\ e.hdr \in Frames /\ e.hdr.id = k
  /\ DOMAIN e.slot \subseteq Packets(e)
  /\ \A i \in DOMAIN e.slot : e.slot[i] \in Frames

\* The variables hold what the C++ types and the map's keys allow.
TypeOK ==
  /\ DOMAIN pending \subseteq Ids
  /\ \A k \in DOMAIN pending : IsEntry(k, pending[k])
  /\ nextDeliver \in Ids
  /\ streamStarted \in BOOLEAN
  /\ DOMAIN handed \subseteq Ids
  /\ \A k \in DOMAIN handed : IsEntry(k, handed[k])

\* The backlog is bounded: whatever arrives, the loop leaves at most MaxPending
\* frames half-assembled (lines 507-525), so a lossy link cannot grow the map.
BacklogBounded == Cardinality(DOMAIN pending) <= MaxPending

\* Between datagrams the receiver waits for exactly one frame: the oldest one
\* pending is nextDeliver itself and is incomplete, so nothing deliverable is
\* ever left behind and no entry is ever older than the stale test (line 481).
WaitsOnIncompleteHead ==
  pending # Empty =>
    /\ streamStarted
    /\ nextDeliver \in DOMAIN pending
    /\ \A k \in DOMAIN pending : nextDeliver <= k
    /\ ~Complete(pending[nextDeliver])

\* One sender process only: a frame id names one frame.
UniqueIds == \A f, g \in Frames : f.id = g.id => f = g

\* The picture in bits: whole when every fragment is the header's frame's.
Garbled == [id |-> -1]
Picture(e) ==
  IF \A i \in Packets(e) : i \in DOMAIN e.slot /\ e.slot[i] = e.hdr
  THEN e.hdr ELSE Garbled

\* With one sender process the decoder gets whole frames, each once, in the
\* order of their ids, whatever the network loses, repeats or reorders
\* ("Any incomplete frame is dropped", streamnet_protocol.h:4-5).
Shown == {Picture(handed[k]) : k \in DOMAIN handed}
FS == INSTANCE FrameStream WITH next <- nextDeliver, shown <- Shown
InOrderWholeFrames == FS!Spec

\* An accepted frame is given up only for the backlog: it leaves pending
\* undelivered only in a step that found more than MaxPending frames from it on
\* (line 518), the arriving one included.
GivenUpOnlyWhenBacklogged ==
  [][\A k \in DOMAIN pending \ (DOMAIN pending' \cup DOMAIN handed') :
       \E id \in Ids : Cardinality({j \in DOMAIN pending \cup {id} : j >= k}) > MaxPending]_vars
=============================================================================
