-------------------------- MODULE StreamLink_proofs --------------------------
(***************************************************************************)
(* The sender, the path and the receiver together, for every size of the   *)
(* path, every number of faults and every backlog limit.  The receiver of  *)
(* StreamLink is an instance of Reassembly, so the lemmas about one        *)
(* datagram's step are those of Reassembly_proofs, instantiated as RP; R   *)
(* and RP are the same definitions under two names.                        *)
(***************************************************************************)
EXTENDS StreamLink, StreamNet_proofs

RP == INSTANCE Reassembly_proofs

-----------------------------------------------------------------------------
\* The frames of the link satisfy what Reassembly assumes of its frames.
LEMMA LinkFrames ==
  /\ MaxPending \in Nat \ {0}
  /\ \A f \in Frames : /\ f.id \in 0 .. IdMod - 1
                       /\ f.size \in 1 .. MaxFrameSize
                       /\ f.key \in BOOLEAN
  /\ RP!MaxFrameSize = MaxFrameSize
  BY StreamLinkAssumption DEF Frames, RP!MaxFrameSize, MaxFrameSize

LEMMA FrameTotal ==
  ASSUME NEW f \in Frames
  PROVE  Total(f.size) \in Nat \ {0}
  BY LinkFrames, TotalIsCeiling, StreamNetAssumption

\* R and RP agree.
LEMMA SameTotal == \A size : RP!Total(size) = Total(size) /\ R!Total(size) = Total(size)
  BY DEF RP!Total, R!Total, Total

LEMMA SameTypes == (RP!TypeOK <=> R!TypeOK) /\ (RP!TypeOK' <=> R!TypeOK')
  BY DEF RP!TypeOK, R!TypeOK, RP!Ids, R!Ids, RP!IsEntry, R!IsEntry,
         RP!Packets, R!Packets, RP!Total, R!Total

LEMMA SameComplete == \A e : RP!Complete(e) <=> R!Complete(e)
  BY DEF RP!Complete, R!Complete, RP!Packets, R!Packets, RP!Total, R!Total

LEMMA SameHead == /\ RP!WaitsOnIncompleteHead <=> R!WaitsOnIncompleteHead
                  /\ RP!WaitsOnIncompleteHead' <=> R!WaitsOnIncompleteHead'
  BY SameComplete
  DEF RP!WaitsOnIncompleteHead, R!WaitsOnIncompleteHead, RP!Empty, R!Empty

LEMMA SameFiled == \A f, i : RP!Filed(f, i) = R!Filed(f, i)
  BY DEF RP!Filed, R!Filed, RP!Store, R!Store, RP!NewEntry, R!NewEntry, RP!Packets,
         R!Packets, RP!Total, R!Total, RP!Offset, R!Offset, RP!Payload, R!Payload,
         RP!Empty, R!Empty

LEMMA SameDrain ==
  ASSUME NEW p
  PROVE  RP!Drain(p) <=> R!Drain(p)
  BY DEF RP!Drain, R!Drain, RP!Stops, R!Stops, RP!Complete, R!Complete, RP!Packets,
         R!Packets, RP!Total, R!Total, RP!Backlog, R!Backlog, RP!Cardinality,
         R!Cardinality, RP!After, R!After, RP!Restrict, R!Restrict, RP!Empty, R!Empty

LEMMA SameReceive ==
  \A f, i : /\ RP!Admitted(f) <=> R!Admitted(f)
            /\ RP!Ignore(f) <=> R!Ignore(f)
            /\ RP!Accept(f, i) <=> R!Accept(f, i)
            /\ RP!Receive(f, i) <=> R!Receive(f, i)
<1>1. ASSUME NEW f, NEW i
      PROVE  /\ RP!Admitted(f) <=> R!Admitted(f)
             /\ RP!Ignore(f) <=> R!Ignore(f)
             /\ RP!Accept(f, i) <=> R!Accept(f, i)
  BY SameFiled, SameDrain
  DEF RP!Admitted, R!Admitted, RP!Ignore, R!Ignore, RP!Accept, R!Accept, RP!Empty, R!Empty
<1> QED
  BY <1>1 DEF RP!Receive, R!Receive

-----------------------------------------------------------------------------
LEMMA RemoveAtFacts ==
  ASSUME NEW S, NEW s \in Seq(S), NEW n \in DOMAIN s
  PROVE  /\ RemoveAt(s, n) \in Seq(S)
         /\ Len(RemoveAt(s, n)) = Len(s) - 1
         /\ DOMAIN RemoveAt(s, n) = 1 .. Len(s) - 1
         /\ \A m \in 1 .. Len(s) - 1 :
              RemoveAt(s, n)[m] = IF m < n THEN s[m] ELSE s[m + 1]
<1> DEFINE a == SubSeq(s, 1, n - 1)
           b == SubSeq(s, n + 1, Len(s))
<1>1. /\ a \in Seq(S) /\ Len(a) = n - 1
      /\ \A m \in 1 .. n - 1 : a[m] = s[m]
  OBVIOUS
<1>2. /\ b \in Seq(S) /\ Len(b) = Len(s) - n
      /\ \A m \in 1 .. Len(s) - n : b[m] = s[m + n]
  OBVIOUS
<1> HIDE DEF a, b
<1>3. a \o b \in Seq(S) /\ Len(a \o b) = Len(s) - 1
  BY <1>1, <1>2
<1>4. \A m \in 1 .. Len(s) - 1 : (a \o b)[m] = IF m < n THEN s[m] ELSE s[m + 1]
  BY <1>1, <1>2
<1>5. RemoveAt(s, n) = a \o b
  BY DEF RemoveAt, a, b
<1> QED
  BY <1>3, <1>4, <1>5

Datagrams == [frame : Frames, idx : Nat]

\* A datagram's step keeps the receiver's types.
LEMMA ReceiveTyped ==
  ASSUME R!TypeOK, NEW f \in Frames, NEW i \in 0 .. Total(f.size) - 1, R!Receive(f, i)
  PROVE  R!TypeOK'
<1>1. RP!Next
  BY SameTotal, SameReceive DEF RP!Next
<1> QED
  BY <1>1, RP!StepTyped, SameTypes, LinkFrames, StreamNetAssumption

\* TypeOK in three parts, with what it needs to be inductive: a restart is a
\* fault, so there are no more processes than faults, and net and pos have types.
SenderTyped ==
  /\ sess \in 0 .. MaxFaults /\ faults \in 0 .. MaxFaults /\ sess <= faults
  /\ frameId \in 0 .. IdMod - 1
  /\ encQ \in Seq(BOOLEAN) /\ Len(encQ) <= OutputDelay
  /\ cur = NoFrame \/ (cur \in Frames /\ cur.id = frameId /\ pos \in 0 .. Total(cur.size) - 1)
  /\ pos \in Nat

NetTyped ==
  /\ net \in Seq(Datagrams) /\ Len(net) <= NetCap
  /\ \A n \in DOMAIN net : net[n].idx \in 0 .. Total(net[n].frame.size) - 1

Typed == SenderTyped /\ NetTyped /\ R!TypeOK

LEMMA InFlightTyped ==
  ASSUME NetTyped, NEW n \in DOMAIN net
  PROVE  /\ net[n] \in Datagrams
         /\ net[n].frame \in Frames
         /\ net[n].idx \in 0 .. Total(net[n].frame.size) - 1
<1>1. net[n] \in Datagrams
  BY DEF NetTyped
<1>2. net[n].frame \in Frames
  BY <1>1 DEF Datagrams
<1> QED
  BY <1>1, <1>2 DEF NetTyped

LEMMA FrameSentTyped ==
  ASSUME SenderTyped, FrameSent, UNCHANGED <<sess, faults, encQ>>
  PROVE  SenderTyped'
<1>1. (frameId + 1) % IdMod \in 0 .. IdMod - 1
  BY StreamNetAssumption DEF SenderTyped
<1> QED
  BY <1>1 DEF FrameSent, SenderTyped, NoFrame

LEMMA NetShrinks ==
  ASSUME NetTyped, NEW n \in DOMAIN net, net' = RemoveAt(net, n)
  PROVE  NetTyped'
<1>1. /\ net' \in Seq(Datagrams)
      /\ Len(net') = Len(net) - 1
      /\ DOMAIN net' = 1 .. Len(net) - 1
      /\ \A m \in 1 .. Len(net) - 1 : net'[m] = IF m < n THEN net[m] ELSE net[m + 1]
  BY RemoveAtFacts DEF NetTyped
<1>2. Len(net) \in Nat /\ DOMAIN net = 1 .. Len(net)
  BY DEF NetTyped
<1>3. ASSUME NEW m \in DOMAIN net'
      PROVE  net'[m].idx \in 0 .. Total(net'[m].frame.size) - 1
  <2>1. m \in DOMAIN net /\ m + 1 \in DOMAIN net
    BY <1>1, <1>2
  <2>2. net'[m] = net[m] \/ net'[m] = net[m + 1]
    BY <1>1
  <2> QED
    BY <2>1, <2>2 DEF NetTyped
<1> QED
  BY <1>1, <1>2, <1>3, StreamLinkAssumption DEF NetTyped

LEMMA NetGrows ==
  ASSUME NetTyped, Len(net) < NetCap, NEW d \in Datagrams,
         d.idx \in 0 .. Total(d.frame.size) - 1, net' = Append(net, d)
  PROVE  NetTyped'
  BY StreamLinkAssumption DEF NetTyped

LEMMA RestartTyped ==
  ASSUME pending' = R!Empty, nextDeliver' = 0, streamStarted' = FALSE, handed' = R!Empty
  PROVE  R!TypeOK'
<1>1. DOMAIN R!Empty = {} /\ 0 \in R!Ids
  BY StreamNetAssumption DEF R!Empty, R!Ids
<1> QED
  BY <1>1 DEF R!TypeOK

LEMMA SameTyped ==
  ASSUME R!TypeOK, UNCHANGED receiver
  PROVE  R!TypeOK'
  BY DEF receiver, R!TypeOK

LEMMA TypedInductive ==
  ASSUME Typed, [Next]_vars
  PROVE  Typed'
<1>0. SenderTyped /\ NetTyped /\ R!TypeOK
  BY DEF Typed
<1>1. CASE Prime
  <2>1. encQ' \in Seq(BOOLEAN) /\ Len(encQ') <= OutputDelay
    BY <1>0, <1>1, StreamLinkAssumption DEF Prime, SenderTyped, CodedAsIdr, ForceIdr
  <2>2. (frameId + 1) % IdMod \in 0 .. IdMod - 1
    BY <1>0, StreamNetAssumption DEF SenderTyped
  <2>3. SenderTyped'
    BY <1>0, <1>1, <2>1, <2>2 DEF Prime, FrameSent, SenderTyped, NoFrame
  <2> QED
    BY <1>0, <1>1, <2>3, SameTyped DEF Typed, Prime, NetTyped
<1>2. CASE Encode
  <2>1. encQ' \in Seq(BOOLEAN) /\ Len(encQ') <= OutputDelay /\ Head(encQ) \in BOOLEAN
    BY <1>0, <1>2, StreamLinkAssumption DEF Encode, SenderTyped, CodedAsIdr, ForceIdr
  <2>2. cur' \in Frames /\ cur'.id = frameId
    BY <1>0, <1>2, <2>1 DEF Encode, SenderTyped, Frames, KeyFlag, ForceIdr
  <2>3. pos' \in 0 .. Total(cur'.size) - 1
    BY <1>2, <2>2, FrameTotal DEF Encode
  <2>4. SenderTyped'
    BY <1>0, <1>2, <2>1, <2>2, <2>3 DEF Encode, SenderTyped
  <2> QED
    BY <1>0, <1>2, <2>4, SameTyped DEF Typed, Encode, NetTyped
<1>3. CASE SendFragment
  <2>1. cur \in Frames /\ cur.id = frameId /\ pos \in 0 .. Total(cur.size) - 1
        /\ Total(cur.size) \in Nat
    BY <1>0, <1>3, FrameTotal DEF SendFragment, SenderTyped
  <2>2. NetTyped'
    <3>1. [frame |-> cur, idx |-> pos] \in Datagrams
      BY <2>1 DEF Datagrams
    <3> QED
      BY <1>0, <1>3, <2>1, <3>1, NetGrows DEF SendFragment
  <2>3. SenderTyped'
    <3>1. CASE FrameSent
      BY <1>0, <1>3, <3>1, FrameSentTyped DEF SendFragment
    <3>2. CASE ~LastFragment(pos, cur) /\ pos' = pos + 1 /\ UNCHANGED <<frameId, cur>>
      <4>1. pos + 1 \in 0 .. Total(cur.size) - 1
        BY <2>1, <3>2 DEF LastFragment
      <4> QED
        BY <1>0, <1>3, <2>1, <3>2, <4>1 DEF SendFragment, SenderTyped
    <3> QED
      BY <1>3, <3>1, <3>2 DEF SendFragment
  <2> QED
    BY <1>0, <1>3, <2>2, <2>3, SameTyped DEF Typed, SendFragment
<1>4. CASE SendError
  <2>1. (frameId + 1) % IdMod \in 0 .. IdMod - 1
    BY <1>0, StreamNetAssumption DEF SenderTyped
  <2>2. SenderTyped'
    BY <1>0, <1>4, <2>1, StreamLinkAssumption DEF SendError, Fault, FrameSent, SenderTyped, NoFrame
  <2> QED
    BY <1>0, <1>4, <2>2, SameTyped DEF Typed, SendError, NetTyped
<1>5. CASE SenderRestart
  <2>1. SenderTyped'
    BY <1>0, <1>5, StreamNetAssumption, StreamLinkAssumption
    DEF SenderRestart, Fault, SenderTyped, NoFrame
  <2> QED
    BY <1>0, <1>5, <2>1, SameTyped DEF Typed, SenderRestart, NetTyped
<1>6. CASE ReceiverRestart
  <2>1. R!TypeOK'
    BY <1>6, RestartTyped DEF ReceiverRestart
  <2>2. SenderTyped' /\ NetTyped'
    BY <1>0, <1>6, StreamLinkAssumption
    DEF ReceiverRestart, Fault, SenderTyped, NetTyped, sender
  <2> QED
    BY <2>1, <2>2 DEF Typed
<1>7. CASE Lose
  <2>1. NetTyped'
    BY <1>0, <1>7, NetShrinks DEF Lose
  <2> QED
    BY <1>0, <1>7, <2>1, SameTyped, StreamLinkAssumption
    DEF Typed, Lose, Fault, SenderTyped, sender
<1>8. CASE Duplicate
  <2>1. PICK n \in DOMAIN net : net' = Append(net, net[n])
    BY <1>8 DEF Duplicate
  <2>2. net[n] \in Datagrams
    BY <1>0 DEF NetTyped
  <2>3. NetTyped'
    BY <1>0, <1>8, <2>1, <2>2, NetGrows DEF Duplicate, NetTyped
  <2> QED
    BY <1>0, <1>8, <2>3, SameTyped, StreamLinkAssumption
    DEF Typed, Duplicate, Fault, SenderTyped, sender
<1>9. ASSUME NEW n \in 1 .. Overtake + 1, Deliver(n)
      PROVE  Typed'
  <2>1. /\ n \in DOMAIN net
        /\ net[n].frame \in Frames
        /\ net[n].idx \in 0 .. Total(net[n].frame.size) - 1
        /\ R!Receive(net[n].frame, net[n].idx)
    BY <1>0, <1>9, InFlightTyped DEF Deliver
  <2>2. R!TypeOK'
    BY <1>0, <2>1, ReceiveTyped
  <2>3. NetTyped'
    BY <1>0, <1>9, <2>1, NetShrinks DEF Deliver
  <2> QED
    BY <1>0, <1>9, <2>2, <2>3 DEF Typed, Deliver, SenderTyped, sender
<1>10. CASE UNCHANGED vars
  BY <1>0, <1>10, SameTyped DEF Typed, vars, sender, SenderTyped, NetTyped
<1> QED
  BY <1>1, <1>2, <1>3, <1>4, <1>5, <1>6, <1>7, <1>8, <1>9, <1>10 DEF Next

LEMMA InitTyped == Init => Typed
<1>1. Init => SenderTyped /\ NetTyped
  BY StreamNetAssumption, StreamLinkAssumption DEF Init, SenderTyped, NetTyped, NoFrame
<1>2. Init => R!TypeOK
  <2>1. DOMAIN R!Empty = {} /\ 0 \in R!Ids
    BY StreamNetAssumption DEF R!Empty, R!Ids
  <2> QED
    BY <2>1 DEF Init, R!Init, R!TypeOK
<1> QED
  BY <1>1, <1>2 DEF Typed

LEMMA AlwaysTyped == Spec => []Typed
<1>1. Typed /\ [Next]_vars => Typed'
  BY TypedInductive
<1> QED
  BY <1>1, InitTyped, PTL DEF Spec

(***************************************************************************)
(* Every variable of the link keeps its type and every bound holds,        *)
(* whatever faults happen: in particular what is in flight is always a     *)
(* datagram of a frame some sender process encoded, so the receiver never  *)
(* sees a fragment index outside its frame.                                *)
(***************************************************************************)
THEOREM LinkTypeCorrect == Spec => []TypeOK
<1>1. Typed => TypeOK
  BY InFlightTyped DEF Typed, SenderTyped, NetTyped, TypeOK
<1> QED
  BY <1>1, AlwaysTyped, PTL

-----------------------------------------------------------------------------
(***************************************************************************)
(* A receiver that is not restarted sees nothing of the rest of the link   *)
(* that Reassembly's arbitrary network does not allow: what is proved of   *)
(* the receive loop alone holds of it here, behind this sender and path.   *)
(***************************************************************************)
THEOREM ReceiverIsReassembly == "receiver" \notin FaultKinds => (Spec => R!Spec)
<1> SUFFICES ASSUME "receiver" \notin FaultKinds PROVE Spec => R!Spec
  OBVIOUS
<1>1. Init => R!Init
  BY DEF Init
<1>2. Typed /\ [Next]_vars => [R!Next]_(R!vars)
  <2> SUFFICES ASSUME Typed, [Next]_vars PROVE [R!Next]_(R!vars)
    OBVIOUS
  <2>1. CASE UNCHANGED receiver
    BY <2>1 DEF receiver, R!vars
  <2>2. ASSUME NEW n \in 1 .. Overtake + 1, Deliver(n)
        PROVE  R!Next
    <3>1. /\ net[n].frame \in Frames
          /\ net[n].idx \in 0 .. R!Total(net[n].frame.size) - 1
          /\ R!Receive(net[n].frame, net[n].idx)
      BY <2>2, InFlightTyped, SameTotal DEF Deliver, Typed
    <3> QED
      BY <3>1 DEF R!Next
  <2>3. ~ReceiverRestart
    BY DEF ReceiverRestart, Fault
  <2> QED
    BY <2>1, <2>2, <2>3
    DEF Next, vars, Prime, Encode, SendFragment, SendError, SenderRestart, Lose, Duplicate
<1> QED
  BY <1>1, <1>2, AlwaysTyped, PTL DEF Spec, R!Spec

\* What the receiver's loop leaves behind every datagram.
Drained == R!BacklogBounded /\ R!WaitsOnIncompleteHead

\* A datagram's step leaves the map drained, whatever it was before.
LEMMA ReceiveDrains ==
  ASSUME R!TypeOK, Drained, NEW f \in Frames, NEW i \in 0 .. Total(f.size) - 1, R!Receive(f, i)
  PROVE  Drained'
<1>1. RP!Next
  BY SameTotal, SameReceive DEF RP!Next
<1>2. RP!WaitsOnIncompleteHead'
  BY <1>1, SameTypes, SameHead, RP!HeadKept, LinkFrames, StreamNetAssumption DEF Drained
<1>3. RP!BacklogBounded'
  <2>1. CASE pending' = pending
    BY <2>1 DEF Drained, RP!BacklogBounded, R!BacklogBounded, RP!Cardinality, R!Cardinality
  <2>2. ASSUME NEW g \in Frames, NEW j \in 0 .. RP!Total(g.size) - 1,
               RP!Accept(g, j), DOMAIN RP!Filed(g, j) \subseteq RP!Ids
        PROVE  RP!BacklogBounded'
    BY <2>2, RP!DrainStops, LinkFrames, StreamNetAssumption DEF RP!Accept, RP!BacklogBounded
  <2> QED
    BY <1>1, <2>1, <2>2, SameTypes, RP!StepDrains, LinkFrames, StreamNetAssumption
<1> QED
  BY <1>2, <1>3, SameHead
  DEF Drained, RP!BacklogBounded, R!BacklogBounded, RP!Cardinality, R!Cardinality

(***************************************************************************)
(* Restarts of either process, the wrap of the ids and every fault of the  *)
(* path included: the receiver never keeps more than MaxPending frames     *)
(* half assembled, nor one it could deliver.                               *)
(***************************************************************************)
THEOREM DrainedWhateverHappens == Spec => [](R!BacklogBounded /\ R!WaitsOnIncompleteHead)
<1>1. (pending = R!Empty => Drained) /\ (pending' = R!Empty => Drained')
  <2>1. R!Cardinality(DOMAIN R!Empty) <= MaxPending
    BY RP!EmptyBacklog, LinkFrames, StreamNetAssumption
    DEF R!Empty, RP!Empty, R!Cardinality, RP!Cardinality
  <2>2. pending = R!Empty => Drained
    BY <2>1 DEF Drained, R!BacklogBounded, R!WaitsOnIncompleteHead
  <2>3. pending' = R!Empty => Drained'
    BY <2>1 DEF Drained, R!BacklogBounded, R!WaitsOnIncompleteHead
  <2> QED
    BY <2>2, <2>3
<1>2. Typed /\ Drained /\ [Next]_vars => Drained'
  <2> SUFFICES ASSUME Typed, Drained, [Next]_vars PROVE Drained'
    OBVIOUS
  <2>1. CASE UNCHANGED receiver
    BY <2>1 DEF receiver, Drained, R!BacklogBounded, R!WaitsOnIncompleteHead, R!Complete,
                R!Packets, R!Cardinality
  <2>2. ASSUME NEW n \in 1 .. Overtake + 1, Deliver(n)
        PROVE  Drained'
    BY <2>2, InFlightTyped, ReceiveDrains DEF Deliver, Typed
  <2>3. CASE ReceiverRestart
    BY <1>1, <2>3 DEF ReceiverRestart
  <2> QED
    BY <2>1, <2>2, <2>3
    DEF Next, vars, Prime, Encode, SendFragment, SendError, SenderRestart, Lose, Duplicate
<1> QED
  BY <1>1, <1>2, AlwaysTyped, PTL DEF Spec, Init, R!Init, Drained

-----------------------------------------------------------------------------
(***************************************************************************)
(* One bitstream: the sender is not restarted and its ids do not wrap, so  *)
(* an id names one frame among all that are in use anywhere in the link.   *)
(***************************************************************************)
OneBitstream == "sender" \notin FaultKinds /\ LastId < IdMod

\* The frames being sent, in flight, or naming an entry of the receiver's map.
InUse ==
  (IF cur = NoFrame THEN {} ELSE {cur})
    \cup {net[n].frame : n \in DOMAIN net}
    \cup {pending[k].hdr : k \in DOMAIN pending}

\* The sender primes its encoder with the first OutputDelay ids and then sends
\* one frame for each id.
Numbered ==
  /\ Len(encQ) = IF frameId < OutputDelay THEN frameId ELSE OutputDelay
  /\ frameId <= LastId
  /\ cur # NoFrame => OutputDelay <= frameId /\ frameId < LastId

Agreed ==
  /\ \A f, g \in InUse : f.id = g.id => f = g
  /\ \A f \in InUse : OutputDelay <= f.id /\ f.id <= frameId
  /\ \A f \in InUse : f.id = frameId => f = cur

\* Every entry of the receiver's map holds fragments of its own header's frame.
Consistent ==
  /\ Typed
  /\ R!WaitsOnIncompleteHead
  /\ ~streamStarted => nextDeliver = 0
  /\ Numbered
  /\ Agreed
  /\ RP!Matched(pending)

LEMMA InUseTyped ==
  ASSUME Typed
  PROVE  InUse \subseteq Frames
<1>1. \A n \in DOMAIN net : net[n].frame \in Frames
  BY InFlightTyped DEF Typed
<1>2. \A k \in DOMAIN pending : pending[k].hdr \in Frames
  BY DEF Typed, R!TypeOK, R!IsEntry
<1> QED
  BY <1>1, <1>2 DEF InUse, Typed, SenderTyped

\* An id is used up without wrapping.
LEMMA NextId ==
  ASSUME OneBitstream, Typed, frameId < LastId
  PROVE  (frameId + 1) % IdMod = frameId + 1
<1>1. frameId + 1 \in Nat /\ frameId + 1 < IdMod
  BY StreamLinkAssumption, StreamNetAssumption DEF OneBitstream, Typed, SenderTyped
<1> QED
  BY <1>1, SmallRemainder, StreamNetAssumption

LEMMA AgreedKept ==
  ASSUME Typed, Agreed, InUse' \subseteq InUse,
         \/ frameId' = frameId /\ cur' = cur
         \/ frameId' = frameId + 1
  PROVE  Agreed'
<1>1. \A f \in InUse : f.id \in Nat
  BY InUseTyped DEF Frames
<1>2. frameId \in Nat
  BY StreamNetAssumption DEF Typed, SenderTyped
<1> QED
  BY <1>1, <1>2 DEF Agreed

LEMMA NumberedKept ==
  ASSUME OneBitstream, Typed, Numbered, cur # NoFrame, FrameSent, encQ' = encQ
  PROVE  Numbered' /\ frameId' = frameId + 1
  BY NextId, StreamLinkAssumption DEF Numbered, FrameSent, Typed, SenderTyped

\* What an accepted datagram leaves, in a consistent link.
LEMMA AcceptFacts ==
  ASSUME Consistent, NEW n \in DOMAIN net, R!Accept(net[n].frame, net[n].idx)
  PROVE  LET f == net[n].frame
             p == R!Filed(f, net[n].idx)
         IN  /\ DOMAIN p = DOMAIN pending \cup {f.id}
             /\ DOMAIN p \subseteq 0 .. IdMod - 1
             /\ \A k \in DOMAIN p : R!IsEntry(k, p[k])
             /\ RP!Matched(p)
             /\ p[f.id].hdr = f /\ net[n].idx \in DOMAIN p[f.id].slot
             /\ \A k \in DOMAIN pending :
                  /\ p[k].hdr = pending[k].hdr
                  /\ DOMAIN pending[k].slot \subseteq DOMAIN p[k].slot
             /\ R!Drain(p)
             /\ DOMAIN pending' \subseteq DOMAIN p
             /\ \A k \in DOMAIN pending' : pending'[k] = p[k]
<1> DEFINE f == net[n].frame
           i == net[n].idx
           p == R!Filed(f, i)
<1>1. f \in Frames /\ i \in 0 .. Total(f.size) - 1 /\ i \in 0 .. RP!Total(f.size) - 1
  BY InFlightTyped, SameTotal DEF Consistent, Typed
<1>2. RP!TypeOK /\ p = RP!Filed(f, i) /\ RP!Drain(p)
  BY SameTypes, SameFiled, SameDrain DEF Consistent, Typed, R!Accept
<1>3. f.id \in DOMAIN pending => pending[f.id].hdr = f
  <2>1. f.id \in DOMAIN pending => pending[f.id].hdr.id = f.id
    BY DEF Consistent, Typed, R!TypeOK, R!IsEntry
  <2>2. f \in InUse /\ (f.id \in DOMAIN pending => pending[f.id].hdr \in InUse)
    BY DEF InUse
  <2> QED
    BY <2>1, <2>2 DEF Consistent, Agreed
<1>4. /\ DOMAIN p = DOMAIN pending \cup {f.id}
      /\ DOMAIN p \subseteq RP!Ids
      /\ \A k \in DOMAIN p : RP!IsEntry(k, p[k])
  BY <1>1, <1>2, RP!FiledTyped, LinkFrames, StreamNetAssumption
<1>5. /\ RP!Matched(p)
      /\ p[f.id].hdr = f /\ i \in DOMAIN p[f.id].slot
      /\ \A k \in DOMAIN pending : /\ p[k].hdr = pending[k].hdr
                                   /\ DOMAIN pending[k].slot \subseteq DOMAIN p[k].slot
  BY <1>1, <1>2, <1>3, RP!FiledMatched, LinkFrames, StreamNetAssumption DEF Consistent
<1>6. DOMAIN pending' \subseteq DOMAIN p /\ \A k \in DOMAIN pending' : pending'[k] = p[k]
  BY <1>2, <1>4, RP!DrainHands, LinkFrames, StreamNetAssumption
<1>7. \A k \in DOMAIN p : R!IsEntry(k, p[k])
  BY <1>4 DEF RP!IsEntry, R!IsEntry, RP!Packets, R!Packets, RP!Total, R!Total
<1>8. R!Drain(p)
  BY DEF R!Accept
<1> QED
  BY <1>4, <1>5, <1>6, <1>7, <1>8 DEF RP!Ids

\* A datagram leaves the sender alone and brings no frame into use.
LEMMA DeliverConsistent ==
  ASSUME Consistent, NEW n \in 1 .. Overtake + 1, Deliver(n)
  PROVE  Consistent'
<1> DEFINE f == net[n].frame
           i == net[n].idx
<1>1. n \in DOMAIN net /\ R!Receive(f, i) /\ net' = RemoveAt(net, n)
  BY DEF Deliver
<1>2. f \in Frames /\ i \in 0 .. RP!Total(f.size) - 1
  BY <1>1, InFlightTyped, SameTotal DEF Consistent, Typed
<1>3. Typed'
  BY TypedInductive DEF Consistent, Next
<1>4. R!WaitsOnIncompleteHead'
  <2>1. RP!Next
    BY <1>1, <1>2, SameReceive DEF RP!Next
  <2> QED
    BY <2>1, RP!HeadKept, SameTypes, SameHead, LinkFrames, StreamNetAssumption
    DEF Consistent, Typed
<1>5. /\ ~streamStarted' => nextDeliver' = 0
      /\ RP!Matched(pending')
      /\ \A k \in DOMAIN pending' : pending'[k].hdr \in InUse
  <2>0. \A k \in DOMAIN pending : pending[k].hdr \in InUse
    BY DEF InUse
  <2>1. CASE R!Ignore(f)
    BY <2>0, <2>1 DEF R!Ignore, Consistent
  <2>2. CASE R!Accept(f, i)
    <3> DEFINE p == R!Filed(f, i)
    <3>1. /\ DOMAIN p = DOMAIN pending \cup {f.id}
          /\ RP!Matched(p)
          /\ p[f.id].hdr = f
          /\ \A k \in DOMAIN pending : p[k].hdr = pending[k].hdr
          /\ DOMAIN pending' \subseteq DOMAIN p
          /\ \A k \in DOMAIN pending' : pending'[k] = p[k]
      BY <1>1, <2>2, AcceptFacts
    <3> HIDE DEF p
    <3>2. f \in InUse
      BY <1>1 DEF InUse
    <3>3. RP!Matched(pending')
      BY <3>1 DEF RP!Matched
    <3> QED
      BY <2>0, <2>2, <3>1, <3>2, <3>3 DEF R!Accept
  <2> QED
    BY <1>1, <2>1, <2>2 DEF R!Receive
<1>6. UNCHANGED <<frameId, encQ, cur>>
  BY DEF Deliver, sender
<1>7. InUse' \subseteq InUse
  <2>1. \A m \in DOMAIN net' : \E l \in DOMAIN net : net'[m] = net[l]
    <3>1. /\ DOMAIN net' = 1 .. Len(net) - 1
          /\ \A m \in 1 .. Len(net) - 1 : net'[m] = IF m < n THEN net[m] ELSE net[m + 1]
      BY <1>1, RemoveAtFacts DEF Consistent, Typed, NetTyped
    <3>2. Len(net) \in Nat /\ DOMAIN net = 1 .. Len(net)
      BY DEF Consistent, Typed, NetTyped
    <3> QED
      BY <3>1, <3>2
  <2> QED
    BY <1>5, <1>6, <2>1 DEF InUse
<1>8. Agreed'
  BY <1>6, <1>7, AgreedKept DEF Consistent
<1>9. Numbered'
  BY <1>6 DEF Consistent, Numbered
<1> QED
  BY <1>3, <1>4, <1>5, <1>8, <1>9 DEF Consistent

LEMMA InitConsistent == Init => Consistent
<1> SUFFICES ASSUME Init PROVE Consistent
  OBVIOUS
<1>1. DOMAIN net = {} /\ pending = R!Empty /\ DOMAIN pending = {} /\ cur = NoFrame
      /\ frameId = 0 /\ nextDeliver = 0 /\ Len(encQ) = 0
  BY DEF Init, R!Init, R!Empty
<1>2. InUse = {}
  BY <1>1 DEF InUse
<1> QED
  BY <1>1, <1>2, InitTyped, StreamLinkAssumption
  DEF Consistent, R!WaitsOnIncompleteHead, Numbered, Agreed, RP!Matched

\* Steps that leave the receiver alone: what is left to show is the sender's side.
LEMMA ReceiverAlone ==
  ASSUME Consistent, [Next]_vars, UNCHANGED receiver, Numbered', Agreed'
  PROVE  Consistent'
<1>1. Typed'
  BY TypedInductive DEF Consistent
<1>2. R!WaitsOnIncompleteHead'
  BY DEF Consistent, receiver, R!WaitsOnIncompleteHead, R!Complete, R!Packets
<1> QED
  BY <1>1, <1>2 DEF Consistent, receiver, RP!Matched

LEMMA ConsistentInductive ==
  ASSUME OneBitstream, Consistent, [Next]_vars
  PROVE  Consistent'
<1>0. /\ Typed /\ Numbered /\ Agreed
      /\ Len(net) \in Nat /\ DOMAIN net = 1 .. Len(net)
  BY DEF Consistent, Typed, NetTyped
<1>1. CASE Prime
  <2>1. frameId' = frameId + 1
    BY <1>0, <1>1, NextId DEF Prime, FrameSent
  <2>2. Len(encQ') = Len(encQ) + 1
    BY <1>0, <1>1 DEF Prime, Typed, SenderTyped
  <2>3. Numbered'
    BY <1>0, <1>1, <2>1, <2>2, StreamLinkAssumption
    DEF Prime, FrameSent, Numbered, Typed, SenderTyped
  <2>4. InUse' \subseteq InUse
    BY <1>1 DEF Prime, FrameSent, receiver, InUse
  <2> QED
    BY <1>0, <1>1, <2>1, <2>3, <2>4, AgreedKept, ReceiverAlone DEF Prime
<1>2. CASE Encode
  <2>1. /\ cur = NoFrame /\ frameId < LastId /\ Len(encQ) = OutputDelay
        /\ Len(encQ') = OutputDelay
        /\ UNCHANGED <<frameId, net, receiver>>
        /\ cur'.id = frameId
    BY <1>0, <1>2, StreamLinkAssumption DEF Encode, Typed, SenderTyped
  <2>2. frameId \in Nat /\ OutputDelay <= frameId
    BY <1>0, <2>1, StreamNetAssumption, StreamLinkAssumption
    DEF Numbered, Typed, SenderTyped
  <2>3. Numbered'
    BY <1>0, <2>1, <2>2, StreamLinkAssumption DEF Numbered
  <2>4. InUse' \subseteq InUse \cup {cur'}
    BY <2>1 DEF receiver, InUse
  <2>5. \A f \in InUse : f.id \in Nat /\ f.id < frameId
    <3>1. \A f \in InUse : f.id \in Nat /\ f.id <= frameId /\ (f.id = frameId => f = cur)
      BY <1>0, InUseTyped DEF Frames, Agreed
    <3> QED
      BY <2>1, <2>2, <3>1 DEF NoFrame
  <2>6. Agreed'
    BY <1>0, <2>1, <2>2, <2>4, <2>5 DEF Agreed
  <2> QED
    BY <2>1, <2>3, <2>6, ReceiverAlone
<1>3. CASE SendFragment
  <2>1. InUse' \subseteq InUse
    <3>1. cur' = cur \/ cur' = NoFrame
      BY <1>3 DEF SendFragment, FrameSent
    <3>2. \A m \in DOMAIN net' : net'[m].frame = cur \/ \E l \in DOMAIN net : net'[m] = net[l]
      BY <1>0, <1>3 DEF SendFragment
    <3>3. cur \in InUse
      BY <1>3 DEF SendFragment, InUse
    <3> QED
      BY <1>3, <3>1, <3>2, <3>3 DEF SendFragment, receiver, InUse
  <2>2. CASE FrameSent
    BY <1>0, <1>3, <2>1, <2>2, NumberedKept, AgreedKept, ReceiverAlone DEF SendFragment
  <2>3. CASE UNCHANGED <<frameId, cur>>
    BY <1>0, <1>3, <2>1, <2>3, AgreedKept, ReceiverAlone DEF SendFragment, Numbered
  <2> QED
    BY <1>3, <2>2, <2>3 DEF SendFragment
<1>4. CASE SendError
  <2>1. InUse' \subseteq InUse
    BY <1>4 DEF SendError, FrameSent, receiver, InUse
  <2> QED
    BY <1>0, <1>4, <2>1, NumberedKept, AgreedKept, ReceiverAlone DEF SendError
<1>5. CASE SenderRestart
  BY <1>5 DEF SenderRestart, Fault, OneBitstream
<1>6. CASE ReceiverRestart
  <2>1. pending' = R!Empty /\ DOMAIN pending' = {} /\ nextDeliver' = 0
        /\ UNCHANGED <<frameId, encQ, cur, net>>
    BY <1>6 DEF ReceiverRestart, R!Empty, sender
  <2>2. InUse' \subseteq InUse
    BY <2>1 DEF InUse
  <2>3. Typed' /\ Agreed' /\ Numbered'
    BY <1>0, <2>1, <2>2, AgreedKept, TypedInductive DEF Consistent, Numbered
  <2> QED
    BY <2>1, <2>3 DEF Consistent, R!WaitsOnIncompleteHead, RP!Matched
<1>7. CASE Lose
  <2>1. PICK n \in DOMAIN net : net' = RemoveAt(net, n)
    BY <1>7 DEF Lose
  <2>2. \A m \in DOMAIN net' : \E l \in DOMAIN net : net'[m] = net[l]
    <3>1. /\ DOMAIN net' = 1 .. Len(net) - 1
          /\ \A m \in 1 .. Len(net) - 1 : net'[m] = IF m < n THEN net[m] ELSE net[m + 1]
      BY <1>0, <2>1, RemoveAtFacts DEF Typed, NetTyped
    <3> QED
      BY <1>0, <3>1
  <2>3. InUse' \subseteq InUse
    BY <1>7, <2>2 DEF Lose, sender, receiver, InUse
  <2> QED
    BY <1>0, <1>7, <2>3, AgreedKept, ReceiverAlone DEF Lose, sender, Numbered
<1>8. CASE Duplicate
  <2>1. \A m \in DOMAIN net' : \E l \in DOMAIN net : net'[m] = net[l]
    BY <1>0, <1>8 DEF Duplicate
  <2>2. InUse' \subseteq InUse
    BY <1>8, <2>1 DEF Duplicate, sender, receiver, InUse
  <2> QED
    BY <1>0, <1>8, <2>2, AgreedKept, ReceiverAlone DEF Duplicate, sender, Numbered
<1>9. CASE \E n \in 1 .. Overtake + 1 : Deliver(n)
  BY <1>9, DeliverConsistent
<1>10. CASE UNCHANGED vars
  <2>1. UNCHANGED receiver /\ UNCHANGED <<frameId, encQ, cur, net>>
    BY <1>10 DEF vars, sender
  <2>2. InUse' = InUse
    BY <2>1 DEF receiver, InUse
  <2> QED
    BY <1>0, <2>1, <2>2, AgreedKept, ReceiverAlone DEF Numbered
<1> QED
  BY <1>1, <1>2, <1>3, <1>4, <1>5, <1>6, <1>7, <1>8, <1>9, <1>10 DEF Next

LEMMA AlwaysConsistent == OneBitstream => (Spec => []Consistent)
<1> SUFFICES ASSUME OneBitstream PROVE Spec => []Consistent
  OBVIOUS
<1>1. Consistent /\ [Next]_vars => Consistent'
  BY ConsistentInductive
<1> QED
  BY <1>1, InitConsistent, PTL DEF Spec

\* R and RP show the same pictures.
LEMMA SameShown ==
  /\ \A e : RP!Picture(e) = R!Picture(e)
  /\ RP!FS!Next <=> R!FS!Next
<1>1. \A e : RP!Picture(e) = R!Picture(e)
  BY DEF RP!Picture, R!Picture, RP!Garbled, R!Garbled, RP!Packets, R!Packets, RP!Total, R!Total
<1>2. RP!FS!Next <=> R!FS!Next
  BY DEF RP!FS!Next, R!FS!Next, RP!FS!Show, R!FS!Show, RP!Shown, R!Shown,
         RP!Picture, R!Picture, RP!Garbled, R!Garbled, RP!Packets, R!Packets,
         RP!Total, R!Total
<1> QED
  BY <1>1, <1>2

LEMMA LinkShows ==
  ASSUME OneBitstream, Consistent, [Next]_vars
  PROVE  [R!FS!Next]_<<nextDeliver, R!Shown>>
<1>1. CASE UNCHANGED receiver
  BY <1>1 DEF receiver, R!Shown, R!Picture, R!Packets
<1>2. CASE ReceiverRestart
  <2>1. nextDeliver' = 0 /\ handed' = R!Empty
    BY <1>2 DEF ReceiverRestart
  <2>2. R!Shown' = {}
    BY <2>1 DEF R!Shown, R!Empty
  <2>3. nextDeliver <= IdMod /\ IdMod \in 0 .. IdMod /\ IdMod % IdMod = 0
    BY StreamNetAssumption DEF Consistent, Typed, R!TypeOK, R!Ids
  <2> QED
    BY <2>1, <2>2, <2>3 DEF R!FS!Next, R!FS!Show
<1>3. ASSUME NEW n \in 1 .. Overtake + 1, Deliver(n)
      PROVE  R!FS!Next
  <2> DEFINE f == net[n].frame
             i == net[n].idx
  <2>1. n \in DOMAIN net /\ R!Receive(f, i)
    BY <1>3 DEF Deliver
  <2>2. f \in Frames /\ i \in 0 .. RP!Total(f.size) - 1
    BY <2>1, InFlightTyped, SameTotal DEF Consistent, Typed
  <2>3. CASE R!Ignore(f)
    <3>1. R!Shown' = {} /\ nextDeliver' = nextDeliver
      BY <2>3 DEF R!Ignore, R!Shown, R!Empty
    <3>2. nextDeliver \in Nat /\ nextDeliver < IdMod
      BY StreamNetAssumption DEF Consistent, Typed, R!TypeOK, R!Ids
    <3>3. nextDeliver % IdMod = nextDeliver /\ nextDeliver \in 0 .. IdMod
      BY <3>2, SmallRemainder, StreamNetAssumption
    <3> QED
      BY <3>1, <3>3 DEF R!FS!Next, R!FS!Show
  <2>4. CASE R!Accept(f, i)
    <3>1. RP!Matched(RP!Filed(f, i))
      BY <2>1, <2>4, AcceptFacts, SameFiled
    <3> QED
      BY <2>1, <2>2, <3>1, RP!ReceiveShows, SameTypes, SameHead, SameReceive, SameShown,
         LinkFrames, StreamNetAssumption DEF Consistent, Typed
  <2> QED
    BY <2>1, <2>3, <2>4 DEF R!Receive
<1> QED
  BY <1>1, <1>2, <1>3
  DEF Next, vars, Prime, Encode, SendFragment, SendError, SenderRestart, Lose, Duplicate

(***************************************************************************)
(* End to end the link is a FrameStream: through any loss, duplication,    *)
(* reordering, failed sendto and restart of the receiver the decoder gets  *)
(* whole frames of the sender in the order of their ids and none twice,    *)
(* where a receiver's restart shows as the wrap does, next going to 0.     *)
(***************************************************************************)
THEOREM LinkImplementsFrameStream == OneBitstream => (Spec => InOrderWholeFrames)
<1> SUFFICES ASSUME OneBitstream PROVE Spec => InOrderWholeFrames
  OBVIOUS
<1>1. Init => R!FS!Init
  BY DEF Init, R!Init, R!FS!Init, R!Shown, R!Empty
<1>2. Consistent /\ [Next]_vars => [R!FS!Next]_<<nextDeliver, R!Shown>>
  BY LinkShows
<1> QED
  BY <1>1, <1>2, AlwaysConsistent, PTL
  DEF Spec, InOrderWholeFrames, R!InOrderWholeFrames, R!FS!Spec

(***************************************************************************)
(* No frame the decoder gets is put together from two: a second sender     *)
(* process or a wrap of the ids is the only way to that.                   *)
(***************************************************************************)
THEOREM MixedOnlyAcrossBitstreams == OneBitstream => (Spec => []NoMixedFrame)
<1> SUFFICES ASSUME OneBitstream PROVE Spec => []NoMixedFrame
  OBVIOUS
<1>1. Init => NoMixedFrame
  BY DEF Init, R!Init, R!Empty, NoMixedFrame
<1>2. Consistent /\ NoMixedFrame /\ [Next]_vars => NoMixedFrame'
  <2> SUFFICES ASSUME Consistent, NoMixedFrame, [Next]_vars PROVE NoMixedFrame'
    OBVIOUS
  <2>1. CASE UNCHANGED receiver
    BY <2>1 DEF receiver, NoMixedFrame, R!Picture, R!Garbled, R!Packets
  <2>2. CASE handed' = R!Empty
    BY <2>2 DEF NoMixedFrame, R!Empty
  <2>3. ASSUME NEW n \in DOMAIN net, R!Accept(net[n].frame, net[n].idx)
        PROVE  NoMixedFrame'
    <3> DEFINE p == R!Filed(net[n].frame, net[n].idx)
    <3>1. /\ DOMAIN p \subseteq 0 .. IdMod - 1
          /\ \A k \in DOMAIN p : R!IsEntry(k, p[k])
          /\ RP!Matched(p) /\ R!Drain(p)
      BY <2>3, AcceptFacts
    <3> HIDE DEF p
    <3>2. \A k \in DOMAIN p : RP!IsEntry(k, p[k])
      BY <3>1 DEF RP!IsEntry, R!IsEntry, RP!Packets, R!Packets, RP!Total, R!Total
    <3>3. DOMAIN handed' \subseteq DOMAIN p
          /\ \A k \in DOMAIN handed' : handed'[k] = p[k] /\ RP!Complete(p[k])
      BY <3>1, RP!DrainHands, SameDrain, LinkFrames, StreamNetAssumption DEF RP!Ids
    <3>4. ASSUME NEW k \in DOMAIN handed'
          PROVE  R!Picture(handed'[k]) # R!Garbled
      <4>1. /\ RP!Picture(p[k]) = p[k].hdr
            /\ p[k].hdr \in Frames
        BY <3>1, <3>2, <3>3, RP!CompleteIsWhole, LinkFrames, StreamNetAssumption
      <4> QED
        BY <3>3, <4>1, SameShown DEF R!Garbled, Frames
    <3> QED
      BY <3>4 DEF NoMixedFrame, R!Picture, R!Garbled, R!Packets
  <2>4. ASSUME NEW n \in 1 .. Overtake + 1, Deliver(n)
        PROVE  NoMixedFrame'
    BY <2>2, <2>3, <2>4 DEF Deliver, R!Receive, R!Ignore
  <2> QED
    BY <2>1, <2>2, <2>4
    DEF Next, vars, Prime, Encode, SendFragment, SendError, SenderRestart, Lose,
        Duplicate, ReceiverRestart
<1> QED
  BY <1>1, <1>2, AlwaysConsistent, PTL DEF Spec

-----------------------------------------------------------------------------
(***************************************************************************)
(* Damage is local.  Of a frame no fault touched, each fragment sent so    *)
(* far is safe: it is stored at the receiver, or it is in flight with no   *)
(* newer frame before it in the path or in the receiver's map.  A newer    *)
(* frame can then reach the receiver only by overtaking, which counts as a *)
(* fault, or after the older one is whole.                                 *)
(***************************************************************************)
PathFaultsOnly == OneBitstream /\ "receiver" \notin FaultKinds

Stored(f, i) ==
  /\ f.id \in DOMAIN pending
  /\ pending[f.id].hdr = f
  /\ i \in DOMAIN pending[f.id].slot

Ahead(f, i) ==
  \E n \in DOMAIN net :
    /\ net[n] = [frame |-> f, idx |-> i]
    /\ \A m \in 1 .. n - 1 : net[m].frame.id <= f.id

Safe(f, i) ==
  \/ Stored(f, i)
  \/ Ahead(f, i) /\ \A k \in DOMAIN pending : k <= f.id

Unhurt(id) == nextDeliver <= id /\ id \notin hit

Undamaged ==
  /\ cur # NoFrame /\ Unhurt(frameId) => \A i \in 0 .. pos - 1 : Safe(cur, i)
  /\ \A id \in OutputDelay .. frameId - 1 :
       Unhurt(id) => \E f \in Frames : /\ f.id = id
                                     /\ \A i \in 0 .. Total(f.size) - 1 : Safe(f, i)

LinkInv ==
  /\ Consistent
  /\ Undamaged
  /\ streamStarted => OutputDelay <= nextDeliver

LEMMA AheadRemoved ==
  ASSUME net \in Seq(Datagrams), NEW n \in DOMAIN net, net' = RemoveAt(net, n),
         NEW f, NEW i, Ahead(f, i), net[n] # [frame |-> f, idx |-> i]
  PROVE  Ahead(f, i)'
<1>1. PICK m \in DOMAIN net :
        /\ net[m] = [frame |-> f, idx |-> i]
        /\ \A l \in 1 .. m - 1 : net[l].frame.id <= f.id
  BY DEF Ahead
<1>2. /\ DOMAIN net' = 1 .. Len(net) - 1
      /\ \A l \in 1 .. Len(net) - 1 : net'[l] = IF l < n THEN net[l] ELSE net[l + 1]
      /\ Len(net) \in Nat /\ DOMAIN net = 1 .. Len(net)
  BY RemoveAtFacts
<1>3. CASE m < n
  <2>1. m \in DOMAIN net' /\ net'[m] = net[m]
    BY <1>2, <1>3
  <2>2. \A l \in 1 .. m - 1 : net'[l] = net[l]
    BY <1>2, <1>3
  <2> QED
    BY <1>1, <2>1, <2>2 DEF Ahead
<1>4. CASE n < m
  <2>1. m - 1 \in DOMAIN net' /\ net'[m - 1] = net[m]
    BY <1>2, <1>4
  <2>2. \A l \in 1 .. (m - 1) - 1 : \E j \in 1 .. m - 1 : net'[l] = net[j]
    BY <1>2, <1>4
  <2> QED
    BY <1>1, <2>1, <2>2 DEF Ahead
<1> QED
  BY <1>1, <1>2, <1>3, <1>4

LEMMA AheadAppended ==
  ASSUME net \in Seq(Datagrams), NEW d \in Datagrams, net' = Append(net, d),
         NEW f, NEW i, Ahead(f, i)
  PROVE  Ahead(f, i)'
<1>1. PICK m \in DOMAIN net :
        /\ net[m] = [frame |-> f, idx |-> i]
        /\ \A l \in 1 .. m - 1 : net[l].frame.id <= f.id
  BY DEF Ahead
<1>2. m \in DOMAIN net' /\ \A l \in 1 .. m : net'[l] = net[l]
  OBVIOUS
<1> QED
  BY <1>1, <1>2 DEF Ahead

\* Whoever is safe is in use.
LEMMA SafeInUse ==
  ASSUME NEW f, NEW i, Safe(f, i)
  PROVE  f \in InUse
<1>1. CASE Stored(f, i)
  BY <1>1 DEF Stored, InUse
<1>2. CASE Ahead(f, i)
  <2>1. PICK n \in DOMAIN net : net[n] = [frame |-> f, idx |-> i]
    BY <1>2 DEF Ahead
  <2>2. net[n].frame = f
    BY <2>1
  <2> QED
    BY <2>2 DEF InUse
<1> QED
  BY <1>1, <1>2 DEF Safe

\* No id in use is the last before the wrap.
LEMMA BelowWrap ==
  ASSUME OneBitstream, Consistent, NEW f \in InUse
  PROVE  /\ f.id \in Nat /\ f.id + 1 < IdMod
         /\ OutputDelay <= f.id /\ f.id <= frameId
         /\ frameId \in Nat
<1>1. f.id \in Nat /\ frameId \in Nat
  BY InUseTyped, StreamNetAssumption DEF Consistent, Typed, SenderTyped, Frames
<1>2. OutputDelay <= f.id /\ f.id <= frameId /\ (f.id = frameId => f = cur)
  BY DEF Consistent, Agreed
<1>3. f = cur => cur # NoFrame
  BY <1>1 DEF NoFrame
<1> QED
  BY <1>1, <1>2, <1>3, StreamLinkAssumption, StreamNetAssumption
  DEF OneBitstream, Consistent, Numbered

LEMMA PendingInUse ==
  ASSUME Consistent, NEW k \in DOMAIN pending
  PROVE  pending[k].hdr \in InUse /\ pending[k].hdr.id = k
  BY DEF Consistent, Typed, R!TypeOK, R!IsEntry, InUse

\* An accepted datagram's drain, which never reaches the wrap here.
LEMMA AcceptDrains ==
  ASSUME OneBitstream, LinkInv, NEW n \in DOMAIN net, R!Accept(net[n].frame, net[n].idx)
  PROVE  LET p == R!Filed(net[n].frame, net[n].idx)
         IN  /\ nextDeliver \in Nat /\ nextDeliver' \in Nat /\ nextDeliver <= nextDeliver'
             /\ OutputDelay <= nextDeliver'
             /\ \A k \in DOMAIN p : k \in Nat /\ k <= frameId
             /\ \E k \in DOMAIN p : nextDeliver' <= k + 1
             /\ DOMAIN pending' = {k \in DOMAIN p : k >= nextDeliver'}
             /\ \A k \in DOMAIN pending' : pending'[k] = p[k]
             /\ DOMAIN handed' = {k \in DOMAIN p : k < nextDeliver' /\ R!Complete(p[k])}
             /\ \A g \in DOMAIN p :
                  (\A k \in DOMAIN p : k <= g) /\ g < nextDeliver' => R!Complete(p[g])
<1> DEFINE f == net[n].frame
           p == R!Filed(f, net[n].idx)
<1>1. DOMAIN p = DOMAIN pending \cup {f.id} /\ DOMAIN p \subseteq 0 .. IdMod - 1 /\ R!Drain(p)
  BY AcceptFacts DEF LinkInv
<1> HIDE DEF p
<1>2. f \in InUse
  BY DEF InUse
<1>3. \A k \in DOMAIN p : k \in Nat /\ k + 1 < IdMod /\ OutputDelay <= k /\ k <= frameId
  BY <1>1, <1>2, BelowWrap, PendingInUse DEF LinkInv
<1>4. /\ nextDeliver' \in RP!Ids
      /\ \E k \in DOMAIN p : nextDeliver' <= k + 1
      /\ \A m \in RP!Ids : (\A k \in DOMAIN p : m <= k) => m <= nextDeliver'
      /\ DOMAIN pending' = {k \in DOMAIN p : k >= nextDeliver'}
      /\ \A k \in DOMAIN pending' : pending'[k] = p[k]
      /\ DOMAIN handed' = {k \in DOMAIN p : k < nextDeliver' /\ RP!Complete(p[k])}
      /\ \A g \in DOMAIN p :
           (\A k \in DOMAIN p : k <= g) /\ g < nextDeliver' => RP!Complete(p[g])
  <2>1. DOMAIN p \subseteq RP!Ids /\ RP!Drain(p)
    BY <1>1, SameDrain DEF RP!Ids
  <2> QED
    BY <2>1, <1>3, RP!DrainBelowWrap, LinkFrames, StreamNetAssumption
<1>5. nextDeliver \in RP!Ids /\ \A k \in DOMAIN p : nextDeliver <= k
  <2>1. nextDeliver \in 0 .. IdMod - 1 /\ nextDeliver <= f.id
    BY <1>2, BelowWrap
    DEF LinkInv, Consistent, Typed, R!TypeOK, R!Ids, R!Accept, R!Admitted
  <2>2. \A k \in DOMAIN pending : nextDeliver <= k
    BY DEF LinkInv, Consistent, R!WaitsOnIncompleteHead, R!Empty
  <2> QED
    BY <1>1, <2>1, <2>2 DEF RP!Ids
<1>6. OutputDelay \in RP!Ids
  BY <1>2, BelowWrap, StreamLinkAssumption, StreamNetAssumption DEF RP!Ids, LinkInv
<1>7. nextDeliver <= nextDeliver' /\ OutputDelay <= nextDeliver'
  BY <1>3, <1>4, <1>5, <1>6
<1>8. nextDeliver \in Nat /\ nextDeliver' \in Nat
  BY <1>4, <1>5, StreamNetAssumption DEF RP!Ids
<1> QED
  BY <1>3, <1>4, <1>7, <1>8, SameComplete DEF p

\* A delivered datagram leaves safe what was safe, in frames still to come and
\* not hit by this step.
LEMMA DeliverSafe ==
  ASSUME OneBitstream, LinkInv, NEW n \in 1 .. Overtake + 1, Deliver(n),
         NEW g, NEW j, Safe(g, j), g.id \notin hit', nextDeliver' <= g.id
  PROVE  Safe(g, j)'
<1> DEFINE f == net[n].frame
           i == net[n].idx
           p == R!Filed(f, i)
<1>1. /\ n \in DOMAIN net /\ net' = RemoveAt(net, n) /\ R!Receive(f, i)
      /\ net \in Seq(Datagrams)
      /\ \A m \in OvertakenOrEarly(n) : net[m].frame.id # g.id
      /\ Len(net) \in Nat /\ DOMAIN net = 1 .. Len(net)
  BY DEF Deliver, LinkInv, Consistent, Typed, NetTyped
<1>2. f \in InUse /\ g \in InUse /\ f.id \in Nat /\ g.id \in Nat
      /\ (f.id = g.id => f = g)
  <2>1. f \in InUse /\ g \in InUse
    BY <1>1, SafeInUse DEF InUse
  <2> QED
    BY <2>1, BelowWrap DEF LinkInv, Consistent, Agreed
<1>3. CASE R!Ignore(f)
  <2>1. UNCHANGED <<pending, nextDeliver, streamStarted>>
    BY <1>3 DEF R!Ignore
  <2>2. CASE Stored(g, j)
    BY <2>1, <2>2 DEF Stored, Safe
  <2>3. CASE Ahead(g, j) /\ \A k \in DOMAIN pending : k <= g.id
    <3>1. f.id # g.id
      <4>1. CASE streamStarted
        <5>1. f.id < nextDeliver
          BY <1>2, <1>3, <4>1
          DEF R!Ignore, R!Admitted, LinkInv, Consistent, Typed, R!TypeOK, R!Ids
        <5>2. nextDeliver <= g.id /\ nextDeliver \in Int
          BY <2>1 DEF LinkInv, Consistent, Typed, R!TypeOK, R!Ids
        <5> QED
          BY <1>2, <5>1, <5>2
      <4>2. CASE ~streamStarted
        <5>1. n \in OvertakenOrEarly(n)
          BY <2>1, <4>2 DEF OvertakenOrEarly
        <5> QED
          BY <1>1, <5>1
      <4> QED
        BY <4>1, <4>2
    <3>2. net[n] # [frame |-> g, idx |-> j]
      BY <3>1
    <3>3. Ahead(g, j)'
      BY <1>1, <2>3, <3>2, AheadRemoved
    <3> QED
      BY <2>1, <2>3, <3>3 DEF Safe
  <2> QED
    BY <2>2, <2>3 DEF Safe
<1>4. CASE R!Accept(f, i)
  <2>1. /\ DOMAIN p = DOMAIN pending \cup {f.id}
        /\ p[f.id].hdr = f /\ i \in DOMAIN p[f.id].slot
        /\ \A k \in DOMAIN pending : /\ p[k].hdr = pending[k].hdr
                                     /\ DOMAIN pending[k].slot \subseteq DOMAIN p[k].slot
    BY <1>1, <1>4, AcceptFacts DEF LinkInv
  <2>2. /\ DOMAIN pending' = {k \in DOMAIN p : k >= nextDeliver'}
        /\ \A k \in DOMAIN pending' : pending'[k] = p[k]
        /\ nextDeliver' \in Nat
    BY <1>1, <1>4, AcceptDrains
  <2> HIDE DEF p
  <2>3. ASSUME g.id \in DOMAIN p, p[g.id].hdr = g, j \in DOMAIN p[g.id].slot
        PROVE  Stored(g, j)'
    <3>1. g.id \in DOMAIN pending'
      BY <1>2, <2>2, <2>3
    <3> QED
      BY <2>2, <2>3, <3>1 DEF Stored
  <2>4. CASE Stored(g, j)
    BY <2>1, <2>3, <2>4 DEF Stored, Safe
  <2>5. CASE Ahead(g, j) /\ \A k \in DOMAIN pending : k <= g.id
    <3>1. CASE net[n] = [frame |-> g, idx |-> j]
      <4>1. f = g /\ i = j
        BY <3>1
      <4> QED
        BY <2>1, <2>3, <4>1 DEF Safe
    <3>2. CASE net[n] # [frame |-> g, idx |-> j]
      <4>1. Ahead(g, j)'
        BY <1>1, <2>5, <3>2, AheadRemoved
      <4>2. f.id <= g.id
        <5>1. PICK m \in DOMAIN net :
                /\ net[m] = [frame |-> g, idx |-> j]
                /\ \A l \in 1 .. m - 1 : net[l].frame.id <= g.id
          BY <2>5 DEF Ahead
        <5>2. CASE n < m
          BY <1>1, <5>1, <5>2
        <5>3. CASE m < n /\ f.id # g.id
          <6>1. net[m].frame = g
            BY <5>1
          <6>2. m \in OvertakenOrEarly(n)
            BY <1>1, <5>1, <5>3, <6>1 DEF OvertakenOrEarly
          <6> QED
            BY <1>1, <6>1, <6>2
        <5>4. m # n
          BY <3>2, <5>1
        <5> QED
          BY <1>1, <1>2, <5>1, <5>2, <5>3, <5>4
      <4>3. \A k \in DOMAIN pending' : k <= g.id
        BY <2>1, <2>2, <2>5, <4>2
      <4> QED
        BY <4>1, <4>3 DEF Safe
    <3> QED
      BY <3>1, <3>2
  <2> QED
    BY <2>4, <2>5 DEF Safe
<1> QED
  BY <1>1, <1>3, <1>4 DEF R!Receive

\* The frames a drain passes over are delivered or hit.
LEMMA DeliverLocal ==
  ASSUME OneBitstream, LinkInv, NEW n \in 1 .. Overtake + 1, Deliver(n), streamStarted,
         NEW g, g \in nextDeliver .. nextDeliver' - 1, g \notin hit'
  PROVE  g \in DOMAIN handed'
<1> DEFINE f == net[n].frame
           i == net[n].idx
           p == R!Filed(f, i)
<1>1. /\ n \in DOMAIN net /\ R!Receive(f, i)
      /\ \A m \in OvertakenOrEarly(n) : net[m].frame.id # g
      /\ hit \subseteq hit'
      /\ Len(net) \in Nat /\ DOMAIN net = 1 .. Len(net)
  BY DEF Deliver, LinkInv, Consistent, Typed, NetTyped
<1>2. R!Accept(f, i)
  <2>1. nextDeliver \in Int
    BY DEF LinkInv, Consistent, Typed, R!TypeOK, R!Ids
  <2>2. nextDeliver' # nextDeliver
    BY <2>1
  <2> QED
    BY <1>1, <2>2 DEF R!Receive, R!Ignore
<1>3. /\ DOMAIN p = DOMAIN pending \cup {f.id}
      /\ \A k \in DOMAIN p : R!IsEntry(k, p[k])
      /\ \A k \in DOMAIN pending : /\ p[k].hdr = pending[k].hdr
                                   /\ DOMAIN pending[k].slot \subseteq DOMAIN p[k].slot
  BY <1>1, <1>2, AcceptFacts DEF LinkInv
<1>4. /\ nextDeliver \in Nat /\ nextDeliver' \in Nat
      /\ \A k \in DOMAIN p : k \in Nat /\ k <= frameId
      /\ \E k \in DOMAIN p : nextDeliver' <= k + 1
      /\ DOMAIN handed' = {k \in DOMAIN p : k < nextDeliver' /\ R!Complete(p[k])}
      /\ \A h \in DOMAIN p :
           (\A k \in DOMAIN p : k <= h) /\ h < nextDeliver' => R!Complete(p[h])
  BY <1>1, <1>2, AcceptDrains
<1> HIDE DEF p
<1>5. g \in Nat /\ g < nextDeliver' /\ nextDeliver <= g
  <2>1. nextDeliver \in Nat /\ nextDeliver' \in Nat
    BY <1>4
  <2>2. \A a, b \in Nat : \A x \in a .. b - 1 : x \in Nat /\ x < b /\ a <= x
    OBVIOUS
  <2> QED
    BY <2>1, <2>2
<1>6. CASE \A k \in DOMAIN p : k <= g
  <2>1. g \in DOMAIN p
    BY <1>4, <1>5, <1>6
  <2> QED
    BY <1>4, <1>5, <1>6, <2>1
<1>7. ASSUME NEW k \in DOMAIN p, g < k
      PROVE  g \in DOMAIN handed'
  <2>1. g \in OutputDelay .. frameId - 1 /\ Unhurt(g)
    <3>1. frameId \in Int
      BY StreamNetAssumption DEF LinkInv, Consistent, Typed, SenderTyped
    <3> QED
      BY <1>1, <1>4, <1>5, <1>7, <3>1, StreamLinkAssumption DEF LinkInv, Unhurt
  <2>2. PICK h \in Frames : /\ h.id = g
                           /\ \A j \in 0 .. Total(h.size) - 1 : Safe(h, j)
    BY <2>1 DEF LinkInv, Undamaged
  <2>3. ASSUME NEW j \in 0 .. Total(h.size) - 1
        PROVE  Stored(h, j)
    <3> SUFFICES ASSUME Ahead(h, j), \A l \in DOMAIN pending : l <= g PROVE FALSE
      BY <2>2, <2>3 DEF Safe
    <3>1. k = f.id
      BY <1>3, <1>4, <1>5, <1>7
    <3>2. PICK m \in DOMAIN net :
            /\ net[m] = [frame |-> h, idx |-> j]
            /\ \A l \in 1 .. m - 1 : net[l].frame.id <= g
      BY <2>2 DEF Ahead
    <3>3. net[m].frame = h
      BY <3>2
    <3>4. m # n
      BY <1>5, <1>7, <2>2, <3>1, <3>3
    <3>5. ~(n < m)
      BY <1>1, <1>4, <1>5, <1>7, <3>1, <3>2
    <3>6. m \in OvertakenOrEarly(n)
      BY <1>1, <1>5, <1>7, <2>2, <3>1, <3>3, <3>4, <3>5 DEF OvertakenOrEarly
    <3> QED
      BY <1>1, <2>2, <3>3, <3>6
  <2>4. 0 \in 0 .. Total(h.size) - 1
    BY FrameTotal
  <2>5. g \in DOMAIN pending /\ pending[g].hdr = h
    BY <2>2, <2>3, <2>4 DEF Stored
  <2>6. 0 .. Total(h.size) - 1 \subseteq DOMAIN pending[g].slot
    BY <2>2, <2>3 DEF Stored
  <2>7. R!Complete(p[g])
    <3>1. p[g].hdr = h /\ g \in DOMAIN p /\ 0 .. Total(h.size) - 1 \subseteq DOMAIN p[g].slot
      BY <1>3, <2>5, <2>6
    <3>2. DOMAIN p[g].slot \subseteq R!Packets(p[g])
      BY <1>3, <3>1 DEF R!IsEntry
    <3>3. R!Packets(p[g]) = 0 .. Total(h.size) - 1
      BY <3>1, SameTotal DEF R!Packets
    <3> QED
      BY <3>1, <3>2, <3>3 DEF R!Complete
  <2> QED
    BY <1>3, <1>4, <1>5, <2>5, <2>7
<1> QED
  BY <1>4, <1>5, <1>6, <1>7

LEMMA DeliverLinkInv ==
  ASSUME OneBitstream, LinkInv, NEW n \in 1 .. Overtake + 1, Deliver(n)
  PROVE  LinkInv'
<1>1. /\ n \in DOMAIN net /\ R!Receive(net[n].frame, net[n].idx)
      /\ UNCHANGED <<frameId, cur, pos>>
      /\ hit \subseteq hit'
  BY DEF Deliver, sender
<1>2. /\ nextDeliver \in Int /\ nextDeliver' \in Int /\ nextDeliver <= nextDeliver'
      /\ streamStarted' => OutputDelay <= nextDeliver'
  <2>1. CASE R!Ignore(net[n].frame)
    BY <2>1 DEF R!Ignore, LinkInv, Consistent, Typed, R!TypeOK, R!Ids
  <2>2. CASE R!Accept(net[n].frame, net[n].idx)
    <3>1. /\ nextDeliver \in Nat /\ nextDeliver' \in Nat /\ nextDeliver <= nextDeliver'
          /\ OutputDelay <= nextDeliver'
      BY <1>1, <2>2, AcceptDrains
    <3> QED
      BY <3>1
  <2> QED
    BY <1>1, <2>1, <2>2 DEF R!Receive
<1>3. ASSUME NEW id \in Int, Unhurt(id)'
      PROVE  Unhurt(id) /\ id \notin hit' /\ nextDeliver' <= id
  BY <1>1, <1>2, <1>3 DEF Unhurt
<1>4. Undamaged'
  <2>1. ASSUME cur' # NoFrame, Unhurt(frameId)', NEW i \in 0 .. pos' - 1
        PROVE  Safe(cur, i)'
    <3>1. PICK c : c = cur
      OBVIOUS
    <3>2. c.id = frameId /\ frameId \in Int /\ cur # NoFrame
      BY <1>1, <2>1, <3>1, StreamNetAssumption DEF LinkInv, Consistent, Typed, SenderTyped
    <3>3. Unhurt(frameId) /\ frameId \notin hit' /\ nextDeliver' <= frameId
      BY <1>1, <1>2, <2>1, <3>2 DEF Unhurt
    <3>4. Safe(c, i)
      BY <1>1, <2>1, <3>1, <3>2, <3>3 DEF LinkInv, Undamaged
    <3>5. Safe(c, i)'
      BY <3>2, <3>3, <3>4, DeliverSafe
    <3> QED
      BY <1>1, <3>1, <3>5 DEF Safe, Stored, Ahead
  <2>2. ASSUME NEW id \in OutputDelay .. frameId' - 1, Unhurt(id)'
        PROVE  \E f \in Frames : f.id = id /\ \A i \in 0 .. Total(f.size) - 1 : Safe(f, i)'
    <3>1. id \in OutputDelay .. frameId - 1 /\ id \in Int
      BY <1>1
    <3>2. Unhurt(id) /\ id \notin hit' /\ nextDeliver' <= id
      BY <1>3, <2>2, <3>1
    <3>3. PICK f \in Frames : f.id = id /\ \A i \in 0 .. Total(f.size) - 1 : Safe(f, i)
      BY <3>1, <3>2 DEF LinkInv, Undamaged
    <3>4. \A i \in 0 .. Total(f.size) - 1 : Safe(f, i)'
      BY <3>2, <3>3, DeliverSafe
    <3> QED
      BY <3>3, <3>4
  <2> QED
    BY <2>1, <2>2 DEF Undamaged
<1>5. Consistent'
  BY DeliverConsistent DEF LinkInv
<1> QED
  BY <1>2, <1>4, <1>5 DEF LinkInv

\* Steps of the sender and the path: what was safe stays safe, unless its frame
\* is hit, and the receiver does not move.
LEMMA PathSafe ==
  ASSUME LinkInv, [Next]_vars, UNCHANGED receiver, ~\E n \in 1 .. Overtake + 1 : Deliver(n),
         NEW g, NEW j, Safe(g, j), g.id \notin hit'
  PROVE  Safe(g, j)'
<1>1. net \in Seq(Datagrams) /\ Len(net) \in Nat /\ DOMAIN net = 1 .. Len(net)
  BY DEF LinkInv, Consistent, Typed, NetTyped
<1>2. Stored(g, j) => Stored(g, j)'
  BY DEF Stored, receiver
<1>3. ASSUME Ahead(g, j)
      PROVE  Ahead(g, j)'
  <2>1. CASE UNCHANGED net
    BY <1>3, <2>1 DEF Ahead
  <2>2. CASE \E d \in Datagrams : net' = Append(net, d)
    BY <1>1, <1>3, <2>2, AheadAppended
  <2>3. CASE Lose
    <3>1. PICK n \in DOMAIN net : net' = RemoveAt(net, n) /\ hit' = hit \cup {net[n].frame.id}
      BY <2>3 DEF Lose
    <3>2. net[n] # [frame |-> g, idx |-> j]
      BY <3>1
    <3> QED
      BY <1>1, <1>3, <3>1, <3>2, AheadRemoved
  <2>4. CASE SendFragment
    <3>1. [frame |-> cur, idx |-> pos] \in Datagrams
      BY <2>4 DEF SendFragment, LinkInv, Consistent, Typed, SenderTyped, Datagrams
    <3> QED
      BY <2>2, <2>4, <3>1 DEF SendFragment
  <2>5. CASE Duplicate
    BY <1>1, <2>2, <2>5 DEF Duplicate
  <2> QED
    BY <2>1, <2>3, <2>4, <2>5
    DEF Next, vars, Prime, Encode, SendError, SenderRestart, ReceiverRestart, sender
<1> QED
  BY <1>2, <1>3 DEF Safe, receiver

\* The frame being sent: its next fragment joins the end of the path.
LEMMA SendSafe ==
  ASSUME OneBitstream, LinkInv, SendFragment, NEW c, c = cur, NEW i, i = pos
  PROVE  Safe(c, i)'
<1>1. /\ net \in Seq(Datagrams) /\ Len(net) \in Nat /\ DOMAIN net = 1 .. Len(net)
      /\ cur # NoFrame /\ cur.id = frameId /\ UNCHANGED receiver
      /\ net' = Append(net, [frame |-> cur, idx |-> pos])
      /\ [frame |-> cur, idx |-> pos] \in Datagrams
  BY DEF SendFragment, LinkInv, Consistent, Typed, SenderTyped, NetTyped, Datagrams
<1>2. /\ Len(net) + 1 \in DOMAIN net'
      /\ net'[Len(net) + 1] = [frame |-> c, idx |-> i]
      /\ \A m \in 1 .. Len(net) : net'[m] = net[m] /\ m \in DOMAIN net
  BY <1>1
<1>3. \A m \in DOMAIN net : net[m].frame.id <= c.id
  <2>1. \A m \in DOMAIN net : net[m].frame \in InUse
    BY DEF InUse
  <2> QED
    BY <1>1, <2>1, BelowWrap DEF LinkInv
<1>4. \A k \in DOMAIN pending : k <= c.id
  BY <1>1, PendingInUse, BelowWrap DEF LinkInv
<1>5. \A m \in 1 .. (Len(net) + 1) - 1 : net'[m].frame.id <= c.id
  BY <1>1, <1>2, <1>3
<1>6. Ahead(c, i)'
  BY <1>2, <1>5 DEF Ahead
<1> QED
  BY <1>1, <1>4, <1>6 DEF Safe, receiver

\* Undamaged, with the frame being sent named.
LEMMA UndamagedBy ==
  ASSUME cur' # NoFrame /\ Unhurt(frameId)' => \A c : c = cur' => \A i \in 0 .. pos' - 1 : Safe(c, i)',
         \A id \in OutputDelay .. frameId' - 1 :
           Unhurt(id)' => \E f \in Frames : /\ f.id = id
                                          /\ \A i \in 0 .. Total(f.size) - 1 : Safe(f, i)'
  PROVE  Undamaged'
  BY DEF Undamaged, Safe, Stored, Ahead

LEMMA LinkInvInductive ==
  ASSUME PathFaultsOnly, LinkInv, [Next]_vars
  PROVE  LinkInv'
<1>0. OneBitstream /\ Consistent /\ Consistent' /\ ~ReceiverRestart /\ ~SenderRestart
  BY ConsistentInductive
  DEF PathFaultsOnly, OneBitstream, LinkInv, ReceiverRestart, SenderRestart, Fault
<1>1. CASE \E n \in 1 .. Overtake + 1 : Deliver(n)
  BY <1>0, <1>1, DeliverLinkInv
<1>2. CASE ~\E n \in 1 .. Overtake + 1 : Deliver(n)
  <2>1. UNCHANGED receiver /\ hit \subseteq hit'
    BY <1>0, <1>2
    DEF Next, vars, Prime, Encode, SendFragment, SendError, Lose, Duplicate
  <2>2. frameId \in Nat /\ frameId' \in Nat /\ pos \in Nat
        /\ (cur # NoFrame => cur \in Frames /\ cur.id = frameId)
    BY <1>0, StreamNetAssumption DEF Consistent, Typed, SenderTyped
  <2>3. \A id : Unhurt(id)' => Unhurt(id) /\ id \notin hit'
    BY <2>1 DEF Unhurt, receiver
  <2>4. ASSUME NEW id \in OutputDelay .. frameId - 1, Unhurt(id)'
        PROVE  \E f \in Frames : f.id = id /\ \A i \in 0 .. Total(f.size) - 1 : Safe(f, i)'
    <3>1. PICK f \in Frames : f.id = id /\ \A i \in 0 .. Total(f.size) - 1 : Safe(f, i)
      BY <2>3, <2>4 DEF LinkInv, Undamaged
    <3> QED
      BY <1>2, <2>1, <2>3, <2>4, <3>1, PathSafe
  <2>5. ASSUME cur # NoFrame, Unhurt(frameId), frameId \notin hit',
               NEW c, c = cur, NEW i \in 0 .. pos - 1
        PROVE  Safe(c, i)'
    <3>1. Safe(c, i)
      BY <2>5 DEF LinkInv, Undamaged
    <3> QED
      BY <1>2, <2>1, <2>2, <2>5, <3>1, PathSafe
  <2>6. Undamaged'
    <3>1. CASE UNCHANGED <<frameId, cur, pos>>
      <4>1. Unhurt(frameId)' => Unhurt(frameId) /\ frameId \notin hit'
        BY <2>1, <3>1 DEF Unhurt, receiver
      <4> QED
        BY <2>4, <2>5, <3>1, <4>1, UndamagedBy
    <3>2. CASE Prime
      <4>1. frameId' = frameId + 1 /\ cur' = NoFrame
        BY <1>0, <3>2, NextId DEF Prime, FrameSent, Consistent
      <4>2. frameId < OutputDelay
        BY <1>0, <2>2, <3>2, StreamLinkAssumption DEF Prime, Consistent, Numbered
      <4>3. OutputDelay .. frameId' - 1 = {}
        BY <2>2, <4>1, <4>2, StreamLinkAssumption
      <4> QED
        BY <4>1, <4>3, UndamagedBy
    <3>3. CASE Encode
      <4>1. frameId' = frameId /\ 0 .. pos' - 1 = {}
        BY <3>3 DEF Encode
      <4> QED
        BY <2>4, <4>1, UndamagedBy
    <3>4. CASE SendFragment
      <4>1. /\ cur # NoFrame /\ hit' = hit
            /\ \A c : c = cur => \A i : i = pos => Safe(c, i)'
        BY <1>0, <3>4, SendSafe DEF SendFragment
      <4>2. ASSUME Unhurt(frameId), NEW c, c = cur, NEW i \in 0 .. pos
            PROVE  Safe(c, i)'
        <5>1. i \in 0 .. pos - 1 \/ i = pos
          BY <2>2
        <5> QED
          BY <2>5, <4>1, <4>2, <5>1 DEF Unhurt
      <4>3. CASE LastFragment(pos, cur) /\ FrameSent
        <5>1. frameId' = frameId + 1 /\ cur' = NoFrame
          BY <1>0, <3>4, <4>1, <4>3, NumberedKept DEF Consistent, SendFragment, FrameSent
        <5>2. ASSUME Unhurt(frameId), NEW i \in 0 .. Total(cur.size) - 1, NEW c, c = cur
              PROVE  Safe(c, i)'
          BY <2>2, <4>1, <4>2, <4>3, <5>2, FrameTotal DEF LastFragment
        <5>3. ASSUME NEW id \in OutputDelay .. frameId' - 1, Unhurt(id)'
              PROVE  \E f \in Frames : /\ f.id = id
                                       /\ \A i \in 0 .. Total(f.size) - 1 : Safe(f, i)'
          <6>1. CASE id = frameId
            <7>1. PICK c : c = cur
              OBVIOUS
            <7> QED
              BY <2>2, <2>3, <4>1, <5>2, <5>3, <6>1, <7>1
          <6>2. CASE id \in OutputDelay .. frameId - 1
            BY <2>4, <5>3, <6>2
          <6> QED
            BY <2>2, <5>1, <6>1, <6>2, StreamLinkAssumption
        <5> QED
          BY <5>1, <5>3, UndamagedBy
      <4>4. CASE pos' = pos + 1 /\ UNCHANGED <<frameId, cur>>
        <5>1. Unhurt(frameId)' => Unhurt(frameId)
          BY <2>1, <4>4 DEF Unhurt, receiver
        <5>2. pos' - 1 = pos
          BY <2>2, <4>4
        <5> QED
          BY <2>4, <4>2, <4>4, <5>1, <5>2, UndamagedBy
      <4> QED
        BY <3>4, <4>3, <4>4 DEF SendFragment
    <3>5. CASE SendError
      <4>1. /\ frameId' = frameId + 1 /\ cur' = NoFrame /\ frameId \in hit'
        BY <1>0, <2>2, <3>5, NumberedKept DEF Consistent, SendError, FrameSent
      <4>2. ASSUME NEW id \in OutputDelay .. frameId' - 1, Unhurt(id)'
            PROVE  id \in OutputDelay .. frameId - 1
        BY <2>2, <2>3, <4>1, <4>2, StreamLinkAssumption
      <4> QED
        BY <2>4, <4>1, <4>2, UndamagedBy
    <3> QED
      BY <1>0, <1>2, <3>1, <3>2, <3>3, <3>4, <3>5 DEF Next, vars, sender, Lose, Duplicate
  <2> QED
    BY <1>0, <2>1, <2>6 DEF LinkInv, receiver
<1> QED
  BY <1>1, <1>2

(***************************************************************************)
(* Whatever the path loses, repeats or reorders and wherever sendto fails, *)
(* the receiver passes over no frame but one that was itself hit: a loss   *)
(* costs the frame it hits and no other.  (A restarted receiver forgets    *)
(* fragments it had, and a restarted sender's ids are older than the ones  *)
(* awaited: those faults are not local.)                                   *)
(***************************************************************************)
THEOREM DamageStaysLocal == PathFaultsOnly => (Spec => DamageIsLocal)
<1> SUFFICES ASSUME PathFaultsOnly PROVE Spec => DamageIsLocal
  OBVIOUS
<1>1. Init => LinkInv
  <2> SUFFICES ASSUME Init PROVE LinkInv
    OBVIOUS
  <2>1. cur = NoFrame /\ frameId = 0 /\ streamStarted = FALSE
    BY DEF Init, R!Init
  <2>2. OutputDelay .. frameId - 1 = {}
    BY <2>1, StreamLinkAssumption
  <2> QED
    BY <2>1, <2>2, InitConsistent DEF LinkInv, Undamaged
<1>2. LinkInv /\ [Next]_vars => LinkInv'
  BY LinkInvInductive
<1>3. LinkInv /\ [Next]_vars =>
        [streamStarted =>
           \A id \in nextDeliver .. nextDeliver' - 1 : id \in DOMAIN handed' \cup hit']_vars
  <2> SUFFICES ASSUME LinkInv, Next, streamStarted,
                      NEW id, id \in nextDeliver .. nextDeliver' - 1, id \notin hit'
               PROVE  id \in DOMAIN handed'
    OBVIOUS
  <2>1. OneBitstream /\ ~ReceiverRestart
    BY DEF PathFaultsOnly, ReceiverRestart, Fault
  <2>2. nextDeliver' # nextDeliver
    <3>1. nextDeliver \in Int
      BY DEF LinkInv, Consistent, Typed, R!TypeOK, R!Ids
    <3> QED
      BY <3>1
  <2>3. PICK n \in 1 .. Overtake + 1 : Deliver(n)
    BY <2>1, <2>2
    DEF Next, receiver, Prime, Encode, SendFragment, SendError, SenderRestart, Lose, Duplicate
  <2> QED
    BY <2>1, <2>3, DeliverLocal
<1> QED
  BY <1>1, <1>2, <1>3, PTL DEF Spec, DamageIsLocal

=============================================================================
