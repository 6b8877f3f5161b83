------------------------- MODULE Reassembly_proofs -------------------------
(***************************************************************************)
(* Proofs about the reassembly loop for every set of frames, every backlog *)
(* limit and every id width.  The argument has two layers.  Receiving      *)
(* preserves TypeOK, and a drain loop that stops leaves a head that is     *)
(* incomplete and few entries behind it, whatever was there before.  On    *)
(* top of it, Matched (a fragment sits in the entry of its own frame) is   *)
(* what makes everything handed over a whole frame.                        *)
(***************************************************************************)
EXTENDS Reassembly, StreamNet_proofs, FiniteSetTheorems

LEMMA FrameFacts ==
  ASSUME NEW f \in Frames
  PROVE  /\ f.id \in Ids
         /\ f.size \in 1 .. MaxFrameSize
         /\ Total(f.size) \in 1 .. (TotalMod - 1)
  BY ReassemblyAssumption, TotalIsCeiling DEF Ids

LEMMA IdsFinite == IsFiniteSet(Ids)
<1>1. 0 \in Int /\ IdMod - 1 \in Int
  BY StreamNetAssumption
<1>2. IsFiniteSet(0 .. (IdMod - 1))
  BY <1>1, FS_Interval, Zenon
<1> QED
  BY <1>2 DEF Ids

\* The datagram step, as the drain loop sees it.
LEMMA FiledTyped ==
  ASSUME TypeOK, NEW f \in Frames, NEW i \in 0 .. Total(f.size) - 1
  PROVE  /\ DOMAIN Filed(f, i) = DOMAIN pending \cup {f.id}
         /\ DOMAIN Filed(f, i) \subseteq Ids
         /\ \A k \in DOMAIN Filed(f, i) : IsEntry(k, Filed(f, i)[k])
<1> DEFINE e == IF f.id \in DOMAIN pending THEN pending[f.id] ELSE NewEntry(f)
<1>1. DOMAIN Filed(f, i) = DOMAIN pending \cup {f.id}
  BY DEF Filed
<1>2. IsEntry(f.id, e)
  <2>1. CASE f.id \in DOMAIN pending
    BY <2>1 DEF TypeOK
  <2>2. CASE f.id \notin DOMAIN pending
    BY <2>2 DEF IsEntry, NewEntry, Empty
  <2> QED
    BY <2>1, <2>2
<1> HIDE DEF e
<1>3. IsEntry(f.id, Store(e, f, i))
  <2>1. CASE Store(e, f, i) = e
    BY <2>1, <1>2
  <2>2. CASE /\ i \in Packets(e)
             /\ Store(e, f, i) = [e EXCEPT !.slot = [j \in DOMAIN e.slot \cup {i} |->
                                                       IF j = i THEN f ELSE e.slot[j]]]
    <3> DEFINE s == [j \in DOMAIN e.slot \cup {i} |-> IF j = i THEN f ELSE e.slot[j]]
    <3>1. Store(e, f, i) = [hdr |-> e.hdr, slot |-> s]
      BY <2>2, <1>2 DEF IsEntry
    <3>2. DOMAIN s = DOMAIN e.slot \cup {i} /\ \A j \in DOMAIN s : s[j] \in Frames
      BY <1>2 DEF IsEntry
    <3> HIDE DEF s
    <3> QED
      BY <3>1, <3>2, <2>2, <1>2 DEF IsEntry, Packets
  <2> QED
    BY <2>1, <2>2 DEF Store
<1>4. \A k \in DOMAIN Filed(f, i) :
        Filed(f, i)[k] = IF k = f.id THEN Store(e, f, i) ELSE pending[k]
  BY DEF Filed, e
<1> QED
  BY <1>1, <1>3, <1>4, FrameFacts DEF TypeOK

\* Every step is a stutter, an ignored datagram or a drain of a typed map.
LEMMA StepTyped ==
  ASSUME TypeOK, Next
  PROVE  TypeOK'
<1>1. PICK f \in Frames : \E i \in 0 .. Total(f.size) - 1 : Receive(f, i)
  BY DEF Next
<1>2. PICK i \in 0 .. Total(f.size) - 1 : Receive(f, i)
  BY <1>1
<1>3. CASE Ignore(f)
  BY <1>3 DEF Ignore, TypeOK, Empty
<1>4. CASE Accept(f, i)
  <2> DEFINE p == Filed(f, i)
  <2>1. DOMAIN p \subseteq Ids /\ \A k \in DOMAIN p : IsEntry(k, p[k])
    BY FiledTyped
  <2>2. Drain(p) /\ streamStarted' \in BOOLEAN
    BY <1>4 DEF Accept
  <2> HIDE DEF p
  <2>3. CASE \E stop \in Stops(p) :
                /\ nextDeliver' = stop
                /\ pending' = Restrict(p, {k \in DOMAIN p : k >= stop})
                /\ handed' = Restrict(p, {k \in DOMAIN p : k < stop /\ Complete(p[k])})
    BY <2>1, <2>2, <2>3 DEF TypeOK, Restrict, Stops
  <2>4. CASE /\ \E last \in DOMAIN p : nextDeliver' = After(last)
             /\ pending' = Empty
             /\ handed' = Restrict(p, {k \in DOMAIN p : Complete(p[k])})
    <3>1. nextDeliver' \in Ids
      BY <2>1, <2>4, StreamNetAssumption DEF Ids, After
    <3> QED
      BY <3>1, <2>1, <2>2, <2>4 DEF TypeOK, Restrict, Empty
  <2> QED
    BY <2>2, <2>3, <2>4 DEF Drain
<1> QED
  BY <1>2, <1>3, <1>4 DEF Receive

(***************************************************************************)
(* The map keeps its type: every key is a frame id and every entry holds   *)
(* fragments of frames, within the header's packet count.                  *)
(***************************************************************************)
THEOREM TypeCorrect == Spec => []TypeOK
<1>1. Init => TypeOK
  <2>1. DOMAIN Empty = {} /\ 0 \in Ids
    BY StreamNetAssumption DEF Empty, Ids
  <2> QED
    BY <2>1 DEF Init, TypeOK
<1>2. TypeOK /\ [Next]_vars => TypeOK'
  <2>1. TypeOK /\ UNCHANGED vars => TypeOK'
    BY DEF TypeOK, vars
  <2> QED
    BY <2>1, StepTyped
<1> QED
  BY <1>1, <1>2, PTL DEF Spec

\* What a drain loop leaves, whatever map it starts from.
LEMMA DrainStops ==
  ASSUME NEW p, DOMAIN p \subseteq Ids, Drain(p)
  PROVE  /\ Cardinality(DOMAIN pending') <= MaxPending
         /\ pending' # Empty =>
              /\ nextDeliver' \in DOMAIN pending'
              /\ \A k \in DOMAIN pending' : nextDeliver' <= k
              /\ ~Complete(pending'[nextDeliver'])
<1>1. CASE \E stop \in Stops(p) : /\ nextDeliver' = stop
                                  /\ pending' = Restrict(p, {k \in DOMAIN p : k >= stop})
  <2>1. PICK stop \in Stops(p) : /\ nextDeliver' = stop
                                 /\ pending' = Restrict(p, {k \in DOMAIN p : k >= stop})
    BY <1>1
  <2>2. DOMAIN pending' = {k \in DOMAIN p : k >= stop}
    BY <2>1 DEF Restrict
  <2>3. stop \in DOMAIN p /\ ~Complete(p[stop])
        /\ Cardinality({k \in DOMAIN p : k >= stop}) <= MaxPending
    BY DEF Stops, Backlog
  <2>4. stop \in DOMAIN pending' /\ pending'[stop] = p[stop]
    BY <2>1, <2>2, <2>3 DEF Restrict, Ids
  <2> QED
    BY <2>1, <2>2, <2>3, <2>4 DEF Ids
<1>2. CASE pending' = Empty
  BY <1>2, FS_EmptySet, ReassemblyAssumption DEF Empty
<1> QED
  BY <1>1, <1>2 DEF Drain

\* Ignored datagrams and stuttering leave the map, drained ones shape it.
LEMMA StepDrains ==
  ASSUME TypeOK, [Next]_vars
  PROVE  \/ UNCHANGED <<pending, nextDeliver, streamStarted>>
         \/ \E f \in Frames : \E i \in 0 .. Total(f.size) - 1 :
              /\ Accept(f, i)
              /\ DOMAIN Filed(f, i) \subseteq Ids
<1>1. CASE UNCHANGED vars
  BY <1>1 DEF vars
<1>2. CASE Next
  <2>1. PICK f \in Frames : \E i \in 0 .. Total(f.size) - 1 : Receive(f, i)
    BY <1>2 DEF Next
  <2>2. PICK i \in 0 .. Total(f.size) - 1 : Receive(f, i)
    BY <2>1
  <2> QED
    BY <2>2, FiledTyped DEF Receive, Ignore
<1> QED
  BY <1>1, <1>2

LEMMA EmptyBacklog == Cardinality(DOMAIN Empty) <= MaxPending
  BY FS_EmptySet, ReassemblyAssumption DEF Empty

(***************************************************************************)
(* However the network behaves, no more than MaxPending frames stay half   *)
(* assembled after a datagram.                                             *)
(***************************************************************************)
THEOREM BacklogIsBounded == Spec => []BacklogBounded
<1>1. Init => BacklogBounded
  BY EmptyBacklog DEF Init, BacklogBounded
<1>2. TypeOK /\ BacklogBounded /\ [Next]_vars => BacklogBounded'
  BY StepDrains, DrainStops DEF Accept, BacklogBounded
<1> QED
  BY <1>1, <1>2, TypeCorrect, PTL DEF Spec

LEMMA HeadKept ==
  ASSUME TypeOK, WaitsOnIncompleteHead, [Next]_vars
  PROVE  WaitsOnIncompleteHead'
<1>1. CASE UNCHANGED <<pending, nextDeliver, streamStarted>>
  BY <1>1 DEF WaitsOnIncompleteHead, Complete, Packets
<1>2. CASE \E f \in Frames : \E i \in 0 .. Total(f.size) - 1 :
             Accept(f, i) /\ DOMAIN Filed(f, i) \subseteq Ids
  BY <1>2, DrainStops DEF Accept, WaitsOnIncompleteHead, Complete, Packets
<1> QED
  BY <1>1, <1>2, StepDrains

(***************************************************************************)
(* Between datagrams the oldest pending frame is nextDeliver and is        *)
(* incomplete: the loop never leaves a frame it could deliver.             *)
(***************************************************************************)
THEOREM HeadIsIncomplete == Spec => []WaitsOnIncompleteHead
<1>1. Init => WaitsOnIncompleteHead
  BY DEF Init, WaitsOnIncompleteHead
<1>2. TypeOK /\ WaitsOnIncompleteHead /\ [Next]_vars => WaitsOnIncompleteHead'
  BY HeadKept
<1> QED
  BY <1>1, <1>2, TypeCorrect, PTL DEF Spec

-----------------------------------------------------------------------------
\* A fragment sits in the entry of its own frame id.
Keyed(p) == \A k \in DOMAIN p : \A i \in DOMAIN p[k].slot : p[k].slot[i].id = k

\* What the step to an in-order, whole-frame stream needs of a state: the
\* receiver's map is typed and keyed, and nothing in it is older than next.
OrderInv ==
  /\ TypeOK
  /\ WaitsOnIncompleteHead
  /\ Keyed(pending)
  /\ ~streamStarted => nextDeliver = 0

LEMMA FiledKeyed ==
  ASSUME TypeOK, Keyed(pending), NEW f \in Frames, NEW i \in 0 .. Total(f.size) - 1
  PROVE  Keyed(Filed(f, i))
<1> DEFINE e == IF f.id \in DOMAIN pending THEN pending[f.id] ELSE NewEntry(f)
<1>1. e = [hdr |-> e.hdr, slot |-> e.slot] /\ \A j \in DOMAIN e.slot : e.slot[j].id = f.id
  <2>1. CASE f.id \in DOMAIN pending
    BY <2>1 DEF TypeOK, IsEntry, Keyed
  <2>2. CASE f.id \notin DOMAIN pending
    BY <2>2 DEF NewEntry, Empty
  <2> QED
    BY <2>1, <2>2
<1> HIDE DEF e
<1>2. \A j \in DOMAIN Store(e, f, i).slot : Store(e, f, i).slot[j].id = f.id
  <2> DEFINE s == [j \in DOMAIN e.slot \cup {i} |-> IF j = i THEN f ELSE e.slot[j]]
  <2>1. Store(e, f, i) = e \/ Store(e, f, i) = [hdr |-> e.hdr, slot |-> s]
    BY <1>1 DEF Store
  <2>2. \A j \in DOMAIN s : s[j].id = f.id
    BY <1>1
  <2> HIDE DEF s
  <2> QED
    BY <2>1, <2>2, <1>1
<1>3. /\ DOMAIN Filed(f, i) = DOMAIN pending \cup {f.id}
      /\ \A k \in DOMAIN Filed(f, i) :
           Filed(f, i)[k] = IF k = f.id THEN Store(e, f, i) ELSE pending[k]
  BY DEF Filed, e
<1> QED
  BY <1>2, <1>3 DEF Keyed

\* Whatever the loop drains was in the map, is older than the new nextDeliver
\* (or than the wrap), and is complete.
LEMMA DrainHands ==
  ASSUME NEW p, DOMAIN p \subseteq Ids, Drain(p)
  PROVE  \E limit \in 0 .. IdMod :
           /\ nextDeliver' = limit % IdMod
           /\ \A n \in Ids : (\A k \in DOMAIN p : n <= k) => n <= limit
           /\ DOMAIN handed' \subseteq {k \in DOMAIN p : k < limit}
           /\ DOMAIN pending' \subseteq DOMAIN p
           /\ \A k \in DOMAIN pending' : pending'[k] = p[k]
           /\ \A k \in DOMAIN handed' : handed'[k] = p[k] /\ Complete(p[k])
<1>1. CASE \E stop \in Stops(p) :
             /\ nextDeliver' = stop
             /\ pending' = Restrict(p, {k \in DOMAIN p : k >= stop})
             /\ handed' = Restrict(p, {k \in DOMAIN p : k < stop /\ Complete(p[k])})
  <2>1. PICK stop \in Stops(p) :
             /\ nextDeliver' = stop
             /\ pending' = Restrict(p, {k \in DOMAIN p : k >= stop})
             /\ handed' = Restrict(p, {k \in DOMAIN p : k < stop /\ Complete(p[k])})
    BY <1>1
  <2>2. stop \in DOMAIN p /\ stop \in 0 .. IdMod /\ stop % IdMod = stop
    BY SmallRemainder, StreamNetAssumption DEF Stops, Ids
  <2> QED
    BY <2>1, <2>2 DEF Restrict
<1>2. CASE /\ \E last \in DOMAIN p : /\ \A k \in DOMAIN p : k <= last
                                     /\ nextDeliver' = After(last)
           /\ pending' = Empty
           /\ handed' = Restrict(p, {k \in DOMAIN p : Complete(p[k])})
  <2>1. PICK last \in DOMAIN p : /\ \A k \in DOMAIN p : k <= last
                                 /\ nextDeliver' = After(last)
    BY <1>2
  <2>2. last + 1 \in 0 .. IdMod /\ \A k \in DOMAIN p : k < last + 1
    BY <2>1, StreamNetAssumption DEF Ids
  <2>3. \A n \in Ids : (\A k \in DOMAIN p : n <= k) => n <= last + 1
    BY <2>1, StreamNetAssumption DEF Ids
  <2>4. DOMAIN pending' = {}
    BY <1>2 DEF Empty
  <2>5. /\ DOMAIN handed' = {k \in DOMAIN p : Complete(p[k])}
        /\ \A k \in DOMAIN handed' : handed'[k] = p[k]
    BY <1>2 DEF Restrict
  <2> QED
    BY <2>1, <2>2, <2>3, <2>4, <2>5 DEF After
<1> QED
  BY <1>1, <1>2 DEF Drain

LEMMA OrderInvInductive ==
  ASSUME OrderInv, [Next]_vars, TypeOK', WaitsOnIncompleteHead'
  PROVE  OrderInv'
<1>1. CASE UNCHANGED <<pending, nextDeliver, streamStarted>>
  BY <1>1 DEF OrderInv, Keyed
<1>2. CASE \E f \in Frames : \E i \in 0 .. Total(f.size) - 1 :
             Accept(f, i) /\ DOMAIN Filed(f, i) \subseteq Ids
  <2>0. PICK f \in Frames : \E i \in 0 .. Total(f.size) - 1 :
             Accept(f, i) /\ DOMAIN Filed(f, i) \subseteq Ids
    BY <1>2
  <2>1. PICK i \in 0 .. Total(f.size) - 1 :
             Accept(f, i) /\ DOMAIN Filed(f, i) \subseteq Ids
    BY <2>0
  <2>2. Keyed(Filed(f, i))
    BY FiledKeyed DEF OrderInv
  <2>3. Keyed(pending')
    <3> DEFINE p == Filed(f, i)
    <3>1. /\ DOMAIN pending' \subseteq DOMAIN p
          /\ \A k \in DOMAIN pending' : pending'[k] = p[k]
      BY <2>1, DrainHands DEF Accept
    <3> QED
      BY <2>2, <3>1 DEF Keyed
  <2> QED
    BY <2>1, <2>3 DEF OrderInv, Accept, Keyed
<1> QED
  BY <1>1, <1>2, StepDrains DEF OrderInv

\* Every fragment stored is one of the frame whose header opened the entry.
Matched(p) == \A k \in DOMAIN p : \A i \in DOMAIN p[k].slot : p[k].slot[i] = p[k].hdr

\* Where an id names one frame, keyed is matched.
LEMMA KeyedIsMatched ==
  ASSUME UniqueIds, NEW p, \A k \in DOMAIN p : IsEntry(k, p[k]), Keyed(p)
  PROVE  Matched(p)
  BY DEF UniqueIds, IsEntry, Keyed, Matched

\* A complete entry of a matched map is the whole frame of its header.
LEMMA CompleteIsWhole ==
  ASSUME NEW p, \A k \in DOMAIN p : IsEntry(k, p[k]), Matched(p),
         NEW k \in DOMAIN p, Complete(p[k])
  PROVE  /\ Picture(p[k]) = p[k].hdr
         /\ p[k].hdr \in Frames
         /\ p[k].hdr.id = k
  BY DEF IsEntry, Matched, Picture, Complete

\* One datagram's step of the abstract stream, from a matched map.
LEMMA ReceiveShows ==
  ASSUME TypeOK, WaitsOnIncompleteHead, ~streamStarted => nextDeliver = 0,
         NEW f \in Frames, NEW i \in 0 .. Total(f.size) - 1, Receive(f, i),
         Matched(Filed(f, i))
  PROVE  FS!Next
<1>1. nextDeliver \in 0 .. IdMod /\ nextDeliver % IdMod = nextDeliver
  BY SmallRemainder, StreamNetAssumption DEF TypeOK, Ids
<1>2. CASE Ignore(f)
  <2>1. Shown' = {} /\ nextDeliver' = nextDeliver % IdMod
    BY <1>1, <1>2 DEF Ignore, Shown, Empty
  <2>2. FS!Show(nextDeliver)
    BY <1>1, <2>1, StreamNetAssumption DEF FS!Show
  <2> QED
    BY <1>1, <2>2 DEF FS!Next
<1>3. CASE Accept(f, i)
  <2> DEFINE p == Filed(f, i)
  <2>1. /\ DOMAIN p = DOMAIN pending \cup {f.id}
        /\ DOMAIN p \subseteq Ids
        /\ \A k \in DOMAIN p : IsEntry(k, p[k])
        /\ Matched(p)
    BY FiledTyped
  <2>2. nextDeliver \in Ids /\ \A k \in DOMAIN p : nextDeliver <= k
    <3>1. nextDeliver <= f.id
      BY <1>3, FrameFacts DEF Accept, Admitted, Ids
    <3>2. \A k \in DOMAIN pending : nextDeliver <= k
      BY DEF WaitsOnIncompleteHead, Empty
    <3> QED
      BY <2>1, <3>1, <3>2 DEF TypeOK
  <2>3. Drain(p)
    BY <1>3 DEF Accept
  <2> HIDE DEF p
  <2>4. PICK limit \in 0 .. IdMod :
          /\ nextDeliver' = limit % IdMod
          /\ \A n \in Ids : (\A k \in DOMAIN p : n <= k) => n <= limit
          /\ DOMAIN handed' \subseteq {k \in DOMAIN p : k < limit}
          /\ \A k \in DOMAIN handed' : handed'[k] = p[k] /\ Complete(p[k])
    BY <2>1, <2>3, DrainHands
  <2>5. Shown' = {Picture(handed'[k]) : k \in DOMAIN handed'}
    BY DEF Shown, Picture, Complete, Packets
  <2>6. ASSUME NEW k \in DOMAIN handed'
        PROVE  /\ Picture(handed'[k]) = p[k].hdr
               /\ p[k].hdr \in Frames
               /\ p[k].hdr.id = k
               /\ nextDeliver <= k /\ k < limit
    BY <2>1, <2>2, <2>4, CompleteIsWhole
  <2>7. \A g \in Shown' : g \in Frames /\ nextDeliver <= g.id /\ g.id < limit
    BY <2>5, <2>6
  <2>8. \A g, h \in Shown' : g.id = h.id => g = h
    BY <2>5, <2>6
  <2>9. FS!Show(limit)
    BY <2>2, <2>4, <2>7, <2>8 DEF FS!Show
  <2> QED
    BY <2>4, <2>9 DEF FS!Next
<1> QED
  BY <1>2, <1>3 DEF Receive

\* What filing a datagram does to a matched map, when the entry it joins (if
\* there is one) was opened by its own frame: the fragment is there, the map
\* is still matched and nothing stored before is gone.
LEMMA FiledMatched ==
  ASSUME TypeOK, Matched(pending), NEW f \in Frames, NEW i \in 0 .. Total(f.size) - 1,
         f.id \in DOMAIN pending => pending[f.id].hdr = f
  PROVE  /\ Matched(Filed(f, i))
         /\ Filed(f, i)[f.id].hdr = f /\ i \in DOMAIN Filed(f, i)[f.id].slot
         /\ \A k \in DOMAIN pending :
              /\ Filed(f, i)[k].hdr = pending[k].hdr
              /\ DOMAIN pending[k].slot \subseteq DOMAIN Filed(f, i)[k].slot
<1> DEFINE e == IF f.id \in DOMAIN pending THEN pending[f.id] ELSE NewEntry(f)
           s == [j \in DOMAIN e.slot \cup {i} |-> IF j = i THEN f ELSE e.slot[j]]
<1>1. /\ e = [hdr |-> f, slot |-> e.slot]
      /\ \A j \in DOMAIN e.slot : e.slot[j] = f
  <2>1. CASE f.id \in DOMAIN pending
    BY <2>1 DEF TypeOK, IsEntry, Matched
  <2>2. CASE f.id \notin DOMAIN pending
    BY <2>2 DEF NewEntry, Empty
  <2> QED
    BY <2>1, <2>2
<1>2. /\ DOMAIN Filed(f, i) = DOMAIN pending \cup {f.id}
      /\ \A k \in DOMAIN Filed(f, i) :
           Filed(f, i)[k] = IF k = f.id THEN Store(e, f, i) ELSE pending[k]
  BY DEF Filed, e
<1>3. f.id \in DOMAIN pending => e = pending[f.id]
  OBVIOUS
<1>4. /\ DOMAIN s = DOMAIN e.slot \cup {i}
      /\ \A j \in DOMAIN s : s[j] = f
  BY <1>1
<1> HIDE DEF e
<1>5. Offset(i) + Payload(f.size, i) <= f.size
  <2>1. /\ f.size \in 1 .. MaxFrameSize /\ f.size \in Nat
        /\ Payload(f.size, i) \in 1 .. MaxPayload
        /\ Bytes(f.size, i) \subseteq 0 .. (f.size - 1)
    BY FragmentsTile, FrameFacts, StreamNetAssumption DEF MaxFrameSize
  <2>2. Offset(i) \in Nat
    BY FrameFacts, StreamNetAssumption DEF Offset
  <2>3. Offset(i) + Payload(f.size, i) - 1 \in Bytes(f.size, i)
    BY <2>1, <2>2, StreamNetAssumption DEF Bytes
  <2> QED
    BY <2>1, <2>2, <2>3, StreamNetAssumption
<1>6. i \in Packets(e)
  BY <1>1 DEF Packets
<1>7. \/ i \in DOMAIN e.slot /\ Store(e, f, i) = e
      \/ Store(e, f, i) = [hdr |-> f, slot |-> s]
  <2>1. CASE i \in DOMAIN e.slot
    BY <2>1 DEF Store
  <2>2. CASE i \notin DOMAIN e.slot
    <3>1. Store(e, f, i) = [e EXCEPT !.slot = s]
      BY <2>2, <1>1, <1>5, <1>6 DEF Store
    <3> HIDE DEF s
    <3> QED
      BY <3>1, <1>1
  <2> QED
    BY <2>1, <2>2
<1> HIDE DEF s
<1>8. /\ Store(e, f, i).hdr = f
      /\ i \in DOMAIN Store(e, f, i).slot
      /\ DOMAIN e.slot \subseteq DOMAIN Store(e, f, i).slot
      /\ \A j \in DOMAIN Store(e, f, i).slot : Store(e, f, i).slot[j] = f
  BY <1>1, <1>4, <1>7
<1> QED
  BY <1>1, <1>2, <1>3, <1>8 DEF Matched

\* The drain loop away from the wrap is determined by where it stops: it hands
\* over the complete entries before nextDeliver' and keeps those from it on.
\* The newest entry of all is passed only when complete, because alone it is
\* never a backlog.
LEMMA DrainBelowWrap ==
  ASSUME NEW p, DOMAIN p \subseteq Ids, \A k \in DOMAIN p : k + 1 < IdMod, Drain(p)
  PROVE  /\ nextDeliver' \in Ids
         /\ \E k \in DOMAIN p : nextDeliver' <= k + 1
         /\ \A n \in Ids : (\A k \in DOMAIN p : n <= k) => n <= nextDeliver'
         /\ DOMAIN pending' = {k \in DOMAIN p : k >= nextDeliver'}
         /\ \A k \in DOMAIN pending' : pending'[k] = p[k]
         /\ DOMAIN handed' = {k \in DOMAIN p : k < nextDeliver' /\ Complete(p[k])}
         /\ \A g \in DOMAIN p :
              (\A k \in DOMAIN p : k <= g) /\ g < nextDeliver' => Complete(p[g])
<1>1. CASE \E stop \in Stops(p) :
             /\ nextDeliver' = stop
             /\ pending' = Restrict(p, {k \in DOMAIN p : k >= stop})
             /\ handed' = Restrict(p, {k \in DOMAIN p : k < stop /\ Complete(p[k])})
  <2>1. /\ nextDeliver' \in DOMAIN p
        /\ pending' = Restrict(p, {k \in DOMAIN p : k >= nextDeliver'})
        /\ handed' = Restrict(p, {k \in DOMAIN p : k < nextDeliver' /\ Complete(p[k])})
    BY <1>1 DEF Stops
  <2> QED
    BY <2>1, StreamNetAssumption DEF Restrict, Ids
<1>2. CASE /\ Stops(p) = {}
           /\ \E last \in DOMAIN p : /\ \A k \in DOMAIN p : k <= last
                                     /\ nextDeliver' = After(last)
           /\ pending' = Empty
           /\ handed' = Restrict(p, {k \in DOMAIN p : Complete(p[k])})
  <2>1. PICK last \in DOMAIN p : /\ \A k \in DOMAIN p : k <= last
                                 /\ nextDeliver' = After(last)
    BY <1>2
  <2>2. last + 1 \in Nat /\ last + 1 < IdMod
    BY <2>1 DEF Ids
  <2>3. nextDeliver' = last + 1 /\ nextDeliver' \in Ids
    BY <2>1, <2>2, SmallRemainder, StreamNetAssumption DEF After, Ids
  <2>4. /\ DOMAIN pending' = {}
        /\ DOMAIN handed' = {k \in DOMAIN p : Complete(p[k])}
    BY <1>2 DEF Empty, Restrict
  <2>5. ASSUME NEW g \in DOMAIN p, \A k \in DOMAIN p : k <= g
        PROVE  Complete(p[g])
    <3>1. {j \in DOMAIN p : j >= g} = {g}
      BY <2>5 DEF Ids
    <3>2. Backlog(p, g) = 1
      BY <3>1, FS_Singleton DEF Backlog
    <3> QED
      BY <1>2, <3>2, ReassemblyAssumption DEF Stops
  <2> QED
    BY <2>1, <2>3, <2>4, <2>5 DEF Ids
<1> QED
  BY <1>1, <1>2 DEF Drain

LEMMA StepShows ==
  ASSUME UniqueIds, OrderInv, [Next]_vars
  PROVE  [FS!Next]_<<nextDeliver, Shown>>
<1>1. CASE UNCHANGED vars
  BY <1>1 DEF vars, Shown, Picture, Complete, Packets
<1>2. CASE Next
  <2>1. PICK f \in Frames : \E i \in 0 .. Total(f.size) - 1 : Receive(f, i)
    BY <1>2 DEF Next
  <2>2. PICK i \in 0 .. Total(f.size) - 1 : Receive(f, i)
    BY <2>1
  <2>3. Matched(Filed(f, i))
    BY FiledTyped, FiledKeyed, KeyedIsMatched DEF OrderInv
  <2> QED
    BY <2>2, <2>3, ReceiveShows DEF OrderInv
<1> QED
  BY <1>1, <1>2

(***************************************************************************)
(* With one sender process the decoder is handed whole frames, each at     *)
(* most once and in the order of their ids: the reassembly loop implements *)
(* FrameStream over a network that loses, repeats and reorders at will.    *)
(***************************************************************************)
THEOREM ImplementsFrameStream == UniqueIds => (Spec => InOrderWholeFrames)
<1> SUFFICES ASSUME UniqueIds PROVE Spec => InOrderWholeFrames
  OBVIOUS
<1>1. Init => OrderInv /\ FS!Init
  <2>1. DOMAIN Empty = {} /\ 0 \in Ids
    BY StreamNetAssumption DEF Empty, Ids
  <2> QED
    BY <2>1 DEF Init, OrderInv, TypeOK, WaitsOnIncompleteHead, Keyed, FS!Init, Shown
<1>2. OrderInv /\ [Next]_vars /\ TypeOK' /\ WaitsOnIncompleteHead' => OrderInv'
  BY OrderInvInductive
<1>3. OrderInv /\ [Next]_vars => [FS!Next]_<<nextDeliver, Shown>>
  BY StepShows
<1> QED
  BY <1>1, <1>2, <1>3, TypeCorrect, HeadIsIncomplete, PTL DEF Spec, InOrderWholeFrames, FS!Spec

(***************************************************************************)
(* A frame whose first fragment was accepted is never dropped for being    *)
(* late: only more than MaxPending frames from it on make the loop give    *)
(* up on it (line 518).                                                    *)
(***************************************************************************)
THEOREM NeverGivenUpEarly == Spec => GivenUpOnlyWhenBacklogged
<1>1. TypeOK /\ [Next]_vars =>
        [\A k \in DOMAIN pending \ (DOMAIN pending' \cup DOMAIN handed') :
           \E id \in Ids :
             Cardinality({j \in DOMAIN pending \cup {id} : j >= k}) > MaxPending]_vars
  <2> SUFFICES ASSUME TypeOK, Next,
                      NEW k \in DOMAIN pending \ (DOMAIN pending' \cup DOMAIN handed')
               PROVE  \E id \in Ids :
                        Cardinality({j \in DOMAIN pending \cup {id} : j >= k}) > MaxPending
    OBVIOUS
  <2>1. PICK f \in Frames : \E i \in 0 .. Total(f.size) - 1 : Receive(f, i)
    BY DEF Next
  <2>2. PICK i \in 0 .. Total(f.size) - 1 : Receive(f, i)
    BY <2>1
  <2>3. Accept(f, i)
    BY <2>2 DEF Receive, Ignore
  <2> DEFINE p == Filed(f, i)
  <2>4. DOMAIN p = DOMAIN pending \cup {f.id} /\ DOMAIN p \subseteq Ids /\ Drain(p)
    BY <2>3, FiledTyped DEF Accept
  <2> HIDE DEF p
  <2>5. k \notin Stops(p) /\ ~Complete(p[k])
    <3>1. CASE \E stop \in Stops(p) :
                 /\ \A s \in Stops(p) : stop <= s
                 /\ pending' = Restrict(p, {j \in DOMAIN p : j >= stop})
                 /\ handed' = Restrict(p, {j \in DOMAIN p : j < stop /\ Complete(p[j])})
      BY <2>4, <3>1 DEF Restrict, Stops, Ids
    <3>2. CASE Stops(p) = {} /\ handed' = Restrict(p, {j \in DOMAIN p : Complete(p[j])})
      BY <2>4, <3>2 DEF Restrict
    <3> QED
      BY <2>4, <3>1, <3>2 DEF Drain
  <2>6. Cardinality({j \in DOMAIN p : j >= k}) \in Nat
    <3>1. IsFiniteSet(Ids)
      BY IdsFinite
    <3>2. {j \in DOMAIN p : j >= k} \in SUBSET Ids
      BY <2>4
    <3> QED
      BY <3>1, <3>2, FS_Subset, FS_CardinalityType
  <2>7. Cardinality({j \in DOMAIN p : j >= k}) > MaxPending
    BY <2>4, <2>5, <2>6, ReassemblyAssumption DEF Stops, Backlog
  <2> QED
    BY <2>4, <2>7, FrameFacts
<1> QED
  BY <1>1, TypeCorrect, PTL DEF Spec, GivenUpOnlyWhenBacklogged
=============================================================================
