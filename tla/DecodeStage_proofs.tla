------------------------- MODULE DecodeStage_proofs -------------------------
(***************************************************************************)
(* For every texture size, every set of stream sizes and any number of     *)
(* frames: a consumer never finds a picture older than the one announced,  *)
(* the announced region is one that was converted, and a picture taken     *)
(* after the last change of size is announced with its own.                *)
(***************************************************************************)
EXTENDS DecodeStage, TLAPS

\* Every kernel but the one just launched has its signal behind it.
Queued == Len(launched) = fenceValue + (IF pc = "signal" THEN 1 ELSE 0)

\* Pictures are decoded, and kernels launched, in the order of the frames.
InOrder ==
  /\ picture.pic <= input.picture.pic /\ buffer <= picture.pic
  /\ pc = "launch" => buffer = picture.pic
  /\ \A n \in 1 .. Len(launched) : launched[n].picture.pic <= buffer
  /\ \A m, n \in 1 .. Len(launched) :
       m <= n => launched[m].picture.pic <= launched[n].picture.pic

\* A running kernel reads its own picture or a newer one.
Converts ==
  /\ converting > 0 => /\ converted = texFence /\ converted < Len(launched)
                       /\ converting >= launched[converted + 1].picture.pic
  /\ \A n \in 1 .. converted : texture >= launched[n].picture.pic

\* The sender's inputs are numbered on, and what it sends is behind them.
Feeding ==
  /\ Len(inside) <= OutputDelay /\ Len(inside) <= inputs
  /\ 0 < since /\ since <= inputs + 1
  /\ input.picture.pic = 0 \/ input.picture.pic + OutputDelay <= inputs

Inv == TypeOK /\ Queued /\ InOrder /\ Converts /\ Feeding

LEMMA Starts == Init => Inv
<1> SUFFICES ASSUME Init PROVE Inv
  OBVIOUS
<1>1. launched \in Seq(Kernel) /\ Len(launched) = 0
  BY DEF Init
<1>2. encW \in EncWidths /\ inside \in Seq(Nat) /\ Len(inside) = 0 /\ inputs = 0 /\ since = 1
  BY DEF Init
<1>3. input \in Frame /\ picture \in Picture /\ input.picture.pic = 0 /\ picture.pic = 0
  BY DEF Init, NoFrame, NoPicture, Frame, Picture
<1>4. TypeOK
  BY <1>1, <1>2, <1>3, DecodeStageAssumption DEF Init, TypeOK
<1> QED
  BY <1>1, <1>2, <1>3, <1>4, DecodeStageAssumption
     DEF Init, Inv, Queued, InOrder, Converts, Feeding

LEMMA SizesAreNumbers ==
  /\ \A a, b \in Nat : Smaller(a, b) \in Nat /\ Smaller(a, b) <= a /\ Smaller(a, b) <= b
  /\ \A a, b \in Nat : Larger(a, b) \in Nat
  /\ \A w \in Nat : Coded(w) \in Nat
<1>1. \A w \in Nat : Coded(w) \in Nat
  <2> SUFFICES ASSUME NEW w \in Nat PROVE Coded(w) \in Nat
    OBVIOUS
  <2>1. Align \in Nat /\ Align > 0
    BY DecodeStageAssumption
  <2>2. (w + Align - 1) \div Align \in Nat
    BY <2>1
  <2> QED
    BY <2>1, <2>2 DEF Coded
<1> QED
  BY <1>1 DEF Smaller, Larger

\* What launched holds, and what appending one kernel does to it.
LEMMA KernelFields ==
  ASSUME NEW q \in Seq(Kernel), NEW n \in 1 .. Len(q)
  PROVE  /\ q[n].picture \in Picture /\ q[n].picture.pic \in Nat
         /\ q[n].picture.enc \in Nat /\ q[n].picture.content \in Nat
         /\ q[n].width \in Nat /\ q[n].scaledTo \in Nat
<1>1. q[n] \in Kernel
  OBVIOUS
<1> QED
  BY <1>1 DEF Kernel, Picture

LEMMA Appended ==
  ASSUME NEW q \in Seq(Kernel), NEW k \in Kernel
  PROVE  /\ Append(q, k) \in Seq(Kernel) /\ Len(Append(q, k)) = Len(q) + 1
         /\ Append(q, k)[Len(q) + 1] = k
         /\ \A n \in 1 .. Len(q) : Append(q, k)[n] = q[n]
  OBVIOUS

\* What one more input makes of those inside NVENC: the same, and the new one last.
LEMMA FedInside ==
  ASSUME TypeOK, Len(inside) <= OutputDelay, NEW w \in Nat, NEW now \in Nat, Feed(w, now)
  PROVE  /\ inside' \in Seq(Nat) /\ Len(inside') \in Nat
         /\ 0 < Len(inside') /\ Len(inside') <= OutputDelay
         /\ Len(inside') <= Len(inside) + 1 /\ inside'[Len(inside')] = w
         /\ \A i \in 1 .. Len(inside') - 1 : inside'[i] = inside[i + Len(inside) + 1 - Len(inside')]
<1>1. /\ inside \in Seq(Nat) /\ Len(inside) \in Nat
      /\ OutputDelay \in Nat /\ OutputDelay > 0
  BY DecodeStageAssumption DEF TypeOK
<1>2. CASE Len(inside) < OutputDelay
  <2>1. inside' = Append(inside, w)
    BY <1>2 DEF Feed
  <2>2. /\ Len(inside') = Len(inside) + 1 /\ inside'[Len(inside) + 1] = w
        /\ \A i \in 1 .. Len(inside) : inside'[i] = inside[i]
    BY <1>1, <2>1
  <2>3. inside' \in Seq(Nat)
    BY <1>1, <2>1
  <2> QED
    BY <1>1, <1>2, <2>2, <2>3
<1>3. CASE ~(Len(inside) < OutputDelay)
  <2>1. inside' = Append(Tail(inside), w)
    BY <1>3 DEF Feed
  <2>2. Len(inside) = OutputDelay /\ inside # <<>>
    BY <1>1, <1>3
  <2>3. /\ Tail(inside) \in Seq(Nat) /\ Len(Tail(inside)) = Len(inside) - 1
        /\ \A i \in 1 .. Len(inside) - 1 : Tail(inside)[i] = inside[i + 1]
    BY <1>1, <2>2
  <2>4. /\ Len(inside') = Len(inside) /\ inside'[Len(inside)] = w
        /\ \A i \in 1 .. Len(inside) - 1 : inside'[i] = inside[i + 1]
    BY <1>1, <2>1, <2>2, <2>3
  <2>5. inside' \in Seq(Nat)
    BY <2>1, <2>3
  <2> QED
    BY <1>1, <2>2, <2>4, <2>5
<1> QED
  BY <1>2, <1>3

LEMMA FedKeeps ==
  ASSUME Inv, NEW w \in Nat, NEW now \in Nat, Feed(w, now)
  PROVE  /\ encW' = encW /\ inside' \in Seq(Nat) /\ inputs' = inputs + 1 /\ since' \in Nat
         /\ Len(inside') <= OutputDelay /\ Len(inside') <= inputs'
         /\ 0 < since' /\ since' <= inputs' + 1
<1>1. inputs \in Nat /\ since \in Nat /\ Len(inside) \in Nat /\ OutputDelay \in Nat
  BY DecodeStageAssumption DEF Inv, TypeOK
<1>2. /\ encW' = encW /\ inputs' = inputs + 1
      /\ since' = inputs + 2 \/ since' = since \/ since' = inputs + 1
  BY DEF Feed
<1>3. inside' \in Seq(Nat) /\ Len(inside') \in Nat
      /\ Len(inside') <= OutputDelay /\ Len(inside') <= Len(inside) + 1
  BY FedInside DEF Inv, Feeding
<1> QED
  BY <1>1, <1>2, <1>3 DEF Inv, Feeding

LEMMA DecodeKeeps == ASSUME Inv, Decode PROVE Inv'
<1> USE DEF Inv
<1>1. /\ UNCHANGED <<lag, fenceValue, unstored, info, launched, buffer,
                     converting, converted, texture, texFence>>
      /\ pc = "receive" /\ pc' \in {"receive", "copy", "dead"}
      /\ Len(inside) = OutputDelay
  BY DEF Decode, gpu
<1>2. /\ input \in Frame /\ picture \in Picture
      /\ encW \in Nat /\ inputs \in Nat /\ inside \in Seq(Nat)
      /\ OutputDelay \in Nat /\ OutputDelay > 0
  BY DecodeStageAssumption DEF TypeOK
<1>3. input.picture \in Picture /\ input.picture.pic \in Nat /\ picture.pic \in Nat
  BY <1>2 DEF Frame, Picture
<1>4. PICK w \in ContentWidths, now \in ContentWidths :
        /\ Feed(w, now)
        /\ input' = [header  |-> now,
                     picture |-> [pic |-> inputs + 1 - OutputDelay,
                                  enc |-> encW, content |-> Head(inside)]]
  BY DEF Decode
<1>5. w \in Nat /\ now \in Nat
  BY DecodeStageAssumption
<1>6. /\ input' \in Frame /\ input'.picture \in Picture
      /\ input'.picture.pic = inputs + 1 - OutputDelay /\ input'.picture.pic \in Nat
  <2>1. Head(inside) \in Nat
    BY <1>1, <1>2
  <2>2. inputs + 1 - OutputDelay \in Nat
    BY <1>1, <1>2 DEF Feeding
  <2>3. [pic |-> inputs + 1 - OutputDelay, enc |-> encW, content |-> Head(inside)] \in Picture
    BY <1>2, <2>1, <2>2 DEF Picture
  <2> QED
    BY <1>4, <1>5, <2>2, <2>3 DEF Frame
<1>7. picture' \in Picture /\ picture'.pic <= input'.picture.pic /\ picture.pic <= picture'.pic
  <2>1. input.picture.pic <= input'.picture.pic
    BY <1>1, <1>2, <1>3, <1>6 DEF Feeding
  <2>2. picture' = IF lag = 0 THEN input'.picture ELSE input.picture
    BY DEF Decode
  <2> QED
    BY <1>3, <1>6, <2>1, <2>2 DEF InOrder
<1>8. dec' \in [w : Nat, surface : Nat, coded : Nat, display : Nat, max : Nat]
  <2>1. /\ Coded(encW) \in Nat
        /\ dec \in [w : Nat, surface : Nat, coded : Nat, display : Nat, max : Nat]
    BY <1>2, SizesAreNumbers DEF TypeOK
  <2>2. Larger(dec.max, Coded(encW)) \in Nat
    BY <2>1, SizesAreNumbers
  <2>3. dec' = dec \/ dec' = Sequence(encW)
    BY DEF Decode
  <2>4. Sequence(encW) \in [w : Nat, surface : Nat, coded : Nat, display : Nat, max : Nat]
    BY <1>2, <2>1, <2>2 DEF Sequence
  <2> QED
    BY <2>1, <2>3, <2>4
<1>9. Feeding' /\ encW' = encW /\ inside' \in Seq(Nat) /\ inputs' \in Nat /\ since' \in Nat
  BY <1>2, <1>4, <1>5, <1>6, FedKeeps DEF Feeding
<1>10. TypeOK'
  BY <1>1, <1>6, <1>7, <1>8, <1>9 DEF TypeOK
<1>11. InOrder'
  <2>1. picture'.pic \in Nat /\ buffer \in Nat
    BY <1>7 DEF Picture, TypeOK
  <2> QED
    BY <1>1, <1>3, <1>7, <2>1 DEF InOrder
<1>12. Queued' /\ Converts'
  BY <1>1 DEF Queued, Converts
<1> QED
  BY <1>9, <1>10, <1>11, <1>12

\* The sender's own steps leave the receiver alone.
LEMMA SenderKeeps == ASSUME Inv, Sender PROVE Inv'
<1> USE DEF Inv
<1>1. UNCHANGED <<lag, pc, input, picture, dec, fenceValue, unstored, info, launched, buffer,
                  converting, converted, texture, texFence>>
  BY DEF Sender, EncodeOnly, SenderRestart, thread, gpu
<1>2. inputs \in Nat /\ OutputDelay \in Nat /\ input.picture.pic \in Nat
  BY DecodeStageAssumption DEF TypeOK, Frame, Picture
<1>3. /\ encW' \in EncWidths /\ inside' \in Seq(Nat) /\ inputs' \in Nat /\ since' \in Nat
      /\ Feeding'
  <2>1. CASE EncodeOnly
    <3>1. PICK w \in ContentWidths : Feed(w, w)
      BY <2>1 DEF EncodeOnly
    <3>2. w \in Nat
      BY DecodeStageAssumption
    <3>3. /\ encW' = encW /\ inside' \in Seq(Nat) /\ inputs' = inputs + 1 /\ since' \in Nat
          /\ Len(inside') <= OutputDelay /\ Len(inside') <= inputs'
          /\ 0 < since' /\ since' <= inputs' + 1
      BY <3>1, <3>2, FedKeeps
    <3>4. Feeding'
      BY <1>1, <1>2, <3>3 DEF Feeding
    <3>5. encW \in EncWidths
      BY DEF TypeOK
    <3>6. encW' \in EncWidths /\ inputs' \in Nat
      BY <1>2, <3>3, <3>5
    <3> QED
      BY <3>3, <3>4, <3>6
  <2>2. CASE SenderRestart
    <3>1. /\ encW' \in EncWidths /\ inside' = <<>> /\ inputs' = inputs /\ since' = inputs + 1
      BY <2>2 DEF SenderRestart
    <3>2. inside' \in Seq(Nat) /\ Len(inside') = 0
      BY <3>1
    <3> QED
      BY <1>1, <1>2, <3>1, <3>2 DEF Feeding
  <2> QED
    BY <2>1, <2>2 DEF Sender
<1> QED
  BY <1>1, <1>3 DEF TypeOK, Queued, InOrder, Converts

\* The kernel's width is a number, and within the texture.
LEMMA CopyFits == ASSUME TypeOK PROVE CopyW \in Nat /\ CopyW <= TexW
<1>1. dec.w \in Nat
  BY DEF TypeOK
<1>2. GetWidth \in Nat
  BY <1>1 DEF GetWidth
<1> QED
  BY <1>2, SizesAreNumbers, DecodeStageAssumption DEF CopyW

LEMMA LaunchKeeps == ASSUME Inv, Launch PROVE Inv'
<1> USE DEF Inv
<1> DEFINE kernel == [picture |-> picture, scaledTo |-> dec.surface, width |-> CopyW]
<1>1. /\ UNCHANGED <<encW, inside, inputs, since, lag, input, picture, dec,
                     fenceValue, unstored, info, buffer,
                     converting, converted, texture, texFence>>
      /\ pc = "launch" /\ pc' = "signal" /\ launched' = Append(launched, kernel)
  BY DEF Launch, gpu, sender
<1>2. kernel \in Kernel
  <2>1. CopyW \in Nat /\ dec.surface \in Nat /\ picture \in Picture
    BY CopyFits DEF TypeOK
  <2> QED
    BY <2>1 DEF Kernel
<1>3. /\ launched' \in Seq(Kernel) /\ Len(launched') = Len(launched) + 1
      /\ launched'[Len(launched) + 1].picture.pic = buffer
      /\ \A n \in 1 .. Len(launched) : launched'[n] = launched[n]
  BY <1>1, <1>2, Appended DEF TypeOK, InOrder
<1>4. TypeOK'
  BY <1>1, <1>3 DEF TypeOK
<1>5. Queued'
  BY <1>1, <1>3 DEF Queued, TypeOK
<1>6. InOrder'
  <2>1. Len(launched) \in Nat /\ buffer \in Nat
    BY DEF TypeOK
  <2>2. \A n \in 1 .. Len(launched') : launched'[n].picture.pic <= buffer
    <3> SUFFICES ASSUME NEW n \in 1 .. Len(launched') PROVE launched'[n].picture.pic <= buffer
      OBVIOUS
    <3>1. CASE n \in 1 .. Len(launched)
      BY <3>1, <1>3 DEF InOrder
    <3>2. CASE n = Len(launched) + 1
      BY <3>2, <1>3, <2>1
    <3> QED
      BY <2>1, <3>1, <3>2, <1>3
  <2>3. ASSUME NEW m \in 1 .. Len(launched'), NEW n \in 1 .. Len(launched'), m <= n
        PROVE  launched'[m].picture.pic <= launched'[n].picture.pic
    <3>1. CASE n \in 1 .. Len(launched)
      <4>1. m \in 1 .. Len(launched)
        BY <3>1, <2>3, <2>1
      <4> QED
        BY <3>1, <4>1, <2>3, <1>3 DEF InOrder
    <3>2. CASE n = Len(launched) + 1
      BY <3>2, <1>3, <2>2
    <3> QED
      BY <2>1, <3>1, <3>2, <1>3
  <2> QED
    BY <1>1, <2>2, <2>3 DEF InOrder
<1>7. Converts'
  <2>1. converted \in Nat /\ converted <= Len(launched) /\ Len(launched) \in Nat
    BY DEF TypeOK
  <2>2. \A n \in 1 .. converted : texture >= launched'[n].picture.pic
    BY <1>3, <2>1 DEF Converts
  <2>3. ASSUME converting > 0
        PROVE  /\ converted = texFence /\ converted < Len(launched')
               /\ converting >= launched'[converted + 1].picture.pic
    <3>1. converted = texFence /\ converted < Len(launched)
          /\ converting >= launched[converted + 1].picture.pic
      BY <2>3 DEF Converts
    <3>2. launched'[converted + 1] = launched[converted + 1]
      BY <3>1, <2>1, <1>3
    <3> QED
      BY <3>1, <3>2, <2>1, <1>3
  <2> QED
    BY <1>1, <2>2, <2>3 DEF Converts
<1> QED
  BY <1>1, <1>4, <1>5, <1>6, <1>7 DEF Feeding

\* The other steps of the thread leave launched alone.
LEMMA ThreadKeeps ==
  ASSUME Inv, FinishDecode \/ LaunchFails \/ QueueSignal \/ Publish \/ Stop \/ Exit
  PROVE  Inv'
<1> USE DEF Inv
<1>1. UNCHANGED <<encW, inside, inputs, since, lag, input, picture, dec,
                  launched, converting, converted, texture, texFence>>
  BY DEF FinishDecode, LaunchFails, QueueSignal, Publish, Stop, Exit, gpu, sender
<1>2. CASE FinishDecode
  <2>1. /\ pc = "copy" /\ pc' \in {"launch", "dead"} /\ buffer' = picture.pic
        /\ UNCHANGED <<fenceValue, unstored, info>>
    BY <1>2 DEF FinishDecode
  <2>2. buffer' \in Nat /\ buffer <= buffer' /\ buffer \in Nat
    BY <2>1 DEF TypeOK, InOrder, Picture
  <2>3. \A n \in 1 .. Len(launched) : launched[n].picture.pic <= buffer'
    BY <2>2, KernelFields DEF TypeOK, InOrder
  <2>4. InOrder'
    BY <1>1, <2>1, <2>3 DEF InOrder, TypeOK, Picture
  <2> QED
    BY <1>1, <2>1, <2>2, <2>4 DEF TypeOK, Queued, Converts, Feeding
<1>3. CASE LaunchFails \/ Stop \/ Exit
  <2>1. /\ pc' \in {"receive", "stop", "done"} /\ pc \in {"launch", "receive", "stop"}
        /\ UNCHANGED <<fenceValue, unstored, info, buffer>>
    BY <1>3 DEF LaunchFails, Stop, Exit
  <2> QED
    BY <1>1, <2>1 DEF TypeOK, Queued, InOrder, Converts, Feeding
<1>4. CASE QueueSignal
  <2>1. /\ pc = "signal" /\ pc' \in {"publish", "dead"} /\ fenceValue' = fenceValue + 1
        /\ unstored' \subseteq {"width", "fence"} /\ UNCHANGED <<info, buffer>>
    BY <1>4 DEF QueueSignal, TypeOK
  <2>2. Len(launched) = fenceValue + 1
    BY <2>1 DEF Queued
  <2>3. TypeOK'
    BY <1>1, <2>1, <2>2 DEF TypeOK
  <2> QED
    BY <1>1, <2>1, <2>2, <2>3 DEF Queued, InOrder, Converts, Feeding
<1>5. CASE Publish
  <2>1. /\ pc = "publish" /\ pc' \in {"receive", "publish"} /\ unstored' \subseteq unstored
        /\ UNCHANGED <<fenceValue, buffer>>
    BY <1>5 DEF Publish
  <2>2. info' \in [width : Nat, fence : Nat] /\ info'.fence <= fenceValue
    <3>1. /\ info \in [width : Nat, fence : Nat] /\ info.fence <= fenceValue
          /\ fenceValue \in Nat /\ input.header \in Nat
      BY DEF TypeOK, Frame
    <3>2. ValidW(input.header) \in Nat
      <4>1. CopyW \in Nat
        BY CopyFits
      <4> QED
        BY <3>1, <4>1, SizesAreNumbers DEF ValidW
    <3>3. \/ info' = [info EXCEPT !.width = ValidW(input.header)]
          \/ info' = [info EXCEPT !.fence = fenceValue]
      BY <1>5 DEF Publish, Announced
    <3> QED
      BY <3>1, <3>2, <3>3
  <2>3. TypeOK'
    BY <1>1, <2>1, <2>2 DEF TypeOK
  <2> QED
    BY <1>1, <2>1, <2>3 DEF Queued, InOrder, Converts, Feeding
<1> QED
  BY <1>2, <1>3, <1>4, <1>5

LEMMA StreamKeeps == ASSUME Inv, Stream PROVE Inv'
<1> USE DEF Inv
<1>1. UNCHANGED <<encW, inside, inputs, since, lag, pc, input, picture, dec,
                  fenceValue, unstored, info, launched, buffer>>
  BY DEF Stream, StartConvert, FinishConvert, FinishSignal, thread, sender
<1>2. Queued' /\ InOrder' /\ Feeding'
  BY <1>1 DEF Queued, InOrder, Feeding
<1>3. launched \in Seq(Kernel) /\ Len(launched) \in Nat /\ converted \in Nat
  BY DEF TypeOK
<1>4. CASE StartConvert
  <2>1. /\ converting' = buffer /\ converted = texFence /\ converted < Len(launched)
        /\ UNCHANGED <<converted, texture, texFence>>
    BY <1>4 DEF StartConvert
  <2>2. TypeOK'
    BY <1>1, <2>1 DEF TypeOK
  <2>3. buffer >= launched[converted + 1].picture.pic
    BY <2>1, <1>3, KernelFields DEF InOrder, TypeOK
  <2> QED
    BY <1>1, <1>2, <2>1, <2>2, <2>3 DEF Converts
<1>5. CASE FinishConvert
  <2>1. /\ converting > 0 /\ converting' = 0 /\ texture' = converting
        /\ converted' = converted + 1 /\ UNCHANGED texFence
    BY <1>5 DEF FinishConvert
  <2>2. /\ converted = texFence /\ converted + 1 \in 1 .. Len(launched)
        /\ converting >= launched[converted + 1].picture.pic
    BY <2>1, <1>3 DEF Converts
  <2>3. TypeOK'
    BY <1>1, <2>1, <2>2 DEF TypeOK
  <2>4. \A n \in 1 .. converted + 1 : converting >= launched[n].picture.pic
    <3> SUFFICES ASSUME NEW n \in 1 .. converted + 1 PROVE converting >= launched[n].picture.pic
      OBVIOUS
    <3>1. n \in 1 .. Len(launched) /\ n <= converted + 1
      BY <2>2, <1>3
    <3>2. launched[n].picture.pic <= launched[converted + 1].picture.pic
      BY <3>1, <2>2 DEF InOrder
    <3> QED
      BY <3>1, <3>2, <2>2, <1>3, KernelFields DEF TypeOK
  <2> QED
    BY <1>1, <1>2, <2>1, <2>3, <2>4 DEF Converts
<1>6. CASE FinishSignal
  <2>1. /\ texFence < fenceValue /\ texFence < converted /\ texFence' = texFence + 1
        /\ UNCHANGED <<converting, converted, texture>>
    BY <1>6 DEF FinishSignal, SignalDue
  <2>2. TypeOK'
    BY <1>1, <2>1 DEF TypeOK
  <2>3. ~(converting > 0)
    BY <2>1 DEF Converts, TypeOK
  <2> QED
    BY <1>1, <1>2, <2>1, <2>2, <2>3 DEF Converts
<1> QED
  BY <1>4, <1>5, <1>6 DEF Stream

LEMMA Steps == ASSUME Inv, [Next]_vars PROVE Inv'
<1>1. CASE Thread
  BY <1>1, DecodeKeeps, LaunchKeeps, ThreadKeeps DEF Thread
<1>2. CASE Stream
  BY <1>2, StreamKeeps
<1>3. CASE UNCHANGED vars
  BY <1>3 DEF vars, sender, thread, gpu, Inv, TypeOK, Queued, InOrder, Converts, Feeding
<1>4. CASE Sender
  BY <1>4, SenderKeeps
<1> QED
  BY <1>1, <1>2, <1>3, <1>4 DEF Next

\* The invariant the theorems below read off.
THEOREM Invariance == Spec => []Inv
<1>1. Inv /\ [Next]_vars => Inv'
  BY Steps
<1> QED
  BY Starts, <1>1, PTL DEF Spec

\* Types, and the order of the stream's counters, for any sizes.
THEOREM TypeCorrect == Spec => []TypeOK
BY Invariance, PTL DEF Inv

\* A consumer that waited for an announced value never finds an older picture,
\* whatever launches failed and however far Decode has run ahead of the kernels.
THEOREM NeverAnOlderPicture == Spec => []ShowsAnnouncedPicture
<1>1. Inv => ShowsAnnouncedPicture
  BY DEF Inv, TypeOK, Converts, ShowsAnnouncedPicture
<1> QED
  BY Invariance, <1>1, PTL
-----------------------------------------------------------------------------
\* The width of the last input.
Current == inside[Len(inside)]

\* From `since` on every input has the current width, inside NVENC or behind it.
Steady ==
  /\ Len(inside) = 0 => since = inputs + 1
  /\ \A i \in 1 .. Len(inside) :
       /\ inside[i] <= encW
       /\ inputs - Len(inside) + i >= since => inside[i] = Current
  /\ input.picture.pic >= since => input.header = Current /\ input.picture.content = Current
  /\ picture.pic >= since => picture.content = Current

\* The picture in hand between Decode and the announcement.
Handling ==
  /\ input.picture.content <= input.picture.enc /\ picture.content <= picture.enc
  /\ pc \in {"copy", "launch", "signal", "publish"} => input.header > 0
  /\ pc \in {"signal", "publish"} =>
       /\ Len(launched) > 0
       /\ launched[Len(launched)] =
            [picture |-> picture, scaledTo |-> dec.surface, width |-> CopyW]

\* What is said of a kernel when the width w is announced with its value.
Describes(w, kernel) ==
  /\ w <= kernel.width
  /\ kernel.picture.pic >= since /\ OwnSizes(kernel) =>
       w = Smaller(kernel.picture.content, TexW)

\* SharedInfo holds, and while it is being stored, will hold, a true announcement.
Announces ==
  /\ \A n \in 1 .. Len(launched) : launched[n].width <= TexW
  /\ pc # "publish" /\ info.fence > 0 => Describes(info.width, launched[info.fence])
  /\ pc = "publish" =>
       /\ "fence" \notin unstored => info.fence = fenceValue
       /\ "width" \notin unstored => info.width = ValidW(input.header)

\* No picture is of an input to come.
LEMMA NotAhead ==
  ASSUME Inv
  PROVE  /\ inputs \in Nat /\ since \in Nat /\ 0 < since
         /\ input.picture.pic \in Nat /\ input.picture.pic <= inputs
         /\ picture.pic \in Nat /\ picture.pic <= input.picture.pic
         /\ \A n \in 1 .. Len(launched) : /\ launched[n].picture.pic \in Nat
                                          /\ launched[n].picture.pic <= picture.pic
<1>1. /\ inputs \in Nat /\ since \in Nat /\ OutputDelay \in Nat /\ buffer \in Nat
      /\ input.picture.pic \in Nat /\ picture.pic \in Nat
  BY DecodeStageAssumption DEF Inv, TypeOK, Frame, Picture
<1>2. \A n \in 1 .. Len(launched) : launched[n].picture.pic \in Nat
  BY KernelFields DEF Inv, TypeOK
<1> QED
  BY <1>1, <1>2 DEF Inv, Feeding, InOrder

\* One more input: either all there has been is before `since` now, or its width
\* is the current one and so is the header's.
LEMMA FedSince ==
  ASSUME Inv, Steady, NEW w \in Nat, NEW now \in Nat, Feed(w, now)
  PROVE  /\ since <= since'
         /\ since' <= inputs => now = w /\ w = Current /\ since' = since
<1>1. inputs \in Nat /\ since \in Nat /\ since <= inputs + 1 /\ Len(inside) \in Nat
  BY DEF Inv, TypeOK, Feeding
<1>2. since' = IF now # w THEN inputs + 2
               ELSE IF inside # <<>> /\ w = Current THEN since ELSE inputs + 1
  BY DEF Feed, Current
<1> QED
  BY <1>1, <1>2

\* Whatever had the current width from `since` on has it still.
LEMMA FedSteady ==
  ASSUME Inv, Steady, NEW w \in Nat, NEW now \in Nat, Feed(w, now), w <= encW
  PROVE  /\ Current' = w /\ Len(inside') > 0
         /\ \A pic \in Int, c \in Nat :
              pic <= inputs /\ (pic >= since => c = Current) => (pic >= since' => c = Current')
         /\ \A i \in 1 .. Len(inside') :
              /\ inside'[i] <= encW'
              /\ inputs' - Len(inside') + i >= since' => inside'[i] = Current'
<1>1. /\ inputs \in Nat /\ since \in Nat /\ since' \in Nat /\ inputs' = inputs + 1
      /\ encW' = encW /\ encW \in Nat
      /\ inside \in Seq(Nat) /\ Len(inside) \in Nat /\ Len(inside) <= inputs
  BY FedKeeps, DecodeStageAssumption DEF Inv, TypeOK, Feeding
<1>2. /\ Len(inside') \in Nat /\ 0 < Len(inside') /\ Len(inside') <= Len(inside) + 1
      /\ inside'[Len(inside')] = w
      /\ \A i \in 1 .. Len(inside') - 1 : inside'[i] = inside[i + Len(inside) + 1 - Len(inside')]
  BY FedInside DEF Inv, Feeding
<1>3. Current' = w
  BY <1>2 DEF Current
<1>4. ASSUME NEW pic \in Int, NEW c \in Nat,
             pic <= inputs, pic >= since => c = Current, pic >= since'
      PROVE  c = Current'
  <2>1. since' <= inputs /\ pic \in Int
    BY <1>1, <1>4
  <2> QED
    BY <1>3, <1>4, <2>1, FedSince
<1>5. ASSUME NEW i \in 1 .. Len(inside')
      PROVE  /\ inside'[i] <= encW'
             /\ inputs' - Len(inside') + i >= since' => inside'[i] = Current'
  <2>1. CASE i = Len(inside')
    BY <2>1, <1>1, <1>2, <1>3
  <2>2. CASE i # Len(inside')
    <3> DEFINE j == i + Len(inside) + 1 - Len(inside')
    <3>1. j \in 1 .. Len(inside) /\ inside'[i] = inside[j] /\ inside[j] \in Nat
      BY <2>2, <1>1, <1>2
    <3>2. /\ inputs - Len(inside) + j \in Int /\ inputs - Len(inside) + j <= inputs
          /\ inputs' - Len(inside') + i = inputs - Len(inside) + j
      BY <1>1, <1>2, <3>1
    <3>3. inside[j] <= encW /\ (inputs - Len(inside) + j >= since => inside[j] = Current)
      BY <3>1 DEF Steady
    <3> QED
      BY <1>1, <1>4, <3>1, <3>2, <3>3
  <2> QED
    BY <2>1, <2>2
<1> QED
  BY <1>2, <1>3, <1>4, <1>5

\* Steady and the announcement survive the sender's next input or restart.
LEMMA FedAnnounced ==
  ASSUME Inv, Announces, pc # "publish", pc' # "publish", UNCHANGED <<launched, info>>,
         since <= since', since' \in Nat
  PROVE  Announces'
<1>1. ASSUME info.fence > 0 PROVE Describes(info.width, launched[info.fence])'
  <2>1. info.fence \in 1 .. Len(launched)
    BY <1>1 DEF Inv, TypeOK
  <2>2. launched[info.fence].picture.pic \in Nat /\ since \in Nat
    BY <2>1, NotAhead
  <2>3. OwnSizes(launched[info.fence])' = OwnSizes(launched[info.fence])
    BY DEF OwnSizes
  <2> QED
    BY <1>1, <2>2, <2>3 DEF Announces, Describes
<1> QED
  BY <1>1 DEF Announces

\* The announcement of the last kernel, once both fields are stored.
LEMMA CompleteIsTrue ==
  ASSUME Inv, Steady, Handling, pc = "publish"
  PROVE  Describes(ValidW(input.header), launched[fenceValue])
<1>1. fenceValue = Len(launched)
  BY DEF Inv, Queued, TypeOK
<1> DEFINE kernel == [picture |-> picture, scaledTo |-> dec.surface, width |-> CopyW]
<1>2. launched[fenceValue] = kernel
  BY <1>1 DEF Handling
<1>3. /\ input.header \in Nat /\ input.header > 0 /\ TexW \in Nat /\ TexW > 0
      /\ picture.content \in Nat /\ picture.enc \in Nat /\ picture.content <= picture.enc
      /\ CopyW \in Nat /\ CopyW <= TexW
  BY CopyFits, DecodeStageAssumption DEF Inv, TypeOK, Frame, Picture, Handling
<1>4. ValidW(input.header) <= CopyW
  BY <1>3 DEF ValidW, Smaller
<1>5. ASSUME picture.pic >= since, OwnSizes(kernel)
      PROVE  ValidW(input.header) = Smaller(picture.content, TexW)
  <2>1. input.header = picture.content
    BY <1>5, NotAhead DEF Steady
  <2>2. CopyW >= Smaller(picture.enc, TexW)
    BY <1>5 DEF OwnSizes
  <2> QED
    BY <2>1, <2>2, <1>3 DEF ValidW, Smaller
<1> QED
  BY <1>2, <1>4, <1>5 DEF Describes

LEMMA AnnouncesStart == Init => Steady /\ Handling /\ Announces
<1> SUFFICES ASSUME Init PROVE Steady /\ Handling /\ Announces
  OBVIOUS
<1>1. /\ Len(inside) = 0 /\ inputs = 0 /\ since = 1 /\ Len(launched) = 0 /\ info.fence = 0
      /\ input.picture.pic = 0 /\ picture.pic = 0 /\ pc = "receive"
      /\ input.picture.content = 0 /\ input.picture.enc = 0
      /\ picture.content = 0 /\ picture.enc = 0
  BY DEF Init, NoFrame, NoPicture
<1> QED
  BY <1>1 DEF Steady, Handling, Announces

LEMMA SenderAnnounces ==
  ASSUME Inv, Inv', Steady, Handling, Announces, Sender
  PROVE  Steady' /\ Handling' /\ Announces'
<1>1. /\ UNCHANGED <<pc, input, picture, dec, fenceValue, unstored, info, launched>>
      /\ pc = "receive"
  BY DEF Sender, EncodeOnly, SenderRestart, thread
<1>2. Handling'
  BY <1>1 DEF Handling, CopyW, GetWidth
<1>3. /\ input.header \in Nat /\ input.picture.content \in Nat /\ picture.content \in Nat
  BY DEF Inv, TypeOK, Frame, Picture
<1>4. CASE EncodeOnly
  <2>1. PICK w \in ContentWidths : Feed(w, w) /\ w <= encW
    BY <1>4 DEF EncodeOnly
  <2>2. w \in Nat
    BY DecodeStageAssumption
  <2>3. /\ Len(inside') > 0
        /\ \A pic \in Int, c \in Nat :
             pic <= inputs /\ (pic >= since => c = Current) => (pic >= since' => c = Current')
        /\ \A i \in 1 .. Len(inside') :
             /\ inside'[i] <= encW'
             /\ inputs' - Len(inside') + i >= since' => inside'[i] = Current'
    BY <2>1, <2>2, FedSteady
  <2>4. /\ input.picture.pic >= since' =>
             input.header = Current' /\ input.picture.content = Current'
        /\ picture.pic >= since' => picture.content = Current'
    <3>1. input.picture.pic \in Int /\ picture.pic \in Int
          /\ input.picture.pic <= inputs /\ picture.pic <= inputs
      BY NotAhead
    <3> QED
      BY <1>3, <2>3, <3>1 DEF Steady
  <2>5. Steady'
    BY <1>1, <2>3, <2>4 DEF Steady
  <2>6. since <= since' /\ since' \in Nat
    BY <2>1, <2>2, FedSince DEF Inv, TypeOK
  <2> QED
    BY <1>1, <1>2, <2>5, <2>6, FedAnnounced
<1>5. CASE SenderRestart
  <2>1. inside' = <<>> /\ inputs' = inputs /\ since' = inputs + 1
    BY <1>5 DEF SenderRestart
  <2>2. Len(inside') = 0 /\ since <= since' /\ since' \in Nat
    BY <2>1 DEF Inv, TypeOK, Feeding
  <2>3. ~(input.picture.pic >= since') /\ ~(picture.pic >= since')
    BY <2>1, NotAhead
  <2>4. Steady'
    BY <1>1, <2>1, <2>2, <2>3 DEF Steady
  <2> QED
    BY <1>1, <1>2, <2>2, <2>4, FedAnnounced
<1> QED
  BY <1>4, <1>5 DEF Sender

LEMMA DecodeAnnounces ==
  ASSUME Inv, Inv', Steady, Handling, Announces, Decode
  PROVE  Steady' /\ Handling' /\ Announces'
<1>1. /\ UNCHANGED <<lag, launched, fenceValue, unstored, info>>
      /\ pc = "receive" /\ pc' \in {"receive", "copy", "dead"} /\ Len(inside) = OutputDelay
      /\ picture' = IF lag = 0 THEN input'.picture ELSE input.picture
  BY DEF Decode
<1>2. PICK w \in ContentWidths, now \in ContentWidths :
        /\ w <= encW /\ Feed(w, now)
        /\ input' = [header  |-> now,
                     picture |-> [pic |-> inputs + 1 - OutputDelay,
                                  enc |-> encW, content |-> Head(inside)]]
  BY DEF Decode
<1>3. w \in Nat /\ now \in Nat /\ now > 0
  BY DecodeStageAssumption
<1>4. /\ inputs \in Nat /\ OutputDelay \in Nat /\ OutputDelay > 0 /\ inside \in Seq(Nat)
      /\ input.picture.content \in Nat /\ input.picture.pic \in Int
      /\ input.picture.pic <= inputs
  <2>1. /\ inputs \in Nat /\ OutputDelay \in Nat /\ OutputDelay > 0 /\ inside \in Seq(Nat)
    BY DecodeStageAssumption DEF Inv, TypeOK
  <2>2. input.picture.content \in Nat
    BY DEF Inv, TypeOK, Frame, Picture
  <2>3. input.picture.pic \in Nat /\ input.picture.pic <= inputs
    BY NotAhead
  <2> QED
    BY <2>1, <2>2, <2>3
<1>5. /\ Len(inside') > 0 /\ Current' = w
      /\ \A pic \in Int, c \in Nat :
           pic <= inputs /\ (pic >= since => c = Current) => (pic >= since' => c = Current')
      /\ \A i \in 1 .. Len(inside') :
           /\ inside'[i] <= encW'
           /\ inputs' - Len(inside') + i >= since' => inside'[i] = Current'
  BY <1>2, <1>3, FedSteady
<1>6. since <= since' /\ since' \in Nat /\ (since' <= inputs => now = w)
  BY <1>2, <1>3, FedSince DEF Inv, TypeOK
<1>7. /\ input'.header = now /\ input'.picture.content = inside[1] /\ inside[1] \in Nat
      /\ input'.picture.pic = inputs + 1 - OutputDelay /\ input'.picture.enc = encW
      /\ inside[1] <= encW
      /\ inputs + 1 - OutputDelay >= since => inside[1] = Current
  <2>1. Head(inside) = inside[1] /\ inside[1] \in Nat /\ 1 \in 1 .. Len(inside)
    BY <1>1, <1>4
  <2>2. inside[1] <= encW /\ (inputs - Len(inside) + 1 >= since => inside[1] = Current)
    BY <2>1 DEF Steady
  <2> QED
    BY <1>1, <1>2, <1>4, <2>1, <2>2
<1>8. input'.picture.pic >= since' =>
        input'.header = Current' /\ input'.picture.content = Current'
  <2>1. inputs + 1 - OutputDelay \in Int /\ inputs + 1 - OutputDelay <= inputs
    BY <1>4
  <2>2. inputs + 1 - OutputDelay >= since' => inside[1] = Current'
    BY <1>5, <1>7, <2>1
  <2>3. inputs + 1 - OutputDelay >= since' => now = Current'
    BY <1>4, <1>5, <1>6, <2>1
  <2> QED
    BY <1>7, <2>2, <2>3
<1>9. picture'.pic >= since' => picture'.content = Current'
  <2>1. input.picture.pic >= since' => input.picture.content = Current'
    BY <1>4, <1>5 DEF Steady
  <2> QED
    BY <1>1, <1>8, <2>1
<1>10. Steady'
  BY <1>5, <1>8, <1>9 DEF Steady
<1>11. Handling'
  <2>1. picture'.content <= picture'.enc /\ input'.picture.content <= input'.picture.enc
    BY <1>1, <1>7 DEF Handling
  <2> QED
    BY <1>1, <1>3, <1>7, <2>1 DEF Handling
<1>12. Announces'
  BY <1>1, <1>6, FedAnnounced
<1> QED
  BY <1>10, <1>11, <1>12

LEMMA AnnouncesStep ==
  ASSUME Inv, Inv', Steady, Handling, Announces, [Next]_vars
  PROVE  Steady' /\ Handling' /\ Announces'
<1>1. CASE Decode
  BY <1>1, DecodeAnnounces
<1>2. CASE Launch
  <2> DEFINE kernel == [picture |-> picture, scaledTo |-> dec.surface, width |-> CopyW]
  <2>1. /\ UNCHANGED <<sender, lag, input, picture, dec, fenceValue, unstored, info>>
        /\ pc = "launch" /\ pc' = "signal" /\ launched' = Append(launched, kernel)
    BY <1>2 DEF Launch
  <2>2. kernel \in Kernel /\ launched \in Seq(Kernel)
    BY CopyFits DEF Inv, TypeOK, Kernel
  <2>3. /\ Len(launched') = Len(launched) + 1 /\ launched'[Len(launched) + 1] = kernel
        /\ \A n \in 1 .. Len(launched) : launched'[n] = launched[n]
        /\ Len(launched) \in Nat
    BY <2>1, <2>2, Appended
  <2>4. CopyW' = CopyW /\ Steady'
    BY <2>1 DEF CopyW, GetWidth, Steady, Current, sender
  <2>5. Handling'
    BY <2>1, <2>3, <2>4 DEF Handling
  <2>6. \A n \in 1 .. Len(launched') : launched'[n].width <= TexW
    BY <2>3, CopyFits DEF Inv, Announces
  <2>7. info.fence > 0 => Describes(info.width, launched[info.fence])'
    <3>1. /\ info.fence \in Nat /\ fenceValue \in Nat
          /\ info.fence <= fenceValue /\ fenceValue <= Len(launched)
      BY DEF Inv, TypeOK
    <3>2. info.fence > 0 => info.fence \in 1 .. Len(launched)
      BY <3>1, <2>3
    <3> QED
      BY <2>1, <2>3, <3>2 DEF Announces, Describes, OwnSizes, sender
  <2> QED
    BY <2>1, <2>4, <2>5, <2>6, <2>7 DEF Announces
<1>3. CASE Publish
  <2>1. /\ UNCHANGED <<sender, lag, input, picture, dec, fenceValue, launched>>
        /\ pc = "publish" /\ pc' = IF unstored' = {} THEN "receive" ELSE "publish"
    BY <1>3 DEF Publish
  <2>2. ValidW(input.header)' = ValidW(input.header) /\ CopyW' = CopyW /\ Steady'
    BY <2>1 DEF ValidW, CopyW, GetWidth, Steady, Current, sender
  <2>3. Handling'
    BY <2>1, <2>2 DEF Handling
  <2>4. /\ "fence" \notin unstored' => info'.fence = fenceValue
        /\ "width" \notin unstored' => info'.width = ValidW(input.header)
    <3>1. PICK field \in unstored :
            /\ info' = IF field = "width" THEN [info EXCEPT !.width = ValidW(input.header)]
                                          ELSE [info EXCEPT !.fence = fenceValue]
            /\ unstored' = unstored \ {field}
      BY <1>3 DEF Publish, Announced
    <3>2. info \in [width : Nat, fence : Nat] /\ unstored \subseteq {"width", "fence"}
      BY DEF Inv, TypeOK
    <3>3. CASE field = "width"
      <4>1. info'.width = ValidW(input.header) /\ info'.fence = info.fence
        BY <3>1, <3>2, <3>3
      <4> QED
        BY <4>1, <3>1, <3>3, <2>1 DEF Announces
    <3>4. CASE field = "fence"
      <4>1. info'.fence = fenceValue /\ info'.width = info.width
        BY <3>1, <3>2, <3>4
      <4> QED
        BY <4>1, <3>1, <3>4, <2>1 DEF Announces
    <3> QED
      BY <3>1, <3>2, <3>3, <3>4
  <2>5. pc' # "publish" => Describes(info.width, launched[info.fence])'
    <3> SUFFICES ASSUME pc' # "publish" PROVE Describes(info.width, launched[info.fence])'
      OBVIOUS
    <3>1. info'.fence = fenceValue /\ info'.width = ValidW(input.header)
      BY <2>1, <2>4
    <3> QED
      BY <2>1, <3>1, CompleteIsTrue DEF Describes, OwnSizes, sender
  <2> QED
    BY <2>1, <2>2, <2>3, <2>4, <2>5 DEF Announces
<1>4. CASE FinishDecode \/ LaunchFails \/ QueueSignal \/ Stop \/ Exit
  <2>1. UNCHANGED <<sender, lag, input, picture, dec, info, launched>>
    BY <1>4 DEF FinishDecode, LaunchFails, QueueSignal, Stop, Exit
  <2>2. CopyW' = CopyW /\ Steady'
    BY <2>1 DEF CopyW, GetWidth, Steady, Current, sender
  <2>3. /\ pc # "publish"
        /\ pc' \in {"copy", "launch", "publish"} =>
             pc \in {"copy", "launch", "signal", "publish"}
        /\ pc' = "publish" => pc = "signal" /\ unstored' = {"width", "fence"}
        /\ pc' # "signal"
    BY <1>4 DEF FinishDecode, LaunchFails, QueueSignal, Stop, Exit
  <2>4. Handling'
    BY <2>1, <2>2, <2>3 DEF Handling
  <2> QED
    BY <2>1, <2>2, <2>3, <2>4 DEF Announces, Describes, OwnSizes, sender
<1>5. CASE Stream \/ UNCHANGED vars
  <2>1. UNCHANGED <<sender, lag, thread, launched>>
    BY <1>5 DEF Stream, StartConvert, FinishConvert, FinishSignal, vars
  <2> QED
    BY <2>1 DEF thread, sender, Steady, Current, Handling, Announces, Describes, OwnSizes,
             ValidW, CopyW, GetWidth
<1>6. CASE Sender
  BY <1>6, SenderAnnounces
<1> QED
  BY <1>1, <1>2, <1>3, <1>4, <1>5, <1>6 DEF Next, Thread

\* The announcement's invariant, over the one proved above.
THEOREM AnnouncementsHold == Spec => [](Inv /\ Steady /\ Handling /\ Announces)
<1>1. Inv /\ Steady /\ Handling /\ Announces /\ [Next]_vars
        => (Inv /\ Steady /\ Handling /\ Announces)'
  BY Steps, AnnouncesStep
<1> QED
  BY Starts, AnnouncesStart, <1>1, PTL DEF Spec

\* The announced region was converted, and lies in the texture.
THEOREM RegionsConverted == Spec => []PublishedRegionConverted
<1>1. Inv /\ Announces => PublishedRegionConverted
  BY DEF Inv, TypeOK, Announces, Describes, PublishedRegionConverted
<1> QED
  BY AnnouncementsHold, <1>1, PTL

\* A picture taken after the last change of size is announced with its own width,
\* through any delay in the encoder, any frames lost and either parser.
THEOREM OwnSizeWhenSettled == Spec => []SettledSizeIsOwn
<1>1. Announces => SettledSizeIsOwn
  BY DEF Announces, Describes, SettledSizeIsOwn
<1> QED
  BY AnnouncementsHold, <1>1, PTL
=============================================================================
