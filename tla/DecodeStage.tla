---------------------------- MODULE DecodeStage ----------------------------
(***************************************************************************)
(* What streamreceiver does with a whole frame: NvDecoder's parser and its *)
(* one device buffer, the conversion kernel and the fence signal queued on *)
(* a CUDA stream of their own, and the SharedInfo announcement             *)
(* (src/streamreceiver/main.cpp:416-455, NvDecoder.cpp:294-475, 548-707).  *)
(* That stream is CU_STREAM_NON_BLOCKING, so it is not ordered with the    *)
(* decoder's copies.  The frames come from streamsender's loop, seen only  *)
(* as the sizes it handles (src/streamsender/main.cpp:217-221, 343-358).   *)
(* Sizes are widths only: height takes the same path.                      *)
(***************************************************************************)
EXTENDS Integers, Sequences

CONSTANTS TexW,           \* -maxw: width of the receiver's shared texture
          Align,          \* macroblock width: coded sizes are multiples of it
          EncWidths,      \* what senders encode at (the width of their texture)
          ContentWidths,  \* what a producer can announce as valid
          OutputDelay,    \* m_nOutputDelay of the sender's encoder
          MaxInputs       \* bound: how many pictures senders encode

ASSUME DecodeStageAssumption ==
  /\ TexW \in Nat \ {0} /\ Align \in Nat \ {0} /\ OutputDelay \in Nat \ {0}
  /\ MaxInputs \in Nat
  /\ EncWidths \subseteq Nat \ {0} /\ ContentWidths \subseteq Nat \ {0}

VARIABLES
  encW,       \* what the sender encodes at
  inside,     \* what is valid in the inputs inside NVENC, oldest first
  inputs,     \* how many inputs there have been
  since,      \* the first input of the present size
  lag,        \* how many frames the parser holds back: it is a closed library
  pc,         \* the receiving thread
  input,      \* the frame last given to Decode
  picture,    \* the picture Decode has put into the buffer
  dec,        \* NvDecoder: m_nWidth, m_nSurfaceWidth, m_nMaxWidth, m_videoFormat's widths
  fenceValue,
  unstored,   \* fields of SharedInfo this announcement has yet to store
  info,       \* SharedInfo: width and fenceValue
  launched,   \* the kernels queued; the n-th is followed by Signal(n)
  buffer,     \* m_vpFrame[0]: the picture of the last finished copy
  converting, \* oldest picture the running kernel can read, or 0
  converted,  \* kernels finished
  texture,    \* oldest picture that the texture's pixels can be of
  texFence    \* completed value of the shared fence

sender == <<encW, inside, inputs, since>>
thread == <<pc, input, picture, dec, fenceValue, unstored, info>>
gpu    == <<converting, converted, texture, texFence>>
vars   == <<sender, lag, thread, launched, buffer, gpu>>

\* A picture: the number of the input it was coded from, the width it was encoded
\* at and the width that was valid in it.  A frame brings the header's width too.
Picture == [pic : Nat, enc : Nat, content : Nat]
Frame   == [header : Nat, picture : Picture]
Kernel  == [picture : Picture, scaledTo : Nat, width : Nat]

NoPicture == [pic |-> 0, enc |-> 0, content |-> 0]
NoFrame   == [header |-> 0, picture |-> NoPicture]

Init ==
  /\ encW \in EncWidths /\ inside = <<>> /\ inputs = 0 /\ since = 1
  /\ lag \in {0, 1}
  /\ pc = "receive" /\ input = NoFrame /\ picture = NoPicture
  /\ dec = [w |-> 0, surface |-> 0, coded |-> 0, display |-> 0, max |-> TexW]
  /\ fenceValue = 0 /\ unstored = {} /\ info = [width |-> 0, fence |-> 0]
  /\ launched = <<>> /\ buffer = 0
  /\ converting = 0 /\ converted = 0 /\ texture = 0 /\ texFence = 0
-----------------------------------------------------------------------------
Smaller(a, b) == IF a < b THEN a ELSE b
Larger(a, b)  == IF a < b THEN b ELSE a

Coded(w) == ((w + Align - 1) \div Align) * Align

\* EncodeFrame takes an input with width w valid; by the time the header is written
\* SharedInfo may say `now`, and then the size changes with the next input.
Feed(w, now) ==
  /\ inputs' = inputs + 1
  /\ inside' = Append(IF Len(inside) < OutputDelay THEN inside ELSE Tail(inside), w)
  /\ since' = IF now # w THEN inputs + 2
              ELSE IF inside # <<>> /\ w = inside[Len(inside)] THEN since ELSE inputs + 1
  /\ UNCHANGED encW

\* Inputs that bring no whole frame: nothing is sent until OutputDelay inputs are
\* inside NVENC, datagrams are lost, or no keyframe has come.
EncodeOnly ==
  /\ pc = "receive" /\ inputs < MaxInputs
  /\ \E w \in ContentWidths : w <= encW /\ Feed(w, w)
  /\ UNCHANGED <<lag, thread, launched, buffer, gpu>>

\* The sender is started again, perhaps on another producer: what was in its
\* encoder is gone, and every picture to come is of a new stream.
SenderRestart ==
  /\ pc = "receive" /\ inside # <<>>
  /\ encW' \in EncWidths
  /\ inside' = <<>> /\ since' = inputs + 1
  /\ UNCHANGED <<inputs, lag, thread, launched, buffer, gpu>>

\* A first sequence header creates the decoder.  Of a later one only m_nWidth is
\* taken over, and that if the coded size is the one before; m_videoFormat's
\* display area stays the first, and pictures are scaled to the first coded size.
Sequence(enc) ==
  IF dec.w = 0
  THEN [w |-> enc, surface |-> Coded(enc), coded |-> Coded(enc), display |-> enc,
        max |-> Larger(dec.max, Coded(enc))]
  ELSE IF Coded(enc) = dec.coded
  THEN [dec EXCEPT !.w = IF enc # dec.display THEN enc ELSE @]
  ELSE [dec EXCEPT !.coded = Coded(enc)]

Refused(enc) == dec.w > 0 /\ Coded(enc) > dec.max

\* deliverFrame calls Decode with the frame the sender sends with its next input: the
\* bitstream of the oldest input inside, under a header of now.  The parser reports
\* a sequence header when it is new, and gives out the picture of this frame or,
\* unless CUVID_PKT_ENDOFPICTURE is set (it is not), that of the one before;
\* damaged data may give none.  Any driver call in it may throw.
Decode ==
  /\ pc = "receive" /\ inputs < MaxInputs /\ Len(inside) = OutputDelay
  /\ \E w, now \in ContentWidths :
       /\ w <= encW /\ now <= encW
       /\ Feed(w, now)
       /\ input' = [header  |-> now,
                    picture |-> [pic |-> inputs + 1 - OutputDelay,
                                 enc |-> encW, content |-> Head(inside)]]
  /\ picture' = IF lag = 0 THEN input'.picture ELSE input.picture
  /\ \/ pc' = "dead" /\ UNCHANGED dec
     \/ /\ encW = input.picture.enc \/ ~Refused(encW)
        /\ dec' = IF encW = input.picture.enc THEN dec ELSE Sequence(encW)
        /\ \/ pc' = "receive"
           \/ picture'.pic > 0 /\ pc' = "copy"
  /\ UNCHANGED <<lag, fenceValue, unstored, info, launched, buffer, gpu>>

\* cuStreamSynchronize(m_cuvidStream) returns, the picture being in the one
\* buffer, or throws.
FinishDecode ==
  /\ pc = "copy"
  /\ pc' \in {"launch", "dead"}
  /\ buffer' = picture.pic
  /\ UNCHANGED <<sender, lag, input, picture, dec, fenceValue, unstored, info, launched, gpu>>

\* NV12 has one chroma sample for two columns: m_nWidth is rounded up.
GetWidth == 2 * ((dec.w + 1) \div 2)

\* Slip: the kernel covers the whole decoded width.
CopyW_NoClamp == GetWidth
CopyW == Smaller(GetWidth, TexW)

LaunchFails ==
  /\ pc = "launch"
  /\ pc' = "receive"
  /\ UNCHANGED <<sender, lag, input, picture, dec, fenceValue, unstored, info,
                 launched, buffer, gpu>>

Launch ==
  /\ pc = "launch"
  /\ pc' = "signal"
  /\ launched' = Append(launched, [picture |-> picture, scaledTo |-> dec.surface, width |-> CopyW])
  /\ UNCHANGED <<sender, lag, input, picture, dec, fenceValue, unstored, info, buffer, gpu>>

\* The signal is queued behind the kernel, or CUCheck throws and the process ends.
QueueSignal ==
  /\ pc = "signal"
  /\ fenceValue' = fenceValue + 1
  /\ \/ pc' = "publish" /\ unstored' = {"width", "fence"}
     \/ pc' = "dead" /\ UNCHANGED unstored
  /\ UNCHANGED <<sender, lag, input, picture, dec, info, launched, buffer, gpu>>

\* Slip: the size is stored with the first picture only.
ValidW_Once(w) == IF info.width > 0 THEN info.width ELSE Smaller(w, CopyW)
ValidW(w) == IF Smaller(w, CopyW) > 0 THEN Smaller(w, CopyW) ELSE CopyW

\* Slip: the value after the one just queued.
Announced_Next == fenceValue + 1
Announced == fenceValue

\* info's fields are plain memory and nothing orders the stores of one frame.
Publish ==
  /\ pc = "publish"
  /\ \E field \in unstored :
       /\ info' = IF field = "width" THEN [info EXCEPT !.width = ValidW(input.header)]
                                     ELSE [info EXCEPT !.fence = Announced]
       /\ unstored' = unstored \ {field}
  /\ pc' = IF unstored' = {} THEN "receive" ELSE "publish"
  /\ UNCHANGED <<sender, lag, input, picture, dec, fenceValue, launched, buffer, gpu>>

\* Ctrl+C: out of the receive loop, then cuStreamSynchronize(stream).
Stop ==
  /\ pc = "receive"
  /\ pc' = "stop"
  /\ UNCHANGED <<sender, lag, input, picture, dec, fenceValue, unstored, info,
                 launched, buffer, gpu>>

Exit ==
  /\ pc = "stop"
  /\ texFence = Len(launched)
  /\ pc' = "done"
  /\ UNCHANGED <<sender, lag, input, picture, dec, fenceValue, unstored, info,
                 launched, buffer, gpu>>
-----------------------------------------------------------------------------
\* The CUDA stream: kernel 1, Signal(1), kernel 2, Signal(2) and so on.
StartConvert ==
  /\ converting = 0 /\ converted = texFence /\ converted < Len(launched)
  /\ converting' = buffer
  /\ UNCHANGED <<sender, lag, thread, launched, buffer, converted, texture, texFence>>

FinishConvert ==
  /\ converting > 0
  /\ converting' = 0 /\ texture' = converting /\ converted' = converted + 1
  /\ UNCHANGED <<sender, lag, thread, launched, buffer, texFence>>

\* Slip: the signal does not wait for the kernel before it.
SignalDue_Early == texFence < fenceValue
SignalDue == texFence < fenceValue /\ texFence < converted

FinishSignal ==
  /\ SignalDue
  /\ texFence' = texFence + 1
  /\ UNCHANGED <<sender, lag, thread, launched, buffer, converting, converted, texture>>

Thread == Decode \/ FinishDecode \/ LaunchFails \/ Launch \/ QueueSignal \/ Publish
            \/ Stop \/ Exit
Stream == StartConvert \/ FinishConvert \/ FinishSignal
Sender == EncodeOnly \/ SenderRestart

Next == Thread \/ Stream \/ Sender

\* The GPU works through the stream while the process lives, and the thread comes
\* back from each frame; nothing makes another frame arrive.
Fairness ==
  /\ WF_vars(pc # "dead" /\ Stream)
  /\ WF_vars(FinishDecode \/ Launch \/ QueueSignal \/ Publish \/ Exit)

Spec == Init /\ [][Next]_vars /\ Fairness
-----------------------------------------------------------------------------
\* Types, and the order in which the stream's counters follow each other.
TypeOK ==
  /\ encW \in EncWidths /\ inside \in Seq(Nat) /\ inputs \in Nat /\ since \in Nat
  /\ lag \in {0, 1}
  /\ pc \in {"receive", "copy", "launch", "signal", "publish", "stop", "done", "dead"}
  /\ input \in Frame /\ picture \in Picture
  /\ dec \in [w : Nat, surface : Nat, coded : Nat, display : Nat, max : Nat]
  /\ unstored \subseteq {"width", "fence"} /\ info \in [width : Nat, fence : Nat]
  /\ launched \in Seq(Kernel)
  /\ buffer \in Nat /\ converting \in Nat /\ texture \in Nat
  /\ fenceValue \in Nat /\ converted \in Nat /\ texFence \in Nat
  /\ info.fence <= fenceValue /\ fenceValue <= Len(launched)
  /\ texFence <= fenceValue /\ texFence <= converted /\ converted <= Len(launched)

\* A consumer that has waited for fence value v finds a picture at least as new as
\* the one announced with v, although launches fail and the decoder's buffer is
\* overwritten under the kernels.
ShowsAnnouncedPicture ==
  \A v \in 1 .. texFence : texture >= launched[v].picture.pic

\* The region SharedInfo announces was written by the kernel of that fence value,
\* and lies in the texture (surf2Dwrite outside it would be dropped).
PublishedRegionConverted ==
  pc = "receive" /\ info.fence > 0 =>
    /\ info.width <= launched[info.fence].width
    /\ launched[info.fence].width <= TexW

\* The decoder's sizes are those of the stream the picture is of.
OwnSizes(kernel) ==
  /\ kernel.scaledTo = Coded(kernel.picture.enc)
  /\ kernel.width >= Smaller(kernel.picture.enc, TexW)

\* "The receiver reads width/height from each packet header so it knows the valid
\* content sub-region" (streamsender/main.cpp:217-219), but the header is read
\* OutputDelay inputs after the picture and the parser may hold a picture back for
\* a frame.  What remains: a picture taken after the last change of size (or
\* restart) is announced with its own width, unless the decoder kept other sizes.
SettledSizeIsOwn ==
  pc = "receive" /\ info.fence > 0 =>
    LET kernel == launched[info.fence]
    IN  kernel.picture.pic >= since /\ OwnSizes(kernel) =>
          info.width = Smaller(kernel.picture.content, TexW)

\* A consumer never waits for good: every announced value is signalled, whatever
\* launches failed, unless the receiver dies of an exception first.
AnnouncedIsSignalled ==
  \A v \in 1 .. MaxInputs - OutputDelay : info.fence = v ~> texFence >= v \/ pc = "dead"

\* "All frames that are available for display should be read before making a
\* subsequent decode call" (NvDecoder.h:210-211): no copy into the buffer while a
\* queued or running kernel has yet to read it.
ReadBeforeNextDecode == pc = "copy" => converted = Len(launched)
=============================================================================
