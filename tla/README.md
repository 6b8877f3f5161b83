# streamco in TLA+

streamco moves pictures between programs and machines: a capture program copies
the desktop (or one Chrome window) into a shared GPU texture, `screendisplay`
shows it, `streamsender` encodes it with NVENC and sends it over UDP, and
`streamreceiver` reassembles and decodes it into a shared texture of its own, to
which `screendisplay` attaches unchanged. This directory holds TLA+ modules of
those programs, TLC configurations that check them on small instances, and
TLAPS proofs of the main safety properties for every value of the constants.

    tlc -workers 2 -config MCReassembly.cfg MCReassembly      # a run
    tlapm Reassembly_proofs.tla                               # a proof module

`PROJECT.json` lists the runs, the source lines behind each definition, the
hazards and which property watches each, and a mutant of the code for each
property that passes.

## 1. Inventory of the system

| Part | State it keeps | Operations | Talks to |
|---|---|---|---|
| wire protocol (`streamnet_protocol.h`) | none: a 32-byte header, payloads of at most 1400 bytes | cut a frame into datagrams, place a fragment | sender, receiver |
| `streamsender` | `frameId`, `lastProducerFence`, allocator ring; NVENC's `m_iToSend`, `m_iGot`, buffer rings, fences | poll, GPU copy, EncodeFrame, packet loop | producer's texture and fence, NVENC, UDP |
| `streamreceiver`, reassembly | `pending` (id to FrameAssembly), `nextDeliver`, `streamStarted` | one handler per datagram, with a drain loop | UDP, decoder |
| `streamreceiver`, decode | NvDecoder's sizes and frame buffer, CUDA stream, `fenceValue`, SharedInfo | Decode (with reconfiguration), convert, signal, publish | decoder, consumers |
| shared-texture contract | one texture, one fence, one `SharedInfo`, found by name | publish (producer); wait and read (consumer) | every program |
| `screencapture` | `duplication`, `fenceValue`, the named objects | set-up, acquire, copy, signal, publish, re-duplicate | desktop, consumers |
| `screendisplay` | `frameIndex`, `perFrameVal`, allocators of two back buffers | open the named objects, window messages, wait for a back buffer, wait for the fence, draw, present, drain | producer |
| `chromecapture` | crop rectangle, pool size, `g_running`; pool thread, main thread, overlay thread | FrameArrived (resize or copy), Closed, overlay timer, teardown | Chrome window, consumers |
| `streamruntime` | list of instances (a path table is declared but not used yet) | negotiate, create and destroy an instance, enumerations | OpenXR loader |
| `src/main.cpp`, CUDA, the Video Codec SDK and the OpenXR SDK | - | a hello-world program, vendored code | - |

What is hard in this code is not data structures but order. No two programs
share a lock; a CPU thread runs ahead of its GPU queue, which runs ahead of
NVENC; a producer is never told how far a consumer is; UDP loses, repeats and
reorders; either end of the link can be restarted; and several buffers are
reused on the strength of an argument the code does not spell out. What makes
each part correct:

- *reassembly*: whole frames, in order, once each; a bounded backlog; a frame
  is given up for a reason; a damaged frame does not hold up the stream for long;
- *frame loop*: no ring slot reused while an engine uses it; no wait that never ends;
  nothing in use when the encoder is destroyed;
- *link*: a fault costs the frames it hits; decoding starts at an IDR;
- *shared texture*: nobody reads a frame older than announced, nobody waits for
  a value that never comes, a read is of one frame;
- *decode*: a fence value stands for its picture, the announced region was converted,
  and the announced size is the picture's own once the size has settled;
- *chromecapture*: copies in bounds, the published size is that of the picture, the
  border is where the capture is, the program ends;
- *streamruntime*: the list of instances is that of the live ones.

## 2. Modules

| Module | Models | Role |
|---|---|---|
| `StreamNet` | packet count, offset, payload (sender 349-365, receiver 494-503) | operators |
| `Reassembly` | the receive loop (streamreceiver 409-526) | component |
| `FrameStream` | what the receiver promises its decoder | abstract specification |
| `StreamSender` | the frame loop and its end (streamsender 284-384), its command queue, NVENC's wrapper, a producer | component |
| `StreamLink` | sender from `forceIdr` on (336-378), UDP, and `Reassembly` by INSTANCE | composition |
| `ScreenShare` | screencapture from its set-up on (179-268), the shared texture, screendisplay from opening to drain (306-458) | composition |
| `DecodeStage` | `deliverFrame` (streamreceiver 417-456), NvDecoder, the CUDA stream, the exit; the sizes a sender encodes and announces (streamsender 213-221, 342-362) | component |
| `CropGeometry` | `ComputeCrop` and the clipping in `applyCrop` (chromecapture 252-305, 675-682) | operators |
| `ChromeCapture` | FrameArrived, Closed, the overlay's timer, main from its wait on (chromecapture 343-372, 675-807) | component |
| `StreamRuntime` | `xrCreateInstance`, `xrDestroyInstance` (streamruntime 117-151) | component |
| `MCReassembly` | small frames for `Reassembly`, packet arithmetic checked exhaustively by an ASSUME | model |
| `MCChromeCapture` | a small monitor and five layouts of Chrome's window | model |
| the `*_proofs` modules | | proofs |

**Reassembly.** A frame is a record (id, size, key) and a datagram is a frame
and a fragment number. An entry keeps the header that created it and, for each
slot, the frame whose fragment was copied there; `have[]` and `recvCount` are
the domain of that function, so a fragment of a *different* frame with the same
id shows. `Receive` is the whole handler. The drain loop is given by its result:
it stops at the first entry that is incomplete while at most `MaxPending` are
left (`Stops`, where the entries left at k are those not below k), hands over
the complete ones before it and forgets the rest.
`handed` is what the latest datagram delivered. The network is arbitrary: any
fragment of any frame at any time, any number of times.

**StreamSender.** Frame k uses slot `k % NumBfrs` of the command allocators, the
NVENC input textures and the output buffers. The CPU polls, queues
Wait-copy-Signal (`Submit`), calls `EncodeFrame`, and there blocks until the
bitstream of frame k - 3 can be read. The command queue runs copies in order
once the producer's fence allows; NVENC encodes in order once the input fence
allows. The CPU thread itself never waits for a fence: that blocking read is
the only thing that protects the three rings. Ctrl+C ends the loop at its next
test; `EndEncode` then reads what is left without the delay and
`DestroyEncoder` takes the rings away.

**StreamLink.** `encQ` holds, for each input still inside the encoder, whether
it was coded as an IDR; a frame on the wire has the flag its header carries
(`key`) and the truth about its bits (`idr`). `FaultKinds` and `MaxFaults` say
what may go wrong and how often: loss, duplication, a failed `sendto` (the rest
of the frame is not sent), a restart of either process anywhere. A datagram may
pass up to `Overtake` others. `hit` is history: the frames a fault or an
overtaking datagram touched.

**ScreenShare.** Each program is a CPU thread and a GPU queue. The producer
creates its texture, fence and mapping in that order and fills the mapping last
(`created`); the consumer opens them in the same order at any pace (`opened`).
The producer's copy takes time (`writing`), and so does the draw (`reading`).
After a change of the display mode (`fits` false) `CopyResource` between
textures of two sizes does nothing, but the Signal behind it is still executed:
`misfits` are those frames and `content` is what the texture really holds.
`due[i]` is `perFrameVal[i]` less the completed value of `frameFence`, which is
all the code compares and keeps the counters finite. `AccessLost` may leave
`duplication` null, after which the next iteration dies in `AcquireNextFrame`. A
value stored for another process is one step; so is a loop iteration of
`screendisplay` after its wait, which reads `info->fenceValue` once.

**DecodeStage.** The sender is here as the sizes it handles: `inside` is what was
valid in each input still inside NVENC, `encW` what it encodes at (the width of
its producer's texture), and `SenderRestart` a new process, perhaps at another
`encW`, with an empty encoder. A frame is a header and a picture, and they are
not of the same moment: the header has the width SharedInfo shows after
`EncodeFrame` returns, the picture is that of the input `OutputDelay` ago.
`since` is history: the first input after the last change of size or restart.
An input whose frame never reaches `deliverFrame` (lost, incomplete, or none
out of the encoder yet) is `EncodeOnly`; what the link does to a
frame is `StreamLink`'s subject.
`Decode` is one delivered frame: NvDecoder sees its sequence
header when it is new (first creation, reconfiguration, or refusal by an
exception), and the parser gives out its picture, that of the frame before
(`lag`: the parser is closed, and the packet is not marked as a whole picture),
or none; any driver call in it may throw, and so may the wait for the copy.
`dec` keeps both the width the decoder reports (`w`, rounded up to even by
`GetWidth`) and the one it scales to (`surface`, the first coded size for good):
after streams of 6, 4 and 3 columns it reports 3 and still scales to 6. A
picture takes three steps (copy into the single buffer, launch,
signal) and its announcement is stored field by field. `launched` is the stream:
kernel n and Signal(n) follow each other, on a stream that is not ordered with
the decoder's. `converting` is the oldest picture a running kernel may read, so
that a copy into the buffer under a kernel can only make `texture` newer. A launch may
fail (the picture is skipped before it gets a fence value); queueing the signal
may throw (the process dies). Only widths are kept: heights take the same path.

**ChromeCapture.** The callback is a sequence of steps (take, apply the crop,
copy, publish) because the user changes the window at any moment, and the crop
is computed from the window as it is then. FrameArrived is serialised by
Windows, so there is one callback; the overlay thread and main run beside it.
`pool` is the size of the pool's surfaces. `Recreate` drops the frames in the
pool. A frame is not copied when the box is empty or its surface gives out no
texture, which may happen at any time. After the main thread has closed the session no further callback starts,
but one that is running goes on.

**StreamRuntime.** Each call is two steps after its first (`CreateSteps`,
`DestroySteps`): list and return, or erase and free. Addresses are reused as soon as
they are free. The application destroys handles that it holds, once, as OpenXR
requires of it.

## 3. Runs

| Run | Question | Bounds |
|---|---|---|
| `reassembly` | does the receiver keep its promises against any network? | 6 ids up to the wrap, frames of 1 to 3 fragments, `MaxPending` 3 |
| `link` | does damage stay local, and does the decoder get whole frames in order, end to end? | ids to 6, 2 faults, one datagram overtakes, 3 in flight |
| `link_live` | how long can a damaged frame hold up the stream? | 9 ids, frames of 1 and 2 fragments, `MaxPending` 2, 2 faults (loss, failed `sendto`, restarts), a path in order |
| `link_keyframe` (violated) | does the stream start on an IDR? | no faults at all, output delay 3 as in the code |
| `link_mixed` (violated) | is a delivered frame one frame? | one sender restart |
| `sender` | are the rings safe, what stays in the encoder, do loop and exit go on, without a circular wait? | ring of 4 as in the code, 7 published frames |
| `display` | is the texture contract kept, does every frame get shown, can both sides end? | 2 buffers as in the code, 3 frames |
| `display_tear` (violated) | does a draw see one frame? | the same |
| `decode` | does a fence value stand for its picture, its region and in the end its size, and is it signalled? | 5 inputs, delay 1, 3 stream widths around a texture of 4, 2 content widths |
| `decode_overwritten` (violated) | is the decoder's buffer read before the next Decode? | 6 inputs of one width, delay 3 as in the code |
| `chrome` | are copies in bounds, sizes right, the border in place, and does the program end? | 5 layouts, 2 changes, 3 frames, pool of 2 as in the code |
| `runtime` | is the list of instances exact? | 3 threads, 3 addresses |

*Why the bounds are enough.* `reassembly` has ids enough to overflow the backlog
twice and to cross the wrap, and frames of 1, 2 and 3 fragments; the safety
properties it checks are proved without bounds. In `sender` more than
`NumBfrs` frames go through, so every slot is reused. In `link` two
faults can hit one frame or two, `MaxPending` 2 is exceeded, and a datagram can
overtake within a frame and across frames. `link_live` has ids enough
for five frames that can each be damaged and followed by the `MaxPending` others
that push them out, two of which the faults may hide; frames have one or two
fragments in any order. Three things are left out of it because the bound does
not hold with them. *The wrap*: an incomplete frame with the last id
leaves only stale ids behind it (481), and is never completed if the frames that later
bear its id have fewer fragments, since `have[]` takes theirs for duplicates;
with 32-bit ids that is out of reach of any session. *Overtaking*: a keyframe
overtaken before the stream starts makes the frames that overtook it stale
without any fault being counted. *Duplicates*: one that arrives after later datagrams
is a reordering. After a sender restart the receiver waits until the new ids
pass `nextDeliver`, however long that takes, so the bound is for one run of
each process. In `display` three frames give a frame before, during
and after a mode change, and the draws, which have no bound, go round the two
buffers for ever. In `decode` the widths 3, 4 and 6 with macroblocks of 2 give
the three cases of a reconfiguration (same coded size with another visible one,
smaller coded size, refused size), odd and even widths, and content on both sides of
the texture's width; with a delay of one, five inputs are enough for a header ahead
of its picture, a parser that is a frame behind, and a restart at another
size under a running kernel. A third sender (6, 4, 3) with a delivered frame of each needs six; the
theorem covers it. `chrome` has a page that hangs out of its window, a window larger than the
texture, an offset beyond the texture, a window without a render widget and one
of size 0; two changes are enough for the crop to change under a callback and for a
resize to follow. `runtime` has as many addresses as threads, so an address
freed by one thread can be reused while another still works. The 32-bit
modulus, 12 for `MaxPending` and 1400 for `MaxPayload` are constants; small
values keep every comparison the code makes.

*Deadlock* is checked in `reassembly` and `runtime`. Elsewhere the system
really stops: `StreamSender` after Ctrl+C (or when the bounded producer has
nothing more to publish), `StreamLink` when the
bounded sender has sent its frames, `ScreenShare` when both programs have
ended, `DecodeStage` when the receiver has, `ChromeCapture` when main is done.
That they stop only where they should is what `EveryPublishNoticed`,
`ExitCompletes`, `EveryPublishShown`, `DisplayExits`, `AnnouncedIsSignalled` and
`ShutdownCompletes` say. Two invariants give the reason, and are proved:
`NoCircularWait` (the thread blocked in `EncodeFrame` waits for work that is
under way or held up at most by the producer's GPU) and `WaitsForQueuedSignals`
(screendisplay waits only for values whose Signal is already queued, so it does
not matter when screencapture dies).

*Fairness.* `StreamSender`: the CPU loop, the command queue and NVENC make
progress, and the producer's GPU finishes what was published; nothing makes the
producer publish again (a static screen is normal, and Desktop Duplication then
times out). `StreamLink`: the sender's loop runs and a datagram not lost is
delivered; faults are never fair. `ScreenShare`: both GPUs and the consumer's
thread; copies already flushed to the GPU complete even when the capture process
ends; screencapture itself is not fair. `DecodeStage`: the thread comes back
from each frame and the stream is worked through while the process lives; no frame need
arrive. `ChromeCapture`: the timer, the Closed event and main's thread; neither
the compositor nor the callback is fair. `StreamRuntime` has no liveness. All of
it is weak fairness: each step stays enabled until it is taken.

### What the violated runs show

- `link_keyframe`: the header's keyframe bit is taken from this iteration's
  `forceIdr`, the bitstream from three inputs ago. The receiver's resync
  (streamreceiver 474-480) therefore starts on a picture that is not an IDR,
  and the real IDR comes three frames later without the flag. No fault is needed.
- `link_mixed`: after a sender restart the ids start again at 0; fragments of
  the old and the new frame with one id complete one entry, and the decoder gets it.
  `MixedOnlyAcrossBitstreams` shows that nothing less than a second process (or a
  wrap of the ids) can do this.
- `display_tear`: the fence keeps a draw behind the copy it waited for, not the
  next copy behind the draw.
- `decode_overwritten`: NvDecoder's header asks that a frame be read before the
  next `Decode`; the conversion kernel is only queued by then, and its stream
  is a non-blocking one. `ShowsAnnouncedPicture` says what still holds: the
  texture is never of an older picture than announced.

`HeldBack` (run `sender`) has a consequence worth knowing: the last three pictures before
a screen stops changing are not sent until it changes again, and at exit they
are read back into a vector that nobody sends.

## 4. Proofs

All are of the form `Spec => []P`, for every value of the constants under the
assumptions named in the modules; those about a step (`GivenUpOnlyWhenBacklogged`,
`PublishesCopiedSize`, `DamageIsLocal`) are of the form `Spec => [][A]_vars`, and
the refinements of the form `Spec => Abstract!Spec`. Some need a hypothesis about
the constants, which is a definition with a name: `UniqueIds`, `OneBitstream`,
`PathFaultsOnly`.

- `StreamNet_proofs!FragmentsTile`: for every size up to `MaxFrameSize` the
  datagrams of a frame are non-empty, lie in it, are disjoint and cover it. It
  rests on `TotalIsCeiling` and on Euclid's division, and says exactly where the
  `uint16_t` packet count stops being enough.
- `Reassembly_proofs`. `TypeOK` is inductive. `DrainStops` says what the drain
  loop leaves: at most `MaxPending` entries, the lowest of them
  incomplete and equal to `nextDeliver`; `BacklogIsBounded` and
  `HeadIsIncomplete` follow without further strengthening. `ImplementsFrameStream`
  needs `OrderInv`: `TypeOK`, `WaitsOnIncompleteHead` and `Keyed` (every slot
  of entry k holds a frame with id k). With `UniqueIds` (an id names one frame
  for good) every slot then holds its entry's own frame (`Matched`), so a
  complete entry is the whole frame (`CompleteIsWhole`), and each step maps to
  `FrameStream!Show` with the step's new limit, or to a stutter (`ReceiveShows`).
  `NeverGivenUpEarly` is an action property from `TypeOK`. The lemmas about one
  datagram ask for `Matched` and not for `UniqueIds`, which is what lets the
  link use them.
- `StreamLink_proofs` instantiates `Reassembly_proofs`, so that the link's receiver gets
  the lemmas about one datagram's step. `LinkTypeCorrect` holds for all five kinds of
  faults; it adds to `TypeOK` that there are no more processes than faults.
  `DrainedWhateverHappens` does too: backlog and head are right through
  restarts and the wrap. `ReceiverIsReassembly` says that a receiver
  that is not restarted implements `Reassembly!Spec`.
  `LinkImplementsFrameStream` needs `OneBitstream` (no sender restart, ids do
  not wrap), without which `link_mixed` refutes it; a restart of the
  receiver shows as the wrap does, `next` going to 0. `UniqueIds` is false in the link (`Frames` has
  many records with one id); instead `Consistent` says that among the frames in
  use (being sent, in flight, or heading an entry) an id names one
  (`Agreed`), that none of them is newer than `frameId`, and `Matched`.
  `MixedOnlyAcrossBitstreams` reads the same invariant.
  `DamageStaysLocal` also excludes receiver restarts (`PathFaultsOnly`): a restarted receiver
  forgets fragments of frames no fault touched. Its invariant `LinkInv` follows each fragment of a
  frame not in `hit` to where it must be (`Safe`): stored in the
  receiver's map, or in flight with no datagram of a newer frame before it and
  no newer entry in the map. The drain loop can then only pass the frame once
  it is complete (`DrainBelowWrap`). Capacity of the path, how far a datagram
  overtakes and the number of faults are arbitrary.
- `StreamSender_proofs`. `Inv` adds to the pipeline order
  `got <= encoded <= inputFence <= Submitted` (in `TypeOK`) what `EncodeFrame`
  leaves: how far `got` is behind at each place of the loop. Two frames less
  than a ring apart have different slots (`SlotsDiffer`, by
  `RemaindersDiffer`), which gives the three ring theorems. `FramesHeldBack` and
  `DestroyedIdle` are the same invariant read at the poll and after the drain.
  `NeverCircular` adds that queued copies wait only for published frames.
- `ScreenShare_proofs`. The invariant says that the fence value a buffer waits for comes
  after every submitted frame that uses the buffer, that a published value or a
  draw of one exists only after the mapping was filled, and that the frames between
  `content` and `texFence` are misfits. It gives `AllocatorsSafe`, `SizesKnown`
  and, as the shared fence only grows and a draw waits at the head of its queue,
  `ContractKept`. `WaitsEnd` is a conjunct of it.
- `DecodeStage_proofs`. `Inv` relates buffer, kernel and texture: whatever is in
  the buffer is at least as new as every kernel queued, so a kernel that
  starts late, or is overwritten, reads its picture or a later one
  (`NeverAnOlderPicture`). A second invariant, `Announces`, follows one
  announcement through its stores, whose order is free, and gives
  `RegionsConverted`. For `OwnSizeWhenSettled` it says of a picture taken
  since the last change of size that its header tells its own content, which rests on
  `Steady` (the inputs inside NVENC since then are all of one size) and `Feeding`
  (inputs are numbered on and at most `OutputDelay` are inside).
- `StreamRuntime_proofs`. No two calls are about one address, and none is about
  an address the application holds; so an erase takes out only the entry it means.
- `ChromeCapture_proofs`. `CropInside` and `FitShrinks` bound the crop by the
  pool's size and by the texture for every layout; in the callback after the steady path
  the surface has the pool's size (`Inv`), so the box is the crop (`BoxIsCrop`).
  `NothingCutOff` adds that a crop is only clipped when it does not fit the texture.

Every safety property that a passing run checks is proved. Only model-checked
are the liveness properties (`HoldUpIsBounded`, `EveryPublishNoticed`,
`ExitCompletes`, `EveryPublishShown`, `DisplayExits`, `AnnouncedIsSignalled`,
`BorderTracksCrop`, `ShutdownCompletes`), which are out of the prover's reach.

## 5. Not modelled, and why

- Pixel work: the colour conversion's arithmetic, scaling, painting the border, bit rates.
- A producer that is restarted under the same names while a consumer holds its
  old texture, fence or mapping: which object a name then stands for, and
  whether it can be created again at all, is decided by Windows and not by this
  source; a model would only repeat what it assumed.
- Likewise whether closing a capture session waits for a callback that is running, and
  whether a dying process's GPU work completes; the modules let both happen.
- Set-up of devices and adapters, argument parsing, logging: no state that the
  loops depend on beyond what Init says. chromecapture's list of tabs and the
  choice of one run once, before any frame, and only select the window.
- Foreign datagrams (wrong magic, zero totals) are outside the protocol between
  the two programs.
- streamruntime's sessions, swapchains and frames: stubs in the source; its
  enumerations keep no state.
- `src/main.cpp`, the OpenXR SDK, CUDA, and the codec SDK except the
  functions of NvEncoder and NvDecoder that the two programs run through.
- Time: polling intervals and time-outs are steps that may or may not happen.

## 6. Plan

Done: reassembly and its abstract specification, the sender's pipeline to its
end, the link, the shared texture between screencapture and screendisplay from
set-up to exit, the decode stage, chromecapture, the runtime's instances, with
the proofs above. Left:

1. The wrap: how far apart the ids in use may be for `OneBitstream` to be
   replaced by a bound on what is in flight, up to the datagram where the ids
   start again.
2. An abstract specification of the shared texture (what a producer announces and
   what a consumer may read) that `ScreenShare`'s producer and `DecodeStage` both implement.
3. `DecodeStage`'s sender joined with `StreamLink`: the width in the header is followed
   from the encoder to SharedInfo, but frames are lost there by a choice and not by
   the link's rules.
4. `StreamRuntime`'s sessions and frames once the source implements them.
