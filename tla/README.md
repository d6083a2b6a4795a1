# TLA+ models of the ALPS GlidePoint PS/2 touchpad driver

Source modelled: `src/OS X ALPS DRIVER/VoodooPS2Trackpad/VoodooPS2ALPSGlidePoint.cpp`
(class `ApplePS2ALPSGlidePoint`). Line numbers below refer to that file.

## The system

The driver sits on the PS/2 mouse port, shared with the keyboard controller.
Its parts and how they interact:

| Part | Code | Runs in | State |
|---|---|---|---|
| Packet framer | `interruptOccurred` 283-319 | interrupt context, one byte per call | `_packetByteCount`, `_ringBuffer` head |
| Packet queue drain | `packetReady` 321-337 | work loop, after `kPS2IR_packetReady` | `_ringBuffer` tail |
| Protocol decoders | `processPacketV1V2` 339, `processPacketV3` 868, `processTouchpadPacketV3` 759, `processTrackstickPacketV3` 604, `processPacketV4` 885, `decodePinnacle/Rushmore/Dolphin` 691-757 | work loop | `multi_packet`, `multi_data`, `prev_fin`, `second_touch`, `modelData.ignoreall`, `lastbuttons` |
| Bitmap reconstruction | `processBitmap` 493-602, `alps_get_bitmap_points` 457-481 | work loop, pure | none beyond its outputs |
| Gesture state machine | `dispatchEventsWithInfo` 965-1537 | work loop | `touchmode`, `last_fingers`, `touchtime`, `untouchtime`, `wasdouble/wastriple`, `xrest/yrest`, `scrollrest`, `clickedprimary`, `momentum*`, the drag timer |
| Command mode protocol | `enterCommandMode` 1640, `exitCommandMode` 1657, `commandModeSendNibble` 1899, `commandModeSetAddr` 1954, `commandModeReadReg` 1836, `commandModeWriteReg` 1879/1888 | init thread, synchronous PS/2 requests | device register address pointer, registers |
| Hardware init | `hwInitV1V2` 2234, `hwInitV3` 1670, `hwInitRushmoreV3` 1750, `hwInitV4` 2298, `hwInitDolphinV1` 2385, passthrough and trackstick setup 1979-2140 | init thread | device mode (absolute, passthrough, command) |
| Identification | `identify` 2522, `matchTable` 2497, `setDefaults` 2440, `repeatCmd` 2186 | init thread | `modelData` (protocol, mask0/byte0, flags, nibble table, `hw_init`, `process_packet`) |
| Lifecycle | `probe`, `deviceSpecificInit` 171, `init`, `stop`, `resetMouse` 259, `setTouchPadEnable` 1578 | init / power thread | `modelData.pktsize` |

The producer and consumer of the ring buffer run concurrently; everything
from `process_packet` on runs on the work loop, one packet at a time, in the
order `packetReady` takes them. Identification and hardware initialisation run
once, synchronously, before the port delivers interrupts.

## What is hard here (hazards)

`PROJECT.json` lists every hazard at its line with the properties that cover
it. In short:

* the framer resynchronises on byte patterns after a lost byte, and a bare
  3-byte PS/2 packet advances the queue's head by `pktsize` but its tail by 3;
* a 0x80 byte aborts the packet in progress, also inside a bare PS/2 packet
  where 0x80 is a legal delta;
* the ring buffer has no overrun check;
* V3 touchpads split a frame over a position packet and a bitmap packet
  (`multi_packet`), and V4 over three fragments. A lost or reordered
  fragment leaves `multi_data` stale. V4's sync bit realigns the fragments,
  but the reassembled bitmap is never used;
* the V3 trackstick path sets `ignoreall`, which only a later trackstick
  packet clears (never the end-of-stream packet), and reuses `lastbuttons`
  when the raw button state is 0;
* the gesture state machine promotes and demotes touch modes across packets
  using timestamps and a drag timer;
* command mode sequences of PS/2 commands fail part way, and not every failure
  is checked (`hwInitV3` reg 0x0007, `exitCommandMode`, `enterCommandMode`'s
  ignored `repeatCmd` result); a half-sent address leaves the pad's pointer
  collection out of step with the driver.

## Modules

### ALPSFramer (done)

Models `interruptOccurred` and `packetReady` together, with the device as the
environment.

* State: `ring`, `head`, `tail` (`_ringBuffer`), `cursor`
  (`_packetByteCount`), `signalled`/`draining` (the packet-ready event and the
  drain loop), the device's `wire`, and ghost histories `sentAlps`, `frames`
  and `dispatched` of the packets sent, framed and passed to `process_packet`.
* Bytes are abstracted to classes: `SYNC` (matches `mask0/byte0`), `BARE`
  (`(b & 0xc8) == 0x08`), `DATA`, `X80`. A data byte with bit 7 clear can match
  the bare pattern, so at cursor 0 the model chooses both ways. Each byte
  carries a ghost identity `<<packet, index>>`.
* Actions: `SendAlpsPacket`, `SendBarePacket`, `LoseByte` (device);
  `InterruptOccurred` (one byte, with the drop, 0x80-abort and store
  disjuncts and the completion test of lines 310-318);
  `PacketReadyStart`, `PacketReadyDispatch`, `PacketReadySkipBare`,
  `PacketReadyEnd` (the loop of lines 323-336 one iteration at a time, so
  the producer can run between iterations).
* Properties:
  * `FramesDispatchedInOrder`: the packets passed to `process_packet` are a
    prefix of the frames the framer completed, whole and in order. A single
    lost byte already breaks it, on 6-byte and on 8-byte lines, so only the
    V4 violation run checks it;
  * `NoAlpsPacketLost`: on a lossless line, they are a prefix of the packets
    the device sent;
  * `AllFramesDispatched` (liveness): every completed frame is dispatched;
  * `PacketsNotStranded` (liveness): a whole packet in the queue is drained;
  * `RefinesPacketQueue`: the framer implements `ALPSPacketQueue` (below).

### ALPSPacketQueue (done)

This is the abstract specification of what the framer gives
`process_packet`, with no bytes, no ring and no second context.

* Variables:
  * `sent`: the pad's packets, by number;
  * `pub`: the frames published;
  * `out`: the frames handed on;
  * `lossy`: whether the line has lost a byte.
* Actions:
  * `Send`.
  * `Publish`: on a clean line, the next packet sent.
  * `Deliver`: on a clean line, the oldest undelivered published frame.
    It is weakly fair.
  * `DeliverGarbled`: after a loss, any frame.
  * `Lose`.
* `ALPSFramer` instantiates it as `Queue` under a refinement mapping:
  * a published or dispatched frame maps to its packet's number when it is
    that packet whole, with its bytes in order, and to `GARBLED` (0)
    otherwise;
  * `lossy` maps to `lost > 0`.
* `RefinesPacketQueue == Queue!Spec` is checked in framer_interleaved.
* After a lost byte, the abstract spec promises nothing about content or
  counts. TLC shows why: a bare packet of data bytes makes `packetReady`
  dispatch a frame the producer never published. The consumer then runs
  ahead of the producer, so no count discipline holds once the two
  contexts disagree on where packets start.

### ALPSGesture (done, partly)

Models `dispatchEventsWithInfo` (965-1537) with the base class's drag-exit
and momentum-scroll timers.

* One sample is one step (`DispatchFrom`), built as a pipeline of record
  operators in the order of the code:
  1. `FingerLifted` (1059-1156), with `TapSwitch`/`TapDefault` for a lift
     inside the tap window and `LiftOutsideTap` otherwise;
  2. `CancelPreDrag` (1158-1162);
  3. `CancelTap` (1168-1178);
  4. `ModeSwitch` (1186-1444), the mode changes and held buttons of the
     per-mode switch;
  5. `CaptureTouch` (1447-1466);
  6. `Promote` (1467-1520), the mode promotions in the code's order;
  7. the save of `lastz` and `last_fingers` (1526-1530).

  `DispatchFrom` takes the lift; `AfterLift` the steps after it; `Commit`
  writes the result. Each passes the intermediate states as operator
  arguments and not as LET definitions, which keeps TLC's coverage
  profiling from walking the pipeline again at every use.
* Samples are those `processTouchpadPacketV3` passes on (`TouchpadSamples`):
  a position packet with one finger when z > 0, or a bitmap packet with 2 or
  more fingers.
* Time is kept as the ticks since `touchtime` and since `untouchtime`, capped
  at `TimeCap`, one above every threshold. `touchtime = 0` becomes `TimeCap`.
  `Tick` advances both.
* `OnDragTimer` and `OnScrollTimer` are the base class's callbacks
  (spec_modelled: `VoodooPS2TouchPadBase` is not in this repository).
* Left out: pointer, scroll and swipe deltas (data no mode tests), the
  typing/palm filters, the physical buttons and the middle-button emulation.
* Ghosts: `event` is the kind of the last step; `contactFingers` is the most
  fingers seen since the tap was captured; `contactMoved` is set once the
  contact left the tap box.
* Properties:
  * `DragTimerOnlyInDragNoTouch`: the exit timer is armed only in
    DragNoTouch, so it can never end a drag in progress;
  * `DragExitReleases` (liveness): an unlocked drag whose finger lifted
    leaves DragNoTouch;
  * `TapClicks` (action): a one-finger tap lifted in the tap window clicks
    left and leaves the touch modes;
  * `SecondaryTapClicks` and `MovedContactNotClicked` (action): what spec 4.4
    says of two-finger taps and of moved contacts. Both are violated; see the
    runs below.

### ALPSV4 (done)

Extends ALPSGesture with `processPacketV4` (885-963).

* The pad sends each 6-byte bitmap as three packets. Each packet carries a
  2-byte fragment, and the first has the sync bit (0x40 of byte 6).
* A fragment is the tag `[frame, idx, contacts]`:
  * `frame` is the bitmap frame, alternating 0 and 1;
  * `idx` is the fragment's index in its frame;
  * `contacts` is the number of contacts the frame's bitmap encodes.
* `LosePacket` drops the pad's next packet, at most `MaxLost` times.
  Dropping whole packets is the clean loss; a garbled V4 packet is the
  framer's business (run framer_v4_resync).
* `ProcessPacketV4` is the whole function:
  * the sync reset (`SyncReset`);
  * the early return when more than two pairs are stored;
  * the store in `multi_data` at `2 * multi_packet`;
  * the completion, which stores the local `fingers` (still 0) in
    `modelData.fingers` (`AssembledFingers`);
  * the finger count (`V4Fingers`);
  * the dispatch.
* The `x_bitmap`/`y_bitmap` arithmetic is left out, because nothing reads
  its result.
* Properties:
  * `BitmapFromOneFrame`: a completed bitmap holds fragments 0, 1 and 2 of
    one frame, even after a lost packet. It holds.
  * `V4BitmapFingersReported` (action): the sample dispatched with a
    completed two-contact bitmap reports two fingers. It is violated (run
    v4_multitouch).

### ALPSProcessPacket (done)

Composes the decoders behind `setDefaults`' `process_packet` pointer
(2450-2481) over one gesture state machine.

* `proto` is chosen in `InitAll` and never changes, since identify fixes
  the protocol.
* `ProcessPacket` runs the decoder of that protocol:
  * "V1V2" runs `ALPSV1V2`;
  * "V3" runs `TouchpadPacket`, the samples `processTouchpadPacketV3`
    passes on;
  * "V4" runs `ALPSV4`.
* `Background` runs the timers and `Tick` under every protocol.
* `DragExitReleasesAll` is stated for all three decoders.
* `DragTimerOnlyInDragNoTouchMT` and `TapClicksMT` are stated for V3 and
  V4 only. V1/V2's hardware tap-and-drag breaks both, as run v1v2_hw_drag
  shows.

### ALPSV1V2 (done)

Extends ALPSGesture with `processPacketV1V2` (339-455):

* the hardware tap conversion (`ges && !fin` gives z_finger + 1);
* the tap-and-drag report (`ges && fin && !prev_fin` forces Drag before the
  dispatch);
* the finger count derived from z;
* the dual-point trackstick packet (z = 127).

### ALPSBitmap (done)

Models `alps_get_bitmap_points` (457-481) and `processBitmap` (493-602).

* State:
  * `second_touch` (persistent);
  * the inputs and outputs of the last call: `xmap`, `ymap`, the primary
    touch `fx`/`fy`, the returned `fingers`, and the reported `corner`
    `<<x2, y2>>`;
* Actions:
  * `ProcessBitmap`, over every pair of maps and primary positions;
  * `SingleTouch`, the caller's reset of `second_touch` at line 848.
* `get_bitmap_points` walks the bits with a RECURSIVE operator that follows
  the C loop, including the pointer that moves from `low` to `high`.
  `RefPoints` is an independent definition of the first and last maximal
  runs of set bits.
* Initial state: `second_touch` is never assigned before the first sample.
  The driver object is zero-filled, so it starts at 0. The first two-finger
  contact therefore uses corner 0, which nothing chose. Its `x2/y2` are never
  dispatched, so no run checks this.
* Properties:
  * `BitmapPointsMatchRuns`: the loop agrees with the reference;
  * `CornersInRange`: the second touch stays inside 0..x_max, 0..y_max after
    the axis reversal;
  * `SecondTouchFarthest` (action): the selected corner is the farthest from
    the primary touch;
* The split of a single run (line 524) differs from spec 4.3: for an odd
  run the two halves overlap and miss the run's last bin. It moves only
  `x2/y2`, which `processTouchpadPacketV3` never dispatches, so it is listed
  as a hazard and not checked.
* Bounds: 5 x bins (three runs fit, so "last run" differs from "second run")
  and 3 y bins (two runs); the primary touch at both x extremes.

### ALPSTouchpadV3 (done)

Models `processPacketV3` (868-883), `processTouchpadPacketV3` (759-866) and
`processTrackstickPacketV3` (604-679). It extends ALPSGesture, so every
touchpad sample runs the whole of `dispatchEventsWithInfo`. It takes
processBitmap's effect on `second_touch` from ALPSBitmap through `INSTANCE`.

* A packet is given by its decoded fields:
  * a position packet has `x`, `y`, `z`, `first_mp` and the `ts_` button
    bits;
  * a bitmap packet (`is_mp`) has the finger hint and the two maps;
  * a trackstick packet has its raw buttons and a motion that is none, small,
    or so large that line 647 zeroes it;
  * a trackstick packet can also be filtered out as bad or as the
    end-of-stream packet.
* State:
  * `multi_packet`, `multi_data` (the waiting position packet),
    `second_touch`, and the trackstick button quirk;
  * ALPSGesture's `ignoreall` and `lastbuttons`, now written by the
    trackstick path;
  * ghosts: `pkt` (the last packet), `prevTp` (the touchpad packet before
    it) and `carried` (the position packet whose fields this step passed to
    `dispatchEventsWithInfo`).
* `ProcessTouchpadPacketV3` follows the code's three outcomes, in order:
  * a bitmap packet nothing announced is dropped (line 816);
  * an announcing position packet is stored (820-825);
  * anything else is dispatched. A bitmap packet is re-decoded from
    `multi_data`, its hint of 1 forces z = 0, and a sample of fewer than two
    fingers resets `second_touch`. The dispatch goes to
    `DispatchEventsWithInfo`, or to `DispatchIgnored` while `ignoreall` is
    set, which still takes `lastbuttons` (line 986).
* When `processBitmap` returns early on an empty map and the hint is 2 or
  more, `f.x1`/`f.y1` are never set, so the sample carries stack garbage.
  This is modelled as any coordinate of Xs/Ys.
* On V5, `decodeDolphin` also takes the maps from the re-decoded position
  packet (`PosMaps`).
* Properties:
  * `MultiPacketPaired` (action): a bitmap packet is dispatched exactly when
    the touchpad packet before it announced it, and then with that packet's
    fields. This holds under stray bitmaps, abandoned sequences and
    trackstick packets in between.
  * `TrackstickReleaseReported` (action): once the trackstick reports its
    own buttons, a packet at rest with none dispatches no button. It is
    violated (line 653).
* Bounds:
  * one x and one y coordinate, with z 0 or 60;
  * hints 1 and 2, where MaxFingers is 2;
  * an empty-x map pair and a two-run one;
  * the left button on the trackstick, and no `ts_` bits on touchpad
    packets, so `TouchpadButtons` is always empty in these runs.

  These keep the run near 145,000 states. Pairing depends only on the order
  of packet kinds and on which position packet is waiting, and z and
  `first_mp` already tell position packets apart.
* Left out: `processBitmap`'s return value and `f.x2/f.y2` are read by no
  caller, so they are not modelled.

### ALPSCommandMode and ALPSDeviceInit (done)

`ALPSCommandMode` holds the PS/2 exchanges of the set-up code. It has no
variables. `ALPSDeviceInit` extends it and runs `deviceSpecificInit` (171)
against the pad: `resetMouse`, then `identify` (2522), then the `hw_init`
routine identify chose, and, if anything fails, `init_fail`'s `resetMouse`.

* **Calls as requests (`ALPSCommandMode`).** Each driver call is modelled as
  the list of PS/2 requests it submits.
  * `commandModeSendNibble` looks its nibble up in the V3 or V4 table
    (lines 44-80, translated). It decodes the send and receive counts exactly
    as the code does.
  * `commandModeSetAddr` sends the address command and then four nibbles,
    high nibble first.
  * `commandModeReadReg` adds `E9` and three reads. `ReadRegResult` applies
    the echo check (1870).
  * `repeatCmd` sends `E8 arg` when it has an init command, then the command
    three times, then `E9` and three reads. The report keeps 0 for any byte
    it did not read (`ReportBytes`).
  * `EnterReportOK` is `enterCommandMode`'s test of the report bytes. It
    ignores whether the request completed (1644).
  * `exitCommandMode` sends `EA`, and `resetMouse` sends `FF` and two reads.
  * The V1/V2 requests are `passthroughModeV2`, `tapMode` with its
    `getStatus`, `v1v2MagicEnable` and `absoluteModeV1V2`. Dolphin has a
    single 16-byte request.
* **The pad (environment).** `PadByte` models the pad byte by byte. Its kind
  is V1, V2, V3 (Pinnacle), Rushmore, V4, V5 (Dolphin) or Other (a plain
  PS/2 mouse), and the kind fixes its E7 and EC reports. The reports are
  those of real pads: E7 values come from the model table or the V5
  heuristic; EC values are the command-mode responses the code tests.
  * **Stream mode.** The pad counts runs of a repeated command. Three times
    E6, E7 or EC, then `E9`, returns the report. EC also enters command
    mode, on pads that have one. On V1/V2:
    * `F5` four times then `F4` is the absolute-mode knock;
    * `E7`/`E6` three times then `F5` opens or closes the pass-through port.
  * **Command mode.** The pad decodes nibble commands by itself
    (`PadNibbles`, written from the ALPS protocol rather than the driver's
    tables). After the address command it collects four nibbles into the
    pointer. After that, every two nibbles write a byte at the pointer.
    `E9` answers the pointer and the register. `EA` returns to stream mode.
  * **Stream and remote mode.** Outside command mode the pad is a PS/2
    mouse (`mode = "mouse"`). `F0` puts it in remote (poll) mode (`remote`),
    where it sends no data unless polled, and `EA` returns it to stream mode.
  * **Reset.** `FF` resets the pad in any mode: stream mode, power-on
    registers, relative mode, pass-through closed.
  * **Trackstick.** Registers hold one of the power-on values `InitVals`.
    On a V3 or Rushmore pad with a trackstick (`Sticks`), bit 7 of
    `regBase + 8` (0x0008, or 0xc2c8 on Rushmore) is also set, and that is
    what `probeTrackstickV3` tests. The trackstick behind the pass-through
    port is not a device of its own: with the port open, the pad still
    answers the commands `setupTrackstickV3` sends.
* **Transport faults.** `submitRequestAndBlock` completes the whole request.
  While `fails < MaxFail`, it may instead stop at any command, with that
  command's byte either reaching the pad or lost. This is what
  `commandsCount` less than `cmdCount` means in the code. A read the pad
  does not answer also stops the request. Reply bytes a request does not
  read are dropped at its end: the PS/2 controller is not in this
  repository.
* **Identification (`ALPSDeviceInit`).**
  * `identifyReports`: the three `repeatCmd` reports, with the E6 check
    (2537), then `exitCommandMode`, whose result is always true.
  * `IdentifyMatch`: `matchTable` over the whole `alps_model_data` table
    (first match, via `SelectInSeq`), then the V5, Rushmore and Pinnacle
    heuristics. `setDefaults` gives the heuristic pads `ALPS_DUALPOINT` and
    gives V5 no flags.
  * On Rushmore, identify probes the trackstick (`ProbeTrackstick`). A probe
    that does not return 0 clears `ALPS_DUALPOINT`.
  * `HwInit`: setDefaults' choice of routine, with the Rushmore trackstick
    probe placed before `hwInitRushmoreV3`.
* **Scripts.** Every routine is a sequence of steps, and each step names
  where the code goes when the call fails: the next call, past the probe's
  read, the probe's I/O error, the routine's `error:` label
  (`exitCommandMode`, then return false), or return false. Return false
  leads to `init_fail` (`resetMouse`, then return false). The routines are:
  * `hwInitV1V2`, with the pass-through steps only when the table flags
    have `ALPS_PASS`;
  * `hwInitV3`: the probe, then `setupTrackstickV3` when it found a
    trackstick;
  * `hwInitRushmoreV3`: `setupTrackstickV3` when `ALPS_DUALPOINT` is set;
  * `hwInitV4`;
  * `hwInitDolphinV1`.

  * **`setupTrackstickV3`.** It is a script of its own, and its variable
    `ret` is the code's `ret`.
    * A failure of `passthroughModeV3(true)` returns an I/O error at once.
    * A failed E7 report is "no device".
    * Any later failure is an I/O error.
    * Both of those go to its `error:` label, `passthroughModeV3(false)`,
      whose own failure is an I/O error too.
    * `TrackstickCheck` is the caller's test of the result: an I/O error
      goes to the routine's error label; on Rushmore, "no device" clears
      `ALPS_DUALPOINT`.

    `passthroughModeV3` is a single call in the model: enter, read
    `regBase + 8`, write it with bit 0 set or cleared, then exit.

  There is one action per kind of call, and it runs the call in a single
  step. `regVal` carries a read into the following `(regVal & and) | or`
  write. The code passes that value as a `UInt8` (1888), so `regVal == -1`
  becomes 0xFF.
* **Properties** (run `device_init`):
  * `HealthyInitSucceeds`: with no transport failure, exactly the ALPS pads
    are accepted and each gets its own protocol. The pad ends out of command
    mode (it does not claim stream mode: see `InitLeavesStreamMode` below). V1/V2 pads are in absolute mode with the pass-through port closed.
    Every programmed register holds `(initial & and) | or`, including the
    trackstick's `0x82`, and nothing else has changed. A Rushmore pad keeps
    `ALPS_DUALPOINT` exactly when it has a trackstick.
  * `TrackstickPortClosed`: when init succeeds on a pad with a trackstick,
    the driver has not left the pass-through port open, whichever single
    call failed. `setupTrackstickV3` must reach its error label on every
    path that lets init succeed.
  * `RegisterCallsInCommandMode`: a register read or write is only made
    while the pad is in command mode.
* **What TLC shows beyond the run.** With one transport failure, TLC finds
  these counterexamples to invariants that are in no run:
  * `RegistersAsIntended` (the programmed registers are intended, or
    untouched) fails in `hwInitV3`. The read of 0x0007 fails on its address
    command and is only logged (1704). `commandModeWriteReg(regVal | 0x01)`
    then writes 0xFF into register 0x0006, which the pointer still names.
  * `RegistersAsIntended` also fails in `hwInitV4`. `exitCommandMode` loses
    its `EA` and still returns true (1666). The following `F3 C8 F3 64 F3 50`
    is decoded as nibbles and writes register 0x0161.
  * `InitLeavesStreamMode` (an accepted pad is in stream mode, as the
    comment at 2267 requires) fails on V1 and V2 pads with no failure at
    all. `absoluteModeV1V2` sends `F0` (2178), and the `EA` that
    `hwInitV1V2` should send after it is commented out (2268-2276), so the
    pad is left in remote mode and reports nothing unless polled.
  * `(done /\ result) => pad.mode = "mouse"` fails in the same way for
    `hwInitRushmoreV3` and `hwInitV4`: init returns true with the pad still
    in command mode.
  * `(done /\ result) => pad.stray = {}` fails on a V5 pad. Identify's
    `exitCommandMode` loses its `EA` (2548), so the pad is still in command
    mode when `hwInitDolphinV1` sends its sequence. The sequence is decoded
    as nibbles and writes through the address pointer, and init still
    returns true.

  These are listed as hazards. They have no violation run, because the
  project's twelve runs are all in use.
* Bounds:
  * all seven pad kinds;
  * V3 and Rushmore with and without a trackstick;
  * power-on register values 0 and 0x41 (0x41 makes the `| 0x01` writes
    visible);
  * one transport failure, which may fall on any command of any call.

  This gives 3934 states and takes about two seconds.

### Open work

1. V3 properties still open (see the hazards): touchpad input resuming
   after the trackstick's end-of-stream packet, a drag's button across
   trackstick events, and the finger count of an empty bitmap.

## Runs

| Run | Cfg | Expect | Shows |
|---|---|---|---|
| decoders_gesture | `MC_ALPSProcessPacket.cfg` | pass | The V1/V2, V3 and V4 decoders each feed the gesture machine, with tapping, dragging, edge scrolling and momentum on; the V1/V2 pad is dual-point and the V4 line may drop one packet. Under all three, every unlocked drag ends. Under V3 and V4, the exit timer is only armed in DragNoTouch and a one-finger tap clicks. V4 completes a bitmap only from the three fragments of one frame (85,427 states, about 30 s). |
| v4_multitouch | `MC_ALPSProcessPacket_v4mt.cfg` | violation | A bitmap frame encoding two contacts completes, and its sample still reports one finger. Line 927 stores 0 in `modelData.fingers`, so the two-contact branch at line 951 never runs. |
| framer_interleaved | `MC_ALPSFramer.cfg` | pass | 6-byte packets, bare packets interleaved, a line that may lose one byte: while no byte is lost every ALPS packet reaches `process_packet` once, whole, in order; every published frame is dispatched and no whole packet stays stranded in the ring. The framer implements `ALPSPacketQueue` (`RefinesPacketQueue`). |
| framer_v4_resync | `MC_ALPSFramer_v4.cfg` | violation | 8-byte packets, one lost byte: a data byte is taken as a bare start, and `packetReady` skips or garbles frames (code bug at line 314). |
| framer_x80_delta | `MC_ALPSFramer_x80.cfg` | violation | a bare packet with a 0x80 delta loses the next ALPS packet (line 301). |
| gesture_rtap | `MC_ALPSGesture_rtap.cfg` | violation | a two-finger tap clicks only if the last z was exactly 126 (line 1121); otherwise no click and the pad stays in MTouch. |
| gesture_vmove | `MC_ALPSGesture_vmove.cfg` | violation | `dy` at line 1171 is minus the distance, so a vertical move never cancels a tap and still clicks. |
| v1v2_hw_drag | `MC_ALPSV1V2_drag.cfg` | violation | a hardware tap-and-drag (line 407) enters Drag with the exit timer armed, and the timer ends the drag. The stale `wasdouble` it leaves also swallows the next one-finger tap, so `TapClicks` is not checked on V1/V2. |
| bitmap_points | `MC_ALPSBitmap.cfg` | pass | every 5x3-bin map pair: the loop finds the first and last runs, corners stay in range, the chosen corner is the farthest. |
| v3_pairing | `MC_ALPSTouchpadV3.cfg` | pass | Pinnacle pad with a trackstick, packets of every kind in any order: each bitmap packet is dispatched exactly when announced, with the announcing packet's fields. |
| v3_stick_release | `MC_ALPSTouchpadV3_stick.cfg` | violation | a trackstick button released with the stick at rest is dispatched as still pressed (line 653): `lastbuttons` holds the press. |
| device_init | `MC_ALPSDeviceInit.cfg` | pass | `deviceSpecificInit` on V1, V2, V3, Rushmore, V4 and V5 pads (V3 and Rushmore with and without a trackstick) and a plain mouse, with one transport failure anywhere: a healthy line accepts exactly the ALPS pads, identifies them, programs them as intended and leaves them out of command mode; a successful init never leaves the trackstick pass-through port open; register calls only in command mode. |

Bounds: a ring of two packets (12 or 16 bytes) is the smallest in which the
head wraps and the producer runs ahead of the consumer by a packet; 3 or 4
device packets are enough for a bare packet to fall between two ALPS packets
and for the queue to wrap; one lost byte is enough for the framer to
resynchronise on a data byte and for a whole packet to be dropped, and
keeps the interleaved run under a minute (about 390,000 states).

The device stops after `MaxPackets`; the driver then waits for more bytes,
which is not a deadlock, so the framer cfgs set `CHECK_DEADLOCK FALSE`.

The model assumes that the work loop keeps up with the device (`Count +
PktSize < RingSize` guards `InterruptOccurred`): the code has no overrun
check (line 307), and whether it overruns depends on scheduling latency, not
on the logic modelled. The guard also means that the producer blocks
whenever the ring holds a whole packet (6 of the 12 bytes), so the two
contexts take turns more than the code forces them to: `AllFramesDispatched`
and `PacketsNotStranded` see the interleavings of a work loop that keeps up.

Gesture bounds:

* x takes 0 and 4 against a tap threshold of 3, so a contact can stay in,
  or leave, the tap box. y is fixed except in `gesture_vmove`.
* z takes 0, 30 (= z_finger), 60, 98 and 127 (= zlimit). These cover:
  * a lift;
  * the boundary, which is neither a lift nor a touch;
  * a finger touch;
  * V1/V2's two-finger z threshold (98);
  * a press that only promotes to Move (127), which is also V1/V2's
    trackstick packet.

  The rtap run uses 126.
* On V4, one lost packet is enough to shift the fragment offsets within a
  frame, and the frame tag alternates, so a mix of two frames would show.
* Up to three fingers reach wasdouble and wastriple.
* The tap, double-tap and drag windows of 1 tick let a lift fall on either
  side of every window.

Edge scrolling is on in decoders_gesture. With `Redge` = 3, a touch at
x = 4 enters VScroll, and one at x = 0 enters Move. Horizontal and corner
scrolling need a y above `Bedge` or `Tedge`. A second y value makes that run
three times larger (230,000 states, two minutes), so those two transitions of
`Promote` are in no run.

## Fairness

Only the consumer is fair: `packetReady` is scheduled by the interrupt event
source each time the producer returns `kPS2IR_packetReady`, and runs until
the queue holds less than a packet, so `WF_vars` of each of its steps is what
the work loop guarantees. The device is not fair: it may stop sending at any
time.

`ALPSDeviceInit` assumes no fairness and states no liveness:
`deviceSpecificInit` is straight-line code whose gotos all lead forward,
and deadlock checking shows that every call returns (the transport times
out an unanswered read).

In the gesture modules only the two timers are fair: the work loop runs a
timer callback once it is due. Samples are not fair, because the user may
stop touching the pad.

## Not modelled

* `dispatchRelativePointerEventWithPacket`: its only call is commented out.
* Logging.
* The coordinate arithmetic of the decoders (bit extraction), except where a
  property depends on it (`x == 0`/`z == 0` tests, `0x3f` markers).
* The trackstick as a PS/2 device of its own behind the pass-through port.
  Nothing in this repository says how the pad routes commands while the port
  is open, so the pad answers them itself.
* `probe`, `init`, `stop`, `setTouchPadEnable`: wrappers around `resetMouse`,
  `identify` and `deviceSpecificInit` under the device lock, or field set-up;
  the device_init run has all their PS/2 behaviour.
* The profile's pure data (`x_max`, bit widths, `byte0`/`mask0`, `pktsize`):
  the framer and decoder modules take them as constants.
* The deadline of an unanswered read: the transport is given as returning
  (the controller that times out is not in this repository).
