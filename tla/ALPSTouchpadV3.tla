--------------------------- MODULE ALPSTouchpadV3 ---------------------------
(***************************************************************************)
(* processPacketV3, the packet handler of V3 (Pinnacle, Rushmore) and V5   *)
(* (Dolphin) pads, feeding the gesture state machine.  A V3 pad sends      *)
(* three kinds of packet: a position packet, a bitmap packet that follows  *)
(* a position packet announcing it (first_mp), and a trackstick packet     *)
(* (last byte 0x3f).  processTouchpadPacketV3 keeps the announcing packet  *)
(* in modelData.multi_data until the bitmap packet arrives, and passes     *)
(* the pair to dispatchEventsWithInfo as one sample; a trackstick packet    *)
(* dispatches relative motion itself and sets ignoreall while the stick    *)
(* moves, so that touchpad samples are dropped.                           *)
(*                                                                         *)
(* A packet is given by its decoded fields.  x and y are the raw           *)
(* coordinates; the sample multiplies them by 3 (f.x1 *= 3), so RawXs are   *)
(* the raw values whose triples are the gesture's Xs.  Buttons of the      *)
(* touchpad itself are left out, as in ALPSGesture; its trackstick button  *)
(* bits (ts_left) and the trackstick's own buttons are kept.               *)
(***************************************************************************)
EXTENDS ALPSGesture

CONSTANTS
    XBits, YBits, XMax, YMax,   \* modelData.x_bits, y_bits, x_max, y_max
    Proto,                      \* "V3" (Pinnacle, Rushmore) or "V5" (Dolphin)
    MapPairs,                   \* <<x_map, y_map>> a bitmap packet can carry
    StickKeys,                  \* the buttons a trackstick packet may hold
    TsKeys                      \* the ts_ bits a touchpad packet may hold

ASSUME MapPairs /= {} /\ StickKeys \subseteq Buttons
       /\ TsKeys \subseteq Buttons

VARIABLES
    multi_packet,   \* modelData.multi_packet
    multi_data,     \* modelData.multi_data, as the packet it holds
    second_touch,   \* modelData.second_touch
    quirks,         \* modelData.quirks & ALPS_QUIRK_TRACKSTICK_BUTTONS
    pkt,            \* ghost: kind, raw buttons and motion of the last packet
    prevTp,         \* ghost: the touchpad packet before the last one
    carried         \* ghost: the position packet passed on by this step

B == INSTANCE ALPSBitmap
        WITH xmap <- 0, ymap <- 0, fx <- 0, fy <- 0, fingers <- 0,
             corner <- <<>>

v3Vars == <<multi_packet, multi_data, second_touch, quirks, pkt, prevTp,
            carried>>
allVars == <<vars, v3Vars>>

RawXs == {x \in 0..XMax : 3 * x \in Xs}
RawYs == {y \in 0..YMax : 3 * y \in Ys}

\* The finger hint of a bitmap packet: (p[5] & 0x3) + 1 on Pinnacle, the
\* larger of two such fields plus 1 on Rushmore, three bits on Dolphin.
Hints == IF Proto = "V5" THEN 0..7 ELSE 1..4

\* decodeDolphin decodes the maps of every packet, a position packet too;
\* the Pinnacle and Rushmore decoders only those of a bitmap packet.
PosMaps == IF Proto = "V5" THEN MapPairs ELSE {<<0, 0>>}

Packet(k, x, y, z, fmp, ts, h, m) ==
    [kind |-> k, x |-> x, y |-> y, z |-> z, first_mp |-> fmp, ts |-> ts,
     hint |-> h, maps |-> m]

NoPacket == Packet("none", 0, 0, 0, FALSE, {}, 0, <<0, 0>>)

\* prevTp keeps only the kind of a bitmap packet.
AnyBitmap == Packet("bitmap", 0, 0, 0, FALSE, {}, 0, <<0, 0>>)

PositionPackets ==
    {Packet("pos", x, y, z, fmp, ts, 0, m) :
        x \in RawXs, y \in RawYs, z \in Zs, fmp \in BOOLEAN,
        ts \in {{}} \cup {{b} : b \in TsKeys}, m \in PosMaps}

\* A bitmap packet is a packet with is_mp set; the position fields it
\* leaves undecoded are irrelevant.
BitmapPackets ==
    {Packet("bitmap", 0, 0, 0, FALSE, {}, h, m) : h \in Hints, m \in MapPairs}

Motions == {"none", "small", "huge"}

\* Raw button masks of a trackstick packet: none, or one button.
StickButtons == {{}} \cup {{b} : b \in StickKeys}

TypeOKV3 ==
    /\ TypeOK
    /\ multi_packet \in 0..1
    /\ multi_data \in PositionPackets \cup {NoPacket}
    /\ second_touch \in -1..3
    /\ quirks \in BOOLEAN
    /\ pkt \in [kind : {"none", "pos", "bitmap", "stick", "filtered"},
                raw : StickButtons, motion : Motions]
    /\ prevTp \in PositionPackets \cup {AnyBitmap, NoPacket}
    /\ carried \in PositionPackets \cup {NoPacket}

\* modelData is zero-filled with the driver object.
InitV3 ==
    /\ Init
    /\ multi_packet = 0 /\ multi_data = NoPacket /\ second_touch = 0
    /\ quirks = FALSE /\ pkt = [kind |-> "none", raw |-> {}, motion |-> "none"]
    /\ prevTp = NoPacket /\ carried = NoPacket

(***************************************************************************)
(* processTouchpadPacketV3                                                 *)
(***************************************************************************)
\* Mutant: a pending first packet is kept when a position packet follows.
PendingAfterKept(p) == multi_packet

\* multi_packet after lines 777-806: a position packet where a bitmap
\* packet was expected is processed as usual, and the sequence abandoned.
PendingAfter(p) == IF multi_packet = 1 /\ p.kind = "pos" THEN 0 ELSE multi_packet

\* Mutant: the bitmap packet's own fields are used, not re-decoded.
RedecodedSkipped(p) == p

\* The fields a bitmap packet is dispatched with: "Bitmap processing uses
\* position packet's coordinate data, so we need to do decode it first."
Redecoded(p) == IF multi_packet = 1 /\ p.kind = "bitmap" THEN multi_data ELSE p

\* ts_left and the other trackstick bits count as buttons of a touchpad
\* sample until the trackstick has reported buttons itself.
TouchpadButtons(p) == IF quirks THEN {} ELSE p.ts

\* dispatchEventsWithInfo while ignoreall is set: lastbuttons is taken
\* (line 986) before the early return of line 1051.
DispatchIgnored(buttonsraw) ==
    /\ ignoreall
    /\ lastbuttons' = buttonsraw
    /\ event' = "ignored"
    /\ UNCHANGED <<touchmode, last_fingers, lastz, sinceTouch, sinceUntouch,
                   touchx, touchy, wasdouble, wastriple, draglocktemp,
                   dragTimer, momentum, out, contactFingers, contactMoved,
                   ignoreall>>

Dispatch(s, buttonsraw, fling, modifier) ==
    \/ DispatchEventsWithInfo(s, buttonsraw, fling, modifier)
    \/ DispatchIgnored(buttonsraw)

ProcessTouchpadPacketV3(p, fling, modifier) ==
    LET paired == multi_packet = 1 /\ p.kind = "bitmap"
        f == Redecoded(p)
        maps == IF Proto = "V5" THEN f.maps ELSE p.maps
        hint == IF paired THEN p.hint ELSE 0
        z == IF paired /\ hint = 1 THEN 0 ELSE f.z
        fingers == IF hint < 2 THEN IF z > 0 THEN 1 ELSE 0 ELSE hint
        x1Unset == fingers >= 2 /\ (maps[1] = 0 \/ maps[2] = 0)
        st == IF paired
              THEN B!SecondTouchAfter(second_touch, maps[1], maps[2], f.x, f.y)
              ELSE second_touch
    IN  /\ pkt' = [kind |-> p.kind, raw |-> {}, motion |-> "none"] /\ prevTp' = IF p.kind = "bitmap" THEN AnyBitmap ELSE p
        /\ UNCHANGED quirks
        /\ CASE p.kind = "bitmap" /\ ~paired ->
                    \* line 816: a bitmap packet nothing announced
                    /\ carried' = NoPacket
                    /\ UNCHANGED <<vars, multi_packet, multi_data, second_touch>>
             [] p.kind = "pos" /\ PendingAfter(p) = 0 /\ p.first_mp ->
                    \* lines 820-825: wait for the bitmap packet
                    /\ multi_packet' = 1 /\ multi_data' = p
                    /\ carried' = NoPacket
                    /\ UNCHANGED <<vars, second_touch>>
             [] OTHER ->
                    /\ multi_packet' = 0
                    /\ UNCHANGED multi_data
                    /\ second_touch' = IF fingers < 2 THEN -1 ELSE st
                    /\ carried' = f
                    \* f.x1, f.y1 are set by processBitmap unless it returned
                    \* early on an empty map; then they are whatever the
                    \* stack held.
                    /\ \E x1 \in IF x1Unset THEN Xs ELSE {3 * f.x},
                          y1 \in IF x1Unset THEN Ys ELSE {3 * f.y} :
                           Dispatch([x |-> x1, y |-> y1, z |-> z,
                                     fingers |-> fingers],
                                    TouchpadButtons(f), fling, modifier)

TouchpadPacketV3 ==
    \E p \in PositionPackets \cup {b \in BitmapPackets : b.hint <= MaxFingers},
       fling \in IF touchmode = MODE_MTOUCH THEN BOOLEAN ELSE {FALSE},
       modifier \in IF touchmode = MODE_PREDRAG THEN Modifiers ELSE {FALSE} :
        ProcessTouchpadPacketV3(p, fling, modifier)

(***************************************************************************)
(* processTrackstickPacketV3                                               *)
(***************************************************************************)
\* A packet without bit 6 of byte 0, or the all-0x7f end-of-stream packet,
\* is dropped before anything is read.
TrackstickFiltered ==
    /\ pkt' = [kind |-> "filtered", raw |-> {}, motion |-> "none"]
    /\ carried' = NoPacket
    /\ UNCHANGED <<vars, multi_packet, multi_data, second_touch, quirks,
                   prevTp>>

\* A trackstick packet with raw buttons raw and a motion that is zero,
\* small, or so large on both axes that it is zeroed.  A raw mask of 0
\* reports lastbuttons; the middle button held while the stick moves
\* scrolls instead of moving the pointer.
ProcessTrackstickPacketV3(raw, motion) ==
    LET moving == motion = "small"
        buttons == IF raw = {} THEN lastbuttons ELSE raw
    IN  /\ quirks' = (quirks \/ raw /= {})
        /\ lastbuttons' = buttons
        /\ ignoreall' = moving
        /\ out' = IF ~moving \/ "middle" \notin buttons THEN buttons ELSE out
        /\ event' = "trackstick"
        /\ pkt' = [kind |-> "stick", raw |-> raw, motion |-> motion]
        /\ carried' = NoPacket
        /\ UNCHANGED <<touchmode, last_fingers, lastz, sinceTouch,
                       sinceUntouch, touchx, touchy, wasdouble, wastriple,
                       draglocktemp, dragTimer, momentum, contactFingers,
                       contactMoved, multi_packet, multi_data, second_touch,
                       prevTp>>

TrackstickPacketV3 ==
    \/ TrackstickFiltered
    \/ \E raw \in StickButtons, motion \in Motions :
           ProcessTrackstickPacketV3(raw, motion)

(***************************************************************************)
(* Timers and time, which leave the decoder state alone.                   *)
(***************************************************************************)
Quiet(A) == A /\ carried' = NoPacket /\ pkt' = [kind |-> "none", raw |-> {}, motion |-> "none"]
              /\ UNCHANGED <<multi_packet, multi_data, second_touch, quirks,
                             prevTp>>

NextV3 ==
    \/ TouchpadPacketV3
    \/ TrackstickPacketV3
    \/ Quiet(OnDragTimer)
    \/ Quiet(OnScrollTimer)
    \/ Quiet(Tick)

SpecV3 == InitV3 /\ [][NextV3]_allVars
              /\ WF_allVars(Quiet(OnDragTimer)) /\ WF_allVars(Quiet(OnScrollTimer))

(***************************************************************************)
(* Properties                                                              *)
(***************************************************************************)
\* The pairing of processTouchpadPacketV3 ("a bitmap packet should always
\* follow a position packet with bit 6 of packet[4] set"): a bitmap packet
\* reaches dispatchEventsWithInfo exactly when the touchpad packet before
\* it, trackstick packets aside, was a position packet announcing it, and
\* then carries that packet's position, pressure and buttons; never those
\* of an earlier sequence.
MultiPacketPaired ==
    [][pkt'.kind = "bitmap" =>
          carried' = IF prevTp.kind = "pos" /\ prevTp.first_mp
                     THEN prevTp ELSE NoPacket]_allVars

\* A trackstick that has reported its own buttons (the quirk is set, and
\* touchpad packets no longer carry them) and then reports none while at
\* rest has had them released: the pointer event processTrackstickPacketV3
\* dispatches for that packet holds no button.
TrackstickReleaseReported ==
    [][pkt'.kind = "stick" /\ pkt'.raw = {} /\ pkt'.motion /= "small" /\ quirks
       => out' = {}]_allVars
=============================================================================
