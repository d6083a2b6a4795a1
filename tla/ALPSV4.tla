------------------------------- MODULE ALPSV4 -------------------------------
(***************************************************************************)
(* processPacketV4 feeding the gesture state machine.  Every 8-byte V4     *)
(* packet carries the position (x, y, z, buttons) in bytes 0-5 and one     *)
(* 2-byte fragment of a 6-byte bitmap in bytes 6-7.  The pad sends the     *)
(* bitmap as three consecutive fragments and sets the sync bit (0x40 of    *)
(* byte 6) on the first; the driver collects them in multi_data at offset  *)
(* 2 * multi_packet.                                                       *)
(*                                                                         *)
(* A fragment is kept as the tag [frame, idx, contacts] the pad gave it:   *)
(* which bitmap frame it belongs to (alternating 0/1), its index in the    *)
(* frame, and the number of contacts the frame's bitmap encodes.  The      *)
(* x_bitmap/y_bitmap arithmetic is left out: its result is never read.     *)
(* The line may lose up to MaxLost whole packets.                          *)
(***************************************************************************)
EXTENDS ALPSGesture

CONSTANTS
    MaxLost,          \* packets the line may drop
    BitmapContacts    \* contact counts a bitmap frame may encode

ASSUME MaxLost \in Nat /\ BitmapContacts \subseteq 0..MaxFingers

NoFragment == [frame |-> 0, idx |-> -1, contacts |-> 0]
Fragments == [frame : 0..1, idx : 0..2, contacts : BitmapContacts]

VARIABLES
    multi_packet,     \* modelData.multi_packet
    multi_data,       \* modelData.multi_data, as the fragment in each pair
    mt_fingers,       \* modelData.fingers
    devIdx,           \* the pad: index of the next fragment it sends
    devFrame,         \* the pad: tag of the frame being sent
    devContacts,      \* the pad: contacts of the frame being sent
    lost              \* packets dropped so far

v4Vars == <<multi_packet, multi_data, mt_fingers, devIdx, devFrame,
            devContacts, lost>>

TypeOKV4 ==
    /\ multi_packet \in 0..2
    /\ multi_data \in [0..2 -> Fragments \cup {NoFragment}]
    /\ mt_fingers \in 0..MaxFingers
    /\ devIdx \in 0..2 /\ devFrame \in 0..1
    /\ devContacts \in BitmapContacts /\ lost \in 0..MaxLost

InitV4 ==
    /\ multi_packet = 0
    /\ multi_data = [i \in 0..2 |-> NoFragment]
    /\ mt_fingers = 0
    /\ devIdx = 0 /\ devFrame = 0 /\ devContacts \in BitmapContacts
    /\ lost = 0

(* The pad moves on to its next fragment; a new frame may encode another  *)
(* contact count.                                                          *)
DeviceAdvance ==
    /\ devIdx' = (devIdx + 1) % 3
    /\ devFrame' = IF devIdx = 2 THEN 1 - devFrame ELSE devFrame
    /\ IF devIdx = 2 THEN devContacts' \in BitmapContacts
                     ELSE UNCHANGED devContacts

\* Mutant: the sync bit is ignored.
SyncIgnored(mp, sync) == mp

\* "if (packet[6] & 0x40) modelData.multi_packet = 0".
SyncReset(mp, sync) == IF sync THEN 0 ELSE mp

\* The finger count of the last complete bitmap: the code never calls
\* processBitmap and stores the local fingers, still 0.
AssembledFingers == 0

\* The finger count passed to dispatchEventsWithInfo.
V4Fingers(mf, z) == IF mf < 2 THEN IF z > 0 THEN 1 ELSE 0 ELSE mf

(* processPacketV4 for the fragment frag and position x, y, z: the sync    *)
(* reset, the early return past two pairs, the store at offset             *)
(* 2 * multi_packet, the completion that stores modelData.fingers, and the *)
(* dispatch.  Buttons are not modelled (see ALPSGesture).                  *)
ProcessPacketV4(frag, x, y, z, fling, modifier) ==
    LET mp == SyncReset(multi_packet, frag.idx = 0)
        done == mp + 1 > 2
        mf == IF done THEN AssembledFingers ELSE mt_fingers
    IN  /\ mp <= 2
        /\ multi_data' = [multi_data EXCEPT ![mp] = frag]
        /\ multi_packet' = IF done THEN 0 ELSE mp + 1
        /\ mt_fingers' = mf
        /\ DispatchEventsWithInfo([x |-> x, y |-> y, z |-> z,
                                   fingers |-> V4Fingers(mf, z)],
                                  {}, fling, modifier)

\* The pad sends its next packet and the driver processes it.
V4Packet ==
    /\ \E x \in Xs, y \in Ys, z \in Zs,
          fling \in IF touchmode = MODE_MTOUCH THEN BOOLEAN ELSE {FALSE},
          modifier \in IF touchmode = MODE_PREDRAG THEN Modifiers ELSE {FALSE} :
        ProcessPacketV4([frame |-> devFrame, idx |-> devIdx,
                         contacts |-> devContacts], x, y, z, fling, modifier)
    /\ DeviceAdvance
    /\ UNCHANGED lost

\* The line drops the pad's next packet.
LosePacket ==
    /\ lost < MaxLost
    /\ lost' = lost + 1
    /\ DeviceAdvance
    /\ UNCHANGED <<multi_packet, multi_data, mt_fingers, vars>>

(***************************************************************************)
(* Properties                                                              *)
(***************************************************************************)
\* All three pairs are filled.
Assembled == \A i \in 0..2 : multi_data[i] /= NoFragment

\* Spec 4.2: the bitmap is reassembled with an offset that the sync bit
\* resets, so whenever processPacketV4 completes a bitmap (multi_packet
\* back at 0) its three pairs are fragments 0, 1 and 2 of one frame, also
\* after the line dropped packets.
BitmapFromOneFrame ==
    (multi_packet = 0 /\ Assembled) =>
        \E t \in 0..1 :
            \A i \in 0..2 : multi_data[i].frame = t /\ multi_data[i].idx = i

\* Spec 4.2/4.3 and the comment before the dispatch ("If there were two
\* contacts or more, report MT data"): the sample dispatched with a
\* bitmap just completed whose frame encodes two or more contacts reports
\* that many fingers.
V4BitmapFingersReported ==
    [][multi_packet' = 0 /\ multi_packet = 2 /\ event' = "packet"
       /\ multi_data'[0].contacts >= 2 /\ lastz' > 0
       => last_fingers' = multi_data'[0].contacts]_<<vars, v4Vars>>
=============================================================================
