-------------------------- MODULE ALPSProcessPacket --------------------------
(***************************************************************************)
(* The packet decoders behind setDefaults' process_packet pointer, each    *)
(* feeding the one gesture state machine of the driver.  identify fixes    *)
(* proto_version once, so proto is chosen in Init and never changes:       *)
(* "V1V2" runs processPacketV1V2 (ALPSV1V2), "V4" processPacketV4          *)
(* (ALPSV4), and "V3" the samples processTouchpadPacketV3 passes on        *)
(* (TouchpadPacket of ALPSGesture; the decoder itself is ALPSTouchpadV3).  *)
(* The timer callbacks and time run under every protocol.                  *)
(***************************************************************************)
EXTENDS ALPSV1V2, ALPSV4

CONSTANTS Protos    \* the protocols identify may select

ASSUME Protos \subseteq {"V1V2", "V3", "V4"} /\ Protos /= {}

VARIABLE proto      \* modelData.proto_version, as the process_packet chosen

allVars == <<vars, prev_fin, v4Vars, proto>>

TypeOKAll ==
    /\ TypeOK /\ TypeOKV4
    /\ prev_fin \in BOOLEAN /\ proto \in Protos

InitAll == proto \in Protos /\ InitV1V2 /\ InitV4

\* packetReady's (this->*process_packet)(packet) for the chosen protocol.
ProcessPacket ==
    \/ proto = "V1V2" /\ V1V2Packet /\ UNCHANGED <<v4Vars, proto>>
    \/ proto = "V1V2" /\ ProcessTrackstickV1V2 /\ UNCHANGED <<v4Vars, proto>>
    \/ proto = "V3" /\ TouchpadPacket /\ UNCHANGED <<prev_fin, v4Vars, proto>>
    \/ proto = "V4" /\ V4Packet /\ UNCHANGED <<prev_fin, proto>>
    \/ proto = "V4" /\ LosePacket /\ UNCHANGED <<prev_fin, proto>>

\* The work loop's timer callbacks and the passing of time.
Background ==
    \/ OnDragTimer /\ UNCHANGED <<prev_fin, v4Vars, proto>>
    \/ OnScrollTimer /\ UNCHANGED <<prev_fin, v4Vars, proto>>
    \/ Tick /\ UNCHANGED <<prev_fin, v4Vars, proto>>

NextAll == ProcessPacket \/ Background

FairnessAll ==
    /\ WF_allVars(OnDragTimer /\ UNCHANGED <<prev_fin, v4Vars, proto>>)
    /\ WF_allVars(OnScrollTimer /\ UNCHANGED <<prev_fin, v4Vars, proto>>)

SpecAll == InitAll /\ [][NextAll]_allVars /\ FairnessAll

(***************************************************************************)
(* Properties.  The V1/V2 decoder forces Drag on a hardware tap-and-drag   *)
(* while the exit timer may be armed (run v1v2_hw_drag), and a drag ended  *)
(* by that timer keeps wasdouble; the two properties that this breaks are  *)
(* stated for the decoders that do not.                                    *)
(***************************************************************************)
\* The drag-exit timer is only armed in DragNoTouch (DragTimerOnlyInDragNoTouch
\* of ALPSGesture) on the V3 and V4 decoders.
DragTimerOnlyInDragNoTouchMT ==
    proto /= "V1V2" => DragTimerOnlyInDragNoTouch

\* A one-finger tap clicks (TapClicks of ALPSGesture) on the V3 and V4
\* decoders.
TapClicksMT ==
    [][proto /= "V1V2" /\ LiftSample /\ TapPending /\ contactFingers = 1
       => "left" \in out' /\ touchmode' \in {MODE_NOTOUCH, MODE_PREDRAG}]_allVars

\* Every unlocked drag ends (DragExitReleases of ALPSGesture), whichever
\* decoder feeds the state machine.
DragExitReleasesAll == DragExitReleases
=============================================================================
