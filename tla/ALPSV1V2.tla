----------------------------- MODULE ALPSV1V2 ------------------------------
(***************************************************************************)
(* processPacketV1V2 feeding the gesture state machine.  A V1/V2 pad       *)
(* reports a hardware tap (ges && !fin), which the decoder turns into a    *)
(* touch at z_finger + 1, and a hardware tap-and-drag, a transition from   *)
(* !fin to fin while ges is set, on which the decoder forces touchmode to  *)
(* Drag itself before calling dispatchEventsWithInfo.  On a dual-point pad *)
(* z = 127 marks a trackstick packet, dispatched as relative motion.      *)
(* Physical buttons and the wheel are not modelled (see ALPSGesture).      *)
(***************************************************************************)
EXTENDS ALPSGesture

CONSTANTS DualPoint   \* modelData.flags & ALPS_DUALPOINT

VARIABLE prev_fin     \* modelData.prev_fin

v1v2Vars == <<vars, prev_fin>>

\* Mutant: the finger count is incremented once too often on a firm touch.
FingersFromZOver(z) == IF z = 0 THEN 0 ELSE IF z >= 98 THEN 3 ELSE 1

\* "The z value increases as more fingers are on the trackpad."
FingersFromZ(z) == IF z = 0 THEN 0 ELSE IF z >= 98 THEN 2 ELSE 1

\* z after the hardware-tap conversion.
TapZ(z, ges, fin) == IF ges /\ ~fin THEN ZFinger + 1 ELSE z

InitV1V2 == Init /\ prev_fin = FALSE

\* processPacketV1V2 for a touchpad packet (not a trackstick one).
ProcessPacketV1V2(x, y, zraw, ges, fin, fling, modifier) ==
    LET z == TapZ(zraw, ges, fin)
        g0 == Snapshot({})
        g == IF ges /\ fin /\ ~prev_fin
             THEN [g0 EXCEPT !.touchmode = MODE_DRAG] ELSE g0
    IN  /\ ~(DualPoint /\ zraw = 127)
        /\ prev_fin' = fin
        /\ DispatchFrom(g, [x |-> x, y |-> y, z |-> z,
                            fingers |-> FingersFromZ(z)], fling, modifier)

\* A dual-point trackstick packet: relative motion with the buttons, and
\* the early return before prev_fin is updated.
ProcessTrackstickV1V2 ==
    /\ DualPoint
    /\ out' = {}
    /\ event' = "trackstick"
    /\ UNCHANGED <<touchmode, last_fingers, lastz, sinceTouch, sinceUntouch,
                   touchx, touchy, wasdouble, wastriple, draglocktemp,
                   dragTimer, momentum, contactFingers, contactMoved,
                   ignoreall, lastbuttons, prev_fin>>

V1V2Packet ==
    \E x \in Xs, y \in Ys, zraw \in Zs, ges \in BOOLEAN, fin \in BOOLEAN,
       fling \in IF touchmode = MODE_MTOUCH THEN BOOLEAN ELSE {FALSE},
       modifier \in IF touchmode = MODE_PREDRAG THEN Modifiers ELSE {FALSE} :
        ProcessPacketV1V2(x, y, zraw, ges, fin, fling, modifier)

NextV1V2 ==
    \/ V1V2Packet
    \/ ProcessTrackstickV1V2
    \/ OnDragTimer /\ UNCHANGED prev_fin
    \/ OnScrollTimer /\ UNCHANGED prev_fin
    \/ Tick /\ UNCHANGED prev_fin

FairnessV1V2 ==
    /\ WF_v1v2Vars(OnDragTimer /\ UNCHANGED prev_fin)
    /\ WF_v1v2Vars(OnScrollTimer /\ UNCHANGED prev_fin)

SpecV1V2 == InitV1V2 /\ [][NextV1V2]_v1v2Vars /\ FairnessV1V2
=============================================================================
