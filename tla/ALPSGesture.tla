---------------------------- MODULE ALPSGesture ----------------------------
(***************************************************************************)
(* The gesture state machine of ApplePS2ALPSGlidePoint:                    *)
(* dispatchEventsWithInfo, run once per decoded touchpad sample on the     *)
(* work loop, and the drag-exit and momentum-scroll timer callbacks of the *)
(* base class, which run on the same work loop between samples.           *)
(*                                                                         *)
(* One sample is one atomic step, taken in the order of the code:          *)
(* finger lift and tap resolution, pre-drag cancel, tap cancel by          *)
(* movement, the per-mode switch, tap capture, mode promotions, and the    *)
(* final dispatch of the button mask.  Pointer, scroll and swipe deltas    *)
(* (lastx/lasty, xrest/yrest, scrollrest, xmoved/ymoved, the smoothing     *)
(* filters) are data the modes never test, and are left out.               *)
(*                                                                         *)
(* Time is kept as the ticks elapsed since touchtime and untouchtime,      *)
(* capped at TimeCap, above every threshold: "touchtime = 0" in the code   *)
(* makes now_ns - touchtime larger than any threshold, so it is TimeCap.   *)
(* Buttons are sets of names; physical touchpad buttons are not modelled   *)
(* (the base class's middleButton emulation is outside this file), so the  *)
(* raw mask of a touchpad sample is empty.                                 *)
(***************************************************************************)
EXTENDS Integers

CONSTANTS
    ZFinger, ZLimit,              \* z_finger, zlimit
    Ledge, Redge, Tedge, Bedge,   \* ledge, redge, tedge, bedge
    TapThreshX, TapThreshY,       \* tapthreshx, tapthreshy
    DblThreshX, DblThreshY,       \* dblthreshx, dblthreshy
    MaxTapTime, MaxDblTapTime, MaxDragTime,  \* in ticks
    Clicking, Dragging, DragLock, RTap, ImmediateClick, SwapDoubleTriple,
    DragExit,                     \* dragTimer && dragexitdelay
    Scroll, HScroll, VScrollDivisor, HScrollDivisor, CScrollDivisor, CTrigger,
    VSticky, HSticky, WSticky, MomentumScroll,
    Xs, Ys, Zs, MaxFingers,       \* sample coordinates, pressures, fingers
    Modifiers                     \* _modifierdown & draglocktempmask values

ASSUME ZFinger \in Nat /\ ZLimit \in Nat /\ ZFinger < ZLimit
ASSUME CTrigger \in 0..9
ASSUME Zs \subseteq 0..127 /\ MaxFingers \in 1..4
ASSUME Modifiers \subseteq BOOLEAN /\ Modifiers /= {}

\* Above every time threshold, so capping keeps every comparison.
TimeCap ==
    LET m == IF MaxTapTime > MaxDragTime THEN MaxTapTime ELSE MaxDragTime
    IN  (IF m > MaxDblTapTime THEN m ELSE MaxDblTapTime) + 1

(* Touch modes of VoodooPS2TouchPadBase: odd values are "touch" modes.     *)
MODE_NOTOUCH == "NoTouch"
MODE_PREDRAG == "PreDrag"
MODE_DRAGNOTOUCH == "DragNoTouch"
MODE_MOVE == "Move"
MODE_VSCROLL == "VScroll"
MODE_HSCROLL == "HScroll"
MODE_CSCROLL == "CScroll"
MODE_MTOUCH == "MTouch"
MODE_DRAG == "Drag"
MODE_DRAGLOCK == "DragLock"
TouchModes == {MODE_MOVE, MODE_VSCROLL, MODE_HSCROLL, MODE_CSCROLL,
               MODE_MTOUCH, MODE_DRAG, MODE_DRAGLOCK}
Modes == TouchModes \cup {MODE_NOTOUCH, MODE_PREDRAG, MODE_DRAGNOTOUCH}

isTouchMode(m) == m \in TouchModes
isFingerTouch(z) == z > ZFinger /\ z < ZLimit

Buttons == {"left", "right", "middle"}
DoubleButton == IF ~SwapDoubleTriple THEN "right" ELSE "middle"
TripleButton == IF ~SwapDoubleTriple THEN "middle" ELSE "right"

abs(n) == IF n < 0 THEN -n ELSE n
Capped(n) == IF n > TimeCap THEN TimeCap ELSE n

(* The samples processTouchpadPacketV3 passes on: a position packet gives  *)
(* one finger when z > 0, none otherwise; a bitmap packet reporting two or *)
(* more fingers keeps its count and the position packet's z; one that      *)
(* reports a single finger has z forced to 0, which is again no finger.    *)
\* Mutant: a finger count one past the decoder's range.
TouchpadSamplesWide ==
    {[x |-> x, y |-> y, z |-> z, fingers |-> f] :
        x \in Xs, y \in Ys, z \in Zs, f \in 0..MaxFingers + 1}

TouchpadSamples ==
    {[x |-> x, y |-> y, z |-> z, fingers |-> IF z > 0 THEN 1 ELSE 0] :
        x \in Xs, y \in Ys, z \in Zs}
    \cup
    {[x |-> x, y |-> y, z |-> z, fingers |-> f] :
        x \in Xs, y \in Ys, z \in Zs, f \in 2..MaxFingers}

VARIABLES
    touchmode,      \* touchmode
    last_fingers,   \* last_fingers
    lastz,          \* modelData.lastz
    sinceTouch,     \* now_ns - touchtime, in ticks, capped
    sinceUntouch,   \* now_ns - untouchtime, in ticks, capped
    touchx, touchy, \* touchx, touchy
    wasdouble, wastriple,
    draglocktemp,
    dragTimer,      \* the drag-exit timer is armed
    momentum,       \* momentumscrollcurrent /= 0
    ignoreall,      \* set by trackstick packets
    lastbuttons,    \* lastbuttons
    out,            \* the button mask of the last pointer event dispatched
    event,          \* ghost: the kind of the last step
    contactFingers, \* ghost: most fingers seen since touchtime was taken
    contactMoved    \* ghost: the contact left the tap box since then

gestureVars == <<touchmode, last_fingers, lastz, sinceTouch, sinceUntouch,
                 touchx, touchy, wasdouble, wastriple, draglocktemp,
                 dragTimer, momentum, out, event, contactFingers,
                 contactMoved>>
vars == <<gestureVars, ignoreall, lastbuttons>>

TypeOK ==
    /\ touchmode \in Modes
    /\ last_fingers \in 0..MaxFingers
    /\ lastz \in 0..255
    /\ sinceTouch \in 0..TimeCap /\ sinceUntouch \in 0..TimeCap
    /\ touchx \in Xs \cup {0} /\ touchy \in Ys \cup {0}
    /\ {wasdouble, wastriple, draglocktemp, dragTimer, momentum,
        ignoreall, contactMoved} \subseteq BOOLEAN
    /\ lastbuttons \subseteq Buttons /\ out \subseteq Buttons
    /\ event \in {"init", "packet", "ignored", "dragTimer", "scrollTimer",
                  "tick", "trackstick"}
    /\ contactFingers \in 0..MaxFingers

Init ==
    /\ touchmode = MODE_NOTOUCH
    /\ last_fingers = 0 /\ lastz = 0
    /\ sinceTouch = TimeCap /\ sinceUntouch = TimeCap
    /\ touchx = 0 /\ touchy = 0
    /\ wasdouble = FALSE /\ wastriple = FALSE /\ draglocktemp = FALSE
    /\ dragTimer = FALSE /\ momentum = FALSE /\ ignoreall = FALSE
    /\ lastbuttons = {} /\ out = {}
    /\ event = "init" /\ contactFingers = 0 /\ contactMoved = FALSE

(***************************************************************************)
(* The steps of dispatchEventsWithInfo, each a function of the record g of *)
(* the gesture state as the previous step left it.                         *)
(***************************************************************************)
TapButton(g) ==
    IF g.wastriple /\ RTap THEN TripleButton
    ELSE IF g.wasdouble /\ RTap THEN DoubleButton
    ELSE "left"

\* Mutant: the one-finger tap clicks but leaves touchmode as it was.
TapDefaultKeepsMode(g, fingers) ==
    IF g.wastriple /\ RTap
    THEN [g EXCEPT !.buttons = @ \cup {TripleButton}, !.touchmode = MODE_NOTOUCH]
    ELSE IF last_fingers = 1 /\ fingers = 0 /\ ~(g.wasdouble /\ RTap)
    THEN [g EXCEPT !.buttons = @ \cup {"left"}]
    ELSE g

\* A tap lifted in a mode other than Drag and DragLock.
TapDefault(g, fingers) ==
    IF g.wastriple /\ RTap
    THEN [g EXCEPT !.buttons = @ \cup {TripleButton}, !.touchmode = MODE_NOTOUCH]
    ELSE IF g.wasdouble /\ RTap
    THEN IF lastz = 126 /\ last_fingers = 2 /\ fingers = 0
         THEN [g EXCEPT !.buttons = @ \cup {DoubleButton},
                        !.touchmode = MODE_NOTOUCH]
         ELSE g
    ELSE IF last_fingers = 1 /\ fingers = 0
    THEN [g EXCEPT !.buttons = @ \cup {"left"},
                   !.touchmode = IF Dragging THEN MODE_PREDRAG ELSE MODE_NOTOUCH]
    ELSE g

\* The switch on touchmode for a lift inside the tap window.  In Drag
\* without immediateclick the code clears the buttons and first dispatches
\* a press and a release of the left button; those two events are not kept.
TapSwitch(g, fingers) ==
    CASE g.touchmode = MODE_DRAG ->
            [g EXCEPT !.buttons = (IF ImmediateClick THEN @ ELSE {})
                                  \cup {TapButton(g)},
                      !.touchmode = MODE_NOTOUCH]
      [] g.touchmode = MODE_DRAGLOCK -> [g EXCEPT !.touchmode = MODE_NOTOUCH]
      [] OTHER -> TapDefault(g, fingers)

\* Mutant: DragNoTouch is entered without arming the exit timer.
LiftOutsideTapNoArm(g) ==
    IF g.touchmode \in {MODE_DRAG, MODE_DRAGLOCK}
       /\ (DragLock \/ g.draglocktemp \/ DragExit)
    THEN [g EXCEPT !.touchmode = MODE_DRAGNOTOUCH]
    ELSE [g EXCEPT !.touchmode = MODE_NOTOUCH, !.draglocktemp = FALSE]

\* A lift outside the tap window: a drag either waits for a new touch in
\* DragNoTouch, arming the exit timer, or ends.
LiftOutsideTap(g) ==
    IF g.touchmode \in {MODE_DRAG, MODE_DRAGLOCK}
       /\ (DragLock \/ g.draglocktemp \/ DragExit)
    THEN [g EXCEPT !.touchmode = MODE_DRAGNOTOUCH,
                   !.dragTimer = IF ~DragLock /\ ~g.draglocktemp THEN TRUE ELSE @]
    ELSE [g EXCEPT !.touchmode = MODE_NOTOUCH, !.draglocktemp = FALSE]

\* "Finger has been lifted after touch": z < z_finger in a touch mode.
FingerLifted(g, fingers, fling) ==
    LET resolved == IF g.sinceTouch < MaxTapTime /\ Clicking
                    THEN TapSwitch(g, fingers)
                    ELSE LiftOutsideTap(g)
    IN  [resolved EXCEPT
            !.sinceUntouch = 0,
            !.momentum = IF g.touchmode = MODE_MTOUCH /\ MomentumScroll /\ fling
                         THEN TRUE ELSE @,
            !.wasdouble = FALSE,
            !.wastriple = FALSE]

CancelPreDrag(g) ==
    IF g.touchmode = MODE_PREDRAG /\ g.sinceUntouch >= MaxDragTime
    THEN [g EXCEPT !.touchmode = MODE_NOTOUCH]
    ELSE g

\* Cancel the tap when the contact moves too far from where it started.
\* The code computes dy as minus the distance, so dy > tapthreshy never holds.
CancelTap(g, x, y, z) ==
    IF isTouchMode(g.touchmode) /\ isFingerTouch(z)
    THEN LET dx == abs(x - g.touchx)
             dy == -abs(y - g.touchy)
             far == \/ ~g.wasdouble /\ ~g.wastriple
                        /\ (dx > TapThreshX \/ dy > TapThreshY)
                    \/ dx > DblThreshX \/ dy > DblThreshY
         IN  IF far THEN [g EXCEPT !.sinceTouch = TimeCap] ELSE g
    ELSE g

WithLeft(g) == [g EXCEPT !.buttons = @ \cup {"left"}]

\* The switch (touchmode) computing motion; only its mode changes and the
\* buttons it holds are kept.
ModeSwitch(g, x, y, z, fingers) ==
    CASE g.touchmode \in {MODE_DRAG, MODE_DRAGLOCK} ->
            IF g.touchmode = MODE_DRAGLOCK \/ ~ImmediateClick
               \/ g.sinceTouch > MaxDblTapTime
            THEN WithLeft(g) ELSE g
      [] g.touchmode = MODE_MTOUCH ->
            IF fingers = 1 /\ last_fingers = fingers /\ ~WSticky
            THEN [g EXCEPT !.touchmode = MODE_MOVE] ELSE g
      [] g.touchmode = MODE_VSCROLL ->
            IF ~VSticky /\ (x < Redge \/ fingers > 1 \/ z > ZLimit)
            THEN [g EXCEPT !.touchmode = MODE_NOTOUCH] ELSE g
      [] g.touchmode = MODE_HSCROLL ->
            IF ~HSticky /\ (y < Bedge \/ fingers > 1 \/ z > ZLimit)
            THEN [g EXCEPT !.touchmode = MODE_NOTOUCH] ELSE g
      [] g.touchmode = MODE_DRAGNOTOUCH -> WithLeft(g)
      [] g.touchmode = MODE_PREDRAG ->
            IF ~ImmediateClick THEN WithLeft(g) ELSE g
      [] OTHER -> g

\* Capture the time of a tap and watch for double and triple taps; any
\* touch cancels momentum scroll.
CaptureTouch(g, x, y, z, fingers) ==
    IF isFingerTouch(z)
    THEN LET fresh == ~isTouchMode(g.touchmode)
             c == IF ~g.momentum
                  THEN [g EXCEPT !.sinceTouch = IF fresh THEN 0 ELSE @,
                                 !.touchx = IF fresh THEN x ELSE @,
                                 !.touchy = IF fresh THEN y ELSE @,
                                 !.wasdouble = @ \/ fingers = 2,
                                 !.wastriple = @ \/ fingers = 3]
                  ELSE g
         IN  [c EXCEPT !.momentum = FALSE]
    ELSE g

\* Mutant: DragLock is entered without cancelling the exit timer.
DragLockEntryKeepsTimer(g) == [g EXCEPT !.touchmode = MODE_DRAGLOCK]

DragLockEntry(g) == [g EXCEPT !.touchmode = MODE_DRAGLOCK, !.dragTimer = FALSE]

\* The eight corner-scroll triggers.
CornerScrollTrigger(x, y) ==
    \/ y > Tedge /\ CTrigger \in {1, 9}
    \/ y > Tedge /\ x > Redge /\ CTrigger = 2
    \/ x > Redge /\ CTrigger \in {3, 9}
    \/ x > Redge /\ y < Bedge /\ CTrigger = 4
    \/ y < Bedge /\ CTrigger \in {5, 9}
    \/ y < Bedge /\ x < Ledge /\ CTrigger = 6
    \/ x < Ledge /\ CTrigger \in {7, 9}
    \/ x < Ledge /\ y > Tedge /\ CTrigger = 8

SetMode(g, m) == [g EXCEPT !.touchmode = m]

\* Mode promotions after the motion step, in the code's order.
Promote(g, x, y, z, fingers, modifier) ==
    LET p1 == IF g.touchmode = MODE_PREDRAG /\ isFingerTouch(z)
              THEN [g EXCEPT !.touchmode = MODE_DRAG, !.draglocktemp = modifier]
              ELSE g
        p2 == IF p1.touchmode = MODE_DRAGNOTOUCH /\ isFingerTouch(z)
              THEN DragLockEntry(p1) ELSE p1
        p3 == IF p2.touchmode /= MODE_MTOUCH /\ fingers > 1 /\ isFingerTouch(z)
              THEN SetMode(p2, MODE_MTOUCH) ELSE p2
        p4 == IF Scroll /\ CScrollDivisor /\ p3.touchmode = MODE_NOTOUCH
                 /\ z > ZFinger /\ CornerScrollTrigger(x, y)
              THEN SetMode(p3, MODE_CSCROLL) ELSE p3
        p5 == IF (p4.touchmode = MODE_NOTOUCH
                  \/ (p4.touchmode = MODE_HSCROLL /\ y >= Bedge))
                 /\ z > ZFinger /\ x > Redge /\ VScrollDivisor /\ Scroll
              THEN SetMode(p4, MODE_VSCROLL) ELSE p4
        p6 == IF (p5.touchmode = MODE_NOTOUCH
                  \/ (p5.touchmode = MODE_VSCROLL /\ x <= Redge))
                 /\ z > ZFinger /\ y > Bedge /\ HScrollDivisor /\ HScroll /\ Scroll
              THEN SetMode(p5, MODE_HSCROLL) ELSE p5
    IN  IF p6.touchmode = MODE_NOTOUCH /\ z > ZFinger
        THEN SetMode(p6, MODE_MOVE) ELSE p6

(***************************************************************************)
(* Actions                                                                 *)
(***************************************************************************)
Snapshot(buttonsraw) ==
    [touchmode |-> touchmode, sinceTouch |-> sinceTouch,
     sinceUntouch |-> sinceUntouch, touchx |-> touchx, touchy |-> touchy,
     wasdouble |-> wasdouble, wastriple |-> wastriple,
     draglocktemp |-> draglocktemp, dragTimer |-> dragTimer,
     momentum |-> momentum, buttons |-> buttonsraw]

\* The state a sample leaves: g1 after the lift, g3 after the mode switch,
\* g after the promotions.
Commit(g0, g1, g3, g, s) ==
    LET fresh == isFingerTouch(s.z) /\ ~g3.momentum /\ ~isTouchMode(g3.touchmode)
        moved == isTouchMode(g1.touchmode) /\ isFingerTouch(s.z)
                 /\ (abs(s.x - g1.touchx) > TapThreshX
                     \/ abs(s.y - g1.touchy) > TapThreshY)
    IN  /\ ~ignoreall
        /\ touchmode' = g.touchmode
        /\ sinceTouch' = g.sinceTouch /\ sinceUntouch' = g.sinceUntouch
        /\ touchx' = g.touchx /\ touchy' = g.touchy
        /\ wasdouble' = g.wasdouble /\ wastriple' = g.wastriple
        /\ draglocktemp' = g.draglocktemp /\ dragTimer' = g.dragTimer
        /\ momentum' = g.momentum
        /\ out' = g.buttons
        /\ lastz' = s.z /\ last_fingers' = s.fingers
        /\ lastbuttons' = g0.buttons
        /\ event' = "packet"
        /\ contactFingers' = IF fresh THEN s.fingers
                             ELSE IF s.fingers > contactFingers THEN s.fingers
                             ELSE contactFingers
        /\ contactMoved' = (~fresh /\ (contactMoved \/ moved))
        /\ UNCHANGED ignoreall

\* The steps after the lift, from g1.
AfterLift(g0, g1, s, modifier) ==
    LET g3 == ModeSwitch(CancelTap(CancelPreDrag(g1), s.x, s.y, s.z),
                         s.x, s.y, s.z, s.fingers)
    IN  Commit(g0, g1, g3,
               Promote(CaptureTouch(g3, s.x, s.y, s.z, s.fingers),
                       s.x, s.y, s.z, s.fingers, modifier), s)

\* dispatchEventsWithInfo for one sample, when the touchpad is not ignored,
\* from the gesture state g0 (the variables, or what a decoder changed in
\* them before the call).
DispatchFrom(g0, s, fling, modifier) ==
    AfterLift(g0, IF s.z < ZFinger /\ isTouchMode(g0.touchmode)
                  THEN FingerLifted(g0, s.fingers, fling) ELSE g0, s, modifier)

DispatchEventsWithInfo(s, buttonsraw, fling, modifier) ==
    DispatchFrom(Snapshot(buttonsraw), s, fling, modifier)

\* VoodooPS2TouchPadBase::onDragTimer: the drag ends and the buttons are
\* reported as lastbuttons.
OnDragTimer ==
    /\ dragTimer
    /\ dragTimer' = FALSE
    /\ touchmode' = MODE_NOTOUCH
    /\ out' = lastbuttons
    /\ event' = "dragTimer"
    /\ UNCHANGED <<last_fingers, lastz, sinceTouch, sinceUntouch, touchx,
                   touchy, wasdouble, wastriple, draglocktemp, momentum,
                   contactFingers, contactMoved, ignoreall, lastbuttons>>

\* VoodooPS2TouchPadBase::onScrollTimer: the momentum scroll decays to zero.
OnScrollTimer ==
    /\ momentum
    /\ momentum' = FALSE
    /\ event' = "scrollTimer"
    /\ UNCHANGED <<touchmode, last_fingers, lastz, sinceTouch, sinceUntouch,
                   touchx, touchy, wasdouble, wastriple, draglocktemp,
                   dragTimer, out, contactFingers, contactMoved, ignoreall,
                   lastbuttons>>

\* Time passes.
Tick ==
    /\ sinceTouch < TimeCap \/ sinceUntouch < TimeCap
    /\ sinceTouch' = Capped(sinceTouch + 1)
    /\ sinceUntouch' = Capped(sinceUntouch + 1)
    /\ event' = "tick"
    /\ UNCHANGED <<touchmode, last_fingers, lastz, touchx, touchy, wasdouble,
                   wastriple, draglocktemp, dragTimer, momentum, out,
                   contactFingers, contactMoved, ignoreall, lastbuttons>>

TouchpadPacket ==
    \E s \in TouchpadSamples,
       fling \in IF touchmode = MODE_MTOUCH THEN BOOLEAN ELSE {FALSE},
       modifier \in IF touchmode = MODE_PREDRAG THEN Modifiers ELSE {FALSE} :
        DispatchEventsWithInfo(s, {}, fling, modifier)

Next ==
    \/ TouchpadPacket
    \/ OnDragTimer
    \/ OnScrollTimer
    \/ Tick

\* The timers are callbacks of the work loop, which runs them once due.
Fairness == WF_vars(OnDragTimer) /\ WF_vars(OnScrollTimer)

Spec == Init /\ [][Next]_vars /\ Fairness

(***************************************************************************)
(* Properties                                                              *)
(***************************************************************************)
\* A sample reporting no finger and z below z_finger was processed.
LiftSample == event' = "packet" /\ lastz' < ZFinger /\ last_fingers' = 0

\* A touch mode other than a drag, with the tap window still open.
TapPending ==
    /\ isTouchMode(touchmode) /\ touchmode \notin {MODE_DRAG, MODE_DRAGLOCK}
    /\ sinceTouch < MaxTapTime /\ Clicking

\* The drag-exit timer is only ever armed while the driver holds the
\* button in DragNoTouch: every transition out of DragNoTouch on a new
\* touch (DragLock) cancels it, so onDragTimer can never end a drag in
\* progress.
DragTimerOnlyInDragNoTouch == dragTimer => touchmode = MODE_DRAGNOTOUCH

\* A drag whose finger left the pad ends unless drag lock holds it: from
\* DragNoTouch without draglock or draglocktemp the driver always gets out
\* of DragNoTouch again, by the exit timer releasing the button or by a
\* new touch locking the drag.
DragExitReleases ==
    (touchmode = MODE_DRAGNOTOUCH /\ ~DragLock /\ ~draglocktemp)
        ~> (touchmode /= MODE_DRAGNOTOUCH)

\* Spec 8: a one-finger touch released inside the tap window with tapping
\* enabled is a click: the lift dispatches the left button and the state
\* machine leaves the touch modes (NoTouch, or PreDrag when dragging is on).
TapClicks ==
    [][LiftSample /\ TapPending /\ contactFingers = 1
       => "left" \in out' /\ touchmode' \in {MODE_NOTOUCH, MODE_PREDRAG}]_vars

\* Spec 4.4 step 8: a two-finger tap inside the tap window with rtap on is
\* a secondary click (right, or middle when swapped).
SecondaryTapClicks ==
    [][LiftSample /\ TapPending /\ contactFingers = 2 /\ RTap
       => DoubleButton \in out']_vars

\* Spec 4.4 step 10: a one-finger contact that moved beyond the tap
\* thresholds from where it touched down is not a tap: its lift clicks
\* nothing.
MovedContactNotClicked ==
    [][LiftSample /\ isTouchMode(touchmode)
       /\ touchmode \notin {MODE_DRAG, MODE_DRAGLOCK}
       /\ contactFingers = 1 /\ contactMoved
       => "left" \notin out']_vars
=============================================================================
