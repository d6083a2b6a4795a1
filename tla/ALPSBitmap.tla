----------------------------- MODULE ALPSBitmap -----------------------------
(***************************************************************************)
(* processBitmap and alps_get_bitmap_points: the bounding box of the       *)
(* contacts that semi-mt pads (V3, V5) report as one presence bitmap per   *)
(* axis, and the choice of the corner used as the second touch, which      *)
(* persists in modelData.second_touch across packets until the caller      *)
(* (processTouchpadPacketV3, line 848) clears it on a sample with fewer    *)
(* than two fingers.                                                       *)
(*                                                                         *)
(* A map is the number the decoder assembles; every decoder assembles      *)
(* exactly x_bits and y_bits bits (Pinnacle 15/11, Rushmore 16/12, Dolphin *)
(* 23/12), so a map ranges over 0 .. 2^bits - 1.  Coordinates are C ints;  *)
(* every numerator is non-negative, so C division is \div.                 *)
(***************************************************************************)
EXTENDS Integers, FiniteSets, FiniteSetsExt

CONSTANTS
    XBits, YBits,   \* modelData.x_bits, y_bits
    XMax, YMax,     \* modelData.x_max, y_max
    Proto,          \* modelData.proto_version
    Xs, Ys          \* f->x, f->y of the position packet

ASSUME XBits \in 2..8 /\ YBits \in 2..8 /\ Proto \in {"V3", "V4", "V5"}

XMaps == 0..(2^XBits - 1)
YMaps == 0..(2^YBits - 1)

NoPoint == [start_bit |-> 0, num_bits |-> 0]

(***************************************************************************)
(* alps_get_bitmap_points: one loop iteration per bit, low to high, while  *)
(* map /= 0.  st.cur is the struct the pointer "point" designates.         *)
(***************************************************************************)
\* Mutant: every set bit is counted as a finger.
PointsStepPerBit(st, i, bit) ==
    IF bit = 1
    THEN [st EXCEPT
            ![st.cur] = IF st.prev = 0
                        THEN [start_bit |-> i, num_bits |-> 1]
                        ELSE [@ EXCEPT !.num_bits = @ + 1],
            !.fingers = @ + 1,
            !.prev = 1]
    ELSE [st EXCEPT !.cur = IF st.prev = 1 THEN "high" ELSE @, !.prev = 0]

\* Mutant: the pointer is never moved to high when a run ends.
PointsStepNoSwitch(st, i, bit) ==
    IF bit = 1
    THEN [st EXCEPT
            ![st.cur] = IF st.prev = 0
                        THEN [start_bit |-> i, num_bits |-> 1]
                        ELSE [@ EXCEPT !.num_bits = @ + 1],
            !.fingers = IF st.prev = 0 THEN @ + 1 ELSE @,
            !.prev = 1]
    ELSE [st EXCEPT !.prev = 0]

PointsStep(st, i, bit) ==
    IF bit = 1
    THEN [st EXCEPT
            ![st.cur] = IF st.prev = 0
                        THEN [start_bit |-> i, num_bits |-> 1]
                        ELSE [@ EXCEPT !.num_bits = @ + 1],
            !.fingers = IF st.prev = 0 THEN @ + 1 ELSE @,
            !.prev = 1]
    ELSE [st EXCEPT !.cur = IF st.prev = 1 THEN "high" ELSE @, !.prev = 0]

RECURSIVE PointsLoop(_, _, _)
PointsLoop(map, i, st) ==
    IF map = 0 THEN st
    ELSE PointsLoop(map \div 2, i + 1, PointsStep(st, i, map % 2))

get_bitmap_points(map) ==
    LET st == PointsLoop(map, 0, [low |-> NoPoint, high |-> NoPoint,
                                  cur |-> "low", prev |-> 0, fingers |-> 0])
    IN  [low |-> st.low, high |-> st.high, fingers |-> st.fingers]

(***************************************************************************)
(* processBitmap.                                                          *)
(***************************************************************************)
\* An axis with a single run is split between low and high (lines 523-535).
SplitAxis(p) ==
    IF p.fingers = 1
    THEN LET i == p.low.num_bits \div 2
         IN  [p EXCEPT !.low.num_bits = @ - i,
                       !.high = [start_bit |-> p.low.start_bit + i,
                                 num_bits |-> IF i > 1 THEN i ELSE 1]]
    ELSE p

\* Mutant: the centre of the last bin is taken one half bin too far.
AxisCoordHalfOff(max, pt, bits) ==
    (max * (2 * pt.start_bit + pt.num_bits)) \div (2 * (bits - 1))

\* The centre of a run in device coordinates.
AxisCoord(max, pt, bits) ==
    (max * (2 * pt.start_bit + pt.num_bits - 1)) \div (2 * (bits - 1))

\* corner[0..3]: top-left, top-right, bottom-right, bottom-left, with the
\* x axis reversed on V5 and the y axis on V3 and V4.
Corners(xmap, ymap) ==
    LET px == SplitAxis(get_bitmap_points(xmap))
        py == SplitAxis(get_bitmap_points(ymap))
        xl == AxisCoord(XMax, px.low, XBits)
        xh == AxisCoord(XMax, px.high, XBits)
        yl == AxisCoord(YMax, py.low, YBits)
        yh == AxisCoord(YMax, py.high, YBits)
        flipX(c) == IF Proto = "V5" THEN XMax - c ELSE c
        flipY(c) == IF Proto \in {"V3", "V4"} THEN YMax - c ELSE c
        raw == <<[x |-> xl, y |-> yl], [x |-> xh, y |-> yl],
                 [x |-> xh, y |-> yh], [x |-> xl, y |-> yh]>>
    IN  [i \in 0..3 |-> [x |-> flipX(raw[i + 1].x), y |-> flipY(raw[i + 1].y)]]

\* processBitmap's return value, max(fingers_x, fingers_y).
BitmapFingers(xm, ym) ==
    Max({get_bitmap_points(xm).fingers, get_bitmap_points(ym).fingers})

SquaredDistance(c, x, y) == (x - c.x) * (x - c.x) + (y - c.y) * (y - c.y)

\* The loop of lines 581-590 keeps the first corner of least distance.
ClosestCorner(cs, x, y) ==
    Min({i \in 0..3 : \A j \in 0..3 :
            SquaredDistance(cs[i], x, y) <= SquaredDistance(cs[j], x, y)})

\* Mutant: the corner next to the closest is taken instead of the opposite.
SelectCornerAdjacent(cs, x, y) == (ClosestCorner(cs, x, y) + 1) % 4

SelectCorner(cs, x, y) == (ClosestCorner(cs, x, y) + 2) % 4

VARIABLES
    xmap, ymap,     \* f->x_map, f->y_map of the last call
    fx, fy,         \* f->x, f->y of the last call
    second_touch,   \* modelData.second_touch
    fingers,        \* the value processBitmap returned
    corner,         \* <<f->x2, f->y2>>; <<>> when the call returned early
    event           \* ghost: the kind of the last step

vars == <<xmap, ymap, fx, fy, second_touch, fingers, corner, event>>

TypeOK ==
    /\ xmap \in XMaps /\ ymap \in YMaps /\ fx \in Xs /\ fy \in Ys
    /\ second_touch \in -1..3
    /\ fingers \in 0..((XBits + 1) \div 2)
    /\ corner \in {<<>>} \cup (Int \X Int)
    /\ event \in {"init", "bitmap", "single"}

\* Nothing assigns second_touch before the first sample: modelData is a
\* member of the driver object, which the allocator zero-fills, so it
\* starts at 0, the top-left corner, as if one had been selected.
Init ==
    /\ xmap = 0 /\ ymap = 0 /\ fx \in Xs /\ fy \in Ys
    /\ second_touch = 0 /\ fingers = 0 /\ corner = <<>>
    /\ event = "init"

\* modelData->second_touch after processBitmap: an empty map returns early,
\* and a corner is selected only while none is.
SecondTouchAfter(st, xm, ym, x, y) ==
    IF xm = 0 \/ ym = 0 \/ st /= -1 THEN st
    ELSE SelectCorner(Corners(xm, ym), x, y)

\* processBitmap(modelData, f) on a bitmap packet.
ProcessBitmap(xm, ym, x, y) ==
    /\ xmap' = xm /\ ymap' = ym /\ fx' = x /\ fy' = y
    /\ event' = "bitmap"
    /\ IF xm = 0 \/ ym = 0
       THEN /\ fingers' = 0 /\ corner' = <<>>
            /\ UNCHANGED second_touch
       ELSE LET cs == Corners(xm, ym)
                st == SecondTouchAfter(second_touch, xm, ym, x, y)
            IN  /\ second_touch' = st
                /\ fingers' = BitmapFingers(xm, ym)
                /\ corner' = <<cs[st].x, cs[st].y>>

\* The caller's "use st data": a sample with fewer than two fingers.
SingleTouch ==
    /\ second_touch' = -1
    /\ event' = "single"
    /\ UNCHANGED <<xmap, ymap, fx, fy, fingers, corner>>

Next ==
    \/ \E xm \in XMaps, ym \in YMaps, x \in Xs, y \in Ys :
           ProcessBitmap(xm, ym, x, y)
    \/ SingleTouch

Spec == Init /\ [][Next]_vars

(***************************************************************************)
(* Reference definitions: the maximal runs of set bits of a map.           *)
(***************************************************************************)
Bit(map, i) == (map \div 2^i) % 2

RunStarts(map, bits) ==
    {i \in 0..bits - 1 : Bit(map, i) = 1 /\ (i = 0 \/ Bit(map, i - 1) = 0)}

RunAt(map, s) ==
    [start_bit |-> s,
     num_bits |-> Min({n \in 1..8 : Bit(map, s + n) = 0})]

\* The first run is low, the last run is high when there are two or more,
\* and every run counts as a finger.
RefPoints(map, bits) ==
    LET starts == RunStarts(map, bits)
    IN  [low |-> IF starts = {} THEN NoPoint ELSE RunAt(map, Min(starts)),
         high |-> IF Cardinality(starts) < 2 THEN NoPoint
                  ELSE RunAt(map, Max(starts)),
         fingers |-> Cardinality(starts)]

(***************************************************************************)
(* Properties                                                              *)
(***************************************************************************)
\* alps_get_bitmap_points, a pointer walk over the bits that switches from
\* low to high at the end of the first run, finds the first and the last
\* maximal run of each map it is given, and counts every run as a finger.
BitmapPointsMatchRuns ==
    /\ get_bitmap_points(xmap) = RefPoints(xmap, XBits)
    /\ get_bitmap_points(ymap) = RefPoints(ymap, YBits)

\* The second-touch coordinates processBitmap reports lie inside the
\* device's range 0..x_max, 0..y_max, for every map of x_bits and y_bits
\* bits, after the axis reversal of the protocol.
CornersInRange ==
    corner /= <<>> => corner[1] \in 0..XMax /\ corner[2] \in 0..YMax

\* When processBitmap selects the second-touch corner (second_touch was
\* -1), it takes a corner of the bounding box farthest from the primary
\* touch, so the two reported contacts span the box.
SecondTouchFarthest ==
    [][event' = "bitmap" /\ second_touch = -1 /\ second_touch' /= -1 =>
        LET cs == Corners(xmap', ymap')
        IN  \A j \in 0..3 :
                SquaredDistance(cs[second_touch'], fx', fy')
                    >= SquaredDistance(cs[j], fx', fy')]_vars
=============================================================================
