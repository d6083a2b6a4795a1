\* The V1/V2, V3 and V4 decoders over the gesture state machine with
\* tapping, dragging, edge scrolling, drag exit delay and rtap on; a
\* dual-point V1/V2 pad and a V4 line that may drop one packet.
CONSTANTS
    ZFinger = 30
    ZLimit = 127
    Ledge = 2
    Redge = 3
    Tedge = 6
    Bedge = 4
    TapThreshX = 3
    TapThreshY = 3
    DblThreshX = 5
    DblThreshY = 5
    MaxTapTime = 1
    MaxDblTapTime = 1
    MaxDragTime = 1
    Clicking = TRUE
    Dragging = TRUE
    DragLock = FALSE
    RTap = TRUE
    ImmediateClick = FALSE
    SwapDoubleTriple = FALSE
    DragExit = TRUE
    Scroll = TRUE
    HScroll = TRUE
    VScrollDivisor = TRUE
    HScrollDivisor = TRUE
    CScrollDivisor = TRUE
    CTrigger = 2
    VSticky = FALSE
    HSticky = FALSE
    WSticky = FALSE
    MomentumScroll = TRUE
    Xs = {0, 4}
    Ys = {0}
    Zs = {0, 30, 60, 98, 127}
    MaxFingers = 3
    Modifiers = {FALSE, TRUE}
    DualPoint = TRUE
    MaxLost = 1
    BitmapContacts = {1}
    Protos = {"V1V2", "V3", "V4"}
SPECIFICATION SpecAll
INVARIANTS
    TypeOKAll
    DragTimerOnlyInDragNoTouchMT
    BitmapFromOneFrame
PROPERTIES
    DragExitReleasesAll
    TapClicksMT
