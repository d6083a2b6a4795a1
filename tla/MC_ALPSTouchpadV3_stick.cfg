\* The same pad: a trackstick button pressed and released while the stick
\* rests, with no touchpad packet in between.
CONSTANTS
    ZFinger = 30
    ZLimit = 127
    Ledge = 2
    Redge = 4
    Tedge = 6
    Bedge = 4
    TapThreshX = 3
    TapThreshY = 3
    DblThreshX = 5
    DblThreshY = 5
    MaxTapTime = 1
    MaxDblTapTime = 1
    MaxDragTime = 1
    Clicking = TRUE
    Dragging = TRUE
    DragLock = FALSE
    RTap = TRUE
    ImmediateClick = FALSE
    SwapDoubleTriple = FALSE
    DragExit = TRUE
    Scroll = FALSE
    HScroll = TRUE
    VScrollDivisor = TRUE
    HScrollDivisor = TRUE
    CScrollDivisor = TRUE
    CTrigger = 2
    VSticky = FALSE
    HSticky = FALSE
    WSticky = FALSE
    MomentumScroll = TRUE
    Xs = {0}
    Ys = {0}
    Zs = {0, 60}
    MaxFingers = 2
    Modifiers = {FALSE, TRUE}
    XBits = 3
    YBits = 2
    XMax = 40
    YMax = 30
    Proto = "V3"
    MapPairs <- MCMapPairs
    StickKeys = {"left"}
    TsKeys = {}
SPECIFICATION SpecV3
PROPERTY TrackstickReleaseReported
