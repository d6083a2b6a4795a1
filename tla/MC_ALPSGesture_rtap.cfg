\* Two-finger taps on a V3 touchpad with rtap on.
CONSTANTS
    ZFinger = 30
    ZLimit = 127
    Ledge = 2
    Redge = 4
    Tedge = 6
    Bedge = 4
    TapThreshX = 3
    TapThreshY = 3
    DblThreshX = 5
    DblThreshY = 5
    MaxTapTime = 1
    MaxDblTapTime = 1
    MaxDragTime = 2
    Clicking = TRUE
    Dragging = TRUE
    DragLock = FALSE
    RTap = TRUE
    ImmediateClick = FALSE
    SwapDoubleTriple = FALSE
    DragExit = TRUE
    Scroll = FALSE
    HScroll = TRUE
    VScrollDivisor = TRUE
    HScrollDivisor = TRUE
    CScrollDivisor = TRUE
    CTrigger = 2
    VSticky = FALSE
    HSticky = FALSE
    WSticky = FALSE
    MomentumScroll = TRUE
    Xs = {0, 4, 8}
    Ys = {0}
    Zs = {0, 20, 30, 60, 126, 127}
    MaxFingers = 2
    Modifiers = {FALSE, TRUE}
SPECIFICATION Spec
PROPERTIES
    SecondaryTapClicks
