\* A V4 pad on a clean line whose bitmap frames encode one or two
\* contacts.
CONSTANTS
    ZFinger = 30
    ZLimit = 127
    Ledge = 2
    Redge = 4
    Tedge = 6
    Bedge = 4
    TapThreshX = 3
    TapThreshY = 3
    DblThreshX = 5
    DblThreshY = 5
    MaxTapTime = 1
    MaxDblTapTime = 1
    MaxDragTime = 1
    Clicking = TRUE
    Dragging = TRUE
    DragLock = FALSE
    RTap = TRUE
    ImmediateClick = FALSE
    SwapDoubleTriple = FALSE
    DragExit = TRUE
    Scroll = FALSE
    HScroll = TRUE
    VScrollDivisor = TRUE
    HScrollDivisor = TRUE
    CScrollDivisor = TRUE
    CTrigger = 2
    VSticky = FALSE
    HSticky = FALSE
    WSticky = FALSE
    MomentumScroll = TRUE
    Xs = {0, 4}
    Ys = {0}
    Zs = {0, 60}
    MaxFingers = 3
    Modifiers = {FALSE, TRUE}
    DualPoint = TRUE
    MaxLost = 0
    BitmapContacts = {1, 2}
    Protos = {"V4"}
SPECIFICATION SpecAll
PROPERTY
    V4BitmapFingersReported
