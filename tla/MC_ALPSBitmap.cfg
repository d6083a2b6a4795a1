\* A V3 pad with 5 x bins and 3 y bins: x maps reach three runs, y maps
\* two; the primary touch on the top edge, left and right.
CONSTANTS
    XBits = 5
    YBits = 3
    XMax = 40
    YMax = 30
    Proto = "V3"
    Xs = {0, 40}
    Ys = {30}
SPECIFICATION Spec
INVARIANTS
    TypeOK
    BitmapPointsMatchRuns
    CornersInRange
PROPERTIES
    SecondTouchFarthest
