------------------------------ MODULE PipDrag ------------------------------
(***************************************************************************)
(* The draggable preview of one's own camera: client/services/pip-drag.ts, *)
(* set up and cleaned up by CallScreen, which also hides and shows it.  A  *)
(* point is [x, y]; the viewport and the container of the video are one,   *)
(* and turn with the device.  The handlers read the size of the video each *)
(* time: it is the style sheet's for such a viewport, and nothing while    *)
(* the preview is hidden.  (A call without a camera never shows it.)       *)
(***************************************************************************)
EXTENDS Integers

CONSTANTS
    Sizes,         \* the containers there are: [x, y] sizes
    MobileVideo,   \* offsetWidth and offsetHeight of the video on a narrow viewport
    DesktopVideo,  \* and on a wide one
    EdgeMargin,
    MobileBottom,  \* MOBILE_BOTTOM_MARGIN
    MobileBelow,   \* the width of isMobileViewport
    Pointers       \* bound: where the pointer goes

ASSUME PipNumbers ==
    /\ Sizes \subseteq [x : Nat, y : Nat]
    /\ MobileVideo \in [x : Nat, y : Nat] /\ DesktopVideo \in [x : Nat, y : Nat]
    /\ EdgeMargin \in Nat /\ MobileBottom \in Nat /\ MobileBelow \in Nat
    /\ Pointers \subseteq [x : Int, y : Int]

Nothing == [x |-> 0, y |-> 0]

\* isMobileViewport, which is also the style sheet's condition.
Mobile(size) == size.x < MobileBelow

Extent(size, off) ==
    IF off THEN Nothing ELSE IF Mobile(size) THEN MobileVideo ELSE DesktopVideo

BottomMargin(size) == IF Mobile(size) THEN MobileBottom ELSE EdgeMargin

\* The container has room for the video and its margins.
ASSUME PipSizes ==
    \A s \in Sizes :
        /\ s.x >= Extent(s, FALSE).x + 2 * EdgeMargin
        /\ s.y >= Extent(s, FALSE).y + EdgeMargin + BottomMargin(s)

VARIABLES
    container,  \* its size now
    attached,   \* videoElement is set, and the listeners with it
    hidden,     \* screen.pipHidden: the video is not displayed
    dragging,   \* isDragging
    position,   \* style.left and style.top
    pointer,    \* startX and startY
    initial,    \* initialLeft and initialTop
    resized,    \* read by no code: the container was resized during the drag
    blind       \* read by no code: the position was computed while the video was hidden

pipVars == <<container, attached, hidden, dragging, position, pointer, initial, resized, blind>>

Origin == Nothing  \* style.left and style.top not set

-----------------------------------------------------------------------------
\* getBounds; the insets of a notch only add to the margins.
Lowest == [x |-> EdgeMargin, y |-> EdgeMargin]
Highest(size, off) ==
    [x |-> size.x - Extent(size, off).x - EdgeMargin,
     y |-> size.y - Extent(size, off).y - BottomMargin(size)]

\* getClosestCorner and getCornerPosition: the side on which twice the centre is of the size.
CornerOn(size, at, axis) ==
    IF 2 * at[axis] + Extent(size, hidden)[axis] < size[axis]
    THEN Lowest[axis]
    ELSE Highest(size, hidden)[axis]
ClosestCorner(size, at) == [x |-> CornerOn(size, at, "x"), y |-> CornerOn(size, at, "y")]

Least(v, w) == IF v < w THEN v ELSE w
Greatest(v, w) == IF v > w THEN v ELSE w

Unclamped(axis, v) == v  \* mutant
Clamp(axis, v) == Greatest(Lowest[axis], Least(Highest(container, hidden)[axis], v))

PipInit ==
    /\ container \in Sizes
    /\ attached = FALSE
    /\ hidden = FALSE
    /\ dragging = FALSE
    /\ position = Origin
    /\ pointer = Origin
    /\ initial = Origin
    /\ resized = FALSE
    /\ blind = FALSE

-----------------------------------------------------------------------------
\* resetPipPosition: the corner at the bottom right.
ResetPipPosition == Highest(container, FALSE)

\* setupPipDrag, when a call begins and shows the preview; again for the same element it does
\* nothing.
SetupPipDrag ==
    /\ ~attached
    /\ attached' = TRUE
    /\ hidden' = FALSE
    /\ position' = ResetPipPosition
    /\ blind' = FALSE
    /\ UNCHANGED <<container, dragging, pointer, initial, resized>>

CleanupPipDrag ==
    /\ attached
    /\ attached' = FALSE
    /\ dragging' = FALSE
    /\ position' = Origin
    /\ resized' = FALSE
    /\ blind' = FALSE
    /\ UNCHANGED <<container, hidden, pointer, initial>>

\* TOGGLE_PIP_VISIBILITY: no handler hears of it.
TogglePip ==
    /\ attached
    /\ hidden' = ~hidden
    /\ UNCHANGED <<container, attached, dragging, position, pointer, initial, resized, blind>>

\* A pointer that is not primary is ignored by all the handlers; none goes down on what is hidden.
PointerDown(at) ==
    /\ attached
    /\ ~hidden
    /\ dragging' = TRUE
    /\ pointer' = at
    /\ initial' = position
    /\ resized' = (dragging /\ resized)
    /\ UNCHANGED <<container, attached, hidden, position, blind>>

PointerMove(at) ==
    /\ attached
    /\ dragging
    /\ position' = [x |-> Clamp("x", initial.x + at.x - pointer.x),
                    y |-> Clamp("y", initial.y + at.y - pointer.y)]
    /\ resized' = FALSE
    /\ blind' = hidden
    /\ UNCHANGED <<container, attached, hidden, dragging, pointer, initial>>

\* pointerup and pointercancel: both snap.
Snapped == ClosestCorner(container, position)

PointerEnd ==
    /\ attached
    /\ dragging
    /\ dragging' = FALSE
    /\ position' = Snapped
    /\ resized' = FALSE
    /\ blind' = hidden
    /\ UNCHANGED <<container, attached, hidden, pointer, initial>>

\* handleResize leaves a drag alone.
Resize(size) ==
    /\ size # container
    /\ container' = size
    /\ IF attached /\ ~dragging
       THEN position' = ClosestCorner(size, position) /\ blind' = hidden
       ELSE UNCHANGED <<position, blind>>
    /\ resized' = (resized \/ dragging)
    /\ UNCHANGED <<attached, hidden, dragging, pointer, initial>>

PipNext ==
    \/ SetupPipDrag
    \/ CleanupPipDrag
    \/ TogglePip
    \/ \E at \in Pointers : PointerDown(at) \/ PointerMove(at)
    \/ PointerEnd
    \/ \E size \in Sizes : Resize(size)

PipSpec == PipInit /\ [][PipNext]_pipVars

-----------------------------------------------------------------------------
(* Type invariant *)
Point == [x : Int, y : Int]
PipTypeOK ==
    /\ container \in Sizes
    /\ attached \in BOOLEAN /\ hidden \in BOOLEAN
    /\ dragging \in BOOLEAN /\ resized \in BOOLEAN /\ blind \in BOOLEAN
    /\ position \in Point /\ pointer \in Point /\ initial \in Point
    /\ dragging => attached

InCorner ==
    /\ position.x \in {Lowest.x, Highest(container, FALSE).x}
    /\ position.y \in {Lowest.y, Highest(container, FALSE).y}

Inside ==
    \A axis \in {"x", "y"} : position[axis] \in Lowest[axis] .. Highest(container, FALSE)[axis]

(***************************************************************************)
(* Whatever sequence of drags, cancelled drags, rotations that change the  *)
(* size of the video too, hiding, showing and clean-ups: the preview (at   *)
(* the place where it is shown again, if it is hidden) is at rest in a     *)
(* corner of the container as it is now, and while it is dragged it stays  *)
(* within the margins (until the next move, if the container is resized    *)
(* meanwhile); unless its position was last computed while it was hidden.  *)
(***************************************************************************)
PreviewInView == attached /\ ~blind => InCorner \/ (dragging /\ (resized \/ Inside))
=============================================================================
