---------------------------- MODULE PullToPrivate ----------------------------
(***************************************************************************)
(* The card's corner that is peeled into private mode, and the swipe that  *)
(* leaves it: pointer events, animation frames, a timer and React's        *)
(* deferred state write the classes of the document between them.          *)
(***************************************************************************)
EXTENDS Naturals

CONSTANT MaxGestures    \* bound: gestures begun, and exits forced by another account or network

VARIABLES
    hook,           \* the refs and the state of the hook, see Unpeeled
    root,           \* the classes of the document, and --ghost-progress
    gestures,
    cutShort        \* history: an exit was forced before React had rendered the entry

pullVars == <<hook, root, gestures, cutShort>>

Unpeeled ==
    [active |-> FALSE, wanted |-> FALSE,       \* the state as rendered, and as last set
     committing |-> FALSE, shiftTimer |-> FALSE,
     peelStart |-> FALSE, swipeStart |-> FALSE,
     far |-> FALSE,                            \* dragDist has reached COMMIT_DIST
     anim |-> "none",                          \* animRef: "peek", "back" or "commit"
     hovered |-> FALSE]                        \* the pointer is on the corner
Public == [shifting |-> FALSE, dragging |-> FALSE, private |-> FALSE, ghost |-> "none"]
PullInit == hook = Unpeeled /\ root = Public /\ gestures = 0 /\ cutShort = FALSE

Begin == gestures < MaxGestures /\ gestures' = gestures + 1 /\ UNCHANGED cutShort
Continue == UNCHANGED <<gestures, cutShort>>

\* The deferred removal runs only when nothing is peeled and nothing begins.
NothingPeeled == ~hook.committing /\ root.ghost = "none" /\ ~hook.peelStart
ShiftDropped == [root EXCEPT !.shifting = @ /\ ~NothingPeeled]

----------------------------------------------------------------------------
(* The corner, which private-active hides *)

onPointerDown ==
    /\ ~root.private /\ ~hook.peelStart /\ Begin
    /\ IF hook.active \/ hook.committing
       THEN hook' = [hook EXCEPT !.shiftTimer = FALSE] /\ UNCHANGED root
       ELSE /\ hook' = [hook EXCEPT !.shiftTimer = FALSE, !.anim = "none", !.peelStart = TRUE, !.far = FALSE]
            /\ root' = [root EXCEPT !.shifting = TRUE, !.dragging = TRUE]

onPointerMove ==
    /\ hook.peelStart /\ Continue
    /\ hook' = [hook EXCEPT !.far = ~@] /\ UNCHANGED root

\* Also when the pointer is cancelled or its capture lost
onPointerUp ==
    /\ hook.peelStart /\ Continue
    /\ IF hook.far
       THEN \* enter, commitPeel
            /\ hook' = [hook EXCEPT !.peelStart = FALSE, !.committing = TRUE, !.shiftTimer = FALSE,
                                    !.wanted = TRUE, !.anim = "commit"]
            /\ root' = [shifting |-> TRUE, dragging |-> FALSE, private |-> TRUE, ghost |-> "full"]
       ELSE /\ hook' = [hook EXCEPT !.peelStart = FALSE, !.anim = "back"]
            /\ root' = [root EXCEPT !.dragging = FALSE]

\* mutant of Armed: the removal scheduled at the exit is not called off
ArmedLate(h) == [h EXCEPT !.anim = "peek"]
Armed(h) == [h EXCEPT !.anim = "peek", !.shiftTimer = FALSE]

Unmoved == ~hook.active /\ ~hook.committing /\ ~hook.peelStart
onPeekEnter ==
    /\ ~root.private /\ ~hook.hovered /\ Begin
    /\ hook' = [(IF Unmoved THEN Armed(hook) ELSE hook) EXCEPT !.hovered = TRUE]
    /\ root' = [root EXCEPT !.shifting = @ \/ Unmoved]
\* The corner is left, or hidden under the pointer.
onPeekLeave ==
    /\ hook.hovered /\ Continue
    /\ hook' = [hook EXCEPT !.hovered = FALSE, !.anim = IF Unmoved THEN "back" ELSE @]
    /\ UNCHANGED root

\* The last frame of an animation
AnimationEnds ==
    /\ hook.anim # "none" /\ Continue
    /\ hook' = [hook EXCEPT !.anim = "none"]
    /\ root' = IF hook.anim = "back" THEN ShiftDropped ELSE root
ShiftTimerFires ==
    /\ hook.shiftTimer /\ Continue
    /\ hook' = [hook EXCEPT !.shiftTimer = FALSE] /\ root' = ShiftDropped

\* The layout effect on active
Render ==
    /\ hook.wanted # hook.active /\ Continue
    /\ IF hook.wanted
       THEN /\ hook' = [hook EXCEPT !.active = TRUE, !.shiftTimer = FALSE, !.committing = FALSE]
            /\ root' = [root EXCEPT !.shifting = TRUE, !.private = TRUE, !.ghost = "full"]
       ELSE /\ hook' = [hook EXCEPT !.active = FALSE, !.shiftTimer = TRUE]
            /\ root' = [root EXCEPT !.private = FALSE, !.ghost = "none"]

----------------------------------------------------------------------------
(* The handle at the bottom, mounted while private mode is active *)

Exited(h) == [h EXCEPT !.committing = FALSE, !.wanted = FALSE]

onSwipeDown ==
    /\ hook.active /\ ~hook.swipeStart /\ Begin
    /\ hook' = [hook EXCEPT !.swipeStart = TRUE] /\ root' = [root EXCEPT !.dragging = TRUE]
onSwipeMove ==
    /\ hook.active /\ hook.swipeStart /\ Continue
    /\ \/ hook' = [Exited(hook) EXCEPT !.swipeStart = FALSE] /\ root' = [root EXCEPT !.dragging = FALSE]
       \/ UNCHANGED hook /\ \E ghost \in {"none", "low", "high", "full"} : root' = [root EXCEPT !.ghost = ghost]

\* mutant of Returned: a swipe that is not finished leaves the palette where it is
ReturnedNot(r) == r
Returned(r) == [r EXCEPT !.ghost = "full"]
onSwipeUp ==
    /\ hook.active /\ hook.swipeStart /\ Continue
    /\ LET lifted == [root EXCEPT !.dragging = FALSE]
           through == root.ghost \in {"none", "low"}
       IN  /\ hook' = [(IF through THEN Exited(hook) ELSE hook) EXCEPT !.swipeStart = FALSE]
           /\ root' = IF through THEN lifted ELSE Returned(lifted)

\* Another account or network
exit ==
    /\ gestures < MaxGestures /\ gestures' = gestures + 1
    /\ hook' = Exited(hook) /\ UNCHANGED root
    /\ cutShort' = (cutShort \/ hook.committing)

PullNext ==
    \/ onPointerDown \/ onPointerMove \/ onPointerUp \/ onPeekEnter \/ onPeekLeave
    \/ AnimationEnds \/ ShiftTimerFires \/ Render
    \/ onSwipeDown \/ onSwipeMove \/ onSwipeUp \/ exit
PullSpec == PullInit /\ [][PullNext]_pullVars

----------------------------------------------------------------------------
\* When nothing is in progress the palette is that of the mode: private with
\* its classes, or public with none left behind.
PaletteMatches ==
    LET resting == /\ hook.wanted = hook.active /\ hook.anim = "none" /\ ~hook.shiftTimer
                   /\ ~hook.peelStart /\ ~hook.hovered /\ ~(hook.swipeStart /\ hook.active)
    IN  resting /\ ~cutShort =>
            /\ root.private = hook.active /\ root.shifting = hook.active
            /\ root.ghost = (IF hook.active THEN "full" ELSE "none")

\* A fold on the screen, and private mode, have the private palette under them.
PaletteArmed ==
    hook.peelStart \/ hook.active \/ hook.committing \/ hook.anim = "peek" => root.shifting

\* The palette follows the mode and what is on the way to it.
PaletteInv == PaletteMatches /\ PaletteArmed
==============================================================================
