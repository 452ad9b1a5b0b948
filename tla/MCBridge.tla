----------------------------- MODULE MCBridge -----------------------------
(***************************************************************************)
(* Finite instance of Bridge: one frame per case the handler tells apart.  *)
(***************************************************************************)
EXTENDS Bridge

Axes(x, y, w) == [vx |-> x, vy |-> y, wz |-> w]

Stop == Axes(0, 0, 0)
Walk == Axes(-20, 0, 0)
OverLimit == Axes(0, 90, -81)
NotANumber == Axes(NaN, 0, 0)

\* Each button and none, two buttons at once, and each kind of velocity.
MCFrames ==
    [axes : {Stop, Walk}, pressed : {{}, {MODE_MOVE}}]
    \cup [axes : {Stop}, pressed : {{MODE_SLEEP}, {MODE_STAND}}]
    \cup [axes : {Walk}, pressed : {{MODE_STAND, MODE_MOVE}}]
    \cup [axes : {OverLimit, NotANumber}, pressed : {{MODE_MOVE}}]

\* Without the velocities that only the clamp tells apart.
MCFewFrames ==
    [axes : {Stop, Walk}, pressed : {{}, {MODE_SLEEP}, {MODE_MOVE}}]
=============================================================================
