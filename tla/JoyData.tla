------------------------------ MODULE JoyData ------------------------------
(***************************************************************************)
(* The message that crosses the wire between the Python brain and the C++  *)
(* bridge (JoyData.idl, JoyData.hpp), the three operating modes, and the   *)
(* velocity arithmetic of both ends.                                       *)
(*                                                                         *)
(* Velocities are integers in hundredths of m/s (rad/s for the yaw axis):  *)
(* the publisher rounds to two decimals before it writes.  NaN is the one  *)
(* float that is not a number and compares FALSE with everything.          *)
(***************************************************************************)
EXTENDS Integers

CONSTANT NaN

ASSUME NaNAssumption == NaN \notin Int

MODE_SLEEP == 0
MODE_STAND == 1
MODE_MOVE  == 4

Modes == {MODE_SLEEP, MODE_STAND, MODE_MOVE}

\* The three axes the bridge reads: axes[1], axes[0] and axes[3].
Axis == {"vx", "vy", "wz"}

\* MAX_VX, MAX_VY and MAX_WZ.
MaxSpeed == [vx |-> 50, vy |-> 40, wz |-> 80]

Float == Int \cup {NaN}

Zero == [a \in Axis |-> 0]

\* What a valid sample carries: three raw axis values, and the modes whose
\* button (buttons[0], [1], [2]) reads 1.
Frame == [axes : [Axis -> Float], pressed : SUBSET Modes]

----------------------------------------------------------------------------
(* IEEE comparison, and std::min / std::max / clamp built on it.            *)

Less(x, y) == x # NaN /\ y # NaN /\ x < y

StdMin(x, y) == IF Less(y, x) THEN y ELSE x
StdMax(x, y) == IF Less(x, y) THEN y ELSE x

\* Mutant: the other argument order, which keeps NaN.
clamp_Swapped(v, lo, hi) == StdMax(StdMin(v, hi), lo)

clamp(v, lo, hi) == StdMax(lo, StdMin(hi, v))

\* The hard clamp of the three axes.
Limited(axes) == [a \in Axis |-> clamp(axes[a], -MaxSpeed[a], MaxSpeed[a])]

\* A velocity inside the limits of every axis.
Bounded == {v \in [Axis -> Int] : \A a \in Axis : v[a] \in -MaxSpeed[a] .. MaxSpeed[a]}

\* Mutant: the index of the pressed button instead of the id of its mode.
RequestedMode_Index(frame, held) ==
    CASE MODE_SLEEP \in frame.pressed -> 0
      [] MODE_SLEEP \notin frame.pressed /\ MODE_STAND \in frame.pressed -> 1
      [] frame.pressed = {MODE_MOVE} -> 2
      [] OTHER -> held

\* The mode a frame asks for: the first pressed button in the order sleep,
\* stand, move, and the held mode when none is pressed.
RequestedMode(frame, held) ==
    CASE MODE_SLEEP \in frame.pressed -> MODE_SLEEP
      [] MODE_SLEEP \notin frame.pressed /\ MODE_STAND \in frame.pressed -> MODE_STAND
      [] frame.pressed = {MODE_MOVE} -> MODE_MOVE
      [] OTHER -> held
=============================================================================
