--------------------------- MODULE DeadManSwitch ---------------------------
(***************************************************************************)
(* What the C++ bridge promises, and nothing of how: while it is alive, the *)
(* machine may begin to move only shortly after a message was heard, and   *)
(* cannot still be moving when nothing was heard for longer than Deadline. *)
(***************************************************************************)
EXTENDS Integers

CONSTANTS
    Deadline,   \* the longest motion outlives the last message
    Grace,      \* the longest a message can still start motion
    Horizon     \* bound: quiet saturates here

VARIABLES
    alive,      \* the controlling process runs
    moving,     \* the machine moves
    quiet       \* time since the last message

vars == <<alive, moving, quiet>>

Init == ~alive /\ ~moving /\ quiet = 0

\* The process starts to control a machine that stands still.
Start ==
    /\ ~alive /\ ~moving /\ alive'
    /\ quiet' = 0
    /\ UNCHANGED moving

\* A message is heard, and acted on or not.
Hear ==
    /\ alive
    /\ quiet' = 0
    /\ moving' \in BOOLEAN
    /\ UNCHANGED alive

\* A message just heard starts motion.
Go ==
    /\ alive
    /\ quiet <= Grace
    /\ moving'
    /\ UNCHANGED <<alive, quiet>>

\* The machine is stopped, alive or while the process is started again.
Stop ==
    /\ ~moving'
    /\ UNCHANGED <<alive, quiet>>

\* The process ends; a crash leaves the machine as it is and forgets the time.
Die ==
    /\ alive /\ ~alive'
    /\ moving' => moving
    /\ quiet' = 0

\* Time passes, never beyond the deadline of a moving machine.
Pass ==
    /\ alive
    /\ moving => quiet < Deadline
    /\ quiet' = IF quiet < Horizon THEN quiet + 1 ELSE quiet
    /\ UNCHANGED <<alive, moving>>

Next == Start \/ Hear \/ Go \/ Stop \/ Die \/ Pass

Spec == Init /\ [][Next]_vars
=============================================================================
