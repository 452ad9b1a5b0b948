----------------------------- MODULE Publisher -----------------------------
(***************************************************************************)
(* The heartbeat thread of brain.py and the DDSPublisher of                *)
(* dds_publisher.py: every period the thread copies the robot state under  *)
(* the lock and writes it to the topic as a joystick frame.  A mode is     *)
(* announced by a simulated click: its button reads 1 in the HoldFrames    *)
(* frames after the mode changed, and in no later one.                     *)
(*                                                                         *)
(* The brain is open here: it puts any command of Commands in the robot    *)
(* state at any time.  The writer is open too: publish_movement fixes the  *)
(* frame, and a composition says where it goes.                            *)
(***************************************************************************)
EXTENDS JoyData

CONSTANTS
    Commands,       \* the robot states the brain sets
    Asleep,         \* the initial robot state
    HoldFrames,     \* the frames a click lasts
    SleepTicks,     \* time.sleep(0.02), its lower bound
    MaxSleep,       \* the longest that sleep takes
    MaxWork         \* the longest a copy waits to be written

\* A robot state, as far as the publisher reads it: any integer passes for a
\* mode, and the velocities are in hundredths.
Command == [mode : Int, vel : [Axis -> Int]]

VARIABLES
    current_robot_state,
    thread,             \* where the heartbeat thread is
    state_snapshot,
    last_mode,          \* the mode last clicked; -1 before the first frame
    button_hold_ticks,  \* frames the button is still held
    beat                \* time since the thread began to sleep or took its copy

vars == <<current_robot_state, thread, state_snapshot, last_mode,
          button_hold_ticks, beat>>

Max0(n) == IF n > 0 THEN n ELSE 0

\* np.clip of a number.
clip(v, max) == IF v < -max THEN -max ELSE IF v > max THEN max ELSE v

\* Mutant: velocities are sent in every mode.
Wire_AnyMode(cmd) == [a \in Axis |-> -clip(cmd.vel[a], MaxSpeed[a])]

\* The axes of a command: inverted, clipped, and zero outside MOVE.
Wire(cmd) ==
    [a \in Axis |-> IF cmd.mode = MODE_MOVE THEN -clip(cmd.vel[a], MaxSpeed[a]) ELSE 0]

\* Mutant: a click lasts one frame.
Held_Once(cmd) == IF cmd.mode # last_mode THEN 1 ELSE button_hold_ticks

\* The frames still to be clicked, the coming one included.
Held(cmd) == IF cmd.mode # last_mode THEN HoldFrames ELSE button_hold_ticks

\* The frame publish_movement writes; a mode without a button clicks nothing.
FrameOf(cmd) ==
    [axes |-> Wire(cmd), pressed |-> IF Held(cmd) > 0 THEN {cmd.mode} \cap Modes ELSE {}]

----------------------------------------------------------------------------
Init ==
    /\ current_robot_state = Asleep
    /\ thread = "off" /\ beat = 0
    /\ state_snapshot = Asleep
    /\ last_mode = -1 /\ button_hold_ticks = 0

\* brain.py is imported: the writer is created and the thread started.
Start ==
    /\ thread = "off"
    /\ thread' = "sleep"
    /\ beat' = SleepTicks
    /\ UNCHANGED <<current_robot_state, state_snapshot, last_mode, button_hold_ticks>>

\* The brain swaps the robot state, under the lock.
SetState(cmd) ==
    /\ thread # "off"
    /\ current_robot_state' = cmd
    /\ UNCHANGED <<thread, state_snapshot, last_mode, button_hold_ticks, beat>>

\* Mutant: a new copy is taken when the mode changed only.
Copy_NewMode ==
    /\ thread = "sleep" /\ beat >= SleepTicks
    /\ thread' = "publish"
    /\ state_snapshot' = IF current_robot_state.mode # state_snapshot.mode
                         THEN current_robot_state ELSE state_snapshot
    /\ beat' = 0
    /\ UNCHANGED <<current_robot_state, last_mode, button_hold_ticks>>

\* The thread wakes up and copies the robot state, under the lock.
Copy ==
    /\ thread = "sleep" /\ beat >= SleepTicks
    /\ thread' = "publish"
    /\ state_snapshot' = current_robot_state
    /\ beat' = 0
    /\ UNCHANGED <<current_robot_state, last_mode, button_hold_ticks>>

\* Mutant: the countdown is not guarded.
publish_movement_NoFloor ==
    /\ thread = "publish"
    /\ last_mode' = state_snapshot.mode
    /\ button_hold_ticks' = Held(state_snapshot) - 1
    /\ beat' = 0
    /\ UNCHANGED <<current_robot_state, state_snapshot>>

\* publish_movement(state_snapshot), up to the write of its frame.
publish_movement ==
    /\ thread = "publish"
    /\ last_mode' = state_snapshot.mode
    /\ button_hold_ticks' = Max0(Held(state_snapshot) - 1)
    /\ beat' = 0
    /\ UNCHANGED <<current_robot_state, state_snapshot>>

\* The frame is written, and the thread sleeps.
Publish == publish_movement /\ thread' = "sleep"

\* The write raises: nothing catches it, and the thread ends.
PublishThrows == publish_movement /\ thread' = "dead"

\* The process ends, the daemon thread with it; nothing is persisted.
Exit ==
    /\ thread # "off"
    /\ thread' = "off" /\ beat' = 0
    /\ current_robot_state' = Asleep /\ state_snapshot' = Asleep
    /\ last_mode' = -1 /\ button_hold_ticks' = 0

\* Time may pass: the thread is within the bounds of its phase.
OnTime ==
    /\ thread = "sleep" => beat < MaxSleep
    /\ thread = "publish" => beat < MaxWork

Tick ==
    /\ OnTime
    /\ beat' = IF thread \in {"sleep", "publish"} THEN beat + 1 ELSE beat
    /\ UNCHANGED <<current_robot_state, thread, state_snapshot, last_mode, button_hold_ticks>>
=============================================================================
