----------------------------- MODULE SleepLock -----------------------------
(***************************************************************************)
(* The sleep lock, seen from the robot.  The rules let the brain walk only *)
(* after it stood up, but the robot sees of a STAND what the reader's      *)
(* one-sample cache leaves of its click: if MOVE comes too soon, it can go *)
(* from SLEEP to MOVE.  Nothing in the code keeps two robot states apart;  *)
(* this module adds two history variables to Teleop, to tell how soon is   *)
(* too soon.  They constrain nothing.                                      *)
(***************************************************************************)
EXTENDS Teleop

VARIABLES
    stay,       \* time since the mode of the robot state changed, up to Settle + 1
    rash        \* whether the latest change to MOVE was from a STAND not yet settled

lockVars == <<vars, stay, rash>>

\* The longest time between two Takes, and the longest from a new robot state to
\* its first frame: a work phase, a sleep and a work phase, in either process.
Pass == MaxWork + (MaxSleep + MaxWork)

\* A STAND is settled once it was the robot state for longer than a frame takes
\* to be written and one to be handled.
Settle == Pass + Pass
Settled == current_robot_state.mode = MODE_STAND /\ stay > Settle

LockInit == Init /\ stay = 0 /\ rash = FALSE

LockSetState(cmd) ==
    /\ SetState(cmd)
    /\ stay' = IF cmd.mode = current_robot_state.mode THEN stay ELSE 0
    /\ rash' = IF cmd \in Moves /\ current_robot_state.mode # MODE_MOVE THEN ~Settled ELSE rash

LockTick ==
    /\ Tick
    /\ stay' = IF stay > Settle THEN stay ELSE stay + 1
    /\ UNCHANGED rash

LockNext ==
    \/ \E cmd \in Commands : LockSetState(cmd)
    \/ LockTick
    \/ /\ \/ BridgeStep \/ BridgeRestart
          \/ BrainStart \/ BrainExit \/ Copy \/ Publish \/ PublishThrows
          \/ LinkDown \/ LinkUp
       /\ UNCHANGED <<stay, rash>>

LockSpec == LockInit /\ [][LockNext]_lockVars

----------------------------------------------------------------------------
(* Property.                                                                *)

\* "The robot CANNOT move if it is currently sleeping", on the robot itself: it
\* goes from SLEEP to MOVE without a STAND between them only if the brain's
\* latest walk was rash.  A STAND that was the robot state for longer than Settle
\* reaches it, whatever was set before, however quickly, and whichever frames of
\* its click are overwritten in the cache; so does a later one after a rash walk.
StandsBeforeWalking ==
    [][robot.mode = MODE_SLEEP /\ robot'.mode = MODE_MOVE => rash]_lockVars
=============================================================================
