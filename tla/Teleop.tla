------------------------------ MODULE Teleop ------------------------------
(***************************************************************************)
(* The path of a command: robot state, heartbeat thread, topic, bridge,    *)
(* robot.  Composes Publisher and Bridge over a best-effort link.  A frame *)
(* written while the bridge has a reader and the link is up replaces the   *)
(* one in the reader's cache; any other frame is lost, for nobody writes   *)
(* it again.                                                               *)
(*                                                                         *)
(* Faults says what may go wrong: the bridge may start after the brain     *)
(* ("late") or exit and be restarted ("exit"), and so may the brain        *)
(* ("brain"); the link may go down ("outage"); the write may raise         *)
(* ("write").                                                              *)
(*                                                                         *)
(* The brain is free: the microphone thread and any number of web requests *)
(* set any robot state at any time, back to back if their answers come so. *)
(***************************************************************************)
EXTENDS JoyData

CONSTANTS
    Faults,
    Commands, Asleep, HoldFrames,
    NoSample, InvalidSample,
    WatchdogTicks, SleepTicks, MaxSleep, MaxWork,
    Horizon         \* bound: silence and age saturate here

VARIABLES
    \* Bridge
    pc, g_running, cache, sample, last_mode, watchdog_fired, silence, elapsed, robot, heard,
    \* Publisher
    current_robot_state, thread, state_snapshot, clicked_mode, button_hold_ticks, beat,
    link_up,        \* frames get through
    age             \* history: time since each movement last was the robot state

bridgeVars == <<pc, g_running, cache, sample, last_mode, watchdog_fired,
                silence, elapsed, robot, heard>>
brainVars  == <<current_robot_state, thread, state_snapshot, clicked_mode,
                button_hold_ticks, beat>>
vars == <<bridgeVars, brainVars, link_up, age>>

B == INSTANCE Bridge WITH Frames <- Frame
P == INSTANCE Publisher WITH last_mode <- clicked_mode

\* How long motion can outlive the robot state that commanded it: a copy is
\* written, its frame taken, and the watchdog waits for one that never comes.
StopDeadline == MaxWork + (MaxSleep + MaxWork + MaxWork) + B!Deadline

ASSUME TeleopAssumption ==
    /\ Faults \subseteq {"late", "exit", "brain", "outage", "write"}
    /\ Commands \subseteq P!Command
    /\ Asleep \in P!Command /\ Asleep.mode = MODE_SLEEP
    /\ HoldFrames \in Nat \ {0}
    /\ NoSample \notin Frame /\ InvalidSample \notin Frame /\ NoSample # InvalidSample
    /\ NoSample \notin [Axis -> Float]
    /\ WatchdogTicks \in Nat /\ SleepTicks \in Nat /\ MaxWork \in Nat /\ Horizon \in Nat
    /\ MaxSleep \in Nat /\ SleepTicks <= MaxSleep
    /\ StopDeadline < Horizon

\* The movements among the commands.
Moves == {cmd \in Commands : cmd.mode = MODE_MOVE}

----------------------------------------------------------------------------
Init ==
    /\ B!Init /\ P!Init
    /\ link_up = TRUE
    /\ age = [cmd \in Moves |-> Horizon]

\* A statement of main(), failures among them only if it may exit.
BridgeStep ==
    /\ B!MainStep
    /\ pc' = "failed" => "exit" \in Faults
    /\ UNCHANGED <<brainVars, link_up, age>>

\* A signal, or a new start after an exit.
BridgeRestart ==
    /\ "exit" \in Faults
    /\ B!signal_handler \/ B!Restart
    /\ UNCHANGED <<brainVars, link_up, age>>

BrainStart ==
    /\ "late" \in Faults \/ B!Alive
    /\ P!Start
    /\ UNCHANGED <<bridgeVars, link_up, age>>

\* An answer is applied, or the safe state after a failure.
SetState(cmd) ==
    /\ P!SetState(cmd)
    /\ age' = [move \in Moves |-> IF move = cmd THEN 0 ELSE age[move]]
    /\ UNCHANGED <<bridgeVars, link_up>>

\* The brain's process ends; its reader may be told.
BrainExit ==
    /\ "brain" \in Faults
    /\ P!Exit
    /\ B!WriterGone \/ UNCHANGED bridgeVars
    /\ UNCHANGED <<link_up, age>>

Copy ==
    /\ P!Copy
    /\ UNCHANGED <<bridgeVars, link_up, age>>

\* Mutant: the thread writes what changed only.
Publish_OnChange ==
    /\ P!Publish
    /\ IF link_up /\ B!Alive /\ P!Held(state_snapshot) > 0
          THEN B!Deliver(P!FrameOf(state_snapshot)) ELSE UNCHANGED bridgeVars
    /\ UNCHANGED <<link_up, age>>

\* writer.write(): into the reader's cache, or nowhere.
Publish ==
    /\ P!Publish
    /\ IF link_up /\ B!Alive THEN B!Deliver(P!FrameOf(state_snapshot)) ELSE UNCHANGED bridgeVars
    /\ UNCHANGED <<link_up, age>>

PublishThrows ==
    /\ "write" \in Faults
    /\ P!PublishThrows
    /\ UNCHANGED <<bridgeVars, link_up, age>>

\* The reader loses or finds its writer; a lost one is reported to the reader.
LinkDown ==
    /\ "outage" \in Faults /\ link_up
    /\ link_up' = FALSE
    /\ B!WriterGone \/ UNCHANGED bridgeVars
    /\ UNCHANGED <<brainVars, age>>

LinkUp ==
    /\ ~link_up
    /\ link_up' = TRUE
    /\ UNCHANGED <<bridgeVars, brainVars, age>>

\* One clock for both processes.
Tick ==
    /\ P!Tick
    /\ IF B!Alive THEN B!Tick ELSE UNCHANGED bridgeVars
    /\ age' = [cmd \in Moves |-> IF cmd = current_robot_state \/ age[cmd] = Horizon
                                  THEN age[cmd] ELSE age[cmd] + 1]
    /\ UNCHANGED link_up

Next ==
    \/ BridgeStep \/ BridgeRestart
    \/ BrainStart \/ BrainExit \/ Copy \/ Publish \/ PublishThrows
    \/ \E cmd \in Commands : SetState(cmd)
    \/ LinkDown \/ LinkUp
    \/ Tick

Spec == Init /\ [][Next]_vars

\* Both threads are scheduled and the clock runs.
FairSpec ==
    /\ Spec
    /\ WF_vars(BridgeStep) /\ WF_vars(BrainStart)
    /\ WF_vars(Copy) /\ WF_vars(Publish)
    /\ WF_vars(Tick)

----------------------------------------------------------------------------
(* Properties.                                                              *)

TypeOK ==
    /\ B!TypeOK
    /\ current_robot_state \in P!Command /\ state_snapshot \in P!Command
    /\ thread \in {"off", "sleep", "publish", "dead"}
    /\ clicked_mode \in Int /\ button_hold_ticks \in 0 .. HoldFrames
    /\ beat \in 0 .. MaxSleep \cup 0 .. MaxWork
    /\ link_up \in BOOLEAN
    /\ age \in [Moves -> 0 .. Horizon]

\* Whatever is lost and whoever dies, a living bridge moves the robot only as the
\* robot state said no longer than StopDeadline ago: a stop, a turn or a silence
\* takes effect by a frame, a click or the watchdog.  For one statement, between
\* the transition to MOVE and its velocity, the movement is any recent one's.
MotionIsCurrent ==
    B!Alive /\ B!Moving =>
        \E cmd \in Moves : age[cmd] <= StopDeadline /\ (pc = "velocity" \/ robot.vel = P!Wire(cmd))

\* With a heartbeat that is on time and a link that is up, the watchdog is
\* never mistaken: it does not fire once a frame was heard.
NoFalseAlarm == heard # NoSample => ~watchdog_fired

\* "New State Activated": a robot state that stays in force, on a link that
\* stays up between two processes that stay alive, becomes the robot's mode, and
\* a movement its velocity.
StateActivated ==
    \A cmd \in {c \in Commands : c.mode \in Modes} :
        <>[](current_robot_state = cmd /\ link_up /\ B!Alive /\ thread \in {"sleep", "publish"})
            => <>[](robot.mode = cmd.mode /\ (cmd \in Moves => robot.vel = P!Wire(cmd)))
=============================================================================
