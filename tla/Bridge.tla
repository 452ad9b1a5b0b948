------------------------------- MODULE Bridge -------------------------------
(***************************************************************************)
(* subscriber.cpp: the process that takes JoyData_ samples off the topic   *)
(* and drives the robot through the Xterra SDK.  One thread runs main();   *)
(* a signal handler may interrupt it anywhere.  The environment is open:   *)
(* any frame of Frames can reach the reader, at any time.                  *)
(*                                                                         *)
(* Time is discrete.  A pass of the control loop is a work phase, bounded  *)
(* by MaxWork ticks, followed by a sleep phase of SleepTicks to MaxSleep   *)
(* ticks (sleep_for promises only the lower bound).                        *)
(***************************************************************************)
EXTENDS JoyData

CONSTANTS
    Frames,         \* the frames writers put on the topic
    NoSample,       \* an empty reader cache
    InvalidSample,  \* a sample whose info().valid() is false (writer gone)
    WatchdogTicks,  \* WATCHDOG_MS
    SleepTicks,     \* LOOP_SLEEP_MS
    MaxSleep,       \* the longest a sleep phase takes
    MaxWork,        \* the longest a work phase takes
    Horizon         \* bound: the clock of silence saturates here

\* The longest the robot can keep moving after the last message was taken.
Deadline == WatchdogTicks + MaxSleep + MaxWork

ASSUME BridgeAssumption ==
    /\ Frames \subseteq Frame
    /\ NoSample \notin Frame /\ InvalidSample \notin Frame /\ NoSample # InvalidSample
    /\ NoSample \notin [Axis -> Float]
    /\ WatchdogTicks \in Nat /\ SleepTicks \in Nat /\ MaxWork \in Nat /\ Horizon \in Nat
    /\ MaxSleep \in Nat /\ SleepTicks <= MaxSleep
    /\ Deadline < Horizon

VARIABLES
    pc,             \* where main() is
    g_running,      \* the flag the signal handler clears
    cache,          \* the reader's KEEP_LAST(1) history
    sample,         \* the sample the current pass took
    last_mode,      \* the mode main() believes the robot is in
    watchdog_fired,
    silence,        \* steady_clock::now() - last_msg_time
    elapsed,        \* time spent in the current work or sleep phase
    robot,          \* the SDK's last setMode and setVelocity
    heard           \* history: the axes of the last valid sample handled

vars == <<pc, g_running, cache, sample, last_mode, watchdog_fired,
          silence, elapsed, robot, heard>>

WorkPhase == {"loop", "handle", "velocity", "watchdog", "freeze", "park"}
Alive == pc \in WorkPhase \cup {"sleep"}
Exited == {"done", "failed"}

\* The robot walks when it is in MOVE with a velocity that is not zero.
Moving == robot.mode = MODE_MOVE /\ robot.vel # Zero

\* Mutant: a sample of any kind counts as a message in its pass.
WatchdogExpired_AnySample ==
    silence > WatchdogTicks /\ ~watchdog_fired /\ sample = NoSample

\* elapsed > WATCHDOG_MS && !watchdog_fired
WatchdogExpired == silence > WatchdogTicks /\ ~watchdog_fired

setMode(m) == robot' = [robot EXCEPT !.mode = m]
setVelocity(v) == robot' = [robot EXCEPT !.vel = v]

\* Each statement of main() moves the program counter; a phase restarts its clock.
Goto(from, to) == pc = from /\ pc' = to
SamePhase == UNCHANGED elapsed
NewPhase == elapsed' = 0

\* main() returns, and its variables go with it.
Return(from, code) ==
    /\ Goto(from, code)
    /\ cache' = NoSample /\ sample' = NoSample /\ heard' = NoSample
    /\ last_mode' = MODE_STAND
    /\ watchdog_fired' = FALSE
    /\ silence' = 0 /\ elapsed' = 0

----------------------------------------------------------------------------
Init ==
    /\ pc = "boot"
    /\ g_running = TRUE
    /\ cache = NoSample /\ sample = NoSample /\ heard = NoSample
    /\ last_mode = MODE_STAND
    /\ watchdog_fired = FALSE
    /\ silence = 0 /\ elapsed = 0
    /\ robot \in [mode : Modes, vel : {Zero}]

\* comm_manager.init() or joystick.init() fails: main() returns 1.
BootFails ==
    /\ Return("boot", "failed")
    /\ UNCHANGED <<g_running, robot>>

\* Both init() calls succeed, and the robot is put in STAND.
Boot ==
    /\ Goto("boot", "connect")
    /\ setMode(MODE_STAND)
    /\ UNCHANGED <<g_running, cache, sample, last_mode, watchdog_fired, silence,
                   elapsed, heard>>

\* Participant, topic and reader are created; the state tracking starts.
Connect ==
    /\ Goto("connect", "loop")
    /\ last_mode' = MODE_STAND
    /\ watchdog_fired' = FALSE
    /\ silence' = 0
    /\ NewPhase
    /\ UNCHANGED <<g_running, cache, sample, robot, heard>>

\* Creating a DDS entity throws: the handler prints and main() returns 1.
ConnectThrows ==
    /\ Return("connect", "failed")
    /\ UNCHANGED <<g_running, robot>>

\* Mutant: the loop condition is not looked at.
Take_Unchecked ==
    /\ Goto("loop", "handle")
    /\ sample' = cache
    /\ cache' = NoSample
    /\ SamePhase
    /\ UNCHANGED <<g_running, last_mode, watchdog_fired, silence, robot, heard>>

\* while (g_running) { samples = reader.take();
Take ==
    /\ g_running
    /\ Goto("loop", "handle")
    /\ sample' = cache
    /\ cache' = NoSample
    /\ SamePhase
    /\ UNCHANGED <<g_running, last_mode, watchdog_fired, silence, robot, heard>>

\* reader.take() throws out of the loop; the handler returns 1.
TakeThrows ==
    /\ g_running
    /\ Return("loop", "failed")
    /\ UNCHANGED <<g_running, robot>>

\* No sample, or one that is not valid: continue.
SkipSample ==
    /\ sample \notin Frame
    /\ Goto("handle", "watchdog")
    /\ SamePhase
    /\ UNCHANGED <<g_running, cache, sample, last_mode, watchdog_fired, silence, robot, heard>>

\* A valid sample: the watchdog restarts and a requested transition is applied.
HandleSample ==
    /\ sample \in Frame
    /\ Goto("handle", "velocity")
    /\ silence' = 0
    /\ watchdog_fired' = FALSE
    /\ LET requested_mode == RequestedMode(sample, last_mode)
       IN  /\ last_mode' = requested_mode
           /\ IF requested_mode # last_mode THEN setMode(requested_mode) ELSE UNCHANGED robot
    /\ heard' = sample.axes
    /\ SamePhase
    /\ UNCHANGED <<g_running, cache, sample>>

\* Mutant: a zero velocity is taken for "nothing to send".
SendVelocity_NonZero ==
    /\ Goto("velocity", "watchdog")
    /\ IF last_mode = MODE_MOVE /\ Limited(sample.axes) # Zero
          THEN setVelocity(Limited(sample.axes)) ELSE UNCHANGED robot
    /\ SamePhase
    /\ UNCHANGED <<g_running, cache, sample, last_mode, watchdog_fired, silence, heard>>

\* The velocity is forwarded in MOVE only.
SendVelocity ==
    /\ Goto("velocity", "watchdog")
    /\ IF last_mode = MODE_MOVE THEN setVelocity(Limited(sample.axes)) ELSE UNCHANGED robot
    /\ SamePhase
    /\ UNCHANGED <<g_running, cache, sample, last_mode, watchdog_fired, silence, heard>>

\* The watchdog has nothing to do; the pass ends in sleep_for, its sample dropped.
WatchdogQuiet ==
    /\ ~WatchdogExpired
    /\ Goto("watchdog", "sleep")
    /\ sample' = NoSample
    /\ NewPhase
    /\ UNCHANGED <<g_running, cache, last_mode, watchdog_fired, silence, robot, heard>>

\* The watchdog fires: setMode(STAND) ...
WatchdogFires ==
    /\ WatchdogExpired
    /\ Goto("watchdog", "freeze")
    /\ watchdog_fired' = TRUE
    /\ setMode(MODE_STAND)
    /\ SamePhase
    /\ UNCHANGED <<g_running, cache, sample, last_mode, silence, heard>>

\* Mutant: the mode the watchdog set is not recorded.
Freeze_Unrecorded ==
    /\ Goto("freeze", "sleep")
    /\ setVelocity(Zero)
    /\ sample' = NoSample
    /\ NewPhase
    /\ UNCHANGED <<g_running, cache, last_mode, watchdog_fired, silence, heard>>

\* ... then setVelocity(0, 0, 0) and the mode is recorded.
Freeze ==
    /\ Goto("freeze", "sleep")
    /\ setVelocity(Zero)
    /\ last_mode' = MODE_STAND
    /\ sample' = NoSample
    /\ NewPhase
    /\ UNCHANGED <<g_running, cache, watchdog_fired, silence, heard>>

\* sleep_for returns, never before its duration has passed.
Wake ==
    /\ elapsed >= SleepTicks
    /\ Goto("sleep", "loop")
    /\ NewPhase
    /\ UNCHANGED <<g_running, cache, sample, last_mode, watchdog_fired, silence, robot, heard>>

\* g_running is false at the head of the loop: setVelocity(0, 0, 0) ...
Shutdown ==
    /\ ~g_running
    /\ Goto("loop", "park")
    /\ setVelocity(Zero)
    /\ SamePhase
    /\ UNCHANGED <<g_running, cache, sample, last_mode, watchdog_fired, silence, heard>>

\* ... then setMode(SLEEP), comm_manager.shutdown() and return 0.
Park ==
    /\ Return("park", "done")
    /\ setMode(MODE_SLEEP)
    /\ UNCHANGED g_running

\* The operator starts the program again; only the robot remembers.
Restart ==
    /\ pc \in Exited
    /\ pc' = "boot"
    /\ g_running' = TRUE
    /\ UNCHANGED <<cache, sample, last_mode, watchdog_fired, silence, elapsed, robot, heard>>

\* SIGINT or SIGTERM, at any point of main().
signal_handler ==
    /\ pc \notin Exited
    /\ g_running
    /\ g_running' = FALSE
    /\ UNCHANGED <<pc, cache, sample, last_mode, watchdog_fired, silence,
                   elapsed, robot, heard>>

\* DDS puts a frame in the reader's cache; with KEEP_LAST(1) it replaces the
\* frame that was there.
Deliver(frame) ==
    /\ Alive
    /\ cache' = frame
    /\ UNCHANGED <<pc, g_running, sample, last_mode, watchdog_fired, silence,
                   elapsed, robot, heard>>

\* The last writer of the topic disappears: the reader sees a state change
\* without data, unless a frame is still waiting.
WriterGone ==
    /\ Alive
    /\ cache = NoSample
    /\ cache' = InvalidSample
    /\ UNCHANGED <<pc, g_running, sample, last_mode, watchdog_fired, silence,
                   elapsed, robot, heard>>

\* Time passes, within the bounds of the phase main() is in.
Tick ==
    /\ \/ pc \in WorkPhase /\ elapsed < MaxWork
       \/ pc = "sleep" /\ elapsed < MaxSleep
    /\ elapsed' = elapsed + 1
    /\ silence' = IF silence < Horizon THEN silence + 1 ELSE silence
    /\ UNCHANGED <<pc, g_running, cache, sample, last_mode, watchdog_fired, robot, heard>>

\* One step of the main thread.
MainStep ==
    \/ BootFails \/ Boot \/ Connect \/ ConnectThrows
    \/ Take \/ TakeThrows \/ SkipSample \/ HandleSample \/ SendVelocity
    \/ WatchdogQuiet \/ WatchdogFires \/ Freeze \/ Wake
    \/ Shutdown \/ Park

Next ==
    \/ MainStep
    \/ Restart
    \/ signal_handler
    \/ \E frame \in Frames : Deliver(frame)
    \/ WriterGone
    \/ Tick

Spec == Init /\ [][Next]_vars

\* The thread is scheduled and the clock runs; signals, restarts and frames
\* are never promised.
FairSpec == Spec /\ WF_vars(MainStep) /\ WF_vars(Tick)

----------------------------------------------------------------------------
(* Properties.                                                              *)

\* Every variable keeps its type, and each phase stays inside its time bound.
TypeOK ==
    /\ pc \in WorkPhase \cup {"sleep", "boot", "connect"} \cup Exited
    /\ g_running \in BOOLEAN /\ watchdog_fired \in BOOLEAN
    /\ cache \in Frame \cup {NoSample, InvalidSample}
    /\ sample \in Frame \cup {NoSample, InvalidSample}
    /\ heard \in [Axis -> Float] \cup {NoSample}
    /\ last_mode \in Modes
    /\ silence \in 0 .. Horizon
    /\ elapsed \in Nat
    /\ pc \in WorkPhase => elapsed <= MaxWork
    /\ pc = "sleep" => elapsed <= MaxSleep
    /\ robot \in [mode : Modes, vel : [Axis -> Float]]

\* Whatever floats a writer puts on the topic, NaN included, the SDK is never
\* sent a velocity outside the hard limits (the second safety layer).
VelocityBounded == robot.vel \in Bounded

\* While the loop runs, a robot whose last message is older than the deadline
\* does not walk: the watchdog has fired, however passes, messages and clock
\* interleave, and fires again in every later silence.
FrozenWhenSilent == Alive /\ silence > Deadline => ~Moving

\* At the head of a pass the mode main() tracks is the one the SDK was last
\* given, so "only on transition" never suppresses a transition that is due.
ModeMirrored == pc \in {"loop", "handle", "sleep"} => last_mode = robot.mode

\* Between passes a robot in MOVE has the velocity of the newest frame that was
\* handled, clamped: no setpoint survives from before the last stop.
VelocityFresh ==
    pc \in {"loop", "handle", "sleep"} /\ robot.mode = MODE_MOVE =>
        heard # NoSample /\ robot.vel = Limited(heard)

\* The inductive invariant behind the three invariants above: how old the last
\* message can be at each point of a pass while the watchdog has not fired, and
\* what the robot was told at each point.
SilenceBound ==
    /\ pc \in WorkPhase /\ ~watchdog_fired => silence <= WatchdogTicks + MaxSleep + elapsed
    /\ pc = "sleep" /\ ~watchdog_fired => silence <= WatchdogTicks + elapsed
    /\ pc = "velocity" => silence <= elapsed
    /\ ~Alive => silence = 0

FrozenOnceFired ==
    /\ Alive /\ watchdog_fired => robot.mode = MODE_STAND
    /\ pc = "freeze" => watchdog_fired
    /\ pc = "connect" => robot.mode = MODE_STAND
    /\ pc = "park" => robot.vel = Zero

Handled ==
    /\ pc \in {"loop", "handle", "velocity", "watchdog", "sleep"} => last_mode = robot.mode
    /\ pc = "velocity" => sample \in Frame /\ heard = sample.axes /\ ~watchdog_fired
    /\ pc \in {"loop", "handle", "watchdog", "sleep"} /\ robot.mode = MODE_MOVE =>
           heard # NoSample /\ robot.vel = Limited(heard)

IInv == TypeOK /\ VelocityBounded /\ SilenceBound /\ FrozenOnceFired /\ Handled

\* A signal, whenever it comes, ends in main() returning; unless DDS throws on
\* the way, the robot is then asleep with a zero velocity.
ShutdownCompletes ==
    ~g_running ~> \/ pc = "failed"
                  \/ pc = "done" /\ robot = [mode |-> MODE_SLEEP, vel |-> Zero]

\* The dead man's switch the bridge implements.
Switch == INSTANCE DeadManSwitch WITH
    alive <- Alive, moving <- Moving, quiet <- silence, Grace <- MaxWork

ImplementsSwitch == Switch!Spec

\* "Production-safe: watchdog, velocity clamp, graceful shutdown": no exit of
\* the program leaves the robot walking.
ExitStopsRobot == pc \in Exited => ~Moving

\* "freeze if Python brain goes silent": a robot that is asleep when
\* the watchdog fires is left as it is.
FreezeKeepsSleep ==
    [][~watchdog_fired /\ watchdog_fired' /\ robot.mode = MODE_SLEEP
         => robot'.mode = MODE_SLEEP]_vars
=============================================================================
