---------------------------- MODULE BridgeProofs ----------------------------
(***************************************************************************)
(* Theorems about Bridge, for every set of frames and every timing that    *)
(* satisfies BridgeAssumption.                                             *)
(***************************************************************************)
EXTENDS Bridge, TLAPS

\* clamp() always answers with a number of its interval, NaN included: the
\* argument order of std::min and std::max decides that NaN becomes hi.
LEMMA ClampInRange ==
    ASSUME NEW v \in Float, NEW lo \in Int, NEW hi \in Int, lo <= hi
    PROVE  clamp(v, lo, hi) \in lo .. hi
<1>1. CASE v = NaN
  BY <1>1, NaNAssumption DEF clamp, StdMax, StdMin, Less
<1>2. CASE v \in Int
  BY <1>2, NaNAssumption DEF clamp, StdMax, StdMin, Less
<1>3. QED BY <1>1, <1>2 DEF Float

\* The three clamped axes are inside the hard limits, whatever was received.
LEMMA LimitedBounded ==
    ASSUME NEW axes \in [Axis -> Float]
    PROVE  Limited(axes) \in Bounded
<1>1. \A a \in Axis : clamp(axes[a], -MaxSpeed[a], MaxSpeed[a]) \in -MaxSpeed[a] .. MaxSpeed[a]
  <2>1. SUFFICES ASSUME NEW a \in Axis
                 PROVE  clamp(axes[a], -MaxSpeed[a], MaxSpeed[a]) \in -MaxSpeed[a] .. MaxSpeed[a]
    OBVIOUS
  <2>2. MaxSpeed[a] \in Nat
    BY DEF Axis, MaxSpeed
  <2>3. QED BY <2>2, ClampInRange
<1>2. Limited(axes) \in [Axis -> Int]
  <2>1. \A a \in Axis : MaxSpeed[a] \in Nat
    BY DEF Axis, MaxSpeed
  <2>2. QED BY <1>1, <2>1 DEF Limited
<1>3. QED BY <1>1, <1>2 DEF Limited, Bounded

\* Standing still is inside the limits.
LEMMA ZeroBounded == Zero \in Bounded
<1>1. \A a \in Axis : MaxSpeed[a] \in Nat
  BY DEF Axis, MaxSpeed
<1>2. QED BY <1>1 DEF Zero, Bounded

\* Clamped and zero velocities are well-typed.
LEMMA BoundedTyped == Bounded \subseteq [Axis -> Float] /\ Zero \in [Axis -> Float]
  BY DEF Bounded, Float, Zero

\* A frame asks for one of the three modes when one of them is held.
LEMMA RequestedModeTyped ==
    ASSUME NEW frame \in Frame, NEW held \in Modes
    PROVE  RequestedMode(frame, held) \in Modes
  BY DEF RequestedMode, Frame, Modes, MODE_SLEEP, MODE_STAND, MODE_MOVE

\* setMode keeps the type of the robot and changes its mode only.
LEMMA SetModeEffect ==
    ASSUME robot \in [mode : Modes, vel : [Axis -> Float]], NEW m \in Modes, setMode(m)
    PROVE  /\ robot' \in [mode : Modes, vel : [Axis -> Float]]
           /\ robot'.mode = m /\ robot'.vel = robot.vel
  BY DEF setMode

\* setVelocity keeps the type of the robot and changes its velocity only.
LEMMA SetVelocityEffect ==
    ASSUME robot \in [mode : Modes, vel : [Axis -> Float]], NEW v \in Bounded, setVelocity(v)
    PROVE  /\ robot' \in [mode : Modes, vel : [Axis -> Float]]
           /\ robot'.mode = robot.mode /\ robot'.vel = v
  BY BoundedTyped DEF setVelocity

\* When main() has returned nothing of the loop is left but what the robot does.
LEMMA ReturnEffect ==
    ASSUME NEW from, NEW code \in Exited, Return(from, code)
    PROVE  /\ pc = from /\ pc' = code /\ ~Alive'
           /\ cache' \in Frame \cup {NoSample} /\ sample' \in Frame \cup {NoSample}
           /\ heard' = NoSample
           /\ last_mode' \in Modes
           /\ ~watchdog_fired' /\ watchdog_fired' \in BOOLEAN
           /\ silence' = 0 /\ elapsed' = 0 /\ silence' \in 0 .. Horizon /\ elapsed' \in Nat
<1>1. silence' = 0 /\ elapsed' = 0 /\ silence' \in 0 .. Horizon /\ elapsed' \in Nat
  BY BridgeAssumption DEF Return
<1>2. pc = from /\ pc' = code /\ ~Alive'
  BY DEF Return, Goto, Exited, Alive, WorkPhase
<1>3. QED BY <1>1, <1>2 DEF Return, Modes

----------------------------------------------------------------------------
\* Before boot the invariant holds.
LEMMA InitIInv == Init => IInv
<1> SUFFICES ASSUME Init PROVE IInv
  OBVIOUS
<1>1. TypeOK
  <2>1. robot \in [mode : Modes, vel : [Axis -> Float]]
    BY BoundedTyped DEF Init
  <2>2. silence \in 0 .. Horizon /\ elapsed \in Nat
    BY BridgeAssumption DEF Init
  <2>3. QED BY <2>1, <2>2 DEF Init, TypeOK, Modes, WorkPhase, Exited
<1>2. VelocityBounded
  BY ZeroBounded DEF Init, VelocityBounded
<1>3. SilenceBound /\ FrozenOnceFired /\ Handled
  BY DEF Init, SilenceBound, FrozenOnceFired, Handled, WorkPhase, Alive
<1>4. QED BY <1>1, <1>2, <1>3 DEF IInv

\* Every statement of main(), signal, delivery and clock tick preserves it.
LEMMA NextIInv == IInv /\ [Next]_vars => IInv'
<1> SUFFICES ASSUME IInv, [Next]_vars PROVE IInv'
  OBVIOUS
<1> USE BridgeAssumption DEF IInv, VelocityBounded, SilenceBound, FrozenOnceFired, Handled, TypeOK,
        Goto, SamePhase, NewPhase, WorkPhase, Exited, Alive
<1>1. CASE BootFails
  BY <1>1, ReturnEffect DEF BootFails
<1>2. CASE Boot
  BY <1>2, SetModeEffect DEF Boot, Modes, MODE_STAND
<1>3. CASE Connect
  <2>1. TypeOK'
    <3>1. silence' \in 0 .. Horizon /\ elapsed' \in Nat /\ last_mode' \in Modes
      BY <1>3 DEF Connect, Modes
    <3>2. g_running' \in BOOLEAN /\ watchdog_fired' \in BOOLEAN
      BY <1>3 DEF Connect
    <3>3. QED BY <1>3, <3>1, <3>2 DEF Connect
  <2>2. robot.mode # MODE_MOVE
    BY <1>3 DEF Connect, MODE_STAND, MODE_MOVE
  <2>3. Handled' /\ FrozenOnceFired'
    BY <1>3, <2>2 DEF Connect
  <2>4. SilenceBound'
    BY <1>3 DEF Connect
  <2>5. QED BY <1>3, <2>1, <2>3, <2>4 DEF Connect
<1>4. CASE ConnectThrows
  BY <1>4, ReturnEffect DEF ConnectThrows
<1>5. CASE Take
  BY <1>5 DEF Take
<1>6. CASE TakeThrows
  BY <1>6, ReturnEffect DEF TakeThrows
<1>7. CASE SkipSample
  BY <1>7 DEF SkipSample
<1>8. CASE HandleSample
  <2> DEFINE requested == RequestedMode(sample, last_mode)
  <2>1. requested \in Modes
    BY <1>8, RequestedModeTyped DEF HandleSample
  <2>2. /\ robot' \in [mode : Modes, vel : [Axis -> Float]]
        /\ robot'.mode = requested /\ robot'.vel = robot.vel
    BY <1>8, <2>1, SetModeEffect DEF HandleSample
  <2>3. last_mode' = requested
    BY <1>8 DEF HandleSample
  <2> HIDE DEF requested
  <2>4. TypeOK'
    <3>1. silence' \in 0 .. Horizon /\ elapsed' \in Nat /\ heard' \in [Axis -> Float]
      BY <1>8 DEF HandleSample, Frame
    <3>2. g_running' \in BOOLEAN /\ watchdog_fired' \in BOOLEAN
      BY <1>8 DEF HandleSample
    <3>3. QED BY <1>8, <2>1, <2>2, <2>3, <3>1, <3>2 DEF HandleSample
  <2>5. SilenceBound' /\ FrozenOnceFired' /\ Handled' /\ VelocityBounded'
    BY <1>8, <2>1, <2>2, <2>3 DEF HandleSample
  <2>6. QED BY <2>4, <2>5
<1>9. CASE SendVelocity
  BY <1>9, LimitedBounded, SetVelocityEffect DEF SendVelocity, Frame
<1>10. CASE WatchdogQuiet
  BY <1>10 DEF WatchdogQuiet, WatchdogExpired
<1>11. CASE WatchdogFires
  BY <1>11, SetModeEffect DEF WatchdogFires, Modes, MODE_STAND, MODE_MOVE
<1>12. CASE Freeze
  BY <1>12, ZeroBounded, SetVelocityEffect DEF Freeze, Modes, MODE_STAND, MODE_MOVE
<1>13. CASE Wake
  BY <1>13 DEF Wake
<1>14. CASE Shutdown
  BY <1>14, ZeroBounded, SetVelocityEffect DEF Shutdown
<1>15. CASE Park
  BY <1>15, ReturnEffect, SetModeEffect DEF Park, Modes, MODE_SLEEP
<1>16. CASE Restart
  BY <1>16 DEF Restart
<1>17. CASE signal_handler
  <2>1. TypeOK'
    BY <1>17 DEF signal_handler
  <2>2. SilenceBound' /\ FrozenOnceFired' /\ Handled' /\ VelocityBounded'
    BY <1>17 DEF signal_handler
  <2>3. QED BY <2>1, <2>2
<1>18. ASSUME NEW frame \in Frames, Deliver(frame) PROVE IInv'
  BY <1>18 DEF Deliver
<1>19. CASE WriterGone
  BY <1>19 DEF WriterGone
<1>20. CASE Tick
  BY <1>20 DEF Tick
<1>21. CASE UNCHANGED vars
  BY <1>21 DEF vars
<1>22. QED
  BY <1>1, <1>2, <1>3, <1>4, <1>5, <1>6, <1>7, <1>8, <1>9, <1>10, <1>11, <1>12, <1>13,
     <1>14, <1>15, <1>16, <1>17, <1>18, <1>19, <1>20, <1>21 DEF Next, MainStep

----------------------------------------------------------------------------
\* The inductive invariant holds in every reachable state of the bridge.
THEOREM Invariance == Spec => []IInv
  BY InitIInv, NextIInv, PTL DEF Spec

\* Type correctness, and the time bound of each phase of a pass.
THEOREM TypeCorrect == Spec => []TypeOK
<1>1. IInv => TypeOK
  BY DEF IInv
<1>2. QED BY <1>1, Invariance, PTL

\* Whatever floats arrive, NaN included, setVelocity is never called outside
\* the hard limits.
THEOREM VelocityIsBounded == Spec => []VelocityBounded
<1>1. IInv => VelocityBounded
  BY DEF IInv
<1>2. QED BY <1>1, Invariance, PTL

\* At the head of a pass last_mode is the mode the SDK was last given.
THEOREM ModeIsMirrored == Spec => []ModeMirrored
<1>1. IInv => ModeMirrored
  BY DEF IInv, Handled, ModeMirrored
<1>2. QED BY <1>1, Invariance, PTL

\* Between passes the setpoint of a robot in MOVE is the newest frame's.
THEOREM VelocityIsFresh == Spec => []VelocityFresh
<1>1. IInv => VelocityFresh
  BY DEF IInv, Handled, VelocityFresh
<1>2. QED BY <1>1, Invariance, PTL

\* The arithmetic of the watchdog: past the deadline it has fired, and then
\* the robot is in STAND or its velocity is zero.
LEMMA SilentIsFrozen == IInv => FrozenWhenSilent
<1> SUFFICES ASSUME IInv, Alive, silence > Deadline PROVE ~Moving
  BY DEF FrozenWhenSilent
<1>1. CASE watchdog_fired
  BY <1>1 DEF IInv, FrozenOnceFired, Moving, MODE_STAND, MODE_MOVE
<1>2. CASE ~watchdog_fired
  <2>1. elapsed \in Nat /\ silence \in 0 .. Horizon
    BY DEF IInv, TypeOK
  <2>2. CASE pc \in WorkPhase
    BY <1>2, <2>1, <2>2, BridgeAssumption DEF IInv, TypeOK, SilenceBound, Deadline
  <2>3. CASE pc = "sleep"
    BY <1>2, <2>1, <2>3, BridgeAssumption DEF IInv, TypeOK, SilenceBound, Deadline
  <2>4. QED BY <2>2, <2>3 DEF Alive
<1>3. QED BY <1>1, <1>2

\* A robot whose last message is older than the deadline does not walk while
\* the loop runs.
THEOREM FrozenIfSilent == Spec => []FrozenWhenSilent
  BY Invariance, SilentIsFrozen, PTL

----------------------------------------------------------------------------
(* The bridge implements the dead man's switch.                             *)

\* Steps that leave the loop's liveness, the robot and the silence alone.
LEMMA SwitchStutters ==
    ASSUME UNCHANGED <<robot, silence>>, Alive' = Alive
    PROVE  UNCHANGED Switch!vars
  BY DEF Switch!vars, Moving

\* Steps after which the robot does not walk.
LEMMA SwitchStops ==
    ASSUME UNCHANGED silence, Alive' = Alive, ~Moving'
    PROVE  Switch!Stop
  BY DEF Switch!Stop

\* Time passes: a walking robot still has time left before the deadline.
LEMMA SwitchPasses ==
    ASSUME IInv, Tick
    PROVE  Switch!Pass
<1> USE DEF Tick
<1>1. Alive /\ UNCHANGED <<robot, pc>>
  BY DEF Alive
<1>2. ASSUME Moving PROVE silence < Deadline
  <2>1. ~watchdog_fired
    BY <1>1, <1>2 DEF IInv, FrozenOnceFired, Moving, MODE_STAND, MODE_MOVE
  <2>2. elapsed \in Nat /\ silence \in Nat
    BY BridgeAssumption DEF IInv, TypeOK
  <2>3. CASE pc \in WorkPhase /\ elapsed < MaxWork
    BY <2>1, <2>2, <2>3, BridgeAssumption DEF IInv, SilenceBound, Deadline
  <2>4. CASE pc = "sleep" /\ elapsed < MaxSleep
    BY <2>1, <2>2, <2>4, BridgeAssumption DEF IInv, SilenceBound, Deadline
  <2>5. QED BY <2>3, <2>4
<1>3. UNCHANGED <<Alive, Moving>>
  BY <1>1 DEF Alive, Moving
<1>4. QED BY <1>1, <1>2, <1>3 DEF Switch!Pass

\* Every step of the bridge is a step of the switch, or none.
LEMMA NextSwitch == IInv /\ [Next]_vars => [Switch!Next]_(Switch!vars)
<1> SUFFICES ASSUME IInv, [Next]_vars PROVE [Switch!Next]_(Switch!vars)
  OBVIOUS
<1> USE DEF Goto, Switch!Next
<1>1. CASE Take \/ SkipSample \/ WatchdogQuiet \/ Wake
           \/ signal_handler \/ WriterGone \/ UNCHANGED vars
  <2>1. UNCHANGED <<robot, silence>> /\ Alive' = Alive
    BY <1>1 DEF Take, SkipSample, WatchdogQuiet, Wake,
       signal_handler, WriterGone, vars, Alive, WorkPhase
  <2>2. QED BY <2>1, SwitchStutters
<1>2. CASE Restart
  <2>1. UNCHANGED <<robot, silence>> /\ Alive' = Alive
    BY <1>2 DEF Restart, Exited, Alive, WorkPhase
  <2>2. QED BY <2>1, SwitchStutters
<1>3. ASSUME NEW frame \in Frames, Deliver(frame) PROVE [Switch!Next]_(Switch!vars)
  <2>1. UNCHANGED <<robot, silence>> /\ Alive' = Alive
    BY <1>3 DEF Deliver, Alive, WorkPhase
  <2>2. QED BY <2>1, SwitchStutters
<1>4. CASE Boot \/ WatchdogFires
  <2>1. UNCHANGED silence /\ Alive' = Alive /\ setMode(MODE_STAND)
    BY <1>4 DEF Boot, WatchdogFires, Alive, WorkPhase
  <2>2. ~Moving'
    BY <2>1, SetModeEffect DEF IInv, TypeOK, Moving, Modes, MODE_STAND, MODE_MOVE
  <2>3. QED BY <2>1, <2>2, SwitchStops
<1>5. CASE Freeze \/ Shutdown
  <2>1. UNCHANGED silence /\ Alive' = Alive /\ setVelocity(Zero)
    BY <1>5 DEF Freeze, Shutdown, Alive, WorkPhase
  <2>2. ~Moving'
    BY <2>1, ZeroBounded, SetVelocityEffect DEF IInv, TypeOK, Moving
  <2>3. QED BY <2>1, <2>2, SwitchStops
<1>6. CASE Connect
  <2>1. ~Alive /\ Alive' /\ silence' = 0 /\ UNCHANGED robot
    BY <1>6 DEF Connect, Alive, WorkPhase
  <2>2. ~Moving /\ UNCHANGED Moving
    BY <1>6, <2>1 DEF Connect, IInv, FrozenOnceFired, Moving, MODE_STAND, MODE_MOVE
  <2>3. QED BY <2>1, <2>2 DEF Switch!Start
<1>7. CASE HandleSample
  <2>1. Alive /\ UNCHANGED Alive /\ silence' = 0
    BY <1>7 DEF HandleSample, Alive, WorkPhase
  <2>2. Moving' \in BOOLEAN
    BY DEF Moving
  <2>3. QED BY <2>1, <2>2 DEF Switch!Hear
<1>8. CASE SendVelocity
  <2>1. Alive /\ UNCHANGED <<Alive, silence>>
    BY <1>8 DEF SendVelocity, Alive, WorkPhase
  <2>2. silence <= MaxWork
    BY <1>8, BridgeAssumption DEF SendVelocity, IInv, SilenceBound, TypeOK, WorkPhase
  <2>3. CASE Moving'
    BY <2>1, <2>2, <2>3 DEF Switch!Go
  <2>4. CASE ~Moving'
    BY <2>1, <2>4, SwitchStops
  <2>5. QED BY <2>3, <2>4
<1>9. CASE TakeThrows
  <2>1. Alive /\ ~Alive' /\ silence' = 0 /\ UNCHANGED robot
    BY <1>9, ReturnEffect DEF TakeThrows, Alive, WorkPhase, Exited
  <2>2. QED BY <2>1 DEF Switch!Die, Moving
<1>10. CASE Park
  <2>1. Alive /\ ~Alive' /\ silence' = 0 /\ setMode(MODE_SLEEP)
    BY <1>10, ReturnEffect DEF Park, Alive, WorkPhase, Exited
  <2>2. ~Moving'
    BY <2>1, SetModeEffect DEF IInv, TypeOK, Moving, Modes, MODE_SLEEP, MODE_MOVE
  <2>3. QED BY <2>1, <2>2 DEF Switch!Die
<1>11. CASE Tick
  BY <1>11, SwitchPasses
<1>12. CASE BootFails \/ ConnectThrows
  <2>1. pc \in {"boot", "connect"} /\ silence' = 0 /\ ~Alive' /\ UNCHANGED robot
    BY <1>12, ReturnEffect DEF BootFails, ConnectThrows, Exited
  <2>2. ~Alive /\ silence = 0
    BY <2>1 DEF IInv, SilenceBound, Alive, WorkPhase
  <2>3. Alive' = Alive
    BY <2>1, <2>2 DEF Alive
  <2>4. QED BY <2>1, <2>2, <2>3, SwitchStutters
<1>13. QED
  BY <1>1, <1>2, <1>3, <1>4, <1>5, <1>6, <1>7, <1>8, <1>9, <1>10, <1>11, <1>12 DEF Next, MainStep

\* Spec implements the dead man's switch: motion begins only while a message is
\* fresh, and no motion outlives the last message by more than Deadline.
THEOREM Implementation == Spec => ImplementsSwitch
<1>1. Init => Switch!Init
  BY DEF Init, Switch!Init, Alive, WorkPhase, Moving
<1>2. QED BY <1>1, Invariance, NextSwitch, PTL DEF Spec, Switch!Spec, ImplementsSwitch
=============================================================================
