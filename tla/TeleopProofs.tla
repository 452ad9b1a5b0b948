---------------------------- MODULE TeleopProofs ----------------------------
(***************************************************************************)
(* Theorems about Teleop, for every set of faults and commands and every   *)
(* timing that satisfies TeleopAssumption: the bridge is used as Bridge    *)
(* allows, motion outlives no command by more than StopDeadline, and the   *)
(* watchdog is not mistaken while the heartbeat beats.                     *)
(***************************************************************************)
EXTENDS Teleop, TLAPS

\* What is proved of the bridge holds of the bridge of Teleop.
BP == INSTANCE BridgeProofs WITH Frames <- Frame

\* The definitions of Bridge mean the same where its theorems are taken from.
LEMMA SameData ==
    /\ B!Modes = BP!Modes /\ B!Frame = BP!Frame /\ B!Zero = BP!Zero /\ B!Bounded = BP!Bounded
    /\ B!Axis = BP!Axis /\ B!Float = BP!Float
    /\ \A axes : B!Limited(axes) = BP!Limited(axes)
    /\ \A frame, held : B!RequestedMode(frame, held) = BP!RequestedMode(frame, held)
  BY DEF B!MODE_SLEEP, BP!MODE_SLEEP, B!MODE_STAND, BP!MODE_STAND, B!MODE_MOVE, BP!MODE_MOVE,
     B!Modes, BP!Modes, B!Axis, BP!Axis, B!MaxSpeed, BP!MaxSpeed, B!Float, BP!Float, B!Zero,
     BP!Zero, B!Frame, BP!Frame, B!Less, BP!Less, B!StdMin, BP!StdMin, B!StdMax, BP!StdMax,
     B!clamp, BP!clamp, B!Limited, BP!Limited, B!Bounded, BP!Bounded, B!RequestedMode,
     BP!RequestedMode

\* So do its initial states and its invariants,
LEMMA SameState ==
    /\ B!Init <=> BP!Init
    /\ B!IInv <=> BP!IInv
    /\ B!FrozenWhenSilent <=> BP!FrozenWhenSilent
  BY SameData
  DEF B!Init, BP!Init, B!IInv, BP!IInv, B!TypeOK, BP!TypeOK, B!VelocityBounded,
     BP!VelocityBounded, B!SilenceBound, BP!SilenceBound, B!FrozenOnceFired,
     BP!FrozenOnceFired, B!Handled, BP!Handled, B!FrozenWhenSilent, BP!FrozenWhenSilent,
     B!WorkPhase, BP!WorkPhase, B!Alive, BP!Alive, B!Exited, BP!Exited, B!Moving, BP!Moving,
     B!Deadline, BP!Deadline, B!MODE_STAND, BP!MODE_STAND, B!MODE_MOVE, BP!MODE_MOVE

\* and its steps.
LEMMA SameNext == [B!Next]_(B!vars) <=> [BP!Next]_(BP!vars)
  BY SameData
  DEF B!Deadline, BP!Deadline, B!WorkPhase, BP!WorkPhase, B!Alive, BP!Alive, B!Exited,
     BP!Exited, B!WatchdogExpired, BP!WatchdogExpired, B!setMode, BP!setMode, B!setVelocity,
     BP!setVelocity, B!Goto, BP!Goto, B!SamePhase, BP!SamePhase, B!NewPhase, BP!NewPhase,
     B!Return, BP!Return, B!BootFails, BP!BootFails, B!Boot, BP!Boot, B!Connect, BP!Connect,
     B!ConnectThrows, BP!ConnectThrows, B!Take, BP!Take, B!TakeThrows, BP!TakeThrows,
     B!SkipSample, BP!SkipSample, B!HandleSample, BP!HandleSample, B!SendVelocity,
     BP!SendVelocity, B!WatchdogQuiet, BP!WatchdogQuiet, B!WatchdogFires, BP!WatchdogFires,
     B!Freeze, BP!Freeze, B!Wake, BP!Wake, B!Shutdown, BP!Shutdown, B!Park, BP!Park, B!Restart,
     BP!Restart, B!signal_handler, BP!signal_handler, B!Deliver, BP!Deliver, B!WriterGone,
     BP!WriterGone, B!Tick, BP!Tick, B!MainStep, BP!MainStep, B!Next, BP!Next, B!vars, BP!vars,
     B!MODE_SLEEP, BP!MODE_SLEEP, B!MODE_STAND, BP!MODE_STAND, B!MODE_MOVE, BP!MODE_MOVE

\* The messages of the two processes are those of the wire.
LEMMA SameMessages ==
    /\ B!Modes = Modes /\ B!Frame = Frame /\ B!Zero = Zero /\ B!Axis = Axis /\ B!Float = Float
    /\ P!Modes = Modes /\ P!Axis = Axis /\ P!MaxSpeed = MaxSpeed
    /\ B!MODE_MOVE = MODE_MOVE /\ P!MODE_MOVE = MODE_MOVE
    /\ \A axes : B!Limited(axes) = Limited(axes)
    /\ \A frame, held : B!RequestedMode(frame, held) = RequestedMode(frame, held)
  BY DEF B!MODE_SLEEP, MODE_SLEEP, B!MODE_STAND, MODE_STAND, B!MODE_MOVE, MODE_MOVE, B!Modes,
     Modes, B!Axis, Axis, B!MaxSpeed, MaxSpeed, B!Float, Float, B!Zero, Zero, B!Frame, Frame,
     B!Less, Less, B!StdMin, StdMin, B!StdMax, StdMax, B!clamp, clamp, B!Limited, Limited,
     B!Bounded, Bounded, B!RequestedMode, RequestedMode,
     P!MODE_SLEEP, P!MODE_STAND, P!MODE_MOVE, P!Modes, P!Axis, P!MaxSpeed

\* The times of Teleop are numbers, and its horizon is beyond its deadlines.
LEMMA TimingTyped ==
    /\ WatchdogTicks \in Nat /\ SleepTicks \in Nat /\ MaxSleep \in Nat /\ MaxWork \in Nat
    /\ Horizon \in Nat /\ HoldFrames \in Nat \ {0} /\ SleepTicks <= MaxSleep
    /\ B!Deadline = WatchdogTicks + MaxSleep + MaxWork
    /\ StopDeadline = MaxWork + (MaxSleep + MaxWork + MaxWork) + (WatchdogTicks + MaxSleep + MaxWork)
    /\ StopDeadline < Horizon
  BY TeleopAssumption DEF StopDeadline, B!Deadline

\* What Bridge assumes of its constants holds of the bridge of Teleop.
LEMMA BridgeAssumed == BP!BridgeAssumption /\ BP!NaNAssumption
<1>1. BP!Deadline < Horizon
  BY TimingTyped DEF BP!Deadline
<1>2. BP!Frame = Frame /\ BP!Axis = Axis /\ BP!Float = Float
  BY SameData, SameMessages
<1>3. QED BY <1>1, <1>2, TeleopAssumption, NaNAssumption DEF BP!BridgeAssumption, BP!NaNAssumption

\* The invariant of the bridge, for its part in Teleop.
LEMMA BridgeInvariance ==
    /\ B!Init => B!IInv
    /\ B!IInv /\ [B!Next]_(B!vars) => B!IInv'
    /\ B!IInv => B!FrozenWhenSilent
<1>1. B!Init => B!IInv
  BY BridgeAssumed, SameState, BP!InitIInv
<1>2. B!IInv /\ [B!Next]_(B!vars) => B!IInv'
  <2>1. (B!IInv <=> BP!IInv)'
    BY SameState, PTL
  <2>2. QED BY <2>1, BridgeAssumed, SameState, SameNext, BP!NextIInv
<1>3. B!IInv => B!FrozenWhenSilent
  BY BridgeAssumed, SameState, BP!SilentIsFrozen
<1>4. QED BY <1>1, <1>2, <1>3

----------------------------------------------------------------------------
(* Types.                                                                   *)

\* Every command is one of the brain's, and each phase of the heartbeat stays
\* inside its time bound.
PublisherTypeOK ==
    /\ current_robot_state \in Commands \cup {Asleep} /\ state_snapshot \in Commands \cup {Asleep}
    /\ thread \in {"off", "sleep", "publish", "dead"}
    /\ clicked_mode \in Int /\ button_hold_ticks \in 0 .. HoldFrames
    /\ beat \in Nat
    /\ thread = "sleep" => beat <= MaxSleep
    /\ thread = "publish" => beat <= MaxWork
    /\ thread \in {"off", "dead"} => beat = 0
    /\ link_up \in BOOLEAN
    /\ age \in [Moves -> 0 .. Horizon]

\* The commands are the publisher's, and the moving ones are the movements.
LEMMA CommandsTyped ==
    /\ Commands \cup {Asleep} \subseteq P!Command
    /\ \A cmd \in Commands \cup {Asleep} : cmd.mode = MODE_MOVE => cmd \in Moves
    /\ \A cmd \in Moves : cmd.mode = MODE_MOVE
    /\ P!Command = [mode : Int, vel : [Axis -> Int]]
  BY TeleopAssumption, SameMessages DEF Moves, MODE_SLEEP, MODE_MOVE, P!Command

\* The velocity on the wire is inside the limits of the bridge, whose clamp
\* leaves it alone, and zero unless the command is a movement.
LEMMA WireBounded ==
    ASSUME NEW cmd \in P!Command
    PROVE  /\ P!Wire(cmd) \in [Axis -> Float]
           /\ Limited(P!Wire(cmd)) = P!Wire(cmd)
           /\ cmd.mode # MODE_MOVE => P!Wire(cmd) = Zero
<1>1. ASSUME NEW a \in Axis
      PROVE  /\ P!Wire(cmd)[a] \in Int
             /\ clamp(P!Wire(cmd)[a], -MaxSpeed[a], MaxSpeed[a]) = P!Wire(cmd)[a]
             /\ cmd.mode # MODE_MOVE => P!Wire(cmd)[a] = 0
  <2>1. PICK max \in Nat : max = MaxSpeed[a]
    BY DEF Axis, MaxSpeed
  <2>2. PICK v \in Int : v = cmd.vel[a]
    BY CommandsTyped
  <2>3. P!Wire(cmd)[a] = IF cmd.mode = MODE_MOVE THEN -P!clip(v, max) ELSE 0
    BY <2>1, <2>2, SameMessages DEF P!Wire
  <2>4. P!clip(v, max) \in -max .. max
    BY DEF P!clip
  <2>5. \A n \in -max .. max : clamp(n, -max, max) = n
    BY NaNAssumption DEF clamp, StdMax, StdMin, Less
  <2>6. QED BY <2>1, <2>3, <2>4, <2>5
<1>2. P!Wire(cmd) = [a \in Axis |-> P!Wire(cmd)[a]]
  BY SameMessages DEF P!Wire
<1>3. QED BY <1>1, <1>2 DEF Limited, Float, Zero

\* The clamp leaves a zero velocity alone.
LEMMA LimitedZero == Limited(Zero) = Zero
<1>1. ASSUME NEW a \in Axis PROVE clamp(0, -MaxSpeed[a], MaxSpeed[a]) = 0
  <2>1. MaxSpeed[a] \in Nat
    BY DEF Axis, MaxSpeed
  <2>2. QED BY <2>1, NaNAssumption DEF clamp, StdMax, StdMin, Less
<1>2. QED BY <1>1 DEF Limited, Zero

\* A frame of the publisher is a frame of the wire.
LEMMA FrameTyped ==
    ASSUME NEW cmd \in P!Command
    PROVE  P!FrameOf(cmd) \in Frame /\ P!FrameOf(cmd).axes = P!Wire(cmd)
<1>1. P!Wire(cmd) \in [Axis -> Float]
  BY WireBounded
<1>2. QED BY <1>1, SameMessages DEF P!FrameOf, Frame

\* The clicks of a mode are counted down to zero.
LEMMA HoldTyped ==
    ASSUME button_hold_ticks \in 0 .. HoldFrames, NEW cmd
    PROVE  P!Max0(P!Held(cmd) - 1) \in 0 .. HoldFrames
  BY TimingTyped DEF P!Max0, P!Held

\* Every step of the path is one of the bridge, or none.
LEMMA NextBridge == PublisherTypeOK /\ [Next]_vars => [B!Next]_(B!vars)
<1> SUFFICES ASSUME PublisherTypeOK, [Next]_vars PROVE [B!Next]_(B!vars)
  OBVIOUS
<1>1. CASE BridgeStep \/ BridgeRestart
  BY <1>1 DEF BridgeStep, BridgeRestart, B!Next
<1>2. CASE \/ BrainStart \/ Copy \/ PublishThrows \/ LinkUp \/ UNCHANGED vars
           \/ \E cmd \in Commands : SetState(cmd)
  BY <1>2 DEF BrainStart, Copy, PublishThrows, LinkUp, SetState, vars, bridgeVars, B!vars
<1>3. CASE BrainExit \/ LinkDown
  BY <1>3 DEF BrainExit, LinkDown, bridgeVars, B!vars, B!Next
<1>4. CASE Publish
  <2>1. state_snapshot \in P!Command
    BY CommandsTyped DEF PublisherTypeOK
  <2>2. P!FrameOf(state_snapshot) \in Frame
    BY <2>1, FrameTyped
  <2>3. QED BY <1>4, <2>2 DEF Publish, bridgeVars, B!vars, B!Next
<1>5. CASE Tick
  BY <1>5 DEF Tick, bridgeVars, B!vars, B!Next
<1>6. QED BY <1>1, <1>2, <1>3, <1>4, <1>5 DEF Next

\* The types are kept by every step.
LEMMA NextPublisherTyped == PublisherTypeOK /\ [Next]_vars => PublisherTypeOK'
<1> SUFFICES ASSUME PublisherTypeOK, [Next]_vars PROVE PublisherTypeOK'
  OBVIOUS
<1> USE TimingTyped DEF PublisherTypeOK
<1>1. CASE BridgeStep \/ BridgeRestart
  BY <1>1 DEF BridgeStep, BridgeRestart, brainVars
<1>2. CASE BrainStart
  BY <1>2 DEF BrainStart, P!Start
<1>3. ASSUME NEW cmd \in Commands, SetState(cmd) PROVE PublisherTypeOK'
  <2>1. age' \in [Moves -> 0 .. Horizon]
    BY <1>3 DEF SetState
  <2>2. QED BY <1>3, <2>1 DEF SetState, P!SetState
<1>4. CASE BrainExit
  BY <1>4 DEF BrainExit, P!Exit
<1>5. CASE Copy
  BY <1>5 DEF Copy, P!Copy
<1>6. CASE Publish \/ PublishThrows
  <2>1. P!publish_movement /\ thread' \in {"sleep", "dead"} /\ UNCHANGED <<link_up, age>>
    BY <1>6 DEF Publish, PublishThrows, P!Publish, P!PublishThrows
  <2>2. clicked_mode' \in Int
    BY <2>1, CommandsTyped DEF P!publish_movement, P!Command
  <2>3. button_hold_ticks' \in 0 .. HoldFrames
    BY <2>1, HoldTyped DEF P!publish_movement
  <2>4. QED BY <2>1, <2>2, <2>3 DEF P!publish_movement
<1>7. CASE LinkDown \/ LinkUp
  BY <1>7 DEF LinkDown, LinkUp, brainVars
<1>8. CASE Tick
  <2>1. age' \in [Moves -> 0 .. Horizon]
    BY <1>8 DEF Tick
  <2>2. beat' \in Nat /\ (thread' = "sleep" => beat' <= MaxSleep)
        /\ (thread' = "publish" => beat' <= MaxWork) /\ (thread' \in {"off", "dead"} => beat' = 0)
    BY <1>8 DEF Tick, P!Tick, P!OnTime
  <2>3. QED BY <1>8, <2>1, <2>2 DEF Tick, P!Tick
<1>9. CASE UNCHANGED vars
  BY <1>9 DEF vars, brainVars
<1>10. QED BY <1>1, <1>2, <1>3, <1>4, <1>5, <1>6, <1>7, <1>8, <1>9 DEF Next

\* The types hold initially.
LEMMA InitTyped == Init => B!Init /\ PublisherTypeOK
  BY TimingTyped DEF Init, P!Init, PublisherTypeOK

\* On its path from the brain to the robot a command goes through a bridge that
\* behaves as Bridge says, under frames and faults of an open environment.
THEOREM BridgeRefined == Spec => B!Spec
  BY InitTyped, NextBridge, NextPublisherTyped, PTL DEF Spec, B!Spec

\* The invariant of the bridge and the types of the publisher hold throughout.
LEMMA Typed == Spec => [](B!IInv /\ PublisherTypeOK)
  BY InitTyped, NextBridge, NextPublisherTyped, BridgeInvariance, PTL DEF Spec

\* Type correctness of both processes and what is between them.
THEOREM TypeCorrect == Spec => []TypeOK
<1>1. B!IInv /\ PublisherTypeOK => TypeOK
  <2> SUFFICES ASSUME B!IInv, PublisherTypeOK PROVE TypeOK
    OBVIOUS
  <2>1. B!TypeOK
    BY DEF B!IInv
  <2>2. beat \in 0 .. MaxSleep \cup 0 .. MaxWork
    BY TimingTyped DEF PublisherTypeOK
  <2>3. QED BY <2>1, <2>2, CommandsTyped DEF TypeOK, PublisherTypeOK
<1>2. QED BY <1>1, Typed, PTL

----------------------------------------------------------------------------
(* Motion is current.                                                       *)

\* The axes are those of a movement that was the robot state no longer ago than
\* a bound says.
Carried(ages, axes, bound) == \E cmd \in Moves : ages[cmd] <= bound /\ axes = P!Wire(cmd)

\* A frame that could move the robot carries a movement.
FrameCarried(ages, frame, bound) ==
    frame \in Frame /\ (frame.axes # Zero \/ frame.pressed = {MODE_MOVE}) =>
        Carried(ages, frame.axes, bound)

\* How long a frame can have waited in the reader's cache: since the Take of
\* this pass, or of the pass before.
Waited ==
    CASE pc \in {"loop", "park"} -> MaxWork + MaxSleep + elapsed
      [] pc = "sleep" -> MaxWork + elapsed
      [] OTHER -> elapsed

\* How old a movement can be when its frame is handled.
Travel == MaxWork + (MaxSleep + MaxWork + MaxWork)

\* The copy the heartbeat thread is about to write is no older than its beat.
CopyCurrent ==
    /\ current_robot_state \in Moves => age[current_robot_state] = 0
    /\ thread = "publish" /\ state_snapshot \in Moves => age[state_snapshot] <= beat

\* Where a movement can be in the bridge, and how old it can be there: waiting,
\* taken, handled, or in force from before while a new frame is looked at.
PathCurrent ==
    /\ ~B!Alive => cache = NoSample /\ sample = NoSample /\ heard = NoSample
    /\ FrameCarried(age, cache, MaxWork + Waited)
    /\ pc \in {"handle", "velocity"} =>
           FrameCarried(age, sample, MaxWork + MaxSleep + MaxWork + elapsed)
    /\ heard \notin {NoSample, Zero} => Carried(age, heard, Travel + silence)
    /\ pc = "velocity" /\ B!Moving =>
           \E cmd \in Moves : age[cmd] <= Travel + WatchdogTicks + MaxSleep + elapsed

Ages == [Moves -> 0 .. Horizon]

\* A movement that is carried stays carried as its age and the bound grow together.
LEMMA CarriedLonger ==
    ASSUME NEW old \in Ages, NEW new \in Ages, NEW axes, NEW b \in Nat, NEW c \in Nat,
           \A cmd \in Moves : old[cmd] <= b => new[cmd] <= c,
           Carried(old, axes, b)
    PROVE  Carried(new, axes, c)
  BY DEF Carried, Ages

\* The same of a frame.
LEMMA FrameCarriedLonger ==
    ASSUME NEW old \in Ages, NEW new \in Ages, NEW frame, NEW b \in Nat, NEW c \in Nat,
           \A cmd \in Moves : old[cmd] <= b => new[cmd] <= c,
           FrameCarried(old, frame, b)
    PROVE  FrameCarried(new, frame, c)
  BY CarriedLonger DEF FrameCarried

\* The bounds are numbers.
LEMMA BoundsTyped ==
    ASSUME B!IInv
    PROVE  /\ Waited \in Nat /\ Travel \in Nat /\ elapsed \in Nat /\ silence \in 0 .. Horizon
           /\ MaxWork + Waited \in Nat /\ MaxWork + MaxSleep + MaxWork + elapsed \in Nat
           /\ Travel + silence \in Nat /\ Travel + WatchdogTicks + MaxSleep + elapsed \in Nat
  BY TimingTyped DEF Waited, Travel, B!IInv, B!TypeOK

\* A step that leaves the bridge alone, and makes no movement older.
LEMMA PathUntouched ==
    ASSUME B!IInv, PublisherTypeOK, PublisherTypeOK', PathCurrent, UNCHANGED bridgeVars,
           \A cmd \in Moves : age'[cmd] <= age[cmd]
    PROVE  PathCurrent'
<1>1. age \in Ages /\ age' \in Ages
  BY DEF PublisherTypeOK, Ages
<1>2. \A b \in Nat : \A cmd \in Moves : age[cmd] <= b => age'[cmd] <= b
  BY <1>1, TimingTyped DEF Ages
<1>3. UNCHANGED <<Waited, B!Alive, B!Moving, cache, sample, heard, pc, elapsed, silence>>
  BY DEF bridgeVars, Waited, B!Alive, B!WorkPhase, B!Moving
<1>4. \A cmd \in Moves : age[cmd] <= Travel + WatchdogTicks + MaxSleep + elapsed
        => age'[cmd] <= Travel + WatchdogTicks + MaxSleep + elapsed
  BY <1>2, BoundsTyped
<1>5. FrameCarried(age', cache, MaxWork + Waited)
  BY <1>1, <1>2, BoundsTyped, FrameCarriedLonger DEF PathCurrent
<1>6. pc \in {"handle", "velocity"} => FrameCarried(age', sample, MaxWork + MaxSleep + MaxWork + elapsed)
  BY <1>1, <1>2, BoundsTyped, FrameCarriedLonger DEF PathCurrent
<1>7. heard \notin {NoSample, Zero} => Carried(age', heard, Travel + silence)
  BY <1>1, <1>2, BoundsTyped, CarriedLonger DEF PathCurrent
<1>8. QED BY <1>3, <1>4, <1>5, <1>6, <1>7 DEF PathCurrent

\* The bridge's statements leave the ages alone and move frames and movements on.
LEMMA PathStep ==
    ASSUME B!IInv, PublisherTypeOK, PathCurrent, UNCHANGED age,
           B!MainStep \/ B!Restart \/ B!signal_handler \/ B!WriterGone
    PROVE  PathCurrent'
<1> USE DEF B!Goto, B!SamePhase, B!NewPhase, B!WorkPhase, B!Alive, B!Exited
<1>1. age \in Ages
  BY DEF PublisherTypeOK, Ages
<1>2. /\ elapsed \in Nat /\ silence \in Nat
      /\ pc \in B!WorkPhase => elapsed <= MaxWork
      /\ pc = "sleep" => elapsed <= MaxSleep
  BY BoundsTyped, TimingTyped DEF B!IInv, B!TypeOK
<1>3. \A frame : \A b, c \in Nat : b <= c /\ FrameCarried(age, frame, b) => FrameCarried(age, frame, c)
  <2> SUFFICES ASSUME NEW frame, NEW b \in Nat, NEW c \in Nat, b <= c, FrameCarried(age, frame, b)
               PROVE  FrameCarried(age, frame, c)
    OBVIOUS
  <2>1. \A cmd \in Moves : age[cmd] <= b => age[cmd] <= c
    BY <1>1, TimingTyped DEF Ages
  <2>2. QED BY <1>1, <2>1, FrameCarriedLonger
<1>4. NoSample \notin Frame /\ InvalidSample \notin Frame
  BY TeleopAssumption
<1>5. \A b \in Nat : FrameCarried(age, NoSample, b) /\ FrameCarried(age, InvalidSample, b)
  BY <1>4 DEF FrameCarried
<1>6. ASSUME NEW from, NEW code \in B!Exited, B!Return(from, code) PROVE PathCurrent'
  BY <1>5, <1>6, TimingTyped DEF B!Return, PathCurrent, Waited
<1>7. CASE B!BootFails \/ B!ConnectThrows \/ B!TakeThrows \/ B!Park
  BY <1>6, <1>7 DEF B!BootFails, B!ConnectThrows, B!TakeThrows, B!Park
<1>8. CASE B!Boot \/ B!Restart
  BY <1>2, <1>5, <1>8, TimingTyped DEF B!Boot, B!Restart, PathCurrent, Waited
<1>9. CASE B!Connect
  BY <1>5, <1>9, TimingTyped DEF B!Connect, PathCurrent, Waited
<1>10. CASE B!Take
  <2>1. FrameCarried(age, cache, MaxWork + (MaxWork + MaxSleep + elapsed))
    BY <1>10 DEF B!Take, PathCurrent, Waited
  <2>2. FrameCarried(age, cache, MaxWork + MaxSleep + MaxWork + elapsed)
    BY <1>2, <1>3, <2>1, TimingTyped
  <2>3. QED BY <1>2, <1>5, <1>10, <2>2, TimingTyped DEF B!Take, PathCurrent, Waited
<1>11. CASE B!SkipSample
  BY <1>11 DEF B!SkipSample, PathCurrent, Waited
<1>12. CASE B!WatchdogFires
  BY <1>12 DEF B!WatchdogFires, PathCurrent, Waited
<1>13. CASE B!SendVelocity
  BY <1>13 DEF B!SendVelocity, PathCurrent, Waited
<1>14. CASE B!WatchdogQuiet \/ B!Freeze
  <2>1. FrameCarried(age, cache, MaxWork + elapsed) /\ elapsed <= MaxWork
    BY <1>2, <1>14 DEF B!WatchdogQuiet, B!Freeze, PathCurrent, Waited
  <2>2. FrameCarried(age, cache, MaxWork + (MaxWork + 0))
    BY <1>2, <1>3, <2>1, TimingTyped
  <2>3. QED BY <1>14, <2>2 DEF B!WatchdogQuiet, B!Freeze, PathCurrent, Waited
<1>15. CASE B!Wake
  <2>1. FrameCarried(age, cache, MaxWork + (MaxWork + elapsed)) /\ elapsed <= MaxSleep
    BY <1>2, <1>15 DEF B!Wake, PathCurrent, Waited
  <2>2. FrameCarried(age, cache, MaxWork + (MaxWork + MaxSleep + 0))
    BY <1>2, <1>3, <2>1, TimingTyped
  <2>3. QED BY <1>15, <2>2 DEF B!Wake, PathCurrent, Waited
<1>16. CASE B!Shutdown
  BY <1>16 DEF B!Shutdown, PathCurrent, Waited
<1>17. CASE B!signal_handler
  BY <1>17 DEF B!signal_handler, PathCurrent, Waited, B!Moving
<1>18. CASE B!WriterGone
  <2>1. MaxWork + Waited \in Nat
    BY BoundsTyped
  <2>2. QED BY <1>5, <1>18, <2>1 DEF B!WriterGone, PathCurrent, Waited, B!Moving
<1>19. CASE B!HandleSample
  <2>1. /\ sample \in Frame /\ pc = "handle" /\ pc' = "velocity"
        /\ heard' = sample.axes /\ silence' = 0
        /\ UNCHANGED <<cache, sample, elapsed>>
    BY <1>19, SameMessages DEF B!HandleSample
  <2>2. elapsed <= MaxWork /\ FrameCarried(age, sample, MaxWork + MaxSleep + MaxWork + elapsed)
    BY <1>2, <2>1 DEF PathCurrent
  <2>3. FrameCarried(age, sample, Travel + 0)
    BY <1>2, <1>3, <2>2, TimingTyped DEF Travel
  <2>4. heard' \notin {NoSample, Zero} => Carried(age, heard', Travel + silence')
    BY <2>1, <2>3 DEF FrameCarried
  <2>5. ASSUME B!Moving'
        PROVE  \E cmd \in Moves : age[cmd] <= Travel + WatchdogTicks + MaxSleep + elapsed
    <3>1. CASE B!RequestedMode(sample, last_mode) # last_mode
      <4>1. robot'.mode = B!RequestedMode(sample, last_mode)
        BY <1>19, <3>1 DEF B!HandleSample, B!setMode, B!IInv, B!TypeOK
      <4>2. sample.pressed = {MODE_MOVE}
        <5>1. RequestedMode(sample, last_mode) = MODE_MOVE /\ last_mode # MODE_MOVE
          BY <2>5, <3>1, <4>1, SameMessages DEF B!Moving
        <5>2. QED BY <5>1 DEF RequestedMode, MODE_SLEEP, MODE_STAND, MODE_MOVE
      <4>3. PICK cmd \in Moves : age[cmd] <= Travel
        BY <2>1, <2>3, <4>2, TimingTyped DEF FrameCarried, Carried, Travel
      <4>4. age[cmd] \in Nat
        BY <1>1 DEF Ages
      <4>5. QED BY <1>2, <4>3, <4>4, TimingTyped DEF Travel
    <3>2. CASE B!RequestedMode(sample, last_mode) = last_mode
      <4>1. B!Moving
        BY <1>19, <2>5, <3>2 DEF B!HandleSample, B!Moving
      <4>2. heard # NoSample /\ robot.vel = Limited(heard) /\ ~watchdog_fired
        BY <2>1, <4>1, SameMessages
           DEF B!IInv, B!Handled, B!FrozenOnceFired, B!Moving, B!MODE_STAND, B!MODE_MOVE
      <4>3. heard # Zero
        BY <4>1, <4>2, SameMessages, LimitedZero DEF B!Moving
      <4>4. silence <= WatchdogTicks + MaxSleep + elapsed
        BY <2>1, <4>2 DEF B!IInv, B!SilenceBound
      <4>5. PICK cmd \in Moves : age[cmd] <= Travel + silence
        BY <4>2, <4>3 DEF PathCurrent, Carried
      <4>6. age[cmd] \in Nat
        BY <1>1 DEF Ages
      <4>7. QED BY <1>2, <4>4, <4>5, <4>6, TimingTyped DEF Travel
    <3>3. QED BY <3>1, <3>2
  <2>6. FrameCarried(age, cache, MaxWork + elapsed)
    BY <2>1 DEF PathCurrent, Waited
  <2>7. QED BY <2>1, <2>2, <2>4, <2>5, <2>6 DEF PathCurrent, Waited
<1>20. QED
  BY <1>7, <1>8, <1>9, <1>10, <1>11, <1>12, <1>13, <1>14, <1>15, <1>16, <1>17, <1>18, <1>19
     DEF B!MainStep

\* The frame of a copy carries a movement that is no older than the copy.
LEMMA PathPublish ==
    ASSUME B!IInv, PublisherTypeOK, PublisherTypeOK', CopyCurrent, PathCurrent, Publish
    PROVE  PathCurrent'
<1>1. UNCHANGED age /\ age \in Ages
  BY DEF Publish, PublisherTypeOK, Ages
<1>2. CASE UNCHANGED bridgeVars
  BY <1>1, <1>2, PathUntouched, TimingTyped DEF Ages
<1>3. CASE B!Deliver(P!FrameOf(state_snapshot))
  <2> DEFINE frame == P!FrameOf(state_snapshot)
  <2>1. state_snapshot \in P!Command /\ thread = "publish"
    BY CommandsTyped DEF PublisherTypeOK, Publish, P!Publish, P!publish_movement
  <2>2. frame \in Frame /\ frame.axes = P!Wire(state_snapshot)
    BY <2>1, FrameTyped
  <2>3. ASSUME frame.axes # Zero \/ frame.pressed = {MODE_MOVE}
        PROVE  state_snapshot \in Moves
    <3>1. state_snapshot.mode = MODE_MOVE
      BY <2>1, <2>2, <2>3, WireBounded DEF P!FrameOf
    <3>2. QED BY <3>1, CommandsTyped DEF PublisherTypeOK
  <2> HIDE DEF frame
  <2>4. Waited \in Nat /\ elapsed \in Nat
    BY BoundsTyped
  <2>5. state_snapshot \in Moves => age[state_snapshot] <= MaxWork + Waited
    <3>1. state_snapshot \in Moves => age[state_snapshot] \in Nat /\ age[state_snapshot] <= beat
      BY <1>1, <2>1 DEF CopyCurrent, Ages
    <3>2. beat \in Nat /\ beat <= MaxWork
      BY <2>1 DEF PublisherTypeOK
    <3>3. QED BY <2>4, <3>1, <3>2, TimingTyped
  <2>6. FrameCarried(age, frame, MaxWork + Waited)
    BY <2>2, <2>3, <2>5 DEF FrameCarried, Carried
  <2>7. /\ B!Alive /\ cache' = frame
        /\ UNCHANGED <<pc, sample, silence, elapsed, robot, heard>>
    BY <1>3 DEF B!Deliver, frame
  <2>8. UNCHANGED <<Waited, B!Alive, B!Moving>>
    BY <2>7 DEF Waited, B!Alive, B!Moving, B!WorkPhase
  <2>9. QED BY <1>1, <2>6, <2>7, <2>8 DEF PathCurrent
<1>4. QED BY <1>2, <1>3 DEF Publish

\* Time passes: movements that are no longer the robot state grow older, and so
\* does everything they are compared with.
LEMMA PathTick ==
    ASSUME B!IInv, PublisherTypeOK, PublisherTypeOK', PathCurrent, Tick
    PROVE  PathCurrent'
<1>1. age \in Ages /\ age' \in Ages
  BY DEF PublisherTypeOK, Ages
<1>2. \A cmd \in Moves : age'[cmd] <= age[cmd] + 1 /\ age'[cmd] <= Horizon
  <2> SUFFICES ASSUME NEW cmd \in Moves PROVE age'[cmd] <= age[cmd] + 1 /\ age'[cmd] <= Horizon
    OBVIOUS
  <2>1. age[cmd] \in 0 .. Horizon /\ age'[cmd] \in 0 .. Horizon
    BY <1>1 DEF Ages
  <2>2. age'[cmd] = IF cmd = current_robot_state \/ age[cmd] = Horizon THEN age[cmd] ELSE age[cmd] + 1
    BY DEF Tick
  <2>3. QED BY <2>1, <2>2, TimingTyped
<1>3. \A b \in Nat : \A cmd \in Moves : age[cmd] <= b => age'[cmd] <= b + 1
  <2> SUFFICES ASSUME NEW b \in Nat, NEW cmd \in Moves, age[cmd] <= b PROVE age'[cmd] <= b + 1
    OBVIOUS
  <2>1. age[cmd] \in Int /\ age'[cmd] \in Int /\ age'[cmd] <= age[cmd] + 1
    BY <1>1, <1>2 DEF Ages
  <2>2. QED BY <2>1
<1>4. CASE B!Alive /\ B!Tick
  <2>1. /\ elapsed' = elapsed + 1
        /\ silence' = IF silence < Horizon THEN silence + 1 ELSE silence
        /\ UNCHANGED <<pc, cache, sample, robot, heard>>
    BY <1>4 DEF B!Tick
  <2>2. elapsed \in Nat /\ silence \in 0 .. Horizon
    BY BoundsTyped
  <2>3. Waited' = Waited + 1 /\ Waited \in Nat
    BY <2>1, <2>2, BoundsTyped, TimingTyped DEF Waited
  <2>4. FrameCarried(age', cache', MaxWork + Waited')
    <3>1. FrameCarried(age', cache, (MaxWork + Waited) + 1)
      BY <1>1, <1>3, <2>3, FrameCarriedLonger, TimingTyped DEF PathCurrent
    <3>2. (MaxWork + Waited) + 1 = MaxWork + Waited'
      BY <2>3, TimingTyped
    <3>3. QED BY <2>1, <3>1, <3>2
  <2>5. pc' \in {"handle", "velocity"} =>
            FrameCarried(age', sample', MaxWork + MaxSleep + MaxWork + elapsed')
    <3>1. pc \in {"handle", "velocity"} =>
              FrameCarried(age', sample, (MaxWork + MaxSleep + MaxWork + elapsed) + 1)
      BY <1>1, <1>3, BoundsTyped, FrameCarriedLonger DEF PathCurrent
    <3>2. (MaxWork + MaxSleep + MaxWork + elapsed) + 1 = MaxWork + MaxSleep + MaxWork + elapsed'
      BY <2>1, <2>2, TimingTyped
    <3>3. QED BY <2>1, <3>1, <3>2
  <2>6. heard' \notin {NoSample, Zero} => Carried(age', heard', Travel + silence')
    <3> SUFFICES ASSUME heard \notin {NoSample, Zero} PROVE Carried(age', heard, Travel + silence')
      BY <2>1
    <3>1. Carried(age, heard, Travel + silence)
      BY DEF PathCurrent
    <3>2. Travel \in Nat
      BY BoundsTyped
    <3>3. CASE silence < Horizon
      <4>1. Carried(age', heard, (Travel + silence) + 1)
        BY <1>1, <1>3, <3>1, BoundsTyped, CarriedLonger
      <4>2. (Travel + silence) + 1 = Travel + silence'
        BY <2>1, <2>2, <3>2, <3>3
      <4>3. QED BY <4>1, <4>2
    <3>4. CASE silence = Horizon
      <4>1. \A cmd \in Moves : age'[cmd] <= Travel + silence'
        <5>1. silence' = Horizon
          BY <2>1, <3>4, TimingTyped
        <5>2. \A cmd \in Moves : age'[cmd] \in Int
          BY <1>1 DEF Ages
        <5>3. QED BY <1>2, <3>2, <5>1, <5>2, TimingTyped
      <4>2. QED BY <3>1, <4>1 DEF Carried
    <3>5. QED BY <2>2, <3>3, <3>4, TimingTyped
  <2>7. ASSUME pc' = "velocity", B!Moving'
        PROVE  \E cmd \in Moves : age'[cmd] <= Travel + WatchdogTicks + MaxSleep + elapsed'
    <3>1. pc = "velocity" /\ B!Moving
      BY <2>1, <2>7 DEF B!Moving
    <3>2. PICK cmd \in Moves : age[cmd] <= Travel + WatchdogTicks + MaxSleep + elapsed
      BY <3>1 DEF PathCurrent
    <3>3. age'[cmd] <= (Travel + WatchdogTicks + MaxSleep + elapsed) + 1
      BY <1>3, <3>2, BoundsTyped
    <3>4. (Travel + WatchdogTicks + MaxSleep + elapsed) + 1 = Travel + WatchdogTicks + MaxSleep + elapsed'
      BY <2>1, <2>2, BoundsTyped, TimingTyped
    <3>5. QED BY <3>3, <3>4
  <2>8. UNCHANGED B!Alive /\ B!Alive
    BY <1>4, <2>1 DEF B!Alive, B!WorkPhase
  <2>9. QED BY <2>4, <2>5, <2>6, <2>7, <2>8 DEF PathCurrent
<1>5. CASE ~B!Alive /\ UNCHANGED bridgeVars
  <2>1. UNCHANGED <<B!Alive, cache, sample, heard, pc>>
    BY <1>5 DEF bridgeVars, B!Alive, B!WorkPhase
  <2>2. cache = NoSample /\ sample = NoSample /\ heard = NoSample /\ NoSample \notin Frame
    BY <1>5, TeleopAssumption DEF PathCurrent
  <2>3. pc \notin {"handle", "velocity"}
    BY <1>5 DEF B!Alive, B!WorkPhase
  <2>4. QED BY <1>5, <2>1, <2>2, <2>3 DEF PathCurrent, FrameCarried
<1>6. QED BY <1>4, <1>5 DEF Tick

\* The copy is current when it is taken, and for as long as it waits.
LEMMA NextCopyCurrent ==
    PublisherTypeOK /\ PublisherTypeOK' /\ CopyCurrent /\ [Next]_vars => CopyCurrent'
<1> SUFFICES ASSUME PublisherTypeOK, PublisherTypeOK', CopyCurrent, [Next]_vars PROVE CopyCurrent'
  OBVIOUS
<1> USE DEF CopyCurrent
<1>1. CASE \/ BridgeStep \/ BridgeRestart \/ LinkDown \/ LinkUp \/ UNCHANGED vars
  BY <1>1 DEF BridgeStep, BridgeRestart, LinkDown, LinkUp, vars, brainVars
<1>2. CASE BrainStart \/ Publish \/ PublishThrows
  BY <1>2 DEF BrainStart, P!Start, Publish, P!Publish, PublishThrows, P!PublishThrows,
     P!publish_movement
<1>3. ASSUME NEW cmd \in Commands, SetState(cmd) PROVE CopyCurrent'
  BY <1>3, TimingTyped DEF SetState, P!SetState, PublisherTypeOK
<1>4. CASE BrainExit
  BY <1>4, TeleopAssumption DEF BrainExit, P!Exit, Moves, MODE_SLEEP, MODE_MOVE
<1>5. CASE Copy
  BY <1>5 DEF Copy, P!Copy
<1>6. CASE Tick
  <2>1. /\ UNCHANGED <<current_robot_state, thread, state_snapshot>>
        /\ beat' = IF thread \in {"sleep", "publish"} THEN beat + 1 ELSE beat
    BY <1>6 DEF Tick, P!Tick
  <2>2. \A cmd \in Moves : /\ age'[cmd] <= age[cmd] + 1 /\ age[cmd] \in Int /\ age'[cmd] \in Int
                           /\ cmd = current_robot_state => age'[cmd] = age[cmd]
    BY <1>6, TimingTyped DEF Tick, PublisherTypeOK
  <2>3. QED BY <2>1, <2>2 DEF PublisherTypeOK
<1>7. QED BY <1>1, <1>2, <1>3, <1>4, <1>5, <1>6 DEF Next

\* Every step keeps motion current.
LEMMA NextPathCurrent ==
    /\ B!IInv /\ PublisherTypeOK /\ PublisherTypeOK' /\ CopyCurrent /\ PathCurrent
    /\ [Next]_vars
    => PathCurrent'
<1> SUFFICES ASSUME B!IInv, PublisherTypeOK, PublisherTypeOK', CopyCurrent, PathCurrent, [Next]_vars
             PROVE  PathCurrent'
  OBVIOUS
<1>1. \A cmd \in Moves : age[cmd] \in Nat
  BY DEF PublisherTypeOK
<1>2. CASE BridgeStep \/ BridgeRestart
  BY <1>2, PathStep DEF BridgeStep, BridgeRestart
<1>3. CASE BrainExit \/ LinkDown
  <2>1. UNCHANGED age /\ (B!WriterGone \/ UNCHANGED bridgeVars)
    BY <1>3 DEF BrainExit, LinkDown
  <2>2. QED BY <1>1, <2>1, PathStep, PathUntouched
<1>4. CASE \/ BrainStart \/ Copy \/ PublishThrows \/ LinkUp \/ UNCHANGED vars
  <2>1. UNCHANGED age /\ UNCHANGED bridgeVars
    BY <1>4 DEF BrainStart, Copy, PublishThrows, LinkUp, vars
  <2>2. QED BY <1>1, <2>1, PathUntouched
<1>5. ASSUME NEW cmd \in Commands, SetState(cmd) PROVE PathCurrent'
  <2>1. UNCHANGED bridgeVars /\ \A move \in Moves : age'[move] <= age[move]
    BY <1>1, <1>5 DEF SetState
  <2>2. QED BY <2>1, PathUntouched
<1>6. CASE Publish
  BY <1>6, PathPublish
<1>7. CASE Tick
  BY <1>7, PathTick
<1>8. QED BY <1>2, <1>3, <1>4, <1>5, <1>6, <1>7 DEF Next

\* At first there is no motion to be current.
LEMMA InitCurrent == Init => CopyCurrent /\ PathCurrent
<1> SUFFICES ASSUME Init PROVE CopyCurrent /\ PathCurrent
  OBVIOUS
<1>1. CopyCurrent
  BY TeleopAssumption DEF Init, P!Init, CopyCurrent, Moves, MODE_SLEEP, MODE_MOVE
<1>2. PathCurrent
  BY TeleopAssumption DEF Init, B!Init, PathCurrent, FrameCarried
<1>3. QED BY <1>1, <1>2

\* Where the bridge lets the robot move, its movement is one of the recent ones.
LEMMA CurrentMotion == B!IInv /\ PublisherTypeOK /\ PathCurrent => MotionIsCurrent
<1> SUFFICES ASSUME B!IInv, PublisherTypeOK, PathCurrent, B!Alive, B!Moving
             PROVE  \E cmd \in Moves :
                        age[cmd] <= StopDeadline /\ (pc = "velocity" \/ robot.vel = P!Wire(cmd))
  BY DEF MotionIsCurrent
<1>1. elapsed \in Nat /\ silence \in Nat /\ (pc \in B!WorkPhase => elapsed <= MaxWork)
  BY BoundsTyped, TimingTyped DEF B!IInv, B!TypeOK
<1>2. \A cmd \in Moves : age[cmd] \in Nat
  BY DEF PublisherTypeOK
<1>3. CASE pc = "velocity"
  <2>1. PICK cmd \in Moves : age[cmd] <= Travel + WatchdogTicks + MaxSleep + elapsed
    BY <1>3 DEF PathCurrent
  <2>2. elapsed <= MaxWork
    BY <1>1, <1>3 DEF B!WorkPhase
  <2>3. age[cmd] <= StopDeadline
    BY <1>1, <1>2, <2>1, <2>2, TimingTyped DEF Travel
  <2>4. QED BY <1>3, <2>3
<1>4. CASE pc \in {"loop", "handle", "watchdog", "sleep"}
  <2>1. heard # NoSample /\ robot.vel = Limited(heard)
    BY <1>4, SameMessages DEF B!IInv, B!Handled, B!Moving
  <2>2. heard # Zero
    BY <2>1, SameMessages, LimitedZero DEF B!Moving
  <2>3. PICK cmd \in Moves : age[cmd] <= Travel + silence /\ heard = P!Wire(cmd)
    BY <2>1, <2>2 DEF PathCurrent, Carried
  <2>4. robot.vel = P!Wire(cmd)
    BY <2>1, <2>3, WireBounded, CommandsTyped DEF Moves
  <2>5. silence <= WatchdogTicks + MaxSleep + MaxWork
    BY <1>1, BridgeInvariance, TimingTyped DEF B!FrozenWhenSilent
  <2>6. age[cmd] <= StopDeadline
    BY <1>1, <1>2, <2>3, <2>5, TimingTyped DEF Travel
  <2>7. QED BY <2>4, <2>6
<1>5. CASE pc \in {"freeze", "park"}
  BY <1>5 DEF B!IInv, B!FrozenOnceFired, B!Moving, B!Alive, B!WorkPhase, B!MODE_STAND, B!MODE_MOVE
<1>6. QED BY <1>3, <1>4, <1>5 DEF B!Alive, B!WorkPhase

\* Whatever is lost and whoever dies or is restarted, a living bridge moves the
\* robot only as the robot state said no longer than StopDeadline ago.
THEOREM MotionStaysCurrent == Spec => []MotionIsCurrent
<1>1. Init => CopyCurrent /\ PathCurrent
  BY InitCurrent
<1>2. Spec => [](B!IInv /\ PublisherTypeOK /\ CopyCurrent /\ PathCurrent)
  BY <1>1, Typed, NextCopyCurrent, NextPathCurrent, PTL DEF Spec
<1>3. QED BY <1>2, CurrentMotion, PTL

----------------------------------------------------------------------------
(* The watchdog is not mistaken.                                            *)

\* The heartbeat is kept up: its process, its thread and the link do not fail,
\* and the watchdog waits for a beat and for two work phases, the publisher's
\* and the bridge's own.
HeartbeatHolds ==
    /\ Faults \cap {"brain", "outage", "write"} = {}
    /\ MaxSleep + MaxWork + MaxWork <= WatchdogTicks

\* The longest the last frame can have been on its way.
SinceFrame == IF thread = "sleep" THEN beat ELSE MaxSleep + beat

\* Silence is counted from when a frame was handled, so it is never longer than
\* the time since the last frame was written, unless a newer frame waits or is
\* about to be handled; at a look at the watchdog it is as long as at the Take
\* of the pass and the pass itself.
BeatHeard ==
    /\ link_up /\ thread # "dead"
    /\ thread = "off" => cache \notin Frame /\ sample \notin Frame /\ heard = NoSample
    /\ ~B!Alive => heard = NoSample
    /\ heard # NoSample /\ cache \notin Frame /\ ~(pc = "handle" /\ sample \in Frame) =>
           silence <= SinceFrame
    /\ heard # NoSample /\ pc \in {"handle", "watchdog"} /\ sample \notin Frame =>
           silence <= MaxSleep + MaxWork + elapsed
    /\ pc = "watchdog" /\ sample \in Frame => silence <= elapsed
    /\ NoFalseAlarm

\* Time since the last frame is a number, within one beat.
LEMMA BeatTyped ==
    ASSUME B!IInv, PublisherTypeOK
    PROVE  /\ elapsed \in Nat /\ silence \in Nat /\ beat \in Nat /\ SinceFrame \in Nat
           /\ thread # "off" => SinceFrame <= MaxSleep + MaxWork \/ thread = "dead"
           /\ pc \in B!WorkPhase => elapsed <= MaxWork
           /\ NoSample \notin Frame
  BY BoundsTyped, TimingTyped, TeleopAssumption
  DEF SinceFrame, PublisherTypeOK, B!IInv, B!TypeOK

\* The bridge's statements leave the beat alone: a handled frame ends the
\* silence, and the look at the watchdog finds none that is too long.
LEMMA BeatStep ==
    ASSUME HeartbeatHolds, B!IInv, PublisherTypeOK, BeatHeard,
           UNCHANGED <<brainVars, link_up>>,
           B!MainStep \/ B!Restart \/ B!signal_handler
    PROVE  BeatHeard'
<1> USE BeatTyped, TimingTyped
    DEF B!Goto, B!SamePhase, B!NewPhase, B!WorkPhase, B!Alive, B!Exited, BeatHeard, brainVars,
        NoFalseAlarm
<1>1. UNCHANGED <<thread, beat, link_up, SinceFrame>>
  BY DEF SinceFrame
<1>2. ASSUME NEW from, NEW code \in B!Exited, B!Return(from, code) PROVE BeatHeard'
  BY <1>1, <1>2 DEF B!Return
<1>3. CASE B!BootFails \/ B!ConnectThrows \/ B!TakeThrows \/ B!Park
  BY <1>2, <1>3 DEF B!BootFails, B!ConnectThrows, B!TakeThrows, B!Park
<1>4. CASE B!Boot \/ B!Restart
  BY <1>1, <1>4 DEF B!Boot, B!Restart
<1>5. CASE B!Connect
  BY <1>1, <1>5 DEF B!Connect
<1>6. CASE B!Take
  BY <1>1, <1>6 DEF B!Take
<1>7. CASE B!SkipSample
  BY <1>1, <1>7, SameMessages DEF B!SkipSample
<1>8. CASE B!HandleSample
  <2>1. sample \in Frame /\ pc = "handle" /\ pc' = "velocity" /\ silence' = 0 /\ ~watchdog_fired'
        /\ UNCHANGED <<cache, sample>>
    BY <1>8, SameMessages DEF B!HandleSample
  <2>2. QED BY <1>1, <2>1
<1>9. CASE B!SendVelocity
  <2>1. sample \in Frame /\ silence <= elapsed
    BY <1>9, SameMessages DEF B!SendVelocity, B!IInv, B!Handled, B!SilenceBound
  <2>2. QED BY <1>1, <1>9, <2>1 DEF B!SendVelocity
<1>10. CASE B!WatchdogQuiet \/ B!Freeze
  BY <1>1, <1>10 DEF B!WatchdogQuiet, B!Freeze
<1>11. CASE B!WatchdogFires
  <2>1. heard = NoSample
    <3> SUFFICES ASSUME heard # NoSample PROVE FALSE
      OBVIOUS
    <3>1. pc = "watchdog" /\ silence > WatchdogTicks
      BY <1>11 DEF B!WatchdogFires, B!WatchdogExpired
    <3>2. silence <= MaxSleep + MaxWork + elapsed /\ elapsed <= MaxWork
      BY <3>1
    <3>3. QED BY <3>1, <3>2 DEF HeartbeatHolds
  <2>2. QED BY <1>1, <1>11, <2>1 DEF B!WatchdogFires
<1>12. CASE B!Wake \/ B!Shutdown
  BY <1>1, <1>12 DEF B!Wake, B!Shutdown
<1>13. CASE B!signal_handler
  BY <1>1, <1>13 DEF B!signal_handler
<1>14. QED BY <1>3, <1>4, <1>5, <1>6, <1>7, <1>8, <1>9, <1>10, <1>11, <1>12, <1>13 DEF B!MainStep

\* The heartbeat's own steps: a copy is taken or written, the thread is started.
LEMMA BeatBeats ==
    ASSUME B!IInv, PublisherTypeOK, BeatHeard, BrainStart \/ Copy \/ Publish
    PROVE  BeatHeard'
<1> USE BeatTyped, TimingTyped DEF BeatHeard, NoFalseAlarm
<1>1. CASE BrainStart
  BY <1>1 DEF BrainStart, P!Start, bridgeVars, B!Alive, B!WorkPhase
<1>2. CASE Copy
  <2>1. SinceFrame <= SinceFrame'
    BY <1>2 DEF Copy, P!Copy, SinceFrame, PublisherTypeOK
  <2>2. SinceFrame' \in Nat
    BY <1>2 DEF Copy, P!Copy, SinceFrame
  <2>3. QED BY <1>2, <2>1, <2>2 DEF Copy, P!Copy, bridgeVars, B!Alive, B!WorkPhase
<1>3. CASE Publish
  <2>1. thread' = "sleep" /\ UNCHANGED link_up
    BY <1>3 DEF Publish, P!Publish
  <2>2. CASE B!Alive
    <3>1. B!Deliver(P!FrameOf(state_snapshot)) /\ P!FrameOf(state_snapshot) \in Frame
      BY <1>3, <2>2, CommandsTyped, FrameTyped DEF Publish, PublisherTypeOK
    <3>2. QED BY <2>1, <3>1 DEF B!Deliver, B!Alive, B!WorkPhase
  <2>3. CASE ~B!Alive
    <3>1. UNCHANGED bridgeVars
      BY <1>3, <2>3 DEF Publish
    <3>2. QED BY <2>1, <2>3, <3>1 DEF bridgeVars, B!Alive, B!WorkPhase
  <2>4. QED BY <2>2, <2>3
<1>4. QED BY <1>1, <1>2, <1>3

\* Silence and the time since the last frame grow together.
LEMMA BeatTick ==
    ASSUME B!IInv, PublisherTypeOK, BeatHeard, Tick
    PROVE  BeatHeard'
<1> USE BeatTyped, TimingTyped DEF BeatHeard, NoFalseAlarm
<1>1. /\ UNCHANGED <<thread, link_up>>
      /\ beat' = IF thread \in {"sleep", "publish"} THEN beat + 1 ELSE beat
  BY DEF Tick, P!Tick
<1>2. CASE B!Alive
  <2>1. /\ elapsed' = elapsed + 1
        /\ silence' \in Nat /\ silence' <= silence + 1
        /\ UNCHANGED <<pc, cache, sample, watchdog_fired, heard>>
    BY <1>2 DEF Tick, B!Tick
  <2>2. heard # NoSample => SinceFrame' = SinceFrame + 1
    BY <1>1 DEF SinceFrame, PublisherTypeOK
  <2>3. QED BY <1>1, <2>1, <2>2 DEF B!Alive, B!WorkPhase
<1>3. CASE ~B!Alive
  BY <1>1, <1>3 DEF Tick, bridgeVars, B!Alive, B!WorkPhase
<1>4. QED BY <1>2, <1>3

\* Every step keeps the watchdog from being mistaken.
LEMMA NextBeatHeard ==
    HeartbeatHolds /\ B!IInv /\ PublisherTypeOK /\ BeatHeard /\ [Next]_vars => BeatHeard'
<1> SUFFICES ASSUME HeartbeatHolds, B!IInv, PublisherTypeOK, BeatHeard, [Next]_vars
             PROVE  BeatHeard'
  OBVIOUS
<1>1. CASE BridgeStep \/ BridgeRestart
  BY <1>1, BeatStep DEF BridgeStep, BridgeRestart
<1>2. CASE BrainStart \/ Copy \/ Publish
  BY <1>2, BeatBeats
<1>3. CASE BrainExit \/ PublishThrows \/ LinkDown \/ LinkUp
  BY <1>3 DEF BrainExit, PublishThrows, LinkDown, LinkUp, HeartbeatHolds, BeatHeard
<1>4. ASSUME NEW cmd \in Commands, SetState(cmd) PROVE BeatHeard'
  BY <1>4 DEF SetState, P!SetState, BeatHeard, SinceFrame, NoFalseAlarm, bridgeVars, B!Alive, B!WorkPhase
<1>5. CASE Tick
  BY <1>5, BeatTick
<1>6. CASE UNCHANGED vars
  BY <1>6 DEF vars, bridgeVars, brainVars, BeatHeard, SinceFrame, NoFalseAlarm, B!Alive, B!WorkPhase
<1>7. QED BY <1>1, <1>2, <1>3, <1>4, <1>5, <1>6 DEF Next

\* However the two loops drift against each other, and whatever the bridge's own
\* restarts, the watchdog never fires on a robot that is being commanded.
THEOREM NoAlarmWhileBeating == HeartbeatHolds => (Spec => []NoFalseAlarm)
<1> SUFFICES ASSUME HeartbeatHolds PROVE Spec => []NoFalseAlarm
  OBVIOUS
<1>1. Init => BeatHeard
  BY TeleopAssumption DEF Init, B!Init, P!Init, BeatHeard, NoFalseAlarm
<1>2. B!IInv /\ PublisherTypeOK /\ BeatHeard /\ [Next]_vars => BeatHeard'
  BY NextBeatHeard
<1>3. BeatHeard => NoFalseAlarm
  BY DEF BeatHeard
<1>4. QED BY <1>1, <1>2, <1>3, Typed, PTL DEF Spec
=============================================================================
