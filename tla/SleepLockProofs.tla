-------------------------- MODULE SleepLockProofs --------------------------
(***************************************************************************)
(* The sleep lock reaches the robot: for every set of commands, set at any *)
(* time and in any order, and every timing in which a click outlasts a     *)
(* pass of the bridge, the robot walks out of its sleep only if the brain  *)
(* was rash.                                                               *)
(***************************************************************************)
EXTENDS TeleopProofs, SleepLock

\* What the sleep lock needs on the way to the robot: the link is up and a click
\* outlasts a pass.
ClicksArrive == "outage" \notin Faults /\ Pass < HoldFrames * SleepTicks

Beating == thread \in {"sleep", "publish"}

Pressed(frame, mode) == frame \in Frame /\ frame.pressed = {mode}

\* A living bridge has its robot out of sleep, at once or when the frame it has
\* taken is handled.
Awake == B!Alive => robot.mode # MODE_SLEEP
AwakeNext ==
    IF pc = "handle" /\ sample \in Frame /\ sample.pressed # {}
        THEN sample.pressed # {MODE_SLEEP} ELSE Awake

\* Out of sleep, and nothing on the topic to put it back.
Up == AwakeNext /\ ~Pressed(cache, MODE_SLEEP)

\* ... and nothing in the publisher either.
StaysUp == Up /\ (thread = "publish" => state_snapshot.mode # MODE_SLEEP)

\* The time a click has lasted at least: a sleep between two of its frames, and
\* what has passed of the next.
ClickedFor ==
    (HoldFrames - (1 + button_hold_ticks)) * SleepTicks
        + (IF thread = "sleep" /\ beat < SleepTicks THEN beat ELSE SleepTicks)

\* A click of STAND or MOVE waits in the cache, and has lasted no longer than it
\* can wait.
Clicking ==
    /\ clicked_mode \in {MODE_STAND, MODE_MOVE} /\ Pressed(cache, clicked_mode)
    /\ ClickedFor <= Waited

\* How long STAND can be the robot state before the robot is out of sleep: until
\* the copy on its way is written, the next one taken, written, and handled.
StandDelay ==
    IF thread = "publish" /\ state_snapshot.mode # MODE_STAND THEN beat
    ELSE IF clicked_mode = MODE_STAND THEN Pass + Waited
    ELSE IF thread = "sleep" THEN MaxWork + beat
    ELSE MaxWork + MaxSleep + beat

\* A click of MOVE in the reader's cache, and one in the bridge's hands.
MoveWaits == Pressed(cache, MODE_MOVE)
MoveTaken == pc = "handle" /\ Pressed(sample, MODE_MOVE)

\* What holds of the topic whatever the brain sets.
TopicOrderly ==
    /\ link_up
    /\ ~B!Alive => cache = NoSample
    /\ \A frame \in Frame \cap {cache, sample} : \E mode \in Modes : frame.pressed \subseteq {mode}
    /\ thread = "off" => current_robot_state.mode = MODE_SLEEP /\ clicked_mode = -1
    /\ Beating /\ clicked_mode \in {MODE_STAND, MODE_MOVE} => Up \/ Clicking

\* A STAND that is the robot state wakes the robot in time, and in time nothing
\* is left of a MOVE set before it that the robot could still meet asleep.
StandSettles ==
    /\ thread = "publish" /\ state_snapshot.mode # current_robot_state.mode => stay <= beat
    /\ current_robot_state.mode = MODE_STAND =>
           /\ Beating => StaysUp \/ stay <= StandDelay
           /\ MoveWaits => AwakeNext \/ stay <= MaxWork + Waited
           /\ MoveTaken => Awake \/ stay <= MaxWork + Pass + elapsed

\* Without a rash walk, at no place on the way does MOVE follow SLEEP: neither
\* from the frame taken to the robot, nor from the cache, the copy or the robot
\* state to what is before it.
WalkInOrder ==
    /\ MoveTaken => Awake
    /\ MoveWaits => AwakeNext
    /\ thread = "publish" /\ state_snapshot.mode = MODE_MOVE => Up
    /\ Beating /\ current_robot_state.mode = MODE_MOVE => StaysUp

SleepLockCarried ==
    /\ stay \in 0 .. Settle + 1 /\ rash \in BOOLEAN
    /\ TopicOrderly /\ StandSettles
    /\ ~rash => WalkInOrder

\* The time a frame waits is no longer than a pass, and never shrinks but by a Take.
LEMMA WaitedTyped ==
    ASSUME B!IInv
    PROVE  /\ Waited \in Nat /\ Pass \in Nat /\ elapsed \in Nat
           /\ B!Alive => Waited <= Pass
           /\ pc \in B!WorkPhase => elapsed <= MaxWork
           /\ pc = "sleep" => elapsed <= MaxSleep
<1>1. /\ elapsed \in Nat
      /\ pc \in B!WorkPhase => elapsed <= MaxWork
      /\ pc = "sleep" => elapsed <= MaxSleep
  BY DEF B!IInv, B!TypeOK
<1>2. QED BY <1>1, TimingTyped DEF Waited, Pass, B!WorkPhase, B!Alive

\* A frame that presses one button at most asks for its mode, or for none.
LEMMA RequestedSingle ==
    ASSUME NEW frame, NEW held, NEW mode \in Modes, frame.pressed \subseteq {mode}
    PROVE  RequestedMode(frame, held) = IF frame.pressed = {} THEN held ELSE mode
<1>1. CASE frame.pressed = {}
  BY <1>1 DEF RequestedMode
<1>2. CASE frame.pressed = {mode}
  BY <1>2 DEF RequestedMode, Modes, MODE_SLEEP, MODE_STAND, MODE_MOVE
<1>3. QED BY <1>1, <1>2

\* The age of a click is a number.
LEMMA ClickedTyped == PublisherTypeOK => ClickedFor \in Int
  BY TimingTyped DEF PublisherTypeOK, ClickedFor

\* The bridge's statements carry what is on the topic to the robot: a robot out
\* of sleep stays out of it, a click that waits arrives or waits on, and a click
\* of MOVE was there before, in the same place or one place earlier.
LEMMA BridgeCarries ==
    ASSUME B!IInv, PublisherTypeOK, TopicOrderly,
           B!MainStep \/ B!Restart \/ B!signal_handler,
           UNCHANGED <<thread, beat, clicked_mode, button_hold_ticks>>
    PROVE  /\ (~B!Alive => cache = NoSample)'
           /\ (\A frame \in Frame \cap {cache, sample} :
                  \E mode \in Modes : frame.pressed \subseteq {mode})'
           /\ Up => Up'
           /\ Clicking => Up' \/ (Clicking' /\ Waited' \in Nat /\ Waited <= Waited')
           /\ MoveWaits' => /\ MoveWaits /\ (AwakeNext => AwakeNext')
                            /\ Waited' \in Nat /\ Waited <= Waited'
           /\ MoveTaken' => /\ elapsed' = elapsed
                            /\ \/ MoveTaken /\ (Awake => Awake')
                               \/ MoveWaits /\ (AwakeNext => Awake') /\ Waited <= Pass
<1> USE DEF B!Goto, B!SamePhase, B!NewPhase, B!WorkPhase, B!Alive, B!Exited, Pressed, Awake,
        AwakeNext, Up, MoveWaits, MoveTaken, B!setMode, B!setVelocity, TopicOrderly
<1>1. /\ Waited \in Nat /\ elapsed \in Nat /\ (B!Alive => Waited <= Pass)
      /\ pc \in B!WorkPhase => elapsed <= MaxWork
      /\ pc = "sleep" => elapsed <= MaxSleep
  BY WaitedTyped
<1>2. NoSample \notin Frame /\ InvalidSample \notin Frame /\ B!Frame = Frame
  BY TeleopAssumption, SameMessages
<1>3. robot \in [mode : Modes, vel : [Axis -> Float]]
  BY SameMessages DEF B!IInv, B!TypeOK
<1>4. /\ B!MODE_SLEEP = MODE_SLEEP /\ B!MODE_STAND = MODE_STAND /\ MODE_STAND # MODE_SLEEP
      /\ MODE_MOVE # MODE_SLEEP /\ MODE_MOVE # MODE_STAND
  BY DEF B!MODE_SLEEP, MODE_SLEEP, B!MODE_STAND, MODE_STAND, MODE_MOVE
<1>5. ClickedFor \in Int /\ UNCHANGED ClickedFor
  BY ClickedTyped DEF ClickedFor
<1>6. ASSUME NEW from, NEW code \in B!Exited, B!Return(from, code)
      PROVE  pc' \in B!Exited /\ cache' = NoSample /\ sample' = NoSample
  BY <1>6 DEF B!Return
<1>7. CASE B!BootFails \/ B!ConnectThrows \/ B!TakeThrows \/ B!Park
  BY <1>2, <1>6, <1>7 DEF B!BootFails, B!ConnectThrows, B!TakeThrows, B!Park
<1>8. CASE B!Boot \/ B!Restart
  BY <1>2, <1>8 DEF B!Boot, B!Restart
<1>9. CASE B!Connect
  <2>1. robot.mode = MODE_STAND /\ cache' = NoSample /\ pc' = "loop" /\ UNCHANGED <<sample, robot>>
    BY <1>4, <1>9 DEF B!Connect, B!IInv, B!FrozenOnceFired
  <2>2. QED BY <1>2, <1>4, <2>1
<1>10. CASE B!Take
  <2>1. /\ pc = "loop" /\ pc' = "handle" /\ sample' = cache /\ cache' = NoSample
        /\ UNCHANGED <<robot, elapsed>>
    BY <1>10 DEF B!Take
  <2>2. Clicking => Up'
    BY <1>2, <1>4, <2>1 DEF Clicking
  <2>3. QED BY <1>1, <1>2, <2>1, <2>2
<1>11. CASE B!SkipSample \/ B!SendVelocity \/ B!Shutdown \/ B!signal_handler
  <2>1. /\ UNCHANGED <<cache, sample, robot.mode, elapsed>>
        /\ \/ pc = "handle" /\ pc' = "watchdog" /\ sample \notin Frame
           \/ pc = "velocity" /\ pc' = "watchdog"
           \/ pc = "loop" /\ pc' = "park"
           \/ pc' = pc
    BY <1>2, <1>3, <1>11 DEF B!SkipSample, B!SendVelocity, B!Shutdown, B!signal_handler
  <2>2. Waited' \in Nat /\ Waited <= Waited'
    BY <1>1, <2>1, TimingTyped DEF Waited
  <2>3. UNCHANGED <<B!Alive, Awake, AwakeNext>>
    BY <2>1
  <2>4. Clicking => Clicking'
    BY <1>1, <1>5, <2>1, <2>2 DEF Clicking
  <2>5. pc' = "handle" => pc = "handle"
    BY <2>1
  <2>6. QED BY <2>1, <2>2, <2>3, <2>4, <2>5
<1>12. CASE B!HandleSample
  <2>1. /\ pc = "handle" /\ pc' = "velocity" /\ sample \in Frame
        /\ robot'.mode = RequestedMode(sample, robot.mode)
        /\ UNCHANGED <<cache, sample, elapsed>>
    BY <1>2, <1>3, <1>12, SameMessages DEF B!HandleSample, B!IInv, B!Handled
  <2>2. PICK mode \in Modes : sample.pressed \subseteq {mode}
    BY <2>1
  <2>3. robot'.mode = IF sample.pressed = {} THEN robot.mode ELSE mode
    BY <2>1, <2>2, RequestedSingle
  <2>4. Awake' <=> AwakeNext
    BY <2>1, <2>2, <2>3
  <2>5. AwakeNext' <=> AwakeNext
    BY <2>1, <2>4
  <2>6. UNCHANGED Waited /\ Waited' \in Nat /\ Waited <= Waited'
    BY <1>1, <2>1 DEF Waited
  <2>7. Clicking => Clicking'
    BY <1>1, <1>5, <2>1, <2>6 DEF Clicking
  <2>8. (Up => Up') /\ (MoveWaits' => MoveWaits) /\ ~MoveTaken'
    BY <2>1, <2>5
  <2>9. QED BY <2>1, <2>5, <2>6, <2>7, <2>8
<1>13. CASE B!WatchdogFires \/ B!WatchdogQuiet \/ B!Freeze \/ B!Wake
  <2>1. /\ pc \in {"watchdog", "freeze", "sleep"} /\ pc' \in {"freeze", "sleep", "loop"}
        /\ sample' \in {sample, NoSample} /\ UNCHANGED cache
        /\ robot'.mode \in {robot.mode, MODE_STAND}
    BY <1>3, <1>4, <1>13 DEF B!WatchdogFires, B!WatchdogQuiet, B!Freeze, B!Wake
  <2>2. Waited' \in Nat /\ Waited <= Waited'
    BY <1>1, <1>13, TimingTyped DEF Waited, B!WatchdogFires, B!WatchdogQuiet, B!Freeze, B!Wake
  <2>3. AwakeNext => AwakeNext'
    BY <1>4, <2>1
  <2>4. Clicking => Clicking'
    BY <1>1, <1>5, <2>1, <2>2 DEF Clicking
  <2>5. QED BY <1>2, <2>1, <2>2, <2>3, <2>4
<1>14. QED BY <1>7, <1>8, <1>9, <1>10, <1>11, <1>12, <1>13 DEF B!MainStep

\* A bridge that is not there has nothing on its topic and no robot asleep.
LEMMA UpWhileGone == TopicOrderly /\ ~B!Alive => Up
<1> SUFFICES ASSUME TopicOrderly, ~B!Alive PROVE Up
  OBVIOUS
<1>1. cache = NoSample /\ NoSample \notin Frame
  BY TeleopAssumption DEF TopicOrderly
<1>2. pc # "handle" /\ Awake
  BY DEF B!Alive, B!WorkPhase, Awake
<1>3. QED BY <1>1, <1>2 DEF Up, AwakeNext, Pressed

\* A STAND that is settled is at the robot, and nothing is left of a MOVE set
\* before it that would meet the robot asleep.
LEMMA StandArrives ==
    ASSUME B!IInv, PublisherTypeOK, SleepLockCarried, Settled
    PROVE  (Beating => StaysUp) /\ (MoveWaits => AwakeNext) /\ (MoveTaken => Awake)
<1> USE DEF SleepLockCarried, StandSettles, Settled, Settle
<1>1. /\ Waited \in Nat /\ Pass \in Nat /\ (B!Alive => Waited <= Pass) /\ elapsed \in Nat
      /\ (MoveTaken => elapsed <= MaxWork) /\ (MoveWaits => B!Alive)
      /\ stay \in Nat /\ beat \in Nat /\ MaxWork + MaxWork <= Pass
  <2>1. MoveWaits => B!Alive
    BY TeleopAssumption DEF MoveWaits, Pressed, TopicOrderly
  <2>2. MoveTaken => pc \in B!WorkPhase
    BY DEF MoveTaken, B!WorkPhase
  <2>3. QED BY <2>1, <2>2, WaitedTyped, TimingTyped DEF Pass, PublisherTypeOK
<1>2. MoveWaits => AwakeNext
  BY <1>1, TimingTyped
<1>3. MoveTaken => Awake
  BY <1>1, TimingTyped
<1>4. ASSUME Beating, ~StaysUp PROVE FALSE
  <2>1. stay <= StandDelay
    BY <1>4
  <2>2. CASE thread = "publish" /\ state_snapshot.mode # MODE_STAND
    BY <1>1, <2>1, <2>2, TimingTyped DEF StandDelay, Pass, PublisherTypeOK
  <2>3. CASE ~(thread = "publish" /\ state_snapshot.mode # MODE_STAND) /\ clicked_mode = MODE_STAND
    <3>1. ~Up
      BY <1>4, <2>3 DEF StaysUp, MODE_STAND, MODE_SLEEP
    <3>2. B!Alive
      BY <3>1, UpWhileGone
    <3>3. StandDelay = Pass + Waited
      BY <2>3 DEF StandDelay
    <3>4. QED BY <1>1, <2>1, <3>2, <3>3
  <2>4. CASE ~(thread = "publish" /\ state_snapshot.mode # MODE_STAND) /\ clicked_mode # MODE_STAND
    <3>1. beat <= MaxSleep \/ (thread # "sleep" /\ beat <= MaxWork)
      BY <1>4 DEF PublisherTypeOK, Beating
    <3>2. StandDelay <= Pass + Pass /\ StandDelay \in Nat
      BY <1>1, <2>4, <3>1, TimingTyped DEF StandDelay, Pass
    <3>3. QED BY <1>1, <2>1, <3>2
  <2>5. QED BY <2>2, <2>3, <2>4
<1>5. QED BY <1>2, <1>3, <1>4

\* A click of STAND or MOVE outlasts the pass in which it begins.
LEMMA ClickOutlasts ==
    ASSUME ClicksArrive, B!IInv, PublisherTypeOK, TopicOrderly, Clicking,
           thread = "publish", ~Up
    PROVE  button_hold_ticks > 0
<1> SUFFICES ASSUME button_hold_ticks = 0 PROVE FALSE
  BY TimingTyped DEF PublisherTypeOK
<1>1. B!Alive
  BY UpWhileGone
<1>2. ClickedFor <= Waited /\ Waited <= Pass /\ Waited \in Nat /\ Pass \in Nat
  BY <1>1, WaitedTyped DEF Clicking
<1>3. ClickedFor = (HoldFrames - (1 + 0)) * SleepTicks + SleepTicks
  BY DEF ClickedFor
<1>4. (HoldFrames - (1 + 0)) * SleepTicks + SleepTicks = HoldFrames * SleepTicks
  BY TimingTyped
<1>5. HoldFrames * SleepTicks \in Nat /\ Pass < HoldFrames * SleepTicks
  BY TimingTyped DEF ClicksArrive
<1>6. QED BY <1>2, <1>3, <1>4, <1>5

\* The statements of the bridge keep the lock.
LEMMA LockBridge ==
    ASSUME B!IInv, PublisherTypeOK, SleepLockCarried, BridgeStep \/ BridgeRestart,
           UNCHANGED <<stay, rash>>
    PROVE  SleepLockCarried'
<1>1. /\ B!MainStep \/ B!Restart \/ B!signal_handler
      /\ UNCHANGED <<current_robot_state, thread, state_snapshot, clicked_mode,
                     button_hold_ticks, beat, link_up, stay, rash>>
  BY DEF BridgeStep, BridgeRestart, brainVars
<1>2. UNCHANGED Beating
  BY <1>1 DEF Beating
<1>3. /\ Up => Up'
      /\ Clicking => Up' \/ (Clicking' /\ Waited' \in Nat /\ Waited <= Waited')
      /\ MoveWaits' => /\ MoveWaits /\ (AwakeNext => AwakeNext')
                       /\ Waited' \in Nat /\ Waited <= Waited'
      /\ MoveTaken' => /\ elapsed' = elapsed
                       /\ \/ MoveTaken /\ (Awake => Awake')
                          \/ MoveWaits /\ (AwakeNext => Awake') /\ Waited <= Pass
  BY <1>1, BridgeCarries DEF SleepLockCarried
<1>4. StaysUp => StaysUp'
  BY <1>1, <1>3 DEF StaysUp
<1>5. /\ stay \in Nat /\ Waited \in Nat /\ Pass \in Nat /\ elapsed \in Nat /\ MaxWork \in Nat
      /\ UNCHANGED stay
  BY <1>1, WaitedTyped, TimingTyped DEF SleepLockCarried
<1>6. TopicOrderly'
  BY <1>1, <1>2, <1>3, BridgeCarries DEF SleepLockCarried, TopicOrderly
<1>7. ASSUME Beating, current_robot_state.mode = MODE_STAND, ~StaysUp'
      PROVE  stay <= StandDelay'
  <2>1. stay <= StandDelay
    BY <1>4, <1>7 DEF SleepLockCarried, StandSettles
  <2>2. CASE thread = "publish" /\ state_snapshot.mode # MODE_STAND
    BY <1>1, <2>1, <2>2 DEF StandDelay
  <2>3. CASE ~(thread = "publish" /\ state_snapshot.mode # MODE_STAND) /\ clicked_mode # MODE_STAND
    BY <1>1, <2>1, <2>3 DEF StandDelay
  <2>4. CASE ~(thread = "publish" /\ state_snapshot.mode # MODE_STAND) /\ clicked_mode = MODE_STAND
    <3>1. ~Up'
      BY <1>1, <1>7, <2>4 DEF StaysUp, MODE_STAND, MODE_SLEEP
    <3>2. Clicking
      BY <1>3, <1>7, <2>4, <3>1 DEF SleepLockCarried, TopicOrderly
    <3>3. Waited' \in Nat /\ Waited <= Waited'
      BY <1>3, <3>1, <3>2
    <3>4. StandDelay = Pass + Waited /\ StandDelay' = Pass + Waited'
      BY <1>1, <2>4 DEF StandDelay
    <3>5. \A a, b, c, d \in Nat : a <= b + c /\ c <= d => a <= b + d
      OBVIOUS
    <3>6. QED BY <1>5, <2>1, <3>3, <3>4, <3>5
  <2>5. QED BY <2>2, <2>3, <2>4
<1>8. ASSUME current_robot_state.mode = MODE_STAND, MoveWaits', ~AwakeNext'
      PROVE  stay <= MaxWork + Waited'
  <2>1. stay <= MaxWork + Waited /\ Waited' \in Nat /\ Waited <= Waited'
    BY <1>3, <1>8 DEF SleepLockCarried, StandSettles
  <2>2. \A a, b, c, d \in Nat : a <= b + c /\ c <= d => a <= b + d
    OBVIOUS
  <2>3. QED BY <1>5, <2>1, <2>2
<1>9. ASSUME current_robot_state.mode = MODE_STAND, MoveTaken', ~Awake'
      PROVE  stay <= MaxWork + Pass + elapsed'
  <2>1. CASE MoveTaken /\ ~Awake
    BY <1>3, <1>9, <2>1 DEF SleepLockCarried, StandSettles
  <2>2. CASE MoveWaits /\ ~AwakeNext /\ Waited <= Pass
    <3>1. stay <= MaxWork + Waited
      BY <1>9, <2>2 DEF SleepLockCarried, StandSettles
    <3>2. \A a, b, c, d, e \in Nat : a <= b + c /\ c <= d => a <= b + d + e
      OBVIOUS
    <3>3. stay <= MaxWork + Pass + elapsed
      BY <1>5, <2>2, <3>1, <3>2
    <3>4. QED BY <1>3, <1>9, <3>3
  <2>3. QED BY <1>3, <1>9, <2>1, <2>2
<1>10. StandSettles'
  BY <1>1, <1>2, <1>5, <1>7, <1>8, <1>9 DEF SleepLockCarried, StandSettles
<1>11. WalkInOrder => WalkInOrder'
  BY <1>1, <1>2, <1>3, <1>4 DEF WalkInOrder
<1>12. QED BY <1>1, <1>6, <1>10, <1>11 DEF SleepLockCarried, Settle, Pass

\* What the lock says of the bridge alone does not change while the bridge does not.
LEMMA BridgeUntouched ==
    ASSUME UNCHANGED bridgeVars
    PROVE  UNCHANGED <<B!Alive, Awake, AwakeNext, Up, Waited, MoveWaits, MoveTaken,
                       pc, cache, sample, elapsed>>
<1>1. UNCHANGED <<pc, cache, sample, robot, elapsed>>
  BY DEF bridgeVars
<1>2. UNCHANGED <<B!Alive, Waited>>
  BY <1>1 DEF B!Alive, B!WorkPhase, Waited
<1>3. UNCHANGED Awake
  BY <1>1, <1>2 DEF Awake
<1>4. UNCHANGED AwakeNext
  BY <1>1, <1>3 DEF AwakeNext
<1>5. UNCHANGED Up
  BY <1>1, <1>4 DEF Up, Pressed
<1>6. UNCHANGED <<MoveWaits, MoveTaken>>
  BY <1>1 DEF MoveWaits, MoveTaken, Pressed
<1>7. QED BY <1>1, <1>2, <1>3, <1>4, <1>5, <1>6

\* A new robot state: a walk is rash unless STAND has settled, and a new mode has
\* its time ahead.
LEMMA LockKeptBySetState ==
    ASSUME B!IInv, PublisherTypeOK, SleepLockCarried, NEW cmd \in Commands, LockSetState(cmd)
    PROVE  SleepLockCarried'
<1>1. /\ UNCHANGED bridgeVars
      /\ UNCHANGED <<thread, state_snapshot, clicked_mode, button_hold_ticks, beat, link_up>>
      /\ thread # "off" /\ current_robot_state' = cmd
      /\ stay' = IF cmd.mode = current_robot_state.mode THEN stay ELSE 0
      /\ rash' = IF cmd \in Moves /\ current_robot_state.mode # MODE_MOVE THEN ~Settled ELSE rash
  BY DEF LockSetState, SetState, P!SetState
<1>2. UNCHANGED <<B!Alive, Awake, AwakeNext, Up, Waited, MoveWaits, MoveTaken,
                  pc, cache, sample, elapsed>>
  BY <1>1, BridgeUntouched
<1>3. UNCHANGED <<Beating, StaysUp, Clicking, StandDelay>>
  BY <1>1, <1>2 DEF Beating, StaysUp, Clicking, ClickedFor, StandDelay, Pressed
<1>4. TopicOrderly'
  BY <1>1, <1>2, <1>3 DEF SleepLockCarried, TopicOrderly
<1>5. /\ Beating => 0 <= StandDelay
      /\ 0 <= beat /\ 0 <= MaxWork + Waited /\ 0 <= MaxWork + Pass + elapsed
      /\ 0 \in 0 .. Settle + 1
  BY WaitedTyped, TimingTyped DEF StandDelay, PublisherTypeOK, Settle
<1>6. StandSettles'
  <2>1. CASE cmd.mode = current_robot_state.mode
    BY <1>1, <1>2, <1>3, <2>1 DEF SleepLockCarried, StandSettles
  <2>2. CASE cmd.mode # current_robot_state.mode
    <3>1. stay' = 0
      BY <1>1, <2>2
    <3>2. QED BY <1>1, <1>2, <1>3, <1>5, <3>1 DEF StandSettles
  <2>3. QED BY <2>1, <2>2
<1>7. ASSUME ~rash' PROVE WalkInOrder'
  <2>1. CASE cmd \in Moves /\ current_robot_state.mode # MODE_MOVE
    <3>1. Settled
      BY <1>1, <1>7, <2>1
    <3>2. (Beating => StaysUp) /\ (MoveWaits => AwakeNext) /\ (MoveTaken => Awake)
      BY <3>1, StandArrives
    <3>3. thread = "publish" => Up
      BY <3>2 DEF Beating, StaysUp
    <3>4. QED BY <1>1, <1>2, <1>3, <3>2, <3>3 DEF WalkInOrder
  <2>2. CASE ~(cmd \in Moves /\ current_robot_state.mode # MODE_MOVE)
    <3>1. WalkInOrder
      BY <1>1, <1>7, <2>2 DEF SleepLockCarried
    <3>2. cmd.mode = MODE_MOVE => current_robot_state.mode = MODE_MOVE
      BY <2>2 DEF Moves
    <3>3. QED BY <1>1, <1>2, <1>3, <3>1, <3>2 DEF WalkInOrder
  <2>3. QED BY <2>1, <2>2
<1>8. stay' \in 0 .. Settle + 1 /\ rash' \in BOOLEAN
  BY <1>1, <1>5 DEF SleepLockCarried
<1>9. QED BY <1>4, <1>6, <1>7, <1>8 DEF SleepLockCarried, Settle, Pass

\* A copy of the robot state follows it.
LEMMA LockCopy ==
    ASSUME B!IInv, PublisherTypeOK, SleepLockCarried, Copy, UNCHANGED <<stay, rash>>
    PROVE  SleepLockCarried'
<1>1. /\ UNCHANGED bridgeVars
      /\ UNCHANGED <<current_robot_state, clicked_mode, button_hold_ticks, link_up>>
      /\ thread = "sleep" /\ thread' = "publish" /\ SleepTicks <= beat /\ beat' = 0
      /\ state_snapshot' = current_robot_state
  BY TimingTyped DEF Copy, P!Copy, PublisherTypeOK
<1>2. UNCHANGED <<B!Alive, Awake, AwakeNext, Up, Waited, MoveWaits, MoveTaken,
                  pc, cache, sample, elapsed>>
  BY <1>1, BridgeUntouched
<1>3. Beating /\ Beating' /\ thread' # "off"
  BY <1>1 DEF Beating
<1>4. ClickedFor' = ClickedFor
  BY <1>1, TimingTyped DEF ClickedFor, PublisherTypeOK
<1>5. UNCHANGED Clicking
  BY <1>1, <1>2, <1>4 DEF Clicking, Pressed
<1>6. TopicOrderly'
  BY <1>1, <1>2, <1>3, <1>5 DEF SleepLockCarried, TopicOrderly
<1>7. current_robot_state.mode \in {MODE_STAND, MODE_MOVE} => (StaysUp <=> Up) /\ (StaysUp' <=> Up')
  BY <1>1 DEF StaysUp, MODE_STAND, MODE_MOVE, MODE_SLEEP
<1>8. ASSUME current_robot_state.mode = MODE_STAND, stay <= StandDelay
      PROVE  stay <= StandDelay'
  <2>1. stay \in Nat /\ beat <= MaxSleep /\ beat \in Nat
    BY <1>1, TimingTyped DEF PublisherTypeOK, SleepLockCarried
  <2>2. QED BY <1>1, <1>2, <1>8, <2>1, TimingTyped DEF StandDelay
<1>9. StandSettles'
  BY <1>1, <1>2, <1>3, <1>7, <1>8 DEF SleepLockCarried, StandSettles
<1>10. WalkInOrder => WalkInOrder'
  BY <1>1, <1>2, <1>3, <1>7 DEF WalkInOrder
<1>11. QED BY <1>6, <1>9, <1>10 DEF SleepLockCarried, Settle, Pass

\* A frame is written behind what waits: a click of SLEEP is clicked as such, a
\* click of STAND or MOVE is renewed before it could be overwritten.
LEMMA LockPublish ==
    ASSUME ClicksArrive, B!IInv, PublisherTypeOK, SleepLockCarried, Publish,
           UNCHANGED <<stay, rash>>
    PROVE  SleepLockCarried'
<1> DEFINE snap == state_snapshot
           frame == P!FrameOf(snap)
<1>1. /\ UNCHANGED <<current_robot_state, state_snapshot, link_up>>
      /\ thread = "publish" /\ thread' = "sleep" /\ beat' = 0
      /\ clicked_mode' = snap.mode /\ button_hold_ticks' = P!Max0(P!Held(snap) - 1)
      /\ IF B!Alive THEN B!Deliver(frame) ELSE UNCHANGED bridgeVars
  BY DEF Publish, P!Publish, P!publish_movement, SleepLockCarried, TopicOrderly
<1>2. Beating /\ Beating' /\ thread' # "off"
  BY <1>1 DEF Beating
<1>3. /\ frame \in Frame /\ frame.pressed = IF P!Held(snap) > 0 THEN {snap.mode} \cap Modes ELSE {}
      /\ P!Held(snap) = IF snap.mode # clicked_mode THEN HoldFrames ELSE button_hold_ticks
  BY CommandsTyped, FrameTyped, SameMessages DEF PublisherTypeOK, P!FrameOf, P!Held
<1>4. UNCHANGED <<pc, sample, robot, elapsed, B!Alive, Awake, AwakeNext, Waited, MoveTaken>>
  <2>1. UNCHANGED <<pc, sample, robot, elapsed>>
    BY <1>1 DEF B!Deliver, bridgeVars
  <2>2. UNCHANGED <<B!Alive, Waited, MoveTaken>>
    BY <2>1 DEF B!Alive, B!WorkPhase, Waited, MoveTaken, Pressed
  <2>3. QED BY <2>1, <2>2 DEF Awake, AwakeNext
<1>5. cache' = IF B!Alive THEN frame ELSE cache
  BY <1>1 DEF B!Deliver, bridgeVars
<1>6. /\ beat \in Nat /\ beat <= MaxWork /\ stay \in Nat
      /\ button_hold_ticks \in Nat /\ button_hold_ticks <= HoldFrames
      /\ Waited \in Nat /\ Pass \in Nat
  BY <1>1, WaitedTyped, TimingTyped DEF PublisherTypeOK, SleepLockCarried
<1>7. Up /\ snap.mode # MODE_SLEEP => Up'
  BY <1>3, <1>4, <1>5 DEF Up, Pressed
<1>8. ~B!Alive => Up /\ Up'
  <2> SUFFICES ASSUME ~B!Alive PROVE Up /\ Up'
    OBVIOUS
  <2>1. Up
    BY UpWhileGone DEF SleepLockCarried
  <2>2. QED BY <1>4, <1>5, <2>1 DEF Up, Pressed
<1>9. ASSUME snap.mode \in {MODE_STAND, MODE_MOVE}, ~Up' PROVE Clicking'
  <2>1. B!Alive /\ ~Up
    BY <1>7, <1>8, <1>9 DEF MODE_STAND, MODE_MOVE, MODE_SLEEP
  <2>2. clicked_mode = snap.mode => Clicking /\ button_hold_ticks > 0
    BY <1>1, <1>2, <1>9, <2>1, ClickOutlasts DEF SleepLockCarried, TopicOrderly
  <2>3. P!Held(snap) > 0 /\ P!Held(snap) \in Nat
    BY <1>3, <1>6, <1>9, <2>2, TimingTyped
  <2>4. Pressed(cache', snap.mode)
    BY <1>3, <1>5, <1>9, <2>1, <2>3 DEF Pressed, Modes
  <2>5. button_hold_ticks' = P!Held(snap) - 1
    BY <1>1, <2>3 DEF P!Max0
  <2>6. ClickedFor' = (HoldFrames - P!Held(snap)) * SleepTicks
    <3>1. ClickedFor' = (HoldFrames - (1 + button_hold_ticks')) * SleepTicks + 0
      BY <1>1, TimingTyped DEF ClickedFor
    <3>2. 1 + button_hold_ticks' = P!Held(snap)
      BY <2>3, <2>5
    <3>3. QED BY <2>3, <3>1, <3>2, TimingTyped
  <2>7. CASE clicked_mode = snap.mode
    <3>1. ClickedFor = (HoldFrames - (1 + button_hold_ticks)) * SleepTicks + SleepTicks
      BY <1>1 DEF ClickedFor
    <3>2. ClickedFor = (HoldFrames - button_hold_ticks) * SleepTicks
      BY <1>6, <3>1, TimingTyped
    <3>3. ClickedFor' <= Waited
      BY <1>3, <1>9, <2>2, <2>6, <2>7, <3>2 DEF Clicking
    <3>4. QED BY <1>1, <1>4, <1>9, <2>4, <3>3 DEF Clicking
  <2>8. CASE clicked_mode # snap.mode
    <3>1. ClickedFor' = 0
      BY <1>3, <1>9, <2>6, <2>8, TimingTyped
    <3>2. QED BY <1>1, <1>4, <1>6, <1>9, <2>4, <3>1 DEF Clicking
  <2>9. QED BY <2>7, <2>8
<1>10. ASSUME current_robot_state.mode = MODE_STAND, ~StaysUp' PROVE stay <= StandDelay'
  <2>1. ~Up'
    BY <1>1, <1>10 DEF StaysUp
  <2>2. ~StaysUp
    BY <1>1, <1>7, <2>1 DEF StaysUp
  <2>3. stay <= StandDelay
    BY <1>2, <1>10, <2>2 DEF SleepLockCarried, StandSettles
  <2>4. CASE snap.mode # MODE_STAND
    BY <1>1, <1>6, <2>3, <2>4, TimingTyped DEF StandDelay
  <2>5. CASE snap.mode = MODE_STAND
    <3>1. StandDelay' = Pass + Waited
      BY <1>1, <1>4, <2>5 DEF StandDelay
    <3>2. StandDelay <= Pass + Waited
      BY <1>1, <1>6, <2>5, TimingTyped DEF StandDelay, Pass
    <3>3. StandDelay \in Nat
      BY <1>1, <1>6, <2>5, TimingTyped DEF StandDelay
    <3>4. QED BY <1>6, <2>3, <3>1, <3>2, <3>3
  <2>6. QED BY <2>4, <2>5
<1>11. (\A f \in Frame \cap {cache, sample} : \E mode \in Modes : f.pressed \subseteq {mode})'
  BY <1>3, <1>4, <1>5 DEF SleepLockCarried, TopicOrderly, Modes
<1>12. (Beating /\ clicked_mode \in {MODE_STAND, MODE_MOVE} => Up \/ Clicking)'
  BY <1>1, <1>9
<1>13. (~B!Alive => cache = NoSample)'
  BY <1>4, <1>5 DEF SleepLockCarried, TopicOrderly
<1>14. TopicOrderly'
  BY <1>1, <1>2, <1>11, <1>12, <1>13 DEF SleepLockCarried, TopicOrderly
<1>15. MoveWaits' => snap.mode = MODE_MOVE \/ MoveWaits
  BY <1>3, <1>5 DEF MoveWaits, Pressed
<1>16. ASSUME current_robot_state.mode = MODE_STAND, MoveWaits'
       PROVE  AwakeNext \/ stay <= MaxWork + Waited
  <2>1. CASE snap.mode = MODE_MOVE
    <3>1. stay <= beat
      BY <1>1, <1>16, <2>1 DEF SleepLockCarried, StandSettles, MODE_STAND, MODE_MOVE
    <3>2. QED BY <1>6, <3>1, TimingTyped
  <2>2. CASE MoveWaits
    BY <1>16, <2>2 DEF SleepLockCarried, StandSettles
  <2>3. QED BY <1>15, <1>16, <2>1, <2>2
<1>17. StandSettles'
  BY <1>1, <1>4, <1>10, <1>16 DEF SleepLockCarried, StandSettles
<1>18. WalkInOrder => WalkInOrder'
  <2> SUFFICES ASSUME WalkInOrder PROVE WalkInOrder'
    OBVIOUS
  <2>1. MoveWaits' => AwakeNext'
    BY <1>1, <1>4, <1>15 DEF WalkInOrder, Up
  <2>2. Beating' /\ current_robot_state'.mode = MODE_MOVE => StaysUp'
    BY <1>1, <1>2, <1>7 DEF WalkInOrder, StaysUp
  <2>3. QED BY <1>1, <1>4, <2>1, <2>2 DEF WalkInOrder
<1>19. QED BY <1>14, <1>17, <1>18 DEF SleepLockCarried, Settle, Pass

\* Time passes for a click and for the frame in the cache alike, and for STAND
\* and what still delays it.
LEMMA LockKeptByTick ==
    ASSUME B!IInv, PublisherTypeOK, SleepLockCarried, LockTick
    PROVE  SleepLockCarried'
<1>1. /\ UNCHANGED <<current_robot_state, thread, state_snapshot, clicked_mode,
                     button_hold_ticks, link_up, rash>>
      /\ beat' = IF thread \in {"sleep", "publish"} THEN beat + 1 ELSE beat
      /\ stay' \in 0 .. Settle + 1 /\ stay' <= stay + 1
      /\ UNCHANGED <<pc, cache, sample, robot>>
      /\ elapsed' = IF B!Alive THEN elapsed + 1 ELSE elapsed
  <2>1. Settle \in Nat
    BY TimingTyped DEF Settle, Pass
  <2>2. QED BY <2>1 DEF LockTick, Tick, P!Tick, B!Tick, bridgeVars, SleepLockCarried
<1>2. /\ beat \in Nat /\ stay \in Nat /\ stay' \in Nat /\ button_hold_ticks \in Nat
      /\ Waited \in Nat /\ Pass \in Nat /\ elapsed \in Nat /\ ClickedFor \in Int /\ MaxWork \in Nat
  BY <1>1, WaitedTyped, ClickedTyped, TimingTyped DEF PublisherTypeOK, SleepLockCarried
<1>3. UNCHANGED <<B!Alive, Awake, AwakeNext, Up, StaysUp, Beating, MoveWaits, MoveTaken>>
  <2>1. UNCHANGED <<B!Alive, MoveWaits, MoveTaken>>
    BY <1>1 DEF B!Alive, B!WorkPhase, MoveWaits, MoveTaken, Pressed
  <2>2. UNCHANGED AwakeNext /\ UNCHANGED Awake
    BY <1>1, <2>1 DEF AwakeNext, Awake
  <2>3. QED BY <1>1, <2>1, <2>2 DEF Up, StaysUp, Pressed, Beating
<1>4. B!Alive => Waited' = Waited + 1
  BY <1>1, <1>2, TimingTyped DEF Waited
<1>5. Clicking /\ B!Alive => Clicking'
  <2> SUFFICES ASSUME Clicking, B!Alive PROVE Clicking'
    OBVIOUS
  <2> DEFINE frames == (HoldFrames - (1 + button_hold_ticks)) * SleepTicks
  <2>1. frames \in Int /\ UNCHANGED frames
    BY <1>1, <1>2, TimingTyped
  <2> HIDE DEF frames
  <2>2. ClickedFor = frames + (IF thread = "sleep" /\ beat < SleepTicks THEN beat ELSE SleepTicks)
    BY DEF ClickedFor, frames
  <2>3. ClickedFor' = frames + (IF thread = "sleep" /\ beat' < SleepTicks THEN beat' ELSE SleepTicks)
    BY <1>1, <2>1 DEF ClickedFor, frames
  <2>4. ClickedFor' <= ClickedFor + 1 /\ ClickedFor' \in Int
    BY <1>1, <1>2, <2>1, <2>2, <2>3, TimingTyped
  <2>5. ClickedFor' <= Waited'
    BY <1>2, <1>4, <2>4 DEF Clicking
  <2>6. QED BY <1>1, <2>5 DEF Clicking, Pressed
<1>6. TopicOrderly'
  <2>1. Beating /\ clicked_mode \in {MODE_STAND, MODE_MOVE} => Up \/ Clicking'
    BY <1>5, UpWhileGone DEF SleepLockCarried, TopicOrderly
  <2>2. QED BY <1>1, <1>3, <2>1 DEF SleepLockCarried, TopicOrderly
<1>7. ASSUME Beating, current_robot_state.mode = MODE_STAND, ~StaysUp PROVE stay' <= StandDelay'
  <2>1. stay <= StandDelay
    BY <1>7 DEF SleepLockCarried, StandSettles
  <2>2. beat' = beat + 1
    BY <1>1, <1>7 DEF Beating
  <2>3. CASE thread = "publish" /\ state_snapshot.mode # MODE_STAND
    BY <1>1, <1>2, <2>1, <2>2, <2>3 DEF StandDelay
  <2>4. CASE ~(thread = "publish" /\ state_snapshot.mode # MODE_STAND) /\ clicked_mode # MODE_STAND
    BY <1>1, <1>2, <2>1, <2>2, <2>4, TimingTyped DEF StandDelay
  <2>5. CASE ~(thread = "publish" /\ state_snapshot.mode # MODE_STAND) /\ clicked_mode = MODE_STAND
    <3>1. B!Alive
      BY <1>7, <2>5, UpWhileGone DEF StaysUp, MODE_STAND, MODE_SLEEP, SleepLockCarried
    <3>2. stay <= Pass + Waited
      BY <2>1, <2>5 DEF StandDelay
    <3>3. StandDelay' = Pass + (Waited + 1)
      BY <1>1, <1>4, <2>5, <3>1 DEF StandDelay
    <3>4. QED BY <1>1, <1>2, <3>2, <3>3
  <2>6. QED BY <2>3, <2>4, <2>5
<1>8. ASSUME current_robot_state.mode = MODE_STAND, MoveWaits, ~AwakeNext
      PROVE  stay' <= MaxWork + Waited'
  <2>1. stay <= MaxWork + Waited
    BY <1>8 DEF SleepLockCarried, StandSettles
  <2>2. B!Alive
    BY <1>8, UpWhileGone DEF Up, SleepLockCarried
  <2>3. QED BY <1>1, <1>2, <1>4, <2>1, <2>2
<1>9. ASSUME current_robot_state.mode = MODE_STAND, MoveTaken, ~Awake
      PROVE  stay' <= MaxWork + Pass + elapsed'
  <2>1. stay <= MaxWork + Pass + elapsed
    BY <1>9 DEF SleepLockCarried, StandSettles
  <2>2. B!Alive
    BY <1>9 DEF Awake
  <2>3. QED BY <1>1, <1>2, <2>1, <2>2
<1>10. thread = "publish" /\ state_snapshot.mode # current_robot_state.mode => stay' <= beat'
  BY <1>1, <1>2 DEF SleepLockCarried, StandSettles
<1>11. StandSettles'
  BY <1>1, <1>3, <1>7, <1>8, <1>9, <1>10 DEF StandSettles
<1>12. WalkInOrder => WalkInOrder'
  BY <1>1, <1>3 DEF WalkInOrder
<1>13. QED BY <1>1, <1>6, <1>11, <1>12 DEF SleepLockCarried, Settle, Pass

\* Every step keeps the lock.
LEMMA NextLock ==
    ClicksArrive /\ B!IInv /\ PublisherTypeOK /\ SleepLockCarried /\ [LockNext]_lockVars
        => SleepLockCarried'
<1> SUFFICES ASSUME ClicksArrive, B!IInv, PublisherTypeOK, SleepLockCarried, [LockNext]_lockVars
             PROVE  SleepLockCarried'
  OBVIOUS
<1>1. CASE (BridgeStep \/ BridgeRestart) /\ UNCHANGED <<stay, rash>>
  BY <1>1, LockBridge
<1>2. ASSUME NEW cmd \in Commands, LockSetState(cmd) PROVE SleepLockCarried'
  BY <1>2, LockKeptBySetState
<1>3. CASE Copy /\ UNCHANGED <<stay, rash>>
  BY <1>3, LockCopy
<1>4. CASE Publish /\ UNCHANGED <<stay, rash>>
  BY <1>4, LockPublish
<1>5. CASE LockTick
  BY <1>5, LockKeptByTick
<1>6. CASE BrainExit /\ UNCHANGED <<stay, rash>>
  <2>1. /\ thread' = "off" /\ current_robot_state' = Asleep /\ clicked_mode' = -1
        /\ UNCHANGED <<link_up, stay, rash>>
        /\ \/ cache' = InvalidSample /\ B!Alive /\ UNCHANGED <<pc, sample, robot>>
           \/ UNCHANGED <<pc, cache, sample, robot>>
    BY <1>6 DEF BrainExit, P!Exit, B!WriterGone, bridgeVars
  <2>2. UNCHANGED <<B!Alive, Awake, AwakeNext, MoveTaken>>
    BY <2>1 DEF B!Alive, B!WorkPhase, Awake, AwakeNext, MoveTaken, Pressed
  <2>3. MoveWaits' => MoveWaits
    BY <2>1, TeleopAssumption DEF MoveWaits, Pressed
  <2>4. Asleep.mode = MODE_SLEEP /\ MODE_SLEEP \notin {MODE_STAND, MODE_MOVE}
    BY TeleopAssumption DEF MODE_SLEEP, MODE_STAND, MODE_MOVE
  <2>5. TopicOrderly'
    BY <2>1, <2>2, <2>4, TeleopAssumption DEF SleepLockCarried, TopicOrderly, Beating
  <2>6. StandSettles'
    BY <2>1, <2>4 DEF StandSettles
  <2>7. WalkInOrder => WalkInOrder'
    BY <2>1, <2>2, <2>3 DEF WalkInOrder, Beating
  <2>8. QED BY <2>1, <2>5, <2>6, <2>7 DEF SleepLockCarried, Settle, Pass
<1>7. CASE (BrainStart \/ PublishThrows) /\ UNCHANGED <<stay, rash>>
  <2>1. /\ UNCHANGED <<current_robot_state, bridgeVars, link_up, stay, rash>>
        /\ \/ thread = "off" /\ thread' = "sleep" /\ UNCHANGED clicked_mode
           \/ thread' = "dead"
    BY <1>7 DEF BrainStart, P!Start, PublishThrows, P!PublishThrows, P!publish_movement
  <2>2. UNCHANGED <<B!Alive, Awake, AwakeNext, Waited, MoveWaits, MoveTaken,
                    pc, cache, sample, elapsed>>
    BY <2>1, BridgeUntouched
  <2>3. TopicOrderly'
    BY <2>1, <2>2 DEF SleepLockCarried, TopicOrderly, Beating, MODE_STAND, MODE_MOVE
  <2>4. thread = "off" => current_robot_state.mode \notin {MODE_STAND, MODE_MOVE}
    BY DEF SleepLockCarried, TopicOrderly, MODE_SLEEP, MODE_STAND, MODE_MOVE
  <2>5. StandSettles'
    BY <2>1, <2>2, <2>4 DEF SleepLockCarried, StandSettles, Beating
  <2>6. WalkInOrder => WalkInOrder'
    BY <2>1, <2>2, <2>4 DEF WalkInOrder, Beating
  <2>7. QED BY <2>1, <2>3, <2>5, <2>6 DEF SleepLockCarried, Settle, Pass
<1>8. CASE LinkDown \/ LinkUp
  BY <1>8 DEF LinkDown, LinkUp, ClicksArrive, SleepLockCarried, TopicOrderly
<1>9. CASE UNCHANGED lockVars
  <2>1. UNCHANGED <<bridgeVars, current_robot_state, thread, state_snapshot, clicked_mode,
                    button_hold_ticks, beat, link_up, stay, rash>>
    BY <1>9 DEF lockVars, vars, brainVars
  <2>2. UNCHANGED <<B!Alive, Awake, AwakeNext, Up, Waited, MoveWaits, MoveTaken,
                    pc, cache, sample, elapsed>>
    BY <2>1, BridgeUntouched
  <2>3. UNCHANGED <<Beating, StaysUp, Clicking, StandDelay>>
    BY <2>1, <2>2 DEF Beating, StaysUp, Clicking, ClickedFor, StandDelay, Pressed
  <2>4. TopicOrderly' /\ StandSettles'
    BY <2>1, <2>2, <2>3 DEF SleepLockCarried, TopicOrderly, StandSettles
  <2>5. WalkInOrder => WalkInOrder'
    BY <2>1, <2>2, <2>3 DEF WalkInOrder
  <2>6. QED BY <2>1, <2>4, <2>5 DEF SleepLockCarried, Settle, Pass
<1>10. QED BY <1>1, <1>2, <1>3, <1>4, <1>5, <1>6, <1>7, <1>8, <1>9 DEF LockNext

\* The history variables constrain nothing: a step of the lock is one of the path.
LEMMA LockRefines == (LockInit => Init) /\ ([LockNext]_lockVars => [Next]_vars)
  BY DEF LockInit, LockNext, lockVars, LockSetState, LockTick, Next

\* The only step that sets MOVE is one that handles a click of it.
LEMMA MoveIsClicked ==
    ASSUME B!IInv, PublisherTypeOK, SleepLockCarried, [Next]_vars, robot.mode = MODE_SLEEP, ~rash
    PROVE  robot'.mode # MODE_MOVE
<1>1. robot \in [mode : Modes, vel : [Axis -> Float]]
  BY SameMessages DEF B!IInv, B!TypeOK
<1>2. /\ B!MODE_SLEEP = MODE_SLEEP /\ B!MODE_STAND = MODE_STAND /\ MODE_STAND # MODE_MOVE
      /\ MODE_SLEEP # MODE_MOVE
  BY DEF B!MODE_SLEEP, MODE_SLEEP, B!MODE_STAND, MODE_STAND, MODE_MOVE
<1>3. [B!Next]_(B!vars)
  BY NextBridge
<1>4. CASE B!HandleSample
  <2>1. /\ pc = "handle" /\ sample \in Frame
        /\ robot'.mode = RequestedMode(sample, MODE_SLEEP)
    BY <1>1, <1>4, SameMessages DEF B!HandleSample, B!Goto, B!setMode, B!IInv, B!Handled
  <2>2. PICK mode \in Modes : sample.pressed \subseteq {mode}
    BY <2>1 DEF SleepLockCarried, TopicOrderly
  <2>3. robot'.mode = IF sample.pressed = {} THEN MODE_SLEEP ELSE mode
    BY <2>1, <2>2, RequestedSingle
  <2>4. ~(sample.pressed # {} /\ mode = MODE_MOVE)
    BY <2>1, <2>2
    DEF SleepLockCarried, WalkInOrder, MoveTaken, Pressed, Awake, B!Alive, B!WorkPhase
  <2>5. QED BY <1>2, <2>3, <2>4
<1>5. CASE B!MainStep /\ ~B!HandleSample
  BY <1>1, <1>2, <1>5
  DEF B!MainStep, B!BootFails, B!Boot, B!Connect, B!ConnectThrows, B!Take, B!TakeThrows,
      B!SkipSample, B!SendVelocity, B!WatchdogQuiet, B!WatchdogFires, B!Freeze, B!Wake,
      B!Shutdown, B!Park, B!setMode, B!setVelocity
<1>6. CASE \/ B!Restart \/ B!signal_handler \/ (\E frame \in Frame : B!Deliver(frame))
           \/ B!WriterGone \/ B!Tick \/ UNCHANGED B!vars
  BY <1>2, <1>6 DEF B!Restart, B!signal_handler, B!Deliver, B!WriterGone, B!Tick, B!vars
<1>7. QED BY <1>3, <1>4, <1>5, <1>6 DEF B!Next

\* Without a rash walk the robot goes through STAND before it walks, whichever of
\* its clicks the reader's cache drops, and through restarts of either process.
THEOREM SleepLockReachesRobot == ClicksArrive => (LockSpec => StandsBeforeWalking)
<1> SUFFICES ASSUME ClicksArrive PROVE LockSpec => StandsBeforeWalking
  OBVIOUS
<1>1. LockSpec => Spec
  BY LockRefines, PTL DEF LockSpec, Spec
<1>2. LockInit => SleepLockCarried
  <2>1. 0 \in 0 .. Settle + 1
    BY TimingTyped DEF Settle, Pass
  <2>2. QED BY <2>1, TeleopAssumption
        DEF LockInit, Init, B!Init, P!Init, SleepLockCarried, TopicOrderly, StandSettles,
            WalkInOrder, MoveWaits, MoveTaken, Pressed, Beating, MODE_SLEEP, MODE_STAND, MODE_MOVE
<1>3. B!IInv /\ PublisherTypeOK /\ SleepLockCarried /\ [LockNext]_lockVars => SleepLockCarried'
  BY NextLock
<1>4. B!IInv /\ PublisherTypeOK /\ SleepLockCarried /\ [LockNext]_lockVars =>
          [robot.mode = MODE_SLEEP /\ robot'.mode = MODE_MOVE => rash]_lockVars
  BY LockRefines, MoveIsClicked
<1>5. QED BY <1>1, <1>2, <1>3, <1>4, Typed, PTL DEF LockSpec, StandsBeforeWalking
=============================================================================
