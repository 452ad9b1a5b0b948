---------------------------- MODULE RulesProofs ----------------------------
(***************************************************************************)
(* Theorems about Rules: what a language model that follows the prompt can *)
(* answer, for every intent, state and history.                            *)
(***************************************************************************)
EXTENDS Rules, TLAPS

\* The states the program accepts from the model and keeps.
Legal == {state \in RobotState : Validated(state)}
LegalEntry == {entry \in Entry : entry.state \in Legal}

\* A mode without a velocity is legal.
LEMMA RestLegal ==
    ASSUME NEW m \in Modes
    PROVE  Rest(m) \in Legal /\ Rest(m).mode = m
<1>1. \A a \in Axis : MaxSpeed[a] \in Nat
  BY DEF Axis, MaxSpeed
<1>2. Zero \in Bounded
  BY <1>1 DEF Zero, Bounded
<1>3. QED BY <1>2 DEF Rest, Legal, RobotState, Validated, Bounded, Speeds

\* The speed table stays inside the limits of the validation and of the bridge,
\* "fast" on every axis included.
LEMMA GoLegal ==
    ASSUME NEW dir \in [Axis -> {-1, 0, 1}], NEW speed \in Speeds
    PROVE  Go(dir, speed) \in Legal
<1> DEFINE vel == [a \in Axis |-> dir[a] * BaseSpeed[speed][a]]
<1>1. ASSUME NEW a \in Axis
      PROVE  vel[a] \in Int /\ vel[a] \in -MaxSpeed[a] .. MaxSpeed[a]
  <2>1. dir[a] \in {-1, 0, 1}
    OBVIOUS
  <2>2. BaseSpeed[speed][a] \in 0 .. MaxSpeed[a] /\ MaxSpeed[a] \in Nat
    BY DEF Speeds, Axis, BaseSpeed, MaxSpeed
  <2>3. QED BY <2>1, <2>2
<1>2. vel \in Bounded
  BY <1>1 DEF Bounded
<1> HIDE DEF vel
<1>3. Go(dir, speed) = [mode |-> MODE_MOVE, vel |-> vel, speed |-> speed]
  BY DEF Go, vel
<1>4. QED BY <1>2, <1>3 DEF Legal, RobotState, Validated, Bounded, Modes

\* The heading of a state is a direction of the three axes.
LEMMA HeadingTyped ==
    ASSUME NEW state \in RobotState
    PROVE  Heading(state) \in [Axis -> {-1, 0, 1}]
<1>1. \A a \in Axis : state.vel[a] \in Int
  BY DEF RobotState
<1>2. \A n \in Int : Sign(n) \in {-1, 0, 1}
  BY DEF Sign
<1>3. QED BY <1>1, <1>2 DEF Heading

\* "faster" and "slower" answer legally, whatever the history holds.
LEMMA AtSpeedLegal ==
    ASSUME NEW kind \in {"faster", "slower"}, NEW last \in Legal,
           NEW history \in Seq(LegalEntry)
    PROVE  AtSpeed(kind, last, history) \in Legal
<1>1. CASE LatestMove(history) = {}
  BY <1>1 DEF AtSpeed
<1>2. CASE LatestMove(history) # {}
  <2> DEFINE i == CHOOSE j \in LatestMove(history) : TRUE
  <2>1. i \in 1 .. Len(history)
    BY <1>2 DEF LatestMove
  <2> HIDE DEF i
  <2>2. history[i].state \in RobotState
    BY <2>1 DEF LegalEntry, Legal
  <2>3. Shift[kind][history[i].state.speed] \in Speeds
    BY <2>2 DEF Shift, RobotState, Speeds
  <2>4. AtSpeed(kind, last, history)
          = Go(Heading(history[i].state), Shift[kind][history[i].state.speed])
    BY <1>2 DEF AtSpeed, i
  <2>5. QED BY <2>2, <2>3, <2>4, HeadingTyped, GoLegal
<1>3. QED BY <1>1, <1>2

\* The prompt, the validation of config.py and the limits of the bridge agree:
\* an answer that follows the prompt is never refused by the range check.
THEOREM AnswerLegal ==
    ASSUME NEW text \in Intent, NEW last \in Legal, NEW history \in Seq(LegalEntry)
    PROVE  Answer(text, last, history) \in Legal
<1>1. Asked(text, last, history) \in Legal
  <2>1. CASE text.kind = "sleep"
    BY <2>1, RestLegal DEF Asked, Modes
  <2>2. CASE text.kind = "stand"
    BY <2>2, RestLegal DEF Asked, Modes
  <2>3. CASE text.kind = "move"
    <3>1. text.dir \in [Axis -> {-1, 0, 1}] /\ text.speed \in Speeds \cup {"unsaid"}
      BY <2>3 DEF Intent, Direction
    <3>2. QED BY <2>3, <3>1, GoLegal DEF Asked, Speeds
  <2>4. CASE text.kind = "again"
    <3>1. CASE history = <<>>
      BY <2>4, <3>1 DEF Asked
    <3>2. CASE history # <<>>
      <4>1. Len(history) \in 1 .. Len(history)
        BY <3>2
      <4>2. history[Len(history)].state \in Legal
        BY <4>1 DEF LegalEntry
      <4>3. QED BY <2>4, <3>2, <4>2 DEF Asked
    <3>3. QED BY <3>1, <3>2
  <2>5. CASE text.kind \in {"faster", "slower"}
    BY <2>5, AtSpeedLegal DEF Asked
  <2>6. CASE text.kind = "chat"
    BY <2>6 DEF Asked
  <2>7. text.kind \in {"sleep", "stand", "again", "faster", "slower", "chat", "move"}
    BY DEF Intent
  <2>8. QED BY <2>1, <2>2, <2>3, <2>4, <2>5, <2>6, <2>7
<1>2. QED BY <1>1, RestLegal DEF Answer, Modes

\* Whatever an answer lacks, the defaults leave it legal, and they never turn it
\* into a movement.
THEOREM DefaultsLegal ==
    ASSUME NEW answer \in Legal, NEW lacking \in SUBSET Field
    PROVE  /\ Completed(answer, lacking) \in Legal
           /\ Completed(answer, lacking).mode = MODE_MOVE => answer.mode = MODE_MOVE
<1> DEFINE mode == IF "mode" \in lacking THEN MODE_STAND ELSE answer.mode
           vel == [a \in Axis |-> IF a \in lacking THEN 0 ELSE answer.vel[a]]
           speed == IF "speed" \in lacking THEN "slow" ELSE answer.speed
<1>1. mode \in Modes /\ speed \in Speeds /\ (mode = MODE_MOVE => answer.mode = MODE_MOVE)
  BY DEF Legal, RobotState, Modes, Speeds, MODE_STAND, MODE_MOVE
<1>2. vel \in Bounded
  <2>1. ASSUME NEW a \in Axis PROVE vel[a] \in Int /\ vel[a] \in -MaxSpeed[a] .. MaxSpeed[a]
    <3>1. answer.vel[a] \in Int /\ answer.vel[a] \in -MaxSpeed[a] .. MaxSpeed[a]
      BY DEF Legal, Validated, Bounded
    <3>2. MaxSpeed[a] \in Nat
      BY DEF Axis, MaxSpeed
    <3>3. QED BY <3>1, <3>2
  <2>2. QED BY <2>1 DEF Bounded
<1> HIDE DEF mode, vel, speed
<1>3. Completed(answer, lacking) = [mode |-> mode, vel |-> vel, speed |-> speed]
  BY DEF Completed, mode, vel, speed
<1>4. QED BY <1>1, <1>2, <1>3 DEF Legal, RobotState, Validated, Bounded

\* The safety gate: an answer made for a sleeping robot never moves it, however
\* the command refers to the movements of the history.
LEMMA SleepLock ==
    ASSUME NEW text, NEW last, NEW history, last.mode = MODE_SLEEP
    PROVE  Answer(text, last, history).mode # MODE_MOVE
  BY DEF Answer, Rest, MODE_SLEEP, MODE_MOVE
=============================================================================
