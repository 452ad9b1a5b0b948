------------------------------- MODULE Rules -------------------------------
(***************************************************************************)
(* grokrules.py: the system prompt.  The language model is a service       *)
(* outside the program; this module is the answer of one that follows the  *)
(* prompt to the letter, as a function of what the prompt gives it: the    *)
(* command, LAST ROBOT STATE and PREVIOUS COMMAND HISTORY.                 *)
(*                                                                         *)
(* A text is reduced to the intent the prompt tells apart.  Where the      *)
(* prompt leaves the answer open (a repetition with nothing to repeat),    *)
(* the model answers as to a remark that is no command.                    *)
(***************************************************************************)
EXTENDS JoyData, Sequences

Speeds == {"slow", "medium", "fast"}

\* SPEED & DIRECTION MAPPING: the magnitude of each axis at each speed.
BaseSpeed ==
    [slow   |-> [vx |-> 20, vy |-> 15, wz |-> 30],
     medium |-> [vx |-> 35, vy |-> 25, wz |-> 50],
     fast   |-> [vx |-> 50, vy |-> 40, wz |-> 80]]

\* SIGN CONVENTIONS: +1 is forward, left and counter-clockwise.
Direction == [Axis -> {-1, 0, 1}] \ {Zero}

RobotState == [mode : Modes, vel : [Axis -> Int], speed : Speeds]

Rest(m) == [mode |-> m, vel |-> Zero, speed |-> "slow"]

Go(dir, speed) ==
    [mode |-> MODE_MOVE, vel |-> [a \in Axis |-> dir[a] * BaseSpeed[speed][a]], speed |-> speed]

\* The intents: a mode by name, a movement with or without a speed, a
\* reference to an earlier command, and anything that is no command.
Intent ==
    [kind : {"sleep", "stand", "again", "faster", "slower", "chat"}]
    \cup [kind : {"move"}, dir : Direction, speed : Speeds \cup {"unsaid"}]

\* An entry of the memory: the command's text and the state it led to.
Entry == [text : Intent, state : RobotState]

\* "faster" / "slower": one step up or down.
Shift ==
    [faster |-> [slow |-> "medium", medium |-> "fast", fast |-> "fast"],
     slower |-> [slow |-> "slow", medium |-> "slow", fast |-> "medium"]]

Sign(n) == CASE n < 0 -> -1 [] n = 0 -> 0 [] n > 0 -> 1
Heading(state) == [a \in Axis |-> Sign(state.vel[a])]

\* The place of the most recent movement command in the history.
LatestMove(history) ==
    {i \in 1 .. Len(history) :
        /\ history[i].state.mode = MODE_MOVE
        /\ \A j \in i + 1 .. Len(history) : history[j].state.mode # MODE_MOVE}

\* That movement, one speed up or down.
AtSpeed(kind, last, history) ==
    IF LatestMove(history) = {} THEN last
    ELSE LET state == history[CHOOSE i \in LatestMove(history) : TRUE].state
         IN  Go(Heading(state), Shift[kind][state.speed])

\* What the command asks for, before the safety gate.
Asked(text, last, history) ==
    CASE text.kind = "sleep" -> Rest(MODE_SLEEP)
      [] text.kind = "stand" -> Rest(MODE_STAND)
      [] text.kind = "move" -> Go(text.dir, IF text.speed = "unsaid" THEN "slow" ELSE text.speed)
      [] text.kind = "again" -> IF history = <<>> THEN last ELSE history[Len(history)].state
      [] text.kind \in {"faster", "slower"} -> AtSpeed(text.kind, last, history)
      [] text.kind = "chat" -> last

\* Mutant: the safety gate is missing.
Answer_NoGate(text, last, history) == Asked(text, last, history)

\* SAFETY GATE - SLEEP LOCK: a sleeping robot does not move.
Answer(text, last, history) ==
    LET asked == Asked(text, last, history)
    IN  IF last.mode = MODE_SLEEP /\ asked.mode = MODE_MOVE THEN Rest(MODE_SLEEP) ELSE asked

\* The fields an answer is asked to have.
Field == Axis \cup {"mode", "speed"}

\* LLMCommand: a field the answer lacks takes its default, which is to stand; an
\* answer wrapped in another object lacks them all.
Completed(answer, lacking) ==
    [mode |-> IF "mode" \in lacking THEN MODE_STAND ELSE answer.mode,
     vel |-> [a \in Axis |-> IF a \in lacking THEN 0 ELSE answer.vel[a]],
     speed |-> IF "speed" \in lacking THEN "slow" ELSE answer.speed]

\* LLMCommand: the range check an answer passes before it is used.
Validated(state) == state.vel \in Bounded
=============================================================================
