------------------------------- MODULE Brain -------------------------------
(***************************************************************************)
(* process_text_command of brain.py, as run by its two kinds of callers:   *)
(* the microphone thread, which waits for each command to return, and the  *)
(* web server's event loop, on which any number of requests take turns.    *)
(*                                                                         *)
(* A caller stands for one activation at a time.  Between its awaits an    *)
(* activation runs on its thread alone, but other threads run between any  *)
(* two of its steps.  The critical sections under state_lock hold one      *)
(* assignment each, so each is one step.                                   *)
(***************************************************************************)
EXTENDS Rules, FiniteSets

CONSTANTS
    Callers,        \* concurrent activations of process_text_command
    ThreadOf,       \* the thread each of them runs on
    Texts,          \* the commands that are spoken or posted
    Idle,           \* no activation
    MaxMemory,      \* the length of command_memory (5)
    MaxCommands,    \* bound: commands issued in a run
    MayFail,        \* whether a request to the language model can fail
    Lacking         \* the sets of fields an answer can lack

ASSUME BrainAssumption ==
    /\ IsFiniteSet(Callers)
    /\ ThreadOf \in [Callers -> STRING]
    /\ Texts \subseteq Intent
    /\ Idle \notin Callers
    /\ MaxMemory \in Nat \ {0} /\ MaxCommands \in Nat
    /\ MayFail \in BOOLEAN
    /\ Lacking \subseteq SUBSET Field

VARIABLES
    current_robot_state,
    command_memory,
    pc,             \* where each activation is
    running,        \* the activation each thread runs, or Idle
    text_command,   \* of each activation
    history_text,   \* the memory it put in its prompt
    last_state,     \* the LAST ROBOT STATE it put in its prompt
    new_state,      \* the answer it received
    activated,      \* history: the commands that set the state, in order
    issued          \* the number of commands so far

vars == <<current_robot_state, command_memory, pc, running, text_command,
          history_text, last_state, new_state, activated, issued>>

Threads == {ThreadOf[c] : c \in Callers}
Quiet == \A c \in Callers : pc[c] = "idle"

\* The activations at one of some places.
At(places) == {c \in Callers : pc[c] \in places}

----------------------------------------------------------------------------
Init ==
    /\ current_robot_state = Rest(MODE_SLEEP)
    /\ command_memory = <<>>
    /\ pc = [c \in Callers |-> "idle"]
    /\ running = [t \in Threads |-> Idle]
    /\ text_command = [c \in Callers |-> [kind |-> "chat"]]
    /\ history_text = [c \in Callers |-> <<>>]
    /\ last_state = [c \in Callers |-> Rest(MODE_SLEEP)]
    /\ new_state = [c \in Callers |-> Rest(MODE_SLEEP)]
    /\ activated = <<>>
    /\ issued = 0

\* An activation moves on and keeps its thread, or takes or leaves it.
Goto(c, from, to) == pc[c] = from /\ pc' = [pc EXCEPT ![c] = to]
Runs(c) == running[ThreadOf[c]] = c /\ UNCHANGED running
Takes(c) == running[ThreadOf[c]] = Idle /\ running' = [running EXCEPT ![ThreadOf[c]] = c]
Leaves(c) == running[ThreadOf[c]] = c /\ running' = [running EXCEPT ![ThreadOf[c]] = Idle]

\* What an activation knows is dropped when it returns.
Return(c) ==
    /\ Leaves(c)
    /\ text_command' = [text_command EXCEPT ![c] = [kind |-> "chat"]]
    /\ history_text' = [history_text EXCEPT ![c] = <<>>]
    /\ last_state' = [last_state EXCEPT ![c] = Rest(MODE_SLEEP)]
    /\ new_state' = [new_state EXCEPT ![c] = Rest(MODE_SLEEP)]

Locals == <<text_command, history_text, last_state, new_state>>

\* A command arrives; its history_text is made from the memory.
Begin(c, text) ==
    /\ issued < MaxCommands
    /\ Goto(c, "idle", "prompt") /\ Takes(c)
    /\ issued' = issued + 1
    /\ text_command' = [text_command EXCEPT ![c] = text]
    /\ history_text' = [history_text EXCEPT ![c] = command_memory]
    /\ UNCHANGED <<current_robot_state, command_memory, last_state, new_state, activated>>

\* user_prompt is made from the state, without the lock; the request is awaited.
Prompt(c) ==
    /\ Goto(c, "prompt", "await") /\ Leaves(c)
    /\ last_state' = [last_state EXCEPT ![c] = current_robot_state]
    /\ UNCHANGED <<current_robot_state, command_memory, text_command, history_text,
                   new_state, activated, issued>>

\* The last chunk of the answer is in; its fields are completed and validated.
Answered(c) ==
    /\ Goto(c, "await", "swap") /\ Takes(c)
    /\ \E lacking \in Lacking :
           LET reply == Completed(Answer(text_command[c], last_state[c], history_text[c]), lacking)
           IN  Validated(reply) /\ new_state' = [new_state EXCEPT ![c] = reply]
    /\ UNCHANGED <<current_robot_state, command_memory, text_command, history_text,
                   last_state, activated, issued>>

\* The request raises, or its answer is empty, no JSON or not valid.
Refused(c) ==
    /\ MayFail
    /\ Goto(c, "await", "except") /\ Takes(c)
    /\ UNCHANGED <<current_robot_state, command_memory, Locals, activated, issued>>

\* with state_lock: current_robot_state = new_state
Swap(c) ==
    /\ Goto(c, "swap", "append") /\ Runs(c)
    /\ current_robot_state' = new_state[c]
    /\ activated' = Append(activated, [text |-> text_command[c], state |-> new_state[c]])
    /\ UNCHANGED <<command_memory, Locals, issued>>

\* Mutant: the entry is put at the front.
Remember_Front(c) ==
    /\ Goto(c, "append", "trim") /\ Runs(c)
    /\ command_memory' = <<[text |-> text_command[c], state |-> new_state[c]]>>
                             \o command_memory
    /\ UNCHANGED <<current_robot_state, Locals, activated, issued>>

\* command_memory.append(...)
Remember(c) ==
    /\ Goto(c, "append", "trim") /\ Runs(c)
    /\ command_memory' = Append(command_memory,
                                [text |-> text_command[c], state |-> new_state[c]])
    /\ UNCHANGED <<current_robot_state, Locals, activated, issued>>

\* Mutant: the length is compared with >=.
Trim_AtLimit(c) ==
    /\ Len(command_memory) >= MaxMemory
    /\ Goto(c, "trim", "pop") /\ Runs(c)
    /\ UNCHANGED <<current_robot_state, command_memory, Locals, activated, issued>>

\* if len(command_memory) > 5
Trim(c) ==
    /\ Len(command_memory) > MaxMemory
    /\ Goto(c, "trim", "pop") /\ Runs(c)
    /\ UNCHANGED <<current_robot_state, command_memory, Locals, activated, issued>>

\* Mutant: one entry more is let pass.
Fits_OneMore(c) ==
    /\ Len(command_memory) <= MaxMemory + 1
    /\ Goto(c, "trim", "idle") /\ Return(c)
    /\ UNCHANGED <<current_robot_state, command_memory, activated, issued>>

\* ... or the memory is short enough: the command returns.
Fits(c) ==
    /\ Len(command_memory) <= MaxMemory
    /\ Goto(c, "trim", "idle") /\ Return(c)
    /\ UNCHANGED <<current_robot_state, command_memory, activated, issued>>

\* Mutant: clear() instead of pop(0).
Pop_All(c) ==
    /\ command_memory # <<>>
    /\ Goto(c, "pop", "idle") /\ Return(c)
    /\ command_memory' = <<>>
    /\ UNCHANGED <<current_robot_state, activated, issued>>

\* Mutant: pop() instead of pop(0).
Pop_Newest(c) ==
    /\ command_memory # <<>>
    /\ Goto(c, "pop", "idle") /\ Return(c)
    /\ command_memory' = SubSeq(command_memory, 1, Len(command_memory) - 1)
    /\ UNCHANGED <<current_robot_state, activated, issued>>

\* command_memory.pop(0), and the command returns.  pop(0) of an empty list
\* would raise; NeverPopsEmpty says that it never does.
Pop(c) ==
    /\ command_memory # <<>>
    /\ Goto(c, "pop", "idle") /\ Return(c)
    /\ command_memory' = Tail(command_memory)
    /\ UNCHANGED <<current_robot_state, activated, issued>>

\* Mutant: the safe state is remembered as a command.
SafeState_Remembered(c) ==
    /\ Goto(c, "except", "idle") /\ Return(c)
    /\ current_robot_state' = Rest(MODE_STAND)
    /\ command_memory' = Append(command_memory,
                                [text |-> text_command[c], state |-> Rest(MODE_STAND)])
    /\ UNCHANGED <<activated, issued>>

\* Mutant: a speed the robot state does not have.
SafeState_Speed(c) ==
    /\ Goto(c, "except", "idle") /\ Return(c)
    /\ current_robot_state' = [Rest(MODE_STAND) EXCEPT !.speed = "none"]
    /\ UNCHANGED <<command_memory, activated, issued>>

\* except: the safe state is set under the lock, and the command returns.
SafeState(c) ==
    /\ Goto(c, "except", "idle") /\ Return(c)
    /\ current_robot_state' = Rest(MODE_STAND)
    /\ UNCHANGED <<command_memory, activated, issued>>

\* The bound is reached: everybody is silent for good.
Silence ==
    /\ issued = MaxCommands /\ Quiet
    /\ UNCHANGED vars

\* A statement of an activation that runs.
Step(c) ==
    \/ Prompt(c)
    \/ Swap(c) \/ Remember(c) \/ Trim(c) \/ Fits(c) \/ Pop(c)
    \/ SafeState(c)

\* Mutant: one request of all is waited for at a time.
Resume_InTurn(c) ==
    /\ pc[c] = "await" /\ c = CHOOSE first \in At({"await"}) : TRUE
    /\ Answered(c) \/ Refused(c)

\* The language model answers, or the request fails, and the activation resumes.
Resume(c) == Answered(c) \/ Refused(c)

Next ==
    \/ Silence
    \/ \E c \in Callers :
           \/ \E text \in Texts : Begin(c, text)
           \/ Step(c)
           \/ Resume(c)

Spec == Init /\ [][Next]_vars

\* The threads are scheduled; nothing is promised of speakers and services.
FairSpec == Spec /\ \A c \in Callers : WF_vars(Step(c))

----------------------------------------------------------------------------
(* Properties.                                                              *)

\* Activations that have added their entry and still owe the length check or
\* the removal that follows it.
Owing == At({"trim", "pop"})

TypeOK ==
    /\ current_robot_state \in RobotState
    /\ command_memory \in Seq(Entry)
    /\ pc \in [Callers -> {"idle", "prompt", "await", "swap", "append", "trim", "pop", "except"}]
    /\ running \in [Threads -> Callers \cup {Idle}]
    /\ text_command \in [Callers -> Intent]
    /\ history_text \in [Callers -> Seq(Entry)]
    /\ last_state \in [Callers -> RobotState]
    /\ new_state \in [Callers -> RobotState]
    /\ activated \in Seq(Entry)
    /\ issued \in 0 .. MaxCommands

\* An activation between two awaits holds its thread, so at most one per thread
\* owes the memory anything.
OneAtATime ==
    \A c \in Callers : running[ThreadOf[c]] = c <=> pc[c] \notin {"idle", "await"}

\* append, length check and pop of two threads interleave freely, yet pop(0)
\* never meets an empty list: every pop is owed by an append of its own.
NeverPopsEmpty == Cardinality(Owing) <= Len(command_memory)

\* The memory exceeds its length only by what is owed, so it never grows and
\* fits whenever no command is in progress.
MemoryFits == Len(command_memory) <= MaxMemory + Cardinality(Owing)

\* Two threads may both find the memory too long and both remove an entry: it
\* then falls short of MaxMemory, by less than the number of threads.
MemoryKeeps ==
    LET appended == Len(activated) - Cardinality(At({"append"}))
        kept == Len(command_memory) - Cardinality(At({"pop"}))
    IN  kept >= appended \/ kept > MaxMemory - Cardinality(Threads)

\* Swap and append are two steps, so another thread can add its entry between
\* them: the command activated last need not be the last entry.  But once nothing
\* is left to append it is among the last few, at most one per thread, unless
\* removals of several threads left fewer entries than that.
LatestIsRecent ==
    /\ At({"append"}) = {} /\ activated # <<>>
    /\ Len(command_memory) >= Cardinality(Threads)
    => \E i \in DOMAIN command_memory :
           /\ i > Len(command_memory) - Cardinality(Threads)
           /\ command_memory[i] = activated[Len(activated)]

\* "The robot CANNOT move if it is currently sleeping": no command takes the
\* robot state from sleep to MOVE.
NeverWalksFromSleep ==
    [][current_robot_state.mode = MODE_SLEEP => current_robot_state'.mode # MODE_MOVE]_vars

\* "The robot must remain asleep until the user explicitly tells it to stand
\* up": only a command to stand wakes it.
AsleepUntilTold ==
    [][\A c \in Callers :
         /\ current_robot_state.mode = MODE_SLEEP
         /\ current_robot_state'.mode # MODE_SLEEP
         /\ pc[c] \in {"swap", "except"} /\ pc'[c] # pc[c]
         => text_command[c].kind = "stand"]_vars

\* With one activation at a time the brain is a command register: an entry
\* appears in its memory with the swap that caused it.
Remembered ==
    IF \E c \in Callers : pc[c] = "append"
    THEN Append(command_memory, activated[Len(activated)]) ELSE command_memory

Register == INSTANCE CommandRegister WITH
    state <- current_robot_state,
    memory <- SubSeq(Remembered, IF Len(Remembered) > MaxMemory THEN 2 ELSE 1, Len(Remembered))

ImplementsRegister == Register!Spec

\* A request that hangs holds up nobody else: an activation whose own answer is
\* not withheld returns, whatever becomes of the others'.  An event loop resumes
\* what is ready in turn, hence the strong fairness.
Served == \A c \in Callers : SF_vars(Resume(c)) => []<>(pc[c] = "idle")

\* On one event loop the memory is exactly the latest commands, however the
\* answers were ordered: swap and append are never parted by an await.
MemoryIsLatest == Quiet => command_memory = Register!Latest(activated, MaxMemory)
=============================================================================
