-------------------------- MODULE CommandRegister --------------------------
(***************************************************************************)
(* What the brain promises to one speaker: each command acts at once on    *)
(* the robot state and the memory it finds, is remembered, and the memory  *)
(* keeps the latest MaxMemory commands.  A command that cannot be carried  *)
(* out leaves the robot standing, and no memory.                           *)
(***************************************************************************)
EXTENDS Rules

CONSTANTS
    Texts,          \* the commands that are given
    MaxMemory,      \* the length of the memory
    Lacking         \* the sets of fields an answer can lack

VARIABLES state, memory

vars == <<state, memory>>

\* The latest n elements of s.
Latest(s, n) == IF Len(s) <= n THEN s ELSE SubSeq(s, Len(s) - n + 1, Len(s))

Init == state = Rest(MODE_SLEEP) /\ memory = <<>>

Execute(text) ==
    /\ \E lacking \in Lacking : state' = Completed(Answer(text, state, memory), lacking)
    /\ memory' = Latest(Append(memory, [text |-> text, state |-> state']), MaxMemory)

Fail ==
    /\ state' = Rest(MODE_STAND)
    /\ UNCHANGED memory

Next == Fail \/ \E text \in Texts : Execute(text)

Spec == Init /\ [][Next]_vars
=============================================================================
