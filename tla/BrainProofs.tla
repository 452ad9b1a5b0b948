---------------------------- MODULE BrainProofs ----------------------------
(***************************************************************************)
(* Theorems about Brain, for any number of callers on any number of        *)
(* threads, any commands, and any length of the memory.                    *)
(***************************************************************************)
EXTENDS Brain, RulesProofs, FiniteSetTheorems

\* The robot states in play are legal ones: what TypeOK says, and the range
\* check of config.py besides.
LegalStates ==
    /\ current_robot_state \in Legal
    /\ command_memory \in Seq(LegalEntry)
    /\ history_text \in [Callers -> Seq(LegalEntry)]
    /\ last_state \in [Callers -> Legal]
    /\ new_state \in [Callers -> Legal]
    /\ activated \in Seq(LegalEntry)

IInv == TypeOK /\ LegalStates /\ OneAtATime /\ NeverPopsEmpty /\ MemoryFits /\ MemoryKeeps

\* A statement of an activation moves it in or out of a set of places.
LEMMA GotoCount ==
    ASSUME TypeOK, NEW c \in Callers, NEW from, NEW to, Goto(c, from, to), NEW L
    PROVE  /\ Cardinality(At(L)) \in Nat
           /\ Cardinality(At(L)') = Cardinality(At(L))
                + (IF to \in L /\ from \notin L THEN 1
                   ELSE IF from \in L /\ to \notin L THEN -1 ELSE 0)
<1>1. IsFiniteSet(At(L)) /\ Cardinality(At(L)) \in Nat
  <2>1. At(L) \in SUBSET Callers
    BY DEF At
  <2>2. QED BY <2>1, BrainAssumption, FS_Subset, FS_CardinalityType
<1>2. c \in At(L) <=> from \in L
  BY DEF At, Goto
<1>3. CASE to \in L
  <2>1. At(L)' = At(L) \cup {c}
    BY <1>3 DEF At, Goto, TypeOK
  <2>2. QED BY <1>1, <1>2, <1>3, <2>1, FS_AddElement
<1>4. CASE to \notin L
  <2>1. At(L)' = At(L) \ {c}
    BY <1>4 DEF At, Goto, TypeOK
  <2>2. Cardinality(At(L) \ {c}) = IF c \in At(L) THEN Cardinality(At(L)) - 1 ELSE Cardinality(At(L))
    BY <1>1, FS_RemoveElement
  <2>3. QED BY <1>1, <1>2, <1>4, <2>1, <2>2
<1>5. QED BY <1>3, <1>4

\* The three counts the memory invariants are about, after a statement.
LEMMA Counts ==
    ASSUME TypeOK, NEW c \in Callers, NEW from, NEW to, Goto(c, from, to)
    PROVE  LET change(L) == IF to \in L /\ from \notin L THEN 1
                            ELSE IF from \in L /\ to \notin L THEN -1 ELSE 0
           IN  /\ Cardinality(Owing) \in Nat /\ Cardinality(At({"append"})) \in Nat
               /\ Cardinality(At({"pop"})) \in Nat
               /\ Cardinality(Owing') = Cardinality(Owing) + change({"trim", "pop"})
               /\ Cardinality(At({"append"})') = Cardinality(At({"append"})) + change({"append"})
               /\ Cardinality(At({"pop"})') = Cardinality(At({"pop"})) + change({"pop"})
  BY GotoCount DEF Owing

\* There are no more activations between two awaits than threads.
LEMMA HoldsItsThread ==
    ASSUME TypeOK, OneAtATime, NEW L, "idle" \notin L, "await" \notin L
    PROVE  /\ Cardinality(At(L)) <= Cardinality(Threads)
           /\ Cardinality(Threads) \in Nat
<1>1. IsFiniteSet(Threads)
  <2>1. ThreadOf \in Surjection(Callers, Threads)
    BY BrainAssumption DEF Threads, Surjection
  <2>2. QED BY <2>1, BrainAssumption, FS_Surjection
<1> DEFINE f == [c \in At(L) |-> ThreadOf[c]]
<1>2. f \in Injection(At(L), Threads)
  <2>1. f \in [At(L) -> Threads]
    BY DEF At, Threads
  <2>2. ASSUME NEW a \in At(L), NEW b \in At(L), f[a] = f[b]
        PROVE  a = b
    <3>1. running[ThreadOf[a]] = a /\ running[ThreadOf[b]] = b
      BY DEF OneAtATime, At
    <3>2. QED BY <2>2, <3>1
  <2>3. \A a, b \in At(L) : f[a] = f[b] => a = b
    BY <2>2
  <2> HIDE DEF f
  <2>4. QED BY <2>1, <2>3 DEF Injection, IsInjective
<1>3. QED BY <1>1, <1>2, FS_Injection, FS_CardinalityType

\* In particular no more append, or remove, than there are threads.
LEMMA OnePerThread ==
    TypeOK /\ OneAtATime => /\ Cardinality(At({"pop"})) <= Cardinality(Threads)
                           /\ Cardinality(At({"append"})) <= Cardinality(Threads)
                           /\ Cardinality(Threads) \in Nat
<1> SUFFICES ASSUME TypeOK, OneAtATime
             PROVE  /\ Cardinality(At({"pop"})) <= Cardinality(Threads)
                    /\ Cardinality(At({"append"})) <= Cardinality(Threads)
                    /\ Cardinality(Threads) \in Nat
  OBVIOUS
<1>1. Cardinality(At({"pop"})) <= Cardinality(Threads) /\ Cardinality(Threads) \in Nat
  BY HoldsItsThread
<1>2. Cardinality(At({"append"})) <= Cardinality(Threads)
  BY HoldsItsThread
<1>3. QED BY <1>1, <1>2

\* Moving along keeps the types of the program counters and of the threads.
LEMMA GotoTyped ==
    ASSUME TypeOK, NEW c \in Callers, NEW from, NEW to, Goto(c, from, to),
           to \in {"idle", "prompt", "await", "swap", "append", "trim", "pop", "except"}
    PROVE  pc' \in [Callers -> {"idle", "prompt", "await", "swap", "append", "trim", "pop", "except"}]
  BY DEF TypeOK, Goto

\* Taking, keeping and leaving the thread keeps its type.
LEMMA RunningTyped ==
    ASSUME TypeOK, NEW c \in Callers, Runs(c) \/ Takes(c) \/ Leaves(c)
    PROVE  running' \in [Threads -> Callers \cup {Idle}]
  BY DEF TypeOK, Runs, Takes, Leaves, Threads

\* The statement of one activation keeps at most one of each thread running.
LEMMA OneAtATimeKept ==
    ASSUME TypeOK, OneAtATime, NEW c \in Callers, NEW from, NEW to, Goto(c, from, to),
           \/ Takes(c) /\ to \notin {"idle", "await"}
           \/ Runs(c) /\ to \notin {"idle", "await"}
           \/ Leaves(c) /\ to \in {"idle", "await"}
    PROVE  OneAtATime'
<1> SUFFICES ASSUME NEW d \in Callers
             PROVE  running'[ThreadOf[d]] = d <=> pc'[d] \notin {"idle", "await"}
  BY DEF OneAtATime
<1>1. ThreadOf[c] \in Threads /\ ThreadOf[d] \in Threads
  BY DEF Threads
<1>2. pc'[c] = to /\ (d # c => pc'[d] = pc[d])
  BY DEF Goto, TypeOK
<1>3. running[ThreadOf[d]] = d <=> pc[d] \notin {"idle", "await"}
  BY DEF OneAtATime
<1>4. Idle # c /\ Idle # d
  BY BrainAssumption
<1>5. CASE Takes(c) /\ to \notin {"idle", "await"}
  <2>1. running'[ThreadOf[c]] = c
    BY <1>1, <1>5 DEF Takes, TypeOK
  <2>2. ThreadOf[d] # ThreadOf[c] => running'[ThreadOf[d]] = running[ThreadOf[d]]
    BY <1>1, <1>5 DEF Takes, TypeOK
  <2>3. running[ThreadOf[c]] = Idle
    BY <1>5 DEF Takes
  <2>4. QED BY <1>2, <1>3, <1>4, <1>5, <2>1, <2>2, <2>3
<1>6. CASE Runs(c) /\ to \notin {"idle", "await"}
  BY <1>2, <1>3, <1>6 DEF Runs
<1>7. CASE Leaves(c) /\ to \in {"idle", "await"}
  <2>1. running'[ThreadOf[c]] = Idle
    BY <1>1, <1>7 DEF Leaves, TypeOK
  <2>2. ThreadOf[d] # ThreadOf[c] => running'[ThreadOf[d]] = running[ThreadOf[d]]
    BY <1>1, <1>7 DEF Leaves, TypeOK
  <2>3. running[ThreadOf[c]] = c
    BY <1>7 DEF Leaves
  <2>4. QED BY <1>2, <1>3, <1>4, <1>7, <2>1, <2>2, <2>3
<1>8. QED BY <1>5, <1>6, <1>7

\* A legal state is a robot state, and a legal entry an entry of the memory.
LEMMA LegalTyped ==
    /\ Legal \subseteq RobotState /\ LegalEntry \subseteq Entry
    /\ Seq(LegalEntry) \subseteq Seq(Entry)
  BY DEF Legal, LegalEntry

\* An entry made of a command and a legal state.
LEMMA EntryLegal ==
    ASSUME NEW text \in Intent, NEW state \in Legal
    PROVE  [text |-> text, state |-> state] \in LegalEntry
  BY DEF LegalEntry, Legal, Entry

\* The initial state, and the text and state an idle activation is left with.
LEMMA Defaults ==
    /\ Rest(MODE_SLEEP) \in Legal /\ Rest(MODE_STAND) \in Legal
    /\ [kind |-> "chat"] \in Intent
    /\ <<>> \in Seq(LegalEntry)
  BY RestLegal DEF Modes, Intent

----------------------------------------------------------------------------
\* Before the first command the invariant holds.
LEMMA InitIInv == Init => IInv
<1> SUFFICES ASSUME Init PROVE IInv
  OBVIOUS
<1>1. LegalStates
  BY Defaults DEF Init, LegalStates
<1>2. TypeOK
  <2>1. running \in [Threads -> Callers \cup {Idle}]
    BY DEF Init
  <2>2. text_command \in [Callers -> Intent]
    BY Defaults DEF Init
  <2>3. issued \in 0 .. MaxCommands
    BY BrainAssumption DEF Init
  <2>4. QED BY <1>1, <2>1, <2>2, <2>3, LegalTyped DEF Init, TypeOK, LegalStates
<1>3. \A places : "idle" \notin places => At(places) = {}
  BY DEF Init, At
<1>4. Owing = {} /\ At({"append"}) = {} /\ At({"pop"}) = {}
  BY <1>3 DEF Owing
<1>5. Cardinality(Owing) = 0 /\ Cardinality(At({"append"})) = 0 /\ Cardinality(At({"pop"})) = 0
  BY <1>4, FS_EmptySet
<1>6. NeverPopsEmpty /\ MemoryFits /\ MemoryKeeps
  <2>1. Len(command_memory) = 0 /\ Len(activated) = 0
    BY DEF Init
  <2>2. QED BY <1>5, <2>1, BrainAssumption DEF NeverPopsEmpty, MemoryFits, MemoryKeeps
<1>7. OneAtATime
  BY BrainAssumption DEF Init, OneAtATime, Threads
<1>8. QED BY <1>1, <1>2, <1>6, <1>7 DEF IInv

\* A statement that touches none of the three counts, nor the two lists, keeps
\* the invariants of the memory.
LEMMA MemoryUntouched ==
    ASSUME IInv, NEW c \in Callers, NEW from, NEW to, Goto(c, from, to),
           from \notin {"append", "trim", "pop"}, to \notin {"append", "trim", "pop"},
           UNCHANGED <<command_memory, activated>>
    PROVE  NeverPopsEmpty' /\ MemoryFits' /\ MemoryKeeps'
<1>1. /\ Cardinality(Owing') = Cardinality(Owing)
      /\ Cardinality(At({"append"})') = Cardinality(At({"append"}))
      /\ Cardinality(At({"pop"})') = Cardinality(At({"pop"}))
      /\ Cardinality(Owing) \in Nat /\ Cardinality(At({"append"})) \in Nat
      /\ Cardinality(At({"pop"})) \in Nat
  BY Counts DEF IInv
<1>2. QED BY <1>1 DEF IInv, NeverPopsEmpty, MemoryFits, MemoryKeeps, Threads

\* The four statements that touch the memory or the length check.
LEMMA SwapMemory ==
    ASSUME IInv, NEW c \in Callers, Swap(c)
    PROVE  NeverPopsEmpty' /\ MemoryFits' /\ MemoryKeeps'
<1>1. Goto(c, "swap", "append") /\ UNCHANGED command_memory
  BY DEF Swap
<1>2. Len(activated') = Len(activated) + 1
  BY DEF Swap, IInv, TypeOK
<1>3. /\ Cardinality(Owing') = Cardinality(Owing)
      /\ Cardinality(At({"append"})') = Cardinality(At({"append"})) + 1
      /\ Cardinality(At({"pop"})') = Cardinality(At({"pop"}))
      /\ Cardinality(Owing) \in Nat /\ Cardinality(At({"append"})) \in Nat
      /\ Cardinality(At({"pop"})) \in Nat
  BY <1>1, Counts DEF IInv
<1>4. Len(activated) \in Nat /\ Len(command_memory) \in Nat
  BY DEF IInv, TypeOK
<1>5. QED BY <1>1, <1>2, <1>3, <1>4 DEF IInv, NeverPopsEmpty, MemoryFits, MemoryKeeps, Threads

\* An append is one more entry, and one more activation that owes.
LEMMA RememberMemory ==
    ASSUME IInv, NEW c \in Callers, Remember(c)
    PROVE  NeverPopsEmpty' /\ MemoryFits' /\ MemoryKeeps'
<1>1. Goto(c, "append", "trim") /\ UNCHANGED activated
  BY DEF Remember
<1>2. Len(command_memory') = Len(command_memory) + 1
  BY DEF Remember, IInv, TypeOK
<1>3. /\ Cardinality(Owing') = Cardinality(Owing) + 1
      /\ Cardinality(At({"append"})') = Cardinality(At({"append"})) - 1
      /\ Cardinality(At({"pop"})') = Cardinality(At({"pop"}))
      /\ Cardinality(Owing) \in Nat /\ Cardinality(At({"append"})) \in Nat
      /\ Cardinality(At({"pop"})) \in Nat
  BY <1>1, Counts DEF IInv
<1>4. Len(activated) \in Nat /\ Len(command_memory) \in Nat /\ Cardinality(Threads) \in Nat
  BY OnePerThread DEF IInv, TypeOK
<1>5. NeverPopsEmpty' /\ MemoryFits'
  BY <1>2, <1>3, <1>4, BrainAssumption DEF IInv, NeverPopsEmpty, MemoryFits
<1>6. MemoryKeeps'
  <2>1. UNCHANGED Cardinality(Threads)
    BY DEF Threads
  <2>2. QED BY <1>1, <1>2, <1>3, <1>4, <2>1, BrainAssumption DEF IInv, MemoryKeeps
<1>7. QED BY <1>5, <1>6

\* A check that finds the memory too long: even if every thread comes to the
\* same conclusion, more than MaxMemory - Threads entries will remain.
LEMMA TrimMemory ==
    ASSUME IInv, NEW c \in Callers, Trim(c), TypeOK', OneAtATime'
    PROVE  NeverPopsEmpty' /\ MemoryFits' /\ MemoryKeeps'
<1>1. Goto(c, "trim", "pop") /\ UNCHANGED <<activated, command_memory>>
  BY DEF Trim
<1>2. Len(command_memory) > MaxMemory
  BY DEF Trim
<1>3. /\ Cardinality(Owing') = Cardinality(Owing)
      /\ Cardinality(At({"append"})') = Cardinality(At({"append"}))
      /\ Cardinality(At({"pop"})') = Cardinality(At({"pop"})) + 1
      /\ Cardinality(Owing) \in Nat /\ Cardinality(At({"append"})) \in Nat
      /\ Cardinality(At({"pop"})) \in Nat
  BY <1>1, Counts DEF IInv
<1>4. Len(activated) \in Nat /\ Len(command_memory) \in Nat
  BY DEF IInv, TypeOK
<1>5. Cardinality(At({"pop"})') <= Cardinality(Threads) /\ Cardinality(Threads) \in Nat
  <2>1. (TypeOK /\ OneAtATime => Cardinality(At({"pop"})) <= Cardinality(Threads))'
    BY OnePerThread, PTL
  <2>2. UNCHANGED Cardinality(Threads)
    BY DEF Threads
  <2>3. QED BY <2>1, <2>2, OnePerThread DEF IInv
<1>6. QED BY <1>1, <1>2, <1>3, <1>4, <1>5, BrainAssumption
             DEF IInv, NeverPopsEmpty, MemoryFits, MemoryKeeps, Threads

\* A check that finds the memory short enough pays what is owed.
LEMMA FitsMemory ==
    ASSUME IInv, NEW c \in Callers, Fits(c)
    PROVE  NeverPopsEmpty' /\ MemoryFits' /\ MemoryKeeps'
<1>1. Goto(c, "trim", "idle") /\ UNCHANGED <<activated, command_memory>>
  BY DEF Fits
<1>2. Len(command_memory) <= MaxMemory
  BY DEF Fits
<1>3. /\ Cardinality(Owing') = Cardinality(Owing) - 1
      /\ Cardinality(At({"append"})') = Cardinality(At({"append"}))
      /\ Cardinality(At({"pop"})') = Cardinality(At({"pop"}))
      /\ Cardinality(Owing) \in Nat /\ Cardinality(Owing') \in Nat
      /\ Cardinality(At({"append"})) \in Nat /\ Cardinality(At({"pop"})) \in Nat
  <2>1. Cardinality(Owing) \in Nat \ {0}
    <3>1. c \in Owing /\ Owing \in SUBSET Callers
      BY <1>1 DEF Owing, At, Goto
    <3>2. QED BY <3>1, BrainAssumption, FS_Subset, FS_CardinalityType, FS_EmptySet
  <2>2. QED BY <1>1, <2>1, Counts DEF IInv
<1>4. Len(activated) \in Nat /\ Len(command_memory) \in Nat
  BY DEF IInv, TypeOK
<1>5. QED BY <1>1, <1>2, <1>3, <1>4, BrainAssumption
             DEF IInv, NeverPopsEmpty, MemoryFits, MemoryKeeps, Threads

\* A pop is one entry less, and one activation less that owes.
LEMMA PopMemory ==
    ASSUME IInv, NEW c \in Callers, Pop(c)
    PROVE  NeverPopsEmpty' /\ MemoryFits' /\ MemoryKeeps'
<1>1. Goto(c, "pop", "idle") /\ UNCHANGED activated
  BY DEF Pop
<1>2. Len(command_memory') = Len(command_memory) - 1
  BY DEF Pop, IInv, TypeOK
<1>3. /\ Cardinality(Owing') = Cardinality(Owing) - 1
      /\ Cardinality(At({"append"})') = Cardinality(At({"append"}))
      /\ Cardinality(At({"pop"})') = Cardinality(At({"pop"})) - 1
      /\ Cardinality(Owing) \in Nat /\ Cardinality(At({"append"})) \in Nat
      /\ Cardinality(At({"pop"})) \in Nat
  BY <1>1, Counts DEF IInv
<1>4. Len(activated) \in Nat /\ Len(command_memory) \in Nat /\ Cardinality(Threads) \in Nat
  BY OnePerThread DEF IInv, TypeOK
<1>5. NeverPopsEmpty' /\ MemoryFits'
  BY <1>2, <1>3, <1>4, BrainAssumption DEF IInv, NeverPopsEmpty, MemoryFits
<1>6. MemoryKeeps'
  <2>1. UNCHANGED Cardinality(Threads)
    BY DEF Threads
  <2>2. QED BY <1>1, <1>2, <1>3, <1>4, <2>1, BrainAssumption DEF IInv, MemoryKeeps
<1>7. QED BY <1>5, <1>6

----------------------------------------------------------------------------
\* What an activation knows is legal again when it returns.
LEMMA ReturnTyped ==
    ASSUME IInv, NEW c \in Callers, Return(c)
    PROVE  /\ text_command' \in [Callers -> Intent]
           /\ history_text' \in [Callers -> Seq(LegalEntry)]
           /\ last_state' \in [Callers -> Legal]
           /\ new_state' \in [Callers -> Legal]
  BY Defaults DEF IInv, TypeOK, LegalStates, Return

\* The types follow from the legal states, the places and the threads.
LEMMA TypesKept ==
    ASSUME IInv, NEW c \in Callers, NEW from, NEW to, Goto(c, from, to),
           to \in {"idle", "prompt", "await", "swap", "append", "trim", "pop", "except"},
           Runs(c) \/ Takes(c) \/ Leaves(c),
           LegalStates', text_command' \in [Callers -> Intent], issued' \in 0 .. MaxCommands
    PROVE  TypeOK'
<1>1. /\ pc' \in [Callers -> {"idle", "prompt", "await", "swap", "append", "trim", "pop", "except"}]
      /\ running' \in [Threads -> Callers \cup {Idle}]
  BY GotoTyped, RunningTyped DEF IInv
<1>2. QED BY <1>1, LegalTyped DEF LegalStates, TypeOK, Threads

\* Every statement of every activation preserves the invariant.
LEMMA NextIInv == IInv /\ [Next]_vars => IInv'
<1> SUFFICES ASSUME IInv, [Next]_vars PROVE IInv'
  OBVIOUS
<1> USE DEF IInv
<1>1. ASSUME NEW c \in Callers, NEW text \in Texts, Begin(c, text) PROVE IInv'
  <2>1. Goto(c, "idle", "prompt") /\ Takes(c) /\ UNCHANGED <<command_memory, activated>>
    BY <1>1 DEF Begin
  <2>2. LegalStates'
    BY <1>1 DEF Begin, LegalStates
  <2>3. text_command' \in [Callers -> Intent] /\ issued' \in 0 .. MaxCommands
    BY <1>1, BrainAssumption DEF Begin, TypeOK
  <2>4. TypeOK' /\ OneAtATime'
    BY <2>1, <2>2, <2>3, TypesKept, OneAtATimeKept
  <2>5. QED BY <2>1, <2>2, <2>4, MemoryUntouched
<1>2. ASSUME NEW c \in Callers, Prompt(c) PROVE IInv'
  <2>1. Goto(c, "prompt", "await") /\ Leaves(c) /\ UNCHANGED <<command_memory, activated>>
    BY <1>2 DEF Prompt
  <2>2. LegalStates'
    BY <1>2 DEF Prompt, LegalStates
  <2>3. TypeOK' /\ OneAtATime'
    BY <1>2, <2>1, <2>2, TypesKept, OneAtATimeKept DEF Prompt, TypeOK
  <2>4. QED BY <2>1, <2>2, <2>3, MemoryUntouched
<1>3. ASSUME NEW c \in Callers, Answered(c) PROVE IInv'
  <2>1. Goto(c, "await", "swap") /\ Takes(c) /\ UNCHANGED <<command_memory, activated>>
    BY <1>3 DEF Answered
  <2>2. \A lacking \in Lacking :
            Completed(Answer(text_command[c], last_state[c], history_text[c]), lacking) \in Legal
    BY AnswerLegal, DefaultsLegal, BrainAssumption DEF TypeOK, LegalStates
  <2>3. LegalStates'
    BY <1>3, <2>2 DEF Answered, LegalStates
  <2>4. TypeOK' /\ OneAtATime'
    BY <1>3, <2>1, <2>3, TypesKept, OneAtATimeKept DEF Answered, TypeOK
  <2>5. QED BY <2>1, <2>3, <2>4, MemoryUntouched
<1>4. ASSUME NEW c \in Callers, Refused(c) PROVE IInv'
  <2>1. Goto(c, "await", "except") /\ Takes(c) /\ UNCHANGED <<command_memory, activated>>
    BY <1>4 DEF Refused
  <2>2. LegalStates'
    BY <1>4 DEF Refused, Locals, LegalStates
  <2>3. TypeOK' /\ OneAtATime'
    BY <1>4, <2>1, <2>2, TypesKept, OneAtATimeKept DEF Refused, Locals, TypeOK
  <2>4. QED BY <2>1, <2>2, <2>3, MemoryUntouched
<1>5. ASSUME NEW c \in Callers, Swap(c) PROVE IInv'
  <2>1. Goto(c, "swap", "append") /\ Runs(c)
    BY <1>5 DEF Swap
  <2>2. [text |-> text_command[c], state |-> new_state[c]] \in LegalEntry
    BY EntryLegal DEF TypeOK, LegalStates
  <2>3. LegalStates'
    BY <1>5, <2>2 DEF Swap, Locals, LegalStates
  <2>4. TypeOK' /\ OneAtATime'
    BY <1>5, <2>1, <2>3, TypesKept, OneAtATimeKept DEF Swap, Locals, TypeOK
  <2>5. QED BY <1>5, <2>3, <2>4, SwapMemory
<1>6. ASSUME NEW c \in Callers, Remember(c) PROVE IInv'
  <2>1. Goto(c, "append", "trim") /\ Runs(c)
    BY <1>6 DEF Remember
  <2>2. [text |-> text_command[c], state |-> new_state[c]] \in LegalEntry
    BY EntryLegal DEF TypeOK, LegalStates
  <2>3. LegalStates'
    BY <1>6, <2>2 DEF Remember, Locals, LegalStates
  <2>4. TypeOK' /\ OneAtATime'
    BY <1>6, <2>1, <2>3, TypesKept, OneAtATimeKept DEF Remember, Locals, TypeOK
  <2>5. QED BY <1>6, <2>3, <2>4, RememberMemory
<1>7. ASSUME NEW c \in Callers, Trim(c) PROVE IInv'
  <2>1. Goto(c, "trim", "pop") /\ Runs(c)
    BY <1>7 DEF Trim
  <2>2. LegalStates'
    BY <1>7 DEF Trim, Locals, LegalStates
  <2>3. TypeOK' /\ OneAtATime'
    BY <1>7, <2>1, <2>2, TypesKept, OneAtATimeKept DEF Trim, Locals, TypeOK
  <2>4. QED BY <1>7, <2>2, <2>3, TrimMemory
<1>8. ASSUME NEW c \in Callers, Fits(c) PROVE IInv'
  <2>1. Goto(c, "trim", "idle") /\ Leaves(c) /\ Return(c)
    BY <1>8 DEF Fits, Return
  <2>2. LegalStates'
    BY <1>8, <2>1, ReturnTyped DEF Fits, LegalStates
  <2>3. TypeOK' /\ OneAtATime'
    BY <1>8, <2>1, <2>2, ReturnTyped, TypesKept, OneAtATimeKept DEF Fits, TypeOK
  <2>4. QED BY <1>8, <2>2, <2>3, FitsMemory
<1>9. ASSUME NEW c \in Callers, Pop(c) PROVE IInv'
  <2>1. Goto(c, "pop", "idle") /\ Leaves(c) /\ Return(c)
    BY <1>9 DEF Pop, Return
  <2>2. Tail(command_memory) \in Seq(LegalEntry)
    BY <1>9 DEF Pop, LegalStates
  <2>3. LegalStates'
    BY <1>9, <2>1, <2>2, ReturnTyped DEF Pop, LegalStates
  <2>4. TypeOK' /\ OneAtATime'
    BY <1>9, <2>1, <2>3, ReturnTyped, TypesKept, OneAtATimeKept DEF Pop, TypeOK
  <2>5. QED BY <1>9, <2>3, <2>4, PopMemory
<1>10. ASSUME NEW c \in Callers, SafeState(c) PROVE IInv'
  <2>1. /\ Goto(c, "except", "idle") /\ Leaves(c) /\ Return(c)
        /\ UNCHANGED <<command_memory, activated>>
    BY <1>10 DEF SafeState, Return
  <2>2. LegalStates'
    BY <1>10, <2>1, ReturnTyped, Defaults DEF SafeState, LegalStates
  <2>3. TypeOK' /\ OneAtATime'
    BY <1>10, <2>1, <2>2, ReturnTyped, TypesKept, OneAtATimeKept DEF SafeState, TypeOK
  <2>4. QED BY <2>1, <2>2, <2>3, MemoryUntouched
<1>11. CASE Silence \/ UNCHANGED vars
  <2>1. UNCHANGED vars
    BY <1>11 DEF Silence
  <2>2. TypeOK' /\ LegalStates' /\ OneAtATime'
    BY <2>1 DEF vars, TypeOK, LegalStates, OneAtATime, Threads
  <2>3. UNCHANGED <<Owing, At({"append"}), At({"pop"}), Threads>>
    BY <2>1 DEF vars, Owing, At, Threads
  <2>4. NeverPopsEmpty' /\ MemoryFits' /\ MemoryKeeps'
    BY <2>1, <2>3 DEF vars, NeverPopsEmpty, MemoryFits, MemoryKeeps
  <2>5. QED BY <2>2, <2>4
<1>12. QED
  BY <1>1, <1>2, <1>3, <1>4, <1>5, <1>6, <1>7, <1>8, <1>9, <1>10, <1>11
     DEF Next, Step, Resume

\* The inductive invariant of the brain.
THEOREM Invariance == Spec => []IInv
  BY InitIInv, NextIInv, PTL DEF Spec

\* Type correctness.
THEOREM TypeCorrect == Spec => []TypeOK
<1>1. IInv => TypeOK
  BY DEF IInv
<1>2. QED BY <1>1, Invariance, PTL

\* However the appends, checks and pops of the threads interleave, no pop(0)
\* meets an empty list, for any length of the memory and number of callers.
THEOREM PopIsSafe == Spec => []NeverPopsEmpty
<1>1. IInv => NeverPopsEmpty
  BY DEF IInv
<1>2. QED BY <1>1, Invariance, PTL

\* The memory never exceeds its length by more than what is owed.
THEOREM MemoryIsBounded == Spec => []MemoryFits
<1>1. IInv => MemoryFits
  BY DEF IInv
<1>2. QED BY <1>1, Invariance, PTL

\* The memory never falls short of its length by as much as the number of
\* threads, unless fewer commands were activated.
THEOREM MemoryIsKept == Spec => []MemoryKeeps
<1>1. IInv => MemoryKeeps
  BY DEF IInv
<1>2. QED BY <1>1, Invariance, PTL

----------------------------------------------------------------------------
\* Where the command activated last is: on its way into the memory; or in it,
\* with fewer entries behind it, and on their way there, than there are threads;
\* or all there is, and on its way, are fewer than the threads.
Adding == Cardinality(At({"append"}))

OnItsWay(c) ==
    /\ c \in At({"append"})
    /\ [text |-> text_command[c], state |-> new_state[c]] = activated[Len(activated)]
AmongTheLast(i) ==
    /\ i \in DOMAIN command_memory
    /\ command_memory[i] = activated[Len(activated)]
    /\ Len(command_memory) - i + Adding < Cardinality(Threads)
FewLeft == Len(command_memory) + Adding < Cardinality(Threads)

LatestKept ==
    activated # <<>> => \/ \E c \in Callers : OnItsWay(c)
                        \/ \E i \in Nat : AmongTheLast(i)
                        \/ FewLeft

\* A statement of an activation that is not on its way keeps the latest where it is.
LEMMA LatestUntouched ==
    ASSUME IInv, LatestKept, NEW c \in Callers, NEW from, NEW to, Goto(c, from, to),
           from # "append", to # "append", UNCHANGED <<command_memory, activated>>,
           \A d \in Callers \ {c} : text_command'[d] = text_command[d] /\ new_state'[d] = new_state[d]
    PROVE  LatestKept'
<1>1. UNCHANGED <<Adding, Cardinality(Threads)>> /\ Adding \in Nat
  BY GotoCount DEF IInv, Adding, Threads
<1>2. ASSUME NEW d \in Callers, OnItsWay(d) PROVE OnItsWay(d)'
  <2>1. d # c /\ pc'[d] = pc[d]
    BY <1>2 DEF OnItsWay, At, Goto, IInv, TypeOK
  <2>2. QED BY <1>2, <2>1 DEF OnItsWay, At
<1>3. ASSUME NEW i \in Nat, AmongTheLast(i) PROVE AmongTheLast(i)'
  BY <1>1, <1>3 DEF AmongTheLast
<1>4. FewLeft => FewLeft'
  BY <1>1 DEF FewLeft
<1>5. QED BY <1>2, <1>3, <1>4 DEF LatestKept

\* A swap puts the latest on its way.
LEMMA LatestSwapped ==
    ASSUME IInv, NEW c \in Callers, Swap(c)
    PROVE  LatestKept'
<1>1. pc' = [pc EXCEPT ![c] = "append"] /\ UNCHANGED <<text_command, new_state>>
      /\ activated' = Append(activated, [text |-> text_command[c], state |-> new_state[c]])
  BY DEF Swap, Goto, Locals
<1>2. c \in At({"append"})'
  BY <1>1 DEF At, IInv, TypeOK
<1>3. activated'[Len(activated')] = [text |-> text_command[c], state |-> new_state[c]]
  <2>1. [text |-> text_command[c], state |-> new_state[c]] \in Entry
    BY DEF IInv, TypeOK, Entry
  <2>2. QED BY <1>1, <2>1 DEF IInv, TypeOK
<1>4. OnItsWay(c)'
  BY <1>1, <1>2, <1>3 DEF OnItsWay
<1>5. QED BY <1>4 DEF LatestKept

\* An append brings the latest in as the last entry, or puts another behind it.
LEMMA LatestRemembered ==
    ASSUME IInv, LatestKept, NEW c \in Callers, Remember(c)
    PROVE  LatestKept'
<1> DEFINE entry == [text |-> text_command[c], state |-> new_state[c]]
<1>1. /\ Goto(c, "append", "trim") /\ UNCHANGED <<text_command, new_state, activated>>
      /\ command_memory' = Append(command_memory, entry)
  BY DEF Remember, Locals
<1>2. /\ Adding \in Nat /\ Adding' = Adding - 1 /\ Adding <= Cardinality(Threads)
      /\ Cardinality(Threads) \in Nat /\ UNCHANGED Cardinality(Threads)
  BY <1>1, GotoCount, OnePerThread DEF IInv, Adding, Threads
<1>3. entry \in Entry /\ command_memory \in Seq(Entry)
  BY DEF IInv, TypeOK, Entry
<1> HIDE DEF entry
<1>4. /\ Len(command_memory') = Len(command_memory) + 1 /\ Len(command_memory) \in Nat
      /\ command_memory'[Len(command_memory) + 1] = entry
      /\ \A i \in DOMAIN command_memory : i \in DOMAIN command_memory'
                                          /\ command_memory'[i] = command_memory[i]
      /\ Len(command_memory) + 1 \in DOMAIN command_memory'
  BY <1>1, <1>3
<1>5. ASSUME OnItsWay(c) PROVE \E i \in Nat : AmongTheLast(i)'
  <2>1. PICK i \in Nat : i = Len(command_memory) + 1
    BY <1>4
  <2>2. command_memory'[i] = activated'[Len(activated')]
    BY <1>1, <1>4, <1>5, <2>1 DEF OnItsWay, entry
  <2>3. Len(command_memory') - i + Adding' < Cardinality(Threads)'
    BY <1>2, <1>4, <2>1
  <2>4. AmongTheLast(i)'
    BY <1>4, <2>1, <2>2, <2>3 DEF AmongTheLast
  <2>5. QED BY <2>4
<1>6. ASSUME NEW d \in Callers \ {c}, OnItsWay(d) PROVE OnItsWay(d)'
  BY <1>1, <1>6 DEF OnItsWay, At, Goto, IInv, TypeOK
<1>7. ASSUME NEW i \in Nat, AmongTheLast(i) PROVE AmongTheLast(i)'
  BY <1>1, <1>2, <1>4, <1>7 DEF AmongTheLast
<1>8. FewLeft => FewLeft'
  BY <1>2, <1>4 DEF FewLeft
<1>9. QED BY <1>1, <1>4, <1>5, <1>6, <1>7, <1>8 DEF LatestKept

\* A removal takes the latest only from the front, and then little is left.
LEMMA LatestPopped ==
    ASSUME IInv, LatestKept, NEW c \in Callers, Pop(c)
    PROVE  LatestKept'
<1>1. /\ Goto(c, "pop", "idle") /\ Return(c) /\ UNCHANGED activated
      /\ command_memory # <<>> /\ command_memory' = Tail(command_memory)
  BY DEF Pop
<1>2. Adding \in Nat /\ UNCHANGED <<Adding, Cardinality(Threads)>>
      /\ Cardinality(Threads) \in Nat
  BY <1>1, GotoCount, OnePerThread DEF IInv, Adding, Threads
<1>3. /\ Len(command_memory) \in Nat /\ Len(command_memory') = Len(command_memory) - 1
      /\ DOMAIN command_memory = 1 .. Len(command_memory)
      /\ \A i \in DOMAIN command_memory : i > 1 => /\ i - 1 \in DOMAIN command_memory'
                                                  /\ command_memory'[i - 1] = command_memory[i]
  BY <1>1 DEF IInv, TypeOK
<1>4. ASSUME NEW d \in Callers, OnItsWay(d) PROVE OnItsWay(d)'
  <2>1. d # c /\ pc'[d] = pc[d]
    BY <1>1, <1>4 DEF OnItsWay, At, Goto, IInv, TypeOK
  <2>2. text_command'[d] = text_command[d] /\ new_state'[d] = new_state[d]
    BY <1>1, <2>1 DEF Return, IInv, TypeOK
  <2>3. QED BY <1>1, <1>4, <2>1, <2>2 DEF OnItsWay, At
<1>5. ASSUME NEW i \in Nat, AmongTheLast(i), i > 1 PROVE AmongTheLast(i - 1)' /\ i - 1 \in Nat
  BY <1>1, <1>2, <1>3, <1>5 DEF AmongTheLast
<1>6. ASSUME NEW i \in Nat, AmongTheLast(i), ~(i > 1) PROVE FewLeft'
  BY <1>1, <1>2, <1>3, <1>6 DEF AmongTheLast, FewLeft
<1>7. FewLeft => FewLeft'
  BY <1>2, <1>3 DEF FewLeft
<1>8. QED BY <1>1, <1>4, <1>5, <1>6, <1>7 DEF LatestKept

\* Every step keeps the latest where it can be found.
LEMMA NextLatest == IInv /\ LatestKept /\ [Next]_vars => LatestKept'
<1> SUFFICES ASSUME IInv, LatestKept, [Next]_vars PROVE LatestKept'
  OBVIOUS
<1>1. ASSUME NEW c \in Callers, NEW text \in Texts, Begin(c, text) PROVE LatestKept'
  BY <1>1, LatestUntouched DEF Begin, IInv, TypeOK
<1>2. ASSUME NEW c \in Callers, Prompt(c) PROVE LatestKept'
  BY <1>2, LatestUntouched DEF Prompt
<1>3. ASSUME NEW c \in Callers, Answered(c) PROVE LatestKept'
  <2>1. \A d \in Callers \ {c} : text_command'[d] = text_command[d] /\ new_state'[d] = new_state[d]
    BY <1>3 DEF Answered, IInv, TypeOK
  <2>2. QED BY <1>3, <2>1, LatestUntouched DEF Answered
<1>4. ASSUME NEW c \in Callers, Refused(c) PROVE LatestKept'
  BY <1>4, LatestUntouched DEF Refused, Locals
<1>5. ASSUME NEW c \in Callers, Trim(c) PROVE LatestKept'
  BY <1>5, LatestUntouched DEF Trim, Locals
<1>6. ASSUME NEW c \in Callers, Return(c)
      PROVE  \A d \in Callers \ {c} : text_command'[d] = text_command[d] /\ new_state'[d] = new_state[d]
  BY <1>6 DEF Return, IInv, TypeOK
<1>7. ASSUME NEW c \in Callers, Fits(c) PROVE LatestKept'
  BY <1>6, <1>7, LatestUntouched DEF Fits
<1>8. ASSUME NEW c \in Callers, SafeState(c) PROVE LatestKept'
  BY <1>6, <1>8, LatestUntouched DEF SafeState
<1>9. CASE Silence \/ UNCHANGED vars
  <2>1. UNCHANGED vars
    BY <1>9 DEF Silence
  <2>2. UNCHANGED <<At({"append"}), Threads>>
    BY <2>1 DEF vars, At, Threads
  <2>3. QED BY <2>1, <2>2 DEF vars, LatestKept, OnItsWay, AmongTheLast, FewLeft, Adding
<1>10. QED
  BY <1>1, <1>2, <1>3, <1>4, <1>5, <1>7, <1>8, <1>9, LatestSwapped, LatestRemembered, LatestPopped
     DEF Next, Step, Resume

\* However the swaps, appends and removals of the threads interleave, the command
\* activated last is among the last entries of the memory, at most one per thread.
THEOREM LatestIsFound == Spec => []LatestIsRecent
<1>1. Init => LatestKept
  BY DEF Init, LatestKept
<1>2. IInv /\ LatestKept => LatestIsRecent
  <2> SUFFICES ASSUME IInv, LatestKept, At({"append"}) = {}, activated # <<>>,
                      Len(command_memory) >= Cardinality(Threads)
               PROVE  \E i \in DOMAIN command_memory :
                          /\ i > Len(command_memory) - Cardinality(Threads)
                          /\ command_memory[i] = activated[Len(activated)]
    BY DEF LatestIsRecent
  <2>1. Adding = 0
    BY FS_EmptySet DEF Adding
  <2>2. Cardinality(Threads) \in Nat /\ Len(command_memory) \in Nat
    BY OnePerThread DEF IInv, TypeOK
  <2>3. ~FewLeft
    BY <2>1, <2>2 DEF FewLeft
  <2>4. \A c \in Callers : ~OnItsWay(c)
    BY DEF OnItsWay
  <2>5. PICK i \in Nat : AmongTheLast(i)
    BY <2>3, <2>4 DEF LatestKept
  <2>6. QED BY <2>1, <2>2, <2>5 DEF AmongTheLast
<1>3. QED BY <1>1, <1>2, NextLatest, Invariance, PTL DEF Spec
=============================================================================
