--------------------------- MODULE RegisterProofs ---------------------------
(***************************************************************************)
(* Theorems about Brain when its activations do not overlap where it       *)
(* matters: on one event loop the memory is the latest commands, and with  *)
(* one speaker the brain is a command register that keeps the sleep lock.  *)
(***************************************************************************)
EXTENDS BrainProofs

\* All activations take turns on one thread.
OneLoop == \A c, d \in Callers : ThreadOf[c] = ThreadOf[d]

\* There is one activation at a time: a microphone and no web request.
OneSpeaker == \A c, d \in Callers : c = d

\* The entry a command adds to the memory.
EntryOf(c) == [text |-> text_command[c], state |-> new_state[c]]

----------------------------------------------------------------------------
(* One event loop.                                                          *)

\* The elements of s are the last ones of t.
Closes(s, t) ==
    /\ Len(s) <= Len(t)
    /\ \A i \in 1 .. Len(s) : s[i] = t[Len(t) - Len(s) + i]

\* The memory, with the entry of a command that has set the state and not yet
\* been added, is the end of what was activated.
InOrder ==
    /\ At({"append"}) = {} => Closes(command_memory, activated)
    /\ \A c \in At({"append"}) : Closes(Append(command_memory, EntryOf(c)), activated)

\* An activation between two awaits is alone there.
LEMMA Alone ==
    ASSUME OneLoop, OneAtATime, NEW c \in Callers, pc[c] \notin {"idle", "await"},
           NEW d \in Callers, pc[d] \notin {"idle", "await"}
    PROVE  d = c
  BY DEF OneLoop, OneAtATime

\* What the end of a list is, under the changes made to the two lists.
LEMMA ClosesAppend ==
    ASSUME NEW S, NEW s \in Seq(S), NEW t \in Seq(S), NEW e \in S, Closes(s, t)
    PROVE  Closes(Append(s, e), Append(t, e))
  BY DEF Closes

\* Dropping the oldest entry leaves an end of the list an end of it.
LEMMA ClosesTail ==
    ASSUME NEW S, NEW s \in Seq(S), NEW t \in Seq(S), s # <<>>, Closes(s, t)
    PROVE  Closes(Tail(s), t)
<1>1. Tail(s) \in Seq(S) /\ Len(Tail(s)) = Len(s) - 1
  OBVIOUS
<1>2. \A i \in 1 .. Len(Tail(s)) : Tail(s)[i] = s[i + 1]
  OBVIOUS
<1>3. QED BY <1>1, <1>2 DEF Closes

\* The end of a list is determined by its length.
LEMMA ClosesLatest ==
    ASSUME NEW S, NEW s \in Seq(S), NEW t \in Seq(S), NEW n \in Nat, Closes(s, t),
           Len(s) <= n, Len(s) >= Len(t) \/ Len(s) >= n
    PROVE  s = Register!Latest(t, n)
<1>1. CASE Len(t) <= n
  BY <1>1 DEF Closes, Register!Latest
<1>2. CASE Len(t) > n
  <2>1. Len(s) = n
    BY <1>2
  <2>2. SubSeq(t, Len(t) - n + 1, Len(t)) \in Seq(S)
    BY <1>2
  <2>3. Len(SubSeq(t, Len(t) - n + 1, Len(t))) = n
    BY <1>2
  <2>4. \A i \in 1 .. n : SubSeq(t, Len(t) - n + 1, Len(t))[i] = t[Len(t) - n + i]
    BY <1>2
  <2>5. QED BY <1>2, <2>1, <2>2, <2>3, <2>4 DEF Closes, Register!Latest
<1>3. QED BY <1>1, <1>2

\* A statement that leaves both lists alone, and is no append, keeps the order.
LEMMA OrderUntouched ==
    ASSUME TypeOK, InOrder, NEW c \in Callers, NEW from, NEW to, Goto(c, from, to),
           from # "append", to # "append",
           UNCHANGED <<command_memory, activated>>,
           \A d \in Callers \ {c} : text_command'[d] = text_command[d] /\ new_state'[d] = new_state[d]
    PROVE  InOrder'
<1>1. At({"append"})' = At({"append"}) /\ c \notin At({"append"})
  BY DEF At, Goto, TypeOK
<1>2. \A d \in At({"append"}) : EntryOf(d)' = EntryOf(d)
  BY <1>1 DEF At, EntryOf
<1>3. QED BY <1>1, <1>2 DEF InOrder

\* Whatever the order in which the answers come, each command adds its entry
\* before another one sets the state.
LEMMA NextInOrder == OneLoop /\ IInv /\ InOrder /\ [Next]_vars => InOrder'
<1> SUFFICES ASSUME OneLoop, IInv, InOrder, [Next]_vars PROVE InOrder'
  OBVIOUS
<1>1. TypeOK /\ OneAtATime
  BY DEF IInv
<1>2. ASSUME NEW c \in Callers, NEW text \in Texts, Begin(c, text) PROVE InOrder'
  BY <1>1, <1>2, OrderUntouched DEF Begin, TypeOK
<1>3. ASSUME NEW c \in Callers, Prompt(c) \/ Refused(c) \/ Trim(c) PROVE InOrder'
  BY <1>1, <1>3, OrderUntouched DEF Prompt, Refused, Trim, Locals
<1>4. ASSUME NEW c \in Callers, Answered(c) PROVE InOrder'
  BY <1>1, <1>4, OrderUntouched DEF Answered, TypeOK
<1>5. ASSUME NEW c \in Callers, Fits(c) \/ SafeState(c) PROVE InOrder'
  BY <1>1, <1>5, OrderUntouched DEF Fits, SafeState, Return, TypeOK
<1>6. ASSUME NEW c \in Callers, Swap(c) PROVE InOrder'
  <2>1. pc[c] = "swap" /\ pc' = [pc EXCEPT ![c] = "append"]
    BY <1>6 DEF Swap, Goto
  <2>2. At({"append"}) = {} /\ At({"append"})' = {c}
    BY <1>1, <2>1, Alone DEF At, TypeOK
  <2>3. EntryOf(c) \in Entry /\ EntryOf(c)' = EntryOf(c)
    BY <1>1, <1>6 DEF EntryOf, Swap, Locals, TypeOK, Entry
  <2>4. command_memory' = command_memory /\ activated' = Append(activated, EntryOf(c))
    BY <1>6 DEF Swap, EntryOf
  <2>5. Closes(Append(command_memory, EntryOf(c)), Append(activated, EntryOf(c)))
    BY <1>1, <2>2, <2>3, ClosesAppend DEF InOrder, TypeOK
  <2>6. QED BY <2>2, <2>3, <2>4, <2>5 DEF InOrder
<1>7. ASSUME NEW c \in Callers, Remember(c) PROVE InOrder'
  <2>1. pc[c] = "append" /\ pc' = [pc EXCEPT ![c] = "trim"]
    BY <1>7 DEF Remember, Goto
  <2>2. c \in At({"append"}) /\ At({"append"})' = {}
    BY <1>1, <2>1, Alone DEF At, TypeOK
  <2>3. command_memory' = Append(command_memory, EntryOf(c)) /\ activated' = activated
    BY <1>7 DEF Remember, EntryOf
  <2>4. QED BY <2>2, <2>3 DEF InOrder
<1>8. ASSUME NEW c \in Callers, Pop(c) PROVE InOrder'
  <2>1. pc[c] = "pop" /\ pc' = [pc EXCEPT ![c] = "idle"]
    BY <1>8 DEF Pop, Goto
  <2>2. At({"append"}) = {} /\ At({"append"})' = {}
    BY <1>1, <2>1, Alone DEF At, TypeOK
  <2>3. command_memory' = Tail(command_memory) /\ command_memory # <<>> /\ activated' = activated
    BY <1>8 DEF Pop
  <2>4. QED BY <1>1, <2>2, <2>3, ClosesTail DEF InOrder, TypeOK
<1>9. CASE Silence \/ UNCHANGED vars
  BY <1>9 DEF Silence, vars, InOrder, At, EntryOf
<1>10. QED
  BY <1>2, <1>3, <1>4, <1>5, <1>6, <1>7, <1>8, <1>9 DEF Next, Step, Resume

\* There is at most one thread to count.
LEMMA OneThread == OneLoop => Cardinality(Threads) <= 1
<1> SUFFICES ASSUME OneLoop PROVE Cardinality(Threads) <= 1
  OBVIOUS
<1>1. CASE Callers = {}
  <2>1. Threads = {}
    BY <1>1 DEF Threads
  <2>2. Cardinality(Threads) = 0
    BY <2>1, FS_EmptySet
  <2>3. QED BY <2>2
<1>2. ASSUME NEW c \in Callers PROVE Cardinality(Threads) <= 1
  <2>1. Threads = {ThreadOf[c]}
    BY DEF OneLoop, Threads
  <2>2. Cardinality(Threads) = 1
    BY <2>1, FS_Singleton
  <2>3. QED BY <2>2
<1>3. QED BY <1>1, <1>2

\* When nobody is in the brain, the memory is as long as it can be.
LEMMA QuietIsLatest == OneLoop /\ IInv /\ InOrder => MemoryIsLatest
<1> SUFFICES ASSUME OneLoop, IInv, InOrder, Quiet
             PROVE  command_memory = Register!Latest(activated, MaxMemory)
  BY DEF MemoryIsLatest
<1>1. \A places : "idle" \notin places => At(places) = {}
  BY DEF Quiet, At
<1>2. At({"append"}) = {} /\ At({"pop"}) = {} /\ Owing = {}
  BY <1>1 DEF Owing
<1>3. Cardinality(At({"append"})) = 0 /\ Cardinality(At({"pop"})) = 0 /\ Cardinality(Owing) = 0
  BY <1>2, FS_EmptySet
<1>4. Cardinality(Threads) <= 1 /\ Cardinality(Threads) \in Nat
  BY OneThread, OnePerThread DEF IInv
<1>5. command_memory \in Seq(Entry) /\ activated \in Seq(Entry)
  BY DEF IInv, TypeOK
<1>6. /\ Len(command_memory) <= MaxMemory
      /\ Len(command_memory) >= Len(activated) \/ Len(command_memory) >= MaxMemory
  BY <1>3, <1>4, <1>5, BrainAssumption DEF IInv, MemoryFits, MemoryKeeps
<1>7. Closes(command_memory, activated)
  BY <1>2 DEF InOrder
<1>8. QED BY <1>5, <1>6, <1>7, ClosesLatest, BrainAssumption

\* On one event loop the memory is exactly the latest commands, for any number
\* of requests and any order of their answers.
THEOREM MemoryIsTheLatest == OneLoop => (Spec => []MemoryIsLatest)
<1> SUFFICES ASSUME OneLoop PROVE Spec => []MemoryIsLatest
  OBVIOUS
<1>1. Init => InOrder
  BY DEF Init, InOrder, At, Closes
<1>2. QED BY <1>1, Invariance, NextInOrder, QuietIsLatest, PTL DEF Spec

----------------------------------------------------------------------------
(* One speaker.                                                             *)

\* What a command knows is still so: the state and the memory of its prompt,
\* and the answer made of them.  A command that removes an entry has found the
\* memory too long, and the entry it adds is what was last activated.
Current ==
    \A c \in Callers :
        /\ pc[c] # "idle" => text_command[c] \in Texts
        /\ pc[c] \in {"prompt", "await", "swap"} => history_text[c] = command_memory
        /\ pc[c] \in {"await", "swap"} => last_state[c] = current_robot_state
        /\ pc[c] = "swap" =>
               \E lacking \in Lacking :
                   new_state[c] = Completed(Answer(text_command[c], last_state[c], history_text[c]), lacking)
        /\ pc[c] = "append" => activated # <<>> /\ activated[Len(activated)] = EntryOf(c)
        /\ pc[c] = "pop" => Len(command_memory) > MaxMemory

\* The last entry of a list is the one appended.
LEMMA LastOfAppend ==
    ASSUME NEW S, NEW s \in Seq(S), NEW e \in S
    PROVE  Append(s, e) # <<>> /\ Append(s, e)[Len(Append(s, e))] = e
  OBVIOUS

\* Nobody else changes the state or the memory between a prompt and its answer.
LEMMA NextCurrent == OneSpeaker /\ TypeOK /\ Current /\ [Next]_vars => Current'
<1> SUFFICES ASSUME OneSpeaker, TypeOK, Current, [Next]_vars PROVE Current'
  OBVIOUS
<1> USE DEF Current, Goto, TypeOK
<1>1. ASSUME NEW c \in Callers, NEW text \in Texts, Begin(c, text) PROVE Current'
  BY <1>1 DEF Begin, OneSpeaker
<1>2. ASSUME NEW c \in Callers, Prompt(c) PROVE Current'
  BY <1>2 DEF Prompt, OneSpeaker
<1>3. ASSUME NEW c \in Callers, Answered(c) PROVE Current'
  BY <1>3 DEF Answered, OneSpeaker
<1>4. ASSUME NEW c \in Callers, Refused(c) PROVE Current'
  BY <1>4 DEF Refused, Locals, OneSpeaker
<1>5. ASSUME NEW c \in Callers, Swap(c) PROVE Current'
  <2>1. EntryOf(c) \in Entry /\ EntryOf(c)' = EntryOf(c)
    BY <1>5 DEF EntryOf, Swap, Locals, Entry
  <2>2. activated' = Append(activated, EntryOf(c))
    BY <1>5 DEF Swap, EntryOf
  <2>3. activated \in Seq(Entry)
    OBVIOUS
  <2>4. activated' # <<>> /\ activated'[Len(activated')] = EntryOf(c)
    <3> HIDE DEF Current, Goto, TypeOK
    <3>1. QED BY <2>1, <2>2, <2>3, LastOfAppend
  <2>5. QED BY <1>5, <2>1, <2>4 DEF Swap, Locals, OneSpeaker
<1>6. ASSUME NEW c \in Callers, Remember(c) PROVE Current'
  BY <1>6 DEF Remember, Locals, OneSpeaker
<1>7. ASSUME NEW c \in Callers, Trim(c) PROVE Current'
  BY <1>7 DEF Trim, Locals, OneSpeaker
<1>8. ASSUME NEW c \in Callers, Fits(c) \/ Pop(c) \/ SafeState(c) PROVE Current'
  <2>1. \A d \in Callers : pc'[d] = "idle"
    BY <1>8 DEF Fits, Pop, SafeState, OneSpeaker
  <2>2. QED BY <2>1
<1>9. CASE Silence \/ UNCHANGED vars
  BY <1>9 DEF Silence, vars, EntryOf
<1>10. QED
  BY <1>1, <1>2, <1>3, <1>4, <1>5, <1>6, <1>7, <1>8, <1>9 DEF Next, Step, Resume

\* The inductive invariant of one speaker.
LEMMA CurrentInvariance == OneSpeaker => (Spec => [](IInv /\ Current))
<1> SUFFICES ASSUME OneSpeaker PROVE Spec => [](IInv /\ Current)
  OBVIOUS
<1>1. Init => Current
  BY DEF Init, Current
<1>2. IInv => TypeOK
  BY DEF IInv
<1>3. QED BY <1>1, <1>2, Invariance, NextCurrent, PTL DEF Spec

\* Only a swap can set MODE_MOVE, and its answer was made for the present state.
LEMMA NextNeverWalks ==
    IInv /\ Current /\ [Next]_vars =>
        (current_robot_state.mode = MODE_SLEEP => current_robot_state'.mode # MODE_MOVE)
<1> SUFFICES ASSUME IInv, Current, [Next]_vars, current_robot_state.mode = MODE_SLEEP
             PROVE  current_robot_state'.mode # MODE_MOVE
  OBVIOUS
<1>1. CASE UNCHANGED current_robot_state
  BY <1>1 DEF MODE_SLEEP, MODE_MOVE
<1>2. ASSUME NEW c \in Callers, Swap(c) PROVE current_robot_state'.mode # MODE_MOVE
  <2>1. pc[c] = "swap" /\ current_robot_state' = new_state[c]
    BY <1>2 DEF Swap, Goto
  <2>2. PICK lacking \in Lacking :
            new_state[c] = Completed(Answer(text_command[c], last_state[c], history_text[c]), lacking)
    BY <2>1 DEF Current
  <2>3. last_state[c].mode = MODE_SLEEP
    BY <2>1 DEF Current
  <2>4. Answer(text_command[c], last_state[c], history_text[c]) \in Legal
    BY AnswerLegal DEF IInv, TypeOK, LegalStates
  <2>5. QED BY <2>1, <2>2, <2>3, <2>4, SleepLock, DefaultsLegal, BrainAssumption
<1>3. ASSUME NEW c \in Callers, SafeState(c) PROVE current_robot_state'.mode # MODE_MOVE
  BY <1>3 DEF SafeState, Rest, MODE_STAND, MODE_MOVE
<1>4. ASSUME NEW c \in Callers, Step(c) \/ Resume(c), ~Swap(c), ~SafeState(c)
      PROVE  UNCHANGED current_robot_state
  BY <1>4 DEF Step, Resume, Prompt, Answered, Refused, Remember, Trim, Fits, Pop
<1>5. ASSUME NEW c \in Callers, NEW text \in Texts, Begin(c, text)
      PROVE  UNCHANGED current_robot_state
  BY <1>5 DEF Begin
<1>6. Silence \/ UNCHANGED vars => UNCHANGED current_robot_state
  BY DEF Silence, vars
<1>7. QED BY <1>1, <1>2, <1>3, <1>4, <1>5, <1>6 DEF Next

\* With one speaker the sleep lock of the prompt is a lock on the robot state: no
\* command takes it from sleep to MOVE, whatever fields the answers lack.
THEOREM SleepLockHolds == OneSpeaker => (Spec => NeverWalksFromSleep)
<1> SUFFICES ASSUME OneSpeaker PROVE Spec => NeverWalksFromSleep
  OBVIOUS
<1>1. IInv /\ Current /\ [Next]_vars =>
          [current_robot_state.mode = MODE_SLEEP => current_robot_state'.mode # MODE_MOVE]_vars
  BY NextNeverWalks
<1>2. QED BY <1>1, CurrentInvariance, PTL DEF Spec, NeverWalksFromSleep

----------------------------------------------------------------------------
(* The brain implements the command register.                               *)

\* The memory without the entry that is still to be removed.
Kept(s) == SubSeq(s, IF Len(s) > MaxMemory THEN 2 ELSE 1, Len(s))

\* One entry too many is one to remove.
LEMMA KeptLatest ==
    ASSUME NEW S, NEW s \in Seq(S), Len(s) <= MaxMemory + 1
    PROVE  /\ Kept(s) = Register!Latest(s, MaxMemory)
           /\ Len(s) <= MaxMemory => Kept(s) = s
           /\ Len(s) > MaxMemory => Kept(s) = Tail(s) /\ Kept(Tail(s)) = Tail(s)
<1>1. MaxMemory \in Nat \ {0}
  BY BrainAssumption
<1>2. CASE Len(s) <= MaxMemory
  <2>1. Kept(s) = SubSeq(s, 1, Len(s)) /\ Register!Latest(s, MaxMemory) = s
    BY <1>1, <1>2 DEF Kept, Register!Latest
  <2>2. SubSeq(s, 1, Len(s)) = s
    OBVIOUS
  <2>3. ~(Len(s) > MaxMemory)
    BY <1>1, <1>2
  <2>4. QED BY <2>1, <2>2, <2>3
<1>3. CASE Len(s) > MaxMemory
  <2>1. Len(s) = MaxMemory + 1 /\ Len(Tail(s)) = MaxMemory /\ Tail(s) \in Seq(S)
    BY <1>1, <1>3
  <2>2. Kept(s) = SubSeq(s, 2, Len(s)) /\ Register!Latest(s, MaxMemory) = SubSeq(s, 2, Len(s))
    BY <1>1, <2>1 DEF Kept, Register!Latest
  <2>3. SubSeq(s, 2, Len(s)) = Tail(s)
    BY <1>1, <2>1
  <2>4. Kept(Tail(s)) = Tail(s)
    BY <1>1, <2>1 DEF Kept
  <2>5. ~(Len(s) <= MaxMemory)
    BY <1>1, <1>3
  <2>6. QED BY <2>2, <2>3, <2>4, <2>5
<1>4. QED BY <1>1, <1>2, <1>3

\* With one activation the memory has an entry too many only while it is owed.
LEMMA MemoryLength ==
    ASSUME OneSpeaker, IInv, NEW c \in Callers
    PROVE  /\ command_memory \in Seq(Entry)
           /\ Len(command_memory) <= MaxMemory + 1
           /\ pc[c] \notin {"trim", "pop"} => Len(command_memory) <= MaxMemory
<1>1. command_memory \in Seq(Entry) /\ MaxMemory \in Nat
  BY BrainAssumption DEF IInv, TypeOK
<1>2. CASE pc[c] \in {"trim", "pop"}
  <2>1. Owing = {c}
    BY <1>2 DEF Owing, At, OneSpeaker
  <2>2. Cardinality(Owing) = 1
    BY <2>1, FS_Singleton
  <2>3. QED BY <1>1, <1>2, <2>2 DEF IInv, MemoryFits
<1>3. CASE pc[c] \notin {"trim", "pop"}
  <2>1. Owing = {}
    BY <1>3 DEF Owing, At, OneSpeaker
  <2>2. Cardinality(Owing) = 0
    BY <2>1, FS_EmptySet
  <2>3. QED BY <1>1, <2>2 DEF IInv, MemoryFits
<1>4. QED BY <1>2, <1>3

\* An entry is in the memory of the register from the swap on.
LEMMA RememberedIs ==
    ASSUME OneSpeaker, NEW c \in Callers
    PROVE  /\ pc[c] # "append" => Remembered = command_memory
           /\ pc[c] = "append" => Remembered = Append(command_memory, activated[Len(activated)])
  BY DEF Remembered, OneSpeaker

\* The register goes by the same rules.
LEMMA SameRules ==
    ASSUME NEW text, NEW last, NEW history, NEW lacking
    PROVE  Register!Completed(Register!Answer(text, last, history), lacking)
             = Completed(Answer(text, last, history), lacking)
  BY DEF Completed, Register!Completed, Answer, Register!Answer, Asked, Register!Asked,
     AtSpeed, Register!AtSpeed, LatestMove, Register!LatestMove, Heading, Register!Heading,
     Sign, Register!Sign, Shift, Register!Shift, Go, Register!Go, BaseSpeed, Register!BaseSpeed,
     Rest, Register!Rest, Zero, Register!Zero, Axis, Register!Axis,
     MODE_SLEEP, Register!MODE_SLEEP, MODE_STAND, Register!MODE_STAND, MODE_MOVE, Register!MODE_MOVE

\* A statement that changes neither the robot state nor what is kept.
LEMMA RegisterStutters ==
    ASSUME UNCHANGED <<current_robot_state, Kept(Remembered)>>
    PROVE  UNCHANGED Register!vars
  BY DEF Register!vars, Kept

\* The swap is the whole command.
LEMMA SwapExecutes ==
    ASSUME OneSpeaker, IInv, Current, NEW c \in Callers, Swap(c)
    PROVE  Register!Execute(text_command[c])
<1>1. pc[c] = "swap" /\ pc'[c] = "append"
  BY DEF Swap, Goto, IInv, TypeOK
<1>2. PICK lacking \in Lacking :
          new_state[c] = Completed(Answer(text_command[c], last_state[c], history_text[c]), lacking)
  BY <1>1 DEF Current
<1>3. last_state[c] = current_robot_state /\ history_text[c] = command_memory
  BY <1>1 DEF Current
<1>4. command_memory \in Seq(Entry) /\ Len(command_memory) <= MaxMemory /\ MaxMemory \in Nat
  BY <1>1, MemoryLength, BrainAssumption
<1>5. Kept(Remembered) = command_memory
  <2>1. Remembered = command_memory
    BY <1>1, RememberedIs
  <2>2. QED BY <1>4, <2>1, KeptLatest
<1>6. /\ current_robot_state' = new_state[c]
      /\ command_memory' = command_memory /\ activated' = Append(activated, EntryOf(c))
  BY DEF Swap, EntryOf
<1>7. EntryOf(c) \in Entry /\ activated \in Seq(Entry)
  BY DEF EntryOf, Entry, IInv, TypeOK
<1>8. Remembered' = Append(command_memory, EntryOf(c))
  <2>1. activated'[Len(activated')] = EntryOf(c)
    BY <1>6, <1>7, LastOfAppend
  <2>2. Remembered' = Append(command_memory', activated'[Len(activated')])
    BY <1>1 DEF Remembered
  <2>3. QED BY <1>6, <2>1, <2>2
<1>9. Kept(Remembered') = Register!Latest(Append(command_memory, EntryOf(c)), MaxMemory)
  <2>1. /\ Append(command_memory, EntryOf(c)) \in Seq(Entry)
        /\ Len(Append(command_memory, EntryOf(c))) <= MaxMemory + 1
    BY <1>4, <1>7
  <2>2. QED BY <1>8, <2>1, KeptLatest
<1>10. current_robot_state'
         = Register!Completed(Register!Answer(text_command[c], current_robot_state, command_memory), lacking)
  BY <1>2, <1>3, <1>6, SameRules
<1>11. QED
  BY <1>5, <1>6, <1>9, <1>10 DEF Register!Execute, Kept, EntryOf

\* With one speaker every step of the brain is a command of the register, a
\* failure of one, or none.
LEMMA NextRegister ==
    OneSpeaker /\ IInv /\ IInv' /\ Current /\ [Next]_vars => [Register!Next]_(Register!vars)
<1> SUFFICES ASSUME OneSpeaker, IInv, IInv', Current, [Next]_vars
             PROVE  [Register!Next]_(Register!vars)
  OBVIOUS
<1>1. TypeOK
  BY DEF IInv
<1>2. ASSUME NEW c \in Callers, pc[c] # "append", pc'[c] # "append",
             UNCHANGED <<current_robot_state, command_memory>>
      PROVE  UNCHANGED Register!vars
  <2>1. Remembered = command_memory /\ Remembered' = command_memory'
    BY <1>2 DEF Remembered, OneSpeaker
  <2>2. QED BY <1>2, <2>1, RegisterStutters
<1>3. ASSUME NEW c \in Callers, NEW text \in Texts, Begin(c, text)
      PROVE  UNCHANGED Register!vars
  BY <1>1, <1>2, <1>3 DEF Begin, Goto, TypeOK
<1>4. ASSUME NEW c \in Callers, Prompt(c) \/ Answered(c) \/ Refused(c) \/ Trim(c) \/ Fits(c)
      PROVE  UNCHANGED Register!vars
  BY <1>1, <1>2, <1>4 DEF Prompt, Answered, Refused, Trim, Fits, Goto, TypeOK
<1>5. ASSUME NEW c \in Callers, Swap(c) PROVE Register!Next
  <2>1. text_command[c] \in Texts
    BY <1>5 DEF Swap, Goto, Current
  <2>2. QED BY <1>5, <2>1, SwapExecutes DEF Register!Next
<1>6. ASSUME NEW c \in Callers, Remember(c) PROVE UNCHANGED Register!vars
  <2>1. pc[c] = "append" /\ pc'[c] = "trim"
    BY <1>1, <1>6 DEF Remember, Goto, TypeOK
  <2>2. Remembered = Append(command_memory, EntryOf(c))
    BY <2>1, RememberedIs DEF Current
  <2>3. Remembered' = command_memory'
    BY <2>1 DEF Remembered, OneSpeaker
  <2>4. QED BY <1>6, <2>2, <2>3, RegisterStutters DEF Remember, EntryOf
<1>7. ASSUME NEW c \in Callers, Pop(c) PROVE UNCHANGED Register!vars
  <2>1. pc[c] = "pop" /\ pc'[c] = "idle"
    BY <1>1, <1>7 DEF Pop, Goto, TypeOK
  <2>2. Remembered = command_memory /\ Remembered' = Tail(command_memory)
    BY <1>7, <2>1 DEF Remembered, OneSpeaker, Pop
  <2>3. Len(command_memory) > MaxMemory
    BY <2>1 DEF Current
  <2>4. Kept(Remembered) = Tail(command_memory) /\ Kept(Remembered') = Tail(command_memory)
    BY <2>2, <2>3, MemoryLength, KeptLatest
  <2>5. QED BY <1>7, <2>4, RegisterStutters DEF Pop, Kept
<1>8. ASSUME NEW c \in Callers, SafeState(c) PROVE Register!Next
  <2>1. pc[c] = "except" /\ pc'[c] = "idle"
    BY <1>1, <1>8 DEF SafeState, Goto, TypeOK
  <2>2. Remembered = command_memory /\ Remembered' = command_memory
    BY <1>8, <2>1 DEF Remembered, OneSpeaker, SafeState
  <2>3. current_robot_state' = Register!Rest(Register!MODE_STAND)
    BY <1>8 DEF SafeState, Rest, Register!Rest, Zero, Register!Zero, Axis, Register!Axis,
       MODE_STAND, Register!MODE_STAND
  <2>4. QED BY <2>2, <2>3 DEF Register!Next, Register!Fail
<1>9. CASE Silence \/ UNCHANGED vars
  <2>1. UNCHANGED <<current_robot_state, Kept(Remembered)>>
    BY <1>9 DEF Silence, vars, Kept, Remembered
  <2>2. QED BY <2>1, RegisterStutters
<1>10. QED
  BY <1>3, <1>4, <1>5, <1>6, <1>7, <1>8, <1>9 DEF Next, Step, Resume

\* With one speaker Spec implements the command register: each command acts at
\* once on the state and the memory it finds, and the memory is the latest ones.
THEOREM Implementation == OneSpeaker => (Spec => ImplementsRegister)
<1> SUFFICES ASSUME OneSpeaker PROVE Spec => ImplementsRegister
  OBVIOUS
<1>1. Init => Register!Init
  BY BrainAssumption DEF Init, Register!Init, Remembered, Rest, Register!Rest, Zero, Register!Zero, Axis,
     Register!Axis, MODE_SLEEP, Register!MODE_SLEEP
<1>2. QED BY <1>1, CurrentInvariance, NextRegister, PTL DEF Spec, Register!Spec, ImplementsRegister
=============================================================================
