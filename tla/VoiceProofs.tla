---------------------------- MODULE VoiceProofs ----------------------------
(***************************************************************************)
(* Theorems about Voice: the microphone thread and the web API use the     *)
(* brain as Brain allows, so what is proved of Brain holds of the program. *)
(***************************************************************************)
EXTENDS Voice, RegisterProofs

\* Every step of the two callers is a step of the brain, or none.
LEMMA NextBrain == [VoiceNext]_voiceVars => [Next]_vars
<1> SUFFICES ASSUME [VoiceNext]_voiceVars PROVE [Next]_vars
  OBVIOUS
<1>1. CASE \/ Calibrate \/ NoMicrophone \/ Hear \/ Misheard \/ Glitch \/ Recover \/ Done
           \/ Deaf \/ UNCHANGED voiceVars
  BY <1>1 DEF Calibrate, NoMicrophone, Hear, Misheard, Glitch, Recover, Done, Deaf, voiceVars
<1>2. ASSUME NEW text \in Texts, Speak(text) PROVE Next
  BY <1>2, VoiceAssumption DEF Speak, Next
<1>3. ASSUME NEW text \in Texts, NEW c \in Callers, Post(c, text) PROVE Next
  BY <1>3 DEF Post, Next
<1>4. CASE Silence \/ \E c \in Callers : Step(c) \/ Resume(c)
  BY <1>4 DEF Next
<1>5. QED BY <1>1, <1>2, <1>3, <1>4 DEF VoiceNext

\* The program's callers are callers of Brain: its invariants are theirs.
THEOREM VoiceImplementsBrain == VoiceSpec => Spec
<1>1. VoiceInit => Init
  BY DEF VoiceInit
<1>2. QED BY <1>1, NextBrain, PTL DEF VoiceSpec, Spec

\* While the thread does not wait for the brain it has no command in it.
LEMMA VoiceTypeKept == TypeOK /\ TypeOK' /\ VoiceTypeOK /\ [VoiceNext]_voiceVars => VoiceTypeOK'
<1> SUFFICES ASSUME TypeOK, TypeOK', VoiceTypeOK, [VoiceNext]_voiceVars PROVE VoiceTypeOK'
  OBVIOUS
<1> USE DEF VoiceTypeOK
<1>1. CASE \/ Calibrate \/ NoMicrophone \/ Hear \/ Misheard \/ Glitch \/ Recover \/ Done
  <2>1. pc' = pc
    BY <1>1 DEF Calibrate, NoMicrophone, Hear, Misheard, Glitch, Recover, Done, vars
  <2>2. mic' \in {"listen", "recognise", "pause", "dead"} /\ pc[Mic] = "idle"
    BY <1>1 DEF Calibrate, NoMicrophone, Hear, Misheard, Glitch, Recover, Done, Loop
  <2>3. QED BY <2>1, <2>2
<1>2. ASSUME NEW text \in Texts, Speak(text) PROVE VoiceTypeOK'
  BY <1>2 DEF Speak, Loop
<1>3. ASSUME NEW text \in Texts, NEW c \in Callers, Post(c, text) PROVE VoiceTypeOK'
  <2>1. pc'[Mic] = pc[Mic] /\ mic' = mic
    BY <1>3, VoiceAssumption DEF Post, Begin, Goto, TypeOK
  <2>2. QED BY <2>1
<1>4. ASSUME UNCHANGED mic, NEW c \in Callers, Step(c) \/ Resume(c) PROVE VoiceTypeOK'
  <2>1. pc[c] # "idle" /\ (c # Mic => pc'[Mic] = pc[Mic])
    BY <1>4, VoiceAssumption DEF Step, Resume, Prompt, Answered, Refused, Swap, Remember, Trim,
       Fits, Pop, SafeState, Goto, TypeOK
  <2>2. QED BY <1>4, <2>1
<1>5. CASE (Silence \/ Deaf \/ UNCHANGED vars) /\ UNCHANGED mic
  BY <1>5 DEF Silence, Deaf, vars, voiceVars
<1>6. QED BY <1>1, <1>2, <1>3, <1>4, <1>5 DEF VoiceNext, voiceVars, Deaf

\* Type correctness, and one command of the microphone at a time.
THEOREM VoiceTypeCorrect == VoiceSpec => []VoiceTypeOK
<1>1. TypeOK /\ VoiceInit => VoiceTypeOK
  BY VoiceAssumption DEF VoiceInit, Init, VoiceTypeOK
<1>2. VoiceSpec => []TypeOK
  BY VoiceImplementsBrain, TypeCorrect, PTL
<1>3. QED BY <1>1, <1>2, VoiceTypeKept, PTL DEF VoiceSpec

\* While nobody uses the web API the microphone is the one speaker:
\* its commands are those of the register, and the sleep lock holds.
COROLLARY MicrophoneImplementsRegister ==
    Callers = {Mic} => (VoiceSpec => ImplementsRegister /\ NeverWalksFromSleep)
<1> SUFFICES ASSUME Callers = {Mic} PROVE VoiceSpec => ImplementsRegister /\ NeverWalksFromSleep
  OBVIOUS
<1>1. OneSpeaker
  BY DEF OneSpeaker
<1>2. QED BY <1>1, VoiceImplementsBrain, Implementation, SleepLockHolds, PTL
=============================================================================
