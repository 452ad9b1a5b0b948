------------------------------- MODULE Voice -------------------------------
(***************************************************************************)
(* main.py, microphone.py and api.py: who calls the brain.  The microphone *)
(* thread listens, has the speech recognised by a service and runs the     *)
(* brain to completion, one command at a time, for ever; requests of the   *)
(* web API reach the brain at any time.                                    *)
(*                                                                         *)
(* A glitch is any exception of the loop's body: of the audio device, of   *)
(* the recogniser, or of the brain before its try (a client without a      *)
(* key).  A second without speech (WaitTimeoutError) changes nothing.      *)
(***************************************************************************)
EXTENDS Brain

CONSTANT Mic    \* the activation of the microphone thread

\* main(): the microphone has a thread of its own, the web server keeps main's.
ASSUME VoiceAssumption ==
    /\ Mic \in Callers
    /\ \A c \in Callers \ {Mic} : ThreadOf[c] # ThreadOf[Mic]

VARIABLE mic    \* where mic_listen_loop is

voiceVars == <<vars, mic>>

VoiceInit == Init /\ mic = "calibrate"

Loop(from, to) == mic = from /\ mic' = to

\* The device is opened and the room is measured ...
Calibrate == Loop("calibrate", "listen") /\ UNCHANGED vars

\* ... or there is none: nothing catches that, and the daemon thread ends.
NoMicrophone == Loop("calibrate", "dead") /\ UNCHANGED vars

\* listen() returns a phrase.
Hear == Loop("listen", "recognise") /\ UNCHANGED vars

\* UnknownValueError: no words in it.
Misheard == Loop("recognise", "listen") /\ UNCHANGED vars

\* recognize_google() returns the text, and run_until_complete() the command.
Speak(text) == Loop("recognise", "brain") /\ Begin(Mic, text)

\* Mutant: the handler is around the loop instead of inside it.
Glitch_Ends ==
    /\ mic \in {"listen", "recognise"} /\ mic' = "dead"
    /\ UNCHANGED vars

\* except Exception
Glitch ==
    /\ mic \in {"listen", "recognise"} /\ mic' = "pause"
    /\ UNCHANGED vars

\* time.sleep(1) is over.
Recover == Loop("pause", "listen") /\ UNCHANGED vars

\* process_text_command has returned.
Done ==
    /\ pc[Mic] = "idle"
    /\ Loop("brain", "listen") /\ UNCHANGED vars

\* receive_command, on the event loop of the web server.
Post(c, text) == c # Mic /\ Begin(c, text) /\ UNCHANGED mic

\* There is no microphone, and nobody posts.
Deaf == mic = "dead" /\ Quiet /\ UNCHANGED voiceVars

VoiceNext ==
    \/ Calibrate \/ NoMicrophone \/ Hear \/ Misheard \/ Glitch \/ Recover \/ Done
    \/ \E text \in Texts : Speak(text) \/ (\E c \in Callers : Post(c, text))
    \/ (Silence \/ \E c \in Callers : Step(c) \/ Resume(c)) /\ UNCHANGED mic
    \/ Deaf

VoiceSpec == VoiceInit /\ [][VoiceNext]_voiceVars

\* The threads are scheduled, and listen() returns: it waits a second for speech
\* and takes five at most.  Nothing is promised of the two services.
FairVoiceSpec ==
    /\ VoiceSpec
    /\ \A c \in Callers : WF_voiceVars(Step(c) /\ UNCHANGED mic)
    /\ WF_voiceVars(Calibrate \/ NoMicrophone) /\ WF_voiceVars(Recover) /\ WF_voiceVars(Done)

----------------------------------------------------------------------------
(* Properties.                                                              *)

VoiceTypeOK ==
    /\ TypeOK
    /\ mic \in {"calibrate", "listen", "recognise", "brain", "pause", "dead"}
    /\ mic # "brain" => pc[Mic] = "idle"

\* Once it listens, the thread listens again and again, through glitches, failed
\* and hung requests of others, and everything the other thread does: a service
\* that does not answer its own phrase or command is all that can stop it.
KeepsListening ==
    <>(mic = "listen") =>
        \/ []<>(mic = "listen")
        \/ <>[](mic = "recognise")
        \/ <>[](pc[Mic] = "await")
=============================================================================
