------------------------------ MODULE MCVoice ------------------------------
(***************************************************************************)
(* Finite instances of Voice: the microphone alone, and with a web request. *)
(***************************************************************************)
EXTENDS MCBrain, Voice

Microphone == {Mic}
MicAndWeb == {Mic, Web1}
OnThreads == [c \in Callers |-> IF c = Mic THEN "microphone" ELSE "uvicorn"]
=============================================================================
