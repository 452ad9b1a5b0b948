------------------------------ MODULE MCBrain ------------------------------
(***************************************************************************)
(* Finite instances of Brain: what is said and answered, and two requests  *)
(* on the web server's event loop.                                         *)
(***************************************************************************)
EXTENDS Brain

CONSTANTS Web1, Web2

Toward(x, w) == [vx |-> x, vy |-> 0, wz |-> w]
Say(kind) == [kind |-> kind]
Move(dir, speed) == [kind |-> "move", dir |-> dir, speed |-> speed]

MCTexts ==
    {Say("sleep"), Say("stand"), Say("again"), Say("chat"), Say("faster"),
     Move(Toward(1, 0), "unsaid"), Move(Toward(0, -1), "medium")}
MCFewTexts ==
    {Say("sleep"), Say("stand"), Say("chat"), Move(Toward(1, 0), "unsaid")}

TwoRequests == {Web1, Web2}
OneLoop == [c \in Callers |-> "uvicorn"]

\* Answers with all their fields, and others wrapped in an object of their own.
Complete == {{}}
CompleteOrWrapped == {{}, Field}
=============================================================================
