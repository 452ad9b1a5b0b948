----------------------------- MODULE MCTeleop -----------------------------
(***************************************************************************)
(* Finite instance of Teleop: a command of each mode, one without a button *)
(* among them, and velocities left over in a command that is not MOVE.     *)
(***************************************************************************)
EXTENDS Teleop

Forward == [vx |-> 20, vy |-> 0, wz |-> 0]

MCAsleep == [mode |-> MODE_SLEEP, vel |-> Zero]
Standing == [mode |-> MODE_STAND, vel |-> Forward]
Walking  == [mode |-> MODE_MOVE, vel |-> Forward]
Turning  == [mode |-> MODE_MOVE, vel |-> [Zero EXCEPT !.wz = 30]]
Odd      == [mode |-> 2, vel |-> Forward]

\* Two movements, or a mode without a button.
MCMovements == {MCAsleep, Standing, Walking, Turning}
MCModes == {MCAsleep, Standing, Walking, Odd}
MCFewCommands == {Standing, Walking}

\* Constant sets of faults.
NoFaults == {}
Interruptions == {"outage", "exit"}
AllFaults == {"late", "exit", "brain", "outage", "write"}
=============================================================================
