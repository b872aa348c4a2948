-------------------------------- MODULE Clock --------------------------------
(* Date.now() of the server process, in units of the shortest window. *)
EXTENDS Naturals

CONSTANT MaxTime   \* bound on the clock
ASSUME ClockAssumption == MaxTime \in Nat

VARIABLE now

Time == 0 .. MaxTime
=============================================================================
