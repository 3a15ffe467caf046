---------------------------- MODULE MCThermostat ----------------------------
(* Temperatures on both sides of zero and of a coarse step of four. *)
EXTENDS Thermostat

MCTemperatures == {-1, 0, 4}
=============================================================================
