---------------------------- MODULE MCVelbusLink ----------------------------
(* Model checking of the controller with its protocol object. *)
EXTENDS VelbusLink

CONSTANTS w1, w2, w3, r1, r2    \* model values

MCWriters == {w1, w2, w3}
MCLoops   == {r1, r2}
=============================================================================
