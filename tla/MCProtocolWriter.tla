-------------------------- MODULE MCProtocolWriter --------------------------
(* Model checking of ProtocolWriter on a few messages, connections and tasks.
   The writer tasks are not declared symmetric: every run checks a temporal
   property or a refinement.                                                *)
EXTENDS ProtocolWriter

CONSTANTS w1, w2, w3    \* model values

MCWriters == {w1, w2, w3}
=============================================================================
