----------------------------- MODULE Temperature -----------------------------
(***************************************************************************)
(* Temperature.maybe_update_temperature() of velbusaio/channels.py: a      *)
(* sensor reports its temperature in messages of two precisions, rounded   *)
(* down in both, and a coarse one must not spoil what a fine one said.     *)
(* Temperatures and precisions are counted in the finest unit.             *)
(***************************************************************************)
EXTENDS Integers

CONSTANT NoPrecision   \* _cur_precision before the first message

Floor(t, p) == (t \div p) * p

(* Mutant: a step that was passed is not gone below. *)
MeasuredAbove(c, new, p) ==
    LET held  == Floor(c.cur, p)
        finer == c.cur_precision # NoPrecision /\ c.cur_precision < p
    IN  IF held = new THEN [cur |-> c.cur, cur_precision |-> c.cur_precision]
        ELSE [cur |-> IF held - p <= new /\ new < held /\ finer THEN held ELSE new,
              cur_precision |-> p]

(* The temperature and precision a channel c has after a message of `new' with
   precision p: what it has, if the message says no other; just below the step
   that was passed, if it had the better precision; else the message's.      *)
Measured(c, new, p) ==
    LET held  == Floor(c.cur, p)
        finer == c.cur_precision # NoPrecision /\ c.cur_precision < p
    IN  IF held = new THEN [cur |-> c.cur, cur_precision |-> c.cur_precision]
        ELSE [cur |-> IF held - p <= new /\ new < held /\ finer THEN held - c.cur_precision ELSE new,
              cur_precision |-> p]
=============================================================================
