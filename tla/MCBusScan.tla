------------------------------ MODULE MCBusScan ------------------------------
(* A glass panel at 1 with the sub-addresses 3 and 4, in its first and its
   second message, and a module without any at 2.  The panel lacks a channel of
   its fourth block, and has one that is misplaced in its third.            *)
EXTENDS BusScan

MCSite == 1 :> [k \in 1 .. 5 |-> IF k = 1 THEN 3 ELSE IF k = 5 THEN 4 ELSE NoSub] @@ 2 :> <<>>
MCSpec == 1 :> {Channel(0, FALSE), Channel(1, FALSE), Channel(2, FALSE), Channel(3, FALSE),
                Channel(3, TRUE)}
          @@ 2 :> {Channel(0, FALSE)}
MCHas  == [m \in {1, 2} |-> MCSpec[m] \ {Channel(3, FALSE)}]

(* For the VLP file: one sub-address, the first. *)
MCOneSub == 1 :> <<3>> @@ 2 :> <<>>
=============================================================================
