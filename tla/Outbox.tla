------------------------------- MODULE Outbox -------------------------------
(***************************************************************************)
(* What the send side of VelbusProtocol promises its callers, with nothing *)
(* of how it keeps the promise: messages are accepted one after the other, *)
(* and each goes on the wire at most once, in the order of acceptance.     *)
(* A message whose write raised is given up.  Messages are named by the    *)
(* order of their acceptance, 1, 2, 3, ...                                 *)
(***************************************************************************)
EXTENDS Naturals, Sequences

VARIABLES
    accepted,   \* how many messages send_message() has taken
    pending,    \* the accepted messages not yet written or given up
    wire        \* what transport.write() was given, in order

outVars == <<accepted, pending, wire>>

OutInit == accepted = 0 /\ pending = {} /\ wire = <<>>

Accept == /\ accepted' = accepted + 1
          /\ pending' = pending \cup {accepted + 1}
          /\ UNCHANGED wire

Oldest(m) == m \in pending /\ \A k \in pending : m <= k

Transmit(m) == /\ Oldest(m)
               /\ wire' = Append(wire, m)
               /\ pending' = pending \ {m}
               /\ UNCHANGED accepted

GiveUp(m) == /\ Oldest(m)
             /\ pending' = pending \ {m}
             /\ UNCHANGED <<accepted, wire>>

OutNext == \/ Accept
           \/ \E m \in pending : Transmit(m) \/ GiveUp(m)

OutSpec == OutInit /\ [][OutNext]_outVars
=============================================================================
