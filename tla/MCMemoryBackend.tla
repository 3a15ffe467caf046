-------------------------- MODULE MCMemoryBackend --------------------------
(* A block and a byte: three addresses, blocks of two, bytes 0 and 1. *)
EXTENDS MemoryBackend

Reads(s, n, c) == [op |-> "read", start |-> s, len |-> n, data |-> <<>>, useCache |-> c]
Writes(s, d)   == [op |-> "write", start |-> s, len |-> Len(d), data |-> d, useCache |-> FALSE]

Erased == {[a \in Addr |-> 0]}

MCJobs == {Reads(0, 3, TRUE), Reads(0, 3, FALSE), Reads(0, 1, TRUE),
           Writes(0, <<1, 1, 1>>), Writes(0, <<0>>)}
=============================================================================
