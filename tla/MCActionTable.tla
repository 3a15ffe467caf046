--------------------------- MODULE MCActionTable ---------------------------
(* A table of two slots, one block and one byte each, shared by two channels. *)
EXTENDS ActionTable

Op(kind, c, src, s) == [op |-> kind, channel |-> c, source |-> src, slot |-> s]

MCTableOps == {Op("set", 1, 1, NoSlot), Op("set", 1, 2, NoSlot), Op("set", 2, 1, NoSlot),
               Op("clear", 1, 1, 0), Op("clearSource", 1, 1, NoSlot), 
               Op("load", 1, 1, NoSlot), Op("reload", 1, 1, NoSlot)}

Erased  == [a \in Addr |-> EMPTY]
MCContents == {Erased, [Erased EXCEPT ![3] = 2, ![4] = 2, ![5] = 1]}
MCJobs == TableJobs
=============================================================================
