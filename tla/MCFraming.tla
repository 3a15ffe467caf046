----------------------------- MODULE MCFraming -----------------------------
(* Streams of a few pieces: whole packets of the smallest and the largest size,
   with start and end bytes in their bodies, packets damaged in each way the
   parser distinguishes, cut packets, and noise with and without start bytes. *)
EXTENDS Framing

Msg(prio, addr, rtr, data) ==
    [priority |-> prio, address |-> addr, rtr |-> rtr, data |-> data]

Short  == Msg(248, 1, TRUE, <<>>)
Middle == Msg(251, 15, FALSE, <<START_BYTE, 248, 4>>)
Long   == Msg(249, 4, FALSE, <<240, 15, 248, 1, 2, 15, 4, 0>>)
Zero   == Msg(251, 246, FALSE, <<>>)       \* its header adds up to 512

Cut(s, n) == SubSeq(s, 1, Len(s) - n)

MCSamples == {Short, Middle, Long, Zero}

LegalPieces == {
    ToBytes(Short), ToBytes(Middle), ToBytes(Long),
    <<15, 251, 246, 0, 0, 4>>,                            \* Zero, checksum 0
    Cut(ToBytes(Long), 3),                                \* a packet that breaks off
    Cut(ToBytes(Middle), 7),                              \* a header that breaks off
    [ToBytes(Short) EXCEPT ![5] = 7],                     \* wrong checksum
    [ToBytes(Middle) EXCEPT ![9] = 5],                    \* wrong end byte
    [ToBytes(Middle) EXCEPT ![2] = 0],                    \* no such priority
    <<0, 255, 4>>,                                        \* noise
    <<START_BYTE, START_BYTE>>}

WrongSize == [ToBytes(Short) EXCEPT ![4] = 73]            \* a body of 9 bytes
Pieces == LegalPieces \cup {WrongSize}
NPieces == 3                                              \* bound: pieces in a stream

MCStreams == UNION {{FlattenSeq(ps) : ps \in [1 .. n -> Pieces]} : n \in 1 .. NPieces}

(* The scan as a walk from byte to byte. *)
RECURSIVE Walk(_, _)
Walk(s, p) ==
    IF p > Len(s) THEN <<>>
    ELSE IF PacketAt(s, p) THEN <<p>> \o Walk(s, LastOf(s, p) + 1) ELSE Walk(s, p + 1)

(* The bytes of a packet up to its checksum add up to 0 modulo 256. *)
ASSUME WalkAssumption == \A s \in MCStreams :
    /\ IsScan(s, Walk(s, 1), Len(s))
    /\ \A i \in DOMAIN Walk(s, 1) : LET p == Walk(s, 1)[i]
                                   IN  Sum(SubSeq(s, p, LastOf(s, p) - 1)) % 256 = 0
=============================================================================
