------------------------------- MODULE Framing -------------------------------
(***************************************************************************)
(* The receive side of VelbusProtocol: data_received() in                  *)
(* velbusaio/protocol.py cuts the byte stream into packets with create()   *)
(* and _parse() of velbusaio/raw_message.py.  The bytes, sizes and         *)
(* checksums are the real ones; the stream arrives in reads of any size.   *)
(*                                                                         *)
(* A step is a read, or one turn of the loop in create() with what         *)
(* data_received() does when create() returns.  Nothing else runs between  *)
(* them: the next read comes when data_received() has returned.            *)
(***************************************************************************)
EXTENDS Integers, Sequences, SequencesExt, FiniteSets

CONSTANTS
    Streams,     \* what the bus may send, sequences of bytes
    Samples      \* messages whose way from to_bytes() to _parse() is followed

START_BYTE == 15
END_BYTE == 4
PRIORITIES == {248, 249, 250, 251, 252}
HEADER_LENGTH == 4
TAIL_LENGTH == 2
MAX_BODY_SIZE == 8
MINIMUM_MESSAGE_SIZE == HEADER_LENGTH + TAIL_LENGTH
MAXIMUM_MESSAGE_SIZE == MINIMUM_MESSAGE_SIZE + MAX_BODY_SIZE
RTR == 64
SIZES == 16         \* the low nibble of the fourth byte is the size of the body

Byte == 0 .. 255

(* RawMessage, of a size a packet can have *)
RawMessages == {m \in [priority : PRIORITIES, address : Byte, rtr : BOOLEAN, data : Seq(Byte)] :
                    Len(m.data) <= MAX_BODY_SIZE}

ASSUME FramingAssumption == Streams \subseteq Seq(Byte) /\ Samples \subseteq RawMessages

From(s, i)  == SubSeq(s, i, Len(s))
Upto(s, n)  == SubSeq(s, 1, IF n < Len(s) THEN n ELSE Len(s))
Sum(bytes)  == FoldSeq(LAMBDA b, acc : b + acc, 0, bytes)

(* util.checksum *)
Checksum(bytes) == (256 - (Sum(bytes) % 256)) % 256

(* RawMessage.to_bytes *)
ToBytes(m) ==
    LET header == <<START_BYTE, m.priority, m.address,
                    (IF m.rtr THEN RTR ELSE 0) + Len(m.data)>>
    IN  header \o m.data \o <<Checksum(header \o m.data), END_BYTE>>
-----------------------------------------------------------------------------
(* _trim_buffer_garbage: drop what precedes the first start byte. *)
Trim(raw) ==
    LET starts == {i \in DOMAIN raw : raw[i] = START_BYTE}
    IN  IF starts = {} THEN <<>>
        ELSE From(raw, CHOOSE i \in starts : \A j \in starts : i <= j)

(* The outcomes of _parse: a ParseError, an incomplete packet, or a message
   with the bytes behind it.                                                *)
Bad == [kind |-> "error"]
Incomplete == [kind |-> "incomplete"]
Parsed(m, rest) == [kind |-> "message", msg |-> m, rest |-> rest]

(* Mutant: the rtr bit is only seen in a packet with a body. *)
MessageOfRtr(raw, data) ==
    [priority |-> raw[2], address |-> raw[3], rtr |-> raw[4] > RTR, data |-> data]

MessageOf(raw, data) ==
    [priority |-> raw[2], address |-> raw[3],
     rtr |-> (raw[4] \div RTR) % 2 = 1, data |-> data]

(* Mutant: a wrong end byte is taken for a packet that goes on. *)
ParseNoEnd(raw) ==
    LET size == raw[4] % SIZES
        body == HEADER_LENGTH + size
    IN  IF raw[2] \notin PRIORITIES THEN Bad
        ELSE IF body + TAIL_LENGTH > Len(raw) \/ raw[body + 2] # END_BYTE THEN Incomplete
        ELSE IF raw[body + 1] # Checksum(Upto(raw, body)) THEN Bad
        ELSE Parsed(MessageOf(raw, SubSeq(raw, HEADER_LENGTH + 1, body)),
                    From(raw, body + TAIL_LENGTH + 1))

(* _parse, for a buffer that starts with the start byte and has at least the
   minimum size.                                                            *)
Parse(raw) ==
    LET size == raw[4] % SIZES
        body == HEADER_LENGTH + size
    IN  IF raw[2] \notin PRIORITIES THEN Bad
        ELSE IF body + TAIL_LENGTH > Len(raw) THEN Incomplete
        ELSE IF raw[body + 2] # END_BYTE \/ raw[body + 1] # Checksum(Upto(raw, body)) THEN Bad
        ELSE Parsed(MessageOf(raw, SubSeq(raw, HEADER_LENGTH + 1, body)),
                    From(raw, body + TAIL_LENGTH + 1))
-----------------------------------------------------------------------------
VARIABLES
    stream,     \* every byte the bus sends
    taken,      \* how many of them have been read
    buf,        \* _serial_buf: what create() is looking at and what follows it
    window,     \* how many bytes of buf create() is looking at, 0 outside it
    delivered,  \* messages handed to _process_message, in order
    places      \* history: where in the stream each of them began

fvars == <<stream, taken, buf, window, delivered, places>>

(* create() is given at most a maximum-size packet, and at least a minimum-size one. *)
Window(b) == IF Len(b) < MINIMUM_MESSAGE_SIZE THEN 0
             ELSE IF Len(b) < MAXIMUM_MESSAGE_SIZE THEN Len(b) ELSE MAXIMUM_MESSAGE_SIZE

FInit == /\ stream \in Streams /\ taken = 0 /\ buf = <<>> /\ window = 0
         /\ delivered = <<>> /\ places = <<>>

(* A read of n bytes, by data_received() or through buffer_updated(). *)
Read(n) ==
    /\ window = 0
    /\ taken' = taken + n
    /\ buf' = buf \o SubSeq(stream, taken + 1, taken + n)
    /\ window' = Window(buf')
    /\ UNCHANGED <<stream, delivered, places>>

(* What create() has before it, and what data_received() has kept behind it. *)
Raw    == Trim(Upto(buf, window))
Behind == From(buf, window + 1)

(* create() returns without a message, which ends the loop of data_received(). *)
Leave ==
    /\ window > 0
    /\ Len(Raw) >= MINIMUM_MESSAGE_SIZE => Parse(Raw).kind = "incomplete"
    /\ buf' = Raw \o Behind /\ window' = 0
    /\ UNCHANGED <<stream, taken, delivered, places>>

(* A ParseError: create() goes on behind the start byte. *)
Skip ==
    /\ window > 0 /\ Len(Raw) >= MINIMUM_MESSAGE_SIZE /\ Parse(Raw).kind = "error"
    /\ buf' = Tail(Raw) \o Behind /\ window' = Len(Raw) - 1
    /\ UNCHANGED <<stream, taken, delivered, places>>

(* Mutant: what lies behind the first maximum-size packet is not kept. *)
DeliverDropTail ==
    /\ window > 0 /\ Len(Raw) >= MINIMUM_MESSAGE_SIZE /\ Parse(Raw).kind = "message"
    /\ delivered' = Append(delivered, Parse(Raw).msg)
    /\ places' = Append(places, taken - Len(Raw \o Behind) + 1)
    /\ buf' = Parse(Raw).rest /\ window' = Window(buf')
    /\ UNCHANGED <<stream, taken>>

Deliver ==
    /\ window > 0 /\ Len(Raw) >= MINIMUM_MESSAGE_SIZE /\ Parse(Raw).kind = "message"
    /\ delivered' = Append(delivered, Parse(Raw).msg)
    /\ places' = Append(places, taken - Len(Raw \o Behind) + 1)
    /\ buf' = Parse(Raw).rest \o Behind /\ window' = Window(buf')
    /\ UNCHANGED <<stream, taken>>

FNext == (\E n \in 1 .. Len(stream) - taken : Read(n)) \/ Leave \/ Skip \/ Deliver

FSpec == FInit /\ [][FNext]_fvars
-----------------------------------------------------------------------------
(* The reference, by positions in the whole stream.  There is a packet at p when
   its header is valid, its size is one a packet can have, and end byte and
   checksum are right.                                                      *)
Size(s, p)   == s[p + 3] % SIZES
LastOf(s, p) == p + HEADER_LENGTH + Size(s, p) + TAIL_LENGTH - 1

PacketAt(s, p) ==
    /\ p + MINIMUM_MESSAGE_SIZE - 1 <= Len(s)
    /\ s[p] = START_BYTE /\ s[p + 1] \in PRIORITIES
    /\ Size(s, p) <= MAX_BODY_SIZE /\ LastOf(s, p) <= Len(s)
    /\ s[LastOf(s, p)] = END_BYTE
    /\ s[LastOf(s, p) - 1] = Checksum(SubSeq(s, p, LastOf(s, p) - TAIL_LENGTH))

MessageAt(s, p) ==
    [priority |-> s[p + 1], address |-> s[p + 2], rtr |-> (s[p + 3] \div RTR) % 2 = 1,
     data |-> SubSeq(s, p + HEADER_LENGTH, LastOf(s, p) - TAIL_LENGTH)]

(* The packets of a scan of s up to u: one after the other, and all there are but
   for those inside another.                                                *)
IsScan(s, at, u) ==
    /\ \A i \in DOMAIN at : PacketAt(s, at[i]) /\ LastOf(s, at[i]) <= u
    /\ \A i, j \in DOMAIN at : i < j => LastOf(s, at[i]) < at[j]
    /\ \A p \in 1 .. u : PacketAt(s, p) => \E i \in DOMAIN at : p \in at[i] .. LastOf(s, at[i])

(* What is delivered does not depend on how the transport cuts the stream into
   reads, nor on the window of one maximum-size packet: it is always what a scan
   of the stream finds in the bytes that have left the buffer.              *)
ChunkIndependent ==
    /\ IsScan(stream, places, taken - Len(buf))
    /\ delivered = [i \in DOMAIN places |-> MessageAt(stream, places[i])]

(* A buffered maximum-size head is one create() can do something with. *)
HeadMoves == LET raw == Trim(Upto(buf, MAXIMUM_MESSAGE_SIZE))
             IN  Len(raw) < MAXIMUM_MESSAGE_SIZE \/ Parse(raw).kind # "incomplete"

(* The buffer never stays as it is with a maximum-size packet in it, unless a
   start byte is followed by an impossible size: noise, cut packets, wrong
   priorities, end bytes and checksums never hold up the bytes behind them.  *)
NeverStuckLegalSize ==
    (Len(buf) >= MAXIMUM_MESSAGE_SIZE
        /\ ~(buf[1] = START_BYTE /\ Size(buf, 1) > MAX_BODY_SIZE)) => HeadMoves

(* A message to_bytes() put alone on the bus arrives as it was sent, in however
   many reads, and leaves nothing in the buffer: priorities, rtr bit, empty and
   full bodies, checksum 0.                                                 *)
RoundTrip == \A m \in Samples :
    (stream = ToBytes(m) /\ taken = Len(stream) /\ window = 0) => (delivered = <<m>> /\ buf = <<>>)
=============================================================================
