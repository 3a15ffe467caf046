---------------------------- MODULE MessageFields ----------------------------
(***************************************************************************)
(* The fields of velbusaio/message_fields.py: where a field lies in the    *)
(* body of a message, what it makes of the bytes there and what bytes it   *)
(* makes of a value.                                                       *)
(*                                                                         *)
(* A value is a sequence of integers: <<n>> a number or a flag, <<>> None  *)
(* or nothing, the characters of a text, the channels of a list, the two   *)
(* halves of a number of 32 bits; <<AllChannels>> the number 0xFF where a  *)
(* list of channels may stand.  Temperatures are counted in the smallest   *)
(* step of their field (1/512 or 1/2 degree), watts, volts and amperes in  *)
(* thousandths, so that a float is an integer here.                        *)
(*                                                                         *)
(* d is the body without its command byte.  RawMessage.data_only gives     *)
(* None for an empty one: whatever looks into it raises TypeError.         *)
(***************************************************************************)
EXTENDS Integers, Sequences, FiniteSetsExt, SequencesExt

Octet == 0 .. 255
AllChannels == 255
BitsOf(n, lo, width) == (n \div 2^lo) % 2^width
ChannelsIn(b) == {c \in 1 .. 8 : BitsOf(b, c - 1, 1) = 1}

(* The elements of a sequence that are in a set, in their order: SelectSeq(),
   which the provers do not know.                                           *)
Only(s, S) ==
    LET kept[i \in 0 .. Len(s)] ==
            IF i = 0 THEN <<>>
            ELSE IF s[i] \in S THEN Append(kept[i - 1], s[i]) ELSE kept[i - 1]
    IN  kept[Len(s)]
Ascending(S) == Only([i \in 1 .. 16 |-> i - 1], S)

(* Mutant: the first channel has the second bit. *)
MaskShifted(S) ==
    LET bit(c) == IF c \in S THEN 2^c ELSE 0
    IN  bit(1) + bit(2) + bit(3) + bit(4) + bit(5) + bit(6) + bit(7) + bit(8)
Mask(S) ==
    LET bit(c) == IF c \in S THEN 2^(c - 1) ELSE 0
    IN  bit(1) + bit(2) + bit(3) + bit(4) + bit(5) + bit(6) + bit(7) + bit(8)
TwosComplement(n, width) == IF n >= 2^(width - 1) THEN n - 2^width ELSE n

(* The number in the n bytes from data[at] on, most significant first, and
   the bytes of a number.                                                   *)
Number(d, at, n) ==
    CASE n = 1 -> d[at + 1]
      [] n = 2 -> 256 * d[at + 1] + d[at + 2]
      [] n = 3 -> 65536 * d[at + 1] + 256 * d[at + 2] + d[at + 3]
      [] OTHER -> 0
Octets(n, size) == [i \in 1 .. size |-> (n \div 256^(size - i)) % 256]

(* MODULES_WITHOUT_SERIAL *)
OldTypes == {1, 2, 3, 5, 7, 8, 9, 12, 14, 15, 20}
-----------------------------------------------------------------------------
(* A field: kind says how it reads and writes, at is its byte_index, size the
   bytes it must find there, lo and width the bits it takes of their number,
   sent whether data_to_binary() writes it.                                 *)
Field(name, kind, at, size, default) ==
    [name |-> name, kind |-> kind, at |-> at, size |-> size, lo |-> 0, width |-> 8 * size,
     offset |-> 0, scale |-> 1, default |-> default, sent |-> TRUE]

ByteField(name, at)  == Field(name, "number", at, 1, <<0>>)
Int16Field(name, at) == Field(name, "number", at, 2, <<0>>)
Int24Field(name, at) == Field(name, "number", at, 3, <<0>>)
Int32Field(name, at) == Field(name, "wide", at, 4, <<0, 0>>)
ChannelsField(name, at) == Field(name, "channels", at, 1, <<>>)
ChannelField(name, at)  == Field(name, "channel", at, 1, <<0>>)
ChannelIndexField(name, at) == Field(name, "index", at, 1, <<>>)
BlindChannelField(name, at) == Field(name, "blind", at, 1, <<0>>)
BlindStatusField(name, at) ==
    [Field(name, "blindStatus", 0, at + 1, <<0>>) EXCEPT !.lo = at, !.sent = FALSE]
TemperatureField(name, at) == Field(name, "temperature", at, 2, <<0>>)
HalfDegreeField(name, at)  == Field(name, "half", at, 0, <<0>>)
RawTailField(name, at)     == Field(name, "tail", at, 0, <<>>)
StringField(name, at)      == Field(name, "text", at, 0, <<>>)

(* Bits of a byte, or of the number in n bytes; written by a BitField that is
   serializable only.                                                       *)
BitField(name, at, lo, width) ==
    [ByteField(name, at) EXCEPT !.lo = lo, !.width = width, !.sent = FALSE]
ComputedField(name, at, n, lo, width) ==
    [BitField(name, at, lo, width) EXCEPT !.size = n]

NoName == ""          \* of a byte that no attribute stands for

(* A Field without a place and a parser of its own keeps its default. *)
PlainField(name, default) == [Field(name, "plain", 0, 0, default) EXCEPT !.sent = FALSE]

Sent(f) == [f EXCEPT !.sent = TRUE]
Unsent(f) == [f EXCEPT !.sent = FALSE]
Default(f, v) == [f EXCEPT !.default = v]
Plus(f, n) == [f EXCEPT !.offset = n]
Times(f, n) == [f EXCEPT !.scale = n]
Kind(f, k) == [f EXCEPT !.kind = k]
-----------------------------------------------------------------------------
BlindIn(b) == IF BitsOf(b, 1, 2) = 1 THEN 1 ELSE 2
Tail1(f, d) == SubSeq(d, f.at + 1, Len(d))

(* DaliDeviceSettingMsg: the setting in data[1] says how the rest is decoded; what
   does not decode stays as it is.                                          *)
Setting(v) ==
    IF v[1] = 21 /\ Len(v) = 3
    THEN <<21>> \o Ascending({g \in 0 .. 15 : BitsOf(v[2] + 256 * v[3], g, 1) = 1})
    ELSE v

(* What byte f.at says, if the body is that long. *)
Optionally(f, d, value) == IF Len(d) > f.at THEN <<value>> ELSE f.default

(* parse(), when it returns. *)
Parsed(f, d) ==
    LET n == Number(d, f.at, f.size)
    IN  CASE f.kind \in {"number", "cut", "unsigned", "modeName", "source"} ->
                 <<f.offset + f.scale * BitsOf(n, f.lo, f.width)>>
          [] f.kind = "wide" -> <<Number(d, f.at, 2), Number(d, f.at + 2, 2)>>
          [] f.kind \in {"channels", "channel"} -> Ascending(ChannelsIn(n))
          [] f.kind = "index" -> IF n = 0 THEN <<>> ELSE <<n>>
          [] f.kind = "blind" -> <<BlindIn(n)>>
          [] f.kind = "blindStatus" -> <<BitsOf(d[f.lo + 1], (BlindIn(d[1]) - 1) * 2, 2)>>
          [] f.kind = "blinds" -> Ascending(ChannelsIn(BitsOf(n, 1, 2)))
          [] f.kind = "temperature" -> <<IF n >= 2^15 THEN n - 127 * 512 ELSE n>>
          [] f.kind \in {"half", "setHalf"} -> Optionally(f, d, TwosComplement(d[f.at + 1], 8))
          [] f.kind = "optional" -> Optionally(f, d, d[f.at + 1])
          [] f.kind = "tail" -> Tail1(f, d)
          [] f.kind = "setting" -> Setting(Tail1(f, d))
          [] f.kind = "text" -> Only(Tail1(f, d), 1 .. 255)
          [] f.kind = "fromEnd" -> <<d[Len(d) - f.at + 1]>>
          [] f.kind = "unlessOld" -> IF d[1] \in OldTypes THEN <<0>> ELSE <<n>>
          [] f.kind = "light" -> <<256 * BitsOf(n, 12, 2) + (n % 256)>>
          [] OTHER -> f.default

(* What parse() raises instead: the body is None, a byte is not there, there
   is not exactly one channel, the mode has no name, the source no member.   *)
ParseError(f, d) ==
    CASE f.kind = "plain" -> "none"
      [] f.kind # "plain" /\ d = <<>> -> "TypeError"
      [] f.kind = "unlessOld" /\ d # <<>> /\ d[1] \in OldTypes -> "none"
      [] f.kind \in {"half", "optional", "tail", "setting", "text"} /\ d # <<>> -> "none"
      [] OTHER ->
           IF Len(d) < f.at + f.size THEN "IndexError"
           ELSE IF f.kind = "channel" /\ Cardinality(ChannelsIn(d[f.at + 1])) # 1 THEN "ValueError"
           ELSE IF f.kind = "modeName" /\ BitsOf(d[f.at + 1], 4, 3) \notin {0, 1, 2, 4} THEN "KeyError"
           ELSE IF f.kind = "source" /\ d[f.at + 1] > 1 THEN "ValueError"
           ELSE "none"
-----------------------------------------------------------------------------
Utf8(c) == IF c < 128 THEN <<c>> ELSE <<192 + (c \div 64), 128 + (c % 64)>>
(* Mutant: the zeros are added whatever the text's length. *)
PaddedMore(v, n) == v \o [i \in 1 .. n |-> 0]
Padded(v, n) == v \o [i \in 1 .. n - Len(v) |-> 0]

(* serialize(): a negative Int16Field is written in two's complement, bits are
   cut off where they do not fit, channels above eight have no bit.          *)
Serialized(f, v) ==
    CASE f.kind = "number" ->
           IF f.width < 8 * f.size THEN <<(v[1] % 2^f.width) * 2^f.lo>>
           ELSE Octets(IF f.size = 2 /\ v[1] < 0 THEN v[1] + 2^16 ELSE v[1], f.size)
      [] f.kind \in {"cut", "unsigned"} -> Octets(v[1], f.size)
      [] f.kind = "wide" -> Octets(v[1], 2) \o Octets(v[2], 2)
      [] f.kind = "channels" -> IF v = <<AllChannels>> THEN v ELSE <<Mask(ToSet(v))>>
      [] f.kind = "channel" -> <<IF v[1] <= 0 THEN 0 ELSE 2^(v[1] - 1)>>
      [] f.kind = "index" -> IF v = <<>> THEN <<0>> ELSE <<v[1]>>
      [] f.kind = "blind" -> <<IF v = <<1>> THEN 3 ELSE 12>>
      [] f.kind = "blinds" -> <<(IF 1 \in ToSet(v) THEN 3 ELSE 0) + (IF 2 \in ToSet(v) THEN 12 ELSE 0)>>
      [] f.kind \in {"half", "setHalf"} -> <<v[1] % 256>>
      [] f.kind = "optional" -> IF v = <<>> THEN <<>> ELSE <<v[1] % 256>>
      [] f.kind = "text" -> Only(v, 0 .. 127)
      [] f.kind = "utf8" -> FlattenSeq([i \in DOMAIN Padded(v, 5) |-> Utf8(Padded(v, 5)[i])])
      [] OTHER -> v

(* What bytes() refuses. *)
Encodable(f, v) ==
    CASE f.kind = "number" ->
           /\ v # <<>>
           /\ \/ f.width < 8 * f.size
              \/ (f.size = 2 \/ v[1] >= 0) /\ v[1] >= -(2^16) /\ v[1] < 2^(8 * f.size)
      [] f.kind = "unsigned" -> v # <<>> /\ v[1] >= 0 /\ v[1] < 2^(8 * f.size)
      [] f.kind = "channel" -> v # <<>> /\ v[1] <= 8
      [] f.kind = "index" -> v = <<>> \/ v[1] \in Octet
      [] f.kind = "tail" -> ToSet(v) \subseteq Octet
      [] OTHER -> TRUE
-----------------------------------------------------------------------------
(* How many bytes a field is written with; a text or the rest of a body takes
   what its value takes.                                                    *)
Span(f) ==
    CASE f.kind = "wide" -> 4
      [] f.kind \in {"cut", "unsigned"} \/ (f.kind = "number" /\ f.width = 8 * f.size) -> f.size
      [] OTHER -> 1

Varies(f) == f.kind \in {"tail", "text", "utf8"} \/ (f.kind = "optional" /\ f.default = <<>>)

(* The values a field stands for: what it can tell apart on the bus. *)
Legal(f, v) ==
    /\ v \in Seq(Int)
    /\ CASE f.kind \in {"number", "cut", "unsigned"} -> Len(v) = 1 /\ v[1] >= 0 /\ v[1] < 2^f.width
         [] f.kind = "wide" -> Len(v) = 2 /\ \A i \in 1 .. 2 : v[i] >= 0 /\ v[i] < 2^16
         [] f.kind = "channels" -> \E S \in SUBSET (1 .. 8) : v = Ascending(S)
         [] f.kind = "channel" -> \E c \in 1 .. 8 : v = Ascending({c})
         [] f.kind = "index" -> Len(v) <= 1 /\ \A i \in DOMAIN v : v[i] \in 1 .. 255
         [] f.kind = "blind" -> Len(v) = 1 /\ v[1] \in {1, 2}
         [] f.kind = "blinds" -> \E S \in SUBSET {1, 2} : v = Ascending(S)
         [] f.kind \in {"half", "setHalf"} -> Len(v) = 1 /\ v[1] \in -128 .. 127
         [] f.kind = "optional" -> /\ Len(v) <= 1 /\ \A i \in DOMAIN v : v[i] \in Octet
                                   /\ v = <<>> => f.default = <<>>
         [] f.kind = "plain" -> Len(v) = 1
         [] f.kind = "tail" -> Len(v) <= 7 - f.at /\ \A i \in DOMAIN v : v[i] \in Octet
         [] f.kind = "text" -> Len(Only(v, 0 .. 127)) <= 7 - f.at
         [] f.kind = "utf8" -> Len(v) <= 5
         [] OTHER -> TRUE

(* A field that is written as it is read: whole bytes from their lowest bit on,
   or some bits of one byte.                                                *)
WellMade(f) ==
    CASE f.kind \in {"number", "cut", "unsigned"} ->
           /\ f.offset = 0 /\ f.scale = 1
           /\ CASE f.kind = "cut" -> f.size = 3
                [] f.kind = "unsigned" -> f.size = 2
                [] OTHER -> f.size \in 1 .. 3
           /\ \/ f.lo = 0 /\ f.width = 8 * f.size
              \/ f.kind = "number" /\ f.size = 1 /\ f.width \in 1 .. 7 /\ f.lo \in 0 .. 8 - f.width
      [] f.kind = "wide" -> f.size = 4
      [] f.kind \in {"half", "optional"} -> Legal(f, f.default)
      [] f.kind \in {"channels", "channel", "index", "blind", "blinds", "setHalf"} -> f.size = 1
      [] f.kind = "utf8" -> f.at = 2
      [] OTHER -> f.kind \in {"tail", "plain", "text"}
=============================================================================
