--------------------------- MODULE MessageExchange ---------------------------
(***************************************************************************)
(* Messages between the program and the modules it knows: the registry of  *)
(* velbusaio/command_registry.py, which a module fills with the classes of *)
(* its type when it is initialized, PacketHandler.handle() for packets     *)
(* after a scan, and the messages the program builds.                      *)
(*                                                                         *)
(* One message is handled at a time; what is left of it stays in current   *)
(* until the next.  Packets with type and subtype replies are in BusScan,  *)
(* how a packet gets out of the stream in Framing.                         *)
(***************************************************************************)
EXTENDS Messages

CONSTANTS
    Types,            \* module types on the bus
    CommandToClass,   \* the classes of each type's specification
    DirectClasses,    \* classes the program sends without asking the registry
    Broadcast,        \* commands of broadcast.json
    Ignored,          \* commands of ignore.json
    Headers,          \* priority and rtr bit of the packets that are received
    Bodies,           \* bodies of the packets that are received
    Samples(_),       \* values an attribute is set to before a message is sent
    MaxModules        \* bound: module types that are initialized

ASSUME ExchangeAssumption ==
    /\ DOMAIN CommandToClass = Types
    /\ MaxModules \in Nat
    /\ \A t \in Types : \A m, n \in CommandToClass[t] : m.code = n.code => m = n

VARIABLES
    overrides,        \* _overrides
    current           \* the message that was built or received last

xvars == <<overrides, current>>

None == [kind |-> "none"]

XInit == overrides = <<>> /\ current = None
-----------------------------------------------------------------------------
(* register_module_commands(), from Module.initialize(): the same class again
   is no error.                                                             *)
Initialize(t) ==
    /\ t \in DOMAIN overrides \/ Cardinality(DOMAIN overrides) < MaxModules
    /\ overrides' = [u \in DOMAIN overrides \cup {t} |->
                        IF u # t THEN overrides[u]
                        ELSE [c \in {m.code : m \in CommandToClass[t]} |->
                                CHOOSE m \in CommandToClass[t] : m.code = c]]
    /\ UNCHANGED current

(* has_command() *)
HasCommand(c, t) == t \in DOMAIN overrides /\ c \in DOMAIN overrides[t]

(* handle(): command() and its populate(), then on_message(). *)
Understood(m, header, d) ==
    LET refused == Refuses(m, header.prio, header.rtr, d)
        bad     == FieldError(m, d)
        unsaid  == JsonError(m, Populated(m, d))
    IN  IF refused # "none" THEN [kind |-> "error", class |-> m, error |-> refused]
        ELSE IF bad # "none" THEN [kind |-> "error", class |-> m, error |-> bad]
        ELSE IF unsaid # "none" THEN [kind |-> "error", class |-> m, error |-> unsaid]
        ELSE [kind |-> "received", class |-> m, attrs |-> Populated(m, d), body |-> d,
              classic |-> FALSE]

(* handle() for a packet of a known module whose command it knows. *)
Receive(t, c) ==
    /\ current = None /\ HasCommand(c, t) /\ c \notin Broadcast \cup Ignored
    /\ \E header \in Headers, d \in Bodies :
          current' = Understood(overrides[t][c], header, d)
    /\ UNCHANGED overrides

(* A packet handle() drops: broadcast, on the list, or of no class. *)
Drop(t, c) ==
    /\ current = None /\ t \in DOMAIN overrides
    /\ ~ HasCommand(c, t) \/ c \in Broadcast \cup Ignored
    /\ current' = [kind |-> "dropped"]
    /\ UNCHANGED overrides

(* The field an attribute is written by, or declared with if it is not written. *)
FieldNamed(m, n) ==
    IF \E f \in ToSet(m.out) : f.name = n
    THEN CHOOSE f \in ToSet(m.out) : f.name = n
    ELSE CHOOSE f \in Fields(m) : f.name = n

(* The attributes of a new message, set to values that are legal for them: all
   but one to their default, where that is one, or all but one to another.   *)
Base(m, init) ==
    [n \in Attributes(m) |->
        IF init /\ FieldNamed(m, n).default \in Samples(FieldNamed(m, n))
        THEN FieldNamed(m, n).default ELSE CHOOSE v \in Samples(FieldNamed(m, n)) : TRUE]
Varied(m, n, init) == {[Base(m, init) EXCEPT ![n] = v] : v \in Samples(FieldNamed(m, n))}
Assignments(m) ==
    {Base(m, TRUE)} \cup UNION {Varied(m, n, TRUE) \cup Varied(m, n, FALSE) : n \in Attributes(m)}

(* A message the program builds: get_command() for the module's type, or a class
   it names itself, then data_to_binary() in the send queue's hands.        *)
Build(m) ==
    /\ current = None /\ m.sends
    /\ \E a \in Assignments(m), classic \in BOOLEAN :
          /\ classic => m.classic > 0
          /\ current' = IF Writable(m, a, classic)
                        THEN [kind |-> "sent", class |-> m, attrs |-> a, body |-> Body(m, a, classic),
                              classic |-> classic]
                        ELSE [kind |-> "error", class |-> m, error |-> "ValueError"]
    /\ UNCHANGED overrides

Command(t, c) == HasCommand(c, t) /\ Build(overrides[t][c])

(* The next message. *)
Handled == current # None /\ current' = None /\ UNCHANGED overrides

XNext ==
    \/ \E t \in Types : Initialize(t)
    \/ \E t \in DOMAIN overrides : \E c \in DOMAIN overrides[t] : Receive(t, c) \/ Command(t, c)
    \/ \E t \in DOMAIN overrides : \E c \in {\hFF} \cup Broadcast \cup Ignored : Drop(t, c)
    \/ \E m \in DirectClasses : Build(m)
    \/ Handled

XSpec == XInit /\ [][XNext]_xvars
-----------------------------------------------------------------------------
(* Classes the program would not read as it wrote them: version 2.0 relays are
   sent the number of a channel where a mask is read; of what only modules send,
   the parts of a name are not filled up with zeros again and a dimmer's status
   lacks its last byte.                                                     *)
OneWay == {SwitchRelayOnMessage20, SwitchRelayOffMessage20, DimmerStatusMessage,
           ChannelNamePart1Message, ChannelNamePart2Message, ChannelNamePart3Message,
           ChannelNamePart1Message2, ChannelNamePart2Message2, ChannelNamePart3Message2,
           ChannelNamePart1Message3, ChannelNamePart2Message3, ChannelNamePart3Message3}

Classes == DirectClasses \cup UNION {CommandToClass[t] : t \in Types}

(* The fields w a class writes stand one after the other where they are read, with
   a name each, within the seven bytes a packet has for them; only the last may
   be shorter or longer with its value.                                     *)
InLine(w) ==
    /\ w \in Seq(ToSet(w))
    /\ \A i \in DOMAIN w :
          /\ WellMade(w[i]) /\ w[i].at \in Nat /\ w[i].at + Span(w[i]) <= 7
          /\ w[i].at = IF i = 1 THEN 0 ELSE w[i - 1].at + Span(w[i - 1])
          /\ Varies(w[i]) => i = Len(w)
          /\ w[i].name = NoName => w[i].kind = "plain" /\ Legal(w[i], w[i].default)
          /\ w[i].kind = "utf8" => w[i].name = "memo_text"
    /\ \A i, j \in DOMAIN w : w[i].name = w[j].name /\ w[i].name # NoName => i = j

SameField(f, g) ==
    /\ f.kind = g.kind /\ f.at = g.at /\ f.size = g.size /\ f.lo = g.lo /\ f.width = g.width
    /\ f.offset = g.offset /\ f.scale = g.scale
    /\ f.kind \in {"half", "setHalf", "optional"} => f.default = g.default

Fit(f, v) == Legal(f, v) /\ Encodable(f, v)

(* The body is as long as the class insists on. *)
LongEnough(m, w) ==
    /\ m.need \in Int
    /\ m.need = 0 => w = <<>>
    /\ m.need > 0 => LET last == w[Len(w)]
                     IN  /\ w # <<>>
                         /\ \/ last.kind = "tail"
                            \/ m.need <= last.at + (IF Varies(last) THEN 0 ELSE Span(last))

(* No field of it fails: it has a byte of its own, or one that is always the same
   and it can read, or needs none.                                          *)
AllReadable(m, w) ==
    /\ (\E f \in ToSet(m.fields) : f.kind # "plain") => w # <<>> /\ ~ Varies(w[1])
    /\ \A f \in ToSet(m.fields) :
          \/ f.kind \in {"plain", "half", "optional", "tail", "text"}
          \/ \E g \in ToSet(w) : g.name = f.name
          \/ f.kind = "source" /\ f.size = 1 /\ \E g \in ToSet(w) :
                g.name = NoName /\ g.at = f.at /\ g.default[1] \in {0, 1}

(* What is written is read by the same field, or not read at all and then legal
   by default.                                                              *)
AllKept(m, w) ==
    \A g \in ToSet(w) :
       \/ \E f \in ToSet(m.fields) :
             f.name = g.name /\ SameField(f, g) /\ f.kind \notin {"plain", "text", "utf8"}
       \/ g.kind # "tail" /\ \E f \in ToSet(m.fields) :
             f.name = g.name /\ f.kind = "plain" /\ Fit(g, f.default)
       \/ g.kind # "tail" /\ Fit(g, g.default) /\ \A f \in ToSet(m.fields) : f.name # g.name

NamesApart(m) ==
    \A f, g \in ToSet(m.fields) : f.name # NoName /\ (f.name = g.name => f = g)

Mirrors(m, w) ==
    /\ m.name # "KwhStatusMessage" /\ m.fields \in Seq(ToSet(m.fields))
    /\ NamesApart(m) /\ LongEnough(m, w) /\ AllReadable(m, w) /\ AllKept(m, w)

(* Every class the program sends is laid out like that, or packs its attributes
   itself; a packet has seven bytes for a body.                             *)
ASSUME LayoutAssumption ==
    /\ \A m \in Classes : m.sends =>
          IF m.name \in PackedNames
          THEN /\ m \in {PsuValuesMessage, SetEdgeColorMessage, SetCustomColorMessage, EdgeSetCustomColor}
               /\ NamesApart(m) /\ ToSet(m.out) \subseteq ToSet(m.fields)
          ELSE \A classic \in BOOLEAN : (classic => m.classic > 0) =>
                 /\ InLine(Written(m, classic)) /\ ToSet(Written(m, classic)) \subseteq ToSet(m.out)
                 /\ m \notin OneWay => Mirrors(m, Written(m, classic))
    /\ \A d \in Bodies : d \in Seq(Octet) /\ Len(d) <= 7

(* The values attributes are set to are those their fields stand for, unless
   bytes() refuses them, and as many as the class insists on.               *)
ASSUME ValuesAssumption ==
    \A m \in Classes : m.sends =>
        \A f \in ToSet(m.out) \cup (IF m.name \in PackedNames THEN ToSet(m.fields) ELSE {}) :
            /\ Samples(f) # {}
            /\ \A v \in Samples(f) :
                  /\ (f.sent => Encodable(f, v)) => Legal(f, v)
                  /\ f.kind = "tail" => f.at + Len(v) >= m.need
                  /\ m.name \in PackedNames => v # <<>>

(* The fields of a class that are both read and written. *)
TwoWay(m, classic) ==
    {f \in ToSet(m.fields) :
        /\ f.kind # "plain"
        /\ m.name \in PackedNames \/ f.name \in {g.name : g \in ToSet(Written(m, classic))}}

(* What the class writes for these attributes it takes and reads as them. *)
ReadsItself(m, a, classic) ==
    LET d == Body(m, a, classic)
    IN  /\ ~ m.bare => Writable(m, a, classic)
        /\ Refuses(m, m.prio, m.rtr, d) = "none" /\ FieldError(m, d) = "none"
        /\ \A f \in TwoWay(m, classic) : Populated(m, d)[f.name] = a[f.name]

(* What data_to_binary() of a class writes, the class itself takes and reads as
   the attributes it was written from: those a caller set (kind sent) and those
   of a message received before, which says that no bit of a field is read that
   would not be written, nor the other way round (message_fields.py).       *)
ReadAsSent ==
    current.kind \in {"sent", "received"} /\ current.class.sends /\ current.class \notin OneWay =>
        ReadsItself(current.class, current.attrs, current.classic)

(* Whatever its attributes, the body of a message and its command fit in the eight
   bytes of a packet, which is all create() of raw_message.py lets through; a
   memo text must be ASCII for that.                                        *)
BodyFits ==
    current.kind = "sent" =>
        \/ 1 + Len(current.body) <= 8
        \/ "memo_text" \in DOMAIN current.attrs /\ \E i \in DOMAIN current.attrs["memo_text"] :
               current.attrs["memo_text"][i] >= 128

=============================================================================
