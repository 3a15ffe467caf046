---------------------------- MODULE ChannelStatus ----------------------------
(***************************************************************************)
(* The status handlers of velbusaio/module.py: a frame is turned into a    *)
(* list of updates of channels and properties, which are done one by one,  *)
(* and every update that changes something calls the subscribers of its    *)
(* channel.  Each frame has a task of its own.  A subscriber may suspend:  *)
(* then the frames after it are handled before the rest of this one.       *)
(*                                                                         *)
(* A step is the code up to the call of a subscriber or from its return;   *)
(* `running' holds the event loop in between, for a subscriber that does   *)
(* not suspend gives no other task a turn.                                 *)
(***************************************************************************)
EXTENDS Temperature, Sequences, SequencesExt

CONSTANTS
    Modules,       \* module types: items with their class, number map, frames, subscribers
    None,          \* no value, no item, no task
    MaxFrames,     \* bound: frames handled
    MaxTroubles    \* bound: subscribers removed and subscribers that raise

VARIABLES
    type,          \* the type of the module
    state,         \* _channels and _properties: the attributes each item has been given
    subscribers,   \* _on_status_update of each item
    tasks,         \* the handlers, in the order of their frames
    running,       \* the task that has the event loop, or None
    recent,        \* history: what an attribute may hold when nothing is about to set it
    seen,          \* history: the attributes each subscriber was last shown
    missed,        \* history: <<item, subscriber>> the last round of calls did not reach
    troubles       \* history: subscribers removed and subscribers that raised

svars == <<type, state, subscribers, tasks, running, recent, seen, missed, troubles>>

Channel(n)  == <<"channel", n>>
Property(p) == <<"property", p>>
Update(item, new) == [item |-> item, new |-> new]

(* What a frame lists is never a measured temperature: that has frames of its own. *)
ASSUME StatusAssumption == \A m \in Modules :
    /\ None \notin DOMAIN m.class /\ m.temperature # Property("light_value")
    /\ m.outputs \in Seq(ToSet(m.outputs))
    /\ \A item \in DOMAIN m.class : m.subscribers[item] \in Seq(ToSet(m.subscribers[item]))
    /\ \A f \in m.frames :
           /\ f.kind \in {"RelayStatus", "RelayStatus3", "Forced", "PushButton", "ModuleStatus", "ModuleStatus2",
                         "Pir", "Gp4Pir", "LedStatus", "Led", "CounterStatus", "SensorTemperature",
                         "TempSensorStatus", "Listed"}
           /\ f.kind = "Listed" =>
                  /\ f.values \in Seq(ToSet(f.values))
                  /\ \A v \in ToSet(f.values) :
                         /\ {"measured", "precision"} \cap DOMAIN v[2] = {}
                         /\ v[1] = m.temperature => {"cur", "cur_precision"} \cap DOMAIN v[2] = {}
    /\ DOMAIN m.subscribers = DOMAIN m.class
-----------------------------------------------------------------------------
(* _translate_channel_name() *)
Numbered(n) == IF n \in DOMAIN type.map THEN type.map[n] ELSE n

(* calc_channel_offset() and the number map, for a bit of a status byte *)
Bit(f, i) == Channel(Numbered(i + f.offset))

(* The updates a handler makes in its loop over the eight bits. *)
EachBit(P(_)) == P(1) \o P(2) \o P(3) \o P(4) \o P(5) \o P(6) \o P(7) \o P(8)

When(b, updates) == IF b THEN updates ELSE <<>>

IsButton(item) == item \in DOMAIN type.class /\ type.class[item] \in {"Button", "ButtonCounter", "Sensor", "ThermostatChannel"}

RelayStatus(f) == <<Update(Channel(f.channel),
    [on |-> f.on, inhibit |-> f.mode = "inhibited", forced_on |-> f.mode = "forced_on",
     disabled |-> f.mode = "disabled"])>>

RelayStatus3(f) == [c \in 1 .. 8 |-> Update(Channel(c),
    [on |-> c \in f.on, inhibit |-> c \in f.inhibited, forced_on |-> c \in f.forced_on,
     forced_off |-> c \in f.forced_off, disabled |-> c \in f.disabled])]

(* ForcedOn, ForcedOff, Inhibit, and the three messages that cancel them *)
Forced(f) == <<Update(Channel(f.channel),
    [forced_on |-> f.what = "forced_on", forced_off |-> f.what = "forced_off",
     inhibit |-> f.what = "inhibit"])>>

PushButton(f) ==
    LET P(i) == When(i \in f.closed, <<Update(Bit(f, i), [closed |-> TRUE, on |-> TRUE])>>)
             \o When(i \in f.long, <<Update(Bit(f, i), [long |-> TRUE])>>)
             \o When(i \in f.opened, <<Update(Bit(f, i), [closed |-> FALSE, long |-> FALSE, on |-> FALSE])>>)
    IN  IF \E item \in DOMAIN type.class : type.class[item] \in {"Button", "Sensor", "ButtonCounter", "Relay"}
        THEN EachBit(P) ELSE <<>>

(* A bit that is set counts for any channel, one that is not for a button only. *)
Flag(f, i, attr, bits) == When(i \in bits \/ IsButton(Bit(f, i)), <<Update(Bit(f, i), [a \in {attr} |-> i \in bits])>>)

ModuleStatus(f) == LET P(i) == Flag(f, i, "closed", f.closed) IN EachBit(P)

SelectedProgram(f) == <<Update(Property("selected_program"), [selected_program_str |-> f.program])>>

ModuleStatus2(f) ==
    LET P(i) == Flag(f, i, "closed", f.closed) \o Flag(f, i, "enabled", f.enabled)
    IN  EachBit(P) \o SelectedProgram(f)

(* A motion detector's channels are numbered as its bits are; the alarms are
   not on every type.                                                       *)
ModuleStatusPir(f) ==
    <<Update(Property("light_value"), [cur |-> f.light])>>
    \o [i \in 1 .. 8 |-> Update(Channel(i), [closed |-> i \in f.closed])]
    \o SelectedProgram(f)

ModuleStatusGp4Pir(f) ==
    LET P(i) == <<Update(Bit(f, i), [closed |-> i \in f.closed])>>
             \o When(IsButton(Bit(f, i)), <<Update(Bit(f, i), [enabled |-> i \in f.enabled])>>)
    IN  <<Update(Property("light_value"), [cur |-> f.light])>> \o EachBit(P) \o SelectedProgram(f)

(* UpdateLedStatus sets every led, the first state that has its bit counts. *)
LedStatus(f) == [i \in 1 .. 8 |-> Update(Bit(f, i), [led_state |->
    IF i \in f.slow THEN "slow" ELSE IF i \in f.fast THEN "fast" ELSE IF i \in f.on THEN "on" ELSE "off"])]

(* SetLed, ClearLed, SlowBlinkingLed, FastBlinkingLed *)
Led(f) == LET P(i) == When(i \in f.leds, <<Update(Bit(f, i), [led_state |-> f.led])>>) IN EachBit(P)

(* A counter that is not a ButtonCounter is left alone. *)
CounterStatus(f) ==
    When(Channel(f.channel) \in DOMAIN type.class /\ type.class[Channel(f.channel)] = "ButtonCounter",
         <<Update(Channel(Numbered(f.channel)), [pulses |-> f.pulses, counter |-> f.counter, delay |-> f.delay])>>)

(* Dimmers, sliders, blinds, sensors, counter values, the power supply: values
   for the items a frame names, in its order.                               *)
Listed(f) == [i \in DOMAIN f.values |-> Update(f.values[i][1], f.values[i][2])]

(* What a sensor measures is looked at when its turn comes: Measured(). *)
Temp(new, p) == [measured |-> new, precision |-> p]

SensorTemperature(f) ==
    <<Update(type.temperature, Temp(f.cur, 1)), Update(type.temperature, [min |-> f.min, max |-> f.max])>>

TempSensorStatus(f) ==
    <<Update(type.temperature, [target |-> f.target, cmode |-> f.mode, cstatus |-> f.status,
                                sleep_timer |-> f.timer, cool_mode |-> f.cool]),
      Update(type.temperature, Temp(f.cur, 4))>>
    \o [i \in DOMAIN type.outputs |->
           Update(type.outputs[i][1], [closed |-> type.outputs[i][2] \in f.outputs])]

(* _build_message_handlers() and on_message() *)
Plan(f) ==
    CASE f.kind = "RelayStatus"       -> RelayStatus(f)
      [] f.kind = "RelayStatus3"      -> RelayStatus3(f)
      [] f.kind = "Forced"            -> Forced(f)
      [] f.kind = "PushButton"        -> PushButton(f)
      [] f.kind = "ModuleStatus"      -> ModuleStatus(f)
      [] f.kind = "ModuleStatus2"     -> ModuleStatus2(f)
      [] f.kind = "Pir"               -> ModuleStatusPir(f)
      [] f.kind = "Gp4Pir"            -> ModuleStatusGp4Pir(f)
      [] f.kind = "LedStatus"         -> LedStatus(f)
      [] f.kind = "Led"               -> Led(f)
      [] f.kind = "CounterStatus"     -> CounterStatus(f)
      [] f.kind = "SensorTemperature" -> SensorTemperature(f)
      [] f.kind = "TempSensorStatus"  -> TempSensorStatus(f)
      [] f.kind = "Listed"            -> Listed(f)
-----------------------------------------------------------------------------
(* The attributes of an item that are not None before the first frame. *)
Defaults(class) ==
    CASE class \in {"Button", "ButtonCounter", "Sensor", "ThermostatChannel"} -> [enabled |-> TRUE, closed |-> FALSE, long |-> FALSE]
      [] class = "Relay" -> [enabled |-> TRUE, inhibit |-> FALSE, forced_on |-> FALSE, forced_off |-> FALSE, disabled |-> FALSE]
      [] class = "Temperature" -> [cur |-> 0, cur_precision |-> NoPrecision, target |-> 0, sleep_timer |-> 0]
      [] OTHER -> <<>>

Items == DOMAIN type.class

(* old with what new has of its own. *)
Over(new, old) == [a \in DOMAIN new \cup DOMAIN old |-> IF a \in DOMAIN new THEN new[a] ELSE old[a]]

Get(item, a) == IF a \in DOMAIN state[item] THEN state[item][a] ELSE None

(* What an update gives its item. *)
Given(u) == IF "measured" \in DOMAIN u.new THEN Measured(state[u.item], u.new.measured, u.new.precision) ELSE u.new

(* Mutant: an item is updated when all of it is new. *)
ChangesAll(u) == u.item \in Items /\ \A a \in DOMAIN Given(u) : Get(u.item, a) # Given(u)[a]

(* _update_channel(), _update_property() and update(): an item the module does
   not have is reported, one that has it all is left alone.                 *)
Changes(u) == u.item \in Items /\ \E a \in DOMAIN Given(u) : Get(u.item, a) # Given(u)[a]

(* The attributes a list of updates sets, apart from a measured temperature. *)
Sets(todo) == UNION {{<<todo[i].item, a>> : a \in DOMAIN todo[i].new \ {"measured", "precision"}} :
                     i \in {j \in DOMAIN todo : todo[j].item \in Items}}

SInit ==
    /\ type \in Modules
    /\ state = [i \in Items |-> Defaults(type.class[i])]
    /\ subscribers = type.subscribers
    /\ seen = [i \in Items |-> [s \in ToSet(subscribers[i]) |-> state[i]]]
    /\ tasks = <<>> /\ running = None /\ recent = <<>> /\ missed = {} /\ troubles = 0
-----------------------------------------------------------------------------
(* What a frame says last of each attribute it sets. *)
Says(plan) == [p \in Sets(plan) |->
    LET at == CHOOSE i \in DOMAIN plan :
                /\ plan[i].item = p[1] /\ p[2] \in DOMAIN plan[i].new
                /\ \A j \in i + 1 .. Len(plan) : plan[j].item = p[1] => p[2] \notin DOMAIN plan[j].new
    IN  plan[at].new[p[2]]]

Pending(p) == \E t \in DOMAIN tasks : p \in Sets(tasks[t].todo)

(* PacketHandler.handle() has found the module and made the message: on_message(). *)
Frame ==
    /\ running = None /\ Len(tasks) < MaxFrames
    /\ \E f \in type.frames :
         LET says == Says(Plan(f))
         IN  /\ tasks' = Append(tasks, [todo |-> Plan(f), item |-> None, at |-> 1])
             /\ recent' = Over([p \in DOMAIN says |-> {says[p]} \cup (IF Pending(p) THEN recent[p] ELSE {})], recent)
    /\ running' = Len(tasks) + 1
    /\ UNCHANGED <<type, state, subscribers, seen, missed, troubles>>

(* The task that runs is between two updates. *)
Between(t) == tasks[t].item # None => tasks[t].at > Len(subscribers[tasks[t].item])

Due(t) == {i \in DOMAIN tasks[t].todo : Changes(tasks[t].todo[i])}

(* Mutant: whether subscribers are called depends on one of the attributes. *)
ApplyUnannounced(t) ==
    /\ running = t /\ Between(t) /\ Due(t) # {}
    /\ LET todo == tasks[t].todo
           i    == Min(Due(t))
       IN  /\ state' = [state EXCEPT ![todo[i].item] = Over(Given(todo[i]), @)]
           /\ tasks' = [tasks EXCEPT ![t] =
                  [todo |-> SubSeq(todo, i + 1, Len(todo)), at |-> 1,
                   item |-> IF ChangesAll(todo[i]) THEN todo[i].item ELSE None]]
    /\ UNCHANGED <<type, subscribers, running, recent, seen, missed, troubles>>

(* The next update that changes something. *)
Apply(t) ==
    /\ running = t /\ Between(t) /\ Due(t) # {}
    /\ LET todo == tasks[t].todo
           i    == Min(Due(t))
       IN  /\ state' = [state EXCEPT ![todo[i].item] = Over(Given(todo[i]), @)]
           /\ tasks' = [tasks EXCEPT ![t] =
                  [todo |-> SubSeq(todo, i + 1, Len(todo)), item |-> todo[i].item, at |-> 1]]
    /\ UNCHANGED <<type, subscribers, running, recent, seen, missed, troubles>>

Finish(t) ==
    /\ running = t /\ Between(t) /\ Due(t) = {}
    /\ tasks' = [tasks EXCEPT ![t] = [todo |-> <<>>, item |-> None, at |-> tasks[t].at]] /\ running' = None
    /\ UNCHANGED <<type, state, subscribers, recent, seen, missed, troubles>>

(* status_update() calls the next subscriber, which looks at the channel and may
   then suspend.                                                            *)
Call(t) ==
    /\ running = t /\ ~Between(t)
    /\ LET item == tasks[t].item
           s    == subscribers[item][tasks[t].at]
       IN  seen' = [seen EXCEPT ![item][s] = state[item]] /\ missed' = missed \ {<<item, s>>}
    /\ tasks' = [tasks EXCEPT ![t].at = @ + 1]
    /\ running' \in {t, None}
    /\ UNCHANGED <<type, state, subscribers, recent, troubles>>

(* A subscriber raises after it looked: the other subscribers are not called,
   and the frame is given up, but after a KeyError, which _update_channel()
   takes for its own.                                                       *)
Raise(t) ==
    /\ running = t /\ ~Between(t) /\ troubles < MaxTroubles /\ troubles' = troubles + 1
    /\ LET item == tasks[t].item
           at   == tasks[t].at
           s    == subscribers[item][at]
       IN  /\ seen' = [seen EXCEPT ![item][s] = state[item]]
           /\ missed' = (missed \ {<<item, s>>})
                        \cup {<<item, subscribers[item][i]>> : i \in at + 1 .. Len(subscribers[item])}
           /\ \/ /\ tasks' = [tasks EXCEPT ![t].item = None] /\ UNCHANGED <<running, recent>>
              \/ /\ tasks' = [tasks EXCEPT ![t] = [todo |-> <<>>, item |-> None, at |-> tasks[t].at]] /\ running' = None
                 /\ recent' = Over([p \in Sets(tasks[t].todo) |-> recent[p] \cup {Get(p[1], p[2])}], recent)
    /\ UNCHANGED <<type, state, subscribers>>

Resume(t) ==
    /\ running = None /\ tasks[t].item # None /\ running' = t
    /\ UNCHANGED <<type, state, subscribers, tasks, recent, seen, missed, troubles>>

Place(item, s) == CHOOSE i \in DOMAIN subscribers[item] : subscribers[item][i] = s

(* remove_on_status_update(): a round of calls that has passed the place of the
   subscriber skips the one that comes next.                                *)
Unsubscribe ==
    /\ running = None /\ troubles < MaxTroubles /\ troubles' = troubles + 1
    /\ \E item \in Items : \E s \in ToSet(subscribers[item]) :
         /\ subscribers' = [subscribers EXCEPT ![item] = RemoveAt(@, Place(item, s))]
         /\ missed' = missed \cup {<<item, subscribers[item][tasks[t].at]>> : t \in
                {u \in DOMAIN tasks : /\ tasks[u].item = item
                                      /\ tasks[u].at \in Place(item, s) + 1 .. Len(subscribers[item])}}
    /\ UNCHANGED <<type, state, tasks, running, recent, seen>>

(* on_status_update(), by one who has looked at the channel. *)
Subscribe ==
    /\ running = None
    /\ \E item \in Items : \E s \in ToSet(type.subscribers[item]) \ ToSet(subscribers[item]) :
         /\ subscribers' = [subscribers EXCEPT ![item] = Append(@, s)]
         /\ seen' = [seen EXCEPT ![item][s] = state[item]]
         /\ missed' = missed \ {<<item, s>>}
    /\ UNCHANGED <<type, state, tasks, running, recent, troubles>>

SNext ==
    \/ Frame \/ Unsubscribe \/ Subscribe
    \/ \E t \in DOMAIN tasks : Apply(t) \/ Finish(t) \/ Call(t) \/ Raise(t) \/ Resume(t)

SSpec == SInit /\ [][SNext]_svars
-----------------------------------------------------------------------------
(* An attribute that no handler is still about to set is what the last frame
   about it said, or what a frame said whose handler had not got there when
   that frame came: of frames handled one after the other the last one stands.
   Where a handler died of its subscriber the value before may remain.      *)
LatestStands == \A p \in DOMAIN recent : ~Pending(p) => Get(p[1], p[2]) \in recent[p]

(* When no handler is under way every subscriber has been shown what its channel
   has, whatever frames crossed while one suspended: unless the round of calls
   skipped it, for a subscriber before it was removed or raised.            *)
Informed ==
    (\A t \in DOMAIN tasks : tasks[t].item = None /\ tasks[t].todo = <<>>) =>
        \A item \in Items : \A s \in ToSet(subscribers[item]) :
            seen[item][s] = state[item] \/ <<item, s>> \in missed
=============================================================================
