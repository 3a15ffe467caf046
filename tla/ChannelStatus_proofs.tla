------------------------ MODULE ChannelStatus_proofs ------------------------
(***************************************************************************)
(* Proofs about ChannelStatus, for any module types, number of frames,     *)
(* subscribers, removals and exceptions.                                   *)
(***************************************************************************)
EXTENDS ChannelStatus, SequenceTheorems, FiniteSetTheorems, WellFoundedInduction, TLAPS

(* An update that measures a temperature says nothing else, and no other sets
   what it sets.                                                             *)
Good(u) ==
    /\ "measured" \in DOMAIN u.new => u.item = type.temperature /\ DOMAIN u.new = {"measured", "precision"}
    /\ "measured" \notin DOMAIN u.new =>
           /\ "precision" \notin DOMAIN u.new
           /\ u.item = type.temperature => {"cur", "cur_precision"} \cap DOMAIN u.new = {}

GoodPlan(s) == \E U : s \in Seq(U) /\ \A u \in U : Good(u)

(* A plan of one good update is good. *)
LEMMA GoodOne == ASSUME NEW u, Good(u) PROVE GoodPlan(<<u>>)
<1>1. PICK U : U = {u}  OBVIOUS
<1>2. <<u>> \in Seq(U) /\ \A v \in U : Good(v)  BY <1>1
<1>3. QED  BY <1>2, Zenon DEF GoodPlan

(* So is one that updates nothing. *)
LEMMA GoodNone == GoodPlan(<<>>)
<1>1. PICK U : U = {}  OBVIOUS
<1>2. <<>> \in Seq(U) /\ \A v \in U : Good(v)  BY <1>1
<1>3. QED  BY <1>2, Zenon DEF GoodPlan

(* Two good plans after each other are a good plan. *)
LEMMA GoodJoin == ASSUME NEW a, NEW b, GoodPlan(a), GoodPlan(b) PROVE GoodPlan(a \o b)
<1>1. PICK U : a \in Seq(U) /\ \A u \in U : Good(u)  BY DEF GoodPlan
<1>2. PICK V : b \in Seq(V) /\ \A u \in V : Good(u)  BY DEF GoodPlan
<1>3. PICK W : W = U \cup V  OBVIOUS
<1>4. a \in Seq(W)  BY <1>1, <1>3, SeqDef
<1>5. b \in Seq(W)  BY <1>2, <1>3, SeqDef
<1>6. a \o b \in Seq(W)  BY <1>4, <1>5
<1>7. QED  BY <1>1, <1>2, <1>3, <1>6 DEF GoodPlan

(* A sequence of good updates is a good plan. *)
LEMMA GoodEach ==
    ASSUME NEW n \in Nat, NEW s, s = [i \in 1 .. n |-> s[i]], \A i \in 1 .. n : Good(s[i])
    PROVE  GoodPlan(s)
<1>1. PICK U : U = {s[i] : i \in 1 .. n}  OBVIOUS
<1>2. [i \in 1 .. n |-> s[i]] \in [1 .. n -> U]  BY <1>1
<1>3. s \in Seq(U)  BY <1>2, SeqDef
<1>4. \A u \in U : Good(u)  BY <1>1
<1>5. QED  BY <1>3, <1>4, Zenon DEF GoodPlan

(* Two good updates are a good plan. *)
LEMMA GoodTwo == ASSUME NEW u, NEW v, Good(u), Good(v) PROVE GoodPlan(<<u, v>>)
<1>1. PICK U : U = {u, v}  OBVIOUS
<1>2. <<u, v>> \in Seq(U) /\ \A w \in U : Good(w)  BY <1>1
<1>3. QED  BY <1>2, Zenon DEF GoodPlan

(* A plan that is made under a condition only need be good under it. *)
LEMMA GoodWhen == ASSUME NEW b \in BOOLEAN, NEW s, b => GoodPlan(s) PROVE GoodPlan(When(b, s))
BY GoodNone DEF When

(* Eight good plans after each other are a good plan. *)
LEMMA GoodEight ==
    ASSUME NEW a1, NEW a2, NEW a3, NEW a4, NEW a5, NEW a6, NEW a7, NEW a8,
           GoodPlan(a1), GoodPlan(a2), GoodPlan(a3), GoodPlan(a4),
           GoodPlan(a5), GoodPlan(a6), GoodPlan(a7), GoodPlan(a8)
    PROVE  GoodPlan(a1 \o a2 \o a3 \o a4 \o a5 \o a6 \o a7 \o a8)
<1>1. GoodPlan(a1 \o a2)  BY GoodJoin
<1>2. GoodPlan(a1 \o a2 \o a3)  BY <1>1, GoodJoin
<1>3. GoodPlan(a1 \o a2 \o a3 \o a4)  BY <1>2, GoodJoin
<1>4. GoodPlan(a1 \o a2 \o a3 \o a4 \o a5)  BY <1>3, GoodJoin
<1>5. GoodPlan(a1 \o a2 \o a3 \o a4 \o a5 \o a6)  BY <1>4, GoodJoin
<1>6. GoodPlan(a1 \o a2 \o a3 \o a4 \o a5 \o a6 \o a7)  BY <1>5, GoodJoin
<1>7. QED  BY <1>6, GoodJoin

(* The plan of a push button's status is good. *)
LEMMA GoodPush == ASSUME NEW f PROVE GoodPlan(PushButton(f))
<1> DEFINE P(i) == When(i \in f.closed, <<Update(Bit(f, i), [closed |-> TRUE, on |-> TRUE])>>)
             \o When(i \in f.long, <<Update(Bit(f, i), [long |-> TRUE])>>)
             \o When(i \in f.opened, <<Update(Bit(f, i), [closed |-> FALSE, long |-> FALSE, on |-> FALSE])>>)
<1>1. ASSUME NEW i PROVE GoodPlan(P(i))
    <2>1. GoodPlan(<<Update(Bit(f, i), [closed |-> TRUE, on |-> TRUE])>>)  BY GoodOne DEF Good, Update
    <2>2. GoodPlan(<<Update(Bit(f, i), [long |-> TRUE])>>)  BY GoodOne DEF Good, Update
    <2>3. GoodPlan(<<Update(Bit(f, i), [closed |-> FALSE, long |-> FALSE, on |-> FALSE])>>)
        BY GoodOne DEF Good, Update
    <2>4. /\ GoodPlan(When(i \in f.closed, <<Update(Bit(f, i), [closed |-> TRUE, on |-> TRUE])>>))
          /\ GoodPlan(When(i \in f.long, <<Update(Bit(f, i), [long |-> TRUE])>>))
          /\ GoodPlan(When(i \in f.opened, <<Update(Bit(f, i), [closed |-> FALSE, long |-> FALSE, on |-> FALSE])>>))
        <3>1. (i \in f.closed) \in BOOLEAN /\ (i \in f.long) \in BOOLEAN /\ (i \in f.opened) \in BOOLEAN
            OBVIOUS
        <3>2. QED  BY <2>1, <2>2, <2>3, <3>1, GoodWhen
    <2>5. QED  BY <2>4, GoodJoin
<1> HIDE DEF P
<1>2. GoodPlan(EachBit(P))  BY <1>1, GoodEight DEF EachBit
<1>3. QED  BY <1>2, GoodNone DEF PushButton, P

(* So is that of a flag in a module's status. *)
LEMMA GoodFlag ==
    ASSUME NEW f, NEW i, NEW attr \in {"closed", "enabled"}, NEW bits
    PROVE  GoodPlan(Flag(f, i, attr, bits))
<1>1. GoodPlan(<<Update(Bit(f, i), [a \in {attr} |-> i \in bits])>>)  BY GoodOne DEF Good, Update
<1>2. (i \in bits \/ IsButton(Bit(f, i))) \in BOOLEAN  BY DEF IsButton
<1>3. QED  BY <1>1, <1>2, GoodWhen DEF Flag

(* So is that of the program that is selected. *)
LEMMA GoodProgram == ASSUME NEW f PROVE GoodPlan(SelectedProgram(f))
BY GoodOne DEF SelectedProgram, Good, Update

(* So are those of the two kinds of module status. *)
LEMMA GoodModuleStatus == ASSUME NEW f PROVE GoodPlan(ModuleStatus(f)) /\ GoodPlan(ModuleStatus2(f))
<1> DEFINE P(i) == Flag(f, i, "closed", f.closed)
           Q(i) == Flag(f, i, "closed", f.closed) \o Flag(f, i, "enabled", f.enabled)
<1>1. \A i : GoodPlan(P(i)) /\ GoodPlan(Q(i))  BY GoodFlag, GoodJoin
<1> HIDE DEF P, Q
<1>2. GoodPlan(EachBit(P)) /\ GoodPlan(EachBit(Q))  BY <1>1, GoodEight DEF EachBit
<1>3. GoodPlan(EachBit(Q) \o SelectedProgram(f))  BY <1>2, GoodProgram, GoodJoin
<1>4. QED  BY <1>2, <1>3 DEF ModuleStatus, ModuleStatus2, P, Q

(* So are those of a motion detector's status. *)
LEMMA GoodPir == ASSUME type \in Modules, NEW f PROVE GoodPlan(ModuleStatusPir(f)) /\ GoodPlan(ModuleStatusGp4Pir(f))
<1> DEFINE light == <<Update(Property("light_value"), [cur |-> f.light])>>
           each  == [i \in 1 .. 8 |-> Update(Channel(i), [closed |-> i \in f.closed])]
           P(i)  == <<Update(Bit(f, i), [closed |-> i \in f.closed])>>
                    \o When(IsButton(Bit(f, i)), <<Update(Bit(f, i), [enabled |-> i \in f.enabled])>>)
<1>1. GoodPlan(light)
    <2>1. type.temperature # Property("light_value")  BY StatusAssumption
    <2>2. QED  BY <2>1, GoodOne DEF Good, Update
<1>2. GoodPlan(each)  BY GoodEach DEF Good, Update
<1>3. ASSUME NEW i PROVE GoodPlan(P(i))
    <2>1. GoodPlan(<<Update(Bit(f, i), [closed |-> i \in f.closed])>>)  BY GoodOne DEF Good, Update
    <2>2. GoodPlan(<<Update(Bit(f, i), [enabled |-> i \in f.enabled])>>)  BY GoodOne DEF Good, Update
    <2>3. IsButton(Bit(f, i)) \in BOOLEAN  BY DEF IsButton
    <2>4. GoodPlan(When(IsButton(Bit(f, i)), <<Update(Bit(f, i), [enabled |-> i \in f.enabled])>>))
        BY <2>2, <2>3, GoodWhen
    <2>5. QED  BY <2>1, <2>4, GoodJoin
<1> HIDE DEF light, each, P
<1>4. GoodPlan(EachBit(P))  BY <1>3, GoodEight DEF EachBit
<1>5. GoodPlan(light \o each \o SelectedProgram(f))  BY <1>1, <1>2, GoodProgram, GoodJoin
<1>6. GoodPlan(light \o EachBit(P) \o SelectedProgram(f))  BY <1>1, <1>4, GoodProgram, GoodJoin
<1>7. QED  BY <1>5, <1>6 DEF ModuleStatusPir, ModuleStatusGp4Pir, light, each, P

(* So are those of the messages about LEDs. *)
LEMMA GoodLeds == ASSUME NEW f PROVE GoodPlan(LedStatus(f)) /\ GoodPlan(Led(f))
<1>1. GoodPlan(LedStatus(f))  BY GoodEach DEF LedStatus, Good, Update
<1> DEFINE P(i) == When(i \in f.leds, <<Update(Bit(f, i), [led_state |-> f.led])>>)
<1>2. ASSUME NEW i PROVE GoodPlan(P(i))
    <2>1. GoodPlan(<<Update(Bit(f, i), [led_state |-> f.led])>>)  BY GoodOne DEF Good, Update
    <2>2. (i \in f.leds) \in BOOLEAN  OBVIOUS
    <2>3. QED  BY <2>1, <2>2, GoodWhen
<1> HIDE DEF P
<1>3. GoodPlan(EachBit(P))  BY <1>2, GoodEight DEF EachBit
<1>4. QED  BY <1>1, <1>3 DEF Led, P

(* So are those of relays and counters. *)
LEMMA GoodRelays ==
    ASSUME NEW f
    PROVE  GoodPlan(RelayStatus(f)) /\ GoodPlan(RelayStatus3(f)) /\ GoodPlan(Forced(f)) /\ GoodPlan(CounterStatus(f))
<1>1. GoodPlan(RelayStatus(f))  BY GoodOne DEF RelayStatus, Good, Update
<1>2. GoodPlan(RelayStatus3(f))  BY GoodEach DEF RelayStatus3, Good, Update
<1>3. GoodPlan(Forced(f))  BY GoodOne DEF Forced, Good, Update
<1>4. GoodPlan(CounterStatus(f))
    <2>1. GoodPlan(<<Update(Channel(Numbered(f.channel)),
                            [pulses |-> f.pulses, counter |-> f.counter, delay |-> f.delay])>>)
        BY GoodOne DEF Good, Update
    <2>2. QED  BY <2>1, GoodNone DEF CounterStatus, When
<1>5. QED  BY <1>1, <1>2, <1>3, <1>4

(* Those of sensors are, setting the temperature as
   maybe_update_temperature() does.                                          *)
LEMMA GoodSensors ==
    ASSUME type \in Modules, NEW f
    PROVE  GoodPlan(SensorTemperature(f)) /\ GoodPlan(TempSensorStatus(f))
<1>1. PICK T : T = type.temperature  OBVIOUS
<1>2. GoodPlan(<<Update(T, Temp(f.cur, 1)), Update(T, [min |-> f.min, max |-> f.max])>>)
    <2>1. PICK u, v : u = Update(T, Temp(f.cur, 1)) /\ v = Update(T, [min |-> f.min, max |-> f.max])  OBVIOUS
    <2>2. Good(u) /\ Good(v)  BY <1>1, <2>1 DEF Good, Update, Temp
    <2>3. QED  BY <2>1, <2>2, GoodTwo
<1>3. GoodPlan(<<Update(T, [target |-> f.target, cmode |-> f.mode, cstatus |-> f.status,
                            sleep_timer |-> f.timer, cool_mode |-> f.cool]), Update(T, Temp(f.cur, 4))>>)
    <2>1. PICK u, v : /\ u = Update(T, [target |-> f.target, cmode |-> f.mode, cstatus |-> f.status,
                                        sleep_timer |-> f.timer, cool_mode |-> f.cool])
                      /\ v = Update(T, Temp(f.cur, 4))
        OBVIOUS
    <2>2. Good(u) /\ Good(v)  BY <1>1, <2>1 DEF Good, Update, Temp
    <2>3. QED  BY <2>1, <2>2, GoodTwo
<1>4. PICK o : o = [i \in DOMAIN type.outputs |-> Update(type.outputs[i][1], [closed |-> type.outputs[i][2] \in f.outputs])]
    OBVIOUS
<1>5. GoodPlan(o)
    <2>1. type.outputs \in Seq(ToSet(type.outputs))  BY StatusAssumption
    <2>2. Len(type.outputs) \in Nat /\ DOMAIN type.outputs = 1 .. Len(type.outputs)  BY <2>1
    <2>3. o = [i \in 1 .. Len(type.outputs) |-> o[i]]  BY <1>4, <2>2
    <2>4. \A i \in 1 .. Len(type.outputs) : Good(o[i])  BY <1>4, <2>2 DEF Good, Update
    <2>5. QED  BY <2>2, <2>3, <2>4, GoodEach
<1>6. QED  BY <1>1, <1>2, <1>3, <1>4, <1>5, GoodJoin DEF SensorTemperature, TempSensorStatus

(* The plan of a frame that lists values for named items is good: it gives no
   measured temperature.                                                     *)
LEMMA GoodListed ==
    ASSUME type \in Modules, NEW f \in type.frames, f.kind = "Listed"
    PROVE  GoodPlan(Listed(f))
<1>1. /\ f.values \in Seq(ToSet(f.values))
      /\ \A v \in ToSet(f.values) :
             /\ {"measured", "precision"} \cap DOMAIN v[2] = {}
             /\ v[1] = type.temperature => {"cur", "cur_precision"} \cap DOMAIN v[2] = {}
    BY StatusAssumption
<1>2. Len(f.values) \in Nat /\ DOMAIN f.values = 1 .. Len(f.values)  BY <1>1
<1>3. PICK s : s = Listed(f)  OBVIOUS
<1>4. s = [i \in 1 .. Len(f.values) |-> s[i]]  BY <1>2, <1>3 DEF Listed
<1>5. ASSUME NEW i \in 1 .. Len(f.values) PROVE Good(s[i])
    <2>1. PICK v \in ToSet(f.values) : v = f.values[i]  BY <1>2 DEF ToSet
    <2>2. s[i].item = v[1] /\ s[i].new = v[2]  BY <1>2, <1>3, <2>1 DEF Listed, Update
    <2>3. QED  BY <1>1, <2>2 DEF Good
<1>6. QED  BY <1>2, <1>3, <1>4, <1>5, GoodEach

(* Every handler makes a list of such updates. *)
LEMMA PlanIsGood == ASSUME type \in Modules, NEW f \in type.frames PROVE GoodPlan(Plan(f))
<1>1. f.kind \in {"RelayStatus", "RelayStatus3", "Forced", "PushButton", "ModuleStatus", "ModuleStatus2",
                  "Pir", "Gp4Pir", "LedStatus", "Led", "CounterStatus", "SensorTemperature",
                  "TempSensorStatus", "Listed"}
    BY StatusAssumption
<1>2. CASE f.kind \in {"RelayStatus", "RelayStatus3", "Forced", "CounterStatus"}  BY <1>2, GoodRelays DEF Plan
<1>3. CASE f.kind \in {"PushButton", "ModuleStatus", "ModuleStatus2"}  BY <1>3, GoodPush, GoodModuleStatus DEF Plan
<1>4. CASE f.kind \in {"Pir", "Gp4Pir", "LedStatus", "Led"}  BY <1>4, GoodPir, GoodLeds DEF Plan
<1>5. CASE f.kind \in {"SensorTemperature", "TempSensorStatus", "Listed"}  BY <1>5, GoodSensors, GoodListed DEF Plan
<1>6. QED  BY <1>1, <1>2, <1>3, <1>4, <1>5
-----------------------------------------------------------------------------
(* The updates there are; what a task is about. *)
Updates == UNION {ToSet(Plan(f)) : f \in type.frames}
Tasks   == [todo : Seq(Updates), item : Items \cup {None}, at : Nat \ {0}]
Subscribed(item) == ToSet(type.subscribers[item])

StatusTypes ==
    /\ type \in Modules /\ DOMAIN state = Items /\ tasks \in Seq(Tasks)
    /\ DOMAIN subscribers = Items /\ DOMAIN seen = Items
    /\ \A item \in Items : /\ subscribers[item] \in Seq(Subscribed(item))
                          /\ DOMAIN seen[item] = Subscribed(item)

(* A subscriber has seen what its channel has, or a round of calls is still on
   its way to it, or has missed it.                                          *)
Reached ==
    \A item \in Items : \A i \in DOMAIN subscribers[item] :
        \/ seen[item][subscribers[item][i]] = state[item]
        \/ <<item, subscribers[item][i]>> \in missed
        \/ \E t \in DOMAIN tasks : tasks[t].item = item /\ tasks[t].at <= i

(* The update i is the last of a list that sets the attribute p. *)
Mentions(u, p) == u.item = p[1] /\ p[2] \in DOMAIN u.new
LastOf(todo, p, i) == /\ i \in DOMAIN todo /\ Mentions(todo[i], p)
                      /\ \A j \in DOMAIN todo : j > i => ~Mentions(todo[j], p)

(* What a handler will say last of an attribute is among what it may hold. *)
Promised ==
    \A t \in DOMAIN tasks : \A p \in Sets(tasks[t].todo) :
        /\ p \in DOMAIN recent
        /\ \A i : LastOf(tasks[t].todo, p, i) => tasks[t].todo[i].new[p[2]] \in recent[p]

(* Attributes that updates name; no measured temperature is among them. *)
Attribute(p) == \E x, a : /\ p = <<x, a>> /\ x \in Items /\ a \notin {"measured", "precision"}
                          /\ x = type.temperature => a \notin {"cur", "cur_precision"}

StatusInv == /\ StatusTypes /\ Reached /\ Promised /\ LatestStands
             /\ \A p \in DOMAIN recent : Attribute(p)
-----------------------------------------------------------------------------
(* A set of naturals that is not empty has a least element, and one of the
   numbers up to n a greatest.                                               *)
LEMMA Least ==
    ASSUME NEW T \in SUBSET Nat, T # {}
    PROVE  \E n \in T : \A m \in T : n <= m
<1> DEFINE D == {1 .. n : n \in T}
           R == StrictSubsetOrdering(Nat)
           F == FiniteSubsetsOf(Nat)
<1>1. IsWellFoundedOn(R, F)  BY FS_StrictSubsetOrderingWellFounded
<1>2. D \subseteq F
    <2>1. ASSUME NEW n \in T PROVE IsFiniteSet(1 .. n) /\ 1 .. n \subseteq Nat
        <3>1. 1 \in Int /\ n \in Int  OBVIOUS
        <3>2. IsFiniteSet(1 .. n)  BY <3>1, FS_Interval, Zenon
        <3>3. QED  BY <3>2
    <2>2. QED  BY <2>1 DEF FiniteSubsetsOf
<1>3. D # {}  OBVIOUS
<1>4. PICK X \in D : \A Y \in D : <<Y, X>> \notin R
    <2> HIDE DEF D, R, F
    <2>1. QED  BY <1>1, <1>2, <1>3, WFMin
<1>5. PICK n \in T : X = 1 .. n  OBVIOUS
<1>6. ASSUME NEW m \in T, ~(n <= m) PROVE FALSE
    <2>1. 1 .. m \in D  OBVIOUS
    <2>2. 1 .. m \subseteq 1 .. n /\ n \in 1 .. n /\ n \notin 1 .. m  BY <1>6
    <2>3. <<1 .. m, X>> \in R  BY <1>5, <2>2 DEF StrictSubsetOrdering
    <2>4. QED  BY <1>4, <2>1, <2>3
<1>7. QED  BY <1>6

(* A set of numbers up to n has a greatest one. *)
LEMMA Greatest ==
    ASSUME NEW n \in Nat, NEW T \in SUBSET (1 .. n), T # {}
    PROVE  \E m \in T : \A k \in T : k <= m
<1> DEFINE D == {n - k : k \in T}
<1>1. D \in SUBSET Nat /\ D # {}  OBVIOUS
<1> HIDE DEF D
<1>2. PICK d \in D : \A e \in D : d <= e  BY <1>1, Least
<1>3. PICK m \in T : d = n - m  BY DEF D
<1>4. ASSUME NEW k \in T PROVE k <= m
    <2>1. n - k \in D  BY DEF D
    <2>2. n - m <= n - k  BY <1>2, <1>3, <2>1
    <2>3. QED  BY <2>2
<1>5. QED  BY <1>4

(* For every frame a module type may send the handler makes a good plan. *)
LEMMA PlansAre ==
    ASSUME type \in Modules
    PROVE  /\ \A f \in type.frames : Plan(f) \in Seq(Updates)
           /\ \A u \in Updates : Good(u)
<1>1. ASSUME NEW f \in type.frames PROVE Plan(f) \in Seq(Updates) /\ \A u \in ToSet(Plan(f)) : Good(u)
    <2>1. PICK s : s = Plan(f)  OBVIOUS
    <2>2. PICK U : s \in Seq(U) /\ \A u \in U : Good(u)  BY <2>1, PlanIsGood DEF GoodPlan
    <2>3. \A i \in 1 .. Len(s) : s[i] \in ToSet(s) /\ s[i] \in U  BY <2>2 DEF ToSet
    <2>4. ToSet(s) \subseteq Updates  BY <2>1 DEF Updates
    <2>5. s = [i \in 1 .. Len(s) |-> s[i]] /\ Len(s) \in Nat  BY <2>2
    <2>6. [i \in 1 .. Len(s) |-> s[i]] \in [1 .. Len(s) -> Updates]  BY <2>3, <2>4
    <2>7. s \in Seq(Updates)  BY <2>5, <2>6, SeqDef
    <2>8. ASSUME NEW u \in ToSet(s) PROVE Good(u)
        <3>1. PICK i \in DOMAIN s : u = s[i]  BY DEF ToSet
        <3>2. QED  BY <2>2, <3>1
    <2>9. QED  BY <2>1, <2>7, <2>8
<1>2. QED  BY <1>1 DEF Updates

(* An attribute that a list sets has a last update that sets it. *)
LEMMA SetsAre ==
    ASSUME NEW todo \in Seq(Updates), \A u \in Updates : Good(u), NEW p
    PROVE  /\ p \in Sets(todo) <=> /\ \E i \in DOMAIN todo : Mentions(todo[i], p)
                                   /\ \E x, a : p = <<x, a>> /\ x \in Items /\ a \notin {"measured", "precision"}
           /\ p \in Sets(todo) => Attribute(p) /\ \E i : LastOf(todo, p, i)
<1>1. p \in Sets(todo) <=> \E i \in DOMAIN todo : /\ todo[i].item \in Items
          /\ \E a \in DOMAIN todo[i].new \ {"measured", "precision"} : p = <<todo[i].item, a>>
    BY DEF Sets
<1>2. p \in Sets(todo) <=> /\ \E i \in DOMAIN todo : Mentions(todo[i], p)
                          /\ \E x, a : p = <<x, a>> /\ x \in Items /\ a \notin {"measured", "precision"}
    BY <1>1 DEF Mentions
<1>3. ASSUME p \in Sets(todo) PROVE Attribute(p) /\ \E i : LastOf(todo, p, i)
    <2>1. PICK x, a : p = <<x, a>> /\ x \in Items /\ a \notin {"measured", "precision"}  BY <1>2, <1>3
    <2> DEFINE T == {i \in DOMAIN todo : Mentions(todo[i], p)}
    <2>2. Len(todo) \in Nat /\ DOMAIN todo = 1 .. Len(todo)  OBVIOUS
    <2>3. T \in SUBSET (1 .. Len(todo)) /\ T # {}  BY <1>2, <1>3, <2>2
    <2>4. PICK i \in T : \A j \in T : j <= i  BY <2>2, <2>3, Greatest
    <2>5. LastOf(todo, p, i)  BY <2>2, <2>4 DEF LastOf
    <2>6. Good(todo[i]) /\ todo[i].item = x /\ a \in DOMAIN todo[i].new  BY <2>1, <2>4 DEF Mentions
    <2>7. Attribute(p)  BY <2>1, <2>6 DEF Good, Attribute
    <2>8. QED  BY <2>5, <2>7
<1>4. QED  BY <1>2, <1>3

(* What an update gives, and what an item has after it. *)
LEMMA GivenIs ==
    ASSUME NEW u, Good(u)
    PROVE  /\ "measured" \in DOMAIN u.new => DOMAIN Given(u) = {"cur", "cur_precision"}
           /\ "measured" \notin DOMAIN u.new => Given(u) = u.new
<1>1. "measured" \notin DOMAIN u.new => Given(u) = u.new  BY DEF Given
<1>2. ASSUME NEW c, NEW new, NEW q PROVE DOMAIN Measured(c, new, q) = {"cur", "cur_precision"}
    BY DEF Measured
<1>3. QED  BY <1>1, <1>2 DEF Given

(* An update sets the attributes it mentions, and no other. *)
LEMMA SetBy ==
    ASSUME DOMAIN state = Items, NEW u, Good(u), u.item \in Items, NEW p, Attribute(p),
           state' = [state EXCEPT ![u.item] = Over(Given(u), @)]
    PROVE  /\ Mentions(u, p) => Get(p[1], p[2])' = u.new[p[2]]
           /\ ~Mentions(u, p) => Get(p[1], p[2])' = Get(p[1], p[2])
<1>1. PICK x, a : /\ p = <<x, a>> /\ x \in Items /\ a \notin {"measured", "precision"}
                  /\ x = type.temperature => a \notin {"cur", "cur_precision"}
    BY DEF Attribute
<1>2. PICK g : g = Given(u)  OBVIOUS
<1>3. \A y \in Items : state'[y] = IF y = u.item THEN Over(g, state[y]) ELSE state[y]  BY <1>2
<1>4. x = u.item => /\ a \in DOMAIN g <=> a \in DOMAIN u.new
                    /\ a \in DOMAIN g => g[a] = u.new[a]
    BY <1>1, <1>2, GivenIs DEF Good
<1>5. Mentions(u, p) <=> u.item = x /\ a \in DOMAIN u.new  BY <1>1 DEF Mentions
<1>6. Get(x, a)' = IF a \in DOMAIN state'[x] THEN state'[x][a] ELSE None  BY DEF Get
<1>7. CASE u.item = x
    <2>1. state'[x] = Over(g, state[x])  BY <1>1, <1>3, <1>7
    <2>2. a \in DOMAIN g => a \in DOMAIN state'[x] /\ state'[x][a] = g[a]  BY <2>1 DEF Over
    <2>3. a \notin DOMAIN g => /\ a \in DOMAIN state'[x] <=> a \in DOMAIN state[x]
                               /\ a \in DOMAIN state[x] => state'[x][a] = state[x][a]
        BY <2>1 DEF Over
    <2>4. QED  BY <1>1, <1>4, <1>5, <1>6, <1>7, <2>2, <2>3 DEF Get
<1>8. CASE u.item # x  BY <1>1, <1>3, <1>5, <1>6, <1>8 DEF Get
<1>9. QED  BY <1>7, <1>8

(* An update that changes nothing says what is so already. *)
LEMMA SaidAlready ==
    ASSUME NEW u, Good(u), ~Changes(u), NEW p, Attribute(p), Mentions(u, p)
    PROVE  Get(p[1], p[2]) = u.new[p[2]]
<1>1. PICK x, a : p = <<x, a>> /\ x \in Items /\ a \notin {"measured", "precision"}  BY DEF Attribute
<1>2. u.item = x /\ a \in DOMAIN u.new  BY <1>1 DEF Mentions
<1>3. Given(u) = u.new  BY <1>1, <1>2, GivenIs DEF Good
<1>4. QED  BY <1>1, <1>2, <1>3 DEF Changes

-----------------------------------------------------------------------------
(* The type of the module is fixed, and with it all that is said of updates. *)
LEMMA SameType ==
    ASSUME UNCHANGED type
    PROVE  /\ Updates' = Updates /\ Tasks' = Tasks /\ Items' = Items
           /\ \A p : Attribute(p)' <=> Attribute(p)
           /\ \A item : Subscribed(item)' = Subscribed(item)
<1>1. \A f : Plan(f)' = Plan(f)
    BY DEF Plan, RelayStatus, RelayStatus3, Forced, PushButton, ModuleStatus, ModuleStatus2, ModuleStatusPir,
           ModuleStatusGp4Pir, LedStatus, Led, CounterStatus, SensorTemperature, TempSensorStatus, Listed,
           EachBit, Flag, Bit, Numbered, IsButton, SelectedProgram
<1>2. Updates' = Updates  BY <1>1 DEF Updates
<1>3. Tasks' = Tasks  BY <1>2 DEF Tasks, Items
<1>4. \A p : Attribute(p)' <=> Attribute(p)  BY DEF Attribute, Items
<1>5. QED  BY <1>2, <1>3, <1>4 DEF Items, Subscribed

(* What is to be shown of the promises in the next state. *)
LEMMA PromisedNext ==
    ASSUME UNCHANGED type,
           \A q \in DOMAIN tasks' : \A p \in Sets(tasks'[q].todo) :
               /\ p \in DOMAIN recent'
               /\ \A i : LastOf(tasks'[q].todo, p, i) => tasks'[q].todo[i].new[p[2]] \in recent'[p]
    PROVE  Promised'
BY DEF Promised, Sets, Items, LastOf, Mentions

(* What is to be shown of the attributes in the next state. *)
LEMMA LatestNext ==
    ASSUME UNCHANGED type,
           \A p \in DOMAIN recent' :
               (\A q \in DOMAIN tasks' : p \notin Sets(tasks'[q].todo)) => Get(p[1], p[2])' \in recent'[p]
    PROVE  LatestStands'
BY DEF LatestStands, Pending, Sets, Items, Get

(* A step of one task: the others stay as they are. *)
OnlyTask(t, r) ==
    /\ DOMAIN tasks' = DOMAIN tasks /\ tasks'[t] = r
    /\ \A q \in DOMAIN tasks \ {t} : tasks'[q] = tasks[q]

(* A step of one task leaves the others as they are. *)
LEMMA TaskSteps ==
    ASSUME tasks \in Seq(Tasks), NEW t \in DOMAIN tasks, NEW r \in Tasks, tasks' = [tasks EXCEPT ![t] = r]
    PROVE  OnlyTask(t, r) /\ tasks' \in Seq(Tasks)
BY DEF OnlyTask

(* Positions in the rest of a sequence. *)
LEMMA Beyond ==
    ASSUME NEW n \in Nat, NEW i \in 1 .. n, NEW j \in 1 .. (n - i), NEW k \in 1 .. n, k > i + j
    PROVE  k > i /\ k - i > j
OBVIOUS

(* The rest of a list, after the update i. *)
IsRest(todo, i, rest) ==
    /\ rest \in Seq(Updates)
    /\ \A p \in Sets(rest) : p \in Sets(todo)
    /\ \A p, j : LastOf(rest, p, j) => LastOf(todo, p, i + j) /\ rest[j] = todo[i + j]
    /\ \A p, k : p \in Sets(todo) /\ p \notin Sets(rest) /\ LastOf(todo, p, k) => k <= i

(* The rest of a plan says last what the plan says last. *)
LEMMA Rest ==
    ASSUME NEW todo \in Seq(Updates), \A u \in Updates : Good(u), NEW i \in DOMAIN todo,
           NEW rest, rest = SubSeq(todo, i + 1, Len(todo))
    PROVE  IsRest(todo, i, rest)
<1>1. /\ Len(todo) \in Nat /\ DOMAIN todo = 1 .. Len(todo) /\ i \in 1 .. Len(todo)
      /\ rest \in Seq(Updates) /\ DOMAIN rest = 1 .. (Len(todo) - i)
      /\ \A j \in 1 .. (Len(todo) - i) : rest[j] = todo[i + j] /\ i + j \in DOMAIN todo
    <2>1. PICK n : n = Len(todo)  OBVIOUS
    <2>2. n \in Nat /\ DOMAIN todo = 1 .. n /\ i \in 1 .. n  BY <2>1
    <2>3. rest \in Seq(Updates) /\ Len(rest) = n - i  BY <2>1, <2>2
    <2>4. DOMAIN rest = 1 .. (n - i)
        <3>1. rest \in Seq(Updates)  BY <2>3
        <3>2. DOMAIN rest = 1 .. Len(rest)  BY <3>1
        <3>3. QED  BY <2>3, <3>2
    <2>5. \A j \in 1 .. (n - i) : rest[j] = todo[i + j] /\ i + j \in 1 .. n  BY <2>1, <2>2
    <2>6. QED  BY <2>1, <2>2, <2>3, <2>4, <2>5
<1>2. \A k \in DOMAIN todo : k > i => k - i \in DOMAIN rest /\ rest[k - i] = todo[k]
    <2> SUFFICES ASSUME NEW k \in DOMAIN todo, k > i PROVE k - i \in DOMAIN rest /\ rest[k - i] = todo[k]
        OBVIOUS
    <2>1. PICK n : n = Len(todo)  OBVIOUS
    <2>2. n \in Nat /\ k \in 1 .. n /\ i \in 1 .. n  BY <1>1, <2>1
    <2>3. k - i \in 1 .. (n - i) /\ i + (k - i) = k  BY <2>2
    <2>4. QED  BY <1>1, <2>1, <2>3
<1>3. ASSUME NEW p \in Sets(rest) PROVE p \in Sets(todo)
    <2>1. PICK j \in DOMAIN rest : Mentions(rest[j], p)  BY <1>1, SetsAre
    <2>2. i + j \in DOMAIN todo /\ Mentions(todo[i + j], p)  BY <1>1, <2>1
    <2>3. \E x, a : p = <<x, a>> /\ x \in Items /\ a \notin {"measured", "precision"}  BY <1>1, SetsAre
    <2>4. QED  BY <2>2, <2>3, SetsAre
<1>4. ASSUME NEW p, NEW j, LastOf(rest, p, j) PROVE LastOf(todo, p, i + j) /\ rest[j] = todo[i + j]
    <2>1. j \in DOMAIN rest /\ Mentions(rest[j], p) /\ \A k \in DOMAIN rest : k > j => ~Mentions(rest[k], p)
        BY <1>4 DEF LastOf
    <2>2. i + j \in DOMAIN todo /\ rest[j] = todo[i + j]  BY <1>1, <2>1
    <2>3. ASSUME NEW k \in DOMAIN todo, k > i + j PROVE ~Mentions(todo[k], p)
        <3>1. PICK n : n = Len(todo)  OBVIOUS
        <3>2. n \in Nat /\ k \in 1 .. n /\ i \in 1 .. n /\ j \in 1 .. (n - i)  BY <1>1, <2>1, <3>1
        <3>3. k > i /\ k - i > j  BY <2>3, <3>2, Beyond, Zenon
        <3>4. QED  BY <1>2, <2>1, <2>3, <3>3
    <2>4. QED  BY <2>1, <2>2, <2>3 DEF LastOf
<1>5. ASSUME NEW p, NEW k, p \in Sets(todo), p \notin Sets(rest), LastOf(todo, p, k), ~(k <= i) PROVE FALSE
    <2>1. k \in DOMAIN todo /\ Mentions(todo[k], p)  BY <1>5 DEF LastOf
    <2>2. k > i  BY <1>1, <1>5, <2>1
    <2>3. k - i \in DOMAIN rest /\ Mentions(rest[k - i], p)  BY <1>2, <2>1, <2>2
    <2>4. \E x, a : p = <<x, a>> /\ x \in Items /\ a \notin {"measured", "precision"}  BY <1>5, SetsAre
    <2>5. p \in Sets(rest)  BY <1>1, <2>3, <2>4, SetsAre
    <2>6. QED  BY <1>5, <2>5
<1>6. QED  BY <1>1, <1>3, <1>4, <1>5 DEF IsRest

(* The next update of a task that changes something: those before it do not. *)
LEMMA NextDue ==
    ASSUME tasks \in Seq(Tasks), NEW t \in DOMAIN tasks, Due(t) # {}
    PROVE  LET i == Min(Due(t))
           IN  /\ i \in DOMAIN tasks[t].todo /\ Changes(tasks[t].todo[i])
               /\ \A j \in DOMAIN tasks[t].todo : j < i => ~Changes(tasks[t].todo[j])
<1>1. tasks[t].todo \in Seq(Updates)
    <2>1. tasks[t] \in Tasks  OBVIOUS
    <2>2. QED  BY <2>1 DEF Tasks
<1>2. Due(t) \in SUBSET Nat  BY <1>1 DEF Due
<1>3. \E i \in Due(t) : \A j \in Due(t) : i <= j  BY <1>2, Least
<1>4. PICK i : i = Min(Due(t))  OBVIOUS
<1>5. i \in Due(t) /\ \A j \in Due(t) : i <= j  BY <1>3, <1>4 DEF Min
<1>6. \A j \in DOMAIN tasks[t].todo : j < i => ~Changes(tasks[t].todo[j])  BY <1>1, <1>5 DEF Due
<1>7. QED  BY <1>4, <1>5, <1>6 DEF Due
(* What the task t has at hand. *)
LEMMA TaskIs ==
    ASSUME StatusTypes, NEW t \in DOMAIN tasks
    PROVE  /\ tasks[t].todo \in Seq(Updates) /\ tasks[t].item \in Items \cup {None}
           /\ tasks[t].at \in Nat \ {0} /\ None \notin Items /\ \A u \in Updates : Good(u)
           /\ tasks[t] = [todo |-> tasks[t].todo, item |-> tasks[t].item, at |-> tasks[t].at]
<1>1. tasks[t] \in Tasks  BY DEF StatusTypes
<1>2. \A u \in Updates : Good(u)  BY PlansAre DEF StatusTypes
<1>3. None \notin Items  BY StatusAssumption DEF StatusTypes, Items
<1>4. QED  BY <1>1, <1>2, <1>3 DEF Tasks

(* A task that has skipped, or done, what it would say of an attribute: if no
   other will set it, it has what the last update about it said.             *)
LEMMA Settles ==
    ASSUME StatusInv, NEW t \in DOMAIN tasks, NEW p \in DOMAIN recent,
           \A q \in DOMAIN tasks \ {t} : p \notin Sets(tasks[q].todo),
           \A k : LastOf(tasks[t].todo, p, k) => ~Changes(tasks[t].todo[k])
    PROVE  Get(p[1], p[2]) \in recent[p]
<1>1. StatusTypes /\ Promised /\ LatestStands /\ Attribute(p)  BY DEF StatusInv
<1>2. tasks[t].todo \in Seq(Updates) /\ \A u \in Updates : Good(u)  BY <1>1, TaskIs
<1>3. CASE p \notin Sets(tasks[t].todo)  BY <1>1, <1>3 DEF LatestStands, Pending
<1>4. CASE p \in Sets(tasks[t].todo)
    <2>1. PICK k : LastOf(tasks[t].todo, p, k)  BY <1>2, <1>4, SetsAre
    <2>2. tasks[t].todo[k] \in Updates /\ Mentions(tasks[t].todo[k], p)  BY <1>2, <2>1 DEF LastOf
    <2>3. Get(p[1], p[2]) = tasks[t].todo[k].new[p[2]]  BY <1>1, <1>2, <2>1, <2>2, SaidAlready
    <2>4. QED  BY <1>1, <1>4, <2>1, <2>3 DEF Promised
<1>5. QED  BY <1>3, <1>4

(* A handler's next update keeps the invariant. *)
LEMMA ApplyKeeps ==
    ASSUME StatusInv, NEW t \in DOMAIN tasks, Apply(t)
    PROVE  StatusInv'
<1>1. /\ StatusTypes /\ Reached /\ Promised /\ LatestStands /\ \A p \in DOMAIN recent : Attribute(p)
      /\ Between(t) /\ Due(t) # {} /\ UNCHANGED <<type, subscribers, running, recent, seen, missed, troubles>>
    BY DEF StatusInv, Apply
<1>2. PICK todo, i, u, rest : /\ todo = tasks[t].todo /\ i = Min(Due(t)) /\ u = todo[i]
                              /\ rest = SubSeq(todo, i + 1, Len(todo))
    OBVIOUS
<1>3. /\ i \in DOMAIN todo /\ Changes(u) /\ \A j \in DOMAIN todo : j < i => ~Changes(todo[j])
      /\ todo \in Seq(Updates) /\ \A v \in Updates : Good(v)
    BY <1>1, <1>2, NextDue, TaskIs DEF StatusTypes
<1>4. u \in Updates /\ Good(u) /\ u.item \in Items  BY <1>2, <1>3 DEF Changes
<1>5. /\ rest \in Seq(Updates)
      /\ \A p \in Sets(rest) : p \in Sets(todo)
      /\ \A p, j : LastOf(rest, p, j) => LastOf(todo, p, i + j) /\ rest[j] = todo[i + j]
      /\ \A p, k : p \in Sets(todo) /\ p \notin Sets(rest) /\ LastOf(todo, p, k) => k <= i
    <2>1. rest = SubSeq(todo, i + 1, Len(todo))  BY <1>2
    <2>2. todo \in Seq(Updates) /\ i \in DOMAIN todo /\ \A v \in Updates : Good(v)  BY <1>3
    <2>3. IsRest(todo, i, rest)  BY <2>1, <2>2, Rest, Zenon
    <2>4. QED  BY <2>3 DEF IsRest
<1>6. PICK r : r = [todo |-> rest, at |-> 1, item |-> u.item]  OBVIOUS
<1>7. /\ state' = [state EXCEPT ![u.item] = Over(Given(u), @)]
      /\ tasks' = [tasks EXCEPT ![t] = r]
    BY <1>2, <1>6 DEF Apply
<1>8. r \in Tasks  BY <1>4, <1>5, <1>6 DEF Tasks
<1>9. OnlyTask(t, r) /\ tasks' \in Seq(Tasks)  BY <1>1, <1>7, <1>8, TaskSteps DEF StatusTypes
<1>10. /\ Updates' = Updates /\ Tasks' = Tasks /\ Items' = Items
       /\ \A p : Attribute(p)' <=> Attribute(p)
       /\ \A item : Subscribed(item)' = Subscribed(item)
    BY <1>1, SameType
<1>11. StatusTypes'  BY <1>1, <1>7, <1>9, <1>10 DEF StatusTypes
<1>12. Reached'
    <2> SUFFICES ASSUME NEW item \in Items, NEW k \in DOMAIN subscribers[item]
                 PROVE  \/ seen[item][subscribers[item][k]] = state'[item]
                        \/ <<item, subscribers[item][k]>> \in missed
                        \/ \E q \in DOMAIN tasks' : tasks'[q].item = item /\ tasks'[q].at <= k
        BY <1>1, <1>10 DEF Reached
    <2>1. subscribers[item] \in Seq(Subscribed(item))  BY <1>1 DEF StatusTypes
    <2>2. k \in Nat /\ 1 <= k /\ k <= Len(subscribers[item])  BY <2>1
    <2>3. CASE item = u.item
        <3>1. t \in DOMAIN tasks' /\ tasks'[t].item = item /\ tasks'[t].at <= k
            BY <1>6, <1>9, <2>2, <2>3 DEF OnlyTask
        <3>2. QED  BY <3>1
    <2>4. CASE item # u.item
        <3>1. state'[item] = state[item]  BY <1>1, <1>7, <2>4 DEF StatusTypes
        <3>2. ASSUME NEW q \in DOMAIN tasks, tasks[q].item = item, tasks[q].at <= k
              PROVE  q \in DOMAIN tasks' /\ tasks'[q] = tasks[q]
            <4>1. q # t
                <5>1. CASE q = t
                    <6>1. tasks[t].item # None /\ tasks[t].at \in Nat  BY <1>1, <3>2, <5>1, TaskIs
                    <6>2. tasks[t].at > Len(subscribers[item])  BY <1>1, <3>2, <5>1, <6>1 DEF Between
                    <6>3. Len(subscribers[item]) \in Nat  BY <2>1
                    <6>4. QED  BY <2>2, <3>2, <5>1, <6>1, <6>2, <6>3
                <5>2. QED  BY <5>1
            <4>2. QED  BY <1>9, <4>1 DEF OnlyTask
        <3>3. QED  BY <1>1, <3>1, <3>2 DEF Reached
    <2>5. QED  BY <2>3, <2>4
<1>13. Promised'
    <2>1. ASSUME NEW q \in DOMAIN tasks', NEW p \in Sets(tasks'[q].todo)
          PROVE  /\ p \in DOMAIN recent'
                 /\ \A j : LastOf(tasks'[q].todo, p, j) => tasks'[q].todo[j].new[p[2]] \in recent'[p]
        <3>1. CASE q = t
            <4>1. tasks'[q].todo = rest  BY <1>6, <1>9, <3>1 DEF OnlyTask
            <4>2. p \in Sets(todo)  BY <1>5, <2>1, <4>1
            <4>3. p \in DOMAIN recent /\ \A k : LastOf(todo, p, k) => todo[k].new[p[2]] \in recent[p]
                BY <1>1, <1>2, <4>2 DEF Promised
            <4>4. ASSUME NEW j, LastOf(rest, p, j) PROVE rest[j].new[p[2]] \in recent[p]
                BY <1>5, <4>3, <4>4
            <4>5. QED  BY <1>1, <4>1, <4>3, <4>4
        <3>2. CASE q # t
            <4>1. q \in DOMAIN tasks /\ tasks'[q] = tasks[q]  BY <1>9, <3>2 DEF OnlyTask
            <4>2. QED  BY <1>1, <2>1, <4>1 DEF Promised
        <3>3. QED  BY <3>1, <3>2
    <2>2. QED  BY <1>1, <2>1, PromisedNext
<1>14. LatestStands'
    <2>1. ASSUME NEW p \in DOMAIN recent', \A q \in DOMAIN tasks' : p \notin Sets(tasks'[q].todo)
          PROVE  Get(p[1], p[2])' \in recent'[p]
        <3>1. p \in DOMAIN recent /\ recent' = recent /\ Attribute(p)  BY <1>1, <2>1
        <3>2. \A q \in DOMAIN tasks \ {t} : p \notin Sets(tasks[q].todo)  BY <1>9, <2>1 DEF OnlyTask
        <3>3. p \notin Sets(rest)  BY <1>6, <1>9, <2>1 DEF OnlyTask
        <3>4. /\ Mentions(u, p) => Get(p[1], p[2])' = u.new[p[2]]
              /\ ~Mentions(u, p) => Get(p[1], p[2])' = Get(p[1], p[2])
            BY <1>1, <1>4, <1>7, <3>1, SetBy DEF StatusTypes
        <3>5. CASE Mentions(u, p)
            <4>1. \E x, a : p = <<x, a>> /\ x \in Items /\ a \notin {"measured", "precision"}
                BY <3>1 DEF Attribute
            <4>2. p \in Sets(todo)  BY <1>2, <1>3, <3>5, <4>1, SetsAre
            <4>3. PICK k : LastOf(todo, p, k)  BY <1>3, <4>2, SetsAre
            <4>4. k <= i  BY <1>5, <3>3, <4>2, <4>3
            <4>5. k = i
                <5>1. k \in DOMAIN todo /\ (i > k => ~Mentions(todo[i], p))  BY <1>3, <4>3 DEF LastOf
                <5>2. k \in Nat /\ i \in Nat  BY <1>3, <5>1
                <5>3. QED  BY <1>2, <3>5, <4>4, <5>1, <5>2
            <4>6. u.new[p[2]] \in recent[p]  BY <1>1, <1>2, <4>2, <4>3, <4>5 DEF Promised
            <4>7. QED  BY <3>1, <3>4, <3>5, <4>6
        <3>6. CASE ~Mentions(u, p)
            <4>1. ASSUME NEW k, LastOf(todo, p, k) PROVE ~Changes(todo[k])
                <5>1. k \in DOMAIN todo /\ Mentions(todo[k], p)  BY <4>1 DEF LastOf
                <5>2. \E x, a : p = <<x, a>> /\ x \in Items /\ a \notin {"measured", "precision"}
                    BY <3>1 DEF Attribute
                <5>3. p \in Sets(todo)  BY <1>3, <5>1, <5>2, SetsAre
                <5>4. k <= i  BY <1>5, <3>3, <4>1, <5>3
                <5>5. k # i  BY <1>2, <3>6, <5>1
                <5>6. k \in Nat /\ i \in Nat  BY <1>3, <5>1
                <5>7. k < i  BY <5>4, <5>5, <5>6
                <5>8. QED  BY <1>3, <5>1, <5>7
            <4>2. Get(p[1], p[2]) \in recent[p]  BY <1>2, <3>1, <3>2, <4>1, Settles
            <4>3. QED  BY <3>1, <3>4, <3>6, <4>2
        <3>7. QED  BY <3>5, <3>6
    <2>2. QED  BY <1>1, <2>1, LatestNext
<1>15. \A p \in DOMAIN recent' : Attribute(p)'  BY <1>1, <1>10
<1>16. QED  BY <1>11, <1>12, <1>13, <1>14, <1>15 DEF StatusInv

(* A plan says of an attribute what the last of its updates about it says. *)
LEMMA SaysLast ==
    ASSUME NEW plan \in Seq(Updates), NEW p \in Sets(plan), NEW i, LastOf(plan, p, i)
    PROVE  Says(plan)[p] = plan[i].new[p[2]]
<1> DEFINE IsLast(k) == /\ k \in DOMAIN plan
                        /\ plan[k].item = p[1] /\ p[2] \in DOMAIN plan[k].new
                        /\ \A j \in k + 1 .. Len(plan) : plan[j].item = p[1] => p[2] \notin DOMAIN plan[j].new
<1>1. PICK n \in Nat : n = Len(plan) /\ DOMAIN plan = 1 .. n  OBVIOUS
<1>2. ASSUME NEW k PROVE IsLast(k) <=> LastOf(plan, p, k)
    <2>1. CASE k \in 1 .. n
        <3>1. \A j : j \in k + 1 .. n <=> j \in 1 .. n /\ j > k  BY <1>1, <2>1
        <3>2. QED  BY <1>1, <2>1, <3>1 DEF LastOf, Mentions
    <2>2. CASE k \notin 1 .. n  BY <1>1, <2>2 DEF LastOf
    <2>3. QED  BY <2>1, <2>2
<1>3. ASSUME NEW k, LastOf(plan, p, k) PROVE k = i
    <2>1. k \in 1 .. n /\ i \in 1 .. n /\ ~(k > i) /\ ~(i > k)  BY <1>1, <1>3 DEF LastOf
    <2>2. QED  BY <2>1
<1>4. (CHOOSE k \in DOMAIN plan : /\ plan[k].item = p[1] /\ p[2] \in DOMAIN plan[k].new
                /\ \A j \in k + 1 .. Len(plan) : plan[j].item = p[1] => p[2] \notin DOMAIN plan[j].new) = i
    <2>1. IsLast(i) /\ \A k : IsLast(k) => k = i  BY <1>2, <1>3
    <2>2. QED  BY <2>1
<1>5. QED  BY <1>4 DEF Says

(* A frame that arrives keeps the invariant. *)
LEMMA FrameKeeps == ASSUME StatusInv, Frame PROVE StatusInv'
<1>1. /\ StatusTypes /\ Reached /\ Promised /\ LatestStands /\ \A p \in DOMAIN recent : Attribute(p)
      /\ UNCHANGED <<type, state, subscribers, seen, missed, troubles>>
    BY DEF StatusInv, Frame
<1>2. PICK f \in type.frames :
         /\ tasks' = Append(tasks, [todo |-> Plan(f), item |-> None, at |-> 1])
         /\ recent' = Over([p \in DOMAIN Says(Plan(f)) |->
                               {Says(Plan(f))[p]} \cup (IF Pending(p) THEN recent[p] ELSE {})], recent)
    BY DEF Frame
<1>3. \E n \in Nat : n = Len(tasks) /\ DOMAIN tasks = 1 .. n
    <2>1. tasks \in Seq(Tasks)  BY <1>1 DEF StatusTypes
    <2>2. Len(tasks) \in Nat /\ DOMAIN tasks = 1 .. Len(tasks)  BY <2>1
    <2>3. QED  BY <2>2, Zenon
<1>4. PICK plan : plan = Plan(f)  OBVIOUS
<1>5. PICK N \in Nat : N = Len(tasks) /\ DOMAIN tasks = 1 .. N  BY <1>3
<1>6. PICK r : r = [todo |-> plan, item |-> None, at |-> 1]  OBVIOUS
<1>7. plan \in Seq(Updates) /\ \A u \in Updates : Good(u)  BY <1>1, <1>4, PlansAre DEF StatusTypes
<1>8. r \in Tasks  BY <1>6, <1>7 DEF Tasks
<1>9. /\ tasks' \in Seq(Tasks) /\ DOMAIN tasks' = 1 .. N + 1 /\ DOMAIN tasks = 1 .. N
      /\ tasks'[N + 1] = r /\ \A q \in 1 .. N : tasks'[q] = tasks[q]
    <2>1. tasks \in Seq(Tasks) /\ tasks' = Append(tasks, r)  BY <1>1, <1>2, <1>4, <1>5, <1>6 DEF StatusTypes
    <2>2. QED  BY <1>4, <1>5, <1>6, <1>8, <2>1
<1>10. /\ \A p : p \in DOMAIN recent' <=> p \in Sets(plan) \/ p \in DOMAIN recent
       /\ \A p : p \in Sets(plan) => recent'[p] = {Says(plan)[p]} \cup (IF Pending(p) THEN recent[p] ELSE {})
       /\ \A p : p \in DOMAIN recent /\ p \notin Sets(plan) => recent'[p] = recent[p]
    <2>1. DOMAIN Says(plan) = Sets(plan)  BY DEF Says
    <2>2. QED  BY <1>2, <1>4, <1>5, <1>6, <2>1 DEF Over
<1>11. /\ Updates' = Updates /\ Tasks' = Tasks /\ Items' = Items
       /\ \A p : Attribute(p)' <=> Attribute(p)
       /\ \A item : Subscribed(item)' = Subscribed(item)
    BY <1>1, SameType
<1>12. StatusTypes'
    <2>1. type' \in Modules /\ DOMAIN state' = Items' /\ DOMAIN subscribers' = Items' /\ DOMAIN seen' = Items'
        BY <1>1, <1>11 DEF StatusTypes
    <2>2. tasks' \in Seq(Tasks')  BY <1>9, <1>11
    <2>3. \A item \in Items : /\ subscribers[item] \in Seq(Subscribed(item))
                              /\ DOMAIN seen[item] = Subscribed(item)
        BY <1>1 DEF StatusTypes
    <2>4. \A item \in Items' : /\ subscribers'[item] \in Seq(Subscribed(item)')
                               /\ DOMAIN seen'[item] = Subscribed(item)'
        BY <1>1, <1>11, <2>3
    <2>5. QED  BY <2>1, <2>2, <2>4 DEF StatusTypes
<1>13. Reached'
    <2>1. \A q \in DOMAIN tasks : q \in DOMAIN tasks' /\ tasks'[q] = tasks[q]  BY <1>9
    <2>2. QED  BY <1>1, <1>11, <2>1 DEF Reached
<1>14. Promised'
    <2>1. ASSUME NEW q \in DOMAIN tasks', NEW p \in Sets(tasks'[q].todo)
          PROVE  /\ p \in DOMAIN recent'
                 /\ \A j : LastOf(tasks'[q].todo, p, j) => tasks'[q].todo[j].new[p[2]] \in recent'[p]
        <3>1. CASE q = N + 1
            <4>1. tasks'[q].todo = plan  BY <1>4, <1>5, <1>6, <1>9, <3>1
            <4>2. p \in Sets(plan) /\ p \in DOMAIN recent'  BY <1>10, <2>1, <4>1
            <4>3. ASSUME NEW j, LastOf(plan, p, j) PROVE plan[j].new[p[2]] \in recent'[p]
                BY <1>7, <1>10, <4>2, <4>3, SaysLast
            <4>4. QED  BY <4>1, <4>2, <4>3
        <3>2. CASE q \in 1 .. N
            <4>1. q \in DOMAIN tasks /\ tasks'[q] = tasks[q]  BY <1>9, <3>2
            <4>2. Pending(p)  BY <2>1, <4>1 DEF Pending
            <4>3. p \in DOMAIN recent  BY <1>1, <2>1, <4>1 DEF Promised
            <4>4. recent[p] \subseteq recent'[p]
                <5>1. CASE p \in Sets(plan)  BY <1>10, <4>2, <5>1
                <5>2. CASE p \notin Sets(plan)  BY <1>10, <4>3, <5>2
                <5>3. QED  BY <5>1, <5>2
            <4>5. QED  BY <1>1, <1>10, <2>1, <4>1, <4>3, <4>4 DEF Promised
        <3>3. QED  BY <1>4, <1>5, <1>6, <1>9, <3>1, <3>2
    <2>2. QED  BY <1>1, <2>1, PromisedNext
<1>15. LatestStands'
    <2>1. ASSUME NEW p \in DOMAIN recent', \A q \in DOMAIN tasks' : p \notin Sets(tasks'[q].todo)
          PROVE  Get(p[1], p[2])' \in recent'[p]
        <3>1. p \notin Sets(plan)  BY <1>4, <1>5, <1>6, <1>9, <2>1
        <3>2. p \in DOMAIN recent /\ recent'[p] = recent[p]  BY <1>10, <2>1, <3>1
        <3>3. ~Pending(p)  BY <1>9, <2>1 DEF Pending
        <3>4. Get(p[1], p[2])' = Get(p[1], p[2])  BY <1>1 DEF Get
        <3>5. QED  BY <1>1, <3>2, <3>3, <3>4 DEF LatestStands
    <2>2. QED  BY <1>1, <2>1, LatestNext
<1>16. \A p \in DOMAIN recent' : Attribute(p)'
    <2>1. \A p \in Sets(plan) : Attribute(p)  BY <1>7, SetsAre
    <2>2. \A p \in DOMAIN recent' : p \in Sets(plan) \/ p \in DOMAIN recent  BY <1>10
    <2>3. QED  BY <1>1, <1>11, <2>1, <2>2
<1>17. QED  BY <1>12, <1>13, <1>14, <1>15, <1>16 DEF StatusInv

(* A handler that ends keeps the invariant. *)
LEMMA FinishKeeps ==
    ASSUME StatusInv, NEW t \in DOMAIN tasks, Finish(t)
    PROVE  StatusInv'
<1>1. /\ StatusTypes /\ Reached /\ Promised /\ LatestStands /\ \A p \in DOMAIN recent : Attribute(p)
      /\ Between(t) /\ Due(t) = {} /\ UNCHANGED <<type, state, subscribers, recent, seen, missed, troubles>>
    BY DEF StatusInv, Finish
<1>2. PICK r : r = [todo |-> <<>>, item |-> None, at |-> tasks[t].at]  OBVIOUS
<1>3. r \in Tasks  BY <1>1, <1>2, TaskIs DEF Tasks
<1>4. tasks' = [tasks EXCEPT ![t] = r]  BY <1>2 DEF Finish
<1>5. OnlyTask(t, r) /\ tasks' \in Seq(Tasks)  BY <1>1, <1>3, <1>4, TaskSteps DEF StatusTypes
<1>6. /\ Updates' = Updates /\ Tasks' = Tasks /\ Items' = Items
      /\ \A p : Attribute(p)' <=> Attribute(p)
      /\ \A item : Subscribed(item)' = Subscribed(item)
    BY <1>1, SameType
<1>7. StatusTypes'  BY <1>1, <1>5, <1>6 DEF StatusTypes
<1>8. Reached'
    <2> SUFFICES ASSUME NEW item \in Items, NEW k \in DOMAIN subscribers[item]
                 PROVE  \/ seen[item][subscribers[item][k]] = state[item]
                        \/ <<item, subscribers[item][k]>> \in missed
                        \/ \E q \in DOMAIN tasks' : tasks'[q].item = item /\ tasks'[q].at <= k
        BY <1>1, <1>6 DEF Reached
    <2>1. subscribers[item] \in Seq(Subscribed(item))  BY <1>1 DEF StatusTypes
    <2>2. k \in Nat /\ 1 <= k /\ k <= Len(subscribers[item]) /\ Len(subscribers[item]) \in Nat  BY <2>1
    <2>3. ASSUME NEW q \in DOMAIN tasks, tasks[q].item = item, tasks[q].at <= k
          PROVE  q \in DOMAIN tasks' /\ tasks'[q] = tasks[q]
        <3>1. q # t
            <4>1. CASE q = t
                <5>1. tasks[t].item # None /\ tasks[t].at \in Nat  BY <1>1, <2>3, <4>1, TaskIs
                <5>2. tasks[t].at > Len(subscribers[item])  BY <1>1, <2>3, <4>1, <5>1 DEF Between
                <5>3. QED  BY <2>2, <2>3, <4>1, <5>1, <5>2
            <4>2. QED  BY <4>1
        <3>2. QED  BY <1>5, <3>1 DEF OnlyTask
    <2>4. QED  BY <1>1, <2>3 DEF Reached
<1>9. Sets(<<>>) = {}  BY DEF Sets
<1>10. Promised'
    <2>1. ASSUME NEW q \in DOMAIN tasks', NEW p \in Sets(tasks'[q].todo)
          PROVE  /\ p \in DOMAIN recent'
                 /\ \A j : LastOf(tasks'[q].todo, p, j) => tasks'[q].todo[j].new[p[2]] \in recent'[p]
        <3>1. q \in DOMAIN tasks /\ q # t  BY <1>2, <1>5, <1>9, <2>1 DEF OnlyTask
        <3>2. tasks'[q] = tasks[q]  BY <1>5, <3>1 DEF OnlyTask
        <3>3. QED  BY <1>1, <2>1, <3>1, <3>2 DEF Promised
    <2>2. QED  BY <1>1, <2>1, PromisedNext
<1>11. LatestStands'
    <2>1. ASSUME NEW p \in DOMAIN recent', \A q \in DOMAIN tasks' : p \notin Sets(tasks'[q].todo)
          PROVE  Get(p[1], p[2])' \in recent'[p]
        <3>1. \A q \in DOMAIN tasks \ {t} : p \notin Sets(tasks[q].todo)  BY <1>5, <2>1 DEF OnlyTask
        <3>2. \A k : LastOf(tasks[t].todo, p, k) => ~Changes(tasks[t].todo[k])  BY <1>1 DEF LastOf, Due
        <3>3. Get(p[1], p[2]) \in recent[p]  BY <1>1, <2>1, <3>1, <3>2, Settles
        <3>4. Get(p[1], p[2])' = Get(p[1], p[2])  BY <1>1 DEF Get
        <3>5. QED  BY <1>1, <3>3, <3>4
    <2>2. QED  BY <1>1, <2>1, LatestNext
<1>12. \A p \in DOMAIN recent' : Attribute(p)'  BY <1>1, <1>6
<1>13. QED  BY <1>7, <1>8, <1>10, <1>11, <1>12 DEF StatusInv
(* A step that sets nothing and leaves every task what it has to do. *)
LEMMA SaysKept ==
    ASSUME StatusInv, UNCHANGED <<type, state, recent>>, DOMAIN tasks' = DOMAIN tasks,
           \A q \in DOMAIN tasks : tasks'[q].todo = tasks[q].todo
    PROVE  Promised' /\ LatestStands' /\ \A p \in DOMAIN recent' : Attribute(p)'
<1>1. Promised /\ LatestStands /\ \A p \in DOMAIN recent : Attribute(p)  BY DEF StatusInv
<1>2. Promised'
    <2>1. ASSUME NEW q \in DOMAIN tasks', NEW p \in Sets(tasks'[q].todo)
          PROVE  /\ p \in DOMAIN recent'
                 /\ \A j : LastOf(tasks'[q].todo, p, j) => tasks'[q].todo[j].new[p[2]] \in recent'[p]
        <3>1. q \in DOMAIN tasks /\ tasks'[q].todo = tasks[q].todo  OBVIOUS
        <3>2. QED  BY <1>1, <2>1, <3>1 DEF Promised
    <2>2. QED  BY <2>1, PromisedNext
<1>3. LatestStands'
    <2>1. ASSUME NEW p \in DOMAIN recent', \A q \in DOMAIN tasks' : p \notin Sets(tasks'[q].todo)
          PROVE  Get(p[1], p[2])' \in recent'[p]
        <3>1. ~Pending(p)  BY <2>1 DEF Pending
        <3>2. Get(p[1], p[2])' = Get(p[1], p[2])  BY DEF Get
        <3>3. QED  BY <1>1, <3>1, <3>2 DEF LatestStands
    <2>2. QED  BY <2>1, LatestNext
<1>4. QED  BY <1>1, <1>2, <1>3, SameType

(* What a subscriber has to be told, whatever the step. *)
LEMMA ReachedNext ==
    ASSUME UNCHANGED type,
           \A item \in Items : \A k \in DOMAIN subscribers'[item] :
               \/ seen'[item][subscribers'[item][k]] = state'[item]
               \/ <<item, subscribers'[item][k]>> \in missed'
               \/ \E q \in DOMAIN tasks' : tasks'[q].item = item /\ tasks'[q].at <= k
    PROVE  Reached'
<1>1. Items' = Items  BY SameType
<1>2. SUFFICES ASSUME NEW item \in Items, NEW k \in DOMAIN subscribers'[item]
               PROVE  \/ seen'[item][subscribers'[item][k]] = state'[item]
                      \/ <<item, subscribers'[item][k]>> \in missed'
                      \/ \E q \in DOMAIN tasks' : tasks'[q].item = item /\ tasks'[q].at <= k
    BY <1>1 DEF Reached
<1>3. QED  OBVIOUS

(* The task t is at a subscriber of its item. *)
LEMMA AtSubscriber ==
    ASSUME StatusTypes, NEW t \in DOMAIN tasks, ~Between(t)
    PROVE  /\ tasks[t].item \in Items
           /\ tasks[t].at \in DOMAIN subscribers[tasks[t].item]
           /\ subscribers[tasks[t].item][tasks[t].at] \in DOMAIN seen[tasks[t].item]
<1>1. PICK item : item = tasks[t].item  OBVIOUS
<1>2. item \in Items /\ tasks[t].at \in Nat \ {0} /\ ~(tasks[t].at > Len(subscribers[item]))
    BY <1>1, TaskIs DEF Between
<1>3. subscribers[item] \in Seq(Subscribed(item)) /\ DOMAIN seen[item] = Subscribed(item)
    BY <1>2 DEF StatusTypes
<1>4. tasks[t].at \in 1 .. Len(subscribers[item])  BY <1>2, <1>3
<1>5. QED  BY <1>1, <1>2, <1>3, <1>4

(* A subscriber that is called keeps the invariant. *)
LEMMA CallKeeps ==
    ASSUME StatusInv, NEW t \in DOMAIN tasks, Call(t)
    PROVE  StatusInv'
<1>1. /\ StatusTypes /\ Reached /\ ~Between(t)
      /\ UNCHANGED <<type, state, subscribers, recent, troubles>>
    BY DEF StatusInv, Call
<1>2. PICK item : item = tasks[t].item  OBVIOUS
<1>3. PICK at : at = tasks[t].at  OBVIOUS
<1>4. PICK s : s = subscribers[item][at]  OBVIOUS
<1>5. /\ seen' = [seen EXCEPT ![item][s] = state[item]] /\ missed' = missed \ {<<item, s>>}
      /\ tasks' = [tasks EXCEPT ![t].at = @ + 1]
    BY <1>2, <1>3, <1>4 DEF Call
<1>6. item \in Items /\ at \in DOMAIN subscribers[item] /\ s \in DOMAIN seen[item]
    BY <1>1, <1>2, <1>3, <1>4, AtSubscriber
<1>7. at \in Nat \ {0} /\ tasks[t].todo \in Seq(Updates)  BY <1>1, <1>3, TaskIs
<1>8. PICK r : r = [todo |-> tasks[t].todo, item |-> item, at |-> at + 1]  OBVIOUS
<1>9. r \in Tasks  BY <1>6, <1>7, <1>8 DEF Tasks
<1>10. tasks' = [tasks EXCEPT ![t] = r]
    <2>1. tasks[t] = [todo |-> tasks[t].todo, item |-> item, at |-> at]  BY <1>1, <1>2, <1>3, TaskIs
    <2>2. [tasks[t] EXCEPT !.at = @ + 1] = r  BY <1>8, <2>1
    <2>3. QED  BY <1>5, <2>2
<1>11. OnlyTask(t, r) /\ tasks' \in Seq(Tasks)  BY <1>1, <1>9, <1>10, TaskSteps DEF StatusTypes
<1>12. Promised' /\ LatestStands' /\ \A p \in DOMAIN recent' : Attribute(p)'
    <2>1. \A q \in DOMAIN tasks : tasks'[q].todo = tasks[q].todo  BY <1>8, <1>11 DEF OnlyTask
    <2>2. QED  BY <1>1, <1>11, <2>1, SaysKept DEF OnlyTask
<1>13. \A x \in Items : \A y \in Subscribed(x) :
           seen'[x][y] = IF x = item /\ y = s THEN state[x] ELSE seen[x][y]
    BY <1>1, <1>5, <1>6 DEF StatusTypes
<1>14. DOMAIN seen' = Items /\ \A x \in Items : DOMAIN seen'[x] = Subscribed(x)
    BY <1>1, <1>5, <1>6 DEF StatusTypes
<1>15. StatusTypes'
    <2>1. Tasks' = Tasks /\ Items' = Items /\ \A x : Subscribed(x)' = Subscribed(x)  BY <1>1, SameType
    <2>2. QED  BY <1>1, <1>11, <1>14, <2>1 DEF StatusTypes
<1>16. Reached'
    <2>1. ASSUME NEW x \in Items, NEW k \in DOMAIN subscribers[x]
          PROVE  \/ seen'[x][subscribers[x][k]] = state'[x]
                 \/ <<x, subscribers[x][k]>> \in missed'
                 \/ \E q \in DOMAIN tasks' : tasks'[q].item = x /\ tasks'[q].at <= k
        <3>1. PICK y : y = subscribers[x][k]  OBVIOUS
        <3>2. subscribers[x] \in Seq(Subscribed(x))  BY <1>1 DEF StatusTypes
        <3>3. y \in Subscribed(x) /\ k \in Nat  BY <3>1, <3>2
        <3>4. CASE x = item /\ y = s  BY <1>1, <1>13, <3>1, <3>3, <3>4
        <3>5. CASE ~(x = item /\ y = s)
            <4>1. seen'[x][y] = seen[x][y] /\ (<<x, y>> \in missed => <<x, y>> \in missed')
                BY <1>5, <1>13, <3>3, <3>5
            <4>2. ASSUME NEW q \in DOMAIN tasks, tasks[q].item = x, tasks[q].at <= k
                  PROVE  q \in DOMAIN tasks' /\ tasks'[q].item = x /\ tasks'[q].at <= k
                <5>1. CASE q = t
                    <6>1. x = item /\ at <= k  BY <1>2, <1>3, <4>2, <5>1
                    <6>2. at # k  BY <1>4, <3>1, <3>5, <6>1
                    <6>3. at + 1 <= k  BY <1>7, <3>3, <6>1, <6>2
                    <6>4. QED  BY <1>8, <1>11, <5>1, <6>1, <6>3 DEF OnlyTask
                <5>2. CASE q # t  BY <1>11, <4>2, <5>2 DEF OnlyTask
                <5>3. QED  BY <5>1, <5>2
            <4>3. QED  BY <1>1, <3>1, <4>1, <4>2 DEF Reached
        <3>6. QED  BY <3>4, <3>5
    <2>2. QED  BY <1>1, <2>1, ReachedNext
<1>17. QED  BY <1>12, <1>15, <1>16 DEF StatusInv

(* A subscriber that goes on keeps the invariant. *)
LEMMA ResumeKeeps ==
    ASSUME StatusInv, NEW t \in DOMAIN tasks, Resume(t)
    PROVE  StatusInv'
<1>1. StatusTypes /\ Reached /\ UNCHANGED <<type, state, subscribers, tasks, recent, seen, missed, troubles>>
    BY DEF StatusInv, Resume
<1>2. Promised' /\ LatestStands' /\ \A p \in DOMAIN recent' : Attribute(p)'  BY <1>1, SaysKept
<1>3. StatusTypes'  BY <1>1, SameType DEF StatusTypes
<1>4. Reached'  BY <1>1 DEF Reached, Items
<1>5. QED  BY <1>2, <1>3, <1>4 DEF StatusInv

(* A subscriber that raises keeps the invariant: those after it were skipped. *)
LEMMA RaiseKeeps ==
    ASSUME StatusInv, NEW t \in DOMAIN tasks, Raise(t)
    PROVE  StatusInv'
<1>1. /\ StatusTypes /\ Reached /\ Promised /\ LatestStands /\ \A p \in DOMAIN recent : Attribute(p)
      /\ ~Between(t) /\ UNCHANGED <<type, state, subscribers>>
    BY DEF StatusInv, Raise
<1>2. PICK item : item = tasks[t].item  OBVIOUS
<1>3. PICK at : at = tasks[t].at  OBVIOUS
<1>4. PICK s : s = subscribers[item][at]  OBVIOUS
<1>5. /\ seen' = [seen EXCEPT ![item][s] = state[item]]
      /\ missed' = (missed \ {<<item, s>>})
                   \cup {<<item, subscribers[item][i]>> : i \in at + 1 .. Len(subscribers[item])}
      /\ \/ tasks' = [tasks EXCEPT ![t].item = None] /\ UNCHANGED recent
         \/ /\ tasks' = [tasks EXCEPT ![t] = [todo |-> <<>>, item |-> None, at |-> tasks[t].at]]
            /\ recent' = Over([p \in Sets(tasks[t].todo) |-> recent[p] \cup {Get(p[1], p[2])}], recent)
    BY <1>2, <1>3, <1>4 DEF Raise
<1>6. item \in Items /\ at \in DOMAIN subscribers[item] /\ s \in DOMAIN seen[item]
    BY <1>1, <1>2, <1>3, <1>4, AtSubscriber
<1>7. at \in Nat \ {0} /\ tasks[t].todo \in Seq(Updates) /\ None \notin Items  BY <1>1, <1>3, TaskIs
<1>8. PICK todo : /\ todo \in Seq(Updates)
                  /\ tasks' = [tasks EXCEPT ![t] = [todo |-> todo, item |-> None, at |-> at]]
                  /\ \/ todo = tasks[t].todo /\ UNCHANGED recent
                     \/ /\ todo = <<>>
                        /\ recent' = Over([p \in Sets(tasks[t].todo) |-> recent[p] \cup {Get(p[1], p[2])}], recent)
    <2>1. CASE tasks' = [tasks EXCEPT ![t].item = None] /\ UNCHANGED recent
        <3>1. tasks[t] = [todo |-> tasks[t].todo, item |-> item, at |-> at]  BY <1>1, <1>2, <1>3, TaskIs
        <3>2. [tasks[t] EXCEPT !.item = None] = [todo |-> tasks[t].todo, item |-> None, at |-> at]  BY <3>1
        <3>3. QED  BY <1>7, <2>1, <3>2
    <2>2. CASE /\ tasks' = [tasks EXCEPT ![t] = [todo |-> <<>>, item |-> None, at |-> tasks[t].at]]
               /\ recent' = Over([p \in Sets(tasks[t].todo) |-> recent[p] \cup {Get(p[1], p[2])}], recent)
        <3>1. <<>> \in Seq(Updates)  OBVIOUS
        <3>2. QED  BY <1>3, <2>2, <3>1
    <2>3. QED  BY <1>5, <2>1, <2>2
<1>9. PICK r : r = [todo |-> todo, item |-> None, at |-> at]  OBVIOUS
<1>10. r \in Tasks  BY <1>7, <1>8, <1>9 DEF Tasks
<1>11. OnlyTask(t, r) /\ tasks' \in Seq(Tasks)  BY <1>1, <1>8, <1>9, <1>10, TaskSteps DEF StatusTypes
<1>12. \A x \in Items : \A y \in Subscribed(x) :
           seen'[x][y] = IF x = item /\ y = s THEN state[x] ELSE seen[x][y]
    BY <1>1, <1>5, <1>6 DEF StatusTypes
<1>13. DOMAIN seen' = Items /\ \A x \in Items : DOMAIN seen'[x] = Subscribed(x)
    BY <1>1, <1>5, <1>6 DEF StatusTypes
<1>14. StatusTypes'
    <2>1. Tasks' = Tasks /\ Items' = Items /\ \A x : Subscribed(x)' = Subscribed(x)  BY <1>1, SameType
    <2>2. QED  BY <1>1, <1>11, <1>13, <2>1 DEF StatusTypes
<1>15. Reached'
    <2>1. ASSUME NEW x \in Items, NEW k \in DOMAIN subscribers[x]
          PROVE  \/ seen'[x][subscribers[x][k]] = state'[x]
                 \/ <<x, subscribers[x][k]>> \in missed'
                 \/ \E q \in DOMAIN tasks' : tasks'[q].item = x /\ tasks'[q].at <= k
        <3>1. PICK y : y = subscribers[x][k]  OBVIOUS
        <3>2. subscribers[x] \in Seq(Subscribed(x))  BY <1>1 DEF StatusTypes
        <3>3. y \in Subscribed(x) /\ k \in 1 .. Len(subscribers[x]) /\ Len(subscribers[x]) \in Nat  BY <3>1, <3>2
        <3>4. CASE x = item /\ y = s  BY <1>1, <1>12, <3>1, <3>3, <3>4
        <3>5. CASE x = item /\ k > at
            <4>1. k \in at + 1 .. Len(subscribers[item])  BY <1>7, <3>3, <3>5
            <4>2. QED  BY <1>5, <3>5, <4>1
        <3>6. CASE ~(x = item /\ y = s) /\ ~(x = item /\ k > at)
            <4>1. seen'[x][y] = seen[x][y] /\ (<<x, y>> \in missed => <<x, y>> \in missed')
                BY <1>5, <1>12, <3>3, <3>6
            <4>2. ASSUME NEW q \in DOMAIN tasks, tasks[q].item = x, tasks[q].at <= k
                  PROVE  q \in DOMAIN tasks' /\ tasks'[q].item = x /\ tasks'[q].at <= k
                <5>1. CASE q = t
                    <6>1. x = item /\ at <= k  BY <1>2, <1>3, <4>2, <5>1
                    <6>2. at # k  BY <1>4, <3>1, <3>6, <6>1
                    <6>3. QED  BY <1>7, <3>3, <3>6, <6>1, <6>2
                <5>2. CASE q # t  BY <1>11, <4>2, <5>2 DEF OnlyTask
                <5>3. QED  BY <5>1, <5>2
            <4>3. QED  BY <1>1, <3>1, <4>1, <4>2 DEF Reached
        <3>7. QED  BY <3>4, <3>5, <3>6
    <2>2. QED  BY <1>1, <2>1, ReachedNext
<1>16. Promised' /\ LatestStands' /\ \A p \in DOMAIN recent' : Attribute(p)'
    <2>1. CASE todo = tasks[t].todo /\ UNCHANGED recent
        <3>1. \A q \in DOMAIN tasks : tasks'[q].todo = tasks[q].todo  BY <1>9, <1>11, <2>1 DEF OnlyTask
        <3>2. QED  BY <1>1, <1>11, <2>1, <3>1, SaysKept DEF OnlyTask
    <2>2. CASE /\ todo = <<>>
               /\ recent' = Over([p \in Sets(tasks[t].todo) |-> recent[p] \cup {Get(p[1], p[2])}], recent)
        <3>1. \A p \in Sets(tasks[t].todo) : p \in DOMAIN recent  BY <1>1 DEF Promised
        <3>2. DOMAIN recent' = DOMAIN recent  BY <2>2, <3>1 DEF Over
        <3>3. \A p \in DOMAIN recent :
                  recent'[p] = IF p \in Sets(tasks[t].todo) THEN recent[p] \cup {Get(p[1], p[2])} ELSE recent[p]
            BY <2>2, <3>1 DEF Over
        <3>4. \A p \in DOMAIN recent' : Attribute(p)'  BY <1>1, <3>2, SameType
        <3>5. Sets(<<>>) = {}  BY DEF Sets
        <3>6. Promised'
            <4>1. ASSUME NEW q \in DOMAIN tasks', NEW p \in Sets(tasks'[q].todo)
                  PROVE  /\ p \in DOMAIN recent'
                         /\ \A j : LastOf(tasks'[q].todo, p, j) => tasks'[q].todo[j].new[p[2]] \in recent'[p]
                <5>1. q \in DOMAIN tasks /\ q # t  BY <1>9, <1>11, <2>2, <3>5, <4>1 DEF OnlyTask
                <5>2. tasks'[q] = tasks[q]  BY <1>11, <5>1 DEF OnlyTask
                <5>3. p \in DOMAIN recent  BY <1>1, <4>1, <5>1, <5>2 DEF Promised
                <5>4. recent[p] \subseteq recent'[p]  BY <3>3, <5>3
                <5>5. QED  BY <1>1, <3>2, <4>1, <5>1, <5>2, <5>3, <5>4 DEF Promised
            <4>2. QED  BY <1>1, <4>1, PromisedNext
        <3>7. LatestStands'
            <4>1. ASSUME NEW p \in DOMAIN recent', \A q \in DOMAIN tasks' : p \notin Sets(tasks'[q].todo)
                  PROVE  Get(p[1], p[2])' \in recent'[p]
                <5>1. Get(p[1], p[2])' = Get(p[1], p[2])  BY <1>1 DEF Get
                <5>2. CASE p \in Sets(tasks[t].todo)  BY <3>2, <3>3, <4>1, <5>1, <5>2
                <5>3. CASE p \notin Sets(tasks[t].todo)
                    <6>1. ~Pending(p)  BY <1>11, <4>1, <5>3 DEF Pending, OnlyTask
                    <6>2. QED  BY <1>1, <3>2, <3>3, <4>1, <5>1, <5>3, <6>1 DEF LatestStands
                <5>4. QED  BY <5>2, <5>3
            <4>2. QED  BY <1>1, <4>1, LatestNext
        <3>8. QED  BY <3>4, <3>6, <3>7
    <2>3. QED  BY <1>8, <2>1, <2>2
<1>17. QED  BY <1>14, <1>15, <1>16 DEF StatusInv

(* A sequence without its element n. *)
LEMMA RemoveAtIs ==
    ASSUME NEW S, NEW q \in Seq(S), NEW n \in DOMAIN q
    PROVE  /\ RemoveAt(q, n) \in Seq(S) /\ DOMAIN RemoveAt(q, n) = 1 .. (Len(q) - 1)
           /\ \A k \in 1 .. (Len(q) - 1) : RemoveAt(q, n)[k] = IF k < n THEN q[k] ELSE q[k + 1]
<1>1. Len(q) \in Nat /\ n \in 1 .. Len(q)  OBVIOUS
<1>2. PICK a : a = SubSeq(q, 1, n - 1)  OBVIOUS
<1>3. PICK b : b = SubSeq(q, n + 1, Len(q))  OBVIOUS
<1>4. a \in Seq(S) /\ Len(a) = n - 1 /\ \A k \in 1 .. (n - 1) : a[k] = q[k]  BY <1>1, <1>2
<1>5. b \in Seq(S) /\ Len(b) = Len(q) - n /\ \A k \in 1 .. (Len(q) - n) : b[k] = q[n + k]
    <2>1. b \in Seq(S) /\ Len(b) = Len(q) - n  BY <1>1, <1>3
    <2>2. ASSUME NEW k \in 1 .. (Len(q) - n) PROVE b[k] = q[n + k]
        <3>1. PICK m : m = n + 1  OBVIOUS
        <3>2. m \in Int /\ Len(q) \in Int /\ \A i \in m .. Len(q) : q[i] \in S  BY <1>1, <3>1
        <3>3. \A i \in 1 .. Len(q) - m + 1 : SubSeq(q, m, Len(q))[i] = q[m + i - 1]
            BY <3>2, SubSeqProperties
        <3>4. k \in 1 .. Len(q) - m + 1 /\ m + k - 1 = n + k  BY <1>1, <3>1
        <3>5. QED  BY <1>3, <3>1, <3>3, <3>4
    <2>3. QED  BY <2>1, <2>2
<1>6. RemoveAt(q, n) = a \o b  BY <1>2, <1>3 DEF RemoveAt
<1>7. a \o b \in Seq(S) /\ Len(a \o b) = Len(q) - 1  BY <1>1, <1>4, <1>5
<1>8. DOMAIN (a \o b) = 1 .. (Len(q) - 1)  BY <1>7
<1>9. ASSUME NEW k \in 1 .. (Len(q) - 1) PROVE (a \o b)[k] = IF k < n THEN q[k] ELSE q[k + 1]
    <2>1. CASE k < n  BY <1>1, <1>4, <1>5, <2>1
    <2>2. CASE ~(k < n)
        <3>1. k - (n - 1) \in 1 .. (Len(q) - n) /\ n + (k - (n - 1)) = k + 1  BY <1>1, <2>2
        <3>2. Len(a) \in Nat /\ Len(b) \in Nat /\ k \in 1 .. Len(a) + Len(b) /\ k - Len(a) = k - (n - 1)
            BY <1>1, <1>4, <1>5
        <3>3. ~(k <= Len(a))  BY <1>1, <1>4, <2>2
        <3>4. (a \o b)[k] = b[k - Len(a)]  BY <1>4, <1>5, <3>2, <3>3, ConcatProperties, Zenon
        <3>5. QED  BY <1>5, <2>2, <3>1, <3>2, <3>4
    <2>3. QED  BY <2>1, <2>2
<1>10. QED  BY <1>6, <1>7, <1>8, <1>9

(* A subscriber that is removed keeps the invariant: one in its place is
   skipped.                                                                  *)
LEMMA UnsubscribeKeeps == ASSUME StatusInv, Unsubscribe PROVE StatusInv'
<1>1. /\ StatusTypes /\ Reached /\ UNCHANGED <<type, state, tasks, running, recent, seen>>
    BY DEF StatusInv, Unsubscribe
<1>2. PICK item \in Items : \E s \in ToSet(subscribers[item]) :
         /\ subscribers' = [subscribers EXCEPT ![item] = RemoveAt(@, Place(item, s))]
         /\ missed' = missed \cup {<<item, subscribers[item][tasks[t].at]>> : t \in
                {u \in DOMAIN tasks : /\ tasks[u].item = item
                                      /\ tasks[u].at \in Place(item, s) + 1 .. Len(subscribers[item])}}
    BY DEF Unsubscribe
<1>3. PICK s \in ToSet(subscribers[item]) :
         /\ subscribers' = [subscribers EXCEPT ![item] = RemoveAt(@, Place(item, s))]
         /\ missed' = missed \cup {<<item, subscribers[item][tasks[t].at]>> : t \in
                {u \in DOMAIN tasks : /\ tasks[u].item = item
                                      /\ tasks[u].at \in Place(item, s) + 1 .. Len(subscribers[item])}}
    BY <1>2
<1>4. PICK n : n = Place(item, s)  OBVIOUS
<1>5. PICK old : old = subscribers[item]  OBVIOUS
<1>6. PICK new : new = RemoveAt(old, n)  OBVIOUS
<1>7. old \in Seq(Subscribed(item)) /\ n \in DOMAIN old
    <2>1. old \in Seq(Subscribed(item))  BY <1>1, <1>5 DEF StatusTypes
    <2>2. \E i \in DOMAIN old : old[i] = s  BY <1>5 DEF ToSet
    <2>3. QED  BY <1>4, <1>5, <2>1, <2>2 DEF Place
<1>8. /\ new \in Seq(Subscribed(item)) /\ DOMAIN new = 1 .. (Len(old) - 1)
      /\ \A k \in 1 .. (Len(old) - 1) : new[k] = IF k < n THEN old[k] ELSE old[k + 1]
    BY <1>6, <1>7, RemoveAtIs
<1>9. /\ DOMAIN subscribers' = Items /\ subscribers'[item] = new
      /\ \A x \in Items \ {item} : subscribers'[x] = subscribers[x]
    BY <1>1, <1>3, <1>4, <1>5, <1>6 DEF StatusTypes
<1>10. StatusTypes'
    <2>1. Tasks' = Tasks /\ Items' = Items /\ \A x : Subscribed(x)' = Subscribed(x)  BY <1>1, SameType
    <2>2. QED  BY <1>1, <1>8, <1>9, <2>1 DEF StatusTypes
<1>11. Reached'
    <2>1. ASSUME NEW x \in Items, NEW k \in DOMAIN subscribers'[x]
          PROVE  \/ seen'[x][subscribers'[x][k]] = state'[x]
                 \/ <<x, subscribers'[x][k]>> \in missed'
                 \/ \E q \in DOMAIN tasks' : tasks'[q].item = x /\ tasks'[q].at <= k
        <3>1. CASE x # item
            <4>1. subscribers'[x] = subscribers[x] /\ missed \subseteq missed'  BY <1>3, <1>9, <3>1
            <4>2. QED  BY <1>1, <2>1, <4>1 DEF Reached
        <3>2. CASE x = item
            <4>1. k \in 1 .. (Len(old) - 1) /\ Len(old) \in Nat /\ n \in 1 .. Len(old)
                BY <1>7, <1>8, <1>9, <2>1, <3>2
            <4>2. PICK j : j = IF k < n THEN k ELSE k + 1  OBVIOUS
            <4>3. j \in DOMAIN old /\ new[k] = old[j]  BY <1>7, <1>8, <4>1, <4>2
            <4>4. \/ seen[item][old[j]] = state[item] \/ <<item, old[j]>> \in missed
                  \/ \E q \in DOMAIN tasks : tasks[q].item = item /\ tasks[q].at <= j
                BY <1>1, <1>5, <4>3 DEF Reached
            <4>5. ASSUME NEW q \in DOMAIN tasks, tasks[q].item = item, tasks[q].at <= j, ~(tasks[q].at <= k)
                  PROVE  <<item, old[j]>> \in missed'
                <5>1. tasks[q].at \in Nat  BY <1>1, TaskIs
                <5>2. tasks[q].at = j /\ j \in n + 1 .. Len(old)  BY <4>1, <4>2, <4>5, <5>1
                <5>3. QED  BY <1>3, <1>4, <1>5, <4>5, <5>2
            <4>6. QED  BY <1>1, <1>3, <1>9, <3>2, <4>3, <4>4, <4>5
        <3>3. QED  BY <3>1, <3>2
    <2>2. QED  BY <1>1, <2>1, ReachedNext
<1>12. Promised' /\ LatestStands' /\ \A p \in DOMAIN recent' : Attribute(p)'  BY <1>1, SaysKept
<1>13. QED  BY <1>10, <1>11, <1>12 DEF StatusInv

(* A new subscriber keeps the invariant. *)
LEMMA SubscribeKeeps == ASSUME StatusInv, Subscribe PROVE StatusInv'
<1>1. /\ StatusTypes /\ Reached /\ UNCHANGED <<type, state, tasks, running, recent, troubles>>
    BY DEF StatusInv, Subscribe
<1>2. PICK item \in Items : \E s \in ToSet(type.subscribers[item]) \ ToSet(subscribers[item]) :
         /\ subscribers' = [subscribers EXCEPT ![item] = Append(@, s)]
         /\ seen' = [seen EXCEPT ![item][s] = state[item]]
         /\ missed' = missed \ {<<item, s>>}
    BY DEF Subscribe
<1>3. PICK s \in ToSet(type.subscribers[item]) \ ToSet(subscribers[item]) :
         /\ subscribers' = [subscribers EXCEPT ![item] = Append(@, s)]
         /\ seen' = [seen EXCEPT ![item][s] = state[item]]
         /\ missed' = missed \ {<<item, s>>}
    BY <1>2
<1>4. s \in Subscribed(item) /\ s \notin ToSet(subscribers[item])  BY DEF Subscribed
<1>5. PICK old : old = subscribers[item]  OBVIOUS
<1>6. old \in Seq(Subscribed(item)) /\ Len(old) \in Nat /\ DOMAIN old = 1 .. Len(old)
    <2>1. old \in Seq(Subscribed(item))  BY <1>1, <1>5 DEF StatusTypes
    <2>2. QED  BY <2>1
<1>7. PICK new : new = Append(old, s)  OBVIOUS
<1>8. /\ new \in Seq(Subscribed(item)) /\ DOMAIN new = 1 .. Len(old) + 1
      /\ new[Len(old) + 1] = s /\ \A k \in 1 .. Len(old) : new[k] = old[k]
    BY <1>4, <1>6, <1>7
<1>9. /\ DOMAIN subscribers' = Items /\ subscribers'[item] = new
      /\ \A x \in Items \ {item} : subscribers'[x] = subscribers[x]
    BY <1>1, <1>3, <1>5, <1>7 DEF StatusTypes
<1>10. /\ DOMAIN seen' = Items /\ \A x \in Items : DOMAIN seen'[x] = Subscribed(x)
       /\ \A x \in Items : \A y \in Subscribed(x) :
             seen'[x][y] = IF x = item /\ y = s THEN state[x] ELSE seen[x][y]
    BY <1>1, <1>3, <1>4 DEF StatusTypes
<1>11. StatusTypes'
    <2>1. Tasks' = Tasks /\ Items' = Items /\ \A x : Subscribed(x)' = Subscribed(x)  BY <1>1, SameType
    <2>2. \A x \in Items : subscribers'[x] \in Seq(Subscribed(x))  BY <1>1, <1>8, <1>9 DEF StatusTypes
    <2>3. QED  BY <1>1, <1>9, <1>10, <2>1, <2>2 DEF StatusTypes
<1>12. Reached'
    <2>1. ASSUME NEW x \in Items, NEW k \in DOMAIN subscribers'[x]
          PROVE  \/ seen'[x][subscribers'[x][k]] = state'[x]
                 \/ <<x, subscribers'[x][k]>> \in missed'
                 \/ \E q \in DOMAIN tasks' : tasks'[q].item = x /\ tasks'[q].at <= k
        <3>1. CASE x = item /\ k = Len(old) + 1
            <4>1. subscribers'[x][k] = s  BY <1>8, <1>9, <3>1
            <4>2. QED  BY <1>1, <1>4, <1>10, <3>1, <4>1
        <3>2. CASE ~(x = item /\ k = Len(old) + 1)
            <4>1. k \in DOMAIN subscribers[x] /\ subscribers'[x][k] = subscribers[x][k]
                <5>1. CASE x = item
                    <6>1. k \in 1 .. Len(old) + 1 /\ k # Len(old) + 1  BY <1>8, <1>9, <2>1, <3>2, <5>1
                    <6>2. k \in 1 .. Len(old)  BY <1>6, <6>1
                    <6>3. QED  BY <1>5, <1>6, <1>8, <1>9, <5>1, <6>2
                <5>2. CASE x # item  BY <1>9, <2>1, <5>2
                <5>3. QED  BY <5>1, <5>2
            <4>2. PICK y : y = subscribers[x][k]  OBVIOUS
            <4>3. y \in Subscribed(x)
                <5>1. subscribers[x] \in Seq(Subscribed(x))  BY <1>1 DEF StatusTypes
                <5>2. QED  BY <4>1, <4>2, <5>1
            <4>4. ~(x = item /\ y = s)  BY <1>4, <4>1, <4>2 DEF ToSet
            <4>5. seen'[x][y] = seen[x][y] /\ (<<x, y>> \in missed => <<x, y>> \in missed')
                BY <1>3, <1>10, <4>3, <4>4
            <4>6. QED  BY <1>1, <4>1, <4>2, <4>5 DEF Reached
        <3>3. QED  BY <3>1, <3>2
    <2>2. QED  BY <1>1, <2>1, ReachedNext
<1>13. Promised' /\ LatestStands' /\ \A p \in DOMAIN recent' : Attribute(p)'  BY <1>1, SaysKept
<1>14. QED  BY <1>11, <1>12, <1>13 DEF StatusInv

(* The invariant holds in the beginning. *)
LEMMA InitInv == ASSUME SInit PROVE StatusInv
<1>1. /\ type \in Modules /\ state = [i \in Items |-> Defaults(type.class[i])]
      /\ subscribers = type.subscribers /\ tasks = <<>> /\ recent = <<>>
      /\ seen = [i \in Items |-> [s \in ToSet(subscribers[i]) |-> state[i]]]
    BY DEF SInit
<1>2. /\ DOMAIN subscribers = Items
      /\ \A item \in Items : subscribers[item] \in Seq(ToSet(subscribers[item]))
    BY <1>1, StatusAssumption DEF Items
<1>3. DOMAIN tasks = {} /\ tasks \in Seq(Tasks) /\ DOMAIN recent = {}  BY <1>1
<1>4. \A item \in Items : Subscribed(item) = ToSet(subscribers[item])  BY <1>1 DEF Subscribed
<1>5. StatusTypes  BY <1>1, <1>2, <1>3, <1>4 DEF StatusTypes
<1>6. Reached
    <2>1. ASSUME NEW item \in Items, NEW i \in DOMAIN subscribers[item]
          PROVE  seen[item][subscribers[item][i]] = state[item]
        <3>1. subscribers[item][i] \in ToSet(subscribers[item])  BY DEF ToSet
        <3>2. QED  BY <1>1, <3>1
    <2>2. QED  BY <2>1 DEF Reached
<1>7. Promised /\ LatestStands /\ \A p \in DOMAIN recent : Attribute(p)
    BY <1>3 DEF Promised, LatestStands
<1>8. QED  BY <1>5, <1>6, <1>7 DEF StatusInv

(* Whatever frames cross, and whoever is removed or raises: what the handlers
   still have to say is accounted for, and who has not been told will be.      *)
THEOREM StatusInductive == SSpec => []StatusInv
<1>1. SInit => StatusInv  BY InitInv
<1>2. ASSUME StatusInv, [SNext]_svars PROVE StatusInv'
    <2>1. CASE Frame  BY <1>2, <2>1, FrameKeeps
    <2>2. CASE Unsubscribe  BY <1>2, <2>2, UnsubscribeKeeps
    <2>3. CASE Subscribe  BY <1>2, <2>3, SubscribeKeeps
    <2>4. ASSUME NEW t \in DOMAIN tasks, Apply(t) \/ Finish(t) \/ Call(t) \/ Raise(t) \/ Resume(t)
          PROVE  StatusInv'
        BY <1>2, <2>4, ApplyKeeps, FinishKeeps, CallKeeps, RaiseKeeps, ResumeKeeps
    <2>5. CASE UNCHANGED svars
        <3>1. UNCHANGED <<type, state, subscribers, tasks, running, recent, seen, missed, troubles>>
            BY <2>5 DEF svars
        <3>2. StatusTypes /\ Reached  BY <1>2 DEF StatusInv
        <3>3. Promised' /\ LatestStands' /\ \A p \in DOMAIN recent' : Attribute(p)'  BY <1>2, <3>1, SaysKept
        <3>4. StatusTypes'  BY <3>1, <3>2, SameType DEF StatusTypes
        <3>5. Reached'  BY <3>1, <3>2 DEF Reached, Items
        <3>6. QED  BY <3>3, <3>4, <3>5 DEF StatusInv
    <2>6. QED  BY <1>2, <2>1, <2>2, <2>3, <2>4, <2>5 DEF SNext
<1>3. QED  BY <1>1, <1>2, PTL DEF SSpec

(* update() of channels and properties in handlers that suspend between two of
   them: an attribute nobody is about to set is what the last frame about it said,
   or one whose handler was overtaken.                                         *)
THEOREM LatestFrameStands == SSpec => []LatestStands
<1>1. StatusInv => LatestStands  BY DEF StatusInv
<1>2. QED  BY <1>1, StatusInductive, PTL

(* status_update() walks a list that is changed under it: who is still subscribed
   when all is quiet has seen what the channel has, but for those it skipped.    *)
THEOREM SubscribersInformed == SSpec => []Informed
<1>1. StatusInv => Informed
    <2> SUFFICES ASSUME StatusInv, \A t \in DOMAIN tasks : tasks[t].item = None /\ tasks[t].todo = <<>>,
                        NEW item \in Items, NEW s \in ToSet(subscribers[item])
                 PROVE  seen[item][s] = state[item] \/ <<item, s>> \in missed
        BY DEF Informed
    <2>1. StatusTypes /\ Reached  BY DEF StatusInv
    <2>2. PICK i \in DOMAIN subscribers[item] : s = subscribers[item][i]  BY DEF ToSet
    <2>3. None \notin Items  BY <2>1, StatusAssumption DEF StatusTypes, Items
    <2>4. \A t \in DOMAIN tasks : tasks[t].item # item  BY <2>3
    <2>5. QED  BY <2>1, <2>2, <2>4 DEF Reached
<1>2. QED  BY <1>1, StatusInductive, PTL

=============================================================================
