------------------------- MODULE TempSettings_proofs -------------------------
(***************************************************************************)
(* Proofs about TempSettings, for any callers, parts, settings and values, *)
(* and any number of calls and lost messages.                              *)
(*                                                                         *)
(* The lock lets one refresh wait at a time, and what it waits for is what *)
(* is not loaded (Turns); so whoever writes a part has heard all of it     *)
(* (Heard), and values nobody said do not come up.  While no message was   *)
(* lost, no refresh gave up on one and no value was refused, the answers   *)
(* under way are those waited for (Flow), nothing is written beside them,  *)
(* and the last write under way, or else the module, has of each setting   *)
(* what was asked for (Due).                                               *)
(***************************************************************************)
EXTENDS TempSettings, SequenceTheorems, FiniteSetTheorems, TLAPS

N == Cardinality(Parts)

Values == UNION {Said(k) : k \in Keys}

(* What a part may say. *)
Sayings(p) == {v \in [Carried(p) -> Values] : \A k \in Carried(p) : v[k] \in Said(k)}
Writes     == {m \in [kind : {"write"}, part : Parts, values : UNION {Sayings(p) : p \in Parts}] :
                  m.values \in Sayings(m.part)}
Messages   == {Request} \cup Writes
Replies    == {m \in [part : Parts, values : UNION {Sayings(p) : p \in Parts}] :
                  m.values \in Sayings(m.part)}

TSTypes ==
    /\ cache \in [Keys -> Values \cup {None, 0}] /\ loadedParts \subseteq Parts /\ waiting \subseteq Parts
    /\ lock \in Seq(Callers) /\ pc \in [Callers -> {"idle", "queued", "waiting"}]
    /\ call \in [Callers -> Calls \cup {Idle}]
    /\ toModule \in Seq(Messages) /\ fromModule \in Seq(Replies)
    /\ store \in [Own -> Values] /\ asked \in [Own -> Values] /\ lost \in Nat

(* One refresh waits at a time: the first in line; the parts are loaded or waited for. *)
Turns ==
    /\ loadedParts \cap waiting = {}
    /\ waiting # {} => \E c \in Callers : pc[c] = "waiting"
    /\ \A c \in Callers : pc[c] = "waiting" => /\ lock # <<>> /\ lock[1] = c
                                               /\ Parts \subseteq loadedParts \cup waiting
    /\ \A c \in Callers : pc[c] = "queued" => \E i \in 1 .. Len(lock) : lock[i] = c
    /\ \A c \in Callers : pc[c] # "idle" /\ call[c].op = "set" => PartOf(call[c].key) \in Parts

(* The settings of a loaded part are known, and what is known somebody said. *)
Heard ==
    /\ \A k \in Own : cache[k] \in Said(k) \cup {None} /\ store[k] \in Said(k)
    /\ \A p \in loadedParts : \A k \in Carried(p) : cache[k] # None

Calm == lost = 0 /\ ~stray /\ ~refused

(* The request waited for is the last message to the module. *)
Asking == /\ toModule # <<>> /\ toModule[Len(toModule)].kind = "request"
          /\ \A i \in 1 .. Len(toModule) - 1 : toModule[i].kind = "write"
          /\ fromModule = <<>> /\ waiting = Parts

(* The last parts are under way, they say what was asked for, and nothing else is. *)
Answering == /\ \A i \in 1 .. Len(toModule) : toModule[i].kind = "write"
             /\ Len(fromModule) <= N /\ waiting = N - Len(fromModule) + 1 .. N
             /\ \A i \in 1 .. Len(fromModule) :
                   /\ fromModule[i].part = N - Len(fromModule) + i
                   /\ \A k \in Carried(fromModule[i].part) : fromModule[i].values[k] = asked[k]
             /\ fromModule # <<>> => toModule = <<>>

Flow == Asking \/ Answering

(* What message m says of setting k. *)
Tells(m, k) == m.kind = "write" /\ k \in DOMAIN m.values

(* The last message of q that says something of k, or what is stored in s, is v. *)
Due(q, s, k, v) ==
    \/ \E i \in 1 .. Len(q) : /\ Tells(q[i], k) /\ q[i].values[k] = v
                              /\ \A j \in i + 1 .. Len(q) : ~Tells(q[j], k)
    \/ (\A i \in 1 .. Len(q) : ~Tells(q[i], k)) /\ s = v

InStep == /\ Flow
          /\ \A k \in Own : Due(toModule, store[k], k, asked[k])
          /\ \A p \in loadedParts : \A k \in Carried(p) : cache[k] = asked[k]

TSInv == TSTypes /\ Turns /\ Heard /\ (Calm => InStep)
-----------------------------------------------------------------------------
(* A module has the parts from the first to the last it names, at most four. *)
LEMMA PartsAre ==
    /\ N \in 1 .. 4 /\ Parts = 1 .. N /\ 1 \in Parts
<1>1. Parts \subseteq 1 .. 4 /\ 1 \in Parts  BY DEF Parts
<1>2. IsFiniteSet(1 .. 4)
    <2>1. 1 \in Int /\ 4 \in Int  OBVIOUS
    <2>2. QED  BY <2>1, FS_Interval, Zenon
<1>3. IsFiniteSet(Parts)  BY <1>1, <1>2, FS_Subset
<1>4. N \in Nat  BY <1>3, FS_CardinalityType DEF N
<1>5. Parts = 1 .. N  BY SettingsAssumption DEF N
<1>6. 1 <= N /\ N \in 1 .. N  BY <1>1, <1>4, <1>5
<1>7. N \in Parts  BY <1>5, <1>6
<1>8. N \in 1 .. 4  BY <1>1, <1>7
<1>9. QED  BY <1>1, <1>5, <1>8

(* No two parts share a field, so that each setting has its part. *)
LEMMA PartIs ==
    /\ DOMAIN Fields = 1 .. 4
    /\ \A k : \A p \in 1 .. 4 : k \in Fields[p] => PartOf(k) = p
    /\ \A k \in Keys : PartOf(k) \in 1 .. 4 /\ k \in Fields[PartOf(k)]
<1>1. DOMAIN Fields = 1 .. 4  BY DEF Fields
<1>2. ASSUME NEW k, NEW p \in 1 .. 4, NEW q \in 1 .. 4, k \in Fields[p], k \in Fields[q]
      PROVE  p = q
    <2>1. /\ Fields[1] = {"current_set", "comfort_heating", "day_heating", "night_heating",
                          "antifreeze_heating", "temp_difference", "hysteresis"}
          /\ Fields[2] = {"comfort_cooling", "day_cooling", "night_cooling", "safe_cooling",
                          "default_sleep_timer", "autosend_interval"}
          /\ Fields[3] = {"alarm_low", "alarm_high", "cool_lower", "heat_upper", "calibration",
                          "slave_or_zone", "calibration_gain"}
          /\ Fields[4] = {"min_switching_time", "pump_delayed_on", "pump_delayed_off", "alarm_2",
                          "alarm_3", "heat_lower", "cool_upper"}
        BY DEF Fields
    <2>2. p \in {1, 2, 3, 4} /\ q \in {1, 2, 3, 4}  OBVIOUS
    <2>3. QED  BY <1>2, <2>1, <2>2
<1>3. ASSUME NEW k, NEW p \in 1 .. 4, k \in Fields[p] PROVE PartOf(k) = p
    <2>1. PartOf(k) \in 1 .. 4 /\ k \in Fields[PartOf(k)]  BY <1>1, <1>3 DEF PartOf
    <2>2. QED  BY <1>2, <1>3, <2>1
<1>4. ASSUME NEW k \in Keys PROVE PartOf(k) \in 1 .. 4 /\ k \in Fields[PartOf(k)]
    <2>1. PICK p \in 1 .. 4 : k \in Fields[p]  BY SettingsAssumption
    <2>2. QED  BY <1>3, <2>1
<1>5. QED  BY <1>1, <1>3, <1>4

(* The settings that a part carries are its own and nobody else's. *)
LEMMA CarriedIs ==
    /\ \A p \in Parts : \A k \in Carried(p) : k \in Own /\ k \in Keys /\ k \in Fields[p] /\ PartOf(k) = p
    /\ \A k \in Own : k \in Keys /\ PartOf(k) \in Parts /\ k \in Carried(PartOf(k))
<1>1. ASSUME NEW p \in Parts, NEW k \in Carried(p)
      PROVE  k \in Own /\ k \in Keys /\ k \in Fields[p] /\ PartOf(k) = p
    <2>1. k \in Keys /\ k \in Fields[p] /\ p \in 1 .. 4  BY PartsAre DEF Carried
    <2>2. QED  BY <2>1, PartIs DEF Own
<1>2. QED  BY <1>1 DEF Own

(* What is said of a setting is a value, its value in the beginning among
   them.                                                                     *)
LEMMA SaidIs ==
    /\ \A k \in Keys : Said(k) \subseteq Values /\ None \notin Said(k) /\ Start \in Said(k)
    /\ \A c \in Changes : c[1] \in Keys /\ c[2] \in Said(c[1])
<1>1. \A k \in Keys : Said(k) \subseteq Values /\ None \notin Said(k) /\ Start \in Said(k)
    BY SettingsAssumption DEF Values, Said
<1>2. \A c \in Changes : c[1] \in Keys /\ c[2] \in Said(c[1])  BY SettingsAssumption DEF Said
<1>3. QED  BY <1>1, <1>2

(* What kinds of messages there are, and what they carry. *)
LEMMA MessagesAre ==
    /\ Request \in Messages /\ Request.kind = "request"
    /\ \A m \in Messages :
          \/ m = Request
          \/ m.kind = "write" /\ m.part \in Parts /\ m.values \in Sayings(m.part)
    /\ \A p \in Parts : \A v \in Sayings(p) : Write(p, v) \in Messages
                                              /\ Write(p, v).kind = "write" /\ Write(p, v).values = v
    /\ \A f \in Replies : f.part \in Parts /\ f.values \in Sayings(f.part)
<1>1. Request \in Messages /\ Request.kind = "request"  BY DEF Messages, Request
<1>2. \A m \in Messages : \/ m = Request
                          \/ m.kind = "write" /\ m.part \in Parts /\ m.values \in Sayings(m.part)
    BY DEF Messages, Writes
<1>3. ASSUME NEW p \in Parts, NEW v \in Sayings(p)
      PROVE  Write(p, v) \in Messages /\ Write(p, v).kind = "write" /\ Write(p, v).values = v
    <2>1. v \in UNION {Sayings(q) : q \in Parts}  BY <1>3
    <2>2. QED  BY <1>3, <2>1 DEF Write, Messages, Writes
<1>4. \A f \in Replies : f.part \in Parts /\ f.values \in Sayings(f.part)  BY DEF Replies
<1>5. QED  BY <1>1, <1>2, <1>3, <1>4

(* Calls name settings, and values that were said of them. *)
LEMMA CallsAre ==
    ASSUME NEW j \in Calls \cup {Idle}, j.op = "set"
    PROVE  j.key \in Keys /\ j.value \in Said(j.key)
<1>1. PICK c \in Changes : j = [op |-> "set", key |-> c[1], value |-> c[2]]
    BY DEF Calls, Idle
<1>2. QED  BY <1>1, SaidIs
-----------------------------------------------------------------------------
(* A message that is taken has been stored. *)
LEMMA DueTail ==
    ASSUME NEW S, NEW q \in Seq(S), q # <<>>, NEW s, NEW t, NEW k, NEW v, Due(q, s, k, v),
           t = IF Tells(q[1], k) THEN q[1].values[k] ELSE s
    PROVE  Due(Tail(q), t, k, v)
<1> DEFINE r == Tail(q)
<1>1. /\ Len(r) = Len(q) - 1 /\ Len(q) >= 1 /\ Len(q) \in Nat
      /\ \A i \in 1 .. Len(r) : r[i] = q[i + 1]
    OBVIOUS
<1> HIDE DEF r
<1>2. ASSUME NEW i \in 1 .. Len(q), Tells(q[i], k), q[i].values[k] = v,
             \A j \in i + 1 .. Len(q) : ~Tells(q[j], k)
      PROVE  Due(r, t, k, v)
    <2>1. CASE i = 1
        <3>1. ASSUME NEW j \in 1 .. Len(r) PROVE ~Tells(r[j], k)
            <4>1. j + 1 \in i + 1 .. Len(q)  BY <1>1, <2>1
            <4>2. r[j] = q[j + 1]  BY <1>1
            <4>3. QED  BY <1>2, <4>1, <4>2
        <3>2. t = v  BY <1>2, <2>1
        <3>3. QED  BY <3>1, <3>2 DEF Due
    <2>2. CASE i # 1
        <3>1. i - 1 \in 1 .. Len(r) /\ r[i - 1] = q[i]  BY <1>1, <2>2
        <3>2. ASSUME NEW j \in (i - 1) + 1 .. Len(r) PROVE ~Tells(r[j], k)
            <4>1. j \in 1 .. Len(r) /\ j + 1 \in i + 1 .. Len(q)  BY <1>1, <2>2
            <4>2. r[j] = q[j + 1]  BY <1>1, <4>1
            <4>3. QED  BY <1>2, <4>1, <4>2
        <3>3. QED  BY <1>2, <3>1, <3>2 DEF Due
    <2>3. QED  BY <2>1, <2>2
<1>3. ASSUME \A i \in 1 .. Len(q) : ~Tells(q[i], k), s = v
      PROVE  Due(r, t, k, v)
    <2>1. ~Tells(q[1], k) /\ \A j \in 1 .. Len(r) : ~Tells(r[j], k)  BY <1>1, <1>3
    <2>2. QED  BY <1>3, <2>1 DEF Due
<1>4. QED  BY <1>2, <1>3 DEF Due, r

(* A message sent is what counts then, if it says something of the setting. *)
LEMMA DueAppend ==
    ASSUME NEW S, NEW q \in Seq(S), NEW m \in S, NEW s, NEW k, NEW v,
           IF Tells(m, k) THEN m.values[k] = v ELSE Due(q, s, k, v)
    PROVE  Due(Append(q, m), s, k, v)
<1> DEFINE r == Append(q, m)
<1>1. /\ Len(r) = Len(q) + 1 /\ Len(q) \in Nat /\ r[Len(q) + 1] = m
      /\ \A i \in 1 .. Len(q) : r[i] = q[i]
    OBVIOUS
<1> HIDE DEF r
<1>2. CASE Tells(m, k)
    <2>1. Len(q) + 1 \in 1 .. Len(r) /\ \A j \in (Len(q) + 1) + 1 .. Len(r) : ~Tells(r[j], k)  BY <1>1
    <2>2. QED  BY <1>1, <1>2, <2>1 DEF Due, r
<1>3. CASE ~Tells(m, k)
    <2>1. Due(q, s, k, v)  BY <1>3
    <2>2. ASSUME NEW i \in 1 .. Len(q), Tells(q[i], k), q[i].values[k] = v,
                 \A j \in i + 1 .. Len(q) : ~Tells(q[j], k)
          PROVE  Due(r, s, k, v)
        <3>1. i \in 1 .. Len(r) /\ r[i] = q[i]  BY <1>1
        <3>2. \A j \in i + 1 .. Len(r) : ~Tells(r[j], k)  BY <1>1, <1>3, <2>2
        <3>3. QED  BY <2>2, <3>1, <3>2 DEF Due
    <2>3. ASSUME \A i \in 1 .. Len(q) : ~Tells(q[i], k), s = v
          PROVE  Due(r, s, k, v)
        <3>1. \A j \in 1 .. Len(r) : ~Tells(r[j], k)  BY <1>1, <1>3, <2>3
        <3>2. QED  BY <2>3, <3>1 DEF Due
    <2>4. QED  BY <2>1, <2>2, <2>3 DEF Due, r
<1>4. QED  BY <1>2, <1>3

(* When no write is under way, the module has it. *)
LEMMA DueNone ==
    ASSUME NEW q, NEW s, NEW k, NEW v, Due(q, s, k, v), \A i \in 1 .. Len(q) : ~Tells(q[i], k)
    PROVE  s = v
BY DEF Due
-----------------------------------------------------------------------------
(* When all parts are loaded nothing is waited for, and nothing but writes is
   under way.                                                                *)
LEMMA NothingWaited ==
    ASSUME TSTypes, Turns, waiting = {}
    PROVE  Flow => fromModule = <<>> /\ \A i \in 1 .. Len(toModule) : toModule[i].kind = "write"
<1>1. ~Asking  BY PartsAre DEF Asking
<1>2. ASSUME Answering PROVE fromModule = <<>>
    <2>1. fromModule \in Seq(Replies)  BY DEF TSTypes
    <2>2. Len(fromModule) \in Nat /\ N \in Nat  BY <2>1, PartsAre
    <2>3. {} = N - Len(fromModule) + 1 .. N  BY <1>2 DEF Answering
    <2>4. N \notin N - Len(fromModule) + 1 .. N  BY <2>3
    <2>5. Len(fromModule) = 0  BY <2>2, <2>4
    <2>6. QED  BY <2>1, <2>5, EmptySeq
<1>3. QED  BY <1>1, <1>2 DEF Flow, Answering

(* Nobody waits for parts when all are loaded. *)
LEMMA LoadedWaitsNot ==
    ASSUME TSTypes, Turns, IsLoaded
    PROVE  waiting = {}
BY DEF TSTypes, Turns, IsLoaded

(* The call goes on when all parts are loaded: what set_value() writes are the
   values of the part that are known, with the one it was given.             *)
LEMMA ProceedStep ==
    ASSUME TSInv, NEW c \in Callers, Proceed(c), IsLoaded, call' \in [Callers -> Calls \cup {Idle}],
           call'[c].op = "set" => PartOf(call'[c].key) \in Parts,
           UNCHANGED <<loadedParts, waiting, fromModule, store, lost, stray>>
    PROVE  /\ cache' \in [Keys -> Values \cup {None, 0}] /\ toModule' \in Seq(Messages)
           /\ asked' \in [Own -> Values] /\ Heard' /\ (Calm' => InStep')
<1>1. /\ cache \in [Keys -> Values \cup {None, 0}] /\ loadedParts \subseteq Parts
      /\ toModule \in Seq(Messages) /\ fromModule \in Seq(Replies)
      /\ store \in [Own -> Values] /\ asked \in [Own -> Values]
    BY DEF TSInv, TSTypes
<1>2. Heard /\ (Calm => InStep) /\ TSTypes /\ Turns /\ Parts = loadedParts  BY <1>1 DEF TSInv, IsLoaded
<1>3. CASE call'[c].op # "set"
    <2>1. UNCHANGED <<cache, toModule, asked, refused>>  BY <1>3 DEF Proceed, NoWrite
    <2>2. Heard'  BY <1>2, <2>1 DEF Heard
    <2>3. Calm' => Calm  BY <2>1 DEF Calm
    <2>4. InStep => InStep'  BY <2>1 DEF InStep, Flow, Asking, Answering
    <2>5. QED  BY <1>1, <1>2, <2>1, <2>2, <2>3, <2>4
<1>4. CASE call'[c].op = "set"
    <2> DEFINE k   == call'[c].key
               v   == call'[c].value
               p   == PartOf(k)
               new == [cache EXCEPT ![k] = v]
               out == PartValues(new, p)
    <2>1. SetAndWrite(c)  BY <1>4 DEF Proceed
    <2>2. /\ cache' = new
          /\ IF \A f \in DOMAIN out : Fits(f, out[f])
             THEN /\ toModule' = Append(toModule, Write(p, out)) /\ refused' = refused
                  /\ asked' = IF k \in Own THEN [asked EXCEPT ![k] = v] ELSE asked
             ELSE refused' = TRUE /\ UNCHANGED <<toModule, asked>>
        BY <2>1 DEF SetAndWrite
    <2>3. call'[c] \in Calls \cup {Idle}  OBVIOUS
    <2>4. k \in Keys /\ v \in Said(k) /\ p \in Parts  BY <1>4, <2>3, CallsAre
    <2>5. Said(k) \subseteq Values /\ None \notin Said(k)  BY <2>4, SaidIs
    <2> HIDE DEF k, v
    <2>6. new \in [Keys -> Values \cup {None, 0}] /\ \A x \in Keys : new[x] = IF x = k THEN v ELSE cache[x]
        BY <1>1, <2>4, <2>5
    <2> HIDE DEF new
    <2>7. ASSUME NEW x \in Own PROVE new[x] \in Said(x)
        <3>1. x \in Keys /\ PartOf(x) \in loadedParts /\ x \in Carried(PartOf(x))  BY <1>2, CarriedIs
        <3>2. cache[x] \in Said(x)  BY <1>2, <3>1 DEF Heard
        <3>3. QED  BY <2>4, <2>6, <3>1, <3>2
    <2>8. ASSUME NEW x \in Own PROVE new[x] # None
        <3>1. x \in Keys  BY CarriedIs
        <3>2. QED  BY <2>7, <3>1, SaidIs
    <2>9. ASSUME NEW x \in Carried(p) PROVE x \in Own /\ out[x] = new[x]
        <3>1. x \in Own  BY <2>4, CarriedIs
        <3>2. QED  BY <2>8, <3>1 DEF PartValues
    <2>10. DOMAIN out = Carried(p) /\ out = [x \in Carried(p) |-> out[x]]  BY DEF PartValues
    <2> HIDE DEF out, p
    <2>11. out \in Sayings(p)
        <3>1. \A x \in Carried(p) : out[x] \in Said(x) /\ out[x] \in Values
            BY <2>7, <2>9, CarriedIs, SaidIs
        <3>2. out \in [Carried(p) -> Values]  BY <2>10, <3>1
        <3>3. QED  BY <3>1, <3>2 DEF Sayings
    <2>12. Heard'
        <3>1. \A x \in Own : new[x] \in Said(x) \cup {None} /\ store[x] \in Said(x)  BY <1>2, <2>7 DEF Heard
        <3>2. \A q \in loadedParts : \A x \in Carried(q) : new[x] # None  BY <1>2, <2>8, CarriedIs
        <3>3. QED  BY <2>2, <3>1, <3>2 DEF Heard
    <2>13. CASE ~\A f \in DOMAIN out : Fits(f, out[f])
        <3>1. refused' = TRUE /\ toModule' = toModule /\ asked' = asked  BY <2>2, <2>13
        <3>2. ~Calm'  BY <3>1 DEF Calm
        <3>3. QED  BY <1>1, <2>2, <2>6, <2>12, <3>1, <3>2
    <2>14. CASE \A f \in DOMAIN out : Fits(f, out[f])
        <3> DEFINE m == Write(p, out)
        <3>1. m \in Messages /\ m.kind = "write" /\ m.values = out  BY <2>4, <2>11, MessagesAre
        <3>2. toModule' = Append(toModule, m) /\ refused' = refused
              /\ asked' = IF k \in Own THEN [asked EXCEPT ![k] = v] ELSE asked
            BY <2>2, <2>14
        <3> HIDE DEF m
        <3>3. toModule' \in Seq(Messages)  BY <1>1, <3>1, <3>2
        <3>4. asked' \in [Own -> Values] /\ \A x \in Own : asked'[x] = IF x = k THEN v ELSE asked[x]
            BY <1>1, <2>4, <2>5, <3>2
        <3>5. ASSUME Calm' PROVE InStep'
            <4>1. InStep  BY <1>2, <3>2, <3>5 DEF Calm
            <4>2. fromModule = <<>> /\ \A i \in 1 .. Len(toModule) : toModule[i].kind = "write"
                BY <1>2, <4>1, LoadedWaitsNot, NothingWaited DEF InStep
            <4>3. /\ Len(toModule') = Len(toModule) + 1 /\ Len(toModule) \in Nat
                  /\ toModule'[Len(toModule) + 1] = m
                  /\ \A i \in 1 .. Len(toModule) : toModule'[i] = toModule[i]
                BY <1>1, <3>1, <3>2
            <4>4. \A i \in 1 .. Len(toModule') : toModule'[i].kind = "write"  BY <3>1, <4>2, <4>3
            <4>5. Answering'
                <5>1. waiting = {} /\ Len(fromModule) = 0 /\ N \in Nat  BY <1>2, <4>2, LoadedWaitsNot, PartsAre
                <5>2. Len(fromModule) <= N /\ waiting = N - Len(fromModule) + 1 .. N  BY <5>1
                <5>3. QED  BY <4>2, <4>4, <5>1, <5>2 DEF Answering, N
            <4>6. ASSUME NEW x \in Own PROVE Due(toModule', store[x], x, asked'[x])
                <5>1. CASE x \in Carried(p)
                    <6>1. Tells(m, x)  BY <2>10, <3>1, <5>1 DEF Tells
                    <6>2. cache[x] = asked[x]  BY <1>2, <2>4, <4>1, <5>1 DEF InStep
                    <6>3. m.values[x] = asked'[x]  BY <2>6, <2>9, <3>1, <3>4, <5>1, <6>2, CarriedIs
                    <6>4. QED  BY <1>1, <3>1, <3>2, <6>1, <6>3, DueAppend
                <5>2. CASE x \notin Carried(p)
                    <6>1. ~Tells(m, x)  BY <2>10, <3>1, <5>2 DEF Tells
                    <6>2. x # k  BY <5>2, CarriedIs DEF p
                    <6>3. Due(toModule, store[x], x, asked[x])  BY <4>1 DEF InStep
                    <6>4. QED  BY <1>1, <3>1, <3>2, <3>4, <6>1, <6>2, <6>3, DueAppend
                <5>3. QED  BY <5>1, <5>2
            <4>7. ASSUME NEW q \in loadedParts, NEW x \in Carried(q) PROVE new[x] = asked'[x]
                <5>1. x \in Own /\ x \in Keys /\ cache[x] = asked[x]  BY <1>2, <4>1, <4>7, CarriedIs DEF InStep
                <5>2. QED  BY <2>6, <3>4, <5>1
            <4>8. QED  BY <2>2, <4>5, <4>6, <4>7 DEF InStep, Flow
        <3>6. QED  BY <2>2, <2>6, <2>12, <3>3, <3>4, <3>5
    <2>15. QED  BY <2>13, <2>14
<1>5. QED  BY <1>3, <1>4

(* A refresh asks, with the lock and nobody else waiting: the request is the last
   message to the module, and nothing counts as loaded.                      *)
LEMMA AskStep ==
    ASSUME TSInv, NEW c \in Callers, Ask(c), \A d \in Callers : pc[d] # "waiting",
           UNCHANGED <<fromModule, store, lost, stray>>
    PROVE  /\ toModule' \in Seq(Messages) /\ pc' = [pc EXCEPT ![c] = "waiting"]
           /\ waiting' = Parts /\ loadedParts' = {} /\ UNCHANGED <<cache, asked>>
           /\ Heard' /\ (Calm' => InStep')
<1>1. /\ toModule \in Seq(Messages) /\ Heard /\ (Calm => InStep) /\ TSTypes /\ Turns
    BY DEF TSInv, TSTypes
<1>2. /\ waiting' = Parts /\ loadedParts' = {} /\ toModule' = Append(toModule, Request)
      /\ pc' = [pc EXCEPT ![c] = "waiting"] /\ UNCHANGED <<cache, asked, refused>>
    BY DEF Ask
<1>3. toModule' \in Seq(Messages)  BY <1>1, <1>2, MessagesAre
<1>4. Heard'  BY <1>1, <1>2 DEF Heard
<1>5. ASSUME Calm' PROVE InStep'
    <2>1. InStep  BY <1>1, <1>2, <1>5 DEF Calm
    <2>2. waiting = {}  BY <1>1 DEF Turns
    <2>3. fromModule = <<>> /\ \A i \in 1 .. Len(toModule) : toModule[i].kind = "write"
        BY <1>1, <2>1, <2>2, NothingWaited DEF InStep
    <2>4. /\ Len(toModule') = Len(toModule) + 1 /\ Len(toModule) \in Nat
          /\ toModule'[Len(toModule) + 1] = Request
          /\ \A i \in 1 .. Len(toModule) : toModule'[i] = toModule[i]
          /\ toModule' # <<>>
        BY <1>1, <1>2, MessagesAre
    <2>5. toModule'[Len(toModule')].kind = "request"  BY <2>4, MessagesAre
    <2>6. \A i \in 1 .. Len(toModule') - 1 : toModule'[i].kind = "write"  BY <2>3, <2>4
    <2>7. Asking'  BY <1>2, <2>3, <2>4, <2>5, <2>6 DEF Asking
    <2>8. ASSUME NEW x \in Own PROVE Due(toModule', store[x], x, asked[x])
        <3>1. ~Tells(Request, x)  BY DEF Tells, Request
        <3>2. Due(toModule, store[x], x, asked[x])  BY <2>1 DEF InStep
        <3>3. QED  BY <1>1, <1>2, <3>1, <3>2, DueAppend, MessagesAre
    <2>9. QED  BY <1>2, <2>7, <2>8 DEF InStep, Flow
<1>6. QED  BY <1>2, <1>3, <1>4, <1>5

(* Who has the lock leaves, and nothing is waited for. *)
LEMMA TurnsLeave ==
    ASSUME TSTypes, Turns, NEW c \in Callers, lock # <<>>, lock[1] = c, lock' = Tail(lock),
           pc' = [pc EXCEPT ![c] = "idle"], waiting' = {}, UNCHANGED <<call, loadedParts>>
    PROVE  Turns' /\ lock' \in Seq(Callers)
<1>1. lock \in Seq(Callers) /\ pc \in [Callers -> {"idle", "queued", "waiting"}]  BY DEF TSTypes
<1>2. /\ Len(lock') = Len(lock) - 1 /\ Len(lock) >= 1 /\ Len(lock) \in Nat /\ lock' \in Seq(Callers)
      /\ \A i \in 1 .. Len(lock') : lock'[i] = lock[i + 1]
    BY <1>1
<1>3. \A d \in Callers : pc'[d] = IF d = c THEN "idle" ELSE pc[d]  BY <1>1
<1>4. \A d \in Callers : pc'[d] # "waiting"  BY <1>3 DEF Turns
<1>5. ASSUME NEW d \in Callers, pc'[d] = "queued" PROVE \E i \in 1 .. Len(lock') : lock'[i] = d
    <2>1. d # c /\ pc[d] = "queued"  BY <1>3, <1>5
    <2>2. PICK i \in 1 .. Len(lock) : lock[i] = d  BY <2>1 DEF Turns
    <2>3. i # 1  BY <2>1, <2>2
    <2>4. i - 1 \in 1 .. Len(lock') /\ lock'[i - 1] = lock[i]  BY <1>2, <2>3
    <2>5. QED  BY <2>2, <2>4
<1>6. \A d \in Callers : pc'[d] # "idle" /\ call[d].op = "set" => PartOf(call[d].key) \in Parts
    BY <1>3 DEF Turns
<1>7. QED  BY <1>2, <1>4, <1>5, <1>6 DEF Turns

(* Who has the lock begins to wait, for all parts. *)
LEMMA TurnsWait ==
    ASSUME TSTypes, Turns, NEW c \in Callers, \A d \in Callers : pc[d] # "waiting", lock' \in Seq(Callers),
           lock' # <<>>, lock'[1] = c, \A i \in 1 .. Len(lock) : i \in 1 .. Len(lock') /\ lock'[i] = lock[i],
           pc' = [pc EXCEPT ![c] = "waiting"], waiting' = Parts, loadedParts' = {},
           \A d \in Callers \ {c} : call'[d] = call[d],
           call'[c].op = "set" => PartOf(call'[c].key) \in Parts
    PROVE  Turns'
<1>1. lock \in Seq(Callers) /\ pc \in [Callers -> {"idle", "queued", "waiting"}]  BY DEF TSTypes
<1>2. \A d \in Callers : pc'[d] = IF d = c THEN "waiting" ELSE pc[d]  BY <1>1
<1>3. \A d \in Callers : pc'[d] = "waiting" => d = c  BY <1>2
<1>4. pc'[c] = "waiting"  BY <1>2
<1>5. ASSUME NEW d \in Callers, pc'[d] = "queued" PROVE \E i \in 1 .. Len(lock') : lock'[i] = d
    <2>1. pc[d] = "queued"  BY <1>2, <1>5
    <2>2. PICK i \in 1 .. Len(lock) : lock[i] = d  BY <2>1 DEF Turns
    <2>3. QED  BY <2>2
<1>6. \A d \in Callers : pc'[d] # "idle" /\ call'[d].op = "set" => PartOf(call'[d].key) \in Parts
    BY <1>2 DEF Turns
<1>7. QED  BY <1>3, <1>4, <1>5, <1>6 DEF Turns
-----------------------------------------------------------------------------
(* A call begins. *)
LEMMA BeginStep ==
    ASSUME TSInv, NEW c \in Callers, Begin(c)
    PROVE  TSInv'
<1>1. /\ cache \in [Keys -> Values \cup {None, 0}] /\ loadedParts \subseteq Parts /\ waiting \subseteq Parts
      /\ lock \in Seq(Callers) /\ pc \in [Callers -> {"idle", "queued", "waiting"}]
      /\ call \in [Callers -> Calls \cup {Idle}] /\ toModule \in Seq(Messages) /\ fromModule \in Seq(Replies)
      /\ store \in [Own -> Values] /\ asked \in [Own -> Values] /\ lost \in Nat
    BY DEF TSInv, TSTypes
<1>2. Heard /\ (Calm => InStep) /\ TSTypes /\ Turns  BY DEF TSInv
<1>3. pc[c] = "idle" /\ UNCHANGED <<fromModule, store, lost, stray>>  BY DEF Begin
<1>4. PICK j \in Calls :
         /\ call' = [call EXCEPT ![c] = j]
         /\ IF j.op = "set" /\ PartOf(j.key) \notin Parts
            THEN NoWrite /\ UNCHANGED <<pc, lock, waiting, loadedParts>>
            ELSE IF j.op \in {"get", "set"} /\ IsLoaded
            THEN Proceed(c) /\ UNCHANGED <<lock, waiting, loadedParts>>
            ELSE IF lock # <<>>
            THEN /\ lock' = Append(lock, c) /\ pc' = [pc EXCEPT ![c] = "queued"]
                 /\ NoWrite /\ UNCHANGED <<waiting, loadedParts>>
            ELSE IF j.op = "load" /\ IsLoaded
            THEN NoWrite /\ UNCHANGED <<pc, lock, waiting, loadedParts>>
            ELSE Ask(c) /\ lock' = <<c>>
    BY DEF Begin
<1>5. /\ call' \in [Callers -> Calls \cup {Idle}] /\ call'[c] = j
      /\ \A d \in Callers \ {c} : call'[d] = call[d]
    BY <1>1, <1>4
<1>6. ASSUME NoWrite, UNCHANGED <<pc, lock, waiting, loadedParts>> PROVE TSInv'
    <2>1. UNCHANGED <<cache, toModule, asked, refused>>  BY <1>6 DEF NoWrite
    <2>2. TSTypes'  BY <1>1, <1>3, <1>5, <1>6, <2>1 DEF TSTypes
    <2>3. Turns'
        <3>1. \A d \in Callers : pc[d] # "idle" /\ call'[d].op = "set" => PartOf(call'[d].key) \in Parts
            BY <1>2, <1>3, <1>5 DEF Turns
        <3>2. QED  BY <1>2, <1>6, <3>1 DEF Turns
    <2>4. Heard' /\ (Calm' => InStep')
        BY <1>2, <1>3, <1>6, <2>1 DEF Heard, Calm, InStep, Flow, Asking, Answering
    <2>5. QED  BY <2>2, <2>3, <2>4 DEF TSInv
<1>7. ASSUME Proceed(c), IsLoaded, j.op = "set" => PartOf(j.key) \in Parts,
             UNCHANGED <<lock, waiting, loadedParts>>
      PROVE  TSInv'
    <2>1. /\ cache' \in [Keys -> Values \cup {None, 0}] /\ toModule' \in Seq(Messages)
          /\ asked' \in [Own -> Values] /\ Heard' /\ (Calm' => InStep')
        BY <1>3, <1>5, <1>7, ProceedStep
    <2>2. pc' = pc
        <3>1. pc' = [pc EXCEPT ![c] = "idle"]  BY <1>7 DEF Proceed
        <3>2. QED  BY <1>1, <1>3, <3>1
    <2>3. TSTypes'  BY <1>1, <1>3, <1>5, <1>7, <2>1, <2>2 DEF TSTypes
    <2>4. Turns'
        <3>1. \A d \in Callers : pc[d] # "idle" /\ call'[d].op = "set" => PartOf(call'[d].key) \in Parts
            BY <1>2, <1>3, <1>5 DEF Turns
        <3>2. QED  BY <1>2, <1>7, <2>2, <3>1 DEF Turns
    <2>5. QED  BY <2>1, <2>3, <2>4 DEF TSInv
<1>8. ASSUME lock # <<>>, lock' = Append(lock, c), pc' = [pc EXCEPT ![c] = "queued"], NoWrite,
             UNCHANGED <<waiting, loadedParts>>, j.op = "set" => PartOf(j.key) \in Parts
      PROVE  TSInv'
    <2>1. UNCHANGED <<cache, toModule, asked, refused>>  BY <1>8 DEF NoWrite
    <2>2. lock' \in Seq(Callers) /\ pc' \in [Callers -> {"idle", "queued", "waiting"}]  BY <1>1, <1>8
    <2>3. TSTypes'  BY <1>1, <1>3, <1>5, <1>8, <2>1, <2>2 DEF TSTypes
    <2>4. Turns'
        <3>1. /\ Len(lock') = Len(lock) + 1 /\ Len(lock) \in Nat /\ Len(lock) >= 1 /\ lock'[Len(lock) + 1] = c
              /\ lock' # <<>> /\ \A i \in 1 .. Len(lock) : lock'[i] = lock[i]
            BY <1>1, <1>8
        <3>2. \A d \in Callers : pc'[d] = IF d = c THEN "queued" ELSE pc[d]  BY <1>1, <1>8
        <3>3. waiting # {} => \E d \in Callers : pc'[d] = "waiting"  BY <1>2, <1>3, <3>2 DEF Turns
        <3>4. ASSUME NEW d \in Callers, pc'[d] = "waiting"
              PROVE  lock' # <<>> /\ lock'[1] = d /\ Parts \subseteq loadedParts \cup waiting
            BY <1>2, <3>1, <3>2, <3>4 DEF Turns
        <3>5. ASSUME NEW d \in Callers, pc'[d] = "queued" PROVE \E i \in 1 .. Len(lock') : lock'[i] = d
            <4>1. CASE d = c
                <5>1. Len(lock) + 1 \in 1 .. Len(lock')  BY <3>1
                <5>2. QED  BY <3>1, <4>1, <5>1
            <4>2. CASE d # c
                <5>1. PICK i \in 1 .. Len(lock) : lock[i] = d  BY <1>2, <3>2, <3>5, <4>2 DEF Turns
                <5>2. i \in 1 .. Len(lock') /\ lock'[i] = d  BY <3>1, <5>1
                <5>3. QED  BY <5>2
            <4>3. QED  BY <4>1, <4>2
        <3>6. \A d \in Callers : pc'[d] # "idle" /\ call'[d].op = "set" => PartOf(call'[d].key) \in Parts
            BY <1>2, <1>5, <1>8, <3>2 DEF Turns
        <3>7. QED  BY <1>2, <1>8, <3>3, <3>4, <3>5, <3>6 DEF Turns
    <2>5. Heard' /\ (Calm' => InStep')
        BY <1>2, <1>3, <1>8, <2>1 DEF Heard, Calm, InStep, Flow, Asking, Answering
    <2>6. QED  BY <2>3, <2>4, <2>5 DEF TSInv
<1>9. ASSUME Ask(c), lock = <<>>, lock' = <<c>>, j.op = "set" => PartOf(j.key) \in Parts PROVE TSInv'
    <2>1. \A d \in Callers : pc[d] # "waiting"  BY <1>2, <1>9 DEF Turns
    <2>2. /\ toModule' \in Seq(Messages) /\ pc' = [pc EXCEPT ![c] = "waiting"]
          /\ waiting' = Parts /\ loadedParts' = {} /\ UNCHANGED <<cache, asked>>
          /\ Heard' /\ (Calm' => InStep')
        BY <1>3, <1>9, <2>1, AskStep
    <2>3. /\ lock' \in Seq(Callers) /\ lock' # <<>> /\ lock'[1] = c
          /\ pc' \in [Callers -> {"idle", "queued", "waiting"}]
        BY <1>1, <1>9, <2>2
    <2>4. TSTypes'  BY <1>1, <1>3, <1>5, <2>2, <2>3 DEF TSTypes
    <2>5. \A i \in 1 .. Len(lock) : i \in 1 .. Len(lock') /\ lock'[i] = lock[i]  BY <1>9
    <2>6. Turns'  BY <1>2, <1>5, <1>9, <2>1, <2>2, <2>3, <2>5, TurnsWait
    <2>7. QED  BY <2>2, <2>4, <2>6 DEF TSInv
<1>10. QED  BY <1>4, <1>6, <1>7, <1>8, <1>9

(* The next in line has the lock. *)
LEMMA AcquireStep ==
    ASSUME TSInv, NEW c \in Callers, Acquire(c)
    PROVE  TSInv'
<1>1. /\ cache \in [Keys -> Values \cup {None, 0}] /\ loadedParts \subseteq Parts /\ waiting \subseteq Parts
      /\ lock \in Seq(Callers) /\ pc \in [Callers -> {"idle", "queued", "waiting"}]
      /\ call \in [Callers -> Calls \cup {Idle}] /\ toModule \in Seq(Messages) /\ fromModule \in Seq(Replies)
      /\ store \in [Own -> Values] /\ asked \in [Own -> Values] /\ lost \in Nat
    BY DEF TSInv, TSTypes
<1>2. Heard /\ (Calm => InStep) /\ TSTypes /\ Turns  BY DEF TSInv
<1>3. pc[c] = "queued" /\ Head(lock) = c /\ UNCHANGED <<call, fromModule, store, lost, stray>>  BY DEF Acquire
<1>4. lock # <<>> /\ lock[1] = c
    <2>1. PICK i \in 1 .. Len(lock) : lock[i] = c  BY <1>2, <1>3 DEF Turns
    <2>2. lock # <<>>  BY <2>1
    <2>3. QED  BY <1>1, <1>3, <2>2
<1>5. \A d \in Callers : pc[d] # "waiting"  BY <1>2, <1>3, <1>4 DEF Turns
<1>6. CASE call[c].op = "load" /\ IsLoaded
    <2>1. /\ lock' = Tail(lock) /\ pc' = [pc EXCEPT ![c] = "idle"]
          /\ UNCHANGED <<waiting, loadedParts, cache, toModule, asked, refused>>
        BY <1>6 DEF Acquire, NoWrite
    <2>2. waiting' = {}  BY <1>2, <1>6, <2>1, LoadedWaitsNot
    <2>3. Turns' /\ lock' \in Seq(Callers)  BY <1>2, <1>3, <1>4, <2>1, <2>2, TurnsLeave
    <2>4. pc' \in [Callers -> {"idle", "queued", "waiting"}]  BY <1>1, <2>1
    <2>5. TSTypes'  BY <1>1, <1>3, <2>1, <2>3, <2>4 DEF TSTypes
    <2>6. Heard' /\ (Calm' => InStep')
        BY <1>2, <1>3, <2>1 DEF Heard, Calm, InStep, Flow, Asking, Answering
    <2>7. QED  BY <2>3, <2>5, <2>6 DEF TSInv
<1>7. CASE ~(call[c].op = "load" /\ IsLoaded)
    <2>1. Ask(c) /\ lock' = lock  BY <1>7 DEF Acquire
    <2>2. /\ toModule' \in Seq(Messages) /\ pc' = [pc EXCEPT ![c] = "waiting"]
          /\ waiting' = Parts /\ loadedParts' = {} /\ UNCHANGED <<cache, asked>>
          /\ Heard' /\ (Calm' => InStep')
        BY <1>3, <1>5, <2>1, AskStep
    <2>3. pc' \in [Callers -> {"idle", "queued", "waiting"}]  BY <1>1, <2>2
    <2>4. TSTypes'  BY <1>1, <1>3, <2>1, <2>2, <2>3 DEF TSTypes
    <2>5. call[c].op = "set" => PartOf(call[c].key) \in Parts  BY <1>2, <1>3 DEF Turns
    <2>6. Turns'  BY <1>1, <1>2, <1>3, <1>4, <1>5, <2>1, <2>2, <2>5, TurnsWait
    <2>7. QED  BY <2>2, <2>4, <2>6 DEF TSInv
<1>8. QED  BY <1>6, <1>7

(* A refresh has all its parts, and its caller goes on. *)
LEMMA CompleteStep ==
    ASSUME TSInv, NEW c \in Callers, Complete(c)
    PROVE  TSInv'
<1>1. /\ cache \in [Keys -> Values \cup {None, 0}] /\ loadedParts \subseteq Parts /\ waiting \subseteq Parts
      /\ lock \in Seq(Callers) /\ pc \in [Callers -> {"idle", "queued", "waiting"}]
      /\ call \in [Callers -> Calls \cup {Idle}] /\ toModule \in Seq(Messages) /\ fromModule \in Seq(Replies)
      /\ store \in [Own -> Values] /\ asked \in [Own -> Values] /\ lost \in Nat /\ TSTypes /\ Turns
    BY DEF TSInv, TSTypes
<1>2. /\ pc[c] = "waiting" /\ waiting = {} /\ lock' = Tail(lock) /\ Proceed(c)
      /\ UNCHANGED <<call, loadedParts, waiting, fromModule, store, lost, stray>>
    BY DEF Complete
<1>3. lock # <<>> /\ lock[1] = c /\ IsLoaded  BY <1>1, <1>2 DEF Turns, IsLoaded
<1>4. call'[c].op = "set" => PartOf(call'[c].key) \in Parts  BY <1>1, <1>2 DEF Turns
<1>5. /\ cache' \in [Keys -> Values \cup {None, 0}] /\ toModule' \in Seq(Messages)
      /\ asked' \in [Own -> Values] /\ Heard' /\ (Calm' => InStep')
    BY <1>1, <1>2, <1>3, <1>4, ProceedStep
<1>6. pc' = [pc EXCEPT ![c] = "idle"]  BY <1>2 DEF Proceed
<1>7. Turns' /\ lock' \in Seq(Callers)  BY <1>1, <1>2, <1>3, <1>6, TurnsLeave
<1>8. pc' \in [Callers -> {"idle", "queued", "waiting"}]  BY <1>1, <1>6
<1>9. TSTypes'  BY <1>1, <1>2, <1>5, <1>7, <1>8 DEF TSTypes
<1>10. QED  BY <1>5, <1>7, <1>9 DEF TSInv

(* A refresh gives up; calm it stays only if nothing was under way. *)
LEMMA TimeoutStep ==
    ASSUME TSInv, NEW c \in Callers, Timeout(c)
    PROVE  TSInv'
<1>1. /\ cache \in [Keys -> Values \cup {None, 0}] /\ loadedParts \subseteq Parts /\ waiting \subseteq Parts
      /\ lock \in Seq(Callers) /\ pc \in [Callers -> {"idle", "queued", "waiting"}]
      /\ call \in [Callers -> Calls \cup {Idle}] /\ toModule \in Seq(Messages) /\ fromModule \in Seq(Replies)
      /\ store \in [Own -> Values] /\ asked \in [Own -> Values] /\ lost \in Nat /\ TSTypes /\ Turns
    BY DEF TSInv, TSTypes
<1>2. /\ pc[c] = "waiting" /\ lock' = Tail(lock) /\ waiting' = {} /\ pc' = [pc EXCEPT ![c] = "idle"]
      /\ UNCHANGED <<cache, loadedParts, call, toModule, fromModule, store, asked, lost, refused>>
    BY DEF Timeout, bus
<1>3. stray' <=> (stray \/ toModule # <<>> \/ fromModule # <<>>)  BY DEF Timeout
<1>4. lock # <<>> /\ lock[1] = c  BY <1>1, <1>2 DEF Turns
<1>5. Turns' /\ lock' \in Seq(Callers)  BY <1>1, <1>2, <1>4, TurnsLeave
<1>6. pc' \in [Callers -> {"idle", "queued", "waiting"}]  BY <1>1, <1>2
<1>7. TSTypes'  BY <1>1, <1>2, <1>5, <1>6 DEF TSTypes
<1>8. Heard'  BY <1>2 DEF TSInv, Heard
<1>9. ASSUME Calm' PROVE InStep'
    <2>1. toModule = <<>> /\ fromModule = <<>> /\ ~stray  BY <1>3, <1>9 DEF Calm
    <2>2. InStep  BY <1>2, <1>9, <2>1 DEF TSInv, Calm
    <2>3. Answering'
        <3>1. Len(toModule) = 0 /\ Len(fromModule) = 0 /\ N \in Nat  BY <2>1, PartsAre
        <3>2. Len(fromModule) <= N /\ {} = N - Len(fromModule) + 1 .. N  BY <3>1
        <3>3. QED  BY <1>2, <2>1, <3>1, <3>2 DEF Answering, N
    <2>4. QED  BY <1>2, <2>2, <2>3 DEF InStep, Flow
<1>10. QED  BY <1>5, <1>7, <1>8, <1>9 DEF TSInv
(* The first part on its way comes in. *)
LEMMA FeedStep ==
    ASSUME TSInv, Feed
    PROVE  TSInv'
<1>1. /\ cache \in [Keys -> Values \cup {None, 0}] /\ loadedParts \subseteq Parts /\ waiting \subseteq Parts
      /\ lock \in Seq(Callers) /\ pc \in [Callers -> {"idle", "queued", "waiting"}]
      /\ call \in [Callers -> Calls \cup {Idle}] /\ toModule \in Seq(Messages) /\ fromModule \in Seq(Replies)
      /\ store \in [Own -> Values] /\ asked \in [Own -> Values] /\ lost \in Nat /\ TSTypes /\ Turns /\ Heard
    BY DEF TSInv, TSTypes
<1> DEFINE m == Head(fromModule)
           L == Len(fromModule)
           r == Tail(fromModule)
<1>2. /\ fromModule # <<>> /\ fromModule' = r /\ loadedParts' = loadedParts \cup {m.part}
      /\ waiting' = waiting \ {m.part}
      /\ cache' = [k \in Keys |-> IF k \in DOMAIN m.values THEN m.values[k]
                                  ELSE IF k \in Fields[m.part] THEN 0 ELSE cache[k]]
      /\ UNCHANGED <<lock, pc, call, toModule, store, asked, lost, stray, refused>>
    BY DEF Feed, history
<1>3. /\ m = fromModule[1] /\ r \in Seq(Replies) /\ L \in Nat /\ L >= 1 /\ Len(r) = L - 1 /\ 1 \in 1 .. L
      /\ \A i \in 1 .. Len(r) : r[i] = fromModule[i + 1] /\ i + 1 \in 1 .. L
    BY <1>1, <1>2
<1>4. m \in Replies  BY <1>1, <1>3
<1>5. m.part \in Parts /\ m.values \in Sayings(m.part)  BY <1>4, MessagesAre
<1> HIDE DEF m, L, r
<1>6. DOMAIN m.values = Carried(m.part) /\ \A k \in Carried(m.part) : m.values[k] \in Said(k)
    BY <1>5 DEF Sayings
<1>7. \A k \in Keys : cache'[k] = IF k \in Carried(m.part) THEN m.values[k]
                                  ELSE IF k \in Fields[m.part] THEN 0 ELSE cache[k]
    BY <1>2, <1>6
<1>8. \A p \in Parts : \A k \in Carried(p) :
         cache'[k] = IF p = m.part THEN m.values[k] ELSE cache[k]
    <2> SUFFICES ASSUME NEW p \in Parts, NEW k \in Carried(p)
                 PROVE  cache'[k] = IF p = m.part THEN m.values[k] ELSE cache[k]
        OBVIOUS
    <2>1. k \in Keys /\ k \in Fields[p] /\ PartOf(k) = p  BY CarriedIs
    <2>2. CASE p = m.part  BY <1>7, <2>1, <2>2
    <2>3. CASE p # m.part
        <3>1. m.part \in 1 .. 4 /\ p \in 1 .. 4  BY <1>5, PartsAre
        <3>2. k \notin Fields[m.part]  BY <2>1, <2>3, <3>1, PartIs
        <3>3. k \notin Carried(m.part)  BY <3>2 DEF Carried
        <3>4. QED  BY <1>7, <2>1, <2>3, <3>2, <3>3
    <2>4. QED  BY <2>2, <2>3
<1>9. cache' \in [Keys -> Values \cup {None, 0}]
    <2>1. ASSUME NEW k \in Keys
          PROVE  (IF k \in DOMAIN m.values THEN m.values[k]
                  ELSE IF k \in Fields[m.part] THEN 0 ELSE cache[k]) \in Values \cup {None, 0}
        BY <1>1, <1>6, SaidIs
    <2>2. QED  BY <1>2, <2>1
<1>10. TSTypes'  BY <1>1, <1>2, <1>3, <1>5, <1>9 DEF TSTypes
<1>11. Turns'
    <2>1. loadedParts' \cap waiting' = {}  BY <1>1, <1>2 DEF Turns
    <2>2. loadedParts \cup waiting \subseteq loadedParts' \cup waiting'  BY <1>2
    <2>3. waiting' # {} => waiting # {}  BY <1>2
    <2>4. QED  BY <1>1, <1>2, <2>1, <2>2, <2>3 DEF Turns
<1>12. Heard'
    <2>1. ASSUME NEW k \in Own PROVE cache'[k] \in Said(k) \cup {None} /\ store'[k] \in Said(k)
        <3>1. PartOf(k) \in Parts /\ k \in Carried(PartOf(k))  BY CarriedIs
        <3>2. QED  BY <1>1, <1>2, <1>6, <1>8, <3>1 DEF Heard
    <2>2. ASSUME NEW p \in loadedParts', NEW k \in Carried(p) PROVE cache'[k] # None
        <3>1. p \in Parts  BY <1>1, <1>2, <1>5
        <3>2. k \in Keys  BY <3>1, CarriedIs
        <3>3. CASE p = m.part  BY <1>6, <1>8, <3>1, <3>2, <3>3, SaidIs
        <3>4. CASE p # m.part  BY <1>1, <1>2, <1>8, <3>1, <3>4 DEF Heard
        <3>5. QED  BY <3>3, <3>4
    <2>3. QED  BY <2>1, <2>2 DEF Heard
<1>13. ASSUME Calm' PROVE InStep'
    <2>1. InStep  BY <1>2, <1>13 DEF TSInv, Calm
    <2>2. Answering  BY <1>2, <2>1 DEF InStep, Flow, Asking
    <2>3. N \in Int /\ L \in Int  BY <1>3, PartsAre
    <2>4. /\ toModule = <<>> /\ L <= N /\ waiting = N - L + 1 .. N
          /\ \A i \in 1 .. L : /\ fromModule[i].part = N - L + i
                               /\ \A k \in Carried(fromModule[i].part) : fromModule[i].values[k] = asked[k]
        BY <1>2, <2>2 DEF Answering, L
    <2>5. m.part = N - L + 1 /\ \A k \in Carried(m.part) : m.values[k] = asked[k]  BY <1>3, <2>4
    <2>6. waiting' = N - Len(r) + 1 .. N
        <3>1. N - Len(r) + 1 = (N - L + 1) + 1  BY <1>3, <2>3
        <3>2. waiting' = (N - L + 1 .. N) \ {N - L + 1}  BY <1>2, <2>4, <2>5
        <3>3. QED  BY <2>3, <3>1, <3>2
    <2>7. ASSUME NEW i \in 1 .. Len(r)
          PROVE  r[i].part = N - Len(r) + i /\ \A k \in Carried(r[i].part) : r[i].values[k] = asked[k]
        <3>1. i + 1 \in 1 .. L /\ r[i] = fromModule[i + 1]  BY <1>3
        <3>2. N - L + (i + 1) = N - Len(r) + i  BY <1>3, <2>3
        <3>3. QED  BY <2>4, <3>1, <3>2
    <2>8. Len(r) <= N  BY <1>3, <2>3, <2>4
    <2>9. \A i \in 1 .. Len(toModule) : toModule[i].kind = "write"  BY <2>2 DEF Answering
    <2>10. Answering'  BY <1>2, <2>4, <2>6, <2>7, <2>8, <2>9 DEF Answering, N
    <2>11. ASSUME NEW p \in loadedParts', NEW k \in Carried(p) PROVE cache'[k] = asked[k]
        <3>1. p \in Parts  BY <1>1, <1>2, <1>5
        <3>2. CASE p = m.part  BY <1>8, <2>5, <3>1, <3>2
        <3>3. CASE p # m.part  BY <1>2, <1>8, <2>1, <3>1, <3>3 DEF InStep
        <3>4. QED  BY <3>2, <3>3
    <2>12. QED  BY <1>2, <2>1, <2>10, <2>11 DEF InStep, Flow
<1>14. QED  BY <1>10, <1>11, <1>12, <1>13 DEF TSInv

(* The module takes the first message on its way. *)
LEMMA ModuleStep ==
    ASSUME TSInv, ModuleActs
    PROVE  TSInv'
<1>1. /\ cache \in [Keys -> Values \cup {None, 0}] /\ loadedParts \subseteq Parts /\ waiting \subseteq Parts
      /\ lock \in Seq(Callers) /\ pc \in [Callers -> {"idle", "queued", "waiting"}]
      /\ call \in [Callers -> Calls \cup {Idle}] /\ toModule \in Seq(Messages) /\ fromModule \in Seq(Replies)
      /\ store \in [Own -> Values] /\ asked \in [Own -> Values] /\ lost \in Nat /\ TSTypes /\ Turns /\ Heard
    BY DEF TSInv, TSTypes
<1> DEFINE m == Head(toModule)
           L == Len(toModule)
           r == Tail(toModule)
           answer == [i \in 1 .. N |-> Reply(i)]
<1>2. /\ toModule # <<>> /\ toModule' = r
      /\ UNCHANGED <<cache, loadedParts, waiting, lock, pc, call, asked, lost, stray, refused>>
      /\ IF m.kind = "request"
         THEN fromModule' = fromModule \o answer /\ UNCHANGED store
         ELSE store' = [k \in Own |-> IF k \in DOMAIN m.values THEN m.values[k] ELSE store[k]]
              /\ UNCHANGED fromModule
    BY DEF ModuleActs, settings, history, N
<1>3. /\ m = toModule[1] /\ r \in Seq(Messages) /\ L \in Nat /\ L >= 1 /\ Len(r) = L - 1 /\ 1 \in 1 .. L
      /\ \A i \in 1 .. Len(r) : r[i] = toModule[i + 1] /\ i + 1 \in 1 .. L
    BY <1>1, <1>2
<1>4. m \in Messages  BY <1>1, <1>3
<1> HIDE DEF m, L, r, answer
<1>5. Calm' => InStep  BY <1>2 DEF TSInv, Calm
<1>6. Turns'  BY <1>1, <1>2 DEF Turns
<1>7. CASE m.kind = "request"
    <2>1. fromModule' = fromModule \o answer /\ store' = store  BY <1>2, <1>7
    <2>2. \A i \in 1 .. N : /\ Reply(i) \in Replies /\ Reply(i).part = i
                            /\ \A k \in Carried(i) : Reply(i).values[k] = store[k]
        <3> SUFFICES ASSUME NEW i \in 1 .. N
                     PROVE  /\ Reply(i) \in Replies /\ Reply(i).part = i
                            /\ \A k \in Carried(i) : Reply(i).values[k] = store[k]
            OBVIOUS
        <3> DEFINE v == [k \in Carried(i) |-> store[k]]
        <3>1. i \in Parts /\ Reply(i) = [part |-> i, values |-> v]  BY PartsAre DEF Reply
        <3>2. \A k \in Carried(i) : store[k] \in Said(k) /\ store[k] \in Values
            BY <1>1, <3>1, CarriedIs DEF Heard
        <3>3. v \in Sayings(i)  BY <3>2 DEF Sayings
        <3> HIDE DEF v
        <3>4. v \in UNION {Sayings(p) : p \in Parts}  BY <3>1, <3>3
        <3>5. Reply(i) \in Replies  BY <3>1, <3>3, <3>4 DEF Replies
        <3>6. Reply(i).part = i /\ Reply(i).values = v  BY <3>1
        <3>7. QED  BY <3>5, <3>6 DEF v
    <2>3. answer \in Seq(Replies) /\ Len(answer) = N /\ \A i \in 1 .. N : answer[i] = Reply(i)
        <3>1. N \in Nat  BY PartsAre
        <3>2. QED  BY <2>2, <3>1 DEF answer
    <2>4. fromModule' \in Seq(Replies)  BY <1>1, <2>1, <2>3
    <2>5. TSTypes'  BY <1>1, <1>2, <1>3, <2>1, <2>4 DEF TSTypes
    <2>6. Heard'  BY <1>1, <1>2, <2>1 DEF Heard
    <2>7. ASSUME InStep PROVE InStep'
        <3>1. Asking
            <4>1. 1 \in 1 .. Len(toModule) /\ toModule[1].kind # "write"  BY <1>3, <1>7 DEF L
            <4>2. ~Answering  BY <4>1 DEF Answering
            <4>3. QED  BY <2>7, <4>2 DEF InStep, Flow
        <3>2. L = 1
            <4>1. 1 \notin 1 .. L - 1  BY <1>3, <1>7, <3>1 DEF Asking, L
            <4>2. QED  BY <1>3, <4>1
        <3>3. fromModule = <<>> /\ waiting = Parts  BY <3>1 DEF Asking
        <3>4. r = <<>> /\ \A i \in 1 .. Len(r) : r[i].kind = "write"
            <4>1. Len(r) = 0  BY <1>3, <3>2
            <4>2. QED  BY <1>3, <4>1, EmptySeq
        <3>5. fromModule' = answer  BY <2>1, <2>3, <3>3
        <3>6. ASSUME NEW k \in Own PROVE store[k] = asked[k]
            <4>1. \A i \in 1 .. Len(toModule) : ~Tells(toModule[i], k)
                <5>1. \A i \in 1 .. Len(toModule) : i = 1  BY <3>2 DEF L
                <5>2. QED  BY <1>3, <1>7, <5>1 DEF Tells
            <4>2. QED  BY <2>7, <4>1, DueNone DEF InStep
        <3>7. N \in Int /\ N >= 1 /\ Parts = 1 .. N  BY PartsAre
        <3>8. ASSUME NEW i \in 1 .. N
              PROVE  answer[i].part = N - N + i /\ \A k \in Carried(answer[i].part) : answer[i].values[k] = asked[k]
            <4>1. answer[i].part = i  BY <2>2, <2>3
            <4>2. i = N - N + i  BY <3>7
            <4>3. \A k \in Carried(i) : k \in Own  BY <3>7, CarriedIs
            <4>4. \A k \in Carried(i) : answer[i].values[k] = store[k]  BY <2>2, <2>3
            <4>5. QED  BY <3>6, <4>1, <4>2, <4>3, <4>4
        <3>9. N <= N /\ 1 .. N = N - N + 1 .. N  BY <3>7
        <3>10. Answering'  BY <1>2, <2>3, <3>3, <3>4, <3>5, <3>7, <3>8, <3>9 DEF Answering, N
        <3>11. ASSUME NEW k \in Own PROVE Due(r, store[k], k, asked[k])
            <4>1. Len(r) = 0  BY <1>3, <3>2
            <4>2. QED  BY <3>6, <4>1 DEF Due
        <3>12. QED  BY <1>2, <2>1, <2>7, <3>10, <3>11 DEF InStep, Flow
    <2>8. QED  BY <1>5, <1>6, <2>5, <2>6, <2>7 DEF TSInv
<1>8. CASE m.kind # "request"
    <2>1. /\ store' = [k \in Own |-> IF k \in DOMAIN m.values THEN m.values[k] ELSE store[k]]
          /\ fromModule' = fromModule
        BY <1>2, <1>8
    <2>2. m.kind = "write" /\ m.part \in Parts /\ m.values \in Sayings(m.part)  BY <1>4, <1>8, MessagesAre
    <2>3. DOMAIN m.values = Carried(m.part) /\ \A k \in Carried(m.part) : m.values[k] \in Said(k)
        BY <2>2 DEF Sayings
    <2>4. \A k \in Own : store'[k] = IF Tells(m, k) THEN m.values[k] ELSE store[k]  BY <2>1, <2>2 DEF Tells
    <2>5. \A k \in Own : store'[k] \in Said(k) /\ store'[k] \in Values
        BY <1>1, <2>1, <2>3, CarriedIs, SaidIs DEF Heard
    <2>6. store' \in [Own -> Values]  BY <2>1, <2>5
    <2>7. TSTypes'  BY <1>1, <1>2, <1>3, <2>1, <2>6 DEF TSTypes
    <2>8. Heard'  BY <1>1, <1>2, <2>5 DEF Heard
    <2>9. ASSUME InStep PROVE InStep'
        <3>1. ASSUME NEW k \in Own PROVE Due(r, store'[k], k, asked[k])
            <4>1. Due(toModule, store[k], k, asked[k])  BY <2>9 DEF InStep
            <4>2. store'[k] = IF Tells(toModule[1], k) THEN toModule[1].values[k] ELSE store[k]
                BY <1>3, <2>4
            <4>3. QED  BY <1>1, <1>2, <4>1, <4>2, DueTail DEF r
        <3>2. CASE Asking
            <4>1. L # 1  BY <1>3, <1>8, <3>2 DEF Asking, L
            <4>2. Len(r) \in 1 .. Len(r) /\ r # <<>>  BY <1>3, <4>1
            <4>3. r[Len(r)] = toModule[L]
                <5>1. Len(r) + 1 = L  BY <1>3
                <5>2. QED  BY <1>3, <4>2, <5>1
            <4>4. ASSUME NEW i \in 1 .. Len(r) - 1 PROVE r[i].kind = "write"
                <5>1. i \in 1 .. Len(r) /\ i + 1 \in 1 .. L - 1  BY <1>3
                <5>2. QED  BY <1>3, <3>2, <5>1 DEF Asking, L
            <4>5. Asking'  BY <1>2, <2>1, <3>2, <4>2, <4>3, <4>4 DEF Asking, L
            <4>6. QED  BY <1>2, <2>9, <3>1, <4>5 DEF InStep, Flow
        <3>3. CASE Answering
            <4>1. fromModule = <<>>  BY <1>2, <3>3 DEF Answering
            <4>2. ASSUME NEW i \in 1 .. Len(r) PROVE r[i].kind = "write"  BY <1>3, <3>3 DEF Answering, L
            <4>3. Answering'  BY <1>2, <2>1, <3>3, <4>1, <4>2 DEF Answering, N
            <4>4. QED  BY <1>2, <2>9, <3>1, <4>3 DEF InStep, Flow
        <3>4. QED  BY <2>9, <3>2, <3>3 DEF InStep, Flow
    <2>10. QED  BY <1>5, <1>6, <2>7, <2>8, <2>9 DEF TSInv
<1>9. QED  BY <1>7, <1>8

(* A message is lost, and it is not calm any more. *)
LEMMA LoseStep ==
    ASSUME TSInv, Lose
    PROVE  TSInv'
<1>1. /\ cache \in [Keys -> Values \cup {None, 0}] /\ loadedParts \subseteq Parts /\ waiting \subseteq Parts
      /\ lock \in Seq(Callers) /\ pc \in [Callers -> {"idle", "queued", "waiting"}]
      /\ call \in [Callers -> Calls \cup {Idle}] /\ toModule \in Seq(Messages) /\ fromModule \in Seq(Replies)
      /\ store \in [Own -> Values] /\ asked \in [Own -> Values] /\ lost \in Nat /\ Turns /\ Heard
    BY DEF TSInv, TSTypes
<1>2. /\ lost' = lost + 1
      /\ UNCHANGED <<cache, loadedParts, waiting, lock, pc, call, store, asked>>
    BY DEF Lose, settings
<1>3. \/ toModule # <<>> /\ toModule' = Tail(toModule) /\ fromModule' = fromModule
      \/ fromModule # <<>> /\ fromModule' = Tail(fromModule) /\ toModule' = toModule
    BY DEF Lose
<1>4. toModule' \in Seq(Messages) /\ fromModule' \in Seq(Replies)
    <2>1. toModule # <<>> => Tail(toModule) \in Seq(Messages)  BY <1>1
    <2>2. fromModule # <<>> => Tail(fromModule) \in Seq(Replies)  BY <1>1
    <2>3. QED  BY <1>1, <1>3, <2>1, <2>2
<1>5. TSTypes'  BY <1>1, <1>2, <1>4 DEF TSTypes
<1>6. Turns' /\ Heard'  BY <1>1, <1>2 DEF Turns, Heard
<1>7. ~Calm'  BY <1>1, <1>2 DEF Calm
<1>8. QED  BY <1>5, <1>6, <1>7 DEF TSInv
-----------------------------------------------------------------------------
(* The invariant holds in the beginning. *)
LEMMA TSInit_TSInv == TSInit => TSInv
<1> SUFFICES ASSUME TSInit PROVE TSInv  OBVIOUS
<1>1. /\ cache = [k \in Keys |-> None] /\ loadedParts = {} /\ waiting = {} /\ lock = <<>>
      /\ pc = [c \in Callers |-> "idle"] /\ call = [c \in Callers |-> Idle]
      /\ toModule = <<>> /\ fromModule = <<>> /\ store = [k \in Own |-> Start] /\ asked = store /\ lost = 0
    BY DEF TSInit
<1>2. \A k \in Own : k \in Keys /\ Start \in Said(k) /\ Start \in Values  BY CarriedIs, SaidIs
<1>3. TSTypes
    <2>1. store \in [Own -> Values]  BY <1>1, <1>2
    <2>2. /\ cache \in [Keys -> Values \cup {None, 0}] /\ pc \in [Callers -> {"idle", "queued", "waiting"}]
          /\ call \in [Callers -> Calls \cup {Idle}]
        BY <1>1
    <2>3. lock \in Seq(Callers) /\ toModule \in Seq(Messages) /\ fromModule \in Seq(Replies)  BY <1>1
    <2>4. QED  BY <1>1, <2>1, <2>2, <2>3 DEF TSTypes
<1>4. Turns  BY <1>1 DEF Turns
<1>5. Heard
    <2>1. ASSUME NEW k \in Own PROVE cache[k] = None /\ store[k] = Start  BY <1>1, <1>2
    <2>2. QED  BY <1>1, <1>2, <2>1 DEF Heard
<1>6. Len(toModule) = 0 /\ Len(fromModule) = 0 /\ N \in Int /\ N >= 1  BY <1>1, PartsAre
<1>7. Answering
    <2>1. {} = N - 0 + 1 .. N  BY <1>6
    <2>2. QED  BY <1>1, <1>6, <2>1 DEF Answering
<1>8. \A k \in Own : Due(toModule, store[k], k, asked[k])  BY <1>1, <1>6 DEF Due
<1>9. InStep  BY <1>1, <1>7, <1>8 DEF InStep, Flow
<1>10. QED  BY <1>3, <1>4, <1>5, <1>9 DEF TSInv

(* Every step keeps the invariant. *)
LEMMA TSNext_TSInv == TSInv /\ [TSNext]_tvars => TSInv'
<1> SUFFICES ASSUME TSInv, [TSNext]_tvars PROVE TSInv'  OBVIOUS
<1>1. CASE UNCHANGED tvars
    <2>1. UNCHANGED <<cache, loadedParts, waiting, lock, pc, call, toModule, fromModule, store, asked, lost,
                      stray, refused>>
        BY <1>1 DEF tvars, settings, bus, history
    <2>2. TSTypes' /\ Turns' /\ Heard'  BY <2>1 DEF TSInv, TSTypes, Turns, Heard
    <2>3. (Calm => InStep)'  BY <2>1 DEF TSInv, Calm, InStep, Flow, Asking, Answering
    <2>4. QED  BY <2>2, <2>3 DEF TSInv
<1>2. CASE \E c \in Callers : Begin(c) \/ Acquire(c) \/ Complete(c) \/ Timeout(c)
    BY <1>2, BeginStep, AcquireStep, CompleteStep, TimeoutStep
<1>3. CASE Feed  BY <1>3, FeedStep
<1>4. CASE ModuleActs  BY <1>4, ModuleStep
<1>5. CASE Lose  BY <1>5, LoseStep
<1>6. QED  BY <1>1, <1>2, <1>3, <1>4, <1>5 DEF TSNext

(* TemperatureSettings keeps its invariant: one refresh waits at a time; the
   settings of a loaded part are known; and while nothing is lost, given up or
   refused, the answers under way are those waited for, and of each setting the
   last write under way, or else the module, has what was asked for.         *)
THEOREM SettingsInductive == TSSpec => []TSInv
<1>1. QED  BY TSInit_TSInv, TSNext_TSInv, PTL DEF TSSpec

(* set_value() sets its setting and no other one of the part it writes, whatever
   refresh() and other set_value() run beside it, for any callers and settings. *)
THEOREM SettingsSettle == TSSpec => []Settled
<1>1. TSInv => Settled
    <2> SUFFICES ASSUME TSInv, Quiet, Calm
                 PROVE  store = asked /\ \A p \in loadedParts : \A k \in Carried(p) : cache[k] = store[k]
        BY DEF Settled, Calm
    <2>1. InStep /\ store \in [Own -> Values] /\ asked \in [Own -> Values] /\ loadedParts \subseteq Parts
        BY DEF TSInv, TSTypes
    <2>2. Len(toModule) = 0  BY DEF Quiet
    <2>3. ASSUME NEW k \in Own PROVE store[k] = asked[k]  BY <2>1, <2>2, DueNone DEF InStep
    <2>4. store = asked  BY <2>1, <2>3
    <2>5. QED  BY <2>1, <2>4 DEF InStep
<1>2. QED  BY <1>1, SettingsInductive, PTL

(* _write_part() sends only what the module or a caller said of each setting: the
   0 and 255 that it fills in for what is not known are never sent, after any
   losses and timeouts.                                                      *)
THEOREM NothingIsInvented == TSSpec => []NothingInvented
<1>1. TSInv => NothingInvented
    <2> SUFFICES ASSUME TSInv, NEW i \in DOMAIN toModule, toModule[i].kind = "write",
                        NEW k \in DOMAIN toModule[i].values
                 PROVE  toModule[i].values[k] \in Said(k)
        BY DEF NothingInvented
    <2>1. toModule[i] \in Messages  BY DEF TSInv, TSTypes
    <2> DEFINE m == toModule[i]
    <2>2. m # Request  BY DEF Request
    <2>3. m.values \in Sayings(m.part)  BY <2>1, <2>2, MessagesAre
    <2>4. QED  BY <2>3 DEF Sayings
<1>2. QED  BY <1>1, SettingsInductive, PTL

=============================================================================
