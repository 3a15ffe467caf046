----------------------------- MODULE TempSettings -----------------------------
(***************************************************************************)
(* TemperatureSettings of velbusaio/temp_settings.py: the cached settings  *)
(* of a temperature sensor, asked for as a whole and answered in up to     *)
(* four parts, written one part at a time.                                 *)
(*                                                                         *)
(* A step is the code between two awaits that really suspend: the lock of  *)
(* refresh() and its wait for the parts.  The writer queues a message and  *)
(* returns.  The way to the module and the way back keep their order and   *)
(* may lose messages; the timer of a refresh may fire at any moment, also  *)
(* when the last part has come and the caller has not yet run.             *)
(***************************************************************************)
EXTENDS Integers, Sequences, FiniteSets

CONSTANTS
    Callers,       \* tasks that use the settings
    Advertised,    \* settings commands the module's specification names, as <<code, class>>
    Layout,        \* infer_temp_settings_layout(): "classic" or "gp"
    Keys,          \* settings looked at
    Changes,       \* what set_value() is called with: <<key, value>>
    None,          \* no value
    MaxCalls,      \* bound: calls
    MaxLost        \* bound: messages lost

VARIABLES
    cache,         \* _values
    loadedParts,   \* _loaded_parts
    waiting,       \* _waiters: the parts whose future is not done
    lock,          \* _lock: its holder, then those who wait for it, in their order
    pc,            \* what each caller does
    call,          \* its call
    toModule,      \* messages on their way to the module
    fromModule,    \* parts on their way from it
    store,         \* external: what the module holds
    asked,         \* history: the value set_value() was last given, for each key
    calls,         \* history: calls made
    lost,          \* history: messages lost
    stray,         \* history: a refresh gave up while an answer was still under way
    refused        \* history: a value did not fit its message

settings == <<cache, loadedParts, waiting, lock, pc, call>>
bus      == <<toModule, fromModule, store>>
history  == <<asked, calls, lost, stray, refused>>
tvars    == <<settings, bus, history>>

(* _PART1_FIELDS to _PART4_FIELDS *)
Fields == <<{"current_set", "comfort_heating", "day_heating", "night_heating",
             "antifreeze_heating", "temp_difference", "hysteresis"},
            {"comfort_cooling", "day_cooling", "night_cooling", "safe_cooling",
             "default_sleep_timer", "autosend_interval"},
            {"alarm_low", "alarm_high", "cool_lower", "heat_upper", "calibration",
             "slave_or_zone", "calibration_gain"},
            {"min_switching_time", "pump_delayed_on", "pump_delayed_off", "alarm_2",
             "alarm_3", "heat_lower", "cool_upper"}>>

PartOf(k) == CHOOSE p \in DOMAIN Fields : k \in Fields[p]

(* build_temperature_settings() *)
Parts == {1} \cup {p \in 2 .. 4 : <<p, "TempSensorSettingsPart">> \in Advertised}
Supported == {<<0, "TempSensorSettingsRequest">>, <<1, "TempSensorSettingsPart">>} \subseteq Advertised

(* What a part's message carries: the classic layout is cut short. *)
Carried(p) == {k \in Keys \cap Fields[p] :
    Layout = "classic" => k \notin {"calibration_gain"} \cup (Fields[4] \ {"min_switching_time"})}

Own == UNION {Carried(p) : p \in Parts}

(* The values the module starts with or a caller gives. *)
Start   == 1
Said(k) == {Start} \cup {c[2] : c \in {d \in Changes : d[1] = k}}

(* The specifications that name settings commands name the parts from the first on. *)
ASSUME SettingsAssumption ==
    /\ Supported /\ Layout \in {"classic", "gp"} /\ Keys \subseteq UNION {Fields[p] : p \in 1 .. 4}
    /\ Parts = 1 .. Cardinality(Parts)
    /\ (\A c \in Changes : c[1] \in Keys) /\ \A k \in Keys : None \notin Said(k)
    /\ MaxCalls \in Nat /\ MaxLost \in Nat

(* bytes() of the message refuses these; a temperature is never refused. *)
Fits(k, v) ==
    /\ k = "default_sleep_timer" => v \in 0 .. 65535
    /\ k \in {"autosend_interval", "slave_or_zone", "min_switching_time"} => v \in 0 .. 255

Request == [kind |-> "request"]
Write(p, vals) == [kind |-> "write", part |-> p, values |-> vals]
Reply(p) == [part |-> p, values |-> [k \in Carried(p) |-> store[k]]]

Idle == [op |-> "none", key |-> None, value |-> None]
Calls == {[op |-> o, key |-> None, value |-> None] : o \in {"refresh", "load"}}
         \cup {[op |-> "get", key |-> k, value |-> None] : k \in Own}
         \cup {[op |-> "set", key |-> c[1], value |-> c[2]] : c \in Changes}

TSInit ==
    /\ cache = [k \in Keys |-> None] /\ loadedParts = {} /\ waiting = {} /\ lock = <<>>
    /\ pc = [c \in Callers |-> "idle"] /\ call = [c \in Callers |-> Idle]
    /\ toModule = <<>> /\ fromModule = <<>> /\ store = [k \in Own |-> Start]
    /\ asked = store /\ calls = 0 /\ lost = 0 /\ stray = FALSE /\ refused = FALSE
-----------------------------------------------------------------------------
(* Mutant: the first part will do. *)
FirstLoaded == 1 \in loadedParts

IsLoaded == Parts \subseteq loadedParts

(* What the message of part p says: what is not known is sent as 0, the address
   of a slave or zone as 255.                                               *)
PartValues(c, p) == [k \in Carried(p) |->
    IF c[k] # None THEN c[k] ELSE IF k = "slave_or_zone" THEN 255 ELSE 0]

(* set_value() from ensure_loaded() on, with _write_part(): the value is taken
   before the message is made, which may refuse it or another of its part.  *)
SetAndWrite(c) ==
    LET k   == call'[c].key
        new == [cache EXCEPT ![k] = call'[c].value]
        out == PartValues(new, PartOf(k))
    IN  /\ cache' = new
        /\ IF \A f \in DOMAIN out : Fits(f, out[f])
           THEN /\ toModule' = Append(toModule, Write(PartOf(k), out))
                /\ asked' = IF k \in Own THEN [asked EXCEPT ![k] = call'[c].value] ELSE asked
                /\ UNCHANGED refused
           ELSE refused' = TRUE /\ UNCHANGED <<toModule, asked>>

NoWrite == UNCHANGED <<cache, toModule, asked, refused>>

(* What is left of a call when the settings are loaded. *)
Proceed(c) ==
    /\ IF call'[c].op = "set" THEN SetAndWrite(c) ELSE NoWrite
    /\ pc' = [pc EXCEPT ![c] = "idle"]

(* Mutant: the parts of an earlier answer still count. *)
AskAgainLoaded(c) ==
    /\ waiting' = Parts
    /\ toModule' = Append(toModule, Request)
    /\ pc' = [pc EXCEPT ![c] = "waiting"]
    /\ UNCHANGED <<cache, loadedParts, asked, refused>>

(* refresh() with the lock, as far as its wait: new futures for the parts, the
   old ones forgotten, the request queued.                                  *)
Ask(c) ==
    /\ waiting' = Parts /\ loadedParts' = {}
    /\ toModule' = Append(toModule, Request)
    /\ pc' = [pc EXCEPT ![c] = "waiting"]
    /\ UNCHANGED <<cache, asked, refused>>

(* refresh(), get_temp_setting() or set_value(), up to its first wait: refresh()
   always takes the lock, the others only when a part is missing.  A setting of
   a part the module does not have is refused.                              *)
Begin(c) ==
    /\ pc[c] = "idle" /\ calls < MaxCalls /\ calls' = calls + 1
    /\ \E j \in Calls :
         /\ call' = [call EXCEPT ![c] = j]
         /\ IF j.op = "set" /\ PartOf(j.key) \notin Parts
            THEN NoWrite /\ UNCHANGED <<pc, lock, waiting, loadedParts>>
            ELSE IF j.op \in {"get", "set"} /\ IsLoaded
            THEN Proceed(c) /\ UNCHANGED <<lock, waiting, loadedParts>>
            ELSE IF lock # <<>>
            THEN /\ lock' = Append(lock, c) /\ pc' = [pc EXCEPT ![c] = "queued"]
                 /\ NoWrite /\ UNCHANGED <<waiting, loadedParts>>
            ELSE IF j.op = "load" /\ IsLoaded
            THEN NoWrite /\ UNCHANGED <<pc, lock, waiting, loadedParts>>
            ELSE Ask(c) /\ lock' = <<c>>
    /\ UNCHANGED <<fromModule, store, lost, stray>>

(* The next in line has the lock: only refresh(force=False) looks again. *)
Acquire(c) ==
    /\ pc[c] = "queued" /\ Head(lock) = c
    /\ IF call[c].op = "load" /\ IsLoaded
       THEN /\ lock' = Tail(lock) /\ pc' = [pc EXCEPT ![c] = "idle"]
            /\ NoWrite /\ UNCHANGED <<waiting, loadedParts>>
       ELSE Ask(c) /\ UNCHANGED lock
    /\ UNCHANGED <<call, fromModule, store, calls, lost, stray>>

(* All futures are done: the lock is given up, the call goes on to its end. *)
Complete(c) ==
    /\ pc[c] = "waiting" /\ waiting = {}
    /\ lock' = Tail(lock)
    /\ UNCHANGED call /\ Proceed(c)
    /\ UNCHANGED <<loadedParts, waiting, fromModule, store, calls, lost, stray>>

(* Mutant: the lock is not given up when the time is up. *)
TimeoutHoldsLock(c) ==
    /\ pc[c] = "waiting"
    /\ waiting' = {} /\ pc' = [pc EXCEPT ![c] = "idle"]
    /\ stray' = (stray \/ toModule # <<>> \/ fromModule # <<>>)
    /\ UNCHANGED <<cache, loadedParts, lock, call, bus, asked, calls, lost, refused>>

(* The time is up: gather() is cancelled, and its futures with it, which are then
   taken from _waiters; the caller gets VelbusMemoryTimeout.                *)
Timeout(c) ==
    /\ pc[c] = "waiting"
    /\ lock' = Tail(lock) /\ waiting' = {} /\ pc' = [pc EXCEPT ![c] = "idle"]
    /\ stray' = (stray \/ toModule # <<>> \/ fromModule # <<>>)
    /\ UNCHANGED <<cache, loadedParts, call, bus, asked, calls, lost, refused>>

(* feed_message(), from the handler of a part: it is taken whether or not
   somebody waits for it.                                                   *)
Feed ==
    /\ fromModule # <<>>
    /\ LET m == Head(fromModule)
       IN  /\ cache' = [k \in Keys |-> IF k \in DOMAIN m.values THEN m.values[k]
                                       ELSE IF k \in Fields[m.part] THEN 0 ELSE cache[k]]
           /\ loadedParts' = loadedParts \cup {m.part} /\ waiting' = waiting \ {m.part}
    /\ fromModule' = Tail(fromModule)
    /\ UNCHANGED <<lock, pc, call, toModule, store, history>>
-----------------------------------------------------------------------------
(* External: the module answers a request part by part, and takes what is written. *)
ModuleActs ==
    /\ toModule # <<>> /\ toModule' = Tail(toModule)
    /\ LET m == Head(toModule)
       IN  IF m.kind = "request"
           THEN fromModule' = fromModule \o [i \in 1 .. Cardinality(Parts) |-> Reply(i)] /\ UNCHANGED store
           ELSE store' = [k \in Own |-> IF k \in DOMAIN m.values THEN m.values[k] ELSE store[k]]
                /\ UNCHANGED fromModule
    /\ UNCHANGED <<settings, history>>

(* External: the first message, one way or the other, is lost. *)
Lose ==
    /\ lost < MaxLost /\ lost' = lost + 1
    /\ \/ toModule # <<>> /\ toModule' = Tail(toModule) /\ UNCHANGED fromModule
       \/ fromModule # <<>> /\ fromModule' = Tail(fromModule) /\ UNCHANGED toModule
    /\ UNCHANGED <<settings, store, asked, calls, stray, refused>>

TSNext == \/ \E c \in Callers : Begin(c) \/ Acquire(c) \/ Complete(c) \/ Timeout(c)
          \/ Feed \/ ModuleActs \/ Lose

TSSpec == TSInit /\ [][TSNext]_tvars

(* The event loop runs a task that can go on, and a timer that runs expires. *)
FairTSSpec == TSSpec /\ \A c \in Callers :
    WF_tvars(Acquire(c)) /\ WF_tvars(Complete(c)) /\ WF_tvars(Timeout(c))
-----------------------------------------------------------------------------
Quiet == toModule = <<>> /\ fromModule = <<>>

(* set_value() sets its setting and no other one of the part it writes, whatever
   refresh() and other set_value() run beside it: when nothing is under way the
   module holds of every setting what was last asked for, and so does the cache
   of every part it has loaded.  It needs that no message was lost, that no
   answer outlived the refresh that asked for it and that every value fitted. *)
Settled == (Quiet /\ lost = 0 /\ ~stray /\ ~refused) =>
    /\ store = asked
    /\ \A p \in loadedParts : \A k \in Carried(p) : cache[k] = store[k]

(* _write_part() fills in 0 or 255 for what is not in _values: nothing like that
   is ever sent, after any losses and timeouts; each part is written with what
   the module or a caller said of each setting.                             *)
NothingInvented == \A i \in DOMAIN toModule : toModule[i].kind = "write" =>
    \A k \in DOMAIN toModule[i].values : toModule[i].values[k] \in Said(k)

(* Every call comes to its end, whatever is lost and whoever else waits. *)
CallsEnd == \A c \in Callers : pc[c] # "idle" ~> pc[c] = "idle"
=============================================================================
