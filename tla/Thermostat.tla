------------------------------ MODULE Thermostat ------------------------------
(***************************************************************************)
(* A Temperature channel of velbusaio/channels.py that is a thermostat,    *)
(* with the handlers of velbusaio/module.py that keep it: the caller sets  *)
(* a preset, a climate mode or a target on the object, which the object    *)
(* tells the module in a command made of all it holds, while the module's  *)
(* status messages overwrite what the object holds.                        *)
(*                                                                         *)
(* A step handles one message or one call as a whole: no subscriber of     *)
(* the channel suspends here (ChannelStatus has those).  Commands and      *)
(* status messages keep their order on their way and none is lost.         *)
(***************************************************************************)
EXTENDS Temperature, Sequences

CONSTANTS
    Fine, Coarse,  \* precisions of SensorTemperature and TempSensorStatus
    Degree,        \* one degree, in the unit of the temperatures
    Temperatures,  \* the module's real temperature
    Presets,       \* presets asked for
    Targets,       \* target temperatures asked for
    MaxSleep,      \* bound: the sleep timer of a module
    MaxCalls,      \* bound: calls of the user
    MaxReports     \* bound: changes of the module and messages of its own accord

VARIABLES
    chan,          \* the channel: cur, cur_precision, target, cmode, cstatus, sleep_timer
    toModule,      \* commands on their way
    fromModule,    \* messages of the module on their way
    device,        \* external: the module's mode, status, timer and target
    real,          \* external: the module's temperature
    calls,         \* history: calls made
    taken,         \* history: commands the module has seen
    reports,       \* history: changes of the module and messages of its own accord
    asked,         \* history: the preset and the climate mode last asked for
    late,          \* history: the last status message handled is older than the last call
    muddled,       \* history: a call was made when one was
    told           \* history: how well the module has told of its present temperature

object  == <<chan, calls, asked, late, muddled>>
bus     == <<toModule, fromModule>>
module  == <<device, real, taken, reports, told>>
thvars  == <<object, bus, module>>

Manual == 65535    \* 0xFFFF: no end
Any    == "any"    \* nothing asked for

ASSUME ThermostatAssumption ==
    /\ Fine \in Nat \ {0} /\ Coarse \in Nat \ {0} /\ Coarse % Fine = 0
    /\ Degree \in Nat \ {0} /\ Degree % Coarse = 0
    /\ Temperatures \subseteq -64 * Degree .. 64 * Degree - 1
    /\ Presets \subseteq {"safe", "comfort", "day", "night"} /\ MaxSleep \in 1 .. Manual - 1
    /\ MaxCalls \in Nat /\ MaxReports \in Nat

(* What a module that is sent a sleep time does. *)
StatusFor(sleep) == IF sleep = 0 THEN "run" ELSE IF sleep = Manual THEN "manual" ELSE "sleep"

(* A sensor's two bytes are two's complement, of a range of 128 degrees; the
   parser of SensorTemperature takes 127 degrees from what has the sign bit,
   so below zero a temperature comes out one degree too high.  The temperature
   in TempSensorStatus is read as it is meant.                              *)
TwoBytes(t) == t % (128 * Degree)
Parsed(raw) == IF raw >= 64 * Degree THEN raw - 127 * Degree ELSE raw

TempFrame      == [kind |-> "temperature", raw |-> TwoBytes(Floor(real, Fine))]
StatusFrame(d) == [kind |-> "status", device |-> d, cur |-> Floor(real, Coarse), seen |-> taken']

THInit ==
    /\ device \in [mode : Presets, status : {"run"}, timer : {0}, target : {0}]
    /\ real \in Temperatures /\ taken = 0 /\ reports = 0 /\ told = "no"
    /\ chan = [cur |-> 0, cur_precision |-> NoPrecision, target |-> device.target,
               cmode |-> device.mode, cstatus |-> "run", sleep_timer |-> 0]
    /\ calls = 0 /\ asked = [preset |-> Any, mode |-> Any] /\ late = FALSE /\ muddled = FALSE
    /\ toModule = <<>> /\ fromModule = <<>>
-----------------------------------------------------------------------------
(* The sleep time _switch_mode() sends. *)
SleepOf(c) ==
    CASE c.cstatus = "manual" -> Manual
      [] c.cstatus = "sleep"  -> c.sleep_timer
      [] OTHER                -> 0

(* Mutant: the command is made before the object has the new value. *)
SwitchModeEarly(c) ==
    /\ chan' = c
    /\ toModule' = Append(toModule, [mode |-> chan.cmode, sleep |-> SleepOf(c)])

(* _switch_mode(): one command carries the preset and the climate mode. *)
SwitchMode(c) ==
    /\ chan' = c
    /\ toModule' = Append(toModule, [mode |-> c.cmode, sleep |-> SleepOf(c)])

Call ==
    /\ calls < MaxCalls /\ calls' = calls + 1 /\ muddled' = (muddled \/ late)
    /\ UNCHANGED <<late, fromModule, module>>

(* set_preset() *)
SetPreset ==
    /\ Call
    /\ \E p \in Presets : SwitchMode([chan EXCEPT !.cmode = p]) /\ asked' = [asked EXCEPT !.preset = p]

(* set_climate_mode(): "sleep" repeats the time the module last told of, which
   is none unless it sleeps.                                                *)
SetClimateMode ==
    /\ Call
    /\ \E m \in {"run", "manual", "sleep"} :
         /\ SwitchMode([chan EXCEPT !.cstatus = m])
         /\ asked' = [asked EXCEPT !.mode =
                IF m = "sleep" /\ chan.sleep_timer \notin 1 .. MaxSleep THEN Any ELSE m]

(* set_temp(): the target is the module's to tell. *)
SetTemp ==
    /\ Call
    /\ \E t \in Targets : toModule' = Append(toModule, [target |-> t])
    /\ UNCHANGED <<chan, asked>>

(* External: the module takes a command and tells its status. *)
TakeCommand ==
    /\ toModule # <<>> /\ toModule' = Tail(toModule) /\ taken' = taken + 1
    /\ LET m == Head(toModule)
       IN  device' = IF "target" \in DOMAIN m THEN [device EXCEPT !.target = m.target]
                     ELSE [device EXCEPT !.mode = m.mode, !.status = StatusFor(m.sleep), !.timer = m.sleep]
    /\ fromModule' = Append(fromModule, StatusFrame(device'))
    /\ told' = IF told = "no" THEN "coarse" ELSE told
    /\ UNCHANGED <<object, real, reports>>

Own == reports < MaxReports /\ reports' = reports + 1 /\ UNCHANGED <<object, toModule, taken>>

(* External: someone at the module changes its preset or puts it to sleep, or
   it wakes up.                                                             *)
LocalControl ==
    /\ reports < MaxReports /\ reports' = reports + 1
    /\ \/ \E p \in Presets \ {device.mode} :
             device' = [device EXCEPT !.mode = p] /\ asked' = [asked EXCEPT !.preset = Any]
       \/ /\ device.status # "sleep" /\ device' = [device EXCEPT !.status = "sleep", !.timer = MaxSleep]
          /\ asked' = [asked EXCEPT !.mode = Any]
       \/ /\ device.status = "sleep" /\ device' = [device EXCEPT !.status = "run", !.timer = 0]
          /\ asked' = [asked EXCEPT !.mode = Any]
    /\ taken' = taken /\ fromModule' = Append(fromModule, StatusFrame(device'))
    /\ told' = IF told = "no" THEN "coarse" ELSE told
    /\ UNCHANGED <<chan, calls, late, muddled, toModule, real>>

(* External: the module reports without a change, in either precision. *)
Report ==
    /\ Own
    /\ \/ fromModule' = Append(fromModule, StatusFrame(device)) /\ told' = IF told = "no" THEN "coarse" ELSE told
       \/ fromModule' = Append(fromModule, TempFrame) /\ told' = "fine"
    /\ UNCHANGED <<device, real>>

Warm ==
    /\ Own /\ \E t \in Temperatures \ {real} : real' = t
    /\ told' = "no" /\ UNCHANGED <<device, fromModule>>

(* _handle_temp_sensor_status(), as far as the Temperature channel. *)
HandleStatus ==
    /\ fromModule # <<>> /\ Head(fromModule).kind = "status"
    /\ LET f == Head(fromModule)
           m == Measured(chan, f.cur, Coarse)
       IN  /\ chan' = [target |-> f.device.target, cmode |-> f.device.mode, cstatus |-> f.device.status,
                       sleep_timer |-> f.device.timer, cur |-> m.cur, cur_precision |-> m.cur_precision]
           /\ late' = (f.seen < calls)
    /\ fromModule' = Tail(fromModule) /\ UNCHANGED <<calls, asked, muddled, toModule, module>>

(* _handle_sensor_temperature() *)
HandleTemperature ==
    /\ fromModule # <<>> /\ Head(fromModule).kind = "temperature"
    /\ LET m == Measured(chan, Parsed(Head(fromModule).raw), Fine)
       IN  chan' = [chan EXCEPT !.cur = m.cur, !.cur_precision = m.cur_precision]
    /\ fromModule' = Tail(fromModule)
    /\ UNCHANGED <<calls, asked, late, muddled, toModule, module>>

THNext ==
    \/ SetPreset \/ SetClimateMode \/ SetTemp
    \/ HandleStatus \/ HandleTemperature
    \/ TakeCommand \/ LocalControl \/ Report \/ Warm

THSpec == THInit /\ [][THNext]_thvars
-----------------------------------------------------------------------------
Quiet == toModule = <<>> /\ fromModule = <<>>

(* Once everything sent has arrived, the object shows what the module does,
   whatever calls and status messages crossed; and the module does what was
   last asked for, although a command is made of preset and climate mode and a
   caller gives one of them: unless a call was made after a status message
   older than the call before had put the old values back.                  *)
AskedFor ==
    Quiet =>
        /\ chan.cmode = device.mode /\ chan.cstatus = device.status
        /\ chan.target = device.target
        /\ ~muddled => /\ asked.preset \in {Any, device.mode}
                       /\ asked.mode \in {Any, device.status}

(* When the messages sent since the temperature last changed have arrived, the
   channel is within a coarse step of it, and exact if a fine message was among
   them and it does not freeze: a coarse one does not take that back.  Below
   zero the two kinds contradict each other: the channel shows what the last
   of them said, a degree too much when that was a fine one.                *)
TemperatureFits ==
    fromModule = <<>> =>
        /\ told = "fine" /\ real >= 0 => Floor(chan.cur, Fine) = Floor(real, Fine)
        /\ told # "no" =>
               \/ Floor(chan.cur, Coarse) = Floor(real, Coarse)
               \/ /\ told = "fine" /\ real < 0
                  /\ Floor(chan.cur, Fine) = Floor(real, Fine) + Degree
=============================================================================
