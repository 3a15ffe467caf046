--------------------------- MODULE MCChannelStatus ---------------------------
(* Eight module types, each with a few of its channels and of its frames. *)
EXTENDS ChannelStatus

C(n) == Channel(n)
P(n) == Property(n)

(* A VMBEL1-20 whose first button two subscribers watch *)
Panel ==
    [class |-> (C(1) :> "Button") @@ (C(2) :> "Button") @@ (C(9) :> "Temperature")
               @@ (C(10) :> "ThermostatChannel") @@ (P("selected_program") :> "SelectedProgram"),
     map |-> <<>>, temperature |-> C(9), outputs |-> <<<<C(10), "heater">>>>,
     subscribers |-> (C(1) :> <<"a", "b">>) @@ (C(2) :> <<"a">>) @@ (C(9) :> <<"a">>)
                     @@ (C(10) :> <<>>) @@ (P("selected_program") :> <<>>),
     frames |-> {[kind |-> "PushButton", offset |-> 0, closed |-> {1}, long |-> {2}, opened |-> {}],
                 [kind |-> "PushButton", offset |-> 0, closed |-> {}, long |-> {}, opened |-> {1, 2}],
                 [kind |-> "ModuleStatus2", offset |-> 0, closed |-> {2}, enabled |-> {1, 2}, program |-> "none"],
                 [kind |-> "Led", offset |-> 0, leds |-> {1, 2}, led |-> "slow"],
                 [kind |-> "LedStatus", offset |-> 0, slow |-> {}, fast |-> {}, on |-> {2}],
                 [kind |-> "TempSensorStatus", cur |-> 4, target |-> 5, mode |-> "day", status |-> "run",
                  timer |-> 0, cool |-> FALSE, outputs |-> {"heater"}],
                 [kind |-> "SensorTemperature", cur |-> 5, min |-> 1, max |-> 6]}]

(* A VMB4RYLD-20 and a VMB4RYLD *)
Relays20 ==
    [class |-> (C(1) :> "Relay") @@ (C(2) :> "Relay"),
     map |-> <<>>, temperature |-> None, outputs |-> <<>>,
     subscribers |-> (C(1) :> <<"a", "b">>) @@ (C(2) :> <<"a", "b">>),
     frames |-> {[kind |-> "RelayStatus3", on |-> {1}, inhibited |-> {}, forced_on |-> {}, forced_off |-> {}, disabled |-> {}],
                 [kind |-> "RelayStatus3", on |-> {2}, inhibited |-> {1}, forced_on |-> {2}, forced_off |-> {}, disabled |-> {}],
                 [kind |-> "Forced", channel |-> 1, what |-> "forced_off"],
                 [kind |-> "Forced", channel |-> 2, what |-> "none"]}]

Relays ==
    [Relays20 EXCEPT !.frames =
        {[kind |-> "RelayStatus", channel |-> 1, on |-> TRUE, mode |-> "normal"],
         [kind |-> "RelayStatus", channel |-> 1, on |-> FALSE, mode |-> "inhibited"],
         [kind |-> "Forced", channel |-> 1, what |-> "forced_on"]}]

(* A VMBPIRO, whose first bit is channel 9 to the handlers that use the map *)
Pir ==
    [class |-> (C(1) :> "Sensor") @@ (C(2) :> "Sensor") @@ (C(9) :> "Temperature")
               @@ (P("light_value") :> "LightValue") @@ (P("selected_program") :> "SelectedProgram"),
     map |-> (1 :> 9), temperature |-> C(9), outputs |-> <<>>,
     subscribers |-> (C(1) :> <<"a", "b">>) @@ (C(2) :> <<"a">>) @@ (C(9) :> <<"a">>)
                     @@ (P("light_value") :> <<"a">>) @@ (P("selected_program") :> <<>>),
     frames |-> {[kind |-> "Pir", light |-> 1, closed |-> {1}, program |-> "none"],
                 [kind |-> "Pir", light |-> 2, closed |-> {2}, program |-> "summer"],
                 [kind |-> "PushButton", offset |-> 0, closed |-> {1, 2}, long |-> {}, opened |-> {}],
                 [kind |-> "SensorTemperature", cur |-> 5, min |-> 1, max |-> 6]}]

(* A VMB7IN *)
Inputs ==
    [class |-> (C(1) :> "ButtonCounter") @@ (C(8) :> "Button") @@ (P("selected_program") :> "SelectedProgram"),
     map |-> <<>>, temperature |-> None, outputs |-> <<>>,
     subscribers |-> (C(1) :> <<"a", "b">>) @@ (C(8) :> <<"a">>) @@ (P("selected_program") :> <<"a">>),
     frames |-> {[kind |-> "CounterStatus", channel |-> 1, pulses |-> 100, counter |-> 1, delay |-> 5],
                 [kind |-> "CounterStatus", channel |-> 1, pulses |-> 100, counter |-> 2, delay |-> 5],
                 [kind |-> "ModuleStatus2", offset |-> 0, closed |-> {1}, enabled |-> {}, program |-> "winter"]}]

(* A VMB2BLE-20 *)
Blinds ==
    [class |-> (C(1) :> "Blind") @@ (C(2) :> "Blind"),
     map |-> <<>>, temperature |-> None, outputs |-> <<>>,
     subscribers |-> (C(1) :> <<"a", "b">>) @@ (C(2) :> <<"a", "b">>),
     frames |-> {[kind |-> "Listed", values |-> <<<<C(1), [state |-> 1, position |-> p]>>,
                                                  <<C(2), [state |-> 0, position |-> p]>>>>] : p \in {10, 20}}]

(* A VMBGP4PIR: bit 5 is a sensor, whose enable bit the handler takes too *)
PirPanel ==
    [class |-> (C(1) :> "Button") @@ (C(5) :> "Sensor") @@ (P("light_value") :> "LightValue")
               @@ (P("selected_program") :> "SelectedProgram"),
     map |-> (9 :> 10), temperature |-> None, outputs |-> <<>>,
     subscribers |-> (C(1) :> <<"a", "b">>) @@ (C(5) :> <<"a">>) @@ (P("light_value") :> <<"a">>)
                     @@ (P("selected_program") :> <<>>),
     frames |-> {[kind |-> "Gp4Pir", offset |-> 0, light |-> 1, closed |-> {5}, enabled |-> {1}, program |-> "none"],
                 [kind |-> "Gp4Pir", offset |-> 0, light |-> 1, closed |-> {1}, enabled |-> {}, program |-> "holiday"]}]

(* A VMB8PB *)
Buttons ==
    [class |-> (C(1) :> "Button") @@ (C(2) :> "Button"),
     map |-> <<>>, temperature |-> None, outputs |-> <<>>,
     subscribers |-> (C(1) :> <<"a", "b">>) @@ (C(2) :> <<"a">>),
     frames |-> {[kind |-> "ModuleStatus", offset |-> 0, closed |-> {1}],
                 [kind |-> "ModuleStatus", offset |-> 0, closed |-> {2}]}]

MCModules == {Panel, Relays20, Relays, Pir, Inputs, Blinds, PirPanel, Buttons}
=============================================================================
