------------------------------- MODULE Messages -------------------------------
(***************************************************************************)
(* The message classes of velbusaio/messages: what each expects of the     *)
(* packets it is populated from and the body it makes of its attributes.   *)
(*                                                                         *)
(* A class is a record: its command code, the priority and the number of   *)
(* bytes (_data_length) it insists on, the fields it reads in the order of *)
(* their declaration, and what data_to_binary() writes, as fields too.     *)
(***************************************************************************)
EXTENDS MessageFields

Nothing == -1          \* _data_length is None

Message(name, code, need, fields) ==
    [name |-> name, code |-> code, prio |-> "low", rtr |-> FALSE, need |-> need,
     fields |-> fields, out |-> SelectSeq(fields, LAMBDA f : f.sent),
     sends |-> TRUE, bare |-> FALSE, classic |-> 0]

High(m) == [m EXCEPT !.prio = "high"]
AnyPriority(m) == [m EXCEPT !.prio = "any"]
Firmware(m) == [m EXCEPT !.prio = "firmware"]
(* _generates_data_to_binary = False, and none of its own. *)
ReceiveOnly(m) == [m EXCEPT !.sends = FALSE, !.out = <<>>]
(* A data_to_binary() of its own. *)
Sends(m, out) == [m EXCEPT !.out = out, !.sends = TRUE]
(* A request for transmission: no command, no body. *)
Rtr(m) == [m EXCEPT !.rtr = TRUE, !.bare = TRUE, !.out = <<>>, !.sends = TRUE]
FromEnd(name, k) == Field(name, "fromEnd", k, 0, <<0>>)
(* The first n fields only, in the layout of classic thermostats. *)
Classic(m, n) == [m EXCEPT !.classic = n]
(* A subclass that declares field f again: it stays where it was.  Its
   data_to_binary() is generated anew from the fields (Refined), or its parent's
   is inherited (RefinedRead).                                              *)
Redeclared(fields, f) == [i \in DOMAIN fields |-> IF fields[i].name = f.name THEN f ELSE fields[i]]
RefinedRead(m, name, f) == [m EXCEPT !.name = name, !.fields = Redeclared(@, f)]
Refined(m, name, f) ==
    LET fields == Redeclared(m.fields, f)
    IN  [m EXCEPT !.name = name, !.fields = fields, !.out = SelectSeq(fields, LAMBDA g : g.sent)]

(* The byte at a place that is always the same. *)
Constant(at, v) == [Sent(PlainField(NoName, v)) EXCEPT !.at = at]
-----------------------------------------------------------------------------
(* Blinds *)
BlindStatusNgMessage == ReceiveOnly(Message("BlindStatusNgMessage", \hEC, 7,
    <<ChannelField("channel", 0), ByteField("timeout", 1), ByteField("status", 2),
      Default(ByteField("position", 4), <<>>)>>))

(* Its own populate(): both blinds in one message. *)
BlindStatusNg20Message == ReceiveOnly(Message("BlindStatusNg20Message", \hEC, 7,
    <<BitField("status", 0, 0, 2), BitField("status2", 0, 4, 2),
      ByteField("position", 1), ByteField("position2", 2)>>))

BlindStatusMessage == ReceiveOnly(Message("BlindStatusMessage", \hEC, 7,
    <<BlindChannelField("channel", 0), ByteField("timeout", 1), BlindStatusField("status", 2)>>))

CoverDownMessage == High(Message("CoverDownMessage", \h06, 4,
    <<ChannelField("channel", 0), Int24Field("delay_time", 1)>>))
CoverDownMessage2 == Refined(CoverDownMessage, "CoverDownMessage2", BlindChannelField("channel", 0))

CoverUpMessage == High(Message("CoverUpMessage", \h05, 4,
    <<ChannelField("channel", 0), Int24Field("delay_time", 1)>>))
CoverUpMessage2 == Refined(CoverUpMessage, "CoverUpMessage2", BlindChannelField("channel", 0))

CoverOffMessage == High(Message("CoverOffMessage", \h04, 1, <<ChannelField("channel", 0)>>))
CoverOffMessage2 == Refined(CoverOffMessage, "CoverOffMessage2", BlindChannelField("channel", 0))

CoverPosMessage == High(Message("CoverPosMessage", \h1C, 2,
    <<ChannelField("channel", 0), ByteField("position", 1)>>))
-----------------------------------------------------------------------------
(* The bus and the interface *)
BusActiveMessage == High(Message("BusActiveMessage", \h0A, 0, <<>>))
BusOffMessage == Message("BusOffMessage", \h09, 0, <<>>)
BusErrorStatusRequestMessage == Message("BusErrorStatusRequestMessage", \hD9, 0, <<>>)
BusErrorCounterStatusMessage == Message("BusErrorCounterStatusMessage", \hDA, 3,
    <<ByteField("transmit_error_counter", 0), ByteField("receive_error_counter", 1),
      ByteField("bus_off_counter", 2)>>)
InterfaceStatusRequestMessage == Message("InterfaceStatusRequestMessage", \h0E, 0, <<>>)
ReceiveBufferFullMessage == High(Message("ReceiveBufferFullMessage", \h0B, 0, <<>>))
ReceiveReadyMessage == AnyPriority(Message("ReceiveReadyMessage", \h0C, 0, <<>>))

(* Channels forced or inhibited, for a number of seconds *)
CutDelay == Kind(Int24Field("delay_time", 1), "cut")
ForcedOff == High(Message("ForcedOff", \h12, Nothing, <<ByteField("channel", 0), CutDelay>>))
ForcedOn  == High(Message("ForcedOn", \h14, Nothing, <<ByteField("channel", 0), CutDelay>>))
Inhibit   == High(Message("Inhibit", \h16, Nothing, <<ByteField("channel", 0), CutDelay>>))
CancelForcedOff == High(Message("CancelForcedOff", \h13, Nothing, <<ByteField("channel", 0)>>))
CancelForcedOn  == High(Message("CancelForcedOn", \h15, Nothing, <<ByteField("channel", 0)>>))
CancelInhibit   == High(Message("CancelInhibit", \h17, Nothing, <<ByteField("channel", 0)>>))
-----------------------------------------------------------------------------
(* Names *)
NamePart(name, code, need) ==
    Message(name, code, need, <<ChannelField("channel", 0), StringField("name", 1)>>)
ChannelNamePart1Message == NamePart("ChannelNamePart1Message", \hF0, 7)
ChannelNamePart2Message == NamePart("ChannelNamePart2Message", \hF1, 7)
ChannelNamePart3Message == NamePart("ChannelNamePart3Message", \hF2, 5)
ChannelNamePart1Message2 == RefinedRead(ChannelNamePart1Message, "ChannelNamePart1Message2", ByteField("channel", 0))
ChannelNamePart2Message2 == RefinedRead(ChannelNamePart2Message, "ChannelNamePart2Message2", ByteField("channel", 0))
ChannelNamePart3Message2 == RefinedRead(ChannelNamePart3Message, "ChannelNamePart3Message2", ByteField("channel", 0))
TwoBits == BitField("channel", 0, 1, 2)
ChannelNamePart1Message3 == [RefinedRead(ChannelNamePart1Message, "ChannelNamePart1Message3", TwoBits) EXCEPT !.need = 5]
ChannelNamePart2Message3 == [RefinedRead(ChannelNamePart2Message, "ChannelNamePart2Message3", TwoBits) EXCEPT !.need = 5]
ChannelNamePart3Message3 == RefinedRead(ChannelNamePart3Message, "ChannelNamePart3Message3", TwoBits)

ChannelNameRequestMessage == Message("ChannelNameRequestMessage", \hEF, 1, <<ChannelsField("channels", 0)>>)
ChannelNameRequestMessage2 == Refined(ChannelNameRequestMessage, "ChannelNameRequestMessage2",
    Kind(ChannelsField("channels", 0), "blinds"))
ChannelNameRequestMessage3 == Refined(ChannelNameRequestMessage, "ChannelNameRequestMessage3", ByteField("channels", 0))

(* LEDs *)
Leds(name, code) == Message(name, code, 1, <<ChannelsField("leds", 0)>>)
ClearLedMessage == Leds("ClearLedMessage", \hF5)
SetLedMessage == Leds("SetLedMessage", \hF6)
SlowBlinkingLedMessage == Leds("SlowBlinkingLedMessage", \hF7)
FastBlinkingLedMessage == Leds("FastBlinkingLedMessage", \hF8)
VeryFastBlinkingLedMessage == Leds("VeryFastBlinkingLedMessage", \hF9)
UpdateLedStatusMessage == Message("UpdateLedStatusMessage", \hF4, 3,
    <<ChannelsField("led_on", 0), ChannelsField("led_slow_blinking", 1), ChannelsField("led_fast_blinking", 2)>>)
-----------------------------------------------------------------------------
(* Counters *)
CounterFields ==
    <<Plus(ComputedField("channel", 0, 1, 0, 2), 1), Times(ComputedField("pulses", 0, 1, 2, 6), 100),
      Int32Field("counter", 1), Int16Field("delay", 5),
      PlainField("kwh", <<0>>), PlainField("watt", <<0>>)>>
CounterStatusMessage == ReceiveOnly(AnyPriority(Message("CounterStatusMessage", \hBE, 7, CounterFields)))
(* kwh and watt are computed from the others: see PostError. *)
KwhStatusMessage == ReceiveOnly(AnyPriority(Message("KwhStatusMessage", \hBE, 7, CounterFields)))
CounterStatusRequestMessage == Sends(Message("CounterStatusRequestMessage", \hBD, 2, <<>>),
    <<ChannelsField("channels", 0), Constant(1, <<0>>)>>)
CounterValueMessage == ReceiveOnly(AnyPriority(Message("CounterValueMessage", \hA4, 7,
    <<Plus(ComputedField("channel", 0, 1, 4, 4), 1), ComputedField("power", 0, 3, 0, 20),
      Int32Field("energy", 3)>>)))

(* DALI *)
DaliDeviceSettingMsg == ReceiveOnly(Message("DaliDeviceSettingMsg", \hE8, 2,
    <<ByteField("channel", 0), Kind(RawTailField("data", 1), "setting")>>))
DaliDeviceSettingsRequest == Sends(Message("DaliDeviceSettingsRequest", \hE7, 2,
    <<Default(ByteField("channel", 0), <<>>), Default(Kind(BitField("data_source", 1, 0, 8), "source"), <<>>),
      Field("settings", "optional", 2, 0, <<>>)>>),
    <<ByteField("channel", 0), Constant(1, <<0>>), Field("settings", "optional", 2, 0, <<>>)>>)
DimValueStatus == Message("DimValueStatus", \hA5, 2, <<ByteField("channel", 0), RawTailField("dim_values", 1)>>)

(* Dimmers *)
Transition == Kind(Int16Field("dimmer_transitiontime", 2), "unsigned")
DimmerChannelStatusMessage == Message("DimmerChannelStatusMessage", \hB8, 7,
    <<Default(ChannelField("channel", 0), <<1>>), ByteField("disable_inhibit_forced", 1),
      ByteField("dimmer_state", 2), ByteField("led_status", 3), Int24Field("delay_time", 4)>>)
DimmerStatusMessage == Message("DimmerStatusMessage", \hEE, 7,
    <<ByteField("dimmer_mode", 0), ByteField("dimmer_state", 1), ByteField("led_status", 2),
      Int24Field("delay_time", 3), Unsent(ByteField("dimmer_config", 6)), PlainField("channel", <<1>>)>>)
SetDimmerMessage == High(Message("SetDimmerMessage", \h07, 4,
    <<ChannelsField("dimmer_channels", 0), ByteField("dimmer_state", 1), Transition>>))
SetDimmerMessage2 == Refined(SetDimmerMessage, "SetDimmerMessage2", ChannelIndexField("dimmer_channels", 0))
RestoreDimmerMessage == High(Message("RestoreDimmerMessage", \h11, 4,
    <<ChannelsField("dimmer_channels", 0), ByteField("_padding", 1), Transition>>))
RestoreDimmerMessage2 == Refined(RestoreDimmerMessage, "RestoreDimmerMessage2", ChannelIndexField("dimmer_channels", 0))
SliderStatusMessage == High(Message("SliderStatusMessage", \h0F, 3,
    <<ChannelField("channel", 0), ByteField("slider_state", 1), ByteField("slider_long_pressed", 2)>>))
-----------------------------------------------------------------------------
(* Edge lights: three ways to read and write one command.  apply_to_page is a
   reserved attribute that no byte carries.                                 *)
SetEdgeColorMessage == AnyPriority(Message("SetEdgeColorMessage", \hD4, Nothing,
    <<BitField("apply_background_color", 0, 0, 1), BitField("custom_color_palette", 0, 7, 1),
      BitField("apply_to_left_edge", 1, 0, 1), BitField("apply_to_top_edge", 1, 1, 1),
      BitField("apply_to_right_edge", 1, 2, 1), BitField("apply_to_bottom_edge", 1, 3, 1),
      BitField("color_idx", 2, 0, 5),
      PlainField("apply_continuous_feedback_color", <<0>>), PlainField("apply_to_all_pages", <<0>>),
      PlainField("background_blinking", <<0>>), PlainField("custom_color_priority", <<1>>)>>))
SetCustomColorMessage == Message("SetCustomColorMessage", \hD4, Nothing,
    <<PlainField("palette_idx", <<0>>), PlainField("white_mode", <<0>>), PlainField("saturation", <<127>>),
      PlainField("red", <<0>>), PlainField("green", <<0>>), PlainField("blue", <<0>>)>>)
EdgeSetCustomColor == AnyPriority(Message("EdgeSetCustomColor", \hD4, Nothing,
    <<Default(ByteField("pallet", 0), <<31>>), BitField("rgb", 1, 7, 1), BitField("saturation", 1, 0, 7),
      ByteField("red", 2), ByteField("green", 3), ByteField("blue", 4)>>))

(* Memory *)
MemoryAddress == <<ByteField("high_address", 0), ByteField("low_address", 1)>>
MemoryDataMessage == Message("MemoryDataMessage", \hFE, 3, Append(MemoryAddress, ByteField("data", 2)))
MemoryDataBlockMessage == Message("MemoryDataBlockMessage", \hCC, 6, Append(MemoryAddress, RawTailField("data", 2)))
MemoryDumpRequestMessage == Message("MemoryDumpRequestMessage", \hCB, 0, <<>>)
ReadDataBlockFromMemoryMessage == Message("ReadDataBlockFromMemoryMessage", \hC9, 2, MemoryAddress)
ReadDataFromMemoryMessage == Message("ReadDataFromMemoryMessage", \hFD, 2, MemoryAddress)
WriteDataToMemoryMessage == Message("WriteDataToMemoryMessage", \hFC, 3, Append(MemoryAddress, ByteField("data", 2)))
WriteMemoryBlockMessage == Message("WriteMemoryBlockMessage", \hCA, 6, Append(MemoryAddress, RawTailField("data", 2)))
WriteModuleAddressAndSerialNumberMessage == Firmware(Message("WriteModuleAddressAndSerialNumberMessage", \h6A, 6,
    <<ByteField("module_type", 0), Int16Field("current_serial", 1), ByteField("module_address", 3),
      Int16Field("new_serial", 4)>>))
MemoTextMessage == Sends(Message("MemoTextMessage", \hAC, Nothing,
    <<ByteField("start", 1), StringField("name", 2), PlainField("memo_text", <<>>)>>),
    <<Constant(0, <<0>>), ByteField("start", 1), Field("memo_text", "utf8", 2, 0, <<>>)>>)
-----------------------------------------------------------------------------
(* What a module is and how it does *)
TypeFields == <<ByteField("module_type", 0), Field("serial", "unlessOld", 1, 2, <<0>>),
                Field("memory_map_version", "unlessOld", 3, 1, <<0>>)>>
ModuleTypeMessage == ReceiveOnly(Message("ModuleTypeMessage", \hFF, Nothing, TypeFields \o
    <<FromEnd("build_year", 2), FromEnd("build_week", 1)>>))
ModuleType2Message == ReceiveOnly(Message("ModuleType2Message", \hFF, Nothing, TypeFields \o
    <<FromEnd("build_year", 3), FromEnd("build_week", 2), FromEnd("term", 1)>>))
ModuleTypeRequestMessage == Rtr(Message("ModuleTypeRequestMessage", Nothing, 0, <<>>))
ModuleSubTypeMessage == ReceiveOnly(Message("ModuleSubTypeMessage", \hB0, Nothing,
    <<ByteField("module_type", 0), ComputedField("serial", 1, 2, 0, 16),
      ByteField("sub_address_1", 3), ByteField("sub_address_2", 4),
      ByteField("sub_address_3", 5), ByteField("sub_address_4", 6)>>))

ModuleStatusRequestMessage == Message("ModuleStatusRequestMessage", \hFA, 1, <<ChannelsField("channels", 0)>>)
LedStates == <<ChannelsField("closed", 0), ChannelsField("led_on", 1),
               ChannelsField("led_slow_blinking", 2), ChannelsField("led_fast_blinking", 3)>>
ModuleStatusMessage == Message("ModuleStatusMessage", \hED, 4, LedStates)
IRReceiverStatusMessage == Message("IRReceiverStatusMessage", \hEB, 4, LedStates)
Program == BitField("selected_program", 5, 0, 2)
ModuleStatusMessage2 == Message("ModuleStatusMessage2", \hED, 6,
    <<ChannelsField("closed", 0), ChannelsField("enabled", 1), ChannelsField("normal", 2),
      ChannelsField("locked", 3), ChannelsField("programenabled", 4), Sent(Program)>>)
ModuleStatusPirMessage == ReceiveOnly(Message("ModuleStatusPirMessage", \hED, 7,
    <<BitField("dark", 0, 0, 1), BitField("light", 0, 1, 1), BitField("motion1", 0, 2, 1),
      BitField("light_motion1", 0, 3, 1), BitField("motion2", 0, 4, 1), BitField("light_motion2", 0, 5, 1),
      BitField("low_temp_alarm", 0, 6, 1), BitField("high_temp_alarm", 0, 7, 1),
      Int16Field("light_value", 1), Program>>))
ModuleStatusGP4PirMessage == ReceiveOnly(Message("ModuleStatusGP4PirMessage", \hED, 7,
    <<ChannelsField("closed", 0), ChannelsField("enabled", 1), ChannelsField("locked", 3),
      Field("light_value", "light", 1, 2, <<0>>), ChannelsField("programenabled", 4), Program,
      ByteField("light_value_send_interval", 6)>>))
LightValueRequest == Message("LightValueRequest", \hAA, Nothing, <<>>)
PushButtonStatusMessage == High(Message("PushButtonStatusMessage", \h00, 3,
    <<ChannelsField("closed", 0), ChannelsField("opened", 1), ChannelsField("closed_long", 2)>>))
SelectProgramMessage == Message("SelectProgramMessage", \hB3, 1, <<Sent(BitField("select_program", 0, 0, 2))>>)

(* Power supplies *)
PsuLoadMessage == Message("PsuLoadMessage", \hA2, 4,
    <<ByteField("mode", 0), ByteField("load_1", 1), ByteField("load_2", 2), ByteField("out", 3)>>)
PsuValuesMessage == Message("PsuValuesMessage", \hA3, 7,
    <<ComputedField("channel", 0, 1, 4, 4), ComputedField("watt", 0, 3, 0, 20),
      ComputedField("volt", 3, 2, 0, 16), ComputedField("amp", 5, 2, 0, 16)>>)

(* Sensors: populate() of their own *)
MeteoRawMessage == ReceiveOnly(AnyPriority(Message("MeteoRawMessage", \hA9, 6,
    <<Int16Field("rain", 0), Int16Field("light", 2), Int16Field("wind", 4)>>)))
SensorRawMessage == ReceiveOnly(AnyPriority(Message("SensorRawMessage", \hA9, 5,
    <<ByteField("sensor", 0), ByteField("mode", 1), Int24Field("value", 2)>>)))
-----------------------------------------------------------------------------
(* Relays *)
RelayStatusMessage == Message("RelayStatusMessage", \hFB, 7,
    <<ChannelField("channel", 0), ByteField("disable_inhibit_forced", 1), ByteField("status", 2),
      ByteField("led_status", 3), Int24Field("delay_time", 4)>>)
RelayStatusMessage2 == [RelayStatusMessage EXCEPT !.name = "RelayStatusMessage2"]
RelayStatusMessage3 == ReceiveOnly(Message("RelayStatusMessage3", \hFB, 7,
    <<ByteField("status_bits", 0), ByteField("inhibited_bits", 1), ByteField("forced_on_bits", 2),
      ByteField("forced_off_bits", 3), ByteField("program_disabled_bits", 4),
      ByteField("interval_timer_bits", 5), ByteField("alarm_bits", 6)>>))
SwitchRelayOnMessage == High(Message("SwitchRelayOnMessage", \h02, 1, <<ChannelsField("relay_channels", 0)>>))
SwitchRelayOffMessage == High(Message("SwitchRelayOffMessage", \h01, 1, <<ChannelsField("relay_channels", 0)>>))
(* Version 2.0 modules take the number of the channel. *)
SwitchRelayOnMessage20 == Sends([SwitchRelayOnMessage EXCEPT !.name = "SwitchRelayOnMessage20"],
    <<ChannelIndexField("relay_channels", 0)>>)
SwitchRelayOffMessage20 == Sends([SwitchRelayOffMessage EXCEPT !.name = "SwitchRelayOffMessage20"],
    <<ChannelIndexField("relay_channels", 0)>>)
TimedRelay == <<ChannelsField("relay_channels", 0), Int24Field("delay_time", 1)>>
StartRelayTimerMessage == High(Message("StartRelayTimerMessage", \h03, 4, TimedRelay))
StartRelayBlinkingTimerMessage == High(Message("StartRelayBlinkingTimerMessage", \h0D, 4, TimedRelay))
-----------------------------------------------------------------------------
(* The clock *)
RealtimeClockStatusRequest == Message("RealtimeClockStatusRequest", \hD7, Nothing, <<>>)
SetRealtimeClock == Message("SetRealtimeClock", \hD8, 3,
    <<Default(ByteField("_wday", 0), <<>>), Default(ByteField("_hour", 1), <<>>), Default(ByteField("_min", 2), <<>>)>>)
SetDate == Message("SetDate", \hB7, 4,
    <<Default(ByteField("_day", 0), <<>>), Default(ByteField("_mon", 1), <<>>), Default(Int16Field("_year", 2), <<>>)>>)
SetDaylightSaving == Message("SetDaylightSaving", \hAF, 1, <<Default(ByteField("_ds", 0), <<>>)>>)
-----------------------------------------------------------------------------
(* Thermostats *)
SensorSettingsRequestMessage == Rtr(Message("SensorSettingsRequestMessage", \hE7, 0, <<>>))
SensorTempRequest == Sends(Message("SensorTempRequest", \hE5, Nothing, <<>>),
    <<Field("autosend_interval", "optional", 0, 0, <<>>)>>)
SensorTemperatureMessage == ReceiveOnly(AnyPriority(Message("SensorTemperatureMessage", \hE6, 6,
    <<TemperatureField("cur", 0), TemperatureField("min", 2), TemperatureField("max", 4)>>)))
SetTemperatureMessage == Message("SetTemperatureMessage", \hE4, 2,
    <<Sent(PlainField("temp_type", <<0>>)), [HalfDegreeField("temp", 1) EXCEPT !.kind = "setHalf", !.size = 1]>>)
SwitchTo(name, code) == Sends(AnyPriority(Message(name, code, Nothing, <<>>)), <<Int16Field("sleep", 0)>>)
SwitchToComfortMessage == SwitchTo("SwitchToComfortMessage", \hDB)
SwitchToDayMessage == SwitchTo("SwitchToDayMessage", \hDC)
SwitchToNightMessage == SwitchTo("SwitchToNightMessage", \hDD)
SwitchToSafeMessage == SwitchTo("SwitchToSafeMessage", \hDE)
TempSetCoolingMessage == Sends(AnyPriority(Message("TempSetCoolingMessage", \hDF, Nothing, <<>>)), <<Constant(0, <<\hAA>>)>>)
TempSetHeatingMessage == Sends(AnyPriority(Message("TempSetHeatingMessage", \hE0, Nothing, <<>>)), <<Constant(0, <<\hAA>>)>>)
TempSensorSettingsRequest == Message("TempSensorSettingsRequest", \hE7, Nothing, <<>>)

Halves(names, from) == [i \in DOMAIN names |-> HalfDegreeField(names[i], from + i - 1)]
TempSensorSettingsPart1 == Message("TempSensorSettingsPart1", \hE8, 7,
    Halves(<<"current_set", "comfort_heating", "day_heating", "night_heating", "antifreeze_heating",
             "temp_difference">>, 0)
    \o <<Field("hysteresis", "optional", 6, 0, <<0>>)>>)
TempSensorSettingsPart2 == Message("TempSensorSettingsPart2", \hE9, 7,
    Halves(<<"comfort_cooling", "day_cooling", "night_cooling", "safe_cooling">>, 0)
    \o <<Int16Field("default_sleep_timer", 4), ByteField("autosend_interval", 6)>>)
TempSensorSettingsPart3 == Classic(Message("TempSensorSettingsPart3", \hC6, 6,
    Halves(<<"alarm_low", "alarm_high", "cool_lower", "heat_upper", "calibration">>, 0)
    \o <<Default(ByteField("slave_or_zone", 5), <<255>>), Field("calibration_gain", "optional", 6, 0, <<0>>)>>), 6)
TempSensorSettingsPart4 == Classic(Message("TempSensorSettingsPart4", \hB9, 1,
    <<ByteField("min_switching_time", 0), Field("pump_delayed_on", "optional", 1, 0, <<0>>),
      Field("pump_delayed_off", "optional", 2, 0, <<0>>)>>
    \o Halves(<<"alarm_2", "alarm_3", "heat_lower", "cool_upper">>, 3)), 1)
TempSensorStatusMessage == ReceiveOnly(AnyPriority(Message("TempSensorStatusMessage", \hEA, 7,
    <<BitField("local_control", 0, 0, 1), Times(BitField("status_mode", 0, 1, 2), 2),
      Times(BitField("auto_send", 0, 3, 1), 8),
      Kind(Times(BitField("mode", 0, 4, 3), 16), "modeName"), BitField("cool_mode", 0, 7, 1),
      BitField("heater", 2, 0, 1), BitField("boost", 2, 1, 1), BitField("pump", 2, 2, 1), BitField("cooler", 2, 3, 1),
      BitField("alarm1", 2, 4, 1), BitField("alarm2", 2, 5, 1), BitField("alarm3", 2, 6, 1), BitField("alarm4", 2, 7, 1),
      HalfDegreeField("current_temp", 3), HalfDegreeField("target_temp", 4),
      Default(Int16Field("sleep_timer", 5), <<>>)>>)))
-----------------------------------------------------------------------------
(* What populate() raises before it sets anything: the priority, rtr or length
   is not the class's own (ParserError), len() of no body (TypeError).       *)
Refuses(m, prio, rtr, d) ==
    CASE m.prio # "any" /\ prio # m.prio -> "ParserError"
      [] rtr # m.rtr -> "ParserError"
      [] m.need = 0 /\ d # <<>> -> "ParserError"
      [] m.need > 0 /\ d = <<>> -> "TypeError"
      [] m.need > 0 /\ Len(d) < m.need /\ d # <<>> -> "ParserError"
      [] OTHER -> "none"

(* The first field that cannot be parsed, and _post_populate() of a kWh counter,
   which divides by pulses and by delay times pulses.                       *)
FieldError(m, d) ==
    LET errors == [i \in DOMAIN m.fields |-> ParseError(m.fields[i], d)]
        bad    == {i \in DOMAIN errors : errors[i] # "none"}
    IN  IF bad # {} THEN errors[Min(bad)]
        ELSE IF m.name = "KwhStatusMessage" /\ (BitsOf(d[1], 2, 6) = 0 \/ Number(d, 5, 2) = 0)
             THEN "ZeroDivisionError" ELSE "none"

(* The attributes of a message: its fields and what else data_to_binary() writes,
   which __init__() sets and populate() leaves alone.                       *)
Fields(m) == ToSet(m.fields) \cup {f \in ToSet(m.out) : f.name \notin {g.name : g \in ToSet(m.fields)} \cup {NoName}}
Attributes(m) == {f.name : f \in Fields(m)}

Populated(m, d) ==
    [n \in Attributes(m) |-> LET f == CHOOSE g \in Fields(m) : g.name = n
                             IN  IF f \in ToSet(m.fields) THEN Parsed(f, d) ELSE f.default]

(* on_message() writes the message to its log, as JSON: DSTATUS of a blind knows
   no fourth state.                                                         *)
JsonError(m, a) ==
    IF \/ m.name \in {"BlindStatusNgMessage", "BlindStatusMessage", "BlindStatusNg20Message"} /\ a["status"][1] > 2
       \/ m.name = "BlindStatusNg20Message" /\ a["status2"][1] > 2
    THEN "KeyError" ELSE "none"
-----------------------------------------------------------------------------
(* data_to_binary() of the classes that put several attributes in one byte. *)
If(flag, weight) == IF flag = <<0>> THEN 0 ELSE weight

Packed(name, a) ==
    CASE name = "PsuValuesMessage" ->
           LET watt == a["watt"][1]
               volt == a["volt"][1]
               amp  == a["amp"][1]
           IN  <<16 * BitsOf(a["channel"][1], 0, 4) + BitsOf(watt, 16, 4), BitsOf(watt, 8, 8), BitsOf(watt, 0, 8),
                 BitsOf(volt, 8, 8), BitsOf(volt, 0, 8), BitsOf(amp, 8, 8), BitsOf(amp, 0, 8)>>
      [] name = "SetEdgeColorMessage" ->
           <<If(a["custom_color_palette"], 128) + If(a["apply_background_color"], 1)
               + If(a["apply_continuous_feedback_color"], 2),
             If(a["apply_to_all_pages"], 128) + If(a["apply_to_bottom_edge"], 8)
               + If(a["apply_to_right_edge"], 4) + If(a["apply_to_top_edge"], 2) + If(a["apply_to_left_edge"], 1),
             If(a["background_blinking"], 128) + 32 * a["custom_color_priority"][1] + (a["color_idx"][1] % 32)>>
      [] name = "SetCustomColorMessage" ->
           <<a["palette_idx"][1] % 32, If(a["white_mode"], 128) + (a["saturation"][1] % 128),
             a["red"][1], a["green"][1], a["blue"][1]>>
      [] name = "EdgeSetCustomColor" ->
           <<a["pallet"][1], 128 * a["rgb"][1] + a["saturation"][1], a["red"][1], a["green"][1], a["blue"][1]>>

PackedNames == {"PsuValuesMessage", "SetEdgeColorMessage", "SetCustomColorMessage", "EdgeSetCustomColor"}

(* The fields written, in a thermostat's layout. *)
Written(m, classic) == IF classic /\ m.classic > 0 THEN SubSeq(m.out, 1, m.classic) ELSE m.out

(* The attribute a field writes. *)
Attribute(f, a) == IF f.name = NoName THEN f.default ELSE a[f.name]

(* data_to_binary() without the command byte, when bytes() takes the values. *)
Body(m, a, classic) ==
    IF m.name \in PackedNames THEN Packed(m.name, a)
    ELSE FlattenSeq([i \in DOMAIN Written(m, classic) |->
                        Serialized(Written(m, classic)[i], Attribute(Written(m, classic)[i], a))])

Writable(m, a, classic) ==
    IF m.name \in PackedNames THEN ToSet(Packed(m.name, a)) \subseteq Octet
    ELSE \A i \in DOMAIN Written(m, classic) :
            Encodable(Written(m, classic)[i], Attribute(Written(m, classic)[i], a))
=============================================================================
