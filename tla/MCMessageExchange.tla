-------------------------- MODULE MCMessageExchange --------------------------
EXTENDS MessageExchange

(* global.json *)
Common == {ReadDataBlockFromMemoryMessage, WriteMemoryBlockMessage, MemoryDumpRequestMessage,
    MemoryDataBlockMessage, BusErrorStatusRequestMessage, BusErrorCounterStatusMessage,
    ModuleStatusRequestMessage, WriteDataToMemoryMessage, ReadDataFromMemoryMessage, MemoryDataMessage}

MCTypes == {"VMB2BL", "VMB2BLE-10", "VMB2BLE-20", "VMB4RY", "VMB1RYS-20", "VMB4RYLD-20", "VMB8IR",
    "VMB7IN", "VMB8IN-20", "VMBPIRM", "VMBGP4PIR", "VMB4DC", "VMBDME", "VMBELO", "VMBDALI", "VMBMETEO",
    "VMB4AN", "VMBPSUMNGR-20", "VMBSIG"}

(* Of each type's specification the commands that tell it from the others here;
   together they hold every class the specifications name.                  *)
MCCommandToClass == [t \in MCTypes |->
    CASE t = "VMB2BL" -> {BlindStatusMessage, CoverUpMessage2, CoverDownMessage2, CoverOffMessage2,
             ChannelNamePart1Message3, ChannelNamePart2Message3, ChannelNamePart3Message3,
             ChannelNameRequestMessage2, ModuleTypeMessage}
      [] t = "VMB2BLE-10" -> {BlindStatusNgMessage, CoverUpMessage, CoverDownMessage, CoverOffMessage, CoverPosMessage}
      [] t = "VMB2BLE-20" -> {BlindStatusNg20Message, ModuleType2Message}
      [] t = "VMB4RY" -> Common \cup {RelayStatusMessage2, SwitchRelayOnMessage, SwitchRelayOffMessage,
             StartRelayTimerMessage, StartRelayBlinkingTimerMessage, ChannelNamePart1Message,
             ChannelNamePart2Message, ChannelNamePart3Message, ChannelNameRequestMessage,
             ForcedOff, ForcedOn, Inhibit, CancelForcedOff, CancelForcedOn, CancelInhibit}
      [] t = "VMB1RYS-20" -> {RelayStatusMessage, SwitchRelayOnMessage20, SwitchRelayOffMessage20,
             WriteModuleAddressAndSerialNumberMessage, ModuleType2Message}
      [] t = "VMB4RYLD-20" -> {RelayStatusMessage3}
      [] t = "VMB8IR" -> {IRReceiverStatusMessage, PushButtonStatusMessage}
      [] t = "VMB7IN" -> {CounterStatusMessage, CounterStatusRequestMessage, ModuleStatusMessage2,
             SelectProgramMessage, RealtimeClockStatusRequest, SetRealtimeClock, SetDate, SetDaylightSaving}
      [] t = "VMB8IN-20" -> {CounterValueMessage, ModuleStatusMessage}
      [] t = "VMBPIRM" -> {ModuleStatusPirMessage, LightValueRequest, KwhStatusMessage}
      [] t = "VMBGP4PIR" -> {ModuleStatusGP4PirMessage, ModuleSubTypeMessage}
      [] t = "VMB4DC" -> {DimmerChannelStatusMessage, SetDimmerMessage, RestoreDimmerMessage, SliderStatusMessage}
      [] t = "VMBDME" -> {DimmerStatusMessage, SetDimmerMessage2, RestoreDimmerMessage2, DimValueStatus}
      [] t = "VMBELO" -> {SetEdgeColorMessage, MemoTextMessage, SensorTempRequest, SensorTemperatureMessage,
             SetTemperatureMessage, SwitchToComfortMessage, SwitchToDayMessage, SwitchToNightMessage,
             SwitchToSafeMessage, TempSetCoolingMessage, TempSetHeatingMessage, TempSensorSettingsRequest,
             TempSensorSettingsPart1, TempSensorSettingsPart2, TempSensorSettingsPart3, TempSensorSettingsPart4,
             TempSensorStatusMessage, ClearLedMessage, SetLedMessage, SlowBlinkingLedMessage,
             FastBlinkingLedMessage, VeryFastBlinkingLedMessage, UpdateLedStatusMessage,
             ChannelNamePart1Message2, ChannelNamePart2Message2, ChannelNamePart3Message2}
      [] t = "VMBDALI" -> {ChannelNameRequestMessage3, DaliDeviceSettingMsg, DaliDeviceSettingsRequest}
      [] t = "VMBMETEO" -> {MeteoRawMessage}
      [] t = "VMB4AN" -> {SensorRawMessage}
      [] t = "VMBPSUMNGR-20" -> {PsuLoadMessage, PsuValuesMessage}
      [] t = "VMBSIG" -> {BusActiveMessage, BusOffMessage, InterfaceStatusRequestMessage,
             ReceiveBufferFullMessage, ReceiveReadyMessage}]

MCDirectClasses == {ModuleTypeRequestMessage, SensorSettingsRequestMessage, SetCustomColorMessage, EdgeSetCustomColor}
MCBroadcast == {\h09, \h0B, \h0C, \h0E, \hAF, \hB7, \hD7, \hD8}
MCIgnored == {\hC9, \hCA, \hCB, \hFC, \hFD}
MCHeaders == {[prio |-> p, rtr |-> r] : p \in {"low", "high", "firmware"}, r \in {FALSE}}
             \cup {[prio |-> "low", rtr |-> TRUE]}

(* Every length; of the long bodies each with one byte that stands out. *)
Background == {0, 1, 255}
Byte == {0, 1, 2, 3, 4, 6, 8, 12, 16, 31, 48, 64, 96, 127, 128, 200, 255}
MCBodies == {[i \in 1 .. n |-> b] : n \in 0 .. 7, b \in Background}
            \cup {[i \in 1 .. 7 |-> IF i = k THEN b ELSE o] : k \in 1 .. 7, b \in Byte, o \in Background}
            \cup {<<21, 5, 128>>, <<7, 21, 5, 128>>, <<7, 25, 4>>, <<7, 1>>}

(* The values of an attribute at the edges of what its kind takes, and beyond. *)
MCSamples(f) ==
    CASE f.kind \in {"number", "unsigned"} /\ f.width < 8 -> {<<n>> : n \in 0 .. 2^f.width - 1}
      [] f.kind = "number" /\ f.size = 1 /\ f.width = 8 -> {<<0>>, <<1>>, <<128>>, <<255>>, <<256>>}
      [] f.kind = "number" /\ f.size = 2 /\ ~ f.sent -> {<<0>>, <<255>>, <<256>>, <<65535>>}
      [] f.kind = "number" /\ f.size = 2 -> {<<0>>, <<255>>, <<256>>, <<65535>>, <<65536>>}
      [] f.kind \in {"unsigned", "cut"} -> {<<0>>, <<258>>, <<65535>>}
      [] f.kind = "number" /\ f.size = 3 -> {<<0>>, <<256>>, <<66051>>, <<1048575>>}
      [] f.kind = "wide" -> {<<0, 0>>, <<1, 2>>, <<65535, 32768>>}
      [] f.kind = "channels" -> {<<>>, <<1>>, <<2, 8>>, <<1, 2, 3, 4, 5, 6, 7, 8>>}
      [] f.kind = "channel" -> {<<1>>, <<3>>, <<8>>, <<9>>}
      [] f.kind = "index" -> {<<1>>, <<2>>, <<16>>}
      [] f.kind = "blind" -> {<<1>>, <<2>>}
      [] f.kind = "blinds" -> {<<>>, <<1>>, <<2>>, <<1, 2>>}
      [] f.kind \in {"half", "setHalf"} -> {<<-128>>, <<-1>>, <<0>>, <<43>>, <<127>>}
      [] f.kind = "optional" -> {<<0>>, <<1>>, <<254>>}
      [] f.kind = "tail" -> {<<0, 0, 0, 0>>, <<1, 2, 3, 255>>}
      [] f.kind = "text" -> {<<76, 97, 109, 112, 101, 114>>, <<65, 66, 67, 68, 69, 233, 70>>}
      [] f.kind = "utf8" -> {<<>>, <<65, 66>>, <<65, 66, 67, 68, 69>>, <<233, 232, 231, 230, 229>>}
      [] f.kind = "source" -> {<<0>>}
      [] OTHER -> {f.default}
=============================================================================
