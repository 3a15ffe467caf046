--------------------------- MODULE MCTempSettings ---------------------------
(* A VMB1TC: classic layout, no fourth part; two settings share a part. *)
EXTENDS TempSettings

MCAdvertised == {<<0, "TempSensorSettingsRequest">>}
                \cup {<<p, "TempSensorSettingsPart">> : p \in 1 .. 3}
MCKeys == {"comfort_heating", "hysteresis", "autosend_interval", "day_cooling", "calibration_gain", "alarm_2"}
MCChanges == {<<"comfort_heating", 2>>, <<"hysteresis", 3>>, <<"autosend_interval", 4>>,
              <<"autosend_interval", 256>>, <<"alarm_2", 2>>}
=============================================================================
