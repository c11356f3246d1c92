--------------------------- MODULE MCDeviceCodec ---------------------------
(***************************************************************************)
(* DeviceCodec with every codec of the repository.                         *)
(***************************************************************************)
EXTENDS DeviceCodec, CodecsAM, CodecsEM, CodecsVS, CodecsWS, CodecsWT, CodecsUC, CodecsTS

AllCodecs ==
    AMCodecs @@ AMVariants @@ EMCodecs @@ EMVariants @@ VSCodecs @@ VSVariants
    @@ WSCodecs @@ WS50xVariants @@ WSVariants @@ WS558Variants @@ WTCodecs @@ WT30xCodecs
    @@ [WT304 |-> WT304Codec]
    @@ UCCodecs @@ UCVariants @@ TSCodecs @@ [TS602 |-> TS602Codec]

\* what decode() does not read in full when it is answered
KnownDisagreements ==
    {"EM300DI", "EM300DIHALL"} \X {"clear_counter"}
    \cup {"GS101"} \X {"set_time_zone"}
    \cup {"GS301"} \X {"set_nh3_calibration", "set_h2s_calibration"}
    \cup {"GS601"} \X {"set_daylight_saving_time"}
    \cup {"TS301"} \X {"set_child_lock"}
    \cup {"TS601", "TS602"} \X {"reboot"}
    \cup {"UC100", "UC100v1"} \X {"remove_modbus_channel"}
    \cup {"UC511", "UC512"} \X {"set_lorawan_class_switch"}
    \cup {"VS121"} \X {"set_log_level"}
    \cup {"VS132"} \X {"set_report_interval"}
    \cup {"WS503CN", "WS503xCN", "WS502CN", "WS501CN"}
            \X {"set_rule_config", "query_rule_config", "query_all_rule_config", "set_time_zone"}
    \cup {"WT102"} \X {"set_temp_control_mode"}
    \cup {"WT201"} \X {"reboot"}
    \cup {"WT201", "WT201v1"} \X {"set_temperature_level_up_condition"}
    \cup {"CTH01"} \X {"set_current_interface"}
    \cup {"WT304"} \X {"set_interface_valve_2_pipe_10v_fan_ec", "set_interface_valve_2_pipe_2_wire_fan_ec",
                       "set_interface_valve_4_pipe_2_wire_fan_ec", "set_interface_valve_2_pipe_3_wire_fan_ec",
                       "set_valve_control_adjustment_range", "set_valve_opening_range",
                       "set_valve_control_interval", "set_valve_output_0v_enable",
                       "set_fan_ec_low_threshold", "set_fan_ec_mid_threshold", "set_fan_ec_high_threshold"}

\* offered and refused
KnownRefused ==
    {"EM300SLD", "EM300ZLD"} \X {"set_collection_interval"}
    \cup {"EM300TH"} \X {"clear_history"}
    \cup {"UC521"} \X {"set_history_enable", "clear_history", "stop_transmit", "fetch_history"}

\* may become an empty downlink
KnownSilent ==
    {"EM500CO2"} \X {"set_sensor_function"}
    \cup {"TS201v2", "TS301v2"} \X {"query_config"}
    \cup {"UC300"} \X {"set_jitter_config"}
    \cup {"UC521"} \X {"query_valve_opening_duration"}
    \cup {"WS558", "WS558x868", "WS558x868M", "WS558x915"} \X {"cancel_delay_task"}
    \cup {"WT201"} \X {"sync_time", "set_dual_temperature_tolerance"}
    \cup {"WT201v1"} \X {"sync_time", "stop_transmit", "clear_history"}

\* a type no codec has a branch for
Unheard == {\h9e}

KnownBrittle == {"GS301", "UC100", "WT101", "WT102", "WTS506"}
=============================================================================
