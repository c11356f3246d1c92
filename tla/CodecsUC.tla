---------------------------- MODULE CodecsUC ----------------------------
(***************************************************************************)
(* The codecs of the controllers of the UC series, and the AT, CT, CTH, DS *)
(* and FT models: which block each reads from an uplink and how long it is *)
(* (Decode), which block each command becomes (Encode), which commands it  *)
(* advertises (Offered), and the channels its device answers on.           *)
(* CodecBlocks explains the notation.                                      *)
(***************************************************************************)
EXTENDS CodecBlocks

\* uc/uc100.codec.ts

UC100Replies ==
    Blocks(1, {\h04, \h10, \h27, \h28, \h4a, \h68, \h69})
    @@ Blocks(2, {\h03, \hbd})
    @@ Blocks(3, {\h2ef})
    @@ Blocks(4, {\hef, \h3ef})
    @@ Blocks(5, {\h4ef})
    @@ Blocks(7, {\h1ef})
\* a condition or an action of a rule, each with a length of its own; a command or a message
\* in it brings its length along
UC100RuleConfig ==
    Blocks(2, {\h7d})
    @@ Blocks(3, {\h37d})
    @@ Blocks(4, {\h47d})
    @@ Blocks(5, {\h57d})
    @@ Blocks(6, {\h67d})
    @@ Blocks(7, {\h77d})
    @@ Blocks(8, {\h87d})
    @@ Blocks(9, {\h17d})
    @@ Blocks(20, {\h27d})
UC100ExtReplies ==
    Blocks(1, {\h77, \h7a})
    @@ Blocks(2, {\h0e})
    @@ Blocks(3, {\h0d, \h76})
    @@ Blocks(7, {\h78, \h79})
    @@ Blocks(9, {\h72})
    @@ UC100RuleConfig
UC100Uplink ==
    Blocks(1, {\hff01, \hff0b, \hff0f, \hff15, \hfffe})
    @@ Blocks(2, {\hff09, \hff0a, \hffff})
    @@ Blocks(3, {\hf973})
    @@ Blocks(4, {\h1f973})
    @@ Blocks(5, {\h21cd})
    @@ Blocks(6, {\h121cd, \h2f973})
    @@ Blocks(7, {\h221cd})
    @@ Blocks(8, {\hff16})
    @@ Blocks(9, {\hf974})
    @@ Blocks(10, {\h3f973})
    @@ Blocks(23, {\h21ce})
UC100Decode ==
    UC100Uplink
    @@ Channels(1, {\hfc})
    @@ On({\hfe, \hff}, UC100Replies, Throws)
    @@ On({\hf9}, UC100ExtReplies, Throws)
    @@ On({\hf8}, WithResult(UC100ExtReplies), Throws)
UC100BatchRules ==
    Frames(3, [batch_enable_rules |-> \hf976, batch_disable_rules |-> \hf976, batch_remove_rules |-> \hf976])
UC100Encode ==
    Frames(1, [reboot |-> \hff10, report_status |-> \hff28, sync_time |-> \hff4a, clear_history |-> \hff27,
                query_modbus_serial_port_config |-> \hf97a, query_modbus_config |-> \hf97a,
                set_confirm_mode |-> \hff04, set_history_enable |-> \hff68, set_retransmit_enable |-> \hff69,
                query_rule_config |-> \hf977])
    @@ Frames(2, [set_report_interval |-> \hff03, set_time_zone |-> \hffbd, set_resend_interval |-> \hf90e])
    @@ Frames(3, [set_retransmit_config |-> \hf90d, remove_modbus_channel |-> \hffef])
    @@ UC100BatchRules
    @@ Frames(7, [set_modbus_serial_port_config |-> \hf978, set_modbus_config |-> \hf979,
                set_modbus_channel |-> \h1ffef])
    @@ Frames(9, [set_dst |-> \hf972])
    @@ [fetch_history |-> {One(\hfd6b, 4), One(\hfd6c, 8)},
        set_modbus_channel_name |-> {One(\h2ffef, 3), One(\h3ffef, 4), One(\h4ffef, 5)}]
UC100Offered ==
    {"reboot", "report_status", "sync_time", "clear_history", "query_modbus_serial_port_config",
     "query_modbus_config", "set_report_interval", "set_time_zone", "set_history_enable",
     "set_retransmit_enable", "set_retransmit_config", "set_modbus_channel", "remove_modbus_channel",
     "set_modbus_serial_port_config", "fetch_history", "query_rule_config", "batch_enable_rules",
     "batch_remove_rules"}

\* uc/uc100v1.codec.ts

UC100v1Replies ==
    Blocks(1, {\h04, \h10, \h27, \h68, \h69})
    @@ Blocks(2, {\h03})
    @@ Blocks(3, {\h6a, \h2ef})
    @@ Blocks(4, {\hef, \h3ef})
    @@ Blocks(5, {\h4ef})
    @@ Blocks(7, {\h1ef})
UC100v1Decode ==
    Blocks(1, {\hff01, \hff0b, \hff0f, \hff15, \hfffe})
    @@ Blocks(2, {\hff09, \hff0a, \hffff})
    @@ Blocks(4, {\hff19, \hffee})
    @@ Blocks(5, {\h20cd, \h1ff19, \h1ffee})
    @@ Blocks(6, {\h120cd})
    @@ Blocks(7, {\hf95f, \h220cd, \h2ff19, \h2ffee})
    @@ Blocks(8, {\hff16})
    @@ Blocks(10, {\h20ce})
    @@ On({\hfe, \hff}, UC100v1Replies, 1)
UC100v1Encode ==
    Frames(1, [reboot |-> \hff10, clear_history |-> \hff27, stop_transmit |-> \hfd6d,
                set_history_enable |-> \hff68, set_retransmit_enable |-> \hff69])
    @@ Frames(2, [set_report_interval |-> \hff03, remove_modbus_channel |-> \hffef])
    @@ Frames(3, [set_retransmit_interval |-> \hff6a, set_resend_interval |-> \hff6a])
    @@ Frames(7, [set_modbus_channel |-> \h1ffef])
    @@ [fetch_history |-> {One(\hfd6b, 4), One(\hfd6c, 8)},
        set_modbus_channel_name |-> {One(\h2ffef, 3), One(\h3ffef, 4), One(\h4ffef, 5)}]
UC100v1Offered ==
    {"reboot", "clear_history", "stop_transmit", "set_report_interval", "set_history_enable",
     "set_retransmit_enable", "set_retransmit_interval", "set_resend_interval", "set_modbus_channel",
     "set_modbus_channel_name", "remove_modbus_channel", "fetch_history"}

\* uc/uc11-n1.codec.ts

UC11N1Decode ==
    Blocks(1, {\h0175, \hff01, \hff0b, \hff0f})
    @@ Blocks(2, {\hff09, \hff0a, \hff0e})
    @@ Blocks(3, {\h1ff0e})
    @@ Blocks(4, {\h04c8, \h2ff0e})
    @@ Blocks(6, {\hff08, \h3ff0e})
    @@ Channels(1, {\h03, \h04})
    @@ Channels(8, {\h05, \h06})

\* uc/uc11-t1.codec.ts

UC11T1Decode ==
    Blocks(1, {\h0268, \h0375, \hff01, \hff0b, \hff0f})
    @@ Blocks(2, {\h0167, \hff09, \hff0a})
    @@ Blocks(6, {\hff08})

\* uc/uc11xx.codec.ts

UC11xxDecode ==
    Blocks(1, {\hff01, \hff0b, \hff0f})
    @@ Blocks(2, {\hff09, \hff0a, \hff0e})
    @@ Blocks(3, {\h1ff0e})
    @@ Blocks(4, {\h01c8, \h02c8, \h2ff0e})
    @@ Blocks(6, {\hff08, \h3ff0e})
    @@ Channels(1, {\h01, \h02, \h09, \h0a})
    @@ Channels(8, {\h11, \h12})

\* uc/uc300.codec.ts

UC300Replies ==
    Blocks(2, {\h02, \h03, \h17})
    @@ Blocks(4, {\h11})
    @@ Blocks(5, {\h91})
    @@ Blocks(6, {\h93})
UC300Uplink1 ==
    Blocks(1, {\h0300, \h0400, \h0500, \h0600, \h0701, \h0801, \hff01, \hff0b, \hff0f, \hfffe})
    @@ Blocks(2, {\h0967, \h0a67, \hff09, \hff0a, \hffff})
    @@ Blocks(4, {\h03c8, \h04c8, \h05c8, \h06c8, \h0b02, \h0c02, \h0d02, \h0e02})
    @@ Blocks(8, {\h09e2, \h0ae2, \h0be2, \h0ce2, \hff16})
UC300Uplink2 ==
    Blocks(1, {\hff15})
    @@ Blocks(4, {\hff19})
    @@ Blocks(5, {\h1ff19})
    @@ Blocks(6, {\h20dc})
    @@ Blocks(7, {\h120dc, \h2ff19})
    @@ Blocks(8, {\h0de2, \h0ee2, \h20dd, \h220dc})
    @@ Blocks(10, {\h120dd})
    @@ Blocks(11, {\h220dd, \h320dc})
    @@ Blocks(13, {\h320dd})
    @@ Blocks(14, {\h420dc})
    @@ Blocks(54, {\h520dc})
UC300Decode ==
    UC300Uplink1
    @@ UC300Uplink2
    @@ On({\hfe, \hff}, UC300Replies, 1)
UC300Encode ==
    Frames(1, [rejoin |-> \hff04, reboot |-> \hff10, sync_time |-> \hff4a, report_status |-> \hff94])
    @@ Frames(2, [set_collection_interval |-> \hff02, set_report_interval |-> \hff03, set_time_zone |-> \hff17])
    @@ Frames(4, [set_timestamp |-> \hff11])
    @@ Frames(6, [set_gpio_output_with_duration |-> \hff93])
    @@ [set_jitter_config |-> Copies(\hff91, 5),
        set_gpio_output |-> {One(\h0700, 1), One(\h0701, 1), One(\h0800, 1), One(\h0801, 1)}]
UC300Offered ==
    {"reboot", "report_status", "sync_time", "rejoin", "set_collection_interval", "set_report_interval",
     "set_time_zone", "set_gpio_output", "set_gpio_output_with_duration", "set_jitter_config"}

\* uc/uc50x.codec.ts

UC50xReplies ==
    Blocks(1, {\h10, \h27, \h28, \h68, \h69})
    @@ Blocks(2, {\h02, \h03, \h17})
    @@ Blocks(3, {\h6a})
    @@ Blocks(4, {\h11})
UC50xUplink1 ==
    Blocks(1, {\h0175, \h0300, \h0301, \h0400, \h0401, \hff01, \hff0b, \hff0f, \hff14, \hfffe})
    @@ Blocks(2, {\hff09, \hff0a, \hffff})
    @@ Blocks(4, {\h03c8, \h04c8})
    @@ Blocks(8, {\h0502, \h05e2, \h0602, \h06e2, \hff16})
UC50xUplink2 ==
    Blocks(1, {\hff15})
    @@ Blocks(3, {\hff0e})
    @@ Blocks(4, {\h800e, \h1ff0e})
    @@ Blocks(5, {\h1800e})
    @@ Blocks(6, {\h20dd, \h20e0, \h2ff0e})
    @@ Blocks(7, {\h2800e})
    @@ Blocks(9, {\h85e2, \h86e2})
    @@ Blocks(11, {\h120dd})
    @@ Blocks(16, {\h220dd})
    @@ Blocks(22, {\h20dc})
    @@ Blocks(37, {\h08db})
    @@ Blocks(42, {\h120e0})
    @@ Blocks(78, {\h220e0})
UC50xDecode ==
    UC50xUplink1
    @@ UC50xUplink2
    @@ On({\hfe, \hff}, UC50xReplies, 1)
UC50xEncode ==
    Frames(1, [reboot |-> \hff10, sync_time |-> \hff4a, report_status |-> \hff28, clear_history |-> \hff27,
                set_history_enable |-> \hff68, set_retransmit_enable |-> \hff69, stop_transmit |-> \hfd6d])
    @@ Frames(2, [set_collection_interval |-> \hff02, set_report_interval |-> \hff03, set_time_zone |-> \hff17])
    @@ Frames(3, [set_retransmit_interval |-> \hff6a, set_resend_interval |-> \hff6a])
    @@ Frames(4, [set_timestamp |-> \hff11])
    @@ [fetch_history |-> {One(\hfd6b, 4), One(\hfd6c, 8)},
        set_gpio_output |-> {One(\h0300, 2), One(\h0301, 2), One(\h0400, 2), One(\h0401, 2)}]
UC50xOffered ==
    {"reboot", "report_status", "sync_time", "clear_history", "stop_transmit", "set_collection_interval",
     "set_report_interval", "set_time_zone", "set_gpio_output", "set_history_enable", "set_retransmit_enable",
     "fetch_history"}

\* uc/uc511.codec.ts

UC511Replies ==
    Blocks(1, {\h27, \h28, \h3b, \h46, \h4a, \h4c, \h68, \h69, \h84, \hf3})
    @@ Blocks(2, {\h02, \h03, \h17, \h4e})
    @@ Blocks(3, {\h4b, \h6a, \hab})
    @@ Blocks(4, {\h1e, \h52})
    @@ Blocks(5, {\h4f, \h92})
    @@ Blocks(6, {\h4d})
    @@ Blocks(8, {\h35})
    @@ Blocks(9, {\h1d})
    @@ Blocks(29, {\h53, \h55})
UC511Uplink1 ==
    Blocks(0, {\hff12})
    @@ Blocks(1, {\h0175, \h0301, \h0501, \h0701, \h0801, \hb97b, \hff01, \hff0b, \hff0f, \hfffe})
    @@ Blocks(2, {\h097b, \hff09, \hff0a, \hffff})
    @@ Blocks(4, {\h04c8, \h06c8})
    @@ Blocks(8, {\hff16})
    @@ Blocks(9, {\h20ce})
UC511Uplink2 ==
    Blocks(2, {\hf8a5})
    @@ Blocks(3, {\h0eaf, \h0faf, \hf8af, \hf9a7})
    @@ Blocks(6, {\h21ce})
    @@ Blocks(7, {\hf9a8})
    @@ Blocks(8, {\hf8a4})
    @@ Blocks(9, {\h0bf5})
    @@ Blocks(28, {\hfe55})
UC511Decode ==
    UC511Uplink1
    @@ UC511Uplink2
    @@ Channels(10, {\hf0})
    @@ On({\hfe, \hff}, UC511Replies, 1)
UC511Encode ==
    Frames(1, [reboot |-> \hff10, report_status |-> \hff28, sync_time |-> \hff4a,
                set_retransmit_enable |-> \hff69, set_sync_time_type |-> \hff3b, set_d2d_enable |-> \hff84,
                set_response_enable |-> \hfff3, set_history_enable |-> \hff68, clear_history |-> \hff27,
                stop_transmit |-> \hfd6d, set_gpio_jitter_time |-> \hff46, query_rule_config |-> \hff4c,
                query_valve_task_status |-> \hf9a5])
    @@ Frames(2, [set_collection_interval |-> \hff02, set_report_interval |-> \hff03, set_time_zone |-> \hff17,
                clear_valve_pulse |-> \hff4e, read_schedule_config |-> \hf9af])
    @@ Frames(3, [set_retransmit_interval |-> \hff6a, set_resend_interval |-> \hff6a,
                batch_read_rules |-> \hff4b, batch_enable_rules |-> \hff4b, batch_remove_rules |-> \hff4b,
                enable_rule |-> \hff4b, remove_rule |-> \hff4b, set_pressure_calibration |-> \hffab])
    @@ Frames(4, [set_class_a_response_time |-> \hff1e, set_pulse_filter_config |-> \hff52])
    @@ Frames(5, [set_valve_pulse |-> \hff92, set_valve_power_supply_config |-> \hff4f])
    @@ Frames(7, [set_ai_collection_config |-> \hf9a8])
    @@ Frames(8, [set_d2d_key |-> \hff35, set_lorawan_class_switch |-> \hf9a4])
    @@ Frames(9, [set_valve_task |-> \hff1d])
    @@ [fetch_history |-> {One(\hfd6b, 4), One(\hfd6c, 8)}]
UC511Offered ==
    {"reboot", "report_status", "sync_time", "clear_history", "stop_transmit", "set_report_interval",
     "set_collection_interval", "set_time_zone", "set_valve_task", "set_valve_pulse", "clear_valve_pulse",
     "set_pressure_calibration", "set_history_enable", "fetch_history"}

\* uc/uc521.codec.ts

UC521Replies ==
    Blocks(1, {\h10, \h28, \h46, \h4a, \h53, \h84, \hf3})
    @@ Blocks(2, {\h4e, \hbd})
    @@ Blocks(3, {\h4b, \h8e})
    @@ Blocks(4, {\h1e, \h52})
    @@ Blocks(5, {\h92})
    @@ Blocks(8, {\h35})
    @@ Blocks(29, {\h55})
UC521ExtReplies ==
    Blocks(1, {\h6e, \h6f, \h70, \h72, \h73, \h74, \h75, \h77})
    @@ Blocks(2, {\h71})
    @@ Blocks(3, {\h19})
    @@ Blocks(4, {\h5b, \h68})
    @@ Blocks(5, {\h119})
    @@ Blocks(7, {\h219})
    @@ Blocks(9, {\h319})
    @@ Blocks(10, {\h1a})
    @@ Blocks(17, {\h76})
UC521Uplink ==
    Blocks(1, {\h0175, \h0701, \h0801, \h0e01, \h0f01, \hb97b, \hba7b, \hff01, \hff0b, \hff0f, \hff2a, \hfffe})
    @@ Blocks(2, {\h03f6, \h05f6, \h097b, \h0a7b, \hb3f6, \hb5f6, \hff09, \hff0a, \hffff, \h1ff2a})
    @@ Blocks(3, {\h2ff2a})
    @@ Blocks(4, {\h04c8, \h06c8, \h0de3})
    @@ Blocks(8, {\hff16})
    @@ Blocks(9, {\h0bf5, \h0cf5})
UC521Decode ==
    UC521Uplink
    @@ On({\hfe, \hff}, UC521Replies, 1)
    @@ On({\hf9}, UC521ExtReplies, 1)
    @@ On({\hf8}, WithResult(UC521ExtReplies), 2)
UC521Encode ==
    Frames(1, [reboot |-> \hff10, report_status |-> \hff28, sync_time |-> \hff4a, set_d2d_enable |-> \hff84,
                set_response_enable |-> \hfff3, set_gpio_jitter_time |-> \hff46, query_rule_config |-> \hff53,
                set_wiring_switch_enable |-> \hf96e, set_valve_change_report_enable |-> \hf96f,
                query_device_config |-> \hf972, query_pressure_calibration_settings |-> \hf973,
                query_gpio_type |-> \hf974, query_valve_config |-> \hf975, query_pressure_config |-> \hf977])
    @@ Frames(2, [set_time_zone |-> \hffbd, clear_valve_pulse |-> \hff4e, set_gpio_type |-> \hf971])
    @@ Frames(3, [set_report_interval |-> \hff8e, batch_read_rules |-> \hff4b, batch_enable_rules |-> \hff4b,
                batch_remove_rules |-> \hff4b, enable_rule |-> \hff4b, remove_rule |-> \hff4b])
    @@ Frames(4, [set_class_a_response_time |-> \hff1e, set_valve_filter_config |-> \hff52,
                set_pressure_calibration |-> \hf95b, set_pressure_collection_interval |-> \hf968])
    @@ Frames(5, [set_valve_pulse |-> \hff92])
    @@ Frames(8, [set_d2d_key |-> \hff35])
    @@ Frames(10, [set_valve_config |-> \hf91a])
    @@ Frames(17, [set_pressure_config |-> \hf976])
    @@ [set_valve_task |-> {One(\hf919, 3), One(\h1f919, 5), One(\h2f919, 7), One(\h3f919, 9)},
        query_valve_opening_duration |-> Copies(\hf970, 1)]
UC521Offered ==
    {"reboot", "report_status", "sync_time", "clear_history", "stop_transmit", "set_report_interval",
     "set_time_zone", "set_valve_task", "set_valve_config", "set_valve_pulse", "set_pressure_config",
     "set_pressure_calibration", "set_pressure_collection_interval", "set_history_enable", "set_d2d_enable",
     "query_device_config", "query_valve_config", "query_pressure_config", "fetch_history"}

\* at/at101.codec.ts

AT101Replies ==
    Blocks(1, {\h10, \h28, \h3b, \h3c, \h4a, \h66, \h71, \h87, \h8f})
    @@ Blocks(2, {\h17})
    @@ Blocks(3, {\h13, \h2d, \h8a, \h8e})
    @@ Blocks(4, {\h58, \h7e, \h89})
    @@ Blocks(8, {\h88})
AT101Decode ==
    Blocks(1, {\h0175, \h0500, \h0700, \hff01, \hff0b, \hff0f, \hfffe})
    @@ Blocks(2, {\h0367, \hff09, \hff0a, \hffff})
    @@ Blocks(3, {\h8367})
    @@ Blocks(8, {\hff16})
    @@ Blocks(9, {\h0488, \h06d9, \h8488})
    @@ Blocks(12, {\h20ce})
    @@ On({\hfe, \hff}, AT101Replies, 1)
AT101Encode ==
    Frames(1, [reboot |-> \hff10, report_status |-> \hff28, sync_time |-> \hff4a,
                set_report_strategy |-> \hff66, set_positioning_strategy |-> \hff71,
                set_gnss_positioning_timeout |-> \hff3c, set_tamper_detection_enable |-> \hff87,
                set_bluetooth_enable |-> \hff8f, set_time_sync_enable |-> \hff3b])
    @@ Frames(2, [set_time_zone |-> \hff17])
    @@ Frames(3, [set_report_interval |-> \hff8e, set_motion_report_interval |-> \hff8e,
                set_wifi_positioning_config |-> \hff2d, set_motion_report_config |-> \hff13,
                set_timed_report_config |-> \hff8a])
    @@ Frames(4, [set_motion_detection_config |-> \hff58, set_static_detection_config |-> \hff58,
                set_geofence_radius |-> \hff89, set_geofence_alarm_config |-> \hff7e])
    @@ Frames(8, [set_geofence_center |-> \hff88])
AT101Offered ==
    {"reboot", "report_status", "sync_time", "set_time_zone", "set_report_interval",
     "set_motion_report_interval", "set_report_strategy", "set_positioning_strategy",
     "set_gnss_positioning_timeout", "set_geofence_center", "set_geofence_radius", "set_geofence_alarm_config",
     "set_tamper_detection_enable", "set_motion_detection_config", "set_static_detection_config",
     "set_bluetooth_enable", "set_time_sync_enable"}

\* ct/ct101.codec.ts

CT101Replies ==
    Blocks(1, {\h10, \h27, \h28})
    @@ Blocks(2, {\h02, \hf2})
    @@ Blocks(3, {\h8e})
    @@ Blocks(9, {\h06})
\* mutant: the default of the reply handler throws
CT101DecodeThrows == Blocks(2, {\h0498, \h0967}) @@ On({\hfe, \hff}, CT101Replies, Throws)
CT101Decode ==
    Blocks(1, {\hff01, \hff0b, \hff0f, \hfffe})
    @@ Blocks(2, {\h0498, \h0967, \hff09, \hff0a, \hffff})
    @@ Blocks(3, {\h8967})
    @@ Blocks(4, {\h0397})
    @@ Blocks(7, {\h8498})
    @@ Blocks(8, {\hff16})
    @@ On({\hfe, \hff}, CT101Replies, 1)
CT101Encode ==
    Frames(1, [reboot |-> \hff10, report_status |-> \hff28, clear_current_cumulative |-> \hff27])
    @@ Frames(2, [set_alarm_report_interval |-> \hff02, set_alarm_report_counts |-> \hfff2])
    @@ Frames(3, [set_report_interval |-> \hff8e])
    @@ Frames(9, [set_current_alarm_config |-> \hff06, set_temperature_alarm_config |-> \hff06])
CT101Offered ==
    {"reboot", "report_status", "clear_current_cumulative", "set_report_interval", "set_alarm_report_interval",
     "set_alarm_report_counts", "set_current_alarm_config", "set_temperature_alarm_config"}

\* ct/ct303.codec.ts

CT303Replies ==
    Blocks(1, {\h10, \h27, \h28})
    @@ Blocks(2, {\h02, \hf2})
    @@ Blocks(3, {\h8e})
    @@ Blocks(9, {\h06})
CT303Decode ==
    Blocks(1, {\hff01, \hff0b, \hff0f, \hfffe})
    @@ Blocks(2, {\h0499, \h0699, \h0899, \h0967, \hff09, \hff0a, \hffff})
    @@ Blocks(3, {\h8967})
    @@ Blocks(4, {\h0397, \h0597, \h0797})
    @@ Blocks(7, {\h8499, \h8699, \h8899})
    @@ Blocks(8, {\hff16})
    @@ On({\hfe, \hff}, CT303Replies, 1)
CT303Encode ==
    Frames(1, [reboot |-> \hff10, report_status |-> \hff28, clear_current_cumulative |-> \hff27])
    @@ Frames(2, [set_alarm_report_interval |-> \hff02, set_alarm_report_counts |-> \hfff2])
    @@ Frames(3, [set_report_interval |-> \hff8e])
    @@ Frames(9, [set_current_alarm_config |-> \hff06, set_temperature_alarm_config |-> \hff06])
CT303Offered ==
    {"reboot", "report_status", "set_report_interval", "set_alarm_report_interval", "set_alarm_report_counts",
     "clear_current_cumulative", "set_current_alarm_config", "set_temperature_alarm_config"}

\* cth/cth01.codec.ts

CTH01Decode1 ==
    Blocks(0, {\hee})
    @@ Blocks(1, {\hef, \hfe, \hff, \hff00cf})
    @@ Blocks(2, {\h01, \h02, \hd9, \hdf, \h100ef, \hd800cf})
    @@ Blocks(3, {\h200ef})
    @@ Blocks(5, {\hed})
    @@ Blocks(6, {\h04})
    @@ Blocks(8, {\hda, \hdb})
    @@ Blocks(16, {\hd8})
    @@ Blocks(24, {\h03})
    @@ Blocks(32, {\hdd, \hde})
    @@ Blocks(72, {\hd7})
\* two groups of channels, each with one value of four bytes, or one for each of its phases;
\* the selector is the mask that says which
CTH01MaskedGroups2 ==
    LET commands == 8..23
        Masked(mask) == {65536 * mask + cmd : cmd \in commands}
    IN  Blocks(9, Masked(0)) @@ Blocks(17, Masked(1) \cup Masked(2)) @@ Blocks(25, Masked(3))
\* four groups of one byte or three; the selector counts the groups of three
CTH01MaskedGroups4PF ==
    [head \in {65536 * n + 7 : n \in 0..4} |-> 5 + 2 * (head \div 65536)]
CTH01Decode2 ==
    Blocks(1, {\h30, \h40, \hc8, \h10030, \h20030, \h30030})
    @@ Blocks(2, {\hff0031, \hff0032, \hff0033})
    @@ Blocks(3, {\h100030, \h110030, \h120030, \h130030, \h140030, \h150030, \h160030, \h170030})
    @@ Blocks(4, {\h10032, \h20032, \h40032, \h100032, \h110032, \h120032, \h120033, \h130032, \h130033, \h140032,
                \h150032, \h160032, \h170032})
    @@ Blocks(5, {\h10031, \h20031, \h40031, \h100031, \h110031, \h120031, \h130031, \h140031, \h150031, \h160031,
                \h170031})
    @@ Blocks(6, {\h06})
    @@ Blocks(36, {\h05})
    @@ CTH01MaskedGroups4PF @@ CTH01MaskedGroups2
CTH01Decode3 ==
    Blocks(0, {\h36})
    @@ Blocks(1, {\h63, \h64, \h66, \hff0035})
    @@ Blocks(2, {\h6c, \h10064, \hff0034})
    @@ Blocks(3, {\h60, \h61, \h6b, \h6d, \h20064, \h120035, \h130035})
    @@ Blocks(4, {\h120034, \h130034})
    @@ Blocks(6, {\h76})
    @@ Blocks(10, {\h67, \h68, \h69, \h6a})
CTH01Decode4 ==
    Blocks(0, {\h57, \hb6, \hb8, \hb9, \hbe, \hbf})
    @@ Blocks(1, {\h5d, \h5e, \h5f, \hff00c5})
    @@ Blocks(2, {\hc5, \hc7, \h100c5})
    @@ Blocks(3, {\h200c5, \h300c5})
    @@ Blocks(4, {\hb7})
    @@ Blocks(5, {\h5b, \h7c})
    @@ Blocks(6, {\h7b})
    @@ Blocks(7, {\h77, \h78, \h79, \h7a})
    @@ Blocks(9, {\h5c})
    @@ Blocks(10, {\hc6})
CTH01Decode == CTH01Decode1 @@ CTH01Decode2 @@ CTH01Decode3 @@ CTH01Decode4
CTH01Encode1 ==
    Frames(0, [reboot |-> \hbe, reset |-> \hbf, query_device_status |-> \hb9, synchronize_time |-> \hb8,
                reconnect |-> \hb6, query_history_set |-> \h57, request_query_all_configurations |-> \hee])
    @@ Frames(1, [set_temperature_unit |-> \h63, set_voltage_interface |-> \h66, set_device_status |-> \hc8])
    @@ Frames(2, [set_time_zone |-> \hc7])
    @@ Frames(3, [set_collection_interval |-> \h60, set_reporting_interval |-> \h61,
                set_temperature_calibration |-> \h6b, set_month_statistics_settings |-> \h6d])
    @@ Frames(4, [set_time |-> \hb7])
    @@ Frames(5, [set_alarm_global_settings |-> \h7c])
    @@ Frames(6, [set_temperature_alarm_settings |-> \h76, set_voltage_unbalance_alarm_settings |-> \h7b])
    @@ Frames(7, [set_current_alarm_settings |-> \h77, set_voltage_alarm_settings |-> \h78,
                set_thdi_alarm_settings |-> \h79, set_thdv_alarm_settings |-> \h7a])
CTH01Encode2 ==
    Frames(1, [stop_historical_data_retrieval |-> \h5d, clear_data |-> \h5e, reset_energy |-> \h5f,
                request_check_sequence_number |-> \hff, request_check_order |-> \hfe])
    @@ Frames(2, [set_report_enable |-> \h6c, set_lorawan_version |-> \hd800cf])
    @@ Frames(5, [retrieve_historical_data_by_time |-> \h5b])
    @@ Frames(9, [retrieve_historical_data_by_time_range |-> \h5c])
    @@ Frames(10, [set_daylight_saving_time |-> \hc6])
    @@ [set_data_storage |-> {One(\hc5, 2), One(\h100c5, 2), One(\h200c5, 3), One(\h300c5, 3)},
        set_bluetooth_name |-> {One(\h64, 1), One(\h10064, 2), One(\h20064, 3)},
        set_current_interface |-> {One(\h67, 1), One(\h67, 4), One(\h67, 7), One(\h67, 10), One(\h68, 1), One(\h68, 4),
                One(\h68, 7), One(\h68, 10), One(\h69, 1), One(\h69, 4), One(\h69, 7), One(\h69, 10),
                One(\h6a, 1), One(\h6a, 4), One(\h6a, 7), One(\h6a, 10)}]
CTH01Encode == CTH01Encode1 @@ CTH01Encode2
CTH01Offered ==
    {"reboot", "reset", "query_device_status", "synchronize_time", "reconnect", "set_time_zone",
     "set_collection_interval", "set_reporting_interval", "set_temperature_alarm_settings",
     "set_alarm_global_settings", "set_data_storage", "retrieve_historical_data_by_time",
     "retrieve_historical_data_by_time_range", "stop_historical_data_retrieval", "reset_energy", "clear_data"}

\* ds/ds3604.codec.ts

DS3604Replies ==
    Blocks(1, {\h10, \h25, \h27, \h28, \h3d, \h3e, \h66, \h73, \h82, \h90})
    @@ Blocks(2, {\h03})
    @@ Blocks(5, {\h89})
DS3604Decode ==
    Blocks(1, {\h0175, \hff01, \hff0b, \hff0f, \hff2e, \hff73, \hfffe})
    @@ Blocks(2, {\hfa01, \hfa02, \hfa03, \hfb01, \hff09, \hff0a, \hffff})
    @@ Blocks(3, {\h1fb01})
    @@ Blocks(4, {\hfb02, \h2fb01})
    @@ Blocks(5, {\h1fb02})
    @@ Blocks(6, {\h2fb02})
    @@ Blocks(8, {\hff16})
    @@ Blocks(23, {\hfb03})
    @@ Blocks(24, {\h1fb03})
    @@ Blocks(27, {\h2fb03})
    @@ On({\hfe, \hff}, DS3604Replies, 1)
\* how a block of a template looks: 21 bytes, one more for a picture, four for a font
DS3604BlockConfig ==
    {One(\hfb03, 23), One(\h1fb03, 24), One(\h2fb03, 27)}
DS3604Encode ==
    Frames(1, [set_current_template |-> \hff73, reboot |-> \hff10, beep |-> \hff3d,
                refresh_display |-> \hff3d, report_battery |-> \hff28, report_buzzer |-> \hff28,
                report_current_template_id |-> \hff28, report_current_display |-> \hff28,
                set_buzzer_enable |-> \hff3e, set_button_visible |-> \hff66, set_button_enable |-> \hff25,
                set_switch_template_button_enable |-> \hff90, clear_image |-> \hff27,
                set_multicast_config |-> \hff82])
    @@ Frames(2, [set_report_interval |-> \hff03])
    @@ Frames(5, [set_block_visible |-> \hff89])
    @@ [set_content |-> {One(\hfb01, 2), One(\h1fb01, 3), One(\h2fb01, 4)},
        set_template_config |-> DS3604BlockConfig]
DS3604Offered ==
    {"reboot", "beep", "refresh_display", "report_battery", "report_current_template_id",
     "report_current_display", "set_report_interval", "set_current_template", "set_content",
     "set_buzzer_enable", "set_button_enable", "set_button_visible", "set_switch_template_button_enable"}

\* ft/ft101.codec.ts

FT101Decode ==
    Blocks(1, {\h05a3, \hff01, \hff0b, \hff0f, \hfffe})
    @@ Blocks(2, {\h06a4, \hff09, \hff0a, \hffff})
    @@ Blocks(4, {\h04a2})
    @@ Blocks(8, {\h03a1, \hff16})

\* what codec.module.ts registers

UCCodecs ==
    [UC100 |->
        [decode |-> UC100Decode, encode |-> UC100Encode,
         offered |-> UC100Offered, answers |-> {\hf8, \hf9, \hfe, \hff}],
     UC100v1 |->
        [decode |-> UC100v1Decode, encode |-> UC100v1Encode,
         offered |-> UC100v1Offered, answers |-> {\hfe, \hff}],
     UC11N1 |->
        [decode |-> UC11N1Decode, encode |-> NoCommands,
         offered |-> {}, answers |-> {}],
     UC11T1 |->
        [decode |-> UC11T1Decode, encode |-> NoCommands,
         offered |-> {}, answers |-> {}],
     UC11xx |->
        [decode |-> UC11xxDecode, encode |-> NoCommands,
         offered |-> {}, answers |-> {}],
     UC300 |->
        [decode |-> UC300Decode, encode |-> UC300Encode,
         offered |-> UC300Offered, answers |-> {\hfe, \hff}],
     UC50x |->
        [decode |-> UC50xDecode, encode |-> UC50xEncode,
         offered |-> UC50xOffered, answers |-> {\hfe, \hff}],
     UC511 |->
        [decode |-> UC511Decode, encode |-> UC511Encode,
         offered |-> UC511Offered, answers |-> {\hfe, \hff, \hf8a4, \hf8a5, \hf8af, \hf9a8}],
     UC521 |->
        [decode |-> UC521Decode, encode |-> UC521Encode,
         offered |-> UC521Offered, answers |-> {\hf8, \hf9, \hfe, \hff}],
     AT101 |->
        [decode |-> AT101Decode, encode |-> AT101Encode,
         offered |-> AT101Offered, answers |-> {\hfe, \hff}],
     CT101 |->
        [decode |-> CT101Decode, encode |-> CT101Encode,
         offered |-> CT101Offered, answers |-> {\hfe, \hff}],
     CT303 |->
        [decode |-> CT303Decode, encode |-> CT303Encode,
         offered |-> CT303Offered, answers |-> {\hfe, \hff}],
     CTH01 |->
        [decode |-> CTH01Decode, encode |-> CTH01Encode,
         offered |-> CTH01Offered, answers |-> {\h00}],
     DS3604 |->
        [decode |-> DS3604Decode, encode |-> DS3604Encode,
         offered |-> DS3604Offered, answers |-> {\hfe, \hff}],
     FT101 |->
        [decode |-> FT101Decode, encode |-> NoCommands,
         offered |-> {}, answers |-> {}]]

\* subclasses that only change the name

UCVariants ==
    [UC502 |-> UCCodecs.UC50x, UC512 |-> UCCodecs.UC511, CT103 |-> UCCodecs.CT101, CT105 |-> UCCodecs.CT101,
     CT305 |-> UCCodecs.CT303, CT310 |-> UCCodecs.CT303]

=============================================================================
