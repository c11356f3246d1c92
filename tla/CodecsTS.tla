---------------------------- MODULE CodecsTS ----------------------------
(***************************************************************************)
(* The codecs of the temperature sensors of the TS series and gas sensors of *)
(* the GS series: which block each reads from an uplink and how long it is *)
(* (Decode), which block each command becomes (Encode), which commands it  *)
(* advertises (Offered), and the channels its device answers on.           *)
(* CodecBlocks explains the notation.                                      *)
(***************************************************************************)
EXTENDS CodecBlocks

\* ts/ts101.codec.ts

TS101Replies ==
    Blocks(1, {\h10, \h27, \h28, \h4a, \h68, \h69})
    @@ Blocks(2, {\h02, \h03, \h17})
    @@ Blocks(3, {\h6a, \hab})
    @@ Blocks(9, {\h06})
TS101Decode ==
    Blocks(1, {\h0175, \hff01, \hff0b, \hff0f, \hfffe})
    @@ Blocks(2, {\h0367, \hff09, \hff0a, \hffff})
    @@ Blocks(3, {\h8367})
    @@ Blocks(5, {\h93d7})
    @@ Blocks(6, {\h20ce})
    @@ Blocks(8, {\hff16})
    @@ On({\hfe, \hff}, TS101Replies, 1)
TS101Encode ==
    Frames(1, [reboot |-> \hff10, query_device_status |-> \hff28, sync_time |-> \hff4a,
                set_history_enable |-> \hff68, clear_history |-> \hff27, stop_transmit |-> \hfd6d,
                set_retransmit_enable |-> \hff69])
    @@ Frames(2, [set_collection_interval |-> \hff02, set_report_interval |-> \hff03, set_time_zone |-> \hff17])
    @@ Frames(3, [set_retransmit_interval |-> \hff6a, set_resend_interval |-> \hff6a,
                set_temperature_calibration |-> \hffab])
    @@ Frames(9, [set_temperature_alarm_config |-> \hff06, set_temperature_mutation_alarm_config |-> \hff06])
    @@ [fetch_history |-> {One(\hfd6b, 4), One(\hfd6c, 8)}]
TS101Offered ==
    {"reboot", "query_device_status", "sync_time", "clear_history", "stop_transmit", "set_report_interval",
     "set_collection_interval", "set_time_zone", "set_temperature_alarm_config",
     "set_temperature_mutation_alarm_config", "set_temperature_calibration", "set_history_enable",
     "fetch_history"}

\* ts/ts201.codec.ts

TS201Replies ==
    Blocks(1, {\h10, \h27, \h28, \h4a, \h68, \hf5})
    @@ Blocks(2, {\h02, \hf2})
    @@ Blocks(3, {\h8e, \hea})
TS201ExtReplies ==
    Blocks(1, {\h31})
    @@ Blocks(2, {\h0e})
    @@ Blocks(3, {\h0d, \h32})
    @@ Blocks(4, {\h0c})
    @@ Blocks(7, {\h0b})
TS201Decode ==
    Blocks(1, {\h0175, \hb367, \hff01, \hff0b, \hff0f, \hfffe})
    @@ Blocks(2, {\h0367, \hff09, \hff0a, \hffff})
    @@ Blocks(3, {\h8367})
    @@ Blocks(5, {\h9367})
    @@ Blocks(7, {\h20ce})
    @@ Blocks(8, {\hff16})
    @@ Blocks(9, {\hffa0})
    @@ On({\hfe, \hff}, TS201Replies, 1)
    @@ On({\hf9}, TS201ExtReplies, 1)
    @@ On({\hf8}, WithResult(TS201ExtReplies), 2)
TS201Encode ==
    Frames(1, [reboot |-> \hff10, report_status |-> \hff28, sync_time |-> \hff4a,
                set_history_enable |-> \hff68, clear_history |-> \hff27, stop_transmit |-> \hfd6d,
                set_alarm_release_enable |-> \hfff5, fetch_sensor_id |-> \hf931])
    @@ Frames(2, [set_collection_interval |-> \hff02, set_alarm_report_counts |-> \hfff2,
                set_resend_interval |-> \hf90e])
    @@ Frames(3, [set_report_interval |-> \hff8e, set_temperature_calibration |-> \hffea,
                set_humidity_calibration |-> \hffea, set_retransmit_config |-> \hf90d,
                set_ack_retry_times |-> \hf932])
    @@ Frames(4, [set_temperature_mutation_alarm_config |-> \hf90c])
    @@ Frames(7, [set_temperature_alarm_config |-> \hf90b])
    @@ [fetch_history |-> {One(\hfd6b, 4), One(\hfd6c, 8)}]
TS201Offered ==
    {"reboot", "report_status", "sync_time", "clear_history", "stop_transmit", "set_report_interval",
     "set_collection_interval", "set_temperature_alarm_config", "set_temperature_mutation_alarm_config",
     "set_temperature_calibration", "set_alarm_release_enable", "set_alarm_report_counts",
     "set_history_enable", "fetch_history"}

\* ts/ts201-v2.codec.ts

TS201v2Replies ==
    Blocks(1, {\h10, \h27, \h28, \h4a, \h68, \heb, \hf5})
    @@ Blocks(2, {\h02, \hf2})
    @@ Blocks(3, {\h8e, \hea})
    @@ Blocks(8, {\h35, \h96})
TS201v2ExtReplies ==
    Blocks(1, {\h31, \h66, \h69, \h6a, \h6f})
    @@ Blocks(2, {\h0e})
    @@ Blocks(3, {\h0d, \h32})
    @@ Blocks(4, {\h0c, \h63})
    @@ Blocks(7, {\h0b})
TS201v2Uplink ==
    Blocks(1, {\h0175, \h0468, \hb367, \hb468, \hff01, \hff0b, \hff0f, \hffeb, \hfffe})
    @@ Blocks(2, {\h0367, \h8468, \hff09, \hff0a, \hffff})
    @@ Blocks(3, {\h8367, \h9468})
    @@ Blocks(5, {\h9367})
    @@ Blocks(8, {\hff16})
    @@ Blocks(9, {\h20ce, \hffa0})
TS201v2Decode ==
    TS201v2Uplink
    @@ On({\hfe, \hff}, TS201v2Replies, 1)
    @@ On({\hf9}, TS201v2ExtReplies, 1)
    @@ On({\hf8}, WithResult(TS201v2ExtReplies), 2)
TS201v2Encode ==
    Frames(1, [reboot |-> \hff10, report_status |-> \hff28, sync_time |-> \hff4a,
                set_history_enable |-> \hff68, clear_history |-> \hff27, stop_transmit |-> \hfd6d,
                set_alarm_release_enable |-> \hfff5, set_temperature_unit |-> \hffeb,
                fetch_sensor_id |-> \hf931, set_d2d_enable |-> \hf966, set_button_lock_config |-> \hf969,
                set_led_indicator_enable |-> \hf96a])
    @@ Frames(2, [set_collection_interval |-> \hff02, set_alarm_report_counts |-> \hfff2,
                set_resend_interval |-> \hf90e])
    @@ Frames(3, [set_report_interval |-> \hff8e, set_temperature_calibration |-> \hffea,
                set_humidity_calibration |-> \hffea, set_retransmit_config |-> \hf90d,
                set_ack_retry_times |-> \hf932])
    @@ Frames(4, [set_temperature_mutation_alarm_config |-> \hf90c,
                set_humidity_mutation_alarm_config |-> \hf90c, set_d2d_uplink_config |-> \hf963])
    @@ Frames(7, [set_temperature_alarm_config |-> \hf90b, set_humidity_alarm_config |-> \hf90b])
    @@ Frames(8, [set_d2d_key |-> \hff35, set_d2d_master_config |-> \hff96])
    @@ [fetch_history |-> {One(\hfd6b, 4), One(\hfd6c, 8)},
        query_config |-> Copies(\hf96f, 1)]
TS201v2Offered ==
    {"reboot", "report_status", "sync_time", "clear_history", "stop_transmit", "set_report_interval",
     "set_temperature_unit", "set_temperature_alarm_config", "set_humidity_alarm_config",
     "set_temperature_mutation_alarm_config", "set_humidity_mutation_alarm_config", "set_alarm_release_enable",
     "set_history_enable", "fetch_history"}

\* ts/ts301.codec.ts

TS301Replies ==
    Blocks(1, {\h10, \h25, \h27, \h28, \h2d, \h4a, \h68, \h69, \h6d, \he9, \heb})
    @@ Blocks(2, {\h02, \h17})
    @@ Blocks(3, {\h6a, \h8e, \hea})
    @@ Blocks(5, {\h91})
    @@ Blocks(9, {\h06})
TS301Decode ==
    Blocks(1, {\h0175, \h0300, \h0400, \hff01, \hff0b, \hff0f, \hfffe})
    @@ Blocks(2, {\h0367, \h0467, \hff09, \hff0a, \hffff})
    @@ Blocks(3, {\h8367, \h8467})
    @@ Blocks(5, {\h20ce, \h93d7, \h94d7})
    @@ Blocks(8, {\hff16})
    @@ Blocks(9, {\h120ce})
    @@ Blocks(13, {\h220ce})
    @@ On({\hfe, \hff}, TS301Replies, 1)
TS301Encode ==
    Frames(1, [reboot |-> \hff10, report_status |-> \hff28, sync_time |-> \hff4a, set_time_display |-> \hffe9,
                set_temperature_unit_display |-> \hffeb, set_display_enable |-> \hff2d,
                set_history_enable |-> \hff68, clear_history |-> \hff27, stop_transmit |-> \hfd6d,
                set_retransmit_enable |-> \hff69])
    @@ Frames(2, [set_collection_interval |-> \hff02, set_time_zone |-> \hff17, set_child_lock |-> \hff25])
    @@ Frames(3, [set_report_interval |-> \hff8e, set_retransmit_interval |-> \hff6a,
                set_resend_interval |-> \hff6a, set_temperature_calibration |-> \hffea])
    @@ Frames(5, [set_magnet_throttle |-> \hff91])
    @@ Frames(9, [set_temperature_alarm_config |-> \hff06, set_temperature_mutation_alarm_config |-> \hff06])
    @@ [fetch_history |-> {One(\hfd6b, 4), One(\hfd6c, 8)}]
TS301Offered ==
    {"reboot", "report_status", "sync_time", "clear_history", "stop_transmit", "set_report_interval",
     "set_time_zone", "set_temperature_alarm_config", "set_temperature_mutation_alarm_config",
     "set_temperature_calibration", "set_magnet_throttle", "set_history_enable", "fetch_history"}

\* ts/ts301-v2.codec.ts

TS301v2Replies ==
    Blocks(1, {\h10, \h27, \h28, \h2d, \h4a, \h68, \h69, \h6d, \he9, \heb, \hf5})
    @@ Blocks(2, {\h02, \hbd})
    @@ Blocks(3, {\h6a, \h8e, \hea})
    @@ Blocks(5, {\h7e, \h91})
    @@ Blocks(8, {\h35, \h96})
    @@ Blocks(9, {\h06})
TS301v2ExtReplies ==
    Blocks(1, {\h31, \h66, \h69, \h6f, \h70})
    @@ Blocks(2, {\h9a})
    @@ Blocks(3, {\h32})
    @@ Blocks(4, {\h63})
    @@ Blocks(9, {\h72})
TS301v2Uplink ==
    Blocks(1, {\h0175, \h0300, \hb367, \hb39a, \hfd6d, \hff01, \hff0b, \hff0f, \hfffe})
    @@ Blocks(2, {\h0367, \h039a, \hff09, \hff0a, \hffff})
    @@ Blocks(3, {\h8367, \h839a})
    @@ Blocks(4, {\hfd6b})
    @@ Blocks(5, {\h9367, \h939a})
    @@ Blocks(8, {\hfd6c, \hff16})
    @@ Blocks(9, {\h20ce, \hffa0})
TS301v2Decode ==
    TS301v2Uplink
    @@ On({\hfe, \hff}, TS301v2Replies, 1)
    @@ On({\hf9}, TS301v2ExtReplies, 1)
    @@ On({\hf8}, WithResult(TS301v2ExtReplies), 2)
TS301v2Encode ==
    Frames(1, [reboot |-> \hff10, shutdown |-> \hf970, report_status |-> \hff28, sync_time |-> \hff4a,
                set_time_display |-> \hffe9, set_temperature_unit_display |-> \hffeb,
                set_display_mode |-> \hff2d, set_history_enable |-> \hff68, clear_history |-> \hff27,
                stop_transmit |-> \hfd6d, set_retransmit_enable |-> \hff69,
                set_alarm_release_enable |-> \hfff5, stop_history_retrieval |-> \hfd6d,
                fetch_sensor_id |-> \hf931, set_d2d_enable |-> \hf966, set_button_lock_config |-> \hf969])
    @@ Frames(2, [set_collection_interval |-> \hff02, set_time_zone |-> \hffbd, set_magnet_delay_time |-> \hf99a])
    @@ Frames(3, [set_report_interval |-> \hff8e, set_retransmit_interval |-> \hff6a,
                set_resend_interval |-> \hff6a, set_temperature_calibration |-> \hffea,
                set_humidity_calibration |-> \hffea, set_ack_retry_times |-> \hf932])
    @@ Frames(4, [fetch_history_by_time |-> \hfd6b, set_d2d_uplink_config |-> \hf963])
    @@ Frames(5, [set_magnet_throttle |-> \hff91, set_alarm_config |-> \hff7e])
    @@ Frames(8, [set_d2d_key |-> \hff35, set_d2d_master_config |-> \hff96])
    @@ Frames(9, [set_temperature_alarm_config |-> \hff06, set_temperature_mutation_alarm_config |-> \hff06,
                set_humidity_alarm_config |-> \hff06, set_humidity_mutation_alarm_config |-> \hff06,
                set_dst_config |-> \hf972])
    @@ [fetch_history |-> {One(\hfd6b, 4), One(\hfd6c, 8)},
        query_config |-> Copies(\hf96f, 1)]
TS301v2Offered ==
    {"reboot", "report_status", "sync_time", "clear_history", "stop_transmit", "shutdown",
     "set_report_interval", "set_time_zone", "set_temperature_unit_display", "set_temperature_alarm_config",
     "set_humidity_alarm_config", "set_temperature_mutation_alarm_config",
     "set_humidity_mutation_alarm_config", "set_alarm_config", "set_magnet_throttle", "set_history_enable",
     "fetch_history"}

\* ts/ts601.codec.ts

TS601Decode1 ==
    Blocks(0, {\hee})
    @@ Blocks(1, {\h01, \h07, \h0c, \h0e, \h1a, \h1b, \h1c, \h1d, \hc8, \hc9, \hec, \hef, \hfe, \hff0008,
                \hff0009, \hff0011})
    @@ Blocks(2, {\h05, \hd9, \hdf, \heb, \h100ef, \h100011})
    @@ Blocks(3, {\h100eb, \h200ef, \h100009, \h110009, \h120009, \h130009, \h140009, \h150009, \h160009,
                \h170009, \h300009})
    @@ Blocks(4, {\h04, \h200eb})
    @@ Blocks(5, {\hed, \h100008, \h110008, \h120008, \h130008, \h140008, \h150008, \h160008, \h170008, \h200009,
                \h300008})
    @@ Blocks(6, {\h0d})
    @@ Blocks(8, {\h06, \hda, \hdb})
    @@ Blocks(9, {\h03, \h200008})
    @@ Blocks(16, {\hd8})
    @@ Blocks(32, {\hdd, \hde})
    @@ Blocks(72, {\hd7})
TS601Decode2 ==
    Blocks(0, {\h50, \h53, \hb8, \hb9, \hbc, \hbd, \hbf})
    @@ Blocks(1, {\h0a, \h0b, \h51, \h52, \h61, \h65, \h71, \h75, \h7e, \h80, \h82, \hc4, \hff0073, \hff00be,
                \hff00c5})
    @@ Blocks(2, {\h63, \h73, \h76, \h81, \hbe, \hc5, \hc7, \h100be, \h100c5, \h600be, \h1100be, \h1500be})
    @@ Blocks(3, {\h60, \h62, \h64, \h7a, \h7c, \h200c5, \h300c5, \h500be})
    @@ Blocks(4, {\h7d, \h7f, \hb7, \hba})
    @@ Blocks(5, {\h78, \h7b})
    @@ Blocks(6, {\h79})
    @@ Blocks(7, {\h10073, \h20073})
    @@ Blocks(8, {\hbb})
    @@ Blocks(10, {\h77, \hc6})
    @@ Blocks(16, {\h72, \h200be, \h300be})
    @@ Blocks(21, {\h400be})
TS601Decode == TS601Decode1 @@ TS601Decode2 @@ Otherwise(1)
TS601Encode ==
    Frames(0, [reboot |-> \hbe, reset |-> \hbf, clear_historical_data |-> \hbd,
                stop_historical_data_retrieval |-> \hbc, query_device_status |-> \hb9,
                synchronize_time |-> \hb8, clear_alarm_item |-> \h50, get_sensor_id |-> \h53,
                request_query_all_configurations |-> \hee])
    @@ Frames(1, [set_device_status |-> \hc8, set_cumulative_times |-> \h61, set_temperature_unit |-> \h65,
                set_auto_p_enable |-> \hc4, set_base_station_position_enable |-> \h71,
                set_alarm_deactivation_enable |-> \h75, set_light_tolerance_value |-> \h7e,
                set_falling_alarm_settings |-> \h80, set_probe_id_retransmit_count |-> \h82,
                set_zero_calibration |-> \h51, set_retrieval_initial_surface |-> \h52])
    @@ Frames(2, [set_alarm_reporting_times |-> \h63, set_button_lock |-> \h76,
                set_falling_threshold_alarm_settings |-> \h81, set_time_zone |-> \hc7,
                set_data_storage_enable |-> \hc5, set_data_retransmission_enable |-> \h100c5,
                set_airplane_mode_time_period_enable |-> \h73])
    @@ Frames(3, [set_reporting_interval |-> \h60, set_collection_interval |-> \h62,
                set_light_collection_interval |-> \h64, set_humidity_mutation_alarm_settings |-> \h7a,
                set_humidity_calibration_settings |-> \h7c, set_data_retransmission_interval |-> \h200c5,
                set_data_retrieval_interval |-> \h300c5])
    @@ Frames(4, [set_time |-> \hb7, retrieve_historical_data_by_time |-> \hba,
                set_light_alarm_settings |-> \h7d, set_tilt_alarm_settings |-> \h7f])
    @@ Frames(5, [set_temperature_mutation_alarm_settings |-> \h78,
                set_temperature_calibration_settings |-> \h7b])
    @@ Frames(6, [set_humidity_alarm_settings |-> \h79])
    @@ Frames(7, [set_airplane_mode_start_time |-> \h10073, set_airplane_mode_end_time |-> \h20073])
    @@ Frames(8, [retrieve_historical_data_by_time_range |-> \hbb])
    @@ Frames(10, [set_temperature_alarm_settings |-> \h77, set_daylight_saving_time |-> \hc6])
TS601Offered ==
    {"reboot", "reset", "query_device_status", "synchronize_time", "clear_historical_data",
     "stop_historical_data_retrieval", "set_reporting_interval", "set_collection_interval", "set_time_zone",
     "set_temperature_alarm_settings", "set_humidity_alarm_settings", "set_tilt_alarm_settings",
     "retrieve_historical_data_by_time", "retrieve_historical_data_by_time_range"}

\* gs/gs101.codec.ts

GS101Replies ==
    Blocks(1, {\h2f, \h3b, \h3e})
    @@ Blocks(2, {\h03, \h12, \h61})
    @@ Blocks(4, {\h11})
GS101Decode ==
    Blocks(1, {\h058e, \h0601, \h0701, \hff01, \hff0b, \hff0f, \hff3f, \hfffe})
    @@ Blocks(2, {\hff09, \hff0a, \hffff})
    @@ Blocks(4, {\h0890})
    @@ Blocks(8, {\hff16})
    @@ On({\hfe}, GS101Replies, 1)
GS101Encode ==
    Frames(1, [reboot |-> \hff10, query_device_status |-> \hff28, clear_alarm |-> \hff64,
                calibration_request |-> \hff62, set_time_sync_enable |-> \hff3b, set_buzzer_enable |-> \hff3e,
                set_led_indicator_enable |-> \hff2f])
    @@ Frames(2, [query_life_remain |-> \h0800, set_report_interval |-> \hff03, set_time_zone |-> \hff17,
                stop_buzzer_with_silent_time |-> \hff61, set_relay_output_status |-> \h0700,
                set_valve_status |-> \h0600])
    @@ Frames(4, [set_timestamp |-> \hff11])
GS101Offered ==
    {"reboot", "query_device_status", "clear_alarm", "calibration_request", "query_life_remain",
     "set_valve_status", "set_relay_output_status", "set_report_interval", "set_time_zone",
     "set_buzzer_enable", "set_led_indicator_enable"}

\* gs/gs301.codec.ts

GS301Replies ==
    Blocks(1, {\h10, \h2f, \h3e, \h7d})
    @@ Blocks(2, {\h03, \h66})
    @@ Blocks(6, {\h8d})
    @@ Blocks(9, {\h06})
GS301Decode ==
    Blocks(1, {\h0175, \h0368, \hff01, \hff0b, \hff0f, \hfffe})
    @@ Blocks(2, {\h0267, \h047d, \h057d, \h067d, \hff09, \hff0a, \hffff})
    @@ Blocks(5, {\h07ea})
    @@ Blocks(8, {\hff16})
    @@ Blocks(43, {\hff7c})
    @@ On({\hfe, \hff}, GS301Replies, Throws)
GS301Encode ==
    Frames(1, [reboot |-> \hff10, query_life_remain |-> \hff7d, set_led_indicator |-> \hff2f,
                set_buzzer |-> \hff3e])
    @@ Frames(2, [set_report_interval |-> \hff03, set_threshold_report_interval |-> \hff66])
    @@ Frames(4, [set_nh3_calibration |-> \hff8d, set_h2s_calibration |-> \hff8d])
    @@ Frames(9, [set_alarm_config |-> \hff06])
GS301Offered ==
    {"reboot", "set_report_interval", "set_threshold_report_interval", "set_led_indicator", "set_buzzer",
     "set_alarm_config"}

\* gs/gs601.codec.ts

\* an alarm about particles or gas; the selector is its type, and the types that set it off or
\* end it come with the value
GS601PmAlarm ==
    Blocks(1, {\hff0004, \hff0006, \hff0008, \hff000e})
    @@ Blocks(3, {\h100004, \h100006, \h100008, \h10000e, \h110004, \h110006, \h110008, \h11000e})
GS601Decode1 ==
    Blocks(1, {\h00, \h01, \h0c, \hff0002, \hff000a})
    @@ Blocks(2, {\h03, \h05, \h07, \h09, \h0b, \h0d, \hcf, \hd9, \hdf, \h100002, \h110002})
    @@ Blocks(3, {\h10000a, \h11000a})
    @@ GS601PmAlarm
    @@ Blocks(8, {\hda, \hdb})
GS601Decode2 ==
    Blocks(1, {\h0f, \h10, \h11, \h12, \h61, \h62, \h63, \h65, \h67, \h68})
    @@ Blocks(2, {\h66})
    @@ Blocks(3, {\h60})
    @@ Blocks(4, {\h2b})
    @@ Blocks(6, {\h64, \h69, \h6a, \h6b, \h6c, \h6d})
    @@ Blocks(8, {\h20, \h21, \h22, \h23, \h24, \h25, \h26, \h27, \h28, \h29, \h2a})
GS601Decode3 ==
    Blocks(0, {\h5e, \h5f, \hb6, \hb8, \hb9, \hbc, \hbd, \hbe, \hbf, \hee})
    @@ Blocks(1, {\h70, \hc8, \hc9, \hfe})
    @@ Blocks(2, {\h6f, \h77, \hc7})
    @@ Blocks(3, {\h71, \h72, \h73, \h74, \h75, \h76})
    @@ Blocks(4, {\h6e, \hb7, \hbb})
    @@ Blocks(8, {\hba})
    @@ Blocks(11, {\hc6})
GS601Decode == GS601Decode1 @@ GS601Decode2 @@ GS601Decode3
GS601Encode ==
    Frames(0, [reset |-> \hbf, reboot |-> \hbe, clear_historical_data |-> \hbd,
                stop_historical_data_retrieval |-> \hbc, query_device_status |-> \hb9,
                synchronize_time |-> \hb8, reconnect |-> \hb6, stop_buzzer_alarm |-> \h5f,
                execute_tvoc_self_clean |-> \h5e])
    @@ Frames(1, [set_temperature_unit |-> \h61, set_led_status |-> \h62, set_buzzer_enable |-> \h63,
                set_buzzer_button_stop_enable |-> \h65, set_tamper_alarm_enable |-> \h67,
                set_tvoc_raw_reporting_enable |-> \h68, set_alarm_deactivation_enable |-> \h70,
                set_random_key |-> \hc9])
    @@ Frames(2, [set_buzzer_silent_time |-> \h66, set_alarm_reporting_times |-> \h6f, set_lorawan_mode |-> \hcf,
                set_time_zone |-> \hc7, set_vaping_index_calibration |-> \h77])
    @@ Frames(3, [set_reporting_interval |-> \h60, set_temperature_calibration |-> \h71,
                set_humidity_calibration |-> \h72, set_pm1_0_calibration |-> \h73,
                set_pm2_5_calibration |-> \h74, set_pm10_calibration |-> \h75, set_tvoc_calibration |-> \h76])
    @@ Frames(4, [set_time |-> \hb7, retrieve_historical_data_by_time |-> \hbb,
                set_vaping_index_alarm_settings |-> \h6e])
    @@ Frames(6, [set_buzzer_sleep_item |-> \h64, set_temperature_alarm_settings |-> \h69,
                set_pm1_0_alarm_settings |-> \h6a, set_pm2_5_alarm_settings |-> \h6b,
                set_pm10_alarm_settings |-> \h6c, set_tvoc_alarm_settings |-> \h6d])
    @@ Frames(8, [retrieve_historical_data_by_time_range |-> \hba])
    @@ Frames(10, [set_daylight_saving_time |-> \hc6])
GS601Offered ==
    {"reboot", "reset", "synchronize_time", "query_device_status", "stop_buzzer_alarm",
     "execute_tvoc_self_clean", "clear_historical_data", "stop_historical_data_retrieval",
     "set_reporting_interval", "set_buzzer_enable", "set_temperature_alarm_settings",
     "set_vaping_index_alarm_settings", "set_alarm_reporting_times"}

\* what codec.module.ts registers

TSCodecs ==
    [TS101 |->
        [decode |-> TS101Decode, encode |-> TS101Encode,
         offered |-> TS101Offered, answers |-> {\hfe, \hff}],
     TS201 |->
        [decode |-> TS201Decode, encode |-> TS201Encode,
         offered |-> TS201Offered, answers |-> {\hf8, \hf9, \hfe, \hff}],
     TS201v2 |->
        [decode |-> TS201v2Decode, encode |-> TS201v2Encode,
         offered |-> TS201v2Offered, answers |-> {\hf8, \hf9, \hfe, \hff}],
     TS301 |->
        [decode |-> TS301Decode, encode |-> TS301Encode,
         offered |-> TS301Offered, answers |-> {\hfe, \hff}],
     TS301v2 |->
        [decode |-> TS301v2Decode, encode |-> TS301v2Encode,
         offered |-> TS301v2Offered, answers |-> {\hf8, \hf9, \hfe, \hff}],
     TS601 |->
        [decode |-> TS601Decode, encode |-> TS601Encode,
         offered |-> TS601Offered, answers |-> {\h00}],
     GS101 |->
        [decode |-> GS101Decode, encode |-> GS101Encode,
         offered |-> GS101Offered, answers |-> {\hfe}],
     GS301 |->
        [decode |-> GS301Decode, encode |-> GS301Encode,
         offered |-> GS301Offered, answers |-> {\hfe, \hff}],
     GS601 |->
        [decode |-> GS601Decode, encode |-> GS601Encode,
         offered |-> GS601Offered, answers |-> {\h00}]]

\* ts/ts602.codec.ts: the TS601 and one command more

TS602Codec ==
    [TSCodecs.TS601 EXCEPT
        !.encode = @ @@ Frames(1, [set_temperature_humidity_display_switch |-> \h55]),
        !.offered = @ \cup {"set_temperature_humidity_display_switch"}]

=============================================================================
