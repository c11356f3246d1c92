---------------------------- MODULE CodecsAM ----------------------------
(***************************************************************************)
(* The codecs of the ambience sensors of the AM series: which block each   *)
(* reads from an uplink and how long it is (Decode), which block each      *)
(* command becomes (Encode), which commands it advertises (Offered), and the *)
(* channels its device answers on.  CodecBlocks explains the notation.     *)
(***************************************************************************)
EXTENDS CodecBlocks

\* am/am102.codec.ts

AM102Replies ==
    Blocks(1, {\h10, \h27, \h2d, \h2f, \h3a, \h3b, \h56, \h57, \h59, \h68, \h69, \h85, \h86})
    @@ Blocks(2, {\h03, \h17, \h5a})
    @@ Blocks(3, {\h6a})
    @@ Blocks(4, {\h11})
    @@ Blocks(7, {\h75, \h13a})
    @@ Blocks(9, {\h06})
    @@ Blocks(13, {\h23a})
AM102Decode ==
    Blocks(1, {\h0175, \h0468, \hff01, \hff0b, \hff0f, \hfffe})
    @@ Blocks(2, {\h0367, \hff09, \hff0a, \hff18, \hffff})
    @@ Blocks(7, {\h20ce})
    @@ Blocks(8, {\hff16})
    @@ On({\hfe, \hff}, AM102Replies, 1)
AM102Encode1 ==
    Frames(1, [reboot |-> \hff10, set_time_sync_enable |-> \hff3b, set_screen_display |-> \hff2d,
                set_screen_display_time |-> \hff85, set_screen_intelligent |-> \hff56,
                set_screen_last_refresh |-> \hff86, set_led_indicator_mode |-> \hff2f])
    @@ Frames(2, [set_report_interval |-> \hff03, set_time_zone |-> \hff17, set_screen_refresh |-> \hff5a])
    @@ Frames(4, [set_timestamp |-> \hff11])
    @@ Frames(9, [set_temperature_alarm |-> \hff06])
AM102Encode2 ==
    Frames(1, [reset_battery |-> \hff59, set_retransmit_enable |-> \hff69, set_history_enable |-> \hff68,
                stop_transmit |-> \hfd6d, clear_history |-> \hff27])
    @@ Frames(3, [set_retransmit_interval |-> \hff6a, set_resend_interval |-> \hff6a])
    @@ Frames(7, [set_hibernate |-> \hff75])
    @@ [fetch_history |-> {One(\hfd6b, 4), One(\hfd6c, 8)}]
AM102Encode == AM102Encode1 @@ AM102Encode2
AM102Offered ==
    {"reboot", "set_report_interval", "set_time_zone", "set_timestamp", "set_time_sync_enable",
     "set_screen_display", "set_led_indicator_mode", "set_temperature_alarm", "set_history_enable",
     "fetch_history", "clear_history", "reset_battery"}

\* am/am103.codec.ts

AM103Replies1 ==
    Blocks(1, {\h10, \h1a, \h27, \h2d, \h2f, \h3a, \h3b})
    @@ Blocks(2, {\h03, \h17})
    @@ Blocks(3, {\h11a})
    @@ Blocks(4, {\h11})
    @@ Blocks(5, {\h39})
    @@ Blocks(7, {\h13a})
    @@ Blocks(9, {\h06})
    @@ Blocks(13, {\h23a})
AM103Replies2 ==
    Blocks(1, {\h56, \h57, \h59, \h68, \h69, \h85, \h86})
    @@ Blocks(2, {\h5a})
    @@ Blocks(3, {\h6a, \h87})
    @@ Blocks(4, {\hf0})
    @@ Blocks(5, {\h54})
    @@ Blocks(7, {\h75})
AM103Replies == AM103Replies1 @@ AM103Replies2
AM103Decode ==
    Blocks(1, {\h0175, \h0468, \hff01, \hff0b, \hff0f, \hfffe})
    @@ Blocks(2, {\h0367, \h077d, \hff09, \hff0a, \hff18, \hffff})
    @@ Blocks(8, {\hff16})
    @@ Blocks(9, {\h20ce})
    @@ On({\hfe, \hff}, AM103Replies, 1)
AM103Encode1 ==
    Frames(1, [reboot |-> \hff10, set_time_sync_enable |-> \hff3b, set_screen_display |-> \hff2d,
                set_screen_display_time |-> \hff85, set_screen_intelligent |-> \hff56,
                set_screen_last_refresh |-> \hff86, set_led_indicator_mode |-> \hff2f])
    @@ Frames(2, [set_report_interval |-> \hff03, set_time_zone |-> \hff17, set_screen_refresh |-> \hff5a])
    @@ Frames(4, [set_timestamp |-> \hff11, set_screen_display_elements |-> \hfff0])
    @@ Frames(9, [set_temperature_alarm |-> \hff06])
    @@ [set_co2_calibration |-> {One(\hff1a, 1), One(\h1ff1a, 3)}]
AM103Encode2 ==
    Frames(1, [reset_battery |-> \hff59, set_retransmit_enable |-> \hff69, set_history_enable |-> \hff68,
                stop_transmit |-> \hfd6d, clear_history |-> \hff27])
    @@ Frames(3, [set_altitude |-> \hff87, set_retransmit_interval |-> \hff6a, set_resend_interval |-> \hff6a])
    @@ Frames(5, [set_co2_alarm |-> \hff54, set_co2_abc |-> \hff39])
    @@ Frames(7, [set_hibernate |-> \hff75])
    @@ [fetch_history |-> {One(\hfd6b, 4), One(\hfd6c, 8)}]
AM103Encode == AM103Encode1 @@ AM103Encode2
AM103Offered ==
    {"reboot", "clear_history", "reset_battery", "set_report_interval", "set_time_zone", "set_timestamp",
     "set_time_sync_enable", "set_screen_display", "set_led_indicator_mode", "set_temperature_alarm",
     "set_co2_alarm", "set_co2_calibration", "set_history_enable", "fetch_history"}

\* am/am104.codec.ts

AM104Replies1 ==
    Blocks(1, {\h10, \h27, \h2d, \h2f, \h3a, \h3b, \h56})
    @@ Blocks(2, {\h03, \h17})
    @@ Blocks(4, {\h11})
    @@ Blocks(7, {\h13a})
    @@ Blocks(9, {\h06})
    @@ Blocks(13, {\h23a})
AM104Replies2 ==
    Blocks(1, {\h57, \h59, \h68, \h69, \h85, \h86})
    @@ Blocks(2, {\h5a})
    @@ Blocks(3, {\h6a})
    @@ Blocks(4, {\hf0})
    @@ Blocks(7, {\h75})
AM104Replies == AM104Replies1 @@ AM104Replies2
AM104Decode ==
    Blocks(1, {\h0175, \h0468, \hff01, \hff0b, \hff0f, \hfffe})
    @@ Blocks(2, {\h0367, \h056a, \h077d, \h087d, \h0973, \hff09, \hff0a, \hff18, \hffff})
    @@ Blocks(6, {\h0665, \hff08})
    @@ On({\hfe, \hff}, AM104Replies, 1)
AM104Encode ==
    Frames(1, [reboot |-> \hff10, set_time_sync_enable |-> \hff3b, set_screen_display |-> \hff2d,
                set_screen_display_time |-> \hff85, set_screen_intelligent |-> \hff56,
                set_screen_last_refresh |-> \hff86, set_led_indicator_mode |-> \hff2f,
                reset_battery |-> \hff59, set_retransmit_enable |-> \hff69, set_history_enable |-> \hff68,
                stop_transmit |-> \hfd6d, clear_history |-> \hff27])
    @@ Frames(2, [set_report_interval |-> \hff03, set_time_zone |-> \hff17, set_screen_refresh |-> \hff5a])
    @@ Frames(3, [set_retransmit_interval |-> \hff6a, set_resend_interval |-> \hff6a])
    @@ Frames(4, [set_timestamp |-> \hff11, set_screen_display_elements |-> \hfff0])
    @@ Frames(7, [set_hibernate |-> \hff75])
    @@ Frames(9, [set_temperature_alarm |-> \hff06])
    @@ [fetch_history |-> {One(\hfd6b, 4), One(\hfd6c, 8)}]
AM104Offered ==
    {"reboot", "clear_history", "reset_battery", "set_report_interval", "set_time_zone", "set_timestamp",
     "set_time_sync_enable", "set_screen_display", "set_led_indicator_mode", "set_temperature_alarm",
     "set_history_enable", "fetch_history"}

\* am/am304l.codec.ts

AM304LDecode1 ==
    Blocks(1, {\hff01, \hff0b, \hff0f, \hff25, \hff2e, \hff68, \hff69, \hfff5, \hfffe})
    @@ Blocks(2, {\hff09, \hff0a, \hff18, \hff95, \hfff2, \hffff})
    @@ Blocks(3, {\hff6a, \hffea})
    @@ Blocks(8, {\hff16, \hff96})
    @@ Blocks(9, {\hff06})
AM304LDecode2 ==
    Blocks(1, {\h0175, \h0468, \h0500, \h06cb, \hb367, \hb468, \hb69d, \hb6cb, \hff10, \hff27, \hff4a})
    @@ Blocks(2, {\h0367, \h059f, \h069d})
    @@ Blocks(3, {\h8367, \h869d})
    @@ Blocks(15, {\h20ce})
AM304LDecode3 ==
    Blocks(1, {\hf966, \hfd6d})
    @@ Blocks(2, {\hf9bc, \hf9c0})
    @@ Blocks(3, {\hf9bd})
    @@ Blocks(4, {\hf963, \hf9be, \hfd6b})
    @@ Blocks(5, {\hf9bf})
    @@ Blocks(8, {\hfd6c})
    @@ Blocks(15, {\h21ce})
AM304LDecode ==
    AM304LDecode1 @@ AM304LDecode2 @@ AM304LDecode3
    @@ Channels(0, {\h01, \h03, \h04, \h05, \h06, \hb3, \hb4, \hb6, \h83, \h86, \h20, \h21, \hfd})
    @@ Channels(1, {\hff, \hf9})
AM304LEncode ==
    Frames(1, [reboot |-> \hff10, set_led_mode |-> \hff2e, set_alarm_deactivation |-> \hfff5,
                set_data_storage |-> \hff68, set_retransmission |-> \hff69, clear_historical_data |-> \hff27,
                stop_history_retrival |-> \hfd6d, synchronize_time |-> \hff4a])
    @@ Frames(2, [set_pir_enable |-> \hff18, set_illuminance_collecting |-> \hff18,
                set_pir_idle_interval |-> \hff95, set_pir_trigger_report |-> \hf9bc,
                set_pir_idle_report |-> \hf9bc, set_alarm_reporting_times |-> \hfff2])
    @@ Frames(3, [set_reporting_interval |-> \hf9bd, set_temperature_calibration |-> \hffea,
                set_humidity_calibration |-> \hffea, set_retransmission_interval |-> \hff6a,
                set_retrival_interval |-> \hff6a])
    @@ Frames(4, [set_collecting_interval |-> \hf9be, fetch_history_by_time |-> \hfd6b])
    @@ Frames(5, [set_illuminance_alarm |-> \hf9bf])
    @@ Frames(8, [fetch_history_by_range |-> \hfd6c])
    @@ Frames(9, [set_temperature_alarm |-> \hff06])
AM304LOffered ==
    {"reboot", "clear_historical_data", "synchronize_time", "set_reporting_interval",
     "set_collecting_interval", "set_led_mode", "set_pir_enable", "set_pir_idle_interval",
     "set_pir_trigger_report", "set_illuminance_collecting", "set_illuminance_alarm", "set_temperature_alarm",
     "set_data_storage", "set_retransmission", "fetch_history_by_time", "fetch_history_by_range",
     "stop_history_retrival"}

\* am/am305l.codec.ts

AM305LDecode1 ==
    Blocks(1, {\hff01, \hff0b, \hff0f, \hff1a, \hff25, \hff2e, \hff68, \hff69, \hfff5, \hfffe})
    @@ Blocks(2, {\hff09, \hff0a, \hff18, \hff95, \hfff2, \hffff})
    @@ Blocks(3, {\hff6a, \hff87, \hffea})
    @@ Blocks(5, {\hff39})
    @@ Blocks(8, {\hff16, \hff96})
    @@ Blocks(9, {\hff06})
AM305LDecode2 ==
    Blocks(1, {\h0175, \h0468, \h0500, \h06cb, \hb367, \hb468, \hb69d, \hb6cb, \hb77d, \hff10, \hff27, \hff4a})
    @@ Blocks(2, {\h0367, \h059f, \h069d, \h077d})
    @@ Blocks(3, {\h8367, \h869d, \h877d})
    @@ Blocks(18, {\h20ce})
AM305LDecode3 ==
    Blocks(1, {\hf966, \hfd6d})
    @@ Blocks(2, {\hf9bc, \hf9c0})
    @@ Blocks(3, {\hf9bd})
    @@ Blocks(4, {\hf963, \hf9be, \hfd6b})
    @@ Blocks(5, {\hf9bf})
    @@ Blocks(6, {\hf9c4})
    @@ Blocks(8, {\hfd6c})
    @@ Blocks(18, {\h21ce})
AM305LDecode ==
    AM305LDecode1 @@ AM305LDecode2 @@ AM305LDecode3
    @@ Channels(0, {\h01, \h03, \h04, \h05, \h06, \h07, \hb3, \hb4, \hb6, \hb7, \h83, \h86, \h87, \h20, \h21, \hfd})
    @@ Channels(1, {\hff, \hf9})
AM305LEncode ==
    Frames(1, [co2_reset_calibration |-> \hff1a, co2_background_calibration |-> \hff1a])
    @@ Frames(2, [set_co2_collecting |-> \hff18])
    @@ Frames(3, [set_co2_calibration |-> \hffea, set_co2_altitude_calibration |-> \hff87])
    @@ Frames(5, [set_co2_auto_background_calibration |-> \hff39])
    @@ Frames(6, [set_co2_alarm_rule |-> \hf9c4])
AM305LOffered ==
    {"reboot", "clear_historical_data", "synchronize_time", "set_reporting_interval", "set_pir_enable",
     "set_illuminance_collecting", "set_co2_collecting", "set_temperature_alarm", "set_illuminance_alarm",
     "set_co2_alarm_rule", "set_co2_calibration", "set_co2_auto_background_calibration",
     "fetch_history_by_time", "fetch_history_by_range"}

\* am/am307.codec.ts

AM307Replies1 ==
    Blocks(1, {\h10, \h1a, \h25, \h27, \h2c, \h2d, \h2e})
    @@ Blocks(2, {\h03, \h17, \h3a})
    @@ Blocks(3, {\h11a})
    @@ Blocks(5, {\h39})
AM307Replies2 ==
    Blocks(1, {\h3b, \h3c, \h3d, \h3e, \h66, \h68, \h69, \h6d, \heb, \hf4})
    @@ Blocks(3, {\h6a})
    @@ Blocks(4, {\hf0})
AM307Replies == AM307Replies1 @@ AM307Replies2
AM307Decode ==
    Blocks(1, {\h0175, \h0468, \h0500, \h06cb, \h0e01, \hff01, \hff0b, \hff0f, \hfffe})
    @@ Blocks(2, {\h0367, \h077d, \h087d, \h08e6, \h0973, \hff09, \hff0a, \hffff})
    @@ Blocks(8, {\hff16})
    @@ Blocks(16, {\h20ce, \h21ce})
    @@ On({\hfe, \hff}, AM307Replies, 1)
AM307Encode ==
    Frames(1, [reboot |-> \hff10, stop_buzzer |-> \hff3d, query_status |-> \hff2c, set_time_sync |-> \hff3b,
                set_tvoc_unit |-> \hffeb, set_co2_calibration_enable |-> \hfff4, set_buzzer |-> \hff3e,
                set_led_indicator |-> \hff2e, set_screen_display |-> \hff2d,
                set_screen_display_alarm |-> \hff66, set_screen_display_pattern |-> \hff3c,
                set_child_lock |-> \hff25, set_retransmit_enable |-> \hff69, set_history_enable |-> \hff68,
                stop_transmit |-> \hfd6d, clear_history |-> \hff27])
    @@ Frames(2, [set_report_interval |-> \hff03, set_time_zone |-> \hff17])
    @@ Frames(3, [set_retransmit_interval |-> \hff6a, set_resend_interval |-> \hff6a])
    @@ Frames(4, [set_screen_display_elements |-> \hfff0])
    @@ Frames(5, [set_co2_abc_calibration |-> \hff39])
    @@ [set_co2_calibration_settings |-> {One(\hff1a, 1), One(\h1ff1a, 3)},
        fetch_history |-> {One(\hfd6b, 4), One(\hfd6c, 8)}]
AM307Offered ==
    {"reboot", "stop_buzzer", "query_status", "stop_transmit", "clear_history", "set_report_interval",
     "set_time_sync", "set_time_zone", "set_tvoc_unit", "set_co2_abc_calibration",
     "set_co2_calibration_enable", "set_co2_calibration_settings", "set_buzzer", "set_led_indicator",
     "set_screen_display", "set_retransmit_enable", "set_history_enable", "fetch_history"}

\* am/am308.codec.ts

AM308Replies ==
    Blocks(1, {\h10, \h1a, \h25, \h27, \h2c, \h2d, \h2e, \h3b, \h3c, \h3d, \h3e, \h66, \h68, \h69, \h6d, \heb,
                \hf4})
    @@ Blocks(2, {\h03, \h17, \h65})
    @@ Blocks(3, {\h6a, \h11a})
    @@ Blocks(4, {\hf0})
    @@ Blocks(5, {\h39})
AM308Decode ==
    Blocks(1, {\h0175, \h0468, \h0500, \h06cb, \h0e01, \hff01, \hff0b, \hff0f, \hfffe})
    @@ Blocks(2, {\h0367, \h077d, \h087d, \h08e6, \h0973, \h0b7d, \h0c7d, \hff09, \hff0a, \hffff})
    @@ Blocks(8, {\hff16})
    @@ Blocks(20, {\h20ce, \h21ce})
    @@ On({\hfe, \hff}, AM308Replies, 1)
AM308Encode ==
    Frames(1, [reboot |-> \hff10, stop_buzzer |-> \hff3d, query_status |-> \hff2c, stop_transmit |-> \hfd6d,
                clear_history |-> \hff27, set_time_sync |-> \hff3b, set_tvoc_unit |-> \hffeb,
                set_co2_calibration_enable |-> \hfff4, set_buzzer |-> \hff3e, set_led_indicator |-> \hff2e,
                set_screen_display_enable |-> \hff2d, set_screen_display_alarm_enable |-> \hff66,
                set_screen_display_pattern |-> \hff3c, set_child_lock |-> \hff25,
                set_retransmit_enable |-> \hff69, set_history_enable |-> \hff68])
    @@ Frames(2, [set_report_interval |-> \hff03, set_time_zone |-> \hff17,
                set_pm2_5_collection_interval |-> \hff65])
    @@ Frames(3, [set_retransmit_interval |-> \hff6a, set_resend_interval |-> \hff6a])
    @@ Frames(4, [set_screen_display_elements |-> \hfff0])
    @@ Frames(5, [set_co2_abc_calibration |-> \hff39])
    @@ [set_co2_calibration |-> {One(\hff1a, 1), One(\h1ff1a, 3)},
        fetch_history |-> {One(\hfd6b, 4), One(\hfd6c, 8)}]
AM308Offered ==
    {"reboot", "stop_buzzer", "query_status", "stop_transmit", "clear_history", "set_report_interval",
     "set_time_sync", "set_time_zone", "set_tvoc_unit", "set_pm2_5_collection_interval",
     "set_co2_abc_calibration", "set_co2_calibration_enable", "set_co2_calibration", "set_buzzer",
     "set_led_indicator", "set_screen_display_enable", "set_retransmit_enable", "set_history_enable",
     "fetch_history"}

\* am/am319.codec.ts

AM319Replies ==
    Blocks(1, {\h10, \h1a, \h25, \h27, \h2c, \h2d, \h2e, \h39, \h3b, \h3c, \h3d, \h3e, \h66, \h68, \h69, \h6d,
                \heb, \hf4})
    @@ Blocks(2, {\h03, \h17, \h65})
    @@ Blocks(3, {\h6a, \h11a})
    @@ Blocks(4, {\hf0})
AM319Decode ==
    Blocks(1, {\h0175, \h0468, \h0500, \h06cb, \h0e01, \hff01, \hff0b, \hff0f, \hfffe})
    @@ Blocks(2, {\h0367, \h077d, \h087d, \h08e6, \h0973, \h0a7d, \h0b7d, \h0c7d, \hff09, \hff0a, \hffff})
    @@ Blocks(8, {\hff16})
    @@ Blocks(22, {\h20ce, \h21ce})
    @@ On({\hfe, \hff}, AM319Replies, 1)
AM319Encode ==
    Frames(1, [reboot |-> \hff10, stop_buzzer |-> \hff3d, query_status |-> \hff2c, stop_transmit |-> \hfd6d,
                clear_history |-> \hff27, set_time_sync |-> \hff3b, set_tvoc_unit |-> \hffeb,
                set_co2_abc_calibration |-> \hff39, set_co2_calibration_enable |-> \hfff4,
                set_buzzer |-> \hff3e, set_led_indicator |-> \hff2e, set_screen_display_enable |-> \hff2d,
                set_screen_display_alarm_enable |-> \hff66, set_screen_display_pattern |-> \hff3c,
                set_child_lock |-> \hff25, set_retransmit_enable |-> \hff69, set_history_enable |-> \hff68])
    @@ Frames(2, [set_report_interval |-> \hff03, set_time_zone |-> \hff17,
                set_pm2_5_collection_interval |-> \hff65])
    @@ Frames(3, [set_retransmit_interval |-> \hff6a, set_resend_interval |-> \hff6a])
    @@ Frames(4, [set_screen_display_elements |-> \hfff0])
    @@ [set_co2_calibration |-> {One(\hff1a, 1), One(\h1ff1a, 3)},
        fetch_history |-> {One(\hfd6b, 4), One(\hfd6c, 8)}]
AM319Offered ==
    {"reboot", "stop_buzzer", "query_status", "stop_transmit", "clear_history", "set_report_interval",
     "set_time_sync", "set_tvoc_unit", "set_pm2_5_collection_interval", "set_co2_abc_calibration",
     "set_co2_calibration", "set_buzzer", "set_led_indicator", "set_screen_display_enable",
     "set_retransmit_enable", "set_history_enable", "fetch_history"}

\* am/am319-o3.codec.ts

AM319O3Replies ==
    Blocks(1, {\h10, \h1a, \h25, \h27, \h2c, \h2d, \h2e, \h39, \h3b, \h3c, \h3d, \h3e, \h66, \h68, \h69, \h6d,
                \heb, \hf4})
    @@ Blocks(2, {\h03, \h17, \h65})
    @@ Blocks(3, {\h6a, \h11a})
    @@ Blocks(4, {\hf0})
AM319O3Decode ==
    Blocks(1, {\h0175, \h0468, \h0500, \h06cb, \h0e01, \hff01, \hff0b, \hff0f, \hfffe})
    @@ Blocks(2, {\h0367, \h077d, \h087d, \h08e6, \h0973, \h0b7d, \h0c7d, \h0d7d, \hff09, \hff0a, \hffff})
    @@ Blocks(8, {\hff16})
    @@ Blocks(22, {\h20ce, \h21ce})
    @@ On({\hfe, \hff}, AM319O3Replies, 1)
AM319O3Encode ==
    Frames(1, [reboot |-> \hff10, stop_buzzer |-> \hff3d, query_status |-> \hff2c, stop_transmit |-> \hfd6d,
                clear_history |-> \hff27, set_time_sync |-> \hff3b, set_tvoc_unit |-> \hffeb,
                set_co2_abc_calibration |-> \hff39, set_co2_calibration_enable |-> \hfff4,
                set_buzzer |-> \hff3e, set_led_indicator |-> \hff2e, set_screen_display_enable |-> \hff2d,
                set_screen_display_alarm_enable |-> \hff66, set_screen_display_pattern |-> \hff3c,
                set_child_lock |-> \hff25, set_retransmit_enable |-> \hff69, set_history_enable |-> \hff68])
    @@ Frames(2, [set_report_interval |-> \hff03, set_time_zone |-> \hff17,
                set_pm2_5_collection_interval |-> \hff65])
    @@ Frames(3, [set_retransmit_interval |-> \hff6a, set_resend_interval |-> \hff6a])
    @@ Frames(4, [set_screen_display_elements |-> \hfff0])
    @@ [set_co2_calibration |-> {One(\hff1a, 1), One(\h1ff1a, 3)},
        fetch_history |-> {One(\hfd6b, 4), One(\hfd6c, 8)}]
AM319O3Offered ==
    {"reboot", "stop_buzzer", "query_status", "stop_transmit", "clear_history", "set_report_interval",
     "set_time_sync", "set_tvoc_unit", "set_pm2_5_collection_interval", "set_co2_calibration", "set_buzzer",
     "set_led_indicator", "set_screen_display_enable", "set_retransmit_enable", "set_history_enable",
     "fetch_history"}

\* am/am319-well.codec.ts

AM319WellReplies ==
    Blocks(1, {\had})
    @@ Blocks(2, {\hac})
AM319WellExtReplies ==
    Blocks(1, {\h10, \h1a, \h25, \h27, \h2c, \h2d, \h2e, \h39, \h3b, \h3c, \h3d, \h3e, \h66, \h68, \h69, \h6d,
                \heb, \hf4})
    @@ Blocks(2, {\h03, \h17, \h65})
    @@ Blocks(3, {\h6a, \h11a})
    @@ Blocks(4, {\hf0})
AM319WellDecode ==
    Blocks(1, {\h0175, \h0468, \h0500, \h06cb, \h0e01, \hff01, \hff0b, \hff0f, \hfffe})
    @@ Blocks(2, {\h0367, \h077d, \h087d, \h08e6, \h0973, \h0b7d, \h0f7d, \hff09, \hff0a, \hffff})
    @@ Blocks(8, {\hff16})
    @@ Blocks(20, {\h22ce, \h23ce})
    @@ On({\hf9}, AM319WellReplies, 1)
    @@ On({\hfe, \hff}, AM319WellExtReplies, 1)
AM319WellEncode ==
    Frames(1, [reboot |-> \hff10, stop_buzzer |-> \hff3d, query_status |-> \hff2c, stop_transmit |-> \hfd6d,
                clear_history |-> \hff27, set_time_sync |-> \hff3b, set_tvoc_unit |-> \hffeb,
                set_co2_abc_calibration |-> \hff39, set_co2_calibration_enable |-> \hfff4,
                set_buzzer |-> \hff3e, set_led_indicator |-> \hff2e, set_screen_display_enable |-> \hff2d,
                set_screen_display_alarm_enable |-> \hff66, set_screen_display_pattern |-> \hff3c,
                set_child_lock |-> \hff25, pm_self_clean |-> \hf9ad, set_retransmit_enable |-> \hff69,
                set_history_enable |-> \hff68])
    @@ Frames(2, [set_report_interval |-> \hff03, set_time_zone |-> \hff17,
                set_pm2_5_collection_interval |-> \hff65, set_pm_self_clean_config |-> \hf9ac])
    @@ Frames(3, [set_retransmit_interval |-> \hff6a, set_resend_interval |-> \hff6a])
    @@ Frames(4, [set_screen_display_elements |-> \hfff0])
    @@ [set_co2_calibration |-> {One(\hff1a, 1), One(\h1ff1a, 3)},
        fetch_history |-> {One(\hfd6b, 4), One(\hfd6c, 8)}]
AM319WellOffered ==
    {"reboot", "stop_buzzer", "query_status", "stop_transmit", "clear_history", "pm_self_clean",
     "set_report_interval", "set_time_sync", "set_tvoc_unit", "set_pm2_5_collection_interval",
     "set_pm_self_clean_config", "set_co2_calibration", "set_buzzer", "set_led_indicator",
     "set_screen_display_enable", "set_retransmit_enable", "set_history_enable", "fetch_history"}

\* what codec.module.ts registers

AMCodecs ==
    [AM102 |->
        [decode |-> AM102Decode, encode |-> AM102Encode,
         offered |-> AM102Offered, answers |-> {\hfe, \hff}],
     AM103 |->
        [decode |-> AM103Decode, encode |-> AM103Encode,
         offered |-> AM103Offered, answers |-> {\hfe, \hff}],
     AM104 |->
        [decode |-> AM104Decode, encode |-> AM104Encode,
         offered |-> AM104Offered, answers |-> {\hfe, \hff}],
     AM304L |->
        [decode |-> AM304LDecode, encode |-> AM304LEncode,
         offered |-> AM304LOffered, answers |-> {\hff, \hf9, \hfd}],
     AM305L |->
        [decode |-> AM305LDecode, encode |-> AM305LEncode @@ AM304LEncode,
         offered |-> AM305LOffered, answers |-> {\hff, \hf9, \hfd}],
     AM307 |->
        [decode |-> AM307Decode, encode |-> AM307Encode,
         offered |-> AM307Offered, answers |-> {\hfe, \hff}],
     AM308 |->
        [decode |-> AM308Decode, encode |-> AM308Encode,
         offered |-> AM308Offered, answers |-> {\hfe, \hff}],
     AM319 |->
        [decode |-> AM319Decode, encode |-> AM319Encode,
         offered |-> AM319Offered, answers |-> {\hfe, \hff}],
     AM319O3 |->
        [decode |-> AM319O3Decode, encode |-> AM319O3Encode,
         offered |-> AM319O3Offered, answers |-> {\hfe, \hff}],
     AM319Well |->
        [decode |-> AM319WellDecode, encode |-> AM319WellEncode,
         offered |-> AM319WellOffered, answers |-> {\hf9, \hfe, \hff}]]

\* variants.codec.ts: models that differ from another by name only

AMVariants ==
    [AM102A |-> AMCodecs.AM102, AM102L |-> AMCodecs.AM102, AM103L |-> AMCodecs.AM103,
     AM107 |-> AMCodecs.AM104, AM304 |-> AMCodecs.AM304L, AM305 |-> AMCodecs.AM305L,
     AM307L |-> AMCodecs.AM307, AM319L |-> AMCodecs.AM319, AM319LO3 |-> AMCodecs.AM319O3,
     AM308L |-> AMCodecs.AM308]

=============================================================================
