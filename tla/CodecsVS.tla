---------------------------- MODULE CodecsVS ----------------------------
(***************************************************************************)
(* The codecs of the people counters and occupancy sensors of the VS series: *)
(* which block each reads from an uplink and how long it is (Decode), which *)
(* block each command becomes (Encode), which commands it advertises       *)
(* (Offered), and the channels its device answers on.  CodecBlocks explains *)
(* the notation.                                                           *)
(***************************************************************************)
EXTENDS CodecBlocks

\* vs/vs121.codec.ts

VS121Replies ==
    Blocks(1, {\h04, \h10, \h40, \h43, \h44, \h45, \h48, \h50, \h51, \h84})
    @@ Blocks(2, {\h03})
    @@ Blocks(3, {\h46})
    @@ Blocks(8, {\h35})
VS121ExtReplies ==
    Blocks(1, {\h10, \h11, \h3d, \h86, \h87, \h88, \h8b, \h8c, \h93, \h94, \h98})
    @@ Blocks(2, {\h85, \h97})
    @@ Blocks(3, {\h92, \h96})
    @@ Blocks(4, {\h8d, \h8e})
    @@ Blocks(5, {\h91})
    @@ Blocks(6, {\h90, \h95})
    @@ Blocks(7, {\h99})
VS121History ==
    Blocks(5, {\h320ce}) @@ Blocks(6, {\h120ce}) @@ Blocks(9, {\h20ce}) @@ Blocks(10, {\h220ce})
VS121Uplink ==
    Blocks(1, {\h06cd, \hff01, \hff0b, \hff0f, \hfffe})
    @@ Blocks(2, {\hff09, \hff0a, \hffff})
    @@ Blocks(4, {\h04c9, \h05cc, \h0dcc, \h0f85, \h10f7, \hff1f})
    @@ Blocks(5, {\h0ee4})
    @@ Blocks(6, {\hff08})
    @@ Blocks(8, {\h07d5, \h08d5, \h09da, \h0ada, \h0bda, \h0cda})
    @@ VS121History
VS121Decode ==
    VS121Uplink
    @@ On({\hfe, \hff}, VS121Replies, 1)
    @@ On({\hf9}, VS121ExtReplies, 1)
    @@ On({\hf8}, WithResult(VS121ExtReplies), 2)
VS121Encode1 ==
    Frames(1, [reboot |-> \hff10, set_confirm_mode_enable |-> \hff04, set_adr_enable |-> \hff40,
                set_data_rate |-> \hf986, set_tx_power_level |-> \hf987, set_lorawan_version |-> \hf98b,
                set_rx2_data_rate |-> \hf98c, set_d2d_enable |-> \hff84,
                set_report_regularly_enable |-> \hff43, set_periodic_report_scheme |-> \hf910,
                set_on_the_dot_report_interval |-> \hf911, set_people_counting_report_mode |-> \hff45,
                set_people_count_change_report_enable |-> \hff44])
    @@ Frames(2, [set_rejoin_config |-> \hf985, set_from_now_on_report_interval |-> \hff03])
    @@ Frames(3, [set_people_count_jitter |-> \hff46])
    @@ Frames(4, [set_rx2_frequency |-> \hf98d, set_d2d_occupied_config |-> \hf98e])
    @@ Frames(6, [set_d2d_vacant_config |-> \hf990])
    @@ Frames(8, [set_d2d_key |-> \hff35])
VS121Encode2 ==
    Frames(1, [set_report_with_timestamp |-> \hf993, set_line_detect_enable |-> \hff48,
                set_line_detect_report_enable |-> \hf93d, clear_cumulative_count |-> \hff51,
                set_timed_reset_cumulative_enable |-> \hf994, set_region_people_counting_enable |-> \hff50,
                set_filter_u_turn |-> \hf998])
    @@ Frames(2, [set_time_schedule_config |-> \hf997, set_log_level |-> \hf988])
    @@ Frames(3, [set_region_people_counting_dwell_config |-> \hf992, set_detect_region_config |-> \hf996])
    @@ Frames(5, [set_time_config |-> \hf991])
    @@ Frames(6, [set_reset_cumulative_schedule |-> \hf995])
    @@ Frames(7, [set_time_schedule |-> \hf999])
VS121Encode == VS121Encode1 @@ VS121Encode2
VS121Offered ==
    {"reboot", "clear_cumulative_count", "set_from_now_on_report_interval", "set_people_counting_report_mode",
     "set_people_count_change_report_enable", "set_region_people_counting_enable", "set_line_detect_enable",
     "set_timed_reset_cumulative_enable", "set_d2d_enable"}

\* vs/vs132.codec.ts

VS132Replies ==
    Blocks(1, {\h04, \h10, \h40, \h42, \h43, \h51})
    @@ Blocks(2, {\h03})
VS132Decode ==
    Blocks(1, {\hff01, \hff0b, \hff0f, \hfffe})
    @@ Blocks(2, {\hff09, \hff0a, \hffff})
    @@ Blocks(4, {\h03d2, \h04d2, \h05cc, \hff1f})
    @@ Blocks(8, {\hff16})
    @@ On({\hfe, \hff}, VS132Replies, 1)
VS132Encode ==
    Frames(1, [reboot |-> \hff10, set_report_interval |-> \hff03, set_confirm_mode_enable |-> \hff04,
                set_adr_enable |-> \hff40, set_wifi_enable |-> \hff42, set_periodic_report_enable |-> \hff43,
                clear_total_count |-> \hff51])
VS132Offered ==
    {"reboot", "clear_total_count", "set_report_interval", "set_periodic_report_enable", "set_adr_enable",
     "set_wifi_enable"}

\* vs/vs133.codec.ts

VS133Replies ==
    Blocks(1, {\h04, \h10, \h27, \h40, \h42, \h43, \h44, \h51, \h68, \h69, \h6d})
    @@ Blocks(2, {\h03})
    @@ Blocks(3, {\h6a})
    @@ Blocks(4, {\h11, \h6b})
    @@ Blocks(8, {\h6c})
VS133ExtReplies ==
    Blocks(1, {\h86, \h87})
    @@ Blocks(2, {\h85, \h88})
    @@ Blocks(3, {\h84})
VS133History ==
    Blocks(5, {\h220ce}) @@ Blocks(8, {\h120ce}) @@ Blocks(9, {\h20ce})
VS133Decode ==
    Blocks(1, {\hff01, \hff0b, \hff0f, \hfffe})
    @@ Blocks(2, {\hff09, \hff0a, \hffff})
    @@ Blocks(3, {\h50fc})
    @@ Blocks(4, {\h03d2, \h04d2, \h05cc, \h06d2, \h07d2, \h08cc, \h09d2, \h0ad2, \h0bcc, \h0cd2, \h0dd2, \h0ecc,
                \h0fe3, \h11d2, \h12d2, \h13cc, \h14d2, \h15d2, \h16cc, \h17d2, \h18d2, \h19cc, \h1ad2, \h1bd2,
                \h1ccc, \h1de3, \hff1f})
    @@ Blocks(5, {\h10e4, \h1ee4})
    @@ Blocks(8, {\hff16})
    @@ VS133History
    @@ On({\hfe, \hff}, VS133Replies, 1)
    @@ On({\hf9}, VS133ExtReplies, 1)
    @@ On({\hf8}, WithResult(VS133ExtReplies), 2)
VS133Encode ==
    Frames(1, [reboot |-> \hff10, set_confirm_mode_enable |-> \hff04, set_adr_enable |-> \hff40,
                set_wifi_enable |-> \hff42, set_periodic_report_enable |-> \hff43,
                set_trigger_report_enable |-> \hff44, clear_total_count |-> \hff51,
                set_retransmit_enable |-> \hff69, set_history_enable |-> \hff68, stop_transmit |-> \hfd6d,
                clear_history |-> \hff27, set_data_rate |-> \hf986, set_tx_power_level |-> \hf987])
    @@ Frames(2, [set_report_interval |-> \hff03, set_rejoin_config |-> \hf985, set_log_config |-> \hf988])
    @@ Frames(3, [set_retransmit_interval |-> \hff6a, set_resend_interval |-> \hff6a,
                set_sync_time_from_gateway |-> \hf984])
    @@ Frames(4, [set_timestamp |-> \hff11])
    @@ [fetch_history |-> {One(\hfd6b, 4), One(\hfd6c, 8)}]
VS133Offered ==
    {"reboot", "clear_total_count", "clear_history", "stop_transmit", "set_report_interval",
     "set_periodic_report_enable", "set_trigger_report_enable", "set_history_enable", "set_retransmit_enable",
     "fetch_history", "set_rejoin_config"}

\* vs/vs321.codec.ts

VS321Replies ==
    Blocks(1, {\h10, \h40, \h65, \h68, \h69, \h6d, \h84})
    @@ Blocks(2, {\h02})
    @@ Blocks(3, {\h6a, \h8e})
    @@ Blocks(8, {\h35, \h96})
    @@ Blocks(9, {\h06})
VS321ExtReplies ==
    Blocks(1, {\h10, \h6b, \h6c, \h6e})
VS321Decode ==
    Blocks(1, {\h0175, \h0468, \h07ff, \hff01, \hff0b, \hff0f, \hfffe})
    @@ Blocks(2, {\h0367, \h05fd, \h08f4, \h8468, \hff09, \hff0a, \hffff})
    @@ Blocks(3, {\h8367})
    @@ Blocks(4, {\h06fe, \h0aef})
    @@ Blocks(5, {\h220ce})
    @@ Blocks(7, {\h20ce})
    @@ Blocks(8, {\hff16})
    @@ Blocks(9, {\h120ce})
    @@ On({\hfe, \hff}, VS321Replies, 1)
    @@ On({\hf9}, VS321ExtReplies, 1)
    @@ On({\hf8}, WithResult(VS321ExtReplies), 2)
VS321Encode1 ==
    Frames(1, [reboot |-> \hff10, detect |-> \hf96c, reset |-> \hf96e, set_report_type |-> \hf910,
                set_detection_mode |-> \hf96b, set_adr_enable |-> \hff40, set_lora_port |-> \hff65])
    @@ Frames(2, [set_collection_interval |-> \hff02])
    @@ Frames(3, [set_report_interval |-> \hff8e])
    @@ Frames(9, [set_temperature_alarm_config |-> \hff06, set_humidity_alarm_config |-> \hff06])
VS321Encode2 ==
    Frames(1, [set_d2d_enable |-> \hff84, set_history_enable |-> \hff68, set_retransmit_enable |-> \hff69,
                stop_transmit |-> \hfd6d])
    @@ Frames(3, [set_retransmit_interval |-> \hff6a, set_resend_interval |-> \hff6a])
    @@ Frames(8, [set_d2d_key |-> \hff35, set_d2d_master_config |-> \hff96])
    @@ Frames(9, [set_illuminance_alarm_config |-> \hff06])
    @@ [fetch_history |-> {One(\hfd6b, 4), One(\hfd6c, 8)}]
VS321Encode == VS321Encode1 @@ VS321Encode2
VS321Offered ==
    {"reboot", "detect", "reset", "stop_transmit", "set_report_interval", "set_collection_interval",
     "set_detection_mode", "set_temperature_alarm_config", "set_humidity_alarm_config", "set_history_enable",
     "set_retransmit_enable", "fetch_history", "set_d2d_enable"}

\* vs/vs330.codec.ts

VS330Replies ==
    Blocks(1, {\h10, \h71})
    @@ Blocks(2, {\h02, \h03, \h70, \h72})
    @@ Blocks(3, {\h7a})
VS330Decode ==
    Blocks(1, {\h0175, \h038e, \h048e, \hff01, \hff0b, \hff0f, \hfffe})
    @@ Blocks(2, {\h0282, \hff09, \hff0a, \hffff})
    @@ Blocks(8, {\hff16})
    @@ On({\hfe, \hff}, VS330Replies, 1)
VS330Encode ==
    Frames(1, [reboot |-> \hff10, set_test_enable |-> \hff71])
    @@ Frames(2, [set_collection_interval |-> \hff02, set_report_interval |-> \hff03,
                set_human_exist_height |-> \hff70, set_test_duration |-> \hff72])
    @@ Frames(3, [set_back_test_config |-> \hff7a])
VS330Offered ==
    {"reboot", "set_report_interval", "set_collection_interval", "set_human_exist_height", "set_test_enable",
     "set_test_duration", "set_back_test_config"}

\* vs/vs340.codec.ts

VS340Replies ==
    Blocks(1, {\h10, \h28, \h2f, \h84, \hb2})
    @@ Blocks(2, {\h95})
    @@ Blocks(3, {\h8e})
    @@ Blocks(5, {\h98, \h99})
    @@ Blocks(8, {\h35, \h96})
VS340Decode ==
    Blocks(1, {\h0175, \h0300, \hff01, \hff0b, \hff0f, \hfffe})
    @@ Blocks(2, {\hff09, \hff0a, \hffff})
    @@ Blocks(8, {\hff16})
    @@ On({\hfe, \hff}, VS340Replies, 1)
VS340Encode ==
    Frames(1, [reboot |-> \hff10, query_device_status |-> \hff28, set_led_indicator_enable |-> \hff2f,
                set_d2d_enable |-> \hff84, set_thermopile_negative_threshold |-> \hffb2])
    @@ Frames(2, [set_vacancy_reporting_interval |-> \hff95])
    @@ Frames(3, [set_report_interval |-> \hff8e])
    @@ Frames(5, [set_pir_collect_settings |-> \hff98, set_thermopile_collect_settings |-> \hff99])
    @@ Frames(8, [set_d2d_master_config |-> \hff96, set_d2d_key |-> \hff35])
VS340Offered ==
    {"reboot", "query_device_status", "set_report_interval", "set_vacancy_reporting_interval",
     "set_led_indicator_enable", "set_pir_collect_settings", "set_thermopile_collect_settings",
     "set_thermopile_negative_threshold", "set_d2d_enable"}

\* vs/vs350.codec.ts

VS350Replies ==
    Blocks(1, {\h10, \h28, \h4a, \h68, \h69, \h6b, \h6d, \h84, \ha6, \ha8, \ha9, \haa})
    @@ Blocks(2, {\ha7, \hbd})
    @@ Blocks(3, {\h6a, \h8e, \hab, \hef})
    @@ Blocks(8, {\h35, \h96})
    @@ Blocks(9, {\h06})
VS350ExtReplies ==
    Blocks(1, {\h10})
VS350Decode ==
    Blocks(1, {\h0175, \hff01, \hff0b, \hff0f, \hfffe})
    @@ Blocks(2, {\h0367, \hff09, \hff0a, \hffff})
    @@ Blocks(3, {\h8367})
    @@ Blocks(4, {\h04cc, \h05cc, \h0aef})
    @@ Blocks(5, {\h84cc, \h85cc, \h220ce})
    @@ Blocks(8, {\hff16})
    @@ Blocks(9, {\h20ce})
    @@ Blocks(13, {\h120ce})
    @@ On({\hfe, \hff}, VS350Replies, 1)
    @@ On({\hf9}, VS350ExtReplies, 1)
    @@ On({\hf8}, WithResult(VS350ExtReplies), 2)
VS350Encode ==
    Frames(1, [reboot |-> \hff10, report_status |-> \hff28, sync_time |-> \hff4a, set_report_type |-> \hf910,
                set_reset_cumulative_enable |-> \hffa6, reset_cumulative_in |-> \hffa8,
                reset_cumulative_out |-> \hffa8, set_report_cumulative_enable |-> \hffa9,
                set_report_temperature_enable |-> \hffaa, set_d2d_enable |-> \hff84,
                set_history_enable |-> \hff68, set_retransmit_enable |-> \hff69, stop_transmit |-> \hfd6d])
    @@ Frames(2, [set_time_zone |-> \hffbd, set_reset_cumulative_interval |-> \hffa7])
    @@ Frames(3, [set_report_interval |-> \hff8e, set_temperature_calibration |-> \hffab,
                set_retransmit_interval |-> \hff6a, set_resend_interval |-> \hff6a])
    @@ Frames(8, [set_d2d_key |-> \hff35, set_d2d_master_config |-> \hff96])
    @@ Frames(9, [set_people_period_alarm_config |-> \hff06, set_people_cumulative_alarm_config |-> \hff06,
                set_temperature_alarm_config |-> \hff06])
    @@ [fetch_history |-> {One(\hfd6b, 4), One(\hfd6c, 8)}]
VS350Offered ==
    {"reboot", "report_status", "sync_time", "reset_cumulative_in", "reset_cumulative_out", "stop_transmit",
     "set_report_interval", "set_time_zone", "set_reset_cumulative_enable", "set_reset_cumulative_interval",
     "set_report_cumulative_enable", "set_temperature_alarm_config", "set_temperature_calibration",
     "set_history_enable", "set_retransmit_enable", "fetch_history", "set_d2d_enable"}

\* vs/vs351.codec.ts

VS351Replies ==
    Blocks(1, {\h04, \h10, \h27, \h28, \h40, \h41, \h68, \h69, \h6d, \h84, \ha6, \ha8, \ha9, \haa, \hec})
    @@ Blocks(2, {\h77, \h8f})
    @@ Blocks(3, {\h05, \h6a, \h8e, \hab, \hed})
    @@ Blocks(6, {\h75})
    @@ Blocks(8, {\h35, \h96})
    @@ Blocks(9, {\h06})
VS351ExtReplies ==
    Blocks(1, {\h10, \h86, \h87, \h8b, \h8c, \ha2, \ha3})
    @@ Blocks(2, {\h85})
    @@ Blocks(4, {\h8d})
VS351Decode ==
    Blocks(1, {\h0175, \hff01, \hff0b, \hff0f, \hffcc, \hfffe})
    @@ Blocks(2, {\h0367, \hff09, \hff0a, \hffff})
    @@ Blocks(3, {\h8367})
    @@ Blocks(4, {\h04cc, \h05cc, \h0aef})
    @@ Blocks(5, {\h84cc, \h85cc, \h220ce})
    @@ Blocks(8, {\hff16})
    @@ Blocks(9, {\h20ce})
    @@ Blocks(13, {\h120ce})
    @@ On({\hfe, \hff}, VS351Replies, 1)
    @@ On({\hf9}, VS351ExtReplies, 1)
    @@ On({\hf8}, WithResult(VS351ExtReplies), 2)
VS351Encode1 ==
    Frames(1, [reboot |-> \hff10, query_device_status |-> \hff28, set_reset_cumulative_enable |-> \hffa6,
                reset_cumulative_in |-> \hffa8, reset_cumulative_out |-> \hffa8,
                set_report_cumulative_enable |-> \hffa9, set_report_temperature_enable |-> \hffaa,
                set_detection_direction |-> \hffec, set_retransmit_enable |-> \hff69])
    @@ Frames(2, [set_installation_height |-> \hff77])
    @@ Frames(3, [set_report_interval |-> \hff8e, set_reset_cumulative_schedule |-> \hffed,
                set_temperature_calibration |-> \hffab, set_retransmit_interval |-> \hff6a,
                set_resend_interval |-> \hff6a])
    @@ Frames(6, [set_hibernate_config |-> \hff75])
    @@ Frames(9, [set_people_period_alarm_config |-> \hff06, set_people_cumulative_alarm_config |-> \hff06,
                set_temperature_alarm_config |-> \hff06])
VS351Encode2 ==
    Frames(1, [set_history_enable |-> \hff68, stop_transmit |-> \hfd6d, clear_history |-> \hff27,
                set_d2d_enable |-> \hff84, set_confirm_mode_enable |-> \hff04, set_adr_enable |-> \hff40,
                set_lora_port |-> \hff41, set_data_rate |-> \hf986, set_tx_power_level |-> \hf987,
                set_lorawan_version |-> \hf98b, set_rx2_data_rate |-> \hf98c, set_lora_join_mode |-> \hf9a3,
                set_report_type |-> \hf910, set_installation_scene |-> \hf9a2])
    @@ Frames(2, [set_rejoin_config |-> \hf985])
    @@ Frames(3, [set_lora_channel_mask |-> \hff05])
    @@ Frames(4, [set_rx2_frequency |-> \hf98d])
    @@ Frames(8, [set_d2d_key |-> \hff35, set_d2d_master_config |-> \hff96])
    @@ [fetch_history |-> {One(\hfd6b, 4), One(\hfd6c, 8)}]
VS351Encode == VS351Encode1 @@ VS351Encode2
VS351Offered ==
    {"reboot", "query_device_status", "reset_cumulative_in", "reset_cumulative_out", "clear_history",
     "stop_transmit", "set_report_interval", "set_installation_height", "set_detection_direction",
     "set_reset_cumulative_enable", "set_reset_cumulative_schedule", "set_hibernate_config",
     "set_temperature_alarm_config", "set_history_enable", "set_retransmit_enable", "fetch_history",
     "set_rejoin_config", "set_d2d_enable"}

\* vs/vs360.codec.ts

VS360Replies ==
    Blocks(1, {\h10, \h28, \h4a, \h68, \h69, \h6d, \h84, \ha6, \ha8, \ha9, \hfc, \hfd})
    @@ Blocks(2, {\hbd})
    @@ Blocks(3, {\h6a, \h8e, \hed})
    @@ Blocks(6, {\h75})
    @@ Blocks(8, {\h35, \h96})
    @@ Blocks(9, {\h06})
VS360ExtReplies ==
    Blocks(1, {\h10})
VS360Decode ==
    Blocks(1, {\h0175, \h0275, \hff01, \hff0b, \hff0f, \hfffe})
    @@ Blocks(2, {\h03f4, \hff09, \hff0a, \hffff})
    @@ Blocks(4, {\h04cc, \h05cc, \h0aef})
    @@ Blocks(5, {\h84cc, \h85cc, \h220ce})
    @@ Blocks(8, {\hff16})
    @@ Blocks(9, {\h20ce})
    @@ Blocks(13, {\h120ce})
    @@ On({\hfe, \hff}, VS360Replies, 1)
    @@ On({\hf9}, VS360ExtReplies, 1)
    @@ On({\hf8}, WithResult(VS360ExtReplies), 2)
VS360Encode ==
    Frames(1, [reboot |-> \hff10, report_status |-> \hff28, sync_time |-> \hff4a, set_report_type |-> \hf910,
                set_report_cumulative_enable |-> \hffa9, set_reset_cumulative_enable |-> \hffa6,
                reset_cumulative_in |-> \hffa8, reset_cumulative_out |-> \hffa8, set_counting_mode |-> \hfffc,
                set_led_indicator_enable |-> \hfffd, set_d2d_enable |-> \hff84, set_history_enable |-> \hff68,
                set_retransmit_enable |-> \hff69, stop_transmit |-> \hfd6d])
    @@ Frames(2, [set_time_zone |-> \hffbd])
    @@ Frames(3, [set_report_interval |-> \hff8e, set_reset_cumulative_schedule |-> \hffed,
                set_retransmit_interval |-> \hff6a, set_resend_interval |-> \hff6a])
    @@ Frames(6, [set_hibernate_config |-> \hff75])
    @@ Frames(8, [set_d2d_key |-> \hff35, set_d2d_master_config |-> \hff96])
    @@ Frames(9, [set_people_period_alarm_config |-> \hff06, set_people_cumulative_alarm_config |-> \hff06])
    @@ [fetch_history |-> {One(\hfd6b, 4), One(\hfd6c, 8)}]
VS360Offered ==
    {"reboot", "report_status", "sync_time", "reset_cumulative_in", "reset_cumulative_out", "stop_transmit",
     "set_report_interval", "set_time_zone", "set_counting_mode", "set_led_indicator_enable",
     "set_reset_cumulative_enable", "set_reset_cumulative_schedule", "set_hibernate_config",
     "set_people_period_alarm_config", "set_history_enable", "set_retransmit_enable", "fetch_history",
     "set_d2d_enable"}

\* vs/vs370.codec.ts

VS370Replies ==
    Blocks(1, {\h10, \h28, \h4a, \h84, \h8f})
    @@ Blocks(2, {\hbd})
    @@ Blocks(3, {\h8e})
    @@ Blocks(8, {\h35, \h96})
    @@ Blocks(10, {\hba})
VS370ExtReplies ==
    Blocks(1, {\h3e, \h3f, \h40, \h42, \h43})
    @@ Blocks(5, {\h41})
    @@ Blocks(6, {\h44})
VS370Decode ==
    Blocks(1, {\h0175, \h0300, \h0400, \hff01, \hff0b, \hff0f, \hfffe})
    @@ Blocks(2, {\hff09, \hff0a, \hffff})
    @@ Blocks(8, {\hff16})
    @@ On({\hfe, \hff}, VS370Replies, 1)
    @@ On({\hf9}, VS370ExtReplies, 1)
    @@ On({\hf8}, WithResult(VS370ExtReplies), 2)
VS370Encode ==
    Frames(1, [reboot |-> \hff10, sync_time |-> \hff4a, report_status |-> \hff28,
                set_pir_idle_interval |-> \hf940, set_pir_window_time |-> \hf942,
                set_pir_pulse_times |-> \hf943, set_pir_sensitivity |-> \hf93e,
                set_radar_sensitivity |-> \hf93f, set_bluetooth_enable |-> \hff8f, set_d2d_enable |-> \hff84])
    @@ Frames(2, [set_time_zone |-> \hffbd])
    @@ Frames(3, [set_report_interval |-> \hff8e])
    @@ Frames(5, [set_pir_illuminance_threshold |-> \hf941])
    @@ Frames(6, [set_hibernate_config |-> \hf944])
    @@ Frames(8, [set_d2d_key |-> \hff35, set_d2d_master_config |-> \hff96])
    @@ Frames(10, [set_dst_config |-> \hffba])
VS370Offered ==
    {"reboot", "sync_time", "set_report_interval", "set_pir_idle_interval", "set_pir_sensitivity",
     "set_radar_sensitivity", "set_pir_window_time", "set_pir_pulse_times", "set_pir_illuminance_threshold",
     "set_time_zone", "set_hibernate_config", "set_bluetooth_enable", "set_d2d_enable",
     "set_d2d_master_config"}

\* what codec.module.ts registers

VSCodecs ==
    [VS121 |->
        [decode |-> VS121Decode, encode |-> VS121Encode,
         offered |-> VS121Offered, answers |-> {\hf8, \hf9, \hfe, \hff}],
     VS132 |->
        [decode |-> VS132Decode, encode |-> VS132Encode,
         offered |-> VS132Offered, answers |-> {\hfe, \hff}],
     VS133 |->
        [decode |-> VS133Decode, encode |-> VS133Encode,
         offered |-> VS133Offered, answers |-> {\hf8, \hf9, \hfe, \hff}],
     VS321 |->
        [decode |-> VS321Decode, encode |-> VS321Encode,
         offered |-> VS321Offered, answers |-> {\hf8, \hf9, \hfe, \hff}],
     VS330 |->
        [decode |-> VS330Decode, encode |-> VS330Encode,
         offered |-> VS330Offered, answers |-> {\hfe, \hff}],
     VS340 |->
        [decode |-> VS340Decode, encode |-> VS340Encode,
         offered |-> VS340Offered, answers |-> {\hfe, \hff}],
     VS350 |->
        [decode |-> VS350Decode, encode |-> VS350Encode,
         offered |-> VS350Offered, answers |-> {\hf8, \hf9, \hfe, \hff}],
     VS351 |->
        [decode |-> VS351Decode, encode |-> VS351Encode,
         offered |-> VS351Offered, answers |-> {\hf8, \hf9, \hfe, \hff}],
     VS360 |->
        [decode |-> VS360Decode, encode |-> VS360Encode,
         offered |-> VS360Offered, answers |-> {\hf8, \hf9, \hfe, \hff}],
     VS370 |->
        [decode |-> VS370Decode, encode |-> VS370Encode,
         offered |-> VS370Offered, answers |-> {\hf8, \hf9, \hfe, \hff}]]

\* subclasses that only change the name

VSVariants == [VS135 |-> VSCodecs.VS133, VS341 |-> VSCodecs.VS340]

=============================================================================
