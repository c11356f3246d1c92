---------------------------- MODULE CodecsWS ----------------------------
(***************************************************************************)
(* The codecs of the switches, sockets and small sensors of the WS series: *)
(* which block each reads from an uplink and how long it is (Decode), which *)
(* block each command becomes (Encode), which commands it advertises       *)
(* (Offered), and the channels its device answers on.  CodecBlocks explains *)
(* the notation.                                                           *)
(***************************************************************************)
EXTENDS CodecBlocks

\* ws/ws101.codec.ts

WS101Replies ==
    Blocks(1, {\h10, \h28, \h2f, \h3e, \h74})
    @@ Blocks(2, {\h03})
WS101Decode ==
    Blocks(1, {\h0175, \hff01, \hff0b, \hff0f, \hff2e, \hfffe})
    @@ Blocks(2, {\hff09, \hff0a, \hffff})
    @@ Blocks(6, {\hff08})
    @@ On({\hfe, \hff}, WS101Replies, 1)
WS101Encode ==
    Frames(1, [reboot |-> \hff10, query_device_status |-> \hff28, set_led_indicator |-> \hff2f,
                set_double_click |-> \hff74, set_buzzer |-> \hff3e])
    @@ Frames(2, [set_reporting_interval |-> \hff03])
WS101Offered ==
    {"reboot", "query_device_status", "set_reporting_interval", "set_led_indicator", "set_double_click",
     "set_buzzer"}

\* ws/ws156.codec.ts

WS156Decode ==
    Blocks(1, {\h0175, \hff01, \hff0b, \hff0f, \hfffe})
    @@ Blocks(2, {\hff09, \hff0a, \hffff})
    @@ Blocks(3, {\hff34})
    @@ Blocks(8, {\hff16})

\* ws/ws201.codec.ts

WS201Replies ==
    Blocks(1, {\h10, \h28})
    @@ Blocks(2, {\h02, \h03, \h17, \h76})
    @@ Blocks(6, {\h75})
    @@ Blocks(9, {\h06})
WS201Decode ==
    Blocks(1, {\h0175, \h04d6, \hff01, \hff0b, \hff0f, \hfffe})
    @@ Blocks(2, {\h0382, \hff09, \hff0a, \hffff})
    @@ Blocks(8, {\hff16})
    @@ On({\hfe, \hff}, WS201Replies, 1)
WS201Encode ==
    Frames(1, [reboot |-> \hff10, report_status |-> \hff28])
    @@ Frames(2, [set_report_interval |-> \hff03, set_collection_interval |-> \hff02, set_time_zone |-> \hff17,
                set_depth |-> \hff76])
    @@ Frames(6, [set_hibernate_config |-> \hff75])
    @@ Frames(9, [set_remaining_alarm_config |-> \hff06])
WS201Offered ==
    {"reboot", "report_status", "set_report_interval", "set_collection_interval", "set_depth", "set_time_zone",
     "set_remaining_alarm_config", "set_hibernate_config"}

\* ws/ws202.codec.ts

WS202Replies ==
    Blocks(1, {\h10})
    @@ Blocks(2, {\h03})
    @@ Blocks(9, {\h06})
WS202Decode ==
    Blocks(1, {\h0175, \h0300, \h0400, \hff01, \hff0b, \hff0f, \hfffe})
    @@ Blocks(2, {\hff09, \hff0a, \hffff})
    @@ Blocks(6, {\hff08})
    @@ On({\hfe, \hff}, WS202Replies, 1)
\* mutant: a missing parameter leaves the payload empty
WS202EncodeMaybe ==
    Frames(2, [set_report_interval |-> \hff03]) @@ [reboot |-> {<<>>, One(\hff10, 1)}]
    @@ Frames(9, [set_light_alarm_config |-> \hff06])
WS202Encode ==
    Frames(1, [reboot |-> \hff10])
    @@ Frames(2, [set_report_interval |-> \hff03])
    @@ Frames(9, [set_light_alarm_config |-> \hff06])
WS202Offered ==
    {"reboot", "set_report_interval", "set_light_alarm_config"}

\* ws/ws203.codec.ts

WS203Replies ==
    Blocks(1, {\h10, \h27, \h28, \h2f, \h4a, \h68, \h69, \h84})
    @@ Blocks(2, {\h02, \h17, \h95})
    @@ Blocks(3, {\h6a, \h8e})
    @@ Blocks(8, {\h35, \h96})
    @@ Blocks(9, {\h06})
WS203FdReplies ==
    Blocks(1, {\h6d})
    @@ Blocks(4, {\h6b})
    @@ Blocks(8, {\h6c})
WS203Decode ==
    Blocks(1, {\h0175, \h0468, \h0500, \hff01, \hff0b, \hff0f, \hfffe})
    @@ Blocks(2, {\h0367, \hff09, \hff0a, \hffff})
    @@ Blocks(3, {\h8367})
    @@ Blocks(8, {\hff16})
    @@ Blocks(9, {\h20ce})
    @@ On({\hfe, \hff}, WS203Replies, 1)
    @@ On({\hfd}, WS203FdReplies, 1)
WS203Encode ==
    Frames(1, [reboot |-> \hff10, sync_time |-> \hff4a, query_device_status |-> \hff28,
                stop_transmit |-> \hfd6d, clear_history |-> \hff27, set_led_indicator_enable |-> \hff2f,
                set_d2d_enable |-> \hff84, set_retransmit_enable |-> \hff69, set_history_enable |-> \hff68])
    @@ Frames(2, [set_collection_interval |-> \hff02, set_vacant_reporting_interval |-> \hff95,
                set_time_zone |-> \hff17])
    @@ Frames(3, [set_report_interval |-> \hff8e, set_retransmit_interval |-> \hff6a,
                set_resend_interval |-> \hff6a])
    @@ Frames(8, [set_d2d_key |-> \hff35, set_d2d_master_config |-> \hff96])
    @@ Frames(9, [set_temperature_alarm_config |-> \hff06])
    @@ [fetch_history |-> {One(\hfd6b, 4), One(\hfd6c, 8)}]
WS203Offered ==
    {"reboot", "sync_time", "query_device_status", "stop_transmit", "clear_history", "set_report_interval",
     "set_collection_interval", "set_vacant_reporting_interval", "set_temperature_alarm_config",
     "set_time_zone", "set_led_indicator_enable", "set_d2d_enable", "set_history_enable",
     "set_retransmit_enable", "fetch_history"}

\* ws/ws301.codec.ts

WS301Replies ==
    Blocks(1, {\h10, \h28})
    @@ Blocks(2, {\h03})
WS301Decode ==
    Blocks(1, {\h0175, \h0300, \h0400, \hff01, \hff0b, \hff0f, \hfffe})
    @@ Blocks(2, {\hff09, \hff0a, \hffff})
    @@ Blocks(6, {\hff08})
    @@ On({\hfe, \hff}, WS301Replies, 1)
WS301Encode ==
    Frames(1, [reboot |-> \hff10, query_device_status |-> \hff28])
    @@ Frames(2, [set_report_interval |-> \hff03])
WS301Offered ==
    {"reboot", "query_device_status", "set_report_interval"}

\* ws/ws302.codec.ts

WS302Replies ==
    Blocks(1, {\h10, \h2d, \h3b})
    @@ Blocks(2, {\h17, \h1d})
    @@ Blocks(4, {\h11})
WS302Decode ==
    Blocks(1, {\h0175, \hff01, \hff0b, \hff0f, \hfffe})
    @@ Blocks(2, {\hff09, \hff0a, \hffff})
    @@ Blocks(7, {\h055b})
    @@ Blocks(8, {\hff16})
    @@ On({\hfe, \hff}, WS302Replies, 1)
WS302Encode ==
    Frames(1, [reboot |-> \hff10, set_time_sync_enable |-> \hff3b, set_led_indicator_enable |-> \hff2d])
    @@ Frames(2, [set_time_zone |-> \hff17, set_weighting_type |-> \hff1d])
    @@ Frames(4, [set_timestamp |-> \hff11])
WS302Offered ==
    {"reboot", "set_time_zone", "set_weighting_type", "set_led_indicator_enable", "set_time_sync_enable",
     "set_timestamp"}

\* ws/ws303.codec.ts

WS303Replies ==
    Blocks(1, {\h10, \h28, \h3d, \h3e, \h7f, \h84})
    @@ Blocks(2, {\h03, \h80, \h81})
    @@ Blocks(3, {\h83})
    @@ Blocks(5, {\h7e})
WS303Decode ==
    Blocks(1, {\h0175, \h0300, \hff01, \hff0b, \hff0f, \hfffe})
    @@ Blocks(2, {\hff09, \hff0a, \hffff})
    @@ Blocks(8, {\hff16})
    @@ On({\hfe, \hff}, WS303Replies, 1)
WS303Encode ==
    Frames(1, [reboot |-> \hff10, query_device_status |-> \hff28, stop_alarming |-> \hff3d,
                set_buzzer_enable |-> \hff3e, set_find_device_enable |-> \hff7f, set_d2d_enable |-> \hff84])
    @@ Frames(2, [set_report_interval |-> \hff03, set_find_device_time |-> \hff80,
                set_lora_report_settings |-> \hff81])
    @@ Frames(3, [set_d2d_master_config |-> \hff83])
    @@ Frames(5, [set_leakage_alarm_config |-> \hff7e])
WS303Offered ==
    {"reboot", "query_device_status", "stop_alarming", "set_report_interval", "set_buzzer_enable",
     "set_leakage_alarm_config", "set_find_device_enable", "set_find_device_time", "set_d2d_enable"}

\* ws/ws502eu.codec.ts

WS502EUReplies ==
    Blocks(1, {\h10, \h26, \h27, \h28, \h2c, \h2f, \h5e})
    @@ Blocks(2, {\h03, \h23, \h25})
    @@ Blocks(4, {\h22})
WS502EUDecode ==
    Blocks(1, {\h0581, \h0829, \hff01, \hff0b, \hff0f, \hfffe})
    @@ Blocks(2, {\h0374, \h07c9, \hff09, \hff0a, \hffff})
    @@ Blocks(4, {\h0480, \h0683})
    @@ Blocks(8, {\hff16})
    @@ On({\hfe, \hff}, WS502EUReplies, 1)
WS502EUEncode ==
    Frames(1, [reboot |-> \hff10, report_status |-> \hff28, report_attribute |-> \hff2c,
                clear_power_consumption |-> \hff27, set_switch |-> \h0800, set_led_mode |-> \hff2f,
                set_reset_button_enable |-> \hff5e, set_power_consumption_enable |-> \hff26])
    @@ Frames(2, [set_report_interval |-> \hff03, cancel_delay_task |-> \hff23, set_child_lock_config |-> \hff25])
    @@ Frames(4, [set_delay_task |-> \hff22])
WS502EUOffered ==
    {"reboot", "report_status", "clear_power_consumption", "set_report_interval", "set_switch",
     "set_power_consumption_enable", "set_led_mode", "set_child_lock_config"}

\* ws/ws503.codec.ts

WS503Replies ==
    Blocks(1, {\h10, \h28, \h29, \h2c, \h2f})
    @@ Blocks(2, {\h03, \h23, \h25})
    @@ Blocks(4, {\h22})
WS503Decode ==
    Blocks(1, {\hff01, \hff0b, \hff0f, \hff29, \hff2b, \hfffe})
    @@ Blocks(2, {\hff09, \hff0a, \hffff})
    @@ Blocks(6, {\hff08})
    @@ On({\hfe, \hff}, WS503Replies, 1)
WS503Encode ==
    Frames(1, [reboot |-> \hff10, report_status |-> \hff28, report_attribute |-> \hff2c,
                set_switch |-> \hff29, set_led_mode |-> \hff2f])
    @@ Frames(2, [set_report_interval |-> \hff03, cancel_delay_task |-> \hff23, set_child_lock_config |-> \hff25])
    @@ Frames(4, [set_delay_task |-> \hff22])
WS503Offered ==
    {"reboot", "report_status", "report_attribute", "set_report_interval", "set_switch", "set_led_mode",
     "set_child_lock_config"}

\* ws/ws503cn.codec.ts

WS503CNReplies ==
    Blocks(1, {\h10, \h28, \h2c, \h2f, \h4a, \h5e})
    @@ Blocks(2, {\h03, \h23, \h25})
    @@ Blocks(4, {\h22})
WS503CNExtReplies ==
    Blocks(2, {\h65, \hbd})
    @@ Blocks(9, {\h64})
WS503CNDecode ==
    Blocks(1, {\h0829, \hff01, \hff0b, \hff0f, \hfffe})
    @@ Blocks(2, {\hff09, \hff0a, \hffff})
    @@ Blocks(7, {\hf967})
    @@ Blocks(8, {\hff16})
    @@ On({\hfe, \hff}, WS503CNReplies, 1)
    @@ On({\hf8, \hf9}, WS503CNExtReplies, 1)
WS503CNEncode ==
    Frames(1, [reboot |-> \hff10, report_status |-> \hff28, report_attribute |-> \hff2c, sync_time |-> \hff4a,
                set_switch |-> \h0800, set_led_mode |-> \hff2f, set_reset_button_enable |-> \hff5e,
                query_rule_config |-> \hf965, query_all_rule_config |-> \hf965])
    @@ Frames(2, [set_report_interval |-> \hff03, cancel_delay_task |-> \hff23, set_child_lock_config |-> \hff25,
                set_time_zone |-> \hf9bd])
    @@ Frames(4, [set_delay_task |-> \hff22])
    @@ Frames(7, [set_rule_config |-> \hf964])
WS503CNOffered ==
    {"reboot", "report_status", "sync_time", "set_report_interval", "set_switch", "set_led_mode",
     "set_child_lock_config", "set_time_zone", "set_rule_config", "query_rule_config", "query_all_rule_config"}

\* ws/ws503v4.codec.ts

WS503v4Replies ==
    Blocks(1, {\h10, \h26, \h27, \h28, \h29, \h2c, \h2f, \h4a, \h5e, \h67, \h8d, \hc7})
    @@ Blocks(2, {\h03, \h24, \h25, \h30, \hbd})
    @@ Blocks(5, {\h83})
WS503v4ExtReplies ==
    Blocks(1, {\h65})
    @@ Blocks(5, {\hb8})
    @@ Blocks(7, {\h64, \h67, \hab})
    @@ Blocks(9, {\h72})
WS503v4Decode ==
    Blocks(1, {\h0581, \h8829, \h89df, \hb374, \hb480, \hb581, \hb683, \hb7c9, \hff01, \hff0b, \hff0f, \hff29,
                \hfffe})
    @@ Blocks(2, {\h0374, \h07c9, \hff09, \hff0a, \hffff})
    @@ Blocks(3, {\h87c9})
    @@ Blocks(4, {\h0480, \h0683})
    @@ Blocks(8, {\hff16})
    @@ On({\hfe, \hff}, WS503v4Replies, 1)
    @@ On({\hf9}, WS503v4ExtReplies, 1)
    @@ On({\hf8}, WithResult(WS503v4ExtReplies), 2)
WS503v4Encode1 ==
    Frames(1, [reboot |-> \hff10, report_status |-> \hff28, report_attribute |-> \hff2c,
                time_synchronize |-> \hff4a, power_consumption_clear |-> \hff27,
                set_button_status_control |-> \hff29, set_button_reset_config |-> \hff5e,
                set_power_consumption_3w |-> \hff26, set_led_mode |-> \hff2f,
                set_highcurrent_config |-> \hff8d, set_power_switch_mode |-> \hff67,
                set_d2d_settings |-> \hffc7])
    @@ Frames(2, [set_reporting_interval |-> \hff03, set_button_lock_config |-> \hff25,
                set_overcurrent_alarm_config |-> \hff24, set_overcurrent_protection |-> \hff30,
                set_time_zone |-> \hffbd])
    @@ Frames(5, [set_d2d_agent_settings |-> \hff83])
WS503v4Encode2 ==
    Frames(1, [get_schedule |-> \hf965])
    @@ Frames(5, [set_d2d_controller_settings |-> \hf9b8])
    @@ Frames(7, [set_schedule |-> \hf964, set_power_consumption_2w |-> \hf9ab])
    @@ Frames(9, [set_daylight_saving_time |-> \hf972])
WS503v4Encode == WS503v4Encode1 @@ WS503v4Encode2
WS503v4Offered ==
    {"reboot", "report_status", "power_consumption_clear", "set_reporting_interval",
     "set_button_status_control", "set_button_lock_config", "set_led_mode", "set_time_zone",
     "set_overcurrent_alarm_config", "set_overcurrent_protection", "set_power_switch_mode", "set_d2d_settings",
     "set_schedule", "get_schedule"}

\* ws/ws51x.codec.ts

WS51xReplies ==
    Blocks(1, {\h10, \h26, \h27, \h28, \h8d, \ha5})
    @@ Blocks(2, {\h03, \h23, \h24, \h25, \h2f, \h30})
    @@ Blocks(3, {\h34, \hab})
    @@ Blocks(4, {\h22})
    @@ Blocks(9, {\h06})
WS51xDecode ==
    Blocks(1, {\h0581, \h0870, \hff01, \hff0b, \hff0f, \hfffe})
    @@ Blocks(2, {\h0374, \h07c9, \h0967, \hff09, \hff0a, \hffff})
    @@ Blocks(3, {\h8967})
    @@ Blocks(4, {\h0480, \h0683})
    @@ Blocks(5, {\h9967})
    @@ Blocks(8, {\hff16})
    @@ On({\hfe, \hff}, WS51xReplies, 1)
WS51xEncode ==
    Frames(1, [reboot |-> \hff10, report_status |-> \hff28, reset_power_consumption |-> \hff27,
                set_socket_status |-> \h0800, set_overload_current_protection |-> \hff8d,
                set_power_consumption_enable |-> \hff26, set_led_indicator_reserve |-> \hffa5])
    @@ Frames(2, [set_report_interval |-> \hff03, cancel_delay_task |-> \hff23,
                set_current_alarm_config |-> \hff24, set_over_current_protection |-> \hff30,
                set_child_lock_config |-> \hff25, set_led_indicator_enable |-> \hff2f])
    @@ Frames(3, [set_temperature_calibration |-> \hffab, set_d2d_command |-> \hff34])
    @@ Frames(4, [set_delay_task |-> \hff22])
    @@ Frames(9, [set_temperature_alarm_config |-> \hff06])
WS51xOffered ==
    {"reboot", "report_status", "reset_power_consumption", "set_report_interval", "set_socket_status",
     "set_temperature_alarm_config", "set_temperature_calibration", "set_power_consumption_enable",
     "set_over_current_protection", "set_overload_current_protection", "set_current_alarm_config",
     "set_child_lock_config", "set_led_indicator_enable"}

\* ws/ws52x.codec.ts

WS52xReplies ==
    Blocks(1, {\h10, \h26, \h27, \h28, \h2c, \h2f})
    @@ Blocks(2, {\h03, \h23, \h24, \h25, \h30})
    @@ Blocks(4, {\h22})
WS52xDecode ==
    Blocks(1, {\h0581, \h0870, \hff01, \hff0b, \hff0f, \hfffe})
    @@ Blocks(2, {\h0374, \h07c9, \hff09, \hff0a, \hffff})
    @@ Blocks(4, {\h0480, \h0683})
    @@ Blocks(8, {\hff16})
    @@ On({\hfe, \hff}, WS52xReplies, 1)
WS52xEncode ==
    Frames(1, [reboot |-> \hff10, report_status |-> \hff28, report_attribute |-> \hff2c,
                reset_power_consumption |-> \hff27, set_power_consumption_enable |-> \hff26,
                set_led_indicator_enable |-> \hff2f])
    @@ Frames(2, [set_report_interval |-> \hff03, set_socket_status |-> \h0800, cancel_delay_task |-> \hff23,
                set_over_current_protection |-> \hff30, set_current_alarm_config |-> \hff24,
                set_child_lock_config |-> \hff25])
    @@ Frames(4, [set_socket_status_with_delay |-> \hff22])
WS52xOffered ==
    {"reboot", "report_status", "reset_power_consumption", "set_report_interval", "set_socket_status",
     "set_power_consumption_enable", "set_over_current_protection", "set_current_alarm_config",
     "set_child_lock_config", "set_led_indicator_enable"}

\* ws/ws558.codec.ts

WS558Replies ==
    Blocks(1, {\h10, \h26, \h27, \h28})
    @@ Blocks(2, {\h03, \h23})
    @@ Blocks(5, {\h32})
WS558Decode ==
    Blocks(1, {\h0581, \hff01, \hff0b, \hff0f, \hff26, \hfffe})
    @@ Blocks(2, {\h0374, \h07c9, \h0831, \hff09, \hff0a, \hffff})
    @@ Blocks(4, {\h0480, \h0683})
    @@ Blocks(8, {\hff16})
    @@ On({\hfe, \hff}, WS558Replies, 1)
WS558Encode ==
    Frames(1, [reboot |-> \hff10, report_status |-> \hff28, control_switch |-> \h0800,
                set_power_consumption_enable |-> \hff26, clear_power_consumption |-> \hff27])
    @@ Frames(2, [set_report_interval |-> \hff03])
    @@ Frames(5, [control_switch_with_delay |-> \hff32])
    @@ [cancel_delay_task |-> {<<>>, One(\hff23, 2)}]
WS558Offered ==
    {"control_switch", "control_switch_with_delay", "set_report_interval", "reboot"}

\* what codec.module.ts registers

WSCodecs ==
    [WS101 |->
        [decode |-> WS101Decode, encode |-> WS101Encode,
         offered |-> WS101Offered, answers |-> {\hfe, \hff}],
     WS156 |->
        [decode |-> WS156Decode, encode |-> NoCommands,
         offered |-> {}, answers |-> {}],
     WS201 |->
        [decode |-> WS201Decode, encode |-> WS201Encode,
         offered |-> WS201Offered, answers |-> {\hfe, \hff}],
     WS202 |->
        [decode |-> WS202Decode, encode |-> WS202Encode,
         offered |-> WS202Offered, answers |-> {\hfe, \hff}],
     WS203 |->
        [decode |-> WS203Decode, encode |-> WS203Encode,
         offered |-> WS203Offered, answers |-> {\hfd, \hfe, \hff}],
     WS301 |->
        [decode |-> WS301Decode, encode |-> WS301Encode,
         offered |-> WS301Offered, answers |-> {\hfe, \hff}],
     WS302 |->
        [decode |-> WS302Decode, encode |-> WS302Encode,
         offered |-> WS302Offered, answers |-> {\hfe, \hff}],
     WS303 |->
        [decode |-> WS303Decode, encode |-> WS303Encode,
         offered |-> WS303Offered, answers |-> {\hfe, \hff}],
     WS502EU |->
        [decode |-> WS502EUDecode, encode |-> WS502EUEncode,
         offered |-> WS502EUOffered, answers |-> {\hfe, \hff}],
     WS503 |->
        [decode |-> WS503Decode, encode |-> WS503Encode,
         offered |-> WS503Offered, answers |-> {\hfe, \hff}],
     WS503CN |->
        [decode |-> WS503CNDecode, encode |-> WS503CNEncode,
         offered |-> WS503CNOffered, answers |-> {\hf8, \hf9, \hfe, \hff}],
     WS503v4 |->
        [decode |-> WS503v4Decode, encode |-> WS503v4Encode,
         offered |-> WS503v4Offered, answers |-> {\hf8, \hf9, \hfe, \hff}],
     WS51x |->
        [decode |-> WS51xDecode, encode |-> WS51xEncode,
         offered |-> WS51xOffered, answers |-> {\hfe, \hff}],
     WS52x |->
        [decode |-> WS52xDecode, encode |-> WS52xEncode,
         offered |-> WS52xOffered, answers |-> {\hfe, \hff}],
     WS558 |->
        [decode |-> WS558Decode, encode |-> WS558Encode,
         offered |-> WS558Offered, answers |-> {\hfe, \hff}]]

\* ws-variants.codec.ts: models that differ from another by name only

WS50xVariants ==
    [WS501 |-> WSCodecs.WS503, WS502 |-> WSCodecs.WS503, WS502xEU |-> WSCodecs.WS502EU,
     WS501EU |-> WSCodecs.WS502EU, WS501US |-> WSCodecs.WS502EU, WS503xCN |-> WSCodecs.WS503CN,
     WS502CN |-> WSCodecs.WS503CN, WS501CN |-> WSCodecs.WS503CN]
WSVariants ==
    [WS502V4 |-> WSCodecs.WS503v4, WS501V4 |-> WSCodecs.WS503v4, WS513 |-> WSCodecs.WS51x,
     WS515 |-> WSCodecs.WS51x, WS516 |-> WSCodecs.WS51x, WS517 |-> WSCodecs.WS51x,
     WS101SOS |-> WSCodecs.WS101, WS521 |-> WSCodecs.WS52x, WS523 |-> WSCodecs.WS52x,
     WS525 |-> WSCodecs.WS52x, WS526 |-> WSCodecs.WS52x, WS136 |-> WSCodecs.WS156]
WS558Variants ==
    [WS558x868 |-> WSCodecs.WS558, WS558x868M |-> WSCodecs.WS558, WS558x915 |-> WSCodecs.WS558]

=============================================================================
