---------------------------- MODULE CodecsWT ----------------------------
(***************************************************************************)
(* The codecs of the thermostats of the WT series and the WTS506 weather   *)
(* station: which block each reads from an uplink and how long it is       *)
(* (Decode), which block each command becomes (Encode), which commands it  *)
(* advertises (Offered), and the channels its device answers on.           *)
(* CodecBlocks explains the notation.                                      *)
(***************************************************************************)
EXTENDS CodecBlocks

\* wt/wt101.codec.ts

WT101Replies ==
    Blocks(1, {\h10, \h25, \h28, \h3b, \h4a, \h57, \hac, \had, \hae, \hb3, \hb4, \hf8})
    @@ Blocks(2, {\h17, \hbd, \hc4})
    @@ Blocks(3, {\h8e, \hab, \hb0, \hb1})
    @@ Blocks(4, {\haf})
    @@ Blocks(10, {\hba})
WT101ExtReplies ==
    Blocks(1, {\h36, \h37, \h3a})
    @@ Blocks(2, {\h35, \h38})
    @@ Blocks(7, {\h33})
    @@ Blocks(9, {\h34})
WT101Decode ==
    Blocks(1, {\h0175, \h0592, \h0600, \h0700, \h08e5, \h0a00, \hff01, \hff0b, \hff0f, \hfffe})
    @@ Blocks(2, {\h0367, \h0467, \h0990, \h0b90, \hff09, \hff0a, \hffff})
    @@ Blocks(7, {\hf933})
    @@ Blocks(8, {\hff16})
    @@ Blocks(9, {\hf934})
    @@ On({\hfe, \hff}, WT101Replies, Throws)
    @@ On({\hf9}, WT101ExtReplies, Throws)
    @@ On({\hf8}, WithResult(WT101ExtReplies), Throws)
WT101Encode1 ==
    Frames(1, [reboot |-> \hff10, sync_time |-> \hff4a, report_status |-> \hff28,
                report_heating_date |-> \hff28, report_heating_schedule |-> \hff28,
                set_time_sync_enable |-> \hff3b, set_temperature_control_enable |-> \hffb3,
                set_temperature_control_mode |-> \hffae, restore_open_window_detection |-> \hff57,
                set_valve_opening |-> \hffb4, valve_calibration |-> \hffad,
                set_valve_control_algorithm |-> \hffac, set_child_lock |-> \hff25,
                set_offline_control_mode |-> \hfff8])
    @@ Frames(2, [set_time_zone |-> \hffbd, set_target_temperature_range |-> \hf935])
    @@ Frames(3, [set_report_interval |-> \hff8e, set_temperature_calibration |-> \hffab,
                set_target_temperature |-> \hffb1, set_freeze_protection |-> \hffb0])
    @@ Frames(4, [set_open_window_detection |-> \hffaf])
WT101Encode2 ==
    Frames(1, [set_display_ambient_temperature |-> \hf936, set_window_detection_valve_strategy |-> \hf937,
                set_change_report_enable |-> \hf93a])
    @@ Frames(2, [set_outside_temperature |-> \h0300, set_outside_temperature_control |-> \hffc4,
                set_effective_stroke |-> \hf938])
    @@ Frames(7, [set_heating_date |-> \hf933])
    @@ Frames(9, [set_heating_schedule |-> \hf934])
    @@ Frames(10, [set_dst |-> \hffba])
WT101Encode == WT101Encode1 @@ WT101Encode2
WT101Offered ==
    {"reboot", "sync_time", "report_status", "set_report_interval", "set_target_temperature",
     "set_valve_opening", "set_temperature_control_enable", "set_temperature_control_mode",
     "set_temperature_calibration", "set_freeze_protection", "set_open_window_detection", "valve_calibration",
     "restore_open_window_detection", "set_child_lock", "set_time_zone"}

\* wt/wt102.codec.ts

WT102Decode1 ==
    Blocks(0, {\hee})
    @@ Blocks(1, {\h00, \h04, \h05, \h07, \h08, \hc8, \hef, \hfe, \hff})
    @@ Blocks(2, {\h01, \h02, \h03, \h06, \hcf, \hd9, \hdf, \h100ef})
    @@ Blocks(3, {\h200ef})
    @@ Blocks(5, {\hed})
    @@ Blocks(8, {\hda, \hdb})
    @@ Blocks(16, {\hd8})
    @@ Blocks(32, {\hdd, \hde})
WT102Decode2 ==
    Blocks(1, {\h60, \hc4, \hc9, \hff0009, \hff000a, \hff000b, \hff000c, \hff000d, \hff000e})
    @@ Blocks(3, {\h0e, \h100009, \h110009, \h120009, \h130009})
    @@ Blocks(4, {\h20000a, \h20000d, \h21000a, \h21000d})
    @@ Blocks(5, {\h20000b, \h21000b, \h22000c, \h23000c})
    @@ Blocks(6, {\h2000e, \h20000c, \h21000c})
    @@ Blocks(7, {\h1000e})
    @@ Blocks(8, {\h3000e})
WT102Decode3 ==
    Blocks(1, {\h62, \h69, \h6b, \hff0061, \hff0063, \hff0065})
    @@ Blocks(2, {\h65, \h6a, \h10065, \h30063})
    @@ Blocks(3, {\h68, \h6c, \h20065, \h30065, \h40065, \h50065, \h160065})
    @@ Blocks(4, {\h10061, \h10063, \h20061, \h20063, \h60065, \h260065})
    @@ Blocks(5, {\h63})
    @@ Blocks(6, {\h66})
    @@ Blocks(7, {\hff0067})
    @@ Blocks(8, {\h10067})
    @@ Blocks(9, {\h67})
WT102Decode4 ==
    Blocks(0, {\h57, \h58, \hb5, \hb6, \hb8, \hb9, \hbc, \hbd, \hbe, \hbf})
    @@ Blocks(1, {\h59, \h5c, \h5d, \h5e, \h6f, \hff00c5})
    @@ Blocks(2, {\h5a, \h5b, \hc5, \hc7, \h100c5, \hff006e})
    @@ Blocks(3, {\h6e, \h70, \h2006e, \h200c5, \h3006e, \h300c5, \h5006e, \h6006e, \h7006e})
    @@ Blocks(4, {\hb7, \hba, \h1006e, \h4006e, \h8006e, \h9006e})
    @@ Blocks(6, {\h6d})
    @@ Blocks(8, {\hbb})
    @@ Blocks(10, {\hc6})
WT102Decode == WT102Decode1 @@ WT102Decode2 @@ WT102Decode3 @@ WT102Decode4 @@ Otherwise(Throws)
WT102Encode ==
    Frames(0, [reboot |-> \hbe, reset |-> \hbf, reconnect |-> \hb6, query_device_status |-> \hb9,
                synchronize_time |-> \hb8, collect_data |-> \hb5, clear_historical_data |-> \hbd,
                stop_historical_data_retrieval |-> \hbc, query_motor_stroke_position |-> \h57,
                calibrate_motor |-> \h58, request_query_all_configurations |-> \hee])
    @@ Frames(1, [set_target_valve_opening |-> \h59, set_occupancy_state |-> \h5c, set_opening_window |-> \h5d,
                delete_schedule |-> \h5e, set_temperature_unit |-> \h60,
                set_environment_temperature_display |-> \h62, set_mandatory_heating |-> \h69,
                set_change_report |-> \h6f, set_motor_stroke_limit |-> \h6b, set_auto_p |-> \hc4])
    @@ Frames(2, [set_target_temperature |-> \h5a, set_temperature |-> \h5b, set_time_zone |-> \hc7,
                set_temp_control_enable |-> \h65, set_child_lock |-> \h6a])
    @@ Frames(3, [set_freeze_protection |-> \h68, set_temperature_calibration |-> \h6c,
                set_motor_controllable_range |-> \h70])
    @@ Frames(4, [set_time |-> \hb7, retrieve_historical_data_by_time |-> \hba])
    @@ Frames(5, [set_heating_period |-> \h63])
    @@ Frames(8, [retrieve_historical_data_by_time_range |-> \hbb])
    @@ [set_temp_control_mode |-> {One(\h60065, 2), One(\h60065, 4), One(\h160065, 2), One(\h160065, 3), One(\h260065, 2),
                One(\h260065, 4)}]
WT102Offered ==
    {"reboot", "query_device_status", "synchronize_time", "collect_data", "calibrate_motor",
     "clear_historical_data", "set_target_valve_opening", "set_target_temperature", "set_time_zone",
     "set_temp_control_enable", "set_freeze_protection", "set_temperature_calibration", "set_child_lock",
     "retrieve_historical_data_by_time_range"}

\* wt/wt201.codec.ts

WT201Replies1 ==
    Blocks(1, {\h28, \h4a, \h82, \hb5, \hb6})
    @@ Blocks(2, {\h02, \h03, \h25, \hb7, \hb8})
    @@ Blocks(3, {\h8e, \hab, \hb0})
    @@ Blocks(4, {\hb9})
    @@ Blocks(5, {\h83})
    @@ Blocks(8, {\h96})
    @@ Blocks(9, {\h06})
WT201Replies2 ==
    Blocks(1, {\hc2, \hc5, \hc7, \heb, \hf6, \hf8, \hfb})
    @@ Blocks(2, {\hbd, \hc4})
    @@ Blocks(3, {\hca, \hf9, \hfa})
    @@ Blocks(4, {\hc1, \hf7})
    @@ Blocks(6, {\hc9})
    @@ Blocks(10, {\hba})
WT201Replies == WT201Replies1 @@ WT201Replies2
WT201ExtReplies1 ==
    Blocks(1, {\h06, \h08, \h3a, \h3b, \h41})
    @@ Blocks(2, {\h07, \h09, \h0a, \h1b})
    @@ Blocks(3, {\h43, \h44})
    @@ Blocks(5, {\h42})
    @@ Blocks(9, {\h3e})
WT201ExtReplies2 ==
    Blocks(1, {\h46, \h58, \h5d, \h62})
    @@ Blocks(2, {\h47, \h5a, \h8b})
    @@ Blocks(3, {\h5c})
    @@ Blocks(4, {\h45})
    @@ Blocks(7, {\h5e})
    @@ Blocks(9, {\h59})
WT201ExtReplies == WT201ExtReplies1 @@ WT201ExtReplies2
WT201Uplink1 ==
    Blocks(1, {\h05e7, \h06e8, \h07bc, \h088e, \hff01, \hff0b, \hff0f, \hfffe})
    @@ Blocks(2, {\h0367, \h0467, \h0b67, \hff09, \hff0a, \hffff})
    @@ Blocks(8, {\hff16})
WT201Uplink2 ==
    Blocks(1, {\h0968, \h0a6e, \hb367, \hb968})
    @@ Blocks(3, {\h8367, \hffcb})
    @@ Blocks(7, {\hf940})
    @@ Blocks(13, {\h20ce})
WT201Decode ==
    WT201Uplink1
    @@ WT201Uplink2
    @@ On({\hfe, \hff}, WT201Replies, 0)
    @@ On({\hf9}, WT201ExtReplies, 0)
    @@ On({\hf8}, WithResult(WT201ExtReplies), 1)
WT201Encode1 ==
    Frames(1, [reboot |-> \hff10, report_status |-> \hff28, set_temperature_unit |-> \hffeb,
                set_system_status |-> \hffc5, set_temperature_control_mode |-> \hfffb, set_fan_mode |-> \hffb6,
                set_ob_mode |-> \hffb5, set_plan_type |-> \hffc2])
    @@ Frames(2, [set_collection_interval |-> \hff02, set_time_zone |-> \hffbd,
                set_temperature_tolerance |-> \hffb8, set_temperature_source_config |-> \hffc4,
                set_temperature |-> \h0300])
    @@ Frames(3, [set_report_interval |-> \hff8e, set_temperature_target |-> \hfffa,
                set_temperature_calibration_settings |-> \hffab, set_humidity_calibration_settings |-> \hfff9,
                set_freeze_protection_config |-> \hffb0])
    @@ Frames(4, [set_temperature_control |-> \hf945])
    @@ [sync_time |-> {<<>>, One(\hff4a, 1)}]
WT201Encode2 ==
    Frames(1, [set_humidity |-> \h0900, set_fan_execute_time |-> \hf906,
                set_fan_control_during_heating |-> \hf962, set_target_temperature_resolution |-> \hf941,
                set_screen_display_mode |-> \hf908])
    @@ Frames(2, [set_humidity_range |-> \hf909, set_temperature_dehumidify |-> \hf90a,
                set_fan_dehumidify |-> \hf907, set_temperature_up_down_enable |-> \hf91b,
                set_child_lock_config |-> \hff25])
    @@ Frames(3, [set_fan_delay_config |-> \hf944, set_temperature_level_up_condition |-> \hffb9,
                set_temperature_level_up_down_delta |-> \hf943, set_unlock_config |-> \hf95c])
    @@ Frames(5, [set_target_temperature_range_config |-> \hf942])
    @@ Frames(10, [set_dst_config |-> \hffba])
WT201Encode3 ==
    Frames(1, [set_target_temperature_dual_enable |-> \hf958])
    @@ Frames(2, [set_plan_schedule_enable_config |-> \hf98b])
    @@ Frames(3, [set_wires |-> \hffca])
    @@ Frames(4, [set_card_config |-> \hffc1, set_wires_relay_config |-> \hfff7])
    @@ Frames(6, [set_plan_schedule |-> \hffc9])
    @@ Frames(7, [set_single_temperature_plan_config |-> \hf95e])
    @@ Frames(9, [set_dual_temperature_plan_config |-> \hf959])
    @@ [set_dual_temperature_tolerance |-> Copies(\hf95a, 2)]
WT201Encode4 ==
    Frames(1, [set_wires_relay_change_report_enable |-> \hf93a, set_aux_control_config |-> \hf93b,
                set_d2d_enable |-> \hffc7, set_multicast_group_config |-> \hff82,
                set_control_permission |-> \hfff6, set_offline_control_mode |-> \hfff8,
                set_compressor_aux_combine_enable |-> \hf946,
                set_temperature_control_forbidden_config |-> \hf95d,
                set_current_temperature_control_mode |-> \hfffb])
    @@ Frames(2, [set_system_protect_config |-> \hf947])
    @@ Frames(5, [set_d2d_slave_config |-> \hff83])
    @@ Frames(8, [set_d2d_master_config |-> \hff96])
    @@ Frames(9, [set_d2d_master_ids |-> \hf93e, set_temperature_alarm_config |-> \hff06])
WT201Encode == WT201Encode1 @@ WT201Encode2 @@ WT201Encode3 @@ WT201Encode4
WT201Offered ==
    {"reboot", "sync_time", "report_status", "set_report_interval", "set_temperature_control", "set_fan_mode",
     "set_plan_type", "set_freeze_protection_config", "set_temperature_calibration_settings",
     "set_target_temperature_dual_enable", "set_time_zone", "set_ob_mode", "set_offline_control_mode"}

\* wt/wt201-v1.codec.ts

WT201v1Replies1 ==
    Blocks(1, {\h10, \h27, \h28, \h4a, \h68, \h69, \h82, \hb5, \hb6})
    @@ Blocks(2, {\h02, \h03, \h25, \hb7, \hb8})
    @@ Blocks(3, {\h6a, \h8e, \hab, \hb0})
    @@ Blocks(5, {\h83})
    @@ Blocks(8, {\h96})
    @@ Blocks(9, {\h06})
WT201v1Replies2 ==
    Blocks(1, {\hc2, \hc5, \hc7, \hf6, \hf8, \hfb})
    @@ Blocks(2, {\hbd, \hc4})
    @@ Blocks(3, {\hca, \hf9, \hfa})
    @@ Blocks(4, {\hb9, \hc1, \hf7})
    @@ Blocks(5, {\hc8})
    @@ Blocks(6, {\hc9})
    @@ Blocks(10, {\hba})
WT201v1Replies == WT201v1Replies1 @@ WT201v1Replies2
WT201v1ExtReplies ==
    Blocks(1, {\h06, \h08})
    @@ Blocks(2, {\h05, \h07, \h09, \h0a})
WT201v1Decode ==
    Blocks(1, {\h05e7, \h06e8, \h07bc, \h088e, \h0968, \h0a6e, \hb367, \hb968, \hff01, \hff0b, \hff0f, \hfffe})
    @@ Blocks(2, {\h0367, \h0467, \hff09, \hff0a, \hffff})
    @@ Blocks(3, {\h8367, \hffcb})
    @@ Blocks(8, {\h20ce, \hff16})
    @@ On({\hfe, \hff}, WT201v1Replies, 0)
    @@ On({\hf9}, WT201v1ExtReplies, 0)
    @@ On({\hf8}, WithResult(WT201v1ExtReplies), 1)
WT201v1Encode1 ==
    Frames(1, [reboot |-> \hff10, report_status |-> \hff28, set_temperature_control_enable |-> \hffc5,
                set_temperature_control_mode |-> \hfffb, set_fan_mode |-> \hffb6])
    @@ Frames(2, [set_collection_interval |-> \hff02, set_time_zone |-> \hffbd,
                set_temperature_control |-> \hffb7, set_temperature_tolerance |-> \hffb8,
                set_outside_temperature_control |-> \hffc4, set_outside_temperature |-> \h0300])
    @@ Frames(3, [set_report_interval |-> \hff8e, set_temperature_target |-> \hfffa,
                set_temperature_calibration_settings |-> \hffab, set_humidity_calibration_settings |-> \hfff9,
                set_temperature_level_up_condition |-> \hffb9, set_freeze_protection_config |-> \hffb0])
    @@ Frames(10, [set_dst_config |-> \hffba])
    @@ [sync_time |-> {<<>>, One(\hff4a, 1)}]
WT201v1Encode2 ==
    Frames(1, [set_fan_execute_time |-> \hf906, set_plan_type |-> \hffc2, set_ob_mode |-> \hffb5])
    @@ Frames(2, [set_fan_delay |-> \hf905, set_humidity_range |-> \hf909, set_temperature_dehumidify |-> \hf90a,
                set_fan_dehumidify |-> \hf907, set_child_lock_config |-> \hff25])
    @@ Frames(3, [set_wires |-> \hffca])
    @@ Frames(4, [set_card_config |-> \hffc1, set_wires_relay_config |-> \hfff7])
    @@ Frames(5, [set_plan_config |-> \hffc8])
    @@ Frames(6, [set_plan_schedule |-> \hffc9])
WT201v1Encode3 ==
    Frames(1, [set_multicast_group_config |-> \hff82, set_d2d_enable |-> \hffc7,
                set_control_permission |-> \hfff6, set_offline_control_mode |-> \hfff8,
                set_screen_display_mode |-> \hf908, set_retransmit_enable |-> \hff69,
                set_history_enable |-> \hff68])
    @@ Frames(3, [set_retransmit_interval |-> \hff6a, set_resend_interval |-> \hff6a])
    @@ Frames(5, [set_d2d_slave_config |-> \hff83])
    @@ Frames(8, [set_d2d_master_config |-> \hff96])
    @@ Frames(9, [set_temperature_alarm_config |-> \hff06])
    @@ [fetch_history |-> {One(\hfd6b, 4), One(\hfd6c, 8)},
        stop_transmit |-> {<<>>, One(\hfd6d, 1)},
        clear_history |-> {<<>>, One(\hff27, 1)}]
WT201v1Encode == WT201v1Encode1 @@ WT201v1Encode2 @@ WT201v1Encode3
WT201v1Offered ==
    {"reboot", "sync_time", "report_status", "set_report_interval", "set_temperature_control", "set_fan_mode",
     "set_plan_type", "set_freeze_protection_config", "set_temperature_calibration_settings", "set_time_zone",
     "set_ob_mode", "set_offline_control_mode"}

\* wt/wt303.codec.ts

WT303Decode1 ==
    Blocks(0, {\hee})
    @@ Blocks(1, {\h04, \h05, \h06, \h07, \h08, \hef, \hfe, \hff00cf, \hff00f4})
    @@ Blocks(2, {\h01, \h02, \h03, \hcf, \hd9, \hdf, \hf4, \h100ef, \h100f4, \h300f4})
    @@ Blocks(3, {\h200ef, \h200f4})
    @@ Blocks(8, {\hda, \hdb})
WT303Decode2 ==
    Blocks(1, {\h09, \h0a, \h0b, \h63, \h85, \h90, \hc4, \hc8, \h10009, \h10085, \h20009, \h30009})
    @@ Blocks(3, {\h60, \h62, \h20085, \h30085, \h100009, \h110009, \h120009, \h130009, \h140009, \h150009,
                \h160009, \h170009, \h200009, \h210009, \h220009, \h230009, \h300009, \h310009, \h320009,
                \h330009})
    @@ Blocks(4, {\h10})
WT303Decode3 ==
    Blocks(1, {\h64, \h67, \h68, \h69, \h72, \hff008c})
    @@ Blocks(2, {\h6a, \h6b, \h6c, \h8c})
    @@ Blocks(3, {\h6f, \h74})
    @@ Blocks(4, {\h6d, \h6e, \h70, \h73})
    @@ Blocks(6, {\h1008c, \h2008c})
WT303Decode4 ==
    Blocks(1, {\h65, \hff00c5})
    @@ Blocks(2, {\h66, \h75, \hc5, \hc7, \h100c5})
    @@ Blocks(3, {\h79, \h7a, \h200c5, \h300c5})
    @@ Blocks(4, {\h77, \h8d})
    @@ Blocks(6, {\h76})
    @@ Blocks(10, {\hc6})
WT303Decode5 ==
    Blocks(1, {\h80, \h82, \h8e, \hff007c, \hff0081, \hff0083})
    @@ Blocks(2, {\h1007c, \h10081, \h10083, \hff007b})
    @@ Blocks(3, {\h7b, \h7c, \h81, \h2007c})
    @@ Blocks(4, {\h78, \h83, \h100081})
    @@ Blocks(6, {\h2007b})
    @@ Blocks(7, {\h4007b})
    @@ Blocks(8, {\h1007b})
    @@ Blocks(9, {\h3007b})
WT303Decode6 ==
    Blocks(0, {\hb6, \hb8, \hb9, \hbc, \hbd, \hbe, \hbf})
    @@ Blocks(1, {\h5d, \h5e, \h5f, \h86, \h88, \h8a})
    @@ Blocks(2, {\h5b, \h5c, \hff0087})
    @@ Blocks(3, {\h84, \h87})
    @@ Blocks(4, {\hba})
    @@ Blocks(5, {\h8b})
    @@ Blocks(8, {\h89, \hbb})
    @@ Blocks(10, {\h10087, \h20087, \h30087})
WT303Decode == WT303Decode1 @@ WT303Decode2 @@ WT303Decode3 @@ WT303Decode4 @@ WT303Decode5 @@ WT303Decode6
WT303Encode1 ==
    Frames(0, [reboot |-> \hbe, reset |-> \hbf, query_device_status |-> \hb9, synchronize_time |-> \hb8,
                reconnect |-> \hb6, clear_historical_data |-> \hbd, stop_historical_data_retrieval |-> \hbc])
    @@ Frames(1, [set_system_status |-> \h67, set_temperature_control_mode |-> \h68, set_mode_enable |-> \h64,
                set_target_temperature_resolution |-> \h69])
    @@ Frames(2, [set_lorawan_mode |-> \hcf, set_oem_id |-> \hd9, send_temperature |-> \h5b,
                send_humidity |-> \h5c, set_heating_target_temperature |-> \h6b,
                set_cooling_target_temperature |-> \h6c, set_target_temperature_tolerance |-> \h6a])
    @@ Frames(4, [retrieve_historical_data_by_time |-> \hba, set_heating_target_temperature_range |-> \h6d,
                set_cooling_target_temperature_range |-> \h6e])
    @@ Frames(8, [retrieve_historical_data_by_time_range |-> \hbb, set_product_sn |-> \hdb])
WT303Encode2 ==
    Frames(1, [set_fan_control_mode |-> \h72, set_fan_stop_enable |-> \h8e, set_data_source |-> \h04,
                set_auto_p_enable |-> \hc4, set_relay_changes_report_enable |-> \h90,
                set_temperature_unit |-> \h63, set_intelligent_display_enable |-> \h65])
    @@ Frames(2, [set_screen_object_settings |-> \h66])
    @@ Frames(3, [set_temperature_control_dehumidification |-> \h6f, set_fan_delay_close |-> \h74,
                set_collection_interval |-> \h60, set_reporting_interval |-> \h62])
    @@ Frames(4, [set_target_humidity_range |-> \h70, set_fan_auto_mode_temperature_range |-> \h73])
    @@ [set_temperature_source |-> {One(\h85, 1), One(\h10085, 1), One(\h20085, 3), One(\h30085, 3)}]
WT303Encode3 ==
    Frames(2, [set_child_lock |-> \h75, set_time_zone |-> \hc7, set_timed_system_control_enable |-> \h8c,
                set_data_storage_enable |-> \hc5, set_data_storage_retransmission_enable |-> \h100c5])
    @@ Frames(3, [set_data_storage_retransmission_interval |-> \h200c5,
                set_data_storage_retrieval_interval |-> \h300c5, set_temperature_calibration |-> \h79,
                set_humidity_calibration |-> \h7a])
    @@ Frames(4, [set_temporary_unlock_settings |-> \h8d])
    @@ Frames(6, [set_timed_system_control_start_cycle |-> \h1008c,
                set_timed_system_control_end_cycle |-> \h2008c])
    @@ Frames(10, [set_daylight_saving_time |-> \hc6])
WT303Encode4 ==
    Frames(1, [insert_schedule |-> \h5e, delete_schedule |-> \h5f, update_open_windows_state |-> \h5d,
                set_di_enable |-> \h80])
    @@ Frames(2, [set_interface_valve_2_pipe_2_wire |-> \h1007c])
    @@ Frames(3, [set_schedule_enable |-> \h7b, set_interface_valve_4_pipe_2_wire |-> \h7c,
                set_interface_valve_2_pipe_3_wire |-> \h2007c])
    @@ Frames(4, [set_high_temperature_alarm_settings |-> \h77, set_low_temperature_alarm_settings |-> \h78])
    @@ Frames(6, [set_temperature_alarm_settings |-> \h76, set_schedule_name_last |-> \h2007b])
    @@ Frames(7, [set_schedule_cycle |-> \h4007b])
    @@ Frames(8, [set_schedule_name_first |-> \h1007b])
    @@ Frames(9, [set_schedule_content |-> \h3007b])
WT303Encode5 ==
    Frames(0, [all_configurations_request_by_device |-> \hee])
    @@ Frames(1, [set_window_opening_detection_enable |-> \h82, set_d2d_pairing_enable |-> \h86,
                set_d2d_master_enable |-> \h88, set_d2d_slave_enable |-> \h8a, request_check_order |-> \hfe])
    @@ Frames(2, [set_di_magnet_detection |-> \h10081, set_window_opening_detection_magnet |-> \h10083])
    @@ Frames(3, [set_di_card_system_control |-> \h81, set_freeze_protection |-> \h84,
                set_d2d_pairing_item_enable |-> \h87])
    @@ Frames(4, [set_di_card_insertion_plan |-> \h100081, set_window_opening_detection_temperature |-> \h83])
    @@ Frames(5, [set_d2d_slave_settings |-> \h8b])
    @@ Frames(8, [set_d2d_master_settings |-> \h89])
    @@ Frames(10, [set_d2d_pairing_item_deveui |-> \h10087, set_d2d_pairing_item_name_first |-> \h20087,
                set_d2d_pairing_item_name_last |-> \h30087])
WT303Encode == WT303Encode1 @@ WT303Encode2 @@ WT303Encode3 @@ WT303Encode4 @@ WT303Encode5
WT303Offered ==
    {"reboot", "query_device_status", "synchronize_time", "reconnect", "set_system_status",
     "set_temperature_control_mode", "set_fan_control_mode", "set_heating_target_temperature",
     "set_cooling_target_temperature", "set_temperature_calibration", "set_time_zone", "set_freeze_protection",
     "set_collection_interval", "set_reporting_interval", "set_child_lock",
     "set_window_opening_detection_enable", "set_d2d_master_enable"}

\* wt/wt401.codec.ts

WT401Decode1 ==
    Blocks(0, {\hee})
    @@ Blocks(1, {\h00, \h03, \h08, \hd5, \hef, \hfe, \hff, \hff00cf})
    @@ Blocks(2, {\h01, \h02, \hcf, \hd9, \hdf, \h100d5, \h100ef})
    @@ Blocks(3, {\h200d5, \h200ef})
    @@ Blocks(8, {\hda, \hdb})
    @@ Blocks(16, {\hd8})
    @@ Blocks(32, {\hdd, \hde})
WT401Decode2 ==
    Blocks(1, {\h04, \h05, \h09, \h0a, \h0b, \h0c, \h0d, \h0f, \h63, \h7d, \h8d, \hc8, \hff0060, \hff0061,
                \hff006c})
    @@ Blocks(2, {\h06, \h07})
    @@ Blocks(3, {\h60, \h10060})
    @@ Blocks(4, {\h61, \h6c, \h10061, \h1006c, \h20061, \h2006c, \h30061, \h3006c})
WT401Decode3 ==
    Blocks(1, {\h64, \h65, \h66, \h67, \h74, \h7e, \h85, \h88, \hff0068, \hff0069, \hff006b, \hff0082})
    @@ Blocks(2, {\h68, \h6a, \h10068, \h10082, \h30082})
    @@ Blocks(3, {\h69, \h10069, \h20069, \h20082, \h30069, \h40069, \h40082, \h50069})
    @@ Blocks(5, {\h6b, \h1006b, \h2006b, \h3006b})
    @@ Blocks(32, {\h8b})
WT401Decode4 ==
    Blocks(1, {\h62, \h75, \h80, \hff0071, \hff0083, \hff0084})
    @@ Blocks(2, {\h71, \hc7, \h10071, \h10083, \h10084, \h20071, \h20084, \h30071, \h50084})
    @@ Blocks(3, {\h72, \h81, \h20083, \h30084})
    @@ Blocks(5, {\h40084})
    @@ Blocks(10, {\hc6})
WT401Decode5 ==
    Blocks(0, {\hb6, \hb8, \hb9, \hbe})
    @@ Blocks(1, {\h55, \h57, \h58, \h5a, \h5b, \h5c, \h5f})
    @@ Blocks(2, {\h86, \h87, \hff007b})
    @@ Blocks(3, {\h76, \h77, \h7b})
    @@ Blocks(6, {\h59, \h2007b})
    @@ Blocks(8, {\h1007b})
    @@ Blocks(9, {\h3007b, \h4007b})
WT401Decode == WT401Decode1 @@ WT401Decode2 @@ WT401Decode3 @@ WT401Decode4 @@ WT401Decode5
WT401Encode1 ==
    Frames(0, [reboot |-> \hbe, query_device_status |-> \hb9, synchronize_time |-> \hb8, reconnect |-> \hb6,
                request_query_all_configurations |-> \hee])
    @@ Frames(1, [request_check_sequence_number |-> \hff, request_check_order |-> \hfe,
                set_system_status |-> \h67, set_temperature_unit |-> \h63, set_communication_mode |-> \h8d,
                set_device_status |-> \hc8, set_data_sync_to_peer |-> \h7d, set_data_sync_timeout |-> \h7e,
                set_ble_enable |-> \h85, set_intelligent_display_enable |-> \h62])
    @@ Frames(2, [set_lorawan_mode |-> \hcf, set_oem_id |-> \hd9, set_origin_temperature |-> \h86,
                set_origin_humidity |-> \h87])
    @@ Frames(8, [set_product_sn |-> \hdb])
    @@ Frames(32, [set_product_name |-> \hde, set_product_pn |-> \hdd, set_ble_name |-> \h8b])
    @@ [set_ble_phone_name |-> {One(\h100d5, 2), One(\h200d5, 3)}]
WT401Encode2 ==
    Frames(1, [set_mode_enable |-> \h64, set_fan_enable |-> \h88, set_target_temperature_mode |-> \h65,
                set_target_temperature_resolution |-> \h66, set_fan_control_mode |-> \h74])
    @@ Frames(2, [set_temperature_control_mode |-> \h68, set_temperature_control_plan_mode_enable |-> \h10068,
                set_minimum_dead_zone |-> \h6a])
    @@ Frames(3, [set_target_temperature_heat |-> \h69, set_target_temperature_em_heat |-> \h10069,
                set_target_temperature_cool |-> \h20069, set_target_temperature_auto |-> \h30069,
                set_target_temperature_auto_heat |-> \h40069, set_target_temperature_auto_cool |-> \h50069])
    @@ Frames(5, [set_target_temperature_range_heat |-> \h6b, set_target_temperature_range_em_heat |-> \h1006b,
                set_target_temperature_range_cool |-> \h2006b, set_target_temperature_range_auto |-> \h3006b])
WT401Encode3 ==
    Frames(2, [set_pir_common_enable |-> \h10082, set_pir_common_mode |-> \h30082,
                set_pir_energy_enable |-> \h10083, set_pir_night_enable |-> \h10084,
                set_pir_night_mode |-> \h20084])
    @@ Frames(3, [set_pir_common_release_time |-> \h20082, set_pir_common_check |-> \h40082,
                set_pir_energy_plan |-> \h20083])
    @@ Frames(4, [set_reporting_interval_ble |-> \h61, set_reporting_interval_lora |-> \h10061,
                set_reporting_interval_ble_lora |-> \h20061, set_reporting_interval_power_lora |-> \h30061,
                set_communicate_interval_ble |-> \h6c, set_communicate_interval_lora |-> \h1006c,
                set_communicate_interval_ble_lora |-> \h2006c, set_communicate_interval_power_bus |-> \h3006c])
    @@ [set_collection_interval |-> {One(\h60, 3), One(\h10060, 3)}]
WT401Encode4 ==
    Frames(1, [set_screen_display_settings |-> \h75, set_unlock_combination_buttons |-> \h80])
    @@ Frames(2, [set_pir_night_occupied |-> \h50084, set_button_custom_function_enable |-> \h71,
                set_button1_function |-> \h10071, set_button2_function |-> \h20071,
                set_button3_function |-> \h30071, set_time_zone |-> \hc7])
    @@ Frames(3, [set_pir_night_check |-> \h30084, set_children_lock_settings |-> \h72,
                set_unlock_button |-> \h81])
    @@ Frames(5, [set_pir_night_time |-> \h40084])
    @@ Frames(10, [set_daylight_saving_time |-> \hc6])
WT401Encode5 ==
    Frames(1, [insert_temporary_plan |-> \h5c, delete_task_plan |-> \h5f, set_fan_error_alarm |-> \h55,
                set_filter_clean_alarm |-> \h5b, set_frost_protection_alarm |-> \h57,
                set_open_window_alarm |-> \h5a, set_not_wired_alarm |-> \h58])
    @@ Frames(3, [set_temperature_calibration |-> \h76, set_humidity_calibration |-> \h77,
                set_schedule_enable |-> \h7b])
    @@ Frames(6, [set_schedule_name_last |-> \h2007b, system_status_control |-> \h59])
    @@ Frames(8, [set_schedule_name_first |-> \h1007b])
    @@ Frames(9, [set_schedule_content1 |-> \h3007b, set_schedule_content2 |-> \h4007b])
WT401Encode == WT401Encode1 @@ WT401Encode2 @@ WT401Encode3 @@ WT401Encode4 @@ WT401Encode5
WT401Offered ==
    {"reboot", "query_device_status", "synchronize_time", "reconnect", "set_system_status",
     "set_temperature_control_mode", "set_fan_control_mode", "set_target_temperature_heat",
     "set_target_temperature_cool", "set_temperature_calibration", "set_time_zone", "set_pir_common_enable",
     "set_pir_energy_enable", "set_collection_interval", "set_children_lock_settings", "system_status_control"}

\* wts/wts506.codec.ts

WTS506Replies ==
    Blocks(1, {\h10, \h27, \h67})
    @@ Blocks(2, {\h03, \h17})
    @@ Blocks(4, {\h11})
WTS506Uplink ==
    Blocks(1, {\h0175, \h0468, \hff01, \hff0b, \hff0f, \hfffe})
    @@ Blocks(2, {\h0367, \h0584, \h0673, \h0792, \hff09, \hff0a, \hffff})
    @@ Blocks(3, {\h0877, \h8367, \h8673, \h8792})
    @@ Blocks(5, {\h08ec})
    @@ Blocks(6, {\h88ec})
    @@ Blocks(8, {\hff16})
    @@ Blocks(15, {\h20ce})
    @@ Blocks(17, {\h21ce})
WTS506Decode ==
    WTS506Uplink
    @@ On({\hfe, \hff}, WTS506Replies, Throws)
WTS506Encode ==
    Frames(1, [reboot |-> \hff10, set_power_on_run_mode |-> \hff67, clear_history |-> \hff27])
    @@ Frames(2, [set_time_zone |-> \hff17, set_report_interval |-> \hff03])
    @@ Frames(4, [set_timestamp |-> \hff11])
WTS506Offered ==
    {"reboot", "clear_history", "set_report_interval", "set_timestamp", "set_time_zone",
     "set_power_on_run_mode"}

\* wt/wt301.codec.ts: framed, 55, then control (01) or request (02), a length and a data id.
\* The codes of decode() are not those of encode() (the target temperature is set as 05 and
\* read as 06), but an uplink is one frame, so that no answer stands before a reading.

WT301Sets ==
    Frames(2, [set_thermostat_status |-> \h0101, set_btn_lock |-> \h0102, set_mode |-> \h0103,
                set_fan_speed |-> \h0104, set_target_temperature |-> \h0105, set_control_mode |-> \h0106,
                set_server_temperature |-> \h0107])
    @@ Frames(8, [set_all |-> \h010f])
WT301Queries ==
    Frames(1, [query_thermostat_status |-> \h0201, query_btn_lock |-> \h0202, query_mode |-> \h0203,
                query_fan_speed |-> \h0204, query_temperature |-> \h0205, query_target_temperature |-> \h0206,
                query_card_mode |-> \h0207, query_control_mode |-> \h0208, query_server_temperature |-> \h0209,
                query_all |-> \h020f])
WT301Offered ==
    {"set_thermostat_status", "set_mode", "set_fan_speed", "set_target_temperature", "set_control_mode",
     "set_btn_lock", "set_server_temperature", "query_all"}
WT301Codec ==
    [decode |-> NoCommands, encode |-> WT301Sets @@ WT301Queries, offered |-> WT301Offered, answers |-> {}]
WT30xCodecs ==
    [WT301 |-> WT301Codec, WT302 |-> WT301Codec]

\* what codec.module.ts registers

WTCodecs ==
    [WT101 |->
        [decode |-> WT101Decode, encode |-> WT101Encode,
         offered |-> WT101Offered, answers |-> {\hf8, \hf9, \hfe, \hff}],
     WT102 |->
        [decode |-> WT102Decode, encode |-> WT102Encode,
         offered |-> WT102Offered, answers |-> {\h00}],
     WT201 |->
        [decode |-> WT201Decode, encode |-> WT201Encode,
         offered |-> WT201Offered, answers |-> {\hf8, \hf9, \hfe, \hff}],
     WT201v1 |->
        [decode |-> WT201v1Decode, encode |-> WT201v1Encode,
         offered |-> WT201v1Offered, answers |-> {\hf8, \hf9, \hfe, \hff}],
     WT303 |->
        [decode |-> WT303Decode, encode |-> WT303Encode,
         offered |-> WT303Offered, answers |-> {\h00}],
     WT401 |->
        [decode |-> WT401Decode, encode |-> WT401Encode,
         offered |-> WT401Offered, answers |-> {\h00}],
     WTS506 |->
        [decode |-> WTS506Decode, encode |-> WTS506Encode,
         offered |-> WTS506Offered, answers |-> {\hfe, \hff}]]

\* wt/wt304.codec.ts: commands of its own, every uplink read by the codec of the WT303

WT304Encode ==
    Frames(1, [set_valve_output_0v_enable |-> \h8f])
    @@ Frames(2, [set_interface_valve_2_pipe_10v |-> \h1007c, set_valve_control_interval |-> \h2007d,
                set_fan_ec_low_threshold |-> \h7e, set_fan_ec_mid_threshold |-> \h1007e,
                set_fan_ec_high_threshold |-> \h2007e])
    @@ Frames(3, [set_interface_valve_4_pipe_10v |-> \h7c, set_valve_control_adjustment_range |-> \h7d,
                set_valve_opening_range |-> \h1007d])
    @@ Frames(4, [set_interface_valve_2_pipe_10v_fan_ec |-> \h2007c,
                set_interface_valve_2_pipe_2_wire_fan_ec |-> \h4007c])
    @@ Frames(5, [set_interface_valve_4_pipe_2_wire_fan_ec |-> \h3007c,
                set_interface_valve_2_pipe_3_wire_fan_ec |-> \h5007c])
WT303OnlyCommands ==
    {"set_interface_valve_4_pipe_2_wire", "set_interface_valve_2_pipe_2_wire",
     "set_interface_valve_2_pipe_3_wire"}
WT304Codec ==
    [WTCodecs.WT303 EXCEPT
        !.encode = WT304Encode @@ [c \in DOMAIN @ \ WT303OnlyCommands |-> @[c]]]

=============================================================================
