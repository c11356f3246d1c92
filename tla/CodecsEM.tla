---------------------------- MODULE CodecsEM ----------------------------
(***************************************************************************)
(* The codecs of the environment sensors of the EM series: which block each *)
(* reads from an uplink and how long it is (Decode), which block each      *)
(* command becomes (Encode), which commands it advertises (Offered), and the *)
(* channels its device answers on.  CodecBlocks explains the notation.     *)
(***************************************************************************)
EXTENDS CodecBlocks

\* em/em300-cl.codec.ts

EM300CLReplies ==
    Blocks(1, {\h10, \h62})
    @@ Blocks(3, {\h8e, \hbb})
EM300CLDecode ==
    Blocks(1, {\h0175, \h03ed, \h04ee, \hff01, \hff0b, \hff0f, \hfffe})
    @@ Blocks(2, {\h83ed, \hff09, \hff0a, \hffff})
    @@ Blocks(8, {\hff16})
    @@ On({\hfe, \hff}, EM300CLReplies, 1)
\* mutant: a case spelt unlike the capability
EM300CLEncodeMisspelt ==
    Frames(1, [reboot |-> \hff10, calibration |-> \hff62]) @@ Frames(3, [set_report_interval |-> \hff8e])
EM300CLEncode ==
    Frames(1, [reboot |-> \hff10, calibrate |-> \hff62])
    @@ Frames(3, [set_report_interval |-> \hff8e])
EM300CLOffered ==
    {"reboot", "calibrate", "set_report_interval"}

\* em/em300-di.codec.ts

EM300DIReplies ==
    Blocks(1, {\h10, \h68, \hc3})
    @@ Blocks(2, {\h02, \h03})
    @@ Blocks(3, {\h6a})
EM300DIDecode ==
    Blocks(1, {\h0175, \h0468, \h0500, \hff01, \hff0b, \hff0f, \hfffe})
    @@ Blocks(2, {\h0367, \h8500, \hff09, \hff0a, \hffff})
    @@ Blocks(4, {\h05c8})
    @@ Blocks(8, {\h05e1, \hff16})
    @@ Blocks(9, {\h85e1})
    @@ Blocks(13, {\h20ce})
    @@ Blocks(18, {\h21ce})
    @@ On({\hfe, \hff}, EM300DIReplies, 1)
EM300DIEncode ==
    Frames(1, [reboot |-> \hff10, set_history_enable |-> \hff68, set_gpio_mode |-> \hffc3])
    @@ Frames(2, [set_report_interval |-> \hff03, clear_counter |-> \hff4e])
EM300DIOffered ==
    {"reboot", "clear_counter", "set_report_interval", "set_gpio_mode", "set_history_enable"}

\* em/em300-mcs.codec.ts

EM300MCSReplies ==
    Blocks(1, {\h10, \h68})
    @@ Blocks(2, {\h02, \h03})
    @@ Blocks(3, {\h6a})
EM300MCSDecode ==
    Blocks(1, {\h0175, \h0468, \h0600, \hff01, \hff0b, \hff0f, \hfffe})
    @@ Blocks(2, {\h0367, \hff09, \hff0a, \hffff})
    @@ Blocks(8, {\h20ce, \hff16})
    @@ On({\hfe, \hff}, EM300MCSReplies, 1)
EM300MCSEncode ==
    Frames(1, [reboot |-> \hff10, set_history_enable |-> \hff68])
    @@ Frames(2, [set_report_interval |-> \hff03])
EM300MCSOffered ==
    {"reboot", "set_report_interval", "set_history_enable"}

\* em/em300-mld.codec.ts

EM300MLDReplies ==
    Blocks(1, {\h10, \h68})
    @@ Blocks(2, {\h03})
EM300MLDDecode ==
    Blocks(1, {\h0175, \h0500, \hff01, \hff0b, \hff0f, \hfffe})
    @@ Blocks(2, {\hff09, \hff0a, \hffff})
    @@ Blocks(8, {\h20ce, \hff16})
    @@ On({\hfe, \hff}, EM300MLDReplies, 1)
EM300MLDEncode ==
    Frames(1, [reboot |-> \hff10, set_history_enable |-> \hff68])
    @@ Frames(2, [set_report_interval |-> \hff03])
EM300MLDOffered ==
    {"reboot", "set_report_interval", "set_history_enable"}

\* em/em300-sld.codec.ts

EM300SLDReplies ==
    Blocks(1, {\h10, \h68})
    @@ Blocks(2, {\h02, \h03})
    @@ Blocks(3, {\h6a})
    @@ Blocks(9, {\h06})
EM300SLDDecode ==
    Blocks(1, {\h0175, \h0468, \h0500, \hff01, \hff0b, \hff0f, \hfffe})
    @@ Blocks(2, {\h0367, \hff09, \hff0a, \hffff})
    @@ Blocks(8, {\h20ce, \hff16})
    @@ On({\hfe, \hff}, EM300SLDReplies, 1)
EM300SLDEncode ==
    Frames(1, [reboot |-> \hff10, set_history_enable |-> \hff68])
    @@ Frames(2, [set_report_interval |-> \hff03])
EM300SLDOffered ==
    {"reboot", "set_report_interval", "set_collection_interval", "set_history_enable"}

\* em/em300-th.codec.ts

EM300THReplies ==
    Blocks(1, {\h10, \h68, \h6d})
    @@ Blocks(2, {\h03})
    @@ Blocks(4, {\h6b})
EM300THDecode ==
    Blocks(1, {\h0175, \h0468, \hff01, \hff0b, \hff0f, \hfffe})
    @@ Blocks(2, {\h0367, \hff09, \hff0a, \hffff})
    @@ Blocks(8, {\h20ce, \hff16})
    @@ On({\hfe, \hff}, EM300THReplies, 1)
EM300THEncode ==
    Frames(1, [reboot |-> \hff10, set_history_enable |-> \hff68, stop_transmit |-> \hfd6d])
    @@ Frames(2, [set_report_interval |-> \hff03])
    @@ [fetch_history |-> {One(\hfd6b, 4), One(\hfd6c, 8)}]
EM300THOffered ==
    {"reboot", "stop_transmit", "clear_history", "set_report_interval", "set_history_enable", "fetch_history"}

\* em/em310-tilt.codec.ts

EM310TILTReplies ==
    Blocks(1, {\h10, \h28, \h4a, \h62})
    @@ Blocks(2, {\h03})
    @@ Blocks(8, {\h63})
    @@ Blocks(9, {\h06})
EM310TILTDecode ==
    Blocks(1, {\h0175, \hff01, \hff0b, \hff0f, \hfffe})
    @@ Blocks(2, {\hff09, \hff0a, \hffff})
    @@ Blocks(7, {\h03cf})
    @@ Blocks(8, {\hff16})
    @@ On({\hfe, \hff}, EM310TILTReplies, 1)
EM310TILTAngleAlarms ==
    Frames(9, [set_angle_x_alarm |-> \hff06, set_angle_y_alarm |-> \hff06, set_angle_z_alarm |-> \hff06])
EM310TILTEncode ==
    Frames(1, [reboot |-> \hff10, query_device_status |-> \hff28, sync_time |-> \hff4a,
                set_initial_surface |-> \hff62])
    @@ Frames(2, [set_report_interval |-> \hff03])
    @@ Frames(8, [set_angle_alarm_condition |-> \hff63])
    @@ EM310TILTAngleAlarms
EM310TILTOffered ==
    {"reboot", "query_device_status", "sync_time", "set_report_interval", "set_initial_surface",
     "set_angle_alarm_condition", "set_angle_x_alarm", "set_angle_y_alarm", "set_angle_z_alarm"}

\* em/em310-udl.codec.ts

EM310UDLReplies ==
    Blocks(1, {\h10})
    @@ Blocks(2, {\h02, \h03})
    @@ Blocks(9, {\h06})
EM310UDLDecode ==
    Blocks(1, {\h0175, \h0400, \hff01, \hff0b, \hff0f, \hfffe})
    @@ Blocks(2, {\h0382, \hff09, \hff0a, \hffff})
    @@ Blocks(8, {\hff16})
    @@ On({\hfe, \hff}, EM310UDLReplies, 1)
EM310UDLEncode ==
    Frames(1, [reboot |-> \hff10])
    @@ Frames(2, [set_collection_interval |-> \hff02, set_report_interval |-> \hff03])
    @@ Frames(9, [set_distance_alarm |-> \hff06])
EM310UDLOffered ==
    {"reboot", "set_report_interval", "set_collection_interval", "set_distance_alarm"}

\* em/em320-th.codec.ts

EM320THReplies ==
    Blocks(1, {\h10, \h27, \h28, \h68, \h69, \h6d})
    @@ Blocks(2, {\h02, \h03})
    @@ Blocks(3, {\h6a})
    @@ Blocks(9, {\h06})
EM320THDecode ==
    Blocks(1, {\h0175, \h0468, \hff01, \hff0b, \hff0f, \hfffe})
    @@ Blocks(2, {\h0367, \hff09, \hff0a, \hffff})
    @@ Blocks(7, {\h20ce})
    @@ Blocks(8, {\hff16})
    @@ On({\hfe, \hff}, EM320THReplies, 1)
EM320THEncode ==
    Frames(1, [reboot |-> \hff10, report_status |-> \hff28, stop_transmit |-> \hfd6d,
                clear_history |-> \hff27, set_history_enable |-> \hff68, set_retransmit_enable |-> \hff69])
    @@ Frames(2, [set_report_interval |-> \hff03, set_collection_interval |-> \hff02])
    @@ Frames(3, [set_retransmit_interval |-> \hff6a, set_resend_interval |-> \hff6a])
    @@ Frames(9, [set_temperature_alarm |-> \hff06])
    @@ [fetch_history |-> {One(\hfd6b, 4), One(\hfd6c, 8)}]
EM320THOffered ==
    {"reboot", "report_status", "stop_transmit", "clear_history", "set_report_interval",
     "set_collection_interval", "set_temperature_alarm", "set_history_enable", "set_retransmit_enable",
     "fetch_history"}

\* em/em320-tilt.codec.ts

EM320TILTReplies ==
    Blocks(1, {\h10, \h28, \h4a, \h62})
    @@ Blocks(2, {\h03})
    @@ Blocks(8, {\h63})
    @@ Blocks(9, {\h06})
EM320TILTDecode ==
    Blocks(1, {\h0175, \hff01, \hff0b, \hff0f, \hfffe})
    @@ Blocks(2, {\hff09, \hff0a, \hffff})
    @@ Blocks(6, {\h03d4})
    @@ Blocks(8, {\hff16})
    @@ On({\hfe, \hff}, EM320TILTReplies, 1)
EM320TILTAngleAlarms ==
    Frames(9, [set_angle_x_alarm |-> \hff06, set_angle_y_alarm |-> \hff06, set_angle_z_alarm |-> \hff06])
EM320TILTEncode ==
    Frames(1, [reboot |-> \hff10, query_device_status |-> \hff28, sync_time |-> \hff4a,
                set_initial_surface |-> \hff62])
    @@ Frames(2, [set_report_interval |-> \hff03])
    @@ Frames(8, [set_angle_alarm_condition |-> \hff63])
    @@ EM320TILTAngleAlarms
EM320TILTOffered ==
    {"reboot", "query_device_status", "sync_time", "set_report_interval", "set_initial_surface",
     "set_angle_alarm_condition", "set_angle_x_alarm", "set_angle_y_alarm", "set_angle_z_alarm"}

\* em/em400-mud.codec.ts

EM400MUDReplies ==
    Blocks(1, {\h10, \h13, \h28, \h3e, \h4a, \h56, \h71})
    @@ Blocks(2, {\h02, \h03, \h1c, \h70, \h77})
    @@ Blocks(9, {\h06})
EM400MUDDecode ==
    Blocks(1, {\h0175, \h0500, \hff01, \hff0b, \hff0f, \hfffe})
    @@ Blocks(2, {\h0367, \h0482, \hff09, \hff0a, \hffff})
    @@ Blocks(3, {\h8367, \h8482})
    @@ Blocks(8, {\hff16})
    @@ On({\hfe, \hff}, EM400MUDReplies, 1)
EM400MUDAlarms ==
    Frames(9, [set_standard_mode_alarm |-> \hff06, set_bin_mode_alarm |-> \hff06])
EM400MUDEncode ==
    Frames(1, [reboot |-> \hff10, sync_time |-> \hff4a, query_device_status |-> \hff28,
                set_install_height_enable |-> \hff13, set_working_mode |-> \hff71,
                set_tilt_linkage_distance_enable |-> \hff3e, set_tof_detection_enable |-> \hff56])
    @@ Frames(2, [set_collection_interval |-> \hff02, set_report_interval |-> \hff03,
                set_people_existing_height |-> \hff70, set_install_height |-> \hff77,
                set_recollection_config |-> \hff1c])
    @@ EM400MUDAlarms
EM400MUDOffered ==
    {"reboot", "sync_time", "query_device_status", "set_report_interval", "set_collection_interval",
     "set_working_mode", "set_install_height", "set_install_height_enable", "set_standard_mode_alarm",
     "set_bin_mode_alarm", "set_tilt_linkage_distance_enable"}

\* em/em410-rdl.codec.ts

EM410RDLReplies ==
    Blocks(1, {\h10, \h27, \h28, \h2a, \h3e, \h4a, \h68, \h69, \h6d})
    @@ Blocks(2, {\h1c, \hbd, \hf2})
    @@ Blocks(3, {\h6a, \h8e, \hab})
    @@ Blocks(5, {\h1b})
    @@ Blocks(9, {\h06})
EM410RDLExtReplies ==
    Blocks(1, {\h12, \h13, \h16})
    @@ Blocks(2, {\h14, \h15, \h39})
    @@ Blocks(3, {\h0d})
EM410RDLDecode ==
    Blocks(1, {\h0175, \h0500, \hff01, \hff0b, \hff0f, \hfffe})
    @@ Blocks(2, {\h0367, \h0482, \h06c7, \hff09, \hff0a, \hffff})
    @@ Blocks(3, {\h8482, \hb482})
    @@ Blocks(5, {\h9482})
    @@ Blocks(8, {\hff16})
    @@ Blocks(11, {\h20ce})
    @@ On({\hfe, \hff}, EM410RDLReplies, 1)
    @@ On({\hf9}, EM410RDLExtReplies, 1)
    @@ On({\hf8}, WithResult(EM410RDLExtReplies), 1)
EM410RDLAlarms ==
    Frames(9, [set_distance_alarm |-> \hff06, set_distance_mutation_alarm |-> \hff06,
                set_tank_distance_alarm |-> \hff06, set_tank_distance_mutation_alarm |-> \hff06])
EM410RDLEncode ==
    Frames(1, [reboot |-> \hff10, report_status |-> \hff28, sync_time |-> \hff4a, stop_transmit |-> \hfd6d,
                clear_history |-> \hff27, radar_calibration |-> \hff2a, radar_blind_calibration |-> \hff2a,
                set_distance_mode |-> \hf912, set_blind_detection_enable |-> \hf913,
                set_peak_sorting |-> \hf916, set_tilt_distance_link |-> \hff3e, set_history_enable |-> \hff68,
                set_retransmit_enable |-> \hff69])
    @@ Frames(2, [set_collection_interval |-> \hf939, set_time_zone |-> \hffbd, set_alarm_counts |-> \hfff2,
                set_signal_quality |-> \hf914, set_distance_threshold_sensitive |-> \hf915,
                set_recollection_config |-> \hff1c])
    @@ Frames(3, [set_report_interval |-> \hff8e, set_distance_calibration |-> \hffab,
                set_retransmit_interval |-> \hff6a, set_resend_interval |-> \hff6a])
    @@ Frames(5, [set_distance_range |-> \hff1b])
    @@ EM410RDLAlarms
    @@ [fetch_history |-> {One(\hfd6b, 4), One(\hfd6c, 8)}]
EM410RDLOffered ==
    {"reboot", "report_status", "sync_time", "stop_transmit", "clear_history", "radar_calibration",
     "radar_blind_calibration", "set_report_interval", "set_collection_interval", "set_time_zone",
     "set_distance_mode", "set_distance_alarm", "set_distance_mutation_alarm", "set_peak_sorting",
     "set_blind_detection_enable", "set_history_enable", "fetch_history"}

\* em/em500-co2.codec.ts

EM500CO2Replies ==
    Blocks(1, {\h10, \h1a, \h27, \h28, \h3b, \h68, \h69, \h6d, \h84, \hf5})
    @@ Blocks(2, {\h02, \h03, \h17, \h18, \h1c, \hf2})
    @@ Blocks(3, {\h6a, \h87, \h11a})
    @@ Blocks(4, {\h11, \hf1})
    @@ Blocks(5, {\h39})
    @@ Blocks(8, {\h35, \h96})
    @@ Blocks(9, {\h06})
EM500CO2Decode ==
    Blocks(1, {\h0175, \h0468, \hff01, \hff0b, \hff0f, \hfffe})
    @@ Blocks(2, {\h0367, \h057d, \h0673, \hff09, \hff0a, \hffff})
    @@ Blocks(5, {\h83d7})
    @@ Blocks(8, {\hff16})
    @@ Blocks(11, {\h20ce})
    @@ On({\hfe, \hff}, EM500CO2Replies, 1)
EM500CO2Alarms ==
    Frames(9, [set_co2_alarm |-> \hff06, set_temperature_alarm |-> \hff06,
                set_temperature_mutation_alarm |-> \hff06])
EM500CO2Encode ==
    Frames(1, [reboot |-> \hff10, report_status |-> \hff28, sync_time |-> \hff4a, stop_transmit |-> \hfd6d,
                clear_history |-> \hff27, set_time_sync_enable |-> \hff3b, set_alarm_release_enable |-> \hfff5,
                set_d2d_enable |-> \hff84, set_retransmit_enable |-> \hff69, set_history_enable |-> \hff68])
    @@ Frames(2, [set_collection_interval |-> \hff02, set_report_interval |-> \hff03, set_time_zone |-> \hff17,
                set_recollection_config |-> \hff1c, set_alarm_report_counts |-> \hfff2])
    @@ Frames(3, [set_altitude_calibration |-> \hff87, set_retransmit_interval |-> \hff6a,
                set_resend_interval |-> \hff6a])
    @@ Frames(4, [set_timestamp |-> \hff11, set_temperature_calibration |-> \hfff1,
                set_co2_calibration_value |-> \hfff1, set_pressure_calibration |-> \hfff1,
                set_humidity_calibration |-> \hfff1])
    @@ Frames(5, [set_co2_abc_calibration |-> \hff39])
    @@ Frames(8, [set_d2d_config |-> \hff96, set_d2d_key |-> \hff35])
    @@ EM500CO2Alarms
    @@ [set_co2_calibration |-> {One(\hff1a, 1), One(\h1ff1a, 3)},
        set_sensor_function |-> Copies(\hff18, 2),
        fetch_history |-> {One(\hfd6b, 4), One(\hfd6c, 8)}]
EM500CO2Offered ==
    {"reboot", "report_status", "sync_time", "stop_transmit", "clear_history", "set_report_interval",
     "set_collection_interval", "set_time_zone", "set_co2_alarm", "set_temperature_alarm",
     "set_co2_calibration", "set_history_enable", "set_d2d_enable", "fetch_history"}

\* em/em500-lgt.codec.ts

EM500LGTReplies ==
    Blocks(1, {\h10, \h27, \h28, \h3b, \h4a, \h68, \h69, \h6d, \h84, \hf5})
    @@ Blocks(2, {\h02, \h03, \h17, \h1c, \hf2})
    @@ Blocks(3, {\h6a})
    @@ Blocks(4, {\h11, \hf1})
    @@ Blocks(8, {\h35, \h96})
    @@ Blocks(9, {\h06})
EM500LGTDecode ==
    Blocks(1, {\h0175, \hff01, \hff0b, \hff0f, \hfffe})
    @@ Blocks(2, {\hff09, \hff0a, \hffff})
    @@ Blocks(4, {\h0394})
    @@ Blocks(8, {\h20ce, \hff16})
    @@ On({\hfe, \hff}, EM500LGTReplies, 1)
EM500LGTEncode ==
    Frames(1, [reboot |-> \hff10, report_status |-> \hff28, sync_time |-> \hff4a, stop_transmit |-> \hfd6d,
                clear_history |-> \hff27, set_time_sync_enable |-> \hff3b, set_alarm_release_enable |-> \hfff5,
                set_d2d_enable |-> \hff84, set_history_enable |-> \hff68, set_retransmit_enable |-> \hff69])
    @@ Frames(2, [set_collection_interval |-> \hff02, set_recollection_config |-> \hff1c,
                set_report_interval |-> \hff03, set_time_zone |-> \hff17, set_alarm_report_counts |-> \hfff2])
    @@ Frames(3, [set_retransmit_interval |-> \hff6a, set_resend_interval |-> \hff6a])
    @@ Frames(4, [set_timestamp |-> \hff11, set_illuminance_calibration |-> \hfff1])
    @@ Frames(8, [set_d2d_config |-> \hff96, set_d2d_key |-> \hff35])
    @@ Frames(9, [set_illuminance_alarm |-> \hff06])
    @@ [fetch_history |-> {One(\hfd6b, 4), One(\hfd6c, 8)}]
EM500LGTOffered ==
    {"reboot", "report_status", "sync_time", "stop_transmit", "clear_history", "set_report_interval",
     "set_collection_interval", "set_illuminance_alarm", "set_history_enable", "set_d2d_enable",
     "fetch_history"}

\* em/em500-pp.codec.ts

\* mutant: the case of the time zone forgets its second byte
EM500PPRepliesShort == Blocks(1, {\h17}) @@ Blocks(2, {\h02, \h03, \h1c})
EM500PPReplies ==
    Blocks(1, {\h10, \h27, \h28, \h3b, \h4a, \h68, \h69, \h6d, \h84, \hf5})
    @@ Blocks(2, {\h02, \h03, \h17, \h1c, \hf2})
    @@ Blocks(3, {\h6a})
    @@ Blocks(4, {\h11, \hf1})
    @@ Blocks(8, {\h35, \h96})
    @@ Blocks(9, {\h06})
EM500PPDecode ==
    Blocks(1, {\h0175, \hff01, \hff0b, \hff0f, \hfffe})
    @@ Blocks(2, {\h037b, \hff09, \hff0a, \hffff})
    @@ Blocks(6, {\h20ce})
    @@ Blocks(8, {\hff16})
    @@ On({\hfe, \hff}, EM500PPReplies, 1)
EM500PPEncode ==
    Frames(1, [reboot |-> \hff10, report_status |-> \hff28, sync_time |-> \hff4a, stop_transmit |-> \hfd6d,
                clear_history |-> \hff27, set_time_sync_enable |-> \hff3b, set_alarm_release_enable |-> \hfff5,
                set_d2d_enable |-> \hff84, set_history_enable |-> \hff68, set_retransmit_enable |-> \hff69])
    @@ Frames(2, [set_collection_interval |-> \hff02, set_recollection_config |-> \hff1c,
                set_report_interval |-> \hff03, set_time_zone |-> \hff17, set_alarm_report_counts |-> \hfff2])
    @@ Frames(3, [set_retransmit_interval |-> \hff6a, set_resend_interval |-> \hff6a])
    @@ Frames(4, [set_timestamp |-> \hff11, set_pressure_calibration |-> \hfff1])
    @@ Frames(8, [set_d2d_config |-> \hff96, set_d2d_key |-> \hff35])
    @@ Frames(9, [set_pressure_alarm |-> \hff06])
    @@ [fetch_history |-> {One(\hfd6b, 4), One(\hfd6c, 8)}]
EM500PPOffered ==
    {"reboot", "report_status", "sync_time", "stop_transmit", "clear_history", "set_report_interval",
     "set_collection_interval", "set_pressure_alarm", "set_pressure_calibration", "set_history_enable",
     "fetch_history"}

\* em/em500-pt100.codec.ts

EM500PT100Replies ==
    Blocks(1, {\h10, \h27, \h28, \h3b, \h4a, \h68, \h69, \h6d, \h84, \hf5})
    @@ Blocks(2, {\h02, \h03, \h17, \h1c, \hf2})
    @@ Blocks(3, {\h6a})
    @@ Blocks(4, {\h11, \hf1})
    @@ Blocks(8, {\h35, \h96})
    @@ Blocks(9, {\h06})
EM500PT100Decode ==
    Blocks(1, {\h0175, \hff01, \hff0b, \hff0f, \hfffe})
    @@ Blocks(2, {\h0367, \hff09, \hff0a, \hffff})
    @@ Blocks(5, {\h83d7, \hff1b})
    @@ Blocks(6, {\h20ce})
    @@ Blocks(8, {\hff16})
    @@ On({\hfe, \hff}, EM500PT100Replies, 1)
EM500PT100Encode ==
    Frames(1, [reboot |-> \hff10, report_status |-> \hff28, sync_time |-> \hff4a, stop_transmit |-> \hfd6d,
                clear_history |-> \hff27, set_time_sync_enable |-> \hff3b, set_alarm_release_enable |-> \hfff5,
                set_d2d_enable |-> \hff84, set_history_enable |-> \hff68, set_retransmit_enable |-> \hff69])
    @@ Frames(2, [set_collection_interval |-> \hff02, set_recollection_config |-> \hff1c,
                set_report_interval |-> \hff03, set_time_zone |-> \hff17, set_alarm_report_counts |-> \hfff2])
    @@ Frames(3, [set_retransmit_interval |-> \hff6a, set_resend_interval |-> \hff6a])
    @@ Frames(4, [set_timestamp |-> \hff11, set_temperature_calibration |-> \hfff1])
    @@ Frames(8, [set_d2d_config |-> \hff96, set_d2d_key |-> \hff35])
    @@ Frames(9, [set_temperature_alarm |-> \hff06, set_temperature_mutation_alarm |-> \hff06])
    @@ [fetch_history |-> {One(\hfd6b, 4), One(\hfd6c, 8)}]
EM500PT100Offered ==
    {"reboot", "report_status", "sync_time", "stop_transmit", "clear_history", "set_report_interval",
     "set_collection_interval", "set_temperature_alarm", "set_temperature_mutation_alarm",
     "set_temperature_calibration", "set_history_enable", "fetch_history"}

\* em/em500-smtc.codec.ts

EM500SMTCReplies ==
    Blocks(1, {\h10, \h27, \h28, \h3b, \h4a, \h68, \h69, \h6d, \h84, \hf5})
    @@ Blocks(2, {\h02, \h03, \h17, \h1c, \hf2})
    @@ Blocks(3, {\h6a})
    @@ Blocks(4, {\h11})
    @@ Blocks(8, {\h35, \h96})
EM500SMTCDecode ==
    Blocks(1, {\h0175, \h0468, \hff01, \hff0b, \hff0f, \hfffe})
    @@ Blocks(2, {\h0367, \h04ca, \h057f, \hff09, \hff0a, \hffff})
    @@ Blocks(5, {\h83d7})
    @@ Blocks(8, {\hff16})
    @@ Blocks(10, {\h20ce})
    @@ On({\hfe, \hff}, EM500SMTCReplies, 1)
EM500SMTCEncode ==
    Frames(1, [reboot |-> \hff10, report_status |-> \hff28, sync_time |-> \hff4a, stop_transmit |-> \hfd6d,
                clear_history |-> \hff27, set_time_sync_enable |-> \hff3b, set_alarm_release_enable |-> \hfff5,
                set_d2d_enable |-> \hff84, set_history_enable |-> \hff68, set_retransmit_enable |-> \hff69])
    @@ Frames(2, [set_collection_interval |-> \hff02, set_recollection_config |-> \hff1c,
                set_report_interval |-> \hff03, set_time_zone |-> \hff17, set_alarm_report_counts |-> \hfff2])
    @@ Frames(3, [set_retransmit_interval |-> \hff6a, set_resend_interval |-> \hff6a])
    @@ Frames(4, [set_timestamp |-> \hff11])
    @@ Frames(8, [set_d2d_config |-> \hff96, set_d2d_key |-> \hff35])
    @@ [fetch_history |-> {One(\hfd6b, 4), One(\hfd6c, 8)}]
EM500SMTCOffered ==
    {"reboot", "report_status", "sync_time", "stop_transmit", "clear_history", "set_report_interval",
     "set_collection_interval", "set_history_enable", "set_d2d_enable", "fetch_history"}

\* em/em500-swl.codec.ts

EM500SWLReplies ==
    Blocks(1, {\h10, \h27, \h28, \h3b, \h4a, \h68, \h69, \h6d, \h84, \hf5})
    @@ Blocks(2, {\h02, \h03, \h17, \h1c, \hf2})
    @@ Blocks(3, {\h6a})
    @@ Blocks(4, {\h11, \hf1})
    @@ Blocks(8, {\h35, \h96})
    @@ Blocks(9, {\h06})
EM500SWLDecode ==
    Blocks(1, {\h0175, \hff01, \hff0b, \hff0f, \hfffe})
    @@ Blocks(2, {\h0377, \hff09, \hff0a, \hffff})
    @@ Blocks(5, {\hff1b})
    @@ Blocks(6, {\h20ce})
    @@ Blocks(8, {\hff16})
    @@ On({\hfe, \hff}, EM500SWLReplies, 1)
EM500SWLEncode ==
    Frames(1, [reboot |-> \hff10, report_status |-> \hff28, sync_time |-> \hff4a, stop_transmit |-> \hfd6d,
                clear_history |-> \hff27, set_time_sync_enable |-> \hff3b, set_alarm_release_enable |-> \hfff5,
                set_d2d_enable |-> \hff84, set_history_enable |-> \hff68, set_retransmit_enable |-> \hff69])
    @@ Frames(2, [set_collection_interval |-> \hff02, set_recollection_config |-> \hff1c,
                set_report_interval |-> \hff03, set_time_zone |-> \hff17, set_alarm_report_counts |-> \hfff2])
    @@ Frames(3, [set_retransmit_interval |-> \hff6a, set_resend_interval |-> \hff6a])
    @@ Frames(4, [set_timestamp |-> \hff11, set_depth_calibration |-> \hfff1])
    @@ Frames(8, [set_d2d_config |-> \hff96, set_d2d_key |-> \hff35])
    @@ Frames(9, [set_depth_alarm |-> \hff06])
    @@ [fetch_history |-> {One(\hfd6b, 4), One(\hfd6c, 8)}]
EM500SWLOffered ==
    {"reboot", "report_status", "sync_time", "stop_transmit", "clear_history", "set_report_interval",
     "set_collection_interval", "set_depth_alarm", "set_depth_calibration", "set_history_enable",
     "set_d2d_enable", "fetch_history"}

\* em/em500-udl.codec.ts

EM500UDLReplies ==
    Blocks(1, {\h10, \h27, \h28, \h3b, \h4a, \h68, \h69, \h6d, \h84, \hf5})
    @@ Blocks(2, {\h02, \h03, \h17, \h1c, \hf2})
    @@ Blocks(3, {\h6a})
    @@ Blocks(4, {\h11, \hf1})
    @@ Blocks(8, {\h35, \h96})
    @@ Blocks(9, {\h06})
EM500UDLDecode ==
    Blocks(1, {\h0175, \hff01, \hff0b, \hff0f, \hfffe})
    @@ Blocks(2, {\h0382, \hff09, \hff0a, \hffff})
    @@ Blocks(5, {\h83e9})
    @@ Blocks(6, {\h20ce})
    @@ Blocks(8, {\hff16})
    @@ On({\hfe, \hff}, EM500UDLReplies, 1)
EM500UDLEncode ==
    Frames(1, [reboot |-> \hff10, report_status |-> \hff28, sync_time |-> \hff4a, stop_transmit |-> \hfd6d,
                clear_history |-> \hff27, set_time_sync_enable |-> \hff3b, set_alarm_release_enable |-> \hfff5,
                set_d2d_enable |-> \hff84, set_retransmit_enable |-> \hff69, set_history_enable |-> \hff68])
    @@ Frames(2, [set_collection_interval |-> \hff02, set_recollection_config |-> \hff1c,
                set_report_interval |-> \hff03, set_time_zone |-> \hff17, set_alarm_report_counts |-> \hfff2])
    @@ Frames(3, [set_retransmit_interval |-> \hff6a, set_resend_interval |-> \hff6a])
    @@ Frames(4, [set_timestamp |-> \hff11, set_distance_calibration |-> \hfff1])
    @@ Frames(8, [set_d2d_config |-> \hff96, set_d2d_key |-> \hff35])
    @@ Frames(9, [set_distance_alarm |-> \hff06, set_distance_mutation_alarm |-> \hff06])
    @@ [fetch_history |-> {One(\hfd6b, 4), One(\hfd6c, 8)}]
EM500UDLOffered ==
    {"reboot", "report_status", "sync_time", "stop_transmit", "clear_history", "set_report_interval",
     "set_collection_interval", "set_distance_alarm", "set_distance_mutation_alarm",
     "set_distance_calibration", "set_history_enable", "set_d2d_enable", "fetch_history"}

\* what codec.module.ts registers

EMCodecs ==
    [EM300CL |->
        [decode |-> EM300CLDecode, encode |-> EM300CLEncode,
         offered |-> EM300CLOffered, answers |-> {\hfe, \hff}],
     EM300DI |->
        [decode |-> EM300DIDecode, encode |-> EM300DIEncode,
         offered |-> EM300DIOffered, answers |-> {\hfe, \hff}],
     EM300MCS |->
        [decode |-> EM300MCSDecode, encode |-> EM300MCSEncode,
         offered |-> EM300MCSOffered, answers |-> {\hfe, \hff}],
     EM300MLD |->
        [decode |-> EM300MLDDecode, encode |-> EM300MLDEncode,
         offered |-> EM300MLDOffered, answers |-> {\hfe, \hff}],
     EM300SLD |->
        [decode |-> EM300SLDDecode, encode |-> EM300SLDEncode,
         offered |-> EM300SLDOffered, answers |-> {\hfe, \hff}],
     EM300TH |->
        [decode |-> EM300THDecode, encode |-> EM300THEncode,
         offered |-> EM300THOffered, answers |-> {\hfe, \hff}],
     EM310TILT |->
        [decode |-> EM310TILTDecode, encode |-> EM310TILTEncode,
         offered |-> EM310TILTOffered, answers |-> {\hfe, \hff}],
     EM310UDL |->
        [decode |-> EM310UDLDecode, encode |-> EM310UDLEncode,
         offered |-> EM310UDLOffered, answers |-> {\hfe, \hff}],
     EM320TH |->
        [decode |-> EM320THDecode, encode |-> EM320THEncode,
         offered |-> EM320THOffered, answers |-> {\hfe, \hff}],
     EM320TILT |->
        [decode |-> EM320TILTDecode, encode |-> EM320TILTEncode,
         offered |-> EM320TILTOffered, answers |-> {\hfe, \hff}],
     EM400MUD |->
        [decode |-> EM400MUDDecode, encode |-> EM400MUDEncode,
         offered |-> EM400MUDOffered, answers |-> {\hfe, \hff}],
     EM410RDL |->
        [decode |-> EM410RDLDecode, encode |-> EM410RDLEncode,
         offered |-> EM410RDLOffered, answers |-> {\hf8, \hf9, \hfe, \hff}],
     EM500CO2 |->
        [decode |-> EM500CO2Decode, encode |-> EM500CO2Encode,
         offered |-> EM500CO2Offered, answers |-> {\hfe, \hff}],
     EM500LGT |->
        [decode |-> EM500LGTDecode, encode |-> EM500LGTEncode,
         offered |-> EM500LGTOffered, answers |-> {\hfe, \hff}],
     EM500PP |->
        [decode |-> EM500PPDecode, encode |-> EM500PPEncode,
         offered |-> EM500PPOffered, answers |-> {\hfe, \hff}],
     EM500PT100 |->
        [decode |-> EM500PT100Decode, encode |-> EM500PT100Encode,
         offered |-> EM500PT100Offered, answers |-> {\hfe, \hff}],
     EM500SMTC |->
        [decode |-> EM500SMTCDecode, encode |-> EM500SMTCEncode,
         offered |-> EM500SMTCOffered, answers |-> {\hfe, \hff}],
     EM500SWL |->
        [decode |-> EM500SWLDecode, encode |-> EM500SWLEncode,
         offered |-> EM500SWLOffered, answers |-> {\hfe, \hff}],
     EM500UDL |->
        [decode |-> EM500UDLDecode, encode |-> EM500UDLEncode,
         offered |-> EM500UDLOffered, answers |-> {\hfe, \hff}]]

\* variants.codec.ts: models that differ from another by name, and EM400-UDL,
\* which refuses what it has no hardware for

EM400UDLCodec ==
    [EMCodecs.EM400MUD EXCEPT
        !.encode = [c \in DOMAIN @ \ {"set_install_height", "set_bin_mode_alarm"} |-> @[c]],
        !.offered = @ \ {"set_install_height", "set_install_height_enable", "set_bin_mode_alarm"}]
EMVariants ==
    [EM300ZLD |-> EMCodecs.EM300SLD, EM300DIHALL |-> EMCodecs.EM300DI,
     EM400TLD |-> EMCodecs.EM400MUD, EM400UDL |-> EM400UDLCodec]

=============================================================================
