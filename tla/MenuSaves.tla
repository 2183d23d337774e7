------------------------------ MODULE MenuSaves ------------------------------
(***************************************************************************)
(* What each entry of the menu does when its value is saved: the field it  *)
(* changes in the configuration file, and which of these it then does, in  *)
(* this order: read the file again (reads), program the encoder (pr_cfg),  *)
(* upload the tables (gener_table), set the modulator (ad9789), and ask    *)
(* the main loop to program everything (pid_status).                       *)
(*                                                                         *)
(* A field is a setting or a group of settings that reach the same chips:  *)
(* "si" what only the tables carry, "rf" and "rfon" the modulator,         *)
(* "picture" the receiver, "insert" the switches of table insertion,       *)
(* "local" what no chip sees; the others are registers of the encoder;     *)
(* "none" is not a field.                                                  *)
(***************************************************************************)
EncoderFields ==
  {"vpid", "apid", "pmt", "pcr", "vrate", "arate", "ratemode", "profile", "level"}
Fields ==
  EncoderFields \cup {"num", "si", "rf", "rfon", "picture", "insert", "local"}

Save(field, reads, pr_cfg, gener_table, ad9789, flag) ==
  [field |-> field, reads |-> reads, pr_cfg |-> pr_cfg,
   gener_table |-> gener_table, ad9789 |-> ad9789, flag |-> flag]

Reprogram(field) == Save(field, TRUE, TRUE, TRUE, FALSE, TRUE)
Republish(field) == Save(field, TRUE, TRUE, TRUE, FALSE, FALSE)
Applied(field) == Save(field, TRUE, FALSE, FALSE, FALSE, TRUE)
Deferred(field) == Save(field, FALSE, FALSE, FALSE, FALSE, TRUE)
Retuned(field) == Save(field, TRUE, FALSE, FALSE, TRUE, FALSE)
Kept(field) == Save(field, TRUE, FALSE, FALSE, FALSE, FALSE)
\* Entries whose store is commented out.
Flagged == Save("none", FALSE, FALSE, FALSE, FALSE, TRUE)
Untouched == Save("none", FALSE, FALSE, FALSE, FALSE, FALSE)

str_filename_save == Kept("local")
guardIntv_comm == Deferred("rf")
fre_dig_save == Applied("rf")
text_digfilesize_save == Kept("local")
text_program_num_save == Reprogram("num")
text_networkid_save == Republish("si")
bin_nitlcn_save == Reprogram("si")
text_networknumb_save == Republish("si")
text_PrivateData_save == Republish("si")
bin_eit_year_save == Reprogram("si")
bin_eit_time_save == Reprogram("si")
bin_eit_nexttime_save == Reprogram("si")
bin_eit_duration_save == Reprogram("si")
bin_eit_nextduration_save == Reprogram("si")
bin_eit_next_year_save == Reprogram("si")
bin_language_save == Republish("si")
bin_starteventname_save == Reprogram("si")
bin_nexteventname_save == Reprogram("si")
text_Programname_save == Reprogram("si")
text_servername_save == Reprogram("si")
text_digpmt_save == Reprogram("pmt")
text_digprc_save == Reprogram("pcr")
text_digvpid_save == Reprogram("vpid")
text_digapid_save == Reprogram("apid")
text_videotare_save == Deferred("vrate")
text_audiotare_save == Deferred("arate")
text_audioformat_save == Untouched
text_videobright_save == Applied("picture")
text_videocpbright_save == Applied("picture")
text_videocontrast_save == Applied("picture")
text_videocpcontrast_save == Applied("picture")
text_videosaturation_save == Applied("picture")
text_videocpsaturation_save == Applied("picture")
text_streamtsid_save == Flagged
text_modulatorrf_save == Applied("rf")
text_streamonid_save == Kept("local")
text_videohue_save == Applied("picture")
text_videocphue_save == Applied("picture")
coderate_comm == Deferred("rf")
comm_constell == Deferred("rf")
eit_insert_commom == Kept("insert")
nit_insert_commom == Kept("insert")
eauto_record_commom == Kept("local")
program_enable_commom == Applied("local")
comm_h264profile == Deferred("profile")
comm_videonorm == Deferred("local")
comm_h264level == Deferred("level")
comm_lcdtime == Kept("local")
comm_play_mod == Kept("local")
comm_save_mod == Kept("local")
comm_nitlcn_mod == Deferred("si")
comm_ratemode == Deferred("ratemode")
comm_Bandwidth == Deferred("rf")
fft_comm == Deferred("rf")
rf_comm == Retuned("rfon")

Menu ==
  {str_filename_save, guardIntv_comm, fre_dig_save, text_digfilesize_save,
   text_program_num_save, text_networkid_save, bin_nitlcn_save,
   text_networknumb_save, text_PrivateData_save, bin_eit_year_save,
   bin_eit_time_save, bin_eit_nexttime_save, bin_eit_duration_save,
   bin_eit_nextduration_save, bin_eit_next_year_save, bin_language_save,
   bin_starteventname_save, bin_nexteventname_save, text_Programname_save,
   text_servername_save, text_digpmt_save, text_digprc_save,
   text_digvpid_save, text_digapid_save, text_videotare_save,
   text_audiotare_save, text_audioformat_save, text_videobright_save,
   text_videocpbright_save, text_videocontrast_save,
   text_videocpcontrast_save, text_videosaturation_save,
   text_videocpsaturation_save, text_streamtsid_save,
   text_modulatorrf_save, text_streamonid_save, text_videohue_save,
   text_videocphue_save, coderate_comm, comm_constell, eit_insert_commom,
   nit_insert_commom, eauto_record_commom, program_enable_commom,
   comm_h264profile, comm_videonorm, comm_h264level, comm_lcdtime,
   comm_play_mod, comm_save_mod, comm_nitlcn_mod, comm_ratemode,
   comm_Bandwidth, fft_comm, rf_comm}
=============================================================================
