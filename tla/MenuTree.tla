------------------------------ MODULE MenuTree ------------------------------
(***************************************************************************)
(* The menus of the display: the constant tables of common/common_conf.c,  *)
(* the function behind each entry (menu_foun.c), and the table FileBrowse  *)
(* that readbus.c fills with the recordings it finds on the stick.         *)
(* A table is a sequence of entries, each with the function Subs that      *)
(* enter runs and the menu it opens; titles are left out.                  *)
(***************************************************************************)
EXTENDS Naturals, Sequences

\* No menu: a NULL pointer.
NULL == "NULL"

Entry(sub, child) == [sub |-> sub, child |-> child]

\* NullSubs, which does nothing.
NullSubs == [kind |-> "null", of |-> 0]

\* A status page, which enter opens and closes.
Page(fun) == Entry([kind |-> "page", of |-> fun], NULL)

\* An entry that only opens another menu.
Open(menu) == Entry(NullSubs, menu)

\* An editor of one of n options, of Yes and No (menu_general_enter), and of a
\* number or a text (cfg_discontrl, cfg_discontrl_c).
Choice(n) == [kind |-> "choice", of |-> n]
YesNo == [kind |-> "yesno", of |-> 2]
Input == [kind |-> "input", of |-> 0]

\* The editors.
video_inerface_cfg == Choice(3)
video_bitrate == Input
video_rate_mode == Choice(2)
h264_profile_cfg == Choice(4)
h264_level == Choice(7)
vedeio_bright == Input
videocontrast == Input
videosaturation == Input
videohue == Input
videonorm == Choice(8)
audio_bitrate == Choice(10)
audio_format == Choice(3)
program_ouput == Choice(2)
program_name == Input
Service_name == Input
program_num == Input
pmt_pid == Input
prc_pid == Input
video_pid == Input
audio_pid == Input
programinfo_lcn == Input
start_year == Input
start_time == Input
start_duration == Input
start_eventname_Cfg == Input
next_year == Input
next_time == Input
next_duration == Input
next_eventname_Cfg == Input
Bandwidth_Cfg == Choice(3)
Constell_cfg == Choice(3)
fft_NK_cfg == Choice(2)
guardIntv_dalay_cfg == Choice(4)
coderate_cfg == Choice(5)
RF_frequency_status == Input
rf_level == Input
rf_out == YesNo
streamtsid == Input
streamonid == Input
network_id == Input
network_name == Input
nit_version_numb == Input
nit_lcn_mod_cfg == Choice(3)
PrivateData == Input
nit_insert_Cfg == YesNo
language_Cfg == Input
eit_insert_Cfg == YesNo
ts == Input
eauto_wr_usb_Cfg == YesNo
file_size == Input
record_save_mod == Choice(3)
play_mod == Choice(3)
factory_reset == Choice(1)
lcd_timeout == Choice(7)
key_passwrd_cfg == Input
key_lock == YesNo

\* The entries of the USB menus: start a recording, list the recordings, play one.
\* Those of usbinfo.c, in module UsbHotplug, leave the menus as they are.
usb_rec_enable == [kind |-> "record", of |-> 2]
usb_ts_inf == [kind |-> "list", of |-> 0]
send_usb_read_message == [kind |-> "play", of |-> 0]
get_usb_usrinfo == NullSubs
manu_do_mount_dev == NullSubs

\* The tables.
MainMenu == <<Open("sysStatus"), Open("EncoderCfg"), Open("ModulatorCfg"),
  Open("StreamCfg"), Open("UsbDevCfg"), Open("SystemCfg")>>
sysStatus == <<Open("EncoderStatus"), Page("mbitrate"),
  Page("systemstat_cfg"), Open("Status")>>
Status == <<Page("run_time"), Page("sys_serial"), Page("sys_Version")>>
EncoderStatus == <<Page("video_lock_status_Cfg"), Page("video_resolution")>>
EncoderCfg == <<Open("VideoCfg"), Open("AudioCfg"), Open("ProgInfoCfg")>>
VideoCfg == <<Entry(video_inerface_cfg, "VideoIntfCfg"), Entry(video_bitrate,
  "VideoBitrateCfg"), Entry(video_rate_mode, "RateModeCfg"),
  Entry(h264_profile_cfg, "ProfileCfg"), Entry(h264_level, "LevelCfg"),
  Entry(vedeio_bright, "BrightnessCfg"), Entry(videocontrast, "ContrastCfg"),
  Entry(videosaturation, "SaturationCfg"), Entry(videohue, "HueCfg"),
  Entry(videonorm, "StandardCfg")>>
AudioCfg == <<Entry(audio_bitrate, "AudioBitrateCfg"), Entry(audio_format,
  "AudioFormatCfg")>>
ProgInfoCfg == <<Entry(program_ouput, "ProgOutCfg"), Entry(program_name,
  "ProgNameCfg"), Entry(Service_name, "ServiceNameCfg"), Entry(program_num,
  "ProgNumCfg"), Entry(pmt_pid, "PmtPidCfg"), Entry(prc_pid, "PcrPidCfg"),
  Entry(video_pid, "VideoPidCfg"), Entry(audio_pid, "AudioPidCfg"),
  Entry(programinfo_lcn, "LcnCfg"), Open("EitEventCfg")>>
EitEventCfg == <<Open("EitNowCfg"), Open("EitNextCfg")>>
EitNowCfg == <<Entry(start_year, "StartYearCfg"), Entry(start_time,
  "StartTimeCfg"), Entry(start_duration, "StartDurationCfg"),
  Entry(start_eventname_Cfg, "StartEventNameCfg")>>
EitNextCfg == <<Entry(next_year, "NextYearCfg"), Entry(next_time,
  "NextTimeCfg"), Entry(next_duration, "NextDurationCfg"),
  Entry(next_eventname_Cfg, "NextEventNameCfg")>>
ModulatorCfg == <<Entry(Bandwidth_Cfg, "BandwidthCfg"), Entry(Constell_cfg,
  "ConstellCfg"), Entry(fft_NK_cfg, "FFTCfg"), Entry(guardIntv_dalay_cfg,
  "GuardIntvCfg"), Entry(coderate_cfg, "CoderateCfg"),
  Entry(RF_frequency_status, "RFFreqCfg"), Entry(rf_level, "RFLevelCfg"),
  Entry(rf_out, "RFOutCfg")>>
StreamCfg == <<Entry(streamtsid, "TsidCfg"), Entry(streamonid, "OnidCfg"),
  Open("NitCfg"), Open("EitCfg")>>
NitCfg == <<Entry(network_id, "NetworkIdCfg"), Entry(network_name,
  "NetworkNameCfg"), Entry(NullSubs, NULL), Entry(nit_version_numb,
  "VersionNumberCfg"), Entry(nit_lcn_mod_cfg, "LcnMode"), Entry(PrivateData,
  "PrivateDataCfg"), Entry(nit_insert_Cfg, NULL)>>
EitCfg == <<Entry(language_Cfg, "LanguageCfg"), Entry(eit_insert_Cfg,
  "EitInsert")>>
UsbDevCfg == <<Open("RecordTsCfg"), Open("PlayTsCfg"), Open("UsbDevStatus")>>
RecordTsCfg == <<Entry(usb_rec_enable, NULL), Open("AdvancedCfg")>>
AdvancedCfg == <<Entry(ts, NULL), Entry(eauto_wr_usb_Cfg, NULL),
  Entry(file_size, NULL), Entry(record_save_mod, "recird_mod")>>
PlayTsCfg == <<Entry(usb_ts_inf, "FileBrowse"), Entry(play_mod, "PlayMode")>>
UsbDevStatus == <<Entry(NullSubs, NULL), Entry(get_usb_usrinfo, NULL),
  Entry(manu_do_mount_dev, NULL)>>
SystemCfg == <<Entry(factory_reset, "FactoryRstCfg"), Entry(lcd_timeout,
  "LCDTimeoutCfg"), Entry(key_passwrd_cfg, "KeyPasswordCfg"), Entry(key_lock,
  "LockKeyCfg")>>

\* FileBrowse: the recordings on the stick, or the one entry "No TS file".
FileBrowse(files) ==
  IF files = 0 THEN <<Entry(NullSubs, NULL)>>
  ELSE [i \in 1..files |-> Entry(send_usb_read_message, NULL)]

\* What an editor shows while it is open: a table of one entry that does nothing.
\* Each is given with the menu its ParentMenus names, in the order of the source.
EncoderLeaves == [AudioFormatCfg |-> "AudioCfg", TsidCfg |-> "StreamCfg",
  OnidCfg |-> "StreamCfg", StandardCfg |-> "VideoCfg", HueCfg |-> "VideoCfg",
  SaturationCfg |-> "VideoCfg", ContrastCfg |-> "VideoCfg", ProgOutCfg |->
  "ProgInfoCfg", LcnCfg |-> "ProgInfoCfg"]
NitLeaves == [LcnMode |-> "NitCfg", recird_mod |-> "AdvancedCfg",
  LCDTimeoutCfg |-> "SystemCfg"]
OptionLeaves == [PlayMode |-> "PlayTsCfg", LevelCfg |-> "VideoCfg", ProfileCfg
  |-> "VideoCfg", VideoBitrateCfg |-> "VideoCfg", BrightnessCfg |->
  "VideoCfg", RateModeCfg |-> "VideoCfg", VideoIntfCfg |-> "VideoCfg"]
EventLeaves == [StartYearCfg |-> "EitNowCfg", StartTimeCfg |-> "EitNowCfg",
  StartDurationCfg |-> "EitNowCfg", StartEventNameCfg |-> "EitNowCfg",
  NextYearCfg |-> "EitNextCfg", NextTimeCfg |-> "EitNextCfg", NextDurationCfg
  |-> "EitNextCfg", NextEventNameCfg |-> "EitNextCfg", ServiceNameCfg |->
  "ProgInfoCfg", ProgNameCfg |-> "ProgInfoCfg", ProgNumCfg |-> "ProgInfoCfg",
  AudioBitrateCfg |-> "AudioCfg", AudioPidCfg |-> "ProgInfoCfg", VideoPidCfg
  |-> "ProgInfoCfg", PcrPidCfg |-> "ProgInfoCfg", PmtPidCfg |-> "ProgInfoCfg"]
RadioLeaves == [BandwidthCfg |-> "ModulatorCfg", ConstellCfg |->
  "ModulatorCfg", FFTCfg |-> "ModulatorCfg", GuardIntvCfg |-> "ModulatorCfg",
  CoderateCfg |-> "ModulatorCfg", RFFreqCfg |-> "ModulatorCfg", RFLevelCfg |->
  "ModulatorCfg", RFOutCfg |-> "ModulatorCfg", PrivateDataCfg |-> "NitCfg",
  VersionNumberCfg |-> "NitCfg", NetworkNameCfg |-> "NitCfg", NetworkIdCfg |->
  "NitCfg", EitInsert |-> "EitCfg", LanguageCfg |-> "EitCfg"]
SystemLeaves == [FactoryRstCfg |-> "SystemCfg", KeyPasswordCfg |->
  "SystemCfg"]
LockLeaf == [LockKeyCfg |-> "SystemCfg"]
Joined(f, g) ==
  [menu \in DOMAIN f \cup DOMAIN g |-> IF menu \in DOMAIN f THEN f[menu] ELSE g[menu]]
Leaves ==
  Joined(EncoderLeaves, Joined(NitLeaves, Joined(OptionLeaves, Joined(EventLeaves,
    Joined(RadioLeaves, Joined(SystemLeaves, LockLeaf))))))

\* ParentMenus of a table: all its entries have the same.
TableParents == [MainMenu |-> NULL, sysStatus |-> "MainMenu", Status |->
  "sysStatus", EncoderStatus |-> "sysStatus", EncoderCfg |-> "MainMenu",
  VideoCfg |-> "EncoderCfg", AudioCfg |-> "EncoderCfg", ProgInfoCfg |->
  "EncoderCfg", EitEventCfg |-> "ProgInfoCfg", EitNowCfg |-> "EitEventCfg",
  EitNextCfg |-> "EitEventCfg", ModulatorCfg |-> "MainMenu", StreamCfg |->
  "MainMenu", NitCfg |-> "StreamCfg", EitCfg |-> "StreamCfg", UsbDevCfg |->
  "MainMenu", RecordTsCfg |-> "UsbDevCfg", AdvancedCfg |-> "RecordTsCfg",
  PlayTsCfg |-> "UsbDevCfg", UsbDevStatus |-> "UsbDevCfg", SystemCfg |->
  "MainMenu"]
Tables == [MainMenu |-> MainMenu, sysStatus |-> sysStatus, Status |-> Status,
  EncoderStatus |-> EncoderStatus, EncoderCfg |-> EncoderCfg, VideoCfg |->
  VideoCfg, AudioCfg |-> AudioCfg, ProgInfoCfg |-> ProgInfoCfg, EitEventCfg
  |-> EitEventCfg, EitNowCfg |-> EitNowCfg, EitNextCfg |-> EitNextCfg,
  ModulatorCfg |-> ModulatorCfg, StreamCfg |-> StreamCfg, NitCfg |-> NitCfg,
  EitCfg |-> EitCfg, UsbDevCfg |-> UsbDevCfg, RecordTsCfg |-> RecordTsCfg,
  AdvancedCfg |-> AdvancedCfg, PlayTsCfg |-> PlayTsCfg, UsbDevStatus |->
  UsbDevStatus, SystemCfg |-> SystemCfg]

Menus == DOMAIN Tables \cup DOMAIN Leaves \cup {"FileBrowse"}

\* The entries of a menu, while the stick holds that many recordings.
Items(menu, files) ==
  IF menu = "FileBrowse" THEN FileBrowse(files)
  ELSE IF menu \in DOMAIN Tables THEN Tables[menu]
  ELSE <<Entry(NullSubs, NULL)>>

\* MenuCount of its first entry, which is not the length of every table.
MenuCount(menu, files) ==
  CASE menu = "AudioFormatCfg" -> 2
    [] menu = "AudioPidCfg" -> 10
    [] OTHER -> Len(Items(menu, files))

\* ParentMenus of its entries; "No TS file" of FileBrowse names another menu.
ParentMenus(menu, files) ==
  IF menu = "FileBrowse" THEN (IF files = 0 THEN "UsbDevCfg" ELSE "PlayTsCfg")
  ELSE IF menu \in DOMAIN Tables THEN TableParents[menu]
  ELSE Leaves[menu]

\* How deep a menu lies.
Depth[menu \in Menus] ==
  LET parent == IF menu = "FileBrowse" THEN "PlayTsCfg" ELSE ParentMenus(menu, 1)
  IN IF parent = NULL THEN 0 ELSE Depth[parent] + 1
=============================================================================
