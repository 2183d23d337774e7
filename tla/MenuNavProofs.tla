---------------------------- MODULE MenuNavProofs ----------------------------
(***************************************************************************)
(* What holds of the menu navigation for every set of menus the user       *)
(* opens, however often a stick is put in and whichever threads interfere, *)
(* while the stick that is browsed holds a recording.                      *)
(***************************************************************************)
EXTENDS MenuNav, TLAPS, SequenceTheorems

-----------------------------------------------------------------------------
(* The tables of the menus.                                                *)

\* The leaves, one group of the tables after another.
Groups == DOMAIN EncoderLeaves \cup DOMAIN NitLeaves \cup DOMAIN OptionLeaves \cup DOMAIN EventLeaves
          \cup DOMAIN RadioLeaves \cup DOMAIN SystemLeaves \cup DOMAIN LockLeaf

\* A table that opens a menu, or a place in one, never bears the name of no menu.
LEMMA MenuNames ==
  /\ NULL \notin Menus /\ OutOfTable \notin Menus /\ NULL # OutOfTable
  /\ DOMAIN Leaves = Groups
  /\ Menus = DOMAIN Tables \cup DOMAIN Leaves \cup {"FileBrowse"}
  /\ DOMAIN Tables = DOMAIN TableParents
  /\ \A m \in DOMAIN Leaves : m \notin DOMAIN Tables /\ m # "FileBrowse"
<1>1. DOMAIN Leaves = Groups
  BY DEF Leaves, Joined, Groups
<1>2. DOMAIN Tables = DOMAIN TableParents
  BY DEF Tables, TableParents
<1>3. NULL \notin DOMAIN Tables /\ OutOfTable \notin DOMAIN Tables /\ "FileBrowse" \notin DOMAIN Tables
  BY DEF Tables, NULL, OutOfTable
<1>4. \A m \in DOMAIN EncoderLeaves : /\ m \notin DOMAIN Tables /\ m # "FileBrowse"
                                      /\ m # NULL /\ m # OutOfTable
  BY DEF EncoderLeaves, Tables, NULL, OutOfTable
<1>5. \A m \in DOMAIN NitLeaves : /\ m \notin DOMAIN Tables /\ m # "FileBrowse"
                                  /\ m # NULL /\ m # OutOfTable
  BY DEF NitLeaves, Tables, NULL, OutOfTable
<1>6. \A m \in DOMAIN OptionLeaves : /\ m \notin DOMAIN Tables /\ m # "FileBrowse"
                                     /\ m # NULL /\ m # OutOfTable
  BY DEF OptionLeaves, Tables, NULL, OutOfTable
<1>7. \A m \in DOMAIN EventLeaves : /\ m \notin DOMAIN Tables /\ m # "FileBrowse"
                                    /\ m # NULL /\ m # OutOfTable
  BY DEF EventLeaves, Tables, NULL, OutOfTable
<1>8. \A m \in DOMAIN RadioLeaves : /\ m \notin DOMAIN Tables /\ m # "FileBrowse"
                                    /\ m # NULL /\ m # OutOfTable
  BY DEF RadioLeaves, Tables, NULL, OutOfTable
<1>9. \A m \in DOMAIN SystemLeaves : /\ m \notin DOMAIN Tables /\ m # "FileBrowse"
                                     /\ m # NULL /\ m # OutOfTable
  BY DEF SystemLeaves, Tables, NULL, OutOfTable
<1>10. \A m \in DOMAIN LockLeaf : /\ m \notin DOMAIN Tables /\ m # "FileBrowse"
                                  /\ m # NULL /\ m # OutOfTable
  BY DEF LockLeaf, Tables, NULL, OutOfTable
<1>11. \A m \in Groups : m \notin DOMAIN Tables /\ m # "FileBrowse" /\ m # NULL /\ m # OutOfTable
  BY <1>4, <1>5, <1>6, <1>7, <1>8, <1>9, <1>10 DEF Groups
<1>12. NULL # OutOfTable /\ NULL # "FileBrowse" /\ OutOfTable # "FileBrowse"
  BY DEF NULL, OutOfTable
<1>13. QED
  BY <1>1, <1>2, <1>3, <1>11, <1>12 DEF Menus

\* Each group keeps its parents when the groups are joined.
LEMMA LeafParents ==
  /\ \A m \in DOMAIN EncoderLeaves : Leaves[m] = EncoderLeaves[m]
  /\ \A m \in DOMAIN NitLeaves : Leaves[m] = NitLeaves[m]
  /\ \A m \in DOMAIN OptionLeaves : Leaves[m] = OptionLeaves[m]
  /\ \A m \in DOMAIN EventLeaves : Leaves[m] = EventLeaves[m]
  /\ \A m \in DOMAIN RadioLeaves : Leaves[m] = RadioLeaves[m]
  /\ \A m \in DOMAIN SystemLeaves : Leaves[m] = SystemLeaves[m]
  /\ \A m \in DOMAIN LockLeaf : Leaves[m] = LockLeaf[m]
<1>1. \A m \in DOMAIN EncoderLeaves : Leaves[m] = EncoderLeaves[m]
  BY DEF Leaves, Joined
<1>2. \A m \in DOMAIN NitLeaves : Leaves[m] = NitLeaves[m]
  <2>1. \A m \in DOMAIN NitLeaves : m \notin DOMAIN EncoderLeaves
    BY DEF EncoderLeaves, NitLeaves
  <2>2. QED
    BY <2>1 DEF Leaves, Joined
<1>3. \A m \in DOMAIN OptionLeaves : Leaves[m] = OptionLeaves[m]
  <2>1. \A m \in DOMAIN OptionLeaves : m \notin DOMAIN EncoderLeaves \cup DOMAIN NitLeaves
    BY DEF EncoderLeaves, NitLeaves, OptionLeaves
  <2>2. QED
    BY <2>1 DEF Leaves, Joined
<1>4. \A m \in DOMAIN EventLeaves : Leaves[m] = EventLeaves[m]
  <2>1. \A m \in DOMAIN EventLeaves : m \notin DOMAIN EncoderLeaves \cup DOMAIN NitLeaves
          \cup DOMAIN OptionLeaves
    BY DEF EncoderLeaves, NitLeaves, OptionLeaves, EventLeaves
  <2>2. QED
    BY <2>1 DEF Leaves, Joined
<1>5. \A m \in DOMAIN RadioLeaves : Leaves[m] = RadioLeaves[m]
  <2>1. \A m \in DOMAIN RadioLeaves : m \notin DOMAIN EncoderLeaves \cup DOMAIN NitLeaves
          \cup DOMAIN OptionLeaves \cup DOMAIN EventLeaves
    BY DEF EncoderLeaves, NitLeaves, OptionLeaves, EventLeaves, RadioLeaves
  <2>2. QED
    BY <2>1 DEF Leaves, Joined
<1>6. \A m \in DOMAIN SystemLeaves : Leaves[m] = SystemLeaves[m]
  <2>1. \A m \in DOMAIN SystemLeaves : m \notin DOMAIN EncoderLeaves \cup DOMAIN NitLeaves
          \cup DOMAIN OptionLeaves \cup DOMAIN EventLeaves \cup DOMAIN RadioLeaves
    BY DEF EncoderLeaves, NitLeaves, OptionLeaves, EventLeaves, RadioLeaves, SystemLeaves
  <2>2. QED
    BY <2>1 DEF Leaves, Joined
<1>7. \A m \in DOMAIN LockLeaf : Leaves[m] = LockLeaf[m]
  <2>1. \A m \in DOMAIN LockLeaf : m \notin DOMAIN EncoderLeaves \cup DOMAIN NitLeaves
          \cup DOMAIN OptionLeaves \cup DOMAIN EventLeaves \cup DOMAIN RadioLeaves
          \cup DOMAIN SystemLeaves
    BY DEF EncoderLeaves, NitLeaves, OptionLeaves, EventLeaves, RadioLeaves, SystemLeaves, LockLeaf
  <2>2. QED
    BY <2>1 DEF Leaves, Joined
<1>8. QED
  BY <1>1, <1>2, <1>3, <1>4, <1>5, <1>6, <1>7

\* The parent of a menu that has a table, and of a leaf.
LEMMA ParentsAre ==
  ASSUME NEW f
  PROVE  /\ \A m \in DOMAIN Tables : ParentMenus(m, f) = TableParents[m]
         /\ \A m \in DOMAIN Leaves : ParentMenus(m, f) = Leaves[m]
<1>1. \A m \in DOMAIN Tables : m # "FileBrowse"
  BY DEF Tables
<1>2. QED
  BY <1>1, MenuNames DEF ParentMenus

\* The menus that show status pages, the kinds of an editor that opens a leaf, and the
\* menus that claim more entries than they have.
Shows == {"sysStatus", "Status", "EncoderStatus"}
Editors == {"choice", "yesno", "input"}
Claimers == {"AudioFormatCfg", "AudioPidCfg"}

\* What the navigation relies on of an entry of menu m: where the menu it opens is, and
\* which kinds of functions are found where.
EntryOk(m, i, e) ==
  /\ e.child # NULL => e.child \in Menus \ {"MainMenu"} /\ ParentMenus(e.child, 2) = m
  /\ e.child # NULL /\ e.child \in DOMAIN Leaves => e.sub.kind \in Editors
  /\ e.child \in Claimers => i # 1
  /\ e.child = "FileBrowse" => e.sub.kind = "list"
  /\ e.child \in {"RecordTsCfg", "PlayTsCfg"} => i <= 2
  /\ e.sub.kind \in Editors \cup {"null", "page", "record", "list", "play"}
  /\ e.sub.kind \in Editors \cup {"record"} => e.sub \in [kind : Choices \cup {"input"}, of : 0 .. 10]
  /\ e.sub.kind = "page" => m \in Shows /\ e.child = NULL
  /\ e.sub.kind = "record" => m = "RecordTsCfg" /\ e.child = NULL
  /\ e.sub.kind = "list" => m = "PlayTsCfg" /\ e.child = "FileBrowse"
  /\ e.sub.kind = "play" => e.child = NULL
  /\ m \in Shows => e.sub.kind \in {"null", "page"} /\ e.child \in Shows \cup {NULL}
  /\ m = "MainMenu" => e.sub.kind = "null" /\ (e.child = "sysStatus" <=> i = 1)

\* The entries of MainMenu.
LEMMA MainMenuEntries == \A i \in 1 .. 6 : EntryOk("MainMenu", i, MainMenu[i])
<1>2. \A m \in {"sysStatus", "EncoderCfg", "ModulatorCfg", "StreamCfg", "UsbDevCfg",
                "SystemCfg"} :
         m \notin DOMAIN Leaves /\ m \in Menus /\ ParentMenus(m, 2) = "MainMenu"
  BY MenuNames, ParentsAre DEF TableParents
<1>3. QED
  BY <1>2, MenuNames
     DEF EntryOk, Shows, Editors, Claimers, Choices, NULL, MainMenu, Entry, NullSubs, Open

\* The entries of sysStatus.
LEMMA sysStatusEntries == \A i \in 1 .. 4 : EntryOk("sysStatus", i, sysStatus[i])
<1>2. \A m \in {"EncoderStatus", "Status"} :
         m \notin DOMAIN Leaves /\ m \in Menus /\ ParentMenus(m, 2) = "sysStatus"
  BY MenuNames, ParentsAre DEF TableParents
<1>3. QED
  BY <1>2, MenuNames
     DEF EntryOk, Shows, Editors, Claimers, Choices, NULL, sysStatus, Entry, NullSubs,
         Open, Page

\* The entries of Status.
LEMMA StatusEntries == \A i \in 1 .. 3 : EntryOk("Status", i, Status[i])
<1>3. QED
  BY MenuNames
     DEF EntryOk, Shows, Editors, Claimers, Choices, NULL, Status, Entry, Page

\* The entries of EncoderStatus.
LEMMA EncoderStatusEntries == \A i \in 1 .. 2 : EntryOk("EncoderStatus", i, EncoderStatus[i])
<1>3. QED
  BY MenuNames
     DEF EntryOk, Shows, Editors, Claimers, Choices, NULL, EncoderStatus, Entry, Page

\* The entries of EncoderCfg.
LEMMA EncoderCfgEntries == \A i \in 1 .. 3 : EntryOk("EncoderCfg", i, EncoderCfg[i])
<1>2. \A m \in {"VideoCfg", "AudioCfg", "ProgInfoCfg"} :
         m \notin DOMAIN Leaves /\ m \in Menus /\ ParentMenus(m, 2) = "EncoderCfg"
  BY MenuNames, ParentsAre DEF TableParents
<1>3. QED
  BY <1>2, MenuNames
     DEF EntryOk, Shows, Editors, Claimers, Choices, NULL, EncoderCfg, Entry, NullSubs,
         Open

\* The entries of VideoCfg.
LEMMA VideoCfgEntries == \A i \in 1 .. 10 : EntryOk("VideoCfg", i, VideoCfg[i])
<1>1. \A m \in {"VideoIntfCfg", "VideoBitrateCfg", "RateModeCfg", "ProfileCfg", "LevelCfg",
                "BrightnessCfg", "ContrastCfg", "SaturationCfg", "HueCfg", "StandardCfg"} :
         m \in DOMAIN Leaves /\ m \in Menus /\ ParentMenus(m, 2) = "VideoCfg"
  BY MenuNames, LeafParents, ParentsAre DEF Groups, EncoderLeaves, OptionLeaves
<1>3. QED
  BY <1>1, MenuNames
     DEF EntryOk, Shows, Editors, Claimers, Choices, NULL, VideoCfg, Choice, Entry, Input,
         h264_level, h264_profile_cfg, vedeio_bright, video_bitrate, video_inerface_cfg,
         video_rate_mode, videocontrast, videohue, videonorm, videosaturation

\* The entries of AudioCfg.
LEMMA AudioCfgEntries == \A i \in 1 .. 2 : EntryOk("AudioCfg", i, AudioCfg[i])
<1>1. \A m \in {"AudioBitrateCfg", "AudioFormatCfg"} :
         m \in DOMAIN Leaves /\ m \in Menus /\ ParentMenus(m, 2) = "AudioCfg"
  BY MenuNames, LeafParents, ParentsAre DEF Groups, EncoderLeaves, EventLeaves
<1>3. QED
  BY <1>1, MenuNames
     DEF EntryOk, Shows, Editors, Claimers, Choices, NULL, AudioCfg, Choice, Entry,
         audio_bitrate, audio_format

\* The entries of ProgInfoCfg.
LEMMA ProgInfoCfgEntries == \A i \in 1 .. 10 : EntryOk("ProgInfoCfg", i, ProgInfoCfg[i])
<1>1. \A m \in {"ProgOutCfg", "ProgNameCfg", "ServiceNameCfg", "ProgNumCfg", "PmtPidCfg",
                "PcrPidCfg", "VideoPidCfg", "AudioPidCfg", "LcnCfg"} :
         m \in DOMAIN Leaves /\ m \in Menus /\ ParentMenus(m, 2) = "ProgInfoCfg"
  BY MenuNames, LeafParents, ParentsAre DEF Groups, EncoderLeaves, EventLeaves
<1>2. \A m \in {"EitEventCfg"} :
         m \notin DOMAIN Leaves /\ m \in Menus /\ ParentMenus(m, 2) = "ProgInfoCfg"
  BY MenuNames, ParentsAre DEF TableParents
<1>3. QED
  BY <1>1, <1>2, MenuNames
     DEF EntryOk, Shows, Editors, Claimers, Choices, NULL, ProgInfoCfg, Choice, Entry,
         Input, NullSubs, Open, Service_name, audio_pid, pmt_pid, prc_pid, program_name,
         program_num, program_ouput, programinfo_lcn, video_pid

\* The entries of EitEventCfg.
LEMMA EitEventCfgEntries == \A i \in 1 .. 2 : EntryOk("EitEventCfg", i, EitEventCfg[i])
<1>2. \A m \in {"EitNowCfg", "EitNextCfg"} :
         m \notin DOMAIN Leaves /\ m \in Menus /\ ParentMenus(m, 2) = "EitEventCfg"
  BY MenuNames, ParentsAre DEF TableParents
<1>3. QED
  BY <1>2, MenuNames
     DEF EntryOk, Shows, Editors, Claimers, Choices, NULL, EitEventCfg, Entry, NullSubs,
         Open

\* The entries of EitNowCfg.
LEMMA EitNowCfgEntries == \A i \in 1 .. 4 : EntryOk("EitNowCfg", i, EitNowCfg[i])
<1>1. \A m \in {"StartYearCfg", "StartTimeCfg", "StartDurationCfg", "StartEventNameCfg"} :
         m \in DOMAIN Leaves /\ m \in Menus /\ ParentMenus(m, 2) = "EitNowCfg"
  BY MenuNames, LeafParents, ParentsAre DEF Groups, EventLeaves
<1>3. QED
  BY <1>1, MenuNames
     DEF EntryOk, Shows, Editors, Claimers, Choices, NULL, EitNowCfg, Entry, Input,
         start_duration, start_eventname_Cfg, start_time, start_year

\* The entries of EitNextCfg.
LEMMA EitNextCfgEntries == \A i \in 1 .. 4 : EntryOk("EitNextCfg", i, EitNextCfg[i])
<1>1. \A m \in {"NextYearCfg", "NextTimeCfg", "NextDurationCfg", "NextEventNameCfg"} :
         m \in DOMAIN Leaves /\ m \in Menus /\ ParentMenus(m, 2) = "EitNextCfg"
  BY MenuNames, LeafParents, ParentsAre DEF Groups, EventLeaves
<1>3. QED
  BY <1>1, MenuNames
     DEF EntryOk, Shows, Editors, Claimers, Choices, NULL, EitNextCfg, Entry, Input,
         next_duration, next_eventname_Cfg, next_time, next_year

\* The entries of ModulatorCfg.
LEMMA ModulatorCfgEntries == \A i \in 1 .. 8 : EntryOk("ModulatorCfg", i, ModulatorCfg[i])
<1>1. \A m \in {"BandwidthCfg", "ConstellCfg", "FFTCfg", "GuardIntvCfg", "CoderateCfg",
                "RFFreqCfg", "RFLevelCfg", "RFOutCfg"} :
         m \in DOMAIN Leaves /\ m \in Menus /\ ParentMenus(m, 2) = "ModulatorCfg"
  BY MenuNames, LeafParents, ParentsAre DEF Groups, RadioLeaves
<1>3. QED
  BY <1>1, MenuNames
     DEF EntryOk, Shows, Editors, Claimers, Choices, NULL, ModulatorCfg, Bandwidth_Cfg,
         Choice, Constell_cfg, Entry, Input, RF_frequency_status, YesNo, coderate_cfg,
         fft_NK_cfg, guardIntv_dalay_cfg, rf_level, rf_out

\* The entries of StreamCfg.
LEMMA StreamCfgEntries == \A i \in 1 .. 4 : EntryOk("StreamCfg", i, StreamCfg[i])
<1>1. \A m \in {"TsidCfg", "OnidCfg"} :
         m \in DOMAIN Leaves /\ m \in Menus /\ ParentMenus(m, 2) = "StreamCfg"
  BY MenuNames, LeafParents, ParentsAre DEF Groups, EncoderLeaves
<1>2. \A m \in {"NitCfg", "EitCfg"} :
         m \notin DOMAIN Leaves /\ m \in Menus /\ ParentMenus(m, 2) = "StreamCfg"
  BY MenuNames, ParentsAre DEF TableParents
<1>3. QED
  BY <1>1, <1>2, MenuNames
     DEF EntryOk, Shows, Editors, Claimers, Choices, NULL, StreamCfg, Entry, Input,
         NullSubs, Open, streamonid, streamtsid

\* The entries of NitCfg.
LEMMA NitCfgEntries == \A i \in 1 .. 7 : EntryOk("NitCfg", i, NitCfg[i])
<1>1. \A m \in {"NetworkIdCfg", "NetworkNameCfg", "VersionNumberCfg", "LcnMode",
                "PrivateDataCfg"} :
         m \in DOMAIN Leaves /\ m \in Menus /\ ParentMenus(m, 2) = "NitCfg"
  BY MenuNames, LeafParents, ParentsAre DEF Groups, NitLeaves, RadioLeaves
<1>3. QED
  BY <1>1, MenuNames
     DEF EntryOk, Shows, Editors, Claimers, Choices, NULL, NitCfg, Choice, Entry, Input,
         NullSubs, PrivateData, YesNo, network_id, network_name, nit_insert_Cfg,
         nit_lcn_mod_cfg, nit_version_numb

\* The entries of EitCfg.
LEMMA EitCfgEntries == \A i \in 1 .. 2 : EntryOk("EitCfg", i, EitCfg[i])
<1>1. \A m \in {"LanguageCfg", "EitInsert"} :
         m \in DOMAIN Leaves /\ m \in Menus /\ ParentMenus(m, 2) = "EitCfg"
  BY MenuNames, LeafParents, ParentsAre DEF Groups, RadioLeaves
<1>3. QED
  BY <1>1, MenuNames
     DEF EntryOk, Shows, Editors, Claimers, Choices, NULL, EitCfg, Entry, Input, YesNo,
         eit_insert_Cfg, language_Cfg

\* The entries of UsbDevCfg.
LEMMA UsbDevCfgEntries == \A i \in 1 .. 3 : EntryOk("UsbDevCfg", i, UsbDevCfg[i])
<1>2. \A m \in {"RecordTsCfg", "PlayTsCfg", "UsbDevStatus"} :
         m \notin DOMAIN Leaves /\ m \in Menus /\ ParentMenus(m, 2) = "UsbDevCfg"
  BY MenuNames, ParentsAre DEF TableParents
<1>3. QED
  BY <1>2, MenuNames
     DEF EntryOk, Shows, Editors, Claimers, Choices, NULL, UsbDevCfg, Entry, NullSubs,
         Open

\* The entries of RecordTsCfg.
LEMMA RecordTsCfgEntries == \A i \in 1 .. 2 : EntryOk("RecordTsCfg", i, RecordTsCfg[i])
<1>2. \A m \in {"AdvancedCfg"} :
         m \notin DOMAIN Leaves /\ m \in Menus /\ ParentMenus(m, 2) = "RecordTsCfg"
  BY MenuNames, ParentsAre DEF TableParents
<1>3. QED
  BY <1>2, MenuNames
     DEF EntryOk, Shows, Editors, Claimers, Choices, NULL, RecordTsCfg, Entry, NullSubs,
         Open, usb_rec_enable

\* The entries of AdvancedCfg.
LEMMA AdvancedCfgEntries == \A i \in 1 .. 4 : EntryOk("AdvancedCfg", i, AdvancedCfg[i])
<1>1. \A m \in {"recird_mod"} :
         m \in DOMAIN Leaves /\ m \in Menus /\ ParentMenus(m, 2) = "AdvancedCfg"
  BY MenuNames, LeafParents, ParentsAre DEF Groups, NitLeaves
<1>3. QED
  BY <1>1, MenuNames
     DEF EntryOk, Shows, Editors, Claimers, Choices, NULL, AdvancedCfg, Choice, Entry,
         Input, YesNo, eauto_wr_usb_Cfg, file_size, record_save_mod, ts

\* The entries of PlayTsCfg.
LEMMA PlayTsCfgEntries == \A i \in 1 .. 2 : EntryOk("PlayTsCfg", i, PlayTsCfg[i])
<1>1. \A m \in {"PlayMode"} :
         m \in DOMAIN Leaves /\ m \in Menus /\ ParentMenus(m, 2) = "PlayTsCfg"
  BY MenuNames, LeafParents, ParentsAre DEF Groups, OptionLeaves
<1>2. \A m \in {"FileBrowse"} :
         m \notin DOMAIN Leaves /\ m \in Menus /\ ParentMenus(m, 2) = "PlayTsCfg"
  BY MenuNames, ParentsAre DEF ParentMenus
<1>3. QED
  BY <1>1, <1>2, MenuNames
     DEF EntryOk, Shows, Editors, Claimers, Choices, NULL, PlayTsCfg, Choice, Entry,
         play_mod, usb_ts_inf

\* The entries of UsbDevStatus.
LEMMA UsbDevStatusEntries == \A i \in 1 .. 3 : EntryOk("UsbDevStatus", i, UsbDevStatus[i])
<1>3. QED
  BY MenuNames
     DEF EntryOk, Shows, Editors, Claimers, Choices, NULL, UsbDevStatus, Entry, NullSubs,
         get_usb_usrinfo, manu_do_mount_dev

\* The entries of SystemCfg.
LEMMA SystemCfgEntries == \A i \in 1 .. 4 : EntryOk("SystemCfg", i, SystemCfg[i])
<1>1. \A m \in {"FactoryRstCfg", "LCDTimeoutCfg", "KeyPasswordCfg", "LockKeyCfg"} :
         m \in DOMAIN Leaves /\ m \in Menus /\ ParentMenus(m, 2) = "SystemCfg"
  BY MenuNames, LeafParents, ParentsAre DEF Groups, LockLeaf, NitLeaves, SystemLeaves
<1>3. QED
  BY <1>1, MenuNames
     DEF EntryOk, Shows, Editors, Claimers, Choices, NULL, SystemCfg, Choice, Entry, Input,
         YesNo, factory_reset, key_lock, key_passwrd_cfg, lcd_timeout

\* The same of every table, and how long it is.
LEMMA TablesAre ==
  ASSUME NEW m \in DOMAIN Tables
  PROVE  /\ Len(Tables[m]) \in 1 .. 10
         /\ \A i \in 1 .. Len(Tables[m]) : EntryOk(m, i, Tables[m][i])
<1>1. CASE m = "MainMenu"
  <2>1. Tables[m] = MainMenu /\ Len(MainMenu) = 6
    BY <1>1 DEF Tables, MainMenu
  <2>2. QED
    BY <1>1, <2>1, MainMenuEntries
<1>2. CASE m = "sysStatus"
  <2>1. Tables[m] = sysStatus /\ Len(sysStatus) = 4
    BY <1>2 DEF Tables, sysStatus
  <2>2. QED
    BY <1>2, <2>1, sysStatusEntries
<1>3. CASE m = "Status"
  <2>1. Tables[m] = Status /\ Len(Status) = 3
    BY <1>3 DEF Tables, Status
  <2>2. QED
    BY <1>3, <2>1, StatusEntries
<1>4. CASE m = "EncoderStatus"
  <2>1. Tables[m] = EncoderStatus /\ Len(EncoderStatus) = 2
    BY <1>4 DEF Tables, EncoderStatus
  <2>2. QED
    BY <1>4, <2>1, EncoderStatusEntries
<1>5. CASE m = "EncoderCfg"
  <2>1. Tables[m] = EncoderCfg /\ Len(EncoderCfg) = 3
    BY <1>5 DEF Tables, EncoderCfg
  <2>2. QED
    BY <1>5, <2>1, EncoderCfgEntries
<1>6. CASE m = "VideoCfg"
  <2>1. Tables[m] = VideoCfg /\ Len(VideoCfg) = 10
    BY <1>6 DEF Tables, VideoCfg
  <2>2. QED
    BY <1>6, <2>1, VideoCfgEntries
<1>7. CASE m = "AudioCfg"
  <2>1. Tables[m] = AudioCfg /\ Len(AudioCfg) = 2
    BY <1>7 DEF Tables, AudioCfg
  <2>2. QED
    BY <1>7, <2>1, AudioCfgEntries
<1>8. CASE m = "ProgInfoCfg"
  <2>1. Tables[m] = ProgInfoCfg /\ Len(ProgInfoCfg) = 10
    BY <1>8 DEF Tables, ProgInfoCfg
  <2>2. QED
    BY <1>8, <2>1, ProgInfoCfgEntries
<1>9. CASE m = "EitEventCfg"
  <2>1. Tables[m] = EitEventCfg /\ Len(EitEventCfg) = 2
    BY <1>9 DEF Tables, EitEventCfg
  <2>2. QED
    BY <1>9, <2>1, EitEventCfgEntries
<1>10. CASE m = "EitNowCfg"
  <2>1. Tables[m] = EitNowCfg /\ Len(EitNowCfg) = 4
    BY <1>10 DEF Tables, EitNowCfg
  <2>2. QED
    BY <1>10, <2>1, EitNowCfgEntries
<1>11. CASE m = "EitNextCfg"
  <2>1. Tables[m] = EitNextCfg /\ Len(EitNextCfg) = 4
    BY <1>11 DEF Tables, EitNextCfg
  <2>2. QED
    BY <1>11, <2>1, EitNextCfgEntries
<1>12. CASE m = "ModulatorCfg"
  <2>1. Tables[m] = ModulatorCfg /\ Len(ModulatorCfg) = 8
    BY <1>12 DEF Tables, ModulatorCfg
  <2>2. QED
    BY <1>12, <2>1, ModulatorCfgEntries
<1>13. CASE m = "StreamCfg"
  <2>1. Tables[m] = StreamCfg /\ Len(StreamCfg) = 4
    BY <1>13 DEF Tables, StreamCfg
  <2>2. QED
    BY <1>13, <2>1, StreamCfgEntries
<1>14. CASE m = "NitCfg"
  <2>1. Tables[m] = NitCfg /\ Len(NitCfg) = 7
    BY <1>14 DEF Tables, NitCfg
  <2>2. QED
    BY <1>14, <2>1, NitCfgEntries
<1>15. CASE m = "EitCfg"
  <2>1. Tables[m] = EitCfg /\ Len(EitCfg) = 2
    BY <1>15 DEF Tables, EitCfg
  <2>2. QED
    BY <1>15, <2>1, EitCfgEntries
<1>16. CASE m = "UsbDevCfg"
  <2>1. Tables[m] = UsbDevCfg /\ Len(UsbDevCfg) = 3
    BY <1>16 DEF Tables, UsbDevCfg
  <2>2. QED
    BY <1>16, <2>1, UsbDevCfgEntries
<1>17. CASE m = "RecordTsCfg"
  <2>1. Tables[m] = RecordTsCfg /\ Len(RecordTsCfg) = 2
    BY <1>17 DEF Tables, RecordTsCfg
  <2>2. QED
    BY <1>17, <2>1, RecordTsCfgEntries
<1>18. CASE m = "AdvancedCfg"
  <2>1. Tables[m] = AdvancedCfg /\ Len(AdvancedCfg) = 4
    BY <1>18 DEF Tables, AdvancedCfg
  <2>2. QED
    BY <1>18, <2>1, AdvancedCfgEntries
<1>19. CASE m = "PlayTsCfg"
  <2>1. Tables[m] = PlayTsCfg /\ Len(PlayTsCfg) = 2
    BY <1>19 DEF Tables, PlayTsCfg
  <2>2. QED
    BY <1>19, <2>1, PlayTsCfgEntries
<1>20. CASE m = "UsbDevStatus"
  <2>1. Tables[m] = UsbDevStatus /\ Len(UsbDevStatus) = 3
    BY <1>20 DEF Tables, UsbDevStatus
  <2>2. QED
    BY <1>20, <2>1, UsbDevStatusEntries
<1>21. CASE m = "SystemCfg"
  <2>1. Tables[m] = SystemCfg /\ Len(SystemCfg) = 4
    BY <1>21 DEF Tables, SystemCfg
  <2>2. QED
    BY <1>21, <2>1, SystemCfgEntries
<1>22. QED
  BY <1>1, <1>2, <1>3, <1>4, <1>5, <1>6, <1>7, <1>8, <1>9, <1>10, <1>11, <1>12, <1>13,
     <1>14, <1>15, <1>16, <1>17, <1>18, <1>19, <1>20, <1>21
     DEF Tables

\* What is behind the entries of a menu, and how many entries the navigation finds there.
LEMMA ItemsAre ==
  ASSUME NEW m \in Menus, NEW f \in {0, 2}
  PROVE  /\ Len(Items(m, f)) \in 1 .. 10
         /\ \A i \in 1 .. Len(Items(m, f)) : EntryOk(m, i, Items(m, f)[i])
         /\ MenuCount(m, f) \in 1 .. 10
         /\ m \notin Claimers => MenuCount(m, f) = Len(Items(m, f))
<1>1. /\ Len(Items(m, f)) \in 1 .. 10
      /\ \A i \in 1 .. Len(Items(m, f)) : EntryOk(m, i, Items(m, f)[i])
  <2>1. CASE m \in DOMAIN Tables
    <3>1. Items(m, f) = Tables[m]
      BY <2>1, MenuNames DEF Items, Tables
    <3>2. QED
      BY <2>1, <3>1, TablesAre
  <2>2. CASE m = "FileBrowse"
    <3>1. EntryOk(m, 1, Entry(NullSubs, NULL))
      BY <2>2 DEF EntryOk, Entry, NullSubs, NULL, Shows, Editors, Claimers, Choices
    <3>2. \A i \in 1 .. 2 : EntryOk(m, i, Entry(send_usb_read_message, NULL))
      BY <2>2 DEF EntryOk, Entry, send_usb_read_message, NULL, Shows, Editors, Claimers, Choices
    <3>3. CASE f = 0
      <4>1. Items(m, f) = << Entry(NullSubs, NULL) >>
        BY <2>2, <3>3 DEF Items, FileBrowse
      <4> HIDE DEF Items
      <4>2. QED
        BY <3>1, <4>1
    <3>4. CASE f = 2
      <4>1. Items(m, f) = [i \in 1 .. 2 |-> Entry(send_usb_read_message, NULL)]
        BY <2>2, <3>4 DEF Items, FileBrowse
      <4>2. Len(Items(m, f)) = 2
        BY <4>1
      <4>3. QED
        BY <3>2, <4>1, <4>2
    <3>5. QED
      BY <3>3, <3>4
  <2>3. CASE m \in DOMAIN Leaves
    <3>1. Items(m, f) = << Entry(NullSubs, NULL) >>
      BY <2>3, MenuNames DEF Items
    <3>2. EntryOk(m, 1, Entry(NullSubs, NULL))
      <4>1. m \notin Shows /\ m # "MainMenu"
        BY <2>3, MenuNames DEF Shows, Tables
      <4>2. QED
        BY <4>1, MenuNames
           DEF EntryOk, Entry, NullSubs, NULL, Shows, Editors, Claimers, Choices
    <3>3. QED
      BY <3>1, <3>2
  <2>4. QED
    BY <2>1, <2>2, <2>3, MenuNames
<1>2. m \notin Claimers => MenuCount(m, f) = Len(Items(m, f))
  BY DEF MenuCount, Claimers
<1>3. m \in Claimers => MenuCount(m, f) \in {2, 10}
  BY DEF MenuCount, Claimers
<1>4. MenuCount(m, f) \in 1 .. 10
  <2>1. CASE m \in Claimers
    BY <1>3, <2>1
  <2>2. CASE m \notin Claimers
    BY <1>1, <1>2, <2>2
  <2>3. QED
    BY <2>1, <2>2
<1>5. QED
  BY <1>1, <1>2, <1>4

\* The menus that claim more than they have hold one entry.
LEMMA ClaimersAre ==
  ASSUME NEW f
  PROVE  /\ Claimers \subseteq DOMAIN Leaves
         /\ \A m \in DOMAIN Leaves : Len(Items(m, f)) = 1
         /\ MenuCount("AudioFormatCfg", f) = 2 /\ MenuCount("AudioPidCfg", f) = 10
<1>1. Claimers \subseteq DOMAIN Leaves
  BY MenuNames DEF Groups, Claimers, EncoderLeaves, EventLeaves
<1>2. \A m \in DOMAIN Leaves : Len(Items(m, f)) = 1
  BY MenuNames DEF Items
<1>3. QED
  BY <1>1, <1>2 DEF MenuCount

\* How deep the tables lie.
Layer(m) ==
  IF m = "MainMenu" THEN 0
  ELSE IF m \in {"sysStatus", "EncoderCfg", "ModulatorCfg", "StreamCfg", "UsbDevCfg",
                  "SystemCfg"} THEN 1
  ELSE IF m \in {"Status", "EncoderStatus", "VideoCfg", "AudioCfg", "ProgInfoCfg",
                  "NitCfg", "EitCfg", "RecordTsCfg", "PlayTsCfg", "UsbDevStatus"} THEN 2
  ELSE IF m \in {"EitEventCfg", "AdvancedCfg"} THEN 3
  ELSE 4

Above(m) == IF m = "FileBrowse" THEN "PlayTsCfg" ELSE ParentMenus(m, 1)

\* The parent of every menu but the main menu has a table.
LEMMA ParentsHaveTables ==
  /\ \A m \in Menus : m # "MainMenu" => Above(m) \in DOMAIN Tables
  /\ Above("MainMenu") = NULL
  /\ \A m \in DOMAIN Tables : m # "MainMenu" => Layer(m) = Layer(Above(m)) + 1
<1>1. \A m \in DOMAIN Tables : Above(m) = TableParents[m]
  BY MenuNames, ParentsAre DEF Above, Tables
<1>2. \A m \in DOMAIN Tables : /\ m # "MainMenu" => TableParents[m] \in DOMAIN Tables
                               /\ m # "MainMenu" => Layer(m) = Layer(TableParents[m]) + 1
                               /\ m = "MainMenu" => TableParents[m] = NULL
  BY DEF TableParents, Layer, Tables
<1>3. \A m \in DOMAIN Leaves : Above(m) = Leaves[m]
  BY MenuNames, ParentsAre DEF Above
<1>4. \A m \in DOMAIN EncoderLeaves : Leaves[m] \in DOMAIN Tables
  BY LeafParents DEF EncoderLeaves, Tables
<1>5. \A m \in DOMAIN NitLeaves : Leaves[m] \in DOMAIN Tables
  BY LeafParents DEF NitLeaves, Tables
<1>6. \A m \in DOMAIN OptionLeaves : Leaves[m] \in DOMAIN Tables
  BY LeafParents DEF OptionLeaves, Tables
<1>7. \A m \in DOMAIN EventLeaves : Leaves[m] \in DOMAIN Tables
  BY LeafParents DEF EventLeaves, Tables
<1>8. \A m \in DOMAIN RadioLeaves : Leaves[m] \in DOMAIN Tables
  BY LeafParents DEF RadioLeaves, Tables
<1>9. \A m \in DOMAIN SystemLeaves : Leaves[m] \in DOMAIN Tables
  BY LeafParents DEF SystemLeaves, Tables
<1>10. \A m \in DOMAIN LockLeaf : Leaves[m] \in DOMAIN Tables
  BY LeafParents DEF LockLeaf, Tables
<1>11. \A m \in DOMAIN Leaves : Leaves[m] \in DOMAIN Tables
  BY MenuNames, <1>4, <1>5, <1>6, <1>7, <1>8, <1>9, <1>10 DEF Groups
<1>12. "PlayTsCfg" \in DOMAIN Tables /\ Above("FileBrowse") = "PlayTsCfg" /\ "MainMenu" \in DOMAIN Tables
  BY DEF Tables, Above
<1>13. \A m \in Menus : m # "MainMenu" => Above(m) \in DOMAIN Tables
  <2>1. \A m \in Menus : m \in DOMAIN Tables \/ m \in DOMAIN Leaves \/ m = "FileBrowse"
    BY DEF Menus
  <2>2. QED
    BY <1>1, <1>2, <1>3, <1>11, <1>12, <2>1
<1>14. Above("MainMenu") = NULL
  BY <1>1, <1>2, <1>12
<1>15. \A m \in DOMAIN Tables : m # "MainMenu" => Layer(m) = Layer(Above(m)) + 1
  BY <1>1, <1>2
<1>16. QED
  BY <1>13, <1>14, <1>15

\* Depth is what its definition says, for the chain of parents ends at the main menu.
LEMMA DepthUnfolds ==
  Depth = [m \in Menus |-> IF Above(m) = NULL THEN 0 ELSE Depth[Above(m)] + 1]
<1> DEFINE D == [m \in Menus |-> IF m \in DOMAIN Tables THEN Layer(m) ELSE Layer(Above(m)) + 1]
           Is(f) == f = [m \in Menus |-> IF Above(m) = NULL THEN 0 ELSE f[Above(m)] + 1]
<1>1. \A m \in Menus : D[m] = IF Above(m) = NULL THEN 0 ELSE D[Above(m)] + 1
  <2> SUFFICES ASSUME NEW m \in Menus
               PROVE  D[m] = IF Above(m) = NULL THEN 0 ELSE D[Above(m)] + 1
    OBVIOUS
  <2>1. CASE m = "MainMenu"
    <3>1. m \in DOMAIN Tables
      BY <2>1 DEF Tables
    <3>2. QED
      BY <2>1, <3>1, ParentsHaveTables DEF Layer
  <2>2. CASE m # "MainMenu"
    <3>1. Above(m) \in DOMAIN Tables /\ Above(m) \in Menus /\ Above(m) # NULL
      BY <2>2, ParentsHaveTables, MenuNames
    <3>2. D[Above(m)] = Layer(Above(m))
      BY <3>1
    <3>3. QED
      BY <2>2, <3>1, <3>2, ParentsHaveTables
  <2>3. QED
    BY <2>1, <2>2
<1>2. Is(D)
  BY <1>1
<1>3. \A f : Is(f) <=> f = [m \in Menus |->
                           LET parent == IF m = "FileBrowse" THEN "PlayTsCfg" ELSE ParentMenus(m, 1)
                           IN IF parent = NULL THEN 0 ELSE f[parent] + 1]
  BY DEF Above
<1> HIDE DEF D, Is
<1>4. Depth = CHOOSE f : f = [m \in Menus |->
                           LET parent == IF m = "FileBrowse" THEN "PlayTsCfg" ELSE ParentMenus(m, 1)
                           IN IF parent = NULL THEN 0 ELSE f[parent] + 1]
  BY DEF Depth
<1>5. Is(Depth)
  BY <1>2, <1>3, <1>4
<1>6. QED
  BY <1>5 DEF Is

\* A menu that another opens lies one deeper than that, at most five below the main menu.
LEMMA DepthIs ==
  /\ "MainMenu" \in Menus /\ Depth["MainMenu"] = 0
  /\ \A m \in Menus : Depth[m] \in 0 .. 5
  /\ \A m \in Menus : m # "MainMenu" => ParentMenus(m, 2) \in Menus /\ Depth[m] = Depth[ParentMenus(m, 2)] + 1
<1>1. \A m \in Menus : Above(m) = ParentMenus(m, 2)
  BY MenuNames, ParentsAre DEF Above, ParentMenus
<1>2. "MainMenu" \in Menus /\ Depth["MainMenu"] = 0
  <2>1. "MainMenu" \in Menus
    BY MenuNames DEF Tables
  <2>2. QED
    BY <2>1, DepthUnfolds, ParentsHaveTables
<1>3. \A m \in Menus : m # "MainMenu" => /\ Above(m) \in DOMAIN Tables /\ Above(m) \in Menus
                                        /\ Depth[m] = Depth[Above(m)] + 1
  BY DepthUnfolds, ParentsHaveTables, MenuNames
<1>4. \A m \in DOMAIN Tables : Layer(m) = 0 => m = "MainMenu"
  BY DEF Tables, Layer
<1>5. \A m \in DOMAIN Tables : Layer(m) \in 0 .. 4
  BY DEF Layer
<1>6. \A m \in DOMAIN Tables : m \in Menus
  BY MenuNames
<1>7. \A m \in DOMAIN Tables : Layer(m) = 0 => Depth[m] = 0
  BY <1>2, <1>4
<1>8. \A m \in DOMAIN Tables : Layer(m) = 1 => Depth[m] = 1
  BY <1>3, <1>5, <1>6, <1>7, ParentsHaveTables DEF Layer
<1>9. \A m \in DOMAIN Tables : Layer(m) = 2 => Depth[m] = 2
  BY <1>3, <1>5, <1>6, <1>8, ParentsHaveTables DEF Layer
<1>10. \A m \in DOMAIN Tables : Layer(m) = 3 => Depth[m] = 3
  BY <1>3, <1>5, <1>6, <1>9, ParentsHaveTables DEF Layer
<1>11. \A m \in DOMAIN Tables : Layer(m) = 4 => Depth[m] = 4
  BY <1>3, <1>5, <1>6, <1>10, ParentsHaveTables DEF Layer
<1>12. \A m \in DOMAIN Tables : Depth[m] \in 0 .. 4
  BY <1>5, <1>7, <1>8, <1>9, <1>10, <1>11
<1>13. \A m \in Menus : Depth[m] \in 0 .. 5
  BY <1>2, <1>3, <1>12
<1>14. QED
  BY <1>1, <1>2, <1>3, <1>13

-----------------------------------------------------------------------------
(* The helpers of the navigation.                                          *)

\* The window of two lines holds the selection, and every place kept did when it was left.
Windowed(d) ==
  /\ d.UserChoose \in {d.DisplayStart, d.DisplayStart + 1}
  /\ \A n \in Levels : LET place == d.menu_return_arr[n]
                       IN place.option \in {place.displaystart, place.displaystart + 1}

\* The entry kept at a place of menu a opens menu b, and what is kept with it is the parent
\* that b names at that entry.
Leads(f, place, a, b) ==
  /\ place.option + 1 \in 1 .. Len(Items(a, f))
  /\ Items(a, f)[place.option + 1].child = b
  /\ place.menupoint = IF place.option + 1 \in 1 .. Len(Items(b, f))
                             \/ (b = "AudioPidCfg" /\ place.option <= 2)
                       THEN a ELSE OutOfTable

\* The menus from the main menu to the one shown, each opened at the place kept of it.
Trail(path, d) ==
  /\ path \in [Levels -> Menus]
  /\ path[0] = "MainMenu" /\ path[d.rtr_count] = d.MenuPoint
  /\ \A n \in Levels : n <= d.rtr_count => Depth[path[n]] = n
  /\ \A n \in Levels : n < d.rtr_count =>
       Leads(d.files, d.menu_return_arr[n], path[n], path[n + 1])

\* The place kept of the main menu is one of its entries.
Main(d) ==
  /\ d.menu_return_arr[0].option \in 0 .. 5
  /\ d.menu_return_arr[0].menupoint \in {NULL, "MainMenu", OutOfTable}
  /\ d.rtr_count = 0 => d.UserChoose \in 0 .. 5

NavOk(d) ==
  /\ d \in Navs /\ d.MenuPoint \in Menus
  /\ d.MenuPoint = "FileBrowse" => d.files = 2
  /\ Windowed(d) /\ Main(d) /\ \E path : Trail(path, d)

\* The last line drawn is the one that belongs to the window.
Shown(d) == d.DisplayPoint = ShowMenu(d).DisplayPoint

\* d and e differ in the last line drawn only.
Alike(d, e) ==
  /\ e.MenuPoint = d.MenuPoint /\ e.UserChoose = d.UserChoose /\ e.DisplayStart = d.DisplayStart
  /\ e.rtr_count = d.rtr_count /\ e.files = d.files /\ e.menu_return_arr = d.menu_return_arr

\* MenuCount of what is shown outside the menus.
LEMMA CountIs ==
  ASSUME NEW m \in Menus \cup {OutOfTable}, NEW f \in {0, 2}
  PROVE  MenuCount(m, f) \in 1 .. 10
<1>1. CASE m \in Menus
  BY <1>1, ItemsAre
<1>2. CASE m = OutOfTable
  <2>1. OutOfTable \notin DOMAIN Tables /\ OutOfTable # "FileBrowse"
    BY MenuNames
  <2>2. Items(OutOfTable, f) = << Entry(NullSubs, NULL) >>
    BY <2>1 DEF Items, OutOfTable
  <2>3. OutOfTable # "AudioFormatCfg" /\ OutOfTable # "AudioPidCfg"
    BY DEF OutOfTable
  <2>4. QED
    BY <1>2, <2>2, <2>3 DEF MenuCount
<1>3. QED
  BY <1>1, <1>2

\* ShowMenu only draws.
LEMMA ShowMenuIs ==
  ASSUME NEW d \in Navs
  PROVE  ShowMenu(d) \in Navs /\ Alike(d, ShowMenu(d)) /\ Shown(ShowMenu(d))
<1> DEFINE max == MenuCount(d.MenuPoint, d.files)
           Line(i) == IF i + 1 = max /\ max >= 2 THEN 0
                      ELSE IF i < max THEN i + 1 ELSE IF i = max THEN 0 ELSE i
           p == Line(Line(d.DisplayStart))
<1>1. max \in 1 .. 10
  BY CountIs DEF Navs
<1>2. ShowMenu(d) = [d EXCEPT !.DisplayPoint = p]
  BY DEF ShowMenu
<1>3. p \in 0 .. 9
  <2>1. d.DisplayStart \in 0 .. 9
    BY DEF Navs
  <2> HIDE DEF max
  <2>2. \A i \in 0 .. 9 : Line(i) \in 0 .. 9
    BY <1>1
  <2>3. QED
    BY <2>1, <2>2
<1> HIDE DEF max, Line, p
<1>4. ShowMenu(d) \in Navs /\ Alike(d, ShowMenu(d)) /\ ShowMenu(d).DisplayPoint = p
  BY <1>2, <1>3 DEF Navs, Alike
<1>5. ShowMenu(ShowMenu(d)).DisplayPoint = p
  <2> DEFINE e == ShowMenu(d)
  <2>1. e \in Navs /\ e.MenuPoint = d.MenuPoint /\ e.files = d.files /\ e.DisplayStart = d.DisplayStart
    BY <1>4 DEF Alike
  <2> HIDE DEF e
  <2>2. ShowMenu(e).DisplayPoint = p
    BY <2>1 DEF ShowMenu, Navs, max, Line, p
  <2>3. QED
    BY <2>2 DEF e
<1>6. QED
  BY <1>4, <1>5 DEF Shown

\* What is drawn does not matter to the rest.
LEMMA AlikeOk ==
  ASSUME NEW d, NEW e \in Navs, Alike(d, e), NavOk(d)
  PROVE  NavOk(e)
<1>1. Windowed(e) /\ Main(e)
  BY DEF NavOk, Alike, Windowed, Main
<1>2. PICK path : Trail(path, d)
  BY DEF NavOk
<1>3. Trail(path, e)
  BY <1>2 DEF Alike, Trail
<1>4. QED
  BY <1>1, <1>3 DEF NavOk, Alike

\* The last line drawn is in the table if the first is.
LEMMA LastLine ==
  ASSUME NEW d, NavOk(d), Shown(d), InTable(d, d.DisplayStart)
  PROVE  InTable(d, d.DisplayPoint) \/ (d.MenuPoint = "AudioPidCfg" /\ d.DisplayPoint <= 2)
<1> DEFINE m == d.MenuPoint
           f == d.files
           max == MenuCount(m, f)
           size == Len(Items(m, f))
           Line(i) == IF i + 1 = max /\ max >= 2 THEN 0
                      ELSE IF i < max THEN i + 1 ELSE IF i = max THEN 0 ELSE i
<1>1. m \in Menus /\ f \in {0, 2} /\ d.DisplayStart \in 0 .. 9 /\ d \in Navs
  BY DEF NavOk, Navs
<1>2. d.DisplayPoint = Line(Line(d.DisplayStart))
  BY <1>1 DEF Shown, ShowMenu, Navs
<1>3. d.DisplayStart \in 0 .. (size - 1)
  BY DEF InTable, ItemsOf
<1>4. max \in 1 .. 10 /\ size \in 1 .. 10
  BY <1>1, ItemsAre
<1>5. d.DisplayPoint \in 0 .. (size - 1) \/ (m = "AudioPidCfg" /\ d.DisplayPoint <= 2)
  <2>1. m \notin Claimers => max = size
    BY <1>1, ItemsAre
  <2>2. m \in Claimers => size = 1
    BY ClaimersAre
  <2>3. m = "AudioFormatCfg" => max = 2
    BY ClaimersAre
  <2>4. m = "AudioPidCfg" => max = 10
    BY ClaimersAre
  <2>5. m \in Claimers => m = "AudioFormatCfg" \/ m = "AudioPidCfg"
    BY DEF Claimers
  <2> HIDE DEF m, max, size
  <2>6. CASE m \notin Claimers
    BY <1>2, <1>3, <1>4, <2>1, <2>6
  <2>7. CASE m = "AudioFormatCfg"
    BY <1>2, <1>3, <1>4, <2>2, <2>3, <2>7 DEF Claimers
  <2>8. CASE m = "AudioPidCfg"
    BY <1>2, <1>3, <1>4, <2>2, <2>4, <2>8 DEF Claimers
  <2>9. QED
    BY <2>5, <2>6, <2>7, <2>8
<1>6. QED
  BY <1>5 DEF InTable, ItemsOf

\* ParentMenus of an entry.
LEMMA ParentIs ==
  ASSUME NEW d, d.MenuPoint \in Menus, d.files \in {0, 2}, NEW i \in 0 .. 9
  PROVE  /\ Parent(d, i) \in {ParentMenus(d.MenuPoint, d.files), OutOfTable}
         /\ InTable(d, i) \/ (d.MenuPoint = "AudioPidCfg" /\ i <= 2)
              => Parent(d, i) = ParentMenus(d.MenuPoint, d.files)
         /\ ~InTable(d, i) /\ ~(d.MenuPoint = "AudioPidCfg" /\ i <= 2) => Parent(d, i) = OutOfTable
  BY DEF Parent

\* Where a menu lies does not depend on the stick, but for the list of recordings.
LEMMA ParentOf ==
  ASSUME NEW m \in Menus, NEW f \in {0, 2}, m = "FileBrowse" => f = 2
  PROVE  /\ ParentMenus(m, f) = ParentMenus(m, 2)
         /\ m = "MainMenu" => ParentMenus(m, f) = NULL
         /\ m # "MainMenu" => /\ ParentMenus(m, f) \in Menus /\ ParentMenus(m, f) # NULL
                              /\ ParentMenus(m, f) \in DOMAIN Tables
<1>1. ParentMenus(m, f) = ParentMenus(m, 2)
  BY DEF ParentMenus
<1>2. Above(m) = ParentMenus(m, 2)
  BY MenuNames, ParentsAre DEF Above, ParentMenus
<1>3. QED
  BY <1>1, <1>2, ParentsHaveTables, MenuNames

\* The menu shown lies as deep as the stack is high, and the place on its top leads to it.
LEMMA TrailTop ==
  ASSUME NEW d, NavOk(d), NEW path, Trail(path, d)
  PROVE  /\ d.rtr_count \in 0 .. 5 /\ d.rtr_count = Depth[d.MenuPoint]
         /\ d.rtr_count = 0 <=> d.MenuPoint = "MainMenu"
         /\ d.rtr_count > 0 =>
              /\ d.rtr_count - 1 \in Levels /\ path[d.rtr_count - 1] \in Menus
              /\ path[d.rtr_count - 1] \in DOMAIN Tables
              /\ ParentMenus(d.MenuPoint, d.files) = path[d.rtr_count - 1]
              /\ Leads(d.files, d.menu_return_arr[d.rtr_count - 1], path[d.rtr_count - 1], d.MenuPoint)
<1> DEFINE n == d.rtr_count
           m == d.MenuPoint
<1>1. n \in Levels /\ m \in Menus /\ d.files \in {0, 2} /\ (m = "FileBrowse" => d.files = 2)
  BY DEF NavOk, Navs
<1>2. Depth[m] = n
  <2>1. \A k \in Levels : k <= n => Depth[path[k]] = k
    BY DEF Trail
  <2>2. path[n] = m
    BY DEF Trail
  <2> HIDE DEF n, m
  <2>3. n <= n
    BY <1>1 DEF Levels
  <2>4. QED
    BY <1>1, <2>1, <2>2, <2>3
<1>3. n \in 0 .. 5
  BY <1>1, <1>2, DepthIs
<1>4. n = 0 <=> m = "MainMenu"
  <2>1. n = 0 => m = "MainMenu"
    BY DEF Trail
  <2>2. m = "MainMenu" => n = 0
    BY <1>2, DepthIs
  <2>3. QED
    BY <2>1, <2>2
<1>5. ASSUME n > 0
      PROVE  /\ n - 1 \in Levels /\ path[n - 1] \in Menus
             /\ path[n - 1] \in DOMAIN Tables
             /\ ParentMenus(m, d.files) = path[n - 1]
             /\ Leads(d.files, d.menu_return_arr[n - 1], path[n - 1], m)
  <2>1. n - 1 \in Levels /\ n - 1 < n /\ (n - 1) + 1 = n
    BY <1>3, <1>5 DEF Levels
  <2>2. path[n - 1] \in Menus
    BY <2>1 DEF Trail
  <2>3. Leads(d.files, d.menu_return_arr[n - 1], path[n - 1], m)
    <3> HIDE DEF n
    <3>1. \A k \in Levels : k < n => Leads(d.files, d.menu_return_arr[k], path[k], path[k + 1])
      BY DEF Trail, n
    <3>2. path[n] = m
      BY DEF Trail, n
    <3>3. Leads(d.files, d.menu_return_arr[n - 1], path[n - 1], path[(n - 1) + 1])
      BY <2>1, <3>1
    <3>4. QED
      BY <2>1, <3>2, <3>3
  <2>4. \E i \in 1 .. Len(Items(path[n - 1], d.files)) : Items(path[n - 1], d.files)[i].child = m
    BY <2>3 DEF Leads
  <2>5. ParentMenus(m, 2) = path[n - 1]
    <3>1. m # NULL
      BY <1>1, MenuNames
    <3>2. QED
      BY <1>1, <2>2, <2>4, <3>1, ItemsAre DEF EntryOk
  <2>6. ParentMenus(m, d.files) = ParentMenus(m, 2)
        /\ (m # "MainMenu" => ParentMenus(m, d.files) \in DOMAIN Tables)
    BY <1>1, ParentOf
  <2>7. QED
    BY <1>4, <1>5, <2>1, <2>2, <2>3, <2>5, <2>6
<1>6. QED
  BY <1>2, <1>3, <1>4, <1>5

\* What the entries of a menu that is open are.
LEMMA EntryIs ==
  ASSUME NEW d, NavOk(d), NEW i \in 0 .. 9, InTable(d, i)
  PROVE  EntryOk(d.MenuPoint, i + 1, ItemsOf(d)[i + 1])
<1>1. d.MenuPoint \in Menus /\ d.files \in {0, 2}
  BY DEF NavOk, Navs
<1>2. i + 1 \in 1 .. Len(Items(d.MenuPoint, d.files))
  <2>1. Len(Items(d.MenuPoint, d.files)) \in 1 .. 10
    BY <1>1, ItemsAre
  <2>2. QED
    BY <2>1 DEF InTable, ItemsOf
<1>3. QED
  BY <1>1, <1>2, ItemsAre DEF ItemsOf

\* set_rtr_arr keeps a place, esc_rtr_arr takes it up again.
LEMMA PlacesAre ==
  ASSUME NEW d \in Navs, NEW n \in Levels, NEW parent \in Menus \cup {NULL, OutOfTable}
  PROVE  LET e == set_rtr_arr(d, n, parent)
             b == esc_rtr_arr(d, n)
             arr == d.menu_return_arr
         IN /\ e \in Navs /\ e.MenuPoint = d.MenuPoint /\ e.UserChoose = d.UserChoose
            /\ e.DisplayStart = d.DisplayStart /\ e.rtr_count = d.rtr_count /\ e.files = d.files
            /\ e.menu_return_arr = [arr EXCEPT ![n] = [option |-> d.UserChoose,
                                      displaystart |-> d.DisplayStart, menupoint |-> parent]]
            /\ b \in Navs /\ b.MenuPoint = d.MenuPoint /\ b.UserChoose = arr[n].option
            /\ b.DisplayStart = arr[n].displaystart /\ b.rtr_count = d.rtr_count /\ b.files = d.files
            /\ b.menu_return_arr = arr
  BY DEF set_rtr_arr, esc_rtr_arr, Navs, Places

\* The window already holds a selection that was restored.
LEMMA ScrollStays ==
  ASSUME NEW d, d.UserChoose \in {d.DisplayStart, d.DisplayStart + 1}
  PROVE  Scroll(d) = d
  BY DEF Scroll

\* up and down stay in the menu.
LEMMA MoveOk ==
  ASSUME NEW d, NavOk(d), NEW c \in 0 .. 9, d.rtr_count = 0 => c \in 0 .. 5
  PROVE  LET e == ShowMenu(Scroll([d EXCEPT !.UserChoose = c]))
         IN /\ NavOk(e) /\ Shown(e) /\ e.MenuPoint = d.MenuPoint /\ e.UserChoose = c
            /\ e.rtr_count = d.rtr_count /\ e.files = d.files
<1> DEFINE a == [d EXCEPT !.UserChoose = c]
           e == Scroll(a)
           arr == d.menu_return_arr
<1>1. d \in Navs /\ d.MenuPoint \in Menus /\ d.files \in {0, 2} /\ d.rtr_count \in Levels
  BY DEF NavOk, Navs
<1>2. a \in Navs /\ a.MenuPoint = d.MenuPoint /\ a.UserChoose = c /\ a.DisplayStart = d.DisplayStart
      /\ a.rtr_count = d.rtr_count /\ a.files = d.files /\ a.menu_return_arr = arr
  BY <1>1 DEF Navs
<1>3. /\ e \in Navs /\ e.MenuPoint = d.MenuPoint /\ e.UserChoose = c
      /\ e.UserChoose \in {e.DisplayStart, e.DisplayStart + 1}
      /\ e.rtr_count = d.rtr_count /\ e.files = d.files
      /\ \/ e.menu_return_arr = arr
         \/ /\ d.rtr_count = 0
            /\ \E parent \in {NULL, OutOfTable} :
                 e.menu_return_arr = [arr EXCEPT ![0] =
                     [option |-> c, displaystart |-> c, menupoint |-> parent]]
  <2> HIDE DEF a
  <2>1. CASE a.UserChoose \in {a.DisplayStart, a.DisplayStart + 1}
    BY <1>2, <2>1 DEF Scroll
  <2>2. CASE a.UserChoose \notin {a.DisplayStart, a.DisplayStart + 1}
    <3> DEFINE b == [a EXCEPT !.DisplayStart = a.UserChoose]
    <3>1. b \in Navs /\ b.MenuPoint = d.MenuPoint /\ b.UserChoose = c /\ b.DisplayStart = c
          /\ b.rtr_count = d.rtr_count /\ b.files = d.files /\ b.menu_return_arr = arr
      BY <1>2 DEF Navs
    <3>2. CASE a.rtr_count > 0
      <4>1. e = b
        BY <2>2, <3>2 DEF Scroll
      <4>2. QED
        BY <3>1, <4>1
    <3>3. CASE ~(a.rtr_count > 0)
      <4> HIDE DEF b
      <4>1. e = set_rtr_arr(b, 0, Parent(b, b.DisplayStart))
        BY <2>2, <3>3 DEF Scroll, b
      <4>2. d.rtr_count = 0
        BY <1>1, <1>2, <3>3 DEF Levels
      <4>3. d.MenuPoint = "MainMenu"
        BY <4>2 DEF NavOk, Trail
      <4>4. Parent(b, b.DisplayStart) \in {NULL, OutOfTable}
        <5>1. ParentMenus("MainMenu", d.files) = NULL
          BY <1>1, <4>3, ParentOf
        <5>2. QED
          BY <1>1, <3>1, <4>3, <5>1, ParentIs
      <4>5. 0 \in Levels
        BY DEF Levels
      <4>6. QED
        BY <3>1, <4>1, <4>2, <4>4, <4>5, PlacesAre
    <3>4. QED
      BY <3>2, <3>3
  <2>3. QED
    BY <2>1, <2>2
<1> HIDE DEF a, e, arr
<1>4. Windowed(e)
  BY <1>3 DEF Windowed, NavOk, Navs, Levels, arr
<1>5. Main(e)
  BY <1>3 DEF Main, NavOk, Navs, Levels, arr
<1>6. PICK path : Trail(path, d)
  BY DEF NavOk
<1>7. Trail(path, e)
  BY <1>3, <1>6 DEF Trail, Levels, arr
<1>8. NavOk(e)
  BY <1>1, <1>3, <1>4, <1>5, <1>7 DEF NavOk
<1>9. ShowMenu(e) \in Navs /\ Alike(e, ShowMenu(e)) /\ Shown(ShowMenu(e))
  BY <1>3, ShowMenuIs
<1>10. NavOk(ShowMenu(e))
  BY <1>8, <1>9, AlikeOk
<1>11. QED
  BY <1>3, <1>9, <1>10 DEF Alike, a, e

\* Every table has an entry, and the main menu has six.
LEMMA InTables ==
  ASSUME NEW d, d.MenuPoint \in Menus, d.files \in {0, 2}
  PROVE  /\ InTable(d, 0)
         /\ \A i \in 0 .. 9, j \in 0 .. 9 : InTable(d, i) /\ j <= i => InTable(d, j)
         /\ d.MenuPoint = "MainMenu" => \A i \in 0 .. 5 : InTable(d, i)
<1>1. Len(ItemsOf(d)) \in 1 .. 10
  BY ItemsAre DEF ItemsOf
<1>2. d.MenuPoint = "MainMenu" => Len(ItemsOf(d)) = 6
  <2>1. "MainMenu" \in DOMAIN Tables /\ Tables["MainMenu"] = MainMenu /\ "MainMenu" # "FileBrowse"
    BY DEF Tables
  <2>2. Len(MainMenu) = 6
    BY DEF MainMenu
  <2>3. QED
    BY <2>1, <2>2 DEF ItemsOf, Items
<1> DEFINE size == Len(ItemsOf(d))
<1>3. \A i : InTable(d, i) <=> i \in 0 .. (size - 1)
  BY DEF InTable
<1>4. size \in 1 .. 10 /\ (d.MenuPoint = "MainMenu" => size = 6)
  BY <1>1, <1>2
<1> HIDE DEF size
<1>5. InTable(d, 0)
  BY <1>3, <1>4
<1>6. \A i \in 0 .. 9, j \in 0 .. 9 : InTable(d, i) /\ j <= i => InTable(d, j)
  BY <1>3, <1>4
<1>7. d.MenuPoint = "MainMenu" => \A i \in 0 .. 5 : InTable(d, i)
  BY <1>3, <1>4
<1>8. QED
  BY <1>5, <1>6, <1>7

\* enter behind the table.
LEMMA EnterOut ==
  ASSUME NEW d, NavOk(d), ~InTable(d, d.UserChoose)
  PROVE  ShowMenu(Scroll(EnterChild(d))).MenuPoint = OutOfTable
<1> DEFINE a == [d EXCEPT !.MenuPoint = OutOfTable]
<1>1. d \in Navs /\ d.UserChoose \in {d.DisplayStart, d.DisplayStart + 1}
  BY DEF NavOk, Windowed
<1>2. a \in Navs /\ a.MenuPoint = OutOfTable /\ a.UserChoose \in {a.DisplayStart, a.DisplayStart + 1}
  BY <1>1 DEF Navs
<1>3. EnterChild(d) = a
  BY DEF EnterChild
<1> HIDE DEF a
<1>4. Scroll(a) = a
  BY <1>2, ScrollStays
<1>5. QED
  BY <1>2, <1>3, <1>4, ShowMenuIs DEF Alike

\* enter_code opens the menu of an entry that has one, and pushes the place it was found at.
LEMMA EnterOk ==
  ASSUME NEW d, NavOk(d), InTable(d, d.UserChoose), Child(d) = "FileBrowse" => d.files = 2
  PROVE  LET e == ShowMenu(Scroll(EnterChild(d)))
         IN /\ NavOk(e) /\ Shown(e) /\ e.files = d.files
            /\ Child(d) = NULL => Alike(d, e)
            /\ Child(d) # NULL =>
                 /\ e.MenuPoint = Child(d) /\ e.MenuPoint # d.MenuPoint
                 /\ e.UserChoose = 0 /\ e.DisplayStart = 0 /\ InTable(e, 0)
                 /\ e.rtr_count = d.rtr_count + 1
<1>1. d \in Navs /\ d.MenuPoint \in Menus /\ d.files \in {0, 2} /\ d.rtr_count \in Levels
      /\ d.UserChoose \in 0 .. 9 /\ d.DisplayStart \in 0 .. 9
      /\ d.UserChoose \in {d.DisplayStart, d.DisplayStart + 1}
  BY DEF NavOk, Navs, Windowed
<1>2. CASE Child(d) = NULL
  <2>1. Scroll(EnterChild(d)) = d
    BY <1>1, <1>2, ScrollStays DEF EnterChild
  <2>2. ShowMenu(d) \in Navs /\ Alike(d, ShowMenu(d)) /\ Shown(ShowMenu(d))
    BY <1>1, ShowMenuIs
  <2>3. NavOk(ShowMenu(d))
    BY <2>2, AlikeOk
  <2>4. QED
    BY <1>2, <2>1, <2>2, <2>3 DEF Alike
<1>3. CASE Child(d) # NULL
  <2> DEFINE c == Child(d)
             n == d.rtr_count
             arr == d.menu_return_arr
             child == [d EXCEPT !.MenuPoint = c]
             parent == Parent(child, child.UserChoose)
             kept == set_rtr_arr(child, n, parent)
             e == [kept EXCEPT !.rtr_count = n + 1, !.UserChoose = 0, !.DisplayStart = 0]
  <2>1. c \in Menus \ {"MainMenu"} /\ ParentMenus(c, 2) = d.MenuPoint
    BY <1>1, <1>3, EntryIs DEF EntryOk, Child
  <2>2. PICK path : Trail(path, d)
    BY DEF NavOk
  <2>3. n = Depth[d.MenuPoint]
    BY <2>2, TrailTop
  <2>4. Depth[c] = n + 1 /\ n + 1 \in 0 .. 5
    BY <2>1, <2>3, DepthIs
  <2>5. ParentMenus(c, d.files) = d.MenuPoint
    BY <1>1, <2>1, ParentOf
  <2>6. child \in Navs /\ child.MenuPoint = c /\ child.files = d.files /\ child.UserChoose = d.UserChoose
        /\ child.DisplayStart = d.DisplayStart /\ child.rtr_count = n /\ child.menu_return_arr = arr
    BY <1>1, <2>1 DEF Navs
  <2>7. EnterChild(d) = e
    <3>1. child.rtr_count = n
      BY <2>6
    <3>2. EnterChild(d) = [set_rtr_arr(child, d.rtr_count, Parent(child, child.UserChoose))
                             EXCEPT !.rtr_count = @ + 1, !.UserChoose = 0, !.DisplayStart = 0]
      BY <1>3, <2>6 DEF EnterChild
    <3>3. kept.rtr_count = n
      BY <2>6 DEF set_rtr_arr, Navs
    <3>4. QED
      BY <3>2, <3>3
  <2>8. parent = IF d.UserChoose + 1 \in 1 .. Len(Items(c, d.files))
                       \/ (c = "AudioPidCfg" /\ d.UserChoose <= 2)
                 THEN d.MenuPoint ELSE OutOfTable
    <3> HIDE DEF child, c
    <3>1. InTable(child, child.UserChoose) <=> d.UserChoose + 1 \in 1 .. Len(Items(c, d.files))
      <4>1. Len(Items(c, d.files)) \in 1 .. 10
        BY <1>1, <2>1, ItemsAre
      <4>2. QED
        BY <1>1, <2>6, <4>1 DEF InTable, ItemsOf
    <3>2. QED
      BY <1>1, <2>1, <2>5, <2>6, <3>1 DEF Parent
  <2> HIDE DEF child
  <2>9. parent \in Menus \cup {NULL, OutOfTable}
    BY <1>1, <2>8
  <2> HIDE DEF parent
  <2>10. kept \in Navs /\ kept.MenuPoint = c /\ kept.files = d.files
         /\ kept.menu_return_arr = [arr EXCEPT ![n] = [option |-> d.UserChoose,
                                      displaystart |-> d.DisplayStart, menupoint |-> parent]]
    BY <1>1, <2>6, <2>9, PlacesAre
  <2> HIDE DEF kept, c
  <2>11. e \in Navs /\ e.MenuPoint = c /\ e.files = d.files /\ e.UserChoose = 0 /\ e.DisplayStart = 0
         /\ e.rtr_count = n + 1 /\ e.menu_return_arr = kept.menu_return_arr
    <3>1. 0 \in 0 .. 9 /\ n + 1 \in Levels
      BY <2>4 DEF Levels
    <3> HIDE DEF n
    <3>2. QED
      BY <2>10, <3>1 DEF Navs
  <2> HIDE DEF e
  <2>12. arr \in [Levels -> Places] /\ n \in Levels
    BY <1>1 DEF Navs
  <2>13. Windowed(e)
    BY <1>1, <2>10, <2>11, <2>12 DEF Windowed, NavOk
  <2>14. Main(e)
    <3>1. n = 0 => d.UserChoose \in 0 .. 5 /\ d.MenuPoint = "MainMenu"
      BY DEF NavOk, Main, Trail
    <3>2. n = 0 => parent \in {NULL, "MainMenu", OutOfTable}
      BY <2>8, <3>1
    <3>3. n # 0 => e.menu_return_arr[0] = arr[0]
      BY <2>10, <2>11, <2>12 DEF Levels
    <3>4. n = 0 => e.menu_return_arr[0].option = d.UserChoose /\ e.menu_return_arr[0].menupoint = parent
      BY <2>10, <2>11, <2>12 DEF Levels
    <3>5. e.rtr_count # 0
      BY <1>1, <2>11 DEF Levels
    <3>6. QED
      BY <3>1, <3>2, <3>3, <3>4, <3>5 DEF Main, NavOk
  <2>15. Trail([path EXCEPT ![n + 1] = c], e)
    <3> DEFINE p == [path EXCEPT ![n + 1] = c]
    <3>1. path \in [Levels -> Menus] /\ path[0] = "MainMenu" /\ path[n] = d.MenuPoint
      BY <2>2 DEF Trail
    <3>2. n + 1 \in Levels /\ n \in 0 .. 4
      BY <1>1, <2>4 DEF Levels
    <3>3. p \in [Levels -> Menus] /\ p[n + 1] = c /\ p[n] = d.MenuPoint /\ p[0] = "MainMenu"
          /\ \A k \in Levels : k <= n => p[k] = path[k]
      BY <2>1, <3>1, <3>2 DEF Levels, c
    <3> HIDE DEF p
    <3>4. \A k \in Levels : k <= n + 1 => Depth[p[k]] = k
      <4> SUFFICES ASSUME NEW k \in Levels, k <= n + 1 PROVE Depth[p[k]] = k
        OBVIOUS
      <4>1. CASE k = n + 1
        BY <2>4, <3>3, <4>1 DEF c
      <4>2. CASE k # n + 1
        <5>1. k <= n
          BY <3>2, <4>2 DEF Levels
        <5>2. QED
          BY <2>2, <3>3, <5>1 DEF Trail
      <4>3. QED
        BY <4>1, <4>2
    <3>5. \A k \in Levels : k < n + 1 => Leads(e.files, e.menu_return_arr[k], p[k], p[k + 1])
      <4> SUFFICES ASSUME NEW k \in Levels, k < n + 1
                   PROVE  Leads(e.files, e.menu_return_arr[k], p[k], p[k + 1])
        OBVIOUS
      <4>1. CASE k = n
        <5>1. e.menu_return_arr[n] = [option |-> d.UserChoose, displaystart |-> d.DisplayStart,
                                      menupoint |-> parent]
          BY <2>10, <2>11, <2>12
        <5>2. d.UserChoose + 1 \in 1 .. Len(Items(d.MenuPoint, d.files))
              /\ Items(d.MenuPoint, d.files)[d.UserChoose + 1].child = c
          <6>1. Len(Items(d.MenuPoint, d.files)) \in 1 .. 10
            BY <1>1, ItemsAre
          <6>2. QED
            BY <1>1, <6>1 DEF InTable, ItemsOf, Child, c
        <5>3. QED
          BY <2>8, <2>11, <3>3, <4>1, <5>1, <5>2 DEF Leads
      <4>2. CASE k # n
        <5>1. k < n /\ k <= n /\ k + 1 <= n /\ k + 1 \in Levels
          BY <3>2, <4>2 DEF Levels
        <5>2. Leads(d.files, arr[k], path[k], path[k + 1])
          BY <2>2, <5>1 DEF Trail
        <5>3. e.menu_return_arr[k] = arr[k]
          BY <2>10, <2>11, <2>12, <4>2
        <5>4. QED
          BY <2>11, <3>3, <5>1, <5>2, <5>3
      <4>3. QED
        BY <4>1, <4>2
    <3>6. QED
      BY <2>11, <3>3, <3>4, <3>5 DEF Trail, p
  <2>16. e.MenuPoint \in Menus /\ (e.MenuPoint = "FileBrowse" => e.files = 2)
    BY <2>1, <2>11 DEF c
  <2>17. NavOk(e)
    BY <2>11, <2>13, <2>14, <2>15, <2>16 DEF NavOk
  <2>18. Scroll(e) = e
    BY <2>11, ScrollStays
  <2> DEFINE s == ShowMenu(e)
  <2>19. s \in Navs /\ Alike(e, s) /\ Shown(s)
    BY <2>11, ShowMenuIs
  <2> HIDE DEF s
  <2>20. NavOk(s)
    BY <2>17, <2>19, AlikeOk
  <2>21. InTable(s, 0)
    BY <2>20, InTables DEF NavOk, Navs
  <2>22. c # d.MenuPoint
    BY <2>3, <2>4, <1>1 DEF c, Levels
  <2>23. NavOk(s) /\ Shown(s) /\ s.files = d.files
         /\ s.MenuPoint = c /\ s.UserChoose = 0 /\ s.DisplayStart = 0 /\ s.rtr_count = n + 1
    BY <2>11, <2>19, <2>20 DEF Alike
  <2>24. ShowMenu(Scroll(EnterChild(d))) = s
    BY <2>7, <2>18 DEF s
  <2> HIDE DEF n
  <2>25. QED
    BY <1>3, <2>21, <2>22, <2>23, <2>24 DEF c, n
<1>4. QED
  BY <1>2, <1>3

\* A selection of the menu above is taken up again: it is the entry that leads to the menu left.
LEMMA PopOk ==
  ASSUME NEW d, NavOk(d), d.rtr_count > 0,
         NEW e \in Navs, e.MenuPoint = ParentMenus(d.MenuPoint, d.files), e.files = d.files,
         e.rtr_count = d.rtr_count - 1,
         e.UserChoose = d.menu_return_arr[d.rtr_count - 1].option,
         e.DisplayStart = d.menu_return_arr[d.rtr_count - 1].displaystart,
         \/ e.menu_return_arr = d.menu_return_arr
         \/ \E parent \in Menus \cup {NULL, OutOfTable} :
              /\ d.rtr_count = 1 => parent \in {NULL, OutOfTable}
              /\ e.menu_return_arr =
                   [d.menu_return_arr EXCEPT ![d.rtr_count - 1] =
                      [option |-> e.UserChoose, displaystart |-> e.DisplayStart, menupoint |-> parent]]
  PROVE  /\ NavOk(e) /\ e.MenuPoint \in DOMAIN Tables
         /\ InTable(e, e.UserChoose) /\ Child(e) = d.MenuPoint
         /\ e.rtr_count = 0 => e.UserChoose = d.menu_return_arr[0].option
<1> DEFINE n == d.rtr_count - 1
           arr == d.menu_return_arr
<1>1. PICK path : Trail(path, d)
  BY DEF NavOk
<1>2. /\ n \in Levels /\ path[n] \in DOMAIN Tables /\ path[n] = e.MenuPoint /\ d.rtr_count \in 0 .. 5
      /\ Leads(d.files, arr[n], path[n], d.MenuPoint)
  BY <1>1, TrailTop
<1>3. d.MenuPoint \in Menus /\ d.files \in {0, 2} /\ arr \in [Levels -> Places] /\ d.rtr_count = n + 1
  BY <1>2 DEF NavOk, Navs
<1>4. e.MenuPoint \in Menus /\ e.MenuPoint # "FileBrowse"
  BY <1>2, MenuNames DEF Tables
<1>5. /\ \A k \in Levels : e.menu_return_arr[k].option = arr[k].option
      /\ \A k \in Levels : e.menu_return_arr[k].displaystart = arr[k].displaystart
      /\ \A k \in Levels : k < n => e.menu_return_arr[k] = arr[k]
      /\ \/ e.menu_return_arr[0].menupoint = arr[0].menupoint
         \/ e.menu_return_arr[0].menupoint \in {NULL, OutOfTable}
  <2>1. CASE e.menu_return_arr = arr
    BY <2>1
  <2>2. CASE e.menu_return_arr # arr
    <3>1. PICK parent \in Menus \cup {NULL, OutOfTable} :
             /\ d.rtr_count = 1 => parent \in {NULL, OutOfTable}
             /\ e.menu_return_arr =
                  [arr EXCEPT ![n] = [option |-> e.UserChoose, displaystart |-> e.DisplayStart,
                                      menupoint |-> parent]]
      BY <2>2
    <3>2. e.UserChoose = arr[n].option /\ e.DisplayStart = arr[n].displaystart
      OBVIOUS
    <3> HIDE DEF arr, n
    <3>3. 0 \in Levels /\ (n = 0 => d.rtr_count = 1)
      BY <1>3 DEF Levels
    <3>4. \A k \in Levels : k # n => e.menu_return_arr[k] = arr[k]
      BY <1>3, <3>1
    <3>5. e.menu_return_arr[n] = [option |-> e.UserChoose, displaystart |-> e.DisplayStart,
                                  menupoint |-> parent]
      BY <1>2, <1>3, <3>1
    <3>6. \A k \in Levels : k < n => k # n
      BY <1>2 DEF Levels
    <3>7. QED
      BY <3>1, <3>2, <3>3, <3>4, <3>5, <3>6
  <2>3. QED
    BY <2>1, <2>2
<1>6. e.UserChoose = arr[n].option /\ e.DisplayStart = arr[n].displaystart /\ e.rtr_count = n
  OBVIOUS
<1> HIDE DEF n, arr
<1>7. Windowed(e)
  BY <1>2, <1>5, <1>6 DEF Windowed, NavOk, arr
<1>8. Main(e)
  <2>1. arr[0].option \in 0 .. 5 /\ arr[0].menupoint \in {NULL, "MainMenu", OutOfTable} /\ 0 \in Levels
    BY DEF NavOk, Main, Levels, arr
  <2>2. QED
    BY <1>5, <1>6, <2>1 DEF Main
<1>9. Trail(path, e)
  <2>1. /\ path \in [Levels -> Menus] /\ path[0] = "MainMenu"
        /\ \A k \in Levels : k <= n + 1 => Depth[path[k]] = k
        /\ \A k \in Levels : k < n + 1 => Leads(d.files, arr[k], path[k], path[k + 1])
    BY <1>1, <1>3 DEF Trail, arr
  <2>2. \A k \in Levels : (k <= n => k <= n + 1) /\ (k < n => k < n + 1)
    BY <1>2 DEF Levels
  <2>3. path[n] = e.MenuPoint
    BY <1>2
  <2>4. \A k \in Levels : k < n => Leads(e.files, e.menu_return_arr[k], path[k], path[k + 1])
    BY <1>5, <2>1, <2>2
  <2>5. QED
    BY <1>6, <2>1, <2>2, <2>3, <2>4 DEF Trail
<1>10. NavOk(e)
  BY <1>4, <1>7, <1>8, <1>9 DEF NavOk
<1>11. InTable(e, e.UserChoose) /\ Child(e) = d.MenuPoint
  <2>1. /\ arr[n].option + 1 \in 1 .. Len(Items(path[n], d.files))
        /\ Items(path[n], d.files)[arr[n].option + 1].child = d.MenuPoint
    BY <1>2 DEF Leads
  <2>2. Len(Items(path[n], d.files)) \in 1 .. 10 /\ arr[n].option \in 0 .. 9
    BY <1>2, <1>3, <1>4, ItemsAre DEF Places
  <2>3. QED
    BY <1>2, <1>6, <2>1, <2>2 DEF InTable, Child, ItemsOf
<1>12. n = 0 => e.UserChoose = arr[0].option
  BY <1>6
<1>13. QED
  BY <1>2, <1>6, <1>10, <1>11, <1>12 DEF arr

\* What is drawn of a menu that is left or restored.
LEMMA DrawnOk ==
  ASSUME NEW d, NavOk(d)
  PROVE  LET e == ShowMenu(d) IN NavOk(e) /\ Shown(e) /\ Alike(d, e)
<1>1. ShowMenu(d) \in Navs /\ Alike(d, ShowMenu(d)) /\ Shown(ShowMenu(d))
  BY ShowMenuIs DEF NavOk
<1>2. QED
  BY <1>1, AlikeOk

\* Every way back pops once, if the stack is not empty.
LEMMA BackIs ==
  ASSUME NEW d \in Navs
  PROVE  Back(d) = [d EXCEPT !.rtr_count = IF d.rtr_count = 0 THEN 0 ELSE d.rtr_count - 1]
  BY DEF Back

\* current_menu takes up a place of the menu shown or of the one above, and stays.
LEMMA CurrentOk ==
  ASSUME NEW d, NavOk(d), NEW val \in {0, 1}
  PROVE  LET e == CurrentMenu(d, val)
             n == IF d.rtr_count >= val THEN d.rtr_count - val ELSE 0
         IN /\ NavOk(e) /\ Shown(e) /\ e.MenuPoint = d.MenuPoint /\ e.files = d.files
            /\ e.rtr_count = d.rtr_count /\ e.menu_return_arr = d.menu_return_arr
            /\ e.UserChoose = d.menu_return_arr[n].option
<1> DEFINE n == IF d.rtr_count >= val THEN d.rtr_count - val ELSE 0
           arr == d.menu_return_arr
           clamped == IF d.rtr_count >= val THEN d ELSE [d EXCEPT !.rtr_count = 0]
           b == esc_rtr_arr(d, n)
<1>1. d \in Navs /\ d.rtr_count \in Levels /\ arr \in [Levels -> Places]
  BY DEF NavOk, Navs
<1>2. n \in Levels /\ (d.rtr_count = 0 => n = 0)
  BY <1>1 DEF Levels
<1>3. clamped = d
  <2>1. CASE d.rtr_count >= val
    BY <2>1
  <2>2. CASE ~(d.rtr_count >= val)
    <3>1. d.rtr_count = 0
      BY <1>1, <2>2 DEF Levels
    <3>2. [d EXCEPT !.rtr_count = 0] = d
      BY <1>1, <3>1 DEF Navs
    <3>3. QED
      BY <3>2
  <2>3. QED
    BY <2>1, <2>2
<1>4. CurrentMenu(d, val) = ShowMenu(b)
  BY <1>3 DEF CurrentMenu
<1> HIDE DEF n, clamped
<1>5. /\ b \in Navs /\ b.MenuPoint = d.MenuPoint /\ b.UserChoose = arr[n].option
      /\ b.DisplayStart = arr[n].displaystart /\ b.rtr_count = d.rtr_count /\ b.files = d.files
      /\ b.menu_return_arr = arr
  <2>1. NULL \in Menus \cup {NULL, OutOfTable}
    OBVIOUS
  <2>2. QED
    BY <1>1, <1>2, <2>1, PlacesAre
<1> HIDE DEF b
<1>6. NavOk(b)
  <2>1. Windowed(b) /\ Main(b)
    BY <1>2, <1>5 DEF Windowed, Main, NavOk
  <2>2. PICK path : Trail(path, d)
    BY DEF NavOk
  <2>3. Trail(path, b)
    BY <1>5, <2>2 DEF Trail
  <2>4. QED
    BY <1>5, <2>1, <2>3 DEF NavOk
<1>7. QED
  BY <1>4, <1>5, <1>6, DrawnOk DEF Alike, n

\* The list of recordings is filled before the menu that shows it is opened.
LEMMA FilledOk ==
  ASSUME NEW d, NavOk(d)
  PROVE  LET e == [d EXCEPT !.files = 2]
         IN /\ NavOk(e) /\ e.MenuPoint = d.MenuPoint /\ e.UserChoose = d.UserChoose
            /\ e.DisplayStart = d.DisplayStart /\ e.rtr_count = d.rtr_count /\ e.files = 2
            /\ e.menu_return_arr = d.menu_return_arr
<1> DEFINE e == [d EXCEPT !.files = 2]
<1>1. /\ e \in Navs /\ e.MenuPoint = d.MenuPoint /\ e.UserChoose = d.UserChoose
      /\ e.DisplayStart = d.DisplayStart /\ e.rtr_count = d.rtr_count /\ e.files = 2
      /\ e.menu_return_arr = d.menu_return_arr
  BY DEF NavOk, Navs
<1>2. d \in Navs /\ d.MenuPoint \in Menus /\ d.rtr_count \in Levels /\ d.files \in {0, 2}
  BY DEF NavOk, Navs
<1> HIDE DEF e
<1>3. Windowed(e) /\ Main(e)
  BY <1>1 DEF Windowed, Main, NavOk
<1>4. PICK path : Trail(path, d)
  BY DEF NavOk
<1>5. CASE d.MenuPoint = "FileBrowse"
  <2>1. d.files = 2
    BY <1>5 DEF NavOk
  <2>2. Trail(path, e)
    BY <1>1, <1>4, <2>1 DEF Trail
  <2>3. QED
    BY <1>1, <1>2, <1>3, <2>2 DEF NavOk, e
<1>6. CASE d.MenuPoint # "FileBrowse"
  <2>1. \A n \in Levels : n <= d.rtr_count => path[n] # "FileBrowse"
    <3> SUFFICES ASSUME NEW n \in Levels, n <= d.rtr_count, path[n] = "FileBrowse" PROVE FALSE
      OBVIOUS
    <3>1. n < d.rtr_count
      BY <1>2, <1>4, <1>6 DEF Trail, Levels
    <3>2. path[n] \in Menus /\ path[n + 1] \in Menus /\ n + 1 \in Levels
      BY <1>2, <1>4, <3>1 DEF Trail, Levels
    <3>3. Leads(d.files, d.menu_return_arr[n], "FileBrowse", path[n + 1])
      BY <1>4, <3>1 DEF Trail
    <3>4. \E i \in 1 .. Len(Items("FileBrowse", d.files)) :
             Items("FileBrowse", d.files)[i].child = path[n + 1]
      BY <3>3 DEF Leads
    <3>5. ParentMenus(path[n + 1], 2) = "FileBrowse"
      <4>1. "FileBrowse" \in Menus /\ path[n + 1] # NULL
        BY <3>2, MenuNames
      <4>2. \A i \in 1 .. Len(Items("FileBrowse", d.files)) :
              EntryOk("FileBrowse", i, Items("FileBrowse", d.files)[i])
        BY <1>2, <4>1, ItemsAre
      <4>3. QED
        BY <3>4, <4>1, <4>2 DEF EntryOk
    <3>6. "FileBrowse" \notin DOMAIN Tables
      BY DEF Tables
    <3>7. QED
      BY <3>2, <3>5, <3>6, ParentOf, MenuNames
  <2>2. \A n \in Levels : n < d.rtr_count =>
          Leads(2, d.menu_return_arr[n], path[n], path[n + 1])
    <3> SUFFICES ASSUME NEW n \in Levels, n < d.rtr_count
                 PROVE  Leads(2, d.menu_return_arr[n], path[n], path[n + 1])
      OBVIOUS
    <3>1. n + 1 \in Levels /\ n <= d.rtr_count /\ n + 1 <= d.rtr_count
      BY <1>2 DEF Levels
    <3>2. path[n] # "FileBrowse" /\ path[n + 1] # "FileBrowse"
      BY <2>1, <3>1
    <3>3. Leads(d.files, d.menu_return_arr[n], path[n], path[n + 1])
      BY <1>4 DEF Trail
    <3>4. Items(path[n], d.files) = Items(path[n], 2) /\ Items(path[n + 1], d.files) = Items(path[n + 1], 2)
      BY <3>2 DEF Items
    <3>5. QED
      BY <3>3, <3>4 DEF Leads
  <2>3. Trail(path, e)
    BY <1>1, <1>4, <2>2 DEF Trail
  <2>4. QED
    BY <1>1, <1>2, <1>3, <2>3 DEF NavOk, e
<1>7. QED
  BY <1>5, <1>6

\* esc: out of the main menu there is no way; out of another the place above is taken up.
LEMMA EscOk ==
  ASSUME NEW d, NavOk(d)
  PROVE  LET e == ShowMenu(Scroll(EscMenu(d)))
         IN /\ e.MenuPoint = OutOfTable => ~InTable(d, d.DisplayStart)
            /\ e.MenuPoint # OutOfTable =>
                 /\ NavOk(e) /\ Shown(e) /\ e.MenuPoint \in DOMAIN Tables
                 /\ InTable(e, e.UserChoose)
                 /\ e.rtr_count < d.rtr_count => Child(e) = d.MenuPoint
<1> DEFINE parent == Parent(d, d.DisplayStart)
           out == [d EXCEPT !.MenuPoint = parent]
           back == Back(out)
           n == back.rtr_count
           place == esc_rtr_arr(back, n)
           arr == d.menu_return_arr
           e == ShowMenu(Scroll(EscMenu(d)))
<1>1. /\ d \in Navs /\ d.rtr_count \in Levels /\ arr \in [Levels -> Places]
      /\ d.MenuPoint \in Menus /\ d.files \in {0, 2} /\ d.DisplayStart \in 0 .. 9
      /\ d.UserChoose \in {d.DisplayStart, d.DisplayStart + 1}
      /\ d.MenuPoint = "FileBrowse" => d.files = 2
  BY DEF NavOk, Navs, Windowed
<1>2. parent \in {ParentMenus(d.MenuPoint, d.files), OutOfTable}
      /\ (InTable(d, d.DisplayStart) => parent = ParentMenus(d.MenuPoint, d.files))
  BY <1>1, ParentIs
<1>3. /\ d.MenuPoint = "MainMenu" => ParentMenus(d.MenuPoint, d.files) = NULL
      /\ d.MenuPoint # "MainMenu" => /\ ParentMenus(d.MenuPoint, d.files) \in DOMAIN Tables
                                     /\ ParentMenus(d.MenuPoint, d.files) \in Menus
                                     /\ ParentMenus(d.MenuPoint, d.files) # NULL
  BY <1>1, ParentOf
<1>4. /\ d.rtr_count = 0 <=> d.MenuPoint = "MainMenu"
      /\ d.rtr_count \in 0 .. 5
  <2>1. PICK path : Trail(path, d)
    BY DEF NavOk
  <2>2. QED
    BY <2>1, TrailTop
<1> HIDE DEF parent
<1>5. back = [d EXCEPT !.MenuPoint = parent, !.rtr_count = IF d.rtr_count = 0 THEN 0 ELSE d.rtr_count - 1]
  BY <1>1 DEF Back, Navs
<1> HIDE DEF back
<1>6. /\ back.MenuPoint = parent /\ back.UserChoose = d.UserChoose /\ back.DisplayStart = d.DisplayStart
      /\ back.files = d.files /\ back.menu_return_arr = arr
      /\ back.rtr_count = IF d.rtr_count = 0 THEN 0 ELSE d.rtr_count - 1
  BY <1>1, <1>5 DEF Navs
<1>7. n \in Levels /\ (d.rtr_count > 0 => n = d.rtr_count - 1)
  BY <1>4, <1>6 DEF Levels
<1>8. NULL # OutOfTable /\ "MainMenu" \in DOMAIN Tables /\ NULL \notin Menus /\ OutOfTable \notin Menus
  BY MenuNames DEF Tables
<1>9. CASE parent = OutOfTable
  <2>1. back \in Navs
    <3>1. 0 \in Levels /\ (IF d.rtr_count = 0 THEN 0 ELSE d.rtr_count - 1) \in Levels
      BY <1>4 DEF Levels
    <3>2. QED
      BY <1>1, <1>5, <1>9, <3>1 DEF Navs
  <2>2. EscMenu(d) = back
    BY <1>9 DEF EscMenu, parent, back
  <2>3. Scroll(back) = back
    BY <1>1, <1>6, ScrollStays
  <2>4. e.MenuPoint = OutOfTable
    BY <1>6, <1>9, <2>1, <2>2, <2>3, ShowMenuIs DEF Alike
  <2>5. ~InTable(d, d.DisplayStart)
    BY <1>2, <1>3, <1>8, <1>9
  <2>6. QED
    BY <2>4, <2>5
<1>10. CASE parent = NULL
  <2> DEFINE top == [Back(d) EXCEPT !.UserChoose = 0, !.DisplayStart = 0]
             s == set_rtr_arr(top, n, NULL)
  <2>1. d.MenuPoint = "MainMenu" /\ d.rtr_count = 0 /\ n = 0
    BY <1>2, <1>3, <1>4, <1>6, <1>8, <1>10
  <2>2. EscMenu(d) = s
    BY <1>8, <1>10 DEF EscMenu, parent, back
  <2>3. top \in Navs /\ top.MenuPoint = "MainMenu" /\ top.UserChoose = 0 /\ top.DisplayStart = 0
        /\ top.rtr_count = 0 /\ top.files = d.files /\ top.menu_return_arr = arr
    BY <1>1, <2>1 DEF Back, Navs, Levels
  <2> HIDE DEF top
  <2>4. /\ s \in Navs /\ s.MenuPoint = "MainMenu" /\ s.UserChoose = 0 /\ s.DisplayStart = 0
        /\ s.rtr_count = 0 /\ s.files = d.files
        /\ s.menu_return_arr = [arr EXCEPT ![0] = [option |-> 0, displaystart |-> 0, menupoint |-> NULL]]
    BY <1>7, <2>1, <2>3, PlacesAre
  <2> HIDE DEF s
  <2>5. 0 \in Levels
    BY DEF Levels
  <2>6. Windowed(s) /\ Main(s)
    BY <1>1, <2>4, <2>5 DEF Windowed, Main, NavOk
  <2>7. PICK path : Trail(path, d)
    BY DEF NavOk
  <2>8. Trail(path, s)
    BY <2>1, <2>4, <2>7 DEF Trail, Levels
  <2>9. "MainMenu" \in Menus /\ "MainMenu" # "FileBrowse"
    BY <1>1, <2>1
  <2>10. NavOk(s)
    BY <2>4, <2>6, <2>8, <2>9 DEF NavOk
  <2>11. Scroll(s) = s
    BY <2>4, ScrollStays
  <2>12. e = ShowMenu(s)
    BY <2>2, <2>11
  <2>13. NavOk(e) /\ Shown(e) /\ Alike(s, e)
    BY <2>10, <2>12, DrawnOk
  <2> HIDE DEF e
  <2>14. e.MenuPoint = "MainMenu" /\ e.UserChoose = 0 /\ e.rtr_count = 0
    BY <2>4, <2>13 DEF Alike
  <2>15. InTable(e, 0)
    BY <2>13, InTables DEF NavOk, Navs
  <2>16. e.MenuPoint # OutOfTable /\ ~(e.rtr_count < d.rtr_count)
    BY <1>8, <2>1, <2>9, <2>14
  <2>17. QED
    BY <1>8, <2>13, <2>14, <2>15, <2>16 DEF e
<1>11. CASE parent \notin {NULL, OutOfTable}
  <2> DEFINE above == Parent(back, back.DisplayStart)
             s == set_rtr_arr(place, n, above)
  <2>1. parent = ParentMenus(d.MenuPoint, d.files) /\ d.MenuPoint # "MainMenu" /\ d.rtr_count > 0
        /\ parent \in Menus /\ parent \in DOMAIN Tables
    BY <1>2, <1>3, <1>4, <1>11
  <2>2. EscMenu(d) = s
    BY <1>11 DEF EscMenu, parent, back
  <2>3. back \in Navs
    BY <1>1, <1>5, <1>7, <1>6, <2>1 DEF Navs
  <2>4. /\ place \in Navs /\ place.MenuPoint = parent /\ place.UserChoose = arr[n].option
        /\ place.DisplayStart = arr[n].displaystart /\ place.rtr_count = n /\ place.files = d.files
        /\ place.menu_return_arr = arr
    <3>1. NULL \in Menus \cup {NULL, OutOfTable}
      OBVIOUS
    <3>2. back.rtr_count = n
      OBVIOUS
    <3> HIDE DEF n, arr
    <3>3. place \in Navs /\ place.MenuPoint = back.MenuPoint
          /\ place.UserChoose = back.menu_return_arr[n].option
          /\ place.DisplayStart = back.menu_return_arr[n].displaystart /\ place.rtr_count = back.rtr_count
          /\ place.files = back.files /\ place.menu_return_arr = back.menu_return_arr
      BY <1>7, <2>3, <3>1, PlacesAre
    <3>4. QED
      BY <1>6, <3>2, <3>3
  <2> HIDE DEF place
  <2>5. above \in {ParentMenus(parent, d.files), OutOfTable}
    BY <1>1, <1>6, <2>1, ParentIs
  <2>6. above \in Menus \cup {NULL, OutOfTable} /\ (d.rtr_count = 1 => above \in {NULL, OutOfTable})
    <3>1. parent # "FileBrowse"
      BY <2>1 DEF Tables
    <3>2. /\ parent = "MainMenu" => ParentMenus(parent, d.files) = NULL
          /\ ParentMenus(parent, d.files) \in Menus \cup {NULL}
      BY <1>1, <2>1, <3>1, ParentOf
    <3>3. d.rtr_count = 1 => parent = "MainMenu"
      <4>1. PICK path : Trail(path, d)
        BY DEF NavOk
      <4>2. d.rtr_count = 1 => d.rtr_count - 1 = 0
        BY <1>4
      <4>3. QED
        BY <2>1, <4>1, <4>2, TrailTop DEF Trail
    <3>4. QED
      BY <2>5, <3>2, <3>3
  <2> HIDE DEF above
  <2>7. /\ s \in Navs /\ s.MenuPoint = parent /\ s.UserChoose = arr[n].option
        /\ s.DisplayStart = arr[n].displaystart /\ s.rtr_count = n /\ s.files = d.files
        /\ s.menu_return_arr = [arr EXCEPT ![n] = [option |-> s.UserChoose,
                                   displaystart |-> s.DisplayStart, menupoint |-> above]]
    <3> HIDE DEF n, arr
    <3>1. s \in Navs /\ s.MenuPoint = place.MenuPoint /\ s.UserChoose = place.UserChoose
          /\ s.DisplayStart = place.DisplayStart /\ s.rtr_count = place.rtr_count /\ s.files = place.files
          /\ s.menu_return_arr = [place.menu_return_arr EXCEPT ![n] = [option |-> place.UserChoose,
                                     displaystart |-> place.DisplayStart, menupoint |-> above]]
      BY <1>7, <2>4, <2>6, PlacesAre
    <3> HIDE DEF s
    <3>2. QED
      BY <2>4, <3>1
  <2> HIDE DEF s
  <2>8. n = d.rtr_count - 1
    BY <1>7, <2>1
  <2>9. NavOk(s) /\ s.MenuPoint \in DOMAIN Tables /\ InTable(s, s.UserChoose) /\ Child(s) = d.MenuPoint
    BY <2>1, <2>6, <2>7, <2>8, PopOk
  <2>10. Scroll(s) = s
    BY <2>9, ScrollStays DEF NavOk, Windowed
  <2>11. e = ShowMenu(s)
    BY <2>2, <2>10
  <2>12. NavOk(e) /\ Shown(e) /\ Alike(s, e)
    BY <2>9, <2>11, DrawnOk
  <2>13. InTable(e, e.UserChoose) /\ Child(e) = d.MenuPoint /\ e.MenuPoint = s.MenuPoint
    BY <2>9, <2>12 DEF Alike, InTable, Child, ItemsOf
  <2> HIDE DEF e
  <2>14. e.MenuPoint \in Menus
    BY <2>12 DEF NavOk
  <2>15. QED
    BY <1>8, <2>9, <2>12, <2>13, <2>14 DEF e
<1>12. QED
  BY <1>9, <1>10, <1>11

\* An editor is left for the menu above.
LEMMA LeaveOk ==
  ASSUME NEW d, NavOk(d), d.rtr_count > 0
  PROVE  LET e == LeaveEditor(d)
         IN /\ e.MenuPoint = OutOfTable => ~(Shown(d) /\ InTable(d, d.DisplayStart))
            /\ e.MenuPoint # OutOfTable =>
                 /\ NavOk(e) /\ Shown(e) /\ e.MenuPoint \in DOMAIN Tables
                 /\ InTable(e, e.UserChoose) /\ Child(e) = d.MenuPoint
<1> DEFINE parent == Parent(d, d.DisplayPoint)
           out == [d EXCEPT !.MenuPoint = parent]
           back == Back(out)
           n == back.rtr_count
           place == esc_rtr_arr(back, n)
           arr == d.menu_return_arr
           e == LeaveEditor(d)
<1>1. /\ d \in Navs /\ d.rtr_count \in Levels /\ arr \in [Levels -> Places]
      /\ d.MenuPoint \in Menus /\ d.files \in {0, 2} /\ d.DisplayPoint \in 0 .. 9
      /\ d.MenuPoint = "FileBrowse" => d.files = 2
  BY DEF NavOk, Navs
<1>2. /\ parent \in {ParentMenus(d.MenuPoint, d.files), OutOfTable}
      /\ Shown(d) /\ InTable(d, d.DisplayStart) => parent = ParentMenus(d.MenuPoint, d.files)
  BY <1>1, ParentIs, LastLine
<1>3. d.rtr_count \in 1 .. 5 /\ d.MenuPoint # "MainMenu"
  <2>1. PICK path : Trail(path, d)
    BY DEF NavOk
  <2>2. QED
    BY <2>1, TrailTop
<1>4. ParentMenus(d.MenuPoint, d.files) \in Menus /\ ParentMenus(d.MenuPoint, d.files) \in DOMAIN Tables
  BY <1>1, <1>3, ParentOf
<1>5. parent \in Menus \cup {OutOfTable} /\ NULL # OutOfTable /\ OutOfTable \notin Menus
  BY <1>2, <1>4, MenuNames
<1> HIDE DEF parent
<1>6. back = [d EXCEPT !.MenuPoint = parent, !.rtr_count = d.rtr_count - 1]
  <2>1. out \in Navs /\ out.rtr_count = d.rtr_count
    BY <1>1, <1>5 DEF Navs
  <2>2. back = [out EXCEPT !.rtr_count = IF out.rtr_count = 0 THEN 0 ELSE out.rtr_count - 1]
    BY <2>1, BackIs
  <2>3. back = [out EXCEPT !.rtr_count = d.rtr_count - 1]
    <3>1. (IF out.rtr_count = 0 THEN 0 ELSE out.rtr_count - 1) = d.rtr_count - 1
      BY <1>3, <2>1
    <3> HIDE DEF out, back
    <3>2. QED
      BY <2>2, <3>1
  <2>4. QED
    BY <1>1, <2>3 DEF Navs
<1> HIDE DEF back
<1>7. /\ back.MenuPoint = parent /\ back.UserChoose = d.UserChoose /\ back.DisplayStart = d.DisplayStart
      /\ back.files = d.files /\ back.menu_return_arr = arr /\ back.rtr_count = d.rtr_count - 1
  BY <1>1, <1>6 DEF Navs
<1>8. n \in Levels /\ n = d.rtr_count - 1
  BY <1>3, <1>7 DEF Levels
<1>9. back \in Navs
  BY <1>1, <1>5, <1>6, <1>7, <1>8 DEF Navs
<1>10. /\ place \in Navs /\ place.MenuPoint = parent /\ place.UserChoose = arr[n].option
       /\ place.DisplayStart = arr[n].displaystart /\ place.rtr_count = n /\ place.files = d.files
       /\ place.menu_return_arr = arr
  <2>1. NULL \in Menus \cup {NULL, OutOfTable} /\ back.rtr_count = n
    OBVIOUS
  <2> HIDE DEF n, arr
  <2>2. place \in Navs /\ place.MenuPoint = back.MenuPoint
        /\ place.UserChoose = back.menu_return_arr[n].option
        /\ place.DisplayStart = back.menu_return_arr[n].displaystart /\ place.rtr_count = back.rtr_count
        /\ place.files = back.files /\ place.menu_return_arr = back.menu_return_arr
    BY <1>8, <1>9, <2>1, PlacesAre
  <2>3. QED
    BY <1>7, <2>1, <2>2
<1> HIDE DEF place
<1>11. e = ShowMenu(place)
  BY DEF LeaveEditor, parent, back, place
<1>12. e \in Navs /\ Alike(place, e) /\ Shown(e)
  BY <1>10, <1>11, ShowMenuIs
<1>13. CASE parent = OutOfTable
  <2>1. e.MenuPoint = OutOfTable
    BY <1>10, <1>12, <1>13 DEF Alike
  <2>2. ~(Shown(d) /\ InTable(d, d.DisplayStart))
    BY <1>2, <1>4, <1>5, <1>13
  <2>3. QED
    BY <2>1, <2>2
<1>14. CASE parent # OutOfTable
  <2>1. parent = ParentMenus(d.MenuPoint, d.files)
    BY <1>2, <1>14
  <2>2. /\ NavOk(place) /\ place.MenuPoint \in DOMAIN Tables
        /\ InTable(place, place.UserChoose) /\ Child(place) = d.MenuPoint
    BY <1>8, <1>10, <2>1, PopOk
  <2>3. NavOk(e)
    BY <1>12, <2>2, AlikeOk
  <2> HIDE DEF e
  <2>4. InTable(e, e.UserChoose) /\ Child(e) = d.MenuPoint /\ e.MenuPoint = place.MenuPoint
    BY <1>12, <2>2 DEF Alike, InTable, Child, ItemsOf
  <2>5. e.MenuPoint # OutOfTable
    BY <1>10, <1>14, <2>4
  <2>6. QED
    BY <1>12, <2>2, <2>3, <2>4, <2>5 DEF e
<1>15. QED
  BY <1>13, <1>14

\* The end of a playback, and a stick that is missing, lead to the menu above, if there is one.
LEMMA ParenOk ==
  ASSUME NEW d, NavOk(d)
  PROVE  LET e == ParenMenu(d)
         IN /\ e.MenuPoint # OutOfTable =>
                 /\ NavOk(e) /\ Shown(e) /\ e.MenuPoint \in DOMAIN Tables /\ e.files = d.files
                 /\ InTable(e, e.UserChoose)
                 /\ e.rtr_count = 0 => e.UserChoose = d.menu_return_arr[0].option
                                       /\ e.menu_return_arr = d.menu_return_arr
                 /\ d.rtr_count = 0 => e.MenuPoint = d.MenuPoint /\ e.rtr_count = 0
                 /\ d.rtr_count > 0 => /\ Child(e) = d.MenuPoint /\ e.rtr_count = d.rtr_count - 1
                                       /\ e.MenuPoint = ParentMenus(d.MenuPoint, d.files)
            /\ d.MenuPoint \in {"RecordTsCfg", "PlayTsCfg"} => e.MenuPoint # OutOfTable
            /\ e.MenuPoint \in Menus \cup {OutOfTable}
<1> DEFINE back == Back(d)
           n == back.rtr_count
           place == esc_rtr_arr(back, n)
           arr == d.menu_return_arr
           menu == arr[n].menupoint
           s == IF menu = NULL THEN place ELSE [place EXCEPT !.MenuPoint = menu]
           e == ParenMenu(d)
<1>1. /\ d \in Navs /\ d.rtr_count \in Levels /\ arr \in [Levels -> Places]
      /\ d.MenuPoint \in Menus /\ d.files \in {0, 2}
      /\ d.MenuPoint = "FileBrowse" => d.files = 2
  BY DEF NavOk, Navs
<1>2. PICK path : Trail(path, d)
  BY DEF NavOk
<1>3. d.rtr_count \in 0 .. 5 /\ (d.rtr_count = 0 <=> d.MenuPoint = "MainMenu")
  BY <1>2, TrailTop
<1>4. n \in Levels /\ n = IF d.rtr_count = 0 THEN 0 ELSE d.rtr_count - 1
  BY <1>1, <1>3 DEF Back, Navs, Levels
<1>5. /\ back \in Navs /\ back.MenuPoint = d.MenuPoint /\ back.UserChoose = d.UserChoose
      /\ back.DisplayStart = d.DisplayStart /\ back.files = d.files /\ back.menu_return_arr = arr
  BY <1>1, <1>4, BackIs DEF Navs
<1>6. /\ place \in Navs /\ place.MenuPoint = d.MenuPoint /\ place.UserChoose = arr[n].option
      /\ place.DisplayStart = arr[n].displaystart /\ place.rtr_count = n /\ place.files = d.files
      /\ place.menu_return_arr = arr
  <2>1. NULL \in Menus \cup {NULL, OutOfTable} /\ back.rtr_count = n
    OBVIOUS
  <2> HIDE DEF n, arr, back
  <2>2. place \in Navs /\ place.MenuPoint = back.MenuPoint
        /\ place.UserChoose = back.menu_return_arr[n].option
        /\ place.DisplayStart = back.menu_return_arr[n].displaystart /\ place.rtr_count = back.rtr_count
        /\ place.files = back.files /\ place.menu_return_arr = back.menu_return_arr
    BY <1>4, <1>5, <2>1, PlacesAre
  <2>3. QED
    BY <1>5, <2>1, <2>2
<1>7. menu \in Menus \cup {NULL, OutOfTable}
  BY <1>1, <1>4 DEF Places
<1>8. e = ShowMenu(s)
  BY <1>5 DEF ParenMenu
<1> HIDE DEF back, place, n, menu
<1>9. /\ s \in Navs /\ s.MenuPoint = (IF menu = NULL THEN d.MenuPoint ELSE menu)
      /\ s.UserChoose = arr[n].option /\ s.DisplayStart = arr[n].displaystart /\ s.rtr_count = n
      /\ s.files = d.files /\ s.menu_return_arr = arr
  <2>1. CASE menu = NULL
    BY <1>6, <2>1
  <2>2. CASE menu # NULL
    BY <1>6, <1>7, <2>2 DEF Navs
  <2>3. QED
    BY <2>1, <2>2
<1> HIDE DEF s
<1>10. e \in Navs /\ Alike(s, e) /\ Shown(e)
  BY <1>8, <1>9, ShowMenuIs
<1> HIDE DEF e
<1>11. e.MenuPoint = s.MenuPoint /\ e.MenuPoint \in Menus \cup {OutOfTable}
  BY <1>1, <1>7, <1>9, <1>10 DEF Alike
<1>12. NULL \notin Menus /\ OutOfTable \notin Menus /\ NULL # OutOfTable
  BY MenuNames
<1>13. CASE d.rtr_count = 0
  <2>1. n = 0 /\ d.MenuPoint = "MainMenu"
    BY <1>3, <1>4, <1>13
  <2>2. menu \in {NULL, "MainMenu", OutOfTable} /\ arr[0].option \in 0 .. 5
    BY <2>1 DEF NavOk, Main, menu, n
  <2>3. s.MenuPoint # OutOfTable => s.MenuPoint = "MainMenu"
    BY <1>9, <2>1, <2>2
  <2>4. ASSUME s.MenuPoint = "MainMenu" PROVE NavOk(s)
    <3>1. Windowed(s) /\ Main(s)
      BY <1>4, <1>9, <2>1, <2>2 DEF Windowed, Main, NavOk
    <3>2. Trail(path, s)
      BY <1>2, <1>9, <1>13, <2>1, <2>4 DEF Trail
    <3>3. QED
      BY <1>1, <1>9, <2>1, <2>4, <3>1, <3>2 DEF NavOk
  <2>5. ASSUME e.MenuPoint # OutOfTable
        PROVE  /\ NavOk(e) /\ e.MenuPoint = "MainMenu" /\ e.files = d.files
               /\ e.UserChoose = arr[0].option /\ e.rtr_count = 0 /\ e.menu_return_arr = arr
    <3>1. s.MenuPoint = "MainMenu"
      BY <1>11, <2>3, <2>5
    <3>2. NavOk(e)
      BY <1>10, <2>4, <3>1, AlikeOk
    <3>3. QED
      BY <1>9, <1>10, <2>1, <3>1, <3>2 DEF Alike
  <2>6. ASSUME e.MenuPoint # OutOfTable PROVE InTable(e, e.UserChoose)
    BY <2>2, <2>5, <2>6, InTables DEF NavOk, Navs
  <2>7. "MainMenu" \in DOMAIN Tables /\ d.MenuPoint \notin {"RecordTsCfg", "PlayTsCfg"}
    BY <2>1 DEF Tables
  <2>8. QED
    BY <1>10, <1>11, <1>13, <2>1, <2>5, <2>6, <2>7 DEF e
<1>14. CASE d.rtr_count > 0
  <2>1. n = d.rtr_count - 1
    BY <1>4, <1>14
  <2>2. /\ path[n] \in Menus /\ path[n] = ParentMenus(d.MenuPoint, d.files)
        /\ Leads(d.files, arr[n], path[n], d.MenuPoint)
    BY <1>2, <1>14, <2>1, TrailTop
  <2>3. menu = IF arr[n].option + 1 \in 1 .. Len(Items(d.MenuPoint, d.files))
                  \/ (d.MenuPoint = "AudioPidCfg" /\ arr[n].option <= 2)
               THEN path[n] ELSE OutOfTable
    BY <2>2 DEF Leads, menu
  <2>4. menu # NULL
    BY <1>12, <2>2, <2>3
  <2>5. s.MenuPoint # OutOfTable => s.MenuPoint = ParentMenus(d.MenuPoint, d.files)
    BY <1>9, <2>2, <2>3, <2>4
  <2>6. ASSUME s.MenuPoint # OutOfTable
        PROVE  /\ NavOk(s) /\ s.MenuPoint \in DOMAIN Tables
               /\ InTable(s, s.UserChoose) /\ Child(s) = d.MenuPoint
               /\ s.rtr_count = 0 => s.UserChoose = arr[0].option
    BY <1>9, <1>14, <2>1, <2>5, <2>6, PopOk
  <2>7. ASSUME e.MenuPoint # OutOfTable
        PROVE  /\ NavOk(e) /\ e.MenuPoint \in DOMAIN Tables /\ e.files = d.files
               /\ InTable(e, e.UserChoose) /\ Child(e) = d.MenuPoint
               /\ e.rtr_count = d.rtr_count - 1 /\ e.MenuPoint = ParentMenus(d.MenuPoint, d.files)
               /\ e.rtr_count = 0 => e.UserChoose = arr[0].option
               /\ e.menu_return_arr = arr
    <3>1. s.MenuPoint # OutOfTable
      BY <1>11, <2>7
    <3>2. NavOk(e)
      BY <1>10, <2>6, <3>1, AlikeOk
    <3>3. InTable(e, e.UserChoose) /\ Child(e) = d.MenuPoint
      BY <1>10, <2>6, <3>1 DEF Alike, InTable, Child, ItemsOf
    <3>4. QED
      BY <1>9, <1>10, <1>11, <2>1, <2>5, <2>6, <3>1, <3>2, <3>3 DEF Alike
  <2>8. d.MenuPoint \in {"RecordTsCfg", "PlayTsCfg"} => e.MenuPoint # OutOfTable
    <3> SUFFICES ASSUME d.MenuPoint \in {"RecordTsCfg", "PlayTsCfg"} PROVE e.MenuPoint # OutOfTable
      OBVIOUS
    <3>1. arr[n].option + 1 \in 1 .. Len(Items(path[n], d.files))
          /\ Items(path[n], d.files)[arr[n].option + 1].child = d.MenuPoint
      BY <2>2 DEF Leads
    <3>2. arr[n].option + 1 <= 2
      BY <1>1, <2>2, <3>1, ItemsAre DEF EntryOk
    <3>3. Len(Items(d.MenuPoint, d.files)) = 2
      <4>1. /\ "RecordTsCfg" \in DOMAIN Tables /\ Tables["RecordTsCfg"] = RecordTsCfg
            /\ "PlayTsCfg" \in DOMAIN Tables /\ Tables["PlayTsCfg"] = PlayTsCfg
        BY DEF Tables
      <4>2. Len(RecordTsCfg) = 2 /\ Len(PlayTsCfg) = 2
        BY DEF RecordTsCfg, PlayTsCfg
      <4>3. QED
        BY <4>1, <4>2 DEF Items
    <3>4. arr[n].option \in 0 .. 9
      BY <1>1, <1>4 DEF Places
    <3>5. arr[n].option + 1 \in 1 .. Len(Items(d.MenuPoint, d.files))
      BY <3>2, <3>3, <3>4
    <3>6. QED
      BY <1>9, <1>11, <1>12, <2>2, <2>3, <2>4, <3>5
  <2>9. QED
    BY <1>10, <1>11, <1>14, <2>7, <2>8 DEF e
<1>15. d.rtr_count = 0 \/ d.rtr_count > 0
  BY <1>3
<1>16. QED
  BY <1>13, <1>14, <1>15 DEF e

-----------------------------------------------------------------------------
(* The inductive invariant.                                                *)

\* An editor is open in a menu that was entered, and no status page is shown with it.
EditorInv == editor # NoEditor => nav.rtr_count > 0 /\ signal # "normal"

\* The menus that claim too many entries are reached by opening their editor only.
ClaimInv == ~displaced /\ nav.MenuPoint \in Claimers => editor # NoEditor /\ nav.UserChoose = 0

\* Where a status page can be shown: current_menu and the end of a playback may show another
\* menu under it, but none that does more than open status pages.
NormInv ==
  signal = "normal" =>
    /\ nav.MenuPoint \in Shows \cup {"MainMenu"}
    /\ nav.MenuPoint = "MainMenu" =>
         nav.UserChoose = 0 /\ nav.menu_return_arr[0].option = 0 /\ displaced

\* Of the pages that count as shown, only the one selected has not been cut off.
PagesInv ==
  IF signal = "normal"
  THEN \A page \in count \ cut :
         InTable(nav, nav.UserChoose) /\ Subs(nav).kind = "page" /\ Subs(nav).of = page
  ELSE count \subseteq cut

Inv ==
  /\ TypeOK /\ OwnSelection /\ PagesReset
  /\ wild = "no" => NavOk(nav) /\ Shown(nav) /\ EditorInv /\ ClaimInv /\ NormInv /\ PagesInv

\* What EscReturns says of a step.
Returns ==
  wild' = "no" /\ nav'.rtr_count < nav.rtr_count
    => InTable(nav', nav'.UserChoose) /\ Child(nav') = nav.MenuPoint

\* What the invariant says while nothing is lost.
LEMMA Facts ==
  ASSUME Inv, wild = "no"
  PROVE  /\ NavOk(nav) /\ Shown(nav) /\ EditorInv /\ ClaimInv /\ NormInv /\ PagesInv
         /\ nav \in Navs /\ nav.MenuPoint \in Menus /\ nav.files \in {0, 2} /\ nav.rtr_count \in Levels
         /\ nav.UserChoose \in 0 .. 9 /\ nav.DisplayStart \in 0 .. 9
         /\ nav.UserChoose \in {nav.DisplayStart, nav.DisplayStart + 1}
         /\ nav.rtr_count = 0 <=> nav.MenuPoint = "MainMenu"
         /\ displaced \in BOOLEAN
<1>1. NavOk(nav) /\ Shown(nav) /\ EditorInv /\ ClaimInv /\ NormInv /\ PagesInv
  BY DEF Inv
<1>2. /\ nav \in Navs /\ nav.MenuPoint \in Menus /\ nav.files \in {0, 2} /\ nav.rtr_count \in Levels
      /\ nav.UserChoose \in 0 .. 9 /\ nav.DisplayStart \in 0 .. 9
      /\ nav.UserChoose \in {nav.DisplayStart, nav.DisplayStart + 1}
  BY <1>1 DEF NavOk, Navs, Windowed
<1>3. nav.rtr_count = 0 <=> nav.MenuPoint = "MainMenu"
  <2>1. PICK path : Trail(path, nav)
    BY <1>1 DEF NavOk
  <2>2. QED
    BY <1>1, <2>1, TrailTop
<1>4. displaced \in BOOLEAN
  BY DEF Inv, TypeOK
<1>5. QED
  BY <1>1, <1>2, <1>3, <1>4

\* Goto goes to a menu, or nothing is known any more.
LEMMA GotoIs ==
  ASSUME wild = "no", NEW e, Goto(e), e.MenuPoint # OutOfTable => NavOk(e)
  PROVE  /\ nav' \in Navs
         /\ \/ e.MenuPoint # OutOfTable /\ nav' = e /\ wild' = "no"
            \/ e.MenuPoint = OutOfTable /\ nav'.MenuPoint = OutOfTable /\ wild' = "menu"
<1>1. CASE e.MenuPoint # OutOfTable
  BY <1>1 DEF Goto, NavOk
<1>2. CASE e.MenuPoint = OutOfTable
  <2>1. Start \in Navs
    <3>1. "MainMenu" \in Menus
      BY DEF Menus, Tables
    <3>2. QED
      BY <3>1 DEF Start, Navs, Levels, Places
  <2>2. nav' = [Start EXCEPT !.MenuPoint = OutOfTable] /\ wild' = "menu"
    BY <1>2 DEF Goto
  <2>3. nav' \in Navs /\ nav'.MenuPoint = OutOfTable
    BY <2>1, <2>2 DEF Navs
  <2>4. QED
    BY <1>2, <2>2, <2>3
<1>3. QED
  BY <1>1, <1>2

\* up and down.
LEMMA MoveKeeps ==
  ASSUME Inv, wild = "no", editor = NoEditor, signal = "none",
         NEW c \in 0 .. 9, nav.rtr_count = 0 => c \in 0 .. 5,
         ~displaced => InTable(nav, c),
         Goto(ShowMenu(Scroll([nav EXCEPT !.UserChoose = c]))),
         UNCHANGED <<editor, affirmRecode, updownchoose, usb_wr_flag, signal, ending, count,
                     locked, stick, displaced, cut>>
  PROVE  Inv' /\ Returns
<1> DEFINE e == ShowMenu(Scroll([nav EXCEPT !.UserChoose = c]))
<1>1. NavOk(nav) /\ ClaimInv /\ PagesInv /\ displaced \in BOOLEAN /\ nav.MenuPoint \in Menus
      /\ nav.rtr_count \in Levels
  BY Facts
<1>2. /\ NavOk(e) /\ Shown(e) /\ e.MenuPoint = nav.MenuPoint /\ e.UserChoose = c
      /\ e.rtr_count = nav.rtr_count /\ e.files = nav.files
  BY <1>1, MoveOk
<1> HIDE DEF e
<1>3. e.MenuPoint # OutOfTable
  BY <1>1, <1>2, MenuNames
<1>4. Goto(e)
  BY DEF e
<1>5. nav' = e /\ wild' = "no" /\ nav' \in Navs
  BY <1>2, <1>3, <1>4, GotoIs
<1>6. ~displaced => InTable(e, e.UserChoose)
  BY <1>2 DEF InTable, ItemsOf
<1>7. e.UserChoose \in {e.DisplayStart, e.DisplayStart + 1}
  BY <1>2 DEF NavOk, Windowed
<1>8. OwnSelection'
  BY <1>5, <1>6, <1>7 DEF OwnSelection, stick
<1>9. TypeOK'
  BY <1>5 DEF Inv, TypeOK, stick
<1>10. PagesReset' /\ NormInv' /\ PagesInv' /\ EditorInv'
  BY <1>1 DEF PagesReset, NormInv, PagesInv, EditorInv
<1>11. ClaimInv'
  BY <1>1, <1>2, <1>5 DEF ClaimInv
<1>12. Returns
  BY <1>1, <1>2, <1>5 DEF Returns, Levels
<1>13. NavOk(nav') /\ Shown(nav')
  BY <1>2, <1>5
<1>14. QED
  BY <1>8, <1>9, <1>10, <1>11, <1>12, <1>13 DEF Inv

\* up: the entry above, or the last.
LEMMA UpKeeps ==
  ASSUME Inv, Up
  PROVE  Inv' /\ Returns
<1> DEFINE last == MenuCount(nav.MenuPoint, nav.files) - 1
           c == IF nav.UserChoose = 0 THEN last ELSE nav.UserChoose - 1
<1>1. wild = "no" /\ editor = NoEditor /\ signal = "none"
  BY DEF Up, Browsing, Heard
<1>2. /\ NavOk(nav) /\ ClaimInv /\ nav \in Navs /\ nav.MenuPoint \in Menus /\ nav.files \in {0, 2}
      /\ nav.UserChoose \in 0 .. 9
      /\ nav.rtr_count = 0 <=> nav.MenuPoint = "MainMenu"
  BY <1>1, Facts
<1>3. MenuCount(nav.MenuPoint, nav.files) \in 1 .. 10 /\ Len(ItemsOf(nav)) \in 1 .. 10
      /\ (nav.MenuPoint \notin Claimers => MenuCount(nav.MenuPoint, nav.files) = Len(ItemsOf(nav)))
  BY <1>2, ItemsAre DEF ItemsOf
<1>4. nav.rtr_count = 0 => Len(ItemsOf(nav)) = 6 /\ nav.MenuPoint \notin Claimers /\ nav.UserChoose \in 0 .. 5
  BY <1>2 DEF NavOk, Main, ItemsOf, Items, Tables, MainMenu, Claimers
<1>5. c \in 0 .. 9 /\ (nav.rtr_count = 0 => c \in 0 .. 5)
  <2>1. last \in 0 .. 9 /\ (nav.rtr_count = 0 => last = 5)
    <3> DEFINE max == MenuCount(nav.MenuPoint, nav.files)
    <3>1. max \in 1 .. 10 /\ (nav.rtr_count = 0 => max = 6)
      BY <1>3, <1>4
    <3>2. last = max - 1
      OBVIOUS
    <3> HIDE DEF max, last
    <3>3. QED
      BY <3>1, <3>2
  <2> HIDE DEF last
  <2>2. CASE nav.UserChoose = 0
    BY <2>1, <2>2
  <2>3. CASE nav.UserChoose # 0
    BY <1>2, <1>4, <2>3
  <2>4. QED
    BY <2>2, <2>3
<1>6. ~displaced => InTable(nav, c)
  <2>1. ~displaced => InTable(nav, nav.UserChoose) /\ nav.MenuPoint \notin Claimers
    BY <1>1, <1>2 DEF Inv, OwnSelection, ClaimInv
  <2>2. QED
    BY <1>2, <1>3, <2>1 DEF InTable
<1>7. [nav EXCEPT !.UserChoose = IF @ = 0 THEN last ELSE @ - 1] = [nav EXCEPT !.UserChoose = c]
  BY <1>2 DEF Navs
<1>8. Goto(ShowMenu(Scroll([nav EXCEPT !.UserChoose = IF @ = 0 THEN last ELSE @ - 1])))
      /\ UNCHANGED <<editor, affirmRecode, updownchoose, usb_wr_flag, signal, ending, count,
                     locked, stick, displaced, cut>>
  BY DEF Up
<1> HIDE DEF c, last
<1>9. Goto(ShowMenu(Scroll([nav EXCEPT !.UserChoose = c])))
  BY <1>7, <1>8
<1>10. QED
  BY <1>1, <1>5, <1>6, <1>8, <1>9, MoveKeeps

\* down: the entry below, or the first.
LEMMA DownKeeps ==
  ASSUME Inv, Down
  PROVE  Inv' /\ Returns
<1> DEFINE size == MenuCount(nav.MenuPoint, nav.files)
           c == IF nav.UserChoose + 1 = size THEN 0 ELSE nav.UserChoose + 1
<1>1. wild = "no" /\ editor = NoEditor /\ signal = "none"
  BY DEF Down, Browsing, Heard
<1>2. /\ NavOk(nav) /\ ClaimInv /\ nav \in Navs /\ nav.MenuPoint \in Menus /\ nav.files \in {0, 2}
      /\ nav.UserChoose \in 0 .. 9
      /\ nav.rtr_count = 0 <=> nav.MenuPoint = "MainMenu"
  BY <1>1, Facts
<1>3. size \in 1 .. 10 /\ Len(ItemsOf(nav)) \in 1 .. 10
      /\ (nav.MenuPoint \notin Claimers => size = Len(ItemsOf(nav)))
  BY <1>2, ItemsAre DEF ItemsOf
<1>4. nav.rtr_count = 0 => Len(ItemsOf(nav)) = 6 /\ nav.MenuPoint \notin Claimers /\ nav.UserChoose \in 0 .. 5
  BY <1>2 DEF NavOk, Main, ItemsOf, Items, Tables, MainMenu, Claimers
<1>5. c \in 0 .. 9 /\ (nav.rtr_count = 0 => c \in 0 .. 5)
  <2>1. InTable(nav, nav.UserChoose) \/ nav.UserChoose < 7
    BY DEF Down, ChooseMax
  <2>2. nav.MenuPoint \in Claimers => Len(ItemsOf(nav)) = 1
    BY ClaimersAre DEF ItemsOf
  <2> HIDE DEF size
  <2>3. nav.rtr_count = 0 => size = 6
    BY <1>3, <1>4
  <2>4. CASE nav.UserChoose + 1 = size
    BY <2>4
  <2>5. CASE nav.UserChoose + 1 # size
    <3>1. c = nav.UserChoose + 1
      BY <2>5
    <3>2. nav.rtr_count = 0 => nav.UserChoose + 1 \in 0 .. 5
      BY <1>4, <2>3, <2>5
    <3>3. nav.UserChoose # 9
      <4> SUFFICES ASSUME nav.UserChoose = 9 PROVE FALSE
        OBVIOUS
      <4>1. Len(ItemsOf(nav)) = 10
        <5> DEFINE len == Len(ItemsOf(nav))
        <5>1. len \in 1 .. 10 /\ 9 \in 0 .. (len - 1)
          BY <1>3, <2>1 DEF InTable
        <5> HIDE DEF len
        <5>2. len = 10
          BY <5>1
        <5>3. QED
          BY <5>2 DEF len
      <4>2. size = 10
        BY <1>3, <2>2, <4>1
      <4>3. QED
        BY <2>5, <4>2
    <3>4. QED
      BY <1>2, <3>1, <3>2, <3>3
  <2>6. QED
    BY <2>4, <2>5
<1>6. ~displaced => InTable(nav, c)
  <2>1. ~displaced => InTable(nav, nav.UserChoose) /\ nav.MenuPoint \notin Claimers
    BY <1>1, <1>2 DEF Inv, OwnSelection, ClaimInv
  <2>2. QED
    BY <1>2, <1>3, <2>1 DEF InTable
<1>7. [nav EXCEPT !.UserChoose = IF @ + 1 = size THEN 0 ELSE @ + 1] = [nav EXCEPT !.UserChoose = c]
  BY <1>2 DEF Navs
<1>8. Goto(ShowMenu(Scroll([nav EXCEPT !.UserChoose = IF @ + 1 = size THEN 0 ELSE @ + 1])))
      /\ UNCHANGED <<editor, affirmRecode, updownchoose, usb_wr_flag, signal, ending, count,
                     locked, stick, displaced, cut>>
  BY DEF Down
<1> HIDE DEF c, size
<1>9. Goto(ShowMenu(Scroll([nav EXCEPT !.UserChoose = c])))
  BY <1>7, <1>8
<1>10. QED
  BY <1>1, <1>5, <1>6, <1>8, <1>9, MoveKeeps

\* The keys that lead back: esc in a menu, esc in an editor, and the press that saves.
LEMMA BackKeeps ==
  ASSUME Inv, wild = "no", signal # "normal",
         NEW e,
         e.MenuPoint # OutOfTable =>
           /\ NavOk(e) /\ Shown(e) /\ e.MenuPoint \in DOMAIN Tables
           /\ InTable(e, e.UserChoose)
           /\ e.rtr_count < nav.rtr_count => Child(e) = nav.MenuPoint,
         ~displaced => e.MenuPoint # OutOfTable,
         Leave(e), editor' = NoEditor, affirmRecode' \in 0 .. 2, updownchoose' \in 0 .. 9,
         UNCHANGED <<usb_wr_flag, signal, ending, count, locked, stick, cut>>
  PROVE  Inv' /\ Returns
<1>1. displaced \in BOOLEAN /\ PagesInv
  BY Facts
<1>2. Goto(e) /\ displaced' = (displaced /\ wild' # "no")
  BY DEF Leave
<1>3. /\ nav' \in Navs
      /\ \/ e.MenuPoint # OutOfTable /\ nav' = e /\ wild' = "no"
         \/ e.MenuPoint = OutOfTable /\ nav'.MenuPoint = OutOfTable /\ wild' = "menu"
  BY <1>2, GotoIs
<1>4. displaced' \in BOOLEAN
  BY <1>2
<1>5. displaced' <=> displaced /\ wild' # "no"
  BY <1>2
<1>6. TypeOK'
  BY <1>3, <1>4 DEF Inv, TypeOK, stick
<1>7. count' \subseteq cut' /\ signal' # "normal"
  BY <1>1 DEF PagesInv
<1>8. PagesReset' /\ NormInv' /\ PagesInv'
  BY <1>7 DEF PagesReset, NormInv, PagesInv
<1>9. CASE e.MenuPoint # OutOfTable
  <2>1. nav' = e /\ wild' = "no"
    BY <1>3, <1>9
  <2>2. NavOk(e) /\ Shown(e) /\ InTable(e, e.UserChoose) /\ e.UserChoose \in {e.DisplayStart, e.DisplayStart + 1}
    BY <1>9 DEF NavOk, Windowed
  <2>3. NavOk(nav') /\ Shown(nav') /\ EditorInv'
    BY <2>1, <2>2 DEF EditorInv
  <2>4. OwnSelection'
    BY <2>1, <2>2 DEF OwnSelection
  <2>5. e.MenuPoint \notin Claimers
    BY <1>9, MenuNames, ClaimersAre
  <2>6. ClaimInv'
    BY <2>1, <2>5 DEF ClaimInv
  <2>7. Returns
    BY <1>9, <2>1, <2>2 DEF Returns
  <2>8. QED
    BY <1>6, <1>8, <2>3, <2>4, <2>6, <2>7 DEF Inv
<1>10. CASE e.MenuPoint = OutOfTable
  <2>1. wild' = "menu" /\ displaced /\ displaced'
    BY <1>3, <1>5, <1>10
  <2>2. OwnSelection' /\ Returns
    BY <2>1 DEF OwnSelection, Returns
  <2>3. QED
    BY <1>6, <1>8, <2>1, <2>2 DEF Inv
<1>11. QED
  BY <1>9, <1>10

\* While the selection is the user's own, the first line shown is an entry of the menu.
LEMMA OwnStart ==
  ASSUME Inv, wild = "no", ~displaced
  PROVE  InTable(nav, nav.DisplayStart) /\ InTable(nav, nav.UserChoose)
<1>1. /\ nav.MenuPoint \in Menus /\ nav.files \in {0, 2}
      /\ nav.UserChoose \in 0 .. 9 /\ nav.DisplayStart \in 0 .. 9
      /\ nav.UserChoose \in {nav.DisplayStart, nav.DisplayStart + 1}
  BY Facts
<1>2. InTable(nav, nav.UserChoose)
  BY DEF Inv, OwnSelection
<1>3. nav.DisplayStart <= nav.UserChoose
  BY <1>1
<1>4. QED
  BY <1>1, <1>2, <1>3, InTables

\* esc in a menu.
LEMMA EscKeyKeeps ==
  ASSUME Inv, EscKey
  PROVE  Inv' /\ Returns
<1> DEFINE e == ShowMenu(Scroll(EscMenu(nav)))
<1>1. wild = "no" /\ editor = NoEditor /\ signal = "none"
  BY DEF EscKey, Browsing, Heard
<1>2. NavOk(nav)
  BY <1>1, Facts
<1>3. /\ e.MenuPoint = OutOfTable => ~InTable(nav, nav.DisplayStart)
      /\ e.MenuPoint # OutOfTable =>
           /\ NavOk(e) /\ Shown(e) /\ e.MenuPoint \in DOMAIN Tables
           /\ InTable(e, e.UserChoose)
           /\ e.rtr_count < nav.rtr_count => Child(e) = nav.MenuPoint
  BY <1>2, EscOk
<1>4. ~displaced => e.MenuPoint # OutOfTable
  BY <1>1, <1>3, OwnStart
<1>5. Leave(e)
  BY DEF EscKey
<1> HIDE DEF e
<1>6. /\ editor' = NoEditor /\ affirmRecode' \in 0 .. 2 /\ updownchoose' \in 0 .. 9
      /\ UNCHANGED <<usb_wr_flag, signal, ending, count, locked, stick, cut>>
  BY <1>1 DEF EscKey, Inv, TypeOK
<1>7. QED
  BY <1>1, <1>3, <1>4, <1>5, <1>6, BackKeeps

\* An editor is left.
LEMMA EditorLeft ==
  ASSUME Inv, wild = "no", editor # NoEditor, Close, Leave(LeaveEditor(nav)),
         UNCHANGED <<usb_wr_flag, signal, ending, count, locked, stick, cut>>
  PROVE  Inv' /\ Returns
<1> DEFINE e == LeaveEditor(nav)
<1>1. NavOk(nav) /\ Shown(nav) /\ nav.rtr_count > 0 /\ signal # "normal"
  BY Facts DEF EditorInv
<1>2. /\ e.MenuPoint = OutOfTable => ~(Shown(nav) /\ InTable(nav, nav.DisplayStart))
      /\ e.MenuPoint # OutOfTable =>
           /\ NavOk(e) /\ Shown(e) /\ e.MenuPoint \in DOMAIN Tables
           /\ InTable(e, e.UserChoose) /\ Child(e) = nav.MenuPoint
  BY <1>1, LeaveOk
<1>3. ~displaced => e.MenuPoint # OutOfTable
  BY <1>1, <1>2, OwnStart
<1>4. Leave(e)
  OBVIOUS
<1> HIDE DEF e
<1>5. editor' = NoEditor /\ affirmRecode' \in 0 .. 2 /\ updownchoose' \in 0 .. 9
  BY DEF Close
<1>6. QED
  BY <1>1, <1>2, <1>3, <1>4, <1>5, BackKeeps

\* esc in an editor.
LEMMA EditEscKeeps ==
  ASSUME Inv, EditEsc
  PROVE  Inv' /\ Returns
  BY EditorLeft DEF EditEsc, Editing, Heard

\* The press of enter that saves.
LEMMA EditSaveKeeps ==
  ASSUME Inv, EditSave
  PROVE  Inv' /\ Returns
  BY EditorLeft DEF EditSave, Editing, Heard

\* What is known when enter is pressed on an entry.
LEMMA SelectedIs ==
  ASSUME Inv, NEW kind, Selected(kind)
  PROVE  /\ wild = "no" /\ editor = NoEditor /\ signal \in {"none", "normal"}
         /\ InTable(nav, nav.UserChoose) /\ Subs(nav).kind = kind
         /\ EntryOk(nav.MenuPoint, nav.UserChoose + 1, [sub |-> Subs(nav), child |-> Child(nav)])
         /\ kind \notin {"null", "page"} => signal = "none" /\ nav.MenuPoint # "MainMenu"
                                            /\ nav.rtr_count > 0
<1>1. /\ wild = "no" /\ editor = NoEditor /\ signal \notin {"write", "read"}
      /\ InTable(nav, nav.UserChoose) /\ Subs(nav).kind = kind
  BY DEF Selected, Browsing, Heard
<1>2. signal \in {"none", "normal"}
  BY <1>1 DEF Inv, TypeOK
<1>3. /\ NavOk(nav) /\ NormInv /\ nav.UserChoose \in 0 .. 9 /\ nav.rtr_count \in Levels
      /\ nav.rtr_count = 0 <=> nav.MenuPoint = "MainMenu"
  BY <1>1, Facts
<1>4. EntryOk(nav.MenuPoint, nav.UserChoose + 1, ItemsOf(nav)[nav.UserChoose + 1])
  BY <1>1, <1>3, EntryIs
<1>5. EntryOk(nav.MenuPoint, nav.UserChoose + 1, [sub |-> Subs(nav), child |-> Child(nav)])
  BY <1>4 DEF EntryOk, Subs, Child
<1>6. kind \notin {"null", "page"} => nav.MenuPoint \notin Shows \cup {"MainMenu"}
  BY <1>1, <1>5 DEF EntryOk
<1>7. kind \notin {"null", "page"} => signal = "none"
  BY <1>2, <1>3, <1>6 DEF NormInv
<1>8. nav.MenuPoint # "MainMenu" => nav.rtr_count > 0
  BY <1>3 DEF Levels
<1>9. QED
  BY <1>1, <1>2, <1>5, <1>6, <1>7, <1>8

\* Where enter_code leads.
LEMMA EnterFacts ==
  ASSUME wild = "no", displaced \in BOOLEAN, NEW d, NavOk(d), InTable(d, d.UserChoose),
         Child(d) = "FileBrowse" => d.files = 2, Enter(d)
  PROVE  /\ nav' \in Navs /\ wild' = "no" /\ NavOk(nav') /\ Shown(nav') /\ displaced' \in BOOLEAN
         /\ displaced' <=> displaced /\ (nav'.MenuPoint = nav.MenuPoint \/ signal = "normal")
         /\ nav'.UserChoose \in {nav'.DisplayStart, nav'.DisplayStart + 1}
         /\ InTable(nav', nav'.UserChoose)
         /\ Child(d) = NULL => Alike(d, nav')
         /\ Child(d) # NULL =>
              /\ nav'.MenuPoint = Child(d) /\ nav'.MenuPoint # d.MenuPoint
              /\ nav'.UserChoose = 0 /\ nav'.rtr_count = d.rtr_count + 1
<1> DEFINE e == ShowMenu(Scroll(EnterChild(d)))
<1>1. /\ NavOk(e) /\ Shown(e) /\ e.files = d.files
      /\ Child(d) = NULL => Alike(d, e)
      /\ Child(d) # NULL =>
           /\ e.MenuPoint = Child(d) /\ e.MenuPoint # d.MenuPoint
           /\ e.UserChoose = 0 /\ e.DisplayStart = 0 /\ InTable(e, 0)
           /\ e.rtr_count = d.rtr_count + 1
  BY EnterOk
<1>2. Goto(e)
  BY DEF Enter
<1>3. displaced' = (displaced /\ (nav'.MenuPoint \in {nav.MenuPoint, OutOfTable} \/ signal = "normal"))
  BY DEF Enter
<1> HIDE DEF e
<1>4. e.MenuPoint # OutOfTable
  BY <1>1, MenuNames DEF NavOk
<1>5. nav' = e /\ wild' = "no" /\ nav' \in Navs
  BY <1>1, <1>2, <1>4, GotoIs
<1>6. displaced' \in BOOLEAN
  BY <1>3
<1>7. displaced' <=> displaced /\ (nav'.MenuPoint \in {nav.MenuPoint, OutOfTable} \/ signal = "normal")
  BY <1>3
<1>8. displaced' <=> displaced /\ (nav'.MenuPoint = nav.MenuPoint \/ signal = "normal")
  BY <1>4, <1>5, <1>7
<1>9. e.UserChoose \in {e.DisplayStart, e.DisplayStart + 1}
  BY <1>1 DEF NavOk, Windowed
<1>10. InTable(e, e.UserChoose)
  <2>1. CASE Child(d) = NULL
    BY <1>1, <2>1 DEF Alike, InTable, ItemsOf
  <2>2. CASE Child(d) # NULL
    BY <1>1, <2>2
  <2>3. QED
    BY <2>1, <2>2
<1>11. QED
  BY <1>1, <1>5, <1>6, <1>8, <1>9, <1>10

\* The steps that enter the entry selected keep what concerns the navigation alone.
LEMMA EnterKeeps ==
  ASSUME Inv, wild = "no", editor = NoEditor, InTable(nav, nav.UserChoose),
         NEW d, NavOk(d), Alike(nav, [d EXCEPT !.files = nav.files]), ItemsOf(d) = ItemsOf(nav),
         Child(nav) = "FileBrowse" => d.files = 2, Enter(d)
  PROVE  /\ nav' \in Navs /\ wild' = "no" /\ NavOk(nav') /\ Shown(nav') /\ displaced' \in BOOLEAN
         /\ OwnSelection' /\ Returns
         /\ Child(nav) = NULL =>
              /\ nav'.MenuPoint = nav.MenuPoint /\ nav'.UserChoose = nav.UserChoose
              /\ nav'.rtr_count = nav.rtr_count /\ nav'.menu_return_arr = nav.menu_return_arr
              /\ displaced' <=> displaced
         /\ Child(nav) # NULL =>
              /\ nav'.MenuPoint = Child(nav) /\ nav'.UserChoose = 0
              /\ nav'.rtr_count = nav.rtr_count + 1
              /\ displaced' <=> displaced /\ signal = "normal"
<1>1. displaced \in BOOLEAN /\ nav.rtr_count \in Levels
  BY Facts
<1>2. d \in Navs
  BY DEF NavOk
<1>3. /\ d.MenuPoint = nav.MenuPoint /\ d.UserChoose = nav.UserChoose
      /\ d.rtr_count = nav.rtr_count /\ d.menu_return_arr = nav.menu_return_arr
  BY <1>2 DEF Alike, Navs
<1>4. InTable(d, d.UserChoose) /\ Child(d) = Child(nav)
  BY <1>3 DEF InTable, Child
<1>5. /\ nav' \in Navs /\ wild' = "no" /\ NavOk(nav') /\ Shown(nav') /\ displaced' \in BOOLEAN
      /\ displaced' <=> displaced /\ (nav'.MenuPoint = nav.MenuPoint \/ signal = "normal")
      /\ nav'.UserChoose \in {nav'.DisplayStart, nav'.DisplayStart + 1}
      /\ InTable(nav', nav'.UserChoose)
      /\ Child(d) = NULL => Alike(d, nav')
      /\ Child(d) # NULL =>
           /\ nav'.MenuPoint = Child(d) /\ nav'.MenuPoint # d.MenuPoint
           /\ nav'.UserChoose = 0 /\ nav'.rtr_count = d.rtr_count + 1
  BY <1>1, <1>4, EnterFacts
<1>6. OwnSelection'
  BY <1>5 DEF OwnSelection
<1>7. Child(nav) = NULL =>
        /\ nav'.MenuPoint = nav.MenuPoint /\ nav'.UserChoose = nav.UserChoose
        /\ nav'.rtr_count = nav.rtr_count /\ nav'.menu_return_arr = nav.menu_return_arr
        /\ displaced' <=> displaced
  BY <1>3, <1>4, <1>5 DEF Alike
<1>8. Child(nav) # NULL =>
        /\ nav'.MenuPoint = Child(nav) /\ nav'.UserChoose = 0
        /\ nav'.rtr_count = nav.rtr_count + 1
        /\ displaced' <=> displaced /\ signal = "normal"
  BY <1>3, <1>4, <1>5
<1>9. Returns
  BY <1>1, <1>7, <1>8 DEF Returns, Levels
<1>10. QED
  BY <1>5, <1>6, <1>7, <1>8, <1>9

\* The same for the entry of nav itself.
LEMMA EnterNav ==
  ASSUME Inv, NEW kind, Selected(kind), kind # "list", Enter(nav)
  PROVE  /\ nav' \in Navs /\ wild' = "no" /\ NavOk(nav') /\ Shown(nav') /\ displaced' \in BOOLEAN
         /\ OwnSelection' /\ Returns
         /\ Child(nav) = NULL =>
              /\ nav'.MenuPoint = nav.MenuPoint /\ nav'.UserChoose = nav.UserChoose
              /\ nav'.rtr_count = nav.rtr_count /\ nav'.menu_return_arr = nav.menu_return_arr
              /\ displaced' <=> displaced
         /\ Child(nav) # NULL =>
              /\ nav'.MenuPoint = Child(nav) /\ nav'.UserChoose = 0
              /\ nav'.rtr_count = nav.rtr_count + 1
              /\ displaced' <=> displaced /\ signal = "normal"
<1>1. /\ wild = "no" /\ editor = NoEditor /\ InTable(nav, nav.UserChoose) /\ Subs(nav).kind = kind
      /\ EntryOk(nav.MenuPoint, nav.UserChoose + 1, [sub |-> Subs(nav), child |-> Child(nav)])
  BY SelectedIs
<1>2. NavOk(nav) /\ nav \in Navs
  BY <1>1, Facts
<1>3. Child(nav) # "FileBrowse"
  BY <1>1 DEF EntryOk
<1>4. Alike(nav, [nav EXCEPT !.files = nav.files])
  BY <1>2 DEF Alike, Navs
<1>5. QED
  BY <1>1, <1>2, <1>3, <1>4, EnterKeeps

\* The type invariant but for the selection.
LEMMA TypesKept ==
  ASSUME Inv, nav' \in Navs, displaced' \in BOOLEAN, wild' \in {"no", "menu", "option"},
         editor' \in {NoEditor} \cup [kind : Choices \cup {"input"}, of : 0 .. 10],
         affirmRecode' \in 0 .. 2, updownchoose' \in 0 .. 9,
         usb_wr_flag' \in {"SET", "START", "CTL"}, signal' \in {"none", "normal", "write", "read"},
         ending' \in {"none", "write", "read"}, count' \subseteq Pages, cut' \subseteq Pages,
         locked' \in {"boot", "locked", "open"}, plugs' \in 0 .. Plugs,
         online' \in BOOLEAN, armed' \in BOOLEAN
  PROVE  TypeOK'
  BY DEF TypeOK

\* What the type invariant says of the other variables.
LEMMA TypesAre ==
  ASSUME Inv
  PROVE  /\ nav \in Navs /\ displaced \in BOOLEAN /\ wild \in {"no", "menu", "option"}
         /\ editor \in {NoEditor} \cup [kind : Choices \cup {"input"}, of : 0 .. 10]
         /\ affirmRecode \in 0 .. 2 /\ updownchoose \in 0 .. 9
         /\ usb_wr_flag \in {"SET", "START", "CTL"} /\ signal \in {"none", "normal", "write", "read"}
         /\ ending \in {"none", "write", "read"} /\ count \subseteq Pages /\ cut \subseteq Pages
         /\ locked \in {"boot", "locked", "open"} /\ plugs \in 0 .. Plugs
         /\ online \in BOOLEAN /\ armed \in BOOLEAN
  BY DEF Inv, TypeOK

\* While no status page is shown, those that count as shown were cut off.
LEMMA NoPage ==
  ASSUME Inv, wild = "no", signal # "normal"
  PROVE  count \subseteq cut
  BY DEF Inv, PagesReset

\* enter on an entry that only opens a menu.
LEMMA EnterMenuKeeps ==
  ASSUME Inv, EnterMenu
  PROVE  Inv' /\ Returns
<1> DEFINE c == Child(nav)
           m == nav.MenuPoint
<1>1. Selected("null") /\ Enter(nav)
      /\ UNCHANGED <<editor, affirmRecode, updownchoose, usb_wr_flag, signal, ending, count,
                     locked, stick, cut>>
  BY DEF EnterMenu
<1>2. /\ wild = "no" /\ editor = NoEditor /\ signal \in {"none", "normal"}
      /\ InTable(nav, nav.UserChoose) /\ Subs(nav).kind = "null"
      /\ EntryOk(m, nav.UserChoose + 1, [sub |-> Subs(nav), child |-> c])
  BY <1>1, SelectedIs
<1>3. ClaimInv /\ NormInv /\ PagesInv /\ nav.MenuPoint \in Menus
  BY <1>2, Facts
<1>4. /\ nav' \in Navs /\ wild' = "no" /\ NavOk(nav') /\ Shown(nav') /\ displaced' \in BOOLEAN
      /\ OwnSelection' /\ Returns
      /\ c = NULL =>
           /\ nav'.MenuPoint = m /\ nav'.UserChoose = nav.UserChoose
           /\ nav'.rtr_count = nav.rtr_count /\ nav'.menu_return_arr = nav.menu_return_arr
           /\ displaced' <=> displaced
      /\ c # NULL =>
           /\ nav'.MenuPoint = c /\ nav'.UserChoose = 0
           /\ nav'.rtr_count = nav.rtr_count + 1
           /\ displaced' <=> displaced /\ signal = "normal"
  BY <1>1, EnterNav
<1> HIDE DEF c, m
<1>5. TypeOK'
  BY <1>1, <1>4, TypesAre, TypesKept DEF stick
<1>6. EditorInv'
  BY <1>1, <1>2 DEF EditorInv
<1>7. ClaimInv'
  <2>1. c \notin Claimers
    <3>1. c \in DOMAIN Leaves => c = NULL
      BY <1>2 DEF EntryOk, Editors
    <3>2. NULL \notin Claimers
      BY DEF NULL, Claimers
    <3>3. QED
      BY <3>1, <3>2, ClaimersAre
  <2>2. CASE c = NULL
    BY <1>2, <1>3, <1>4, <2>2 DEF ClaimInv, m
  <2>3. CASE c # NULL
    BY <1>4, <2>1, <2>3 DEF ClaimInv
  <2>4. QED
    BY <2>2, <2>3
<1>8. CASE signal # "normal"
  <2>1. count \subseteq cut
    BY <1>2, <1>8, NoPage
  <2>2. PagesReset' /\ NormInv' /\ PagesInv'
    BY <1>1, <1>8, <2>1 DEF PagesReset, NormInv, PagesInv
  <2>3. QED
    BY <1>4, <1>5, <1>6, <1>7, <2>2 DEF Inv
<1>9. CASE signal = "normal"
  <2>1. displaced
    BY <1>2, <1>9 DEF Inv, PagesReset
  <2>2. displaced' /\ signal' = "normal"
    BY <1>1, <1>4, <1>9, <2>1
  <2>3. PagesReset'
    BY <2>2 DEF PagesReset
  <2>4. count \ cut = {}
    BY <1>2, <1>3, <1>9 DEF PagesInv
  <2>5. PagesInv'
    BY <1>1, <2>2, <2>4 DEF PagesInv
  <2>6. m \in Shows \cup {"MainMenu"} /\ (m = "MainMenu" => nav.UserChoose = 0)
    BY <1>3, <1>9 DEF NormInv, m
  <2>7. m \in Shows => c \in Shows \cup {NULL}
    BY <1>2 DEF EntryOk
  <2>8. m = "MainMenu" => c = "sysStatus"
    BY <1>2, <2>6 DEF EntryOk
  <2>9. "sysStatus" \in Shows /\ "sysStatus" # NULL /\ "MainMenu" \notin Shows
    BY DEF Shows, NULL
  <2>10. nav'.MenuPoint \in Shows
    BY <1>4, <2>6, <2>7, <2>8, <2>9
  <2>11. NormInv'
    BY <2>9, <2>10 DEF NormInv
  <2>12. QED
    BY <1>4, <1>5, <1>6, <1>7, <2>3, <2>5, <2>11 DEF Inv
<1>10. QED
  BY <1>8, <1>9

\* enter on a status page, which opens or closes it.
LEMMA TogglePageKeeps ==
  ASSUME Inv, TogglePage
  PROVE  Inv' /\ Returns
<1> DEFINE page == Subs(nav).of
           m == nav.MenuPoint
<1>1. /\ Selected("page") /\ Enter(nav)
      /\ IF page \notin count
         THEN count' = count \cup {page} /\ signal' = "normal" /\ cut' = cut
         ELSE count' = count \ {page} /\ signal' = "none" /\ cut' = cut \ {page}
      /\ UNCHANGED <<editor, affirmRecode, updownchoose, usb_wr_flag, ending, locked, stick>>
  BY DEF TogglePage
<1>2. /\ wild = "no" /\ editor = NoEditor /\ signal \in {"none", "normal"}
      /\ InTable(nav, nav.UserChoose) /\ Subs(nav).kind = "page"
      /\ EntryOk(m, nav.UserChoose + 1, [sub |-> Subs(nav), child |-> Child(nav)])
  BY <1>1, SelectedIs
<1>3. m \in Shows /\ Child(nav) = NULL
  BY <1>2 DEF EntryOk
<1>4. /\ nav' \in Navs /\ wild' = "no" /\ NavOk(nav') /\ Shown(nav') /\ displaced' \in BOOLEAN
      /\ OwnSelection' /\ Returns
      /\ nav'.MenuPoint = m /\ nav'.UserChoose = nav.UserChoose
      /\ nav'.rtr_count = nav.rtr_count /\ nav'.menu_return_arr = nav.menu_return_arr
      /\ displaced' <=> displaced
  BY <1>1, <1>3, EnterNav
<1>5. PagesInv /\ nav \in Navs /\ nav.UserChoose \in 0 .. 9
  BY <1>2, Facts
<1>6. \A f : Items(m, f) = Tables[m] /\ m \in DOMAIN Tables
  BY <1>3 DEF Shows, Items, Tables
<1>7. Subs(nav') = Subs(nav) /\ InTable(nav', nav'.UserChoose)
  BY <1>2, <1>4, <1>6 DEF Subs, InTable, ItemsOf
<1>8. page \in Pages
  <2>1. nav.UserChoose + 1 \in 1 .. Len(Tables[m])
    <3>1. Len(Tables[m]) \in 1 .. 10
      BY <1>6, TablesAre
    <3>2. nav.UserChoose \in 0 .. (Len(Tables[m]) - 1)
      BY <1>2, <1>6 DEF InTable, ItemsOf
    <3> DEFINE len == Len(Tables[m])
    <3> HIDE DEF len
    <3>3. len \in 1 .. 10 /\ nav.UserChoose \in 0 .. (len - 1) => nav.UserChoose + 1 \in 1 .. len
      OBVIOUS
    <3>4. QED
      BY <3>1, <3>2, <3>3 DEF len
  <2>2. Tables[m][nav.UserChoose + 1].sub = Subs(nav)
    BY <1>6 DEF Subs, ItemsOf
  <2>3. QED
    BY <1>2, <1>6, <2>1, <2>2 DEF Pages
<1> HIDE DEF page, m
<1>9. count' \subseteq Pages /\ cut' \subseteq Pages /\ signal' \in {"none", "normal"}
  BY <1>1, <1>8, TypesAre
<1>10. TypeOK'
  BY <1>1, <1>4, <1>9, TypesAre, TypesKept DEF stick
<1>11. EditorInv'
  BY <1>1, <1>2 DEF EditorInv
<1>12. nav'.MenuPoint \in Shows /\ nav'.MenuPoint # "MainMenu" /\ nav'.MenuPoint \notin Claimers
  BY <1>3, <1>4 DEF Shows, Claimers
<1>13. ClaimInv' /\ NormInv'
  BY <1>12 DEF ClaimInv, NormInv
<1>14. Subs(nav').kind = "page" /\ Subs(nav').of = page
  BY <1>2, <1>7 DEF page
<1>15. CASE page \notin count
  <2>1. count' = count \cup {page} /\ signal' = "normal" /\ cut' = cut
    BY <1>1, <1>15
  <2>2. PagesReset'
    BY <1>14, <2>1 DEF PagesReset
  <2>3. count \subseteq cut
    <3>1. CASE signal = "normal"
      BY <1>5, <1>15, <3>1 DEF PagesInv, page
    <3>2. CASE signal # "normal"
      BY <1>2, <3>2, NoPage
    <3>3. QED
      BY <3>1, <3>2
  <2>4. PagesInv'
    BY <1>7, <1>14, <2>1, <2>3 DEF PagesInv
  <2>5. QED
    BY <1>4, <1>10, <1>11, <1>13, <2>2, <2>4 DEF Inv
<1>16. CASE page \in count
  <2>1. count' = count \ {page} /\ signal' = "none" /\ cut' = cut \ {page}
    BY <1>1, <1>16
  <2>2. count \ {page} \subseteq cut
    <3>1. CASE signal = "normal"
      BY <1>5, <3>1 DEF PagesInv, page
    <3>2. CASE signal # "normal"
      BY <1>2, <3>2, NoPage
    <3>3. QED
      BY <3>1, <3>2
  <2>3. PagesReset' /\ PagesInv'
    BY <2>1, <2>2 DEF PagesReset, PagesInv
  <2>4. QED
    BY <1>4, <1>10, <1>11, <1>13, <2>3 DEF Inv
<1>17. QED
  BY <1>15, <1>16

\* An editor is opened with the entry selected.
LEMMA OpenKeeps ==
  ASSUME Inv, NEW kind \in Editors \cup {"record"}, Selected(kind), OpenEditor(Subs(nav)), Enter(nav),
         usb_wr_flag' \in {"SET", "START", "CTL"},
         UNCHANGED <<signal, ending, count, locked, stick, cut>>
  PROVE  Inv' /\ Returns
<1> DEFINE c == Child(nav)
<1>1. kind \notin {"null", "page", "list"}
  BY DEF Editors
<1>2. /\ wild = "no" /\ editor = NoEditor /\ signal = "none"
      /\ InTable(nav, nav.UserChoose) /\ Subs(nav).kind = kind
      /\ EntryOk(nav.MenuPoint, nav.UserChoose + 1, [sub |-> Subs(nav), child |-> c])
      /\ nav.rtr_count > 0
  BY <1>1, SelectedIs
<1>3. ClaimInv /\ nav.rtr_count \in Levels
  BY <1>2, Facts
<1>4. /\ nav' \in Navs /\ wild' = "no" /\ NavOk(nav') /\ Shown(nav') /\ displaced' \in BOOLEAN
      /\ OwnSelection' /\ Returns
      /\ c = NULL =>
           /\ nav'.MenuPoint = nav.MenuPoint /\ nav'.UserChoose = nav.UserChoose
           /\ nav'.rtr_count = nav.rtr_count /\ nav'.menu_return_arr = nav.menu_return_arr
           /\ displaced' <=> displaced
      /\ c # NULL =>
           /\ nav'.MenuPoint = c /\ nav'.UserChoose = 0
           /\ nav'.rtr_count = nav.rtr_count + 1
           /\ displaced' <=> displaced /\ signal = "normal"
  BY <1>1, EnterNav
<1> HIDE DEF c
<1>5. Subs(nav) \in [kind : Choices \cup {"input"}, of : 0 .. 10]
  BY <1>2 DEF EntryOk
<1>6. /\ editor' \in [kind : Choices \cup {"input"}, of : 0 .. 10] /\ affirmRecode' = 0
      /\ updownchoose' \in 0 .. 9
  <2>1. editor' = Subs(nav) /\ affirmRecode' = 0
    BY DEF OpenEditor
  <2>2. Subs(nav).of \in 0 .. 10
    BY <1>5
  <2>3. updownchoose' \in 0 .. (Subs(nav).of - 1) \/ updownchoose' = 0
    BY DEF OpenEditor
  <2>4. updownchoose' \in 0 .. 9
    BY <2>2, <2>3
  <2>5. QED
    BY <1>5, <2>1, <2>4
<1>7. editor' # NoEditor
  BY <1>6 DEF NoEditor, Choices
<1>8. TypeOK'
  BY <1>4, <1>6, TypesAre, TypesKept DEF stick
<1>9. nav'.rtr_count > 0
  BY <1>2, <1>3, <1>4 DEF Levels
<1>10. EditorInv'
  BY <1>2, <1>9 DEF EditorInv
<1>11. ClaimInv'
  BY <1>2, <1>3, <1>4, <1>7 DEF ClaimInv
<1>12. count \subseteq cut
  BY <1>2, NoPage
<1>13. PagesReset' /\ NormInv' /\ PagesInv'
  BY <1>2, <1>12 DEF PagesReset, NormInv, PagesInv
<1>14. QED
  BY <1>4, <1>8, <1>10, <1>11, <1>13 DEF Inv

\* enter on an entry with an editor of a value.
LEMMA EnterEditorKeeps ==
  ASSUME Inv, EnterEditor
  PROVE  Inv' /\ Returns
<1>1. PICK kind \in {"choice", "yesno", "input"} : Selected(kind)
  BY DEF EnterEditor
<1>2. kind \in Editors \cup {"record"}
  BY DEF Editors
<1>3. OpenEditor(Subs(nav)) /\ Enter(nav)
      /\ UNCHANGED <<usb_wr_flag, signal, ending, count, locked, stick, cut>>
  BY DEF EnterEditor
<1>4. usb_wr_flag' \in {"SET", "START", "CTL"}
  BY <1>3, TypesAre
<1>5. QED
  BY <1>1, <1>2, <1>3, <1>4, OpenKeeps

\* The step that finds no stick leaves the menu and enters it again.
LEMMA ReenterKeeps ==
  ASSUME Inv, NEW kind \in {"record", "list"}, Selected(kind), Enter(ParenMenu(nav)),
         UNCHANGED <<editor, affirmRecode, updownchoose, usb_wr_flag, signal, ending, count,
                     locked, stick, cut>>
  PROVE  Inv' /\ Returns
<1> DEFINE d == ParenMenu(nav)
<1>1. /\ wild = "no" /\ editor = NoEditor /\ signal = "none"
      /\ EntryOk(nav.MenuPoint, nav.UserChoose + 1, [sub |-> Subs(nav), child |-> Child(nav)])
      /\ Subs(nav).kind = kind /\ nav.rtr_count > 0
  BY SelectedIs
<1>2. nav.MenuPoint \in {"RecordTsCfg", "PlayTsCfg"}
  BY <1>1 DEF EntryOk
<1>3. NavOk(nav) /\ displaced \in BOOLEAN /\ nav.rtr_count \in Levels
  BY <1>1, Facts
<1>4. /\ NavOk(d) /\ InTable(d, d.UserChoose) /\ Child(d) = nav.MenuPoint
      /\ d.rtr_count = nav.rtr_count - 1
  BY <1>1, <1>2, <1>3, ParenOk
<1>5. Child(d) # "FileBrowse" /\ Child(d) # NULL /\ nav.MenuPoint \notin Claimers
  BY <1>2, <1>4 DEF NULL, Claimers
<1>6. Enter(d)
  OBVIOUS
<1> HIDE DEF d
<1>7. /\ nav' \in Navs /\ wild' = "no" /\ NavOk(nav') /\ Shown(nav') /\ displaced' \in BOOLEAN
      /\ displaced' <=> displaced /\ (nav'.MenuPoint = nav.MenuPoint \/ signal = "normal")
      /\ nav'.UserChoose \in {nav'.DisplayStart, nav'.DisplayStart + 1}
      /\ InTable(nav', nav'.UserChoose)
      /\ nav'.MenuPoint = Child(d) /\ nav'.rtr_count = d.rtr_count + 1
  BY <1>1, <1>3, <1>4, <1>5, <1>6, EnterFacts
<1>8. nav'.MenuPoint = nav.MenuPoint /\ nav'.rtr_count = nav.rtr_count
  BY <1>3, <1>4, <1>7 DEF Levels
<1>9. OwnSelection' /\ TypeOK'
  BY <1>7, TypesAre, TypesKept DEF OwnSelection, stick
<1>10. EditorInv' /\ ClaimInv' /\ Returns
  BY <1>1, <1>3, <1>5, <1>8 DEF EditorInv, ClaimInv, Returns, Levels
<1>11. count \subseteq cut
  BY <1>1, NoPage
<1>12. PagesReset' /\ NormInv' /\ PagesInv'
  BY <1>1, <1>11 DEF PagesReset, NormInv, PagesInv
<1>13. QED
  BY <1>7, <1>9, <1>10, <1>12 DEF Inv

\* enter on "record".
LEMMA EnterRecordKeeps ==
  ASSUME Inv, EnterRecord
  PROVE  Inv' /\ Returns
<1>1. Selected("record") /\ UNCHANGED <<signal, ending, count, locked, stick, cut>>
  BY DEF EnterRecord
<1>2. CASE online
  <2>1. OpenEditor(Subs(nav)) /\ usb_wr_flag' \in {"SET", "START", "CTL"} /\ Enter(nav)
    BY <1>2 DEF EnterRecord
  <2>2. QED
    BY <1>1, <2>1, OpenKeeps
<1>3. CASE ~online
  <2>1. UNCHANGED <<editor, affirmRecode, updownchoose, usb_wr_flag>> /\ Enter(ParenMenu(nav))
    BY <1>3 DEF EnterRecord
  <2>2. QED
    BY <1>1, <2>1, ReenterKeeps
<1>4. QED
  BY <1>2, <1>3

\* The menus that claim too many entries are not opened from the list of recordings.
LEMMA ClaimersLie ==
  \A m \in Claimers : ParentMenus(m, 2) # "PlayTsCfg"
<1>1. Claimers \subseteq DOMAIN Leaves
  BY ClaimersAre
<1>2. Leaves["AudioFormatCfg"] = "AudioCfg" /\ Leaves["AudioPidCfg"] = "ProgInfoCfg"
  BY LeafParents DEF EncoderLeaves, EventLeaves
<1>3. QED
  BY <1>1, <1>2, ParentsAre DEF Claimers

\* enter on the entry that lists the recordings, once the stick is found.
LEMMA ListKeeps ==
  ASSUME Inv, Selected("list"), Enter([nav EXCEPT !.files = 2]),
         UNCHANGED <<editor, affirmRecode, updownchoose, usb_wr_flag, signal, ending, count,
                     locked, stick, cut>>
  PROVE  Inv' /\ Returns
<1> DEFINE d == [nav EXCEPT !.files = 2]
<1>1. /\ wild = "no" /\ editor = NoEditor /\ signal = "none" /\ InTable(nav, nav.UserChoose)
      /\ EntryOk(nav.MenuPoint, nav.UserChoose + 1, [sub |-> Subs(nav), child |-> Child(nav)])
      /\ Subs(nav).kind = "list" /\ nav.rtr_count > 0
  BY SelectedIs
<1>2. nav.MenuPoint = "PlayTsCfg" /\ Child(nav) = "FileBrowse"
  BY <1>1 DEF EntryOk
<1>3. NavOk(nav) /\ nav \in Navs
  BY <1>1, Facts
<1>4. /\ NavOk(d) /\ d.MenuPoint = nav.MenuPoint /\ d.files = 2
  BY <1>3, FilledOk
<1>5. Alike(nav, [d EXCEPT !.files = nav.files])
  BY <1>3 DEF Alike, Navs
<1>6. ItemsOf(d) = ItemsOf(nav)
  BY <1>2, <1>4 DEF ItemsOf, Items
<1>7. Enter(d)
  OBVIOUS
<1> HIDE DEF d
<1>8. /\ nav' \in Navs /\ wild' = "no" /\ NavOk(nav') /\ Shown(nav') /\ displaced' \in BOOLEAN
      /\ OwnSelection' /\ Returns
      /\ Child(nav) # NULL =>
           /\ nav'.MenuPoint = Child(nav) /\ nav'.UserChoose = 0
           /\ nav'.rtr_count = nav.rtr_count + 1
           /\ displaced' <=> displaced /\ signal = "normal"
  BY <1>1, <1>4, <1>5, <1>6, <1>7, EnterKeeps
<1>9. nav'.MenuPoint = "FileBrowse"
  BY <1>2, <1>8 DEF NULL
<1>10. TypeOK'
  BY <1>8, TypesAre, TypesKept DEF stick
<1>11. EditorInv' /\ ClaimInv'
  BY <1>1, <1>9 DEF EditorInv, ClaimInv, Claimers
<1>12. count \subseteq cut
  BY <1>1, NoPage
<1>13. PagesReset' /\ NormInv' /\ PagesInv'
  BY <1>1, <1>12 DEF PagesReset, NormInv, PagesInv
<1>14. QED
  BY <1>8, <1>10, <1>11, <1>13 DEF Inv

\* A stick that is put in while the recordings are looked for has restored the selection.
LEMMA LateListKeeps ==
  ASSUME Inv, Selected("list"), plugs < Plugs, online' = TRUE, plugs' = plugs + 1,
         Goto(ShowMenu(Scroll(EnterChild([CurrentMenu(nav, 0) EXCEPT !.files = 2])))),
         displaced' = (nav'.MenuPoint = OutOfTable),
         UNCHANGED <<editor, affirmRecode, updownchoose, usb_wr_flag, signal, ending, count,
                     locked, armed, cut>>
  PROVE  Inv' /\ Returns
<1> DEFINE b == CurrentMenu(nav, 0)
           d == [b EXCEPT !.files = 2]
           e == ShowMenu(Scroll(EnterChild(d)))
<1>1. /\ wild = "no" /\ editor = NoEditor /\ signal = "none"
      /\ EntryOk(nav.MenuPoint, nav.UserChoose + 1, [sub |-> Subs(nav), child |-> Child(nav)])
      /\ Subs(nav).kind = "list" /\ nav.rtr_count > 0
  BY SelectedIs
<1>2. nav.MenuPoint = "PlayTsCfg"
  BY <1>1 DEF EntryOk
<1>3. NavOk(nav) /\ nav.rtr_count \in Levels
  BY <1>1, Facts
<1>4. NavOk(b) /\ b.MenuPoint = "PlayTsCfg" /\ b.rtr_count = nav.rtr_count
  BY <1>2, <1>3, CurrentOk
<1> HIDE DEF b
<1>5. NavOk(d) /\ d.MenuPoint = "PlayTsCfg" /\ d.rtr_count = nav.rtr_count /\ d.files = 2
  BY <1>4, FilledOk
<1>6. Goto(e)
  BY DEF b
<1> HIDE DEF d
<1>7. displaced' \in BOOLEAN /\ (displaced' <=> nav'.MenuPoint = OutOfTable)
  OBVIOUS
<1>8. plugs' \in 0 .. Plugs /\ online' \in BOOLEAN
  BY TypesAre, MenuNavAssumption
<1>9. count \subseteq cut
  BY <1>1, NoPage
<1>10. PagesReset' /\ NormInv' /\ PagesInv' /\ EditorInv'
  BY <1>1, <1>9 DEF PagesReset, NormInv, PagesInv, EditorInv
<1>11. ASSUME nav' \in Navs, wild' \in {"no", "menu"} PROVE TypeOK'
  BY <1>7, <1>8, <1>11, TypesAre, TypesKept
<1>12. CASE InTable(d, d.UserChoose)
  <2>1. /\ NavOk(e) /\ Shown(e) /\ e.files = d.files
        /\ Child(d) = NULL => Alike(d, e)
        /\ Child(d) # NULL =>
             /\ e.MenuPoint = Child(d) /\ e.MenuPoint # d.MenuPoint
             /\ e.UserChoose = 0 /\ e.DisplayStart = 0 /\ InTable(e, 0)
             /\ e.rtr_count = d.rtr_count + 1
    BY <1>5, <1>12, EnterOk
  <2> HIDE DEF e
  <2>2. e.MenuPoint # OutOfTable
    BY <2>1, MenuNames DEF NavOk
  <2>3. nav' = e /\ wild' = "no" /\ nav' \in Navs
    BY <1>1, <1>6, <2>1, <2>2, GotoIs
  <2>4. InTable(e, e.UserChoose) /\ e.UserChoose \in {e.DisplayStart, e.DisplayStart + 1}
    <3>1. e.UserChoose \in {e.DisplayStart, e.DisplayStart + 1}
      BY <2>1 DEF NavOk, Windowed
    <3>2. CASE Child(d) = NULL
      BY <1>12, <2>1, <3>1, <3>2 DEF Alike, InTable, ItemsOf
    <3>3. CASE Child(d) # NULL
      BY <2>1, <3>1, <3>3
    <3>4. QED
      BY <3>2, <3>3
  <2>5. OwnSelection'
    BY <2>3, <2>4 DEF OwnSelection
  <2>6. e.MenuPoint \notin Claimers
    <3>1. CASE Child(d) = NULL
      BY <1>5, <2>1, <3>1 DEF Alike, Claimers
    <3>2. CASE Child(d) # NULL
      <4>1. d.UserChoose \in 0 .. 9
        BY <1>5 DEF NavOk, Navs
      <4>2. EntryOk("PlayTsCfg", d.UserChoose + 1, ItemsOf(d)[d.UserChoose + 1])
        BY <1>5, <1>12, <4>1, EntryIs
      <4>3. ParentMenus(Child(d), 2) = "PlayTsCfg"
        BY <3>2, <4>2 DEF EntryOk, Child
      <4>4. QED
        BY <2>1, <3>2, <4>3, ClaimersLie
    <3>3. QED
      BY <3>1, <3>2
  <2>7. ClaimInv'
    BY <2>3, <2>6 DEF ClaimInv
  <2>8. nav'.rtr_count >= nav.rtr_count
    BY <1>3, <1>5, <2>1, <2>3 DEF Alike, Levels
  <2>9. Returns
    BY <1>3, <2>1, <2>3, <1>5 DEF Returns, Alike, Levels
  <2>10. QED
    BY <1>10, <1>11, <2>1, <2>3, <2>5, <2>7, <2>9 DEF Inv
<1>13. CASE ~InTable(d, d.UserChoose)
  <2>1. e.MenuPoint = OutOfTable
    BY <1>5, <1>13, EnterOut
  <2> HIDE DEF e
  <2>2. nav' \in Navs /\ nav'.MenuPoint = OutOfTable /\ wild' = "menu"
    BY <1>1, <1>6, <2>1, GotoIs
  <2>3. OwnSelection' /\ Returns
    BY <1>7, <2>2 DEF OwnSelection, Returns
  <2>4. QED
    BY <1>10, <1>11, <2>2, <2>3 DEF Inv
<1>14. QED
  BY <1>12, <1>13

\* enter on the list of recordings.
LEMMA EnterListKeeps ==
  ASSUME Inv, "empty" \notin Faults, EnterList
  PROVE  Inv' /\ Returns
<1>1. /\ Selected("list")
      /\ UNCHANGED <<editor, affirmRecode, updownchoose, usb_wr_flag, signal, ending, count,
                     locked, armed, cut>>
      /\ plugs' = IF online' = online THEN plugs ELSE plugs + 1
  BY DEF EnterList
<1>2. Files = {2}
  BY DEF Files
<1>3. CASE online /\ \E n \in Files : Enter([nav EXCEPT !.files = n]) /\ online' = online
  <2>1. Enter([nav EXCEPT !.files = 2]) /\ online' = online
    BY <1>2, <1>3
  <2>2. UNCHANGED stick
    BY <1>1, <2>1 DEF stick
  <2>3. QED
    BY <1>1, <2>1, <2>2, ListKeeps
<1>4. CASE ~online /\ Enter(ParenMenu(nav)) /\ online' = online
  <2>1. UNCHANGED stick
    BY <1>1, <1>4 DEF stick
  <2>2. QED
    BY <1>1, <1>4, <2>1, ReenterKeeps
<1>5. CASE /\ ~online /\ plugs < Plugs /\ online' = TRUE
           /\ \E n \in Files :
                Goto(ShowMenu(Scroll(EnterChild([CurrentMenu(nav, 0) EXCEPT !.files = n]))))
           /\ displaced' = (nav'.MenuPoint = OutOfTable)
  <2>1. Goto(ShowMenu(Scroll(EnterChild([CurrentMenu(nav, 0) EXCEPT !.files = 2]))))
    BY <1>2, <1>5
  <2>2. plugs' = plugs + 1
    BY <1>1, <1>5
  <2>3. QED
    BY <1>1, <1>5, <2>1, <2>2, LateListKeeps
<1>6. QED
  BY <1>3, <1>4, <1>5 DEF EnterList

\* enter on a recording.
LEMMA EnterPlayKeeps ==
  ASSUME Inv, EnterPlay
  PROVE  Inv' /\ Returns
<1>1. /\ Selected("play") /\ signal' \in {"read", signal} /\ Enter(nav)
      /\ cut' = IF signal' = "read" THEN cut \cup count ELSE cut
      /\ UNCHANGED <<editor, affirmRecode, updownchoose, usb_wr_flag, ending, count, locked, stick>>
  BY DEF EnterPlay
<1>2. /\ wild = "no" /\ editor = NoEditor /\ signal = "none"
      /\ EntryOk(nav.MenuPoint, nav.UserChoose + 1, [sub |-> Subs(nav), child |-> Child(nav)])
      /\ Subs(nav).kind = "play"
  BY <1>1, SelectedIs
<1>3. Child(nav) = NULL
  BY <1>2 DEF EntryOk
<1>4. /\ nav' \in Navs /\ wild' = "no" /\ NavOk(nav') /\ Shown(nav') /\ displaced' \in BOOLEAN
      /\ OwnSelection' /\ Returns
      /\ nav'.MenuPoint = nav.MenuPoint /\ (displaced' <=> displaced)
  BY <1>1, <1>3, EnterNav
<1>5. count \subseteq cut /\ count \subseteq Pages /\ cut \subseteq Pages
  BY <1>2, NoPage, TypesAre
<1>6. count' \subseteq cut' /\ cut' \subseteq Pages /\ signal' \in {"none", "read"}
  BY <1>1, <1>2, <1>5
<1>7. TypeOK'
  BY <1>1, <1>4, <1>6, TypesAre, TypesKept DEF stick
<1>8. PagesReset' /\ NormInv' /\ PagesInv'
  BY <1>6 DEF PagesReset, NormInv, PagesInv
<1>9. ClaimInv
  BY <1>2, Facts
<1>10. EditorInv' /\ ClaimInv'
  BY <1>1, <1>2, <1>4, <1>9 DEF EditorInv, ClaimInv
<1>11. QED
  BY <1>4, <1>7, <1>8, <1>10 DEF Inv

\* The steps that leave the menu and its selection alone.
LEMMA SameMenu ==
  ASSUME Inv, wild = "no", nav' = nav
  PROVE  /\ Returns
         /\ NavOk(nav') /\ Shown(nav')
         /\ displaced' = displaced => /\ wild' # "menu" => OwnSelection'
                                      /\ wild' = "menu" /\ displaced => OwnSelection'
<1>1. NavOk(nav) /\ Shown(nav) /\ nav.rtr_count \in Levels
  BY Facts
<1>2. Returns
  BY <1>1 DEF Returns, Levels
<1>3. displaced' = displaced => /\ wild' # "menu" => OwnSelection'
                                /\ wild' = "menu" /\ displaced => OwnSelection'
  BY DEF Inv, OwnSelection
<1>4. QED
  BY <1>1, <1>2, <1>3

\* enter behind the table: only where the selection is not the user's own.
LEMMA EnterNowhereKeeps ==
  ASSUME Inv, EnterNowhere
  PROVE  Inv' /\ Returns
<1>1. /\ wild = "no" /\ ~InTable(nav, nav.UserChoose) /\ wild' = "menu"
      /\ UNCHANGED <<keys, signal, ending, count, locked, stick, displaced, cut>>
  BY DEF EnterNowhere, Browsing, Heard
<1>2. displaced
  BY <1>1 DEF Inv, OwnSelection
<1>3. OwnSelection' /\ Returns
  BY <1>1, <1>2, SameMenu DEF keys
<1>4. TypeOK'
  BY <1>1, TypesAre, TypesKept DEF keys, stick
<1>5. PagesReset'
  BY <1>1, <1>2 DEF Inv, PagesReset, keys
<1>6. QED
  BY <1>1, <1>3, <1>4, <1>5 DEF Inv

\* A step in an editor that stays in it.
LEMMA StayKeeps ==
  ASSUME Inv, wild = "no", signal # "normal", nav' = nav, editor' = editor,
         affirmRecode' \in 0 .. 2, updownchoose' \in 0 .. 9, usb_wr_flag' \in {"SET", "START", "CTL"},
         wild' \in {"no", "option"}, signal' \in {"none", "write", "read"},
         cut' = cut \/ cut' = cut \cup count, ending' \in {"none", "write", "read"},
         locked' \in {"boot", "locked", "open"}, online' \in BOOLEAN, armed' \in BOOLEAN,
         UNCHANGED <<count, plugs, displaced>>
  PROVE  Inv' /\ Returns
<1>1. Returns /\ NavOk(nav') /\ Shown(nav') /\ OwnSelection'
  BY SameMenu
<1>2. cut' \subseteq Pages /\ count' \subseteq cut'
  BY TypesAre, NoPage
<1>3. TypeOK'
  BY <1>2, TypesAre, TypesKept
<1>4. EditorInv /\ ClaimInv
  BY Facts
<1>5. PagesReset' /\ NormInv' /\ PagesInv' /\ EditorInv' /\ ClaimInv'
  BY <1>2, <1>4 DEF PagesReset, NormInv, PagesInv, EditorInv, ClaimInv
<1>6. QED
  BY <1>1, <1>3, <1>5 DEF Inv

\* up and down in an editor.
LEMMA EditMoveKeeps ==
  ASSUME Inv, EditMove
  PROVE  Inv' /\ Returns
<1>1. /\ wild = "no" /\ signal = "none" /\ updownchoose' \in Moved /\ editor.kind \in Choices
      /\ editor # NoEditor
      /\ UNCHANGED <<nav, editor, affirmRecode, usb_wr_flag, signal, ending, count, locked, stick,
                     displaced, cut, wild>>
  BY DEF EditMove, Editing, Heard
<1>2. updownchoose' \in 0 .. 9
  <2>1. editor.of \in 0 .. 10 /\ updownchoose \in 0 .. 9
    BY <1>1, TypesAre
  <2>2. QED
    BY <1>1, <2>1 DEF Moved
<1>3. QED
  BY <1>1, <1>2, TypesAre, StayKeeps DEF stick

\* A press of enter that stays in the editor.
LEMMA EditEnterKeeps ==
  ASSUME Inv, EditEnter
  PROVE  Inv' /\ Returns
<1>1. /\ wild = "no" /\ editor # NoEditor
      /\ affirmRecode' = IF affirmRecode = 2 THEN 0 ELSE affirmRecode + 1
      /\ UNCHANGED <<nav, editor, updownchoose, usb_wr_flag, signal, ending, count, locked, stick,
                     displaced, cut, wild>>
  BY DEF EditEnter, Editing, Heard
<1>2. signal # "normal"
  BY <1>1, Facts DEF EditorInv
<1>3. affirmRecode' \in 0 .. 2 /\ signal' \in {"none", "write", "read"}
  BY <1>1, <1>2, TypesAre
<1>4. QED
  BY <1>1, <1>2, <1>3, TypesAre, StayKeeps DEF stick

\* The press that asks for a recording.
LEMMA EditAskKeeps ==
  ASSUME Inv, EditAsk
  PROVE  Inv' /\ Returns
<1>1. /\ wild = "no" /\ editor # NoEditor /\ affirmRecode' = 2 /\ usb_wr_flag' = "CTL"
      /\ \/ signal' = "write" /\ cut' = cut \cup count
         \/ signal' = signal /\ cut' = cut
      /\ UNCHANGED <<nav, editor, updownchoose, ending, count, locked, stick, displaced, wild>>
  BY DEF EditAsk, Editing, Heard
<1>2. signal # "normal"
  BY <1>1, Facts DEF EditorInv
<1>3. affirmRecode' \in 0 .. 2 /\ signal' \in {"none", "write", "read"}
  BY <1>1, <1>2, TypesAre
<1>4. QED
  BY <1>1, <1>2, <1>3, TypesAre, StayKeeps DEF stick

\* up and down after the second press.
LEMMA EditMoveLateKeeps ==
  ASSUME Inv, EditMoveLate
  PROVE  Inv' /\ Returns
<1>1. /\ wild = "no" /\ editor # NoEditor /\ signal = "none" /\ editor.kind \in Choices
      /\ UNCHANGED <<nav, usb_wr_flag, signal, ending, count, locked, stick, cut>>
  BY DEF EditMoveLate, Editing, Heard
<1>2. PICK next \in {updownchoose + 1, updownchoose - 1} :
         IF next \in 0 .. (editor.of - 1)
         THEN /\ wild' = wild
              /\ IF editor.kind = "record"
                 THEN updownchoose' = next /\ UNCHANGED <<editor, affirmRecode, displaced>>
                 ELSE Close /\ displaced' = TRUE
         ELSE wild' = "option" /\ UNCHANGED <<editor, affirmRecode, updownchoose, displaced>>
  BY DEF EditMoveLate
<1>3. editor.of \in 0 .. 10
  BY <1>1, TypesAre
<1>4. CASE next \in 0 .. (editor.of - 1) /\ editor.kind = "record"
  <2>1. next \in 0 .. 9
    BY <1>3, <1>4
  <2>2. QED
    BY <1>1, <1>2, <1>4, <2>1, TypesAre, StayKeeps DEF stick
<1>5. CASE next \notin 0 .. (editor.of - 1)
  BY <1>1, <1>2, <1>5, TypesAre, StayKeeps DEF stick
<1>6. CASE next \in 0 .. (editor.of - 1) /\ editor.kind # "record"
  <2>1. wild' = "no" /\ Close /\ displaced' = TRUE
    BY <1>1, <1>2, <1>6
  <2>2. Returns /\ NavOk(nav') /\ Shown(nav')
    BY <1>1, SameMenu
  <2>3. TypeOK'
    BY <1>1, <2>1, TypesAre, TypesKept DEF Close, stick
  <2>4. OwnSelection' /\ ClaimInv' /\ EditorInv'
    BY <2>1 DEF OwnSelection, ClaimInv, EditorInv, Close
  <2>5. count \subseteq cut
    BY <1>1, NoPage
  <2>6. PagesReset' /\ NormInv' /\ PagesInv'
    BY <1>1, <2>5 DEF PagesReset, NormInv, PagesInv
  <2>7. QED
    BY <2>2, <2>3, <2>4, <2>6 DEF Inv
<1>7. QED
  BY <1>4, <1>5, <1>6

\* The steps of other threads that leave the menu alone.
LEMMA UnplugKeeps ==
  ASSUME Inv, Unplug
  PROVE  Inv' /\ Returns
<1>1. /\ wild = "no" /\ online' = FALSE /\ armed' = FALSE
      /\ UNCHANGED <<keys, plugs, signal, ending, count, locked, displaced, cut, wild>>
  BY DEF Unplug
<1>2. Returns /\ NavOk(nav') /\ Shown(nav') /\ OwnSelection'
  BY <1>1, SameMenu DEF keys
<1>3. TypeOK'
  BY <1>1, TypesAre, TypesKept DEF keys
<1>4. EditorInv /\ ClaimInv /\ NormInv /\ PagesInv
  BY <1>1, Facts
<1>5. EditorInv' /\ ClaimInv' /\ NormInv' /\ PagesInv' /\ PagesReset'
  BY <1>1, <1>4 DEF EditorInv, ClaimInv, NormInv, PagesInv, Inv, PagesReset, keys
<1>6. QED
  BY <1>2, <1>3, <1>5 DEF Inv

\* A session takes the display, or gives it back.
LEMMA SessionKeeps ==
  ASSUME Inv, wild = "no", wild' = "no", nav' = nav, editor' = editor,
         signal' \in {"none", "write", "read"}, count' \subseteq cut', cut' \subseteq Pages,
         usb_wr_flag' \in {"SET", "START", "CTL"}, ending' \in {"none", "write", "read"},
         locked' \in {"boot", "locked", "open"}, armed' \in BOOLEAN,
         UNCHANGED <<affirmRecode, updownchoose, count, online, plugs, displaced>>
  PROVE  Inv' /\ Returns
<1>1. Returns /\ NavOk(nav') /\ Shown(nav') /\ OwnSelection'
  BY SameMenu
<1>2. TypeOK'
  BY TypesAre, TypesKept
<1>3. EditorInv /\ ClaimInv
  BY Facts
<1>4. PagesReset' /\ NormInv' /\ PagesInv' /\ EditorInv' /\ ClaimInv'
  BY <1>3 DEF PagesReset, NormInv, PagesInv, EditorInv, ClaimInv
<1>5. QED
  BY <1>1, <1>2, <1>4 DEF Inv

\* An automatic recording begins.
LEMMA AutoRecordKeeps ==
  ASSUME Inv, AutoRecord
  PROVE  Inv' /\ Returns
<1>1. /\ wild = "no" /\ armed' = FALSE /\ signal' = "write" /\ cut' = cut \cup count
      /\ locked' \in {locked, "open"}
      /\ UNCHANGED <<keys, ending, count, online, plugs, displaced, wild>>
  BY DEF AutoRecord
<1>2. count' \subseteq cut' /\ cut' \subseteq Pages
  BY <1>1, TypesAre
<1>3. QED
  BY <1>1, <1>2, TypesAre, SessionKeeps DEF keys

\* A session says "stop...".
LEMMA SessionClosesKeeps ==
  ASSUME Inv, SessionCloses
  PROVE  Inv' /\ Returns
<1>1. /\ wild = "no" /\ signal \in {"write", "read"} /\ ending' = signal /\ signal' = "none"
      /\ usb_wr_flag' \in {"SET", usb_wr_flag}
      /\ UNCHANGED <<nav, editor, affirmRecode, updownchoose, count, locked, stick, displaced,
                     cut, wild>>
  BY DEF SessionCloses
<1>2. count' \subseteq cut'
  BY <1>1, NoPage
<1>3. QED
  BY <1>1, <1>2, TypesAre, SessionKeeps DEF stick

\* current_menu in another thread puts a selection of its own in the place of the user's.
LEMMA DisplaceKeeps ==
  ASSUME Inv, wild = "no", NEW e, NavOk(e), Shown(e), Displace(e),
         e.MenuPoint = nav.MenuPoint, e.files = nav.files, e.rtr_count = nav.rtr_count,
         e.menu_return_arr = nav.menu_return_arr,
         nav.rtr_count = 0 => e.UserChoose = nav.menu_return_arr[0].option,
         editor' \in {editor, NoEditor},
         nav.MenuPoint \in Claimers /\ nav.UserChoose = 0 /\ editor' # editor => e.UserChoose # 0,
         affirmRecode' \in 0 .. 2, updownchoose' \in 0 .. 9, ending' \in {"none", "write", "read"},
         locked' \in {"boot", "locked", "open"}, plugs' \in 0 .. Plugs,
         online' \in BOOLEAN, armed' \in BOOLEAN,
         UNCHANGED <<usb_wr_flag, signal, count>>
  PROVE  Inv' /\ Returns
<1> DEFINE moved == <<e.UserChoose, e.DisplayStart>> # <<nav.UserChoose, nav.DisplayStart>>
<1>1. /\ NavOk(nav) /\ EditorInv /\ ClaimInv /\ NormInv /\ PagesInv /\ displaced \in BOOLEAN
      /\ nav.MenuPoint \in Menus /\ nav.rtr_count \in Levels
      /\ nav.rtr_count = 0 <=> nav.MenuPoint = "MainMenu"
  BY Facts
<1>2. Goto(e) /\ displaced' = (displaced \/ moved)
      /\ cut' = IF displaced' /\ signal = "normal" THEN cut \cup count ELSE cut
  BY DEF Displace
<1>3. e.MenuPoint # OutOfTable
  BY <1>1, MenuNames
<1>4. nav' = e /\ wild' = "no" /\ nav' \in Navs
  BY <1>2, <1>3, GotoIs
<1>5. displaced' \in BOOLEAN /\ (displaced' <=> displaced \/ moved)
  BY <1>1, <1>2
<1>6. ~moved => e.UserChoose = nav.UserChoose /\ e.DisplayStart = nav.DisplayStart
  OBVIOUS
<1> HIDE DEF moved
<1>7. ~displaced' => /\ ~displaced
                     /\ e.UserChoose = nav.UserChoose /\ e.DisplayStart = nav.DisplayStart
  BY <1>5, <1>6
<1>8. ItemsOf(e) = ItemsOf(nav)
  BY DEF ItemsOf
<1>9. e.UserChoose = nav.UserChoose =>
        Subs(e) = Subs(nav) /\ (InTable(e, e.UserChoose) <=> InTable(nav, nav.UserChoose))
  BY <1>8 DEF Subs, InTable
<1>10. e.UserChoose \in {e.DisplayStart, e.DisplayStart + 1}
  BY DEF NavOk, Windowed
<1>11. OwnSelection'
  BY <1>4, <1>7, <1>9, <1>10 DEF Inv, OwnSelection
<1>12. cut' \subseteq Pages
  BY <1>2, TypesAre
<1>13. TypeOK'
  BY <1>4, <1>5, <1>12, TypesAre, TypesKept
<1>14. EditorInv'
  BY <1>1, <1>4 DEF EditorInv
<1>15. ClaimInv'
  BY <1>1, <1>4, <1>7 DEF ClaimInv
<1>16. NormInv'
  <2>1. displaced => displaced'
    BY <1>5
  <2>2. QED
    BY <1>1, <1>4, <2>1 DEF NormInv
<1>17. PagesReset' /\ PagesInv'
  <2>1. CASE signal # "normal"
    <3>1. count \subseteq cut /\ cut' = cut
      BY <1>2, <2>1, NoPage
    <3>2. QED
      BY <2>1, <3>1 DEF PagesReset, PagesInv
  <2>2. CASE signal = "normal" /\ displaced'
    <3>1. count' \ cut' = {}
      BY <1>2, <2>2
    <3>2. QED
      BY <2>2, <3>1 DEF PagesReset, PagesInv
  <2>3. CASE signal = "normal" /\ ~displaced'
    <3>1. cut' = cut /\ Subs(nav') = Subs(nav) /\ ~displaced
          /\ (InTable(nav', nav'.UserChoose) <=> InTable(nav, nav.UserChoose))
      BY <1>2, <1>4, <1>7, <1>9, <2>3
    <3>2. Subs(nav).kind = "page" /\ Subs(nav).of \in count
      BY <2>3, <3>1 DEF Inv, PagesReset
    <3>3. QED
      BY <1>1, <2>3, <3>1, <3>2 DEF PagesReset, PagesInv
  <2>4. QED
    BY <2>1, <2>2, <2>3
<1>18. Returns
  BY <1>1, <1>4 DEF Returns, Levels
<1>19. QED
  BY <1>4, <1>11, <1>13, <1>14, <1>15, <1>16, <1>17, <1>18 DEF Inv

\* A stick is put in.
LEMMA PlugKeeps ==
  ASSUME Inv, Plug
  PROVE  Inv' /\ Returns
<1> DEFINE e == CurrentMenu(nav, 0)
<1>1. /\ wild = "no" /\ plugs < Plugs /\ plugs' = plugs + 1 /\ online' = TRUE
      /\ armed' = ("auto" \in Faults) /\ Displace(e)
      /\ UNCHANGED <<editor, affirmRecode, updownchoose, usb_wr_flag, signal, ending, count, locked>>
  BY DEF Plug
<1>2. NavOk(nav) /\ nav.rtr_count \in Levels
  BY <1>1, Facts
<1>3. (IF nav.rtr_count >= 0 THEN nav.rtr_count - 0 ELSE 0) = nav.rtr_count
  BY <1>2 DEF Levels
<1>4. /\ NavOk(e) /\ Shown(e) /\ e.MenuPoint = nav.MenuPoint /\ e.files = nav.files
      /\ e.rtr_count = nav.rtr_count /\ e.menu_return_arr = nav.menu_return_arr
      /\ e.UserChoose = nav.menu_return_arr[nav.rtr_count].option
  BY <1>2, <1>3, CurrentOk
<1> HIDE DEF e
<1>5. plugs' \in 0 .. Plugs
  BY <1>1, TypesAre, MenuNavAssumption
<1>6. armed' \in BOOLEAN
  BY <1>1
<1>7. QED
  BY <1>1, <1>4, <1>5, <1>6, TypesAre, DisplaceKeeps

\* The key lock.
LEMMA LockKeyKeeps ==
  ASSUME Inv, LockKey
  PROVE  Inv' /\ Returns
<1>1. /\ wild = "no" /\ editor = NoEditor /\ signal = "none"
      /\ UNCHANGED <<editor, affirmRecode, updownchoose, usb_wr_flag, signal, ending, count, stick>>
  BY DEF LockKey
<1>2. CASE locked # "locked"
  <2>1. locked' = "locked" /\ UNCHANGED <<nav, displaced, cut, wild>>
    BY <1>2 DEF LockKey
  <2>2. QED
    BY <1>1, <2>1, TypesAre, StayKeeps DEF stick
<1>3. CASE locked = "locked"
  <2> DEFINE e == CurrentMenu(nav, 0)
  <2>1. locked' = "open" /\ Displace(Scroll(e))
    BY <1>3 DEF LockKey
  <2>2. NavOk(nav) /\ nav.rtr_count \in Levels
    BY <1>1, Facts
  <2>3. (IF nav.rtr_count >= 0 THEN nav.rtr_count - 0 ELSE 0) = nav.rtr_count
    BY <2>2 DEF Levels
  <2>4. /\ NavOk(e) /\ Shown(e) /\ e.MenuPoint = nav.MenuPoint /\ e.files = nav.files
        /\ e.rtr_count = nav.rtr_count /\ e.menu_return_arr = nav.menu_return_arr
        /\ e.UserChoose = nav.menu_return_arr[nav.rtr_count].option
    BY <2>2, <2>3, CurrentOk
  <2> HIDE DEF e
  <2>5. Scroll(e) = e
    BY <2>4, ScrollStays DEF NavOk, Windowed
  <2>6. Displace(e)
    BY <2>1, <2>5
  <2>7. QED
    BY <1>1, <2>1, <2>4, <2>6, TypesAre, DisplaceKeeps DEF stick
<1>4. QED
  BY <1>2, <1>3

\* The end of a recording shows the menu with the selection of the one above.
LEMMA WriteReturns ==
  ASSUME Inv, wild = "no", Close, Displace(CurrentMenu(nav, 1)), ending' = "none",
         UNCHANGED <<usb_wr_flag, signal, count, locked, stick>>
  PROVE  Inv' /\ Returns
<1> DEFINE e == CurrentMenu(nav, 1)
           n == IF nav.rtr_count >= 1 THEN nav.rtr_count - 1 ELSE 0
<1>1. NavOk(nav) /\ nav.rtr_count \in Levels /\ nav.MenuPoint \in Menus /\ nav.files \in {0, 2}
      /\ nav \in Navs
  BY Facts
<1>2. /\ NavOk(e) /\ Shown(e) /\ e.MenuPoint = nav.MenuPoint /\ e.files = nav.files
      /\ e.rtr_count = nav.rtr_count /\ e.menu_return_arr = nav.menu_return_arr
      /\ e.UserChoose = nav.menu_return_arr[n].option
  BY <1>1, CurrentOk
<1>3. Displace(e)
  OBVIOUS
<1> HIDE DEF e
<1>4. nav.MenuPoint \in Claimers => e.UserChoose # 0
  <2> SUFFICES ASSUME nav.MenuPoint \in Claimers PROVE e.UserChoose # 0
    OBVIOUS
  <2>1. PICK path : Trail(path, nav)
    BY <1>1 DEF NavOk
  <2>2. nav.MenuPoint # "MainMenu"
    BY DEF Claimers
  <2>3. nav.rtr_count > 0
    BY <1>1, <2>1, <2>2, TrailTop DEF Levels
  <2>4. n = nav.rtr_count - 1
    BY <1>1, <2>3 DEF Levels
  <2>5. n \in Levels /\ path[n] \in Menus
        /\ Leads(nav.files, nav.menu_return_arr[n], path[n], nav.MenuPoint)
    BY <1>1, <2>1, <2>3, <2>4, TrailTop
  <2> HIDE DEF n
  <2>6. nav.menu_return_arr[n].option + 1 \in 1 .. Len(Items(path[n], nav.files))
        /\ Items(path[n], nav.files)[nav.menu_return_arr[n].option + 1].child \in Claimers
    BY <2>5 DEF Leads
  <2>7. nav.menu_return_arr[n].option + 1 # 1
    BY <1>1, <2>5, <2>6, ItemsAre DEF EntryOk
  <2>8. nav.menu_return_arr[n].option \in 0 .. 9
    BY <1>1, <2>5 DEF Navs, Places
  <2>9. QED
    BY <1>2, <2>7, <2>8
<1>5. nav.rtr_count = 0 => e.UserChoose = nav.menu_return_arr[0].option
  BY <1>1, <1>2 DEF Levels
<1> HIDE DEF n
<1>6. editor' = NoEditor /\ affirmRecode' \in 0 .. 2 /\ updownchoose' \in 0 .. 9
  BY DEF Close
<1>7. QED
  BY <1>2, <1>3, <1>4, <1>5, <1>6, TypesAre, DisplaceKeeps DEF stick

\* The end of a playback shows the menu above.
LEMMA ReadReturns ==
  ASSUME Inv, wild = "no", Close, Goto(ParenMenu(nav)), ending' = "none",
         displaced' = (signal = "normal" \/ nav'.MenuPoint = OutOfTable),
         cut' = IF signal = "normal" THEN cut \cup count ELSE cut,
         UNCHANGED <<usb_wr_flag, signal, count, locked, stick>>
  PROVE  Inv' /\ Returns
<1> DEFINE e == ParenMenu(nav)
           arr == nav.menu_return_arr
<1>1. /\ NavOk(nav) /\ NormInv /\ nav.rtr_count \in Levels /\ nav.MenuPoint \in Menus
      /\ nav.files \in {0, 2} /\ nav.UserChoose \in 0 .. 9
      /\ nav.rtr_count = 0 <=> nav.MenuPoint = "MainMenu"
  BY Facts
<1>2. e.MenuPoint # OutOfTable =>
        /\ NavOk(e) /\ Shown(e) /\ e.MenuPoint \in DOMAIN Tables /\ e.files = nav.files
        /\ InTable(e, e.UserChoose)
        /\ e.rtr_count = 0 => e.UserChoose = arr[0].option /\ e.menu_return_arr = arr
        /\ nav.rtr_count = 0 => e.MenuPoint = nav.MenuPoint /\ e.rtr_count = 0
        /\ nav.rtr_count > 0 => /\ Child(e) = nav.MenuPoint /\ e.rtr_count = nav.rtr_count - 1
                                /\ e.MenuPoint = ParentMenus(nav.MenuPoint, nav.files)
  BY <1>1, ParenOk
<1>3. Goto(e)
  OBVIOUS
<1> HIDE DEF e
<1>4. /\ nav' \in Navs
      /\ \/ e.MenuPoint # OutOfTable /\ nav' = e /\ wild' = "no"
         \/ e.MenuPoint = OutOfTable /\ nav'.MenuPoint = OutOfTable /\ wild' = "menu"
  BY <1>2, <1>3, GotoIs
<1>5. displaced' \in BOOLEAN /\ (displaced' <=> signal = "normal" \/ nav'.MenuPoint = OutOfTable)
  OBVIOUS
<1>6. cut' \subseteq Pages
  BY TypesAre
<1>7. TypeOK'
  BY <1>4, <1>5, <1>6, TypesAre, TypesKept DEF Close, stick
<1>8. count' \subseteq cut'
  BY NoPage
<1>9. PagesReset' /\ PagesInv'
  <2>1. signal' = "normal" => displaced'
    BY <1>5
  <2>2. QED
    BY <1>8, <2>1 DEF PagesReset, PagesInv
<1>10. CASE e.MenuPoint = OutOfTable
  <2>1. wild' = "menu" /\ displaced'
    BY <1>4, <1>5, <1>10
  <2>2. OwnSelection' /\ Returns
    BY <2>1 DEF OwnSelection, Returns
  <2>3. QED
    BY <1>7, <1>9, <2>1, <2>2 DEF Inv
<1>11. CASE e.MenuPoint # OutOfTable
  <2>1. nav' = e /\ wild' = "no"
    BY <1>4, <1>11
  <2>2. e.UserChoose \in {e.DisplayStart, e.DisplayStart + 1}
    BY <1>2, <1>11 DEF NavOk, Windowed
  <2>3. OwnSelection'
    BY <1>2, <1>11, <2>1, <2>2 DEF OwnSelection
  <2>4. e.MenuPoint \notin Claimers
    BY <1>2, <1>11, MenuNames, ClaimersAre
  <2>5. ClaimInv' /\ EditorInv'
    BY <2>1, <2>4 DEF ClaimInv, EditorInv, Close
  <2>6. Returns
    BY <1>1, <1>2, <1>11, <2>1 DEF Returns, Levels
  <2>7. NormInv'
    <3> SUFFICES ASSUME signal' = "normal"
                 PROVE  /\ e.MenuPoint \in Shows \cup {"MainMenu"}
                        /\ e.MenuPoint = "MainMenu" =>
                             e.UserChoose = 0 /\ e.menu_return_arr[0].option = 0 /\ displaced'
      BY <2>1 DEF NormInv
    <3>1. displaced' /\ signal = "normal"
      BY <1>5
    <3>2. /\ nav.MenuPoint \in Shows \cup {"MainMenu"}
          /\ nav.MenuPoint = "MainMenu" => arr[0].option = 0
      BY <1>1, <3>1 DEF NormInv
    <3>3. CASE nav.rtr_count = 0
      BY <1>1, <1>2, <1>11, <3>1, <3>2, <3>3
    <3>4. CASE nav.rtr_count # 0
      <4>1. nav.rtr_count > 0 /\ nav.MenuPoint # "MainMenu" /\ nav.MenuPoint \in Shows
        BY <1>1, <3>2, <3>4 DEF Levels
      <4>2. /\ Child(e) = nav.MenuPoint /\ e.rtr_count = nav.rtr_count - 1
            /\ e.MenuPoint = ParentMenus(nav.MenuPoint, nav.files)
        BY <1>2, <1>11, <4>1
      <4>3. /\ \A m \in Shows : m \in DOMAIN Tables
            /\ \A m \in Shows : TableParents[m] \in {"sysStatus", "MainMenu"}
            /\ \A m \in Shows : TableParents[m] = "MainMenu" => m = "sysStatus"
        BY DEF Shows, Tables, TableParents
      <4>4. /\ e.MenuPoint \in {"sysStatus", "MainMenu"}
            /\ e.MenuPoint = "MainMenu" => nav.MenuPoint = "sysStatus"
        BY <4>1, <4>2, <4>3, ParentsAre
      <4>5. ASSUME e.MenuPoint = "MainMenu"
            PROVE  e.UserChoose = 0 /\ e.menu_return_arr[0].option = 0
        <5>1. e.UserChoose \in 0 .. 9
          BY <1>2, <1>11 DEF NavOk, Navs
        <5>2. EntryOk("MainMenu", e.UserChoose + 1, ItemsOf(e)[e.UserChoose + 1])
          BY <1>2, <1>11, <4>5, <5>1, EntryIs
        <5>3. Child(e) = "sysStatus"
          BY <4>2, <4>4, <4>5
        <5>4. e.UserChoose + 1 = 1
          BY <5>2, <5>3 DEF EntryOk, Child
        <5>5. e.UserChoose = 0
          BY <5>1, <5>4
        <5>6. e.rtr_count = 0
          <6>1. PICK path : Trail(path, e)
            BY <1>2, <1>11 DEF NavOk
          <6>2. QED
            BY <1>2, <1>11, <4>5, <6>1, TrailTop
        <5>7. QED
          BY <1>2, <1>11, <5>5, <5>6
      <4>6. QED
        BY <3>1, <4>4, <4>5 DEF Shows
    <3>5. QED
      BY <3>3, <3>4
  <2>8. NavOk(nav') /\ Shown(nav')
    BY <1>2, <1>11, <2>1
  <2>9. QED
    BY <1>7, <1>9, <2>3, <2>5, <2>6, <2>7, <2>8 DEF Inv
<1>12. QED
  BY <1>10, <1>11

\* The menu is shown again after a session.
LEMMA SessionReturnsKeeps ==
  ASSUME Inv, SessionReturns
  PROVE  Inv' /\ Returns
<1>1. /\ wild = "no" /\ ending' = "none" /\ Close
      /\ UNCHANGED <<usb_wr_flag, signal, count, locked, stick>>
  BY DEF SessionReturns
<1>2. CASE ending = "write"
  <2>1. Displace(CurrentMenu(nav, 1))
    BY <1>2 DEF SessionReturns
  <2>2. QED
    BY <1>1, <2>1, WriteReturns
<1>3. CASE ending # "write"
  <2>1. /\ Goto(ParenMenu(nav))
        /\ displaced' = (signal = "normal" \/ nav'.MenuPoint = OutOfTable)
        /\ cut' = IF signal = "normal" THEN cut \cup count ELSE cut
    BY <1>3 DEF SessionReturns
  <2>2. QED
    BY <1>1, <2>1, ReadReturns
<1>4. QED
  BY <1>2, <1>3

\* At start the main menu is shown.
LEMMA InitInv ==
  ASSUME Init
  PROVE  Inv
<1>1. "MainMenu" \in Menus /\ Depth["MainMenu"] = 0
  BY DepthIs
<1>2. /\ Start \in Navs /\ Start.MenuPoint = "MainMenu" /\ Start.UserChoose = 0
      /\ Start.DisplayStart = 0 /\ Start.rtr_count = 0 /\ Start.files = 0
      /\ \A n \in Levels : Start.menu_return_arr[n] = [option |-> 0, displaystart |-> 0, menupoint |-> NULL]
  BY <1>1 DEF Start, Navs, Levels, Places
<1>3. Windowed(Start) /\ Main(Start)
  BY <1>2 DEF Windowed, Main, Levels
<1>4. Trail([n \in Levels |-> "MainMenu"], Start)
  BY <1>1, <1>2 DEF Trail, Levels
<1>5. "MainMenu" # "FileBrowse"
  OBVIOUS
<1>6. NavOk(Start)
  BY <1>1, <1>2, <1>3, <1>4, <1>5 DEF NavOk
<1>7. nav = ShowMenu(Start)
  BY DEF Init
<1>8. NavOk(nav) /\ Shown(nav) /\ Alike(Start, nav)
  BY <1>6, <1>7, DrawnOk
<1>9. nav \in Navs /\ nav.MenuPoint = "MainMenu" /\ nav.UserChoose = 0 /\ nav.DisplayStart = 0
  BY <1>2, <1>8 DEF Alike, NavOk
<1>10. InTable(nav, nav.UserChoose)
  BY <1>8, <1>9, InTables DEF NavOk, Navs
<1>11. TypeOK
  <2>1. /\ editor = NoEditor /\ affirmRecode = 0 /\ updownchoose = 0 /\ usb_wr_flag = "SET"
        /\ signal = "none" /\ ending = "none" /\ count = {} /\ locked = "boot"
        /\ online \in BOOLEAN /\ armed = FALSE /\ plugs = 0
        /\ displaced = FALSE /\ cut = {} /\ wild = "no"
    BY DEF Init
  <2>2. plugs \in 0 .. Plugs
    BY <2>1, MenuNavAssumption
  <2>3. {online, armed, displaced} \subseteq BOOLEAN
    BY <2>1
  <2>4. QED
    BY <1>9, <2>1, <2>2, <2>3 DEF TypeOK
<1>12. OwnSelection /\ PagesReset
  BY <1>9, <1>10 DEF Init, OwnSelection, PagesReset
<1>13. EditorInv /\ ClaimInv /\ NormInv /\ PagesInv
  BY <1>9 DEF Init, EditorInv, ClaimInv, NormInv, PagesInv, Claimers
<1>14. QED
  BY <1>8, <1>11, <1>12, <1>13 DEF Inv

\* Every step keeps the invariant, and the ways back lead to the entry they came from.
LEMMA StepKeeps ==
  ASSUME Inv, "empty" \notin Faults, [Next]_vars
  PROVE  Inv' /\ [Returns]_vars
<1>1. CASE UNCHANGED vars
  <2>1. UNCHANGED <<nav, editor, affirmRecode, updownchoose, usb_wr_flag, signal, ending, count,
                    locked, online, armed, plugs, displaced, cut, wild>>
    BY <1>1 DEF vars, keys, stick
  <2>2. TypeOK' /\ OwnSelection' /\ PagesReset'
    BY <2>1 DEF Inv, TypeOK, OwnSelection, PagesReset
  <2>3. wild' = "no" => /\ NavOk(nav') /\ Shown(nav') /\ EditorInv' /\ ClaimInv' /\ NormInv'
                        /\ PagesInv'
    BY <2>1 DEF Inv, EditorInv, ClaimInv, NormInv, PagesInv
  <2>4. QED
    BY <1>1, <2>2, <2>3 DEF Inv
<1>2. CASE Up \/ Down \/ EscKey
  BY <1>2, UpKeeps, DownKeeps, EscKeyKeeps
<1>3. CASE EnterMenu \/ TogglePage \/ EnterEditor \/ EnterRecord \/ EnterList \/ EnterPlay \/ EnterNowhere
  BY <1>3, EnterMenuKeeps, TogglePageKeeps, EnterEditorKeeps, EnterRecordKeeps, EnterListKeeps,
     EnterPlayKeeps, EnterNowhereKeeps
<1>4. CASE EditEsc \/ EditMove \/ EditMoveLate \/ EditEnter \/ EditSave \/ EditAsk
  BY <1>4, EditEscKeeps, EditMoveKeeps, EditMoveLateKeeps, EditEnterKeeps, EditSaveKeeps, EditAskKeeps
<1>5. CASE LockKey \/ Plug \/ Unplug \/ AutoRecord \/ SessionCloses \/ SessionReturns
  BY <1>5, LockKeyKeeps, PlugKeeps, UnplugKeeps, AutoRecordKeeps, SessionClosesKeeps,
     SessionReturnsKeeps
<1>6. QED
  BY <1>1, <1>2, <1>3, <1>4, <1>5 DEF Next

-----------------------------------------------------------------------------
(* The theorems: of a stick that holds a recording, as the "No TS file" of *)
(* an empty one names the wrong menu (nav_empty).                          *)

\* The invariant holds throughout.
LEMMA AlwaysInv ==
  "empty" \notin Faults /\ Spec => []Inv
<1> DEFINE Safe == "empty" \notin Faults /\ Inv
<1>1. "empty" \notin Faults /\ Init => Safe
  BY InitInv
<1>2. Safe /\ [Next]_vars => Safe'
  BY StepKeeps
<1>3. Safe => Inv
  OBVIOUS
<1> HIDE DEF Safe
<1>4. QED
  BY <1>1, <1>2, <1>3, PTL DEF Spec

\* Every variable keeps a value of its kind; in particular the depth stays a place of
\* menu_return_arr, and the selection stays below ten.
THEOREM NavTypeCorrect == "empty" \notin Faults /\ Spec => []TypeOK
<1>1. Inv => TypeOK
  BY DEF Inv
<1>2. QED
  BY <1>1, AlwaysInv, PTL

\* rtr_count is the depth of the menu shown, whichever threads move either.
THEOREM StackMatchesMenu == "empty" \notin Faults /\ Spec => []DepthMatches
<1>1. Inv => DepthMatches
  <2> SUFFICES ASSUME Inv, wild = "no" PROVE nav.rtr_count = Depth[nav.MenuPoint]
    BY DEF DepthMatches
  <2>1. NavOk(nav)
    BY Facts
  <2>2. PICK path : Trail(path, nav)
    BY <2>1 DEF NavOk
  <2>3. QED
    BY <2>1, <2>2, TrailTop
<1>2. QED
  BY <1>1, AlwaysInv, PTL

\* The selection is an entry of the menu shown, on a line displayed, until current_menu puts
\* another in its place; and enter runs no function from outside a table.
THEOREM SelectionIsOwn == "empty" \notin Faults /\ Spec => []OwnSelection
<1>1. Inv => OwnSelection
  BY DEF Inv
<1>2. QED
  BY <1>1, AlwaysInv, PTL

\* A status page shown is the one selected, and one that is not shown does not count as shown,
\* unless a session or a restored selection took its place.
THEOREM PagesAreReset == "empty" \notin Faults /\ Spec => []PagesReset
<1>1. Inv => PagesReset
  BY DEF Inv
<1>2. QED
  BY <1>1, AlwaysInv, PTL

\* Every step back, by a key or by the end of a playback, selects the entry that leads to the
\* menu just left.
THEOREM BackToEntry == "empty" \notin Faults /\ Spec => EscReturns
<1> DEFINE Safe == "empty" \notin Faults /\ Inv
<1>1. "empty" \notin Faults /\ Init => Safe
  BY InitInv
<1>2. Safe /\ [Next]_vars => Safe'
  BY StepKeeps
<1>3. Safe /\ [Next]_vars =>
        [wild' = "no" /\ nav'.rtr_count < nav.rtr_count
           => InTable(nav', nav'.UserChoose) /\ Child(nav') = nav.MenuPoint]_vars
  BY StepKeeps DEF Returns
<1> HIDE DEF Safe
<1>4. QED
  BY <1>1, <1>2, <1>3, PTL DEF Spec, EscReturns
=============================================================================
