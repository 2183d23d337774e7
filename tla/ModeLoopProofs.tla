---------------------------- MODULE ModeLoopProofs ----------------------------
(***************************************************************************)
(* What holds of the main loop for every set of saves, every behaviour of  *)
(* the input and of the receiver, every setting, any number of events and  *)
(* saves, and the loss of any command.                                     *)
(***************************************************************************)
EXTENDS ModeLoop, H46ScriptsProofs, FiniteSetTheorems, SequenceTheorems, TLAPS

-----------------------------------------------------------------------------
(* The tables and the scripts.                                             *)

\* A row that a mode table holds names a script or none, and one that names a script sets
\* the clock, to 27 MHz for CVBS; what is not in a table leaves the row as it was.
LEMMA RowFound ==
  ASSUME NEW i \in Interfaces, NEW x, NEW y, NEW old
  PROVE  LET new == usercode_mod(i, x, y, old) IN
         new = old \/ (/\ new.script \in Modes \cup {"none"}
                       /\ new.script \in Modes => new.clock # 0
                       /\ i = "CVBS" /\ new.script \in Modes => new.clock = refclk_27MHz)
<1> DEFINE Good(r) == /\ r.script \in Modes \cup {"none"}
                      /\ r.script \in Modes => r.clock # 0
<1>0. Good(NullRow) /\ NullRow.script \notin Modes
  BY DEF NullRow, Modes
<1> DEFINE Table(t, codes) == DOMAIN t = codes /\ \A c \in codes : Good(t[c])
<1>1. \A codes : \A c \in codes : Good(Unused(codes)[c])
  BY <1>0 DEF Unused
<1>2. \A c \in DOMAIN hdmi_input_50Hz_mod : Good(hdmi_input_50Hz_mod[c])
  BY <1>0 DEF hdmi_input_50Hz_mod, Row, Modes, refclk_27MHz, refclk_74_25MHz, refclk_148_5MHz
<1>3. \A c \in DOMAIN hdmi_input_60_3Hz_mod : Good(hdmi_input_60_3Hz_mod[c])
  BY <1>0 DEF hdmi_input_60_3Hz_mod, Row, Modes, refclk_27MHz_1_001MHz, refclk_74_25MHz, refclk_148_5MHz
<1>4. \A c \in {19, 31, 20} : Good(ypbpr_input_50Hz_mod[c])
  BY <1>0 DEF ypbpr_input_50Hz_mod, Row, Modes, refclk_74_25MHz, refclk_148_5MHz
<1>5. Good(cvbs_input_50Hz_mod[21]) /\ cvbs_input_50Hz_mod[21].clock = refclk_27MHz
  BY <1>0 DEF cvbs_input_50Hz_mod, Row, Modes, refclk_27MHz
<1>6. Good(cvbs_input_60_3Hz_mod[6]) /\ cvbs_input_60_3Hz_mod[6].clock = refclk_27MHz
  BY <1>0 DEF cvbs_input_60_3Hz_mod, Row, Modes, refclk_27MHz
<1> HIDE DEF Good
<1>7. ASSUME NEW table, \A c \in DOMAIN table : Good(table[c]), NEW c
      PROVE  Find(table, c) = Keep \/ Good(Find(table, c))
  BY <1>7 DEF Find
<1>8. hdmi_config(freq_parse_token(y), y) = Keep \/ Good(hdmi_config(freq_parse_token(y), y))
  <2> DEFINE code == IF y \in Twins THEN y - 1 ELSE y
  <2>1. \A codes : DOMAIN Unused(codes) = codes
    BY DEF Unused
  <2>2. ASSUME NEW codes PROVE Find(Unused(codes), code) = Keep \/ Good(Find(Unused(codes), code))
    BY <1>1, <1>7, <2>1
  <2>3. /\ Find(hdmi_input_50Hz_mod, code) = Keep \/ Good(Find(hdmi_input_50Hz_mod, code))
        /\ Find(hdmi_input_60_3Hz_mod, code) = Keep \/ Good(Find(hdmi_input_60_3Hz_mod, code))
    BY <1>2, <1>3, <1>7
  <2> HIDE DEF code
  <2>4. QED
    BY <2>2, <2>3 DEF hdmi_config, code, hdmi_input_100Hz_mod, hdmi_input_119d88Hz_mod,
       hdmi_input_200Hz_mod, hdmi_input_239Hz_mod, hdmi_input_lowfieldrate_mod
<1>9. cvbs_config(x) = Keep \/ (Good(cvbs_config(x)) /\ cvbs_config(x).clock = refclk_27MHz)
  BY <1>5, <1>6 DEF cvbs_config
<1>10. ypbpr_config(x) = Keep \/ Good(ypbpr_config(x))
  BY <1>1, <1>4 DEF ypbpr_config, ypbpr_input_60_3Hz_mod
<1>11. QED
  BY <1>8, <1>9, <1>10 DEF usercode_mod, Interfaces, Good

\* A row stays what it is when the format is looked up again.
LEMMA RowStays ==
  ASSUME NEW i, NEW x, NEW y, NEW old
  PROVE  usercode_mod(i, x, y, usercode_mod(i, x, y, old)) = usercode_mod(i, x, y, old)
<1> DEFINE found == CASE i = "HDMI" -> hdmi_config(freq_parse_token(y), y)
                      [] i = "CVBS" -> cvbs_config(x)
                      [] i = "YPbPr" -> ypbpr_config(x)
<1>1. \A r : usercode_mod(i, x, y, r) = IF found = Keep THEN r ELSE found
  BY DEF usercode_mod
<1> HIDE DEF found
<1>2. QED
  BY <1>1

\* A script has nine or ten sections, of which only the second depends on the frame rate.
LEMMA Sections ==
  ASSUME NEW m \in Modes, NEW c, NEW f
  PROVE  /\ DOMAIN Script(m, c, f) = 1 .. IF m \in {"v72060p", "v72050p"} THEN 9 ELSE 10
         /\ \A g : \A i \in DOMAIN Script(m, c, f) : i # 2 => Script(m, c, f)[i] = Script(m, c, g)[i]
<1>1. CASE m = "v72060p"
  <2>1. \A g : Script(m, c, g) = v72060p_mod(c, g)
    BY <1>1 DEF Script
  <2>2. \A g : DOMAIN v72060p_mod(c, g) = 1 .. 9
    BY DEF v72060p_mod
  <2>3. \A g : \A i \in 1 .. 9 : i # 2 => v72060p_mod(c, f)[i] = v72060p_mod(c, g)[i]
    BY DEF v72060p_mod
  <2>4. QED
    BY <1>1, <2>1, <2>2, <2>3
<1>2. CASE m = "v72050p"
  <2>1. \A g : Script(m, c, g) = v72050p_mod(c, g)
    BY <1>2 DEF Script
  <2>2. \A g : DOMAIN v72050p_mod(c, g) = 1 .. 9
    BY DEF v72050p_mod
  <2>3. \A g : \A i \in 1 .. 9 : i # 2 => v72050p_mod(c, f)[i] = v72050p_mod(c, g)[i]
    BY DEF v72050p_mod
  <2>4. QED
    BY <1>2, <2>1, <2>2, <2>3
<1>3. CASE m = "v57650i"
  <2>1. \A g : Script(m, c, g) = v57650i_mod(c, g)
    BY <1>3 DEF Script
  <2>2. \A g : DOMAIN v57650i_mod(c, g) = 1 .. 10
    BY DEF v57650i_mod
  <2>3. \A g : \A i \in 1 .. 10 : i # 2 => v57650i_mod(c, f)[i] = v57650i_mod(c, g)[i]
    BY DEF v57650i_mod
  <2>4. QED
    BY <1>3, <2>1, <2>2, <2>3
<1>4. CASE m = "v48060i"
  <2>1. \A g : Script(m, c, g) = v48060i_mod(c, g)
    BY <1>4 DEF Script
  <2>2. \A g : DOMAIN v48060i_mod(c, g) = 1 .. 10
    BY DEF v48060i_mod
  <2>3. \A g : \A i \in 1 .. 10 : i # 2 => v48060i_mod(c, f)[i] = v48060i_mod(c, g)[i]
    BY DEF v48060i_mod
  <2>4. QED
    BY <1>4, <2>1, <2>2, <2>3
<1>5. CASE m = "v108060i"
  <2>1. \A g : Script(m, c, g) = v108060i_mod(c, g)
    BY <1>5 DEF Script
  <2>2. \A g : DOMAIN v108060i_mod(c, g) = 1 .. 10
    BY DEF v108060i_mod
  <2>3. \A g : \A i \in 1 .. 10 : i # 2 => v108060i_mod(c, f)[i] = v108060i_mod(c, g)[i]
    BY DEF v108060i_mod
  <2>4. QED
    BY <1>5, <2>1, <2>2, <2>3
<1>6. CASE m = "v108050i"
  <2>1. \A g : Script(m, c, g) = v108050i_mod(c, g)
    BY <1>6 DEF Script
  <2>2. \A g : DOMAIN v108050i_mod(c, g) = 1 .. 10
    BY DEF v108050i_mod
  <2>3. \A g : \A i \in 1 .. 10 : i # 2 => v108050i_mod(c, f)[i] = v108050i_mod(c, g)[i]
    BY DEF v108050i_mod
  <2>4. QED
    BY <1>6, <2>1, <2>2, <2>3
<1>7. CASE m = "v108050p"
  <2>1. \A g : Script(m, c, g) = v108050p_mod(c, g)
    BY <1>7 DEF Script
  <2>2. \A g : DOMAIN v108050p_mod(c, g) = 1 .. 10
    BY DEF v108050p_mod
  <2>3. \A g : \A i \in 1 .. 10 : i # 2 => v108050p_mod(c, f)[i] = v108050p_mod(c, g)[i]
    BY DEF v108050p_mod
  <2>4. QED
    BY <1>7, <2>1, <2>2, <2>3
<1>8. CASE m = "v108060p"
  <2>1. \A g : Script(m, c, g) = v108060p_mod(c, g)
    BY <1>8 DEF Script
  <2>2. \A g : DOMAIN v108060p_mod(c, g) = 1 .. 10
    BY DEF v108060p_mod
  <2>3. \A g : \A i \in 1 .. 10 : i # 2 => v108060p_mod(c, f)[i] = v108060p_mod(c, g)[i]
    BY DEF v108060p_mod
  <2>4. QED
    BY <1>8, <2>1, <2>2, <2>3
<1>9. QED
  BY <1>1, <1>2, <1>3, <1>4, <1>5, <1>6, <1>7, <1>8 DEF Modes

\* Shape gives the length of each.
LEMMA Shapes ==
  ASSUME NEW m \in Modes
  PROVE  /\ DOMAIN Shape[m] = 1 .. Len(Shape[m]) /\ Len(Shape[m]) \in {9, 10}
         /\ \A c, f : DOMAIN Script(m, c, f) = 1 .. Len(Shape[m])
<1> DEFINE n == IF m \in {"v72060p", "v72050p"} THEN 9 ELSE 10
<1>1. \A c, f : DOMAIN Script(m, c, f) = 1 .. n
  BY Sections
<1> HIDE DEF n
<1>2. DOMAIN Shape[m] = 1 .. n
  BY <1>1 DEF Shape
<1>3. n \in {9, 10}
  BY DEF n
<1>4. \E S : Shape[m] \in Seq(S)
  <2> DEFINE script == Script(m, [x \in EncoderFields |-> Setting[x][1]], 30)
  <2>1. Shape[m] = [i \in 1 .. n |-> Len(script[i])]
    BY <1>1 DEF Shape
  <2>2. n \in Nat
    BY <1>3
  <2> DEFINE S == {Len(script[i]) : i \in 1 .. n}
  <2>3. \A i \in 1 .. n : Len(script[i]) \in S
    OBVIOUS
  <2> HIDE DEF S
  <2>4. Shape[m] \in [1 .. n -> S]
    BY <2>1, <2>3
  <2>5. Shape[m] \in Seq(S)
    BY <2>2, <2>4, SeqDef
  <2>6. QED
    BY <2>5
<1>5. Len(Shape[m]) = n
  BY <1>2, <1>3, <1>4, LenProperties
<1>6. QED
  BY <1>1, <1>2, <1>3, <1>5

\* What is read of the input is a code or none.
LEMMA CodeRead ==
  ASSUME TypeOK
  PROVE  Reading \in {-1} \cup Codes
<1>1. CASE iface = "HDMI"
  BY <1>1, CodesAssumption DEF Reading, TypeOK
<1>2. CASE iface = "YPbPr"
  <2>1. pare_YPbPr_HDMI(sig[1], sig[2]) \in {-1, 1, 2, 3, 4}
    BY DEF pare_YPbPr_HDMI
  <2>2. QED
    BY <1>2, <2>1 DEF Reading, Codes
<1>3. CASE iface = "CVBS"
  <2>1. pare_cvbs(sig[1], sig[2], sig[3]) \in -1 .. 8
    BY DEF pare_cvbs
  <2>2. QED
    BY <1>3, <2>1 DEF Reading, Codes
<1>4. QED
  BY <1>1, <1>2, <1>3 DEF TypeOK, Interfaces

\* The frame rates on display.
LEMMA RateShown ==
  ASSUME NEW i \in Interfaces, NEW code
  PROVE  ShownFrameRate(i, code) \in {-1, 24, 25, 30, 50, 60}
BY DEF ShownFrameRate, HdmiFrameRate, AnalogFrameRate, Interfaces


-----------------------------------------------------------------------------
(* The saves.                                                              *)

\* What the entries of the menu do about the field they change: one that the file alone is
\* changed by asks the main loop, and every chip that holds a field is reached by the save
\* itself or by the main loop.
SaveRules(s) ==
  /\ s.reads \in BOOLEAN /\ s.pr_cfg \in BOOLEAN /\ s.gener_table \in BOOLEAN
  /\ s.ad9789 \in BOOLEAN /\ s.flag \in BOOLEAN
  /\ s.pr_cfg => s.gener_table
  /\ s.field \in Fields => s.reads \/ s.flag
  /\ s.field = "picture" => s.reads /\ s.flag
  /\ s.field \in EncoderFields \cup {"rf"} => s.flag
  /\ s.field = "rfon" => s.ad9789
  /\ s.field \in TableFields => s.gener_table \/ s.flag

\* They hold of every entry.
LEMMA SaveKinds == \A s \in Saves : SaveRules(s)
<1> DEFINE Kinds == {Reprogram(f) : f \in {"num", "si", "pmt", "pcr", "vpid", "apid"}}
                    \cup {Republish("si")}
                    \cup {Applied(f) : f \in {"rf", "picture", "local"}}
                    \cup {Deferred(f) : f \in {"vrate", "arate", "local", "si", "rf",
                                               "profile", "level", "ratemode"}}
                    \cup {Flagged, Untouched}
                    \cup {Retuned("rfon")} \cup {Kept(f) : f \in {"local", "insert"}}
<1>1. Menu \subseteq Kinds
  BY DEF Menu, str_filename_save, guardIntv_comm, fre_dig_save, text_digfilesize_save, text_program_num_save, text_networkid_save,
      bin_nitlcn_save, text_networknumb_save, text_PrivateData_save,
      bin_eit_year_save, bin_eit_time_save, bin_eit_nexttime_save,
      bin_eit_duration_save, bin_eit_nextduration_save, bin_eit_next_year_save,
      bin_language_save, bin_starteventname_save, bin_nexteventname_save,
      text_Programname_save, text_servername_save, text_digpmt_save,
      text_digprc_save, text_digvpid_save, text_digapid_save, text_videotare_save,
      text_audiotare_save, text_audioformat_save, text_videobright_save,
      text_videocpbright_save, text_videocontrast_save, text_videocpcontrast_save,
      text_videosaturation_save, text_videocpsaturation_save, text_streamtsid_save,
      text_modulatorrf_save, text_streamonid_save, text_videohue_save,
      text_videocphue_save, coderate_comm, comm_constell, eit_insert_commom,
      nit_insert_commom, eauto_record_commom, program_enable_commom,
      comm_h264profile, comm_videonorm, comm_h264level, comm_lcdtime, comm_play_mod,
      comm_save_mod, comm_nitlcn_mod, comm_ratemode, comm_Bandwidth, fft_comm,
      rf_comm
<1>2. ASSUME NEW s \in Kinds PROVE SaveRules(s)
  <2> USE DEF SaveRules, Save, Fields, EncoderFields, TableFields
  <2>1. CASE \E f \in {"num", "si", "pmt", "pcr", "vpid", "apid"} : s = Reprogram(f)
    BY <2>1 DEF Reprogram
  <2>2. CASE s = Republish("si")
    BY <2>2 DEF Republish
  <2>3. CASE \E f \in {"rf", "picture", "local"} : s = Applied(f)
    BY <2>3 DEF Applied
  <2>4. CASE \E f \in {"vrate", "arate", "local", "si", "rf", "profile", "level", "ratemode"} :
               s = Deferred(f)
    BY <2>4 DEF Deferred
  <2>5. CASE s = Retuned("rfon")
    BY <2>5 DEF Retuned
  <2>6. CASE \E f \in {"local", "insert"} : s = Kept(f)
    BY <2>6 DEF Kept
  <2>7. CASE s = Flagged
    BY <2>7 DEF Flagged
  <2>8. CASE s = Untouched
    BY <2>8 DEF Untouched
  <2>9. QED
    BY <1>2, <2>1, <2>2, <2>3, <2>4, <2>5, <2>6, <2>7, <2>8
<1>3. QED
  BY <1>1, <1>2, SavesAssumption

\* Where a save is after one of its steps.
LEMMA Follows ==
  ASSUME NEW s \in Saves, NEW step \in HandlerSteps \ {"send"}
  PROVE  LET next == After(s, step) IN
         \/ next = Idle
         \/ /\ next \in [step : HandlerSteps \ {"store", "send"}, save : Saves]
            /\ next.save = s
BY DEF After, HandlerSteps


-----------------------------------------------------------------------------
(* Types.                                                                  *)

\* The parts of the type invariant.
InputT == iface \in Interfaces /\ sig \in Inputs[iface]
ConfT == file \in [Fields -> Values] /\ mem \in [Fields -> Values]
CodesT ==
  first_vic \in {-1} \cup Codes /\ vic_code \in {-1} \cup Codes /\ bak \in {-1} \cup Codes
StateT == shown \in {-1, 24, 25, 30, 50, 60} /\ pid_status \in 0 .. 2
LockT ==
  /\ menu_exit \in BOOLEAN /\ progr_bar_flag \in BOOLEAN /\ gpio_cfg \in BOOLEAN
  /\ early \in BOOLEAN /\ second \in BOOLEAN
MainT ==
  /\ mpc \in [step : MainSteps, code : {-1} \cup Codes, own : BOOLEAN]
  /\ row.script \in Modes \cup {"none"} \/ (row.script = "unset" /\ mpc.step \in Unlocked)
LineT ==
  /\ at \in [{Main} \cup Handlers -> {NotProgramming} \cup Parts]
  /\ owner \in {Main} \cup Handlers /\ lost \in 0 .. MaxLost /\ overlap \in BOOLEAN
HandT == hpc \in [Handlers -> {Idle} \cup [step : HandlerSteps, save : Saves]]

\* Together they are all of it.
LEMMA TypeParts ==
  TypeOK <=> InputT /\ ConfT /\ CodesT /\ StateT /\ LockT /\ MainT /\ LineT /\ HandT
<1>1. LineT => DOMAIN at = {Main} \cup Handlers
  BY DEF LineT
<1>2. at \in [{Main} \cup Handlers -> {NotProgramming} \cup Parts] => DOMAIN at = {Main} \cup Handlers
  OBVIOUS
<1>3. QED
  BY <1>1, <1>2 DEF TypeOK, InputT, ConfT, CodesT, StateT, LockT, MainT, LineT, HandT

\* A code that was read is kept; it decides where the loop goes.
LEMMA ConfirmTypes ==
  ASSUME CodesT, MainT, NEW code \in {-1} \cup Codes, NEW own \in BOOLEAN, Confirm(code, own)
  PROVE  CodesT' /\ (row' = row => MainT')
<1>1. CASE first_vic # code \/ code < 0 \/ (own /\ code = bak)
  BY <1>1 DEF Confirm, CodesT, MainT, GoTo, MainSteps, Unlocked
<1>2. CASE ~(first_vic # code \/ code < 0 \/ (own /\ code = bak))
  BY <1>2 DEF Confirm, CodesT, MainT, MainSteps, Unlocked
<1>3. QED
  BY <1>1, <1>2

\* Who programs is at a section of a script.
LEMMA InSection ==
  ASSUME LineT, NEW p \in {Main} \cup Handlers
  PROVE  IF Programming(p) THEN \E m \in Modes : \E i \in 1 .. Len(Shape[m]) : at[p] = Part(m, i)
         ELSE at[p] = NotProgramming
<1>1. CASE at[p] = NotProgramming
  BY <1>1 DEF Programming, NotProgramming, Part
<1>2. CASE at[p] \in Parts
  <2>1. PICK m \in Modes : \E i \in DOMAIN Shape[m] : at[p] = Part(m, i)
    BY <1>2 DEF Parts
  <2>2. PICK i \in DOMAIN Shape[m] : at[p] = Part(m, i)
    BY <2>1
  <2>3. i \in 1 .. Len(Shape[m]) /\ Len(Shape[m]) \in {9, 10}
    BY <2>2, Shapes
  <2>4. at[p].section = i /\ i > 0
    BY <2>2, <2>3 DEF Part
  <2>5. Programming(p)
    BY <2>4 DEF Programming
  <2>6. QED
    BY <2>2, <2>3, <2>5
<1>3. QED
  BY <1>1, <1>2 DEF LineT

\* One operation of a script: the place moves on, and the others keep theirs.
LEMMA SectionMoves ==
  ASSUME LineT, NEW p \in {Main} \cup Handlers, NextSection(p)
  PROVE  \E m \in Modes : \E i \in 1 .. Len(Shape[m]) :
           /\ at[p] = Part(m, i) /\ Programming(p)
           /\ at' = [at EXCEPT ![p] = IF i = Len(Shape[m]) THEN NotProgramming ELSE Part(m, i + 1)]
<1>1. Programming(p)
  BY DEF NextSection
<1>2. PICK m \in Modes : \E i \in 1 .. Len(Shape[m]) : at[p] = Part(m, i)
  BY <1>1, InSection
<1>3. PICK i \in 1 .. Len(Shape[m]) : at[p] = Part(m, i)
  BY <1>2
<1>4. at[p].mode = m /\ at[p].section = i
  BY <1>3 DEF Part
<1>5. at' = [at EXCEPT ![p] = IF at[p].section = Len(Shape[at[p].mode]) THEN NotProgramming
                              ELSE Part(at[p].mode, at[p].section + 1)]
  BY DEF NextSection, LineT
<1>6. at' = [at EXCEPT ![p] = IF i = Len(Shape[m]) THEN NotProgramming ELSE Part(m, i + 1)]
  BY <1>4, <1>5
<1>7. QED
  BY <1>1, <1>3, <1>6

\* It leaves every variable of the line in its range.
LEMMA SectionTypes ==
  ASSUME LineT, NEW p \in {Main} \cup Handlers, NextSection(p)
  PROVE  LineT'
<1>1. PICK m \in Modes : \E i \in 1 .. Len(Shape[m]) :
        at' = [at EXCEPT ![p] = IF i = Len(Shape[m]) THEN NotProgramming ELSE Part(m, i + 1)]
  BY SectionMoves
<1>2. PICK i \in 1 .. Len(Shape[m]) :
        at' = [at EXCEPT ![p] = IF i = Len(Shape[m]) THEN NotProgramming ELSE Part(m, i + 1)]
  BY <1>1
<1>3. i # Len(Shape[m]) => i + 1 \in DOMAIN Shape[m]
  BY <1>2, Shapes
<1>4. i # Len(Shape[m]) => Part(m, i + 1) \in Parts
  BY <1>3 DEF Parts
<1>5. at' \in [{Main} \cup Handlers -> {NotProgramming} \cup Parts]
  BY <1>2, <1>4 DEF LineT
<1>6. lost \in Nat /\ MaxLost \in Nat /\ lost <= MaxLost
  BY BoundsAssumption DEF LineT
<1>7. lost' = lost \/ (lost' = lost + 1 /\ lost < MaxLost)
  BY DEF NextSection
<1>8. lost' \in 0 .. MaxLost
  BY <1>6, <1>7
<1>9. overlap' \in BOOLEAN /\ owner' = owner
  BY DEF NextSection, LineT
<1>10. QED
  BY <1>5, <1>8, <1>9 DEF LineT

\* A script begins at its first section.
LEMMA BeginTypes ==
  ASSUME LineT, NEW p \in {Main} \cup Handlers, NEW m \in Modes, BeginScript(p, m)
  PROVE  LineT' /\ mem' = file
<1>1. 1 \in DOMAIN Shape[m]
  BY Shapes
<1>2. Part(m, 1) \in Parts
  BY <1>1 DEF Parts
<1>3. lost' \in 0 .. MaxLost
  BY BoundsAssumption DEF BeginScript
<1>4. at' \in [{Main} \cup Handlers -> {NotProgramming} \cup Parts]
  BY <1>2 DEF BeginScript, LineT
<1>5. overlap' \in BOOLEAN /\ owner' \in {Main} \cup Handlers /\ mem' = file
  BY DEF BeginScript
<1>6. QED
  BY <1>3, <1>4, <1>5 DEF LineT

\* A save that leaves a step is at a later one, or done.
LEMMA LeaveTypes ==
  ASSUME HandT, NEW h \in Handlers, hpc[h] # Idle, hpc[h].step # "send", Leave(h)
  PROVE  HandT'
<1>1. hpc[h].step \in HandlerSteps \ {"send"} /\ hpc[h].save \in Saves
  BY DEF HandT
<1>2. After(hpc[h].save, hpc[h].step) \in {Idle} \cup [step : HandlerSteps, save : Saves]
  BY <1>1, Follows
<1>3. QED
  BY <1>2 DEF Leave, HandT

\* The program starts with every variable in its range.
LEMMA TypeInit == Init => TypeOK
<1> SUFFICES ASSUME Init
             PROVE  InputT /\ ConfT /\ CodesT /\ StateT /\ LockT /\ MainT /\ LineT /\ HandT
  BY TypeParts
<1>1. file = [x \in Fields |-> 1] /\ mem = file
  BY DEF Init
<1>2. ConfT
  BY <1>1 DEF ConfT, Values
<1>3. CodesT /\ StateT
  BY DEF Init, CodesT, StateT, Codes
<1>10. LockT
  BY DEF Init, LockT
<1>4. row.script = "unset"
  BY DEF Init, NoRow, NullRow
<1>5. MainT
  BY <1>4 DEF Init, MainT, MainSteps, Unlocked
<1>6. 0 \in 0 .. MaxLost
  BY BoundsAssumption
<1>7. LineT
  BY <1>6 DEF Init, LineT
<1>8. InputT /\ HandT
  BY DEF Init, InputT, HandT
<1>9. QED
  BY <1>2, <1>3, <1>5, <1>7, <1>8, <1>10

\* No step leaves the range of a variable.
LEMMA TypeStep == TypeOK /\ [Next]_vars => TypeOK'
<1> DEFINE Goal == InputT' /\ ConfT' /\ CodesT' /\ StateT' /\ LockT' /\ MainT' /\ LineT' /\ HandT'
<1> SUFFICES ASSUME TypeOK, [Next]_vars PROVE Goal
  <2>1. TypeOK' <=> Goal
    BY TypeParts, PTL
  <2>2. QED
    BY <2>1
<1>g. InputT /\ ConfT /\ CodesT /\ StateT /\ LockT /\ MainT /\ LineT /\ HandT
  BY TypeParts
<1>f. /\ (UNCHANGED <<iface, sig>>) => InputT'
      /\ (UNCHANGED <<file, mem>>) => ConfT'
      /\ (UNCHANGED <<first_vic, vic_code, bak>>) => CodesT'
      /\ (UNCHANGED <<shown, pid_status>>) => StateT'
      /\ (UNCHANGED <<menu_exit, progr_bar_flag, gpio_cfg, early, second>>) => LockT'
      /\ (UNCHANGED <<mpc, row>>) => MainT'
      /\ (UNCHANGED <<at, owner, lost, overlap>>) => LineT'
      /\ (UNCHANGED <<hpc>>) => HandT'
  BY <1>g DEF InputT, ConfT, CodesT, StateT, LockT, MainT, LineT, HandT
<1> USE <1>g
<1>1. CASE Poll
  <2>1. /\ UNCHANGED <<iface, sig>>
        /\ UNCHANGED <<file, mem>>
        /\ UNCHANGED <<shown, pid_status>>
        /\ UNCHANGED <<menu_exit, progr_bar_flag, gpio_cfg, early, second>>
        /\ UNCHANGED <<at, owner, lost, overlap>>
        /\ UNCHANGED <<hpc>>
    BY <1>1 DEF Poll, input, conf, loop, boards, line, boot
  <2>2. CodesT'
    BY <1>1 DEF Poll, CodesT
  <2>3. MainT'
    BY <1>1 DEF Poll, MainAt, GoTo, MainT, MainSteps, Unlocked
  <2>4. QED
    BY <2>1, <2>2, <2>3, <1>f, <1>g
<1>2. CASE Ack
  <2>1. /\ UNCHANGED <<iface, sig>>
        /\ UNCHANGED <<file, mem>>
        /\ UNCHANGED <<first_vic, vic_code, bak>>
        /\ UNCHANGED <<menu_exit, progr_bar_flag, gpio_cfg, early, second>>
        /\ UNCHANGED <<at, owner, lost, overlap>>
        /\ UNCHANGED <<hpc>>
    BY <1>2 DEF Ack, input, conf, loop, boards, line, boot
  <2>2. StateT'
    BY <1>2 DEF Ack, StateT
  <2>3. MainT'
    BY <1>2 DEF Ack, MainAt, GoTo, MainT, MainSteps, Unlocked
  <2>4. QED
    BY <2>1, <2>2, <2>3, <1>f, <1>g
<1>3. CASE ReadFormat
  <2>1. /\ UNCHANGED <<iface, sig>>
        /\ UNCHANGED <<file, mem>>
        /\ UNCHANGED <<shown, pid_status>>
        /\ UNCHANGED <<menu_exit, progr_bar_flag, gpio_cfg, early, second>>
        /\ UNCHANGED <<at, owner, lost, overlap>>
        /\ UNCHANGED <<hpc>>
    BY <1>3 DEF ReadFormat, input, conf, loop, boards, line, boot
  <2>2. CodesT'
    <3>1. Reading \in {-1} \cup Codes /\ Confirm(Reading, TRUE)
      BY <1>3, CodeRead DEF ReadFormat
    <3>2. QED
      BY <3>1, ConfirmTypes
  <2>3. MainT'
    <3>1. Reading \in {-1} \cup Codes /\ Confirm(Reading, TRUE)
      BY <1>3, CodeRead DEF ReadFormat
    <3>2. QED
      BY <1>3, <3>1, ConfirmTypes DEF ReadFormat
  <2>4. QED
    BY <2>1, <2>2, <2>3, <1>f, <1>g
<1>4. CASE ReadHdmi
  <2>1. /\ UNCHANGED <<iface, sig>>
        /\ UNCHANGED <<file, mem>>
        /\ UNCHANGED <<shown, pid_status>>
        /\ UNCHANGED <<menu_exit, progr_bar_flag, gpio_cfg, early, second>>
        /\ UNCHANGED <<at, owner, lost, overlap>>
        /\ UNCHANGED <<hpc>>
    BY <1>4 DEF ReadHdmi, input, conf, loop, boards, line, boot
  <2>2. CodesT' /\ MainT'
    <3>1. PICK code \in {-1} \cup Codes : \E own \in BOOLEAN : Confirm(code, own)
      BY <1>4, CodeRead, CodesAssumption DEF ReadHdmi
    <3>2. PICK own \in BOOLEAN : Confirm(code, own)
      BY <3>1
    <3>3. QED
      BY <1>4, <3>2, ConfirmTypes DEF ReadHdmi
  <2>3. MainT'
    BY <2>2
  <2>4. QED
    BY <2>1, <2>2, <2>3, <1>f, <1>g
<1>5. CASE Select
  <2>1. /\ UNCHANGED <<iface, sig>>
        /\ UNCHANGED <<file, mem>>
        /\ UNCHANGED <<first_vic, vic_code, bak>>
        /\ UNCHANGED <<shown, pid_status>>
        /\ UNCHANGED <<hpc>>
    BY <1>5 DEF Select, input, conf, loop, boards, line, boot
  <2>2. LockT'
    BY <1>5 DEF Select, LockT, boot
  <2>3. MainT'
    <3>1. row'.script \in Modes \cup {"unset", "none"}
      BY <1>5, RowFound DEF Select, MainT, InputT, Modes
    <3>2. CASE row'.script = "unset"
      <4>1. mpc' = [mpc EXCEPT !.step = "poll"]
        BY <1>5, <3>2 DEF Select, GoTo
      <4>2. QED
        BY <3>2, <4>1 DEF MainT, MainSteps, Unlocked
    <3>3. CASE row'.script # "unset"
      <4>1. mpc' = [mpc EXCEPT !.step = "lock"]
        BY <1>5, <3>3 DEF Select, GoTo
      <4>2. mpc' \in [step : MainSteps, code : {-1} \cup Codes, own : BOOLEAN]
        BY <4>1 DEF MainT, MainSteps
      <4>3. row'.script \in Modes \cup {"none"}
        BY <3>1, <3>3
      <4>4. QED
        BY <4>2, <4>3 DEF MainT
    <3>4. QED
      BY <3>2, <3>3
  <2>4. LineT'
    BY <1>5 DEF Select, PulseReset, OtherProgramming, LineT
  <2>5. QED
    BY <2>1, <2>2, <2>3, <2>4, <1>f, <1>g
<1>6. CASE Lock
  <2>1. /\ UNCHANGED <<iface, sig>>
        /\ UNCHANGED <<file, mem>>
        /\ UNCHANGED <<first_vic, vic_code, bak>>
        /\ UNCHANGED <<shown, pid_status>>
        /\ UNCHANGED <<at, owner, lost, overlap>>
        /\ UNCHANGED <<hpc>>
    BY <1>6 DEF Lock, input, conf, loop, boards, line, boot
  <2>2. LockT'
    BY <1>6 DEF Lock, LockT
  <2>3. MainT'
    BY <1>6 DEF Lock, MainAt, GoTo, MainT, MainSteps, Unlocked
  <2>4. QED
    BY <2>1, <2>2, <2>3, <1>f, <1>g
<1>7. CASE SetReceiver
  <2>1. /\ UNCHANGED <<iface, sig>>
        /\ UNCHANGED <<first_vic, vic_code, bak>>
        /\ UNCHANGED <<shown, pid_status>>
        /\ UNCHANGED <<menu_exit, progr_bar_flag, gpio_cfg, early, second>>
        /\ UNCHANGED <<hpc>>
    BY <1>7 DEF SetReceiver, input, conf, loop, boards, line, boot
  <2>2. ConfT' /\ LineT'
    <3>1. CASE row.script = "none"
      BY <1>7, <3>1 DEF SetReceiver, ConfT, LineT
    <3>2. CASE row.script \in Modes
      BY <1>7, <3>2, BeginTypes DEF SetReceiver, ConfT, LineT, Modes
    <3>3. row.script # "unset"
      BY <1>7 DEF SetReceiver, MainAt, MainT, Unlocked, Modes
    <3>4. QED
      BY <3>1, <3>2, <3>3 DEF MainT
  <2>3. LineT'
    BY <2>2
  <2>4. MainT'
    BY <1>7 DEF SetReceiver, MainAt, GoTo, MainT, MainSteps, Unlocked
  <2>5. QED
    BY <2>1, <2>2, <2>3, <2>4, <1>f, <1>g
<1>8. CASE MainSection
  <2>1. /\ UNCHANGED <<iface, sig>>
        /\ UNCHANGED <<file, mem>>
        /\ UNCHANGED <<first_vic, vic_code, bak>>
        /\ UNCHANGED <<shown, pid_status>>
        /\ UNCHANGED <<menu_exit, progr_bar_flag, gpio_cfg, early, second>>
        /\ UNCHANGED <<hpc>>
    BY <1>8 DEF MainSection, input, conf, loop, boards, line, boot
  <2>2. LineT'
    BY <1>8, SectionTypes DEF MainSection, LineT
  <2>3. MainT'
    BY <1>8 DEF MainSection, MainAt, GoTo, MainT, MainSteps, Unlocked
  <2>4. QED
    BY <2>1, <2>2, <2>3, <1>f, <1>g
<1>9. CASE SetDac
  <2>1. /\ UNCHANGED <<iface, sig>>
        /\ UNCHANGED <<first_vic, vic_code, bak>>
        /\ UNCHANGED <<shown, pid_status>>
        /\ UNCHANGED <<menu_exit, progr_bar_flag, gpio_cfg, early, second>>
        /\ UNCHANGED <<at, owner, lost, overlap>>
        /\ UNCHANGED <<hpc>>
    BY <1>9 DEF SetDac, input, conf, loop, boards, line, boot
  <2>2. ConfT'
    BY <1>9 DEF SetDac, ConfT
  <2>3. MainT'
    BY <1>9 DEF SetDac, MainAt, GoTo, MainT, MainSteps, Unlocked
  <2>4. QED
    BY <2>1, <2>2, <2>3, <1>f, <1>g
<1>10. CASE InitBus
  <2>1. /\ UNCHANGED <<iface, sig>>
        /\ UNCHANGED <<file, mem>>
        /\ UNCHANGED <<first_vic, vic_code, bak>>
        /\ UNCHANGED <<shown, pid_status>>
        /\ UNCHANGED <<at, owner, lost, overlap>>
        /\ UNCHANGED <<hpc>>
    BY <1>10 DEF InitBus, input, conf, loop, boards, line, boot
  <2>2. LockT'
    BY <1>10 DEF InitBus, LockT
  <2>3. MainT'
    BY <1>10 DEF InitBus, MainAt, GoTo, MainT, MainSteps, Unlocked
  <2>4. QED
    BY <2>1, <2>2, <2>3, <1>f, <1>g
<1>11. ASSUME NEW h \in Handlers, Store(h) PROVE Goal
  <2>1. /\ UNCHANGED <<iface, sig>>
        /\ UNCHANGED <<first_vic, vic_code, bak>>
        /\ UNCHANGED <<shown, pid_status>>
        /\ UNCHANGED <<menu_exit, progr_bar_flag, gpio_cfg, early, second>>
        /\ UNCHANGED <<mpc, row>>
        /\ UNCHANGED <<at, owner, lost, overlap>>
    BY <1>11 DEF Store, input, conf, loop, boards, line, boot
  <2>2. ConfT'
    <3>1. file' \in [Fields -> Values]
      <4>1. file' = [x \in Fields |-> IF x = hpc[h].save.field THEN 3 - file[x] ELSE file[x]]
        BY <1>11 DEF Store
      <4>2. \A v \in Values : 3 - v \in Values
        BY DEF Values
      <4>3. QED
        BY <4>1, <4>2 DEF ConfT
    <3>2. QED
      BY <1>11, <3>1 DEF Store, ConfT
  <2>3. HandT'
    BY <1>11, LeaveTypes DEF Store, Does, Idle, HandT
  <2>4. QED
    BY <2>1, <2>2, <2>3, <1>f, <1>g
<1>12. ASSUME NEW h \in Handlers, Pulse(h) PROVE Goal
  <2>1. /\ UNCHANGED <<iface, sig>>
        /\ UNCHANGED <<file, mem>>
        /\ UNCHANGED <<first_vic, vic_code, bak>>
        /\ UNCHANGED <<shown, pid_status>>
        /\ UNCHANGED <<menu_exit, progr_bar_flag, gpio_cfg, early, second>>
        /\ UNCHANGED <<mpc, row>>
    BY <1>12 DEF Pulse, input, conf, loop, boards, line, boot
  <2>2. LineT'
    BY <1>12 DEF Pulse, PulseReset, OtherProgramming, LineT
  <2>3. HandT'
    BY <1>12, LeaveTypes DEF Pulse, Does, Idle, HandT
  <2>4. QED
    BY <2>1, <2>2, <2>3, <1>f, <1>g
<1>13. ASSUME NEW h \in Handlers, HandlerBegin(h) PROVE Goal
  <2>1. /\ UNCHANGED <<iface, sig>>
        /\ UNCHANGED <<first_vic, vic_code, bak>>
        /\ UNCHANGED <<shown, pid_status>>
        /\ UNCHANGED <<menu_exit, progr_bar_flag, gpio_cfg, early, second>>
        /\ UNCHANGED <<mpc, row>>
    BY <1>13 DEF HandlerBegin, input, conf, loop, boards, line, boot
  <2>2. ConfT' /\ LineT'
    <3>1. CASE row.script \in {"unset", "none"}
      BY <1>13, <3>1 DEF HandlerBegin, ConfT, LineT
    <3>2. CASE row.script \notin {"unset", "none"}
      <4>1. row.script \in Modes /\ BeginScript(h, row.script) /\ file' = file
        BY <1>13, <3>2 DEF HandlerBegin, MainT
      <4>2. QED
        BY <4>1, BeginTypes DEF ConfT, LineT
    <3>3. QED
      BY <3>1, <3>2
  <2>3. LineT'
    BY <2>2
  <2>4. HandT'
    <3>1. CASE row.script \in {"unset", "none"}
      BY <1>13, <3>1, LeaveTypes DEF HandlerBegin, Does, Idle, HandT
    <3>2. CASE row.script \notin {"unset", "none"}
      BY <1>13, <3>2 DEF HandlerBegin, Does, HandT, HandlerSteps, Idle
    <3>3. QED
      BY <3>1, <3>2
  <2>5. QED
    BY <2>1, <2>2, <2>3, <2>4, <1>f, <1>g
<1>14. ASSUME NEW h \in Handlers, HandlerSection(h) PROVE Goal
  <2>1. /\ UNCHANGED <<iface, sig>>
        /\ UNCHANGED <<file, mem>>
        /\ UNCHANGED <<first_vic, vic_code, bak>>
        /\ UNCHANGED <<shown, pid_status>>
        /\ UNCHANGED <<menu_exit, progr_bar_flag, gpio_cfg, early, second>>
        /\ UNCHANGED <<mpc, row>>
    BY <1>14 DEF HandlerSection, input, conf, loop, boards, line, boot
  <2>2. LineT'
    BY <1>14, SectionTypes DEF HandlerSection, LineT
  <2>3. HandT'
    <3>1. hpc[h] \in [step : HandlerSteps, save : Saves]
      BY <1>14 DEF HandlerSection, Does, HandT, Idle
    <3>2. After(hpc[h].save, "script") \in {Idle} \cup [step : HandlerSteps, save : Saves]
      BY <3>1, Follows DEF HandlerSteps
    <3>3. QED
      BY <1>14, <3>1, <3>2 DEF HandlerSection, HandT
  <2>4. QED
    BY <2>1, <2>2, <2>3, <1>f, <1>g
<1>15. ASSUME NEW h \in Handlers, Upload(h) PROVE Goal
  <2>1. /\ UNCHANGED <<iface, sig>>
        /\ UNCHANGED <<file, mem>>
        /\ UNCHANGED <<first_vic, vic_code, bak>>
        /\ UNCHANGED <<shown, pid_status>>
        /\ UNCHANGED <<menu_exit, progr_bar_flag, gpio_cfg, early, second>>
        /\ UNCHANGED <<mpc, row>>
        /\ UNCHANGED <<at, owner, lost, overlap>>
    BY <1>15 DEF Upload, input, conf, loop, boards, line, boot
  <2>2. HandT'
    BY <1>15, LeaveTypes DEF Upload, Does, Idle, HandT
  <2>3. QED
    BY <2>1, <2>2, <1>f, <1>g
<1>16. ASSUME NEW h \in Handlers, Tune(h) PROVE Goal
  <2>1. /\ UNCHANGED <<iface, sig>>
        /\ UNCHANGED <<first_vic, vic_code, bak>>
        /\ UNCHANGED <<shown, pid_status>>
        /\ UNCHANGED <<menu_exit, progr_bar_flag, gpio_cfg, early, second>>
        /\ UNCHANGED <<mpc, row>>
        /\ UNCHANGED <<at, owner, lost, overlap>>
    BY <1>16 DEF Tune, input, conf, loop, boards, line, boot
  <2>2. ConfT'
    BY <1>16 DEF Tune, ConfT
  <2>3. HandT'
    BY <1>16, LeaveTypes DEF Tune, Does, Idle, HandT
  <2>4. QED
    BY <2>1, <2>2, <2>3, <1>f, <1>g
<1>17. ASSUME NEW h \in Handlers, Flag(h) PROVE Goal
  <2>1. /\ UNCHANGED <<iface, sig>>
        /\ UNCHANGED <<file, mem>>
        /\ UNCHANGED <<first_vic, vic_code, bak>>
        /\ UNCHANGED <<menu_exit, progr_bar_flag, gpio_cfg, early, second>>
        /\ UNCHANGED <<mpc, row>>
        /\ UNCHANGED <<at, owner, lost, overlap>>
    BY <1>17 DEF Flag, input, conf, loop, boards, line, boot
  <2>2. StateT'
    BY <1>17 DEF Flag, StateT
  <2>3. HandT'
    BY <1>17, LeaveTypes DEF Flag, Does, Idle, HandT
  <2>4. QED
    BY <2>1, <2>2, <2>3, <1>f, <1>g
<1>18. CASE BootDone
  <2>1. /\ UNCHANGED <<iface, sig>>
        /\ UNCHANGED <<file, mem>>
        /\ UNCHANGED <<first_vic, vic_code, bak>>
        /\ UNCHANGED <<shown, pid_status>>
        /\ UNCHANGED <<mpc, row>>
        /\ UNCHANGED <<at, owner, lost, overlap>>
        /\ UNCHANGED <<hpc>>
    BY <1>18 DEF BootDone, input, conf, loop, boards, line, boot
  <2>2. LockT'
    BY <1>18 DEF BootDone, LockT, loop, boot
  <2>3. QED
    BY <2>1, <2>2, <1>f, <1>g
<1>19. CASE BootTimeout
  <2>1. /\ UNCHANGED <<iface, sig>>
        /\ UNCHANGED <<file, mem>>
        /\ UNCHANGED <<first_vic, vic_code, bak>>
        /\ UNCHANGED <<shown, pid_status>>
        /\ UNCHANGED <<mpc, row>>
        /\ UNCHANGED <<at, owner, lost, overlap>>
        /\ UNCHANGED <<hpc>>
    BY <1>19 DEF BootTimeout, input, conf, loop, boards, line, boot
  <2>2. LockT'
    BY <1>19 DEF BootTimeout, LockT, loop, boot
  <2>3. QED
    BY <2>1, <2>2, <1>f, <1>g
<1>20. CASE Show
  <2>1. /\ UNCHANGED <<iface, sig>>
        /\ UNCHANGED <<file, mem>>
        /\ UNCHANGED <<first_vic, vic_code, bak>>
        /\ UNCHANGED <<menu_exit, progr_bar_flag, gpio_cfg, early, second>>
        /\ UNCHANGED <<mpc, row>>
        /\ UNCHANGED <<at, owner, lost, overlap>>
        /\ UNCHANGED <<hpc>>
    BY <1>20 DEF Show, input, conf, loop, boards, line, boot
  <2>2. StateT'
    BY <1>20, RateShown DEF Show, StateT, InputT
  <2>3. QED
    BY <2>1, <2>2, <1>f, <1>g
<1>21. CASE Key
  <2>1. /\ UNCHANGED <<iface, sig>>
        /\ UNCHANGED <<file, mem>>
        /\ UNCHANGED <<first_vic, vic_code, bak>>
        /\ UNCHANGED <<shown, pid_status>>
        /\ UNCHANGED <<mpc, row>>
        /\ UNCHANGED <<at, owner, lost, overlap>>
    BY <1>21 DEF Key, input, conf, loop, boards, line, boot
  <2>2. LockT'
    BY <1>21 DEF Key, LockT, loop, boot
  <2>3. HandT'
    BY <1>21 DEF Key, HandT, HandlerSteps, Handlers
  <2>4. QED
    BY <2>1, <2>2, <2>3, <1>f, <1>g
<1>22. CASE Replug
  <2>1. /\ UNCHANGED <<file, mem>>
        /\ UNCHANGED <<first_vic, vic_code, bak>>
        /\ UNCHANGED <<shown, pid_status>>
        /\ UNCHANGED <<menu_exit, progr_bar_flag, gpio_cfg, early, second>>
        /\ UNCHANGED <<mpc, row>>
        /\ UNCHANGED <<at, owner, lost, overlap>>
        /\ UNCHANGED <<hpc>>
    BY <1>22 DEF Replug, input, conf, loop, boards, line, boot
  <2>2. InputT'
    BY <1>22 DEF Replug, InputT
  <2>3. QED
    BY <2>1, <2>2, <1>f, <1>g
<1>23. CASE UNCHANGED vars
  BY <1>23, <1>f DEF vars, input, conf, loop, boards, line, boot
<1>24. QED
  BY <1>1, <1>2, <1>3, <1>4, <1>5, <1>6, <1>7, <1>8, <1>9, <1>10, <1>11, <1>12, <1>13,
     <1>14, <1>15, <1>16, <1>17, <1>18, <1>19, <1>20, <1>21, <1>22, <1>23
  DEF Next, MainStep, HandlerStep, Boot

\* Every variable has a value of its kind.
THEOREM ModeTypeCorrect == Spec => []TypeOK
BY TypeInit, TypeStep, PTL DEF Spec


-----------------------------------------------------------------------------
(* One programmer.                                                         *)

Procs == {Main} \cup Handlers

\* The lock is held when and only when the main thread programs, unless the timer dropped
\* it; a save runs on the main thread, and stops it, unless another one runs already.
Locked ==
  /\ menu_exit => Masked
  /\ ~early => (Masked => menu_exit)
  /\ early => progr_bar_flag
  /\ ~early /\ ~second => hpc[2] = Idle /\ (hpc[1] # Idle => ~Masked)

\* Who is on the serial line, by where it is.
Sending ==
  /\ Programming(Main) <=> mpc.step = "script"
  /\ \A h \in Handlers : Programming(h) <=> hpc[h].step = "send"

\* The encoder has received whole sections of scripts, or a mixture that is known to be one.
Received ==
  {part \in [mode : Modes, section : 1 .. 10, conf : [EncoderFields -> Values],
             rate : {-1, 0, 24, 25, 30, 50, 60}, lost : Nat] :
     part.section = 2 => part.rate # 0}
ChipKnown ==
  /\ chip = Mixed \/ chip \in Seq(Received)
  /\ overlap <=> chip = Mixed

\* Without the timer and without a second save one script follows another.
Unmixed ==
  ~early /\ ~second => ~overlap /\ \A p \in Procs : Programming(p) => owner = p

ProgrammerInv == TypeOK /\ Locked /\ Sending /\ ChipKnown /\ Unmixed

\* The entry of a section that is received under the settings in memory.
Entry(m, s, i) ==
  [mode |-> m, section |-> s, conf |-> Only(mem, EncoderFields),
   rate |-> IF s = 2 THEN shown ELSE 0, lost |-> i]

\* What one operation of a script does to the line and to the chip: of command i of the
\* section the chip does not know, of none when i is 0.
LEMMA SectionEffect ==
  ASSUME TypeOK, NEW p \in Procs, NextSection(p)
  PROVE  \E m \in Modes : \E s \in 1 .. Len(Shape[m]) : \E i \in Nat :
           /\ at[p] = Part(m, s)
           /\ at' = [at EXCEPT ![p] = IF s = Len(Shape[m]) THEN NotProgramming ELSE Part(m, s + 1)]
           /\ lost' = IF i = 0 THEN lost ELSE lost + 1
           /\ i = 0 => UNCHANGED events
           /\ i # 0 => i \in 1 .. Shape[m][s] /\ events < MaxEvents /\ events' = MaxEvents
           /\ chip' = IF overlap \/ owner # p THEN Mixed
                      ELSE IF s = 1 /\ i # Reset THEN << Entry(m, s, i) >>
                      ELSE Append(chip, Entry(m, s, i))
<1>1. LineT
  BY TypeParts
<1>2. PICK m \in Modes : \E s \in 1 .. Len(Shape[m]) :
        /\ at[p] = Part(m, s)
        /\ at' = [at EXCEPT ![p] = IF s = Len(Shape[m]) THEN NotProgramming ELSE Part(m, s + 1)]
  BY <1>1, SectionMoves DEF Procs
<1>3. PICK s \in 1 .. Len(Shape[m]) :
        /\ at[p] = Part(m, s)
        /\ at' = [at EXCEPT ![p] = IF s = Len(Shape[m]) THEN NotProgramming ELSE Part(m, s + 1)]
  BY <1>2
<1> DEFINE Got(i) == chip' = IF overlap \/ owner # p THEN Mixed
                             ELSE IF s = 1 /\ i # Reset THEN << Entry(m, s, i) >>
                             ELSE Append(chip, Entry(m, s, i))
           part(i) == [mode |-> at[p].mode, section |-> at[p].section,
                       conf |-> Only(mem, EncoderFields),
                       rate |-> IF at[p].section = 2 THEN shown ELSE 0, lost |-> i]
<1>5. at[p].mode = m /\ at[p].section = s
  BY <1>3 DEF Part
<1>4. \A i : part(i) = Entry(m, s, i)
  BY <1>5 DEF Entry
<1> DEFINE Counts(i) == events < MaxEvents /\ events' = MaxEvents /\ lost' = lost + 1
<1>6. (lost' = lost /\ events' = events /\ Got(0)) \/ \E i \in 1 .. Shape[m][s] : Counts(i) /\ Got(i)
  <2>1. \/ /\ chip' = IF overlap \/ owner # p THEN Mixed
                      ELSE IF at[p].section = 1 /\ 0 # Reset THEN << part(0) >>
                      ELSE Append(chip, part(0))
           /\ lost' = lost /\ events' = events
        \/ \E i \in 1 .. Shape[at[p].mode][at[p].section] :
             /\ chip' = IF overlap \/ owner # p THEN Mixed
                        ELSE IF at[p].section = 1 /\ i # Reset THEN << part(i) >>
                        ELSE Append(chip, part(i))
             /\ events < MaxEvents /\ events' = MaxEvents /\ lost' = lost + 1
    BY DEF NextSection
  <2> HIDE DEF part
  <2>2. QED
    BY <1>4, <1>5, <2>1
<1>7. \E i \in Nat : /\ lost' = (IF i = 0 THEN lost ELSE lost + 1) /\ Got(i)
                     /\ i = 0 => UNCHANGED events
                     /\ i # 0 => i \in 1 .. Shape[m][s] /\ events < MaxEvents /\ events' = MaxEvents
  <2>1. CASE lost' = lost /\ events' = events /\ Got(0)
    BY <2>1
  <2>2. CASE \E i \in 1 .. Shape[m][s] : Counts(i) /\ Got(i)
    <3>1. PICK i \in 1 .. Shape[m][s] : Counts(i) /\ Got(i)
      BY <2>2
    <3>2. i \in Nat /\ i # 0
      BY <3>1
    <3> HIDE DEF Got
    <3>3. QED
      BY <3>1, <3>2
  <2>3. QED
    BY <1>6, <2>1, <2>2
<1> HIDE DEF Got, part
<1>8. PICK i \in Nat :
        /\ lost' = (IF i = 0 THEN lost ELSE lost + 1) /\ Got(i)
        /\ i = 0 => UNCHANGED events
        /\ i # 0 => i \in 1 .. Shape[m][s] /\ events < MaxEvents /\ events' = MaxEvents
  BY <1>7
<1>9. Got(i)
  BY <1>8
<1>10. /\ lost' = (IF i = 0 THEN lost ELSE lost + 1)
       /\ i = 0 => UNCHANGED events
       /\ i # 0 => i \in 1 .. Shape[m][s] /\ events < MaxEvents /\ events' = MaxEvents
  BY <1>8
<1>11. chip' = IF overlap \/ owner # p THEN Mixed
               ELSE IF s = 1 /\ i # Reset THEN << Entry(m, s, i) >>
               ELSE Append(chip, Entry(m, s, i))
  BY <1>9 DEF Got
<1> WITNESS m \in Modes
<1> WITNESS s \in 1 .. Len(Shape[m])
<1> WITNESS i \in Nat
<1>12. QED
  BY ONLY <1>3, <1>10, <1>11, Zenon

\* What is received is an entry.
LEMMA EntryKind ==
  ASSUME TypeOK, NEW m \in Modes, NEW s \in 1 .. Len(Shape[m]), NEW i \in Nat
  PROVE  Entry(m, s, i) \in Received
<1>1. s \in 1 .. 10
  <2>1. Len(Shape[m]) \in {9, 10}
    BY Shapes
  <2>2. CASE Len(Shape[m]) = 9
    <3>1. s \in 1 .. 9
      BY <2>2
    <3>2. QED
      BY <3>1
  <2>3. CASE Len(Shape[m]) = 10
    BY <2>3
  <2>4. QED
    BY <2>1, <2>2, <2>3
<1>2. Only(mem, EncoderFields) \in [EncoderFields -> Values]
  <2>1. mem \in [Fields -> Values]
    BY DEF TypeOK
  <2>2. EncoderFields \subseteq Fields
    BY DEF Fields
  <2>3. QED
    BY <2>1, <2>2 DEF Only
<1>3. /\ (IF s = 2 THEN shown ELSE 0) \in {-1, 0, 24, 25, 30, 50, 60}
      /\ s = 2 => (IF s = 2 THEN shown ELSE 0) # 0
  BY DEF TypeOK
<1>4. QED
  BY <1>1, <1>2, <1>3 DEF Entry, Received


\* The lock and the lock's exceptions.
LEMMA LockedStep == ASSUME TypeOK, Locked, [Next]_vars PROVE Locked'
<1> DEFINE Goal == Locked'
<1>t. MainT /\ HandT /\ LineT /\ LockT
  BY TypeParts
<1>1. CASE Poll
  <2>1. UNCHANGED <<menu_exit, progr_bar_flag, early, second, hpc>>
    BY <1>1 DEF Poll, input, conf, loop, boards, line, boot
  <2>2. mpc.step = "poll"
    BY <1>1 DEF Poll, MainAt
  <2>3. mpc'.step \in {"ack"}
    BY <1>1, <1>t DEF Poll, GoTo, MainT
  <2>4. QED
    BY <2>1, <2>2, <2>3 DEF Locked, Masked
<1>2. CASE Ack
  <2>1. UNCHANGED <<menu_exit, progr_bar_flag, early, second, hpc>>
    BY <1>2 DEF Ack, input, conf, loop, boards, line, boot
  <2>2. mpc.step = "ack"
    BY <1>2 DEF Ack, MainAt
  <2>3. mpc'.step \in {"read_hdmi"}
    BY <1>2, <1>t DEF Ack, GoTo, MainT
  <2>4. QED
    BY <2>1, <2>2, <2>3 DEF Locked, Masked
<1>3. CASE ReadFormat
  <2>1. UNCHANGED <<menu_exit, progr_bar_flag, early, second, hpc>>
    BY <1>3 DEF ReadFormat, input, conf, loop, boards, line, boot
  <2>2. ~Masked
    BY <1>3 DEF ReadFormat, MainAt, Masked
  <2>3. mpc'.step \in {"poll", "select"}
    BY <1>3, <1>t DEF ReadFormat, Confirm, GoTo, MainT
  <2>4. QED
    BY <2>1, <2>2, <2>3 DEF Locked, Masked
<1>4. CASE ReadHdmi
  <2>1. UNCHANGED <<menu_exit, progr_bar_flag, early, second, hpc>>
    BY <1>4 DEF ReadHdmi, input, conf, loop, boards, line, boot
  <2>2. ~Masked
    BY <1>4 DEF ReadHdmi, MainAt, Masked
  <2>3. mpc'.step \in {"poll", "select"}
    BY <1>4, <1>t DEF ReadHdmi, Confirm, GoTo, MainT
  <2>4. QED
    BY <2>1, <2>2, <2>3 DEF Locked, Masked
<1>5. CASE Select
  <2>1. UNCHANGED <<menu_exit, progr_bar_flag, early, second, hpc>>
    BY <1>5 DEF Select, input, conf, loop, boards, line, boot
  <2>2. mpc.step = "select"
    BY <1>5 DEF Select, MainAt
  <2>3. \E x \in {"poll", "lock"} : mpc' = [mpc EXCEPT !.step = x]
    BY <1>5 DEF Select, GoTo
  <2>4. mpc'.step \in {"poll", "lock"}
    BY <2>3, <1>t DEF MainT
  <2>5. QED
    BY <2>1, <2>2, <2>4 DEF Locked, Masked
<1>6. CASE Lock
  <2>1. UNCHANGED <<progr_bar_flag, early, second, hpc>> /\ hpc[1] = Idle
    BY <1>6 DEF Lock, MainAt, input, conf, loop, boards, line, boot
  <2>2. ~menu_exit
    BY <1>6 DEF Lock, MainAt, Locked, Masked
  <2>3. menu_exit' = TRUE /\ mpc'.step = "receiver"
    BY <1>6, <1>t, <2>2 DEF Lock, GoTo, MainT
  <2>4. QED
    BY <2>1, <2>3 DEF Locked, Masked
<1>7. CASE SetReceiver
  <2>1. UNCHANGED <<menu_exit, progr_bar_flag, early, second, hpc>>
    BY <1>7 DEF SetReceiver, input, conf, loop, boards, line, boot
  <2>2. mpc.step = "receiver"
    BY <1>7 DEF SetReceiver, MainAt
  <2>3. mpc'.step \in {"dac", "script"}
    BY <1>7, <1>t DEF SetReceiver, GoTo, MainT
  <2>4. QED
    BY <2>1, <2>2, <2>3 DEF Locked, Masked
<1>8. CASE MainSection
  <2>1. UNCHANGED <<menu_exit, progr_bar_flag, early, second, hpc>>
    BY <1>8 DEF MainSection, input, conf, loop, boards, line, boot
  <2>2. mpc.step = "script"
    BY <1>8 DEF MainSection, MainAt
  <2>3. mpc'.step \in {"dac", "script"}
    BY <1>8, <1>t DEF MainSection, GoTo, MainT
  <2>4. QED
    BY <2>1, <2>2, <2>3 DEF Locked, Masked
<1>9. CASE SetDac
  <2>1. UNCHANGED <<menu_exit, progr_bar_flag, early, second, hpc>>
    BY <1>9 DEF SetDac, input, conf, loop, boards, line, boot
  <2>2. mpc.step = "dac"
    BY <1>9 DEF SetDac, MainAt
  <2>3. mpc'.step \in {"bus"}
    BY <1>9, <1>t DEF SetDac, GoTo, MainT
  <2>4. QED
    BY <2>1, <2>2, <2>3 DEF Locked, Masked
<1>10. CASE InitBus
  <2>1. UNCHANGED <<progr_bar_flag, early, second, hpc>>
    BY <1>10 DEF InitBus, input, conf, loop, boards, line, boot
  <2>2. mpc'.step = "poll" /\ menu_exit' = FALSE
    BY <1>10, <1>t DEF InitBus, GoTo, MainT
  <2>3. ~early /\ ~second => hpc[2] = Idle
    BY DEF Locked
  <2>4. QED
    BY <2>1, <2>2, <2>3 DEF Locked, Masked
<1>11. ASSUME NEW h \in Handlers, Store(h) PROVE Goal
  <2>1. h = 1 \/ h = 2
    BY DEF Handlers
  <2>2. hpc[h] # Idle /\ DOMAIN hpc = Handlers
    BY <1>11, <1>t DEF Store, Does, Idle, HandT
  <2>3. \E x : hpc' = [hpc EXCEPT ![h] = x]
    BY <1>11 DEF Store, Leave
  <2>4. UNCHANGED <<mpc, menu_exit, progr_bar_flag, early, second>>
    BY <1>11 DEF Store, input, conf, loop, boards, line, boot
  <2>5. QED
    BY <2>1, <2>2, <2>3, <2>4 DEF Locked, Masked, Handlers
<1>12. ASSUME NEW h \in Handlers, Pulse(h) PROVE Goal
  <2>1. h = 1 \/ h = 2
    BY DEF Handlers
  <2>2. hpc[h] # Idle /\ DOMAIN hpc = Handlers
    BY <1>12, <1>t DEF Pulse, Does, Idle, HandT
  <2>3. \E x : hpc' = [hpc EXCEPT ![h] = x]
    BY <1>12 DEF Pulse, Leave
  <2>4. UNCHANGED <<mpc, menu_exit, progr_bar_flag, early, second>>
    BY <1>12 DEF Pulse, input, conf, loop, boards, line, boot
  <2>5. QED
    BY <2>1, <2>2, <2>3, <2>4 DEF Locked, Masked, Handlers
<1>13. ASSUME NEW h \in Handlers, HandlerBegin(h) PROVE Goal
  <2>1. h = 1 \/ h = 2
    BY DEF Handlers
  <2>2. hpc[h] # Idle /\ DOMAIN hpc = Handlers
    BY <1>13, <1>t DEF HandlerBegin, Does, Idle, HandT
  <2>3. \E x : hpc' = [hpc EXCEPT ![h] = x]
    BY <1>13, <1>t DEF HandlerBegin, Leave, HandT
  <2>4. UNCHANGED <<mpc, menu_exit, progr_bar_flag, early, second>>
    BY <1>13 DEF HandlerBegin, input, conf, loop, boards, line, boot
  <2>5. QED
    BY <2>1, <2>2, <2>3, <2>4 DEF Locked, Masked, Handlers
<1>14. ASSUME NEW h \in Handlers, HandlerSection(h) PROVE Goal
  <2>1. h = 1 \/ h = 2
    BY DEF Handlers
  <2>2. hpc[h] # Idle /\ DOMAIN hpc = Handlers
    BY <1>14, <1>t DEF HandlerSection, Does, Idle, HandT
  <2>3. \E x : hpc' = [hpc EXCEPT ![h] = x]
    BY <1>14 DEF HandlerSection, Leave
  <2>4. UNCHANGED <<mpc, menu_exit, progr_bar_flag, early, second>>
    BY <1>14 DEF HandlerSection, input, conf, loop, boards, line, boot
  <2>5. QED
    BY <2>1, <2>2, <2>3, <2>4 DEF Locked, Masked, Handlers
<1>15. ASSUME NEW h \in Handlers, Upload(h) PROVE Goal
  <2>1. h = 1 \/ h = 2
    BY DEF Handlers
  <2>2. hpc[h] # Idle /\ DOMAIN hpc = Handlers
    BY <1>15, <1>t DEF Upload, Does, Idle, HandT
  <2>3. \E x : hpc' = [hpc EXCEPT ![h] = x]
    BY <1>15 DEF Upload, Leave
  <2>4. UNCHANGED <<mpc, menu_exit, progr_bar_flag, early, second>>
    BY <1>15 DEF Upload, input, conf, loop, boards, line, boot
  <2>5. QED
    BY <2>1, <2>2, <2>3, <2>4 DEF Locked, Masked, Handlers
<1>16. ASSUME NEW h \in Handlers, Tune(h) PROVE Goal
  <2>1. h = 1 \/ h = 2
    BY DEF Handlers
  <2>2. hpc[h] # Idle /\ DOMAIN hpc = Handlers
    BY <1>16, <1>t DEF Tune, Does, Idle, HandT
  <2>3. \E x : hpc' = [hpc EXCEPT ![h] = x]
    BY <1>16 DEF Tune, Leave
  <2>4. UNCHANGED <<mpc, menu_exit, progr_bar_flag, early, second>>
    BY <1>16 DEF Tune, input, conf, loop, boards, line, boot
  <2>5. QED
    BY <2>1, <2>2, <2>3, <2>4 DEF Locked, Masked, Handlers
<1>17. ASSUME NEW h \in Handlers, Flag(h) PROVE Goal
  <2>1. h = 1 \/ h = 2
    BY DEF Handlers
  <2>2. hpc[h] # Idle /\ DOMAIN hpc = Handlers
    BY <1>17, <1>t DEF Flag, Does, Idle, HandT
  <2>3. \E x : hpc' = [hpc EXCEPT ![h] = x]
    BY <1>17 DEF Flag, Leave
  <2>4. UNCHANGED <<mpc, menu_exit, progr_bar_flag, early, second>>
    BY <1>17 DEF Flag, input, conf, loop, boards, line, boot
  <2>5. QED
    BY <2>1, <2>2, <2>3, <2>4 DEF Locked, Masked, Handlers
<1>18. CASE BootDone
  <2>1. UNCHANGED <<mpc, menu_exit, early, second, hpc>> /\ (progr_bar_flag => progr_bar_flag')
    BY <1>18 DEF BootDone, input, conf, loop, boards, line, boot
  <2>2. QED
    BY <2>1 DEF Locked, Masked
<1>19. CASE BootTimeout
  <2>1. ~early
    BY <1>19 DEF BootTimeout, Locked
  <2>2. menu_exit' = FALSE /\ progr_bar_flag' = TRUE
    BY <1>19 DEF BootTimeout
  <2>3. early' = menu_exit
    BY <1>19 DEF BootTimeout
  <2>4. UNCHANGED <<mpc, hpc, second>>
    BY <1>19 DEF BootTimeout, input, conf, loop, boards, line, boot
  <2>5. ~early' => ~menu_exit
    BY <2>3
  <2>6. QED
    BY <2>1, <2>2, <2>4, <2>5 DEF Locked, Masked
<1>20. CASE Show
  <2>1. UNCHANGED <<mpc, menu_exit, early, second, hpc>> /\ (progr_bar_flag => progr_bar_flag')
    BY <1>20 DEF Show, input, conf, loop, boards, line, boot
  <2>2. QED
    BY <2>1 DEF Locked, Masked
<1>21. CASE Key
  <2> DEFINE h == IF ~Masked /\ hpc[1] = Idle THEN 1 ELSE 2
  <2>1. ~menu_exit /\ progr_bar_flag /\ UNCHANGED <<mpc, menu_exit, progr_bar_flag, early>>
    BY <1>21 DEF Key, input, conf, loop, boards, line, boot
  <2>2. second' = (second \/ \E g \in Handlers : hpc[g] # Idle)
    BY <1>21 DEF Key
  <2>3. \E x : hpc' = [hpc EXCEPT ![h] = x]
    BY <1>21 DEF Key
  <2>4. ~early /\ ~second' => h = 1 /\ ~Masked /\ hpc[2] = Idle
    BY <2>1, <2>2 DEF Locked, Handlers
  <2>5. ~early /\ ~second' => hpc'[2] = Idle
    BY <2>3, <2>4, <1>t DEF HandT, Handlers
  <2>6. QED
    BY <2>1, <2>4, <2>5 DEF Locked, Masked
<1>22. CASE Replug
  <2>1. UNCHANGED <<mpc, menu_exit, early, second, hpc>> /\ (progr_bar_flag => progr_bar_flag')
    BY <1>22 DEF Replug, input, conf, loop, boards, line, boot
  <2>2. QED
    BY <2>1 DEF Locked, Masked
<1>23. CASE UNCHANGED vars
  BY <1>23 DEF vars, Locked, Masked, input, conf, loop, boards, line, boot
<1>24. QED
  BY <1>1, <1>2, <1>3, <1>4, <1>5, <1>6, <1>7, <1>8, <1>9, <1>10, <1>11, <1>12, <1>13,
     <1>14, <1>15, <1>16, <1>17, <1>18, <1>19, <1>20, <1>21, <1>22, <1>23
  DEF Next, MainStep, HandlerStep, Boot


\* A save that leaves a step does not go to the line.
LEMMA Leaves ==
  ASSUME HandT, NEW h \in Handlers, hpc[h].step \notin {"idle", "send"}, Leave(h)
  PROVE  hpc'[h].step # "send" /\ \A g \in Handlers : g # h => hpc'[g] = hpc[g]
<1>1. hpc[h].step \in HandlerSteps \ {"send"} /\ hpc[h].save \in Saves
  BY DEF HandT, Idle
<1>2. After(hpc[h].save, hpc[h].step).step # "send"
  BY <1>1, Follows DEF Idle, HandlerSteps
<1>3. QED
  BY <1>2 DEF Leave, HandT

\* Who programs is where the line says it is.
LEMMA SendingStep == ASSUME TypeOK, Sending, [Next]_vars PROVE Sending'
<1> DEFINE Goal == Sending'
<1>t. MainT /\ HandT /\ LineT /\ LockT
  BY TypeParts
<1>n. \A p \in Procs : at'[p].section \in Nat
  <2>1. TypeOK'
    BY TypeStep
  <2>2. LineT'
    BY <2>1, TypeParts, PTL
  <2>3. ASSUME NEW p \in Procs PROVE at'[p].section \in Nat
    <3>1. CASE at'[p] = NotProgramming
      BY <3>1 DEF NotProgramming, Part
    <3>2. CASE at'[p] \in Parts
      <4>1. PICK m \in Modes : \E i \in DOMAIN Shape[m] : at'[p] = Part(m, i)
        BY <3>2 DEF Parts
      <4>2. PICK i \in DOMAIN Shape[m] : at'[p] = Part(m, i)
        BY <4>1
      <4>3. i \in 1 .. Len(Shape[m])
        BY <4>2, Shapes
      <4>4. QED
        BY <4>2, <4>3 DEF Part
    <3>3. QED
      BY <2>2, <3>1, <3>2 DEF LineT, Procs
  <2>4. QED
    BY <2>3
<1>1. CASE Poll
  <2>1. UNCHANGED <<at, hpc>>
    BY <1>1 DEF Poll, input, conf, loop, boards, line, boot
  <2>2. mpc.step # "script" /\ mpc'.step # "script"
    BY <1>1, <1>t DEF Poll, MainAt, GoTo, Confirm, MainT
  <2>3. QED
    BY <2>1, <2>2 DEF Sending, Programming
<1>2. CASE Ack
  <2>1. UNCHANGED <<at, hpc>>
    BY <1>2 DEF Ack, input, conf, loop, boards, line, boot
  <2>2. mpc.step # "script" /\ mpc'.step # "script"
    BY <1>2, <1>t DEF Ack, MainAt, GoTo, Confirm, MainT
  <2>3. QED
    BY <2>1, <2>2 DEF Sending, Programming
<1>3. CASE ReadFormat
  <2>1. UNCHANGED <<at, hpc>>
    BY <1>3 DEF ReadFormat, input, conf, loop, boards, line, boot
  <2>2. mpc.step # "script" /\ mpc'.step # "script"
    BY <1>3, <1>t DEF ReadFormat, MainAt, GoTo, Confirm, MainT
  <2>3. QED
    BY <2>1, <2>2 DEF Sending, Programming
<1>4. CASE ReadHdmi
  <2>1. UNCHANGED <<at, hpc>>
    BY <1>4 DEF ReadHdmi, input, conf, loop, boards, line, boot
  <2>2. mpc.step # "script" /\ mpc'.step # "script"
    BY <1>4, <1>t DEF ReadHdmi, MainAt, GoTo, Confirm, MainT
  <2>3. QED
    BY <2>1, <2>2 DEF Sending, Programming
<1>5. CASE Select
  <2>1. UNCHANGED <<at, hpc>>
    BY <1>5 DEF Select, input, conf, loop, boards, line, boot
  <2>2. mpc.step # "script" /\ mpc'.step # "script"
    BY <1>5, <1>t DEF Select, MainAt, GoTo, Confirm, MainT
  <2>3. QED
    BY <2>1, <2>2 DEF Sending, Programming
<1>6. CASE Lock
  <2>1. UNCHANGED <<at, hpc>>
    BY <1>6 DEF Lock, input, conf, loop, boards, line, boot
  <2>2. mpc.step # "script" /\ mpc'.step # "script"
    BY <1>6, <1>t DEF Lock, MainAt, GoTo, Confirm, MainT
  <2>3. QED
    BY <2>1, <2>2 DEF Sending, Programming
<1>7. CASE SetReceiver
  <2>1. UNCHANGED hpc /\ mpc.step = "receiver"
    BY <1>7 DEF SetReceiver, MainAt, input, conf, loop, boards, line, boot
  <2>2. CASE row.script = "none"
    <3>1. UNCHANGED at /\ mpc'.step = "dac"
      BY <1>7, <2>2, <1>t DEF SetReceiver, GoTo, MainT
    <3>2. QED
      BY <2>1, <3>1 DEF Sending, Programming
  <2>3. CASE row.script # "none"
    <3>1. at' = [at EXCEPT ![Main] = Part(row.script, 1)] /\ mpc'.step = "script"
      BY <1>7, <2>3, <1>t DEF SetReceiver, GoTo, MainT, BeginScript
    <3>2. at'[Main].section = 1 /\ \A h \in Handlers : at'[h] = at[h]
      BY <3>1, <1>t DEF LineT, Part, Handlers, Main
    <3>3. QED
      BY <2>1, <3>1, <3>2 DEF Sending, Programming
  <2>4. QED
    BY <2>2, <2>3
<1>8. CASE MainSection
  <2>1. UNCHANGED hpc /\ NextSection(Main)
    BY <1>8 DEF MainSection, input, conf, loop, boards, line, boot
  <2>2. PICK x : at' = [at EXCEPT ![Main] = x]
    BY <2>1, SectionMoves, <1>t
  <2>3. \A h \in Handlers : at'[h] = at[h]
    BY <2>2, <1>t DEF LineT, Handlers, Main
  <2>4. at'[Main].section \in Nat
    BY <1>n DEF Procs
  <2>5. mpc'.step = IF at'[Main].section = 0 THEN "dac" ELSE "script"
    BY <1>8, <1>t DEF MainSection, GoTo, MainT
  <2>6. QED
    BY <2>1, <2>3, <2>4, <2>5 DEF Sending, Programming
<1>9. CASE SetDac
  <2>1. UNCHANGED <<at, hpc>>
    BY <1>9 DEF SetDac, input, conf, loop, boards, line, boot
  <2>2. mpc.step # "script" /\ mpc'.step # "script"
    BY <1>9, <1>t DEF SetDac, MainAt, GoTo, Confirm, MainT
  <2>3. QED
    BY <2>1, <2>2 DEF Sending, Programming
<1>10. CASE InitBus
  <2>1. UNCHANGED <<at, hpc>>
    BY <1>10 DEF InitBus, input, conf, loop, boards, line, boot
  <2>2. mpc.step # "script" /\ mpc'.step # "script"
    BY <1>10, <1>t DEF InitBus, MainAt, GoTo, Confirm, MainT
  <2>3. QED
    BY <2>1, <2>2 DEF Sending, Programming
<1>11. ASSUME NEW h \in Handlers, Store(h) PROVE Goal
  <2>1. UNCHANGED <<at, mpc>>
    BY <1>11 DEF Store, input, conf, loop, boards, line, boot
  <2>2. hpc[h].step \notin {"idle", "send"} /\ Leave(h)
    BY <1>11 DEF Store, Does
  <2>3. hpc'[h].step # "send" /\ \A g \in Handlers : g # h => hpc'[g] = hpc[g]
    BY <2>2, Leaves, <1>t DEF Idle
  <2>4. QED
    BY <2>1, <2>2, <2>3 DEF Sending, Programming
<1>12. ASSUME NEW h \in Handlers, Pulse(h) PROVE Goal
  <2>1. UNCHANGED <<at, mpc>>
    BY <1>12 DEF Pulse, input, conf, loop, boards, line, boot
  <2>2. hpc[h].step \notin {"idle", "send"} /\ Leave(h)
    BY <1>12 DEF Pulse, Does
  <2>3. hpc'[h].step # "send" /\ \A g \in Handlers : g # h => hpc'[g] = hpc[g]
    BY <2>2, Leaves, <1>t DEF Idle
  <2>4. QED
    BY <2>1, <2>2, <2>3 DEF Sending, Programming
<1>13. ASSUME NEW h \in Handlers, HandlerBegin(h) PROVE Goal
  <2>1. UNCHANGED mpc /\ hpc[h].step = "script"
    BY <1>13 DEF HandlerBegin, Does, input, conf, loop, boards, line, boot
  <2>2. CASE row.script \in {"unset", "none"}
    <3>1. UNCHANGED at /\ Leave(h)
      BY <1>13, <2>2 DEF HandlerBegin
    <3>2. hpc'[h].step # "send" /\ \A g \in Handlers : g # h => hpc'[g] = hpc[g]
      BY <2>1, <3>1, Leaves, <1>t DEF Idle
    <3>3. QED
      BY <2>1, <3>1, <3>2 DEF Sending, Programming
  <2>3. CASE row.script \notin {"unset", "none"}
    <3>1. at' = [at EXCEPT ![h] = Part(row.script, 1)] /\ hpc' = [hpc EXCEPT ![h].step = "send"]
      BY <1>13, <2>3 DEF HandlerBegin, BeginScript
    <3>2. at'[h].section = 1 /\ \A g \in Procs : g # h => at'[g] = at[g]
      BY <3>1, <1>t DEF LineT, Part, Procs
    <3>3. hpc'[h].step = "send" /\ \A g \in Handlers : g # h => hpc'[g] = hpc[g]
      BY <2>1, <3>1, <1>t DEF HandT, Idle
    <3>4. QED
      BY <2>1, <3>2, <3>3 DEF Sending, Programming, Procs, Main, Handlers
  <2>4. QED
    BY <2>2, <2>3
<1>14. ASSUME NEW h \in Handlers, HandlerSection(h) PROVE Goal
  <2>1. UNCHANGED mpc /\ hpc[h].step = "send" /\ NextSection(h)
    BY <1>14 DEF HandlerSection, Does, input, conf, loop, boards, line, boot
  <2>2. PICK x : at' = [at EXCEPT ![h] = x]
    BY <2>1, SectionMoves, <1>t
  <2>3. \A g \in Procs : g # h => at'[g] = at[g]
    BY <2>2, <1>t DEF LineT, Procs
  <2>4. at'[h].section \in Nat
    BY <1>n DEF Procs
  <2>5. hpc[h].save \in Saves
    BY <2>1, <1>t DEF HandT, Idle
  <2>6. After(hpc[h].save, "script").step # "send"
    BY <2>5, Follows DEF Idle, HandlerSteps
  <2>7. /\ hpc'[h] = IF at'[h].section = 0 THEN After(hpc[h].save, "script") ELSE hpc[h]
        /\ \A g \in Handlers : g # h => hpc'[g] = hpc[g]
    BY <1>14, <1>t DEF HandlerSection, HandT
  <2>8. QED
    BY <2>1, <2>3, <2>4, <2>6, <2>7 DEF Sending, Programming, Procs, Main, Handlers
<1>15. ASSUME NEW h \in Handlers, Upload(h) PROVE Goal
  <2>1. UNCHANGED <<at, mpc>>
    BY <1>15 DEF Upload, input, conf, loop, boards, line, boot
  <2>2. hpc[h].step \notin {"idle", "send"} /\ Leave(h)
    BY <1>15 DEF Upload, Does
  <2>3. hpc'[h].step # "send" /\ \A g \in Handlers : g # h => hpc'[g] = hpc[g]
    BY <2>2, Leaves, <1>t DEF Idle
  <2>4. QED
    BY <2>1, <2>2, <2>3 DEF Sending, Programming
<1>16. ASSUME NEW h \in Handlers, Tune(h) PROVE Goal
  <2>1. UNCHANGED <<at, mpc>>
    BY <1>16 DEF Tune, input, conf, loop, boards, line, boot
  <2>2. hpc[h].step \notin {"idle", "send"} /\ Leave(h)
    BY <1>16 DEF Tune, Does
  <2>3. hpc'[h].step # "send" /\ \A g \in Handlers : g # h => hpc'[g] = hpc[g]
    BY <2>2, Leaves, <1>t DEF Idle
  <2>4. QED
    BY <2>1, <2>2, <2>3 DEF Sending, Programming
<1>17. ASSUME NEW h \in Handlers, Flag(h) PROVE Goal
  <2>1. UNCHANGED <<at, mpc>>
    BY <1>17 DEF Flag, input, conf, loop, boards, line, boot
  <2>2. hpc[h].step \notin {"idle", "send"} /\ Leave(h)
    BY <1>17 DEF Flag, Does
  <2>3. hpc'[h].step # "send" /\ \A g \in Handlers : g # h => hpc'[g] = hpc[g]
    BY <2>2, Leaves, <1>t DEF Idle
  <2>4. QED
    BY <2>1, <2>2, <2>3 DEF Sending, Programming
<1>18. CASE BootDone
  <2>1. UNCHANGED <<at, mpc, hpc>>
    BY <1>18 DEF BootDone, input, conf, loop, boards, line, boot
  <2>2. QED
    BY <2>1 DEF Sending, Programming
<1>19. CASE BootTimeout
  <2>1. UNCHANGED <<at, mpc, hpc>>
    BY <1>19 DEF BootTimeout, input, conf, loop, boards, line, boot
  <2>2. QED
    BY <2>1 DEF Sending, Programming
<1>20. CASE Show
  <2>1. UNCHANGED <<at, mpc, hpc>>
    BY <1>20 DEF Show, input, conf, loop, boards, line, boot
  <2>2. QED
    BY <2>1 DEF Sending, Programming
<1>21. CASE Key
  <2> DEFINE h == IF ~Masked /\ hpc[1] = Idle THEN 1 ELSE 2
  <2>1. UNCHANGED <<at, mpc>> /\ hpc[h] = Idle
    BY <1>21 DEF Key, input, conf, loop, boards, line, boot
  <2>2. \E s \in Saves : hpc' = [hpc EXCEPT ![h] = [step |-> "store", save |-> s]]
    BY <1>21 DEF Key
  <2>3. h \in Handlers
    BY DEF Handlers
  <2> HIDE DEF h
  <2>4. hpc'[h].step = "store" /\ \A g \in Handlers : g # h => hpc'[g] = hpc[g]
    BY <2>2, <2>3, <1>t DEF HandT
  <2>5. QED
    BY <2>1, <2>3, <2>4 DEF Sending, Programming, Idle
<1>22. CASE Replug
  <2>1. UNCHANGED <<at, mpc, hpc>>
    BY <1>22 DEF Replug, input, conf, loop, boards, line, boot
  <2>2. QED
    BY <2>1 DEF Sending, Programming
<1>23. CASE UNCHANGED vars
  BY <1>23 DEF vars, Sending, Programming, input, conf, loop, boards, line, boot
<1>24. QED
  BY <1>1, <1>2, <1>3, <1>4, <1>5, <1>6, <1>7, <1>8, <1>9, <1>10, <1>11, <1>12, <1>13,
     <1>14, <1>15, <1>16, <1>17, <1>18, <1>19, <1>20, <1>21, <1>22, <1>23
  DEF Next, MainStep, HandlerStep, Boot


\* A mixture is no sequence of sections of scripts.
LEMMA MixedApart == Mixed \notin Seq(Received) /\ Mixed # << >>
<1>1. Len(Mixed) = 1 /\ Mixed[1].mode = "mixed"
  BY DEF Mixed, Part
<1>2. "mixed" \notin Modes
  BY DEF Modes
<1>3. ASSUME Mixed \in Seq(Received) PROVE FALSE
  <2>1. Mixed[1] \in Received
    BY <1>1, <1>3, ElementOfSeq
  <2>2. QED
    BY <1>1, <1>2, <2>1 DEF Received
<1>4. Mixed # << >>
  BY <1>1
<1>5. QED
  BY <1>3, <1>4

\* The hardware reset clears the chip, unless it falls into a script.
LEMMA PulseSections ==
  ASSUME ChipKnown, NEW p \in Procs, PulseReset(p)
  PROVE  ChipKnown'
<1>1. overlap' = OtherProgramming(p) /\ chip' = IF overlap' THEN Mixed ELSE << >>
  BY DEF PulseReset
<1>2. << >> \in Seq(Received)
  OBVIOUS
<1>3. CASE overlap'
  BY <1>1, <1>3 DEF ChipKnown, Mixed
<1>4. CASE ~overlap'
  <2>1. chip' = << >>
    BY <1>1, <1>4
  <2>2. chip' # Mixed /\ chip' \in Seq(Received)
    BY <1>2, <2>1, MixedApart
  <2>3. QED
    BY <1>4, <2>2 DEF ChipKnown, Mixed, Received
<1>5. QED
  BY <1>3, <1>4

\* A section is appended to the sections received.
LEMMA SectionSections ==
  ASSUME TypeOK, ChipKnown, NEW p \in Procs, NextSection(p)
  PROVE  ChipKnown'
<1>1. overlap' = (overlap \/ owner # p)
  BY DEF NextSection
<1>2. PICK m \in Modes : \E s \in 1 .. Len(Shape[m]) : \E i \in Nat :
        chip' = IF overlap \/ owner # p THEN Mixed
                ELSE IF s = 1 /\ i # Reset THEN << Entry(m, s, i) >>
                ELSE Append(chip, Entry(m, s, i))
  BY SectionEffect
<1>3. PICK s \in 1 .. Len(Shape[m]) : \E i \in Nat :
        chip' = IF overlap \/ owner # p THEN Mixed
                ELSE IF s = 1 /\ i # Reset THEN << Entry(m, s, i) >>
                ELSE Append(chip, Entry(m, s, i))
  BY <1>2
<1>4. PICK i \in Nat :
        chip' = IF overlap \/ owner # p THEN Mixed
                ELSE IF s = 1 /\ i # Reset THEN << Entry(m, s, i) >>
                ELSE Append(chip, Entry(m, s, i))
  BY <1>3
<1>5. CASE overlap \/ owner # p
  <2>1. chip' = Mixed
    BY <1>4, <1>5
  <2>2. overlap'
    BY <1>1, <1>5
  <2>3. QED
    BY <2>1, <2>2 DEF ChipKnown, Mixed
<1>6. CASE ~(overlap \/ owner # p)
  <2>1. Entry(m, s, i) \in Received
    BY EntryKind
  <2>2. chip \in Seq(Received)
    BY <1>6 DEF ChipKnown
  <2>3. << Entry(m, s, i) >> \in Seq(Received) /\ Append(chip, Entry(m, s, i)) \in Seq(Received)
    BY <2>1, <2>2, AppendProperties
  <2>4. chip' \in Seq(Received)
    BY <1>4, <1>6, <2>3
  <2>5. chip' # Mixed
    BY <2>4, MixedApart
  <2>6. ~overlap'
    BY <1>1, <1>6
  <2>7. QED
    BY <2>4, <2>5, <2>6 DEF ChipKnown, Mixed, Received
<1>7. QED
  BY <1>5, <1>6

\* A script begins, and is not mixed unless the chip was.
LEMMA Begins ==
  ASSUME TypeOK, ChipKnown, NEW p \in Procs, NEW m, BeginScript(p, m)
  PROVE  /\ owner' = p /\ lost' = 0 /\ mem' = file
         /\ at' = [at EXCEPT ![p] = Part(m, 1)]
         /\ ~overlap => ~overlap'
         /\ Programming(p)' /\ \A q \in Procs : q # p => (Programming(q)' <=> Programming(q))
<1>1. LineT
  BY TypeParts
<1>2. owner' = p /\ lost' = 0 /\ mem' = file
  BY DEF BeginScript
<1>3. at' = [at EXCEPT ![p] = Part(m, 1)]
  BY DEF BeginScript
<1>4. overlap' = (chip = Mixed)
  BY DEF BeginScript
<1>5. at'[p].section = 1 /\ \A q \in Procs : q # p => at'[q] = at[q]
  BY <1>1, <1>3 DEF LineT, Procs, Part
<1>6. Programming(p)' /\ \A q \in Procs : q # p => (Programming(q)' <=> Programming(q))
  BY <1>5 DEF Programming
<1>7. ~overlap => ~overlap'
  BY <1>4 DEF ChipKnown
<1>8. QED
  BY <1>2, <1>3, <1>6, <1>7

\* Nobody else begins or ends when one sends a section.
LEMMA Sends ==
  ASSUME TypeOK, NEW p \in Procs, NextSection(p)
  PROVE  /\ UNCHANGED owner /\ Programming(p)
         /\ overlap' = (overlap \/ owner # p)
         /\ \A q \in Procs : Programming(q)' => Programming(q)
         /\ \A q \in Procs : q # p => at'[q] = at[q]
<1>1. LineT
  BY TypeParts
<1>2. UNCHANGED owner /\ overlap' = (overlap \/ owner # p) /\ Programming(p)
  BY DEF NextSection
<1>3. PICK x : at' = [at EXCEPT ![p] = x]
  BY <1>1, SectionMoves DEF Procs
<1>4. \A q \in Procs : q # p => at'[q] = at[q]
  BY <1>1, <1>3 DEF LineT, Procs
<1>5. \A q \in Procs : Programming(q)' => Programming(q)
  BY <1>2, <1>4 DEF Programming
<1>6. QED
  BY <1>2, <1>4, <1>5

\* What the encoder has received is known.
LEMMA SectionsStep == ASSUME TypeOK, ChipKnown, [Next]_vars PROVE ChipKnown'
<1> DEFINE Goal == ChipKnown'
<1>t. MainT /\ HandT /\ LineT /\ LockT
  BY TypeParts
<1>1. CASE Poll
  <2>1. UNCHANGED <<chip, overlap>>
    BY <1>1 DEF Poll, input, conf, loop, boards, line, boot
  <2>2. QED
    BY <2>1 DEF ChipKnown
<1>2. CASE Ack
  <2>1. UNCHANGED <<chip, overlap>>
    BY <1>2 DEF Ack, input, conf, loop, boards, line, boot
  <2>2. QED
    BY <2>1 DEF ChipKnown
<1>3. CASE ReadFormat
  <2>1. UNCHANGED <<chip, overlap>>
    BY <1>3 DEF ReadFormat, input, conf, loop, boards, line, boot
  <2>2. QED
    BY <2>1 DEF ChipKnown
<1>4. CASE ReadHdmi
  <2>1. UNCHANGED <<chip, overlap>>
    BY <1>4 DEF ReadHdmi, input, conf, loop, boards, line, boot
  <2>2. QED
    BY <2>1 DEF ChipKnown
<1>5. CASE Select
  BY <1>5, PulseSections DEF Select, Procs
<1>6. CASE Lock
  <2>1. UNCHANGED <<chip, overlap>>
    BY <1>6 DEF Lock, input, conf, loop, boards, line, boot
  <2>2. QED
    BY <2>1 DEF ChipKnown
<1>7. CASE SetReceiver
  <2>1. UNCHANGED chip /\ (overlap' = overlap \/ BeginScript(Main, row.script))
    BY <1>7 DEF SetReceiver
  <2>a. BeginScript(Main, row.script) => (overlap' <=> chip = Mixed)
    BY DEF BeginScript
  <2>b. overlap' = overlap => (overlap' <=> chip = Mixed)
    BY DEF ChipKnown
  <2>2. overlap' <=> chip = Mixed
    BY <2>1, <2>a, <2>b
  <2>3. QED
    BY <2>1, <2>2 DEF ChipKnown, Mixed, Received
<1>8. CASE MainSection
  BY <1>8, SectionSections DEF MainSection, Procs
<1>9. CASE SetDac
  <2>1. UNCHANGED <<chip, overlap>>
    BY <1>9 DEF SetDac, input, conf, loop, boards, line, boot
  <2>2. QED
    BY <2>1 DEF ChipKnown
<1>10. CASE InitBus
  <2>1. UNCHANGED <<chip, overlap>>
    BY <1>10 DEF InitBus, input, conf, loop, boards, line, boot
  <2>2. QED
    BY <2>1 DEF ChipKnown
<1>11. ASSUME NEW h \in Handlers, Store(h) PROVE Goal
  <2>1. UNCHANGED <<chip, overlap>>
    BY <1>11 DEF Store, input, conf, loop, boards, line, boot
  <2>2. QED
    BY <2>1 DEF ChipKnown
<1>12. ASSUME NEW h \in Handlers, Pulse(h) PROVE Goal
  <2>1. CASE gpio_cfg
    BY <1>12, <2>1, PulseSections DEF Pulse, Procs
  <2>2. CASE ~gpio_cfg
    <3>1. UNCHANGED <<chip, overlap>>
      BY <1>12, <2>2 DEF Pulse
    <3>2. QED
      BY <3>1 DEF ChipKnown
  <2>3. QED
    BY <2>1, <2>2
<1>13. ASSUME NEW h \in Handlers, HandlerBegin(h) PROVE Goal
  <2>1. UNCHANGED chip /\ (overlap' = overlap \/ BeginScript(h, row.script))
    BY <1>13 DEF HandlerBegin
  <2>a. BeginScript(h, row.script) => (overlap' <=> chip = Mixed)
    BY DEF BeginScript
  <2>b. overlap' = overlap => (overlap' <=> chip = Mixed)
    BY DEF ChipKnown
  <2>2. overlap' <=> chip = Mixed
    BY <2>1, <2>a, <2>b
  <2>3. QED
    BY <2>1, <2>2 DEF ChipKnown, Mixed, Received
<1>14. ASSUME NEW h \in Handlers, HandlerSection(h) PROVE Goal
  BY <1>14, SectionSections DEF HandlerSection, Procs
<1>15. ASSUME NEW h \in Handlers, Upload(h) PROVE Goal
  <2>1. UNCHANGED <<chip, overlap>>
    BY <1>15 DEF Upload, input, conf, loop, boards, line, boot
  <2>2. QED
    BY <2>1 DEF ChipKnown
<1>16. ASSUME NEW h \in Handlers, Tune(h) PROVE Goal
  <2>1. UNCHANGED <<chip, overlap>>
    BY <1>16 DEF Tune, input, conf, loop, boards, line, boot
  <2>2. QED
    BY <2>1 DEF ChipKnown
<1>17. ASSUME NEW h \in Handlers, Flag(h) PROVE Goal
  <2>1. UNCHANGED <<chip, overlap>>
    BY <1>17 DEF Flag, input, conf, loop, boards, line, boot
  <2>2. QED
    BY <2>1 DEF ChipKnown
<1>18. CASE BootDone
  <2>1. UNCHANGED <<chip, overlap>>
    BY <1>18 DEF BootDone, input, conf, loop, boards, line, boot
  <2>2. QED
    BY <2>1 DEF ChipKnown
<1>19. CASE BootTimeout
  <2>1. UNCHANGED <<chip, overlap>>
    BY <1>19 DEF BootTimeout, input, conf, loop, boards, line, boot
  <2>2. QED
    BY <2>1 DEF ChipKnown
<1>20. CASE Show
  <2>1. UNCHANGED <<chip, overlap>>
    BY <1>20 DEF Show, input, conf, loop, boards, line, boot
  <2>2. QED
    BY <2>1 DEF ChipKnown
<1>21. CASE Key
  <2>1. UNCHANGED <<chip, overlap>>
    BY <1>21 DEF Key, input, conf, loop, boards, line, boot
  <2>2. QED
    BY <2>1 DEF ChipKnown
<1>22. CASE Replug
  <2>1. UNCHANGED <<chip, overlap>>
    BY <1>22 DEF Replug, input, conf, loop, boards, line, boot
  <2>2. QED
    BY <2>1 DEF ChipKnown
<1>23. CASE UNCHANGED vars
  BY <1>23 DEF vars, ChipKnown, input, conf, loop, boards, line, boot
<1>24. QED
  BY <1>1, <1>2, <1>3, <1>4, <1>5, <1>6, <1>7, <1>8, <1>9, <1>10, <1>11, <1>12, <1>13,
     <1>14, <1>15, <1>16, <1>17, <1>18, <1>19, <1>20, <1>21, <1>22, <1>23
  DEF Next, MainStep, HandlerStep, Boot

\* Scripts follow one another.
LEMMA UnmixedStep == ASSUME TypeOK, Locked, Sending, ChipKnown, Unmixed, [Next]_vars PROVE Unmixed'
<1> DEFINE Goal == Unmixed'
<1>t. MainT /\ HandT /\ LineT /\ LockT
  BY TypeParts
<1>a. \A h \in Handlers : h = 1 \/ h = 2
  BY DEF Handlers
<1>1. CASE Poll
  <2>1. UNCHANGED <<at, overlap, owner, early, second>>
    BY <1>1 DEF Poll, input, conf, loop, boards, line, boot
  <2>2. QED
    BY <2>1 DEF Unmixed, Programming
<1>2. CASE Ack
  <2>1. UNCHANGED <<at, overlap, owner, early, second>>
    BY <1>2 DEF Ack, input, conf, loop, boards, line, boot
  <2>2. QED
    BY <2>1 DEF Unmixed, Programming
<1>3. CASE ReadFormat
  <2>1. UNCHANGED <<at, overlap, owner, early, second>>
    BY <1>3 DEF ReadFormat, input, conf, loop, boards, line, boot
  <2>2. QED
    BY <2>1 DEF Unmixed, Programming
<1>4. CASE ReadHdmi
  <2>1. UNCHANGED <<at, overlap, owner, early, second>>
    BY <1>4 DEF ReadHdmi, input, conf, loop, boards, line, boot
  <2>2. QED
    BY <2>1 DEF Unmixed, Programming
<1>5. CASE Select
  <2>1. UNCHANGED <<at, owner, early, second>> /\ hpc[1] = Idle /\ overlap' = OtherProgramming(Main)
    BY <1>5 DEF Select, MainAt, PulseReset, input, conf, loop, boards, line, boot
  <2>2. ~early /\ ~second => \A h \in Handlers : ~Programming(h)
    BY <2>1 DEF Locked, Sending, Handlers, Idle
  <2>3. OtherProgramming(Main) => \E h \in Handlers : Programming(h)
    BY <1>t DEF OtherProgramming, LineT
  <2>4. QED
    BY <2>1, <2>2, <2>3 DEF Unmixed, Programming
<1>6. CASE Lock
  <2>1. UNCHANGED <<at, overlap, owner, early, second>>
    BY <1>6 DEF Lock, input, conf, loop, boards, line, boot
  <2>2. QED
    BY <2>1 DEF Unmixed, Programming
<1>7. CASE SetReceiver
  <2>1. UNCHANGED <<early, second, chip>> /\ hpc[1] = Idle
    BY <1>7 DEF SetReceiver, MainAt, input, conf, loop, boards, line, boot
  <2>2. ~early /\ ~second => \A h \in Handlers : ~Programming(h)
    BY <2>1 DEF Locked, Sending, Handlers, Idle
  <2>3. CASE UNCHANGED <<at, owner, overlap>>
    BY <2>1, <2>3 DEF Unmixed, Programming
  <2>4. CASE BeginScript(Main, row.script)
    BY <2>1, <2>2, <2>4, Begins DEF Unmixed, Procs
  <2>5. QED
    BY <1>7, <2>3, <2>4 DEF SetReceiver
<1>8. CASE MainSection
  <2>1. UNCHANGED <<early, second>> /\ NextSection(Main)
    BY <1>8 DEF MainSection, input, conf, loop, boards, line, boot
  <2>2. QED
    BY <2>1, Sends DEF Unmixed, Procs
<1>9. CASE SetDac
  <2>1. UNCHANGED <<at, overlap, owner, early, second>>
    BY <1>9 DEF SetDac, input, conf, loop, boards, line, boot
  <2>2. QED
    BY <2>1 DEF Unmixed, Programming
<1>10. CASE InitBus
  <2>1. UNCHANGED <<at, overlap, owner, early, second>>
    BY <1>10 DEF InitBus, input, conf, loop, boards, line, boot
  <2>2. QED
    BY <2>1 DEF Unmixed, Programming
<1>11. ASSUME NEW h \in Handlers, Store(h) PROVE Goal
  <2>1. UNCHANGED <<at, overlap, owner, early, second>>
    BY <1>11 DEF Store, input, conf, loop, boards, line, boot
  <2>2. QED
    BY <2>1 DEF Unmixed, Programming
<1>12. ASSUME NEW h \in Handlers, Pulse(h) PROVE Goal
  <2>1. UNCHANGED <<at, owner, early, second>> /\ hpc[h].step = "pulse"
    BY <1>12 DEF Pulse, Does, input, conf, loop, boards, line, boot
  <2>2. ~early /\ ~second => \A p \in Procs : ~Programming(p)
    BY <1>a, <2>1 DEF Locked, Sending, Handlers, Idle, Masked, Procs
  <2>3. OtherProgramming(h) => \E p \in Procs : Programming(p)
    BY <1>t DEF OtherProgramming, LineT, Procs
  <2>4. overlap' = OtherProgramming(h) \/ overlap' = overlap
    BY <1>12 DEF Pulse, PulseReset
  <2>5. QED
    BY <2>1, <2>2, <2>3, <2>4 DEF Unmixed, Programming
<1>13. ASSUME NEW h \in Handlers, HandlerBegin(h) PROVE Goal
  <2>1. UNCHANGED <<early, second, chip>> /\ hpc[h].step = "script"
    BY <1>13 DEF HandlerBegin, Does, input, conf, loop, boards, line, boot
  <2>2. ~early /\ ~second => \A p \in Procs : ~Programming(p)
    BY <1>a, <2>1 DEF Locked, Sending, Handlers, Idle, Masked, Procs
  <2>3. CASE UNCHANGED <<at, owner, overlap>>
    BY <2>1, <2>3 DEF Unmixed, Programming
  <2>4. CASE BeginScript(h, row.script)
    BY <2>1, <2>2, <2>4, Begins DEF Unmixed, Procs
  <2>5. QED
    BY <1>13, <2>3, <2>4 DEF HandlerBegin
<1>14. ASSUME NEW h \in Handlers, HandlerSection(h) PROVE Goal
  <2>1. UNCHANGED <<early, second>> /\ NextSection(h)
    BY <1>14 DEF HandlerSection, input, conf, loop, boards, line, boot
  <2>2. QED
    BY <2>1, Sends DEF Unmixed, Procs
<1>15. ASSUME NEW h \in Handlers, Upload(h) PROVE Goal
  <2>1. UNCHANGED <<at, overlap, owner, early, second>>
    BY <1>15 DEF Upload, input, conf, loop, boards, line, boot
  <2>2. QED
    BY <2>1 DEF Unmixed, Programming
<1>16. ASSUME NEW h \in Handlers, Tune(h) PROVE Goal
  <2>1. UNCHANGED <<at, overlap, owner, early, second>>
    BY <1>16 DEF Tune, input, conf, loop, boards, line, boot
  <2>2. QED
    BY <2>1 DEF Unmixed, Programming
<1>17. ASSUME NEW h \in Handlers, Flag(h) PROVE Goal
  <2>1. UNCHANGED <<at, overlap, owner, early, second>>
    BY <1>17 DEF Flag, input, conf, loop, boards, line, boot
  <2>2. QED
    BY <2>1 DEF Unmixed, Programming
<1>18. CASE BootDone
  <2>1. UNCHANGED <<at, overlap, owner, early, second>>
    BY <1>18 DEF BootDone, input, conf, loop, boards, line, boot
  <2>2. QED
    BY <2>1 DEF Unmixed, Programming
<1>19. CASE BootTimeout
  <2>1. ~early
    BY <1>19 DEF BootTimeout, Locked
  <2>2. UNCHANGED <<at, overlap, owner, second>>
    BY <1>19 DEF BootTimeout, input, conf, loop, boards, line, boot
  <2>3. QED
    BY <2>1, <2>2 DEF Unmixed, Programming
<1>20. CASE Show
  <2>1. UNCHANGED <<at, overlap, owner, early, second>>
    BY <1>20 DEF Show, input, conf, loop, boards, line, boot
  <2>2. QED
    BY <2>1 DEF Unmixed, Programming
<1>21. CASE Key
  <2>1. UNCHANGED <<at, overlap, owner, early>>
    BY <1>21 DEF Key, input, conf, loop, boards, line, boot
  <2>2. second => second'
    BY <1>21 DEF Key
  <2>3. QED
    BY <2>1, <2>2 DEF Unmixed, Programming
<1>22. CASE Replug
  <2>1. UNCHANGED <<at, overlap, owner, early, second>>
    BY <1>22 DEF Replug, input, conf, loop, boards, line, boot
  <2>2. QED
    BY <2>1 DEF Unmixed, Programming
<1>23. CASE UNCHANGED vars
  BY <1>23 DEF vars, Unmixed, Programming, input, conf, loop, boards, line, boot
<1>24. QED
  BY <1>1, <1>2, <1>3, <1>4, <1>5, <1>6, <1>7, <1>8, <1>9, <1>10, <1>11, <1>12, <1>13,
     <1>14, <1>15, <1>16, <1>17, <1>18, <1>19, <1>20, <1>21, <1>22, <1>23
  DEF Next, MainStep, HandlerStep, Boot

\* One programs at a time in the beginning, and after every step.
LEMMA ProgrammerInit == ASSUME Init PROVE ProgrammerInv
<1>1. TypeOK
  BY TypeInit
<1>2. at = [p \in {Main} \cup Handlers |-> NotProgramming] /\ hpc = [h \in Handlers |-> Idle]
  BY DEF Init
<1>3. \A p \in Procs : ~Programming(p)
  BY <1>2 DEF Procs, Programming, NotProgramming, Part
<1>4. mpc.step = "poll"
  BY DEF Init
<1>5. Sending
  BY <1>2, <1>3, <1>4 DEF Sending, Procs, Idle
<1>6. menu_exit = FALSE /\ early = FALSE /\ second = FALSE
  BY DEF Init
<1>7. Locked
  BY <1>2, <1>4, <1>6 DEF Locked, Masked, Handlers
<1>8. chip = << >> /\ overlap = FALSE
  BY DEF Init
<1>9. << >> \in Seq(Received)
  OBVIOUS
<1>10. ChipKnown
  BY <1>8, <1>9, MixedApart DEF ChipKnown
<1>11. Unmixed
  BY <1>3, <1>8 DEF Unmixed
<1>12. QED
  BY <1>1, <1>5, <1>7, <1>10, <1>11 DEF ProgrammerInv

\* No step ends it.
LEMMA ProgrammerStep == ASSUME ProgrammerInv, [Next]_vars PROVE ProgrammerInv'
<1>1. TypeOK /\ Locked /\ Sending /\ ChipKnown /\ Unmixed
  BY DEF ProgrammerInv
<1>2. TypeOK'
  BY <1>1, TypeStep
<1>3. Locked' /\ Sending' /\ ChipKnown' /\ Unmixed'
  BY <1>1, LockedStep, SendingStep, SectionsStep, UnmixedStep
<1>4. QED
  BY <1>2, <1>3 DEF ProgrammerInv

\* It holds in every state.
LEMMA ProgrammerInvariant == Spec => []ProgrammerInv
<1>1. Init => ProgrammerInv
  BY ProgrammerInit
<1>2. ProgrammerInv /\ [Next]_vars => ProgrammerInv'
  BY ProgrammerStep
<1>3. QED
  BY <1>1, <1>2, PTL DEF Spec

\* Two scripts are never mixed on the serial line, unless the boot timer has dropped a lock
\* that was held or a second key was handled during a save.
THEOREM OneAtATime == Spec => []OneProgrammer
<1>1. ProgrammerInv => OneProgrammer
  BY DEF ProgrammerInv, Unmixed, OneProgrammer
<1>2. QED
  BY <1>1, ProgrammerInvariant, PTL


-----------------------------------------------------------------------------
(* Everything is programmed from the file.                                 *)

\* A step of a save that is still to come.
DueScript == \E h \in Handlers : hpc[h].step = "script"
DueUpload == \E h \in Handlers : hpc[h].step \in {"pulse", "script", "send", "upload"}
                                 /\ hpc[h].save.gener_table = TRUE
DueTune == \E h \in Handlers : hpc[h].step \in {"pulse", "script", "send", "upload", "tune"}
                               /\ hpc[h].save.ad9789 = TRUE
DueFlag == \E h \in Handlers : hpc[h].step \in HandlerSteps \ {"store"}
                               /\ hpc[h].save.flag = TRUE

\* The main loop has been asked, or is about to be, to program everything.
Asked == pid_status = 1 \/ DueFlag \/ bak = -1
\* It will do what it does in one of the steps, or nothing has to be done yet.
Redo(steps) == Asked \/ mpc.step \in steps \/ row.script = "unset"
ToReceiver == {"select", "lock", "receiver"}
ToDac == ToReceiver \cup {"script", "dac"}
ToBus == ToDac \cup {"bus"}

\* The row is the one of the code that was programmed last.
RowOk ==
  /\ mpc.step \in {"ack", "read_hdmi"} => bak = -1
  /\ mpc.own = FALSE => iface # "HDMI"
  /\ mpc.step = "select" => IF mpc.own THEN mpc.code = bak \/ bak = -1 ELSE bak = -1
  /\ \/ bak = -1 \/ (mpc.step = "select" /\ mpc.own = TRUE)
     \/ row = usercode_mod(iface, bak, IF bak <= 0 THEN 20 ELSE bak, row)
ClockOk ==
  /\ row.script \in Modes => row.clock # 0
  /\ iface = "CVBS" /\ row.script \in Modes => row.clock = refclk_27MHz
  /\ mpc.step \in {"select", "lock"} \/ row.script \notin Modes \/ clk = row.clock
\* What each chip was given is in the file, or will be given again.
PictureOk ==
  /\ mem["picture"] = file["picture"]
  /\ \/ Redo(ToReceiver) \/ row.script = "none"
     \/ rx = [set |-> row.rx, picture |-> file["picture"]]
FileRead ==
  Redo(ToReceiver) \/ mem = file \/ (row.script = "none" /\ mpc.step = "dac")
DacOk == Redo(ToDac) \/ DueTune \/ dac = Only(file, {"rf", "rfon"})
TablesOk == Redo(ToBus) \/ DueUpload \/ tables = Only(file, TableFields)
BusOk == Redo(ToBus) \/ bus = Only(file, {"pmt", "rf"})

\* The sections of the script of the format are there from the first on, none damaged.
InOrder(i) ==
  /\ chip[i].mode = row.script /\ chip[i].section = i /\ chip[i].lost = 0
  /\ i \in DOMAIN Shape[row.script]
\* Section i of the script under way, of which one command may have been lost.
Fresh(m, i) ==
  /\ chip[m + i].mode = row.script /\ chip[m + i].section = i
  /\ chip[m + i].conf = Only(file, EncoderFields)
  /\ chip[m + i].lost \in 0 .. Shape[row.script][i]
\* What is on the chip when n sections are out.  If it was the reset of the first that was
\* lost, they follow m sections of the script before.
Holds(m, n) ==
  /\ DOMAIN chip = 1 .. m + n
  /\ \A i \in 1 .. m : InOrder(i)
  /\ \A i \in 1 .. n : Fresh(m, i)
  /\ \A i, j \in 1 .. n : chip[m + i].lost # 0 /\ chip[m + j].lost # 0 => i = j
  /\ lost = 0 => m = 0 /\ \A i \in 1 .. n : chip[m + i].lost = 0
  /\ m > 0 => n > 0 /\ chip[m + 1].lost = Reset
Sent(n) == \E m \in Nat : Holds(m, n)
\* As long as a command may still be lost none was.
Whole ==
  /\ events < MaxEvents => lost = 0
  /\ events < MaxEvents /\ ~overlap =>
       /\ \A i \in DOMAIN chip : InOrder(i)
       /\ Programming(owner) /\ at[owner].section > 1 =>
            DOMAIN chip = 1 .. at[owner].section - 1
Length(script) == IF script = "none" THEN 0 ELSE Len(Shape[script])
NoneOk ==
  row.script = "none" /\ ~overlap /\ mpc.step # "select" =>
    chip = << >> /\ \A p \in Procs : ~Programming(p)
ModeOk == ~overlap /\ Programming(owner) => at[owner].mode = row.script
SentOk ==
  \/ overlap \/ Redo(ToReceiver) \/ DueScript
  \/ IF Programming(owner) THEN at[owner].section = 1 \/ Sent(at[owner].section - 1)
     ELSE Sent(Length(row.script))

SyncInv ==
  /\ ProgrammerInv /\ RowOk /\ ClockOk /\ PictureOk /\ FileRead
  /\ DacOk /\ TablesOk /\ BusOk /\ NoneOk /\ ModeOk /\ Whole /\ SentOk

\* After a step of a save the steps that are still due are ahead of it.
LEMMA FollowsDue ==
  ASSUME NEW s \in Saves, NEW step \in HandlerSteps \ {"send"}
  PROVE  LET next == After(s, step) IN
         /\ next.step # "idle" => next.save = s
         /\ s.flag = TRUE /\ step # "flag" => next.step \in HandlerSteps \ {"store"}
         /\ s.gener_table = TRUE /\ step \in {"store", "pulse", "script"} =>
              next.step \in {"pulse", "script", "upload"}
         /\ s.ad9789 = TRUE /\ step \notin {"tune", "flag"} =>
              next.step \in {"pulse", "script", "upload", "tune"}
         /\ step = "pulse" => next.step = "script"
BY DEF After, HandlerSteps, Idle

\* Where a step of a handler leaves it.
LEMMA Moves ==
  ASSUME HandT, NEW h \in Handlers, HandlerStep(h)
  PROVE  /\ hpc[h] \in [step : HandlerSteps, save : Saves]
         /\ \A g \in Handlers : g # h => hpc'[g] = hpc[g]
         /\ \/ hpc[h].step = "send" /\ hpc'[h] = hpc[h]
            \/ hpc[h].step = "script" /\ hpc'[h] = [step |-> "send", save |-> hpc[h].save]
            \/ hpc[h].step = "send" /\ hpc'[h] = After(hpc[h].save, "script")
            \/ hpc[h].step # "send" /\ hpc'[h] = After(hpc[h].save, hpc[h].step)
<1>1. hpc[h].step # "idle" => hpc[h] \in [step : HandlerSteps, save : Saves]
  BY DEF HandT, Idle
<1>2. CASE Does(h, "send") /\ HandlerSection(h)
  <2>1. hpc' = [hpc EXCEPT ![h] = IF at'[h].section = 0 THEN After(hpc[h].save, "script") ELSE hpc[h]]
    BY <1>2 DEF HandlerSection, HandT
  <2>2. QED
    BY <1>1, <1>2, <2>1 DEF Does, HandT
<1>3. CASE HandlerBegin(h) /\ hpc' = [hpc EXCEPT ![h].step = "send"]
  <2>1. hpc[h].step = "script"
    BY <1>3 DEF HandlerBegin, Does
  <2>2. hpc'[h] = [step |-> "send", save |-> hpc[h].save]
    BY <1>1, <1>3, <2>1 DEF HandT
  <2>3. QED
    BY <1>1, <1>3, <2>1, <2>2 DEF HandT
<1>4. CASE Leave(h) /\ hpc[h].step \notin {"idle", "send"}
  <2>1. hpc' = [hpc EXCEPT ![h] = After(hpc[h].save, hpc[h].step)]
    BY <1>4 DEF Leave, HandT
  <2>2. QED
    BY <1>1, <1>4, <2>1 DEF HandT
<1>5. QED
  BY <1>2, <1>3, <1>4 DEF HandlerStep, Store, Pulse, HandlerBegin, HandlerSection, Upload, Tune,
     Flag, Does

\* A step of a save stays due until it is done.
LEMMA DueKept ==
  ASSUME HandT, [Next]_vars
  PROVE  /\ DueFlag => DueFlag' \/ \E h \in Handlers : Flag(h)
         /\ DueUpload => DueUpload' \/ \E h \in Handlers : Upload(h)
         /\ DueTune => DueTune' \/ \E h \in Handlers : Tune(h)
         /\ DueScript => DueScript' \/ \E h \in Handlers : HandlerBegin(h)
<1>1. CASE UNCHANGED hpc
  BY <1>1 DEF DueFlag, DueUpload, DueTune, DueScript
<1>2. CASE Key
  <2> DEFINE h == IF ~Masked /\ hpc[1] = Idle THEN 1 ELSE 2
  <2>1. h \in Handlers /\ hpc[h] = Idle /\ \E x : hpc' = [hpc EXCEPT ![h] = x]
    BY <1>2 DEF Key, Handlers
  <2> HIDE DEF h
  <2>2. \A g \in Handlers : hpc[g].step \in HandlerSteps => hpc'[g] = hpc[g]
    BY <2>1 DEF HandT, Idle, HandlerSteps
  <2>3. QED
    BY <2>2 DEF DueFlag, DueUpload, DueTune, DueScript, HandlerSteps
<1>3. ASSUME NEW h \in Handlers, HandlerStep(h)
      PROVE  /\ DueFlag => DueFlag' \/ \E g \in Handlers : Flag(g)
             /\ DueUpload => DueUpload' \/ \E g \in Handlers : Upload(g)
             /\ DueTune => DueTune' \/ \E g \in Handlers : Tune(g)
             /\ DueScript => DueScript' \/ \E g \in Handlers : HandlerBegin(g)
  <2>1. /\ hpc[h].step \in HandlerSteps /\ hpc[h].save \in Saves
        /\ \A g \in Handlers : g # h => hpc'[g] = hpc[g]
        /\ \/ hpc[h].step = "send" /\ hpc'[h] = hpc[h]
           \/ hpc[h].step = "script" /\ hpc'[h] = [step |-> "send", save |-> hpc[h].save]
           \/ hpc[h].step = "send" /\ hpc'[h] = After(hpc[h].save, "script")
           \/ hpc[h].step # "send" /\ hpc'[h] = After(hpc[h].save, hpc[h].step)
    BY <1>3, Moves
  <2>2. /\ hpc[h].step = "flag" => Flag(h)
        /\ hpc[h].step = "upload" => Upload(h)
        /\ hpc[h].step = "tune" => Tune(h)
        /\ hpc[h].step = "script" => HandlerBegin(h)
    BY <1>3 DEF HandlerStep, Store, Pulse, HandlerBegin, HandlerSection, Upload, Tune, Flag, Does
  <2> DEFINE s == hpc[h].save
             from == IF hpc[h].step = "send" THEN "script" ELSE hpc[h].step
  <2>3. from \in HandlerSteps \ {"send"}
    BY <2>1 DEF HandlerSteps
  <2>4. LET next == After(s, from) IN
        /\ next.step # "idle" => next.save = s
        /\ s.flag = TRUE /\ from # "flag" => next.step \in HandlerSteps \ {"store"}
        /\ s.gener_table = TRUE /\ from \in {"store", "pulse", "script"} =>
             next.step \in {"pulse", "script", "upload"}
        /\ s.ad9789 = TRUE /\ from \notin {"tune", "flag"} =>
             next.step \in {"pulse", "script", "upload", "tune"}
    BY <2>1, <2>3, FollowsDue
  <2>5. DueFlag => DueFlag' \/ Flag(h)
    BY <2>1, <2>2, <2>4 DEF DueFlag, HandlerSteps
  <2>6. DueUpload => DueUpload' \/ Upload(h)
    BY <2>1, <2>2, <2>4 DEF DueUpload
  <2>7. DueTune => DueTune' \/ Tune(h)
    BY <2>1, <2>2, <2>4 DEF DueTune
  <2>8. DueScript => DueScript' \/ HandlerBegin(h)
    BY <2>1, <2>2 DEF DueScript
  <2>9. QED
    BY <2>5, <2>6, <2>7, <2>8
<1>4. Boot \/ Show \/ Replug \/ MainStep \/ UNCHANGED vars => UNCHANGED hpc
  BY DEF Boot, BootDone, BootTimeout, Show, Replug, MainStep, Poll, Ack, ReadFormat, ReadHdmi,
     Select, Lock, SetReceiver, MainSection, SetDac, InitBus, vars
<1>5. QED
  BY <1>1, <1>2, <1>3, <1>4 DEF Next

\* A request is kept until the main loop takes it up.
LEMMA AskedKept == ASSUME TypeOK, mpc.step \in {"ack", "read_hdmi"} => bak = -1, Asked, [Next]_vars PROVE Asked' \/ mpc'.step = "select"
<1> DEFINE Goal == Asked' \/ mpc'.step = "select"
<1>d. DueFlag => DueFlag' \/ pid_status' = 1
  <2>1. HandT
    BY TypeParts
  <2>2. QED
    BY <2>1, DueKept DEF Flag
<1>1. CASE Poll
  BY <1>1 DEF Poll, Asked
<1>2. CASE Ack
  <2>1. bak = -1
    BY <1>2 DEF Ack, MainAt
  <2>2. UNCHANGED bak
    BY <1>2 DEF Ack
  <2>3. QED
    BY <2>1, <2>2 DEF Asked
<1>3. CASE ReadFormat
  <2>1. UNCHANGED <<pid_status, hpc>>
    BY <1>3 DEF ReadFormat, input, conf, loop, boards, line, boot
  <2>2. UNCHANGED bak \/ mpc'.step = "select"
    BY <1>3 DEF ReadFormat, Confirm
  <2>3. QED
    BY <2>1, <2>2 DEF Asked, DueFlag
<1>4. CASE ReadHdmi
  <2>1. UNCHANGED <<pid_status, hpc>>
    BY <1>4 DEF ReadHdmi, input, conf, loop, boards, line, boot
  <2>2. UNCHANGED bak \/ mpc'.step = "select"
    BY <1>4 DEF ReadHdmi, Confirm
  <2>3. QED
    BY <2>1, <2>2 DEF Asked, DueFlag
<1>5. CASE Select
  <2>1. UNCHANGED <<bak, pid_status, hpc>>
    BY <1>5 DEF Select, input, conf, loop, boards, line, boot
  <2>2. QED
    BY <2>1 DEF Asked, DueFlag
<1>6. CASE Lock
  <2>1. UNCHANGED <<bak, pid_status, hpc>>
    BY <1>6 DEF Lock, input, conf, loop, boards, line, boot
  <2>2. QED
    BY <2>1 DEF Asked, DueFlag
<1>7. CASE SetReceiver
  <2>1. UNCHANGED <<bak, pid_status, hpc>>
    BY <1>7 DEF SetReceiver, input, conf, loop, boards, line, boot
  <2>2. QED
    BY <2>1 DEF Asked, DueFlag
<1>8. CASE MainSection
  <2>1. UNCHANGED <<bak, pid_status, hpc>>
    BY <1>8 DEF MainSection, input, conf, loop, boards, line, boot
  <2>2. QED
    BY <2>1 DEF Asked, DueFlag
<1>9. CASE SetDac
  <2>1. UNCHANGED <<bak, pid_status, hpc>>
    BY <1>9 DEF SetDac, input, conf, loop, boards, line, boot
  <2>2. QED
    BY <2>1 DEF Asked, DueFlag
<1>10. CASE InitBus
  <2>1. UNCHANGED <<bak, pid_status, hpc>>
    BY <1>10 DEF InitBus, input, conf, loop, boards, line, boot
  <2>2. QED
    BY <2>1 DEF Asked, DueFlag
<1>11. ASSUME NEW h \in Handlers, Store(h) PROVE Goal
  <2>1. UNCHANGED bak /\ (pid_status' = pid_status \/ pid_status' = 1)
    BY <1>11 DEF Store, input, conf, loop, boards, line, boot
  <2>2. QED
    BY <1>d, <2>1 DEF Asked
<1>12. ASSUME NEW h \in Handlers, Pulse(h) PROVE Goal
  <2>1. UNCHANGED bak /\ (pid_status' = pid_status \/ pid_status' = 1)
    BY <1>12 DEF Pulse, input, conf, loop, boards, line, boot
  <2>2. QED
    BY <1>d, <2>1 DEF Asked
<1>13. ASSUME NEW h \in Handlers, HandlerBegin(h) PROVE Goal
  <2>1. UNCHANGED bak /\ (pid_status' = pid_status \/ pid_status' = 1)
    BY <1>13 DEF HandlerBegin, input, conf, loop, boards, line, boot
  <2>2. QED
    BY <1>d, <2>1 DEF Asked
<1>14. ASSUME NEW h \in Handlers, HandlerSection(h) PROVE Goal
  <2>1. UNCHANGED bak /\ (pid_status' = pid_status \/ pid_status' = 1)
    BY <1>14 DEF HandlerSection, input, conf, loop, boards, line, boot
  <2>2. QED
    BY <1>d, <2>1 DEF Asked
<1>15. ASSUME NEW h \in Handlers, Upload(h) PROVE Goal
  <2>1. UNCHANGED bak /\ (pid_status' = pid_status \/ pid_status' = 1)
    BY <1>15 DEF Upload, input, conf, loop, boards, line, boot
  <2>2. QED
    BY <1>d, <2>1 DEF Asked
<1>16. ASSUME NEW h \in Handlers, Tune(h) PROVE Goal
  <2>1. UNCHANGED bak /\ (pid_status' = pid_status \/ pid_status' = 1)
    BY <1>16 DEF Tune, input, conf, loop, boards, line, boot
  <2>2. QED
    BY <1>d, <2>1 DEF Asked
<1>17. ASSUME NEW h \in Handlers, Flag(h) PROVE Goal
  <2>1. UNCHANGED bak /\ (pid_status' = pid_status \/ pid_status' = 1)
    BY <1>17 DEF Flag, input, conf, loop, boards, line, boot
  <2>2. QED
    BY <1>d, <2>1 DEF Asked
<1>18. CASE BootDone
  <2>1. UNCHANGED <<bak, pid_status, hpc>>
    BY <1>18 DEF BootDone, input, conf, loop, boards, line, boot
  <2>2. QED
    BY <2>1 DEF Asked, DueFlag
<1>19. CASE BootTimeout
  <2>1. UNCHANGED <<bak, pid_status, hpc>>
    BY <1>19 DEF BootTimeout, input, conf, loop, boards, line, boot
  <2>2. QED
    BY <2>1 DEF Asked, DueFlag
<1>20. CASE Show
  <2>1. UNCHANGED <<bak, pid_status, hpc>>
    BY <1>20 DEF Show, input, conf, loop, boards, line, boot
  <2>2. QED
    BY <2>1 DEF Asked, DueFlag
<1>21. CASE Key
  <2>1. UNCHANGED <<bak, pid_status>>
    BY <1>21 DEF Key, input, conf, loop, boards, line, boot
  <2>2. QED
    BY <1>d, <2>1 DEF Asked
<1>22. CASE Replug
  <2>1. UNCHANGED <<bak, pid_status, hpc>>
    BY <1>22 DEF Replug, input, conf, loop, boards, line, boot
  <2>2. QED
    BY <2>1 DEF Asked, DueFlag
<1>23. CASE UNCHANGED vars
  BY <1>23 DEF vars, Asked, DueFlag, input, conf, loop, boards, line, boot
<1>24. QED
  BY <1>1, <1>2, <1>3, <1>4, <1>5, <1>6, <1>7, <1>8, <1>9, <1>10, <1>11, <1>12, <1>13,
     <1>14, <1>15, <1>16, <1>17, <1>18, <1>19, <1>20, <1>21, <1>22, <1>23
  DEF Next, MainStep, HandlerStep, Boot


\* The steps of the main loop from the look-up of the format on.
LEMMA MainMoves ==
  ASSUME TypeOK, Locked, [Next]_vars
  PROVE  /\ row' = row \/ Select
         /\ Select => row'.script = "unset" \/ mpc'.step = "lock"
         /\ mpc.step = "select" => UNCHANGED mpc \/ Select
         /\ mpc.step = "lock" => UNCHANGED mpc \/ mpc'.step = "receiver"
         /\ mpc.step = "receiver" => UNCHANGED mpc \/ SetReceiver
         /\ mpc.step = "script" => UNCHANGED mpc \/ mpc'.step \in {"script", "dac"}
         /\ mpc.step = "dac" => UNCHANGED mpc \/ SetDac
         /\ mpc.step = "bus" => UNCHANGED mpc \/ InitBus
         /\ SetReceiver => mpc'.step \in {"script", "dac"}
         /\ SetDac => mpc'.step = "bus"
<1>1. MainT
  BY TypeParts
<1>2. UNCHANGED <<mpc, row>> \/ MainStep
  BY DEF Next, HandlerStep, Store, Pulse, HandlerBegin, HandlerSection, Upload, Tune, Flag, Boot,
     BootDone, BootTimeout, Show, Key, Replug, vars, loop
<1>3. MainStep => row' = row \/ Select
  BY DEF MainStep, Poll, Ack, ReadFormat, ReadHdmi, Lock, SetReceiver, MainSection, SetDac, InitBus
<1>4. Select => row'.script = "unset" \/ mpc'.step = "lock"
  BY <1>1 DEF Select, GoTo, MainT
<1>5. MainStep /\ mpc.step = "select" => Select
  BY DEF MainStep, Poll, Ack, ReadFormat, ReadHdmi, Lock, SetReceiver, MainSection, SetDac,
     InitBus, MainAt
<1>6. MainStep /\ mpc.step = "lock" => mpc'.step = "receiver"
  <2> SUFFICES ASSUME MainStep, mpc.step = "lock" PROVE mpc'.step = "receiver"
    OBVIOUS
  <2>1. Lock
    BY DEF MainStep, Poll, Ack, ReadFormat, ReadHdmi, Select, SetReceiver, MainSection, SetDac,
       InitBus, MainAt
  <2>2. ~menu_exit
    BY DEF Locked, Masked
  <2>3. QED
    BY <1>1, <2>1, <2>2 DEF Lock, GoTo, MainT
<1>7. MainStep /\ mpc.step = "receiver" => SetReceiver
  BY DEF MainStep, Poll, Ack, ReadFormat, ReadHdmi, Select, Lock, MainSection, SetDac, InitBus, MainAt
<1>8. MainStep /\ mpc.step = "script" => mpc'.step \in {"script", "dac"}
  <2> SUFFICES ASSUME MainStep, mpc.step = "script" PROVE mpc'.step \in {"script", "dac"}
    OBVIOUS
  <2>1. MainSection
    BY DEF MainStep, Poll, Ack, ReadFormat, ReadHdmi, Select, Lock, SetReceiver, SetDac, InitBus,
       MainAt
  <2>2. QED
    BY <1>1, <2>1 DEF MainSection, GoTo, MainT
<1>9. MainStep /\ mpc.step = "dac" => SetDac
  BY DEF MainStep, Poll, Ack, ReadFormat, ReadHdmi, Select, Lock, SetReceiver, MainSection,
     InitBus, MainAt
<1>10. MainStep /\ mpc.step = "bus" => InitBus
  BY DEF MainStep, Poll, Ack, ReadFormat, ReadHdmi, Select, Lock, SetReceiver, MainSection,
     SetDac, MainAt
<1>11. (SetReceiver => mpc'.step \in {"script", "dac"}) /\ (SetDac => mpc'.step = "bus")
  BY <1>1 DEF SetReceiver, SetDac, GoTo, MainT
<1>12. QED
  BY <1>2, <1>3, <1>4, <1>5, <1>6, <1>7, <1>8, <1>9, <1>10, <1>11

\* What is to be done again is done, or stays to be done.
LEMMA RedoKept ==
  ASSUME TypeOK, Locked, RowOk, [Next]_vars
  PROVE  /\ Redo(ToReceiver) => Redo(ToReceiver)' \/ SetReceiver
         /\ Redo(ToDac) => Redo(ToDac)' \/ SetDac
         /\ Redo(ToBus) => Redo(ToBus)' \/ InitBus
<1>1. Asked => Asked' \/ mpc'.step = "select"
  BY AskedKept DEF RowOk
<1>2. row.script = "unset" => row'.script = "unset" \/ mpc'.step = "lock"
  BY MainMoves
<1>3. /\ mpc.step \in ToReceiver => mpc'.step \in ToReceiver \/ row'.script = "unset" \/ SetReceiver
      /\ mpc.step \in ToDac => mpc'.step \in ToDac \/ row'.script = "unset" \/ SetDac
      /\ mpc.step \in ToBus => mpc'.step \in ToBus \/ row'.script = "unset" \/ InitBus
  BY MainMoves DEF ToReceiver, ToDac, ToBus
<1>4. \A s \in {"select", "lock"} : s \in ToReceiver /\ s \in ToDac /\ s \in ToBus
  BY DEF ToReceiver, ToDac, ToBus
<1>5. Redo(ToReceiver) => Redo(ToReceiver)' \/ SetReceiver
  BY <1>1, <1>2, <1>3, <1>4 DEF Redo, ToReceiver
<1>6. Redo(ToDac) => Redo(ToDac)' \/ SetDac
  BY <1>1, <1>2, <1>3, <1>4 DEF Redo, ToDac, ToReceiver
<1>7. Redo(ToBus) => Redo(ToBus)' \/ InitBus
  BY <1>1, <1>2, <1>3, <1>4 DEF Redo, ToBus, ToDac, ToReceiver
<1>8. QED
  BY <1>5, <1>6, <1>7

\* The row stays that of the code.
LEMMA RowStep == ASSUME TypeOK, RowOk, [Next]_vars PROVE RowOk'
<1> DEFINE Goal == RowOk'
<1>t. MainT /\ InputT
  BY TypeParts
<1>1. CASE Poll
  <2>1. bak' = -1 /\ UNCHANGED <<iface, row>>
    BY <1>1 DEF Poll, input, conf, loop, boards, line, boot
  <2>2. mpc.step = "poll"
    BY <1>1 DEF Poll, MainAt
  <2>3. mpc'.step \in {"ack"} /\ mpc'.own = mpc.own
    BY <1>1, <1>t DEF Poll, GoTo, MainT
  <2>4. QED
    BY <2>1, <2>2, <2>3 DEF RowOk
<1>2. CASE Ack
  <2>1. UNCHANGED <<iface, bak, row>>
    BY <1>2 DEF Ack, input, conf, loop, boards, line, boot
  <2>2. mpc.step = "ack"
    BY <1>2 DEF Ack, MainAt
  <2>3. mpc'.step \in {"read_hdmi"} /\ mpc'.own = mpc.own
    BY <1>2, <1>t DEF Ack, GoTo, MainT
  <2>4. QED
    BY <2>1, <2>2, <2>3 DEF RowOk
<1>3. CASE ReadFormat
  <2>1. UNCHANGED <<iface, row>> /\ mpc.step = "poll" /\ Confirm(Reading, TRUE)
    BY <1>3 DEF ReadFormat, MainAt, input, conf, loop, boards, line, boot
  <2>2. CASE UNCHANGED bak /\ GoTo("poll")
    <3>1. mpc'.step = "poll" /\ mpc'.own = mpc.own
      BY <2>2, <1>t DEF GoTo, MainT
    <3>2. QED
      BY <2>1, <2>2, <3>1 DEF RowOk
  <2>3. CASE bak' = Reading /\ mpc' = [step |-> "select", code |-> Reading, own |-> TRUE]
    BY <2>1, <2>3 DEF RowOk
  <2>4. QED
    BY <2>1, <2>2, <2>3 DEF Confirm
<1>4. CASE ReadHdmi
  <2>1. UNCHANGED <<iface, row>> /\ mpc.step = "read_hdmi" /\ bak = -1
    BY <1>4 DEF ReadHdmi, MainAt, RowOk, input, conf, loop, boards, line, boot
  <2>2. ASSUME UNCHANGED bak, GoTo("poll") PROVE RowOk'
    <3>1. mpc'.step = "poll" /\ mpc'.own = mpc.own
      BY <2>2, <1>t DEF GoTo, MainT
    <3>2. QED
      BY <2>1, <2>2, <3>1 DEF RowOk
  <2>3. CASE iface = "HDMI"
    <3>1. Confirm(Reading, TRUE)
      BY <1>4, <2>3 DEF ReadHdmi
    <3>2. CASE bak' = Reading /\ mpc' = [step |-> "select", code |-> Reading, own |-> TRUE]
      BY <2>1, <3>2 DEF RowOk
    <3>3. QED
      BY <2>2, <3>1, <3>2 DEF Confirm
  <2>4. CASE iface # "HDMI"
    <3>1. PICK code \in HdmiCode : Confirm(code, FALSE)
      BY <1>4, <2>4 DEF ReadHdmi
    <3>2. CASE bak' = bak /\ mpc' = [step |-> "select", code |-> code, own |-> FALSE]
      BY <2>1, <2>4, <3>2 DEF RowOk
    <3>3. QED
      BY <2>2, <3>1, <3>2 DEF Confirm
  <2>5. QED
    BY <2>3, <2>4
<1>5. CASE Select
  <2>1. UNCHANGED <<iface, bak>> /\ mpc.step = "select"
    BY <1>5 DEF Select, MainAt, input, conf, loop, boards, line, boot
  <2>2. row' = usercode_mod(iface, IF mpc.own THEN mpc.code ELSE 0,
                            IF mpc.code <= 0 THEN 20 ELSE mpc.code, row)
    BY <1>5 DEF Select
  <2>3. mpc'.step \in {"poll", "lock"} /\ mpc'.own = mpc.own
    BY <1>5, <1>t DEF Select, GoTo, MainT
  <2>4. CASE bak = -1
    BY <2>1, <2>3, <2>4 DEF RowOk
  <2>5. CASE bak # -1
    <3>1. mpc.own = TRUE /\ mpc.code = bak
      BY <1>t, <2>1, <2>5 DEF RowOk, MainT
    <3>2. row' = usercode_mod(iface, bak, IF bak <= 0 THEN 20 ELSE bak, row)
      BY <2>2, <3>1
    <3>3. row' = usercode_mod(iface, bak, IF bak <= 0 THEN 20 ELSE bak, row')
      BY <3>2, RowStays
    <3>4. mpc'.own = TRUE
      BY <2>3, <3>1
    <3>5. iface' = iface /\ bak' = bak
      BY <2>1
    <3>6. row' = usercode_mod(iface', bak', IF bak' <= 0 THEN 20 ELSE bak', row')
      BY <3>3, <3>5
    <3>7. QED
      BY <2>3, <3>4, <3>6 DEF RowOk
  <2>6. QED
    BY <2>4, <2>5
<1>6. CASE Lock
  <2>1. UNCHANGED <<iface, bak, row>>
    BY <1>6 DEF Lock, input, conf, loop, boards, line, boot
  <2>2. mpc.step = "lock"
    BY <1>6 DEF Lock, MainAt
  <2>3. mpc'.step \in {"poll", "receiver"} /\ mpc'.own = mpc.own
    BY <1>6, <1>t DEF Lock, GoTo, MainT
  <2>4. QED
    BY <2>1, <2>2, <2>3 DEF RowOk
<1>7. CASE SetReceiver
  <2>1. UNCHANGED <<iface, bak, row>>
    BY <1>7 DEF SetReceiver, input, conf, loop, boards, line, boot
  <2>2. mpc.step = "receiver"
    BY <1>7 DEF SetReceiver, MainAt
  <2>3. mpc'.step \in {"dac", "script"} /\ mpc'.own = mpc.own
    BY <1>7, <1>t DEF SetReceiver, GoTo, MainT
  <2>4. QED
    BY <2>1, <2>2, <2>3 DEF RowOk
<1>8. CASE MainSection
  <2>1. UNCHANGED <<iface, bak, row>>
    BY <1>8 DEF MainSection, input, conf, loop, boards, line, boot
  <2>2. mpc.step = "script"
    BY <1>8 DEF MainSection, MainAt
  <2>3. mpc'.step \in {"dac", "script"} /\ mpc'.own = mpc.own
    BY <1>8, <1>t DEF MainSection, GoTo, MainT
  <2>4. QED
    BY <2>1, <2>2, <2>3 DEF RowOk
<1>9. CASE SetDac
  <2>1. UNCHANGED <<iface, bak, row>>
    BY <1>9 DEF SetDac, input, conf, loop, boards, line, boot
  <2>2. mpc.step = "dac"
    BY <1>9 DEF SetDac, MainAt
  <2>3. mpc'.step \in {"bus"} /\ mpc'.own = mpc.own
    BY <1>9, <1>t DEF SetDac, GoTo, MainT
  <2>4. QED
    BY <2>1, <2>2, <2>3 DEF RowOk
<1>10. CASE InitBus
  <2>1. UNCHANGED <<iface, bak, row>>
    BY <1>10 DEF InitBus, input, conf, loop, boards, line, boot
  <2>2. mpc.step = "bus"
    BY <1>10 DEF InitBus, MainAt
  <2>3. mpc'.step \in {"poll"} /\ mpc'.own = mpc.own
    BY <1>10, <1>t DEF InitBus, GoTo, MainT
  <2>4. QED
    BY <2>1, <2>2, <2>3 DEF RowOk
<1>11. ASSUME NEW h \in Handlers, Store(h) PROVE Goal
  <2>1. UNCHANGED <<iface, bak, row>> /\ UNCHANGED mpc
    BY <1>11 DEF Store, input, conf, loop, boards, line, boot
  <2>2. QED
    BY <2>1 DEF RowOk
<1>12. ASSUME NEW h \in Handlers, Pulse(h) PROVE Goal
  <2>1. UNCHANGED <<iface, bak, row>> /\ UNCHANGED mpc
    BY <1>12 DEF Pulse, input, conf, loop, boards, line, boot
  <2>2. QED
    BY <2>1 DEF RowOk
<1>13. ASSUME NEW h \in Handlers, HandlerBegin(h) PROVE Goal
  <2>1. UNCHANGED <<iface, bak, row>> /\ UNCHANGED mpc
    BY <1>13 DEF HandlerBegin, input, conf, loop, boards, line, boot
  <2>2. QED
    BY <2>1 DEF RowOk
<1>14. ASSUME NEW h \in Handlers, HandlerSection(h) PROVE Goal
  <2>1. UNCHANGED <<iface, bak, row>> /\ UNCHANGED mpc
    BY <1>14 DEF HandlerSection, input, conf, loop, boards, line, boot
  <2>2. QED
    BY <2>1 DEF RowOk
<1>15. ASSUME NEW h \in Handlers, Upload(h) PROVE Goal
  <2>1. UNCHANGED <<iface, bak, row>> /\ UNCHANGED mpc
    BY <1>15 DEF Upload, input, conf, loop, boards, line, boot
  <2>2. QED
    BY <2>1 DEF RowOk
<1>16. ASSUME NEW h \in Handlers, Tune(h) PROVE Goal
  <2>1. UNCHANGED <<iface, bak, row>> /\ UNCHANGED mpc
    BY <1>16 DEF Tune, input, conf, loop, boards, line, boot
  <2>2. QED
    BY <2>1 DEF RowOk
<1>17. ASSUME NEW h \in Handlers, Flag(h) PROVE Goal
  <2>1. UNCHANGED <<iface, bak, row>> /\ UNCHANGED mpc
    BY <1>17 DEF Flag, input, conf, loop, boards, line, boot
  <2>2. QED
    BY <2>1 DEF RowOk
<1>18. CASE BootDone
  <2>1. UNCHANGED <<iface, bak, row>> /\ UNCHANGED mpc
    BY <1>18 DEF BootDone, input, conf, loop, boards, line, boot
  <2>2. QED
    BY <2>1 DEF RowOk
<1>19. CASE BootTimeout
  <2>1. UNCHANGED <<iface, bak, row>> /\ UNCHANGED mpc
    BY <1>19 DEF BootTimeout, input, conf, loop, boards, line, boot
  <2>2. QED
    BY <2>1 DEF RowOk
<1>20. CASE Show
  <2>1. UNCHANGED <<iface, bak, row>> /\ UNCHANGED mpc
    BY <1>20 DEF Show, input, conf, loop, boards, line, boot
  <2>2. QED
    BY <2>1 DEF RowOk
<1>21. CASE Key
  <2>1. UNCHANGED <<iface, bak, row>> /\ UNCHANGED mpc
    BY <1>21 DEF Key, input, conf, loop, boards, line, boot
  <2>2. QED
    BY <2>1 DEF RowOk
<1>22. CASE Replug
  <2>1. UNCHANGED <<iface, bak, row>> /\ UNCHANGED mpc
    BY <1>22 DEF Replug, input, conf, loop, boards, line, boot
  <2>2. QED
    BY <2>1 DEF RowOk
<1>23. CASE UNCHANGED vars
  BY <1>23 DEF vars, RowOk, input, conf, loop, boards, line, boot
<1>24. QED
  BY <1>1, <1>2, <1>3, <1>4, <1>5, <1>6, <1>7, <1>8, <1>9, <1>10, <1>11, <1>12, <1>13,
     <1>14, <1>15, <1>16, <1>17, <1>18, <1>19, <1>20, <1>21, <1>22, <1>23
  DEF Next, MainStep, HandlerStep, Boot

\* The clock stays that of the row.
LEMMA ClockStep == ASSUME TypeOK, Locked, ClockOk, [Next]_vars PROVE ClockOk'
<1> DEFINE Goal == ClockOk'
<1>t. MainT /\ InputT
  BY TypeParts
<1>1. CASE Poll
  <2>1. UNCHANGED <<iface, row, clk>> /\ (mpc.step \in {"select", "lock"} => UNCHANGED mpc)
    BY <1>1 DEF Poll, MainAt, input, conf, loop, boards, line, boot
  <2>2. QED
    BY <2>1 DEF ClockOk
<1>2. CASE Ack
  <2>1. UNCHANGED <<iface, row, clk>> /\ (mpc.step \in {"select", "lock"} => UNCHANGED mpc)
    BY <1>2 DEF Ack, MainAt, input, conf, loop, boards, line, boot
  <2>2. QED
    BY <2>1 DEF ClockOk
<1>3. CASE ReadFormat
  <2>1. UNCHANGED <<iface, row>> /\ mpc.step = "poll"
    BY <1>3 DEF ReadFormat, MainAt, input, conf, loop, boards, line, boot
  <2>2. clk' = IF iface = "CVBS" THEN refclk_27MHz ELSE clk
    BY <1>3 DEF ReadFormat
  <2>3. QED
    BY <2>1, <2>2 DEF ClockOk
<1>4. CASE ReadHdmi
  <2>1. UNCHANGED <<iface, row, clk>> /\ (mpc.step \in {"select", "lock"} => UNCHANGED mpc)
    BY <1>4 DEF ReadHdmi, MainAt, input, conf, loop, boards, line, boot
  <2>2. QED
    BY <2>1 DEF ClockOk
<1>5. CASE Select
  <2>1. UNCHANGED iface /\ mpc.step = "select"
    BY <1>5 DEF Select, MainAt, input, conf, loop, boards, line, boot
  <2>2. row' = usercode_mod(iface, IF mpc.own THEN mpc.code ELSE 0,
                            IF mpc.code <= 0 THEN 20 ELSE mpc.code, row)
    BY <1>5 DEF Select
  <2>3. \/ row' = row
        \/ /\ row'.script \in Modes => row'.clock # 0
           /\ iface = "CVBS" /\ row'.script \in Modes => row'.clock = refclk_27MHz
    BY <1>t, <2>2, RowFound DEF InputT
  <2>4. CASE row'.script = "unset"
    <3>1. row'.script \notin Modes
      BY <2>4 DEF Modes
    <3>2. QED
      BY <2>1, <2>3, <3>1 DEF ClockOk
  <2>5. CASE row'.script # "unset"
    <3>1. mpc'.step = "lock"
      BY <1>5, <1>t, <2>5 DEF Select, GoTo, MainT
    <3>2. QED
      BY <2>1, <2>3, <3>1 DEF ClockOk
  <2>6. QED
    BY <2>4, <2>5
<1>6. CASE Lock
  <2>1. UNCHANGED <<iface, row>> /\ ~menu_exit
    BY <1>6 DEF Lock, MainAt, Locked, Masked, input, conf, loop, boards, line, boot
  <2>2. clk' = IF row.clock = 0 THEN clk ELSE row.clock
    BY <1>6, <2>1 DEF Lock
  <2>3. QED
    BY <2>1, <2>2 DEF ClockOk
<1>7. CASE SetReceiver
  <2>1. UNCHANGED <<iface, row, clk>> /\ (mpc.step \in {"select", "lock"} => UNCHANGED mpc)
    BY <1>7 DEF SetReceiver, MainAt, input, conf, loop, boards, line, boot
  <2>2. QED
    BY <2>1 DEF ClockOk
<1>8. CASE MainSection
  <2>1. UNCHANGED <<iface, row, clk>> /\ (mpc.step \in {"select", "lock"} => UNCHANGED mpc)
    BY <1>8 DEF MainSection, MainAt, input, conf, loop, boards, line, boot
  <2>2. QED
    BY <2>1 DEF ClockOk
<1>9. CASE SetDac
  <2>1. UNCHANGED <<iface, row, clk>> /\ (mpc.step \in {"select", "lock"} => UNCHANGED mpc)
    BY <1>9 DEF SetDac, MainAt, input, conf, loop, boards, line, boot
  <2>2. QED
    BY <2>1 DEF ClockOk
<1>10. CASE InitBus
  <2>1. UNCHANGED <<iface, row, clk>> /\ (mpc.step \in {"select", "lock"} => UNCHANGED mpc)
    BY <1>10 DEF InitBus, MainAt, input, conf, loop, boards, line, boot
  <2>2. QED
    BY <2>1 DEF ClockOk
<1>11. ASSUME NEW h \in Handlers, Store(h) PROVE Goal
  <2>1. UNCHANGED <<iface, row, clk>> /\ (mpc.step \in {"select", "lock"} => UNCHANGED mpc)
    BY <1>11 DEF Store, MainAt, input, conf, loop, boards, line, boot
  <2>2. QED
    BY <2>1 DEF ClockOk
<1>12. ASSUME NEW h \in Handlers, Pulse(h) PROVE Goal
  <2>1. UNCHANGED <<iface, row, clk>> /\ (mpc.step \in {"select", "lock"} => UNCHANGED mpc)
    BY <1>12 DEF Pulse, MainAt, input, conf, loop, boards, line, boot
  <2>2. QED
    BY <2>1 DEF ClockOk
<1>13. ASSUME NEW h \in Handlers, HandlerBegin(h) PROVE Goal
  <2>1. UNCHANGED <<iface, row, clk>> /\ (mpc.step \in {"select", "lock"} => UNCHANGED mpc)
    BY <1>13 DEF HandlerBegin, MainAt, input, conf, loop, boards, line, boot
  <2>2. QED
    BY <2>1 DEF ClockOk
<1>14. ASSUME NEW h \in Handlers, HandlerSection(h) PROVE Goal
  <2>1. UNCHANGED <<iface, row, clk>> /\ (mpc.step \in {"select", "lock"} => UNCHANGED mpc)
    BY <1>14 DEF HandlerSection, MainAt, input, conf, loop, boards, line, boot
  <2>2. QED
    BY <2>1 DEF ClockOk
<1>15. ASSUME NEW h \in Handlers, Upload(h) PROVE Goal
  <2>1. UNCHANGED <<iface, row, clk>> /\ (mpc.step \in {"select", "lock"} => UNCHANGED mpc)
    BY <1>15 DEF Upload, MainAt, input, conf, loop, boards, line, boot
  <2>2. QED
    BY <2>1 DEF ClockOk
<1>16. ASSUME NEW h \in Handlers, Tune(h) PROVE Goal
  <2>1. UNCHANGED <<iface, row, clk>> /\ (mpc.step \in {"select", "lock"} => UNCHANGED mpc)
    BY <1>16 DEF Tune, MainAt, input, conf, loop, boards, line, boot
  <2>2. QED
    BY <2>1 DEF ClockOk
<1>17. ASSUME NEW h \in Handlers, Flag(h) PROVE Goal
  <2>1. UNCHANGED <<iface, row, clk>> /\ (mpc.step \in {"select", "lock"} => UNCHANGED mpc)
    BY <1>17 DEF Flag, MainAt, input, conf, loop, boards, line, boot
  <2>2. QED
    BY <2>1 DEF ClockOk
<1>18. CASE BootDone
  <2>1. UNCHANGED <<iface, row, clk>> /\ (mpc.step \in {"select", "lock"} => UNCHANGED mpc)
    BY <1>18 DEF BootDone, MainAt, input, conf, loop, boards, line, boot
  <2>2. QED
    BY <2>1 DEF ClockOk
<1>19. CASE BootTimeout
  <2>1. UNCHANGED <<iface, row, clk>> /\ (mpc.step \in {"select", "lock"} => UNCHANGED mpc)
    BY <1>19 DEF BootTimeout, MainAt, input, conf, loop, boards, line, boot
  <2>2. QED
    BY <2>1 DEF ClockOk
<1>20. CASE Show
  <2>1. UNCHANGED <<iface, row, clk>> /\ (mpc.step \in {"select", "lock"} => UNCHANGED mpc)
    BY <1>20 DEF Show, MainAt, input, conf, loop, boards, line, boot
  <2>2. QED
    BY <2>1 DEF ClockOk
<1>21. CASE Key
  <2>1. UNCHANGED <<iface, row, clk>> /\ (mpc.step \in {"select", "lock"} => UNCHANGED mpc)
    BY <1>21 DEF Key, MainAt, input, conf, loop, boards, line, boot
  <2>2. QED
    BY <2>1 DEF ClockOk
<1>22. CASE Replug
  <2>1. UNCHANGED <<iface, row, clk>> /\ (mpc.step \in {"select", "lock"} => UNCHANGED mpc)
    BY <1>22 DEF Replug, MainAt, input, conf, loop, boards, line, boot
  <2>2. QED
    BY <2>1 DEF ClockOk
<1>23. CASE UNCHANGED vars
  BY <1>23 DEF vars, ClockOk, input, conf, loop, boards, line, boot
<1>24. QED
  BY <1>1, <1>2, <1>3, <1>4, <1>5, <1>6, <1>7, <1>8, <1>9, <1>10, <1>11, <1>12, <1>13,
     <1>14, <1>15, <1>16, <1>17, <1>18, <1>19, <1>20, <1>21, <1>22, <1>23
  DEF Next, MainStep, HandlerStep, Boot


\* What a save does to the file, and what it leaves to do.
LEMMA StoreDoes ==
  ASSUME TypeOK, NEW h \in Handlers, Store(h)
  PROVE  \E s \in Saves :
           /\ SaveRules(s)
           /\ \A f \in Fields : f # s.field => file'[f] = file[f]
           /\ mem' = IF s.reads THEN file' ELSE mem
           /\ s.reads \/ s.flag \/ file' = file
           /\ s.flag => Asked'
           /\ s.gener_table => DueUpload'
           /\ s.ad9789 => DueTune'
           /\ UNCHANGED <<mpc, row, clk, rx, dac, tables, bus, chip, at, owner, overlap, lost>>
<1>1. HandT /\ ConfT
  BY TypeParts
<1>2. Does(h, "store") /\ Leave(h) /\ HandlerStep(h)
  BY DEF Store, HandlerStep
<1>3. hpc[h].step = "store" /\ hpc[h].save \in Saves
  BY <1>1, <1>2, Moves DEF Does
<1> DEFINE s == hpc[h].save
<1>4. SaveRules(s)
  BY <1>3, SaveKinds
<1>5. /\ file' = [x \in Fields |-> IF x = s.field THEN 3 - file[x] ELSE file[x]]
      /\ mem' = IF s.reads THEN file' ELSE mem
  BY DEF Store
<1>6. /\ \A f \in Fields : f # s.field => file'[f] = file[f]
      /\ s.reads \/ s.flag \/ file' = file
  <2>1. \A f \in Fields : f # s.field => file'[f] = file[f]
    BY <1>5
  <2>2. CASE s.field \in Fields
    BY <1>4, <2>1, <2>2 DEF SaveRules
  <2>3. CASE s.field \notin Fields
    <3>1. file' = [x \in Fields |-> file[x]]
      BY <1>5, <2>3
    <3>2. QED
      BY <1>1, <2>1, <3>1 DEF ConfT
  <2>4. QED
    BY <2>2, <2>3
<1>7. hpc'[h] = After(s, "store")
  BY <1>1, <1>2, <1>3 DEF Leave, HandT
<1>8. LET next == After(s, "store") IN
      /\ next.step # "idle" => next.save = s
      /\ s.flag = TRUE => next.step \in HandlerSteps \ {"store"}
      /\ s.gener_table = TRUE => next.step \in {"pulse", "script", "upload"}
      /\ s.ad9789 = TRUE => next.step \in {"pulse", "script", "upload", "tune"}
  BY <1>3, FollowsDue DEF HandlerSteps
<1>9. (s.flag => Asked') /\ (s.gener_table => DueUpload') /\ (s.ad9789 => DueTune')
  <2>1. s.flag \in BOOLEAN /\ s.gener_table \in BOOLEAN /\ s.ad9789 \in BOOLEAN
    BY <1>4 DEF SaveRules
  <2>2. s.flag = TRUE => DueFlag'
    BY <1>7, <1>8 DEF DueFlag, HandlerSteps
  <2>3. s.gener_table = TRUE => DueUpload'
    BY <1>7, <1>8 DEF DueUpload
  <2>4. s.ad9789 = TRUE => DueTune'
    BY <1>7, <1>8 DEF DueTune
  <2>5. QED
    BY <2>1, <2>2, <2>3, <2>4 DEF Asked
<1>10. UNCHANGED <<mpc, row, clk, rx, dac, tables, bus, chip, at, owner, overlap, lost>>
  BY DEF Store, loop, boards, line
<1> HIDE DEF s
<1>11. s \in Saves
  BY <1>3 DEF s
<1>12. QED
  BY <1>4, <1>5, <1>6, <1>9, <1>10, <1>11

\* Who changes what.
LEMMA Changes ==
  ASSUME TypeOK, Locked, [Next]_vars
  PROVE  /\ \/ UNCHANGED <<file, mem>> \/ (file' = file /\ mem' = file)
            \/ \E h \in Handlers : Store(h)
         /\ UNCHANGED rx \/ SetReceiver
         /\ UNCHANGED dac \/ SetDac \/ \E h \in Handlers : Tune(h)
         /\ UNCHANGED tables \/ InitBus \/ \E h \in Handlers : Upload(h)
         /\ UNCHANGED bus \/ InitBus
         /\ SetReceiver => mpc.step = "receiver" /\ mpc' # mpc
         /\ SetDac => mpc.step = "dac" /\ mpc' # mpc
         /\ InitBus => mpc.step = "bus" /\ mpc' # mpc
         /\ Select => mpc.step = "select" /\ mpc' # mpc
<1>1. MainT
  BY TypeParts
<1>2. mpc.step = "receiver" \/ ~SetReceiver
  BY DEF SetReceiver, MainAt
<1>3. (SetDac => mpc.step = "dac") /\ (InitBus => mpc.step = "bus") /\ (Select => mpc.step = "select")
  BY DEF SetDac, InitBus, Select, MainAt
<1>4. SetReceiver => mpc'.step \in {"script", "dac"}
  BY <1>1 DEF SetReceiver, GoTo, MainT
<1>5. (SetDac => mpc'.step = "bus") /\ (InitBus => mpc'.step = "poll")
  BY <1>1 DEF SetDac, InitBus, GoTo, MainT
<1>6. Select => mpc'.step \in {"poll", "lock"}
  BY <1>1 DEF Select, GoTo, MainT
<1>7. MainStep => /\ UNCHANGED <<file, mem>> \/ (file' = file /\ mem' = file)
                  /\ UNCHANGED rx \/ SetReceiver
                  /\ UNCHANGED dac \/ SetDac
                  /\ UNCHANGED tables \/ InitBus
                  /\ UNCHANGED bus \/ InitBus
  <2>1. Poll \/ Ack \/ ReadFormat \/ ReadHdmi \/ Select \/ Lock \/ MainSection =>
          UNCHANGED <<file, mem, rx, dac, tables, bus>>
    BY DEF Poll, Ack, ReadFormat, ReadHdmi, Select, Lock, MainSection, boards, conf
  <2>2. SetReceiver => /\ UNCHANGED <<dac, tables, bus>> /\ file' = file
                       /\ mem' = mem \/ mem' = file
    BY DEF SetReceiver, BeginScript
  <2>3. SetDac => UNCHANGED <<rx, tables, bus>> /\ file' = file /\ mem' = file
    BY DEF SetDac
  <2>4. InitBus => UNCHANGED <<rx, dac, file, mem>>
    BY DEF InitBus, conf
  <2>5. QED
    BY <2>1, <2>2, <2>3, <2>4 DEF MainStep
<1>8. ASSUME NEW h \in Handlers, HandlerStep(h)
      PROVE  /\ UNCHANGED <<file, mem>> \/ (file' = file /\ mem' = file) \/ Store(h)
             /\ UNCHANGED rx
             /\ UNCHANGED dac \/ Tune(h)
             /\ UNCHANGED tables \/ Upload(h)
             /\ UNCHANGED bus
  BY <1>8 DEF HandlerStep, Store, Pulse, HandlerBegin, HandlerSection, Upload, Tune, Flag,
     BeginScript, boards, conf
<1>9. Boot \/ Show \/ Key \/ Replug \/ UNCHANGED vars => UNCHANGED <<file, mem, rx, dac, tables, bus>>
  BY DEF Boot, BootDone, BootTimeout, Show, Key, Replug, vars, boards, conf
<1>10. QED
  BY <1>2, <1>3, <1>4, <1>5, <1>6, <1>7, <1>8, <1>9 DEF Next

\* The receiver has the picture of the file.
LEMMA PictureStep ==
  ASSUME TypeOK, Locked, RowOk, PictureOk, [Next]_vars
  PROVE  PictureOk'
<1>0. "picture" \in Fields
  BY DEF Fields
<1>1. (UNCHANGED row) \/ Redo(ToReceiver)'
  BY MainMoves DEF Redo, ToReceiver
<1>2. CASE \E h \in Handlers : Store(h)
  <2>1. PICK h \in Handlers : Store(h)
    BY <1>2
  <2>2. PICK s \in Saves :
          /\ SaveRules(s)
          /\ \A f \in Fields : f # s.field => file'[f] = file[f]
          /\ mem' = IF s.reads THEN file' ELSE mem
          /\ s.flag => Asked'
          /\ UNCHANGED <<mpc, row, rx>>
    BY <2>1, StoreDoes
  <2>3. Redo(ToReceiver) => Redo(ToReceiver)'
    BY <2>2, RedoKept, Changes
  <2>4. CASE s.field = "picture"
    <3>1. s.reads /\ s.flag
      BY <2>2, <2>4 DEF SaveRules
    <3>2. mem' = file' /\ Redo(ToReceiver)'
      BY <2>2, <3>1 DEF Redo
    <3>3. QED
      BY <3>2 DEF PictureOk
  <2>5. CASE s.field # "picture"
    <3>1. file'["picture"] = file["picture"] /\ mem'["picture"] = file["picture"]
      BY <1>0, <2>2, <2>5 DEF PictureOk
    <3>2. QED
      BY <2>2, <2>3, <3>1 DEF PictureOk
  <2>6. QED
    BY <2>4, <2>5
<1>3. CASE SetReceiver
  <2>1. UNCHANGED row /\ file' = file /\ (mem' = mem \/ mem' = file)
    BY <1>3 DEF SetReceiver, BeginScript
  <2>2. rx' = IF row.script = "none" THEN rx ELSE [set |-> row.rx, picture |-> mem["picture"]]
    BY <1>3 DEF SetReceiver
  <2>3. QED
    BY <2>1, <2>2 DEF PictureOk
<1>4. CASE ~SetReceiver /\ ~\E h \in Handlers : Store(h)
  <2>1. file' = file /\ (mem' = mem \/ mem' = file) /\ rx' = rx
    BY <1>4, Changes
  <2>2. Redo(ToReceiver) => Redo(ToReceiver)'
    BY <1>4, RedoKept
  <2>3. QED
    BY <1>1, <2>1, <2>2 DEF PictureOk
<1>5. QED
  BY <1>2, <1>3, <1>4

\* The file is read before anything is programmed from it.
LEMMA FileStep ==
  ASSUME TypeOK, Locked, RowOk, FileRead, [Next]_vars
  PROVE  FileRead'
<1>1. CASE (\E h \in Handlers : Store(h)) /\ ~UNCHANGED <<file, mem>>
  <2>1. PICK h \in Handlers : Store(h)
    BY <1>1
  <2>2. PICK s \in Saves :
          /\ mem' = IF s.reads THEN file' ELSE mem
          /\ s.reads \/ s.flag \/ file' = file
          /\ s.flag => Asked'
    BY <2>1, StoreDoes
  <2>3. mem' = file' \/ Asked'
    BY <1>1, <2>2
  <2>4. QED
    BY <2>3 DEF FileRead, Redo
<1>2. CASE file' = file /\ mem' = file
  BY <1>2 DEF FileRead
<1>3. CASE UNCHANGED <<file, mem>>
  <2>1. CASE Redo(ToReceiver)
    <3>1. CASE SetReceiver
      <4>1. CASE row.script = "none"
        <5>1. MainT
          BY TypeParts
        <5>2. mpc'.step = "dac" /\ UNCHANGED row
          BY <3>1, <4>1, <5>1 DEF SetReceiver, GoTo, MainT
        <5>3. QED
          BY <4>1, <5>2 DEF FileRead
      <4>2. CASE row.script # "none"
        BY <3>1, <4>2 DEF SetReceiver, BeginScript, FileRead
      <4>3. QED
        BY <4>1, <4>2
    <3>2. CASE ~SetReceiver
      BY <2>1, <3>2, RedoKept DEF FileRead
    <3>3. QED
      BY <3>1, <3>2
  <2>2. CASE mem = file
    BY <1>3, <2>2 DEF FileRead
  <2>3. CASE row.script = "none" /\ mpc.step = "dac"
    <3>1. CASE SetDac
      BY <3>1 DEF SetDac, FileRead
    <3>2. CASE ~SetDac
      <4>1. UNCHANGED mpc /\ UNCHANGED row
        BY <2>3, <3>2, MainMoves, Changes
      <4>2. QED
        BY <2>3, <4>1 DEF FileRead
    <3>3. QED
      BY <3>1, <3>2
  <2>4. QED
    BY <2>1, <2>2, <2>3 DEF FileRead
<1>4. QED
  BY <1>1, <1>2, <1>3, Changes

\* The modulator has its settings of the file.
LEMMA DacStep ==
  ASSUME TypeOK, Locked, RowOk, DacOk, [Next]_vars
  PROVE  DacOk'
<1>0. {"rf", "rfon"} \subseteq Fields
  BY DEF Fields
<1>t. HandT
  BY TypeParts
<1>1. CASE \E h \in Handlers : Store(h)
  <2>1. PICK h \in Handlers : Store(h)
    BY <1>1
  <2>2. PICK s \in Saves :
          /\ SaveRules(s)
          /\ \A f \in Fields : f # s.field => file'[f] = file[f]
          /\ s.flag => Asked'
          /\ s.ad9789 => DueTune'
          /\ UNCHANGED <<mpc, dac>>
    BY <2>1, StoreDoes
  <2>3. Redo(ToDac) => Redo(ToDac)'
    BY <2>2, RedoKept, Changes
  <2>4. DueTune => DueTune' \/ dac' = Only(file', {"rf", "rfon"})
    BY <1>t, <2>1, DueKept DEF Store, Tune, Does
  <2>5. CASE s.field \in {"rf", "rfon"}
    <3>1. s.flag \/ s.ad9789
      BY <2>2, <2>5 DEF SaveRules
    <3>2. QED
      BY <2>2, <3>1 DEF DacOk, Redo
  <2>6. CASE s.field \notin {"rf", "rfon"}
    <3>1. Only(file', {"rf", "rfon"}) = Only(file, {"rf", "rfon"})
      BY <1>0, <2>2, <2>6 DEF Only
    <3>2. QED
      BY <2>2, <2>3, <2>4, <3>1 DEF DacOk
  <2>7. QED
    BY <2>5, <2>6
<1>2. CASE SetDac \/ \E h \in Handlers : Tune(h)
  <2>1. dac' = Only(file, {"rf", "rfon"}) /\ file' = file
    BY <1>2 DEF SetDac, Tune
  <2>2. QED
    BY <2>1 DEF DacOk
<1>3. CASE ~SetDac /\ ~(\E h \in Handlers : Tune(h)) /\ ~\E h \in Handlers : Store(h)
  <2>1. UNCHANGED <<file, dac>>
    BY <1>3, Changes
  <2>2. (Redo(ToDac) => Redo(ToDac)') /\ (DueTune => DueTune')
    BY <1>t, <1>3, RedoKept, DueKept
  <2>3. QED
    BY <2>1, <2>2 DEF DacOk
<1>4. QED
  BY <1>1, <1>2, <1>3

\* What has not been read has still to be done by the bus too.
LEMMA ReadForBus ==
  ASSUME TypeOK, Locked, RowOk, FileRead, [Next]_vars, UNCHANGED <<file, mem>>,
         mpc.step = "bus" \/ UNCHANGED mpc
  PROVE  Redo(ToBus)' \/ mem = file
<1>1. CASE Redo(ToReceiver)
  <2>1. ~SetReceiver
    BY Changes
  <2>2. Redo(ToReceiver)'
    BY <1>1, <2>1, RedoKept
  <2>3. QED
    BY <2>2 DEF Redo, ToBus, ToDac
<1>2. CASE row.script = "none" /\ mpc.step = "dac"
  BY <1>2 DEF Redo, ToBus, ToDac
<1>3. QED
  BY <1>1, <1>2 DEF FileRead

\* The tables are those of the file.
LEMMA TablesStep ==
  ASSUME TypeOK, Locked, RowOk, FileRead, TablesOk, [Next]_vars
  PROVE  TablesOk'
<1>0. TableFields \subseteq Fields
  BY DEF Fields, EncoderFields, TableFields
<1>t. HandT
  BY TypeParts
<1>1. CASE \E h \in Handlers : Store(h)
  <2>1. PICK h \in Handlers : Store(h)
    BY <1>1
  <2>2. PICK s \in Saves :
          /\ SaveRules(s)
          /\ \A f \in Fields : f # s.field => file'[f] = file[f]
          /\ s.flag => Asked'
          /\ s.gener_table => DueUpload'
          /\ UNCHANGED <<mpc, tables>>
    BY <2>1, StoreDoes
  <2>3. Redo(ToBus) => Redo(ToBus)'
    BY <2>2, RedoKept, Changes
  <2>4. DueUpload => DueUpload'
    <3>1. ASSUME NEW g \in Handlers, Upload(g) PROVE FALSE
      <4>1. hpc[h].step = "store" /\ hpc[g].step = "upload"
        BY <2>1, <3>1 DEF Store, Upload, Does
      <4>2. hpc'[g] = hpc[g]
        BY <1>t, <2>1, <4>1, Moves DEF HandlerStep
      <4>3. hpc'[h] = hpc[h] /\ hpc'[h] = After(hpc[h].save, "store") /\ hpc[h].save \in Saves
        BY <1>t, <2>1, <3>1, <4>1, Moves DEF HandlerStep
      <4>4. After(hpc[h].save, "store").step # "store"
        BY <4>3, Follows DEF HandlerSteps, Idle
      <4>5. QED
        BY <4>1, <4>3, <4>4
    <3>2. QED
      BY <1>t, <3>1, DueKept
  <2>5. CASE s.field \in TableFields
    <3>1. s.flag \/ s.gener_table
      BY <2>2, <2>5 DEF SaveRules
    <3>2. QED
      BY <2>2, <3>1 DEF TablesOk, Redo
  <2>6. CASE s.field \notin TableFields
    <3>1. Only(file', TableFields) = Only(file, TableFields)
      BY <1>0, <2>2, <2>6 DEF Only
    <3>2. QED
      BY <2>2, <2>3, <2>4, <3>1 DEF TablesOk
  <2>7. QED
    BY <2>5, <2>6
<1>2. CASE InitBus \/ \E h \in Handlers : Upload(h)
  <2>1. tables' = Only(mem, TableFields) /\ UNCHANGED <<file, mem>>
    BY <1>2 DEF InitBus, Upload, conf
  <2>2. mpc.step = "bus" \/ UNCHANGED mpc
    BY <1>2 DEF InitBus, MainAt, Upload, loop
  <2>3. Redo(ToBus)' \/ mem = file
    BY <2>1, <2>2, ReadForBus
  <2>4. QED
    BY <2>1, <2>3 DEF TablesOk
<1>3. CASE ~InitBus /\ ~(\E h \in Handlers : Upload(h)) /\ ~\E h \in Handlers : Store(h)
  <2>1. UNCHANGED <<file, tables>>
    BY <1>3, Changes
  <2>2. (Redo(ToBus) => Redo(ToBus)') /\ (DueUpload => DueUpload')
    BY <1>t, <1>3, RedoKept, DueKept
  <2>3. QED
    BY <2>1, <2>2 DEF TablesOk
<1>4. QED
  BY <1>1, <1>2, <1>3

\* The registers of the bus are those of the file.
LEMMA BusStep ==
  ASSUME TypeOK, Locked, RowOk, FileRead, BusOk, [Next]_vars
  PROVE  BusOk'
<1>0. {"pmt", "rf"} \subseteq Fields
  BY DEF Fields, EncoderFields
<1>1. CASE \E h \in Handlers : Store(h)
  <2>1. PICK h \in Handlers : Store(h)
    BY <1>1
  <2>2. PICK s \in Saves :
          /\ SaveRules(s)
          /\ \A f \in Fields : f # s.field => file'[f] = file[f]
          /\ s.flag => Asked'
          /\ UNCHANGED <<mpc, bus>>
    BY <2>1, StoreDoes
  <2>3. Redo(ToBus) => Redo(ToBus)'
    BY <2>2, RedoKept, Changes
  <2>4. CASE s.field \in {"pmt", "rf"}
    <3>1. s.flag
      BY <2>2, <2>4 DEF SaveRules, EncoderFields
    <3>2. QED
      BY <2>2, <3>1 DEF BusOk, Redo
  <2>5. CASE s.field \notin {"pmt", "rf"}
    <3>1. Only(file', {"pmt", "rf"}) = Only(file, {"pmt", "rf"})
      BY <1>0, <2>2, <2>5 DEF Only
    <3>2. QED
      BY <2>2, <2>3, <3>1 DEF BusOk
  <2>6. QED
    BY <2>4, <2>5
<1>2. CASE InitBus
  <2>1. bus' = Only(mem, {"pmt", "rf"}) /\ UNCHANGED <<file, mem>> /\ mpc.step = "bus"
    BY <1>2 DEF InitBus, MainAt, conf
  <2>2. Redo(ToBus)' \/ mem = file
    BY <2>1, ReadForBus
  <2>3. QED
    BY <2>1, <2>2 DEF BusOk
<1>3. CASE ~InitBus /\ ~\E h \in Handlers : Store(h)
  <2>1. UNCHANGED <<file, bus>>
    BY <1>3, Changes
  <2>2. Redo(ToBus) => Redo(ToBus)'
    BY <1>3, RedoKept
  <2>3. QED
    BY <2>1, <2>2 DEF BusOk
<1>4. QED
  BY <1>1, <1>2, <1>3


\* Who is on the line, and what it does.
LEMMA LineMoves ==
  ASSUME TypeOK, [Next]_vars
  PROVE  \/ UNCHANGED <<chip, at, owner, overlap, lost, row>>
         \/ Select /\ PulseReset(Main) /\ UNCHANGED <<at, owner, lost>>
         \/ \E h \in Handlers : Pulse(h)
         \/ \E p \in Procs : /\ BeginScript(p, row.script) /\ row.script \in Modes
                             /\ UNCHANGED <<chip, row>>
         \/ \E p \in Procs : NextSection(p) /\ UNCHANGED <<row, file, mem>>
<1>1. MainT
  BY TypeParts
<1>2. Main \in Procs /\ Handlers \subseteq Procs
  BY DEF Procs
<1>3. Poll \/ Ack \/ ReadFormat \/ ReadHdmi \/ Lock \/ SetDac \/ InitBus \/ Boot \/ Show \/ Key
      \/ Replug \/ UNCHANGED vars => UNCHANGED <<chip, at, owner, overlap, lost, row>>
  BY DEF Poll, Ack, ReadFormat, ReadHdmi, Lock, SetDac, InitBus, Boot, BootDone, BootTimeout, Show,
     Key, Replug, vars, loop, line
<1>4. Select => PulseReset(Main) /\ UNCHANGED <<at, owner, lost>>
  BY DEF Select
<1>5. SetReceiver => \/ UNCHANGED <<chip, at, owner, overlap, lost, row>>
                     \/ /\ BeginScript(Main, row.script) /\ row.script \in Modes
                        /\ UNCHANGED <<chip, row>>
  <2> SUFFICES ASSUME SetReceiver
               PROVE  \/ UNCHANGED <<chip, at, owner, overlap, lost, row>>
                      \/ /\ BeginScript(Main, row.script) /\ row.script \in Modes
                         /\ UNCHANGED <<chip, row>>
    OBVIOUS
  <2>1. UNCHANGED <<chip, row>> /\ row.script # "unset"
    BY <1>1 DEF SetReceiver, MainAt, MainT, Unlocked, Modes
  <2>2. CASE row.script = "none"
    BY <2>1, <2>2 DEF SetReceiver
  <2>3. CASE row.script # "none"
    BY <1>1, <2>1, <2>3 DEF SetReceiver, MainT
  <2>4. QED
    BY <2>2, <2>3
<1>6. MainSection => NextSection(Main) /\ UNCHANGED <<row, file, mem>>
  BY DEF MainSection, conf
<1>7. ASSUME NEW h \in Handlers, HandlerStep(h)
      PROVE  \/ UNCHANGED <<chip, at, owner, overlap, lost, row>> \/ Pulse(h)
             \/ /\ BeginScript(h, row.script) /\ row.script \in Modes
                /\ UNCHANGED <<chip, row>>
             \/ NextSection(h) /\ UNCHANGED <<row, file, mem>>
  <2>1. Store(h) \/ Upload(h) \/ Tune(h) \/ Flag(h) => UNCHANGED <<chip, at, owner, overlap, lost, row>>
    BY DEF Store, Upload, Tune, Flag, loop, line
  <2>2. CASE HandlerBegin(h)
    <3>1. UNCHANGED <<chip, row>>
      BY <2>2 DEF HandlerBegin, loop
    <3>2. CASE row.script \in {"unset", "none"}
      BY <2>2, <3>1, <3>2 DEF HandlerBegin
    <3>3. CASE row.script \notin {"unset", "none"}
      BY <1>1, <2>2, <3>1, <3>3 DEF HandlerBegin, MainT
    <3>4. QED
      BY <3>2, <3>3
  <2>3. HandlerSection(h) => NextSection(h) /\ UNCHANGED <<row, file, mem>>
    BY DEF HandlerSection, loop, conf
  <2>4. QED
    BY <1>7, <2>1, <2>2, <2>3 DEF HandlerStep
<1>8. QED
  BY <1>2, <1>3, <1>4, <1>5, <1>6, <1>7 DEF Next, MainStep

\* A reset that falls into no script finds nobody on the line.
LEMMA Alone ==
  ASSUME TypeOK, NEW p \in Procs, PulseReset(p), ~Programming(p), ~overlap', UNCHANGED at
  PROVE  chip' = << >> /\ \A q \in Procs : ~Programming(q) /\ ~Programming(q)'
<1>1. DOMAIN at = Procs
  <2>1. LineT
    BY TypeParts
  <2>2. QED
    BY <2>1 DEF LineT, Procs
<1>2. ~OtherProgramming(p) /\ chip' = << >>
  BY DEF PulseReset
<1>3. \A q \in Procs : ~Programming(q)
  BY <1>1, <1>2 DEF OtherProgramming
<1>4. QED
  BY <1>2, <1>3 DEF Programming

\* What a pulse of a save does.
LEMMA PulseDoes ==
  ASSUME TypeOK, Sending, NEW h \in Handlers, Pulse(h)
  PROVE  /\ h \in Procs /\ ~Programming(h) /\ DueScript'
         /\ UNCHANGED <<at, owner, lost, row, mpc>>
         /\ PulseReset(h) \/ UNCHANGED <<chip, overlap>>
<1>1. HandT
  BY TypeParts
<1>2. hpc[h].step = "pulse" /\ hpc[h].save \in Saves /\ hpc'[h] = After(hpc[h].save, "pulse")
  BY <1>1, Moves DEF HandlerStep, Pulse, Does
<1>3. hpc'[h].step = "script"
  <2>1. "pulse" \in HandlerSteps \ {"send"}
    BY DEF HandlerSteps
  <2>2. After(hpc[h].save, "pulse").step = "script"
    BY <1>2, <2>1, FollowsDue
  <2>3. QED
    BY <1>2, <2>2
<1>4. ~Programming(h)
  BY <1>2 DEF Sending
<1>5. UNCHANGED <<at, owner, lost, row, mpc>> /\ (PulseReset(h) \/ UNCHANGED <<chip, overlap>>)
  BY DEF Pulse, loop
<1>6. QED
  BY <1>3, <1>4, <1>5 DEF DueScript, Procs

\* Without a script for the format the chip is as the reset leaves it.
LEMMA NoneStep ==
  ASSUME TypeOK, Locked, Sending, NoneOk, [Next]_vars
  PROVE  NoneOk'
<1>1. LineT /\ Main \in Procs
  BY TypeParts DEF Procs
<1>2. mpc'.step # "select" => mpc.step # "select" \/ Select
  BY MainMoves
<1>3. CASE Select
  <2>1. PulseReset(Main) /\ UNCHANGED at /\ mpc.step = "select"
    BY <1>3 DEF Select, MainAt
  <2>2. ~Programming(Main)
    BY <2>1 DEF Sending
  <2>3. QED
    BY <1>1, <2>1, <2>2, Alone DEF NoneOk
<1>4. ASSUME NEW h \in Handlers, Pulse(h) PROVE NoneOk'
  <2>1. CASE PulseReset(h)
    BY <1>4, <2>1, PulseDoes, Alone DEF NoneOk
  <2>2. CASE UNCHANGED <<chip, overlap>>
    <3>1. UNCHANGED <<at, row, mpc>>
      BY <1>4, PulseDoes
    <3>2. QED
      BY <2>2, <3>1 DEF NoneOk, Programming
  <2>3. QED
    BY <1>4, <2>1, <2>2, PulseDoes
<1>5. CASE row.script \in Modes /\ UNCHANGED row
  BY <1>5 DEF NoneOk, Modes
<1>6. ASSUME ~Select, NEW p \in Procs, NextSection(p), UNCHANGED row PROVE NoneOk'
  <2>1. overlap' = (overlap \/ owner # p) /\ Programming(p)
    BY <1>6, Sends
  <2>2. ~overlap' => ~overlap
    BY <2>1
  <2>3. QED
    BY <1>2, <1>6, <2>1, <2>2 DEF NoneOk
<1>7. CASE ~Select /\ UNCHANGED <<chip, at, overlap, row>>
  BY <1>2, <1>7 DEF NoneOk, Programming
<1>8. QED
  BY <1>3, <1>4, <1>5, <1>6, <1>7, LineMoves

\* Who is on the line sends the script of the format.
LEMMA ModeStep ==
  ASSUME TypeOK, Sending, ChipKnown, ModeOk, [Next]_vars
  PROVE  ModeOk'
<1>1. LineT /\ Main \in Procs /\ owner \in Procs
  BY TypeParts DEF Procs, LineT
<1>3. CASE Select
  <2>1. PulseReset(Main) /\ UNCHANGED <<at, owner>> /\ mpc.step = "select"
    BY <1>3 DEF Select, MainAt
  <2>2. ~Programming(Main)
    BY <2>1 DEF Sending
  <2>3. QED
    BY <1>1, <2>1, <2>2, Alone DEF ModeOk
<1>4. ASSUME NEW h \in Handlers, Pulse(h) PROVE ModeOk'
  <2>0. UNCHANGED <<at, owner, row>>
    BY <1>4, PulseDoes
  <2>1. CASE PulseReset(h)
    BY <1>1, <1>4, <2>0, <2>1, PulseDoes, Alone DEF ModeOk
  <2>2. CASE UNCHANGED <<chip, overlap>>
    BY <2>0, <2>2 DEF ModeOk, Programming
  <2>3. QED
    BY <1>4, <2>1, <2>2, PulseDoes
<1>5. ASSUME NEW p \in Procs, BeginScript(p, row.script), UNCHANGED row PROVE ModeOk'
  <2>1. owner' = p /\ at' = [at EXCEPT ![p] = Part(row.script, 1)]
    BY <1>5, Begins
  <2>2. at'[p].mode = row.script
    BY <1>1, <2>1 DEF LineT, Procs, Part
  <2>3. QED
    BY <1>5, <2>1, <2>2 DEF ModeOk
<1>6. ASSUME NEW p \in Procs, NextSection(p), UNCHANGED row PROVE ModeOk'
  <2>1. overlap' = (overlap \/ owner # p) /\ Programming(p) /\ UNCHANGED owner
    BY <1>6, Sends
  <2>2. PICK m \in Modes : \E i \in 1 .. Len(Shape[m]) :
          /\ at[p] = Part(m, i)
          /\ at' = [at EXCEPT ![p] = IF i = Len(Shape[m]) THEN NotProgramming ELSE Part(m, i + 1)]
    BY <1>1, <1>6, SectionMoves DEF Procs
  <2>3. PICK i \in 1 .. Len(Shape[m]) :
          /\ at[p] = Part(m, i)
          /\ at' = [at EXCEPT ![p] = IF i = Len(Shape[m]) THEN NotProgramming ELSE Part(m, i + 1)]
    BY <2>2
  <2>4. at'[p] = NotProgramming \/ at'[p].mode = m
    BY <1>1, <2>3 DEF LineT, Procs, Part
  <2>5. at[p].mode = m /\ (at'[p] = NotProgramming => ~Programming(p)')
    BY <2>3 DEF Part, Programming, NotProgramming
  <2>6. ~overlap' => ~overlap /\ owner = p
    BY <2>1
  <2>7. QED
    BY <1>6, <2>1, <2>4, <2>5, <2>6 DEF ModeOk
<1>7. CASE UNCHANGED <<at, owner, overlap, row>>
  BY <1>7 DEF ModeOk, Programming
<1>8. QED
  BY <1>3, <1>4, <1>5, <1>6, <1>7, LineMoves

\* No step takes back what has happened.
LEMMA EventsLeft ==
  ASSUME TypeOK, [Next]_vars, events' < MaxEvents
  PROVE  events < MaxEvents
<1>1. ASSUME NEW p \in Procs, NextSection(p) PROVE events < MaxEvents
  <2>1. UNCHANGED events \/ events < MaxEvents
    BY <1>1 DEF NextSection
  <2>2. QED
    BY <2>1
<1>2. MainSection => events < MaxEvents
  BY <1>1 DEF MainSection, Procs
<1>3. ASSUME NEW h \in Handlers, HandlerSection(h) PROVE events < MaxEvents
  BY <1>1, <1>3 DEF HandlerSection, Procs
<1>4. Key \/ Replug => events < MaxEvents
  BY DEF Key, Replug
<1>5. Poll \/ Ack \/ ReadFormat \/ ReadHdmi \/ Select \/ Lock \/ SetReceiver \/ SetDac \/ InitBus
      \/ BootDone \/ BootTimeout \/ Show \/ UNCHANGED vars => UNCHANGED events
  BY DEF Poll, Ack, ReadFormat, ReadHdmi, Select, Lock, SetReceiver, SetDac, InitBus,
     BootDone, BootTimeout, Show, vars
<1>6. ASSUME NEW h \in Handlers,
             Store(h) \/ Pulse(h) \/ HandlerBegin(h) \/ Upload(h) \/ Tune(h) \/ Flag(h)
      PROVE  UNCHANGED events
  BY <1>6 DEF Store, Pulse, HandlerBegin, Upload, Tune, Flag
<1>7. QED
  BY <1>2, <1>3, <1>4, <1>5, <1>6 DEF Next, MainStep, HandlerStep, Boot

\* A section more on the chip.
LEMMA OnePartMore ==
  ASSUME chip \in Seq(Received), NEW k \in Nat, DOMAIN chip = 1 .. k, NEW e, chip' = Append(chip, e)
  PROVE  /\ DOMAIN chip' = 1 .. k + 1 /\ chip'[k + 1] = e
         /\ \A i \in 1 .. k : chip'[i] = chip[i]
<1>1. Len(chip) \in Nat /\ DOMAIN chip = 1 .. Len(chip)
  BY LenProperties
<1>2. Len(chip) = k
  <2>1. k > 0 => k \in 1 .. Len(chip)
    BY <1>1
  <2>2. Len(chip) > 0 => Len(chip) \in 1 .. k
    BY <1>1
  <2>3. QED
    BY <1>1, <2>1, <2>2
<1>3. QED
  BY <1>1, <1>2

\* Whole is kept: the section that is received without a loss is the next of its script.
LEMMA WholeStep ==
  ASSUME TypeOK, Sending, ChipKnown, ModeOk, Whole, [Next]_vars
  PROVE  Whole'
<1>t. LineT /\ Main \in Procs /\ owner \in Procs /\ MaxEvents \in Nat
  BY TypeParts, BoundsAssumption DEF Procs, LineT
<1>e. events' < MaxEvents => events < MaxEvents
  BY EventsLeft
<1>1. ASSUME UNCHANGED lost, ~overlap' => chip' = << >> /\ \A q \in Procs : ~Programming(q)',
             UNCHANGED owner
      PROVE  Whole'
  <2>1. DOMAIN << >> = {}
    OBVIOUS
  <2>2. owner' \in Procs
    BY <1>t, <1>1
  <2>3. ~overlap' => (\A i \in DOMAIN chip' : FALSE) /\ ~Programming(owner)'
    BY <1>1, <2>1, <2>2 DEF Programming
  <2>4. events' < MaxEvents => lost' = 0
    BY <1>e, <1>1 DEF Whole
  <2>5. QED
    BY <2>3, <2>4 DEF Whole
<1>2. ASSUME UNCHANGED <<chip, at, owner, overlap, lost, row>> PROVE Whole'
  <2>1. \A i : InOrder(i) => InOrder(i)'
    BY <1>2 DEF InOrder
  <2>2. Programming(owner)' <=> Programming(owner)
    BY <1>2 DEF Programming
  <2>3. QED
    BY <1>e, <1>2, <2>1, <2>2 DEF Whole
<1>3. CASE Select /\ PulseReset(Main) /\ UNCHANGED <<at, owner, lost>>
  <2>1. ~Programming(Main)
    BY <1>3 DEF Sending, Select, MainAt
  <2>2. ~overlap' => chip' = << >> /\ \A q \in Procs : ~Programming(q)'
    BY <1>t, <1>3, <2>1, Alone
  <2>3. QED
    BY <1>1, <1>3, <2>2
<1>4. ASSUME NEW h \in Handlers, Pulse(h) PROVE Whole'
  <2>1. h \in Procs /\ ~Programming(h) /\ UNCHANGED <<at, owner, lost, row>>
    BY <1>4, PulseDoes
  <2>2. CASE PulseReset(h)
    <3>1. ~overlap' => chip' = << >> /\ \A q \in Procs : ~Programming(q)'
      BY <2>1, <2>2, Alone
    <3>2. QED
      BY <1>1, <2>1, <3>1
  <2>3. CASE UNCHANGED <<chip, overlap>>
    BY <1>2, <2>1, <2>3
  <2>4. QED
    BY <1>4, <2>2, <2>3, PulseDoes
<1>5. ASSUME NEW p \in Procs, BeginScript(p, row.script), UNCHANGED <<chip, row>> PROVE Whole'
  <2>1. owner' = p /\ lost' = 0 /\ at' = [at EXCEPT ![p] = Part(row.script, 1)]
    BY <1>5, Begins
  <2>2. at'[p].section = 1
    BY <1>t, <2>1 DEF LineT, Procs, Part
  <2>3. ~overlap' => ~overlap
    BY <1>5 DEF BeginScript, ChipKnown
  <2>4. \A i : InOrder(i) => InOrder(i)'
    BY <1>5 DEF InOrder
  <2>5. ~(at'[owner'].section > 1)
    BY <2>1, <2>2
  <2>6. QED
    BY <1>e, <1>5, <2>1, <2>3, <2>4, <2>5 DEF Whole
<1>6. ASSUME NEW p \in Procs, NextSection(p), UNCHANGED row PROVE Whole'
  <2>1. overlap' = (overlap \/ owner # p) /\ Programming(p) /\ UNCHANGED owner
    BY <1>6, Sends
  <2>2. PICK m \in Modes : \E s \in 1 .. Len(Shape[m]) : \E i \in Nat :
          /\ at[p] = Part(m, s)
          /\ at' = [at EXCEPT ![p] = IF s = Len(Shape[m]) THEN NotProgramming ELSE Part(m, s + 1)]
          /\ lost' = IF i = 0 THEN lost ELSE lost + 1
          /\ i = 0 => UNCHANGED events
          /\ i # 0 => i \in 1 .. Shape[m][s] /\ events < MaxEvents /\ events' = MaxEvents
          /\ chip' = IF overlap \/ owner # p THEN Mixed
                     ELSE IF s = 1 /\ i # Reset THEN << Entry(m, s, i) >>
                     ELSE Append(chip, Entry(m, s, i))
    BY <1>6, SectionEffect
  <2>3. PICK s \in 1 .. Len(Shape[m]) : \E i \in Nat :
          /\ at[p] = Part(m, s)
          /\ at' = [at EXCEPT ![p] = IF s = Len(Shape[m]) THEN NotProgramming ELSE Part(m, s + 1)]
          /\ lost' = IF i = 0 THEN lost ELSE lost + 1
          /\ i = 0 => UNCHANGED events
          /\ i # 0 => i \in 1 .. Shape[m][s] /\ events < MaxEvents /\ events' = MaxEvents
          /\ chip' = IF overlap \/ owner # p THEN Mixed
                     ELSE IF s = 1 /\ i # Reset THEN << Entry(m, s, i) >>
                     ELSE Append(chip, Entry(m, s, i))
    BY <2>2
  <2>4. PICK i \in Nat :
          /\ at[p] = Part(m, s)
          /\ at' = [at EXCEPT ![p] = IF s = Len(Shape[m]) THEN NotProgramming ELSE Part(m, s + 1)]
          /\ lost' = IF i = 0 THEN lost ELSE lost + 1
          /\ i = 0 => UNCHANGED events
          /\ i # 0 => i \in 1 .. Shape[m][s] /\ events < MaxEvents /\ events' = MaxEvents
          /\ chip' = IF overlap \/ owner # p THEN Mixed
                     ELSE IF s = 1 /\ i # Reset THEN << Entry(m, s, i) >>
                     ELSE Append(chip, Entry(m, s, i))
    BY <2>3
  <2> DEFINE e == Entry(m, s, 0)
  <2>5. events' < MaxEvents => i = 0
    BY <1>t, <2>4
  <2>6. events' < MaxEvents => lost' = 0
    BY <1>e, <2>4, <2>5 DEF Whole
  <2>7. CASE events' < MaxEvents /\ ~overlap'
    <3>1. ~overlap /\ owner = p
      BY <2>1, <2>7
    <3>2. chip' = IF s = 1 THEN << e >> ELSE Append(chip, e)
      <4>1. 0 # Reset
        BY DEF Reset
      <4>2. QED
        BY <2>4, <2>5, <2>7, <3>1, <4>1
    <3>3. m = row.script /\ at[p].section = s
      BY <2>1, <2>4, <3>1 DEF ModeOk, Part
    <3>4. e.mode = row.script /\ e.section = s /\ e.lost = 0 /\ s \in DOMAIN Shape[row.script]
      <4>1. s \in DOMAIN Shape[m]
        BY Shapes
      <4>2. QED
        BY <3>3, <4>1 DEF Entry
    <3>5. s \in Nat /\ s >= 1
      BY <2>3
    <3> HIDE DEF e
    <3>6. DOMAIN chip' = 1 .. s /\ \A j \in 1 .. s : InOrder(j)'
      <4>1. CASE s = 1
        <5>1. DOMAIN chip' = 1 .. 1 /\ chip'[1] = e
          BY <3>2, <4>1
        <5>2. InOrder(1)'
          BY <1>6, <3>4, <4>1, <5>1 DEF InOrder
        <5>3. \A j \in 1 .. 1 : j = 1
          OBVIOUS
        <5>4. QED
          BY <4>1, <5>1, <5>2, <5>3
      <4>2. CASE s # 1
        <5>1. DOMAIN chip = 1 .. s - 1 /\ \A j \in 1 .. s - 1 : InOrder(j)
          BY <1>e, <2>1, <2>7, <3>1, <3>3, <3>5, <4>2 DEF Whole
        <5>2. chip \in Seq(Received) /\ s - 1 \in Nat /\ (s - 1) + 1 = s
          BY <3>1, <3>5, <4>2 DEF ChipKnown
        <5>3. chip' = Append(chip, e)
          BY <3>2, <4>2
        <5>4. DOMAIN chip' = 1 .. s /\ chip'[s] = e /\ \A j \in 1 .. s - 1 : chip'[j] = chip[j]
          BY <5>1, <5>2, <5>3, OnePartMore
        <5>5. InOrder(s)'
          BY <1>6, <3>4, <5>4 DEF InOrder
        <5>6. \A j \in 1 .. s - 1 : InOrder(j)'
          BY <1>6, <5>1, <5>4 DEF InOrder
        <5>7. \A j \in 1 .. s : j = s \/ j \in 1 .. s - 1
          BY <3>5
        <5>8. QED
          BY <5>4, <5>5, <5>6, <5>7
      <4>3. QED
        BY <4>1, <4>2
    <3>7. at'[p] = NotProgramming \/ at'[p].section = s + 1
      BY <1>t, <2>4 DEF LineT, Procs, Part
    <3>8. Programming(owner)' /\ at'[owner'].section > 1 => DOMAIN chip' = 1 .. at'[owner'].section - 1
      <4>1. owner' = p
        BY <2>1, <3>1
      <4>2. ~(NotProgramming.section > 1)
        BY DEF NotProgramming, Part
      <4>3. (s + 1) - 1 = s
        BY <3>5
      <4>4. QED
        BY <3>6, <3>7, <4>1, <4>2, <4>3
    <3>9. QED
      BY <2>6, <3>6, <3>8 DEF Whole
  <2>8. CASE ~(events' < MaxEvents /\ ~overlap')
    BY <2>6, <2>8 DEF Whole
  <2>9. QED
    BY <2>7, <2>8
<1>7. QED
  BY <1>2, <1>3, <1>4, <1>5, <1>6, LineMoves

\* The first two commands of a script.
LEMMA OpeningKind ==
  /\ Opening \in Seq(Range(Opening)) /\ Len(Opening) = 2
  /\ Opening[1] = Cmd("CHK") /\ Opening[2] = Cmd("RST")
<1> DEFINE k == Cmd("CHK")
           r == Cmd("RST")
           q == << k, r >>
<1> HIDE DEF k, r
<1>1. Len(q) = 2 /\ q[1] = k /\ q[2] = r /\ q \in Seq({k, r})
  OBVIOUS
<1> HIDE DEF q
<1>2. q \in Seq(Range(q))
  BY <1>1, SeqOfRange
<1>3. QED
  BY <1>1, <1>2 DEF Opening, q, k, r

\* The number of commands of a section, whatever the settings.
LEMMA ShapeCounts ==
  ASSUME NEW m \in Modes, NEW s \in DOMAIN Shape[m]
  PROVE  Shape[m][s] \in Nat /\ \A c, f : Script(m, c, f)[s] \in Seq(Range(Script(m, c, f)[s]))
                                         /\ Len(Script(m, c, f)[s]) = Shape[m][s]
<1> DEFINE d == [x \in EncoderFields |-> Setting[x][1]]
<1>1. m \in Formats /\ DOMAIN Shape[m] = 1 .. SectionCount(m)
  <2>1. DOMAIN Script(m, d, 30) = 1 .. SectionCount(m)
    BY Sections DEF SectionCount
  <2>2. QED
    BY <2>1 DEF Shape, Formats, Modes
<1>2. Shape[m][s] = Len(Script(m, d, 30)[s])
  <2>1. DOMAIN Shape[m] = DOMAIN Script(m, d, 30)
    BY DEF Shape
  <2>2. QED
    BY <2>1 DEF Shape
<1> HIDE DEF d
<1>3. ASSUME NEW c, NEW f
      PROVE  /\ Script(m, c, f)[s] \in Seq(Range(Script(m, c, f)[s]))
             /\ Len(Script(m, c, f)[s]) = Len(Script(m, d, 30)[s])
  <2> DEFINE a == Script(m, c, f)
             b == Script(m, d, 30)
             v == Low16(SysRate(c, f))
             n == SectionCount(m)
  <2>1. Regular(a, b, v, v, n)
    BY <1>1, ScriptRegular
  <2>2. s \in 1 .. n /\ n \in Nat
    BY <1>1 DEF SectionCount
  <2> HIDE DEF a, b, v, n
  <2>3. CASE s = 1
    <3>1. PICK u : a[1] = Opening \o u /\ b[1] = Opening \o u /\ Alike(u, u, v)
      BY <2>1 DEF Regular
    <3>2. Opening \in Seq(Range(Opening)) /\ u \in Seq(Range(u))
      BY <3>1, OpeningKind DEF Alike
    <3>3. Opening \o u \in Seq(Range(Opening \o u))
      BY <3>2, ConcatRange
    <3>4. QED
      BY <2>3, <3>1, <3>3 DEF a, b
  <2>4. CASE s # 1
    <3>1. s = 2 \/ s \in 3 .. n
      BY <2>2, <2>4
    <3>2. Alike(a[s], b[s], v)
      BY <2>1, <3>1 DEF Regular
    <3>3. QED
      BY <3>2 DEF Alike, a, b
  <2>5. QED
    BY <2>3, <2>4
<1>4. Len(Script(m, d, 30)[s]) \in Nat
  BY <1>3, LenProperties
<1>5. QED
  BY <1>2, <1>3, <1>4

\* A section more has been sent.
LEMMA SentGrows ==
  ASSUME TypeOK, Whole, ~overlap, chip \in Seq(Received), row.script \in Modes, mem = file,
         UNCHANGED <<row, file>>,
         NEW s \in 1 .. Len(Shape[row.script]), NEW i \in Nat, s = 1 \/ Sent(s - 1),
         lost' = IF i = 0 THEN lost ELSE lost + 1,
         i # 0 => i \in 1 .. Shape[row.script][s] /\ events < MaxEvents,
         chip' = IF s = 1 /\ i # Reset THEN << Entry(row.script, s, i) >>
                 ELSE Append(chip, Entry(row.script, s, i))
  PROVE  Sent(s)'
<1> DEFINE e == Entry(row.script, s, i)
<1>1. e.mode = row.script /\ e.section = s /\ e.lost = i /\ e.conf = Only(file, EncoderFields)
  BY DEF Entry
<1>2. s \in Nat /\ s >= 1 /\ s \in DOMAIN Shape[row.script]
  <2>1. Len(Shape[row.script]) \in Nat
    BY Shapes
  <2>2. QED
    BY <2>1, Shapes
<1>3. i \in 0 .. Shape[row.script][s]
  <2>1. Shape[row.script][s] \in Nat
    BY <1>2, ShapeCounts
  <2>2. QED
    BY <2>1
<1>4. Only(file', EncoderFields) = Only(file, EncoderFields)
  BY DEF Only
<1> HIDE DEF e
<1>5. ASSUME NEW m \in Nat, chip'[m + s] = e PROVE Fresh(m, s)'
  BY <1>1, <1>3, <1>4, <1>5 DEF Fresh
<1>6. i # 0 => lost = 0
  BY DEF Whole
<1>7. lost' = 0 => i = 0 /\ lost = 0
  <2>1. lost \in Nat
    BY BoundsAssumption, TypeParts DEF LineT
  <2>2. QED
    BY <2>1
<1>8. CASE s = 1 /\ i # Reset
  <2>1. DOMAIN chip' = 1 .. 1 /\ chip'[1] = e
    BY <1>8 DEF e
  <2>2. 0 + 1 = 1 /\ 0 \in Nat /\ (\A j \in 1 .. 1 : j = 1) /\ (\A j \in 1 .. 0 : FALSE)
    OBVIOUS
  <2>3. Fresh(0, 1)'
    BY <1>5, <1>8, <2>1, <2>2
  <2>4. Holds(0, 1)'
    <3>1. DOMAIN chip' = 1 .. 0 + 1
      BY <2>1
    <3>2. \A j \in 1 .. 0 : InOrder(j)'
      OBVIOUS
    <3>3. \A j \in 1 .. 1 : Fresh(0, j)'
      BY <2>2, <2>3
    <3>4. \A j, k \in 1 .. 1 : j = k
      OBVIOUS
    <3>5. lost' = 0 => \A j \in 1 .. 1 : chip'[0 + j].lost = 0
      BY <1>1, <1>7, <2>1, <2>2
    <3>6. ~(0 > 0)
      OBVIOUS
    <3>7. QED
      BY <3>1, <3>2, <3>3, <3>4, <3>5, <3>6 DEF Holds
  <2>5. QED
    BY <1>8, <2>2, <2>4 DEF Sent
<1>9. CASE s = 1 /\ i = Reset
  <2>1. PICK m \in Nat : DOMAIN chip = 1 .. m
    BY LenProperties
  <2>2. chip' = Append(chip, e)
    BY <1>9 DEF e
  <2>3. DOMAIN chip' = 1 .. m + 1 /\ chip'[m + 1] = e /\ \A j \in 1 .. m : chip'[j] = chip[j]
    BY <2>1, <2>2, OnePartMore
  <2>4. i # 0 /\ \A j \in 1 .. m : InOrder(j)
    BY <1>9, <2>1 DEF Whole, Reset
  <2>5. \A j \in 1 .. m : InOrder(j)'
    BY <2>3, <2>4 DEF InOrder
  <2>6. Fresh(m, 1)'
    BY <1>5, <1>9, <2>1, <2>3
  <2>7. Holds(m, 1)'
    <3>1. \A j \in 1 .. 1 : j = 1
      OBVIOUS
    <3>2. \A j \in 1 .. 1 : Fresh(m, j)'
      BY <2>6, <3>1
    <3>3. \A j, k \in 1 .. 1 : j = k
      OBVIOUS
    <3>4. lost' # 0
      BY <1>7, <2>4
    <3>5. 1 > 0 /\ chip'[m + 1].lost = Reset
      BY <1>1, <1>9, <2>3
    <3>6. QED
      BY <2>3, <2>5, <3>2, <3>3, <3>4, <3>5 DEF Holds
  <2>8. QED
    BY <1>9, <2>1, <2>7 DEF Sent
<1>10. CASE s # 1
  <2>1. PICK m \in Nat : Holds(m, s - 1)
    BY <1>10 DEF Sent
  <2> DEFINE k == m + (s - 1)
  <2>2. k \in Nat /\ k + 1 = m + s /\ \A j \in 1 .. s - 1 : m + j \in 1 .. k
    <3>1. s \in Nat /\ s - 1 \in Nat
      BY <1>2, <1>10
    <3>2. QED
      BY ONLY m \in Nat, <3>1
  <2>3. m > 0 => m + 1 \in 1 .. k
    BY <1>2, <1>10
  <2>4. chip' = Append(chip, e) /\ DOMAIN chip = 1 .. k
    BY <1>10, <2>1 DEF e, Holds
  <2>a. \A j \in 1 .. m : j \in 1 .. k
    BY <1>2, <1>10
  <2>b. \A j \in 1 .. s : j = s \/ j \in 1 .. s - 1
    BY <1>2
  <2> HIDE DEF k
  <2>5. DOMAIN chip' = 1 .. m + s /\ chip'[m + s] = e /\ \A j \in 1 .. k : chip'[j] = chip[j]
    BY <2>2, <2>4, OnePartMore
  <2>6. \A j \in 1 .. m : InOrder(j)'
    BY <2>1, <2>5, <2>a DEF InOrder, Holds
  <2>7. ASSUME NEW j \in 1 .. s PROVE Fresh(m, j)'
    <3>1. CASE j = s
      BY <1>5, <2>5, <3>1
    <3>2. CASE j \in 1 .. s - 1
      <4>1. Fresh(m, j)
        BY <2>1, <3>2 DEF Holds
      <4>2. chip'[m + j] = chip[m + j]
        BY <2>2, <2>5, <3>2
      <4>3. QED
        BY <1>4, <4>1, <4>2 DEF Fresh
    <3>3. QED
      BY <2>b, <3>1, <3>2
  <2>8. \A j \in 1 .. s - 1 : chip'[m + j].lost = chip[m + j].lost
    BY <2>2, <2>5
  <2>9. chip'[m + s].lost = i
    BY <1>1, <2>5
  <2>10. i # 0 => \A j \in 1 .. s - 1 : chip'[m + j].lost = 0
    BY <1>6, <2>1, <2>8 DEF Holds
  <2>11. \A j, l \in 1 .. s : chip'[m + j].lost # 0 /\ chip'[m + l].lost # 0 => j = l
    <3>1. \A j, l \in 1 .. s - 1 : chip'[m + j].lost # 0 /\ chip'[m + l].lost # 0 => j = l
      BY <2>1, <2>8 DEF Holds
    <3>2. QED
      BY <2>9, <2>10, <2>b, <3>1
  <2>12. lost' = 0 => m = 0 /\ \A j \in 1 .. s : chip'[m + j].lost = 0
    <3>1. lost = 0 => m = 0 /\ \A j \in 1 .. s - 1 : chip'[m + j].lost = 0
      BY <2>1, <2>8 DEF Holds
    <3>2. QED
      BY <1>7, <2>9, <2>b, <3>1
  <2>13. m > 0 => s > 0 /\ chip'[m + 1].lost = Reset
    <3>1. m > 0 => chip[m + 1].lost = Reset
      BY <2>1 DEF Holds
    <3>2. m > 0 => chip'[m + 1] = chip[m + 1]
      BY <2>3, <2>5
    <3>3. s > 0
      BY <1>2
    <3>4. QED
      BY <3>1, <3>2, <3>3
  <2>14. Holds(m, s)'
    BY <2>5, <2>6, <2>7, <2>11, <2>12, <2>13 DEF Holds
  <2>15. QED
    BY <2>14 DEF Sent
<1>11. QED
  BY <1>8, <1>9, <1>10

\* What has been sent stays when neither the chip nor its settings change.
LEMMA SentStays ==
  ASSUME NEW n, Sent(n), UNCHANGED <<chip, row, lost>>,
         Only(file', EncoderFields) = Only(file, EncoderFields)
  PROVE  Sent(n)'
<1>1. \A i : InOrder(i) => InOrder(i)'
  BY DEF InOrder
<1>2. \A m, i : Fresh(m, i) => Fresh(m, i)'
  BY DEF Fresh
<1>3. PICK m \in Nat : Holds(m, n)
  BY DEF Sent
<1>4. Holds(m, n)'
  BY <1>1, <1>2, <1>3 DEF Holds
<1>5. QED
  BY <1>4 DEF Sent

\* The encoder has the sections of the script up to the one that is next.
LEMMA SentStep ==
  ASSUME TypeOK, Locked, Sending, ChipKnown, RowOk, FileRead, NoneOk, ModeOk, Whole, SentOk,
         [Next]_vars
  PROVE  SentOk'
<1>t. LineT /\ HandT /\ owner \in Procs
  BY TypeParts DEF LineT, Procs
<1>1. CASE Select
  BY <1>1, MainMoves DEF SentOk, Redo, ToReceiver
<1>2. CASE \E h \in Handlers : Pulse(h)
  BY <1>2, PulseDoes DEF SentOk
<1>3. ASSUME NEW p \in Procs, BeginScript(p, row.script) PROVE SentOk'
  <2>1. owner' = p /\ at' = [at EXCEPT ![p] = Part(row.script, 1)] /\ Programming(p)'
    BY <1>3, Begins
  <2>2. at'[p].section = 1
    BY <1>t, <2>1 DEF LineT, Procs, Part
  <2>3. QED
    BY <2>1, <2>2 DEF SentOk, Programming
<1>4. ASSUME NEW p \in Procs, NextSection(p), UNCHANGED <<row, file, mem>> PROVE SentOk'
  <2>1. overlap' = (overlap \/ owner # p) /\ Programming(p) /\ UNCHANGED owner
    BY <1>4, Sends
  <2>2. CASE overlap \/ owner # p
    BY <2>1, <2>2 DEF SentOk
  <2>3. CASE Redo(ToReceiver)
    <3>1. CASE SetReceiver
      <4>1. mpc.step = "receiver"
        BY <3>1 DEF SetReceiver, MainAt
      <4>2. p # Main
        BY <2>1, <4>1 DEF Sending
      <4>3. row.script # "none" => BeginScript(Main, row.script)
        BY <3>1 DEF SetReceiver
      <4>4. CASE row.script # "none"
        BY <1>3, <4>3, <4>4 DEF Procs
      <4>5. CASE row.script = "none"
        BY <2>1, <2>2, <4>1, <4>5 DEF NoneOk
      <4>6. QED
        BY <4>4, <4>5
    <3>2. CASE ~SetReceiver
      BY <2>3, <3>2, RedoKept DEF SentOk
    <3>3. QED
      BY <3>1, <3>2
  <2>4. CASE DueScript
    <3>1. CASE \E h \in Handlers : HandlerBegin(h)
      <4>1. PICK h \in Handlers : HandlerBegin(h)
        BY <3>1
      <4>2. CASE row.script \notin {"unset", "none"}
        BY <1>3, <4>1, <4>2 DEF HandlerBegin, Procs
      <4>3. CASE row.script = "unset"
        BY <1>4, <4>3 DEF SentOk, Redo
      <4>4. CASE row.script = "none" /\ mpc.step # "select"
        BY <2>1, <2>2, <4>4 DEF NoneOk
      <4>5. CASE mpc.step = "select"
        BY <2>3, <4>5 DEF Redo, ToReceiver
      <4>6. QED
        BY <4>2, <4>3, <4>4, <4>5
    <3>2. CASE ~\E h \in Handlers : HandlerBegin(h)
      BY <1>t, <2>4, <3>2, DueKept DEF SentOk
    <3>3. QED
      BY <3>1, <3>2
  <2>5. CASE /\ ~overlap /\ owner = p /\ ~Redo(ToReceiver) /\ ~DueScript
    <3>1. PICK m \in Modes : \E s \in 1 .. Len(Shape[m]) : \E i \in Nat :
            /\ at[p] = Part(m, s)
            /\ at' = [at EXCEPT ![p] = IF s = Len(Shape[m]) THEN NotProgramming ELSE Part(m, s + 1)]
            /\ lost' = IF i = 0 THEN lost ELSE lost + 1
            /\ i = 0 => UNCHANGED events
            /\ i # 0 => i \in 1 .. Shape[m][s] /\ events < MaxEvents /\ events' = MaxEvents
            /\ chip' = IF overlap \/ owner # p THEN Mixed
                       ELSE IF s = 1 /\ i # Reset THEN << Entry(m, s, i) >>
                       ELSE Append(chip, Entry(m, s, i))
      BY <1>4, SectionEffect
    <3>2. PICK s \in 1 .. Len(Shape[m]) : \E i \in Nat :
            /\ at[p] = Part(m, s)
            /\ at' = [at EXCEPT ![p] = IF s = Len(Shape[m]) THEN NotProgramming ELSE Part(m, s + 1)]
            /\ lost' = IF i = 0 THEN lost ELSE lost + 1
            /\ i = 0 => UNCHANGED events
            /\ i # 0 => i \in 1 .. Shape[m][s] /\ events < MaxEvents /\ events' = MaxEvents
            /\ chip' = IF overlap \/ owner # p THEN Mixed
                       ELSE IF s = 1 /\ i # Reset THEN << Entry(m, s, i) >>
                       ELSE Append(chip, Entry(m, s, i))
      BY <3>1
    <3>3. PICK i \in Nat :
            /\ at[p] = Part(m, s)
            /\ at' = [at EXCEPT ![p] = IF s = Len(Shape[m]) THEN NotProgramming ELSE Part(m, s + 1)]
            /\ lost' = IF i = 0 THEN lost ELSE lost + 1
            /\ i = 0 => UNCHANGED events
            /\ i # 0 => i \in 1 .. Shape[m][s] /\ events < MaxEvents /\ events' = MaxEvents
            /\ chip' = IF overlap \/ owner # p THEN Mixed
                       ELSE IF s = 1 /\ i # Reset THEN << Entry(m, s, i) >>
                       ELSE Append(chip, Entry(m, s, i))
      BY <3>2
    <3>4. at[p].mode = m /\ at[p].section = s
      BY <3>3 DEF Part
    <3>5. m = row.script
      BY <2>1, <2>5, <3>4 DEF ModeOk
    <3>6. s = 1 \/ Sent(s - 1)
      BY <2>1, <2>5, <3>4 DEF SentOk
    <3>7. chip \in Seq(Received) /\ s \in Nat \ {0}
      BY <2>5, <3>2 DEF ChipKnown
    <3>8. mem = file
      BY <2>5, <3>5 DEF FileRead, Modes
    <3>9. /\ lost' = IF i = 0 THEN lost ELSE lost + 1
          /\ i # 0 => i \in 1 .. Shape[row.script][s] /\ events < MaxEvents
      BY <3>3, <3>5
    <3>10. chip' = IF s = 1 /\ i # Reset THEN << Entry(row.script, s, i) >>
                   ELSE Append(chip, Entry(row.script, s, i))
      BY <2>5, <3>3, <3>5
    <3>11. row.script \in Modes /\ s \in 1 .. Len(Shape[row.script])
      BY <3>2, <3>5
    <3>12. Sent(s)'
      BY <1>4, <2>5, <3>6, <3>7, <3>8, <3>9, <3>10, <3>11, SentGrows
    <3>13. CASE s = Len(Shape[m])
      <4>1. at'[p] = NotProgramming
        BY <1>t, <3>3, <3>13 DEF LineT, Procs
      <4>2. ~Programming(owner)'
        BY <2>1, <2>5, <4>1 DEF Programming, NotProgramming, Part
      <4>3. Length(row'.script) = s
        BY <1>4, <3>5, <3>13 DEF Length, Modes
      <4>4. QED
        BY <3>12, <4>2, <4>3 DEF SentOk
    <3>14. CASE s # Len(Shape[m])
      <4>1. at'[p] = Part(m, s + 1)
        BY <1>t, <3>3, <3>14 DEF LineT, Procs
      <4>2. at'[p].section = s + 1 /\ at'[p].section - 1 = s
        BY <3>7, <4>1 DEF Part
      <4>3. Programming(owner)'
        BY <2>1, <2>5, <3>7, <4>2 DEF Programming
      <4>4. at'[owner'].section - 1 = s
        BY <2>1, <2>5, <4>2
      <4>5. Sent(at[owner].section - 1)'
        BY <3>12, <4>4 DEF Sent, Holds, Fresh
      <4>6. QED
        BY <2>1, <2>5, <4>3, <4>5 DEF SentOk
    <3>15. QED
      BY <3>13, <3>14
  <2>6. QED
    BY <2>2, <2>3, <2>4, <2>5
<1>5. CASE ~Select /\ UNCHANGED <<chip, at, owner, overlap, lost, row>>
  <2>1. CASE overlap
    BY <1>5, <2>1 DEF SentOk
  <2>3. ASSUME row.script = "none", ~overlap, mpc.step # "select" PROVE SentOk'
    <3>1. chip' = << >> /\ row'.script = "none" /\ ~Programming(owner)
      BY <1>t, <1>5, <2>3 DEF NoneOk
    <3>2. Sent(Length(row.script))'
      <4>1. (\A i \in 1 .. 0 : FALSE) /\ DOMAIN << >> = 1 .. 0 + 0 /\ 0 \in Nat /\ ~(0 > 0)
        OBVIOUS
      <4>2. Holds(0, 0)'
        BY <3>1, <4>1 DEF Holds
      <4>3. QED
        BY <3>1, <4>1, <4>2 DEF Sent, Length
    <3>3. ~Programming(owner)'
      BY <1>5, <3>1 DEF Programming
    <3>4. QED
      BY <3>2, <3>3 DEF SentOk
  <2>4. CASE ~overlap /\ Redo(ToReceiver)
    <3>1. CASE SetReceiver
      <4>1. mpc.step = "receiver" /\ (row.script # "none" => BeginScript(Main, row.script))
        BY <3>1 DEF SetReceiver, MainAt
      <4>2. QED
        BY <1>3, <2>3, <2>4, <4>1 DEF Procs
    <3>2. CASE ~SetReceiver
      BY <2>4, <3>2, RedoKept DEF SentOk
    <3>3. QED
      BY <3>1, <3>2
  <2>5. CASE ~overlap /\ DueScript
    <3>1. CASE \E h \in Handlers : HandlerBegin(h)
      <4>1. PICK h \in Handlers : HandlerBegin(h)
        BY <3>1
      <4>2. CASE row.script \notin {"unset", "none"}
        BY <1>3, <4>1, <4>2 DEF HandlerBegin, Procs
      <4>3. CASE row.script = "unset"
        BY <1>5, <4>3 DEF SentOk, Redo
      <4>4. CASE row.script = "none" /\ mpc.step # "select"
        BY <2>3, <2>5, <4>4
      <4>5. CASE mpc.step = "select"
        BY <2>4, <2>5, <4>5 DEF Redo, ToReceiver
      <4>6. QED
        BY <4>2, <4>3, <4>4, <4>5
    <3>2. CASE ~\E h \in Handlers : HandlerBegin(h)
      BY <1>t, <2>5, <3>2, DueKept DEF SentOk
    <3>3. QED
      BY <3>1, <3>2
  <2>6. CASE IF Programming(owner) THEN at[owner].section = 1 \/ Sent(at[owner].section - 1)
             ELSE Sent(Length(row.script))
    <3>1. CASE Asked'
      BY <3>1 DEF SentOk, Redo
    <3>2. CASE Only(file', EncoderFields) = Only(file, EncoderFields)
      <4>1. \A n : Sent(n) => Sent(n)'
        BY <1>5, <3>2, SentStays
      <4>2. UNCHANGED <<owner, at, row>>
        BY <1>5
      <4>3. Programming(owner)' <=> Programming(owner)
        BY <4>2 DEF Programming
      <4>4. (Sent(at[owner].section - 1) => Sent(at[owner].section - 1)')
            /\ (Sent(Length(row.script)) => Sent(Length(row.script))')
        BY <4>1, <4>2
      <4>5. QED
        BY <2>6, <4>2, <4>3, <4>4 DEF SentOk
    <3>3. ASSUME NEW h \in Handlers, Store(h)
          PROVE  Asked' \/ Only(file', EncoderFields) = Only(file, EncoderFields)
      <4>1. PICK s \in Saves :
              /\ SaveRules(s)
              /\ \A f \in Fields : f # s.field => file'[f] = file[f]
              /\ s.flag => Asked'
        BY <3>3, StoreDoes
      <4>2. s.field \in EncoderFields => s.flag
        BY <4>1 DEF SaveRules
      <4>3. s.field \notin EncoderFields => \A f \in EncoderFields : file'[f] = file[f]
        BY <4>1 DEF Fields
      <4>4. QED
        BY <4>1, <4>2, <4>3 DEF Only
    <3>4. QED
      BY <3>1, <3>2, <3>3, Changes
  <2>7. QED
    BY <2>1, <2>4, <2>5, <2>6 DEF SentOk
<1>6. QED
  BY <1>1, <1>2, <1>3, <1>4, <1>5, LineMoves

\* Every part of the invariant together.
LEMMA SyncInvariant == Spec => []SyncInv
<1>1. Init => SyncInv
  <2> SUFFICES ASSUME Init PROVE SyncInv
    OBVIOUS
  <2>1. ProgrammerInv
    BY ProgrammerInit
  <2>2. bak = -1 /\ row.script = "unset" /\ mpc.step = "poll" /\ mpc.own = TRUE /\ mem = file
    BY DEF Init, NoRow, NullRow
  <2>3. Asked
    BY <2>2 DEF Asked
  <2>4. RowOk /\ ClockOk
    BY <2>2 DEF RowOk, ClockOk, Modes
  <2>5. PictureOk /\ FileRead /\ DacOk /\ TablesOk /\ BusOk /\ NoneOk /\ SentOk
    BY <2>2, <2>3 DEF PictureOk, FileRead, DacOk, TablesOk, BusOk, NoneOk, SentOk, Redo
  <2>6. ModeOk /\ Whole
    <3>1. ~Programming(owner) /\ chip = << >> /\ lost = 0
      BY DEF Init, Programming, NotProgramming, Part
    <3>2. \A i : i \notin DOMAIN << >>
      OBVIOUS
    <3>3. QED
      BY <3>1, <3>2 DEF ModeOk, Whole
  <2>7. QED
    BY <2>1, <2>4, <2>5, <2>6 DEF SyncInv
<1>2. SyncInv /\ [Next]_vars => SyncInv'
  <2> SUFFICES ASSUME SyncInv, [Next]_vars PROVE SyncInv'
    OBVIOUS
  <2>1. TypeOK /\ Locked /\ Sending /\ ChipKnown /\ ProgrammerInv
    BY DEF SyncInv, ProgrammerInv
  <2>2. RowOk /\ ClockOk /\ PictureOk /\ FileRead /\ DacOk /\ TablesOk /\ BusOk /\ NoneOk /\ ModeOk
        /\ Whole /\ SentOk
    BY DEF SyncInv
  <2>3. ProgrammerInv'
    BY <2>1, ProgrammerStep
  <2>4. RowOk' /\ ClockOk' /\ PictureOk' /\ FileRead'
    BY <2>1, <2>2, RowStep, ClockStep, PictureStep, FileStep
  <2>5. DacOk' /\ TablesOk' /\ BusOk'
    BY <2>1, <2>2, DacStep, TablesStep, BusStep
  <2>6. NoneOk' /\ ModeOk' /\ Whole' /\ SentOk'
    BY <2>1, <2>2, NoneStep, ModeStep, WholeStep, SentStep
  <2>7. QED
    BY <2>3, <2>4, <2>5, <2>6 DEF SyncInv
<1>3. QED
  BY <1>1, <1>2, PTL DEF Spec

\* A script is a function from the numbers of its sections.
LEMMA ScriptSections ==
  ASSUME NEW m \in Modes, NEW c, NEW f
  PROVE  Script(m, c, f) = [i \in 1 .. Len(Shape[m]) |-> Script(m, c, f)[i]]
<1>1. CASE m = "v72060p"
  <2> DEFINE s == v72060p_mod(c, f)
  <2>1. s = [i \in 1 .. 9 |-> s[i]]
    BY DEF v72060p_mod
  <2>2. Script(m, c, f) = s
    BY <1>1 DEF Script
  <2> HIDE DEF s
  <2>3. DOMAIN s = 1 .. 9
    BY <2>1
  <2>4. 1 .. Len(Shape[m]) = 1 .. 9
    BY <2>2, <2>3, Shapes
  <2>5. QED
    BY <2>1, <2>2, <2>4
<1>2. CASE m = "v72050p"
  <2> DEFINE s == v72050p_mod(c, f)
  <2>1. s = [i \in 1 .. 9 |-> s[i]]
    BY DEF v72050p_mod
  <2>2. Script(m, c, f) = s
    BY <1>2 DEF Script
  <2> HIDE DEF s
  <2>3. DOMAIN s = 1 .. 9
    BY <2>1
  <2>4. 1 .. Len(Shape[m]) = 1 .. 9
    BY <2>2, <2>3, Shapes
  <2>5. QED
    BY <2>1, <2>2, <2>4
<1>3. CASE m = "v57650i"
  <2> DEFINE s == v57650i_mod(c, f)
  <2>1. s = [i \in 1 .. 10 |-> s[i]]
    BY DEF v57650i_mod
  <2>2. Script(m, c, f) = s
    BY <1>3 DEF Script
  <2> HIDE DEF s
  <2>3. DOMAIN s = 1 .. 10
    BY <2>1
  <2>4. 1 .. Len(Shape[m]) = 1 .. 10
    BY <2>2, <2>3, Shapes
  <2>5. QED
    BY <2>1, <2>2, <2>4
<1>4. CASE m = "v48060i"
  <2> DEFINE s == v48060i_mod(c, f)
  <2>1. s = [i \in 1 .. 10 |-> s[i]]
    BY DEF v48060i_mod
  <2>2. Script(m, c, f) = s
    BY <1>4 DEF Script
  <2> HIDE DEF s
  <2>3. DOMAIN s = 1 .. 10
    BY <2>1
  <2>4. 1 .. Len(Shape[m]) = 1 .. 10
    BY <2>2, <2>3, Shapes
  <2>5. QED
    BY <2>1, <2>2, <2>4
<1>5. CASE m = "v108060i"
  <2> DEFINE s == v108060i_mod(c, f)
  <2>1. s = [i \in 1 .. 10 |-> s[i]]
    BY DEF v108060i_mod
  <2>2. Script(m, c, f) = s
    BY <1>5 DEF Script
  <2> HIDE DEF s
  <2>3. DOMAIN s = 1 .. 10
    BY <2>1
  <2>4. 1 .. Len(Shape[m]) = 1 .. 10
    BY <2>2, <2>3, Shapes
  <2>5. QED
    BY <2>1, <2>2, <2>4
<1>6. CASE m = "v108050i"
  <2> DEFINE s == v108050i_mod(c, f)
  <2>1. s = [i \in 1 .. 10 |-> s[i]]
    BY DEF v108050i_mod
  <2>2. Script(m, c, f) = s
    BY <1>6 DEF Script
  <2> HIDE DEF s
  <2>3. DOMAIN s = 1 .. 10
    BY <2>1
  <2>4. 1 .. Len(Shape[m]) = 1 .. 10
    BY <2>2, <2>3, Shapes
  <2>5. QED
    BY <2>1, <2>2, <2>4
<1>7. CASE m = "v108050p"
  <2> DEFINE s == v108050p_mod(c, f)
  <2>1. s = [i \in 1 .. 10 |-> s[i]]
    BY DEF v108050p_mod
  <2>2. Script(m, c, f) = s
    BY <1>7 DEF Script
  <2> HIDE DEF s
  <2>3. DOMAIN s = 1 .. 10
    BY <2>1
  <2>4. 1 .. Len(Shape[m]) = 1 .. 10
    BY <2>2, <2>3, Shapes
  <2>5. QED
    BY <2>1, <2>2, <2>4
<1>8. CASE m = "v108060p"
  <2> DEFINE s == v108060p_mod(c, f)
  <2>1. s = [i \in 1 .. 10 |-> s[i]]
    BY DEF v108060p_mod
  <2>2. Script(m, c, f) = s
    BY <1>8 DEF Script
  <2> HIDE DEF s
  <2>3. DOMAIN s = 1 .. 10
    BY <2>1
  <2>4. 1 .. Len(Shape[m]) = 1 .. 10
    BY <2>2, <2>3, Shapes
  <2>5. QED
    BY <2>1, <2>2, <2>4
<1>9. QED
  BY <1>1, <1>2, <1>3, <1>4, <1>5, <1>6, <1>7, <1>8 DEF Modes

\* An encoder that has received all sections of the script of the format, with the settings
\* of the file and none of their commands lost, is as the format wants it.
LEMMA EncoderRight ==
  ASSUME TypeOK, row.script # "unset", Holds(0, Length(row.script)),
         \A i \in 1 .. Length(row.script) : chip[i].lost = 0
  PROVE  Encoder = Wanted
<1> DEFINE c == EncoderConf(file)
           r == RateGiven
           all == [i \in DOMAIN chip |-> Commands(chip[i])]
<1>1. row.script \in Modes \cup {"none"}
  BY DEF TypeOK
<1>2. all = Script(row.script, c, r)
  <2>1. CASE row.script = "none"
    <3>1. DOMAIN chip = 1 .. 0
      BY <2>1 DEF Holds, Length
    <3>2. all = << >>
      BY <3>1
    <3>3. Script(row.script, c, r) = << >>
      BY <2>1 DEF Script
    <3>4. QED
      BY <3>2, <3>3
  <2>2. CASE row.script \in Modes
    <3> DEFINE m == row.script
               n == Len(Shape[m])
    <3>0. n \in {9, 10} /\ Length(row.script) = n
      BY <2>2, Shapes DEF Length, Modes
    <3>1. DOMAIN chip = 1 .. n /\ n \in {9, 10}
      <4>1. 0 + n = n
        BY <3>0
      <4>2. QED
        BY <3>0, <4>1 DEF Holds
    <3>2. \A i \in 1 .. n : /\ chip[i].mode = m /\ chip[i].section = i /\ chip[i].lost = 0
                            /\ chip[i].conf = Only(file, EncoderFields)
      <4>1. \A i \in 1 .. n : 0 + i = i
        BY <3>0
      <4>2. QED
        BY <3>0, <4>1 DEF Holds, Fresh
    <3>3. EncoderConf(Only(file, EncoderFields)) = c
      BY DEF EncoderConf, Only
    <3>4. ASSUME NEW i \in 1 .. n
          PROVE  Commands(chip[i]) = Script(m, c, chip[i].rate)[i]
      BY <3>2, <3>3 DEF Commands
    <3>5. 2 \in 1 .. n
      <4>1. n = 9 \/ n = 10
        BY <3>1
      <4> HIDE DEF n
      <4>2. QED
        BY <4>1
    <3>6. {i \in DOMAIN chip : chip[i].section = 2} = {2}
      BY <3>1, <3>2, <3>5
    <3>7. Latest({2}) = 2
      BY DEF Latest
    <3>8. r = chip[2].rate
      BY <3>6, <3>7 DEF RateGiven
    <3>9. ASSUME NEW i \in 1 .. n PROVE Commands(chip[i]) = Script(m, c, r)[i]
      <4>1. CASE i = 2
        BY <3>4, <3>8, <4>1
      <4>2. CASE i # 2
        <5>1. i \in DOMAIN Script(m, c, r)
          BY <2>2, Shapes
        <5>2. Script(m, c, r)[i] = Script(m, c, chip[i].rate)[i]
          BY <2>2, <4>2, <5>1, Sections
        <5>3. QED
          BY <3>4, <5>2
      <4>3. QED
        BY <4>1, <4>2
    <3>10. Script(m, c, r) = [i \in 1 .. n |-> Script(m, c, r)[i]]
      BY <2>2, ScriptSections
    <3>11. QED
      BY <3>1, <3>9, <3>10
  <2>3. QED
    BY <1>1, <2>1, <2>2
<1>3. QED
  BY <1>2 DEF Encoder, Wanted, Image

\* When all is quiet every section of the script of the format is out.
LEMMA AtRest ==
  ASSUME SyncInv, Quiet, Programmed, ~overlap
  PROVE  /\ TypeOK /\ chip \in Seq(Received) /\ row.script \in Modes \cup {"none"}
         /\ Length(row.script) \in Nat /\ Sent(Length(row.script))
<1>1. TypeOK /\ Locked /\ Sending /\ ChipKnown
  BY DEF SyncInv, ProgrammerInv
<1>2. mpc.step = "poll" /\ pid_status # 1 /\ row.script # "unset" /\ bak = Reading /\ Reading >= 0
  BY DEF Quiet, Programmed
<1>3. \A h \in Handlers : hpc[h].step = "idle"
  BY DEF Quiet, Idle
<1>4. ~DueScript /\ ~DueFlag
  BY <1>3 DEF DueScript, DueFlag, HandlerSteps
<1>5. bak # -1
  BY <1>1, <1>2, CodeRead DEF Codes
<1>6. ~Redo(ToReceiver)
  BY <1>2, <1>4, <1>5 DEF Asked, Redo, ToReceiver
<1>7. owner \in Procs
  BY <1>1 DEF TypeOK, Procs
<1>8. ~Programming(owner)
  BY <1>1, <1>2, <1>3, <1>7 DEF Sending, Procs
<1>9. Sent(Length(row.script))
  BY <1>4, <1>6, <1>8 DEF SyncInv, SentOk
<1>10. row.script \in Modes \cup {"none"}
  BY <1>1, <1>2 DEF TypeOK
<1>11. Length(row.script) \in Nat
  BY <1>10, Shapes DEF Length
<1>12. chip \in Seq(Received)
  BY <1>1 DEF ChipKnown
<1>13. QED
  BY <1>1, <1>9, <1>10, <1>11, <1>12

\* When no command was lost nothing of an earlier script is left.
LEMMA Intact ==
  ASSUME NEW n \in Nat, Sent(n), lost = 0
  PROVE  Holds(0, n) /\ \A i \in 1 .. n : chip[i].lost = 0
<1>1. PICK m \in Nat : Holds(m, n)
  BY DEF Sent
<1>2. m = 0 /\ \A i \in 1 .. n : chip[0 + i].lost = 0
  BY <1>1 DEF Holds
<1>3. \A i \in 1 .. n : 0 + i = i
  OBVIOUS
<1>4. QED
  BY <1>1, <1>2, <1>3

\* When all is quiet every chip holds what the configuration file says, for the row of the
\* format on the input: a save is never forgotten, whenever the signal handler ran and
\* whichever of the two ways it was applied.
THEOREM AllInStep == Spec => []Synced
<1>1. SyncInv => Synced
  <2> SUFFICES ASSUME SyncInv, Quiet, Programmed
               PROVE  /\ row = usercode_mod(iface, bak, IF bak <= 0 THEN 20 ELSE bak, row)
                      /\ ~overlap /\ lost = 0 => Encoder = Wanted
                      /\ row.script # "none" =>
                           clk = row.clock /\ rx = [set |-> row.rx, picture |-> file["picture"]]
                      /\ tables = Only(file, TableFields) /\ bus = Only(file, DOMAIN bus)
                      /\ dac = Only(file, DOMAIN dac)
    BY DEF Synced
  <2>1. TypeOK /\ Locked /\ Sending
    BY DEF SyncInv, ProgrammerInv
  <2>2. RowOk /\ ClockOk /\ PictureOk /\ FileRead /\ DacOk /\ TablesOk /\ BusOk /\ NoneOk /\ ModeOk
        /\ Whole /\ SentOk
    BY DEF SyncInv
  <2>3. mpc.step = "poll" /\ pid_status # 1 /\ row.script # "unset" /\ bak = Reading /\ Reading >= 0
    BY DEF Quiet, Programmed
  <2>4. \A h \in Handlers : hpc[h].step = "idle"
    BY DEF Quiet, Idle
  <2>5. ~DueScript /\ ~DueUpload /\ ~DueTune /\ ~DueFlag
    BY <2>4 DEF DueScript, DueUpload, DueTune, DueFlag, HandlerSteps
  <2>6. bak # -1
    BY <2>1, <2>3, CodeRead DEF Codes
  <2>7. ~Asked
    BY <2>3, <2>5, <2>6 DEF Asked
  <2>8. ~Redo(ToReceiver) /\ ~Redo(ToDac) /\ ~Redo(ToBus)
    BY <2>3, <2>7 DEF Redo, ToReceiver, ToDac, ToBus
  <2>9. row = usercode_mod(iface, bak, IF bak <= 0 THEN 20 ELSE bak, row)
    BY <2>2, <2>3, <2>6 DEF RowOk
  <2>10. ~overlap /\ lost = 0 => Encoder = Wanted
    <3> SUFFICES ASSUME ~overlap, lost = 0 PROVE Encoder = Wanted
      OBVIOUS
    <3>1. Length(row.script) \in Nat /\ Sent(Length(row.script))
      BY AtRest
    <3>2. Holds(0, Length(row.script)) /\ \A i \in 1 .. Length(row.script) : chip[i].lost = 0
      BY <3>1, Intact
    <3>3. QED
      BY <2>1, <2>3, <3>2, EncoderRight
  <2>11. row.script # "none" =>
           clk = row.clock /\ rx = [set |-> row.rx, picture |-> file["picture"]]
    <3>1. row.script # "none" => row.script \in Modes
      BY <2>1, <2>3 DEF TypeOK
    <3>2. QED
      BY <2>2, <2>3, <2>8, <3>1 DEF ClockOk, PictureOk
  <2>12. tables = Only(file, TableFields)
    BY <2>2, <2>5, <2>8 DEF TablesOk
  <2>13. bus = Only(file, DOMAIN bus) /\ dac = Only(file, DOMAIN dac)
    BY <2>2, <2>5, <2>8 DEF BusOk, DacOk, Only
  <2>14. QED
    BY <2>9, <2>10, <2>11, <2>12, <2>13
<1>2. QED
  BY <1>1, SyncInvariant, PTL

-----------------------------------------------------------------------------
(* The rate of the multiplex.                                              *)

\* The frame rate the last script was given is one that can be on display.
LEMMA MuxGiven ==
  ASSUME chip \in Seq(Received), NEW m \in Nat, NEW n \in Nat, n >= 2, Holds(m, n)
  PROVE  RateGiven = chip[m + 2].rate /\ RateGiven \in {-1, 24, 25, 30, 50, 60}
<1> DEFINE muxes == {i \in DOMAIN chip : chip[i].section = 2}
<1>1. DOMAIN chip = 1 .. m + n /\ m + 2 \in 1 .. m + n /\ m + 2 \in Nat
  BY DEF Holds
<1>2. chip[m + 2].section = 2
  <2>1. Fresh(m, 2)
    BY DEF Holds
  <2>2. QED
    BY <2>1 DEF Fresh
<1>3. m + 2 \in muxes
  BY <1>1, <1>2
<1>4. ASSUME NEW j \in muxes PROVE j <= m + 2
  <2>1. CASE j <= m
    BY <1>1, <2>1
  <2>2. CASE ~(j <= m)
    <3>1. j - m \in 1 .. n /\ m + (j - m) = j
      BY <1>1, <2>2
    <3>2. Fresh(m, j - m)
      BY <3>1 DEF Holds
    <3>3. chip[j].section = j - m
      BY <3>1, <3>2 DEF Fresh
    <3>4. j - m = 2
      BY <3>3
    <3>5. QED
      BY <3>1, <3>4
  <2>3. QED
    BY <2>1, <2>2
<1>5. muxes \in SUBSET Int
  BY <1>1
<1>6. RateGiven = IF muxes = {} THEN -1 ELSE chip[Latest(muxes)].rate
  BY DEF RateGiven
<1> HIDE DEF muxes
<1>7. Latest(muxes) = m + 2
  BY <1>3, <1>4, <1>5, LatestIs
<1>8. RateGiven = chip[m + 2].rate
  BY <1>3, <1>6, <1>7
<1>9. chip[m + 2] \in Received
  <2>1. DOMAIN chip = 1 .. Len(chip)
    BY LenProperties
  <2>2. m + 2 \in 1 .. Len(chip)
    BY <1>1, <2>1
  <2>3. QED
    BY <2>2, ElementOfSeq
<1>10. QED
  BY <1>2, <1>8, <1>9 DEF Received

\* The bit rates that the menu lets be set, except those of the video below 987 kbit/s.
VideoRates == 987 .. 29500
AudioRates == 64 .. 384
RatesAllowed ==
  \A n \in Values : Setting["vrate"][n] \in VideoRates /\ Setting["arate"][n] \in AudioRates

\* The audio of a frame takes one to six packets.
LEMMA Packets ==
  ASSUME NEW a \in Int, a >= 64, a <= 384
  PROVE  (3 * a + 14) \div 184 \in 1 .. 6
BY SMT

\* What they take of the multiplex, in bit/s.
LEMMA AudioRate ==
  ASSUME NEW p \in 1 .. 6
  PROVE  /\ (2 * 188000 * p + 3) \div 6 \in Int
         /\ (2 * 188000 * p + 3) \div 6 >= 62667 /\ (2 * 188000 * p + 3) \div 6 <= 376000
BY SMT

\* What the tables take.
LEMMA TableBits == TableRate = 85226
<1>1. sn_calc(90) = 16711 /\ sn_calc(900) = 1671 /\ sn_calc(30) = 50133
  BY SMT DEF sn_calc
<1>2. QED
  BY <1>1, SMT DEF TableRate

\* A sum of rates with a twentieth on top, rounded to kbit/s, fits a register.
LEMMA Twentieth ==
  ASSUME NEW sum \in Int, sum >= 0, sum <= 31000000
  PROVE  /\ (sum * 21 + 10000) \div 20000 \in Int
         /\ ((sum * 21 + 10000) \div 20000) * 20000 >= sum * 21 - 9999
         /\ ((sum * 21 + 10000) \div 20000) % 65536 = (sum * 21 + 10000) \div 20000
<1> DEFINE X == (sum * 21 + 10000) \div 20000
<1>1. X \in Int /\ X * 20000 >= sum * 21 - 9999 /\ X * 20000 <= sum * 21 + 10000
  BY SMT
<1> HIDE DEF X
<1>2. X >= 0 /\ X < 65536
  BY <1>1, SMT
<1>3. X % 65536 = X
  BY <1>1, <1>2, SMT
<1>4. QED
  BY <1>1, <1>3 DEF X

\* The twentieth makes up for the frame rate of another format when the video has 987 kbit/s or
\* more: X is the rate that was computed for r pictures a second, g are needed.
LEMMA MakesUp ==
  ASSUME NEW v \in Int, v >= 987, NEW r \in Int, r >= 24, NEW g \in Int, g <= 60,
         NEW A \in Int, A >= 62667, NEW X \in Int,
         X * 20000 >= (v * 1000 + (152 * r + 76) + (1464 * r + 732) + A + 85226) * 21 - 9999
  PROVE  X * 1000 >= v * 1000 + (152 * g + 76) + (1464 * g + 732) + A + 85226
BY SMT

\* So the rate a script is given covers video, audio and tables of any format.
LEMMA RateCovers ==
  ASSUME RatesAllowed, NEW n \in Values, NEW k \in Values,
         NEW r \in {24, 25, 30, 50, 60}, NEW g \in {24, 25, 30, 50, 60}
  PROVE  LET v == Setting["vrate"][n]
             a == Setting["arate"][k]
         IN Low16(MUX_RATE(vn_calc(v, r), an_calc(a), TableRate)) * 1000
              >= vn_calc(v, g) + an_calc(a) + TableRate
<1> DEFINE v == Setting["vrate"][n]
           a == Setting["arate"][k]
<1>1. v \in Int /\ v >= 987 /\ v <= 29500 /\ a \in Int /\ a >= 64 /\ a <= 384
  <2>1. v \in VideoRates /\ a \in AudioRates
    BY DEF RatesAllowed
  <2> HIDE DEF v, a
  <2>2. QED
    BY ONLY <2>1, SMT DEF VideoRates, AudioRates
<1>2. r \in Int /\ g \in Int /\ r >= 24 /\ r <= 60 /\ g >= 24 /\ g <= 60
  BY SMT
<1> HIDE DEF v, a
<1> DEFINE p == (3 * a + 14) \div 184
           A == (2 * 188000 * p + 3) \div 6
           sum == v * 1000 + (152 * r + 76) + (1464 * r + 732) + A + 85226
           X == (sum * 21 + 10000) \div 20000
<1>3. p \in 1 .. 6
  BY ONLY <1>1, Packets
<1>4. an_calc(a) = A
  BY ONLY <1>1, SMT DEF an_calc, p, A
<1> HIDE DEF p
<1>5. A \in Int /\ A >= 62667 /\ A <= 376000
  BY ONLY <1>3, AudioRate DEF A
<1> HIDE DEF A
<1>6. /\ vn_calc(v, r) = v * 1000 + (152 * r + 76) + (1464 * r + 732)
      /\ vn_calc(v, g) = v * 1000 + (152 * g + 76) + (1464 * g + 732)
  BY ONLY <1>1, <1>2, SMT DEF vn_calc
<1>7. MUX_RATE(vn_calc(v, r), an_calc(a), TableRate) = X
  BY ONLY <1>4, <1>6, TableBits, SMT DEF MUX_RATE, X, sum
<1>8. sum \in Int /\ sum >= 0 /\ sum <= 31000000
  BY ONLY <1>1, <1>2, <1>5, SMT DEF sum
<1> HIDE DEF sum
<1>9. X \in Int /\ X * 20000 >= sum * 21 - 9999 /\ X % 65536 = X
  BY ONLY <1>8, Twentieth DEF X
<1> HIDE DEF X
<1>10. X * 1000 >= v * 1000 + (152 * g + 76) + (1464 * g + 732) + A + 85226
  <2>1. X * 20000 >= (v * 1000 + (152 * r + 76) + (1464 * r + 732) + A + 85226) * 21 - 9999
    BY ONLY <1>9 DEF sum
  <2>2. QED
    BY ONLY <1>1, <1>2, <1>5, <1>9, <2>1, MakesUp
<1>11. Low16(X) = X
  BY ONLY <1>9 DEF Low16
<1>12. Low16(MUX_RATE(vn_calc(v, r), an_calc(a), TableRate)) * 1000
         >= vn_calc(v, g) + an_calc(a) + TableRate
  BY ONLY <1>4, <1>6, <1>7, <1>10, <1>11, TableBits, SMT
<1>13. QED
  BY ONLY <1>12 DEF v, a

\* The rate of the multiplex covers video, audio and tables of the format on the input, although
\* it was computed for the frame rate on display, which is often that of the format before: for
\* the bit rates that the menu lets be set, except those of the video below 987 kbit/s.
THEOREM RateSuffices ==
  ASSUME RatesAllowed
  PROVE  Spec => []MuxCovers
<1>1. SyncInv => MuxCovers
  <2> DEFINE f == ShownFrameRate(iface, bak)
             g == IF f < 0 THEN 25 ELSE f
             c == EncoderConf(file)
             r == RateGiven
             q == IF r < 0 THEN 30 ELSE r
  <2> SUFFICES ASSUME SyncInv, Quiet, Programmed, ~overlap, lost = 0, row.script # "none"
               PROVE  Encoder.reg[MuxRate] * 1000 >= Needed(g)
    BY DEF MuxCovers, MuxRate
  <2> DEFINE n == Length(row.script)
  <2>1. /\ TypeOK /\ chip \in Seq(Received) /\ row.script \in Modes
        /\ n \in Nat /\ Sent(n)
    BY AtRest
  <2>2. Holds(0, n) /\ \A i \in 1 .. n : chip[i].lost = 0
    <3> HIDE DEF n
    <3>1. QED
      BY <2>1, Intact
  <2>3. Encoder = Wanted
    BY <2>1, <2>2, EncoderRight DEF Modes
  <2>4. n \in {9, 10}
    BY <2>1, Shapes DEF Length, Modes
  <2>5. r \in {-1, 24, 25, 30, 50, 60}
    <3>1. n >= 2
      BY <2>4
    <3> HIDE DEF n
    <3>2. 0 \in Nat
      OBVIOUS
    <3>3. QED
      BY <2>1, <2>2, <3>1, <3>2, MuxGiven
  <2> HIDE DEF n
  <2>6. Encoder.reg[MuxRate] = Low16(SysRate(c, r))
    <3>1. row.script \in Formats
      BY <2>1 DEF Formats, Modes
    <3>2. Image(row.script, c, r).reg[MuxRate] = Low16(SysRate(c, r))
      BY <3>1, ImageRate
    <3>3. QED
      BY <2>3, <3>2 DEF Wanted
  <2>7. PICK v \in Values, a \in Values :
          c.vrate = Setting["vrate"][v] /\ c.arate = Setting["arate"][a]
    <3>1. file["vrate"] \in Values /\ file["arate"] \in Values
      BY <2>1 DEF TypeOK, Fields, EncoderFields
    <3>2. "vrate" \in EncoderFields /\ "arate" \in EncoderFields
      BY DEF EncoderFields
    <3>3. c.vrate = Setting["vrate"][file["vrate"]] /\ c.arate = Setting["arate"][file["arate"]]
      BY <3>2 DEF EncoderConf
    <3>4. QED
      BY <3>1, <3>3
  <2>8. g \in {24, 25, 30, 50, 60}
    <3>1. f \in {-1, 24, 25, 30, 50, 60}
      BY <2>1, RateShown DEF TypeOK
    <3> HIDE DEF f
    <3>2. QED
      BY <3>1
  <2>9. q \in {24, 25, 30, 50, 60}
    <3> HIDE DEF r
    <3>1. QED
      BY <2>5
  <2>10. SysRate(c, r) = MUX_RATE(vn_calc(c.vrate, q), an_calc(c.arate), TableRate)
    BY DEF SysRate
  <2>11. Needed(g) = vn_calc(c.vrate, g) + an_calc(c.arate) + TableRate
    BY DEF Needed
  <2> HIDE DEF q, g, c, r
  <2>12. Low16(SysRate(c, r)) * 1000 >= Needed(g)
    <3>1. Low16(MUX_RATE(vn_calc(c.vrate, q), an_calc(c.arate), TableRate)) * 1000
            >= vn_calc(c.vrate, g) + an_calc(c.arate) + TableRate
      BY <2>7, <2>8, <2>9, RateCovers
    <3>2. QED
      BY <2>10, <2>11, <3>1
  <2>13. QED
    BY <2>6, <2>12
<1>2. QED
  BY <1>1, SyncInvariant, PTL

-----------------------------------------------------------------------------
(* A command that is lost.                                                 *)

\* What the chip was sent of section i of the script of the format.
LEMMA FreshCommands ==
  ASSUME row.script \in Modes, chip \in Seq(Received),
         NEW n, n = Length(row.script), NEW m \in Nat, Holds(m, n), NEW i \in 1 .. n
  PROVE  LET s == Script(row.script, EncoderConf(file), RateGiven) IN
         Commands(chip[m + i]) = IF chip[m + i].lost = 0 THEN s[i] ELSE RemoveAt(s[i], chip[m + i].lost)
<1> DEFINE c == EncoderConf(file)
           r == chip[m + i].rate
<1>0. n \in {9, 10} /\ n = Len(Shape[row.script])
  BY Shapes DEF Length, Modes
<1>1. /\ chip[m + i].mode = row.script /\ chip[m + i].section = i
      /\ chip[m + i].conf = Only(file, EncoderFields)
  BY DEF Holds, Fresh
<1>2. EncoderConf(Only(file, EncoderFields)) = c
  BY DEF EncoderConf, Only
<1>3. Script(row.script, c, r)[i] = Script(row.script, c, RateGiven)[i]
  <2>1. CASE i = 2
    <3>1. RateGiven = r
      BY <1>0, <2>1, MuxGiven
    <3>2. QED
      BY <3>1
  <2>2. CASE i # 2
    <3>1. i \in DOMAIN Script(row.script, c, r)
      BY <1>0, Shapes
    <3> HIDE DEF r
    <3>2. QED
      BY <2>2, <3>1, Sections
  <2>3. QED
    BY <2>1, <2>2
<1>4. Commands(chip[m + i]) =
        LET all == Script(row.script, c, r)[i]
        IN IF chip[m + i].lost = 0 THEN all ELSE RemoveAt(all, chip[m + i].lost)
  BY <1>1, <1>2 DEF Commands
<1> HIDE DEF r, c
<1>5. QED
  BY <1>3, <1>4 DEF c

\* The commands of the sections before are those of an earlier script of the format.
LEMMA InOrderCommands ==
  ASSUME NEW m \in Nat, NEW n, Holds(m, n), row.script \in Modes
  PROVE  /\ m <= SectionCount(row.script)
         /\ Earlier(row.script, m, [i \in 1 .. m |-> Commands(chip[i])])
<1> DEFINE old == [i \in 1 .. m |-> Commands(chip[i])]
<1>1. DOMAIN Shape[row.script] = 1 .. SectionCount(row.script) /\ SectionCount(row.script) \in {9, 10}
  <2> DEFINE d == [x \in EncoderFields |-> Setting[x][1]]
  <2>1. DOMAIN Script(row.script, d, 30) = 1 .. SectionCount(row.script)
    BY Sections DEF SectionCount
  <2>2. SectionCount(row.script) \in {9, 10}
    BY DEF SectionCount
  <2>3. QED
    BY <2>1, <2>2 DEF Shape
<1>2. ASSUME NEW i \in 1 .. m
      PROVE  i \in 1 .. SectionCount(row.script) /\ \E d, g : old[i] = Script(row.script, d, g)[i]
  <2>1. /\ chip[i].mode = row.script /\ chip[i].section = i /\ chip[i].lost = 0
        /\ i \in DOMAIN Shape[row.script]
    BY DEF Holds, InOrder
  <2>2. old[i] = Script(row.script, EncoderConf(chip[i].conf), chip[i].rate)[i]
    BY <2>1 DEF Commands
  <2>3. QED
    BY <1>1, <2>1, <2>2
<1>3. m <= SectionCount(row.script)
  <2>1. CASE m = 0
    BY <1>1, <2>1
  <2>2. CASE m # 0
    <3>1. m \in 1 .. m
      BY <2>2
    <3>2. m \in 1 .. SectionCount(row.script)
      BY <1>2, <3>1
    <3>3. QED
      BY <1>1, <3>2
  <2>3. QED
    BY <2>1, <2>2
<1>4. \A i \in 1 .. m : \E d, g : old[i] = Script(row.script, d, g)[i]
  BY <1>2
<1>5. old = [i \in 1 .. m |-> old[i]]
  OBVIOUS
<1> HIDE DEF old
<1>6. QED
  BY <1>3, <1>4, <1>5 DEF Earlier, old

\* A list of n things.
Listed(x, n) == x = [i \in 1 .. n |-> x[i]]

\* A list in two parts.
LEMMA TwoParts ==
  ASSUME NEW m \in Nat, NEW n \in Nat, NEW x, NEW y, NEW z,
         Listed(x, m), Listed(y, n), Listed(z, m + n),
         \A i \in 1 .. m : z[i] = x[i], \A i \in 1 .. n : z[m + i] = y[i]
  PROVE  z = x \o y
<1>1. x \in Seq(Range(x)) /\ Len(x) = m
  <2>1. x \in [1 .. m -> Range(x)]
    BY DEF Range, Listed
  <2>2. x \in Seq(Range(x)) /\ DOMAIN x = 1 .. m
    BY <2>1, SeqDef
  <2>3. QED
    BY <2>2, LenProperties
<1>2. y \in Seq(Range(y)) /\ Len(y) = n
  <2>1. y \in [1 .. n -> Range(y)]
    BY DEF Range, Listed
  <2>2. y \in Seq(Range(y)) /\ DOMAIN y = 1 .. n
    BY <2>1, SeqDef
  <2>3. QED
    BY <2>2, LenProperties
<1> DEFINE w == x \o y
           R == Range(w)
<1>3. /\ w \in Seq(R) /\ Len(w) = m + n
      /\ \A i \in 1 .. m + n : w[i] = IF i <= m THEN x[i] ELSE y[i - m]
  BY ONLY <1>1, <1>2, m \in Nat, n \in Nat, ConcatRange
<1> HIDE DEF R
<1>4. w = [i \in 1 .. m + n |-> w[i]]
  <2> HIDE DEF w
  <2>1. w \in [1 .. Len(w) -> R]
    BY <1>3, LenProperties
  <2>2. QED
    BY <1>3, <2>1
<1> HIDE DEF w
<1>5. ASSUME NEW i \in 1 .. m + n PROVE z[i] = w[i]
  <2>1. CASE i <= m
    <3>1. i \in 1 .. m
      BY <2>1
    <3>2. w[i] = x[i]
      BY <1>3, <2>1
    <3>3. QED
      BY <3>1, <3>2
  <2>2. CASE ~(i <= m)
    <3>1. i - m \in 1 .. n /\ m + (i - m) = i
      BY <2>2
    <3>2. z[m + (i - m)] = y[i - m]
      BY <3>1
    <3>3. w[i] = y[i - m]
      BY <1>3, <2>2
    <3>4. QED
      BY <3>1, <3>2, <3>3
  <2>3. QED
    BY <2>1, <2>2
<1>6. QED
  BY <1>4, <1>5 DEF w, Listed

\* The script of the format with the settings of the file, received on a chip where one of
\* its commands may have been lost: two registers at most are not as wanted.
LEMMA FewWrong ==
  ASSUME row.script \in Modes, chip \in Seq(Received),
         NEW n, n = Length(row.script), NEW m \in Nat, Holds(m, n), NEW k \in 1 .. n, chip[m + k].lost # 0
  PROVE  \E a, b : Apart(Encoder.reg, Wanted.reg) \subseteq {a, b}
<1> DEFINE c == EncoderConf(file)
           r == RateGiven
           s == Script(row.script, c, r)
           l == chip[m + k].lost
           all == [i \in DOMAIN chip |-> Commands(chip[i])]
           q == Dropped(s, n, k, l)
           old == [i \in 1 .. m |-> Commands(chip[i])]
<1>1. n \in {9, 10} /\ n = SectionCount(row.script) /\ row.script \in Formats /\ n = Len(Shape[row.script])
  <2>1. row.script \in Formats /\ row.script # "none"
    BY DEF Modes, Formats
  <2>2. n = Len(Shape[row.script])
    BY <2>1 DEF Length
  <2>3. DOMAIN s = 1 .. Len(Shape[row.script]) /\ Len(Shape[row.script]) \in {9, 10}
    BY Shapes
  <2>4. DOMAIN s = 1 .. SectionCount(row.script) /\ SectionCount(row.script) \in {9, 10}
    BY Sections DEF SectionCount
  <2> HIDE DEF s
  <2>5. Len(Shape[row.script]) = SectionCount(row.script)
    BY <2>3, <2>4
  <2>6. QED
    BY <2>1, <2>2, <2>3, <2>5
<1>2. /\ DOMAIN chip = 1 .. m + n
      /\ \A i \in 1 .. n : i # k => chip[m + i].lost = 0
      /\ m > 0 => chip[m + 1].lost = Reset
  BY DEF Holds
<1>3. l \in 1 .. Len(s[k])
  <2>1. l \in 0 .. Shape[row.script][k] /\ l # 0
    BY DEF Holds, Fresh
  <2>2. k \in DOMAIN Shape[row.script]
    <3>1. DOMAIN Script(row.script, [x \in EncoderFields |-> Setting[x][1]], 30) = 1 .. n
      BY <1>1, Sections DEF SectionCount
    <3>2. QED
      BY <3>1 DEF Shape
  <2>3. Len(s[k]) = Shape[row.script][k] /\ Shape[row.script][k] \in Nat
    BY <2>2, ShapeCounts
  <2> HIDE DEF s, l
  <2>4. QED
    BY <2>1, <2>3
<1>4. \A i \in 1 .. n : Commands(chip[m + i]) = IF i = k THEN RemoveAt(s[k], l) ELSE s[i]
  <2>1. ASSUME NEW i \in 1 .. n
        PROVE  Commands(chip[m + i]) = IF i = k THEN RemoveAt(s[k], l) ELSE s[i]
    <3>1. Commands(chip[m + i]) = IF chip[m + i].lost = 0 THEN s[i] ELSE RemoveAt(s[i], chip[m + i].lost)
      BY FreshCommands
    <3> HIDE DEF s
    <3>2. QED
      BY <1>2, <3>1
  <2>2. QED
    BY <2>1
<1>5. all = old \o q
  <2>1. n \in Nat /\ \A i \in 1 .. n : i \in 1 .. n => m + i \in 1 .. m + n
    BY <1>1
  <2>2. \A i \in 1 .. m : i \in 1 .. m + n
    BY <1>1
  <2>3. \A i \in 1 .. n : q[i] = IF i = k THEN RemoveAt(s[k], l) ELSE s[i]
    <3> HIDE DEF s, l
    <3>1. QED
      BY DEF Dropped
  <2>4. Listed(q, n)
    <3> HIDE DEF s, l
    <3>1. QED
      BY DEF Dropped, Listed
  <2> HIDE DEF q, s, l
  <2>5. Listed(all, m + n) /\ Listed(old, m)
    BY <1>2 DEF Listed
  <2>6. \A i \in 1 .. m : all[i] = old[i]
    BY <1>2, <2>2
  <2>7. \A i \in 1 .. n : all[m + i] = q[i]
    BY <1>2, <1>4, <2>1, <2>3
  <2> HIDE DEF all, old
  <2>8. n \in Nat
    BY <2>1
  <2>9. QED
    BY ONLY m \in Nat, <2>8, <2>4, <2>5, <2>6, <2>7, TwoParts
<1>6. Encoder = Run(Blank, FlattenSeq(old \o q)) /\ Wanted = Image(row.script, c, r)
  BY <1>5 DEF Encoder, Wanted
<1>7. CASE k = 1 /\ l = 2
  <2>1. m <= SectionCount(row.script) /\ Earlier(row.script, m, old)
    BY InOrderCommands
  <2>2. Apart(Run(Blank, FlattenSeq(old \o Dropped(Script(row.script, c, r), SectionCount(row.script), 1, 2))).reg,
              Image(row.script, c, r).reg) = {}
    <3> HIDE DEF c, r, old
    <3>1. QED
      BY <1>1, <2>1, ResetGone
  <2>3. q = Dropped(Script(row.script, c, r), SectionCount(row.script), 1, 2)
    <3> HIDE DEF c, r, l
    <3>1. QED
      BY <1>1, <1>7
  <2> HIDE DEF q, old, c, r, s, l
  <2>4. Apart(Encoder.reg, Wanted.reg) = {}
    BY <1>6, <2>2, <2>3
  <2>5. QED
    BY <2>4
<1>8. CASE k # 1 \/ l # 2
  <2>1. m = 0
    <3>1. CASE m > 0
      <4>1. chip[m + 1].lost = 2 /\ 1 \in 1 .. n
        BY <1>1, <1>2, <3>1 DEF Reset
      <4>2. 1 = k
        BY <1>2, <4>1
      <4>3. QED
        BY <1>8, <4>1, <4>2
    <3>2. QED
      BY <3>1
  <2>2. old = << >>
    BY <2>1
  <2>3. old \o q = q
    <3>1. q \in Seq(Range(q))
      <4>1. q = [i \in 1 .. n |-> q[i]] /\ n \in Nat
        BY <1>1 DEF Dropped
      <4> HIDE DEF q
      <4>2. q \in [1 .. n -> Range(q)]
        BY <4>1 DEF Range
      <4>3. QED
        BY <4>1, <4>2, SeqDef
    <3> HIDE DEF q, old
    <3>2. QED
      BY <2>2, <3>1, ConcatEmptySeq
  <2>4. \E a, b : Apart(Run(Blank, FlattenSeq(q)).reg, Image(row.script, c, r).reg) \subseteq {a, b}
    <3>1. k \in 1 .. SectionCount(row.script) /\ l \in 1 .. Len(Script(row.script, c, r)[k])
      BY <1>1, <1>3
    <3>2. q = Dropped(Script(row.script, c, r), SectionCount(row.script), k, l)
      BY <1>1
    <3>3. row.script \in Formats /\ (k # 1 \/ l # 2)
      BY <1>1, <1>8
    <3> DEFINE w == row.script
               p == Dropped(Script(w, c, r), SectionCount(w), k, l)
    <3> HIDE DEF c, r, q, l
    <3>4. \E a, b : Apart(Run(Blank, FlattenSeq(p)).reg, Image(w, c, r).reg) \subseteq {a, b}
      <4> HIDE DEF w
      <4>1. w \in Formats /\ k \in 1 .. SectionCount(w) /\ l \in 1 .. Len(Script(w, c, r)[k])
            /\ (k # 1 \/ l # 2)
        BY ONLY <3>1, <3>3 DEF w
      <4>2. QED
        BY ONLY <4>1, OneGone
    <3> HIDE DEF p
    <3>5. q = p
      BY <3>2 DEF p
    <3>6. QED
      BY <3>4, <3>5
  <2> HIDE DEF q, old, c, r, s, l
  <2>5. QED
    BY <1>6, <2>3, <2>4
<1>9. QED
  BY <1>7, <1>8

\* A lost command leaves at most two registers wrong, the one whose address was lost and the
\* one addressed before it, and never a setting of an earlier format.
THEOREM LossKept == Spec => []LossContained
<1>1. SyncInv => LossContained
  <2> SUFFICES ASSUME SyncInv, Quiet, Programmed, ~overlap
               PROVE  Cardinality(Differing(Encoder.reg, Wanted.reg)) <= 2 * lost
    BY DEF LossContained
  <2> DEFINE n == Length(row.script)
             D == Apart(Encoder.reg, Wanted.reg)
  <2>1. /\ TypeOK /\ chip \in Seq(Received) /\ row.script \in Modes \cup {"none"}
        /\ n \in Nat /\ Sent(n)
    BY AtRest
  <2>2. Differing(Encoder.reg, Wanted.reg) = D
    BY DEF Differing, Apart
  <2>3. lost \in Nat
    BY <2>1, BoundsAssumption DEF TypeOK
  <2>4. PICK m \in Nat : Holds(m, n)
    BY <2>1 DEF Sent
  <2>5. CASE \A i \in 1 .. n : chip[m + i].lost = 0
    <3>1. m = 0
      <4>1. m > 0 => n > 0 /\ chip[m + 1].lost = Reset
        BY <2>4 DEF Holds
      <4> HIDE DEF n
      <4>2. m > 0 => 1 \in 1 .. n
        BY <2>1, <4>1
      <4>3. QED
        BY <2>5, <4>1, <4>2 DEF Reset
    <3>2. \A i \in 1 .. n : chip[i].lost = 0
      <4> HIDE DEF n
      <4>1. \A i \in 1 .. n : 0 + i = i
        BY <2>1
      <4>2. QED
        BY <2>5, <3>1, <4>1
    <3>3. row.script # "unset"
      BY DEF Programmed
    <3>4. Encoder = Wanted
      BY <2>1, <2>4, <3>1, <3>2, <3>3, EncoderRight
    <3>5. D = {}
      BY <3>4 DEF Apart
    <3> HIDE DEF D
    <3>6. QED
      BY <2>2, <2>3, <3>5, FS_EmptySet
  <2>6. CASE \E k \in 1 .. n : chip[m + k].lost # 0
    <3>1. PICK k \in 1 .. n : chip[m + k].lost # 0
      BY <2>6
    <3>2. row.script \in Modes
      BY <2>1, <3>1 DEF Length
    <3>3. lost # 0
      BY <2>4, <3>1 DEF Holds
    <3>4. PICK a, b : D \subseteq {a, b}
      BY <2>1, <2>4, <3>1, <3>2, FewWrong
    <3> HIDE DEF D
    <3>5. IsFiniteSet({a, b}) /\ Cardinality({a, b}) \in {1, 2}
      <4>1. IsFiniteSet({a}) /\ Cardinality({a}) = 1
        BY FS_Singleton
      <4>2. /\ IsFiniteSet({a} \cup {b})
            /\ Cardinality({a} \cup {b}) = IF b \in {a} THEN Cardinality({a}) ELSE Cardinality({a}) + 1
        BY <4>1, FS_AddElement
      <4>3. {a} \cup {b} = {a, b}
        OBVIOUS
      <4>4. QED
        BY <4>1, <4>2, <4>3
    <3>6. IsFiniteSet(D) /\ Cardinality(D) <= Cardinality({a, b})
      BY <3>4, <3>5, FS_Subset
    <3>7. Cardinality(D) \in Nat
      BY <3>6, FS_CardinalityType
    <3>8. QED
      BY <2>2, <2>3, <3>3, <3>5, <3>6, <3>7
  <2>7. QED
    BY <2>5, <2>6
<1>2. QED
  BY <1>1, SyncInvariant, PTL

====
