---------------------------- MODULE VideoFormats ----------------------------
(***************************************************************************)
(* What the unit does with a video format: the settings of the receiver    *)
(* and of the clock chip, the tables that tie a format code to them and to *)
(* a script of the encoder, how the code is measured, which row is chosen, *)
(* and which frame rate the display then shows.                            *)
(***************************************************************************)
EXTENDS Integers, Sequences, FiniteSets

Interfaces == {"HDMI", "YPbPr", "CVBS"}

(***************************************************************************)
(* The receiver: the standard and the input it is set to (registers 00 and *)
(* 01, whose high digit 1 is 50 Hz), the output bus (03), the analog front *)
(* end (map 4C, register 00) and the picture settings that common_set and  *)
(* the end of every function write again from the configuration.           *)
(***************************************************************************)
Receiver(std, prim, bus, afe) == [std |-> std, prim |-> prim, bus |-> bus, afe |-> afe]

CVBS_576ix50_mod == Receiver(\h00, \h10, \h00, \h0E)
CVBS_480ix60_mod == Receiver(\h00, \h00, \h00, \h0E)
YPbPr_720px60_mod == Receiver(\h13, \h11, \h80, \h80)
YPbPr_720px50_mod == Receiver(\h13, \h11, \h80, \h80)
YPbPr_1080px50_mod == Receiver(\h1E, \h11, \h80, \h80)
YPbPr_1080ix50_mod == Receiver(\h14, \h11, \h80, \h80)
HDMI_COMP_1080ix50_mod == Receiver(\h14, \h15, \h80, \hFF)
HDMI_COMP_1080ix60_mod == Receiver(\h14, \h05, \h80, \hFF)
HDMI_COMP_1080px50_mod == Receiver(\h16, \h15, \h80, \hFF)
HDMI_COMP_1080px60_mod == Receiver(\h16, \h05, \h80, \hFF)
HDMI_COMP_720px50_mod == Receiver(\h13, \h15, \h80, \hFF)
HDMI_COMP_720px60_mod == Receiver(\h13, \h05, \h80, \hFF)
HDMI_COMP_576ix50_mod == Receiver(\h01, \h15, \h00, \hFF)

\* The reference clock in kHz.
refclk_27MHz == 27000
refclk_27MHz_1_001MHz == 26973
refclk_74_25MHz == 74250
refclk_148_5MHz == 148500

(***************************************************************************)
(* Rows of the mode tables.  A row whose handlers are NULL sets nothing; a *)
(* row the source leaves out with #if 0 is not in its table, so its code   *)
(* finds no row.                                                           *)
(***************************************************************************)
Row(clock, rx, script) == [clock |-> clock, rx |-> rx, script |-> script]
NullRow == [clock |-> 0, rx |-> Receiver(0, 0, 0, 0), script |-> "none"]
\* peripheral before the first format is found
NoRow == [NullRow EXCEPT !.script = "unset"]
Unused(codes) == [x \in codes |-> NullRow]

ypbpr_input_50Hz_mod ==
  [x \in {19, 31, 20} |->
     CASE x = 19 -> Row(refclk_74_25MHz, YPbPr_720px50_mod, "v72050p")
       [] x = 31 -> Row(refclk_148_5MHz, YPbPr_1080px50_mod, "v108050p")
       [] x = 20 -> Row(refclk_74_25MHz, YPbPr_1080ix50_mod, "v108050i")]
ypbpr_input_60_3Hz_mod == Unused({8, 1})
cvbs_input_50Hz_mod == [x \in {21} |-> Row(refclk_27MHz, CVBS_576ix50_mod, "v57650i")]
cvbs_input_60_3Hz_mod == [x \in {6} |-> Row(refclk_27MHz, CVBS_480ix60_mod, "v48060i")]
hdmi_input_50Hz_mod ==
  [x \in {19, 20, 21, 31} |->
     CASE x = 19 -> Row(refclk_74_25MHz, HDMI_COMP_720px50_mod, "v72050p")
       [] x = 20 -> Row(refclk_74_25MHz, HDMI_COMP_1080ix50_mod, "v108050i")
       [] x = 21 -> Row(refclk_27MHz, HDMI_COMP_576ix50_mod, "v57650i")
       [] x = 31 -> Row(refclk_148_5MHz, HDMI_COMP_1080px50_mod, "v108050p")]
hdmi_input_60_3Hz_mod ==
  [x \in {2, 4, 5, 16} |->
     CASE x = 2 -> Row(refclk_27MHz_1_001MHz, YPbPr_720px60_mod, "v72060p")
       [] x = 4 -> Row(refclk_74_25MHz, HDMI_COMP_720px60_mod, "v72060p")
       [] x = 5 -> Row(refclk_74_25MHz, HDMI_COMP_1080ix60_mod, "v108060i")
       [] x = 16 -> Row(refclk_148_5MHz, HDMI_COMP_1080px60_mod, "v108060p")]
hdmi_input_100Hz_mod == Unused({40, 41, 42, 44})
hdmi_input_119d88Hz_mod == Unused({46, 47, 48, 50})
hdmi_input_200Hz_mod == Unused({52, 54})
hdmi_input_239Hz_mod == Unused({56, 58})
hdmi_input_lowfieldrate_mod == Unused({32, 33, 34})

\* The field rate of a format code, 0 for a code that is not in the table: the
\* code reads past its end for such a one, but whatever it finds there, no table
\* of rows has that code.
freq_parse_token(code) ==
  CASE code \in 17 .. 31 \cup 37 .. 39 -> 50
    [] code \in 1 .. 16 \cup {35, 36} -> 60
    [] code \in 40 .. 45 -> 100
    [] code \in 46 .. 51 -> 119
    [] code \in 52 .. 55 -> 200
    [] code \in 56 .. 59 -> 239
    [] code \in 32 .. 34 -> 30
    [] OTHER -> 0

\* Codes that hdmi_config takes for the code before them.
Twins == {18, 22, 24, 26, 28, 30, 11, 13, 15, 43, 45, 53, 55, 57, 59}

\* the row of a code that is not found
Keep == [NullRow EXCEPT !.script = "keep"]
Find(table, code) == IF code \in DOMAIN table THEN table[code] ELSE Keep
\* The row of an HDMI code; a code without one leaves the row as it was.
hdmi_config(opcode, r_ratio) ==
  LET code == IF r_ratio \in Twins THEN r_ratio - 1 ELSE r_ratio IN
  CASE opcode = 50 -> Find(hdmi_input_50Hz_mod, code)
    [] opcode = 60 -> Find(hdmi_input_60_3Hz_mod, code)
    [] opcode = 100 -> Find(hdmi_input_100Hz_mod, code)
    [] opcode = 119 -> Find(hdmi_input_119d88Hz_mod, code)
    [] opcode = 200 -> Find(hdmi_input_200Hz_mod, code)
    [] opcode = 239 -> Find(hdmi_input_239Hz_mod, code)
    [] opcode = 30 -> Find(hdmi_input_lowfieldrate_mod, code)
    [] OTHER -> Keep

cvbs_config(code) ==
  CASE code \in {8, 1, 4, 5} -> cvbs_input_60_3Hz_mod[6]
    [] code \in {2, 3, 6, 7} -> cvbs_input_50Hz_mod[21]
    [] OTHER -> Keep
ypbpr_config(code) ==
  CASE code = 1 -> ypbpr_input_60_3Hz_mod[1]
    [] code = 2 -> ypbpr_input_50Hz_mod[20]
    [] code = 3 -> ypbpr_input_50Hz_mod[19]
    [] code = 4 -> ypbpr_input_60_3Hz_mod[8]
    [] OTHER -> Keep

\* usercode_mod: the row for a code of interface modcod, when the row was
\* old; the analog interfaces look at ypbpr_cvbs, HDMI at r_ratio.
usercode_mod(modcod, ypbpr_cvbs, r_ratio, old) ==
  LET found == CASE modcod = "HDMI" -> hdmi_config(freq_parse_token(r_ratio), r_ratio)
                 [] modcod = "CVBS" -> cvbs_config(ypbpr_cvbs)
                 [] modcod = "YPbPr" -> ypbpr_config(ypbpr_cvbs)
  IN IF found = Keep THEN old ELSE found

(***************************************************************************)
(* Measuring the format.  For YPbPr the receiver gives the length bl of    *)
(* eight lines in its own clock and the lines lcf of a field; for CVBS the *)
(* standard, whether it is interlaced, and the field rate.  -1: no format. *)
(***************************************************************************)
\* bl * 74.25 / 28.63636 / 8, a factor of 0.3241075
calc_v(bl) == IF bl = 0 THEN -1 ELSE (bl * 324 + ((bl * 1075) \div 10000)) \div 1000

pare_YPbPr_HDMI(bl, lcf) ==
  LET len == calc_v(bl) % 65536   \* an unsigned short: -1 becomes 65535
      Lines(n, code) == IF lcf >= n - 20 THEN code ELSE -1
  IN CASE len >= 2620 -> Lines(562, 2)
       [] len >= 2180 /\ len < 2620 -> Lines(562, 1)
       [] len >= 1960 /\ len < 2180 -> Lines(745, 3)
       [] len >= 1630 /\ len < 1960 -> Lines(745, 4)
       [] OTHER -> -1

pare_cvbs(std, interlaced, hz) ==
  CASE std \in {4, 6, 12, 14} ->
         IF hz = 60 THEN (IF interlaced THEN 1 ELSE 8)
         ELSE (IF interlaced THEN 2 ELSE 3)
    [] std \in {0, 2} ->
         IF hz = 60 THEN (IF interlaced THEN 5 ELSE 4)
         ELSE (IF interlaced THEN 6 ELSE 7)
    [] OTHER -> -1

(***************************************************************************)
(* The resolution on display, reduced to the frame rate get_frame_rate     *)
(* finds for it: -1 for a name that is not in its table.                   *)
(***************************************************************************)
\* hdmi_detection: the name of a code, looked up again by the scripts
HdmiFrameRate(code) ==
  CASE code \in {17, 18, 19, 23, 24, 27, 28, 29, 30, 31, 37, 38} -> 50
    [] code \in {20, 21, 22, 25, 26, 33, 39} -> 25
    [] code \in {1, 2, 3, 4, 8, 9, 12, 13, 14, 15, 16, 35, 36} -> 60
    [] code \in {5, 6, 7, 10, 11, 34} -> 30
    [] code = 32 -> 24
    [] OTHER -> -1
AnalogFrameRate(iface, code) ==
  CASE iface = "YPbPr" /\ code = 1 -> 30
    [] iface = "YPbPr" /\ code \in 2 .. 4 -> 25
    [] iface = "CVBS" /\ code \in {8, 1, 4, 5} -> 30
    [] iface = "CVBS" /\ code \in {2, 3, 6, 7} -> 25
    [] OTHER -> -1
\* video_status_lock for HDMI alone
ShownFrameRate_hdmi(iface, code) ==
  IF iface = "HDMI" THEN HdmiFrameRate(code) ELSE 0
\* video_status_lock
ShownFrameRate(iface, code) ==
  IF iface = "HDMI" THEN HdmiFrameRate(code) ELSE AnalogFrameRate(iface, code)
=============================================================================
