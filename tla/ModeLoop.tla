------------------------------ MODULE ModeLoop ------------------------------
(***************************************************************************)
(* The main loop: it watches the format of the video input and, when the   *)
(* format changes or a save of the menu asks for it, programs the clock,   *)
(* the receiver, the encoder, the modulator and the multiplexer from the   *)
(* configuration.  Saves run in signal handlers, on the main thread or on  *)
(* another one, and program the encoder themselves over the same serial    *)
(* line; a lock drops keys while the main thread programs, and the boot    *)
(* timer drops the lock after four seconds.                                *)
(***************************************************************************)
EXTENDS H46Scripts, VideoFormats, MenuSaves

CONSTANTS
  Inputs,     \* for each interface, what its receiver may report
  HdmiCode,   \* codes the HDMI port reports while another interface is used
  Setting,    \* for each field of the encoder, its two values
  Saves,      \* the entries of the menu that are used
  MaxEvents,  \* bound: changes of the input, saves and lost commands; nothing
              \* follows a lost command
  MaxSaves,   \* bound: saves
  MaxLost     \* bound: commands lost on the serial line

ASSUME SavesAssumption == Saves \subseteq Menu
ASSUME BoundsAssumption == {MaxEvents, MaxSaves, MaxLost} \subseteq Nat
\* A code of the HDMI receiver is the value of a register.
Codes == 0 .. 255
ASSUME CodesAssumption ==
  HdmiCode \subseteq Codes /\ \A s \in Inputs["HDMI"] : s[1] \in Codes

Handlers == {1, 2}   \* 1 runs on the main thread, 2 on another one
Main == 0
Values == {1, 2}
Idle == [step |-> "idle"]
\* A section under way or received: of which script, with which settings and
\* frame rate, and which of its commands was lost, 0 for none.
Part(mode, section) ==
  [mode |-> mode, section |-> section, conf |-> << >>, rate |-> 0, lost |-> 0]
NotProgramming == Part("none", 0)
TableFields == {"vpid", "apid", "pmt", "pcr", "num", "si", "rf"}

VARIABLES
  iface,      \* encoder_video_interface
  sig,        \* what is on the input
  file,       \* the configuration file
  mem,        \* the configuration in memory
  first_vic, vic_code, shown,
  bak,        \* b_val, bakcode or bakcodecvbs: the code programmed last
  pid_status, row, gpio_cfg,
  clk, rx, dac, tables, bus,
  chip,       \* the sections the encoder has received since its last reset
  menu_exit,  \* the lock
  progr_bar, progr_bar_flag,
  mpc,        \* where the main loop is, and the code it has read
  hpc,        \* where each handler is, and the save it performs
  at,         \* the section whoever programs the encoder is about to send
  owner, overlap, lost,   \* of the last script: who, was it mixed, what it lost
  early, second,          \* the timer dropped a held lock; two saves at once
  events, saves

input == <<iface, sig>>
conf == <<file, mem>>
loop == <<first_vic, vic_code, bak, row, gpio_cfg, mpc>>
boards == <<clk, rx, dac, tables, bus>>
line == <<chip, at, owner, overlap, lost>>
boot == <<menu_exit, progr_bar, progr_bar_flag, early>>
vars == <<input, conf, loop, boards, line, boot, pid_status, shown, hpc, second,
          events, saves>>

EncoderConf(m) == [x \in EncoderFields |-> Setting[x][m[x]]]
\* The number of commands in each section of a script.
Modes == {"v72060p", "v72050p", "v57650i", "v48060i",
          "v108060i", "v108050i", "v108050p", "v108060p"}
Shape == [mode \in Modes |->
            LET script == Script(mode, [x \in EncoderFields |-> Setting[x][1]], 30)
            IN [i \in DOMAIN script |-> Len(script[i])]]
Parts == UNION {{Part(mode, i) : i \in DOMAIN Shape[mode]} : mode \in Modes}
Only(m, fields) == [x \in fields |-> m[x]]

\* The code the receiver's registers stand for.
Reading ==
  CASE iface = "HDMI" -> sig[1]
    [] iface = "YPbPr" -> pare_YPbPr_HDMI(sig[1], sig[2])
    [] iface = "CVBS" -> pare_cvbs(sig[1], sig[2], sig[3])

Init ==
  /\ iface \in Interfaces /\ sig \in Inputs[iface]
  /\ file = [x \in Fields |-> 1] /\ mem = file
  /\ first_vic = 0 /\ vic_code = 0 /\ shown = -1 /\ bak = -1 /\ pid_status = 0
  /\ row = NoRow /\ gpio_cfg = FALSE
  \* init_mode_recognition
  /\ clk = IF iface = "YPbPr" THEN refclk_27MHz ELSE refclk_74_25MHz
  /\ rx = [set |-> CASE iface = "HDMI" -> HDMI_COMP_1080ix50_mod
                     [] iface = "YPbPr" -> YPbPr_720px60_mod
                     [] iface = "CVBS" -> CVBS_576ix50_mod,
           picture |-> mem["picture"]]
  /\ chip = << >> /\ dac = [rf |-> 0, rfon |-> 0]
  /\ tables = [x \in TableFields |-> 0]
  /\ bus = [pmt |-> 0, rf |-> 0]
  /\ menu_exit = FALSE /\ progr_bar = 0 /\ progr_bar_flag = FALSE
  /\ mpc = [step |-> "poll", code |-> -1, own |-> TRUE] /\ hpc = [h \in Handlers |-> Idle]
  /\ at = [p \in {Main} \cup Handlers |-> NotProgramming]
  /\ owner = Main /\ overlap = FALSE /\ lost = 0
  /\ early = FALSE /\ second = FALSE /\ events = 0 /\ saves = 0

(***************************************************************************)
(* The serial line to the encoder, used by the main loop and by the saves. *)
(***************************************************************************)
Programming(p) == at[p].section > 0
OtherProgramming(p) == \E q \in DOMAIN at \ {p} : Programming(q)

\* What two scripts leave when they are mixed is not followed further.
Mixed == << Part("mixed", 0) >>

\* A script that starts without the hardware reset.
PulseReset_skipped(p) ==
  /\ overlap' = OtherProgramming(p)
  /\ chip' = IF overlap' THEN Mixed ELSE chip
\* hdmi_gpio_dfg, ypbpr_cvbs_cfg: the hardware reset of the encoder
PulseReset(p) ==
  /\ overlap' = OtherProgramming(p)
  /\ chip' = IF overlap' THEN Mixed ELSE << >>

\* A script that trusts the settings in memory.
BeginScript_stale(p, mode) ==
  /\ at' = [at EXCEPT ![p] = Part(mode, 1)]
  /\ owner' = p /\ overlap' = (chip = Mixed) /\ lost' = 0
  /\ mem' = mem
\* A script begins by reading the file again.  After a reset that fell into
\* another script the chip is not followed until the next reset.
BeginScript(p, mode) ==
  /\ at' = [at EXCEPT ![p] = Part(mode, 1)]
  /\ owner' = p /\ overlap' = (chip = Mixed) /\ lost' = 0
  /\ mem' = file

Reset == 2   \* the place of RST in the first section of a script

\* A section is sent and received, or one of its commands is lost.
NextSection(p) ==
  LET part(i) == [mode |-> at[p].mode, section |-> at[p].section,
                  conf |-> Only(mem, EncoderFields),
                  rate |-> IF at[p].section = 2 THEN shown ELSE 0, lost |-> i]
      Receive(i) == chip' = IF overlap \/ owner # p THEN Mixed
                             ELSE IF at[p].section = 1 /\ i # Reset THEN << part(i) >>
                             ELSE Append(chip, part(i))
      script == Shape[at[p].mode]
  IN
  /\ Programming(p)
  /\ \/ Receive(0) /\ UNCHANGED <<lost, events>>
     \/ /\ lost < MaxLost /\ events < MaxEvents
        /\ \E i \in 1 .. script[at[p].section] : Receive(i)
        /\ lost' = lost + 1 /\ events' = MaxEvents
  /\ at' = [at EXCEPT ![p] = IF @.section = Len(script) THEN NotProgramming
                              ELSE Part(@.mode, @.section + 1)]
  /\ overlap' = (overlap \/ owner # p)
  /\ UNCHANGED owner

(***************************************************************************)
(* The main loop.  A handler that runs on the main thread stops it.        *)
(***************************************************************************)
MainSteps ==
  {"poll", "ack", "read_hdmi", "select", "lock", "receiver", "script", "dac", "bus"}
\* The steps of the loop before it has locked the menu.
Unlocked == {"poll", "ack", "read_hdmi", "select"}
MainAt(step) == mpc.step = step /\ hpc[1] = Idle
GoTo(step) == mpc' = [mpc EXCEPT !.step = step]

\* The head of the loop: a save resets what was programmed last.
Poll ==
  /\ MainAt("poll") /\ pid_status = 1
  /\ bak' = -1 /\ GoTo("ack")
  /\ UNCHANGED <<input, conf, first_vic, vic_code, row, gpio_cfg, boards, line, boot,
                 pid_status, shown, hpc, second, events, saves>>

\* The request is left standing.
Ack_forgotten ==
  /\ MainAt("ack")
  /\ pid_status' = pid_status /\ GoTo("read_hdmi")
  /\ UNCHANGED <<input, conf, first_vic, vic_code, bak, row, gpio_cfg, boards, line,
                 boot, shown, hpc, second, events, saves>>
Ack ==
  /\ MainAt("ack")
  /\ pid_status' = 2 /\ GoTo("read_hdmi")
  /\ UNCHANGED <<input, conf, first_vic, vic_code, bak, row, gpio_cfg, boards, line,
                 boot, shown, hpc, second, events, saves>>

\* sig_vic and what follows: a code counts when it was read twice.  The code
\* is own unless the HDMI branch read it while another interface is used.
Confirm(code, own) ==
  /\ first_vic' = code
  /\ IF first_vic # code \/ code < 0 \/ (own /\ code = bak)
     THEN GoTo("poll") /\ UNCHANGED <<bak, vic_code>>
     ELSE /\ bak' = IF own THEN code ELSE bak
          /\ vic_code' = code
          /\ mpc' = [step |-> "select", code |-> code, own |-> own]

\* read_vic, pare_YPbPr_HDMI, pare_cvbs; the last sets the clock first.
ReadFormat ==
  /\ MainAt("poll") /\ pid_status # 1
  /\ clk' = IF iface = "CVBS" THEN refclk_27MHz ELSE clk
  /\ Confirm(Reading, TRUE)
  /\ UNCHANGED <<input, conf, row, gpio_cfg, rx, dac, tables, bus, line, boot,
                 pid_status, shown, hpc, second, events, saves>>

\* After a save the HDMI branch is taken whatever the interface is.
ReadHdmi ==
  /\ MainAt("read_hdmi")
  /\ IF iface = "HDMI" THEN Confirm(Reading, TRUE)
     ELSE \E code \in HdmiCode : Confirm(code, FALSE)
  /\ UNCHANGED <<input, conf, row, gpio_cfg, boards, line, boot,
                 pid_status, shown, hpc, second, events, saves>>

\* usercode_mod; change_seach returns when there is no row yet.
Select ==
  /\ MainAt("select")
  /\ PulseReset(Main) /\ gpio_cfg' = TRUE
  /\ row' = usercode_mod(iface, IF mpc.own THEN mpc.code ELSE 0,
                         IF mpc.code <= 0 THEN 20 ELSE mpc.code, row)
  /\ GoTo(IF row'.script = "unset" THEN "poll" ELSE "lock")
  /\ UNCHANGED <<input, conf, first_vic, vic_code, bak, boards, at, owner, lost, boot,
                 pid_status, shown, hpc, second, events, saves>>

\* peripheral_dev_config: lock, mask the key signal, clock
Lock ==
  /\ MainAt("lock")
  /\ IF menu_exit THEN GoTo("poll") /\ UNCHANGED <<menu_exit, clk>>
     ELSE /\ menu_exit' = TRUE
          /\ clk' = IF row.clock = 0 THEN clk ELSE row.clock
          /\ GoTo("receiver")
  /\ UNCHANGED <<input, conf, first_vic, vic_code, bak, row, gpio_cfg, rx, dac, tables,
                 bus, line, progr_bar, progr_bar_flag, early, pid_status, shown, hpc,
                 second, events, saves>>

SetReceiver ==
  /\ MainAt("receiver")
  /\ rx' = IF row.script = "none" THEN rx
           ELSE [set |-> row.rx, picture |-> mem["picture"]]
  /\ IF row.script = "none"
     THEN GoTo("dac") /\ UNCHANGED <<mem, at, owner, overlap, lost>>
     ELSE GoTo("script") /\ BeginScript(Main, row.script)
  /\ UNCHANGED <<input, file, first_vic, vic_code, bak, row, gpio_cfg, clk, dac, tables,
                 bus, chip, boot, pid_status, shown, hpc, second, events, saves>>

MainSection ==
  /\ MainAt("script")
  /\ NextSection(Main)
  /\ GoTo(IF at'[Main].section = 0 THEN "dac" ELSE "script")
  /\ UNCHANGED <<input, conf, first_vic, vic_code, bak, row, gpio_cfg, boards, boot,
                 pid_status, shown, hpc, second, saves>>

\* ad9789_configuration
SetDac ==
  /\ MainAt("dac")
  /\ mem' = file /\ dac' = Only(file, {"rf", "rfon"})
  /\ GoTo("bus")
  /\ UNCHANGED <<input, file, first_vic, vic_code, bak, row, gpio_cfg, clk, rx, tables,
                 bus, line, boot, pid_status, shown, hpc, second, events, saves>>

\* init_bus, then the signal is let through and the lock is dropped
InitBus ==
  /\ MainAt("bus")
  /\ tables' = Only(mem, TableFields)
  /\ bus' = Only(mem, {"pmt", "rf"})
  /\ progr_bar' = 64 /\ menu_exit' = FALSE
  /\ GoTo("poll")
  /\ UNCHANGED <<input, conf, first_vic, vic_code, bak, row, gpio_cfg, clk, rx, dac, line,
                 progr_bar_flag, early, pid_status, shown, hpc, second, events, saves>>

MainStep ==
  \/ Poll \/ Ack \/ ReadFormat \/ ReadHdmi \/ Select \/ Lock \/ SetReceiver
  \/ MainSection \/ SetDac \/ InitBus

(***************************************************************************)
(* The keys.  ChangeMenu drops a key while the lock is held; Change_Menu   *)
(* ignores it until the boot timer has ended.  The signal is delivered to  *)
(* the main thread unless it is masked there or already being handled.     *)
(***************************************************************************)
Masked == mpc.step \in {"receiver", "script", "dac", "bus"}

\* A key that does not look at the lock.
Key_unlocked ==
  LET h == IF ~Masked /\ hpc[1] = Idle THEN 1 ELSE 2 IN
  /\ progr_bar_flag /\ hpc[h] = Idle
  /\ saves < MaxSaves /\ events < MaxEvents
  /\ \E s \in Saves : hpc' = [hpc EXCEPT ![h] = [step |-> "store", save |-> s]]
  /\ second' = (second \/ \E g \in Handlers : hpc[g] # Idle)
  /\ saves' = saves + 1 /\ events' = events + 1
  /\ UNCHANGED <<input, conf, loop, boards, line, boot, pid_status, shown>>
Key ==
  LET h == IF ~Masked /\ hpc[1] = Idle THEN 1 ELSE 2 IN
  /\ ~menu_exit /\ progr_bar_flag /\ hpc[h] = Idle
  /\ saves < MaxSaves /\ events < MaxEvents
  /\ \E s \in Saves : hpc' = [hpc EXCEPT ![h] = [step |-> "store", save |-> s]]
  /\ second' = (second \/ \E g \in Handlers : hpc[g] # Idle)
  /\ saves' = saves + 1 /\ events' = events + 1
  /\ UNCHANGED <<input, conf, loop, boards, line, boot, pid_status, shown>>

HandlerSteps == {"store", "pulse", "script", "send", "upload", "tune", "flag"}
Does(h, step) == hpc[h].step = step
\* What a save does after step, in the order of MenuSaves.
After(s, step) ==
  LET To(x) == [step |-> x, save |-> s]
      flag == IF s.flag THEN To("flag") ELSE Idle
      tune == IF s.ad9789 THEN To("tune") ELSE flag
      upload == IF s.gener_table THEN To("upload") ELSE tune
  IN CASE step = "store" -> IF s.pr_cfg THEN To("pulse") ELSE upload
       [] step = "pulse" -> To("script")
       [] step = "script" -> upload
       [] step = "upload" -> tune
       [] step = "tune" -> flag
       [] step = "flag" -> Idle
Leave(h) == hpc' = [hpc EXCEPT ![h] = After(@.save, @.step)]

\* config_set_config, for an entry that stores, and, for most saves, config_read
Store(h) ==
  /\ Does(h, "store")
  /\ file' = [x \in Fields |-> IF x = hpc[h].save.field THEN 3 - file[x] ELSE file[x]]
  /\ mem' = IF hpc[h].save.reads THEN file' ELSE mem
  /\ Leave(h)
  /\ UNCHANGED <<input, loop, boards, line, boot, pid_status, shown, second, events, saves>>

\* pr_cfg: the reset, once usercode_mod has said how, then the script
Pulse(h) ==
  /\ Does(h, "pulse")
  /\ IF gpio_cfg THEN PulseReset(h) ELSE UNCHANGED <<chip, overlap>>
  /\ Leave(h)
  /\ UNCHANGED <<input, conf, loop, boards, at, owner, lost, boot, pid_status, shown,
                 second, events, saves>>

HandlerBegin(h) ==
  /\ Does(h, "script")
  /\ IF row.script \in {"unset", "none"}
     THEN Leave(h) /\ UNCHANGED <<mem, at, owner, overlap, lost>>
     ELSE BeginScript(h, row.script) /\ hpc' = [hpc EXCEPT ![h].step = "send"]
  /\ UNCHANGED <<input, file, loop, boards, chip, boot, pid_status, shown, second,
                 events, saves>>

HandlerSection(h) ==
  /\ Does(h, "send")
  /\ NextSection(h)
  /\ hpc' = [hpc EXCEPT ![h] =
               IF at'[h].section = 0 THEN After(@.save, "script") ELSE @]
  /\ UNCHANGED <<input, conf, loop, boards, boot, pid_status, shown, second, saves>>

Upload(h) ==
  /\ Does(h, "upload")
  /\ tables' = Only(mem, TableFields)
  /\ Leave(h)
  /\ UNCHANGED <<input, conf, loop, clk, rx, dac, bus, line, boot, pid_status, shown,
                 second, events, saves>>

Tune(h) ==
  /\ Does(h, "tune")
  /\ mem' = file /\ dac' = Only(file, {"rf", "rfon"})
  /\ Leave(h)
  /\ UNCHANGED <<input, file, loop, clk, rx, tables, bus, line, boot, pid_status, shown,
                 second, events, saves>>

Flag(h) ==
  /\ Does(h, "flag")
  /\ pid_status' = 1
  /\ Leave(h)
  /\ UNCHANGED <<input, conf, loop, boards, line, boot, shown, second, events, saves>>

HandlerStep(h) ==
  \/ Store(h) \/ Pulse(h) \/ HandlerBegin(h) \/ HandlerSection(h)
  \/ Upload(h) \/ Tune(h) \/ Flag(h)

(***************************************************************************)
(* The display thread.                                                     *)
(***************************************************************************)
\* sys_start_timer: it waits for the first programming, four seconds at most
BootDone ==
  /\ ~progr_bar_flag /\ progr_bar = 64
  /\ progr_bar_flag' = TRUE
  /\ UNCHANGED <<input, conf, loop, boards, line, menu_exit, progr_bar, early,
                 pid_status, shown, hpc, second, events, saves>>
BootTimeout ==
  /\ ~progr_bar_flag /\ progr_bar # 64
  /\ progr_bar' = 64 /\ menu_exit' = FALSE /\ progr_bar_flag' = TRUE
  /\ early' = menu_exit
  /\ UNCHANGED <<input, conf, loop, boards, line, pid_status, shown, hpc, second,
                 events, saves>>

\* video_status_lock, which only runs while the page of the input is shown
Show ==
  /\ ~menu_exit /\ progr_bar_flag
  /\ shown' = ShownFrameRate(iface, vic_code)
  /\ UNCHANGED <<input, conf, loop, boards, line, boot, pid_status, hpc, second,
                 events, saves>>

\* The source of the video changes.
Replug ==
  /\ events < MaxEvents
  /\ sig' \in Inputs[iface] \ {sig} /\ events' = events + 1
  /\ UNCHANGED <<iface, conf, loop, boards, line, boot, pid_status, shown, hpc, second,
                 saves>>

Boot == BootDone \/ BootTimeout
Next ==
  \/ MainStep \/ \E h \in Handlers : HandlerStep(h)
  \/ Boot \/ Show \/ Key \/ Replug

\* The threads run; nobody has to press a key, look at the page of the input
\* or change the source.
Spec ==
  /\ Init /\ [][Next]_vars
  /\ WF_vars(MainStep) /\ WF_vars(Boot)
  /\ \A h \in Handlers : WF_vars(HandlerStep(h))

(***************************************************************************)
(* Properties.                                                             *)
(***************************************************************************)
TypeOK ==
  /\ iface \in Interfaces /\ sig \in Inputs[iface]
  /\ {file, mem} \subseteq [Fields -> Values]
  /\ {first_vic, vic_code, bak} \subseteq {-1} \cup Codes
  /\ shown \in {-1, 24, 25, 30, 50, 60} /\ pid_status \in 0 .. 2
  /\ {menu_exit, progr_bar_flag, gpio_cfg, overlap, early, second} \subseteq BOOLEAN
  /\ mpc \in [step : MainSteps, code : {-1} \cup Codes, own : BOOLEAN]
  /\ row.script \in Modes \cup {"none"} \/ (row.script = "unset" /\ mpc.step \in Unlocked)
  /\ at \in [{Main} \cup Handlers -> {NotProgramming} \cup Parts]
  /\ owner \in DOMAIN at /\ lost \in 0 .. MaxLost
  /\ hpc \in [Handlers -> {Idle} \cup [step : HandlerSteps, save : Saves]]

\* Nothing is going on and the loop has seen what is on the input.
Quiet ==
  /\ mpc.step = "poll" /\ pid_status # 1 /\ progr_bar_flag /\ ~menu_exit
  /\ \A h \in Handlers : hpc[h] = Idle
  /\ first_vic = Reading /\ (Reading >= 0 => bak = Reading)
\* There is a format, and a row was found for one.
Programmed == Reading >= 0 /\ row.script # "unset"

\* The registers of the encoder.
Commands(part) ==
  LET all == Script(part.mode, EncoderConf(part.conf), part.rate)[part.section] IN
  IF part.lost = 0 THEN all ELSE RemoveAt(all, part.lost)
Encoder == Run(Blank, FlattenSeq([i \in DOMAIN chip |-> Commands(chip[i])]))

\* The registers it should have, with the frame rate its script was given.
RateGiven ==
  LET muxes == {i \in DOMAIN chip : chip[i].section = 2}
  IN IF muxes = {} THEN -1 ELSE chip[Latest(muxes)].rate
Wanted == Image(row.script, EncoderConf(file), RateGiven)

\* When all is quiet every chip holds what the configuration file says, for
\* the row of the format on the input: a save is never forgotten, whenever
\* the signal handler ran and whichever of the two ways it was applied.
\* The encoder is excepted when two scripts were mixed or a command lost.
\* A row whose functions are NULL (1080i60 and 720p60 of YPbPr, HDMI at 24 to
\* 30 and above 60 Hz) sets neither clock nor receiver, and resets the encoder
\* without a script.
Synced ==
  Quiet /\ Programmed =>
    /\ row = usercode_mod(iface, bak, IF bak <= 0 THEN 20 ELSE bak, row)
    /\ ~overlap /\ lost = 0 => Encoder = Wanted
    /\ row.script # "none" =>
         clk = row.clock /\ rx = [set |-> row.rx, picture |-> file["picture"]]
    /\ tables = Only(file, TableFields) /\ bus = Only(file, DOMAIN bus)
    /\ dac = Only(file, DOMAIN dac)

\* Two scripts are never mixed on the serial line, unless the boot timer has
\* dropped a lock that was held or a second key was handled during a save.
OneProgrammer == overlap => early \/ second

\* A lost command leaves at most two registers wrong, the one whose address
\* was lost and the one addressed before it, and never a setting of an
\* earlier format: the hardware reset comes before every script.
Differing(a, b) ==
  {x \in DOMAIN a \cup DOMAIN b :
     ~(x \in DOMAIN a /\ x \in DOMAIN b /\ a[x] = b[x])}
LossContained ==
  Quiet /\ Programmed /\ ~overlap =>
    Cardinality(Differing(Encoder.reg, Wanted.reg)) <= 2 * lost

\* The rate of the multiplex covers video, audio and tables of the format on
\* the input, although it was computed for the frame rate on display, which
\* is often that of the format before.  With a row whose functions are NULL
\* the encoder is reset and multiplexes nothing.
Needed(f) ==
  vn_calc(EncoderConf(file).vrate, f) + an_calc(EncoderConf(file).arate) + TableRate
MuxCovers ==
  Quiet /\ Programmed /\ ~overlap /\ lost = 0 /\ row.script # "none" =>
    LET f == ShownFrameRate(iface, bak) IN
    Encoder.reg[\h1006] * 1000 >= Needed(IF f < 0 THEN 25 ELSE f)

\* Once nothing more happens outside, the loop comes to rest with every save
\* taken over and the keys unlocked.
Settles == <>[]Quiet
=============================================================================
