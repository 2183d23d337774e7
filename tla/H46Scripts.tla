----------------------------- MODULE H46Scripts -----------------------------
(***************************************************************************)
(* The encoder chip: what the commands sent over the serial line do to it  *)
(* and the scripts that program it for a video format.  A script is a      *)
(* sequence of sections, a section a sequence of commands; most are a      *)
(* register address followed by its value, so a lost command makes the     *)
(* next value land on an earlier register.                                 *)
(*                                                                         *)
(* The scripts take the configuration c and the frame rate f of the format *)
(* on display.  Only the eight scripts a mode table refers to are here.    *)
(***************************************************************************)
EXTENDS Integers, Sequences, SequencesExt

\* GET_HEX of bytes 2 and 1: what "WD%02x%02x" sends of a number
Low16(n) == n % 65536
Byte1(n) == n % 256
Byte2(n) == (n \div 256) % 256

Cmd(name) == [op |-> name, arg |-> 0]
Reg(a, v) == << [op |-> "WA", arg |-> a], [op |-> "WD", arg |-> v] >>
Clear(as) == FlattenSeq([i \in DOMAIN as |-> Reg(as[i], 0)])

(***************************************************************************)
(* The rate of the multiplex in kbit/s, from the bit rates of video and    *)
(* audio in kbit/s and the frame rate.                                     *)
(***************************************************************************)
\* Bits per second of the tables, one packet every ms milliseconds.
sn_calc(ms) == (2 * 1504000 + ms) \div (2 * ms)
\* Video with the headers of a picture; -1 stands for no video.
vn_calc(v, f) ==
  IF v = 0 \/ f = 0 THEN -1
  ELSE v * 1000 + (152 * f + 76) + (1464 * f + 732)
\* Audio in whole packets per frame of 1152 samples at 48 kHz.
an_calc(a) ==
  IF a = 0 THEN -1
  ELSE LET packets == (3 * a + 14) \div 184
       IN (2 * 188000 * packets + 3) \div 6
\* The sum alone, without the twentieth for the packets' headers.
MUX_RATE_bare(v, a, s) == ((v + a + s) * 20 + 10000) \div 20000
MUX_RATE(v, a, s) == ((v + a + s) * 21 + 10000) \div 20000

TableRate == sn_calc(90) + sn_calc(90) + sn_calc(900) + sn_calc(30)
SysRate(c, f) ==
  MUX_RATE(vn_calc(c.vrate, IF f < 0 THEN 30 ELSE f), an_calc(c.arate), TableRate)

(***************************************************************************)
(* The sections the scripts have in common.                                *)
(***************************************************************************)
h64_common_set == << Cmd("CHK"), Cmd("RST"), Cmd("DP") >>
other_pi(enc) == << Cmd(enc) >> \o Reg(\h90000, 0)
audio_init(c) == Reg(\h1804, Low16(c.arate))
ret_opt == << Cmd("EST") >>

Start(enc) ==
  h64_common_set \o other_pi(enc)
  \o Reg(\h1000, \h0100) \o Reg(\h1002, 2) \o Reg(\h1004, 1)
Mux(opt, c, f) ==
  Reg(\h1006, Low16(SysRate(c, f))) \o Reg(\h1008, opt)
  \o Clear(<< \h100C, \h100E, \h1010 >>)
Pids(c) ==
  Reg(\h1016, c.vpid) \o Reg(\h1018, c.apid)
  \o Reg(\h101A, c.pmt) \o Reg(\h101E, c.pcr)
Cyc == Clear(<< \h1110, \h1112, \h1114, \h1116, \h1146 >>)
Rate(mode, c) ==
  Reg(\h1404, mode) \o Reg(\h1406, Low16(c.vrate))
  \o Reg(\h1408, Low16((c.vrate * 2) \div 3))
Gop(c) == Reg(\h1418, 0) \o Reg(\h1420, Low16(c.vrate \div 2))
Prof(opt, c) ==
  Reg(\h15A0, Low16(Byte1(c.profile) * 64 * 256 + Byte1(c.level)))
  \o Reg(\h1422, Low16(c.vrate)) \o Reg(\h1430, opt)
Win(a, b, d, e) ==
  Reg(\h1470, a) \o Reg(\h1472, b) \o Reg(\h1474, d) \o Reg(\h1476, e)
\* The program map the chip inserts: stream type and PID of each stream.
EsVideo(c) ==
  Reg(\h800EC, \h000D) \o Reg(\h80110, \h1B00 + (Byte2(c.vpid) % 32))
  \o Reg(\h80112, Byte1(c.vpid) * 256 + \hF0) \o Reg(\h80114, \h0302)
EsAudio(c) ==
  Reg(\h80118, \h0300 + (Byte2(c.apid) % 32))
  \o Reg(\h8011A, Byte1(c.apid) * 256 + \hF0) \o Reg(\h8011C, 0)
Go(enc, c) == audio_init(c) \o << Cmd(enc) >> \o ret_opt

(***************************************************************************)
(* The scripts, a section for each stretch of registers.                   *)
(***************************************************************************)
\* v72060p_mod
Start_v72060p == Start("ENC1")
Mux_v72060p(c, f) == Mux(0, c, f)
Pids_v72060p(c) == Pids(c)
Cyc_v72060p == Cyc
Rate_v72060p(c) == Rate(c.ratemode, c)
Vid_v72060p(c) == Reg(\h140A, \h1502) \o Reg(\h140E, 1) \o Gop(c)
Prof_v72060p(c) == Prof(0, c)
Es_v72060p(c) == EsVideo(c)
Fin_v72060p(c) == EsAudio(c) \o Go("ENC1", c)
v72060p_mod(c, f) ==
    << Start_v72060p, Mux_v72060p(c, f), Pids_v72060p(c), Cyc_v72060p,
     Rate_v72060p(c), Vid_v72060p(c), Prof_v72060p(c), Es_v72060p(c),
     Fin_v72060p(c) >>

\* v72050p_mod
Start_v72050p == Start("ENC1")
Mux_v72050p(c, f) == Mux(0, c, f)
Pids_v72050p(c) == Pids(c)
Cyc_v72050p == Cyc
Rate_v72050p(c) == Rate(\h0030, c)
Vid_v72050p(c) == Reg(\h140A, \h1503) \o Reg(\h140E, 1) \o Gop(c)
Prof_v72050p(c) == Prof(0, c)
Es_v72050p(c) == EsVideo(c) \o Reg(\h80116, \h0148)
Fin_v72050p(c) == EsAudio(c) \o Go("ENC1", c)
v72050p_mod(c, f) ==
    << Start_v72050p, Mux_v72050p(c, f), Pids_v72050p(c), Cyc_v72050p,
     Rate_v72050p(c), Vid_v72050p(c), Prof_v72050p(c), Es_v72050p(c),
     Fin_v72050p(c) >>

\* v57650i_mod
Start_v57650i == Start("ENC0")
Mux_v57650i(c, f) == Mux(0, c, f)
Pids_v57650i(c) == Pids(c)
Cyc_v57650i == Cyc
Rate_v57650i(c) == Rate(c.ratemode, c)
Vid_v57650i(c) == Reg(\h140A, \h1005) \o Gop(c)
Prof_v57650i(c) == Prof(0, c)
Win_v57650i == Win(\h26, \h7D, \h56, \h07)
Es_v57650i(c) == EsVideo(c) \o Reg(\h80116, \h0148)
Fin_v57650i(c) == EsAudio(c) \o Go("ENC0", c)
v57650i_mod(c, f) ==
    << Start_v57650i, Mux_v57650i(c, f), Pids_v57650i(c), Cyc_v57650i,
     Rate_v57650i(c), Vid_v57650i(c), Prof_v57650i(c), Win_v57650i,
     Es_v57650i(c), Fin_v57650i(c) >>

\* v48060i_mod
Start_v48060i == Start("ENC0")
Mux_v48060i(c, f) == Mux(0, c, f)
Pids_v48060i(c) == Pids(c)
Cyc_v48060i == Cyc
Rate_v48060i(c) == Rate(c.ratemode, c)
Vid_v48060i(c) == Reg(\h140A, \h1004) \o Gop(c)
Prof_v48060i(c) == Prof(0, c)
Win_v48060i == Win(\h26, \h7D, \h56, \h07)
Es_v48060i(c) == EsVideo(c) \o Reg(\h80116, \h0148)
Fin_v48060i(c) == EsAudio(c) \o Go("ENC0", c)
v48060i_mod(c, f) ==
    << Start_v48060i, Mux_v48060i(c, f), Pids_v48060i(c), Cyc_v48060i,
     Rate_v48060i(c), Vid_v48060i(c), Prof_v48060i(c), Win_v48060i,
     Es_v48060i(c), Fin_v48060i(c) >>

\* v108060i_mod
Start_v108060i == Start("ENC0")
Mux_v108060i(c, f) == Mux(\h2000, c, f)
Pids_v108060i(c) == Pids(c)
Cyc_v108060i == Cyc
Rate_v108060i(c) == Rate(c.ratemode, c)
Vid_v108060i(c) == Reg(\h140A, \h1000) \o Reg(\h140E, 1) \o Gop(c)
Prof_v108060i(c) == Prof(2, c)
Win_v108060i == Win(\h10, \h70, \h70, \h10)
Es_v108060i(c) == EsVideo(c) \o Reg(\h80116, \h0148)
Fin_v108060i(c) == EsAudio(c) \o Go("ENC0", c)
v108060i_mod(c, f) ==
    << Start_v108060i, Mux_v108060i(c, f), Pids_v108060i(c), Cyc_v108060i,
     Rate_v108060i(c), Vid_v108060i(c), Prof_v108060i(c), Win_v108060i,
     Es_v108060i(c), Fin_v108060i(c) >>

\* v108050i_mod
Start_v108050i == Start("ENC0")
Mux_v108050i(c, f) == Mux(\h2000, c, f)
Pids_v108050i(c) == Pids(c)
Cyc_v108050i == Cyc
Rate_v108050i(c) == Rate(c.ratemode, c)
Vid_v108050i(c) == Reg(\h140A, \h1001) \o Reg(\h140E, 1) \o Gop(c)
Prof_v108050i(c) == Prof(2, c)
Win_v108050i == Win(\h10, \h70, \h70, \h10)
Es_v108050i(c) == EsVideo(c) \o Reg(\h80116, \h0148)
Fin_v108050i(c) == EsAudio(c) \o Go("ENC0", c)
v108050i_mod(c, f) ==
    << Start_v108050i, Mux_v108050i(c, f), Pids_v108050i(c), Cyc_v108050i,
     Rate_v108050i(c), Vid_v108050i(c), Prof_v108050i(c), Win_v108050i,
     Es_v108050i(c), Fin_v108050i(c) >>

\* v108050p_mod
Start_v108050p == Start("ENC0")
Mux_v108050p(c, f) == Mux(\h2000, c, f)
Pids_v108050p(c) == Pids(c)
Cyc_v108050p == Cyc
Rate_v108050p(c) == Rate(c.ratemode, c)
Vid_v108050p(c) == Reg(\h140A, \h151F) \o Reg(\h140E, 1) \o Gop(c)
Prof_v108050p(c) == Prof(2, c)
Win_v108050p == Win(\h10, \h70, \h70, \h10) \o Clear(<<\h1478, \h147A, \h147C, \h147E>>)
Es_v108050p(c) == EsVideo(c) \o Reg(\h80116, \h0132)
Fin_v108050p(c) == EsAudio(c) \o Go("ENC0", c)
v108050p_mod(c, f) ==
    << Start_v108050p, Mux_v108050p(c, f), Pids_v108050p(c), Cyc_v108050p,
     Rate_v108050p(c), Vid_v108050p(c), Prof_v108050p(c), Win_v108050p,
     Es_v108050p(c), Fin_v108050p(c) >>

\* v108060p_mod
Start_v108060p == Start("ENC0")
Mux_v108060p(c, f) == Mux(\h2000, c, f)
Pids_v108060p(c) == Pids(c)
Cyc_v108060p == Cyc
Rate_v108060p(c) == Rate(c.ratemode, c)
Vid_v108060p(c) == Reg(\h140A, \h151E) \o Reg(\h140E, 1) \o Gop(c)
Prof_v108060p(c) == Prof(2, c)
Win_v108060p == Win(\h10, \h70, \h70, \h10) \o Clear(<<\h1478, \h147A, \h147C, \h147E>>)
Es_v108060p(c) == EsVideo(c) \o Reg(\h80116, \h0142)
Fin_v108060p(c) == EsAudio(c) \o Go("ENC0", c)
v108060p_mod(c, f) ==
    << Start_v108060p, Mux_v108060p(c, f), Pids_v108060p(c), Cyc_v108060p,
     Rate_v108060p(c), Vid_v108060p(c), Prof_v108060p(c), Win_v108060p,
     Es_v108060p(c), Fin_v108060p(c) >>

\* Which script a mode table names.
Script(mode, c, f) ==
  CASE mode = "v72060p" -> v72060p_mod(c, f)
    [] mode = "v72050p" -> v72050p_mod(c, f)
    [] mode = "v57650i" -> v57650i_mod(c, f)
    [] mode = "v48060i" -> v48060i_mod(c, f)
    [] mode = "v108060i" -> v108060i_mod(c, f)
    [] mode = "v108050i" -> v108050i_mod(c, f)
    [] mode = "v108050p" -> v108050p_mod(c, f)
    [] mode = "v108060p" -> v108060p_mod(c, f)
    [] OTHER -> << >>

(***************************************************************************)
(* The chip, as the scripts use it.  Its registers are a function of those *)
(* written since the last reset; a value goes to the address sent before.  *)
(***************************************************************************)
Blank == [reg |-> << >>, at |-> 0, enc |-> "none", run |-> FALSE]

\* What a sequence of commands leaves.  A reset forgets all that was before
\* it; a register keeps the last value sent for it.
Latest(S) == CHOOSE i \in S : \A j \in S : j <= i
Run(chip, commands) ==
  LET Sent(ops) == {i \in DOMAIN commands : commands[i].op \in ops}
      reset == IF Sent({"RST"}) = {} THEN 0 ELSE Latest(Sent({"RST"}))
      from == IF reset = 0 THEN chip ELSE Blank
      After(ops) == {i \in Sent(ops) : i > reset}
      addressing == After({"WA"})
      \* the address in force at command i
      At(i) == LET before == {j \in addressing : j < i} IN
               IF before = {} THEN from.at ELSE commands[Latest(before)].arg
      target == [i \in After({"WD"}) |-> At(i)]
      data == {i \in DOMAIN target : target[i] # 0}
      Writes(a) == {i \in data : target[i] = a}
  IN [reg |-> [a \in DOMAIN from.reg \cup {target[i] : i \in data} |->
                 IF Writes(a) = {} THEN from.reg[a]
                 ELSE commands[Latest(Writes(a))].arg],
      at |-> At(Len(commands) + 1),
      enc |-> LET e == After({"ENC0", "ENC1"}) IN
              IF e = {} THEN from.enc ELSE commands[Latest(e)].op,
      run |-> from.run \/ After({"EST"}) # {}]

\* The chip after the whole script.
Image(mode, c, f) == Run(Blank, FlattenSeq(Script(mode, c, f)))
=============================================================================
