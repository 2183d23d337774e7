----------------------------- MODULE MCModeLoop -----------------------------
(* A small instance of ModeLoop. *)
EXTENDS ModeLoop

\* For each interface: nothing, and formats of different rows and rates; HDMI 17 has no
\* row, and the row of 32 sets nothing.
MCInputs ==
  [HDMI |-> {<<31>>, <<4>>, <<32>>, <<17>>},
   YPbPr |-> {<<0, 0>>, <<6400, 745>>},
   CVBS |-> {<<4, TRUE, 60>>}]

MCSetting ==
  [vpid |-> <<256, 513>>, apid |-> <<257, 514>>, pmt |-> <<258, 515>>,
   pcr |-> <<259, 516>>, vrate |-> <<1500, 8000>>, arate |-> <<128, 384>>,
   ratemode |-> <<48, 49>>, profile |-> <<1, 2>>, level |-> <<40, 31>>]

\* The lowest bit rate the menu accepts (ml_slow.cfg).
MCSlow == [MCSetting EXCEPT !.vrate = <<500, 8000>>]

\* One save that only asks the main loop, one that programs by itself and one
\* of the modulator
MCSaves ==
  {text_videotare_save, text_networkid_save, rf_comm}
=============================================================================
