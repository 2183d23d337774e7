----------------------------- MODULE UsbSession -----------------------------
(***************************************************************************)
(* How a recording or a playback is started and stopped: the signals among *)
(* the threads of the key handler, lcd_main, thread_for_usb, action_usbop  *)
(* (SIGUSR1, which runs writ_usb or read_usb inside its signal handler)    *)
(* and usb_sig (SIGUSR2, which stores START or STOP for the session).  A   *)
(* signal carries a pointer to a static record, and a signal that is still *)
(* pending absorbs the next one of its kind.  What happens inside a        *)
(* recording is the module Recorder, what happens to the stick UsbHotplug. *)
(***************************************************************************)
EXTENDS Naturals

CONSTANTS
  AutoRec,   \* whether the configuration asks for automatic recording
  Faults     \* adversities this instance allows, see Adversity

\* "quick": the stick is plugged in again before its last session is over
\* "both": the user starts a session while an automatic one is being started
\* "nospace": the stick has no space for a recording
Adversity == {"quick", "both", "nospace"}

ASSUME OptionsAssumption == AutoRec \in BOOLEAN /\ Faults \subseteq Adversity

VARIABLES
  online,           \* usb_dev_info.is_active
  hot,              \* where thread_for_usb is
  record_auto_flag, \* discontrl.record_auto_flag
  lcd,              \* where lcd_main is
  key,              \* where the key handler is
  usb_wrhandler,    \* routine the next SIGUSR1 runs
  usr1,             \* pending SIGUSR1: whose static record it points to
  usr2,             \* whether a SIGUSR2 is pending
  usb_cation,       \* is_start in the record of send_usb_stop_message
  is_start,         \* usb_signal.is_start
  op,               \* where action_usbop is
  what,             \* routine it runs
  payload,          \* whose record that routine was given
  shown,            \* signal_open_colose: the session on the display
  esc,              \* whether the user stopped this session
  cause             \* why the last session ended

usbVars == <<online, hot, record_auto_flag>>
sender  == <<lcd, key>>
signals == <<usb_wrhandler, usr1, usr2, usb_cation, is_start>>
opVars  == <<op, what, payload, shown, esc, cause>>
vars == <<usbVars, sender, signals, opVars>>

Session == {"write", "read"}
May(fault) == fault \in Faults

Init ==
  /\ online = 0 /\ hot = "recv" /\ record_auto_flag = "DEFAULT"
  /\ lcd = "idle" /\ key = "idle"
  /\ usb_wrhandler = "none" /\ usr1 = "none" /\ usr2 = FALSE
  /\ usb_cation = "unset" /\ is_start = "unset"
  /\ op = "idle" /\ what = "none" /\ payload = "none" /\ shown = "none"
  /\ esc = FALSE /\ cause = "none"

\* send_usb_message: the routine is set, then SIGUSR1 is queued.
Start(s) ==
  /\ usb_wrhandler' = s
  /\ usr1' = IF usr1 = "none" THEN s ELSE usr1
  /\ UNCHANGED <<usr2, usb_cation, is_start>>

\* send_usb_stop_message.
Notify(v) ==
  /\ usb_cation' = v /\ usr2' = TRUE
  /\ UNCHANGED <<usb_wrhandler, usr1, is_start>>

\* No session runs and none is being started.
Settled ==
  op = "idle" /\ lcd = "idle" /\ key = "idle" /\ usr1 = "none" /\ record_auto_flag # "AUTO"

-----------------------------------------------------------------------------
(* The stick.                                                              *)

Plug ==
  /\ online = 0 /\ hot = "recv"
  /\ Settled \/ (May("quick") /\ lcd = "idle" /\ record_auto_flag # "AUTO")
  /\ online' = 1 /\ hot' = "prompt"
  /\ UNCHANGED <<record_auto_flag, sender, signals, opVars>>

Unplug ==
  /\ online = 1 /\ hot = "recv" /\ online' = 0
  /\ UNCHANGED <<hot, record_auto_flag, sender, signals, opVars>>

\* Seeded fault: the automatic recording is armed once only.
PromptEndOnce ==
  /\ hot = "prompt" /\ hot' = "recv"
  /\ record_auto_flag' = IF AutoRec /\ record_auto_flag = "DEFAULT" THEN "AUTO" ELSE record_auto_flag
  /\ UNCHANGED <<online, sender, signals, opVars>>

\* The end of delay_time, then auto_usb_test.
PromptEnd ==
  /\ hot = "prompt" /\ hot' = "recv"
  /\ record_auto_flag' = IF AutoRec THEN "AUTO" ELSE record_auto_flag
  /\ UNCHANGED <<online, sender, signals, opVars>>

-----------------------------------------------------------------------------
(* lcd_main: the automatic recording.                                      *)

LcdSee ==
  /\ lcd = "idle" /\ record_auto_flag = "AUTO" /\ lcd' = "seen"
  /\ UNCHANGED <<key, usbVars, signals, opVars>>

\* Seeded fault: the routine is not set before the signal.
LcdSendOnly ==
  /\ lcd = "seen" /\ lcd' = "sent"
  /\ usr1' = (IF usr1 = "none" THEN "write" ELSE usr1)
  /\ UNCHANGED <<usb_wrhandler, usr2, usb_cation, is_start, key, usbVars, opVars>>

LcdSend ==
  /\ lcd = "seen" /\ lcd' = "sent" /\ Start("write")
  /\ UNCHANGED <<key, usbVars, opVars>>

LcdNotify ==
  /\ lcd = "sent" /\ lcd' = "off" /\ Notify("START")
  /\ UNCHANGED <<key, usbVars, opVars>>

\* The flag is disarmed, whatever was written to it meanwhile.
LcdOff ==
  /\ lcd = "off" /\ lcd' = "idle" /\ record_auto_flag' = "OFF"
  /\ UNCHANGED <<key, online, hot, signals, opVars>>

-----------------------------------------------------------------------------
(* The key handler.  It ignores every key during the prompt and every key  *)
(* but esc while a session is displayed.  The user is slower than the two  *)
(* signals of a start and than the STOP at the end of a session.           *)

\* Seeded fault: a playback does not set its routine.
KeyStartOnly(s) ==
  /\ key = "idle" /\ hot # "prompt" /\ shown = "none" /\ online = 1
  /\ op \in {"idle", "flag"}
  /\ May("both") \/ (lcd = "idle" /\ usr1 = "none" /\ record_auto_flag # "AUTO")
  /\ key' = "sent"
  /\ usb_wrhandler' = (IF s = "read" /\ usb_wrhandler # "none" THEN usb_wrhandler ELSE s)
  /\ usr1' = (IF usr1 = "none" THEN s ELSE usr1)
  /\ UNCHANGED <<lcd, usr2, usb_cation, is_start, usbVars, opVars>>

\* usb_rec_enable confirmed with "Yes", or a file chosen for playback.
KeyStart(s) ==
  /\ key = "idle" /\ hot # "prompt" /\ shown = "none" /\ online = 1
  /\ op \in {"idle", "flag"}
  /\ May("both") \/ (lcd = "idle" /\ usr1 = "none" /\ record_auto_flag # "AUTO")
  /\ key' = "sent" /\ Start(s)
  /\ UNCHANGED <<lcd, usbVars, opVars>>

\* Seeded fault: the second signal of a start is forgotten.
KeyNotifyNot ==
  /\ key = "sent" /\ key' = "idle"
  /\ UNCHANGED <<lcd, usbVars, signals, opVars>>

KeyNotify ==
  /\ key = "sent" /\ key' = "idle" /\ Notify("START")
  /\ UNCHANGED <<lcd, usbVars, opVars>>

\* Seeded fault: esc sends the wrong message.
EscStarts ==
  /\ shown # "none" /\ hot # "prompt" /\ key = "idle" /\ lcd # "sent"
  /\ Notify("START") /\ esc' = TRUE
  /\ UNCHANGED <<sender, usbVars, op, what, payload, shown, cause>>

\* Esc while a session is displayed.
Esc ==
  /\ shown # "none" /\ hot # "prompt" /\ key = "idle" /\ lcd # "sent"
  /\ Notify("STOP") /\ esc' = TRUE
  /\ UNCHANGED <<sender, usbVars, op, what, payload, shown, cause>>

-----------------------------------------------------------------------------
(* The two signal handlers.                                                *)

\* usb_signal_hander in usb_sig: the record may have been rewritten meanwhile.
Deliver2 ==
  /\ usr2 /\ usr2' = FALSE /\ is_start' = usb_cation
  /\ UNCHANGED <<usbVars, sender, usb_wrhandler, usr1, usb_cation, opVars>>

\* usb_wr_hander in action_usbop; SIGUSR1 is blocked while it runs.
Deliver1 ==
  /\ op = "idle" /\ usr1 # "none"
  /\ op' = "entry" /\ what' = usb_wrhandler /\ payload' = usr1 /\ usr1' = "none"
  /\ esc' = FALSE /\ cause' = "none"
  /\ UNCHANGED <<usbVars, sender, usb_wrhandler, usr2, usb_cation, is_start, shown>>

\* The checks of writ_usb and read_usb; a playback that fails them just returns.
Enter ==
  /\ op = "entry"
  /\ \/ /\ online = 1 /\ op' = "run" /\ shown' = what
     \/ /\ online = 0 \/ (what = "write" /\ May("nospace"))
        /\ op' = (IF what = "write" THEN "close" ELSE "idle") /\ UNCHANGED shown
  /\ UNCHANGED <<usbVars, sender, signals, what, payload, esc, cause>>

\* A session ends because it was told to, because the stick is gone, or by itself.
\* It asks for its message only after both signals of its start have arrived.
End ==
  /\ op = "run" /\ op' = "close"
  /\ \/ /\ is_start # "START" /\ cause' = "stop"
        /\ ~(usr2 /\ usb_cation = "START") /\ lcd # "sent" /\ key # "sent"
     \/ online = 0 /\ cause' = "gone"
     \/ cause' = "done"
  /\ UNCHANGED <<usbVars, sender, signals, what, payload, shown, esc>>

Close ==
  /\ op = "close" /\ op' = "stop" /\ shown' = "none"
  /\ UNCHANGED <<usbVars, sender, signals, what, payload, esc, cause>>

SendStop ==
  /\ op = "stop" /\ op' = "flag" /\ Notify("STOP")
  /\ UNCHANGED <<usbVars, sender, what, payload, shown, esc, cause>>

\* The second of usb_sop_notify is over.
Flag ==
  /\ op = "flag" /\ op' = "idle"
  /\ record_auto_flag' = (IF what = "write" /\ record_auto_flag = "AUTO"
                          THEN "DEFAULT" ELSE record_auto_flag)
  /\ UNCHANGED <<online, hot, sender, signals, what, payload, shown, esc, cause>>

Lcd == LcdSee \/ LcdSend \/ LcdNotify \/ LcdOff
Op  == Deliver1 \/ Enter \/ Close \/ SendStop \/ Flag
Stopped == End /\ cause' # "done"

Next ==
  \/ Plug \/ Unplug \/ PromptEnd \/ Lcd \/ Op \/ End \/ KeyNotify \/ Deliver2
  \/ \E s \in Session : KeyStart(s)
  \/ Esc

Spec == Init /\ [][Next]_vars

\* The threads run and signals arrive; a session that is told to stop, or whose
\* stick is gone, stops.  Nothing obliges the user or a session that goes on.
FairSpec ==
  /\ Spec
  /\ WF_vars(PromptEnd) /\ WF_vars(Lcd) /\ WF_vars(KeyNotify)
  /\ WF_vars(Deliver2) /\ WF_vars(Op) /\ WF_vars(Stopped)

-----------------------------------------------------------------------------
TypeOK ==
  /\ online \in {0, 1} /\ hot \in {"recv", "prompt"}
  /\ record_auto_flag \in {"DEFAULT", "AUTO", "OFF"}
  /\ lcd \in {"idle", "seen", "sent", "off"} /\ key \in {"idle", "sent"}
  /\ usb_wrhandler \in Session \cup {"none"} /\ usr1 \in Session \cup {"none"}
  /\ usr1 # "none" => usb_wrhandler # "none"
  /\ usr2 \in BOOLEAN /\ usb_cation \in {"unset", "START", "STOP"}
  /\ is_start \in {"unset", "START", "STOP"}
  /\ op \in {"idle", "entry", "run", "close", "stop", "flag"}
  /\ what \in Session \cup {"none"} /\ payload \in Session \cup {"none"}
  /\ shown \in Session \cup {"none"} /\ esc \in BOOLEAN
  /\ cause \in {"none", "stop", "gone", "done"}

\* A session is stopped by a message only if the user stopped that session: the
\* STOP that ends one session never reaches the next.
StopIsMine == op = "close" /\ cause = "stop" => esc

\* A routine is given its own record, so that a recording runs in the recording
\* mode and a playback in the playback mode that was configured.
PayloadMatches == op \in {"entry", "run"} => what = payload

\* Esc ends the session it was pressed for.
EscEnds == (op = "run" /\ esc) ~> (op # "run")

\* lcd1602.c:2964: plugging the stick in arms the automatic recording again, and
\* nothing disarms it before lcd_main has seen it.
AutoKept == [][record_auto_flag = "AUTO" /\ lcd = "idle" => record_auto_flag' = "AUTO"]_vars

\* Automatic recording: a stick that is plugged in is recorded to, or pulled.
AutoStarts == (AutoRec /\ hot = "prompt") ~> (online = 0 \/ (op = "run" /\ what = "write"))
=============================================================================
