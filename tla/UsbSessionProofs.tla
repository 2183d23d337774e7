------------------------- MODULE UsbSessionProofs -------------------------
(***************************************************************************)
(* What holds of the signals by which sessions are started and stopped,    *)
(* for every configuration and every set of adversities under which it can *)
(* hold: the runs of UsbSession refute it for the others.                  *)
(***************************************************************************)
EXTENDS UsbSession, TLAPS

\* What keeps two starts apart: the user does not start a session while an automatic one
\* is being started, and with automatic recording the stick is not plugged in again
\* before its last session is over.
Gentle == {"nospace"} \cup IF AutoRec THEN {} ELSE {"quick"}

-----------------------------------------------------------------------------
(* Types.                                                                  *)

\* The set starts with every variable in its range.
LEMMA TypeInit == Init => TypeOK
BY DEF Init, TypeOK, Session

\* No step leaves the range of a variable.
LEMMA TypeStep == TypeOK /\ [Next]_vars => TypeOK'
<1> SUFFICES ASSUME TypeOK, [Next]_vars PROVE TypeOK'
  OBVIOUS
<1> USE DEF TypeOK, Session, usbVars, sender, signals, opVars, Start, Notify
<1>1. CASE Plug
  BY <1>1 DEF Plug
<1>2. CASE Unplug
  BY <1>2 DEF Unplug
<1>3. CASE PromptEnd
  BY <1>3 DEF PromptEnd
<1>4. CASE LcdSee
  BY <1>4 DEF LcdSee
<1>5. CASE LcdSend
  BY <1>5 DEF LcdSend
<1>6. CASE LcdNotify
  BY <1>6 DEF LcdNotify
<1>7. CASE LcdOff
  BY <1>7 DEF LcdOff
<1>8. CASE Deliver1
  <2>1. /\ UNCHANGED <<online, hot, record_auto_flag, lcd, key, usb_wrhandler, usr2, usb_cation,
                    is_start, shown>>
        /\ op' = "entry" /\ esc' = FALSE /\ cause' = "none" /\ usr1' = "none"
        /\ what' = usb_wrhandler /\ payload' = usr1
    BY <1>8 DEF Deliver1
  <2>2. (what \in Session \cup {"none"} /\ payload \in Session \cup {"none"})'
    BY <2>1
  <2>3. (usr2 \in BOOLEAN /\ esc \in BOOLEAN)'
    BY <2>1
  <2>4. (/\ online \in {0, 1} /\ hot \in {"recv", "prompt"}
         /\ record_auto_flag \in {"DEFAULT", "AUTO", "OFF"}
         /\ lcd \in {"idle", "seen", "sent", "off"} /\ key \in {"idle", "sent"})'
    BY <2>1
  <2>5. (/\ usb_wrhandler \in Session \cup {"none"} /\ usr1 \in Session \cup {"none"}
         /\ usr1 # "none" => usb_wrhandler # "none"
         /\ usb_cation \in {"unset", "START", "STOP"} /\ is_start \in {"unset", "START", "STOP"}
         /\ shown \in Session \cup {"none"})'
    BY <2>1
  <2>6. QED
    BY <2>1, <2>2, <2>3, <2>4, <2>5
<1>9. CASE Enter
  BY <1>9 DEF Enter
<1>10. CASE Close
  BY <1>10 DEF Close
<1>11. CASE SendStop
  BY <1>11 DEF SendStop
<1>12. CASE Flag
  BY <1>12 DEF Flag
<1>13. CASE End
  BY <1>13 DEF End
<1>14. CASE KeyNotify
  BY <1>14 DEF KeyNotify
<1>15. CASE Deliver2
  <2>1. /\ UNCHANGED <<online, hot, record_auto_flag, lcd, key, usb_wrhandler, usr1, usb_cation,
                    op, what, payload, shown, esc, cause>>
        /\ usr2' = FALSE /\ is_start' = usb_cation
    BY <1>15 DEF Deliver2
  <2>2. (usr2 \in BOOLEAN /\ esc \in BOOLEAN)'
    BY <2>1
  <2>3. (is_start \in {"unset", "START", "STOP"})'
    BY <2>1
  <2>4. QED
    BY <2>1, <2>2, <2>3
<1>16. CASE \E s \in Session : KeyStart(s)
  BY <1>16 DEF KeyStart
<1>17. CASE Esc
  BY <1>17 DEF Esc
<1>18. CASE UNCHANGED vars
  BY <1>18 DEF vars
<1>19. QED
  BY <1>1, <1>2, <1>3, <1>4, <1>5, <1>6, <1>7, <1>8, <1>9, <1>10, <1>11, <1>12, <1>13,
     <1>14, <1>15, <1>16, <1>17, <1>18
  DEF Next, Lcd, Op

\* Every variable stays in its range, and a pending SIGUSR1 has a routine to run.
THEOREM SessionTypeCorrect == Spec => []TypeOK
BY TypeInit, TypeStep, PTL DEF Spec

-----------------------------------------------------------------------------
(* The inductive invariant.                                                *)

\* Nobody starts a session and none runs.
Free == op = "idle" /\ usr1 = "none" /\ key = "idle"

\* An automatic recording is armed and started while nothing else is.
Armed ==
  /\ ~AutoRec => lcd = "idle" /\ record_auto_flag # "AUTO"
  /\ AutoRec /\ hot = "prompt" => Free /\ lcd = "idle" /\ record_auto_flag # "AUTO"
  /\ record_auto_flag = "AUTO" /\ lcd \in {"idle", "seen"} => Free
  /\ lcd = "seen" => record_auto_flag = "AUTO"
  /\ lcd # "idle" => key = "idle"

\* The routine a pending SIGUSR1 will run, and the one that runs, is that of its record;
\* a session that has just begun has no reason to end yet.
Handed ==
  /\ usr1 # "none" => usb_wrhandler = usr1 /\ op \in {"idle", "flag"}
  /\ op \in {"entry", "run"} => what = payload
  /\ op = "entry" => cause = "none"
  /\ shown # "none" => op \in {"run", "close"}

\* The session that is being started, or runs without having been stopped.
Wanted == usr1 # "none" \/ op = "entry" \/ (op = "run" /\ ~esc)

\* Once its second signal is sent, START has reached that session or is on its way.
Told ==
  Wanted /\ key # "sent" /\ lcd # "sent" =>
    usb_cation = "START" /\ (usr2 \/ is_start = "START")

SignalInv == TypeOK /\ Armed /\ Handed /\ Told /\ StopIsMine

\* The set starts with no session.
LEMMA SignalInit == Init => SignalInv
<1> SUFFICES ASSUME Init PROVE SignalInv
  OBVIOUS
<1>1. TypeOK
  BY TypeInit
<1>2. Armed /\ Handed /\ Told /\ StopIsMine
  BY DEF Init, Armed, Free, Handed, Told, Wanted, StopIsMine
<1>3. QED
  BY <1>1, <1>2 DEF SignalInv

\* An automatic recording stays apart from every other session.
LEMMA ArmedStep == ASSUME Faults \subseteq Gentle PROVE SignalInv /\ [Next]_vars => Armed'
<1> SUFFICES ASSUME SignalInv, [Next]_vars PROVE Armed'
  OBVIOUS
<1> USE DEF SignalInv, TypeOK, Gentle, May, Armed, Free, usbVars, sender, signals, opVars, Start, Notify, Settled
<1>1. CASE Plug
  BY <1>1 DEF Plug
<1>2. CASE Unplug
  BY <1>2 DEF Unplug
<1>3. CASE PromptEnd
  BY <1>3 DEF PromptEnd
<1>4. CASE LcdSee
  BY <1>4 DEF LcdSee
<1>5. CASE LcdSend
  BY <1>5 DEF LcdSend
<1>6. CASE LcdNotify
  BY <1>6 DEF LcdNotify
<1>7. CASE LcdOff
  BY <1>7 DEF LcdOff
<1>8. CASE Deliver1
  BY <1>8 DEF Deliver1
<1>9. CASE Enter
  BY <1>9 DEF Enter
<1>10. CASE Close
  BY <1>10 DEF Close
<1>11. CASE SendStop
  BY <1>11 DEF SendStop
<1>12. CASE Flag
  BY <1>12 DEF Flag
<1>13. CASE End
  BY <1>13 DEF End
<1>14. CASE KeyNotify
  BY <1>14 DEF KeyNotify
<1>15. CASE Deliver2
  BY <1>15 DEF Deliver2
<1>16. CASE \E s \in Session : KeyStart(s)
  BY <1>16 DEF KeyStart
<1>17. CASE Esc
  BY <1>17 DEF Esc
<1>18. CASE UNCHANGED vars
  BY <1>18 DEF vars
<1>19. QED
  BY <1>1, <1>2, <1>3, <1>4, <1>5, <1>6, <1>7, <1>8, <1>9, <1>10, <1>11, <1>12, <1>13,
     <1>14, <1>15, <1>16, <1>17, <1>18
  DEF Next, Lcd, Op

\* A routine is handed the record that was sent with it.
LEMMA HandedStep == ASSUME Faults \subseteq Gentle PROVE SignalInv /\ [Next]_vars => Handed'
<1> SUFFICES ASSUME SignalInv, [Next]_vars PROVE Handed'
  OBVIOUS
<1> USE DEF SignalInv, TypeOK, Gentle, May, Armed, Free, Handed, usbVars, sender, signals, opVars, Start, Notify
<1>1. CASE Plug
  BY <1>1 DEF Plug
<1>2. CASE Unplug
  BY <1>2 DEF Unplug
<1>3. CASE PromptEnd
  BY <1>3 DEF PromptEnd
<1>4. CASE LcdSee
  BY <1>4 DEF LcdSee
<1>5. CASE LcdSend
  BY <1>5 DEF LcdSend
<1>6. CASE LcdNotify
  BY <1>6 DEF LcdNotify
<1>7. CASE LcdOff
  BY <1>7 DEF LcdOff
<1>8. CASE Deliver1
  BY <1>8 DEF Deliver1
<1>9. CASE Enter
  BY <1>9 DEF Enter
<1>10. CASE Close
  BY <1>10 DEF Close
<1>11. CASE SendStop
  BY <1>11 DEF SendStop
<1>12. CASE Flag
  BY <1>12 DEF Flag
<1>13. CASE End
  BY <1>13 DEF End
<1>14. CASE KeyNotify
  BY <1>14 DEF KeyNotify
<1>15. CASE Deliver2
  BY <1>15 DEF Deliver2
<1>16. CASE \E s \in Session : KeyStart(s)
  BY <1>16 DEF KeyStart
<1>17. CASE Esc
  BY <1>17 DEF Esc
<1>18. CASE UNCHANGED vars
  BY <1>18 DEF vars
<1>19. QED
  BY <1>1, <1>2, <1>3, <1>4, <1>5, <1>6, <1>7, <1>8, <1>9, <1>10, <1>11, <1>12, <1>13,
     <1>14, <1>15, <1>16, <1>17, <1>18
  DEF Next, Lcd, Op

\* START reaches every session that is started, and nothing overwrites it but esc.
LEMMA ToldStep == ASSUME Faults \subseteq Gentle PROVE SignalInv /\ [Next]_vars => Told'
<1> SUFFICES ASSUME SignalInv, [Next]_vars PROVE Told'
  OBVIOUS
<1> USE DEF SignalInv, TypeOK, Gentle, May, Armed, Free, Handed, Told, Wanted, usbVars, sender, signals, opVars, Start, Notify
<1>1. CASE Plug
  BY <1>1 DEF Plug
<1>2. CASE Unplug
  BY <1>2 DEF Unplug
<1>3. CASE PromptEnd
  BY <1>3 DEF PromptEnd
<1>4. CASE LcdSee
  BY <1>4 DEF LcdSee
<1>5. CASE LcdSend
  BY <1>5 DEF LcdSend
<1>6. CASE LcdNotify
  BY <1>6 DEF LcdNotify
<1>7. CASE LcdOff
  BY <1>7 DEF LcdOff
<1>8. CASE Deliver1
  BY <1>8 DEF Deliver1
<1>9. CASE Enter
  BY <1>9 DEF Enter
<1>10. CASE Close
  BY <1>10 DEF Close
<1>11. CASE SendStop
  BY <1>11 DEF SendStop
<1>12. CASE Flag
  BY <1>12 DEF Flag
<1>13. CASE End
  BY <1>13 DEF End
<1>14. CASE KeyNotify
  BY <1>14 DEF KeyNotify
<1>15. CASE Deliver2
  BY <1>15 DEF Deliver2
<1>16. CASE \E s \in Session : KeyStart(s)
  BY <1>16 DEF KeyStart
<1>17. CASE Esc
  BY <1>17 DEF Esc
<1>18. CASE UNCHANGED vars
  BY <1>18 DEF vars
<1>19. QED
  BY <1>1, <1>2, <1>3, <1>4, <1>5, <1>6, <1>7, <1>8, <1>9, <1>10, <1>11, <1>12, <1>13,
     <1>14, <1>15, <1>16, <1>17, <1>18
  DEF Next, Lcd, Op

\* A session ends because of a message only when esc sent it.
LEMMA StopStep == ASSUME Faults \subseteq Gentle PROVE SignalInv /\ [Next]_vars => StopIsMine'
<1> SUFFICES ASSUME SignalInv, [Next]_vars PROVE StopIsMine'
  OBVIOUS
<1> USE DEF SignalInv, TypeOK, Handed, Told, Wanted, StopIsMine, usbVars, sender, signals, opVars, Start, Notify
<1>1. CASE Plug
  BY <1>1 DEF Plug
<1>2. CASE Unplug
  BY <1>2 DEF Unplug
<1>3. CASE PromptEnd
  BY <1>3 DEF PromptEnd
<1>4. CASE LcdSee
  BY <1>4 DEF LcdSee
<1>5. CASE LcdSend
  BY <1>5 DEF LcdSend
<1>6. CASE LcdNotify
  BY <1>6 DEF LcdNotify
<1>7. CASE LcdOff
  BY <1>7 DEF LcdOff
<1>8. CASE Deliver1
  BY <1>8 DEF Deliver1
<1>9. CASE Enter
  BY <1>9 DEF Enter
<1>10. CASE Close
  BY <1>10 DEF Close
<1>11. CASE SendStop
  BY <1>11 DEF SendStop
<1>12. CASE Flag
  BY <1>12 DEF Flag
<1>13. CASE End
  BY <1>13 DEF End
<1>14. CASE KeyNotify
  BY <1>14 DEF KeyNotify
<1>15. CASE Deliver2
  BY <1>15 DEF Deliver2
<1>16. CASE \E s \in Session : KeyStart(s)
  BY <1>16 DEF KeyStart
<1>17. CASE Esc
  BY <1>17 DEF Esc
<1>18. CASE UNCHANGED vars
  BY <1>18 DEF vars
<1>19. QED
  BY <1>1, <1>2, <1>3, <1>4, <1>5, <1>6, <1>7, <1>8, <1>9, <1>10, <1>11, <1>12, <1>13,
     <1>14, <1>15, <1>16, <1>17, <1>18
  DEF Next, Lcd, Op

\* The invariant is inductive.
LEMMA SignalStep == ASSUME Faults \subseteq Gentle PROVE SignalInv /\ [Next]_vars => SignalInv'
<1>1. SignalInv => TypeOK
  BY DEF SignalInv
<1>2. QED
  BY <1>1, TypeStep, ArmedStep, HandedStep, ToldStep, StopStep DEF SignalInv

-----------------------------------------------------------------------------
(* The results.                                                            *)

\* The STOP that ends a session never reaches another: a session that was told to stop was
\* told so by the user, however the signals are delayed and absorb each other.
THEOREM StopsAreMine == Faults \subseteq Gentle /\ Spec => []StopIsMine
<1> DEFINE Inv == Faults \subseteq Gentle /\ SignalInv
<1>1. Faults \subseteq Gentle /\ Init => Inv
  BY SignalInit
<1>2. Inv /\ [Next]_vars => Inv'
  BY SignalStep
<1>3. Inv => StopIsMine
  BY DEF SignalInv
<1> HIDE DEF Inv
<1>4. QED
  BY <1>1, <1>2, <1>3, PTL DEF Spec

\* writ_usb is never given the record of a playback nor read_usb that of a recording,
\* although the routine is set in one place and the record queued in another.
THEOREM RecordsMatch == Faults \subseteq Gentle /\ Spec => []PayloadMatches
<1> DEFINE Inv == Faults \subseteq Gentle /\ SignalInv
<1>1. Faults \subseteq Gentle /\ Init => Inv
  BY SignalInit
<1>2. Inv /\ [Next]_vars => Inv'
  BY SignalStep
<1>3. Inv => PayloadMatches
  BY DEF SignalInv, Handed, PayloadMatches
<1> HIDE DEF Inv
<1>4. QED
  BY <1>1, <1>2, <1>3, PTL DEF Spec

\* Nothing but lcd_main disarms an automatic recording.
LEMMA StepKeepsArmed ==
  SignalInv /\ [Next]_vars =>
    (record_auto_flag = "AUTO" /\ lcd = "idle" => record_auto_flag' = "AUTO")
<1> SUFFICES ASSUME SignalInv, [Next]_vars, record_auto_flag = "AUTO", lcd = "idle"
             PROVE  record_auto_flag' = "AUTO"
  OBVIOUS
<1> USE DEF SignalInv, Armed, Free, usbVars, sender, signals, opVars, Start, Notify
<1>1. CASE Plug
  BY <1>1 DEF Plug
<1>2. CASE Unplug
  BY <1>2 DEF Unplug
<1>3. CASE PromptEnd
  BY <1>3 DEF PromptEnd
<1>4. CASE LcdSee
  BY <1>4 DEF LcdSee
<1>5. CASE LcdSend
  BY <1>5 DEF LcdSend
<1>6. CASE LcdNotify
  BY <1>6 DEF LcdNotify
<1>7. CASE LcdOff
  BY <1>7 DEF LcdOff
<1>8. CASE Deliver1
  BY <1>8 DEF Deliver1
<1>9. CASE Enter
  BY <1>9 DEF Enter
<1>10. CASE Close
  BY <1>10 DEF Close
<1>11. CASE SendStop
  BY <1>11 DEF SendStop
<1>12. CASE Flag
  BY <1>12 DEF Flag
<1>13. CASE End
  BY <1>13 DEF End
<1>14. CASE KeyNotify
  BY <1>14 DEF KeyNotify
<1>15. CASE Deliver2
  BY <1>15 DEF Deliver2
<1>16. CASE \E s \in Session : KeyStart(s)
  BY <1>16 DEF KeyStart
<1>17. CASE Esc
  BY <1>17 DEF Esc
<1>18. CASE UNCHANGED vars
  BY <1>18 DEF vars
<1>19. QED
  BY <1>1, <1>2, <1>3, <1>4, <1>5, <1>6, <1>7, <1>8, <1>9, <1>10, <1>11, <1>12, <1>13,
     <1>14, <1>15, <1>16, <1>17, <1>18
  DEF Next, Lcd, Op

\* An automatic recording that plugging the stick in has armed stays armed until lcd_main has
\* seen it: without the stick coming back early nothing of the last session disarms it.
THEOREM AutoStaysArmed == Faults \subseteq Gentle /\ Spec => AutoKept
<1> DEFINE Inv == Faults \subseteq Gentle /\ SignalInv
<1>1. Faults \subseteq Gentle /\ Init => Inv
  BY SignalInit
<1>2. Inv /\ [Next]_vars => Inv'
  BY SignalStep
<1>3. Inv /\ [Next]_vars =>
        [record_auto_flag = "AUTO" /\ lcd = "idle" => record_auto_flag' = "AUTO"]_vars
  BY StepKeepsArmed
<1> HIDE DEF Inv
<1>4. QED
  BY <1>1, <1>2, <1>3, PTL DEF Spec, AutoKept
=============================================================================
