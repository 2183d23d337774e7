--------------------------- MODULE PlaybackProofs ---------------------------
(* Proofs about Playback: its types, and that recordings are played in order. *)
EXTENDS Playback, TLAPS

-----------------------------------------------------------------------------
\* The types that a step of the player reads of each other.
Kinds ==
  /\ pc \in {"idle", "open", "archive", "read", "close", "round", "next", "finish", "dead"}
  /\ mode \in Modes
  /\ count \in 1..MaxFiles /\ bak_item \in 0..(MaxFiles - 1) /\ bak_item < count
  /\ item \in {bak_item, bak_item + 1}
  /\ i \in 0..count /\ played \in 0..(MaxFiles - 1) /\ played < count
  /\ r_time_out_flag \in BOOLEAN

\* Where i and item stand when the next recording is looked for: behind the one last
\* played, or, after the last, at the one chosen. A time-out ends the looking.
Placed ==
  /\ pc \in {"open", "archive"} => i = bak_item /\ item = bak_item + 1
  /\ pc \in {"open", "archive", "read", "close"} => i = played
  /\ pc = "round" =>
       /\ mode = "loop"
       /\ \/ r_time_out_flag
          \/ item = played + 1
          \/ item = bak_item /\ played = count - 1
  /\ pc = "next" => \/ r_time_out_flag
                    \/ i = played + 1
                    \/ mode = "loop" /\ i = bak_item /\ played = count - 1

Inv == Kinds /\ Placed

\* There is at least one recording.
LEMMA Files == MaxFiles \in Nat /\ MaxFiles >= 1
  BY PlaybackAssumption

\* The recording chosen is one of the sequence.
LEMMA Chosen ==
  ASSUME NEW c \in 1..MaxFiles, NEW b \in 0..(c - 1)
  PROVE  b \in 0..(MaxFiles - 1) /\ b < c /\ b \in 0..c
  BY Files

\* Before the first playback nothing is looked for.
LEMMA InitInv == Init => Inv
<1> SUFFICES ASSUME Init PROVE Inv
  OBVIOUS
<1>1. Kinds
  <2>1. pc = "idle" /\ mode \in Modes /\ item = bak_item /\ r_time_out_flag \in BOOLEAN
    BY DEF Init, Modes
  <2>2. /\ count \in 1..MaxFiles /\ bak_item \in 0..(MaxFiles - 1) /\ bak_item < count
        /\ i \in 0..count /\ played \in 0..(MaxFiles - 1) /\ played < count
    BY Files DEF Init
  <2> QED
    BY <2>1, <2>2 DEF Kinds
<1>2. Placed
  BY DEF Init, Placed
<1> QED
  BY <1>1, <1>2 DEF Inv

\* The invariant, step by step: only read_usb chooses a recording, only the ends of a
\* recording and of a pass move on.
LEMMA StepInv == Inv /\ [Next]_vars => Inv'
<1> SUFFICES ASSUME Inv, [Next]_vars PROVE Inv'
  OBVIOUS
<1> USE Files DEF Inv, Kinds, Placed, place, halves, memory, usb
<1>1. CASE ReadUsb
  <2>1. Kinds'
    <3>1. pc' = "open" /\ mode' \in Modes' /\ item' = bak_item' + 1 /\ r_time_out_flag' \in BOOLEAN
      BY <1>1 DEF ReadUsb, Modes
    <3>2. /\ count' \in 1..MaxFiles /\ bak_item' \in 0..(MaxFiles - 1) /\ bak_item' < count'
          /\ i' \in 0..count' /\ played' \in 0..(MaxFiles - 1) /\ played' < count'
      <4>1. /\ count' \in 1..MaxFiles /\ bak_item' \in 0..(count' - 1)
            /\ i' = bak_item' /\ played' = bak_item'
        BY <1>1 DEF ReadUsb
      <4> QED
        BY <4>1, Chosen
    <3> QED
      BY <3>1, <3>2
  <2>2. Placed'
    BY <1>1 DEF ReadUsb
  <2> QED
    BY <2>1, <2>2
<1>2. CASE GiveUp
  BY <1>2 DEF GiveUp
<1>3. CASE OpenFirst
  BY <1>3 DEF OpenFirst
<1>4. CASE Archive
  BY <1>4 DEF Archive
<1>5. CASE WriteBlock
  BY <1>5 DEF WriteBlock
<1>6. CASE LeaveBlock
  BY <1>6 DEF LeaveBlock
<1>7. CASE CloseFile
  BY <1>7 DEF CloseFile, First
<1>8. CASE Round
  BY <1>8 DEF Round
<1>9. CASE PastLast
  BY <1>9 DEF PastLast
<1>10. CASE NoNext
  BY <1>10 DEF NoNext
<1>11. CASE OpenNext
  BY <1>11 DEF OpenNext
<1>12. CASE Finish
  BY <1>12 DEF Finish
<1>13. CASE Stop \/ Unplug \/ Plug \/ OtherOpens \/ OtherCloses \/ UNCHANGED vars
  BY <1>13 DEF Stop, Unplug, Plug, OtherOpens, OtherCloses, vars
<1> QED
  BY <1>1, <1>2, <1>3, <1>4, <1>5, <1>6, <1>7, <1>8, <1>9, <1>10, <1>11, <1>12, <1>13
  DEF Next, Player

-----------------------------------------------------------------------------
\* The rest of the types. A playback loses at most three descriptors, before it reads.
Counts ==
  /\ left \in 0..MaxBlocks /\ segment \in {0, 1} /\ wanted \in {0, 1}
  /\ ts_fd \in {"free", "ours", "other"} /\ signal \in {"start", "stop"}
  /\ mapped \in BOOLEAN /\ online \in BOOLEAN /\ mounted \in BOOLEAN
  /\ sessions \in 0..MaxSessions /\ leaked \in 0..3 * sessions
  /\ pc \in {"open", "archive"} => sessions > 0 /\ leaked <= 3 * (sessions - 1)

\* The bounds are numbers.
LEMMA Bounds == MaxBlocks \in Nat /\ MaxSessions \in Nat
  BY PlaybackAssumption

\* At the start no descriptor is lost.
LEMMA InitCounts == Init => Counts
<1> SUFFICES ASSUME Init PROVE Counts
  OBVIOUS
<1>1. left = 0 /\ sessions = 0 /\ leaked = 0 /\ pc = "idle"
  BY DEF Init
<1>2. left \in 0..MaxBlocks /\ sessions \in 0..MaxSessions /\ leaked \in 0..3 * sessions
  BY <1>1, Bounds
<1>3. pc \notin {"open", "archive"}
  BY <1>1
<1>4. /\ segment \in {0, 1} /\ wanted \in {0, 1}
      /\ ts_fd \in {"free", "ours", "other"} /\ signal \in {"start", "stop"}
      /\ mapped \in BOOLEAN /\ online \in BOOLEAN /\ mounted \in BOOLEAN
  BY DEF Init
<1> QED
  BY <1>2, <1>3, <1>4 DEF Counts

\* Descriptors are lost only when a recording is opened or its sequence is looked for, and
\* there is the end of the session.
LEMMA StepCounts == Counts /\ [Next]_vars => Counts'
<1> SUFFICES ASSUME Counts, [Next]_vars PROVE Counts'
  OBVIOUS
<1> USE Bounds DEF Counts, place, halves, memory, usb
<1>1. CASE ReadUsb
  <2>1. sessions' = sessions + 1 /\ sessions < MaxSessions /\ leaked' = leaked
    BY <1>1 DEF ReadUsb
  <2>2. /\ sessions' \in 0..MaxSessions /\ leaked' \in 0..3 * sessions'
        /\ sessions' > 0 /\ leaked' <= 3 * (sessions' - 1)
    BY <2>1
  <2>3. /\ UNCHANGED <<left, segment, wanted, ts_fd, online, mounted>>
        /\ signal' = "start" /\ mapped' = TRUE
    BY <1>1 DEF ReadUsb
  <2> QED
    BY <2>2, <2>3
<1>2. CASE GiveUp
  <2>1. /\ UNCHANGED <<left, halves, ts_fd, online, mounted, sessions>>
        /\ mapped' = FALSE /\ signal' = "stop" /\ pc = "open" /\ pc' = "idle"
        /\ leaked' = leaked \/ leaked' = leaked + 1
    BY <1>2 DEF GiveUp
  <2>2. leaked' \in 0..3 * sessions'
    BY <2>1
  <2> QED
    BY <2>1, <2>2
<1>3. CASE OpenFirst
  <2>1. /\ UNCHANGED <<memory, usb, sessions>> /\ ts_fd' = "ours" /\ pc = "open"
        /\ left' \in 0..MaxBlocks /\ segment' = 0 /\ wanted' = 0
    BY <1>3 DEF OpenFirst
  <2> QED
    BY <2>1
<1>4. CASE Archive
  <2>1. /\ UNCHANGED <<left, halves, mapped, online, mounted, sessions>>
        /\ pc = "archive" /\ pc' \notin {"open", "archive"}
        /\ leaked' = leaked \/ leaked' = leaked + 3
        /\ ts_fd' \in {ts_fd, "free"} /\ signal' \in {signal, "stop"}
    BY <1>4 DEF Archive
  <2>2. leaked' \in 0..3 * sessions'
    BY <2>1
  <2> QED
    BY <2>1, <2>2
<1>12. CASE Round \/ PastLast \/ NoNext
  BY <1>12 DEF Round, PastLast, NoNext
<1>5. CASE WriteBlock
  <2>1. /\ UNCHANGED <<pc, memory, ts_fd, usb, sessions>>
        /\ left > 0 /\ left' = left - 1
        /\ segment' = 1 - segment /\ wanted' = 1 - wanted
    BY <1>5 DEF WriteBlock
  <2>2. left' \in 0..MaxBlocks /\ segment' \in {0, 1} /\ wanted' \in {0, 1}
    BY <2>1
  <2> QED
    BY <2>1, <2>2
<1>6. CASE LeaveBlock
  BY <1>6 DEF LeaveBlock
<1>7. CASE CloseFile
  BY <1>7 DEF CloseFile
<1>8. CASE OpenNext
  BY <1>8 DEF OpenNext
<1>9. CASE Finish
  BY <1>9 DEF Finish
<1>10. CASE Stop \/ Unplug \/ Plug
  BY <1>10 DEF Stop, Unplug, Plug
<1>11. CASE OtherOpens \/ OtherCloses \/ UNCHANGED vars
  BY <1>11 DEF OtherOpens, OtherCloses, vars
<1> QED
  BY <1>1, <1>2, <1>3, <1>4, <1>5, <1>6, <1>7, <1>8, <1>9, <1>10, <1>11, <1>12
  DEF Next, Player

\* readbus.c: every variable keeps its type; in particular the loop mode never looks for
\* a recording behind the last, and no playback loses more than three descriptors.
THEOREM TypeCorrect == Spec => []TypeOK
<1>1. Inv /\ Counts => TypeOK
  BY Bounds DEF Inv, Kinds, Counts, TypeOK
<1> QED
  BY <1>1, InitInv, StepInv, InitCounts, StepCounts, PTL DEF Spec

-----------------------------------------------------------------------------
\* What a step may do to the recording that is played, given where i stands.
LEMMA StepOrder ==
  ASSUME Inv, Next, pc = "next", pc' = "read"
  PROVE  \/ played' = played + 1
         \/ mode = "loop" /\ played = count - 1 /\ played' = bak_item
<1>1. OpenNext /\ played' = i
  BY DEF Next, Player, ReadUsb, GiveUp, OpenFirst, Archive, WriteBlock, LeaveBlock, CloseFile,
    Round, PastLast, NoNext, OpenNext, Finish, Stop, Unplug, Plug, OtherOpens, OtherCloses
<1> QED
  BY <1>1 DEF Inv, Placed, OpenNext

\* readbus.c 855-993: in all three modes, for any number of recordings and whatever
\* fails, none is left out or played twice, and a loop wraps only behind the last.
THEOREM PlaysInOrder == Spec => InOrder
<1>1. Inv /\ [Next]_vars =>
        [pc = "next" /\ pc' = "read"
          => \/ played' = played + 1
             \/ mode = "loop" /\ played = count - 1 /\ played' = bak_item]_vars
  BY StepOrder DEF vars
<1> QED
  BY <1>1, InitInv, StepInv, PTL DEF Spec, InOrder
=============================================================================
