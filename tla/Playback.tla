------------------------------ MODULE Playback ------------------------------
(***************************************************************************)
(* The playback of recordings (readbus.c): read_usb, usb_read_handler and  *)
(* the three modes single, segment and loop, which the thread action_usbop *)
(* runs; the FPGA, which asks for one half of a shared buffer after the    *)
(* other; the user's stop, a stick that is pulled, and the descriptors     *)
(* that other threads open meanwhile.                                      *)
(* The recordings of one sequence are numbered 0 to count - 1 in the order *)
(* of ts_archives; of their contents only the number of blocks is kept.    *)
(***************************************************************************)
EXTENDS Naturals

CONSTANTS
  MaxFiles,    \* how many recordings a sequence has at most
  MaxBlocks,   \* how many blocks a recording has at most, after its first 2 MB
  MaxSessions, \* how many playbacks are started
  Faults       \* subset of {"short", "gap", "open", "read", "fpga", "busy", "others"}

ASSUME PlaybackAssumption ==
  /\ MaxFiles \in Nat \ {0} /\ MaxBlocks \in Nat /\ MaxSessions \in Nat
  /\ Faults \subseteq {"short", "gap", "open", "read", "fpga", "busy", "others"}

VARIABLES
  pc,              \* where action_usbop is
  mode,            \* play_mod
  count,           \* story_t.count
  bak_item, item,  \* the recording chosen, and the one the next round begins with
  i, played,       \* the next recording to read, and the one last begun
  left,            \* its blocks not read yet
  segment, wanted, \* the half readusb writes next, and the one the FPGA waits for
  r_time_out_flag,
  mapped,          \* mem and sharemem_map_base are mapped
  ts_fd,           \* who has the descriptor number that usb_read_handler holds
  leaked,          \* descriptors nobody will close
  signal,          \* what recv_usb_notify returns
  online, mounted, \* is_usb_online, and whether the stick's files can be found
  sessions

place == <<mode, count, bak_item, item>>
halves == <<segment, wanted>>
memory == <<mapped, leaked>>
usb == <<signal, online, mounted>>
vars == <<pc, place, i, played, left, halves, r_time_out_flag, memory, ts_fd, usb, sessions>>

Modes == {"single", "segment", "loop"}

Init ==
  /\ pc = "idle" /\ mode = "single" /\ count = 1 /\ bak_item = 0 /\ item = 0
  /\ i = 0 /\ played = 0 /\ left = 0 /\ segment = 0 /\ wanted = 0
  /\ r_time_out_flag = FALSE /\ mapped = FALSE /\ ts_fd = "free" /\ leaked = 0
  /\ signal = "stop" /\ online = TRUE /\ mounted = TRUE
  /\ sessions = 0

\* read_usb, and usb_read_handler up to the first open.
ReadUsb ==
  /\ pc = "idle" /\ online /\ sessions < MaxSessions
  /\ sessions' = sessions + 1
  /\ mode' \in Modes
  /\ count' \in 1..MaxFiles
  /\ bak_item' \in 0..(count' - 1)
  /\ item' = bak_item' + 1 /\ i' = bak_item' /\ played' = bak_item'
  /\ r_time_out_flag' = FALSE
  /\ signal' = "start"
  /\ mapped' = TRUE
  /\ pc' = "open"
  /\ UNCHANGED <<left, halves, leaked, ts_fd, online, mounted>>

OpenFails == "open" \in Faults \/ ~mounted

\* open_stream_file fails, or init_bus_wrop finds less than 2 MB: the playback is
\* over, in the second case without closing the recording.
GiveUp ==
  /\ pc = "open"
  /\ \/ OpenFails /\ leaked' = leaked
     \/ mounted /\ ("short" \in Faults \/ "read" \in Faults \/ ~online) /\ leaked' = leaked + 1
  /\ mapped' = FALSE
  /\ pc' = "idle" /\ signal' = "stop"
  /\ UNCHANGED <<place, i, played, left, halves, r_time_out_flag, ts_fd, online, mounted,
                 sessions>>

\* The first 2 MB fill both halves and the FPGA is started on the first.
OpenFirst ==
  /\ pc = "open" /\ mounted
  /\ ts_fd' = "ours"
  /\ left' \in 0..MaxBlocks
  /\ segment' = 0 /\ wanted' = 0
  /\ pc' = IF mode = "single" THEN "read" ELSE "archive"
  /\ UNCHANGED <<place, i, played, r_time_out_flag, memory, usb, sessions>>

\* ts_archives finds the sequence of the chosen recording, or nothing.  When the numbers
\* of the recordings have a gap the chosen one may not be in it: usb_read_handler returns
\* at once, with the FPGA running, the memory mapped and its three descriptors open.
Archive ==
  /\ pc = "archive"
  /\ \/ /\ pc' = IF mounted THEN "read" ELSE "finish"
        /\ UNCHANGED <<leaked, ts_fd, signal>>
     \/ /\ "gap" \in Faults /\ mounted
        /\ pc' = "idle" /\ signal' = "stop"
        /\ leaked' = leaked + 3 /\ ts_fd' = "free"
  /\ UNCHANGED <<place, i, played, left, halves, r_time_out_flag, mapped, online, mounted,
                 sessions>>

\* readusb: one round of its loop that writes a block to a half.
WriteBlock ==
  /\ pc = "read" /\ left > 0 /\ signal = "start" /\ online
  /\ left' = left - 1
  /\ segment' = 1 - segment /\ wanted' = 1 - wanted
  /\ UNCHANGED <<pc, place, i, played, r_time_out_flag, memory, ts_fd, usb, sessions>>

\* The rounds that leave the loop: at the end, stopped, or by an error of read; or
\* because the FPGA asks for nothing (inter_signal) or the stick is gone.
LeaveBlock ==
  /\ pc = "read"
  /\ \/ /\ left = 0 \/ signal = "stop" \/ "read" \in Faults \/ ~online
        /\ UNCHANGED r_time_out_flag
     \/ /\ left > 0 /\ signal = "start" /\ ("fpga" \in Faults \/ ~online)
        /\ r_time_out_flag' = TRUE
  /\ pc' = "close"
  /\ UNCHANGED <<place, i, played, left, halves, memory, ts_fd, usb, sessions>>

First == item = bak_item + 1 /\ i = bak_item

\* Seeded fault: the segment mode begins with the recording just played.
CloseFile_KeepsIndex ==
  /\ pc = "close"
  /\ IF mode = "single"
     THEN pc' = "finish" /\ UNCHANGED <<i, ts_fd>>
     ELSE /\ ts_fd' = IF ts_fd = "ours" THEN "free" ELSE ts_fd
          /\ i' = IF First THEN i ELSE i + 1
          /\ pc' = IF First /\ r_time_out_flag THEN "finish"
                   ELSE IF First /\ mode = "loop" THEN "round" ELSE "next"
  /\ UNCHANGED <<place, played, left, halves, r_time_out_flag, memory, usb, sessions>>

\* After a recording: in the modes of several it is closed here. A time-out ends the
\* playback at once only after the first.
CloseFile ==
  /\ pc = "close"
  /\ IF mode = "single"
     THEN pc' = "finish" /\ UNCHANGED <<i, ts_fd>>
     ELSE /\ ts_fd' = IF ts_fd = "ours" THEN "free" ELSE ts_fd
          /\ i' = i + 1
          /\ pc' = IF First /\ r_time_out_flag THEN "finish"
                   ELSE IF First /\ mode = "loop" THEN "round" ELSE "next"
  /\ UNCHANGED <<place, played, left, halves, r_time_out_flag, memory, usb, sessions>>

\* Seeded fault: the stop is looked for only within a recording.
Round_Deaf ==
  /\ pc = "round"
  /\ pc' = "next"
  /\ i' = item
  /\ UNCHANGED <<place, played, left, halves, r_time_out_flag, memory, ts_fd, usb, sessions>>

\* The head of while ( 1 ) in loop_read_ts_strem.
Round ==
  /\ pc = "round"
  /\ pc' = IF signal = "stop" THEN "finish" ELSE "next"
  /\ i' = item
  /\ UNCHANGED <<place, played, left, halves, r_time_out_flag, memory, ts_fd, usb, sessions>>

\* Seeded fault: every pass of a loop begins one recording later.
PastLast_Creeps ==
  /\ pc = "next" /\ i >= count
  /\ IF mode = "loop" THEN pc' = "round" /\ item' = item + 1 ELSE pc' = "finish" /\ item' = item
  /\ UNCHANGED <<mode, count, bak_item, i, played, left, halves, r_time_out_flag, memory,
                 ts_fd, usb, sessions>>

\* The heads of the for loops: past the last recording, in a loop back to the one chosen.
PastLast ==
  /\ pc = "next" /\ i >= count
  /\ IF mode = "loop" THEN pc' = "round" /\ item' = bak_item ELSE pc' = "finish" /\ item' = item
  /\ UNCHANGED <<mode, count, bak_item, i, played, left, halves, r_time_out_flag, memory,
                 ts_fd, usb, sessions>>

\* stat fails, or a time-out was met: the loop mode goes on to wait for the stop.
NoNext ==
  /\ pc = "next" /\ i < count
  /\ \/ ~mounted /\ pc' = "finish"
     \/ mounted /\ r_time_out_flag /\ pc' = IF mode = "loop" THEN "round" ELSE "finish"
  /\ UNCHANGED <<place, i, played, left, halves, r_time_out_flag, memory, ts_fd, usb, sessions>>

\* The open of a further recording: a failure unmaps what usb_read_handler still uses.
OpenNext ==
  /\ pc = "next" /\ i < count /\ mounted /\ ~r_time_out_flag
  /\ \/ /\ pc' = "read" /\ played' = i /\ left' \in 0..MaxBlocks /\ segment' = 0
        /\ ts_fd' = IF ts_fd = "free" THEN "ours" ELSE ts_fd
        /\ mapped' = mapped
     \/ /\ OpenFails
        /\ pc' = "finish" /\ mapped' = FALSE /\ UNCHANGED <<played, left, segment, ts_fd>>
  /\ UNCHANGED <<place, i, wanted, r_time_out_flag, leaked, usb, sessions>>

\* The end of usb_read_handler stops the FPGA, closes ts_fd (in the modes of several
\* once more) and unmaps; read_usb then marks the session as stopped.
Finish ==
  /\ pc = "finish"
  /\ IF mapped
     THEN pc' = "idle" /\ ts_fd' = "free" /\ mapped' = FALSE /\ signal' = "stop"
     ELSE pc' = "dead" /\ UNCHANGED <<ts_fd, mapped, signal>>
  /\ UNCHANGED <<place, i, played, left, halves, r_time_out_flag, leaked, online, mounted,
                 sessions>>

Player ==
  \/ GiveUp \/ OpenFirst \/ Archive \/ WriteBlock \/ LeaveBlock \/ CloseFile \/ Round
  \/ PastLast \/ NoNext \/ OpenNext \/ Finish

\* esc: send_usb_stop_message.
Stop ==
  /\ pc \notin {"idle", "dead"} /\ signal' = "stop"
  /\ UNCHANGED <<pc, place, i, played, left, halves, r_time_out_flag, memory, ts_fd, online,
                 mounted, sessions>>

\* dev_umount: umount2 may fail while a recording is open.
Unplug ==
  /\ online /\ online' = FALSE
  /\ mounted' \in (IF "busy" \in Faults /\ pc \in {"archive", "read", "close"} THEN BOOLEAN ELSE {FALSE})
  /\ UNCHANGED <<pc, place, i, played, left, halves, r_time_out_flag, memory, ts_fd, signal,
                 sessions>>
Plug ==
  /\ ~online /\ ~mounted /\ online' = TRUE /\ mounted' = TRUE
  /\ UNCHANGED <<pc, place, i, played, left, halves, r_time_out_flag, memory, ts_fd, signal,
                 sessions>>

\* Another thread opens a file and gets the number that was closed.
OtherOpens ==
  /\ "others" \in Faults /\ ts_fd = "free" /\ ts_fd' = "other"
  /\ UNCHANGED <<pc, place, i, played, left, halves, r_time_out_flag, memory, usb, sessions>>
OtherCloses ==
  /\ ts_fd = "other" /\ ts_fd' = "free"
  /\ UNCHANGED <<pc, place, i, played, left, halves, r_time_out_flag, memory, usb, sessions>>

Next == Player \/ ReadUsb \/ Stop \/ Unplug \/ Plug \/ OtherOpens \/ OtherCloses

\* action_usbop is scheduled; a recording has an end, so that WriteBlock cannot go on.
Spec == Init /\ [][Next]_vars /\ WF_vars(Player)

-----------------------------------------------------------------------------
\* Every variable has a value of its kind.
TypeOK ==
  /\ pc \in {"idle", "open", "archive", "read", "close", "round", "next", "finish", "dead"}
  /\ mode \in Modes /\ count \in 1..MaxFiles
  /\ bak_item < count /\ item \in {bak_item, bak_item + 1} /\ i \in 0..count /\ played < count
  /\ left \in 0..MaxBlocks /\ segment \in {0, 1} /\ wanted \in {0, 1}
  /\ ts_fd \in {"free", "ours", "other"} /\ leaked \in 0..3 * MaxSessions
  /\ signal \in {"start", "stop"}
  /\ {r_time_out_flag, mapped, online, mounted} \subseteq BOOLEAN

\* The recordings of a sequence are played in their order, from the one chosen: none
\* is left out or played twice, and a loop begins again with the one chosen, not
\* before the last was played, whatever ended the reading of each.
InOrder ==
  [][pc = "next" /\ pc' = "read"
     => \/ played' = played + 1
        \/ mode = "loop" /\ played = count - 1 /\ played' = bak_item]_vars

\* A playback ends when it is stopped, and when the stick is pulled and unmounted, in
\* whatever wait or loop that meets it.
Over == pc \in {"idle", "dead"}
Ends == ~Over /\ (signal = "stop" \/ ~mounted) ~> Over \/ (signal = "start" /\ mounted)

\* Memory is used only while it is mapped.
MapAlive == pc # "dead"

\* A block goes to the half the FPGA waits for.
RightHalf == pc = "read" => segment = wanted

\* close is called only on a descriptor of the playback.
OwnDescriptor == [][pc = "finish" /\ pc' = "idle" => ts_fd = "ours"]_vars

\* A playback that is over leaves no descriptor open.
NothingLeaked == leaked = 0

\* A playback of a stick that was pulled ends.
UnplugEnds == ~online ~> Over \/ online
=============================================================================
