------------------------------ MODULE Recorder ------------------------------
(***************************************************************************)
(* The USB recorder, write_usb/writebus.c.  The thread read_cache copies   *)
(* every half-buffer the FPGA signals into a fresh heap buffer and stores  *)
(* the pointer in the active half of jobsqueue_date; creat_job_thread      *)
(* takes the tokens those frames earned, swaps the two halves and writes   *)
(* the finished one to the USB file.  Nothing but the variables stop,      *)
(* wait_stop, r_time_out_flag, token and squeue_t synchronises them, so    *)
(* every read-modify-write of a shared variable is split into its steps.   *)
(***************************************************************************)
EXTENDS Integers, FiniteSets, Sequences

CONSTANTS
  Seg,       \* cells in one half of jobsqueue_date (50)
  Burst,     \* BURST, the most tokens one fetch takes (50)
  Lag,       \* most frames the FPGA delivers between two swaps (timing bound)
  FileMax,   \* frames after which the file is full (usb_tsfilesize)
  Buf,       \* heap buffers calloc may return
  None,      \* the NULL pointer
  Modes,     \* recording modes the user may have configured
  Faults     \* adversities this instance allows, see Adversity

\* "overlap": a step of token_hander falls between fetch_token and node_seach
\* "nomem": calloc fails   "nomemrace": and it may do so in that window, too
\* "silent": the FPGA delivers nothing for 37 s
\* "unplug": the stick is removed   "replug": and mounted again in the session
\* "werr": write() or open() fails on a healthy stick   "full": no space for a new file
Adversity == {"overlap", "nomem", "nomemrace", "silent", "unplug", "replug", "werr", "full"}

\* squeue_t.node is eight bits wide and counts up to the end of the queue.
ASSUME SizesAssumption ==
  /\ Seg \in Nat /\ Burst \in Nat \ {0} /\ Lag \in Nat \ {0} /\ FileMax \in Nat \ {0}
  /\ Lag < Burst /\ Burst <= Seg /\ 2 * Seg < 256
ASSUME NoneAssumption == None \notin Buf
ASSUME ChoiceAssumption == Modes \subseteq {"SIG", "SEG", "LOOP"} /\ Faults \subseteq Adversity

VARIABLES
  p,          \* where read_cache is
  preg,       \* the value it loaded in a read-modify-write
  c,          \* where creat_job_thread is
  creg,       \* the value it loaded in fetch_token
  token,      \* token->token
  cells,      \* jobsqueue_date
  live,       \* heap buffers allocated and not freed
  node,       \* squeue_t.node
  act,        \* first cell of the half that squeue_t.flag selects
  lag,        \* frames stored since the last swap
  count,      \* tokens taken by the last fetch
  base,       \* first cell of the batch being written
  i,          \* i_count, the next cell of the batch
  ret,        \* whether the last write() failed: "ok" or "err"
  written,    \* the buffer most recently handed to write()
  mod,        \* recording mode of the session
  sfd,        \* whether the output descriptor is open
  wr_size,    \* frames in the current file
  start_stop, \* -1 once a single recording reached its size
  stop,
  wait_stop,
  r_time_out_flag,
  is_active,  \* usb_dev_info.is_active, 1 while the stick is mounted
  is_start,   \* usb_signal.is_start as left by the SIGUSR2 handler
  msg         \* is_start of a SIGUSR2 that is still pending

queueVars == <<cells, live, node, act, lag>>
batchVars == <<count, base, i, ret, written>>
fileVars  == <<mod, sfd, wr_size, start_stop>>
flagVars  == <<stop, wait_stop, r_time_out_flag>>
envVars   == <<is_active, is_start, msg>>
vars == <<p, preg, c, creg, token, queueVars, batchVars, fileVars, flagVars, envVars>>

-----------------------------------------------------------------------------
Cell == 0 .. 2 * Seg - 1
Min(a, b) == IF a < b THEN a ELSE b
OtherHalf == IF act = 0 THEN Seg ELSE 0

\* The batch that creat_job_thread owns between node_seach and destory_date.
Batch == base .. base + count - 1
Writing == c \in {"write", "mode", "open", "nofile", "free"}

\* The two unprotected sections: token_hander, and fetch_token to node_seach.
Handling == p \in {"bump", "bumped", "credit", "credited"}
Fetching == c \in {"sub", "subbed", "fetched", "swap"}
May(fault) == fault \in Faults

PGoto(from, to) == p = from /\ p' = to
CGoto(from, to) == c = from /\ c' = to

Init ==
  /\ p = "none" /\ preg = 0 /\ c = "idle" /\ creg = 0 /\ token = 0
  /\ cells = [k \in Cell |-> None] /\ live = {} /\ node = 0 /\ act = 0 /\ lag = 0
  /\ count = 0 /\ base = 0 /\ i = 0 /\ ret = "ok" /\ written = None
  /\ mod \in Modes /\ sfd = FALSE /\ wr_size = 0 /\ start_stop = 0
  /\ stop = 1 /\ wait_stop = 0 /\ r_time_out_flag = 0
  /\ is_active = 1 /\ is_start = "unset" /\ msg = "none"

-----------------------------------------------------------------------------
(* read_cache, the capturing thread.                                       *)

\* tokens_init: a fresh bucket, the first half selected.
PInit ==
  /\ PGoto("init", "poll")
  /\ token' = 0 /\ node' = 0 /\ act' = 0 /\ lag' = 0
  /\ UNCHANGED <<preg, c, creg, cells, live, batchVars, fileVars, flagVars, envVars>>

\* inter_signal, one round of its loop without a signal: it clears the flag.
PWait ==
  /\ p = "poll" /\ c # "idle"
  /\ r_time_out_flag' = 0
  /\ UNCHANGED <<p, preg, c, creg, token, queueVars, batchVars, fileVars, stop, wait_stop, envVars>>

\* inter_signal returns because the FPGA filled a half, or after 37 s.
PReady ==
  /\ PGoto("poll", "check") /\ c # "idle"
  /\ \/ UNCHANGED r_time_out_flag
     \/ May("silent") /\ r_time_out_flag' = 1
  /\ UNCHANGED <<preg, c, creg, token, queueVars, batchVars, fileVars, stop, wait_stop, envVars>>

\* The online check and the test of r_time_out_flag.
PCheck ==
  /\ p = "check"
  /\ r_time_out_flag' = IF is_active = 0 THEN 1 ELSE r_time_out_flag
  /\ p' = IF r_time_out_flag' = 1 THEN "leave" ELSE "store"
  /\ UNCHANGED <<preg, c, creg, token, queueVars, batchVars, fileVars, stop, wait_stop, envVars>>

\* token_hander: allocate, clamp the bucket, copy the half, store the pointer.
PStore ==
  /\ PGoto("store", "bump") /\ c # "idle"
  /\ May("overlap") \/ ~Fetching
  /\ node \in Cell
  /\ lag < Lag \/ c \in {"spin0", "spin1", "join"}
  /\ \E b \in Buf \ live :
       /\ cells' = [cells EXCEPT ![node] = b]
       /\ live' = live \cup {b}
  /\ token' = Min(token, Burst)
  /\ lag' = lag + 1
  /\ UNCHANGED <<preg, c, creg, node, act, batchVars, fileVars, flagVars, envVars>>

\* token_hander: calloc failed, the bucket is set to one token.
PNoMem ==
  /\ PGoto("store", "stopchk") /\ May("nomem")
  /\ May("nomemrace") \/ ~Fetching
  /\ token' = 1
  /\ UNCHANGED <<preg, c, creg, queueVars, batchVars, fileVars, flagVars, envVars>>

\* ++squeue_t.node
PLoadNode ==
  /\ PGoto("bump", "bumped") /\ preg' = node
  /\ UNCHANGED <<c, creg, token, queueVars, batchVars, fileVars, flagVars, envVars>>

PBumpNode ==
  /\ PGoto("bumped", "credit") /\ node' = (preg + 1) % 256
  /\ UNCHANGED <<preg, c, creg, token, cells, live, act, lag, batchVars, fileVars, flagVars, envVars>>

\* job[i]->token += backcps
PLoadToken ==
  /\ PGoto("credit", "credited") /\ preg' = token
  /\ UNCHANGED <<c, creg, token, queueVars, batchVars, fileVars, flagVars, envVars>>

PCredit ==
  /\ PGoto("credited", "stopchk") /\ token' = preg + 1
  /\ UNCHANGED <<preg, c, creg, queueVars, batchVars, fileVars, flagVars, envVars>>

\* The stop test after token_hander.
PStopCheck ==
  /\ p = "stopchk"
  /\ IF stop <= 0 THEN p' = "leave" /\ wait_stop' = 1
                  ELSE p' = "poll" /\ UNCHANGED wait_stop
  /\ UNCHANGED <<preg, c, creg, token, queueVars, batchVars, fileVars, stop, r_time_out_flag, envVars>>

\* The end of read_cache: stop is rewritten.
PLeave ==
  /\ PGoto("leave", "dead")
  /\ stop' = IF r_time_out_flag # 1 THEN 1 ELSE 0
  /\ UNCHANGED <<preg, c, creg, token, queueVars, batchVars, fileVars, wait_stop, r_time_out_flag, envVars>>

\* Undefined behaviour: a store past jobsqueue_date, or a poll of registers
\* that usb_write_handler has already unmapped.  The process is lost.
PWild ==
  /\ \/ p = "store" /\ node \notin Cell
     \/ p \in {"poll", "store"} /\ c = "idle"
  /\ p' = "wild"
  /\ UNCHANGED <<preg, c, creg, token, queueVars, batchVars, fileVars, flagVars, envVars>>

Producer ==
  \/ PInit \/ PReady \/ PCheck \/ PStore \/ PNoMem \/ PLoadNode \/ PBumpNode
  \/ PLoadToken \/ PCredit \/ PStopCheck \/ PLeave \/ PWild

-----------------------------------------------------------------------------
(* creat_job_thread, the writing thread, from usb_write_handler's entry to *)
(* its exit.                                                               *)

\* stop = 1 of writ_usb, the handshake reset, the file and the thread.
CStart ==
  /\ CGoto("idle", "top") /\ p \in {"none", "dead"} /\ is_active = 1
  /\ p' = "init"
  /\ mod' \in Modes /\ sfd' = TRUE /\ wr_size' = 0 /\ start_stop' = 0
  /\ stop' = 1 /\ wait_stop' = 0 /\ msg' = "START"
  /\ UNCHANGED <<preg, creg, token, queueVars, batchVars, r_time_out_flag, is_active, is_start>>

\* descriptor_generation found no space: no thread, straight to the exit.
CStartFull ==
  /\ c = "idle" /\ p \in {"none", "dead"} /\ is_active = 1 /\ May("full")
  /\ mod' \in Modes \ {"LOOP"} /\ sfd' = FALSE
  /\ stop' = 0 /\ wait_stop' = 0 /\ r_time_out_flag' = 0 /\ msg' = "STOP"
  /\ UNCHANGED <<p, preg, c, creg, token, queueVars, batchVars, wr_size, start_stop, is_active, is_start>>

\* Seeded fault: the wait for the acknowledgement at the wrong exit.
CTopWaitsForAck ==
  /\ c = "top" /\ c' = IF stop <= 0 THEN "spin1" ELSE "notify"
  /\ UNCHANGED <<p, preg, creg, token, queueVars, batchVars, fileVars, flagVars, envVars>>

\* The loop head: a stop set elsewhere ends the session here.
CTop ==
  /\ c = "top" /\ c' = IF stop <= 0 THEN "spin0" ELSE "notify"
  /\ UNCHANGED <<p, preg, creg, token, queueVars, batchVars, fileVars, flagVars, envVars>>

\* while ( wait_stop != 0 ) usleep( 0 );
CSpin0 ==
  /\ CGoto("spin0", "join") /\ wait_stop = 0
  /\ UNCHANGED <<p, preg, creg, token, queueVars, batchVars, fileVars, flagVars, envVars>>

\* Seeded fault: the notification of the user is read and ignored.
CNotifyDeaf ==
  /\ c = "notify" /\ stop' = 1
  /\ c' = IF start_stop < 0 THEN "spin1" ELSE "fetch"
  /\ UNCHANGED <<p, preg, creg, token, queueVars, batchVars, fileVars, wait_stop, r_time_out_flag, envVars>>

\* Seeded fault: the loop goes on after the STOP and leaves at its head.
CNotifyGoesOn ==
  /\ c = "notify"
  /\ stop' = CASE is_start = "START" -> 1 [] is_start = "STOP" -> 0 [] OTHER -> -1
  /\ c' = IF start_stop < 0 THEN "spin1" ELSE "fetch"
  /\ UNCHANGED <<p, preg, creg, token, queueVars, batchVars, fileVars, wait_stop, r_time_out_flag, envVars>>

\* stop = recv_usb_notify(), then the test of start_stop.
CNotify ==
  /\ c = "notify"
  /\ stop' = CASE is_start = "START" -> 1 [] is_start = "STOP" -> 0 [] OTHER -> -1
  /\ c' = IF stop' <= 0 THEN "join" ELSE IF start_stop < 0 THEN "spin1" ELSE "fetch"
  /\ UNCHANGED <<p, preg, creg, token, queueVars, batchVars, fileVars, wait_stop, r_time_out_flag, envVars>>

\* while ( wait_stop != 1 ) usleep( 0 );
CSpin1 ==
  /\ CGoto("spin1", "join") /\ wait_stop = 1
  /\ stop' = 0
  /\ UNCHANGED <<p, preg, creg, token, queueVars, batchVars, fileVars, wait_stop, r_time_out_flag, envVars>>

\* fetch_token: n = min( token, size ), after tokens arrived or 27 s passed.
\* The second slept before it outlasts the start of read_cache.
CFetch ==
  /\ CGoto("fetch", "sub") /\ p # "init"
  /\ May("overlap") \/ ~Handling
  /\ count' = Min(token, Burst)
  /\ UNCHANGED <<p, preg, creg, token, queueVars, base, i, ret, written, fileVars, flagVars, envVars>>

\* fetch_token: mem->token -= n
CLoadToken ==
  /\ CGoto("sub", "subbed") /\ creg' = token
  /\ UNCHANGED <<p, preg, token, queueVars, batchVars, fileVars, flagVars, envVars>>

\* Seeded fault: the requested size is deducted instead of n.
CTakeBurst ==
  /\ CGoto("subbed", "fetched") /\ token' = creg - Burst
  /\ UNCHANGED <<p, preg, creg, queueVars, batchVars, fileVars, flagVars, envVars>>

CTake ==
  /\ CGoto("subbed", "fetched") /\ token' = creg - count
  /\ UNCHANGED <<p, preg, creg, queueVars, batchVars, fileVars, flagVars, envVars>>

CFetched ==
  /\ c = "fetched" /\ count >= 0
  /\ c' = IF r_time_out_flag = 1 THEN "join" ELSE IF count = 0 THEN "top" ELSE "swap"
  /\ UNCHANGED <<p, preg, creg, token, queueVars, batchVars, fileVars, flagVars, envVars>>

\* fetch_token() < 0: creat_job_thread returns without joining read_cache.
CAbort ==
  /\ CGoto("fetched", "idle") /\ count < 0
  /\ r_time_out_flag' = 0 /\ msg' = "STOP"
  /\ UNCHANGED <<p, preg, creg, token, queueVars, batchVars, fileVars, stop, wait_stop, is_active, is_start>>

\* Seeded faults: the batch taken at squeue_t.node, squeue_t.node left where it
\* is, and the flag of the active half left alone.
CSwapAtNode ==
  /\ CGoto("swap", "write")
  /\ base' = node /\ act' = OtherHalf /\ node' = OtherHalf /\ lag' = 0
  /\ i' = 0 /\ ret' = "err"
  /\ UNCHANGED <<p, preg, creg, token, cells, live, count, written, fileVars, flagVars, envVars>>

CSwapKeepsNode ==
  /\ CGoto("swap", "write")
  /\ base' = act /\ act' = OtherHalf /\ lag' = 0
  /\ i' = 0 /\ ret' = "err"
  /\ UNCHANGED <<p, preg, creg, token, cells, live, node, count, written, fileVars, flagVars, envVars>>

CSwapKeepsHalf ==
  /\ CGoto("swap", "write")
  /\ base' = act /\ act' = act /\ node' = act /\ lag' = 0
  /\ i' = 0 /\ ret' = "err"
  /\ UNCHANGED <<p, preg, creg, token, cells, live, count, written, fileVars, flagVars, envVars>>

\* node_seach, and wr_usb up to its loop.
CSwap ==
  /\ CGoto("swap", "write")
  /\ base' = act /\ act' = OtherHalf /\ node' = OtherHalf /\ lag' = 0
  /\ i' = 0 /\ ret' = "err"
  /\ UNCHANGED <<p, preg, creg, token, cells, live, count, written, fileVars, flagVars, envVars>>

\* Seeded fault: the batch is started over in the next file.
CFileFullRewinds ==
  /\ c = "write" /\ i < count /\ wr_size >= FileMax /\ mod # "SIG"
  /\ wr_size' = 0 /\ sfd' = TRUE /\ i' = 0
  /\ UNCHANGED <<p, preg, c, creg, token, queueVars, count, base, ret, written, mod>>
  /\ UNCHANGED <<start_stop, flagVars, envVars>>

\* wr_usb: the file is full.  A single recording ends here, the other modes
\* close it and go on in descriptor_generation.
CFileFull ==
  /\ c = "write" /\ i < count /\ wr_size >= FileMax
  /\ wr_size' = 0
  /\ \/ /\ mod = "SIG" /\ c' = "free"
        /\ start_stop' = -1 /\ stop' = 0 /\ UNCHANGED sfd
     \/ /\ mod # "SIG" /\ c' = "mode"
        /\ sfd' = FALSE /\ UNCHANGED <<start_stop, stop>>
  /\ UNCHANGED <<p, preg, creg, token, queueVars, batchVars, mod, wait_stop, r_time_out_flag, envVars>>

\* mod_manage: result 4, no space left, exists in the segmented mode only.  The
\* directory of a pulled stick may belong to the small root file system.
CMode ==
  /\ c = "mode"
  /\ \/ c' = "open" /\ UNCHANGED stop
     \/ /\ c' = "nofile" /\ stop' = 0
        /\ mod = "SEG" /\ (May("full") \/ is_active = 0)
  /\ UNCHANGED <<p, preg, creg, token, queueVars, batchVars, fileVars, wait_stop>>
  /\ UNCHANGED <<r_time_out_flag, envVars>>

\* open() of the next file: descriptor_generation retries until it succeeds.
COpen ==
  /\ c = "open"
  /\ \/ c' = "write" /\ sfd' = TRUE
     \/ c' = "mode" /\ (is_active = 0 \/ May("werr")) /\ UNCHANGED sfd
  /\ UNCHANGED <<p, preg, creg, token, queueVars, batchVars, mod, wr_size, start_stop>>
  /\ UNCHANGED <<flagVars, envVars>>

CNoFile ==
  /\ CGoto("nofile", "free") /\ r_time_out_flag' = 1
  /\ UNCHANGED <<p, preg, creg, token, queueVars, batchVars, fileVars, stop, wait_stop, envVars>>

\* wr_usb: write() of one frame; a failure is forgotten when another frame follows.
CWrite ==
  /\ c = "write" /\ i < count /\ wr_size < FileMax
  /\ LET date == cells[base + i] IN
       /\ written' = IF date = None THEN written ELSE date
       /\ \/ /\ date # None /\ sfd
             /\ ret' = "ok" /\ wr_size' = wr_size + 1
          \/ /\ date = None \/ ~sfd \/ is_active = 0 \/ May("werr")
             /\ ret' = "err" /\ UNCHANGED wr_size
  /\ i' = i + 1
  /\ UNCHANGED <<p, preg, c, creg, token, queueVars, count, base, mod, sfd, start_stop, flagVars, envVars>>

CBatchDone ==
  /\ CGoto("write", "free") /\ i = count
  /\ UNCHANGED <<p, preg, creg, token, queueVars, batchVars, fileVars, flagVars, envVars>>

\* Seeded faults: the cells keep the freed pointers, or nothing is freed.
DestoryDangling(range) ==
  /\ live' = live \ {cells[k] : k \in range} /\ cells' = cells

DestoryLeaks(range) ==
  /\ live' = live /\ cells' = [k \in Cell |-> IF k \in range THEN None ELSE cells[k]]

\* destory_date( count, node ): free() the cells of a range and clear them.
Destory(range) ==
  /\ live' = live \ {cells[k] : k \in range}
  /\ cells' = [k \in Cell |-> IF k \in range THEN None ELSE cells[k]]

CFree ==
  /\ c = "free" /\ c' = IF ret = "err" THEN "join" ELSE "top"
  /\ Destory(Batch)
  /\ UNCHANGED <<p, preg, creg, token, node, act, lag, batchVars, fileVars, flagVars, envVars>>

\* Seeded fault: the join returns at once.
CJoinEarly ==
  /\ CGoto("join", "clean")
  /\ UNCHANGED <<p, preg, creg, token, queueVars, batchVars, fileVars, flagVars, envVars>>

\* pthread_join of read_cache.
CJoin ==
  /\ CGoto("join", "clean") /\ p = "dead"
  /\ UNCHANGED <<p, preg, creg, token, queueVars, batchVars, fileVars, flagVars, envVars>>

\* Seeded fault: clean_date swaps the halves and forgets to free the old one.
CCleanLeaks ==
  /\ CGoto("clean", "idle")
  /\ token' = token - Min(token, Burst)
  /\ act' = OtherHalf /\ node' = OtherHalf /\ lag' = 0
  /\ sfd' = FALSE /\ r_time_out_flag' = 0 /\ msg' = "STOP"
  /\ UNCHANGED <<p, preg, creg, cells, live, batchVars, mod, wr_size, start_stop, stop, wait_stop>>
  /\ UNCHANGED <<is_active, is_start>>

\* clean_date, then the exit of usb_write_handler and the STOP of writ_usb.
CClean ==
  /\ CGoto("clean", "idle")
  /\ LET n == Min(token, Burst) IN
       /\ token' = token - n
       /\ IF n < 0 THEN UNCHANGED queueVars
          ELSE /\ act' = OtherHalf /\ node' = OtherHalf /\ lag' = 0
               /\ Destory(act .. act + n - 1)
  /\ sfd' = FALSE /\ r_time_out_flag' = 0 /\ msg' = "STOP"
  /\ UNCHANGED <<p, preg, creg, batchVars, mod, wr_size, start_stop, stop, wait_stop, is_active, is_start>>

Consumer ==
  \/ CTop \/ CSpin0 \/ CNotify \/ CSpin1 \/ CFetch \/ CLoadToken \/ CTake \/ CFetched
  \/ CAbort \/ CSwap \/ CFileFull \/ CMode \/ COpen \/ CNoFile \/ CWrite \/ CBatchDone \/ CFree
  \/ CJoin \/ CClean

-----------------------------------------------------------------------------
(* The user, the stick and the signal thread.                              *)

\* Esc while a recording runs: send_usb_stop_message( usb_sig, SIGUSR2, .. ).
UserStop ==
  /\ c # "idle" /\ msg' = "STOP"
  /\ UNCHANGED <<p, preg, c, creg, token, queueVars, batchVars, fileVars, flagVars, is_active, is_start>>

\* The SIGUSR2 handler in the thread usb_sig.
Deliver ==
  /\ msg # "none" /\ is_start' = msg /\ msg' = "none"
  /\ UNCHANGED <<p, preg, c, creg, token, queueVars, batchVars, fileVars, flagVars, is_active>>

\* thread_for_usb saw the stick removed or mounted.
Hotplug ==
  /\ May("unplug") /\ is_active' = 1 - is_active
  /\ is_active = 1 \/ c = "idle" \/ May("replug")
  /\ UNCHANGED <<p, preg, c, creg, token, queueVars, batchVars, fileVars, flagVars, is_start, msg>>

\* PWild ends the process: nothing else runs after it.
Running == p # "wild"

Next ==
  /\ Running
  /\ \/ Producer \/ PWait \/ Consumer \/ CStart \/ CStartFull
     \/ UserStop \/ Deliver \/ Hotplug

Spec == Init /\ [][Next]_vars

\* The threads and the signal run; the user, the stick and faults need not.
\* Fairness of the threads is strong: neither ever waits for the other to be
\* outside its critical section, the guards that keep them apart are timing.
FairSpec ==
  /\ Spec
  /\ SF_vars(Running /\ Producer) /\ SF_vars(Running /\ Consumer) /\ WF_vars(Running /\ Deliver)

-----------------------------------------------------------------------------
(* Properties.                                                             *)

\* Every variable stays in the range its C type and its use give it.
TypeOK ==
  /\ p \in {"none", "init", "poll", "check", "store", "stopchk", "leave", "dead", "wild"}
            \cup {"bump", "bumped", "credit", "credited"}
  /\ c \in {"idle", "top", "spin0", "notify", "spin1", "fetch", "free", "join", "clean"}
            \cup {"sub", "subbed", "fetched", "swap", "write", "mode", "open", "nofile"}
  /\ preg \in Int /\ creg \in Int /\ token \in Int
  /\ cells \in [Cell -> Buf \cup {None}] /\ live \subseteq Buf
  /\ node \in 0 .. 255 /\ act \in {0, Seg} /\ lag \in Nat
  /\ count \in Int /\ count <= Burst /\ base \in {0, Seg} /\ i \in Nat
  /\ ret \in {"ok", "err"} /\ written \in Buf \cup {None}
  /\ mod \in Modes /\ sfd \in BOOLEAN /\ wr_size \in Nat /\ start_stop \in {-1, 0}
  /\ stop \in {-1, 0, 1} /\ wait_stop \in {0, 1} /\ r_time_out_flag \in {0, 1}
  /\ is_active \in {0, 1} /\ is_start \in {"unset", "START", "STOP"}
  /\ msg \in {"none", "START", "STOP"}

\* Whatever goes wrong, jobsqueue_date never holds a freed buffer and never
\* the same buffer twice: wr_usb and destory_date cannot use or free one again.
MemorySafe ==
  /\ \A k \in Cell : cells[k] # None => cells[k] \in live
  /\ \A k, l \in Cell : cells[k] = cells[l] /\ cells[k] # None => k = l

\* read_cache never runs outside the session that created it: by the time
\* usb_write_handler unmaps the FPGA memory the thread has ended.
ProducerInsideSession == c = "idle" => p \in {"none", "dead"}

\* Why that holds although token_hander and fetch_token race on the bucket: the
\* bucket is never overdrawn, because a lost update can only leave it too full,
\* so fetch_token is never negative and creat_job_thread always joins.
NeverOverdrawn ==
  /\ token >= 0
  /\ c \in {"sub", "subbed", "fetched"} => count >= 0
  /\ c = "sub" => count <= token
  /\ c = "subbed" => count <= creg /\ Min(creg - count, Burst) <= token + 1
  /\ p = "credited" => Min(token, Burst) <= preg + 1
  /\ p = "credited" /\ c = "subbed" => Min(creg - count, Burst) <= preg + 1
  /\ p = "init" => c \in {"top", "spin0", "notify", "spin1", "fetch", "join"}
  /\ c = "clean" => p = "dead"

\* While wr_usb works on a batch, token_hander does not store into it, nor
\* anywhere outside jobsqueue_date.
Isolation ==
  /\ Writing /\ p = "store" => node \notin Batch
  /\ p # "wild"

\* Outside their two critical sections the bucket counts exactly the frames
\* waiting in the active half.
Conservation == ~Handling /\ ~Fetching => token = node - act

\* A session that ended gave every half-buffer it allocated back.
LeakFree == c = "idle" => live = {}

Frames(lo, hi) == [k \in 1 .. hi - lo |-> cells[lo + k - 1]]

FIFO == INSTANCE FrameQueue WITH
  Frame <- Buf,
  queue <- (IF c \in {"write", "mode", "open", "nofile"} THEN Frames(base + i, base + count) ELSE <<>>)
             \o Frames(act, node),
  written <- written

\* The recorder implements the frame queue: frames reach write() in the order
\* the FPGA delivered them, none twice, none overtaken.
InOrder == FIFO!Spec

\* creat_job_thread waits at the head of its loop for read_cache not to have
\* acknowledged, and it has: wait_stop is only cleared when a session starts.
Stuck == c = "spin0" /\ wait_stop = 1

\* The two waits for wait_stop.  The one after a single recording is entered
\* only when read_cache has acknowledged already; the one at the head of the
\* loop never ends only after the writing thread itself has set stop: a single
\* recording reached its size, or a segmented one has no space for a file.
WaitsEnd ==
  /\ c = "spin1" => wait_stop = 1
  /\ Stuck => start_stop = -1 \/ (mod = "SEG" /\ ~sfd)

\* Neither a timeout of the FPGA nor a pulled stick breaks the loop.
Healthy == [](r_time_out_flag = 0 /\ is_active = 1)

\* Once the STOP of the user has been delivered, a healthy session ends, unless
\* its wait at the head of the loop never does.
StopEnds ==
  Healthy =>
    ((msg = "none" /\ is_start = "STOP" /\ c # "idle") ~> (c = "idle" \/ Stuck))

\* A single recording that reached its size ends.  It does not always, see
\* WaitsEnd (rec_single.cfg).
SingleEnds == Healthy => ((start_stop = -1 /\ c = "top") ~> (c = "idle"))

\* A pulled stick ends a session, unless it comes back, the next file cannot
\* be opened (descriptor_generation retries open for ever), earlier such
\* sessions exhausted the memory (they leak the half-buffers that the break
\* after fetch_token leaves behind), or the wait at the head of the loop hangs.
UnplugEnds ==
  (is_active = 0) ~>
    (c \in {"idle", "mode", "open"} \/ is_active = 1 \/ live = Buf \/ Stuck)

\* While the recorder is healthy every captured half-buffer is eventually
\* released, long recordings included, unless the session hangs as above.
Drained == Healthy => \A b \in Buf : (b \in live) ~> (b \notin live \/ Stuck)

\* mod_manage calls its result 4 (no space left) the unconditional end of the
\* recording: when it is met while rotating files the session must end.
DiskFullEnds == (c = "nofile") ~> (c = "idle")
=============================================================================
