# Verification of the DVB encoder/recorder software (`ydnproject`)

The program runs on an embedded Linux set: an H.264 encoder with an ASI/DVB output,
a two-line LCD with six keys, and a USB port on which transport streams are recorded
and played back. It is one multi-threaded C process. This directory holds TLA+
modules for its core, the TLC configurations that check them and the TLAPS proofs
about them. Paths below are relative to `src/ydnproject/src/`.

    tlc -workers 2 -config rec_clean.cfg MCRecorder    # one run
    tlapm RecorderProofs.tla                           # the proofs of one component

The proofs are in `RecorderProofs`, `RecordNamingProofs`, `UsbHotplugProofs`,
`UsbSessionProofs`, `H46ScriptsProofs`, `ModeLoopProofs`, `MenuNavProofs` and
`PlaybackProofs`.

## 1. Inventory

### Threads

| thread | entry | role |
|---|---|---|
| `p_usb` | `usb/usbhotplug.c thread_for_usb` | reads kernel uevents, mounts and forgets the stick, arms automatic recording |
| `p_lcd` | `dvb_menu/lcd1602.c lcd_main` | keys, menus, LCD; starts automatic recordings |
| `p_dsplay` | `user_desplay_monitor` | status pages |
| `p_mem` | `common/freememscript.c mem_manage` | releases registered memory |
| `action_usbop` | `user_operation_usb` | runs recordings and playbacks *inside* its SIGUSR1 handler |
| `usb_sig` | `common/usb_signal.c` | SIGUSR2 handler: START/STOP of the running session |
| main | `main/main_start.c main_loop` | follows the video input and reconfigures the encoder |
| `read_cache`, per session | `write_usb/writebus.c` | copies the FPGA's half-buffers to the heap |

They share globals (`discontrl`, `usb_dev_info`, `g_signal_t`, `squeue_t`,
`jobsqueue_date`, `stop`, `wait_stop`, `r_time_out_flag`, the configuration) almost
without locks. What keeps them apart is timing, pending-signal semantics and the
order of plain assignments; that is what the models are about.

### Components

* **Recorder** (`write_usb/writebus.c`). State: two halves of 50 pointers in
  `jobsqueue_date`, `squeue_t {flag,node}`, the bucket `token->token`, three flags.
  `read_cache` stores a frame and credits a token; `creat_job_thread` takes the
  tokens, swaps the halves, writes and frees the batch, rotates files; it waits for
  `read_cache` through `stop`/`wait_stop`. Hard: unlocked read-modify-writes,
  two exits that spin on a flag, a stick pulled, a disk full, a failing `calloc` or
  `write`. Correct means: no frame freed twice or used after free, none stored into
  the batch being written, order kept, every session ends and leaves a clean queue.
* **File naming** (`writebus.c descriptor_generation`, `management_document`;
  `common/init-configuration.c config_set_config`). State: `WriteRecord` in
  `/etc/dvb.conf`, the loop's upper end, what is on the stick. Hard: three digits,
  `O_TRUNC`, power failure between create and update, wrap on a full stick.
  Correct means: no earlier recording is overwritten, except by a loop its own.
* **Hotplug and USB menu** (`usb/usbhotplug.c`, `usb/usbinfo.c`). State:
  `usb_dev_info`, the uevent socket, mounts, three static flags. Hard: events lost
  or about other devices, `umount2` with a file open, eject in two threads at once,
  `rm -rf` of the mount point. Correct means: online iff plugged in and mounted, and
  an eject never deletes recordings.
* **Session signalling** (`common/usb_signal.c`, `common/common_interface.c`, parts of
  `lcd1602.c`, `menu_foun.c`, `writebus.c`, `readbus.c`). SIGUSR1 carries a routine in
  a global and a pointer to a static record; SIGUSR2 carries START/STOP in another
  static record. Hard: pending signals merge, records are overwritten before they are
  read, the auto-record flag has three writers. Correct means: a STOP stops the
  session it was meant for, each routine gets its own record, automatic recording
  starts whenever a stick is plugged in.
* **Playback** (`read_usb/readbus.c`): the recorder's counterpart in one thread. State:
  the recording being read, `item` and `i` of the loops, `r_time_out_flag`, two
  mappings, one descriptor. Hard: three nested loops whose exits are a stop, an error,
  an FPGA that asks for nothing, a stick pulled; resources released on some of them.
  Correct means: recordings in order from the chosen one, and every stop is heard.
* **Main loop** (`main/main_start.c`, `main_call.c`). State: the code read last and the
  one programmed last, `pid_status`, the lock `menu_exit`, the key signal's mask. It
  programs clock, receiver, encoder, modulator and multiplexer from the configuration,
  and so do the saves of the menu, from signal handlers, over the same serial line.
  Correct means: whatever the order, all chips end up as the file says, scripts are not
  mixed, the loop comes to rest.
* **Encoder, receiver and clock** (`h46_config/h46-set.c`, `adv7842_config/`,
  `cy22393_config/`, the mode tables in `dvb_menu/dev-info.c`). No state but the chips'
  registers; a command lost on the serial line shifts a value to the wrong register.
* **Menus and display** (`dvb_menu/lcd1602.c`, `menu_foun.c`, `dev-info.c`,
  `config_menu_opt.c`, `common/common_conf.c`). State: menu shown, selection, window,
  `menu_return_arr`, the editor and its count of enters, the key lock, the static counts
  of the status pages. Five threads write it. Correct means: the stack fits the menu,
  every way back leads to where the user was, enter runs what is shown.
* **Configuration and memory** (`common/init-configuration.c`, `c-file.c`,
  `freememscript.c`), **helpers** (`math_instance.c`), **bus and table upload**
  (`clientw/reset-oparetion.c`, `table/gen_alltable.c`, `section_put.c`, `demux.c`,
  `decode_*.c`). Only what the models above read of them.
* **Left aside**: `table/` otherwise is a vendored libdvbpsi; `gpio_config` and `i2c-wr.c`
  are I/O without state of their own.

`PROJECT.json` lists each of them with its status, and under `hazards` what in this
code a test would hardly reach, at its line, with the properties that cover it.

## 2. Plan

Built: `FrameQueue` and `Recorder`, `RecordNaming`, `UsbHotplug`, `UsbSession`;
`H46Scripts`, `VideoFormats` and `MenuSaves`, which `ModeLoop` extends; `MenuTree`, which
`MenuNav` extends; `Playback`; and for each of the state machines, and for the scripts, a
module of proofs (section 6). In order of importance, still to do:

1. Proofs: `FramesInOrder` with failing writes, which needs an invariant of its own.
2. `ConfigFile`: rewriting `/etc/dvb.conf` with a crash between its steps.
3. `TableUpload`: section collection, continuity and the upload handshake.
4. `Numbers`: `gcvt_char` and the other conversions against a reference, and the
   float timers.
5. A composition of `UsbSession`, `MenuNav` and `UsbHotplug`, in which the assumptions
   each makes of the others are discharged or refuted.

## 3. The modules

### FrameQueue

The abstract promise of a recorder: a queue that frames enter at one end and leave, to
`write()` or dropped from the head, at the other.

### Recorder (checked through MCRecorder)

`p` and `c` are the program counters of `read_cache` and of the thread that runs
`usb_write_handler` and `creat_job_thread`. Every read-modify-write of `squeue_t.node`
and of the bucket is two actions (`PLoadNode`/`PBumpNode`, `PLoadToken`/`PCredit`,
`CLoadToken`/`CTake`), so an update can be lost. The bucket may be negative, `node`
wraps at 256. `stop`, `wait_stop` and `r_time_out_flag` are set exactly where the code
sets them, including the two waits `CSpin0` and `CSpin1`. `PWild` stands for the two
kinds of undefined behaviour, a store past `jobsqueue_date` and a poll of memory that
`usb_write_handler` has unmapped, and ends the process. `UserStop`, `Deliver` and
`Hotplug` are the key handler, the SIGUSR2 handler and `is_active` as the other threads
set it.

Timing that the code relies on is written as guards, each with a name:

* `Lag`: between two swaps the FPGA delivers at most `Lag` frames (in the code up to
  49, as `fetch_token` is woken by the first token and a frame takes longer than a
  write). The two waits and the join are exempt: there nobody swaps.
* Without `"overlap"`, `token_hander` does not run inside the few instructions from
  `fetch_token` to `node_seach`, or the other way round.
* The second that `creat_job_thread` sleeps outlasts `tokens_init` of the new thread.

Faults (`Adversity`): `overlap`, `nomem`, `nomemrace` (`calloc` fails inside that window), `silent` (37 s without a signal), `unplug`,
`replug`, `werr`, `full`. Each run names those it allows.

### RecordNaming

A file is its number. `count` is `WriteRecord` on disk, `next` and `first` are
`next_incom_count` and `first_incom_count`, `off` the switch of the wrap. `Order` is
the rollover of `management_document`, `Stored` what `config_set_config` makes of a
number with four digits (it keeps three characters). `Open` truncates and `Save`
persists in separate steps, and `PowerFail` may fall between any two. `Limit` and
`Base` are 1000 and 10 in the code, smaller here.

### UsbHotplug

`pc` is `thread_for_usb`, `menu` the key thread in "Disk usage" (`loop_usb_sat`) or
"Remove device" (`manu_do_mount_dev`, `eject_usb`). `events` is the socket's receive
buffer, `mounts` the stack of mounts on the one mount point, with 0 for a mount whose
device is gone, `busy` the mount on which a recording holds a file. The kernel
(`Plug`, `Unplug`, `Foreign`), `umount2` and `mount()` are external and modelled by
how the code uses them.

### UsbSession

`usr1` and `usr2` are the pending signals, at most one of each kind; `usb_wrhandler`
and `usb_cation` are the globals they refer to. `lcd`, `key`, `hot` and `op` are the
four threads. A session is one step `run`; inside it is `Recorder`.
Without `"quick"` and `"both"` a stick is not replugged before its last session is over
and the user does not start a session while an automatic one is starting. The user is
assumed slower than a pair of signals sent back to back.

### H46Scripts, VideoFormats, MenuSaves

Pure definitions. `H46Scripts` has the eight scripts the mode tables refer to, as
sections of commands with the registers they address, the arithmetic of the bit rates,
and what the chip makes of a sequence of commands (`Run`), including a value whose
address was lost. `VideoFormats` has the rows of the mode tables, how the receiver's
measurement becomes a code, and `usercode_mod`, which chooses the row. `MenuSaves` has
each entry of the menu that is saved: its field and which of five steps follow.

### ModeLoop (checked through MCModeLoop)

`mpc` is the main loop, `hpc` the saves being handled, on the main thread (1) or another
(2); `at` is the section each of them is about to send, `chip` what the encoder received
since its reset. A save flips a field of `file`, and follows its entry of `MenuSaves` to
the end. `Key` runs on the main thread unless the signal is masked or being handled
there, as the kernel delivers it; `BootTimeout` drops the lock after four seconds.
`Encoder` computes the registers, `Wanted` what they should be. After two scripts were
mixed the chip is `Mixed`, and not followed further until its next reset.

### MenuTree and MenuNav

`MenuTree` has every table of `common_conf.c` as a sequence of entries (child, function)
with the parent and count that the navigation reads. `MenuNav` has one action per kind
of key: in a menu (`Up`, `Down`, `EscKey`, and one `Enter...` for each kind of
function), in an editor (`Edit...`), the key lock, and the threads that interfere: the
prompt for a stick (`Plug`), an automatic recording, the end of a session. `nav` is the
record of the menu variables; its helpers bear the names of the code. `wild` says that
an entry outside its table was used; `displaced` that `current_menu` has restored the
selection of another menu, `cut` that a page lost the display to a session. The last two
are read by properties only.

### Playback

`pc` is `action_usbop` from `read_usb` to its return, with one action for each place
where a loop of `segment_read_ts_strem`, `loop_read_ts_strem` or `readusb` decides.
`segment` is the half of the buffer written next and `wanted` the one the FPGA asks for.
`ts_fd` says who owns the descriptor *number* that `usb_read_handler` keeps: it is
closed in the loops and once more at the end. `dead` is the use of unmapped memory.
`leaked` counts the descriptors nobody will close; `Archive` adds three when the chosen
recording is not in the sequence found on the stick, as `usb_read_handler` then returns at
once (fault `gap`).

Operators whose comment begins "Seeded fault" are not used by any specification. Each is
a plausible mistake in the definition that follows it; substituting it must break the
property it is paired with in `PROJECT.json`, which shows that the property depends on
the code.

## 4. The runs

| run | module | shows | bounds |
|---|---|---|---|
| `rec_clean` | MCRecorder | `TypeOK`, `Conservation`, `Isolation`, `LeakFree`, `WaitsEnd` and `InOrder` (implements `FrameQueue`) without faults | 3 cells a half, `Lag` 2, 5 buffers, files of 2 frames, all modes |
| `rec_live` | MCRecorder | `StopEnds`, `Drained` while the recorder is healthy, `UnplugEnds` (liveness), each but for the wait that hangs | 3 cells, `Lag` 2, 3 buffers, files of 1 frame, all modes, one session that writes, `unplug`, `silent` |
| `rec_faults` | MCRecorder | `MemorySafe`, `ProducerInsideSession`, `NeverOverdrawn` with `overlap`, FPGA timeouts, failing `calloc`, `open`, `write` and no space | 2 cells, 2 buffers, segmented mode |
| `rec_full` | MCRecorder | **finding**: no space in mid-batch hangs the session | 3 cells, segmented mode |
| `name_all` | RecordNaming | `TypeOK`, `NamesFit`, `NoClobber`, `LoopKeepsOthers` with failing opens and power failures, across the rollover | `Limit` 5, numbers to 7, 3 sessions |
| `name_wrap` | RecordNaming | **finding**: a loop goes on in its last file only | numbers to 6, 1 session |
| `hp_all` | UsbHotplug | `TypeOK`, `OnlineIsPresent`, `PresentIsOnline`, `NoWipe`, `RemovalSeen` with lost and foreign events and failing mounts | buffer of 5 events, plugged in 3 times |
| `hp_foreign` | UsbHotplug | **finding**: removing any other device takes the stick offline | plugged in once |
| `ml_all` | MCModeLoop | `TypeOK`, `Synced`, `OneProgrammer`, `LossContained`, `MuxCovers`, `Settles`: formats that change, saves anywhere in the loop, the boot timer, a lost command | 7 signals on 3 interfaces, one of them a code without a row, 3 kinds of save, 2 events |
| `nav_all` | MenuNav | `TypeOK`, `DepthMatches`, `OwnSelection`, `PagesReset`, `EscReturns` with the key lock, hotplug, automatic recording and an abandoned Start record | 7 menus below the main menu, a stick put in once, selection to 7 |
| `play_all` | Playback | `TypeOK`, `InOrder`, `Ends` with every fault | 3 recordings of 2 blocks, 2 playbacks |
| `us_calm` | UsbSession | `TypeOK`, `StopIsMine`, `PayloadMatches`, `EscEnds`, `AutoStarts` | none: the state is finite |

Why the bounds suffice. A half of three cells holds an empty, a partial and the largest
batch that `Lag` allows, and one cell more, so off-by-one errors of the swap and of
`destory_date` show; five buffers let one batch be written while the next fills, and
nothing in the code depends on how many there are otherwise. Files of one or two frames
make batches cross a file boundary. Two cells are enough in `rec_faults`, where the
question is which update is lost, not how long a batch is. Sessions are unbounded
in `Recorder` (it loops through `idle`), so whatever a session leaves behind meets the
next one. `rec_live` needs three cells: with `Lag` 2 a single recording of one frame reaches
its size with a second frame in the batch, which is when `read_cache` can acknowledge before
the batch is done. To keep its graph small `MCRecorder` adds two bounds: `LeastFree`, that
`calloc` returns the least free buffer (buffers differ in name only, and symmetry cannot be
used with liveness), and `FreshStart`, that a session follows only those that wrote nothing
and left nothing behind. Numbers past `Limit` cross the rollover more than once, and a stick that
starts with any number of files makes the first recording meet every case. Three plugs
let a stick be pulled, replugged and ejected with the effects of each still pending; a
buffer of five events loses some of them. `rec_faults` switches deadlock checking off
because there the process can be lost (`PWild`), after which nothing runs.

In `ml_all` two events are enough for the patterns the loop has to survive: a save during
a save, a save during or just after a change of format, a save and a lost command; each
field of a save is exercised by its kind (`text_networkid_save` programs by itself,
`text_videotare_save` asks the main loop, `rf_comm` sets the modulator). In `nav_all` the
seven menus hold every kind of entry (menus, status pages, editors with and without a
table of their own, Start record, the list of recordings) down to the fourth level; more
menus add entries of the same kinds, and those that lead to them are not pressed.
`ChooseMax` bounds how far a selection outside its table, which would move on without end,
is moved down or up; a stick with recordings holds two of them. In `play_all` a third recording tells "the last"
from "the next", and a second playback meets what the first left.

Fairness. The threads of `Recorder` are strongly fair: no lock makes one wait until the
other leaves its section, the guards that keep them apart stand for time that passes.
In `UsbHotplug` and `UsbSession` each thread and each signal delivery is weakly fair, as
the kernel schedules every runnable thread and delivers every pending signal. In `ModeLoop`
the main loop, each save being handled and the boot timer are weakly fair, in `Playback`
the player is; `MenuNav` claims no liveness. The user,
the stick, a recording that goes on and every fault have no fairness. `UnplugEnds`
names four exceptions that the code really has: the retry of `open`, memory exhausted
by leaked half-buffers, a stick that comes back, and `Stuck`: `creat_job_thread` waits at
the head of its loop for `wait_stop` to become 0, which nobody sets once `read_cache` has
acknowledged. `StopEnds` and `Drained` except `Stuck` alone, and `WaitsEnd` says when it can
happen: only after the writing thread itself has cleared `stop`, because a single recording
reached its size or a segmented one found no space, never by the stop of the user.

Several modules have history variables that no action's guard reads: `early`, `second`
of `ModeLoop`, `displaced`, `cut` of `MenuNav`, `again` of `RecordNaming`
(were numbers reused, and by whom) and `missed` of `UsbHotplug` (was an event of this
stick lost, or of another device, or did its mount fail). They say when a promise of
the code ends: file names after the numbers ran out, the report of a stick after an
event it depends on went missing.

## 5. Findings

Three runs are expected to fail; `PROJECT.json` quotes the text each contradicts.

* `rec_full` - no space met while rotating files in the middle of a batch leaves
  `wait_stop` at 1 and `creat_job_thread` in `while ( wait_stop != 0 )` for ever.
* `name_wrap` - after its first pass over a full stick a loop recording rewrites its
  last file instead of the first.
* `hp_foreign` - the removal of any other device takes the stick offline.

More configurations reproduce what the models showed on the way; each is violated:

* `rec_single.cfg` (`SingleEnds`) - the wait of `rec_full` hangs without any fault, too. A
  single recording that reaches its size in the middle of a batch clears `stop`
  (`writebus.c:548`) and writes the rest of the batch; when `read_cache` acknowledges
  meanwhile, `creat_job_thread` waits at `writebus.c:801` for ever, and the half-buffers
  captured since stay allocated.
* `ml_slow.cfg` (`MuxCovers`) - at the lowest video bit rate that the menu accepts, 500 kbit/s,
  the rate of the multiplex is too low after a change to a faster format, as it was computed
  for the frame rate of the format before. It was met when `RateSuffices` could not be proved.
* `hp_bounce.cfg` - a stick plugged in again before its removal was handled can stay
  offline.
* `hp_eject.cfg` (`OnlineIsPresent`) - a failing eject leaves an unmounted stick online.
* `hp_parts.cfg` (`NoWipe`) - with two partitions the eject deletes the files of one.
* `hp_usage.cfg` (`UsageAnswers`) - one timeout of "Disk usage" disables it until restart.
* `us_quick.cfg` (`AutoKept`) - the end of a session disarms automatic recording of a
  stick plugged in meanwhile.
* `nav_third.cfg` (`ThirdPressSaves`) - after Start record was left with esc,
  `usb_wr_flag` stays at START: the next editor of options does not save at the third
  press (comment at `lcd1602.c:2076`), and with Yes chosen it starts a recording.
* `nav_empty.cfg` (`DepthMatches`) - on a stick without recordings the entry "No TS file"
  names a parent two levels up: each visit leaves a level on `menu_return_arr`.
* `pb_half.cfg` (`RightHalf`) - `readusb` starts each further recording with the first
  half although the FPGA may be waiting for the second.
* `pb_fd.cfg` (`OwnDescriptor`) - in the modes of several recordings the first one's
  descriptor is closed twice, which closes a file another thread opened meanwhile.
* `pb_map.cfg` (`MapAlive`) - when a further recording cannot be opened, its mode unmaps
  the memory that `usb_read_handler` then uses.
* `pb_short.cfg` (`NothingLeaked`) - a recording of less than 2 MB is not played and its
  descriptor is lost.
* `pb_gap.cfg` (`NothingLeaked`) - when the chosen recording is not in the sequence that the
  names on the stick make, `usb_read_handler` returns (`readbus.c:1098`, `1113`) with three
  descriptors open, the memory mapped and the FPGA running.
* `pb_busy.cfg` (`UnplugEnds`) - a pulled stick whose `umount2` failed leaves the loop
  mode turning over unreadable files until the user stops it.

Seen while modelling `ModeLoop` and `MenuNav`, without a run of their own. Many HDMI
codes have no row, several because theirs is inside `#if 0` (`dev-info.c:628-722`,
`931-1025`): all of 50 Hz but 19, 20, 21, 22 and 31, all of 60 Hz but 2, 4, 5 and 16, the
codes 49 and 51, and those that are not in `auto_code`, past whose end `freq_parse_token`
then reads. The row found last is programmed again. Those of 30 Hz and of 100 Hz and more
have rows without functions, and so have YPbPr at 1080i60 and 720p60. A block length of 0,
which is no signal, becomes 65535 in an `unsigned short` (`dev-info.c:2209`) and is taken
for 1080i50 when enough lines are counted. `text_audioformat_save` returns at once and
`text_streamtsid_save` sets only `pid_status`; `str_netwrorkname_save` stores the network's
name without `pid_status` or an upload of the tables, so it is not sent until something else
uploads them. A save that the HDMI branch consumes while an
analog input is in use and has no signal is applied only when one returns. `current_menu`
restores the selection last left at this depth whatever menu is shown (the exception
`displaced`): it may lie outside the table, whose neighbours enter then calls. Two esc
within the second of "stop..." after a playback do the same. After the second enter in
Start record up and down read the options unchecked. `comm_nitlcn_mod` tests "NorDig V1"
twice (`menu_foun.c:3382`), so V2 is not handled. `AudioPidCfg` and `AudioFormatCfg`
claim more entries than their tables have.

## 6. What is proved

Each theorem is about every value of the constants: every size, number of plugs, sessions,
recordings, events and saves, and every set of faults up to the ones its hypothesis
excludes. Every invariant of the passing runs is proved, and every action property
(`InOrder` twice, `NoClobber`, `LoopKeepsOthers`, `EscReturns`).

A hypothesis excludes faults because TLC finds the property violated with them on a small
instance; so it says where the property ends. The exceptions are named below the table.

| theorem | states | excluded |
|---|---|---|
| `TypeCorrect`, `NoDanglingFrame` (Recorder) | `TypeOK`, `MemorySafe` | nothing |
| `SessionJoined`, `BucketSound` | `ProducerInsideSession`, `NeverOverdrawn` | `nomemrace` |
| `HandshakeHolds` | `WaitsEnd` | nothing |
| `BatchIsolated` | `Isolation` | `werr`, `nomem`, `overlap`, `unplug` with `replug` |
| `FramesInOrder` | `InOrder`: `Recorder` implements `FrameQueue` | as above, see below |
| `TokensConserved`, `NothingLeaks` | `Conservation`, `LeakFree` | every fault |
| `NamingTypeCorrect`, `NamesAlwaysFit`, `NothingClobbered`, `OthersKept` | all of `name_all` | nothing |
| `OnlineMeansPresent` | `OnlineIsPresent` | `scsi`, `swap`, `bounce` |
| `PresentMeansOnline` | `PresentIsOnline` | `swap`, `bounce` |
| `NothingWiped` | `NoWipe` | `swap`, `autorec`, more than one partition |
| `HotplugTypeCorrect`, `SessionTypeCorrect` | `TypeOK` | nothing |
| `StopsAreMine`, `RecordsMatch`, `AutoStaysArmed` | `StopIsMine`, `PayloadMatches`, `AutoKept` | `both`; `quick` when recording starts by itself |
| `ModeTypeCorrect`, `OneAtATime`, `AllInStep`, `LossKept` | `TypeOK`, `OneProgrammer`, `Synced`, `LossContained` | nothing |
| `RateSuffices` | `MuxCovers` | video bit rates below 987 kbit/s |
| `ImageRate`, `LostCommand` | of the scripts, for any settings | nothing |
| `NavTypeCorrect`, `StackMatchesMenu`, `SelectionIsOwn`, `PagesAreReset`, `BackToEntry` | all of `nav_all` | `empty` |
| `PlaysInOrder`, `TypeCorrect` (Playback) | `InOrder`, `TypeOK` | nothing |

Some exclusions are wider than TLC's counterexamples. The invariant behind `FramesInOrder`
implies `Isolation`, so the theorem excludes what breaks that, although on the instance of
`rec_clean` TLC finds no disorder with `werr` alone and had found none with `replug` when it
was stopped; the one behind `NothingLeaks` implies `Conservation`, which `werr` breaks,
although `LeakFree` holds with `werr` there. The results of `UsbSession` share one
invariant: without automatic recording TLC finds only `PayloadMatches` violated with `both`.

### The recorder (RecorderProofs)

Assumptions: `Lag < Burst <= Seg` and `2 * Seg < 256` (with both halves of 128 cells
`node`, which has eight bits, could not count a full second half; the code has 50).

* `TypeOK` and `MemorySafe` are inductive together: a cell gets a pointer only from
  `calloc`, which returns a buffer that is in no cell, and `destory_date` clears exactly the
  cells whose buffers it frees; that the batch lies inside the queue is `BatchInQueue`.
* `SessionInv`: two racing updates of the bucket can lose a credit or a deduction but never
  both signs against the fetcher. What is about to be stored is bounded by what was
  counted, so a fetch never sees a negative bucket and the exit without `pthread_join` is
  dead code. A `calloc` that fails between the steps of `fetch_token` is the one exception.
* `HandshakeInv`, for `WaitsEnd`, follows `stop`, `wait_stop` and the timeout through both
  threads under every fault: inside the writing loop `stop` is cleared, and `wait_stop` set,
  only for a reason of the writing thread's own (`OwnStop`: the recording reached its size, or
  there is no file for want of space), or `read_cache` has ended; the wait after the loop is
  reached only with the acknowledgement there.
* `QueueInv` adds four things to these. `Stops`: whoever leaves the writing loop has set
  `stop` or seen that `read_cache` is leaving, so that it may wait for it. `Place`: `node`
  counts the frames of the active half, at most `Lag`, and one more only while the session
  ends. `Bucket`: the tokens are the frames of the active half, the count of the batch is
  that of the other. `Filled`: every counted cell holds a frame. `Isolation` follows.
* `FramesInOrder` maps every step to one of `FrameQueue` or to a stutter: storing appends,
  each `write` and each cell that is freed unwritten takes the head, and a swap leaves the
  sequence of the two halves as it is. One lemma for each of the actions that do any of it.
* `CleanInv` adds `Exact`: no token is lost and every live buffer is in a counted cell.

### Names (RecordNamingProofs)

Assumptions: `Base` at most `Limit` and fewer than `Base * Limit` numbers. Both hold in the
code (10, 1000 and four digits); without the first, dividing a number of four digits could
leave 0, which was found when `Division` could not be proved. `NamingInv` is three parts:
`NumbersInv`, the ranges of the numbers in each place of `pc`; `FreshInv`, that until a
number is reused the recordings on the stick are exactly those counted; `LoopInv`, that a
loop's own files come after the number it came in with.

### Hotplug (UsbHotplugProofs)

Three invariants, since the three properties hold under different adversities. All use
`Alone`: while an eject is under way `thread_for_usb` mounts nothing. `OnlineInv`: a stick
that is or will be online is `Here`, or a remove event that takes it offline is on its way
(`Leaving`). Looking for it showed that a stick that bounces is reported online after its
last removal when the receive buffer holds only two events. `PresentInv`: the events of a
stick that is in are in order, and it is about to be read, mounted, or online. `WipeInv`: a
single partition is mounted at most once, on top of mounts whose device is gone.

### Signals (UsbSessionProofs)

`SignalInv`: while an automatic recording is armed and started nothing else is (`Armed`); a
pending SIGUSR1 has the routine of its record (`Handed`); the START of a session that is
wanted has arrived or is on its way (`Told`).

### The main loop (ModeLoopProofs)

Assumption: a code of the receiver is the value of a register, 0 to 255 (`CodesAssumption`).
`Synced` needs it, since a code is looked up as it was read.

* `ProgrammerInv`, for `OneProgrammer`: the lock `menu_exit` is held exactly while the main
  thread programs, unless the boot timer dropped it (`Locked`); who is on the serial line
  follows from where each thread is (`Sending`); what the encoder has received is whole
  sections, or known to be mixed (`ChipKnown`, `Unmixed`).
* `SyncInv`, for `Synced`: what each chip holds is in the file, or the step that will
  program it again is still ahead of the main loop (`Redo`), or of a save (`DueScript`,
  `DueUpload`, `DueTune`), or the main loop has been asked to start over (`Asked`). This
  holds although the loop forgets the code before it consumes `pid_status`, because the
  code -1 asks for everything, too. The tables of modes enter by `RowFound` alone. What the
  encoder has received is `Sent`: the sections of the script in order, each with the settings
  of the file, one of them perhaps damaged (`Holds`). Was it the reset that got lost, they
  follow whole sections of an earlier script of the same format; for that nothing may have
  been lost before (`Whole`), which the model ensures as nothing follows a lost command.
* `LossKept` and `RateSuffices` follow from `SyncInv` at rest (`AtRest`) and from what
  H46ScriptsProofs says of the scripts. `RateSuffices` assumes the bit rates of the menu, 64
  to 384 kbit/s for the audio and 987 to 29500 for the video (`RatesAllowed`): the twentieth
  that `MUX_RATE` adds makes up for a rate computed for 24 pictures a second and used for 60
  only from about there on. The largest video rate at which TLC evaluates the rate as too low is
  972; the menu goes down to 500 (`ml_slow`, section 5).

### The scripts (H46ScriptsProofs)

What a sequence of commands makes of the chip is a recursive idea that the module `H46Scripts`
puts without recursion, by the latest command of a kind. `CommandEffect` gets the recursion
back: what one command more changes. With it facts about all sequences are proved by
induction on their length (`AllNumbers`: a set with 0 and all successors of its elements holds
every number; it takes the place of the library's induction theorem, whose parameter is an
operator).

* `NearSent` and `LostCommand`: two chips that differ in the registers of a set, their next
  address included, go on to differ in that set only. One lost command puts two registers
  into it.
* `ScriptRegular`: the only reset is the second command, the second section starts with the
  rate of the multiplex, every value follows its address, and which registers are addressed
  in which order depends neither on the settings nor on the frame rate (`Alike`).
* `ImageRate` follows: the one value that depends on the frame rate stays on the chip.
* `OneGone`, `ResetGone`: a section without a command, put back among the others. Without its
  reset a script meets what it finds on the chip. That is the beginning of a script of the same
  format, if any, so it sets all those registers again, in whatever section it was stopped.

### The menus (MenuNavProofs)

The lemmas about the tables say of every entry of every menu what the navigation relies on
(`EntryOk`: an entry opens a menu that names this one as its parent, status pages are where
`recode_menu` looks for them). `NavOk` says of the stack that it is the way to the menu
shown: there is a `Trail` of menus from the main menu, each opened at the place kept of it.
Popping therefore leads to the menu `ParentMenus` names and to the entry that opens the
one left, which is `DepthMatches` and `EscReturns`. The rest of `Inv` keeps the other
threads apart from it: an editor is open only below the main menu (`EditorInv`), a menu that
claims too many entries is shown only under its editor (`ClaimInv`), a status page only in a
menu that has some or where a session has put another one (`NormInv`, `PagesInv`). All of it
holds until the code calls what lies outside a table (`wild`). On a stick without recordings
"No TS file" is such an entry whose parent is not the menu it is in, and there is no trail:
that is `nav_empty`.

### Playback (PlaybackProofs)

`InOrder` says what a step may do, so the invariant says where the two indices stand
before it: `Placed` gives `i` and `item` relative to the recording last played, for each
place of `pc`. `PastLast` can take a loop back to the chosen recording only behind the last,
because `i` is then behind the one played or the chosen one, which is below `count`.
`TypeOK` holds with `Counts`: a playback loses at most three descriptors, so `leaked` is at
most three for each.

### Only model-checked

* Liveness: `StopEnds`, `Drained`, `UnplugEnds`, `RemovalSeen`, `EscEnds`, `AutoStarts`,
  `Settles`, `Ends`. The provers do not reason about fairness (ENABLED).

## 7. What the models leave out

* `LeakFree` and `Conservation` are claimed without faults: a session that a silent FPGA, a
  pulled or a full stick ends leaks the frames it fetched (`writebus.c:827`). `Isolation` is
  proved with these, but with write errors, a failing `calloc` or a stick that comes back it
  depends on how soon `read_cache` sees `stop`.
* `NoClobber` holds while the numbers last; after 999 files names start over. After a
  loop has wrapped, `WriteRecord` is left low and the next session overwrites its files;
  `again` excepts both.
* `UsbHotplug` has one stick and starts without it. Its faults `swap`, `autorec` and
  `bounce` are used by no run: with them `NoWipe` and `PresentIsOnline` fail, as a stick
  exchanged or recorded to between the steps of an eject meets its `rm -rf`.
* In `UsbSession`, `StopIsMine` fails with `"quick"` (the STOP of the old session reaches
  the new one), and `PayloadMatches` with `"both"` (a merged SIGUSR1 gives a recording the
  record of a playback). The fault `nospace` is used by no run.
* `ModeLoop`: nothing is followed after a lost command or, for the encoder, after mixed
  scripts; scripts that no mode table refers to, the encoder's answers and its firmware
  download are left out; `init_bus` and `gener_table` are single steps. `OneProgrammer`
  names the boot timer and a second key as the two ways in which scripts are mixed.
* `MenuNav`: the list on a stick with recordings has two; no password prompt, no factory reset, no texts, digits and cursor of the
  editors. No session is started within the second of "stop...". The menu that an
  automatic recording shows at its end when it was started by hand is left out.
* `Playback`: of a hole in the sequence of recordings only the return of `Archive` is
  modelled, not which stale names the loops then play; nor is what recordings hold.
* `MenuSaves` and `ModeLoop`: the network's name (`str_netwrorkname_save`), and the choice of
  another video interface by the user (`comm_video_interface`).
* Not modelled: `ConfigFile`, `TableUpload` and `Numbers` of the plan, the memory
  registry, libdvbpsi (vendored), GPIO and I2C transfers.
* Frame contents, speed display, progress bar, LCD texts.
