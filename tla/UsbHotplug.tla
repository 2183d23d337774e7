----------------------------- MODULE UsbHotplug -----------------------------
(***************************************************************************)
(* The stick: thread_for_usb of usb/usbhotplug.c, which mounts and forgets *)
(* it as the kernel reports devices, and the two entries of the USB menu   *)
(* in usb/usbinfo.c, "Disk usage" and "Remove device", which work on the   *)
(* same usb_dev_info from the key thread without any lock.                 *)
(* There is one stick; its partitions share the first mount point, so that *)
(* what is mounted there is a stack.  A mount outlives a pulled stick when *)
(* a recording keeps a file on it open.                                    *)
(***************************************************************************)
EXTENDS Integers, Sequences

CONSTANTS
  NParts,    \* partitions of the stick
  Removes,   \* remove events of the stick besides those of its partitions
  QueueMax,  \* kernel events the socket holds (SO_RCVBUF 1024)
  Plugs,     \* bound: times the stick is plugged in
  Faults     \* adversities this instance allows, see Adversity

\* "foreign": another device is removed   "scsi": the eject command fails
\* "badfs": mount() fails   "swap": the stick is replaced while the user ejects
\* it   "autorec": a recording starts by itself while the user ejects the stick
\* "bounce": the stick is plugged in again before the last time was handled
Adversity == {"foreign", "scsi", "badfs", "swap", "autorec", "bounce"}

ASSUME StickAssumption ==
  /\ NParts \in Nat \ {0} /\ Removes \in Nat /\ QueueMax \in Nat \ {0} /\ Plugs \in Nat
  /\ Faults \subseteq Adversity

VARIABLES
  present,   \* whether the stick is plugged in
  ejected,   \* whether it was told to let go of its medium
  plugs,     \* times it was plugged in (bound only)
  missed,    \* history: an event was lost, or foreign, or a mount failed, since then
  events,    \* uevents in the receive buffer
  pc,        \* where thread_for_usb is
  flag_off,  \* usb_dev->flag_off
  part_num,  \* usb_dev->part_num
  devfile,   \* usb_dev->devfile_parts[0]: a partition, 0 when cleared
  path,      \* whether usb_dev->mount_path[0] holds a path
  is_active, \* usb_dev->is_active
  mounts,    \* partitions mounted on the mount point, 0 when pulled while mounted
  busy,      \* depth of the mount on which a recording has a file, or 0
  usb_pl_status, \* 1 while the prompt of a new stick is shown
  menu,      \* where the key thread is
  falg,      \* falg of manu_do_mount_dev, static
  target,    \* whether FileName of manu_do_mount_dev holds a path
  usage,     \* falg of get_usb_usrinfo, static
  answer     \* what the last "Disk usage" answered

stick == <<present, ejected, plugs, missed, events>>
dev   == <<flag_off, part_num, devfile, path, is_active>>
menuVars == <<menu, falg, target, usage, answer>>
vars == <<stick, pc, dev, mounts, busy, usb_pl_status, menuVars>>

May(fault) == fault \in Faults
Part == 1 .. NParts
Event == [act : {"add", "remove"}, part : 0 .. NParts]

\* Seeded fault: the receive buffer holds everything.
SendAll(es, lost) == events' = events \o es /\ missed' = lost

\* What does not fit into the receive buffer is lost.
Send(es, lost) ==
  LET all == events \o es
  IN  /\ events' = SubSeq(all, 1, IF Len(all) < QueueMax THEN Len(all) ELSE QueueMax)
      /\ missed' = (lost \/ Len(all) > QueueMax)

Add(n) == [act |-> "add", part |-> n]
Remove(n) == [act |-> "remove", part |-> n]

Init ==
  /\ present = FALSE /\ ejected = FALSE /\ plugs = 0 /\ missed = FALSE /\ events = <<>> /\ pc = "recv"
  /\ flag_off = 0 /\ part_num = 0 /\ devfile = 0 /\ path = FALSE /\ is_active = 0
  /\ mounts = <<>> /\ busy = 0 /\ usb_pl_status = 0
  /\ menu = "menu" /\ falg = 0 /\ target = FALSE /\ usage = 0 /\ answer = "none"

-----------------------------------------------------------------------------
(* The stick and the kernel.                                               *)

\* The kernel reports the disk, then its partitions.
Plug ==
  /\ ~present /\ plugs < Plugs
  /\ menu = "menu" \/ May("swap")
  /\ May("bounce") \/ (pc # "mount" /\ \A k \in DOMAIN events : events[k].act = "remove")
  /\ present' = TRUE /\ ejected' = FALSE /\ plugs' = plugs + 1
  /\ Send([n \in 1 .. NParts + 1 |-> Add(n - 1)], FALSE)
  /\ UNCHANGED <<pc, dev, mounts, busy, usb_pl_status, menuVars>>

\* The partitions go first, then the disk and what is above it.
Unplug ==
  /\ present /\ present' = FALSE /\ ejected' = FALSE
  /\ mounts' = [k \in DOMAIN mounts |-> 0]
  /\ Send([n \in 1 .. NParts + Removes |-> Remove(IF n <= NParts THEN n ELSE 0)], missed)
  /\ UNCHANGED <<plugs, pc, dev, busy, usb_pl_status, menuVars>>

Foreign ==
  /\ May("foreign") /\ Send(<<Remove(0)>>, TRUE)
  /\ UNCHANGED <<present, ejected, plugs, pc, dev, mounts, busy, usb_pl_status, menuVars>>

\* A recording opens and closes its file.
OpenFile ==
  /\ busy = 0 /\ is_active = 1 /\ path /\ mounts # <<>> /\ usb_pl_status = 0
  /\ menu = "menu" \/ May("autorec")
  /\ busy' = Len(mounts)
  /\ UNCHANGED <<stick, pc, dev, mounts, usb_pl_status, menuVars>>

CloseFile ==
  /\ busy > 0 /\ busy' = 0
  /\ UNCHANGED <<stick, pc, dev, mounts, usb_pl_status, menuVars>>

\* umount2( mount_path, MNT_FORCE ): the topmost mount goes, unless it is in use.
Umount2(named) ==
  mounts' = IF named /\ mounts # <<>> /\ busy # Len(mounts)
            THEN SubSeq(mounts, 1, Len(mounts) - 1) ELSE mounts

-----------------------------------------------------------------------------
(* thread_for_usb.                                                         *)

\* Seeded fault: nothing is mounted while a partition is remembered.
RecvAddOnce ==
  /\ pc = "recv" /\ events # <<>> /\ Head(events).act = "add"
  /\ events' = Tail(events)
  /\ IF Head(events).part = 0 \/ devfile # 0 THEN UNCHANGED <<pc, devfile, part_num>>
     ELSE pc' = "mount" /\ devfile' = Head(events).part /\ part_num' = 1
  /\ UNCHANGED <<present, ejected, plugs, missed, flag_off, path, is_active, mounts, busy>>
  /\ UNCHANGED <<usb_pl_status, menuVars>>

\* identify_act and seach_dev: an added device counts if its name has a digit.
RecvAdd ==
  /\ pc = "recv" /\ events # <<>> /\ Head(events).act = "add"
  /\ events' = Tail(events)
  /\ IF Head(events).part = 0 THEN UNCHANGED <<pc, devfile, part_num>>
     ELSE pc' = "mount" /\ devfile' = Head(events).part /\ part_num' = 1
  /\ UNCHANGED <<present, ejected, plugs, missed, flag_off, path, is_active, mounts, busy>>
  /\ UNCHANGED <<usb_pl_status, menuVars>>

\* dev_umount up to its loop: any removed device, once per mount.
RecvRemove ==
  /\ pc = "recv" /\ events # <<>> /\ Head(events).act = "remove"
  /\ events' = Tail(events) /\ flag_off' = 1
  /\ pc' = IF flag_off = 0 /\ part_num # 0 THEN "umount" ELSE "recv"
  /\ UNCHANGED <<present, ejected, plugs, missed, part_num, devfile, path, is_active, mounts>>
  /\ UNCHANGED <<busy, usb_pl_status, menuVars>>

\* dev_umount: umount2, whose failure is only reported.
Umount ==
  /\ pc = "umount" /\ pc' = "forget" /\ Umount2(path)
  /\ UNCHANGED <<stick, dev, busy, usb_pl_status, menuVars>>

\* Seeded fault: a stick that could not be unmounted stays online.
ForgetUnmounted ==
  /\ pc = "forget" /\ pc' = "recv" /\ is_active' = IF mounts = <<>> THEN 0 ELSE is_active
  /\ UNCHANGED <<stick, flag_off, part_num, devfile, path, mounts, busy, usb_pl_status, menuVars>>

Forget ==
  /\ pc = "forget" /\ pc' = "recv" /\ is_active' = 0
  /\ UNCHANGED <<stick, flag_off, part_num, devfile, path, mounts, busy, usb_pl_status, menuVars>>

\* mount() refuses what is gone and what is mounted there already.
Mountable ==
  /\ present /\ ~ejected /\ devfile # 0
  /\ mounts # <<>> => mounts[Len(mounts)] # devfile

\* Seeded fault: flag_off is not cleared.
MountKeepsFlag ==
  /\ pc = "mount"
  /\ \/ /\ Mountable
        /\ mounts' = Append(mounts, devfile) /\ path' = TRUE /\ pc' = "active"
        /\ UNCHANGED missed
     \/ /\ ~Mountable \/ May("badfs")
        /\ path' = FALSE /\ pc' = "recv" /\ UNCHANGED mounts
        /\ missed' = (missed \/ Mountable)
  /\ UNCHANGED <<present, ejected, plugs, events, flag_off, part_num, devfile, is_active, busy, usb_pl_status, menuVars>>

\* dev_mount up to mount().
Mount ==
  /\ pc = "mount" /\ flag_off' = 0
  /\ \/ /\ Mountable
        /\ mounts' = Append(mounts, devfile) /\ path' = TRUE /\ pc' = "active"
        /\ UNCHANGED missed
     \/ /\ ~Mountable \/ May("badfs")
        /\ path' = FALSE /\ pc' = "recv" /\ UNCHANGED mounts
        /\ missed' = (missed \/ Mountable)
  /\ UNCHANGED <<present, ejected, plugs, events, part_num, devfile, is_active, busy, usb_pl_status, menuVars>>

\* dev_mount after mount(), and the start of delay_time.
Activate ==
  /\ pc = "active" /\ pc' = "prompt" /\ is_active' = 1 /\ usb_pl_status' = 1
  /\ UNCHANGED <<stick, flag_off, part_num, devfile, path, mounts, busy, menuVars>>

\* delay_time: three seconds later the next event is read.
PromptEnd ==
  /\ pc = "prompt" /\ pc' = "recv" /\ usb_pl_status' = 0
  /\ UNCHANGED <<stick, dev, mounts, busy, menuVars>>

Hotplug == RecvAdd \/ RecvRemove \/ Umount \/ Forget \/ Mount \/ Activate \/ PromptEnd

-----------------------------------------------------------------------------
(* The key thread in the USB menu.  Keys are ignored while the prompt is   *)
(* shown and, but for esc, while a recording runs.                         *)
Keys == menu = "menu" /\ usb_pl_status = 0 /\ busy = 0

\* manu_do_mount_dev.  A call that finds no stick returns with falg set, and
\* the call after it only clears falg.
Eject ==
  /\ Keys /\ (May("swap") \/ (events = <<>> /\ pc = "recv"))
  /\ \/ /\ falg = 0 /\ is_active = 1
        /\ menu' = "umount" /\ falg' = 1 /\ target' = path
     \/ /\ falg = 0 /\ is_active = 0
        /\ falg' = (IF part_num > 0 THEN 1 ELSE 0) /\ UNCHANGED <<menu, target>>
     \/ /\ falg = 1 /\ falg' = 0 /\ UNCHANGED <<menu, target>>
  /\ UNCHANGED <<stick, pc, dev, mounts, busy, usb_pl_status, usage, answer>>

\* Seeded fault: the stick is told to eject before it is unmounted.
EjectUmountNot ==
  /\ menu = "umount" /\ menu' = "scsi" /\ UNCHANGED mounts
  /\ UNCHANGED <<stick, pc, dev, busy, usb_pl_status, falg, target, usage, answer>>

EjectUmount ==
  /\ menu = "umount" /\ menu' = "scsi" /\ Umount2(target)
  /\ UNCHANGED <<stick, pc, dev, busy, usb_pl_status, falg, target, usage, answer>>

\* eject_usb: the device file is opened and told to let go of the medium.
EjectScsi ==
  /\ menu = "scsi"
  /\ \/ /\ devfile # 0 /\ present
        /\ menu' = "clear" /\ ejected' = TRUE /\ UNCHANGED falg
     \/ /\ devfile = 0 \/ ~present \/ May("scsi")
        /\ menu' = "menu" /\ falg' = 0 /\ UNCHANGED ejected
  /\ UNCHANGED <<present, plugs, missed, events, pc, dev, mounts, busy, usb_pl_status, target, usage, answer>>

\* The end of eject_usb.
EjectClear ==
  /\ menu = "clear" /\ menu' = "wipe"
  /\ devfile' = 0 /\ path' = FALSE /\ is_active' = 0
  /\ UNCHANGED <<stick, pc, flag_off, part_num, mounts, busy, usb_pl_status, falg, target, usage, answer>>

\* rm -rf of the mount point.
EjectWipe ==
  /\ menu = "wipe" /\ menu' = "menu" /\ falg' = 0
  /\ UNCHANGED <<stick, pc, dev, mounts, busy, usb_pl_status, target, usage, answer>>

\* get_usb_usrinfo: only a call that found the stick clears its flag again.
Usage ==
  /\ Keys
  /\ \/ usage = 0 /\ usage' = 1 /\ menu' = "usage" /\ answer' = "none"
     \/ usage = 1 /\ answer' = "refused" /\ UNCHANGED <<menu, usage>>
  /\ UNCHANGED <<stick, pc, dev, mounts, busy, usb_pl_status, falg, target>>

\* loop_usb_sat: the stick is there, or the time is up.
UsageShow ==
  /\ menu = "usage" /\ is_active = 1
  /\ menu' = "menu" /\ usage' = 0 /\ answer' = "info"
  /\ UNCHANGED <<stick, pc, dev, mounts, busy, usb_pl_status, falg, target>>

UsageTimeout ==
  /\ menu = "usage" /\ is_active = 0
  /\ menu' = "menu" /\ answer' = "timeout"
  /\ UNCHANGED <<stick, pc, dev, mounts, busy, usb_pl_status, falg, target, usage>>

Menu ==
  \/ EjectUmount \/ EjectScsi \/ EjectClear \/ EjectWipe
  \/ UsageShow \/ UsageTimeout

Next ==
  \/ Plug \/ Unplug \/ Foreign \/ OpenFile \/ CloseFile
  \/ Hotplug \/ Eject \/ Usage \/ Menu

Spec == Init /\ [][Next]_vars

\* The two threads run; the user and the recording need do nothing.
FairSpec == Spec /\ WF_vars(Hotplug) /\ WF_vars(Menu)

-----------------------------------------------------------------------------
TypeOK ==
  /\ present \in BOOLEAN /\ ejected \in BOOLEAN /\ plugs \in 0 .. Plugs
  /\ missed \in BOOLEAN
  /\ events \in Seq(Event) /\ Len(events) <= QueueMax
  /\ pc \in {"recv", "umount", "forget", "mount", "active", "prompt"}
  /\ flag_off \in {0, 1} /\ part_num \in {0, 1} /\ devfile \in 0 .. NParts
  /\ path \in BOOLEAN /\ is_active \in {0, 1}
  /\ mounts \in Seq(0 .. NParts) /\ busy \in Nat /\ usb_pl_status \in {0, 1}
  /\ menu \in {"menu", "umount", "scsi", "clear", "wipe", "usage"}
  /\ falg \in {0, 1} /\ target \in BOOLEAN /\ usage \in {0, 1}
  /\ answer \in {"none", "info", "timeout", "refused"}

\* Nothing is left to do for either thread.
Quiet == events = <<>> /\ pc = "recv" /\ menu = "menu"

\* is_usb_online: once everything is handled, a stick that is reported online is
\* plugged in and mounted, so that a recording does not fill the mount point's
\* own file system.
OnlineIsPresent ==
  Quiet /\ is_active = 1 => present /\ mounts # <<>> /\ mounts[Len(mounts)] # 0

\* is_usb_online: once everything is handled, a stick that is plugged in and was
\* not ejected is reported online, if every event reached thread_for_usb, none was
\* of another device and the stick could be mounted.
PresentIsOnline == Quiet /\ present /\ ~ejected /\ ~missed => is_active = 1

\* The same, whatever other devices do.
OnlineDespiteOthers == Quiet /\ present /\ ~ejected => is_active = 1

\* rm -rf of the mount point, after an eject, meets no mounted file system: the
\* recordings on the stick survive its removal.
NoWipe == menu = "wipe" /\ target => \A k \in DOMAIN mounts : mounts[k] = 0

\* A pulled stick is eventually reported offline, so that its session ends.
RemovalSeen == ~present ~> (is_active = 0 \/ present)

\* "Disk usage" answers when the stick is there.
UsageAnswers == [][answer' # answer /\ answer' = "refused" => is_active = 0]_vars
=============================================================================
