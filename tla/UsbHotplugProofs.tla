-------------------------- MODULE UsbHotplugProofs --------------------------
(***************************************************************************)
(* What holds of the stick for every number of partitions, remove events   *)
(* and plugs and every size of the receive buffer, under the adversities   *)
(* that do not refute it: the runs of UsbHotplug show that the others do.  *)
(***************************************************************************)
EXTENDS UsbHotplug, TLAPS, SequenceTheorems

-----------------------------------------------------------------------------
(* The inductive invariants.                                               *)

\* The adversities under which a stick that is online is there, one that is there is
\* online, and an eject wipes nothing that is mounted.
Orderly == {"foreign", "badfs", "autorec"}
Handled == {"foreign", "badfs", "autorec", "scsi"}
Undisturbed == {"foreign", "badfs", "scsi", "bounce"}

Ejecting == menu \in {"umount", "scsi", "clear", "wipe"}
Leaves == \E k \in DOMAIN events : events[k].act = "remove"
AllAdds == \A k \in DOMAIN events : events[k].act = "add"
AllGone == \A k \in DOMAIN mounts : mounts[k] = 0
OnTop == mounts # <<>> /\ mounts[Len(mounts)] # 0

\* As long as the stick is not replaced during an eject, thread_for_usb mounts nothing then.
Alone ==
  Ejecting => pc \in {"recv", "umount", "forget"} /\ \A k \in DOMAIN events : events[k].act = "remove"

\* The stick has gone, and thread_for_usb will know.
Leaving == pc \in {"umount", "forget"} \/ (flag_off = 0 /\ part_num # 0 /\ Leaves)

\* The stick is here, and the next event of its removal fits into the buffer.
Here ==
  /\ flag_off = 0 /\ part_num # 0 /\ devfile # 0 /\ present /\ Len(events) < QueueMax
  /\ OnTop \/ menu \in {"scsi", "clear"}

OnlineInv ==
  /\ TypeOK /\ Alone
  /\ is_active = 1 \/ pc = "active" => Here \/ Leaving
  /\ pc = "mount" /\ present => devfile # 0 /\ part_num # 0 /\ (Len(events) < QueueMax \/ Leaves)

\* A single partition is mounted at most once, on top, and nothing uses it during an eject.
WipeInv ==
  /\ TypeOK /\ Alone
  /\ \A k \in DOMAIN mounts : k < Len(mounts) => mounts[k] = 0
  /\ menu = "umount" => busy = 0
  /\ menu \in {"scsi", "clear", "wipe"} /\ target => AllGone

\* Partitions are to come; no event of a removal stands behind one of an addition.
Brings == \E k \in DOMAIN events : events[k].act = "add" /\ events[k].part # 0
Ordered == \A j, k \in DOMAIN events : j < k /\ events[j].act = "add" => events[k].act = "add"

\* A stick that was plugged in is about to be read, about to be mounted, or online.
Coming == AllGone /\ Brings
Mounting == AllGone /\ pc = "mount"
Staying == (pc = "active" \/ is_active = 1) /\ pc \notin {"umount", "forget"} /\ AllAdds

PresentInv ==
  /\ TypeOK /\ Alone
  /\ ~present => AllGone
  /\ menu = "clear" => ejected \/ ~present
  /\ present /\ ~missed => Ordered
  /\ present /\ ~missed /\ pc = "mount" => AllAdds /\ devfile # 0
  /\ present /\ ~missed /\ ~ejected => Coming \/ Mounting \/ Staying

-----------------------------------------------------------------------------
(* The receive buffer.                                                     *)

\* What the kernel reports of a stick that is plugged in.
Added == [n \in 1 .. NParts + 1 |-> Add(n - 1)]

\* What it reports of one that is pulled.
Removed == [n \in 1 .. NParts + Removes |-> Remove(IF n <= NParts THEN n ELSE 0)]

\* The reports are sequences of events, all of a kind.
LEMMA Reports ==
  /\ Added \in Seq(Event) /\ Len(Added) = NParts + 1 /\ Added # <<>>
  /\ \A k \in DOMAIN Added : Added[k].act = "add" /\ Added[k].part = k - 1
  /\ Removed \in Seq(Event) /\ Len(Removed) = NParts + Removes /\ Removed # <<>>
  /\ \A k \in DOMAIN Removed : Removed[k].act = "remove"
  /\ <<Remove(0)>> \in Seq(Event) /\ Len(<<Remove(0)>>) = 1 /\ <<Remove(0)>> # <<>>
  /\ \A k \in DOMAIN <<Remove(0)>> : <<Remove(0)>>[k].act = "remove"
<1>0. NParts \in Nat /\ NParts > 0 /\ Removes \in Nat
  BY StickAssumption
<1>1. \A n \in 1 .. NParts + 1 : Add(n - 1) \in Event /\ Add(n - 1).act = "add" /\ Add(n - 1).part = n - 1
  BY <1>0 DEF Add, Event
<1>2. Added \in Seq(Event)
  BY <1>0, <1>1 DEF Added
<1>3. Len(Added) = NParts + 1
  BY <1>0 DEF Added
<1>4. \A n \in 0 .. NParts : Remove(n) \in Event /\ Remove(n).act = "remove"
  BY <1>0 DEF Remove, Event
<1>5. \A n \in 1 .. NParts + Removes :
        /\ Remove(IF n <= NParts THEN n ELSE 0) \in Event
        /\ Remove(IF n <= NParts THEN n ELSE 0).act = "remove"
  BY <1>0, <1>4
<1>6. Removed \in Seq(Event)
  BY <1>0, <1>5 DEF Removed
<1>7. Len(Removed) = NParts + Removes
  BY <1>0 DEF Removed
<1>8. <<Remove(0)>> \in Seq(Event) /\ Len(<<Remove(0)>>) = 1
  BY <1>0, <1>4
<1>9. \A k \in DOMAIN Added : Added[k].act = "add" /\ Added[k].part = k - 1
  BY <1>1 DEF Added
<1>10. \A k \in DOMAIN Removed : Removed[k].act = "remove"
  BY <1>5 DEF Removed
<1>11. \A k \in DOMAIN <<Remove(0)>> : <<Remove(0)>>[k].act = "remove"
  BY <1>0, <1>4
<1>12. Added # <<>> /\ Removed # <<>> /\ <<Remove(0)>> # <<>>
  BY <1>0, <1>2, <1>3, <1>6, <1>7, EmptySeq
<1>13. QED
  BY <1>2, <1>3, <1>6, <1>7, <1>8, <1>9, <1>10, <1>11, <1>12

\* What is sent stands behind what is in the buffer; what does not fit is lost, and counted.
LEMMA SendEffect ==
  ASSUME TypeOK, NEW es \in Seq(Event), NEW lost \in BOOLEAN, Send(es, lost)
  PROVE  /\ events' \in Seq(Event) /\ Len(events') <= QueueMax /\ missed' \in BOOLEAN
         /\ Len(events) <= Len(events')
         /\ \A k \in 1 .. Len(events) : events'[k] = events[k]
         /\ \A k \in 1 .. Len(events') :
              k > Len(events) => k - Len(events) \in 1 .. Len(es) /\ events'[k] = es[k - Len(events)]
         /\ Len(events) < QueueMax /\ es # <<>> => Len(events) < Len(events')
         /\ ~missed' => ~lost /\ Len(events') = Len(events) + Len(es)
<1> DEFINE all == events \o es
           n == IF Len(all) < QueueMax THEN Len(all) ELSE QueueMax
<1>0. QueueMax \in Nat /\ events \in Seq(Event) /\ Len(events) <= QueueMax
  BY StickAssumption DEF TypeOK
<1>1. events' = SubSeq(all, 1, n) /\ missed' = (lost \/ Len(all) > QueueMax)
  BY DEF Send
<1>2. /\ all \in Seq(Event) /\ Len(all) = Len(events) + Len(es)
      /\ \A k \in 1 .. Len(events) + Len(es) :
           all[k] = IF k <= Len(events) THEN events[k] ELSE es[k - Len(events)]
  BY <1>0, ConcatProperties
<1>3. Len(events) \in Nat /\ Len(es) \in Nat /\ (es # <<>> => Len(es) > 0)
  BY <1>0, EmptySeq, LenProperties
<1>4. n \in Nat /\ n <= Len(all) /\ Len(events) <= n /\ n <= QueueMax
  BY <1>0, <1>2, <1>3
<1>5. \A k \in 1 .. n : all[k] \in Event
  BY <1>2, <1>4, ElementOfSeq
<1> HIDE DEF n, all
<1>6. /\ SubSeq(all, 1, n) \in Seq(Event) /\ Len(SubSeq(all, 1, n)) = n
      /\ \A k \in 1 .. n : SubSeq(all, 1, n)[k] = all[k]
  <2>1. 1 \in Int /\ n \in Int
    BY <1>4
  <2>2. /\ SubSeq(all, 1, n) \in Seq(Event)
        /\ Len(SubSeq(all, 1, n)) = IF 1 <= n THEN n - 1 + 1 ELSE 0
        /\ \A k \in 1 .. n - 1 + 1 : SubSeq(all, 1, n)[k] = all[1 + k - 1]
    BY <1>5, <2>1, SubSeqProperties
  <2>3. QED
    BY <1>4, <2>2
<1>7. \A k \in 1 .. Len(events) : events'[k] = events[k]
  BY <1>1, <1>2, <1>3, <1>4, <1>6
<1>8. \A k \in 1 .. Len(events') :
        k > Len(events) => k - Len(events) \in 1 .. Len(es) /\ events'[k] = es[k - Len(events)]
  BY <1>1, <1>2, <1>3, <1>4, <1>6
<1>9. Len(events) < QueueMax /\ es # <<>> => Len(events) < Len(events')
  BY <1>0, <1>1, <1>2, <1>3, <1>6 DEF n
<1>10. ~missed' => ~lost /\ Len(events') = Len(events) + Len(es)
  <2>1. SUFFICES ASSUME ~missed' PROVE ~lost /\ Len(events') = Len(events) + Len(es)
    OBVIOUS
  <2>2. ~lost
    BY ONLY <1>1, <2>1
  <2>3. ~(Len(all) > QueueMax)
    BY ONLY <1>1, <2>1
  <2>4. Len(all) \in Nat
    BY <1>2, <1>3
  <2>5. n = Len(all)
    BY ONLY <1>0, <2>3, <2>4 DEF n
  <2>6. Len(events') = Len(events) + Len(es)
    BY ONLY <1>1, <1>2, <1>6, <2>5
  <2>7. QED
    BY <2>2, <2>6
<1>11. QED
  BY <1>0, <1>1, <1>4, <1>6, <1>7, <1>8, <1>9, <1>10

\* Reading an event takes the first away.
LEMMA TailEffect ==
  ASSUME TypeOK, events # <<>>, events' = Tail(events)
  PROVE  /\ events' \in Seq(Event) /\ Head(events) \in Event /\ Head(events) = events[1]
         /\ Len(events) \in Nat /\ Len(events) >= 1 /\ Len(events') = Len(events) - 1
         /\ Len(events') < QueueMax
         /\ \A k \in 1 .. Len(events') : events'[k] = events[k + 1]
<1>1. QueueMax \in Nat /\ events \in Seq(Event) /\ Len(events) <= QueueMax
  BY StickAssumption DEF TypeOK
<1>2. /\ Tail(events) \in Seq(Event) /\ Head(events) \in Event /\ Len(Tail(events)) = Len(events) - 1
      /\ \A k \in 1 .. Len(Tail(events)) : Tail(events)[k] = events[k + 1]
  BY <1>1, HeadTailProperties
<1>3. Len(events) \in Nat /\ Len(events) >= 1 /\ Head(events) = events[1]
  BY <1>1, EmptySeq, LenProperties
<1>4. QED
  BY <1>1, <1>2, <1>3


-----------------------------------------------------------------------------
(* The mount point.                                                        *)

\* umount2 takes at most the topmost mount, and takes it if it is named and not in use.
LEMMA UmountEffect ==
  ASSUME TypeOK, NEW named \in BOOLEAN, Umount2(named)
  PROVE  /\ mounts' \in Seq(0 .. NParts) /\ Len(mounts) \in Nat /\ Len(mounts') \in Nat
         /\ Len(mounts') <= Len(mounts) /\ Len(mounts) <= Len(mounts') + 1
         /\ \A k \in 1 .. Len(mounts') : mounts'[k] = mounts[k]
         /\ named /\ mounts # <<>> /\ busy # Len(mounts) => Len(mounts') < Len(mounts)
         /\ ~(named /\ mounts # <<>> /\ busy # Len(mounts)) => mounts' = mounts
<1>1. mounts \in Seq(0 .. NParts) /\ Len(mounts) \in Nat /\ DOMAIN mounts = 1 .. Len(mounts)
  BY LenProperties DEF TypeOK
<1>2. CASE named /\ mounts # <<>> /\ busy # Len(mounts)
  <2> DEFINE n == Len(mounts) - 1
             s == SubSeq(mounts, 1, n)
  <2>1. mounts' = s
    BY <1>2 DEF Umount2
  <2>2. n \in Nat
    BY <1>1, <1>2, EmptySeq
  <2>a. \A k \in 1 .. Len(mounts) : mounts[k] \in 0 .. NParts
    BY <1>1, ElementOfSeq
  <2>3. \A k \in 1 .. n : mounts[k] \in 0 .. NParts
    BY <1>1, <2>2, <2>a
  <2> HIDE DEF n
  <2>4. /\ s \in Seq(0 .. NParts) /\ Len(s) = IF 1 <= n THEN n - 1 + 1 ELSE 0
        /\ \A k \in 1 .. n - 1 + 1 : s[k] = mounts[1 + k - 1]
    BY <2>2, <2>3, SubSeqProperties
  <2>5. Len(s) = n /\ \A k \in 1 .. n : s[k] = mounts[k]
    BY <2>2, <2>4
  <2>6. mounts' \in Seq(0 .. NParts) /\ Len(mounts') = n
    BY <2>1, <2>4, <2>5
  <2>7. \A k \in 1 .. Len(mounts') : mounts'[k] = mounts[k]
    BY <2>1, <2>5, <2>6
  <2>8. Len(mounts') \in Nat /\ Len(mounts') < Len(mounts) /\ Len(mounts) <= Len(mounts') + 1
    BY <1>1, <2>2, <2>6 DEF n
  <2>9. QED
    BY <1>1, <1>2, <2>6, <2>7, <2>8
<1>3. CASE ~(named /\ mounts # <<>> /\ busy # Len(mounts))
  <2>1. mounts' = mounts
    BY <1>3 DEF Umount2
  <2>2. QED
    BY <1>1, <1>3, <2>1
<1>4. QED
  BY <1>2, <1>3

\* A stick that is pulled leaves its mounts behind, and nothing in them.
LEMMA PullEffect ==
  ASSUME TypeOK, mounts' = [k \in DOMAIN mounts |-> 0]
  PROVE  mounts' \in Seq(0 .. NParts) /\ AllGone'
<1>1. mounts \in Seq(0 .. NParts) /\ Len(mounts) \in Nat /\ DOMAIN mounts = 1 .. Len(mounts)
  BY LenProperties DEF TypeOK
<1>2. NParts \in Nat
  BY StickAssumption
<1>3. mounts' = [k \in 1 .. Len(mounts) |-> 0]
  BY <1>1
<1>4. mounts' \in Seq(0 .. NParts)
  BY <1>1, <1>2, <1>3
<1>5. QED
  BY <1>3, <1>4 DEF AllGone

\* A partition is mounted on top of what is there.
LEMMA PushEffect ==
  ASSUME TypeOK, mounts' = Append(mounts, devfile)
  PROVE  /\ mounts' \in Seq(0 .. NParts) /\ Len(mounts) \in Nat /\ Len(mounts') = Len(mounts) + 1
         /\ \A k \in 1 .. Len(mounts) : mounts'[k] = mounts[k]
         /\ mounts'[Len(mounts')] = devfile /\ mounts' # <<>>
<1>1. mounts \in Seq(0 .. NParts) /\ devfile \in 0 .. NParts /\ Len(mounts) \in Nat
  BY LenProperties DEF TypeOK
<1>2. /\ Append(mounts, devfile) \in Seq(0 .. NParts)
      /\ Len(Append(mounts, devfile)) = Len(mounts) + 1
      /\ \A k \in 1 .. Len(mounts) : Append(mounts, devfile)[k] = mounts[k]
      /\ Append(mounts, devfile)[Len(mounts) + 1] = devfile
  BY <1>1, AppendProperties
<1>3. QED
  BY <1>1, <1>2, EmptySeq

-----------------------------------------------------------------------------
(* Types.                                                                  *)

\* The set starts with every variable in its range.
LEMMA TypeInit == Init => TypeOK
<1> SUFFICES ASSUME Init PROVE TypeOK
  OBVIOUS
<1>1. events = <<>> /\ events \in Seq(Event) /\ Len(events) = 0
  BY EmptySeq DEF Init
<1>2. mounts = <<>> /\ mounts \in Seq(0 .. NParts)
  BY EmptySeq DEF Init
<1>3. present \in BOOLEAN /\ ejected \in BOOLEAN /\ missed \in BOOLEAN /\ path \in BOOLEAN /\ target \in BOOLEAN
  BY DEF Init
<1>4. plugs \in 0 .. Plugs /\ Len(events) <= QueueMax /\ devfile \in 0 .. NParts
  BY <1>1, StickAssumption DEF Init
<1>5. QED
  BY <1>1, <1>2, <1>3, <1>4 DEF Init, TypeOK

\* No step leaves the range of a variable.
LEMMA TypeStep == TypeOK /\ [Next]_vars => TypeOK'
<1> SUFFICES ASSUME TypeOK, [Next]_vars PROVE TypeOK'
  OBVIOUS
<1> USE DEF TypeOK, stick, dev, menuVars
<1>1. CASE Plug
  <2>1. Send(Added, FALSE)
    BY <1>1 DEF Plug, Added
  <2>2. events' \in Seq(Event) /\ Len(events') <= QueueMax /\ missed' \in BOOLEAN
    BY <2>1, Reports, SendEffect
  <2>3. plugs' \in 0 .. Plugs
    BY <1>1, StickAssumption DEF Plug
  <2>4. (present \in BOOLEAN /\ ejected \in BOOLEAN /\ path \in BOOLEAN /\ target \in BOOLEAN)'
    BY <1>1 DEF Plug
  <2>5. UNCHANGED <<pc, dev, busy, usb_pl_status, menuVars>> /\ plugs' \in 0 .. Plugs
    BY <1>1, <2>3 DEF Plug
  <2>6. mounts' \in Seq(0 .. NParts)
    BY <1>1 DEF Plug
  <2>7. QED
    BY <2>2, <2>4, <2>5, <2>6
<1>2. CASE Unplug
  <2>1. Send(Removed, missed) /\ missed \in BOOLEAN
    BY <1>2 DEF Unplug, Removed
  <2>2. events' \in Seq(Event) /\ Len(events') <= QueueMax /\ missed' \in BOOLEAN
    BY <2>1, Reports, SendEffect
  <2>3. mounts' \in Seq(0 .. NParts)
    BY <1>2, PullEffect DEF Unplug
  <2>4. (present \in BOOLEAN /\ ejected \in BOOLEAN /\ path \in BOOLEAN /\ target \in BOOLEAN)'
    BY <1>2 DEF Unplug
  <2>5. UNCHANGED <<pc, dev, busy, usb_pl_status, menuVars>> /\ plugs' \in 0 .. Plugs
    BY <1>2 DEF Unplug
  <2>6. mounts' \in Seq(0 .. NParts)
    BY <1>2, <2>3 DEF Unplug
  <2>7. QED
    BY <2>2, <2>4, <2>5, <2>6
<1>3. CASE Foreign
  <2>1. Send(<<Remove(0)>>, TRUE)
    BY <1>3 DEF Foreign
  <2>2. events' \in Seq(Event) /\ Len(events') <= QueueMax /\ missed' \in BOOLEAN
    BY <2>1, Reports, SendEffect
  <2>3. QED
    BY <1>3, <2>2 DEF Foreign
<1>4. CASE OpenFile
  <2>1. busy' \in Nat
    BY <1>4, LenProperties DEF OpenFile
  <2>2. QED
    BY <1>4, <2>1 DEF OpenFile
<1>5. CASE CloseFile
  BY <1>5 DEF CloseFile
<1>6. CASE RecvAdd
  <2>1. events' \in Seq(Event) /\ Len(events') <= QueueMax /\ Head(events) \in Event
    BY <1>6, TailEffect, StickAssumption DEF RecvAdd
  <2>2. Head(events).part \in 0 .. NParts
    BY <2>1 DEF Event
  <2>3. devfile' \in 0 .. NParts /\ part_num' \in {0, 1}
    BY <1>6, <2>2 DEF RecvAdd
  <2>4. pc' \in {"recv", "umount", "forget", "mount", "active", "prompt"}
    BY <1>6 DEF RecvAdd
  <2>5. QED
    BY <1>6, <2>1, <2>3, <2>4 DEF RecvAdd
<1>7. CASE RecvRemove
  <2>1. events' \in Seq(Event) /\ Len(events') <= QueueMax
    BY <1>7, TailEffect, StickAssumption DEF RecvRemove
  <2>2. QED
    BY <1>7, <2>1 DEF RecvRemove
<1>8. CASE Umount
  <2>1. mounts' \in Seq(0 .. NParts)
    BY <1>8, UmountEffect DEF Umount
  <2>2. QED
    BY <1>8, <2>1 DEF Umount
<1>9. CASE Forget
  BY <1>9 DEF Forget
<1>10. CASE Mount
  <2>1. mounts' \in Seq(0 .. NParts)
    BY <1>10, PushEffect DEF Mount
  <2>2. missed' \in BOOLEAN
    BY <1>10 DEF Mount
  <2>3. path' \in BOOLEAN
    BY <1>10 DEF Mount
  <2>4. pc' \in {"recv", "umount", "forget", "mount", "active", "prompt"}
    BY <1>10 DEF Mount
  <2>5. QED
    BY <1>10, <2>1, <2>2, <2>3, <2>4 DEF Mount
<1>11. CASE Activate
  BY <1>11 DEF Activate
<1>12. CASE PromptEnd
  BY <1>12 DEF PromptEnd
<1>13. CASE Eject
  BY <1>13 DEF Eject
<1>14. CASE Usage
  BY <1>14 DEF Usage
<1>15. CASE EjectUmount
  <2>1. mounts' \in Seq(0 .. NParts)
    BY <1>15, UmountEffect DEF EjectUmount
  <2>2. QED
    BY <1>15, <2>1 DEF EjectUmount
<1>16. CASE EjectScsi
  <2>1. (present \in BOOLEAN /\ ejected \in BOOLEAN /\ path \in BOOLEAN /\ target \in BOOLEAN)'
    BY <1>16 DEF EjectScsi
  <2>2. menu' \in {"clear", "menu"} /\ falg' \in {0, 1}
    BY <1>16 DEF EjectScsi
  <2>3. UNCHANGED <<plugs, missed, events, pc, dev, mounts, busy, usb_pl_status, usage, answer>>
    BY <1>16 DEF EjectScsi
  <2>4. QED
    BY <2>1, <2>2, <2>3
<1>17. CASE EjectClear
  <2>1. (present \in BOOLEAN /\ ejected \in BOOLEAN /\ path \in BOOLEAN /\ target \in BOOLEAN)'
    BY <1>17 DEF EjectClear
  <2>2. menu' = "wipe" /\ devfile' \in 0 .. NParts /\ is_active' = 0
    BY <1>17, StickAssumption DEF EjectClear
  <2>3. UNCHANGED <<plugs, missed, events, pc, flag_off, part_num, mounts, busy, usb_pl_status, falg, usage, answer>>
    BY <1>17 DEF EjectClear
  <2>4. QED
    BY <2>1, <2>2, <2>3
<1>18. CASE EjectWipe
  BY <1>18 DEF EjectWipe
<1>19. CASE UsageShow
  BY <1>19 DEF UsageShow
<1>20. CASE UsageTimeout
  BY <1>20 DEF UsageTimeout
<1>21. CASE UNCHANGED vars
  BY <1>21 DEF vars
<1>22. QED
  BY <1>1, <1>2, <1>3, <1>4, <1>5, <1>6, <1>7, <1>8, <1>9, <1>10, <1>11, <1>12, <1>13,
     <1>14, <1>15, <1>16, <1>17, <1>18, <1>19, <1>20, <1>21
  DEF Next, Hotplug, Menu

\* Every variable stays in its range, and the receive buffer in its size.
THEOREM HotplugTypeCorrect == Spec => []TypeOK
BY TypeInit, TypeStep, PTL DEF Spec


-----------------------------------------------------------------------------
(* What the steps make of the buffer.                                      *)

\* Events of kind a have been put behind those in the buffer, as far as there was room.
Behind(a) ==
  /\ DOMAIN events = 1 .. Len(events) /\ DOMAIN events' = 1 .. Len(events')
  /\ Len(events) \in Nat /\ Len(events') \in Nat /\ Len(events) <= Len(events')
  /\ \A k \in 1 .. Len(events) : events'[k] = events[k]
  /\ \A k \in 1 .. Len(events') : k > Len(events) => events'[k].act = a
  /\ Len(events) < QueueMax => Len(events) < Len(events')

\* The first event has been taken.
Taken ==
  /\ DOMAIN events = 1 .. Len(events) /\ DOMAIN events' = 1 .. Len(events')
  /\ Len(events) \in Nat /\ Len(events') \in Nat /\ Len(events) = Len(events') + 1
  /\ \A k \in 1 .. Len(events') : events'[k] = events[k + 1]
  /\ Len(events') < QueueMax /\ Head(events) = events[1]

\* The buffer is a sequence before and after a step.
LEMMA Domains ==
  ASSUME TypeOK, TypeOK'
  PROVE  /\ DOMAIN events = 1 .. Len(events) /\ DOMAIN events' = 1 .. Len(events')
         /\ Len(events) \in Nat /\ Len(events') \in Nat
<1>1. events \in Seq(Event) /\ events' \in Seq(Event)
  BY DEF TypeOK
<1>2. QED
  BY <1>1, LenProperties

\* A step that sends the events es puts them behind the others.
LEMMA SendBehind ==
  ASSUME TypeOK, TypeOK', NEW es \in Seq(Event), es # <<>>, NEW lost \in BOOLEAN, Send(es, lost),
         NEW a, \A k \in DOMAIN es : es[k].act = a
  PROVE  Behind(a)
<1>1. /\ Len(events) <= Len(events')
      /\ \A k \in 1 .. Len(events) : events'[k] = events[k]
      /\ \A k \in 1 .. Len(events') :
           k > Len(events) => k - Len(events) \in 1 .. Len(es) /\ events'[k] = es[k - Len(events)]
      /\ Len(events) < QueueMax => Len(events) < Len(events')
  BY SendEffect
<1>2. DOMAIN es = 1 .. Len(es)
  BY LenProperties
<1>3. \A k \in 1 .. Len(events') : k > Len(events) => events'[k].act = a
  BY <1>1, <1>2
<1>4. QED
  BY <1>1, <1>3, Domains DEF Behind

\* Pulling the stick sends what reports its removal, and leaves no mount with anything in it.
LEMMA UnplugEffect ==
  ASSUME TypeOK, TypeOK', Unplug
  PROVE  Behind("remove") /\ AllGone' /\ (~missed' => ~missed)
<1>1. Send(Removed, missed) /\ missed \in BOOLEAN
  BY DEF Unplug, Removed, TypeOK
<1>2. Behind("remove")
  BY <1>1, Reports, SendBehind
<1>3. ~missed' => ~missed
  BY <1>1, Reports, SendEffect
<1>4. AllGone'
  BY PullEffect DEF Unplug
<1>5. QED
  BY <1>2, <1>3, <1>4

\* The removal of another device counts as one, and is remembered.
LEMMA ForeignEffect ==
  ASSUME TypeOK, TypeOK', Foreign
  PROVE  Behind("remove") /\ missed'
<1>1. Send(<<Remove(0)>>, TRUE)
  BY DEF Foreign
<1>2. Behind("remove")
  BY <1>1, Reports, SendBehind
<1>3. missed'
  BY <1>1, Reports, SendEffect
<1>4. QED
  BY <1>2, <1>3

\* Plugging the stick in sends the disk and its partitions.
LEMMA PlugEffect ==
  ASSUME TypeOK, TypeOK', Plug
  PROVE  /\ Behind("add")
         /\ ~missed' => \E k \in DOMAIN events' : events'[k].act = "add" /\ events'[k].part # 0
<1>1. Send(Added, FALSE)
  BY DEF Plug, Added
<1>2. Behind("add")
  BY <1>1, Reports, SendBehind
<1>3. ASSUME ~missed'
      PROVE  \E k \in DOMAIN events' : events'[k].act = "add" /\ events'[k].part # 0
  <2>1. NParts \in Nat /\ NParts > 0
    BY StickAssumption
  <2>2. /\ Len(events') = Len(events) + Len(Added)
        /\ \A k \in 1 .. Len(events') :
             k > Len(events) => k - Len(events) \in 1 .. Len(Added) /\ events'[k] = Added[k - Len(events)]
    BY <1>1, <1>3, Reports, SendEffect
  <2>3. DOMAIN Added = 1 .. NParts + 1 /\ Len(Added) = NParts + 1
    BY Reports DEF Added
  <2>4. Added[2].act = "add" /\ Added[2].part = 1
    <3>1. 2 \in DOMAIN Added
      BY <2>1, <2>3
    <3>2. Added[2].act = "add" /\ Added[2].part = 2 - 1
      BY <3>1, Reports
    <3>3. QED
      BY <3>2
  <2> DEFINE k == Len(events) + 2
  <2>5. k \in 1 .. Len(events') /\ k > Len(events) /\ k - Len(events) = 2
    BY <2>1, <2>2, <2>3, Domains
  <2>6. events'[k] = Added[2]
    BY <2>2, <2>5
  <2>7. QED
    BY <2>4, <2>5, <2>6, Domains
<1>4. QED
  BY <1>2, <1>3

\* Reading an event takes it from the buffer.
LEMMA RecvEffect ==
  ASSUME TypeOK, TypeOK', events # <<>>, events' = Tail(events)
  PROVE  Taken
BY TailEffect, Domains DEF Taken

\* During an eject nothing is mounted and nothing is about to be.
LEMMA AloneStep ==
  ASSUME ~May("swap")
  PROVE  TypeOK /\ Alone /\ [Next]_vars => Alone'
<1> SUFFICES ASSUME TypeOK, Alone, [Next]_vars PROVE Alone'
  OBVIOUS
<1>0. TypeOK'
  BY TypeStep
<1> USE DEF Alone, Ejecting, stick, dev, menuVars
<1>1. CASE Plug
  BY <1>1 DEF Plug
<1>2. CASE Unplug
  <2>1. Behind("remove")
    BY <1>0, <1>2, UnplugEffect
  <2>2. UNCHANGED <<menu, pc>>
    BY <1>2 DEF Unplug
  <2>3. ASSUME Ejecting, NEW k \in DOMAIN events' PROVE events'[k].act = "remove"
    BY <2>1, <2>3 DEF Behind
  <2>4. QED
    BY <2>2, <2>3
<1>3. CASE Foreign
  BY <1>0, <1>3, ForeignEffect DEF Foreign, Behind
<1>4. CASE OpenFile
  BY <1>4 DEF OpenFile
<1>5. CASE CloseFile
  BY <1>5 DEF CloseFile
<1>6. CASE RecvAdd
  <2>1. Taken
    BY <1>0, <1>6, RecvEffect DEF RecvAdd
  <2>2. SUFFICES ASSUME Ejecting PROVE FALSE
    BY <1>6 DEF RecvAdd
  <2>3. 1 \in DOMAIN events /\ events[1].act = "add"
    BY <1>6, <2>1 DEF RecvAdd, Taken
  <2>4. QED
    BY <2>2, <2>3
<1>7. CASE RecvRemove
  <2>1. Taken
    BY <1>0, <1>7, RecvEffect DEF RecvRemove
  <2>2. QED
    BY <1>7, <2>1 DEF RecvRemove, Taken
<1>8. CASE Umount
  BY <1>8 DEF Umount
<1>9. CASE Forget
  BY <1>9 DEF Forget
<1>10. CASE Mount
  BY <1>10 DEF Mount
<1>11. CASE Activate
  BY <1>11 DEF Activate
<1>12. CASE PromptEnd
  BY <1>12 DEF PromptEnd
<1>13. CASE Eject
  <2>1. menu' # "menu" => events = <<>> /\ pc = "recv"
    BY <1>13 DEF Eject
  <2>2. DOMAIN <<>> = {}
    BY EmptySeq
  <2>3. QED
    BY <1>13, <2>1, <2>2 DEF Eject, Keys
<1>14. CASE Usage
  BY <1>14 DEF Usage
<1>15. CASE EjectUmount
  BY <1>15 DEF EjectUmount
<1>16. CASE EjectScsi
  BY <1>16 DEF EjectScsi
<1>17. CASE EjectClear
  BY <1>17 DEF EjectClear
<1>18. CASE EjectWipe
  BY <1>18 DEF EjectWipe
<1>19. CASE UsageShow
  BY <1>19 DEF UsageShow
<1>20. CASE UsageTimeout
  BY <1>20 DEF UsageTimeout
<1>21. CASE UNCHANGED vars
  BY <1>21 DEF vars
<1>22. QED
  BY <1>1, <1>2, <1>3, <1>4, <1>5, <1>6, <1>7, <1>8, <1>9, <1>10, <1>11, <1>12, <1>13,
     <1>14, <1>15, <1>16, <1>17, <1>18, <1>19, <1>20, <1>21
  DEF Next, Hotplug, Menu


-----------------------------------------------------------------------------
(* A stick that is reported online is there.                               *)

\* A removal that is in the buffer stays there, and a new one finds room if there is any.
LEMMA BehindLeaves ==
  ASSUME Behind("remove") \/ Behind("add")
  PROVE  Leaves => Leaves'
<1>1. /\ DOMAIN events = 1 .. Len(events) /\ DOMAIN events' = 1 .. Len(events')
      /\ Len(events) \in Nat /\ Len(events') \in Nat /\ Len(events) <= Len(events')
      /\ \A k \in 1 .. Len(events) : events'[k] = events[k]
  BY DEF Behind
<1>2. ASSUME NEW k \in DOMAIN events, events[k].act = "remove"
      PROVE  k \in DOMAIN events' /\ events'[k].act = "remove"
  BY <1>1, <1>2
<1>3. QED
  BY <1>2 DEF Leaves

\* A removal that finds room is in the buffer.
LEMMA RoomLeaves ==
  ASSUME Behind("remove"), Len(events) < QueueMax
  PROVE  Leaves'
<1> DEFINE k == Len(events')
<1>1. k \in DOMAIN events' /\ k > Len(events)
  BY DEF Behind
<1>2. events'[k].act = "remove"
  BY <1>1 DEF Behind
<1>3. QED
  BY <1>1, <1>2 DEF Leaves

\* Reading an added device leaves the removals in the buffer.
LEMMA TakenLeaves ==
  ASSUME Taken, Head(events).act = "add"
  PROVE  Leaves => Leaves'
<1>1. ASSUME NEW k \in DOMAIN events, events[k].act = "remove"
      PROVE  k - 1 \in DOMAIN events' /\ events'[k - 1].act = "remove"
  <2>1. k # 1
    BY <1>1 DEF Taken
  <2>2. k - 1 \in 1 .. Len(events') /\ (k - 1) + 1 = k
    BY <1>1, <2>1 DEF Taken
  <2>3. events'[k - 1] = events[(k - 1) + 1]
    BY <2>2 DEF Taken
  <2>4. QED
    BY <1>1, <2>2, <2>3 DEF Taken
<1>2. QED
  BY <1>1 DEF Leaves

\* The set starts with no stick.
LEMMA OnlineInit == Init => OnlineInv
<1> SUFFICES ASSUME Init PROVE OnlineInv
  OBVIOUS
<1>1. is_active = 0 /\ pc = "recv" /\ menu = "menu"
  BY DEF Init
<1>2. QED
  BY <1>1, TypeInit DEF OnlineInv, Alone, Ejecting

\* As long as the stick lets go when it is ejected and comes back only after it was handled,
\* one that is online is here, or its removal is on the way.
LEMMA OnlineStep ==
  ASSUME ~May("swap"), ~May("scsi"), ~May("bounce")
  PROVE  OnlineInv /\ [Next]_vars => OnlineInv'
<1> SUFFICES ASSUME OnlineInv, [Next]_vars PROVE OnlineInv'
  OBVIOUS
<1> DEFINE Online == is_active = 1 \/ pc = "active" => Here \/ Leaving
           Soon == pc = "mount" /\ present =>
                     devfile # 0 /\ part_num # 0 /\ (Len(events) < QueueMax \/ Leaves)
<1>a. TypeOK /\ TypeOK' /\ Alone /\ Alone' /\ Online /\ Soon
  BY TypeStep, AloneStep DEF OnlineInv
<1>b. SUFFICES Online' /\ Soon'
  BY <1>a DEF OnlineInv
<1> USE <1>a DEF stick, dev, menuVars
<1>1. CASE Plug
  <2>1. Behind("add") /\ ~present /\ pc # "mount"
    BY <1>1, PlugEffect DEF Plug
  <2>2. Leaves => Leaves'
    BY <2>1, BehindLeaves
  <2>3. UNCHANGED <<is_active, pc, flag_off, part_num>>
    BY <1>1 DEF Plug
  <2>4. QED
    BY <2>1, <2>2, <2>3 DEF Here, Leaving
<1>2. CASE Unplug
  <2>1. Behind("remove") /\ ~present'
    BY <1>2, UnplugEffect DEF Unplug
  <2>2. Leaves \/ Len(events) < QueueMax => Leaves'
    BY <2>1, BehindLeaves, RoomLeaves
  <2>3. UNCHANGED <<is_active, pc, flag_off, part_num>>
    BY <1>2 DEF Unplug
  <2>4. QED
    BY <2>1, <2>2, <2>3 DEF Here, Leaving
<1>3. CASE Foreign
  <2>1. Behind("remove")
    BY <1>3, ForeignEffect
  <2>2. Leaves \/ Len(events) < QueueMax => Leaves'
    BY <2>1, BehindLeaves, RoomLeaves
  <2>3. UNCHANGED <<is_active, pc, flag_off, part_num, devfile, present>>
    BY <1>3 DEF Foreign
  <2>4. QED
    BY <2>2, <2>3 DEF Here, Leaving
<1>4. CASE OpenFile
  BY <1>4 DEF OpenFile, Here, Leaving, Leaves, OnTop, Keys
<1>5. CASE CloseFile
  BY <1>5 DEF CloseFile, Here, Leaving, Leaves, OnTop, Keys
<1>6. CASE RecvAdd
  <2>1. Taken /\ Head(events).act = "add" /\ pc = "recv" /\ pc' # "active"
    BY <1>6, RecvEffect DEF RecvAdd
  <2>2. (Leaves => Leaves') /\ Len(events') < QueueMax
    BY <2>1, TakenLeaves DEF Taken
  <2>3. UNCHANGED <<is_active, flag_off, present, mounts, menu>>
    BY <1>6 DEF RecvAdd
  <2>4. \/ UNCHANGED <<pc, devfile, part_num>>
        \/ pc' = "mount" /\ devfile' # 0 /\ part_num' = 1
    BY <1>6 DEF RecvAdd
  <2>5. Here => Here'
    BY <2>2, <2>3, <2>4 DEF Here, OnTop
  <2>6. Leaving => Leaving'
    BY <2>1, <2>2, <2>3, <2>4 DEF Leaving
  <2>7. QED
    BY <2>1, <2>2, <2>3, <2>4, <2>5, <2>6
<1>7. CASE RecvRemove
  <2>1. pc = "recv" /\ pc' \in {"recv", "umount"} /\ UNCHANGED is_active
    BY <1>7 DEF RecvRemove
  <2>2. flag_off = 0 /\ part_num # 0 => pc' = "umount"
    BY <1>7 DEF RecvRemove
  <2>3. QED
    BY <2>1, <2>2 DEF Here, Leaving
<1>8. CASE Umount
  BY <1>8 DEF Umount, Leaving
<1>9. CASE Forget
  BY <1>9 DEF Forget
<1>10. CASE Mount
  <2>1. pc = "mount" /\ flag_off' = 0 /\ UNCHANGED <<present, part_num, devfile, is_active, events, menu>>
    BY <1>10 DEF Mount
  <2>2. Leaves' <=> Leaves
    BY <2>1 DEF Leaves
  <2>3. CASE pc' = "active"
    <3>1. Mountable /\ mounts' = Append(mounts, devfile)
      BY <1>10, <2>3 DEF Mount
    <3>2. present /\ devfile # 0 /\ part_num # 0 /\ (Len(events) < QueueMax \/ Leaves)
      BY <2>1, <3>1 DEF Mountable
    <3>3. OnTop'
      BY <3>1, <3>2, PushEffect DEF OnTop
    <3>4. QED
      BY <2>1, <2>2, <2>3, <3>2, <3>3 DEF Here, Leaving
  <2>4. CASE pc' # "active"
    <3>1. pc' = "recv" /\ UNCHANGED mounts
      BY <1>10, <2>4 DEF Mount
    <3>2. QED
      BY <2>1, <2>2, <3>1 DEF Here, Leaving, OnTop
  <2>5. QED
    BY <2>3, <2>4
<1>11. CASE Activate
  BY <1>11 DEF Activate, Here, Leaving, Leaves, OnTop, Keys
<1>12. CASE PromptEnd
  BY <1>12 DEF PromptEnd, Here, Leaving, Leaves, OnTop, Keys
<1>13. CASE Eject
  BY <1>13 DEF Eject, Here, Leaving, Leaves, OnTop, Keys
<1>14. CASE Usage
  BY <1>14 DEF Usage, Here, Leaving, Leaves, OnTop, Keys
<1>15. CASE EjectUmount
  <2>1. menu' = "scsi" /\ UNCHANGED <<stick, pc, dev>>
    BY <1>15 DEF EjectUmount
  <2>2. QED
    BY <2>1 DEF Here, Leaving, Leaves
<1>16. CASE EjectScsi
  BY <1>16 DEF EjectScsi, Here, Leaving, Leaves, OnTop, Keys
<1>17. CASE EjectClear
  <2>1. is_active' = 0 /\ pc' = pc /\ pc \notin {"active", "mount"}
    BY <1>17 DEF EjectClear, Alone, Ejecting
  <2>2. QED
    BY <2>1
<1>18. CASE EjectWipe
  BY <1>18 DEF EjectWipe, Here, Leaving, Leaves, OnTop, Keys
<1>19. CASE UsageShow
  BY <1>19 DEF UsageShow, Here, Leaving, Leaves, OnTop, Keys
<1>20. CASE UsageTimeout
  BY <1>20 DEF UsageTimeout, Here, Leaving, Leaves, OnTop, Keys
<1>21. CASE UNCHANGED vars
  BY <1>21 DEF vars, Here, Leaving, Leaves, OnTop
<1>22. QED
  BY <1>1, <1>2, <1>3, <1>4, <1>5, <1>6, <1>7, <1>8, <1>9, <1>10, <1>11, <1>12, <1>13,
     <1>14, <1>15, <1>16, <1>17, <1>18, <1>19, <1>20, <1>21
  DEF Next, Hotplug, Menu

\* is_usb_online is true to what is there, once every event is handled: whatever is removed
\* besides the stick, whatever cannot be mounted and however small the receive buffer is.
THEOREM OnlineMeansPresent == Faults \subseteq Orderly /\ Spec => []OnlineIsPresent
<1> DEFINE Inv == Faults \subseteq Orderly /\ OnlineInv
<1>1. Faults \subseteq Orderly /\ Init => Inv
  BY OnlineInit
<1>2. Inv /\ [Next]_vars => Inv'
  BY OnlineStep DEF May, Orderly
<1>3. Inv => OnlineIsPresent
  <2> SUFFICES ASSUME OnlineInv, Quiet, is_active = 1
               PROVE  present /\ mounts # <<>> /\ mounts[Len(mounts)] # 0
    BY DEF OnlineIsPresent
  <2>1. DOMAIN events = {}
    BY EmptySeq DEF Quiet
  <2>2. ~Leaving
    BY <2>1 DEF Leaving, Leaves, Quiet
  <2>3. Here
    BY <2>2 DEF OnlineInv
  <2>4. QED
    BY <2>3 DEF Here, OnTop, Quiet
<1> HIDE DEF Inv
<1>4. QED
  BY <1>1, <1>2, <1>3, PTL DEF Spec


-----------------------------------------------------------------------------
(* An eject wipes nothing that is mounted.                                 *)

\* What is below the topmost mount, and all of it when nothing is mounted, stays so.
LEMMA UmountKeepsGone ==
  ASSUME TypeOK, TypeOK', NEW named \in BOOLEAN, Umount2(named)
  PROVE  AllGone => AllGone'
<1>1. /\ Len(mounts') <= Len(mounts) /\ Len(mounts) \in Nat /\ Len(mounts') \in Nat
      /\ \A k \in 1 .. Len(mounts') : mounts'[k] = mounts[k]
  BY UmountEffect
<1>2. DOMAIN mounts = 1 .. Len(mounts) /\ DOMAIN mounts' = 1 .. Len(mounts')
  BY LenProperties DEF TypeOK
<1>3. QED
  BY <1>1, <1>2 DEF AllGone

\* The set starts with nothing mounted.
LEMMA WipeInit == Init => WipeInv
<1> SUFFICES ASSUME Init PROVE WipeInv
  OBVIOUS
<1>1. mounts = <<>> /\ menu = "menu"
  BY DEF Init
<1>2. DOMAIN mounts = {}
  BY <1>1, EmptySeq
<1>3. QED
  BY <1>1, <1>2, TypeInit DEF WipeInv, Alone, Ejecting

\* A stick of one partition that is not replaced while it is ejected, and that no recording
\* uses then, is unmounted before the mount point is wiped.
LEMMA WipeStep ==
  ASSUME NParts = 1, ~May("swap"), ~May("autorec")
  PROVE  WipeInv /\ [Next]_vars => WipeInv'
<1> SUFFICES ASSUME WipeInv, [Next]_vars PROVE WipeInv'
  OBVIOUS
<1> DEFINE Low == \A k \in DOMAIN mounts : k < Len(mounts) => mounts[k] = 0
           Unused == menu = "umount" => busy = 0
           Gone == menu \in {"scsi", "clear", "wipe"} /\ target => AllGone
<1>a. TypeOK /\ TypeOK' /\ Alone /\ Alone' /\ Low /\ Unused /\ Gone
  BY TypeStep, AloneStep DEF WipeInv
<1>b. SUFFICES Low' /\ Unused' /\ Gone'
  BY <1>a DEF WipeInv
<1>c. /\ DOMAIN mounts = 1 .. Len(mounts) /\ DOMAIN mounts' = 1 .. Len(mounts')
      /\ Len(mounts) \in Nat /\ Len(mounts') \in Nat
  BY <1>a, LenProperties DEF TypeOK
<1>d. UNCHANGED mounts => (Low' <=> Low) /\ (AllGone' <=> AllGone)
  BY DEF AllGone
<1> HIDE DEF Low
<1> USE <1>a, <1>d DEF stick, dev, menuVars
<1>1. CASE Plug
  BY <1>1 DEF Plug
<1>2. CASE Unplug
  <2>1. AllGone' /\ UNCHANGED <<menu, busy, target>>
    BY <1>2, PullEffect DEF Unplug
  <2>2. Low'
    BY <2>1 DEF AllGone, Low
  <2>3. QED
    BY <2>1, <2>2
<1>3. CASE Foreign
  BY <1>3 DEF Foreign
<1>4. CASE OpenFile
  BY <1>4 DEF OpenFile, May
<1>5. CASE CloseFile
  BY <1>5 DEF CloseFile
<1>6. CASE RecvAdd
  BY <1>6 DEF RecvAdd
<1>7. CASE RecvRemove
  BY <1>7 DEF RecvRemove
<1>8. CASE Umount
  <2>1. path \in BOOLEAN /\ Umount2(path) /\ UNCHANGED <<menu, busy, target>>
    BY <1>8 DEF Umount, TypeOK
  <2>2. Len(mounts') <= Len(mounts) /\ \A k \in 1 .. Len(mounts') : mounts'[k] = mounts[k]
    BY <2>1, UmountEffect
  <2>3. Low'
    BY <1>c, <2>2 DEF Low
  <2>4. AllGone => AllGone'
    BY <2>1, UmountKeepsGone
  <2>5. QED
    BY <2>1, <2>3, <2>4
<1>9. CASE Forget
  BY <1>9 DEF Forget
<1>10. CASE Mount
  <2>1. pc = "mount" /\ UNCHANGED <<menu, busy, target>>
    BY <1>10 DEF Mount
  <2>2. ~Ejecting
    BY <2>1 DEF Alone
  <2>3. CASE UNCHANGED mounts
    BY <2>1, <2>3
  <2>4. CASE Mountable /\ mounts' = Append(mounts, devfile)
    <3>1. /\ Len(mounts') = Len(mounts) + 1
          /\ \A k \in 1 .. Len(mounts) : mounts'[k] = mounts[k]
      BY <2>4, PushEffect
    <3>2. ASSUME mounts # <<>> PROVE mounts[Len(mounts)] = 0
      <4>1. mounts[Len(mounts)] # devfile /\ devfile # 0
        BY <2>4, <3>2 DEF Mountable
      <4>2. mounts \in Seq(0 .. 1) /\ devfile \in 0 .. 1 /\ Len(mounts) # 0
        BY <1>c, <3>2, EmptySeq DEF TypeOK
      <4>3. mounts[Len(mounts)] \in 0 .. 1
        BY <1>c, <4>2, ElementOfSeq
      <4>4. QED
        BY <4>1, <4>2, <4>3
    <3>3. ASSUME NEW k \in 1 .. Len(mounts) PROVE mounts[k] = 0
      <4>1. mounts # <<>>
        BY <3>3, EmptySeq
      <4>2. QED
        BY <1>c, <3>2, <4>1 DEF Low
    <3>4. Low'
      BY <1>c, <3>1, <3>3 DEF Low
    <3>5. QED
      BY <2>1, <2>2, <3>4 DEF Ejecting
  <2>5. QED
    BY <1>10, <2>3, <2>4 DEF Mount
<1>11. CASE Activate
  BY <1>11 DEF Activate
<1>12. CASE PromptEnd
  BY <1>12 DEF PromptEnd
<1>13. CASE Eject
  <2>1. menu' = "umount" => busy = 0
    BY <1>13 DEF Eject, Keys
  <2>2. menu' \notin {"scsi", "clear", "wipe"} /\ UNCHANGED <<mounts, busy>>
    BY <1>13 DEF Eject, Keys
  <2>3. QED
    BY <2>1, <2>2
<1>14. CASE Usage
  BY <1>14 DEF Usage, Keys
<1>15. CASE EjectUmount
  <2>1. /\ target \in BOOLEAN /\ Umount2(target) /\ UNCHANGED <<busy, target>>
        /\ menu = "umount" /\ menu' = "scsi"
    BY <1>15 DEF EjectUmount, TypeOK
  <2>2. /\ Len(mounts') <= Len(mounts) /\ \A k \in 1 .. Len(mounts') : mounts'[k] = mounts[k]
        /\ target /\ mounts # <<>> /\ busy # Len(mounts) => Len(mounts') < Len(mounts)
    BY <2>1, UmountEffect
  <2>3. Low'
    BY <1>c, <2>2 DEF Low
  <2>4. ASSUME target PROVE AllGone'
    <3>1. CASE mounts = <<>>
      <4>1. Len(mounts) = 0
        BY <3>1, EmptySeq
      <4>2. QED
        BY <1>c, <2>2, <4>1 DEF AllGone
    <3>2. CASE mounts # <<>>
      <4>1. Len(mounts) # 0 /\ busy = 0
        BY <1>c, <2>1, <3>2, EmptySeq DEF TypeOK
      <4>2. Len(mounts') < Len(mounts)
        BY <2>2, <2>4, <3>2, <4>1
      <4>3. QED
        BY <1>c, <2>2, <4>2 DEF AllGone, Low
    <3>3. QED
      BY <3>1, <3>2
  <2>5. QED
    BY <2>1, <2>3, <2>4
<1>16. CASE EjectScsi
  BY <1>16 DEF EjectScsi
<1>17. CASE EjectClear
  BY <1>17 DEF EjectClear
<1>18. CASE EjectWipe
  BY <1>18 DEF EjectWipe
<1>19. CASE UsageShow
  BY <1>19 DEF UsageShow
<1>20. CASE UsageTimeout
  BY <1>20 DEF UsageTimeout
<1>21. CASE UNCHANGED vars
  BY <1>21 DEF vars
<1>22. QED
  BY <1>1, <1>2, <1>3, <1>4, <1>5, <1>6, <1>7, <1>8, <1>9, <1>10, <1>11, <1>12, <1>13,
     <1>14, <1>15, <1>16, <1>17, <1>18, <1>19, <1>20, <1>21
  DEF Next, Hotplug, Menu

\* rm -rf of the mount point, at the end of an eject, never meets a mounted file system: the
\* stick has a single partition, is not replaced meanwhile and no recording starts then.
THEOREM NothingWiped == NParts = 1 /\ Faults \subseteq Undisturbed /\ Spec => []NoWipe
<1> DEFINE Inv == NParts = 1 /\ Faults \subseteq Undisturbed /\ WipeInv
<1>1. NParts = 1 /\ Faults \subseteq Undisturbed /\ Init => Inv
  BY WipeInit
<1>2. Inv /\ [Next]_vars => Inv'
  BY WipeStep DEF May, Undisturbed
<1>3. Inv => NoWipe
  BY DEF WipeInv, NoWipe, AllGone
<1> HIDE DEF Inv
<1>4. QED
  BY <1>1, <1>2, <1>3, PTL DEF Spec


-----------------------------------------------------------------------------
(* A stick that is there is reported online.                               *)

\* Taking the first event keeps the order of the others; if it is an addition, only
\* additions are behind it; and an addition with a number that is not first stays.
LEMMA TakenOrder ==
  ASSUME Taken
  PROVE  /\ Ordered => Ordered'
         /\ AllAdds => AllAdds'
         /\ Ordered /\ events[1].act = "add" => AllAdds'
         /\ Brings /\ (events[1].act = "remove" \/ events[1].part = 0) => Brings'
<1>1. \A k \in DOMAIN events' : k \in 1 .. Len(events') /\ k + 1 \in DOMAIN events /\ k + 1 > 1
                                /\ events'[k] = events[k + 1]
  BY DEF Taken
<1>2. 1 \in DOMAIN events
  BY DEF Taken
<1>3. ASSUME Ordered PROVE Ordered'
  <2> SUFFICES ASSUME NEW j \in DOMAIN events', NEW k \in DOMAIN events', j < k,
                      events'[j].act = "add"
               PROVE  events'[k].act = "add"
    BY DEF Ordered
  <2>1. j + 1 \in DOMAIN events /\ k + 1 \in DOMAIN events /\ j + 1 < k + 1
        /\ events[j + 1].act = "add"
    BY <1>1
  <2>2. events[k + 1].act = "add"
    BY <1>3, <2>1 DEF Ordered
  <2>3. QED
    BY <1>1, <2>2
<1>4. ASSUME AllAdds PROVE AllAdds'
  BY <1>1, <1>4 DEF AllAdds
<1>5. ASSUME Ordered, events[1].act = "add" PROVE AllAdds'
  <2> SUFFICES ASSUME NEW k \in DOMAIN events' PROVE events'[k].act = "add"
    BY DEF AllAdds
  <2>1. k + 1 \in DOMAIN events /\ 1 < k + 1
    BY <1>1
  <2>2. events[k + 1].act = "add"
    BY <1>2, <1>5, <2>1 DEF Ordered
  <2>3. QED
    BY <1>1, <2>2
<1>6. ASSUME Brings, events[1].act = "remove" \/ events[1].part = 0 PROVE Brings'
  <2>1. PICK k \in DOMAIN events : events[k].act = "add" /\ events[k].part # 0
    BY <1>6 DEF Brings
  <2>2. k # 1
    BY <1>6, <2>1
  <2>3. k - 1 \in DOMAIN events' /\ events'[k - 1] = events[(k - 1) + 1] /\ (k - 1) + 1 = k
    <3>1. k \in 1 .. Len(events) /\ Len(events) \in Nat
      BY DEF Taken
    <3>2. k - 1 \in 1 .. Len(events') /\ (k - 1) + 1 = k
      BY <2>2, <3>1 DEF Taken
    <3>3. QED
      BY <3>2 DEF Taken
  <2>4. QED
    BY <2>1, <2>3 DEF Brings
<1>7. QED
  BY <1>3, <1>4, <1>5, <1>6

\* The set starts with no stick and nothing mounted.
LEMMA PresentInit == Init => PresentInv
<1> SUFFICES ASSUME Init PROVE PresentInv
  OBVIOUS
<1>1. mounts = <<>> /\ menu = "menu" /\ ~present
  BY DEF Init
<1>2. DOMAIN mounts = {}
  BY <1>1, EmptySeq
<1>3. QED
  BY <1>1, <1>2, TypeInit DEF PresentInv, Alone, Ejecting, AllGone

\* As long as it comes back only after it was handled, and not during an eject, a stick whose
\* events are all received is on its way online, or is online and stays so.
LEMMA PresentStep ==
  ASSUME ~May("swap"), ~May("bounce")
  PROVE  PresentInv /\ [Next]_vars => PresentInv'
<1> SUFFICES ASSUME PresentInv, [Next]_vars PROVE PresentInv'
  OBVIOUS
<1> DEFINE Pulled == ~present => AllGone
           Let == menu = "clear" => ejected \/ ~present
           Sorted == present /\ ~missed => Ordered
           Ready == present /\ ~missed /\ pc = "mount" => AllAdds /\ devfile # 0
           Way == present /\ ~missed /\ ~ejected => Coming \/ Mounting \/ Staying
<1>a. TypeOK /\ TypeOK' /\ Alone /\ Alone' /\ Pulled /\ Let /\ Sorted /\ Ready /\ Way
  BY TypeStep, AloneStep DEF PresentInv
<1>b. SUFFICES Pulled' /\ Let' /\ Sorted' /\ Ready' /\ Way'
  BY <1>a DEF PresentInv
<1>c. UNCHANGED mounts => (AllGone' <=> AllGone)
  BY DEF AllGone
<1>d. UNCHANGED events => (AllAdds' <=> AllAdds) /\ (Brings' <=> Brings) /\ (Ordered' <=> Ordered)
  BY DEF AllAdds, Brings, Ordered
<1> USE <1>a, <1>c, <1>d DEF stick, dev, menuVars, Coming, Mounting, Staying
<1>1. CASE Plug
  <2>1. ~present /\ UNCHANGED <<mounts, pc, menu>>
    BY <1>1 DEF Plug
  <2>2. menu = "menu" /\ pc # "mount" /\ \A k \in DOMAIN events : events[k].act = "remove"
    BY <1>1 DEF Plug
  <2>3. Behind("add") /\ (~missed' => Brings')
    BY <1>1, PlugEffect DEF Brings
  <2>4. Ordered'
    <3> SUFFICES ASSUME NEW j \in DOMAIN events', NEW k \in DOMAIN events', j < k,
                        events'[j].act = "add"
                 PROVE  events'[k].act = "add"
      BY DEF Ordered
    <3>1. ~(j \in DOMAIN events)
      <4>1. ASSUME j \in DOMAIN events PROVE FALSE
        <5>1. events'[j] = events[j]
          BY <2>3, <4>1 DEF Behind
        <5>2. QED
          BY <2>2, <4>1, <5>1
      <4>2. QED
        BY <4>1
    <3>2. k > Len(events) /\ k \in 1 .. Len(events')
      BY <2>3, <3>1 DEF Behind
    <3>3. QED
      BY <2>3, <3>2 DEF Behind
  <2>5. AllGone'
    BY <2>1
  <2>6. QED
    BY <2>1, <2>2, <2>3, <2>4, <2>5
<1>2. CASE Unplug
  <2>1. ~present' /\ AllGone'
    BY <1>2, UnplugEffect DEF Unplug
  <2>2. QED
    BY <2>1
<1>3. CASE Foreign
  <2>1. missed'
    BY <1>3, ForeignEffect
  <2>2. UNCHANGED <<mounts, present, ejected, menu>>
    BY <1>3 DEF Foreign
  <2>3. QED
    BY <2>1, <2>2
<1>4. CASE OpenFile
  BY <1>4 DEF OpenFile
<1>5. CASE CloseFile
  BY <1>5 DEF CloseFile
<1>6. CASE RecvAdd
  <2>1. Taken /\ events[1].act = "add" /\ Head(events) = events[1]
    BY <1>6, RecvEffect DEF RecvAdd, Taken
  <2>2. pc = "recv" /\ UNCHANGED <<present, ejected, missed, is_active, mounts, menu>>
    BY <1>6 DEF RecvAdd
  <2>3. (Ordered => Ordered' /\ AllAdds') /\ (Brings /\ events[1].part = 0 => Brings')
        /\ (AllAdds => AllAdds')
    BY <2>1, TakenOrder
  <2>4. CASE events[1].part = 0
    <3>1. UNCHANGED <<pc, devfile>>
      BY <1>6, <2>1, <2>4 DEF RecvAdd
    <3>2. QED
      BY <2>2, <2>3, <2>4, <3>1
  <2>5. CASE events[1].part # 0
    <3>1. pc' = "mount" /\ devfile' # 0
      BY <1>6, <2>1, <2>5 DEF RecvAdd
    <3>2. QED
      BY <2>2, <2>3, <3>1
  <2>6. QED
    BY <2>4, <2>5
<1>7. CASE RecvRemove
  <2>1. Taken /\ events[1].act = "remove"
    BY <1>7, RecvEffect DEF RecvRemove, Taken
  <2>2. /\ pc = "recv" /\ pc' \in {"recv", "umount"}
        /\ UNCHANGED <<present, ejected, missed, is_active, mounts, menu>>
    BY <1>7 DEF RecvRemove
  <2>3. (Ordered => Ordered') /\ (Brings => Brings')
    BY <2>1, TakenOrder
  <2>4. ~AllAdds
    <3>1. 1 \in DOMAIN events
      BY <2>1 DEF Taken
    <3>2. QED
      BY <2>1, <3>1 DEF AllAdds
  <2>5. QED
    BY <2>2, <2>3, <2>4
<1>8. CASE Umount
  <2>1. path \in BOOLEAN /\ Umount2(path) /\ UNCHANGED <<stick, dev, menu>>
    BY <1>8 DEF Umount, TypeOK
  <2>2. AllGone => AllGone'
    BY <2>1, UmountKeepsGone
  <2>3. pc = "umount" /\ pc' = "forget"
    BY <1>8 DEF Umount
  <2>4. QED
    BY <2>1, <2>2, <2>3
<1>9. CASE Forget
  BY <1>9 DEF Forget
<1>10. CASE Mount
  <2>1. pc = "mount" /\ UNCHANGED <<present, ejected, events, devfile, is_active, menu>>
    BY <1>10 DEF Mount
  <2>2. ASSUME AllGone, devfile # 0, present, ~ejected PROVE Mountable
    <3>1. ASSUME mounts # <<>> PROVE mounts[Len(mounts)] = 0
      <4>1. Len(mounts) \in DOMAIN mounts
        BY <3>1, EmptySeq, LenProperties DEF TypeOK
      <4>2. QED
        BY <2>2, <4>1 DEF AllGone
    <3>2. QED
      BY <2>2, <3>1 DEF Mountable
  <2>3. CASE Mountable /\ pc' = "active" /\ UNCHANGED missed
    BY <2>1, <2>3 DEF Mountable
  <2>4. CASE pc' = "recv" /\ UNCHANGED mounts /\ missed' = (missed \/ Mountable)
    <3>1. ASSUME ~missed' PROVE ~missed /\ ~Mountable
      BY <2>4, <3>1
    <3>2. QED
      BY <2>1, <2>2, <2>4, <3>1
  <2>5. QED
    BY <1>10, <2>3, <2>4 DEF Mount
<1>11. CASE Activate
  BY <1>11 DEF Activate
<1>12. CASE PromptEnd
  BY <1>12 DEF PromptEnd
<1>13. CASE Eject
  BY <1>13 DEF Eject, Keys
<1>14. CASE Usage
  BY <1>14 DEF Usage, Keys
<1>15. CASE EjectUmount
  <2>1. target \in BOOLEAN /\ Umount2(target) /\ menu' = "scsi" /\ UNCHANGED <<stick, dev, pc>>
    BY <1>15 DEF EjectUmount, TypeOK
  <2>2. AllGone => AllGone'
    BY <2>1, UmountKeepsGone
  <2>3. QED
    BY <2>1, <2>2
<1>16. CASE EjectScsi
  <2>1. UNCHANGED <<present, missed, events, pc, dev, mounts>>
    BY <1>16 DEF EjectScsi
  <2>2. (menu' = "clear" /\ ejected' = TRUE) \/ (menu' = "menu" /\ UNCHANGED ejected)
    BY <1>16 DEF EjectScsi
  <2>3. QED
    BY <2>1, <2>2
<1>17. CASE EjectClear
  <2>1. menu = "clear" /\ menu' = "wipe" /\ UNCHANGED <<stick, pc, mounts>>
    BY <1>17 DEF EjectClear
  <2>2. pc # "mount"
    BY <2>1 DEF Alone, Ejecting
  <2>3. QED
    BY <2>1, <2>2
<1>18. CASE EjectWipe
  BY <1>18 DEF EjectWipe
<1>19. CASE UsageShow
  BY <1>19 DEF UsageShow
<1>20. CASE UsageTimeout
  BY <1>20 DEF UsageTimeout
<1>21. CASE UNCHANGED vars
  BY <1>21 DEF vars
<1>22. QED
  BY <1>1, <1>2, <1>3, <1>4, <1>5, <1>6, <1>7, <1>8, <1>9, <1>10, <1>11, <1>12, <1>13,
     <1>14, <1>15, <1>16, <1>17, <1>18, <1>19, <1>20, <1>21
  DEF Next, Hotplug, Menu

\* is_usb_online misses no stick, once every event is handled: unless an event was lost in the
\* receive buffer, another device went, the stick could not be mounted, or it came back before
\* thread_for_usb had read that it was gone.
THEOREM PresentMeansOnline == Faults \subseteq Handled /\ Spec => []PresentIsOnline
<1> DEFINE Inv == Faults \subseteq Handled /\ PresentInv
<1>1. Faults \subseteq Handled /\ Init => Inv
  BY PresentInit
<1>2. Inv /\ [Next]_vars => Inv'
  BY PresentStep DEF May, Handled
<1>3. Inv => PresentIsOnline
  <2> SUFFICES ASSUME PresentInv, Quiet, present, ~ejected, ~missed PROVE is_active = 1
    BY DEF PresentIsOnline
  <2>1. DOMAIN events = {}
    BY EmptySeq DEF Quiet
  <2>2. ~Brings /\ pc = "recv"
    BY <2>1 DEF Brings, Quiet
  <2>3. QED
    BY <2>2 DEF PresentInv, Coming, Mounting, Staying
<1> HIDE DEF Inv
<1>4. QED
  BY <1>1, <1>2, <1>3, PTL DEF Spec
=============================================================================
