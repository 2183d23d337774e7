---------------------------- MODULE RecordNaming ----------------------------
(***************************************************************************)
(* Which file a recording goes to: descriptor_generation, mod_manage,      *)
(* management_document and record_ts_count of write_usb/writebus.c, with   *)
(* the WriteRecord entry of /etc/dvb.conf they read and rewrite.  A file   *)
(* is its number; opening it truncates it; the number is persisted after   *)
(* the open, so that a power failure may fall between the two.             *)
(***************************************************************************)
EXTENDS Integers, FiniteSets

CONSTANTS
  Limit,     \* 1000, the first number without a name of its own
  Base,      \* 10, the base the numbers are written in
  MaxOrder,  \* bound: no file number above it is tried
  Sessions,  \* bound: recordings started
  Modes,     \* recording modes the user may have configured
  AnyOld     \* whether the stick may hold earlier recordings

ASSUME BoundsAssumption ==
  /\ Limit \in Nat \ {0, 1} /\ MaxOrder \in Nat \ {0} /\ Sessions \in Nat
  /\ Base \in 2 .. Limit /\ MaxOrder < Base * Limit
ASSUME ModesAssumption == Modes \subseteq {"SIG", "SEG", "LOOP"} /\ AnyOld \in BOOLEAN

VARIABLES
  pc,          \* where descriptor_generation or the session is
  mod,         \* init->mod
  incom_count, \* value of WriteRecord when the session started
  next,        \* next_incom_count
  first,       \* first_incom_count, static
  off,         \* whether the loop has wrapped
  opened,      \* whether the last open() succeeded
  count,       \* WriteRecord in /etc/dvb.conf
  data,        \* numbers of the files that hold recorded stream
  own,         \* numbers of the files this session recorded
  full,        \* disk_check() < 0
  again,       \* history: who reused numbers, see Reuse
  sessions     \* recordings started (bound only)

session == <<mod, incom_count>>
loop    == <<first, off>>
disk    == <<data, own>>
bound   == <<again, sessions>>
vars == <<pc, session, next, loop, opened, count, disk, full, bound>>

\* "no": no number was used twice so far   "loop": only this loop recording did,
\* on a full stick   "yes": an earlier one did, or the numbers ran out
Reuse == {"no", "loop", "yes"}

\* Seeded fault: the numbers do not start over.
OrderForEver(n) == n

\* management_document: the number in the file name.
Order(n) == IF n >= Limit THEN 1 ELSE n

\* Seeded fault: the whole number is kept.
StoredWhole(n) == n

\* config_set_config keeps three characters of the number: 1000 becomes 100.
Stored(n) == IF n >= Limit THEN n \div Base ELSE n

Init ==
  /\ pc = "idle" /\ mod \in Modes /\ incom_count = 0 /\ next = 0
  /\ first = 0 /\ off = 0 /\ opened = FALSE /\ sessions = 0 /\ again = "no"
  /\ count \in 0 .. IF AnyOld THEN Limit - 1 ELSE 0
  /\ data = 1 .. count /\ own = {} /\ full \in BOOLEAN

\* writ_usb and creat_job_thread: a recording needs space to start.
Start ==
  /\ pc = "idle" /\ ~full /\ sessions < Sessions
  /\ pc' = "choose" /\ mod' \in Modes /\ incom_count' = count
  /\ next' = count /\ off' = 0 /\ own' = {} /\ sessions' = sessions + 1
  /\ again' = IF again = "no" THEN "no" ELSE "yes"
  /\ UNCHANGED <<first, opened, count, data, full>>

\* mod_manage found space: the next number in every mode.
ChooseNext ==
  /\ pc = "choose" /\ ~full /\ next < MaxOrder
  /\ pc' = "open" /\ next' = next + 1
  /\ again' = IF next' >= Limit THEN "yes" ELSE again
  /\ UNCHANGED <<session, loop, opened, count, disk, full, sessions>>

\* mod_manage found none: a single or segmented recording ends.
ChooseEnd ==
  /\ pc = "choose" /\ full /\ mod # "LOOP"
  /\ pc' = "idle"
  /\ UNCHANGED <<session, next, loop, opened, count, disk, full, bound>>

\* Seeded fault: the wrap goes to the first file there is.
ChooseWrapToOne ==
  /\ pc = "choose" /\ full /\ mod = "LOOP"
  /\ pc' = "open" /\ off' = 1
  /\ first' = IF off = 0 THEN count ELSE first
  /\ count' = IF off = 0 THEN 0 ELSE count
  /\ next' = LET n == (IF off = 0 THEN 0 ELSE next) + 1 IN IF first' <= n THEN first' ELSE n
  /\ again' = IF again = "no" THEN "loop" ELSE again
  /\ UNCHANGED <<session, opened, disk, full, sessions>>

\* A loop recording on a full stick: the first time its last number becomes
\* the upper end, and the number it started with is persisted again.
ChooseWrap ==
  /\ pc = "choose" /\ full /\ mod = "LOOP"
  /\ pc' = "open" /\ off' = 1
  /\ first' = IF off = 0 THEN count ELSE first
  /\ count' = IF off = 0 THEN Stored(incom_count) ELSE count
  /\ next' = LET n == (IF off = 0 THEN incom_count ELSE next) + 1
             IN  IF first' <= n THEN first' ELSE n
  /\ again' = IF again = "no" THEN "loop" ELSE again
  /\ UNCHANGED <<session, opened, disk, full, sessions>>

\* open( path_name, O_WRONLY | O_CREAT | O_TRUNC ), which may fail.
Open ==
  /\ pc = "open" /\ pc' = "save"
  /\ \/ opened' = TRUE /\ data' = data \ {Order(next)}
     \/ opened' = FALSE /\ UNCHANGED data
  /\ UNCHANGED <<session, next, loop, count, own, full, bound>>

\* Seeded fault: the number before this one is persisted.
SaveLate ==
  /\ pc = "save" /\ count' = Stored(next - 1)
  /\ pc' = IF opened THEN "record" ELSE "choose"
  /\ UNCHANGED <<session, next, loop, opened, disk, full, bound>>

\* record_ts_count( f_incom_count, next_incom_count ), and the retry of the open.
Save ==
  /\ pc = "save" /\ count' = Stored(next)
  /\ pc' = IF opened THEN "record" ELSE "choose"
  /\ UNCHANGED <<session, next, loop, opened, disk, full, bound>>

\* wr_usb writes into the file.
Record ==
  /\ pc = "record" /\ Order(next) \notin data
  /\ data' = data \cup {Order(next)} /\ own' = own \cup {Order(next)}
  /\ UNCHANGED <<pc, session, next, loop, opened, count, full, bound>>

\* wr_usb: the file is full, descriptor_generation reads WriteRecord again.
Rotate ==
  /\ pc = "record" /\ Order(next) \in data /\ mod # "SIG"
  /\ pc' = "choose" /\ next' = count
  /\ UNCHANGED <<session, loop, opened, count, disk, full, bound>>

\* The recording ends: its size is reached, the user stopped it or it failed.
End ==
  /\ pc = "record" /\ pc' = "idle"
  /\ UNCHANGED <<session, next, loop, opened, count, disk, full, bound>>

\* The set is switched off: statics start over, files and dvb.conf stay.
PowerFail ==
  /\ pc' = "idle" /\ first' = 0 /\ off' = 0 /\ next' = 0 /\ opened' = FALSE /\ own' = {}
  /\ UNCHANGED <<session, count, data, full, bound>>

\* The free space crosses MAX_FREE: by what is written to the current file, or
\* between recordings.
Space ==
  /\ pc = "idle" \/ (pc = "record" /\ Order(next) \in data)
  /\ full' = ~full
  /\ UNCHANGED <<pc, session, next, loop, opened, count, disk, bound>>

Next ==
  \/ Start \/ ChooseNext \/ ChooseEnd \/ ChooseWrap \/ Open \/ Save \/ Record
  \/ Rotate \/ End \/ PowerFail \/ Space

Spec == Init /\ [][Next]_vars

-----------------------------------------------------------------------------
TypeOK ==
  /\ pc \in {"idle", "choose", "open", "save", "record"} /\ mod \in Modes
  /\ incom_count \in 0 .. Limit - 1 /\ next \in 0 .. MaxOrder + Limit /\ first \in 0 .. Limit - 1
  /\ off \in {0, 1} /\ opened \in BOOLEAN /\ full \in BOOLEAN /\ sessions \in 0 .. Sessions /\ again \in Reuse
  /\ data \subseteq 1 .. Limit - 1 /\ own \subseteq data \cup 1 .. Limit - 1

\* The numbers persisted and used in names always have three digits, also when
\* the count runs past the last name, whatever fails and whenever power goes.
NamesFit ==
  /\ count \in 0 .. Limit - 1
  /\ pc \in {"save", "record"} => Order(next) \in 1 .. Limit - 1

\* As long as the numbers last, recordings never truncate a file that holds recorded
\* stream, even when power fails between the creation of a file and the update of
\* WriteRecord.
NoClobber == [][again' = "no" => data \subseteq data']_vars

\* A loop recording on a full stick overwrites files of its own session only.
LoopKeepsOthers == [][again' = "loop" => data \ own \subseteq data']_vars

\* writebus.c:728 and 738: whenever a loop recording has used its last number,
\* the next file is again the one after the number it came in with.
WrapsToStart ==
  [][pc = "choose" /\ pc' = "open" /\ full /\ off = 1 /\ next = first
       => next' = Order(incom_count + 1)]_vars
=============================================================================
