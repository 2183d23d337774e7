------------------------------- MODULE MenuNav -------------------------------
(***************************************************************************)
(* The menu navigation of lcd1602.c: what a key does to the menu shown     *)
(* (Change_Menu), to the editor that is open, and to the stack of places   *)
(* to return to (menu_return_arr); and what the threads beside the keypad  *)
(* do to the same variables, without a lock: the prompt shown when a stick *)
(* is plugged in, and the end of a recording or of a playback.             *)
(* Of the titles, the cursor and the password nothing is modelled.         *)
(***************************************************************************)
EXTENDS MenuTree, FiniteSets

CONSTANTS
  Opened,   \* the menus the user opens: a bound on the tree
  Faults,   \* what disturbs the user: a subset of Disturbances
  Plugs     \* how often a stick is put in: a bound

Disturbances == {"lock", "hotplug", "auto", "cancel", "empty"}

ASSUME MenuNavAssumption == Opened \subseteq Menus /\ Faults \subseteq Disturbances /\ Plugs \in Nat

VARIABLES
  nav,            \* discontrl's menu fields, MenuPoint, menu_return_arr, FileBrowse
  editor,         \* the editor that is open (changemenuflag), or NoEditor
  affirmRecode,   \* presses of enter in it
  updownchoose,   \* the option it shows
  usb_wr_flag,    \* how far a recording asked for by the user is
  signal,         \* what the display shows instead of a menu (signal_open)
  ending,         \* the session that says "stop..." before it shows the menu again
  count,          \* the status pages whose static count is 1
  locked,         \* the key lock: "boot" until it is first used
  online, armed,  \* a stick is in; an automatic recording is due
  plugs,          \* how often one has been put in
  displaced,      \* the user has not come to this selection by going through the menus
  cut,            \* pages that were not closed with the key that opened them
  wild            \* memory outside a table was used: nothing is known of what follows

keys == <<nav, editor, affirmRecode, updownchoose, usb_wr_flag>>
stick == <<online, armed, plugs>>
vars == <<keys, signal, ending, count, locked, stick, displaced, cut, wild>>

NoEditor == [kind |-> "none", of |-> 0]
Choices == {"choice", "yesno", "record"}

\* menu_return_arr has ten places.
Levels == 0..9

\* Bound: how far down or up a selection outside the table is moved.
ChooseMax == 7

(***************************************************************************)
(* The helpers: each gives the new value of nav.                           *)
(***************************************************************************)
ItemsOf(d) == Items(d.MenuPoint, d.files)
InTable(d, i) == i \in 0..(Len(ItemsOf(d)) - 1)
Child(d) == ItemsOf(d)[d.UserChoose + 1].child
Subs(d) == ItemsOf(d)[d.UserChoose + 1].sub

\* MenuPoint[i].ParentMenus. The tables after AudioPidCfg, whose MenuCount is too
\* large, name the same menu; any other place outside a table holds anything.
OutOfTable == "?"
Parent(d, i) ==
  IF d.MenuPoint \in Menus /\ (InTable(d, i) \/ (d.MenuPoint = "AudioPidCfg" /\ i <= 2))
  THEN ParentMenus(d.MenuPoint, d.files) ELSE OutOfTable

ShowMenu(d) ==
  LET MaxItems == MenuCount(d.MenuPoint, d.files)
      Line(i) == IF i + 1 = MaxItems /\ MaxItems >= 2 THEN 0
                 ELSE IF i < MaxItems THEN i + 1 ELSE IF i = MaxItems THEN 0 ELSE i
  IN [d EXCEPT !.DisplayPoint = Line(Line(d.DisplayStart))]

set_rtr_arr(d, n, parent) ==
  [d EXCEPT !.menu_return_arr[n] =
     [option |-> d.UserChoose, displaystart |-> d.DisplayStart, menupoint |-> parent]]
esc_rtr_arr(d, n) ==
  [d EXCEPT !.UserChoose = d.menu_return_arr[n].option,
            !.DisplayStart = d.menu_return_arr[n].displaystart]
\* Seeded fault: the depth is not stopped at zero.
Back_Unclamped(d) == [d EXCEPT !.rtr_count = @ - 1]
Back(d) == [d EXCEPT !.rtr_count = IF @ = 0 THEN 0 ELSE @ - 1]

\* Seeded fault: the main menu's place is overwritten by any scrolling menu.
Scroll_Everywhere(d) ==
  LET moved == [d EXCEPT !.DisplayStart = d.UserChoose]
  IN IF d.UserChoose \in {d.DisplayStart, d.DisplayStart + 1} THEN d
     ELSE set_rtr_arr(moved, 0, Parent(moved, moved.DisplayStart))

\* The window of two lines follows the selection; the main menu's place is kept.
Scroll(d) ==
  LET moved == [d EXCEPT !.DisplayStart = d.UserChoose] IN
  IF d.UserChoose \in {d.DisplayStart, d.DisplayStart + 1} THEN d
  ELSE IF d.rtr_count > 0 THEN moved
  ELSE set_rtr_arr(moved, 0, Parent(moved, moved.DisplayStart))

\* Seeded fault: the selection is kept when a menu is entered.
EnterChild_KeepsChoose(d) ==
  IF ~InTable(d, d.UserChoose) THEN [d EXCEPT !.MenuPoint = OutOfTable]
  ELSE IF Child(d) = NULL THEN d
  ELSE [set_rtr_arr([d EXCEPT !.MenuPoint = Child(d)], d.rtr_count,
                    Parent([d EXCEPT !.MenuPoint = Child(d)], d.UserChoose))
          EXCEPT !.rtr_count = @ + 1, !.DisplayStart = 0]

\* enter_code, after Subs.
EnterChild(d) ==
  IF ~InTable(d, d.UserChoose) THEN [d EXCEPT !.MenuPoint = OutOfTable]
  ELSE IF Child(d) = NULL THEN d
  ELSE LET child == [d EXCEPT !.MenuPoint = Child(d)]
       IN [set_rtr_arr(child, d.rtr_count, Parent(child, d.UserChoose))
             EXCEPT !.rtr_count = @ + 1, !.UserChoose = 0, !.DisplayStart = 0]

\* esc in a menu.
EscMenu(d) ==
  LET parent == Parent(d, d.DisplayStart)
      back == Back([d EXCEPT !.MenuPoint = parent])
      n == back.rtr_count
      place == esc_rtr_arr(back, n)
  IN IF parent = OutOfTable THEN back
     ELSE IF parent = NULL
     THEN set_rtr_arr([Back(d) EXCEPT !.UserChoose = 0, !.DisplayStart = 0], n, NULL)
     ELSE set_rtr_arr(place, n, Parent(back, back.DisplayStart))

\* Seeded fault: leaving an editor does not pop the stack.
LeaveEditor_NoPop(d) ==
  LET menu == [d EXCEPT !.MenuPoint = Parent(d, d.DisplayPoint)]
  IN ShowMenu(esc_rtr_arr(menu, menu.rtr_count))

\* esc in an editor, or its last enter: the parent of the entry on the last line.
\* (What is first drawn of it, at the entry in Option, is left out.)
LeaveEditor(d) ==
  LET back == Back([d EXCEPT !.MenuPoint = Parent(d, d.DisplayPoint)])
  IN ShowMenu(esc_rtr_arr(back, back.rtr_count))

\* paren_menu.
ParenMenu(d) ==
  LET back == Back(d)
      place == esc_rtr_arr(back, back.rtr_count)
      menu == d.menu_return_arr[back.rtr_count].menupoint
  IN ShowMenu(IF menu = NULL THEN place ELSE [place EXCEPT !.MenuPoint = menu])

\* current_menu: the place of this level, or of the one above, as it was last left.
CurrentMenu(d, val) ==
  LET n == IF d.rtr_count >= val THEN d.rtr_count - val ELSE 0
      clamped == IF d.rtr_count >= val THEN d ELSE [d EXCEPT !.rtr_count = 0]
  IN ShowMenu(esc_rtr_arr(clamped, n))

-----------------------------------------------------------------------------
Start ==
  [MenuPoint |-> "MainMenu", UserChoose |-> 0, DisplayStart |-> 0,
   DisplayPoint |-> 0, rtr_count |-> 0, files |-> 0,
   menu_return_arr |-> [n \in Levels |->
     [option |-> 0, displaystart |-> 0, menupoint |-> NULL]]]

Init ==
  /\ nav = ShowMenu(Start)
  /\ editor = NoEditor /\ affirmRecode = 0 /\ updownchoose = 0
  /\ usb_wr_flag = "SET"
  /\ signal = "none" /\ ending = "none" /\ count = {}
  /\ locked = "boot"
  /\ online \in BOOLEAN /\ armed = FALSE /\ plugs = 0
  /\ displaced = FALSE /\ cut = {} /\ wild = "no"

\* The last steps of an action that changes nav: by a key that leaves a menu, by one
\* that enters a menu, and by current_menu.
Goto(d) ==
  IF d.MenuPoint = OutOfTable
  THEN nav' = [Start EXCEPT !.MenuPoint = OutOfTable] /\ wild' = "menu"
  ELSE nav' = d /\ wild' = wild
Leave(d) == Goto(d) /\ displaced' = (displaced /\ wild' # "no")
Enter(d) ==
  /\ Goto(ShowMenu(Scroll(EnterChild(d))))
  /\ displaced' = (displaced /\ (nav'.MenuPoint \in {nav.MenuPoint, OutOfTable}
                                 \/ signal = "normal"))
Displace(d) ==
  /\ Goto(d)
  /\ displaced' = (displaced \/ <<d.UserChoose, d.DisplayStart>>
                                  # <<nav.UserChoose, nav.DisplayStart>>)
  /\ cut' = IF displaced' /\ signal = "normal" THEN cut \cup count ELSE cut

\* A key is heard: the lock is open and no recording or playback is shown. While a
\* status page is shown only enter and esc are, and esc counts as enter.
Heard == wild = "no" /\ locked = "open" /\ signal \notin {"write", "read"}
Browsing == Heard /\ editor = NoEditor
Editing == Heard /\ editor # NoEditor

(***************************************************************************)
(* menu_browse_change: keys in a menu.                                     *)
(***************************************************************************)
Up ==
  /\ Browsing /\ signal = "none"
  /\ LET last == MenuCount(nav.MenuPoint, nav.files) - 1
     IN Goto(ShowMenu(Scroll([nav EXCEPT !.UserChoose = IF @ = 0 THEN last ELSE @ - 1])))
  /\ UNCHANGED <<editor, affirmRecode, updownchoose, usb_wr_flag, signal, ending, count,
                 locked, stick, displaced, cut>>

Down ==
  /\ Browsing /\ signal = "none" /\ (InTable(nav, nav.UserChoose) \/ nav.UserChoose < ChooseMax)
  /\ LET size == MenuCount(nav.MenuPoint, nav.files)
     IN Goto(ShowMenu(Scroll([nav EXCEPT !.UserChoose = IF @ + 1 = size THEN 0 ELSE @ + 1])))
  /\ UNCHANGED <<editor, affirmRecode, updownchoose, usb_wr_flag, signal, ending, count,
                 locked, stick, displaced, cut>>

EscKey ==
  /\ Browsing /\ signal = "none"
  /\ Leave(ShowMenu(Scroll(EscMenu(nav))))
  /\ UNCHANGED <<editor, affirmRecode, updownchoose, usb_wr_flag, signal, ending, count,
                 locked, stick, cut>>

\* enter on the selected entry: what each kind of Subs does before enter_code goes
\* on to the child. (A status page hears esc as enter.)
Selected(kind) ==
  /\ Browsing /\ InTable(nav, nav.UserChoose)
  /\ Subs(nav).kind = kind
  /\ Child(nav) \in Opened \cup {NULL}

EnterMenu ==
  /\ Selected("null")
  /\ Enter(nav)
  /\ UNCHANGED <<editor, affirmRecode, updownchoose, usb_wr_flag, signal, ending, count,
                 locked, stick, cut>>

\* Seeded fault: the second enter does not reset the page's count.
TogglePage_KeepsCount ==
  /\ Selected("page")
  /\ LET page == Subs(nav).of IN
       IF page \notin count
       THEN count' = count \cup {page} /\ signal' = "normal" /\ cut' = cut
       ELSE count' = count /\ signal' = "none" /\ cut' = cut \ {page}
  /\ Enter(nav)
  /\ UNCHANGED <<editor, affirmRecode, updownchoose, usb_wr_flag, ending, locked, stick>>

\* run_time and the other pages: the first enter opens one, the second closes it.
TogglePage ==
  /\ Selected("page")
  /\ LET page == Subs(nav).of IN
       IF page \notin count
       THEN count' = count \cup {page} /\ signal' = "normal" /\ cut' = cut
       ELSE count' = count \ {page} /\ signal' = "none" /\ cut' = cut \ {page}
  /\ Enter(nav)
  /\ UNCHANGED <<editor, affirmRecode, updownchoose, usb_wr_flag, ending, locked, stick>>

\* init_cache and menu_general_enter. The same press is the editor's first: it shows
\* the value that is set.
OpenEditor(sub) ==
  /\ editor' = sub /\ affirmRecode' = 0
  /\ IF sub.kind \in Choices THEN updownchoose' \in 0..(sub.of - 1) ELSE updownchoose' = 0

\* Without an editor what affirmRecode and updownchoose hold is not used.
Close == editor' = NoEditor /\ affirmRecode' = 0 /\ updownchoose' = 0

EnterEditor ==
  /\ \E kind \in {"choice", "yesno", "input"} : Selected(kind)
  /\ OpenEditor(Subs(nav))
  /\ Enter(nav)
  /\ UNCHANGED <<usb_wr_flag, signal, ending, count, locked, stick, cut>>

\* usb_rec_enable, after usb_probe: without a stick paren_menu leaves the menu, and
\* enter_code enters what is selected there.
EnterRecord ==
  /\ Selected("record")
  /\ IF online
     THEN OpenEditor(Subs(nav)) /\ usb_wr_flag' = "START" /\ Enter(nav)
     ELSE UNCHANGED <<editor, affirmRecode, updownchoose, usb_wr_flag>> /\ Enter(ParenMenu(nav))
  /\ UNCHANGED <<signal, ending, count, locked, stick, cut>>

\* usb_ts_inf: lists the stick's recordings. A stick put in while usb_probe waits
\* for one has restored a selection before the child of it is entered.
Files == IF "empty" \in Faults THEN {0, 2} ELSE {2}
EnterList ==
  /\ Selected("list")
  /\ \/ online /\ \E n \in Files : Enter([nav EXCEPT !.files = n]) /\ online' = online
     \/ ~online /\ Enter(ParenMenu(nav)) /\ online' = online
     \/ /\ ~online /\ "hotplug" \in Faults /\ plugs < Plugs /\ online' = TRUE
        /\ \E n \in Files :
             Goto(ShowMenu(Scroll(EnterChild([CurrentMenu(nav, 0) EXCEPT !.files = n]))))
        /\ displaced' = (nav'.MenuPoint = OutOfTable)
  /\ UNCHANGED <<editor, affirmRecode, updownchoose, usb_wr_flag, signal, ending, count,
                 locked, armed, cut>>
  /\ plugs' = IF online' = online THEN plugs ELSE plugs + 1

\* send_usb_read_message. read_usb may find no stick or no such recording and leave
\* the menu as it is.
EnterPlay ==
  /\ Selected("play") /\ ending = "none"
  /\ signal' \in {"read", signal}
  /\ cut' = IF signal' = "read" THEN cut \cup count ELSE cut
  /\ Enter(nav)
  /\ UNCHANGED <<editor, affirmRecode, updownchoose, usb_wr_flag, ending, count, locked, stick>>

\* enter calls whatever lies behind the table.
EnterNowhere ==
  /\ Browsing /\ ~InTable(nav, nav.UserChoose)
  /\ wild' = "menu"
  /\ UNCHANGED <<keys, signal, ending, count, locked, stick, displaced, cut>>

(***************************************************************************)
(* change_cfg_menu: keys in an editor.                                     *)
(***************************************************************************)
\* esc. In the record editor it leaves usb_wr_flag as it is.
EditEsc ==
  /\ Editing /\ signal = "none"
  /\ editor.kind = "record" /\ usb_wr_flag = "START" => "cancel" \in Faults
  /\ Close
  /\ Leave(LeaveEditor(nav))
  /\ UNCHANGED <<usb_wr_flag, signal, ending, count, locked, stick, cut>>

\* up and down change the option after the first enter; before it they do nothing.
Moved ==
  {IF updownchoose + 1 >= editor.of THEN 0 ELSE updownchoose + 1,
   IF updownchoose = 0 THEN 0 ELSE updownchoose - 1}
EditMove ==
  /\ Editing /\ signal = "none" /\ editor.kind \in Choices /\ affirmRecode = 1
  /\ updownchoose' \in Moved
  /\ UNCHANGED <<nav, editor, affirmRecode, usb_wr_flag, signal, ending, count, locked, stick,
                 displaced, cut, wild>>

\* After the second enter up and down read the option unchecked: they save what
\* they find, without the last step of leaving, or run out of the options.
EditMoveLate ==
  /\ Editing /\ signal = "none" /\ editor.kind \in Choices /\ affirmRecode = 2
  /\ \E next \in {updownchoose + 1, updownchoose - 1} :
       IF next \in 0..(editor.of - 1)
       THEN /\ wild' = wild
            /\ IF editor.kind = "record"
               THEN updownchoose' = next /\ UNCHANGED <<editor, affirmRecode, displaced>>
               ELSE Close /\ displaced' = TRUE
       ELSE wild' = "option" /\ UNCHANGED <<editor, affirmRecode, updownchoose, displaced>>
  /\ UNCHANGED <<nav, usb_wr_flag, signal, ending, count, locked, stick, cut>>

\* enter: the first press starts the change, the second saves and leaves. With
\* usb_wr_flag at START an editor of options asks for a recording instead, if the
\* option is Yes, and stays; the record editor always does.
Asks == usb_wr_flag = "START" /\ editor.kind \in Choices

EditEnter ==
  /\ Editing
  /\ affirmRecode = 1 => editor.kind = "record" /\ ~Asks
  /\ affirmRecode' = IF affirmRecode = 2 THEN 0 ELSE affirmRecode + 1
  /\ UNCHANGED <<nav, editor, updownchoose, usb_wr_flag, signal, ending, count, locked, stick,
                 displaced, cut, wild>>

EditSave ==
  /\ Editing /\ affirmRecode = 1 /\ ~Asks /\ editor.kind # "record"
  /\ Close
  /\ Leave(LeaveEditor(nav))
  /\ UNCHANGED <<usb_wr_flag, signal, ending, count, locked, stick, cut>>

EditAsk ==
  /\ Editing /\ affirmRecode = 1 /\ Asks
  /\ affirmRecode' = 2 /\ usb_wr_flag' = "CTL"
  /\ IF editor.kind # "choice" /\ updownchoose = 0
     THEN ending = "none" /\ signal' = "write" /\ cut' = cut \cup count
     ELSE UNCHANGED <<signal, cut>>
  /\ UNCHANGED <<nav, editor, updownchoose, ending, count, locked, stick, displaced, wild>>

(***************************************************************************)
(* The key lock: stream information is shown until it is pressed again.    *)
(***************************************************************************)
LockKey ==
  /\ wild = "no" /\ editor = NoEditor /\ signal = "none"
  /\ locked # "open" \/ "lock" \in Faults
  /\ IF locked # "locked"
     THEN locked' = "locked" /\ UNCHANGED <<nav, displaced, cut, wild>>
     ELSE locked' = "open" /\ Displace(Scroll(CurrentMenu(nav, 0)))
  /\ UNCHANGED <<editor, affirmRecode, updownchoose, usb_wr_flag, signal, ending, count, stick>>

(***************************************************************************)
(* The other threads.                                                      *)
(***************************************************************************)
\* delay_time: keys are not heard while it prompts.
Plug ==
  /\ wild = "no" /\ "hotplug" \in Faults /\ ~online
  /\ plugs < Plugs /\ plugs' = plugs + 1
  /\ online' = TRUE /\ armed' = ("auto" \in Faults)
  /\ Displace(CurrentMenu(nav, 0))
  /\ UNCHANGED <<editor, affirmRecode, updownchoose, usb_wr_flag, signal, ending, count, locked>>

Unplug ==
  /\ wild = "no" /\ "hotplug" \in Faults /\ online
  /\ online' = FALSE /\ armed' = FALSE
  /\ UNCHANGED <<keys, plugs, signal, ending, count, locked, displaced, cut, wild>>

\* The automatic recording of a stick just put in; the lock need not be used first.
AutoRecord ==
  /\ wild = "no" /\ armed /\ ending = "none" /\ signal \notin {"write", "read"}
  /\ armed' = FALSE
  /\ signal' = "write"
  /\ cut' = cut \cup count
  /\ locked' = IF locked = "boot" THEN "open" ELSE locked
  /\ UNCHANGED <<keys, ending, count, online, plugs, displaced, wild>>

\* A recording or playback is over, or esc has stopped it: keys are heard again
\* while it says "stop..." for a second (bound: no session is started then).
SessionCloses ==
  /\ wild = "no" /\ signal \in {"write", "read"}
  /\ ending' = signal /\ signal' = "none"
  /\ usb_wr_flag' = IF signal = "write" THEN "SET" ELSE usb_wr_flag
  /\ UNCHANGED <<nav, editor, affirmRecode, updownchoose, count, locked, stick, displaced,
                 cut, wild>>

\* Then writ_usb shows the current menu, and read_usb the menu above.
SessionReturns ==
  /\ wild = "no" /\ ending # "none"
  /\ ending' = "none"
  /\ Close
  /\ IF ending = "write" THEN Displace(CurrentMenu(nav, 1))
     ELSE /\ Goto(ParenMenu(nav))
          /\ displaced' = (signal = "normal" \/ nav'.MenuPoint = OutOfTable)
          /\ cut' = IF signal = "normal" THEN cut \cup count ELSE cut
  /\ UNCHANGED <<usb_wr_flag, signal, count, locked, stick>>

Next ==
  \/ Up \/ Down \/ EscKey
  \/ EnterMenu \/ TogglePage \/ EnterEditor \/ EnterRecord \/ EnterList \/ EnterPlay
  \/ EnterNowhere
  \/ EditEsc \/ EditMove \/ EditMoveLate \/ EditEnter \/ EditSave \/ EditAsk
  \/ LockKey
  \/ Plug \/ Unplug \/ AutoRecord \/ SessionCloses \/ SessionReturns

Spec == Init /\ [][Next]_vars

-----------------------------------------------------------------------------
Pages == {entry.sub.of : entry \in {e \in UNION {{Tables[m][i] : i \in 1..Len(Tables[m])} :
                                     m \in DOMAIN Tables} : e.sub.kind = "page"}}

Places == [option : 0..9, displaystart : 0..9, menupoint : Menus \cup {NULL, OutOfTable}]
Navs == [MenuPoint : Menus \cup {OutOfTable}, UserChoose : 0..9, DisplayStart : 0..9,
         DisplayPoint : 0..9, rtr_count : Levels, files : {0, 2},
         menu_return_arr : [Levels -> Places]]

\* Every variable has a value of its kind; no menu has more than ten entries.
TypeOK ==
  /\ nav \in Navs
  /\ editor \in {NoEditor} \cup [kind : Choices \cup {"input"}, of : 0..10]
  /\ affirmRecode \in 0..2 /\ updownchoose \in 0..9
  /\ usb_wr_flag \in {"SET", "START", "CTL"}
  /\ signal \in {"none", "normal", "write", "read"} /\ ending \in {"none", "write", "read"}
  /\ count \subseteq Pages /\ cut \subseteq Pages
  /\ locked \in {"boot", "locked", "open"} /\ plugs \in 0..Plugs
  /\ {online, armed, displaced} \subseteq BOOLEAN /\ wild \in {"no", "menu", "option"}

\* The stack is as high as the menu shown lies deep, whichever threads have moved
\* either: enter pushes and every way back pops once (rtr_count), so that the ten
\* places of menu_return_arr are enough.
DepthMatches == wild = "no" => nav.rtr_count = Depth[nav.MenuPoint]

\* Every way back to a menu, by esc, by the end of an editor or of a playback, selects
\* the entry that leads to the menu just left, whatever was restored in between.
EscReturns ==
  [][wild' = "no" /\ nav'.rtr_count < nav.rtr_count
     => InTable(nav', nav'.UserChoose) /\ Child(nav') = nav.MenuPoint]_vars

\* While current_menu has not put the selection of another menu in its place, the
\* selection is an entry of the menu shown, on one of the two lines displayed, and
\* enter runs no function from outside a table.
OwnSelection ==
  ~displaced =>
    /\ wild # "menu"
    /\ InTable(nav, nav.UserChoose)
    /\ nav.UserChoose \in {nav.DisplayStart, nav.DisplayStart + 1}

\* A status page that is shown is the selected one, so that enter closes it; and when
\* none is shown no page still counts as shown, unless a session or a restored
\* selection took its place.
PagesReset ==
  IF signal = "normal"
  THEN displaced \/ (Subs(nav).kind = "page" /\ Subs(nav).of \in count)
  ELSE count \subseteq cut

\* The third press saves (lcd1602.c:2076): an editor of a value is not left open by it.
ThirdPressSaves == editor.kind \in {"choice", "yesno"} => affirmRecode # 2
=============================================================================
