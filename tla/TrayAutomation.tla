--------------------------- MODULE TrayAutomation ---------------------------
(***************************************************************************)
(* WindowsAutomation/WindowsAutomation.cpp: main expands the system tray,  *)
(* right-clicks the button with a given index in it, and left-clicks an    *)
(* item of the context menu that comes up.                                 *)
(*                                                                         *)
(* The desktop is shared.  Between any two steps of the program (it sleeps *)
(* between most of them) icons come and go, the user moves the mouse or    *)
(* closes the tray, and other programs open menus; Explorer opens a menu   *)
(* some time after the click, and answers a message some time or never.    *)
(*                                                                         *)
(* A point of the screen is the place that somebody took it for: a slot of *)
(* the tray or an item of somebody's menu.  Under says what may be there   *)
(* when the click arrives.                                                 *)
(*                                                                         *)
(* MenuChoice adds the other ways to choose from the menu, and has the     *)
(* specification.                                                          *)
(***************************************************************************)
EXTENDS Integers, Sequences, SequencesExt

CONSTANTS Icon,        \* programs with a button in the tray
          Other,       \* whatever else is on the screen
          None,
          MaxIcons,    \* bound: buttons in the tray
          index,       \* the arguments of RightClickIconInTrayAndSelectOpen:
          CountMenu,   \*   the button, from 0; the items a menu is thought to have;
          IndexMenu,   \*   the item to choose, from 0
          MenuHeight   \* the height in pixels of the context menu of each program

ASSUME ParameterAssumption ==
    /\ index \in Nat /\ MaxIcons \in Nat
    /\ CountMenu \in Nat \ {0} /\ IndexMenu \in 0..(CountMenu - 1)
    /\ MenuHeight \in [Icon \cup {Other} -> Nat \ {0}]

VARIABLES pc,
          overflow,    \* whether NotifyIconOverflowWindow is "open" or "closed"
          icons,       \* the buttons of its toolbar
          menus,       \* the programs that have a popup menu on the screen
          pending,     \* the program that was right-clicked and has no menu yet
          cursor,      \* the place the mouse is at
          pressed,     \* the mouse button that SendInput left pressed, or None
          hProcess, remoteRectBuffer,   \* "none", "open" and "none", "allocated"
          result,      \* what RightClickIconInTrayAndSelectOpen returned
          rightHit, leftHit,            \* history: the button and the item that were hit
          disturbed    \* history: whether anybody else has touched the desktop

program == <<hProcess, remoteRectBuffer, result, rightHit, leftHit, disturbed>>
vars == <<pc, overflow, icons, menus, pending, cursor, pressed, program>>

-----------------------------------------------------------------------------
(* The screen *)

Away == <<"away">>
Slot(k) == <<"slot", k>>
Item(owner, i) == <<"item", owner, i>>

\* Those that may have a menu on the screen.
Programs == Icon \cup {Other}

ItemsOf(owner) == {Item(owner, k) : k \in 0..(CountMenu - 1)}

Place == {Away} \cup {Slot(k) : k \in 0..(MaxIcons - 1)} \cup UNION {ItemsOf(p) : p \in Programs}

\* The item of a menu of CountMenu equal items that is at y pixels below its top.
ItemAt(owner, y) == (y * CountMenu) \div MenuHeight[owner]

\* Mutant of OpenPt: the item is counted from 1.
OpenPtFromOne(owner) ==
    Item(owner, ItemAt(owner, (IndexMenu + 1) * (MenuHeight[owner] \div CountMenu)))

\* openPt: IndexMenu times the height of an item, rounded down.
OpenPt(owner) == Item(owner, ItemAt(owner, IndexMenu * (MenuHeight[owner] \div CountMenu)))

\* What may be at a place now: what it was taken for, if that is there still, or an item
\* of a menu that lies over it.  (The items of one menu do not lie over each other.)
Under(place) ==
    LET taken == CASE place[1] = "slot" -> IF overflow = "open" /\ place[2] + 1 \in DOMAIN icons
                                           THEN icons[place[2] + 1] ELSE Other
                   [] place[1] = "item" -> IF place[2] \in menus THEN place ELSE Other
                   [] OTHER -> Other
        above == IF place[1] = "item" THEN menus \ {place[2]} ELSE menus
    IN  {taken} \cup UNION {ItemsOf(owner) : owner \in above}

-----------------------------------------------------------------------------
(* The program *)

Init ==
    /\ pc = "expand"
    /\ overflow \in {"open", "closed"}
    /\ icons \in BoundedSeq(Icon, MaxIcons)
    /\ menus = {} /\ pending = None
    /\ cursor = Away /\ pressed = None
    /\ hProcess = "none" /\ remoteRectBuffer = "none"
    /\ result = FALSE
    /\ rightHit = None /\ leftHit = None
    /\ disturbed = FALSE

\* A step that fails: the function, or ExpandSystemTray, returns false.
Fail ==
    /\ pc' = "done"
    /\ UNCHANGED <<overflow, icons, menus, pending, cursor, program>>

\* ExpandSystemTray: a click on the chevron, which closes the tray if it is open.
ExpandSystemTray ==
    /\ pc = "expand"
    /\ pc' = "find"
    /\ overflow' = IF overflow = "open" THEN "closed" ELSE "open"
    /\ UNCHANGED <<icons, menus, pending, cursor, pressed, program>>

ExpandFails == pc = "expand" /\ Fail /\ UNCHANGED pressed

\* The window and its toolbar are found, open or not, if it has buttons.
FindToolbar ==
    /\ pc = "find"
    /\ icons # <<>>
    /\ pc' = "process"
    /\ UNCHANGED <<overflow, icons, menus, pending, cursor, pressed, program>>

FindToolbarFails == pc = "find" /\ Fail /\ UNCHANGED pressed

OpenProcess ==
    /\ pc = "process"
    /\ hProcess' = "open"
    /\ pc' = "allocate"
    /\ UNCHANGED <<overflow, icons, menus, pending, cursor, pressed,
                   remoteRectBuffer, result, rightHit, leftHit, disturbed>>

OpenProcessFails == pc = "process" /\ Fail /\ UNCHANGED pressed

VirtualAlloc ==
    /\ pc = "allocate"
    /\ remoteRectBuffer' = "allocated"
    /\ pc' = "rect"
    /\ UNCHANGED <<overflow, icons, menus, pending, cursor, pressed,
                   hProcess, result, rightHit, leftHit, disturbed>>

\* Mutant of VirtualAllocFails: the handle is not closed.
VirtualAllocFailsOpen == pc = "allocate" /\ Fail /\ UNCHANGED pressed

\* The only error after OpenProcess that closes the handle.
VirtualAllocFails ==
    /\ pc = "allocate"
    /\ hProcess' = "none"
    /\ pc' = "done"
    /\ UNCHANGED <<overflow, icons, menus, pending, cursor, pressed,
                   remoteRectBuffer, result, rightHit, leftHit, disturbed>>

\* TB_GETITEMRECT: Explorer writes the rectangle of the button, if there is one.
GetItemRect ==
    /\ pc = "rect"
    /\ index + 1 \in DOMAIN icons
    /\ pc' = "read"
    /\ UNCHANGED <<overflow, icons, menus, pending, cursor, pressed, program>>

\* TB_GETITEMRECT, ReadProcessMemory or ClientToScreen fails, and the function
\* returns with the handle open and the buffer allocated.
RectFails == pc \in {"rect", "read"} /\ Fail /\ UNCHANGED pressed

\* The rectangle is read, buffer and handle are given back, the mouse is moved.
ReadRect ==
    /\ pc = "read"
    /\ remoteRectBuffer' = "none"
    /\ hProcess' = "none"
    /\ cursor' = Slot(index)
    /\ pc' = "rightclick"
    /\ UNCHANGED <<overflow, icons, menus, pending, pressed,
                   result, rightHit, leftHit, disturbed>>

\* The click arrives a second later, wherever the mouse is then.
RightClick ==
    /\ pc = "rightclick"
    /\ \E hit \in Under(cursor) : rightHit' = IF hit \in Icon THEN hit ELSE Other
    /\ pending' = rightHit'
    /\ pc' = "menu"
    /\ UNCHANGED <<overflow, icons, menus, cursor, pressed,
                   hProcess, remoteRectBuffer, result, leftHit, disturbed>>

\* SendInput inserts fewer than two events: none, or the button-down alone.
SendInputFails(step, button) ==
    /\ pc = step
    /\ pressed' \in {None, button}
    /\ Fail

\* Half a second later the first window of the menu class is taken.
FindMenu ==
    /\ pc = "menu"
    /\ \E owner \in menus : cursor' = OpenPt(owner)
    /\ pc' = "leftclick"
    /\ UNCHANGED <<overflow, icons, menus, pending, pressed, program>>

FindMenuFails == pc = "menu" /\ Fail /\ UNCHANGED pressed

\* The choice closes the menu; the function returns true whatever was hit.
LeftClick ==
    /\ pc = "leftclick"
    /\ leftHit' \in Under(cursor)
    /\ menus' = {}
    /\ result' = TRUE
    /\ pc' = "done"
    /\ UNCHANGED <<overflow, icons, pending, cursor, pressed,
                   hProcess, remoteRectBuffer, rightHit, disturbed>>

\* main is left; its exit code is 0 unless the tray could not be expanded.
Exited == pc = "done" /\ UNCHANGED vars

-----------------------------------------------------------------------------
(* Everybody else *)

\* A program shows the menu it was asked for.
MenuOpens ==
    /\ pending # None
    /\ menus' = menus \cup {pending}
    /\ pending' = None
    /\ UNCHANGED <<pc, overflow, icons, cursor, pressed, program>>

\* A program comes or goes, the user moves the mouse anywhere, opens or closes the tray,
\* or a menu comes up or goes.
Disturb ==
    /\ pc # "done"
    /\ disturbed' = TRUE
    /\ \/ /\ Len(icons) < MaxIcons
          /\ \E k \in 1..(Len(icons) + 1), new \in Icon : icons' = InsertAt(icons, k, new)
          /\ UNCHANGED <<overflow, menus, cursor>>
       \/ /\ \E k \in DOMAIN icons : icons' = RemoveAt(icons, k)
          /\ UNCHANGED <<overflow, menus, cursor>>
       \/ cursor' \in Place /\ UNCHANGED <<overflow, icons, menus>>
       \/ overflow' \in {"open", "closed"} /\ UNCHANGED <<icons, menus, cursor>>
       \/ /\ \E p \in Programs : menus' \in {menus \cup {p}, menus \ {p}}
          /\ UNCHANGED <<overflow, icons, cursor>>
    /\ UNCHANGED <<pc, pending, pressed, hProcess, remoteRectBuffer,
                   result, rightHit, leftHit>>

-----------------------------------------------------------------------------

\* Steps that wait for Explorer to answer a message.
Asking == FindToolbar \/ FindToolbarFails \/ GetItemRect \/ (pc = "rect" /\ RectFails)

\* Steps that wait for nobody.
Local ==
    \/ ExpandSystemTray \/ ExpandFails
    \/ OpenProcess \/ OpenProcessFails \/ VirtualAlloc \/ VirtualAllocFails
    \/ ReadRect \/ (pc = "read" /\ RectFails)
    \/ RightClick \/ SendInputFails("rightclick", "right")
    \/ FindMenu \/ FindMenuFails
    \/ LeftClick \/ SendInputFails("leftclick", "left")

Next == Local \/ Asking \/ MenuOpens \/ Disturb \/ Exited

-----------------------------------------------------------------------------
(* Properties *)

\* The message at the end of RightClickIconInTrayAndSelectOpen (`successfully
\* performed right-click and selected') is true when nobody else touched the desktop
\* and the tray was not open before: the button clicked is the one with the index,
\* and the item is the one asked for exactly if the height of the menu is a multiple
\* of CountMenu, or the item is the first one; otherwise it is one further up in the
\* menu, because the height of an item is rounded down.
UndisturbedSelects ==
    pc = "done" /\ result /\ ~disturbed /\ overflow = "open" =>
        /\ rightHit = icons[index + 1]
        /\ leftHit \in {Item(rightHit, i) : i \in 0..IndexMenu}
        /\ leftHit = Item(rightHit, IndexMenu)
              <=> MenuHeight[rightHit] % CountMenu = 0 \/ IndexMenu = 0

\* What the function takes it gives back, or it fails before it has clicked: handle
\* and remote buffer are leaked together, only by the errors between allocation and
\* click; and a return of true leaves no mouse button pressed.
LeaksOnlyBeforeClicking ==
    pc = "done" => /\ hProcess = "open" <=> remoteRectBuffer = "allocated"
                   /\ hProcess = "open" => ~result /\ rightHit = None
                   /\ result => pressed = None

=============================================================================
