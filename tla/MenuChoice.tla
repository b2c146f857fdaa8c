----------------------------- MODULE MenuChoice -----------------------------
(***************************************************************************)
(* The four ways WindowsAutomation/WindowsAutomation.cpp has to choose an  *)
(* item of the context menu that TrayAutomation brings up.                 *)
(*                                                                         *)
(*   "position"  a left click at a computed height: what main does         *)
(*   "msaa"      ClickMenuItemByName, through the menu's IAccessible       *)
(*   "win32"     ClickMenuItemByNameNoMSAA, through the menu's HMENU       *)
(*   "keys"      SelectAcknowledgements, SelectExitOption and              *)
(*               SelectInformationOption, which send the same keys         *)
(*                                                                         *)
(* Nothing calls the last three; the commented-out calls (lines 374-386    *)
(* and 583-584) show where they belong: behind the right click.  COM calls *)
(* go to the menu's program, which may answer late or never.               *)
(***************************************************************************)
EXTENDS TrayAutomation

CONSTANTS MenuItems,    \* the labels in the menu of each program, from the top
          Open,         \* the label that is built into ClickMenuItemByName
          Separator     \* in the place of a label: an item without one

ASSUME MenuAssumption == \A p \in Programs : Len(MenuItems[p]) = CountMenu

\* What is not an item of a menu can be told from one.
ASSUME OtherAssumption ==
    \A p \in Programs, k \in 0..(CountMenu - 1) : Other # Item(p, k)

VARIABLES method,       \* the way that is taken
          targetName,   \* the name that ClickMenuItemByNameNoMSAA looks for, or None
          hContextMenu, \* the menu found, by its owner
          i,            \* their loop variable, counted from 0 for both
          pAcc,         \* the reference to IAccessible: "none" or "held"
          keysDown      \* whether keys were pressed and never released

choiceVars == <<method, targetName, hContextMenu, i, pAcc, keysDown>>
allVars == <<vars, choiceVars>>

Label(place) == MenuItems[place[2]][place[3] + 1]

\* The menu found is on the screen still.
MenuThere == hContextMenu \in menus

LabelAt(k) == Label(Item(hContextMenu, k))

desktop == <<overflow, icons, menus, pending, cursor, pressed, program>>

-----------------------------------------------------------------------------

ChoiceInit ==
    /\ Init
    /\ method \in {"position", "msaa", "win32", "keys"}
    /\ IF method = "win32"
       THEN \E p \in Icon : targetName \in Range(MenuItems[p]) \ {Separator}
       ELSE targetName = None
    /\ hContextMenu = None
    /\ i = 0
    /\ pAcc = "none"
    /\ keysDown = FALSE

\* A step of TrayAutomation.  Only the first way clicks at a computed height, and the
\* keys are sent without looking for a menu.
TrayStep(A) ==
    /\ A
    /\ pc = "menu" /\ pc' = "leftclick" => method = "position"
    /\ pc = "menu" /\ pc' = "done" => method # "keys"
    /\ UNCHANGED choiceVars

\* The menu's window goes to one of the functions that look for a name.
PassMenu ==
    /\ pc = "menu"
    /\ method \in {"msaa", "win32"}
    /\ hContextMenu' \in menus
    /\ pc' = method
    /\ UNCHANGED <<desktop, method, targetName, i, pAcc, keysDown>>

\* The function returns false.
ReturnUnclicked ==
    /\ pc' = "done"
    /\ UNCHANGED <<desktop, method, targetName, hContextMenu, i, keysDown>>

\* The function reports success, having hit a place and left some menus open.
ReturnChosen(place, open) ==
    /\ leftHit' = place
    /\ menus' = open
    /\ result' = TRUE
    /\ pc' = "done"
    /\ UNCHANGED <<overflow, icons, pending, cursor, pressed, hProcess, remoteRectBuffer,
                   rightHit, disturbed, method, targetName, hContextMenu, i>>

-----------------------------------------------------------------------------
(* ClickMenuItemByName *)

GetAccessible ==
    /\ pc = "msaa"
    /\ MenuThere
    /\ pAcc' = "held"
    /\ pc' = "children"
    /\ UNCHANGED <<desktop, method, targetName, hContextMenu, i, keysDown>>

GetAccessibleFails == pc = "msaa" /\ ReturnUnclicked /\ UNCHANGED pAcc

GetChildCount ==
    /\ pc = "children"
    /\ MenuThere
    /\ pc' = "child"
    /\ UNCHANGED <<desktop, choiceVars>>

\* Mutant of GetChildCountFails: returns without releasing the object.
GetChildCountFailsHeld == pc = "children" /\ ReturnUnclicked /\ UNCHANGED pAcc

GetChildCountFails == pc = "children" /\ ReturnUnclicked /\ pAcc' = "none"

\* get_accName: the child has the built-in label.  The function has an argument
\* targetName too, but does not look at it.
ChildMatches ==
    /\ pc = "child"
    /\ i < CountMenu
    /\ MenuThere
    /\ LabelAt(i) = Open
    /\ pc' = "action"
    /\ UNCHANGED <<desktop, choiceVars>>

\* On to the next child: get_accName gave another name or failed, or the default
\* action of a child with the right name failed.
NextChild ==
    /\ pc \in {"child", "action"}
    /\ i < CountMenu
    /\ i' = i + 1
    /\ pc' = "child"
    /\ UNCHANGED <<desktop, method, targetName, hContextMenu, pAcc, keysDown>>

\* The default action fails, but the menu's program had acted already, and may have closed
\* the menu.  The loop goes on all the same.
ActedAndFailed ==
    /\ pc = "action"
    /\ MenuThere
    /\ leftHit' = Item(hContextMenu, i)
    /\ menus' \in {menus, menus \ {hContextMenu}}
    /\ i' = i + 1
    /\ pc' = "child"
    /\ UNCHANGED <<overflow, icons, pending, cursor, pressed, hProcess, remoteRectBuffer, result,
                   rightHit, disturbed, method, targetName, hContextMenu, pAcc, keysDown>>

\* Mutant of DoDefaultAction: children are numbered from 0 in one call, from 1 in
\* the other.
DoDefaultActionOffByOne ==
    /\ pc = "action"
    /\ MenuThere
    /\ ReturnChosen(Item(hContextMenu, (i + 1) % CountMenu), menus \ {hContextMenu})
    /\ pAcc' = "none"
    /\ UNCHANGED keysDown

\* accDoDefaultAction succeeds: the item is chosen, wherever the mouse is.
DoDefaultAction ==
    /\ pc = "action"
    /\ MenuThere
    /\ ReturnChosen(Item(hContextMenu, i), menus \ {hContextMenu})
    /\ pAcc' = "none"
    /\ UNCHANGED keysDown

ChildrenEnd == pc = "child" /\ i = CountMenu /\ ReturnUnclicked /\ pAcc' = "none"

-----------------------------------------------------------------------------
(* ClickMenuItemByNameNoMSAA *)

\* Mutant of GetHMenu: the items are counted from 1, as the children are.
GetHMenuFromOne ==
    /\ pc = "win32"
    /\ MenuThere
    /\ i' = 1
    /\ pc' = "string"
    /\ UNCHANGED <<desktop, method, targetName, hContextMenu, pAcc, keysDown>>

\* GetProp and GetMenuItemCount.
GetHMenu ==
    /\ pc = "win32"
    /\ MenuThere
    /\ pc' = "string"
    /\ UNCHANGED <<desktop, choiceVars>>

\* There is no such property, or no menu behind it.
GetHMenuFails == pc = "win32" /\ ReturnUnclicked /\ UNCHANGED pAcc

\* Mutant of NextString: a name that cannot be read is tried again.
NextStringStays ==
    /\ pc = "string"
    /\ i < CountMenu
    /\ MenuThere => LabelAt(i) # targetName
    /\ i' = IF MenuThere THEN i + 1 ELSE i
    /\ UNCHANGED <<pc, desktop, method, targetName, hContextMenu, pAcc, keysDown>>

\* GetMenuString gives another name, none, or fails.
NextString ==
    /\ pc = "string"
    /\ i < CountMenu
    /\ MenuThere => LabelAt(i) # targetName
    /\ i' = i + 1
    /\ UNCHANGED <<pc, desktop, method, targetName, hContextMenu, pAcc, keysDown>>

\* GetMenuItemRect.  It is asked for the item as the foreground window sees it, whichever
\* that is, so that the rectangle may be that of the item or any other.  The mouse goes
\* there; then comes the left click of TrayAutomation.
FindRect ==
    /\ pc = "string"
    /\ i < CountMenu
    /\ MenuThere
    /\ LabelAt(i) = targetName
    /\ cursor' \in Place
    /\ pc' = "leftclick"
    /\ UNCHANGED <<overflow, icons, menus, pending, pressed, program,
                   method, targetName, hContextMenu, i, pAcc, keysDown>>

\* GetMenuItemRect fails for the name that was found, or no name was.
FindRectFails ==
    /\ pc = "string"
    /\ i < CountMenu => MenuThere /\ LabelAt(i) = targetName
    /\ ReturnUnclicked
    /\ UNCHANGED pAcc

-----------------------------------------------------------------------------
(* SelectAcknowledgements, SelectExitOption, SelectInformationOption *)

\* The item that the down arrow gets to: the one below the mouse, or the first.
NextDown(owner) ==
    IF \E k \in 0..(CountMenu - 1) : cursor = Item(owner, k)
    THEN Item(owner, (cursor[3] + 1) % CountMenu)
    ELSE Item(owner, 0)

\* SendInput presses the down arrow and return, inserting none, one or both of the
\* events; nothing releases the keys.  A menu on the screen has an item chosen.  The
\* functions report success whatever happened.
SelectOption ==
    /\ pc = "menu"
    /\ method = "keys"
    /\ \/ ReturnChosen(leftHit, menus) /\ keysDown' \in BOOLEAN
       \/ menus = {} /\ ReturnChosen(Other, {}) /\ keysDown' = TRUE
       \/ \E owner \in menus :
             ReturnChosen(NextDown(owner), menus \ {owner}) /\ keysDown' = TRUE
    /\ UNCHANGED pAcc

-----------------------------------------------------------------------------

\* Steps that wait for nobody.
ChoiceLocal ==
    \/ TrayStep(Local)
    \/ PassMenu
    \/ GetHMenu \/ GetHMenuFails \/ NextString \/ FindRect \/ FindRectFails
    \/ ChildrenEnd
    \/ SelectOption

\* Steps that wait for the program whose menu it is.
ChoiceAsking ==
    \/ GetAccessible \/ GetAccessibleFails \/ GetChildCount \/ GetChildCountFails
    \/ ChildMatches \/ NextChild \/ ActedAndFailed \/ DoDefaultAction

ChoiceNext ==
    \/ ChoiceLocal
    \/ ChoiceAsking
    \/ TrayStep(Asking) \/ TrayStep(MenuOpens) \/ TrayStep(Disturb) \/ TrayStep(Exited)

ChoiceSpec == ChoiceInit /\ [][ChoiceNext]_allVars

\* The program is scheduled; nobody else promises anything.
FairChoiceSpec == ChoiceSpec /\ WF_allVars(ChoiceLocal)

-----------------------------------------------------------------------------
(* Properties *)

\* UndisturbedSelects, for the way that main takes.
PositionSelects == method = "position" => UndisturbedSelects

\* The mouse is over the item that was found.
OnTarget == cursor = Item(hContextMenu, i)

\* What others do to the desktop in between, and whichever calls fail, makes no function
\* choose by a wrong name: ClickMenuItemByName acts on items that are called Open only, of
\* the menu it was given, whatever name its caller asked for, and also if it reports that
\* it found none.  The other one can click an item with another name only in a menu that
\* came up over the one it searched, or where a wrong rectangle or the user's hand took
\* the mouse.  The keys can reach the first item of a menu only, though three functions
\* are named for three items, unless the user has the mouse over the menu.
NamesAreRight ==
    leftHit # None =>
        /\ method = "msaa" => leftHit \in ItemsOf(hContextMenu) /\ Label(leftHit) = Open
        /\ method = "win32" /\ OnTarget /\ leftHit \in ItemsOf(hContextMenu)
              => Label(leftHit) = targetName
        /\ method = "keys" /\ cursor = Slot(index)
              => leftHit \in {Other} \cup {Item(owner, 0) : owner \in Programs}

\* When nobody else touches the desktop and the tray was not open before, a search that
\* reports success has chosen from the menu of the button with the index:
\* ClickMenuItemByNameNoMSAA the first item that has the name, if it got the rectangle
\* right; ClickMenuItemByName one that is called Open, which need not be the first.
NamedItemIsChosen ==
    pc = "done" /\ result /\ ~disturbed /\ overflow = "open" =>
        /\ method \in {"msaa", "win32"} => hContextMenu = icons[index + 1]
        /\ method = "msaa" => leftHit \in ItemsOf(hContextMenu) /\ Label(leftHit) = Open
        /\ method = "win32" /\ OnTarget =>
              /\ leftHit = Item(hContextMenu, i)
              /\ LabelAt(i) = targetName
              /\ \A k \in 0..(i - 1) : LabelAt(k) # targetName

\* On every way out the menu's object is released and no mouse button stays pressed
\* if success is reported; handle and buffer are leaked as LeaksOnlyBeforeClicking
\* says.  Keys stay pressed only on the way that has no event to release them.
NothingIsHeld ==
    /\ LeaksOnlyBeforeClicking
    /\ pc = "done" => pAcc = "none"
    /\ keysDown => method = "keys"

\* The program ends, also when the menu goes away while its items are gone through, or
\* waits for ever for an answer of Explorer or of the menu's program.
EndsOrAsks ==
    <>(pc = "done") \/ <>[](pc \in {"find", "rect", "msaa", "children", "child", "action"})

=============================================================================
