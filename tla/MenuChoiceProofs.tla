-------------------------- MODULE MenuChoiceProofs --------------------------
(***************************************************************************)
(* Theorems about MenuChoice, for every desktop, every menu and every      *)
(* button: whatever the user and the other programs do between two steps,  *)
(* and whichever calls fail.                                               *)
(***************************************************************************)
EXTENDS MenuChoice, TLAPS

-----------------------------------------------------------------------------
(* The inductive invariant *)

\* Places before the right click, and in the functions that look for a name.
BeforeClick == {"expand", "find", "process", "allocate", "rect", "read", "rightclick"}
Searching == {"msaa", "children", "child", "action", "win32", "string"}

\* The program has ended and reports success.
Reported == pc = "done" /\ result

\* The handle is open from OpenProcess to ReadRect, the buffer allocated from
\* VirtualAlloc on; an error in between leaks both or none, and nothing was clicked.
BufferIsHeld ==
    /\ pc \in {"allocate", "rect", "read"} => hProcess = "open"
    /\ hProcess = "open" => pc \in {"allocate", "rect", "read", "done"}
    /\ remoteRectBuffer = "allocated" <=> hProcess = "open" /\ pc # "allocate"
    /\ hProcess = "open" => ~result /\ rightHit = None
    /\ pc \in BeforeClick => rightHit = None

\* Nothing is reported and no button pressed before the end, and nothing is chosen but
\* by default actions that reported failure.
NothingYet ==
    /\ pc # "done" => result = FALSE /\ pressed = None
    /\ result => pressed = None
    /\ pc \notin {"child", "action", "done"} => leftHit = None

\* Who is where: the menu's object is referenced in the loop over its children only.
PlacesOfMethods ==
    /\ pAcc # "none" => pc \in {"children", "child", "action"}
    /\ pc \in {"msaa", "children", "child", "action"} => method = "msaa"
    /\ pc \in {"win32", "string"} => method = "win32"
    /\ pc = "leftclick" => method \in {"position", "win32"}
    /\ keysDown => method = "keys"

\* The child whose default action is done, or was done with success, is called Open; the
\* item that the mouse was moved to has the name that was looked for.
NameIsFound ==
    /\ pc = "action" => LabelAt(i) = Open
    /\ Reported /\ method = "msaa" => leftHit \in ItemsOf(hContextMenu) /\ Label(leftHit) = Open
    /\ pc = "leftclick" /\ method = "win32" => LabelAt(i) = targetName

\* What the screen is made of, and where the search is.
ScreenType ==
    /\ icons \in Seq(Icon)
    /\ menus \subseteq Programs
    /\ pending = None \/ pending \in Programs
    /\ pc \in Searching \/ (pc = "leftclick" /\ method = "win32") => hContextMenu \in Programs
    /\ i \in Nat
    /\ pc \in {"menu", "win32"} \cup BeforeClick => i = 0
    /\ pc = "action" \/ (pc = "leftclick" /\ method = "win32") => i < CountMenu

IInv ==
    BufferIsHeld /\ NothingYet /\ PlacesOfMethods /\ ScreenType /\ NameIsFound /\ NamesAreRight

\* While nobody else has touched the desktop the icons are those of the start, and the only
\* menu is that of the program that was right-clicked, which is found and searched.
Clicked == IF overflow = "open" THEN icons[index + 1] ELSE Other

ButtonIsThere ==
    pc \in {"read", "rightclick", "menu", "leftclick"} \cup Searching \/ Reported
        => index + 1 \in DOMAIN icons

OnlyMenu ==
    /\ pc \in BeforeClick => menus = {} /\ pending = None
    /\ pc \in {"menu", "leftclick"} \cup Searching \/ Reported
          => rightHit = Clicked /\ pending \in {None, Clicked} /\ menus \subseteq {Clicked}
    /\ pc \in {"leftclick", "win32", "string"} => menus = {Clicked}
    /\ pc \in Searching => hContextMenu = Clicked
    /\ (pc = "leftclick" \/ Reported) /\ method \in {"msaa", "win32"}
          => hContextMenu = Clicked

\* The mouse is where the program put it; no item that was passed over has the name.
AimIsTaken ==
    /\ pc = "rightclick" => cursor = Slot(index)
    /\ method = "position" /\ pc = "leftclick" => cursor = OpenPt(Clicked)
    /\ method = "position" /\ Reported => leftHit = OpenPt(Clicked)
    /\ pc = "string" \/ (method = "win32" /\ (pc = "leftclick" \/ Reported))
          => \A k \in 0..(i - 1) : LabelAt(k) # targetName
    /\ method = "win32" /\ Reported /\ OnTarget
          => leftHit = Item(hContextMenu, i) /\ LabelAt(i) = targetName

Undisturbed == ButtonIsThere /\ OnlyMenu /\ AimIsTaken

UndisturbedInv == ~disturbed => Undisturbed

-----------------------------------------------------------------------------
(* Every step keeps it *)

LEMMA InitIInv == ChoiceInit => IInv
<1> SUFFICES ASSUME ChoiceInit PROVE IInv
  OBVIOUS
<1>1. icons \in Seq(Icon)
  BY ParameterAssumption DEF ChoiceInit, Init, BoundedSeq, SeqOf
<1> QED
  BY <1>1 DEF ChoiceInit, Init, IInv, BufferIsHeld, NothingYet, PlacesOfMethods, ScreenType,
              NameIsFound, NamesAreRight, Reported, Searching

\* Of the menu that an item is in, no other item can be at its place.
LEMMA UnderItem ==
    ASSUME NEW owner \in Programs, NEW k \in Nat, k < CountMenu, CountMenu \in Nat,
           cursor = Item(owner, k),
           NEW hit \in Under(cursor), hit \in ItemsOf(owner)
    PROVE  hit = Item(owner, k)
<1>1. hit # Other
  BY OtherAssumption DEF ItemsOf
<1>2. hit \notin UNION {ItemsOf(p) : p \in menus \ {owner}}
  BY DEF ItemsOf, Item
<1> QED
  BY <1>1, <1>2 DEF Under, Item

\* The steps of TrayAutomation that the program takes.
LEMMA LocalIInv == IInv /\ TrayStep(Local) => IInv'
<1> SUFFICES ASSUME IInv, Local, UNCHANGED choiceVars,
                    pc = "menu" /\ pc' = "leftclick" => method = "position"
             PROVE  IInv'
  BY DEF TrayStep
<1> USE DEF IInv
<1>1. BufferIsHeld' /\ NothingYet' /\ PlacesOfMethods'
  BY DEF BufferIsHeld, NothingYet, PlacesOfMethods, BeforeClick, choiceVars, Local,
         ExpandSystemTray, ExpandFails, OpenProcess, OpenProcessFails,
         VirtualAlloc, VirtualAllocFails, ReadRect, RectFails, RightClick, SendInputFails,
         FindMenu, FindMenuFails, LeftClick, Fail, program
<1>2. CASE RightClick
  <2>1. rightHit' \in Programs
    BY <1>2 DEF RightClick, Programs
  <2>2. ScreenType'
    BY <1>2, <2>1 DEF RightClick, ScreenType, BeforeClick, Searching, choiceVars
  <2>3. NameIsFound' /\ leftHit' = leftHit /\ leftHit = None
    BY <1>2 DEF RightClick, NameIsFound, NothingYet, Reported
  <2> QED
    BY <1>1, <2>2, <2>3 DEF NamesAreRight
<1>3. CASE LeftClick
  <2>1. method \in {"position", "win32"}
    BY <1>3 DEF LeftClick, PlacesOfMethods
  <2>2. ScreenType' /\ NameIsFound'
    BY <1>3, <2>1 DEF LeftClick, ScreenType, NameIsFound, BeforeClick, Searching, Reported,
                      choiceVars
  <2>3. NamesAreRight'
    <3>1. SUFFICES ASSUME method = "win32", OnTarget, leftHit' \in ItemsOf(hContextMenu)
                   PROVE  Label(leftHit') = targetName
      BY <1>3, <2>1 DEF LeftClick, NamesAreRight, OnTarget, ItemsOf, Item, Label, choiceVars
    <3>2. hContextMenu \in Programs /\ i \in Nat /\ LabelAt(i) = targetName
      BY <1>3, <3>1 DEF LeftClick, ScreenType, NameIsFound
    <3>3. leftHit' \in Under(cursor) /\ cursor = Item(hContextMenu, i)
      BY <1>3, <3>1 DEF LeftClick, OnTarget
    <3>4. i < CountMenu /\ CountMenu \in Nat
      BY <1>3, <3>1, ParameterAssumption DEF LeftClick, ScreenType
    <3>5. leftHit' = Item(hContextMenu, i)
      BY <3>1, <3>2, <3>3, <3>4, UnderItem
    <3> QED
      BY <3>2, <3>5 DEF LabelAt
  <2> QED
    BY <1>1, <2>2, <2>3
<1>4. CASE ~RightClick /\ ~LeftClick
  <2>1. ScreenType'
    BY <1>4 DEF ScreenType, BeforeClick, Searching, choiceVars, Local,
         ExpandSystemTray, ExpandFails, OpenProcess, OpenProcessFails,
         VirtualAlloc, VirtualAllocFails, ReadRect, RectFails, SendInputFails,
         FindMenu, FindMenuFails, Fail, program
  <2>2. leftHit' = leftHit /\ leftHit = None /\ NameIsFound'
    BY <1>1, <1>4 DEF NameIsFound, NothingYet, Reported, choiceVars, Local,
         ExpandSystemTray, ExpandFails, OpenProcess, OpenProcessFails,
         VirtualAlloc, VirtualAllocFails, ReadRect, RectFails, SendInputFails,
         FindMenu, FindMenuFails, Fail, program
  <2> QED
    BY <1>1, <2>1, <2>2 DEF NamesAreRight
<1> QED
  BY <1>2, <1>3, <1>4

\* Adding and taking away an icon.
LEMMA IconsStaySequence ==
    ASSUME icons \in Seq(Icon)
    PROVE  /\ \A k \in 1..(Len(icons) + 1), new \in Icon : InsertAt(icons, k, new) \in Seq(Icon)
           /\ \A k \in DOMAIN icons : RemoveAt(icons, k) \in Seq(Icon)
BY DEF InsertAt, RemoveAt

\* The steps of TrayAutomation that wait for Explorer, and those of everybody else.
LEMMA OthersIInv == IInv /\ TrayStep(Asking \/ MenuOpens \/ Disturb \/ Exited) => IInv'
<1> SUFFICES ASSUME IInv, Asking \/ MenuOpens \/ Disturb \/ Exited, UNCHANGED choiceVars
             PROVE  IInv'
  BY DEF TrayStep
<1> USE DEF IInv
<1>1. BufferIsHeld' /\ NothingYet' /\ PlacesOfMethods'
  BY DEF BufferIsHeld, NothingYet, PlacesOfMethods, BeforeClick, choiceVars, Asking,
         FindToolbar, FindToolbarFails, GetItemRect, RectFails, Fail, MenuOpens, Disturb,
         Exited, program, vars
<1>2. ScreenType'
  <2>1. CASE Asking \/ MenuOpens \/ Exited
    BY <2>1 DEF ScreenType, choiceVars, Asking, FindToolbar, FindToolbarFails, GetItemRect,
                RectFails, Fail, MenuOpens, Exited, program, vars, BeforeClick, Searching
  <2>2. CASE Disturb
    <3>1. icons' \in Seq(Icon)
      BY <2>2, IconsStaySequence DEF Disturb, ScreenType
    <3>2. menus' \subseteq Programs
      BY <2>2 DEF Disturb, ScreenType, Programs
    <3> QED
      BY <2>2, <3>1, <3>2 DEF Disturb, ScreenType, choiceVars
  <2> QED
    BY <2>1, <2>2
<1>3. NameIsFound' /\ leftHit' = leftHit
  BY <1>1 DEF NameIsFound, NothingYet, Reported, ItemsOf, choiceVars, LabelAt, Label, Asking,
         FindToolbar, FindToolbarFails, GetItemRect, RectFails, Fail, MenuOpens, Disturb, Exited,
         program, vars
<1>4. leftHit # None => method = "msaa" \/ cursor' = cursor
  BY DEF NothingYet, PlacesOfMethods, Asking, FindToolbar, FindToolbarFails, GetItemRect,
         RectFails, Fail, MenuOpens, Disturb, Exited, vars
<1> QED
  BY <1>1, <1>2, <1>3, <1>4 DEF NamesAreRight, OnTarget, ItemsOf, Label, choiceVars

\* The steps of the functions that look for a name, and of the keys.
LEMMA ChoiceIInv ==
    ASSUME IInv,
           \/ ChoiceAsking
           \/ PassMenu \/ GetHMenu \/ GetHMenuFails \/ NextString \/ FindRect
           \/ FindRectFails \/ ChildrenEnd \/ SelectOption
    PROVE  IInv'
<1> USE DEF IInv
<1>1. BufferIsHeld' /\ NothingYet' /\ PlacesOfMethods'
  BY DEF BufferIsHeld, NothingYet, PlacesOfMethods, BeforeClick,
         ChoiceAsking, GetAccessible, GetAccessibleFails, GetChildCount, GetChildCountFails,
         ChildMatches, NextChild, ActedAndFailed, DoDefaultAction, PassMenu, GetHMenu, GetHMenuFails,
         NextString, FindRect, FindRectFails, ChildrenEnd, SelectOption,
         ReturnUnclicked, ReturnChosen, desktop, program, choiceVars
<1> CountMenu \in Nat \ {0}
  BY ParameterAssumption
<1>2. ScreenType'
  <2>1. CASE DoDefaultAction \/ ActedAndFailed \/ SelectOption
    <3>1. /\ menus' \subseteq menus /\ UNCHANGED <<icons, pending, hContextMenu>>
          /\ \/ pc' = "done" /\ i' = i
             \/ pc \in Searching /\ pc' = "child" /\ i' = i + 1
      BY <2>1 DEF DoDefaultAction, ActedAndFailed, SelectOption, ReturnChosen, Searching
    <3> QED
      BY <3>1 DEF ScreenType, BeforeClick, Searching
  <2>2. CASE ~DoDefaultAction /\ ~ActedAndFailed /\ ~SelectOption
    <3>1. UNCHANGED <<icons, menus, pending>> /\ pc' \notin BeforeClick \cup {"menu"}
      BY <2>2 DEF ChoiceAsking, GetAccessible, GetAccessibleFails, GetChildCount,
         GetChildCountFails, ChildMatches, NextChild, PassMenu, GetHMenu, GetHMenuFails,
         NextString, FindRect, FindRectFails, ChildrenEnd,
         ReturnUnclicked, desktop, program, choiceVars, BeforeClick
    <3>2. /\ i' \in Nat
          /\ pc' = "win32" => i' = 0
          /\ pc' = "action" \/ (pc' = "leftclick" /\ method' = "win32") => i' < CountMenu
      BY <2>2 DEF ScreenType, ChoiceAsking, GetAccessible, GetAccessibleFails, GetChildCount,
         GetChildCountFails, ChildMatches, NextChild, PassMenu, GetHMenu, GetHMenuFails,
         NextString, FindRect, FindRectFails, ChildrenEnd,
         ReturnUnclicked, desktop, program, choiceVars
    <3>3. pc' \in Searching \/ (pc' = "leftclick" /\ method' = "win32")
             => hContextMenu' \in Programs
      BY <2>2 DEF ScreenType, Searching, ChoiceAsking, GetAccessible, GetAccessibleFails,
         GetChildCount, GetChildCountFails, ChildMatches, NextChild, PassMenu, GetHMenu,
         GetHMenuFails, NextString, FindRect, FindRectFails, ChildrenEnd,
         ReturnUnclicked, desktop, program, choiceVars
    <3> QED
      BY <3>1, <3>2, <3>3 DEF ScreenType
  <2> QED
    BY <2>1, <2>2
<1>3. CASE DoDefaultAction \/ ActedAndFailed
  <2>1. /\ pc = "action" /\ leftHit' = Item(hContextMenu, i)
        /\ UNCHANGED <<method, targetName, hContextMenu>>
        /\ pc' \in {"child", "done"}
    BY <1>3 DEF DoDefaultAction, ActedAndFailed, ReturnChosen
  <2>2. method = "msaa" /\ LabelAt(i) = Open /\ i \in 0..(CountMenu - 1)
    BY <2>1 DEF PlacesOfMethods, NameIsFound, ScreenType
  <2>3. leftHit' \in ItemsOf(hContextMenu) /\ Label(leftHit') = Open
    BY <2>1, <2>2 DEF ItemsOf, LabelAt
  <2>4. NamesAreRight' /\ NameIsFound'
    BY <2>1, <2>2, <2>3 DEF NamesAreRight, NameIsFound, ItemsOf, Label
  <2> QED
    BY <1>1, <1>2, <2>4
<1>4. CASE SelectOption
  <2>1. /\ leftHit' \in {None, Other} \cup {NextDown(owner) : owner \in menus}
        /\ method = "keys" /\ method' = method /\ cursor' = cursor /\ pc' = "done"
    BY <1>4 DEF SelectOption, ReturnChosen, NothingYet
  <2>2. cursor = Slot(index) => \A owner : NextDown(owner) = Item(owner, 0)
    BY DEF NextDown, Slot, Item
  <2>3. menus \subseteq Programs
    BY DEF ScreenType
  <2>4. NamesAreRight'
    BY <2>1, <2>2, <2>3 DEF NamesAreRight, Slot, Item
  <2>5. NameIsFound'
    BY <2>1 DEF NameIsFound
  <2> QED
    BY <1>1, <1>2, <2>4, <2>5
<1>5. CASE ~DoDefaultAction /\ ~ActedAndFailed /\ ~SelectOption
  <2>1. /\ leftHit' = leftHit /\ result' = result
        /\ UNCHANGED <<method, targetName>>
        /\ pc \in {"child", "action"} => UNCHANGED hContextMenu
        /\ pc \notin {"child", "action"} => leftHit = None
        /\ pc # "done"
    BY <1>5 DEF ChoiceAsking, GetAccessible, GetAccessibleFails, GetChildCount,
         GetChildCountFails, ChildMatches, NextChild, PassMenu, GetHMenu, GetHMenuFails,
         NextString, FindRect, FindRectFails, ChildrenEnd,
         ReturnUnclicked, desktop, program, choiceVars, NothingYet
  <2>2. NamesAreRight'
    BY <2>1 DEF NamesAreRight, PlacesOfMethods, ItemsOf, Label
  <2>3. NameIsFound'
    <3>1. CASE FindRect
      BY <3>1 DEF FindRect, NameIsFound, Reported, LabelAt, Item, Label
    <3>2. CASE ChildMatches
      BY <3>2 DEF ChildMatches, NameIsFound, Reported, LabelAt, Item, Label, choiceVars
    <3>3. CASE ~FindRect /\ ~ChildMatches
      <4>1. pc' \notin {"action", "leftclick"} /\ result = FALSE
        BY <1>5, <2>1, <3>3 DEF NothingYet, ChoiceAsking, GetAccessible, GetAccessibleFails,
           GetChildCount, GetChildCountFails, NextChild, PassMenu, GetHMenu, GetHMenuFails,
           NextString, FindRectFails, ChildrenEnd, ReturnUnclicked
      <4> QED
        BY <2>1, <4>1 DEF NameIsFound, Reported
    <3> QED
      BY <3>1, <3>2, <3>3
  <2> QED
    BY <1>1, <1>2, <2>2, <2>3
<1> QED
  BY <1>3, <1>4, <1>5

LEMMA NextIInv == IInv /\ [ChoiceNext]_allVars => IInv'
<1>1. IInv /\ UNCHANGED allVars => IInv'
  BY DEF IInv, allVars, vars, program, choiceVars, BufferIsHeld, NothingYet, PlacesOfMethods,
         ScreenType, NameIsFound, LabelAt, NamesAreRight, OnTarget, ItemsOf, Label, BeforeClick,
         Searching, Reported
<1>2. TrayStep(Asking) \/ TrayStep(MenuOpens) \/ TrayStep(Disturb) \/ TrayStep(Exited)
        => TrayStep(Asking \/ MenuOpens \/ Disturb \/ Exited)
  BY DEF TrayStep
<1> QED
  BY <1>1, <1>2, LocalIInv, OthersIInv, ChoiceIInv DEF ChoiceNext, ChoiceLocal

LEMMA IInvHolds == ChoiceSpec => []IInv
BY InitIInv, NextIInv, PTL DEF ChoiceSpec

-----------------------------------------------------------------------------
(* Theorems *)

\* Whatever fails and whoever interferes, the handle and the buffer are leaked together
\* and only by a call that has clicked nothing, the menu's object is released on every
\* way out, and success is never reported with a button pressed.
THEOREM EverythingIsGivenBack == ChoiceSpec => []NothingIsHeld
<1>1. IInv => NothingIsHeld
  BY DEF IInv, BufferIsHeld, NothingYet, PlacesOfMethods, NothingIsHeld,
         LeaksOnlyBeforeClicking
<1> QED
  BY <1>1, IInvHolds, PTL

\* Whoever interferes and whichever calls fail, ClickMenuItemByName acts on items called
\* Open of the menu it was given only, and ClickMenuItemByNameNoMSAA clicks an item of the
\* menu it searched under another name only if the mouse is not over the item it found,
\* for every menu and every name.
THEOREM ChosenNamesAreRight == ChoiceSpec => []NamesAreRight
<1>1. IInv => NamesAreRight
  BY DEF IInv
<1> QED
  BY <1>1, IInvHolds, PTL

-----------------------------------------------------------------------------
(* While nobody else touches the desktop *)

\* The steps of TrayAutomation.
LEMMA TrayUndisturbed ==
    ASSUME IInv, Undisturbed, TrayStep(Local \/ Asking \/ MenuOpens \/ Exited)
    PROVE  Undisturbed'
<1> USE DEF TrayStep
<1>1. pc # "done" => ~result
  BY DEF IInv, NothingYet
<1>2. CASE RightClick
  <2>1. Under(cursor) = {Clicked}
    BY <1>2 DEF RightClick, Undisturbed, ButtonIsThere, OnlyMenu, AimIsTaken, BeforeClick,
                Under, Slot, Clicked
  <2>2. Clicked \in Icon \cup {Other}
    BY <1>2 DEF RightClick, IInv, ScreenType, Undisturbed, ButtonIsThere, Clicked
  <2>3. rightHit' = Clicked /\ Clicked' = Clicked
    BY <1>2, <2>1, <2>2 DEF RightClick, Clicked
  <2> QED
    BY <1>1, <1>2, <2>3 DEF RightClick, Undisturbed, ButtonIsThere, OnlyMenu, AimIsTaken,
                            BeforeClick, Searching, Reported
<1>3. CASE FindMenu
  <2>1. PICK owner \in menus : cursor' = OpenPt(owner)
    BY <1>3 DEF FindMenu
  <2>2. owner = Clicked /\ menus = {Clicked}
    BY <1>3, <2>1 DEF FindMenu, Undisturbed, OnlyMenu
  <2>3. Clicked' = Clicked /\ OpenPt(Clicked)' = OpenPt(Clicked)
    BY <1>3 DEF FindMenu, Clicked, OpenPt, ItemAt, Item
  <2>4. method' = "position"
    BY <1>3 DEF FindMenu, choiceVars
  <2> QED
    BY <1>1, <1>3, <2>1, <2>2, <2>3, <2>4
    DEF FindMenu, Undisturbed, ButtonIsThere, OnlyMenu, AimIsTaken, BeforeClick, Searching,
        Reported, program
<1>4. CASE LeftClick
  <2>1. menus = {Clicked} /\ method \in {"position", "win32"}
    BY <1>4 DEF LeftClick, Undisturbed, OnlyMenu, IInv, PlacesOfMethods
  <2>2. Clicked' = Clicked /\ OpenPt(Clicked)' = OpenPt(Clicked)
    BY <1>4 DEF LeftClick, Clicked, OpenPt, ItemAt, Item
  <2>3. \A k : cursor = Item(Clicked, k) => Under(cursor) = {cursor}
    BY <2>1 DEF Under, Item
  <2>4. method = "position" => leftHit' = OpenPt(Clicked)
    BY <1>4, <2>3 DEF LeftClick, Undisturbed, AimIsTaken, OpenPt
  <2>5. method = "win32" => /\ hContextMenu = Clicked
                            /\ LabelAt(i) = targetName
                            /\ \A k \in 0..(i - 1) : LabelAt(k) # targetName
    BY <1>4 DEF LeftClick, Undisturbed, OnlyMenu, AimIsTaken, IInv, NameIsFound
  <2>6. method = "win32" /\ OnTarget => leftHit' = Item(hContextMenu, i)
    BY <1>4, <2>3, <2>5 DEF LeftClick, OnTarget
  <2>7. ButtonIsThere' /\ OnlyMenu'
    BY <1>4, <2>1, <2>2, <2>5 DEF LeftClick, Undisturbed, ButtonIsThere, OnlyMenu, BeforeClick,
                                  Searching, Reported, choiceVars
  <2>8. AimIsTaken'
    BY <1>4, <2>1, <2>2, <2>4, <2>5, <2>6
    DEF LeftClick, AimIsTaken, Reported, OnTarget, LabelAt, Label, choiceVars
  <2> QED
    BY <2>7, <2>8 DEF Undisturbed
<1>5. CASE MenuOpens \/ Exited
  <2>1. Clicked' = Clicked /\ OpenPt(Clicked)' = OpenPt(Clicked)
    BY <1>5 DEF MenuOpens, Exited, vars, Clicked, OpenPt, ItemAt, Item
  <2>2. ButtonIsThere' /\ AimIsTaken'
    BY <1>5, <2>1 DEF MenuOpens, Exited, vars, program, choiceVars, Undisturbed, ButtonIsThere,
                      AimIsTaken, Searching, Reported, OnTarget, LabelAt, Label
  <2>3. OnlyMenu'
    BY <1>5, <2>1 DEF MenuOpens, Exited, vars, program, choiceVars, Undisturbed, OnlyMenu,
                      BeforeClick, Searching, Reported
  <2> QED
    BY <2>2, <2>3 DEF Undisturbed
<1>6. CASE GetItemRect
  BY <1>1, <1>6 DEF GetItemRect, Undisturbed, ButtonIsThere, OnlyMenu, AimIsTaken, BeforeClick,
                    Searching, Reported, program
<1>7. CASE (Local \/ Asking) /\ ~RightClick /\ ~FindMenu /\ ~LeftClick /\ ~GetItemRect
  BY <1>1, <1>7 DEF Undisturbed, ButtonIsThere, OnlyMenu, AimIsTaken, BeforeClick, Searching,
         Reported, Local, Asking, program,
         ExpandSystemTray, ExpandFails, OpenProcess, OpenProcessFails,
         VirtualAlloc, VirtualAllocFails, ReadRect, RectFails, SendInputFails,
         FindMenuFails, Fail, FindToolbar, FindToolbarFails
<1> QED
  BY <1>2, <1>3, <1>4, <1>5, <1>6, <1>7

\* The steps of the functions that look for a name, and of the keys.
LEMMA ChoiceUndisturbed ==
    ASSUME IInv, Undisturbed,
           \/ ChoiceAsking
           \/ PassMenu \/ GetHMenu \/ GetHMenuFails \/ NextString \/ FindRect
           \/ FindRectFails \/ ChildrenEnd \/ SelectOption
    PROVE  Undisturbed'
<1>1. (pc # "done" => ~result) /\ i \in Nat
  BY DEF IInv, NothingYet, ScreenType
<1>2. /\ Clicked' = Clicked
      /\ UNCHANGED <<overflow, icons, pending, rightHit, method, targetName>>
      /\ pc \in {"menu"} \cup Searching
  BY DEF Clicked, ChoiceAsking, GetAccessible, GetAccessibleFails, GetChildCount,
         GetChildCountFails, ChildMatches, NextChild, ActedAndFailed, DoDefaultAction, PassMenu,
         GetHMenu, GetHMenuFails, NextString, FindRect, FindRectFails, ChildrenEnd, SelectOption,
         ReturnUnclicked, ReturnChosen, desktop, program, choiceVars, Searching
<1>3. ButtonIsThere' /\ pc' \notin {"read", "rightclick", "menu"} \cup BeforeClick
  BY <1>2 DEF Undisturbed, ButtonIsThere, BeforeClick, Searching, ChoiceAsking, GetAccessible,
         GetAccessibleFails, GetChildCount, GetChildCountFails, ChildMatches, NextChild,
         ActedAndFailed, DoDefaultAction, PassMenu, GetHMenu, GetHMenuFails, NextString, FindRect,
         FindRectFails, ChildrenEnd, SelectOption, ReturnUnclicked, ReturnChosen, choiceVars,
         desktop
<1>4. CASE DoDefaultAction \/ ActedAndFailed
  <2>1. /\ menus' \subseteq menus /\ pc = "action" /\ pc' \in {"child", "done"}
        /\ hContextMenu' = hContextMenu /\ method = "msaa"
    BY <1>4 DEF DoDefaultAction, ActedAndFailed, ReturnChosen, IInv, PlacesOfMethods
  <2> QED
    BY <1>2, <1>3, <2>1 DEF Undisturbed, OnlyMenu, AimIsTaken, BeforeClick, Searching, Reported
<1>5. CASE SelectOption
  <2>1. menus' \subseteq menus /\ method = "keys" /\ pc = "menu" /\ pc' = "done"
    BY <1>5 DEF SelectOption, ReturnChosen
  <2> QED
    BY <1>2, <1>3, <2>1 DEF Undisturbed, OnlyMenu, AimIsTaken, BeforeClick, Searching, Reported
<1>6. CASE PassMenu
  <2>1. /\ hContextMenu' \in menus /\ menus' = menus /\ pc = "menu" /\ pc' = method
        /\ result' = result /\ i' = i /\ method \in {"msaa", "win32"}
    BY <1>6 DEF PassMenu, desktop, program
  <2>2. hContextMenu' = Clicked /\ menus = {Clicked}
    BY <2>1 DEF Undisturbed, OnlyMenu
  <2> QED
    BY <1>1, <1>2, <1>3, <2>1, <2>2
    DEF Undisturbed, OnlyMenu, AimIsTaken, BeforeClick, Searching, Reported
<1>7. CASE ~DoDefaultAction /\ ~ActedAndFailed /\ ~SelectOption /\ ~PassMenu
  <2>1. /\ UNCHANGED <<menus, hContextMenu, result>> /\ pc \in Searching /\ ~result
        /\ pc' \in {"win32", "string", "leftclick"} => pc \in {"win32", "string"}
    BY <1>1, <1>7 DEF ChoiceAsking, GetAccessible, GetAccessibleFails, GetChildCount,
         GetChildCountFails, ChildMatches, NextChild, GetHMenu, GetHMenuFails, NextString,
         FindRect, FindRectFails, ChildrenEnd, ReturnUnclicked, desktop, program, choiceVars,
         Searching
  <2>2. OnlyMenu'
    BY <1>2, <1>3, <2>1 DEF Undisturbed, OnlyMenu, Reported
  <2>3. pc' \in {"string", "leftclick"} => \A k \in 0..(i' - 1) : LabelAt(k) # targetName
    <3>1. CASE GetHMenu
      BY <3>1 DEF GetHMenu, choiceVars, IInv, ScreenType
    <3>2. CASE NextString
      <4>1. MenuThere
        BY <2>1, <3>2 DEF NextString, MenuThere, Undisturbed, OnlyMenu
      <4> QED
        BY <1>1, <3>2, <4>1 DEF NextString, Undisturbed, AimIsTaken
    <3>3. CASE FindRect
      BY <3>3 DEF FindRect, Undisturbed, AimIsTaken
    <3>4. CASE ~GetHMenu /\ ~NextString /\ ~FindRect
      BY <1>7, <3>4 DEF ChoiceAsking, GetAccessible, GetAccessibleFails, GetChildCount,
         GetChildCountFails, ChildMatches, NextChild, GetHMenuFails, FindRectFails, ChildrenEnd,
         ReturnUnclicked
    <3> QED
      BY <3>1, <3>2, <3>3, <3>4
  <2>4. pc' = "leftclick" => method = "win32"
    BY <2>1 DEF IInv, PlacesOfMethods
  <2>5. ~Reported'
    BY <2>1 DEF Reported
  <2>6. \A k : LabelAt(k)' = LabelAt(k)
    BY <2>1 DEF LabelAt, Label
  <2> QED
    BY <1>2, <1>3, <2>2, <2>3, <2>4, <2>5, <2>6 DEF Undisturbed, AimIsTaken
<1> QED
  BY <1>4, <1>5, <1>6, <1>7

LEMMA UndisturbedStep == IInv /\ UndisturbedInv /\ [ChoiceNext]_allVars => UndisturbedInv'
<1> SUFFICES ASSUME IInv, UndisturbedInv, [ChoiceNext]_allVars, ~disturbed'
             PROVE  Undisturbed'
  BY DEF UndisturbedInv
<1>1. CASE TrayStep(Local) \/ TrayStep(Asking) \/ TrayStep(MenuOpens) \/ TrayStep(Exited)
  <2>1. TrayStep(Local \/ Asking \/ MenuOpens \/ Exited)
    BY <1>1 DEF TrayStep
  <2>2. disturbed' = disturbed
    BY <1>1 DEF TrayStep, Local, Asking, MenuOpens, Exited, vars, program,
         ExpandSystemTray, ExpandFails, OpenProcess, OpenProcessFails,
         VirtualAlloc, VirtualAllocFails, ReadRect, RectFails, RightClick, SendInputFails,
         FindMenu, FindMenuFails, LeftClick, Fail, FindToolbar, FindToolbarFails, GetItemRect
  <2> QED
    BY <2>1, <2>2, TrayUndisturbed DEF UndisturbedInv
<1>2. CASE \/ ChoiceAsking
           \/ PassMenu \/ GetHMenu \/ GetHMenuFails \/ NextString \/ FindRect
           \/ FindRectFails \/ ChildrenEnd \/ SelectOption
  <2>1. disturbed' = disturbed
    BY <1>2 DEF ChoiceAsking, GetAccessible, GetAccessibleFails, GetChildCount,
         GetChildCountFails, ChildMatches, NextChild, ActedAndFailed, DoDefaultAction, PassMenu,
         GetHMenu, GetHMenuFails, NextString, FindRect, FindRectFails, ChildrenEnd, SelectOption,
         ReturnUnclicked, ReturnChosen, desktop, program
  <2> QED
    BY <1>2, <2>1, ChoiceUndisturbed DEF UndisturbedInv
<1>3. CASE UNCHANGED allVars
  <2>1. TrayStep(Exited) \/ pc # "done"
    BY <1>3 DEF TrayStep, Exited, allVars
  <2> QED
    BY <1>3 DEF UndisturbedInv, Undisturbed, ButtonIsThere, OnlyMenu, AimIsTaken, Clicked, OpenPt,
         ItemAt, Item, OnTarget, LabelAt, Label, BeforeClick, Searching, Reported, allVars, vars,
         program, choiceVars
<1>4. ~TrayStep(Disturb)
  BY DEF TrayStep, Disturb
<1> QED
  BY <1>1, <1>2, <1>3, <1>4 DEF ChoiceNext, ChoiceLocal

LEMMA UndisturbedHolds == ChoiceSpec => []UndisturbedInv
<1>1. ChoiceInit => UndisturbedInv
  BY DEF ChoiceInit, Init, UndisturbedInv, Undisturbed, ButtonIsThere, OnlyMenu, AimIsTaken,
         BeforeClick, Searching, Reported
<1> QED
  BY <1>1, UndisturbedStep, IInvHolds, PTL DEF ChoiceSpec

\* While nobody else touches the desktop, a search that reports success has chosen from the
\* menu of the button with the index: by ClickMenuItemByName an item called Open, by
\* ClickMenuItemByNameNoMSAA the first item with the name it was asked for, if it was given
\* the rectangle of that item; for every number of items, every label and every button.
THEOREM NamedItemIsFound == ChoiceSpec => []NamedItemIsChosen
<1>1. IInv /\ UndisturbedInv => NamedItemIsChosen
  BY DEF UndisturbedInv, Undisturbed, OnlyMenu, AimIsTaken, Clicked, IInv, NameIsFound, Reported,
         NamedItemIsChosen
<1> QED
  BY <1>1, IInvHolds, UndisturbedHolds, PTL

\* The item at x times the height of an item, rounded down, of a menu of C items and
\* H pixels is x or one that is further up, and x itself if there is nothing to round.
LEMMA RoundedDown ==
    ASSUME NEW H \in Nat \ {0}, NEW C \in Nat \ {0}, NEW x \in 0..(C - 1)
    PROVE  LET v == (x * (H \div C) * C) \div H
           IN  v \in 0..x /\ (v = x <=> H % C = 0 \/ x = 0)
<1> DEFINE q == H \div C
           r == H % C
           v == (x * q * C) \div H
<1>1. q \in Nat /\ r \in Nat /\ r < C /\ H = q * C + r
  OBVIOUS
<1> HIDE DEF q, r
<1>2. x * H = x * q * C + x * r
  BY <1>1
<1>3. x * q * C \in Nat /\ x * r \in Nat /\ x * H \in Nat
  BY <1>1
<1>4. v \in Nat /\ v * H <= x * q * C /\ x * q * C < (v + 1) * H
  BY <1>3
<1> HIDE DEF v
<1>5. v <= x
  <2> SUFFICES ASSUME v >= x + 1 PROVE FALSE
    BY <1>4
  <2>1. v * H >= (x + 1) * H
    BY <1>4
  <2> QED
    BY <2>1, <1>2, <1>3, <1>4
<1>6. x * r = 0 => v = x
  <2> SUFFICES ASSUME x * r = 0, v + 1 <= x PROVE FALSE
    BY <1>4, <1>5
  <2>1. (v + 1) * H <= x * H
    BY <1>4
  <2> QED
    BY <2>1, <1>2, <1>3, <1>4
<1>7. v = x => x * r = 0
  BY <1>2, <1>3, <1>4
<1>8. x * r = 0 <=> r = 0 \/ x = 0
  BY <1>1
<1> QED
  BY <1>4, <1>5, <1>6, <1>7, <1>8 DEF v, q, r

\* When nobody else touches the desktop, main selects the item it is asked for exactly
\* if the menu's height is a multiple of the number of items, for every number of
\* buttons and items, every height and every item.
THEOREM PositionIsSelected == ChoiceSpec => []PositionSelects
<1>1. IInv /\ UndisturbedInv => PositionSelects
  <2> SUFFICES ASSUME IInv, Undisturbed, method = "position", Reported, overflow = "open"
               PROVE  /\ rightHit = icons[index + 1]
                      /\ leftHit \in {Item(rightHit, k) : k \in 0..IndexMenu}
                      /\ leftHit = Item(rightHit, IndexMenu)
                            <=> MenuHeight[rightHit] % CountMenu = 0 \/ IndexMenu = 0
    BY DEF UndisturbedInv, PositionSelects, UndisturbedSelects, Reported
  <2>1. /\ index + 1 \in DOMAIN icons
        /\ rightHit = icons[index + 1]
        /\ leftHit = OpenPt(rightHit)
    BY DEF Undisturbed, ButtonIsThere, OnlyMenu, AimIsTaken, Clicked
  <2>2. rightHit \in Icon
    BY <2>1 DEF IInv, ScreenType
  <2> DEFINE v == (IndexMenu * (MenuHeight[rightHit] \div CountMenu) * CountMenu)
                     \div MenuHeight[rightHit]
  <2>3. /\ v \in 0..IndexMenu
        /\ v = IndexMenu <=> MenuHeight[rightHit] % CountMenu = 0 \/ IndexMenu = 0
    BY <2>2, ParameterAssumption, RoundedDown
  <2>4. leftHit = Item(rightHit, v)
    BY <2>1 DEF OpenPt, ItemAt
  <2> HIDE DEF v
  <2> QED
    BY <2>1, <2>3, <2>4 DEF Item
<1> QED
  BY <1>1, IInvHolds, UndisturbedHolds, PTL

=============================================================================
