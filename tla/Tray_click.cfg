SPECIFICATION FairChoiceSpec
CONSTANTS
    p1 = p1
    p2 = p2
    Icon = {p1, p2}
    Other = Other
    None = None
    MaxIcons = 2
    index = 1
    CountMenu = 3
    IndexMenu = 2
    MenuHeight <- Heights
    MenuItems <- Menus
    Open = "open"
    Separator = "-"
INVARIANTS PositionSelects NamedItemIsChosen NamesAreRight NothingIsHeld
PROPERTY EndsOrAsks
