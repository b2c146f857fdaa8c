SPECIFICATION FairSpec
CONSTANTS
    c1 = c1
    c2 = c2
    Responses <- SmallResponses
    Dword = 3
    Separator = Separator
    Rounds = 2
INVARIANTS TypeOK HandleIsClosed OneBlockPerDownload
PROPERTIES ImplementsResultFile ReturnCodeTellsSaved EndsOrWaits
