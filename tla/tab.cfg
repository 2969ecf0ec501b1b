SPECIFICATION TabSpec
CONSTANTS
    Socks <- MCSocks
    Tags = {"blue", "red", "green"}
    Databases <- MCDatabases
    Addresses <- MCAddresses
    Sorts = {"", "id"}
    Images = 3
    Menus = {m1, m2, m3}
    Widths <- MCWidths
    MaxTimers = 3
    Fixed = {"box"}
    Related = {"sock", "socks"}
    Always = {}
    Natural <- MCNatural
    MaxAlign = 2
INVARIANTS PagesCover AskedIsChosen EmptyPageExplained OneTimer RowFits AbandonedCloses
PROPERTY EveryPictureShown
