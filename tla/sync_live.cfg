\* The sync page of a payout stays open: its poll, a button of it, a fault.
CONSTANTS
    Rows = {3}
    TableOf <- MCTableOf
    Ready = {3}
    PageSize = 1
    Links = {"sync"}
    Reloads = FALSE
    Dates = {TRUE}
    Buttons = {button}
    Tabs = {}
    MaxFaults = 1
SPECIFICATION FairSpec
INVARIANTS NothingHidden
PROPERTIES PageCatchesUp
