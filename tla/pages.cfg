\* The lists: two charges and a payout, one row to a page; no buttons.
CONSTANTS
    Rows = {1, 2, 3}
    TableOf <- MCTableOf
    Ready = {1, 3}
    PageSize = 1
    Links = {"charges", "payouts", "vouchers", "dashboard", "sync", "settings"}
    Reloads = TRUE
    Dates = {TRUE}
    Buttons = {}
    Tabs = {}
    MaxFaults = 1
SPECIFICATION Spec
INVARIANTS ListsAreComplete NothingHidden
