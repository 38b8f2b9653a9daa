\* A caller, the refresher and a browser that may log in again beside them; every event.
CONSTANTS
    Sync = Sync
    Refresher = Refresher
    Login = Login
    Again = Again
    Callers = {Sync}
    Browsers = {Login}
    Events = {"crash", "read", "write", "reject", "lost", "hang", "disconnect"}
    MaxEvents = 1
    MaxAttempts = 2
    MaxPairs = 2
    MaxCodes = 2
SPECIFICATION FairSpec
PROPERTIES DisconnectHolds CallEnds RefreshIsUsed
