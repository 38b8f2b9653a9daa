\* A caller, the refresher and two logins that may overlap; every event.
CONSTANTS
    Sync = Sync
    Refresher = Refresher
    Login = Login
    Again = Again
    Callers = {Sync}
    Browsers = {Login, Again}
    Events = {"crash", "read", "write", "reject", "lost", "hang", "disconnect"}
    MaxEvents = 1
    MaxAttempts = 1
    MaxPairs = 3
    MaxCodes = 2
SPECIFICATION FairSpec
INVARIANTS TypeOK Recoverable PairsMatch TokenAccepted
