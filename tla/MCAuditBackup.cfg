\* Three events of the IdP, one of the Gateway, one append cut short, two commands.
SPECIFICATION BackupSpec
CONSTANTS
    i1 = i1
    i2 = i2
    i3 = i3
    g1 = g1
    idp = idp
    gateway = gateway
    Events = {i1, i2, i3, g1}
    Processes = {idp, gateway}
    Home <- MCHome
    MaxTears = 1
    MaxCommands = 2
INVARIANTS BackupTypeOK BreaksHaveCause NothingIsLost TamperingShows
CHECK_DEADLOCK FALSE
