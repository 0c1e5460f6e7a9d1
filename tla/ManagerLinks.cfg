SPECIFICATION FairSpec
CONSTANTS
    TAddrs <- TelecomAddrs
    Servers <- ConfiguredServers
    HasPort <- WithPort
PROPERTIES
    TelecomImplementsLink
    ClientdImplementsLink
    Reconnects
    SilentManagerLeft
