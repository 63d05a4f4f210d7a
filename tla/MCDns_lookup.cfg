SPECIFICATION FairSpec
CONSTANTS
    HostNames <- MCHostNames
    Zone <- MCZone
    DnsServer = 8
    Servers = {0, 8}
    Strangers = {9}
    IdSpace = 65536
    IntSpace = 134217728
    PortSpace = 2
    Timeout = 1
    MaxGap = 1
    MaxLookups = 2
    MaxRx = 1
INVARIANTS TypeOK ResolvesToItsAddress AsksForTheName
PROPERTIES TakesAnswersApart LookupEnds
CHECK_DEADLOCK FALSE
