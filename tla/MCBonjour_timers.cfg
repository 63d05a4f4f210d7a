SPECIFICATION FairSpec
CONSTANTS
    Hosts <- MCHosts
    Services <- MCOneService
    HostNames <- MCHostNames
    ServiceTypes <- MCServiceTypes
    Timeouts <- MCTimed
    Peer <- MCPeer
    Packets <- MCNone
    Junk = {0}
    NumMDNSServiceRecords = 1
    MDNS_MAX_SERVICES_PER_PACKET = 2
    MDNS_NQUERY_RESEND_TIME = 1
    MDNS_SQUERY_RESEND_TIME = 2
    MDNS_RESPONSE_TTL = 9
    ClockSpace = 12
    MaxPause = 1
    MaxCalls = 2
INVARIANTS TypeOK StaysKnown
PROPERTIES QueryEnds NameIsResolved
CHECK_DEADLOCK FALSE
