SPECIFICATION Spec
CONSTANTS
    Hosts <- MCTwoHosts
    Services <- MCServices
    HostNames <- MCHostNames
    ServiceTypes <- MCServiceTypes
    Timeouts = {0}
    Peer <- MCPeer
    Packets <- MCPackets
    Junk = {0, 9}
    NumMDNSServiceRecords = 2
    MDNS_MAX_SERVICES_PER_PACKET = 2
    MDNS_NQUERY_RESEND_TIME = 1
    MDNS_SQUERY_RESEND_TIME = 2
    MDNS_RESPONSE_TTL = 8
    ClockSpace = 16
    MaxPause = 0
    MaxCalls = 3
PROPERTIES AnsweredOnce TellsWhatWasAnswered AnswersWhatIsAsked FindsServices
CHECK_DEADLOCK FALSE
