SPECIFICATION FairSpec
CONSTANTS
    NumSock = 3
    RequestUnits = 2
    Prints = 2
    Room = 1
    MaxParams = 2
    Params <- MCAllParams
INVARIANTS TypeOK SenderKeepsItsSocket OneListener PageGoesToItsClient
PROPERTIES SnifferKeepsRunning ListensAgain
