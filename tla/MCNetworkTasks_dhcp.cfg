SPECIFICATION FairSpec
CONSTANTS
    NumSock = 2
    RequestUnits = 2
    Prints = 1
    Room = 1
    MaxParams = 1
    Params <- MCDhcp
PROPERTY StartsOver
