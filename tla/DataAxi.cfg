CONSTANTS
    Address = {1, 2}
    Data = {0, 1}
    NoData = 0
    PowerUp = 1
SPECIFICATION FairSpec
INVARIANTS SingleOutstanding StoresArrive
PROPERTIES ChannelsHeld RequestAnswered
