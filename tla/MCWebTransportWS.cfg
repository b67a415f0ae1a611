CONSTANTS
    Configs <- MCConfigs
    MaxStreams = 2
    textCommandStart = 20
    textCommandEnd = 21
    MaxPings = 2
SPECIFICATION FairSpec
INVARIANTS TypeOK DeliveredOnce DropsAreDuplicates InOrder PingsCountOnce
PROPERTIES ClosedIsOver OneStreamIsEnough
CHECK_DEADLOCK FALSE
