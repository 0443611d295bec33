CONSTANTS
    PoolSize = 3
    MaxConnections = 4
    MaxInt = 127
    MaxShort = 15
    ClientIds = {1, 2}
    Words <- MCWords
    Documents <- MCDocuments
    Scenarios <- MCScenarios
    Processing <- ProcessSensorData
    SensorsIn <- InitialSensorsList
SPECIFICATION FairSpec
CHECK_DEADLOCK FALSE
INVARIANTS
    TypeOK
    ParsedAsSent
    PathAsEncoded
    OwnAnswer
    NoLeftovers
    LoadedAsSent
    ReadsBack
PROPERTIES
    RequestsAnswered
    ClientsAccepted
    StopEndsHttp
