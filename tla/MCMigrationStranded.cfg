SPECIFICATION Spec
CONSTANTS
    onebot = onebot
    satori = satori
    m1 = m1
    m2 = m2
    d1 = d1
    d2 = d2
    Connector = {onebot, satori}
    NoConnector = NoConnector
    Spare = Spare
    Migration <- OneMigration
    NoMigration = NoMigration
    OldOf <- OneOld
    NewOf <- OneNew
    FirstMain = onebot
    Delivery = {d1}
    NoDelivery = NoDelivery
    Request = {r1}
    Boot = Boot
    SenderConfigured = TRUE
    MaxCalls = 3
    MaxCrashes = 0
    MaxFaults = 0
    MaxDisconnects = 0
    MaxPatches = 0
INVARIANTS
    FinishedReleasesHolds
CHECK_DEADLOCK FALSE
