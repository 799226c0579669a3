SPECIFICATION Spec
SYMMETRY RequestSymmetry
CONSTANTS
    onebot = onebot
    satori = satori
    m1 = m1
    m2 = m2
    d1 = d1
    d2 = d2
    Connector = {onebot, satori}
    NoConnector = NoConnector
    Spare = Spare
    Migration <- TwoMigrations
    NoMigration = NoMigration
    OldOf <- ThereOld
    NewOf <- ThereNew
    FirstMain = onebot
    Delivery = {d1}
    NoDelivery = NoDelivery
    Request = {r1, r2}
    Boot = Boot
    SenderConfigured = TRUE
    MaxCalls = 4
    MaxCrashes = 1
    MaxFaults = 1
    MaxDisconnects = 0
    MaxPatches = 1
INVARIANTS
    NoDuplicateDelivery
    OneActiveMigration
PROPERTIES
    ImplementsLedger
CHECK_DEADLOCK FALSE
