CONSTANTS
    Calls = {c1, c2, c3, c4}
    NoCall = NoCall
SPECIFICATION FairSpec
INVARIANTS
    TypeOK
    ServerSerial
    OutcomeTellsServer
    OneDiscovery
    SerialInv
PROPERTIES
    ImplementsToolChannel
    EveryCallEnds
    DeathIsNoticed
