CONSTANTS
    Session = {s1, s2}
    Fixtures = 1
    PrimaryOid = 5
    ExtraOids <- MCExtraOids
    PlayerOid = 7
    SettleTicks = 1
    MaxEntities = 3
    MaxWorld = 5
    MaxSpawns = 3
SPECIFICATION Spec
INVARIANTS
    TypeOK
    OwnTank
    SpawnsIntoLoadedWorld
    RelayedTanksStay
PROPERTIES
    EveryTankIsIntroduced
    WorldComesUp
