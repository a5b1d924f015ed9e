SPECIFICATION TSpec
CONSTANTS
    m1 = m1
    m2 = m2
    m3 = m3
    shared = shared
    Makers <- MCMakers
    Shared <- MCShared
    Options <- MCOptions
    EnvKeys <- MCEnvKeys
INVARIANTS
    TInv
    RequestsAreIdentified
    PrivateClientsAreSafe
PROPERTIES
    RequestsAreDelivered
