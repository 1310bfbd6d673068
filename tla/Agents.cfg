SPECIFICATION Spec
CONSTANTS
    Configurations <- MCConfigurations
    GivenTimes = {0}
    EIDs = {e1}
    Addresses = {e1, group, all}
    Groups = {group}
    Broadcast = all
    UUIDs = {u1, u2}
    Handlers = {h1, h2}
    MaxClock = 2
    MaxSends <- MCMaxSends
    e1 = e1
    group = group
    all = all
    u1 = u1
    u2 = u2
    h1 = h1
    h2 = h2
SYMMETRY Symmetry
INVARIANTS
    
    UniqueIDs
    ClientHasMailbox
CHECK_DEADLOCK FALSE
