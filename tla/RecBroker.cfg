SPECIFICATION OverlayFairSpec
CONSTANTS
    Brokers = {b}
    Executors = {e}
    Datastores = {}
    Clients = {c}
    Jobs = {j}
    Data = {}
    Queries = {q}
    Nobody = Nobody
    HrwParameters <- MCHrwParameters
    MaxFaults = 1
INVARIANTS WorkIsInOnePlace
PROPERTIES QueuedWorkIsTaken NodesAreRediscovered MembersAssociate QueriesAreAnswered
