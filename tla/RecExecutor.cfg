SPECIFICATION FairSpec
CONSTANTS
    j1 = j1
    j2 = j2
    v = v
    w = w
    Names = {"x", "y", "z"}
    Contents = {v, w}
    Extends <- MCExtends
    Tasks = {recv, sched}
    Recv = recv
    Sched = sched
    Fetch = fetch
    Nothing = Nothing
    Jobs = {j1, j2}
    Required <- MCRequired
    Provided <- MCProvided
    Produces <- MCProduces
    Content <- MCContent
    Published = {"x"}
    Heavy = {j2}
    MaxVanish = 1
    MaxFaults = 1
INVARIANTS JobsAreKept  FailuresAreExplained
PROPERTIES IterationIsStable JobsAreRun 
