SPECIFICATION DataFairSpec
CONSTANTS
    Names <- MCNames
    Contents = {v, w}
    Extends <- MCExtends
    Tasks = {receive}
    Nothing = Nothing
    MaxVanish = 1
    DataClients = {k}
    CacheSizeLimit = 1
    MaxStops = 1
INVARIANTS CacheIsFresh 
CHECK_DEADLOCK FALSE
  
