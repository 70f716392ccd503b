CONSTANTS
    Models = {m1}
    Free = {}
    Fallback = {}
    Askers = {c1}
    Updaters = {u1}
    Workers = 1
    MaxActs = 1
    MaxFaults = 1
SPECIFICATION MCCatalogSpec
CHECK_DEADLOCK FALSE

    
    
PROPERTIES
    NobodyStuck
