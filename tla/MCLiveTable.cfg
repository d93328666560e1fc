\* Three entries that come, go, come back and load in any order.
CONSTANTS
    k1 = k1
    k2 = k2
    k3 = k3
    Key = {k1, k2, k3}
    MaxLoads = 2
    MaxRows = 4
SPECIFICATION TableFairSpec
INVARIANTS TableTypeOK TableIsList
PROPERTIES EntryListed
CHECK_DEADLOCK FALSE
