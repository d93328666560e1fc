\* Three snapshots whose reads overlap.
CONSTANTS
    u1 = u1
    u2 = u2
    u3 = u3
    u4 = u4
    d1 = d1
    d2 = d2
    Person = {u1, u2, u3, u4}
    Founder = u1
    Profiled = {u1, u2, u3}
    Dorm = {d1, d2}
    DormOf <- Dorms
    MaxSnapshots = 3
SPECIFICATION AnalyticsFairSpec
INVARIANTS AnalyticsTypeOK NobodyUncounted
PROPERTIES SnapshotDrawn
CHECK_DEADLOCK FALSE
