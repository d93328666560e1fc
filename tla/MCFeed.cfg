\* Two users followed, unfollowed and followed again; three check-ins under one
\* name, of which two are of one user.
CONSTANTS
    u1 = u1
    u2 = u2
    e1 = e1
    e2 = e2
    meeting = meeting
    User = {u1, u2}
    Event = {e1, e2}
    EventName = {meeting}
    NameOf <- Names
    Undated = {}
    Attendees <- Guests
    MaxWatches = 3
    MaxReads = 2
SPECIFICATION FeedFairSpec
INVARIANTS FeedTypeOK FeedOnce FeedComplete
PROPERTIES FeedComes
CHECK_DEADLOCK FALSE
