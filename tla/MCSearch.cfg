\* Two or three overlapping searches of both kinds.
CONSTANTS
    c1 = c1
    c2 = c2
    c3 = c3
    u1 = u1
    u2 = u2
    Me = u1
    Bare <- Newcomers
    Match <- ClubsAndPeople
    MaxSearches = 3
SPECIFICATION SearchSpec
INVARIANTS SearchTypeOK RowOpensWhatItShows LatestComplete
CHECK_DEADLOCK FALSE
