\* Two phones signed in to one account; a club, a founded club, an event.
CONSTANTS
    d1 = d1
    d2 = d2
    u1 = u1
    c1 = c1
    c2 = c2
    e1 = e1
    Device = {d1, d2}
    User = {u1}
    Club = {c1, c2}
    Event = {e1}
    Founded <- OneFounded
    MaxPending = 4
SPECIFICATION FairSpec
INVARIANTS LinkIntegrity OwnView
PROPERTIES KeepsPromise LinkSettles
