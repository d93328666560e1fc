\* A founder's phone and a guest's, two events.
CONSTANTS
    d1 = d1
    d2 = d2
    u1 = u1
    u2 = u2
    c1 = c1
    e1 = e1
    e2 = e2
    NoClub = NoClub
    NoEvent = NoEvent
    Device = {d1, d2}
    User = {u1, u2}
    Club = {c1}
    Event = {e1, e2}
    Founded <- OneFounded
    AccountOf <- FirstFounds
    ClubOf <- HeldBy
    MaxPending = 3
SPECIFICATION CheckInSpec
INVARIANTS CheckInTypeOK AttendanceStands EventsAreWhole AsPrompted
SYMMETRY Events
CONSTRAINT FewAtOnce
