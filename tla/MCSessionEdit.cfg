\* The same phone, one standing follow.
CONSTANTS
    d1 = d1
    u1 = u1
    u2 = u2
    NoUser = NoUser
    Device = {d1}
    User = {u1, u2}
    Club = {}
    Event = {}
    Founded <- NoneFounded
    Standing <- OneFollow
    Ways <- MailAndProvider
    MaxPending = 3
    MaxWork = 3
SPECIFICATION SessionSpec
INVARIANTS LinkIntegrity
