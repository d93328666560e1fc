\* One phone, two stacked profile screens.
CONSTANTS
    d1 = d1
    u1 = u1
    u2 = u2
    s1 = s1
    s2 = s2
    NoUser = NoUser
    Device = {d1}
    User = {u1, u2}
    Club = {}
    Event = {}
    Screen = {s1, s2}
    AccountOf <- OneAccount
    HostOf <- OnOnePhone
    Founded <- NoneFounded
    MaxPending = 2
    MaxReads = 2
SPECIFICATION ProfileSpec
INVARIANTS ProfileTypeOK  
PROPERTIES Spec
SYMMETRY Screens
CONSTRAINT FewMissing
