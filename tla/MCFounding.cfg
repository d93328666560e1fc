\* A founder and another user with a phone each, one form, two clubs.
CONSTANTS
    d1 = d1
    d2 = d2
    u1 = u1
    u2 = u2
    c1 = c1
    c2 = c2
    f1 = f1
    NoClub = NoClub
    Device = {d1, d2}
    User = {u1, u2}
    Club = {c1, c2}
    Form = {f1}
    AccountOf <- OwnPhones
    HostOf <- OnFirstPhone
    MaxPending = 3
SPECIFICATION FoundingSpec
INVARIANTS FoundingTypeOK ListedClubsExist OwnPicture MembersStay
SYMMETRY Clubs
