\* One phone, two stacked club screens, one perhaps opened by a scan.
CONSTANTS
    d1 = d1
    d2 = d2
    u1 = u1
    c1 = c1
    c2 = c2
    e1 = e1
    s1 = s1
    s2 = s2
    NoClub = NoClub
    NoEvent = NoEvent
    Device = {d1}
    User = {u1}
    Club = {c1, c2}
    Event = {e1}
    Screen = {s1, s2}
    AccountOf <- SharedAccount
    HostOf <- OnOnePhone
    ClubOf <- HeldBy
    Described <- FoundedOnly
    Founded <- OneFounded
    MaxPending = 2
    MaxReads = 2
SPECIFICATION ClubSpec
INVARIANTS ClubTypeOK TitleMatchesAction OfferIsCurrent OnlyFoundersEdit ButtonReturns
PROPERTIES Spec
SYMMETRY Screens
CONSTRAINT FewReads
