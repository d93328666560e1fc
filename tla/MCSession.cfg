\* One phone, two accounts, three things to wait for at a time.
CONSTANTS
    d1 = d1
    u1 = u1
    u2 = u2
    NoUser = NoUser
    Device = {d1}
    User = {u1, u2}
    Club = {}
    Event = {}
    Founded <- NoneFounded
    Standing <- NoneStanding
    Ways <- MailAndProvider
    MaxPending = 3
    MaxWork = 3
SPECIFICATION SessionSpec
INVARIANTS SessionTypeOK TabsHaveUser ProfileBeforeTabs NodeIsOwn PhotoListed
CONSTRAINT SomebodyApart
