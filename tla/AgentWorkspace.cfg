SPECIFICATION MCSpec
CONSTANTS
    Name = {n1, n2}
    NoName = NoName
    Starts = {s1, s2}
    Ticket = {t1}
    TicketOf <- MCSameTicket
    NoTicket = NoTicket
    Cleaners = {c}
    MaxRetries = 1
    Daemon = d
    Requires = FALSE
    MaxOutage = 1
SYMMETRY MCSymmetry
INVARIANT TypeOK
INVARIANT RemovesOnlyLateWork
INVARIANT InsertedNameIsExclusive
INVARIANT GCTypeOK
INVARIANT CollectsOnlyLateWork
INVARIANT OrphansWereWithoutSession
