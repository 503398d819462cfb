SPECIFICATION CommandSpec
CONSTANTS
    Name = {n1}
    NoName = NoName
    Starts = {s1}
    Ticket = {t1}
    TicketOf <- MCSameTicket
    NoTicket = NoTicket
    Cleaners = {c}
    MaxRetries = 0
    Daemon = d
    Requires = FALSE
    MaxOutage = 0
INVARIANT LiveAgentIsNotCollected
