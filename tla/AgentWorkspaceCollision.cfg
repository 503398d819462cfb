SPECIFICATION Spec
CONSTANTS
    Name = {n1, n2}
    NoName = NoName
    Starts = {s1, s2}
    Ticket = {t1, t2}
    TicketOf <- MCOwnTicket
    NoTicket = NoTicket
    Cleaners = {}
    MaxRetries = 1
INVARIANT WinnerKeepsItsWorktree
CHECK_DEADLOCK FALSE
