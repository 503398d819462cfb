SPECIFICATION MCSpec
CONSTANTS
    Event = {ev1, ev2}
    Hook <- MCHook
    PR = {p1}
    Ticket = {t1}
    NoTicket = NoTicket
    TicketOf <- MCTicketOf
    Poll = {q1, q2}
    NoEvent = NoEvent
    MaxChange = 2
    MaxOutage = 1
INVARIANT TypeOK
INVARIANT EveryRequestAtOnePlace
INVARIANT PollTypeOK
INVARIANT ConflictResolvedOnce
PROPERTY ImplementsApproval
PROPERTY MergedIsAnnounced
CHECK_DEADLOCK FALSE
