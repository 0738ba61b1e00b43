\* One ticket, one administrator who resolves it and opens it again.
SPECIFICATION SupportSpec
CONSTANTS
    Tickets = {q1}
    Desks = {d1}
    MaxReplies = 0
    MaxClock = 2
    SupportDeaths = 0
PROPERTIES ResolutionTimeStands
CHECK_DEADLOCK FALSE
