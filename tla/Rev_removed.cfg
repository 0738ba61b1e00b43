\* A review that an admin removed is published again.
SPECIFICATION Spec
CONSTANTS
    NoBooking = NoBooking
    Bookings = {b1}
    Requests = {r1}
    Handlers = {h1, h2}
    MaxDeaths = 0
INVARIANTS
    RemovedStaysHidden
CHECK_DEADLOCK FALSE
