\* Two records and four addresses: the table can be overrun, and a fourth client
\* is there to see it.
CONSTANTS
    Addresses = {a1, a2, a3, a4}
    max_status_records = 2
    min_status_interval = 2
    Epoch = 3
    MaxUptime = 4
SYMMETRY Symmetric
SPECIFICATION Spec
INVARIANTS
    LimitHeld
    RefusedInTime
    StatusIsCurrent
PROPERTY QueryRateHeld
