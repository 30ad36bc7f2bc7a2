SPECIFICATION Spec
CONSTANTS
    People = {p1, p2, p3}
    Founder = p1
    Invites = {i1, i2}
    Approval = {i2}
    AdminInvites = {i1}
    Requests = {r1, r2}
    MaxUses = 1
    MaxSeats = 2
SYMMETRY Symmetry
INVARIANTS TypeOK AdminRemains
PROPERTIES SeatsKept
CHECK_DEADLOCK FALSE
