\* Two clients, two versions of one policy, one rule code, two days.
CONSTANTS
    c1 = c1  c2 = c2
    v1 = v1  v2 = v2
    p1 = p1
    x1 = x1
    Nothing = Nothing
    Clients = {c1, c2}
    Versions = {v1, v2}
    Policies = {p1}
    PolicyOf <- OnePolicy
    Codes = {x1}
    Days = {1, 2}
    Never = 3
    MaxEvents = 6
SYMMETRY Symmetry
SPECIFICATION Spec
INVARIANT PolicyInv
INVARIANT NumbersAreGapless
INVARIANT ApprovalPrecedesActivation
INVARIANT ArchivedIsClosed
PROPERTY FollowsCalendar
PROPERTY FollowsDefinitions
CHECK_DEADLOCK FALSE
