\* Two clients; one company, one role, one drive, two versions, one criterion code.
CONSTANTS
    c1 = c1  c2 = c2
    k1 = k1
    x1 = x1
    d1 = d1
    m1 = m1
    Clients = {c1, c2}
    Companies = {k1}
    Codes = {x1}
    Drives = {d1}
    Values = {m1}
    MaxNumber = 2
SPECIFICATION FairSpec
INVARIANT RecruitmentInv
PROPERTY FollowsDefinitions
PROPERTY EveryRequestEnds
