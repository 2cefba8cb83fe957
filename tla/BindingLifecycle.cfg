\* Two clients and two keys on one source; request ids for a second revision of the first key,
\* each also asked for something else: by another author, for another status or for the other key.
CONSTANTS
    c1 = c1  c2 = c2
    k1 = k1  k2 = k2
    s1 = s1
    q1 = q1  q2 = q2  q3 = q3  q4 = q4
    a1 = a1  a2 = a2
    Clients = {c1, c2}
    Keys = {k1, k2}
    Sources = {s1}
    SourceOf <- TwoKeys
    Requests = {q1, q2, q3, q4}
    Authors = {a1, a2}
    Asked <- SomeAsked
SPECIFICATION FairSpec
INVARIANT TypeOK
INVARIANT TriggersAgree
INVARIANT OneEventPerRequest
INVARIANT SuccessIsRecorded
PROPERTY FollowsReview
PROPERTY EveryCommandEnds
