\* Two evaluations, a policy version that gets one rule and may be open again, a requirement
\* version with one criterion, final from the start.
CONSTANTS
    c1 = c1  c2 = c2
    p1 = p1
    v1 = v1
    i1 = i1  i2 = i2
    b1 = b1
    o1 = o1
    Null = Null
    NoVersion = NoVersion
    Clients = {c1, c2}
    Policies = {p1}
    Versions = {v1}
    Items = {i1, i2}
    Parent <- RuleAndCriterion
    Ready = {v1}
    RuleOf <- OffersAndCgpa
    Marks = {6}
    Backlogs = {b1}
    Offers = {o1}
    BacklogKinds = {"OPENED"}
    OfferKinds = {"RECEIVED"}
    MaxDecisions = 1
    MaxChanges = 1
SPECIFICATION FairSpec
INVARIANT EligibilityInv
INVARIANT ReplayAgrees
INVARIANT MissingFactsDecideNothing
PROPERTY EveryEvaluationEnds
