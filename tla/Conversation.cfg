\* Three turns on one conversation, two model calls and two tool calls each: the answer of the
\* first turn may follow an evaluation, and a call may be refused as a cycle or by the limit.
CONSTANTS
    t1 = t1  t2 = t2  t3 = t3
    s1 = s1  s2 = s2
    a1 = a1
    Null = Null
    Turns = {t1, t2, t3}
    Students = {s1, s2}
    StudentOf <- SomeStudents
    Copilot = {t1}
    Registry = {"evaluate_eligibility", "search_policy"}
    Arguments = {a1}
    Batches <- SomeBatches
    Results = {"ELIGIBLE"}
    MaxToolCalls = 2
    MaxSteps = 2
SPECIFICATION FairSpec
INVARIANT ConversationInv
INVARIANT AnswerReportsLastEvaluation
INVARIANT CallsAreAnswered
INVARIANT BudgetHolds
PROPERTY EveryTurnEnds
