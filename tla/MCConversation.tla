--------------------------- MODULE MCConversation ---------------------------
(***************************************************************************)
(* Instances of Conversation for TLC.                                      *)
(***************************************************************************)
EXTENDS Conversation, TLC

CONSTANTS t1, t2, t3, s1, s2, a1

\* Two turns of one student, and another student who asks for the same conversation.
SomeStudents == t1 :> s1 @@ t2 :> s1 @@ t3 :> s2

Evaluate(a) == [tool |-> "evaluate_eligibility", args |-> a]
Search == [tool |-> "search_policy", args |-> a1]
Unknown == [tool |-> "unknown", args |-> a1]

\* Of the first turn: an evaluation, whose decision the call of an unknown tool leaves; and
\* an evaluation that is refused as the same call again, which counts: the search after it
\* is over the limit.
SomeBatches ==
    t1 :> {<<Evaluate(a1), Unknown>>,
           <<Evaluate(a1), Evaluate(a1), Search>>}
    @@ t2 :> {} @@ t3 :> {}
=============================================================================
