--------------------------- MODULE BindingReview ---------------------------
(***************************************************************************)
(* What the binding lifecycle promises: each pair of a source and a policy *)
(* version has numbered revisions; only the last one can be open, it goes  *)
(* PROPOSED, APPROVED, REVOKED one step at a time, and only when it is     *)
(* revoked may the next revision be proposed.                              *)
(***************************************************************************)
EXTENDS Naturals

CONSTANT Keys  \* pairs of a source and a policy version

VARIABLE review  \* review[k][n]: the state of revision n of key k

Init == review = [k \in Keys |-> [n \in {} |-> "PROPOSED"]]

Last(k, n) == n \in DOMAIN review[k] /\ \A m \in DOMAIN review[k] : m <= n

\* n is the number the next revision of k gets.
NextRevision(k, n) ==
    \/ DOMAIN review[k] = {} /\ n = 1
    \/ \E m \in DOMAIN review[k] : Last(k, m) /\ review[k][m] = "REVOKED" /\ n = m + 1

Put(k, n, state) ==
    review' = [review EXCEPT ![k] =
                  [m \in DOMAIN review[k] \cup {n} |-> IF m = n THEN state ELSE review[k][m]]]

Propose(k, n) == NextRevision(k, n) /\ Put(k, n, "PROPOSED")
Approve(k, n) == Last(k, n) /\ review[k][n] = "PROPOSED" /\ Put(k, n, "APPROVED")
Revoke(k, n) == Last(k, n) /\ review[k][n] = "APPROVED" /\ Put(k, n, "REVOKED")

Next == \E k \in Keys :
    \/ \E n \in {1} \cup {m + 1 : m \in DOMAIN review[k]} : Propose(k, n)
    \/ \E n \in DOMAIN review[k] : Approve(k, n) \/ Revoke(k, n)

Spec == Init /\ [][Next]_review
=============================================================================
