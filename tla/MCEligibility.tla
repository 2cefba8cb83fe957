--------------------------- MODULE MCEligibility ---------------------------
(***************************************************************************)
(* Instances of Eligibility for TLC.                                       *)
(***************************************************************************)
EXTENDS Eligibility, TLC

CONSTANTS c1, c2, p1, v1, i1, i2, b1, o1

\* One rule of a policy and one criterion of a requirement version.
RuleAndCriterion == i1 :> p1 @@ i2 :> v1

Operand1(n) == [kind |-> "number", values |-> {n}]
OffersAndCgpa ==
    i1 :> [field |-> "offers", operator |-> "<=", operand |-> Operand1(0), applicability |-> "REQUIRED"] @@
    i2 :> [field |-> "cgpa", operator |-> "!=", operand |-> Operand1(6), applicability |-> "REQUIRED"]
=============================================================================
