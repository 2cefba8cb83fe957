----------------------------- MODULE Evaluator -----------------------------
(***************************************************************************)
(* The rule engine: the outcome of a rule on a snapshot, of a domain of    *)
(* rules, and of the requirement and policy domains together.              *)
(*                                                                         *)
(* A rule is a record [field, operator, operand, applicability].  Its      *)
(* operand is a number, a list of numbers, an object without "value", or   *)
(* absent; numbers are naturals.  A snapshot gives each of its fields a    *)
(* number or Null; the path of a field is a name of its own.               *)
(***************************************************************************)
EXTENDS Naturals

CONSTANT Null  \* None

Operand == [kind : {"number", "list", "object", "absent"}, values : SUBSET Nat]

Ordering == {">", ">=", "<", "<="}

\* a, a number, stands in relation op to the operand e.
Satisfies(op, e, a) ==
    CASE op = "==" -> e.kind = "number" /\ a \in e.values
      [] op = "!=" -> ~(e.kind = "number" /\ a \in e.values)
      [] op = ">" -> \A n \in e.values : a > n
      [] op = ">=" -> \A n \in e.values : a >= n
      [] op = "<" -> \A n \in e.values : a < n
      [] op = "<=" -> \A n \in e.values : a <= n
      [] op = "IN" -> e.kind = "list" /\ a \in e.values
      [] op = "NOT_IN" -> ~(e.kind = "list" /\ a \in e.values)

\* Python compares them: no TypeError, and an operator the engine knows.
Comparable(op, e) ==
    \/ op \in {"==", "!="}
    \/ op \in Ordering /\ e.kind = "number"
    \/ op \in {"IN", "NOT_IN"} /\ e.kind \in {"list", "object"}

\* Mutant of evaluate_operator: a missing fact is compared like any other.
evaluate_missing(op, e, a) ==
    IF ~Comparable(op, e) THEN "UNKNOWN"
    ELSE IF a = Null THEN (IF op \in {"!=", "NOT_IN"} THEN "PASS" ELSE "FAIL")
    ELSE IF Satisfies(op, e, a) THEN "PASS" ELSE "FAIL"

\* "=" and BETWEEN, which the tables admit, are UNKNOWN to the engine.
evaluate_operator(op, e, a) ==
    IF a = Null \/ ~Comparable(op, e) THEN "UNKNOWN"
    ELSE IF Satisfies(op, e, a) THEN "PASS" ELSE "FAIL"

resolve_field_path(snapshot, path) ==
    IF path \in DOMAIN snapshot THEN snapshot[path] ELSE Null

evaluate_rule(rule, snapshot) ==
    evaluate_operator(rule.operator, rule.operand, resolve_field_path(snapshot, rule.field))

\* FAIL > UNKNOWN > PASS
aggregate_results(results) ==
    CASE "FAIL" \in results -> "FAIL"
      [] "FAIL" \notin results /\ "UNKNOWN" \in results -> "UNKNOWN"
      [] OTHER -> "PASS"

\* The criteria the engine looks at; a criterion of applicability UNKNOWN decides nothing.
Considered(criteria) == {x \in criteria : x.applicability \in {"REQUIRED", "OPTIONAL"}}

evaluate_snapshot(snapshot, rules, criteria) ==
    LET domain(S) == aggregate_results({evaluate_rule(r, snapshot) : r \in S})
        results == {domain(Considered(criteria)), domain(rules)} IN
    CASE "FAIL" \in results -> "NOT_ELIGIBLE"
      [] "FAIL" \notin results /\ "UNKNOWN" \in results -> "UNKNOWN"
      [] OTHER -> "ELIGIBLE"
=============================================================================
