-------------------------- MODULE EligibilityProofs --------------------------
(***************************************************************************)
(* Proofs about Eligibility and the rule engine, for any definitions,      *)
(* facts and number of evaluations: a key has one decision, a decision can *)
(* be replayed, and a missing fact decides nothing.                        *)
(***************************************************************************)
EXTENDS Eligibility, TLAPS

\* The engine answers with one of its three results.
LEMMA EngineResult ==
    ASSUME NEW snapshot, NEW rules, NEW criteria
    PROVE  evaluate_snapshot(snapshot, rules, criteria) \in Result
BY DEF evaluate_snapshot, Result

\* A rule reads one field: another CGPA changes nothing but rules on the CGPA.
LEMMA OtherFields ==
    ASSUME NEW s \in Snapshot, NEW x, NEW path, path # "cgpa"
    PROVE  resolve_field_path([s EXCEPT !.cgpa = x], path) = resolve_field_path(s, path)
BY DEF Snapshot, resolve_field_path

\* evaluate_rule: without the CGPA a rule is UNKNOWN, or it does not look at it.
LEMMA RuleWithoutFact ==
    ASSUME NEW s \in Snapshot, s.cgpa = Null, NEW x, NEW rule
    PROVE  \/ evaluate_rule(rule, s) = "UNKNOWN"
           \/ evaluate_rule(rule, [s EXCEPT !.cgpa = x]) = evaluate_rule(rule, s)
<1>1. CASE rule.field = "cgpa"
  <2>1. resolve_field_path(s, rule.field) = Null
    BY <1>1 DEF resolve_field_path, Snapshot
  <2>2. QED
    BY <2>1 DEF evaluate_rule, evaluate_operator
<1>2. CASE rule.field # "cgpa"
  BY <1>2, OtherFields DEF evaluate_rule
<1>3. QED
  BY <1>1, <1>2
\* A domain that fails, fails with any CGPA; one that passes, passes.
LEMMA DomainWithoutFact ==
    ASSUME NEW s \in Snapshot, s.cgpa = Null, NEW x, NEW S
    PROVE  LET before == aggregate_results({evaluate_rule(r, s) : r \in S})
               after == aggregate_results({evaluate_rule(r, [s EXCEPT !.cgpa = x]) : r \in S})
           IN  before = "UNKNOWN" \/ after = before
<1> DEFINE t == [s EXCEPT !.cgpa = x]
           before == {evaluate_rule(r, s) : r \in S}
           after == {evaluate_rule(r, t) : r \in S}
<1>1. \A r \in S : evaluate_rule(r, s) = "UNKNOWN" \/ evaluate_rule(r, t) = evaluate_rule(r, s)
  BY RuleWithoutFact
<1>2. "FAIL" \in before => "FAIL" \in after
  <2> SUFFICES ASSUME NEW r \in S, evaluate_rule(r, s) = "FAIL" PROVE "FAIL" \in after
    OBVIOUS
  <2> HIDE DEF t
  <2>1. evaluate_rule(r, t) = "FAIL"
    BY <1>1
  <2>2. QED
    BY <2>1
<1>3. CASE "UNKNOWN" \notin before
  <2> HIDE DEF t
  <2>1. after = before
    BY <1>1, <1>3
  <2>2. QED
    BY <2>1 DEF t
<1>4. CASE "FAIL" \in before
  <2> HIDE DEF before, after
  <2>1. aggregate_results(before) = "FAIL" /\ aggregate_results(after) = "FAIL"
    BY <1>2, <1>4 DEF aggregate_results
  <2>2. QED
    BY <2>1 DEF before, after
<1>5. CASE "FAIL" \notin before /\ "UNKNOWN" \in before
  <2> HIDE DEF before, after
  <2>1. aggregate_results(before) = "UNKNOWN"
    BY <1>5 DEF aggregate_results
  <2>2. QED
    BY <2>1 DEF before, after
<1>6. QED
  BY <1>3, <1>4, <1>5

\* evaluate_snapshot: a result without the CGPA, unless it is UNKNOWN, stands for any CGPA.
LEMMA SnapshotWithoutFact ==
    ASSUME NEW s \in Snapshot, s.cgpa = Null, NEW x, NEW rules, NEW criteria,
           evaluate_snapshot(s, rules, criteria) # "UNKNOWN"
    PROVE  evaluate_snapshot([s EXCEPT !.cgpa = x], rules, criteria) =
               evaluate_snapshot(s, rules, criteria)
<1> DEFINE t == [s EXCEPT !.cgpa = x]
           D(S) == aggregate_results({evaluate_rule(r, s) : r \in S})
           E(S) == aggregate_results({evaluate_rule(r, t) : r \in S})
<1>1. \A S : D(S) = "UNKNOWN" \/ E(S) = D(S)
  BY DomainWithoutFact
<1>2. evaluate_snapshot(s, rules, criteria) =
        CASE "FAIL" \in {D(Considered(criteria)), D(rules)} -> "NOT_ELIGIBLE"
          [] "FAIL" \notin {D(Considered(criteria)), D(rules)} /\ "UNKNOWN" \in {D(Considered(criteria)), D(rules)} -> "UNKNOWN"
          [] OTHER -> "ELIGIBLE"
  BY DEF evaluate_snapshot
<1>3. evaluate_snapshot(t, rules, criteria) =
        CASE "FAIL" \in {E(Considered(criteria)), E(rules)} -> "NOT_ELIGIBLE"
          [] "FAIL" \notin {E(Considered(criteria)), E(rules)} /\ "UNKNOWN" \in {E(Considered(criteria)), E(rules)} -> "UNKNOWN"
          [] OTHER -> "ELIGIBLE"
  BY DEF evaluate_snapshot
<1> DEFINE d1 == D(Considered(criteria))  d2 == D(rules)
           e1 == E(Considered(criteria))  e2 == E(rules)
<1>4. d1 = "UNKNOWN" \/ e1 = d1
  BY <1>1
<1>5. d2 = "UNKNOWN" \/ e2 = d2
  BY <1>1
<1> HIDE DEF D, E, d1, d2, e1, e2, t
<1>6. QED
  BY <1>2, <1>3, <1>4, <1>5 DEF d1, d2, e1, e2, t
-----------------------------------------------------------------------------
\* An evaluation goes on with a command that is in order.
LEMMA ReadStep ==
    ASSUME IInv, NEW c \in Clients, NEW from \in Steps, NEW to \in Steps, NEW r \in Command,
           Read(c, from, r, to),
           r.final => StillFinal(r.rules, r.policy, r.criteria, r.version),
           to \in {"insert", "commit"} => r.answer = Decide(r),
           to = "commit" =>
              /\ r.version # NoVersion
              /\ Found(r) = {}
              /\ \A d \in Clients \ {c} : pc[d] = "commit" => KeyOf(cmd[d]) # KeyOf(r),
           to = "answered" => r.answer \in decisions /\ r.answer.key = KeyOf(r)
    PROVE  IInv'
<1> USE DEF IInv, EligibilityInv, Read, definitions, facts
<1>1. \A b \in Clients : b # c => pc'[b] = pc[b] /\ cmd'[b] = cmd[b]
  BY DEF TypeOK
<1>2. pc'[c] = to /\ cmd'[c] = r /\ r # Null /\ to # "idle"
  BY CommandAssumption DEF TypeOK, Steps
<1>3. UNCHANGED <<items, entering, frozen, reopened, inForce, cgpa, backlog, offer, changes, decisions>>
  OBVIOUS
<1>4. TypeOK'
  BY <1>2, <1>3 DEF TypeOK
<1>5. OneDecisionPerKey'
  BY <1>1, <1>2, <1>3 DEF OneDecisionPerKey
<1>6. ReadingIsFinal'
  BY <1>1, <1>2, <1>3 DEF ReadingIsFinal, StillFinal, AreFinal, Defs!Final, ItemsOf
<1>7. DecisionsFollow'
  BY <1>1, <1>2, <1>3 DEF DecisionsFollow
<1>8. InsertIsAlone'
  BY <1>1, <1>2, <1>3 DEF InsertIsAlone, Found
<1>9. QED
  BY <1>4, <1>5, <1>6, <1>7, <1>8

\* An evaluation ends, with or without its answer.
LEMMA EndStep ==
    ASSUME IInv, NEW c \in Clients, End(c)
    PROVE  IInv'
<1> USE DEF IInv, EligibilityInv, End, definitions, facts
<1>1. \A b \in Clients : b # c => pc'[b] = pc[b] /\ cmd'[b] = cmd[b]
  BY DEF TypeOK
<1>2. pc'[c] = "idle" /\ cmd'[c] = Null
  BY DEF TypeOK
<1>3. UNCHANGED <<items, entering, frozen, reopened, inForce, cgpa, backlog, offer, changes, decisions>>
  OBVIOUS
<1>4. TypeOK'
  BY <1>2, <1>3 DEF TypeOK
<1>5. OneDecisionPerKey'
  BY <1>1, <1>2, <1>3 DEF OneDecisionPerKey
<1>6. ReadingIsFinal'
  BY <1>1, <1>2, <1>3 DEF ReadingIsFinal, StillFinal, AreFinal, Defs!Final, ItemsOf
<1>7. DecisionsFollow'
  BY <1>1, <1>2, <1>3 DEF DecisionsFollow
<1>8. InsertIsAlone'
  BY <1>1, <1>2, <1>3 DEF InsertIsAlone, Found
<1>9. QED
  BY <1>4, <1>5, <1>6, <1>7, <1>8

\* An evaluation begins.
LEMMA EvaluateStep ==
    ASSUME IInv, NEW c \in Clients, NEW v \in AnyVersion, Evaluate(c, v)
    PROVE  IInv'
<1> USE DEF IInv, EligibilityInv, Evaluate, definitions, facts
<1> DEFINE r == [version |-> v, policy |-> inForce, rules |-> {}, criteria |-> {}, final |-> FALSE,
                 left |-> {}, snapshot |-> [cgpa |-> Null, backlogs |-> 0, offers |-> 0], answer |-> Null]
<1>1. r \in Command /\ ~r.final /\ r # Null
  <2>1. inForce \in Policies
    BY DEF TypeOK
  <2>2. r.snapshot \in Snapshot
    BY DEF Snapshot, Mark
  <2>3. r \in Command
    BY <2>1, <2>2 DEF Command
  <2>4. QED
    BY <2>3, CommandAssumption
<1>2. \A b \in Clients : b # c => pc'[b] = pc[b] /\ cmd'[b] = cmd[b]
  BY DEF TypeOK
<1>3. pc'[c] = "academic" /\ cmd'[c] = r
  BY DEF TypeOK
<1>4. UNCHANGED <<items, entering, frozen, reopened, inForce, cgpa, backlog, offer, changes, decisions>>
  OBVIOUS
<1>5. TypeOK'
  BY <1>1, <1>3, <1>4 DEF TypeOK, Steps
<1> HIDE DEF r
<1>6. OneDecisionPerKey'
  BY <1>2, <1>3, <1>4 DEF OneDecisionPerKey
<1>7. ReadingIsFinal'
  BY <1>1, <1>2, <1>3, <1>4 DEF ReadingIsFinal, StillFinal, AreFinal, Defs!Final, ItemsOf
<1>8. DecisionsFollow'
  BY <1>2, <1>3, <1>4 DEF DecisionsFollow
<1>9. InsertIsAlone'
  BY <1>2, <1>3, <1>4 DEF InsertIsAlone, Found
<1>10. QED
  BY <1>5, <1>6, <1>7, <1>8, <1>9
\* Writing an answer changes no other part of the command.
LEMMA WithAnswer ==
    ASSUME NEW r \in Command, NEW a \in Answers \cup {Null}
    PROVE  LET w == [r EXCEPT !.answer = a] IN
           /\ w \in Command
           /\ w.answer = a /\ w.final = r.final /\ w.version = r.version /\ w.policy = r.policy
           /\ w.rules = r.rules /\ w.criteria = r.criteria
           /\ KeyOf(w) = KeyOf(r) /\ Decide(w) = Decide(r) /\ Found(w) = Found(r)
BY DEF Command, KeyOf, Decide, Found

\* A decision as it is made, and as it is recorded, can be an answer.
LEMMA DecideType ==
    ASSUME NEW r \in Command
    PROVE  /\ Decide(r) \in Answers
           /\ r.version # NoVersion => Decide(r) \in Decision
           /\ Decide(r).key = KeyOf(r)
<1>1. evaluate_snapshot(r.snapshot, Rules(r.rules), Rules(r.criteria)) \in Result
  BY EngineResult
<1>2. QED
  BY <1>1 DEF Decide, KeyOf, Command, Answers, Decision, DecisionFor, Key, AnyVersion

\* A row of the table is an answer with a version.
LEMMA DecisionsAreAnswers == Decision \subseteq Answers
BY DEF Decision, Answers, DecisionFor, Key, AnyVersion

\* What c is at, and what is known of it.
LEMMA AtWork ==
    ASSUME IInv, NEW c \in Clients, pc[c] # "idle"
    PROVE  /\ cmd[c] \in Command
           /\ cmd[c].final => StillFinal(cmd[c].rules, cmd[c].policy, cmd[c].criteria, cmd[c].version)
BY DEF IInv, EligibilityInv, TypeOK, ReadingIsFinal

\* The statements of build_snapshot.
LEMMA FactsStep ==
    ASSUME IInv, NEW c \in Clients,
           \/ ReadAcademic(c)
           \/ ReadBacklogs(c) \/ \E b \in Backlogs : ReadBacklog(c, b)
           \/ ReadOffers(c) \/ \E o \in Offers : ReadOffer(c, o)
    PROVE  IInv'
<1>1. pc[c] # "idle"
  BY DEF ReadAcademic, ReadBacklogs, ReadBacklog, ReadOffers, ReadOffer, Read
<1>2. cmd[c] \in Command /\ cmd[c].snapshot \in Snapshot /\ cgpa \in Mark
  BY <1>1, AtWork DEF Command, IInv, EligibilityInv, TypeOK
<1>3. PICK from \in {"academic", "backlogs", "backlog", "offer"}, to \in {"backlogs", "backlog", "offer"},
           s \in Snapshot, left \in SUBSET (Backlogs \cup Offers) :
          Read(c, from, [cmd[c] EXCEPT !.snapshot = s, !.left = left], to)
  <2>1. CASE ReadAcademic(c)
    <3>1. [cmd[c].snapshot EXCEPT !.cgpa = cgpa] \in Snapshot
      BY <1>2 DEF Snapshot
    <3>2. [cmd[c] EXCEPT !.snapshot.cgpa = cgpa] =
              [cmd[c] EXCEPT !.snapshot = [cmd[c].snapshot EXCEPT !.cgpa = cgpa], !.left = cmd[c].left]
      BY <1>2 DEF Command
    <3>3. cmd[c].left \in SUBSET (Backlogs \cup Offers)
      BY <1>2 DEF Command
    <3>4. QED
      BY <2>1, <3>1, <3>2, <3>3 DEF ReadAcademic
  <2>2. ASSUME NEW S \in SUBSET (Backlogs \cup Offers),
               NEW from \in {"academic", "backlogs", "backlog", "offer"}, NEW to \in {"backlogs", "backlog", "offer"},
               Read(c, from, [cmd[c] EXCEPT !.left = S], to)
        PROVE  Read(c, from, [cmd[c] EXCEPT !.snapshot = cmd[c].snapshot, !.left = S], to)
    <3>1. [cmd[c] EXCEPT !.left = S] = [cmd[c] EXCEPT !.snapshot = cmd[c].snapshot, !.left = S]
      BY <1>2 DEF Command
    <3>2. QED
      BY <2>2, <3>1
  <2>3. CASE ReadBacklogs(c)
    BY <1>2, <2>2, <2>3 DEF ReadBacklogs
  <2>4. CASE ReadOffers(c)
    BY <1>2, <2>2, <2>4 DEF ReadOffers
  <2>5. ASSUME NEW b \in Backlogs, ReadBacklog(c, b)
        PROVE  \E s \in Snapshot, left \in SUBSET (Backlogs \cup Offers) :
                  Read(c, "backlog", [cmd[c] EXCEPT !.snapshot = s, !.left = left], "backlog")
    <3>1. [cmd[c].snapshot EXCEPT !.backlogs = @ + One(IsOpen(b))] \in Snapshot
      BY <1>2 DEF Snapshot, One
    <3>2. cmd[c].left \ {b} \in SUBSET (Backlogs \cup Offers)
      BY <1>2 DEF Command
    <3>3. [cmd[c] EXCEPT !.left = @ \ {b}, !.snapshot.backlogs = @ + One(IsOpen(b))] =
              [cmd[c] EXCEPT !.snapshot = [cmd[c].snapshot EXCEPT !.backlogs = @ + One(IsOpen(b))],
                             !.left = cmd[c].left \ {b}]
      BY <1>2 DEF Command
    <3>4. QED
      BY <2>5, <3>1, <3>2, <3>3 DEF ReadBacklog
  <2>6. ASSUME NEW o \in Offers, ReadOffer(c, o)
        PROVE  \E s \in Snapshot, left \in SUBSET (Backlogs \cup Offers) :
                  Read(c, "offer", [cmd[c] EXCEPT !.snapshot = s, !.left = left], "offer")
    <3>1. [cmd[c].snapshot EXCEPT !.offers = @ + One(IsActive(o))] \in Snapshot
      BY <1>2 DEF Snapshot, One
    <3>2. cmd[c].left \ {o} \in SUBSET (Backlogs \cup Offers)
      BY <1>2 DEF Command
    <3>3. [cmd[c] EXCEPT !.left = @ \ {o}, !.snapshot.offers = @ + One(IsActive(o))] =
              [cmd[c] EXCEPT !.snapshot = [cmd[c].snapshot EXCEPT !.offers = @ + One(IsActive(o))],
                             !.left = cmd[c].left \ {o}]
      BY <1>2 DEF Command
    <3>4. QED
      BY <2>6, <3>1, <3>2, <3>3 DEF ReadOffer
  <2>7. QED
    BY <2>1, <2>3, <2>4, <2>5, <2>6
<1> DEFINE r == [cmd[c] EXCEPT !.snapshot = s, !.left = left]
<1>4. /\ r \in Command /\ r.final = cmd[c].final
      /\ r.rules = cmd[c].rules /\ r.criteria = cmd[c].criteria
      /\ r.policy = cmd[c].policy /\ r.version = cmd[c].version
  BY <1>2 DEF Command
<1>5. Read(c, from, r, to)
  BY <1>3
<1> HIDE DEF r
<1>6. QED
  BY <1>1, <1>4, <1>5, AtWork, ReadStep DEF Steps

\* Reading the rules or the criteria finds those of the policy or the version.
LEMMA DefinitionsStep ==
    ASSUME IInv, NEW c \in Clients, ReadRules(c) \/ ReadCriteria(c)
    PROVE  IInv'
<1>1. pc[c] # "idle"
  BY DEF ReadRules, ReadCriteria, Read
<1>2. \A d : ItemsOf(d) \in SUBSET Items
  BY DEF ItemsOf, IInv, EligibilityInv, TypeOK
<1>3. CASE ReadRules(c)
  <2> DEFINE r == [cmd[c] EXCEPT !.rules = ItemsOf(cmd[c].policy)]
  <2>1. /\ r \in Command /\ r.final = cmd[c].final
        /\ r.rules = ItemsOf(cmd[c].policy) /\ r.criteria = cmd[c].criteria
        /\ r.policy = cmd[c].policy /\ r.version = cmd[c].version
    BY <1>1, <1>2, AtWork DEF Command
  <2>2. Read(c, "offer", r, "criteria")
    BY <1>3 DEF ReadRules
  <2> HIDE DEF r
  <2>3. r.final => StillFinal(r.rules, r.policy, r.criteria, r.version)
    BY <1>1, <2>1, AtWork DEF StillFinal, AreFinal
  <2>4. QED
    BY <2>1, <2>2, <2>3, ReadStep DEF Steps
<1>4. CASE ReadCriteria(c)
  <2> DEFINE f == /\ Defs!Final(cmd[c].version)
                  /\ cmd[c].rules = ItemsOf(cmd[c].policy)
                  /\ Defs!Final(cmd[c].policy)
             r == [cmd[c] EXCEPT !.criteria = ItemsOf(cmd[c].version), !.final = f]
  <2>1. f \in BOOLEAN
    OBVIOUS
  <2>2. Read(c, "criteria", r, "lookup")
    BY <1>4 DEF ReadCriteria
  <2>3. f => StillFinal(cmd[c].rules, cmd[c].policy, ItemsOf(cmd[c].version), cmd[c].version)
    BY DEF AreFinal, StillFinal
  <2> HIDE DEF f
  <2>4. /\ r \in Command /\ r.final = f
        /\ r.rules = cmd[c].rules /\ r.criteria = ItemsOf(cmd[c].version)
        /\ r.policy = cmd[c].policy /\ r.version = cmd[c].version
    BY <1>1, <1>2, <2>1, AtWork DEF Command
  <2> HIDE DEF r
  <2>5. QED
    BY <2>2, <2>3, <2>4, ReadStep DEF Steps
<1>5. QED
  BY <1>3, <1>4

\* A reading that ends in the answer a: found, decided or none.
LEMMA AnswerStep ==
    ASSUME IInv, NEW c \in Clients, NEW from \in Steps, NEW to \in Steps, NEW a,
           ReadAnswer(c, from, a, to),
           \/ to = "answered" /\ a \in Found(cmd[c])
           \/ to = "insert" /\ a = Decide(cmd[c])
           \/ to = "reselect" /\ a = Null
           \/ /\ from = "insert" /\ to = "commit" /\ a = cmd[c].answer
              /\ cmd[c].version # NoVersion /\ Found(cmd[c]) = {}
              /\ \A d \in Clients : pc[d] = "commit" => KeyOf(cmd[d]) # KeyOf(cmd[c])
    PROVE  IInv'
<1> DEFINE r == [cmd[c] EXCEPT !.answer = a]
<1>1. pc[c] = from /\ pc[c] # "idle"
  BY DEF ReadAnswer, Read, Steps
<1>2. cmd[c] \in Command
  BY <1>1, AtWork
<1>3. a \in Answers \cup {Null}
  <2>1. Found(cmd[c]) \subseteq Answers
    BY DecisionsAreAnswers DEF Found, IInv, EligibilityInv, TypeOK
  <2>2. Decide(cmd[c]) \in Answers
    BY <1>2, DecideType
  <2>3. cmd[c].answer \in Answers \cup {Null}
    BY <1>2 DEF Command
  <2>4. QED
    BY <2>1, <2>2, <2>3
<1>4. /\ r \in Command /\ r.answer = a /\ r.final = cmd[c].final
      /\ r.rules = cmd[c].rules /\ r.criteria = cmd[c].criteria
      /\ r.policy = cmd[c].policy /\ r.version = cmd[c].version
      /\ KeyOf(r) = KeyOf(cmd[c]) /\ Decide(r) = Decide(cmd[c]) /\ Found(r) = Found(cmd[c])
  BY <1>2, <1>3, WithAnswer
<1>5. Read(c, from, r, to)
  BY DEF ReadAnswer
<1> HIDE DEF r
<1>6. to = "answered" => r.answer \in decisions /\ r.answer.key = KeyOf(r)
  BY <1>4 DEF Found
<1>7. to \in {"insert", "commit"} => r.answer = Decide(r)
  BY <1>1, <1>4 DEF IInv, DecisionsFollow
<1>8. r.final => StillFinal(r.rules, r.policy, r.criteria, r.version)
  BY <1>1, <1>4, AtWork
<1>9. to = "commit" =>
              /\ r.version # NoVersion
              /\ Found(r) = {}
              /\ \A d \in Clients \ {c} : pc[d] = "commit" => KeyOf(cmd[d]) # KeyOf(r)
  BY <1>4
<1>10. QED
  BY <1>4, <1>5, <1>6, <1>7, <1>8, <1>9, ReadStep
\* The commit adds the decision that was inserted.
LEMMA CommitStep ==
    ASSUME IInv, NEW c \in Clients, Commit(c)
    PROVE  IInv'
<1> USE DEF IInv, EligibilityInv, Commit, definitions, facts
<1> DEFINE r == cmd[c]
           d == cmd[c].answer
<1>1. \A b \in Clients : b # c => pc'[b] = pc[b]
  BY DEF TypeOK
<1>2. pc[c] = "commit" /\ pc'[c] = "answered" /\ decisions' = decisions \cup {d}
  BY DEF TypeOK
<1>3. UNCHANGED <<items, entering, frozen, reopened, inForce, cgpa, backlog, offer, changes, cmd>>
  OBVIOUS
<1>4. r \in Command /\ d = Decide(r)
  BY <1>2, AtWork DEF DecisionsFollow
<1>5. r.version # NoVersion /\ Found(r) = {}
  BY <1>2 DEF InsertIsAlone
<1>6. d \in Decision /\ d.key = KeyOf(r)
  BY <1>4, <1>5, DecideType
<1>7. TypeOK'
  BY <1>2, <1>3, <1>6 DEF TypeOK, Steps
<1>8. OneDecisionPerKey'
  <2>1. \A e \in decisions : e.key # d.key
    BY <1>5, <1>6 DEF Found
  <2>2. QED
    BY <1>1, <1>2, <1>3, <1>6, <2>1 DEF OneDecisionPerKey
<1>9. ReadingIsFinal'
  <2>1. /\ d.rules = r.rules /\ d.criteria = r.criteria /\ d.final = r.final
        /\ d.key.policy = r.policy /\ d.key.version = r.version
    BY <1>4 DEF Decide, KeyOf
  <2>2. d.final => StillFinal(d.rules, d.key.policy, d.criteria, d.key.version)
    BY <1>2, <2>1, AtWork
  <2> HIDE DEF d, r
  <2>3. QED
    BY <1>1, <1>2, <1>3, <2>2 DEF ReadingIsFinal, StillFinal, AreFinal, Defs!Final, ItemsOf
<1>10. DecisionsFollow'
  <2>1. d.result = evaluate_snapshot(d.key.snapshot, Rules(d.rules), Rules(d.criteria))
    BY <1>4 DEF Decide, KeyOf
  <2> HIDE DEF d
  <2>2. QED
    BY <1>1, <1>2, <1>3, <2>1 DEF DecisionsFollow
<1>11. InsertIsAlone'
  <2>1. \A b \in Clients : b # c /\ pc[b] = "commit" => KeyOf(cmd[b]) # d.key
    BY <1>2, <1>6 DEF InsertIsAlone
  <2> HIDE DEF d
  <2>2. QED
    BY <1>1, <1>2, <1>3, <2>1 DEF InsertIsAlone, Found
<1>12. QED
  BY <1>7, <1>8, <1>9, <1>10, <1>11
-----------------------------------------------------------------------------
\* Events of the student and days that pass leave what evaluations have read.
LEMMA FactsChange ==
    ASSUME IInv,
           \/ \E x \in Mark : AppendRecord(x)
           \/ \E b \in Backlogs, kind \in BacklogKinds : AppendBacklogEvent(b, kind)
           \/ \E o \in Offers, kind \in OfferKinds : AppendOfferEvent(o, kind)
           \/ \E p \in Policies \cup {Null} : ChangePolicy(p)
    PROVE  IInv'
<1> USE DEF IInv, EligibilityInv, definitions, facts
<1>1. UNCHANGED <<items, entering, frozen, reopened, decisions, pc, cmd>>
  BY DEF AppendRecord, AppendBacklogEvent, AppendOfferEvent, ChangePolicy, Change
<1>2. changes' \in 0 .. MaxChanges
  BY EligibilityAssumption DEF TypeOK, AppendRecord, AppendBacklogEvent, AppendOfferEvent, ChangePolicy, Change
<1>3. /\ cgpa' \in Mark /\ inForce' \in (frozen \cap Policies) \cup {Null}
      /\ backlog' \in [Backlogs -> BacklogKinds \cup {"NONE"}]
      /\ offer' \in [Offers -> OfferKinds \cup {"NONE"}]
  BY DEF TypeOK, AppendRecord, AppendBacklogEvent, AppendOfferEvent, ChangePolicy, Change
<1>4. TypeOK'
  BY <1>1, <1>2, <1>3 DEF TypeOK
<1>5. QED
  BY <1>1, <1>4 DEF OneDecisionPerKey, ReadingIsFinal, StillFinal, AreFinal, Defs!Final, ItemsOf, DecisionsFollow,
     InsertIsAlone, Found

\* Definitions: what is final stays as it is, unless it is a policy version that is open again.
LEMMA FinalStays ==
    ASSUME TypeOK, EditDefinitions, NEW S, NEW d, AreFinal(S, d)
    PROVE  AreFinal(S, d)' \/ (d \in Policies /\ d \in reopened')
<1> USE DEF EditDefinitions, AreFinal, Defs!Final, ItemsOf
<1>1. ASSUME NEW i \in Items, Defs!SetOut(i)
      PROVE  AreFinal(S, d)'
  BY <1>1 DEF Defs!SetOut
<1>2. ASSUME NEW i \in Items, Defs!Arrive(i)
      PROVE  AreFinal(S, d)'
  BY <1>2 DEF Defs!Arrive
<1>3. ASSUME NEW i \in Items, Defs!TurnBack(i)
      PROVE  AreFinal(S, d)'
  BY <1>3 DEF Defs!TurnBack
<1>4. ASSUME NEW e, Defs!Freeze(e)
      PROVE  AreFinal(S, d)'
  BY <1>4 DEF Defs!Freeze
<1>5. ASSUME NEW e, Defs!Reopen(e)
      PROVE  AreFinal(S, d)' \/ (d \in Policies /\ d \in reopened')
  <2>1. CASE d = e
    BY <1>5, <2>1 DEF Defs!Reopen
  <2>2. CASE d # e
    BY <1>5, <2>2 DEF Defs!Reopen
  <2>3. QED
    BY <2>1, <2>2
<1>6. QED
  BY <1>1, <1>2, <1>3, <1>4, <1>5 DEF Defs!Next

\* Definitions: what was final when it was read still is.
LEMMA StillFinalStays ==
    ASSUME TypeOK, EditDefinitions, NEW rules, NEW policy, NEW criteria, NEW version \in AnyVersion,
           StillFinal(rules, policy, criteria, version)
    PROVE  StillFinal(rules, policy, criteria, version)'
<1>1. reopened \subseteq reopened'
  BY DEF EditDefinitions
<1>2. version \notin Policies
  BY EligibilityAssumption DEF AnyVersion
<1>3. AreFinal(criteria, version)'
  BY <1>2, FinalStays DEF StillFinal
<1>4. policy \notin reopened' => AreFinal(rules, policy)'
  BY <1>1, FinalStays DEF StillFinal
<1>5. QED
  BY <1>3, <1>4 DEF StillFinal

\* Rules and criteria that are final stay as they are while others are edited.
LEMMA EditStep ==
    ASSUME IInv, EditDefinitions
    PROVE  IInv'
<1> USE DEF IInv, EligibilityInv
<1>1. UNCHANGED <<cgpa, backlog, offer, changes, decisions, pc, cmd>>
  BY DEF EditDefinitions, facts
<1>2. items' \in SUBSET Items /\ entering' \in SUBSET Items
  BY DEF TypeOK, EditDefinitions, Defs!Next, Defs!SetOut, Defs!Arrive, Defs!TurnBack, Defs!Freeze, Defs!Reopen
<1>3. /\ frozen' \in SUBSET (Policies \cup Versions)
      /\ frozen \ frozen' \subseteq Policies
  BY EligibilityAssumption DEF TypeOK, EditDefinitions, Defs!Next, Defs!SetOut, Defs!Arrive, Defs!TurnBack, Defs!Freeze, Defs!Reopen
<1>4. reopened' \in SUBSET Policies
  BY <1>3 DEF TypeOK, EditDefinitions
<1>5. inForce' \in (frozen' \cap Policies) \cup {Null}
  BY EligibilityAssumption DEF TypeOK, EditDefinitions
<1>6. TypeOK'
  BY <1>1, <1>2, <1>3, <1>4, <1>5 DEF TypeOK
<1>7. ReadingIsFinal'
  <2>1. ASSUME NEW c \in Clients, pc[c] # "idle", cmd[c].final
        PROVE  StillFinal(cmd[c].rules, cmd[c].policy, cmd[c].criteria, cmd[c].version)'
    <3>1. PICK x : x = cmd[c]
      OBVIOUS
    <3>2. x \in Command /\ StillFinal(x.rules, x.policy, x.criteria, x.version)
      BY <2>1, <3>1, AtWork
    <3>3. StillFinal(x.rules, x.policy, x.criteria, x.version)'
      BY <3>2, StillFinalStays DEF Command
    <3>4. QED
      BY <1>1, <3>1, <3>3
  <2>2. ASSUME NEW d \in decisions, d.final
        PROVE  StillFinal(d.rules, d.key.policy, d.criteria, d.key.version)'
    <3>1. StillFinal(d.rules, d.key.policy, d.criteria, d.key.version)
      BY <2>2 DEF ReadingIsFinal
    <3>2. d.key.version \in AnyVersion
      BY DEF TypeOK, Decision, DecisionFor, Key, AnyVersion
    <3>3. QED
      BY <3>1, <3>2, StillFinalStays
  <2>3. QED
    BY <1>1, <2>1, <2>2 DEF ReadingIsFinal
<1>8. QED
  BY <1>1, <1>6, <1>7 DEF OneDecisionPerKey, DecisionsFollow, InsertIsAlone, Found
-----------------------------------------------------------------------------
\* The invariant holds before the first decision, whatever the CGPA.
LEMMA InitIInv == Init => IInv
BY EligibilityAssumption, CommandAssumption DEF Init, IInv, EligibilityInv, TypeOK, OneDecisionPerKey, ReadingIsFinal, DecisionsFollow,
   InsertIsAlone, Mark

\* Every step keeps the invariant.
LEMMA StepIInv == IInv /\ [Next]_vars => IInv'
<1> SUFFICES ASSUME IInv, [Next]_vars PROVE IInv'
  OBVIOUS
<1>1. ASSUME NEW c \in Clients, Lookup(c)
      PROVE  IInv'
  BY <1>1, AnswerStep DEF Lookup, Steps
<1>2. ASSUME NEW c \in Clients, Insert(c)
      PROVE  IInv'
  BY <1>2, AnswerStep DEF Insert, Steps
<1>3. ASSUME NEW c \in Clients, Reselect(c)
      PROVE  IInv'
  BY <1>3, AnswerStep, EndStep DEF Reselect, Steps
<1>4. ASSUME NEW c \in Clients, Answer(c) \/ Abort(c)
      PROVE  IInv'
  BY <1>4, EndStep DEF Answer, Abort
<1>5. ASSUME NEW c \in Clients, Step(c)
      PROVE  IInv'
  BY <1>1, <1>2, <1>3, <1>4, <1>5, FactsStep, DefinitionsStep, CommitStep DEF Step
<1>6. CASE UNCHANGED vars
  BY <1>6 DEF vars, definitions, facts, IInv, EligibilityInv, TypeOK, OneDecisionPerKey, ReadingIsFinal, StillFinal, AreFinal,
     Defs!Final, ItemsOf, DecisionsFollow, InsertIsAlone, Found
<1>7. QED
  BY <1>4, <1>5, <1>6, EvaluateStep, FactsChange, EditStep DEF Next

\* The invariant behind the theorems below.
THEOREM Inductive == Spec => []IInv
BY InitIInv, StepIInv, PTL DEF Spec

\* EligibilityService.evaluate: however evaluations race, there is one decision for an
\* evaluation key, and every answer is that row.
THEOREM OneDecision == Spec => []EligibilityInv
<1>1. IInv => EligibilityInv
  BY DEF IInv
<1>2. QED
  BY Inductive, <1>1, PTL

\* The recorded decision of an evaluation on final definitions can be computed again from
\* what is recorded, at any later time until the policy version is open again.
THEOREM Replay == Spec => []ReplayAgrees
<1>1. IInv => ReplayAgrees
  BY DEF IInv, ReplayAgrees, ReadingIsFinal, StillFinal, AreFinal, DecisionsFollow
<1>2. QED
  BY Inductive, <1>1, PTL

\* The engine: a decision that was taken without a CGPA is the decision for any CGPA.
THEOREM UnknownNeverDecides == Spec => []MissingFactsDecideNothing
<1>1. ASSUME IInv, NEW d \in decisions, d.key.snapshot.cgpa = Null, d.result # "UNKNOWN", NEW x \in Marks
      PROVE  d.result = evaluate_snapshot([d.key.snapshot EXCEPT !.cgpa = x], Rules(d.rules), Rules(d.criteria))
  <2>1. d.key.snapshot \in Snapshot
    BY <1>1 DEF IInv, EligibilityInv, TypeOK, Decision, DecisionFor, Key
  <2>2. d.result = evaluate_snapshot(d.key.snapshot, Rules(d.rules), Rules(d.criteria))
    BY <1>1 DEF IInv, DecisionsFollow
  <2>3. QED
    BY <1>1, <2>1, <2>2, SnapshotWithoutFact
<1>2. IInv => MissingFactsDecideNothing
  BY <1>1 DEF MissingFactsDecideNothing
<1>3. QED
  BY Inductive, <1>2, PTL
=============================================================================
