---------------------------- MODULE Eligibility ----------------------------
(***************************************************************************)
(* EligibilityService.evaluate: a snapshot of a student's facts, the rules *)
(* of the policy in force and the criteria of a requirement version, read  *)
(* by one statement after another while all of them change; the decision   *)
(* is recorded once per evaluation key.                                    *)
(*                                                                         *)
(* The surroundings are what their own specifications promise: definitions *)
(* get items and are frozen as in Definitions, which PolicyLifecycle and   *)
(* Recruitment implement; policy versions, but no requirement versions,    *)
(* may be open again later.  At most one policy version is in force, as in *)
(* PolicyCalendar, and it is ACTIVE and therefore frozen.  Histories of    *)
(* the student are append-only; the latest event of each is kept here.     *)
(* One student and one opportunity, which exist: both are part of the key. *)
(***************************************************************************)
EXTENDS Evaluator, FiniteSets

CONSTANTS
    Clients,       \* concurrent evaluations
    Policies,      \* policy versions
    Versions,      \* requirement versions
    NoVersion,     \* the id of no requirement version
    Items,         \* ids of policy rules and requirement criteria
    Parent,        \* Parent[i]: the definition item i belongs to
    Ready,         \* the definitions that are final from the start
    RuleOf,        \* RuleOf[i]: the rule or criterion it is
    Marks,         \* values of a known CGPA
    Backlogs,
    Offers,
    BacklogKinds,  \* the kinds of backlog events that occur
    OfferKinds,    \* the kinds of offer events that occur
    MaxDecisions,  \* bound: no new evaluation beyond it
    MaxChanges     \* bound on the events of the student

BacklogKind == {"OPENED", "CLEARED", "CORRECTED"}
OfferKind == {"RECEIVED", "ACCEPTED", "REJECTED", "REVOKED", "WITHDRAWN", "EXPIRED",
              "TERMS_REVISED", "CORRECTED"}
ASSUME EligibilityAssumption ==
    /\ NoVersion \notin Policies \cup Versions
    /\ Policies \cap Versions = {}
    /\ Parent \in [Items -> Policies \cup Versions]
    /\ Ready \subseteq Policies \cup Versions
    /\ Null \notin Marks \cup Policies \cup Versions
    /\ BacklogKinds \subseteq BacklogKind /\ OfferKinds \subseteq OfferKind
    /\ MaxDecisions \in Nat /\ MaxChanges \in Nat

VARIABLES
    items, entering, frozen,   \* of Definitions
    reopened,    \* the policy versions that have been open again since
    inForce,     \* the policy version in force, or Null
    cgpa,        \* the CGPA of the latest academic record, Null unless it is KNOWN
    backlog,     \* the kind of each backlog's latest event
    offer,       \* the kind of each offer's latest event
    changes,     \* the changes so far
    decisions,   \* eligibility_decisions
    pc, cmd      \* where each evaluation is, and what it has read

definitions == <<items, entering, frozen, reopened>>
facts == <<cgpa, backlog, offer>>
vars == <<definitions, inForce, facts, changes, decisions, pc, cmd>>

Defs == INSTANCE Definitions WITH Reopenable <- Policies

\* The CGPA of a record: there if its state is KNOWN, and only then.
Mark == Marks \cup {Null}

Snapshot == [cgpa : Mark, backlogs : Nat, offers : Nat]

\* evaluation_key: what a decision is looked up by.  Rules and criteria are not in it.
Key == [snapshot : Snapshot, policy : Policies, version : Versions]

Result == {"ELIGIBLE", "NOT_ELIGIBLE", "UNKNOWN"}

\* reasons has the rules and criteria that were evaluated.  final is not recorded: it
\* says that they were final when they were read.
DecisionFor(keys) == [key : keys, result : Result,
                      rules : SUBSET Items, criteria : SUBSET Items, final : BOOLEAN]
Decision == DecisionFor(Key)

\* What a request has read, and its answer; until it is inserted, the version asked for
\* may be none.
AnyVersion == Versions \cup {NoVersion}
Answers == DecisionFor([snapshot : Snapshot, policy : Policies, version : AnyVersion])
\* left has the backlogs or offers whose latest events are still to be read.
Command == [version : AnyVersion, policy : Policies, snapshot : Snapshot,
            left : SUBSET (Backlogs \cup Offers),
            rules : SUBSET Items, criteria : SUBSET Items, final : BOOLEAN,
            answer : Answers \cup {Null}]
ASSUME CommandAssumption == Null \notin Command \cup Answers

Steps == {"academic", "backlogs", "backlog", "offer", "criteria", "lookup",
          "insert", "commit", "reselect", "answered"}

TypeOK ==
    /\ items \in SUBSET Items /\ entering \in SUBSET Items
    /\ frozen \in SUBSET (Policies \cup Versions)
    /\ reopened \in SUBSET Policies
    /\ inForce \in (frozen \cap Policies) \cup {Null}
    /\ cgpa \in Mark
    /\ backlog \in [Backlogs -> BacklogKinds \cup {"NONE"}]
    /\ offer \in [Offers -> OfferKinds \cup {"NONE"}]
    /\ changes \in 0 .. MaxChanges
    /\ decisions \subseteq Decision
    /\ pc \in [Clients -> Steps \cup {"idle"}]
    /\ cmd \in [Clients -> Command \cup {Null}]
    /\ \A c \in Clients : pc[c] = "idle" <=> cmd[c] = Null

Init ==
    /\ items = {i \in Items : Parent[i] \in Ready}
    /\ entering = {}
    /\ frozen = Ready
    /\ reopened = {}
    /\ inForce = Null
    /\ cgpa \in Mark
    /\ backlog = [b \in Backlogs |-> "NONE"]
    /\ offer = [o \in Offers |-> "NONE"]
    /\ changes = 0
    /\ decisions = {}
    /\ pc = [c \in Clients |-> "idle"]
    /\ cmd = [c \in Clients |-> Null]
-----------------------------------------------------------------------------
ItemsOf(d) == {i \in items : Parent[i] = d}
Rules(S) == {RuleOf[i] : i \in S}

\* c goes on, with the command as what it has read makes it.
Read(c, from, command, to) ==
    /\ pc[c] = from
    /\ pc' = [pc EXCEPT ![c] = to]
    /\ cmd' = [cmd EXCEPT ![c] = command]
    /\ UNCHANGED <<definitions, inForce, facts, changes, decisions>>

ReadAnswer(c, from, decision, to) == Read(c, from, [cmd[c] EXCEPT !.answer = decision], to)

End(c) ==
    /\ pc' = [pc EXCEPT ![c] = "idle"]
    /\ cmd' = [cmd EXCEPT ![c] = Null]
    /\ UNCHANGED <<definitions, inForce, facts, changes, decisions>>

\* _get_active_policy: the ACTIVE one in force at the evaluation time; without one there
\* is no evaluation.
Evaluate(c, v) ==
    /\ pc[c] = "idle"
    /\ inForce # Null
    /\ Cardinality(decisions) < MaxDecisions
    /\ pc' = [pc EXCEPT ![c] = "academic"]
    /\ cmd' = [cmd EXCEPT ![c] =
          [version |-> v, policy |-> inForce, rules |-> {}, criteria |-> {}, final |-> FALSE,
           left |-> {}, snapshot |-> [cgpa |-> Null, backlogs |-> 0, offers |-> 0], answer |-> Null]]
    /\ UNCHANGED <<definitions, inForce, facts, changes, decisions>>

\* build_snapshot
ReadAcademic(c) ==
    Read(c, "academic", [cmd[c] EXCEPT !.snapshot.cgpa = cgpa], "backlogs")

\* One statement finds the backlogs, and then there is one for the latest event of each.
ReadBacklogs(c) ==
    Read(c, "backlogs", [cmd[c] EXCEPT !.left = {b \in Backlogs : backlog[b] # "NONE"}], "backlog")

One(condition) == IF condition THEN 1 ELSE 0

IsOpen(b) == backlog[b] = "OPENED"
ReadBacklog(c, b) ==
    /\ pc[c] = "backlog" /\ b \in cmd[c].left
    /\ Read(c, "backlog",
            [cmd[c] EXCEPT !.left = @ \ {b}, !.snapshot.backlogs = @ + One(IsOpen(b))], "backlog")

ReadOffers(c) ==
    /\ pc[c] = "backlog" /\ cmd[c].left = {}
    /\ Read(c, "backlog", [cmd[c] EXCEPT !.left = {o \in Offers : offer[o] # "NONE"}], "offer")

IsActive(o) == offer[o] \in {"RECEIVED", "ACCEPTED", "TERMS_REVISED"}
ReadOffer(c, o) ==
    /\ pc[c] = "offer" /\ o \in cmd[c].left
    /\ Read(c, "offer",
            [cmd[c] EXCEPT !.left = @ \ {o}, !.snapshot.offers = @ + One(IsActive(o))], "offer")

ReadRules(c) ==
    /\ pc[c] = "offer" /\ cmd[c].left = {}
    /\ Read(c, "offer", [cmd[c] EXCEPT !.rules = ItemsOf(cmd[c].policy)], "criteria")

ReadCriteria(c) ==
    Read(c, "criteria",
         [cmd[c] EXCEPT !.criteria = ItemsOf(cmd[c].version),
                        !.final = /\ Defs!Final(cmd[c].version)
                                  /\ cmd[c].rules = ItemsOf(cmd[c].policy)
                                  /\ Defs!Final(cmd[c].policy)],
         "lookup")
-----------------------------------------------------------------------------
KeyOf(r) == [snapshot |-> r.snapshot, policy |-> r.policy, version |-> r.version]

\* Mutant of Decide: decided on the facts of now, recorded with the snapshot.
DecideOnPresent(r) ==
    [key |-> KeyOf(r), rules |-> r.rules, criteria |-> r.criteria, final |-> r.final,
     result |-> evaluate_snapshot(
        [cgpa |-> cgpa, backlogs |-> Cardinality({b \in Backlogs : IsOpen(b)}),
                        offers |-> Cardinality({o \in Offers : IsActive(o)})],
        Rules(r.rules), Rules(r.criteria))]

Decide(r) ==
    [key |-> KeyOf(r), rules |-> r.rules, criteria |-> r.criteria, final |-> r.final,
     result |-> evaluate_snapshot(r.snapshot, Rules(r.rules), Rules(r.criteria))]

Found(r) == {d \in decisions : d.key = KeyOf(r)}

\* The idempotency check: a decision with the key is the answer.
Lookup(c) ==
    /\ pc[c] = "lookup"
    /\ \/ \E d \in Found(cmd[c]) : ReadAnswer(c, "lookup", d, "answered")
       \/ Found(cmd[c]) = {} /\ ReadAnswer(c, "lookup", Decide(cmd[c]), "insert")

\* Mutant of Insert: evaluation keys are not unique.
InsertAny(c) == ReadAnswer(c, "insert", cmd[c].answer, "commit")

\* The insert waits for an uncommitted decision with the key.  A committed one, or a
\* requirement version that does not exist, is an IntegrityError.
Insert(c) ==
    /\ pc[c] = "insert"
    /\ \A d \in Clients : pc[d] = "commit" => KeyOf(cmd[d]) # KeyOf(cmd[c])
    /\ IF Found(cmd[c]) = {} /\ cmd[c].version # NoVersion
       THEN ReadAnswer(c, "insert", cmd[c].answer, "commit")
       ELSE ReadAnswer(c, "insert", Null, "reselect")

Commit(c) ==
    /\ pc[c] = "commit"
    /\ pc' = [pc EXCEPT ![c] = "answered"]
    /\ decisions' = decisions \cup {cmd[c].answer}
    /\ UNCHANGED <<definitions, inForce, facts, changes, cmd>>

\* Mutant of Reselect: without the row, the insert is tried again.
ReselectForever(c) ==
    /\ pc[c] = "reselect"
    /\ \/ \E d \in Found(cmd[c]) : ReadAnswer(c, "reselect", d, "answered")
       \/ Found(cmd[c]) = {} /\ ReadAnswer(c, "reselect", Decide(cmd[c]), "insert")

\* After the rollback: the decision that was in the way, or INTERNAL_ERROR.
Reselect(c) ==
    /\ pc[c] = "reselect"
    /\ \/ \E d \in Found(cmd[c]) : ReadAnswer(c, "reselect", d, "answered")
       \/ Found(cmd[c]) = {} /\ End(c)

Answer(c) == pc[c] = "answered" /\ End(c)

\* The transaction is rolled back before its commit: an error, a lost connection.
Abort(c) == pc[c] \notin {"idle", "answered"} /\ End(c)
-----------------------------------------------------------------------------
Change ==
    /\ changes < MaxChanges
    /\ changes' = changes + 1
    /\ UNCHANGED <<definitions, decisions, pc, cmd>>

AppendRecord(x) == Change /\ cgpa' = x /\ UNCHANGED <<inForce, backlog, offer>>

AppendBacklogEvent(b, kind) ==
    /\ Change
    /\ backlog' = [backlog EXCEPT ![b] = kind]
    /\ UNCHANGED <<inForce, cgpa, offer>>

AppendOfferEvent(o, kind) ==
    /\ Change
    /\ offer' = [offer EXCEPT ![o] = kind]
    /\ UNCHANGED <<inForce, cgpa, backlog>>

\* The day comes on which another policy, or none, is in force; or one is archived.
ChangePolicy(p) ==
    /\ p \in (frozen \cap Policies) \cup {Null}
    /\ inForce' = p
    /\ UNCHANGED <<definitions, facts, changes, decisions, pc, cmd>>

\* A rule, a criterion or a status changes.  A version that is not ACTIVE any more is
\* not in force.
EditDefinitions ==
    /\ Defs!Next
    /\ reopened' = reopened \cup (frozen \ frozen')
    /\ inForce' = IF inForce \in frozen' THEN inForce ELSE Null
    /\ UNCHANGED <<facts, changes, decisions, pc, cmd>>

Step(c) ==
    \/ ReadAcademic(c)
    \/ ReadBacklogs(c)
    \/ \E b \in Backlogs : ReadBacklog(c, b)
    \/ ReadOffers(c)
    \/ \E o \in Offers : ReadOffer(c, o)
    \/ ReadRules(c)
    \/ ReadCriteria(c)
    \/ Lookup(c)
    \/ Insert(c)
    \/ Commit(c)
    \/ Reselect(c)
    \/ Answer(c)

Next ==
    \/ \E c \in Clients :
          \/ \E v \in AnyVersion : Evaluate(c, v)
          \/ Step(c)
          \/ Abort(c)
    \/ \E x \in Mark : AppendRecord(x)
    \/ \E b \in Backlogs, kind \in BacklogKinds : AppendBacklogEvent(b, kind)
    \/ \E o \in Offers, kind \in OfferKinds : AppendOfferEvent(o, kind)
    \/ \E p \in Policies \cup {Null} : ChangePolicy(p)
    \/ EditDefinitions

Spec == Init /\ [][Next]_vars

\* A request goes on; the insert that another one's end releases is not overtaken for ever.
Fairness == \A c \in Clients : SF_vars(Step(c))
FairSpec == Spec /\ Fairness
-----------------------------------------------------------------------------
\* However evaluations race, a key has one decision, and everyone who asks is answered
\* with that row, committed, for what was asked.
OneDecisionPerKey ==
    /\ \A d, e \in decisions : d.key = e.key => d = e
    /\ \A c \in Clients : pc[c] = "answered" =>
          cmd[c].answer \in decisions /\ cmd[c].answer.key = KeyOf(cmd[c])

\* Decisions are well-formed, made under some policy, and one per key.
EligibilityInv == TypeOK /\ OneDecisionPerKey

\* eligibility-contract: a replay with the recorded snapshot and the definitions gives
\* the recorded decision, whatever was committed in between, provided the definitions
\* were final when they were read, and as long as the policy version has not been open
\* again: while it is, rules may be added to it.
ReplayAgrees ==
    \A d \in decisions : d.final /\ d.key.policy \notin reopened =>
        d.result = evaluate_snapshot(d.key.snapshot, Rules(ItemsOf(d.key.policy)),
                                     Rules(ItemsOf(d.key.version)))

\* A decision without a fact does not depend on it: whatever the CGPA turns out to be,
\* ELIGIBLE and NOT_ELIGIBLE stand.
MissingFactsDecideNothing ==
    \A d \in decisions : d.key.snapshot.cgpa = Null /\ d.result # "UNKNOWN" =>
        \A x \in Marks :
            d.result = evaluate_snapshot([d.key.snapshot EXCEPT !.cgpa = x],
                                         Rules(d.rules), Rules(d.criteria))

\* Every evaluation ends: it does not wait for ever, nor try for ever.
EveryEvaluationEnds == \A c \in Clients : pc[c] # "idle" ~> pc[c] = "idle"
-----------------------------------------------------------------------------
\* S is all that definition d has and will ever have.
AreFinal(S, d) == Defs!Final(d) /\ S = ItemsOf(d)

\* Rules and criteria that were final when they were read still are.
StillFinal(rules, policy, criteria, version) ==
    /\ policy \notin reopened => AreFinal(rules, policy)
    /\ AreFinal(criteria, version)

ReadingIsFinal ==
    /\ \A c \in Clients : pc[c] # "idle" /\ cmd[c].final =>
          StillFinal(cmd[c].rules, cmd[c].policy, cmd[c].criteria, cmd[c].version)
    /\ \A d \in decisions : d.final =>
          StillFinal(d.rules, d.key.policy, d.criteria, d.key.version)

\* A decision is recorded or going to be with what it follows from.
DecisionsFollow ==
    /\ \A d \in decisions :
          d.result = evaluate_snapshot(d.key.snapshot, Rules(d.rules), Rules(d.criteria))
    /\ \A c \in Clients : pc[c] \in {"insert", "commit"} => cmd[c].answer = Decide(cmd[c])

\* An inserted decision is the only one with its key, committed or not.
InsertIsAlone ==
    \A c \in Clients : pc[c] = "commit" =>
        /\ cmd[c].version # NoVersion
        /\ Found(cmd[c]) = {}
        /\ \A d \in Clients \ {c} : pc[d] = "commit" => KeyOf(cmd[d]) # KeyOf(cmd[c])

\* The inductive invariant.
IInv == EligibilityInv /\ ReadingIsFinal /\ DecisionsFollow /\ InsertIsAlone
=============================================================================
