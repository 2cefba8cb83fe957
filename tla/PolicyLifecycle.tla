-------------------------- MODULE PolicyLifecycle --------------------------
(***************************************************************************)
(* PolicyService: the creation of policy versions and rules, and the       *)
(* lifecycle DRAFT, PROCESSING, REVIEW, APPROVED, ACTIVE, ARCHIVED, with   *)
(* the constraints and triggers of the policy tables.                      *)
(*                                                                         *)
(* Each request is a READ COMMITTED transaction that its caller commits.   *)
(* A transition reads the status without a lock; its UPDATE of the version *)
(* row waits for another one's and then applies whatever that one wrote.   *)
(* The variables hold what is committed; what a client has written and not *)
(* committed follows from its pc and cmd.                                  *)
(*                                                                         *)
(* One academic year and one scope: activations of others never conflict.  *)
(***************************************************************************)
EXTENDS Naturals

CONSTANTS
    Clients,    \* concurrent requests
    Versions,   \* ids of policy versions
    Policies,
    PolicyOf,   \* PolicyOf[v]: the policy a version is created for
    Codes,      \* rule codes
    Days,       \* the days of the academic year, an initial segment of 1, 2, ...
    Never,      \* the end of an activation without one: later than any day
    Nothing,    \* no argument, no request
    MaxEvents   \* bound on the events of a version: no request once it is reached

ASSUME PolicyAssumption ==
    /\ PolicyOf \in [Versions -> Policies]
    /\ Days \subseteq Nat
    /\ Never \in Nat /\ \A d \in Days : d < Never
    /\ Nothing \notin [from : Nat, until : Nat]
    /\ Codes # {}
    /\ MaxEvents \in Nat

VARIABLES
    status,       \* status of a version, NONE before it exists
    number,       \* its version number within its policy, 0 before it exists
    events,       \* lifecycle events: [version, number, status]
    rules,        \* rules: <<version, code>>
    activations,  \* [version, days]
    pc,           \* where each client is in its request
    cmd           \* its request, with what it has read so far

tables == <<status, number, events, rules, activations>>
vars == <<status, number, events, rules, activations, pc, cmd>>

Status == {"DRAFT", "PROCESSING", "REVIEW", "APPROVED", "ACTIVE", "ARCHIVED"}
Rule == Versions \X Codes
Event == [version : Versions, number : Nat \ {0}, status : Status]

\* The half-open intervals of interval_bounds; Never stands for ends_at IS NULL.
Interval == {i \in [from : Days, until : Days \cup {Never}] : i.from < i.until}
Activation == [version : Versions, days : Interval]

\* What a request asks for: a new version (target DRAFT), a rule (target RULE)
\* or a transition; number is the version or event number it is going to write,
\* arg the code of the rule or the days of the activation.
Request == [version : Versions, target : Status \cup {"RULE"}, number : Nat,
            arg : Codes \cup Interval \cup {Nothing}]

Steps == {"idle", "insertVersion", "insertRule", "admitted", "update", "record",
          "activate", "close", "commit"}

TypeOK ==
    /\ status \in [Versions -> Status \cup {"NONE"}]
    /\ number \in [Versions -> Nat]
    /\ events \subseteq Event
    /\ rules \subseteq Rule
    /\ activations \subseteq Activation
    /\ pc \in [Clients -> Steps]
    /\ cmd \in [Clients -> Request \cup {Nothing}]

Init ==
    /\ status = [v \in Versions |-> "NONE"]
    /\ number = [v \in Versions |-> 0]
    /\ events = {}
    /\ rules = {}
    /\ activations = {}
    /\ pc = [c \in Clients |-> "idle"]
    /\ cmd = [c \in Clients |-> Nothing]
-----------------------------------------------------------------------------
\* Mutant of Transition: a version may be activated out of its review.
TransitionOutOfReview(from, to) ==
    <<from, to>> \in {<<"DRAFT", "PROCESSING">>, <<"PROCESSING", "REVIEW">>,
                      <<"REVIEW", "APPROVED">>, <<"REVIEW", "ACTIVE">>,
                      <<"APPROVED", "ACTIVE">>, <<"ACTIVE", "ARCHIVED">>}

\* valid_transitions
Transition(from, to) ==
    <<from, to>> \in {<<"DRAFT", "PROCESSING">>, <<"PROCESSING", "REVIEW">>,
                      <<"REVIEW", "APPROVED">>, <<"APPROVED", "ACTIVE">>,
                      <<"ACTIVE", "ARCHIVED">>}

Goto(c, from, to) ==
    /\ pc[c] = from
    /\ pc' = [pc EXCEPT ![c] = to]

\* The request of c has passed its checks and goes on at step.
Send(c, step, v, target, n, arg) ==
    /\ Goto(c, "idle", step)
    /\ cmd' = [cmd EXCEPT ![c] = [version |-> v, target |-> target, number |-> n, arg |-> arg]]
    /\ UNCHANGED tables

End(c) ==
    /\ pc' = [pc EXCEPT ![c] = "idle"]
    /\ cmd' = [cmd EXCEPT ![c] = Nothing]

\* The request fails: an HTTPException, or an IntegrityError (409).  Its
\* transaction has no effect.
Refuse(c) ==
    /\ End(c)
    /\ UNCHANGED tables

Pass(c, from, to) ==
    /\ Goto(c, from, to)
    /\ UNCHANGED <<tables, cmd>>

\* c has inserted what target stands for, and not committed.
Inserted(c, target) == pc[c] = "commit" /\ cmd[c].target = target

IsTransition(r) == r.target \notin {"DRAFT", "RULE"}

\* c has an uncommitted UPDATE of the row of version v.
Updating(c, v) ==
    /\ pc[c] \in {"record", "activate", "close", "commit"}
    /\ cmd[c].version = v /\ IsTransition(cmd[c])

EventNumbers(v) == {e.number : e \in {x \in events : x.version = v}}
VersionNumbers(p) == {number[v] : v \in {u \in Versions : PolicyOf[u] = p}} \cup {0}

IsGreatest(n, S) == n \in S /\ \A m \in S : m <= n
-----------------------------------------------------------------------------
\* create_policy_version: a new row, with the number after the committed ones.
CreateVersion(c, v) ==
    /\ status[v] = "NONE"
    /\ \A d \in Clients : pc[d] \in {"insertVersion", "commit"} => cmd[d].version # v
    /\ \E n \in VersionNumbers(PolicyOf[v]) :
          /\ IsGreatest(n, VersionNumbers(PolicyOf[v]))
          /\ Send(c, "insertVersion", v, "DRAFT", n + 1, Nothing)

SameNumber(c, d) ==
    /\ PolicyOf[cmd[d].version] = PolicyOf[cmd[c].version]
    /\ cmd[d].number = cmd[c].number

\* Mutant of InsertVersion: version numbers are not unique.
InsertAnyVersion(c) == Pass(c, "insertVersion", "commit")

\* The insert waits for an uncommitted version with the same policy and number,
\* and fails on a committed one.  The CREATED event of the new row is number 1.
InsertVersion(c) ==
    /\ pc[c] = "insertVersion"
    /\ \A d \in Clients : ~(Inserted(d, "DRAFT") /\ SameNumber(c, d))
    /\ \/ /\ cmd[c].number \notin VersionNumbers(PolicyOf[cmd[c].version])
          /\ Pass(c, "insertVersion", "commit")
       \/ /\ cmd[c].number \in VersionNumbers(PolicyOf[cmd[c].version])
          /\ Refuse(c)

CommitVersion(c) ==
    LET r == cmd[c] IN
    /\ pc[c] = "commit"
    /\ r.target = "DRAFT"
    /\ status' = [status EXCEPT ![r.version] = "DRAFT"]
    /\ number' = [number EXCEPT ![r.version] = r.number]
    /\ events' = events \cup {[version |-> r.version, number |-> 1, status |-> "DRAFT"]}
    /\ UNCHANGED <<rules, activations>>
    /\ End(c)

\* add_policy_rule reads the status of the version,
AddRule(c, v, code) ==
    /\ status[v] \in {"DRAFT", "PROCESSING"}
    /\ Send(c, "insertRule", v, "RULE", 0, code)

\* Mutant of AdmitRule: the trigger is missing.
AdmitUntriggered(c) == Pass(c, "insertRule", "admitted")

\* and the trigger on policy_rules reads it again; neither takes a lock on the
\* version that an UPDATE of its status would wait for.
AdmitRule(c) ==
    /\ pc[c] = "insertRule"
    /\ \/ /\ status[cmd[c].version] \notin {"APPROVED", "ACTIVE"}
          /\ Pass(c, "insertRule", "admitted")
       \/ /\ status[cmd[c].version] \in {"APPROVED", "ACTIVE"}
          /\ Refuse(c)

RuleOf(r) == <<r.version, r.arg>>

\* After the trigger the insert waits for an uncommitted rule with the same code.
InsertRule(c) ==
    /\ pc[c] = "admitted"
    /\ \A d \in Clients : ~(Inserted(d, "RULE") /\ RuleOf(cmd[d]) = RuleOf(cmd[c]))
    /\ \/ RuleOf(cmd[c]) \notin rules /\ Pass(c, "admitted", "commit")
       \/ RuleOf(cmd[c]) \in rules /\ Refuse(c)

CommitRule(c) ==
    /\ pc[c] = "commit"
    /\ cmd[c].target = "RULE"
    /\ rules' = rules \cup {RuleOf(cmd[c])}
    /\ UNCHANGED <<status, number, events, activations>>
    /\ End(c)
-----------------------------------------------------------------------------
\* transition_status by an actor with the role for it: the status is read, and
\* the transition must be one of valid_transitions.
RequestTransition(c, v, target) ==
    /\ Transition(status[v], target)
    /\ \A n \in EventNumbers(v) : n < MaxEvents
    /\ Send(c, "update", v, target, 0, Nothing)

\* Mutant of UpdateStatus: the UPDATE does not wait for the row.
UpdateWithoutLock(c) == Pass(c, "update", "record")

\* transition_lifecycle: the UPDATE waits for the row.  It does not look at the
\* status again.
UpdateStatus(c) ==
    /\ Pass(c, "update", "record")
    /\ \A d \in Clients : ~Updating(d, cmd[c].version)

\* _record_event, after the UPDATE: the next event number.  The unique key on it
\* never refuses one, because the row lock is held by now (NumbersAreGapless).
RecordEvent(c) ==
    LET r == cmd[c] IN
    /\ Goto(c, "record", CASE r.target = "ACTIVE" -> "activate"
                           [] r.target = "ARCHIVED" -> "close"
                           [] OTHER -> "commit")
    /\ \E n \in EventNumbers(r.version) :
          /\ IsGreatest(n, EventNumbers(r.version))
          /\ cmd' = [cmd EXCEPT ![c].number = n + 1]
    /\ UNCHANGED tables

\* Mutant of Overlap: only the beginning of the new interval is compared.
StartsWithin(i, j) == j.from <= i.from /\ i.from < j.until

\* Two intervals have a day in common.
Overlap(i, j) == i.from < j.until /\ j.from < i.until

OpenOf(v) == {x \in activations : x.version = v /\ x.days.until = Never}

\* activate_policy inserts the activation, for the days the request asks for, which
\* nothing has looked at before.  The exclusion constraint waits for an
\* uncommitted activation that overlaps it, and for one that is being closed, and
\* refuses it beside a committed one.
Activate(c, new) ==
    LET excluded == \E x \in activations : Overlap(new, x.days) IN
    /\ pc[c] = "activate"
    /\ \A d \in Clients :
          /\ ~(Inserted(d, "ACTIVE") /\ Overlap(new, cmd[d].arg))
          /\ Inserted(d, "ARCHIVED") => \A x \in OpenOf(cmd[d].version) : ~Overlap(new, x.days)
    /\ \/ /\ ~excluded
          /\ Goto(c, "activate", "commit")
          /\ cmd' = [cmd EXCEPT ![c].arg = new]
          /\ UNCHANGED tables
       \/ excluded /\ Refuse(c)

\* archive_policy ends the version's open activation now; interval_bounds refuses
\* that for one that has not begun.  An activation with an end stays.
Close(c) ==
    LET open == OpenOf(cmd[c].version) IN
    /\ pc[c] = "close"
    /\ \/ open = {} /\ Pass(c, "close", "commit")
       \/ \E x \in open, now \in Days :
             \/ /\ x.days.from < now
                /\ Goto(c, "close", "commit")
                /\ cmd' = [cmd EXCEPT ![c].arg = [from |-> x.days.from, until |-> now]]
                /\ UNCHANGED tables
             \/ /\ now <= x.days.from
                /\ Refuse(c)

\* The activations after the commit of r.
ActivationsAfter(r) ==
    CASE r.target = "ACTIVE" -> activations \cup {[version |-> r.version, days |-> r.arg]}
      [] r.target = "ARCHIVED" /\ r.arg # Nothing ->
            (activations \ OpenOf(r.version)) \cup {[version |-> r.version, days |-> r.arg]}
      [] OTHER -> activations

CommitTransition(c) ==
    LET r == cmd[c] IN
    /\ pc[c] = "commit"
    /\ IsTransition(r)
    /\ status' = [status EXCEPT ![r.version] = r.target]
    /\ events' = events \cup {[version |-> r.version, number |-> r.number, status |-> r.target]}
    /\ activations' = ActivationsAfter(r)
    /\ UNCHANGED <<number, rules>>
    /\ End(c)

\* The caller rolls back, or the process or the connection dies.
Abort(c) ==
    /\ pc[c] # "idle"
    /\ Refuse(c)
-----------------------------------------------------------------------------
Next == \E c \in Clients :
    \/ \E v \in Versions :
          \/ CreateVersion(c, v)
          \/ \E code \in Codes : AddRule(c, v, code)
          \/ \E target \in Status : RequestTransition(c, v, target)
    \/ InsertVersion(c)
    \/ CommitVersion(c)
    \/ AdmitRule(c)
    \/ InsertRule(c)
    \/ CommitRule(c)
    \/ UpdateStatus(c)
    \/ RecordEvent(c)
    \/ \E new \in Interval : Activate(c, new)
    \/ Close(c)
    \/ CommitTransition(c)
    \/ Abort(c)

Spec == Init /\ [][Next]_vars
-----------------------------------------------------------------------------
\* The status of a version is that of its last event, whatever transactions race:
\* the row lock is held from the UPDATE to the commit of the event.
LastEventIsStatus ==
    \A v \in Versions : status[v] # "NONE" =>
        \E e \in events :
            /\ e.version = v /\ e.status = status[v]
            /\ IsGreatest(e.number, EventNumbers(v))

\* The tables of policy_service are well-formed, and status and history agree.
PolicyInv == TypeOK /\ LastEventIsStatus

\* Event numbers of a version and version numbers of a policy are 1, 2, 3, ...
\* without gaps or repetitions, although both are computed as max + 1.
NumbersAreGapless ==
    /\ \A d, e \in events : d.version = e.version /\ d.number = e.number => d = e
    /\ \A e \in events : e.number > 1 => e.number - 1 \in EventNumbers(e.version)
    /\ \A u, v \in Versions :
          PolicyOf[u] = PolicyOf[v] /\ number[u] = number[v] /\ number[u] # 0 => u = v
    /\ \A v \in Versions : number[v] > 1 => number[v] - 1 \in VersionNumbers(PolicyOf[v])

\* Approval precedes activation: an ACTIVE event has an APPROVED one of its version
\* before it, and only a version with an ACTIVE event has days of the calendar.
ApprovalPrecedesActivation ==
    /\ \A e \in events : e.status = "ACTIVE" =>
          \E d \in events : d.version = e.version /\ d.number < e.number /\ d.status = "APPROVED"
    /\ \A x \in activations : \E e \in events : e.version = x.version /\ e.status = "ACTIVE"

\* An archived version has no activation without an end: the close sees every
\* activation of the version, and none is inserted beside it.
ArchivedIsClosed ==
    \A v \in Versions : status[v] = "ARCHIVED" => OpenOf(v) = {}

\* Activations implement a calendar with at most one version per day.
InForce(day) ==
    {v \in Versions : \E x \in activations :
        x.version = v /\ x.days.from <= day /\ day < x.days.until}
Calendar == INSTANCE PolicyCalendar WITH calendar <- [day \in Days |-> InForce(day)]
FollowsCalendar == Calendar!Spec

\* What c has been admitted to insert and has not committed.
Admitted(c) == {x \in Rule : (pc[c] = "admitted" \/ Inserted(c, "RULE")) /\ x = RuleOf(cmd[c])}

\* A rule is not admitted to a version that is APPROVED or ACTIVE at that time.  A version
\* becomes open again when it is archived, or when a transition that read an older
\* status writes over it.
AsDefinitions == INSTANCE Definitions WITH
    Items <- Rule,
    Parent <- [x \in Rule |-> x[1]],
    Reopenable <- Versions,
    items <- rules,
    entering <- {x \in Rule : x \notin rules /\ \E c \in Clients : x \in Admitted(c)},
    frozen <- {v \in Versions : status[v] \in {"APPROVED", "ACTIVE"}}
FollowsDefinitions == AsDefinitions!Spec

\* domain-model: lifecycle events are a valid sequence, DRAFT, PROCESSING, REVIEW,
\* APPROVED, ACTIVE, ARCHIVED.
EventsAreValidSequence ==
    \A d, e \in events :
        d.version = e.version /\ e.number = d.number + 1 => Transition(d.status, e.status)

\* m2-walkthrough: no rule is added to a version that is APPROVED or ACTIVE.
RulesAreFrozen ==
    [][\A v \in Versions : status[v] \in {"APPROVED", "ACTIVE"} =>
          \A code \in Codes : <<v, code>> \in rules' => <<v, code>> \in rules]_vars
-----------------------------------------------------------------------------
\* A version has a number and a history as soon as it is there.
VersionsAreWhole ==
    /\ \A v \in Versions : status[v] = "NONE" <=> number[v] = 0
    /\ \A e \in events : status[e.version] # "NONE"

\* Where a client is goes with what it asks for.
RequestFits(c) ==
    pc[c] # "idle" =>
        /\ cmd[c] \in Request
        /\ pc[c] = "insertVersion" => cmd[c].target = "DRAFT"
        /\ pc[c] \in {"insertRule", "admitted"} => cmd[c].target = "RULE"
        /\ pc[c] \in {"update", "record"} => IsTransition(cmd[c])
        /\ pc[c] = "activate" => cmd[c].target = "ACTIVE"
        /\ pc[c] = "close" => cmd[c].target = "ARCHIVED"
        /\ pc[c] \in {"update", "record", "activate", "close"} => cmd[c].arg = Nothing
        /\ cmd[c].target = "RULE" => cmd[c].arg \in Codes
        /\ cmd[c].target # "DRAFT" => status[cmd[c].version] # "NONE"

\* The number c is going to write follows those there are, and is free when the unique
\* key or the row lock has let it through.
NumberFits(c) ==
    /\ pc[c] # "idle" /\ cmd[c].target = "DRAFT" =>
          LET used == VersionNumbers(PolicyOf[cmd[c].version]) IN
          /\ status[cmd[c].version] = "NONE"
          /\ cmd[c].number > 0 /\ cmd[c].number - 1 \in used
          /\ pc[c] = "commit" => cmd[c].number \notin used
    /\ \A v \in Versions : Updating(c, v) /\ pc[c] # "record" =>
          /\ cmd[c].number - 1 \in EventNumbers(v)
          /\ \A n \in EventNumbers(v) : n < cmd[c].number

\* An activation was approved, and its days are free; a closing has an open activation
\* to shorten, unless there is none.
DaysFit(c) ==
    /\ pc[c] # "idle" /\ cmd[c].target = "ACTIVE" =>
          \E e \in events : e.version = cmd[c].version /\ e.status = "APPROVED"
    /\ Inserted(c, "ACTIVE") =>
          /\ cmd[c].arg \in Interval
          /\ \A x \in activations : ~Overlap(cmd[c].arg, x.days)
    /\ Inserted(c, "ARCHIVED") =>
          \/ cmd[c].arg = Nothing /\ OpenOf(cmd[c].version) = {}
          \/ \E x \in OpenOf(cmd[c].version) :
                /\ cmd[c].arg \in Interval
                /\ cmd[c].arg.from = x.days.from /\ cmd[c].arg.until \in Days

\* Two requests: a version that is being created has no other, uncommitted versions and
\* activations do not collide, and a row is updated by one.
Apart(c, d) ==
    /\ pc[c] # "idle" /\ pc[d] # "idle" /\ cmd[c].target = "DRAFT" =>
          cmd[d].version # cmd[c].version
    /\ Inserted(c, "DRAFT") /\ Inserted(d, "DRAFT") => ~SameNumber(c, d)
    /\ \A v \in Versions : ~(Updating(c, v) /\ Updating(d, v))
    /\ Inserted(c, "ACTIVE") /\ Inserted(d, "ACTIVE") => ~Overlap(cmd[c].arg, cmd[d].arg)

RequestsAreInOrder ==
    /\ \A c \in Clients : RequestFits(c) /\ NumberFits(c) /\ DaysFit(c)
    /\ \A c \in Clients : \A d \in Clients \ {c} : Apart(c, d)

\* No two activations have a day in common.
DaysAreTakenOnce ==
    \A x, y \in activations : x # y => ~Overlap(x.days, y.days)

\* The inductive invariant.
IInv ==
    /\ PolicyInv
    /\ VersionsAreWhole
    /\ NumbersAreGapless
    /\ ApprovalPrecedesActivation
    /\ ArchivedIsClosed
    /\ DaysAreTakenOnce
    /\ RequestsAreInOrder
=============================================================================
