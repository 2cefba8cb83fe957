-------------------------- MODULE BindingLifecycle --------------------------
(***************************************************************************)
(* BindingService: propose, approve and revoke, with BindingRepository and *)
(* the triggers and unique constraints of the rag_policy_sources and       *)
(* rag_binding_events tables.                                              *)
(*                                                                         *)
(* Each command runs in a READ COMMITTED transaction of its own that the   *)
(* caller commits.  The set events holds what is committed; the event a    *)
(* command has inserted is invisible until then, but its row locks, and    *)
(* its entry in the unique index on request ids, hold the others up.       *)
(***************************************************************************)
EXTENDS Naturals

CONSTANTS
    Clients,   \* concurrent commands
    Keys,      \* pairs of a source object and a policy version
    Sources,
    SourceOf,  \* SourceOf[k]: the source object of key k
    Requests,  \* request ids (idempotency keys) that clients send
    Authors,   \* the actor and the reason that a request carries
    Asked      \* what is asked for: tuples of a key, a status, a request id and an author

ASSUME LifecycleAssumption ==
    /\ SourceOf \in [Keys -> Sources]
    /\ Keys # {} /\ Requests # {} /\ Authors # {}

VARIABLES
    events,  \* the committed lifecycle events
    locks,   \* pairs <<client, resource>> held by open transactions
    pc,      \* where each client is in its command
    cmd      \* the command: the event it asks for

vars == <<events, locks, pc, cmd>>

Status == {"PROPOSED", "APPROVED", "REVOKED"}
Event == [key : Keys, revision : Nat \ {0}, status : Status,
          request : Requests, author : Authors]

\* What a transaction can lock: a source row, a binding row, or the index entry
\* of a request id it has inserted.
SourceRow(k) == <<"source", SourceOf[k]>>
BindingRow(k, n) == <<"binding", k, n>>
RequestEntry(q) == <<"request", q>>
Resources ==
    ({"source"} \X Sources) \cup ({"request"} \X Requests)
        \cup ({"binding"} \X Keys \X (Nat \ {0}))

Resting == {"idle", "ok", "error"}
Steps == Resting \cup {"lockSource", "proposalCheck", "latestCheck", "insertRevision",
                       "lockBinding", "eventCheck", "appendEvent", "commit"}

TypeOK ==
    /\ events \subseteq Event
    /\ locks \subseteq Clients \X Resources
    /\ pc \in [Clients -> Steps]
    /\ cmd \in [Clients -> Event]

\* A client that has sent nothing yet holds an arbitrary command.
Init ==
    /\ events = {}
    /\ locks = {}
    /\ pc = [c \in Clients |-> "idle"]
    /\ \E e \in [key : Keys, revision : {1}, status : {"PROPOSED"},
                 request : Requests, author : Authors] : cmd = [c \in Clients |-> e]
-----------------------------------------------------------------------------
\* Reads of the committed tables.
\* Mutant of Has: the events of all revisions of the key.
HasOfKey(k, n, status) == \E e \in events : e.key = k /\ e.status = status

Has(k, n, status) == \E e \in events : e.key = k /\ e.revision = n /\ e.status = status

\* The status of the last event of a revision; sequence numbers follow the
\* statuses (event_sequence_state).
StateOf(k, n) ==
    IF Has(k, n, "REVOKED") THEN "REVOKED"
    ELSE IF Has(k, n, "APPROVED") THEN "APPROVED" ELSE "PROPOSED"

Revisions(k) == {e.revision : e \in {x \in events : x.key = k}}
IsLatest(k, n) == n \in Revisions(k) /\ \A m \in Revisions(k) : m <= n

\* validate_binding_transition
Transition(from, to) == <<from, to>> \in {<<"PROPOSED", "APPROVED">>, <<"APPROVED", "REVOKED">>}

\* An earlier request with the same id asked for the very same thing.  For a
\* proposal the revision is the server's choice.
SameRequest(e, d) ==
    /\ e.key = d.key /\ e.status = d.status /\ e.author = d.author
    /\ d.status # "PROPOSED" => e.revision = d.revision
-----------------------------------------------------------------------------
Free(c, resource) == \A d \in Clients \ {c} : <<d, resource>> \notin locks
Acquire(c, resource) ==
    /\ Free(c, resource)
    /\ locks' = locks \cup {<<c, resource>>}

Goto(c, from, to) ==
    /\ pc[c] = from
    /\ pc' = [pc EXCEPT ![c] = to]

\* Mutant of Finish: the session is returned with its transaction open.
KeepLocks(c, result) ==
    /\ pc' = [pc EXCEPT ![c] = result]
    /\ UNCHANGED locks

\* The transaction of c ends; its locks go.
Finish(c, result) ==
    /\ pc' = [pc EXCEPT ![c] = result]
    /\ locks' = {l \in locks : l[1] # c}

\* propose: the policy exists and the source bytes verify, or the call raises.
Propose(c, k, q, a) ==
    /\ pc[c] \in Resting
    /\ <<k, "PROPOSED", q, a>> \in Asked
    /\ pc' = [pc EXCEPT ![c] = "lockSource"]
    /\ cmd' = [cmd EXCEPT ![c] = [key |-> k, revision |-> 1, status |-> "PROPOSED",
                                  request |-> q, author |-> a]]
    /\ UNCHANGED <<events, locks>>

\* Mutant of LockSource: the row is read without FOR UPDATE.
ReadSource(c) ==
    /\ Goto(c, "lockSource", "proposalCheck")
    /\ UNCHANGED <<events, locks, cmd>>

LockSource(c) ==
    /\ Goto(c, "lockSource", "proposalCheck")
    /\ Acquire(c, SourceRow(cmd[c].key))
    /\ UNCHANGED <<events, cmd>>

\* proposal_request: a binding row proposed under the same request id.
Proposals(q) == {e \in events : e.status = "PROPOSED" /\ e.request = q}

\* Mutant of ProposalCheck: the request id alone decides.
ProposalCheckById(c) ==
    /\ pc[c] = "proposalCheck"
    /\ \/ /\ Proposals(cmd[c].request) = {}
          /\ pc' = [pc EXCEPT ![c] = "latestCheck"]
          /\ UNCHANGED locks
       \/ /\ Proposals(cmd[c].request) # {}
          /\ Finish(c, "ok")
    /\ UNCHANGED <<events, cmd>>

ProposalCheck(c) ==
    /\ pc[c] = "proposalCheck"
    /\ \/ /\ Proposals(cmd[c].request) = {}
          /\ pc' = [pc EXCEPT ![c] = "latestCheck"]
          /\ UNCHANGED locks
       \/ \E e \in Proposals(cmd[c].request) :
             Finish(c, IF SameRequest(e, cmd[c]) THEN "ok" ELSE "error")
    /\ UNCHANGED <<events, cmd>>

\* Mutant of FirstRevision.
ZeroRevision == 0

FirstRevision == 1

\* latest_revision, and BINDING_REVISION_STILL_OPEN unless it is revoked.
LatestCheck(c) ==
    LET k == cmd[c].key IN
    /\ pc[c] = "latestCheck"
    /\ \/ /\ Revisions(k) = {}
          /\ pc' = [pc EXCEPT ![c] = "insertRevision"]
          /\ cmd' = [cmd EXCEPT ![c].revision = FirstRevision]
          /\ UNCHANGED locks
       \/ \E n \in Revisions(k) :
             /\ IsLatest(k, n)
             /\ \/ /\ StateOf(k, n) = "REVOKED"
                   /\ pc' = [pc EXCEPT ![c] = "insertRevision"]
                   /\ cmd' = [cmd EXCEPT ![c].revision = n + 1]
                   /\ UNCHANGED locks
                \/ /\ StateOf(k, n) # "REVOKED"
                   /\ Finish(c, "error")
                   /\ UNCHANGED cmd
    /\ UNCHANGED events

\* rag_guard_binding_revision: the new revision follows a revoked one, or is the first.
RevisionGuard(k, n) ==
    \/ Revisions(k) = {} /\ n = 1
    \/ \E m \in Revisions(k) : IsLatest(k, m) /\ StateOf(k, m) = "REVOKED" /\ n = m + 1

\* Mutant of RequestIsNew: no unique index.
AnyRequest(q) == TRUE

\* The unique index on request ids admits q.
RequestIsNew(q) == \A e \in events : e.request # q

\* insert_revision: the row and, by trigger, its PROPOSED event.  The insert
\* waits for an uncommitted entry with the same request id, and for a lock on the
\* previous revision's row, which its foreign key refers to.
InsertRevision(c) ==
    LET d == cmd[c] IN
    /\ pc[c] = "insertRevision"
    /\ d.revision > 1 => Free(c, BindingRow(d.key, d.revision - 1))
    /\ Free(c, RequestEntry(d.request))
    /\ \/ /\ RevisionGuard(d.key, d.revision) /\ RequestIsNew(d.request)
          /\ pc' = [pc EXCEPT ![c] = "commit"]
          /\ locks' = locks \cup {<<c, RequestEntry(d.request)>>}
       \/ /\ ~(RevisionGuard(d.key, d.revision) /\ RequestIsNew(d.request))
          /\ Finish(c, "error")
    /\ UNCHANGED <<events, cmd>>

\* approve and revoke name a revision that exists.
RequestTransition(c, k, n, target, q, a) ==
    /\ pc[c] \in Resting
    /\ <<k, target, q, a>> \in Asked
    /\ n \in Revisions(k)
    /\ pc' = [pc EXCEPT ![c] = "lockBinding"]
    /\ cmd' = [cmd EXCEPT ![c] = [key |-> k, revision |-> n, status |-> target,
                                  request |-> q, author |-> a]]
    /\ UNCHANGED <<events, locks>>

LockBinding(c) ==
    /\ Goto(c, "lockBinding", "eventCheck")
    /\ Acquire(c, BindingRow(cmd[c].key, cmd[c].revision))
    /\ UNCHANGED <<events, cmd>>

\* event_request: an event recorded under the same request id.
Recorded(q) == {e \in events : e.request = q}

EventCheck(c) ==
    LET d == cmd[c] IN
    /\ pc[c] = "eventCheck"
    /\ \/ \E e \in Recorded(d.request) :
             Finish(c, IF SameRequest(e, d) THEN "ok" ELSE "error")
       \/ /\ Recorded(d.request) = {}
          /\ Transition(StateOf(d.key, d.revision), d.status)
          /\ pc' = [pc EXCEPT ![c] = "appendEvent"]
          /\ UNCHANGED locks
       \/ /\ Recorded(d.request) = {}
          /\ ~Transition(StateOf(d.key, d.revision), d.status)
          /\ Finish(c, "error")
    /\ UNCHANGED <<events, cmd>>

\* Approval reads the source bytes again and can fail on them; revocation does not.
SourceUnavailable(c) ==
    /\ pc[c] = "appendEvent"
    /\ cmd[c].status = "APPROVED"
    /\ Finish(c, "error")
    /\ UNCHANGED <<events, cmd>>

\* rag_guard_binding_event: the next event in sequence.
EventGuard(d) ==
    /\ ~Has(d.key, d.revision, d.status)
    /\ d.status = "REVOKED" => Has(d.key, d.revision, "APPROVED")

AppendEvent(c) ==
    LET d == cmd[c] IN
    /\ pc[c] = "appendEvent"
    /\ Free(c, RequestEntry(d.request))
    /\ \/ /\ EventGuard(d) /\ RequestIsNew(d.request)
          /\ pc' = [pc EXCEPT ![c] = "commit"]
          /\ locks' = locks \cup {<<c, RequestEntry(d.request)>>}
       \/ /\ ~(EventGuard(d) /\ RequestIsNew(d.request))
          /\ Finish(c, "error")
    /\ UNCHANGED <<events, cmd>>

\* The caller commits: the event becomes visible and the locks go.
Commit(c) ==
    /\ pc[c] = "commit"
    /\ events' = events \cup {cmd[c]}
    /\ Finish(c, "ok")
    /\ UNCHANGED cmd

\* The caller rolls back, or the process or the connection dies: at any point.
Abort(c) ==
    /\ pc[c] \notin Resting
    /\ Finish(c, "idle")
    /\ UNCHANGED <<events, cmd>>
-----------------------------------------------------------------------------
Step(c) ==
    \/ LockSource(c)
    \/ ProposalCheck(c)
    \/ LatestCheck(c)
    \/ InsertRevision(c)
    \/ LockBinding(c)
    \/ EventCheck(c)
    \/ SourceUnavailable(c)
    \/ AppendEvent(c)
    \/ Commit(c)

Next == \E c \in Clients :
    \/ \E k \in Keys, q \in Requests, a \in Authors :
          \/ Propose(c, k, q, a)
          \/ \E n \in Revisions(k), target \in {"APPROVED", "REVOKED"} :
                RequestTransition(c, k, n, target, q, a)
    \/ Step(c)
    \/ Abort(c)

Spec == Init /\ [][Next]_vars

\* A command that is running goes on, and PostgreSQL serves the waiters of a lock
\* in turn; nobody has to send a command or to abort one.
FairSpec == Spec /\ \A c \in Clients : SF_vars(Step(c))
-----------------------------------------------------------------------------
\* A request id names at most one event in the whole institution: concurrent
\* commands with the same id, on one binding or on two, never both record one.
OneEventPerRequest ==
    \A d, e \in events : d.request = e.request => d = e

\* A command that ended well is on record exactly as it was asked, also when the
\* answer comes from an earlier execution of the same request.
SuccessIsRecorded ==
    \A c \in Clients : pc[c] = "ok" =>
        \E e \in events : e.request = cmd[c].request /\ SameRequest(e, cmd[c])

\* The triggers never refuse what the service has decided: its row locks hold
\* from the check to the insert, so that only a request id can still collide.
TriggersAgree ==
    \A c \in Clients :
        /\ pc[c] = "insertRevision" => RevisionGuard(cmd[c].key, cmd[c].revision)
        /\ pc[c] = "appendEvent" => EventGuard(cmd[c])

\* The history of the revisions of a key, as their states.
ReviewOf(k) == [n \in Revisions(k) |-> StateOf(k, n)]

\* Concurrent transitions serialize: every commit is one step of BindingReview.
Review == INSTANCE BindingReview WITH review <- [k \in Keys |-> ReviewOf(k)]
FollowsReview == Review!Spec

\* No two commands wait for each other for ever.
EveryCommandEnds == \A c \in Clients : pc[c] \notin Resting ~> pc[c] \in Resting
-----------------------------------------------------------------------------
\* The inductive invariant behind OneEventPerRequest and FollowsReview.

Proposing(c) ==
    \/ pc[c] \in {"proposalCheck", "latestCheck", "insertRevision"}
    \/ pc[c] = "commit" /\ cmd[c].status = "PROPOSED"
Changing(c) ==
    \/ pc[c] \in {"eventCheck", "appendEvent"}
    \/ pc[c] = "commit" /\ cmd[c].status # "PROPOSED"

\* A resource has one holder,
Exclusive ==
    \A l, m \in locks : l[2] = m[2] => l[1] = m[1]

\* and who works under a lock holds it.
LocksHold ==
    \A c \in Clients :
        /\ Proposing(c) => <<c, SourceRow(cmd[c].key)>> \in locks
        /\ Changing(c) => <<c, BindingRow(cmd[c].key, cmd[c].revision)>> \in locks
        /\ pc[c] = "commit" => <<c, RequestEntry(cmd[c].request)>> \in locks

\* The command fits the place its client is at.
CommandsFit ==
    \A c \in Clients :
        /\ pc[c] \in {"lockSource", "proposalCheck", "latestCheck", "insertRevision"} =>
              cmd[c].status = "PROPOSED"
        /\ pc[c] \in {"lockBinding", "eventCheck", "appendEvent"} =>
              cmd[c].status # "PROPOSED"

\* An event that waits for its commit still has a new request id,
PendingIsNew == \A c \in Clients : pc[c] = "commit" => RequestIsNew(cmd[c].request)

\* and it still is the next step of its key, as it was when the service decided.
PendingIsNext ==
    \A c \in Clients :
        LET d == cmd[c] IN
        /\ pc[c] = "insertRevision" \/ (pc[c] = "commit" /\ d.status = "PROPOSED") =>
              RevisionGuard(d.key, d.revision)
        /\ pc[c] \in {"lockBinding", "eventCheck", "appendEvent"}
              \/ (pc[c] = "commit" /\ d.status # "PROPOSED") => d.revision \in Revisions(d.key)
        /\ pc[c] = "appendEvent" \/ (pc[c] = "commit" /\ d.status # "PROPOSED") =>
              Transition(StateOf(d.key, d.revision), d.status)

\* Only the last revision of a key can be open.
OnlyLastIsOpen ==
    \A k \in Keys : \A m, n \in Revisions(k) : m < n => StateOf(k, m) = "REVOKED"

IInv ==
    /\ TypeOK
    /\ OneEventPerRequest
    /\ Exclusive
    /\ LocksHold
    /\ CommandsFit
    /\ PendingIsNew
    /\ PendingIsNext
    /\ OnlyLastIsOpen
=============================================================================
