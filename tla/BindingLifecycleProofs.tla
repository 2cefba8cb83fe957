----------------------- MODULE BindingLifecycleProofs -----------------------
(***************************************************************************)
(* Proofs about BindingLifecycle, for any number of clients, keys and      *)
(* request ids: a request id names one event, a success is on record, and  *)
(* the commands implement BindingReview.                                   *)
(***************************************************************************)
EXTENDS BindingLifecycle, TLAPS

\* Every step keeps the types.
LEMMA TypeStep ==
    ASSUME TypeOK, [Next]_vars
    PROVE  TypeOK'
<1> USE LifecycleAssumption DEF TypeOK, Event, Status, Steps, Resting, Resources, SourceRow, BindingRow, RequestEntry, Revisions
<1>1. ASSUME NEW c \in Clients, NEW k \in Keys, NEW q \in Requests, NEW a \in Authors,
            Propose(c, k, q, a)
     PROVE  TypeOK'
  BY <1>1 DEF Propose
<1>2. ASSUME NEW c \in Clients, NEW k \in Keys, NEW q \in Requests, NEW a \in Authors,
            NEW n \in Revisions(k), NEW target \in {"APPROVED", "REVOKED"},
            RequestTransition(c, k, n, target, q, a)
     PROVE  TypeOK'
  BY <1>2 DEF RequestTransition
<1>3. ASSUME NEW c \in Clients, LockSource(c)
     PROVE  TypeOK'
  BY <1>3 DEF LockSource, Goto, Acquire, Free
<1>4. ASSUME NEW c \in Clients, ProposalCheck(c)
     PROVE  TypeOK'
  BY <1>4 DEF ProposalCheck, Finish, Free
<1>5. ASSUME NEW c \in Clients, LatestCheck(c)
     PROVE  TypeOK'
  BY <1>5 DEF LatestCheck, FirstRevision, Finish, Free
<1>6. ASSUME NEW c \in Clients, InsertRevision(c)
     PROVE  TypeOK'
  BY <1>6 DEF InsertRevision, Finish, Free
<1>7. ASSUME NEW c \in Clients, LockBinding(c)
     PROVE  TypeOK'
  BY <1>7 DEF LockBinding, Goto, Acquire, Free
<1>8. ASSUME NEW c \in Clients, EventCheck(c)
     PROVE  TypeOK'
  BY <1>8 DEF EventCheck, Finish, Free
<1>9. ASSUME NEW c \in Clients, SourceUnavailable(c)
     PROVE  TypeOK'
  BY <1>9 DEF SourceUnavailable, Finish, Free
<1>10. ASSUME NEW c \in Clients, AppendEvent(c)
     PROVE  TypeOK'
  BY <1>10 DEF AppendEvent, Finish, Free
<1>11. ASSUME NEW c \in Clients, Commit(c)
     PROVE  TypeOK'
  BY <1>11 DEF Commit, Finish, Free
<1>12. ASSUME NEW c \in Clients, Abort(c)
     PROVE  TypeOK'
  BY <1>12 DEF Abort, Finish, Free
<1>13. CASE UNCHANGED vars
  BY <1>13 DEF vars
<1>14. QED
  BY <1>1, <1>2, <1>3, <1>4, <1>5, <1>6, <1>7,
     <1>8, <1>9, <1>10, <1>11, <1>12, <1>13 DEF Next, Step

\* Every step leaves a lock with one holder: it is taken only when it is free.
LEMMA ExclusiveStep ==
    ASSUME TypeOK, Exclusive, [Next]_vars
    PROVE  Exclusive'
<1> USE LifecycleAssumption DEF TypeOK, Event, Status, Steps, Resting, Exclusive
<1>1. ASSUME NEW c \in Clients, NEW k \in Keys, NEW q \in Requests, NEW a \in Authors,
            Propose(c, k, q, a)
     PROVE  Exclusive'
  BY <1>1 DEF Propose
<1>2. ASSUME NEW c \in Clients, NEW k \in Keys, NEW q \in Requests, NEW a \in Authors,
            NEW n \in Revisions(k), NEW target \in {"APPROVED", "REVOKED"},
            RequestTransition(c, k, n, target, q, a)
     PROVE  Exclusive'
  BY <1>2 DEF RequestTransition
<1>3. ASSUME NEW c \in Clients, LockSource(c)
     PROVE  Exclusive'
  BY <1>3 DEF LockSource, Goto, Acquire, Free
<1>4. ASSUME NEW c \in Clients, ProposalCheck(c)
     PROVE  Exclusive'
  BY <1>4 DEF ProposalCheck, Finish, Free
<1>5. ASSUME NEW c \in Clients, LatestCheck(c)
     PROVE  Exclusive'
  BY <1>5 DEF LatestCheck, FirstRevision, Finish, Free
<1>6. ASSUME NEW c \in Clients, InsertRevision(c)
     PROVE  Exclusive'
  BY <1>6 DEF InsertRevision, Finish, Free
<1>7. ASSUME NEW c \in Clients, LockBinding(c)
     PROVE  Exclusive'
  BY <1>7 DEF LockBinding, Goto, Acquire, Free
<1>8. ASSUME NEW c \in Clients, EventCheck(c)
     PROVE  Exclusive'
  BY <1>8 DEF EventCheck, Finish, Free
<1>9. ASSUME NEW c \in Clients, SourceUnavailable(c)
     PROVE  Exclusive'
  BY <1>9 DEF SourceUnavailable, Finish, Free
<1>10. ASSUME NEW c \in Clients, AppendEvent(c)
     PROVE  Exclusive'
  BY <1>10 DEF AppendEvent, Finish, Free
<1>11. ASSUME NEW c \in Clients, Commit(c)
     PROVE  Exclusive'
  BY <1>11 DEF Commit, Finish, Free
<1>12. ASSUME NEW c \in Clients, Abort(c)
     PROVE  Exclusive'
  BY <1>12 DEF Abort, Finish, Free
<1>13. CASE UNCHANGED vars
  BY <1>13 DEF vars
<1>14. QED
  BY <1>1, <1>2, <1>3, <1>4, <1>5, <1>6, <1>7,
     <1>8, <1>9, <1>10, <1>11, <1>12, <1>13 DEF Next, Step

\* Every step keeps the locks of those who work under them.
LEMMA LocksStep ==
    ASSUME TypeOK, LocksHold, CommandsFit, [Next]_vars
    PROVE  LocksHold'
<1> USE LifecycleAssumption DEF TypeOK, Event, Status, Steps, Resting, LocksHold, CommandsFit, Proposing, Changing
<1>1. ASSUME NEW c \in Clients, NEW k \in Keys, NEW q \in Requests, NEW a \in Authors,
            Propose(c, k, q, a)
     PROVE  LocksHold'
  BY <1>1 DEF Propose
<1>2. ASSUME NEW c \in Clients, NEW k \in Keys, NEW q \in Requests, NEW a \in Authors,
            NEW n \in Revisions(k), NEW target \in {"APPROVED", "REVOKED"},
            RequestTransition(c, k, n, target, q, a)
     PROVE  LocksHold'
  BY <1>2 DEF RequestTransition
<1>3. ASSUME NEW c \in Clients, LockSource(c)
     PROVE  LocksHold'
  BY <1>3 DEF LockSource, Goto, Acquire
<1>4. ASSUME NEW c \in Clients, ProposalCheck(c)
     PROVE  LocksHold'
  BY <1>4 DEF ProposalCheck, Finish
<1>5. ASSUME NEW c \in Clients, LatestCheck(c)
     PROVE  LocksHold'
  <2>1. /\ cmd'[c].key = cmd[c].key
        /\ \A d \in Clients \ {c} : cmd'[d] = cmd[d]
    BY <1>5 DEF LatestCheck, FirstRevision
  <2>2. /\ pc[c] = "latestCheck"
        /\ \/ pc' = [pc EXCEPT ![c] = "insertRevision"] /\ locks' = locks
           \/ pc' = [pc EXCEPT ![c] = "error"] /\ locks' = {l \in locks : l[1] # c}
    BY <1>5 DEF LatestCheck, FirstRevision, Finish
  <2>3. SourceRow(cmd'[c].key) = SourceRow(cmd[c].key)
    BY <2>1 DEF SourceRow
  <2>4. ASSUME NEW d \in Clients
        PROVE  /\ Proposing(d)' => <<d, SourceRow(cmd'[d].key)>> \in locks'
               /\ Changing(d)' => <<d, BindingRow(cmd'[d].key, cmd'[d].revision)>> \in locks'
               /\ pc'[d] = "commit" => <<d, RequestEntry(cmd'[d].request)>> \in locks'
    <3>1. CASE d = c
      BY <2>2, <2>3, <3>1
    <3>2. CASE d # c
      <4>1. cmd'[d] = cmd[d] /\ pc'[d] = pc[d]
        BY <2>1, <2>2, <3>2
      <4>2. \A r : <<d, r>> \in locks => <<d, r>> \in locks'
        BY <2>2, <3>2
      <4>3. QED
        BY <4>1, <4>2
    <3>3. QED
      BY <3>1, <3>2
  <2>5. QED
    BY <2>4 DEF SourceRow, BindingRow, RequestEntry
<1>6. ASSUME NEW c \in Clients, InsertRevision(c)
     PROVE  LocksHold'
  BY <1>6 DEF InsertRevision, Finish
<1>7. ASSUME NEW c \in Clients, LockBinding(c)
     PROVE  LocksHold'
  BY <1>7 DEF LockBinding, Goto, Acquire
<1>8. ASSUME NEW c \in Clients, EventCheck(c)
     PROVE  LocksHold'
  BY <1>8 DEF EventCheck, Finish
<1>9. ASSUME NEW c \in Clients, SourceUnavailable(c)
     PROVE  LocksHold'
  BY <1>9 DEF SourceUnavailable, Finish
<1>10. ASSUME NEW c \in Clients, AppendEvent(c)
     PROVE  LocksHold'
  BY <1>10 DEF AppendEvent, Finish
<1>11. ASSUME NEW c \in Clients, Commit(c)
     PROVE  LocksHold'
  BY <1>11 DEF Commit, Finish
<1>12. ASSUME NEW c \in Clients, Abort(c)
     PROVE  LocksHold'
  BY <1>12 DEF Abort, Finish
<1>13. CASE UNCHANGED vars
  BY <1>13 DEF vars
<1> HIDE DEF LocksHold, Proposing, Changing, CommandsFit, TypeOK
<1>14. QED
  BY <1>1, <1>2, <1>3, <1>4, <1>5, <1>6, <1>7,
     <1>8, <1>9, <1>10, <1>11, <1>12, <1>13 DEF Next, Step

\* A step that commits nothing leaves every reading of the tables alone.
LEMMA SameTables ==
    ASSUME events' = events
    PROVE  /\ \A k \in Keys : Revisions(k)' = Revisions(k)
           /\ \A k \in Keys, n \in Nat : StateOf(k, n)' = StateOf(k, n)
           /\ \A k \in Keys, n \in Nat : RevisionGuard(k, n)' = RevisionGuard(k, n)
BY DEF Revisions, StateOf, Has, RevisionGuard, IsLatest

\* Revision numbers are positive.
LEMMA RevisionsType == TypeOK => \A k \in Keys : Revisions(k) \subseteq Nat \ {0}
BY DEF TypeOK, Event, Revisions

\* An event that waits for its commit keeps its new request id: two that wait hold
\* different entries of the unique index.
LEMMA NewStep ==
    ASSUME TypeOK, LocksHold, Exclusive, PendingIsNew, [Next]_vars
    PROVE  PendingIsNew'
<1> USE LifecycleAssumption DEF PendingIsNew, RequestIsNew
<1>1. ASSUME NEW c \in Clients, NEW k \in Keys, NEW q \in Requests, NEW a \in Authors,
            Propose(c, k, q, a)
     PROVE  PendingIsNew'
  BY <1>1 DEF Propose, TypeOK, Resting
<1>2. ASSUME NEW c \in Clients, NEW k \in Keys, NEW q \in Requests, NEW a \in Authors,
            NEW n \in Revisions(k), NEW target \in {"APPROVED", "REVOKED"},
            RequestTransition(c, k, n, target, q, a)
     PROVE  PendingIsNew'
  BY <1>2 DEF RequestTransition, TypeOK, Resting
<1>3. ASSUME NEW c \in Clients, LockSource(c)
     PROVE  PendingIsNew'
  BY <1>3 DEF LockSource, Goto, Acquire, TypeOK, Resting
<1>4. ASSUME NEW c \in Clients, ProposalCheck(c)
     PROVE  PendingIsNew'
  BY <1>4 DEF ProposalCheck, Finish, TypeOK, Resting
<1>5. ASSUME NEW c \in Clients, LatestCheck(c)
     PROVE  PendingIsNew'
  BY <1>5 DEF LatestCheck, FirstRevision, Finish, TypeOK, Resting
<1>6. ASSUME NEW c \in Clients, InsertRevision(c)
     PROVE  PendingIsNew'
  BY <1>6 DEF InsertRevision, Finish, TypeOK, Resting, RequestIsNew
<1>7. ASSUME NEW c \in Clients, LockBinding(c)
     PROVE  PendingIsNew'
  BY <1>7 DEF LockBinding, Goto, Acquire, TypeOK, Resting
<1>8. ASSUME NEW c \in Clients, EventCheck(c)
     PROVE  PendingIsNew'
  BY <1>8 DEF EventCheck, Finish, TypeOK, Resting
<1>9. ASSUME NEW c \in Clients, SourceUnavailable(c)
     PROVE  PendingIsNew'
  BY <1>9 DEF SourceUnavailable, Finish, TypeOK, Resting
<1>10. ASSUME NEW c \in Clients, AppendEvent(c)
     PROVE  PendingIsNew'
  BY <1>10 DEF AppendEvent, Finish, TypeOK, Resting, EventGuard
<1>11. ASSUME NEW c \in Clients, Commit(c)
     PROVE  PendingIsNew'
  <2> SUFFICES ASSUME NEW d \in Clients, pc'[d] = "commit", NEW e \in events'
               PROVE  e.request # cmd'[d].request
    OBVIOUS
  <2>1. d # c /\ pc[d] = "commit" /\ pc[c] = "commit" /\ cmd' = cmd
    BY <1>11 DEF Commit, Finish, TypeOK
  <2>2. cmd[c].request # cmd[d].request
    BY <2>1 DEF LocksHold, Exclusive, RequestEntry
  <2>3. QED
    BY <1>11, <2>1, <2>2 DEF Commit
<1>12. ASSUME NEW c \in Clients, Abort(c)
     PROVE  PendingIsNew'
  BY <1>12 DEF Abort, Finish, TypeOK, Resting
<1>13. CASE UNCHANGED vars
  BY <1>13 DEF vars
<1>14. QED
  BY <1>1, <1>2, <1>3, <1>4, <1>5, <1>6, <1>7,
     <1>8, <1>9, <1>10, <1>11, <1>12, <1>13 DEF Next, Step

\* What a commit does to the tables.
LEMMA CommitTables ==
    ASSUME TypeOK, PendingIsNext, NEW c \in Clients, Commit(c)
    PROVE  /\ \A k \in Keys \ {cmd[c].key} : Revisions(k)' = Revisions(k)
           /\ Revisions(cmd[c].key)' = Revisions(cmd[c].key) \cup {cmd[c].revision}
           /\ \A k \in Keys, n \in Nat :
                 k # cmd[c].key \/ n # cmd[c].revision => StateOf(k, n)' = StateOf(k, n)
           /\ \A k \in Keys, n \in Nat :
                 k = cmd[c].key /\ n = cmd[c].revision => StateOf(k, n)' = cmd[c].status
<1> DEFINE d == cmd[c]
<1>1. events' = events \cup {d} /\ cmd' = cmd /\ pc[c] = "commit" /\ d \in Event
  BY DEF Commit, TypeOK
<1>2. ASSUME NEW k \in Keys, NEW n \in Nat, NEW s \in Status
      PROVE  Has(k, n, s)' <=> Has(k, n, s) \/ (k = d.key /\ n = d.revision /\ s = d.status)
  BY <1>1 DEF Has
<1>3. \A k \in Keys \ {d.key} : Revisions(k)' = Revisions(k)
  BY <1>1 DEF Revisions
<1>4. \A k \in Keys : k = d.key => Revisions(k)' = Revisions(k) \cup {d.revision}
  BY <1>1 DEF Revisions
<1>5. \A k \in Keys, n \in Nat :
          k # d.key \/ n # d.revision => StateOf(k, n)' = StateOf(k, n)
  BY <1>2 DEF StateOf, Status
<1>6. \A k \in Keys, n \in Nat : k = d.key /\ n = d.revision => StateOf(k, n)' = d.status
  <2> SUFFICES ASSUME NEW k \in Keys, NEW n \in Nat, k = d.key, n = d.revision
               PROVE  StateOf(k, n)' = d.status
    OBVIOUS
  <2>1. CASE d.status = "PROPOSED"
    <3>1. n \notin Revisions(k)
      BY <1>1, <2>1, RevisionsType DEF PendingIsNext, RevisionGuard, IsLatest
    <3>2. \A s \in Status : ~Has(k, n, s)
      BY <3>1 DEF Has, Revisions
    <3>3. QED
      BY <1>2, <2>1, <3>2 DEF StateOf, Status
  <2>2. CASE d.status # "PROPOSED"
    <3>1. Transition(StateOf(k, n), d.status)
      BY <1>1, <2>2 DEF PendingIsNext
    <3>2. QED
      BY <1>1, <1>2, <2>2, <3>1 DEF Transition, StateOf, Status, Event
  <2>3. QED
    BY <2>1, <2>2
<1>7. d.key \in Keys /\ d.revision \in Nat
  BY <1>1 DEF Event
<1>8. Revisions(d.key)' = Revisions(d.key) \cup {d.revision}
  BY <1>1, <1>4, <1>7
<1>9. QED
  BY <1>1, <1>3, <1>5, <1>6, <1>8

\* Where a new revision is in order, the ones before it are revoked.
LEMMA GuardFits ==
    ASSUME TypeOK, OnlyLastIsOpen, NEW k \in Keys, NEW n \in Nat, RevisionGuard(k, n)
    PROVE  \A m \in Revisions(k) : m < n /\ StateOf(k, m) = "REVOKED"
BY RevisionsType DEF RevisionGuard, IsLatest, OnlyLastIsOpen

\* An event that is committed belongs to the last revision of its key: a new one
\* after revoked ones only, or the open one.
LEMMA CommitFits ==
    ASSUME TypeOK, PendingIsNext, OnlyLastIsOpen, NEW c \in Clients, pc[c] = "commit"
    PROVE  /\ cmd[c].status = "PROPOSED" =>
                 \A m \in Revisions(cmd[c].key) :
                     m < cmd[c].revision /\ StateOf(cmd[c].key, m) = "REVOKED"
           /\ cmd[c].status # "PROPOSED" =>
                 /\ IsLatest(cmd[c].key, cmd[c].revision)
                 /\ StateOf(cmd[c].key, cmd[c].revision) # "REVOKED"
<1> DEFINE k == cmd[c].key
           n == cmd[c].revision
<1>1. k \in Keys /\ n \in Nat /\ Revisions(k) \subseteq Nat
  BY RevisionsType DEF TypeOK, Event
<1>2. ASSUME cmd[c].status = "PROPOSED"
      PROVE  \A m \in Revisions(k) : m < n /\ StateOf(k, m) = "REVOKED"
  BY <1>1, <1>2, GuardFits DEF PendingIsNext
<1>3. ASSUME cmd[c].status # "PROPOSED"
      PROVE  IsLatest(k, n) /\ StateOf(k, n) # "REVOKED"
  <2>1. n \in Revisions(k) /\ StateOf(k, n) # "REVOKED"
    BY <1>3 DEF PendingIsNext, Transition
  <2>2. QED
    BY <1>1, <2>1 DEF IsLatest, OnlyLastIsOpen
<1>4. QED
  BY <1>2, <1>3

\* An event that waits for its commit stays the next step of its key: the source row
\* holds other proposals up, the binding row other transitions of the revision.
LEMMA NextStep ==
    ASSUME TypeOK, LocksHold, Exclusive, CommandsFit, PendingIsNext, OnlyLastIsOpen, [Next]_vars
    PROVE  PendingIsNext'
<1> USE LifecycleAssumption DEF TypeOK, Event, Resting, CommandsFit, PendingIsNext
<1>1. ASSUME NEW c \in Clients, NEW k \in Keys, NEW q \in Requests, NEW a \in Authors,
            Propose(c, k, q, a)
     PROVE  PendingIsNext'
  BY SameTables, RevisionsType, <1>1 DEF Propose
<1>2. ASSUME NEW c \in Clients, NEW k \in Keys, NEW q \in Requests, NEW a \in Authors,
            NEW n \in Revisions(k), NEW target \in {"APPROVED", "REVOKED"},
            RequestTransition(c, k, n, target, q, a)
     PROVE  PendingIsNext'
  BY SameTables, RevisionsType, <1>2 DEF RequestTransition
<1>3. ASSUME NEW c \in Clients, LockSource(c)
     PROVE  PendingIsNext'
  BY SameTables, RevisionsType, <1>3 DEF LockSource, Goto, Acquire
<1>4. ASSUME NEW c \in Clients, ProposalCheck(c)
     PROVE  PendingIsNext'
  BY SameTables, RevisionsType, <1>4 DEF ProposalCheck, Finish
<1>5. ASSUME NEW c \in Clients, LatestCheck(c)
     PROVE  PendingIsNext'
  <2>1. /\ pc[c] = "latestCheck" /\ events' = events
        /\ \A d \in Clients \ {c} : cmd'[d] = cmd[d] /\ pc'[d] = pc[d]
        /\ pc'[c] \in {"insertRevision", "error"}
        /\ cmd'[c].status = "PROPOSED"
    BY <1>5 DEF LatestCheck, FirstRevision, Finish
  <2>2. PICK k \in Keys, n \in Nat : k = cmd'[c].key /\ n = cmd'[c].revision
    BY <1>5, TypeStep DEF Next, Step
  <2>3. ASSUME pc'[c] = "insertRevision"
        PROVE  RevisionGuard(k, n)
    <3>1. CASE Revisions(cmd[c].key) = {}
      <4>1. cmd' = [cmd EXCEPT ![c].revision = 1]
        BY <1>5, <3>1 DEF LatestCheck, FirstRevision
      <4>2. k = cmd[c].key /\ n = 1
        BY <2>2, <4>1
      <4>3. QED
        BY <3>1, <4>2 DEF RevisionGuard
    <3>2. CASE Revisions(cmd[c].key) # {}
      <4>1. PICK m \in Revisions(cmd[c].key) :
               /\ IsLatest(cmd[c].key, m) /\ StateOf(cmd[c].key, m) = "REVOKED"
               /\ cmd' = [cmd EXCEPT ![c].revision = m + 1]
        BY <1>5, <2>1, <2>3, <3>2 DEF LatestCheck, FirstRevision, Finish
      <4>2. k = cmd[c].key /\ n = m + 1
        BY <2>2, <4>1
      <4>3. QED
        BY <4>1, <4>2 DEF RevisionGuard
    <3>3. QED
      BY <3>1, <3>2
  <2>4. RevisionGuard(k, n)' = RevisionGuard(k, n)
    BY <2>1, SameTables
  <2>5. ASSUME NEW d \in Clients \ {c}
        PROVE  (LET e == cmd[d] IN
                /\ pc[d] = "insertRevision" \/ (pc[d] = "commit" /\ e.status = "PROPOSED") =>
                      RevisionGuard(e.key, e.revision)
                /\ pc[d] \in {"lockBinding", "eventCheck", "appendEvent"}
                      \/ (pc[d] = "commit" /\ e.status # "PROPOSED") => e.revision \in Revisions(e.key)
                /\ pc[d] = "appendEvent" \/ (pc[d] = "commit" /\ e.status # "PROPOSED") =>
                      Transition(StateOf(e.key, e.revision), e.status))'
    BY <2>1, SameTables DEF Transition
  <2>6. pc'[c] = "insertRevision" => RevisionGuard(cmd[c].key, cmd[c].revision)'
    BY <2>2, <2>3, <2>4
  <2>7. QED
    BY <2>1, <2>5, <2>6
<1>6. ASSUME NEW c \in Clients, InsertRevision(c)
     PROVE  PendingIsNext'
  BY SameTables, RevisionsType, <1>6 DEF InsertRevision, Finish
<1>7. ASSUME NEW c \in Clients, LockBinding(c)
     PROVE  PendingIsNext'
  BY SameTables, RevisionsType, <1>7 DEF LockBinding, Goto, Acquire
<1>8. ASSUME NEW c \in Clients, EventCheck(c)
     PROVE  PendingIsNext'
  BY SameTables, RevisionsType, <1>8 DEF EventCheck, Finish
<1>9. ASSUME NEW c \in Clients, SourceUnavailable(c)
     PROVE  PendingIsNext'
  BY SameTables, RevisionsType, <1>9 DEF SourceUnavailable, Finish
<1>10. ASSUME NEW c \in Clients, AppendEvent(c)
     PROVE  PendingIsNext'
  BY SameTables, RevisionsType, <1>10 DEF AppendEvent, Finish
<1>11. ASSUME NEW c \in Clients, Commit(c)
     PROVE  PendingIsNext'
  <2> DEFINE k == cmd[c].key
             n == cmd[c].revision
  <2>1. pc[c] = "commit" /\ pc' = [pc EXCEPT ![c] = "ok"] /\ cmd' = cmd
    BY <1>11 DEF Commit, Finish
  <2>2. /\ \A j \in Keys \ {k} : Revisions(j)' = Revisions(j)
        /\ Revisions(k)' = Revisions(k) \cup {n}
        /\ \A j \in Keys, m \in Nat : j # k \/ m # n => StateOf(j, m)' = StateOf(j, m)
    BY <1>11, CommitTables
  <2>3. /\ cmd[c].status = "PROPOSED" =>
              \A m \in Revisions(k) : m < n /\ StateOf(k, m) = "REVOKED"
        /\ cmd[c].status # "PROPOSED" => IsLatest(k, n) /\ StateOf(k, n) # "REVOKED"
    BY <2>1, CommitFits
  <2>4. ASSUME NEW d \in Clients \ {c}, cmd[d].status = "PROPOSED",
               pc[d] \in {"insertRevision", "commit"}
        PROVE  RevisionGuard(cmd[d].key, cmd[d].revision)'
    <3>1. cmd[d].key # k
      <4>1. CASE cmd[c].status = "PROPOSED"
        <5>1. /\ <<c, SourceRow(cmd[c].key)>> \in locks
              /\ <<d, SourceRow(cmd[d].key)>> \in locks
          BY <2>1, <2>4, <4>1 DEF LocksHold, Proposing
        <5>2. QED
          BY <5>1 DEF Exclusive
      <4>2. CASE cmd[c].status # "PROPOSED"
        <5>1. \A m \in Revisions(cmd[d].key) : StateOf(cmd[d].key, m) = "REVOKED"
          BY <2>4, GuardFits
        <5>2. QED
          BY <2>3, <4>2, <5>1 DEF IsLatest
      <4>3. QED
        BY <4>1, <4>2
    <3>2. cmd[d].key \in Keys /\ RevisionGuard(cmd[d].key, cmd[d].revision)
      BY <2>4
    <3>3. Revisions(cmd[d].key)' = Revisions(cmd[d].key)
      BY <2>1, <2>2, <3>1, <3>2
    <3>4. \A m \in Revisions(cmd[d].key) :
             StateOf(cmd[d].key, m)' = StateOf(cmd[d].key, m)
      BY <2>1, <2>2, <3>1, <3>2, RevisionsType
    <3>5. PICK j \in Keys, m \in Nat : j = cmd[d].key /\ m = cmd[d].revision
      BY <3>2
    <3>6. RevisionGuard(j, m)'
      BY <2>1, <3>2, <3>3, <3>4, <3>5 DEF RevisionGuard, IsLatest
    <3>7. QED
      BY <2>1, <3>5, <3>6
  <2>5. ASSUME NEW d \in Clients \ {c}, cmd[d].revision \in Revisions(cmd[d].key)
        PROVE  (cmd[d].revision \in Revisions(cmd[d].key))'
    <3>1. PICK j \in Keys, m \in Nat : j = cmd[d].key /\ m = cmd[d].revision
      BY DEF TypeOK, Event
    <3>2. Revisions(j) \subseteq Revisions(j)'
      <4>1. PICK i \in Keys : i = k
        OBVIOUS
      <4>2. Revisions(i) \subseteq Revisions(i)'
        BY <2>1, <2>2, <4>1
      <4>3. QED
        BY <2>2, <4>1, <4>2
    <3>3. QED
      BY <2>1, <2>5, <3>1, <3>2
  <2>6. ASSUME NEW d \in Clients \ {c},
               pc[d] = "appendEvent" \/ (pc[d] = "commit" /\ cmd[d].status # "PROPOSED")
        PROVE  Transition(StateOf(cmd[d].key, cmd[d].revision), cmd[d].status)'
    <3>1. cmd[d].key # k \/ cmd[d].revision # n
      <4>1. CASE cmd[c].status = "PROPOSED"
        <5>1. cmd[d].revision \in Revisions(cmd[d].key) /\ cmd[d].revision \in Nat
          BY <2>6
        <5>2. QED
          BY <2>3, <4>1, <5>1
      <4>2. CASE cmd[c].status # "PROPOSED"
        <5>1. /\ <<c, BindingRow(cmd[c].key, cmd[c].revision)>> \in locks
              /\ <<d, BindingRow(cmd[d].key, cmd[d].revision)>> \in locks
          BY <2>1, <2>6, <4>2 DEF LocksHold, Changing
        <5>2. QED
          BY <5>1 DEF Exclusive
      <4>3. QED
        BY <4>1, <4>2
    <3>2. /\ cmd[d].key \in Keys /\ cmd[d].revision \in Nat
          /\ Transition(StateOf(cmd[d].key, cmd[d].revision), cmd[d].status)
      BY <2>6
    <3>3. StateOf(cmd[d].key, cmd[d].revision)' = StateOf(cmd[d].key, cmd[d].revision)
      BY <2>1, <2>2, <3>1, <3>2
    <3>4. QED
      BY <2>1, <3>2, <3>3 DEF Transition
  <2>7. QED
    <3>1. ASSUME NEW d \in Clients
          PROVE  (LET e == cmd[d] IN
                  /\ pc[d] = "insertRevision" \/ (pc[d] = "commit" /\ e.status = "PROPOSED") =>
                        RevisionGuard(e.key, e.revision)
                  /\ pc[d] \in {"lockBinding", "eventCheck", "appendEvent"}
                        \/ (pc[d] = "commit" /\ e.status # "PROPOSED") => e.revision \in Revisions(e.key)
                  /\ pc[d] = "appendEvent" \/ (pc[d] = "commit" /\ e.status # "PROPOSED") =>
                        Transition(StateOf(e.key, e.revision), e.status))'
      BY <2>1, <2>4, <2>5, <2>6
    <3>2. QED
      BY <3>1
<1>12. ASSUME NEW c \in Clients, Abort(c)
     PROVE  PendingIsNext'
  BY SameTables, RevisionsType, <1>12 DEF Abort, Finish
<1>13. CASE UNCHANGED vars
  BY SameTables, RevisionsType, <1>13 DEF vars
<1>14. QED
  BY <1>1, <1>2, <1>3, <1>4, <1>5, <1>6, <1>7,
     <1>8, <1>9, <1>10, <1>11, <1>12, <1>13 DEF Next, Step

\* Every step leaves revoked all revisions but the last of a key.
LEMMA OpenStep ==
    ASSUME TypeOK, PendingIsNext, OnlyLastIsOpen, [Next]_vars
    PROVE  OnlyLastIsOpen'
<1> USE LifecycleAssumption DEF OnlyLastIsOpen
<1>1. ASSUME NEW c \in Clients, NEW k \in Keys, NEW q \in Requests, NEW a \in Authors,
            Propose(c, k, q, a)
     PROVE  OnlyLastIsOpen'
  BY SameTables, RevisionsType, <1>1 DEF Propose
<1>2. ASSUME NEW c \in Clients, NEW k \in Keys, NEW q \in Requests, NEW a \in Authors,
            NEW n \in Revisions(k), NEW target \in {"APPROVED", "REVOKED"},
            RequestTransition(c, k, n, target, q, a)
     PROVE  OnlyLastIsOpen'
  BY SameTables, RevisionsType, <1>2 DEF RequestTransition
<1>3. ASSUME NEW c \in Clients, LockSource(c)
     PROVE  OnlyLastIsOpen'
  BY SameTables, RevisionsType, <1>3 DEF LockSource, Goto, Acquire
<1>4. ASSUME NEW c \in Clients, ProposalCheck(c)
     PROVE  OnlyLastIsOpen'
  BY SameTables, RevisionsType, <1>4 DEF ProposalCheck, Finish
<1>5. ASSUME NEW c \in Clients, LatestCheck(c)
     PROVE  OnlyLastIsOpen'
  BY SameTables, RevisionsType, <1>5 DEF LatestCheck, FirstRevision, Finish
<1>6. ASSUME NEW c \in Clients, InsertRevision(c)
     PROVE  OnlyLastIsOpen'
  BY SameTables, RevisionsType, <1>6 DEF InsertRevision, Finish
<1>7. ASSUME NEW c \in Clients, LockBinding(c)
     PROVE  OnlyLastIsOpen'
  BY SameTables, RevisionsType, <1>7 DEF LockBinding, Goto, Acquire
<1>8. ASSUME NEW c \in Clients, EventCheck(c)
     PROVE  OnlyLastIsOpen'
  BY SameTables, RevisionsType, <1>8 DEF EventCheck, Finish
<1>9. ASSUME NEW c \in Clients, SourceUnavailable(c)
     PROVE  OnlyLastIsOpen'
  BY SameTables, RevisionsType, <1>9 DEF SourceUnavailable, Finish
<1>10. ASSUME NEW c \in Clients, AppendEvent(c)
     PROVE  OnlyLastIsOpen'
  BY SameTables, RevisionsType, <1>10 DEF AppendEvent, Finish
<1>11. ASSUME NEW c \in Clients, Commit(c)
     PROVE  OnlyLastIsOpen'
  <2>0. PICK k \in Keys, n \in Nat : k = cmd[c].key /\ n = cmd[c].revision
    BY DEF TypeOK, Event
  <2>1. pc[c] = "commit" /\ cmd' = cmd
    BY <1>11 DEF Commit
  <2>2. /\ \A j \in Keys \ {k} : Revisions(j)' = Revisions(j)
        /\ Revisions(k)' = Revisions(k) \cup {n}
        /\ \A j \in Keys, m \in Nat : j # k \/ m # n => StateOf(j, m)' = StateOf(j, m)
    BY <1>11, <2>0, <2>1, CommitTables
  <2>3. /\ cmd[c].status = "PROPOSED" =>
              \A m \in Revisions(k) : m < n /\ StateOf(k, m) = "REVOKED"
        /\ cmd[c].status # "PROPOSED" => IsLatest(k, n) /\ StateOf(k, n) # "REVOKED"
    BY <2>0, <2>1, CommitFits
  <2>4. \A j \in Keys : Revisions(j) \subseteq Nat
    BY RevisionsType
  <2>5. ASSUME NEW l \in Nat, NEW m \in Nat, l < m,
               l \in Revisions(k) \cup {n}, m \in Revisions(k) \cup {n}
        PROVE  StateOf(k, l)' = "REVOKED"
    <3>1. l # n /\ l \in Revisions(k) /\ StateOf(k, l) = "REVOKED"
      BY <2>1, <2>3, <2>4, <2>5 DEF IsLatest
    <3>2. QED
      BY <2>1, <2>2, <2>5, <3>1
  <2>6. ASSUME NEW j \in Keys \ {k}, NEW l \in Revisions(j), NEW m \in Revisions(j), l < m
        PROVE  StateOf(j, l)' = "REVOKED"
    BY <2>2, <2>4, <2>6
  <2>7. ASSUME NEW j \in Keys, NEW l \in Revisions(j)', NEW m \in Revisions(j)', l < m
        PROVE  StateOf(j, l)' = "REVOKED"
    BY <2>1, <2>2, <2>4, <2>5, <2>6, <2>7
  <2>8. QED
    BY <2>7
<1>12. ASSUME NEW c \in Clients, Abort(c)
     PROVE  OnlyLastIsOpen'
  BY SameTables, RevisionsType, <1>12 DEF Abort, Finish
<1>13. CASE UNCHANGED vars
  BY SameTables, RevisionsType, <1>13 DEF vars
<1>14. QED
  BY <1>1, <1>2, <1>3, <1>4, <1>5, <1>6, <1>7,
     <1>8, <1>9, <1>10, <1>11, <1>12, <1>13 DEF Next, Step

\* The kind of a command, a proposal or a transition, fits the place its client is at.
LEMMA FitStep ==
    ASSUME TypeOK, CommandsFit, [Next]_vars
    PROVE  CommandsFit'
<1> USE LifecycleAssumption DEF TypeOK, Event, Status, Resting, CommandsFit
<1>1. ASSUME NEW c \in Clients, NEW k \in Keys, NEW q \in Requests, NEW a \in Authors,
            Propose(c, k, q, a)
     PROVE  CommandsFit'
  BY <1>1 DEF Propose
<1>2. ASSUME NEW c \in Clients, NEW k \in Keys, NEW q \in Requests, NEW a \in Authors,
            NEW n \in Revisions(k), NEW target \in {"APPROVED", "REVOKED"},
            RequestTransition(c, k, n, target, q, a)
     PROVE  CommandsFit'
  BY <1>2 DEF RequestTransition
<1>3. ASSUME NEW c \in Clients, LockSource(c)
     PROVE  CommandsFit'
  BY <1>3 DEF LockSource, Goto, Acquire
<1>4. ASSUME NEW c \in Clients, ProposalCheck(c)
     PROVE  CommandsFit'
  BY <1>4 DEF ProposalCheck, Finish
<1>5. ASSUME NEW c \in Clients, LatestCheck(c)
     PROVE  CommandsFit'
  BY <1>5 DEF LatestCheck, FirstRevision, Finish
<1>6. ASSUME NEW c \in Clients, InsertRevision(c)
     PROVE  CommandsFit'
  BY <1>6 DEF InsertRevision, Finish
<1>7. ASSUME NEW c \in Clients, LockBinding(c)
     PROVE  CommandsFit'
  BY <1>7 DEF LockBinding, Goto, Acquire
<1>8. ASSUME NEW c \in Clients, EventCheck(c)
     PROVE  CommandsFit'
  BY <1>8 DEF EventCheck, Finish
<1>9. ASSUME NEW c \in Clients, SourceUnavailable(c)
     PROVE  CommandsFit'
  BY <1>9 DEF SourceUnavailable, Finish
<1>10. ASSUME NEW c \in Clients, AppendEvent(c)
     PROVE  CommandsFit'
  BY <1>10 DEF AppendEvent, Finish
<1>11. ASSUME NEW c \in Clients, Commit(c)
     PROVE  CommandsFit'
  BY <1>11 DEF Commit, Finish
<1>12. ASSUME NEW c \in Clients, Abort(c)
     PROVE  CommandsFit'
  BY <1>12 DEF Abort, Finish
<1>13. CASE UNCHANGED vars
  BY <1>13 DEF vars
<1>14. QED
  BY <1>1, <1>2, <1>3, <1>4, <1>5, <1>6, <1>7,
     <1>8, <1>9, <1>10, <1>11, <1>12, <1>13 DEF Next, Step

\* Every step keeps request ids unique: only Commit adds an event, and its id is new.
LEMMA UniqueStep ==
    ASSUME TypeOK, OneEventPerRequest, PendingIsNew, [Next]_vars
    PROVE  OneEventPerRequest'
<1> USE LifecycleAssumption DEF TypeOK, OneEventPerRequest, PendingIsNew, RequestIsNew
<1>1. ASSUME NEW c \in Clients, NEW k \in Keys, NEW q \in Requests, NEW a \in Authors,
            Propose(c, k, q, a)
     PROVE  OneEventPerRequest'
  BY <1>1 DEF Propose
<1>2. ASSUME NEW c \in Clients, NEW k \in Keys, NEW q \in Requests, NEW a \in Authors,
            NEW n \in Revisions(k), NEW target \in {"APPROVED", "REVOKED"},
            RequestTransition(c, k, n, target, q, a)
     PROVE  OneEventPerRequest'
  BY <1>2 DEF RequestTransition
<1>3. ASSUME NEW c \in Clients, LockSource(c)
     PROVE  OneEventPerRequest'
  BY <1>3 DEF LockSource, Goto, Acquire
<1>4. ASSUME NEW c \in Clients, ProposalCheck(c)
     PROVE  OneEventPerRequest'
  BY <1>4 DEF ProposalCheck, Finish
<1>5. ASSUME NEW c \in Clients, LatestCheck(c)
     PROVE  OneEventPerRequest'
  BY <1>5 DEF LatestCheck, FirstRevision, Finish
<1>6. ASSUME NEW c \in Clients, InsertRevision(c)
     PROVE  OneEventPerRequest'
  BY <1>6 DEF InsertRevision, Finish
<1>7. ASSUME NEW c \in Clients, LockBinding(c)
     PROVE  OneEventPerRequest'
  BY <1>7 DEF LockBinding, Goto, Acquire
<1>8. ASSUME NEW c \in Clients, EventCheck(c)
     PROVE  OneEventPerRequest'
  BY <1>8 DEF EventCheck, Finish
<1>9. ASSUME NEW c \in Clients, SourceUnavailable(c)
     PROVE  OneEventPerRequest'
  BY <1>9 DEF SourceUnavailable, Finish
<1>10. ASSUME NEW c \in Clients, AppendEvent(c)
     PROVE  OneEventPerRequest'
  BY <1>10 DEF AppendEvent, Finish
<1>11. ASSUME NEW c \in Clients, Commit(c)
     PROVE  OneEventPerRequest'
  BY <1>11 DEF Commit, Finish
<1>12. ASSUME NEW c \in Clients, Abort(c)
     PROVE  OneEventPerRequest'
  BY <1>12 DEF Abort, Finish
<1>13. CASE UNCHANGED vars
  BY <1>13 DEF vars
<1>14. QED
  BY <1>1, <1>2, <1>3, <1>4, <1>5, <1>6, <1>7,
     <1>8, <1>9, <1>10, <1>11, <1>12, <1>13 DEF Next, Step

\* Every step keeps the successes on record: a command ends well with its own event
\* committed, or with an event found under its request id, and events are never deleted.
LEMMA SuccessStep ==
    ASSUME TypeOK, SuccessIsRecorded, [Next]_vars
    PROVE  SuccessIsRecorded'
<1> USE LifecycleAssumption DEF TypeOK, Resting, SuccessIsRecorded, SameRequest
<1>1. ASSUME NEW c \in Clients, NEW k \in Keys, NEW q \in Requests, NEW a \in Authors,
            Propose(c, k, q, a)
     PROVE  SuccessIsRecorded'
  BY <1>1 DEF Propose
<1>2. ASSUME NEW c \in Clients, NEW k \in Keys, NEW q \in Requests, NEW a \in Authors,
            NEW n \in Revisions(k), NEW target \in {"APPROVED", "REVOKED"},
            RequestTransition(c, k, n, target, q, a)
     PROVE  SuccessIsRecorded'
  BY <1>2 DEF RequestTransition
<1>3. ASSUME NEW c \in Clients, LockSource(c)
     PROVE  SuccessIsRecorded'
  BY <1>3 DEF LockSource, Goto, Acquire
<1>4. ASSUME NEW c \in Clients, ProposalCheck(c)
     PROVE  SuccessIsRecorded'
  BY <1>4 DEF ProposalCheck, Finish, Proposals
<1>5. ASSUME NEW c \in Clients, LatestCheck(c)
     PROVE  SuccessIsRecorded'
  BY <1>5 DEF LatestCheck, FirstRevision, Finish
<1>6. ASSUME NEW c \in Clients, InsertRevision(c)
     PROVE  SuccessIsRecorded'
  BY <1>6 DEF InsertRevision, Finish
<1>7. ASSUME NEW c \in Clients, LockBinding(c)
     PROVE  SuccessIsRecorded'
  BY <1>7 DEF LockBinding, Goto, Acquire
<1>8. ASSUME NEW c \in Clients, EventCheck(c)
     PROVE  SuccessIsRecorded'
  BY <1>8 DEF EventCheck, Finish, Recorded
<1>9. ASSUME NEW c \in Clients, SourceUnavailable(c)
     PROVE  SuccessIsRecorded'
  BY <1>9 DEF SourceUnavailable, Finish
<1>10. ASSUME NEW c \in Clients, AppendEvent(c)
     PROVE  SuccessIsRecorded'
  BY <1>10 DEF AppendEvent, Finish
<1>11. ASSUME NEW c \in Clients, Commit(c)
     PROVE  SuccessIsRecorded'
  BY <1>11 DEF Commit, Finish
<1>12. ASSUME NEW c \in Clients, Abort(c)
     PROVE  SuccessIsRecorded'
  BY <1>12 DEF Abort, Finish
<1>13. CASE UNCHANGED vars
  BY <1>13 DEF vars
<1>14. QED
  BY <1>1, <1>2, <1>3, <1>4, <1>5, <1>6, <1>7,
     <1>8, <1>9, <1>10, <1>11, <1>12, <1>13 DEF Next, Step

\* The invariant holds of the empty tables.
LEMMA InitIInv == Init => IInv
<1> SUFFICES ASSUME Init PROVE IInv
  OBVIOUS
<1>1. events = {} /\ locks = {} /\ \A c \in Clients : pc[c] = "idle"
  BY DEF Init
<1>2. TypeOK
  BY DEF Init, TypeOK, Event, Status, Steps, Resting
<1>3. \A k \in Keys : Revisions(k) = {}
  BY <1>1 DEF Revisions
<1>4. OneEventPerRequest /\ Exclusive /\ PendingIsNew /\ CommandsFit
  BY <1>1 DEF OneEventPerRequest, Exclusive, PendingIsNew, CommandsFit
<1>5. LocksHold
  BY <1>1 DEF LocksHold, Proposing, Changing
<1>6. PendingIsNext
  BY <1>1 DEF PendingIsNext
<1>7. OnlyLastIsOpen
  BY <1>3 DEF OnlyLastIsOpen
<1>8. QED
  BY <1>2, <1>4, <1>5, <1>6, <1>7 DEF IInv

\* Every step keeps the whole invariant.
LEMMA StepIInv == IInv /\ [Next]_vars => IInv'
BY TypeStep, ExclusiveStep, LocksStep, FitStep, UniqueStep, NewStep, NextStep, OpenStep
   DEF IInv

\* The invariant holds in every reachable state.
THEOREM Inductive == Spec => []IInv
BY InitIInv, StepIInv, PTL DEF Spec

\* Every variable keeps its type, for any number of commands on any keys.
THEOREM Typing == Spec => []TypeOK
<1>1. IInv => TypeOK
  BY DEF IInv
<1>2. QED
  BY Inductive, <1>1, PTL

\* However commands interleave, abort and are retried, a request id (idempotency
\* key) names at most one lifecycle event of the institution.
THEOREM Idempotency == Spec => []OneEventPerRequest
<1>1. IInv => OneEventPerRequest
  BY DEF IInv
<1>2. QED
  BY Inductive, <1>1, PTL

\* A command that was told it succeeded is on record as it was asked, also when it
\* was answered from an earlier execution of its request.
THEOREM RecordedSuccess == Spec => []SuccessIsRecorded
<1>1. Init => SuccessIsRecorded
  BY DEF Init, SuccessIsRecorded
<1>2. IInv => TypeOK
  BY DEF IInv
<1>3. SuccessIsRecorded /\ TypeOK /\ [Next]_vars => SuccessIsRecorded'
  BY SuccessStep
<1>4. QED
  BY Inductive, <1>1, <1>2, <1>3, PTL DEF Spec

\* No trigger refuses what the service decided under its locks.
THEOREM TriggersConfirm == Spec => []TriggersAgree
<1>1. ASSUME IInv
      PROVE  TriggersAgree
  <2>1. ASSUME NEW c \in Clients, pc[c] = "insertRevision"
        PROVE  RevisionGuard(cmd[c].key, cmd[c].revision)
    BY <1>1, <2>1 DEF IInv, PendingIsNext
  <2>2. ASSUME NEW c \in Clients, pc[c] = "appendEvent"
        PROVE  EventGuard(cmd[c])
    <3>1. Transition(StateOf(cmd[c].key, cmd[c].revision), cmd[c].status)
      BY <1>1, <2>2 DEF IInv, PendingIsNext
    <3>2. QED
      BY <3>1 DEF Transition, StateOf, EventGuard
  <2>3. QED
    BY <2>1, <2>2 DEF TriggersAgree
<1>2. QED
  BY Inductive, <1>1, PTL

\* Only a commit changes the committed tables.
LEMMA OnlyCommitsShow ==
    ASSUME [Next]_vars
    PROVE  events' = events \/ \E c \in Clients : Commit(c)
<1>1. ASSUME NEW c \in Clients, NEW k \in Keys, NEW q \in Requests, NEW a \in Authors,
             Propose(c, k, q, a)
      PROVE  events' = events
  BY <1>1 DEF Propose
<1>2. ASSUME NEW c \in Clients, NEW k \in Keys, NEW q \in Requests, NEW a \in Authors,
             NEW n \in Revisions(k), NEW target \in {"APPROVED", "REVOKED"},
             RequestTransition(c, k, n, target, q, a)
      PROVE  events' = events
  BY <1>2 DEF RequestTransition
<1>3. ASSUME NEW c \in Clients, Step(c) \/ Abort(c)
      PROVE  events' = events \/ Commit(c)
  BY <1>3 DEF Step, LockSource, ProposalCheck, LatestCheck, InsertRevision, LockBinding,
         EventCheck, SourceUnavailable, AppendEvent, Abort
<1>4. CASE UNCHANGED vars
  BY <1>4 DEF vars
<1>5. QED
  BY <1>1, <1>2, <1>3, <1>4 DEF Next

\* A commit is one step of BindingReview.
LEMMA CommitReviews ==
    ASSUME IInv, NEW c \in Clients, Commit(c)
    PROVE  Review!Next
<1> DEFINE review == [j \in Keys |-> ReviewOf(j)]
<1> USE DEF IInv
<1>1. PICK k \in Keys, n \in Nat, s \in Status :
          k = cmd[c].key /\ n = cmd[c].revision /\ s = cmd[c].status
  BY DEF TypeOK, Event
<1>2. pc[c] = "commit"
  BY DEF Commit
<1>3. /\ \A j \in Keys \ {k} : Revisions(j)' = Revisions(j)
      /\ Revisions(k)' = Revisions(k) \cup {n}
      /\ \A j \in Keys, m \in Nat : j # k \/ m # n => StateOf(j, m)' = StateOf(j, m)
      /\ \A j \in Keys, m \in Nat : j = k /\ m = n => StateOf(j, m)' = s
  <2>1. cmd' = cmd
    BY DEF Commit
  <2>2. PICK i \in Keys : i = k
    OBVIOUS
  <2>3. Revisions(i)' = Revisions(i) \cup {n}
    BY <1>1, <2>1, <2>2, CommitTables
  <2>4. QED
    BY <1>1, <2>1, <2>2, <2>3, CommitTables
<1>4. \A j \in Keys : Revisions(j) \subseteq Nat
  BY RevisionsType
<1>5. \A j \in Keys : /\ DOMAIN review[j] = Revisions(j)
                      /\ \A m \in Revisions(j) : review[j][m] = StateOf(j, m)
  BY DEF ReviewOf
<1>6. Review!Put(k, n, s)
  <2>1. \A j \in Keys \ {k} : ReviewOf(j)' = ReviewOf(j)
    BY <1>3, <1>4 DEF ReviewOf
  <2>2. ReviewOf(k)' = [m \in DOMAIN review[k] \cup {n} |-> IF m = n THEN s ELSE review[k][m]]
    <3>1. ReviewOf(k)' = [m \in Revisions(k) \cup {n} |-> StateOf(k, m)']
      BY <1>3 DEF ReviewOf
    <3>2. \A m \in Revisions(k) \cup {n} :
             StateOf(k, m)' = IF m = n THEN s ELSE review[k][m]
      BY <1>3, <1>4, <1>5
    <3>3. QED
      BY <1>5, <3>1, <3>2
  <2>3. QED
    BY <2>1, <2>2 DEF Review!Put
<1>7. CASE s = "PROPOSED"
  <2>1. RevisionGuard(k, n)
    BY <1>1, <1>2, <1>7 DEF PendingIsNext
  <2>2. Review!NextRevision(k, n)
    BY <1>4, <1>5, <2>1 DEF Review!NextRevision, Review!Last, RevisionGuard, IsLatest
  <2>3. n \in {1} \cup {m + 1 : m \in DOMAIN review[k]}
    BY <1>5, <2>1 DEF RevisionGuard, IsLatest
  <2>4. Review!Propose(k, n)
    BY <1>6, <1>7, <2>2 DEF Review!Propose
  <2>5. QED
    BY <2>3, <2>4 DEF Review!Next
<1>8. CASE s # "PROPOSED"
  <2>1. IsLatest(k, n) /\ Transition(StateOf(k, n), s)
    BY <1>1, <1>2, <1>8, CommitFits DEF PendingIsNext
  <2>2. n \in DOMAIN review[k] /\ review[k][n] = StateOf(k, n) /\ Review!Last(k, n)
    BY <1>5, <2>1 DEF IsLatest, Review!Last
  <2>3. Review!Approve(k, n) \/ Review!Revoke(k, n)
    BY <1>6, <1>8, <2>1, <2>2 DEF Transition, Review!Approve, Review!Revoke
  <2>4. QED
    BY <2>2, <2>3 DEF Review!Next
<1>9. QED
  BY <1>7, <1>8

\* The concurrent commands implement BindingReview: a revision only ever goes
\* PROPOSED, APPROVED, REVOKED, and the next one waits for its revocation.
THEOREM Refinement == Spec => FollowsReview
<1> DEFINE review == [k \in Keys |-> ReviewOf(k)]
<1>1. Init => Review!Init
  BY DEF Init, ReviewOf, Revisions, Review!Init
<1>2. ASSUME IInv, [Next]_vars
      PROVE  [Review!Next]_review
  <2>1. CASE events' = events
    BY <2>1, SameTables DEF ReviewOf, Revisions, StateOf, Has
  <2>2. CASE \E c \in Clients : Commit(c)
    BY <1>2, <2>2, CommitReviews
  <2>3. QED
    BY <1>2, <2>1, <2>2, OnlyCommitsShow
<1>3. QED
  BY Inductive, <1>1, <1>2, PTL DEF Spec, FollowsReview, Review!Spec
=============================================================================
