--------------------------- MODULE IngestionQueue ---------------------------
(***************************************************************************)
(* IngestionRepository: ingestion runs, their jobs with attempts and       *)
(* leases, and the chunks of a run, as READ COMMITTED transactions that    *)
(* the caller commits.                                                     *)
(*                                                                         *)
(* The callers are not part of the repository: clients that enqueue and    *)
(* cancel, and workers that acquire a job, commit, and work.  A worker     *)
(* saves chunks, in a transaction of their own or in the one of its        *)
(* report, and reports any outcome, with chunks or without.  It may die    *)
(* anywhere, and may go on after its lease has run out: nothing tells it.  *)
(*                                                                         *)
(* A lease is the time it has left; Tick is the clock.  tables hold what   *)
(* is committed; what is written and not committed follows from pc.        *)
(***************************************************************************)
EXTENDS Integers

CONSTANTS
    Workers,
    Clients,      \* who enqueue
    Cancellers,   \* those of them who cancel as well
    Runs,         \* ids of runs, numbered in the order of recorded_at of their jobs
    Keys,         \* binding with versions and configuration
    KeyOf,        \* KeyOf[r]: what run r is created for
    Ordinals,     \* of the chunks of a run
    Batches,      \* the ordinals that a worker saves at once
    LeaseTicks,   \* lease_seconds
    MaxAttempts   \* max_attempts

ASSUME QueueAssumption ==
    /\ Workers \cap Clients = {}
    /\ Cancellers \subseteq Clients
    /\ Runs \subseteq Nat
    /\ KeyOf \in [Runs -> Keys]
    /\ Batches \subseteq SUBSET Ordinals
    /\ \E first \in Ordinals : \A batch \in Batches : first \in batch
    /\ LeaseTicks \in Nat
    /\ MaxAttempts \in Nat \ {0}

VARIABLES
    runs,     \* status of a run, NONE before it exists
    jobs,     \* the job of a run, NoJob before it exists
    chunks,   \* [run, ordinal, attempt], with the attempt that saved it
    pc,       \* where a client or a worker is
    cmd       \* what it is at, with what it has read

tables == <<runs, jobs, chunks>>
vars == <<runs, jobs, chunks, pc, cmd>>

Processes == Workers \cup Clients

RunStatus == {"RUNNING", "FAILED", "COMPLETED"}
NoLease == -1  \* leased_until IS NULL
Final == {"READY", "REVIEW_REQUIRED", "FAILED", "CANCELLED"}
Job == [status : {"QUEUED", "RUNNING"} \cup Final, attempt : 0..MaxAttempts,
        lease : Nat \cup {NoLease}]
NoJob == [status |-> "NONE", attempt |-> 0, lease |-> NoLease]
Chunk == [run : Runs, ordinal : Ordinals, attempt : 1..MaxAttempts]

\* run; attempt and lease as acquired; the batch inserted and not committed; the status
\* to report, with the columns that differ from the row as it was read.
Command == [run : Runs, attempt : 0..MaxAttempts, lease : Nat, batch : Batches \cup {{}},
            status : Final \cup {"NONE"}, columns : SUBSET {"status", "lease"}]
Nothing == [run |-> -1]

Steps == {"idle", "insert", "enqueued", "acquired", "working", "saved", "report", "reported"}

TypeOK ==
    /\ runs \in [Runs -> RunStatus \cup {"NONE"}]
    /\ jobs \in [Runs -> Job \cup {NoJob}]
    /\ chunks \subseteq Chunk
    /\ pc \in [Processes -> Steps]
    /\ cmd \in [Processes -> Command \cup {Nothing}]
    /\ \A r \in Runs : jobs[r].status = "RUNNING" => jobs[r].lease # NoLease

Init ==
    /\ runs = [r \in Runs |-> "NONE"]
    /\ jobs = [r \in Runs |-> NoJob]
    /\ chunks = {}
    /\ pc = [p \in Processes |-> "idle"]
    /\ cmd = [p \in Processes |-> Nothing]
-----------------------------------------------------------------------------
Goto(p, from, to) ==
    /\ pc[p] = from
    /\ pc' = [pc EXCEPT ![p] = to]

\* p begins to work on run r, at step.
Begin(p, step, r, attempt, lease) ==
    /\ Goto(p, "idle", step)
    /\ cmd' = [cmd EXCEPT ![p] = [run |-> r, attempt |-> attempt, lease |-> lease,
                                  batch |-> {}, status |-> "NONE", columns |-> {}]]
    /\ UNCHANGED tables

End(p) ==
    /\ pc' = [pc EXCEPT ![p] = "idle"]
    /\ cmd' = [cmd EXCEPT ![p] = Nothing]

On(p, r) == pc[p] # "idle" /\ cmd[p].run = r

\* Mutant of Locked: a worker takes a job without FOR UPDATE.
LockedByReport(r) == \E p \in Processes : On(p, r) /\ pc[p] = "reported"

\* p holds the row of the job of run r, by FOR UPDATE or by an UPDATE.
Locked(r) == \E p \in Processes : On(p, r) /\ pc[p] \in {"acquired", "reported"}

\* p has inserted chunks of run r and not committed.
Saving(p, r) == On(p, r) /\ cmd[p].batch # {}
-----------------------------------------------------------------------------
KeyTaken(key) == \E r \in Runs : runs[r] # "NONE" /\ KeyOf[r] = key

\* enqueue_run finds no run for the key; otherwise it returns the one there is.
Enqueue(p, r) ==
    /\ runs[r] = "NONE" /\ \A q \in Processes : ~On(q, r)
    /\ ~KeyTaken(KeyOf[r])
    /\ Begin(p, "insert", r, 0, 0)

\* Mutant of InsertRun: runs are not unique.
InsertAnyRun(p) == Goto(p, "insert", "enqueued") /\ UNCHANGED <<tables, cmd>>

\* uq_rag_ingestion_run_idempotency: the insert waits for an uncommitted run with
\* the same key, and fails beside a committed one (IDEMPOTENCY_CONFLICT).
InsertRun(p) ==
    LET key == KeyOf[cmd[p].run] IN
    /\ pc[p] = "insert"
    /\ \A q \in Processes : pc[q] = "enqueued" => KeyOf[cmd[q].run] # key
    /\ \/ ~KeyTaken(key) /\ Goto(p, "insert", "enqueued") /\ UNCHANGED <<tables, cmd>>
       \/ KeyTaken(key) /\ End(p) /\ UNCHANGED tables

\* Run and job are committed together.
CommitRun(p) ==
    LET r == cmd[p].run IN
    /\ pc[p] = "enqueued"
    /\ runs' = [runs EXCEPT ![r] = "RUNNING"]
    /\ jobs' = [jobs EXCEPT ![r] = [status |-> "QUEUED", attempt |-> 0, lease |-> NoLease]]
    /\ UNCHANGED chunks
    /\ End(p)
-----------------------------------------------------------------------------
\* Mutant of Available: a running job is taken over before its lease has run out.
AvailableBeforeExpiry(r) ==
    /\ jobs[r].status \in {"QUEUED", "RUNNING"}
    /\ jobs[r].attempt < MaxAttempts

\* Mutant of Available: only queued jobs are taken.
AvailableQueued(r) == jobs[r].status = "QUEUED" /\ jobs[r].attempt < MaxAttempts

Available(r) ==
    /\ \/ jobs[r].status = "QUEUED"
       \/ jobs[r].status = "RUNNING" /\ jobs[r].lease = 0
    /\ jobs[r].attempt < MaxAttempts

\* acquire_job: the oldest available job that nobody has locked.
Acquire(p) == \E r \in Runs :
    /\ Available(r) /\ ~Locked(r)
    /\ \A s \in Runs : s < r => ~Available(s) \/ Locked(s)
    /\ Begin(p, "acquired", r, jobs[r].attempt + 1, LeaseTicks)

CommitAcquire(p) ==
    /\ Goto(p, "acquired", "working")
    /\ jobs' = [jobs EXCEPT ![cmd[p].run] =
                   [status |-> "RUNNING", attempt |-> cmd[p].attempt, lease |-> cmd[p].lease]]
    /\ UNCHANGED <<runs, chunks, cmd>>

ChunksOf(r) == {x \in chunks : x.run = r}

\* The batch as rows of a run, saved in its n-th attempt.
Rows(r, batch, n) == {[run |-> r, ordinal |-> o, attempt |-> n] : o \in batch}

Saved(p) == Rows(cmd[p].run, cmd[p].batch, cmd[p].attempt)

\* Mutant of SaveChunks: an ordinal may be there twice.
SaveBeside(p) == \E batch \in Batches :
    /\ Goto(p, "working", "saved")
    /\ cmd' = [cmd EXCEPT ![p].batch = batch]
    /\ UNCHANGED tables

\* save_chunks inserts a batch: it waits for an uncommitted chunk of the run with the
\* same ordinal, and fails beside a committed one; then the worker can only report.
SaveChunks(p) == \E batch \in Batches :
    /\ Goto(p, "working", "saved")
    /\ \A q \in Processes : Saving(q, cmd[p].run) => cmd[q].batch \cap batch = {}
    /\ \A x \in ChunksOf(cmd[p].run) : x.ordinal \notin batch
    /\ cmd' = [cmd EXCEPT ![p].batch = batch]
    /\ UNCHANGED tables

\* The chunks are committed before anything is reported,
CommitChunks(p) ==
    /\ Goto(p, "saved", "working")
    /\ chunks' = chunks \cup Saved(p)
    /\ cmd' = [cmd EXCEPT ![p].batch = {}]
    /\ UNCHANGED <<runs, jobs>>

\* A final status comes with leased_until = None.
ColumnsToWrite(job, status) ==
    (IF job.status = status THEN {} ELSE {"status"})
        \cup (IF job.lease = NoLease THEN {} ELSE {"lease"})

\* or in the transaction of the report: update_job reads the job without a lock, in the
\* transaction of the chunks or in one of its own, whatever the outcome.
Report(p) == \E from \in {"working", "saved"}, status \in Final \ {"CANCELLED"} :
    /\ Goto(p, from, "report")
    /\ cmd' = [cmd EXCEPT ![p].status = status,
                          ![p].columns = ColumnsToWrite(jobs[cmd[p].run], status)]
    /\ UNCHANGED tables

\* A cancellation is update_job by a client that has acquired nothing.
Cancel(p, r) ==
    /\ jobs[r] # NoJob
    /\ Goto(p, "idle", "report")
    /\ cmd' = [cmd EXCEPT ![p] = [run |-> r, attempt |-> 0, lease |-> 0, batch |-> {},
                                  status |-> "CANCELLED",
                                  columns |-> ColumnsToWrite(jobs[r], "CANCELLED")]]
    /\ UNCHANGED tables

\* The UPDATE waits for the row,
WriteJob(p) ==
    /\ ~Locked(cmd[p].run)
    /\ Goto(p, "report", "reported")
    /\ UNCHANGED <<tables, cmd>>

\* and writes its columns: a lease granted in between to a job read without one stays.
JobAfter(p) ==
    [jobs[cmd[p].run] EXCEPT
        !.status = IF "status" \in cmd[p].columns THEN cmd[p].status ELSE @,
        !.lease = IF "lease" \in cmd[p].columns THEN NoLease ELSE @]

\* A failed or cancelled job fails its run, whatever attempts are left.
FailsRun(status) == status \in {"FAILED", "CANCELLED"}

CommitReport(p) ==
    LET r == cmd[p].run IN
    /\ pc[p] = "reported"
    /\ jobs' = [jobs EXCEPT ![r] = JobAfter(p)]
    /\ runs' = IF FailsRun(cmd[p].status) THEN [runs EXCEPT ![r] = "FAILED"] ELSE runs
    /\ chunks' = chunks \cup Saved(p)
    /\ End(p)
-----------------------------------------------------------------------------
\* The process dies, or rolls back and gives up.
Crash(p) ==
    /\ pc[p] # "idle"
    /\ End(p)
    /\ UNCHANGED tables

Less(lease) == IF lease > 0 THEN lease - 1 ELSE lease

Tick ==
    /\ jobs' = [r \in Runs |-> [jobs[r] EXCEPT !.lease = Less(@)]]
    /\ cmd' = [p \in Processes |->
                  IF pc[p] = "idle" THEN cmd[p] ELSE [cmd[p] EXCEPT !.lease = Less(@)]]
    /\ UNCHANGED <<runs, chunks, pc>>

\* What a worker does of itself.
WorkerStep(w) ==
    \/ Acquire(w)
    \/ CommitAcquire(w)
    \/ SaveChunks(w)
    \/ CommitChunks(w)
    \/ Report(w)
    \/ WriteJob(w)
    \/ CommitReport(w)

ClientStep(c) ==
    \/ InsertRun(c)
    \/ CommitRun(c)
    \/ WriteJob(c)
    \/ CommitReport(c)

Next ==
    \/ \E w \in Workers : WorkerStep(w)
    \/ \E c \in Clients :
          \/ ClientStep(c)
          \/ \E r \in Runs : Enqueue(c, r)
          \/ \E r \in Runs : c \in Cancellers /\ Cancel(c, r)
    \/ \E p \in Processes : Crash(p)
    \/ Tick

Spec ==
    /\ Init /\ [][Next]_vars
    /\ \A w \in Workers :
          SF_vars(WorkerStep(w)) /\ SF_vars(Acquire(w)) /\ SF_vars(CommitAcquire(w))
    /\ \A c \in Clients : WF_vars(ClientStep(c))
    /\ WF_vars(Tick)
-----------------------------------------------------------------------------
\* Requests for one binding, versions and configuration get one run, and a run has
\* its job, however the requests race.
OneRunPerKey ==
    /\ \A r, s \in Runs :
          runs[r] # "NONE" /\ runs[s] # "NONE" /\ KeyOf[r] = KeyOf[s] => r = s
    /\ \A r \in Runs : runs[r] = "NONE" <=> jobs[r] = NoJob

AtWork(w, r) == w \in Workers /\ On(w, r)

\* An attempt of a job is given to one worker only, and the job remembers the last.
AttemptsAreGrantedOnce ==
    \A r \in Runs : \A w \in Workers : AtWork(w, r) =>
        /\ cmd[w].attempt <= jobs[r].attempt \/ pc[w] = "acquired"
        /\ \A x \in Workers \ {w} : AtWork(x, r) => cmd[x].attempt # cmd[w].attempt

\* The tables of the queue: well-formed, attempts within max_attempts, one run for a key
\* and one worker for an attempt.
QueueInv == TypeOK /\ OneRunPerKey /\ AttemptsAreGrantedOnce

\* While the lease of a worker runs, nobody else is given its job.
LiveLeaseIsExclusive ==
    \A r \in Runs : \A w, x \in Workers :
        AtWork(w, r) /\ AtWork(x, r) /\ w # x => cmd[w].lease = 0 \/ cmd[x].lease = 0

\* The chunks of a run are one whole batch of one attempt, although a worker that
\* lost its lease saves its own as well, and whatever outcome either reports.
ChunksAreOneBatch ==
    \A r \in Runs :
        \/ ChunksOf(r) = {}
        \/ \E batch \in Batches, n \in 1..MaxAttempts : ChunksOf(r) = Rows(r, batch, n)

\* A job that is settled is never taken up again, however acquisitions, cancellations
\* and the reports of ousted workers cross.
SettledForGood ==
    [][\A r \in Runs : jobs[r].status \in Final =>
          jobs'[r].status \in Final /\ jobs'[r].attempt = jobs[r].attempt]_vars

\* "If job fails and exhausts attempts (or is explicitly cancelled), fail the run": a
\* worker's report fails a run only when the attempts of its job are used up.
FailsWhenExhausted ==
    [][\A w \in Workers :
          CommitReport(w) /\ runs' # runs => jobs[cmd[w].run].attempt = MaxAttempts]_vars

\* A job that is queued or whose worker died is taken again until it is settled or its
\* attempts are used up.  One that dies in its last attempt stays RUNNING.
EveryJobSettles ==
    \A r \in Runs :
        jobs[r] # NoJob ~> jobs[r].status \in Final \/ jobs[r].attempt = MaxAttempts
-----------------------------------------------------------------------------
\* A client or worker at work has a command; a batch of chunks is a worker's.
CommandsAreThere ==
    \A p \in Processes :
        /\ pc[p] # "idle" => cmd[p] \in Command
        /\ pc[p] \in {"insert", "enqueued"} => p \in Clients
        /\ pc[p] \in {"acquired", "working", "saved"} => p \in Workers
        /\ pc[p] # "idle" /\ p \in Workers => cmd[p].attempt > 0
        /\ pc[p] \in {"report", "reported"} => cmd[p].status \in Final
        /\ pc[p] # "idle" /\ cmd[p].batch # {} =>
              p \in Workers /\ pc[p] \in {"saved", "report", "reported"}

\* A run is enqueued by one client before anybody can work on it.
EnqueuingIsAlone ==
    /\ \A p \in Processes : pc[p] \in {"insert", "enqueued"} =>
          /\ runs[cmd[p].run] = "NONE"
          /\ \A q \in Processes \ {p} : ~On(q, cmd[p].run)
    /\ \A p, q \in Processes : pc[p] = "enqueued" =>
          /\ ~KeyTaken(KeyOf[cmd[p].run])
          /\ pc[q] = "enqueued" /\ p # q => KeyOf[cmd[p].run] # KeyOf[cmd[q].run]
    /\ \A p \in Processes : pc[p] \notin {"idle", "insert", "enqueued"} => jobs[cmd[p].run] # NoJob

\* The row of a job is held by one process, and a job being acquired is still available.
RowIsHeld ==
    \A p \in Processes :
        /\ \A q \in Processes \ {p} : ~(/\ pc[p] \in {"acquired", "reported"}
                                         /\ pc[q] \in {"acquired", "reported"}
                                         /\ cmd[p].run = cmd[q].run)
        /\ pc[p] = "acquired" =>
              /\ jobs[cmd[p].run].status \in {"QUEUED", "RUNNING"}
              /\ cmd[p].attempt = jobs[cmd[p].run].attempt + 1

\* A worker has been given its job, and has no more of a lease than the job when the
\* job is running.  The leases of earlier attempts have run out.
LeasesAreOrdered ==
    \A w \in Workers : pc[w] # "idle" =>
        LET job == jobs[cmd[w].run] IN
        /\ pc[w] # "acquired" =>
              /\ job.status # "QUEUED"
              /\ cmd[w].attempt <= job.attempt
              /\ job.status = "RUNNING" => cmd[w].lease <= job.lease
        /\ \A x \in Workers :
              pc[x] # "idle" /\ cmd[x].run = cmd[w].run /\ cmd[x].attempt < cmd[w].attempt
                 => cmd[x].lease = 0

\* One worker at most is saving chunks of a run, and only while there are none.
SavingIsAlone ==
    \A p \in Processes : \A r \in Runs : Saving(p, r) =>
        /\ ChunksOf(r) = {}
        /\ \A q \in Processes \ {p} : ~Saving(q, r)

\* What a report leaves out was final already.
ReportsAreFinal ==
    \A p \in Processes : pc[p] \in {"report", "reported"} /\ "status" \notin cmd[p].columns =>
        jobs[cmd[p].run].status \in Final

\* The inductive invariant.
IInv ==
    /\ QueueInv
    /\ CommandsAreThere
    /\ EnqueuingIsAlone
    /\ RowIsHeld
    /\ LeasesAreOrdered
    /\ SavingIsAlone
    /\ ReportsAreFinal
    /\ LiveLeaseIsExclusive
    /\ ChunksAreOneBatch
=============================================================================
