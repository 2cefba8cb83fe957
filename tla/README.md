# A TLA+ model of the Placement Intelligence Platform

The program is a FastAPI service (`src/apps/api/app`, about 5,900 lines of Python) over PostgreSQL (READ
COMMITTED), a Qdrant vector index, an HTTP embedding provider and an LLM. Several workers and request handlers run
at once, share nothing in memory that matters, and exclude each other only through row locks, unique constraints
and triggers. Qdrant is not part of any transaction. That is where the hard behaviour is, and what these modules
are about.

Files: one module per component, `MC*.tla` and `*.cfg` for TLC, `*Proofs.tla` for the proof system, `PROJECT.json`
for the runs, the mutants, the map from definitions to source lines, the findings and the hazards.

## 1. Inventory

Paths are relative to `src/apps/api/app` unless they start with `docs/` or `migrations/`.

| Component | State it keeps | Operations | Hard behaviour | What makes it correct |
|---|---|---|---|---|
| **Index generation** `rag/generation_service.py`, `rag/qdrant_adapter.py`, `rag/contracts.py` | a generation row per run (PENDING, VERIFIED, PUBLISHED, FAILED), a published pointer per binding, points in Qdrant | `generate_index` | concurrent and repeated calls; the insert that waits for another transaction; a failed, timed-out or late upsert; a crash; the pointer row created twice | the pointer always names one whole, completed run; one builder per run; stable ids; a call ends |
| **Evidence retrieval** `rag/retrieval_service.py` | locals of a request | `retrieve` | three reads of two stores with publication, indexing and revocation between them; untrusted answers of the index | evidence from one run only, of the asked policy; nothing stale, nothing revoked |
| **Binding lifecycle** `rag/binding_service.py`, `rag/binding_repository.py`, `migrations/…/d72e620b7302` | binding rows (key and revision), lifecycle events with request ids | `propose`, `approve`, `revoke` | requests sent twice, at once, or for something else; state read before the event is inserted; triggers that check the same in the database | one event per request id; an answer is for what was asked; a linear history per key; no deadlock |
| **Ingestion queue** `rag/ingestion_repository.py` | runs, jobs (QUEUED, RUNNING, READY, REVIEW_REQUIRED, FAILED, CANCELLED), attempts, leases, chunks | `enqueue_run`, `acquire_job`, `update_job`, `save_chunks` | leases that run out under a live worker; a job at its last attempt; late reports without a lease check | one worker per live lease; attempts bounded; one batch of chunks; a job not lost |
| **Source store** `rag/source_store.py`, `rag/source_service.py`, `rag/source_repository.py` | files named by document and hash; one row per document | `import_matching_bytes`, `read_for_review` | a file linked before its row commits; two importers of one file; power failure; a damaged file | a row implies a durable file; originals or nothing are handed out |
| **Clients of provider and index** `rag/embedding_provider.py`, `rag/qdrant_adapter.py` | none | embed, upsert, search, scroll | wrong counts or dimensions, timeouts | only validated vectors are written |
| **Policy lifecycle** `core/services/policy_service.py`, `infrastructure/models/policy.py`, `migrations/…/be3b6aafad0b` | versions with status, activations with date ranges, numbered events | `transition_status`, `activate`, `archive` | status read without a lock; `max + 1` event numbers; overlapping activations | at most one active version per date; legal transitions; gapless history |
| **Eligibility engine** `core/engine/evaluator.py` | none | evaluation of a rule tree | three-valued logic; missing facts; unknown operators | FAIL over UNKNOWN over PASS; an unknown never becomes a PASS |
| **Eligibility service** `core/services/eligibility_service.py`, `migrations/…/110b14c4b973` | decisions by evaluation key | `build_snapshot`, `evaluate` | facts, criteria and policy that change between the reads; the same evaluation computed twice | one decision per key; a decision follows from what it records |
| **Requirement graph** `core/services/requirement_service.py` | a requirement per opportunity, numbered versions, criteria and members until publication | initialize, add criterion, add member, publish | `max + 1` version numbers; an item added while its version is published; triggers that read without a lock | gapless numbers; published versions do not change |
| **Company, opportunity** `core/services/company_service.py`, `opportunity_service.py` | companies with numbered revisions, roles, drives, opportunities (closed or not) | create, update, close | `max + 1` revision numbers; parents read before the insert | gapless numbers; a company has its first revision |
| **Agent orchestrator** `agent/orchestrator.py`, `agent/limits.py` | budget and decision of a turn | `execute` | budget exhausted in mid-turn; repeated calls; failing tools; a second evaluation after a first | a turn ends within its budget; an answer reports the last evaluation and nothing else |
| **Agent tools** `agent/registry.py`, `agent/m8_*.py` | none | policy, eligibility and evidence tools | unavailable dependencies | a refusal is reported as one |
| **Conversation memory** `agent/memory.py`, `api/routers/copilot.py`, `api/routers/agent.py` | numbered messages per conversation | `get_or_create_session`, `add_message`, `get_messages` | two turns of one conversation; two students who begin it; a turn cut between a tool call and its result | numbers in sequence; one student; calls followed by results |
| HTTP, security, configuration; student, backlog and offer records; web application | requests; rows without transitions | request handling, CRUD | none of their own | – |

How they interact: a source is stored, then bound to a policy version (binding lifecycle); a binding is ingested
into chunks (queue) and the chunks of a COMPLETED run are indexed and published (index generation); requests read
the published pointer, search Qdrant, and check the candidates against PostgreSQL again (retrieval). A policy
version is activated for dates (policy lifecycle) and evaluated for students (engine and service); the
orchestrator reaches all of these through tools. Everything is shared through PostgreSQL rows and Qdrant points;
there are no messages and no callbacks between components.

`PROJECT.json` lists the hazards at their lines, with the properties that would catch them. Those without one say
why.

## 2. Plan

The order was that of importance. Done:

1. `IndexGeneration` and its abstraction `ReaderAtomicIndex`.
2. `EvidenceRetrieval` over it (EXTENDS, interleaved with the writers).
3. `BindingLifecycle` and its abstraction `BindingReview`.
4. `PolicyLifecycle` and its abstraction `PolicyCalendar`.
5. `IngestionQueue`, `SourceStore`, `Recruitment` and its abstraction `Definitions`, `Evaluator` and
   `Eligibility`, `Conversation`.
6. Proofs, one module per component (`EvidenceRetrieval`'s are in `IndexGenerationProofs`, since they continue its
   invariant; `Evaluator`'s in `EligibilityProofs`): the safety properties and refinements of all of these.

Left:

7. `Recruitment` with activations of requirement versions, once the application writes them; the choice the
   agent's tools make between versions.

## 3. What is modelled

### `IndexGeneration` — `generate_index`

`genId`, `genStatus` and `pub` are the *committed* rows. From its insert (or the retry's update) to its commit a
call is one transaction, so PENDING and VERIFIED are never committed and a row's uncommitted state is just
`holder[r] = w`, "w has written this row and not committed". `pubLock` is the `SELECT … FOR UPDATE` of the
pointer. `points[h]` is the generation id in the payload of the point of chunk hash `h`: the code derives a point
id from the embedding space and the chunk hash, so an upsert *replaces* the point of any run with that hash.
`inflight` are upserts whose client is gone.

| Action | Code |
|---|---|
| `Start` | the checks before the first write (run exists and is COMPLETED, has chunks) |
| `InsertPending`, `InsertConflict` | the insert of the generation row; the unique key makes it wait for an open transaction, then succeed or raise IntegrityError |
| `ReturnExisting`, `ReuseExisting`, `MarkPending` | reload after the conflict: return the id when PUBLISHED; otherwise update to PENDING. The select takes no lock; the update waits for the row |
| `Embed`, `EmbedFails` | the provider call and `validate_vectors` |
| `Upsert`, `UpsertFails`, `AbandonUpsert` | the upsert; on failure any part of it may have been applied, or be on its way |
| `VerifyManifest`, `ManifestFails` | `scroll_manifest` and `validate_manifest`; it may also fail for no visible reason |
| `RecordFailure` | the handler: status FAILED, commit, raise |
| `SelectPublished`, `Repoint`, `CreatePointer`, `CreateConflict` | publication: pointer and status in one commit, or an IntegrityError that rolls everything back |
| `Crash`, `LateUpsert` | the process dies (the transaction rolls back, Qdrant keeps its points); an abandoned request lands |

Abstracted: one institution. A generation row is unique per run and embedding space and a point id is made of
space and chunk hash, so a run of the model stands for a run *in a space* and a chunk for a hash in its space; the
pointer, which is unique per binding only, is shared by the spaces as in the code: a build in one space replaces
what another showed. Vectors, batches of the scroll and `ensure_collection` (idempotent, folded into the upsert
and its failure); a manifest is the set of points found. Whether the binding is approved is absent because the
code never looks at it; see the known divergences.

Runs may have chunk hashes in common, as they do after a new version of the parser, and then they have one point
for them. `Exposed` names the chunks whose point may be taken from the run that is shown: those of two runs
(`Shared`), and those a late upsert has stamped with an id that no row has any more (`Orphan`), after a crash.
`PublishedIndexComplete` holds up to these, and `OldGenerationsStayReadable`, the contract's sentence without an
exception, does not hold (section 4).

`ReaderAtomicIndex` is the promise to readers: a binding shows nothing at first, then one completed run of its
own, replaced in one step. A reader finds no chunk of another run, and every chunk of the run shown but the
exposed ones.

### `EvidenceRetrieval` — `retrieve`

Extends `IndexGeneration`; its next step is a step of a writer, of a reader, or of the review of a binding. `Ask`
reads the pointer, `EmbedQuery` and `Search` call the provider and Qdrant, `Revalidate` is the SQL join. Points
and chunk rows have *different* ids in the code and in the model (`PointId`, `RowId`). `UntrustedIndex = TRUE`
lets Qdrant answer with anything; the code's re-validation exists for this case. Abstracted: scores and order, the
query text, the retrieval of the payload.

### `BindingLifecycle` — `propose`, `approve`, `revoke`

`Asked` is what somebody may ask for under which request id. `events` is the committed event table, from which the
binding rows follow (a revision exists exactly when its PROPOSED event does: the trigger inserts it). `locks`
holds pairs of a client and a row or a unique-index entry; `pc` and `cmd` are the command in progress. A proposal
locks the source row; a transition locks the binding row; each then reads, decides, inserts and leaves the commit
to its caller. The inserts go through the two triggers (`RevisionGuard`, `EventGuard`) and the unique index on
request ids, which makes an insert wait for an uncommitted entry with the same id (`Free(c, RequestEntry(..))`).
`Abort` is the caller's rollback, or the death of the process, at any point.

Abstracted: the bytes of the source (reading them can fail: `SourceUnavailable`; a proposal checks them before it
locks anything, which is folded into sending it); the role of the actor and the checks on its reason; the actor
and the reason are one value, `Authors`. The `FOR KEY SHARE` lock that the foreign key takes on the previous
revision's row is waited for and not held: it conflicts with `FOR UPDATE` only, and a transition of a revoked
revision fails anyway.

`BindingReview` is the promise: numbered revisions per key, only the last can be open, PROPOSED, APPROVED, REVOKED
one step at a time, a new one only after the last is revoked.

### `PolicyLifecycle` — versions, rules, transitions, activations

`create_policy_version`, `add_policy_rule`, `transition_status`, `activate_policy`, `archive_policy`. The
variables are the committed tables; a request is a transaction of which `pc` and `cmd` say how far it is and what
it has written. Nothing is read with a lock. What protects the data is PostgreSQL: the UPDATE of a version row
waits for an open one (`Updating`), then applies whatever the other wrote; the unique key on (policy, version) and
the exclusion constraint on activations wait for an open conflicting row and refuse beside a committed one.

| Action | Code |
|---|---|
| `CreateVersion`, `InsertVersion`, `CommitVersion` | the read of the greatest version number; the insert, which may conflict; the commit, with the CREATED event |
| `AddRule`, `AdmitRule`, `InsertRule`, `CommitRule` | the check of the status; the trigger's second look at it, which is `BEFORE INSERT` and not repeated; the insert, which waits for an uncommitted rule with the code; the commit |
| `RequestTransition`, `UpdateStatus`, `RecordEvent` | the read of the status against `valid_transitions`; the UPDATE that waits for the row; the number after the last event |
| `Activate`, `Close` | the insert of the activation under the exclusion constraint; the end of the open activation at archive, under `interval_bounds` |
| `CommitTransition`, `Abort` | the caller commits, or anything ends the transaction before |

Abstracted: one academic year and one scope, since activations of others never conflict; definitions, reasons,
actors and roles (a role is refused before anything is written); the days of an activation are chosen when they
are first looked at. `now` at archive is any day. The unique key on event numbers is not a guard: that it is never
violated is part of `NumbersAreGapless`. `create_policy` and `create_document` insert a row and are left out.

`PolicyCalendar` is the promise: a version takes days that are free, all at once, and gives back the tail of its
own. `Definitions` is the promise about rules: a version takes none while it is approved or active, except what
had passed the trigger before; but a transition that has read an old status, or an archive, can open it again
(`Reopen`).

### `IngestionQueue` — `enqueue_run`, `acquire_job`, `update_job`, `save_chunks`

`runs`, `jobs` and `chunks` are the committed rows; what a process has written and not committed follows from `pc`
and `cmd`. A lease is the number of ticks it still has, `Tick` the clock.

| Action | Code |
|---|---|
| `Enqueue`, `InsertRun`, `CommitRun` | the look for a run with the key; the insert under `uq_rag_ingestion_run_idempotency`, which waits for an uncommitted run and conflicts with a committed one; run and job committed together |
| `Acquire`, `CommitAcquire` | `SELECT … FOR UPDATE SKIP LOCKED` of the oldest available job; attempt and lease |
| `SaveChunks`, `CommitChunks` | the batch insert under the unique (run, ordinal), which waits for an uncommitted chunk and fails beside a committed one; committed by itself, or with a report |
| `Report`, `Cancel` | `update_job` reads the row without a lock, and SQLAlchemy will write the columns that differ from what was read (`ColumnsToWrite`) |
| `WriteJob`, `CommitReport` | the UPDATE waits for the row; the commit, with FAILED for the run when the job failed or was cancelled, and with the chunks saved in the same transaction |
| `Crash`, `Tick` | the process dies or rolls back; time passes |

The repository leaves transactions to its caller, and nothing under `src/` but the tests calls it. A worker
acquires a job and commits; then it saves chunks or not, commits them or not, and reports any outcome in the same
transaction or another. Saving does not depend on what is reported: `test_m6_ingestion_postgres.py:352-398`
commits chunks together with FAILED. That a worker saves its job's chunks once and reports at most once is the
assumption about the caller. Nothing sets a run COMPLETED either, which `generate_index` asks for, so the two
modules are not composed. Reports that do not end a job (RUNNING with progress) are left out.

### `SourceStore` — `import_matching_bytes`, `read_for_review`

`link` and `data` are the directory entry and the bytes of an object, each with what a power failure leaves of it;
`staged` is how far a client's staging file has come (`partial`, `cached`, `synced`); `rows` are the committed
`rag_source_objects`, `hash` the document's `content_hash`. Importing is `Import`, `Write`, `Flush`, `Sync` (the
staging file), `Link` (`os.link`: the object is the staging file as far as it has come, and never replaces
another), `SyncDirectory`, `InsertRow` (`ON CONFLICT DO NOTHING`, then the row must be the same) and `CommitRow`,
in that order; reading is `Review`, `GetRow`, `ReadObject`. `Stop`, `PowerLoss` and `Damage` are the faults.
`Rehash` is an UPDATE of the hash that no code in `src/` does; it is there because the `FOR SHARE` of
`document_identity` and the trigger `rag_guard_source_object` exist against it.

Abstracted: the bytes (a hash names them), the size limits and the checks of path and file mode, which refuse
before anything changes.

### `Recruitment` — companies, opportunities, requirements

`rows` is one set of keys per table; a row is named by its unique key, with the row it belongs to in the place of
the parent's id. A request reads, checks, and then has rows to write (`todo`), written one at a time (`Admit`,
`Write`) and committed at once (`Commit`). Writing a row is two steps, as in the database: `Admit` is the `BEFORE`
trigger on criteria and members, which looks at `published_at` when the statement begins; `Write` then waits for
an uncommitted row of the same key and fails on a committed one. The trigger is not repeated after the wait, so an
insert that waited for a rollback may land after the publication. The key of a row being its identity, two rows
with one number cannot be represented; that they cannot be in the tables either is the unique key's work, modelled
by `Write`.

| Action | Code |
|---|---|
| `CreateCompany`, `UpdateCompany` | a company with revision 1; a revision with the number `max + 1` |
| `CreateRole`, `CreateDrive`, `CreateOpportunity`, `CloseOpportunity` | parents read first; role and drive of the same company |
| `InitializeRequirement` | the requirement if there is none, and version `max + 1` |
| `AddCriterion`, `AddMember`, `Publish` | `published_at` read without a lock, by the service and again by the trigger (`Admit`) |

Abstracted: every column that no condition reads; compensation terms (inserted with their version); roles.

`Definitions` is what the database really promises of a published version, or of an approved policy: nothing sets
out for it any more, but what set out before, by passing the trigger, may still arrive. `Final` says when nothing
can. `Reopenable` are the definitions whose freeze can be undone: requirement versions never, policy versions
always.

### `Evaluator` and `Eligibility` — `evaluate_snapshot`, `evaluate`

`Evaluator` is the rule engine as operators: a rule on a snapshot, the meet of outcomes FAIL, UNKNOWN, PASS, the
two domains together. `Satisfies` and `Comparable` keep Python's answers for operands of the wrong kind.

`Eligibility` is the service. `Evaluate` reads the policy in force; `ReadAcademic`, `ReadBacklogs` (the ids),
`ReadBacklog` (the last event of one), `ReadOffers`, `ReadOffer`, `ReadRules` and `ReadCriteria` are the
statements that follow, each with its own view of the tables; `Lookup` asks for the evaluation key, `Insert` waits
for an uncommitted decision with the key, `Commit`, and after a conflict `Reselect` are the rest. Meanwhile the
student's records change (`AppendRecord`, `AppendBacklogEvent`, `AppendOfferEvent`), the policy in force changes
(`ChangePolicy`), and rules and criteria are added, frozen and, for a policy, open again (`EditDefinitions`, which
is a step of `Definitions`). The surroundings are thus the *promises* of `Recruitment` and `PolicyLifecycle`, not
their code: at most one version is in force, and definitions behave as `Definitions`, which both modules are shown
to implement. `reopened` remembers the policy versions that were open again after their approval.

Abstracted: one student, one opportunity (both are part of the key); a mark is a natural number; the reasons are
the sets of rules and criteria looked at. `final` is not recorded by the code; it says whether what was read could
still change.

### `Conversation` — a turn of the agent, `add_message`

`owner` and `messages` are the committed session and its messages; `out`, `budget`, `pending`, `decision` are the
locals of a turn: the message it is writing, the `ExecutionBudget`, the tool calls still to be handled, and
`authoritative_decision`. Turns of one conversation run at once; each message is a transaction that reads the last
number (`ReadNumber`) and inserts the next (`Save`), and a number taken in between ends the turn.

| Action | Code |
|---|---|
| `Open`, `Create` | `get_or_create_session`: 403 for another student's, the insert that may come second |
| `Load` | `get_messages`; the system prompt first, then the question |
| `Think` | `increment_step` (which may raise), the model's answer: any batch of calls in `Batches`, or none |
| `CallTool` | one call: unknown tool, bad arguments, refused by the budget, failing or answering; what it does to the budget and the decision |
| `ReadNumber`, `Save` | `add_message` under `uq_session_sequence` |
| `Reply`, `Die` | the response, which for the copilot's route fails when there is a decision; the end of the process |

Abstracted: text of every kind; the model and the tools, which answer anything; the model's answer is one step
with the reading of the number for the message that carries it, since the turn touches nothing shared before that.

## 4. What TLC checks

| Run | Instance | Shows |
|---|---|---|
| `index_generation` | 2 workers, 2 runs of one binding with a chunk in common, one fault: a crash or an upsert that lands late | `TypeOK`; `OneBuilderPerRun`: the unique index and the row lock are enough to exclude two builders; `PublishedIndexComplete`; `IdentityIsStable`; `ReadersSeeWholeReplacements`: `ReaderAtomicIndex` is implemented; `EveryCallEnds`: the two row locks are taken in one order |
| `shared_chunks` | 1 worker, 2 bindings with a run each and a chunk in common | a violation: `OldGenerationsStayReadable` |
| `evidence_retrieval` | 1 worker, 1 reader, 2 runs of one binding with a chunk in common, two faults, any answer from Qdrant | `RetrievalInv` (types, and evidence comes from the pinned run and the asked policy only); `PinnedGenerationStaysComplete` |
| `point_ids_mismatch` | the same with an honest index and no common chunk | a violation: `FoundPointsGiveEvidence` |
| `binding` | 2 clients, 2 keys of one source, 2 authors, 4 request ids | `TypeOK`; `TriggersAgree`: what was decided under the row locks still holds at the insert, so the triggers refuse nothing but a request id; `FollowsReview`: `BindingReview` is implemented; `OneEventPerRequest`, `SuccessIsRecorded` (an `ok` answer, also a repeated one, is on record as asked), `EveryCommandEnds` |
| `policy_lifecycle` | 2 clients, 2 versions of one policy, 1 rule code, 2 days | `PolicyInv` (types, and the last event is the status) and `NumbersAreGapless`, although the status is read without a lock and numbers are `max + 1`; `ApprovalPrecedesActivation`; `ArchivedIsClosed`: no activation slips past an archive; `FollowsCalendar`, `FollowsDefinitions`: `PolicyCalendar` and `Definitions` are implemented |
| `ingestion_queue` | 2 workers, 2 clients of whom one cancels, 2 runs for one key, batches of 1 and 2 chunks, leases of 1 tick, 2 attempts | `QueueInv` (types, one run per key, an attempt granted once); `LiveLeaseIsExclusive`; `ChunksAreOneBatch`, although an ousted worker saves too and whatever is reported; `SettledForGood`: a settled job is never run again; `EveryJobSettles`: settled, or out of attempts |
| `run_failure` | 1 worker, 2 attempts | a violation: `FailsWhenExhausted` |
| `source_store` | 2 clients, 1 document, 2 contents | `StoreInv` (types, and a row never without its durable file, also one that another client linked); `AnswersAreOriginals`; `NamedObjectsAreComplete`: a power failure finds no half of an object under its name |
| `recruitment` | 2 clients, 1 of each thing, 2 versions | `RecruitmentInv` (types, parents, numbers without gaps, a company with its first revision); `FollowsDefinitions`: `Definitions` is implemented; `EveryRequestEnds` |
| `eligibility` | 2 evaluations, 1 policy that gets a rule and may be reopened, 1 requirement version with a criterion | `EligibilityInv` (types, one decision per key); `ReplayAgrees`: a decision on final definitions of a policy that was not reopened can be computed again from what it records; `MissingFactsDecideNothing`; `EveryEvaluationEnds` |
| `conversation` | 3 turns, 2 students, a budget of 2 model calls and 2 tool calls | `ConversationInv` (types, numbers in sequence after a system prompt, one student); `AnswerReportsLastEvaluation`; `CallsAreAnswered`; `BudgetHolds`; `EveryTurnEnds` |

An `…Inv` is the type invariant of its module together with the one other invariant that gives the types their
meaning.

**Bounds.** In `index_generation`, two workers on two runs of one binding give every pair the code can bring
together: the same run, or two runs that share the pointer and a chunk; a third worker only waits where a second
does. A run of two chunks can be partly upserted; one of them is enough. `MaxFaults` bounds crashes and upserts
that outlive the failure of their call, together: one fault leaves a row rolled back, or partial points, or an
upsert that lands during another build or after it; failures without such an upsert are not bounded.
`evidence_retrieval` has one worker, since what a reader sees is what builds do one after another, and in exchange
two faults, such as a failed attempt and a retry that is rolled back, both with an upsert to land later.

In `binding`, four request ids take a key through PROPOSED, APPROVED, REVOKED and a second proposal, the shortest
history with a second revision, while a repeated approval of the first holds the row that the second waits for.
`Asked` gives every id several uses: q1 proposes, by two authors, or revokes; q2 proposes or approves; q3 approves
or revokes; q4 proposes, on either key. (All uses of all ids are ten times the states and take longer than five
minutes.) In `policy_lifecycle`, `MaxEvents = 6` is the length of the whole lifecycle, so a version reaches
ARCHIVED, and with a lost update it gets a seventh event from a client that read before; two days give an interval
for each day, one for both, and open ones that overlap or meet them.

In `ingestion_queue` the lease of one tick can run out under its worker and two attempts let another one take
over, after which the first one saves and reports late; batches {0} and {0, 1} overlap without being the same; two
runs with one key let two requests race; there is no bound on crashes. In `source_store` two contents give a
document a hash that is not the one of its row. In `recruitment`, `MaxNumber = 2` lets two requests compute the
same next number, and a criterion wait for another one's rollback while its version is published. In `eligibility`
the rule on offers and the criterion on the CGPA give the two domains every pair of outcomes; the policy version
gets its rule before, between or after the reads, may be approved, and opened again; `MaxDecisions = 1` stops new
evaluations once there is a decision, so the two that race may have begun before it, with the same snapshot or
with different ones, and `MaxChanges = 1` puts one event between any two of the reads; two policies would only
make the keys differ, and are left out. In `conversation`, two turns of one student race for the numbers, a third
student's turn for the session; the first turn calls for an evaluation, which may succeed and leave its decision
to the answer, followed by an unknown tool, or repeats it, which is refused as a cycle, followed by a search,
which is over the limit. Calls that alternate are not in the instance (a third admitted call is needed): the proof
of `Budget` is for any batches and limits. Arguments that are not JSON are left to the proofs as well.

Symmetry: `MCPolicyLifecycle` uses that of clients and versions, `MCSourceStore` that of clients and hashes;
nothing else uses it.

**Fairness.** Strong fairness of each worker's and client's `Step`. Remote calls have timeouts, so a step that
does not wait for a lock is taken; PostgreSQL queues the waiters of a row lock, so a waiter that is enabled again
and again is served. Starting a call, crashing, aborting and late upserts are never obliged to happen.
`IngestionQueue` asks the same of its workers, and in addition that a worker that is available again and again
gets a job and does not die each time before the commit that acquires it (`SF` of `Acquire` and `CommitAcquire`;
without the latter a job could be handed out for ever without its attempts being counted); its clients go on and
the clock ticks (`WF`). `Recruitment` has strong fairness of `Write`, which may wait, and weak of `Admit` and
`Commit`; `Eligibility` strong of `Step`, for the insert that may wait; in `Conversation` nothing waits, and `WF`
of `Step` is enough. `PolicyLifecycle` and `SourceStore` have safety properties only.

Deadlock is checked everywhere but in the run of `PolicyLifecycle`, where nothing is left to request once every
version is archived. Elsewhere an idle client can always start, or, in `Conversation`, `Done` says that every turn
has ended.

**Mutants.** For each property `PROJECT.json` names a plausible bug (a select without `FOR UPDATE`, a retry with a
new id, a request id that alone decides, a transaction left open, …), as an operator of the module placed before
the definition it replaces and used nowhere else.

### Findings

`point_ids_mismatch` ends in a violation (of `FoundPointsGiveEvidence`) of what the repository says of itself: the
ids an honest search returns are point ids, the re-validation compares chunk row ids, so the evidence is empty.
`EvidenceFromPinnedRun` holds with an untrusted index that happens to answer with chunk row ids; under an honest
one it holds because there is no evidence.

`shared_chunks`: "Old valid generations remain readable until a new complete one is published"
(`docs/contracts/rag-contract.md:113`). Two runs of one embedding space that contain the same text have one point
for it, and a build takes it from the published generation before its own is complete, or although it fails; the
other generation may be another binding's, and then it stays incomplete. `PublishedIndexComplete`,
`ReaderAtomicIndex` and `PinnedGenerationStaysComplete` say what remains true: the loss is confined to `Exposed`.

`run_failure`: "If job fails and exhausts attempts (or is explicitly cancelled), fail the run"
(`rag/ingestion_repository.py:161`). The code below fails the run whenever FAILED is reported, and FAILED is final
for the job: an attempt is retried only when its worker says nothing and its lease runs out.

### Known divergences

Behaviours of the code, met while modelling, that disagree with a document, a comment or a test, or look
unintended. The first four are violations TLC finds when the property named is added to the configuration.

1. `PointerNamesPublished` (`IndexGeneration`). Two retries of a FAILED generation both read it; the second one's
   update waits, then overwrites PUBLISHED, and a failure of its own commits FAILED while the pointer still names
   it.
2. `NoRevokedEvidence` (`EvidenceRetrieval`). Evidence of a revoked binding is returned: the recheck does not read
   events.
3. `EventsAreValidSequence` (`PolicyLifecycle`). Two transitions read DRAFT; both succeed and PROCESSING is
   recorded twice, possibly after the version was approved or activated. In the same way an archived version can
   become active again for other days.
4. `RulesAreFrozen` (`PolicyLifecycle`). A rule is inserted in PROCESSING and committed after another transaction
   has approved the version: neither the check nor the trigger locks the version. `Recruitment` has the same for
   criteria inserted before and committed after the publication, although `docs/contracts/domain-model.md:83`
   calls a published definition immutable. `Definitions` allows both, and with `Reopen` also a version taking
   rules after 3.
5. Hence a decision on an approved policy version need not be reproducible, as
   `docs/contracts/eligibility-contract.md:28` wants it, once the version was open again: `ReplayAgrees` excepts
   `reopened`, and without the exception TLC finds a violation.
6. The copilot's route reads `reason` and `evaluation_id` of the decision (`api/routers/copilot.py:109`), which
   `EligibilityDecisionResponse` (`api/schemas/eligibility.py`) does not have: with a decision, the request fails
   after the answer has been stored (`Reply`).
7. `=` and `BETWEEN`, which the tables admit as operators (`infrastructure/models/policy.py:190`,
   `docs/contracts/business-rules.md:4`), are UNKNOWN to the engine (`Comparable`).
8. The evaluation key has no rules and criteria; unpublished requirement versions, and those of another
   opportunity, are accepted; the facts of a snapshot are read at different moments, where the eligibility
   contract speaks of one consistent snapshot. Hence the condition `final` in `ReplayAgrees`.
9. A backlog whose latest event is CORRECTED is not counted as open (`IsOpen`).
10. Two first turns of a conversation can both write a system prompt, and turns' messages interleave.
    `HistoryIsASequence` and `CallsAreAnswered` speak of the whole and of one turn for this reason.
11. A job that dies in its last attempt stays RUNNING; a late report is accepted from a worker that lost its lease
    (`EveryJobSettles`, `WriteJob`).
12. Archiving "closes the active activation record" (`core/services/policy_service.py:209`), but only one without
    an end (`Close`).
13. `m8_search_policy` takes the ACTIVE version with the greatest id, whatever the days of its activation.
14. Requirement activations are read by `m8_authority` and written by nothing under `src/`.

## 5. What is proved

Every safety property and every refinement that a run checks is stated by a theorem, for every value of the
constants: any number of workers, clients, runs, documents, versions, requests and turns, any crashes, any answers
of Qdrant, of the model and of the tools. The assumptions are the named ones on the constants in the module of the
component (`GenerationAssumption`, `RetrievalAssumption`, `LifecycleAssumption`, `QueueAssumption`,
`SourceAssumption`, `PolicyAssumption`, `EligibilityAssumption`, `CommandAssumption`, `RecruitmentAssumption`,
`ConversationAssumption`): the type of each constant, limits that are natural numbers, and that `Null` and its
like are not values.

Each proof has the same shape. `IInv` at the end of a component's module is the inductive invariant; `InitIInv`
and `StepIInv` show that it holds at first and is kept by every action, one lemma per action; `Inductive`
concludes `Spec => []IInv`; the theorems follow. Each `IInv` was checked by TLC, on the instance of its run,
before it was proved. Below, the theorems, and why the invariant needs more than the properties.

### `IndexGenerationProofs`

| Theorem | Property | Holds |
|---|---|---|
| `Typing`, `MutualExclusion`, `StableIdentity` | `TypeOK`, `OneBuilderPerRun`, `IdentityIsStable` | always |
| `PublishedComplete`, `Refinement` | `PublishedIndexComplete`, `ReadersSeeWholeReplacements` | always, up to `Exposed` |
| `EvidenceOfOneRun` | `RetrievalInv` | always |
| `PinnedComplete` | `PinnedGenerationStaysComplete` | always, up to `Exposed` |

Nothing is assumed of the chunks of different runs, nor of upserts: the exceptions are in the properties, chunk by
chunk. `Exposed` cannot be smaller. A shared hash is taken over by any build of the other run (`shared_chunks`);
an unshared one is lost when a worker dies in its upsert, its id is rolled back with its row, and its request
lands after the retry has published under a new id. Without a crash late upserts are harmless, since the retry
reuses the committed id: the point they write carries an id that has a row.

`PublishedIndexComplete` is not inductive: another worker that still writes must be known to write other chunks,
or under the same id. `IInv` adds that ids are fresh and belong to one run (`IdsAreFresh`, `LocalIdsMatch`), that
a row being built is held by its builder (`RowsAreHeld`), that points and upserts on their way carry no id of
another run's (`PointsAreOwn`), that a worker past the manifest check has its run in place (`VerifiedPoints`), and
that a published pointer has (`PublishedPoints`). The refinement splits a step by whether a pointer moves: an
unmoved one is a `Disturb`, which keeps the view faithful, a moved one a `Replace` by the worker's run.

A reader is not tied to the pointer, which moves on; what it relies on is the *id*. `RetrievalIInv` says that a
pointer names a run of its binding (`PointersNameRuns`), that a pinned id still is that of a completed run of the
asked policy (`PinsNameRuns`: committed ids never change), that evidence carries the pinned id
(`EvidenceIsPinned`), and that the pinned run stays in place (`PinnedPoints`).

### `BindingLifecycleProofs`

`Typing`, `Idempotency` (`OneEventPerRequest`), `RecordedSuccess` (`SuccessIsRecorded`), `TriggersConfirm`
(`TriggersAgree`) and `Refinement` (`FollowsReview`). The invariant says that locks are exclusive and held while a
command works (`Exclusive`, `LocksHold`), that an uncommitted event still has a new request id (`PendingIsNew`)
and still is the next step of its key (`PendingIsNext`), and that only the last revision can be open
(`OnlyLastIsOpen`). The source row serializes proposals with proposals and the binding row transitions with
transitions; a proposal and a transition of the same key exclude each other because one needs the last revision
revoked and the other needs it open.

### `IngestionQueueProofs`

`QueueIsConsistent` (`QueueInv`), `LiveLease` (`LiveLeaseIsExclusive`), `OneBatch` (`ChunksAreOneBatch`),
`Settled` (`SettledForGood`). Leases are exclusive because an attempt is granted when the job's lease has run out
and a worker never has more of a lease than its job: `LeasesAreOrdered` says that leases of earlier attempts are
0, and the row lock between `Acquire` and its commit (`RowIsHeld`) makes the attempt that is about to be written
the next one. One batch needs that only one process saves, and only while there are no chunks (`SavingIsAlone`:
the unique key on ordinals, for batches that have an ordinal in common, as those that number their chunks from 0
have; `QueueAssumption` asks for it). A report is decided by a read without a lock and writes only the columns it
found different; it settles the job all the same, since a status it leaves out was final when it was read and
stays so (`ReportsAreFinal`).

### `SourceStoreProofs`

`RowsHaveObjects` (`StoreInv`), `Originals` (`AnswersAreOriginals`), `CompleteObjects`
(`NamedObjectsAreComplete`). The invariant follows an import through its steps: the hash it has read under `FOR
SHARE` stays (`IdentityIsPinned`), the object is linked, then durable, whoever linked it (`ImportIsDone`), and
what is linked was synced before, so that nothing named has bytes that a power failure could take
(`ObjectsAreSynced`); and a reader's row is still there when it has read the object (`RowIsRead`).

### `PolicyLifecycleProofs`

`StatusAndHistory` (`PolicyInv`), `GaplessNumbers` (`NumbersAreGapless`), `ApprovalFirst`
(`ApprovalPrecedesActivation`), `ArchivedHasNoOpenDays` (`ArchivedIsClosed`), `CalendarRefinement`
(`FollowsCalendar`), `RulesRefinement` (`FollowsDefinitions`). No row is read with a lock, so the proof shows what
the constraints alone give. `RequestsAreInOrder` says of each request that it fits where it is (`RequestFits`),
that its number follows a committed one and is free once it is past the wait (`NumberFits`), that uncommitted days
are free (`DaysFit`), and of each two that they do not collide (`Apart`); `DaysAreTakenOnce` is the exclusion
constraint. Event numbers are unique because a number is read *after* the UPDATE has waited for the row, and the
row is held until the commit. For `Definitions`, passing the trigger is `SetOut`, the commit `Arrive`, the end
without it `TurnBack`; the commit of a transition to APPROVED is `Freeze`, and one that takes the version out of
APPROVED and ACTIVE is `Reopen`.

### `EligibilityProofs`

`OneDecision` (`EligibilityInv`), `Replay` (`ReplayAgrees`), `UnknownNeverDecides` (`MissingFactsDecideNothing`).
One decision per key comes from the insert that waits (`InsertIsAlone`: an uncommitted decision is the only one
with its key, committed or not). A replay agrees because a decision is recorded with what it follows from
(`DecisionsFollow`) and because what was final when it was read never changes, unless the policy version is
reopened (`ReadingIsFinal`), which uses `Definitions`. The third theorem is about the engine: lemmas take a
missing CGPA through one rule (UNKNOWN, or the rule does not look at it), through a domain and through the meet of
the two domains.

### `RecruitmentProofs`

`Numbering` (`RecruitmentInv`) and `DefinitionsRefinement` (`FollowsDefinitions`). A request is the sequence of
rows it has written and will write; `Grounded` says of each that its parent and the numbers before its own are
committed or come with it, and `RowsAreHeldOnce` that no two requests hold a row. `NumbersAreGapless` speaks of
committed opportunities; the third conjunct of `IInv` says the same of every committed version. For the
refinement, passing the trigger is `SetOut`, the commit of the item `Arrive`, its rollback `TurnBack`, and the
commit of a publication `Freeze`; it needs that a request that writes an item writes nothing else (`WorkFits`).

### `ConversationProofs`

`OneSequence` (`ConversationInv`), `LastEvaluation` (`AnswerReportsLastEvaluation`), `AnsweredCalls`
(`CallsAreAnswered`), `Budget` (`BudgetHolds`). The properties speak of the table, the code keeps locals; the
invariant ties the two. `DecisionFits`: the local decision is the outcome of the turn's last attempt to evaluate,
the one being written included. `ResultsFit`: what was stored since the last calls are the results of the first of
them, in order, and the pending calls are the rest. `BudgetFits`: calls and steps are counted before they are
history. `MessagesAreApart`: numbers are unique, and a turn that has answered writes nothing more, so an answer's
last evaluation stays the last. Messages of other turns in between do not matter, since each part looks at one
turn.

### Only model-checked

The liveness properties (`EveryCallEnds`, `EveryCommandEnds`, `EveryJobSettles`, `EveryRequestEnds`,
`EveryEvaluationEnds`, `EveryTurnEnds`): fairness and ENABLED are outside what the provers handle. The findings
and the first five known divergences are counterexamples, which TLC shows.

## 6. What is not modelled

- `create_policy` and `create_document` insert a row and are left out, as are the student, backlog and offer
  tables beyond what an evaluation reads of them: rows that are appended, without transitions.
- The caller of the ingestion queue and the completion of a run, which are not in `src/`.
- The agent's tools beyond their outcome: which policy or requirement version they choose, evidence that is
  collected and never returned, the form of arguments and results.
- The HTTP layer, tokens, roles, configuration and logging (no state of their own); the web application and
  deployment scripts.
- The text of prompts and answers, vector arithmetic, scores, and the clock: a timeout is a step that may be taken
  at any time, a lease a number of ticks.
