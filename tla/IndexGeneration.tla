-------------------------- MODULE IndexGeneration --------------------------
(***************************************************************************)
(* Index generation and publication: GenerationService.generate_index, the *)
(* Qdrant adapter it writes through, and validate_manifest.                *)
(*                                                                         *)
(* One institution.  A generation row is unique per ingestion run and      *)
(* embedding space, and a point id is made of space and chunk hash: a run  *)
(* r stands for such a pair, a chunk for a hash in its space.  The pointer *)
(* is unique per binding only, so that a build in one space replaces what  *)
(* the binding showed in another.                                          *)
(*                                                                         *)
(* Everything between the insert (or the retry's update) of a generation   *)
(* row and the final commit is ONE PostgreSQL transaction (READ COMMITTED),*)
(* so the PENDING and VERIFIED statuses are never committed.  The model    *)
(* keeps the committed rows (genId, genStatus, pub) and says which worker  *)
(* has uncommitted work on a row (holder, pubLock).  Qdrant is not part of *)
(* the transaction: points change when a request reaches it.               *)
(***************************************************************************)
EXTENDS Naturals

CONSTANTS
    Workers,     \* processes that call generate_index
    Runs,        \* ingestion runs of the institution, each in an embedding space
    Bindings,    \* source-to-policy bindings
    Chunks,      \* chunk hashes; a point id is a function of the chunk hash
    BindingOf,   \* BindingOf[r]: the binding of run r
    ChunksOf,    \* ChunksOf[r]: the chunk hashes saved for run r
    Completed,   \* the runs whose status is COMPLETED
    LateWrites,  \* TRUE: an abandoned upsert may still land in Qdrant later
    MaxFaults,   \* bound on worker crashes and on upserts that outlive a failure
    NoOne        \* not a worker

ASSUME GenerationAssumption ==
    /\ BindingOf \in [Runs -> Bindings]
    /\ ChunksOf \in [Runs -> SUBSET Chunks]
    /\ Completed \subseteq Runs
    /\ LateWrites \in BOOLEAN
    /\ MaxFaults \in Nat
    /\ NoOne \notin Workers

VARIABLES
    genId,       \* committed generation row of a run: its id, 0 when none
    genStatus,   \* committed status of that row
    holder,      \* the worker whose open transaction wrote that row
    pub,         \* committed published pointer of a binding, 0 when none
    pubLock,     \* the worker that holds that pointer row FOR UPDATE
    points,      \* Qdrant: the generation id in a point's payload, 0: no point
    inflight,    \* upserts whose client is gone and that Qdrant may yet apply
    pc,          \* where each worker is in generate_index
    job,         \* the run a worker works on
    gen,         \* its local generation_id, 0 when it has none
    nextGen,     \* the next fresh generation uuid
    faults       \* crashes, and upserts that outlived a failure, so far

dbVars == <<genId, genStatus, holder, pub, pubLock>>
qdrantVars == <<points, inflight>>
vars == <<genId, genStatus, holder, pub, pubLock, points, inflight,
          pc, job, gen, nextGen, faults>>

RowStatus == {"NONE", "FAILED", "PUBLISHED"}

\* The steps a worker takes while its transaction holds the generation row.
Building == {"embed", "upsert", "manifest", "select", "repoint", "create", "failed"}
Steps == Building \cup {"idle", "insert", "reload", "mark"}

TypeOK ==
    /\ genId \in [Runs -> Nat]
    /\ genStatus \in [Runs -> RowStatus]
    /\ holder \in [Runs -> Workers \cup {NoOne}]
    /\ pub \in [Bindings -> Nat]
    /\ pubLock \in [Bindings -> Workers \cup {NoOne}]
    /\ points \in [Chunks -> Nat]
    /\ inflight \subseteq [chunks : SUBSET Chunks, gen : Nat]
    /\ pc \in [Workers -> Steps]
    /\ job \in [Workers -> Runs]
    /\ gen \in [Workers -> Nat]
    /\ nextGen \in Nat \ {0}
    /\ faults \in 0..MaxFaults

Init ==
    /\ genId = [r \in Runs |-> 0]
    /\ genStatus = [r \in Runs |-> "NONE"]
    /\ holder = [r \in Runs |-> NoOne]
    /\ pub = [b \in Bindings |-> 0]
    /\ pubLock = [b \in Bindings |-> NoOne]
    /\ points = [h \in Chunks |-> 0]
    /\ inflight = {}
    /\ pc = [w \in Workers |-> "idle"]
    /\ job \in [Workers -> Runs]
    /\ gen = [w \in Workers |-> 0]
    /\ nextGen = 1
    /\ faults = 0
-----------------------------------------------------------------------------
Goto(w, from, to) ==
    /\ pc[w] = from
    /\ pc' = [pc EXCEPT ![w] = to]

\* Mutant of ReleaseLocks: the session is left open, in a transaction that never ends.
LeaveSessionOpen(w) == UNCHANGED <<holder, pubLock>>

\* The transaction of w ends, by commit or rollback: its row locks go.
ReleaseLocks(w) ==
    /\ holder' = [r \in Runs |-> IF holder[r] = w THEN NoOne ELSE holder[r]]
    /\ pubLock' = [b \in Bindings |-> IF pubLock[b] = w THEN NoOne ELSE pubLock[b]]

\* The generation row of w's run becomes visible with the given status.
CommitRow(w, status) ==
    /\ genId' = [genId EXCEPT ![job[w]] = gen[w]]
    /\ genStatus' = [genStatus EXCEPT ![job[w]] = status]

\* Qdrant stores the points of the chunk hashes H with generation g.
Written(H, g) == [h \in Chunks |-> IF h \in H THEN g ELSE points[h]]

\* generate_index is called for a run that is COMPLETED and has chunks; any
\* other call raises before it writes anything.
Start(w, r) ==
    /\ r \in Completed
    /\ ChunksOf[r] # {}
    /\ Goto(w, "idle", "insert")
    /\ job' = [job EXCEPT ![w] = r]
    /\ UNCHANGED <<dbVars, qdrantVars, gen, nextGen, faults>>

\* The INSERT waits for any open transaction that wrote the run's row, then
\* succeeds when there is no committed row.
InsertPending(w) ==
    /\ Goto(w, "insert", "embed")
    /\ holder[job[w]] = NoOne
    /\ genStatus[job[w]] = "NONE"
    /\ holder' = [holder EXCEPT ![job[w]] = w]
    /\ gen' = [gen EXCEPT ![w] = nextGen]
    /\ nextGen' = nextGen + 1
    /\ UNCHANGED <<genId, genStatus, pub, pubLock, qdrantVars, job, faults>>

\* ... and raises IntegrityError when there is one: rollback, then reload.
InsertConflict(w) ==
    /\ Goto(w, "insert", "reload")
    /\ holder[job[w]] = NoOne
    /\ genStatus[job[w]] # "NONE"
    /\ UNCHANGED <<dbVars, qdrantVars, job, gen, nextGen, faults>>

\* A plain SELECT: it takes no lock and sees the committed row.
ReturnExisting(w) ==
    /\ Goto(w, "reload", "idle")
    /\ genStatus[job[w]] = "PUBLISHED"
    /\ gen' = [gen EXCEPT ![w] = 0]
    /\ UNCHANGED <<dbVars, qdrantVars, job, nextGen, faults>>

\* Mutant of ReuseExisting: the retry replaces the row, with a new id.
ReplaceExisting(w) ==
    /\ Goto(w, "reload", "mark")
    /\ genStatus[job[w]] = "FAILED"
    /\ gen' = [gen EXCEPT ![w] = nextGen]
    /\ nextGen' = nextGen + 1
    /\ UNCHANGED <<dbVars, qdrantVars, job, faults>>

ReuseExisting(w) ==
    /\ Goto(w, "reload", "mark")
    /\ genStatus[job[w]] = "FAILED"
    /\ gen' = [gen EXCEPT ![w] = genId[job[w]]]
    /\ UNCHANGED <<dbVars, qdrantVars, job, nextGen, faults>>

\* Mutant of MarkPending: the retry does not wait for the row.
MarkWithoutLock(w) ==
    /\ Goto(w, "mark", "embed")
    /\ holder' = [holder EXCEPT ![job[w]] = w]
    /\ UNCHANGED <<genId, genStatus, pub, pubLock, qdrantVars, job, gen, nextGen, faults>>

\* The UPDATE to PENDING waits for the row and then applies, whatever status
\* another worker committed since the reload.
MarkPending(w) ==
    /\ Goto(w, "mark", "embed")
    /\ holder[job[w]] = NoOne
    /\ holder' = [holder EXCEPT ![job[w]] = w]
    /\ UNCHANGED <<genId, genStatus, pub, pubLock, qdrantVars, job, gen, nextGen, faults>>

\* Mutant of Embed: publication before the upsert.
EmbedThenPublish(w) ==
    /\ Goto(w, "embed", "select")
    /\ UNCHANGED <<dbVars, qdrantVars, job, gen, nextGen, faults>>

Embed(w) ==
    /\ Goto(w, "embed", "upsert")
    /\ UNCHANGED <<dbVars, qdrantVars, job, gen, nextGen, faults>>

\* The provider fails, or validate_vectors refuses what it returned.
EmbedFails(w) ==
    /\ Goto(w, "embed", "failed")
    /\ UNCHANGED <<dbVars, qdrantVars, job, gen, nextGen, faults>>

\* Mutant of Upsert: it clears the points that readers of the binding still use.
UpsertDropsOld(w) ==
    /\ Goto(w, "upsert", "manifest")
    /\ points' = [h \in Chunks |->
                     IF h \in ChunksOf[job[w]] THEN gen[w]
                     ELSE IF points[h] = pub[BindingOf[job[w]]] THEN 0 ELSE points[h]]
    /\ UNCHANGED <<dbVars, inflight, job, gen, nextGen, faults>>

Upsert(w) ==
    /\ Goto(w, "upsert", "manifest")
    /\ points' = Written(ChunksOf[job[w]], gen[w])
    /\ UNCHANGED <<dbVars, inflight, job, gen, nextGen, faults>>

\* The client of an upsert is gone (error, timeout, crash).  Qdrant has applied
\* some of it, and with LateWrites the rest may still be on its way.
AbandonUpsert(w) ==
    \E H \in SUBSET ChunksOf[job[w]] :
        /\ points' = Written(H, gen[w])
        /\ \/ UNCHANGED inflight
           \/ /\ LateWrites /\ H # ChunksOf[job[w]]
              /\ inflight' = inflight \cup {[chunks |-> ChunksOf[job[w]] \ H, gen |-> gen[w]]}

UpsertFails(w) ==
    /\ Goto(w, "upsert", "failed")
    /\ AbandonUpsert(w)
    /\ faults' = IF inflight' = inflight THEN faults ELSE faults + 1
    /\ faults' <= MaxFaults
    /\ UNCHANGED <<dbVars, job, gen, nextGen>>

\* validate_manifest: the points found under this generation are the expected ones.
ManifestMatches(w) == {h \in Chunks : points[h] = gen[w]} = ChunksOf[job[w]]

VerifyManifest(w) ==
    /\ Goto(w, "manifest", "select")
    /\ ManifestMatches(w)
    /\ UNCHANGED <<dbVars, qdrantVars, job, gen, nextGen, faults>>

\* The manifests differ, or Qdrant cannot be read.
ManifestFails(w) ==
    /\ Goto(w, "manifest", "failed")
    /\ UNCHANGED <<dbVars, qdrantVars, job, gen, nextGen, faults>>

\* Mutant of RecordFailure: the handler commits without setting the status.
CommitPending(w) ==
    /\ Goto(w, "failed", "idle")
    /\ CommitRow(w, "PENDING")
    /\ ReleaseLocks(w)
    /\ UNCHANGED <<pub, qdrantVars, job, gen, nextGen, faults>>

\* gen.status = "FAILED", commit, raise.
RecordFailure(w) ==
    /\ Goto(w, "failed", "idle")
    /\ CommitRow(w, "FAILED")
    /\ ReleaseLocks(w)
    /\ gen' = [gen EXCEPT ![w] = 0]
    /\ UNCHANGED <<pub, qdrantVars, job, nextGen, faults>>

\* SELECT ... FOR UPDATE of the pointer row: it waits for a lock on the row.
SelectPublished(w) ==
    LET b == BindingOf[job[w]] IN
    /\ pubLock[b] = NoOne
    /\ \/ /\ pub[b] # 0
          /\ Goto(w, "select", "repoint")
          /\ pubLock' = [pubLock EXCEPT ![b] = w]
       \/ /\ pub[b] = 0
          /\ Goto(w, "select", "create")
          /\ UNCHANGED pubLock
    /\ UNCHANGED <<genId, genStatus, holder, pub, qdrantVars, job, gen, nextGen, faults>>

\* The pointer and the status PUBLISHED become visible in one commit.
PublishCommit(w) ==
    /\ pub' = [pub EXCEPT ![BindingOf[job[w]]] = gen[w]]
    /\ CommitRow(w, "PUBLISHED")
    /\ ReleaseLocks(w)
    /\ gen' = [gen EXCEPT ![w] = 0]
    /\ UNCHANGED <<qdrantVars, job, nextGen, faults>>

Repoint(w) ==
    /\ Goto(w, "repoint", "idle")
    /\ PublishCommit(w)

CreatePointer(w) ==
    /\ Goto(w, "create", "idle")
    /\ pub[BindingOf[job[w]]] = 0
    /\ PublishCommit(w)

\* Another worker created the binding's pointer first: the unique constraint
\* raises IntegrityError, nobody catches it, the whole transaction rolls back.
CreateConflict(w) ==
    /\ Goto(w, "create", "idle")
    /\ pub[BindingOf[job[w]]] # 0
    /\ ReleaseLocks(w)
    /\ gen' = [gen EXCEPT ![w] = 0]
    /\ UNCHANGED <<genId, genStatus, pub, qdrantVars, job, nextGen, faults>>

\* The process dies: PostgreSQL rolls its transaction back, Qdrant keeps what
\* it has applied.
Crash(w) ==
    /\ pc[w] # "idle"
    /\ faults < MaxFaults
    /\ faults' = faults + 1
    /\ pc' = [pc EXCEPT ![w] = "idle"]
    /\ ReleaseLocks(w)
    /\ \/ pc[w] = "upsert" /\ AbandonUpsert(w)
       \/ pc[w] # "upsert" /\ UNCHANGED qdrantVars
    /\ gen' = [gen EXCEPT ![w] = 0]
    /\ UNCHANGED <<genId, genStatus, pub, job, nextGen>>

\* Qdrant applies (part of) an upsert whose client is gone.
LateUpsert(m) ==
    /\ \E H \in SUBSET m.chunks : points' = Written(H, m.gen)
    /\ inflight' = inflight \ {m}
    /\ UNCHANGED <<dbVars, pc, job, gen, nextGen, faults>>
-----------------------------------------------------------------------------
Insert(w) == InsertPending(w) \/ InsertConflict(w)
Publish(w) == Repoint(w) \/ CreatePointer(w) \/ CreateConflict(w)

Step(w) ==
    \/ Insert(w)
    \/ ReturnExisting(w)
    \/ ReuseExisting(w)
    \/ MarkPending(w)
    \/ Embed(w)
    \/ EmbedFails(w)
    \/ Upsert(w)
    \/ UpsertFails(w)
    \/ VerifyManifest(w)
    \/ ManifestFails(w)
    \/ RecordFailure(w)
    \/ SelectPublished(w)
    \/ Publish(w)

Next ==
    \/ \E w \in Workers, r \in Runs : Start(w, r)
    \/ \E w \in Workers : Step(w)
    \/ \E w \in Workers : Crash(w)
    \/ \E m \in inflight : LateUpsert(m)

Spec == Init /\ [][Next]_vars

\* A running call goes on (HTTP calls have timeouts), and PostgreSQL serves the
\* waiters of a row lock in turn, so a step that is enabled again and again is
\* taken.  Nothing obliges anybody to call generate_index.
Fairness == \A w \in Workers : SF_vars(Step(w))

FairSpec == Spec /\ Fairness
-----------------------------------------------------------------------------
\* Two runs have a chunk with hash h: the parser's and the chunker's version are
\* not part of a chunk hash, and two bindings may share a document.
Shared(h) == \E r, s \in Runs : r # s /\ h \in ChunksOf[r] /\ h \in ChunksOf[s]

\* w's generation_id names the row it has written or read.
Owning(w) == pc[w] \in Building \cup {"mark"}

\* An id that no row has any more: the row was rolled back.
Orphan(g) ==
    /\ g # 0
    /\ \A r \in Runs : genId[r] # g
    /\ \A w \in Workers : Owning(w) => gen[w] # g

\* The chunks whose point may be taken from the run that is shown: by another run with
\* the same hash, or by a late upsert of an attempt that was rolled back.
Exposed == {h \in Chunks : Shared(h) \/ (LateWrites /\ Orphan(points[h]))}

\* What a reader that follows the pointer of binding b finds in Qdrant.
Readable(b) == {h \in Chunks : pub[b] # 0 /\ points[h] = pub[b]}

\* At most one worker at a time works on a run's generation row.  Workers
\* exclude each other only through PostgreSQL: the insert waits for an
\* uncommitted insert or update of the same unique key, the retry's update for
\* the row lock.
OneBuilderPerRun ==
    \A v, w \in Workers :
        (v # w /\ pc[v] \in Building /\ pc[w] \in Building) => job[v] # job[w]

\* A binding's pointer names a committed generation of a COMPLETED run of that
\* binding.  The points under that generation are chunks of that run and of no
\* other, and none is missing but for exposed ones: no crash, failed upsert, retry
\* or concurrent build leaves a partly indexed generation visible.
PublishedIndexComplete ==
    \A b \in Bindings : pub[b] # 0 =>
        \E r \in Completed :
            /\ BindingOf[r] = b
            /\ genId[r] = pub[b]
            /\ ChunksOf[r] # {}
            /\ Readable(b) \subseteq ChunksOf[r]
            /\ ChunksOf[r] \ Exposed \subseteq Readable(b)

\* rag-contract.md, "Old valid generations remain readable until a new complete one is
\* published", with no exception for a chunk hash that another generation has too.
OldGenerationsStayReadable ==
    \A b \in Bindings : pub[b] # 0 =>
        \E r \in Completed :
            /\ BindingOf[r] = b
            /\ genId[r] = pub[b]
            /\ Readable(b) = ChunksOf[r]

\* A committed generation row keeps its id whatever is retried, and a pointer
\* once created never goes away.
IdentityIsStable ==
    [][ /\ \A r \in Runs : genId[r] # 0 => genId'[r] = genId[r]
        /\ \A b \in Bindings : pub[b] # 0 => pub'[b] # 0 ]_vars

\* The run of the generation that the pointer of b names.
Shown(b) == {r \in Runs : pub[b] # 0 /\ genId[r] = pub[b]}

\* Readers see whole replacements only, up to exposed chunks: rag-contract's "partially
\* indexed generations are never visible" as an abstract specification that every
\* step of generate_index implements or leaves alone.
ReaderView == INSTANCE ReaderAtomicIndex
    WITH shown <- [b \in Bindings |-> Shown(b)],
         readable <- [b \in Bindings |-> Readable(b)],
         exposed <- Exposed
ReadersSeeWholeReplacements == ReaderView!Spec

\* The pointer never names a generation whose committed status is FAILED: the
\* comment in generate_index promises that a published one is left alone.
PointerNamesPublished ==
    \A r \in Runs : (genId[r] # 0 /\ pub[BindingOf[r]] = genId[r]) => genStatus[r] = "PUBLISHED"

\* Every call ends: the two row locks are always taken in the same order, so
\* workers on different runs of one binding never wait for each other in a circle.
EveryCallEnds == \A w \in Workers : pc[w] # "idle" ~> pc[w] = "idle"
-----------------------------------------------------------------------------
\* The inductive invariant behind PublishedIndexComplete.

\* Generation ids are fresh, and distinct runs have distinct ids.
IdsAreFresh ==
    /\ \A r \in Runs : genId[r] < nextGen /\ (genStatus[r] = "NONE" <=> genId[r] = 0)
    /\ \A w \in Workers : gen[w] < nextGen
    /\ \A b \in Bindings : pub[b] < nextGen
    /\ \A h \in Chunks : points[h] < nextGen
    /\ \A m \in inflight : m.gen < nextGen /\ m.gen # 0
    /\ \A r, s \in Runs : (genId[r] = genId[s] /\ genId[r] # 0) => r = s

\* A row is held by exactly the worker that builds its run.
RowsAreHeld ==
    /\ \A w \in Workers : pc[w] \in Building => holder[job[w]] = w
    /\ \A r \in Runs : holder[r] # NoOne =>
          pc[holder[r]] \in Building /\ job[holder[r]] = r

\* A local generation_id belongs to one run: the committed row's id when there
\* is one, otherwise an id nobody else has.
LocalIdsMatch ==
    \A w \in Workers :
        /\ pc[w] # "idle" => job[w] \in Completed /\ ChunksOf[job[w]] # {}
        /\ pc[w] = "mark" => genId[job[w]] # 0
        /\ Owning(w) =>
            /\ gen[w] # 0
            /\ genId[job[w]] # 0 => gen[w] = genId[job[w]]
            /\ \A r \in Runs : genId[r] = gen[w] => r = job[w]
            /\ \A v \in Workers : (Owning(v) /\ gen[v] = gen[w]) => job[v] = job[w]

\* The chunks H may carry the generation id g: they are chunks of the run that has
\* the id, in its committed row or in the open transaction of its builder.
MayCarry(H, g) ==
    /\ \A r \in Runs : (genId[r] # 0 /\ genId[r] = g) => H \subseteq ChunksOf[r]
    /\ \A w \in Workers : (Owning(w) /\ gen[w] = g) => H \subseteq ChunksOf[job[w]]

\* No point carries, and no upsert brings, the id of another run.
PointsAreOwn ==
    /\ \A h \in Chunks : MayCarry({h}, points[h])
    /\ \A m \in inflight : MayCarry(m.chunks, m.gen)

\* Run r is indexed under g, up to exposed chunks.
InPlace(r, g) == \A h \in ChunksOf[r] : h \in Exposed \/ points[h] = g

\* A worker past the manifest check has its run in place,
VerifiedPoints ==
    \A w \in Workers : pc[w] \in {"select", "repoint", "create"} => InPlace(job[w], gen[w])

\* and a published pointer names a run in place.
PublishedAt(b) ==
    pub[b] # 0 =>
        \E r \in Completed :
            /\ BindingOf[r] = b
            /\ genId[r] = pub[b]
            /\ ChunksOf[r] # {}
            /\ InPlace(r, pub[b])

PublishedPoints == \A b \in Bindings : PublishedAt(b)

IInv ==
    /\ TypeOK
    /\ IdsAreFresh
    /\ RowsAreHeld
    /\ LocalIdsMatch
    /\ ~LateWrites => inflight = {}
    /\ PointsAreOwn
    /\ VerifiedPoints
    /\ PublishedPoints
=============================================================================
