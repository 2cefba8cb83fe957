----------------------- MODULE IndexGenerationProofs -----------------------
(***************************************************************************)
(* Proofs about IndexGeneration and EvidenceRetrieval, for any number of   *)
(* workers, readers, runs, bindings, crashes and late upserts: types,      *)
(* mutual exclusion on generation rows, evidence of one run only, and, up  *)
(* to exposed chunks, that a published pointer always has its complete     *)
(* index, that a reader who pinned it finds it, and that the whole         *)
(* protocol implements ReaderAtomicIndex.                                  *)
(***************************************************************************)
EXTENDS EvidenceRetrieval, TLAPS

\* The steps that change nothing but w's place in generate_index.
MovesOn(w) ==
    \/ InsertConflict(w) \/ ReturnExisting(w)
    \/ Embed(w) \/ EmbedFails(w)
    \/ VerifyManifest(w) \/ ManifestFails(w)
-----------------------------------------------------------------------------

\* Every step keeps the types.
LEMMA TypeStep ==
    ASSUME TypeOK, [Next]_vars
    PROVE  TypeOK'
<1> USE GenerationAssumption DEF TypeOK, Steps, Building, RowStatus
<1>1. ASSUME NEW w \in Workers, NEW r \in Runs, Start(w, r)
     PROVE  TypeOK'
  BY <1>1 DEF Start, Goto, dbVars, qdrantVars
<1>2. ASSUME NEW w \in Workers, MovesOn(w)
     PROVE  TypeOK'
  BY <1>2 DEF MovesOn, InsertConflict, ReturnExisting, Embed, EmbedFails, VerifyManifest, ManifestFails, Goto, dbVars, qdrantVars
<1>3. ASSUME NEW w \in Workers, InsertPending(w)
     PROVE  TypeOK'
  BY <1>3 DEF InsertPending, Goto, qdrantVars
<1>4. ASSUME NEW w \in Workers, ReuseExisting(w)
     PROVE  TypeOK'
  BY <1>4 DEF ReuseExisting, Goto, qdrantVars, dbVars
<1>5. ASSUME NEW w \in Workers, MarkPending(w)
     PROVE  TypeOK'
  BY <1>5 DEF MarkPending, Goto, qdrantVars
<1>6. ASSUME NEW w \in Workers, Upsert(w)
     PROVE  TypeOK'
  BY <1>6 DEF Upsert, Goto, dbVars, Written
<1>7. ASSUME NEW w \in Workers, UpsertFails(w)
     PROVE  TypeOK'
  BY <1>7 DEF UpsertFails, Goto, dbVars, Written, AbandonUpsert
<1>8. ASSUME NEW w \in Workers, RecordFailure(w)
     PROVE  TypeOK'
  BY <1>8 DEF RecordFailure, Goto, qdrantVars, ReleaseLocks, CommitRow
<1>9. ASSUME NEW w \in Workers, SelectPublished(w)
     PROVE  TypeOK'
  BY <1>9 DEF SelectPublished, Goto, qdrantVars
<1>10. ASSUME NEW w \in Workers, Repoint(w)
     PROVE  TypeOK'
  BY <1>10 DEF Repoint, Goto, qdrantVars, ReleaseLocks, PublishCommit, CommitRow
<1>11. ASSUME NEW w \in Workers, CreatePointer(w)
     PROVE  TypeOK'
  BY <1>11 DEF CreatePointer, Goto, qdrantVars, ReleaseLocks, PublishCommit, CommitRow
<1>12. ASSUME NEW w \in Workers, CreateConflict(w)
     PROVE  TypeOK'
  BY <1>12 DEF CreateConflict, Goto, qdrantVars, ReleaseLocks
<1>13. ASSUME NEW w \in Workers, Crash(w)
     PROVE  TypeOK'
  BY <1>13 DEF Crash, qdrantVars, ReleaseLocks, Written, AbandonUpsert
<1>14. ASSUME NEW m \in inflight, LateUpsert(m)
     PROVE  TypeOK'
  BY <1>14 DEF LateUpsert, dbVars, Written
<1>15. CASE UNCHANGED vars
  BY <1>15 DEF vars, dbVars, qdrantVars
<1>16. QED
  BY <1>1, <1>2, <1>3, <1>4, <1>5, <1>6, <1>7, <1>8,
     <1>9, <1>10, <1>11, <1>12, <1>13, <1>14, <1>15 DEF Next, Step, Insert, Publish, MovesOn

\* A worker gets a generation row only when nobody holds it, and lets it go when
\* its transaction ends.
LEMMA RowsStep ==
    ASSUME TypeOK, RowsAreHeld, [Next]_vars
    PROVE  RowsAreHeld'
<1> USE GenerationAssumption DEF TypeOK, Steps, Building, RowsAreHeld
<1>1. ASSUME NEW w \in Workers, NEW r \in Runs, Start(w, r)
     PROVE  RowsAreHeld'
  BY <1>1 DEF Start, Goto, dbVars, qdrantVars
<1>2. ASSUME NEW w \in Workers, MovesOn(w)
     PROVE  RowsAreHeld'
  BY <1>2 DEF MovesOn, InsertConflict, ReturnExisting, Embed, EmbedFails, VerifyManifest, ManifestFails, Goto, dbVars, qdrantVars
<1>3. ASSUME NEW w \in Workers, InsertPending(w)
     PROVE  RowsAreHeld'
  BY <1>3 DEF InsertPending, Goto, qdrantVars
<1>4. ASSUME NEW w \in Workers, ReuseExisting(w)
     PROVE  RowsAreHeld'
  BY <1>4 DEF ReuseExisting, Goto, qdrantVars, dbVars
<1>5. ASSUME NEW w \in Workers, MarkPending(w)
     PROVE  RowsAreHeld'
  BY <1>5 DEF MarkPending, Goto, qdrantVars
<1>6. ASSUME NEW w \in Workers, Upsert(w)
     PROVE  RowsAreHeld'
  BY <1>6 DEF Upsert, Goto, dbVars, Written
<1>7. ASSUME NEW w \in Workers, UpsertFails(w)
     PROVE  RowsAreHeld'
  BY <1>7 DEF UpsertFails, Goto, dbVars, Written, AbandonUpsert
<1>8. ASSUME NEW w \in Workers, RecordFailure(w)
     PROVE  RowsAreHeld'
  BY <1>8 DEF RecordFailure, Goto, qdrantVars, ReleaseLocks, CommitRow
<1>9. ASSUME NEW w \in Workers, SelectPublished(w)
     PROVE  RowsAreHeld'
  BY <1>9 DEF SelectPublished, Goto, qdrantVars
<1>10. ASSUME NEW w \in Workers, Repoint(w)
     PROVE  RowsAreHeld'
  BY <1>10 DEF Repoint, Goto, qdrantVars, ReleaseLocks, PublishCommit, CommitRow
<1>11. ASSUME NEW w \in Workers, CreatePointer(w)
     PROVE  RowsAreHeld'
  BY <1>11 DEF CreatePointer, Goto, qdrantVars, ReleaseLocks, PublishCommit, CommitRow
<1>12. ASSUME NEW w \in Workers, CreateConflict(w)
     PROVE  RowsAreHeld'
  BY <1>12 DEF CreateConflict, Goto, qdrantVars, ReleaseLocks
<1>13. ASSUME NEW w \in Workers, Crash(w)
     PROVE  RowsAreHeld'
  BY <1>13 DEF Crash, qdrantVars, ReleaseLocks, Written, AbandonUpsert
<1>14. ASSUME NEW m \in inflight, LateUpsert(m)
     PROVE  RowsAreHeld'
  BY <1>14 DEF LateUpsert, dbVars, Written
<1>15. CASE UNCHANGED vars
  BY <1>15 DEF vars, dbVars, qdrantVars
<1>16. QED
  BY <1>1, <1>2, <1>3, <1>4, <1>5, <1>6, <1>7, <1>8,
     <1>9, <1>10, <1>11, <1>12, <1>13, <1>14, <1>15 DEF Next, Step, Insert, Publish, MovesOn

\* Ids stay fresh and distinct: a commit writes the id of the worker's own run.
LEMMA IdsStep ==
    ASSUME TypeOK, IdsAreFresh, LocalIdsMatch, [Next]_vars
    PROVE  IdsAreFresh'
<1> USE GenerationAssumption DEF TypeOK, Building, IdsAreFresh, LocalIdsMatch, Owning
<1>1. ASSUME NEW w \in Workers, NEW r \in Runs, Start(w, r)
     PROVE  IdsAreFresh'
  BY <1>1 DEF Start, Goto, dbVars, qdrantVars
<1>2. ASSUME NEW w \in Workers, MovesOn(w)
     PROVE  IdsAreFresh'
  BY <1>2 DEF MovesOn, InsertConflict, ReturnExisting, Embed, EmbedFails, VerifyManifest, ManifestFails, Goto, dbVars, qdrantVars
<1>3. ASSUME NEW w \in Workers, InsertPending(w)
     PROVE  IdsAreFresh'
  BY <1>3 DEF InsertPending, Goto, qdrantVars
<1>4. ASSUME NEW w \in Workers, ReuseExisting(w)
     PROVE  IdsAreFresh'
  BY <1>4 DEF ReuseExisting, Goto, qdrantVars, dbVars
<1>5. ASSUME NEW w \in Workers, MarkPending(w)
     PROVE  IdsAreFresh'
  BY <1>5 DEF MarkPending, Goto, qdrantVars
<1>6. ASSUME NEW w \in Workers, Upsert(w)
     PROVE  IdsAreFresh'
  BY <1>6 DEF Upsert, Goto, dbVars, Written
<1>7. ASSUME NEW w \in Workers, UpsertFails(w)
     PROVE  IdsAreFresh'
  BY <1>7 DEF UpsertFails, Goto, dbVars, Written, AbandonUpsert
<1>8. ASSUME NEW w \in Workers, RecordFailure(w)
     PROVE  IdsAreFresh'
  BY <1>8 DEF RecordFailure, Goto, qdrantVars, ReleaseLocks, CommitRow
<1>9. ASSUME NEW w \in Workers, SelectPublished(w)
     PROVE  IdsAreFresh'
  BY <1>9 DEF SelectPublished, Goto, qdrantVars
<1>10. ASSUME NEW w \in Workers, Repoint(w)
     PROVE  IdsAreFresh'
  BY <1>10 DEF Repoint, Goto, qdrantVars, ReleaseLocks, PublishCommit, CommitRow
<1>11. ASSUME NEW w \in Workers, CreatePointer(w)
     PROVE  IdsAreFresh'
  BY <1>11 DEF CreatePointer, Goto, qdrantVars, ReleaseLocks, PublishCommit, CommitRow
<1>12. ASSUME NEW w \in Workers, CreateConflict(w)
     PROVE  IdsAreFresh'
  BY <1>12 DEF CreateConflict, Goto, qdrantVars, ReleaseLocks
<1>13. ASSUME NEW w \in Workers, Crash(w)
     PROVE  IdsAreFresh'
  BY <1>13 DEF Crash, qdrantVars, ReleaseLocks, Written, AbandonUpsert
<1>14. ASSUME NEW m \in inflight, LateUpsert(m)
     PROVE  IdsAreFresh'
  BY <1>14 DEF LateUpsert, dbVars, Written
<1>15. CASE UNCHANGED vars
  BY <1>15 DEF vars, dbVars, qdrantVars
<1>16. QED
  BY <1>1, <1>2, <1>3, <1>4, <1>5, <1>6, <1>7, <1>8,
     <1>9, <1>10, <1>11, <1>12, <1>13, <1>14, <1>15 DEF Next, Step, Insert, Publish, MovesOn

\* A worker's local id keeps matching its run's row: only the holder of the row
\* can commit it.
LEMMA LocalIdsStep ==
    ASSUME TypeOK, RowsAreHeld, IdsAreFresh, LocalIdsMatch, [Next]_vars
    PROVE  LocalIdsMatch'
<1> USE GenerationAssumption DEF TypeOK, Building, RowsAreHeld, IdsAreFresh, LocalIdsMatch, Owning
<1>1. ASSUME NEW w \in Workers, NEW r \in Runs, Start(w, r)
     PROVE  LocalIdsMatch'
  BY <1>1 DEF Start, Goto, dbVars, qdrantVars
<1>2. ASSUME NEW w \in Workers, MovesOn(w)
     PROVE  LocalIdsMatch'
  BY <1>2 DEF MovesOn, InsertConflict, ReturnExisting, Embed, EmbedFails, VerifyManifest, ManifestFails, Goto, dbVars, qdrantVars
<1>3. ASSUME NEW w \in Workers, InsertPending(w)
     PROVE  LocalIdsMatch'
  BY <1>3 DEF InsertPending, Goto, qdrantVars
<1>4. ASSUME NEW w \in Workers, ReuseExisting(w)
     PROVE  LocalIdsMatch'
  BY <1>4 DEF ReuseExisting, Goto, qdrantVars, dbVars
<1>5. ASSUME NEW w \in Workers, MarkPending(w)
     PROVE  LocalIdsMatch'
  BY <1>5 DEF MarkPending, Goto, qdrantVars
<1>6. ASSUME NEW w \in Workers, Upsert(w)
     PROVE  LocalIdsMatch'
  BY <1>6 DEF Upsert, Goto, dbVars, Written
<1>7. ASSUME NEW w \in Workers, UpsertFails(w)
     PROVE  LocalIdsMatch'
  BY <1>7 DEF UpsertFails, Goto, dbVars, Written, AbandonUpsert
<1>8. ASSUME NEW w \in Workers, RecordFailure(w)
     PROVE  LocalIdsMatch'
  BY <1>8 DEF RecordFailure, Goto, qdrantVars, ReleaseLocks, CommitRow
<1>9. ASSUME NEW w \in Workers, SelectPublished(w)
     PROVE  LocalIdsMatch'
  BY <1>9 DEF SelectPublished, Goto, qdrantVars
<1>10. ASSUME NEW w \in Workers, Repoint(w)
     PROVE  LocalIdsMatch'
  BY <1>10 DEF Repoint, Goto, qdrantVars, ReleaseLocks, PublishCommit, CommitRow
<1>11. ASSUME NEW w \in Workers, CreatePointer(w)
     PROVE  LocalIdsMatch'
  BY <1>11 DEF CreatePointer, Goto, qdrantVars, ReleaseLocks, PublishCommit, CommitRow
<1>12. ASSUME NEW w \in Workers, CreateConflict(w)
     PROVE  LocalIdsMatch'
  BY <1>12 DEF CreateConflict, Goto, qdrantVars, ReleaseLocks
<1>13. ASSUME NEW w \in Workers, Crash(w)
     PROVE  LocalIdsMatch'
  BY <1>13 DEF Crash, qdrantVars, ReleaseLocks, Written, AbandonUpsert
<1>14. ASSUME NEW m \in inflight, LateUpsert(m)
     PROVE  LocalIdsMatch'
  BY <1>14 DEF LateUpsert, dbVars, Written
<1>15. CASE UNCHANGED vars
  BY <1>15 DEF vars, dbVars, qdrantVars
<1>16. QED
  BY <1>1, <1>2, <1>3, <1>4, <1>5, <1>6, <1>7, <1>8,
     <1>9, <1>10, <1>11, <1>12, <1>13, <1>14, <1>15 DEF Next, Step, Insert, Publish, MovesOn

\* Without late writes nothing is ever in flight.
LEMMA InflightStep ==
    ASSUME inflight = {}, ~LateWrites, [Next]_vars
    PROVE  inflight' = {}
<1> USE GenerationAssumption DEF vars
<1>1. ASSUME NEW w \in Workers, NEW r \in Runs, Start(w, r)
     PROVE  inflight' = {}
  BY <1>1 DEF Start, Goto, dbVars, qdrantVars
<1>2. ASSUME NEW w \in Workers, MovesOn(w)
     PROVE  inflight' = {}
  BY <1>2 DEF MovesOn, InsertConflict, ReturnExisting, Embed, EmbedFails, VerifyManifest, ManifestFails, Goto, dbVars, qdrantVars
<1>3. ASSUME NEW w \in Workers, InsertPending(w)
     PROVE  inflight' = {}
  BY <1>3 DEF InsertPending, Goto, qdrantVars
<1>4. ASSUME NEW w \in Workers, ReuseExisting(w)
     PROVE  inflight' = {}
  BY <1>4 DEF ReuseExisting, Goto, qdrantVars, dbVars
<1>5. ASSUME NEW w \in Workers, MarkPending(w)
     PROVE  inflight' = {}
  BY <1>5 DEF MarkPending, Goto, qdrantVars
<1>6. ASSUME NEW w \in Workers, Upsert(w)
     PROVE  inflight' = {}
  BY <1>6 DEF Upsert, Goto, dbVars, Written
<1>7. ASSUME NEW w \in Workers, UpsertFails(w)
     PROVE  inflight' = {}
  BY <1>7 DEF UpsertFails, Goto, dbVars, Written, AbandonUpsert
<1>8. ASSUME NEW w \in Workers, RecordFailure(w)
     PROVE  inflight' = {}
  BY <1>8 DEF RecordFailure, Goto, qdrantVars, ReleaseLocks, CommitRow
<1>9. ASSUME NEW w \in Workers, SelectPublished(w)
     PROVE  inflight' = {}
  BY <1>9 DEF SelectPublished, Goto, qdrantVars
<1>10. ASSUME NEW w \in Workers, Repoint(w)
     PROVE  inflight' = {}
  BY <1>10 DEF Repoint, Goto, qdrantVars, ReleaseLocks, PublishCommit, CommitRow
<1>11. ASSUME NEW w \in Workers, CreatePointer(w)
     PROVE  inflight' = {}
  BY <1>11 DEF CreatePointer, Goto, qdrantVars, ReleaseLocks, PublishCommit, CommitRow
<1>12. ASSUME NEW w \in Workers, CreateConflict(w)
     PROVE  inflight' = {}
  BY <1>12 DEF CreateConflict, Goto, qdrantVars, ReleaseLocks
<1>13. ASSUME NEW w \in Workers, Crash(w)
     PROVE  inflight' = {}
  BY <1>13 DEF Crash, qdrantVars, ReleaseLocks, Written, AbandonUpsert
<1>14. ASSUME NEW m \in inflight, LateUpsert(m)
     PROVE  inflight' = {}
  BY <1>14 DEF LateUpsert, dbVars, Written
<1>15. CASE UNCHANGED vars
  BY <1>15 DEF vars, dbVars, qdrantVars
<1>16. QED
  BY <1>1, <1>2, <1>3, <1>4, <1>5, <1>6, <1>7, <1>8,
     <1>9, <1>10, <1>11, <1>12, <1>13, <1>14, <1>15 DEF Next, Step, Insert, Publish, MovesOn

\* The points change only in an upsert, which is the last thing its client sees of it when
\* it fails, and when an abandoned upsert lands.
LEMMA Writers ==
    ASSUME TypeOK, [Next]_vars
    PROVE  \/ UNCHANGED <<points, inflight>>
           \/ \E w \in Workers : \E H \in SUBSET ChunksOf[job[w]] :
                 /\ pc[w] = "upsert"
                 /\ points' = Written(H, gen[w])
                 /\ \/ inflight' = inflight
                    \/ inflight' = inflight \cup {[chunks |-> ChunksOf[job[w]] \ H, gen |-> gen[w]]}
           \/ \E m \in inflight : \E H \in SUBSET m.chunks :
                 /\ points' = Written(H, m.gen)
                 /\ inflight' \subseteq inflight
                 /\ UNCHANGED <<genId, pc, job, gen>>
<1>1. ASSUME NEW w \in Workers, Upsert(w)
      PROVE  /\ pc[w] = "upsert" /\ ChunksOf[job[w]] \in SUBSET ChunksOf[job[w]]
             /\ points' = Written(ChunksOf[job[w]], gen[w]) /\ inflight' = inflight
  BY <1>1 DEF Upsert, Goto
<1>2. ASSUME NEW w \in Workers, UpsertFails(w) \/ (Crash(w) /\ pc[w] = "upsert")
      PROVE  /\ pc[w] = "upsert"
             /\ \E H \in SUBSET ChunksOf[job[w]] :
                   /\ points' = Written(H, gen[w])
                   /\ \/ inflight' = inflight
                      \/ inflight' = inflight \cup {[chunks |-> ChunksOf[job[w]] \ H, gen |-> gen[w]]}
  BY <1>2 DEF UpsertFails, Crash, AbandonUpsert, Goto
<1>3. ASSUME NEW m \in inflight, LateUpsert(m)
      PROVE  \E H \in SUBSET m.chunks :
                 /\ points' = Written(H, m.gen)
                 /\ inflight' \subseteq inflight
                 /\ UNCHANGED <<genId, pc, job, gen>>
  BY <1>3 DEF LateUpsert, dbVars
<1>4. \/ UNCHANGED <<points, inflight>>
      \/ \E w \in Workers : Upsert(w) \/ UpsertFails(w) \/ (Crash(w) /\ pc[w] = "upsert")
      \/ \E m \in inflight : LateUpsert(m)
  BY DEF Next, Step, Insert, Publish, Start, InsertPending, InsertConflict, ReturnExisting,
         ReuseExisting, MarkPending, Embed, EmbedFails, VerifyManifest, ManifestFails,
         RecordFailure, SelectPublished, Repoint, CreatePointer, CreateConflict,
         PublishCommit, Crash, qdrantVars, vars
<1>5. CASE \E w \in Workers : Upsert(w)
  BY <1>1, <1>5
<1>6. CASE \E w \in Workers : UpsertFails(w) \/ (Crash(w) /\ pc[w] = "upsert")
  <2>1. PICK w \in Workers : UpsertFails(w) \/ (Crash(w) /\ pc[w] = "upsert")
    BY <1>6
  <2>2. QED
    BY <1>2, <2>1
<1>7. QED
  BY <1>3, <1>4, <1>5, <1>6

\* A row's id comes from its builder, a builder's id from the row or from nowhere.
LEMMA OwnersStep ==
    ASSUME IInv, [Next]_vars
    PROVE  /\ \A r \in Runs : \/ genId'[r] = genId[r]
                             \/ \E w \in Workers : Owning(w) /\ job[w] = r /\ genId'[r] = gen[w]
           /\ \A w \in Workers : Owning(w)' =>
                 /\ job'[w] = job[w]
                 /\ \/ Owning(w) /\ gen'[w] = gen[w]
                    \/ gen'[w] = nextGen
                    \/ genId[job[w]] # 0 /\ gen'[w] = genId[job[w]]
<1>1. \A r \in Runs : \/ genId'[r] = genId[r]
                     \/ \E w \in Workers : Owning(w) /\ job[w] = r /\ genId'[r] = gen[w]
  BY GenerationAssumption
     DEF IInv, TypeOK, Owning, Building, Next, Step, Insert, Publish, Start, InsertPending,
         InsertConflict, ReturnExisting, ReuseExisting, MarkPending, Embed, EmbedFails, Upsert,
         UpsertFails, VerifyManifest, ManifestFails, RecordFailure, SelectPublished, Repoint,
         CreatePointer, CreateConflict, PublishCommit, CommitRow, Crash, LateUpsert, Goto,
         dbVars, vars
<1>2. ASSUME NEW w \in Workers, Owning(w)'
      PROVE  /\ job'[w] = job[w]
             /\ \/ Owning(w) /\ gen'[w] = gen[w]
                \/ gen'[w] = nextGen
                \/ genId[job[w]] # 0 /\ gen'[w] = genId[job[w]]
  BY <1>2, GenerationAssumption
     DEF IInv, TypeOK, IdsAreFresh, Owning, Building, Next, Step, Insert, Publish, Start,
         InsertPending, InsertConflict, ReturnExisting, ReuseExisting, MarkPending, Embed,
         EmbedFails, Upsert, UpsertFails, VerifyManifest, ManifestFails, RecordFailure,
         SelectPublished, Repoint, CreatePointer, CreateConflict, PublishCommit, Crash,
         LateUpsert, Goto, dbVars, vars
<1>3. QED
  BY <1>1, <1>2

\* An id without a row never gets one again.
LEMMA OrphansStay ==
    ASSUME IInv, [Next]_vars, NEW g \in Nat, g < nextGen, Orphan(g)
    PROVE  Orphan(g)'
BY OwnersStep DEF Orphan, IInv, TypeOK

\* Chunks that may carry an id go on to.
LEMMA CarryStays ==
    ASSUME IInv, [Next]_vars, NEW g \in Nat, g < nextGen, NEW H, MayCarry(H, g)
    PROVE  MayCarry(H, g)'
<1>1. ASSUME NEW r \in Runs, genId'[r] # 0, genId'[r] = g
      PROVE  H \subseteq ChunksOf[r]
  BY <1>1, OwnersStep DEF MayCarry
<1>2. ASSUME NEW w \in Workers, Owning(w)', gen'[w] = g
      PROVE  H \subseteq ChunksOf[job'[w]]
  BY <1>2, OwnersStep DEF MayCarry, IInv, TypeOK
<1>3. QED
  BY <1>1, <1>2 DEF MayCarry

\* A builder writes chunks of its own run.
LEMMA OwnCarry ==
    ASSUME IInv, NEW w \in Workers, Owning(w), NEW H \in SUBSET ChunksOf[job[w]]
    PROVE  MayCarry(H, gen[w])
BY DEF MayCarry, IInv, LocalIdsMatch

\* A point never carries, and an upsert never brings, the id of another run.
LEMMA PointsAreOwnStep ==
    ASSUME IInv, [Next]_vars
    PROVE  PointsAreOwn'
<1> USE DEF IInv
<1>1. \A g \in Nat : \A H : g < nextGen /\ MayCarry(H, g) => MayCarry(H, g)'
  BY CarryStays
<1>2. SUFFICES /\ \A h \in Chunks : MayCarry({h}, points'[h]) /\ points'[h] < nextGen
                                    /\ points'[h] \in Nat
               /\ \A m \in inflight' : MayCarry(m.chunks, m.gen) /\ m.gen < nextGen
                                       /\ m.gen \in Nat
  <2>1. ASSUME NEW h \in Chunks, MayCarry({h}, points'[h]), points'[h] < nextGen, points'[h] \in Nat
        PROVE  MayCarry({h}, points[h])'
    <3>1. PICK g \in Nat : g = points'[h]
      BY <2>1
    <3>2. MayCarry({h}, g)'
      BY <1>1, <2>1, <3>1
    <3>3. QED
      BY <3>1, <3>2 DEF MayCarry
  <2>2. ASSUME NEW m \in inflight', MayCarry(m.chunks, m.gen), m.gen < nextGen, m.gen \in Nat
        PROVE  MayCarry(m.chunks, m.gen)'
    BY <1>1, <2>2
  <2>3. QED
    BY <2>1, <2>2 DEF PointsAreOwn
<1>3. CASE UNCHANGED <<points, inflight>>
  BY <1>3 DEF PointsAreOwn, IdsAreFresh, TypeOK
<1>4. ASSUME NEW w \in Workers, NEW H \in SUBSET ChunksOf[job[w]], pc[w] = "upsert",
             points' = Written(H, gen[w]),
             \/ inflight' = inflight
             \/ inflight' = inflight \cup {[chunks |-> ChunksOf[job[w]] \ H, gen |-> gen[w]]}
      PROVE  /\ \A h \in Chunks : MayCarry({h}, points'[h]) /\ points'[h] < nextGen
                                   /\ points'[h] \in Nat
             /\ \A m \in inflight' : MayCarry(m.chunks, m.gen) /\ m.gen < nextGen
                                     /\ m.gen \in Nat
  <2>1. Owning(w) /\ gen[w] \in Nat /\ gen[w] < nextGen
    BY <1>4 DEF Owning, Building, TypeOK, IdsAreFresh
  <2>2. \A K \in SUBSET ChunksOf[job[w]] : MayCarry(K, gen[w])
    BY <2>1, OwnCarry
  <2>3. ASSUME NEW h \in Chunks
        PROVE  MayCarry({h}, points'[h]) /\ points'[h] < nextGen /\ points'[h] \in Nat
    <3>1. CASE h \in H
      <4>1. points'[h] = gen[w] /\ {h} \in SUBSET ChunksOf[job[w]]
        BY <1>4, <3>1 DEF Written
      <4>2. QED
        BY <2>1, <2>2, <4>1
    <3>2. CASE h \notin H
      BY <1>4, <3>2 DEF Written, PointsAreOwn, IdsAreFresh, TypeOK
    <3>3. QED
      BY <3>1, <3>2
  <2>4. ASSUME NEW m \in inflight'
        PROVE  MayCarry(m.chunks, m.gen) /\ m.gen < nextGen /\ m.gen \in Nat
    <3>1. CASE m \in inflight
      BY <3>1 DEF PointsAreOwn, IdsAreFresh, TypeOK
    <3>2. CASE m = [chunks |-> ChunksOf[job[w]] \ H, gen |-> gen[w]]
      <4>1. m.gen = gen[w] /\ m.chunks \in SUBSET ChunksOf[job[w]]
        BY <3>2
      <4>2. QED
        BY <2>1, <2>2, <4>1
    <3>3. QED
      BY <1>4, <2>4, <3>1, <3>2
  <2>5. QED
    BY <2>3, <2>4
<1>5. ASSUME NEW m \in inflight, NEW H \in SUBSET m.chunks,
             points' = Written(H, m.gen), inflight' \subseteq inflight
      PROVE  /\ \A h \in Chunks : MayCarry({h}, points'[h]) /\ points'[h] < nextGen
                                   /\ points'[h] \in Nat
             /\ \A n \in inflight' : MayCarry(n.chunks, n.gen) /\ n.gen < nextGen
                                     /\ n.gen \in Nat
  <2>1. \A n \in inflight : MayCarry(n.chunks, n.gen) /\ n.gen < nextGen /\ n.gen \in Nat
    BY DEF PointsAreOwn, IdsAreFresh, TypeOK
  <2>2. \A h \in H : MayCarry({h}, m.gen)
    BY <2>1 DEF MayCarry
  <2>3. \A h \in Chunks : points'[h] = IF h \in H THEN m.gen ELSE points[h]
    BY <1>5 DEF Written
  <2>4. \A h \in Chunks : MayCarry({h}, points[h]) /\ points[h] < nextGen /\ points[h] \in Nat
    BY DEF PointsAreOwn, IdsAreFresh, TypeOK
  <2>5. QED
    BY <1>5, <2>1, <2>2, <2>3, <2>4
<1>6. QED
  BY <1>3, <1>4, <1>5, Writers

\* A run that is in place under the id of its committed row, or of a builder past the
\* manifest check, stays in place: whoever writes one of its chunks has another run with the
\* same chunk, or works on the same row, or has no row any more.
LEMMA InPlaceStays ==
    ASSUME IInv, [Next]_vars, NEW r \in Runs, NEW g \in Nat, g # 0,
           \/ genId[r] = g
           \/ \E v \in Workers : pc[v] \in {"select", "repoint", "create"} /\ job[v] = r /\ gen[v] = g,
           InPlace(r, g)
    PROVE  InPlace(r, g)'
<1> USE DEF IInv
<1> SUFFICES ASSUME NEW h \in ChunksOf[r], ~Shared(h)
             PROVE  h \in Exposed' \/ points'[h] = g
  BY GenerationAssumption DEF InPlace, Exposed, Shared
<1>1. h \in Chunks /\ points[h] \in Nat /\ points[h] < nextGen
  BY GenerationAssumption DEF TypeOK, IdsAreFresh
<1>2. \A s \in Runs : h \in ChunksOf[s] => s = r
  BY DEF Shared
<1>3. \A w \in Workers : Owning(w) /\ job[w] = r /\ pc[w] # "mark" => gen[w] = g \/ pc[w] # "upsert"
  BY DEF Owning, Building, LocalIdsMatch, RowsAreHeld
<1>4. CASE points'[h] = points[h]
  BY <1>1, <1>4, OrphansStay DEF InPlace, Exposed, Shared
<1>5. ASSUME NEW w \in Workers, NEW H \in SUBSET ChunksOf[job[w]], pc[w] = "upsert",
             points' = Written(H, gen[w]), h \in H
      PROVE  points'[h] = g
  <2>1. job[w] = r /\ Owning(w)
    BY <1>2, <1>5 DEF Owning, Building, TypeOK
  <2>2. QED
    BY <1>1, <1>3, <1>5, <2>1 DEF Written
<1>6. ASSUME NEW m \in inflight, NEW H \in SUBSET m.chunks, points' = Written(H, m.gen), h \in H
      PROVE  h \in Exposed' \/ points'[h] = g
  <2>1. points'[h] = m.gen /\ m.gen \in Nat /\ m.gen # 0 /\ m.gen < nextGen /\ h \in m.chunks
    BY <1>1, <1>6 DEF Written, TypeOK, IdsAreFresh
  <2>2. MayCarry(m.chunks, m.gen)
    BY DEF PointsAreOwn
  <2>3. CASE Orphan(m.gen)
    <3>1. Orphan(m.gen)'
      BY <2>1, <2>3, OrphansStay
    <3>2. Orphan(points[h])'
      BY <2>1, <3>1 DEF Orphan
    <3>3. QED
      BY <1>1, <1>6, <3>2 DEF Exposed
  <2>4. ASSUME NEW s \in Runs, genId[s] = m.gen
        PROVE  m.gen = g
    <3>1. s = r
      BY <1>2, <2>1, <2>2, <2>4 DEF MayCarry
    <3>2. QED
      BY <2>1, <2>4, <3>1 DEF LocalIdsMatch, Owning, Building
  <2>5. ASSUME NEW w \in Workers, Owning(w), gen[w] = m.gen
        PROVE  m.gen = g
    <3>1. job[w] = r
      BY <1>2, <2>1, <2>2, <2>5 DEF MayCarry, TypeOK
    <3>2. CASE genId[r] # 0
      BY <2>5, <3>1, <3>2 DEF LocalIdsMatch, Owning, Building
    <3>3. CASE genId[r] = 0
      <4>1. pc[w] \in Building
        BY <2>5, <3>1, <3>3 DEF LocalIdsMatch, Owning
      <4>2. PICK v \in Workers :
               pc[v] \in {"select", "repoint", "create"} /\ job[v] = r /\ gen[v] = g
        BY <3>3
      <4>3. v = w
        BY <3>1, <4>1, <4>2 DEF RowsAreHeld, Building
      <4>4. QED
        BY <2>5, <4>2, <4>3
    <3>4. QED
      BY <3>2, <3>3
  <2>6. QED
    BY <2>1, <2>3, <2>4, <2>5 DEF Orphan
<1>7. QED
  BY <1>1, <1>4, <1>5, <1>6, Writers DEF Written

\* No step changes the id of a committed row or clears a pointer.
LEMMA IdentityStep ==
    IInv /\ [Next]_vars =>
        /\ \A r \in Runs : genId[r] # 0 => genId'[r] = genId[r]
        /\ \A b \in Bindings : pub[b] # 0 => pub'[b] # 0
BY GenerationAssumption
   DEF IInv, TypeOK, LocalIdsMatch, Owning, Building, Next, Step, Insert, Publish,
       Start, InsertPending, InsertConflict, ReturnExisting, ReuseExisting, MarkPending,
       Embed, EmbedFails, Upsert, UpsertFails, VerifyManifest, ManifestFails,
       RecordFailure, SelectPublished, Repoint, CreatePointer, CreateConflict,
       PublishCommit, CommitRow, Crash, LateUpsert, Goto, dbVars, vars

\* A worker passes the manifest check with its run in place and keeps it there.
LEMMA VerifiedPointsStep ==
    ASSUME IInv, [Next]_vars
    PROVE  VerifiedPoints'
<1> USE DEF IInv
<1> SUFFICES ASSUME NEW w \in Workers, pc'[w] \in {"select", "repoint", "create"}
             PROVE  InPlace(job[w], gen[w])'
  BY DEF VerifiedPoints
<1>1. /\ job'[w] = job[w] /\ gen'[w] = gen[w]
      /\ pc[w] \in {"select", "repoint", "create"} \/ VerifyManifest(w)
  BY GenerationAssumption
     DEF TypeOK, Next, Step, Insert, Publish,
         Start, InsertPending, InsertConflict, ReturnExisting, ReuseExisting, MarkPending,
         Embed, EmbedFails, Upsert, UpsertFails, VerifyManifest, ManifestFails,
         RecordFailure, SelectPublished, Repoint, CreatePointer, CreateConflict,
         PublishCommit, Crash, LateUpsert, Goto, dbVars, vars
<1>2. CASE pc[w] \in {"select", "repoint", "create"}
  <2>1. InPlace(job[w], gen[w]) /\ gen[w] \in Nat /\ gen[w] # 0 /\ job[w] \in Runs
    BY <1>2 DEF VerifiedPoints, TypeOK, LocalIdsMatch, Owning, Building
  <2>2. PICK r \in Runs, g \in Nat : InPlace(r, g) /\ g # 0 /\ job[w] = r /\ gen[w] = g
    BY <2>1
  <2>3. InPlace(r, g)'
    BY <1>2, <2>2, InPlaceStays
  <2>4. QED
    BY <1>1, <2>2, <2>3 DEF InPlace
<1>3. CASE VerifyManifest(w)
  <2>1. \A h \in ChunksOf[job[w]] : points'[h] = gen[w]
    BY <1>3, GenerationAssumption DEF VerifyManifest, ManifestMatches, qdrantVars, TypeOK
  <2>2. QED
    BY <1>1, <2>1 DEF InPlace
<1>4. QED
  BY <1>1, <1>2, <1>3

\* Only the publishing commit moves a pointer, to the id of the worker's run.
LEMMA MovedPointer ==
    ASSUME IInv, [Next]_vars, NEW b \in Bindings, pub'[b] # pub[b]
    PROVE  \E w \in Workers :
              /\ pc[w] \in {"repoint", "create"}
              /\ job[w] \in Completed /\ job[w] \in Runs /\ ChunksOf[job[w]] # {}
              /\ BindingOf[job[w]] = b
              /\ gen[w] # 0 /\ pub' = [pub EXCEPT ![b] = gen[w]]
              /\ genId' = [genId EXCEPT ![job[w]] = gen[w]]
<1>1. PICK w \in Workers : PublishCommit(w) /\ pc[w] \in {"repoint", "create"}
  BY DEF Next, Step, Insert, Publish,
         Start, InsertPending, InsertConflict, ReturnExisting, ReuseExisting, MarkPending,
         Embed, EmbedFails, Upsert, UpsertFails, VerifyManifest, ManifestFails,
         RecordFailure, SelectPublished, Repoint, CreatePointer, CreateConflict,
         Crash, LateUpsert, Goto, dbVars, vars
<1>2. /\ job[w] \in Completed /\ job[w] \in Runs /\ ChunksOf[job[w]] # {} /\ gen[w] # 0
  BY <1>1 DEF IInv, TypeOK, LocalIdsMatch, Owning, Building
<1>3. /\ pub' = [pub EXCEPT ![BindingOf[job[w]]] = gen[w]]
      /\ genId' = [genId EXCEPT ![job[w]] = gen[w]]
  BY <1>1 DEF PublishCommit, CommitRow
<1>4. BindingOf[job[w]] = b
  BY <1>3 DEF IInv, TypeOK
<1>5. QED
  BY <1>1, <1>2, <1>3, <1>4

\* A published pointer keeps its run in place, and a new one starts with it.
LEMMA PublishedPointsStep ==
    ASSUME IInv, [Next]_vars
    PROVE  PublishedPoints'
<1> USE DEF IInv
<1> SUFFICES ASSUME NEW b \in Bindings, pub'[b] # 0
             PROVE  \E r \in Completed :
                        /\ BindingOf[r] = b
                        /\ genId'[r] = pub'[b]
                        /\ ChunksOf[r] # {}
                        /\ InPlace(r, pub[b])'
  BY DEF PublishedPoints, PublishedAt
<1>1. CASE pub'[b] = pub[b]
  <2>1. PICK r \in Completed :
            /\ BindingOf[r] = b /\ genId[r] = pub[b] /\ ChunksOf[r] # {}
            /\ InPlace(r, pub[b])
    BY <1>1 DEF PublishedPoints, PublishedAt
  <2>2. PICK g \in Nat : g # 0 /\ genId[r] = g /\ InPlace(r, g) /\ pub'[b] = g /\ r \in Runs
    BY <1>1, <2>1, GenerationAssumption DEF TypeOK
  <2>3. InPlace(r, g)' /\ genId'[r] = g
    BY <2>2, InPlaceStays, IdentityStep
  <2>4. QED
    BY <2>1, <2>2, <2>3 DEF InPlace
<1>2. CASE pub'[b] # pub[b]
  <2>1. PICK w \in Workers :
            /\ pc[w] \in {"repoint", "create"}
            /\ job[w] \in Completed /\ job[w] \in Runs /\ ChunksOf[job[w]] # {}
            /\ BindingOf[job[w]] = b
            /\ gen[w] # 0 /\ pub' = [pub EXCEPT ![b] = gen[w]]
            /\ genId' = [genId EXCEPT ![job[w]] = gen[w]]
    BY <1>2, MovedPointer
  <2>2. PICK r \in Runs, g \in Nat :
            /\ r \in Completed /\ ChunksOf[r] # {} /\ BindingOf[r] = b
            /\ g # 0 /\ job[w] = r /\ gen[w] = g
            /\ pub'[b] = g /\ genId'[r] = g
    BY <2>1 DEF TypeOK
  <2>3. InPlace(r, g)
    BY <2>1, <2>2 DEF VerifiedPoints
  <2>4. InPlace(r, g)'
    BY <2>1, <2>2, <2>3, InPlaceStays
  <2>5. QED
    BY <2>2, <2>4 DEF InPlace
<1>3. QED
  BY <1>1, <1>2
-----------------------------------------------------------------------------
\* The invariant holds of the empty tables and the empty index.
LEMMA InitIInv == Init => IInv
BY GenerationAssumption
   DEF Init, IInv, TypeOK, Steps, Building, RowStatus, IdsAreFresh, RowsAreHeld,
       LocalIdsMatch, Owning, PointsAreOwn, MayCarry, VerifiedPoints, PublishedPoints, PublishedAt

\* Every step keeps the whole invariant.
LEMMA StepIInv == IInv /\ [Next]_vars => IInv'
<1> SUFFICES ASSUME IInv, [Next]_vars
             PROVE  IInv'
  OBVIOUS
<1>1. TypeOK'
  BY TypeStep DEF IInv
<1>2. IdsAreFresh'
  BY IdsStep DEF IInv
<1>3. RowsAreHeld'
  BY RowsStep DEF IInv
<1>4. LocalIdsMatch'
  BY LocalIdsStep DEF IInv
<1>5. ~LateWrites => inflight' = {}
  BY InflightStep DEF IInv
<1>6. PointsAreOwn' /\ VerifiedPoints' /\ PublishedPoints'
  BY PointsAreOwnStep, VerifiedPointsStep, PublishedPointsStep
<1>7. QED
  BY <1>1, <1>2, <1>3, <1>4, <1>5, <1>6 DEF IInv

\* The invariant holds in every reachable state.
THEOREM Inductive == Spec => []IInv
BY InitIInv, StepIInv, PTL DEF Spec

\* Every variable of generate_index keeps its type.
THEOREM Typing == Spec => []TypeOK
<1>1. IInv => TypeOK
  BY DEF IInv
<1>2. QED
  BY <1>1, Inductive, PTL

\* Two workers never build the same run at once, whatever crashes and retries:
\* PostgreSQL's unique key and row lock are enough.
THEOREM MutualExclusion == Spec => []OneBuilderPerRun
<1>1. IInv => OneBuilderPerRun
  BY DEF IInv, TypeOK, RowsAreHeld, OneBuilderPerRun
<1>2. QED
  BY <1>1, Inductive, PTL

\* What the pointer of a binding names is one run of it, and the points under it are the
\* run's, all of them but for exposed ones.
LEMMA ShownRun ==
    ASSUME IInv, NEW b \in Bindings, pub[b] # 0
    PROVE  \E r \in Completed :
               /\ BindingOf[r] = b
               /\ genId[r] = pub[b]
               /\ ChunksOf[r] # {}
               /\ Shown(b) = {r}
               /\ Readable(b) \subseteq ChunksOf[r]
               /\ ChunksOf[r] \ Exposed \subseteq Readable(b)
<1>1. PICK r \in Completed :
          /\ BindingOf[r] = b /\ genId[r] = pub[b] /\ ChunksOf[r] # {}
          /\ InPlace(r, pub[b])
  BY DEF IInv, PublishedPoints, PublishedAt
<1>2. Shown(b) = {r}
  BY <1>1, GenerationAssumption DEF Shown, IInv, IdsAreFresh
<1>3. \A h \in Chunks : points[h] = pub[b] => h \in ChunksOf[r]
  BY <1>1, GenerationAssumption DEF IInv, PointsAreOwn, MayCarry
<1>4. Readable(b) \subseteq ChunksOf[r]
  BY <1>3 DEF Readable
<1>5. ChunksOf[r] \ Exposed \subseteq Readable(b)
  BY <1>1, GenerationAssumption DEF InPlace, Readable
<1>6. QED
  BY <1>1, <1>2, <1>4, <1>5

\* A published pointer always names a completed run of its binding, under whose id there
\* are points of that run only, and all of them but for exposed ones.
THEOREM PublishedComplete == Spec => []PublishedIndexComplete
<1>1. IInv => PublishedIndexComplete
  BY ShownRun DEF PublishedIndexComplete
<1>2. QED
  BY <1>1, Inductive, PTL

\* A committed generation keeps its id through every retry, and a pointer never
\* goes away.
THEOREM StableIdentity == Spec => IdentityIsStable
<1>1. IInv /\ [Next]_vars =>
        [ /\ \A r \in Runs : genId[r] # 0 => genId'[r] = genId[r]
          /\ \A b \in Bindings : pub[b] # 0 => pub'[b] # 0 ]_vars
  BY IdentityStep
<1>2. QED
  BY <1>1, Inductive, PTL DEF Spec, IdentityIsStable
-----------------------------------------------------------------------------
\* What readers find is, in every state, what is shown up to exposed chunks.
LEMMA FaithfulView == IInv => ReaderView!Faithful
<1> SUFFICES ASSUME IInv, NEW b \in Bindings
             PROVE  /\ Readable(b) \subseteq UNION {ChunksOf[r] : r \in Shown(b)}
                    /\ (UNION {ChunksOf[r] : r \in Shown(b)}) \ Exposed \subseteq Readable(b)
  BY DEF ReaderView!Faithful, ReaderView!Content
<1>1. CASE pub[b] = 0
  BY <1>1 DEF Readable, Shown
<1>2. CASE pub[b] # 0
  <2>1. PICK r \in Completed :
            /\ Shown(b) = {r}
            /\ Readable(b) \subseteq ChunksOf[r]
            /\ ChunksOf[r] \ Exposed \subseteq Readable(b)
    BY <1>2, ShownRun
  <2>2. UNION {ChunksOf[x] : x \in Shown(b)} = ChunksOf[r]
    BY <2>1
  <2>3. QED
    BY <2>1, <2>2
<1>3. QED
  BY <1>1, <1>2

\* A pointer that stays shows the run it showed.
LEMMA UnmovedPointer ==
    ASSUME IInv, IInv', [Next]_vars, NEW b \in Bindings, pub'[b] = pub[b]
    PROVE  Shown(b)' = Shown(b)
<1>1. CASE pub[b] = 0
  BY <1>1 DEF Shown
<1>2. CASE pub[b] # 0
  <2>1. PICK r \in Completed : genId[r] = pub[b] /\ Shown(b) = {r}
    BY <1>2, ShownRun
  <2>2. genId'[r] = pub'[b] /\ r \in Runs
    BY <1>2, <2>1, IdentityStep, GenerationAssumption
  <2>3. Shown(b)' = {r}
    BY <1>2, <2>2 DEF Shown, IInv, IdsAreFresh
  <2>4. QED
    BY <2>1, <2>3
<1>3. QED
  BY <1>1, <1>2

\* index generation implements ReaderAtomicIndex: seen through the published
\* pointers, every step replaces a whole run or changes nothing that is not exposed.
THEOREM Refinement == Spec => ReadersSeeWholeReplacements
<1> DEFINE view == [b \in Bindings |-> Shown(b)]
<1>1. Init /\ IInv => ReaderView!Init
  <2> SUFFICES ASSUME Init, IInv PROVE ReaderView!Init
    OBVIOUS
  <2>1. view = [b \in Bindings |-> {}]
    BY DEF Init, Shown
  <2>2. QED
    BY <2>1, FaithfulView DEF ReaderView!Init
<1>2. ASSUME IInv, IInv', [Next]_vars
      PROVE  ReaderView!Next
  <2>1. ReaderView!Faithful'
    BY <1>2, FaithfulView, PTL
  <2>2. CASE \A b \in Bindings : pub'[b] = pub[b]
    <3>1. view' = view
      BY <1>2, <2>2, UnmovedPointer
    <3>2. QED
      BY <2>1, <3>1 DEF ReaderView!Next, ReaderView!Disturb
  <2>3. CASE \E b \in Bindings : pub'[b] # pub[b]
    <3>1. PICK b \in Bindings : pub'[b] # pub[b]
      BY <2>3
    <3>2. PICK w \in Workers :
              /\ job[w] \in Completed /\ job[w] \in Runs /\ ChunksOf[job[w]] # {}
              /\ BindingOf[job[w]] = b
              /\ gen[w] # 0 /\ pub' = [pub EXCEPT ![b] = gen[w]]
              /\ genId' = [genId EXCEPT ![job[w]] = gen[w]]
      BY <1>2, <3>1, MovedPointer
    <3>3. Shown(b)' = {job[w]}
      BY <1>2, <3>2 DEF Shown, IInv, TypeOK, IdsAreFresh
    <3>4. \A c \in Bindings : c # b => Shown(c)' = Shown(c)
      <4>1. \A c \in Bindings : c # b => pub'[c] = pub[c]
        BY <1>2, <3>2 DEF IInv, TypeOK
      <4>2. QED
        BY <1>2, <4>1, UnmovedPointer
    <3>5. view' = [view EXCEPT ![BindingOf[job[w]]] = {job[w]}]
      BY <3>2, <3>3, <3>4
    <3>6. ReaderView!Replace(job[w])
      BY <2>1, <3>2, <3>5 DEF ReaderView!Replace
    <3>7. QED
      BY <3>2, <3>6 DEF ReaderView!Next
  <2>4. QED
    BY <2>2, <2>3
<1>3. QED
  BY <1>1, <1>2, Inductive, PTL
     DEF Spec, ReadersSeeWholeReplacements, ReaderView!Spec
-----------------------------------------------------------------------------
\* The generation that a publishing commit names is that of its run.
LEMMA PointersStep ==
    ASSUME IInv, PointersNameRuns, [Next]_vars
    PROVE  PointersNameRuns'
<1> SUFFICES ASSUME NEW b \in Bindings, pub'[b] # 0
             PROVE  \E r \in Completed : BindingOf[r] = b /\ genId'[r] = pub'[b]
  BY DEF PointersNameRuns
<1>1. CASE pub'[b] = pub[b]
  <2>1. PICK r \in Completed : BindingOf[r] = b /\ genId[r] = pub[b]
    BY <1>1 DEF PointersNameRuns
  <2>2. genId'[r] = genId[r]
    BY <1>1, <2>1, IdentityStep, GenerationAssumption
  <2>3. QED
    BY <1>1, <2>1, <2>2
<1>2. CASE pub'[b] # pub[b]
  <2>1. PICK w \in Workers : PublishCommit(w) /\ pc[w] # "idle"
    BY <1>2 DEF Next, Step, Insert, Publish,
         Start, InsertPending, InsertConflict, ReturnExisting, ReuseExisting, MarkPending,
         Embed, EmbedFails, Upsert, UpsertFails, VerifyManifest, ManifestFails,
         RecordFailure, SelectPublished, Repoint, CreatePointer, CreateConflict,
         Crash, LateUpsert, Goto, dbVars, vars
  <2>2. /\ job[w] \in Completed /\ job[w] \in Runs
        /\ pub' = [pub EXCEPT ![BindingOf[job[w]]] = gen[w]]
        /\ genId' = [genId EXCEPT ![job[w]] = gen[w]]
    BY <2>1 DEF PublishCommit, CommitRow, IInv, TypeOK, LocalIdsMatch
  <2>3. b = BindingOf[job[w]] /\ pub'[b] = gen[w] /\ genId'[job[w]] = gen[w]
    BY <1>2, <2>2 DEF IInv, TypeOK
  <2>4. QED
    BY <2>2, <2>3
<1>3. QED
  BY <1>1, <1>2

\* Runs are known by the ids of their generations.
LEMMA OneRunPerId ==
    ASSUME IInv, NEW r \in Runs, NEW s \in Runs, genId[r] = genId[s], genId[r] # 0
    PROVE  r = s
BY DEF IInv, IdsAreFresh

\* A step of index generation, or none, under a reader that stands still.
LEMMA GenerationStep ==
    ASSUME RetrievalIInv, [Next]_vars, UNCHANGED readerVars,
           bindState' \in [Bindings -> {"PROPOSED", "APPROVED", "REVOKED"}]
    PROVE  RetrievalIInv'
<1> USE DEF RetrievalIInv, readerVars
<1>1. IInv'
  BY StepIInv
<1>2. PointersNameRuns'
  BY PointersStep
<1>3. RetrievalTypeOK'
  BY <1>1 DEF RetrievalTypeOK, IInv
<1>4. \A r \in Completed : genId[r] # 0 => genId'[r] = genId[r] /\ r \in Runs
  BY IdentityStep, GenerationAssumption
<1>5. PinsNameRuns'
  BY <1>4 DEF PinsNameRuns
<1>6. EvidenceIsPinned'
  <2> SUFFICES ASSUME NEW q \in Readers, evidence[q] # {}, NEW x \in evidence[q]
               PROVE  rpc[q] = "answered" /\ genId'[x[1]] = pinned[q]
    BY DEF EvidenceIsPinned
  <2>1. rpc[q] = "answered" /\ genId[x[1]] = pinned[q]
    BY DEF EvidenceIsPinned
  <2>2. PICK r \in Completed : genId[r] # 0 /\ genId[r] = pinned[q]
    BY <2>1 DEF PinsNameRuns
  <2>3. x \in ChunkRows /\ x[1] \in Runs
    BY DEF RetrievalTypeOK, ChunkRows
  <2>4. x[1] = r
    BY <2>1, <2>2, <2>3, OneRunPerId, GenerationAssumption
  <2>5. QED
    BY <1>4, <2>1, <2>2, <2>4
<1>7. PinnedPoints'
  <2> SUFFICES ASSUME NEW q \in Readers, rpc[q] # "idle",
                      NEW r \in Completed, genId'[r] = pinned[q]
               PROVE  InPlace(r, pinned[q])'
    BY DEF PinnedPoints
  <2>1. PICK s \in Completed : genId[s] # 0 /\ genId[s] = pinned[q] /\ genId'[s] = genId[s]
    BY <1>4 DEF PinsNameRuns
  <2>2. r = s
    <3>1. \A a, b \in Runs : genId'[a] = genId'[b] /\ genId'[a] # 0 => a = b
      BY <1>1 DEF IInv, IdsAreFresh
    <3>2. QED
      BY <2>1, <3>1, GenerationAssumption
  <2>3. PICK g \in Nat : InPlace(r, g) /\ g # 0 /\ genId[r] = g /\ r \in Runs /\ pinned'[q] = g
    BY <2>1, <2>2, GenerationAssumption DEF PinnedPoints, RetrievalTypeOK
  <2>4. InPlace(r, g)'
    BY <2>3, InPlaceStays
  <2>5. QED
    BY <2>3, <2>4 DEF InPlace
<1>8. QED
  BY <1>1, <1>2, <1>3, <1>5, <1>6, <1>7

\* A reader goes on: it has pinned what the pointer named, and answers with rows of it.
LEMMA ReaderStepIInv ==
    ASSUME RetrievalIInv, NEW q \in Readers, ReaderStep(q)
    PROVE  RetrievalIInv'
<1> USE DEF RetrievalIInv
<1>1. UNCHANGED generationVars /\ UNCHANGED bindState
  BY DEF ReaderStep, Ask, EmbedQuery, Search, SearchEmpty, RetrievalFails, Revalidate, Done, EndCall
<1>2. UNCHANGED vars
  BY <1>1 DEF generationVars
<1>3. IInv' /\ PointersNameRuns'
  BY <1>2, StepIInv, PointersStep
<1>4. UNCHANGED <<genId, points, pub>>
  BY <1>2 DEF vars
<1>5. Exposed' = Exposed
  BY <1>2 DEF vars, Exposed, Orphan, Owning
<1>6. ASSUME NEW p \in Policies, Ask(q, p)
      PROVE  RetrievalIInv'
  <2>1. PICK b \in Bindings :
           PolicyOf[b] = p /\ pub[b] # 0 /\ pinned' = [pinned EXCEPT ![q] = pub[b]]
    BY <1>6 DEF Ask
  <2>2. /\ rpc'[q] = "embed" /\ asked'[q] = p /\ pinned'[q] = pub[b] /\ rpc[q] = "idle"
        /\ \A x \in Readers \ {q} : rpc'[x] = rpc[x] /\ asked'[x] = asked[x] /\ pinned'[x] = pinned[x]
        /\ UNCHANGED <<found, evidence>>
    BY <1>6, <2>1 DEF Ask, ReaderGoto, RetrievalTypeOK
  <2>3. RetrievalTypeOK'
    BY <1>1, <1>3, <1>6, <2>1 DEF RetrievalTypeOK, IInv, TypeOK, Ask, ReaderGoto
  <2>4. PinsNameRuns'
    BY <1>4, <2>1, <2>2 DEF PinsNameRuns, PointersNameRuns
  <2>5. EvidenceIsPinned'
    BY <1>4, <2>2 DEF EvidenceIsPinned
  <2>6. PinnedPoints'
    <3>1. PICK r \in Completed : genId[r] = pub[b] /\ InPlace(r, pub[b])
      BY <2>1 DEF IInv, PublishedPoints, PublishedAt
    <3>2. \A s \in Completed : genId[s] = pub[b] => s = r
      BY <2>1, <3>1, OneRunPerId, GenerationAssumption
    <3>3. QED
      BY <1>4, <1>5, <2>2, <3>1, <3>2 DEF PinnedPoints, InPlace
  <2>7. QED
    BY <1>3, <2>3, <2>4, <2>5, <2>6
<1>7. ASSUME NEW to \in {"search", "revalidate", "answered"}, rpc[q] # "idle",
             rpc' = [rpc EXCEPT ![q] = to], UNCHANGED <<asked, pinned>>,
             found' \in [Readers -> SUBSET AllIds], evidence' \in [Readers -> SUBSET ChunkRows],
             \A x \in Readers \ {q} : evidence'[x] = evidence[x],
             evidence'[q] # {} => to = "answered" /\ \A x \in evidence'[q] : genId[x[1]] = pinned[q]
      PROVE  RetrievalIInv'
  <2>1. rpc'[q] = to /\ \A x \in Readers \ {q} : rpc'[x] = rpc[x]
    BY <1>7 DEF RetrievalTypeOK
  <2>2. RetrievalTypeOK'
    BY <1>1, <1>3, <1>7 DEF RetrievalTypeOK, IInv
  <2>3. PinsNameRuns' /\ EvidenceIsPinned'
    BY <1>4, <1>7, <2>1 DEF PinsNameRuns, EvidenceIsPinned
  <2>4. PinnedPoints'
    BY <1>4, <1>5, <1>7, <2>1 DEF PinnedPoints, InPlace
  <2>5. QED
    BY <1>3, <2>2, <2>3, <2>4
<1>8. rpc[q] \in {"embed", "search", "revalidate"} => evidence[q] = {}
  BY DEF EvidenceIsPinned
<1>9. CASE EmbedQuery(q) \/ Search(q) \/ SearchEmpty(q)
  BY <1>7, <1>8, <1>9 DEF EmbedQuery, Search, SearchEmpty, ReaderGoto, RetrievalTypeOK
<1>10. CASE Revalidate(q)
  <2>1. ValidRows(q) \subseteq ChunkRows /\ \A x \in ValidRows(q) : genId[x[1]] = pinned[q]
    BY DEF ValidRows
  <2>2. QED
    BY <1>7, <1>10, <2>1 DEF Revalidate, ReaderGoto, RetrievalTypeOK
<1>11. CASE EndCall(q)
  <2>1. /\ rpc'[q] = "idle" /\ evidence'[q] = {}
        /\ \A x \in Readers \ {q} :
              rpc'[x] = rpc[x] /\ asked'[x] = asked[x] /\ pinned'[x] = pinned[x] /\ evidence'[x] = evidence[x]
    BY <1>11 DEF EndCall, RetrievalTypeOK
  <2>2. RetrievalTypeOK'
    BY <1>1, <1>3, <1>11 DEF RetrievalTypeOK, EndCall, IInv
  <2>3. PinsNameRuns' /\ EvidenceIsPinned' /\ PinnedPoints'
    BY <1>4, <1>5, <2>1 DEF PinsNameRuns, EvidenceIsPinned, PinnedPoints, InPlace
  <2>4. QED
    BY <1>3, <2>2, <2>3
<1>12. QED
  BY <1>6, <1>9, <1>10, <1>11 DEF ReaderStep, RetrievalFails, Done

\* Steps of writers, of readers and of the review keep the invariant.
LEMMA RetrievalStepIInv == RetrievalIInv /\ [RetrievalNext]_allVars => RetrievalIInv'
<1> SUFFICES ASSUME RetrievalIInv, [RetrievalNext]_allVars PROVE RetrievalIInv'
  OBVIOUS
<1>1. bindState \in [Bindings -> {"PROPOSED", "APPROVED", "REVOKED"}]
  BY DEF RetrievalIInv, RetrievalTypeOK
<1>2. CASE Next /\ UNCHANGED <<bindState, readerVars>>
  BY <1>1, <1>2, GenerationStep
<1>3. ASSUME NEW b \in Bindings, Approve(b) \/ Revoke(b) PROVE RetrievalIInv'
  BY <1>1, <1>3, GenerationStep DEF Approve, Revoke, generationVars
<1>4. CASE UNCHANGED allVars
  BY <1>1, <1>4, GenerationStep DEF allVars, generationVars
<1>5. QED
  BY <1>2, <1>3, <1>4, ReaderStepIInv DEF RetrievalNext

\* The invariant holds before anything is published or asked.
LEMMA RetrievalInitIInv == RetrievalInit => RetrievalIInv
<1> SUFFICES ASSUME RetrievalInit PROVE RetrievalIInv
  OBVIOUS
<1>1. IInv
  BY InitIInv DEF RetrievalInit
<1>2. RetrievalTypeOK
  BY <1>1 DEF RetrievalInit, RetrievalTypeOK, IInv
<1>3. PointersNameRuns
  BY DEF RetrievalInit, Init, PointersNameRuns
<1>4. PinsNameRuns /\ EvidenceIsPinned /\ PinnedPoints
  BY DEF RetrievalInit, PinsNameRuns, EvidenceIsPinned, PinnedPoints
<1>5. QED
  BY <1>1, <1>2, <1>3, <1>4 DEF RetrievalIInv

\* The invariant behind the two theorems below.
THEOREM RetrievalInductive == RetrievalSpec => []RetrievalIInv
BY RetrievalInitIInv, RetrievalStepIInv, PTL DEF RetrievalSpec

\* Whatever Qdrant answers and however the pointer moves between the three reads, the
\* evidence of an answer is of one completed run of the asked policy version.
THEOREM EvidenceOfOneRun == RetrievalSpec => []RetrievalInv
<1>1. RetrievalIInv => RetrievalInv
  <2> SUFFICES ASSUME RetrievalIInv, NEW q \in Readers, evidence[q] # {}
               PROVE  \E r \in Completed :
                         /\ genId[r] = pinned[q]
                         /\ PolicyOf[BindingOf[r]] = asked[q]
                         /\ \A x \in evidence[q] : x[1] = r
    BY DEF RetrievalIInv, RetrievalInv, EvidenceFromPinnedRun
  <2>1. rpc[q] = "answered" /\ \A x \in evidence[q] : genId[x[1]] = pinned[q]
    BY DEF RetrievalIInv, EvidenceIsPinned
  <2>2. PICK r \in Completed :
           genId[r] # 0 /\ genId[r] = pinned[q] /\ PolicyOf[BindingOf[r]] = asked[q]
    BY <2>1 DEF RetrievalIInv, PinsNameRuns
  <2>3. \A x \in evidence[q] : x[1] \in Runs
    BY DEF RetrievalIInv, RetrievalTypeOK, ChunkRows
  <2>4. \A x \in evidence[q] : x[1] = r
    BY <2>1, <2>2, <2>3, OneRunPerId, GenerationAssumption DEF RetrievalIInv
  <2>5. QED
    BY <2>2, <2>4
<1>2. QED
  BY RetrievalInductive, <1>1, PTL

\* Under a pinned id there are points of one run of the asked policy only, and all of
\* them but for exposed ones, while other generations are built and published.
THEOREM PinnedComplete == RetrievalSpec => []PinnedGenerationStaysComplete
<1>1. RetrievalIInv => PinnedGenerationStaysComplete
  <2> SUFFICES ASSUME RetrievalIInv, NEW q \in Readers, rpc[q] \in {"embed", "search"}
               PROVE  \E r \in Completed :
                         /\ genId[r] = pinned[q]
                         /\ PolicyOf[BindingOf[r]] = asked[q]
                         /\ Matching(q) \subseteq ChunksOf[r]
                         /\ ChunksOf[r] \ Exposed \subseteq Matching(q)
    BY DEF PinnedGenerationStaysComplete
  <2>1. PICK r \in Completed :
           genId[r] # 0 /\ genId[r] = pinned[q] /\ PolicyOf[BindingOf[r]] = asked[q]
    BY DEF RetrievalIInv, PinsNameRuns
  <2>2. ChunksOf[r] \ Exposed \subseteq Matching(q)
    BY <2>1, GenerationAssumption DEF RetrievalIInv, PinnedPoints, InPlace, Matching
  <2>3. Matching(q) \subseteq ChunksOf[r]
    BY <2>1, GenerationAssumption DEF RetrievalIInv, IInv, PointsAreOwn, MayCarry, Matching
  <2>4. QED
    BY <2>1, <2>2, <2>3
<1>2. QED
  BY RetrievalInductive, <1>1, PTL
=============================================================================
