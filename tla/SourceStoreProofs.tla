-------------------------- MODULE SourceStoreProofs --------------------------
(***************************************************************************)
(* Proofs about SourceStore, for any number of clients, documents and      *)
(* contents: rows never lack their durable object, answers are originals,  *)
(* and named objects are complete.                                         *)
(***************************************************************************)
EXTENDS SourceStore, TLAPS

\* A client at work has an identity.
LEMMA AtWork ==
    ASSUME TypeOK, NEW c \in Clients, pc[c] # "idle"
    PROVE  /\ cmd[c] \in Identity
           /\ cmd[c].document \in Documents
           /\ cmd[c].hash \in Hashes
           /\ cmd[c] = [document |-> cmd[c].document, hash |-> cmd[c].hash]
BY DEF TypeOK, Identity

\* Beginning a transaction reads an identity and touches nothing else.
LEMMA IdentifyStep ==
    ASSUME IInv, NEW c \in Clients, NEW d \in Documents,
           NEW step \in {"staging", "get"}, Identify(c, step, d)
    PROVE  IInv'
<1> USE SourceAssumption DEF IInv, StoreInv, Identify, tables, files, objects
<1>1. cmd'[c] \in Identity /\ cmd'[c] # NoHash
  BY DEF TypeOK, Identity
<1>2. \A b \in Clients : b # c => pc'[b] = pc[b] /\ cmd'[b] = cmd[b]
  BY DEF TypeOK
<1>3. pc'[c] = step /\ cmd'[c] = [document |-> d, hash |-> hash[d]]
  BY DEF TypeOK
<1>4. TypeOK'
  BY <1>1 DEF TypeOK, ImportSteps, ReadSteps
<1>5. QED
  BY <1>2, <1>3, <1>4 DEF RowHasDurableObject, IdentityIsPinned, ImportIsDone, RowIsRead,
     ObjectsAreSynced, AnswersAreOriginals, Verified

\* So does ending it.
LEMMA RefuseStep ==
    ASSUME IInv, NEW c \in Clients, Refuse(c)
    PROVE  IInv'
<1> USE DEF IInv, StoreInv, Refuse, End, tables, files, objects
<1>1. \A b \in Clients : b # c => pc'[b] = pc[b] /\ cmd'[b] = cmd[b] /\ staged'[b] = staged[b]
  BY DEF TypeOK
<1>2. pc'[c] = "idle" /\ cmd'[c] = NoHash
  BY DEF TypeOK
<1>3. TypeOK'
  BY DEF TypeOK, Staged
<1>4. QED
  BY <1>1, <1>2, <1>3 DEF RowHasDurableObject, IdentityIsPinned, ImportIsDone, RowIsRead,
     ObjectsAreSynced, AnswersAreOriginals, Verified

\* An import goes on: staging, an object that is there already, and the insert of the row.
LEMMA ImportStep ==
    ASSUME IInv, NEW c \in Clients,
           \/ Write(c) \/ Flush(c) \/ Sync(c)
           \/ Stage(c, "staged", "linked", "none") /\ link[cmd[c]] # "none"
           \/ Pass(c, "insert", "inserted") /\ UNCHANGED files
    PROVE  IInv'
<1> USE DEF IInv, StoreInv, Write, Flush, Sync, Stage, Pass, tables, files, objects
<1>1. \A b \in Clients : b # c => pc'[b] = pc[b] /\ staged'[b] = staged[b]
  BY DEF TypeOK
<1>2. TypeOK'
  BY DEF TypeOK, ImportSteps, Staged
<1>3. ImportIsDone'
  BY <1>1 DEF TypeOK, ImportIsDone
<1>4. QED
  BY <1>1, <1>2, <1>3 DEF TypeOK, RowHasDurableObject, IdentityIsPinned, RowIsRead,
     ObjectsAreSynced, AnswersAreOriginals, Verified

\* A new object is there with all its bytes.
LEMMA LinkStep ==
    ASSUME IInv, NEW c \in Clients, Link(c)
    PROVE  IInv'
<1> USE DEF IInv, StoreInv
<1> DEFINE i == cmd[c]
<1>1. CASE link[i] = "none"
  <2>1. /\ Pass(c, "staged", "linked")
        /\ link' = [link EXCEPT ![i] = "volatile"]
        /\ data' = [data EXCEPT ![i] = staged[c]]
        /\ staged' = [staged EXCEPT ![c] = "none"]
        /\ staged[c] = "synced"
    BY <1>1 DEF Link, ImportIsDone
  <2>2. pc[c] = "staged" /\ pc'[c] = "linked" /\ cmd' = cmd /\ hash' = hash /\ rows' = rows
    BY <2>1 DEF Pass, tables, TypeOK
  <2>3. i \in Identity
    BY <2>2, AtWork
  <2>4. \A b \in Clients : b # c => pc'[b] = pc[b] /\ staged'[b] = staged[b]
    BY <2>1 DEF Pass, TypeOK
  <2>5. \A j \in Identity : j # i => link'[j] = link[j] /\ data'[j] = data[j]
    BY <2>1 DEF TypeOK
  <2>6. link'[i] = "volatile" /\ data'[i] = "synced" /\ data[i] = "none"
    BY <1>1, <2>1, <2>3 DEF TypeOK
  <2>7. TypeOK'
    BY <2>1, <2>2, <2>3, <2>5, <2>6 DEF TypeOK, Pass, tables, ImportSteps, Data, Staged
  <2>8. RowHasDurableObject'
    BY <1>1, <2>2, <2>5 DEF RowHasDurableObject, TypeOK, Identity
  <2>9. ImportIsDone' /\ RowIsRead' /\ IdentityIsPinned' /\ ObjectsAreSynced'
    <3>1. ImportIsDone'
      <4> SUFFICES ASSUME NEW b \in Clients
                   PROVE  /\ pc'[b] = "staged" => staged'[b] = "synced"
                          /\ pc'[b] = "linked" => link'[cmd[b]] # "none"
                          /\ pc'[b] \in {"insert", "inserted"} => link'[cmd[b]] = "durable"
        BY <2>2 DEF ImportIsDone
      <4>1. CASE b = c
        BY <2>2, <2>6, <4>1
      <4>2. CASE b # c
        <5>1. pc[b] # "idle" => link'[cmd[b]] = link[cmd[b]] \/ cmd[b] = i
          BY <2>5, AtWork
        <5>2. QED
          BY <1>1, <2>4, <2>6, <4>2, <5>1 DEF ImportIsDone
      <4>3. QED
        BY <4>1, <4>2
    <3>2. QED
      BY <2>2, <2>4, <2>5, <2>6, <3>1 DEF RowIsRead, IdentityIsPinned, ObjectsAreSynced
  <2>10. AnswersAreOriginals'
    BY <2>2, <2>4, <2>5, <2>6, AtWork DEF AnswersAreOriginals, Verified
  <2>11. QED
    BY <2>7, <2>8, <2>9, <2>10
<1>2. CASE link[i] # "none"
  <2>1. \/ Stage(c, "staged", "linked", "none")
        \/ Refuse(c)
    BY <1>2 DEF Link
  <2>2. QED
    BY <1>2, <2>1, ImportStep, RefuseStep
<1>3. QED
  BY <1>1, <1>2

\* The directory is synced as a whole.
LEMMA SyncStep ==
    ASSUME IInv, NEW c \in Clients, SyncDirectory(c)
    PROVE  IInv'
<1> USE DEF IInv, StoreInv, SyncDirectory, Pass, tables, files, objects
<1>1. \A b \in Clients : b # c => pc'[b] = pc[b]
  BY DEF TypeOK
<1>2. pc[c] = "linked" /\ pc'[c] = "insert"
  BY DEF TypeOK
<1>3. \A j \in Identity : link'[j] = IF link[j] = "none" THEN "none" ELSE "durable"
  OBVIOUS
<1>4. TypeOK'
  BY <1>3 DEF TypeOK, ImportSteps
<1>5. RowHasDurableObject'
  BY <1>3 DEF RowHasDurableObject, TypeOK, Identity
<1>6. ImportIsDone'
  BY <1>1, <1>2, <1>3, AtWork DEF ImportIsDone, TypeOK
<1>7. QED
  BY <1>1, <1>2, <1>4, <1>5, <1>6 DEF IdentityIsPinned, RowIsRead, ObjectsAreSynced, AnswersAreOriginals, Verified

\* The row is committed last, when its object is durable.
LEMMA CommitStep ==
    ASSUME IInv, NEW c \in Clients, CommitRow(c)
    PROVE  IInv'
<1> USE DEF IInv, StoreInv, CommitRow, End, files, objects
<1>1. \A b \in Clients : b # c => pc'[b] = pc[b] /\ cmd'[b] = cmd[b] /\ staged'[b] = staged[b]
  BY DEF TypeOK
<1>2. pc'[c] = "idle" /\ cmd'[c] = NoHash /\ pc[c] = "inserted"
  BY DEF TypeOK
<1>3. /\ cmd[c] = [document |-> cmd[c].document, hash |-> cmd[c].hash]
      /\ cmd[c].document \in Documents /\ cmd[c].hash \in Hashes
      /\ cmd[c].hash = hash[cmd[c].document]
      /\ link[cmd[c]] = "durable"
  BY <1>2, AtWork DEF IdentityIsPinned, ImportIsDone
<1>4. \A d \in Documents : rows'[d] = IF d = cmd[c].document THEN cmd[c].hash ELSE rows[d]
  BY DEF TypeOK
<1>5. TypeOK'
  BY <1>3 DEF TypeOK, Staged
<1>6. RowHasDurableObject'
  BY <1>3, <1>4 DEF RowHasDurableObject
<1>7. RowIsRead' /\ IdentityIsPinned'
  BY <1>1, <1>2, <1>3, <1>4, AtWork DEF RowIsRead, IdentityIsPinned
<1>8. AnswersAreOriginals'
  BY <1>1, <1>2, <1>3, <1>4, AtWork DEF AnswersAreOriginals, Verified
<1>9. QED
  BY <1>1, <1>2, <1>5, <1>6, <1>7, <1>8 DEF ImportIsDone, ObjectsAreSynced

\* A reader goes on only with a row that matches and with bytes that do.
LEMMA ReadStep ==
    ASSUME IInv, NEW c \in Clients, GetRow(c) \/ ReadObject(c)
    PROVE  IInv'
<1>1. CASE Refuse(c)
  BY <1>1, RefuseStep
<1>2. CASE ~Refuse(c)
  <2> USE DEF IInv, StoreInv
  <2>1. /\ \/ Pass(c, "get", "read") /\ rows[cmd[c].document] = cmd[c].hash
           \/ Pass(c, "read", "answered") /\ Verified(cmd[c])
        /\ UNCHANGED files
    BY <1>2 DEF GetRow, ReadObject
  <2>2. \A b \in Clients : b # c => pc'[b] = pc[b]
    BY <2>1 DEF TypeOK, Pass
  <2>3. UNCHANGED <<hash, rows, link, data, staged, cmd>> /\ pc[c] \in {"get", "read"} /\ pc'[c] \in {"read", "answered"}
    BY <2>1 DEF Pass, tables, files, objects, TypeOK
  <2>4. TypeOK'
    BY <2>1, <2>3 DEF TypeOK, Pass, ReadSteps
  <2>5. RowIsRead'
    BY <2>1, <2>2, <2>3 DEF RowIsRead, Pass
  <2>6. AnswersAreOriginals'
    <3>1. pc'[c] = "answered" => Verified(cmd[c]) /\ cmd[c].hash = hash[cmd[c].document]
      BY <2>1, <2>3 DEF TypeOK, Pass, IdentityIsPinned
    <3>2. QED
      BY <2>2, <2>3, <2>5, <3>1 DEF AnswersAreOriginals, Verified, RowIsRead
  <2>7. QED
    BY <2>2, <2>3, <2>4, <2>5, <2>6 DEF RowHasDurableObject, IdentityIsPinned, ImportIsDone, ObjectsAreSynced
<1>3. QED
  BY <1>1, <1>2

\* What is durable survives a power failure, and nobody is at work after it.
LEMMA PowerStep ==
    ASSUME IInv, PowerLoss
    PROVE  IInv'
<1> USE DEF IInv, StoreInv, PowerLoss, tables, Staged
<1>1. \A i \in Identity : link[i] = "durable" => link'[i] = "durable"
  OBVIOUS
<1>2. TypeOK'
  BY DEF TypeOK, Data
<1>3. RowHasDurableObject'
  BY <1>1 DEF RowHasDurableObject, TypeOK, Identity
<1>4. ObjectsAreSynced'
  BY DEF ObjectsAreSynced
<1>5. QED
  BY <1>2, <1>3, <1>4 DEF IdentityIsPinned, ImportIsDone, RowIsRead, AnswersAreOriginals

\* Damage leaves the entry in the directory, and happens to nobody's answer.
LEMMA DamageStep ==
    ASSUME IInv, NEW i \in Identity, Damage(i)
    PROVE  IInv'
<1> USE DEF IInv, StoreInv, Damage
<1>1. TypeOK'
  BY DEF TypeOK, Data
<1>2. ObjectsAreSynced'
  BY DEF ObjectsAreSynced, TypeOK
<1>3. QED
  BY <1>1, <1>2 DEF RowHasDurableObject, IdentityIsPinned, ImportIsDone, RowIsRead, AnswersAreOriginals

\* A hash changes only while nobody has read it.
LEMMA RehashStep ==
    ASSUME IInv, NEW d \in Documents, NEW h \in Hashes, Rehash(d, h)
    PROVE  IInv'
<1> USE DEF IInv, StoreInv, Rehash, files
<1>1. \A e \in Documents : e # d => hash'[e] = hash[e]
  BY DEF TypeOK
<1>2. \A c \in Clients : pc[c] # "idle" => cmd[c].document # d
  BY DEF Shared
<1>3. TypeOK'
  BY DEF TypeOK
<1>4. IdentityIsPinned' /\ AnswersAreOriginals'
  BY <1>1, <1>2, AtWork DEF IdentityIsPinned, AnswersAreOriginals, Verified
<1>5. QED
  BY <1>3, <1>4 DEF RowHasDurableObject, ImportIsDone, RowIsRead, ObjectsAreSynced
-----------------------------------------------------------------------------
\* The invariant holds of the empty tables.
LEMMA InitIInv == Init => IInv
BY SourceAssumption DEF Init, IInv, StoreInv, TypeOK, Data, Staged, RowHasDurableObject, IdentityIsPinned, ImportIsDone,
   RowIsRead, ObjectsAreSynced, AnswersAreOriginals

\* Every step keeps the invariant.
LEMMA StepIInv == IInv /\ [Next]_vars => IInv'
<1> SUFFICES ASSUME IInv, [Next]_vars PROVE IInv'
  OBVIOUS
<1>1. ASSUME NEW c \in Clients, NEW d \in Documents, Import(c, d) \/ Review(c, d)
      PROVE  IInv'
  BY <1>1, IdentifyStep DEF Import, Review
<1>2. ASSUME NEW c \in Clients, Write(c) \/ Flush(c) \/ Sync(c)
      PROVE  IInv'
  BY <1>2, ImportStep
<1>3. ASSUME NEW c \in Clients, InsertRow(c)
      PROVE  IInv'
  BY <1>3, ImportStep, RefuseStep DEF InsertRow
<1>4. ASSUME NEW c \in Clients, Stop(c)
      PROVE  IInv'
  BY <1>4, RefuseStep DEF Stop
<1>5. CASE UNCHANGED vars
  BY <1>5 DEF vars, IInv, StoreInv, TypeOK, RowHasDurableObject, IdentityIsPinned, ImportIsDone, RowIsRead,
     ObjectsAreSynced, AnswersAreOriginals, Verified
<1>6. QED
  BY <1>1, <1>2, <1>3, <1>4, <1>5, LinkStep, SyncStep, CommitStep, ReadStep, PowerStep,
     DamageStep, RehashStep DEF Next

\* The invariant behind the three theorems below.
THEOREM Inductive == Spec => []IInv
BY InitIInv, StepIInv, PTL DEF Spec

\* SourceService: every row of rag_source_objects has its object durably on disk, through
\* rollbacks, deaths and power failures, and whoever linked the object.
THEOREM RowsHaveObjects == Spec => []StoreInv
<1>1. IInv => StoreInv
  BY DEF IInv
<1>2. QED
  BY Inductive, <1>1, PTL

\* read_for_review: what it hands out is the recorded, undamaged original of the document, and
\* stays it while the transaction lasts.
THEOREM Originals == Spec => []AnswersAreOriginals
<1>1. IInv => AnswersAreOriginals
  BY DEF IInv
<1>2. QED
  BY Inductive, <1>1, PTL

\* LocalDocumentStore: an object has its name only with all its bytes on disk, so that only
\* damage from outside can spoil one.
THEOREM CompleteObjects == Spec => NamedObjectsAreComplete
<1> DEFINE Spoiled(i) == ~Broken(i) /\ Broken(i)'
<1>1. ASSUME IInv, [Next]_vars, NEW i \in Identity, Spoiled(i)
      PROVE  data[i] = "synced"
  <2>1. CASE PowerLoss
    BY <1>1, <2>1 DEF PowerLoss, IInv, ObjectsAreSynced, Broken
  <2>2. ASSUME NEW j \in Identity, Damage(j)
        PROVE  data[i] = "synced"
    BY <1>1, <2>2 DEF Damage, IInv, StoreInv, TypeOK, Broken
  <2>3. ASSUME NEW c \in Clients, Link(c)
        PROVE  data[i] = "synced"
    BY <1>1, <2>3 DEF Link, Refuse, Stage, objects, ImportIsDone, IInv, StoreInv, TypeOK, Broken
  <2>4. CASE data' = data
    BY <1>1, <2>4 DEF Broken
  <2>5. data' = data \/ PowerLoss \/ (\E j \in Identity : Damage(j)) \/ (\E c \in Clients : Link(c))
    BY <1>1 DEF Next, vars, Import, Review, Identify, Write, Flush, Sync, Stage, Pass, SyncDirectory, InsertRow, CommitRow,
       GetRow, ReadObject, Stop, Refuse, Rehash, files, objects
  <2>6. QED
    BY <2>1, <2>2, <2>3, <2>4, <2>5
<1>2. IInv /\ [Next]_vars =>
          [\A i \in Identity : ~Broken(i) /\ Broken(i)' => data[i] = "synced"]_vars
  BY <1>1
<1>3. QED
  BY Inductive, <1>2, PTL DEF Spec, NamedObjectsAreComplete
=============================================================================
