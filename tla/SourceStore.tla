---------------------------- MODULE SourceStore ----------------------------
(***************************************************************************)
(* SourceService, SourceRepository and LocalDocumentStore: the bytes of a  *)
(* document are preserved in a file named after document and hash, and     *)
(* recorded in a row, in this order and without a common transaction.      *)
(*                                                                         *)
(* The bytes are written to a staging file of the client, flushed and      *)
(* synced there; then the file gets the name of the object as well.        *)
(*                                                                         *)
(* A client may die or roll back at any step, the machine may lose power,  *)
(* and a file may be damaged.  The hash of a document is only changed by   *)
(* maintenance outside the program; FOR SHARE keeps it out.                *)
(***************************************************************************)
CONSTANTS
    Clients,
    Documents,
    Hashes,
    NoHash

ASSUME SourceAssumption ==
    /\ NoHash \notin Hashes
    /\ NoHash \notin [document : Documents, hash : Hashes]

VARIABLES
    hash,    \* content_hash of a document
    rows,    \* source_hash of its rag_source_objects row, NoHash without one
    link,    \* the directory entry of an object: none, volatile or durable
    data,    \* the bytes behind it
    staged,  \* the bytes in the staging file of a client
    pc,      \* where each client is
    cmd      \* the identity it works with, and for a reader what it got

tables == <<hash, rows>>
objects == <<link, data>>
files == <<link, data, staged>>
vars == <<hash, rows, link, data, staged, pc, cmd>>

\* object_key is determined by the identity, and the identity by the key.
Identity == [document : Documents, hash : Hashes]

\* Of the bytes of a file: none or some of them; all, in the page cache or on disk.
Staged == {"none", "partial", "cached", "synced"}
Data == Staged \cup {"damaged"}
ImportSteps == {"staging", "written", "flushed", "staged", "linked", "insert", "inserted"}
ReadSteps == {"get", "read", "answered"}

TypeOK ==
    /\ hash \in [Documents -> Hashes]
    /\ rows \in [Documents -> Hashes \cup {NoHash}]
    /\ link \in [Identity -> {"none", "volatile", "durable"}]
    /\ data \in [Identity -> Data]
    /\ \A i \in Identity : link[i] = "none" <=> data[i] = "none"
    /\ staged \in [Clients -> Staged]
    /\ pc \in [Clients -> {"idle"} \cup ImportSteps \cup ReadSteps]
    /\ cmd \in [Clients -> Identity \cup {NoHash}]
    /\ \A c \in Clients : pc[c] = "idle" <=> cmd[c] = NoHash

Init ==
    /\ hash \in [Documents -> Hashes]
    /\ rows = [d \in Documents |-> NoHash]
    /\ link = [i \in Identity |-> "none"]
    /\ data = [i \in Identity |-> "none"]
    /\ staged = [c \in Clients |-> "none"]
    /\ pc = [c \in Clients |-> "idle"]
    /\ cmd = [c \in Clients |-> NoHash]
-----------------------------------------------------------------------------
Pass(c, from, to) ==
    /\ pc[c] = from
    /\ pc' = [pc EXCEPT ![c] = to]
    /\ UNCHANGED <<tables, cmd>>

\* The transaction of c ends, and its staging file with it.
End(c) ==
    /\ pc' = [pc EXCEPT ![c] = "idle"]
    /\ cmd' = [cmd EXCEPT ![c] = NoHash]
    /\ staged' = [staged EXCEPT ![c] = "none"]

\* It ends without effect: EvidenceError, rollback or death.
Refuse(c) == End(c) /\ UNCHANGED <<tables, objects>>

\* document_identity: the hash, FOR SHARE until the transaction ends.
Identify(c, step, d) ==
    /\ pc[c] = "idle"
    /\ pc' = [pc EXCEPT ![c] = step]
    /\ cmd' = [cmd EXCEPT ![c] = [document |-> d, hash |-> hash[d]]]
    /\ UNCHANGED <<tables, files>>

Shared(d) == \E c \in Clients : pc[c] # "idle" /\ cmd[c].document = d

\* import_matching_bytes; bytes with another hash are refused before anything happens.
Import(c, d) == Identify(c, "staging", d)

\* A step of the staging file: what it holds now, and nobody sees.
Stage(c, from, to, bytes) ==
    /\ Pass(c, from, to)
    /\ staged' = [staged EXCEPT ![c] = bytes]
    /\ UNCHANGED objects

\* staging.write: bytes are still in the buffer of the process,
Write(c) == Stage(c, "staging", "written", "partial")

\* staging.flush: all are in the page cache,
Flush(c) == Stage(c, "written", "flushed", "cached")

\* Mutant of Sync: the fsync is forgotten.
SyncNothing(c) == Stage(c, "flushed", "staged", staged[c])

\* os.fsync: and on disk.
Sync(c) == Stage(c, "flushed", "staged", "synced")

\* verify_source of the object's bytes.
Verified(i) == data[i] \in {"cached", "synced"}

\* os.link: all or nothing, and never over an object that is there, which must then be
\* the right one.  The object is the staging file, as far as it is written and synced.
Link(c) ==
    LET i == cmd[c] IN
    /\ pc[c] = "staged"
    /\ \/ /\ link[i] = "none"
          /\ link' = [link EXCEPT ![i] = "volatile"]
          /\ data' = [data EXCEPT ![i] = staged[c]]
          /\ staged' = [staged EXCEPT ![c] = "none"]
          /\ Pass(c, "staged", "linked")
       \/ link[i] # "none" /\ Verified(i) /\ Stage(c, "staged", "linked", "none")
       \/ link[i] # "none" /\ ~Verified(i) /\ Refuse(c)

\* Mutant of SyncDirectory: an object that is there is taken for durable.
SyncOwnLink(c) == Pass(c, "linked", "insert") /\ UNCHANGED files

\* fsync of the directory makes every entry in it durable, also one that another
\* client linked.
SyncDirectory(c) ==
    /\ Pass(c, "linked", "insert")
    /\ link' = [i \in Identity |-> IF link[i] = "none" THEN "none" ELSE "durable"]
    /\ UNCHANGED <<data, staged>>

\* rag_guard_source_object
RowGuard(i) == hash[i.document] = i.hash

\* record: the insert waits for an uncommitted row of the document and does nothing
\* beside a committed one, which must then be the same.
InsertRow(c) ==
    LET i == cmd[c] IN
    /\ pc[c] = "insert"
    /\ \A b \in Clients : ~(pc[b] = "inserted" /\ cmd[b].document = i.document)
    /\ IF RowGuard(i) /\ rows[i.document] \in {NoHash, i.hash}
       THEN Pass(c, "insert", "inserted") /\ UNCHANGED files
       ELSE Refuse(c)

CommitRow(c) ==
    /\ pc[c] = "inserted"
    /\ rows' = [rows EXCEPT ![cmd[c].document] = cmd[c].hash]
    /\ UNCHANGED <<hash, objects>>
    /\ End(c)
-----------------------------------------------------------------------------
\* read_for_review: the identity, the row, which must match it, and the verified bytes.
Review(c, d) == Identify(c, "get", d)

GetRow(c) ==
    /\ pc[c] = "get"
    /\ IF rows[cmd[c].document] = cmd[c].hash
       THEN Pass(c, "get", "read") /\ UNCHANGED files
       ELSE Refuse(c)

\* Mutant of ReadObject: the bytes are not hashed again.
ReadUnverified(c) ==
    /\ Pass(c, "read", "answered")
    /\ link[cmd[c]] # "none"
    /\ UNCHANGED files

ReadObject(c) ==
    /\ pc[c] = "read"
    /\ IF Verified(cmd[c])
       THEN Pass(c, "read", "answered") /\ UNCHANGED files
       ELSE Refuse(c)
-----------------------------------------------------------------------------
\* OSError, rollback by the caller, or the death of the process; for a reader that has
\* its answer, the end.
Stop(c) == pc[c] # "idle" /\ Refuse(c)

\* Everything uncommitted is lost, what was not synced may be.
PowerLoss ==
    /\ \E lost \in SUBSET {i \in Identity : link[i] = "volatile"} :
          /\ link' = [i \in Identity |->
                IF i \in lost THEN "none" ELSE IF link[i] = "none" THEN "none" ELSE "durable"]
          /\ data' = [i \in Identity |->
                IF i \in lost THEN "none"
                ELSE IF data[i] \in {"partial", "cached"} THEN "damaged" ELSE data[i]]
    /\ staged' = [c \in Clients |-> "none"]
    /\ pc' = [c \in Clients |-> "idle"]
    /\ cmd' = [c \in Clients |-> NoHash]
    /\ UNCHANGED tables

Damage(i) ==
    /\ data[i] = "synced"
    /\ \A c \in Clients : pc[c] # "answered"
    /\ data' = [data EXCEPT ![i] = "damaged"]
    /\ UNCHANGED <<hash, rows, link, staged, pc, cmd>>

\* UPDATE policy_documents SET content_hash, by maintenance.
Rehash(d, h) ==
    /\ ~Shared(d)
    /\ hash' = [hash EXCEPT ![d] = h]
    /\ UNCHANGED <<rows, files, pc, cmd>>

Next ==
    \/ \E c \in Clients :
          \/ \E d \in Documents : Import(c, d) \/ Review(c, d)
          \/ Write(c)
          \/ Flush(c)
          \/ Sync(c)
          \/ Link(c)
          \/ SyncDirectory(c)
          \/ InsertRow(c)
          \/ CommitRow(c)
          \/ GetRow(c)
          \/ ReadObject(c)
          \/ Stop(c)
    \/ PowerLoss
    \/ \E i \in Identity : Damage(i)
    \/ \E d \in Documents, h \in Hashes : Rehash(d, h)

Spec == Init /\ [][Next]_vars
-----------------------------------------------------------------------------
\* A recorded source has its object on disk, even if the power fails the moment after
\* the commit, and whoever linked it.
RowHasDurableObject ==
    \A d \in Documents : rows[d] # NoHash =>
        link[[document |-> d, hash |-> rows[d]]] = "durable"

\* Rows and files are well-formed and agree: no row without its object.
StoreInv == TypeOK /\ RowHasDurableObject

\* An answer of read_for_review is the recorded and undamaged original of the
\* document, and this while the reader's transaction lasts.
AnswersAreOriginals ==
    \A c \in Clients : pc[c] = "answered" =>
        LET i == cmd[c] IN
        Verified(i) /\ hash[i.document] = i.hash /\ rows[i.document] = i.hash

\* "Complete writes before linking; a reader never sees partial bytes": an object has
\* its name only with all its bytes on disk, so that no death, no power failure at any
\* step leaves half an object behind that a retry could not replace.  Only damage from
\* outside spoils one.
Broken(i) == data[i] \in {"partial", "damaged"}
NamedObjectsAreComplete ==
    [][\A i \in Identity : ~Broken(i) /\ Broken(i)' => data[i] = "synced"]_vars
-----------------------------------------------------------------------------
\* The hash a client has read stays the document's: FOR SHARE.
IdentityIsPinned ==
    \A c \in Clients : pc[c] # "idle" => cmd[c].hash = hash[cmd[c].document]

\* What the steps of an import have achieved, whatever the others do.
ImportIsDone ==
    \A c \in Clients :
        /\ pc[c] = "staged" => staged[c] = "synced"
        /\ pc[c] = "linked" => link[cmd[c]] # "none"
        /\ pc[c] \in {"insert", "inserted"} => link[cmd[c]] = "durable"

\* What a reader has found in the table is still there.
RowIsRead ==
    \A c \in Clients : pc[c] \in {"read", "answered"} => rows[cmd[c].document] = cmd[c].hash

\* Objects are on disk as a whole, unless they have been damaged.
ObjectsAreSynced == \A i \in Identity : data[i] \in {"none", "synced", "damaged"}

\* The inductive invariant.
IInv ==
    /\ StoreInv
    /\ IdentityIsPinned
    /\ ImportIsDone
    /\ RowIsRead
    /\ ObjectsAreSynced
    /\ AnswersAreOriginals
=============================================================================
