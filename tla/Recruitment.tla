---------------------------- MODULE Recruitment ----------------------------
(***************************************************************************)
(* CompanyService, OpportunityService and RequirementService: companies    *)
(* with numbered revisions, roles, drives and opportunities; for each      *)
(* opportunity a requirement with numbered versions, and their criteria    *)
(* and members until the version is published.                             *)
(*                                                                         *)
(* Each request is a READ COMMITTED transaction that its caller commits:   *)
(* it reads without locks, then writes its rows one after another.  A row  *)
(* is named by the columns of its unique key, with the row it belongs to   *)
(* for the parent id; a drive has no key but its id.  The timestamps a     *)
(* publication or a closing sets are abstracted to their being there.      *)
(* Compensation terms belong to the version they are inserted with.        *)
(***************************************************************************)
EXTENDS Naturals, Sequences

CONSTANTS
    Clients,     \* concurrent requests
    Companies,   \* company codes
    Codes,       \* role codes and criterion codes
    Drives,      \* ids of drives
    Values,      \* values of requirement members
    MaxNumber    \* bound on version numbers: no request beyond it

ASSUME RecruitmentAssumption == MaxNumber \in Nat \ {0}

VARIABLES
    rows,   \* the committed rows of each table
    pc,     \* where each client is
    todo,   \* the rows its request still has to write
    done    \* the rows it has written and not committed

vars == <<rows, pc, todo, done>>

Numbers == 1 .. MaxNumber
RevisionRows == Companies \X Numbers
Roles == Companies \X Codes
DriveRows == Companies \X Drives
Opportunities == DriveRows \X Roles
Requirements == Opportunities
ReqVersions == Requirements \X Numbers
Criteria == ReqVersions \X Codes
Members == Criteria \X Values

\* published and closed: the rows whose published_at is set, whose status is CLOSED.
Tables == [company : SUBSET Companies, revision : SUBSET RevisionRows,
           role : SUBSET Roles, drive : SUBSET DriveRows,
           opportunity : SUBSET Opportunities, closed : SUBSET Opportunities,
           requirement : SUBSET Requirements, version : SUBSET ReqVersions,
           published : SUBSET ReqVersions,
           criterion : SUBSET Criteria, member : SUBSET Members]

TableNames == {"company", "revision", "role", "drive", "opportunity", "closed",
               "requirement", "version", "published", "criterion", "member"}
Row(t, key) == [table |-> t, key |-> key]

\* The keys a table may have.
Keys == [company |-> Companies, revision |-> RevisionRows, role |-> Roles,
         drive |-> DriveRows, opportunity |-> Opportunities, closed |-> Opportunities,
         requirement |-> Requirements, version |-> ReqVersions, published |-> ReqVersions,
         criterion |-> Criteria, member |-> Members]
Changes == UNION {{Row(t, key) : key \in Keys[t]} : t \in TableNames}

\* Every number a transaction reads and every parent it names is committed.
TypeOK ==
    /\ rows \in Tables
    /\ rows.closed \subseteq rows.opportunity /\ rows.published \subseteq rows.version
    /\ \A v \in rows.version : v[1] \in rows.requirement
    /\ \A x \in rows.criterion : x[1] \in rows.version
    /\ \A m \in rows.member : m[1] \in rows.criterion
    /\ pc \in [Clients -> {"idle", "write", "admitted"}]
    /\ todo \in [Clients -> Seq(Changes)]
    /\ done \in [Clients -> SUBSET Changes]
    /\ \A c \in Clients : pc[c] = "idle" <=> todo[c] = <<>> /\ done[c] = {}
    /\ \A c \in Clients : pc[c] = "admitted" => todo[c] # <<>>

Init ==
    /\ rows = [t \in TableNames |-> {}]
    /\ pc = [c \in Clients |-> "idle"]
    /\ todo = [c \in Clients |-> <<>>]
    /\ done = [c \in Clients |-> {}]
-----------------------------------------------------------------------------
\* The request of c has passed its checks and is going to write work.
Begin(c, work) ==
    /\ pc[c] = "idle"
    /\ pc' = [pc EXCEPT ![c] = "write"]
    /\ todo' = [todo EXCEPT ![c] = work]
    /\ UNCHANGED <<rows, done>>

End(c) ==
    /\ pc' = [pc EXCEPT ![c] = "idle"]
    /\ todo' = [todo EXCEPT ![c] = <<>>]
    /\ done' = [done EXCEPT ![c] = {}]

\* An HTTPException, an IntegrityError (409) or a rollback: nothing has happened.
Refuse(c) ==
    /\ pc[c] # "idle"
    /\ End(c)
    /\ UNCHANGED rows

\* n is the number after the latest of the numbers in S, 1 without one.
IsNext(n, S) == n \in Numbers /\ n - 1 \in S \cup {0} /\ \A m \in S : m < n

Revisions(k) == {x[2] : x \in {y \in rows.revision : y[1] = k}}
VersionsOf(o) == {v[2] : v \in {w \in rows.version : w[1] = o}}

\* What the request of c has written or is going to write.
Work(c) == done[c] \cup {todo[c][n] : n \in DOMAIN todo[c]}

CreateCompany(c, k) ==
    Begin(c, <<Row("company", k), Row("revision", <<k, 1>>)>>)

UpdateCompany(c, k) ==
    /\ k \in rows.company
    /\ \E n \in Numbers : IsNext(n, Revisions(k)) /\ Begin(c, <<Row("revision", <<k, n>>)>>)

CreateRole(c, k, code) ==
    /\ k \in rows.company
    /\ Begin(c, <<Row("role", <<k, code>>)>>)

\* The id of a new drive is fresh.
CreateDrive(c, k, d) ==
    /\ k \in rows.company
    /\ \A x \in rows.drive : x[2] # d
    /\ \A e \in Clients : \A x \in Companies : Row("drive", <<x, d>>) \notin Work(e)
    /\ Begin(c, <<Row("drive", <<k, d>>)>>)

\* The role and the drive must be the company's.
CreateOpportunity(c, drive, role) ==
    /\ drive \in rows.drive /\ role \in rows.role
    /\ drive[1] = role[1]
    /\ Begin(c, <<Row("opportunity", <<drive, role>>)>>)

CloseOpportunity(c, o) ==
    /\ o \in rows.opportunity \ rows.closed
    /\ Begin(c, <<Row("closed", o)>>)

\* initialize_requirement_graph: the next version, for the first one with the
\* requirement itself.
InitializeRequirement(c, o) ==
    /\ o \in rows.opportunity
    /\ \/ /\ o \notin rows.requirement
          /\ Begin(c, <<Row("requirement", o), Row("version", <<o, 1>>)>>)
       \/ /\ o \in rows.requirement
          /\ \E n \in Numbers :
                IsNext(n, VersionsOf(o)) /\ Begin(c, <<Row("version", <<o, n>>)>>)

AddCriterion(c, v, code) ==
    /\ v \in rows.version \ rows.published
    /\ Begin(c, <<Row("criterion", <<v, code>>)>>)

AddMember(c, x, value) ==
    /\ x \in rows.criterion /\ x[1] \notin rows.published
    /\ Begin(c, <<Row("member", <<x, value>>)>>)

Publish(c, v) ==
    /\ v \in rows.version \ rows.published
    /\ Begin(c, <<Row("published", v)>>)
-----------------------------------------------------------------------------
Items == {Row("criterion", x) : x \in Criteria} \cup {Row("member", m) : m \in Members}

\* The requirement version of a criterion or member.
Parent == [i \in Items |-> IF i.table = "criterion" THEN i.key[1] ELSE i.key[1][1]]

\* The triggers on criteria and members read published_at again.
Frozen(i) == i \in Items /\ Parent[i] \in rows.published

\* Mutant of Admit: the triggers are missing.
AdmitUntriggered(c) ==
    /\ pc[c] = "write" /\ todo[c] # <<>>
    /\ pc' = [pc EXCEPT ![c] = "admitted"]
    /\ UNCHANGED <<rows, todo, done>>

\* The BEFORE triggers look at what is committed when the statement begins: the insert
\* may wait for another one after that, and they are not fired again.
Admit(c) ==
    /\ pc[c] = "write" /\ todo[c] # <<>>
    /\ \/ /\ ~Frozen(Head(todo[c]))
          /\ pc' = [pc EXCEPT ![c] = "admitted"]
          /\ UNCHANGED <<rows, todo, done>>
       \/ Frozen(Head(todo[c])) /\ Refuse(c)

\* An UPDATE of a row that has been updated is applied again.
IsUpdate(i) == i.table \in {"published", "closed"}

WriteRow(c, i) ==
    /\ pc' = [pc EXCEPT ![c] = "write"]
    /\ todo' = [todo EXCEPT ![c] = Tail(@)]
    /\ done' = [done EXCEPT ![c] = @ \cup {i}]
    /\ UNCHANGED rows

\* Mutant of Write: an insert waits for its key to become free again.
WriteWaiting(c) ==
    LET i == Head(todo[c]) IN
    /\ pc[c] = "admitted"
    /\ \A d \in Clients : i \notin done[d]
    /\ i.key \in rows[i.table] => IsUpdate(i)
    /\ WriteRow(c, i)

\* An insert waits for an uncommitted row with its key and fails on a committed one;
\* an update waits for an uncommitted one.
Write(c) ==
    LET i == Head(todo[c])
        duplicate == i.key \in rows[i.table] /\ ~IsUpdate(i) IN
    /\ pc[c] = "admitted"
    /\ \A d \in Clients : i \notin done[d]
    /\ \/ ~duplicate /\ WriteRow(c, i)
       \/ duplicate /\ Refuse(c)

\* Mutant of Commit: some of the rows may still be missing.
CommitEarly(c) ==
    /\ pc[c] = "write" /\ done[c] # {}
    /\ rows' = [t \in TableNames |-> rows[t] \cup {i.key : i \in {j \in done[c] : j.table = t}}]
    /\ End(c)

Commit(c) ==
    /\ pc[c] = "write" /\ todo[c] = <<>>
    /\ rows' = [t \in TableNames |-> rows[t] \cup {i.key : i \in {j \in done[c] : j.table = t}}]
    /\ End(c)
-----------------------------------------------------------------------------
CompanyRequest(c) ==
    \E k \in Companies :
        \/ CreateCompany(c, k)
        \/ UpdateCompany(c, k)
        \/ \E code \in Codes : CreateRole(c, k, code)

OpportunityRequest(c) ==
    \/ \E k \in Companies, d \in Drives : CreateDrive(c, k, d)
    \/ \E drive \in rows.drive, role \in rows.role : CreateOpportunity(c, drive, role)
    \/ \E o \in rows.opportunity : CloseOpportunity(c, o)

RequirementRequest(c) ==
    \/ \E o \in rows.opportunity : InitializeRequirement(c, o)
    \/ \E v \in rows.version : Publish(c, v) \/ \E code \in Codes : AddCriterion(c, v, code)
    \/ \E x \in rows.criterion, value \in Values : AddMember(c, x, value)

Next ==
    \E c \in Clients :
        \/ CompanyRequest(c) \/ OpportunityRequest(c) \/ RequirementRequest(c)
        \/ Admit(c) \/ Write(c) \/ Commit(c) \/ Refuse(c)

Spec == Init /\ [][Next]_vars

\* A transaction goes on.  The one a write waits for wakes it when it ends, so that
\* no stream of others can overtake it for ever.
Fairness == \A c \in Clients : WF_vars(Admit(c)) /\ SF_vars(Write(c)) /\ WF_vars(Commit(c))
FairSpec == Spec /\ Fairness
-----------------------------------------------------------------------------
\* Revisions and versions are numbered 1, 2, 3, ..., with the first one there as soon
\* as the company or the requirement is, although both numbers are read before others
\* commit: the unique keys refuse the second of two equal ones.
NumbersAreGapless ==
    /\ \A k \in rows.company : 1 \in Revisions(k)
    /\ \A k \in Companies : \A n \in Revisions(k) : k \in rows.company /\ 1 .. n \subseteq Revisions(k)
    /\ \A o \in rows.requirement : 1 \in VersionsOf(o)
    /\ \A o \in rows.opportunity : \A n \in VersionsOf(o) : 1 .. n \subseteq VersionsOf(o)

\* The tables of companies and requirements: parents are there, numbers have no gaps.
RecruitmentInv == TypeOK /\ NumbersAreGapless

\* What c has been admitted to insert and has not committed.
Admitted(c) == done[c] \cup {i \in Items : pc[c] = "admitted" /\ i = Head(todo[c])}

\* No criterion or member is admitted to a version once it is published: one that
\* arrives later was admitted before, by a statement that may have waited since.
\* domain-model ("Published definition immutable") promises more than this.
AsDefinitions == INSTANCE Definitions WITH
    items <- {i \in Items : i.key \in rows[i.table]},
    entering <- {i \in Items : i.key \notin rows[i.table] /\ \E c \in Clients : i \in Admitted(c)},
    frozen <- rows.published,
    Reopenable <- {}
FollowsDefinitions == AsDefinitions!Spec

\* Every request comes to its end: what it waits for commits or fails.
EveryRequestEnds == \A c \in Clients : pc[c] # "idle" ~> pc[c] = "idle"
-----------------------------------------------------------------------------
\* A row comes with its first number, follows the numbers before it, and its parent
\* is committed or comes with it.
Grounded(c, i) ==
    /\ i.table = "company" => Row("revision", <<i.key, 1>>) \in Work(c)
    /\ i.table = "revision" =>
          /\ i.key[1] \in rows.company \/ Row("company", i.key[1]) \in Work(c)
          /\ 1 .. i.key[2] - 1 \subseteq Revisions(i.key[1])
    /\ i.table = "closed" => i.key \in rows.opportunity
    /\ i.table = "requirement" => Row("version", <<i.key, 1>>) \in Work(c)
    /\ i.table = "version" =>
          /\ i.key[1] \in rows.requirement \/ Row("requirement", i.key[1]) \in Work(c)
          /\ 1 .. i.key[2] - 1 \subseteq VersionsOf(i.key[1])
    /\ i.table = "published" => i.key \in rows.version
    /\ i.table = "criterion" => i.key[1] \in rows.version
    /\ i.table = "member" => i.key[1] \in rows.criterion

\* A request writes one criterion, one member or one publication, and then nothing else.
WorkFits(c) ==
    \A i \in Work(c) :
        /\ Grounded(c, i)
        /\ i.table \in {"criterion", "member", "published"} => Work(c) = {i}

\* Two requests never hold one row.
RowsAreHeldOnce == \A c, d \in Clients : c # d => done[c] \cap done[d] = {}

\* The inductive invariant.
IInv ==
    /\ RecruitmentInv
    /\ RowsAreHeldOnce
    /\ \A v \in rows.version : 1 .. v[2] \subseteq VersionsOf(v[1])
    /\ \A c \in Clients : WorkFits(c)
=============================================================================
