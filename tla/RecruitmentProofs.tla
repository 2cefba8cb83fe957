--------------------------- MODULE RecruitmentProofs ---------------------------
(***************************************************************************)
(* Proofs about Recruitment, for any number of clients, companies,         *)
(* opportunities and versions: parents and first numbers are committed     *)
(* with what needs them, numbers have no gaps, and the requirement tables  *)
(* implement Definitions.                                                  *)
(***************************************************************************)
EXTENDS Recruitment, TLAPS

\* The elements of a sequence are its head and those of its tail.
LEMMA Elements ==
    ASSUME NEW S, NEW s \in Seq(S), s # <<>>
    PROVE  {s[n] : n \in DOMAIN s} = {Head(s)} \cup {Tail(s)[n] : n \in DOMAIN Tail(s)}
<1> DEFINE rest == Tail(s)
<1>1. /\ DOMAIN s = 1 .. Len(s) /\ Len(s) \in Nat \ {0} /\ Head(s) = s[1]
      /\ DOMAIN rest = 1 .. Len(s) - 1
      /\ \A n \in 1 .. Len(s) - 1 : rest[n] = s[n + 1]
  OBVIOUS
<1> HIDE DEF rest
<1>2. ASSUME NEW n \in 1 .. Len(s)
      PROVE  s[n] \in {Head(s)} \cup {rest[m] : m \in DOMAIN rest}
  <2>1. CASE n = 1
    BY <1>1, <2>1
  <2>2. CASE n # 1
    <3>1. PICK m \in 1 .. Len(s) - 1 : n = m + 1
      <4>1. n - 1 \in 1 .. Len(s) - 1 /\ n = (n - 1) + 1
        BY <1>1, <2>2
      <4>2. QED
        BY <4>1
    <3>2. s[n] = rest[m] /\ m \in DOMAIN rest
      BY <1>1, <3>1
    <3>3. QED
      BY <3>2
  <2>3. QED
    BY <2>1, <2>2
<1>3. ASSUME NEW n \in 1 .. Len(s) - 1
      PROVE  rest[n] \in {s[m] : m \in DOMAIN s}
  <2>1. n + 1 \in DOMAIN s /\ rest[n] = s[n + 1]
    BY <1>1
  <2>2. QED
    BY <2>1
<1>4. Head(s) \in {s[m] : m \in DOMAIN s}
  BY <1>1
<1>5. QED
  BY <1>1, <1>2, <1>3, <1>4 DEF rest

\* What is written has a table and a key of the table.
LEMMA ChangeKeys ==
    ASSUME NEW i \in Changes
    PROVE  /\ i.table \in TableNames /\ i = Row(i.table, i.key)
           /\ i.table = "company" => i.key \in Companies
           /\ i.table = "revision" => i.key \in RevisionRows
           /\ i.table = "role" => i.key \in Roles
           /\ i.table = "drive" => i.key \in DriveRows
           /\ i.table \in {"opportunity", "closed"} => i.key \in Opportunities
           /\ i.table = "requirement" => i.key \in Requirements
           /\ i.table \in {"version", "published"} => i.key \in ReqVersions
           /\ i.table = "criterion" => i.key \in Criteria
           /\ i.table = "member" => i.key \in Members
BY DEF Changes, Keys, Row, TableNames

\* Every key of a table is one a request may write.
LEMMA KeyChanges ==
    /\ \A k \in Companies : Row("company", k) \in Changes
    /\ \A x \in RevisionRows : Row("revision", x) \in Changes
    /\ \A x \in Roles : Row("role", x) \in Changes
    /\ \A x \in DriveRows : Row("drive", x) \in Changes
    /\ \A o \in Opportunities : /\ Row("opportunity", o) \in Changes
                                /\ Row("closed", o) \in Changes
                                /\ Row("requirement", o) \in Changes
    /\ \A v \in ReqVersions : Row("version", v) \in Changes /\ Row("published", v) \in Changes
    /\ \A x \in Criteria : Row("criterion", x) \in Changes
    /\ \A m \in Members : Row("member", m) \in Changes
BY DEF Changes, Keys, TableNames, Requirements

\* What the tables contain.
LEMMA TableKeys ==
    ASSUME TypeOK
    PROVE  /\ rows.company \subseteq Companies /\ rows.revision \subseteq RevisionRows
           /\ rows.role \subseteq Roles /\ rows.drive \subseteq DriveRows
           /\ rows.opportunity \subseteq Opportunities /\ rows.closed \subseteq Opportunities
           /\ rows.requirement \subseteq Requirements /\ rows.version \subseteq ReqVersions
           /\ rows.published \subseteq ReqVersions
           /\ rows.criterion \subseteq Criteria /\ rows.member \subseteq Members
BY DEF TypeOK, Tables

\* A transaction that has not committed disturbs no other.
LEMMA OthersKeep ==
    ASSUME IInv, NEW c \in Clients, NEW d \in Clients, c # d,
           todo'[d] = todo[d], done'[d] = done[d],
           \A t \in TableNames : rows[t] \subseteq rows'[t]
    PROVE  WorkFits(d)'
<1>1. Work(d)' = Work(d)
  BY DEF Work
<1>2. /\ rows.company \subseteq rows'.company /\ rows.requirement \subseteq rows'.requirement
      /\ rows.opportunity \subseteq rows'.opportunity
      /\ rows.version \subseteq rows'.version /\ rows.criterion \subseteq rows'.criterion
      /\ rows.revision \subseteq rows'.revision
  BY DEF TableNames
<1>3. /\ \A k : Revisions(k) \subseteq Revisions(k)'
      /\ \A o : VersionsOf(o) \subseteq VersionsOf(o)'
  BY <1>2 DEF Revisions, VersionsOf
<1>4. WorkFits(d)
  BY DEF IInv
<1>5. \A i : Grounded(d, i) => Grounded(d, i)'
  BY <1>1, <1>2, <1>3 DEF Grounded
<1>6. QED
  BY <1>1, <1>4, <1>5 DEF WorkFits

\* The tables are as they were: what is stated about them holds as it did.
LEMMA SameRows ==
    ASSUME IInv, rows' = rows
    PROVE  /\ NumbersAreGapless'
           /\ (\A v \in rows.version : 1 .. v[2] \subseteq VersionsOf(v[1]))'
           /\ \A t \in TableNames : rows[t] \subseteq rows'[t]
<1>1. \A k : Revisions(k)' = Revisions(k) /\ VersionsOf(k)' = VersionsOf(k)
  BY DEF Revisions, VersionsOf
<1>2. NumbersAreGapless'
  BY <1>1 DEF IInv, RecruitmentInv, NumbersAreGapless
<1>3. (\A v \in rows.version : 1 .. v[2] \subseteq VersionsOf(v[1]))'
  BY <1>1 DEF IInv
<1>4. QED
  BY <1>2, <1>3
-----------------------------------------------------------------------------
\* A request sets out with work that fits what is committed.
LEMMA BeginStep ==
    ASSUME IInv, NEW c \in Clients, NEW work \in Seq(Changes), work # <<>>, Begin(c, work),
           WorkFits(c)'
    PROVE  IInv'
<1> USE DEF IInv, RecruitmentInv, Begin
<1>1. TypeOK'
  BY DEF TypeOK
<1>2. \A d \in Clients : d # c => todo'[d] = todo[d] /\ done'[d] = done[d]
  BY DEF TypeOK
<1>3. rows' = rows /\ done' = done
  OBVIOUS
<1>4. RowsAreHeldOnce'
  BY <1>3 DEF RowsAreHeldOnce
<1>5. \A d \in Clients : WorkFits(d)'
  BY <1>2, <1>3, SameRows, OthersKeep
<1>6. QED
  BY <1>1, <1>3, <1>4, <1>5, SameRows

\* A request that is refused leaves nothing behind.
LEMMA EndFits ==
    ASSUME IInv, NEW c \in Clients, End(c)
    PROVE  /\ pc'[c] = "idle" /\ todo'[c] = <<>> /\ done'[c] = {} /\ WorkFits(c)'
           /\ \A d \in Clients : d # c => pc'[d] = pc[d] /\ todo'[d] = todo[d] /\ done'[d] = done[d]
           /\ RowsAreHeldOnce'
           /\ pc' \in [Clients -> {"idle", "write", "admitted"}]
           /\ todo' \in [Clients -> Seq(Changes)] /\ done' \in [Clients -> SUBSET Changes]
           /\ \A d \in Clients : pc'[d] = "idle" <=> todo'[d] = <<>> /\ done'[d] = {}
           /\ \A d \in Clients : pc'[d] = "admitted" => todo'[d] # <<>>
<1> USE DEF IInv, RecruitmentInv, End, TypeOK
<1>1. /\ pc'[c] = "idle" /\ todo'[c] = <<>> /\ done'[c] = {}
      /\ \A d \in Clients : d # c => pc'[d] = pc[d] /\ todo'[d] = todo[d] /\ done'[d] = done[d]
  OBVIOUS
<1>2. Work(c)' = {}
  BY <1>1 DEF Work
<1>3. WorkFits(c)'
  BY <1>1, <1>2 DEF WorkFits
<1>4. RowsAreHeldOnce'
  BY <1>1 DEF RowsAreHeldOnce
<1>5. QED
  BY <1>1, <1>3, <1>4

\* A request that fails leaves nothing behind.
LEMMA RefuseStep ==
    ASSUME IInv, NEW c \in Clients, Refuse(c)
    PROVE  IInv'
<1>1. rows' = rows /\ End(c)
  BY DEF Refuse
<1>2. TypeOK'
  BY <1>1, EndFits DEF IInv, RecruitmentInv, TypeOK
<1>3. \A d \in Clients : WorkFits(d)'
  BY <1>1, EndFits, SameRows, OthersKeep
<1>4. QED
  BY <1>1, <1>2, <1>3, EndFits, SameRows DEF IInv, RecruitmentInv

\* A row that is written is held by nobody else; the work of the request stays the same.
LEMMA WriteRowStep ==
    ASSUME IInv, NEW c \in Clients, pc[c] = "admitted",
           \A d \in Clients : Head(todo[c]) \notin done[d],
           WriteRow(c, Head(todo[c]))
    PROVE  IInv' /\ Work(c)' = Work(c)
<1> USE DEF IInv, RecruitmentInv, WriteRow, TypeOK
<1>1. /\ todo'[c] = Tail(todo[c]) /\ done'[c] = done[c] \cup {Head(todo[c])}
      /\ \A d \in Clients : d # c => todo'[d] = todo[d] /\ done'[d] = done[d]
      /\ rows' = rows /\ pc'[c] = "write" /\ \A d \in Clients : d # c => pc'[d] = pc[d]
  OBVIOUS
<1>2. /\ todo[c] \in Seq(Changes) /\ Tail(todo[c]) \in Seq(Changes) /\ Head(todo[c]) \in Changes
      /\ done[c] \subseteq Changes /\ todo[c] # <<>>
  OBVIOUS
<1>3. Work(c)' = Work(c)
  <2>1. {todo[c][n] : n \in DOMAIN todo[c]} =
            {Head(todo[c])} \cup {Tail(todo[c])[n] : n \in DOMAIN Tail(todo[c])}
    BY ONLY <1>2, Elements
  <2>2. {todo'[c][n] : n \in DOMAIN todo'[c]} = {Tail(todo[c])[n] : n \in DOMAIN Tail(todo[c])}
    BY <1>1
  <2>3. Work(c)' = done'[c] \cup {todo'[c][n] : n \in DOMAIN todo'[c]}
    BY DEF Work
  <2>4. QED
    BY <1>1, <2>1, <2>2, <2>3 DEF Work
<1>4. WorkFits(c)'
  <2>1. \A i : Grounded(c, i)' <=> Grounded(c, i)
    BY <1>1, <1>3 DEF Grounded, Revisions, VersionsOf
  <2>2. WorkFits(c)
    OBVIOUS
  <2>3. QED
    BY ONLY <1>3, <2>1, <2>2 DEF WorkFits
<1>5. TypeOK'
  <2>1. done'[c] # {} /\ pc' \in [Clients -> {"idle", "write", "admitted"}]
    BY <1>1
  <2>2. /\ todo' \in [Clients -> Seq(Changes)] /\ done' \in [Clients -> SUBSET Changes]
    BY <1>1, <1>2
  <2>3. QED
    BY <1>1, <2>1, <2>2
<1>6. RowsAreHeldOnce'
  BY <1>1 DEF RowsAreHeldOnce
<1>7. \A d \in Clients : WorkFits(d)'
  BY <1>1, <1>4, SameRows, OthersKeep
<1>8. QED
  BY <1>1, <1>3, <1>5, <1>6, <1>7, SameRows

\* A statement whose triggers have passed has changed nothing yet.
LEMMA AdmitStep ==
    ASSUME IInv, NEW c \in Clients, Admit(c)
    PROVE  IInv'
<1>1. CASE Refuse(c)
  BY <1>1, RefuseStep
<1>2. CASE pc' = [pc EXCEPT ![c] = "admitted"] /\ UNCHANGED <<rows, todo, done>>
  <2>1. pc[c] = "write" /\ todo[c] # <<>>
    BY DEF Admit
  <2>2. TypeOK'
    BY <1>2, <2>1 DEF IInv, RecruitmentInv, TypeOK
  <2>3. \A d \in Clients : WorkFits(d)'
    <3>1. \A d \in Clients : Work(d)' = Work(d) /\ \A i : Grounded(d, i)' <=> Grounded(d, i)
      BY <1>2 DEF Work, Grounded, Revisions, VersionsOf
    <3>2. \A d \in Clients : WorkFits(d)
      BY DEF IInv
    <3>3. QED
      BY ONLY <3>1, <3>2 DEF WorkFits
  <2>4. RowsAreHeldOnce'
    BY <1>2 DEF IInv, RowsAreHeldOnce
  <2>5. QED
    BY <1>2, <2>2, <2>3, <2>4, SameRows DEF IInv, RecruitmentInv
<1>3. QED
  BY <1>1, <1>2 DEF Admit

\* A row is written, unless it is there.
LEMMA WriteStep ==
    ASSUME IInv, NEW c \in Clients, Write(c)
    PROVE  IInv'
BY WriteRowStep, RefuseStep DEF Write

\* A commit adds what the transaction has written to the tables.
LEMMA CommittedRows ==
    ASSUME IInv, NEW c \in Clients, Commit(c)
    PROVE  /\ \A t \in TableNames : \A key : key \in rows'[t] <=> key \in rows[t] \/ Row(t, key) \in done[c]
           /\ done[c] = Work(c) /\ done[c] \subseteq Changes
<1>1. done[c] \subseteq Changes /\ todo[c] = <<>>
  BY DEF IInv, RecruitmentInv, TypeOK, Commit
<1>2. \A i \in done[c] : i = Row(i.table, i.key)
  BY <1>1, ChangeKeys
<1>3. \A t \in TableNames : rows'[t] = rows[t] \cup {i.key : i \in {j \in done[c] : j.table = t}}
  BY DEF Commit
<1>4. \A t, key : Row(t, key).table = t /\ Row(t, key).key = key
  BY DEF Row
<1>5. \A t \in TableNames : \A key : key \in rows'[t] <=> key \in rows[t] \/ Row(t, key) \in done[c]
  <2>1. SUFFICES ASSUME NEW t \in TableNames, NEW key
                 PROVE  key \in rows'[t] <=> key \in rows[t] \/ Row(t, key) \in done[c]
    OBVIOUS
  <2>2. key \in rows'[t] <=> key \in rows[t] \/ \E i \in done[c] : i.table = t /\ i.key = key
    BY <1>3
  <2>3. QED
    BY <1>2, <1>4, <2>2
<1>6. done[c] = Work(c)
  BY <1>1 DEF Work
<1>7. QED
  BY <1>1, <1>5, <1>6

\* What a request writes has the rows it needs, table by table.
LEMMA GroundedRows ==
    ASSUME IInv, NEW c \in Clients
    PROVE  /\ \A k : Row("company", k) \in Work(c) => Row("revision", <<k, 1>>) \in Work(c)
           /\ \A x : Row("revision", x) \in Work(c) =>
                 /\ x[1] \in rows.company \/ Row("company", x[1]) \in Work(c)
                 /\ 1 .. x[2] - 1 \subseteq Revisions(x[1])
           /\ \A o : Row("closed", o) \in Work(c) => o \in rows.opportunity
           /\ \A o : Row("requirement", o) \in Work(c) => Row("version", <<o, 1>>) \in Work(c)
           /\ \A v : Row("version", v) \in Work(c) =>
                 /\ v[1] \in rows.requirement \/ Row("requirement", v[1]) \in Work(c)
                 /\ 1 .. v[2] - 1 \subseteq VersionsOf(v[1])
           /\ \A v : Row("published", v) \in Work(c) => v \in rows.version
           /\ \A x : Row("criterion", x) \in Work(c) => x[1] \in rows.version
           /\ \A m : Row("member", m) \in Work(c) => m[1] \in rows.criterion
<1>1. ASSUME NEW t, NEW key, Row(t, key) \in Work(c)
      PROVE  Grounded(c, Row(t, key)) /\ Row(t, key).table = t /\ Row(t, key).key = key
  BY <1>1 DEF IInv, WorkFits, Row
<1>2. ASSUME NEW k, Row("company", k) \in Work(c)
      PROVE  Row("revision", <<k, 1>>) \in Work(c)
  <2>1. PICK i : i = Row("company", k)
    OBVIOUS
  <2>2. Grounded(c, i) /\ i.table = "company" /\ i.key = k
    BY <1>1, <1>2, <2>1
  <2>3. QED
    BY ONLY <2>2 DEF Grounded
<1>3. ASSUME NEW x, Row("revision", x) \in Work(c)
      PROVE  (x[1] \in rows.company \/ Row("company", x[1]) \in Work(c)) /\ 1 .. x[2] - 1 \subseteq Revisions(x[1])
  <2>1. PICK i : i = Row("revision", x)
    OBVIOUS
  <2>2. Grounded(c, i) /\ i.table = "revision" /\ i.key = x
    BY <1>1, <1>3, <2>1
  <2>3. QED
    BY ONLY <2>2 DEF Grounded
<1>4. ASSUME NEW o, Row("closed", o) \in Work(c)
      PROVE  o \in rows.opportunity
  <2>1. PICK i : i = Row("closed", o)
    OBVIOUS
  <2>2. Grounded(c, i) /\ i.table = "closed" /\ i.key = o
    BY <1>1, <1>4, <2>1
  <2>3. QED
    BY ONLY <2>2 DEF Grounded
<1>5. ASSUME NEW o, Row("requirement", o) \in Work(c)
      PROVE  Row("version", <<o, 1>>) \in Work(c)
  <2>1. PICK i : i = Row("requirement", o)
    OBVIOUS
  <2>2. Grounded(c, i) /\ i.table = "requirement" /\ i.key = o
    BY <1>1, <1>5, <2>1
  <2>3. QED
    BY ONLY <2>2 DEF Grounded
<1>6. ASSUME NEW v, Row("version", v) \in Work(c)
      PROVE  (v[1] \in rows.requirement \/ Row("requirement", v[1]) \in Work(c)) /\ 1 .. v[2] - 1 \subseteq VersionsOf(v[1])
  <2>1. PICK i : i = Row("version", v)
    OBVIOUS
  <2>2. Grounded(c, i) /\ i.table = "version" /\ i.key = v
    BY <1>1, <1>6, <2>1
  <2>3. QED
    BY ONLY <2>2 DEF Grounded
<1>7. ASSUME NEW v, Row("published", v) \in Work(c)
      PROVE  v \in rows.version
  <2>1. PICK i : i = Row("published", v)
    OBVIOUS
  <2>2. Grounded(c, i) /\ i.table = "published" /\ i.key = v
    BY <1>1, <1>7, <2>1
  <2>3. QED
    BY ONLY <2>2 DEF Grounded
<1>8. ASSUME NEW x, Row("criterion", x) \in Work(c)
      PROVE  x[1] \in rows.version
  <2>1. PICK i : i = Row("criterion", x)
    OBVIOUS
  <2>2. Grounded(c, i) /\ i.table = "criterion" /\ i.key = x
    BY <1>1, <1>8, <2>1
  <2>3. QED
    BY ONLY <2>2 DEF Grounded
<1>9. ASSUME NEW m, Row("member", m) \in Work(c)
      PROVE  m[1] \in rows.criterion
  <2>1. PICK i : i = Row("member", m)
    OBVIOUS
  <2>2. Grounded(c, i) /\ i.table = "member" /\ i.key = m
    BY <1>1, <1>9, <2>1
  <2>3. QED
    BY ONLY <2>2 DEF Grounded
<1>10. QED
  BY <1>2, <1>3, <1>4, <1>5, <1>6, <1>7, <1>8, <1>9

\* What a commit adds is grounded in what is committed before or with it.
LEMMA CommitStep ==
    ASSUME IInv, NEW c \in Clients, Commit(c)
    PROVE  IInv'
<1> USE DEF IInv, RecruitmentInv
<1>1. End(c)
  BY DEF Commit
<1>2. \A t \in TableNames : \A key : key \in rows'[t] <=> key \in rows[t] \/ Row(t, key) \in done[c]
  BY CommittedRows
<1>3. /\ \A k : k \in rows'.company <=> k \in rows.company \/ Row("company", k) \in done[c]
      /\ \A x : x \in rows'.revision <=> x \in rows.revision \/ Row("revision", x) \in done[c]
      /\ \A x : x \in rows'.opportunity <=> x \in rows.opportunity \/ Row("opportunity", x) \in done[c]
      /\ \A x : x \in rows'.closed <=> x \in rows.closed \/ Row("closed", x) \in done[c]
      /\ \A x : x \in rows'.requirement <=> x \in rows.requirement \/ Row("requirement", x) \in done[c]
      /\ \A x : x \in rows'.version <=> x \in rows.version \/ Row("version", x) \in done[c]
      /\ \A x : x \in rows'.published <=> x \in rows.published \/ Row("published", x) \in done[c]
      /\ \A x : x \in rows'.criterion <=> x \in rows.criterion \/ Row("criterion", x) \in done[c]
      /\ \A x : x \in rows'.member <=> x \in rows.member \/ Row("member", x) \in done[c]
  BY <1>2 DEF TableNames
<1>4. done[c] = Work(c) /\ done[c] \subseteq Changes
  BY CommittedRows
<1>5. \A t, key : Row(t, key).table = t /\ Row(t, key).key = key
  BY DEF Row
<1>6. rows' \in Tables
  <2>1. \A t \in TableNames : rows'[t] \subseteq Keys[t]
    <3>1. \A t \in TableNames : rows[t] \subseteq Keys[t]
      BY TableKeys DEF TableNames, Keys
    <3>2. \A t \in TableNames : \A key : Row(t, key) \in Changes => key \in Keys[t]
      BY <1>5 DEF Changes
    <3>3. QED
      BY <1>2, <1>4, <3>1, <3>2
  <2>2. rows' = [t \in TableNames |-> rows'[t]]
    BY DEF Commit
  <2>3. QED
    BY <2>1, <2>2 DEF Tables, TableNames, Keys
<1>7. TypeOK'
  <2>1. rows'.closed \subseteq rows'.opportunity /\ rows'.published \subseteq rows'.version
    BY <1>3, <1>4, GroundedRows DEF TypeOK
  <2>2. \A v \in rows'.version : v[1] \in rows'.requirement
    <3>1. ASSUME NEW v, Row("version", v) \in done[c]
          PROVE  v[1] \in rows'.requirement
      BY <1>3, <1>4, <3>1, GroundedRows
    <3>2. QED
      BY <1>3, <3>1 DEF TypeOK
  <2>3. \A x \in rows'.criterion : x[1] \in rows'.version
    BY <1>3, <1>4, GroundedRows DEF TypeOK
  <2>4. \A m \in rows'.member : m[1] \in rows'.criterion
    BY <1>3, <1>4, GroundedRows DEF TypeOK
  <2>5. QED
    BY <1>1, <1>6, <2>1, <2>2, <2>3, <2>4, EndFits DEF TypeOK
<1>8. /\ \A k : Revisions(k) \subseteq Revisions(k)' /\ VersionsOf(k) \subseteq VersionsOf(k)'
      /\ \A x \in rows'.revision : x[2] \in Revisions(x[1])'
      /\ \A v \in rows'.version : v[2] \in VersionsOf(v[1])'
  BY <1>3 DEF Revisions, VersionsOf
<1>9. \A k \in rows'.company : 1 \in Revisions(k)'
  <2>1. ASSUME NEW k, Row("company", k) \in done[c]
        PROVE  1 \in Revisions(k)'
    <3>1. Row("revision", <<k, 1>>) \in done[c]
      BY <1>4, <2>1, GroundedRows
    <3>2. <<k, 1>> \in rows'.revision
      BY <1>3, <3>1
    <3>3. QED
      BY <3>2 DEF Revisions
  <2>2. QED
    BY <1>3, <1>8, <2>1 DEF NumbersAreGapless
<1>10. \A o \in rows'.requirement : 1 \in VersionsOf(o)'
  <2>1. ASSUME NEW o, Row("requirement", o) \in done[c]
        PROVE  1 \in VersionsOf(o)'
    <3>1. Row("version", <<o, 1>>) \in done[c]
      BY <1>4, <2>1, GroundedRows
    <3>2. <<o, 1>> \in rows'.version
      BY <1>3, <3>1
    <3>3. QED
      BY <3>2 DEF VersionsOf
  <2>2. QED
    BY <1>3, <1>8, <2>1 DEF NumbersAreGapless
<1>11. \A x \in rows'.revision : x[1] \in rows'.company /\ 1 .. x[2] \subseteq Revisions(x[1])'
  <2>1. ASSUME NEW x, Row("revision", x) \in done[c]
        PROVE  x[1] \in rows'.company /\ 1 .. x[2] \subseteq Revisions(x[1])'
    <3>1. x[1] \in rows'.company /\ 1 .. x[2] - 1 \subseteq Revisions(x[1])
      BY <1>3, <1>4, <2>1, GroundedRows
    <3>2. x \in RevisionRows
      BY <1>4, <1>5, <2>1, ChangeKeys
    <3>3. x[2] \in Nat
      BY <3>2 DEF RevisionRows, Numbers
    <3>4. x[2] \in Revisions(x[1])'
      BY <1>3, <1>8, <2>1
    <3>5. QED
      BY <1>8, <3>1, <3>3, <3>4
  <2>2. ASSUME NEW x \in rows.revision
        PROVE  x[1] \in rows'.company /\ 1 .. x[2] \subseteq Revisions(x[1])'
    <3>1. x[1] \in Companies /\ x[2] \in Revisions(x[1])
      BY TableKeys DEF Revisions, RevisionRows
    <3>2. QED
      BY <1>3, <1>8, <3>1 DEF NumbersAreGapless
  <2>3. QED
    BY <1>3, <2>1, <2>2
<1>12. \A v \in rows'.version : 1 .. v[2] \subseteq VersionsOf(v[1])'
  <2>1. ASSUME NEW v, Row("version", v) \in done[c]
        PROVE  1 .. v[2] \subseteq VersionsOf(v[1])'
    <3>1. 1 .. v[2] - 1 \subseteq VersionsOf(v[1])
      BY <1>4, <2>1, GroundedRows
    <3>2. v \in ReqVersions
      BY <1>4, <1>5, <2>1, ChangeKeys
    <3>3. v[2] \in Nat
      BY <3>2 DEF ReqVersions, Numbers
    <3>4. v[2] \in VersionsOf(v[1])'
      BY <1>3, <1>8, <2>1
    <3>5. QED
      BY <1>8, <3>1, <3>3, <3>4
  <2>2. QED
    BY <1>3, <1>8, <2>1
<1>13. NumbersAreGapless'
  <2>1. \A k \in Companies : \A n \in Revisions(k)' : k \in rows'.company /\ 1 .. n \subseteq Revisions(k)'
    BY <1>11 DEF Revisions
  <2>2. \A o \in rows'.opportunity : \A n \in VersionsOf(o)' : 1 .. n \subseteq VersionsOf(o)'
    BY <1>12 DEF VersionsOf
  <2>3. QED
    BY <1>9, <1>10, <2>1, <2>2 DEF NumbersAreGapless
<1>14. \A d \in Clients : WorkFits(d)'
  <2>1. \A t \in TableNames : rows[t] \subseteq rows'[t]
    BY <1>2
  <2>2. QED
    BY <1>1, <2>1, EndFits, OthersKeep
<1>15. QED
  BY <1>1, <1>7, <1>12, <1>13, <1>14, EndFits
-----------------------------------------------------------------------------
\* What a request that writes one row has to write, and what one with two.
LEMMA BeginOne ==
    ASSUME IInv, NEW c \in Clients, NEW i \in Changes, Begin(c, <<i>>),
           i.table \notin {"company", "requirement"},
           i.table = "revision" =>
               i.key[1] \in rows.company /\ 1 .. i.key[2] - 1 \subseteq Revisions(i.key[1]),
           i.table = "closed" => i.key \in rows.opportunity,
           i.table = "version" =>
               i.key[1] \in rows.requirement /\ 1 .. i.key[2] - 1 \subseteq VersionsOf(i.key[1]),
           i.table = "published" => i.key \in rows.version,
           i.table = "criterion" => i.key[1] \in rows.version,
           i.table = "member" => i.key[1] \in rows.criterion
    PROVE  IInv'
<1>1. /\ <<i>> \in Seq(Changes) /\ <<i>> # <<>> /\ DOMAIN <<i>> = {1} /\ <<i>>[1] = i
  OBVIOUS
<1>2. todo'[c] = <<i>> /\ done'[c] = {} /\ rows' = rows
  BY DEF IInv, RecruitmentInv, TypeOK, Begin
<1>3. Work(c)' = {i}
  BY <1>1, <1>2 DEF Work
<1>4. Revisions(i.key[1])' = Revisions(i.key[1]) /\ VersionsOf(i.key[1])' = VersionsOf(i.key[1])
  BY <1>2 DEF Revisions, VersionsOf
<1>5. Grounded(c, i)'
  BY <1>2, <1>4 DEF Grounded
<1>6. WorkFits(c)'
  BY <1>3, <1>5 DEF WorkFits
<1>7. QED
  BY <1>1, <1>6, BeginStep

\* A request that writes a row together with its first number.
LEMMA BeginTwo ==
    ASSUME IInv, NEW c \in Clients, NEW i \in Changes, NEW j \in Changes, Begin(c, <<i, j>>),
           \/ /\ i.table = "company" /\ j = Row("revision", <<i.key, 1>>)
           \/ /\ i.table = "requirement" /\ j = Row("version", <<i.key, 1>>)
    PROVE  IInv'
<1>1. /\ <<i, j>> \in Seq(Changes) /\ <<i, j>> # <<>> /\ DOMAIN <<i, j>> = {1, 2}
      /\ <<i, j>>[1] = i /\ <<i, j>>[2] = j
  OBVIOUS
<1>2. todo'[c] = <<i, j>> /\ done'[c] = {} /\ rows' = rows
  BY DEF IInv, RecruitmentInv, TypeOK, Begin
<1>3. Work(c)' = {i, j}
  BY <1>1, <1>2 DEF Work
<1>4. i = Row(i.table, i.key)
  BY ChangeKeys
<1>5. j.key[1] = i.key /\ 1 .. j.key[2] - 1 = {}
  BY DEF Row
<1>6. Grounded(c, i)' /\ Grounded(c, j)'
  BY <1>3, <1>4, <1>5 DEF Grounded, Row
<1>7. i.table \in {"company", "requirement"} /\ j.table \in {"revision", "version"}
  BY DEF Row
<1>8. WorkFits(c)'
  BY <1>3, <1>6, <1>7 DEF WorkFits
<1>9. QED
  BY <1>1, <1>8, BeginStep

\* The number that is read follows all that are committed.
LEMMA NextNumber ==
    ASSUME NEW S, NEW n, IsNext(n, S), \A m \in S : 1 .. m \subseteq S
    PROVE  n \in Numbers /\ 1 .. n - 1 \subseteq S
<1>1. n \in Nat \ {0}
  BY RecruitmentAssumption DEF IsNext, Numbers
<1>2. QED
  BY <1>1 DEF IsNext

\* The requests of CompanyService keep the invariant.
LEMMA CompanyStep ==
    ASSUME IInv, NEW c \in Clients, CompanyRequest(c)
    PROVE  IInv'
<1> USE DEF IInv, RecruitmentInv
<1>1. 1 \in Numbers
  BY RecruitmentAssumption DEF Numbers
<1>2. ASSUME NEW k \in Companies, CreateCompany(c, k)
      PROVE  IInv'
  <2>1. Row("company", k) \in Changes /\ Row("revision", <<k, 1>>) \in Changes
    BY <1>1, KeyChanges DEF RevisionRows
  <2>2. QED
    BY <1>2, <2>1, BeginTwo DEF CreateCompany, Row
<1>3. ASSUME NEW k \in Companies, UpdateCompany(c, k)
      PROVE  IInv'
  <2>1. PICK n \in Numbers : IsNext(n, Revisions(k)) /\ Begin(c, <<Row("revision", <<k, n>>)>>)
    BY <1>3 DEF UpdateCompany
  <2>2. k \in rows.company /\ 1 .. n - 1 \subseteq Revisions(k)
    BY <1>3, <2>1, NextNumber DEF UpdateCompany, NumbersAreGapless
  <2>3. PICK i : i = Row("revision", <<k, n>>)
    OBVIOUS
  <2>4. i \in Changes /\ i.table = "revision" /\ i.key[1] = k /\ i.key[2] = n
    BY <2>3, KeyChanges DEF RevisionRows, Row
  <2>5. QED
    BY <2>1, <2>2, <2>3, <2>4, BeginOne
<1>4. ASSUME NEW k \in Companies, NEW code \in Codes, CreateRole(c, k, code)
      PROVE  IInv'
  <2>1. Row("role", <<k, code>>) \in Changes
    BY KeyChanges DEF Roles
  <2>2. QED
    BY <1>4, <2>1, BeginOne DEF CreateRole, Row
<1>5. QED
  BY <1>2, <1>3, <1>4 DEF CompanyRequest

\* The requests of OpportunityService keep the invariant.
LEMMA OpportunityStep ==
    ASSUME IInv, NEW c \in Clients, OpportunityRequest(c)
    PROVE  IInv'
<1> USE DEF IInv, RecruitmentInv
<1>1. ASSUME NEW k \in Companies, NEW d \in Drives, CreateDrive(c, k, d)
      PROVE  IInv'
  <2>1. Row("drive", <<k, d>>) \in Changes
    BY KeyChanges DEF DriveRows
  <2>2. QED
    BY <1>1, <2>1, BeginOne DEF CreateDrive, Row
<1>2. ASSUME NEW drive \in rows.drive, NEW role \in rows.role, CreateOpportunity(c, drive, role)
      PROVE  IInv'
  <2>1. Row("opportunity", <<drive, role>>) \in Changes
    BY TableKeys, KeyChanges DEF Opportunities
  <2>2. QED
    BY <1>2, <2>1, BeginOne DEF CreateOpportunity, Row
<1>3. ASSUME NEW o \in rows.opportunity, CloseOpportunity(c, o)
      PROVE  IInv'
  <2>1. Row("closed", o) \in Changes
    BY TableKeys, KeyChanges
  <2>2. QED
    BY <1>3, <2>1, BeginOne DEF CloseOpportunity, Row
<1>4. QED
  BY <1>1, <1>2, <1>3 DEF OpportunityRequest

\* The requests of RequirementService keep the invariant.
LEMMA RequirementStep ==
    ASSUME IInv, NEW c \in Clients, RequirementRequest(c)
    PROVE  IInv'
<1> USE DEF IInv, RecruitmentInv
<1>1. ASSUME NEW o \in rows.opportunity, InitializeRequirement(c, o)
      PROVE  IInv'
  <2>1. o \in Opportunities /\ o \in Requirements /\ 1 \in Numbers
    BY TableKeys, RecruitmentAssumption DEF Requirements, Numbers
  <2>2. CASE Begin(c, <<Row("requirement", o), Row("version", <<o, 1>>)>>)
    <3>1. Row("requirement", o) \in Changes /\ Row("version", <<o, 1>>) \in Changes
      BY <2>1, KeyChanges DEF ReqVersions
    <3>2. QED
      BY <2>2, <3>1, BeginTwo DEF Row
  <2>3. ASSUME o \in rows.requirement, NEW n \in Numbers, IsNext(n, VersionsOf(o)),
               Begin(c, <<Row("version", <<o, n>>)>>)
        PROVE  IInv'
    <3>1. 1 .. n - 1 \subseteq VersionsOf(o)
      BY <2>3, NextNumber DEF NumbersAreGapless
    <3>2. PICK i : i = Row("version", <<o, n>>)
      OBVIOUS
    <3>3. i \in Changes /\ i.table = "version" /\ i.key[1] = o /\ i.key[2] = n
      BY <2>1, <3>2, KeyChanges DEF ReqVersions, Row
    <3>4. QED
      BY <2>3, <3>1, <3>2, <3>3, BeginOne
  <2>4. QED
    BY <1>1, <2>2, <2>3 DEF InitializeRequirement
<1>2. ASSUME NEW v \in rows.version, Publish(c, v)
      PROVE  IInv'
  <2>1. Row("published", v) \in Changes
    BY TableKeys, KeyChanges
  <2>2. QED
    BY <1>2, <2>1, BeginOne DEF Publish, Row
<1>3. ASSUME NEW v \in rows.version, NEW code \in Codes, AddCriterion(c, v, code)
      PROVE  IInv'
  <2>1. Row("criterion", <<v, code>>) \in Changes
    BY TableKeys, KeyChanges DEF Criteria
  <2>2. QED
    BY <1>3, <2>1, BeginOne DEF AddCriterion, Row
<1>4. ASSUME NEW x \in rows.criterion, NEW value \in Values, AddMember(c, x, value)
      PROVE  IInv'
  <2>1. Row("member", <<x, value>>) \in Changes
    BY TableKeys, KeyChanges DEF Members
  <2>2. QED
    BY <1>4, <2>1, BeginOne DEF AddMember, Row
<1>5. QED
  BY <1>1, <1>2, <1>3, <1>4 DEF RequirementRequest
-----------------------------------------------------------------------------
\* The invariant holds of the empty tables.
LEMMA InitIInv == Init => IInv
<1> SUFFICES ASSUME Init PROVE IInv
  OBVIOUS
<1> USE DEF Init
<1>1. \A t \in TableNames : rows[t] = {}
  OBVIOUS
<1>2. /\ rows.company = {} /\ rows.revision = {} /\ rows.opportunity = {} /\ rows.closed = {}
      /\ rows.requirement = {} /\ rows.version = {} /\ rows.published = {}
      /\ rows.criterion = {} /\ rows.member = {}
  BY <1>1 DEF TableNames
<1>3. rows \in Tables
  BY DEF Tables, TableNames
<1>4. TypeOK
  <2>1. <<>> \in Seq(Changes) /\ {} \in SUBSET Changes
    OBVIOUS
  <2>2. todo \in [Clients -> Seq(Changes)] /\ done \in [Clients -> SUBSET Changes]
    BY <2>1
  <2>3. QED
    BY <1>2, <1>3, <2>2 DEF TypeOK
<1>5. \A k : Revisions(k) = {} /\ VersionsOf(k) = {}
  BY <1>2 DEF Revisions, VersionsOf
<1>6. NumbersAreGapless
  BY <1>2, <1>5 DEF NumbersAreGapless
<1>7. \A c \in Clients : WorkFits(c)
  BY DEF WorkFits, Work
<1>8. QED
  BY <1>2, <1>4, <1>6, <1>7 DEF IInv, RecruitmentInv, RowsAreHeldOnce

\* A step that changes nothing keeps the invariant.
LEMMA StutterIInv == IInv /\ UNCHANGED vars => IInv'
<1> SUFFICES ASSUME IInv, UNCHANGED vars PROVE IInv'
  OBVIOUS
<1> USE DEF vars
<1>1. TypeOK' /\ RowsAreHeldOnce'
  BY DEF IInv, RecruitmentInv, TypeOK, RowsAreHeldOnce
<1>2. ASSUME NEW c \in Clients
      PROVE  WorkFits(c)'
  <2>1. Work(c)' = Work(c) /\ \A i : Grounded(c, i)' <=> Grounded(c, i)
    BY DEF Work, Grounded, Revisions, VersionsOf
  <2>2. WorkFits(c)
    BY DEF IInv
  <2>3. QED
    BY ONLY <2>1, <2>2 DEF WorkFits
<1>3. QED
  BY <1>1, <1>2, SameRows DEF IInv, RecruitmentInv

\* Every step keeps the invariant.
LEMMA StepIInv == IInv /\ [Next]_vars => IInv'
<1> SUFFICES ASSUME IInv, [Next]_vars PROVE IInv'
  OBVIOUS
<1>1. ASSUME NEW c \in Clients, CompanyRequest(c) PROVE IInv'
  BY <1>1, CompanyStep
<1>2. ASSUME NEW c \in Clients, OpportunityRequest(c) PROVE IInv'
  BY <1>2, OpportunityStep
<1>3. ASSUME NEW c \in Clients, RequirementRequest(c) PROVE IInv'
  BY <1>3, RequirementStep
<1>4. ASSUME NEW c \in Clients, Write(c) PROVE IInv'
  BY <1>4, WriteStep
<1>5. ASSUME NEW c \in Clients, Commit(c) PROVE IInv'
  BY <1>5, CommitStep
<1>6. ASSUME NEW c \in Clients, Refuse(c) PROVE IInv'
  BY <1>6, RefuseStep
<1>7. ASSUME NEW c \in Clients, Admit(c) PROVE IInv'
  BY <1>7, AdmitStep
<1>8. CASE UNCHANGED vars
  BY <1>8, StutterIInv
<1>9. QED
  BY <1>1, <1>2, <1>3, <1>4, <1>5, <1>6, <1>7, <1>8 DEF Next

\* The invariant holds: this is the argument the theorems below share.
THEOREM Inductive == Spec => []IInv
BY InitIInv, StepIInv, PTL DEF Spec

\* Companies and requirements come with their first revision or version, later numbers
\* follow without a gap although each is read before others commit, and the parents of
\* versions, criteria and members are committed (update_company,
\* initialize_requirement_graph and the unique keys).
THEOREM Numbering == Spec => []RecruitmentInv
<1>1. IInv => RecruitmentInv
  BY DEF IInv
<1>2. QED
  BY Inductive, <1>1, PTL
-----------------------------------------------------------------------------
\* The state of Definitions.
ItemsThere == {i \in Items : i.key \in rows[i.table]}
Entering == {i \in Items : i.key \notin rows[i.table] /\ \E c \in Clients : i \in Admitted(c)}
definitions == <<ItemsThere, Entering, rows.published>>

\* An item is a criterion or a member, with its key.
LEMMA ItemShape ==
    ASSUME NEW i \in Items
    PROVE  /\ i.table \in {"criterion", "member"} /\ i.table \in TableNames
           /\ i = Row(i.table, i.key)
BY DEF Items, Row, TableNames

\* A request that has written an item has written, and will write, nothing else.
LEMMA ItemAlone ==
    ASSUME IInv, NEW c \in Clients, NEW i \in done[c],
           i.table \in {"criterion", "member", "published"}
    PROVE  done[c] = {i} /\ Work(c) = {i}
BY DEF IInv, WorkFits, Work

\* What a request is admitted to insert is part of its work.
LEMMA AdmittedIsWork ==
    ASSUME IInv, NEW c \in Clients
    PROVE  Admitted(c) \subseteq Work(c)
<1>1. ASSUME pc[c] = "admitted"
      PROVE  Head(todo[c]) \in {todo[c][n] : n \in DOMAIN todo[c]}
  <2>1. todo[c] \in Seq(Changes) /\ todo[c] # <<>>
    BY <1>1 DEF IInv, RecruitmentInv, TypeOK
  <2>2. 1 \in DOMAIN todo[c] /\ Head(todo[c]) = todo[c][1]
    BY <2>1
  <2>3. QED
    BY <2>2
<1>2. QED
  BY <1>1 DEF Admitted, Work

\* An admitted statement is an item that sets out, or none.
LEMMA SetOutStep ==
    ASSUME IInv, NEW c \in Clients, Admit(c), ~Refuse(c)
    PROVE  AsDefinitions!Next \/ UNCHANGED definitions
<1>0. PICK i : i = Head(todo[c])
  OBVIOUS
<1>1. /\ rows' = rows /\ done' = done /\ todo' = todo /\ ~Frozen(i)
      /\ pc[c] = "write" /\ pc'[c] = "admitted" /\ \A d \in Clients : d # c => pc'[d] = pc[d]
  BY <1>0 DEF Admit, IInv, RecruitmentInv, TypeOK
<1>2. ItemsThere' = ItemsThere
  BY <1>1 DEF ItemsThere
<1>3. \A d \in Clients : d # c => Admitted(d)' = Admitted(d)
  BY <1>1 DEF Admitted
<1>4. Admitted(c)' = Admitted(c) \cup {j \in Items : j = i}
  BY <1>0, <1>1 DEF Admitted
<1>5. Entering' = Entering \cup {j \in Items : j = i /\ j.key \notin rows[j.table]}
  BY <1>1, <1>3, <1>4 DEF Entering
<1>6. CASE i \in Items /\ i \notin ItemsThere \cup Entering
  <2>1. Parent[i] \notin rows.published
    BY <1>1, <1>6 DEF Frozen
  <2>2. Entering' = Entering \cup {i}
    BY <1>5, <1>6 DEF ItemsThere
  <2>3. AsDefinitions!SetOut(i)
    BY <1>1, <1>2, <1>6, <2>1, <2>2 DEF AsDefinitions!SetOut, ItemsThere, Entering
  <2>4. QED
    BY <1>6, <2>3 DEF AsDefinitions!Next
<1>7. CASE i \notin Items \/ i \in ItemsThere \cup Entering
  <2>1. Entering' = Entering
    BY <1>5, <1>7 DEF ItemsThere
  <2>2. QED
    BY <1>1, <1>2, <2>1 DEF definitions
<1>8. QED
  BY <1>6, <1>7

\* A written row is no news: it has set out before.
LEMMA WrittenStep ==
    ASSUME IInv, NEW c \in Clients, pc[c] = "admitted", WriteRow(c, Head(todo[c]))
    PROVE  UNCHANGED definitions
<1>1. /\ rows' = rows /\ done'[c] = done[c] \cup {Head(todo[c])} /\ pc'[c] = "write"
      /\ \A d \in Clients : d # c => done'[d] = done[d] /\ todo'[d] = todo[d] /\ pc'[d] = pc[d]
  BY DEF WriteRow, IInv, RecruitmentInv, TypeOK
<1>2. \A d \in Clients : d # c => Admitted(d)' = Admitted(d)
  BY <1>1 DEF Admitted
<1>3. \A j \in Items : j \in Admitted(c)' <=> j \in Admitted(c)
  BY <1>1 DEF Admitted
<1>4. \A j \in Items : (\E d \in Clients : j \in Admitted(d)') <=> \E d \in Clients : j \in Admitted(d)
  BY <1>2, <1>3
<1>5. Entering' = Entering /\ ItemsThere' = ItemsThere
  BY <1>1, <1>4 DEF Entering, ItemsThere
<1>6. QED
  BY <1>1, <1>5 DEF definitions

\* A request that ends without a commit takes its item back, unless another one is
\* waiting with the same.
LEMMA TurnBackStep ==
    ASSUME IInv, NEW c \in Clients, Refuse(c)
    PROVE  AsDefinitions!Next \/ UNCHANGED definitions
<1>1. /\ rows' = rows /\ pc'[c] = "idle" /\ done'[c] = {}
      /\ \A d \in Clients : d # c => done'[d] = done[d] /\ todo'[d] = todo[d] /\ pc'[d] = pc[d]
  BY EndFits DEF Refuse
<1>2. ItemsThere' = ItemsThere
  BY <1>1 DEF ItemsThere
<1>3. \A d \in Clients : d # c => Admitted(d)' = Admitted(d)
  BY <1>1 DEF Admitted
<1>4. Admitted(c)' = {}
  BY <1>1 DEF Admitted
<1>5. Entering' \subseteq Entering
  BY <1>1, <1>3, <1>4 DEF Entering
<1>6. CASE Entering' = Entering
  BY <1>1, <1>2, <1>6 DEF definitions
<1>7. ASSUME NEW i \in Entering, i \notin Entering'
      PROVE  AsDefinitions!Next
  <2>1. i \in Items /\ i \in Admitted(c)
    BY <1>1, <1>3, <1>7 DEF Entering
  <2>2. Work(c) = {i}
    BY <2>1, AdmittedIsWork, ItemShape DEF IInv, WorkFits
  <2>3. Entering \ {i} \subseteq Entering'
    BY <1>1, <1>3, <2>2, AdmittedIsWork DEF Entering
  <2>4. Entering' = Entering \ {i}
    BY <1>5, <1>7, <2>3
  <2>5. AsDefinitions!TurnBack(i)
    BY <1>1, <1>2, <1>7, <2>4 DEF AsDefinitions!TurnBack, ItemsThere, Entering
  <2>6. QED
    BY <2>1, <2>5 DEF AsDefinitions!Next
<1>8. QED
  BY <1>5, <1>6, <1>7

\* A commit brings an item, a publication, or nothing of either.
LEMMA ArriveStep ==
    ASSUME IInv, NEW c \in Clients, Commit(c)
    PROVE  AsDefinitions!Next \/ UNCHANGED definitions
<1>1. /\ pc[c] = "write" /\ pc'[c] = "idle" /\ done'[c] = {}
      /\ \A d \in Clients : d # c => done'[d] = done[d] /\ todo'[d] = todo[d] /\ pc'[d] = pc[d]
  BY EndFits DEF Commit
<1>2. \A t \in TableNames : \A key : key \in rows'[t] <=> key \in rows[t] \/ Row(t, key) \in done[c]
  BY CommittedRows
<1>3. /\ \A j \in Items : j.key \in rows'[j.table] <=> j.key \in rows[j.table] \/ j \in done[c]
      /\ \A v : v \in rows'.published <=> v \in rows.published \/ Row("published", v) \in done[c]
  BY <1>2, ItemShape DEF TableNames
<1>4. ItemsThere' = ItemsThere \cup {j \in Items : j \in done[c]}
  BY <1>3 DEF ItemsThere
<1>5. \A d \in Clients : d # c => Admitted(d)' = Admitted(d)
  BY <1>1 DEF Admitted
<1>6. Admitted(c)' = {} /\ Admitted(c) = done[c]
  BY <1>1 DEF Admitted
<1>7. Entering' = Entering \ done[c]
  BY <1>3, <1>5, <1>6 DEF Entering
<1>8. ASSUME NEW i \in done[c], i \in Items
      PROVE  AsDefinitions!Next \/ UNCHANGED definitions
  <2>1. done[c] = {i}
    BY <1>8, ItemShape, ItemAlone
  <2>2. Entering' = Entering \ {i}
    BY <1>7, <2>1
  <2>3. ItemsThere' = ItemsThere \cup {i}
    BY <1>4, <1>8, <2>1
  <2>4. rows'.published = rows.published
    <3>1. \A v : Row("published", v) # i
      BY <1>8, ItemShape DEF Row
    <3>2. QED
      BY <1>3, <2>1, <3>1
  <2>5. CASE i \in Entering
    <3>1. AsDefinitions!Arrive(i)
      BY <2>2, <2>3, <2>4, <2>5 DEF AsDefinitions!Arrive, ItemsThere, Entering
    <3>2. QED
      BY <1>8, <3>1 DEF AsDefinitions!Next
  <2>6. CASE i \notin Entering
    <3>1. i \in ItemsThere
      BY <1>6, <1>8, <2>6 DEF Entering, ItemsThere
    <3>2. ItemsThere' = ItemsThere /\ Entering' = Entering
      BY <2>2, <2>3, <2>6, <3>1
    <3>3. QED
      BY <2>4, <3>2 DEF definitions
  <2>7. QED
    BY <2>5, <2>6
<1>9. CASE \A i \in done[c] : i \notin Items
  <2>1. ItemsThere' = ItemsThere /\ Entering' = Entering
    <3>1. Entering \subseteq Items
      BY DEF Entering
    <3>2. QED
      BY <1>4, <1>7, <1>9, <3>1
  <2>2. ASSUME NEW v, Row("published", v) \in done[c]
        PROVE  AsDefinitions!Next
    <3>1. PICK i : i = Row("published", v)
      OBVIOUS
    <3>2. i \in done[c] /\ i.table = "published" /\ i.key = v
      BY <2>2, <3>1 DEF Row
    <3>3. done[c] = {i}
      BY <3>2, ItemAlone
    <3>4. rows'.published = rows.published \cup {v}
      <4>1. \A w : Row("published", w) \in done[c] => w = v
        BY <3>1, <3>3 DEF Row
      <4>2. QED
        BY <1>3, <2>2, <4>1
    <3>5. v \in ReqVersions
      BY <3>2, CommittedRows, ChangeKeys
    <3>6. PICK code \in Codes : TRUE
      BY <3>5 DEF ReqVersions, Requirements, Opportunities, Roles
    <3>7. PICK j : j = Row("criterion", <<v, code>>)
      OBVIOUS
    <3>8. j \in Items /\ j.table = "criterion" /\ j.key[1] = v
      BY <3>5, <3>7 DEF Items, Criteria, Row
    <3>9. Parent[j] = v
      BY <3>8 DEF Parent
    <3>10. AsDefinitions!Freeze(Parent[j])
      BY <2>1, <3>4, <3>9 DEF AsDefinitions!Freeze, ItemsThere, Entering
    <3>11. QED
      BY <3>8, <3>10 DEF AsDefinitions!Next
  <2>3. CASE \A v : Row("published", v) \notin done[c]
    <3>1. rows'.published = rows.published
      BY <1>3, <2>3
    <3>2. QED
      BY <2>1, <3>1 DEF definitions
  <2>4. QED
    BY <2>2, <2>3
<1>10. QED
  BY <1>8, <1>9

\* Criteria and members implement Definitions: none is admitted to a version that is
\* published by then, which the triggers and not the service's check see to; one that
\* has passed them may wait and arrive after the publication; and a published version
\* stays published.
THEOREM DefinitionsRefinement == Spec => FollowsDefinitions
<1>1. Init => AsDefinitions!Init
  <2>1. Init => rows.published = {} /\ \A i \in Items : rows[i.table] = {}
    BY ItemShape DEF Init, TableNames
  <2>2. Init => \A c \in Clients : Admitted(c) = {}
    BY DEF Init, Admitted
  <2>3. QED
    BY <2>1, <2>2 DEF AsDefinitions!Init
<1>2. IInv /\ [Next]_vars => [AsDefinitions!Next]_definitions
  <2> SUFFICES ASSUME IInv, [Next]_vars
               PROVE  AsDefinitions!Next \/ UNCHANGED definitions
    OBVIOUS
  <2>1. ASSUME NEW c \in Clients, Admit(c)
        PROVE  AsDefinitions!Next \/ UNCHANGED definitions
    BY <2>1, SetOutStep, TurnBackStep
  <2>2. ASSUME NEW c \in Clients, Write(c)
        PROVE  AsDefinitions!Next \/ UNCHANGED definitions
    BY <2>2, WrittenStep, TurnBackStep DEF Write
  <2>3. ASSUME NEW c \in Clients, Commit(c)
        PROVE  AsDefinitions!Next \/ UNCHANGED definitions
    BY <2>3, ArriveStep
  <2>4. ASSUME NEW c \in Clients, Refuse(c)
        PROVE  AsDefinitions!Next \/ UNCHANGED definitions
    BY <2>4, TurnBackStep
  <2>5. ASSUME NEW c \in Clients, CompanyRequest(c) \/ OpportunityRequest(c) \/ RequirementRequest(c)
        PROVE  UNCHANGED definitions
    <3>1. PICK work : Begin(c, work)
      BY <2>5 DEF CompanyRequest, OpportunityRequest, RequirementRequest, CreateCompany, UpdateCompany,
         CreateRole, CreateDrive, CreateOpportunity, CloseOpportunity, InitializeRequirement,
         AddCriterion, AddMember, Publish
    <3>2. /\ rows' = rows /\ done' = done /\ pc[c] = "idle" /\ pc'[c] = "write"
          /\ \A d \in Clients : d # c => todo'[d] = todo[d] /\ pc'[d] = pc[d]
      BY <3>1 DEF Begin, IInv, RecruitmentInv, TypeOK
    <3>3. \A d \in Clients : Admitted(d)' = Admitted(d)
      BY <3>2 DEF Admitted
    <3>4. QED
      BY <3>2, <3>3 DEF definitions, ItemsThere, Entering
  <2>6. CASE UNCHANGED vars
    BY <2>6 DEF vars, definitions, ItemsThere, Entering, Admitted
  <2>7. QED
    BY <2>1, <2>2, <2>3, <2>4, <2>5, <2>6 DEF Next
<1>3. QED
  BY Inductive, <1>1, <1>2, PTL
     DEF Spec, FollowsDefinitions, AsDefinitions!Spec, definitions, ItemsThere, Entering
=============================================================================
