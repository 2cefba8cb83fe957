----------------------- MODULE PolicyLifecycleProofs -----------------------
(***************************************************************************)
(* Proofs about PolicyLifecycle, for any clients, versions, policies and   *)
(* days: the history of a version is gapless and ends in its status,       *)
(* approval precedes activation, an archived version has no open days,     *)
(* activations implement a calendar with one version per day, and versions *)
(* with their rules implement Definitions.                                 *)
(***************************************************************************)
EXTENDS PolicyLifecycle, TLAPS

\* A client moves and the tables stay: what is left to show is about that client.
LEMMA MoveStep ==
    ASSUME IInv, NEW c \in Clients, UNCHANGED tables,
           \A d \in Clients : d # c => pc'[d] = pc[d] /\ cmd'[d] = cmd[d],
           TypeOK',
           RequestFits(c)', NumberFits(c)', DaysFit(c)',
           \A d \in Clients \ {c} : Apart(c, d)' /\ Apart(d, c)'
    PROVE  IInv'
<1> USE DEF IInv, PolicyInv, tables
<1>1. UNCHANGED <<status, number, events, rules, activations>>
  OBVIOUS
<1>2. LastEventIsStatus' /\ VersionsAreWhole' /\ NumbersAreGapless' /\ ApprovalPrecedesActivation'
  BY <1>1 DEF LastEventIsStatus, VersionsAreWhole, NumbersAreGapless, ApprovalPrecedesActivation,
     EventNumbers, VersionNumbers, IsGreatest
<1>3. ArchivedIsClosed' /\ DaysAreTakenOnce'
  BY <1>1 DEF ArchivedIsClosed, DaysAreTakenOnce, OpenOf, Overlap
<1>4. \A d \in Clients \ {c} : RequestFits(d)'
  BY <1>1 DEF RequestsAreInOrder, RequestFits, IsTransition
<1>5. \A d \in Clients \ {c} : NumberFits(d)'
  BY <1>1 DEF RequestsAreInOrder, NumberFits, VersionNumbers, EventNumbers, Updating, IsTransition
<1>6. \A d \in Clients \ {c} : DaysFit(d)'
  BY <1>1 DEF RequestsAreInOrder, DaysFit, OpenOf, Overlap, Inserted
<1>7. \A b, d \in Clients \ {c} : b # d => Apart(b, d)'
  BY <1>1 DEF RequestsAreInOrder, Apart, Inserted, SameNumber, Updating, IsTransition, Overlap
<1>8. RequestsAreInOrder'
  BY <1>4, <1>5, <1>6, <1>7 DEF RequestsAreInOrder
<1>9. QED
  BY <1>2, <1>3, <1>8

\* A request that ends without an effect.
LEMMA RefuseStep ==
    ASSUME IInv, NEW c \in Clients, Refuse(c)
    PROVE  IInv'
<1> USE DEF IInv, PolicyInv, Refuse, End
<1>1. \A d \in Clients : d # c => pc'[d] = pc[d] /\ cmd'[d] = cmd[d]
  BY DEF TypeOK
<1>2. pc'[c] = "idle"
  BY DEF TypeOK
<1>3. TypeOK'
  BY DEF TypeOK, Steps, tables
<1>4. RequestFits(c)' /\ NumberFits(c)' /\ DaysFit(c)'
  BY <1>2 DEF RequestFits, NumberFits, DaysFit, Inserted, Updating
<1>5. \A d \in Clients \ {c} : Apart(c, d)' /\ Apart(d, c)'
  BY <1>2 DEF Apart, Inserted, Updating
<1>6. QED
  BY <1>1, <1>3, <1>4, <1>5, MoveStep

\* Numbers are numbers.
LEMMA NumbersAreNumbers ==
    ASSUME TypeOK
    PROVE  /\ \A v \in Versions : EventNumbers(v) \subseteq Nat \ {0}
           /\ \A p \in Policies : VersionNumbers(p) \subseteq Nat
BY DEF TypeOK, EventNumbers, VersionNumbers, Event
-----------------------------------------------------------------------------
\* create_policy_version: the number read is that of a committed version.
LEMMA CreateVersionStep ==
    ASSUME IInv, NEW c \in Clients, NEW v \in Versions, CreateVersion(c, v)
    PROVE  IInv'
<1> USE DEF IInv, PolicyInv, Send, Goto
<1>1. PICK n \in VersionNumbers(PolicyOf[v]) :
         Send(c, "insertVersion", v, "DRAFT", n + 1, Nothing)
  BY DEF CreateVersion
<1>2. \A d \in Clients : d # c => pc'[d] = pc[d] /\ cmd'[d] = cmd[d]
  BY <1>1 DEF TypeOK
<1> DEFINE r == [version |-> v, target |-> "DRAFT", number |-> n + 1, arg |-> Nothing]
<1>3. pc[c] = "idle" /\ pc'[c] = "insertVersion" /\ cmd'[c] = r
  BY <1>1 DEF TypeOK
<1>4. n \in Nat /\ PolicyOf[v] \in Policies
  BY NumbersAreNumbers, PolicyAssumption
<1>5. /\ r \in Request
      /\ r.version = v /\ r.target = "DRAFT" /\ r.number = n + 1 /\ ~IsTransition(r)
  BY <1>4 DEF Request, IsTransition, Status
<1>6. TypeOK'
  BY <1>1, <1>5 DEF TypeOK, Steps, tables
<1> HIDE DEF r
<1>7. UNCHANGED <<status, number, events, rules, activations>>
  BY <1>1 DEF tables
<1>8. RequestFits(c)' /\ DaysFit(c)'
  BY <1>3, <1>5 DEF RequestFits, DaysFit, Inserted, IsTransition
<1>9. NumberFits(c)'
  BY <1>3, <1>4, <1>5, <1>7 DEF NumberFits, VersionNumbers, Updating, CreateVersion
<1>10. \A d \in Clients \ {c} : pc[d] # "idle" => cmd[d].version # v
  BY DEF CreateVersion, RequestsAreInOrder, RequestFits, TypeOK, Steps, IsTransition
<1>11. \A d \in Clients \ {c} : Apart(c, d)' /\ Apart(d, c)'
  BY <1>2, <1>3, <1>5, <1>10 DEF Apart, Inserted, Updating
<1>12. QED
  BY <1>1, <1>2, <1>6, <1>8, <1>9, <1>11, MoveStep

\* The unique key lets one of two equal version numbers through.
LEMMA InsertVersionStep ==
    ASSUME IInv, NEW c \in Clients, InsertVersion(c)
    PROVE  IInv'
<1> USE DEF IInv, PolicyInv, Pass, Goto
<1>1. CASE Refuse(c)
  BY <1>1, RefuseStep
<1>2. CASE /\ cmd[c].number \notin VersionNumbers(PolicyOf[cmd[c].version])
           /\ Pass(c, "insertVersion", "commit")
  <2>1. \A d \in Clients : d # c => pc'[d] = pc[d] /\ cmd'[d] = cmd[d]
    BY <1>2 DEF TypeOK
  <2>2. pc[c] = "insertVersion" /\ pc'[c] = "commit" /\ UNCHANGED cmd
    BY <1>2 DEF TypeOK
  <2>3. UNCHANGED <<status, number, events, rules, activations>>
    BY <1>2 DEF tables
  <2>4. TypeOK'
    BY <1>2, <2>3 DEF TypeOK, Steps
  <2>5. RequestFits(c) /\ NumberFits(c) /\ cmd[c].target = "DRAFT" /\ cmd[c] \in Request
        /\ ~IsTransition(cmd[c])
    BY <2>2 DEF RequestsAreInOrder, RequestFits, IsTransition
  <2>6. RequestFits(c)' /\ DaysFit(c)'
    BY <2>2, <2>3, <2>5 DEF RequestFits, DaysFit, Inserted
  <2>7. NumberFits(c)'
    BY <1>2, <2>2, <2>3, <2>5 DEF NumberFits, VersionNumbers, Updating, IsTransition
  <2>8. \A d \in Clients \ {c} : Apart(c, d) /\ Apart(d, c)
    BY DEF RequestsAreInOrder
  <2>9. \A d \in Clients \ {c} : Inserted(d, "DRAFT") => ~SameNumber(c, d) /\ ~SameNumber(d, c)
    BY DEF InsertVersion, SameNumber
  <2>10. \A d \in Clients \ {c} : Apart(c, d)' /\ Apart(d, c)'
    BY <2>1, <2>2, <2>5, <2>8, <2>9 DEF Apart, Inserted, Updating, SameNumber, IsTransition
  <2>11. QED
    BY <1>2, <2>1, <2>4, <2>6, <2>7, <2>10, MoveStep
<1>3. QED
  BY <1>1, <1>2 DEF InsertVersion

\* add_policy_rule: a rule is for a version that is there.
LEMMA AddRuleStep ==
    ASSUME IInv, NEW c \in Clients, NEW v \in Versions, NEW code \in Codes, AddRule(c, v, code)
    PROVE  IInv'
<1> USE DEF IInv, PolicyInv, Send, Goto, AddRule
<1>1. \A d \in Clients : d # c => pc'[d] = pc[d] /\ cmd'[d] = cmd[d]
  BY DEF TypeOK
<1> DEFINE r == [version |-> v, target |-> "RULE", number |-> 0, arg |-> code]
<1>2. pc[c] = "idle" /\ pc'[c] = "insertRule" /\ cmd'[c] = r
  BY DEF TypeOK
<1>3. /\ r \in Request
      /\ r.version = v /\ r.target = "RULE" /\ r.arg = code /\ ~IsTransition(r)
  BY DEF Request, IsTransition
<1>4. TypeOK'
  BY <1>3 DEF TypeOK, Steps, tables
<1> HIDE DEF r
<1>5. UNCHANGED <<status, number, events, rules, activations>> /\ status[v] # "NONE"
  BY DEF tables
<1>6. RequestFits(c)' /\ DaysFit(c)' /\ NumberFits(c)'
  BY <1>2, <1>3, <1>5 DEF RequestFits, DaysFit, NumberFits, Inserted, Updating
<1>7. \A d \in Clients \ {c} : pc[d] # "idle" /\ cmd[d].target = "DRAFT" => cmd[d].version # v
  BY <1>5 DEF RequestsAreInOrder, NumberFits
<1>8. \A d \in Clients \ {c} : Apart(c, d)' /\ Apart(d, c)'
  BY <1>1, <1>2, <1>3, <1>7 DEF Apart, Inserted, Updating
<1>9. QED
  BY <1>1, <1>4, <1>6, <1>8, MoveStep

\* A request for a rule that goes on keeps its shape.
LEMMA RulePass ==
    ASSUME IInv, NEW c \in Clients, NEW from \in {"insertRule", "admitted"},
           NEW to \in {"admitted", "commit"}, Pass(c, from, to)
    PROVE  IInv'
<1> USE DEF IInv, PolicyInv, Pass, Goto
<1>1. \A d \in Clients : d # c => pc'[d] = pc[d] /\ cmd'[d] = cmd[d]
  BY DEF TypeOK
<1>2. pc[c] = from /\ pc'[c] = to /\ UNCHANGED cmd
  BY DEF TypeOK
<1>3. UNCHANGED <<status, number, events, rules, activations>>
  BY DEF tables
<1>4. TypeOK'
  BY <1>3 DEF TypeOK, Steps
<1>5. RequestFits(c) /\ cmd[c].target = "RULE" /\ ~IsTransition(cmd[c])
  BY <1>2 DEF RequestsAreInOrder, RequestFits, IsTransition
<1>6. RequestFits(c)' /\ DaysFit(c)' /\ NumberFits(c)'
  BY <1>2, <1>3, <1>5 DEF RequestFits, DaysFit, NumberFits, Inserted, Updating, IsTransition
<1>7. \A d \in Clients \ {c} : Apart(c, d) /\ Apart(d, c)
  BY DEF RequestsAreInOrder
<1>8. \A d \in Clients \ {c} : Apart(c, d)' /\ Apart(d, c)'
  BY <1>1, <1>2, <1>5, <1>7 DEF Apart, Inserted, Updating, IsTransition, SameNumber
<1>9. QED
  BY <1>1, <1>4, <1>6, <1>8, MoveStep

\* The trigger on rules lets an insert through or refuses it.
LEMMA AdmitRuleStep ==
    ASSUME IInv, NEW c \in Clients, AdmitRule(c)
    PROVE  IInv'
BY RulePass, RefuseStep DEF AdmitRule

\* The unique code lets the insert of a rule through or refuses it.
LEMMA InsertRuleStep ==
    ASSUME IInv, NEW c \in Clients, InsertRule(c)
    PROVE  IInv'
BY RulePass, RefuseStep DEF InsertRule
-----------------------------------------------------------------------------
\* valid_transitions: nothing becomes a draft, and only what is approved active.
LEMMA TransitionShape ==
    ASSUME NEW from, NEW to, Transition(from, to)
    PROVE  /\ from # "NONE" /\ to # "DRAFT" /\ to # "RULE"
           /\ to = "ACTIVE" => from = "APPROVED"
BY DEF Transition

\* transition_status: a request for what the status that was read allows.
LEMMA RequestTransitionStep ==
    ASSUME IInv, NEW c \in Clients, NEW v \in Versions, NEW target \in Status,
           RequestTransition(c, v, target)
    PROVE  IInv'
<1> USE DEF IInv, PolicyInv, Send, Goto, RequestTransition
<1>1. \A d \in Clients : d # c => pc'[d] = pc[d] /\ cmd'[d] = cmd[d]
  BY DEF TypeOK
<1> DEFINE r == [version |-> v, target |-> target, number |-> 0, arg |-> Nothing]
<1>2. pc[c] = "idle" /\ pc'[c] = "update" /\ cmd'[c] = r
  BY DEF TypeOK
<1>3. status[v] # "NONE" /\ target # "DRAFT" /\ (target = "ACTIVE" => status[v] = "APPROVED")
      /\ target # "RULE"
  BY TransitionShape
<1>4. /\ r \in Request
      /\ r.version = v /\ r.target = target /\ r.arg = Nothing /\ IsTransition(r)
  BY <1>3 DEF Request, IsTransition
<1>5. TypeOK'
  BY <1>4 DEF TypeOK, Steps, tables
<1> HIDE DEF r
<1>6. UNCHANGED <<status, number, events, rules, activations>>
  BY DEF tables
<1>7. RequestFits(c)' /\ NumberFits(c)'
  BY <1>2, <1>3, <1>4, <1>6 DEF RequestFits, NumberFits, Updating, IsTransition
<1>8. DaysFit(c)'
  BY <1>2, <1>3, <1>4, <1>6 DEF DaysFit, Inserted, LastEventIsStatus
<1>9. \A d \in Clients \ {c} : pc[d] # "idle" /\ cmd[d].target = "DRAFT" => cmd[d].version # v
  BY <1>3 DEF RequestsAreInOrder, NumberFits
<1>10. \A d \in Clients \ {c} : Apart(c, d)' /\ Apart(d, c)'
  BY <1>1, <1>2, <1>3, <1>4, <1>9 DEF Apart, Inserted, Updating
<1>11. QED
  BY <1>1, <1>5, <1>7, <1>8, <1>10, MoveStep

\* The row of the version is free when the UPDATE gets it.
LEMMA UpdateStatusStep ==
    ASSUME IInv, NEW c \in Clients, UpdateStatus(c)
    PROVE  IInv'
<1> USE DEF IInv, PolicyInv, Pass, Goto, UpdateStatus
<1>1. \A d \in Clients : d # c => pc'[d] = pc[d] /\ cmd'[d] = cmd[d]
  BY DEF TypeOK
<1>2. pc[c] = "update" /\ pc'[c] = "record" /\ UNCHANGED cmd
  BY DEF TypeOK
<1>3. UNCHANGED <<status, number, events, rules, activations>>
  BY DEF tables
<1>4. TypeOK'
  BY <1>3 DEF TypeOK, Steps
<1>5. RequestFits(c) /\ NumberFits(c) /\ DaysFit(c) /\ IsTransition(cmd[c])
  BY <1>2 DEF RequestsAreInOrder, RequestFits
<1>6. RequestFits(c)' /\ NumberFits(c)' /\ DaysFit(c)'
  BY <1>2, <1>3, <1>5 DEF RequestFits, NumberFits, DaysFit, Updating, Inserted, IsTransition
<1>7. \A d \in Clients \ {c} : Apart(c, d) /\ Apart(d, c)
  BY DEF RequestsAreInOrder
<1>8. \A d \in Clients \ {c} : Apart(c, d)' /\ Apart(d, c)'
  BY <1>1, <1>2, <1>5, <1>7 DEF Apart, Inserted, Updating, IsTransition
<1>9. QED
  BY <1>1, <1>4, <1>6, <1>8, MoveStep

\* The number after the greatest is free while the row is locked.
LEMMA RecordEventStep ==
    ASSUME IInv, NEW c \in Clients, RecordEvent(c)
    PROVE  IInv'
<1> USE DEF IInv, PolicyInv
<1>1. PICK n \in EventNumbers(cmd[c].version) :
         /\ IsGreatest(n, EventNumbers(cmd[c].version))
         /\ cmd' = [cmd EXCEPT ![c].number = n + 1]
  BY DEF RecordEvent
<1>2. \A d \in Clients : d # c => pc'[d] = pc[d] /\ cmd'[d] = cmd[d]
  BY <1>1 DEF TypeOK, RecordEvent, Goto
<1> DEFINE r == [cmd[c] EXCEPT !.number = n + 1]
<1>3. RequestFits(c) /\ DaysFit(c) /\ pc[c] = "record" /\ cmd[c] \in Request /\ IsTransition(cmd[c])
  BY DEF RequestsAreInOrder, RequestFits, RecordEvent, Goto
<1>4. /\ pc'[c] \in {"activate", "close", "commit"} /\ cmd'[c] = r
      /\ pc'[c] = "activate" => cmd[c].target = "ACTIVE"
      /\ pc'[c] = "close" => cmd[c].target = "ARCHIVED"
      /\ pc'[c] = "commit" => cmd[c].target \notin {"ACTIVE", "ARCHIVED"}
  BY <1>1 DEF TypeOK, RecordEvent, Goto
<1>5. UNCHANGED <<status, number, events, rules, activations>>
  BY DEF RecordEvent, tables
<1>6. n \in Nat /\ cmd[c].version \in Versions
  BY <1>3, NumbersAreNumbers DEF Request
<1>7. /\ r \in Request /\ r.version = cmd[c].version /\ r.target = cmd[c].target
      /\ r.number = n + 1 /\ r.arg = cmd[c].arg /\ IsTransition(r)
  BY <1>3, <1>6 DEF Request, IsTransition
<1>8. TypeOK'
  BY <1>1, <1>4, <1>5, <1>7 DEF TypeOK, Steps, RecordEvent, Goto
<1> HIDE DEF r
<1>9. RequestFits(c)'
  BY <1>3, <1>4, <1>5, <1>7 DEF RequestFits, IsTransition
<1>10. NumberFits(c)'
  <2>1. \A m \in EventNumbers(cmd[c].version) : m \in Nat /\ m <= n
    BY <1>1, <1>6, NumbersAreNumbers DEF IsGreatest
  <2>2. \A m \in EventNumbers(cmd[c].version) : m < n + 1
    BY <2>1, <1>6
  <2>3. n \in EventNumbers(cmd[c].version) /\ (n + 1) - 1 = n
    BY <1>1, <1>6
  <2>4. QED
    BY <2>2, <2>3, <1>4, <1>5, <1>7 DEF NumberFits, Updating, EventNumbers, IsTransition
<1>11. DaysFit(c)'
  BY <1>3, <1>4, <1>5, <1>7 DEF DaysFit, Inserted
<1>12. \A d \in Clients \ {c} : Apart(c, d) /\ Apart(d, c)
  BY DEF RequestsAreInOrder
<1>13. \A d \in Clients \ {c} : Apart(c, d)' /\ Apart(d, c)'
  BY <1>2, <1>3, <1>4, <1>7, <1>12 DEF Apart, Inserted, Updating, IsTransition
<1>14. QED
  BY <1>2, <1>5, <1>8, <1>9, <1>10, <1>11, <1>13, MoveStep DEF tables
-----------------------------------------------------------------------------
\* The exclusion constraint lets days through that are free.
LEMMA ActivateStep ==
    ASSUME IInv, NEW c \in Clients, NEW new \in Interval, Activate(c, new)
    PROVE  IInv'
<1> USE DEF IInv, PolicyInv, Goto
<1>1. CASE Refuse(c)
  BY <1>1, RefuseStep
<1>2. CASE /\ ~ \E x \in activations : Overlap(new, x.days)
           /\ Goto(c, "activate", "commit")
           /\ cmd' = [cmd EXCEPT ![c].arg = new]
           /\ UNCHANGED tables
  <2> DEFINE r == [cmd[c] EXCEPT !.arg = new]
  <2>1. \A d \in Clients : d # c => pc'[d] = pc[d] /\ cmd'[d] = cmd[d]
    BY <1>2 DEF TypeOK
  <2>2. pc[c] = "activate" /\ pc'[c] = "commit" /\ cmd'[c] = r
    BY <1>2 DEF TypeOK
  <2>3. UNCHANGED <<status, number, events, rules, activations>>
    BY <1>2 DEF tables
  <2>4. RequestFits(c) /\ NumberFits(c) /\ DaysFit(c) /\ cmd[c].target = "ACTIVE" /\ cmd[c] \in Request
    BY <2>2 DEF RequestsAreInOrder, RequestFits
  <2>5. /\ r \in Request /\ r.version = cmd[c].version /\ r.target = "ACTIVE"
        /\ r.number = cmd[c].number /\ r.arg = new /\ IsTransition(r) /\ IsTransition(cmd[c])
    BY <2>4 DEF Request, IsTransition
  <2>6. TypeOK'
    BY <1>2, <2>3, <2>5 DEF TypeOK, Steps
  <2> HIDE DEF r
  <2>7. RequestFits(c)' /\ NumberFits(c)'
    BY <2>2, <2>3, <2>4, <2>5 DEF RequestFits, NumberFits, Updating, EventNumbers
  <2>8. DaysFit(c)'
    BY <1>2, <2>2, <2>3, <2>4, <2>5 DEF DaysFit, Inserted
  <2>9. \A d \in Clients \ {c} : Apart(c, d) /\ Apart(d, c)
    BY DEF RequestsAreInOrder
  <2>10. \A d \in Clients \ {c} : Inserted(d, "ACTIVE") =>
            ~Overlap(new, cmd[d].arg) /\ ~Overlap(cmd[d].arg, new)
    BY DEF Activate, Overlap
  <2>11. \A d \in Clients \ {c} : Apart(c, d)' /\ Apart(d, c)'
    BY <2>1, <2>2, <2>4, <2>5, <2>9, <2>10 DEF Apart, Inserted, Updating
  <2>12. QED
    BY <1>2, <2>1, <2>6, <2>7, <2>8, <2>11, MoveStep
<1>3. QED
  BY <1>1, <1>2 DEF Activate

\* The open activation is found, or there is none.
LEMMA CloseStep ==
    ASSUME IInv, NEW c \in Clients, Close(c)
    PROVE  IInv'
<1> USE DEF IInv, PolicyInv, Goto
<1>1. CASE Refuse(c)
  BY <1>1, RefuseStep
<1> DEFINE fits(arg) ==
       \/ arg = Nothing /\ OpenOf(cmd[c].version) = {}
       \/ \E x \in OpenOf(cmd[c].version) :
             arg \in Interval /\ arg.from = x.days.from /\ arg.until \in Days
<1>2. ASSUME NEW r \in Request, pc[c] = "close", pc' = [pc EXCEPT ![c] = "commit"],
             cmd' = [cmd EXCEPT ![c] = r], UNCHANGED tables,
             r.version = cmd[c].version, r.target = cmd[c].target, r.number = cmd[c].number,
             fits(r.arg)
      PROVE  IInv'
  <2>1. \A d \in Clients : d # c => pc'[d] = pc[d] /\ cmd'[d] = cmd[d]
    BY <1>2 DEF TypeOK
  <2>2. pc[c] = "close" /\ pc'[c] = "commit" /\ cmd'[c] = r
    BY <1>2 DEF TypeOK
  <2>3. UNCHANGED <<status, number, events, rules, activations>>
    BY <1>2 DEF tables
  <2>4. RequestFits(c) /\ NumberFits(c) /\ DaysFit(c) /\ cmd[c].target = "ARCHIVED"
        /\ IsTransition(cmd[c]) /\ IsTransition(r)
    BY <1>2, <2>2 DEF RequestsAreInOrder, RequestFits, IsTransition
  <2>5. TypeOK'
    BY <1>2, <2>3 DEF TypeOK, Steps
  <2>6. RequestFits(c)' /\ NumberFits(c)'
    BY <1>2, <2>2, <2>3, <2>4 DEF RequestFits, NumberFits, Updating, EventNumbers
  <2>7. DaysFit(c)'
    BY <1>2, <2>2, <2>3, <2>4 DEF DaysFit, Inserted, OpenOf
  <2>8. \A d \in Clients \ {c} : Apart(c, d) /\ Apart(d, c)
    BY DEF RequestsAreInOrder
  <2>9. \A d \in Clients \ {c} : Apart(c, d)' /\ Apart(d, c)'
    BY <1>2, <2>1, <2>2, <2>4, <2>8 DEF Apart, Inserted, Updating
  <2>10. QED
    BY <1>2, <2>1, <2>5, <2>6, <2>7, <2>9, MoveStep
<1> HIDE DEF fits
<1>3. CASE OpenOf(cmd[c].version) = {} /\ Pass(c, "close", "commit")
  <2>1. cmd[c] \in Request /\ cmd[c].arg = Nothing /\ cmd' = [cmd EXCEPT ![c] = cmd[c]]
    BY <1>3 DEF Pass, RequestsAreInOrder, RequestFits, TypeOK
  <2>2. fits(cmd[c].arg)
    BY <1>3, <2>1 DEF fits
  <2>3. QED
    BY <1>2, <1>3, <2>1, <2>2 DEF Pass
<1>4. ASSUME NEW x \in OpenOf(cmd[c].version), NEW now \in Days, x.days.from < now,
             Goto(c, "close", "commit"),
             cmd' = [cmd EXCEPT ![c].arg = [from |-> x.days.from, until |-> now]],
             UNCHANGED tables
      PROVE  IInv'
  <2> DEFINE arg == [from |-> x.days.from, until |-> now]
             r == [cmd[c] EXCEPT !.arg = arg]
  <2>1. cmd[c] \in Request /\ cmd' = [cmd EXCEPT ![c] = r]
    BY <1>4 DEF RequestsAreInOrder, RequestFits, TypeOK
  <2>2. x \in Activation
    BY DEF OpenOf, TypeOK
  <2>3. arg \in Interval /\ arg.from = x.days.from /\ arg.until \in Days
    BY <1>4, <2>2 DEF Activation, Interval
  <2>4. fits(arg)
    BY <2>3 DEF fits
  <2> HIDE DEF arg
  <2>5. /\ r \in Request /\ r.version = cmd[c].version /\ r.target = cmd[c].target
        /\ r.number = cmd[c].number /\ r.arg = arg
    BY <2>1, <2>3 DEF Request
  <2> HIDE DEF r
  <2>6. QED
    BY <1>2, <1>4, <2>1, <2>4, <2>5
<1>5. QED
  BY <1>1, <1>3, <1>4 DEF Close
-----------------------------------------------------------------------------
\* The first event of a version that nobody else works on.
LEMMA CommitVersionStep ==
    ASSUME IInv, NEW c \in Clients, CommitVersion(c)
    PROVE  IInv'
<1> USE DEF IInv, PolicyInv
<1>1. \A d \in Clients : d # c => pc'[d] = pc[d] /\ cmd'[d] = cmd[d]
  BY DEF TypeOK, CommitVersion, End
<1>2. pc[c] = "commit" /\ pc'[c] = "idle" /\ cmd[c] \in Request /\ cmd[c].target = "DRAFT"
  BY DEF TypeOK, CommitVersion, End, RequestsAreInOrder, RequestFits
<1>3. PICK v \in Versions, n \in Nat, p \in Policies :
         v = cmd[c].version /\ n = cmd[c].number /\ p = PolicyOf[v]
  BY <1>2, PolicyAssumption DEF Request
<1>4. status[v] = "NONE" /\ n > 0 /\ n - 1 \in VersionNumbers(p)
      /\ n \notin VersionNumbers(p) /\ number[v] = 0
  BY <1>2, <1>3 DEF RequestsAreInOrder, NumberFits, VersionsAreWhole
<1>5. PICK e0 \in Event : /\ e0.version = v /\ e0.number = 1 /\ e0.status = "DRAFT"
                          /\ events' = events \cup {e0}
  <2> DEFINE e == [version |-> v, number |-> 1, status |-> "DRAFT"]
  <2>1. e \in Event /\ e.version = v /\ e.number = 1 /\ e.status = "DRAFT"
    BY DEF Event, Status
  <2>2. events' = events \cup {e}
    BY <1>3 DEF CommitVersion
  <2>3. QED
    BY <2>1, <2>2
<1>6. /\ status'[v] = "DRAFT" /\ number'[v] = n
      /\ \A u \in Versions : u # v => status'[u] = status[u] /\ number'[u] = number[u]
      /\ UNCHANGED <<rules, activations>>
  BY <1>3 DEF TypeOK, CommitVersion
<1>7. \A e \in events : e.version # v /\ e \in Event
  BY <1>4 DEF VersionsAreWhole, TypeOK
<1>8. TypeOK'
  BY <1>3, <1>5 DEF TypeOK, CommitVersion, End, Steps, Status
<1>9. EventNumbers(v)' = {1} /\ \A u \in Versions : u # v => EventNumbers(u)' = EventNumbers(u)
  BY <1>5, <1>7 DEF EventNumbers
<1>10. VersionNumbers(p)' = VersionNumbers(p) \cup {n}
       /\ \A q \in Policies : q # p => VersionNumbers(q)' = VersionNumbers(q)
  BY <1>3, <1>4, <1>6 DEF VersionNumbers
<1>11. LastEventIsStatus'
  BY <1>5, <1>6, <1>9 DEF LastEventIsStatus, IsGreatest
<1>12. VersionsAreWhole'
  BY <1>4, <1>5, <1>6, <1>7 DEF VersionsAreWhole, Event
<1>13. NumbersAreGapless'
  <2>1. \A d, e \in events' : d.version = e.version /\ d.number = e.number => d = e
    BY <1>5, <1>7 DEF NumbersAreGapless
  <2>2. \A e \in events' : e.number > 1 => e.number - 1 \in EventNumbers(e.version)'
    BY <1>5, <1>7, <1>9 DEF NumbersAreGapless, Event
  <2>3. \A u, w \in Versions :
           PolicyOf[u] = PolicyOf[w] /\ number'[u] = number'[w] /\ number'[u] # 0 => u = w
    BY <1>3, <1>4, <1>6 DEF NumbersAreGapless, VersionNumbers
  <2>4. \A u \in Versions : number'[u] > 1 => number'[u] - 1 \in VersionNumbers(PolicyOf[u])'
    BY <1>3, <1>4, <1>6, <1>10, PolicyAssumption DEF NumbersAreGapless
  <2>5. QED
    BY <2>1, <2>2, <2>3, <2>4 DEF NumbersAreGapless
<1>14. ApprovalPrecedesActivation'
  BY <1>5, <1>6 DEF ApprovalPrecedesActivation
<1>15. ArchivedIsClosed' /\ DaysAreTakenOnce'
  BY <1>6 DEF ArchivedIsClosed, DaysAreTakenOnce, OpenOf, Overlap
<1>16. \A d \in Clients \ {c} : Apart(c, d) /\ Apart(d, c)
  BY DEF RequestsAreInOrder
<1>17. \A d \in Clients \ {c} : pc[d] # "idle" => cmd[d].version # v /\ cmd[d].version \in Versions
  BY <1>2, <1>3, <1>16 DEF Apart, RequestsAreInOrder, RequestFits, Request
<1>18. \A d \in Clients \ {c} : RequestFits(d)'
  BY <1>1, <1>6, <1>17 DEF RequestsAreInOrder, RequestFits, IsTransition
<1>19. \A d \in Clients \ {c} : NumberFits(d)'
  <2> SUFFICES ASSUME NEW d \in Clients \ {c} PROVE NumberFits(d)'
    OBVIOUS
  <2>1. NumberFits(d) /\ pc'[d] = pc[d] /\ cmd'[d] = cmd[d]
    BY <1>1 DEF RequestsAreInOrder
  <2>2. ASSUME pc[d] # "idle", cmd[d].target = "DRAFT"
        PROVE  LET used == VersionNumbers(PolicyOf[cmd[d].version])' IN
               /\ status'[cmd[d].version] = "NONE"
               /\ cmd[d].number > 0 /\ cmd[d].number - 1 \in used
               /\ pc[d] = "commit" => cmd[d].number \notin used
    <3>1. PolicyOf[cmd[d].version] \in Policies
      BY <1>17, <2>2, PolicyAssumption
    <3>2. pc[d] = "commit" /\ PolicyOf[cmd[d].version] = p => cmd[d].number # n
      BY <1>2, <1>3, <1>16, <2>2 DEF Apart, Inserted, SameNumber
    <3>3. QED
      BY <1>6, <1>10, <1>17, <2>1, <2>2, <3>1, <3>2 DEF NumberFits
  <2>3. \A u \in Versions : Updating(d, u) => u # v
    BY <1>17 DEF Updating
  <2>4. QED
    BY <1>1, <1>9, <2>1, <2>2, <2>3 DEF NumberFits, Updating, IsTransition
<1>20. \A d \in Clients \ {c} : DaysFit(d)'
  BY <1>1, <1>5, <1>6 DEF RequestsAreInOrder, DaysFit, OpenOf, Overlap, Inserted
<1>21. RequestFits(c)' /\ NumberFits(c)' /\ DaysFit(c)'
  BY <1>2 DEF RequestFits, NumberFits, DaysFit, Inserted, Updating
<1>22. \A b \in Clients : \A d \in Clients \ {b} : Apart(b, d)'
  BY <1>1, <1>2 DEF RequestsAreInOrder, Apart, Inserted, SameNumber, Updating, IsTransition, Overlap
<1>23. RequestsAreInOrder'
  BY <1>18, <1>19, <1>20, <1>21, <1>22 DEF RequestsAreInOrder
<1>24. QED
  BY <1>8, <1>11, <1>12, <1>13, <1>14, <1>15, <1>23

\* Rules count for nothing else.
LEMMA CommitRuleStep ==
    ASSUME IInv, NEW c \in Clients, CommitRule(c)
    PROVE  IInv'
<1> USE DEF IInv, PolicyInv, CommitRule, End
<1>1. \A d \in Clients : d # c => pc'[d] = pc[d] /\ cmd'[d] = cmd[d]
  BY DEF TypeOK
<1>2. pc'[c] = "idle" /\ UNCHANGED <<status, number, events, activations>>
  BY DEF TypeOK
<1>3. TypeOK'
  BY DEF TypeOK, Steps, RequestsAreInOrder, RequestFits, Request, Rule, RuleOf
<1>4. LastEventIsStatus' /\ VersionsAreWhole' /\ NumbersAreGapless' /\ ApprovalPrecedesActivation'
  BY <1>2 DEF LastEventIsStatus, VersionsAreWhole, NumbersAreGapless, ApprovalPrecedesActivation,
     EventNumbers, VersionNumbers, IsGreatest
<1>5. ArchivedIsClosed' /\ DaysAreTakenOnce'
  BY <1>2 DEF ArchivedIsClosed, DaysAreTakenOnce, OpenOf, Overlap
<1>6. \A d \in Clients : RequestFits(d)'
  BY <1>1, <1>2 DEF RequestsAreInOrder, RequestFits, IsTransition
<1>7. \A d \in Clients : NumberFits(d)'
  BY <1>1, <1>2 DEF RequestsAreInOrder, NumberFits, VersionNumbers, EventNumbers, Updating, IsTransition
<1>8. \A d \in Clients : DaysFit(d)'
  BY <1>1, <1>2 DEF RequestsAreInOrder, DaysFit, OpenOf, Overlap, Inserted
<1>9. \A b \in Clients : \A d \in Clients \ {b} : Apart(b, d)'
  BY <1>1, <1>2 DEF RequestsAreInOrder, Apart, Inserted, SameNumber, Updating, IsTransition, Overlap
<1>10. QED
  BY <1>3, <1>4, <1>5, <1>6, <1>7, <1>8, <1>9 DEF RequestsAreInOrder
-----------------------------------------------------------------------------
\* Intervals have days; overlapping is symmetric; a part overlaps only what the whole does.
LEMMA Intervals ==
    /\ \A i \in Interval : i.from \in Days /\ i.from \in Nat /\ i.until \in Nat
                           /\ i.from < i.until /\ i.until <= Never /\ Overlap(i, i)
    /\ \A i, j \in Interval : Overlap(i, j) <=> Overlap(j, i)
    /\ \A i, j, part \in Interval :
          part.from = i.from /\ part.until <= i.until /\ ~Overlap(j, i) => ~Overlap(j, part)
<1>1. \A i \in Interval : i.from \in Days /\ i.until \in Days \cup {Never} /\ i.from < i.until
  BY DEF Interval
<1>2. \A i \in Interval : i.from \in Nat /\ i.until \in Nat /\ i.until <= Never
  <2>1. \A d \in Days : d \in Nat /\ d <= Never
    BY PolicyAssumption
  <2>2. Never \in Nat /\ Never <= Never
    BY PolicyAssumption
  <2>3. QED
    BY <1>1, <2>1, <2>2
<1>3. \A i, j \in Interval : Overlap(i, j) <=> Overlap(j, i)
  BY DEF Overlap
<1>4. \A i, j, part \in Interval :
         part.from = i.from /\ part.until <= i.until /\ ~Overlap(j, i) => ~Overlap(j, part)
  BY <1>2 DEF Overlap
<1>5. \A i \in Interval : Overlap(i, i)
  BY <1>1 DEF Overlap
<1>6. QED
  BY <1>1, <1>2, <1>3, <1>4, <1>5

\* What the commit of a transition does to the calendar: it takes free days, shortens
\* the open activation of its version, or leaves it alone.
LEMMA CommitOfDays ==
    ASSUME IInv, NEW c \in Clients, NEW v \in Versions, CommitTransition(c), v = cmd[c].version
    PROVE  \/ /\ UNCHANGED activations
              /\ cmd[c].target # "ACTIVE" /\ (cmd[c].target = "ARCHIVED" => OpenOf(v) = {})
           \/ /\ cmd[c].target = "ACTIVE"
              /\ \E y \in Activation :
                    /\ y.version = v /\ y.days = cmd[c].arg
                    /\ \A x \in activations : ~Overlap(y.days, x.days)
                    /\ activations' = activations \cup {y}
           \/ /\ cmd[c].target = "ARCHIVED"
              /\ \E y \in Activation, x \in OpenOf(v) :
                    /\ y.version = v
                    /\ y.days.from = x.days.from /\ y.days.until \in Days
                    /\ activations' = (activations \ OpenOf(v)) \cup {y}
<1> DEFINE y == [version |-> v, days |-> cmd[c].arg]
<1>1. DaysFit(c) /\ pc[c] = "commit" /\ activations' = ActivationsAfter(cmd[c])
  BY DEF IInv, RequestsAreInOrder, CommitTransition
<1>2. Nothing \notin Interval
  BY PolicyAssumption DEF Interval
<1>3. CASE cmd[c].target = "ACTIVE"
  <2>1. cmd[c].arg \in Interval /\ \A x \in activations : ~Overlap(cmd[c].arg, x.days)
    BY <1>1, <1>3 DEF DaysFit, Inserted
  <2>2. y \in Activation /\ y.version = v /\ y.days = cmd[c].arg
    BY <2>1 DEF Activation
  <2>3. activations' = activations \cup {y}
    BY <1>1, <1>3 DEF ActivationsAfter
  <2> HIDE DEF y
  <2>4. QED
    BY <1>3, <2>1, <2>2, <2>3
<1>4. CASE cmd[c].target = "ARCHIVED" /\ cmd[c].arg # Nothing
  <2>1. PICK x \in OpenOf(v) : /\ cmd[c].arg \in Interval
                               /\ cmd[c].arg.from = x.days.from /\ cmd[c].arg.until \in Days
    BY <1>1, <1>4 DEF DaysFit, Inserted
  <2>2. y \in Activation /\ y.version = v /\ y.days = cmd[c].arg
    BY <2>1 DEF Activation
  <2>3. activations' = (activations \ OpenOf(v)) \cup {y}
    BY <1>1, <1>4 DEF ActivationsAfter
  <2> HIDE DEF y
  <2>4. QED
    BY <1>4, <2>1, <2>2, <2>3
<1>5. CASE cmd[c].target = "ARCHIVED" /\ cmd[c].arg = Nothing
  BY <1>1, <1>2, <1>5 DEF DaysFit, Inserted, ActivationsAfter
<1>6. CASE cmd[c].target \notin {"ACTIVE", "ARCHIVED"}
  BY <1>1, <1>6 DEF ActivationsAfter
<1>7. QED
  BY <1>3, <1>4, <1>5, <1>6

\* After it, the days are still taken once, an archived version has no open activation,
\* and only activations of its version have changed.
LEMMA DaysAfterCommit ==
    ASSUME IInv, NEW c \in Clients, NEW v \in Versions, CommitTransition(c), v = cmd[c].version
    PROVE  /\ activations' \subseteq Activation /\ DaysAreTakenOnce'
           /\ cmd[c].target = "ARCHIVED" => OpenOf(v)' = {}
           /\ \A u \in Versions : u # v => OpenOf(u)' = OpenOf(u)
           /\ \A y \in activations' :
                 \/ y \in activations
                 \/ /\ y.version = v /\ cmd[c].target = "ACTIVE" /\ y.days = cmd[c].arg
                 \/ /\ y.version = v
                    /\ \E x \in activations :
                          /\ x.version = v
                          /\ y.days.from = x.days.from /\ y.days.until <= x.days.until
<1> USE DEF IInv, PolicyInv
<1>1. /\ activations \subseteq Activation
      /\ \A x \in Activation : x.version \in Versions /\ x.days \in Interval
  BY DEF TypeOK, Activation
<1>2. CASE /\ UNCHANGED activations
           /\ cmd[c].target # "ACTIVE" /\ (cmd[c].target = "ARCHIVED" => OpenOf(v) = {})
  BY <1>1, <1>2 DEF DaysAreTakenOnce, OpenOf, Overlap
<1>3. ASSUME cmd[c].target = "ACTIVE", NEW y \in Activation,
             y.version = v, y.days = cmd[c].arg,
             \A x \in activations : ~Overlap(y.days, x.days),
             activations' = activations \cup {y}
      PROVE  /\ activations' \subseteq Activation /\ DaysAreTakenOnce'
             /\ \A u \in Versions : u # v => OpenOf(u)' = OpenOf(u)
  <2>1. \A x \in activations : ~Overlap(x.days, y.days)
    BY <1>1, <1>3, Intervals
  <2>2. \A a, b \in activations' : a # b => ~Overlap(a.days, b.days)
    BY <1>3, <2>1 DEF DaysAreTakenOnce
  <2>3. QED
    BY <1>1, <1>3, <2>2 DEF DaysAreTakenOnce, OpenOf, Overlap
<1>4. ASSUME NEW y \in Activation, NEW x \in OpenOf(v),
             y.version = v, y.days.from = x.days.from, y.days.until \in Days,
             activations' = (activations \ OpenOf(v)) \cup {y}
      PROVE  /\ activations' \subseteq Activation /\ DaysAreTakenOnce'
             /\ OpenOf(v)' = {}
             /\ \A u \in Versions : u # v => OpenOf(u)' = OpenOf(u)
             /\ x \in activations /\ x.version = v /\ y.days.until <= x.days.until
  <2>1. x \in activations /\ x.version = v /\ x.days.until = Never
    BY DEF OpenOf
  <2>2. y.days.until < Never /\ y.days.until <= x.days.until
    BY <1>1, <1>4, <2>1, PolicyAssumption, Intervals
  <2>3. \A a \in activations : a # x => ~Overlap(a.days, y.days) /\ ~Overlap(y.days, a.days)
    BY <1>1, <1>4, <2>1, <2>2, Intervals DEF DaysAreTakenOnce
  <2>4. \A a \in activations' : a # y => a \in activations /\ a # x
    BY <1>4
  <2>5. \A a, b \in activations' : a # b => ~Overlap(a.days, b.days)
    BY <2>3, <2>4 DEF DaysAreTakenOnce
  <2>6. OpenOf(v)' = {}
    BY <1>4, <2>2, PolicyAssumption DEF OpenOf
  <2>7. \A u \in Versions : u # v => OpenOf(u)' = OpenOf(u)
    BY <1>4 DEF OpenOf
  <2>8. QED
    BY <1>1, <1>4, <2>1, <2>2, <2>5, <2>6, <2>7 DEF DaysAreTakenOnce, Overlap
<1>5. QED
  BY <1>2, <1>3, <1>4, CommitOfDays

\* The transition is committed: the version gets the status and the next event.
LEMMA CommitTransitionStep ==
    ASSUME IInv, NEW c \in Clients, CommitTransition(c)
    PROVE  IInv'
<1> USE DEF IInv, PolicyInv
<1>1. \A d \in Clients : d # c => pc'[d] = pc[d] /\ cmd'[d] = cmd[d]
  BY DEF TypeOK, CommitTransition, End
<1>2. pc[c] = "commit" /\ pc'[c] = "idle" /\ cmd[c] \in Request /\ IsTransition(cmd[c])
      /\ RequestFits(c) /\ NumberFits(c) /\ DaysFit(c)
  BY DEF TypeOK, CommitTransition, End, RequestsAreInOrder, RequestFits
<1>3. PICK v \in Versions, n \in Nat, target \in Status :
         v = cmd[c].version /\ n = cmd[c].number /\ target = cmd[c].target
  BY <1>2 DEF Request, IsTransition
<1>4. status[v] # "NONE" /\ Updating(c, v)
      /\ n - 1 \in EventNumbers(v) /\ \A m \in EventNumbers(v) : m < n /\ m \in Nat \ {0}
  BY <1>2, <1>3, NumbersAreNumbers DEF RequestFits, NumberFits, Updating, IsTransition
<1>5. n \in Nat \ {0} /\ n > 1
  BY <1>3, <1>4
<1>6. PICK e0 \in Event : /\ e0.version = v /\ e0.number = n /\ e0.status = target
                          /\ events' = events \cup {e0}
  <2> DEFINE e == [version |-> v, number |-> n, status |-> target]
  <2>1. e \in Event /\ e.version = v /\ e.number = n /\ e.status = target
    BY <1>5 DEF Event
  <2>2. events' = events \cup {e}
    BY <1>3 DEF CommitTransition
  <2>3. QED
    BY <2>1, <2>2
<1>7. /\ status'[v] = target /\ \A u \in Versions : u # v => status'[u] = status[u]
      /\ target # "NONE" /\ UNCHANGED <<number, rules>>
  BY <1>3 DEF TypeOK, CommitTransition, Status
<1>8. /\ activations' \subseteq Activation /\ DaysAreTakenOnce'
      /\ target = "ARCHIVED" => OpenOf(v)' = {}
      /\ \A u \in Versions : u # v => OpenOf(u)' = OpenOf(u)
      /\ \A y \in activations' :
            \/ y \in activations
            \/ /\ y.version = v /\ target = "ACTIVE" /\ y.days = cmd[c].arg
            \/ /\ y.version = v
               /\ \E x \in activations :
                     /\ x.version = v
                     /\ y.days.from = x.days.from /\ y.days.until <= x.days.until
  BY <1>3, DaysAfterCommit
<1>9. TypeOK'
  BY <1>3, <1>6, <1>8 DEF TypeOK, CommitTransition, End, Steps
<1>10. EventNumbers(v)' = EventNumbers(v) \cup {n}
       /\ \A u \in Versions : u # v => EventNumbers(u)' = EventNumbers(u)
  BY <1>6 DEF EventNumbers
<1>11. LastEventIsStatus'
  <2>1. IsGreatest(n, EventNumbers(v))'
    BY <1>4, <1>5, <1>10 DEF IsGreatest
  <2>2. QED
    BY <1>6, <1>7, <1>10, <2>1 DEF LastEventIsStatus, IsGreatest
<1>12. VersionsAreWhole'
  BY <1>4, <1>6, <1>7 DEF VersionsAreWhole, TypeOK, Event
<1>13. NumbersAreGapless'
  <2>1. \A e \in events : e.version = v => e.number \in EventNumbers(v)
    BY DEF EventNumbers
  <2>2. \A d, e \in events' : d.version = e.version /\ d.number = e.number => d = e
    BY <1>4, <1>6, <2>1 DEF NumbersAreGapless
  <2>3. \A e \in events' : e.number > 1 => e.number - 1 \in EventNumbers(e.version)'
    BY <1>4, <1>6, <1>10 DEF NumbersAreGapless, TypeOK, Event
  <2>4. QED
    BY <2>2, <2>3, <1>7 DEF NumbersAreGapless, VersionNumbers
<1>14. ApprovalPrecedesActivation'
  <2>1. \A e \in events' : e.status = "ACTIVE" =>
           \E d \in events' : d.version = e.version /\ d.number < e.number /\ d.status = "APPROVED"
    <3>1. target = "ACTIVE" => \E d \in events : d.version = v /\ d.status = "APPROVED" /\ d.number < n
      BY <1>2, <1>3, <1>4 DEF DaysFit, EventNumbers
    <3>2. QED
      BY <3>1, <1>6 DEF ApprovalPrecedesActivation
  <2>2. \A x \in activations' : \E e \in events' : e.version = x.version /\ e.status = "ACTIVE"
    BY <1>6, <1>8 DEF ApprovalPrecedesActivation
  <2>3. QED
    BY <2>1, <2>2 DEF ApprovalPrecedesActivation
<1>15. ArchivedIsClosed'
  BY <1>7, <1>8 DEF ArchivedIsClosed
<1>16. \A d \in Clients \ {c} : Apart(c, d) /\ Apart(d, c)
  BY DEF RequestsAreInOrder
<1>17. \A d \in Clients \ {c} : RequestFits(d)'
  BY <1>1, <1>7 DEF RequestsAreInOrder, RequestFits, IsTransition, Request
<1>18. \A d \in Clients \ {c} : NumberFits(d)'
  <2> SUFFICES ASSUME NEW d \in Clients \ {c} PROVE NumberFits(d)'
    OBVIOUS
  <2>1. NumberFits(d) /\ Apart(c, d)
    BY <1>16 DEF RequestsAreInOrder
  <2>2. pc[d] # "idle" /\ cmd[d].target = "DRAFT" => cmd[d].version # v /\ cmd[d].version \in Versions
    BY <1>4, <2>1 DEF NumberFits, RequestsAreInOrder, RequestFits, Request
  <2>3. \A u \in Versions : Updating(d, u) => u # v
    BY <1>4, <2>1 DEF Apart
  <2>4. QED
    BY <1>1, <1>7, <1>10, <2>1, <2>2, <2>3 DEF NumberFits, VersionNumbers, Updating, IsTransition
<1>19. \A d \in Clients \ {c} : DaysFit(d)'
  <2> SUFFICES ASSUME NEW d \in Clients \ {c} PROVE DaysFit(d)'
    OBVIOUS
  <2>1. DaysFit(d) /\ Apart(c, d) /\ Apart(d, c) /\ pc'[d] = pc[d] /\ cmd'[d] = cmd[d]
    BY <1>1, <1>16 DEF RequestsAreInOrder
  <2>2. pc[d] # "idle" /\ cmd[d].target = "ACTIVE" =>
           \E e \in events' : e.version = cmd[d].version /\ e.status = "APPROVED"
    BY <1>6, <2>1 DEF DaysFit
  <2>3. ASSUME Inserted(d, "ACTIVE"), NEW y \in activations'
        PROVE  ~Overlap(cmd[d].arg, y.days)
    <3>1. cmd[d].arg \in Interval /\ \A x \in activations : ~Overlap(cmd[d].arg, x.days)
      BY <2>1, <2>3 DEF DaysFit
    <3>2. y.days \in Interval /\ \A x \in activations : x.days \in Interval
      BY <1>8 DEF TypeOK, Activation
    <3>3. target = "ACTIVE" => ~Overlap(cmd[d].arg, cmd[c].arg)
      BY <1>2, <1>3, <2>1, <2>3 DEF Apart, Inserted
    <3>4. QED
      BY <1>8, <3>1, <3>2, <3>3, Intervals
  <2>4. Inserted(d, "ARCHIVED") => cmd[d].version # v /\ cmd[d].version \in Versions
    BY <1>4, <2>1 DEF Inserted, Apart, Updating, IsTransition, RequestsAreInOrder, RequestFits, Request
  <2>5. QED
    BY <1>8, <2>1, <2>2, <2>3, <2>4 DEF DaysFit, Inserted, Overlap
<1>20. RequestFits(c)' /\ NumberFits(c)' /\ DaysFit(c)'
  BY <1>2 DEF RequestFits, NumberFits, DaysFit, Inserted, Updating
<1>21. \A b \in Clients : \A d \in Clients \ {b} : Apart(b, d)'
  BY <1>1, <1>2 DEF RequestsAreInOrder, Apart, Inserted, SameNumber, Updating, IsTransition, Overlap
<1>22. RequestsAreInOrder'
  BY <1>17, <1>18, <1>19, <1>20, <1>21 DEF RequestsAreInOrder
<1>23. QED
  BY <1>8, <1>9, <1>11, <1>12, <1>13, <1>14, <1>15, <1>22
-----------------------------------------------------------------------------
\* The invariant holds of the empty tables.
LEMMA InitIInv == Init => IInv
<1> SUFFICES ASSUME Init PROVE IInv
  OBVIOUS
<1>1. TypeOK
  BY DEF Init, TypeOK, Steps
<1>2. LastEventIsStatus /\ VersionsAreWhole /\ NumbersAreGapless /\ ApprovalPrecedesActivation
  BY DEF Init, LastEventIsStatus, VersionsAreWhole, NumbersAreGapless, ApprovalPrecedesActivation
<1>3. ArchivedIsClosed /\ DaysAreTakenOnce
  BY DEF Init, ArchivedIsClosed, DaysAreTakenOnce
<1>4. RequestsAreInOrder
  BY DEF Init, RequestsAreInOrder, RequestFits, NumberFits, DaysFit, Apart, Inserted, Updating
<1>5. QED
  BY <1>1, <1>2, <1>3, <1>4 DEF IInv, PolicyInv

\* A step that changes nothing keeps the invariant.
LEMMA StutterIInv == IInv /\ UNCHANGED vars => IInv'
BY DEF vars, IInv, PolicyInv, TypeOK, LastEventIsStatus, VersionsAreWhole, NumbersAreGapless,
       ApprovalPrecedesActivation, ArchivedIsClosed, DaysAreTakenOnce, OpenOf, Overlap,
       EventNumbers, VersionNumbers, IsGreatest, RequestsAreInOrder, RequestFits, NumberFits,
       DaysFit, Apart, Inserted, SameNumber, Updating, IsTransition

\* Every step keeps the invariant.
LEMMA StepIInv == IInv /\ [Next]_vars => IInv'
BY CreateVersionStep, AddRuleStep, RequestTransitionStep, InsertVersionStep, CommitVersionStep,
   AdmitRuleStep, InsertRuleStep, CommitRuleStep, UpdateStatusStep, RecordEventStep, ActivateStep, CloseStep,
   CommitTransitionStep, RefuseStep, StutterIInv DEF Next, Abort

\* The invariant behind the theorems below.
THEOREM Inductive == Spec => []IInv
BY InitIInv, StepIInv, PTL DEF Spec

\* Whatever transitions race, the last event of a version is its status.
THEOREM StatusAndHistory == Spec => []PolicyInv
<1>1. IInv => PolicyInv
  BY DEF IInv
<1>2. QED
  BY Inductive, <1>1, PTL

\* Two numbers computed as max + 1 never collide, and leave no gap.
THEOREM GaplessNumbers == Spec => []NumbersAreGapless
<1>1. IInv => NumbersAreGapless
  BY DEF IInv
<1>2. QED
  BY Inductive, <1>1, PTL

\* No version is activated that was not approved before.
THEOREM ApprovalFirst == Spec => []ApprovalPrecedesActivation
<1>1. IInv => ApprovalPrecedesActivation
  BY DEF IInv
<1>2. QED
  BY Inductive, <1>1, PTL

\* An archived version has given back its open days.
THEOREM ArchivedHasNoOpenDays == Spec => []ArchivedIsClosed
<1>1. IInv => ArchivedIsClosed
  BY DEF IInv
<1>2. QED
  BY Inductive, <1>1, PTL
-----------------------------------------------------------------------------
\* What the calendar of the specification is here.
calendar == [day \in Days |-> InForce(day)]

\* A day is in force for one version at most, and only within an activation.
LEMMA DayIsTakenOnce ==
    ASSUME IInv, NEW x \in activations, NEW day \in Days, x.days.from <= day, day < x.days.until
    PROVE  InForce(day) = {x.version}
<1>1. /\ x \in Activation /\ x.version \in Versions /\ activations \subseteq Activation
      /\ \A y \in Activation : y.days \in Interval
  BY DEF IInv, PolicyInv, TypeOK, Activation
<1>2. \A y \in activations : y.days.from <= day /\ day < y.days.until => y = x
  <2> SUFFICES ASSUME NEW y \in activations, y.days.from <= day, day < y.days.until PROVE y = x
    OBVIOUS
  <2>1. day \in Nat
    BY PolicyAssumption
  <2>2. Overlap(x.days, y.days)
    BY <1>1, <2>1, Intervals DEF Overlap
  <2>3. QED
    BY <2>2 DEF IInv, DaysAreTakenOnce
<1>3. QED
  BY <1>1, <1>2 DEF InForce

\* The commit of an activation takes its days.
LEMMA TakeStep ==
    ASSUME IInv, NEW y \in Activation, \A x \in activations : ~Overlap(y.days, x.days),
           activations' = activations \cup {y}
    PROVE  Calendar!Next
<1> DEFINE v == y.version  i == y.days
<1>1. v \in Versions /\ i \in Interval /\ i.from \in Days /\ i.until \in Days \cup {Never}
      /\ i.from < i.until
  BY DEF Activation, Interval
<1>2. activations \subseteq Activation /\ \A x \in Activation : x.days \in Interval
  BY DEF IInv, PolicyInv, TypeOK, Activation
<1>3. \A day \in Days : i.from <= day /\ day < i.until => InForce(day) = {}
  <2> SUFFICES ASSUME NEW day \in Days, i.from <= day, day < i.until,
                      NEW x \in activations, x.days.from <= day, day < x.days.until
               PROVE  FALSE
    BY DEF InForce
  <2>1. day \in Nat
    BY PolicyAssumption
  <2>2. Overlap(i, x.days)
    BY <1>1, <1>2, <2>1, Intervals DEF Overlap
  <2>3. QED
    BY <2>2
<1>4. \A day \in Days :
         InForce(day)' = IF i.from <= day /\ day < i.until THEN {v} ELSE InForce(day)
  <2> SUFFICES ASSUME NEW day \in Days
               PROVE InForce(day)' = IF i.from <= day /\ day < i.until THEN {v} ELSE InForce(day)
    OBVIOUS
  <2>1. InForce(day)' = InForce(day) \cup {u \in {v} : i.from <= day /\ day < i.until}
    BY <1>1 DEF InForce
  <2>2. QED
    BY <2>1, <1>3
<1>5. Calendar!Take(v, i.from, i.until)
  BY <1>1, <1>3, <1>4 DEF Calendar!Take
<1>6. QED
  BY <1>1, <1>5 DEF Calendar!Next

\* The commit of an archiving gives back the days from its end on.
LEMMA GiveBackStep ==
    ASSUME IInv, NEW v \in Versions, NEW y \in Activation, NEW x \in OpenOf(v),
           y.version = v, y.days.from = x.days.from, y.days.until \in Days,
           activations' = (activations \ OpenOf(v)) \cup {y}
    PROVE  Calendar!Next
<1> DEFINE day0 == y.days.until
<1>1. x \in activations /\ x.version = v /\ x.days.until = Never
      /\ x \in Activation /\ x.days \in Interval /\ y.days \in Interval
  BY DEF OpenOf, IInv, PolicyInv, TypeOK, Activation
<1>2. activations \subseteq Activation /\ \A z \in Activation : z.days \in Interval
  BY DEF IInv, PolicyInv, TypeOK, Activation
<1>3. OpenOf(v) = {x}
  <2> SUFFICES ASSUME NEW z \in OpenOf(v) PROVE z = x
    OBVIOUS
  <2>1. z \in activations /\ z.days \in Interval /\ z.days.until = Never
    BY <1>2 DEF OpenOf
  <2>2. Overlap(x.days, z.days)
    BY <1>1, <2>1, Intervals DEF Overlap
  <2>3. QED
    BY <1>1, <2>1, <2>2 DEF IInv, DaysAreTakenOnce
<1>4. \A day \in Days : day \in Nat /\ day < Never
  BY PolicyAssumption
<1>5. \A day \in Days : day0 <= day => InForce(day) = {v} /\ InForce(day)' = {}
  <2> SUFFICES ASSUME NEW day \in Days, day0 <= day
               PROVE  InForce(day) = {v} /\ InForce(day)' = {}
    OBVIOUS
  <2>1. x.days.from <= day
    BY <1>1, <1>4, Intervals
  <2>2. InForce(day) = {v}
    BY <1>1, <1>4, <2>1, DayIsTakenOnce
  <2>3. \A z \in activations : z.days.from <= day /\ day < z.days.until => z = x
    <3> SUFFICES ASSUME NEW z \in activations, z.days.from <= day, day < z.days.until PROVE z = x
      OBVIOUS
    <3>1. Overlap(x.days, z.days)
      BY <1>1, <1>2, <1>4, <2>1, Intervals DEF Overlap
    <3>2. QED
      BY <1>1, <3>1 DEF IInv, DaysAreTakenOnce
  <2>4. \A z \in activations' : ~(z.days.from <= day /\ day < z.days.until)
    BY <1>1, <1>3, <1>4, <2>3
  <2>5. QED
    BY <2>2, <2>4 DEF InForce
<1>6. \A day \in Days : ~(day0 <= day) => InForce(day)' = InForce(day)
  <2> SUFFICES ASSUME NEW day \in Days, ~(day0 <= day)
               PROVE  InForce(day)' = InForce(day)
    OBVIOUS
  <2>1. day < y.days.until /\ day < x.days.until
    BY <1>1, <1>4
  <2>2. QED
    BY <1>1, <1>3, <2>1 DEF InForce
<1>7. Calendar!GiveBack(v, day0)
  BY <1>5, <1>6 DEF Calendar!GiveBack
<1>8. QED
  BY <1>7 DEF Calendar!Next

\* Activations implement a calendar with one version per day: the exclusion constraint
\* and the two commits that touch it are all that protects it.
THEOREM CalendarRefinement == Spec => FollowsCalendar
<1>1. Init => Calendar!Init
  BY DEF Init, Calendar!Init, InForce
<1>2. IInv /\ [Next]_vars => [Calendar!Next]_calendar
  <2> SUFFICES ASSUME IInv, [Next]_vars
               PROVE  Calendar!Next \/ UNCHANGED calendar
    OBVIOUS
  <2>1. UNCHANGED activations => UNCHANGED calendar
    BY DEF calendar, InForce
  <2>2. ASSUME NEW c \in Clients, CommitTransition(c)
        PROVE  Calendar!Next \/ UNCHANGED activations
    <3>1. PICK v \in Versions : v = cmd[c].version
      BY <2>2 DEF IInv, RequestsAreInOrder, RequestFits, Request, CommitTransition
    <3>2. QED
      BY <2>2, <3>1, CommitOfDays, TakeStep, GiveBackStep
  <2>3. Next => \/ \E c \in Clients : CommitTransition(c)
                \/ UNCHANGED activations
    BY DEF Next, CreateVersion, AddRule, RequestTransition, InsertVersion, CommitVersion,
       AdmitRule, InsertRule, CommitRule, UpdateStatus, RecordEvent, Activate, Close, Abort, Refuse,
       Send, Pass, tables
  <2>4. UNCHANGED vars => UNCHANGED activations
    BY DEF vars
  <2>5. QED
    BY <2>1, <2>2, <2>3, <2>4
<1>3. QED
  BY Inductive, <1>1, <1>2, PTL DEF Spec, FollowsCalendar, Calendar!Spec, calendar
-----------------------------------------------------------------------------
\* The state of Definitions.
Entering == {x \in Rule : x \notin rules /\ \E c \in Clients : x \in Admitted(c)}
FrozenVersions == {v \in Versions : status[v] \in {"APPROVED", "ACTIVE"}}
definitions == <<rules, Entering, FrozenVersions>>

\* The rules of clients that stay where they are stay admitted.
LEMMA OthersAdmitted ==
    ASSUME NEW d, pc'[d] = pc[d], cmd'[d] = cmd[d]
    PROVE  Admitted(d)' = Admitted(d)
BY DEF Admitted, Inserted

\* What a request for a rule asks for.
LEMMA RuleRequest ==
    ASSUME IInv, NEW c \in Clients, pc[c] # "idle", cmd[c].target = "RULE"
    PROVE  RuleOf(cmd[c]) \in Rule /\ RuleOf(cmd[c])[1] = cmd[c].version
<1>1. RequestFits(c) /\ cmd[c] \in Request /\ cmd[c].arg \in Codes
  BY DEF IInv, RequestsAreInOrder, RequestFits
<1>2. QED
  BY <1>1 DEF Request, Rule, RuleOf

\* A request that is at a step of its own with nothing in the rules table, before and after.
LEMMA NoRuleStep ==
    ASSUME IInv, NEW c \in Clients, UNCHANGED <<rules, status>>,
           \A d \in Clients : d # c => pc'[d] = pc[d] /\ cmd'[d] = cmd[d],
           Admitted(c)' = Admitted(c)
    PROVE  UNCHANGED definitions
<1>1. \A d \in Clients : Admitted(d)' = Admitted(d)
  BY OthersAdmitted
<1>2. QED
  BY <1>1 DEF definitions, Entering, FrozenVersions

\* The trigger: a rule sets out for a version that is open.
LEMMA SetOutStep ==
    ASSUME IInv, NEW c \in Clients, Pass(c, "insertRule", "admitted"),
           status[cmd[c].version] \notin {"APPROVED", "ACTIVE"}
    PROVE  AsDefinitions!Next \/ UNCHANGED definitions
<1>1. /\ UNCHANGED <<status, rules, cmd>> /\ pc[c] = "insertRule" /\ pc'[c] = "admitted"
      /\ \A d \in Clients : d # c => pc'[d] = pc[d] /\ cmd'[d] = cmd[d]
  BY DEF Pass, Goto, tables, IInv, PolicyInv, TypeOK
<1>2. PICK i : i = RuleOf(cmd[c])
  OBVIOUS
<1>3. i \in Rule /\ i[1] = cmd[c].version
  <2>1. cmd[c].target = "RULE"
    BY <1>1 DEF IInv, RequestsAreInOrder, RequestFits
  <2>2. QED
    BY <1>1, <1>2, <2>1, RuleRequest
<1>4. Admitted(c)' = {i} /\ \A d \in Clients : d # c => Admitted(d)' = Admitted(d)
  <2>1. RuleOf(cmd[c])' = i
    BY <1>1, <1>2 DEF RuleOf
  <2>2. QED
    BY <1>1, <1>3, <2>1, OthersAdmitted DEF Admitted
<1>5. Admitted(c) = {}
  BY <1>1 DEF Admitted, Inserted
<1>6. Entering' = Entering \cup {x \in {i} : x \notin rules}
  BY <1>1, <1>3, <1>4, <1>5 DEF Entering
<1>7. FrozenVersions' = FrozenVersions
  BY <1>1 DEF FrozenVersions
<1>8. CASE i \in rules \cup Entering
  BY <1>1, <1>6, <1>7, <1>8 DEF definitions
<1>9. CASE i \notin rules \cup Entering
  <2>1. Entering' = Entering \cup {i}
    BY <1>6, <1>9
  <2>2. i[1] \notin FrozenVersions
    BY <1>3 DEF FrozenVersions
  <2>3. AsDefinitions!SetOut(i)
    BY <1>1, <1>3, <1>7, <1>9, <2>1, <2>2 DEF AsDefinitions!SetOut, Entering, FrozenVersions
  <2>4. QED
    BY <1>3, <2>3 DEF AsDefinitions!Next
<1>10. QED
  BY <1>8, <1>9

\* A request that ends takes its rule back, unless another one waits with the same.
LEMMA TurnBackStep ==
    ASSUME IInv, NEW c \in Clients, Refuse(c)
    PROVE  AsDefinitions!Next \/ UNCHANGED definitions
<1>1. /\ UNCHANGED <<status, rules>> /\ pc'[c] = "idle"
      /\ \A d \in Clients : d # c => pc'[d] = pc[d] /\ cmd'[d] = cmd[d]
  BY DEF Refuse, End, tables, IInv, PolicyInv, TypeOK
<1>2. Admitted(c)' = {} /\ \A d \in Clients : d # c => Admitted(d)' = Admitted(d)
  BY <1>1, OthersAdmitted DEF Admitted, Inserted
<1>3. FrozenVersions' = FrozenVersions /\ Entering' \subseteq Entering
  BY <1>1, <1>2 DEF FrozenVersions, Entering
<1>4. CASE Entering' = Entering
  BY <1>1, <1>3, <1>4 DEF definitions
<1>5. ASSUME NEW i \in Entering, i \notin Entering'
      PROVE  AsDefinitions!Next
  <2>1. i \in Rule /\ i \in Admitted(c)
    BY <1>1, <1>2, <1>5 DEF Entering
  <2>2. \A x \in Admitted(c) : x = i
    BY <2>1 DEF Admitted
  <2>3. Entering' = Entering \ {i}
    BY <1>1, <1>2, <1>3, <1>5, <2>2 DEF Entering
  <2>4. AsDefinitions!TurnBack(i)
    BY <1>1, <1>3, <1>5, <2>3 DEF AsDefinitions!TurnBack, Entering, FrozenVersions
  <2>5. QED
    BY <2>1, <2>4 DEF AsDefinitions!Next
<1>6. QED
  BY <1>3, <1>4, <1>5

\* A committed rule arrives, unless it was there.
LEMMA ArriveStep ==
    ASSUME IInv, NEW c \in Clients, CommitRule(c)
    PROVE  AsDefinitions!Next \/ UNCHANGED definitions
<1>1. /\ status' = status /\ rules' = rules \cup {RuleOf(cmd[c])}
      /\ pc[c] = "commit" /\ cmd[c].target = "RULE" /\ pc'[c] = "idle"
      /\ \A d \in Clients : d # c => pc'[d] = pc[d] /\ cmd'[d] = cmd[d]
  BY DEF CommitRule, End, IInv, PolicyInv, TypeOK
<1>2. PICK i : i = RuleOf(cmd[c])
  OBVIOUS
<1>3. i \in Rule
  BY <1>1, <1>2, RuleRequest
<1>4. Admitted(c)' = {} /\ \A d \in Clients : d # c => Admitted(d)' = Admitted(d)
  BY <1>1, OthersAdmitted DEF Admitted, Inserted
<1>5. Admitted(c) = {i}
  BY <1>1, <1>2, <1>3 DEF Admitted, Inserted
<1>6. Entering' = Entering \ {i}
  BY <1>1, <1>2, <1>4, <1>5 DEF Entering
<1>7. FrozenVersions' = FrozenVersions
  BY <1>1 DEF FrozenVersions
<1>8. CASE i \in rules
  <2>1. Entering' = Entering
    BY <1>6, <1>8 DEF Entering
  <2>2. QED
    BY <1>1, <1>2, <1>7, <1>8, <2>1 DEF definitions
<1>9. CASE i \notin rules
  <2>1. i \in Entering
    BY <1>3, <1>5, <1>9 DEF Entering
  <2>2. AsDefinitions!Arrive(i)
    BY <1>1, <1>2, <1>6, <1>7, <2>1 DEF AsDefinitions!Arrive, Entering, FrozenVersions
  <2>3. QED
    BY <1>3, <2>2 DEF AsDefinitions!Next
<1>10. QED
  BY <1>8, <1>9

\* A transition freezes its version, opens it again, or does neither.
LEMMA FreezeStep ==
    ASSUME IInv, NEW c \in Clients, CommitTransition(c)
    PROVE  AsDefinitions!Next \/ UNCHANGED definitions
<1>1. /\ rules' = rules /\ status' = [status EXCEPT ![cmd[c].version] = cmd[c].target]
      /\ pc[c] = "commit" /\ IsTransition(cmd[c]) /\ pc'[c] = "idle"
      /\ \A d \in Clients : d # c => pc'[d] = pc[d] /\ cmd'[d] = cmd[d]
  BY DEF CommitTransition, End, IInv, PolicyInv, TypeOK
<1>2. PICK v : v = cmd[c].version
  OBVIOUS
<1>3. v \in Versions
  BY <1>1, <1>2 DEF IInv, RequestsAreInOrder, RequestFits, Request
<1>4. Entering' = Entering
  <2>1. Admitted(c)' = {} /\ Admitted(c) = {}
    BY <1>1 DEF Admitted, Inserted, IsTransition
  <2>2. \A d \in Clients : Admitted(d)' = Admitted(d)
    BY <1>1, <2>1, OthersAdmitted
  <2>3. QED
    BY <1>1, <2>2 DEF Entering
<1>5. \/ FrozenVersions' = FrozenVersions \cup {v}
      \/ FrozenVersions' = FrozenVersions \ {v}
  <2>1. \A u \in Versions : u # v => status'[u] = status[u]
    BY <1>1, <1>2 DEF IInv, PolicyInv, TypeOK
  <2>2. QED
    BY <1>3, <2>1 DEF FrozenVersions
<1>6. PICK code \in Codes : TRUE
  BY PolicyAssumption
<1>7. PICK i : i = <<v, code>>
  OBVIOUS
<1>8. i \in Rule /\ [x \in Rule |-> x[1]][i] = v
  BY <1>3, <1>7 DEF Rule
<1>9. CASE FrozenVersions' = FrozenVersions \cup {v}
  <2>1. AsDefinitions!Freeze([x \in Rule |-> x[1]][i])
    BY <1>1, <1>4, <1>8, <1>9 DEF AsDefinitions!Freeze, Entering, FrozenVersions
  <2>2. QED
    BY <1>8, <2>1 DEF AsDefinitions!Next
<1>10. CASE FrozenVersions' = FrozenVersions \ {v} /\ v \in FrozenVersions
  <2>1. AsDefinitions!Reopen([x \in Rule |-> x[1]][i])
    BY <1>1, <1>3, <1>4, <1>8, <1>10 DEF AsDefinitions!Reopen, Entering, FrozenVersions
  <2>2. QED
    BY <1>8, <2>1 DEF AsDefinitions!Next
<1>11. CASE FrozenVersions' = FrozenVersions \ {v} /\ v \notin FrozenVersions
  BY <1>1, <1>4, <1>11 DEF definitions
<1>12. QED
  BY <1>5, <1>9, <1>10, <1>11

\* Steps of requests that neither bring a rule nor a status.
LEMMA OtherStep ==
    ASSUME IInv, NEW c \in Clients, ~Refuse(c),
           \/ \E v \in Versions : \/ CreateVersion(c, v)
                                  \/ \E code \in Codes : AddRule(c, v, code)
                                  \/ \E target \in Status : RequestTransition(c, v, target)
           \/ InsertVersion(c) \/ UpdateStatus(c) \/ RecordEvent(c) \/ Close(c)
           \/ \E new \in Interval : Activate(c, new)
    PROVE  UNCHANGED definitions
<1>1. UNCHANGED <<rules, status>> /\ \A d \in Clients : d # c => pc'[d] = pc[d] /\ cmd'[d] = cmd[d]
  BY DEF CreateVersion, AddRule, RequestTransition, InsertVersion, UpdateStatus, RecordEvent, Activate,
     Close, Send, Pass, Goto, tables, IInv, PolicyInv, TypeOK
<1>2. Admitted(c) = {}
  BY DEF CreateVersion, AddRule, RequestTransition, InsertVersion, UpdateStatus, RecordEvent, Activate,
     Close, Send, Pass, Goto, Admitted, Inserted
<1>3. Admitted(c)' = {}
  <2>1. RequestFits(c) /\ pc \in [Clients -> Steps] /\ cmd \in [Clients -> Request \cup {Nothing}]
    BY DEF IInv, PolicyInv, TypeOK, RequestsAreInOrder
  <2>2. CASE \E v \in Versions : \/ CreateVersion(c, v)
                                 \/ \E code \in Codes : AddRule(c, v, code)
                                 \/ \E target \in Status : RequestTransition(c, v, target)
    BY <2>1, <2>2 DEF CreateVersion, AddRule, RequestTransition, Send, Goto, Admitted, Inserted
  <2>3. CASE InsertVersion(c) \/ UpdateStatus(c)
    BY <2>1, <2>3 DEF InsertVersion, UpdateStatus, Pass, Goto, Admitted, Inserted, RequestFits, IsTransition
  <2>4. CASE RecordEvent(c)
    <3>1. cmd'[c].target = cmd[c].target /\ cmd[c].target # "RULE" /\ pc'[c] # "admitted"
      BY <2>1, <2>4 DEF RecordEvent, Goto, RequestFits, IsTransition, Request
    <3>2. QED
      BY <3>1 DEF Admitted, Inserted
  <2>5. CASE Close(c) \/ \E new \in Interval : Activate(c, new)
    <3>1. cmd'[c].target = cmd[c].target /\ cmd[c].target # "RULE" /\ pc'[c] = "commit"
      BY <2>1, <2>5 DEF Close, Activate, Pass, Goto, RequestFits, Request
    <3>2. QED
      BY <3>1 DEF Admitted, Inserted
  <2>6. QED
    BY <2>2, <2>3, <2>4, <2>5
<1>4. QED
  BY <1>1, <1>2, <1>3, NoRuleStep

\* The creation of a version freezes nothing.
LEMMA DraftStep ==
    ASSUME IInv, NEW c \in Clients, CommitVersion(c)
    PROVE  UNCHANGED definitions
<1>1. /\ rules' = rules /\ status' = [status EXCEPT ![cmd[c].version] = "DRAFT"]
      /\ pc[c] = "commit" /\ cmd[c].target = "DRAFT" /\ pc'[c] = "idle"
      /\ \A d \in Clients : d # c => pc'[d] = pc[d] /\ cmd'[d] = cmd[d]
  BY DEF CommitVersion, End, IInv, PolicyInv, TypeOK
<1>2. status[cmd[c].version] = "NONE"
  BY <1>1 DEF IInv, RequestsAreInOrder, NumberFits
<1>3. FrozenVersions' = FrozenVersions
  BY <1>1, <1>2 DEF FrozenVersions, IInv, PolicyInv, TypeOK
<1>4. Admitted(c)' = {} /\ Admitted(c) = {}
  BY <1>1 DEF Admitted, Inserted
<1>5. \A d \in Clients : Admitted(d)' = Admitted(d)
  BY <1>1, <1>4, OthersAdmitted
<1>6. QED
  BY <1>1, <1>3, <1>5 DEF definitions, Entering

\* Versions and rules implement Definitions: the trigger, not the check of the service,
\* keeps rules from a version that is APPROVED or ACTIVE; statuses are written on stale
\* reads, and so a version may be open again.
THEOREM RulesRefinement == Spec => FollowsDefinitions
<1>1. Init => AsDefinitions!Init
  BY DEF Init, AsDefinitions!Init, Admitted, Inserted
<1>2. IInv /\ [Next]_vars => [AsDefinitions!Next]_definitions
  <2> SUFFICES ASSUME IInv, [Next]_vars
               PROVE  AsDefinitions!Next \/ UNCHANGED definitions
    OBVIOUS
  <2>1. ASSUME NEW c \in Clients, AdmitRule(c)
        PROVE  AsDefinitions!Next \/ UNCHANGED definitions
    BY <2>1, SetOutStep, TurnBackStep DEF AdmitRule
  <2>2. ASSUME NEW c \in Clients, InsertRule(c), ~Refuse(c)
        PROVE  UNCHANGED definitions
    <3>1. /\ UNCHANGED <<status, rules, cmd>> /\ pc[c] = "admitted" /\ pc'[c] = "commit"
          /\ \A d \in Clients : d # c => pc'[d] = pc[d] /\ cmd'[d] = cmd[d]
      BY <2>2 DEF InsertRule, Pass, Goto, tables, IInv, PolicyInv, TypeOK
    <3>2. cmd[c].target = "RULE"
      BY <3>1 DEF IInv, RequestsAreInOrder, RequestFits
    <3>3. Admitted(c)' = Admitted(c)
      BY <3>1, <3>2 DEF Admitted, Inserted, RuleOf
    <3>4. QED
      BY <3>1, <3>3, NoRuleStep
  <2>3. ASSUME NEW c \in Clients, Refuse(c) \/ CommitRule(c) \/ CommitTransition(c)
        PROVE  AsDefinitions!Next \/ UNCHANGED definitions
    BY <2>3, TurnBackStep, ArriveStep, FreezeStep
  <2>4. CASE UNCHANGED vars
    BY <2>4 DEF vars, definitions, Entering, FrozenVersions, Admitted, Inserted
  <2>5. QED
    BY <2>1, <2>2, <2>3, <2>4, OtherStep, DraftStep DEF Next, Abort
<1>3. QED
  BY Inductive, <1>1, <1>2, PTL
     DEF Spec, FollowsDefinitions, AsDefinitions!Spec, definitions, Entering, FrozenVersions
=============================================================================
