------------------------ MODULE IngestionQueueProofs ------------------------
(***************************************************************************)
(* Proofs about IngestionQueue, for any number of workers, clients, runs,  *)
(* attempts and any length of leases: one run per key, one worker per      *)
(* attempt and live lease, one batch of chunks, settled jobs stay settled. *)
(***************************************************************************)
EXTENDS IngestionQueue, TLAPS

\* What is written about p when it stops or has not begun.
LEMMA Processing ==
    ASSUME IInv, NEW p \in Processes, pc[p] # "idle"
    PROVE  /\ cmd[p] \in Command /\ cmd[p].run \in Runs
           /\ cmd[p].attempt \in 0..MaxAttempts /\ cmd[p].lease \in Nat
           /\ cmd[p].columns \subseteq {"status", "lease"}
BY DEF IInv, CommandsAreThere, Command

\* A job has its three columns.
LEMMA JobColumns ==
    ASSUME TypeOK, NEW r \in Runs
    PROVE  /\ jobs[r] \in Job \/ jobs[r] = NoJob
           /\ jobs[r].attempt \in 0..MaxAttempts
           /\ jobs[r].lease \in Nat \/ jobs[r].lease = NoLease
           /\ jobs[r] # NoJob <=> jobs[r].status # "NONE"
BY QueueAssumption DEF TypeOK, Job, NoJob, NoLease, Final

\* Nothing depends on a process that has stopped.
LEMMA EndStep ==
    ASSUME IInv, NEW p \in Processes, End(p), UNCHANGED tables
    PROVE  IInv'
<1> USE DEF IInv, QueueInv, End, tables
<1>1. \A q \in Processes : q # p => pc'[q] = pc[q] /\ cmd'[q] = cmd[q]
  BY DEF TypeOK
<1>2. pc'[p] = "idle" /\ cmd'[p] = Nothing
  BY DEF TypeOK
<1>3. UNCHANGED <<runs, jobs, chunks>>
  OBVIOUS
<1>4. TypeOK'
  BY DEF TypeOK, Steps
<1>5. \A q \in Processes, r \in Runs : On(q, r)' => q # p /\ On(q, r)
  BY <1>1, <1>2 DEF On
<1>6. \A q \in Processes, r \in Runs : Saving(q, r)' => q # p /\ Saving(q, r)
  BY <1>1, <1>2 DEF On, Saving
<1>7. OneRunPerKey' /\ ChunksAreOneBatch'
  BY <1>3 DEF OneRunPerKey, ChunksAreOneBatch, ChunksOf
<1>8. AttemptsAreGrantedOnce' /\ LiveLeaseIsExclusive'
  BY <1>1, <1>3, <1>5 DEF AttemptsAreGrantedOnce, LiveLeaseIsExclusive, AtWork, Processes
<1>9. CommandsAreThere'
  BY <1>1, <1>2 DEF CommandsAreThere
<1>10. EnqueuingIsAlone'
  BY <1>1, <1>2, <1>3 DEF EnqueuingIsAlone, KeyTaken, On
<1>11. RowIsHeld'
  BY <1>1, <1>2, <1>3 DEF RowIsHeld
<1>12. LeasesAreOrdered'
  BY <1>1, <1>2, <1>3 DEF LeasesAreOrdered, Processes
<1>13. SavingIsAlone'
  BY <1>3, <1>6 DEF SavingIsAlone, ChunksOf
<1>14. ReportsAreFinal'
  BY <1>1, <1>2, <1>3 DEF ReportsAreFinal
<1>15. QED
  BY <1>4, <1>7, <1>8, <1>9, <1>10, <1>11, <1>12, <1>13, <1>14
-----------------------------------------------------------------------------
\* A run is asked for by one client.
LEMMA EnqueueStep ==
    ASSUME IInv, NEW p \in Clients, NEW r \in Runs, Enqueue(p, r)
    PROVE  IInv'
<1> USE DEF IInv, QueueInv, Enqueue, Begin, Goto, tables
<1>1. p \in Processes /\ pc[p] = "idle" /\ p \notin Workers
  BY QueueAssumption DEF Processes
<1>2. \A q \in Processes : q # p => pc'[q] = pc[q] /\ cmd'[q] = cmd[q]
  BY DEF TypeOK
<1>3. /\ pc'[p] = "insert" /\ cmd'[p].run = r
      /\ cmd'[p] = [run |-> r, attempt |-> 0, lease |-> 0, batch |-> {},
                  status |-> "NONE", columns |-> {}]
  BY <1>1 DEF TypeOK
<1>4. UNCHANGED <<runs, jobs, chunks>>
  OBVIOUS
<1>5. cmd'[p] \in Command
  BY <1>3, QueueAssumption DEF Command
<1>6. TypeOK'
  BY <1>5, <1>4, <1>1 DEF TypeOK, Steps
<1>7. OneRunPerKey' /\ ChunksAreOneBatch'
  BY <1>4 DEF OneRunPerKey, ChunksAreOneBatch, ChunksOf
<1>8. AttemptsAreGrantedOnce' /\ LiveLeaseIsExclusive'
  BY <1>1, <1>2, <1>4 DEF AttemptsAreGrantedOnce, LiveLeaseIsExclusive, AtWork, On, Processes
<1>9. CommandsAreThere'
  BY <1>1, <1>2, <1>3, <1>5 DEF CommandsAreThere
<1>10. EnqueuingIsAlone'
  BY <1>1, <1>2, <1>3, <1>4 DEF EnqueuingIsAlone, KeyTaken, On
<1>11. RowIsHeld'
  BY <1>1, <1>2, <1>3, <1>4 DEF RowIsHeld
<1>12. LeasesAreOrdered'
  BY <1>1, <1>2, <1>4 DEF LeasesAreOrdered, Processes
<1>13. SavingIsAlone'
  BY <1>1, <1>2, <1>3, <1>4 DEF SavingIsAlone, ChunksOf, Saving, On
<1>14. ReportsAreFinal'
  BY <1>1, <1>2, <1>3, <1>4 DEF ReportsAreFinal
<1>15. QED
  BY <1>6, <1>7, <1>8, <1>9, <1>10, <1>11, <1>12, <1>13, <1>14

\* The constraint lets one uncommitted run through for a key that has none.
LEMMA InsertRunStep ==
    ASSUME IInv, NEW p \in Clients, InsertRun(p)
    PROVE  IInv'
<1> USE DEF IInv, QueueInv, Goto, tables
<1>1. p \in Processes /\ pc[p] = "insert" /\ p \notin Workers
  BY QueueAssumption DEF Processes, InsertRun
<1>2. CASE End(p) /\ UNCHANGED tables
  BY <1>1, <1>2, EndStep
<1>3. CASE ~KeyTaken(KeyOf[cmd[p].run]) /\ Goto(p, "insert", "enqueued") /\ UNCHANGED <<tables, cmd>>
  <2>1. \A q \in Processes : q # p => pc'[q] = pc[q]
    BY <1>3 DEF TypeOK
  <2>2. pc'[p] = "enqueued"
    BY <1>1, <1>3 DEF TypeOK
  <2>3. UNCHANGED <<runs, jobs, chunks, cmd>>
    BY <1>3
  <2>4. TypeOK'
    BY <1>3, <2>3 DEF TypeOK, Steps
  <2>5. OneRunPerKey' /\ ChunksAreOneBatch'
    BY <2>3 DEF OneRunPerKey, ChunksAreOneBatch, ChunksOf
  <2>6. AttemptsAreGrantedOnce' /\ LiveLeaseIsExclusive'
    BY <1>1, <2>1, <2>3 DEF AttemptsAreGrantedOnce, LiveLeaseIsExclusive, AtWork, On, Processes
  <2>7. CommandsAreThere'
    BY <1>1, <2>1, <2>2, <2>3 DEF CommandsAreThere
  <2>8. EnqueuingIsAlone'
    BY <1>1, <1>3, <2>1, <2>2, <2>3 DEF EnqueuingIsAlone, KeyTaken, On, InsertRun
  <2>9. RowIsHeld'
    BY <1>1, <2>1, <2>2, <2>3 DEF RowIsHeld
  <2>10. LeasesAreOrdered'
    BY <1>1, <2>1, <2>3 DEF LeasesAreOrdered, Processes
  <2>11. SavingIsAlone'
    BY <1>1, <2>1, <2>2, <2>3 DEF SavingIsAlone, ChunksOf, Saving, On
  <2>12. ReportsAreFinal'
    BY <1>1, <2>1, <2>2, <2>3 DEF ReportsAreFinal
  <2>13. QED
    BY <2>4, <2>5, <2>6, <2>7, <2>8, <2>9, <2>10, <2>11, <2>12
<1>4. QED
  BY <1>2, <1>3 DEF InsertRun

\* The run and its job are there, and nobody is at work on it.
LEMMA CommitRunStep ==
    ASSUME IInv, NEW p \in Clients, CommitRun(p)
    PROVE  IInv'
<1> USE DEF IInv, QueueInv, CommitRun, End, tables
<1> DEFINE r == cmd[p].run
<1>1. p \in Processes /\ pc[p] = "enqueued" /\ p \notin Workers /\ r \in Runs
  BY QueueAssumption, Processing DEF Processes
<1>2. \A q \in Processes : q # p => pc'[q] = pc[q] /\ cmd'[q] = cmd[q]
  BY DEF TypeOK
<1>3. pc'[p] = "idle" /\ cmd'[p] = Nothing
  BY <1>1 DEF TypeOK
<1>4. /\ runs'[r] = "RUNNING" /\ \A s \in Runs : s # r => runs'[s] = runs[s]
      /\ jobs'[r] = [status |-> "QUEUED", attempt |-> 0, lease |-> NoLease]
      /\ \A s \in Runs : s # r => jobs'[s] = jobs[s]
      /\ chunks' = chunks
  BY <1>1 DEF TypeOK
<1>5. jobs'[r] \in Job /\ jobs'[r] # NoJob /\ jobs'[r].status = "QUEUED"
  BY <1>4, QueueAssumption DEF Job, NoJob
<1>6. /\ runs[r] = "NONE" /\ jobs[r] = NoJob
      /\ \A q \in Processes : q # p => ~On(q, r)
  BY <1>1, <1>4 DEF EnqueuingIsAlone, OneRunPerKey, ChunksOf
<1>7. TypeOK'
  <2>1. runs' \in [Runs -> RunStatus \cup {"NONE"}] /\ jobs' \in [Runs -> Job \cup {NoJob}]
    BY <1>1, <1>5 DEF TypeOK, RunStatus
  <2>2. \A s \in Runs : jobs'[s].status = "RUNNING" => jobs'[s].lease # NoLease
    BY <1>4, <1>5 DEF TypeOK
  <2>3. QED
    BY <2>1, <2>2 DEF TypeOK, Steps
<1>8. OneRunPerKey'
  BY <1>1, <1>4, <1>5, <1>6 DEF OneRunPerKey, EnqueuingIsAlone, KeyTaken
<1>9. ChunksAreOneBatch'
  BY <1>4, <1>5, <1>6 DEF ChunksAreOneBatch, ChunksOf, NoJob
<1>11. \A q \in Processes : pc'[q] # "idle" => q # p /\ pc[q] # "idle" /\ cmd'[q].run # r
  BY <1>2, <1>3, <1>6 DEF On
<1>12. \A q \in Processes : pc'[q] # "idle" => cmd'[q].run \in Runs
  BY <1>11, <1>2, Processing
<1> HIDE DEF r
<1>13. AttemptsAreGrantedOnce' /\ LiveLeaseIsExclusive'
  BY <1>2, <1>4, <1>11 DEF AttemptsAreGrantedOnce, LiveLeaseIsExclusive, AtWork, On, Processes
<1>14. CommandsAreThere'
  BY <1>2, <1>3 DEF CommandsAreThere
<1>15. EnqueuingIsAlone'
  <2>1. \A q \in Processes : pc'[q] \in {"insert", "enqueued"} =>
           /\ runs'[cmd'[q].run] = "NONE"
           /\ \A x \in Processes \ {q} : ~On(x, cmd[q].run)'
    BY <1>2, <1>3, <1>4, <1>11, <1>12 DEF EnqueuingIsAlone, On
  <2>2. \A q \in Processes : pc'[q] = "enqueued" => KeyOf[cmd'[q].run] # KeyOf[r]
    BY <1>1, <1>2, <1>3 DEF EnqueuingIsAlone, r
  <2>3. \A x, q \in Processes : pc'[x] = "enqueued" =>
           /\ ~KeyTaken(KeyOf[cmd[x].run])'
           /\ pc'[q] = "enqueued" /\ x # q => KeyOf[cmd'[x].run] # KeyOf[cmd'[q].run]
    BY <1>2, <1>3, <1>4, <2>2 DEF EnqueuingIsAlone, KeyTaken
  <2>4. \A q \in Processes : pc'[q] \notin {"idle", "insert", "enqueued"} => jobs'[cmd'[q].run] # NoJob
    BY <1>2, <1>4, <1>11, <1>12 DEF EnqueuingIsAlone
  <2>5. QED
    BY <2>1, <2>3, <2>4 DEF EnqueuingIsAlone
<1>16. RowIsHeld'
  BY <1>2, <1>3, <1>4, <1>11, <1>12 DEF RowIsHeld
<1>17. LeasesAreOrdered'
  BY <1>2, <1>4, <1>11, <1>12 DEF LeasesAreOrdered, Processes
<1>18. SavingIsAlone'
  BY <1>2, <1>3, <1>4 DEF SavingIsAlone, ChunksOf, Saving, On
<1>19. ReportsAreFinal'
  BY <1>2, <1>3, <1>4, <1>11, <1>12 DEF ReportsAreFinal
<1>20. QED
  BY <1>7, <1>8, <1>9, <1>13, <1>14, <1>15, <1>16, <1>17, <1>18, <1>19
-----------------------------------------------------------------------------
\* A job is granted when it is queued, with nobody at work on it, or when the lease of
\* its last attempt, and with it every earlier one, has run out.
LEMMA AcquireStep ==
    ASSUME IInv, NEW p \in Workers, Acquire(p)
    PROVE  IInv'
<1> USE DEF IInv, QueueInv, Begin, Goto, tables
<1>1. PICK r \in Runs : /\ Available(r) /\ ~Locked(r)
                        /\ Begin(p, "acquired", r, jobs[r].attempt + 1, LeaseTicks)
  BY DEF Acquire
<1>2. p \in Processes /\ pc[p] = "idle" /\ p \notin Clients
  BY <1>1, QueueAssumption DEF Processes
<1>3. \A q \in Processes : q # p => pc'[q] = pc[q] /\ cmd'[q] = cmd[q]
  BY <1>1 DEF TypeOK
<1> DEFINE n == jobs[r].attempt + 1
<1>4. /\ pc'[p] = "acquired" /\ cmd'[p].run = r /\ cmd'[p].attempt = n
      /\ cmd'[p].lease = LeaseTicks /\ cmd'[p].status = "NONE"
      /\ cmd'[p] = [run |-> r, attempt |-> n, lease |-> LeaseTicks,
                    batch |-> {}, status |-> "NONE", columns |-> {}]
  BY <1>1, <1>2 DEF TypeOK
<1>5. UNCHANGED <<runs, jobs, chunks>>
  BY <1>1
<1>6. n \in 1..MaxAttempts /\ jobs[r].attempt \in Nat /\ jobs[r] # NoJob
      /\ jobs[r].status \in {"QUEUED", "RUNNING"}
  BY <1>1, JobColumns, QueueAssumption DEF Available, NoJob
<1>7. cmd'[p] \in Command
  BY <1>4, <1>6, QueueAssumption DEF Command
<1>8. TypeOK'
  BY <1>7, <1>5, <1>2, <1>1 DEF TypeOK, Steps
<1>9. \A x \in Workers : AtWork(x, r) => cmd[x].attempt < n /\ cmd[x].lease = 0
  <2> SUFFICES ASSUME NEW x \in Workers, AtWork(x, r)
               PROVE  cmd[x].attempt < n /\ cmd[x].lease = 0
    OBVIOUS
  <2>1. x \in Processes /\ pc[x] # "idle" /\ cmd[x].run = r /\ pc[x] # "acquired"
    BY <1>1 DEF AtWork, On, Locked, Processes
  <2>2. cmd[x].attempt \in 0..MaxAttempts /\ cmd[x].lease \in Nat
    BY <2>1, Processing
  <2>3. jobs[r].status # "QUEUED" /\ cmd[x].attempt <= jobs[r].attempt
        /\ (jobs[r].status = "RUNNING" => cmd[x].lease <= jobs[r].lease)
    BY <2>1 DEF LeasesAreOrdered
  <2>4. QED
    BY <1>1, <1>6, <2>2, <2>3, QueueAssumption DEF Available
<1> HIDE DEF n
<1>10. OneRunPerKey' /\ ChunksAreOneBatch'
  BY <1>5 DEF OneRunPerKey, ChunksAreOneBatch, ChunksOf
<1>11. AttemptsAreGrantedOnce'
  BY <1>3, <1>4, <1>5, <1>6, <1>9 DEF AttemptsAreGrantedOnce, AtWork, On, Processes
<1>12. LiveLeaseIsExclusive'
  BY <1>3, <1>4, <1>9 DEF LiveLeaseIsExclusive, AtWork, On, Processes
<1>13. CommandsAreThere'
  BY <1>2, <1>3, <1>4, <1>6, <1>7 DEF CommandsAreThere
<1>14. EnqueuingIsAlone'
  BY <1>2, <1>3, <1>4, <1>5, <1>6 DEF EnqueuingIsAlone, KeyTaken, On, OneRunPerKey
<1>15. RowIsHeld'
  BY <1>1, <1>2, <1>3, <1>4, <1>5, <1>6 DEF RowIsHeld, Locked, On, n
<1>16. LeasesAreOrdered'
  <2>1. \A x \in Workers : x # p /\ pc[x] # "idle" /\ cmd[x].run = r =>
           cmd[x].lease = 0 /\ cmd[x].attempt \in 0..MaxAttempts /\ cmd[x].attempt < n
    BY <1>9, Processing DEF AtWork, On, Processes
  <2>2. QED
    BY <1>3, <1>4, <1>5, <1>6, <2>1 DEF LeasesAreOrdered, Processes
<1>17. SavingIsAlone'
  BY <1>2, <1>3, <1>4, <1>5 DEF SavingIsAlone, ChunksOf, Saving, On
<1>18. ReportsAreFinal'
  BY <1>2, <1>3, <1>4, <1>5 DEF ReportsAreFinal
<1>19. QED
  BY <1>8, <1>10, <1>11, <1>12, <1>13, <1>14, <1>15, <1>16, <1>17, <1>18

\* The row gets the attempt and the lease of the worker that holds it.
LEMMA CommitAcquireStep ==
    ASSUME IInv, NEW p \in Workers, CommitAcquire(p)
    PROVE  IInv'
<1> USE DEF IInv, QueueInv, CommitAcquire, Goto, tables
<1> DEFINE r == cmd[p].run
<1>1. /\ p \in Processes /\ pc[p] = "acquired" /\ r \in Runs
      /\ cmd[p].attempt \in 1..MaxAttempts /\ cmd[p].lease \in Nat
  BY QueueAssumption, Processing DEF Processes, CommandsAreThere
<1>2. \A q \in Processes : q # p => pc'[q] = pc[q]
  BY DEF TypeOK
<1>3. pc'[p] = "working" /\ UNCHANGED <<runs, chunks, cmd>>
  BY <1>1 DEF TypeOK
<1>4. /\ jobs'[r].status = "RUNNING" /\ jobs'[r].attempt = cmd[p].attempt
      /\ jobs'[r].lease = cmd[p].lease
      /\ jobs'[r] \in Job /\ jobs'[r] # NoJob
      /\ \A s \in Runs : s # r => jobs'[s] = jobs[s]
  BY <1>1 DEF TypeOK, Job, NoJob
<1>5. /\ jobs[r].status \in {"QUEUED", "RUNNING"} /\ jobs[r] # NoJob
      /\ cmd[p].attempt = jobs[r].attempt + 1 /\ jobs[r].attempt \in Nat
  BY <1>1, JobColumns DEF RowIsHeld, EnqueuingIsAlone
<1>6. TypeOK'
  <2>1. jobs' \in [Runs -> Job \cup {NoJob}]
    BY <1>1, <1>4 DEF TypeOK
  <2>2. \A s \in Runs : jobs'[s].status = "RUNNING" => jobs'[s].lease # NoLease
    BY <1>1, <1>4 DEF TypeOK, NoLease
  <2>3. QED
    BY <2>1, <2>2, <1>3 DEF TypeOK, Steps
<1>7. \A q \in Processes : pc[q] # "idle" =>
         cmd[q].run \in Runs /\ cmd[q].attempt \in 0..MaxAttempts /\ cmd[q].lease \in Nat
  BY Processing
<1> HIDE DEF r
<1>8. OneRunPerKey' /\ ChunksAreOneBatch'
  BY <1>3, <1>4, <1>5 DEF OneRunPerKey, ChunksAreOneBatch, ChunksOf
<1>9. AttemptsAreGrantedOnce'
  BY <1>1, <1>2, <1>3, <1>4, <1>5, <1>7 DEF AttemptsAreGrantedOnce, AtWork, On, Processes, r
<1>10. LiveLeaseIsExclusive'
  BY <1>1, <1>2, <1>3 DEF LiveLeaseIsExclusive, AtWork, On, Processes
<1>11. CommandsAreThere'
  BY <1>1, <1>2, <1>3 DEF CommandsAreThere
<1>12. EnqueuingIsAlone'
  BY <1>1, <1>2, <1>3, <1>4, <1>7 DEF EnqueuingIsAlone, KeyTaken, On, r
<1>13. RowIsHeld'
  BY <1>1, <1>2, <1>3, <1>4, <1>7 DEF RowIsHeld, r
<1>14. LeasesAreOrdered'
  <2>1. \A x \in Workers : pc'[x] # "idle" /\ cmd[x].run = r =>
           /\ cmd[x].attempt <= cmd[p].attempt
           /\ cmd[x].lease <= cmd[p].lease
    <3> SUFFICES ASSUME NEW x \in Workers, pc'[x] # "idle", cmd[x].run = r, x # p
                 PROVE  cmd[x].attempt <= cmd[p].attempt /\ cmd[x].lease <= cmd[p].lease
      BY <1>1, QueueAssumption
    <3>1. x \in Processes /\ pc[x] # "idle" /\ pc[x] # "acquired"
      BY <1>1, <1>2 DEF Processes, RowIsHeld, r
    <3>2. cmd[x].attempt <= jobs[r].attempt
      BY <3>1 DEF LeasesAreOrdered
    <3>3. cmd[x].attempt < cmd[p].attempt
      BY <3>1, <3>2, <1>5, <1>7, QueueAssumption
    <3>4. cmd[x].lease = 0
      BY <3>1, <3>3, <1>1 DEF LeasesAreOrdered, r
    <3>5. QED
      BY <3>1, <3>3, <3>4, <1>1, <1>7, QueueAssumption
  <2>2. \A x \in Workers : pc'[x] # "idle" => pc[x] # "idle" /\ x \in Processes
    BY <1>1, <1>2 DEF Processes
  <2>3. \A x \in Workers : pc'[x] # "idle" /\ pc'[x] # "acquired" =>
           /\ jobs'[cmd[x].run].status # "QUEUED"
           /\ cmd[x].attempt <= jobs'[cmd[x].run].attempt
           /\ jobs'[cmd[x].run].status = "RUNNING" => cmd[x].lease <= jobs'[cmd[x].run].lease
    BY <1>1, <1>2, <1>4, <1>7, <2>1, <2>2 DEF LeasesAreOrdered, r
  <2>4. QED
    BY <1>3, <2>2, <2>3 DEF LeasesAreOrdered
<1>15. SavingIsAlone'
  BY <1>1, <1>2, <1>3 DEF SavingIsAlone, ChunksOf, Saving, On
<1>16. ReportsAreFinal'
  BY <1>1, <1>2, <1>3, <1>4, <1>5, <1>7 DEF ReportsAreFinal, Final
<1>17. QED
  BY <1>6, <1>8, <1>9, <1>10, <1>11, <1>12, <1>13, <1>14, <1>15, <1>16
-----------------------------------------------------------------------------
\* A process at work goes on with its job: it saves, reads or writes.
LEMMA MoveStep ==
    ASSUME IInv, NEW p \in Processes, NEW to \in {"saved", "report", "reported"}, NEW c \in Command,
           pc[p] \in {"working", "saved", "report"},
           pc' = [pc EXCEPT ![p] = to], cmd' = [cmd EXCEPT ![p] = c], UNCHANGED tables,
           c.run = cmd[p].run, c.attempt = cmd[p].attempt, c.lease = cmd[p].lease,
           to = "saved" => p \in Workers,
           to \in {"report", "reported"} =>
              /\ c.status \in Final
              /\ "status" \notin c.columns => jobs[c.run].status \in Final,
           to = "reported" => ~Locked(c.run),
           c.batch # {} =>
              /\ p \in Workers
              /\ ChunksOf(c.run) = {}
              /\ \A q \in Processes \ {p} : ~Saving(q, c.run)
    PROVE  IInv'
<1> USE DEF IInv, QueueInv, tables
<1>1. \A q \in Processes : q # p => pc'[q] = pc[q] /\ cmd'[q] = cmd[q]
  BY DEF TypeOK
<1>2. /\ pc'[p] = to /\ cmd'[p] = c
      /\ c.run \in Runs /\ c.attempt \in 0..MaxAttempts /\ c.lease \in Nat
  BY DEF TypeOK, Command
<1>3. UNCHANGED <<runs, jobs, chunks>>
  OBVIOUS
<1>4. \A q \in Processes : pc'[q] # "idle" =>
         /\ pc[q] # "idle" /\ cmd'[q].run = cmd[q].run
         /\ cmd'[q].attempt = cmd[q].attempt /\ cmd'[q].lease = cmd[q].lease
  BY <1>1, <1>2
<1>5. TypeOK'
  BY <1>3 DEF TypeOK, Steps
<1>6. OneRunPerKey' /\ ChunksAreOneBatch'
  BY <1>3 DEF OneRunPerKey, ChunksAreOneBatch, ChunksOf
<1>7. AttemptsAreGrantedOnce'
  BY <1>1, <1>2, <1>3, <1>4 DEF AttemptsAreGrantedOnce, AtWork, On, Processes
<1>8. LiveLeaseIsExclusive'
  BY <1>4 DEF LiveLeaseIsExclusive, AtWork, On, Processes
<1>9. CommandsAreThere'
  BY <1>1, <1>2 DEF CommandsAreThere
<1>10. EnqueuingIsAlone'
  BY <1>1, <1>2, <1>3, <1>4 DEF EnqueuingIsAlone, KeyTaken, On
<1>11. RowIsHeld'
  BY <1>1, <1>2, <1>3, <1>4 DEF RowIsHeld, Locked, On
<1>12. LeasesAreOrdered'
  BY <1>1, <1>2, <1>3, <1>4 DEF LeasesAreOrdered, Processes
<1>13. SavingIsAlone'
  BY <1>1, <1>2, <1>3 DEF SavingIsAlone, ChunksOf, Saving, On
<1>14. ReportsAreFinal'
  BY <1>1, <1>2, <1>3, <1>4 DEF ReportsAreFinal
<1>15. QED
  BY <1>5, <1>6, <1>7, <1>8, <1>9, <1>10, <1>11, <1>12, <1>13, <1>14

\* Batches have an ordinal in common: nobody else is saving chunks, and there are none.
LEMMA SaveChunksStep ==
    ASSUME IInv, NEW p \in Workers, SaveChunks(p)
    PROVE  IInv'
<1>1. PICK batch \in Batches :
         /\ Goto(p, "working", "saved")
         /\ \A q \in Processes : Saving(q, cmd[p].run) => cmd[q].batch \cap batch = {}
         /\ \A x \in ChunksOf(cmd[p].run) : x.ordinal \notin batch
         /\ cmd' = [cmd EXCEPT ![p].batch = batch]
         /\ UNCHANGED tables
  BY DEF SaveChunks
<1>2. PICK first \in Ordinals : \A other \in Batches : first \in other
  BY QueueAssumption
<1> DEFINE c == [cmd[p] EXCEPT !.batch = batch]
<1>3. p \in Processes /\ pc[p] = "working" /\ cmd[p] \in Command /\ cmd[p].run \in Runs
  BY <1>1, Processing DEF Goto, Processes
<1>4. /\ c \in Command /\ c.run = cmd[p].run /\ c.attempt = cmd[p].attempt
      /\ c.lease = cmd[p].lease /\ c.batch = batch
  BY <1>3 DEF Command
<1>5. cmd' = [cmd EXCEPT ![p] = c]
  BY <1>1, <1>3
<1>6. \A q \in Processes : ~Saving(q, cmd[p].run)
  <2> SUFFICES ASSUME NEW q \in Processes, Saving(q, cmd[p].run)
               PROVE  FALSE
    OBVIOUS
  <2>1. cmd[q].batch \in Batches
    BY Processing DEF Saving, On, Command
  <2>2. QED
    BY <1>1, <1>2, <2>1
<1>7. ChunksOf(cmd[p].run) = {}
  <2> SUFFICES ASSUME ChunksOf(cmd[p].run) # {}
               PROVE  FALSE
    OBVIOUS
  <2>1. PICK other \in Batches, n \in 1..MaxAttempts :
           ChunksOf(cmd[p].run) = Rows(cmd[p].run, other, n)
    BY <1>3 DEF IInv, ChunksAreOneBatch
  <2>2. [run |-> cmd[p].run, ordinal |-> first, attempt |-> n] \in ChunksOf(cmd[p].run)
    BY <1>2, <2>1 DEF Rows
  <2>3. QED
    BY <1>1, <1>2, <2>2
<1>8. pc' = [pc EXCEPT ![p] = "saved"] /\ UNCHANGED tables
  BY <1>1 DEF Goto
<1> HIDE DEF c
<1>9. QED
  BY <1>3, <1>4, <1>5, <1>6, <1>7, <1>8, MoveStep

\* A batch is committed where nobody has chunks, and nobody else is saving any.
LEMMA SavedIsWhole ==
    ASSUME IInv, NEW p \in Processes, pc[p] # "idle", chunks' = chunks \cup Saved(p)
    PROVE  /\ chunks' \subseteq Chunk
           /\ ChunksAreOneBatch'
           /\ \A q \in Processes \ {p}, s \in Runs : Saving(q, s) => ChunksOf(s)' = {}
<1>1. PICK r \in Runs, n \in 0..MaxAttempts, batch \in Batches \cup {{}} :
         cmd[p].run = r /\ cmd[p].attempt = n /\ cmd[p].batch = batch
  BY Processing DEF Command
<1>2. CASE batch = {}
  <2>1. chunks' = chunks
    BY <1>1, <1>2 DEF Saved, Rows
  <2>2. QED
    BY <2>1 DEF IInv, QueueInv, TypeOK, ChunksAreOneBatch, ChunksOf, SavingIsAlone
<1>3. CASE batch # {}
  <2>1. Saving(p, r) /\ n \in 1..MaxAttempts /\ batch \in Batches
    BY <1>1, <1>3 DEF Saving, On, IInv, CommandsAreThere, Processes
  <2>2. ChunksOf(r) = {} /\ \A q \in Processes \ {p} : ~Saving(q, r)
    BY <1>1, <2>1 DEF IInv, SavingIsAlone
  <2>3. chunks' = chunks \cup Rows(r, batch, n)
    BY <1>1 DEF Saved
  <2>4. \A s \in Runs : s # r => ChunksOf(s)' = ChunksOf(s)
    BY <2>3 DEF ChunksOf, Rows
  <2>5. ChunksOf(r)' = Rows(r, batch, n)
    BY <2>2, <2>3 DEF ChunksOf, Rows
  <2>6. chunks' \subseteq Chunk
    BY <1>1, <2>1, <2>3, QueueAssumption DEF Rows, Chunk, IInv, QueueInv, TypeOK
  <2>7. ChunksAreOneBatch'
    BY <2>1, <2>4, <2>5 DEF ChunksAreOneBatch, IInv
  <2>8. QED
    BY <2>2, <2>4, <2>6, <2>7 DEF IInv, SavingIsAlone
<1>4. QED
  BY <1>2, <1>3

\* The chunks are there; the worker goes on.
LEMMA CommitChunksStep ==
    ASSUME IInv, NEW p \in Workers, CommitChunks(p)
    PROVE  IInv'
<1> USE DEF IInv, QueueInv, CommitChunks, Goto
<1>1. p \in Processes /\ pc[p] = "saved" /\ cmd[p] \in Command
  BY Processing DEF Processes
<1>2. \A q \in Processes : q # p => pc'[q] = pc[q] /\ cmd'[q] = cmd[q]
  BY DEF TypeOK
<1>3. /\ pc'[p] = "working" /\ cmd'[p] = [cmd[p] EXCEPT !.batch = {}]
      /\ cmd'[p] \in Command /\ cmd'[p].batch = {}
      /\ cmd'[p].run = cmd[p].run /\ cmd'[p].attempt = cmd[p].attempt
      /\ cmd'[p].lease = cmd[p].lease
  BY <1>1 DEF TypeOK, Command
<1>4. UNCHANGED <<runs, jobs>>
  OBVIOUS
<1>5. /\ chunks' \subseteq Chunk
      /\ ChunksAreOneBatch'
      /\ \A q \in Processes \ {p}, s \in Runs : Saving(q, s) => ChunksOf(s)' = {}
  BY <1>1, SavedIsWhole
<1>6. \A q \in Processes : pc'[q] # "idle" =>
         /\ pc[q] # "idle" /\ cmd'[q].run = cmd[q].run
         /\ cmd'[q].attempt = cmd[q].attempt /\ cmd'[q].lease = cmd[q].lease
  BY <1>1, <1>2, <1>3
<1>7. TypeOK'
  BY <1>1, <1>3, <1>4, <1>5 DEF TypeOK, Steps
<1>8. OneRunPerKey'
  BY <1>4 DEF OneRunPerKey
<1>9. AttemptsAreGrantedOnce'
  BY <1>1, <1>2, <1>3, <1>4, <1>6 DEF AttemptsAreGrantedOnce, AtWork, On, Processes
<1>10. LiveLeaseIsExclusive'
  BY <1>6 DEF LiveLeaseIsExclusive, AtWork, On, Processes
<1>11. CommandsAreThere'
  BY <1>1, <1>2, <1>3 DEF CommandsAreThere
<1>12. EnqueuingIsAlone'
  BY <1>1, <1>2, <1>3, <1>4, <1>6 DEF EnqueuingIsAlone, KeyTaken, On
<1>13. RowIsHeld'
  BY <1>1, <1>2, <1>3, <1>4 DEF RowIsHeld
<1>14. LeasesAreOrdered'
  BY <1>1, <1>2, <1>3, <1>4 DEF LeasesAreOrdered, Processes
<1>15. SavingIsAlone'
  <2> SUFFICES ASSUME NEW q \in Processes, NEW s \in Runs, Saving(q, s)'
               PROVE  /\ ChunksOf(s)' = {}
                      /\ \A x \in Processes \ {q} : ~Saving(x, s)'
    BY DEF SavingIsAlone
  <2>1. \A x \in Processes : Saving(x, s)' => x # p /\ Saving(x, s)
    BY <1>2, <1>3 DEF Saving, On
  <2>2. q # p /\ Saving(q, s)
    BY <2>1
  <2>3. ChunksOf(s)' = {}
    BY <1>5, <2>2
  <2>4. QED
    BY <2>1, <2>2, <2>3 DEF SavingIsAlone
<1>16. ReportsAreFinal'
  BY <1>2, <1>3, <1>4 DEF ReportsAreFinal
<1>17. QED
  BY <1>5, <1>7, <1>8, <1>9, <1>10, <1>11, <1>12, <1>13, <1>14, <1>15, <1>16

\* update_job leaves out the status when the row had it, which is a final one.
LEMMA ReportStep ==
    ASSUME IInv, NEW p \in Workers, Report(p)
    PROVE  IInv'
<1>1. PICK from \in {"working", "saved"}, status \in Final \ {"CANCELLED"} :
         /\ Goto(p, from, "report")
         /\ cmd' = [cmd EXCEPT ![p].status = status,
                               ![p].columns = ColumnsToWrite(jobs[cmd[p].run], status)]
         /\ UNCHANGED tables
  BY DEF Report
<1> DEFINE columns == ColumnsToWrite(jobs[cmd[p].run], status)
           c == [cmd[p] EXCEPT !.status = status, !.columns = columns]
<1>2. p \in Processes /\ pc[p] = from /\ cmd[p] \in Command /\ cmd[p].run \in Runs
  BY <1>1, Processing DEF Goto, Processes
<1>3. columns \subseteq {"status", "lease"}
      /\ ("status" \notin columns => jobs[cmd[p].run].status = status)
  BY DEF ColumnsToWrite
<1>4. cmd' = [cmd EXCEPT ![p] = c]
  BY <1>1, <1>2
<1> HIDE DEF columns
<1>5. /\ c \in Command /\ c.run = cmd[p].run /\ c.attempt = cmd[p].attempt
      /\ c.lease = cmd[p].lease /\ c.batch = cmd[p].batch
      /\ c.status = status /\ c.columns = columns
  BY <1>2, <1>3 DEF Command
<1>6. pc' = [pc EXCEPT ![p] = "report"] /\ UNCHANGED tables
  BY <1>1 DEF Goto
<1>7. cmd[p].batch # {} => /\ ChunksOf(cmd[p].run) = {}
                           /\ \A q \in Processes \ {p} : ~Saving(q, cmd[p].run)
  BY <1>2 DEF IInv, SavingIsAlone, Saving, On
<1> HIDE DEF c
<1>8. QED
  BY <1>2, <1>3, <1>4, <1>5, <1>6, <1>7, MoveStep

\* The row is free when the UPDATE gets it.
LEMMA WriteJobStep ==
    ASSUME IInv, NEW p \in Processes, WriteJob(p)
    PROVE  IInv'
<1>1. pc[p] = "report" /\ cmd[p] \in Command
  BY Processing DEF WriteJob, Goto
<1>2. cmd[p].run \in Runs /\ cmd[p].status \in Final
  BY <1>1 DEF Command, IInv, CommandsAreThere
<1>3. "status" \notin cmd[p].columns => jobs[cmd[p].run].status \in Final
  BY <1>1 DEF IInv, ReportsAreFinal
<1>4. cmd[p].batch # {} =>
         /\ p \in Workers
         /\ ChunksOf(cmd[p].run) = {}
         /\ \A q \in Processes \ {p} : ~Saving(q, cmd[p].run)
  BY <1>1, <1>2 DEF IInv, SavingIsAlone, CommandsAreThere, Saving, On
<1>5. cmd' = [cmd EXCEPT ![p] = cmd[p]]
  BY DEF WriteJob, IInv, QueueInv, TypeOK
<1>6. pc' = [pc EXCEPT ![p] = "reported"] /\ UNCHANGED tables /\ ~Locked(cmd[p].run)
  BY DEF WriteJob, Goto
<1>7. QED
  BY <1>1, <1>2, <1>3, <1>4, <1>5, <1>6, MoveStep

\* A client cancels a job that is there, and nobody is enqueuing its run any more.
LEMMA CancelStep ==
    ASSUME IInv, NEW p \in Clients, NEW r \in Runs, Cancel(p, r)
    PROVE  IInv'
<1> USE DEF IInv, QueueInv, Cancel, Goto, tables
<1> DEFINE columns == ColumnsToWrite(jobs[r], "CANCELLED")
           c == [run |-> r, attempt |-> 0, lease |-> 0, batch |-> {}, status |-> "CANCELLED",
                 columns |-> columns]
<1>1. p \in Processes /\ pc[p] = "idle" /\ p \notin Workers
  BY QueueAssumption DEF Processes
<1>2. \A q \in Processes : q # p => pc'[q] = pc[q] /\ cmd'[q] = cmd[q]
  BY DEF TypeOK
<1>3. pc'[p] = "report" /\ cmd'[p] = c
  BY <1>1 DEF TypeOK
<1>4. columns \subseteq {"status", "lease"}
      /\ ("status" \notin columns => jobs[r].status = "CANCELLED")
  BY DEF ColumnsToWrite
<1> HIDE DEF columns
<1>5. /\ c \in Command /\ c.run = r /\ c.batch = {}
      /\ c.status = "CANCELLED" /\ c.columns = columns
  BY <1>4, QueueAssumption DEF Command, Final
<1> HIDE DEF c
<1>6. UNCHANGED <<runs, jobs, chunks>> /\ jobs[r] # NoJob
  OBVIOUS
<1>7. TypeOK'
  BY <1>1, <1>3, <1>5, <1>6 DEF TypeOK, Steps, c, columns
<1>8. OneRunPerKey' /\ ChunksAreOneBatch'
  BY <1>6 DEF OneRunPerKey, ChunksAreOneBatch, ChunksOf
<1>9. AttemptsAreGrantedOnce' /\ LiveLeaseIsExclusive'
  BY <1>1, <1>2, <1>6 DEF AttemptsAreGrantedOnce, LiveLeaseIsExclusive, AtWork, On, Processes
<1>10. CommandsAreThere'
  BY <1>1, <1>2, <1>3, <1>5 DEF CommandsAreThere, Final
<1>11. EnqueuingIsAlone'
  BY <1>1, <1>2, <1>3, <1>5, <1>6 DEF EnqueuingIsAlone, KeyTaken, On, OneRunPerKey
<1>12. RowIsHeld'
  BY <1>1, <1>2, <1>3, <1>6 DEF RowIsHeld
<1>13. LeasesAreOrdered'
  BY <1>1, <1>2, <1>6 DEF LeasesAreOrdered, Processes
<1>14. SavingIsAlone'
  BY <1>2, <1>3, <1>5, <1>6 DEF SavingIsAlone, ChunksOf, Saving, On
<1>15. ReportsAreFinal'
  BY <1>2, <1>3, <1>4, <1>5, <1>6 DEF ReportsAreFinal, Final
<1>16. QED
  BY <1>7, <1>8, <1>9, <1>10, <1>11, <1>12, <1>13, <1>14, <1>15

\* What a report leaves in the row is a final status without a lease, beside what it
\* did not write.
LEMMA ReportedJob ==
    ASSUME IInv, NEW p \in Processes, pc[p] = "reported"
    PROVE  LET job == jobs[cmd[p].run]  after == JobAfter(p) IN
           /\ after \in Job /\ after # NoJob
           /\ after.attempt = job.attempt
           /\ after.status \in Final
           /\ after.status = cmd[p].status \/ after.status = job.status
<1> DEFINE r == cmd[p].run
           job == jobs[r]
<1>1. /\ r \in Runs /\ cmd[p].status \in Final
      /\ "status" \notin cmd[p].columns => job.status \in Final
      /\ job # NoJob /\ job \in Job \cup {NoJob}
  BY Processing DEF IInv, QueueInv, CommandsAreThere, ReportsAreFinal, EnqueuingIsAlone, TypeOK
<1>2. job \in Job
  BY <1>1
<1> HIDE DEF r
<1>3. QED
  BY <1>1, <1>2 DEF JobAfter, Job, NoJob, Final, NoLease, r

\* The report is committed: the job is settled, its run failed or its chunks there.
LEMMA CommitReportStep ==
    ASSUME IInv, NEW p \in Processes, CommitReport(p)
    PROVE  IInv'
<1> USE DEF IInv, QueueInv, CommitReport, End, tables
<1> DEFINE r == cmd[p].run
           status == cmd[p].status
<1>1. pc[p] = "reported" /\ r \in Runs /\ status \in Final
  BY Processing DEF CommandsAreThere
<1>2. \A q \in Processes : q # p => pc'[q] = pc[q] /\ cmd'[q] = cmd[q]
  BY DEF TypeOK
<1>3. pc'[p] = "idle" /\ cmd'[p] = Nothing
  BY <1>1 DEF TypeOK
<1>4. /\ jobs'[r] \in Job /\ jobs'[r] # NoJob
      /\ jobs'[r].attempt = jobs[r].attempt
      /\ jobs'[r].status \in Final
      /\ jobs'[r].status = status \/ jobs'[r].status = jobs[r].status
  BY <1>1, ReportedJob DEF TypeOK
<1>5. \A s \in Runs : s # r => jobs'[s] = jobs[s] /\ runs'[s] = runs[s]
  BY <1>1 DEF TypeOK
<1>6. /\ runs[r] # "NONE"
      /\ runs'[r] = IF status \in {"FAILED", "CANCELLED"} THEN "FAILED" ELSE runs[r]
  BY <1>1 DEF TypeOK, FailsRun, OneRunPerKey, EnqueuingIsAlone
<1>7. /\ chunks' \subseteq Chunk
      /\ ChunksAreOneBatch'
      /\ \A q \in Processes \ {p}, s \in Runs : Saving(q, s) => ChunksOf(s)' = {}
  BY <1>1, SavedIsWhole
<1>9. \A q \in Processes : pc'[q] # "idle" =>
         q # p /\ pc[q] # "idle" /\ cmd'[q] = cmd[q] /\ cmd[q].run \in Runs
  BY <1>2, <1>3, Processing
<1>10. TypeOK'
  <2>1. runs' \in [Runs -> RunStatus \cup {"NONE"}] /\ jobs' \in [Runs -> Job \cup {NoJob}]
    BY <1>1, <1>4 DEF TypeOK, RunStatus
  <2>2. chunks' \subseteq Chunk
    BY <1>7
  <2>3. \A s \in Runs : jobs'[s].status = "RUNNING" => jobs'[s].lease # NoLease
    BY <1>4, <1>5 DEF TypeOK, Final
  <2>4. pc' \in [Processes -> Steps] /\ cmd' \in [Processes -> Command \cup {Nothing}]
    BY DEF TypeOK, Steps
  <2>5. QED
    BY <2>1, <2>2, <2>3, <2>4 DEF TypeOK
<1> HIDE DEF r, status
<1>11. OneRunPerKey'
  BY <1>4, <1>5, <1>6 DEF OneRunPerKey
<1>12. AttemptsAreGrantedOnce'
  BY <1>2, <1>4, <1>5, <1>9 DEF AttemptsAreGrantedOnce, AtWork, On, Processes
<1>13. LiveLeaseIsExclusive'
  BY <1>9 DEF LiveLeaseIsExclusive, AtWork, On, Processes
<1>16. CommandsAreThere'
  BY <1>2, <1>3 DEF CommandsAreThere
<1>17. EnqueuingIsAlone'
  <2>1. \A q \in Processes : pc'[q] \in {"insert", "enqueued"} =>
           /\ runs'[cmd'[q].run] = "NONE"
           /\ \A x \in Processes \ {q} : ~On(x, cmd[q].run)'
    BY <1>2, <1>3, <1>5, <1>6, <1>9 DEF EnqueuingIsAlone, On
  <2>2. \A s \in Runs : runs'[s] = "NONE" <=> runs[s] = "NONE"
    BY <1>5, <1>6
  <2>3. \A x, q \in Processes : pc'[x] = "enqueued" =>
           /\ ~KeyTaken(KeyOf[cmd[x].run])'
           /\ pc'[q] = "enqueued" /\ x # q => KeyOf[cmd'[x].run] # KeyOf[cmd'[q].run]
    BY <1>2, <1>3, <2>2 DEF EnqueuingIsAlone, KeyTaken
  <2>4. \A q \in Processes : pc'[q] \notin {"idle", "insert", "enqueued"} => jobs'[cmd'[q].run] # NoJob
    BY <1>4, <1>5, <1>9, <1>2 DEF EnqueuingIsAlone
  <2>5. QED
    BY <2>1, <2>3, <2>4 DEF EnqueuingIsAlone
<1>18. RowIsHeld'
  BY <1>1, <1>2, <1>3, <1>5, <1>9 DEF RowIsHeld, r
<1>19. LeasesAreOrdered'
  <2>1. \A x \in Workers : pc'[x] # "idle" => x \in Processes
    BY DEF Processes
  <2>2. \A x \in Workers : pc'[x] # "idle" /\ pc'[x] # "acquired" =>
           /\ jobs'[cmd'[x].run].status # "QUEUED"
           /\ cmd'[x].attempt <= jobs'[cmd'[x].run].attempt
           /\ jobs'[cmd'[x].run].status = "RUNNING" => cmd'[x].lease <= jobs'[cmd'[x].run].lease
    BY <1>2, <1>4, <1>5, <1>9, <2>1 DEF LeasesAreOrdered, Final
  <2>3. QED
    BY <1>2, <1>9, <2>1, <2>2 DEF LeasesAreOrdered
<1>20. SavingIsAlone'
  <2> SUFFICES ASSUME NEW q \in Processes, NEW s \in Runs, Saving(q, s)'
               PROVE  /\ ChunksOf(s)' = {}
                      /\ \A x \in Processes \ {q} : ~Saving(x, s)'
    BY DEF SavingIsAlone
  <2>1. \A x \in Processes : Saving(x, s)' => x # p /\ Saving(x, s)
    BY <1>2, <1>3 DEF Saving, On
  <2>2. q # p /\ Saving(q, s)
    BY <2>1
  <2>3. ChunksOf(s)' = {}
    BY <1>7, <2>2
  <2>4. QED
    BY <2>1, <2>2, <2>3 DEF SavingIsAlone
<1>21. ReportsAreFinal'
  BY <1>2, <1>4, <1>5, <1>9 DEF ReportsAreFinal
<1>22. QED
  BY <1>7, <1>10, <1>11, <1>12, <1>13, <1>16, <1>17, <1>18, <1>19, <1>20, <1>21
-----------------------------------------------------------------------------
\* Leases run down together, and not below zero.
LEMMA LessIsLess ==
    /\ Less(NoLease) = NoLease
    /\ \A n \in Nat : Less(n) \in Nat /\ (n = 0 => Less(n) = 0)
    /\ \A m, n \in Nat : m <= n => Less(m) <= Less(n)
BY DEF Less, NoLease

\* The clock: leases get shorter together, and keep their order.
LEMMA TickStep ==
    ASSUME IInv, Tick
    PROVE  IInv'
<1> USE DEF IInv, QueueInv
<1>1. UNCHANGED <<runs, chunks, pc>>
  BY DEF Tick
<1>2. \A q \in Processes : pc[q] # "idle" =>
         /\ cmd[q] \in Command /\ cmd'[q] \in Command
         /\ cmd'[q].run = cmd[q].run /\ cmd'[q].attempt = cmd[q].attempt
         /\ cmd'[q].status = cmd[q].status /\ cmd'[q].columns = cmd[q].columns
         /\ cmd'[q].batch = cmd[q].batch
         /\ cmd'[q].lease = Less(cmd[q].lease)
         /\ cmd[q].run \in Runs /\ cmd[q].lease \in Nat
  BY LessIsLess DEF CommandsAreThere, Command, Tick
<1>3. \A r \in Runs :
         /\ jobs'[r] \in Job \cup {NoJob}
         /\ jobs'[r].status = jobs[r].status /\ jobs'[r].attempt = jobs[r].attempt
         /\ jobs'[r].lease = Less(jobs[r].lease)
         /\ jobs'[r] = NoJob <=> jobs[r] = NoJob
  <2> SUFFICES ASSUME NEW r \in Runs
               PROVE  /\ jobs'[r] \in Job \cup {NoJob}
                      /\ jobs'[r].status = jobs[r].status /\ jobs'[r].attempt = jobs[r].attempt
                      /\ jobs'[r].lease = Less(jobs[r].lease)
                      /\ jobs'[r] = NoJob <=> jobs[r] = NoJob
    OBVIOUS
  <2>1. jobs'[r] = [jobs[r] EXCEPT !.lease = Less(jobs[r].lease)]
    BY DEF Tick
  <2>2. CASE jobs[r] = NoJob
    BY <2>1, <2>2, LessIsLess DEF NoJob
  <2>3. CASE jobs[r] \in Job
    BY <2>1, <2>3, LessIsLess DEF Job, NoJob, Final
  <2>4. QED
    BY <2>2, <2>3 DEF TypeOK
<1>4. TypeOK'
  <2>1. jobs' \in [Runs -> Job \cup {NoJob}]
    BY <1>3 DEF Tick
  <2>2. cmd' \in [Processes -> Command \cup {Nothing}]
    BY <1>2 DEF TypeOK, Tick
  <2>3. \A r \in Runs : jobs'[r].status = "RUNNING" => jobs'[r].lease # NoLease
    <3> SUFFICES ASSUME NEW r \in Runs, jobs'[r].status = "RUNNING"
                 PROVE  jobs'[r].lease # NoLease
      OBVIOUS
    <3>1. jobs[r].status = "RUNNING" /\ jobs[r].lease # NoLease
      BY <1>3 DEF TypeOK
    <3>2. jobs[r].lease \in Nat
      BY <3>1, JobColumns
    <3>3. QED
      BY <3>2, <1>3, LessIsLess DEF NoLease
  <2>4. QED
    BY <1>1, <2>1, <2>2, <2>3 DEF TypeOK
<1>5. OneRunPerKey' /\ ChunksAreOneBatch'
  BY <1>1, <1>3 DEF OneRunPerKey, ChunksAreOneBatch, ChunksOf
<1>6. AttemptsAreGrantedOnce'
  BY <1>1, <1>2, <1>3 DEF AttemptsAreGrantedOnce, AtWork, On, Processes
<1>7. LiveLeaseIsExclusive'
  BY <1>1, <1>2, LessIsLess DEF LiveLeaseIsExclusive, AtWork, On, Processes
<1>8. CommandsAreThere'
  BY <1>1, <1>2 DEF CommandsAreThere
<1>9. EnqueuingIsAlone'
  BY <1>1, <1>2, <1>3 DEF EnqueuingIsAlone, KeyTaken, On
<1>10. RowIsHeld'
  BY <1>1, <1>2, <1>3 DEF RowIsHeld
<1>11. LeasesAreOrdered'
  <2> SUFFICES ASSUME NEW w \in Workers, pc[w] # "idle"
               PROVE  LET job == jobs'[cmd'[w].run] IN
                      /\ pc[w] # "acquired" =>
                            /\ job.status # "QUEUED"
                            /\ cmd'[w].attempt <= job.attempt
                            /\ job.status = "RUNNING" => cmd'[w].lease <= job.lease
                      /\ \A x \in Workers :
                            pc[x] # "idle" /\ cmd'[x].run = cmd'[w].run
                               /\ cmd'[x].attempt < cmd'[w].attempt
                               => cmd'[x].lease = 0
    BY <1>1 DEF LeasesAreOrdered
  <2>1. w \in Processes /\ \A x \in Workers : x \in Processes
    BY DEF Processes
  <2>2. jobs[cmd[w].run].status = "RUNNING" => jobs[cmd[w].run].lease \in Nat
    BY <1>2, <2>1, JobColumns DEF TypeOK
  <2>3. QED
    BY <1>2, <1>3, <2>1, <2>2, LessIsLess DEF LeasesAreOrdered
<1>12. SavingIsAlone'
  BY <1>1, <1>2 DEF SavingIsAlone, ChunksOf, Saving, On
<1>13. ReportsAreFinal'
  BY <1>1, <1>2, <1>3 DEF ReportsAreFinal
<1>14. QED
  BY <1>4, <1>5, <1>6, <1>7, <1>8, <1>9, <1>10, <1>11, <1>12, <1>13
-----------------------------------------------------------------------------
\* The invariant holds of the empty tables.
LEMMA InitIInv == Init => IInv
<1> SUFFICES ASSUME Init PROVE IInv
  OBVIOUS
<1>1. TypeOK
  BY DEF Init, TypeOK, Steps, NoJob
<1>2. OneRunPerKey /\ ChunksAreOneBatch
  BY DEF Init, OneRunPerKey, ChunksAreOneBatch, ChunksOf, NoJob
<1>3. AttemptsAreGrantedOnce /\ LiveLeaseIsExclusive
  BY DEF Init, AttemptsAreGrantedOnce, LiveLeaseIsExclusive, AtWork, On, Processes
<1>4. CommandsAreThere /\ EnqueuingIsAlone /\ RowIsHeld
  BY DEF Init, CommandsAreThere, EnqueuingIsAlone, RowIsHeld
<1>5. LeasesAreOrdered /\ SavingIsAlone /\ ReportsAreFinal
  BY DEF Init, LeasesAreOrdered, SavingIsAlone, Saving, On, ReportsAreFinal, Processes
<1>6. QED
  BY <1>1, <1>2, <1>3, <1>4, <1>5 DEF IInv, QueueInv

\* A step that changes nothing keeps the invariant.
LEMMA StutterIInv == IInv /\ UNCHANGED vars => IInv'
BY DEF vars, IInv, QueueInv, TypeOK, OneRunPerKey, ChunksAreOneBatch, ChunksOf,
       AttemptsAreGrantedOnce, LiveLeaseIsExclusive, AtWork, On, CommandsAreThere,
       EnqueuingIsAlone, KeyTaken, RowIsHeld, LeasesAreOrdered, SavingIsAlone, Saving,
       ReportsAreFinal

\* Every step keeps the invariant.
LEMMA StepIInv == IInv /\ [Next]_vars => IInv'
<1> SUFFICES ASSUME IInv, [Next]_vars PROVE IInv'
  OBVIOUS
<1>1. ASSUME NEW w \in Workers, WorkerStep(w) PROVE IInv'
  <2>1. w \in Processes
    BY DEF Processes
  <2>2. QED
    BY <1>1, <2>1, AcquireStep, CommitAcquireStep, SaveChunksStep, CommitChunksStep, ReportStep,
       WriteJobStep, CommitReportStep DEF WorkerStep
<1>2. ASSUME NEW c \in Clients, ClientStep(c) PROVE IInv'
  <2>1. c \in Processes
    BY DEF Processes
  <2>2. QED
    BY <1>2, <2>1, InsertRunStep, CommitRunStep, WriteJobStep, CommitReportStep DEF ClientStep
<1>3. ASSUME NEW c \in Clients, NEW r \in Runs,
             Enqueue(c, r) \/ (c \in Cancellers /\ Cancel(c, r))
      PROVE  IInv'
  BY <1>3, EnqueueStep, CancelStep
<1>4. ASSUME NEW p \in Processes, Crash(p) PROVE IInv'
  BY <1>4, EndStep DEF Crash
<1>5. QED
  BY <1>1, <1>2, <1>3, <1>4, TickStep, StutterIInv DEF Next

\* The invariant behind the theorems below.
THEOREM Inductive == Spec => []IInv
BY InitIInv, StepIInv, PTL DEF Spec

\* One run for a key and one worker for an attempt, however many clients and workers
\* race, crash, outlive their leases or cancel.
THEOREM QueueIsConsistent == Spec => []QueueInv
<1>1. IInv => QueueInv
  BY DEF IInv
<1>2. QED
  BY Inductive, <1>1, PTL

\* Nobody else is given a job while the lease of its worker runs.
THEOREM LiveLease == Spec => []LiveLeaseIsExclusive
<1>1. IInv => LiveLeaseIsExclusive
  BY DEF IInv
<1>2. QED
  BY Inductive, <1>1, PTL

\* The chunks of a run are one whole batch of one attempt, whichever workers save and
\* whatever they report.
THEOREM OneBatch == Spec => []ChunksAreOneBatch
<1>1. IInv => ChunksAreOneBatch
  BY DEF IInv
<1>2. QED
  BY Inductive, <1>1, PTL

\* A settled job stays settled: what is being acquired is held and not settled, and a
\* report leaves a final status behind.
LEMMA SettledStep ==
    ASSUME IInv, [Next]_vars, NEW r \in Runs, jobs[r].status \in Final
    PROVE  jobs'[r].status \in Final /\ jobs'[r].attempt = jobs[r].attempt
<1>1. TypeOK
  BY DEF IInv, QueueInv
<1>2. ASSUME NEW c \in Clients, CommitRun(c)
      PROVE  jobs'[r] = jobs[r]
  <2>1. c \in Processes /\ pc[c] = "enqueued" /\ cmd[c].run \in Runs
    BY <1>2, Processing DEF Processes, CommitRun
  <2>2. jobs[cmd[c].run] = NoJob
    BY <2>1 DEF IInv, QueueInv, EnqueuingIsAlone, OneRunPerKey
  <2>3. cmd[c].run # r
    BY <2>2 DEF NoJob, Final
  <2>4. QED
    BY <1>1, <1>2, <2>1, <2>3 DEF CommitRun, TypeOK
<1>3. ASSUME NEW w \in Workers, CommitAcquire(w)
      PROVE  jobs'[r] = jobs[r]
  <2>1. w \in Processes /\ pc[w] = "acquired" /\ cmd[w].run \in Runs
    BY <1>3, Processing DEF Processes, CommitAcquire, Goto
  <2>2. cmd[w].run # r
    BY <2>1 DEF IInv, RowIsHeld, Final
  <2>3. QED
    BY <1>1, <1>3, <2>1, <2>2 DEF CommitAcquire, TypeOK
<1>4. ASSUME NEW p \in Processes, CommitReport(p)
      PROVE  jobs'[r].status \in Final /\ jobs'[r].attempt = jobs[r].attempt
  BY <1>1, <1>4, ReportedJob DEF CommitReport, TypeOK
<1>5. CASE Tick
  <2>1. jobs'[r] = [jobs[r] EXCEPT !.lease = Less(jobs[r].lease)]
    BY <1>5 DEF Tick
  <2>2. jobs[r] \in Job
    BY <1>1 DEF TypeOK, NoJob, Final
  <2>3. QED
    BY <2>1, <2>2 DEF Job
<1>6. CASE UNCHANGED jobs
  BY <1>6
<1>7. QED
  BY <1>2, <1>3, <1>4, <1>5, <1>6 DEF Next, vars, WorkerStep, ClientStep, Acquire, SaveChunks,
     CommitChunks, Report, WriteJob, InsertRun, Enqueue, Cancel, Crash, Begin, tables, Processes

\* A settled job is never taken up again, however acquisitions, cancellations and the
\* reports of ousted workers cross.
THEOREM Settled == Spec => SettledForGood
<1>1. IInv /\ [Next]_vars =>
         [\A r \in Runs : jobs[r].status \in Final =>
             jobs'[r].status \in Final /\ jobs'[r].attempt = jobs[r].attempt]_vars
  BY SettledStep
<1>2. QED
  BY Inductive, <1>1, PTL DEF Spec, SettledForGood
=============================================================================
