---------------------- MODULE ContactDiscoveryQueueProofs ----------------------
(* Theorems about ContactDiscoveryQueue, for any number of accounts, sites *)
(* and workers, any numbers of attempts and any limits.                    *)
EXTENDS ContactDiscoveryQueue, FiniteSetTheorems, TLAPS

-----------------------------------------------------------------------------
(* Types.                                                                  *)

(* A process has a job in hand exactly while it works.                     *)
ProcessOK == \A w \in Worker : Working(w) <=> proc[w].job # None

(* The population of a cohort is inserted as a whole.                      *)
PopulationOK == (\E j \in Job : job[j].status = "absent") => \A j \in Job : job[j].status = "absent"

Typed == TypeOK /\ ProcessOK /\ PopulationOK

(* The rows that reclaim_expired() leaves behind are rows; what it takes   *)
(* back does not run any more, and it touches nothing else.                *)
LEMMA ReclaimType ==
    ASSUME TypeOK
    PROVE  /\ Reclaimed \in [Job -> JobRow]
           /\ \A j \in Job : /\ j \in Expired => Reclaimed[j].status \in {"CANCELLED", "DLQ", "RETRYABLE"}
                             /\ j \in Expired /\ Reclaimed[j].status = "DLQ" => Spent(j)
                             /\ j \notin Expired => Reclaimed[j] = job[j]
                             /\ Reclaimed[j].count = job[j].count
                             /\ Reclaimed[j].sited = job[j].sited
<1>1. ASSUME NEW j \in Job
      PROVE  /\ ReclaimedRow(j) \in JobRow
             /\ ReclaimedRow(j).status \in {"CANCELLED", "DLQ", "RETRYABLE"}
             /\ ReclaimedRow(j).status = "DLQ" => Spent(j)
             /\ ReclaimedRow(j).count = job[j].count
             /\ ReclaimedRow(j).sited = job[j].sited
  <2>1. job[j] \in JobRow
    BY DEF TypeOK
  <2>2. CASE job[j].cancel
    BY <2>1, <2>2 DEF ReclaimedRow, JobRow, Status
  <2>3. CASE ~job[j].cancel
    BY <2>1, <2>3 DEF ReclaimedRow, JobRow, Status, Spent
  <2>. QED
    BY <2>2, <2>3
<1>. QED
  BY <1>1 DEF TypeOK, Reclaimed

LEMMA ClaimType ==
    ASSUME Typed, NEW w \in Worker, NEW j \in Job, Claim(w, j)
    PROVE  /\ Typed'
           /\ j \notin Expired => job[j].status \in {"PENDING", "RETRYABLE"}
           /\ job'[j].status = "RUNNING" /\ job'[j].owner = w
           /\ job'[j].sited = job[j].sited
           /\ \A i \in Job : i # j => job'[i] = Reclaimed[i]
<1>. USE DEF Typed
<1>1. Reclaimed \in [Job -> JobRow]
  BY ReclaimType
<1>2. \A row \in JobRow :
          /\ ClaimedRow(row, w) \in JobRow
          /\ ClaimedRow(row, w).status = "RUNNING"
          /\ ClaimedRow(row, w).owner = w
          /\ ClaimedRow(row, w).sited = row.sited
  <2>. SUFFICES ASSUME NEW row \in JobRow
                PROVE  /\ ClaimedRow(row, w) \in JobRow
                       /\ ClaimedRow(row, w).status = "RUNNING"
                       /\ ClaimedRow(row, w).owner = w
                       /\ ClaimedRow(row, w).sited = row.sited
    OBVIOUS
  <2>1. row.count + 1 \in Nat
    BY DEF JobRow
  <2>. QED
    BY <2>1 DEF ClaimedRow, JobRow, Status
<1>3. job' = [Reclaimed EXCEPT ![j] = ClaimedRow(Reclaimed[j], w)]
  BY DEF Claim
<1>4. /\ job' \in [Job -> JobRow]
      /\ job'[j].status = "RUNNING" /\ job'[j].owner = w
      /\ job'[j].sited = Reclaimed[j].sited
      /\ \A i \in Job : i # j => job'[i] = Reclaimed[i]
  BY <1>1, <1>2, <1>3
<1>5. Reclaimed[j].status \in {"PENDING", "RETRYABLE"}
  BY DEF Claim, Candidates
<1>6. TypeOK' /\ ProcessOK'
  <2>1. open' \subseteq Job \X Worker
    BY DEF TypeOK, Claim, AttemptsOfLiveJobs
  <2>2. proc' \in [Worker -> Process] /\ proc'[w] = [pc |-> "running", job |-> j]
        /\ \A v \in Worker : v # w => proc'[v] = proc[v]
    BY DEF TypeOK, Claim, Process
  <2>3. j # None
    BY QueueAssumption
  <2>. QED
    BY <1>4, <2>1, <2>2, <2>3 DEF TypeOK, ProcessOK, Working, Claim
<1>7. PopulationOK'
  <2>1. \A i \in Job : job[i].status # "absent"
    BY <1>5, ReclaimType DEF PopulationOK, Expired
  <2>2. \A i \in Job : Reclaimed[i].status # "absent"
    BY <2>1, ReclaimType
  <2>. QED
    BY <1>4, <2>2 DEF PopulationOK
<1>. QED
  BY <1>4, <1>5, <1>6, <1>7, ReclaimType

LEMMA FinishType ==
    ASSUME Typed, NEW w \in Worker, NEW o \in Outcome, Finish(w, o)
    PROVE  /\ Typed'
           /\ proc[w].job \in Job
           /\ job[proc[w].job].status = "RUNNING" /\ job[proc[w].job].owner = w
           /\ job'[proc[w].job].status \in {"SUCCEEDED", "BLOCKED", "DLQ", "RETRYABLE"}
           /\ job'[proc[w].job].status = "DLQ" => Spent(proc[w].job)
           /\ job'[proc[w].job].count = job[proc[w].job].count
           /\ \A i \in Job : i # proc[w].job => job'[i] = job[i]
           /\ proc'[w].job = None
<1>. USE DEF Typed
<1>. DEFINE j == proc[w].job
<1>1. j \in Job /\ job[j] \in JobRow /\ job[j].status = "RUNNING" /\ job[j].owner = w
  BY DEF Finish, ProcessOK, TypeOK, Process, Owned
<1>2. /\ FinalStatus(j, o) \in {"SUCCEEDED", "BLOCKED", "DLQ", "RETRYABLE"}
      /\ FinalStatus(j, o) = "DLQ" => Spent(j)
  BY DEF FinalStatus
<1>3. /\ FinishedRow(w, j, o) \in JobRow
      /\ FinishedRow(w, j, o).status = FinalStatus(j, o)
      /\ FinishedRow(w, j, o).count = job[j].count
  BY <1>1, <1>2 DEF FinishedRow, JobRow, Status
<1>4. CircuitAfter(j, o) \in [failures : 0 .. CircuitThreshold, cooling : BOOLEAN]
  <2>1. CircuitThreshold \in Nat \ {0}
    BY QueueAssumption
  <2>2. circuit \in [failures : 0 .. CircuitThreshold, cooling : BOOLEAN]
    BY DEF TypeOK
  <2>3. (IF circuit.failures < CircuitThreshold THEN circuit.failures + 1 ELSE CircuitThreshold)
           \in 0 .. CircuitThreshold
    BY <2>1, <2>2
  <2>4. (circuit.cooling \/ circuit.failures + 1 >= CircuitThreshold) \in BOOLEAN
    OBVIOUS
  <2>. QED
    BY <2>1, <2>2, <2>3, <2>4 DEF CircuitAfter
<1>5. job' = [job EXCEPT ![j] = FinishedRow(w, j, o)]
  BY DEF Finish
<1>6. /\ job' \in [Job -> JobRow]
      /\ job'[j] = FinishedRow(w, j, o)
      /\ \A i \in Job : i # j => job'[i] = job[i]
  BY <1>1, <1>3, <1>5 DEF TypeOK
<1>7. /\ proc' \in [Worker -> Process]
      /\ proc'[w] \in {Idle, Down}
      /\ \A v \in Worker : v # w => proc'[v] = proc[v]
  BY DEF Finish, TypeOK, Process, Idle, Down
<1>8. TypeOK' /\ ProcessOK'
  BY <1>4, <1>6, <1>7 DEF Finish, TypeOK, ProcessOK, Working, Idle, Down
<1>9. PopulationOK'
  BY <1>1, <1>2, <1>3, <1>6 DEF PopulationOK
<1>. QED
  BY <1>1, <1>2, <1>3, <1>6, <1>7, <1>8, <1>9 DEF Idle, Down

(* Every other step leaves the jobs in gone, whose leases ran out, and      *)
(* their attempts behind, and starts nothing.                              *)
Leaves(gone) ==
    /\ gone \subseteq Expired
    /\ open' = {a \in open : a[1] \notin gone}
    /\ \A i \in Job :
          /\ job'[i].status = "RUNNING" <=> job[i].status = "RUNNING" /\ i \notin gone
          /\ job'[i].status = "RUNNING" => job'[i].owner = job[i].owner
          /\ job'[i].sited = job[i].sited
          /\ job'[i].count = job[i].count
          /\ job'[i].status = "DLQ" => job[i].status = "DLQ" \/ Spent(i)

(* The rows that the steps of one row write.                               *)
LEMMA RowChanges ==
    ASSUME NEW row \in JobRow
    PROVE  /\ [row EXCEPT !.live = TRUE] \in JobRow
           /\ [row EXCEPT !.live = FALSE] \in JobRow
           /\ [row EXCEPT !.due = TRUE] \in JobRow
           /\ [row EXCEPT !.status = "PENDING", !.due = TRUE] \in JobRow
           /\ [row EXCEPT !.status = "PENDING", !.due = TRUE, !.cancel = FALSE] \in JobRow
           /\ \A st \in Status, b \in BOOLEAN :
                  [row EXCEPT !.cancel = TRUE, !.status = st, !.due = b] \in JobRow
BY DEF JobRow, Status

LEMMA SameRows ==
    ASSUME Typed, UNCHANGED job, UNCHANGED open
    PROVE  Leaves({}) /\ PopulationOK'
BY DEF Leaves, Typed, TypeOK, PopulationOK

(* Steps of a worker that change no row of the queue.                      *)
LEMMA WorkerSteps ==
    ASSUME Typed, NEW w \in Worker,
           WriteOutput(w) \/ LeaseLost(w) \/ Stop(w) \/ Crash(w) \/ Start(w)
    PROVE  Typed' /\ Leaves({})
<1>. USE DEF Typed
<1>1. UNCHANGED job /\ UNCHANGED open
  BY DEF WriteOutput, LeaseLost, Stop, Crash, Start
<1>2. /\ proc' \in [Worker -> Process]
      /\ \/ proc'[w] \in {Idle, Down}
         \/ Working(w) /\ proc'[w].pc = "written" /\ proc'[w].job = proc[w].job
      /\ \A v \in Worker : v # w => proc'[v] = proc[v]
  <2>1. CASE WriteOutput(w)
    BY <2>1 DEF WriteOutput, TypeOK, Process, Working
  <2>2. CASE ~WriteOutput(w)
    BY <2>2 DEF LeaseLost, Stop, Crash, Start, TypeOK, Process, Idle, Down
  <2>. QED
    BY <2>1, <2>2
<1>3. file' \in [Job -> Worker \cup {None}]
  <2>1. CASE WriteOutput(w)
    <3>1. proc[w].job \in Job
      BY <2>1 DEF WriteOutput, ProcessOK, Working, TypeOK, Process
    <3>. QED
      BY <2>1, <3>1 DEF WriteOutput, TypeOK
  <2>2. CASE ~WriteOutput(w)
    BY <2>2 DEF LeaseLost, Stop, Crash, Start, TypeOK
  <2>. QED
    BY <2>1, <2>2
<1>4. TypeOK'
  BY <1>1, <1>2, <1>3 DEF TypeOK, WriteOutput, LeaseLost, Stop, Crash, Start
<1>5. ProcessOK'
  BY <1>2 DEF ProcessOK, Working, Idle, Down
<1>. QED
  BY <1>1, <1>4, <1>5, SameRows

(* Steps that change one row and neither attempts nor processes.           *)
LEMMA RowSteps ==
    ASSUME Typed, NEW j \in Job, NEW row \in JobRow,
           job' = [job EXCEPT ![j] = row],
           UNCHANGED <<open, circuit, file, proc, approved>>,
           row.status = "RUNNING" <=> job[j].status = "RUNNING",
           job[j].status # "absent", row.status # "absent",
           row.owner = job[j].owner, row.sited = job[j].sited, row.count = job[j].count,
           row.status = "DLQ" => job[j].status = "DLQ"
    PROVE  Typed' /\ Leaves({})
<1>. USE DEF Typed
<1>1. /\ job' \in [Job -> JobRow]
      /\ job'[j] = row
      /\ \A i \in Job : i # j => job'[i] = job[i]
  BY DEF TypeOK
<1>2. TypeOK' /\ ProcessOK'
  BY <1>1 DEF TypeOK, ProcessOK, Working
<1>3. PopulationOK'
  BY <1>1 DEF PopulationOK
<1>4. Leaves({})
  BY <1>1 DEF Leaves
<1>. QED
  BY <1>2, <1>3, <1>4

LEMMA QuietSteps ==
    ASSUME Typed, [Next]_vars,
           ~\E w \in Worker, j \in Job : Claim(w, j),
           ~\E w \in Worker, o \in Outcome : Finish(w, o)
    PROVE  Typed' /\ \E gone \in SUBSET Job : Leaves(gone)
<1>. USE DEF Typed
<1>1. ASSUME NEW w \in Worker, ClaimNothing(w)
      PROVE  Typed' /\ Leaves(Expired)
  <2>1. TypeOK' /\ ProcessOK'
    BY <1>1, ReclaimType DEF ClaimNothing, TypeOK, ProcessOK, Working, AttemptsOfLiveJobs
  <2>2. PopulationOK'
    BY <1>1, ReclaimType DEF ClaimNothing, PopulationOK, Expired
  <2>3. Leaves(Expired)
    BY <1>1, ReclaimType DEF ClaimNothing, Leaves, AttemptsOfLiveJobs
  <2>. QED
    BY <2>1, <2>2, <2>3
<1>2. ASSUME NEW w \in Worker, Heartbeat(w)
      PROVE  Typed' /\ Leaves({})
  <2>1. proc[w].job \in Job /\ job[proc[w].job] \in JobRow /\ job[proc[w].job].status = "RUNNING"
    BY <1>2 DEF Heartbeat, ProcessOK, TypeOK, Process, Owned
  <2>2. PICK row \in JobRow : row = [job[proc[w].job] EXCEPT !.live = TRUE]
    BY <2>1, RowChanges
  <2>3. /\ row.status = "RUNNING" /\ row.owner = job[proc[w].job].owner
        /\ row.sited = job[proc[w].job].sited /\ row.count = job[proc[w].job].count
    BY <2>1, <2>2 DEF JobRow
  <2>4. job' = [job EXCEPT ![proc[w].job] = row]
    BY <1>2, <2>2 DEF Heartbeat
  <2>. QED
    BY <1>2, <2>1, <2>3, <2>4, RowSteps DEF Heartbeat
<1>3. ASSUME NEW j \in Job, Expire(j) \/ FallDue(j)
      PROVE  Typed' /\ Leaves({})
  <2>1. job[j] \in JobRow /\ job[j].status \notin {"absent", "DLQ"}
    BY <1>3 DEF Expire, FallDue, TypeOK
  <2>2. PICK row \in JobRow : /\ row \in {[job[j] EXCEPT !.live = FALSE], [job[j] EXCEPT !.due = TRUE]}
                              /\ job' = [job EXCEPT ![j] = row]
    BY <1>3, <2>1, RowChanges DEF Expire, FallDue
  <2>3. /\ row.status = job[j].status /\ row.owner = job[j].owner
        /\ row.sited = job[j].sited /\ row.count = job[j].count
    BY <2>1, <2>2 DEF JobRow
  <2>. QED
    BY <1>3, <2>1, <2>2, <2>3, RowSteps DEF Expire, FallDue
<1>4. ASSUME NEW j \in Job, RequestCancel(j)
      PROVE  Typed' /\ Leaves({})
  <2>1. job[j] \in JobRow /\ job[j].status \notin {"absent", "DLQ"}
    BY <1>4 DEF RequestCancel, TypeOK
  <2>. DEFINE st == IF job[j].status = "RUNNING" THEN job[j].status ELSE "CANCELLED"
  <2>2. st \in Status /\ st \notin {"absent", "DLQ"} /\ (st = "RUNNING" <=> job[j].status = "RUNNING")
    BY <2>1 DEF Status
  <2>3. PICK row \in JobRow :
            row = [job[j] EXCEPT !.cancel = TRUE, !.status = st, !.due = (job[j].status = "RUNNING")]
    BY <2>1, <2>2, RowChanges
  <2>4. /\ row.status = st /\ row.owner = job[j].owner
        /\ row.sited = job[j].sited /\ row.count = job[j].count
    BY <2>1, <2>3 DEF JobRow
  <2>5. job' = [job EXCEPT ![j] = row]
    BY <1>4, <2>1, <2>3 DEF RequestCancel, JobRow
  <2>. QED
    BY <1>4, <2>1, <2>2, <2>4, <2>5, RowSteps DEF RequestCancel
<1>5. ASSUME NEW j \in Job, Retry(j)
      PROVE  Typed' /\ Leaves({})
  <2>1. job[j] \in JobRow /\ job[j].status \notin {"absent", "RUNNING"}
    BY <1>5 DEF Retry, TypeOK
  <2>2. PICK row \in JobRow : row = [job[j] EXCEPT !.status = "PENDING", !.due = TRUE, !.cancel = FALSE]
    BY <2>1, RowChanges DEF Status
  <2>3. /\ row.status = "PENDING" /\ row.owner = job[j].owner
        /\ row.sited = job[j].sited /\ row.count = job[j].count
    BY <2>1, <2>2 DEF JobRow
  <2>4. job' = [job EXCEPT ![j] = row]
    BY <1>5, <2>1, <2>2 DEF Retry, JobRow
  <2>. QED
    BY <1>5, <2>1, <2>3, <2>4, RowSteps DEF Retry
<1>6. CASE Enqueue
  <2>1. \A j \in Job : job[j].status = "absent"
    BY <1>6 DEF Enqueue, PopulationOK
  <2>2. \A j \in Job : /\ job'[j] = [job[j] EXCEPT !.status = "PENDING", !.due = TRUE]
                       /\ job'[j] \in JobRow
    BY <1>6, RowChanges DEF Enqueue, TypeOK, Status
  <2>3. ASSUME NEW j \in Job
        PROVE  /\ job'[j].status = "PENDING"
               /\ job'[j].sited = job[j].sited
               /\ job'[j].count = job[j].count
    <3>1. job[j] \in JobRow /\ job'[j] = [job[j] EXCEPT !.status = "PENDING", !.due = TRUE]
      BY <2>2 DEF TypeOK
    <3>. QED
      BY <3>1 DEF JobRow
  <2>4. TypeOK' /\ ProcessOK' /\ PopulationOK'
    BY <1>6, <2>2, <2>3 DEF Enqueue, TypeOK, ProcessOK, PopulationOK, Working
  <2>5. Leaves({})
    BY <1>6, <2>1, <2>3 DEF Leaves, Enqueue
  <2>. QED
    BY <2>4, <2>5
<1>7. CASE Publish \/ CoolDown \/ UNCHANGED vars
  <2>1. UNCHANGED job /\ UNCHANGED open
    BY <1>7 DEF Publish, CoolDown, vars
  <2>2. TypeOK' /\ ProcessOK'
    BY <1>7 DEF Publish, CoolDown, vars, TypeOK, ProcessOK, Working
  <2>. QED
    BY <2>1, <2>2, SameRows
<1>. QED
  BY <1>1, <1>2, <1>3, <1>4, <1>5, <1>6, <1>7, WorkerSteps
  DEF Next, WorkerStep, ClockStep, OperatorStep, Expired

LEMMA NextType == Typed /\ [Next]_vars => Typed'
<1>. SUFFICES ASSUME Typed, [Next]_vars PROVE Typed'
  OBVIOUS
<1>1. CASE \E w \in Worker, j \in Job : Claim(w, j)
  BY <1>1, ClaimType
<1>2. CASE \E w \in Worker, o \in Outcome : Finish(w, o)
  BY <1>2, FinishType
<1>. QED
  BY <1>1, <1>2, QuietSteps

LEMMA InitType == Init => Typed
<1>. SUFFICES ASSUME Init PROVE Typed
  OBVIOUS
<1>1. job \in [Job -> JobRow] /\ \A j \in Job : job[j].status = "absent"
  BY DEF Init, JobRow, Status
<1>2. circuit \in [failures : 0 .. CircuitThreshold, cooling : BOOLEAN]
  BY QueueAssumption DEF Init
<1>3. proc \in [Worker -> Process] /\ ProcessOK
  BY DEF Init, Process, Down, ProcessOK, Working
<1>. QED
  BY <1>1, <1>2, <1>3 DEF Init, Typed, TypeOK, PopulationOK

(* Every row, attempt, process and file keeps its type.                    *)
THEOREM TypeCorrect == Spec => []TypeOK
<1>1. Typed => TypeOK
  BY DEF Typed
<1>. QED
  BY <1>1, InitType, NextType, PTL DEF Spec

-----------------------------------------------------------------------------
(* Leases and attempts.                                                    *)

Runs(j) == job[j].status = "RUNNING"

(* AttemptsMatchLeases, pair by pair.                                      *)
LeaseInv ==
    /\ Typed
    /\ \A j \in Job : Runs(j) => job[j].owner \in Worker
    /\ \A j \in Job, w \in Worker : <<j, w>> \in open <=> Runs(j) /\ job[j].owner = w

LEMMA LeaseInvImplies == LeaseInv => AttemptsMatchLeases
<1>. SUFFICES ASSUME LeaseInv
              PROVE  open = {<<j, job[j].owner>> : j \in {i \in Job : job[i].status = "RUNNING"}}
  BY DEF AttemptsMatchLeases
<1>1. open \subseteq Job \X Worker
  BY DEF LeaseInv, Typed, TypeOK
<1>2. ASSUME NEW a \in open
      PROVE  a \in {<<j, job[j].owner>> : j \in {i \in Job : job[i].status = "RUNNING"}}
  <2>1. PICK j \in Job, w \in Worker : a = <<j, w>>
    BY <1>1
  <2>2. Runs(j) /\ job[j].owner = w
    BY <2>1 DEF LeaseInv
  <2>. QED
    BY <2>1, <2>2 DEF Runs
<1>3. ASSUME NEW j \in Job, job[j].status = "RUNNING"
      PROVE  <<j, job[j].owner>> \in open
  BY <1>3 DEF LeaseInv, Runs
<1>. QED
  BY <1>2, <1>3

LEMMA NextLeases == LeaseInv /\ [Next]_vars => LeaseInv'
<1>. SUFFICES ASSUME LeaseInv, [Next]_vars PROVE LeaseInv'
  OBVIOUS
<1>1. Typed /\ Typed'
  BY NextType DEF LeaseInv
<1>2. ASSUME NEW w \in Worker, NEW j \in Job, Claim(w, j)
      PROVE  LeaseInv'
  <2>1. \A i \in Job : i # j => job'[i] = Reclaimed[i]
    BY <1>1, <1>2, ClaimType
  <2>2. job'[j].status = "RUNNING" /\ job'[j].owner = w
    BY <1>1, <1>2, ClaimType
  <2>3. \A i \in Job : i # j => (Runs(i)' <=> Runs(i) /\ i \notin Expired) /\ (Runs(i)' => job'[i].owner = job[i].owner)
    BY <1>1, <2>1, ReclaimType DEF Typed, Runs
  <2>4. j \notin Expired => ~Runs(j)
    BY <1>1, <1>2, ClaimType DEF Runs
  <2>5. \A i \in Job, v \in Worker :
            <<i, v>> \in open' <=> (<<i, v>> \in open /\ i \notin Expired) \/ (i = j /\ v = w)
    BY <1>2 DEF Claim, AttemptsOfLiveJobs
  <2>. QED
    BY <1>1, <2>2, <2>3, <2>4, <2>5 DEF LeaseInv, Runs
<1>3. ASSUME NEW w \in Worker, NEW o \in Outcome, Finish(w, o)
      PROVE  LeaseInv'
  <2>. DEFINE j == proc[w].job
  <2>1. /\ j \in Job /\ Runs(j) /\ job[j].owner = w
        /\ job'[j].status # "RUNNING"
        /\ \A i \in Job : i # j => job'[i] = job[i]
    BY <1>1, <1>3, FinishType DEF Runs
  <2>2. open' = open \ {<<j, w>>}
    BY <1>3 DEF Finish
  <2>. QED
    BY <1>1, <2>1, <2>2 DEF LeaseInv, Runs
<1>4. ASSUME NEW gone \in SUBSET Job, Leaves(gone)
      PROVE  LeaseInv'
  <2>1. \A i \in Job : (Runs(i)' <=> Runs(i) /\ i \notin gone) /\ (Runs(i)' => job'[i].owner = job[i].owner)
    BY <1>4 DEF Leaves, Runs
  <2>2. \A i \in Job, v \in Worker : <<i, v>> \in open' <=> <<i, v>> \in open /\ i \notin gone
    BY <1>4 DEF Leaves
  <2>. QED
    BY <1>1, <2>1, <2>2 DEF LeaseInv
<1>. QED
  BY <1>1, <1>2, <1>3, <1>4, QuietSteps

LEMMA InitLeases == Init => LeaseInv
BY InitType DEF Init, LeaseInv, Runs

(* A running job has exactly one open attempt, its owner's: no expiry,     *)
(* late result or restart leaves an attempt open that nobody would close.  *)
THEOREM AttemptsCorrect == Spec => []AttemptsMatchLeases
BY LeaseInvImplies, InitLeases, NextLeases, PTL DEF Spec

-----------------------------------------------------------------------------
(* Attempts that are spent.                                                *)

DeadInv == Typed /\ DeadSpentItsAttempts

LEMMA NextDead == DeadInv /\ [Next]_vars => DeadInv'
<1>. SUFFICES ASSUME DeadInv, [Next]_vars PROVE DeadInv'
  OBVIOUS
<1>1. Typed /\ Typed' /\ \A i \in Job : job[i].status = "DLQ" => Spent(i)
  BY NextType DEF DeadInv, DeadSpentItsAttempts
<1>2. ASSUME \A i \in Job : job'[i].status = "DLQ" => job'[i].count = job[i].count /\ Spent(i)
      PROVE  DeadInv'
  BY <1>1, <1>2 DEF DeadInv, DeadSpentItsAttempts, Spent
<1>3. ASSUME NEW w \in Worker, NEW j \in Job, Claim(w, j)
      PROVE  DeadInv'
  <2>1. /\ job'[j].status = "RUNNING"
        /\ \A i \in Job : i # j => job'[i] = Reclaimed[i]
    BY <1>1, <1>3, ClaimType
  <2>2. ASSUME NEW i \in Job, Reclaimed[i].status = "DLQ"
        PROVE  Reclaimed[i].count = job[i].count /\ Spent(i)
    BY <1>1, <2>2, ReclaimType DEF Typed
  <2>. QED
    BY <1>2, <2>1, <2>2
<1>4. ASSUME NEW w \in Worker, NEW o \in Outcome, Finish(w, o)
      PROVE  DeadInv'
  BY <1>1, <1>2, <1>4, FinishType
<1>5. ASSUME NEW gone \in SUBSET Job, Leaves(gone)
      PROVE  DeadInv'
  BY <1>1, <1>2, <1>5 DEF Leaves
<1>. QED
  BY <1>1, <1>3, <1>4, <1>5, QuietSteps

(* No job is given up before its attempts are spent.                       *)
THEOREM DeadCorrect == Spec => []DeadSpentItsAttempts
<1>1. Init => DeadInv
  BY InitType DEF Init, DeadInv, DeadSpentItsAttempts
<1>2. DeadInv => DeadSpentItsAttempts
  BY DEF DeadInv
<1>. QED
  BY <1>1, <1>2, NextDead, PTL DEF Spec

-----------------------------------------------------------------------------
(* The end of a lease.                                                     *)

LEMMA NextOwner ==
    ASSUME Typed, [Next]_vars
    PROVE  \A j \in Job, w \in Worker :
               job[j].status = "RUNNING" /\ job[j].owner = w /\ job[j].live /\ job'[j].status # "RUNNING"
                   => proc[w].job = j /\ proc'[w].job # j
<1>. SUFFICES ASSUME NEW j \in Job, NEW w \in Worker,
                     job[j].status = "RUNNING", job[j].owner = w, job[j].live, job'[j].status # "RUNNING"
              PROVE  proc[w].job = j /\ proc'[w].job # j
  OBVIOUS
<1>1. j \notin Expired
  BY DEF Expired
<1>2. ASSUME NEW v \in Worker, NEW i \in Job, Claim(v, i)
      PROVE  FALSE
  <2>1. j # i /\ job'[j] = Reclaimed[j]
    BY <1>2, ClaimType
  <2>. QED
    BY <1>1, <2>1, ReclaimType DEF Typed
<1>3. ASSUME NEW v \in Worker, NEW o \in Outcome, Finish(v, o)
      PROVE  proc[w].job = j /\ proc'[w].job # j
  <2>1. proc[v].job = j /\ v = w
    BY <1>3, FinishType
  <2>2. proc'[v].job = None /\ j # None
    BY <1>3, FinishType, QueueAssumption
  <2>. QED
    BY <2>1, <2>2
<1>4. ASSUME NEW gone \in SUBSET Job, Leaves(gone)
      PROVE  FALSE
  BY <1>1, <1>4 DEF Leaves
<1>. QED
  BY <1>2, <1>3, <1>4, QuietSteps

(* A live lease only ends by the hand of its owner: the late result of an  *)
(* earlier owner, or of its earlier incarnation, ends nothing.             *)
THEOREM OwnerCorrect == Spec => OnlyTheOwnerEnds
<1>1. Typed /\ [Next]_vars =>
          [\A j \in Job, w \in Worker :
               job[j].status = "RUNNING" /\ job[j].owner = w /\ job[j].live /\ job'[j].status # "RUNNING"
                   => proc[w].job = j /\ proc'[w].job # j]_vars
  BY NextOwner
<1>. QED
  BY <1>1, InitType, NextType, PTL DEF Spec, OnlyTheOwnerEnds

-----------------------------------------------------------------------------
(* Domains.  claim() counts live leases, but an expired one may be revived *)
(* by a heartbeat: the invariant counts every running job.                 *)

RunningIn(d) == {j \in Job : Runs(j) /\ Domain(job[j], j) = d}

DomainInv == Typed /\ \A d \in Job \cup Site : Cardinality(RunningIn(d)) <= DomainLimit

LEMMA Subsets ==
    \A S \in SUBSET Job : /\ IsFiniteSet(S) /\ Cardinality(S) \in Nat
                          /\ \A T \in SUBSET S : Cardinality(T) <= Cardinality(S)
BY QueueAssumption, FS_Subset, FS_CardinalityType

LEMMA DomainInvImplies == DomainInv => DomainLimitRespected
<1>. SUFFICES ASSUME DomainInv, NEW d \in Job \cup Site
              PROVE  Cardinality({j \in Running(job) : Domain(job[j], j) = d}) <= DomainLimit
  BY DEF DomainLimitRespected
<1>. DEFINE S == {j \in Running(job) : Domain(job[j], j) = d}
<1>1. S \subseteq RunningIn(d) /\ RunningIn(d) \subseteq Job
  BY DEF Running, RunningIn, Runs
<1>2. Cardinality(S) \in Nat /\ Cardinality(RunningIn(d)) \in Nat /\ Cardinality(S) <= Cardinality(RunningIn(d))
  BY <1>1, Subsets
<1>. QED
  BY <1>2, QueueAssumption DEF DomainInv

(* A step after which no job runs that did not run before, where it ran.   *)
LEMMA FewerRunning ==
    ASSUME DomainInv, Typed', NEW d \in Job \cup Site,
           \A i \in Job : i \in RunningIn(d)' => Runs(i) /\ job'[i].sited = job[i].sited
    PROVE  Cardinality(RunningIn(d)') <= DomainLimit
<1>1. RunningIn(d)' \subseteq RunningIn(d) /\ RunningIn(d) \subseteq Job
  BY DEF RunningIn, Domain
<1>2. /\ Cardinality(RunningIn(d)') \in Nat /\ Cardinality(RunningIn(d)) \in Nat
      /\ Cardinality(RunningIn(d)') <= Cardinality(RunningIn(d))
  BY <1>1, Subsets
<1>. QED
  BY <1>2, QueueAssumption DEF DomainInv

LEMMA ClaimRespectsLimit ==
    ASSUME DomainInv, Typed', NEW w \in Worker, NEW j \in Job, Claim(w, j), NEW d \in Job \cup Site
    PROVE  Cardinality(RunningIn(d)') <= DomainLimit
<1>. DEFINE Live == {i \in Running(Reclaimed) : Domain(Reclaimed[i], i) = d}
<1>1. Typed /\ TypeOK
  BY DEF DomainInv, Typed
<1>2. ASSUME NEW i \in Job, i # j, i \in RunningIn(d)'
      PROVE  i \in Live /\ Runs(i) /\ job'[i].sited = job[i].sited
  <2>1. job'[i] = Reclaimed[i]
    BY <1>1, <1>2, ClaimType
  <2>2. Reclaimed[i].status = "RUNNING" /\ i \notin Expired /\ Reclaimed[i] = job[i]
    BY <1>1, <1>2, <2>1, ReclaimType DEF RunningIn, Runs
  <2>3. Reclaimed[i].live
    BY <2>2 DEF Expired
  <2>. QED
    BY <1>2, <2>1, <2>2, <2>3 DEF RunningIn, Runs, Running
<1>3. j \notin Live /\ HasRoom(Reclaimed, j)
  BY DEF Running, Claim, Candidates
<1>4. Domain(job'[j], j) = Domain(Reclaimed[j], j)
  BY <1>1, ClaimType, ReclaimType DEF Domain
<1>5. CASE Domain(Reclaimed[j], j) = d
  <2>1. Cardinality(Live) < DomainLimit
    BY <1>3, <1>5 DEF HasRoom
  <2>2. Live \subseteq Job /\ Live \cup {j} \subseteq Job /\ RunningIn(d)' \subseteq Live \cup {j}
    BY <1>2 DEF Running, RunningIn
  <2>3. Cardinality(Live \cup {j}) = Cardinality(Live) + 1
    BY <1>3, <2>2, Subsets, FS_AddElement
  <2>4. /\ Cardinality(Live) \in Nat /\ Cardinality(RunningIn(d)') \in Nat
        /\ Cardinality(RunningIn(d)') <= Cardinality(Live \cup {j})
    BY <2>2, Subsets
  <2>. QED
    BY <2>1, <2>3, <2>4, QueueAssumption
<1>6. CASE Domain(Reclaimed[j], j) # d
  <2>1. j \notin RunningIn(d)'
    BY <1>4, <1>6 DEF RunningIn
  <2>. QED
    BY <1>2, <2>1, FewerRunning
<1>. QED
  BY <1>5, <1>6

LEMMA NextDomains == DomainInv /\ [Next]_vars => DomainInv'
<1>. SUFFICES ASSUME DomainInv, [Next]_vars, NEW d \in Job \cup Site
              PROVE  Cardinality(RunningIn(d)') <= DomainLimit
  BY NextType DEF DomainInv, RunningIn
<1>1. Typed /\ Typed'
  BY NextType DEF DomainInv
<1>2. ASSUME NEW w \in Worker, NEW j \in Job, Claim(w, j)
      PROVE  Cardinality(RunningIn(d)') <= DomainLimit
  BY <1>1, <1>2, ClaimRespectsLimit
<1>3. ASSUME NEW w \in Worker, NEW o \in Outcome, Finish(w, o)
      PROVE  Cardinality(RunningIn(d)') <= DomainLimit
  <2>1. \A i \in Job : i \in RunningIn(d)' => Runs(i) /\ job'[i].sited = job[i].sited
    BY <1>1, <1>3, FinishType DEF RunningIn, Runs
  <2>. QED
    BY <1>1, <2>1, FewerRunning
<1>4. ASSUME NEW gone \in SUBSET Job, Leaves(gone)
      PROVE  Cardinality(RunningIn(d)') <= DomainLimit
  <2>1. \A i \in Job : i \in RunningIn(d)' => Runs(i) /\ job'[i].sited = job[i].sited
    BY <1>4 DEF RunningIn, Runs, Leaves
  <2>. QED
    BY <1>1, <2>1, FewerRunning
<1>. QED
  BY <1>1, <1>2, <1>3, <1>4, QuietSteps

LEMMA InitDomains == Init => DomainInv
<1>. SUFFICES ASSUME Init, NEW d \in Job \cup Site PROVE Cardinality(RunningIn(d)) <= DomainLimit
  BY InitType DEF DomainInv
<1>1. RunningIn(d) = {}
  BY DEF Init, RunningIn, Runs
<1>. QED
  BY <1>1, FS_EmptySet, QueueAssumption

(* No domain is ever visited by more live leases than its limit, although  *)
(* leases are revived and jobs change their domain.                        *)
THEOREM DomainsCorrect == Spec => []DomainLimitRespected
BY DomainInvImplies, InitDomains, NextDomains, PTL DEF Spec

-----------------------------------------------------------------------------
(* The queue implements LeasedWork, with the search backend as the pool:   *)
(* the holder of an account is the owner in its running row, the task of a *)
(* process is the account it has in hand.                                  *)

(* A step after which the rows run that ran before, for the same workers   *)
(* and as long, and nothing has succeeded.                                 *)
LEMMA RestReopens ==
    ASSUME \A i \in Job : job'[i].status = "RUNNING" <=> job[i].status = "RUNNING",
           \A i \in Job : job[i].status = "RUNNING" =>
               job'[i].owner = job[i].owner /\ job'[i].live = job[i].live,
           \A i \in Job : job'[i].status = "SUCCEEDED" => job[i].status = "SUCCEEDED",
           proc' = proc
    PROVE  Leases!Reopen
<1>1. Holder' = Holder /\ Running(job)' = Running(job) /\ Succeeded' \subseteq Succeeded
  BY DEF Holder, Running, Succeeded
<1>2. Task' = Task
  BY DEF Task
<1>. QED
  BY <1>1, <1>2 DEF Leases!Reopen

LEMMA DroppedTask ==
    ASSUME TypeOK, NEW w \in Worker,
           proc' = [proc EXCEPT ![w] = Idle] \/ proc' = [proc EXCEPT ![w] = Down]
    PROVE  Task' = [Task EXCEPT ![w] = None]
<1>1. proc'[w].job = None /\ \A v \in Worker : v # w => proc'[v] = proc[v]
  BY DEF TypeOK, Idle, Down
<1>. QED
  BY <1>1 DEF Task

LEMMA OwnedIsHeld ==
    ASSUME Typed, NEW w \in Worker, Working(w), Owned(w)
    PROVE  proc[w].job \in Job /\ Task[w] = proc[w].job /\ Leases!Holds(w)
<1>1. proc[w].job \in Job /\ proc[w].job # None
  BY DEF Typed, TypeOK, ProcessOK, Process
<1>. QED
  BY <1>1 DEF Task, Holder, Owned, Leases!Holds

(* The rows that reclaim_expired() leaves running have a live lease.       *)
LEMMA ReclaimedView ==
    ASSUME Typed, NEW i \in Job
    PROVE  /\ Reclaimed[i].status = "RUNNING" <=> i \in Running(job)
           /\ i \in Running(job) => Reclaimed[i] = job[i]
           /\ Reclaimed[i].status = "SUCCEEDED" <=> job[i].status = "SUCCEEDED"
           /\ Leases!Reclaimed[i] = IF i \in Running(job) THEN job[i].owner ELSE None
<1>1. TypeOK
  BY DEF Typed
<1>2. Leases!Reclaimed[i] = IF i \in Running(job) THEN job[i].owner ELSE None
  BY DEF Leases!Reclaimed, Holder, Running
<1>3. CASE i \in Expired
  <2>1. Reclaimed[i].status \in {"CANCELLED", "DLQ", "RETRYABLE"}
    BY <1>1, <1>3, ReclaimType
  <2>2. job[i].status = "RUNNING" /\ i \notin Running(job)
    BY <1>3 DEF Expired, Running
  <2>. QED
    BY <1>2, <2>1, <2>2
<1>4. CASE i \notin Expired
  <2>1. Reclaimed[i] = job[i]
    BY <1>1, <1>4, ReclaimType
  <2>2. job[i].status = "RUNNING" <=> i \in Running(job)
    BY <1>4 DEF Expired, Running
  <2>. QED
    BY <1>2, <2>1, <2>2
<1>. QED
  BY <1>3, <1>4

LEMMA ClaimTakes ==
    ASSUME Typed, NEW w \in Worker, NEW j \in Job, Claim(w, j)
    PROVE  Leases!Take(w, j)
<1>1. /\ Reclaimed \in [Job -> JobRow]
      /\ Reclaimed[j].status \in {"PENDING", "RETRYABLE"}
      /\ HasRoom(Reclaimed, j)
  BY ReclaimType DEF Typed, Claim, Candidates
<1>2. job'[j].status = "RUNNING" /\ job'[j].owner = w /\ job'[j].live
  <2>1. job'[j] = ClaimedRow(Reclaimed[j], w)
    BY <1>1 DEF Claim
  <2>. QED
    BY <1>1, <2>1 DEF ClaimedRow, JobRow
<1>3. \A i \in Job \ {j} :
          /\ job'[i].status = "RUNNING" <=> i \in Running(job)
          /\ i \in Running(job) => job'[i] = job[i]
          /\ job'[i].status = "SUCCEEDED" <=> job[i].status = "SUCCEEDED"
  BY ClaimType, ReclaimedView
<1>4. Task[w] = None /\ Task' = [Task EXCEPT ![w] = j]
  <2>1. proc[w].job = None
    BY DEF Claim, Typed, ProcessOK, Working
  <2>2. proc' = [proc EXCEPT ![w] = [pc |-> "running", job |-> j]] /\ proc \in [Worker -> Process]
    BY DEF Claim, Typed, TypeOK
  <2>. QED
    BY <2>1, <2>2 DEF Task
<1>5. j \notin Running(job) /\ job[j].status # "SUCCEEDED"
  BY <1>1, ReclaimedView
<1>6. Running(job)' = Running(job) \cup {j}
  <2>1. \A i \in Job : i \in Running(job)' <=> i \in Running(job) \/ i = j
    BY <1>2, <1>3 DEF Running
  <2>. QED
    BY <2>1 DEF Running
<1>7. Succeeded' = Succeeded
  BY <1>2, <1>3, <1>5 DEF Succeeded
<1>8. Holder' = [Leases!Reclaimed EXCEPT ![j] = w]
  <2>1. \A i \in Job : Holder'[i] = IF i = j THEN w ELSE Leases!Reclaimed[i]
    BY <1>2, <1>3, ReclaimedView DEF Holder
  <2>. QED
    BY <2>1 DEF Holder, Leases!Reclaimed
<1>9. Cardinality({i \in Job : Holder'[i] # None}) <= BackendLimit
  <2>. DEFINE held == {i \in Job : Holder'[i] # None}
              before == Running(Reclaimed)
  <2>1. held \subseteq before \cup {j} /\ before \subseteq Job
    <3>1. \A i \in Job : i \in Running(job) => i \in before
      BY ReclaimedView DEF Running
    <3>. QED
      BY <1>3, <3>1 DEF Holder, Running
  <2>2. before \cup {j} \in SUBSET Job /\ j \notin before
    BY <1>1, <2>1 DEF Running
  <2>3. Cardinality(before) \in Nat /\ Cardinality(before \cup {j}) = Cardinality(before) + 1
    BY <2>1, <2>2, Subsets, FS_AddElement
  <2>4. Cardinality(held) \in Nat /\ Cardinality(held) <= Cardinality(before \cup {j})
    BY <2>1, <2>2, Subsets
  <2>5. Cardinality(before) < BackendLimit /\ BackendLimit \in Nat
    BY <1>1, QueueAssumption DEF HasRoom
  <2>. QED
    BY <2>3, <2>4, <2>5
<1>10. \A p \in {"backend"} :
           Cardinality({i \in Job : Holder'[i] # None /\ [k \in Job |-> "backend"][i] = p})
               <= [q \in {"backend"} |-> BackendLimit][p]
  <2>1. \A p \in {"backend"} :
            {i \in Job : Holder'[i] # None /\ [k \in Job |-> "backend"][i] = p}
                = {i \in Job : Holder'[i] # None}
    OBVIOUS
  <2>. QED
    BY <1>9, <2>1
<1>11. j \notin Running(job) \cup Succeeded
  BY <1>5 DEF Succeeded
<1>. QED
  BY <1>4, <1>6, <1>7, <1>8, <1>10, <1>11 DEF Leases!Take, Leases!Cardinality, Cardinality

LEMMA ClaimNothingReclaims ==
    ASSUME Typed, NEW w \in Worker, ClaimNothing(w)
    PROVE  Leases!Reclaim
<1>1. job' = Reclaimed /\ proc' = proc
  BY DEF ClaimNothing
<1>2. Task' = Task
  BY <1>1 DEF Task
<1>3. Running(job)' = Running(job) /\ Succeeded' = Succeeded
  BY <1>1, ReclaimedView DEF Running, Succeeded
<1>4. Holder' = Leases!Reclaimed
  <2>1. \A i \in Job : Holder'[i] = Leases!Reclaimed[i]
    BY <1>1, ReclaimedView DEF Holder
  <2>. QED
    BY <2>1 DEF Holder, Leases!Reclaimed
<1>. QED
  BY <1>2, <1>3, <1>4 DEF Leases!Reclaim

LEMMA HeartbeatRenews ==
    ASSUME Typed, NEW w \in Worker, Heartbeat(w)
    PROVE  Leases!Renew(w)
<1>. DEFINE j == proc[w].job
<1>1. j \in Job /\ Task[w] = j /\ Leases!Holds(w) /\ job[j].status = "RUNNING"
  BY OwnedIsHeld DEF Heartbeat, Owned
<1>2. job' = [job EXCEPT ![j].live = TRUE] /\ job \in [Job -> JobRow] /\ proc' = proc
  BY DEF Heartbeat, Typed, TypeOK
<1>. HIDE DEF j
<1>3. /\ \A i \in Job : job'[i].status = job[i].status /\ job'[i].owner = job[i].owner
      /\ \A i \in Job \ {j} : job'[i] = job[i]
      /\ job'[j].live
  BY <1>1, <1>2 DEF JobRow
<1>4. Holder' = Holder /\ Succeeded' = Succeeded /\ Task' = Task
  BY <1>2, <1>3 DEF Holder, Succeeded, Task
<1>5. Running(job)' = Running(job) \cup {j}
  BY <1>1, <1>3 DEF Running
<1>. QED
  BY <1>1, <1>4, <1>5 DEF Leases!Renew

LEMMA FinishReports ==
    ASSUME Typed, NEW w \in Worker, NEW o \in Outcome, Finish(w, o)
    PROVE  \E success \in BOOLEAN : Leases!Report(w, success)
<1>. DEFINE j == proc[w].job
            success == job'[j].status = "SUCCEEDED"
<1>1. j \in Job /\ Task[w] = j /\ Leases!Holds(w)
  BY OwnedIsHeld DEF Finish
<1>2. /\ job[j].status = "RUNNING"
      /\ job'[j].status # "RUNNING"
      /\ \A i \in Job : i # j => job'[i] = job[i]
  BY FinishType
<1>3. Task' = [Task EXCEPT ![w] = None]
  BY DroppedTask DEF Finish, Typed
<1>. HIDE DEF j
<1>4. Holder' = [Holder EXCEPT ![j] = None]
  BY <1>1, <1>2 DEF Holder
<1>5. Running(job)' = Running(job) \ {j}
  BY <1>1, <1>2 DEF Running
<1>6. Succeeded' = IF success THEN Succeeded \cup {j} ELSE Succeeded
  BY <1>1, <1>2 DEF Succeeded
<1>7. Leases!Report(w, success)
  BY <1>1, <1>3, <1>4, <1>5, <1>6 DEF Leases!Report
<1>. QED
  BY <1>7

LEMMA OtherWorkerSteps ==
    ASSUME Typed, NEW w \in Worker,
           WriteOutput(w) \/ LeaseLost(w) \/ Stop(w) \/ Crash(w) \/ Start(w)
    PROVE  Leases!Abandon(w) \/ UNCHANGED Leases!vars
<1>1. Holder' = Holder /\ Running(job)' = Running(job) /\ Succeeded' = Succeeded
  BY DEF WriteOutput, LeaseLost, Stop, Crash, Start, Holder, Running, Succeeded
<1>2. CASE WriteOutput(w)
  <2>1. \A v \in Worker : proc'[v].job = proc[v].job
    BY <1>2 DEF WriteOutput, Typed, TypeOK, Process
  <2>2. Task' = Task
    BY <2>1 DEF Task
  <2>. QED
    BY <1>1, <2>2 DEF Leases!vars
<1>3. CASE ~WriteOutput(w)
  <2>1. Task' = [Task EXCEPT ![w] = None]
    BY <1>3, DroppedTask DEF LeaseLost, Stop, Crash, Start, Typed
  <2>. QED
    BY <1>1, <2>1 DEF Leases!Abandon
<1>. QED
  BY <1>2, <1>3

LEMMA ExpireLapses ==
    ASSUME Typed, NEW j \in Job, Expire(j)
    PROVE  Leases!Lapse
<1>1. \A i \in Job : /\ job'[i].status = job[i].status /\ job'[i].owner = job[i].owner
                     /\ job'[i].live => job[i].live
  BY DEF Expire, Typed, TypeOK, JobRow
<1>2. Holder' = Holder /\ Running(job)' \subseteq Running(job) /\ Succeeded' = Succeeded
  BY <1>1 DEF Holder, Running, Succeeded
<1>3. Task' = Task
  BY DEF Expire, Task
<1>. QED
  BY <1>2, <1>3 DEF Leases!Lapse

(* A cancellation that the operator asks for waits until the lease is over.*)
LEMMA RestSteps ==
    ASSUME Typed, OperatorStep \/ CoolDown \/ \E j \in Job : FallDue(j)
    PROVE  Leases!Reopen
<1>. DEFINE Same(i) ==
               /\ job'[i].status = "RUNNING" <=> job[i].status = "RUNNING"
               /\ job[i].status = "RUNNING" =>
                      job'[i].owner = job[i].owner /\ job'[i].live = job[i].live
               /\ job'[i].status = "SUCCEEDED" => job[i].status = "SUCCEEDED"
<1>1. \A i \in Job : job[i] \in JobRow
  BY DEF Typed, TypeOK
<1>2. proc' = proc
  BY DEF OperatorStep, Enqueue, Publish, RequestCancel, Retry, CoolDown, FallDue
<1>3. ASSUME NEW i \in Job PROVE Same(i)
  <2>1. CASE Enqueue
    <3>1. job[i].status = "absent"
      BY <2>1 DEF Enqueue, Typed, PopulationOK
    <3>2. job'[i].status = "PENDING"
      BY <1>1, <2>1 DEF Enqueue, JobRow
    <3>. QED
      BY <3>1, <3>2
  <2>2. CASE Publish \/ CoolDown
    BY <2>2 DEF Publish, CoolDown
  <2>3. ASSUME NEW j \in Job, RequestCancel(j) PROVE Same(i)
    BY <1>1, <2>3 DEF RequestCancel, Typed, TypeOK, JobRow
  <2>4. ASSUME NEW j \in Job, Retry(j) PROVE Same(i)
    BY <1>1, <2>4 DEF Retry, Typed, TypeOK, JobRow
  <2>5. ASSUME NEW j \in Job, FallDue(j) PROVE Same(i)
    BY <1>1, <2>5 DEF FallDue, Typed, TypeOK, JobRow
  <2>. QED
    BY <2>1, <2>2, <2>3, <2>4, <2>5 DEF OperatorStep
<1>. QED
  BY <1>2, <1>3, RestReopens

LEMMA StepLeases == Typed /\ [Next]_vars => [Leases!Next]_Leases!vars
<1>. SUFFICES ASSUME Typed, [Next]_vars
              PROVE  Leases!Next \/ UNCHANGED Leases!vars
  OBVIOUS
<1>1. ASSUME NEW w \in Worker, WorkerStep(w) PROVE Leases!Next \/ UNCHANGED Leases!vars
  <2>1. CASE \E j \in Job : Claim(w, j)
    BY <2>1, ClaimTakes DEF Leases!Next, Leases!WorkerStep
  <2>2. CASE ClaimNothing(w)
    BY <2>2, ClaimNothingReclaims DEF Leases!Next
  <2>3. CASE Heartbeat(w)
    BY <2>3, HeartbeatRenews DEF Leases!Next, Leases!WorkerStep
  <2>4. CASE \E o \in Outcome : Finish(w, o)
    BY <2>4, FinishReports DEF Leases!Next, Leases!WorkerStep
  <2>5. CASE WriteOutput(w) \/ LeaseLost(w) \/ Stop(w) \/ Crash(w) \/ Start(w)
    BY <2>5, OtherWorkerSteps DEF Leases!Next, Leases!WorkerStep
  <2>. QED
    BY <1>1, <2>1, <2>2, <2>3, <2>4, <2>5 DEF WorkerStep
<1>2. CASE \E j \in Job : Expire(j)
  BY <1>2, ExpireLapses DEF Leases!Next
<1>3. CASE OperatorStep \/ CoolDown \/ \E j \in Job : FallDue(j)
  BY <1>3, RestSteps DEF Leases!Next
<1>4. CASE UNCHANGED vars
  BY <1>4 DEF vars, Leases!vars, Holder, Running, Task, Succeeded
<1>. QED
  BY <1>1, <1>2, <1>3, <1>4 DEF Next, ClockStep

(* The queue implements LeasedWork: an account is in the hands of one      *)
(* worker, the backend is never asked for more jobs at a time than its     *)
(* limit, and a result reported after the lease passed to another worker,  *)
(* or under the name of a worker that was restarted, does not count.       *)
THEOREM LeasedWorkCorrect == Spec => ImplementsLeasedWork
<1>1. Init => Leases!Init
  BY DEF Init, Leases!Init, Holder, Running, Task, Succeeded, Down
<1>. QED
  BY <1>1, InitType, NextType, StepLeases, PTL DEF Spec, ImplementsLeasedWork, Leases!Spec

=============================================================================
