------------------------------ MODULE LeasedWork ------------------------------
(***************************************************************************)
(* What a queue with leases promises those who wait for its jobs, whatever *)
(* rows, attempts, retries and processes it is made of: a job is in the    *)
(* hands of one worker at a time; a lease is only taken back once it ran   *)
(* out; a result counts only while the lease under which the work began is *)
(* still held; and the leases of a pool are never more than its limit.     *)
(*                                                                         *)
(* A worker that lost its lease does not know: it still has its task, and  *)
(* nothing but a report of the work it has now can make anything done.     *)
(***************************************************************************)
EXTENDS Naturals, FiniteSets

CONSTANTS Job, Worker, Pool, PoolOf, Limit, None

VARIABLES
    lease,  \* who holds each job
    live,   \* the leases that have not run out
    task,   \* what each worker is working on
    done    \* the jobs that succeeded

vars == <<lease, live, task, done>>

Init ==
    /\ lease = [j \in Job |-> None]
    /\ live = {}
    /\ task = [w \in Worker |-> None]
    /\ done = {}

\* The leases that are left when those that ran out are taken back.
Reclaimed == [j \in Job |-> IF j \in live THEN lease[j] ELSE None]

Reclaim ==
    /\ lease' = Reclaimed
    /\ UNCHANGED <<live, task, done>>

Take(w, j) ==
    /\ task[w] = None
    /\ j \notin live \cup done
    /\ task' = [task EXCEPT ![w] = j]
    /\ live' = live \cup {j}
    /\ lease' = [Reclaimed EXCEPT ![j] = w]
    /\ \A p \in Pool : Cardinality({i \in Job : lease'[i] # None /\ PoolOf[i] = p}) <= Limit[p]
    /\ UNCHANGED done

Holds(w) == task[w] # None /\ lease[task[w]] = w

Renew(w) ==
    /\ Holds(w)
    /\ live' = live \cup {task[w]}
    /\ UNCHANGED <<lease, task, done>>

Report(w, success) ==
    /\ Holds(w)
    /\ lease' = [lease EXCEPT ![task[w]] = None]
    /\ live' = live \ {task[w]}
    /\ task' = [task EXCEPT ![w] = None]
    /\ done' = IF success THEN done \cup {task[w]} ELSE done

\* The worker dies, or finds out that its lease is lost.
Abandon(w) ==
    /\ task' = [task EXCEPT ![w] = None]
    /\ UNCHANGED <<lease, live, done>>

Lapse ==
    /\ live' \subseteq live
    /\ UNCHANGED <<lease, task, done>>

\* Jobs that succeeded are to be done again.
Reopen ==
    /\ done' \subseteq done
    /\ UNCHANGED <<lease, live, task>>

WorkerStep(w) ==
    \/ \E j \in Job : Take(w, j)
    \/ Renew(w)
    \/ \E success \in BOOLEAN : Report(w, success)
    \/ Abandon(w)

Next == Reclaim \/ Lapse \/ Reopen \/ \E w \in Worker : WorkerStep(w)

Spec == Init /\ [][Next]_vars

=============================================================================
