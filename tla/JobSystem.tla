------------------------------- MODULE JobSystem -------------------------------
(***************************************************************************)
(* lib/bikeshed: the job system.  The jobs of a group are created against  *)
(* a reservation, wait for their dependencies, are executed by the worker  *)
(* threads and by the thread that waits for the group, may stop as blocked *)
(* (EBUSY) until ResumeJob, and are counted down as they complete.  One    *)
(* group is modelled: WriteContent and WriteAssets make one each and wait  *)
(* for it before they return.                                              *)
(*                                                                         *)
(* Clients name their jobs and compose the operators below into the steps  *)
(* of their job functions.  The shed is large enough for every job (its    *)
(* limit is 1048571), so nobody executes a job from within CreateJobs; its *)
(* semaphore counts, so no worker misses a ready job.                      *)
(***************************************************************************)
EXTENDS Integers, FiniteSets, TLC

CONSTANT Workers   \* m_WorkerCount

ASSUME WorkersType == Workers \in Nat

VARIABLE group     \* the job group, see NewGroup

JobStates == {"created", "ready", "running", "blocked", "complete"}

(* ReserveJobs: a group for n jobs, with no job yet. *)
NewGroup(n) ==
    [reserved |-> n,       \* m_ReservedJobCount
     pending |-> 0,        \* m_PendingJobCount
     cancelled |-> FALSE,  \* m_Cancelled
     waiting |-> FALSE,    \* a thread is in WaitForAllJobs
     returning |-> {},     \* jobs whose first call has not returned EBUSY yet
     job |-> <<>>,         \* the state of each job created (m_SubmittedJobCount)
     waitsFor |-> <<>>]    \* its dependencies that are not resolved

Jobs(g) == DOMAIN g.job
InState(g, s) == {j \in Jobs(g) : g.job[j] = s}

(* f, and v for each member of S. *)
Extend(f, S, v) == [x \in DOMAIN f \cup S |-> IF x \in S THEN v ELSE f[x]]

CreateJobs(g, js) ==
    [g EXCEPT !.pending = @ + Cardinality(js),
              !.job = Extend(@, js, "created"),
              !.waitsFor = Extend(@, js, {})]

AddDependencies(g, j, on) == [g EXCEPT !.waitsFor[j] = @ \cup on]

(* ReadyJobs and ResumeJob put jobs in the ready queue. *)
ReadyJobs(g, js) ==
    [g EXCEPT !.job = [j \in DOMAIN @ |-> IF j \in js THEN "ready" ELSE @[j]]]

(* The store accepted the call a job made, and will call its OnComplete.   *)
BlockJob(g, j) == [g EXCEPT !.job[j] = "blocked", !.returning = @ \cup {j}]

(* The job's function returns EBUSY and its thread is free.  ResumeJob may *)
(* have come before: then another thread has called the job again, it may  *)
(* be complete, and the group gone.  What returns looks at none of them.   *)
ReturnJob(g, j) == [g EXCEPT !.returning = @ \ {j}]

(* A job function returned 0: the group counts it down, and the jobs that  *)
(* waited for nothing else become ready.                                   *)
EndJob(g, j) ==
    LET freed == {k \in Jobs(g) : g.waitsFor[k] = {j}} IN
    [g EXCEPT !.pending = @ - 1,
              !.waitsFor = [k \in DOMAIN @ |-> @[k] \ {j}],
              !.job = [k \in DOMAIN @ |-> CASE k = j -> "complete"
                                            [] k \in freed -> "ready"
                                            [] OTHER -> @[k]]]

(* WaitForAllJobs: the waiting thread executes jobs as well. *)
WaitForJobs(g) == [g EXCEPT !.waiting = TRUE]

Threads(g) == Workers + (IF g.waiting THEN 1 ELSE 0)

(* A thread takes a ready job out of the queue and calls it. *)
CanStart(g, j) ==
    /\ g.job[j] = "ready"
    /\ Cardinality(InState(g, "running")) + Cardinality(g.returning) < Threads(g)

(* WaitForAllJobs looks at the cancel token on each turn of its loop.  The *)
(* token is set by whoever holds it, at any time.                          *)
CanCancel(g) == g.waiting /\ g.pending > 0 /\ ~g.cancelled

CancelJobs(g) == [g EXCEPT !.cancelled = TRUE]

AllJobsDone(g) == g.waiting /\ g.pending = 0

GroupType(g) ==
    /\ g.reserved \in Nat /\ g.pending \in Int
    /\ g.cancelled \in BOOLEAN /\ g.waiting \in BOOLEAN
    /\ g.returning \subseteq Jobs(g)
    /\ \A j \in Jobs(g) : g.job[j] \in JobStates
    /\ DOMAIN g.waitsFor = Jobs(g)
    /\ \A j \in Jobs(g) : g.waitsFor[j] \subseteq Jobs(g)
================================================================================
