---------------------------- MODULE JobSystemProofs ----------------------------
(***************************************************************************)
(* What the operations of the job system do to a group: facts the proofs   *)
(* about its clients cite.  A group is well formed (IsGroup), and its      *)
(* pending count is that of the jobs that are not complete (Counted).      *)
(***************************************************************************)
EXTENDS JobSystem, FiniteSetTheorems, TLAPS

(* A group, and more exactly than GroupType. *)
IsGroup(g) ==
    g \in [reserved : Nat, pending : Int, cancelled : BOOLEAN, waiting : BOOLEAN,
           returning : SUBSET Jobs(g), job : [Jobs(g) -> JobStates],
           waitsFor : [Jobs(g) -> SUBSET Jobs(g)]]

(* m_PendingJobCount: the jobs that are not complete. *)
Counted(g) ==
    /\ IsFiniteSet(Jobs(g))
    /\ g.pending = Cardinality(Jobs(g) \ InState(g, "complete"))

(* The operation left all of the group alone but its jobs. *)
SameCall(g, h) ==
    /\ h.reserved = g.reserved /\ h.cancelled = g.cancelled /\ h.waiting = g.waiting

(* What GroupType asks for.                                                *)
LEMMA GroupIsTyped == ASSUME NEW g, IsGroup(g) PROVE GroupType(g)
BY DEF IsGroup, GroupType, Jobs

(* ReserveJobs makes a group without jobs.                                 *)
LEMMA NewGroupFacts ==
    ASSUME NEW n \in Nat
    PROVE  /\ IsGroup(NewGroup(n)) /\ Counted(NewGroup(n)) /\ Jobs(NewGroup(n)) = {}
           /\ NewGroup(n).reserved = n /\ ~NewGroup(n).cancelled /\ ~NewGroup(n).waiting
           /\ NewGroup(n).pending = 0
<1> DEFINE g == NewGroup(n)
<1>1. Jobs(g) = {} /\ DOMAIN g.waitsFor = {}
  BY DEF NewGroup, Jobs
<1>2. IsGroup(g)
  BY <1>1 DEF NewGroup, Jobs, IsGroup
<1>3. Counted(g)
  BY <1>1, FS_EmptySet DEF NewGroup, Counted, InState
<1> QED
  BY <1>1, <1>2, <1>3 DEF NewGroup

(* CreateJobs adds jobs that wait for nothing, and counts them.            *)
LEMMA CreateJobsFacts ==
    ASSUME NEW g, IsGroup(g), Counted(g),
           NEW js, IsFiniteSet(js), js \cap Jobs(g) = {},
           NEW h, h = CreateJobs(g, js)
    PROVE  /\ IsGroup(h) /\ Counted(h) /\ SameCall(g, h)
           /\ Jobs(h) = Jobs(g) \cup js
           /\ \A j \in js : h.job[j] = "created" /\ h.waitsFor[j] = {}
           /\ \A j \in Jobs(g) : h.job[j] = g.job[j] /\ h.waitsFor[j] = g.waitsFor[j]
<1> DEFINE jobs == Extend(g.job, js, "created")
           waits == Extend(g.waitsFor, js, {})
           open == Jobs(g) \ InState(g, "complete")
<1>1. /\ DOMAIN jobs = Jobs(g) \cup js /\ DOMAIN waits = Jobs(g) \cup js
      /\ \A j \in js : jobs[j] = "created" /\ waits[j] = {}
      /\ \A j \in Jobs(g) : jobs[j] = g.job[j] /\ waits[j] = g.waitsFor[j]
  BY DEF IsGroup, Jobs, Extend
<1>2. /\ jobs \in [Jobs(g) \cup js -> JobStates]
      /\ waits \in [Jobs(g) \cup js -> SUBSET (Jobs(g) \cup js)]
  <2>1. jobs = [j \in Jobs(g) \cup js |-> jobs[j]] /\ waits = [j \in Jobs(g) \cup js |-> waits[j]]
    BY <1>1 DEF Extend
  <2>2. \A j \in Jobs(g) \cup js : jobs[j] \in JobStates /\ waits[j] \in SUBSET (Jobs(g) \cup js)
    BY <1>1 DEF IsGroup, Jobs, JobStates
  <2> QED
    BY <2>1, <2>2
<1>3. Cardinality(js) \in Nat
  BY FS_CardinalityType
<1>4. h = [reserved |-> g.reserved, pending |-> g.pending + Cardinality(js),
           cancelled |-> g.cancelled, waiting |-> g.waiting, returning |-> g.returning,
           job |-> jobs, waitsFor |-> waits]
  BY DEF CreateJobs, IsGroup
<1>5. Jobs(h) = Jobs(g) \cup js
  BY <1>1, <1>4 DEF Jobs
<1> HIDE DEF jobs, waits
<1>6. IsGroup(h)
  BY <1>2, <1>3, <1>4, <1>5 DEF IsGroup
<1>7. Jobs(h) \ InState(h, "complete") = open \cup js
  BY <1>1, <1>4, <1>5 DEF InState
<1>8. Cardinality(open \cup js) = Cardinality(open) + Cardinality(js)
  <2>1. IsFiniteSet(open) /\ open \cap js = {}
    BY FS_Subset DEF Counted
  <2>2. Cardinality(open \cup js) = Cardinality(open) + Cardinality(js) - Cardinality(open \cap js)
    BY <2>1, FS_Union
  <2>3. Cardinality(open \cap js) = 0
    BY <2>1, FS_EmptySet
  <2>4. Cardinality(open) \in Nat
    BY <2>1, FS_CardinalityType
  <2> QED
    BY <1>3, <2>2, <2>3, <2>4
<1>9. Counted(h)
  <2>1. IsFiniteSet(Jobs(h))
    BY <1>5, FS_Union DEF Counted
  <2> QED
    BY <1>4, <1>5, <1>7, <1>8, <2>1 DEF Counted
<1> QED
  BY <1>1, <1>4, <1>5, <1>6, <1>9 DEF SameCall

(* AddDependecies changes what a job waits for, and nothing else.          *)
LEMMA AddDependenciesFacts ==
    ASSUME NEW g, IsGroup(g), Counted(g),
           NEW j \in Jobs(g), NEW on \in SUBSET Jobs(g),
           NEW h, h = AddDependencies(g, j, on)
    PROVE  /\ IsGroup(h) /\ Counted(h) /\ SameCall(g, h)
           /\ Jobs(h) = Jobs(g) /\ h.job = g.job
           /\ h.waitsFor[j] = g.waitsFor[j] \cup on
           /\ \A k \in Jobs(g) \ {j} : h.waitsFor[k] = g.waitsFor[k]
<1>1. h = [g EXCEPT !.waitsFor = [g.waitsFor EXCEPT ![j] = g.waitsFor[j] \cup on]]
  BY DEF AddDependencies
<1>2. /\ h.job = g.job /\ SameCall(g, h) /\ h.pending = g.pending
      /\ h.waitsFor = [g.waitsFor EXCEPT ![j] = g.waitsFor[j] \cup on]
  BY <1>1 DEF IsGroup, SameCall
<1>3. IsGroup(h)
  BY <1>1, <1>2 DEF IsGroup, Jobs
<1> QED
  BY <1>2, <1>3 DEF Counted, InState, Jobs, IsGroup

(* ReadyJobs and ResumeJob make jobs ready.                                *)
LEMMA ReadyJobsFacts ==
    ASSUME NEW g, IsGroup(g), Counted(g), NEW js,
           \A j \in js \cap Jobs(g) : g.job[j] # "complete",
           NEW h, h = ReadyJobs(g, js)
    PROVE  /\ IsGroup(h) /\ Counted(h) /\ SameCall(g, h)
           /\ Jobs(h) = Jobs(g) /\ h.waitsFor = g.waitsFor
           /\ \A j \in js \cap Jobs(g) : h.job[j] = "ready"
           /\ \A j \in Jobs(g) \ js : h.job[j] = g.job[j]
<1>1. /\ h.waitsFor = g.waitsFor /\ SameCall(g, h) /\ h.pending = g.pending
      /\ h.returning = g.returning
      /\ h.job = [j \in Jobs(g) |-> IF j \in js THEN "ready" ELSE g.job[j]]
  BY DEF ReadyJobs, IsGroup, SameCall, Jobs
<1>2. Jobs(h) = Jobs(g)
  BY <1>1 DEF Jobs
<1>3. h = [reserved |-> h.reserved, pending |-> h.pending, cancelled |-> h.cancelled,
           waiting |-> h.waiting, returning |-> h.returning, job |-> h.job,
           waitsFor |-> h.waitsFor]
  BY DEF ReadyJobs, IsGroup
<1>4. IsGroup(h)
  BY <1>1, <1>2, <1>3 DEF IsGroup, SameCall, JobStates
<1>5. InState(h, "complete") = InState(g, "complete")
  BY <1>1, <1>2 DEF InState
<1> QED
  BY <1>1, <1>2, <1>4, <1>5 DEF Counted

(* A job that is not complete changes its state, and may be about to       *)
(* return.                                                                 *)
JobMoves(g, h, j, s) ==
    \E r \in SUBSET Jobs(g) : h = [g EXCEPT !.job[j] = s, !.returning = r]

LEMMA JobMovesFacts ==
    ASSUME NEW g, IsGroup(g), Counted(g), NEW j \in Jobs(g), g.job[j] # "complete",
           NEW s \in JobStates \ {"complete"}, NEW h, JobMoves(g, h, j, s)
    PROVE  /\ IsGroup(h) /\ Counted(h) /\ SameCall(g, h)
           /\ Jobs(h) = Jobs(g) /\ h.waitsFor = g.waitsFor
           /\ h.job[j] = s
           /\ \A k \in Jobs(g) \ {j} : h.job[k] = g.job[k]
<1> PICK r \in SUBSET Jobs(g) : h = [g EXCEPT !.job[j] = s, !.returning = r]
  BY DEF JobMoves
<1>1. /\ h.waitsFor = g.waitsFor /\ SameCall(g, h) /\ h.pending = g.pending
      /\ h.job = [g.job EXCEPT ![j] = s] /\ h.returning = r
  BY DEF IsGroup, SameCall, Jobs
<1>2. Jobs(h) = Jobs(g)
  BY <1>1 DEF Jobs
<1>3. h = [reserved |-> h.reserved, pending |-> h.pending, cancelled |-> h.cancelled,
           waiting |-> h.waiting, returning |-> h.returning, job |-> h.job,
           waitsFor |-> h.waitsFor]
  BY DEF IsGroup
<1>4. IsGroup(h)
  BY <1>1, <1>2, <1>3 DEF IsGroup, SameCall
<1>5. InState(h, "complete") = InState(g, "complete")
  BY <1>1, <1>2 DEF InState, IsGroup
<1> QED
  BY <1>1, <1>2, <1>4, <1>5 DEF Counted, IsGroup

(* A job is called and stays, or the store accepts its call.               *)
LEMMA JobCalledFacts ==
    ASSUME NEW g, IsGroup(g), Counted(g), NEW j \in Jobs(g), g.job[j] # "complete",
           NEW s \in JobStates \ {"complete"},
           NEW h, \/ h = [g EXCEPT !.job[j] = s]
                  \/ h = BlockJob(g, j) /\ s = "blocked"
    PROVE  /\ IsGroup(h) /\ Counted(h) /\ SameCall(g, h)
           /\ Jobs(h) = Jobs(g) /\ h.waitsFor = g.waitsFor
           /\ h.job[j] = s
           /\ \A k \in Jobs(g) \ {j} : h.job[k] = g.job[k]
<1>1. g.returning \in SUBSET Jobs(g) /\ g.returning \cup {j} \in SUBSET Jobs(g)
  BY DEF IsGroup
<1>2. CASE h = [g EXCEPT !.job[j] = s]
  <2>1. h = [g EXCEPT !.job[j] = s, !.returning = g.returning]
    BY <1>2 DEF IsGroup
  <2>2. JobMoves(g, h, j, s)
    BY ONLY <1>1, <2>1, Zenon DEF JobMoves
  <2> QED
    BY <2>2, JobMovesFacts
<1>3. CASE h = BlockJob(g, j) /\ s = "blocked"
  <2>1. h = [g EXCEPT !.job[j] = s, !.returning = g.returning \cup {j}]
    BY <1>3 DEF BlockJob
  <2>2. JobMoves(g, h, j, s)
    BY ONLY <1>1, <2>1, Zenon DEF JobMoves
  <2> QED
    BY <2>2, JobMovesFacts
<1> QED
  BY <1>2, <1>3

(* A job returns 0: it is counted down, and readies who waited for it      *)
(* alone.                                                                  *)
LEMMA EndJobFacts ==
    ASSUME NEW g, IsGroup(g), Counted(g), NEW j \in Jobs(g), g.job[j] # "complete",
           g.waitsFor[j] = {},
           \A k \in Jobs(g) : g.waitsFor[k] # {} => g.job[k] # "complete",
           NEW h, h = EndJob(g, j)
    PROVE  /\ IsGroup(h) /\ Counted(h) /\ SameCall(g, h)
           /\ Jobs(h) = Jobs(g)
           /\ h.job[j] = "complete"
           /\ \A k \in Jobs(g) \ {j} :
                h.job[k] = IF g.waitsFor[k] = {j} THEN "ready" ELSE g.job[k]
           /\ \A k \in Jobs(g) : h.waitsFor[k] = g.waitsFor[k] \ {j}
<1> DEFINE freed == {k \in Jobs(g) : g.waitsFor[k] = {j}}
           open == Jobs(g) \ InState(g, "complete")
<1>1. /\ SameCall(g, h) /\ h.pending = g.pending - 1
      /\ h.returning = g.returning
      /\ h.waitsFor = [k \in Jobs(g) |-> g.waitsFor[k] \ {j}]
      /\ h.job = [k \in Jobs(g) |-> CASE k = j -> "complete"
                                     [] k \in freed -> "ready"
                                     [] OTHER -> g.job[k]]
  BY DEF IsGroup, SameCall, Jobs, EndJob
<1>2. Jobs(h) = Jobs(g)
  BY <1>1 DEF Jobs
<1>3. h = [reserved |-> h.reserved, pending |-> h.pending, cancelled |-> h.cancelled,
           waiting |-> h.waiting, returning |-> h.returning, job |-> h.job,
           waitsFor |-> h.waitsFor]
  BY DEF IsGroup, EndJob
<1>4. h.job[j] = "complete" /\ \A k \in Jobs(g) \ {j} :
        h.job[k] = IF g.waitsFor[k] = {j} THEN "ready" ELSE g.job[k]
  BY <1>1
<1>5. h.job \in [Jobs(g) -> JobStates] /\ h.waitsFor \in [Jobs(g) -> SUBSET Jobs(g)]
  BY <1>1 DEF IsGroup, JobStates
<1>6. IsGroup(h)
  BY <1>1, <1>2, <1>3, <1>5 DEF IsGroup, SameCall
<1>7. Jobs(h) \ InState(h, "complete") = open \ {j}
  BY <1>2, <1>4 DEF InState
<1>8. Cardinality(open \ {j}) = Cardinality(open) - 1
  <2>1. IsFiniteSet(open) /\ j \in open
    BY FS_Subset DEF Counted, InState
  <2> QED
    BY <2>1, FS_RemoveElement
<1>9. Counted(h)
  BY <1>1, <1>2, <1>7, <1>8 DEF Counted
<1> QED
  BY <1>1, <1>2, <1>4, <1>6, <1>9

(* The call waits, or finds its cancel token set, or a job returns EBUSY.  *)
LEMMA WaitFacts ==
    ASSUME NEW g, IsGroup(g), Counted(g),
           NEW h, h \in {WaitForJobs(g), CancelJobs(g)} \/ \E j : h = ReturnJob(g, j)
    PROVE  /\ IsGroup(h) /\ Counted(h) /\ h.reserved = g.reserved /\ h.pending = g.pending
           /\ Jobs(h) = Jobs(g) /\ h.job = g.job /\ h.waitsFor = g.waitsFor
BY DEF IsGroup, Counted, Jobs, InState, WaitForJobs, CancelJobs, ReturnJob

(* When the call returns, every job is complete.                           *)
LEMMA DoneFacts ==
    ASSUME NEW g, IsGroup(g), Counted(g), AllJobsDone(g)
    PROVE  g.pending = 0 /\ \A j \in Jobs(g) : g.job[j] = "complete"
<1>1. IsFiniteSet(Jobs(g) \ InState(g, "complete"))
  BY FS_Subset DEF Counted
<1>2. Jobs(g) \ InState(g, "complete") = {}
  BY <1>1, FS_EmptySet DEF Counted, AllJobsDone
<1> QED
  BY <1>2 DEF InState, AllJobsDone
================================================================================
